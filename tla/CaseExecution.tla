--------------------------- MODULE CaseExecution ---------------------------
(***************************************************************************)
(* One background execution of the execution service: the task that runs   *)
(* a saved case, or the cases of a suite comparison one after the other,   *)
(* in disposable environments, the collector of its events, and the        *)
(* clients that stream them.                                               *)
(*                                                                         *)
(* Task and clients share one event loop: what lies between two awaits of  *)
(* the source is one step here.  Executions share nothing but the table of *)
(* handles, as every environment is a transaction on session-local tables. *)
(***************************************************************************)
EXTENDS Integers, Sequences

CONSTANTS
  Clients,        \* clients of GET /runs/{id}/events
  Buffer,         \* subscriber_buffer of the collector
  Evaluators,     \* number of evaluator results of an answered run
  MaxTurnEvents,  \* bound on the events of one agent turn
  MaxCases        \* bound on the cases of a comparison

ASSUME ExecutionAssumption ==
  /\ Buffer \in Nat \ {0} /\ Evaluators \in Nat
  /\ MaxTurnEvents \in Nat /\ MaxCases \in Nat \ {0}

VARIABLES
  kind,     \* "run" or "comparison"
  pc,       \* where the task is in run_bundle, "done" when the task is done
  left,     \* bundle runs still to do, with the current one
  env,      \* the transaction of the current environment
  spoken,   \* events of the current turn
  answered, \* the turn gave a response and was not aborted
  error,    \* the exception that is being handled, or "none"
  events,   \* the persisted transcript; an event's sequence is its position
  status,   \* ExecutionHandle.status
  code,     \* ExecutionHandle.error_code
  result,   \* transcript stored in the result
  client,   \* state of every client
  queue,    \* subscriber queue of every client, sequence numbers
  got,      \* sequence numbers every client received
  since     \* the client is owed the events after this one

task == <<kind, pc, left, env, spoken, answered, error, status, code, result>>
handle == <<status, code, result>>
clients == <<client, got, since>>
vars == <<kind, pc, left, env, spoken, answered, error, events, status, code, result,
          client, queue, got, since>>

(* A comparison runs every case with the baseline and with the candidate.  *)
Init ==
  /\ kind \in {"run", "comparison"}
  /\ pc = "validate"
  /\ left \in IF kind = "run" THEN {1} ELSE {2 * n : n \in 1 .. MaxCases}
  /\ env = "none"
  /\ spoken = 0 /\ answered = FALSE
  /\ error = "none"
  /\ events = <<>>
  /\ status = "running" /\ code = "none" /\ result = <<>>
  /\ client = [c \in Clients |-> "idle"]
  /\ queue = [c \in Clients |-> <<>>]
  /\ got = [c \in Clients |-> <<>>]
  /\ since = [c \in Clients |-> 0]

-----------------------------------------------------------------------------
(* SimulationEventCollector.emit                                           *)

(* A full subscriber queue loses its oldest event.                         *)
Newest(s) == IF Len(s) <= Buffer THEN s ELSE SubSeq(s, Len(s) - Buffer + 1, Len(s))

(* Positions of the k events that follow the transcript.                   *)
Fresh(k) == [i \in 1 .. k |-> Len(events) + i]

(* Emit some events in one step.  The runs of a comparison have collectors *)
(* of their own that nobody reads.                                         *)
Emit(kinds) ==
  IF kind = "comparison" THEN UNCHANGED <<events, queue>>
  ELSE /\ events' = events \o kinds
       /\ queue' = [c \in Clients |->
                      IF client[c] = "streaming" THEN Newest(queue[c] \o Fresh(Len(kinds)))
                      ELSE queue[c]]

Silent == UNCHANGED <<events, queue>>

-----------------------------------------------------------------------------
(* run_bundle                                                              *)

(* An exception jumps to the cleanup and is reported after it.             *)
Raise(e) == pc' = "cleanup" /\ error' = e

(* Mutated: an exception that escapes the task is not recorded.            *)
FailSilently(e) == pc' = "done" /\ UNCHANGED handle

(* ExecutionService._fail, after which the task returns.                   *)
Fail(e) ==
  /\ pc' = "done" /\ status' = "failed" /\ code' = e
  /\ UNCHANGED result

(* Bundles the reference agent cannot serve, and cases of another model    *)
(* than the baseline's, are rejected before anything is provisioned.       *)
Validate(accepted) ==
  /\ pc = "validate"
  /\ IF accepted THEN pc' = "create" /\ UNCHANGED handle ELSE Fail("invalid_bundle")
  /\ Silent
  /\ UNCHANGED <<kind, left, env, spoken, answered, error, clients>>

(* Mutated: a failed verification leaves its transaction to nobody.        *)
CreateLeaks(outcome) ==
  /\ pc = "create"
  /\ IF outcome = "created"
     THEN /\ pc' = "seed" /\ env' = "open" /\ UNCHANGED error
          /\ Emit(<<"environment.created">>)
     ELSE /\ Raise("environment_error") /\ Silent
          /\ env' = "leaked"
  /\ UNCHANGED <<kind, left, spoken, answered, handle, clients>>

(* When the target cannot be verified, create rolls back itself.           *)
Create(outcome) ==
  /\ pc = "create"
  /\ IF outcome = "created"
     THEN /\ pc' = "seed" /\ env' = "open" /\ UNCHANGED error
          /\ Emit(<<"environment.created">>)
     ELSE /\ Raise("environment_error") /\ Silent
          /\ env' = IF outcome = "unverified" THEN "closed" ELSE "none"
  /\ UNCHANGED <<kind, left, spoken, answered, handle, clients>>

Seed(loaded) ==
  /\ pc = "seed"
  /\ IF loaded
     THEN pc' = "turn" /\ UNCHANGED error /\ Emit(<<"environment.seeded">>)
     ELSE Raise("environment_error") /\ Silent
  /\ spoken' = 0 /\ answered' = FALSE
  /\ UNCHANGED <<kind, left, env, handle, clients>>

(* The agent's spans, faults and mutations become events as they happen.   *)
TurnEvent ==
  /\ pc = "turn" /\ spoken < MaxTurnEvents
  /\ spoken' = spoken + 1
  /\ Emit(<<"turn">>)
  /\ UNCHANGED <<kind, pc, left, env, answered, error, handle, clients>>

(* A refused access aborts the run but not its report; other exceptions    *)
(* are wrapped, domain errors pass through.                                *)
TurnEnds(outcome) ==
  /\ pc = "turn"
  /\ answered' = (outcome = "answered")
  /\ IF outcome \in {"answered", "aborted"} THEN pc' = "capture" /\ UNCHANGED error
     ELSE Raise(outcome)
  /\ Silent
  /\ UNCHANGED <<kind, left, env, spoken, handle, clients>>

Capture(read) ==
  /\ pc = "capture"
  /\ IF read THEN pc' = "report" /\ UNCHANGED error ELSE Raise("environment_error")
  /\ Silent
  /\ UNCHANGED <<kind, left, env, spoken, answered, handle, clients>>

Repeat(x, k) == [i \in 1 .. k |-> x]

(* Evaluators run on answered turns; there is no await until destroy.      *)
Report(evaluated) ==
  /\ pc = "report"
  /\ evaluated \/ answered
  /\ IF evaluated
     THEN /\ pc' = "cleanup" /\ UNCHANGED error
          /\ Emit(Repeat("evaluator.result", IF answered THEN Evaluators ELSE 0)
                  \o <<"run.completed">>)
     ELSE Raise("execution_failed") /\ Silent
  /\ UNCHANGED <<kind, left, env, spoken, answered, handle, clients>>

(* A failing cleanup is an error of its own only when nothing else failed. *)
Verdict(cleaned) ==
  IF cleaned \/ error # "none" THEN error ELSE "cleanup_failure"

(* Mutated: the transcript is taken before the environment is destroyed.   *)
ReturnEarly(verdict) ==
  IF verdict # "none" THEN Fail(verdict) /\ UNCHANGED left
  ELSE IF left > 1 THEN pc' = "validate" /\ left' = left - 1 /\ UNCHANGED handle
  ELSE /\ pc' = "done" /\ left' = 0 /\ status' = "completed" /\ result' = events
       /\ UNCHANGED code

(* What follows the last await of a bundle run: ExecutionService._fail or  *)
(* _finish, or the next bundle of the comparison.                          *)
Return(verdict) ==
  IF verdict # "none" THEN Fail(verdict) /\ UNCHANGED left
  ELSE IF left > 1 THEN pc' = "validate" /\ left' = left - 1 /\ UNCHANGED handle
  ELSE /\ pc' = "done" /\ left' = 0 /\ status' = "completed" /\ result' = events'
       /\ UNCHANGED code

(* destroy: forgets the transaction, rolls it back and closes the session. *)
Destroy(rolledBack, closed) ==
  LET cleaned == rolledBack /\ closed IN
  /\ pc = "cleanup" /\ env = "open"
  /\ env' = IF rolledBack \/ closed THEN "closed" ELSE "broken"
  /\ IF cleaned THEN Emit(<<"environment.destroyed">>) ELSE Silent
  /\ Return(Verdict(cleaned))
  /\ error' = "none"
  /\ UNCHANGED <<kind, spoken, answered, clients>>

(* Without a transaction it has nothing to do.                             *)
DestroyNothing ==
  /\ pc = "cleanup" /\ env # "open"
  /\ Return(error)
  /\ error' = "none" /\ Silent
  /\ UNCHANGED <<kind, env, spoken, answered, clients>>

-----------------------------------------------------------------------------
(* ExecutionService.events and SimulationEventCollector.stream             *)

(* After completion the client gets the persisted transcript, before it a  *)
(* queue that starts empty; a comparison has no collector to stream.       *)
Connect(c) ==
  /\ client[c] = "idle"
  /\ since' = [since EXCEPT ![c] = IF pc = "done" THEN 0 ELSE Len(events)]
  /\ IF kind = "comparison"
     THEN client' = [client EXCEPT ![c] = "refused"] /\ UNCHANGED got
     ELSE IF pc = "done"
     THEN /\ client' = [client EXCEPT ![c] = "ended"]
          /\ got' = [got EXCEPT ![c] = [i \in 1 .. Len(events) |-> i]]
     ELSE client' = [client EXCEPT ![c] = "streaming"] /\ UNCHANGED got
  /\ UNCHANGED <<task, events, queue>>

Receive(c) ==
  /\ client[c] = "streaming" /\ queue[c] # <<>>
  /\ got' = [got EXCEPT ![c] = Append(@, Head(queue[c]))]
  /\ queue' = [queue EXCEPT ![c] = Tail(@)]
  /\ UNCHANGED <<task, events, client, since>>

(* Mutated: the stream ends with the task, whatever is still queued.       *)
EndStreamUndrained(c) ==
  /\ client[c] = "streaming" /\ pc = "done"
  /\ client' = [client EXCEPT ![c] = "ended"]
  /\ UNCHANGED <<task, events, queue, got, since>>

(* The task is done and the queue drained; checked at least every 100 ms.  *)
EndStream(c) ==
  /\ client[c] = "streaming" /\ pc = "done" /\ queue[c] = <<>>
  /\ client' = [client EXCEPT ![c] = "ended"]
  /\ UNCHANGED <<task, events, queue, got, since>>

Leave(c) ==
  /\ client[c] = "streaming"
  /\ client' = [client EXCEPT ![c] = "left"]
  /\ queue' = [queue EXCEPT ![c] = <<>>]
  /\ UNCHANGED <<task, events, got, since>>

-----------------------------------------------------------------------------
RunStep ==
  \/ \E accepted \in BOOLEAN : Validate(accepted)
  \/ \E outcome \in {"created", "unverified", "unreachable"} : Create(outcome)
  \/ \E loaded \in BOOLEAN : Seed(loaded)
  \/ TurnEvent
  \/ \E outcome \in {"answered", "aborted", "domain_error", "model_run_error"} : TurnEnds(outcome)
  \/ \E read \in BOOLEAN : Capture(read)
  \/ \E evaluated \in BOOLEAN : Report(evaluated)
  \/ \E rolledBack, closed \in BOOLEAN : Destroy(rolledBack, closed)
  \/ DestroyNothing

ClientStep(c) == Receive(c) \/ EndStream(c)

Next ==
  \/ RunStep
  \/ \E c \in Clients : Connect(c) \/ ClientStep(c) \/ Leave(c)

Spec == Init /\ [][Next]_vars

(* The event loop keeps running the task and the connected streams.        *)
FairSpec == Spec /\ WF_vars(RunStep) /\ \A c \in Clients : WF_vars(ClientStep(c))

-----------------------------------------------------------------------------
(* Properties                                                              *)

EventKinds == {"environment.created", "environment.seeded", "environment.destroyed", "turn",
               "evaluator.result", "run.completed"}
Codes == {"none", "invalid_bundle", "environment_error", "domain_error", "model_run_error",
          "execution_failed", "cleanup_failure"}

(* Types of the handle, the task's progress and the streams.               *)
TypeOK ==
  /\ kind \in {"run", "comparison"}
  /\ pc \in {"validate", "create", "seed", "turn", "capture", "report", "cleanup", "done"}
  /\ left \in 0 .. 2 * MaxCases /\ spoken \in 0 .. MaxTurnEvents /\ answered \in BOOLEAN
  /\ env \in {"none", "open", "closed", "broken"}
  /\ error \in Codes /\ code \in Codes
  /\ events \in Seq(EventKinds) /\ result \in Seq(EventKinds)
  /\ status \in {"running", "completed", "failed"}
  /\ client \in [Clients -> {"idle", "streaming", "ended", "left", "refused"}]
  /\ queue \in [Clients -> Seq(Nat)] /\ got \in [Clients -> Seq(Nat)]
  /\ since \in [Clients -> Nat]
  /\ \A c \in Clients : Len(queue[c]) <= Buffer

(* "The environment is always destroyed or rolled back" (run_bundle):      *)
(* wherever a bundle run stopped, no transaction is open outside it, one   *)
(* that could be neither rolled back nor closed fails the execution, and a *)
(* failed cleanup is the reason given only for a run that had got through: *)
(* it never hides the error that led to the cleanup (pending).             *)
EnvironmentIsRolledBack ==
  /\ pc \in {"validate", "create", "done"} =>
       /\ env \in {"none", "closed", "broken"}
       /\ env = "broken" => status = "failed"
  /\ code = "cleanup_failure" /\ kind = "run" =>
       events # <<>> /\ events[Len(events)] = "run.completed"

(* A completed run's result holds the whole transcript, and that one shows *)
(* an environment created, seeded, reported on and destroyed, in order.    *)
ResultIsTranscript ==
  status = "completed" /\ kind = "run" =>
    LET n == Len(events) IN
    /\ result = events
    /\ n >= 4
    /\ events[1] = "environment.created" /\ events[2] = "environment.seeded"
    /\ events[n - 1] = "run.completed" /\ events[n] = "environment.destroyed"
    /\ \A i \in 3 .. n - 2 : events[i] \in {"turn", "evaluator.result"}

(* A client receives events in order and at most once, and a stream that   *)
(* ends by itself has delivered the end of the run, however slow the       *)
(* client is, and all the client is owed if that fits its queue: draining, *)
(* overflow and the end of the task lose nothing else.                     *)
StreamIsDelivered ==
  \A c \in Clients :
    LET seen == got[c] \o queue[c] IN
    /\ \A i, j \in DOMAIN seen : i < j => seen[i] < seen[j]
    /\ client[c] = "ended" =>
         /\ since[c] = Len(events) \/ (got[c] # <<>> /\ got[c][Len(got[c])] = Len(events))
         /\ Len(events) - since[c] <= Buffer =>
              got[c] = [i \in 1 .. Len(events) - since[c] |-> since[c] + i]

(* The inductive invariant behind the three properties above.              *)

(* Where the task is decides what there is of an environment, and what is  *)
(* on record: an error only while it is handled, an end only at the end.   *)
TaskInv ==
  /\ pc \in {"validate", "create"} => env \in {"none", "closed"}
  /\ pc \in {"seed", "turn", "capture", "report"} => env = "open"
  /\ pc = "cleanup" => env \in {"none", "open", "closed"} /\ (error = "none" => env = "open")
  /\ pc = "done" => env # "open"
  /\ pc # "cleanup" => error = "none"
  /\ pc # "done" => status = "running" /\ code = "none" /\ left > 0
  /\ error # "cleanup_failure"

(* A run's first n events: created, seeded, and what agent and evaluators  *)
(* have to say.                                                            *)
Began(n) ==
  /\ n >= 2 /\ events[1] = "environment.created" /\ events[2] = "environment.seeded"
  /\ \A i \in 3 .. n : events[i] \in {"turn", "evaluator.result"}

(* The transcript of a run, as far as it got.                              *)
TranscriptInv ==
  IF kind = "comparison" THEN events = <<>>
  ELSE /\ left <= 1
       /\ pc \in {"validate", "create"} => events = <<>>
       /\ pc = "seed" => Len(events) = 1 /\ events[1] = "environment.created"
       /\ pc \in {"turn", "capture", "report"} => Began(Len(events))
       /\ pc = "cleanup" /\ error = "none" =>
            Began(Len(events) - 1) /\ events[Len(events)] = "run.completed"

(* Events that a client has got or has queued: those it is owed, in order, *)
InOrder(seen, from, n) ==
  /\ from <= n
  /\ \A i \in DOMAIN seen : from < seen[i] /\ seen[i] <= n
  /\ \A i, j \in DOMAIN seen : i < j => seen[i] < seen[j]

(* up to the newest, and all of them unless they overflowed its queue.     *)
UpToDate(seen, from, n) ==
  /\ from = n \/ (seen # <<>> /\ seen[Len(seen)] = n)
  /\ n - from <= Buffer =>
       Len(seen) = n - from /\ \A i \in DOMAIN seen : seen[i] = from + i

StreamInv ==
  \A c \in Clients :
    /\ client[c] # "streaming" => queue[c] = <<>>
    /\ client[c] \in {"idle", "refused"} => got[c] = <<>>
    /\ client[c] = "ended" => pc = "done"
    /\ InOrder(got[c] \o queue[c], since[c], Len(events))
    /\ client[c] \in {"streaming", "ended"} =>
         UpToDate(got[c] \o queue[c], since[c], Len(events))

IInv == TypeOK /\ TaskInv /\ TranscriptInv /\ StreamInv
          /\ EnvironmentIsRolledBack /\ ResultIsTranscript

(* The task ends with a status, and every stream ends with it.             *)
ExecutionEnds ==
  /\ <>(pc = "done" /\ status # "running")
  /\ \A c \in Clients : client[c] = "streaming" ~> client[c] \in {"ended", "left"}
=============================================================================

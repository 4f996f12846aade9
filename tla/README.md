# Verification of the agent observability lab

TLA+ models of the state-changing parts of `src/src/app` (paths below are
relative to it), checked with TLC on small instances; the safety properties are also
proved with TLAPS, for every value of the constants. `PROJECT.json`
lists components, runs, mutations, hazards, findings and theorems, and maps every definition to
the lines it stands for.

## 1. Inventory

| Part | State | Operations | Interacts with |
|---|---|---|---|
| Support domain (`domain/support`) | orders, policies, tickets in PostgreSQL | read order, `request_refund` (read, check, conditional UPDATE), create ticket | one database session for each HTTP request; commits after the answer (`db.py`) |
| Support workflow (`domain/workflow`) | LangGraph checkpoint of every workflow, its metadata, one lock for each workflow and service | start, resume with confirm/reject, inspect; eight nodes with retries | support domain through the request's session; checkpoints on a connection of their own |
| Support agent (`adapters/pydantic_ai_agent.py`, `domain/agent`) | routing, pending proposals, confirmed refunds, last order, last error | route, six tools, draft, confirmation by the application, assembly of the reply | support domain, through the observed and faulted repository |
| Fault script, observer (`domain/simulation/faults.py`, `postgres.py`) | entries used up, mutation log | match a call, delay/timeout/malformed, compare rows around a write | wraps the support repository |
| Provisioner and bundle runner (`domain/simulation`) | one transaction on session-local tables for each environment | create, verify, seed, run a turn, capture, evaluate, destroy | agent, event collector |
| Event collector (`events.py`) | transcript, bounded subscriber queues | emit, subscribe, unsubscribe | runner (producer), SSE clients |
| Execution service (`domain/execution`) | table of handles: task, status, error code, result | start run/comparison, stream, read result | runner, collector, `api/runs_router.py` |
| Evidence, annotations, cases, suites (`domain/evidence`, `failures/feedback.py`, `domain/regression`, `domain/suite`) | append-only numbered versions | import / save, with or without an advisory lock | PostgreSQL unique constraints |
| Failure review (`domain/failures/service.py`) | proposals, one review each | propose, review, require confirmed | grouping (its input), regression cases (its output) |
| Evaluators and comparisons (`simulation/evaluators.py`, `domain/comparison`, `domain/suite`) | the runs finished so far | evaluate a run, compare two, run a suite, a model cohort or the model lab | bundle runner, once per case and configuration |
| Reference workflows (`domain/reference_workflows`, `reference/workflows`) | in-memory records and a trail of transitions, one repository per workflow and process | seed, tools, reset, destroy | reference runner, user simulator |
| Reference runner (`domain/reference`) | one run of a planned side: index, attempts, entries used up | planned calls, faults, retries, approval gate, cleanup, comparison of both sides | reference workflows |
| User simulator (`domain/user_simulator`) | conversation, whether an approval is pending, a report on disk, an event log | turns, end reasons, partial report, clean-up | a reference workflow, or the support agent in a sandbox |
| Set-up and workbench (`domain/user_simulator/{catalog,plugins,preflight}.py`, `cli/simulate.py`, `cli/textual_simulate.py`) | settings, the question that is asked, an inbox of messages, the timeline | arguments, prompts, wizard, preflight, launch, cancel, filters | YAML catalog, the machine, the run's task |
| Grouping, retrieval, bundle compiler, evidence mapping, audit, telemetry, other commands | none that lasts | pure functions, formatting, network I/O | - |

What is hard in each part, and what makes it correct:

* **Support workflow.** Two requests of one workflow; a request that dies between
  its checkpoint and its commit; a deadline that passes during a run; transient
  failures counted by two mechanisms. Correct: an order is refunded once, for its
  owner, after a confirmation; a workflow's report agrees with the database; every
  request is answered.
* **Support agent.** The model chooses tools and arguments freely; faults and other
  sessions act in between. Correct: no refund without proposal and confirmation; the reply and the
  mutation log say what happened.
* **Execution.** A failure at every await, cleanup that itself fails, subscribers
  that come late, leave, or are slow. Correct: no environment survives its run; no error
  is hidden; the transcript is whole; streams are ordered and end.
* **Stores.** Concurrent saves of the same key, rollbacks, content that comes back.
  Correct: versions are consecutive; answers name what is stored.
* **Failure review.** Two reviewers, a proposal saved twice, a review that arrives
  before the proposal's commit. Correct: one decision, final, told to everyone; only confirmed
  groups handed on.
* **Evaluators and comparisons.** Rule tables over incomplete measurements, in three variants; a
  case that raises. Correct: a recommendation is earned by the runs; a safety
  regression keeps the baseline however much else is missing; both sides ran the same cases.
* **Reference runner.** A retry budget for each planned call against fault entries for the
  run; a clean-up that fails after success. Correct: the state is what the calls that ran make of the
  seed; a call is retried at most as often as its budget; a baseline's defect is seen, a
  candidate's relief is real; a failed clean-up fails the verdict.
* **User simulator.** The wording of one answer decides what the next typed approval
  authorises; a turn that fails, or a Ctrl-C, at every await leaves a partial report. Correct: no sensitive
  call without an approval; the goal is only reported when observed; report, log and exit agree.
* **Workbench.** Keys, run events and a preflight that is awaited, in any order. Correct: only a checked
  set-up is launched; the timeline shows each event of a run once and in order.

The hazards are listed line by line in `PROJECT.json`; those no property covers carry a note.

## 2. Plan

| Step | Module | Builds on | State |
|---|---|---|---|
| 1 | `SupportWorkflow`, `SupportWorkflowProofs` | support domain included | done |
| 2 | `AgentTurn`, `AgentTurnProofs` | fault script and observer included | done |
| 3 | `CaseExecution`, `CaseExecutionProofs` | runner, provisioner, collector, service | done |
| 4 | `VersionedStores`, `VersionedStoresProofs` | - | done |
| 5 | `FailureReview`, `FailureReviewProofs` | - | done |
| 6 | `ReferenceWorkflows`, `ReferenceCommand`, `ReferenceRun` | - | done |
| 7 | `SupportReplies`, `SupportTurn` | 2: the abstract turn, and the proof in `AgentTurnProofs` that `AgentTurn` implements it | done |
| 8 | `SupportCases`, `PersonaRun` | 6 and 7: turns as `SupportTurn` promises them | done |
| 9 | `RunEvaluation`, `SuiteComparison`, `SuiteComparisonProofs` | results of 3 | done |
| 10 | `SimulationSetup`, `Workbench` | 8: launches it | done |
| 11 | `LabCommands`, `LabCommandsProofs`, `TimelineProofs` | composition of 6, 8, 9, 10 | done |
| 12 | failure grouping and the recorded and stateful stand-ins (operators against a reference definition) | 5, 3 | left |
| 13 | a refund ledger implemented by `SupportWorkflow`; an append-only log implemented by `VersionedStores` | 1, 4 | left |

Every safety property that a passing run checks is a theorem; what is left to TLC is in section 5.
Theorems still worth proving: the two refinements of step 13.
`MC*` modules hold the values TLC needs; the modules themselves take all
parameters as CONSTANTS with named assumptions and declare no RECURSIVE
operator, so that every one can be proved about.

How the modules compose:

```
SupportReplies <- SupportTurn          (abstract turn)  <= implemented by  AgentTurn <- AgentTurnProofs
ReferenceWorkflows, SupportReplies <- SupportCases <- ReferenceCommand <- ReferenceRun, PersonaRun
SimulationSetup <- Workbench           RunEvaluation <- SuiteComparison <- SuiteComparisonProofs
LabCommands = ReferenceRun + PersonaRun + Workbench + SuiteComparison
LabCommands, SuiteComparisonProofs <- LabCommandsProofs <- TimelineProofs
SupportWorkflow, CaseExecution, VersionedStores, FailureReview   each by itself, with its ...Proofs
```

## 3. Modules

### SupportWorkflow

State: committed order status, row locks and tickets; the latest checkpoint
(`ckpt`), metadata and deadline of each workflow; and for each HTTP request its program
counter, the graph state its run holds (`view`), whether that state is already in the
checkpoint store (`dirty`), its uncommitted ticket and its attempt counters. `refunders`
and `consent` are history variables.

| Actions | Code |
|---|---|
| `Start`, `Resume`, `AskRefund` | the three routes that change state |
| `Inspect`, `Load` | `_resume`: checks on one read of the checkpoint, then `ainvoke` loads it again |
| `RouteNode` ... `Escalate` | one superstep each: the node and the conditional edge after it |
| `Transient` | an error that RetryPolicy retries, or that AttemptTracker turns into an escalation |
| `ExecuteRead`, `ExecuteUpdate`, `DirectRead`, `DirectUpdate` | `request_refund`, split between its read and its conditional UPDATE |
| `Persist` | the checkpointer writes the superstep, on its own connection |
| `Answer`, `Commit`, `Abort` | response, `session.commit()`, any death before it |
| `Expire` | the deadline passes |

LangGraph, its checkpointer and PostgreSQL are modelled as the code uses them: a run
continues from the latest checkpoint, a conditional UPDATE takes a row lock until the
end of the session.

| Run | Instance | Shows |
|---|---|---|
| `wf_reliable` | 3 HTTP requests, no death, transient failures of routing and policy retrieval, an order id without a row, fairness | `ReportIsStored`, `RequestEnds`, `ConsentResolves`, `ExpiredIsFrozen` |
| `wf_shared` | 4 requests of 2 customers through one service, all routes and intents, a flaky response node, 1 death | `ProposalIsGrounded`, `RejectionHolds`, `RefundOnce`, `RefundIsAuthorised`, `OutcomeIsFinal` |
| `wf_reject_race` | 3 requests, one service each, as the router builds them | **violated** `RejectionHolds`: a confirm and a reject that interleave leave a workflow that reports a rejection, and a refund |
| `wf_lost_refund` | 3 requests, 1 death | **violated** `CompletedIsRefunded`: the completed checkpoint survives, the refund does not |

Bounds: three requests let a start, a confirm and a rival meet; the fourth adds a direct
refund or a second rival. A workflow shares nothing with another but the order, and the
direct refund already plays the rival for the order, so one workflow suffices. Two customers
are needed only for `RefundIsAuthorised`. A node is tried at most twice, so failures are not
bounded otherwise; which nodes are `Flaky` is split between the two runs. `RejectionHolds`
is stated for as long as no request dies: after a death the checkpoint may name an outcome that
its rival's commit contradicts, which is what `wf_lost_refund` shows for refunds.
Requests and workflows are interchangeable, so `wf_shared` uses symmetry; `wf_reliable` checks liveness and does not.

Fairness: weak fairness of `Serve(r)` only: once a request has arrived, the event loop and the
database go on with it. Arrivals, deadlines and deaths are not fair. The row-lock wait
is covered because the holder is itself served.

Proved (`SupportWorkflowProofs`): `TypeCorrect`, `RefundsOnce`, `RefundsAuthorised`,
`ProposalsGrounded`, all from `Invariance`. The properties alone are not inductive. `IInv`
adds `CallInv` (a request that runs the graph has a started workflow), `AttemptInv` (attempts
are spent only by the current or an earlier node, which is what bounds them), `RunInv`
(what a state, in the checkpoint or in a run's view, vouches for: the order is the actor's, it was
delivered, "confirm" came from an accepted confirm call), and `LockInv` (whoever locks or
refunded a row may do so, and a locked row is still delivered). `RunInv` is stated of
checkpoints *and* of views because requests load one from the other at any time; that the
same facts hold of both is why the interleaving found by `wf_reject_race` still cannot
refund without consent.

Proved of the outcomes: `ReportsStored` (for as long as no request died) and `ExpiredFrozen` in both deployments, `RejectionsHold` and
`OutcomesFinal` for a deployment that shares the service, which is what the two violated runs say it takes. They rest on `OutcomesHold`, whose
invariants follow the workflow and not the request: `FlowInv` (only a request that runs the graph holds unsaved state, and nobody resumes
a start that has not answered), `SharedInv` (under one lock table one request runs a workflow at a time, and its view is the
checkpoint unless it has something to save; so nothing stale is written back), `ReportInv` (a state that claims a refund or a ticket, in a checkpoint or a view,
has it committed or in a session that can still commit) and `RefundedInv` (a workflow that refunded has only its end before it). They are stated for
"no request died" exactly where `wf_lost_refund` shows a death breaks them. `NodeEffect` says once what every node has in common,
so that an invariant is examined for the graph, not for every node.

### AgentTurn, and SupportTurn which it implements

One turn. The model is a nondeterministic caller: any tool of the intent, any order id, any
sequence, until it drafts an answer, fails, or `RequestLimit` is reached. `Elsewhere` is a
refund committed by another session between two steps. `ReadForRefund`/`UpdateRow` split `request_refund`.
`Live`, `NextEntry`, `Fault` and `Spent` are the fault script; `Report` is the observer.
`Outcome` and `Assemble` are the reconciliation of the reply. The confirmation that the
application adds after the model has answered is part of `Draft`/`ReadForRefund`.

Abstracted: tool calls of one model request run one after the other; the policy version read is
any; wording, citations (one Boolean) and tracing are left out; normalised arguments are order ids.

`SupportTurn` is what a caller sees: a single step from a request to a reply, a refund or not,
a ticket or not. `SupportReplies` lists the replies and says, in `Earned`, which of them a
request and the data account for: a refund needs a confirmed request and a delivered order of the
customer's, "not found" needs that something can be missing, an unconfirmed or
retried answer needs what it claims, and so on. Two modules use it: `AgentTurn`
implements it (`CallerIsServed`, by `INSTANCE SupportTurn WITH view <- ..., result <- ...`), and `PersonaRun`
relies on it for the turns of a conversation.

| Run | Instance | Shows |
|---|---|---|
| `agent_turn` | 3 orders (2 of the customer, 1 of them contended), 5 fault scripts, request limit 8 as in the code | `RefundNeedsConsent`, `MutationsAreEffects`, `RetriesAreScripted`, `TurnEnds`, `CallerIsServed` |
| `agent_report` | the same, no faults | **violated** `ConfirmedRefundIsReported`: a status call for another order hides the executed refund from the reply |

The scripts contain each kind of entry, one with arguments, one that repeats, and pairs that hit the
same refund; three orders are the fewest with a foreign one and two to confuse.
Fairness: weak fairness of `TurnStep` (the loop goes on and the model answers); the other
session owes nothing.

Proved (`AgentTurnProofs`): `TypeCorrect`, `RefundsNeedConsent`, `MutationsExact`, `RepliesTrue`. `IInv` adds
`RowInv` (a row changes only by a refund), `ProposalInv` (a proposal is the customer's, was
delivered, is disjoint from the confirmed ones, and none is left for a confirmed request when the
reply is assembled), `TargetInv` (a refund under way rests on a proposal and the request's
confirmation) and `ReplyInv`. `RetriesScripted`: a retry is answered only by a timeout of the script
that was not consumed before (`TimeoutIsFresh`), so there are at most as many as there are such entries.

Proved (`AgentTurnProofs`, its last part): `TurnIsServed == Spec => CallerIsServed`, for every set of orders, script and
set of contended orders. The tools decide from what they remember, the caller judges by what there
is, so `IInv` is not enough: `SeenInv` says what each memory slot vouches for (a remembered order exists and is
the customer's, a remembered error could have happened, a retry was scripted, a status that
differs from the initial one was changed by a confirmed refund or elsewhere). With `IInv /\ SeenInv` every step of the turn
is one `Answer` of `SupportTurn` or leaves its variables alone.

### CaseExecution

The background task of one execution with `run_bundle` inside it (`Validate`, `Create`, `Seed`,
`TurnEvent`, `TurnEnds`, `Capture`, `Report`, `Destroy`, `DestroyNothing`), the collector (`Emit`) and the
clients of the SSE route (`Connect`, `Receive`, `EndStream`, `Leave`). Each action is what
the event loop runs between two awaits, and each await may fail. A comparison is
the same loop with two bundle runs for each case and collectors nobody reads. Executions share
nothing but the table of handles, so one is modelled.

| Run | Instance | Shows |
|---|---|---|
| `exec_run` | 2 clients, queues of 2, turns of at most 2 events, a run or a comparison of 1 case | `EnvironmentIsRolledBack`, `ResultIsTranscript`, `StreamIsDelivered`, `ExecutionEnds` |

A run emits up to eight events, so a queue of two overflows and drains several
times (the code's buffer is larger; only its being exceeded matters). Fairness: weak fairness
of the task and of each connected stream, which one event loop serves in turn;
connecting and leaving are the client's choice.

Proved (`CaseExecutionProofs`): `TypeCorrect`, `EnvironmentsRolledBack`, `ResultsAreTranscripts`,
`StreamsDelivered`, for any number of clients, cases, evaluators and events and any buffer. `IInv`
adds `TaskInv` (where the task is decides what there is of an environment, and an error is on its way only
during the clean-up), `TranscriptInv` (what the events so far begin with, for each place) and `StreamInv` (what a client has
got and has queued is in order, reaches the newest event, and is complete unless more than a
buffer's worth was owed). The heart is the lemma `QueueGrows`: appending any number of events and dropping the
oldest keeps all three, because what is dropped is a prefix of the *queue* and so a gap
in the middle of what the client sees, never at its end.

### VersionedStores

One module for four stores that differ in one point: imports and annotations hold a
transaction-level advisory lock and look for the content among all versions
(`Lock`, `Find`); cases and suites do neither and compare with the latest version only (`Read`,
`Reread`). `Insert` meets the two unique constraints, and waits for an uncommitted
colliding row as PostgreSQL does. A session saves up to `MaxSaves` contents of one key, then commits or aborts.

| Run | Instance | Shows |
|---|---|---|
| `stores` | 3 sessions, 1 key, 2 contents, 2 saves each | `HistoryIsConsecutive`, `ImportsAreStored`, `CaseAnswersAreUsable`, `SaveReturns` |
| `stores_resave` | 1 session, 3 saves | **violated** `SavedCaseIsStored`: saving A, B, A answers "updated" with the version that holds B |

Keys do not interact (constraints and locks are by key), so one suffices; two contents
allow same, different and returning content; three sessions allow a holder, a waiter and one that
aborts. Fairness: weak fairness of each session's steps; a session that has its answer is ended.

Proved (`VersionedStoresProofs`): `TypeCorrect`, `HistoriesConsecutive`, `LockSuffices`, `ImportsStored`,
`CaseAnswersUsable`, for any number of sessions, keys, contents and saves. `IInv` adds `RowInv` (rows never
collide, and each builds on one that its session could see, so that a rollback cannot leave a gap), `ReadInv`
and `LockInv` (what a session read stays there until it inserts; under the lock it is all there is),
and `AnswerInv` (what an answer claims is visible to its session).

### FailureReview

Proposals and reviews as two tables, one session for each call. `Look`, `Insert`, `LookAgain` are `save_proposal` with
its savepoint; `LockRow`, `Check`, `SaveReview`, `Update` the statements of `review_proposal`; `ReadProposal`, `ReadReview` the two
reads of `require_confirmed`. Uncommitted rows are seen by their own session only, collide
with others' (which wait), and vanish on `Rollback`. A proposal's id is a hash of its content, so a
review may name a row not committed yet and lock nothing: then only the unique
constraint on reviews is left, and two reviewers can wait for each other. PostgreSQL
detects that and rolls one back (`Victim`). Input validation happens before the database is touched and is left
out; a reviewer's name stands for name and reason.

| Run | Instance | Shows |
|---|---|---|
| `review` | 3 sessions, 1 group, 2 reviewers, 2 kinds | `DecisionIsRecorded`, `ReviewAnswersAreTrue`, `ConsumedIsConfirmed`, `DecisionIsFinal`, `SessionEnds` |

Groups interact only through a session that proposes several, always in one order, so that no cycle
arises. Three sessions are a proposer, and two rivals. Fairness: weak
fairness of each session's statements, of its commit and of deadlock detection.

Proved (`FailureReviewProofs`): `TypeCorrect`, `DecisionsRecorded`, `ReviewAnswersTrue`, `ConsumedConfirmed`,
`DecisionsFinal`, for any number of sessions, groups and reviewers. `IInv` adds, for each session, `Owns` (its rows
vanish with it, its review is of a committed proposal whose lock it holds before it commits), `Excludes` (a
reviewer that found the proposal when it was asked holds the lock from `LockRow` on, so what it checked still
holds when it saves) and `Answering` (what it is about to answer is its own review's decision or the
final one). One lemma, `OthersStaySound`, shows that no step of a session disturbs another's share of the
invariant, so each action is examined for its own session only.

### LabCommands: the commands of the lab

One process runs one command; `LabCommands` composes the four below, and its run
checks all of them. They share the workflow's repository, a singleton of the process.

**`ReferenceWorkflows`** gives for each of the seven workflows the approved seed, what each tool does to the records and
when it refuses, which transitions the contract permits and requires, and the two reviewed plans. A
repository is its business records, each with its status, and the trail of
transitions; arguments are "reviewed", "other" or "malformed", as far as a tool tells them apart.
**`ReferenceCommand`** adds the repository's life: seed, reset, destroy, and `Replay`, what a sequence of calls makes of the seed.

**`ReferenceRun`** (`reference/runner.py`, `reference/comparison`): baseline, then candidate, each a plan (a reviewed one or any other of at most
`MaxCalls` calls) under a fault script. `NextCall`, `Retry`, `Passed`, `ToolReturns`, `Escape` are the loop,
`Finish` the verdict with its clean-up, `Compare` the comparison.

* `StateIsReplay`: the records are what this side's calls, each run once and in order, make of the seed.
* `BudgetIsPerCall`: a call got past timed out at most twice, one given up three times itself.
* `NoFalseRelief`: a verdict for the candidate rests on two clean runs. `DefectIsDetected`: with faults within the
  budget each workflow's declared defect is reproduced and seen.

**`SupportCases`, `PersonaRun`** (`user_simulator/simulator.py`): a conversation of a persona with a reference workflow, or with the
support agent in the sandbox of one of eight cases. Both models answer anything: of a text the model keeps whether it asks
for approval and whether it ends the conversation, which is all the code reads of it. `PersonaTurn`, `AgentAsks`,
`AgentUses`, `AgentGivesUp`, `SupportAnswers`, `Judge` are a turn; `ModelFails`, `EventFails`, `Interrupted` may hit every
await; `PartialReport`, `Closing`, `Cleanup`, `Exit` end every run.

* `ConsentMatches`: an approval counts for the call that the answer before it named; no sensitive tool of
  a gated workflow runs before the first one; the support agent refunds at most once, and only after an approval typed in answer to a request for it.
* `GoalIsObserved`: "success" only when the calls took the seed where the contract wants it, by permitted transitions;
  in the sandbox, when the expected reply is true of the order.
* `ReportAndLogAgree`: report, log, notices and exit tell one story, whatever failed.

**`RunEvaluation`, `SuiteComparison`** (`simulation/evaluators.py`, `domain/comparison`, `domain/suite/runner.py`): the eleven evaluators, the verdict of a run and of
a pair as operators; the loop over the cases, with runs that raise, and the three recommendations (suite, model cohort, model lab).

* `RecommendationIsEarned`: a recommended candidate lost no task and no safety evaluator and won a task or money, on measured cases.
* `SafetyKeepsBaseline`: a lost safety evaluator is never outvoted by missing measurements.
* `ComparisonIsFair`: both sides ran the same cases, in configurations that differ only as declared.

**`SimulationSetup`, `Workbench`** (`user_simulator/catalog.py`, `plugins.py`, `preflight.py`, `cli/simulate.py`, `cli/textual_simulate.py`): the catalog and what makes it
usable, the preflight, the three ways of setting up a run, and the full-screen app: an inbox of messages handled one at a time,
a launch handler that awaits the preflight, the run's task whose events are messages, filter, category, pause, cancel, exit.

* `RunIsGuarded`: whatever is pressed while the preflight runs, only settings from the catalog that passed it are launched, and the verdict of a run that is over stays.
* `TimelineIsExact`: the display is the arrived events that pass the filter and no pause held back, in order; no event of a run is lost.

| Run | Instance | Shows |
|---|---|---|
| `lab_commands` | all seven workflows, 4 fault scripts beside their own, 8 support cases, 7 catalogs, 5 machines, cohorts of up to 3 cases, 8 run behaviours, 3 models | the properties above, and `CommandEnds` |
| `lab_safety` | the same | **violated** `NoSafetyIsTraded`: the model lab recommends a candidate that lost a safety evaluator, if the baseline had failed another in that case |

Bounds. `MaxTurns` 3 (1 to 50 in the code): a request for approval, the approval and what follows; a first
answer must not count as approved, a second may. `MaxChoices` 1 (8): a turn of more choices is several turns without a reply between. `MaxCalls` 3: a call and
two others to be confused with, beside the reviewed plans which are whole. `MinComparable` 2 (3) and `MaxCohort` 2
(20): thresholds that cohorts can miss, reach and exceed. `MaxPresses` 2, `MaxEvents` 2, `MaxInputs` 3: two buttons queued behind one
another, two events around a filter change. A command uses only its own part; the other variables rest at one value.

Abstracted: cases always match the suite's members; money and latency are small integers without rounding; provider and model name are one
field, and so are prompt and its hash; a sandbox turn's writes have no order among
themselves and several tickets count as one; of a reply only whether the case expects it. In the workbench the settings of a launched run
are kept only for a second press of "launch", and the persona, request and goal questions, which take any text, are left out.

Fairness: weak fairness of `ReferenceCommandStep`, `SimulateStep`, `SetupStep` and `CompareStep`, each
one coroutine that runs until it returns; a hosted model answers or fails in the
end. Faults, Ctrl-C and what a user types or presses are not fair.

Proved (`SuiteComparisonProofs`), of `SuiteSpec`, a comparison by itself: `SafetyKept`, `ComparisonsFair` and `RecommendationsEarned`, for any bundles, runs, thresholds and
numbers of them. `SuiteInv` adds that each side's runs share one configuration
(the two are chosen far apart from the check that compares the declared ones), that no model is
held against another than the recorded one, and that a result is made of the four verdicts. `SafetyKept`
needs that a complete run can be compared, so that `Judged(i).safety` sees the loss although a missing measurement hides
it from the verdict, and that the four verdicts partition the cases (cardinalities by `FiniteSetTheorems`). `RecommendationsEarned` reads each verdict back to what both runs
measured (`VerdictRead`), case by case (`CaseHeld`), and compares sums of costs, a recursive function over the cases: that it exists and is a number (`SumsExist`, `CostIsNumber`) is an induction.

Proved (`LabCommandsProofs`), of `LabCommands`, whatever command runs and for any fault scripts and bounds:

* The reference command. `RunInvariance` (`RunInv`: what ran was let through by tools and gate; how often each planned call timed out, and that the counter tells only
  that of the present one; what a verdict rests on), and from it `BudgetsPerCall` and `ReliefsReal`. `StatesReplayed` adds `ReplayInv` (the repository is
  `Replay` of the calls, and a reviewed plan ran up to the index), with an induction that appending a call takes the replay one step on (`ReplayOneMore`).
  `DefectsDetected` adds `DefectInv` and `OwnInv` and goes through the seven reviewed plans call by call (`BaselineAchieves`, `CandidateVerdict`). That the
  workflow's own script stops one call once is proved (`OwnStops`), not assumed.
* The persona. `PersonaInvariance` (`PersonaInv`), and from it `ConsentsMatch`, `GoalsObserved` and `StoriesAgree`. `AskedInv` ties what waits for approval to the answer that named it, `ApprovedInv`
  the calls that ran to an approval, `SandboxInv` the sandbox's one refund to a consent (using what `SupportTurn` promises of a turn), `GoalInv` the report to the repository
  that was observed, and `StoryInv` report, log, notice and exit to each other. The last is needed because the clean-up may itself fail or be interrupted at each write: `CleanupStory` shows each way it may end.
* The set-up and the workbench. `RunsGuarded`: `WorkbenchInv` says that what waits for a preflight was validated and is still what the page holds (`SoundInv`: nothing can be
  typed while it waits, and a second launch on the live page finds either nothing or what was launched), and where there may be runs at all (`FlowsInv`).
* The timeline (`TimelineProofs`). `TimelinesExact`: `ArrivalInv` counts what was displayed or held together with what is still in the inbox, and says that for each run it is
  the events 1, 2, ... that the run emitted, each once; `ViewInv` that the last filter change under way carries the filter's present value, so that whoever takes it renders for that value.
  Uniqueness is what makes pauses work: an event taken during a pause is none of those already displayed, so holding it back takes nothing away (`ReceiveTimeline`).
  Both rest on lemmas about `Picked`, a selection from a sequence as a recursive function: what one more entry at either end changes (`PickedMore`, `PickedFirst`).
* `ComparisonEmbedded`: the behaviours of `LabCommands` are behaviours of `SuiteSpec` with stuttering, so that what is proved of a comparison by itself holds of the command. It assumes that there
  is a study at all; commands that compare nothing rest at an arbitrary one.

Induction is over natural numbers, from the well-foundedness of `<` (`LessWF`, `Least`) as a lemma about sets of numbers (`Induction`), because a theorem that takes an
operator cannot be used by the provers. A recursive function is first shown to exist for every length by that lemma, and then to satisfy its equation.

## 4. Findings

1. `wf_reject_race`: `api/dependencies.py` builds a service, hence a lock table, for each request; the
   lock of `_resume` excludes nobody over HTTP. `wf_shared` shows that it would suffice.
2. `wf_lost_refund`: checkpoint and order are committed apart, the order later.
3. `agent_report`: `confirmed_refund_for` looks at one slot, `last_order`, that any later read overwrites.
4. `stores_resave`: `save_case` and `save_suite` compare with the latest version, the constraint with all.
5. `lab_safety`: `run_model_lab` counts a safety regression only in cases whose baseline failed no safety evaluator at all.

None of them breaks a proved property: an order is still refunded at most once and only with consent.

Noticed while reading, and not stated as properties (paths under `domain/` unless given):

* *Streams.* A late SSE subscriber gets only later events (`simulation/events.py:151-152` says every event). The theorem `StreamsDelivered` says what it does get.
* *Support personas.* The cases of a read timeout, a repeated step and a slow database can never end "verified": `run_support` passes no fault script
  (`user_simulator/simulator.py:558`), and nothing produces `ok_slow`. In two others some listed reason codes cannot occur with the expected outcome.
  The case of the unconfirmed refund permits delivered → refunded although its note says that the order stays delivered, so a run may end "verified" with the refund made.
  A failed event write inside the agent's model run is reported as `model_error`; Ctrl-C before the conversation leaves no report.
* *Approvals.* One approval admits every later sensitive tool of a persona run (`user_simulator/simulator.py:897`); `docs/reference_workflows/returns-resolution-agent.md:98` speaks of one action.
* *Workbench.* A second press of "launch" that was queued relaunches: both runs share the timeline, and `q` may leave during the second.
  A second queued "next" at the last question raises an IndexError (`cli/textual_simulate.py:1007-1016`). Events that arrive after the run returned overwrite the overview's last line. `n` and `back` discard edits.
* *Set-up.* `--max-turns 0` silently means the scenario's limit. The preflight checks neither `ENVIRONMENT=test` nor that the host is local, which
  `docs/user-simulator.md:61-70` and `user_simulator/preflight.py:5-6` promise; a profile that requires no URL runs on the default database (`user_simulator/simulator.py:547`); the issue "profile_refused" is unreachable.
* *Comparisons.* A suite with a declared prompt change never checks the baseline's model (`suite/runner.py:264`). An outcome regression with a missing measurement is "inconclusive" where
  `suite/schemas.py:168-170` says that any regression keeps the baseline.
* *Grouping.* With `min_samples >= 3` a border candidate can be put into two clusters (`failures/grouping.py:99-112`), so that coverage may exceed the bound of
  `FailureGroupingMetrics`; `proposals_from_result` keeps one candidate's events for each evidence id.
* *Fault scripts.* An entry that repeats shadows every later entry for the same tool (`simulation/faults.py:9`).

## 5. Checked only, and not modelled

Checked by TLC, not proved: every liveness property (`RequestEnds`, `ConsentResolves`, `TurnEnds`, `ExecutionEnds`, `SaveReturns`, `SessionEnds`, `CommandEnds`),
because neither fairness nor ENABLED is in the prover's reach.

Type invariants are proved (`TypeCorrect`, five modules) and so not listed in their runs; that of `LabCommands` was checked on the instance of its run, and its
parts that the proofs need are proved (`RunTypes`, `TalkTypes`, `SetupTypes`).
`RepliesTrue` and `LockSuffices` are theorems about properties that no run lists.

Assumptions throughout: sessions run at PostgreSQL's READ COMMITTED; rows of these tables are never
deleted; a commit either happens or does not; content hashes and uuid4 do not collide. The proofs also assume
the named ASSUMEs of the modules (`WorkflowAssumption`, `TurnAssumption`, `ExecutionAssumption`, `StoresAssumption`, `ReviewAssumption`, `SuiteAssumption`, `ScriptAssumption`, `CallAssumption`, `PersonaAssumption`, `MachinesAssumption`), which only say that
constants have their types, that markers are not elements of the sets they mark, and that a probe of the database has one of the outcomes the code tells apart.

Not modelled: failure grouping and its metrics and the recorded and stateful stand-ins (pure functions over
feature vectors and look-up tables; step 12 of the plan); the bundle compiler and the evidence sources (rewriting and mapping of documents);
retrieval (ranking and its numeric evaluation, read-only); telemetry (spans); the remaining
commands and the application's wiring, configuration and layout. None of them keeps state that two actors share.
`PROJECT.json` gives the reason for each.

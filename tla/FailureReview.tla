--------------------------- MODULE FailureReview ---------------------------
(***************************************************************************)
(* Proposed failure groups and their human review.  A grouping run saves   *)
(* its groups as proposals, reviewers confirm, correct or reject them, and *)
(* only a confirmed or corrected group may become a regression case.       *)
(*                                                                         *)
(* Every operation is one database session, which commits after its answer *)
(* (db.get_session) and runs at READ COMMITTED.  A proposal's id is a hash *)
(* of its content, so a review may name a proposal whose insertion is not  *)
(* committed yet: the row lock of review_proposal then locks nothing.      *)
(***************************************************************************)
EXTENDS Integers, FiniteSets

CONSTANTS
  Sessions,    \* database sessions, one operation each
  Groups,      \* fingerprints, numbered by the first candidate of the group
  Reviewers,   \* reviewer identities, with the reason they give
  Kinds,       \* failure kinds
  Predicted    \* [Groups -> Kinds]

Absent == "absent"    \* no row
Earlier == "earlier"  \* inserted and committed before
Nobody == "nobody"
NoKind == "no_kind"

ASSUME ReviewAssumption ==
  /\ Groups \subseteq Nat
  /\ Predicted \in [Groups -> Kinds]
  /\ {Absent, Earlier, Nobody} \cap Sessions = {}
  /\ NoKind \notin Kinds

VARIABLES
  row,      \* who inserted the proposal row of every group
  columns,  \* committed status and provenance of every proposal row
  review,   \* who inserted the review row of every group
  holder,   \* the session that holds the proposal row's lock
  pc,       \* where every session is
  ask,      \* what it was asked for
  todo,     \* groups a proposing session has still to save
  told      \* the proposal, or the confirmed group, it answers with

tables == <<row, columns, review, holder>>
vars == <<row, columns, review, holder, pc, ask, todo, told>>

Decisions == [decision: {"confirm", "reject"}, kind: {NoKind}, by: Reviewers]
             \cup [decision: {"correct"}, kind: Kinds, by: Reviewers]

Proposed == [status |-> "proposed", kind |-> NoKind, by |-> Nobody]
Columns == {Proposed}
           \cup [status: {"confirmed", "rejected"}, kind: {NoKind}, by: Reviewers]
           \cup [status: {"corrected"}, kind: Kinds, by: Reviewers]

Asks == [op: {"none"}]
        \cup [op: {"propose"}, groups: SUBSET Groups]
        \cup [op: {"review"}, group: Groups, known: BOOLEAN, decision: Decisions]
        \cup [op: {"consume"}, group: Groups]
NoAsk == [op |-> "none"]

Nothing == [about |-> "nothing"]
Answers == {Nothing} \cup [about: {"proposal"}, is: Columns]
           \cup [about: {"confirmed"}, kind: Kinds, review: Decisions]

Init ==
  /\ row \in [Groups -> {Absent, Earlier}]
  /\ columns = [g \in Groups |-> Proposed]
  /\ review = [g \in Groups |-> Absent]
  /\ holder = [g \in Groups |-> Nobody]
  /\ pc = [s \in Sessions |-> "idle"]
  /\ ask = [s \in Sessions |-> NoAsk]
  /\ todo = [s \in Sessions |-> {}]
  /\ told = [s \in Sessions |-> Nothing]

-----------------------------------------------------------------------------
(* What a statement sees: committed rows, and the session's own.           *)

Ended == {"committed", "rolled_back"}
CommittedRow(g) == row[g] = Earlier \/ \E s \in Sessions : row[g] = s /\ pc[s] = "committed"
CommittedReview(g) == \E s \in Sessions : review[g] = s /\ pc[s] = "committed"

Group(s) == ask[s].group
Go(s, label) == pc' = [pc EXCEPT ![s] = label]
Tell(s, answer) == told' = [told EXCEPT ![s] = answer]
About(c) == [about |-> "proposal", is |-> c]

StatusOf == [d \in {"confirm", "correct", "reject"} |->
               CASE d = "confirm" -> "confirmed" [] d = "correct" -> "corrected"
                 [] d = "reject" -> "rejected"]

(* The proposal a decision turns the row into.                             *)
Outcome(d) == [status |-> StatusOf[d.decision], kind |-> d.kind, by |-> d.by]

(* Mutated: a session ends without giving its row lock back.               *)
KeepLocks(s) == UNCHANGED holder

Release(s) == holder' = [g \in Groups |-> IF holder[g] = s THEN Nobody ELSE holder[g]]

(* An exception, a lost connection: nothing the session wrote remains.     *)
Rollback(s) ==
  /\ Go(s, "rolled_back") /\ Release(s)
  /\ row' = [g \in Groups |-> IF row[g] = s THEN Absent ELSE row[g]]
  /\ review' = [g \in Groups |-> IF review[g] = s THEN Absent ELSE review[g]]
  /\ UNCHANGED <<columns, ask, todo, told>>

-----------------------------------------------------------------------------
(* propose_groups: one proposal after the other, in the order of clusters. *)

AskPropose(s, groups) ==
  /\ pc[s] = "idle" /\ groups # {}
  /\ ask' = [ask EXCEPT ![s] = [op |-> "propose", groups |-> groups]]
  /\ todo' = [todo EXCEPT ![s] = groups]
  /\ Go(s, "look")
  /\ UNCHANGED <<tables, told>>

IsNext(s, g) == g \in todo[s] /\ \A h \in todo[s] : g <= h

Saved(s, g) ==
  /\ todo' = [todo EXCEPT ![s] = @ \ {g}]
  /\ Go(s, IF todo[s] = {g} THEN "open" ELSE "look")

(* get_by_fingerprint                                                      *)
Look(s, g) ==
  /\ pc[s] = "look" /\ IsNext(s, g)
  /\ IF CommittedRow(g) THEN Saved(s, g) ELSE Go(s, "insert") /\ UNCHANGED todo
  /\ UNCHANGED <<tables, ask, told>>

(* Mutated: an insertion that resets the row it collides with.             *)
InsertOrReset(s, g) ==
  /\ pc[s] = "insert" /\ IsNext(s, g)
  /\ row[g] = Absent \/ CommittedRow(g)
  /\ row' = [row EXCEPT ![g] = s] /\ columns' = [columns EXCEPT ![g] = Proposed]
  /\ Saved(s, g)
  /\ UNCHANGED <<review, holder, ask, told>>

(* The insertion waits for a colliding one, and fails if that committed.   *)
Insert(s, g) ==
  /\ pc[s] = "insert" /\ IsNext(s, g)
  /\ \/ row[g] = Absent /\ row' = [row EXCEPT ![g] = s] /\ Saved(s, g)
     \/ CommittedRow(g) /\ Go(s, "look_again") /\ UNCHANGED <<row, todo>>
  /\ UNCHANGED <<columns, review, holder, ask, told>>

(* The row that won is kept, whatever was decided about it.                *)
LookAgain(s, g) ==
  /\ pc[s] = "look_again" /\ IsNext(s, g) /\ CommittedRow(g)
  /\ Saved(s, g)
  /\ UNCHANGED <<tables, ask, told>>

-----------------------------------------------------------------------------
(* review_proposal                                                         *)

AskReview(s, g, d) ==
  /\ pc[s] = "idle"
  /\ ask' = [ask EXCEPT ![s] = [op |-> "review", group |-> g, known |-> CommittedRow(g),
                                decision |-> d]]
  /\ Go(s, "lock")
  /\ UNCHANGED <<tables, todo, told>>

(* Mutated: the row is read without a lock.                                *)
LockNothing(s) ==
  /\ pc[s] = "lock" /\ Go(s, "check")
  /\ UNCHANGED <<tables, ask, todo, told>>

(* SELECT ... FOR UPDATE                                                   *)
LockRow(s) ==
  /\ pc[s] = "lock"
  /\ IF CommittedRow(Group(s))
     THEN /\ holder[Group(s)] = Nobody
          /\ holder' = [holder EXCEPT ![Group(s)] = s]
     ELSE UNCHANGED holder
  /\ Go(s, "check")
  /\ UNCHANGED <<row, columns, review, ask, todo, told>>

(* A repeated review gets the proposal again, any other is refused.        *)
Check(s) ==
  LET g == Group(s)
      same == columns[g] = Outcome(ask[s].decision) IN
  /\ pc[s] = "check"
  /\ \/ /\ CommittedRow(g) /\ columns[g] = Proposed
        /\ Go(s, "save") /\ UNCHANGED <<tables, ask, todo, told>>
     \/ /\ CommittedRow(g) /\ columns[g] # Proposed /\ same
        /\ Go(s, "open") /\ Tell(s, About(columns[g])) /\ UNCHANGED <<tables, ask, todo>>
     \/ /\ ~CommittedRow(g) \/ (columns[g] # Proposed /\ ~same)
        /\ Rollback(s)

(* Mutated: no unique constraint on the reviewed proposal.                 *)
SaveAnother(s) ==
  /\ pc[s] = "save"
  /\ review' = [review EXCEPT ![Group(s)] = s] /\ Go(s, "update")
  /\ UNCHANGED <<row, columns, holder, ask, todo, told>>

(* save_review waits for a colliding review; if that committed, the answer *)
(* is the proposal as it was decided.                                      *)
SaveReview(s) ==
  LET g == Group(s) IN
  /\ pc[s] = "save"
  /\ \/ review[g] = Absent /\ review' = [review EXCEPT ![g] = s]
        /\ Go(s, "update") /\ UNCHANGED told
     \/ CommittedReview(g) /\ Go(s, "open") /\ Tell(s, About(columns[g]))
        /\ UNCHANGED review
  /\ UNCHANGED <<row, columns, holder, ask, todo>>

(* update_proposal: the UPDATE takes the row lock if the SELECT had none.  *)
Update(s) ==
  /\ pc[s] = "update" /\ holder[Group(s)] \in {Nobody, s}
  /\ holder' = [holder EXCEPT ![Group(s)] = s]
  /\ Go(s, "open") /\ Tell(s, About(Outcome(ask[s].decision)))
  /\ UNCHANGED <<row, columns, review, ask, todo>>

-----------------------------------------------------------------------------
(* require_confirmed: two reads.                                           *)

AskConfirmed(s, g) ==
  /\ pc[s] = "idle"
  /\ ask' = [ask EXCEPT ![s] = [op |-> "consume", group |-> g]]
  /\ Go(s, "read")
  /\ UNCHANGED <<tables, todo, told>>

(* Mutated: any reviewed group will do.                                    *)
UsableReviewed(c) == c # Proposed

Usable(c) == c.status \in {"confirmed", "corrected"}

ReadProposal(s) ==
  LET c == columns[Group(s)] IN
  /\ pc[s] = "read"
  /\ IF CommittedRow(Group(s)) /\ Usable(c)
     THEN Go(s, "read_review") /\ Tell(s, About(c)) /\ UNCHANGED <<tables, ask, todo>>
     ELSE Rollback(s)

ReadReview(s) ==
  LET g == Group(s)
      seen == told[s].is IN
  /\ pc[s] = "read_review"
  /\ IF CommittedReview(g)
     THEN /\ Go(s, "open")
          /\ Tell(s, [about |-> "confirmed",
                      kind |-> IF seen.kind = NoKind THEN Predicted[g] ELSE seen.kind,
                      review |-> ask[review[g]].decision])
          /\ UNCHANGED <<tables, ask, todo>>
     ELSE Rollback(s)

-----------------------------------------------------------------------------
(* The end of a session                                                    *)

Commit(s) ==
  /\ pc[s] = "open"
  /\ Go(s, "committed") /\ Release(s)
  /\ columns' = [g \in Groups |-> IF review[g] = s THEN Outcome(ask[s].decision)
                                  ELSE columns[g]]
  /\ UNCHANGED <<row, review, ask, todo, told>>

Abort(s) == pc[s] \notin Ended \cup {"idle"} /\ Rollback(s)

(* Session s cannot go on before session t ends.                           *)
Waits(s, t) ==
  \/ pc[s] = "insert" /\ \E g \in Groups : IsNext(s, g) /\ row[g] = t /\ pc[t] \notin Ended
  \/ /\ ask[s].op = "review" /\ s # t
     /\ \/ pc[s] \in {"lock", "update"} /\ holder[Group(s)] = t
        \/ pc[s] = "save" /\ review[Group(s)] = t /\ pc[t] \notin Ended

(* The database ends a deadlock by rolling back one of the two sessions.   *)
Deadlocked(s) == \E t \in Sessions : Waits(s, t) /\ Waits(t, s)
Victim(s) == Deadlocked(s) /\ Rollback(s)

ReviewStep(s) == LockRow(s) \/ Check(s) \/ SaveReview(s) \/ Update(s)

Serve(s) ==
  \/ \E g \in Groups : Look(s, g) \/ Insert(s, g) \/ LookAgain(s, g)
  \/ ReviewStep(s) \/ ReadProposal(s) \/ ReadReview(s) \/ Commit(s) \/ Victim(s)

Arrive(s) ==
  \/ \E groups \in SUBSET Groups : AskPropose(s, groups)
  \/ \E g \in Groups, d \in Decisions : AskReview(s, g, d)
  \/ \E g \in Groups : AskConfirmed(s, g)

Next == \E s \in Sessions : Arrive(s) \/ Serve(s) \/ Abort(s)

Spec == Init /\ [][Next]_vars

(* The database serves every session that need not wait, and ends          *)
(* deadlocks.                                                              *)
FairSpec == Spec /\ \A s \in Sessions : WF_vars(Serve(s))

-----------------------------------------------------------------------------
(* Properties                                                              *)

(* Types of the tables and the sessions; a reviewed proposal carries its   *)
(* provenance, a corrected one its kind (validate_review).                 *)
TypeOK ==
  /\ row \in [Groups -> Sessions \cup {Absent, Earlier}]
  /\ columns \in [Groups -> Columns]
  /\ review \in [Groups -> Sessions \cup {Absent}]
  /\ holder \in [Groups -> Sessions \cup {Nobody}]
  /\ pc \in [Sessions -> {"idle", "look", "insert", "look_again", "lock", "check", "save",
                          "update", "read", "read_review", "open"} \cup Ended]
  /\ ask \in [Sessions -> Asks]
  /\ todo \in [Sessions -> SUBSET Groups]
  /\ told \in [Sessions -> Answers]

(* "Apply one review exactly once": a proposal row says it was reviewed    *)
(* exactly when a review is committed, and says what that review decided,  *)
(* however proposing and reviewing sessions interleave and die.            *)
DecisionIsRecorded ==
  \A g \in Groups :
    /\ columns[g] # Proposed <=> CommittedReview(g)
    /\ CommittedReview(g) => columns[g] = Outcome(ask[review[g]].decision)

Answered(s) == pc[s] = "committed" /\ ask[s].op = "review"

(* What review_proposal answered is what was decided, also to a reviewer   *)
(* who lost; and one that could know the proposal when asking is told only *)
(* of its own decision, as the row lock lets it see, and refuse, another.  *)
ReviewAnswersAreTrue ==
  \A s \in Sessions : Answered(s) =>
    /\ told[s] = About(columns[Group(s)]) /\ columns[Group(s)] # Proposed
    /\ ask[s].known => told[s] = About(Outcome(ask[s].decision))

HandsOnConfirmed(s) ==
  LET d == told[s].review IN
  /\ columns[Group(s)] = Outcome(d) /\ d.decision # "reject"
  /\ told[s].kind = IF d.decision = "correct" THEN d.kind ELSE Predicted[Group(s)]

(* "Only this schema may build a regression case": what require_confirmed  *)
(* hands on was confirmed or corrected, with the kind of its review.       *)
ConsumedIsConfirmed ==
  \A s \in Sessions : told[s].about = "confirmed" => HandsOnConfirmed(s)

(* The inductive invariant behind the safety properties                    *)

(* A session goes through the steps of what it was asked for.              *)
Called(s) ==
  /\ pc[s] = "idle" => ask[s] = NoAsk /\ told[s] = Nothing
  /\ pc[s] \in {"look", "insert", "look_again"} => ask[s].op = "propose"
  /\ pc[s] \in {"lock", "check", "save", "update"} => ask[s].op = "review"
  /\ pc[s] \in {"read", "read_review"} => ask[s].op = "consume"

(* It has rows only while it is not rolled back, and a review only of the  *)
(* group it was asked about, whose proposal is committed; before it commits*)
(* that review it holds the proposal's lock.                               *)
Owns(s) ==
  /\ \A g \in Groups : row[g] = s => pc[s] \notin {"idle", "rolled_back"}
  /\ \A g \in Groups : review[g] = s =>
       /\ ask[s].op = "review" /\ Group(s) = g /\ CommittedRow(g)
       /\ pc[s] \in {"update", "open", "committed"}
       /\ pc[s] = "open" => holder[g] = s
  /\ pc[s] = "update" => review[Group(s)] = s

(* Whoever could know the proposal holds its lock from LockRow on, so that *)
(* nobody else's review commits between its check and its own review.      *)
Excludes(s) ==
  ask[s].op = "review" =>
    /\ ask[s].known \/ pc[s] = "save" => CommittedRow(Group(s))
    /\ ask[s].known /\ pc[s] \in {"check", "save", "update"} => holder[Group(s)] = s
    /\ ask[s].known /\ pc[s] = "save" => columns[Group(s)] = Proposed

(* What it is about to answer is its own decision or the final one.        *)
Answering(s) ==
  /\ ask[s].op = "review" /\ pc[s] \in {"open", "committed"} =>
       \/ review[Group(s)] = s /\ told[s] = About(Outcome(ask[s].decision))
       \/ /\ told[s] = About(columns[Group(s)]) /\ columns[Group(s)] # Proposed
          /\ ask[s].known => columns[Group(s)] = Outcome(ask[s].decision)
  /\ pc[s] = "read_review" => told[s] = About(columns[Group(s)]) /\ Usable(columns[Group(s)])
  /\ told[s].about = "confirmed" => ask[s].op = "consume" /\ HandsOnConfirmed(s)

Sound(s) == Called(s) /\ Owns(s) /\ Excludes(s) /\ Answering(s)

IInv == TypeOK /\ DecisionIsRecorded /\ \A s \in Sessions : Sound(s)

(* A decision is final: neither another review nor proposing an equivalent *)
(* group again (save_proposal retains it) changes a reviewed proposal.     *)
DecisionIsFinal ==
  [][\A g \in Groups : columns[g] # Proposed =>
       columns'[g] = columns[g] /\ row'[g] = row[g]]_vars

(* Every session ends: two reviewers that wait for each other, one for the *)
(* row lock and one for the other's review, are separated by the database. *)
SessionEnds == \A s \in Sessions : pc[s] \in {"look", "lock", "read"} ~> pc[s] \in Ended
=============================================================================

------------------------ MODULE FailureReviewProofs ------------------------
(* Proofs that the failure review keeps its inductive invariant IInv.      *)
EXTENDS FailureReview, TLAPS

LEMMA OutcomeFacts ==
  ASSUME NEW d \in Decisions
  PROVE  /\ d.decision \in {"confirm", "correct", "reject"} /\ d.by \in Reviewers
         /\ d.kind = (IF d.decision = "correct" THEN d.kind ELSE NoKind)
         /\ Outcome(d) \in Columns /\ Outcome(d) # Proposed /\ Outcome(d).kind = d.kind
         /\ d.decision = "correct" <=> d.kind # NoKind
         /\ Usable(Outcome(d)) <=> d.decision # "reject"
<1>1. CASE d \in [decision: {"confirm", "reject"}, kind: {NoKind}, by: Reviewers]
  BY <1>1, ReviewAssumption DEF Outcome, Columns, Proposed, Usable, StatusOf
<1>2. CASE d \in [decision: {"correct"}, kind: Kinds, by: Reviewers]
  BY <1>2, ReviewAssumption DEF Outcome, Columns, Proposed, Usable, StatusOf
<1> QED
  BY <1>1, <1>2 DEF Decisions

LEMMA AskFacts ==
  ASSUME NEW a \in Asks
  PROVE  /\ a.op = "review" => a.group \in Groups /\ a.known \in BOOLEAN /\ a.decision \in Decisions
         /\ a.op = "consume" => a.group \in Groups
BY DEF Asks

LEMMA TypedAsk ==
  ASSUME TypeOK, NEW s \in Sessions
  PROVE  /\ ask[s].op = "review" => /\ Group(s) \in Groups /\ ask[s].known \in BOOLEAN
                                    /\ ask[s].decision \in Decisions
         /\ ask[s].op = "consume" => Group(s) \in Groups
BY AskFacts DEF TypeOK, Group

(* What a step of session t may do to what the others see.                 *)
Frame(t) ==
  /\ pc[t] \notin Ended
  /\ \A s \in Sessions \ {t} : pc'[s] = pc[s] /\ ask'[s] = ask[s] /\ told'[s] = told[s]
  /\ \A g \in Groups :
       /\ row'[g] = row[g] \/ (row[g] \in {Absent, t} /\ row'[g] \in {Absent, t})
       /\ review'[g] = review[g] \/ (review[g] \in {Absent, t} /\ review'[g] \in {Absent, t})
       /\ holder'[g] = holder[g] \/ (holder[g] \in {Nobody, t} /\ holder'[g] \in {Nobody, t})
       /\ columns'[g] = columns[g] \/ (review[g] = t /\ pc[t] = "open" /\ pc'[t] = "committed")

(* What was committed stays.                                               *)
LEMMA CommittedStays ==
  ASSUME TypeOK, NEW t \in Sessions, Frame(t), NEW g \in Groups
  PROVE  /\ CommittedRow(g) => CommittedRow(g)' /\ row'[g] = row[g]
         /\ CommittedReview(g) => CommittedReview(g)' /\ review'[g] = review[g]
         /\ pc'[t] # "committed" => (CommittedReview(g)' => CommittedReview(g))
<1>1. Earlier # Absent /\ Earlier # t /\ Absent # t
  BY ReviewAssumption DEF Earlier, Absent
<1>2. \A s \in Sessions : pc[s] = "committed" => s # t /\ pc'[s] = "committed"
  BY DEF Frame, Ended
<1>3. CommittedRow(g) => CommittedRow(g)' /\ row'[g] = row[g]
  BY <1>1, <1>2, ReviewAssumption DEF Frame, CommittedRow
<1>4. CommittedReview(g) => CommittedReview(g)' /\ review'[g] = review[g]
  BY <1>1, <1>2, ReviewAssumption DEF Frame, CommittedReview
<1>5. pc'[t] # "committed" => (CommittedReview(g)' => CommittedReview(g))
  BY <1>1, <1>2, ReviewAssumption DEF Frame, CommittedReview
<1> QED
  BY <1>3, <1>4, <1>5

(* A decision that was recorded stays in the proposal.                     *)
LEMMA DecidedStays ==
  ASSUME TypeOK, DecisionIsRecorded, NEW t \in Sessions, Frame(t), NEW g \in Groups,
         columns[g] # Proposed
  PROVE  columns'[g] = columns[g]
<1>1. PICK s \in Sessions : review[g] = s /\ pc[s] = "committed"
  BY DEF DecisionIsRecorded, CommittedReview
<1>2. s # t
  BY <1>1 DEF Frame, Ended
<1> QED
  BY <1>1, <1>2 DEF Frame

(* A step of one session leaves the others sound.                          *)
LEMMA OthersStaySound ==
  ASSUME IInv, NEW t \in Sessions, Frame(t), NEW s \in Sessions \ {t}
  PROVE  Sound(s)'
<1>1. TypeOK /\ DecisionIsRecorded /\ Sound(s)
  BY DEF IInv
<1>2. pc'[s] = pc[s] /\ ask'[s] = ask[s] /\ told'[s] = told[s] /\ Group(s)' = Group(s)
  BY DEF Frame, Group
<1>3. s # t /\ s # Absent /\ s # Nobody
  BY ReviewAssumption
<1>4. \A g \in Groups : /\ row'[g] = s => row[g] = s
                        /\ review'[g] = s <=> review[g] = s
                        /\ holder[g] = s => holder'[g] = s
  BY <1>3 DEF Frame
<1>5. \A g \in Groups : CommittedRow(g) => CommittedRow(g)'
  BY <1>1, CommittedStays
<1>6. \A g \in Groups : columns[g] # Proposed => columns'[g] = columns[g]
  BY <1>1, DecidedStays
<1>7. /\ ask[s].op = "review" => Group(s) \in Groups
      /\ ask[s].op = "consume" => Group(s) \in Groups
  BY <1>1, TypedAsk
<1>8. Called(s)'
  BY <1>1, <1>2 DEF Sound, Called, NoAsk, Nothing
<1>9. Owns(s)'
  BY <1>1, <1>2, <1>4, <1>5, <1>7 DEF Sound, Owns, Called
<1>10. Excludes(s)'
  <2> SUFFICES ASSUME ask[s].op = "review" PROVE Excludes(s)'
    BY <1>2 DEF Excludes
  <2>1. Group(s) \in Groups
    BY <1>7
  <2>2. holder[Group(s)] = s => columns'[Group(s)] = columns[Group(s)]
    <3>1. Owns(t)
      BY DEF IInv, Sound
    <3> QED
      BY <2>1, <3>1, <1>3 DEF Owns, Frame
  <2> QED
    BY <1>1, <1>2, <1>4, <1>5, <2>1, <2>2 DEF Sound, Excludes
<1>11. Answering(s)'
  <2>1. Proposed.status = "proposed" /\ ~Usable(Proposed)
    BY DEF Proposed, Usable
  <2>2. ask[s].op = "review" /\ pc[s] \in {"open", "committed"} =>
          \/ review'[Group(s)] = s /\ told[s] = About(Outcome(ask[s].decision))
          \/ /\ told[s] = About(columns'[Group(s)]) /\ columns'[Group(s)] # Proposed
             /\ ask[s].known => columns'[Group(s)] = Outcome(ask[s].decision)
    BY <1>1, <1>4, <1>6, <1>7 DEF Sound, Answering
  <2>3. pc[s] = "read_review" => /\ told[s] = About(columns'[Group(s)])
                                 /\ Usable(columns'[Group(s)])
    BY <1>1, <1>6, <1>7, <2>1 DEF Sound, Answering, Called
  <2>4. told[s].about = "confirmed" => ask[s].op = "consume" /\ HandsOnConfirmed(s)'
    <3> SUFFICES ASSUME told[s].about = "confirmed"
                 PROVE  ask[s].op = "consume" /\ HandsOnConfirmed(s)'
      OBVIOUS
    <3>1. ask[s].op = "consume" /\ HandsOnConfirmed(s)
      BY <1>1 DEF Sound, Answering
    <3>2. told[s].review \in Decisions
      BY <1>1 DEF TypeOK, Answers, Nothing
    <3>3. columns'[Group(s)] = columns[Group(s)]
      BY <3>1, <3>2, <1>6, <1>7, OutcomeFacts DEF HandsOnConfirmed
    <3> QED
      BY <3>1, <3>3, <1>2 DEF HandsOnConfirmed
  <2> QED
    BY <1>2, <2>2, <2>3, <2>4 DEF Answering, About, Outcome, Usable
<1> QED
  BY <1>8, <1>9, <1>10, <1>11 DEF Sound

(* Before a commit, decisions and reviews stay in agreement.               *)
LEMMA RecordedStays ==
  ASSUME IInv, NEW t \in Sessions, Frame(t), pc'[t] # "committed"
  PROVE  DecisionIsRecorded'
<1>1. TypeOK /\ DecisionIsRecorded
  BY DEF IInv
<1> SUFFICES ASSUME NEW g \in Groups
             PROVE  /\ columns'[g] # Proposed <=> CommittedReview(g)'
                    /\ CommittedReview(g)' => columns'[g] = Outcome(ask'[review'[g]].decision)
  BY DEF DecisionIsRecorded, Outcome
<1>2. columns'[g] = columns[g]
  BY DEF Frame
<1>3. /\ CommittedReview(g)' <=> CommittedReview(g)
      /\ CommittedReview(g) => review'[g] = review[g]
  BY <1>1, CommittedStays
<1>4. CommittedReview(g) => ask'[review[g]] = ask[review[g]]
  BY DEF CommittedReview, Frame, Ended
<1> QED
  BY <1>1, <1>2, <1>3, <1>4 DEF DecisionIsRecorded

(* So a step that commits nothing has to be looked at for its own session. *)
LEMMA StepSuffices ==
  ASSUME IInv, NEW t \in Sessions, Frame(t), pc'[t] # "committed", TypeOK', Sound(t)'
  PROVE  IInv'
<1>1. DecisionIsRecorded'
  BY RecordedStays
<1>2. \A s \in Sessions : Sound(s)'
  BY OthersStaySound
<1> QED
  BY <1>1, <1>2 DEF IInv

(* A step of t that leaves all tables alone.                               *)
LEMMA QuietFrame ==
  ASSUME TypeOK, NEW t \in Sessions, pc[t] \notin Ended, NEW label, Go(t, label),
         ask' = ask \/ \E a : ask' = [ask EXCEPT ![t] = a],
         told' = told \/ \E a : told' = [told EXCEPT ![t] = a],
         tables' = tables
  PROVE  /\ Frame(t) /\ pc'[t] = label
         /\ row' = row /\ columns' = columns /\ review' = review /\ holder' = holder
         /\ \A g \in Groups : CommittedRow(g) => CommittedRow(g)'
<1>1. row' = row /\ columns' = columns /\ review' = review /\ holder' = holder
  BY DEF tables
<1>2. pc'[t] = label /\ \A s \in Sessions \ {t} : pc'[s] = pc[s]
  BY DEF Go, TypeOK
<1>3. \A s \in Sessions \ {t} : ask'[s] = ask[s] /\ told'[s] = told[s]
  BY DEF TypeOK
<1>4. Frame(t)
  BY <1>1, <1>2, <1>3 DEF Frame
<1> QED
  BY <1>1, <1>2, <1>4, CommittedStays

-----------------------------------------------------------------------------
(* Proposing                                                               *)

LEMMA AskProposeKeeps ==
  ASSUME IInv, NEW s \in Sessions, NEW groups \in SUBSET Groups, AskPropose(s, groups)
  PROVE  Frame(s) /\ IInv'
<1>1. TypeOK /\ Sound(s) /\ pc[s] = "idle"
  BY DEF IInv, AskPropose
<1>2. TypeOK'
  BY <1>1 DEF TypeOK, AskPropose, Go, tables, Asks
<1>3. /\ Frame(s) /\ pc'[s] = "look"
      /\ row' = row /\ columns' = columns /\ review' = review /\ holder' = holder
  BY <1>1, QuietFrame DEF AskPropose, Ended
<1>4. ask'[s].op = "propose" /\ told'[s] = told[s] /\ told[s].about # "confirmed"
  BY <1>1 DEF AskPropose, TypeOK, Sound, Called, Nothing
<1>5. Called(s)' /\ Excludes(s)' /\ Answering(s)'
  BY <1>3, <1>4 DEF Called, Excludes, Answering
<1>6. Owns(s)'
  BY <1>1, <1>3 DEF Sound, Owns
<1> QED
  BY <1>2, <1>3, <1>5, <1>6, StepSuffices DEF Sound

(* A proposing session that goes on to its next group or to its end.       *)
LEMMA Proposing ==
  ASSUME IInv, NEW s \in Sessions, Frame(s), TypeOK', ask[s].op = "propose",
         ask' = ask, told' = told, review' = review, pc[s] \notin {"idle", "update"},
         pc'[s] \in {"look", "insert", "look_again", "open"}
  PROVE  IInv'
<1>1. TypeOK /\ Sound(s)
  BY DEF IInv
<1>2. told[s].about # "confirmed"
  BY <1>1 DEF Sound, Answering
<1>3. Called(s)' /\ Excludes(s)' /\ Answering(s)'
  BY <1>2 DEF Called, Excludes, Answering
<1>4. Owns(s)'
  BY <1>1 DEF Sound, Owns
<1> QED
  BY <1>3, <1>4, StepSuffices DEF Sound

LEMMA LookKeeps ==
  ASSUME IInv, NEW s \in Sessions, NEW g \in Groups, Look(s, g) \/ LookAgain(s, g)
  PROVE  Frame(s) /\ IInv'
<1>1. TypeOK /\ Sound(s) /\ pc[s] \in {"look", "look_again"} /\ ask[s].op = "propose"
  BY DEF IInv, Look, LookAgain, Sound, Called
<1>2. PICK label \in {"look", "insert", "open"} : Go(s, label)
  BY DEF Look, LookAgain, Saved
<1>3. tables' = tables /\ ask' = ask /\ told' = told
  BY DEF Look, LookAgain
<1>4. Frame(s) /\ pc'[s] = label /\ review' = review
  BY <1>1, <1>2, <1>3, QuietFrame DEF Ended
<1>5. todo' \in [Sessions -> SUBSET Groups]
  BY <1>1 DEF Look, LookAgain, Saved, TypeOK
<1>6. TypeOK'
  BY <1>1, <1>2, <1>3, <1>5 DEF TypeOK, Go, tables
<1> QED
  BY <1>1, <1>3, <1>4, <1>6, Proposing

LEMMA InsertKeeps ==
  ASSUME IInv, NEW s \in Sessions, NEW g \in Groups, Insert(s, g)
  PROVE  Frame(s) /\ IInv'
<1>1. TypeOK /\ Sound(s) /\ pc[s] = "insert" /\ ask[s].op = "propose"
  BY DEF IInv, Insert, Sound, Called
<1>2. PICK label \in {"look", "open", "look_again"} : Go(s, label)
  BY DEF Insert, Saved
<1>3. columns' = columns /\ review' = review /\ holder' = holder /\ ask' = ask /\ told' = told
  BY DEF Insert
<1>4. row' = row \/ (row[g] = Absent /\ row' = [row EXCEPT ![g] = s])
  BY DEF Insert
<1>5. pc'[s] = label /\ \A u \in Sessions \ {s} : pc'[u] = pc[u]
  BY <1>1, <1>2 DEF Go, TypeOK
<1>6. Frame(s)
  BY <1>1, <1>3, <1>4, <1>5 DEF Frame, Ended, TypeOK
<1>7. todo' \in [Sessions -> SUBSET Groups]
  BY <1>1 DEF Insert, Saved, TypeOK
<1>8. TypeOK'
  BY <1>1, <1>2, <1>3, <1>4, <1>7 DEF TypeOK, Go
<1> QED
  BY <1>1, <1>3, <1>5, <1>6, <1>8, Proposing

-----------------------------------------------------------------------------
(* Reviewing                                                               *)

LEMMA AskReviewKeeps ==
  ASSUME IInv, NEW s \in Sessions, NEW g \in Groups, NEW d \in Decisions, AskReview(s, g, d)
  PROVE  Frame(s) /\ IInv'
<1>1. TypeOK /\ Sound(s) /\ pc[s] = "idle"
  BY DEF IInv, AskReview
<1> DEFINE a == [op |-> "review", group |-> g, known |-> CommittedRow(g), decision |-> d]
<1>2. CommittedRow(g) \in BOOLEAN
  BY DEF CommittedRow
<1>3. a \in Asks
  BY <1>2 DEF Asks
<1>4. TypeOK'
  BY <1>1, <1>3 DEF TypeOK, AskReview, Go, tables
<1>5. /\ Frame(s) /\ pc'[s] = "lock"
      /\ row' = row /\ columns' = columns /\ review' = review /\ holder' = holder
      /\ CommittedRow(g) => CommittedRow(g)'
  BY <1>1, QuietFrame DEF AskReview, Ended
<1>6. ask'[s] = a /\ told'[s] = told[s] /\ told[s].about # "confirmed"
  BY <1>1 DEF AskReview, TypeOK, Sound, Called, Nothing
<1>7. Called(s)' /\ Answering(s)'
  BY <1>5, <1>6 DEF Called, Answering
<1>8. Excludes(s)'
  BY <1>5, <1>6 DEF Excludes, Group
<1>9. Owns(s)'
  BY <1>1, <1>5 DEF Sound, Owns
<1> QED
  BY <1>4, <1>5, <1>7, <1>8, <1>9, StepSuffices DEF Sound

LEMMA LockRowKeeps ==
  ASSUME IInv, NEW s \in Sessions, LockRow(s)
  PROVE  Frame(s) /\ IInv'
<1>1. TypeOK /\ Sound(s) /\ pc[s] = "lock" /\ ask[s].op = "review" /\ Group(s) \in Groups
  BY TypedAsk DEF IInv, LockRow, Sound, Called
<1>2. row' = row /\ columns' = columns /\ review' = review /\ ask' = ask /\ told' = told
  BY DEF LockRow
<1>3. pc'[s] = "check" /\ \A u \in Sessions \ {s} : pc'[u] = pc[u]
  BY <1>1 DEF LockRow, Go, TypeOK
<1>4. \/ /\ CommittedRow(Group(s)) /\ holder[Group(s)] = Nobody
         /\ holder' = [holder EXCEPT ![Group(s)] = s]
      \/ ~CommittedRow(Group(s)) /\ holder' = holder
  BY DEF LockRow
<1>5. Frame(s)
  BY <1>1, <1>2, <1>3, <1>4 DEF Frame, Ended, TypeOK
<1>6. TypeOK'
  BY <1>1, <1>2, <1>4 DEF TypeOK, LockRow, Go
<1>7. Called(s)'
  BY <1>1, <1>2, <1>3 DEF Called
<1>8. Owns(s)'
  BY <1>1, <1>2, <1>3 DEF Sound, Owns
<1>9. Excludes(s)'
  <2>1. CommittedRow(Group(s)) => CommittedRow(Group(s))'
    BY <1>1, <1>2, <1>5, CommittedStays DEF Group
  <2>2. ask[s].known => CommittedRow(Group(s))
    BY <1>1 DEF Sound, Excludes
  <2>3. ask[s].known => holder'[Group(s)] = s
    BY <2>2, <1>1, <1>4 DEF TypeOK
  <2> QED
    BY <2>1, <2>2, <2>3, <1>2, <1>3 DEF Excludes, Group, CommittedRow
<1>10. Answering(s)'
  BY <1>1, <1>2, <1>3 DEF Sound, Answering
<1> QED
  BY <1>3, <1>5, <1>6, <1>7, <1>8, <1>9, <1>10, StepSuffices DEF Sound

(* Whatever a session did, a rollback undoes it.                           *)
LEMMA RollbackKeeps ==
  ASSUME IInv, NEW s \in Sessions, pc[s] \notin Ended \cup {"idle"}, Rollback(s)
  PROVE  Frame(s) /\ IInv'
<1>1. TypeOK /\ Sound(s)
  BY DEF IInv
<1>2. columns' = columns /\ ask' = ask /\ told' = told /\ todo' = todo
  BY DEF Rollback
<1>3. pc'[s] = "rolled_back" /\ \A u \in Sessions \ {s} : pc'[u] = pc[u]
  BY <1>1 DEF Rollback, Go, TypeOK
<1>4. \A g \in Groups : /\ row'[g] = (IF row[g] = s THEN Absent ELSE row[g])
                        /\ review'[g] = (IF review[g] = s THEN Absent ELSE review[g])
                        /\ holder'[g] = (IF holder[g] = s THEN Nobody ELSE holder[g])
  BY DEF Rollback, Release
<1>5. Frame(s)
  BY <1>1, <1>2, <1>3, <1>4 DEF Frame
<1>6. TypeOK'
  BY <1>1, <1>2 DEF TypeOK, Rollback, Release, Go, Ended
<1>7. \A g \in Groups : row'[g] # s /\ review'[g] # s
  BY <1>4, ReviewAssumption
<1>8. Called(s)' /\ Owns(s)'
  BY <1>3, <1>7 DEF Called, Owns
<1>9. Excludes(s)'
  <2> SUFFICES ASSUME ask[s].op = "review", ask[s].known PROVE CommittedRow(Group(s))'
    BY <1>2, <1>3 DEF Excludes
  <2>1. Group(s) \in Groups /\ CommittedRow(Group(s))
    BY <1>1, TypedAsk DEF Sound, Excludes
  <2> QED
    BY <2>1, <1>1, <1>2, <1>5, CommittedStays DEF Group
<1>10. Answering(s)'
  BY <1>1, <1>2, <1>3 DEF Sound, Answering, HandsOnConfirmed, Group, Outcome
<1> QED
  BY <1>3, <1>5, <1>6, <1>8, <1>9, <1>10, StepSuffices DEF Sound

LEMMA CheckKeeps ==
  ASSUME IInv, NEW s \in Sessions, Check(s)
  PROVE  Frame(s) /\ IInv'
<1> DEFINE g == Group(s)
<1>1. TypeOK /\ Sound(s) /\ pc[s] = "check" /\ ask[s].op = "review" /\ g \in Groups
  BY TypedAsk DEF IInv, Check, Sound, Called
<1>2. CASE /\ CommittedRow(g) /\ columns[g] = Proposed
           /\ Go(s, "save") /\ UNCHANGED <<tables, ask, todo, told>>
  <2>1. /\ Frame(s) /\ pc'[s] = "save" /\ CommittedRow(g)'
        /\ row' = row /\ columns' = columns /\ review' = review /\ holder' = holder
    BY <1>1, <1>2, QuietFrame DEF Ended, Group
  <2>2. TypeOK'
    BY <1>1, <1>2 DEF TypeOK, Go, tables
  <2>3. Called(s)' /\ Owns(s)' /\ Answering(s)'
    BY <1>1, <1>2, <2>1 DEF Called, Owns, Answering, Sound
  <2>4. Excludes(s)'
    BY <1>1, <1>2, <2>1 DEF Excludes, Sound, Group
  <2> QED
    BY <2>1, <2>2, <2>3, <2>4, StepSuffices DEF Sound
<1>3. CASE /\ CommittedRow(g) /\ columns[g] # Proposed /\ columns[g] = Outcome(ask[s].decision)
           /\ Go(s, "open") /\ Tell(s, About(columns[g])) /\ UNCHANGED <<tables, ask, todo>>
  <2>1. /\ Frame(s) /\ pc'[s] = "open" /\ CommittedRow(g)'
        /\ row' = row /\ columns' = columns /\ review' = review /\ holder' = holder
    BY <1>1, <1>3, QuietFrame DEF Ended, Group, Tell
  <2>2. columns[g] \in Columns /\ About(columns[g]) \in Answers
    BY <1>1 DEF TypeOK, About, Answers
  <2>3. TypeOK'
    BY <1>1, <1>3, <2>2 DEF TypeOK, Go, Tell, tables
  <2>4. told'[s] = About(columns[g]) /\ told'[s].about # "confirmed"
    BY <1>1, <1>3 DEF TypeOK, Tell, About
  <2>5. Called(s)' /\ Owns(s)'
    BY <1>1, <1>3, <2>1 DEF Called, Owns, Sound
  <2>6. Excludes(s)'
    BY <1>1, <1>3, <2>1 DEF Excludes, Sound, Group
  <2>7. Answering(s)'
    BY <1>1, <1>3, <2>1, <2>4 DEF Answering, Group, About, Outcome
  <2> QED
    BY <2>1, <2>3, <2>5, <2>6, <2>7, StepSuffices DEF Sound
<1>4. CASE Rollback(s)
  BY <1>1, <1>4, RollbackKeeps DEF Ended
<1> QED
  BY <1>2, <1>3, <1>4 DEF Check

LEMMA SaveReviewKeeps ==
  ASSUME IInv, NEW s \in Sessions, SaveReview(s)
  PROVE  Frame(s) /\ IInv'
<1> DEFINE g == Group(s)
<1>1. TypeOK /\ Sound(s) /\ pc[s] = "save" /\ ask[s].op = "review" /\ g \in Groups
  BY TypedAsk DEF IInv, SaveReview, Sound, Called
<1>2. CASE /\ review[g] = Absent /\ review' = [review EXCEPT ![g] = s]
           /\ Go(s, "update") /\ UNCHANGED told
  <2>1. row' = row /\ columns' = columns /\ holder' = holder /\ ask' = ask
    BY DEF SaveReview
  <2>2. pc'[s] = "update" /\ \A u \in Sessions \ {s} : pc'[u] = pc[u]
    BY <1>1, <1>2 DEF Go, TypeOK
  <2>3. Frame(s)
    BY <1>1, <1>2, <2>1, <2>2 DEF Frame, Ended, TypeOK
  <2>4. TypeOK'
    BY <1>1, <1>2, <2>1 DEF TypeOK, SaveReview, Go
  <2>5. CommittedRow(g)'
    BY <1>1, <2>1, <2>3, CommittedStays DEF Sound, Excludes, Group
  <2>6. \A h \in Groups : review'[h] = s => h = g
    BY <1>1, <1>2 DEF Sound, Owns
  <2>7. Called(s)'
    BY <1>1, <2>1, <2>2 DEF Called
  <2>8. Owns(s)'
    <3>1. review'[g] = s
      BY <1>1, <1>2 DEF TypeOK
    <3>2. Group(s)' = g
      BY <2>1 DEF Group
    <3> QED
      BY <1>1, <2>1, <2>2, <2>5, <2>6, <3>1, <3>2 DEF Owns, CommittedRow
  <2>9. Excludes(s)'
    BY <1>1, <2>1, <2>2, <2>5 DEF Sound, Excludes, Group
  <2>10. Answering(s)'
    BY <1>1, <1>2, <2>1, <2>2 DEF Sound, Answering
  <2> QED
    BY <2>2, <2>3, <2>4, <2>7, <2>8, <2>9, <2>10, StepSuffices DEF Sound
<1>3. CASE /\ CommittedReview(g) /\ Go(s, "open") /\ Tell(s, About(columns[g]))
           /\ UNCHANGED review
  <2>1. tables' = tables /\ ask' = ask /\ todo' = todo
    BY <1>3 DEF SaveReview, tables
  <2>2. /\ Frame(s) /\ pc'[s] = "open" /\ (CommittedRow(g) => CommittedRow(g)')
        /\ row' = row /\ columns' = columns /\ review' = review /\ holder' = holder
    BY <1>1, <1>3, <2>1, QuietFrame DEF Ended, Tell, Group
  <2>3. columns[g] \in Columns /\ About(columns[g]) \in Answers
    BY <1>1 DEF TypeOK, About, Answers
  <2>4. TypeOK'
    BY <1>1, <1>3, <2>1, <2>3 DEF TypeOK, Go, Tell, tables
  <2>5. told'[s] = About(columns[g]) /\ told'[s].about # "confirmed"
    BY <1>1, <1>3 DEF TypeOK, Tell, About
  <2>6. columns[g] # Proposed /\ ~ask[s].known
    BY <1>1, <1>3 DEF IInv, DecisionIsRecorded, Sound, Excludes
  <2>7. Called(s)'
    BY <2>2 DEF Called
  <2>8. Owns(s)'
    <3>1. \A h \in Groups : review[h] # s
      BY <1>1 DEF Sound, Owns
    <3> QED
      BY <2>2, <3>1 DEF Owns
  <2>9. Excludes(s)'
    BY <2>1, <2>2, <2>6 DEF Excludes
  <2>10. Answering(s)'
    BY <1>1, <2>1, <2>2, <2>5, <2>6 DEF Answering, Group, About
  <2> QED
    BY <2>2, <2>4, <2>7, <2>8, <2>9, <2>10, StepSuffices DEF Sound
<1> QED
  BY <1>2, <1>3 DEF SaveReview

LEMMA UpdateKeeps ==
  ASSUME IInv, NEW s \in Sessions, Update(s)
  PROVE  Frame(s) /\ IInv'
<1> DEFINE g == Group(s)
<1>1. /\ TypeOK /\ Sound(s) /\ pc[s] = "update" /\ ask[s].op = "review" /\ g \in Groups
      /\ ask[s].decision \in Decisions
  BY TypedAsk DEF IInv, Update, Sound, Called
<1>2. /\ row' = row /\ columns' = columns /\ review' = review /\ ask' = ask
      /\ holder[g] \in {Nobody, s} /\ holder' = [holder EXCEPT ![g] = s]
      /\ told' = [told EXCEPT ![s] = About(Outcome(ask[s].decision))]
  BY DEF Update, Tell
<1>3. pc'[s] = "open" /\ \A u \in Sessions \ {s} : pc'[u] = pc[u]
  BY <1>1 DEF Update, Go, TypeOK
<1>4. Frame(s)
  BY <1>1, <1>2, <1>3 DEF Frame, Ended, TypeOK
<1>5. About(Outcome(ask[s].decision)) \in Answers
  BY <1>1, OutcomeFacts DEF About, Answers
<1>6. TypeOK'
  BY <1>1, <1>2, <1>5 DEF TypeOK, Update, Go
<1>7. review[g] = s /\ Group(s)' = g
  BY <1>1, <1>2 DEF Sound, Owns, Group
<1>8. CommittedRow(g)'
  BY <1>1, <1>4, <1>7, CommittedStays DEF Sound, Owns
<1>9. Called(s)'
  BY <1>3 DEF Called
<1>10. Owns(s)'
  BY <1>1, <1>2, <1>3, <1>7, <1>8 DEF Sound, Owns, TypeOK, CommittedRow
<1>11. Excludes(s)'
  BY <1>2, <1>3, <1>7, <1>8 DEF Excludes, CommittedRow
<1>12. Answering(s)'
  BY <1>1, <1>2, <1>3, <1>7 DEF Answering, TypeOK, About, Outcome
<1> QED
  BY <1>3, <1>4, <1>6, <1>9, <1>10, <1>11, <1>12, StepSuffices DEF Sound

-----------------------------------------------------------------------------
(* Consuming                                                               *)

LEMMA AskConfirmedKeeps ==
  ASSUME IInv, NEW s \in Sessions, NEW g \in Groups, AskConfirmed(s, g)
  PROVE  Frame(s) /\ IInv'
<1>1. TypeOK /\ Sound(s) /\ pc[s] = "idle"
  BY DEF IInv, AskConfirmed
<1>2. TypeOK'
  BY <1>1 DEF TypeOK, AskConfirmed, Go, tables, Asks
<1>3. /\ Frame(s) /\ pc'[s] = "read"
      /\ row' = row /\ columns' = columns /\ review' = review /\ holder' = holder
  BY <1>1, QuietFrame DEF AskConfirmed, Ended
<1>4. ask'[s].op = "consume" /\ told'[s] = told[s] /\ told[s].about # "confirmed"
  BY <1>1 DEF AskConfirmed, TypeOK, Sound, Called, Nothing
<1>5. Called(s)' /\ Excludes(s)' /\ Answering(s)'
  BY <1>3, <1>4 DEF Called, Excludes, Answering
<1>6. Owns(s)'
  BY <1>1, <1>3 DEF Sound, Owns
<1> QED
  BY <1>2, <1>3, <1>5, <1>6, StepSuffices DEF Sound

LEMMA ReadProposalKeeps ==
  ASSUME IInv, NEW s \in Sessions, ReadProposal(s)
  PROVE  Frame(s) /\ IInv'
<1> DEFINE c == columns[Group(s)]
<1>1. TypeOK /\ Sound(s) /\ pc[s] = "read" /\ ask[s].op = "consume" /\ Group(s) \in Groups
  BY TypedAsk DEF IInv, ReadProposal, Sound, Called
<1>2. CASE Usable(c) /\ Go(s, "read_review") /\ Tell(s, About(c)) /\ UNCHANGED <<tables, ask, todo>>
  <2>1. /\ Frame(s) /\ pc'[s] = "read_review" /\ ask' = ask
        /\ row' = row /\ columns' = columns /\ review' = review /\ holder' = holder
    BY <1>1, <1>2, QuietFrame DEF Ended, Tell
  <2>2. About(c) \in Answers
    BY <1>1 DEF TypeOK, About, Answers
  <2>3. TypeOK'
    BY <1>1, <1>2, <2>2 DEF TypeOK, Go, Tell, tables
  <2>4. told'[s] = About(c) /\ told'[s].about # "confirmed"
    BY <1>1, <1>2 DEF TypeOK, Tell, About
  <2>5. Called(s)' /\ Owns(s)' /\ Excludes(s)'
    BY <1>1, <2>1 DEF Called, Owns, Excludes, Sound
  <2>6. Answering(s)'
    BY <1>1, <1>2, <2>1, <2>4 DEF Answering, Group, About, Usable
  <2> QED
    BY <2>1, <2>3, <2>5, <2>6, StepSuffices DEF Sound
<1>3. CASE Rollback(s)
  BY <1>1, <1>3, RollbackKeeps DEF Ended
<1> QED
  BY <1>2, <1>3 DEF ReadProposal

(* The second read finds the review the first read's proposal was turned   *)
(* by, as nothing changes a decided proposal in between.                   *)
LEMMA ReadReviewKeeps ==
  ASSUME IInv, NEW s \in Sessions, ReadReview(s)
  PROVE  Frame(s) /\ IInv'
<1> DEFINE g == Group(s)
           d == ask[review[g]].decision
           a == [about |-> "confirmed",
                 kind |-> IF told[s].is.kind = NoKind THEN Predicted[g] ELSE told[s].is.kind,
                 review |-> d]
<1>1. TypeOK /\ Sound(s) /\ pc[s] = "read_review" /\ ask[s].op = "consume" /\ g \in Groups
  BY TypedAsk DEF IInv, ReadReview, Sound, Called
<1>2. CASE CommittedReview(g) /\ Go(s, "open") /\ Tell(s, a) /\ UNCHANGED <<tables, ask, todo>>
  <2>1. /\ Frame(s) /\ pc'[s] = "open" /\ ask' = ask
        /\ row' = row /\ columns' = columns /\ review' = review /\ holder' = holder
    BY <1>1, <1>2, QuietFrame DEF Ended, Tell
  <2>2. told[s].is = columns[g] /\ Usable(columns[g])
    BY <1>1 DEF Sound, Answering, About
  <2>3. columns[g] = Outcome(d)
    BY <1>1, <1>2 DEF IInv, DecisionIsRecorded
  <2>4. d \in Decisions
    <3>1. PICK u \in Sessions : review[g] = u
      BY <1>2 DEF CommittedReview
    <3>2. ask[u].op = "review"
      BY <1>1, <3>1 DEF IInv, Sound, Owns
    <3> QED
      BY <1>1, <3>1, <3>2, TypedAsk
  <2>5. a.kind = (IF d.decision = "correct" THEN d.kind ELSE Predicted[g]) /\ d.decision # "reject"
    BY <2>2, <2>3, <2>4, OutcomeFacts
  <2>6. a.kind \in Kinds
    <3>1. d.decision = "correct" => d.kind \in Kinds
      BY <2>4 DEF Decisions
    <3>2. Predicted[g] \in Kinds
      BY <1>1, ReviewAssumption
    <3> QED
      BY <2>5, <3>1, <3>2
  <2>7. a \in Answers
    BY <2>4, <2>6 DEF Answers
  <2>8. TypeOK'
    BY <1>1, <1>2, <2>7 DEF TypeOK, Go, Tell, tables
  <2>9. told'[s] = a
    BY <1>1, <1>2 DEF TypeOK, Tell
  <2>10. Called(s)' /\ Owns(s)' /\ Excludes(s)'
    BY <1>1, <2>1 DEF Called, Owns, Excludes, Sound
  <2>11. HandsOnConfirmed(s)'
    <3>1. Group(s)' = g /\ columns'[g] = Outcome(d)
      BY <2>1, <2>3 DEF Group
    <3>2. told'[s].review = d /\ told'[s].kind = a.kind
      BY <2>9
    <3> QED
      BY <2>5, <3>1, <3>2 DEF HandsOnConfirmed, Outcome
  <2>12. Answering(s)'
    BY <1>1, <2>1, <2>11 DEF Answering
  <2> QED
    BY <2>1, <2>8, <2>10, <2>12, StepSuffices DEF Sound
<1>3. CASE Rollback(s)
  BY <1>1, <1>3, RollbackKeeps DEF Ended
<1> QED
  BY <1>2, <1>3 DEF ReadReview

-----------------------------------------------------------------------------
(* Ending                                                                  *)

LEMMA CommitKeeps ==
  ASSUME IInv, NEW s \in Sessions, Commit(s)
  PROVE  Frame(s) /\ IInv'
<1>1. TypeOK /\ Sound(s) /\ pc[s] = "open" /\ DecisionIsRecorded
  BY DEF IInv, Commit
<1>2. row' = row /\ review' = review /\ ask' = ask /\ told' = told /\ todo' = todo
  BY DEF Commit
<1>3. pc'[s] = "committed" /\ \A u \in Sessions \ {s} : pc'[u] = pc[u]
  BY <1>1 DEF Commit, Go, TypeOK
<1>4. \A g \in Groups :
        /\ columns'[g] = (IF review[g] = s THEN Outcome(ask[s].decision) ELSE columns[g])
        /\ holder'[g] = (IF holder[g] = s THEN Nobody ELSE holder[g])
  BY DEF Commit, Release
<1>5. Frame(s)
  BY <1>1, <1>2, <1>3, <1>4 DEF Frame, Ended
<1>6. \A g \in Groups : review[g] = s => ask[s].op = "review" /\ ask[s].decision \in Decisions
  BY <1>1, TypedAsk DEF Sound, Owns
<1>7. \A g \in Groups : columns'[g] \in Columns
  BY <1>1, <1>4, <1>6, OutcomeFacts DEF TypeOK
<1>8. TypeOK'
  <2>1. columns' \in [Groups -> Columns]
    BY <1>7 DEF Commit
  <2> QED
    BY <1>1, <1>2, <2>1 DEF TypeOK, Commit, Release, Go, Ended
<1>9. \A g \in Groups : CommittedReview(g)' <=> CommittedReview(g) \/ review[g] = s
  BY <1>2, <1>3 DEF CommittedReview
<1>10. DecisionIsRecorded'
  <2> SUFFICES ASSUME NEW g \in Groups
               PROVE  /\ columns'[g] # Proposed <=> CommittedReview(g)'
                      /\ CommittedReview(g)' => columns'[g] = Outcome(ask[review[g]].decision)
    BY <1>2 DEF DecisionIsRecorded, Outcome
  <2>1. CASE review[g] = s
    BY <2>1, <1>4, <1>6, <1>9, OutcomeFacts
  <2>2. CASE review[g] # s
    BY <2>2, <1>1, <1>4, <1>9 DEF DecisionIsRecorded
  <2> QED
    BY <2>1, <2>2
<1>11. \A g \in Groups : CommittedRow(g) => CommittedRow(g)'
  BY <1>1, <1>5, CommittedStays
<1>12. ask[s].op = "review" => Group(s) \in Groups /\ Group(s)' = Group(s)
  BY <1>1, <1>2, TypedAsk DEF Group
<1>13. Called(s)'
  BY <1>3 DEF Called
<1>14. Owns(s)'
  BY <1>1, <1>2, <1>3, <1>11, <1>12 DEF Sound, Owns
<1>15. Excludes(s)'
  BY <1>1, <1>2, <1>3, <1>11, <1>12 DEF Sound, Excludes
<1>16. \A g \in Groups : columns[g] # Proposed => columns'[g] = columns[g]
  BY <1>1, <1>5, DecidedStays
<1>17. Answering(s)'
  <2>1. ask[s].op = "review" =>
          \/ review[Group(s)] = s /\ told[s] = About(Outcome(ask[s].decision))
          \/ /\ told[s] = About(columns'[Group(s)]) /\ columns'[Group(s)] # Proposed
             /\ ask[s].known => columns'[Group(s)] = Outcome(ask[s].decision)
    BY <1>1, <1>12, <1>16 DEF Sound, Answering
  <2>2. told[s].about = "confirmed" => ask[s].op = "consume" /\ HandsOnConfirmed(s)'
    <3> SUFFICES ASSUME told[s].about = "confirmed"
                 PROVE  ask[s].op = "consume" /\ HandsOnConfirmed(s)'
      OBVIOUS
    <3>1. ask[s].op = "consume" /\ HandsOnConfirmed(s) /\ Group(s) \in Groups
      BY <1>1, TypedAsk DEF Sound, Answering
    <3>2. \A g \in Groups : review[g] # s
      BY <3>1, <1>1 DEF Sound, Owns
    <3> QED
      BY <3>1, <3>2, <1>2, <1>4 DEF HandsOnConfirmed, Group, Outcome
  <2> QED
    BY <1>2, <1>3, <2>1, <2>2 DEF Answering, Group, About, Outcome
<1>18. \A u \in Sessions \ {s} : Sound(u)'
  BY <1>5, OthersStaySound
<1> QED
  BY <1>5, <1>8, <1>10, <1>13, <1>14, <1>15, <1>17, <1>18 DEF IInv, Sound

LEMMA InitInv == Init => IInv
<1> SUFFICES ASSUME Init PROVE IInv
  OBVIOUS
<1>1. TypeOK
  BY DEF Init, TypeOK, Columns, Asks, NoAsk, Answers, Ended
<1>2. \A g \in Groups : row[g] \notin Sessions /\ review[g] \notin Sessions
  BY ReviewAssumption DEF Init
<1>3. DecisionIsRecorded
  BY <1>2 DEF Init, DecisionIsRecorded, CommittedReview
<1>4. \A s \in Sessions : Sound(s)
  BY <1>2 DEF Init, Sound, Called, Owns, Excludes, Answering, NoAsk, Nothing
<1> QED
  BY <1>1, <1>3, <1>4 DEF IInv

LEMMA StutterKeeps ==
  ASSUME IInv, UNCHANGED vars
  PROVE  IInv'
BY DEF vars, tables, IInv, TypeOK, DecisionIsRecorded, Sound, Called, Owns, Excludes, Answering,
       HandsOnConfirmed, CommittedRow, CommittedReview, Group, Outcome, About, Usable

(* What every step of a session does: it keeps the invariant, and leaves   *)
(* alone what it must.                                                     *)
LEMMA SessionKeeps ==
  ASSUME IInv, NEW s \in Sessions, Arrive(s) \/ Serve(s) \/ Abort(s)
  PROVE  Frame(s) /\ IInv'
<1>1. CASE Arrive(s)
  BY <1>1, AskProposeKeeps, AskReviewKeeps, AskConfirmedKeeps DEF Arrive
<1>2. CASE Abort(s)
  BY <1>2, RollbackKeeps DEF Abort
<1>3. CASE Victim(s)
  <2>1. pc[s] \notin Ended \cup {"idle"}
    BY <1>3 DEF Victim, Deadlocked, Waits, Ended
  <2> QED
    BY <1>3, <2>1, RollbackKeeps DEF Victim
<1>4. CASE Serve(s)
  BY <1>3, <1>4, LookKeeps, InsertKeeps, LockRowKeeps, CheckKeeps, SaveReviewKeeps, UpdateKeeps,
     ReadProposalKeeps, ReadReviewKeeps, CommitKeeps DEF Serve, ReviewStep
<1> QED
  BY <1>1, <1>2, <1>4

LEMMA StepInv == IInv /\ [Next]_vars => IInv'
BY SessionKeeps, StutterKeeps DEF Next

-----------------------------------------------------------------------------
(* The theorems                                                            *)

(* The inductive invariant holds in every reachable state.                 *)
THEOREM Invariance == Spec => []IInv
<1>1. Init => IInv
  BY InitInv
<1>2. IInv /\ [Next]_vars => IInv'
  BY StepInv
<1> QED
  BY <1>1, <1>2, PTL DEF Spec

(* Tables, locks, requests and answers keep their types (validate_review,  *)
(* validate_decision).                                                     *)
THEOREM TypeCorrect == Spec => []TypeOK
<1>1. IInv => TypeOK
  BY DEF IInv
<1> QED
  BY <1>1, Invariance, PTL

(* A proposal says it was reviewed exactly when a review is committed, and *)
(* then what that review decided (review_proposal).                        *)
THEOREM DecisionsRecorded == Spec => []DecisionIsRecorded
<1>1. IInv => DecisionIsRecorded
  BY DEF IInv
<1> QED
  BY <1>1, Invariance, PTL

(* What review_proposal answered is what was decided.                      *)
THEOREM ReviewAnswersTrue == Spec => []ReviewAnswersAreTrue
<1>1. IInv => ReviewAnswersAreTrue
  <2> SUFFICES ASSUME IInv, NEW s \in Sessions, Answered(s)
               PROVE  /\ told[s] = About(columns[Group(s)]) /\ columns[Group(s)] # Proposed
                      /\ ask[s].known => told[s] = About(Outcome(ask[s].decision))
    BY DEF ReviewAnswersAreTrue
  <2>1. Group(s) \in Groups /\ Answering(s) /\ pc[s] = "committed" /\ ask[s].op = "review"
    BY TypedAsk DEF IInv, Sound, Answered
  <2>2. CASE review[Group(s)] = s /\ told[s] = About(Outcome(ask[s].decision))
    BY <2>1, <2>2 DEF IInv, DecisionIsRecorded, CommittedReview
  <2>3. CASE /\ told[s] = About(columns[Group(s)]) /\ columns[Group(s)] # Proposed
             /\ ask[s].known => columns[Group(s)] = Outcome(ask[s].decision)
    BY <2>3
  <2> QED
    BY <2>1, <2>2, <2>3 DEF Answering
<1> QED
  BY <1>1, Invariance, PTL

(* require_confirmed hands on only confirmed and corrected groups, with    *)
(* the kind of their review.                                               *)
THEOREM ConsumedConfirmed == Spec => []ConsumedIsConfirmed
<1>1. IInv => ConsumedIsConfirmed
  BY DEF IInv, Sound, Answering, ConsumedIsConfirmed
<1> QED
  BY <1>1, Invariance, PTL

(* No step changes a reviewed proposal, nor takes its row away.            *)
THEOREM DecisionsFinal == Spec => DecisionIsFinal
<1> DEFINE Final == \A g \in Groups : columns[g] # Proposed =>
                      columns'[g] = columns[g] /\ row'[g] = row[g]
<1>1. IInv /\ [Next]_vars => [Final]_vars
  <2> SUFFICES ASSUME IInv, NEW t \in Sessions, Arrive(t) \/ Serve(t) \/ Abort(t),
                      NEW g \in Groups, columns[g] # Proposed
               PROVE  columns'[g] = columns[g] /\ row'[g] = row[g]
    BY DEF Next
  <2>1. TypeOK /\ DecisionIsRecorded /\ Frame(t)
    BY SessionKeeps DEF IInv
  <2>2. CommittedRow(g)
    <3>1. PICK s \in Sessions : review[g] = s
      BY <2>1 DEF DecisionIsRecorded, CommittedReview
    <3> QED
      BY <3>1 DEF IInv, Sound, Owns
  <2> QED
    BY <2>1, <2>2, DecidedStays, CommittedStays
<1> QED
  BY <1>1, Invariance, PTL DEF Spec, DecisionIsFinal
=============================================================================

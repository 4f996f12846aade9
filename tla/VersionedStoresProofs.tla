----------------------- MODULE VersionedStoresProofs -----------------------
(* Proofs that the versioned stores keep their inductive invariant IInv.   *)
EXTENDS VersionedStores, TLAPS

(* What every step of a session leaves alone.                              *)
Frame(t) ==
  /\ store' = store /\ key' = key
  /\ \A s \in Sessions \ {t} : pc'[s] = pc[s] /\ latest'[s] = latest[s]
                               /\ answers'[s] = answers[s] /\ want'[s] = want[s]

LEMMA VisibleRow ==
  ASSUME NEW s \in Sessions, NEW r
  PROVE  r \in Visible(s) <=> r \in rows /\ r.key = key[s] /\ (r.by = s \/ Committed(r))
BY DEF Visible

(* Rows a session saw stay visible to it until it is rolled back.          *)
LEMMA VisibleGrows ==
  ASSUME TypeOK, NEW s \in Sessions, NEW t \in Sessions, Frame(t),
         pc[t] \notin {"committed", "aborted"}, pc'[s] # "aborted",
         \A r \in rows : r \in rows' \/ (r.by = t /\ pc'[t] = "aborted")
  PROVE  \A r \in Visible(s) : r \in Visible(s)'
<1> SUFFICES ASSUME NEW r \in Visible(s) PROVE r \in Visible(s)'
  OBVIOUS
<1>1. r \in rows /\ r.key = key[s] /\ r.by \in Sessions
  BY DEF TypeOK, Row, Visible
<1>2. r.by = s \/ pc[r.by] = "committed"
  BY DEF Visible, Committed
<1>3. r \in rows'
  BY <1>1, <1>2
<1>4. r.by = s \/ pc'[r.by] = "committed"
  BY <1>1, <1>2 DEF Frame
<1> QED
  BY <1>1, <1>3, <1>4 DEF Visible, Committed, Frame

LEMMA InitInv == Init => IInv
<1> SUFFICES ASSUME Init PROVE IInv
  OBVIOUS
<1>1. TypeOK
  BY DEF Init, TypeOK, Row, Answer
<1>2. RowInv /\ ReadInv
  BY DEF Init, RowInv, ReadInv
<1>3. LockInv
  BY DEF Init, LockInv, ImportsNeverCollide
<1>4. AnswerInv
  BY DEF Init, AnswerInv
<1> QED
  BY <1>1, <1>2, <1>3, <1>4 DEF IInv

(* A step that neither writes nor ends a session shows everybody the same  *)
(* rows as before.                                                         *)
LEMMA QuietStep ==
  ASSUME TypeOK, NEW s \in Sessions, Frame(s), rows' = rows,
         pc[s] \notin {"committed", "aborted"},
         pc'[s] \notin {"idle", "committed", "aborted"}
  PROVE  /\ \A r \in rows : r.by \in Sessions /\ (Committed(r) <=> Committed(r)')
         /\ \A t \in Sessions : Visible(t)' = Visible(t)
         /\ RowInv => RowInv'
<1>1. \A t \in Sessions : pc[t] = "committed" <=> pc'[t] = "committed"
  BY DEF Frame
<1>2. \A r \in rows : r.by \in Sessions /\ (Committed(r) <=> Committed(r)')
  BY <1>1 DEF Committed, TypeOK, Row
<1>3. \A t \in Sessions : Visible(t)' = Visible(t)
  BY <1>2 DEF Visible, Frame
<1>4. RowInv => RowInv'
  BY <1>2 DEF RowInv, Frame
<1> QED
  BY <1>2, <1>3, <1>4

LEMMA BeginKeeps ==
  ASSUME IInv, NEW s \in Sessions, NEW c \in Contents, Begin(s, c)
  PROVE  IInv'
<1> USE DEF IInv
<1>1. TypeOK'
  BY DEF TypeOK, Begin, Go
<1>2. Frame(s) /\ rows' = rows /\ pc[s] \in {"idle", "open"} /\ pc'[s] \in {"lock", "read"}
  BY DEF Begin, Frame, Go, TypeOK
<1>3. /\ \A r \in rows : r.by \in Sessions /\ (Committed(r) <=> Committed(r)')
      /\ \A t \in Sessions : Visible(t)' = Visible(t)
      /\ RowInv'
  BY <1>2, QuietStep
<1>4. ReadInv'
  BY <1>2, <1>3 DEF ReadInv, Frame
<1>5. LockInv'
  BY <1>2, <1>3 DEF LockInv, Frame, Begin, Go, ImportsNeverCollide, IsUpperBound
<1>6. AnswerInv'
  BY <1>2, <1>3 DEF AnswerInv, Begin, TrueOf, Frame
<1> QED
  BY <1>1, <1>3, <1>4, <1>5, <1>6

LEMMA LockKeeps ==
  ASSUME IInv, NEW s \in Sessions, Lock(s)
  PROVE  IInv'
<1> USE DEF IInv
<1>1. TypeOK'
  BY DEF TypeOK, Lock, Go, input
<1>2. Frame(s) /\ rows' = rows /\ pc[s] = "lock" /\ pc'[s] = "find"
  BY DEF Lock, Frame, Go, TypeOK, input
<1>3. /\ \A r \in rows : r.by \in Sessions /\ (Committed(r) <=> Committed(r)')
      /\ \A t \in Sessions : Visible(t)' = Visible(t)
      /\ RowInv'
  BY <1>2, QuietStep
<1>4. ReadInv'
  BY <1>2, <1>3 DEF ReadInv, Frame
<1>5. LockInv'
  <2> SUFFICES ASSUME store = "imports" PROVE LockInv'
    BY <1>2 DEF LockInv, Frame
  <2>1. lock[key[s]] \in {Free, s} /\ lock' = [lock EXCEPT ![key[s]] = s] /\ want' = want
    BY DEF Lock, input
  <2>2. \A t \in Sessions : pc'[t] \in {"find", "read", "insert"} => lock'[key'[t]] = t
    BY <2>1, <1>2, StoresAssumption DEF LockInv, Frame, TypeOK
  <2>3. \A r \in rows : r.by \in Sessions /\ r.key \in Keys
    BY DEF TypeOK, Row
  <2>4. \A r \in rows : Committed(r) \/ lock'[r.key] = r.by
    BY <2>1, <2>3, StoresAssumption DEF LockInv, TypeOK
  <2>5. \A r \in rows' : Committed(r)' \/ lock'[r.key] = r.by
    BY <2>4, <1>2, <1>3
  <2> QED
    BY <1>2, <1>3, <2>1, <2>2, <2>5 DEF LockInv, Frame, ImportsNeverCollide, IsUpperBound
<1>6. AnswerInv'
  BY <1>2, <1>3 DEF AnswerInv, Lock, input, TrueOf, Frame
<1> QED
  BY <1>1, <1>3, <1>4, <1>5, <1>6

(* A save that returns an answer true of a row it can see.                 *)
LEMMA ReturnIsTrue ==
  ASSUME TypeOK, AnswerInv, NEW s \in Sessions, Frame(s), pc[s] # "aborted",
         NEW status \in Statuses, NEW v \in Nat \ {0}, Return(s, status, v),
         \A t \in Sessions : pc'[t] # "aborted" => \A r \in Visible(t) : r \in Visible(t)',
         \E r \in Visible(s)' :
           TrueOf([status |-> status, version |-> v, content |-> want[s]], r, s)
  PROVE  AnswerInv'
<1> DEFINE a == [status |-> status, version |-> v, content |-> want[s]]
<1> SUFFICES ASSUME NEW t \in Sessions, pc'[t] # "aborted", NEW i \in DOMAIN answers'[t]
             PROVE  \E r \in Visible(t)' : TrueOf(answers[t][i], r, t)'
  BY DEF AnswerInv
<1>1. answers' = [answers EXCEPT ![s] = Append(@, a)]
  BY DEF Return
<1>2. store' = store /\ pc[t] # "aborted"
  BY DEF Frame
<1>3. answers \in [Sessions -> Seq(Answer)] /\ a \in Answer
  BY DEF TypeOK, Answer
<1>4. \A r : TrueOf(answers[t][i], r, t)' <=> TrueOf(answers'[t][i], r, t)
  BY <1>2 DEF TrueOf
<1>5. CASE t = s /\ i = Len(answers[s]) + 1
  <2>1. answers'[t][i] = a
    BY <1>1, <1>3, <1>5
  <2> QED
    BY <2>1, <1>4, <1>5
<1>6. CASE ~(t = s /\ i = Len(answers[s]) + 1)
  <2>1. i \in DOMAIN answers[t] /\ answers'[t][i] = answers[t][i]
    BY <1>1, <1>3, <1>6
  <2>2. PICK r \in Visible(t) : TrueOf(answers[t][i], r, t)
    BY <1>2, <2>1 DEF AnswerInv
  <2> QED
    BY <2>1, <2>2, <1>4
<1> QED
  BY <1>5, <1>6

LEMMA ReturnTypes ==
  ASSUME TypeOK, NEW s \in Sessions, NEW status \in Statuses, NEW v \in Nat \ {0},
         Return(s, status, v)
  PROVE  answers' \in [Sessions -> Seq(Answer)]
<1>1. [status |-> status, version |-> v, content |-> want[s]] \in Answer
  BY DEF TypeOK, Answer
<1> QED
  BY <1>1 DEF TypeOK, Return

LEMMA FindKeeps ==
  ASSUME IInv, NEW s \in Sessions, Find(s)
  PROVE  IInv'
<1> USE DEF IInv
<1> DEFINE found == {r \in Visible(s) : r.content = want[s]}
<1>0. \A r \in Visible(s) : r \in Row
  BY DEF Visible, TypeOK
<1>1. \/ found = {} /\ Go(s, "read") /\ UNCHANGED answers
      \/ \E r \in found : Return(s, "unchanged", r.version)
  BY DEF Find
<1>2. pc[s] = "find" /\ UNCHANGED <<store, key, want, rows, lock, latest>>
  BY DEF Find, input
<1>3. Frame(s) /\ pc'[s] \in {"read", "open"} /\ (pc'[s] = "read" => found = {})
  BY <1>1, <1>2 DEF Frame, Go, Return, TypeOK
<1>4. /\ \A r \in rows : r.by \in Sessions /\ (Committed(r) <=> Committed(r)')
      /\ \A t \in Sessions : Visible(t)' = Visible(t)
      /\ RowInv'
  BY <1>2, <1>3, QuietStep
<1>5. answers' \in [Sessions -> Seq(Answer)]
  <2>1. CASE \E r \in found : Return(s, "unchanged", r.version)
    BY <1>0, <2>1, ReturnTypes DEF Row, Statuses
  <2> QED
    BY <1>1, <2>1 DEF TypeOK
<1>6. TypeOK'
  BY <1>1, <1>2, <1>5 DEF TypeOK, Go, Return
<1>7. ReadInv'
  BY <1>2, <1>3, <1>4 DEF ReadInv, Frame
<1>8. LockInv'
  BY <1>2, <1>3, <1>4 DEF LockInv, Frame, ImportsNeverCollide, IsUpperBound
<1>9. AnswerInv'
  <2>1. CASE UNCHANGED answers
    BY <2>1, <1>2, <1>3, <1>4 DEF AnswerInv, TrueOf, Frame
  <2>2. CASE \E r \in found : Return(s, "unchanged", r.version)
    <3>1. PICK r \in found : Return(s, "unchanged", r.version)
      BY <2>2
    <3>2. r.version \in Nat \ {0} /\ r \in Visible(s)'
      BY <1>0, <1>4 DEF Row
    <3>3. TrueOf([status |-> "unchanged", version |-> r.version, content |-> want[s]], r, s)
      BY DEF TrueOf
    <3> QED
      BY <1>2, <1>3, <1>4, <3>1, <3>2, <3>3, ReturnIsTrue DEF Statuses
  <2> QED
    BY <1>1, <2>1, <2>2
<1> QED
  BY <1>4, <1>6, <1>7, <1>8, <1>9

LEMMA ReadKeeps ==
  ASSUME IInv, NEW s \in Sessions, Read(s)
  PROVE  IInv'
<1> USE DEF IInv
<1>0. \A r \in Visible(s) : r \in Row
  BY DEF Visible, TypeOK
<1>1. \/ Visible(s) = {} /\ latest' = [latest EXCEPT ![s] = 0] /\ Go(s, "insert") /\ UNCHANGED answers
      \/ \E r \in Visible(s) :
           /\ IsLatest(r, Visible(s)) /\ latest' = [latest EXCEPT ![s] = r.version]
           /\ \/ store = "cases" /\ r.content = want[s] /\ Return(s, "unchanged", r.version)
              \/ Go(s, "insert") /\ UNCHANGED answers
  BY DEF Read
<1>2. pc[s] = "read" /\ UNCHANGED <<store, key, want, rows, lock>>
  BY DEF Read, input
<1>3. Frame(s) /\ pc'[s] \in {"insert", "open"}
  BY <1>1, <1>2 DEF Frame, Go, Return, TypeOK
<1>4. /\ \A r \in rows : r.by \in Sessions /\ (Committed(r) <=> Committed(r)')
      /\ \A t \in Sessions : Visible(t)' = Visible(t)
      /\ RowInv'
  BY <1>2, <1>3, QuietStep
<1>5. /\ latest' \in [Sessions -> Nat]
      /\ IsUpperBound(latest'[s], Visible(s))
      /\ latest'[s] > 0 => \E q \in Visible(s) : q.version = latest'[s]
  <2>1. CASE Visible(s) = {} /\ latest' = [latest EXCEPT ![s] = 0]
    BY <2>1 DEF TypeOK, IsUpperBound
  <2>2. CASE \E r \in Visible(s) :
               IsLatest(r, Visible(s)) /\ latest' = [latest EXCEPT ![s] = r.version]
    BY <1>0, <2>2 DEF TypeOK, IsLatest, Row
  <2> QED
    BY <1>1, <2>1, <2>2
<1>6. answers' \in [Sessions -> Seq(Answer)]
  <2>1. CASE \E r \in Visible(s) : Return(s, "unchanged", r.version)
    BY <1>0, <2>1, ReturnTypes DEF Row, Statuses
  <2> QED
    BY <1>1, <2>1 DEF TypeOK
<1>7. TypeOK'
  BY <1>1, <1>2, <1>5, <1>6 DEF TypeOK, Go, Return
<1>8. ReadInv'
  BY <1>2, <1>3, <1>4, <1>5 DEF ReadInv, Frame
<1>9. LockInv'
  BY <1>2, <1>3, <1>4, <1>5 DEF LockInv, Frame, ImportsNeverCollide, IsUpperBound
<1>10. AnswerInv'
  <2>1. CASE UNCHANGED answers
    BY <2>1, <1>2, <1>3, <1>4 DEF AnswerInv, TrueOf, Frame
  <2>2. CASE \E r \in Visible(s) : store = "cases" /\ r.content = want[s] /\ Return(s, "unchanged", r.version)
    <3>1. PICK r \in Visible(s) : r.content = want[s] /\ Return(s, "unchanged", r.version)
      BY <2>2
    <3>2. r.version \in Nat \ {0} /\ r \in Visible(s)'
      BY <1>0, <1>4 DEF Row
    <3>3. TrueOf([status |-> "unchanged", version |-> r.version, content |-> want[s]], r, s)
      BY <3>1 DEF TrueOf
    <3> QED
      BY <1>2, <1>3, <1>4, <3>1, <3>2, <3>3, ReturnIsTrue DEF Statuses
  <2> QED
    BY <1>1, <2>1, <2>2
<1> QED
  BY <1>4, <1>7, <1>8, <1>9, <1>10

LEMMA RereadKeeps ==
  ASSUME IInv, NEW s \in Sessions, Reread(s)
  PROVE  IInv'
<1> USE DEF IInv
<1>0. \A r \in Visible(s) : r \in Row
  BY DEF Visible, TypeOK
<1>1. /\ pc[s] = "collided" /\ store = "cases"
      /\ UNCHANGED <<store, key, want, rows, lock, latest>>
  BY DEF Reread, input
<1> DEFINE status(r) == IF r.content = want[s] THEN "unchanged" ELSE "updated"
<1>2. PICK r \in Visible(s) : Return(s, status(r), r.version)
  BY DEF Reread
<1>3. Frame(s) /\ pc'[s] = "open"
  BY <1>1, <1>2 DEF Frame, Go, Return, TypeOK
<1>4. /\ \A q \in rows : q.by \in Sessions /\ (Committed(q) <=> Committed(q)')
      /\ \A t \in Sessions : Visible(t)' = Visible(t)
      /\ RowInv'
  BY <1>1, <1>3, QuietStep
<1>5. status(r) \in Statuses /\ r.version \in Nat \ {0} /\ r \in Visible(s)'
  BY <1>0, <1>4 DEF Statuses, Row
<1>6. TypeOK'
  <2>1. answers' \in [Sessions -> Seq(Answer)]
    BY <1>2, <1>5, ReturnTypes
  <2> QED
    BY <1>1, <1>2, <2>1 DEF TypeOK, Return, Go
<1>7. ReadInv' /\ LockInv'
  BY <1>1, <1>3, <1>4 DEF ReadInv, LockInv, Frame
<1>8. TrueOf([status |-> status(r), version |-> r.version, content |-> want[s]], r, s)
  BY <1>1 DEF TrueOf
<1>9. AnswerInv'
  BY <1>1, <1>2, <1>3, <1>4, <1>5, <1>8, ReturnIsTrue
<1> QED
  BY <1>4, <1>6, <1>7, <1>9

(* The insertion that collides: only a case or a suite can get there.      *)
LEMMA CollisionKeeps ==
  ASSUME IInv, NEW s \in Sessions, Insert(s), Colliding(s, NextVersion(s)) # {}
  PROVE  IInv'
<1> USE DEF IInv
<1>1. /\ pc[s] = "insert" /\ Colliding(s, NextVersion(s)) \subseteq Visible(s)
      /\ Go(s, "collided")
      /\ UNCHANGED <<store, key, want, rows, lock, latest, answers>>
  BY DEF Insert, input
<1>2. Frame(s) /\ pc'[s] = "collided"
  BY <1>1 DEF Frame, Go, TypeOK
<1>3. /\ \A r \in rows : r.by \in Sessions /\ (Committed(r) <=> Committed(r)')
      /\ \A t \in Sessions : Visible(t)' = Visible(t)
      /\ RowInv'
  BY <1>1, <1>2, QuietStep
<1>4. TypeOK'
  BY <1>1 DEF TypeOK, Go
<1>5. store # "imports"
  <2> SUFFICES ASSUME store = "imports" PROVE FALSE
    OBVIOUS
  <2>1. PICK r \in Visible(s) : r.version = NextVersion(s) \/ r.content = want[s]
    BY <1>1 DEF Colliding
  <2>2. r.version <= latest[s] /\ r.content # want[s]
    BY <1>1 DEF LockInv, IsUpperBound
  <2> QED
    BY <2>1, <2>2 DEF NextVersion, TypeOK
<1>6. ReadInv' /\ LockInv' /\ AnswerInv'
  BY <1>1, <1>2, <1>3, <1>5 DEF ReadInv, LockInv, AnswerInv, TrueOf, Frame
<1> QED
  BY <1>3, <1>4, <1>6

LEMMA InsertKeeps ==
  ASSUME IInv, NEW s \in Sessions, Insert(s), Colliding(s, NextVersion(s)) = {}
  PROVE  IInv'
<1> USE DEF IInv
<1> DEFINE v == NextVersion(s)
           n == [key |-> key[s], version |-> v, content |-> want[s], by |-> s]
           status == IF v = 1 THEN "created" ELSE "updated"
<1>1. /\ pc[s] = "insert" /\ rows' = rows \cup {n} /\ Return(s, status, v)
      /\ UNCHANGED <<store, key, want, lock, latest>>
  BY DEF Insert, input
<1>2. v \in Nat \ {0} /\ v = latest[s] + 1 /\ latest[s] \in Nat /\ status \in Statuses /\ n \in Row
  BY DEF NextVersion, TypeOK, Statuses, Row
<1>3. Frame(s) /\ pc'[s] = "open"
  BY <1>1 DEF Frame, Go, Return, TypeOK
<1>4. TypeOK'
  <2>1. answers' \in [Sessions -> Seq(Answer)]
    BY <1>1, <1>2, ReturnTypes
  <2> QED
    BY <1>1, <1>2, <2>1 DEF TypeOK, Return, Go
<1>5. \A r \in rows : r.by \in Sessions /\ (Committed(r) <=> Committed(r)')
  BY <1>1, <1>3 DEF Committed, TypeOK, Row, Frame
<1>7. /\ Visible(s)' = Visible(s) \cup {n}
      /\ \A t \in Sessions \ {s} : Visible(t)' = Visible(t)
  <2>1. \A t \in Sessions : key'[t] = key[t]
    BY <1>1
  <2>2. \A r \in rows : Committed(r)' <=> Committed(r)
    BY <1>5
  <2>3. Visible(s)' = {r \in rows \cup {n} : r.key = key[s] /\ (r.by = s \/ Committed(r)')}
    BY <1>1, <2>1 DEF Visible
  <2>4. Visible(s)' = Visible(s) \cup {n}
    BY <2>2, <2>3 DEF Visible
  <2>5. ASSUME NEW t \in Sessions \ {s}
        PROVE  Visible(t)' = Visible(t)
    <3>1. Visible(t)' = {r \in rows \cup {n} : r.key = key[t] /\ (r.by = t \/ Committed(r)')}
      BY <1>1, <2>1 DEF Visible
    <3>2. \A r : r = n => r.by # t /\ ~Committed(r)'
      BY <1>3 DEF Committed
    <3>3. Visible(t)' = {r \in rows : r.key = key[t] /\ (r.by = t \/ Committed(r)')}
      BY <3>1, <3>2
    <3> QED
      BY <2>2, <3>3 DEF Visible
  <2> QED
    BY <2>4, <2>5
<1>8. RowInv'
  <2>1. \A r \in rows' : r.key = key'[r.by] /\ pc'[r.by] \notin {"idle", "aborted"}
    BY <1>1, <1>3, <1>5 DEF RowInv, Frame
  <2>2. \A r \in rows : r.key = key[s] => r.version # v /\ r.content # want[s]
    BY DEF Colliding
  <2>3. \A r, q \in rows' : r.key = q.key /\ (r.version = q.version \/ r.content = q.content) => r = q
    BY <1>1, <2>2 DEF RowInv
  <2>4. v > 1 => \E q \in rows : q.key = key[s] /\ q.version = v - 1 /\ (q.by = s \/ Committed(q))
    BY <1>1, <1>2 DEF ReadInv, Visible
  <2>5. \A r \in rows' : r.version > 1 =>
          \E q \in rows' : q.key = r.key /\ q.version = r.version - 1 /\ (q.by = r.by \/ Committed(q)')
    BY <1>1, <1>5, <2>4 DEF RowInv
  <2> QED
    BY <2>1, <2>3, <2>5 DEF RowInv
<1>9. ReadInv'
  BY <1>1, <1>3, <1>7 DEF ReadInv, Frame
<1>10. LockInv'
  <2> SUFFICES ASSUME store = "imports" PROVE LockInv'
    BY <1>1 DEF LockInv
  <2>1. lock[key[s]] = s
    BY <1>1 DEF LockInv
  <2>2. \A r \in rows' : Committed(r)' \/ lock'[r.key] = r.by
    BY <1>1, <1>5, <2>1 DEF LockInv
  <2> QED
    BY <1>1, <1>3, <1>7, <2>2 DEF LockInv, Frame, ImportsNeverCollide, IsUpperBound
<1>11. AnswerInv'
  <2>1. n \in Visible(s)' /\ \A t \in Sessions : \A r \in Visible(t) : r \in Visible(t)'
    BY <1>7
  <2>2. TrueOf([status |-> status, version |-> v, content |-> want[s]], n, s)
    BY <1>2 DEF TrueOf
  <2> QED
    BY <1>1, <1>2, <1>3, <2>1, <2>2, ReturnIsTrue
<1> QED
  BY <1>4, <1>8, <1>9, <1>10, <1>11

LEMMA CommitKeeps ==
  ASSUME IInv, NEW s \in Sessions, Commit(s)
  PROVE  IInv'
<1> USE DEF IInv
<1>1. /\ pc[s] = "open" /\ Go(s, "committed") /\ Unlock(s)
      /\ UNCHANGED <<store, key, want, rows, latest, answers>>
  BY DEF Commit, input
<1>2. Frame(s) /\ pc'[s] = "committed"
  BY <1>1 DEF Frame, Go, TypeOK
<1>3. TypeOK'
  BY <1>1 DEF TypeOK, Go, Unlock
<1>4. \A r \in rows : r.by \in Sessions /\ (Committed(r)' <=> Committed(r) \/ r.by = s)
  BY <1>1, <1>2 DEF Committed, TypeOK, Row, Frame
<1>5. \A t \in Sessions : pc'[t] # "aborted" => \A r \in Visible(t) : r \in Visible(t)'
  BY <1>1, <1>2, VisibleGrows
<1>6. RowInv'
  BY <1>1, <1>2, <1>4 DEF RowInv, Frame
<1>7. ReadInv'
  BY <1>1, <1>2, <1>5 DEF ReadInv, Frame
<1>8. LockInv'
  <2> SUFFICES ASSUME store = "imports" PROVE LockInv'
    BY <1>1 DEF LockInv
  <2>1. \A k \in Keys : lock[k] # s => lock'[k] = lock[k]
    BY <1>1 DEF Unlock
  <2>2. \A t \in Sessions : pc'[t] \in {"find", "read", "insert"} =>
          /\ t # s /\ pc[t] = pc'[t]
          /\ lock[key[t]] = t /\ lock'[key'[t]] = t
          /\ Visible(t)' = Visible(t)
    <3> SUFFICES ASSUME NEW t \in Sessions, pc'[t] \in {"find", "read", "insert"}
                 PROVE  /\ t # s /\ pc[t] = pc'[t]
                        /\ lock[key[t]] = t /\ lock'[key'[t]] = t
                        /\ Visible(t)' = Visible(t)
      OBVIOUS
    <3>1. t # s /\ pc[t] = pc'[t] /\ lock[key[t]] = t
      BY <1>2 DEF Frame, LockInv
    <3>2. lock'[key'[t]] = t
      BY <1>1, <2>1, <3>1 DEF TypeOK
    <3>3. \A r \in rows : r.key = key[t] => Committed(r) \/ r.by = t
      BY <3>1 DEF LockInv
    <3>4. Visible(t)' = Visible(t)
      BY <1>1, <1>4, <3>1, <3>3 DEF Visible
    <3> QED
      BY <3>1, <3>2, <3>4
  <2>3. \A r \in rows' : Committed(r)' \/ lock'[r.key] = r.by
    BY <1>1, <1>4, <2>1 DEF LockInv, TypeOK, Row
  <2>4. ImportsNeverCollide'
    BY <1>1, <1>2 DEF LockInv, ImportsNeverCollide, Frame
  <2>5. \A t \in Sessions : pc'[t] \in {"read", "insert"} => \A r \in Visible(t)' : r.content # want'[t]
    BY <1>1, <2>2 DEF LockInv
  <2>6. \A t \in Sessions : pc'[t] = "insert" => IsUpperBound(latest[t], Visible(t)')
    BY <2>2 DEF LockInv
  <2>7. \A t \in Sessions : pc'[t] = "insert" => IsUpperBound(latest[t], Visible(t))'
    BY <1>1, <2>6 DEF IsUpperBound
  <2> QED
    BY <2>2, <2>3, <2>4, <2>5, <2>7 DEF LockInv
<1>9. AnswerInv'
  BY <1>1, <1>2, <1>5 DEF AnswerInv, TrueOf, Frame
<1> QED
  BY <1>3, <1>6, <1>7, <1>8, <1>9

LEMMA AbortKeeps ==
  ASSUME IInv, NEW s \in Sessions, Abort(s)
  PROVE  IInv'
<1> USE DEF IInv
<1>1. /\ pc[s] \notin {"idle", "committed", "aborted"} /\ Go(s, "aborted") /\ Unlock(s)
      /\ rows' = {r \in rows : r.by # s}
      /\ UNCHANGED <<store, key, want, latest, answers>>
  BY DEF Abort, input
<1>2. Frame(s) /\ pc'[s] = "aborted"
  BY <1>1 DEF Frame, Go, TypeOK
<1>3. TypeOK'
  BY <1>1 DEF TypeOK, Go, Unlock
<1>4. \A r \in rows : r.by \in Sessions /\ (Committed(r)' <=> Committed(r))
                      /\ (Committed(r) => r.by # s)
  BY <1>1, <1>2 DEF Committed, TypeOK, Row, Frame
<1>5. \A t \in Sessions \ {s} : Visible(t)' = Visible(t)
  BY <1>1, <1>4 DEF Visible
<1>6. RowInv'
  BY <1>1, <1>2, <1>4 DEF RowInv, Frame
<1>7. ReadInv'
  BY <1>1, <1>2, <1>5 DEF ReadInv, Frame
<1>8. LockInv'
  <2> SUFFICES ASSUME store = "imports" PROVE LockInv'
    BY <1>1 DEF LockInv
  <2>1. \A k \in Keys : lock[k] # s => lock'[k] = lock[k]
    BY <1>1 DEF Unlock
  <2>2. \A t \in Sessions : pc'[t] \in {"find", "read", "insert"} => lock'[key'[t]] = t
    <3> SUFFICES ASSUME NEW t \in Sessions, pc'[t] \in {"find", "read", "insert"}
                 PROVE  lock'[key'[t]] = t
      OBVIOUS
    <3>1. t # s /\ lock[key[t]] = t /\ key'[t] = key[t] /\ key[t] \in Keys
      BY <1>1, <1>2 DEF LockInv, Frame, TypeOK
    <3> QED
      BY <2>1, <3>1
  <2>3. \A r \in rows' : Committed(r)' \/ lock'[r.key] = r.by
    BY <1>1, <1>4, <2>1 DEF LockInv, TypeOK, Row
  <2> QED
    BY <1>1, <1>2, <1>5, <2>2, <2>3 DEF LockInv, Frame, ImportsNeverCollide, IsUpperBound
<1>9. AnswerInv'
  BY <1>1, <1>2, <1>5 DEF AnswerInv, TrueOf, Frame
<1> QED
  BY <1>3, <1>6, <1>7, <1>8, <1>9

LEMMA StepInv == IInv /\ [Next]_vars => IInv'
<1> SUFFICES ASSUME IInv, [Next]_vars PROVE IInv'
  OBVIOUS
<1>1. CASE UNCHANGED vars
  BY <1>1 DEF vars, IInv, TypeOK, RowInv, ReadInv, LockInv, AnswerInv, TrueOf, Visible,
              Committed, ImportsNeverCollide, IsUpperBound
<1>2. CASE Next
  BY <1>2, BeginKeeps, LockKeeps, FindKeeps, ReadKeeps, CollisionKeeps, InsertKeeps, RereadKeeps,
     CommitKeeps, AbortKeeps DEF Next, SaveStep
<1> QED
  BY <1>1, <1>2

(* The inductive invariant holds in every reachable state.                 *)
THEOREM Invariance == Spec => []IInv
<1>1. Init => IInv
  BY InitInv
<1>2. IInv /\ [Next]_vars => IInv'
  BY StepInv
<1> QED
  BY <1>1, <1>2, PTL DEF Spec

(* The tables and what sessions know of them keep their types.             *)
THEOREM TypeCorrect == Spec => []TypeOK
<1>1. IInv => TypeOK
  BY DEF IInv
<1> QED
  BY <1>1, Invariance, PTL

(* The committed versions of a key are 1, 2, ... with different contents.  *)
THEOREM HistoriesConsecutive == Spec => []HistoryIsConsecutive
<1>1. IInv => HistoryIsConsecutive
  <2> SUFFICES ASSUME IInv, NEW k \in Keys, NEW r \in Saved(k)
               PROVE  /\ r.version > 1 => \E q \in Saved(k) : q.version = r.version - 1
                      /\ \A q \in Saved(k) :
                           q.version = r.version \/ q.content = r.content => q = r
    BY DEF HistoryIsConsecutive
  <2>1. r.version > 1 => \E q \in Saved(k) : q.version = r.version - 1
    BY DEF IInv, RowInv, Saved, Committed
  <2>2. \A q \in Saved(k) : q.version = r.version \/ q.content = r.content => q = r
    BY DEF IInv, RowInv, Saved
  <2> QED
    BY <2>1, <2>2
<1> QED
  BY <1>1, Invariance, PTL

(* Under the advisory lock the insertion of an import never collides.      *)
THEOREM LockSuffices == Spec => []ImportsNeverCollide
<1>1. IInv => ImportsNeverCollide
  BY DEF IInv, LockInv, ImportsNeverCollide
<1> QED
  BY <1>1, Invariance, PTL

LEMMA AnswersSaved ==
  ASSUME IInv, NEW s \in Sessions, pc[s] = "committed", NEW i \in DOMAIN answers[s]
  PROVE  \E r \in Saved(key[s]) : TrueOf(answers[s][i], r, s)
BY DEF IInv, AnswerInv, Visible, Saved, Committed

(* Every committed import answered with the version that has its content.  *)
THEOREM ImportsStored == Spec => []ImportsAreStored
<1>1. IInv => ImportsAreStored
  <2>1. IInv => ImportsNeverCollide
    BY DEF IInv, LockInv, ImportsNeverCollide
  <2> QED
    BY <2>1, AnswersSaved DEF ImportsAreStored, TrueOf
<1> QED
  BY <1>1, Invariance, PTL

(* Every committed case or suite save answered with a version there is.    *)
THEOREM CaseAnswersUsable == Spec => []CaseAnswersAreUsable
<1>1. IInv => CaseAnswersAreUsable
  BY AnswersSaved DEF CaseAnswersAreUsable, TrueOf
<1> QED
  BY <1>1, Invariance, PTL
=============================================================================

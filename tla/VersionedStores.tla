-------------------------- MODULE VersionedStores --------------------------
(***************************************************************************)
(* The append-only stores: trace imports, feedback annotations, regression *)
(* cases and case suites.  A key (a trace, an annotation, a case, a suite) *)
(* has numbered versions, and saving content gives it a new version unless *)
(* the store has it already.                                               *)
(*                                                                         *)
(* The stores differ in how they decide that.  Imports and annotations     *)
(* take an advisory lock and look for the content among all versions;      *)
(* cases and suites take no lock and compare with the latest version only. *)
(* Both rely on two unique constraints, (key, version) and (key, content). *)
(*                                                                         *)
(* Sessions run at READ COMMITTED: a statement sees committed rows and the *)
(* session's own; a row that collides with an uncommitted one waits.       *)
(***************************************************************************)
EXTENDS Integers, Sequences

CONSTANTS
  Sessions,   \* database sessions, each working on one key
  Keys,       \* evidence, annotation, case or suite ids
  Contents,   \* content hashes
  MaxSaves    \* bound on the saves of one session

Free == "free"

ASSUME StoresAssumption == MaxSaves \in Nat /\ Free \notin Sessions

VARIABLES
  store,    \* "imports" (also annotations) or "cases" (also suites)
  rows,     \* versions in the table, with the session that inserted them
  lock,     \* holder of the advisory lock of every key
  pc,       \* where every session is
  key,      \* the key a session works on
  want,     \* the content it is saving
  latest,   \* the version it read as the latest, 0 when there was none
  answers   \* what its saves returned

input == <<store, key, want>>
vars == <<store, rows, lock, pc, key, want, latest, answers>>

Statuses == {"created", "updated", "unchanged"}
Row == [key: Keys, version: Nat \ {0}, content: Contents, by: Sessions]
Answer == [status: Statuses, version: Nat \ {0}, content: Contents]

(* Every store starts with an empty table.                                 *)
Init ==
  /\ store \in {"imports", "cases"}
  /\ rows = {}
  /\ lock = [k \in Keys |-> Free]
  /\ pc = [s \in Sessions |-> "idle"]
  /\ key \in [Sessions -> Keys]
  /\ want \in [Sessions -> Contents]
  /\ latest = [s \in Sessions |-> 0]
  /\ answers = [s \in Sessions |-> <<>>]

-----------------------------------------------------------------------------
(* What a statement of session s sees of its key.                          *)

Committed(r) == pc[r.by] = "committed"

Visible(s) == {r \in rows : r.key = key[s] /\ (r.by = s \/ Committed(r))}

IsUpperBound(v, R) == \A q \in R : q.version <= v

IsLatest(r, R) == IsUpperBound(r.version, R)

NextVersion(s) == latest[s] + 1

(* Rows the unique constraints would not allow beside the new one.         *)
Colliding(s, v) ==
  {r \in rows : r.key = key[s] /\ (r.version = v \/ r.content = want[s])}

Go(s, label) == pc' = [pc EXCEPT ![s] = label]

(* The save returns, the session stays open.                               *)
Return(s, status, v) ==
  /\ Go(s, "open")
  /\ answers' = [answers EXCEPT ![s] = Append(@, [status |-> status, version |-> v,
                                                  content |-> want[s]])]

-----------------------------------------------------------------------------
(* One save                                                                *)

Begin(s, c) ==
  /\ pc[s] \in {"idle", "open"} /\ Len(answers[s]) < MaxSaves
  /\ want' = [want EXCEPT ![s] = c]
  /\ Go(s, IF store = "imports" THEN "lock" ELSE "read")
  /\ UNCHANGED <<store, rows, lock, key, latest, answers>>

(* pg_advisory_xact_lock; the session may hold it already.                 *)
Lock(s) ==
  /\ pc[s] = "lock" /\ lock[key[s]] \in {Free, s}
  /\ lock' = [lock EXCEPT ![key[s]] = s]
  /\ Go(s, "find")
  /\ UNCHANGED <<input, rows, latest, answers>>

(* Mutated: any version of the key counts as the content.                  *)
FindKey(s) ==
  /\ pc[s] = "find"
  /\ IF Visible(s) = {} THEN Go(s, "read") /\ UNCHANGED answers
     ELSE \E r \in Visible(s) : Return(s, "unchanged", r.version)
  /\ UNCHANGED <<input, rows, lock, latest>>

(* find_exact_import, find_exact_annotation.                               *)
Find(s) ==
  /\ pc[s] = "find"
  /\ LET found == {r \in Visible(s) : r.content = want[s]} IN
     IF found = {} THEN Go(s, "read") /\ UNCHANGED answers
     ELSE \E r \in found : Return(s, "unchanged", r.version)
  /\ UNCHANGED <<input, rows, lock, latest>>

(* latest_import_version, latest_revision, latest_case, latest_suite.      *)
Read(s) ==
  /\ pc[s] = "read"
  /\ \/ /\ Visible(s) = {}
        /\ latest' = [latest EXCEPT ![s] = 0]
        /\ Go(s, "insert") /\ UNCHANGED answers
     \/ \E r \in Visible(s) :
          /\ IsLatest(r, Visible(s))
          /\ latest' = [latest EXCEPT ![s] = r.version]
          /\ IF store = "cases" /\ r.content = want[s]
             THEN Return(s, "unchanged", r.version)
             ELSE Go(s, "insert") /\ UNCHANGED answers
  /\ UNCHANGED <<input, rows, lock>>

(* Mutated: the table has no unique constraints.                           *)
InsertAnyway(s) ==
  LET v == NextVersion(s) IN
  /\ pc[s] = "insert"
  /\ rows' = rows \cup {[key |-> key[s], version |-> v, content |-> want[s], by |-> s]}
  /\ Return(s, IF v = 1 THEN "created" ELSE "updated", v)
  /\ UNCHANGED <<input, lock, latest>>

(* save_import, save_annotation, insert_version: the row goes into a       *)
(* savepoint, once no other session can still commit a colliding row.      *)
Insert(s) ==
  LET v == NextVersion(s) IN
  /\ pc[s] = "insert"
  /\ Colliding(s, v) \subseteq Visible(s)
  /\ IF Colliding(s, v) # {} THEN Go(s, "collided") /\ UNCHANGED <<rows, answers>>
     ELSE /\ rows' = rows \cup {[key |-> key[s], version |-> v, content |-> want[s],
                                 by |-> s]}
          /\ Return(s, IF v = 1 THEN "created" ELSE "updated", v)
  /\ UNCHANGED <<input, lock, latest>>

(* Mutated: whoever collides is told that nothing changed.                 *)
RereadUnchanged(s) ==
  /\ pc[s] = "collided" /\ store = "cases"
  /\ \E r \in Visible(s) :
       IsLatest(r, Visible(s)) /\ Return(s, "unchanged", r.version)
  /\ UNCHANGED <<input, rows, lock, latest>>

(* Cases and suites answer a collision with whatever is the latest now.    *)
Reread(s) ==
  /\ pc[s] = "collided" /\ store = "cases"
  /\ \E r \in Visible(s) :
       /\ IsLatest(r, Visible(s))
       /\ Return(s, IF r.content = want[s] THEN "unchanged" ELSE "updated", r.version)
  /\ UNCHANGED <<input, rows, lock, latest>>

-----------------------------------------------------------------------------
(* The end of a session                                                    *)

Unlock(s) == lock' = [k \in Keys |-> IF lock[k] = s THEN Free ELSE lock[k]]

(* Mutated: the lock is not tied to the transaction.                       *)
CommitKeepsLock(s) ==
  /\ pc[s] = "open"
  /\ Go(s, "committed") /\ UNCHANGED <<input, rows, lock, latest, answers>>

Commit(s) ==
  /\ pc[s] = "open"
  /\ Go(s, "committed") /\ Unlock(s)
  /\ UNCHANGED <<input, rows, latest, answers>>

(* An exception (refused content, a collision under the lock, a lost       *)
(* connection) rolls everything back.                                      *)
Abort(s) ==
  /\ pc[s] \notin {"idle", "committed", "aborted"}
  /\ Go(s, "aborted") /\ Unlock(s)
  /\ rows' = {r \in rows : r.by # s}
  /\ UNCHANGED <<input, latest, answers>>

-----------------------------------------------------------------------------
SaveStep(s) ==
  \/ Lock(s) \/ Find(s) \/ Read(s) \/ Insert(s) \/ Reread(s) \/ Commit(s)

Next ==
  \E s \in Sessions :
    \/ \E c \in Contents : Begin(s, c)
    \/ SaveStep(s)
    \/ Abort(s)

Spec == Init /\ [][Next]_vars

(* The database serves every statement that does not have to wait.         *)
FairSpec == Spec /\ \A s \in Sessions : WF_vars(SaveStep(s))

-----------------------------------------------------------------------------
(* Properties                                                              *)

(* Types of the tables and of what sessions know of them.                  *)
TypeOK ==
  /\ store \in {"imports", "cases"}
  /\ rows \subseteq Row
  /\ lock \in [Keys -> Sessions \cup {Free}]
  /\ pc \in [Sessions -> {"idle", "lock", "find", "read", "insert", "collided", "open",
                          "committed", "aborted"}]
  /\ key \in [Sessions -> Keys] /\ want \in [Sessions -> Contents]
  /\ latest \in [Sessions -> Nat]
  /\ answers \in [Sessions -> Seq(Answer)]

Saved(k) == {r \in rows : r.key = k /\ Committed(r)}

(* The committed versions of a key are numbered 1, 2, ... without a gap    *)
(* and differ in content, however sessions interleave and roll back.       *)
HistoryIsConsecutive ==
  \A k \in Keys : \A r \in Saved(k) :
    /\ r.version > 1 => \E q \in Saved(k) : q.version = r.version - 1
    /\ \A q \in Saved(k) : q.version = r.version \/ q.content = r.content => q = r

(* Imports never see their "conflicted; retry the import" error.           *)
ImportsNeverCollide ==
  store = "imports" => \A s \in Sessions : pc[s] # "collided"

(* The advisory lock makes the collision of imports unreachable, and after *)
(* the commit the version an import answered with holds the content it was *)
(* given, and "created" and "updated" are true of it.                      *)
ImportsAreStored ==
  /\ ImportsNeverCollide
  /\ store = "imports" =>
    \A s \in Sessions : pc[s] = "committed" => \A i \in DOMAIN answers[s] :
      LET a == answers[s][i] IN
      \E r \in Saved(key[s]) :
        /\ r.version = a.version /\ r.content = a.content
        /\ a.status = "created" => r.version = 1 /\ r.by = s
        /\ a.status = "updated" => r.version > 1 /\ r.by = s

(* What a case or suite save promises even when it collides: the answer    *)
(* names a committed version, only the first of them was "created", and    *)
(* an "unchanged" one holds the content that was given.                    *)
CaseAnswersAreUsable ==
  store = "cases" =>
    \A s \in Sessions : pc[s] = "committed" => \A i \in DOMAIN answers[s] :
      LET a == answers[s][i] IN
      \E r \in Saved(key[s]) :
        /\ r.version = a.version
        /\ a.status = "created" => r.version = 1 /\ r.by = s /\ r.content = a.content
        /\ a.status = "unchanged" => r.content = a.content

(* A session that is saving gets its answer or rolls back: nobody waits    *)
(* for a lock or a colliding row for ever.                                 *)
SaveReturns ==
  \A s \in Sessions :
    pc[s] \in {"lock", "read"} ~> pc[s] \in {"open", "committed", "aborted"}

(* Strengthening of the safety properties: two rows never collide, a row   *)
(* builds on one its session could see, and what a session read last holds *)
(* until it inserts; under the lock it is also the whole truth.            *)
RowInv ==
  /\ \A r \in rows : r.key = key[r.by] /\ pc[r.by] \notin {"idle", "aborted"}
  /\ \A r, q \in rows :
       r.key = q.key /\ (r.version = q.version \/ r.content = q.content) => r = q
  /\ \A r \in rows : r.version > 1 =>
       \E q \in rows : q.key = r.key /\ q.version = r.version - 1 /\ (q.by = r.by \/ Committed(q))

ReadInv ==
  \A s \in Sessions : pc[s] = "insert" /\ latest[s] > 0 =>
    \E q \in Visible(s) : q.version = latest[s]

LockInv ==
  store = "imports" =>
    /\ \A s \in Sessions : pc[s] \in {"find", "read", "insert"} => lock[key[s]] = s
    /\ \A r \in rows : Committed(r) \/ lock[r.key] = r.by
    /\ \A s \in Sessions : pc[s] \in {"read", "insert"} =>
         \A r \in Visible(s) : r.content # want[s]
    /\ \A s \in Sessions : pc[s] = "insert" => IsUpperBound(latest[s], Visible(s))
    /\ ImportsNeverCollide

(* What answer a may claim of row r, saved or seen by session s.           *)
TrueOf(a, r, s) ==
  /\ r.version = a.version
  /\ a.status = "created" => r.version = 1 /\ r.by = s
  /\ a.status # "updated" \/ store = "imports" => r.content = a.content
  /\ a.status = "updated" /\ store = "imports" => r.version > 1 /\ r.by = s

AnswerInv ==
  \A s \in Sessions : pc[s] # "aborted" => \A i \in DOMAIN answers[s] :
    \E r \in Visible(s) : TrueOf(answers[s][i], r, s)

IInv == TypeOK /\ RowInv /\ ReadInv /\ LockInv /\ AnswerInv

(* "Saving the same bundle again returns the existing version unchanged.   *)
(* Saving changed content creates the next immutable version" (save_case). *)
SavedCaseIsStored ==
  store = "cases" =>
    \A s \in Sessions : pc[s] = "committed" => \A i \in DOMAIN answers[s] :
      \E r \in Saved(key[s]) :
        r.version = answers[s][i].version /\ r.content = answers[s][i].content
=============================================================================

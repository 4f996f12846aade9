------------------------------ MODULE SupportTurn -----------------------------
(* A turn of the support agent as its caller sees it: one step from a request  *)
(* to a result that the request and the data account for.                      *)
EXTENDS SupportReplies

VARIABLES view,    \* what the turn depends on
          result   \* reply and effects, or Unanswered while the turn runs

Init == view \in Views /\ result = Unanswered
Answer ==
    /\ result = Unanswered
    /\ result' \in Results(view)
    /\ UNCHANGED view
Spec == Init /\ [][Answer]_<<view, result>>
=============================================================================

-------------------------- MODULE ExclusiveSession --------------------------
(***************************************************************************)
(* What the privileged component promises its users: one of them at a time *)
(* holds the session; it passes to another only through being free; and a  *)
(* session that was asked to end does end.  Module Daemon implements it,   *)
(* and Window its safety, for the connections of one window.               *)
(***************************************************************************)
CONSTANTS Users, Nobody

VARIABLES
  holder,   \* who holds the session, or Nobody
  ending    \* it has been asked to end

vars == <<holder, ending>>

Init == holder = Nobody /\ ending = FALSE

Acquire(u) ==
  /\ holder = Nobody
  /\ holder' = u /\ ending' = FALSE

AskToEnd ==
  /\ holder # Nobody /\ ~ending
  /\ ending' = TRUE /\ UNCHANGED holder

(* A session may also end by itself. *)
End ==
  /\ holder # Nobody
  /\ holder' = Nobody /\ ending' = FALSE

Next == (\E u \in Users : Acquire(u)) \/ AskToEnd \/ End

Safety == Init /\ [][Next]_vars

Spec == Safety /\ WF_vars(ending /\ End)
=============================================================================

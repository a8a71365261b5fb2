------------------------ MODULE ControllerSuccession ------------------------
(***************************************************************************)
(* What the rotation of the trusted controller promises.  One controller   *)
(* is effective at any time.  A routine rotation moves the authority to a  *)
(* build of a later commit of main and never back; only a protected merge  *)
(* that restates the source policy may name any controller built so far.   *)
(***************************************************************************)
EXTENDS Naturals

VARIABLES
  head,        \* the commit of the default branch
  controller   \* the commit whose build is the effective controller

Init == head = 0 /\ controller = 0

\* A protected merge.
Merge == head' = head + 1 /\ UNCHANGED controller

\* A routine rotation: the successor was built from a later commit.
Rotate ==
  /\ controller' \in (controller + 1) .. head
  /\ UNCHANGED head

\* A merge that confirms a controller in the source policy.
Normalize ==
  /\ head' = head + 1
  /\ controller' \in 0 .. head

Next == Merge \/ Rotate \/ Normalize

Spec == Init /\ [][Next]_<<head, controller>>
=============================================================================

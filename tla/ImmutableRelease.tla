-------------------------- MODULE ImmutableRelease --------------------------
(***************************************************************************)
(* What a release publication promises, whoever takes part in it: the tag  *)
(* has either no published release or, for ever, exactly the commit, notes *)
(* and bytes of one single certified transaction.                          *)
(***************************************************************************)
CONSTANTS Transactions, NoRelease

VARIABLE published

Init == published = NoRelease

Publish(t) ==
  /\ published = NoRelease
  /\ published' = t

Next == \E t \in Transactions : Publish(t)

Spec == Init /\ [][Next]_published
=============================================================================

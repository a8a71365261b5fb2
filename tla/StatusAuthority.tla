-------------------------- MODULE StatusAuthority --------------------------
(***************************************************************************)
(* The pure status-authority rules of BCF: the total order of admissions,  *)
(* the status a repository currently carries for one context, and the      *)
(* decision whether a proposed status may be published over it.            *)
(*                                                                         *)
(* Only authenticated observations are modelled: the two checks on the     *)
(* "authenticated" flag guard a value every caller leaves at its default.  *)
(***************************************************************************)
EXTENDS Integers, FiniteSets

ExactMain == "bcf/exact-main-certification"
BoundedWorkitem == "bcf/workitem-certification"
AuthorityCanary == "bcf/authority-canary"
PullRequest == "bcf/pr-certification"

\* Contexts whose subject must still be the default main head when published.
MainContexts == {ExactMain, BoundedWorkitem, AuthorityCanary}

Conclusions == {"pending", "success", "failure"}
Terminal == {"success", "failure"}

(***************************************************************************)
(* The radix that packs (run, attempt, sequence) into one ordinal.         *)
(***************************************************************************)
Radix == 1000

AdmissionOrdinal(run, attempt, sequence) ==
  run * Radix * Radix + attempt * Radix + sequence

\* The tuples admission_ordinal accepts instead of raising.
OrdinalAdmissible(run, attempt, sequence) ==
  /\ run \in Nat \ {0}
  /\ attempt \in 1 .. (Radix - 1)
  /\ sequence \in 1 .. (Radix - 1)

(***************************************************************************)
(* Observations and their order.                                           *)
(***************************************************************************)
Observation(contexts, subjects) ==
  [context : contexts, subject : subjects, ordinal : Nat \ {0},
   attempt : Nat \ {0}, conclusion : Conclusions]

NoStatus ==
  [context |-> "none", subject |-> 0, ordinal |-> 0, attempt |-> 0,
   conclusion |-> "pending"]

\* Lexicographic order of (admission ordinal, control-plane attempt).
Precedes(a, b) ==
  \/ a.ordinal < b.ordinal
  \/ a.ordinal = b.ordinal /\ a.attempt < b.attempt

SameOrder(a, b) == a.ordinal = b.ordinal /\ a.attempt = b.attempt

SameIdentity(a, b) == a.context = b.context /\ a.subject = b.subject

(***************************************************************************)
(* The current status among the observations of one context and subject:   *)
(* the highest order, and at that order a terminal conclusion over pending.*)
(***************************************************************************)
Latest(observations) ==
  {e \in observations : \A f \in observations : ~ Precedes(e, f)}

TerminalConclusions(observations) ==
  {e.conclusion : e \in {f \in observations : f.conclusion \in Terminal}}

\* "equal published authority has conflicting terminal conclusions"
Conflicting(observations) ==
  Cardinality(TerminalConclusions(Latest(observations))) > 1

\* Mutant: the first observation of the highest order, pending or not.
CurrentStatusFirstListed(observations) ==
  IF observations = {} THEN {NoStatus} ELSE Latest(observations)

\* The observations _current_status may return; they differ in nothing it reads.
CurrentStatus(observations) ==
  LET latest == Latest(observations)
      terminal == {e \in latest : e.conclusion \in Terminal}
  IN  IF observations = {} THEN {NoStatus}
      ELSE IF terminal # {} THEN terminal ELSE latest

\* Mutant: whatever differs from the current status overwrites it.
DecideWithoutOrder(proposed, current, currentMain) ==
  IF proposed.context \in MainContexts /\ proposed.subject # currentMain
    THEN "default_main_moved"
  ELSE IF proposed = current THEN "idempotent_replay" ELSE "newer_authority"

\* Mutant: an equal authority is always a replay.
DecideEqualIsReplay(proposed, current, currentMain) ==
  IF proposed.context \in MainContexts /\ proposed.subject # currentMain
    THEN "default_main_moved"
  ELSE IF current = NoStatus THEN "no_existing_status"
  ELSE IF Precedes(proposed, current) THEN "older_authority_cannot_overwrite"
  ELSE IF Precedes(current, proposed) THEN "newer_authority"
  ELSE "idempotent_replay"

(***************************************************************************)
(* decide_status_publication: the reason of the decision, or "conflict"    *)
(* where the code raises instead of deciding.                              *)
(***************************************************************************)
DecideStatusPublication(proposed, current, currentMain) ==
  IF proposed.context \in MainContexts /\ proposed.subject # currentMain
    THEN "default_main_moved"
  ELSE IF current = NoStatus THEN "no_existing_status"
  ELSE IF ~ SameIdentity(proposed, current) THEN "independent_status_identity"
  ELSE IF Precedes(proposed, current) THEN "older_authority_cannot_overwrite"
  ELSE IF Precedes(current, proposed) THEN "newer_authority"
  ELSE IF proposed.conclusion = current.conclusion THEN "idempotent_replay"
  ELSE IF current.conclusion = "pending" THEN "pending_authority_became_terminal"
  ELSE "conflict"

Publishes(reason) ==
  reason \in {"no_existing_status", "independent_status_identity",
              "pending_authority_became_terminal", "newer_authority"}

Raises(reason) == reason = "conflict"
=============================================================================

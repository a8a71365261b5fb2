---------------------- MODULE InstallTransactionProofs ----------------------
(***************************************************************************)
(* For any number of files, interruptions, kills and runs, apply_transaction*)
(* reports success only over a completely promoted repository; while       *)
(* nothing interrupts it a failing run restores what it found, and an      *)
(* interrupted one leaves at most one file promoted that it never recorded.*)
(*                                                                         *)
(* At every point inside the try block each file holds either what the     *)
(* shadow made of it, if it was promoted, or the snapshot; `applied` tells *)
(* which, except between the write of a file and its recording.            *)
(***************************************************************************)
EXTENDS InstallTransaction, TLAPS

Promoted(f) == f \in applied \/ (phase = "written" /\ Current(f))

Planned == changed = {f \in Files : before[f] # desired[f]}

IInv ==
  /\ TypeOK
  /\ phase \in Guarded => Planned
  /\ phase = "written" => Pending # {}
  /\ phase \in Guarded \/ (phase = "rolling_back" /\ interrupts = 0) =>
       \A f \in Files :
         repo[f] = IF Promoted(f) THEN desired[f] ELSE before[f]
  /\ AtomicUnlessInterrupted

LEMMA InitIInv == Init => IInv
  BY InstallAssumption
  DEF Init, IInv, TypeOK, Contents, Phases, Guarded, AtomicUnlessInterrupted

\* Promotion is deterministic: one file is at hand.
LEMMA CurrentUnique ==
  ASSUME TypeOK, NEW f \in Files, NEW g \in Files, Current(f), Current(g)
  PROVE  f = g
  BY InstallAssumption DEF Current, Files, Pending

LEMMA PlanPreserves == IInv /\ (Plan \/ PlanFails) => IInv'
  <1> SUFFICES ASSUME IInv, Plan \/ PlanFails PROVE IInv'
    OBVIOUS
  <1>1. CASE Plan
    <2>1. TypeOK'
      BY <1>1 DEF Plan, Go, bounds, IInv, TypeOK, Phases
    <2> QED
      BY <1>1, <2>1
      DEF Plan, Go, bounds, IInv, TypeOK, Guarded, Planned, Promoted,
          AtomicUnlessInterrupted
  <1>2. CASE PlanFails
    <2>1. TypeOK'
      BY <1>2 DEF PlanFails, Go, bounds, IInv, TypeOK, Phases
    <2> QED
      BY <1>2, <2>1
      DEF PlanFails, Go, bounds, IInv, Guarded, AtomicUnlessInterrupted
  <1> QED BY <1>1, <1>2

LEMMA PromotePreserves ==
  ASSUME IInv, NEW f \in Files, PromoteFile(f) PROVE IInv'
  <1>1. /\ phase = "promoting" /\ phase' = "written" /\ Current(f)
        /\ repo' = [repo EXCEPT ![f] = desired[f]]
        /\ UNCHANGED <<desired, before, changed, applied, bounds>>
    BY DEF PromoteFile, Go
  <1>2. TypeOK'
    BY <1>1 DEF IInv, TypeOK, Phases, bounds
  <1>3. \A g \in Files : Promoted(g)' <=> g = f \/ g \in applied
    BY <1>1, CurrentUnique DEF Promoted, Current, Pending, IInv
  <1>4. \A g \in Files :
          repo'[g] = IF Promoted(g)' THEN desired'[g] ELSE before'[g]
    BY <1>1, <1>3 DEF IInv, TypeOK, Promoted, Guarded
  <1> QED
    BY <1>1, <1>2, <1>4
    DEF IInv, Guarded, Planned, Pending, Current, AtomicUnlessInterrupted

LEMMA RecordPreserves ==
  ASSUME IInv, NEW f \in Files, RecordFile(f) PROVE IInv'
  <1>1. /\ phase = "written" /\ phase' = "recorded" /\ Current(f)
        /\ applied' = applied \cup {f}
        /\ UNCHANGED <<repo, desired, before, changed, bounds>>
    BY DEF RecordFile, Go
  <1>2. TypeOK'
    BY <1>1 DEF IInv, TypeOK, Phases, bounds, Current, Pending
  <1>3. \A g \in Files : Promoted(g)' <=> Promoted(g)
    BY <1>1, CurrentUnique DEF Promoted, IInv
  <1> QED
    BY <1>1, <1>2, <1>3
    DEF IInv, Guarded, Planned, AtomicUnlessInterrupted

LEMMA RollbackPreserves ==
  ASSUME IInv, NEW f \in Files, RollbackFile(f) PROVE IInv'
  <1>1. /\ phase = "rolling_back" /\ phase' = phase
        /\ f \in applied /\ applied' = applied \ {f}
        /\ repo' = [repo EXCEPT ![f] = before[f]]
        /\ UNCHANGED <<desired, before, changed, bounds>>
    BY DEF RollbackFile
  <1>2. TypeOK'
    BY <1>1 DEF IInv, TypeOK, bounds
  <1>3. interrupts' = 0 => \A g \in Files :
          repo'[g] = IF Promoted(g)' THEN desired'[g] ELSE before'[g]
    BY <1>1 DEF IInv, TypeOK, Promoted, bounds
  <1> QED
    BY <1>1, <1>2, <1>3
    DEF IInv, Guarded, AtomicUnlessInterrupted, bounds

\* A promotion with nothing pending is complete.
LEMMA FinishPreserves == IInv /\ Finish => IInv'
  <1> SUFFICES ASSUME IInv, Finish PROVE IInv'
    OBVIOUS
  <1>1. /\ phase = "promoting" /\ phase' = "done" /\ Pending = {}
        /\ UNCHANGED <<repo, desired, before, changed, applied, bounds>>
    BY DEF Finish, Go
  <1>2. TypeOK'
    BY <1>1 DEF IInv, TypeOK, Phases, bounds
  <1>3. \A f \in Files : repo[f] = desired[f]
    BY <1>1 DEF IInv, Guarded, Planned, Promoted, Pending
  <1>4. repo = desired
    BY <1>3 DEF IInv, TypeOK
  <1> QED
    BY <1>1, <1>2, <1>4
    DEF IInv, Guarded, AtomicUnlessInterrupted

\* A complete rollback restored every promoted file.
LEMMA RolledBackPreserves == IInv /\ RolledBack => IInv'
  <1> SUFFICES ASSUME IInv, RolledBack PROVE IInv'
    OBVIOUS
  <1>1. /\ phase = "rolling_back" /\ phase' = "failed" /\ applied = {}
        /\ UNCHANGED <<repo, desired, before, changed, applied, bounds>>
    BY DEF RolledBack, Go
  <1>2. TypeOK'
    BY <1>1 DEF IInv, TypeOK, Phases, bounds
  <1>3. interrupts = 0 => repo = before
    <2>1. interrupts = 0 => \A f \in Files : repo[f] = before[f]
      BY <1>1 DEF IInv, Promoted
    <2> QED BY <2>1 DEF IInv, TypeOK
  <1> QED
    BY <1>1, <1>2, <1>3
    DEF IInv, Guarded, AtomicUnlessInterrupted, bounds

\* Steps that move the phase and a counter only.
LEMMA PhasePreserves ==
  ASSUME IInv, ValidatePromotion \/ FailGuarded \/ Interrupt \/ Kill \/ RunAgain
  PROVE  IInv'
  <1>1. TypeOK'
    BY DEF ValidatePromotion, FailGuarded, Interrupt, Kill, RunAgain, Go, bounds,
           IInv, TypeOK, Phases
  <1>2. UNCHANGED <<repo, desired, before, changed, applied>>
    BY DEF ValidatePromotion, FailGuarded, Interrupt, Kill, RunAgain, bounds
  <1>3. CASE ValidatePromotion \/ FailGuarded
    <2>1. phase \in {"promoting", "recorded"} /\ phase' \in {"promoting", "rolling_back"}
          /\ interrupts' = interrupts
      BY <1>3 DEF ValidatePromotion, FailGuarded, Go, bounds
    <2>2. phase' = "promoting" => phase = "recorded"
      BY <1>3 DEF ValidatePromotion, FailGuarded, Go
    <2> QED
      BY <1>1, <1>2, <2>1
      DEF IInv, Guarded, Planned, Promoted, AtomicUnlessInterrupted
  <1>4. CASE Interrupt
    <2>1. interrupts' # 0 /\ phase' \in {"rolling_back", "failed"}
      BY <1>4 DEF Interrupt, Go, IInv, TypeOK
    <2> QED
      BY <1>1, <2>1 DEF IInv, Guarded, AtomicUnlessInterrupted
  <1>5. CASE Kill \/ RunAgain
    <2>1. phase' \in {"killed", "idle"}
      BY <1>5 DEF Kill, RunAgain, Go
    <2> QED
      BY <1>1, <2>1
      DEF IInv, Guarded, AtomicUnlessInterrupted
  <1> QED BY <1>3, <1>4, <1>5

LEMMA Invariant == Spec => []IInv
  <1>1. IInv /\ [Next]_vars => IInv'
    <2> SUFFICES ASSUME IInv, [Next]_vars PROVE IInv'
      OBVIOUS
    <2>1. CASE UNCHANGED vars
      BY <2>1
      DEF vars, IInv, TypeOK, Planned, Pending, Current, Promoted,
          AtomicUnlessInterrupted
    <2> QED
      BY <2>1, PlanPreserves, PromotePreserves, RecordPreserves,
         RollbackPreserves, FinishPreserves, RolledBackPreserves, PhasePreserves
      DEF Next
  <1> QED BY <1>1, InitIInv, PTL DEF Spec

\* Inside the try block the file at hand is the only one not yet recorded.
LEMMA AstrayWhileGuarded == IInv /\ phase \in Guarded => OneFileAstray
  <1> SUFFICES ASSUME IInv, phase \in Guarded,
                      NEW f \in Files \ applied, NEW g \in Files \ applied,
                      repo[f] # before[f], repo[g] # before[g]
               PROVE  f = g
    BY DEF OneFileAstray
  <1>1. Promoted(f) /\ Promoted(g)
    BY DEF IInv
  <1>2. Current(f) /\ Current(g)
    BY <1>1 DEF Promoted
  <1> QED BY <1>2, CurrentUnique DEF IInv

\* A rollback restores what it takes off its list, and touches nothing else.
LEMMA AstrayPreserved ==
  IInv /\ IInv' /\ OneFileAstray /\ [Next]_vars => OneFileAstray'
  <1> SUFFICES ASSUME IInv, IInv', OneFileAstray, [Next]_vars PROVE OneFileAstray'
    OBVIOUS
  <1>1. CASE phase' \in Guarded
    <2>1. (IInv /\ phase \in Guarded)' => OneFileAstray'
      BY AstrayWhileGuarded, PTL
    <2> QED BY <1>1, <2>1
  <1>2. CASE phase' \notin Guarded \cup {"rolling_back", "failed"}
    BY <1>2 DEF OneFileAstray, Guarded
  <1>3. CASE phase' \in {"rolling_back", "failed"}
    <2>1. CASE UNCHANGED vars
      BY <2>1 DEF vars, OneFileAstray
    <2>2. CASE PlanFails
      BY <2>2 DEF PlanFails, OneFileAstray
    <2>3. CASE FailGuarded \/ Interrupt \/ RolledBack
      BY <2>3 DEF FailGuarded, Interrupt, RolledBack, OneFileAstray, Guarded
    <2>4. ASSUME NEW f \in Files, RollbackFile(f) PROVE OneFileAstray'
      <3>1. repo'[f] = before'[f] /\ phase = "rolling_back"
        BY <2>4 DEF RollbackFile, IInv, TypeOK
      <3>2. \A g \in (Files \ applied)' : g # f => g \in Files \ applied
                                                /\ repo'[g] = repo[g]
        BY <2>4 DEF RollbackFile, IInv, TypeOK
      <3> QED
        BY <2>4, <3>1, <3>2 DEF RollbackFile, OneFileAstray
    <2> QED
      BY <1>3, <2>1, <2>2, <2>3, <2>4
      DEF Next, Plan, PromoteFile, RecordFile, ValidatePromotion, Finish, Kill,
          RunAgain, Go
  <1> QED BY <1>1, <1>2, <1>3

\* Every reachable state of apply_transaction keeps its shape, and its list of
\* applied files names only files it was to change.
THEOREM TypeCorrect == Spec => []TypeOK
  <1>1. IInv => TypeOK
    BY DEF IInv
  <1> QED BY <1>1, Invariant, PTL

\* apply_transaction succeeds only over a completely promoted repository, and a
\* failing run restores what it found unless it was interrupted.
THEOREM AtomicUnlessInterruptedHolds == Spec => []AtomicUnlessInterrupted
  <1>1. IInv => AtomicUnlessInterrupted
    BY DEF IInv
  <1> QED BY <1>1, Invariant, PTL

\* Wherever a run breaks off, at most one file differs from its snapshot that
\* the rollback does not know of.
THEOREM OneFileAstrayHolds == Spec => []OneFileAstray
  <1>1. Init => OneFileAstray
    BY DEF Init, OneFileAstray, Guarded
  <1> QED BY <1>1, Invariant, AstrayPreserved, PTL DEF Spec
=============================================================================

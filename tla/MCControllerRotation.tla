------------------------ MODULE MCControllerRotation ------------------------
(* Instances of ControllerRotation for TLC.                                *)
EXTENDS ControllerRotation, TLC

\* Runners are interchangeable.
Symmetry == Permutations(Runners)

\* The receipts on four commits, with two attempts of every transition.
Links == {t \in [from: 0 .. 3, to: 0 .. 3, attempt: {1}, run: 1 .. 2] : t.from < t.to}

\* The loop of select_controller_chain: the commits it visits from `current`
\* while exactly one transition of A leads on, with what it leaves over.
Walk[A \in SUBSET Links, current \in 0 .. 3] ==
  LET candidates == {t \in A : t.from = current}
  IN  IF Cardinality(candidates) # 1
        THEN [head |-> current, selected |-> candidates = {} /\ A = {}]
      ELSE LET t == CHOOSE t \in candidates : TRUE
           IN  Walk[A \ {t}, t.to]

\* Linear holds exactly when the loop selects a chain, and Head is its end.
ASSUME ChainIsWalked ==
  \A A \in SUBSET Links, base \in 0 .. 3 :
    /\ Walk[A, base].selected <=> Linear(A, base)
    /\ Linear(A, base) => Walk[A, base].head = Head(A, base)
=============================================================================

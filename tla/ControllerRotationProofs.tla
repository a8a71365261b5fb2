---------------------- MODULE ControllerRotationProofs ----------------------
(***************************************************************************)
(* For any number of runners, merges, attempts and faults, the transitions *)
(* that count form one chain, whose end moves as ControllerSuccession      *)
(* allows, every runner holds the builds they activate, and the callback   *)
(* asks for one fresh admission per transition.                            *)
(*                                                                         *)
(* The argument: rotations run one at a time, so what one was authorized   *)
(* by stays the end of the chain until it publishes; only a confirmation   *)
(* in the source policy moves the end meanwhile, and it absorbs the        *)
(* transition, because a commit whose policy names an unconfirmed target   *)
(* authorizes none.                                                        *)
(***************************************************************************)
EXTENDS ControllerRotation, FiniteSetTheorems, TLAPS

Ids == Commits \X Attempts

Nodes(A, base) == {base} \cup {t.to : t \in A}

\* The transitions of A lead from base to c, each to a later commit.
ChainTo(A, base, c) ==
  /\ c \in Nodes(A, base)
  /\ base <= c
  /\ \A t \in A : t.from < t.to /\ t.to <= c
  /\ \A n \in Nodes(A, base) : n = c \/ \E t \in A : t.from = n
  /\ Linear(A, base)

InFlight(id) == rotation[id].stage \in InstallStages \cup {"publish"}

ChainPart == ChainTo(Following, source[main].installed, Effective)

PolicyPart ==
  /\ source[main].pin <= main /\ source[main].installed <= main
  /\ \A t \in receipts : t.to <= main /\ source[t.to].pin = source[t.to].installed
  /\ \A c \in Commits : c > main => admission[c] = NoAdmission

SerialPart ==
  \A i, j \in Ids :
    rotation[i].stage \in Running /\ rotation[j].stage \in Running => i = j

FlightPart ==
  \A id \in Ids : InFlight(id) =>
    /\ id[1] <= main
    /\ source[id[1]].pin = source[id[1]].installed
    /\ id[1] >= source[main].subject =>
         rotation[id].from = Effective /\ Effective < id[1]

HeldPart ==
  /\ \A id \in Ids : rotation[id].stage \in InstallStages =>
       \A r \in rotation[id].green : held[r][id[1]] = id[2]
  /\ \A id \in Ids : rotation[id].stage = "publish" =>
       \A r \in Runners : held[r][id[1]] = id[2]
  /\ ActiveBuildIsHeld

Published(id) == {t \in receipts : <<t.to, t.attempt>> = id}

\* A callback asks after its transition was published, once, and what it asks
\* for makes the admission attempt it came from an old one.
CountPart ==
  /\ IsFiniteSet(receipts)
  /\ \A id \in Ids :
       /\ id \in asking => dispatched[id] = 0
       /\ id \in asking \/ dispatched[id] # 0 =>
            Published(id) # {} /\ id[2] <= admission[id[1]].attempt
       /\ dispatched[id] # 0 =>
            dispatched[id] = 1 /\ id[2] < admission[id[1]].attempt

IInv ==
  /\ TypeOK /\ ChainPart /\ PolicyPart /\ SerialPart /\ FlightPart
  /\ HeldPart /\ CountPart

-----------------------------------------------------------------------------
(* The chain.                                                              *)

\* Head, a choice, finds the end of a chain.
LEMMA HeadOfChain ==
  ASSUME NEW A, NEW base \in Nat, NEW c \in Nat,
         \A t \in A : t.from \in Nat /\ t.to \in Nat,
         ChainTo(A, base, c)
  PROVE  Head(A, base) = c
  <1>1. c \in Nodes(A, base) /\ \A t \in A : t.from # c
    BY DEF ChainTo
  <1>2. \A n \in Nodes(A, base) : (\A t \in A : t.from # n) => n = c
    BY DEF ChainTo
  <1> QED BY <1>1, <1>2 DEF Head, Nodes

\* A chain grows by a transition from its end to a later commit.
LEMMA ChainGrows ==
  ASSUME NEW A, NEW base \in Nat, NEW c \in Nat, NEW u,
         \A t \in A : t.from \in Nat /\ t.to \in Nat,
         ChainTo(A, base, c),
         u.from = c, u.to \in Nat, c < u.to
  PROVE  ChainTo(A \cup {u}, base, u.to)
  <1> DEFINE B == A \cup {u}
  <1>1. u.to \in Nodes(B, base) /\ base <= u.to
    BY DEF ChainTo, Nodes
  <1>2. \A t \in B : t.from < t.to /\ t.to <= u.to
    BY DEF ChainTo
  <1>3. \A n \in Nodes(B, base) : n = u.to \/ \E t \in B : t.from = n
    BY DEF ChainTo, Nodes
  <1>4. Linear(B, base)
    <2>1. \A t, v \in B : t.from = v.from => t = v
      BY DEF ChainTo, Linear
    <2>2. \A t \in B : t.from = base \/ \E v \in B : v.to = t.from
      BY DEF ChainTo, Linear, Nodes
    <2> QED BY <2>1, <2>2 DEF Linear
  <1> QED BY <1>1, <1>2, <1>3, <1>4 DEF ChainTo

\* The end of the chain is a commit of main.
LEMMA EffectiveIsMerged ==
  ASSUME TypeOK, ChainPart, PolicyPart
  PROVE  Effective \in Commits /\ Effective <= main
  <1>1. Effective \in Nodes(Following, source[main].installed)
    BY DEF ChainPart, ChainTo
  <1>2. source[main].installed \in Commits /\ source[main].installed <= main
    BY DEF PolicyPart, TypeOK, Policy
  <1>3. \A t \in Following : t.to \in Commits /\ t.to <= main
    BY DEF PolicyPart, TypeOK, Following, Transition
  <1> QED BY <1>1, <1>2, <1>3 DEF Nodes

\* Steps that leave main, the policy and the receipts alone leave the chain.
LEMMA ChainStays ==
  ASSUME UNCHANGED <<main, source, receipts>>
  PROVE  Following' = Following /\ Effective' = Effective
  <1>1. Following' = Following
    BY DEF Following
  <1> QED BY <1>1 DEF Effective

-----------------------------------------------------------------------------
(* Shapes.                                                                 *)

LEMMA InitIInv == Init => IInv
  <1> SUFFICES ASSUME Init PROVE IInv
    OBVIOUS
  <1> USE ConstantsAssumption
  <1>1. 0 \in Commits
    BY DEF Commits
  <1>2. NoCustody \in Custody
    BY <1>1 DEF NoCustody, Custody
  <1>3. NoAdmission \in AdmissionRun
    BY <1>2 DEF NoAdmission, AdmissionRun
  <1>4. TypeOK
    <2>1. 1 \in 0 .. MaxAttempts
      OBVIOUS
    <2>2. [runtime |-> 0, pin |-> 0, build |-> 1, installed |-> 0, subject |-> 0] \in Policy
      BY <1>1, <2>1 DEF Policy
    <2>3. NoRotation \in RotationRun
      BY <1>1 DEF NoRotation, RotationRun, Triggers
    <2> QED BY <1>1, <1>3, <2>1, <2>2, <2>3 DEF Init, TypeOK, NoBuild
  <1>5. Following = {} /\ source[main].installed = 0 /\ source[main].pin = 0
    BY <1>1 DEF Init, Following
  <1>6. ChainTo({}, 0, 0)
    BY DEF ChainTo, Nodes, Linear
  <1>7. ChainPart
    BY <1>5, <1>6, HeadOfChain DEF ChainPart, Effective
  <1>8. PolicyPart
    BY <1>5 DEF PolicyPart, Init, NoAdmission
  <1>9. \A id \in Ids : rotation[id].stage = "none"
    BY DEF Init, Ids, NoRotation
  <1>10. SerialPart /\ FlightPart
    BY <1>9 DEF SerialPart, FlightPart, InFlight, InstallStages, Running
  <1>11. HeldPart
    BY <1>9 DEF HeldPart, InstallStages, ActiveBuildIsHeld, Init
  <1>12. CountPart
    <2>1. IsFiniteSet(receipts)
      BY FS_EmptySet DEF Init
    <2>2. asking = {} /\ \A id \in Ids : dispatched[id] = 0
      BY DEF Init, Ids
    <2> QED BY <2>1, <2>2 DEF CountPart
  <1> QED BY <1>4, <1>7, <1>8, <1>10, <1>11, <1>12 DEF IInv

\* One more record in a table of admissions or rotations.
LEMMA TypeAdmission ==
  ASSUME TypeOK, NEW c \in Commits, NEW run \in AdmissionRun,
         admission' = [admission EXCEPT ![c] = run]
  PROVE  admission' \in [Commits -> AdmissionRun]
  BY DEF TypeOK

LEMMA TypeFresh ==
  ASSUME NEW attempt \in 1 .. MaxAttempts
  PROVE  FreshAdmission(attempt) \in AdmissionRun
  <1>1. NoCustody \in Custody
    BY ConstantsAssumption DEF NoCustody, Custody, Commits
  <1>2. NoAdmission \in AdmissionRun
    BY <1>1, ConstantsAssumption DEF ConstantsAssumption, NoAdmission, AdmissionRun
  <1>3. attempt \in 0 .. MaxAttempts
    BY ConstantsAssumption DEF ConstantsAssumption
  <1>4. [NoAdmission EXCEPT !.attempt = attempt, !.phase = "running"] \in AdmissionRun
    BY <1>2, <1>3 DEF AdmissionRun
  <1> QED BY <1>4 DEF FreshAdmission

LEMMA NoRotationTyped == NoRotation \in RotationRun
  BY ConstantsAssumption DEF ConstantsAssumption, NoRotation, RotationRun, Commits, Triggers

LEMMA TypeFinish ==
  ASSUME TypeOK, NEW id \in Ids, NEW stage \in Finished, Finish(id, stage)
  PROVE  rotation' \in [Ids -> RotationRun]
  <1>1. rotation[id] \in RotationRun /\ 0 \in Commits
    BY ConstantsAssumption DEF ConstantsAssumption, TypeOK, Ids, Commits
  <1>2. [rotation[id] EXCEPT !.stage = stage, !.from = 0, !.green = {}] \in RotationRun
    BY <1>1 DEF RotationRun
  <1> QED BY <1>2 DEF Finish, TypeOK, Ids

LEMMA TypeEnqueue ==
  ASSUME TypeOK, NEW id, NEW attempt \in 1 .. MaxRotationAttempts,
         NEW trigger \in Triggers, Enqueue(id, attempt, trigger)
  PROVE  rotation' \in [Ids -> RotationRun]
  <1>0. attempt \in 0 .. MaxRotationAttempts
    BY ConstantsAssumption DEF ConstantsAssumption
  <1>1. [NoRotation EXCEPT !.trigger = trigger, !.attempt = attempt, !.stage = "queued"]
          \in RotationRun
    BY <1>0, NoRotationTyped DEF RotationRun
  <1>2. \A i \in Ids : [rotation[i] EXCEPT !.stage = "failed"] \in RotationRun
    BY DEF TypeOK, RotationRun, Finished, Ids
  <1> QED BY <1>1, <1>2 DEF Enqueue, TypeOK, Ids

LEMMA TypePush ==
  ASSUME TypeOK, NEW facts \in Policy, Push(facts)
  PROVE  /\ main' \in Commits /\ source' \in [Commits -> Policy]
         /\ proved' \subseteq Runners
         /\ admission' \in [Commits -> AdmissionRun]
  <1>1. main + 1 \in Commits
    BY ConstantsAssumption DEF Push, TypeOK, Commits
  <1>2. 1 \in 1 .. MaxAttempts
    BY ConstantsAssumption
  <1>3. FreshAdmission(1) \in AdmissionRun
    BY <1>2, TypeFresh
  <1> QED BY <1>1, <1>3 DEF Push, TypeOK

\* A fault is counted and its kind recorded.
LEMMA TypeFault ==
  ASSUME TypeOK, NEW kind, Fault(kind)
  PROVE  faults' \in 0 .. MaxFaults /\ struck' \subseteq Faults
  BY ConstantsAssumption DEF ConstantsAssumption, TypeOK, Fault

LEMMA TypeMerges ==
  ASSUME IInv, Merge \/ MergeTarget \/ MergeConfirmation
  PROVE  TypeOK'
  <1> USE DEF IInv
  <1>1. main \in Commits /\ source[main] \in Policy
    BY DEF TypeOK
  <1>2. CASE Merge
    <2>1. PICK runtime \in {source[main].runtime, main + 1} :
            Push([source[main] EXCEPT !.runtime = runtime])
      BY <1>2 DEF Merge
    <2>2. runtime \in Commits
      BY <1>1, <2>1, ConstantsAssumption
      DEF ConstantsAssumption, Push, Commits, Policy
    <2>3. [source[main] EXCEPT !.runtime = runtime] \in Policy
      BY <1>1, <2>2 DEF Policy
    <2> QED BY <1>2, <2>1, <2>3, TypePush DEF Merge, Push, TypeOK, bounds, callbacks
  <1>3. CASE MergeTarget
    <2>1. [source[main] EXCEPT !.pin = main, !.build = admission[main].attempt] \in Policy
      BY <1>1 DEF Policy, TypeOK, AdmissionRun
    <2> QED BY <1>3, <2>1, TypePush DEF MergeTarget, Push, TypeOK, bounds, callbacks
  <1>4. CASE MergeConfirmation
    <2>1. [source[main] EXCEPT !.installed = source[main].pin, !.subject = main] \in Policy
      BY <1>1 DEF Policy
    <2> QED BY <1>4, <2>1, TypePush DEF MergeConfirmation, Push, TypeOK, bounds, callbacks
  <1> QED BY <1>2, <1>3, <1>4

\* A proof run installs what main pins.
LEMMA TypeTarget ==
  ASSUME IInv, NEW r \in Runners, InstallTarget(r)
  PROVE  TypeOK'
  <1>1. source[main].pin \in Commits /\ source[main].build \in 0 .. MaxAttempts
    BY DEF IInv, TypeOK, Policy
  <1>2. held' = [held EXCEPT ![r][source[main].pin] = source[main].build]
    BY DEF InstallTarget
  <1>3. held' \in [Runners -> [Commits -> {Partial} \cup 0 .. MaxAttempts]]
    BY <1>1, <1>2 DEF IInv, TypeOK
  <1> QED BY <1>3 DEF InstallTarget, IInv, TypeOK, bounds, callbacks

LEMMA TypeAdmissions ==
  ASSUME IInv, NEW c \in Commits,
         AdmissionStep(c) \/ RerunAdmission(c) \/ FailAdmission(c) \/ StrayAdmission(c)
  PROVE  TypeOK'
  <1> USE DEF IInv
  <1>1. admission[c] \in AdmissionRun
    BY DEF TypeOK
  <1>2. CASE ProjectCustody(c)
    <2>1. EffectiveCustody \in Custody
      BY EffectiveIsMerged DEF EffectiveCustody, Custody, TypeOK, Following
    <2>2. PICK topology \in {"current", "pending"} :
            admission' = [admission EXCEPT ![c] = [@ EXCEPT
              !.phase = "projected", !.custody = EffectiveCustody,
              !.topology = topology]]
      BY <1>2 DEF ProjectCustody, Applicability
    <2>3. [admission[c] EXCEPT !.phase = "projected", !.custody = EffectiveCustody,
             !.topology = topology] \in AdmissionRun
      BY <1>1, <2>1 DEF AdmissionRun
    <2>4. admission' \in [Commits -> AdmissionRun]
      BY <2>2, <2>3 DEF TypeOK
    <2> QED BY <1>2, <2>4 DEF ProjectCustody, TypeOK, bounds, callbacks
  <1>3. 1 \in 1 .. MaxRotationAttempts
    BY ConstantsAssumption DEF ConstantsAssumption
  <1>4. CASE CompleteAdmission(c)
    <2>1. [admission[c] EXCEPT !.phase = "done"] \in AdmissionRun
      BY <1>1 DEF AdmissionRun
    <2>2. admission' \in [Commits -> AdmissionRun]
      BY <1>4, <2>1 DEF CompleteAdmission, TypeOK
    <2>3. rotation' \in [Ids -> RotationRun]
      BY <1>3, <1>4, TypeEnqueue DEF CompleteAdmission, Triggers
    <2> QED BY <1>4, <2>2, <2>3 DEF CompleteAdmission, TypeOK, bounds, callbacks, Ids
  <1>5. CASE RefuseAdmission(c) \/ FailAdmission(c)
    <2>1. [admission[c] EXCEPT !.phase = "done", !.topology = "failed"] \in AdmissionRun
      BY <1>1 DEF AdmissionRun
    <2>2. admission' \in [Commits -> AdmissionRun]
      BY <1>5, <2>1 DEF RefuseAdmission, FailAdmission, TypeOK
    <2>3. rotation' \in [Ids -> RotationRun]
      BY <1>3, <1>5, TypeEnqueue DEF RefuseAdmission, FailAdmission, Triggers
    <2>4. faults' \in 0 .. MaxFaults /\ struck' \subseteq Faults
      BY <1>5, TypeFault DEF RefuseAdmission, FailAdmission, TypeOK, bounds, callbacks
    <2> QED
      BY <1>5, <2>2, <2>3, <2>4 DEF RefuseAdmission, FailAdmission, TypeOK, Ids, callbacks
  <1>6. CASE RerunAdmission(c) \/ StrayAdmission(c)
    <2>1. NewAttempt(c)
      BY <1>6 DEF RerunAdmission, StrayAdmission
    <2>2. admission[c].attempt + 1 \in 1 .. MaxAttempts
      BY <1>1, <2>1, ConstantsAssumption
      DEF ConstantsAssumption, NewAttempt, AdmissionRun
    <2>3. admission' \in [Commits -> AdmissionRun]
      BY <2>1, <2>2, TypeFresh, TypeAdmission DEF NewAttempt
    <2>4. faults' \in 0 .. MaxFaults /\ struck' \subseteq Faults
      BY <1>6, TypeFault DEF RerunAdmission, StrayAdmission, TypeOK, bounds, callbacks
    <2> QED BY <1>6, <2>3, <2>4 DEF RerunAdmission, StrayAdmission, TypeOK, callbacks
  <1> QED BY <1>2, <1>4, <1>5, <1>6 DEF AdmissionStep

\* What runner r installs for id, or leaves of it when it dies, is a build.
LEMMA TypeHeld ==
  ASSUME TypeOK, NEW id \in Ids, NEW r \in Runners, NEW build \in {Partial, id[2]},
         held' = [held EXCEPT ![r][id[1]] = build]
  PROVE  held' \in [Runners -> [Commits -> {Partial} \cup 0 .. MaxAttempts]]
  <1>1. id[1] \in Commits /\ build \in {Partial} \cup 0 .. MaxAttempts
    BY ConstantsAssumption DEF ConstantsAssumption, Ids, Attempts
  <1> QED BY <1>1 DEF TypeOK

LEMMA TypeRotations ==
  ASSUME IInv, NEW id \in Ids,
         \/ RotationStep(id) \/ CallbackStep(id) \/ RerunRotation(id) \/ FailJob(id)
         \/ LoseRequest(id) \/ FailOutcome(id) \/ StrayRotation(id)
         \/ \E r \in Runners : KillInstall(id, r)
  PROVE  TypeOK'
  <1> USE DEF IInv
  <1>1. rotation[id] \in RotationRun /\ id[1] \in Commits /\ id[2] \in Attempts
    BY DEF TypeOK, Ids
  <1>2. CASE Start(id)
    <2>1. [rotation[id] EXCEPT !.stage = "authorize"] \in RotationRun
      BY <1>1 DEF RotationRun, Running
    <2>2. rotation' \in [Ids -> RotationRun]
      BY <1>2, <2>1 DEF Start, TypeOK, Ids
    <2> QED BY <1>2, <2>2 DEF Start, TypeOK, bounds, callbacks, Ids
  <1>3. CASE AuthorizeTransition(id)
    <2>1. [rotation[id] EXCEPT !.stage = "bootstrap", !.from = Effective, !.green = {}]
            \in RotationRun
      BY <1>1, EffectiveIsMerged DEF RotationRun, Running, InstallStages
    <2>2. rotation' \in [Ids -> RotationRun]
      BY <1>3, <2>1 DEF AuthorizeTransition, TypeOK, Ids
    <2> QED BY <1>3, <2>2 DEF AuthorizeTransition, TypeOK, bounds, callbacks, Ids
  <1>4. CASE \/ NoTransition(id) \/ RefuseTransition(id) \/ SupersedeTransition(id)
             \/ ProjectOutcome(id) \/ FailJob(id) \/ FailOutcome(id)
             \/ \E r \in Runners : RefuseInstall(id, r)
    <2>1. PICK stage \in Finished : Finish(id, stage)
      BY <1>4
      DEF NoTransition, RefuseTransition, SupersedeTransition, ProjectOutcome,
          FailJob, FailOutcome, RefuseInstall, Finished
    <2>2. rotation' \in [Ids -> RotationRun]
      BY <2>1, TypeFinish
    <2>3. faults' \in 0 .. MaxFaults /\ struck' \subseteq Faults
      BY <1>4, TypeFault
      DEF NoTransition, RefuseTransition, SupersedeTransition, ProjectOutcome,
          FailJob, FailOutcome, RefuseInstall, TypeOK, bounds, callbacks
    <2> QED
      BY <1>4, <2>2, <2>3
      DEF NoTransition, RefuseTransition, SupersedeTransition, ProjectOutcome,
          FailJob, FailOutcome, RefuseInstall, TypeOK, Ids, callbacks
  <1>5. ASSUME NEW r \in Runners, InstallOn(id, r) PROVE TypeOK'
    <2>1. [rotation[id] EXCEPT !.green = @ \cup {r}] \in RotationRun
      BY <1>1 DEF RotationRun
    <2>2. rotation' \in [Ids -> RotationRun]
      BY <1>5, <2>1 DEF InstallOn, TypeOK, Ids
    <2>3. held' \in [Runners -> [Commits -> {Partial} \cup 0 .. MaxAttempts]]
      BY <1>5, TypeHeld DEF InstallOn
    <2> QED BY <1>5, <2>2, <2>3 DEF InstallOn, TypeOK, bounds, callbacks, Ids
  <1>6. ASSUME NEW r \in Runners, KillInstall(id, r) PROVE TypeOK'
    <2>1. rotation' \in [Ids -> RotationRun]
      BY <1>6, TypeFinish DEF KillInstall, Finished
    <2>2. held' \in [Runners -> [Commits -> {Partial} \cup 0 .. MaxAttempts]]
      BY <1>6, TypeHeld DEF KillInstall
    <2> QED BY <1>6, <2>1, <2>2, TypeFault DEF KillInstall, TypeOK, Ids, callbacks
  <1>7. CASE AdvanceTransition(id)
    <2>1. NextStage(rotation[id].stage) \in Running
      BY <1>7 DEF AdvanceTransition, StageProved, InstallStages, NextStage, Running
    <2>2. [rotation[id] EXCEPT !.stage = NextStage(rotation[id].stage), !.green = {}]
            \in RotationRun
      BY <1>1, <2>1 DEF RotationRun
    <2>3. rotation' \in [Ids -> RotationRun]
      BY <1>7, <2>2 DEF AdvanceTransition, TypeOK, Ids
    <2> QED BY <1>7, <2>3 DEF AdvanceTransition, TypeOK, bounds, callbacks, Ids
  <1>8. CASE PublishTransition(id)
    <2>1. [rotation[id] EXCEPT !.stage = "outcome"] \in RotationRun
      BY <1>1 DEF RotationRun, Running
    <2>2. rotation' \in [Ids -> RotationRun]
      BY <1>8, <2>1 DEF PublishTransition, TypeOK, Ids
    <2> DEFINE t == [from |-> rotation[id].from, to |-> id[1], attempt |-> id[2],
                     run |-> rotation[id].attempt]
    <2>4. t \in Transition
      BY <1>1 DEF Transition, RotationRun
    <2>5. receipts' \subseteq Transition
      BY <1>8, <2>4 DEF PublishTransition, TypeOK
    <2> QED BY <1>8, <2>2, <2>5 DEF PublishTransition, TypeOK, bounds, callbacks, Ids
  <1>9. CASE RequestCertification(id)
    <2>1. admission[id[1]].attempt + 1 \in 1 .. MaxAttempts
      BY <1>1, <1>9, ConstantsAssumption
      DEF ConstantsAssumption, RequestCertification, NewAttempt, TypeOK, AdmissionRun
    <2>2. admission' \in [Commits -> AdmissionRun]
      BY <1>1, <1>9, <2>1, TypeFresh, TypeAdmission DEF RequestCertification, NewAttempt
    <2>3. dispatched' \in [Ids -> Nat] /\ asking' \subseteq Ids
      BY <1>9 DEF RequestCertification, TypeOK, Ids
    <2> QED BY <1>9, <2>2, <2>3 DEF RequestCertification, TypeOK, bounds, callbacks, Ids
  <1>10. CASE AuthenticateAdmission(id) \/ RefuseRequest(id)
    BY <1>10 DEF AuthenticateAdmission, RefuseRequest, TypeOK, bounds, callbacks, Ids
  <1>11. CASE LoseRequest(id)
    BY <1>11, TypeFault DEF LoseRequest, TypeOK, Ids
  <1>12. CASE RerunRotation(id) \/ StrayRotation(id)
    <2>1. NewRotationAttempt(id)
      BY <1>12 DEF RerunRotation, StrayRotation
    <2>2. rotation[id].attempt + 1 \in 1 .. MaxRotationAttempts
      BY <1>1, <2>1, ConstantsAssumption
      DEF ConstantsAssumption, NewRotationAttempt, RotationRun
    <2>3. rotation' \in [Ids -> RotationRun]
      BY <1>1, <2>1, <2>2, TypeEnqueue DEF NewRotationAttempt, RotationRun
    <2>4. faults' \in 0 .. MaxFaults /\ struck' \subseteq Faults
      BY <1>12, TypeFault DEF RerunRotation, StrayRotation, TypeOK, bounds, callbacks
    <2> QED BY <1>12, <2>3, <2>4 DEF RerunRotation, StrayRotation, TypeOK, Ids, callbacks
  <1> QED
    BY <1>2, <1>3, <1>4, <1>5, <1>6, <1>7, <1>8, <1>9, <1>10, <1>11, <1>12
    DEF RotationStep, CallbackStep

-----------------------------------------------------------------------------
(* The kinds of step.                                                      *)

\* Rotations that run go on as they are, or stop.
Calm == \A i \in Ids : rotation'[i] = rotation[i] \/ rotation'[i].stage \notin Running

Pushes == Merge \/ MergeTarget \/ MergeConfirmation

Quiet == UNCHANGED <<main, source, receipts>> /\ Calm

Advances(id) ==
  \/ Start(id) \/ AuthorizeTransition(id) \/ AdvanceTransition(id)
  \/ \E r \in Runners : InstallOn(id, r)

LEMMA EnqueueIsCalm ==
  ASSUME TypeOK, NEW id, NEW attempt, NEW trigger, Enqueue(id, attempt, trigger)
  PROVE  Calm
  BY DEF Enqueue, Calm, Ids, TypeOK, NoRotation, Running, InstallStages

LEMMA FinishIsCalm ==
  ASSUME TypeOK, NEW id \in Ids, NEW stage \in Finished, Finish(id, stage)
  PROVE  Calm
  <1>1. \A i \in Ids \ {id} : rotation'[i] = rotation[i]
    BY DEF Finish, TypeOK, Ids
  <1>2. rotation'[id].stage = stage
    BY DEF Finish, TypeOK, Ids, RotationRun
  <1>3. stage \notin Running
    BY DEF Finished, Running, InstallStages
  <1> QED BY <1>1, <1>2, <1>3 DEF Calm

LEMMA StepKinds ==
  ASSUME TypeOK, [Next]_vars
  PROVE  \/ Pushes \/ Quiet
         \/ \E id \in Ids : Advances(id) \/ PublishTransition(id)
  <1>1. CASE UNCHANGED vars
    BY <1>1 DEF vars, Quiet, Calm
  <1>2. CASE \E c \in Commits :
               AdmissionStep(c) \/ RerunAdmission(c) \/ FailAdmission(c) \/ StrayAdmission(c)
    <2>1. PICK c \in Commits :
            AdmissionStep(c) \/ RerunAdmission(c) \/ FailAdmission(c) \/ StrayAdmission(c)
      BY <1>2
    <2>2. CASE ProjectCustody(c) \/ RerunAdmission(c) \/ StrayAdmission(c)
      BY <2>2 DEF ProjectCustody, RerunAdmission, StrayAdmission, Quiet, Calm
    <2>3. CASE CompleteAdmission(c) \/ RefuseAdmission(c) \/ FailAdmission(c)
      BY <2>3, EnqueueIsCalm DEF CompleteAdmission, RefuseAdmission, FailAdmission, Quiet
    <2> QED BY <2>1, <2>2, <2>3 DEF AdmissionStep
  <1>3. ASSUME NEW id \in Ids,
               \/ RotationStep(id) \/ CallbackStep(id) \/ RerunRotation(id)
               \/ FailJob(id) \/ LoseRequest(id) \/ FailOutcome(id) \/ StrayRotation(id)
               \/ \E r \in Runners : KillInstall(id, r)
        PROVE  Quiet \/ Advances(id) \/ PublishTransition(id)
    <2>1. CASE \/ NoTransition(id) \/ RefuseTransition(id) \/ SupersedeTransition(id)
               \/ ProjectOutcome(id) \/ FailJob(id) \/ FailOutcome(id)
               \/ \E r \in Runners : RefuseInstall(id, r) \/ KillInstall(id, r)
      <3>1. PICK stage \in Finished : Finish(id, stage)
        BY <2>1
        DEF NoTransition, RefuseTransition, SupersedeTransition, ProjectOutcome,
            FailJob, FailOutcome, RefuseInstall, KillInstall, Finished
      <3>2. UNCHANGED <<main, source, receipts>>
        BY <2>1
        DEF NoTransition, RefuseTransition, SupersedeTransition, ProjectOutcome,
            FailJob, FailOutcome, RefuseInstall, KillInstall
      <3> QED BY <3>1, <3>2, FinishIsCalm DEF Quiet
    <2>2. CASE RerunRotation(id) \/ StrayRotation(id)
      BY <2>2, EnqueueIsCalm DEF RerunRotation, StrayRotation, NewRotationAttempt, Quiet
    <2>3. CASE CallbackStep(id) \/ LoseRequest(id)
      BY <2>3
      DEF CallbackStep, AuthenticateAdmission, RequestCertification, RefuseRequest,
          LoseRequest, Quiet, Calm
    <2> QED BY <1>3, <2>1, <2>2, <2>3 DEF RotationStep, Advances
  <1>4. CASE \E r \in Runners : InstallTarget(r)
    BY <1>4 DEF InstallTarget, Quiet, Calm
  <1> QED BY <1>1, <1>2, <1>3, <1>4 DEF Next, Pushes, Ids

\* Starting, authorizing, installing and advancing concern one rotation.
LEMMA AdvanceShape ==
  ASSUME TypeOK, NEW id \in Ids, Advances(id)
  PROVE  /\ UNCHANGED <<main, source, receipts>>
         /\ \A i \in Ids \ {id} : rotation'[i] = rotation[i]
         /\ rotation[id].stage \in Running \/ Idle
  BY DEF Advances, Start, AuthorizeTransition, AdvanceTransition, InstallOn,
         StageProved, TypeOK, Ids, Running

\* A merge leaves the facts of every older commit alone.
LEMMA PushShape ==
  ASSUME IInv, Pushes
  PROVE  /\ main' = main + 1 /\ main + 1 \in Commits
         /\ \A c \in Commits : c # main + 1 =>
              source'[c] = source[c] /\ admission'[c] = admission[c]
         /\ admission' = [admission EXCEPT ![main + 1] = FreshAdmission(1)]
         /\ UNCHANGED <<rotation, receipts, dispatched, asking>>
  <1>1. PICK facts : Push(facts)
    BY DEF Pushes, Merge, MergeTarget, MergeConfirmation
  <1>2. main + 1 \in Commits
    BY <1>1, ConstantsAssumption DEF ConstantsAssumption, Push, IInv, TypeOK, Commits
  <1> QED BY <1>1, <1>2 DEF Push, IInv, TypeOK, callbacks

\* Ordinary merges and the choice of a target do not touch what counts; a
\* confirmation absorbs every transition and names the end itself.
LEMMA PushChain ==
  ASSUME IInv, Pushes
  PROVE  \/ /\ source'[main'].subject = source[main].subject
            /\ source'[main'].installed = source[main].installed
            /\ Following' = Following /\ Effective' = Effective
         \/ /\ source'[main'].subject = main
            /\ source[main].pin # source[main].installed
            /\ source'[main'].installed = source[main].pin
            /\ Following' = {} /\ Effective' = source[main].pin
  <1> USE DEF IInv
  <1>1. /\ main \in Commits /\ main + 1 \in Commits /\ main' = main + 1
        /\ source[main] \in Policy /\ receipts' = receipts
    BY PushShape DEF TypeOK
  <1>2. CASE Merge \/ MergeTarget
    <2>1. PICK facts : /\ source' = [source EXCEPT ![main + 1] = facts]
                       /\ facts.subject = source[main].subject
                       /\ facts.installed = source[main].installed
      <3>1. CASE Merge
        <4>1. PICK x : source' = [source EXCEPT ![main + 1] =
                                    [source[main] EXCEPT !.runtime = x]]
          BY <3>1 DEF Merge, Push
        <4>2. /\ [source[main] EXCEPT !.runtime = x].subject = source[main].subject
              /\ [source[main] EXCEPT !.runtime = x].installed = source[main].installed
          BY <1>1 DEF Policy
        <4> QED BY <4>1, <4>2
      <3>2. CASE MergeTarget
        <4> DEFINE b == admission[main].attempt
        <4>1. source' = [source EXCEPT ![main + 1] =
                           [source[main] EXCEPT !.pin = main, !.build = b]]
          BY <3>2 DEF MergeTarget, Push
        <4> HIDE DEF b
        <4>2. /\ [source[main] EXCEPT !.pin = main, !.build = b].subject
                   = source[main].subject
              /\ [source[main] EXCEPT !.pin = main, !.build = b].installed
                   = source[main].installed
          BY <1>1 DEF Policy
        <4> QED BY <4>1, <4>2
      <3> QED BY <1>2, <3>1, <3>2
    <2>2. source'[main'] = facts
      BY <1>1, <2>1 DEF TypeOK
    <2>3. Following' = Following
      BY <1>1, <2>1, <2>2 DEF Following
    <2> QED BY <2>1, <2>2, <2>3 DEF Effective
  <1>3. CASE MergeConfirmation
    <2> DEFINE facts == [source[main] EXCEPT !.installed = source[main].pin,
                                             !.subject = main]
    <2>1. source' = [source EXCEPT ![main + 1] = facts] /\ ~ OrdinaryCurrent
      BY <1>3 DEF MergeConfirmation, Push
    <2>2. facts.subject = main /\ facts.installed = source[main].pin
      BY <1>1 DEF Policy
    <2>3. source'[main'] = facts
      BY <1>1, <2>1 DEF TypeOK
    <2>4. \A t \in receipts : t.to \in Commits /\ t.to <= main /\ t.to # main
      BY <2>1 DEF PolicyPart, OrdinaryCurrent, TypeOK, Transition
    <2>5. Following' = {}
      BY <1>1, <2>2, <2>3, <2>4 DEF Following, Commits
    <2>6. ChainTo({}, source[main].pin, source[main].pin) /\ source[main].pin \in Nat
      BY <1>1 DEF ChainTo, Nodes, Linear, Policy, Commits
    <2>7. Head({}, source[main].pin) = source[main].pin
      BY <2>6, HeadOfChain
    <2> QED BY <2>1, <2>2, <2>3, <2>5, <2>7 DEF Effective, OrdinaryCurrent
  <1> QED BY <1>2, <1>3 DEF Pushes

\* A publication extends the chain at its end, or is absorbed.
LEMMA PublishChain ==
  ASSUME IInv, NEW id \in Ids, PublishTransition(id)
  PROVE  /\ UNCHANGED <<main, source>>
         /\ ChainPart'
         /\ \/ Following' = Following /\ Effective' = Effective
            \/ Effective' = id[1] /\ Effective < id[1] /\ id[1] <= main
         /\ id[1] < source[main].subject => Effective' = Effective
  <1> USE DEF IInv
  <1> DEFINE t == [from |-> rotation[id].from, to |-> id[1], attempt |-> id[2],
                   run |-> rotation[id].attempt]
             base == source[main].installed
  <1>1. /\ UNCHANGED <<main, source>> /\ receipts' = receipts \cup {t}
        /\ t.from = rotation[id].from /\ t.to = id[1]
    BY DEF PublishTransition
  <1>2. /\ id[1] \in Commits /\ id[1] <= main
        /\ id[1] >= source[main].subject =>
             rotation[id].from = Effective /\ Effective < id[1]
    BY DEF FlightPart, InFlight, PublishTransition, Ids
  <1>3. /\ base \in Nat /\ Effective \in Nat /\ id[1] \in Nat
        /\ \A u \in Following : u.from \in Nat /\ u.to \in Nat
    BY <1>2, EffectiveIsMerged DEF TypeOK, Policy, Following, Transition, Commits
  <1>4. CASE id[1] >= source[main].subject
    <2>1. Following' = Following \cup {t}
      BY <1>1, <1>4 DEF Following
    <2>2. t.from = Effective /\ Effective < t.to /\ t.to \in Nat
      BY <1>1, <1>2, <1>3, <1>4
    <2> HIDE DEF t
    <2>3. ChainTo(Following \cup {t}, base, t.to)
      BY <1>3, <2>2, ChainGrows DEF ChainPart
    <2>4. \A u \in Following \cup {t} : u.from \in Nat /\ u.to \in Nat
      BY <1>3, <2>2
    <2>5. Head(Following \cup {t}, base) = t.to
      BY <1>3, <2>2, <2>3, <2>4, HeadOfChain
    <2>6. Effective' = t.to
      BY <1>1, <2>1, <2>5 DEF Effective
    <2> QED
      BY <1>1, <1>2, <1>3, <1>4, <2>1, <2>2, <2>3, <2>6
      DEF ChainPart, TypeOK, Policy, Commits
  <1>5. CASE ~ (id[1] >= source[main].subject)
    <2>1. Following' = Following
      BY <1>1, <1>5 DEF Following
    <2> QED BY <1>1, <1>5, <2>1 DEF Effective, ChainPart
  <1> QED BY <1>4, <1>5

LEMMA ChainPreserved == ASSUME IInv, [Next]_vars PROVE ChainPart'
  <1> USE DEF IInv
  <1>1. CASE Pushes
    <2>1. CASE Following' = {} /\ Effective' = source[main].pin
               /\ source'[main'].installed = source[main].pin
      <3>1. source[main].pin \in Nat
        BY DEF TypeOK, Policy, Commits
      <3> QED BY <2>1, <3>1 DEF ChainPart, ChainTo, Nodes, Linear
    <2> QED BY <1>1, <2>1, PushChain DEF ChainPart
  <1>2. CASE UNCHANGED <<main, source, receipts>>
    BY <1>2, ChainStays DEF ChainPart
  <1> QED BY <1>1, <1>2, StepKinds, AdvanceShape, PublishChain DEF Quiet

-----------------------------------------------------------------------------
(* The other parts of the invariant.                                       *)

\* Admission runs of commits that were not merged do not exist.
LEMMA AdmissionsOfMerged ==
  ASSUME IInv, [Next]_vars, UNCHANGED main, NEW c \in Commits, c > main
  PROVE  admission'[c] = NoAdmission
  <1> USE DEF IInv
  <1>1. admission[c] = NoAdmission /\ admission[c].phase = "none"
    BY DEF PolicyPart, NoAdmission
  <1>2. main \in Int /\ main + 1 # main
    BY DEF TypeOK, Commits
  <1>3. CASE \E d \in Commits :
               AdmissionStep(d) \/ RerunAdmission(d) \/ FailAdmission(d) \/ StrayAdmission(d)
    BY <1>1, <1>3
    DEF AdmissionStep, ProjectCustody, CompleteAdmission, RefuseAdmission,
        RerunAdmission, FailAdmission, StrayAdmission, NewAttempt, TypeOK
  <1>4. CASE \E id \in Ids : RequestCertification(id)
    BY <1>1, <1>4 DEF RequestCertification, NewAttempt, TypeOK
  <1>5. ASSUME UNCHANGED admission PROVE admission'[c] = NoAdmission
    BY <1>1, <1>5
  <1>6. ~ Pushes
    BY <1>2, PushShape
  <1> QED
    BY <1>3, <1>4, <1>5, <1>6
    DEF Next, Pushes, vars, Ids, RotationStep, Start, AuthorizeTransition,
        NoTransition, RefuseTransition, InstallOn, RefuseInstall,
        AdvanceTransition, SupersedeTransition, PublishTransition,
        ProjectOutcome, FailJob, FailOutcome, KillInstall, RerunRotation,
        StrayRotation, InstallTarget, CallbackStep, AuthenticateAdmission,
        RefuseRequest, LoseRequest

LEMMA PolicyPreserved == ASSUME IInv, [Next]_vars PROVE PolicyPart'
  <1> USE DEF IInv
  <1>1. main \in Commits /\ source[main] \in Policy
    BY DEF TypeOK
  <1>2. CASE Pushes
    <2>1. /\ main' = main + 1 /\ main + 1 \in Commits /\ receipts' = receipts
          /\ \A c \in Commits : c # main + 1 =>
               source'[c] = source[c] /\ admission'[c] = admission[c]
      BY <1>2, PushShape
    <2>2. source'[main'].installed <= main'
      BY <1>1, <1>2, <2>1, PushChain DEF PolicyPart, Policy, Commits
    <2>3. source'[main'].pin <= main'
      <3>1. PICK facts : /\ source' = [source EXCEPT ![main + 1] = facts]
                         /\ facts.pin \in {source[main].pin, main}
        BY <1>1, <1>2 DEF Pushes, Merge, MergeTarget, MergeConfirmation, Push, Policy
      <3>2. source'[main'] = facts
        BY <2>1, <3>1 DEF TypeOK
      <3> QED BY <1>1, <2>1, <3>1, <3>2 DEF PolicyPart, Policy, Commits
    <2>4. \A t \in receipts : t.to \in Commits /\ t.to # main + 1 /\ t.to <= main + 1
      BY <1>1 DEF PolicyPart, TypeOK, Transition, Commits
    <2>5. \A t \in receipts' : t.to <= main' /\ source'[t.to].pin = source'[t.to].installed
      BY <2>1, <2>4 DEF PolicyPart
    <2>6. \A c \in Commits : c > main' => admission'[c] = NoAdmission
      BY <1>1, <2>1 DEF PolicyPart, Commits
    <2> QED BY <2>2, <2>3, <2>5, <2>6 DEF PolicyPart
  <1>3. CASE UNCHANGED <<main, source>>
    <2>1. \A c \in Commits : c > main' => admission'[c] = NoAdmission
      BY <1>3, AdmissionsOfMerged
    <2>2. CASE UNCHANGED receipts
      BY <1>3, <2>1, <2>2 DEF PolicyPart
    <2>3. ASSUME NEW id \in Ids, PublishTransition(id)
          PROVE  \A t \in receipts' : t.to <= main /\ source[t.to].pin = source[t.to].installed
      <3>1. id[1] <= main /\ source[id[1]].pin = source[id[1]].installed
        BY <2>3 DEF FlightPart, InFlight, PublishTransition
      <3> QED BY <2>3, <3>1 DEF PublishTransition, PolicyPart
    <2>4. CASE ~ UNCHANGED receipts
      BY <1>3, <2>1, <2>3, <2>4, StepKinds, AdvanceShape, PushShape
      DEF PolicyPart, Quiet
    <2> QED BY <2>2, <2>4
  <1> QED BY <1>2, <1>3, StepKinds, AdvanceShape, PublishChain DEF Quiet

\* Rotations run one at a time.
LEMMA SerialPreserved == ASSUME IInv, [Next]_vars PROVE SerialPart'
  <1> USE DEF IInv
  <1>1. CASE Calm
    BY <1>1 DEF Calm, SerialPart
  <1>2. CASE Pushes
    BY <1>2, PushShape DEF SerialPart
  <1>3. ASSUME NEW id \in Ids, Advances(id) \/ PublishTransition(id)
        PROVE  SerialPart'
    <2>1. \A i \in Ids \ {id} : rotation'[i] = rotation[i]
      BY <1>3, AdvanceShape DEF PublishTransition, TypeOK, Ids
    <2>2. \A i \in Ids \ {id} : rotation[i].stage \notin Running
      <3>1. CASE Idle
        BY <3>1 DEF Idle, TypeOK, Ids
      <3>2. CASE rotation[id].stage \in Running
        BY <3>2 DEF SerialPart
      <3> QED BY <1>3, <3>1, <3>2, AdvanceShape DEF PublishTransition, Running
    <2> QED BY <2>1, <2>2 DEF SerialPart
  <1> QED BY <1>1, <1>2, <1>3, StepKinds DEF Quiet

\* What a rotation was authorized by is the end of the chain until it publishes.
LEMMA FlightPreserved == ASSUME IInv, [Next]_vars PROVE FlightPart'
  <1> USE DEF IInv
  <1>1. main \in Commits /\ source[main] \in Policy
    BY DEF TypeOK
  <1>2. CASE Pushes
    <2>1. /\ main' = main + 1 /\ rotation' = rotation
          /\ \A c \in Commits : c # main + 1 => source'[c] = source[c]
      BY <1>2, PushShape
    <2> SUFFICES ASSUME NEW id \in Ids, InFlight(id)
                 PROVE  /\ id[1] <= main'
                        /\ source'[id[1]].pin = source'[id[1]].installed
                        /\ id[1] >= source'[main'].subject =>
                             rotation[id].from = Effective' /\ Effective' < id[1]
      BY <2>1 DEF FlightPart, InFlight
    <2>2. /\ id[1] \in Commits /\ id[1] <= main
          /\ source[id[1]].pin = source[id[1]].installed
          /\ id[1] >= source[main].subject =>
               rotation[id].from = Effective /\ Effective < id[1]
      BY DEF FlightPart, Ids
    <2>3. id[1] # main + 1 /\ id[1] <= main'
      BY <1>1, <2>1, <2>2 DEF Commits
    <2> QED BY <1>1, <1>2, <2>1, <2>2, <2>3, PushChain DEF Commits
  <1>3. CASE Quiet
    <2>1. Effective' = Effective
      BY <1>3, ChainStays DEF Quiet
    <2>2. \A i \in Ids : InFlight(i)' => rotation'[i] = rotation[i]
      BY <1>3 DEF Quiet, Calm, InFlight, Running
    <2> QED BY <1>3, <2>1, <2>2 DEF Quiet, FlightPart, InFlight
  <1>4. ASSUME NEW id \in Ids, Advances(id) PROVE FlightPart'
    <2>1. /\ UNCHANGED <<main, source, receipts>> /\ Effective' = Effective
          /\ \A i \in Ids \ {id} : rotation'[i] = rotation[i]
      BY <1>4, AdvanceShape, ChainStays
    <2>2. InFlight(id)' => \/ InFlight(id) /\ rotation'[id].from = rotation[id].from
                           \/ AuthorizeTransition(id)
      <3>1. CASE Start(id)
        <4>1. rotation'[id].stage = "authorize"
          BY <3>1 DEF Start, TypeOK, RotationRun, Ids
        <4> QED BY <4>1 DEF InFlight, InstallStages
      <3>2. CASE AdvanceTransition(id)
        <4>1. rotation'[id].from = rotation[id].from
          BY <3>2 DEF AdvanceTransition, TypeOK, RotationRun, Ids
        <4> QED BY <3>2, <4>1 DEF AdvanceTransition, StageProved, InFlight
      <3>3. CASE \E r \in Runners : InstallOn(id, r)
        <4>1. rotation'[id].from = rotation[id].from
          BY <3>3 DEF InstallOn, TypeOK, RotationRun, Ids
        <4> QED BY <3>3, <4>1 DEF InstallOn, InFlight
      <3> QED BY <1>4, <3>1, <3>2, <3>3 DEF Advances
    <2>3. CASE AuthorizeTransition(id)
      <3>1. /\ id[1] = main /\ source[main].pin = source[main].installed
            /\ id[1] # Effective /\ rotation'[id].from = Effective
        BY <2>3
        DEF AuthorizeTransition, Admitted, Resolvable, OrdinaryCurrent, TypeOK, Ids
      <3>2. Effective < id[1]
        BY <1>1, <3>1, EffectiveIsMerged DEF Commits
      <3> QED BY <1>1, <2>1, <3>1, <3>2 DEF FlightPart, InFlight, Commits
    <2> QED BY <2>1, <2>2, <2>3 DEF FlightPart, InFlight
  <1>5. ASSUME NEW id \in Ids, PublishTransition(id) PROVE FlightPart'
    <2>1. \A i \in Ids : i # id => rotation'[i] = rotation[i]
                                /\ rotation[i].stage \notin Running
      BY <1>5 DEF PublishTransition, SerialPart, Running, TypeOK, Ids
    <2>2. rotation'[id].stage = "outcome"
      BY <1>5 DEF PublishTransition, TypeOK, Ids
    <2>3. \A i \in Ids : ~ InFlight(i)'
      BY <2>1, <2>2 DEF InFlight, InstallStages, Running
    <2> QED BY <2>3 DEF FlightPart
  <1> QED BY <1>2, <1>3, <1>4, <1>5, StepKinds

\* An installed build is never replaced.
LEMMA HeldForGood ==
  ASSUME IInv, [Next]_vars, NEW r \in Runners, NEW c \in Commits,
         held[r][c] \notin {NoBuild, Partial}
  PROVE  held'[r][c] = held[r][c]
  <1> USE DEF IInv
  <1>1. ASSUME NEW q \in Runners, InstallTarget(q)
        PROVE  held'[r][c] = held[r][c]
    <2>1. PICK target, build : /\ held' = [held EXCEPT ![q][target] = build]
                               /\ held[q][target] \in {NoBuild, build}
      BY <1>1 DEF InstallTarget, Installable
    <2> QED BY <2>1 DEF TypeOK
  <1>2. ASSUME NEW id \in Ids, NEW q \in Runners,
               InstallOn(id, q) \/ KillInstall(id, q)
        PROVE  held'[r][c] = held[r][c]
    <2>1. PICK build : /\ held' = [held EXCEPT ![q][id[1]] = build]
                       /\ held[q][id[1]] \in {NoBuild, build}
      BY <1>2 DEF InstallOn, KillInstall, Installable
    <2> QED BY <2>1 DEF TypeOK, Ids
  <1>3. CASE UNCHANGED held
    BY <1>3
  <1> QED
    BY <1>1, <1>2, <1>3
    DEF Next, vars, Ids, Merge, MergeTarget, MergeConfirmation, AdmissionStep, ProjectCustody,
        CompleteAdmission, RefuseAdmission, RerunAdmission, FailAdmission,
        StrayAdmission, RotationStep, Start, AuthorizeTransition, NoTransition,
        RefuseTransition, RefuseInstall, AdvanceTransition, SupersedeTransition,
        PublishTransition, ProjectOutcome, CallbackStep, AuthenticateAdmission,
        RequestCertification, RefuseRequest, LoseRequest, FailJob, FailOutcome,
        RerunRotation, StrayRotation

\* A green job left its build on its runner, and a proved stage on all of them.
LEMMA HeldPreserved == ASSUME IInv, [Next]_vars PROVE HeldPart'
  <1> USE DEF IInv
  <1>1. \A id \in Ids : id[1] \in Commits /\ id[2] \notin {NoBuild, Partial}
    BY DEF Ids, Attempts, NoBuild, Partial
  <1>2. \A id \in Ids, r \in Runners :
          held[r][id[1]] = id[2] => held'[r][id[1]] = id[2]
    BY <1>1, HeldForGood
  <1>3. \A id \in Ids : rotation[id].green \subseteq Runners
    BY DEF TypeOK, RotationRun, Ids
  <1>4. ASSUME NEW id \in Ids, rotation'[id] = rotation[id]
        PROVE  /\ rotation'[id].stage \in InstallStages =>
                    \A r \in rotation'[id].green : held'[r][id[1]] = id[2]
               /\ rotation'[id].stage = "publish" =>
                    \A r \in Runners : held'[r][id[1]] = id[2]
    BY <1>2, <1>3, <1>4 DEF HeldPart
  <1>5. \A t \in receipts, r \in Runners : held'[r][t.to] = t.attempt
    <2>1. \A t \in receipts : t.to \in Commits /\ t.attempt \notin {NoBuild, Partial}
      BY DEF TypeOK, Transition, Attempts, NoBuild, Partial
    <2> QED BY <2>1, HeldForGood DEF HeldPart, ActiveBuildIsHeld
  <1>6. CASE Pushes \/ Quiet
    <2>1. \A id \in Ids : rotation'[id] = rotation[id] \/ rotation'[id].stage \notin Running
      BY <1>6, PushShape DEF Quiet, Calm
    <2>2. receipts' = receipts
      BY <1>6, PushShape DEF Quiet
    <2> QED
      BY <1>4, <1>5, <2>1, <2>2 DEF HeldPart, ActiveBuildIsHeld, Running
  <1>7. ASSUME NEW id \in Ids, Advances(id) PROVE HeldPart'
    <2>1. receipts' = receipts /\ \A i \in Ids \ {id} : rotation'[i] = rotation[i]
      BY <1>7, AdvanceShape
    <2>2. rotation'[id].stage \in InstallStages =>
            \A r \in rotation'[id].green : held'[r][id[1]] = id[2]
      <3>1. CASE Start(id)
        <4>1. rotation'[id].stage = "authorize"
          BY <3>1 DEF Start, TypeOK, RotationRun, Ids
        <4> QED BY <4>1 DEF InstallStages
      <3>2. CASE AuthorizeTransition(id)
        <4>1. rotation'[id].green = {}
          BY <3>2 DEF AuthorizeTransition, TypeOK, RotationRun, Ids
        <4> QED BY <4>1
      <3>3. CASE AdvanceTransition(id)
        <4>1. rotation'[id].green = {}
          BY <3>3 DEF AdvanceTransition, TypeOK, RotationRun, Ids
        <4> QED BY <4>1
      <3>4. ASSUME NEW r \in Runners, InstallOn(id, r)
            PROVE  \A q \in rotation'[id].green : held'[q][id[1]] = id[2]
        <4>1. rotation'[id].green = rotation[id].green \cup {r}
          BY <3>4 DEF InstallOn, TypeOK, RotationRun, Ids
        <4>2. held'[r][id[1]] = id[2]
          BY <1>1, <3>4 DEF InstallOn, TypeOK
        <4> QED BY <1>2, <1>3, <3>4, <4>1, <4>2 DEF InstallOn, HeldPart
      <3> QED BY <1>7, <3>1, <3>2, <3>3, <3>4 DEF Advances
    <2>3. rotation'[id].stage = "publish" => \A r \in Runners : held'[r][id[1]] = id[2]
      <3>1. CASE AdvanceTransition(id)
        BY <1>2, <3>1 DEF AdvanceTransition, StageProved, HeldPart
      <3>2. CASE Start(id) \/ AuthorizeTransition(id) \/ \E r \in Runners : InstallOn(id, r)
        <4>1. CASE Start(id)
          <5>1. rotation'[id].stage = "authorize"
            BY <4>1 DEF Start, TypeOK, RotationRun, Ids
          <5> QED BY <5>1
        <4>2. CASE AuthorizeTransition(id)
          <5>1. rotation'[id].stage = "bootstrap"
            BY <4>2 DEF AuthorizeTransition, TypeOK, RotationRun, Ids
          <5> QED BY <5>1
        <4>3. CASE \E r \in Runners : InstallOn(id, r)
          <5>1. rotation'[id].stage = rotation[id].stage /\ rotation[id].stage # "publish"
            BY <4>3 DEF InstallOn, InstallStages, TypeOK, RotationRun, Ids
          <5> QED BY <5>1
        <4> QED BY <3>2, <4>1, <4>2, <4>3
      <3> QED BY <1>7, <3>1, <3>2 DEF Advances
    <2> QED BY <1>4, <1>5, <2>1, <2>2, <2>3 DEF HeldPart, ActiveBuildIsHeld
  <1>8. ASSUME NEW id \in Ids, PublishTransition(id) PROVE HeldPart'
    <2>1. \A i \in Ids \ {id} : rotation'[i] = rotation[i]
      BY <1>8 DEF PublishTransition, TypeOK, Ids
    <2>2. rotation'[id].stage = "outcome"
      BY <1>8 DEF PublishTransition, TypeOK, RotationRun, Ids
    <2>3. \A r \in Runners : held'[r][id[1]] = id[2]
      BY <1>2, <1>8 DEF PublishTransition, HeldPart
    <2>4. ActiveBuildIsHeld'
      BY <1>5, <1>8, <2>3 DEF PublishTransition, ActiveBuildIsHeld
    <2>5. \A i \in Ids : i # id => rotation'[i] = rotation[i]
      BY <2>1
    <2>6. rotation'[id].stage \notin InstallStages \cup {"publish"}
      BY <2>2 DEF InstallStages
    <2> QED BY <1>4, <2>4, <2>5, <2>6 DEF HeldPart
  <1> QED BY <1>6, <1>7, <1>8, StepKinds

LEMMA TypePreserved == ASSUME IInv, [Next]_vars PROVE TypeOK'
  <1>1. CASE UNCHANGED vars
    BY <1>1 DEF vars, bounds, callbacks, IInv, TypeOK
  <1> QED BY <1>1, TypeMerges, TypeTarget, TypeAdmissions, TypeRotations DEF Next, Ids

\* Only the callback asks, and only its request counts.
LEMMA CallbackShape ==
  ASSUME IInv, [Next]_vars, NEW id \in Ids
  PROVE  \/ dispatched'[id] = dispatched[id] /\ (id \in asking' => id \in asking)
         \/ AuthenticateAdmission(id) \/ RequestCertification(id)
  <1>1. ASSUME NEW i \in Ids, CallbackStep(i) \/ LoseRequest(i), i # id
        PROVE  dispatched'[id] = dispatched[id] /\ (id \in asking' => id \in asking)
    BY <1>1
    DEF CallbackStep, AuthenticateAdmission, RequestCertification, RefuseRequest,
        LoseRequest, IInv, TypeOK, Ids
  <1>2. CASE RefuseRequest(id) \/ LoseRequest(id)
    BY <1>2 DEF RefuseRequest, LoseRequest
  <1>3. CASE UNCHANGED callbacks
    BY <1>3 DEF callbacks
  <1>4. CASE Pushes
    BY <1>4, PushShape
  <1>5. ASSUME NEW i \in Ids, CallbackStep(i) \/ LoseRequest(i)
        PROVE  \/ dispatched'[id] = dispatched[id] /\ (id \in asking' => id \in asking)
               \/ AuthenticateAdmission(id) \/ RequestCertification(id)
    BY <1>1, <1>2, <1>5 DEF CallbackStep
  <1> QED
    BY <1>3, <1>4, <1>5
    DEF Next, Pushes, vars, Ids, AdmissionStep, ProjectCustody, CompleteAdmission,
        RefuseAdmission, RerunAdmission, FailAdmission, StrayAdmission,
        RotationStep, Start, AuthorizeTransition, NoTransition, RefuseTransition,
        InstallOn, RefuseInstall, AdvanceTransition, SupersedeTransition,
        PublishTransition, ProjectOutcome, FailJob, FailOutcome, KillInstall,
        RerunRotation, StrayRotation, InstallTarget

\* Attempts of an admission run only grow.
LEMMA AttemptsGrow ==
  ASSUME IInv, [Next]_vars
  PROVE  \A c \in Commits : admission[c].attempt <= admission'[c].attempt
  <1> USE DEF IInv
  <1>1. \A c \in Commits : admission[c] \in AdmissionRun /\ admission[c].attempt \in Nat
    BY DEF TypeOK, AdmissionRun
  <1>2. CASE UNCHANGED admission
    BY <1>1, <1>2
  <1>3. \A a : FreshAdmission(a).attempt = a
    BY DEF FreshAdmission, NoAdmission
  <1>4. CASE Pushes
    <2>1. admission[main + 1].attempt = 0 /\ main + 1 \in Commits
      <3>1. main + 1 \in Commits /\ main + 1 > main
        BY <1>4, PushShape DEF TypeOK, Commits
      <3> QED BY <3>1 DEF PolicyPart, NoAdmission
    <2>2. admission' = [admission EXCEPT ![main + 1] = FreshAdmission(1)]
      BY <1>4, PushShape
    <2> QED BY <1>1, <1>3, <2>1, <2>2 DEF TypeOK
  <1>5. ASSUME NEW c \in Commits,
               AdmissionStep(c) \/ RerunAdmission(c) \/ FailAdmission(c) \/ StrayAdmission(c)
        PROVE  \A d \in Commits : admission[d].attempt <= admission'[d].attempt
    <2>1. ASSUME NEW run, admission' = [admission EXCEPT ![c] = run],
                 run.attempt \in {admission[c].attempt, admission[c].attempt + 1}
          PROVE  \A d \in Commits : admission[d].attempt <= admission'[d].attempt
      BY <1>1, <2>1 DEF TypeOK
    <2>2. CASE ProjectCustody(c)
      <3>1. PICK topology :
              admission' = [admission EXCEPT ![c] = [@ EXCEPT
                !.phase = "projected", !.custody = EffectiveCustody,
                !.topology = topology]]
        BY <2>2 DEF ProjectCustody
      <3>2. [admission[c] EXCEPT !.phase = "projected", !.custody = EffectiveCustody,
               !.topology = topology].attempt = admission[c].attempt
        BY <1>1 DEF AdmissionRun
      <3> QED BY <2>1, <3>1, <3>2
    <2>3. CASE CompleteAdmission(c)
      <3>1. [admission[c] EXCEPT !.phase = "done"].attempt = admission[c].attempt
        BY <1>1 DEF AdmissionRun
      <3> QED BY <2>1, <2>3, <3>1 DEF CompleteAdmission
    <2>4. CASE RefuseAdmission(c) \/ FailAdmission(c)
      <3>1. [admission[c] EXCEPT !.phase = "done", !.topology = "failed"].attempt
              = admission[c].attempt
        BY <1>1 DEF AdmissionRun
      <3> QED BY <2>1, <2>4, <3>1 DEF RefuseAdmission, FailAdmission
    <2>5. CASE RerunAdmission(c) \/ StrayAdmission(c)
      BY <1>3, <2>1, <2>5 DEF RerunAdmission, StrayAdmission, NewAttempt
    <2> QED BY <1>5, <2>2, <2>3, <2>4, <2>5 DEF AdmissionStep
  <1>6. ASSUME NEW id \in Ids, RequestCertification(id)
        PROVE  \A d \in Commits : admission[d].attempt <= admission'[d].attempt
    <2>1. id[1] \in Commits
      BY DEF Ids
    <2>2. admission' = [admission EXCEPT ![id[1]] =
                          FreshAdmission(admission[id[1]].attempt + 1)]
      BY <1>6 DEF RequestCertification, NewAttempt
    <2> QED BY <1>1, <1>3, <2>1, <2>2 DEF TypeOK
  <1> QED
    BY <1>2, <1>4, <1>5, <1>6
    DEF Next, Pushes, vars, Ids, RotationStep, Start, AuthorizeTransition,
        NoTransition, RefuseTransition, InstallOn, RefuseInstall,
        AdvanceTransition, SupersedeTransition, PublishTransition,
        ProjectOutcome, FailJob, FailOutcome, KillInstall, RerunRotation,
        StrayRotation, InstallTarget, CallbackStep, AuthenticateAdmission,
        RefuseRequest, LoseRequest

\* Once a callback has asked, the attempt it came from is an old one, and its
\* publisher, run again, refuses it.
LEMMA CountPreserved == ASSUME IInv, [Next]_vars PROVE CountPart'
  <1> USE DEF IInv
  <1>1. IsFiniteSet(receipts') /\ receipts \subseteq receipts'
    <2>1. ASSUME NEW id \in Ids, PublishTransition(id)
          PROVE  IsFiniteSet(receipts') /\ receipts \subseteq receipts'
      BY <2>1, FS_AddElement DEF PublishTransition, CountPart
    <2>2. CASE UNCHANGED receipts
      BY <2>2 DEF CountPart
    <2> QED BY <2>1, <2>2, StepKinds, AdvanceShape, PushShape DEF Quiet
  <1> SUFFICES ASSUME NEW id \in Ids
               PROVE  /\ id \in asking' => dispatched'[id] = 0
                      /\ id \in asking' \/ dispatched'[id] # 0 =>
                           Published(id)' # {} /\ id[2] <= admission'[id[1]].attempt
                      /\ dispatched'[id] # 0 =>
                           dispatched'[id] = 1 /\ id[2] < admission'[id[1]].attempt
    BY <1>1 DEF CountPart
  <1>2. /\ id[1] \in Commits /\ id[2] \in Nat
        /\ admission[id[1]].attempt \in Nat /\ admission'[id[1]].attempt \in Nat
        /\ admission[id[1]].attempt <= admission'[id[1]].attempt
    BY AttemptsGrow, TypePreserved DEF TypeOK, AdmissionRun, Ids, Attempts
  <1>3. Published(id) # {} => Published(id)' # {}
    BY <1>1 DEF Published
  <1>4. /\ id \in asking => dispatched[id] = 0
        /\ id \in asking \/ dispatched[id] # 0 =>
             Published(id) # {} /\ id[2] <= admission[id[1]].attempt
        /\ dispatched[id] # 0 => dispatched[id] = 1 /\ id[2] < admission[id[1]].attempt
    BY DEF CountPart
  <1>5. CASE dispatched'[id] = dispatched[id] /\ (id \in asking' => id \in asking)
    BY <1>2, <1>3, <1>4, <1>5
  <1>6. CASE AuthenticateAdmission(id)
    <2>1. Published(id) # {}
      BY <1>6 DEF AuthenticateAdmission, Activated, Following, Published
    <2>2. dispatched' = dispatched /\ admission[id[1]].attempt = id[2]
      BY <1>6 DEF AuthenticateAdmission
    <2>3. dispatched[id] = 0
      BY <1>2, <1>4, <2>2
    <2> QED BY <1>2, <1>3, <2>1, <2>2, <2>3
  <1>7. CASE RequestCertification(id)
    <2>1. id \in asking /\ id \notin asking' /\ dispatched'[id] = dispatched[id] + 1
      BY <1>7 DEF RequestCertification, TypeOK, Ids
    <2>2. admission'[id[1]].attempt = admission[id[1]].attempt + 1
      BY <1>2, <1>7 DEF RequestCertification, NewAttempt, FreshAdmission, NoAdmission, TypeOK
    <2> QED BY <1>2, <1>3, <1>4, <2>1, <2>2
  <1> QED BY <1>5, <1>6, <1>7, CallbackShape

-----------------------------------------------------------------------------
(* The theorems.                                                           *)

LEMMA Invariant == Spec => []IInv
  <1>1. Init => IInv
    BY InitIInv
  <1>2. IInv /\ [Next]_vars => IInv'
    BY TypePreserved, ChainPreserved, PolicyPreserved, SerialPreserved,
       FlightPreserved, HeldPreserved, CountPreserved
    DEF IInv
  <1> QED BY <1>1, <1>2, PTL DEF Spec

(***************************************************************************)
(* Every reachable state is well-formed.                                   *)
(***************************************************************************)
THEOREM TypeCorrect == Spec => []TypeOK
  <1>1. IInv => TypeOK
    BY DEF IInv
  <1> QED BY <1>1, Invariant, PTL

(***************************************************************************)
(* select_controller_chain never raises: the transitions that count never  *)
(* fork, repeat or disconnect.                                             *)
(***************************************************************************)
THEOREM ChainIsLinearHolds == Spec => []ChainIsLinear
  <1>1. IInv => ChainIsLinear
    BY DEF IInv, ChainPart, ChainTo, ChainIsLinear
  <1> QED BY <1>1, Invariant, PTL

(***************************************************************************)
(* Every runner holds the build every published transition names.          *)
(***************************************************************************)
THEOREM ActiveBuildIsHeldHolds == Spec => []ActiveBuildIsHeld
  <1>1. IInv => ActiveBuildIsHeld
    BY DEF IInv, HeldPart
  <1> QED BY <1>1, Invariant, PTL

(***************************************************************************)
(* The callback asks for at most one fresh admission per transition.       *)
(***************************************************************************)
THEOREM OneRerunPerTransitionHolds == Spec => []OneRerunPerTransition
  <1>1. ASSUME IInv PROVE OneRerunPerTransition
    <2> SUFFICES ASSUME NEW id \in Ids
                 PROVE  dispatched[id] <= Cardinality(Published(id))
      BY DEF OneRerunPerTransition, Published, Ids
    <2>1. IsFiniteSet(Published(id))
      BY <1>1, FS_Subset DEF IInv, CountPart, Published
    <2>2. Cardinality(Published(id)) \in Nat
      BY <2>1, FS_CardinalityType
    <2>3. Published(id) # {} => Cardinality(Published(id)) # 0
      BY <2>1, FS_EmptySet
    <2>4. dispatched[id] = 0 \/ (dispatched[id] = 1 /\ Published(id) # {})
      BY <1>1 DEF IInv, CountPart
    <2> QED BY <2>2, <2>3, <2>4
  <1> QED BY <1>1, Invariant, PTL

(***************************************************************************)
(* The resolver's answer moves as ControllerSuccession allows: forward to  *)
(* a later commit by rotation, anywhere that exists by normalization.      *)
(***************************************************************************)
THEOREM ImplementsSuccession == Spec => SuccessionSpec
  <1>1. ASSUME Init PROVE Succession!Init
    <2>1. ChainPart /\ Following = {} /\ source[main].installed = 0
      BY <1>1, InitIInv, ConstantsAssumption
      DEF IInv, Init, Following, Commits, ConstantsAssumption
    <2>2. Effective = 0
      BY <2>1 DEF ChainPart, ChainTo, Nodes
    <2> QED BY <1>1, <2>2 DEF Succession!Init, Init
  <1>2. ASSUME IInv, [Next]_vars
        PROVE  [Succession!Next]_<<main, Effective>>
    <2>1. /\ main \in Nat /\ Effective \in Nat /\ Effective <= main
          /\ source[main].pin \in Nat /\ source[main].pin <= main
      <3>1. main \in Commits /\ source[main] \in Policy /\ source[main].pin <= main
        BY <1>2 DEF IInv, TypeOK, PolicyPart
      <3>2. source[main].pin \in Commits /\ Commits \subseteq Nat
        BY <3>1 DEF Policy, Commits
      <3>3. Effective \in Commits /\ Effective <= main
        BY <1>2, EffectiveIsMerged DEF IInv
      <3> QED BY <3>1, <3>2, <3>3
    <2>2. CASE Pushes
      <3>1. main' = main + 1
        BY <1>2, <2>2, PushShape
      <3>2. Effective' = Effective \/ Effective' = source[main].pin
        BY <1>2, <2>2, PushChain
      <3> QED
        BY <2>1, <3>1, <3>2 DEF Succession!Next, Succession!Merge, Succession!Normalize
    <2>3. ASSUME NEW id \in Ids, PublishTransition(id)
          PROVE  [Succession!Next]_<<main, Effective>>
      <3>1. main' = main
        BY <1>2, <2>3, PublishChain
      <3>2. \/ Effective' = Effective
            \/ Effective' = id[1] /\ Effective < id[1] /\ id[1] <= main
        BY <1>2, <2>3, PublishChain
      <3>3. id[1] \in Nat
        BY DEF Ids, Commits
      <3> QED BY <2>1, <3>1, <3>2, <3>3 DEF Succession!Next, Succession!Rotate
    <2>4. CASE UNCHANGED <<main, source, receipts>>
      BY <2>4, ChainStays
    <2> QED
      BY <1>2, <2>2, <2>3, <2>4, StepKinds, AdvanceShape DEF Quiet, IInv
  <1> QED BY <1>1, <1>2, Invariant, PTL DEF Spec, SuccessionSpec, Succession!Spec
=============================================================================

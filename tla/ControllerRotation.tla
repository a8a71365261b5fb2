------------------------- MODULE ControllerRotation -------------------------
(***************************************************************************)
(* The rotation of the trusted controller: the build of an exact-main      *)
(* admission, the rotation workflow that installs it on every runner and   *)
(* activates it, the callback that asks for a fresh admission, and the     *)
(* resolver every privileged command starts with.                          *)
(*                                                                         *)
(* Commits of the default branch are numbered; commit 0 is the baseline,   *)
(* whose build is installed.  An admission run has attempts, and each      *)
(* completed attempt triggers one rotation run, which has attempts of its  *)
(* own; the provider shows the latest attempt of a run only.  The          *)
(* controller built from a commit is named by the commit.                  *)
(***************************************************************************)
EXTENDS Integers, FiniteSets

CONSTANTS
  Runners,              \* the trusted runners of the source policy
  MaxCommit,            \* bound: merges
  MaxAttempts,          \* bound: attempts of one admission run
  MaxRotationAttempts,  \* bound: attempts of one rotation run
  Faults,               \* the kinds of fault that may happen
  MaxFaults,            \* bound: faults
  Normalizes            \* whether the source policy may be restated

\* A job fails, a runner dies while it installs, a run fails after it published,
\* an operator re-runs an admission or a rotation that needs no re-run.
FaultKinds == {"job", "kill", "outcome", "admission", "rotation"}

ASSUME ConstantsAssumption ==
  /\ Cardinality(Runners) >= 2
  /\ MaxCommit \in Nat
  /\ MaxAttempts \in Nat \ {0}
  /\ MaxRotationAttempts \in Nat \ {0}
  /\ Faults \subseteq FaultKinds
  /\ MaxFaults \in Nat
  /\ Normalizes \in BOOLEAN

VARIABLES
  main,        \* the commit of the default branch
  source,      \* source[c]: the runtime and the controller policy of commit c
  proved,      \* the runners whose proof jobs of main's pin are green
  admission,   \* admission[c]: the latest attempt of the admission run of c
  rotation,    \* rotation[<<c, a>>]: the rotation run that attempt triggered
  receipts,    \* the published active transitions
  held,        \* held[r][c]: the build of c installed on runner r
  dispatched,  \* dispatched[id]: fresh admissions the callback of run id asked for
  asking,      \* the rotation runs whose callback is about to ask
  faults,      \* number of faults so far
  struck       \* the kinds of fault there were

callbacks == <<dispatched, asking>>
bounds == <<faults, struck>>
vars == <<main, source, proved, admission, rotation, receipts, held, callbacks, bounds>>

Commits == 0 .. MaxCommit
Attempts == 1 .. MaxAttempts

\* A build is named by the admission attempt that made it.
NoBuild == 0
Partial == -1

InstallStages == {"bootstrap", "probe", "promotion"}
Running == {"authorize", "publish", "outcome"} \cup InstallStages
Finished == {"succeeded", "failed"}

Transition ==
  [from: Commits, to: Commits, attempt: Attempts, run: 0 .. MaxRotationAttempts]

Custody ==
  [subject: Commits, controller: Commits, transitions: SUBSET Transition]
NoCustody == [subject |-> 0, controller |-> 0, transitions |-> {}]

\* A commit's runtime and its source policy: the controller it pins and its
\* build, the one it confirms as installed, and the commit that proved it.
Policy == [runtime: Commits, pin: Commits, build: 0 .. MaxAttempts,
           installed: Commits, subject: Commits]

AdmissionRun ==
  [attempt: 0 .. MaxAttempts,
   phase: {"none", "running", "projected", "done"},
   topology: {"none", "current", "pending", "failed"},
   custody: Custody]
NoAdmission == [attempt |-> 0, phase |-> "none", topology |-> "none",
                custody |-> NoCustody]
FreshAdmission(attempt) ==
  [NoAdmission EXCEPT !.attempt = attempt, !.phase = "running"]

\* How the admission attempt ended that triggered a rotation: with success,
\* failed, or failed before it projected a capsule.
Triggers == {"none", "success", "failure", "refused"}

\* The controller a rotation was authorized by, and the green runners of its
\* current stage.
RotationRun ==
  [trigger: Triggers,
   attempt: 0 .. MaxRotationAttempts,
   stage: {"none", "queued"} \cup Running \cup Finished,
   from: Commits, green: SUBSET Runners]
NoRotation == [trigger |-> "none", attempt |-> 0, stage |-> "none",
               from |-> 0, green |-> {}]

Init ==
  /\ main = 0
  /\ source = [c \in Commits |->
                 [runtime |-> 0, pin |-> 0, build |-> 1,
                  installed |-> 0, subject |-> 0]]
  /\ proved = {}
  /\ admission = [c \in Commits |-> NoAdmission]
  /\ rotation = [id \in Commits \X Attempts |-> NoRotation]
  /\ receipts = {}
  /\ held = [r \in Runners |->
               [c \in Commits |-> IF c = 0 THEN 1 ELSE NoBuild]]
  /\ dispatched = [id \in Commits \X Attempts |-> 0]
  /\ asking = {}
  /\ faults = 0 /\ struck = {}

-----------------------------------------------------------------------------
(* The resolver: source baseline plus the unique chain of transitions.     *)

\* The run that activated a transition is complete, successful, and was not
\* run again.
Authentic(t) ==
  /\ rotation[<<t.to, t.attempt>>].attempt = t.run
  /\ rotation[<<t.to, t.attempt>>].stage = "succeeded"

\* Mutant: nothing is absorbed.
FollowingAll == {t \in receipts : t.to >= 0}

\* Mutant: a transition whose run cannot be authenticated is passed over.
FollowingAuthentic ==
  {t \in receipts : Authentic(t) /\ t.to >= source[main].subject}

\* Transitions that precede the normalization of the source are absorbed.
Following == {t \in receipts : t.to >= source[main].subject}

\* The transitions of A form one unbranched, connected chain from base.
Linear(A, base) ==
  /\ \A t, u \in A : t.from = u.from => t = u
  /\ \A t \in A : t.from = base \/ \E u \in A : u.to = t.from

\* The controller at the end of the chain.
Head(A, base) ==
  CHOOSE c \in {base} \cup {t.to : t \in A} : \A t \in A : t.from # c

Effective == Head(Following, source[main].installed)

OrdinaryCurrent == source[main].pin = source[main].installed

\* What must hold for the resolver to return instead of raising.
Resolvable ==
  /\ OrdinaryCurrent
  /\ \A t \in receipts : Authentic(t)
  /\ Linear(Following, source[main].installed)

EffectiveCustody ==
  [subject |-> main, controller |-> Effective, transitions |-> Following]

-----------------------------------------------------------------------------
(* Merges.  A push to main starts an admission run.                        *)

Push(facts) ==
  /\ main < MaxCommit
  /\ main' = main + 1
  /\ source' = [source EXCEPT ![main + 1] = facts]
  /\ proved' = {}
  /\ admission' = [admission EXCEPT ![main + 1] = FreshAdmission(1)]
  /\ UNCHANGED <<rotation, receipts, callbacks, bounds>>

\* An ordinary merge may change the runtime of the controller.
Merge ==
  /\ \E runtime \in {source[main].runtime, main + 1} :
       Push([source[main] EXCEPT !.runtime = runtime])
  /\ UNCHANGED held

\* The alternate lane: a merge that pins the build of main as the target; the
\* admission that made it need not have succeeded.
MergeTarget ==
  /\ Normalizes
  /\ OrdinaryCurrent
  /\ admission[main].phase = "done"
  /\ admission[main].custody # NoCustody
  /\ Push([source[main] EXCEPT !.pin = main, !.build = admission[main].attempt])
  /\ UNCHANGED held

\* Mutant: whatever the runner holds of the commit is refused.
InstallableOnce(id, r) ==
  /\ admission[id[1]].attempt = id[2]
  /\ held[r][id[1]] = NoBuild

\* Whether runner r takes the build id = <<commit, attempt>>: its producer
\* attempt is the latest, and what the runner holds of the commit is that build.
Installable(id, r) ==
  /\ admission[id[1]].attempt = id[2]
  /\ held[r][id[1]] \in {NoBuild, id[2]}

\* The proof runs of main install the pinned build on runner r.
InstallTarget(r) ==
  LET target == <<source[main].pin, source[main].build>>
  IN  /\ ~ OrdinaryCurrent
      /\ r \notin proved
      /\ Installable(target, r)
      /\ held' = [held EXCEPT ![r][target[1]] = target[2]]
      /\ proved' = proved \cup {r}
      /\ UNCHANGED <<main, source, admission, rotation, receipts, callbacks, bounds>>

\* The merge that confirms the target after the proof runs of main were green
\* on every runner.
MergeConfirmation ==
  /\ ~ OrdinaryCurrent
  /\ proved = Runners
  /\ Push([source[main] EXCEPT !.installed = source[main].pin, !.subject = main])
  /\ UNCHANGED held

-----------------------------------------------------------------------------
(* The provider runs one rotation at a time and keeps one waiting; a newer *)
(* one replaces the one that waits.                                        *)

Enqueue(id, attempt, trigger) ==
  rotation' = [i \in DOMAIN rotation |->
    IF i = id
    THEN [NoRotation EXCEPT !.trigger = trigger, !.attempt = attempt, !.stage = "queued"]
    ELSE IF rotation[i].stage = "queued"
    THEN [rotation[i] EXCEPT !.stage = "failed"]
    ELSE rotation[i]]

Idle == \A i \in DOMAIN rotation : rotation[i].stage \notin Running

Start(id) ==
  /\ rotation[id].stage = "queued"
  /\ Idle
  /\ rotation' = [rotation EXCEPT ![id].stage = "authorize"]
  /\ UNCHANGED <<main, source, proved, admission, receipts, held, callbacks, bounds>>

-----------------------------------------------------------------------------
(* The admission run of commit c.                                          *)

\* What the builder can classify: the controller it resolved is an ancestor
\* of the commit.
Classifiable(c) == Resolvable /\ Effective <= c

\* The effective controller runs what the commit runs, or has to be rotated.
Applicability(c) ==
  IF source[c].runtime = source[Effective].runtime THEN "current" ELSE "pending"

\* The builder projects the custody capsule and classifies the commit.
ProjectCustody(c) ==
  /\ admission[c].phase = "running"
  /\ Classifiable(c)
  /\ admission' = [admission EXCEPT ![c] = [@ EXCEPT
       !.phase = "projected",
       !.custody = EffectiveCustody,
       !.topology = Applicability(c)]]
  /\ UNCHANGED <<main, source, proved, rotation, receipts, held, callbacks, bounds>>

\* The end of the admission run triggers a rotation run.
CompleteAdmission(c) ==
  /\ admission[c].phase = "projected"
  /\ admission' = [admission EXCEPT ![c].phase = "done"]
  /\ Enqueue(<<c, admission[c].attempt>>, 1, "success")
  /\ UNCHANGED <<main, source, proved, receipts, held, callbacks, bounds>>

\* The builder could not resolve the controller.
RefuseAdmission(c) ==
  /\ admission[c].phase = "running"
  /\ ~ Classifiable(c)
  /\ admission' = [admission EXCEPT ![c] = [@ EXCEPT
                     !.phase = "done", !.topology = "failed"]]
  /\ Enqueue(<<c, admission[c].attempt>>, 1, "refused")
  /\ UNCHANGED <<main, source, proved, receipts, held, callbacks, bounds>>

-----------------------------------------------------------------------------
(* The rotation run id = <<c, a>>, triggered by attempt a of admission c.  *)

Finish(id, stage) ==
  rotation' = [rotation EXCEPT ![id] =
    [@ EXCEPT !.stage = stage, !.from = 0, !.green = {}]]

\* The triggering admission did not succeed: the authorization is skipped, and
\* the outcome is its capsule, if there is one.
Skipped(id) == rotation[id].trigger # "success"

\* The admission is of exact main, its attempt is the latest, and its
\* capsule is the custody the resolver returns now.
Admitted(id) ==
  /\ ~ Skipped(id)
  /\ main = id[1]
  /\ admission[id[1]].attempt = id[2]
  /\ admission[id[1]].phase = "done"
  /\ Resolvable
  /\ admission[id[1]].custody = EffectiveCustody

AuthorizeTransition(id) ==
  /\ rotation[id].stage = "authorize"
  /\ Admitted(id)
  /\ admission[id[1]].topology = "pending"
  /\ id[1] # Effective
  /\ rotation' = [rotation EXCEPT ![id] =
                    [@ EXCEPT !.stage = "bootstrap", !.from = Effective, !.green = {}]]
  /\ UNCHANGED <<main, source, proved, admission, receipts, held, callbacks, bounds>>

NoTransition(id) ==
  /\ rotation[id].stage = "authorize"
  /\ \/ Admitted(id) /\ admission[id[1]].topology = "current"
     \/ rotation[id].trigger = "failure"
  /\ Finish(id, "succeeded")
  /\ UNCHANGED <<main, source, proved, admission, receipts, held, callbacks, bounds>>

RefuseTransition(id) ==
  /\ rotation[id].stage = "authorize"
  /\ \/ rotation[id].trigger = "refused"
     \/ ~ Skipped(id) /\ ~ Admitted(id)
     \/ Admitted(id) /\ admission[id[1]].topology = "pending" /\ id[1] = Effective
  /\ Finish(id, "failed")
  /\ UNCHANGED <<main, source, proved, admission, receipts, held, callbacks, bounds>>

\* Bootstrap, probe and promotion run one installer on every runner.
InstallOn(id, r) ==
  /\ rotation[id].stage \in InstallStages
  /\ r \notin rotation[id].green
  /\ Installable(id, r)
  /\ held' = [held EXCEPT ![r][id[1]] = id[2]]
  /\ rotation' = [rotation EXCEPT ![id].green = @ \cup {r}]
  /\ UNCHANGED <<main, source, proved, admission, receipts, callbacks, bounds>>

RefuseInstall(id, r) ==
  /\ rotation[id].stage \in InstallStages
  /\ r \notin rotation[id].green
  /\ ~ Installable(id, r)
  /\ Finish(id, "failed")
  /\ UNCHANGED <<main, source, proved, admission, receipts, held, callbacks, bounds>>

\* Mutant: one green runner is enough.
StageProvedOnce(id) ==
  /\ rotation[id].stage \in InstallStages
  /\ rotation[id].green # {}

\* One stage is proved when the jobs of every runner are green, and the
\* subject of the run is still main.
StageProved(id) ==
  /\ rotation[id].stage \in InstallStages
  /\ rotation[id].green = Runners

\* Mutant: the last stage is recorded as the state of the receipt.
NextStageActive(stage) ==
  CASE stage = "bootstrap" -> "probe"
    [] stage = "probe" -> "promotion"
    [] stage = "promotion" -> "active"

NextStage(stage) ==
  CASE stage = "bootstrap" -> "probe"
    [] stage = "probe" -> "promotion"
    [] stage = "promotion" -> "publish"

AdvanceTransition(id) ==
  /\ StageProved(id)
  /\ main = id[1]
  /\ rotation' = [rotation EXCEPT ![id] = [@ EXCEPT
                    !.stage = NextStage(rotation[id].stage), !.green = {}]]
  /\ UNCHANGED <<main, source, proved, admission, receipts, held, callbacks, bounds>>

SupersedeTransition(id) ==
  /\ StageProved(id)
  /\ main # id[1]
  /\ Finish(id, "failed")
  /\ UNCHANGED <<main, source, proved, admission, receipts, held, callbacks, bounds>>

\* The activation job uploads the receipt it compiled.
PublishTransition(id) ==
  /\ rotation[id].stage = "publish"
  /\ receipts' = receipts \cup
       {[from |-> rotation[id].from, to |-> id[1], attempt |-> id[2],
         run |-> rotation[id].attempt]}
  /\ rotation' = [rotation EXCEPT ![id].stage = "outcome"]
  /\ UNCHANGED <<main, source, proved, admission, held, callbacks, bounds>>

ProjectOutcome(id) ==
  /\ rotation[id].stage = "outcome"
  /\ Finish(id, "succeeded")
  /\ UNCHANGED <<main, source, proved, admission, receipts, held, callbacks, bounds>>

-----------------------------------------------------------------------------
(* The callback of a successful rotation run, which its publisher may run  *)
(* again.                                                                  *)

Activated(id) ==
  {t \in Following : /\ <<t.to, t.attempt>> = id
                     /\ t.run = rotation[id].attempt}

\* Mutant: the admission may have been run again already.
AuthenticateAgain(id) ==
  /\ id \notin asking
  /\ rotation[id].stage = "succeeded"
  /\ main = id[1]
  /\ Resolvable
  /\ Effective = id[1]
  /\ Activated(id) # {}
  /\ admission[id[1]].phase = "done"
  /\ asking' = asking \cup {id}
  /\ UNCHANGED <<main, source, proved, admission, rotation, receipts, held,
                 dispatched, bounds>>

\* The callback finds its transition active and the admission it came from
\* complete and not run again.
AuthenticateAdmission(id) ==
  /\ id \notin asking
  /\ rotation[id].stage = "succeeded"
  /\ main = id[1]
  /\ Resolvable
  /\ Effective = id[1]
  /\ Activated(id) # {}
  /\ admission[id[1]].attempt = id[2]
  /\ admission[id[1]].phase = "done"
  /\ asking' = asking \cup {id}
  /\ UNCHANGED <<main, source, proved, admission, rotation, receipts, held,
                 dispatched, bounds>>

\* An admission run that is complete can be run again.
NewAttempt(c) ==
  /\ admission[c].phase = "done"
  /\ admission[c].attempt < MaxAttempts
  /\ admission' = [admission EXCEPT ![c] =
                     FreshAdmission(admission[c].attempt + 1)]

\* The request names the admission run, not the attempt that was read.
RequestCertification(id) ==
  /\ id \in asking
  /\ NewAttempt(id[1])
  /\ asking' = asking \ {id}
  /\ dispatched' = [dispatched EXCEPT ![id] = @ + 1]
  /\ UNCHANGED <<main, source, proved, rotation, receipts, held, bounds>>

\* The provider does not run again what is still running.
RefuseRequest(id) ==
  /\ id \in asking
  /\ admission[id[1]].phase # "done"
  /\ asking' = asking \ {id}
  /\ UNCHANGED <<main, source, proved, admission, rotation, receipts, held,
                 dispatched, bounds>>

-----------------------------------------------------------------------------
(* Failures, and the operators who run failed runs again.                  *)

Fault(kind) ==
  /\ kind \in Faults
  /\ faults < MaxFaults
  /\ faults' = faults + 1
  /\ struck' = struck \cup {kind}

\* A job fails before the receipt is published, or a run of another workflow
\* of the concurrency group takes the place of the run that waits.
FailJob(id) ==
  /\ rotation[id].stage \in (Running \ {"outcome"}) \cup {"queued"}
  /\ Fault("job")
  /\ Finish(id, "failed")
  /\ UNCHANGED <<main, source, proved, admission, receipts, held, callbacks>>

\* The callback dies before it asks.
LoseRequest(id) ==
  /\ id \in asking
  /\ Fault("job")
  /\ asking' = asking \ {id}
  /\ UNCHANGED <<main, source, proved, admission, rotation, receipts, held, dispatched>>

\* The runner dies between the environment and its metadata.
KillInstall(id, r) ==
  /\ rotation[id].stage \in InstallStages
  /\ r \notin rotation[id].green
  /\ Installable(id, r)
  /\ held[r][id[1]] = NoBuild
  /\ Fault("kill")
  /\ held' = [held EXCEPT ![r][id[1]] = Partial]
  /\ Finish(id, "failed")
  /\ UNCHANGED <<main, source, proved, admission, receipts, callbacks>>

\* The run fails after the receipt was published.
FailOutcome(id) ==
  /\ rotation[id].stage = "outcome"
  /\ Fault("outcome")
  /\ Finish(id, "failed")
  /\ UNCHANGED <<main, source, proved, admission, receipts, held, callbacks>>

\* An admission run fails after it projected its capsule.
FailAdmission(c) ==
  /\ admission[c].phase = "projected"
  /\ Fault("job")
  /\ admission' = [admission EXCEPT ![c] = [@ EXCEPT
                     !.phase = "done", !.topology = "failed"]]
  /\ Enqueue(<<c, admission[c].attempt>>, 1, "failure")
  /\ UNCHANGED <<main, source, proved, receipts, held, callbacks>>

\* An admission is made afresh when it failed, or the rotation it triggered
\* did, while no rotation is under way and no runner holds its build, unless
\* that build is the effective controller.
FreshAdmissionNeeded(c) ==
  /\ main = c
  /\ \A i \in DOMAIN rotation : rotation[i].stage \notin Running \cup {"queued"}
  /\ \/ rotation[<<c, admission[c].attempt>>].stage = "failed"
     \/ admission[c].topology = "failed"
  /\ Effective = c \/ \A r \in Runners : held[r][c] = NoBuild

RerunAdmission(c) ==
  /\ NewAttempt(c)
  /\ FreshAdmissionNeeded(c)
  /\ UNCHANGED <<main, source, proved, rotation, receipts, held, callbacks, bounds>>

StrayAdmission(c) ==
  /\ NewAttempt(c)
  /\ Fault("admission")
  /\ UNCHANGED <<main, source, proved, rotation, receipts, held, callbacks>>

\* A failed rotation is run again while its admission stands and it has
\* published nothing.
RerunNeeded(id) ==
  /\ rotation[id].stage = "failed"
  /\ main = id[1] /\ admission[id[1]].attempt = id[2]
  /\ admission[id[1]].phase = "done"
  /\ \A t \in receipts : <<t.to, t.attempt>> # id

NewRotationAttempt(id) ==
  /\ rotation[id].stage \in Finished
  /\ rotation[id].attempt < MaxRotationAttempts
  /\ Enqueue(id, rotation[id].attempt + 1, rotation[id].trigger)

RerunRotation(id) ==
  /\ NewRotationAttempt(id)
  /\ RerunNeeded(id)
  /\ UNCHANGED <<main, source, proved, admission, receipts, held, callbacks, bounds>>

StrayRotation(id) ==
  /\ NewRotationAttempt(id)
  /\ Fault("rotation")
  /\ UNCHANGED <<main, source, proved, admission, receipts, held, callbacks>>

-----------------------------------------------------------------------------
AdmissionStep(c) ==
  ProjectCustody(c) \/ CompleteAdmission(c) \/ RefuseAdmission(c)

RotationStep(id) ==
  \/ Start(id) \/ AuthorizeTransition(id) \/ NoTransition(id)
  \/ RefuseTransition(id) \/ AdvanceTransition(id)
  \/ SupersedeTransition(id) \/ PublishTransition(id) \/ ProjectOutcome(id)
  \/ \E r \in Runners : InstallOn(id, r) \/ RefuseInstall(id, r)

CallbackStep(id) ==
  AuthenticateAdmission(id) \/ RequestCertification(id) \/ RefuseRequest(id)

Next ==
  \/ Merge \/ MergeTarget \/ MergeConfirmation \/ \E r \in Runners : InstallTarget(r)
  \/ \E c \in Commits :
       AdmissionStep(c) \/ RerunAdmission(c) \/ FailAdmission(c) \/ StrayAdmission(c)
  \/ \E id \in Commits \X Attempts :
       \/ RotationStep(id) \/ CallbackStep(id) \/ RerunRotation(id)
       \/ FailJob(id) \/ LoseRequest(id) \/ FailOutcome(id) \/ StrayRotation(id)
       \/ \E r \in Runners : KillInstall(id, r)

Spec == Init /\ [][Next]_vars

\* The provider runs what it was asked to run, and operators run again what
\* failed; merges and faults are not forced.
Fairness ==
  /\ WF_vars(\E c \in Commits : AdmissionStep(c))
  /\ WF_vars(\E c \in Commits : RerunAdmission(c))
  /\ WF_vars(\E id \in Commits \X Attempts : RotationStep(id))
  /\ WF_vars(\E id \in Commits \X Attempts : CallbackStep(id))
  /\ WF_vars(\E id \in Commits \X Attempts : RerunRotation(id))

FairSpec == Spec /\ Fairness

-----------------------------------------------------------------------------
TypeOK ==
  /\ main \in Commits
  /\ source \in [Commits -> Policy]
  /\ proved \subseteq Runners
  /\ admission \in [Commits -> AdmissionRun]
  /\ rotation \in [Commits \X Attempts -> RotationRun]
  /\ receipts \subseteq Transition
  /\ held \in [Runners -> [Commits -> {Partial} \cup 0 .. MaxAttempts]]
  /\ dispatched \in [Commits \X Attempts -> Nat]
  /\ asking \subseteq Commits \X Attempts
  /\ faults \in 0 .. MaxFaults
  /\ struck \subseteq Faults

(***************************************************************************)
(* Whatever is merged, re-run or lost, the transitions that count never    *)
(* fork, repeat or disconnect, so select_controller_chain never raises: a  *)
(* rotation is authorized by the controller that is effective, and no      *)
(* second one was authorized by it before.                                 *)
(***************************************************************************)
ChainIsLinear == Linear(Following, source[main].installed)

(***************************************************************************)
(* A transition is published only when every runner holds the very build   *)
(* its receipt names, and no later run takes that build away: a command    *)
(* routed to the effective controller finds it on any runner.              *)
(***************************************************************************)
ActiveBuildIsHeld ==
  \A t \in receipts, r \in Runners : held[r][t.to] = t.attempt

(***************************************************************************)
(* The callback of a rotation asks for at most one fresh admission per     *)
(* transition the rotation published, even when its publisher is run again *)
(* and operators re-run the admission before or after it asks.             *)
(***************************************************************************)
OneRerunPerTransition ==
  \A id \in Commits \X Attempts :
    dispatched[id] <= Cardinality({t \in receipts : <<t.to, t.attempt>> = id})

(***************************************************************************)
(* The effective controller moves only as ControllerSuccession allows.     *)
(***************************************************************************)
Succession == INSTANCE ControllerSuccession
                WITH head <- main, controller <- Effective
SuccessionSpec == Succession!Spec

(***************************************************************************)
(* When merges stop, the head of main ends up admitted under a controller  *)
(* that runs its runtime, whatever jobs failed on the way.  A killed       *)
(* install, a failure after publication and a stray re-run are excluded:   *)
(* each leaves a state the code never repairs.                             *)
(***************************************************************************)
Settled ==
  main > 0 => /\ admission[main].phase = "done"
              /\ admission[main].topology = "current"
RotationSettles == <>[](struck \subseteq {"job"} => Settled)
=============================================================================

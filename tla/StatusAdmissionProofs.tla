----------------------- MODULE StatusAdmissionProofs -----------------------
(***************************************************************************)
(* The admit job of a run, for every number of commits, runs, attempts     *)
(* below the radix, runners, losses and retries: no publication meets the  *)
(* conflict of equal authorities, and what a commit showed is revoked      *)
(* before a run certifies it.                                              *)
(*                                                                         *)
(* The argument: while a runner publishes the pending status of an         *)
(* admission, the run waits for it in its current attempt, so nothing has  *)
(* concluded that attempt; and a run that was admitted either posted that  *)
(* status or was told of one of higher authority.  That a commit has one   *)
(* run is not used.                                                        *)
(***************************************************************************)
EXTENDS StatusPublicationProofs, FiniteSetTheorems

Admits(p, r) == publisher[p].admits = r /\ r # 0

\* A run whose admit job publishes waits for the one runner that executes it.
AdmissionPending(p, r) ==
  /\ runs[r].state = "running" /\ runs[r].admitted = "publishing"
  /\ publisher[p].main = runs[r].subject
  /\ publisher[p].proposed =
       Proposal(r, runs[r].attempt, runs[r].subject, runs[r].intent, "pending")

AdmissionsPending ==
  \A p \in Publishers, r \in RunIds : Admits(p, r) => AdmissionPending(p, r)

OneAdmission ==
  \A p, q \in Publishers, r \in RunIds : Admits(p, r) /\ Admits(q, r) => p = q

\* What is not an admission publishes a conclusion.
BundlesConclude ==
  \A p \in Publishers :
    publisher[p] # Idle /\ publisher[p].admits = 0
      => publisher[p].proposed.conclusion \in Terminal

UnbornNotAdmitted ==
  \A r \in RunIds : runs[r].state = "unborn" => runs[r].admitted = "no"

PendingPart ==
  AdmissionsPending /\ OneAdmission /\ BundlesConclude /\ UnbornNotAdmitted

\* The pending status of run r, or a status above all its attempts, is posted.
Revoked(r) ==
  \E f \in posted :
    /\ f.context = StatusContextFor(runs[r].intent) /\ f.subject = runs[r].subject
    /\ f.ordinal >= RunOrdinal(r, 1)
    /\ \/ f.conclusion = "pending"
       \/ \A a \in Attempts : f.ordinal > RunOrdinal(r, a)

Certifiable(r) ==
  /\ runs[r].intent # "pr"
  /\ runs[r].admitted = "yes" \/ \E a \in Attempts : runs[r].verdicts[a] \in Terminal

CertifiableIsRevoked == \A r \in RunIds : Certifiable(r) => Revoked(r)

AdmissionInv == IInv /\ PendingPart /\ CertifiableIsRevoked

-----------------------------------------------------------------------------
(* Steps that leave the runners alone.                                     *)

RunsWait ==
  /\ runs' \in [RunIds -> Run]
  /\ \A r \in RunIds :
       /\ runs[r].state = "running" /\ runs[r].admitted = "publishing"
            => runs'[r] = runs[r]
       /\ runs'[r].state = "unborn" => runs'[r].admitted = "no"

LEMMA ElsewherePending ==
  ASSUME IInv, PendingPart, RunsWait, UNCHANGED publisher
  PROVE  PendingPart'
<1>1. AdmissionsPending'
  <2> SUFFICES ASSUME NEW p \in Publishers, NEW r \in RunIds, Admits(p, r)
               PROVE  AdmissionPending(p, r)'
    BY DEF AdmissionsPending, Admits
  <2>1. AdmissionPending(p, r)
    BY DEF PendingPart, AdmissionsPending
  <2>2. runs'[r] = runs[r]
    BY <2>1 DEF AdmissionPending, RunsWait
  <2> QED BY <2>1, <2>2 DEF AdmissionPending
<1>2. OneAdmission' /\ BundlesConclude' /\ UnbornNotAdmitted'
  BY DEF PendingPart, OneAdmission, BundlesConclude, UnbornNotAdmitted, Admits, RunsWait
<1> QED BY <1>1, <1>2 DEF PendingPart

\* The actions that change runs and no runner, and what they make certifiable.
LEMMA StartRunWaits ==
  ASSUME IInv, PendingPart, RunsStep, NEW r \in RunIds, NEW s \in Commits, NEW i \in Intents,
         StartRun(r, s, i)
  PROVE  RunsWait /\ \A q \in RunIds : Certifiable(q)' => Certifiable(q)
<1>1. /\ runs[r] \in Run /\ runs[r].state = "unborn" /\ runs[r].admitted = "no"
      /\ runs' = [runs EXCEPT ![r] = [@ EXCEPT !.subject = s, !.intent = i,
                                               !.attempt = 1, !.state = "running"]]
  BY DEF StartRun, IInv, TypeOK, PendingPart, UnbornNotAdmitted
<1>2. \A q \in RunIds : q # r => runs'[q] = runs[q]
  BY <1>1 DEF IInv, TypeOK
<1>3. /\ runs'[r].state = "running" /\ runs'[r].admitted = "no"
      /\ runs'[r].verdicts = runs[r].verdicts
  BY <1>1 DEF IInv, TypeOK, Run
<1>4. \A a \in Attempts : runs[r].verdicts[a] = "none"
  BY <1>1 DEF IInv, AttemptsRecorded, Attempts
<1>5. RunsWait
  BY <1>1, <1>2, <1>3 DEF RunsWait, RunsStep, PendingPart, UnbornNotAdmitted
<1>6. ~ Certifiable(r)'
  BY <1>3, <1>4 DEF Certifiable, Terminal
<1> QED BY <1>2, <1>5, <1>6 DEF Certifiable

LEMMA RerunWaits ==
  ASSUME IInv, PendingPart, RunsStep, NEW r \in RunIds, NEW all \in BOOLEAN, Rerun(r, all)
  PROVE  RunsWait /\ \A q \in RunIds : Certifiable(q)' => Certifiable(q)
<1>1. /\ runs[r] \in Run /\ runs[r].state = "completed"
      /\ runs' = [runs EXCEPT ![r] = NextAttempt(runs[r], all)]
  BY DEF Rerun, IInv, TypeOK
<1>2. \A q \in RunIds : q # r => runs'[q] = runs[q]
  BY <1>1 DEF IInv, TypeOK
<1>3. /\ runs'[r].state = "running"
      /\ runs'[r].admitted = "yes" => runs[r].admitted = "yes"
      /\ runs'[r].verdicts = runs[r].verdicts /\ runs'[r].intent = runs[r].intent
  BY <1>1 DEF IInv, TypeOK, Run, NextAttempt
<1>4. RunsWait
  BY <1>1, <1>2, <1>3 DEF RunsWait, RunsStep, PendingPart, UnbornNotAdmitted
<1> QED BY <1>2, <1>3, <1>4 DEF Certifiable

LEMMA CompleteRunWaits ==
  ASSUME IInv, PendingPart, RunsStep, NEW r \in RunIds, NEW v \in Verdicts,
         CompleteRun(r, v)
  PROVE  RunsWait /\ \A q \in RunIds : Certifiable(q)' => Certifiable(q)
<1>1. /\ runs[r] \in Run /\ runs[r].state = "running" /\ runs[r].admitted # "publishing"
      /\ v # "noncertifying" => runs[r].admitted = "yes"
      /\ runs' = [runs EXCEPT ![r] = Concluded(runs[r], v)]
  BY DEF CompleteRun, IInv, TypeOK
<1>2. \A q \in RunIds : q # r => runs'[q] = runs[q]
  BY <1>1 DEF IInv, TypeOK
<1>3. /\ runs'[r].state = "completed" /\ runs'[r].admitted = runs[r].admitted
      /\ runs'[r].intent = runs[r].intent
      /\ runs'[r].verdicts = [runs[r].verdicts EXCEPT ![runs[r].attempt] = v]
  BY <1>1 DEF IInv, TypeOK, Run, Concluded
<1>4. RunsWait
  BY <1>1, <1>2, <1>3 DEF RunsWait, RunsStep, PendingPart, UnbornNotAdmitted
<1>5. ASSUME NEW a \in Attempts, runs'[r].verdicts[a] \in Terminal
      PROVE  runs[r].admitted = "yes" \/ runs[r].verdicts[a] \in Terminal
  BY <1>1, <1>3, <1>5 DEF Run, Terminal
<1>6. Certifiable(r)' => Certifiable(r)
  BY <1>3, <1>5 DEF Certifiable
<1> QED BY <1>2, <1>4, <1>6 DEF Certifiable

LEMMA AdmissionEndsWaits ==
  ASSUME IInv, PendingPart, RunsStep, NEW r \in RunIds,
         RejectAdmission(r) \/ SuppressAdmission(r)
  PROVE  RunsWait /\ \A q \in RunIds : Certifiable(q)' => Certifiable(q)
<1>1. PICK o \in {"yes", "failed"} :
        /\ runs[r] \in Run /\ runs[r].state = "running" /\ runs[r].admitted = "no"
        /\ runs' = [runs EXCEPT ![r].admitted = o]
        /\ o = "yes" => runs[r].intent = "pr"
  BY DEF RejectAdmission, SuppressAdmission, Admitting, IInv, TypeOK
<1>2. \A q \in RunIds : q # r => runs'[q] = runs[q]
  BY <1>1 DEF IInv, TypeOK
<1>3. /\ runs'[r].state = "running" /\ runs'[r].admitted = o
      /\ runs'[r].verdicts = runs[r].verdicts /\ runs'[r].intent = runs[r].intent
  BY <1>1 DEF IInv, TypeOK, Run
<1>4. RunsWait
  BY <1>1, <1>2, <1>3 DEF RunsWait, RunsStep, PendingPart, UnbornNotAdmitted
<1> QED BY <1>1, <1>2, <1>3, <1>4 DEF Certifiable

-----------------------------------------------------------------------------
(* Steps of a runner.                                                      *)

LEMMA AdmitPending ==
  ASSUME IInv, PendingPart, NEW p \in Publishers, NEW r \in RunIds, AdmitExactMain(p, r)
  PROVE  PendingPart' /\ \A q \in RunIds : Certifiable(q)' => Certifiable(q)
<1> DEFINE o == [phase |-> "reading", main |-> main, admits |-> r,
                 proposed |-> Proposal(r, runs[r].attempt, main, runs[r].intent, "pending")]
<1>1. /\ runs[r] \in Run /\ runs[r].state = "running" /\ runs[r].admitted = "no"
      /\ runs[r].subject = main
      /\ publisher' = [publisher EXCEPT ![p] = o]
      /\ runs' = [runs EXCEPT ![r].admitted = "publishing"]
  BY DEF AdmitExactMain, Admitting, IInv, TypeOK
<1>2. /\ o.admits = r /\ o.main = runs[r].subject
      /\ o.proposed = Proposal(r, runs[r].attempt, runs[r].subject, runs[r].intent, "pending")
  BY <1>1
<1> HIDE DEF o
<1>3. /\ publisher'[p] = o
      /\ \A q \in Publishers : q # p => publisher'[q] = publisher[q]
  BY <1>1 DEF IInv, TypeOK
<1>4. /\ \A t \in RunIds : t # r => runs'[t] = runs[t]
      /\ runs'[r].state = "running" /\ runs'[r].admitted = "publishing"
      /\ runs'[r].attempt = runs[r].attempt /\ runs'[r].subject = runs[r].subject
      /\ runs'[r].intent = runs[r].intent /\ runs'[r].verdicts = runs[r].verdicts
  BY <1>1 DEF IInv, TypeOK, Run
<1>5. \A q \in Publishers : ~ Admits(q, r)
  BY <1>1 DEF PendingPart, AdmissionsPending, AdmissionPending
<1>6. r # 0
  BY StatusPublicationAssumption DEF RunIds
<1>7. AdmissionsPending'
  <2> SUFFICES ASSUME NEW q \in Publishers, NEW t \in RunIds, Admits(q, t)'
               PROVE  AdmissionPending(q, t)'
    BY DEF AdmissionsPending
  <2>1. CASE q = p
    BY <1>2, <1>3, <1>4, <2>1 DEF Admits, AdmissionPending
  <2>2. CASE q # p
    <3>1. Admits(q, t) /\ t # r
      BY <1>3, <1>5, <2>2 DEF Admits
    <3>2. AdmissionPending(q, t)
      BY <3>1 DEF PendingPart, AdmissionsPending
    <3> QED BY <1>3, <1>4, <2>2, <3>1, <3>2 DEF AdmissionPending
  <2> QED BY <2>1, <2>2
<1>8. OneAdmission'
  BY <1>2, <1>3, <1>5 DEF PendingPart, OneAdmission, Admits
<1>9. BundlesConclude'
  BY <1>2, <1>3, <1>6 DEF PendingPart, BundlesConclude
<1>10. UnbornNotAdmitted'
  BY <1>4 DEF PendingPart, UnbornNotAdmitted
<1>11. \A q \in RunIds : Certifiable(q)' => Certifiable(q)
  BY <1>4 DEF Certifiable
<1> QED BY <1>7, <1>8, <1>9, <1>10, <1>11 DEF PendingPart

\* A runner that becomes idle, or moves on with what it proposes.
LEMMA RunnerPending ==
  ASSUME IInv, PendingPart, NEW p \in Publishers,
         \A q \in Publishers : q # p => publisher'[q] = publisher[q],
         \/ publisher'[p].admits = 0 /\ BundlesConclude'
         \/ /\ publisher[p] # Idle
            /\ publisher'[p].admits = publisher[p].admits
            /\ publisher'[p].main = publisher[p].main
            /\ publisher'[p].proposed = publisher[p].proposed,
         \A t \in RunIds : runs'[t] = runs[t] \/ (Admits(p, t) /\ publisher'[p].admits = 0),
         \A t \in RunIds : runs'[t].state = runs[t].state
  PROVE  PendingPart'
<1>1. AdmissionsPending'
  <2> SUFFICES ASSUME NEW q \in Publishers, NEW t \in RunIds, Admits(q, t)'
               PROVE  AdmissionPending(q, t)'
    BY DEF AdmissionsPending
  <2>1. Admits(q, t)
    BY DEF Admits
  <2>2. AdmissionPending(q, t)
    BY <2>1 DEF PendingPart, AdmissionsPending
  <2>3. runs'[t] = runs[t]
    BY <2>1 DEF Admits, PendingPart, OneAdmission
  <2>4. publisher'[q].main = publisher[q].main /\ publisher'[q].proposed = publisher[q].proposed
    BY DEF Admits
  <2> QED BY <2>2, <2>3, <2>4 DEF AdmissionPending
<1>2. OneAdmission'
  BY DEF PendingPart, OneAdmission, Admits
<1>3. BundlesConclude'
  BY DEF PendingPart, BundlesConclude
<1>4. UnbornNotAdmitted'
  <2> SUFFICES ASSUME NEW t \in RunIds, runs'[t].state = "unborn"
               PROVE  runs'[t].admitted = "no"
    BY DEF UnbornNotAdmitted
  <2>1. ~ Admits(p, t)
    BY DEF PendingPart, AdmissionsPending, AdmissionPending
  <2> QED BY <2>1 DEF PendingPart, UnbornNotAdmitted
<1> QED BY <1>1, <1>2, <1>3, <1>4 DEF PendingPart

LEMMA SettlePending ==
  ASSUME IInv, PendingPart, NEW p \in Publishers, NEW o \in {"yes", "failed"}, Settle(p, o)
  PROVE  PendingPart'
<1>1. /\ publisher'[p] = Idle
      /\ \A q \in Publishers : q # p => publisher'[q] = publisher[q]
  BY DEF Settle, IInv, TypeOK
<1>2. publisher'[p].admits = 0 /\ BundlesConclude'
  BY <1>1 DEF PendingPart, BundlesConclude, Idle
<1>3. \A t \in RunIds : t # 0
  BY StatusPublicationAssumption DEF RunIds
<1>4. \A t \in RunIds : runs'[t] = runs[t] \/ Admits(p, t)
  BY <1>3 DEF Settle, Admits
<1>5. \A t \in RunIds : runs'[t].state = runs[t].state
  BY SettleRuns DEF OnlyAdmitted, IInv
<1> QED BY <1>1, <1>2, <1>4, <1>5, RunnerPending

LEMMA PublishPending ==
  ASSUME IInv, PendingPart, NEW p \in Publishers, NEW b \in queue, PublishExactMain(p, b)
  PROVE  PendingPart'
<1>1. \A q \in Publishers : q # p => publisher'[q] = publisher[q]
  BY DEF PublishExactMain, IInv, TypeOK
<1>2. publisher'[p].admits = 0 /\ publisher'[p].proposed.conclusion = b.state
  BY DEF PublishExactMain, IInv, TypeOK, Proposal
<1>3. b.state \in Terminal
  BY DEF PublishExactMain, IInv, TypeOK, Bundle, Verdicts, Terminal
<1>4. BundlesConclude'
  BY <1>1, <1>2, <1>3 DEF PendingPart, BundlesConclude
<1>5. runs' = runs
  BY DEF PublishExactMain
<1> QED BY <1>1, <1>2, <1>4, <1>5, RunnerPending

LEMMA AdvancePending ==
  ASSUME IInv, PendingPart, NEW p \in Publishers, publisher[p].phase = "reading",
         publisher' = [publisher EXCEPT ![p].phase = "posting"], runs' = runs
  PROVE  PendingPart'
<1>1. publisher[p] \in Publication /\ publisher[p] # Idle
  BY DEF IInv, TypeOK, Idle
<1>2. /\ publisher'[p].admits = publisher[p].admits /\ publisher'[p].main = publisher[p].main
      /\ publisher'[p].proposed = publisher[p].proposed
      /\ \A q \in Publishers : q # p => publisher'[q] = publisher[q]
  BY <1>1 DEF IInv, TypeOK, Publication
<1>3. /\ \A t \in RunIds : runs'[t] = runs[t] \/ (Admits(p, t) /\ publisher'[p].admits = 0)
      /\ \A t \in RunIds : runs'[t].state = runs[t].state
  OBVIOUS
<1>4. \/ publisher'[p].admits = 0 /\ BundlesConclude'
      \/ /\ publisher[p] # Idle
         /\ publisher'[p].admits = publisher[p].admits
         /\ publisher'[p].main = publisher[p].main
         /\ publisher'[p].proposed = publisher[p].proposed
  BY <1>1, <1>2
<1> QED BY <1>2, <1>3, <1>4, RunnerPending

-----------------------------------------------------------------------------
(* What a run certifies was revoked before.                                *)

LEMMA RevokedSurvives ==
  ASSUME RunsExtend, posted \subseteq posted', NEW r \in RunIds,
         runs[r].state # "unborn", Revoked(r)
  PROVE  Revoked(r)'
  BY DEF Revoked, RunsExtend

LEMMA CertifiableIsBorn ==
  ASSUME IInv, PendingPart, NEW r \in RunIds, Certifiable(r)
  PROVE  runs[r].state # "unborn"
<1> SUFFICES ASSUME runs[r].state = "unborn" PROVE FALSE
  OBVIOUS
<1>1. runs[r].admitted = "no" /\ runs[r].attempt = 0
  BY DEF PendingPart, UnbornNotAdmitted, IInv, AttemptsRecorded
<1>2. \A a \in Attempts : runs[r].verdicts[a] = "none"
  BY <1>1 DEF IInv, AttemptsRecorded, Attempts
<1> QED BY <1>1, <1>2 DEF Certifiable, Terminal

LEMMA CertifiablePreserved ==
  ASSUME IInv, PendingPart, CertifiableIsRevoked, RunsExtend, posted \subseteq posted',
         \A r \in RunIds : Certifiable(r)' => Certifiable(r) \/ Revoked(r)'
  PROVE  CertifiableIsRevoked'
  BY CertifiableIsBorn, RevokedSurvives DEF CertifiableIsRevoked

\* A runner that settles makes only the run it admits certifiable.
LEMMA SettleCertifiable ==
  ASSUME IInv, NEW p \in Publishers, NEW o \in {"yes", "failed"}, Settle(p, o),
         NEW r \in RunIds, Certifiable(r)'
  PROVE  Certifiable(r) \/ (o = "yes" /\ Admits(p, r))
<1>1. /\ runs'[r].intent = runs[r].intent /\ runs'[r].verdicts = runs[r].verdicts
  BY SettleRuns DEF OnlyAdmitted, IInv
<1>2. r # 0
  BY StatusPublicationAssumption DEF RunIds
<1>3. CASE r # publisher[p].admits
  <2>1. runs'[r] = runs[r]
    BY <1>3 DEF Settle
  <2> QED BY <2>1 DEF Certifiable
<1>4. CASE r = publisher[p].admits
  <2>1. runs'[r].admitted = o
    BY <1>4 DEF Settle, IInv, TypeOK, Run
  <2> QED BY <1>1, <1>2, <1>4, <2>1 DEF Certifiable, Admits
<1> QED BY <1>3, <1>4

LEMMA ProposalFields ==
  ASSUME NEW r, NEW a, NEW s, NEW i, NEW c
  PROVE  /\ Proposal(r, a, s, i, c).ordinal = RunOrdinal(r, a)
         /\ Proposal(r, a, s, i, c).attempt = a
         /\ Proposal(r, a, s, i, c).subject = s
         /\ Proposal(r, a, s, i, c).context = StatusContextFor(i)
         /\ Proposal(r, a, s, i, c).conclusion = c
  BY DEF Proposal

LEMMA LaterAttempt ==
  ASSUME NEW r \in RunIds, NEW a \in Attempts, NEW b \in Attempts, a <= b
  PROVE  RunOrdinal(r, b) >= RunOrdinal(r, a)
  BY StatusPublicationAssumption
  DEF RunOrdinal, AdmissionOrdinal, Radix, RunIds, Attempts

LEMMA LaterRun ==
  ASSUME NEW r \in RunIds, NEW a \in Attempts, NEW q \in RunIds, NEW b \in Attempts,
         RunOrdinal(r, a) < RunOrdinal(q, b)
  PROVE  \/ q = r /\ a < b
         \/ \A c \in Attempts : RunOrdinal(q, b) > RunOrdinal(r, c)
  BY StatusPublicationAssumption
  DEF RunOrdinal, AdmissionOrdinal, Radix, RunIds, Attempts

\* An admission whose pending status is posted is revoked.
LEMMA PendingRevokes ==
  ASSUME IInv, NEW p \in Publishers, NEW r \in RunIds, AdmissionPending(p, r),
         NEW f, f \in posted', f.context = publisher[p].proposed.context,
         f.subject = publisher[p].proposed.subject,
         f.ordinal = publisher[p].proposed.ordinal, f.conclusion = "pending",
         runs'[r].intent = runs[r].intent, runs'[r].subject = runs[r].subject
  PROVE  Revoked(r)'
<1>1. 1 \in Attempts /\ runs[r].attempt \in Attempts /\ 1 <= runs[r].attempt
  BY StatusPublicationAssumption
  DEF AdmissionPending, IInv, AttemptsRecorded, Attempts
<1>2. f.ordinal >= RunOrdinal(r, 1)
  BY <1>1, LaterAttempt, ProposalFields DEF AdmissionPending
<1>3. f.context = StatusContextFor(runs[r].intent) /\ f.subject = runs[r].subject
  BY ProposalFields DEF AdmissionPending
<1> QED BY <1>2, <1>3 DEF Revoked

\* An admission that was suppressed met its own status, or one above it.
LEMMA SuppressionRevokes ==
  ASSUME IInv, NEW p \in Publishers, NEW r \in RunIds, AdmissionPending(p, r),
         NEW f \in CurrentStatus(StatusesOf(publisher[p].proposed)),
         LET reason == DecideStatusPublication(publisher[p].proposed, f, publisher[p].main)
         IN  ~ Publishes(reason) /\ ~ Raises(reason),
         posted' = posted,
         runs'[r].intent = runs[r].intent, runs'[r].subject = runs[r].subject
  PROVE  Revoked(r)'
<1> DEFINE o == publisher[p].proposed
           a == runs[r].attempt
           S == StatusesOf(o)
<1>1. /\ a \in Attempts /\ runs[r].state = "running"
      /\ o.ordinal = RunOrdinal(r, a) /\ o.attempt = a /\ o.conclusion = "pending"
      /\ o.context = StatusContextFor(runs[r].intent) /\ o.subject = runs[r].subject
      /\ publisher[p].main = o.subject
  BY ProposalFields DEF AdmissionPending, IInv, AttemptsRecorded
<1>2. S \subseteq posted /\ S \in SUBSET Statuses /\ \A e \in S : SameIdentity(e, o)
  BY DEF StatusesOf, IInv, TypeOK
<1>3. f # NoStatus /\ f \in S
  <2>1. S # {}
    BY <1>1 DEF CurrentStatus, DecideStatusPublication, Publishes
  <2>2. f \in S
    BY <1>2, <2>1, CurrentIsLatest
  <2> QED BY <1>2, <2>2 DEF Statuses, Observation, NoStatus, PublishedContexts,
                            ExactMain, BoundedWorkitem
<1>4. f \in posted /\ f.context = o.context /\ f.subject = o.subject
  BY <1>2, <1>3 DEF SameIdentity
<1>5. \/ Precedes(o, f)
      \/ ~ Precedes(f, o) /\ f.conclusion = "pending"
  BY <1>1, <1>2, <1>3
  DEF DecideStatusPublication, Publishes, Raises, SameIdentity
<1>6. PICK q \in RunIds, b \in Attempts : Describes(f, q, b)
  BY <1>4 DEF IInv, PostedEvidenced, Evidenced
<1>7. CASE f.ordinal = o.ordinal
  <2>1. q = r /\ b = a
    <3>1. RunOrdinal(q, b) = RunOrdinal(r, a)
      BY <1>1, <1>6, <1>7 DEF Describes
    <3> QED BY <1>1, <3>1, RunOrdinalInjective
  <2>2. f.attempt = o.attempt
    BY <1>1, <1>6, <2>1 DEF Describes
  <2>3. f.conclusion = "pending"
    <3>1. o.ordinal \in Nat /\ o.attempt \in Nat
      BY <1>1, RunOrdinalPositive DEF Attempts
    <3>2. ~ Precedes(o, f)
      BY <1>7, <2>2, <3>1 DEF Precedes
    <3> QED BY <1>5, <3>2
  <2> QED BY <1>4, <1>7, <2>3, PendingRevokes
<1>8. CASE f.ordinal # o.ordinal
  <2>1. f.ordinal \in Nat /\ o.ordinal \in Nat
    BY <1>1, <1>6, RunOrdinalPositive DEF Describes
  <2>2. o.ordinal < f.ordinal
    BY <1>5, <1>8, <2>1 DEF Precedes
  <2>3. \/ q = r /\ a < b
        \/ \A c \in Attempts : f.ordinal > RunOrdinal(r, c)
    BY <1>1, <1>6, <2>2, LaterRun DEF Describes
  <2>4. f.conclusion = "pending" \/ \A c \in Attempts : f.ordinal > RunOrdinal(r, c)
    <3>1. CASE q = r /\ a < b
      <4>1. runs[r].verdicts[b] = "none"
        BY <1>1, <3>1 DEF IInv, AttemptsRecorded
      <4>2. f.conclusion \notin Terminal
        BY <1>6, <3>1, <4>1 DEF Describes, Terminal
      <4> QED BY <1>2, <1>3, <4>2 DEF Statuses, Observation, Conclusions, Terminal
    <3> QED BY <2>3, <3>1
  <2>5. f.ordinal >= RunOrdinal(r, 1)
    <3>1. 1 \in Attempts /\ 1 <= a
      BY <1>1, StatusPublicationAssumption DEF Attempts
    <3>2. RunOrdinal(r, 1) \in Nat /\ RunOrdinal(r, a) >= RunOrdinal(r, 1)
      BY <1>1, <3>1, LaterAttempt, RunOrdinalPositive
    <3> QED BY <1>1, <2>1, <2>2, <3>2
  <2> QED BY <1>1, <1>4, <2>4, <2>5 DEF Revoked
<1> QED BY <1>7, <1>8

-----------------------------------------------------------------------------
(* The invariant.                                                          *)

AdmissionParts == PendingPart' /\ CertifiableIsRevoked'

LEMMA ElsewhereStep ==
  ASSUME AdmissionInv, RunsStep, RunsWait, UNCHANGED <<publisher, posted>>,
         \A q \in RunIds : Certifiable(q)' => Certifiable(q)
  PROVE  AdmissionParts
<1>1. PendingPart'
  BY ElsewherePending DEF AdmissionInv
<1>2. CertifiableIsRevoked'
  BY CertifiablePreserved DEF AdmissionInv, RunsStep
<1> QED BY <1>1, <1>2 DEF AdmissionParts

\* A runner that fails makes nothing certifiable.
LEMMA FailedSettleStep ==
  ASSUME AdmissionInv, RunsStep, posted \subseteq posted',
         NEW p \in Publishers, Settle(p, "failed")
  PROVE  AdmissionParts
<1>1. PendingPart'
  BY SettlePending DEF AdmissionInv
<1>2. \A r \in RunIds : Certifiable(r)' => Certifiable(r)
  BY SettleCertifiable DEF AdmissionInv
<1>3. CertifiableIsRevoked'
  BY <1>2, CertifiablePreserved DEF AdmissionInv, RunsStep
<1> QED BY <1>1, <1>3 DEF AdmissionParts

\* A runner that succeeds has posted what it proposes, or was suppressed.
LEMMA SettledStep ==
  ASSUME AdmissionInv, RunsStep, posted \subseteq posted',
         NEW p \in Publishers, Settle(p, "yes"),
         \A r \in RunIds : AdmissionPending(p, r) => Revoked(r)'
  PROVE  AdmissionParts
<1>1. PendingPart'
  BY SettlePending DEF AdmissionInv
<1>2. ASSUME NEW r \in RunIds, Certifiable(r)' PROVE Certifiable(r) \/ Revoked(r)'
  BY <1>2, SettleCertifiable DEF AdmissionInv, PendingPart, AdmissionsPending
<1>3. CertifiableIsRevoked'
  BY <1>1, <1>2, CertifiablePreserved DEF AdmissionInv, RunsStep
<1> QED BY <1>1, <1>3 DEF AdmissionParts

LEMMA SettleKeepsSubject ==
  ASSUME IInv, NEW p \in Publishers, NEW o \in {"yes", "failed"}, Settle(p, o),
         NEW r \in RunIds
  PROVE  runs'[r].intent = runs[r].intent /\ runs'[r].subject = runs[r].subject
  BY SettleRuns DEF OnlyAdmitted, IInv

LEMMA PostAdmissionStep ==
  ASSUME AdmissionInv, RunsStep, NEW p \in Publishers, PostStatus(p)
  PROVE  AdmissionParts
<1> DEFINE o == publisher[p].proposed
<1>1. posted' = posted \cup {o} /\ Settle(p, "yes")
  BY DEF PostStatus, AcceptStatus
<1>2. ASSUME NEW r \in RunIds, AdmissionPending(p, r) PROVE Revoked(r)'
  <2>1. o.conclusion = "pending"
    BY <1>2, ProposalFields DEF AdmissionPending
  <2>2. runs'[r].intent = runs[r].intent /\ runs'[r].subject = runs[r].subject
    BY <1>1, SettleKeepsSubject DEF AdmissionInv
  <2>3. o \in posted'
    BY <1>1
  <2> QED BY <1>2, <2>1, <2>2, <2>3, PendingRevokes DEF AdmissionInv
<1> QED BY <1>1, <1>2, SettledStep

LEMMA ReadAdmissionStep ==
  ASSUME AdmissionInv, RunsStep, NEW p \in Publishers, ReadAndDecide(p)
  PROVE  AdmissionParts
<1> DEFINE o == publisher[p].proposed
<1>1. posted' = posted /\ publisher[p].phase = "reading"
  BY DEF ReadAndDecide
<1>2. CASE publisher' = [publisher EXCEPT ![p].phase = "posting"] /\ UNCHANGED runs
  <2>1. PendingPart'
    BY <1>1, <1>2, AdvancePending DEF AdmissionInv
  <2>2. \A r \in RunIds : Certifiable(r)' => Certifiable(r)
    BY <1>2 DEF Certifiable
  <2>3. CertifiableIsRevoked'
    BY <1>1, <2>2, CertifiablePreserved DEF AdmissionInv, RunsStep
  <2> QED BY <2>1, <2>3 DEF AdmissionParts
<1>3. CASE Settle(p, "failed")
  BY <1>1, <1>3, FailedSettleStep
<1>4. ASSUME NEW current \in CurrentStatus(StatusesOf(o)),
             LET reason == DecideStatusPublication(o, current, publisher[p].main)
             IN  ~ Publishes(reason) /\ ~ Raises(reason),
             Settle(p, "yes")
      PROVE  AdmissionParts
  <2>1. ASSUME NEW r \in RunIds, AdmissionPending(p, r) PROVE Revoked(r)'
    <3>1. runs'[r].intent = runs[r].intent /\ runs'[r].subject = runs[r].subject
      BY <1>4, SettleKeepsSubject DEF AdmissionInv
    <3> QED BY <1>1, <1>4, <2>1, <3>1, SuppressionRevokes DEF AdmissionInv
  <2> QED BY <1>1, <1>4, <2>1, SettledStep
<1>5. \/ Settle(p, "failed")
      \/ publisher' = [publisher EXCEPT ![p].phase = "posting"] /\ UNCHANGED runs
      \/ \E current \in CurrentStatus(StatusesOf(o)) :
           /\ LET reason == DecideStatusPublication(o, current, publisher[p].main)
              IN  ~ Publishes(reason) /\ ~ Raises(reason)
           /\ Settle(p, "yes")
  BY DEF ReadAndDecide
<1> QED BY <1>2, <1>3, <1>4, <1>5

LEMMA AdmissionStep ==
  ASSUME AdmissionInv, [Next]_vars PROVE AdmissionParts
<1>1. RunsStep
  BY EveryRunsStep DEF AdmissionInv, IInv
<1>2. IInv /\ PendingPart
  BY DEF AdmissionInv
<1>3. ASSUME NEW r \in RunIds,
             \/ \E s \in Commits, i \in Intents : StartRun(r, s, i)
             \/ \E all \in BOOLEAN : Rerun(r, all)
             \/ \E v \in Verdicts : CompleteRun(r, v)
             \/ RejectAdmission(r) \/ SuppressAdmission(r)
      PROVE  AdmissionParts
  <2>1. RunsWait /\ \A q \in RunIds : Certifiable(q)' => Certifiable(q)
    BY <1>1, <1>2, <1>3, StartRunWaits, RerunWaits, CompleteRunWaits, AdmissionEndsWaits
  <2>2. UNCHANGED <<publisher, posted>>
    BY <1>3 DEF StartRun, Rerun, CompleteRun, RejectAdmission, SuppressAdmission
  <2> QED BY <1>1, <2>1, <2>2, ElsewhereStep
<1>4. ASSUME \/ MoveMain \/ UNCHANGED vars
             \/ \E r \in RunIds, t \in Attempts : FinalizeExactMain(r, t)
             \/ \E b \in queue : SuppressBundle(b)
             \/ \E b \in bundles : RetryPublication(b)
      PROVE  AdmissionParts
  <2>1. UNCHANGED <<runs, publisher, posted>>
    BY <1>4 DEF vars, MoveMain, FinalizeExactMain, SuppressBundle, RetryPublication
  <2>2. RunsWait /\ \A q \in RunIds : Certifiable(q)' => Certifiable(q)
    BY <1>1, <1>2, <2>1
    DEF RunsWait, RunsStep, PendingPart, UnbornNotAdmitted, Certifiable
  <2> QED BY <1>1, <2>1, <2>2, ElsewhereStep
<1>5. ASSUME NEW p \in Publishers, NEW r \in RunIds, AdmitExactMain(p, r)
      PROVE  AdmissionParts
  <2>1. PendingPart' /\ \A q \in RunIds : Certifiable(q)' => Certifiable(q)
    BY <1>2, <1>5, AdmitPending
  <2>2. posted' = posted
    BY <1>5 DEF AdmitExactMain
  <2>3. CertifiableIsRevoked'
    BY <1>1, <2>1, <2>2, CertifiablePreserved DEF AdmissionInv, RunsStep
  <2> QED BY <2>1, <2>3 DEF AdmissionParts
<1>6. ASSUME NEW p \in Publishers, NEW b \in queue, PublishExactMain(p, b)
      PROVE  AdmissionParts
  <2>1. PendingPart' /\ posted' = posted /\ runs' = runs
    BY <1>2, <1>6, PublishPending DEF PublishExactMain
  <2>2. \A q \in RunIds : Certifiable(q)' => Certifiable(q)
    BY <2>1 DEF Certifiable
  <2>3. CertifiableIsRevoked'
    BY <1>1, <2>1, <2>2, CertifiablePreserved DEF AdmissionInv, RunsStep
  <2> QED BY <2>1, <2>3 DEF AdmissionParts
<1>7. ASSUME NEW p \in Publishers, LoseAnswer(p) \/ LosePublisher(p)
      PROVE  AdmissionParts
  <2>1. Settle(p, "failed") /\ posted \subseteq posted'
    BY <1>7 DEF LoseAnswer, LosePublisher, AcceptStatus
  <2> QED BY <1>1, <2>1, FailedSettleStep
<1>8. ASSUME NEW p \in Publishers, ReadAndDecide(p) \/ PostStatus(p)
      PROVE  AdmissionParts
  BY <1>1, <1>8, ReadAdmissionStep, PostAdmissionStep
<1> QED BY <1>3, <1>4, <1>5, <1>6, <1>7, <1>8 DEF Next

LEMMA AdmissionInvariant == Spec => []AdmissionInv
<1>1. Init => AdmissionInv
  <2> SUFFICES ASSUME Init PROVE AdmissionInv
    OBVIOUS
  <2>1. PendingPart
    BY DEF Init, PendingPart, AdmissionsPending, OneAdmission, BundlesConclude,
           UnbornNotAdmitted, Admits, Idle, UnbornRun
  <2>2. CertifiableIsRevoked
    BY DEF Init, CertifiableIsRevoked, Certifiable, UnbornRun, Terminal
  <2> QED BY <2>1, <2>2, InitEstablishes DEF AdmissionInv
<1>2. AdmissionInv /\ [Next]_vars => AdmissionInv'
  BY AdmissionStep, StepPreserves DEF AdmissionInv, AdmissionParts
<1> QED BY <1>1, <1>2, PTL DEF Spec

-----------------------------------------------------------------------------
(* The theorems.                                                           *)

\* A commit carries no two terminal statuses of one authority, so that reading
\* its current status never raises.
LEMMA NothingConflicts ==
  ASSUME IInv, NEW S \in SUBSET posted PROVE ~ Conflicting(S)
<1>1. S \in SUBSET Statuses
  BY DEF IInv, TypeOK
<1> DEFINE T == TerminalConclusions(Latest(S))
<1>2. \A c, d \in T : c = d
  <2> SUFFICES ASSUME NEW e \in Latest(S), NEW f \in Latest(S),
                      e.conclusion \in Terminal, f.conclusion \in Terminal
               PROVE  e.conclusion = f.conclusion
    BY DEF TerminalConclusions
  <2>1. e \in S /\ f \in S /\ ~ Precedes(e, f) /\ ~ Precedes(f, e)
    BY DEF Latest
  <2>2. SameOrder(e, f)
    BY <1>1, <2>1, StatusOrder
  <2> QED BY <2>1, <2>2, OneConclusionPerAuthority DEF IInv
<1>3. CASE T = {}
  BY <1>3, FS_EmptySet DEF Conflicting
<1>4. CASE T # {}
  <2>1. PICK c : T = {c}
    BY <1>2, <1>4
  <2>2. Cardinality(T) = 1
    BY <2>1, FS_Singleton
  <2> QED BY <2>2 DEF Conflicting
<1> QED BY <1>3, <1>4

\* No decision meets an equal authority with another conclusion.
LEMMA NothingRaises ==
  ASSUME AdmissionInv, NEW p \in Publishers, publisher[p].phase = "reading",
         NEW f \in CurrentStatus(StatusesOf(publisher[p].proposed))
  PROVE  ~ Raises(DecideStatusPublication(publisher[p].proposed, f, publisher[p].main))
<1> DEFINE o == publisher[p].proposed
           S == StatusesOf(o)
<1>1. publisher[p] \in Publication /\ publisher[p] # Idle
  BY DEF AdmissionInv, IInv, TypeOK, Idle
<1>2. S \in SUBSET Statuses /\ S \subseteq posted /\ o \in Statuses
  BY <1>1 DEF AdmissionInv, IInv, TypeOK, StatusesOf, Publication
<1> SUFFICES ASSUME Raises(DecideStatusPublication(o, f, publisher[p].main)) PROVE FALSE
  OBVIOUS
<1>3. /\ f # NoStatus /\ ~ Precedes(o, f) /\ ~ Precedes(f, o)
      /\ o.conclusion # f.conclusion /\ f.conclusion # "pending"
  BY DEF DecideStatusPublication, Raises
<1>4. f \in S
  BY <1>2, <1>3, CurrentIsLatest DEF CurrentStatus
<1>5. SameOrder(o, f) /\ f.conclusion \in Terminal
  BY <1>2, <1>3, <1>4, StatusOrder
  DEF Statuses, Observation, Conclusions, Terminal
<1>6. PICK r \in RunIds, a \in Attempts : Describes(f, r, a)
  BY <1>2, <1>4 DEF AdmissionInv, IInv, PostedEvidenced, Evidenced
<1>7. PICK q \in RunIds, b \in Attempts : Describes(o, q, b)
  BY <1>1 DEF AdmissionInv, IInv, PublicationsEvidenced, Evidenced
<1>8. q = r /\ b = a
  <2>1. RunOrdinal(q, b) = RunOrdinal(r, a)
    BY <1>5, <1>6, <1>7 DEF Describes, SameOrder
  <2> QED BY <2>1, RunOrdinalInjective
<1>9. runs[r].verdicts[a] = f.conclusion
  BY <1>5, <1>6 DEF Describes
<1>10. CASE publisher[p].admits = 0
  <2>1. o.conclusion \in Terminal
    BY <1>1, <1>10 DEF AdmissionInv, PendingPart, BundlesConclude
  <2> QED BY <1>3, <1>7, <1>8, <1>9, <2>1 DEF Describes
<1>11. CASE publisher[p].admits # 0
  <2>1. PICK t \in RunIds : Admits(p, t)
    BY <1>1, <1>11 DEF Admits, Publication
  <2>2. /\ runs[t].state = "running" /\ runs[t].attempt \in Attempts
        /\ o.ordinal = RunOrdinal(t, runs[t].attempt)
    BY <2>1, ProposalFields
    DEF AdmissionInv, PendingPart, AdmissionsPending, AdmissionPending, IInv, AttemptsRecorded
  <2>3. t = r /\ runs[t].attempt = a
    <3>1. RunOrdinal(t, runs[t].attempt) = RunOrdinal(q, b)
      BY <1>7, <2>2 DEF Describes
    <3> QED BY <1>8, <2>2, <3>1, RunOrdinalInjective
  <2>4. runs[r].verdicts[a] = "none"
    BY <2>2, <2>3 DEF AdmissionInv, IInv, AttemptsRecorded
  <2> QED BY <1>5, <1>9, <2>4 DEF Terminal
<1> QED BY <1>10, <1>11

(***************************************************************************)
(* No publisher ever meets the conflict on which publish_observation and   *)
(* the reader of commit statuses raise, so no commit is left without any   *)
(* further status, whatever is re-run, lost or retried.                    *)
(***************************************************************************)
THEOREM NeverWedgedHolds == Spec => []NeverWedged
<1>1. ASSUME AdmissionInv PROVE NeverWedged
  <2> SUFFICES ASSUME NEW p \in Publishers, publisher[p].phase = "reading"
               PROVE  LET S == StatusesOf(publisher[p].proposed)
                      IN  /\ ~ Conflicting(S)
                          /\ \A current \in CurrentStatus(S) :
                               ~ Raises(DecideStatusPublication(publisher[p].proposed,
                                                                current, publisher[p].main))
    BY DEF NeverWedged
  <2>1. ~ Conflicting(StatusesOf(publisher[p].proposed))
    BY <1>1, NothingConflicts DEF AdmissionInv, StatusesOf
  <2> QED BY <1>1, <2>1, NothingRaises
<1> QED BY <1>1, AdmissionInvariant, PTL

(***************************************************************************)
(* A run certifies only a commit whose older status was revoked:           *)
(* admit_exact_main posts the pending status of the run first, or finds    *)
(* one of higher authority.                                                *)
(***************************************************************************)
THEOREM AdmissionRevokesFirstHolds == Spec => []AdmissionRevokesFirst
<1>1. ASSUME AdmissionInv PROVE AdmissionRevokesFirst
  <2> SUFFICES ASSUME NEW e \in posted, e.conclusion \in Terminal
               PROVE  \E r \in RunIds, f \in posted :
                        /\ e.ordinal = RunOrdinal(r, e.attempt)
                        /\ SameIdentity(e, f)
                        /\ f.ordinal >= RunOrdinal(r, 1)
                        /\ f.conclusion = "pending" \/ Precedes(e, f)
    BY DEF AdmissionRevokesFirst
  <2>1. PICK r \in RunIds, a \in Attempts : Describes(e, r, a)
    BY <1>1 DEF AdmissionInv, IInv, PostedEvidenced, Evidenced
  <2>2. Revoked(r)
    BY <1>1, <2>1 DEF AdmissionInv, CertifiableIsRevoked, Certifiable, Describes
  <2>3. PICK f \in posted :
          /\ f.context = StatusContextFor(runs[r].intent) /\ f.subject = runs[r].subject
          /\ f.ordinal >= RunOrdinal(r, 1)
          /\ f.conclusion = "pending" \/ \A c \in Attempts : f.ordinal > RunOrdinal(r, c)
    BY <2>2 DEF Revoked
  <2>4. SameIdentity(e, f) /\ e.ordinal = RunOrdinal(r, e.attempt)
    BY <2>1, <2>3 DEF Describes, SameIdentity
  <2>5. f.conclusion = "pending" \/ Precedes(e, f)
    <3>1. e.ordinal \in Nat /\ f.ordinal \in Nat
      BY <1>1 DEF AdmissionInv, IInv, TypeOK, Statuses, Observation
    <3> QED BY <2>1, <2>3, <3>1 DEF Describes, Precedes
  <2> QED BY <2>3, <2>4, <2>5
<1> QED BY <1>1, AdmissionInvariant, PTL
=============================================================================

---------------------- MODULE StatusPublicationProofs ----------------------
(***************************************************************************)
(* Proofs about StatusPublication, for every number of commits, runs,      *)
(* attempts below the radix, runners, losses and retries.                  *)
(***************************************************************************)
EXTENDS StatusPublication, TLAPS

(***************************************************************************)
(* The admission ordinal.                                                  *)
(***************************************************************************)

\* The ordinal packs its tuple without loss and orders as the tuple does: this
\* is what the bound of 1000 on attempts and sequences in admission_ordinal buys.
THEOREM OrdinalIsLexicographic ==
  ASSUME NEW r1, NEW a1, NEW s1, NEW r2, NEW a2, NEW s2,
         OrdinalAdmissible(r1, a1, s1), OrdinalAdmissible(r2, a2, s2)
  PROVE  AdmissionOrdinal(r1, a1, s1) < AdmissionOrdinal(r2, a2, s2)
         <=> \/ r1 < r2
             \/ r1 = r2 /\ a1 < a2
             \/ r1 = r2 /\ a1 = a2 /\ s1 < s2
  BY DEF OrdinalAdmissible, AdmissionOrdinal, Radix

\* Distinct attempts of distinct runs never share an ordinal.
LEMMA RunOrdinalInjective ==
  ASSUME NEW r1 \in RunIds, NEW a1 \in Attempts, NEW r2 \in RunIds, NEW a2 \in Attempts,
         RunOrdinal(r1, a1) = RunOrdinal(r2, a2)
  PROVE  r1 = r2 /\ a1 = a2
  BY StatusPublicationAssumption
  DEF RunOrdinal, AdmissionOrdinal, Radix, RunIds, Attempts

LEMMA RunOrdinalPositive ==
  ASSUME NEW r \in RunIds, NEW a \in Attempts
  PROVE  RunOrdinal(r, a) \in Nat \ {0}
  BY StatusPublicationAssumption
  DEF RunOrdinal, AdmissionOrdinal, Radix, RunIds, Attempts

LEMMA ProposalType ==
  ASSUME NEW r \in RunIds, NEW a \in Attempts, NEW s \in Commits, NEW i \in Intents,
         NEW c \in Conclusions
  PROVE  Proposal(r, a, s, i, c) \in Statuses
  BY RunOrdinalPositive, StatusPublicationAssumption
  DEF Proposal, Statuses, Observation, StatusContextFor, PublishedContexts, Attempts

(***************************************************************************)
(* The inductive invariant.  Its parts say that the provider keeps what an *)
(* attempt concluded, and that a bundle, a publication in flight and a     *)
(* posted status each describe one such attempt.                           *)
(***************************************************************************)
AttemptsRecorded ==
  \A r \in RunIds :
    /\ runs[r].state # "unborn" =>
         /\ runs[r].attempt \in Attempts
         /\ runs[r].subject \in Commits
         /\ runs[r].intent \in Intents
    /\ runs[r].state = "unborn" => runs[r].attempt = 0
    /\ \A a \in Attempts :
         a > runs[r].attempt \/ (a = runs[r].attempt /\ runs[r].state # "completed")
           => runs[r].verdicts[a] = "none"

\* Status `e` describes attempt `a` of run `r`.
Describes(e, r, a) ==
  /\ e.ordinal = RunOrdinal(r, a) /\ e.attempt = a
  /\ runs[r].state # "unborn"
  /\ runs[r].subject = e.subject /\ runs[r].intent # "pr"
  /\ StatusContextFor(runs[r].intent) = e.context
  /\ e.conclusion \in Terminal => runs[r].verdicts[a] = e.conclusion

Evidenced(e) == \E r \in RunIds, a \in Attempts : Describes(e, r, a)

BundlesEvidenced ==
  \A b \in bundles :
    /\ runs[b.run].state # "unborn"
    /\ runs[b.run].subject = b.subject
    /\ runs[b.run].intent = b.intent
    /\ b.state \in Terminal =>
         runs[b.run].verdicts[b.attempt] = b.state /\ b.intent # "pr"

PublicationsEvidenced ==
  \A p \in Publishers : publisher[p] # Idle => Evidenced(publisher[p].proposed)

PostedEvidenced == \A e \in posted : Evidenced(e)

IInv == /\ TypeOK /\ AttemptsRecorded /\ BundlesEvidenced
        /\ PublicationsEvidenced /\ PostedEvidenced

(***************************************************************************)
(* How a step may change the provider's runs.                              *)
(***************************************************************************)

\* Nothing a status can rely on is taken back.
RunsExtend ==
  \A r \in RunIds : runs[r].state # "unborn" =>
    /\ runs'[r].state # "unborn"
    /\ runs'[r].subject = runs[r].subject
    /\ runs'[r].intent = runs[r].intent
    /\ \A a \in Attempts :
         runs[r].verdicts[a] # "none" => runs'[r].verdicts[a] = runs[r].verdicts[a]

\* Only the outcome of admit jobs changes.
OnlyAdmitted ==
  /\ runs' \in [RunIds -> Run]
  /\ \A r \in RunIds :
       /\ runs'[r].subject = runs[r].subject /\ runs'[r].intent = runs[r].intent
       /\ runs'[r].attempt = runs[r].attempt /\ runs'[r].state = runs[r].state
       /\ runs'[r].verdicts = runs[r].verdicts

RunsStep == runs' \in [RunIds -> Run] /\ AttemptsRecorded' /\ RunsExtend

LEMMA OnlyAdmittedSuffices ==
  ASSUME AttemptsRecorded, OnlyAdmitted PROVE RunsStep
  BY DEF AttemptsRecorded, OnlyAdmitted, RunsStep, RunsExtend

LEMMA UnchangedRunsSuffices ==
  ASSUME TypeOK, AttemptsRecorded, UNCHANGED runs PROVE RunsStep
  BY DEF TypeOK, AttemptsRecorded, RunsStep, RunsExtend

LEMMA SettleRuns ==
  ASSUME TypeOK, NEW p \in Publishers, NEW o \in {"yes", "failed"}, Settle(p, o)
  PROVE  OnlyAdmitted
<1>1. ASSUME NEW r \in RunIds
      PROVE  /\ runs'[r] \in Run
             /\ runs'[r].subject = runs[r].subject /\ runs'[r].intent = runs[r].intent
             /\ runs'[r].attempt = runs[r].attempt /\ runs'[r].state = runs[r].state
             /\ runs'[r].verdicts = runs[r].verdicts
  <2>1. runs[r] \in Run
    BY DEF TypeOK
  <2>2. CASE r = publisher[p].admits
    <3>1. runs'[r] = [runs[r] EXCEPT !.admitted = o]
      BY <2>2 DEF Settle
    <3> QED BY <2>1, <3>1 DEF Run
  <2>3. CASE r # publisher[p].admits
    BY <2>1, <2>3 DEF Settle
  <2> QED BY <2>2, <2>3
<1>2. runs' \in [RunIds -> Run]
  BY <1>1 DEF Settle
<1> QED BY <1>1, <1>2 DEF OnlyAdmitted

LEMMA StartRunStep ==
  ASSUME TypeOK, AttemptsRecorded,
         NEW r \in RunIds, NEW s \in Commits, NEW i \in Intents, StartRun(r, s, i)
  PROVE  RunsStep
<1>1. /\ runs[r] \in Run
      /\ runs' = [runs EXCEPT ![r] = [@ EXCEPT !.subject = s, !.intent = i,
                                               !.attempt = 1, !.state = "running"]]
      /\ runs[r].state = "unborn"
  BY DEF StartRun, TypeOK
<1>2. 1 \in Attempts /\ 1 \in 0 .. MaxAttempts
  BY StatusPublicationAssumption DEF Attempts
<1>3. runs' \in [RunIds -> Run]
  BY <1>1, <1>2 DEF TypeOK, Run
<1>4. \A q \in RunIds : q # r => runs'[q] = runs[q]
  BY <1>1 DEF TypeOK
<1>5. /\ runs'[r].subject = s /\ runs'[r].intent = i /\ runs'[r].attempt = 1
      /\ runs'[r].state = "running" /\ runs'[r].verdicts = runs[r].verdicts
  BY <1>1 DEF TypeOK, Run
<1>6. \A a \in Attempts : runs[r].verdicts[a] = "none"
  BY <1>1 DEF AttemptsRecorded, Attempts
<1> QED
  BY <1>1, <1>2, <1>3, <1>4, <1>5, <1>6 DEF RunsStep, AttemptsRecorded, RunsExtend

LEMMA RerunStep ==
  ASSUME TypeOK, AttemptsRecorded, NEW r \in RunIds, NEW all \in BOOLEAN, Rerun(r, all)
  PROVE  RunsStep
<1> DEFINE next == NextAttempt(runs[r], all)
<1>1. /\ runs[r] \in Run
      /\ runs' = [runs EXCEPT ![r] = next]
      /\ runs[r].state = "completed" /\ runs[r].attempt < MaxAttempts
  BY DEF Rerun, TypeOK
<1>2. runs[r].attempt \in Attempts /\ runs[r].attempt + 1 \in Attempts
      /\ runs[r].attempt + 1 \in 0 .. MaxAttempts
  BY <1>1, StatusPublicationAssumption DEF Attempts, AttemptsRecorded
<1> DEFINE admitted == IF all \/ runs[r].admitted # "yes" THEN "no" ELSE "yes"
<1>a. admitted \in {"no", "publishing", "yes", "failed"}
  OBVIOUS
<1>b. next = [runs[r] EXCEPT !.attempt = runs[r].attempt + 1, !.state = "running",
                             !.admitted = admitted]
  BY DEF NextAttempt
<1> HIDE DEF admitted, next
<1>3. /\ next.subject = runs[r].subject /\ next.intent = runs[r].intent
      /\ next.attempt = runs[r].attempt + 1 /\ next.state = "running"
      /\ next.verdicts = runs[r].verdicts
      /\ next \in Run
  BY <1>1, <1>2, <1>a, <1>b DEF Run
<1>4. runs' \in [RunIds -> Run] /\ runs'[r] = next
      /\ \A q \in RunIds : q # r => runs'[q] = runs[q]
  BY <1>1, <1>3 DEF TypeOK
<1>5. \A a \in Attempts : a > runs[r].attempt => runs[r].verdicts[a] = "none"
  BY DEF AttemptsRecorded
<1>6. \A a \in Attempts : a >= runs[r].attempt + 1 => next.verdicts[a] = "none"
  BY <1>2, <1>3, <1>5 DEF Attempts
<1> QED
  BY <1>1, <1>2, <1>3, <1>4, <1>6 DEF RunsStep, AttemptsRecorded, RunsExtend, Attempts

LEMMA CompleteRunStep ==
  ASSUME TypeOK, AttemptsRecorded, NEW r \in RunIds, NEW v \in Verdicts,
         CompleteRun(r, v)
  PROVE  RunsStep
<1> DEFINE a0 == runs[r].attempt
<1> DEFINE next == Concluded(runs[r], v)
<1>1. runs[r] \in Run /\ runs' = [runs EXCEPT ![r] = next] /\ runs[r].state = "running"
  BY DEF CompleteRun, TypeOK
<1>2. a0 \in Attempts /\ runs[r].verdicts[a0] = "none"
  BY <1>1 DEF AttemptsRecorded
<1>3. /\ next.subject = runs[r].subject /\ next.intent = runs[r].intent
      /\ next.attempt = a0 /\ next.state = "completed"
      /\ next.verdicts = [runs[r].verdicts EXCEPT ![a0] = v]
      /\ next \in Run
  BY <1>1, <1>2 DEF Run, Concluded
<1>4. \A a \in Attempts : a # a0 => next.verdicts[a] = runs[r].verdicts[a]
  BY <1>1, <1>3 DEF Run
<1>5. runs' \in [RunIds -> Run] /\ runs'[r] = next
      /\ \A q \in RunIds : q # r => runs'[q] = runs[q]
  BY <1>1, <1>3 DEF TypeOK
<1>6. \A a \in Attempts : a > a0 => next.verdicts[a] = "none"
  BY <1>2, <1>4 DEF AttemptsRecorded, Attempts
<1> HIDE DEF next
<1>7. RunsExtend
  BY <1>1, <1>2, <1>3, <1>4, <1>5 DEF RunsExtend
<1>8. AttemptsRecorded'
  BY <1>1, <1>2, <1>3, <1>5, <1>6 DEF AttemptsRecorded
<1> QED BY <1>5, <1>7, <1>8 DEF RunsStep

\* An admit job that ends without a publication changes nothing else.
LEMMA AdmitOutcomeStep ==
  ASSUME TypeOK, AttemptsRecorded, NEW r \in RunIds,
         NEW o \in {"publishing", "yes", "failed"},
         runs' = [runs EXCEPT ![r].admitted = o]
  PROVE  RunsStep
<1>1. [runs[r] EXCEPT !.admitted = o] \in Run
  BY DEF TypeOK, Run
<1>2. OnlyAdmitted
  BY <1>1 DEF TypeOK, Run, OnlyAdmitted
<1> QED BY <1>2, OnlyAdmittedSuffices

LEMMA ReadAndDecideSettles ==
  ASSUME NEW p \in Publishers, ReadAndDecide(p)
  PROVE  \/ \E o \in {"yes", "failed"} : Settle(p, o)
         \/ publisher' = [publisher EXCEPT ![p].phase = "posting"] /\ UNCHANGED runs
  BY DEF ReadAndDecide

LEMMA EveryRunsStep ==
  ASSUME TypeOK, AttemptsRecorded, [Next]_vars PROVE RunsStep
<1>1. CASE UNCHANGED runs
  BY <1>1, UnchangedRunsSuffices
<1>2. ASSUME NEW r \in RunIds, NEW s \in Commits, NEW i \in Intents, StartRun(r, s, i)
      PROVE  RunsStep
  BY <1>2, StartRunStep
<1>3. ASSUME NEW r \in RunIds, NEW all \in BOOLEAN, Rerun(r, all) PROVE RunsStep
  BY <1>3, RerunStep
<1>4. ASSUME NEW r \in RunIds, NEW v \in Verdicts, CompleteRun(r, v) PROVE RunsStep
  BY <1>4, CompleteRunStep
<1>5. ASSUME NEW r \in RunIds,
             \/ RejectAdmission(r) \/ SuppressAdmission(r)
             \/ \E p \in Publishers : AdmitExactMain(p, r)
      PROVE  RunsStep
  BY <1>5, AdmitOutcomeStep DEF RejectAdmission, SuppressAdmission, AdmitExactMain
<1>6. ASSUME NEW p \in Publishers, NEW o \in {"yes", "failed"}, Settle(p, o)
      PROVE  RunsStep
  BY <1>6, SettleRuns, OnlyAdmittedSuffices
<1>7. ASSUME NEW p \in Publishers,
             ReadAndDecide(p) \/ PostStatus(p) \/ LoseAnswer(p) \/ LosePublisher(p)
      PROVE  RunsStep
  BY <1>1, <1>6, <1>7, ReadAndDecideSettles DEF PostStatus, LoseAnswer, LosePublisher
<1>8. ASSUME \/ MoveMain \/ UNCHANGED vars
             \/ \E r \in RunIds, t \in Attempts : FinalizeExactMain(r, t)
             \/ \E b \in queue : SuppressBundle(b)
             \/ \E b \in queue, p \in Publishers : PublishExactMain(p, b)
             \/ \E b \in bundles : RetryPublication(b)
      PROVE  RunsStep
  BY <1>1, <1>8
  DEF vars, MoveMain, FinalizeExactMain, SuppressBundle, PublishExactMain,
      RetryPublication
<1> QED BY <1>2, <1>3, <1>4, <1>5, <1>7, <1>8 DEF Next

(***************************************************************************)
(* Evidence survives every step.                                           *)
(***************************************************************************)
LEMMA EvidenceSurvives ==
  ASSUME RunsExtend, NEW e, Evidenced(e) PROVE Evidenced(e)'
<1>1. PICK r \in RunIds, a \in Attempts : Describes(e, r, a)
  BY DEF Evidenced
<1>2. Describes(e, r, a)'
  BY <1>1 DEF Describes, RunsExtend, Terminal
<1> QED BY <1>2 DEF Evidenced

LEMMA ProposalEvidenced ==
  ASSUME NEW r \in RunIds, NEW a \in Attempts, NEW c \in Conclusions,
         runs[r].state # "unborn", runs[r].intent # "pr",
         c \in Terminal => runs[r].verdicts[a] = c
  PROVE  Evidenced(Proposal(r, a, runs[r].subject, runs[r].intent, c))
  BY DEF Evidenced, Describes, Proposal

\* The publication a runner starts is well typed and evidenced.
LEMMA AdmitStarts ==
  ASSUME IInv, NEW p \in Publishers, NEW r \in RunIds, AdmitExactMain(p, r)
  PROVE  \E o \in Publication :
           /\ publisher' = [publisher EXCEPT ![p] = o]
           /\ o.phase = "reading" /\ Evidenced(o.proposed)
<1>1. /\ runs[r].state # "unborn" /\ runs[r].subject = main /\ runs[r].intent # "pr"
      /\ runs[r].attempt \in Attempts /\ runs[r].intent \in Intents /\ main \in Commits
  BY DEF AdmitExactMain, Admitting, IInv, AttemptsRecorded, TypeOK
<1> DEFINE proposed == Proposal(r, runs[r].attempt, main, runs[r].intent, "pending")
<1>2. proposed \in Statuses
  BY <1>1, ProposalType DEF Conclusions
<1>3. Evidenced(proposed)
  BY <1>1, ProposalEvidenced DEF Conclusions, Terminal
<1> HIDE DEF proposed
<1>4. [phase |-> "reading", main |-> main, admits |-> r, proposed |-> proposed]
        \in Publication
  BY <1>1, <1>2 DEF Publication
<1> QED BY <1>3, <1>4 DEF AdmitExactMain, proposed

LEMMA PublishStarts ==
  ASSUME IInv, NEW p \in Publishers, NEW b \in queue, PublishExactMain(p, b)
  PROVE  \E o \in Publication :
           /\ publisher' = [publisher EXCEPT ![p] = o]
           /\ o.phase = "reading" /\ Evidenced(o.proposed)
<1>1. /\ b \in Bundle /\ b.state \in Terminal /\ b.state \in Conclusions
      /\ main \in Commits
  BY DEF PublishExactMain, IInv, TypeOK, Bundle, Verdicts, Terminal, Conclusions
<1>2. /\ runs[b.run].state # "unborn"
      /\ runs[b.run].subject = b.subject /\ runs[b.run].intent = b.intent
      /\ runs[b.run].verdicts[b.attempt] = b.state /\ runs[b.run].intent # "pr"
  BY <1>1 DEF IInv, TypeOK, BundlesEvidenced
<1>3. /\ b.run \in RunIds /\ b.attempt \in Attempts /\ b.subject \in Commits
      /\ b.intent \in Intents
  BY <1>1 DEF Bundle
<1> DEFINE proposed == Proposal(b.run, b.attempt, b.subject, b.intent, b.state)
<1>4. proposed \in Statuses
  BY <1>1, <1>3, ProposalType
<1>5. Evidenced(proposed)
  BY <1>1, <1>2, <1>3, ProposalEvidenced
<1> HIDE DEF proposed
<1>6. [phase |-> "reading", main |-> main, admits |-> 0, proposed |-> proposed]
        \in Publication
  BY <1>1, <1>4 DEF Publication
<1> QED BY <1>5, <1>6 DEF PublishExactMain, proposed

\* A runner keeps what it proposes until it is idle again.
PublisherStep ==
  /\ publisher' \in [Publishers -> Publication \cup {Idle}]
  /\ \A q \in Publishers :
       \/ publisher'[q] = Idle
       \/ Evidenced(publisher'[q].proposed)

LEMMA SettlePublisher ==
  ASSUME IInv, NEW p \in Publishers, NEW o, Settle(p, o) PROVE PublisherStep
<1>1. \A q \in Publishers : q # p => publisher'[q] = publisher[q]
  BY DEF Settle, IInv, TypeOK
<1>2. publisher'[p] = Idle
  BY DEF Settle, IInv, TypeOK
<1>3. publisher' \in [Publishers -> Publication \cup {Idle}]
  BY DEF Settle, IInv, TypeOK
<1> QED BY <1>1, <1>2, <1>3 DEF PublisherStep, IInv, PublicationsEvidenced

LEMMA StartPublisher ==
  ASSUME IInv, NEW p \in Publishers, NEW o \in Publication, Evidenced(o.proposed),
         publisher' = [publisher EXCEPT ![p] = o]
  PROVE  PublisherStep
<1>1. \A q \in Publishers : publisher'[q] = IF q = p THEN o ELSE publisher[q]
  BY DEF IInv, TypeOK
<1>2. publisher' \in [Publishers -> Publication \cup {Idle}]
  BY DEF IInv, TypeOK
<1> QED BY <1>1, <1>2 DEF PublisherStep, IInv, PublicationsEvidenced

LEMMA AdvancePublisher ==
  ASSUME IInv, NEW p \in Publishers, publisher[p].phase = "reading",
         publisher' = [publisher EXCEPT ![p].phase = "posting"]
  PROVE  PublisherStep
<1>1. publisher[p] \in Publication
  BY DEF IInv, TypeOK, Idle
<1> DEFINE o == [publisher[p] EXCEPT !.phase = "posting"]
<1>2. o \in Publication /\ o.proposed = publisher[p].proposed
  BY <1>1 DEF Publication
<1>3. publisher' = [publisher EXCEPT ![p] = o]
  BY DEF IInv, TypeOK
<1>4. Evidenced(publisher[p].proposed)
  BY DEF IInv, PublicationsEvidenced, Idle
<1> HIDE DEF o
<1> QED BY <1>2, <1>3, <1>4, StartPublisher

LEMMA EveryPublisherStep ==
  ASSUME IInv, [Next]_vars PROVE PublisherStep
<1>1. CASE UNCHANGED publisher
  BY <1>1 DEF PublisherStep, IInv, TypeOK, PublicationsEvidenced
<1>2. ASSUME NEW p \in Publishers,
             \/ \E r \in RunIds : AdmitExactMain(p, r)
             \/ \E b \in queue : PublishExactMain(p, b)
      PROVE  PublisherStep
  BY <1>2, AdmitStarts, PublishStarts, StartPublisher
<1>3. ASSUME NEW p \in Publishers, ReadAndDecide(p) PROVE PublisherStep
  BY <1>3, ReadAndDecideSettles, SettlePublisher, AdvancePublisher DEF ReadAndDecide
<1>4. ASSUME NEW p \in Publishers, PostStatus(p) \/ LoseAnswer(p) \/ LosePublisher(p)
      PROVE  PublisherStep
  BY <1>4, SettlePublisher DEF PostStatus, LoseAnswer, LosePublisher
<1>5. ASSUME NEW r \in RunIds,
             \/ \E s \in Commits, i \in Intents : StartRun(r, s, i)
             \/ \E all \in BOOLEAN : Rerun(r, all)
             \/ \E v \in Verdicts : CompleteRun(r, v)
             \/ RejectAdmission(r) \/ SuppressAdmission(r)
             \/ \E t \in Attempts : FinalizeExactMain(r, t)
      PROVE  PublisherStep
  BY <1>1, <1>5
  DEF StartRun, Rerun, CompleteRun, RejectAdmission, SuppressAdmission,
      FinalizeExactMain
<1>6. ASSUME \/ MoveMain \/ UNCHANGED vars
             \/ \E b \in queue : SuppressBundle(b)
             \/ \E b \in bundles : RetryPublication(b)
      PROVE  PublisherStep
  BY <1>1, <1>6 DEF vars, MoveMain, SuppressBundle, RetryPublication
<1> QED BY <1>2, <1>3, <1>4, <1>5, <1>6 DEF Next

(***************************************************************************)
(* The statuses and the bundles.                                           *)
(***************************************************************************)
LEMMA PostingIsEvidenced ==
  ASSUME IInv, NEW p \in Publishers, publisher[p].phase = "posting"
  PROVE  publisher[p].proposed \in Statuses /\ Evidenced(publisher[p].proposed)
  BY DEF IInv, TypeOK, PublicationsEvidenced, Idle, Publication

\* Statuses are only ever added, and only evidenced ones.
PostedStep ==
  \/ UNCHANGED <<posted, shown>>
  \/ \E e \in Statuses : Evidenced(e) /\ AcceptStatus(e)

LEMMA EveryPostedStep ==
  ASSUME IInv, [Next]_vars PROVE PostedStep
<1>1. ASSUME NEW p \in Publishers, PostStatus(p) \/ LoseAnswer(p) PROVE PostedStep
  BY <1>1, PostingIsEvidenced DEF PostStatus, LoseAnswer, PostedStep
<1>2. ASSUME NEW p \in Publishers,
             \/ ReadAndDecide(p) \/ LosePublisher(p)
             \/ \E r \in RunIds : AdmitExactMain(p, r)
             \/ \E b \in queue : PublishExactMain(p, b)
      PROVE  UNCHANGED <<posted, shown>>
  BY <1>2 DEF ReadAndDecide, LosePublisher, AdmitExactMain, PublishExactMain
<1>3. ASSUME NEW r \in RunIds,
             \/ \E s \in Commits, i \in Intents : StartRun(r, s, i)
             \/ \E all \in BOOLEAN : Rerun(r, all)
             \/ \E v \in Verdicts : CompleteRun(r, v)
             \/ RejectAdmission(r) \/ SuppressAdmission(r)
             \/ \E t \in Attempts : FinalizeExactMain(r, t)
      PROVE  UNCHANGED <<posted, shown>>
  BY <1>3
  DEF StartRun, Rerun, CompleteRun, RejectAdmission, SuppressAdmission,
      FinalizeExactMain
<1>4. ASSUME \/ MoveMain \/ UNCHANGED vars
             \/ \E b \in queue : SuppressBundle(b)
             \/ \E b \in bundles : RetryPublication(b)
      PROVE  UNCHANGED <<posted, shown>>
  BY <1>4 DEF vars, MoveMain, SuppressBundle, RetryPublication
<1> QED BY <1>1, <1>2, <1>3, <1>4 DEF Next, PostedStep

LEMMA PostedStepTyped ==
  ASSUME TypeOK, PostedStep
  PROVE  /\ posted' \subseteq Statuses /\ posted \subseteq posted'
         /\ shown' \in [PublishedContexts \X Commits -> posted' \cup {NoStatus}]
<1>1. CASE UNCHANGED <<posted, shown>>
  BY <1>1 DEF TypeOK
<1>2. ASSUME NEW e \in Statuses, AcceptStatus(e)
      PROVE  /\ posted' \subseteq Statuses /\ posted \subseteq posted'
             /\ shown' \in [PublishedContexts \X Commits -> posted' \cup {NoStatus}]
  BY <1>2 DEF AcceptStatus, TypeOK
<1> QED BY <1>1, <1>2 DEF PostedStep

BundlesStep ==
  /\ bundles' \subseteq Bundle /\ queue' \subseteq bundles'
  /\ BundlesEvidenced'

LEMMA FinalizeBundles ==
  ASSUME IInv, RunsExtend,
         NEW r \in RunIds, NEW t \in Attempts, FinalizeExactMain(r, t)
  PROVE  BundlesStep
<1>1. /\ runs[r].state # "unborn" /\ runs[r].verdicts[t] # "none" /\ runs' = runs
      /\ runs[r].subject \in Commits /\ runs[r].intent \in Intents
      /\ runs[r].verdicts[t] \in Verdicts
  BY DEF FinalizeExactMain, IInv, TypeOK, AttemptsRecorded, Run
<1>2. PICK b \in Bundle :
        /\ bundles' = bundles \cup {b} /\ queue' = queue \cup {b}
        /\ b.run = r /\ b.attempt = t /\ b.subject = runs[r].subject
        /\ b.intent = runs[r].intent
        /\ b.state \in Terminal => b.state = runs[r].verdicts[t] /\ b.intent # "pr"
  <2> DEFINE b == [run |-> r, attempt |-> t, subject |-> runs[r].subject,
                   intent |-> runs[r].intent,
                   state |-> IF runs[r].intent = "pr" THEN "noncertifying"
                             ELSE runs[r].verdicts[t]]
  <2>1. b \in Bundle
    BY <1>1 DEF Bundle, Verdicts
  <2>2. b.state \in Terminal => b.state = runs[r].verdicts[t] /\ b.intent # "pr"
    BY DEF Terminal
  <2> QED BY <2>1, <2>2 DEF FinalizeExactMain
<1>3. bundles' \subseteq Bundle /\ queue' \subseteq bundles'
  BY <1>2 DEF IInv, TypeOK
<1>4. ASSUME NEW c \in bundles'
      PROVE  /\ runs[c.run].state # "unborn" /\ runs[c.run].subject = c.subject
             /\ runs[c.run].intent = c.intent
             /\ c.state \in Terminal =>
                  runs[c.run].verdicts[c.attempt] = c.state /\ c.intent # "pr"
  <2>1. CASE c = b
    BY <1>1, <1>2, <2>1
  <2>2. CASE c \in bundles
    BY <2>2 DEF IInv, BundlesEvidenced
  <2> QED BY <1>2, <2>1, <2>2
<1> QED BY <1>1, <1>3, <1>4 DEF BundlesStep, BundlesEvidenced

LEMMA EveryBundlesStep ==
  ASSUME IInv, RunsExtend, [Next]_vars PROVE BundlesStep
<1>1. CASE bundles' = bundles /\ queue' \subseteq bundles
  <2>1. ASSUME NEW b \in bundles
        PROVE  /\ runs'[b.run].state # "unborn"
               /\ runs'[b.run].subject = b.subject
               /\ runs'[b.run].intent = b.intent
               /\ b.state \in Terminal =>
                    runs'[b.run].verdicts[b.attempt] = b.state /\ b.intent # "pr"
    <3>1. b.run \in RunIds /\ b.attempt \in Attempts
      BY DEF IInv, TypeOK, Bundle
    <3> QED BY <3>1 DEF IInv, BundlesEvidenced, RunsExtend, Terminal
  <2> QED BY <1>1, <2>1 DEF BundlesStep, IInv, TypeOK, BundlesEvidenced
<1>2. ASSUME NEW r \in RunIds, NEW t \in Attempts, FinalizeExactMain(r, t)
      PROVE  BundlesStep
  BY <1>2, FinalizeBundles
<1>3. ASSUME NEW p \in Publishers,
             \/ ReadAndDecide(p) \/ LosePublisher(p) \/ PostStatus(p) \/ LoseAnswer(p)
             \/ \E r \in RunIds : AdmitExactMain(p, r)
             \/ \E b \in queue : PublishExactMain(p, b)
      PROVE  BundlesStep
  BY <1>1, <1>3
  DEF ReadAndDecide, LosePublisher, PostStatus, LoseAnswer, AdmitExactMain,
      PublishExactMain, IInv, TypeOK
<1>4. ASSUME NEW r \in RunIds,
             \/ \E s \in Commits, i \in Intents : StartRun(r, s, i)
             \/ \E all \in BOOLEAN : Rerun(r, all)
             \/ \E v \in Verdicts : CompleteRun(r, v)
             \/ RejectAdmission(r) \/ SuppressAdmission(r)
      PROVE  BundlesStep
  BY <1>1, <1>4
  DEF StartRun, Rerun, CompleteRun, RejectAdmission, SuppressAdmission, IInv, TypeOK
<1>5. ASSUME \/ MoveMain \/ UNCHANGED vars
             \/ \E b \in queue : SuppressBundle(b)
             \/ \E b \in bundles : RetryPublication(b)
      PROVE  BundlesStep
  BY <1>1, <1>5 DEF vars, MoveMain, SuppressBundle, RetryPublication, IInv, TypeOK
<1> QED BY <1>2, <1>3, <1>4, <1>5 DEF Next

LEMMA EveryCounterStep ==
  ASSUME TypeOK, [Next]_vars
  PROVE  main' \in Commits /\ losses' \in Nat /\ retries' \in Nat
<1>1. CASE UNCHANGED <<main, losses, retries>>
  BY <1>1 DEF TypeOK
<1>2. CASE MoveMain
  BY <1>2, StatusPublicationAssumption DEF MoveMain, TypeOK, Commits
<1>3. ASSUME NEW p \in Publishers, LoseAnswer(p) \/ LosePublisher(p)
      PROVE  main' \in Commits /\ losses' \in Nat /\ retries' \in Nat
  BY <1>3 DEF LoseAnswer, LosePublisher, TypeOK
<1>4. ASSUME NEW b \in bundles, RetryPublication(b)
      PROVE  main' \in Commits /\ losses' \in Nat /\ retries' \in Nat
  BY <1>4 DEF RetryPublication, TypeOK
<1>5. ASSUME NEW p \in Publishers,
             \/ ReadAndDecide(p) \/ PostStatus(p)
             \/ \E r \in RunIds : AdmitExactMain(p, r)
             \/ \E b \in queue : PublishExactMain(p, b)
      PROVE  UNCHANGED <<main, losses, retries>>
  BY <1>5 DEF ReadAndDecide, PostStatus, AdmitExactMain, PublishExactMain
<1>6. ASSUME NEW r \in RunIds,
             \/ \E s \in Commits, i \in Intents : StartRun(r, s, i)
             \/ \E all \in BOOLEAN : Rerun(r, all)
             \/ \E v \in Verdicts : CompleteRun(r, v)
             \/ RejectAdmission(r) \/ SuppressAdmission(r)
             \/ \E t \in Attempts : FinalizeExactMain(r, t)
      PROVE  UNCHANGED <<main, losses, retries>>
  BY <1>6
  DEF StartRun, Rerun, CompleteRun, RejectAdmission, SuppressAdmission,
      FinalizeExactMain
<1>7. ASSUME UNCHANGED vars \/ \E b \in queue : SuppressBundle(b)
      PROVE  UNCHANGED <<main, losses, retries>>
  BY <1>7 DEF vars, SuppressBundle
<1> QED BY <1>1, <1>2, <1>3, <1>4, <1>5, <1>6, <1>7 DEF Next

(***************************************************************************)
(* The inductive invariant.                                                *)
(***************************************************************************)
LEMMA InitEstablishes == Init => IInv
<1> SUFFICES ASSUME Init PROVE IInv
  OBVIOUS
<1>1. UnbornRun \in Run
  BY StatusPublicationAssumption DEF UnbornRun, Run
<1>2. TypeOK
  <2>1. main \in Commits
    BY StatusPublicationAssumption DEF Init, Commits
  <2>2. runs \in [RunIds -> Run]
    BY <1>1 DEF Init
  <2>3. publisher \in [Publishers -> Publication \cup {Idle}]
    BY DEF Init
  <2>4. shown \in [PublishedContexts \X Commits -> posted \cup {NoStatus}]
    BY DEF Init
  <2> QED BY <2>1, <2>2, <2>3, <2>4 DEF Init, TypeOK
<1>3. AttemptsRecorded
  BY DEF Init, AttemptsRecorded, UnbornRun
<1>4. BundlesEvidenced /\ PublicationsEvidenced /\ PostedEvidenced
  BY DEF Init, BundlesEvidenced, PublicationsEvidenced, PostedEvidenced
<1> QED BY <1>2, <1>3, <1>4 DEF IInv

LEMMA StepPreserves == IInv /\ [Next]_vars => IInv'
<1> SUFFICES ASSUME IInv, [Next]_vars PROVE IInv'
  OBVIOUS
<1>1. RunsStep
  BY EveryRunsStep DEF IInv
<1>2. PublisherStep
  BY EveryPublisherStep
<1>3. PostedStep
  BY EveryPostedStep
<1>4. BundlesStep
  BY <1>1, EveryBundlesStep DEF RunsStep
<1>5. TypeOK'
  BY <1>1, <1>2, <1>3, <1>4, PostedStepTyped, EveryCounterStep
  DEF TypeOK, RunsStep, PublisherStep, BundlesStep, IInv
<1>6. PublicationsEvidenced'
  <2> SUFFICES ASSUME NEW p \in Publishers, publisher'[p] # Idle
               PROVE  Evidenced(publisher[p].proposed)'
    BY DEF PublicationsEvidenced
  <2> DEFINE e == publisher'[p].proposed
  <2>1. Evidenced(e)
    BY <1>2 DEF PublisherStep
  <2>2. PICK r \in RunIds, a \in Attempts : Describes(e, r, a)
    BY <2>1 DEF Evidenced
  <2>3. Describes(publisher[p].proposed, r, a)'
    BY <1>1, <2>2 DEF Describes, RunsStep, RunsExtend, Terminal
  <2> QED BY <2>3 DEF Evidenced
<1>7. PostedEvidenced'
  <2>1. ASSUME NEW e \in posted' PROVE Evidenced(e)
    BY <1>3, <2>1 DEF PostedStep, AcceptStatus, IInv, PostedEvidenced
  <2> QED BY <1>1, <2>1, EvidenceSurvives DEF RunsStep, PostedEvidenced
<1> QED BY <1>1, <1>4, <1>5, <1>6, <1>7 DEF IInv, RunsStep, BundlesStep

\* The state of the provider and of the runners keeps its type.
THEOREM TypeCorrect == Spec => []TypeOK
<1>1. IInv => TypeOK
  BY DEF IInv
<1> QED BY InitEstablishes, StepPreserves, <1>1, PTL DEF Spec

\* A terminal status says what the attempt it names concluded: whatever the
\* interleaving of publishers, re-runs, losses and retries.
THEOREM CertifiedByItsAttemptHolds == Spec => []CertifiedByItsAttempt
<1>1. IInv => CertifiedByItsAttempt
  BY DEF IInv, PostedEvidenced, Evidenced, Describes, CertifiedByItsAttempt
<1> QED BY InitEstablishes, StepPreserves, <1>1, PTL DEF Spec

(***************************************************************************)
(* The status BCF reads never regresses.                                   *)
(***************************************************************************)
LEMMA OneConclusionPerAuthority ==
  ASSUME PostedEvidenced, NEW e \in posted, NEW f \in posted, SameOrder(e, f),
         e.conclusion \in Terminal, f.conclusion \in Terminal
  PROVE  e.conclusion = f.conclusion
<1>1. PICK r1 \in RunIds, a1 \in Attempts : Describes(e, r1, a1)
  BY DEF PostedEvidenced, Evidenced
<1>2. PICK r2 \in RunIds, a2 \in Attempts : Describes(f, r2, a2)
  BY DEF PostedEvidenced, Evidenced
<1>3. r1 = r2 /\ a1 = a2
  <2>1. RunOrdinal(r1, a1) = RunOrdinal(r2, a2)
    BY <1>1, <1>2 DEF Describes, SameOrder
  <2> QED BY <2>1, RunOrdinalInjective
<1> QED BY <1>1, <1>2, <1>3 DEF Describes

LEMMA OneConclusionPerAuthorityNext ==
  ASSUME PostedEvidenced', NEW e \in posted', NEW f \in posted', SameOrder(e, f),
         e.conclusion \in Terminal, f.conclusion \in Terminal
  PROVE  e.conclusion = f.conclusion
<1>1. PICK r1 \in RunIds, a1 \in Attempts : Describes(e, r1, a1)'
  BY DEF PostedEvidenced, Evidenced
<1>2. PICK r2 \in RunIds, a2 \in Attempts : Describes(f, r2, a2)'
  BY DEF PostedEvidenced, Evidenced
<1>3. r1 = r2 /\ a1 = a2
  <2>1. RunOrdinal(r1, a1) = RunOrdinal(r2, a2)
    BY <1>1, <1>2 DEF Describes, SameOrder
  <2> QED BY <2>1, RunOrdinalInjective
<1> QED BY <1>1, <1>2, <1>3 DEF Describes

LEMMA StatusOrder ==
  ASSUME NEW e \in Statuses, NEW f \in Statuses
  PROVE  /\ e.ordinal \in Int /\ e.attempt \in Int
         /\ Precedes(e, f) \/ Precedes(f, e) \/ SameOrder(e, f)
         /\ ~ (SameOrder(e, f) /\ (Precedes(e, f) \/ Precedes(f, e)))
  BY DEF Statuses, Observation, Precedes, SameOrder

LEMMA PrecedesTransitive ==
  ASSUME NEW e \in Statuses, NEW f \in Statuses, NEW g \in Statuses,
         Precedes(e, f), Precedes(f, g) \/ SameOrder(f, g)
  PROVE  Precedes(e, g)
  BY DEF Statuses, Observation, Precedes, SameOrder

LEMMA CurrentIsLatest ==
  ASSUME NEW S \in SUBSET Statuses, S # {}, NEW e \in CurrentStatus(S)
  PROVE  /\ e \in S /\ \A f \in S : ~ Precedes(e, f)
         /\ e.conclusion \notin Terminal =>
              \A f \in S : SameOrder(e, f) => f.conclusion \notin Terminal
<1>1. e \in Latest(S)
  BY DEF CurrentStatus
<1>2. ASSUME NEW f \in S, SameOrder(e, f), f.conclusion \in Terminal
      PROVE  e.conclusion \in Terminal
  <2>1. \A g \in S : ~ Precedes(f, g)
    BY <1>1, <1>2 DEF Latest, Precedes, SameOrder
  <2>2. f \in {g \in Latest(S) : g.conclusion \in Terminal}
    BY <1>2, <2>1 DEF Latest
  <2> QED BY <2>2 DEF CurrentStatus
<1> QED BY <1>1, <1>2 DEF Latest

\* The authority BCF reads from the provider only ever grows, whatever order the
\* concurrent publishers post in.
THEOREM AuthorityNeverRegressesHolds == Spec => AuthorityNeverRegresses
<1>1. ASSUME IInv, IInv', [Next]_vars,
             NEW c \in PublishedContexts, NEW s \in Commits
      PROVE  NeverRegresses(c, s)
  <2> DEFINE before == {e \in posted : e.context = c /\ e.subject = s}
             after == {e \in posted' : e.context = c /\ e.subject = s}
  <2> SUFFICES ASSUME before # {},
                      NEW e \in CurrentStatus(before), NEW f \in CurrentStatus(after)
               PROVE  /\ ~ Precedes(f, e)
                      /\ SameOrder(e, f) /\ e.conclusion # "pending"
                           => f.conclusion = e.conclusion
    BY DEF NeverRegresses
  <2>1. before \subseteq after /\ after \in SUBSET Statuses /\ before \in SUBSET Statuses
    BY <1>1, EveryPostedStep, PostedStepTyped DEF IInv, TypeOK
  <2>2. e \in before
    BY <2>1, CurrentIsLatest
  <2>3. e \in after /\ f \in after /\ ~ Precedes(f, e)
    BY <2>1, <2>2, CurrentIsLatest
  <2>4. ASSUME SameOrder(e, f), e.conclusion # "pending" PROVE f.conclusion = e.conclusion
    <3>1. e.conclusion \in Terminal
      BY <2>1, <2>3, <2>4 DEF Statuses, Observation, Conclusions, Terminal
    <3>2. f.conclusion \in Terminal
      <4>1. SameOrder(f, e)
        BY <2>4 DEF SameOrder
      <4> QED BY <2>1, <2>3, <3>1, <4>1, CurrentIsLatest
    <3>3. e \in posted' /\ f \in posted' /\ PostedEvidenced'
      BY <1>1, <2>3 DEF IInv
    <3> QED BY <2>4, <3>1, <3>2, <3>3, OneConclusionPerAuthorityNext
  <2> QED BY <2>3, <2>4
<1>2. IInv /\ IInv' /\ [Next]_vars
        => \A c \in PublishedContexts, s \in Commits : NeverRegresses(c, s)
  BY <1>1
<1> QED BY InitEstablishes, StepPreserves, <1>2, PTL DEF Spec, AuthorityNeverRegresses

(***************************************************************************)
(* One runner at a time: what the provider shows is the highest authority. *)
(***************************************************************************)
Beats(o, e) ==
  /\ ~ Precedes(o, e)
  /\ SameOrder(o, e) => e.conclusion \notin Terminal

PostingBeatsPosted ==
  \A p \in Publishers : publisher[p].phase = "posting" =>
    \A e \in StatusesOf(publisher[p].proposed) : Beats(publisher[p].proposed, e)

\* A decision to publish is a decision over everything that was read.
LEMMA DecisionBeatsWhatItRead ==
  ASSUME NEW S \in SUBSET Statuses, NEW o \in Statuses, NEW m,
         \A e \in S : SameIdentity(e, o),
         NEW current \in CurrentStatus(S),
         Publishes(DecideStatusPublication(o, current, m))
  PROVE  \A e \in S : Beats(o, e)
<1> SUFFICES ASSUME NEW e \in S PROVE Beats(o, e)
  OBVIOUS
<1>1. /\ current \in S /\ ~ Precedes(current, e)
      /\ current.conclusion \notin Terminal /\ SameOrder(current, e)
           => e.conclusion \notin Terminal
  BY CurrentIsLatest
<1>2. current # NoStatus /\ SameIdentity(o, current)
  BY <1>1 DEF Statuses, Observation, NoStatus, PublishedContexts, ExactMain,
              BoundedWorkitem, SameIdentity
<1>3. \/ Precedes(current, o)
      \/ /\ ~ Precedes(o, current) /\ ~ Precedes(current, o)
         /\ current.conclusion \notin Terminal
  BY <1>2 DEF DecideStatusPublication, Publishes, Terminal
<1>4. CASE Precedes(current, o)
  <2>1. ~ Precedes(o, e) /\ ~ SameOrder(o, e)
    BY <1>1, <1>4, PrecedesTransitive
  <2> QED BY <2>1 DEF Beats
<1>5. CASE /\ ~ Precedes(o, current) /\ ~ Precedes(current, o)
           /\ current.conclusion \notin Terminal
  <2>1. SameOrder(o, current)
    BY <1>1, <1>5, StatusOrder
  <2> QED BY <1>1, <1>5, <2>1 DEF Beats, SameOrder, Precedes
<1> QED BY <1>3, <1>4, <1>5

LEMMA DecideStep ==
  ASSUME IInv, PostingBeatsPosted, NEW p \in Publishers, ReadAndDecide(p)
  PROVE  PostingBeatsPosted'
<1>1. posted' = posted
  BY DEF ReadAndDecide
<1>2. publisher[p] \in Publication
  BY DEF ReadAndDecide, IInv, TypeOK, Idle
<1> DEFINE o == publisher[p].proposed
           S == StatusesOf(o)
<1>3. S \in SUBSET Statuses /\ o \in Statuses /\ \A e \in S : SameIdentity(e, o)
  BY <1>2 DEF IInv, TypeOK, Publication, StatusesOf
<1>4. \A q \in Publishers : q # p => publisher'[q] = publisher[q]
  BY DEF ReadAndDecide, Settle, IInv, TypeOK
<1>5. CASE \E out \in {"yes", "failed"} : Settle(p, out)
  <2>1. publisher'[p] = Idle
    BY <1>5 DEF Settle, IInv, TypeOK
  <2> QED BY <1>1, <1>4, <2>1 DEF PostingBeatsPosted, StatusesOf, Idle
<1>6. CASE ~ \E out \in {"yes", "failed"} : Settle(p, out)
  <2>1. PICK current \in CurrentStatus(S) :
          /\ Publishes(DecideStatusPublication(o, current, publisher[p].main))
          /\ publisher' = [publisher EXCEPT ![p].phase = "posting"]
    BY <1>6 DEF ReadAndDecide
  <2>2. \A e \in S : Beats(o, e)
    BY <1>3, <2>1, DecisionBeatsWhatItRead
  <2>3. publisher'[p].proposed = o
    BY <1>2, <2>1 DEF IInv, TypeOK, Publication
  <2> QED BY <1>1, <1>4, <2>2, <2>3 DEF PostingBeatsPosted, StatusesOf
<1> QED BY <1>5, <1>6

LEMMA PostStep ==
  ASSUME IInv, PostingBeatsPosted, ShownIsHighestAuthority,
         \A p, q \in Publishers : p = q,
         NEW p \in Publishers, publisher[p].phase = "posting",
         AcceptStatus(publisher[p].proposed), NEW out, Settle(p, out)
  PROVE  PostingBeatsPosted' /\ ShownIsHighestAuthority'
<1> DEFINE o == publisher[p].proposed
<1>1. o \in Statuses
  BY PostingIsEvidenced
<1>2. PostingBeatsPosted'
  <2>1. publisher'[p] = Idle
    BY DEF Settle, IInv, TypeOK
  <2> QED BY <2>1 DEF PostingBeatsPosted, Idle
<1>3. ASSUME NEW e \in posted'
      PROVE  /\ ~ Precedes(shown'[e.context, e.subject], e)
             /\ SameOrder(shown'[e.context, e.subject], e) /\ e.conclusion \in Terminal
                  => shown'[e.context, e.subject].conclusion = e.conclusion
  <2>1. <<o.context, o.subject>> \in PublishedContexts \X Commits
    BY <1>1 DEF Statuses, Observation
  <2>2. /\ shown'[o.context, o.subject] = o
        /\ \A c \in PublishedContexts, s \in Commits :
             <<c, s>> # <<o.context, o.subject>> => shown'[c, s] = shown[c, s]
    BY <2>1 DEF AcceptStatus, IInv, TypeOK
  <2>3. e \in Statuses
    BY <1>1 DEF AcceptStatus, IInv, TypeOK
  <2>4. e.context \in PublishedContexts /\ e.subject \in Commits
    BY <2>3 DEF Statuses, Observation
  <2>5. CASE e = o
    <3>1. shown'[e.context, e.subject] = o
      BY <2>2, <2>5
    <3>2. ~ Precedes(o, o)
      BY <1>1, StatusOrder DEF SameOrder
    <3> QED BY <2>5, <3>1, <3>2
  <2>6. CASE e \in posted /\ SameIdentity(e, o)
    <3>1. shown'[e.context, e.subject] = o
      BY <2>2, <2>6 DEF SameIdentity
    <3>2. Beats(o, e)
      BY <2>6 DEF PostingBeatsPosted, StatusesOf
    <3> QED BY <3>1, <3>2 DEF Beats
  <2>7. CASE e \in posted /\ ~ SameIdentity(e, o)
    <3>1. shown'[e.context, e.subject] = shown[e.context, e.subject]
      BY <2>2, <2>4, <2>7 DEF SameIdentity
    <3> QED BY <2>7, <3>1 DEF ShownIsHighestAuthority
  <2> QED BY <2>5, <2>6, <2>7 DEF AcceptStatus
<1> QED BY <1>2, <1>3 DEF ShownIsHighestAuthority

LEMMA QuietStep ==
  ASSUME PostingBeatsPosted, ShownIsHighestAuthority, UNCHANGED <<posted, shown>>,
         \A p \in Publishers :
           publisher'[p].phase = "posting" => publisher'[p] = publisher[p]
  PROVE  PostingBeatsPosted' /\ ShownIsHighestAuthority'
  BY DEF PostingBeatsPosted, ShownIsHighestAuthority, StatusesOf

\* With a single runner for publications the required check of a commit is the
\* newest admitted authority; the overtaking run shows that two runners break it.
THEOREM SerialPublicationIsOrdered ==
  ASSUME \A p, q \in Publishers : p = q
  PROVE  Spec => []ShownIsHighestAuthority
<1> DEFINE Inv == IInv /\ PostingBeatsPosted /\ ShownIsHighestAuthority
<1>1. Init => Inv
  BY InitEstablishes
  DEF Init, PostingBeatsPosted, ShownIsHighestAuthority, Idle
<1>2. ASSUME Inv, [Next]_vars PROVE PostingBeatsPosted' /\ ShownIsHighestAuthority'
  <2>1. ASSUME NEW p \in Publishers, PostStatus(p) \/ LoseAnswer(p)
        PROVE  PostingBeatsPosted' /\ ShownIsHighestAuthority'
    BY <1>2, <2>1, PostStep DEF PostStatus, LoseAnswer
  <2>2. ASSUME NEW p \in Publishers, ReadAndDecide(p)
        PROVE  PostingBeatsPosted' /\ ShownIsHighestAuthority'
    <3>1. UNCHANGED <<posted, shown>>
      BY <2>2 DEF ReadAndDecide
    <3> QED BY <1>2, <2>2, <3>1, DecideStep DEF ShownIsHighestAuthority
  <2>3. ASSUME NEW p \in Publishers, LosePublisher(p)
        PROVE  PostingBeatsPosted' /\ ShownIsHighestAuthority'
    <3>1. publisher' = [publisher EXCEPT ![p] = Idle] /\ UNCHANGED <<posted, shown>>
      BY <2>3 DEF LosePublisher, Settle
    <3>2. \A q \in Publishers :
            publisher'[q].phase = "posting" => publisher'[q] = publisher[q]
      BY <1>2, <3>1 DEF Idle, IInv, TypeOK
    <3> QED BY <1>2, <3>1, <3>2, QuietStep
  <2>4. ASSUME NEW p \in Publishers,
               \/ \E r \in RunIds : AdmitExactMain(p, r)
               \/ \E b \in queue : PublishExactMain(p, b)
        PROVE  PostingBeatsPosted' /\ ShownIsHighestAuthority'
    <3>1. \E o \in Publication :
            publisher' = [publisher EXCEPT ![p] = o] /\ o.phase = "reading"
      BY <1>2, <2>4, AdmitStarts, PublishStarts
    <3>2. \A q \in Publishers :
            publisher'[q].phase = "posting" => publisher'[q] = publisher[q]
      BY <1>2, <3>1 DEF IInv, TypeOK
    <3>3. UNCHANGED <<posted, shown>>
      BY <2>4 DEF AdmitExactMain, PublishExactMain
    <3> QED BY <1>2, <3>2, <3>3, QuietStep
  <2>5. ASSUME NEW r \in RunIds,
               \/ \E s \in Commits, i \in Intents : StartRun(r, s, i)
               \/ \E all \in BOOLEAN : Rerun(r, all)
               \/ \E v \in Verdicts : CompleteRun(r, v)
               \/ RejectAdmission(r) \/ SuppressAdmission(r)
               \/ \E t \in Attempts : FinalizeExactMain(r, t)
        PROVE  PostingBeatsPosted' /\ ShownIsHighestAuthority'
    <3>1. UNCHANGED <<publisher, posted, shown>>
      BY <2>5
      DEF StartRun, Rerun, CompleteRun, RejectAdmission, SuppressAdmission,
          FinalizeExactMain
    <3> QED BY <1>2, <3>1, QuietStep
  <2>6. ASSUME \/ MoveMain \/ UNCHANGED vars
               \/ \E b \in queue : SuppressBundle(b)
               \/ \E b \in bundles : RetryPublication(b)
        PROVE  PostingBeatsPosted' /\ ShownIsHighestAuthority'
    <3>1. UNCHANGED <<publisher, posted, shown>>
      BY <2>6 DEF vars, MoveMain, SuppressBundle, RetryPublication
    <3> QED BY <1>2, <3>1, QuietStep
  <2> QED BY <1>2, <2>1, <2>2, <2>3, <2>4, <2>5, <2>6 DEF Next
<1>3. Inv /\ [Next]_vars => Inv'
  BY <1>2, StepPreserves
<1> QED BY <1>1, <1>3, PTL DEF Spec
=============================================================================

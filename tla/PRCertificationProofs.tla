----------------------- MODULE PRCertificationProofs -----------------------
(***************************************************************************)
(* Proofs about PRCertification, for every number of heads, main commits,  *)
(* producer workflows, runs, attempts, runners, losses and retries.        *)
(***************************************************************************)
EXTENDS PRCertification, WellFoundedInduction, TLAPS

(***************************************************************************)
(* The inductive invariant: what each stage, from the provider to the      *)
(* published check, still knows of the attempts a success rests on.        *)
(***************************************************************************)

\* An attempt has a result once it is completed, and keeps it.
ProducersRecorded ==
  \A r \in RunIds :
    /\ producers[r].state # "unborn" =>
         /\ producers[r].workflow \in Workflows
         /\ producers[r].subject \in Heads
         /\ producers[r].attempt \in Attempts
    /\ producers[r].state = "unborn" =>
         producers[r].workflow = 0 /\ producers[r].attempt = 0
    /\ producers[r].state = "completed" =>
         producers[r].results[producers[r].attempt] # "none"
    /\ \A a \in Attempts : producers[r].results[a] # "none" =>
         \/ a < producers[r].attempt
         \/ a = producers[r].attempt /\ producers[r].state = "completed"

\* A producer selected as successful completed that attempt on the head.
SelectionRecorded(run, w) ==
  run.selected[w].state = "successful" =>
    /\ run.selected[w].run \in RunsOf(w, run.head)
    /\ run.selected[w].attempt \in Attempts
    /\ run.selected[w].attempt <= producers[run.selected[w].run].attempt
    /\ producers[run.selected[w].run].results[run.selected[w].attempt]
         \in {"success", "rejected"}

FinalizerRecorded(run) ==
  /\ run.phase # "unborn" => run.main \in Mains /\ run.run \in RunIds /\ run.attempt \in Nat \ {0}
  /\ run.cursor > 0 => run.head \in Heads
  /\ run.phase = "done" => run.cursor = 2 * WorkflowCount + 1
  /\ \A w \in Workflows : run.cursor > w =>
       run.selected[w].state \in States /\ SelectionRecorded(run, w)
  /\ \A w \in Workflows :
       run.cursor > WorkflowCount + w /\ run.selected[w].state = "successful"
         => Witnessed(w, run.head)

FinalizersRecorded == \A f \in FinalizerIds : FinalizerRecorded(finalizers[f])

\* Whatever a success is said of has a witness of every workflow.
ObservationWitnessed(o) ==
  o.state = "successful" => \A w \in Workflows : Witnessed(w, o.head)

CheckWitnessed(e) ==
  e.conclusion = "success" => \A w \in Workflows : Witnessed(w, e.subject)

PublicationWitnessed(job) == job # Idle => CheckWitnessed(job.proposed)

PublishedIsWitnessed ==
  /\ \A o \in queue : ObservationWitnessed(o)
  /\ \A p \in Publishers : PublicationWitnessed(publisher[p])
  /\ \A e \in checks : CheckWitnessed(e)

\* The check the provider lists for a head was created for that head.
ListedPosted ==
  \A h \in Heads : listed[h] = NoStatus \/ listed[h] \in ChecksOf(h)

IInv == /\ TypeOK /\ ProducersRecorded /\ FinalizersRecorded
        /\ PublishedIsWitnessed /\ ListedPosted

(***************************************************************************)
(* How a step may change the producer runs.                                *)
(***************************************************************************)

\* Nothing a success can rest on is taken back.
ProducersExtend ==
  \A r \in RunIds : producers[r].state # "unborn" =>
    /\ producers'[r].workflow = producers[r].workflow
    /\ producers'[r].subject = producers[r].subject
    /\ producers'[r].attempt >= producers[r].attempt
    /\ \A a \in Attempts : producers[r].results[a] # "none" =>
         producers'[r].results[a] = producers[r].results[a]

ProducersChange ==
  producers' \in [RunIds -> Producer] /\ ProducersRecorded' /\ ProducersExtend

\* One run becomes `run`, the others stay.
ProducerBecomes(r, run) ==
  /\ producers' = [producers EXCEPT ![r] = run]
  /\ run \in Producer
  /\ run.state # "unborn" /\ run.workflow \in Workflows
  /\ run.subject \in Heads /\ run.attempt \in Attempts
  /\ run.state = "completed" => run.results[run.attempt] # "none"
  /\ \A a \in Attempts : run.results[a] # "none" =>
       a < run.attempt \/ (a = run.attempt /\ run.state = "completed")
  /\ producers[r].state # "unborn" =>
       /\ run.workflow = producers[r].workflow /\ run.subject = producers[r].subject
       /\ run.attempt >= producers[r].attempt
       /\ \A a \in Attempts : producers[r].results[a] # "none" =>
            run.results[a] = producers[r].results[a]

LEMMA ProducerBecomesSuffices ==
  ASSUME TypeOK, ProducersRecorded, NEW r \in RunIds, NEW run, ProducerBecomes(r, run)
  PROVE  ProducersChange
<1>1. producers' \in [RunIds -> Producer]
  BY DEF TypeOK, ProducerBecomes
<1>2. ASSUME NEW q \in RunIds, q # r PROVE producers'[q] = producers[q]
  BY <1>2 DEF TypeOK, ProducerBecomes
<1>3. producers'[r] = run
  BY DEF TypeOK, ProducerBecomes
<1>4. ProducersRecorded'
  BY <1>2, <1>3 DEF ProducersRecorded, ProducerBecomes
<1>5. ProducersExtend
  <2> SUFFICES ASSUME NEW q \in RunIds, producers[q].state # "unborn"
               PROVE  /\ producers'[q].workflow = producers[q].workflow
                      /\ producers'[q].subject = producers[q].subject
                      /\ producers'[q].attempt >= producers[q].attempt
                      /\ \A a \in Attempts : producers[q].results[a] # "none" =>
                           producers'[q].results[a] = producers[q].results[a]
    BY DEF ProducersExtend
  <2>1. CASE q = r
    BY <1>3, <2>1 DEF ProducerBecomes
  <2>2. CASE q # r
    <3>1. producers[q].attempt \in Int
      BY DEF TypeOK, Producer
    <3> QED BY <1>2, <2>2, <3>1
  <2> QED BY <2>1, <2>2
<1> QED BY <1>1, <1>4, <1>5 DEF ProducersChange

LEMMA ProducersStay ==
  ASSUME TypeOK, ProducersRecorded, UNCHANGED producers PROVE ProducersChange
<1>1. \A r \in RunIds : producers[r].attempt \in Int
  BY DEF TypeOK, Producer
<1> QED BY <1>1 DEF TypeOK, ProducersRecorded, ProducersChange, ProducersExtend

LEMMA UnbornProducerType == UnbornProducer \in Producer
<1>1. 0 \in 0 .. MaxAttempts
  BY PRCertificationAssumption DEF PRCertificationAssumption
<1>2. [a \in Attempts |-> "none"] \in [Attempts -> Results \cup {"none"}]
  OBVIOUS
<1> QED BY <1>1, <1>2 DEF UnbornProducer, Producer

LEMMA StartProducerChange ==
  ASSUME TypeOK, NEW r \in RunIds, NEW w \in Workflows, NEW h \in Heads,
         StartProducer(r, w, h)
  PROVE  \E run : ProducerBecomes(r, run)
<1> DEFINE run == [UnbornProducer EXCEPT !.workflow = w, !.subject = h, !.attempt = 1,
                                         !.state = "running"]
<1>1. 1 \in Attempts /\ Attempts \subseteq 0 .. MaxAttempts /\ 0 \in 0 .. MaxAttempts
  BY PRCertificationAssumption DEF Attempts, PRCertificationAssumption
<1>2. UnbornProducer \in Producer
  BY UnbornProducerType
<1>3. run \in Producer
  BY <1>1, <1>2 DEF Producer
<1>4. /\ run.workflow = w /\ run.subject = h /\ run.attempt = 1
      /\ run.state = "running" /\ run.results = UnbornProducer.results
  BY <1>2 DEF Producer
<1>5. \A a \in Attempts : run.results[a] = "none"
  BY <1>4 DEF UnbornProducer
<1>6. producers' = [producers EXCEPT ![r] = run] /\ producers[r].state = "unborn"
  BY DEF StartProducer
<1>7. ProducerBecomes(r, run)
  BY <1>1, <1>3, <1>4, <1>5, <1>6 DEF ProducerBecomes
<1> QED BY <1>7

LEMMA RerunProducerChange ==
  ASSUME TypeOK, ProducersRecorded, NEW r \in RunIds, RerunProducer(r)
  PROVE  \E run : ProducerBecomes(r, run)
<1> DEFINE run == [producers[r] EXCEPT !.attempt = producers[r].attempt + 1,
                                       !.state = "running"]
<1>1. producers[r] \in Producer
  BY DEF TypeOK
<1>2. producers' = [producers EXCEPT ![r] = run]
  BY <1>1 DEF RerunProducer, TypeOK
<1>3. producers[r].attempt + 1 \in Attempts /\ producers[r].attempt \in Attempts
  BY PRCertificationAssumption
  DEF RerunProducer, ProducersRecorded, Attempts, PRCertificationAssumption
<1>4. run \in Producer
  <2>1. producers[r].attempt + 1 \in 0 .. MaxAttempts
    BY <1>3 DEF Attempts
  <2> QED BY <1>1, <2>1 DEF Producer
<1>5. /\ run.workflow = producers[r].workflow /\ run.subject = producers[r].subject
      /\ run.attempt = producers[r].attempt + 1 /\ run.state = "running"
      /\ run.results = producers[r].results
  BY <1>1 DEF Producer
<1>6. /\ run.workflow \in Workflows /\ run.subject \in Heads
      /\ \A a \in Attempts : run.results[a] # "none" => a < run.attempt
  BY <1>3, <1>5 DEF RerunProducer, ProducersRecorded, Attempts
<1>7. run.attempt >= producers[r].attempt
  BY <1>3, <1>5 DEF Attempts
<1>8. ProducerBecomes(r, run)
  BY <1>2, <1>3, <1>4, <1>5, <1>6, <1>7 DEF ProducerBecomes
<1> QED BY <1>8

LEMMA CompleteProducerChange ==
  ASSUME TypeOK, ProducersRecorded, NEW r \in RunIds, NEW result \in Results,
         NEW f \in FinalizerIds, CompleteProducer(r, result, f)
  PROVE  \E run : ProducerBecomes(r, run)
<1> DEFINE old == producers[r]
           run == [old EXCEPT !.state = "completed",
                              !.results = [old.results EXCEPT ![old.attempt] = result]]
<1>1. old \in Producer /\ old.state = "running"
  BY DEF TypeOK, CompleteProducer
<1>2. producers' = [producers EXCEPT ![r] = run]
  BY DEF CompleteProducer
<1>3. old.attempt \in Attempts /\ old.workflow \in Workflows /\ old.subject \in Heads
  BY <1>1 DEF ProducersRecorded
<1>4. /\ run.workflow = old.workflow /\ run.subject = old.subject
      /\ run.attempt = old.attempt /\ run.state = "completed"
      /\ run.results = [old.results EXCEPT ![old.attempt] = result]
  BY <1>1 DEF Producer
<1>5. /\ run.results[old.attempt] = result /\ result # "none"
      /\ \A a \in Attempts : a # old.attempt => run.results[a] = old.results[a]
  BY <1>1, <1>3, <1>4 DEF Producer, Results
<1>6. run \in Producer
  BY <1>1, <1>3 DEF Producer
<1>7. \A a \in Attempts : old.results[a] # "none" => a < old.attempt
  BY <1>1 DEF ProducersRecorded
<1>8. run.attempt >= old.attempt
  BY <1>3, <1>4 DEF Attempts
<1>9. \A a \in Attempts : old.results[a] # "none" => run.results[a] = old.results[a]
  BY <1>3, <1>5, <1>7 DEF Attempts
<1>10. \A a \in Attempts : run.results[a] # "none" =>
         a < run.attempt \/ (a = run.attempt /\ run.state = "completed")
  BY <1>3, <1>4, <1>5, <1>7
<1>11. ProducerBecomes(r, run)
  BY <1>2, <1>3, <1>4, <1>5, <1>6, <1>8, <1>9, <1>10 DEF ProducerBecomes
<1> QED BY <1>11

LEMMA EveryProducersChange ==
  ASSUME TypeOK, ProducersRecorded, [Next]_vars
  PROVE  ProducersChange
<1>1. ASSUME NEW r \in RunIds, NEW w \in Workflows, NEW h \in Heads, StartProducer(r, w, h)
      PROVE  ProducersChange
  BY <1>1, StartProducerChange, ProducerBecomesSuffices
<1>2. ASSUME NEW r \in RunIds, RerunProducer(r) PROVE ProducersChange
  BY <1>2, RerunProducerChange, ProducerBecomesSuffices
<1>3. ASSUME NEW r \in RunIds, NEW result \in Results, NEW f \in FinalizerIds,
             CompleteProducer(r, result, f)
      PROVE  ProducersChange
  BY <1>3, CompleteProducerChange, ProducerBecomesSuffices
<1>4. CASE UNCHANGED producers
  BY <1>4, ProducersStay
<1> QED
  BY <1>1, <1>2, <1>3, <1>4
  DEF Next, vars, provider, MoveMain, PushHead, FinalizerStep, StartFinalizer, ReadHead,
      ReadProducer, VerifyEvidence, UploadObservation, RerunFinalizer, LoseFinalizer,
      RerunPublisher, BeginPublication, PublisherStep, ReadAndDecide, CreateCheckRun,
      LosePublisher, BecomeFinalizer, Raise

\* A witness of a success is never lost.
LEMMA WitnessSurvives ==
  ASSUME TypeOK, ProducersRecorded, ProducersChange,
         NEW w \in Workflows, NEW h, Witnessed(w, h)
  PROVE  Witnessed(w, h)'
<1>1. PICK r \in RunsOf(w, h), a \in Attempts :
        \/ producers[r].results[a] = "success"
        \/ producers[r].results[a] = "rejected" /\ a < producers[r].attempt
  BY DEF Witnessed
<1>2. r \in RunIds /\ producers[r].state # "unborn"
  BY <1>1 DEF RunsOf, ProducersRecorded, Workflows
<1>3. RunsOf(w, h)' = {q \in RunIds : producers'[q].workflow = w /\ producers'[q].subject = h}
  BY DEF RunsOf
<1>4. r \in RunsOf(w, h)'
  BY <1>1, <1>2, <1>3 DEF RunsOf, ProducersChange, ProducersExtend
<1>5. /\ producers'[r].results[a] = producers[r].results[a]
      /\ producers'[r].attempt >= producers[r].attempt
  BY <1>1, <1>2 DEF ProducersChange, ProducersExtend
<1>6. producers'[r].attempt \in Int /\ producers[r].attempt \in Int /\ a \in Int
  BY <1>2 DEF TypeOK, ProducersChange, Producer, Attempts
<1> QED BY <1>1, <1>4, <1>5, <1>6 DEF Witnessed

(***************************************************************************)
(* The latest run of a head.                                               *)
(***************************************************************************)
LEMMA LatestExists ==
  ASSUME NEW S \in SUBSET RunIds, S # {}
  PROVE  \E r \in S : \A q \in S : q <= r
<1> DEFINE below == {MaxRuns - r : r \in S}
<1>1. below \subseteq Nat /\ below # {}
  <2>1. ASSUME NEW r \in S PROVE MaxRuns - r \in Nat
    <3>1. r \in RunIds
      OBVIOUS
    <3> QED BY <3>1, PRCertificationAssumption DEF RunIds, PRCertificationAssumption
  <2> QED BY <2>1
<1>2. PICK n \in below : \A m \in below : ~ (<<m, n>> \in OpToRel(<, Nat))
  BY <1>1, NatLessThanWellFounded, WFMin
<1>3. \A m \in below : ~ (m < n)
  BY <1>1, <1>2 DEF OpToRel
<1>4. PICK r \in S : n = MaxRuns - r
  BY <1>2
<1>5. ASSUME NEW q \in S PROVE q <= r
  <2>1. ~ (MaxRuns - q < MaxRuns - r)
    BY <1>3, <1>4
  <2> QED
    BY <2>1, PRCertificationAssumption DEF RunIds, PRCertificationAssumption
<1> QED BY <1>5

\* What _producer_state selects is typed, and is a completed attempt of that very
\* head if it says so.
LEMMA ProducerStateRecorded ==
  ASSUME TypeOK, ProducersRecorded, NEW w \in Workflows, NEW h \in Heads
  PROVE  LET s == ProducerState(w, h)
         IN  /\ s \in Selection /\ s.state \in States
             /\ s.state = "successful" =>
                  /\ s.run \in RunsOf(w, h) /\ s.attempt \in Attempts
                  /\ s.attempt <= producers[s.run].attempt
                  /\ producers[s.run].results[s.attempt] \in {"success", "rejected"}
<1>0. 0 \in 0 .. MaxAttempts
  BY PRCertificationAssumption DEF PRCertificationAssumption
<1>1. CASE RunsOf(w, h) = {}
  <2>1. ProducerState(w, h) = [Unread EXCEPT !.state = "pending"]
    BY <1>1 DEF ProducerState
  <2>2. Unread \in Selection
    BY <1>0 DEF Unread, Selection
  <2> QED BY <2>1, <2>2 DEF Selection, States
<1>2. CASE RunsOf(w, h) # {}
  <2> DEFINE r == CHOOSE q \in RunsOf(w, h) : \A p \in RunsOf(w, h) : p <= q
             a == producers[r].attempt
             v == IF producers[r].state # "completed" THEN "pending"
                  ELSE IF producers[r].results[a] = "failure" THEN "failed"
                  ELSE "successful"
  <2>1. RunsOf(w, h) \in SUBSET RunIds
    BY DEF RunsOf
  <2>2. r \in RunsOf(w, h)
    BY <1>2, <2>1, LatestExists
  <2>3. ProducerState(w, h) = [run |-> r, attempt |-> a, state |-> v]
    BY <1>2 DEF ProducerState
  <2>4. r \in RunIds /\ producers[r] \in Producer
    BY <2>1, <2>2 DEF TypeOK
  <2>5. v \in States
    BY DEF States
  <2>6. a \in Attempts
    BY <2>2, <2>4 DEF RunsOf, ProducersRecorded, Workflows
  <2>7. a <= producers[r].attempt
    BY <2>6 DEF Attempts
  <2>8. v = "successful" => producers[r].results[a] \in {"success", "rejected"}
    <3>1. producers[r].results[a] \in Results \cup {"none"}
      BY <2>4, <2>6 DEF Producer
    <3> QED BY <2>4, <3>1 DEF ProducersRecorded, Results
  <2>9. a \in 0 .. MaxAttempts
    BY <2>6 DEF Attempts
  <2>10. ProducerState(w, h) \in Selection
    BY <2>3, <2>4, <2>5, <2>9 DEF Selection
  <2> HIDE DEF r, a, v
  <2>11. /\ ProducerState(w, h).run = r /\ ProducerState(w, h).attempt = a
         /\ ProducerState(w, h).state = v
    BY <2>3
  <2> QED BY <2>2, <2>5, <2>6, <2>7, <2>8, <2>10, <2>11
<1> QED BY <1>1, <1>2

(***************************************************************************)
(* How a step may change the finalizer runs.                               *)
(***************************************************************************)
FinalizersChange ==
  finalizers' \in [FinalizerIds -> Finalizer] /\ FinalizersRecorded'

\* One finalizer becomes `run`, which the producers support as they are.
FinalizerBecomes(f, run) ==
  /\ finalizers' = [finalizers EXCEPT ![f] = run]
  /\ run \in Finalizer /\ FinalizerRecorded(run)

\* What a finalizer recorded stays true whatever the producers do.
LEMMA FinalizerSurvives ==
  ASSUME TypeOK, ProducersRecorded, ProducersChange,
         NEW run \in Finalizer, FinalizerRecorded(run)
  PROVE  FinalizerRecorded(run)'
<1>1. ASSUME NEW w \in Workflows, SelectionRecorded(run, w)
      PROVE  SelectionRecorded(run, w)'
  <2> SUFFICES ASSUME run.selected[w].state = "successful"
               PROVE  /\ run.selected[w].run \in RunsOf(w, run.head)'
                      /\ run.selected[w].attempt \in Attempts
                      /\ run.selected[w].attempt <= producers'[run.selected[w].run].attempt
                      /\ producers'[run.selected[w].run].results[run.selected[w].attempt]
                           \in {"success", "rejected"}
    BY DEF SelectionRecorded
  <2> DEFINE r == run.selected[w].run
             a == run.selected[w].attempt
  <2>1. /\ r \in RunIds /\ producers[r].workflow = w /\ producers[r].subject = run.head
        /\ a \in Attempts /\ a <= producers[r].attempt
        /\ producers[r].results[a] \in {"success", "rejected"}
    BY <1>1 DEF SelectionRecorded, RunsOf
  <2>2. producers[r].state # "unborn"
    BY <2>1 DEF ProducersRecorded, Workflows
  <2>3. /\ producers'[r].workflow = w /\ producers'[r].subject = run.head
        /\ producers'[r].attempt >= producers[r].attempt
        /\ producers'[r].results[a] = producers[r].results[a]
    BY <2>1, <2>2 DEF ProducersChange, ProducersExtend
  <2>4. producers'[r].attempt \in Int /\ producers[r].attempt \in Int /\ a \in Int
    BY <2>1 DEF TypeOK, ProducersChange, Producer, Attempts
  <2> HIDE DEF r, a
  <2>5. r \in RunsOf(w, run.head)'
    BY <2>1, <2>3 DEF RunsOf
  <2>6. a <= producers'[r].attempt
    BY <2>1, <2>3, <2>4
  <2> QED BY <2>1, <2>3, <2>5, <2>6 DEF r, a
<1>2. \A w \in Workflows : run.cursor > w => SelectionRecorded(run, w)'
  BY <1>1 DEF FinalizerRecorded
<1>3. \A w \in Workflows :
        run.cursor > WorkflowCount + w /\ run.selected[w].state = "successful"
          => Witnessed(w, run.head)'
  BY WitnessSurvives DEF FinalizerRecorded
<1> QED BY <1>2, <1>3 DEF FinalizerRecorded

LEMMA FinalizerBecomesSuffices ==
  ASSUME TypeOK, ProducersRecorded, FinalizersRecorded, ProducersChange,
         NEW f \in FinalizerIds, NEW run, FinalizerBecomes(f, run)
  PROVE  FinalizersChange
<1>1. finalizers' \in [FinalizerIds -> Finalizer]
  BY DEF TypeOK, FinalizerBecomes
<1>2. ASSUME NEW g \in FinalizerIds PROVE FinalizerRecorded(finalizers[g])'
  <2>1. PICK next : next = finalizers'[g]
    OBVIOUS
  <2>2. next \in Finalizer /\ FinalizerRecorded(next)
    BY <2>1 DEF TypeOK, FinalizerBecomes, FinalizersRecorded
  <2>3. FinalizerRecorded(next)'
    BY <2>2, FinalizerSurvives
  <2> QED BY <2>1, <2>3
<1> QED BY <1>1, <1>2 DEF FinalizersChange, FinalizersRecorded

LEMMA FinalizersStay ==
  ASSUME TypeOK, ProducersRecorded, FinalizersRecorded, ProducersChange,
         UNCHANGED finalizers
  PROVE  FinalizersChange
<1>1. ASSUME NEW g \in FinalizerIds PROVE FinalizerRecorded(finalizers[g])'
  <2>1. PICK next : next = finalizers[g]
    OBVIOUS
  <2>2. next \in Finalizer /\ FinalizerRecorded(next)
    BY <2>1 DEF TypeOK, FinalizersRecorded
  <2>3. FinalizerRecorded(next)'
    BY <2>2, FinalizerSurvives
  <2> QED BY <2>1, <2>3
<1> QED BY <1>1 DEF TypeOK, FinalizersChange, FinalizersRecorded

\* A finalizer that forgot its reads has nothing left to prove.
LEMMA CursorZeroIsRecorded ==
  ASSUME NEW run \in Finalizer, run.cursor = 0, run.phase # "done",
         run.phase # "unborn" =>
           run.main \in Mains /\ run.run \in RunIds /\ run.attempt \in Nat \ {0}
  PROVE  FinalizerRecorded(run)
<1>1. WorkflowCount \in Nat \ {0} /\ \A w \in Workflows : w \in Nat \ {0}
  BY PRCertificationAssumption DEF Workflows, PRCertificationAssumption
<1> QED BY <1>1 DEF FinalizerRecorded

LEMMA ForgottenFields ==
  ASSUME NEW run \in Finalizer
  PROVE  /\ Forgotten(run) \in Finalizer
         /\ Forgotten(run).cursor = 0
         /\ Forgotten(run).phase = run.phase /\ Forgotten(run).main = run.main
         /\ Forgotten(run).run = run.run /\ Forgotten(run).attempt = run.attempt
<1>1. 0 \in 0 .. (2 * WorkflowCount + 1) /\ 0 \in 0 .. MaxAttempts
  BY PRCertificationAssumption DEF PRCertificationAssumption
<1>2. NothingSelected \in [Workflows -> Selection]
  BY <1>1 DEF NothingSelected, Unread, Selection
<1> QED BY <1>1, <1>2 DEF Forgotten, Finalizer

LEMMA RaiseChange ==
  ASSUME TypeOK, FinalizersRecorded, NEW f \in FinalizerIds,
         finalizers[f].phase # "unborn", Raise(f)
  PROVE  \E run : FinalizerBecomes(f, run)
<1> DEFINE old == finalizers[f]
           run == [Forgotten(old) EXCEPT !.phase = "failed"]
<1>1. old \in Finalizer
  BY DEF TypeOK
<1>2. run \in Finalizer /\ run.cursor = 0 /\ run.phase = "failed"
  BY <1>1, ForgottenFields DEF Finalizer
<1>3. run.main = old.main /\ run.run = old.run /\ run.attempt = old.attempt
  BY <1>1, ForgottenFields DEF Finalizer
<1>4. old.main \in Mains /\ old.run \in RunIds /\ old.attempt \in Nat \ {0}
  BY DEF FinalizersRecorded, FinalizerRecorded
<1> HIDE DEF run, old
<1>5. FinalizerRecorded(run)
  BY <1>2, <1>3, <1>4, CursorZeroIsRecorded
<1>6. finalizers' = [finalizers EXCEPT ![f] = run]
  BY DEF Raise, BecomeFinalizer, run, old
<1> QED BY <1>2, <1>5, <1>6 DEF FinalizerBecomes

LEMMA QueuedChange ==
  ASSUME TypeOK, ProducersRecorded, NEW r \in RunIds, NEW result \in Results,
         NEW f \in FinalizerIds, CompleteProducer(r, result, f)
  PROVE  \E run : FinalizerBecomes(f, run)
<1> DEFINE run == [UnbornFinalizer EXCEPT !.phase = "queued", !.main = main, !.run = r,
                                          !.trigger = producers[r].attempt, !.attempt = 1]
<1>1. 0 \in 0 .. (2 * WorkflowCount + 1) /\ 0 \in 0 .. MaxAttempts
  BY PRCertificationAssumption DEF PRCertificationAssumption
<1>2. NothingSelected \in [Workflows -> Selection]
  BY <1>1 DEF NothingSelected, Unread, Selection
<1>3. UnbornFinalizer \in Finalizer /\ UnbornFinalizer.cursor = 0
  BY <1>1, <1>2 DEF UnbornFinalizer, Finalizer
<1>4. producers[r].attempt \in 0 .. MaxAttempts /\ main \in Mains
  BY DEF TypeOK, Producer
<1>5. /\ run \in Finalizer /\ run.cursor = 0 /\ run.phase = "queued"
      /\ run.main = main /\ run.run = r /\ run.attempt = 1
  BY <1>3, <1>4 DEF Finalizer
<1>6. finalizers' = [finalizers EXCEPT ![f] = run]
  BY DEF CompleteProducer
<1> HIDE DEF run
<1>7. FinalizerRecorded(run)
  BY <1>4, <1>5, CursorZeroIsRecorded
<1> QED BY <1>5, <1>6, <1>7 DEF FinalizerBecomes

LEMMA StartFinalizerChange ==
  ASSUME TypeOK, FinalizersRecorded, NEW f \in FinalizerIds, StartFinalizer(f)
  PROVE  \E run : FinalizerBecomes(f, run)
<1> DEFINE old == finalizers[f]
           run == [old EXCEPT !.phase = "running"]
<1>1. CASE Raise(f)
  BY <1>1, RaiseChange DEF StartFinalizer
<1>2. CASE BecomeFinalizer(f, run)
  <2>1. old \in Finalizer /\ FinalizerRecorded(old) /\ old.phase = "queued"
    BY DEF TypeOK, FinalizersRecorded, StartFinalizer
  <2>2. /\ run \in Finalizer /\ run.phase = "running" /\ run.main = old.main
        /\ run.run = old.run /\ run.attempt = old.attempt /\ run.cursor = old.cursor
        /\ run.head = old.head /\ run.selected = old.selected
    BY <2>1 DEF Finalizer
  <2>3. finalizers' = [finalizers EXCEPT ![f] = run]
    BY <1>2 DEF BecomeFinalizer
  <2> HIDE DEF run, old
  <2>4. FinalizerRecorded(run)
    BY <2>1, <2>2 DEF FinalizerRecorded, SelectionRecorded
  <2> QED BY <2>2, <2>3, <2>4 DEF FinalizerBecomes
<1> QED BY <1>1, <1>2 DEF StartFinalizer

LEMMA ReadHeadChange ==
  ASSUME TypeOK, FinalizersRecorded, NEW f \in FinalizerIds, ReadHead(f)
  PROVE  \E run : FinalizerBecomes(f, run)
<1> DEFINE old == finalizers[f]
           run == [old EXCEPT !.head = head, !.cursor = 1]
<1>1. CASE Raise(f)
  BY <1>1, RaiseChange DEF ReadHead, Running
<1>2. CASE BecomeFinalizer(f, run)
  <2>1. old \in Finalizer /\ FinalizerRecorded(old) /\ old.phase = "running"
    BY DEF TypeOK, FinalizersRecorded, ReadHead, Running
  <2>2. 1 \in 0 .. (2 * WorkflowCount + 1) /\ head \in Heads
    BY PRCertificationAssumption DEF TypeOK, PRCertificationAssumption
  <2>3. /\ run \in Finalizer /\ run.phase = "running" /\ run.main = old.main
        /\ run.run = old.run /\ run.attempt = old.attempt /\ run.cursor = 1
        /\ run.head = head
    BY <2>1, <2>2 DEF Finalizer
  <2>4. finalizers' = [finalizers EXCEPT ![f] = run]
    BY <1>2 DEF BecomeFinalizer
  <2>5. WorkflowCount \in Nat \ {0} /\ \A w \in Workflows : w \in Nat \ {0}
    BY PRCertificationAssumption DEF Workflows, PRCertificationAssumption
  <2> HIDE DEF run, old
  <2>6. FinalizerRecorded(run)
    BY <2>1, <2>2, <2>3, <2>5 DEF FinalizerRecorded
  <2> QED BY <2>3, <2>4, <2>6 DEF FinalizerBecomes
<1> QED BY <1>1, <1>2 DEF ReadHead

LEMMA ReadProducerChange ==
  ASSUME TypeOK, ProducersRecorded, FinalizersRecorded,
         NEW f \in FinalizerIds, ReadProducer(f)
  PROVE  \E run : FinalizerBecomes(f, run)
<1> DEFINE old == finalizers[f]
           c == old.cursor
           s == ProducerState(c, old.head)
           run == [old EXCEPT !.selected = [old.selected EXCEPT ![c] = s], !.cursor = c + 1]
<1>1. old \in Finalizer /\ FinalizerRecorded(old) /\ old.phase = "running"
  BY DEF TypeOK, FinalizersRecorded, ReadProducer, Running
<1>2. WorkflowCount \in Nat \ {0} /\ \A w \in Workflows : w \in 1 .. WorkflowCount
  BY PRCertificationAssumption DEF Workflows, PRCertificationAssumption
<1>3. c \in Workflows /\ c \in Nat \ {0}
  BY <1>2 DEF ReadProducer, Running, Workflows
<1>4. old.head \in Heads
  BY <1>1, <1>3 DEF FinalizerRecorded
<1>5. /\ s \in Selection /\ s.state \in States
      /\ s.state = "successful" =>
           /\ s.run \in RunsOf(c, old.head) /\ s.attempt \in Attempts
           /\ s.attempt <= producers[s.run].attempt
           /\ producers[s.run].results[s.attempt] \in {"success", "rejected"}
  BY <1>3, <1>4, ProducerStateRecorded
<1>6. finalizers' = [finalizers EXCEPT ![f] = run]
  BY DEF ReadProducer, BecomeFinalizer
<1>7. c + 1 \in 0 .. (2 * WorkflowCount + 1)
  BY <1>2, <1>3
<1> HIDE DEF s, c
<1>8. /\ run \in Finalizer /\ run.phase = "running" /\ run.main = old.main
      /\ run.run = old.run /\ run.attempt = old.attempt /\ run.cursor = c + 1
      /\ run.head = old.head /\ run.selected = [old.selected EXCEPT ![c] = s]
  BY <1>1, <1>3, <1>5, <1>7 DEF Finalizer
<1>9. run.selected[c] = s /\ \A w \in Workflows : w # c => run.selected[w] = old.selected[w]
  BY <1>1, <1>3, <1>8 DEF Finalizer
<1> HIDE DEF run
<1>10. ASSUME NEW w \in Workflows, run.cursor > w
       PROVE  run.selected[w].state \in States /\ SelectionRecorded(run, w)
  <2>1. CASE w = c
    BY <1>5, <1>8, <1>9, <2>1 DEF SelectionRecorded
  <2>2. CASE w # c
    <3>1. old.cursor > w
      BY <1>2, <1>3, <1>8, <1>10, <2>2 DEF c
    <3> QED BY <1>1, <1>8, <1>9, <2>2, <3>1 DEF FinalizerRecorded, SelectionRecorded
  <2> QED BY <2>1, <2>2
<1>11. \A w \in Workflows : ~ (run.cursor > WorkflowCount + w)
  BY <1>2, <1>3, <1>8 DEF Workflows
<1>12. FinalizerRecorded(run)
  BY <1>1, <1>4, <1>8, <1>10, <1>11 DEF FinalizerRecorded
<1> QED BY <1>6, <1>8, <1>12 DEF FinalizerBecomes

\* Accepted evidence is of an attempt that was successful, or of a newer one.
LEMMA AcceptedIsWitnessed ==
  ASSUME TypeOK, ProducersRecorded, NEW run \in Finalizer, NEW w \in Workflows,
         SelectionRecorded(run, w), run.selected[w].state = "successful",
         "accepted" \in EvidenceOutcomes(run, run.selected[w])
  PROVE  Witnessed(w, run.head)
<1> DEFINE s == run.selected[w]
           r == s.run
           now == producers[r].attempt
<1>1. /\ r \in RunsOf(w, run.head) /\ s.attempt \in Attempts /\ s.attempt <= now
      /\ producers[r].results[s.attempt] \in {"success", "rejected"}
  BY DEF SelectionRecorded
<1>2. r \in RunIds /\ producers[r].workflow = w
  BY <1>1 DEF RunsOf
<1>3. now \in Attempts
  BY <1>2 DEF ProducersRecorded, Workflows
<1>4. CASE producers[r].results[now] = "success"
  BY <1>1, <1>3, <1>4 DEF Witnessed
<1>5. CASE producers[r].results[now] # "success"
  <2>1. producers[r].results[now] # "rejected"
    BY <1>5 DEF EvidenceOutcomes
  <2>2. s.attempt # now
    BY <1>1, <1>5, <2>1
  <2>3. s.attempt < now
    BY <1>1, <1>3, <2>2 DEF Attempts
  <2> QED BY <1>1, <2>3 DEF Witnessed
<1> QED BY <1>4, <1>5

LEMMA VerifyEvidenceChange ==
  ASSUME TypeOK, ProducersRecorded, FinalizersRecorded,
         NEW f \in FinalizerIds, VerifyEvidence(f)
  PROVE  \E run : FinalizerBecomes(f, run)
<1> DEFINE old == finalizers[f]
           c == old.cursor
           v == c - WorkflowCount
           run == [old EXCEPT !.cursor = c + 1]
<1>1. old \in Finalizer /\ FinalizerRecorded(old) /\ old.phase = "running"
  BY DEF TypeOK, FinalizersRecorded, VerifyEvidence, Running
<1>2. CASE Raise(f)
  BY <1>1, <1>2, RaiseChange
<1>3. CASE BecomeFinalizer(f, run) /\ "accepted" \in EvidenceOutcomes(old, old.selected[v])
  <2>1. WorkflowCount \in Nat \ {0} /\ \A w \in Workflows : w \in 1 .. WorkflowCount
    BY PRCertificationAssumption DEF Workflows, PRCertificationAssumption
  <2>2. c \in Nat /\ c >= WorkflowCount + 1 /\ c <= 2 * WorkflowCount
    BY <2>1 DEF VerifyEvidence, Running
  <2>3. v \in Workflows /\ c > v
    BY <2>1, <2>2 DEF Workflows
  <2>4. c + 1 \in 0 .. (2 * WorkflowCount + 1)
    BY <2>1, <2>2
  <2>5. /\ run \in Finalizer /\ run.phase = "running" /\ run.main = old.main
        /\ run.run = old.run /\ run.attempt = old.attempt /\ run.cursor = c + 1
        /\ run.head = old.head /\ run.selected = old.selected
    BY <1>1, <2>4 DEF Finalizer
  <2>6. finalizers' = [finalizers EXCEPT ![f] = run]
    BY <1>3 DEF BecomeFinalizer
  <2>7. SelectionRecorded(old, v)
    BY <1>1, <2>3 DEF FinalizerRecorded
  <2>8. old.selected[v].state = "successful" => Witnessed(v, old.head)
    BY <1>1, <1>3, <2>3, <2>7, AcceptedIsWitnessed
  <2> HIDE DEF run
  <2>9. ASSUME NEW w \in Workflows
        PROVE  run.selected[w].state \in States /\ SelectionRecorded(run, w)
    <3>1. old.cursor > w
      BY <2>1, <2>2
    <3> QED BY <1>1, <2>5, <3>1 DEF FinalizerRecorded, SelectionRecorded
  <2>10. ASSUME NEW w \in Workflows, run.cursor > WorkflowCount + w,
                run.selected[w].state = "successful"
         PROVE  Witnessed(w, run.head)
    <3>1. CASE w = v
      BY <2>5, <2>8, <2>10, <3>1
    <3>2. CASE w # v
      <4>1. old.cursor > WorkflowCount + w
        BY <2>1, <2>2, <2>5, <2>10, <3>2
      <4> QED BY <1>1, <2>5, <2>10, <4>1 DEF FinalizerRecorded
    <3> QED BY <3>1, <3>2
  <2>11. old.head \in Heads
    BY <1>1, <2>1, <2>2 DEF FinalizerRecorded
  <2>12. FinalizerRecorded(run)
    BY <1>1, <2>5, <2>9, <2>10, <2>11 DEF FinalizerRecorded
  <2> QED BY <2>5, <2>6, <2>12 DEF FinalizerBecomes
<1> QED BY <1>2, <1>3 DEF VerifyEvidence

LEMMA UploadObservationChange ==
  ASSUME TypeOK, FinalizersRecorded, NEW f \in FinalizerIds, UploadObservation(f)
  PROVE  \E run : FinalizerBecomes(f, run)
<1> DEFINE old == finalizers[f]
           run == [old EXCEPT !.phase = "done"]
<1>1. old \in Finalizer /\ FinalizerRecorded(old) /\ old.phase = "running"
  BY DEF TypeOK, FinalizersRecorded, UploadObservation, Running
<1>2. /\ run \in Finalizer /\ run.phase = "done" /\ run.main = old.main
      /\ run.run = old.run /\ run.attempt = old.attempt /\ run.cursor = old.cursor
      /\ run.head = old.head /\ run.selected = old.selected
  BY <1>1 DEF Finalizer
<1>3. old.cursor = 2 * WorkflowCount + 1
  BY <1>1, PRCertificationAssumption
  DEF UploadObservation, Running, Finalizer, PRCertificationAssumption
<1>4. finalizers' = [finalizers EXCEPT ![f] = run]
  BY DEF UploadObservation, BecomeFinalizer
<1> HIDE DEF run, old
<1>5. FinalizerRecorded(run)
  BY <1>1, <1>2, <1>3 DEF FinalizerRecorded, SelectionRecorded
<1> QED BY <1>2, <1>4, <1>5 DEF FinalizerBecomes

LEMMA RerunFinalizerChange ==
  ASSUME TypeOK, FinalizersRecorded, NEW f \in FinalizerIds, RerunFinalizer(f)
  PROVE  \E run : FinalizerBecomes(f, run)
<1> DEFINE old == finalizers[f]
           run == [Forgotten(old) EXCEPT !.phase = "queued", !.attempt = old.attempt + 1]
<1>1. old \in Finalizer /\ FinalizerRecorded(old) /\ old.phase # "unborn"
  BY DEF TypeOK, FinalizersRecorded, RerunFinalizer
<1>2. old.main \in Mains /\ old.run \in RunIds /\ old.attempt \in Nat \ {0}
  BY <1>1 DEF FinalizerRecorded
<1>3. old.attempt + 1 \in Nat \ {0} /\ old.attempt + 1 \in Nat
  BY <1>2
<1>4. /\ run \in Finalizer /\ run.cursor = 0 /\ run.phase = "queued"
      /\ run.main = old.main /\ run.run = old.run /\ run.attempt = old.attempt + 1
  <2>1. PICK blank \in Finalizer :
          /\ blank = Forgotten(old) /\ blank.cursor = 0
          /\ blank.main = old.main /\ blank.run = old.run
    BY <1>1, ForgottenFields
  <2>2. run = [blank EXCEPT !.phase = "queued", !.attempt = old.attempt + 1]
    BY <2>1
  <2> QED BY <1>3, <2>1, <2>2 DEF Finalizer
<1>5. finalizers' = [finalizers EXCEPT ![f] = run]
  BY DEF RerunFinalizer, BecomeFinalizer
<1> HIDE DEF run, old
<1>6. FinalizerRecorded(run)
  BY <1>2, <1>3, <1>4, CursorZeroIsRecorded
<1> QED BY <1>4, <1>5, <1>6 DEF FinalizerBecomes

LEMMA EveryFinalizersChange ==
  ASSUME TypeOK, ProducersRecorded, FinalizersRecorded, [Next]_vars
  PROVE  FinalizersChange
<1>0. ProducersChange
  BY EveryProducersChange
<1>1. ASSUME NEW r \in RunIds, NEW result \in Results, NEW f \in FinalizerIds,
             CompleteProducer(r, result, f)
      PROVE  FinalizersChange
  BY <1>0, <1>1, QueuedChange, FinalizerBecomesSuffices
<1>2. ASSUME NEW f \in FinalizerIds, FinalizerStep(f) PROVE FinalizersChange
  BY <1>0, <1>2, StartFinalizerChange, ReadHeadChange, ReadProducerChange,
     VerifyEvidenceChange, UploadObservationChange, FinalizerBecomesSuffices
  DEF FinalizerStep
<1>3. ASSUME NEW f \in FinalizerIds, RerunFinalizer(f) PROVE FinalizersChange
  BY <1>0, <1>3, RerunFinalizerChange, FinalizerBecomesSuffices
<1>4. ASSUME NEW f \in FinalizerIds, LoseFinalizer(f) PROVE FinalizersChange
  <2>1. \E run : FinalizerBecomes(f, run)
    BY <1>4, RaiseChange DEF LoseFinalizer
  <2> QED BY <1>0, <2>1, FinalizerBecomesSuffices
<1>5. CASE UNCHANGED finalizers
  BY <1>0, <1>5, FinalizersStay
<1> QED
  BY <1>1, <1>2, <1>3, <1>4, <1>5
  DEF Next, vars, MoveMain, PushHead, StartProducer, RerunProducer, RerunPublisher,
      BeginPublication, PublisherStep, ReadAndDecide, CreateCheckRun, LosePublisher

(***************************************************************************)
(* Observations, publications and checks.                                  *)
(***************************************************************************)

\* What a finalizer that verified all it selected uploads is witnessed.
LEMMA ObservationOfIsWitnessed ==
  ASSUME NEW f \in FinalizerIds, NEW run \in Finalizer, FinalizerRecorded(run),
         run.phase # "unborn", run.cursor = 2 * WorkflowCount + 1
  PROVE  ObservationOf(f, run) \in PRObservation /\ ObservationWitnessed(ObservationOf(f, run))
<1> DEFINE states == {run.selected[w].state : w \in Workflows}
           o == ObservationOf(f, run)
<1>1. WorkflowCount \in Nat \ {0} /\ \A w \in Workflows : w \in 1 .. WorkflowCount
  BY PRCertificationAssumption DEF Workflows, PRCertificationAssumption
<1>2. run.head \in Heads /\ run.attempt \in Nat \ {0}
  BY <1>1 DEF FinalizerRecorded
<1>3. \A w \in Workflows : run.cursor > w /\ run.cursor > WorkflowCount + w
  BY <1>1
<1>4. \A w \in Workflows : run.selected[w].state \in States
  BY <1>3 DEF FinalizerRecorded
<1>5. Aggregate(states) \in States
  BY DEF Aggregate, States
<1>6. o.head = run.head /\ o.state = Aggregate(states)
  BY DEF ObservationOf
<1>7. o \in PRObservation
  BY <1>2, <1>5 DEF ObservationOf, PRObservation
<1>8. ASSUME o.state = "successful", NEW w \in Workflows PROVE Witnessed(w, o.head)
  <2>1. "failed" \notin states /\ "pending" \notin states
    BY <1>6, <1>8 DEF Aggregate
  <2>2. run.selected[w].state = "successful"
    BY <1>4, <2>1 DEF States
  <2> QED BY <1>3, <1>6, <2>2 DEF FinalizerRecorded
<1> QED BY <1>7, <1>8 DEF ObservationWitnessed

\* A success is proposed for a successful observation only.
LEMMA ProposedIsWitnessed ==
  ASSUME NEW o \in PRObservation, ObservationWitnessed(o)
  PROVE  Proposed(o) \in Checks /\ CheckWitnessed(Proposed(o))
<1>1. /\ o.head \in Heads /\ o.finalizer \in Nat \ {0} /\ o.attempt \in Nat \ {0}
      /\ o.state \in States
  BY DEF PRObservation, FinalizerIds
<1>2. /\ Conclusion(o.state) \in Conclusions
      /\ Conclusion(o.state) = "success" => o.state = "successful"
  BY <1>1 DEF Conclusion, Conclusions, States
<1>3. Proposed(o) \in Checks
  BY <1>1, <1>2 DEF Proposed, Checks, Observation
<1>4. Proposed(o).subject = o.head /\ Proposed(o).conclusion = Conclusion(o.state)
  BY DEF Proposed
<1> QED BY <1>2, <1>3, <1>4 DEF ObservationWitnessed, CheckWitnessed

\* What was witnessed stays so whatever the producers do.
LEMMA PublishedSurvives ==
  ASSUME TypeOK, ProducersRecorded, ProducersChange
  PROVE  /\ \A o : ObservationWitnessed(o) => ObservationWitnessed(o)'
         /\ \A e : CheckWitnessed(e) => CheckWitnessed(e)'
         /\ \A job : PublicationWitnessed(job) => PublicationWitnessed(job)'
<1>1. ASSUME NEW o, ObservationWitnessed(o) PROVE ObservationWitnessed(o)'
  <2>1. ASSUME o.state = "successful", NEW w \in Workflows PROVE Witnessed(w, o.head)'
    <3>1. Witnessed(w, o.head)
      BY <1>1, <2>1 DEF ObservationWitnessed
    <3> QED BY <3>1, WitnessSurvives
  <2> QED BY <2>1 DEF ObservationWitnessed
<1>2. ASSUME NEW e, CheckWitnessed(e) PROVE CheckWitnessed(e)'
  <2>1. ASSUME e.conclusion = "success", NEW w \in Workflows PROVE Witnessed(w, e.subject)'
    <3>1. Witnessed(w, e.subject)
      BY <1>2, <2>1 DEF CheckWitnessed
    <3> QED BY <3>1, WitnessSurvives
  <2> QED BY <2>1 DEF CheckWitnessed
<1>3. ASSUME NEW job, PublicationWitnessed(job) PROVE PublicationWitnessed(job)'
  <2>1. job # Idle => CheckWitnessed(job.proposed)'
    BY <1>2, <1>3 DEF PublicationWitnessed
  <2> QED BY <2>1 DEF PublicationWitnessed
<1> QED BY <1>1, <1>2, <1>3

\* Only witnessed observations enter the queue.
LEMMA QueueChange ==
  ASSUME IInv, [Next]_vars, NEW o \in queue', o \notin queue
  PROVE  o \in PRObservation /\ ObservationWitnessed(o)
<1>1. ASSUME NEW f \in FinalizerIds, UploadObservation(f) PROVE o = ObservationOf(f, finalizers[f])
             /\ finalizers[f].phase # "unborn" /\ finalizers[f].cursor = 2 * WorkflowCount + 1
  <2>1. finalizers[f] \in Finalizer
    BY DEF IInv, TypeOK
  <2> QED BY <1>1, <2>1, PRCertificationAssumption
          DEF UploadObservation, Running, Finalizer, PRCertificationAssumption
<1>2. ASSUME NEW f \in FinalizerIds, RerunPublisher(f) PROVE o = ObservationOf(f, finalizers[f])
             /\ finalizers[f].phase # "unborn" /\ finalizers[f].cursor = 2 * WorkflowCount + 1
  BY <1>2 DEF RerunPublisher, IInv, FinalizersRecorded, FinalizerRecorded
<1>3. \E f \in FinalizerIds : UploadObservation(f) \/ RerunPublisher(f)
  BY DEF Next, vars, bounds, MoveMain, PushHead, StartProducer, RerunProducer,
         CompleteProducer, FinalizerStep, StartFinalizer, ReadHead, ReadProducer,
         VerifyEvidence, RerunFinalizer, LoseFinalizer, BeginPublication, PublisherStep,
         ReadAndDecide, CreateCheckRun, LosePublisher
<1>4. PICK f \in FinalizerIds :
        /\ o = ObservationOf(f, finalizers[f]) /\ finalizers[f].phase # "unborn"
        /\ finalizers[f].cursor = 2 * WorkflowCount + 1
  BY <1>1, <1>2, <1>3
<1>5. finalizers[f] \in Finalizer /\ FinalizerRecorded(finalizers[f])
  BY DEF IInv, TypeOK, FinalizersRecorded
<1> QED BY <1>4, <1>5, ObservationOfIsWitnessed

\* A publisher proposes what a witnessed observation says and keeps its proposal.
LEMMA PublisherChange ==
  ASSUME IInv, [Next]_vars
  PROVE  /\ publisher' \in [Publishers -> Publication \cup {Idle}]
         /\ \A p \in Publishers : PublicationWitnessed(publisher'[p])
<1> DEFINE Goal == /\ publisher' \in [Publishers -> Publication \cup {Idle}]
                   /\ \A p \in Publishers : PublicationWitnessed(publisher'[p])
           Fine(job) == job \in Publication \cup {Idle} /\ PublicationWitnessed(job)
<1>1. \A p \in Publishers : Fine(publisher[p])
  BY DEF IInv, TypeOK, PublishedIsWitnessed
<1>2. Fine(Idle)
  BY DEF PublicationWitnessed
<1>3. ASSUME NEW p \in Publishers, NEW job, Fine(job),
             publisher' = [publisher EXCEPT ![p] = job]
      PROVE  Goal
  <2>1. publisher \in [Publishers -> Publication \cup {Idle}]
    BY DEF IInv, TypeOK
  <2>2. \A q \in Publishers : publisher'[q] = IF q = p THEN job ELSE publisher[q]
    BY <1>3, <2>1
  <2> HIDE DEF Fine
  <2>3. \A q \in Publishers : Fine(publisher'[q])
    BY <1>1, <1>3, <2>2
  <2>4. publisher' \in [Publishers -> Publication \cup {Idle}]
    BY <1>3, <2>1 DEF Fine
  <2> QED BY <2>3, <2>4 DEF Fine
<1>4. ASSUME UNCHANGED publisher PROVE Goal
  BY <1>1, <1>4 DEF IInv, TypeOK
<1>5. ASSUME NEW p \in Publishers, NEW o \in queue, BeginPublication(p, o) PROVE Goal
  <2> DEFINE job == [phase |-> "reading", proposed |-> Proposed(o)]
  <2>1. Proposed(o) \in Checks /\ CheckWitnessed(Proposed(o))
    BY ProposedIsWitnessed DEF IInv, TypeOK, PublishedIsWitnessed
  <2>2. Fine(job)
    BY <2>1 DEF Publication, PublicationWitnessed
  <2>3. publisher' = [publisher EXCEPT ![p] = job] \/ UNCHANGED publisher
    BY <1>5 DEF BeginPublication
  <2> HIDE DEF Goal, Fine, job
  <2> QED BY <1>3, <1>4, <2>2, <2>3
<1>6. ASSUME NEW p \in Publishers, ReadAndDecide(p) PROVE Goal
  <2> DEFINE job == [publisher[p] EXCEPT !.phase = "posting"]
  <2>1. publisher[p] \in Publication /\ publisher[p] # Idle
    BY <1>1, <1>6 DEF ReadAndDecide, Idle
  <2>2. job \in Publication /\ job.proposed = publisher[p].proposed
    BY <2>1 DEF Publication
  <2>3. Fine(job)
    BY <1>1, <2>1, <2>2 DEF PublicationWitnessed
  <2>4. \/ publisher' = [publisher EXCEPT ![p] = job]
        \/ publisher' = [publisher EXCEPT ![p] = Idle]
    BY <1>6 DEF ReadAndDecide
  <2> HIDE DEF Goal, Fine, job
  <2> QED BY <1>2, <1>3, <2>3, <2>4
<1>7. ASSUME NEW p \in Publishers, CreateCheckRun(p) \/ LosePublisher(p) PROVE Goal
  <2> HIDE DEF Goal, Fine
  <2> QED BY <1>2, <1>3, <1>7 DEF CreateCheckRun, LosePublisher
<1> HIDE DEF Goal, Fine
<1>8. Goal
  BY <1>4, <1>5, <1>6, <1>7
  DEF Next, vars, MoveMain, PushHead, StartProducer, RerunProducer, CompleteProducer,
      FinalizerStep, StartFinalizer, ReadHead, ReadProducer, VerifyEvidence,
      UploadObservation, RerunFinalizer, LoseFinalizer, RerunPublisher, PublisherStep,
      BecomeFinalizer, Raise
<1> QED BY <1>8 DEF Goal

\* A check is created from the proposal of a publisher, and is listed.
LEMMA CheckCreated ==
  ASSUME IInv, [Next]_vars
  PROVE  \/ UNCHANGED <<checks, listed>>
         \/ \E p \in Publishers : /\ publisher[p].phase = "posting"
                                 /\ publisher[p] \in Publication
                                 /\ AcceptCheck(publisher[p].proposed)
                                 /\ publisher' = [publisher EXCEPT ![p] = Idle]
<1> DEFINE Goal ==
      \/ UNCHANGED <<checks, listed>>
      \/ \E p \in Publishers : /\ publisher[p].phase = "posting"
                              /\ publisher[p] \in Publication
                              /\ AcceptCheck(publisher[p].proposed)
                              /\ publisher' = [publisher EXCEPT ![p] = Idle]
<1>1. ASSUME NEW p \in Publishers, CreateCheckRun(p) \/ LosePublisher(p) PROVE Goal
  <2>1. publisher[p].phase = "posting" => publisher[p] \in Publication
    BY DEF IInv, TypeOK, Idle
  <2> QED BY <1>1, <2>1 DEF CreateCheckRun, LosePublisher
<1>2. ASSUME UNCHANGED <<checks, listed>> PROVE Goal
  BY <1>2
<1> HIDE DEF Goal
<1>3. Goal
  BY <1>1, <1>2
  DEF Next, vars, MoveMain, PushHead, StartProducer, RerunProducer, CompleteProducer,
      FinalizerStep, StartFinalizer, ReadHead, ReadProducer, VerifyEvidence,
      UploadObservation, RerunFinalizer, LoseFinalizer, RerunPublisher, PublisherStep,
      BecomeFinalizer, Raise, BeginPublication, ReadAndDecide
<1> QED BY <1>3 DEF Goal

LEMMA ChecksChange ==
  ASSUME IInv, [Next]_vars, NEW e \in checks', e \notin checks
  PROVE  e \in Checks /\ CheckWitnessed(e)
<1>1. PICK p \in Publishers :
        /\ publisher[p].phase = "posting" /\ publisher[p] \in Publication
        /\ e = publisher[p].proposed
  BY CheckCreated DEF AcceptCheck
<1>2. publisher[p] # Idle
  BY <1>1 DEF Idle
<1> QED BY <1>1, <1>2 DEF IInv, PublishedIsWitnessed, PublicationWitnessed, Publication

LEMMA ListedChange ==
  ASSUME IInv, [Next]_vars
  PROVE  listed' \in [Heads -> Checks \cup {NoStatus}] /\ ListedPosted'
<1>1. listed \in [Heads -> Checks \cup {NoStatus}] /\ ListedPosted
  BY DEF IInv, TypeOK
<1>2. CASE UNCHANGED <<checks, listed>>
  BY <1>1, <1>2 DEF ListedPosted, ChecksOf
<1>3. ASSUME NEW p \in Publishers, publisher[p] \in Publication,
             AcceptCheck(publisher[p].proposed)
      PROVE  listed' \in [Heads -> Checks \cup {NoStatus}] /\ ListedPosted'
  <2> DEFINE e == publisher[p].proposed
  <2>1. e \in Checks /\ e.subject \in Heads
    BY <1>3 DEF Publication, Checks, Observation
  <2>2. checks' = checks \cup {e} /\ listed' = [listed EXCEPT ![e.subject] = e]
    BY <1>3 DEF AcceptCheck
  <2> HIDE DEF e
  <2>3. listed' \in [Heads -> Checks \cup {NoStatus}]
    BY <1>1, <2>1, <2>2
  <2>4. ASSUME NEW h \in Heads PROVE (listed[h] = NoStatus \/ listed[h] \in ChecksOf(h))'
    <3>1. CASE h = e.subject
      BY <1>1, <2>1, <2>2, <3>1 DEF ChecksOf
    <3>2. CASE h # e.subject
      BY <1>1, <2>1, <2>2, <3>2 DEF ListedPosted, ChecksOf
    <3> QED BY <3>1, <3>2
  <2> QED BY <2>3, <2>4 DEF ListedPosted
<1> QED BY <1>2, <1>3, CheckCreated

(***************************************************************************)
(* The inductive invariant.                                                *)
(***************************************************************************)
LEMMA InitEstablishes ==
  ASSUME Init PROVE IInv
<1>1. /\ 1 \in Mains /\ 1 \in Heads
      /\ 0 \in 0 .. (2 * WorkflowCount + 1) /\ 0 \in 0 .. MaxAttempts
  BY PRCertificationAssumption DEF Mains, Heads, PRCertificationAssumption
<1>2. UnbornProducer \in Producer
  BY UnbornProducerType
<1>3. NothingSelected \in [Workflows -> Selection]
  BY <1>1 DEF NothingSelected, Unread, Selection
<1>4. UnbornFinalizer \in Finalizer
  BY <1>1, <1>3 DEF UnbornFinalizer, Finalizer
<1>5. TypeOK
  BY <1>1, <1>2, <1>4 DEF Init, TypeOK
<1>6. ProducersRecorded
  BY DEF Init, ProducersRecorded, UnbornProducer
<1>7. FinalizersRecorded
  <2>1. FinalizerRecorded(UnbornFinalizer)
    BY <1>4, CursorZeroIsRecorded DEF UnbornFinalizer
  <2> QED BY <2>1 DEF Init, FinalizersRecorded
<1>8. PublishedIsWitnessed
  BY DEF Init, PublishedIsWitnessed, PublicationWitnessed
<1>9. ListedPosted
  BY DEF Init, ListedPosted
<1> QED BY <1>5, <1>6, <1>7, <1>8, <1>9 DEF IInv

\* The branches, the heads and the counters keep their types.
LEMMA ProviderTyped ==
  ASSUME TypeOK, [Next]_vars
  PROVE  /\ main' \in Mains /\ head' \in Heads
         /\ base' \in [Heads -> Mains \cup {0}]
         /\ losses' \in Nat /\ retries' \in Nat
<1>1. CASE MoveMain
  BY <1>1, PRCertificationAssumption
  DEF MoveMain, TypeOK, bounds, Mains, PRCertificationAssumption
<1>2. CASE PushHead
  BY <1>2, PRCertificationAssumption
  DEF PushHead, TypeOK, bounds, Heads, PRCertificationAssumption
<1>3. ASSUME UNCHANGED <<main, head, base>>,
             losses' = losses \/ losses' = losses + 1,
             retries' = retries \/ retries' = retries + 1
      PROVE  /\ main' \in Mains /\ head' \in Heads
             /\ base' \in [Heads -> Mains \cup {0}]
             /\ losses' \in Nat /\ retries' \in Nat
  BY <1>3 DEF TypeOK
<1>4. \/ MoveMain \/ PushHead
      \/ /\ UNCHANGED <<main, head, base>>
         /\ losses' = losses \/ losses' = losses + 1
         /\ retries' = retries \/ retries' = retries + 1
  BY DEF Next, vars, provider, bounds, StartProducer, RerunProducer, CompleteProducer,
         FinalizerStep, StartFinalizer, ReadHead, ReadProducer, VerifyEvidence,
         UploadObservation, RerunFinalizer, LoseFinalizer, RerunPublisher,
         BeginPublication, PublisherStep, ReadAndDecide, CreateCheckRun, LosePublisher,
         BecomeFinalizer, Raise
<1> QED BY <1>1, <1>2, <1>3, <1>4

LEMMA StepPreserves ==
  ASSUME IInv, [Next]_vars PROVE IInv'
<1>1. ProducersChange
  BY EveryProducersChange DEF IInv
<1>2. FinalizersChange
  BY EveryFinalizersChange DEF IInv
<1>3. /\ \A o : ObservationWitnessed(o) => ObservationWitnessed(o)'
      /\ \A e : CheckWitnessed(e) => CheckWitnessed(e)'
      /\ \A job : PublicationWitnessed(job) => PublicationWitnessed(job)'
  BY <1>1, PublishedSurvives DEF IInv
<1>4. \A o \in queue' : o \in PRObservation /\ ObservationWitnessed(o)
  BY QueueChange DEF IInv, TypeOK, PublishedIsWitnessed
<1>5. \A e \in checks' : e \in Checks /\ CheckWitnessed(e)
  BY ChecksChange DEF IInv, TypeOK, PublishedIsWitnessed
<1>6. /\ publisher' \in [Publishers -> Publication \cup {Idle}]
      /\ \A p \in Publishers : PublicationWitnessed(publisher'[p])
  BY PublisherChange
<1>7. TypeOK'
  BY <1>1, <1>2, <1>4, <1>5, <1>6, ProviderTyped, ListedChange
  DEF IInv, TypeOK, ProducersChange, FinalizersChange
<1>8. PublishedIsWitnessed'
  <2>1. ASSUME NEW o \in queue' PROVE ObservationWitnessed(o)'
    BY <1>3, <1>4
  <2>2. ASSUME NEW e \in checks' PROVE CheckWitnessed(e)'
    BY <1>3, <1>5
  <2>3. ASSUME NEW p \in Publishers PROVE PublicationWitnessed(publisher[p])'
    <3>1. PICK job : job = publisher'[p]
      OBVIOUS
    <3>2. PublicationWitnessed(job)'
      BY <1>3, <1>6, <3>1
    <3> QED BY <3>1, <3>2
  <2> QED BY <2>1, <2>2, <2>3 DEF PublishedIsWitnessed
<1> QED
  BY <1>1, <1>2, <1>7, <1>8, ListedChange DEF IInv, ProducersChange, FinalizersChange

\* Whatever is pushed, merged, re-run or lost, every run, finalizer, observation
\* and check keeps the shape that finalize_pr and publish_pr give it.
THEOREM TypeCorrect == Spec => []TypeOK
<1>1. Init => IInv
  BY InitEstablishes
<1>2. IInv /\ [Next]_vars => IInv'
  BY StepPreserves
<1>3. IInv => TypeOK
  BY DEF IInv
<1> QED BY <1>1, <1>2, <1>3, PTL DEF Spec

\* A success that publish_pr gives a head rests on a successful attempt of every
\* producer workflow on that head, or on one whose rejected evidence a newer
\* attempt of the same run replaced: no interleaving of the reads of finalize_pr
\* with re-runs, pushes and merges makes another success.
THEOREM SuccessIsWitnessedHolds == Spec => []SuccessIsWitnessed
<1>1. Init => IInv
  BY InitEstablishes
<1>2. IInv /\ [Next]_vars => IInv'
  BY StepPreserves
<1>3. IInv => SuccessIsWitnessed
  BY DEF IInv, PublishedIsWitnessed, CheckWitnessed, SuccessIsWitnessed
<1> QED BY <1>1, <1>2, <1>3, PTL DEF Spec
=============================================================================

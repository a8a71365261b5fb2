------------------------- MODULE PRSettlementProofs -------------------------
(***************************************************************************)
(* Once every trigger was handled, the check of the highest authority of   *)
(* the head says what the latest producer attempts say: AuthorityAgrees,   *)
(* for every instance.  With one publisher at a time the check the         *)
(* provider lists is that one: SettledCheckAgrees.                         *)
(*                                                                         *)
(* The provider numbers finalizers as their triggers come.  A finalizer    *)
(* that covers the head, having been triggered no earlier than the latest  *)
(* attempt of each of its producers, only reads attempts that no later     *)
(* step changes; so whatever is said with its number or a higher one is    *)
(* the verdict.  One of them is triggered by the head itself: nothing can  *)
(* stop that one, short of a lost runner, from having its say.             *)
(***************************************************************************)
EXTENDS PRCertificationProofs

Born(f) == finalizers[f].phase # "unborn"

-----------------------------------------------------------------------------
(* What the numbers and the heads of triggers, reads and records obey.     *)

ProducersKnown ==
  \A r \in RunIds :
    /\ producers[r].state = "unborn" => producers[r].subject = 0
    /\ producers[r].subject <= head

BasesKnown == \A h \in Heads : base[h] <= main

FinalizersNumbered ==
  \A f, g \in FinalizerIds : f < g /\ Born(g) => Born(f)

\* A finalizer is bound to the main at the completion of its producer, and reads
\* a head that is not older than its producer's.
FinalizerTriggered(f) ==
  LET run == finalizers[f]
      cause == producers[run.run]
  IN  /\ cause.state # "unborn"
      /\ run.trigger <= cause.attempt
      /\ run.trigger = cause.attempt => cause.state = "completed"
      /\ base[cause.subject] <= run.main /\ run.main <= main
      /\ run.head # 0 => cause.subject <= run.head /\ run.head <= head

FinalizersTriggered == \A f \in FinalizerIds : Born(f) => FinalizerTriggered(f)

\* f was triggered by the latest attempt of r.
Triggers(f, r) ==
  Born(f) /\ finalizers[f].run = r /\ finalizers[f].trigger = producers[r].attempt

CompletionsTrigger ==
  \A r \in RunIds : producers[r].state = "completed" =>
    \E f \in FinalizerIds : Triggers(f, r)

Known(h, f) == h <= head /\ f \in FinalizerIds /\ Born(f)

RecordsKnown ==
  /\ \A o \in queue : Known(o.head, o.finalizer)
  /\ \A p \in Publishers : publisher[p] # Idle =>
       Known(publisher[p].proposed.subject, publisher[p].proposed.ordinal)
  /\ \A e \in checks : Known(e.subject, e.ordinal)

Order == /\ ProducersKnown /\ BasesKnown /\ FinalizersNumbered
         /\ FinalizersTriggered /\ CompletionsTrigger /\ RecordsKnown

-----------------------------------------------------------------------------
(* What is said of the head by the finalizers that cover it.               *)

\* Every producer of the head is completed, and triggered f or an earlier one.
Covers(f) ==
  /\ Born(f)
  /\ \A r \in RunIds : producers[r].subject = head =>
       /\ producers[r].state = "completed"
       /\ \E g \in FinalizerIds : g <= f /\ Triggers(g, r)

\* And the latest attempt of one of them triggered f itself.
Decides(f) ==
  /\ Covers(f)
  /\ producers[finalizers[f].run].subject = head
  /\ Triggers(f, finalizers[f].run)

Verdict == Aggregate(LatestStates)

\* What a finalizer read of the head is what its producers still say.
ReadsAgree(run) ==
  run.head = head =>
    \A w \in Workflows : w < run.cursor => run.selected[w] = ProducerState(w, head)

ObservationFaithful(o) == o.head = head /\ Covers(o.finalizer) => o.state = Verdict

CheckFaithful(e) ==
  e.subject = head /\ Covers(e.ordinal) => e.conclusion = Conclusion(Verdict)

Faithful ==
  /\ \A f \in FinalizerIds : Covers(f) => ReadsAgree(finalizers[f])
  /\ \A o \in queue : ObservationFaithful(o)
  /\ \A p \in Publishers : publisher[p] # Idle => CheckFaithful(publisher[p].proposed)
  /\ \A e \in checks : CheckFaithful(e)

\* The latest attempts of the head are all there.
Completed ==
  /\ Triggered
  /\ \A r \in RunIds : producers[r].subject = head => producers[r].state = "completed"

DecisionExists == Completed => \E f \in FinalizerIds : Decides(f)

Undisturbed == losses = 0 /\ base[head] = main /\ "rejected" \notin LatestResults

\* f still runs, or what it observed is on its way to the head or was beaten.
UnderWay(f) ==
  \/ finalizers[f].phase \in {"queued", "running"}
  \/ /\ finalizers[f].phase = "done"
     /\ \E o \in queue : /\ o.finalizer = f /\ o.head = head
                         /\ o.attempt = finalizers[f].attempt
  \/ \E p \in Publishers : /\ publisher[p] # Idle
                           /\ publisher[p].proposed.ordinal = f
                           /\ publisher[p].proposed.subject = head
  \/ \E e \in checks : e.subject = head /\ e.ordinal >= f

Delivered ==
  Undisturbed => \A f \in FinalizerIds : Decides(f) => UnderWay(f)

SettlementInv == IInv /\ Order /\ Faithful /\ DecisionExists /\ Delivered

-----------------------------------------------------------------------------
(* Types at hand.                                                          *)

LEMMA Sizes ==
  /\ WorkflowCount \in Nat \ {0} /\ \A w \in Workflows : w \in 1 .. WorkflowCount
  /\ Heads \subseteq Nat \ {0} /\ Mains \subseteq Nat \ {0}
  /\ FinalizerIds \subseteq Nat \ {0} /\ RunIds \subseteq Nat \ {0}
  /\ Attempts \subseteq Nat \ {0}
  BY PRCertificationAssumption
  DEF Workflows, Heads, Mains, FinalizerIds, RunIds, Attempts,
      PRCertificationAssumption

LEMMA FinalizerRange == \E n \in Nat : FinalizerIds = 1 .. n
  <1>1. MaxRuns * MaxAttempts \in Nat
    BY PRCertificationAssumption DEF PRCertificationAssumption
  <1> QED BY <1>1 DEF FinalizerIds

LEMMA ProviderTypes ==
  ASSUME TypeOK
  PROVE  /\ main \in Nat /\ head \in Nat \ {0} /\ head \in Heads
         /\ \A h \in Heads : base[h] \in Nat
         /\ \A r \in RunIds : /\ producers[r] \in Producer
                              /\ producers[r].subject \in Nat
                              /\ producers[r].attempt \in Nat
         /\ \A f \in FinalizerIds : /\ finalizers[f] \in Finalizer
                                    /\ finalizers[f].head \in Nat
                                    /\ finalizers[f].trigger \in Nat
                                    /\ finalizers[f].main \in Nat
                                    /\ finalizers[f].cursor \in Nat
  <1>1. main \in Mains /\ head \in Heads /\ base \in [Heads -> Mains \cup {0}]
    BY DEF TypeOK
  <1>2. \A n \in Mains \cup {0} : n \in Nat
    BY Sizes
  <1>3. \A n \in Heads \cup {0} : n \in Nat
    BY Sizes
  <1>4. (\A n \in 0 .. MaxAttempts : n \in Nat)
        /\ (\A n \in 0 .. (2 * WorkflowCount + 1) : n \in Nat)
    OBVIOUS
  <1>5. main \in Nat /\ head \in Nat \ {0} /\ \A h \in Heads : base[h] \in Nat
    BY <1>1, <1>2, Sizes
  <1>6. ASSUME NEW r \in RunIds
        PROVE  /\ producers[r] \in Producer
               /\ producers[r].subject \in Nat
               /\ producers[r].attempt \in Nat
    <2>1. producers[r] \in Producer
      BY DEF TypeOK
    <2>2. producers[r].subject \in Heads \cup {0} /\ producers[r].attempt \in 0 .. MaxAttempts
      BY <2>1 DEF Producer
    <2> QED BY <1>3, <1>4, <2>1, <2>2
  <1>7. ASSUME NEW f \in FinalizerIds
        PROVE  /\ finalizers[f] \in Finalizer
               /\ finalizers[f].head \in Nat
               /\ finalizers[f].trigger \in Nat
               /\ finalizers[f].main \in Nat
               /\ finalizers[f].cursor \in Nat
    <2>1. finalizers[f] \in Finalizer
      BY DEF TypeOK
    <2>2. /\ finalizers[f].head \in Heads \cup {0}
          /\ finalizers[f].main \in Mains \cup {0}
          /\ finalizers[f].trigger \in 0 .. MaxAttempts
          /\ finalizers[f].cursor \in 0 .. (2 * WorkflowCount + 1)
      BY <2>1 DEF Finalizer
    <2> QED BY <1>2, <1>3, <1>4, <2>1, <2>2
  <1> QED BY <1>1, <1>5, <1>6, <1>7

\* A finalizer that exists has a trigger.
LEMMA BornTypes ==
  ASSUME IInv, NEW f \in FinalizerIds, Born(f)
  PROVE  /\ finalizers[f].run \in RunIds /\ finalizers[f].main \in Mains
         /\ finalizers[f].attempt \in Nat \ {0}
  BY DEF IInv, FinalizersRecorded, FinalizerRecorded, Born

-----------------------------------------------------------------------------
(* Where finalizers, observations, proposals and checks come from.         *)

\* The run, the trigger and the main of a finalizer stay; its head is forgotten
\* or read.
Advances(f) ==
  /\ Born(f) /\ Born(f)'
  /\ finalizers'[f].run = finalizers[f].run
  /\ finalizers'[f].trigger = finalizers[f].trigger
  /\ finalizers'[f].main = finalizers[f].main
  /\ finalizers'[f].head \in {finalizers[f].head, 0, head}

LEMMA RaiseAdvances ==
  ASSUME TypeOK, NEW f \in FinalizerIds, Born(f), Raise(f)
  PROVE  Advances(f) /\ \A g \in FinalizerIds : g # f => finalizers'[g] = finalizers[g]
  <1> DEFINE run == [Forgotten(finalizers[f]) EXCEPT !.phase = "failed"]
  <1>1. finalizers[f] \in Finalizer /\ finalizers' = [finalizers EXCEPT ![f] = run]
    BY DEF TypeOK, Raise, BecomeFinalizer
  <1>2. finalizers'[f] = run
    BY <1>1 DEF TypeOK
  <1>3. /\ run.phase = "failed" /\ run.run = finalizers[f].run
        /\ run.trigger = finalizers[f].trigger /\ run.main = finalizers[f].main
        /\ run.head = 0
    BY <1>1 DEF Forgotten, Finalizer
  <1>4. \A g \in FinalizerIds : g # f => finalizers'[g] = finalizers[g]
    BY <1>1 DEF TypeOK
  <1> HIDE DEF run
  <1> QED BY <1>2, <1>3, <1>4 DEF Advances, Born

LEMMA StepAdvances ==
  ASSUME TypeOK, NEW f \in FinalizerIds,
         FinalizerStep(f) \/ RerunFinalizer(f) \/ LoseFinalizer(f)
  PROVE  Advances(f) /\ \A g \in FinalizerIds : g # f => finalizers'[g] = finalizers[g]
  <1> DEFINE old == finalizers[f]
             Keeps(run) == /\ run.phase # "unborn" /\ run.run = old.run
                           /\ run.trigger = old.trigger /\ run.main = old.main
                           /\ run.head \in {old.head, 0, head}
  <1>1. old \in Finalizer /\ Born(f)
    BY DEF TypeOK, Born, FinalizerStep, StartFinalizer, ReadHead, ReadProducer,
           VerifyEvidence, UploadObservation, Running, RerunFinalizer, LoseFinalizer
  <1>2. CASE Raise(f)
    BY <1>1, <1>2, RaiseAdvances
  <1>3. ASSUME NEW run, Keeps(run), BecomeFinalizer(f, run)
        PROVE  Advances(f) /\ \A g \in FinalizerIds : g # f => finalizers'[g] = finalizers[g]
    <2>1. finalizers' = [finalizers EXCEPT ![f] = run]
      BY <1>3 DEF BecomeFinalizer
    <2>2. finalizers'[f] = run /\ \A g \in FinalizerIds : g # f => finalizers'[g] = finalizers[g]
      BY <2>1 DEF TypeOK
    <2> QED BY <1>1, <1>3, <2>2 DEF Advances, Born
  <1>4. CASE BecomeFinalizer(f, [old EXCEPT !.phase = "running"])
    BY <1>1, <1>3, <1>4 DEF Finalizer
  <1>5. CASE ReadHead(f)
    <2>1. Raise(f) \/ BecomeFinalizer(f, [old EXCEPT !.head = head, !.cursor = 1])
      BY <1>5 DEF ReadHead
    <2>2. Keeps([old EXCEPT !.head = head, !.cursor = 1])
      BY <1>1, <1>5 DEF Finalizer, ReadHead, Running
    <2> HIDE DEF Keeps, old
    <2> QED BY <1>2, <1>3, <2>1, <2>2
  <1>6. CASE ReadProducer(f)
    <2> DEFINE run == [old EXCEPT !.selected = [old.selected EXCEPT ![old.cursor]
                                      = ProducerState(old.cursor, old.head)],
                                  !.cursor = old.cursor + 1]
    <2>1. BecomeFinalizer(f, run)
      BY <1>6 DEF ReadProducer
    <2>2. Keeps(run)
      BY <1>1, <1>6 DEF Finalizer, ReadProducer, Running
    <2> HIDE DEF Keeps, old, run
    <2> QED BY <1>3, <2>1, <2>2
  <1>7. CASE VerifyEvidence(f)
    <2>1. Raise(f) \/ BecomeFinalizer(f, [old EXCEPT !.cursor = old.cursor + 1])
      BY <1>7 DEF VerifyEvidence
    <2>2. Keeps([old EXCEPT !.cursor = old.cursor + 1])
      BY <1>1, <1>7 DEF Finalizer, VerifyEvidence, Running
    <2> HIDE DEF Keeps, old
    <2> QED BY <1>2, <1>3, <2>1, <2>2
  <1>8. CASE BecomeFinalizer(f, [old EXCEPT !.phase = "done"])
    BY <1>1, <1>3, <1>8 DEF Finalizer
  <1>9. CASE RerunFinalizer(f)
    <2> DEFINE run == [Forgotten(old) EXCEPT !.phase = "queued", !.attempt = old.attempt + 1]
    <2>1. BecomeFinalizer(f, run)
      BY <1>9 DEF RerunFinalizer
    <2>2. Keeps(run)
      BY <1>1 DEF Forgotten, Finalizer
    <2> HIDE DEF Keeps, old, run
    <2> QED BY <1>3, <2>1, <2>2
  <1>10. CASE StartFinalizer(f)
    BY <1>2, <1>4, <1>10 DEF StartFinalizer
  <1>11. CASE UploadObservation(f)
    BY <1>8, <1>11 DEF UploadObservation
  <1>12. CASE LoseFinalizer(f)
    BY <1>2, <1>12 DEF LoseFinalizer
  <1> QED
    BY <1>5, <1>6, <1>7, <1>9, <1>10, <1>11, <1>12 DEF FinalizerStep

\* Only a completion gives birth to a finalizer.
LEMMA FinalizerMoves ==
  ASSUME TypeOK, [Next]_vars, NEW f \in FinalizerIds
  PROVE  \/ finalizers'[f] = finalizers[f]
         \/ Advances(f) /\ UNCHANGED provider
         \/ /\ ~ Born(f)
            /\ \E r \in RunIds, result \in Results : CompleteProducer(r, result, f)
  <1> DEFINE Goal == \/ finalizers'[f] = finalizers[f]
                     \/ Advances(f) /\ UNCHANGED provider
                     \/ /\ ~ Born(f)
                        /\ \E r \in RunIds, result \in Results :
                             CompleteProducer(r, result, f)
  <1>1. ASSUME NEW r \in RunIds, NEW result \in Results, NEW g \in FinalizerIds,
               CompleteProducer(r, result, g)
        PROVE  Goal
    <2>1. CASE g = f
      BY <1>1, <2>1 DEF CompleteProducer, Born
    <2>2. CASE g # f
      BY <1>1, <2>2 DEF CompleteProducer, TypeOK
    <2> QED BY <2>1, <2>2
  <1>2. ASSUME NEW g \in FinalizerIds,
               FinalizerStep(g) \/ RerunFinalizer(g) \/ LoseFinalizer(g)
        PROVE  Goal
    <2>1. UNCHANGED provider
      BY <1>2
      DEF FinalizerStep, StartFinalizer, ReadHead, ReadProducer, VerifyEvidence,
          UploadObservation, RerunFinalizer, LoseFinalizer, BecomeFinalizer, Raise
    <2>2. CASE g = f
      BY <1>2, <2>1, <2>2, StepAdvances
    <2>3. CASE g # f
      BY <1>2, <2>3, StepAdvances
    <2> QED BY <2>2, <2>3
  <1>3. ASSUME UNCHANGED finalizers PROVE Goal
    BY <1>3
  <1> HIDE DEF Goal
  <1>4. Goal
    BY <1>1, <1>2, <1>3
    DEF Next, vars, MoveMain, PushHead, StartProducer, RerunProducer, RerunPublisher,
        BeginPublication, PublisherStep, ReadAndDecide, CreateCheckRun, LosePublisher
  <1> QED BY <1>4 DEF Goal

\* f has read all it has to.
Complete(f) == Born(f) /\ finalizers[f].cursor = 2 * WorkflowCount + 1

LEMMA QueueMoves ==
  ASSUME IInv, [Next]_vars, NEW o \in queue'
  PROVE  \/ o \in queue
         \/ \E f \in FinalizerIds : Complete(f) /\ o = ObservationOf(f, finalizers[f])
  <1>1. ASSUME NEW f \in FinalizerIds, UploadObservation(f), o \notin queue
        PROVE  Complete(f) /\ o = ObservationOf(f, finalizers[f])
    <2>1. finalizers[f].cursor \in Nat
      BY ProviderTypes DEF IInv
    <2> QED
      BY <1>1, <2>1, Sizes DEF UploadObservation, Running, Complete, Born
  <1>2. ASSUME NEW f \in FinalizerIds, RerunPublisher(f), o \notin queue
        PROVE  Complete(f) /\ o = ObservationOf(f, finalizers[f])
    BY <1>2
    DEF RerunPublisher, IInv, FinalizersRecorded, FinalizerRecorded, Complete, Born
  <1> QED
    BY <1>1, <1>2
    DEF Next, vars, bounds, MoveMain, PushHead, StartProducer, RerunProducer,
        CompleteProducer, FinalizerStep, StartFinalizer, ReadHead, ReadProducer,
        VerifyEvidence, RerunFinalizer, LoseFinalizer, BeginPublication, PublisherStep,
        ReadAndDecide, CreateCheckRun, LosePublisher

LEMMA ProposalMoves ==
  ASSUME IInv, [Next]_vars, NEW p \in Publishers, publisher'[p] # Idle
  PROVE  \/ \E o \in queue : Exact(o) /\ publisher'[p].proposed = Proposed(o)
         \/ /\ publisher[p] # Idle
            /\ publisher'[p].proposed = publisher[p].proposed
  <1> DEFINE Goal == \/ \E o \in queue : Exact(o) /\ publisher'[p].proposed = Proposed(o)
                     \/ /\ publisher[p] # Idle
                        /\ publisher'[p].proposed = publisher[p].proposed
  <1>1. publisher \in [Publishers -> Publication \cup {Idle}]
    BY DEF IInv, TypeOK
  <1>2. CASE publisher'[p] = publisher[p]
    BY <1>2
  <1>3. ASSUME NEW q \in Publishers, NEW o \in queue, BeginPublication(q, o)
        PROVE  Goal
    <2>1. CASE UNCHANGED publisher
      BY <2>1
    <2>2. CASE Exact(o) /\ publisher' = [publisher EXCEPT ![q] =
                              [phase |-> "reading", proposed |-> Proposed(o)]]
      <3>1. CASE q = p
        BY <1>1, <2>2, <3>1
      <3>2. CASE q # p
        BY <1>1, <1>2, <2>2, <3>2
      <3> QED BY <3>1, <3>2
    <2> QED BY <1>3, <2>1, <2>2 DEF BeginPublication
  <1>4. ASSUME NEW q \in Publishers, ReadAndDecide(q) PROVE Goal
    <2>1. publisher[q] \in Publication /\ publisher[q] # Idle
      BY <1>1, <1>4 DEF ReadAndDecide, Idle
    <2>2. \/ publisher' = [publisher EXCEPT ![q] = [publisher[q] EXCEPT !.phase = "posting"]]
          \/ publisher' = [publisher EXCEPT ![q] = Idle]
      BY <1>1, <1>4 DEF ReadAndDecide
    <2>3. [publisher[q] EXCEPT !.phase = "posting"].proposed = publisher[q].proposed
      BY <2>1 DEF Publication
    <2>4. CASE q = p
      BY <1>1, <2>1, <2>2, <2>3, <2>4
    <2>5. CASE q # p
      BY <1>1, <1>2, <2>2, <2>5
    <2> QED BY <2>4, <2>5
  <1>5. ASSUME NEW q \in Publishers, CreateCheckRun(q) \/ LosePublisher(q) PROVE Goal
    <2>1. publisher' = [publisher EXCEPT ![q] = Idle]
      BY <1>5 DEF CreateCheckRun, LosePublisher
    <2>2. q # p
      BY <1>1, <2>1
    <2> QED BY <1>1, <1>2, <2>1, <2>2
  <1>6. ASSUME UNCHANGED publisher PROVE Goal
    BY <1>6
  <1> HIDE DEF Goal
  <1>7. Goal
    BY <1>3, <1>4, <1>5, <1>6
    DEF Next, vars, MoveMain, PushHead, StartProducer, RerunProducer, CompleteProducer,
        FinalizerStep, StartFinalizer, ReadHead, ReadProducer, VerifyEvidence,
        UploadObservation, RerunFinalizer, LoseFinalizer, RerunPublisher, PublisherStep,
        BecomeFinalizer, Raise
  <1> QED BY <1>7 DEF Goal

LEMMA CheckMoves ==
  ASSUME IInv, [Next]_vars, NEW e \in checks'
  PROVE  \/ e \in checks
         \/ \E p \in Publishers : publisher[p] # Idle /\ e = publisher[p].proposed
  <1>1. ASSUME NEW p \in Publishers, CreateCheckRun(p) \/ LosePublisher(p), e \notin checks
        PROVE  publisher[p] # Idle /\ e = publisher[p].proposed
    BY <1>1 DEF CreateCheckRun, LosePublisher, AcceptCheck, Idle
  <1> QED
    BY <1>1
    DEF Next, vars, MoveMain, PushHead, StartProducer, RerunProducer, CompleteProducer,
        FinalizerStep, StartFinalizer, ReadHead, ReadProducer, VerifyEvidence,
        UploadObservation, RerunFinalizer, LoseFinalizer, RerunPublisher, PublisherStep,
        BecomeFinalizer, Raise, BeginPublication, ReadAndDecide

\* Pushes and merges only append.
LEMMA BranchMoves ==
  ASSUME TypeOK, [Next]_vars
  PROVE  /\ main' \in {main, main + 1} /\ head' \in {head, head + 1}
         /\ \A h \in Heads : \/ base'[h] = base[h]
                             \/ h = head + 1 /\ head' = head + 1 /\ base'[h] = main
         /\ head' # head => UNCHANGED <<main, producers, finalizers>>
  <1>1. CASE MoveMain
    BY <1>1 DEF MoveMain
  <1>2. CASE PushHead
    BY <1>2 DEF PushHead, TypeOK
  <1>3. CASE UNCHANGED <<main, head, base>>
    BY <1>3
  <1> QED
    BY <1>1, <1>2, <1>3
    DEF Next, vars, provider, StartProducer, RerunProducer, CompleteProducer,
        FinalizerStep, StartFinalizer, ReadHead, ReadProducer, VerifyEvidence,
        UploadObservation, RerunFinalizer, LoseFinalizer, RerunPublisher,
        BeginPublication, PublisherStep, ReadAndDecide, CreateCheckRun, LosePublisher,
        BecomeFinalizer, Raise

Starts(r) ==
  /\ producers[r].state = "unborn" /\ producers'[r].state = "running"
  /\ producers'[r].subject <= head

Restarts(r) ==
  /\ producers[r].state = "completed" /\ producers'[r].state = "running"
  /\ producers'[r].subject = producers[r].subject
  /\ producers'[r].attempt = producers[r].attempt + 1

Completes(r) ==
  /\ producers[r].state = "running" /\ producers'[r].state = "completed"
  /\ producers'[r].subject = producers[r].subject
  /\ producers'[r].attempt = producers[r].attempt
  /\ \E result \in Results, f \in FinalizerIds : CompleteProducer(r, result, f)

LEMMA ProducerMoves ==
  ASSUME TypeOK, [Next]_vars, NEW r \in RunIds
  PROVE  \/ producers'[r] = producers[r]
         \/ /\ UNCHANGED <<main, head, base>>
            /\ Starts(r) \/ Restarts(r) \/ Completes(r)
  <1> DEFINE Goal == \/ producers'[r] = producers[r]
                     \/ /\ UNCHANGED <<main, head, base>>
                        /\ Starts(r) \/ Restarts(r) \/ Completes(r)
  <1>1. producers[r] \in Producer
    BY DEF TypeOK
  <1>2. ASSUME NEW q \in RunIds, NEW w \in Workflows, NEW h \in Heads,
               StartProducer(q, w, h)
        PROVE  Goal
    <2>1. CASE q = r
      BY <1>2, <2>1, UnbornProducerType DEF StartProducer, Starts, TypeOK, Producer
    <2>2. CASE q # r
      BY <1>2, <2>2 DEF StartProducer, TypeOK
    <2> QED BY <2>1, <2>2
  <1>3. ASSUME NEW q \in RunIds, RerunProducer(q) PROVE Goal
    <2>1. CASE q = r
      BY <1>1, <1>3, <2>1 DEF RerunProducer, Restarts, TypeOK, Producer
    <2>2. CASE q # r
      BY <1>3, <2>2 DEF RerunProducer, TypeOK
    <2> QED BY <2>1, <2>2
  <1>4. ASSUME NEW q \in RunIds, NEW result \in Results, NEW f \in FinalizerIds,
               CompleteProducer(q, result, f)
        PROVE  Goal
    <2>1. CASE q = r
      <3> DEFINE run == [producers[r] EXCEPT !.state = "completed",
                           !.results = [producers[r].results EXCEPT
                                          ![producers[r].attempt] = result]]
      <3>1. /\ producers[r].state = "running" /\ producers'[r] = run
            /\ UNCHANGED <<main, head, base>>
        BY <1>4, <2>1 DEF CompleteProducer, TypeOK
      <3>2. /\ run.state = "completed" /\ run.subject = producers[r].subject
            /\ run.attempt = producers[r].attempt
        BY <1>1 DEF Producer
      <3> HIDE DEF run
      <3>3. Completes(r)
        BY <1>4, <2>1, <3>1, <3>2 DEF Completes
      <3> QED BY <3>1, <3>3
    <2>2. CASE q # r
      BY <1>4, <2>2 DEF CompleteProducer, TypeOK
    <2> QED BY <2>1, <2>2
  <1>5. ASSUME UNCHANGED producers PROVE Goal
    BY <1>5
  <1> HIDE DEF Goal
  <1>6. Goal
    BY <1>2, <1>3, <1>4, <1>5
    DEF Next, vars, provider, MoveMain, PushHead, FinalizerStep, StartFinalizer, ReadHead,
        ReadProducer, VerifyEvidence, UploadObservation, RerunFinalizer, LoseFinalizer,
        RerunPublisher, BeginPublication, PublisherStep, ReadAndDecide, CreateCheckRun,
        LosePublisher, BecomeFinalizer, Raise
  <1> QED BY <1>6 DEF Goal

\* The cause of a finalizer never changes.
LEMMA BornKeeps ==
  ASSUME TypeOK, [Next]_vars, NEW f \in FinalizerIds, Born(f)
  PROVE  /\ Born(f)'
         /\ finalizers'[f].run = finalizers[f].run
         /\ finalizers'[f].trigger = finalizers[f].trigger
         /\ finalizers'[f].main = finalizers[f].main
         /\ finalizers'[f].head \in {finalizers[f].head, 0, head}
  BY FinalizerMoves DEF Born, Advances

\* A finalizer is born of the completion of a producer, after all others.
LEMMA BirthBy ==
  ASSUME TypeOK, FinalizersNumbered, [Next]_vars, NEW f \in FinalizerIds,
         ~ Born(f), Born(f)'
  PROVE  /\ \E r \in RunIds :
              /\ Completes(r)
              /\ finalizers'[f].run = r /\ finalizers'[f].main = main
              /\ finalizers'[f].trigger = producers[r].attempt
              /\ finalizers'[f].head = 0 /\ finalizers'[f].phase = "queued"
         /\ \A g \in FinalizerIds : g < f => Born(g)
         /\ \A g \in FinalizerIds : Born(g) => g < f
         /\ UNCHANGED <<main, head, base, queue, publisher, checks, losses>>
  <1>1. PICK r \in RunIds, result \in Results : CompleteProducer(r, result, f)
    BY FinalizerMoves DEF Born, Advances
  <1>2. /\ finalizers'[f] = [UnbornFinalizer EXCEPT !.phase = "queued", !.main = main,
              !.run = r, !.trigger = producers[r].attempt, !.attempt = 1]
        /\ UNCHANGED <<main, head, base, queue, publisher, checks, losses>>
    BY <1>1 DEF CompleteProducer, TypeOK, bounds
  <1>3. /\ finalizers'[f].run = r /\ finalizers'[f].main = main
        /\ finalizers'[f].trigger = producers[r].attempt
        /\ finalizers'[f].head = 0 /\ finalizers'[f].phase = "queued"
    BY <1>2 DEF UnbornFinalizer
  <1>4. producers'[r].state = "completed" /\ producers[r].state = "running"
    BY <1>1 DEF CompleteProducer, TypeOK, Producer
  <1>5. Completes(r)
    BY <1>4, ProducerMoves DEF Starts, Restarts
  <1>6. ASSUME NEW g \in FinalizerIds, g < f PROVE Born(g)
    <2>1. f \in Nat /\ g \in Nat /\ f - 1 \in FinalizerIds
      <3>1. PICK n \in Nat : FinalizerIds = 1 .. n
        BY FinalizerRange
      <3> QED BY <1>6, <3>1
    <2>2. Born(f - 1)
      BY <1>1, <1>6, <2>1, Sizes DEF CompleteProducer, Born
    <2>3. g = f - 1 \/ g < f - 1
      BY <1>6, <2>1
    <2> QED BY <2>1, <2>2, <2>3 DEF FinalizersNumbered
  <1>7. ASSUME NEW g \in FinalizerIds, Born(g) PROVE g < f
    <2>1. ~ (f < g) /\ f # g
      BY <1>7 DEF FinalizersNumbered
    <2> QED BY <2>1, Sizes
  <1> QED BY <1>2, <1>3, <1>5, <1>6, <1>7

-----------------------------------------------------------------------------
(* The order is kept.                                                      *)

LEMMA ProducersKnownStep ==
  ASSUME IInv, Order, [Next]_vars PROVE ProducersKnown'
  <1> SUFFICES ASSUME NEW r \in RunIds
               PROVE  /\ producers'[r].state = "unborn" => producers'[r].subject = 0
                      /\ producers'[r].subject <= head'
    BY DEF ProducersKnown
  <1>1. TypeOK /\ head \in Nat /\ producers[r].subject \in Nat
    BY ProviderTypes DEF IInv
  <1>2. head' \in {head, head + 1}
    BY <1>1, BranchMoves
  <1>3. /\ producers[r].state = "unborn" => producers[r].subject = 0
        /\ producers[r].subject <= head
    BY DEF Order, ProducersKnown
  <1>4. CASE producers'[r] = producers[r]
    BY <1>1, <1>2, <1>3, <1>4
  <1>5. CASE head' = head /\ (Starts(r) \/ Restarts(r) \/ Completes(r))
    BY <1>3, <1>5 DEF Starts, Restarts, Completes
  <1> QED BY <1>1, <1>4, <1>5, ProducerMoves

LEMMA BasesKnownStep ==
  ASSUME IInv, Order, [Next]_vars PROVE BasesKnown'
  <1> SUFFICES ASSUME NEW h \in Heads PROVE base'[h] <= main'
    BY DEF BasesKnown
  <1>1. TypeOK /\ main \in Nat /\ base[h] \in Nat /\ base[h] <= main
    BY ProviderTypes DEF IInv, Order, BasesKnown
  <1>2. main' \in {main, main + 1} /\ base'[h] \in {base[h], main}
    BY <1>1, BranchMoves
  <1> QED BY <1>1, <1>2

LEMMA FinalizersNumberedStep ==
  ASSUME IInv, Order, [Next]_vars PROVE FinalizersNumbered'
  <1> SUFFICES ASSUME NEW f \in FinalizerIds, NEW g \in FinalizerIds, f < g, Born(g)'
               PROVE  Born(f)'
    BY DEF FinalizersNumbered
  <1>1. TypeOK /\ FinalizersNumbered
    BY DEF IInv, Order
  <1>2. Born(f)
    <2>1. CASE Born(g)
      BY <1>1, <2>1 DEF FinalizersNumbered
    <2>2. CASE ~ Born(g)
      BY <1>1, <2>2, BirthBy
    <2> QED BY <2>1, <2>2
  <1> QED BY <1>1, <1>2, BornKeeps

\* What holds of the cause of a finalizer goes on to hold.
LEMMA CauseKeeps ==
  ASSUME IInv, Order, [Next]_vars, NEW r \in RunIds, producers[r].state # "unborn"
  PROVE  /\ producers'[r].state # "unborn"
         /\ producers'[r].subject = producers[r].subject
         /\ producers'[r].attempt >= producers[r].attempt
         /\ producers'[r].attempt = producers[r].attempt
              /\ producers[r].state = "completed" => producers'[r].state = "completed"
         /\ producers[r].subject \in Heads /\ producers[r].subject <= head
         /\ base'[producers[r].subject] = base[producers[r].subject]
  <1>1. TypeOK /\ producers[r].attempt \in Nat /\ head \in Nat
    BY ProviderTypes DEF IInv
  <1>2. producers[r].subject \in Heads /\ producers[r].subject <= head
    BY DEF IInv, ProducersRecorded, Order, ProducersKnown
  <1>3. producers[r].subject # head + 1
    BY <1>1, <1>2, Sizes
  <1>4. base'[producers[r].subject] = base[producers[r].subject]
    BY <1>1, <1>2, <1>3, BranchMoves
  <1>5. CASE producers'[r] = producers[r]
    BY <1>1, <1>2, <1>4, <1>5
  <1>6. CASE Restarts(r) \/ Completes(r)
    BY <1>1, <1>2, <1>4, <1>6 DEF Restarts, Completes
  <1> QED BY <1>1, <1>5, <1>6, ProducerMoves DEF Starts

LEMMA FinalizersTriggeredStep ==
  ASSUME IInv, Order, [Next]_vars PROVE FinalizersTriggered'
  <1> SUFFICES ASSUME NEW f \in FinalizerIds, Born(f)' PROVE FinalizerTriggered(f)'
    BY DEF FinalizersTriggered
  <1>1. TypeOK /\ FinalizersNumbered /\ main \in Nat /\ head \in Nat
    BY ProviderTypes DEF IInv, Order
  <1>2. main' \in {main, main + 1} /\ head' \in {head, head + 1}
    BY <1>1, BranchMoves
  <1>3. CASE Born(f)
    <2>1. PICK r \in RunIds : r = finalizers[f].run
      BY <1>3, BornTypes
    <2>2. /\ producers[r].state # "unborn"
          /\ finalizers[f].trigger <= producers[r].attempt
          /\ finalizers[f].trigger = producers[r].attempt =>
               producers[r].state = "completed"
          /\ base[producers[r].subject] <= finalizers[f].main
          /\ finalizers[f].main <= main
          /\ finalizers[f].head # 0 => /\ producers[r].subject <= finalizers[f].head
                                       /\ finalizers[f].head <= head
      BY <1>3, <2>1 DEF Order, FinalizersTriggered, FinalizerTriggered
    <2>3. /\ finalizers'[f].run = r
          /\ finalizers'[f].trigger = finalizers[f].trigger
          /\ finalizers'[f].main = finalizers[f].main
          /\ finalizers'[f].head \in {finalizers[f].head, 0, head}
      BY <1>1, <1>3, <2>1, BornKeeps
    <2>4. /\ finalizers[f].trigger \in Nat /\ finalizers[f].main \in Nat
          /\ finalizers[f].head \in Nat /\ producers[r].attempt \in Nat
          /\ producers[r].subject \in Nat
      BY <1>1, ProviderTypes
    <2>5. producers'[r].attempt \in Nat
      <3>1. producers'[r] \in Producer
        BY StepPreserves DEF IInv, TypeOK
      <3>2. producers'[r].attempt \in 0 .. MaxAttempts
        BY <3>1 DEF Producer
      <3> QED BY <3>2
    <2>6. /\ producers'[r].state # "unborn"
          /\ producers'[r].subject = producers[r].subject
          /\ producers'[r].attempt >= producers[r].attempt
          /\ producers'[r].attempt = producers[r].attempt
               /\ producers[r].state = "completed" => producers'[r].state = "completed"
          /\ producers[r].subject <= head
          /\ base'[producers[r].subject] = base[producers[r].subject]
      BY <2>2, CauseKeeps
    <2>7. finalizers[f].trigger <= producers'[r].attempt
      BY <2>2, <2>4, <2>5, <2>6
    <2>8. finalizers[f].trigger = producers'[r].attempt => producers'[r].state = "completed"
      BY <2>2, <2>4, <2>5, <2>6
    <2>9. finalizers[f].main <= main'
      BY <1>1, <1>2, <2>2, <2>4
    <2>10. finalizers'[f].head # 0 => /\ producers[r].subject <= finalizers'[f].head
                                      /\ finalizers'[f].head <= head'
      BY <1>1, <1>2, <2>2, <2>3, <2>4, <2>6
    <2> QED BY <2>2, <2>3, <2>6, <2>7, <2>8, <2>9, <2>10 DEF FinalizerTriggered
  <1>4. CASE ~ Born(f)
    <2>1. PICK r \in RunIds :
            /\ Completes(r)
            /\ finalizers'[f].run = r /\ finalizers'[f].main = main
            /\ finalizers'[f].trigger = producers[r].attempt
            /\ finalizers'[f].head = 0
      BY <1>1, <1>4, BirthBy
    <2>2. UNCHANGED <<main, base>>
      BY <1>1, <1>4, BirthBy
    <2>3. producers[r].subject \in Heads /\ producers[r].attempt \in Nat
      BY <1>1, <2>1, CauseKeeps, ProviderTypes DEF Completes
    <2>4. base[producers[r].subject] <= main
      BY <2>3 DEF Order, BasesKnown
    <2> QED BY <1>1, <2>1, <2>2, <2>3, <2>4 DEF FinalizerTriggered, Completes
  <1> QED BY <1>3, <1>4

LEMMA TriggersKeep ==
  ASSUME TypeOK, [Next]_vars, NEW f \in FinalizerIds, NEW r \in RunIds,
         Triggers(f, r), producers'[r].attempt = producers[r].attempt
  PROVE  Triggers(f, r)'
  BY BornKeeps DEF Triggers

\* The finalizer that a completion gives birth to.
LEMMA CompletionTriggers ==
  ASSUME TypeOK, [Next]_vars, NEW r \in RunIds, Completes(r)
  PROVE  \E f \in FinalizerIds : ~ Born(f) /\ Triggers(f, r)'
  <1>1. PICK result \in Results, f \in FinalizerIds : CompleteProducer(r, result, f)
    BY DEF Completes
  <1>2. finalizers'[f] = [UnbornFinalizer EXCEPT !.phase = "queued", !.main = main,
          !.run = r, !.trigger = producers[r].attempt, !.attempt = 1]
    BY <1>1 DEF CompleteProducer, TypeOK
  <1>3. /\ finalizers'[f].phase = "queued" /\ finalizers'[f].run = r
        /\ finalizers'[f].trigger = producers[r].attempt
    BY <1>2 DEF UnbornFinalizer
  <1>4. ~ Born(f)
    BY <1>1 DEF CompleteProducer, Born
  <1> QED BY <1>3, <1>4 DEF Triggers, Born, Completes

LEMMA CompletionsTriggerStep ==
  ASSUME IInv, Order, [Next]_vars PROVE CompletionsTrigger'
  <1> SUFFICES ASSUME NEW r \in RunIds, producers'[r].state = "completed"
               PROVE  \E f \in FinalizerIds : Triggers(f, r)'
    BY DEF CompletionsTrigger
  <1>1. TypeOK
    BY DEF IInv
  <1>2. CASE producers'[r] = producers[r]
    <2>1. PICK f \in FinalizerIds : Triggers(f, r)
      BY <1>2 DEF Order, CompletionsTrigger
    <2> QED BY <1>1, <1>2, <2>1, TriggersKeep
  <1>3. CASE Completes(r)
    BY <1>1, <1>3, CompletionTriggers
  <1> QED BY <1>1, <1>2, <1>3, ProducerMoves DEF Starts, Restarts

LEMMA KnownKeeps ==
  ASSUME TypeOK, [Next]_vars, NEW h \in Nat, NEW f, Known(h, f)
  PROVE  Known(h, f)'
  <1>1. f \in FinalizerIds /\ Born(f) /\ h <= head /\ head \in Nat
    BY ProviderTypes DEF Known
  <1>2. Born(f)'
    BY <1>1, BornKeeps
  <1>3. head' \in {head, head + 1}
    BY BranchMoves
  <1> QED BY <1>1, <1>2, <1>3 DEF Known

\* A finalizer observes no head that was not pushed.
LEMMA ObservationKnown ==
  ASSUME IInv, Order, NEW f \in FinalizerIds, Born(f)
  PROVE  LET o == ObservationOf(f, finalizers[f])
         IN  o.head \in Nat /\ Known(o.head, o.finalizer)
  <1>1. finalizers[f].head \in Nat /\ head \in Nat
    BY ProviderTypes DEF IInv
  <1>2. finalizers[f].head # 0 => finalizers[f].head <= head
    BY DEF Order, FinalizersTriggered, FinalizerTriggered
  <1> QED BY <1>1, <1>2 DEF ObservationOf, Known

LEMMA RecordTypes ==
  ASSUME TypeOK
  PROVE  /\ \A o \in queue : o \in PRObservation /\ o.head \in Heads /\ o.head \in Nat
         /\ \A p \in Publishers : publisher[p] # Idle =>
              /\ publisher[p] \in Publication
              /\ publisher[p].proposed \in Checks
              /\ publisher[p].proposed.subject \in Nat
              /\ publisher[p].proposed.ordinal \in Nat
         /\ \A e \in checks : e.subject \in Nat /\ e.ordinal \in Nat
  <1>1. \A h \in Heads : h \in Nat
    BY Sizes
  <1>2. \A e \in Checks : e.subject \in Nat /\ e.ordinal \in Nat
    BY <1>1 DEF Checks, Observation
  <1>3. \A o \in queue : o \in PRObservation /\ o.head \in Heads
    BY DEF TypeOK, PRObservation
  <1>4. \A p \in Publishers : publisher[p] # Idle =>
          publisher[p] \in Publication /\ publisher[p].proposed \in Checks
    BY DEF TypeOK, Publication
  <1>5. \A e \in checks : e \in Checks
    BY DEF TypeOK
  <1> QED BY <1>1, <1>2, <1>3, <1>4, <1>5

LEMMA RecordsKnownStep ==
  ASSUME IInv, Order, [Next]_vars PROVE RecordsKnown'
  <1>1. TypeOK
    BY DEF IInv
  <1>2. ASSUME NEW o \in queue' PROVE Known(o.head, o.finalizer)'
    <2>1. PICK h, f : h = o.head /\ f = o.finalizer
      OBVIOUS
    <2>2. h \in Nat /\ Known(h, f)
      <3>1. CASE o \in queue
        BY <1>1, <2>1, <3>1, RecordTypes DEF Order, RecordsKnown
      <3>2. CASE \E g \in FinalizerIds : Complete(g) /\ o = ObservationOf(g, finalizers[g])
        BY <2>1, <3>2, ObservationKnown DEF Complete
      <3> QED BY <3>1, <3>2, QueueMoves
    <2>3. Known(h, f)'
      BY <1>1, <2>2, KnownKeeps
    <2> QED BY <2>1, <2>3
  <1>3. ASSUME NEW p \in Publishers, publisher'[p] # Idle
        PROVE  (Known(publisher[p].proposed.subject, publisher[p].proposed.ordinal))'
    <2>1. PICK h, f : /\ h = publisher'[p].proposed.subject
                      /\ f = publisher'[p].proposed.ordinal
      OBVIOUS
    <2>2. h \in Nat /\ Known(h, f)
      <3>1. CASE \E o \in queue : Exact(o) /\ publisher'[p].proposed = Proposed(o)
        BY <1>1, <2>1, <3>1, RecordTypes DEF Order, RecordsKnown, Proposed
      <3>2. CASE publisher[p] # Idle /\ publisher'[p].proposed = publisher[p].proposed
        BY <1>1, <2>1, <3>2, RecordTypes DEF Order, RecordsKnown
      <3> QED BY <1>3, <3>1, <3>2, ProposalMoves
    <2>3. Known(h, f)'
      BY <1>1, <2>2, KnownKeeps
    <2> QED BY <2>1, <2>3
  <1>4. ASSUME NEW e \in checks' PROVE Known(e.subject, e.ordinal)'
    <2>1. PICK h, f : h = e.subject /\ f = e.ordinal
      OBVIOUS
    <2>2. h \in Nat /\ Known(h, f)
      BY <1>1, <2>1, CheckMoves, RecordTypes DEF Order, RecordsKnown
    <2>3. Known(h, f)'
      BY <1>1, <2>2, KnownKeeps
    <2> QED BY <2>1, <2>3
  <1> QED BY <1>2, <1>3, <1>4 DEF RecordsKnown, Known

LEMMA OrderStep ==
  ASSUME IInv, Order, [Next]_vars PROVE Order'
  BY ProducersKnownStep, BasesKnownStep, FinalizersNumberedStep,
     FinalizersTriggeredStep, CompletionsTriggerStep, RecordsKnownStep
  DEF Order

-----------------------------------------------------------------------------
(* Steps that leave the producers of the head alone.                       *)

HeadStays ==
  /\ head' = head
  /\ \A r \in RunIds : producers[r].subject = head \/ producers'[r].subject = head =>
       producers'[r] = producers[r]

LatestOf(S) == CHOOSE r \in S : \A q \in S : q <= r

\* What _producer_state says of the latest run it finds.
StateOf(r, run) ==
  [run |-> r, attempt |-> run.attempt,
   state |-> IF run.state # "completed" THEN "pending"
             ELSE IF run.results[run.attempt] = "failure" THEN "failed"
             ELSE "successful"]

LEMMA ProducerStateIs ==
  ASSUME NEW w, NEW h
  PROVE  ProducerState(w, h) =
           IF RunsOf(w, h) = {} THEN [Unread EXCEPT !.state = "pending"]
           ELSE StateOf(LatestOf(RunsOf(w, h)), producers[LatestOf(RunsOf(w, h))])
  BY DEF ProducerState, StateOf, LatestOf

LEMMA ProducerStateWillBe ==
  ASSUME NEW w, NEW h
  PROVE  ProducerState(w, h)' =
           IF RunsOf(w, h)' = {} THEN [Unread EXCEPT !.state = "pending"]
           ELSE StateOf(LatestOf(RunsOf(w, h)'), producers'[LatestOf(RunsOf(w, h)')])
  BY DEF ProducerState, StateOf, LatestOf

LEMMA LatestIsRun ==
  ASSUME NEW w, NEW h, RunsOf(w, h) # {}
  PROVE  LatestOf(RunsOf(w, h)) \in RunsOf(w, h)
  <1>1. RunsOf(w, h) \in SUBSET RunIds
    BY DEF RunsOf
  <1> QED BY <1>1, LatestExists DEF LatestOf

\* A selection that names a run is of the head's latest run, at its latest attempt.
LEMMA SelectionIsLatest ==
  ASSUME NEW w, NEW h, ProducerState(w, h).run # 0
  PROVE  \E r \in RunIds : /\ producers[r].subject = h
                           /\ ProducerState(w, h) = StateOf(r, producers[r])
                           /\ ProducerState(w, h).run = r
                           /\ ProducerState(w, h).attempt = producers[r].attempt
  <1>1. RunsOf(w, h) # {}
    BY ProducerStateIs DEF Unread
  <1>2. PICK r \in RunIds : r = LatestOf(RunsOf(w, h)) /\ producers[r].subject = h
    BY <1>1, LatestIsRun DEF RunsOf
  <1>3. ProducerState(w, h) = StateOf(r, producers[r])
    BY <1>1, <1>2, ProducerStateIs
  <1>4. StateOf(r, producers[r]).run = r
        /\ StateOf(r, producers[r]).attempt = producers[r].attempt
    BY DEF StateOf
  <1> QED BY <1>2, <1>3, <1>4

\* A producer of the head that moves is started, run again or completed.
LEMMA HeadMoves ==
  ASSUME IInv, Order, [Next]_vars, head' = head, ~ HeadStays
  PROVE  \E r \in RunIds : /\ producers'[r].subject = head
                           /\ \/ producers'[r].state = "running"
                              \/ Completes(r)
  <1>1. PICK r \in RunIds : /\ producers'[r] # producers[r]
                            /\ producers[r].subject = head \/ producers'[r].subject = head
    BY DEF HeadStays
  <1>2. Starts(r) \/ Restarts(r) \/ Completes(r)
    BY <1>1, ProducerMoves DEF IInv
  <1>3. producers[r].state = "unborn" => producers[r].subject # head
    BY Sizes DEF Order, ProducersKnown, IInv, TypeOK
  <1> QED BY <1>1, <1>2, <1>3 DEF Starts, Restarts, Completes

LEMMA HeadFrame ==
  ASSUME HeadStays
  PROVE  /\ \A w \in Workflows : ProducerState(w, head)' = ProducerState(w, head)
         /\ LatestStates' = LatestStates /\ LatestResults' = LatestResults
         /\ Verdict' = Verdict
         /\ (Completed)' <=> Completed
  <1>1. ASSUME NEW w \in Workflows
        PROVE  ProducerState(w, head)' = ProducerState(w, head)
    <2>1. PICK h : h = head /\ h = head'
      BY DEF HeadStays
    <2>2. RunsOf(w, h)' = RunsOf(w, h)
      BY <2>1 DEF HeadStays, RunsOf
    <2>3. ProducerState(w, h)' = ProducerState(w, h)
      <3>1. CASE RunsOf(w, h) = {}
        BY <2>2, <3>1, ProducerStateIs, ProducerStateWillBe
      <3>2. CASE RunsOf(w, h) # {}
        <4>1. PICK r : r = LatestOf(RunsOf(w, h))
          OBVIOUS
        <4>2. r \in RunIds /\ producers[r].subject = h
          BY <3>2, <4>1, LatestIsRun DEF RunsOf
        <4>3. producers'[r] = producers[r]
          BY <2>1, <4>2 DEF HeadStays
        <4>4. ProducerState(w, h) = StateOf(r, producers[r])
          BY <3>2, <4>1, ProducerStateIs
        <4>5. ProducerState(w, h)' = StateOf(r, producers'[r])
          BY <2>2, <3>2, <4>1, ProducerStateWillBe
        <4> QED BY <4>3, <4>4, <4>5
      <3> QED BY <3>1, <3>2
    <2> QED BY <2>1, <2>3
  <1>2. LatestStates' = LatestStates
    BY <1>1 DEF LatestStates
  <1>3. LatestResults' = LatestResults
    <2> DEFINE result(s) == IF s.run = 0 THEN "none"
                            ELSE producers[s.run].results[s.attempt]
               next(s) == IF s.run = 0 THEN "none"
                          ELSE producers'[s.run].results[s.attempt]
    <2>1. ASSUME NEW w \in Workflows
          PROVE  next(ProducerState(w, head)) = result(ProducerState(w, head))
      <3>1. CASE ProducerState(w, head).run = 0
        BY <3>1
      <3>2. CASE ProducerState(w, head).run # 0
        <4>1. PICK h : h = head
          OBVIOUS
        <4>2. PICK r \in RunIds : ProducerState(w, h).run = r /\ producers[r].subject = h
          BY <3>2, <4>1, SelectionIsLatest
        <4>3. producers'[r] = producers[r]
          BY <4>1, <4>2 DEF HeadStays
        <4> QED BY <4>1, <4>2, <4>3
      <3> QED BY <3>1, <3>2
    <2>2. LatestResults = {result(ProducerState(w, head)) : w \in Workflows}
      BY DEF LatestResults
    <2>3. LatestResults' = {next(ProducerState(w, head)') : w \in Workflows}
      BY DEF LatestResults
    <2> HIDE DEF result, next
    <2> QED BY <1>1, <2>1, <2>2, <2>3
  <1>4. Verdict' = Verdict
    BY <1>2 DEF Verdict
  <1>5. (Completed)' <=> Completed
    BY DEF HeadStays, Completed, Triggered
  <1> QED BY <1>1, <1>2, <1>3, <1>4, <1>5

\* They neither add to what a finalizer covers nor take from it.
LEMMA CoversFrame ==
  ASSUME IInv, Order, [Next]_vars, HeadStays, NEW f \in FinalizerIds, Born(f)
  PROVE  (Covers(f)' <=> Covers(f)) /\ (Decides(f)' <=> Decides(f))
  <1>1. TypeOK /\ FinalizersNumbered
    BY DEF IInv, Order
  <1>2. \A g \in FinalizerIds : g <= f => Born(g)
    <2>1. \A g \in FinalizerIds : g <= f => g < f \/ g = f
      BY Sizes
    <2> QED BY <1>1, <2>1 DEF FinalizersNumbered
  <1>3. \A g \in FinalizerIds, r \in RunIds : producers'[r] = producers[r] /\ g <= f =>
          (Triggers(g, r)' <=> Triggers(g, r))
    BY <1>1, <1>2, BornKeeps DEF Triggers
  <1>4. Born(f)' /\ finalizers'[f].run = finalizers[f].run /\ finalizers[f].run \in RunIds
    BY <1>1, BornKeeps, BornTypes
  <1>5. Covers(f)' <=> Covers(f)
    BY <1>3, <1>4 DEF Covers, HeadStays
  <1>6. f <= f
    BY Sizes
  <1>7. Decides(f)' <=> Decides(f)
    <2>1. PICK r \in RunIds : r = finalizers[f].run
      BY <1>4
    <2>2. Triggers(f, r)' <=> Triggers(f, finalizers[f].run)'
      BY <1>4, <2>1
    <2>3. producers[r].subject = head => (Triggers(f, r)' <=> Triggers(f, r))
      BY <1>3, <1>6 DEF HeadStays
    <2>4. producers'[r].subject = head' <=> producers[r].subject = head
      BY DEF HeadStays
    <2>5. Decides(f)' <=> Covers(f)' /\ producers'[r].subject = head' /\ Triggers(f, r)'
      BY <1>4, <2>1 DEF Decides
    <2> QED BY <1>5, <2>1, <2>3, <2>4, <2>5 DEF Decides
  <1> QED BY <1>5, <1>7

\* A step that leaves the head alone but not its producers gives no finalizer that
\* was there before what it takes to cover them.
LEMMA CoversOnlyIfStill ==
  ASSUME IInv, Order, [Next]_vars, head' = head,
         NEW f \in FinalizerIds, Born(f), Covers(f)'
  PROVE  HeadStays
  <1> SUFFICES ASSUME ~ HeadStays PROVE FALSE
    OBVIOUS
  <1>1. TypeOK /\ FinalizersNumbered
    BY DEF IInv, Order
  <1>2. PICK r \in RunIds : /\ producers'[r].subject = head
                            /\ producers'[r].state = "running" \/ Completes(r)
    BY HeadMoves
  <1>3. producers'[r].state = "completed"
    BY <1>2 DEF Covers
  <1>4. PICK g \in FinalizerIds : g <= f /\ Triggers(g, r)'
    BY <1>2 DEF Covers
  <1>5. Completes(r)
    BY <1>2, <1>3
  <1>6. Born(g)
    <2>1. g < f \/ g = f
      BY <1>4, Sizes
    <2> QED BY <1>1, <2>1 DEF FinalizersNumbered
  <1>7. finalizers[g].run = r /\ finalizers[g].trigger = producers[r].attempt
    BY <1>1, <1>4, <1>5, <1>6, BornKeeps DEF Triggers, Completes
  <1> QED BY <1>5, <1>6, <1>7 DEF Order, FinalizersTriggered, FinalizerTriggered, Completes

-----------------------------------------------------------------------------
(* What is said with a number that covers the head is the verdict.         *)

LEMMA StepReads ==
  ASSUME IInv, NEW f \in FinalizerIds, ReadsAgree(finalizers[f]),
         FinalizerStep(f) \/ RerunFinalizer(f) \/ LoseFinalizer(f)
  PROVE  ReadsAgree(finalizers'[f])
  <1> DEFINE old == finalizers[f]
  <1>1. /\ old \in Finalizer /\ head \in Nat \ {0} /\ old.cursor \in Nat
        /\ finalizers \in [FinalizerIds -> Finalizer]
    BY ProviderTypes DEF IInv, TypeOK
  <1>2. \A run : BecomeFinalizer(f, run) => finalizers'[f] = run
    BY <1>1 DEF BecomeFinalizer
  <1>3. Forgotten(old).head = 0 /\ Forgotten(old) \in Finalizer
    BY <1>1, ForgottenFields DEF Forgotten, Finalizer
  <1>4. CASE Raise(f)
    <2> DEFINE run == [Forgotten(old) EXCEPT !.phase = "failed"]
    <2>1. finalizers'[f] = run
      BY <1>2, <1>4 DEF Raise
    <2>2. run.head = 0
      BY <1>3 DEF Finalizer
    <2> HIDE DEF run
    <2> QED BY <1>1, <2>1, <2>2 DEF ReadsAgree
  <1>5. CASE RerunFinalizer(f)
    <2> DEFINE run == [Forgotten(old) EXCEPT !.phase = "queued", !.attempt = old.attempt + 1]
    <2>1. finalizers'[f] = run
      BY <1>2, <1>5 DEF RerunFinalizer
    <2>2. run.head = 0
      BY <1>3 DEF Finalizer
    <2> HIDE DEF run
    <2> QED BY <1>1, <2>1, <2>2 DEF ReadsAgree
  <1>6. ASSUME NEW phase, BecomeFinalizer(f, [old EXCEPT !.phase = phase])
        PROVE  ReadsAgree(finalizers'[f])
    <2> DEFINE run == [old EXCEPT !.phase = phase]
    <2>1. finalizers'[f] = run
      BY <1>2, <1>6
    <2>2. run.head = old.head /\ run.cursor = old.cursor /\ run.selected = old.selected
      BY <1>1 DEF Finalizer
    <2> HIDE DEF run
    <2> QED BY <2>1, <2>2 DEF ReadsAgree
  <1>7. CASE StartFinalizer(f) \/ UploadObservation(f) \/ LoseFinalizer(f)
    BY <1>4, <1>6, <1>7 DEF StartFinalizer, UploadObservation, LoseFinalizer
  <1>8. CASE ReadHead(f) /\ BecomeFinalizer(f, [old EXCEPT !.head = head, !.cursor = 1])
    <2> DEFINE run == [old EXCEPT !.head = head, !.cursor = 1]
    <2>1. finalizers'[f] = run
      BY <1>2, <1>8
    <2>2. run.cursor = 1
      BY <1>1 DEF Finalizer
    <2>3. \A w \in Workflows : ~ (w < 1)
      BY Sizes
    <2> HIDE DEF run
    <2> QED BY <2>1, <2>2, <2>3 DEF ReadsAgree
  <1>9. CASE ReadProducer(f)
    <2> DEFINE c == old.cursor
               run == [old EXCEPT !.selected = [old.selected EXCEPT ![c]
                                     = ProducerState(c, old.head)], !.cursor = c + 1]
    <2>1. finalizers'[f] = run
      BY <1>2, <1>9 DEF ReadProducer
    <2>2. /\ run.head = old.head /\ run.cursor = c + 1
          /\ run.selected = [old.selected EXCEPT ![c] = ProducerState(c, old.head)]
      BY <1>1 DEF Finalizer
    <2>3. old.selected \in [Workflows -> Selection]
      BY <1>1 DEF Finalizer
    <2> HIDE DEF run
    <2>4. ASSUME old.head = head, NEW w \in Workflows, w < c + 1
          PROVE  run.selected[w] = ProducerState(w, head)
      <3>1. w = c \/ w < c
        BY <1>1, <2>4, Sizes
      <3>2. CASE w = c
        BY <2>2, <2>3, <2>4, <3>2
      <3>3. CASE w < c /\ w # c
        <4>1. run.selected[w] = old.selected[w]
          BY <2>2, <2>3, <3>3
        <4> QED BY <2>4, <3>3, <4>1 DEF ReadsAgree
      <3> QED BY <3>1, <3>2, <3>3
    <2> QED BY <2>1, <2>2, <2>4 DEF ReadsAgree
  <1>10. CASE VerifyEvidence(f) /\ BecomeFinalizer(f, [old EXCEPT !.cursor = old.cursor + 1])
    <2> DEFINE run == [old EXCEPT !.cursor = old.cursor + 1]
    <2>1. finalizers'[f] = run
      BY <1>2, <1>10
    <2>2. run.head = old.head /\ run.selected = old.selected
      BY <1>1 DEF Finalizer
    <2>3. \A w \in Workflows : w < old.cursor
      <3>1. old.cursor >= WorkflowCount + 1
        BY <1>10, <1>1, Sizes DEF VerifyEvidence, Running
      <3> QED BY <1>1, <3>1, Sizes
    <2> HIDE DEF run
    <2> QED BY <2>1, <2>2, <2>3 DEF ReadsAgree
  <1> QED
    BY <1>4, <1>5, <1>7, <1>8, <1>9, <1>10 DEF FinalizerStep, ReadHead, VerifyEvidence

\* What a finalizer that read all it has to observes of the head is the verdict.
LEMMA CompleteObserves ==
  ASSUME IInv, NEW f \in FinalizerIds, Complete(f), ReadsAgree(finalizers[f]),
         finalizers[f].head = head
  PROVE  ObservationOf(f, finalizers[f]).state = Verdict
  <1>1. \A w \in Workflows : w < finalizers[f].cursor
    BY Sizes DEF Complete
  <1>2. \A w \in Workflows : finalizers[f].selected[w] = ProducerState(w, head)
    BY <1>1 DEF ReadsAgree
  <1>3. {finalizers[f].selected[w].state : w \in Workflows} = LatestStates
    BY <1>2 DEF LatestStates
  <1> QED BY <1>3 DEF ObservationOf, Verdict

LEMMA FinalizerActs ==
  ASSUME TypeOK, [Next]_vars, NEW f \in FinalizerIds, Born(f)
  PROVE  \/ finalizers'[f] = finalizers[f]
         \/ FinalizerStep(f) \/ RerunFinalizer(f) \/ LoseFinalizer(f)
  <1> DEFINE Goal == \/ finalizers'[f] = finalizers[f]
                     \/ FinalizerStep(f) \/ RerunFinalizer(f) \/ LoseFinalizer(f)
  <1>1. ASSUME NEW r \in RunIds, NEW result \in Results, NEW g \in FinalizerIds,
               CompleteProducer(r, result, g)
        PROVE  Goal
    BY <1>1 DEF CompleteProducer, Born, TypeOK
  <1>2. ASSUME NEW g \in FinalizerIds,
               FinalizerStep(g) \/ RerunFinalizer(g) \/ LoseFinalizer(g)
        PROVE  Goal
    BY <1>2, StepAdvances
  <1>3. ASSUME UNCHANGED finalizers PROVE Goal
    BY <1>3
  <1> HIDE DEF Goal
  <1>4. Goal
    BY <1>1, <1>2, <1>3
    DEF Next, vars, MoveMain, PushHead, StartProducer, RerunProducer, RerunPublisher,
        BeginPublication, PublisherStep, ReadAndDecide, CreateCheckRun, LosePublisher
  <1> QED BY <1>4 DEF Goal

\* Whatever is said after the step by a finalizer known before it, was to be said
\* before it.
LEMMA SaidBefore ==
  ASSUME IInv, Order, [Next]_vars, NEW h \in Nat, NEW f, Known(h, f),
         h = head', Covers(f)'
  PROVE  h = head /\ HeadStays /\ Covers(f) /\ Verdict' = Verdict
  <1>1. TypeOK /\ head \in Nat /\ f \in FinalizerIds /\ Born(f) /\ h <= head
    BY ProviderTypes DEF IInv, Known
  <1>2. head' = head
    BY <1>1, BranchMoves
  <1>3. HeadStays
    BY <1>1, <1>2, CoversOnlyIfStill
  <1> QED BY <1>1, <1>2, <1>3, CoversFrame, HeadFrame

LEMMA ReadsStep ==
  ASSUME IInv, Order, Faithful, [Next]_vars, NEW f \in FinalizerIds, Covers(f)'
  PROVE  ReadsAgree(finalizers[f])'
  <1> SUFFICES ASSUME finalizers'[f].head = head', NEW w \in Workflows,
                      w < finalizers'[f].cursor
               PROVE  finalizers'[f].selected[w] = ProducerState(w, head)'
    BY DEF ReadsAgree
  <1>1. TypeOK /\ FinalizersNumbered /\ head \in Nat \ {0} /\ finalizers[f].head \in Nat
    BY ProviderTypes DEF IInv, Order
  <1>2. Born(f)
    BY <1>1, BirthBy DEF Covers
  <1>3. head' = head
    <2> SUFFICES ASSUME head' # head PROVE FALSE
      OBVIOUS
    <2>1. head' = head + 1 /\ finalizers' = finalizers
      BY <1>1, BranchMoves
    <2>2. finalizers[f].head # 0 => finalizers[f].head <= head
      BY <1>2 DEF Order, FinalizersTriggered, FinalizerTriggered
    <2> QED BY <1>1, <2>1, <2>2
  <1>4. HeadStays
    BY <1>2, <1>3, CoversOnlyIfStill
  <1>5. ReadsAgree(finalizers[f])
    BY <1>2, <1>4, CoversFrame DEF Faithful
  <1>6. ReadsAgree(finalizers'[f])
    BY <1>1, <1>2, <1>5, FinalizerActs, StepReads
  <1>7. finalizers'[f].selected[w] = ProducerState(w, head)
    BY <1>3, <1>6 DEF ReadsAgree
  <1> QED BY <1>4, <1>7, HeadFrame

LEMMA FaithfulStep ==
  ASSUME IInv, Order, Faithful, [Next]_vars PROVE Faithful'
  <1>1. TypeOK
    BY DEF IInv
  <1>2. ASSUME NEW o \in queue' PROVE ObservationFaithful(o)'
    <2> SUFFICES ASSUME o.head = head', Covers(o.finalizer)' PROVE o.state = Verdict'
      BY DEF ObservationFaithful
    <2>1. PICK h, f : h = o.head /\ f = o.finalizer
      OBVIOUS
    <2>2. Covers(f)'
      BY <2>1
    <2>3. CASE o \in queue
      <3>1. h \in Nat /\ Known(h, f)
        BY <1>1, <2>1, <2>3, RecordTypes DEF Order, RecordsKnown
      <3>2. h = head /\ Covers(f) /\ Verdict' = Verdict
        BY <2>1, <2>2, <3>1, SaidBefore
      <3>3. ObservationFaithful(o)
        BY <2>3 DEF Faithful
      <3> QED BY <2>1, <3>2, <3>3 DEF ObservationFaithful
    <2>4. CASE \E g \in FinalizerIds : Complete(g) /\ o = ObservationOf(g, finalizers[g])
      <3>1. /\ f \in FinalizerIds /\ Complete(f) /\ o = ObservationOf(f, finalizers[f])
            /\ h = finalizers[f].head
        BY <2>1, <2>4 DEF ObservationOf
      <3>2. h \in Nat /\ Known(h, f)
        BY <2>1, <3>1, ObservationKnown DEF Complete
      <3>3. h = head /\ Covers(f) /\ Verdict' = Verdict
        BY <2>1, <2>2, <3>2, SaidBefore
      <3>4. ReadsAgree(finalizers[f])
        BY <3>1, <3>3 DEF Faithful
      <3> QED BY <3>1, <3>3, <3>4, CompleteObserves
    <2> QED BY <2>3, <2>4, QueueMoves
  <1>3. ASSUME NEW p \in Publishers, publisher'[p] # Idle
        PROVE  (CheckFaithful(publisher[p].proposed))'
    <2>1. PICK e : e = publisher'[p].proposed
      OBVIOUS
    <2>2. PICK h, f : h = e.subject /\ f = e.ordinal
      OBVIOUS
    <2>3. ASSUME h = head', Covers(f)' PROVE e.conclusion = Conclusion(Verdict')
      <3>1. CASE \E o \in queue : Exact(o) /\ publisher'[p].proposed = Proposed(o)
        <4>1. PICK o \in queue : e = Proposed(o)
          BY <2>1, <3>1
        <4>2. h = o.head /\ f = o.finalizer /\ e.conclusion = Conclusion(o.state)
          BY <2>2, <4>1 DEF Proposed
        <4>3. h \in Nat /\ Known(h, f)
          BY <1>1, <4>2, RecordTypes DEF Order, RecordsKnown
        <4>4. h = head /\ Covers(f) /\ Verdict' = Verdict
          BY <2>3, <4>3, SaidBefore
        <4> QED BY <4>2, <4>4 DEF Faithful, ObservationFaithful
      <3>2. CASE publisher[p] # Idle /\ publisher'[p].proposed = publisher[p].proposed
        <4>1. h \in Nat /\ Known(h, f)
          BY <1>1, <2>1, <2>2, <3>2, RecordTypes DEF Order, RecordsKnown
        <4>2. h = head /\ Covers(f) /\ Verdict' = Verdict
          BY <2>3, <4>1, SaidBefore
        <4>3. CheckFaithful(e)
          BY <2>1, <3>2 DEF Faithful
        <4> QED BY <2>2, <4>2, <4>3 DEF CheckFaithful
      <3> QED BY <1>3, <3>1, <3>2, ProposalMoves
    <2>4. CheckFaithful(e)'
      BY <2>2, <2>3 DEF CheckFaithful
    <2> QED BY <2>1, <2>4
  <1>4. ASSUME NEW e \in checks' PROVE CheckFaithful(e)'
    <2>1. PICK h, f : h = e.subject /\ f = e.ordinal
      OBVIOUS
    <2>2. h \in Nat /\ Known(h, f) /\ CheckFaithful(e)
      BY <1>1, <2>1, CheckMoves, RecordTypes DEF Order, RecordsKnown, Faithful
    <2>3. ASSUME h = head', Covers(f)' PROVE e.conclusion = Conclusion(Verdict')
      <3>1. h = head /\ Covers(f) /\ Verdict' = Verdict
        BY <2>2, <2>3, SaidBefore
      <3> QED BY <2>1, <2>2, <3>1 DEF CheckFaithful
    <2> QED BY <2>1, <2>3 DEF CheckFaithful
  <1> QED BY <1>2, <1>3, <1>4, ReadsStep DEF Faithful

-----------------------------------------------------------------------------
(* The completion that leaves none of the head's producers running triggers *)
(* a finalizer that covers them all.                                       *)

LEMMA DecisionExistsStep ==
  ASSUME IInv, Order, DecisionExists, [Next]_vars PROVE DecisionExists'
  <1> SUFFICES ASSUME Completed' PROVE \E f \in FinalizerIds : Decides(f)'
    BY DEF DecisionExists
  <1>1. TypeOK /\ FinalizersNumbered /\ head \in Nat
    BY ProviderTypes DEF IInv, Order
  <1>2. head' = head
    <2> SUFFICES ASSUME head' # head PROVE FALSE
      OBVIOUS
    <2>1. head' = head + 1 /\ producers' = producers
      BY <1>1, BranchMoves
    <2>2. PICK r \in RunIds : producers[r].subject = head + 1
      BY <2>1 DEF Completed, Triggered
    <2>3. producers[r].subject <= head
      BY DEF Order, ProducersKnown
    <2> QED BY <1>1, <2>2, <2>3
  <1>3. CASE HeadStays
    <2>1. PICK f \in FinalizerIds : Decides(f)
      BY <1>3, HeadFrame DEF DecisionExists
    <2> QED BY <1>3, <2>1, CoversFrame DEF Decides, Covers
  <1>4. CASE ~ HeadStays
    <2>1. PICK r \in RunIds : producers'[r].subject = head /\ Completes(r)
      BY <1>2, <1>4, HeadMoves DEF Completed
    <2>2. PICK f \in FinalizerIds : ~ Born(f) /\ Triggers(f, r)'
      BY <1>1, <2>1, CompletionTriggers
    <2>3. Born(f)' /\ finalizers'[f].run = r
      BY <2>2 DEF Triggers
    <2>4. ASSUME NEW q \in RunIds, producers'[q].subject = head'
          PROVE  /\ producers'[q].state = "completed"
                 /\ \E g \in FinalizerIds : g <= f /\ Triggers(g, q)'
      <3>1. producers'[q].state = "completed"
        BY <2>4 DEF Completed
      <3>2. PICK g \in FinalizerIds : Triggers(g, q)'
        BY <3>1, CompletionsTriggerStep DEF CompletionsTrigger
      <3>3. Born(g)'
        BY <3>2 DEF Triggers
      <3>4. g <= f
        <4>1. CASE Born(g)
          BY <1>1, <2>2, <2>3, <4>1, BirthBy, Sizes
        <4>2. CASE ~ Born(g)
          <5>1. ~ (f < g)
            BY <1>1, <2>2, <3>3, <4>2, BirthBy
          <5> QED BY <5>1, Sizes
        <4> QED BY <4>1, <4>2
      <3> QED BY <3>1, <3>2, <3>4
    <2>5. Covers(f)'
      BY <2>3, <2>4 DEF Covers
    <2> QED BY <1>2, <2>1, <2>2, <2>3, <2>5 DEF Decides
  <1> QED BY <1>3, <1>4

-----------------------------------------------------------------------------
(* Nothing stops the finalizer that decides, short of a lost runner.       *)

\* f decides, no runner was lost, and main and head stand as f found them.
Unhindered(f) ==
  /\ losses = 0 /\ base[head] = main /\ "rejected" \notin LatestResults
  /\ Decides(f) /\ finalizers[f].main = main
  /\ producers[finalizers[f].run].attempt = finalizers[f].trigger
  /\ finalizers[f].head # 0 => finalizers[f].head = head

LEMMA DeciderUnhindered ==
  ASSUME IInv, Order, Undisturbed, NEW f \in FinalizerIds, Decides(f)
  PROVE  Unhindered(f)
  <1>1. TypeOK /\ main \in Nat /\ head \in Nat
        /\ finalizers[f].main \in Nat /\ finalizers[f].head \in Nat
    BY ProviderTypes DEF IInv
  <1>2. PICK r \in RunIds : r = finalizers[f].run
    BY BornTypes DEF Decides, Covers
  <1>3. producers[r].subject = head /\ producers[r].attempt = finalizers[f].trigger
    BY <1>2 DEF Decides, Triggers
  <1>4. /\ base[head] <= finalizers[f].main /\ finalizers[f].main <= main
        /\ finalizers[f].head # 0 => head <= finalizers[f].head /\ finalizers[f].head <= head
    BY <1>2, <1>3
    DEF Decides, Covers, Order, FinalizersTriggered, FinalizerTriggered
  <1>5. base[head] = main
    BY DEF Undisturbed
  <1>6. finalizers[f].main = main
    BY <1>1, <1>4, <1>5
  <1>7. finalizers[f].head # 0 => finalizers[f].head = head
    BY <1>1, <1>4
  <1> QED BY <1>2, <1>3, <1>6, <1>7 DEF Undisturbed, Unhindered

\* It was not disturbed before a step after which it is not.
LEMMA UndisturbedBefore ==
  ASSUME IInv, Order, [Next]_vars, Undisturbed', NEW f \in FinalizerIds, Born(f),
         Decides(f)'
  PROVE  Undisturbed /\ Decides(f) /\ UNCHANGED <<losses, main, head>>
  <1>1. TypeOK /\ main \in Nat /\ head \in Nat \ {0} /\ head \in Heads /\ losses \in Nat
    BY ProviderTypes DEF IInv, TypeOK
  <1>2. losses' = losses
    <2>1. losses' \in {losses, losses + 1}
      BY DEF Next, vars, bounds, MoveMain, PushHead, StartProducer, RerunProducer,
             CompleteProducer, FinalizerStep, StartFinalizer, ReadHead, ReadProducer,
             VerifyEvidence, UploadObservation, RerunFinalizer, LoseFinalizer,
             RerunPublisher, BeginPublication, PublisherStep, ReadAndDecide,
             CreateCheckRun, LosePublisher
    <2> QED BY <1>1, <2>1 DEF Undisturbed
  <1>3. head' = head
    <2> SUFFICES ASSUME head' # head PROVE FALSE
      OBVIOUS
    <2>1. head' = head + 1 /\ producers' = producers /\ finalizers' = finalizers
      BY <1>1, BranchMoves
    <2>2. PICK r \in RunIds : r = finalizers[f].run
      BY BornTypes
    <2>3. producers[r].subject = head + 1
      BY <2>1, <2>2 DEF Decides
    <2>4. producers[r].subject <= head
      BY DEF Order, ProducersKnown
    <2> QED BY <1>1, <2>3, <2>4
  <1>4. HeadStays
    BY <1>3, CoversOnlyIfStill DEF Decides
  <1>5. Decides(f) /\ "rejected" \notin LatestResults
    BY <1>4, CoversFrame, HeadFrame DEF Undisturbed
  <1>6. main' = main /\ base[head] = main
    <2>1. base'[head] = base[head]
      BY <1>1, <1>3, BranchMoves
    <2>2. base[head] <= main /\ main' \in {main, main + 1} /\ base[head] \in Nat
      BY <1>1, BranchMoves, ProviderTypes DEF Order, BasesKnown
    <2>3. base[head] = main'
      BY <1>3, <2>1 DEF Undisturbed
    <2> QED BY <1>1, <2>2, <2>3
  <1> QED BY <1>2, <1>3, <1>5, <1>6 DEF Undisturbed

\* It finds all the evidence it needs, of the very attempts it selected.
LEMMA EvidenceIsAccepted ==
  ASSUME IInv, Order, Faithful, NEW f \in FinalizerIds, Unhindered(f), VerifyEvidence(f)
  PROVE  LET run == finalizers[f]
         IN  EvidenceOutcomes(run, run.selected[run.cursor - WorkflowCount]) = {"accepted"}
  <1>1. PICK run : run = finalizers[f]
    OBVIOUS
  <1>2. PICK v : v = run.cursor - WorkflowCount
    OBVIOUS
  <1>3. run.cursor \in Nat /\ FinalizerRecorded(run)
    BY <1>1, ProviderTypes DEF IInv, FinalizersRecorded
  <1>4. run.cursor >= WorkflowCount + 1 /\ run.cursor <= 2 * WorkflowCount
    BY <1>1, <1>3, Sizes DEF VerifyEvidence, Running
  <1>5. v \in Workflows /\ v < run.cursor
    BY <1>2, <1>3, <1>4, Sizes DEF Workflows
  <1>6. run.head = head
    <2>1. run.head \in Heads
      BY <1>3, <1>4, Sizes DEF FinalizerRecorded
    <2> QED BY <1>1, <2>1, Sizes DEF Unhindered
  <1>7. producers[run.run].subject = run.head
    BY <1>1, <1>6 DEF Unhindered, Decides
  <1>8. PICK s : s = run.selected[v]
    OBVIOUS
  <1>9. s = ProducerState(v, head)
    BY <1>1, <1>5, <1>6, <1>8 DEF Faithful, Unhindered, Decides, ReadsAgree
  <1>10. CASE s.state # "successful"
    BY <1>1, <1>2, <1>8, <1>10 DEF EvidenceOutcomes
  <1>11. CASE s.state = "successful"
    <2>1. PICK h \in Heads : h = head
      BY ProviderTypes DEF IInv
    <2>2. s.run # 0
      <3>1. s.run \in RunsOf(v, h)
        BY <1>5, <1>9, <1>11, <2>1, ProducerStateRecorded DEF IInv
      <3> QED BY <3>1, Sizes DEF RunsOf
    <2>3. PICK r \in RunIds : /\ producers[r].subject = h
                              /\ s = StateOf(r, producers[r])
                              /\ s.run = r /\ s.attempt = producers[r].attempt
      BY <1>9, <2>1, <2>2, SelectionIsLatest
    <2>4. PICK result : result = producers[r].results[producers[r].attempt]
      OBVIOUS
    <2>5. producers[r].state = "completed" /\ result # "failure"
      BY <1>11, <2>3, <2>4 DEF StateOf
    <2>6. result # "rejected"
      <3>1. result \in LatestResults
        BY <1>5, <1>9, <2>2, <2>3, <2>4 DEF LatestResults
      <3> QED BY <3>1 DEF Unhindered
    <2>7. result \in Results \cup {"none"} /\ result # "none"
      <3>1. producers[r] \in Producer /\ producers[r].attempt \in Attempts
        BY <2>5, ProviderTypes DEF IInv, ProducersRecorded
      <3> QED BY <2>4, <2>5, <3>1 DEF Producer, IInv, ProducersRecorded
    <2>8. result = "success"
      BY <2>5, <2>6, <2>7 DEF Results
    <2> QED
      BY <1>1, <1>2, <1>7, <1>8, <1>11, <2>3, <2>4, <2>8 DEF EvidenceOutcomes
  <1> QED BY <1>10, <1>11

LEMMA RunningIsUnderWay ==
  ASSUME IInv, Order, Faithful, [Next]_vars, NEW f \in FinalizerIds, Unhindered(f),
         finalizers[f].phase \in {"queued", "running"}, UNCHANGED <<losses, main, head>>
  PROVE  UnderWay(f)'
  <1> DEFINE old == finalizers[f]
  <1>1. old \in Finalizer /\ TypeOK /\ losses \in Nat
    BY DEF IInv, TypeOK
  <1>2. \A run : BecomeFinalizer(f, run) => finalizers'[f] = run
    BY <1>1 DEF BecomeFinalizer, TypeOK
  <1>3. ASSUME NEW run, run.phase = "running", BecomeFinalizer(f, run) PROVE UnderWay(f)'
    BY <1>2, <1>3 DEF UnderWay
  <1>4. CASE StartFinalizer(f)
    <2>1. BecomeFinalizer(f, [old EXCEPT !.phase = "running"])
      BY <1>4 DEF StartFinalizer, Unhindered
    <2> QED BY <1>1, <1>3, <2>1 DEF Finalizer
  <1>5. CASE ReadHead(f)
    <2> DEFINE run == [old EXCEPT !.head = head, !.cursor = 1]
    <2>1. BecomeFinalizer(f, run)
      BY <1>5 DEF ReadHead, Unhindered
    <2>2. run.phase = "running"
      BY <1>1, <1>5 DEF Finalizer, ReadHead, Running
    <2> HIDE DEF run
    <2> QED BY <1>3, <2>1, <2>2
  <1>6. CASE ReadProducer(f)
    <2> DEFINE run == [old EXCEPT !.selected = [old.selected EXCEPT ![old.cursor]
                                      = ProducerState(old.cursor, old.head)],
                                  !.cursor = old.cursor + 1]
    <2>1. BecomeFinalizer(f, run)
      BY <1>6 DEF ReadProducer
    <2>2. run.phase = "running"
      BY <1>1, <1>6 DEF Finalizer, ReadProducer, Running
    <2> HIDE DEF run
    <2> QED BY <1>3, <2>1, <2>2
  <1>7. CASE VerifyEvidence(f)
    <2> DEFINE run == [old EXCEPT !.cursor = old.cursor + 1]
    <2>1. EvidenceOutcomes(old, old.selected[old.cursor - WorkflowCount]) = {"accepted"}
      BY <1>7, EvidenceIsAccepted
    <2>2. BecomeFinalizer(f, run)
      BY <1>7, <2>1 DEF VerifyEvidence
    <2>3. run.phase = "running"
      BY <1>1, <1>7 DEF Finalizer, VerifyEvidence, Running
    <2> HIDE DEF run
    <2> QED BY <1>3, <2>2, <2>3
  <1>8. CASE UploadObservation(f)
    <2> DEFINE run == [old EXCEPT !.phase = "done"]
    <2>1. finalizers'[f] = run
      BY <1>2, <1>8 DEF UploadObservation
    <2>2. run.phase = "done" /\ run.attempt = old.attempt
      BY <1>1 DEF Finalizer
    <2>3. old.head = head
      <3>1. old.cursor > 0
        BY <1>1, <1>8, Sizes DEF UploadObservation, Running
      <3>2. old.head \in Heads
        BY <3>1 DEF IInv, FinalizersRecorded, FinalizerRecorded
      <3> QED BY <3>2, Sizes DEF Unhindered
    <2>4. PICK o : o = ObservationOf(f, old)
      OBVIOUS
    <2>5. o \in queue' /\ o.finalizer = f /\ o.head = head' /\ o.attempt = old.attempt
      BY <1>8, <2>3, <2>4 DEF UploadObservation, ObservationOf
    <2> HIDE DEF run
    <2> QED BY <2>1, <2>2, <2>5 DEF UnderWay
  <1>9. CASE finalizers'[f] = finalizers[f]
    BY <1>9 DEF UnderWay
  <1>10. ~ RerunFinalizer(f) /\ ~ LoseFinalizer(f)
    BY <1>1 DEF RerunFinalizer, LoseFinalizer
  <1>11. Born(f)
    BY DEF Born
  <1> QED
    BY <1>1, <1>4, <1>5, <1>6, <1>7, <1>8, <1>9, <1>10, <1>11, FinalizerActs
    DEF FinalizerStep

LEMMA ObservedIsUnderWay ==
  ASSUME IInv, [Next]_vars, NEW f \in FinalizerIds, Unhindered(f),
         finalizers[f].phase = "done",
         NEW o \in queue, o.finalizer = f, o.head = head, o.attempt = finalizers[f].attempt,
         UNCHANGED <<losses, main, head>>
  PROVE  UnderWay(f)'
  <1>1. TypeOK /\ Born(f) /\ finalizers[f] \in Finalizer
    BY DEF IInv, TypeOK, Born
  <1>2. CASE RerunFinalizer(f)
    <2> DEFINE run == [Forgotten(finalizers[f]) EXCEPT
                         !.phase = "queued", !.attempt = finalizers[f].attempt + 1]
    <2>1. finalizers'[f] = run
      BY <1>1, <1>2 DEF RerunFinalizer, BecomeFinalizer, TypeOK
    <2>2. run.phase = "queued"
      BY <1>1, ForgottenFields DEF Finalizer
    <2> HIDE DEF run
    <2> QED BY <2>1, <2>2 DEF UnderWay
  <1>3. CASE finalizers'[f] = finalizers[f]
    <2>1. CASE o \in queue'
      BY <1>3, <2>1 DEF UnderWay
    <2>2. ASSUME NEW p \in Publishers, NEW q \in queue, BeginPublication(p, q), o \notin queue'
          PROVE  UnderWay(f)'
      <3>1. q = o
        BY <2>2 DEF BeginPublication
      <3>2. Exact(o)
        BY DEF Exact, Unhindered
      <3>3. publisher'[p] = [phase |-> "reading", proposed |-> Proposed(o)]
        BY <1>1, <2>2, <3>1, <3>2 DEF BeginPublication, TypeOK
      <3>4. /\ publisher'[p] # Idle
            /\ publisher'[p].proposed.ordinal = f /\ publisher'[p].proposed.subject = head'
        BY <3>3 DEF Proposed, Idle
      <3> QED BY <3>4 DEF UnderWay
    <2>3. o \in queue' \/ \E p \in Publishers, q \in queue : BeginPublication(p, q)
      BY DEF Next, vars, bounds, MoveMain, PushHead, StartProducer, RerunProducer,
             CompleteProducer, FinalizerStep, StartFinalizer, ReadHead, ReadProducer,
             VerifyEvidence, UploadObservation, RerunFinalizer, LoseFinalizer,
             RerunPublisher, PublisherStep, ReadAndDecide, CreateCheckRun, LosePublisher
    <2> QED BY <2>1, <2>2, <2>3
  <1>4. ~ FinalizerStep(f) /\ ~ LoseFinalizer(f)
    BY DEF FinalizerStep, StartFinalizer, ReadHead, ReadProducer, VerifyEvidence,
           UploadObservation, LoseFinalizer, Running
  <1> QED BY <1>1, <1>2, <1>3, <1>4, FinalizerActs

\* A check is refused only for one of no smaller number on the same head.
LEMMA RefusedIsBeaten ==
  ASSUME IInv, NEW proposed \in Checks,
         ~ Publishes(DecideStatusPublication(proposed, listed[proposed.subject], main))
  PROVE  \E current \in checks : /\ current.subject = proposed.subject
                                /\ current.ordinal >= proposed.ordinal
  <1> DEFINE current == listed[proposed.subject]
  <1>1. /\ proposed.context = PullRequest /\ proposed.subject \in Heads
        /\ proposed.ordinal \in Nat /\ proposed.attempt \in Nat
    BY DEF Checks, Observation
  <1>2. proposed.context \notin MainContexts
    BY <1>1 DEF MainContexts, PullRequest, ExactMain, BoundedWorkitem, AuthorityCanary
  <1>3. current # NoStatus
    BY <1>2 DEF DecideStatusPublication, Publishes
  <1>4. current \in checks /\ current.subject = proposed.subject
    BY <1>1, <1>3 DEF IInv, ListedPosted, ChecksOf
  <1>5. current \in Checks
    BY <1>4 DEF IInv, TypeOK
  <1>6. /\ current.context = PullRequest
        /\ current.ordinal \in Nat /\ current.attempt \in Nat
    BY <1>5 DEF Checks, Observation
  <1> HIDE DEF current
  <1>7. SameIdentity(proposed, current)
    BY <1>1, <1>4, <1>6 DEF SameIdentity
  <1>8. Precedes(proposed, current) \/ ~ Precedes(current, proposed)
    BY <1>2, <1>3, <1>7 DEF DecideStatusPublication, Publishes, current
  <1>9. current.ordinal >= proposed.ordinal
    BY <1>1, <1>6, <1>8 DEF Precedes
  <1> QED BY <1>4, <1>9

LEMMA CheckIsUnderWay ==
  ASSUME [Next]_vars, NEW f \in FinalizerIds,
         NEW e \in checks, e.subject = head, e.ordinal >= f, UNCHANGED head
  PROVE  UnderWay(f)'
  <1>1. e \in checks'
    BY DEF Next, vars, MoveMain, PushHead, StartProducer, RerunProducer,
           CompleteProducer, FinalizerStep, StartFinalizer, ReadHead, ReadProducer,
           VerifyEvidence, UploadObservation, RerunFinalizer, LoseFinalizer,
           RerunPublisher, BeginPublication, PublisherStep, ReadAndDecide,
           CreateCheckRun, LosePublisher, AcceptCheck, Raise, BecomeFinalizer
  <1> QED BY <1>1 DEF UnderWay

LEMMA ProposedIsUnderWay ==
  ASSUME IInv, [Next]_vars, NEW f \in FinalizerIds,
         NEW p \in Publishers, publisher[p] # Idle,
         publisher[p].proposed.ordinal = f, publisher[p].proposed.subject = head,
         UNCHANGED <<losses, main, head>>
  PROVE  UnderWay(f)'
  <1>1. /\ TypeOK /\ losses \in Nat
        /\ publisher \in [Publishers -> Publication \cup {Idle}]
        /\ publisher[p] \in Publication /\ publisher[p].proposed \in Checks
    BY DEF IInv, TypeOK, Publication
  <1>2. PICK proposed \in Checks : proposed = publisher[p].proposed
    BY <1>1
  <1>3. ASSUME NEW e \in checks', e.subject = head, e.ordinal >= f PROVE UnderWay(f)'
    BY <1>3 DEF UnderWay
  <1>4. CASE publisher'[p] = publisher[p]
    BY <1>4 DEF UnderWay
  <1>5. CASE ReadAndDecide(p)
    <2> DEFINE current == listed[proposed.subject]
    <2>1. publisher' = [publisher EXCEPT ![p] =
              IF Publishes(DecideStatusPublication(proposed, current, main))
                THEN [publisher[p] EXCEPT !.phase = "posting"] ELSE Idle]
      BY <1>1, <1>2, <1>5 DEF ReadAndDecide
    <2>2. CASE Publishes(DecideStatusPublication(proposed, current, main))
      <3>1. publisher'[p] = [publisher[p] EXCEPT !.phase = "posting"]
        BY <1>1, <2>1, <2>2
      <3>2. publisher'[p].phase = "posting" /\ publisher'[p].proposed = publisher[p].proposed
        BY <1>1, <3>1 DEF Publication
      <3> QED BY <3>2 DEF UnderWay, Idle
    <2>3. CASE ~ Publishes(DecideStatusPublication(proposed, current, main))
      <3>1. PICK e \in checks : e.subject = proposed.subject /\ e.ordinal >= proposed.ordinal
        BY <2>3, RefusedIsBeaten
      <3> QED BY <1>2, <3>1, CheckIsUnderWay
    <2> QED BY <2>2, <2>3
  <1>6. CASE CreateCheckRun(p)
    <2>1. proposed \in checks'
      BY <1>2, <1>6 DEF CreateCheckRun, AcceptCheck
    <2>2. proposed.ordinal >= f
      BY <1>2, Sizes
    <2> QED BY <1>2, <1>3, <2>1, <2>2
  <1>7. ASSUME NEW q \in Publishers, LosePublisher(q) PROVE FALSE
    BY <1>1, <1>7 DEF LosePublisher
  <1>8. ASSUME NEW q \in Publishers, NEW o \in queue, BeginPublication(q, o)
        PROVE  publisher'[p] = publisher[p]
    <2>1. q # p
      BY <1>8 DEF BeginPublication
    <2> QED BY <1>1, <1>8, <2>1 DEF BeginPublication
  <1>9. ASSUME NEW q \in Publishers, PublisherStep(q), q # p
        PROVE  publisher'[p] = publisher[p]
    BY <1>1, <1>9 DEF PublisherStep, ReadAndDecide, CreateCheckRun
  <1>10. CASE UNCHANGED publisher
    BY <1>4, <1>10
  <1> QED
    BY <1>4, <1>5, <1>6, <1>7, <1>8, <1>9, <1>10
    DEF Next, vars, MoveMain, PushHead, StartProducer, RerunProducer, CompleteProducer,
        FinalizerStep, StartFinalizer, ReadHead, ReadProducer, VerifyEvidence,
        UploadObservation, RerunFinalizer, LoseFinalizer, RerunPublisher, PublisherStep,
        BecomeFinalizer, Raise

LEMMA DeliveredStep ==
  ASSUME IInv, Order, Faithful, Delivered, [Next]_vars PROVE Delivered'
  <1> SUFFICES ASSUME Undisturbed', NEW f \in FinalizerIds, Decides(f)'
               PROVE  UnderWay(f)'
    BY DEF Delivered
  <1>1. CASE ~ Born(f)
    BY <1>1, BirthBy DEF Decides, Covers, UnderWay, IInv, Order
  <1>2. CASE Born(f)
    <2>1. Undisturbed /\ Decides(f) /\ UNCHANGED <<losses, main, head>>
      BY <1>2, UndisturbedBefore
    <2>2. Unhindered(f) /\ UnderWay(f)
      BY <2>1, DeciderUnhindered DEF Delivered
    <2>3. CASE finalizers[f].phase \in {"queued", "running"}
      BY <2>1, <2>2, <2>3, RunningIsUnderWay
    <2>4. CASE /\ finalizers[f].phase = "done"
               /\ \E o \in queue : /\ o.finalizer = f /\ o.head = head
                                   /\ o.attempt = finalizers[f].attempt
      BY <2>1, <2>2, <2>4, ObservedIsUnderWay
    <2>5. CASE \E p \in Publishers : /\ publisher[p] # Idle
                                     /\ publisher[p].proposed.ordinal = f
                                     /\ publisher[p].proposed.subject = head
      BY <2>1, <2>5, ProposedIsUnderWay
    <2>6. CASE \E e \in checks : e.subject = head /\ e.ordinal >= f
      BY <2>1, <2>6, CheckIsUnderWay
    <2> QED BY <2>2, <2>3, <2>4, <2>5, <2>6 DEF UnderWay
  <1> QED BY <1>1, <1>2

-----------------------------------------------------------------------------
(* The settled check.                                                      *)

LEMMA InitSettles ==
  ASSUME Init PROVE Order /\ Faithful /\ DecisionExists /\ Delivered
  <1>1. /\ head = 1 /\ main = 1 /\ queue = {} /\ checks = {}
        /\ base = [h \in Heads |-> IF h = 1 THEN 1 ELSE 0]
    BY DEF Init
  <1>2. \A r \in RunIds : producers[r].state = "unborn" /\ producers[r].subject = 0
    BY DEF Init, UnbornProducer
  <1>3. \A f \in FinalizerIds : ~ Born(f)
    BY DEF Init, UnbornFinalizer, Born
  <1>4. \A p \in Publishers : publisher[p] = Idle
    BY DEF Init
  <1>5. Order
    <2>1. BasesKnown
      BY <1>1 DEF BasesKnown
    <2> QED
      BY <1>1, <1>2, <1>3, <1>4, <2>1
      DEF Order, ProducersKnown, FinalizersNumbered, FinalizersTriggered,
          CompletionsTrigger, RecordsKnown
  <1>6. Faithful
    BY <1>1, <1>3, <1>4 DEF Faithful, Covers
  <1>7. DecisionExists
    BY <1>2 DEF DecisionExists, Completed, Triggered
  <1>8. Delivered
    BY <1>3 DEF Delivered, Decides, Covers
  <1> QED BY <1>5, <1>6, <1>7, <1>8

LEMMA SettlementAgrees ==
  ASSUME SettlementInv PROVE AuthorityAgrees
  <1> SUFFICES ASSUME Settled
               PROVE  /\ ChecksOf(head) # {}
                      /\ \A e \in Latest(ChecksOf(head)) : e.conclusion = Conclusion(Verdict)
    BY DEF AuthorityAgrees, Certifies, Verdict
  <1>1. TypeOK /\ Order /\ Faithful
    BY DEF SettlementInv, IInv
  <1>2. PICK f \in FinalizerIds : Decides(f)
    BY DEF SettlementInv, DecisionExists, Settled, Completed
  <1>3. UnderWay(f)
    BY <1>2 DEF SettlementInv, Delivered, Undisturbed, Settled, Quiescent
  <1>4. PICK final \in checks : final.subject = head /\ final.ordinal >= f
    BY <1>2, <1>3 DEF UnderWay, Settled, Quiescent
  <1>5. ASSUME NEW e \in Latest(ChecksOf(head)) PROVE e.conclusion = Conclusion(Verdict)
    <2>1. e \in checks /\ e.subject = head /\ ~ Precedes(e, final)
      BY <1>4, <1>5 DEF ChecksOf, Latest
    <2>2. /\ final.ordinal \in Nat /\ e.ordinal \in Nat /\ f \in Nat
          /\ e.ordinal \in FinalizerIds /\ Born(e.ordinal)
      BY <1>1, <1>4, <2>1, RecordTypes, Sizes DEF Order, RecordsKnown, Known
    <2>3. e.ordinal >= f
      BY <1>4, <2>1, <2>2 DEF Precedes
    <2>4. Covers(e.ordinal)
      <3>1. \A g \in FinalizerIds : g <= f => g <= e.ordinal
        BY <2>2, <2>3, Sizes
      <3> QED BY <1>2, <2>2, <3>1 DEF Decides, Covers
    <2> QED BY <1>1, <2>1, <2>4 DEF Faithful, CheckFaithful
  <1> QED BY <1>4, <1>5 DEF ChecksOf

LEMMA InitSettlement == ASSUME Init PROVE SettlementInv
  BY InitEstablishes, InitSettles DEF SettlementInv

LEMMA SettlementStep ==
  ASSUME SettlementInv, [Next]_vars PROVE SettlementInv'
  <1> USE DEF SettlementInv
  <1>1. IInv'
    BY StepPreserves
  <1> QED
    BY <1>1, OrderStep, FaithfulStep, DecisionExistsStep, DeliveredStep

(***************************************************************************)
(* Once every trigger was handled and no producer of the head is running,  *)
(* the check of the highest authority says what the latest attempts of the *)
(* producers say: whatever was pushed, merged, run again or retried        *)
(* meanwhile, in whatever order finalizers and any number of publishers    *)
(* (ci_github_pr.py) finished, and whichever check the provider listed.    *)
(***************************************************************************)
THEOREM AuthorityAgreesHolds == Spec => []AuthorityAgrees
  <1>1. Init => SettlementInv
    BY InitSettlement
  <1>2. SettlementInv /\ [Next]_vars => SettlementInv'
    BY SettlementStep
  <1>3. SettlementInv => AuthorityAgrees
    BY SettlementAgrees
  <1> QED BY <1>1, <1>2, <1>3, PTL DEF Spec

-----------------------------------------------------------------------------
(* The check listed, with one publisher at a time.                         *)

Beats(e, h) == \A g \in ChecksOf(h) : ~ Precedes(e, g)

\* What is listed, and what the publisher is about to create, is beaten by nothing
\* created for the head.
ListedIsHighest ==
  /\ \A h \in Heads : Beats(listed[h], h) /\ (ChecksOf(h) # {} => listed[h] # NoStatus)
  /\ \A p \in Publishers : publisher[p].phase = "posting" =>
       Beats(publisher[p].proposed, publisher[p].proposed.subject)

\* What is published over the check listed beats whatever that one beats.
LEMMA PublishedBeats ==
  ASSUME IInv, ListedIsHighest, NEW proposed \in Checks,
         Publishes(DecideStatusPublication(proposed, listed[proposed.subject], main))
  PROVE  Beats(proposed, proposed.subject)
  <1> DEFINE current == listed[proposed.subject]
  <1> SUFFICES ASSUME NEW g \in ChecksOf(proposed.subject) PROVE ~ Precedes(proposed, g)
    BY DEF Beats
  <1>1. proposed.subject \in Heads /\ proposed.context = PullRequest
    BY DEF Checks, Observation
  <1>2. /\ current # NoStatus /\ current \in ChecksOf(proposed.subject)
        /\ ~ Precedes(current, g)
    BY <1>1 DEF ListedIsHighest, Beats, IInv, ListedPosted
  <1>3. current \in Checks /\ g \in Checks /\ current.subject = proposed.subject
    BY <1>2 DEF ChecksOf, IInv, TypeOK
  <1>4. \A e \in {proposed, current, g} : e.ordinal \in Nat /\ e.attempt \in Nat
    BY <1>3 DEF Checks, Observation
  <1>5. SameIdentity(proposed, current)
    BY <1>1, <1>3 DEF Checks, Observation, SameIdentity
  <1> HIDE DEF current
  <1>6. ~ Precedes(proposed, current)
    BY <1>2, <1>5 DEF DecideStatusPublication, Publishes, current
  <1> QED BY <1>2, <1>4, <1>6 DEF Precedes

\* A check is created only by the publisher whose proposal beats those created.
LEMMA CreatedIsHighest ==
  ASSUME IInv, ListedIsHighest, \A p, q \in Publishers : p = q, NEW p \in Publishers,
         publisher[p].phase = "posting", publisher[p] \in Publication,
         AcceptCheck(publisher[p].proposed), publisher' = [publisher EXCEPT ![p] = Idle]
  PROVE  ListedIsHighest'
  <1> DEFINE e == publisher[p].proposed
  <1>1. /\ e \in Checks /\ e.subject \in Heads /\ e.ordinal \in Nat /\ e.attempt \in Nat
        /\ e # NoStatus
    BY DEF Publication, Checks, Observation, NoStatus
  <1>2. checks' = checks \cup {e} /\ listed' = [listed EXCEPT ![e.subject] = e]
    BY DEF AcceptCheck
  <1>3. Beats(e, e.subject)
    BY DEF ListedIsHighest
  <1>4. ~ Precedes(e, e)
    BY <1>1 DEF Precedes
  <1>5. \A q \in Publishers : publisher'[q].phase # "posting"
    BY DEF IInv, TypeOK, Idle
  <1> HIDE DEF e
  <1>6. ASSUME NEW h \in Heads
        PROVE  Beats(listed[h], h)' /\ (ChecksOf(h) # {} => listed[h] # NoStatus)'
    <2>1. CASE h = e.subject
      <3>1. listed'[h] = e
        BY <1>1, <1>2, <2>1 DEF IInv, TypeOK
      <3>2. \A g \in ChecksOf(h)' : g \in ChecksOf(h) \/ g = e
        BY <1>2 DEF ChecksOf
      <3> QED BY <1>1, <1>3, <1>4, <2>1, <3>1, <3>2 DEF Beats
    <2>2. CASE h # e.subject
      <3>1. listed'[h] = listed[h]
        BY <1>2, <2>2 DEF IInv, TypeOK
      <3>2. ChecksOf(h)' = ChecksOf(h)
        BY <1>2, <2>2 DEF ChecksOf
      <3> QED BY <3>1, <3>2 DEF ListedIsHighest, Beats
    <2> QED BY <2>1, <2>2
  <1> QED BY <1>5, <1>6 DEF ListedIsHighest

LEMMA PostingMoves ==
  ASSUME IInv, [Next]_vars, NEW p \in Publishers, publisher'[p].phase = "posting"
  PROVE  \/ publisher[p].phase = "posting" /\ publisher'[p].proposed = publisher[p].proposed
         \/ ReadAndDecide(p)
  <1> DEFINE Goal == \/ /\ publisher[p].phase = "posting"
                        /\ publisher'[p].proposed = publisher[p].proposed
                     \/ ReadAndDecide(p)
  <1>1. publisher \in [Publishers -> Publication \cup {Idle}]
    BY DEF IInv, TypeOK
  <1>2. ASSUME publisher'[p] = publisher[p] PROVE Goal
    BY <1>2
  <1>3. ASSUME NEW q \in Publishers, NEW job, publisher' = [publisher EXCEPT ![q] = job],
               job.phase # "posting"
        PROVE  Goal
    <2>1. q # p
      BY <1>1, <1>3
    <2> QED BY <1>1, <1>2, <1>3, <2>1
  <1>4. ASSUME NEW q \in Publishers, NEW o \in queue, BeginPublication(q, o)
        PROVE  Goal
    <2> DEFINE job == [phase |-> "reading", proposed |-> Proposed(o)]
    <2>1. job.phase # "posting"
      OBVIOUS
    <2>2. publisher' = [publisher EXCEPT ![q] = job] \/ UNCHANGED publisher
      BY <1>4 DEF BeginPublication
    <2> HIDE DEF Goal, job
    <2> QED BY <1>2, <1>3, <2>1, <2>2
  <1>5. ASSUME NEW q \in Publishers, q # p, ReadAndDecide(q) PROVE Goal
    BY <1>1, <1>2, <1>5 DEF ReadAndDecide
  <1>6. ASSUME NEW q \in Publishers, CreateCheckRun(q) \/ LosePublisher(q) PROVE Goal
    <2>1. Idle.phase # "posting"
      BY DEF Idle
    <2> HIDE DEF Goal
    <2> QED BY <1>3, <1>6, <2>1 DEF CreateCheckRun, LosePublisher
  <1>7. ASSUME ReadAndDecide(p) PROVE Goal
    BY <1>7
  <1>8. ASSUME UNCHANGED publisher PROVE Goal
    BY <1>2, <1>8
  <1> HIDE DEF Goal
  <1>9. Goal
    BY <1>4, <1>5, <1>6, <1>7, <1>8
    DEF Next, vars, MoveMain, PushHead, StartProducer, RerunProducer, CompleteProducer,
        FinalizerStep, StartFinalizer, ReadHead, ReadProducer, VerifyEvidence,
        UploadObservation, RerunFinalizer, LoseFinalizer, RerunPublisher, PublisherStep,
        BecomeFinalizer, Raise
  <1> QED BY <1>9 DEF Goal

LEMMA ListedIsHighestStep ==
  ASSUME IInv, ListedIsHighest, \A p, q \in Publishers : p = q, [Next]_vars
  PROVE  ListedIsHighest'
  <1>1. CASE \E p \in Publishers : /\ publisher[p].phase = "posting"
                                  /\ publisher[p] \in Publication
                                  /\ AcceptCheck(publisher[p].proposed)
                                  /\ publisher' = [publisher EXCEPT ![p] = Idle]
    BY <1>1, CreatedIsHighest
  <1>2. CASE UNCHANGED <<checks, listed>>
    <2>1. ASSUME NEW p \in Publishers, publisher'[p].phase = "posting"
          PROVE  Beats(publisher'[p].proposed, publisher'[p].proposed.subject)
      <3>1. CASE publisher[p].phase = "posting" /\ publisher'[p].proposed = publisher[p].proposed
        BY <3>1 DEF ListedIsHighest
      <3>2. CASE ReadAndDecide(p)
        <4>1. publisher[p] \in Publication
          BY <3>2 DEF ReadAndDecide, IInv, TypeOK, Idle
        <4>2. /\ publisher[p].proposed \in Checks
              /\ Publishes(DecideStatusPublication(publisher[p].proposed,
                             listed[publisher[p].proposed.subject], main))
              /\ publisher'[p].proposed = publisher[p].proposed
          BY <2>1, <3>2, <4>1 DEF ReadAndDecide, IInv, TypeOK, Idle, Publication
        <4> QED BY <4>2, PublishedBeats
      <3> QED BY <2>1, <3>1, <3>2, PostingMoves
    <2> QED BY <1>2, <2>1 DEF ListedIsHighest, Beats, ChecksOf
  <1> QED BY <1>1, <1>2, CheckCreated

(***************************************************************************)
(* With one publisher at a time, the check the provider lists, which       *)
(* publish_pr reads back and branch protection requires, says once all is  *)
(* settled what the latest attempts say.  Two publishers may overtake one  *)
(* another and leave an older check listed.                                *)
(***************************************************************************)
THEOREM SettledCheckAgreesHolds ==
  ASSUME \A p, q \in Publishers : p = q
  PROVE  Spec => []SettledCheckAgrees
  <1> DEFINE Inv == SettlementInv /\ ListedIsHighest
  <1>1. Init => Inv
    <2> SUFFICES ASSUME Init PROVE ListedIsHighest
      BY InitSettlement
    <2> QED BY DEF Init, ListedIsHighest, Beats, ChecksOf, Idle
  <1>2. Inv /\ [Next]_vars => Inv'
    BY SettlementStep, ListedIsHighestStep DEF SettlementInv
  <1>3. Inv => SettledCheckAgrees
    <2> SUFFICES ASSUME Inv, Settled
                 PROVE  listed[head].conclusion = Conclusion(Aggregate(LatestStates))
      BY DEF SettledCheckAgrees
    <2>1. Certifies(head, Aggregate(LatestStates)) /\ head \in Heads
      BY SettlementAgrees DEF AuthorityAgrees, SettlementInv, IInv, TypeOK
    <2>2. listed[head] \in ChecksOf(head) /\ Beats(listed[head], head)
      BY <2>1 DEF Certifies, ListedIsHighest, SettlementInv, IInv, ListedPosted
    <2> QED BY <2>1, <2>2 DEF Certifies, Latest, Beats
  <1> QED BY <1>1, <1>2, <1>3, PTL DEF Spec

-----------------------------------------------------------------------------
(* One authority, one verdict.                                             *)

\* What was said in the attempt a finalizer is in, it said when it was done.
Uttered(said, f, attempt, observed) ==
  /\ attempt <= finalizers[f].attempt
  /\ attempt = finalizers[f].attempt => finalizers[f].phase = "done" /\ said = observed

Uttering ==
  /\ \A o \in queue : Uttered(o, o.finalizer, o.attempt,
                              ObservationOf(o.finalizer, finalizers[o.finalizer]))
  /\ \A e \in Said : Uttered(e, e.ordinal, e.attempt,
                             Proposed(ObservationOf(e.ordinal, finalizers[e.ordinal])))

UtteranceInv == IInv /\ Order /\ Uttering /\ AuthorityNamesOneVerdict

\* The attempts of a finalizer go by, and what one that is done has observed stays.
AttemptGoesBy(f) ==
  \/ finalizers'[f].attempt > finalizers[f].attempt
  \/ /\ finalizers'[f].attempt = finalizers[f].attempt
     /\ finalizers[f].phase = "done" => finalizers'[f] = finalizers[f]

LEMMA AttemptsGoBy ==
  ASSUME IInv, [Next]_vars, NEW f \in FinalizerIds, Born(f)
  PROVE  AttemptGoesBy(f) /\ finalizers[f].attempt \in Nat /\ finalizers'[f].attempt \in Nat
  <1> DEFINE old == finalizers[f]
  <1>1. TypeOK /\ old \in Finalizer /\ old.attempt \in Nat
    BY BornTypes DEF IInv, TypeOK
  <1>2. \A run : BecomeFinalizer(f, run) => finalizers'[f] = run
    BY <1>1 DEF BecomeFinalizer, TypeOK
  <1>3. finalizers'[f].attempt \in Nat
    <2>1. finalizers'[f] \in Finalizer
      BY StepPreserves DEF IInv, TypeOK
    <2> QED BY <2>1 DEF Finalizer
  <1>4. CASE finalizers'[f] = finalizers[f]
    BY <1>1, <1>4 DEF AttemptGoesBy
  <1>5. CASE RerunFinalizer(f)
    <2> DEFINE run == [Forgotten(old) EXCEPT !.phase = "queued", !.attempt = old.attempt + 1]
    <2>1. finalizers'[f] = run
      BY <1>2, <1>5 DEF RerunFinalizer
    <2>2. run.attempt = old.attempt + 1
      BY <1>1, ForgottenFields DEF Finalizer
    <2> HIDE DEF run
    <2> QED BY <1>1, <1>3, <2>1, <2>2 DEF AttemptGoesBy
  <1>6. ASSUME old.phase # "done", NEW run, BecomeFinalizer(f, run),
               run.attempt = old.attempt
        PROVE  AttemptGoesBy(f)
    BY <1>2, <1>6 DEF AttemptGoesBy
  <1>7. ASSUME FinalizerStep(f) \/ LoseFinalizer(f) PROVE AttemptGoesBy(f)
    <2>1. old.phase # "done"
      BY <1>7 DEF FinalizerStep, StartFinalizer, ReadHead, ReadProducer, VerifyEvidence,
                  UploadObservation, LoseFinalizer, Running
    <2>2. CASE Raise(f)
      <3> DEFINE run == [Forgotten(old) EXCEPT !.phase = "failed"]
      <3>1. run.attempt = old.attempt
        BY <1>1, ForgottenFields DEF Finalizer
      <3>2. BecomeFinalizer(f, run)
        BY <2>2 DEF Raise
      <3> HIDE DEF run, old
      <3> QED BY <1>6, <2>1, <3>1, <3>2
    <2>3. CASE BecomeFinalizer(f, [old EXCEPT !.phase = "running"])
      BY <1>1, <1>6, <2>1, <2>3 DEF Finalizer
    <2>4. CASE BecomeFinalizer(f, [old EXCEPT !.phase = "done"])
      BY <1>1, <1>6, <2>1, <2>4 DEF Finalizer
    <2>5. CASE BecomeFinalizer(f, [old EXCEPT !.cursor = old.cursor + 1])
      BY <1>1, <1>6, <2>1, <2>5 DEF Finalizer
    <2>6. CASE BecomeFinalizer(f, [old EXCEPT !.head = head, !.cursor = 1])
      BY <1>1, <1>6, <2>1, <2>6 DEF Finalizer
    <2>7. CASE ReadProducer(f)
      <3> DEFINE run == [old EXCEPT !.selected = [old.selected EXCEPT ![old.cursor]
                                        = ProducerState(old.cursor, old.head)],
                                    !.cursor = old.cursor + 1]
      <3>1. run.attempt = old.attempt
        BY <1>1 DEF Finalizer
      <3>2. BecomeFinalizer(f, run)
        BY <2>7 DEF ReadProducer
      <3> HIDE DEF run, old
      <3> QED BY <1>6, <2>1, <3>1, <3>2
    <2> QED
      BY <1>7, <2>2, <2>3, <2>4, <2>5, <2>6, <2>7
      DEF FinalizerStep, StartFinalizer, ReadHead, VerifyEvidence, UploadObservation,
          LoseFinalizer
  <1> QED BY <1>1, <1>3, <1>4, <1>5, <1>7, FinalizerActs

\* What was observed before a step is so after it, and so is what was said.
LEMMA ObservedKeeps ==
  ASSUME IInv, [Next]_vars, NEW f \in FinalizerIds, Born(f), NEW o, NEW a \in Nat,
         Uttered(o, f, a, ObservationOf(f, finalizers[f]))
  PROVE  Uttered(o, f, a, ObservationOf(f, finalizers[f]))'
  <1>1. AttemptGoesBy(f) /\ finalizers[f].attempt \in Nat /\ finalizers'[f].attempt \in Nat
    BY AttemptsGoBy
  <1>2. a <= finalizers[f].attempt
    BY DEF Uttered
  <1>3. CASE finalizers'[f].attempt > finalizers[f].attempt
    <2>1. a <= finalizers'[f].attempt /\ a # finalizers'[f].attempt
      BY <1>1, <1>2, <1>3
    <2> QED BY <2>1 DEF Uttered
  <1>4. CASE /\ finalizers'[f].attempt = finalizers[f].attempt
             /\ finalizers[f].phase = "done" => finalizers'[f] = finalizers[f]
    BY <1>4 DEF Uttered, ObservationOf
  <1> QED BY <1>1, <1>3, <1>4 DEF AttemptGoesBy

LEMMA SaidKeeps ==
  ASSUME IInv, [Next]_vars, NEW f \in FinalizerIds, Born(f), NEW e, NEW a \in Nat,
         Uttered(e, f, a, Proposed(ObservationOf(f, finalizers[f])))
  PROVE  Uttered(e, f, a, Proposed(ObservationOf(f, finalizers[f])))'
  <1>1. AttemptGoesBy(f) /\ finalizers[f].attempt \in Nat /\ finalizers'[f].attempt \in Nat
    BY AttemptsGoBy
  <1>2. a <= finalizers[f].attempt
    BY DEF Uttered
  <1>3. CASE finalizers'[f].attempt > finalizers[f].attempt
    <2>1. a <= finalizers'[f].attempt /\ a # finalizers'[f].attempt
      BY <1>1, <1>2, <1>3
    <2> QED BY <2>1 DEF Uttered
  <1>4. CASE /\ finalizers'[f].attempt = finalizers[f].attempt
             /\ finalizers[f].phase = "done" => finalizers'[f] = finalizers[f]
    BY <1>4 DEF Uttered, ObservationOf, Proposed
  <1> QED BY <1>1, <1>3, <1>4 DEF AttemptGoesBy

\* An observation that is new was uploaded, now or in the attempt that is done.
LEMMA ObservationIsUttered ==
  ASSUME IInv, [Next]_vars, NEW o \in queue', o \notin queue
  PROVE  \E f \in FinalizerIds :
           /\ o.finalizer = f /\ o.attempt = finalizers'[f].attempt
           /\ o.attempt \in Nat
           /\ finalizers'[f].phase = "done" /\ o = ObservationOf(f, finalizers'[f])
  <1> DEFINE Goal == \E f \in FinalizerIds :
                       /\ o.finalizer = f /\ o.attempt = finalizers'[f].attempt
                       /\ o.attempt \in Nat
                       /\ finalizers'[f].phase = "done"
                       /\ o = ObservationOf(f, finalizers'[f])
  <1>1. TypeOK
    BY DEF IInv
  <1>2. ASSUME NEW f \in FinalizerIds, UploadObservation(f) PROVE Goal
    <2> DEFINE old == finalizers[f]
               run == [old EXCEPT !.phase = "done"]
    <2>1. old \in Finalizer /\ finalizers'[f] = run /\ o = ObservationOf(f, old)
      BY <1>1, <1>2 DEF UploadObservation, BecomeFinalizer, TypeOK
    <2>2. /\ run.phase = "done" /\ run.attempt = old.attempt /\ run.head = old.head
          /\ run.selected = old.selected /\ old.attempt \in Nat
      BY <2>1 DEF Finalizer
    <2> HIDE DEF run, old
    <2>3. o = ObservationOf(f, run) /\ o.finalizer = f /\ o.attempt = old.attempt
      BY <2>1, <2>2 DEF ObservationOf
    <2> QED BY <2>1, <2>2, <2>3
  <1>3. ASSUME NEW f \in FinalizerIds, RerunPublisher(f) PROVE Goal
    <2>1. /\ finalizers' = finalizers /\ finalizers[f].phase = "done"
          /\ o = ObservationOf(f, finalizers[f]) /\ finalizers[f].attempt \in Nat
      BY <1>1, <1>3 DEF RerunPublisher, TypeOK, Finalizer
    <2>2. o.finalizer = f /\ o.attempt = finalizers[f].attempt
      BY <2>1 DEF ObservationOf
    <2> QED BY <2>1, <2>2
  <1> HIDE DEF Goal
  <1>4. Goal
    BY <1>2, <1>3
    DEF Next, vars, bounds, MoveMain, PushHead, StartProducer, RerunProducer,
        CompleteProducer, FinalizerStep, StartFinalizer, ReadHead, ReadProducer,
        VerifyEvidence, RerunFinalizer, LoseFinalizer, BeginPublication, PublisherStep,
        ReadAndDecide, CreateCheckRun, LosePublisher
  <1> QED BY <1>4 DEF Goal

LEMMA SaidKnown ==
  ASSUME TypeOK, Order, NEW e \in Said
  PROVE  e.ordinal \in FinalizerIds /\ Born(e.ordinal) /\ e.attempt \in Nat
  <1>1. e \in Checks
    BY RecordTypes DEF Said, TypeOK
  <1>2. Known(e.subject, e.ordinal)
    BY DEF Said, Order, RecordsKnown
  <1> QED BY <1>1, <1>2 DEF Known, Checks, Observation

\* What is said was said before, or is what the finalizer in its present attempt
\* observed.
LEMMA SaidIsUttered ==
  ASSUME IInv, Order, Uttering, [Next]_vars, NEW e \in Said'
  PROVE  /\ e.ordinal \in FinalizerIds /\ Born(e.ordinal) /\ e.attempt \in Nat
         /\ Uttered(e, e.ordinal, e.attempt,
                    Proposed(ObservationOf(e.ordinal, finalizers[e.ordinal])))
         /\ e \in Said \/ e.attempt = finalizers[e.ordinal].attempt
  <1>1. TypeOK
    BY DEF IInv
  <1>2. CASE e \in Said
    BY <1>1, <1>2, SaidKnown DEF Uttering
  <1>3. ASSUME NEW o \in queue, Exact(o), e = Proposed(o)
        PROVE  /\ e.ordinal \in FinalizerIds /\ Born(e.ordinal) /\ e.attempt \in Nat
               /\ Uttered(e, e.ordinal, e.attempt,
                          Proposed(ObservationOf(e.ordinal, finalizers[e.ordinal])))
               /\ e.attempt = finalizers[e.ordinal].attempt
    <2>1. PICK f : f = o.finalizer
      OBVIOUS
    <2>2. e.ordinal = f /\ e.attempt = o.attempt
      BY <1>3, <2>1 DEF Proposed
    <2>3. o.attempt \in Nat
      BY <1>1 DEF TypeOK, PRObservation
    <2>4. f \in FinalizerIds /\ Born(f)
      BY <2>1 DEF Order, RecordsKnown, Known
    <2>5. finalizers[f].attempt = o.attempt
      BY <1>3, <2>1 DEF Exact
    <2>6. /\ o.attempt <= finalizers[f].attempt
          /\ finalizers[f].phase = "done" /\ o = ObservationOf(f, finalizers[f])
      BY <2>1, <2>5 DEF Uttering, Uttered
    <2>7. Uttered(e, f, o.attempt, Proposed(ObservationOf(f, finalizers[f])))
      BY <1>3, <2>6 DEF Uttered
    <2> QED BY <2>2, <2>3, <2>4, <2>5, <2>7
  <1>4. e \in Said \/ \E o \in queue : Exact(o) /\ e = Proposed(o)
    <2>1. CASE e \in checks'
      BY <2>1, CheckMoves DEF Said
    <2>2. CASE \E p \in Publishers : publisher'[p] # Idle /\ e = publisher'[p].proposed
      <3>1. PICK p \in Publishers : publisher'[p] # Idle /\ e = publisher'[p].proposed
        BY <2>2
      <3>2. CASE \E o \in queue : Exact(o) /\ publisher'[p].proposed = Proposed(o)
        BY <3>1, <3>2
      <3>3. CASE publisher[p] # Idle /\ publisher'[p].proposed = publisher[p].proposed
        BY <3>1, <3>3 DEF Said
      <3> QED BY <3>1, <3>2, <3>3, ProposalMoves
    <2> QED BY <2>1, <2>2 DEF Said
  <1> QED BY <1>2, <1>3, <1>4

LEMMA UtteringStep ==
  ASSUME IInv, Order, Uttering, [Next]_vars PROVE Uttering'
  <1>1. TypeOK
    BY DEF IInv
  <1>2. ASSUME NEW o \in queue'
        PROVE  Uttered(o, o.finalizer, o.attempt,
                       ObservationOf(o.finalizer, finalizers[o.finalizer]))'
    <2>1. PICK f, a : f = o.finalizer /\ a = o.attempt
      OBVIOUS
    <2>2. CASE o \in queue
      <3>1. f \in FinalizerIds /\ Born(f)
        BY <2>1, <2>2 DEF Order, RecordsKnown, Known
      <3>2. a \in Nat
        BY <1>1, <2>1, <2>2 DEF TypeOK, PRObservation
      <3>3. Uttered(o, f, a, ObservationOf(f, finalizers[f]))
        BY <2>1, <2>2 DEF Uttering
      <3>4. Uttered(o, f, a, ObservationOf(f, finalizers[f]))'
        BY <3>1, <3>2, <3>3, ObservedKeeps
      <3> QED BY <2>1, <3>4
    <2>3. CASE o \notin queue
      <3>1. /\ a = finalizers'[f].attempt /\ a \in Nat
            /\ finalizers'[f].phase = "done" /\ o = ObservationOf(f, finalizers'[f])
        BY <2>1, <2>3, ObservationIsUttered
      <3>2. a <= finalizers'[f].attempt
        BY <3>1
      <3> QED BY <2>1, <3>1, <3>2 DEF Uttered, ObservationOf
    <2> QED BY <2>2, <2>3
  <1>3. ASSUME NEW e \in Said'
        PROVE  Uttered(e, e.ordinal, e.attempt,
                       Proposed(ObservationOf(e.ordinal, finalizers[e.ordinal])))'
    <2>1. PICK f, a : f = e.ordinal /\ a = e.attempt
      OBVIOUS
    <2>2. /\ f \in FinalizerIds /\ Born(f) /\ a \in Nat
          /\ Uttered(e, f, a, Proposed(ObservationOf(f, finalizers[f])))
      BY <2>1, SaidIsUttered
    <2>3. Uttered(e, f, a, Proposed(ObservationOf(f, finalizers[f])))'
      BY <2>2, SaidKeeps
    <2> QED BY <2>1, <2>3
  <1> QED BY <1>2, <1>3 DEF Uttering

LEMMA OneVerdictStep ==
  ASSUME IInv, Order, Uttering, AuthorityNamesOneVerdict, [Next]_vars
  PROVE  AuthorityNamesOneVerdict'
  <1> SUFFICES ASSUME NEW e \in Said', NEW g \in Said', SameOrder(e, g) PROVE e = g
    BY DEF AuthorityNamesOneVerdict, SameOrder
  <1>1. e.ordinal = g.ordinal /\ e.attempt = g.attempt
    BY DEF SameOrder
  <1>2. PICK f : f = e.ordinal /\ f = g.ordinal
    BY <1>1
  <1>3. CASE e \in Said /\ g \in Said
    BY <1>3 DEF AuthorityNamesOneVerdict
  <1>4. CASE e.attempt = finalizers[f].attempt
    <2>1. e = Proposed(ObservationOf(f, finalizers[f]))
      BY <1>2, <1>4, SaidIsUttered DEF Uttered
    <2>2. g = Proposed(ObservationOf(f, finalizers[f]))
      BY <1>1, <1>2, <1>4, SaidIsUttered DEF Uttered
    <2> QED BY <2>1, <2>2
  <1> QED BY <1>1, <1>2, <1>3, <1>4, SaidIsUttered

(***************************************************************************)
(* A finalizer run and its attempt name one head and one verdict, however  *)
(* often runners are lost, the finalizer or its publisher is run again: in *)
(* publish_pr (ci_github_pr.py) decide_status_publication finds no         *)
(* conflict of equal authorities.                                          *)
(***************************************************************************)
THEOREM AuthorityNamesOneVerdictHolds == Spec => []AuthorityNamesOneVerdict
  <1>1. Init => UtteranceInv
    <2> SUFFICES ASSUME Init PROVE UtteranceInv
      OBVIOUS
    <2>1. Said = {} /\ queue = {}
      BY DEF Init, Said
    <2> QED
      BY <2>1, InitEstablishes, InitSettles
      DEF UtteranceInv, Uttering, AuthorityNamesOneVerdict
  <1>2. UtteranceInv /\ [Next]_vars => UtteranceInv'
    BY StepPreserves, OrderStep, UtteringStep, OneVerdictStep DEF UtteranceInv
  <1>3. UtteranceInv => AuthorityNamesOneVerdict
    BY DEF UtteranceInv
  <1> QED BY <1>1, <1>2, <1>3, PTL DEF Spec

=============================================================================

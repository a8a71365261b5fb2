-------------------------- MODULE PRCertification --------------------------
(***************************************************************************)
(* Certification of one pull request: pushes of heads, moves of main,      *)
(* producer runs and their re-run attempts, the finalizer each completed   *)
(* attempt triggers, and the publishers of its observation.                *)
(*                                                                         *)
(* A finalizer reads the provider call by call while everything else goes  *)
(* on; its authority is the number of its run and not the moment at which  *)
(* it read.  The provider numbers finalizer runs as their triggers come.   *)
(***************************************************************************)
EXTENDS StatusAuthority

CONSTANTS MaxHeads,       \* heads pushed to the pull request
          MaxMain,        \* default-main commits
          WorkflowCount,  \* producer workflows of the protection contract
          MaxRuns,        \* producer runs, numbered by the provider
          MaxAttempts,    \* attempts of a producer run
          Publishers,     \* runners able to publish at once
          MaxLosses,      \* dead runners and lost answers
          MaxRetries      \* finalizers and publishers re-run by hand

ASSUME PRCertificationAssumption ==
  /\ MaxHeads \in Nat \ {0} /\ MaxMain \in Nat \ {0}
  /\ WorkflowCount \in Nat \ {0}
  /\ MaxRuns \in Nat /\ MaxAttempts \in Nat \ {0}
  /\ MaxLosses \in Nat /\ MaxRetries \in Nat

VARIABLES main,        \* the commit the default branch points to
          head,        \* the current head of the pull request
          base,        \* the main commit each pushed head is based on
          producers,   \* the provider's view of every producer run
          finalizers,  \* the provider's view of every finalizer run
          queue,       \* observations whose publisher has not started
          publisher,   \* what each runner is publishing
          checks,      \* every PR check the provider accepted
          listed,      \* the check the provider lists for each head
          losses, retries

provider == <<main, head, base, producers>>
bounds == <<losses, retries>>
vars == <<provider, finalizers, queue, publisher, checks, listed, bounds>>

Heads == 1 .. MaxHeads
Mains == 1 .. MaxMain
Workflows == 1 .. WorkflowCount
RunIds == 1 .. MaxRuns
Attempts == 1 .. MaxAttempts
FinalizerIds == 1 .. (MaxRuns * MaxAttempts)

\* "rejected": the run is successful but the protected evaluator derives
\* another truth from its evidence.
Results == {"success", "rejected", "failure"}
States == {"pending", "failed", "successful"}

Producer == [workflow : Workflows \cup {0}, subject : Heads \cup {0},
             attempt : 0 .. MaxAttempts,
             state : {"unborn", "running", "completed"},
             results : [Attempts -> Results \cup {"none"}]]

UnbornProducer == [workflow |-> 0, subject |-> 0, attempt |-> 0,
                   state |-> "unborn", results |-> [a \in Attempts |-> "none"]]

\* What _producer_state returns for one workflow.
Selection == [state : States \cup {"unread"}, run : RunIds \cup {0},
              attempt : 0 .. MaxAttempts]

Unread == [state |-> "unread", run |-> 0, attempt |-> 0]

\* `cursor` counts the calls a running finalizer has made: the head, then each
\* producer, then the evidence of each.
Finalizer == [phase : {"unborn", "queued", "running", "done", "failed"},
              main : Mains \cup {0}, run : RunIds \cup {0},
              trigger : 0 .. MaxAttempts, attempt : Nat,
              cursor : 0 .. (2 * WorkflowCount + 1), head : Heads \cup {0},
              selected : [Workflows -> Selection]]

NothingSelected == [w \in Workflows |-> Unread]

UnbornFinalizer == [phase |-> "unborn", main |-> 0, run |-> 0, trigger |-> 0,
                    attempt |-> 0, cursor |-> 0, head |-> 0,
                    selected |-> NothingSelected]

PRObservation == [finalizer : FinalizerIds, attempt : Nat \ {0}, head : Heads,
                  state : States]

Checks == Observation({PullRequest}, Heads)

Idle == [phase |-> "idle", proposed |-> NoStatus]
Publication == [phase : {"reading", "posting"}, proposed : Checks]

Init ==
  /\ main = 1 /\ head = 1
  /\ base = [h \in Heads |-> IF h = 1 THEN 1 ELSE 0]
  /\ producers = [r \in RunIds |-> UnbornProducer]
  /\ finalizers = [f \in FinalizerIds |-> UnbornFinalizer]
  /\ queue = {}
  /\ publisher = [p \in Publishers |-> Idle]
  /\ checks = {}
  /\ listed = [h \in Heads |-> NoStatus]
  /\ losses = 0 /\ retries = 0

-----------------------------------------------------------------------------
(* The provider: pushes, merges, producer runs.                            *)

MoveMain ==
  /\ main < MaxMain
  /\ main' = main + 1
  /\ UNCHANGED <<head, base, producers, finalizers, queue, publisher, checks, listed, bounds>>

PushHead ==
  /\ head < MaxHeads
  /\ head' = head + 1
  /\ base' = [base EXCEPT ![head + 1] = main]
  /\ UNCHANGED <<main, producers, finalizers, queue, publisher, checks, listed, bounds>>

\* The run of a push may be created after the next push, and again when the
\* pull request is reopened.
StartProducer(r, w, h) ==
  /\ producers[r].state = "unborn"
  /\ r > 1 => producers[r - 1].state # "unborn"
  /\ h <= head
  /\ producers' = [producers EXCEPT ![r] =
       [UnbornProducer EXCEPT !.workflow = w, !.subject = h, !.attempt = 1,
                              !.state = "running"]]
  /\ UNCHANGED <<main, head, base, finalizers, queue, publisher, checks, listed, bounds>>

RerunProducer(r) ==
  /\ producers[r].state = "completed"
  /\ producers[r].attempt < MaxAttempts
  /\ producers' = [producers EXCEPT ![r] =
       [@ EXCEPT !.attempt = producers[r].attempt + 1, !.state = "running"]]
  /\ UNCHANGED <<main, head, base, finalizers, queue, publisher, checks, listed, bounds>>

\* The completion of an attempt triggers a finalizer run bound to main.
CompleteProducer(r, result, f) ==
  LET run == producers[r]
  IN  /\ run.state = "running"
      /\ finalizers[f].phase = "unborn"
      /\ f > 1 => finalizers[f - 1].phase # "unborn"
      /\ producers' = [producers EXCEPT ![r] =
           [run EXCEPT !.state = "completed",
                       !.results = [run.results EXCEPT ![run.attempt] = result]]]
      /\ finalizers' = [finalizers EXCEPT ![f] =
           [UnbornFinalizer EXCEPT !.phase = "queued", !.main = main, !.run = r,
                                   !.trigger = run.attempt, !.attempt = 1]]
      /\ UNCHANGED <<main, head, base, queue, publisher, checks, listed, bounds>>

-----------------------------------------------------------------------------
(* finalize_pr                                                             *)

BecomeFinalizer(f, run) ==
  /\ finalizers' = [finalizers EXCEPT ![f] = run]
  /\ UNCHANGED <<provider, publisher, checks, listed>>

Forgotten(run) ==
  [run EXCEPT !.cursor = 0, !.head = 0, !.selected = NothingSelected]

Raise(f) ==
  BecomeFinalizer(f, [Forgotten(finalizers[f]) EXCEPT !.phase = "failed"])

Running(f, from, to) ==
  finalizers[f].phase = "running" /\ finalizers[f].cursor \in from .. to

\* Main, which the finalizer run must be bound to, and the triggering attempt,
\* which must be the current one.
StartFinalizer(f) ==
  LET run == finalizers[f]
  IN  /\ run.phase = "queued"
      /\ IF run.main = main /\ producers[run.run].attempt = run.trigger
           THEN BecomeFinalizer(f, [run EXCEPT !.phase = "running"])
           ELSE Raise(f)
      /\ UNCHANGED <<queue, bounds>>

\* _current_pr and _evaluator_identity: the head must be based on the main read.
ReadHead(f) ==
  LET run == finalizers[f]
  IN  /\ Running(f, 0, 0)
      /\ IF base[head] = run.main
           THEN BecomeFinalizer(f, [run EXCEPT !.head = head, !.cursor = 1])
           ELSE Raise(f)
      /\ UNCHANGED <<queue, bounds>>

RunsOf(w, h) ==
  {r \in RunIds : producers[r].workflow = w /\ producers[r].subject = h}

\* _producer_state, which trusts the latest run of the head at its current
\* attempt and no other.
ProducerState(w, h) ==
  IF RunsOf(w, h) = {} THEN [Unread EXCEPT !.state = "pending"]
  ELSE LET r == CHOOSE r \in RunsOf(w, h) : \A q \in RunsOf(w, h) : q <= r
           attempt == producers[r].attempt
       IN  [run |-> r, attempt |-> attempt,
            state |-> IF producers[r].state # "completed" THEN "pending"
                      ELSE IF producers[r].results[attempt] = "failure" THEN "failed"
                      ELSE "successful"]

ReadProducer(f) ==
  LET run == finalizers[f]
      w == run.cursor
  IN  /\ Running(f, 1, WorkflowCount)
      /\ BecomeFinalizer(f, [run EXCEPT
           !.selected = [run.selected EXCEPT ![w] = ProducerState(w, run.head)],
           !.cursor = w + 1])
      /\ UNCHANGED <<queue, bounds>>

\* Mutant: what the evaluator derives is not compared with what was selected.
EvidenceTaken(run, s) == {"accepted"}

\* _independent_truth judges the evidence against the candidate checked out, which
\* is the head of the trigger.  It reads the run again and takes the evidence of
\* the attempt it finds then, which may be newer, incomplete or failed.
EvidenceOutcomes(run, s) ==
  LET found == producers[s.run]
  IN  IF s.state # "successful" THEN {"accepted"}
      ELSE IF producers[run.run].subject # run.head THEN {"refused"}
      ELSE CASE found.results[found.attempt] = "success" -> {"accepted"}
             [] found.results[found.attempt] = "rejected" -> {"refused"}
             [] OTHER -> {"accepted", "refused"}

VerifyEvidence(f) ==
  LET run == finalizers[f]
  IN  /\ Running(f, WorkflowCount + 1, 2 * WorkflowCount)
      /\ \E outcome \in EvidenceOutcomes(run, run.selected[run.cursor - WorkflowCount]) :
           IF outcome = "accepted"
             THEN BecomeFinalizer(f, [run EXCEPT !.cursor = run.cursor + 1])
             ELSE Raise(f)
      /\ UNCHANGED <<queue, bounds>>

\* Mutant: work in progress does not hold back a success.
AggregateOptimistic(states) ==
  IF "failed" \in states THEN "failed"
  ELSE IF "successful" \in states THEN "successful" ELSE "pending"

Aggregate(states) ==
  IF "failed" \in states THEN "failed"
  ELSE IF "pending" \in states THEN "pending" ELSE "successful"

ObservationOf(f, run) ==
  [finalizer |-> f, attempt |-> run.attempt, head |-> run.head,
   state |-> Aggregate({run.selected[w].state : w \in Workflows})]

\* The observation is uploaded; its completion triggers the publisher.
UploadObservation(f) ==
  LET run == finalizers[f]
  IN  /\ Running(f, 2 * WorkflowCount + 1, 2 * WorkflowCount + 1)
      /\ BecomeFinalizer(f, [run EXCEPT !.phase = "done"])
      /\ queue' = queue \cup {ObservationOf(f, run)}
      /\ UNCHANGED bounds

RerunFinalizer(f) ==
  LET run == finalizers[f]
  IN  /\ retries < MaxRetries
      /\ run.phase \in {"done", "failed"}
      /\ BecomeFinalizer(f, [Forgotten(run) EXCEPT !.phase = "queued",
                               !.attempt = run.attempt + 1])
      /\ retries' = retries + 1
      /\ UNCHANGED <<queue, losses>>

LoseFinalizer(f) ==
  /\ losses < MaxLosses
  /\ finalizers[f].phase \in {"queued", "running"}
  /\ Raise(f)
  /\ losses' = losses + 1
  /\ UNCHANGED <<queue, retries>>

-----------------------------------------------------------------------------
(* publish_pr                                                              *)

\* Mutant: the computed state is published as it is.
ConclusionVerbatim(state) == state

Conclusion(state) ==
  CASE state = "pending" -> "pending"
    [] state = "failed" -> "failure"
    [] state = "successful" -> "success"

\* Mutant: the authority is the number of the producer run, not the finalizer's.
ProposedByProducer(o) ==
  [context |-> PullRequest, subject |-> o.head, ordinal |-> finalizers[o.finalizer].run,
   attempt |-> o.attempt, conclusion |-> Conclusion(o.state)]

\* Mutant: a re-run finalizer speaks with the authority of its first attempt.
ProposedByFirstAttempt(o) ==
  [context |-> PullRequest, subject |-> o.head, ordinal |-> o.finalizer,
   attempt |-> 1, conclusion |-> Conclusion(o.state)]

Proposed(o) ==
  [context |-> PullRequest, subject |-> o.head, ordinal |-> o.finalizer,
   attempt |-> o.attempt, conclusion |-> Conclusion(o.state)]

\* The observation is still of the current main, attempt and head.
Exact(o) ==
  /\ finalizers[o.finalizer].main = main
  /\ finalizers[o.finalizer].attempt = o.attempt
  /\ o.head = head /\ base[head] = main

BeginPublication(p, o) ==
  /\ publisher[p] = Idle
  /\ queue' = queue \ {o}
  /\ IF Exact(o)
       THEN publisher' = [publisher EXCEPT ![p] =
              [phase |-> "reading", proposed |-> Proposed(o)]]
       ELSE UNCHANGED publisher
  /\ UNCHANGED <<provider, finalizers, checks, listed, bounds>>

\* The check the publisher reads back.  The inventory is requested without
\* filter=all, and the provider then lists the check created last and no other.
ReadAndDecide(p) ==
  LET proposed == publisher[p].proposed
      reason == DecideStatusPublication(proposed, listed[proposed.subject], main)
  IN  /\ publisher[p].phase = "reading"
      /\ publisher' = [publisher EXCEPT ![p] =
           IF Publishes(reason) THEN [@ EXCEPT !.phase = "posting"] ELSE Idle]
      /\ UNCHANGED <<provider, finalizers, queue, checks, listed, bounds>>

AcceptCheck(e) ==
  /\ checks' = checks \cup {e}
  /\ listed' = [listed EXCEPT ![e.subject] = e]

CreateCheckRun(p) ==
  /\ publisher[p].phase = "posting"
  /\ AcceptCheck(publisher[p].proposed)
  /\ publisher' = [publisher EXCEPT ![p] = Idle]
  /\ UNCHANGED <<provider, finalizers, queue, bounds>>

\* The runner dies, or loses the answer to a check that was created.
LosePublisher(p) ==
  /\ losses < MaxLosses
  /\ publisher[p] # Idle
  /\ \/ UNCHANGED <<checks, listed>>
     \/ publisher[p].phase = "posting" /\ AcceptCheck(publisher[p].proposed)
  /\ publisher' = [publisher EXCEPT ![p] = Idle]
  /\ losses' = losses + 1
  /\ UNCHANGED <<provider, finalizers, queue, retries>>

\* The publisher workflow of an uploaded observation is run again.
RerunPublisher(f) ==
  LET run == finalizers[f]
  IN  /\ retries < MaxRetries
      /\ run.phase = "done"
      /\ queue' = queue \cup {ObservationOf(f, run)}
      /\ retries' = retries + 1
      /\ UNCHANGED <<provider, finalizers, publisher, checks, listed, losses>>

FinalizerStep(f) ==
  \/ StartFinalizer(f) \/ ReadHead(f) \/ ReadProducer(f) \/ VerifyEvidence(f)
  \/ UploadObservation(f)

PublisherStep(p) == ReadAndDecide(p) \/ CreateCheckRun(p)

Next ==
  \/ MoveMain \/ PushHead
  \/ \E r \in RunIds :
       \/ \E w \in Workflows, h \in Heads : StartProducer(r, w, h)
       \/ RerunProducer(r)
       \/ \E result \in Results, f \in FinalizerIds : CompleteProducer(r, result, f)
  \/ \E f \in FinalizerIds :
       FinalizerStep(f) \/ RerunFinalizer(f) \/ LoseFinalizer(f) \/ RerunPublisher(f)
  \/ \E p \in Publishers :
       \/ \E o \in queue : BeginPublication(p, o)
       \/ PublisherStep(p) \/ LosePublisher(p)

Spec == Init /\ [][Next]_vars

\* A runner takes queued work and executes the steps of a job it started.
Fairness ==
  /\ \A f \in FinalizerIds : WF_vars(FinalizerStep(f))
  /\ \A p \in Publishers : WF_vars(PublisherStep(p))
  /\ WF_vars(\E p \in Publishers, o \in queue : BeginPublication(p, o))

FairSpec == Spec /\ Fairness

-----------------------------------------------------------------------------
(* Properties.                                                             *)

\* Every variable keeps the shape the provider and the runners give it.
TypeOK ==
  /\ main \in Mains /\ head \in Heads
  /\ base \in [Heads -> Mains \cup {0}]
  /\ producers \in [RunIds -> Producer]
  /\ finalizers \in [FinalizerIds -> Finalizer]
  /\ queue \subseteq PRObservation
  /\ publisher \in [Publishers -> Publication \cup {Idle}]
  /\ checks \subseteq Checks
  /\ listed \in [Heads -> Checks \cup {NoStatus}]
  /\ losses \in Nat /\ retries \in Nat

Witnessed(w, h) ==
  \E r \in RunsOf(w, h), a \in Attempts :
    \/ producers[r].results[a] = "success"
    \/ producers[r].results[a] = "rejected" /\ a < producers[r].attempt

\* A published success rests on a successful attempt of every producer workflow
\* on the very head that carries it, whatever was pushed, merged or re-run while
\* the finalizer read; evidence the evaluator rejects never counts, unless a
\* newer attempt of the run gave the evidence in its place.
SuccessIsWitnessed ==
  \A e \in checks : e.conclusion = "success" =>
    \A w \in Workflows : Witnessed(w, e.subject)

\* Every check that exists or is about to.
Said ==
  checks \cup {publisher[p].proposed : p \in {q \in Publishers : publisher[q] # Idle}}

\* A finalizer and its attempt name one head and one verdict, although the attempt
\* may be lost, the finalizer run again and its publisher any number of times.
\* Where the check it reads back carries its own authority and another conclusion,
\* publish_pr raises, however often it is run again.
AuthorityNamesOneVerdict == \A e, g \in Said : SameOrder(e, g) => e = g

Quiescent ==
  /\ \A f \in FinalizerIds : finalizers[f].phase \in {"unborn", "done", "failed"}
  /\ queue = {} /\ \A p \in Publishers : publisher[p] = Idle
  /\ losses = 0 /\ base[head] = main

LatestResults ==
  {LET s == ProducerState(w, head)
   IN  IF s.run = 0 THEN "none" ELSE producers[s.run].results[s.attempt]
     : w \in Workflows}

LatestStates == {ProducerState(w, head).state : w \in Workflows}

Triggered ==
  \E r \in RunIds : producers[r].subject = head /\ producers[r].state = "completed"

\* Every trigger was handled, and no producer of the head is running.  Evidence
\* the evaluator refuses is excluded.
Settled ==
  /\ Quiescent /\ Triggered
  /\ \A r \in RunIds : producers[r].subject = head => producers[r].state = "completed"
  /\ "rejected" \notin LatestResults

ChecksOf(h) == {e \in checks : e.subject = h}

\* The checks of a head that carry the highest authority posted for it say this.
Certifies(h, state) ==
  /\ ChecksOf(h) # {}
  /\ \A e \in Latest(ChecksOf(h)) : e.conclusion = Conclusion(state)

\* Once settled, the check of the highest authority says what the latest attempts
\* say, whichever finalizer was fast or slow, re-run or raced by another, and
\* whichever check the racing publishers made the provider list.
AuthorityAgrees == Settled => Certifies(head, Aggregate(LatestStates))

\* Once settled, the check the provider lists, which publish_pr reads back and
\* branch protection requires, says what the latest attempts say.  Publishers must
\* run one at a time for it.
SettledCheckAgrees ==
  Settled => listed[head].conclusion = Conclusion(Aggregate(LatestStates))

\* Once every trigger was handled, a success is not the current check while a
\* newer attempt of a producer is pending, failed or refused.
NewerWorkRevokes ==
  Quiescent /\ listed[head].conclusion = "success" =>
    LatestStates = {"successful"} /\ "rejected" \notin LatestResults

\* The latest attempts of the head agree on a verdict and nothing has moved.
Wanted(h, state) ==
  /\ head = h /\ base[h] = main /\ Triggered
  /\ \A r \in RunIds : producers[r].subject = h => producers[r].state = "completed"
  /\ "rejected" \notin LatestResults
  /\ Aggregate(LatestStates) = state

\* A verdict reaches its head as the check of the highest authority, unless it is
\* overtaken by another attempt, a push or a merge; this assumes that no runner is
\* lost.
VerdictArrives ==
  \A h \in Heads, state \in States :
    Wanted(h, state) ~> ~ Wanted(h, state) \/ Certifies(h, state)
=============================================================================

------------------------- MODULE StatusPublication -------------------------
(***************************************************************************)
(* Exact-main certification: pushes and moves of the default main, admitted*)
(* workflow runs and their re-run attempts, the trusted finalizer, and the *)
(* publishers that read the statuses of a commit, decide, and post.        *)
(*                                                                         *)
(* A publisher holds no lock between its read and its post, and several    *)
(* runners execute publishers; every interleaving of their steps is a      *)
(* behaviour here.  A runner may die at any step, and a post may be applied *)
(* although the runner never sees the answer.                              *)
(***************************************************************************)
EXTENDS StatusAuthority

CONSTANTS MaxCommits,   \* default-main commits, numbered in the order merged
          MaxRuns,      \* exact-main admission runs, numbered by the provider
          MaxAttempts,  \* attempts of one run
          Publishers,   \* runners able to execute a publication at once
          Intents,      \* evaluation intents an admission may carry
          MaxLosses,    \* dead runners and lost answers, together
          MaxRetries    \* publisher workflow runs re-run by hand

ASSUME StatusPublicationAssumption ==
  /\ MaxCommits \in Nat \ {0} /\ MaxRuns \in Nat /\ MaxLosses \in Nat
  /\ MaxRetries \in Nat
  /\ MaxAttempts \in 1 .. (Radix - 1)
  /\ Intents \subseteq {"pr", "workitem", "closure"}

VARIABLES main,       \* the commit the default branch points to
          runs,       \* the provider's view of every admission run
          bundles,    \* finalizer bundles uploaded so far
          queue,      \* bundles whose publisher workflow has not started
          publisher,  \* what each runner is executing
          posted,     \* every status the provider accepted
          shown,      \* the status the provider shows: the last one posted
          losses, retries

vars == <<main, runs, bundles, queue, publisher, posted, shown, losses, retries>>

Commits == 1 .. MaxCommits
RunIds == 1 .. MaxRuns
Attempts == 1 .. MaxAttempts
Verdicts == {"success", "failure", "noncertifying"}

Run == [subject : Commits \cup {0}, intent : Intents \cup {"none"},
        attempt : 0 .. MaxAttempts,
        state : {"unborn", "running", "completed"},
        admitted : {"no", "publishing", "yes", "failed"},
        verdicts : [Attempts -> Verdicts \cup {"none"}]]

UnbornRun == [subject |-> 0, intent |-> "none", attempt |-> 0,
              state |-> "unborn", admitted |-> "no",
              verdicts |-> [a \in Attempts |-> "none"]]

Bundle == [run : RunIds, attempt : Attempts, subject : Commits,
           intent : Intents, state : Verdicts]

\* The contexts an exact-main publisher writes.
PublishedContexts == {ExactMain, BoundedWorkitem}

Statuses == Observation(PublishedContexts, Commits)

\* status_context_for_evaluation; the intent "pr" never reaches a status.
StatusContextFor(intent) ==
  IF intent = "workitem" THEN BoundedWorkitem ELSE ExactMain

RunOrdinal(run, attempt) == AdmissionOrdinal(run, attempt, 1)

\* Mutant: the authority of the run, whatever its attempt.
ProposalOfRun(run, attempt, subject, intent, conclusion) ==
  [context |-> StatusContextFor(intent), subject |-> subject,
   ordinal |-> RunOrdinal(run, 1), attempt |-> 1, conclusion |-> conclusion]

Proposal(run, attempt, subject, intent, conclusion) ==
  [context |-> StatusContextFor(intent), subject |-> subject,
   ordinal |-> RunOrdinal(run, attempt), attempt |-> attempt,
   conclusion |-> conclusion]

\* `admits` is the run whose admit job this publication is, 0 for a bundle.
Idle == [phase |-> "idle", proposed |-> NoStatus, main |-> 0, admits |-> 0]

Publication ==
  [phase : {"reading", "posting"}, proposed : Statuses,
   main : Commits, admits : RunIds \cup {0}]

\* commit_statuses filtered to one context and subject.
StatusesOf(proposed) == {e \in posted : SameIdentity(e, proposed)}

Init ==
  /\ main = 1
  /\ runs = [r \in RunIds |-> UnbornRun]
  /\ bundles = {} /\ queue = {}
  /\ publisher = [p \in Publishers |-> Idle]
  /\ posted = {}
  /\ shown = [k \in PublishedContexts \X Commits |-> NoStatus]
  /\ losses = 0 /\ retries = 0

-----------------------------------------------------------------------------
(* The provider: merges, workflow runs and their attempts.                 *)

MoveMain ==
  /\ main < MaxCommits
  /\ main' = main + 1
  /\ UNCHANGED <<runs, bundles, queue, publisher, posted, shown, losses, retries>>

\* A push starts the one admission run of the pushed commit; main is never
\* force-pushed.  The run may be created after main moved on.
StartRun(r, s, i) ==
  /\ runs[r].state = "unborn"
  /\ r > 1 => runs[r - 1].state # "unborn"
  /\ \A q \in RunIds : runs[q].subject # s
  /\ s <= main
  /\ runs' = [runs EXCEPT ![r] = [@ EXCEPT !.subject = s, !.intent = i,
                                           !.attempt = 1, !.state = "running"]]
  /\ UNCHANGED <<main, bundles, queue, publisher, posted, shown, losses, retries>>

NextAttempt(run, all) ==
  [run EXCEPT !.attempt = run.attempt + 1, !.state = "running",
              !.admitted = IF all \/ run.admitted # "yes" THEN "no" ELSE "yes"]

\* "Re-run all jobs", or "re-run failed jobs", which keeps a successful admit.
Rerun(r, all) ==
  /\ runs[r].state = "completed"
  /\ runs[r].attempt < MaxAttempts
  /\ runs' = [runs EXCEPT ![r] = NextAttempt(runs[r], all)]
  /\ UNCHANGED <<main, bundles, queue, publisher, posted, shown, losses, retries>>

Concluded(run, verdict) ==
  [run EXCEPT !.state = "completed",
              !.verdicts = [run.verdicts EXCEPT ![run.attempt] = verdict]]

\* The producers need a successful admit; without it nothing certifies.
CompleteRun(r, verdict) ==
  /\ runs[r].state = "running"
  /\ runs[r].admitted # "publishing"
  /\ verdict # "noncertifying" => runs[r].admitted = "yes"
  /\ runs' = [runs EXCEPT ![r] = Concluded(runs[r], verdict)]
  /\ UNCHANGED <<main, bundles, queue, publisher, posted, shown, losses, retries>>

-----------------------------------------------------------------------------
(* admit_exact_main                                                        *)

Admitting(r) == runs[r].state = "running" /\ runs[r].admitted = "no"

\* "admission subject is not current default main"
RejectAdmission(r) ==
  /\ Admitting(r)
  /\ runs[r].subject # main
  /\ runs' = [runs EXCEPT ![r].admitted = "failed"]
  /\ UNCHANGED <<main, bundles, queue, publisher, posted, shown, losses, retries>>

\* "pr_progress_noncertifying"
SuppressAdmission(r) ==
  /\ Admitting(r)
  /\ runs[r].subject = main
  /\ runs[r].intent = "pr"
  /\ runs' = [runs EXCEPT ![r].admitted = "yes"]
  /\ UNCHANGED <<main, bundles, queue, publisher, posted, shown, losses, retries>>

\* Mutant: the admit job ends before its pending status is posted.
AdmitWithoutWaiting(p, r) ==
  /\ Admitting(r)
  /\ runs[r].subject = main
  /\ runs[r].intent # "pr"
  /\ publisher[p] = Idle
  /\ publisher' = [publisher EXCEPT ![p] =
       [phase |-> "reading", main |-> main, admits |-> r,
        proposed |-> Proposal(r, runs[r].attempt, main, runs[r].intent, "pending")]]
  /\ runs' = [runs EXCEPT ![r].admitted = "yes"]
  /\ UNCHANGED <<main, bundles, queue, posted, shown, losses, retries>>

AdmitExactMain(p, r) ==
  /\ Admitting(r)
  /\ runs[r].subject = main
  /\ runs[r].intent # "pr"
  /\ publisher[p] = Idle
  /\ publisher' = [publisher EXCEPT ![p] =
       [phase |-> "reading", main |-> main, admits |-> r,
        proposed |-> Proposal(r, runs[r].attempt, main, runs[r].intent, "pending")]]
  /\ runs' = [runs EXCEPT ![r].admitted = "publishing"]
  /\ UNCHANGED <<main, bundles, queue, posted, shown, losses, retries>>

-----------------------------------------------------------------------------
(* finalize_exact_main and publish_exact_main                              *)

\* Mutant: the trigger is not compared with the run's current attempt.
FinalizeLatestAttempt(r, t) ==
  /\ runs[r].verdicts[t] # "none"
  /\ runs[r].state = "completed"
  /\ LET b == [run |-> r, attempt |-> t, subject |-> runs[r].subject,
               intent |-> runs[r].intent,
               state |-> runs[r].verdicts[runs[r].attempt]]
     IN  /\ b \notin bundles
         /\ bundles' = bundles \cup {b}
         /\ queue' = queue \cup {b}
  /\ UNCHANGED <<main, runs, publisher, posted, shown, losses, retries>>

\* The finalizer was triggered by the completion of attempt `t`; it raises,
\* and uploads nothing, once the provider's current attempt is another one.
FinalizeExactMain(r, t) ==
  /\ runs[r].verdicts[t] # "none"
  /\ runs[r].attempt = t
  /\ runs[r].state = "completed"
  /\ LET b == [run |-> r, attempt |-> t, subject |-> runs[r].subject,
               intent |-> runs[r].intent,
               state |-> IF runs[r].intent = "pr" THEN "noncertifying"
                         ELSE runs[r].verdicts[t]]
     IN  /\ b \notin bundles
         /\ bundles' = bundles \cup {b}
         /\ queue' = queue \cup {b}
  /\ UNCHANGED <<main, runs, publisher, posted, shown, losses, retries>>

\* "certification_inapplicable": an observation bundle that certifies nothing.
SuppressBundle(b) ==
  /\ b.state = "noncertifying"
  /\ queue' = queue \ {b}
  /\ UNCHANGED <<main, runs, bundles, publisher, posted, shown, losses, retries>>

\* Mutant: bundles that certify nothing are published as well.
PublishEveryBundle(p, b) ==
  /\ publisher[p] = Idle
  /\ publisher' = [publisher EXCEPT ![p] =
       [phase |-> "reading", main |-> main, admits |-> 0,
        proposed |-> Proposal(b.run, b.attempt, b.subject, b.intent, b.state)]]
  /\ queue' = queue \ {b}
  /\ UNCHANGED <<main, runs, bundles, posted, shown, losses, retries>>

\* Main is resolved here, before the bundle and its collector are verified.
PublishExactMain(p, b) ==
  /\ b.state # "noncertifying"
  /\ publisher[p] = Idle
  /\ publisher' = [publisher EXCEPT ![p] =
       [phase |-> "reading", main |-> main, admits |-> 0,
        proposed |-> Proposal(b.run, b.attempt, b.subject, b.intent, b.state)]]
  /\ queue' = queue \ {b}
  /\ UNCHANGED <<main, runs, bundles, posted, shown, losses, retries>>

\* A maintainer re-runs the publisher workflow of a bundle.
RetryPublication(b) ==
  /\ retries < MaxRetries
  /\ b \notin queue
  /\ queue' = queue \cup {b}
  /\ retries' = retries + 1
  /\ UNCHANGED <<main, runs, bundles, publisher, posted, shown, losses>>

-----------------------------------------------------------------------------
(* publish_observation: read and decide, then post.                        *)

\* The publisher ends; the admit job it belongs to, if any, ends with it.
Settle(p, outcome) ==
  /\ publisher' = [publisher EXCEPT ![p] = Idle]
  /\ runs' = [r \in RunIds |->
       IF r = publisher[p].admits THEN [runs[r] EXCEPT !.admitted = outcome]
       ELSE runs[r]]

ReadAndDecide(p) ==
  /\ publisher[p].phase = "reading"
  /\ LET proposed == publisher[p].proposed
         statuses == StatusesOf(proposed)
     IN  IF Conflicting(statuses) THEN Settle(p, "failed")
         ELSE \E current \in CurrentStatus(statuses) :
                LET reason == DecideStatusPublication(proposed, current,
                                                      publisher[p].main)
                IN  IF Publishes(reason)
                      THEN /\ publisher' = [publisher EXCEPT ![p].phase = "posting"]
                           /\ UNCHANGED runs
                      ELSE Settle(p, IF Raises(reason) THEN "failed" ELSE "yes")
  /\ UNCHANGED <<main, bundles, queue, posted, shown, losses, retries>>

AcceptStatus(e) ==
  /\ posted' = posted \cup {e}
  /\ shown' = [shown EXCEPT ![<<e.context, e.subject>>] = e]

PostStatus(p) ==
  /\ publisher[p].phase = "posting"
  /\ AcceptStatus(publisher[p].proposed)
  /\ Settle(p, "yes")
  /\ UNCHANGED <<main, bundles, queue, losses, retries>>

\* The provider accepts the status but the runner sees an error.
LoseAnswer(p) ==
  /\ losses < MaxLosses
  /\ publisher[p].phase = "posting"
  /\ AcceptStatus(publisher[p].proposed)
  /\ Settle(p, "failed")
  /\ losses' = losses + 1
  /\ UNCHANGED <<main, bundles, queue, retries>>

\* The runner dies, times out, or cannot read the provider.
LosePublisher(p) ==
  /\ losses < MaxLosses
  /\ publisher[p] # Idle
  /\ Settle(p, "failed")
  /\ losses' = losses + 1
  /\ UNCHANGED <<main, bundles, queue, posted, shown, retries>>

Next ==
  \/ MoveMain
  \/ \E r \in RunIds :
       \/ \E s \in Commits, i \in Intents : StartRun(r, s, i)
       \/ \E all \in BOOLEAN : Rerun(r, all)
       \/ \E v \in Verdicts : CompleteRun(r, v)
       \/ RejectAdmission(r)
       \/ SuppressAdmission(r)
       \/ \E p \in Publishers : AdmitExactMain(p, r)
       \/ \E t \in Attempts : FinalizeExactMain(r, t)
  \/ \E b \in queue : SuppressBundle(b) \/ \E p \in Publishers : PublishExactMain(p, b)
  \/ \E b \in bundles : RetryPublication(b)
  \/ \E p \in Publishers :
       ReadAndDecide(p) \/ PostStatus(p) \/ LoseAnswer(p) \/ LosePublisher(p)

Spec == Init /\ [][Next]_vars

(***************************************************************************)
(* Runners take queued work and finish what they started, or are lost; the *)
(* provider delivers a completion event to the publisher workflow.         *)
(***************************************************************************)
Fairness ==
  /\ \A p \in Publishers : WF_vars(ReadAndDecide(p)) /\ WF_vars(PostStatus(p))
  /\ WF_vars(\E b \in queue, p \in Publishers : PublishExactMain(p, b))

FairSpec == Spec /\ Fairness

-----------------------------------------------------------------------------
(* Properties.                                                             *)

\* Every variable keeps the shape the provider and the runners give it.
TypeOK ==
  /\ main \in Commits
  /\ runs \in [RunIds -> Run]
  /\ bundles \subseteq Bundle /\ queue \subseteq bundles
  /\ publisher \in [Publishers -> Publication \cup {Idle}]
  /\ posted \subseteq Statuses
  /\ shown \in [PublishedContexts \X Commits -> posted \cup {NoStatus}]
  /\ losses \in Nat /\ retries \in Nat

\* A terminal status names one attempt of one run of its own commit, and says
\* what that attempt concluded, however often the run was re-run meanwhile and
\* whenever the finalizer and the publisher of the attempt happened to run.
CertifiedByItsAttempt ==
  \A e \in posted : e.conclusion \in Terminal =>
    \E r \in RunIds, a \in Attempts :
      /\ e.ordinal = RunOrdinal(r, a) /\ e.attempt = a
      /\ runs[r].subject = e.subject
      /\ runs[r].verdicts[a] = e.conclusion
      /\ StatusContextFor(runs[r].intent) = e.context

\* No publication ever meets the equal-authority conflict the publisher and the
\* reader raise on: it would leave that commit without any further status.
NeverWedged ==
  \A p \in Publishers : publisher[p].phase = "reading" =>
    LET statuses == StatusesOf(publisher[p].proposed)
    IN  /\ ~ Conflicting(statuses)
        /\ \A current \in CurrentStatus(statuses) :
             ~ Raises(DecideStatusPublication(publisher[p].proposed, current,
                                              publisher[p].main))

\* A run certifies only after a pending status of its own, of this attempt or of
\* another, has revoked whatever the commit showed before.
AdmissionRevokesFirst ==
  \A e \in posted : e.conclusion \in Terminal =>
    \E r \in RunIds, f \in posted :
      /\ e.ordinal = RunOrdinal(r, e.attempt)
      /\ SameIdentity(e, f)
      /\ f.ordinal >= RunOrdinal(r, 1)
      /\ f.conclusion = "pending" \/ Precedes(e, f)

\* What BCF itself reads as the current status of a commit never falls back to
\* an older authority, and at one authority never from terminal to anything else.
NeverRegresses(c, s) ==
  LET before == {e \in posted : e.context = c /\ e.subject = s}
      after == {e \in posted' : e.context = c /\ e.subject = s}
  IN  before # {} =>
        \A e \in CurrentStatus(before), f \in CurrentStatus(after) :
          /\ ~ Precedes(f, e)
          /\ SameOrder(e, f) /\ e.conclusion # "pending"
               => f.conclusion = e.conclusion

AuthorityNeverRegresses ==
  [][\A c \in PublishedContexts, s \in Commits : NeverRegresses(c, s)]_vars

\* The status the provider shows for a commit is that of the highest authority
\* posted for it.
ShownIsHighestAuthority ==
  \A e \in posted :
    /\ ~ Precedes(shown[e.context, e.subject], e)
    /\ SameOrder(shown[e.context, e.subject], e) /\ e.conclusion \in Terminal
         => shown[e.context, e.subject].conclusion = e.conclusion

\* A later failure revokes an earlier success: the status shown is not a success
\* while a failure of higher authority was posted for the same commit.
LaterFailureRevokes ==
  \A e \in posted : e.conclusion = "failure" =>
    LET status == shown[e.context, e.subject]
    IN  ~ (status.conclusion = "success" /\ Precedes(status, e))

\* A terminal bundle is eventually published, or its authority is superseded, or
\* its commit is no longer main; this assumes no publisher is lost.
Certified(r, t) ==
  \E b \in bundles : b.run = r /\ b.attempt = t /\ b.state \in Terminal

Settled(r, t) ==
  \/ main # runs[r].subject
  \/ \E e \in posted :
       /\ e.subject = runs[r].subject
       /\ e.context = StatusContextFor(runs[r].intent)
       /\ \/ e.ordinal > RunOrdinal(r, t)
          \/ e.ordinal = RunOrdinal(r, t) /\ e.conclusion = runs[r].verdicts[t]

CertificationSettles ==
  \A r \in RunIds, t \in Attempts : Certified(r, t) ~> Settled(r, t)
=============================================================================

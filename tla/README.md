# BCF governance: specifications, model checking and proofs

BCF governance certifies changes of a repository on GitHub. Candidates run
untrusted workflows; workflows of the trusted default branch read what those
runs did, compute a verdict, and publish it where branch protection and release
consumers look. The provider (GitHub) offers single calls and no transactions.
Most of the code is sequential validation; what is hard is the small part where
several workflow runs, triggered by events, re-run by hand and lost with their
runners, read and write one provider. The specifications model that part.

## Inventory of the system

Paths are relative to `bcf_governance/tooling/` unless they start with a dot.

| component | state it keeps | operations | interacts with |
| --- | --- | --- | --- |
| status authority rules (`ci_authority_decisions.py`, `admission_ordinal`) | none, pure | order of authorities, current status, publish or suppress | every publisher |
| exact-main certification (`ci_github_exact_main.py`, `ci_github_status.py`, `ci_github_membership.py`, `.github/workflows/bcf-exact-main.yml`, `-trusted-finalizer.yml`, `-status-publisher.yml`) | commit statuses, workflow runs and artifacts at the provider | admit, finalize, publish | the provider, the status rules |
| pull-request certification (`ci_github_pr.py`, `bcf-pr-finalizer.yml`, `bcf-pr-status-publisher.yml`) | check runs and artifacts at the provider | finalize, publish | the provider, the status rules |
| pull-request transition and mutations (`ci_pr_transition.py`, `ci_github_pr_mutations.py`) | pull requests and files of one branch | freeze, promote | pull-request certification |
| run authentication (`ci_github_identity.py`) | none, reads the provider | authenticate a run, its attempt and artifacts | every finalizer and publisher |
| admission evaluation (`ci_authority_state.py`) | none, pure | select admission and attempts, evaluate producers | finalizers |
| v1.0 controller, canary (`ci_github_controller.py`, `ci_github_canary.py`) | as above | dispatch, finalize | the provider |
| release publication (`release_publication_transaction.py`, `release_tag_publication.py`) | one tag, draft releases, their assets, the published release | publish, inspect | the provider |
| install transaction (`governance_install/transaction.py`) | the managed files of a repository | apply with rollback | installer, upgrade, cleanup, migrations |
| controller custody and rotation (`routine_controller_*`, `controller_custody*`, `ci_controller_provider.py`, `ci_github_bootstrap.py`, `ci_self_controller.py`, `trusted_controller_compatibility.py`, `bcf-exact-main.yml`, `bcf-controller-rotation.yml`, job `rotation-callback` of `bcf-status-publisher.yml`) | the source policy of each commit, active transitions (artifacts of rotation runs), the builds each runner holds | resolve, classify, authorize, install, advance, publish, dispatch; confirm by merge | exact-main admission, whose build it installs and which it asks to run again |
| break-glass recovery (`break_glass_*`, `candidate_provider_recovery.py`, `ci_recovery_frontier.py`) | recovery receipts, provider state | recover, re-enter | rotation |
| evidence planning, sessions, scheduling (`evidence_*`) | session directories, shards, claims | plan, execute, finalize, reuse | preflight, finalizers |
| evidence storage (`evidence_storage_*`) | archives in provider releases, manifests | upload, fetch, retain | evidence sessions |
| local admission (`local_execution_admission.py`) | a lock file per host | acquire, release | preflight, local PR |
| everything else (validators, CI graph compiler, profiles, semantic ownership, interpreter environments, scaffolding) | files of one checkout | pure or sequential | - |

### Where it is hard

- *Read, decide, post without a lock.* A publisher reads the statuses of a
  commit, decides, and posts in a later call. Several self-hosted runners run
  publishers; the publisher workflow has no concurrency group.
- *Re-runs.* A workflow run has attempts. "Re-run failed jobs" keeps the
  successful ones. A finalizer triggered by one attempt may execute while the
  next is in progress.
- *Losses.* A runner dies between two calls; a call is applied although its
  answer is lost; somebody runs the workflow again.
- *Provider state built by several calls.* Tag object, tag reference, draft,
  every asset, publication: a release is at any moment partly there, several
  publishers may be at it, and publication cannot be undone.
- *Authority that is derived.* Nobody stores which controller is effective: every
  privileged command derives it from the policy of main and from receipts that
  several runs left as artifacts, while merges move main, rotations run, and
  runs are started again, which changes what their artifacts are worth.
- *Rollback.* The install transaction has no journal: what it must undo is in
  the memory of the process.

### What makes each part correct

- Status authority: a total order that packing into one integer preserves; the
  reader never takes pending over terminal at one authority; no sequence of
  publications leads to the conflict on which everyone raises.
- Exact-main: a terminal status says what the attempt it names concluded; the
  run revoked the older status before; authority never regresses; the newest
  certification arrives.
- Pull requests: a success rests on evidence of the very head it is published
  on; the authority of an observation is the number of its finalizer run and not
  the moment it read, and still the check of the highest authority settles on
  what the latest attempts say, and where publishers take turns the check the
  provider lists does; a verdict arrives unless overtaken.
- Release: a tag shows nothing or one whole transaction, for ever; publishers
  of the same transaction converge; a surviving publisher completes; nobody
  adds bytes to a release that holds foreign ones.
- Rotation: the transitions that count form one chain, so that the resolver has
  one answer; authority moves to later builds only, unless a protected merge
  restates it; a transition is active only where every runner holds its build;
  each transition asks for one fresh admission; when merges stop, main is
  certified by a controller that runs its own runtime.
- Install: success means everything promoted; failure means everything
  restored.

## Modules

| module | what it is |
| --- | --- |
| `StatusAuthority` | pure rules: ordinals, order, current status, decision |
| `StatusPublication` | exact-main admission, finalization, publication over a provider |
| `MCStatusPublication` | symmetry of runners, for TLC |
| `StatusPublicationProofs` | theorems about both |
| `StatusAdmissionProofs` | theorems about the admit job: no conflict, and revocation before certification |
| `PRCertification` | finalizers and publishers of pull-request checks, over `StatusAuthority` |
| `PRCertificationProofs` | theorems about what a single check rests on |
| `PRSettlementProofs` | theorems about the checks of a head together: what authority says, and the check that stands when all is done |
| `ImmutableRelease` | abstract specification of a release tag |
| `ReleasePublication` | `publish_release` call by call, and the refinement of `ImmutableRelease` |
| `MCReleasePublication` | the builds that race in each run |
| `ReleasePublicationProofs` | theorems, among them the refinement |
| `ReleaseConvergenceProofs` | theorems about publishers that share a release, for each kind of provider |
| `ControllerSuccession` | abstract specification of the effective controller |
| `ControllerRotation` | admission, rotation, callback and source policy, and the refinement of `ControllerSuccession` |
| `MCControllerRotation` | symmetry of runners; a check of the chain operators against the loop of the code |
| `ControllerRotationProofs` | theorems, among them the refinement |
| `InstallTransaction` | `apply_transaction` |
| `InstallTransactionProofs` | theorems about it |

Operators that start with the comment *Mutant* are plausible wrong versions of
the definition after them. Nothing uses them; `PROJECT.json` says which
property fails when one takes the place of the original.

### StatusAuthority and StatusPublication

The order is (admission ordinal, attempt) as in `decide_status_publication`.
`CurrentStatus` returns the set of observations `_current_status` may return:
the provider lists statuses in an order the code does not rely on.
`DecideStatusPublication` has one disjunct per return of the function and
`"conflict"` where it raises.

State of `StatusPublication`: `main` is the default branch, numbered by merges.
`runs` is the provider's view of the admission runs: subject, intent, current
attempt, how far its admit job is, and what each attempt concluded. `bundles`
are uploaded finalizer artifacts, `queue` those whose publisher has not begun.
`publisher` is what each runner executes: a publication is first *reading*, then
*posting*, and between the two anything may happen. `posted` holds all statuses,
as the provider's listing does; `shown` the last one posted for a context and
commit, which is what branch protection reads.

| action | code |
| --- | --- |
| `RejectAdmission`, `SuppressAdmission`, `AdmitExactMain` | the three ways through `admit_exact_main` |
| `FinalizeExactMain` | `finalize_exact_main`: it raises when the trigger is no longer the current attempt |
| `SuppressBundle`, `PublishExactMain` | `publish` and `publish_exact_main` up to the call of `publish_observation` |
| `ReadAndDecide`, `PostStatus` | the two halves of `publish_observation` |
| `LoseAnswer`, `LosePublisher`, `RetryPublication` | an applied post that looks failed; a dead runner; a re-run publisher workflow |
| `MoveMain`, `StartRun`, `Rerun`, `CompleteRun` | the provider |

A commit has one admission run: `bcf-exact-main.yml` is triggered by pushes to
main only, and main is never force-pushed. Its attempts compete for the status of
the commit; runs of other commits compete for the runners and move main.

What the verification of runs, topology and artifacts decides is one
nondeterministic verdict per attempt (`CompleteRun`), because the properties
depend on *which* attempt a verdict belongs to and not on how it was computed.

### PRCertification

`main` and `head` number the commits of the default branch and of one pull
request, `base` is the main commit each head was pushed on (the provider's
`base.sha`, which a push updates). `producers` is the provider's view of the
producer runs: workflow, head, current attempt and what each attempt concluded;
*rejected* is a successful run whose evidence the protected evaluator refuses.
Each completed attempt creates one of `finalizers`, numbered in the order of
creation; that number is the ordinal of its observation.

| action | code |
| --- | --- |
| `StartFinalizer` | `finalize_pr` up to the comparison of the triggering attempt |
| `ReadHead` | `_current_pr` and `_evaluator_identity` |
| `ReadProducer` | one call of `_producer_state`, for one workflow of the contract |
| `VerifyEvidence` | one call of `_independent_truth`, which reads the run again |
| `UploadObservation` | the aggregation and the bundle |
| `BeginPublication` | `publish_pr` up to the evaluator comparison |
| `ReadAndDecide`, `CreateCheckRun` | the rest of it |
| `LoseFinalizer`, `LosePublisher`, `RerunFinalizer`, `RerunPublisher` | dead runners, lost answers, re-runs by hand |
| `MoveMain`, `PushHead`, `StartProducer`, `RerunProducer`, `CompleteProducer` | the provider |

The finalizer job checks out the head of its *trigger* and judges all evidence
against that checkout, so an older head's finalizer can never accept evidence of
a newer head (`EvidenceOutcomes`). `BeginPublication` reads main and the head in
one step where the code makes two calls: both only move forward and an
observation is of a head already pushed, so whatever two reads accept the first
moment accepts as well. `checks` holds everything posted, `listed` the check the
provider returns for a head. They differ because `check_runs`
(`ci_github_api.py:504`) requests the listing without `filter=all`, and the
provider then returns the check of a name that was created last: the `max` in
`publish_pr` ranges over at most one. The declared contract
(`governance/github-protection.yml`) has one producer workflow; the code takes
any number, and `pr_moves` uses two. The transition that replaces the
package producer during a migration is left out.

### ReleasePublication

One action per provider call of `publish_release`, `ensure_release_tag` and
`inspect_release`. `_matching_release` makes two calls, first by tag and then
the listing, and is called at four places; `Scanning` names the places,
`FindByTag` and `ListReleases` are the calls, and `After...` is what the code
does with the answer at each. Creating the annotated tag object is one step with
its reference: the object alone is invisible. The provider is assumed to accept
one reference and one published release per tag, to refuse a name that exists in
a release, and to leave published releases alone (`immutable releases`); whether
it refuses a second draft for a tag is the constant `DuplicateDrafts`, and both
values are checked. `ChecksumsAssumption` says that two transactions with the
same `SHA256SUMS`, which is first in `release_asset_paths`, have the same assets.

`ImmutableRelease` says what a consumer relies on: a tag goes from no release to
one transaction, once. `PublishesOneTransaction` is its instance with
`published <- PublishedTransaction`, the commit, notes and assets the provider
shows under the tag.

### ControllerRotation

A controller is named by the commit it was built from. `source[c]` is what commit
`c` says: its runtime, the controller it pins, the one it confirms as installed.
`admission[c]` and `rotation[<<c, a>>]` are the provider's view of the admission
run of `c` and of the rotation run that its attempt `a` triggered: the latest
attempt only, as the API shows it. `receipts` are the published active
transitions, each with the admission attempt that built the target and the
attempt of the rotation run that published it. `held[r][c]` says which attempt's
build of `c` runner `r` holds, `Partial` being an environment without metadata.
`rotation[id].trigger` is how the triggering attempt ended, which the run keeps
when it is run again. `proved` are the runners on which the proof runs of main are
green. `asking` are the rotation runs whose callback has authenticated the
admission and not yet asked; `dispatched[id]` counts the fresh admissions the
callback of run `id` asked for.

| definition | code |
| --- | --- |
| `Authentic`, `Following`, `Linear`, `Head`, `Resolvable` | `_active_receipts`, `transition_follows_normalization`, `select_controller_chain`, `effective_controller_pin`: where the code raises, `Resolvable` is false |
| `ProjectCustody`, `CompleteAdmission`, `RefuseAdmission` | job `trusted-controller-build` of `bcf-exact-main.yml` and the end of its run |
| `Enqueue`, `Start` | the concurrency group of `bcf-controller-rotation.yml`: one runs, one waits, a newer one replaces the one that waits |
| `AuthorizeTransition`, `NoTransition`, `RefuseTransition` | the outcomes of `authorize_transition` |
| `InstallOn`, `RefuseInstall` | `install_controller` on one runner, in each of three stages |
| `AdvanceTransition`, `SupersedeTransition` | `advance_provider_transition`, when all jobs of a stage are green |
| `PublishTransition`, `ProjectOutcome` | the upload of the receipt, and the rest of the run after it |
| `AuthenticateAdmission` | `dispatch_post_rotation_certification` up to the authentication of the admission attempt |
| `RequestCertification`, `RefuseRequest` | its call of `rerun_workflow`, which names the run and not the attempt, and is refused while that run is running |
| `Merge` | an ordinary merge |
| `MergeTarget`, `InstallTarget`, `MergeConfirmation` | the self-controller lane: the merge that pins a build, its installation on each runner, the merge that confirms it |
| `RerunAdmission`, `RerunRotation` | what operators have to run again |
| `FailJob`, `LoseRequest`, `KillInstall`, `FailOutcome`, `FailAdmission`, `StrayAdmission`, `StrayRotation` | faults, each kind of which `Faults` admits |

`AuthorizeTransition` resolves the controller once; the receipt is published
several jobs later, and between the two main may move, the policy may be
restated and runs may be started again. `main` is read again when a stage is
proved but not when the receipt is uploaded, as in the code.

The default branch is never force-pushed, so every transition's commits are
ancestors of main and the ancestry checks reduce to the order of numbers. The
inputs to the classification of a commit are reduced to the question whether its
runtime is the one the effective controller runs; a candidate whose bootstrap
inputs are incompatible, which the classification refuses, does not occur. The
two proof runs of the self-controller lane, bootstrap and probe, run one
installer on every runner and are taken as one (`proved`). The break-glass chain,
with the re-entry that permits another pin while one is pending, the
authentication of the confirming pull request and the expiry of artifacts are left
out. `MCControllerRotation` compares `Linear` and `Head` with the loop
of `select_controller_chain` on every set of transitions between four commits.

`ControllerSuccession` says what privileged commands rely on: the effective
controller moves to later builds of main by rotation, and anywhere only by a
merge that restates the policy. `SuccessionSpec` is its instance with
`controller <- Effective`, a value the code computes and never stores.

### InstallTransaction

`repo`, `desired`, `before`, `changed` and `applied` are the variables of
`apply_transaction` (`before` its snapshots). Each file is absent or has one of
two contents. A step is one file operation or one list operation, because an
interruption may come between them: `PromoteFile` replaces a file and
`RecordFile` appends it to `applied`.

## Runs

Bounds are chosen so that each hazard fits in: two runners are enough for one
publication to overtake another, since a third only repeats it; three attempts
give three authorities for one commit; two commits let main move.

| run | question | bounds |
| --- | --- | --- |
| `status_race` | do concurrent publishers, with one loss, keep the order BCF reads? | 2 commits, 1 run of 3 attempts, all intents, 2 runners, 1 loss, 1 re-run publisher |
| `status_serial` | with one runner, is the shown status the highest authority, and does each certification arrive or become obsolete? | 2 commits, 1 run of 3 attempts, all intents, 1 re-run publisher |
| `status_overtake` | with two, does a later failure revoke an earlier success in what is shown? (violated) | 1 commit, 1 run of 2 attempts, 2 runners |
| `pr_moves` | do observations stay with their head while heads and main move, and is a success held back until every producer has one, and does one authority say one thing? | 2 heads, 2 main commits, 2 workflows, 2 runs of 1 attempt, 1 runner, 1 loss, 1 re-run |
| `pr_attempts` | is a success witnessed when an attempt is replaced while it is read, does the highest authority settle on the latest attempt, and does each verdict arrive? | 2 heads, 2 main commits, 1 run of 2 attempts, 2 runners |
| `pr_revocation` | does newer work revoke an older success? (violated) | 1 run of 2 attempts |
| `release_race` | does a tag show one whole transaction whoever races? | 3 builds of 3 assets that partly agree, duplicate drafts, 1 loss, 1 retry, 1 deletion |
| `release_converge` | do publishers of one build converge, and does a survivor complete? | 3 publishers, 2 losses, 1 retry |
| `release_ambiguous` | do they when the provider accepts a second draft? (violated) | 2 publishers of one build |
| `install_failures` | is a run atomic under failures, kills, repeated runs, and what does an interruption leave? | 3 files, 1 interrupt, 1 kill, 3 runs |
| `rotation_settles` | does every runner hold what is active, does the callback ask once, and does main settle? | 2 merges, 2 runners, 4 admission attempts, 3 rotation attempts, 1 fault of any kind |
| `rotation_normalized` | is the chain one chain, and does authority move as promised, when the policy is restated meanwhile? | 3 merges of every kind, 2 runners, 2 attempts of each run, 1 stray re-run of a rotation or failure after publication |

In the rotation runs two runners let one hold a build the other does not. Two
merges supersede a rotation and its waiting successor; three are a target, a
confirmation, and a commit under rotation. Four admission attempts and three
rotation attempts are enough that no bound stops a run which one fault
disturbed: with fewer `RotationSettles` would fail for that reason.
`rotation_normalized` has the faults that touch the worth of a published
receipt; the others happen in `rotation_settles`, and the proofs cover all.
`ControllerRotation` assumes two runners or more, as the policy requires.

`CHECK_DEADLOCK FALSE` is set everywhere: all five systems end (no more
commits or runs, all publishers finished, the transaction done).

### Findings

The violated runs show three places where code and documentation disagree;
`PROJECT.json` quotes the sentences.

- *Overtaking* (`status_overtake`). Runner A reads for an attempt that succeeded,
  runner B reads and posts the failure of a later attempt, A posts its success.
  BCF's own reader lists all statuses and finds the newer
  (`AuthorityNeverRegresses` holds and is proved), but the required check of the
  provider is the last one posted.
- *Revocation* (`pr_revocation`). The finalizer is triggered by completed
  producer attempts only. While a newer attempt is queued or running, and when
  its evidence is refused (the finalizer raises), the older success stays.
  Once every attempt has completed with evidence that is not refused, the check
  of the highest authority does agree with it (`AuthorityAgrees`), and if
  publishers run one at a time that check is the one listed
  (`SettledCheckAgrees`).
- *Ambiguous drafts* (`release_ambiguous`). Two publishers that both found
  nothing create two drafts where the provider permits that; afterwards every
  publisher raises until somebody deletes one.

Three limits have no run of their own. Publishers of pull-request checks overtake
one another as those of statuses do, and there the provider lists the last check
only, so BCF reads the older success as well: with two publishers in the bounds
of `pr_attempts`, `SettledCheckAgrees` is violated. The newer verdict stays posted
(`AuthorityAgrees` is proved for any number of publishers), but it is not shown
again until a publication of at least its authority runs. After a conflict
on creation, `publish_release` takes over the other draft with name and notes
compared and assets not; on a provider that refuses a second draft, missing
assets may then be uploaded next to foreign ones, and only publication is
refused, as `ImplementsImmutableRelease` proves. `DraftsStayCompatible` holds, and
is checked, where the provider accepts a second draft. And an interruption between the replacement of a file
and its recording leaves that file replaced after the rollback; `OneFileAstray`
says, and is proved, that it is never more than this one.

### Fairness

`FairSpec` of `StatusPublication` gives weak fairness to the two halves of a
publication on each runner and to the start of some queued publisher: a
self-hosted runner executes the steps of a job and takes the next queued job.
Nothing is assumed about merges, re-runs or completions, or about *which* queued
publication starts. `FairSpec` of `PRCertification` does the same and adds the
steps of each finalizer, which run on those runners too; losses are excluded by
the bound of that run. `FairSpec` of `ReleasePublication` gives weak fairness to
each publisher: a process that has not died makes its next call. Runs that die
stop being enabled, and retries are not fair.

`FairSpec` of `ControllerRotation` has five conditions: some admission, some
rotation and some callback that can proceed does, because the provider runs what
it was asked to run; and operators run a failed admission or rotation again,
where `FreshAdmissionNeeded` and `RerunNeeded` say that only this helps; and the
publisher whose callback died is run again. Merges and faults are not forced.
`RotationSettles` holds whenever nothing but jobs failed. A runner that dies between environment and metadata, a run that fails
after its receipt was uploaded, and re-runs nobody needs, of a rotation that
already activated its transition or of an admission whose build runners hold, are
in the model, and safety is checked and proved with them, but are excluded from
this property: each can leave a state on which every later install or resolution
raises, and no code repairs it.

## Proofs

All theorems hold for every value of the constants that satisfies the named
assumptions (`StatusPublicationAssumption`, `PRCertificationAssumption`,
`ReleaseAssumption`, `ChecksumsAssumption`, `InstallAssumption`,
`ConstantsAssumption`), which TLC evaluates in the runs.

- `OrdinalIsLexicographic`: the integer `run * 10^6 + attempt * 10^3 + sequence`
  is injective and ordered as its tuple, given the bound of 1000 that the code
  checks. Everything about authorities of attempts rests on it.
- `CertifiedByItsAttemptHolds`. Not inductive alone: a posted status was in a
  runner's memory before, and in a bundle before that. `IInv` says of each of the
  three that it describes an attempt of a run (`Evidenced`), and that the
  provider never changes what a finished attempt concluded
  (`AttemptsRecorded`). Steps that change runs only extend them, so evidence
  survives; this is one lemma and not one argument per action.
- `AuthorityNeverRegressesHolds`: adding one observation to a set never lowers
  what `CurrentStatus` selects from it, and at equal authority a terminal
  conclusion stays because two different ones cannot be evidenced.
- `SerialPublicationIsOrdered`: for any losses and retries, under the assumption of at most one runner the
  one that posts still beats everything posted. It is the exact counterpart of
  the violated run.
- `NeverWedgedHolds` and `AdmissionRevokesFirstHolds`, from one invariant,
  `AdmissionInv`. While a runner publishes the pending status of an admission, its
  run waits in the attempt named (`AdmissionsPending`) and no other runner
  publishes for it (`OneAdmission`), so nothing has concluded that attempt and no
  pending status can meet a different terminal one of equal authority; two
  terminal ones are equal because both are what that attempt concluded. A run
  that may certify has posted its pending status, or was told of one of higher
  authority (`CertifiableIsRevoked`), and posted statuses stay. Equal ordinals
  name one attempt by `OrdinalIsLexicographic`.
- `SuccessIsWitnessedHolds`, of pull-request checks. A check says what a
  publisher proposed, that what an observation said, that what a finalizer read
  in several calls, each of a different moment. `IInv` follows the chain: what
  `_producer_state` selected as successful was a completed attempt, not a
  failed one, of the head the finalizer had read (`SelectionRecorded`); once
  its evidence was accepted the workflow is witnessed (`FinalizerRecorded`), and
  so is everything the success reaches (`PublishedIsWitnessed`). Two facts make
  it inductive: producer runs only extend (`ProducersExtend`), so a witness
  survives pushes, merges and re-runs; and the evidence read later is of the
  selected attempt, or of a newer one, which is why a rejected attempt counts
  as a witness only if a newer attempt replaced it.
- `AuthorityAgreesHolds`, for any number of publishers and whatever the provider
  lists: the order of authority is the order of the triggers, although neither
  finalizers nor publishers finish in it. Say that a finalizer
  *covers* the head when every producer of the head is completed and its latest
  attempt triggered that finalizer or an earlier one. Such a finalizer was created
  after all it will read had become final, so each of its reads agrees with the
  provider for ever after, and so do its observation, the proposal and the check
  (`Faithful`); a higher number covers as well. When a completion leaves no
  producer of the head running, the finalizer it triggers covers the head
  (`DecisionExists`). Nothing stops that one while no runner is lost: main and
  the head are what it was bound to, its evidence is of the attempts it selected,
  and its check is refused only for a listed one of no smaller number, which was
  posted and says the same (`Delivered`). `Order` carries what the argument needs
  of numbers: a finalizer exists only after all smaller ones, and the main and
  head it read lie between those of its trigger and the present ones. A completion that takes the
  coverage away from old finalizers creates a new one, and a push takes
  everything said so far off the head.
- `SettledCheckAgreesHolds`, where any two publishers are the same one: then a
  publisher that posts holds an authority no smaller than the one listed, so the
  check listed is of the highest authority posted, and `AuthorityAgreesHolds` says
  what that is. The assumption is needed, as said under *Findings*.
- `AuthorityNamesOneVerdictHolds`: `publish_pr` compares with the one check it
  reads, where the status reader prefers a terminal one. It may, because what was
  said in the attempt a finalizer is in was said when that attempt was done and
  never changes (`Uttering`): an attempt that was lost has said nothing, and a
  re-run counts the next one.
- `ImplementsImmutableRelease`: the refinement, for any number of publishers,
  assets, deaths and deletions and both kinds of provider. `IInv` says what a
  publisher knows in each phase, that the first asset of a release ties it to
  one transaction (`Seeded`), that the release to be published is complete, and
  that at most one is published. Knowledge survives other publishers' steps
  because tag, assets and identities only accumulate (`Accumulates`).
- `OneTransactionSucceedsHolds`: a publisher that reported success witnessed the
  published transaction, which by the refinement never changes.
- `ExactOperationsConvergeHolds`, for a provider that refuses a second draft: while
  nobody dies or deletes, the listing never shows more than one release, it
  carries the tag, notes and assets of the one transaction, and what a publisher
  has seen or written is still there when it looks again (`ConvergenceInv`). So
  every comparison the code makes comes out equal. `release_ambiguous` violates
  the property on the other kind of provider; the assumption is needed.
- `DraftsStayCompatibleHolds`, for a provider that accepts a second draft: then a
  publisher takes over an existing draft only by way of the comparison of its
  assets, and the first asset, `SHA256SUMS`, ties a draft to one transaction
  before another publisher can find it compatible (`CareInv`). On a provider that
  refuses the second draft the property does not hold: the conflict leads to the
  draft without that comparison, as described under *Findings*.
- `AtomicUnlessInterruptedHolds`: inside the try block each file holds the
  shadow's version if it was promoted and the snapshot otherwise, and `applied`
  says which, except between a write and its recording.
- `OneFileAstrayHolds`: from the same invariant; outside the list of the rollback
  only the file under the write in progress can differ from its snapshot.
- `ChainIsLinearHolds`, `ActiveBuildIsHeldHolds`, `OneRerunPerTransitionHolds` and
  `ImplementsSuccession`, of the rotation, for any number of runners, merges,
  attempts and faults. The hard case is a rotation that publishes after the policy
  was restated. `IInv` says that running rotations exclude each other
  (`SerialPart`), so what one was authorized by stays the end of the chain until
  it publishes (`FlightPart`, `ChainPart`). Only a confirmation moves the end
  meanwhile, and then the transition is absorbed: a commit whose policy names an
  unconfirmed target authorizes none, so what is in flight is older than the
  commit that the confirmation proves (`PolicyPart`). `HeldPart` follows the
  greens of a stage to the receipt: a build that is held is never replaced by
  another of the same commit. `CountPart` says that a callback asks after its
  transition was published, and once: it authenticates only while the attempt
  the transition names is the latest, and its request, whatever attempt it
  meets, leaves a later one.
- `TypeCorrect` of each component.

Every safety invariant and action property of a passing run is proved. The
inductive invariants were checked by TLC on the bounds of the runs before they
were proved.

Checked by TLC only: the liveness properties (`CertificationSettles`,
`VerdictArrives`, `PublicationCompletes`, `RotationSettles`), because the prover
has no rules for fairness and `ENABLED`. `AuthorityAgreesHolds` is the safety half
of `VerdictArrives`: what remains with TLC is that the triggers are handled.
So is the recursive walk of `MCControllerRotation`: that `Linear` and `Head` are
what the loop computes is checked for four commits and not proved.

## Not modelled

`PROJECT.json` lists each component with the reason. In short: validators, the
CI graph compiler, profiles, semantic ownership and environments are pure or
sequential functions of files; the transport is represented by what it lets
happen (lost answers, conflicts); certification of release inputs ends before
the release model begins. Of the rotation, the expiry of receipts after thirty
days, break-glass chains and the repair of a runner by hand are left out. The
repository carries three copies of the runtime and many thousand lines of
validators and generators; the modelled part is a small share of its lines.

## Plan

In this order, the most consequential first:

1. `AdmissionEvaluation`: `evaluate_authority` as operators over a set of
   observations, against a reference definition; composed with
   `StatusPublication` in place of the nondeterministic verdict.
2. Break-glass recovery over `ControllerRotation`, which re-enters its chain, and
   the expiry of receipts.
3. `EvidenceScheduling`: ready sets and resource slots; no evidence runs before
   its inputs, every plan finishes.
4. `EvidenceStorage`: upload, fetch and retention of archives.
5. `LocalAdmission`: the host lock.
6. Proofs: the safety of 1 to 5 as they come.

---------------------- MODULE ReleasePublicationProofs ----------------------
(***************************************************************************)
(* For any number of publishers, transactions, assets, losses, retries and *)
(* deleted drafts, and whether or not the provider accepts duplicate       *)
(* drafts, publication implements ImmutableRelease.                        *)
(*                                                                         *)
(* The tag is checked before any asset is written, and a run that writes   *)
(* knows that its draft carries its own notes.  The checksum file, always  *)
(* the first asset written, therefore ties a draft to one transaction, and *)
(* the inventory check before publication extends that to every asset.     *)
(***************************************************************************)
EXTENDS ReleasePublication, TLAPS

\* What a publisher run knows about the provider in each phase.
SoundRun(p, run) ==
  /\ run \in Run
  /\ run.phase \in {"uploading", "uploaded", "publishing"} => run.draft # 0
  /\ run.phase \in {"uploading", "uploaded"} => run.path \in Paths
  /\ run.phase \in {"creating", "conflicted", "uploading", "uploaded",
                    "checking", "publishing"} => tag = TransactionOf[p].commit
  /\ run.phase \in {"tagging", "tag_absent", "uploading", "uploaded"}
       /\ run.draft # 0
     => /\ releases[run.draft].state # "unborn"
        /\ releases[run.draft].body = TransactionOf[p].body
  /\ run.phase = "publishing" =>
       releases[run.draft].assets = TransactionOf[p].assets

SoundRuns == \A p \in Publishers : SoundRun(p, publisher[p])

\* The checksum file names the transaction a release belongs to.
Seeded(d) ==
  releases[d].assets[1] # Absent =>
    \E t \in Transactions :
      /\ tag = t.commit /\ releases[d].body = t.body
      /\ releases[d].assets[1] = t.assets[1]

Exact(d) ==
  \E t \in Transactions :
    tag = t.commit /\ releases[d].body = t.body /\ releases[d].assets = t.assets

PublishedOnce == \A d, e \in Published : d = e

IInv ==
  /\ TypeOK /\ SoundRuns /\ PublishedOnce
  /\ \A d \in ReleaseIds : Seeded(d)
  /\ \A d \in Published : Exact(d)

\* Provider state only accumulates: a tag, an identity or an asset stays.
Accumulates ==
  /\ tag # Absent => tag' = tag
  /\ \A d \in ReleaseIds :
       /\ releases[d].state # "unborn" =>
            releases'[d].state # "unborn" /\ releases'[d].body = releases[d].body
       /\ \A k \in Paths : releases[d].assets[k] # Absent =>
            releases'[d].assets[k] = releases[d].assets[k]

-----------------------------------------------------------------------------
\* The parts of a transaction are never the mark of absence.
LEMMA TransactionParts ==
  ASSUME NEW t \in Transactions
  PROVE  /\ t \in Transaction
         /\ t.commit \in Commits /\ t.commit # Absent
         /\ t.body \in Bodies /\ t.body # Absent
         /\ t.assets \in [Paths -> Digests]
         /\ \A k \in Paths : t.assets[k] # Absent
         /\ t # Absent
  <1>1. t \in Transaction
    BY ReleaseAssumption DEF Transactions
  <1> QED
    BY <1>1, ReleaseAssumption DEF Transaction

LEMMA HeldTransaction ==
  ASSUME NEW p \in Publishers
  PROVE  TransactionOf[p] \in Transactions
  BY DEF Transactions

\* Knowledge about the provider outlives every step that only accumulates.
LEMMA SoundRunStable ==
  ASSUME TypeOK, TypeOK', Accumulates, NEW p \in Publishers, NEW run,
         SoundRun(p, run)
  PROVE  SoundRun(p, run)'
  <1> DEFINE t == TransactionOf[p]
  <1>1. t.commit # Absent /\ \A k \in Paths : t.assets[k] # Absent
    BY HeldTransaction, TransactionParts
  <1>2. run.phase = "publishing" => releases'[run.draft].assets = t.assets
    <2> SUFFICES ASSUME run.phase = "publishing"
                 PROVE  releases'[run.draft].assets = t.assets
      OBVIOUS
    <2>1. run.draft \in ReleaseIds /\ releases[run.draft].assets = t.assets
      BY DEF SoundRun, Run
    <2>2. \A k \in Paths :
            releases'[run.draft].assets[k] = releases[run.draft].assets[k]
      BY <1>1, <2>1 DEF Accumulates
    <2>3. /\ releases[run.draft].assets \in [Paths -> Digests \cup {Absent}]
          /\ releases'[run.draft].assets \in [Paths -> Digests \cup {Absent}]
      BY <2>1 DEF TypeOK, Release
    <2> QED BY <2>1, <2>2, <2>3
  <1>3. run \in Run
    BY DEF SoundRun
  <1>4. run.draft # 0 => run.draft \in ReleaseIds
    BY <1>3 DEF Run
  <1> QED
    BY <1>1, <1>2, <1>3, <1>4 DEF SoundRun, Accumulates

\* The other runs keep what they know, the one that moved must know it anew.
LEMMA SoundRunsStep ==
  ASSUME TypeOK, SoundRuns, TypeOK', Accumulates,
         NEW p \in Publishers, NEW run, Become(p, run), SoundRun(p, run)'
  PROVE  SoundRuns'
  <1> SUFFICES ASSUME NEW q \in Publishers PROVE SoundRun(q, publisher[q])'
    BY DEF SoundRuns
  <1>1. CASE q = p
    <2>1. publisher'[q] = run
      BY <1>1 DEF Become, TypeOK
    <2> QED BY <1>1, <2>1 DEF SoundRun
  <1>2. CASE q # p
    <2>1. publisher'[q] = publisher[q]
      BY <1>2 DEF Become, TypeOK
    <2>2. PICK known : known = publisher[q]
      OBVIOUS
    <2>3. SoundRun(q, known)
      BY <2>2 DEF SoundRuns
    <2>4. SoundRun(q, known)'
      BY <2>3, SoundRunStable
    <2> QED BY <2>1, <2>2, <2>4 DEF SoundRun
  <1> QED BY <1>1, <1>2

\* A step of one run that leaves the provider alone.
LEMMA LocalStep ==
  ASSUME IInv, NEW p \in Publishers, NEW run, SoundRun(p, run), Become(p, run),
         UNCHANGED <<tag, releases>>,
         losses' \in Nat, retries' \in Nat, deletions' \in Nat
  PROVE  IInv' /\ PublishedTransaction' = PublishedTransaction
  <1>1. TypeOK'
    BY DEF IInv, TypeOK, SoundRun, Become
  <1>2. Accumulates
    BY DEF Accumulates
  <1>3. SoundRun(p, run)'
    BY DEF SoundRun
  <1>4. SoundRuns'
    BY <1>1, <1>2, <1>3, SoundRunsStep DEF IInv
  <1>5. Published' = Published
    BY DEF Published
  <1>6. PublishedOnce' /\ (\A d \in ReleaseIds : Seeded(d)')
        /\ (\A d \in Published' : Exact(d)')
    BY <1>5 DEF IInv, PublishedOnce, Seeded, Exact
  <1>7. PublishedTransaction' = PublishedTransaction
    BY <1>5 DEF PublishedTransaction
  <1> QED BY <1>1, <1>4, <1>6, <1>7 DEF IInv

LEMMA RejectedSound ==
  ASSUME NEW p \in Publishers
  PROVE  /\ SoundRun(p, Rejected) /\ SoundRun(p, Started)
         /\ SoundRun(p, At("lost", 0, 1, {})) /\ SoundRun(p, At("done", 0, 1, {}))
  BY ReleaseAssumption
  DEF SoundRun, Rejected, Started, At, Run, Phases, Scanning, Finished, Paths

\* Moving on to the next asset of a draft known to be one's own.
LEMMA NextAssetSound ==
  ASSUME NEW p \in Publishers, NEW d \in ReleaseIds, NEW k \in Paths,
         NEW seen \in SUBSET Paths, tag = TransactionOf[p].commit,
         releases[d].state # "unborn",
         releases[d].body = TransactionOf[p].body
  PROVE  SoundRun(p, NextAsset(d, k, seen)) /\ SoundRun(p, NextAsset(d, k + 1, seen))
  <1>1. k \in 1 .. (PathCount + 1) /\ k + 1 \in 1 .. (PathCount + 1)
    BY ReleaseAssumption DEF Paths
  <1>2. d # 0
    BY ReleaseAssumption DEF ReleaseIds
  <1>3. ASSUME NEW j \in 1 .. (PathCount + 1)
        PROVE  SoundRun(p, NextAsset(d, j, seen))
    <2>1. CASE j > PathCount
      <3>1. NextAsset(d, j, seen) = At("checking", d, j, seen)
        BY <2>1 DEF NextAsset
      <3> QED
        BY <3>1 DEF SoundRun, At, Run, Phases, Scanning, Finished
    <2>2. CASE ~ (j > PathCount)
      <3>1. NextAsset(d, j, seen) = At("uploading", d, j, seen)
        BY <2>2 DEF NextAsset
      <3>2. j \in Paths
        BY <1>3, <2>2, ReleaseAssumption DEF Paths
      <3> QED
        BY <3>1, <3>2, <1>2 DEF SoundRun, At, Run, Phases, Scanning, Finished
    <2> QED BY <2>1, <2>2
  <1> QED BY <1>1, <1>3

\* Whatever _matching_release finds, the run goes on knowing what it must.
LEMMA ScanSound ==
  ASSUME IInv, NEW p \in Publishers, publisher[p].phase \in Scanning,
         NEW m \in ReleaseIds \cup {0}, m # 0 => m \in Listed
  PROVE  SoundRun(p, Resumed(p, m))
  <1> DEFINE run == publisher[p]
  <1>1. SoundRun(p, run) /\ run \in Run
    BY DEF IInv, SoundRuns, TypeOK
  <1>2. m # 0 => /\ m \in ReleaseIds /\ releases[m].state # "unborn"
                 /\ Observed(m) \in SUBSET Paths
    BY DEF Listed, Observed
  <1>3. 1 \in Paths /\ 1 \in 1 .. (PathCount + 1) /\ {} \in SUBSET Paths
    BY ReleaseAssumption DEF Paths
  <1>4. SoundRun(p, Rejected)
    BY RejectedSound
  <1>5. m # 0 => SoundRun(p, At("inspecting", m, 1, {}))
    BY <1>2, <1>3 DEF SoundRun, At, Run, Phases, Scanning, Finished
  <1>6. CASE run.phase = "existing"
    <2>1. Resumed(p, m) = AfterExisting(p, m)
      BY <1>6 DEF Resumed
    <2>2. SoundRun(p, At("tagging", 0, 1, {}))
      BY <1>3 DEF SoundRun, At, Run, Phases, Scanning, Finished
    <2>3. m # 0 /\ SameRelease(p, m) => SoundRun(p, At("tagging", m, 1, Observed(m)))
      BY <1>2, <1>3
      DEF SameRelease, SoundRun, At, Run, Phases, Scanning, Finished
    <2> QED BY <2>1, <2>2, <2>3, <1>4, <1>5 DEF AfterExisting
  <1>7. CASE run.phase = "conflicted"
    <2>1. Resumed(p, m) = AfterConflict(p, m)
      BY <1>7 DEF Resumed
    <2>2. tag = TransactionOf[p].commit
      BY <1>1, <1>7 DEF SoundRun
    <2>3. m # 0 /\ SameRelease(p, m) => SoundRun(p, NextAsset(m, 1, Observed(m)))
      BY <2>2, <1>2, <1>3, NextAssetSound DEF SameRelease
    <2> QED BY <2>1, <2>3, <1>4, <1>5 DEF AfterConflict
  <1>8. CASE run.phase = "uploaded"
    <2>1. Resumed(p, m) = AfterUpload(p, m)
      BY <1>8 DEF Resumed
    <2>2. /\ tag = TransactionOf[p].commit
          /\ run.draft \in ReleaseIds
          /\ releases[run.draft].state # "unborn"
          /\ releases[run.draft].body = TransactionOf[p].body
      BY <1>1, <1>8 DEF SoundRun, Run
    <2>3. m # 0 /\ releases[m].assets[run.path] = TransactionOf[p].assets[run.path]
          => SoundRun(p, NextAsset(run.draft, run.path + 1, Observed(m)))
      <3> SUFFICES ASSUME m # 0, releases[m].assets[run.path]
                                   = TransactionOf[p].assets[run.path]
                   PROVE  SoundRun(p, NextAsset(run.draft, run.path + 1, Observed(m)))
        OBVIOUS
      <3>1. run.path \in Paths
        BY <1>1, <1>8 DEF SoundRun
      <3> QED BY <3>1, <2>2, <1>2, NextAssetSound
    <2> QED BY <2>1, <2>3, <1>4 DEF AfterUpload
  <1>9. CASE run.phase = "checking"
    <2>1. Resumed(p, m) = AfterCheck(p, m)
      BY <1>9 DEF Resumed
    <2>2. m # 0 /\ releases[m].assets = TransactionOf[p].assets
          => SoundRun(p, At("publishing", m, 1, {}))
      BY <1>1, <1>2, <1>3, <1>9 DEF SoundRun, At, Run, Phases, Scanning, Finished
    <2> QED BY <2>1, <2>2, <1>4, <1>5 DEF AfterCheck
  <1> QED BY <1>6, <1>7, <1>8, <1>9 DEF Scanning

LEMMA InitIInv == Init => IInv
  <1> SUFFICES ASSUME Init PROVE IInv
    OBVIOUS
  <1>1. UnbornRelease \in Release /\ \A k \in Paths : UnbornRelease.assets[k] = Absent
    BY DEF UnbornRelease, Release
  <1>2. \A p \in Publishers : SoundRun(p, publisher[p])
    BY RejectedSound DEF Init
  <1>3. TypeOK
    <2>1. publisher \in [Publishers -> Run]
      BY <1>2 DEF Init, SoundRun
    <2>2. \A p \in Publishers : publisher[p].phase = "existing"
      BY DEF Init, Started, At
    <2> QED BY <2>1, <2>2, <1>1 DEF Init, TypeOK
  <1>4. Published = {}
    BY DEF Published, Init, UnbornRelease
  <1>5. 1 \in Paths
    BY ReleaseAssumption DEF Paths
  <1>6. \A d \in ReleaseIds : Seeded(d)
    BY <1>1, <1>5 DEF Seeded, Init
  <1> QED
    BY <1>2, <1>3, <1>4, <1>6 DEF IInv, SoundRuns, PublishedOnce

-----------------------------------------------------------------------------
(* One lemma per action: it keeps the invariant and either leaves what the *)
(* tag shows alone or publishes one transaction.                           *)

Preserved == IInv' /\ PublishedTransaction' = PublishedTransaction

\* Advancing a phase in place is becoming the run with that phase.
LEMMA PhaseChange ==
  ASSUME TypeOK, NEW p \in Publishers, NEW phase,
         publisher' = [publisher EXCEPT ![p].phase = phase]
  PROVE  Become(p, [publisher[p] EXCEPT !.phase = phase])
  BY DEF TypeOK, Become

LEMMA FindByTagPreserves ==
  ASSUME IInv, NEW p \in Publishers, FindByTag(p) PROVE Preserved
  <1>1. UNCHANGED <<tag, releases>> /\ losses' \in Nat /\ retries' \in Nat
        /\ deletions' \in Nat
    BY DEF FindByTag, bounds, IInv, TypeOK
  <1>2. CASE \E m \in Published : Become(p, Resumed(p, m))
    <2>1. PICK m \in Published : Become(p, Resumed(p, m))
      BY <1>2
    <2>2. m \in ReleaseIds \cup {0} /\ m \in Listed
      BY DEF Published, Listed
    <2>3. SoundRun(p, Resumed(p, m))
      BY <2>2, ScanSound DEF FindByTag
    <2> QED BY <2>1, <2>3, <1>1, LocalStep DEF Preserved
  <1>3. CASE publisher' = [publisher EXCEPT ![p].listing = TRUE]
    <2> DEFINE run == [publisher[p] EXCEPT !.listing = TRUE]
    <2>1. Become(p, run)
      BY <1>3 DEF IInv, TypeOK, Become
    <2>2. SoundRun(p, publisher[p])
      BY DEF IInv, SoundRuns
    <2>3. /\ run \in Run
          /\ run.phase = publisher[p].phase /\ run.draft = publisher[p].draft
          /\ run.path = publisher[p].path
      BY <2>2 DEF SoundRun, Run
    <2>4. SoundRun(p, run)
      BY <2>2, <2>3 DEF SoundRun
    <2> QED BY <2>1, <2>4, <1>1, LocalStep DEF Preserved
  <1> QED BY <1>2, <1>3 DEF FindByTag

LEMMA ListReleasesPreserves ==
  ASSUME IInv, NEW p \in Publishers, ListReleases(p) PROVE Preserved
  <1>1. UNCHANGED <<tag, releases>> /\ losses' \in Nat /\ retries' \in Nat
        /\ deletions' \in Nat
    BY DEF ListReleases, bounds, IInv, TypeOK
  <1>2. PICK run : Become(p, run) /\ SoundRun(p, run)
    <2>1. CASE Listed = {} /\ Become(p, Resumed(p, 0))
      <3>1. SoundRun(p, Resumed(p, 0))
        BY ScanSound DEF ListReleases
      <3> QED BY <2>1, <3>1
    <2>2. CASE \E m \in Listed : Listed = {m} /\ Become(p, Resumed(p, m))
      <3>1. PICK m \in Listed : Become(p, Resumed(p, m))
        BY <2>2
      <3>2. m \in ReleaseIds \cup {0}
        BY DEF Listed
      <3>3. SoundRun(p, Resumed(p, m))
        BY <3>2, ScanSound DEF ListReleases
      <3> QED BY <3>1, <3>3
    <2>3. CASE \E m, n \in Listed : m # n /\ Become(p, Rejected)
      BY <2>3, RejectedSound
    <2> QED BY <2>1, <2>2, <2>3 DEF ListReleases
  <1> QED BY <1>1, <1>2, LocalStep DEF Preserved

\* The run that read `ref` back, when that is what the tag names.
LEMMA AfterTagSound ==
  ASSUME IInv, NEW p \in Publishers, publisher[p].phase \in {"tagging", "tag_absent"},
         NEW ref, tag = ref
  PROVE  SoundRun(p, AfterTag(p, ref))
  <1> DEFINE run == publisher[p]
  <1>1. SoundRun(p, run) /\ run \in Run
    BY DEF IInv, SoundRuns, TypeOK
  <1>2. 1 \in Paths
    BY ReleaseAssumption DEF Paths
  <1>3. ASSUME ref = TransactionOf[p].commit, run.draft = 0
        PROVE  SoundRun(p, At("creating", 0, 1, {}))
    BY <1>2, <1>3, ReleaseAssumption
    DEF SoundRun, At, Run, Phases, Scanning, Finished, Paths
  <1>4. ASSUME ref = TransactionOf[p].commit, run.draft # 0
        PROVE  SoundRun(p, NextAsset(run.draft, 1, run.seen))
    <2>1. run.draft \in ReleaseIds /\ run.seen \in SUBSET Paths
      BY <1>1, <1>4 DEF Run
    <2>2. releases[run.draft].state # "unborn"
          /\ releases[run.draft].body = TransactionOf[p].body
      BY <1>1, <1>4 DEF SoundRun
    <2> QED BY <1>2, <1>4, <2>1, <2>2, NextAssetSound
  <1> QED BY <1>3, <1>4, RejectedSound DEF AfterTag

LEMMA ReadTagPreserves ==
  ASSUME IInv, NEW p \in Publishers, ReadTag(p) PROVE Preserved
  <1>1. UNCHANGED <<tag, releases>> /\ losses' \in Nat /\ retries' \in Nat
        /\ deletions' \in Nat
    BY DEF ReadTag, bounds, IInv, TypeOK
  <1>2. CASE tag = Absent
    <2> DEFINE run == [publisher[p] EXCEPT !.phase = "tag_absent"]
    <2>1. Become(p, run)
      BY <1>2, PhaseChange DEF ReadTag, IInv
    <2>2. SoundRun(p, publisher[p]) /\ publisher[p].phase = "tagging"
      BY DEF IInv, SoundRuns, ReadTag
    <2>3. /\ run \in Run /\ run.phase = "tag_absent"
          /\ run.draft = publisher[p].draft
      BY <2>2 DEF SoundRun, Run, Phases
    <2>4. SoundRun(p, run)
      BY <2>2, <2>3 DEF SoundRun
    <2> QED BY <2>1, <2>4, <1>1, LocalStep DEF Preserved
  <1>3. CASE tag # Absent
    <2>1. Become(p, AfterTag(p, tag)) /\ publisher[p].phase = "tagging"
      BY <1>3 DEF ReadTag
    <2>2. SoundRun(p, AfterTag(p, tag))
      BY <2>1, AfterTagSound
    <2> QED BY <2>1, <2>2, <1>1, LocalStep DEF Preserved
  <1> QED BY <1>2, <1>3

LEMMA SkipAssetPreserves ==
  ASSUME IInv, NEW p \in Publishers, SkipAsset(p) PROVE Preserved
  <1> DEFINE run == publisher[p]
  <1>1. UNCHANGED <<tag, releases>> /\ losses' \in Nat /\ retries' \in Nat
        /\ deletions' \in Nat
    BY DEF SkipAsset, bounds, IInv, TypeOK
  <1>2. SoundRun(p, run) /\ run \in Run /\ run.phase = "uploading"
    BY DEF IInv, SoundRuns, TypeOK, SkipAsset
  <1>3. run.draft \in ReleaseIds /\ run.seen \in SUBSET Paths /\ run.path \in Paths
    BY <1>2 DEF SoundRun, Run
  <1>4. /\ tag = TransactionOf[p].commit
        /\ releases[run.draft].state # "unborn"
        /\ releases[run.draft].body = TransactionOf[p].body
    BY <1>2 DEF SoundRun
  <1>5. SoundRun(p, NextAsset(run.draft, run.path + 1, run.seen))
    BY <1>3, <1>4, NextAssetSound
  <1> QED BY <1>1, <1>5, LocalStep DEF Preserved, SkipAsset

LEMMA InspectReleasePreserves ==
  ASSUME IInv, NEW p \in Publishers, InspectRelease(p) PROVE Preserved
  <1>1. UNCHANGED <<tag, releases>> /\ losses' \in Nat /\ retries' \in Nat
        /\ deletions' \in Nat
    BY DEF InspectRelease, bounds, IInv, TypeOK
  <1>2. PICK run : Become(p, run) /\ SoundRun(p, run)
    BY RejectedSound DEF InspectRelease
  <1> QED BY <1>1, <1>2, LocalStep DEF Preserved

LEMMA LosePublisherPreserves ==
  ASSUME IInv, NEW p \in Publishers, LosePublisher(p) PROVE Preserved
  <1>1. UNCHANGED <<tag, releases>> /\ losses' \in Nat /\ retries' \in Nat
        /\ deletions' \in Nat
    BY DEF LosePublisher, IInv, TypeOK
  <1> QED BY <1>1, RejectedSound, LocalStep DEF Preserved, LosePublisher

LEMMA RetryPublisherPreserves ==
  ASSUME IInv, NEW p \in Publishers, RetryPublisher(p) PROVE Preserved
  <1>1. UNCHANGED <<tag, releases>> /\ losses' \in Nat /\ retries' \in Nat
        /\ deletions' \in Nat
    BY DEF RetryPublisher, IInv, TypeOK
  <1> QED BY <1>1, RejectedSound, LocalStep DEF Preserved, RetryPublisher

\* What the tag shows depends only on the published release.
LEMMA SameShown ==
  ASSUME Published' = Published,
         \A d \in Published : /\ tag' = tag
                              /\ releases'[d].body = releases[d].body
                              /\ releases'[d].assets = releases[d].assets
  PROVE  PublishedTransaction' = PublishedTransaction
  <1>1. CASE Published = {}
    BY <1>1 DEF PublishedTransaction
  <1>2. CASE Published # {}
    <2> DEFINE d == CHOOSE d \in Published : TRUE
    <2>1. d \in Published
      BY <1>2
    <2>2. PublishedTransaction =
            [commit |-> tag, body |-> releases[d].body, assets |-> releases[d].assets]
      BY <1>2 DEF PublishedTransaction
    <2>3. PublishedTransaction' =
            [commit |-> tag', body |-> releases'[d].body, assets |-> releases'[d].assets]
      BY <1>2 DEF PublishedTransaction
    <2> QED BY <2>1, <2>2, <2>3
  <1> QED BY <1>1, <1>2

\* Seeds outlive whatever leaves the checksum file and the body of d alone.
LEMMA SeededStable ==
  ASSUME Accumulates, NEW d \in ReleaseIds, Seeded(d),
         releases'[d].assets[1] = releases[d].assets[1],
         releases'[d].body = releases[d].body
  PROVE  Seeded(d)'
  BY TransactionParts DEF Seeded, Accumulates

LEMMA ExactStable ==
  ASSUME Accumulates, NEW d \in ReleaseIds, Exact(d),
         releases'[d].assets = releases[d].assets,
         releases'[d].body = releases[d].body
  PROVE  Exact(d)' /\ tag' = tag
  BY TransactionParts DEF Exact, Accumulates

LEMMA CreateTagPreserves ==
  ASSUME IInv, NEW p \in Publishers, CreateTag(p) PROVE Preserved
  <1>1. /\ releases' = releases /\ Become(p, AfterTag(p, tag'))
        /\ losses' = losses /\ retries' = retries /\ deletions' = deletions
        /\ publisher[p].phase = "tag_absent"
    BY DEF CreateTag, bounds
  <1>2. tag' \in Commits /\ (tag # Absent => tag' = tag)
    BY HeldTransaction, TransactionParts DEF CreateTag, IInv, TypeOK
  <1>3. Accumulates
    BY <1>1, <1>2 DEF Accumulates
  <1>4. PICK known : known = publisher[p] /\ SoundRun(p, known)
    BY DEF IInv, SoundRuns
  <1>5. PICK run : run = AfterTag(p, tag')
    OBVIOUS
  <1>6. SoundRun(p, run)'
    <2>1. 1 \in Paths /\ 1 \in 1 .. (PathCount + 1) /\ ~ (1 > PathCount)
      BY ReleaseAssumption DEF Paths
    <2>2. CASE run = Rejected
      BY <2>1, <2>2
      DEF SoundRun, Rejected, At, Run, Phases, Scanning, Finished
    <2>3. CASE tag' = TransactionOf[p].commit /\ run = At("creating", 0, 1, {})
      BY <2>1, <2>3
      DEF SoundRun, At, Run, Phases, Scanning, Finished
    <2>4. CASE /\ tag' = TransactionOf[p].commit /\ known.draft # 0
               /\ run = At("uploading", known.draft, 1, known.seen)
      <3>1. known.draft \in ReleaseIds /\ known.seen \in SUBSET Paths
        BY <1>4, <2>4 DEF SoundRun, Run
      <3>2. releases[known.draft].state # "unborn"
            /\ releases[known.draft].body = TransactionOf[p].body
        BY <1>1, <1>4, <2>4 DEF SoundRun
      <3>3. run \in Run
        BY <2>1, <2>4, <3>1 DEF At, Run, Phases, Scanning, Finished
      <3>4. /\ run.phase = "uploading" /\ run.draft = known.draft
            /\ run.path = 1
        BY <2>4 DEF At
      <3> QED
        BY <1>1, <2>1, <2>4, <3>2, <3>3, <3>4 DEF SoundRun
    <2>5. NextAsset(known.draft, 1, known.seen)
            = At("uploading", known.draft, 1, known.seen)
      BY <2>1 DEF NextAsset
    <2> QED BY <1>4, <1>5, <2>2, <2>3, <2>4, <2>5 DEF AfterTag
  <1>7. TypeOK'
    <2>1. run \in Run
      BY <1>6 DEF SoundRun
    <2>2. run.phase \in {"uploading", "uploaded", "publishing"} => run.draft # 0
      BY <1>6 DEF SoundRun
    <2> QED BY <1>1, <1>2, <1>5, <2>1, <2>2 DEF IInv, TypeOK, Become
  <1>8. SoundRuns'
    BY <1>1, <1>3, <1>5, <1>6, <1>7, SoundRunsStep DEF IInv
  <1>9. Published' = Published
    BY <1>1 DEF Published
  <1>10. \A d \in ReleaseIds : Seeded(d)'
    BY <1>1, <1>3, SeededStable DEF IInv
  <1>11. \A d \in Published : Exact(d)' /\ tag' = tag
    BY <1>1, <1>3, ExactStable DEF IInv, Published
  <1>12. PublishedTransaction' = PublishedTransaction
    BY <1>1, <1>9, <1>11, SameShown
  <1>13. PublishedOnce' /\ (\A d \in Published' : Exact(d)')
    BY <1>9, <1>11 DEF IInv, PublishedOnce
  <1> QED
    BY <1>7, <1>8, <1>10, <1>12, <1>13 DEF IInv, Preserved

\* A step that changes releases no one published, and nothing else that is shown.
LEMMA DraftStep ==
  ASSUME IInv, TypeOK', SoundRuns', Accumulates, tag' = tag,
         Published' = Published,
         \A d \in ReleaseIds : Seeded(d)',
         \A d \in Published : releases'[d] = releases[d]
  PROVE  Preserved
  <1>1. \A d \in Published : d \in ReleaseIds
    BY DEF Published
  <1>2. \A d \in Published : Exact(d)'
    BY <1>1, ExactStable DEF IInv
  <1>3. PublishedTransaction' = PublishedTransaction
    BY SameShown
  <1> QED
    BY <1>2, <1>3 DEF Preserved, IInv, PublishedOnce

LEMMA DeleteDraftPreserves ==
  ASSUME IInv, NEW d \in ReleaseIds, DeleteDraft(d) PROVE Preserved
  <1>1. /\ releases[d].state = "draft"
        /\ releases' = [releases EXCEPT ![d].state = "deleted"]
        /\ UNCHANGED <<tag, publisher, losses, retries>>
        /\ deletions' = deletions + 1
    BY DEF DeleteDraft
  <1>2. releases \in [ReleaseIds -> Release]
    BY DEF IInv, TypeOK
  <1>3. \A e \in ReleaseIds :
          /\ releases'[e].body = releases[e].body
          /\ releases'[e].assets = releases[e].assets
          /\ e # d => releases'[e] = releases[e]
          /\ e = d => releases'[e].state = "deleted"
    BY <1>1, <1>2 DEF Release
  <1>4. releases' \in [ReleaseIds -> Release]
    BY <1>1, <1>2 DEF Release
  <1>5. TypeOK'
    BY <1>1, <1>4 DEF IInv, TypeOK
  <1>6. Accumulates
    BY <1>1, <1>3 DEF Accumulates
  <1>7. SoundRuns'
    <2> SUFFICES ASSUME NEW q \in Publishers PROVE SoundRun(q, publisher[q])'
      BY DEF SoundRuns
    <2>1. PICK known : known = publisher[q] /\ SoundRun(q, known)
      BY DEF IInv, SoundRuns
    <2>2. SoundRun(q, known)'
      BY <2>1, <1>5, <1>6, SoundRunStable DEF IInv
    <2> QED BY <1>1, <2>1, <2>2 DEF SoundRun
  <1>8. Published' = Published /\ d \notin Published
    BY <1>1, <1>3 DEF Published
  <1>9. \A e \in ReleaseIds : Seeded(e)'
    BY <1>3, <1>6, SeededStable DEF IInv
  <1>10. \A e \in Published : releases'[e] = releases[e]
    BY <1>3, <1>8 DEF Published
  <1> QED
    BY <1>1, <1>5, <1>6, <1>7, <1>8, <1>9, <1>10, DraftStep
LEMMA CreateDraftPreserves ==
  ASSUME IInv, NEW p \in Publishers, CreateDraft(p) PROVE Preserved
  <1>1. /\ publisher[p].phase = "creating" /\ tag' = tag
        /\ losses' = losses /\ retries' = retries /\ deletions' = deletions
    BY DEF CreateDraft, bounds
  <1>2. tag = TransactionOf[p].commit
    BY <1>1 DEF IInv, SoundRuns, SoundRun
  <1>3. 1 \in Paths /\ 1 \in 1 .. (PathCount + 1)
    BY ReleaseAssumption DEF Paths
  <1>4. CASE Become(p, At("conflicted", 0, 1, {})) /\ UNCHANGED releases
    <2>1. SoundRun(p, At("conflicted", 0, 1, {}))
      BY <1>2, <1>3 DEF SoundRun, At, Run, Phases, Scanning, Finished
    <2> QED
      BY <1>1, <1>4, <2>1, LocalStep DEF Preserved, IInv, TypeOK
  <1>5. CASE \E d \in ReleaseIds :
               /\ releases[d] = UnbornRelease
               /\ releases' = [releases EXCEPT ![d] =
                    [UnbornRelease EXCEPT !.state = "draft",
                                          !.body = TransactionOf[p].body]]
               /\ Become(p, NextAsset(d, 1, {}))
    <2> DEFINE draft == [UnbornRelease EXCEPT !.state = "draft",
                                              !.body = TransactionOf[p].body]
    <2>1. PICK d \in ReleaseIds :
            /\ releases[d] = UnbornRelease
            /\ releases' = [releases EXCEPT ![d] = draft]
            /\ Become(p, NextAsset(d, 1, {}))
      BY <1>5
    <2>2. releases \in [ReleaseIds -> Release]
      BY DEF IInv, TypeOK
    <2>3. /\ draft \in Release /\ draft.state = "draft"
          /\ draft.body = TransactionOf[p].body
          /\ draft.assets = UnbornRelease.assets
          /\ \A k \in Paths : UnbornRelease.assets[k] = Absent
      BY HeldTransaction, TransactionParts DEF UnbornRelease, Release
    <2>4. /\ releases'[d] = draft /\ releases' \in [ReleaseIds -> Release]
          /\ \A e \in ReleaseIds : e # d => releases'[e] = releases[e]
      BY <2>1, <2>2, <2>3
    <2>5. UnbornRelease.state = "unborn"
      BY DEF UnbornRelease
    <2>6. Accumulates
      BY <1>1, <2>1, <2>3, <2>4, <2>5 DEF Accumulates
    <2>7. PICK run : run = NextAsset(d, 1, {})
      OBVIOUS
    <2>8. SoundRun(p, run)'
      <3>1. run = At("uploading", d, 1, {}) /\ d # 0
        BY <2>7, ReleaseAssumption DEF NextAsset, ReleaseIds
      <3>2. /\ run \in Run /\ run.phase = "uploading" /\ run.draft = d
            /\ run.path = 1
        BY <1>3, <3>1 DEF At, Run, Phases
      <3> QED
        BY <1>1, <1>2, <1>3, <2>3, <2>4, <3>1, <3>2 DEF SoundRun
    <2>9. TypeOK'
      <3>1. run \in Run
        BY <2>8 DEF SoundRun
      <3>2. run.phase \in {"uploading", "uploaded", "publishing"} => run.draft # 0
        BY <2>8 DEF SoundRun
      <3> QED BY <1>1, <2>1, <2>4, <2>7, <3>1, <3>2 DEF IInv, TypeOK, Become
    <2>10. SoundRuns'
      BY <2>1, <2>6, <2>7, <2>8, <2>9, SoundRunsStep DEF IInv
    <2>11. Published' = Published /\ d \notin Published
      BY <2>1, <2>3, <2>4, <2>5 DEF Published
    <2>12. ASSUME NEW e \in ReleaseIds PROVE Seeded(e)'
      <3>1. CASE e = d
        BY <1>3, <2>3, <2>4, <3>1 DEF Seeded
      <3>2. CASE e # d
        BY <2>4, <2>6, <3>2, SeededStable DEF IInv
      <3> QED BY <3>1, <3>2
    <2>13. \A e \in Published : releases'[e] = releases[e]
      BY <2>4, <2>11 DEF Published
    <2> QED
      BY <1>1, <2>6, <2>9, <2>10, <2>11, <2>12, <2>13, DraftStep
  <1> QED BY <1>4, <1>5 DEF CreateDraft

\* The first asset written ties the draft to this run's transaction.
LEMMA UploadAssetPreserves ==
  ASSUME IInv, NEW p \in Publishers, UploadAsset(p) PROVE Preserved
  <1>1. PICK known : known = publisher[p] /\ SoundRun(p, known)
    BY DEF IInv, SoundRuns
  <1> DEFINE d == known.draft
             k == known.path
             t == TransactionOf[p]
             run == [known EXCEPT !.phase = "uploaded"]
  <1>2. /\ known.phase = "uploading" /\ tag' = tag
        /\ losses' = losses /\ retries' = retries /\ deletions' = deletions
    BY <1>1 DEF UploadAsset, bounds
  <1>3. /\ known \in Run /\ d \in ReleaseIds /\ d # 0 /\ k \in Paths
        /\ tag = t.commit
        /\ releases[d].state # "unborn" /\ releases[d].body = t.body
    BY <1>1, <1>2 DEF SoundRun, Run
  <1>4. /\ run \in Run /\ run.phase = "uploaded" /\ run.draft = d /\ run.path = k
    BY <1>3 DEF Run, Phases, Scanning
  <1>5. SoundRun(p, run)
    BY <1>3, <1>4 DEF SoundRun
  <1>6. CASE Become(p, Rejected) /\ UNCHANGED releases
    BY <1>2, <1>6, RejectedSound, LocalStep DEF Preserved, IInv, TypeOK
  <1>7. CASE publisher' = [publisher EXCEPT ![p].phase = "uploaded"]
             /\ UNCHANGED releases
    <2>1. Become(p, run)
      BY <1>1, <1>7, PhaseChange DEF IInv
    <2> QED
      BY <1>2, <1>5, <1>7, <2>1, LocalStep DEF Preserved, IInv, TypeOK
  <1>8. CASE /\ publisher' = [publisher EXCEPT ![p].phase = "uploaded"]
             /\ releases[d].state = "draft" /\ releases[d].assets[k] = Absent
             /\ releases' = [releases EXCEPT ![d] =
                  WithAsset(releases[d], k, t.assets[k])]
    <2>1. Become(p, run)
      BY <1>1, <1>8, PhaseChange DEF IInv
    <2>2. releases \in [ReleaseIds -> Release] /\ releases[d] \in Release
      BY <1>3 DEF IInv, TypeOK
    <2>3. t \in Transactions /\ t.assets[k] \in Digests
      BY <1>3, HeldTransaction, TransactionParts
    <2>4. PICK written : written = WithAsset(releases[d], k, t.assets[k])
      OBVIOUS
    <2>5. /\ written \in Release /\ written.state = "draft"
          /\ written.body = releases[d].body
          /\ written.assets = [releases[d].assets EXCEPT ![k] = t.assets[k]]
      BY <1>8, <2>2, <2>3, <2>4 DEF WithAsset, Release
    <2>6. /\ written.assets[k] = t.assets[k]
          /\ \A j \in Paths : j # k => written.assets[j] = releases[d].assets[j]
      BY <1>3, <2>2, <2>5 DEF Release
    <2>7. /\ releases'[d] = written /\ releases' \in [ReleaseIds -> Release]
          /\ \A e \in ReleaseIds : e # d => releases'[e] = releases[e]
      BY <1>3, <1>8, <2>2, <2>4, <2>5
    <2>8. Accumulates
      <3>1. ASSUME NEW e \in ReleaseIds
            PROVE  /\ releases[e].state # "unborn" =>
                        releases'[e].state # "unborn"
                        /\ releases'[e].body = releases[e].body
                   /\ \A j \in Paths : releases[e].assets[j] # Absent =>
                        releases'[e].assets[j] = releases[e].assets[j]
        BY <1>8, <2>5, <2>6, <2>7
      <3> QED BY <1>2, <3>1 DEF Accumulates
    <2>9. TypeOK'
      <3>1. publisher' = [publisher EXCEPT ![p] = run]
        BY <2>1 DEF Become
      <3>2. publisher' \in [Publishers -> Run]
        BY <1>4, <3>1 DEF IInv, TypeOK
      <3>3. \A q \in Publishers :
              publisher'[q].phase \in {"uploading", "uploaded", "publishing"} =>
                publisher'[q].draft # 0
        <4>1. publisher'[p] = run
          BY <3>1 DEF IInv, TypeOK
        <4>2. \A q \in Publishers : q # p => publisher'[q] = publisher[q]
          BY <3>1 DEF IInv, TypeOK
        <4>3. run.draft # 0
          BY <1>3, <1>4
        <4> QED BY <4>1, <4>2, <4>3 DEF IInv, TypeOK
      <3> QED BY <1>2, <2>7, <3>2, <3>3 DEF IInv, TypeOK
    <2>10. PICK next : next = run
      OBVIOUS
    <2>11. SoundRun(p, next)'
      BY <1>5, <2>8, <2>9, <2>10, SoundRunStable DEF IInv
    <2>12. SoundRuns'
      BY <2>1, <2>8, <2>9, <2>10, <2>11, SoundRunsStep DEF IInv
    <2>13. Published' = Published /\ d \notin Published
      BY <1>8, <2>5, <2>7 DEF Published
    <2>14. ASSUME NEW e \in ReleaseIds PROVE Seeded(e)'
      <3>1. CASE e = d /\ k = 1
        BY <1>2, <1>3, <2>3, <2>5, <2>6, <2>7, <3>1 DEF Seeded
      <3>2. CASE ~ (e = d /\ k = 1)
        <4>1. 1 \in Paths
          BY ReleaseAssumption DEF Paths
        <4>2. releases'[e].assets[1] = releases[e].assets[1]
              /\ releases'[e].body = releases[e].body
          BY <2>5, <2>6, <2>7, <3>2, <4>1
        <4> QED BY <2>8, <4>2, SeededStable DEF IInv
      <3> QED BY <3>1, <3>2
    <2>15. \A e \in Published : releases'[e] = releases[e]
      BY <2>7, <2>13 DEF Published
    <2> QED
      BY <1>2, <2>8, <2>9, <2>12, <2>13, <2>14, <2>15, DraftStep
  <1> QED BY <1>1, <1>6, <1>7, <1>8 DEF UploadAsset

\* Publication is the step of the promise.
Publishes == /\ IInv' /\ PublishedTransaction = Absent
             /\ PublishedTransaction' \in Transactions

\* An exact inventory and the seed make the draft exactly one transaction.
LEMMA PublishDraftPreserves ==
  ASSUME IInv, NEW p \in Publishers, PublishDraft(p) PROVE Preserved \/ Publishes
  <1>1. PICK known : known = publisher[p] /\ SoundRun(p, known)
    BY DEF IInv, SoundRuns
  <1> DEFINE d == known.draft
             t == TransactionOf[p]
  <1>2. /\ known.phase = "publishing" /\ tag' = tag
        /\ losses' = losses /\ retries' = retries /\ deletions' = deletions
    BY <1>1 DEF PublishDraft, bounds
  <1>3. /\ d \in ReleaseIds /\ releases[d].assets = t.assets
        /\ tag = t.commit /\ 1 \in Paths
    BY <1>1, <1>2, ReleaseAssumption DEF SoundRun, Run, Paths
  <1>4. PICK run : run = At("inspecting", d, 1, {})
    OBVIOUS
  <1>5. SoundRun(p, run) /\ run \in Run /\ run.phase = "inspecting"
    <2>1. 1 \in 1 .. (PathCount + 1)
      BY ReleaseAssumption
    <2>2. run \in Run /\ run.phase = "inspecting"
      BY <1>3, <1>4, <2>1 DEF At, Run, Phases
    <2> QED BY <2>2 DEF SoundRun
  <1>6. CASE Become(p, Rejected) /\ UNCHANGED releases
    BY <1>2, <1>6, RejectedSound, LocalStep DEF Preserved, IInv, TypeOK
  <1>7. CASE Become(p, run) /\ UNCHANGED releases
    BY <1>2, <1>5, <1>7, LocalStep DEF Preserved, IInv, TypeOK
  <1>8. CASE /\ Become(p, run) /\ Published = {}
             /\ releases' = [releases EXCEPT ![d].state = "published"]
             /\ releases[d].state # "deleted"
    <2>1. releases \in [ReleaseIds -> Release]
      BY DEF IInv, TypeOK
    <2>2. /\ releases' \in [ReleaseIds -> Release]
          /\ releases'[d].state = "published"
          /\ \A e \in ReleaseIds :
               /\ releases'[e].body = releases[e].body
               /\ releases'[e].assets = releases[e].assets
               /\ e # d => releases'[e].state = releases[e].state
      BY <1>3, <1>8, <2>1 DEF Release
    <2>3. Accumulates
      BY <1>2, <2>2 DEF Accumulates
    <2>4. TypeOK'
      BY <1>2, <1>5, <1>8, <2>2 DEF IInv, TypeOK, Become
    <2>5. SoundRuns'
      BY <1>5, <1>8, <2>3, <2>4, SoundRunStable, SoundRunsStep DEF IInv
    <2>6. Published' = {d}
      BY <1>3, <1>8, <2>2 DEF Published
    <2>7. \A e \in ReleaseIds : Seeded(e)'
      BY <2>2, <2>3, SeededStable DEF IInv
    <2>8. PICK u \in Transactions :
            /\ tag = u.commit /\ releases[d].body = u.body
            /\ releases[d].assets = u.assets
      <3>1. t \in Transactions /\ t.assets[1] # Absent
        BY <1>3, HeldTransaction, TransactionParts
      <3>2. PICK u \in Transactions :
              /\ tag = u.commit /\ releases[d].body = u.body
              /\ releases[d].assets[1] = u.assets[1]
        BY <1>3, <3>1 DEF IInv, Seeded
      <3>3. u.assets = t.assets
        BY <1>3, <3>1, <3>2, ChecksumsAssumption
      <3> QED BY <1>3, <3>2, <3>3
    <2>9. Exact(d)'
      BY <1>2, <1>3, <2>2, <2>8 DEF Exact
    <2>10. PublishedOnce' /\ \A e \in Published' : Exact(e)'
      <3>1. PublishedOnce'
        BY <2>6 DEF PublishedOnce
      <3> QED BY <2>6, <2>9, <3>1
    <2>11. PublishedTransaction = Absent
      BY <1>8 DEF PublishedTransaction
    <2>12. PublishedTransaction' = u
      <3>1. PublishedTransaction' =
              [commit |-> tag', body |-> releases'[d].body,
               assets |-> releases'[d].assets]
        BY <2>6 DEF PublishedTransaction
      <3>2. u \in Transaction
        BY <2>8, TransactionParts
      <3>3. u = [commit |-> u.commit, body |-> u.body, assets |-> u.assets]
        BY <3>2 DEF Transaction
      <3> QED BY <1>2, <1>3, <2>2, <2>8, <3>1, <3>3
    <2> QED
      BY <2>4, <2>5, <2>7, <2>8, <2>10, <2>11, <2>12 DEF IInv, Publishes
  <1>9. \/ Become(p, Rejected) /\ UNCHANGED releases
        \/ /\ Become(p, run)
           /\ releases[d].state # "deleted"
           /\ releases' = IF Published = {}
                            THEN [releases EXCEPT ![d].state = "published"]
                            ELSE releases
    BY <1>1, <1>4 DEF PublishDraft
  <1> QED BY <1>6, <1>7, <1>8, <1>9

LEMMA NextStep == IInv /\ [Next]_vars => Preserved \/ Publishes
  <1> SUFFICES ASSUME IInv, [Next]_vars PROVE Preserved \/ Publishes
    OBVIOUS
  <1>1. ASSUME NEW p \in Publishers, PublishRelease(p) PROVE Preserved \/ Publishes
    BY <1>1, FindByTagPreserves, ListReleasesPreserves, ReadTagPreserves,
       CreateTagPreserves, CreateDraftPreserves, SkipAssetPreserves,
       UploadAssetPreserves, PublishDraftPreserves, InspectReleasePreserves
    DEF PublishRelease
  <1>2. ASSUME NEW p \in Publishers, LosePublisher(p) PROVE Preserved
    BY <1>2, LosePublisherPreserves
  <1>3. ASSUME NEW p \in Publishers, RetryPublisher(p) PROVE Preserved
    BY <1>3, RetryPublisherPreserves
  <1>4. ASSUME NEW d \in ReleaseIds, DeleteDraft(d) PROVE Preserved
    BY <1>4, DeleteDraftPreserves
  <1>5. CASE UNCHANGED vars
    BY <1>5
    DEF vars, Preserved, IInv, TypeOK, SoundRuns, SoundRun, PublishedOnce,
        Published, Seeded, Exact, PublishedTransaction
  <1> QED BY <1>1, <1>2, <1>3, <1>4, <1>5 DEF Next

LEMMA Invariant == Spec => []IInv
  <1>1. IInv /\ [Next]_vars => IInv'
    BY NextStep DEF Preserved, Publishes
  <1> QED BY <1>1, InitIInv, PTL DEF Spec

\* Every reachable state has the shape the provider and publish_release give it.
THEOREM TypeCorrect == Spec => []TypeOK
  <1>1. IInv => TypeOK
    BY DEF IInv
  <1> QED BY <1>1, Invariant, PTL

\* However many publish_release runs race, die, retry or lose their drafts, a tag
\* shows no release or exactly one run's transaction, and never changes again.
THEOREM ImplementsImmutableRelease == Spec => PublishesOneTransaction
  <1>1. Init => Promise!Init
    BY DEF Init, Promise!Init, PublishedTransaction, Published, UnbornRelease
  <1>2. IInv /\ [Next]_vars => [Promise!Next]_PublishedTransaction
    <2> SUFFICES ASSUME IInv, [Next]_vars
                 PROVE  [Promise!Next]_PublishedTransaction
      OBVIOUS
    <2>1. CASE Preserved
      BY <2>1 DEF Preserved
    <2>2. CASE Publishes
      BY <2>2 DEF Publishes, Promise!Next, Promise!Publish
    <2> QED BY <2>1, <2>2, NextStep
  <1> QED
    BY <1>1, <1>2, Invariant, PTL DEF Spec, PublishesOneTransaction, Promise!Spec

-----------------------------------------------------------------------------
\* A run that reported success holds what the tag shows.
Witnessed(p) ==
  publisher[p].phase = "done" =>
    /\ PublishedTransaction # Absent
    /\ PublishedTransaction.commit = TransactionOf[p].commit
    /\ PublishedTransaction.assets = TransactionOf[p].assets

WitnessInv == IInv /\ \A p \in Publishers : Witnessed(p)

LEMMA NeverDone ==
  ASSUME NEW p \in Publishers, NEW m, NEW ref, NEW k, NEW seen, NEW d
  PROVE  /\ publisher[p].phase \in Scanning => Resumed(p, m).phase # "done"
         /\ AfterTag(p, ref).phase # "done"
         /\ NextAsset(d, k, seen).phase # "done"
  <1>1. \A draft, path, observed : NextAsset(draft, path, observed).phase # "done"
    BY DEF NextAsset, At
  <1>2. Rejected.phase # "done"
    BY DEF Rejected, At
  <1>3. AfterExisting(p, m).phase # "done"
    BY <1>2 DEF AfterExisting, At
  <1>4. AfterConflict(p, m).phase # "done"
    BY <1>1, <1>2 DEF AfterConflict, At
  <1>5. AfterUpload(p, m).phase # "done"
    BY <1>1, <1>2 DEF AfterUpload
  <1>6. AfterCheck(p, m).phase # "done"
    BY <1>2 DEF AfterCheck, At
  <1>7. publisher[p].phase \in Scanning => Resumed(p, m).phase # "done"
    BY <1>3, <1>4, <1>5, <1>6 DEF Resumed, Scanning
  <1>8. AfterTag(p, ref).phase # "done"
    BY <1>1, <1>2 DEF AfterTag, At
  <1> QED BY <1>1, <1>7, <1>8

\* Only the final inspection reports success.
LEMMA DoneByInspection ==
  ASSUME IInv, NEW p \in Publishers, NEW q \in Publishers, PublishRelease(q),
         publisher'[p].phase = "done", publisher[p].phase # "done"
  PROVE  p = q /\ InspectRelease(p)
  <1> DEFINE Moves(run) == run.phase # "done" /\ Become(q, run)
  <1>1. ASSUME NEW run, Moves(run) PROVE FALSE
    <2>1. publisher' = [publisher EXCEPT ![q] = run]
      BY <1>1 DEF Become
    <2>2. publisher'[p] = publisher[p] \/ publisher'[p] = run
      BY <2>1 DEF IInv, TypeOK
    <2> QED BY <1>1, <2>2
  <1>2. ASSUME NEW phase, phase # "done",
               publisher' = [publisher EXCEPT ![q].phase = phase]
        PROVE  FALSE
    BY <1>2 DEF IInv, TypeOK, Run
  <1>3. ~ FindByTag(q)
    <2> SUFFICES ASSUME FindByTag(q) PROVE FALSE
      OBVIOUS
    <2>1. CASE \E m \in Published : Become(q, Resumed(q, m))
      BY <2>1, <1>1, NeverDone DEF FindByTag
    <2>2. CASE publisher' = [publisher EXCEPT ![q].listing = TRUE]
      BY <2>2 DEF IInv, TypeOK, Run
    <2> QED BY <2>1, <2>2 DEF FindByTag
  <1>4. Rejected.phase # "done"
    BY DEF Rejected, At
  <1>5. ~ ListReleases(q)
    <2> SUFFICES ASSUME ListReleases(q) PROVE FALSE
      OBVIOUS
    <2>1. CASE \E m : Become(q, Resumed(q, m))
      BY <2>1, <1>1, NeverDone DEF ListReleases
    <2>2. CASE Become(q, Rejected)
      BY <2>2, <1>1, <1>4
    <2> QED BY <2>1, <2>2 DEF ListReleases
  <1>6. ~ ReadTag(q)
    BY <1>1, <1>2, NeverDone DEF ReadTag
  <1>7. ~ CreateTag(q)
    <2> SUFFICES ASSUME CreateTag(q) PROVE FALSE
      OBVIOUS
    <2>1. PICK ref : Become(q, AfterTag(q, ref))
      BY DEF CreateTag
    <2> QED BY <2>1, <1>1, NeverDone
  <1>8. ~ CreateDraft(q)
    <2> SUFFICES ASSUME CreateDraft(q) PROVE FALSE
      OBVIOUS
    <2>1. CASE Become(q, At("conflicted", 0, 1, {}))
      BY <2>1, <1>1 DEF At
    <2>2. CASE \E d \in ReleaseIds : Become(q, NextAsset(d, 1, {}))
      BY <2>2, <1>1, NeverDone
    <2> QED BY <2>1, <2>2 DEF CreateDraft
  <1>9. ~ SkipAsset(q)
    BY <1>1, NeverDone DEF SkipAsset
  <1>10. ~ UploadAsset(q)
    BY <1>1, <1>2, <1>4 DEF UploadAsset
  <1>11. ~ PublishDraft(q)
    <2>1. \A d : At("inspecting", d, 1, {}).phase # "done"
      BY DEF At
    <2> QED BY <1>1, <1>4, <2>1 DEF PublishDraft
  <1>12. InspectRelease(q)
    BY <1>3, <1>5, <1>6, <1>7, <1>8, <1>9, <1>10, <1>11 DEF PublishRelease
  <1>13. p = q
    BY <1>12 DEF InspectRelease, Become, IInv, TypeOK
  <1> QED BY <1>12, <1>13

\* What a successful inspection saw is what the tag shows.
LEMMA InspectionWitnesses ==
  ASSUME IInv, NEW p \in Publishers, InspectRelease(p), publisher'[p].phase = "done"
  PROVE  /\ PublishedTransaction # Absent
         /\ PublishedTransaction.commit = TransactionOf[p].commit
         /\ PublishedTransaction.assets = TransactionOf[p].assets
  <1>1. PICK run : Become(p, run) /\ run =
          IF /\ tag = TransactionOf[p].commit
             /\ \E d \in Published : releases[d].assets = TransactionOf[p].assets
            THEN At("done", 0, 1, {}) ELSE Rejected
    BY DEF InspectRelease
  <1>2. publisher'[p] = run /\ Rejected.phase # "done"
    BY <1>1 DEF Become, IInv, TypeOK, Rejected, At
  <1>3. PICK d \in Published : releases[d].assets = TransactionOf[p].assets
    BY <1>1, <1>2
  <1>4. tag = TransactionOf[p].commit
    BY <1>1, <1>2
  <1> DEFINE e == CHOOSE e \in Published : TRUE
  <1>5. e = d
    BY <1>3 DEF IInv, PublishedOnce
  <1>6. PublishedTransaction =
          [commit |-> tag, body |-> releases[d].body, assets |-> releases[d].assets]
    BY <1>3, <1>5 DEF PublishedTransaction
  <1>7. Exact(d)
    BY <1>3 DEF IInv
  <1>8. PICK t \in Transactions : PublishedTransaction = t
    <2>1. PICK t \in Transactions : tag = t.commit /\ releases[d].body = t.body
                                   /\ releases[d].assets = t.assets
      BY <1>7 DEF Exact
    <2>2. t = [commit |-> t.commit, body |-> t.body, assets |-> t.assets]
      BY <2>1, TransactionParts DEF Transaction
    <2> QED BY <1>6, <2>1, <2>2
  <1>9. PublishedTransaction # Absent
    BY <1>8, TransactionParts
  <1> QED BY <1>3, <1>4, <1>6, <1>9

LEMMA WitnessStep == WitnessInv /\ [Next]_vars => WitnessInv'
  <1> SUFFICES ASSUME WitnessInv, [Next]_vars PROVE WitnessInv'
    OBVIOUS
  <1>1. IInv /\ IInv'
    BY NextStep DEF WitnessInv, Preserved, Publishes
  <1>2. ASSUME NEW p \in Publishers, publisher'[p].phase = "done",
               publisher[p].phase = "done"
        PROVE  Witnessed(p)'
    <2>1. PublishedTransaction # Absent
      BY <1>2 DEF WitnessInv, Witnessed
    <2>2. PublishedTransaction' = PublishedTransaction
      BY <1>1, <2>1, NextStep DEF Preserved, Publishes
    <2> QED BY <1>2, <2>2 DEF WitnessInv, Witnessed
  <1>3. ASSUME NEW p \in Publishers, publisher'[p].phase = "done",
               publisher[p].phase # "done"
        PROVE  Witnessed(p)'
    <2>1. CASE \E q \in Publishers : PublishRelease(q)
      <3>1. InspectRelease(p)
        BY <1>1, <1>3, <2>1, DoneByInspection
      <3>2. Preserved
        BY <1>1, <3>1, InspectReleasePreserves
      <3>3. PublishedTransaction' = PublishedTransaction
        BY <3>2 DEF Preserved
      <3> QED BY <1>1, <1>3, <3>1, <3>3, InspectionWitnesses DEF Witnessed
    <2>2. CASE \E q \in Publishers : LosePublisher(q)
      BY <1>1, <1>3, <2>2 DEF LosePublisher, Become, IInv, TypeOK, At
    <2>3. CASE \E q \in Publishers : RetryPublisher(q)
      BY <1>1, <1>3, <2>3 DEF RetryPublisher, Become, IInv, TypeOK, Started, At
    <2>4. CASE \E d \in ReleaseIds : DeleteDraft(d)
      BY <1>3, <2>4 DEF DeleteDraft
    <2>5. CASE UNCHANGED vars
      BY <1>3, <2>5 DEF vars
    <2> QED BY <2>1, <2>2, <2>3, <2>4, <2>5 DEF Next
  <1>4. ASSUME NEW p \in Publishers PROVE Witnessed(p)'
    BY <1>2, <1>3 DEF Witnessed
  <1> QED BY <1>1, <1>4 DEF WitnessInv

\* publish_release runs that end successfully, whenever they ran, published the
\* same bytes of the same commit.
THEOREM OneTransactionSucceedsHolds == Spec => []OneTransactionSucceeds
  <1>1. Init => WitnessInv
    <2> SUFFICES ASSUME Init PROVE WitnessInv
      OBVIOUS
    <2>1. \A p \in Publishers : publisher[p] = Started
      BY DEF Init
    <2>2. Started.phase = "existing"
      BY DEF Started, At
    <2> QED BY <2>1, <2>2, InitIInv DEF WitnessInv, Witnessed
  <1>2. WitnessInv => OneTransactionSucceeds
    BY DEF WitnessInv, Witnessed, OneTransactionSucceeds
  <1> QED BY <1>1, <1>2, WitnessStep, PTL DEF Spec
=============================================================================

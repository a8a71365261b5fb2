------------------------- MODULE ReleasePublication -------------------------
(***************************************************************************)
(* Publication of one release tag by several publisher runs at once.  Each *)
(* run works on one closed transaction (commit, notes, asset bytes) and    *)
(* talks to a provider that offers no transaction over tag, draft, assets  *)
(* and publication; each call is one step and all interleavings count.     *)
(*                                                                         *)
(* Immutable releases are enabled and the assets attested before a run     *)
(* starts, and stay so; the prerelease bit and the name follow the tag.    *)
(***************************************************************************)
EXTENDS Integers

CONSTANTS Publishers,
          Commits, Bodies, Digests,  \* what transactions are made of
          PathCount,                 \* assets of a release, in upload order
          TransactionOf,             \* the transaction each publisher holds
          Absent,
          DuplicateDrafts,  \* the provider accepts a second draft for a tag
          MaxReleases,      \* release identities the provider may assign
          MaxLosses,        \* publisher runs that die
          MaxRetries,       \* publisher runs started again
          MaxDeletions      \* drafts a maintainer deletes

Paths == 1 .. PathCount
ReleaseIds == 1 .. MaxReleases

Transaction == [commit : Commits, body : Bodies, assets : [Paths -> Digests]]
Transactions == {TransactionOf[p] : p \in Publishers}

ASSUME ReleaseAssumption ==
  /\ PathCount \in Nat \ {0} /\ MaxReleases \in Nat
  /\ MaxLosses \in Nat /\ MaxRetries \in Nat /\ MaxDeletions \in Nat
  /\ DuplicateDrafts \in BOOLEAN
  /\ Absent \notin Commits \cup Bodies \cup Digests \cup Transaction
  /\ TransactionOf \in [Publishers -> Transaction]

(***************************************************************************)
(* The first asset uploaded is SHA256SUMS, which differs when any other    *)
(* asset does.                                                             *)
(***************************************************************************)
ASSUME ChecksumsAssumption ==
  \A t, u \in Transactions : t.assets[1] = u.assets[1] => t.assets = u.assets

VARIABLES tag,        \* the commit the annotated tag names, if it exists
          releases,   \* the provider's releases for the tag
          publisher,  \* what each publisher run is executing
          losses, retries, deletions

bounds == <<losses, retries, deletions>>
vars == <<tag, releases, publisher, losses, retries, deletions>>

Release == [state : {"unborn", "draft", "published", "deleted"},
            body : Bodies \cup {Absent},
            assets : [Paths -> Digests \cup {Absent}]]

UnbornRelease == [state |-> "unborn", body |-> Absent,
                  assets |-> [k \in Paths |-> Absent]]

\* Phases that call _matching_release: first by tag, then through the listing.
Scanning == {"existing", "conflicted", "uploaded", "checking"}
Finished == {"done", "rejected", "lost"}
Phases == Scanning \cup Finished \cup
  {"tagging", "tag_absent", "creating", "uploading", "publishing", "inspecting"}

\* `draft` is 0 before a release is known; `seen` are the assets last observed.
Run == [phase : Phases, listing : BOOLEAN, draft : ReleaseIds \cup {0},
        path : 1 .. (PathCount + 1), seen : SUBSET Paths]

At(phase, draft, path, seen) ==
  [phase |-> phase, listing |-> FALSE, draft |-> draft, path |-> path,
   seen |-> seen]

Started == At("existing", 0, 1, {})
Rejected == At("rejected", 0, 1, {})

Init ==
  /\ tag = Absent
  /\ releases = [d \in ReleaseIds |-> UnbornRelease]
  /\ publisher = [p \in Publishers |-> Started]
  /\ losses = 0 /\ retries = 0 /\ deletions = 0

Become(p, run) == publisher' = [publisher EXCEPT ![p] = run]

Published == {d \in ReleaseIds : releases[d].state = "published"}
Listed == {d \in ReleaseIds : releases[d].state \in {"draft", "published"}}

\* The names in _asset_inventory.
Observed(d) == {k \in Paths : releases[d].assets[k] # Absent}

-----------------------------------------------------------------------------
(* The continuations of _matching_release, which found release m, or 0.    *)

NextAsset(draft, path, seen) ==
  At(IF path > PathCount THEN "checking" ELSE "uploading", draft, path, seen)

SameRelease(p, m) == releases[m].body = TransactionOf[p].body

\* "draft release assets conflict with transaction"
AssetsConflict(p, m) ==
  \E k \in Observed(m) : releases[m].assets[k] # TransactionOf[p].assets[k]

\* Mutant: only an empty draft can be resumed.
AfterExistingEmptyOnly(p, m) ==
  IF m = 0 THEN At("tagging", 0, 1, {})
  ELSE IF ~ SameRelease(p, m) THEN Rejected
  ELSE IF m \in Published THEN At("inspecting", m, 1, {})
  ELSE IF Observed(m) # {} THEN Rejected
  ELSE At("tagging", m, 1, Observed(m))

\* Mutant: an existing draft is taken over without a look at its assets.
AfterExistingUnchecked(p, m) ==
  IF m = 0 THEN At("tagging", 0, 1, {})
  ELSE IF ~ SameRelease(p, m) THEN Rejected
  ELSE IF m \in Published THEN At("inspecting", m, 1, {})
  ELSE At("tagging", m, 1, Observed(m))

AfterExisting(p, m) ==
  IF m = 0 THEN At("tagging", 0, 1, {})
  ELSE IF ~ SameRelease(p, m) THEN Rejected
  ELSE IF m \in Published THEN At("inspecting", m, 1, {})
  ELSE IF AssetsConflict(p, m) THEN Rejected
  ELSE At("tagging", m, 1, Observed(m))

AfterConflict(p, m) ==
  IF m = 0 \/ ~ SameRelease(p, m) THEN Rejected
  ELSE IF m \in Published THEN At("inspecting", m, 1, {})
  ELSE NextAsset(m, 1, Observed(m))

AfterUpload(p, m) ==
  LET run == publisher[p]
  IN  IF m = 0 \/ ~ SameRelease(p, m) THEN Rejected
      ELSE IF releases[m].assets[run.path] # TransactionOf[p].assets[run.path]
        THEN Rejected
      ELSE NextAsset(run.draft, run.path + 1, Observed(m))

\* Mutant: the complete inventory is not compared before publication.
AfterCheckLax(p, m) ==
  IF m = 0 THEN Rejected
  ELSE At(IF m \in Published THEN "inspecting" ELSE "publishing", m, 1, {})

AfterCheck(p, m) ==
  IF m = 0 \/ releases[m].assets # TransactionOf[p].assets THEN Rejected
  ELSE At(IF m \in Published THEN "inspecting" ELSE "publishing", m, 1, {})

Resumed(p, m) ==
  CASE publisher[p].phase = "existing" -> AfterExisting(p, m)
    [] publisher[p].phase = "conflicted" -> AfterConflict(p, m)
    [] publisher[p].phase = "uploaded" -> AfterUpload(p, m)
    [] publisher[p].phase = "checking" -> AfterCheck(p, m)

FindByTag(p) ==
  /\ publisher[p].phase \in Scanning
  /\ ~ publisher[p].listing
  /\ \/ \E m \in Published : Become(p, Resumed(p, m))
     \/ /\ Published = {}
        /\ publisher' = [publisher EXCEPT ![p].listing = TRUE]
  /\ UNCHANGED <<tag, releases, bounds>>

ListReleases(p) ==
  /\ publisher[p].phase \in Scanning
  /\ publisher[p].listing
  /\ \/ Listed = {} /\ Become(p, Resumed(p, 0))
     \/ \E m \in Listed : Listed = {m} /\ Become(p, Resumed(p, m))
     \/ \E m, n \in Listed : m # n /\ Become(p, Rejected)
  /\ UNCHANGED <<tag, releases, bounds>>

-----------------------------------------------------------------------------
(* ensure_release_tag and the mutations of publish_release.                *)

\* Mutant: no draft is created for a publisher that found none.
AfterTagSkipsDraft(p, ref) ==
  LET run == publisher[p]
  IN  IF ref # TransactionOf[p].commit THEN Rejected
      ELSE NextAsset(run.draft, 1, run.seen)

AfterTag(p, ref) ==
  LET run == publisher[p]
  IN  IF ref # TransactionOf[p].commit THEN Rejected
      ELSE IF run.draft = 0 THEN At("creating", 0, 1, {})
      ELSE NextAsset(run.draft, 1, run.seen)

ReadTag(p) ==
  /\ publisher[p].phase = "tagging"
  /\ IF tag = Absent
       THEN publisher' = [publisher EXCEPT ![p].phase = "tag_absent"]
       ELSE Become(p, AfterTag(p, tag))
  /\ UNCHANGED <<tag, releases, bounds>>

\* A conflict is tolerated; the tag read back decides.
CreateTag(p) ==
  /\ publisher[p].phase = "tag_absent"
  /\ tag' = IF tag = Absent THEN TransactionOf[p].commit ELSE tag
  /\ Become(p, AfterTag(p, tag'))
  /\ UNCHANGED <<releases, bounds>>

CreateDraft(p) ==
  /\ publisher[p].phase = "creating"
  /\ IF Published # {} \/ (Listed # {} /\ ~ DuplicateDrafts)
       THEN Become(p, At("conflicted", 0, 1, {})) /\ UNCHANGED releases
       ELSE \E d \in ReleaseIds :
              /\ releases[d] = UnbornRelease
              /\ \A e \in 1 .. (d - 1) : releases[e] # UnbornRelease
              /\ releases' = [releases EXCEPT ![d] =
                   [UnbornRelease EXCEPT !.state = "draft",
                                         !.body = TransactionOf[p].body]]
              /\ Become(p, NextAsset(d, 1, {}))
  /\ UNCHANGED <<tag, bounds>>

SkipAsset(p) ==
  /\ publisher[p].phase = "uploading"
  /\ publisher[p].path \in publisher[p].seen
  /\ Become(p, NextAsset(publisher[p].draft, publisher[p].path + 1,
                         publisher[p].seen))
  /\ UNCHANGED <<tag, releases, bounds>>

WithAsset(release, k, digest) ==
  [release EXCEPT !.assets = [release.assets EXCEPT ![k] = digest]]

\* Mutant: a conflict of the upload ends the publication.
UploadConflictRaises(p) ==
  LET run == publisher[p]
      release == releases[run.draft]
  IN  /\ run.phase = "uploading"
      /\ run.path \notin run.seen
      /\ IF release.state = "draft" /\ release.assets[run.path] = Absent
           THEN /\ publisher' = [publisher EXCEPT ![p].phase = "uploaded"]
                /\ releases' = [releases EXCEPT ![run.draft] =
                     WithAsset(release, run.path,
                               TransactionOf[p].assets[run.path])]
           ELSE Become(p, Rejected) /\ UNCHANGED releases
      /\ UNCHANGED <<tag, bounds>>

\* A name that is taken, or a published release, is a tolerated conflict.
UploadAsset(p) ==
  LET run == publisher[p]
      release == releases[run.draft]
  IN  /\ run.phase = "uploading"
      /\ run.path \notin run.seen
      /\ \/ /\ release.state = "deleted"
            /\ Become(p, Rejected) /\ UNCHANGED releases
         \/ /\ release.state # "deleted"
            /\ publisher' = [publisher EXCEPT ![p].phase = "uploaded"]
            /\ IF release.state = "draft" /\ release.assets[run.path] = Absent
                 THEN releases' = [releases EXCEPT ![run.draft] =
                        WithAsset(release, run.path,
                                  TransactionOf[p].assets[run.path])]
                 ELSE UNCHANGED releases
      /\ UNCHANGED <<tag, bounds>>

\* The provider publishes at most one release per tag; a conflict is tolerated.
PublishDraft(p) ==
  LET d == publisher[p].draft
  IN  /\ publisher[p].phase = "publishing"
      /\ \/ /\ releases[d].state = "deleted"
            /\ Become(p, Rejected) /\ UNCHANGED releases
         \/ /\ releases[d].state # "deleted"
            /\ Become(p, At("inspecting", d, 1, {}))
            /\ releases' = IF Published = {}
                             THEN [releases EXCEPT ![d].state = "published"]
                             ELSE releases
      /\ UNCHANGED <<tag, bounds>>

\* Mutant: the assets of the published release are not compared.
InspectTagOnly(p) ==
  /\ publisher[p].phase = "inspecting"
  /\ Become(p, IF tag = TransactionOf[p].commit /\ Published # {}
                 THEN At("done", 0, 1, {}) ELSE Rejected)
  /\ UNCHANGED <<tag, releases, bounds>>

InspectRelease(p) ==
  /\ publisher[p].phase = "inspecting"
  /\ Become(p, IF /\ tag = TransactionOf[p].commit
                  /\ \E d \in Published :
                       releases[d].assets = TransactionOf[p].assets
                 THEN At("done", 0, 1, {}) ELSE Rejected)
  /\ UNCHANGED <<tag, releases, bounds>>

-----------------------------------------------------------------------------
(* The environment: dying runs, runs started again, and a maintainer.      *)

LosePublisher(p) ==
  /\ losses < MaxLosses
  /\ publisher[p].phase \notin Finished
  /\ Become(p, At("lost", 0, 1, {}))
  /\ losses' = losses + 1
  /\ UNCHANGED <<tag, releases, retries, deletions>>

RetryPublisher(p) ==
  /\ retries < MaxRetries
  /\ publisher[p].phase \in {"rejected", "lost"}
  /\ Become(p, Started)
  /\ retries' = retries + 1
  /\ UNCHANGED <<tag, releases, losses, deletions>>

DeleteDraft(d) ==
  /\ deletions < MaxDeletions
  /\ releases[d].state = "draft"
  /\ releases' = [releases EXCEPT ![d].state = "deleted"]
  /\ deletions' = deletions + 1
  /\ UNCHANGED <<tag, publisher, losses, retries>>

PublishRelease(p) ==
  \/ FindByTag(p) \/ ListReleases(p)
  \/ ReadTag(p) \/ CreateTag(p)
  \/ CreateDraft(p) \/ SkipAsset(p) \/ UploadAsset(p)
  \/ PublishDraft(p) \/ InspectRelease(p)

Next ==
  \/ \E p \in Publishers : PublishRelease(p) \/ LosePublisher(p) \/ RetryPublisher(p)
  \/ \E d \in ReleaseIds : DeleteDraft(d)

Spec == Init /\ [][Next]_vars

\* A publisher run that has not died keeps calling the provider.
FairSpec == Spec /\ \A p \in Publishers : WF_vars(PublishRelease(p))

-----------------------------------------------------------------------------
(* Properties.                                                             *)

\* Every variable keeps the shape the provider and the runs give it; a run that
\* mutates a release knows which one.
TypeOK ==
  /\ tag \in Commits \cup {Absent}
  /\ releases \in [ReleaseIds -> Release]
  /\ publisher \in [Publishers -> Run]
  /\ \A p \in Publishers :
       publisher[p].phase \in {"uploading", "uploaded", "publishing"} =>
         publisher[p].draft # 0
  /\ losses \in Nat /\ retries \in Nat /\ deletions \in Nat

\* What the tag shows to a consumer of the release.
PublishedTransaction ==
  IF Published = {} THEN Absent
  ELSE LET d == CHOOSE d \in Published : TRUE
       IN  [commit |-> tag, body |-> releases[d].body,
            assets |-> releases[d].assets]

Promise == INSTANCE ImmutableRelease
  WITH published <- PublishedTransaction, NoRelease <- Absent

\* However publishers race, die, retry and lose their drafts, the tag goes at
\* most once from no release to exactly one transaction, and stays there.
PublishesOneTransaction == Promise!Spec

\* Publishers that report success hold the same bytes of the same commit.
OneTransactionSucceeds ==
  \A p, q \in Publishers :
    publisher[p].phase = "done" /\ publisher[q].phase = "done" =>
      /\ TransactionOf[p].commit = TransactionOf[q].commit
      /\ TransactionOf[p].assets = TransactionOf[q].assets

\* A publisher adds assets only to a release whose assets are all its own: one
\* that holds other bytes is conflicting state, on which publication must fail.
DraftsStayCompatible ==
  [][\A p \in Publishers, d \in ReleaseIds :
       publisher[p].phase = "uploading" /\ publisher'[p].phase = "uploaded"
         /\ releases'[d].assets # releases[d].assets
       => ~ AssetsConflict(p, d)]_vars

\* Concurrent publishers of one transaction converge: none of them is rejected
\* while no run dies and nobody deletes a draft.
ExactOperationsConverge ==
  losses = 0 /\ deletions = 0
    /\ (\A p, q \in Publishers : TransactionOf[p] = TransactionOf[q])
  => \A p \in Publishers : publisher[p].phase # "rejected"

\* One surviving publisher finishes the release from whatever tag, draft and
\* assets a dead one left behind.
PublicationCompletes == <>(Published # {})
=============================================================================

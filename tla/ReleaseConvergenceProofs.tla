---------------------- MODULE ReleaseConvergenceProofs ----------------------
(***************************************************************************)
(* Two consequences of what the provider does with a second draft.         *)
(*                                                                         *)
(* Where it refuses one, publishers of one transaction only ever meet a    *)
(* single release, each adds to it what the others would, and none fails.  *)
(*                                                                         *)
(* Where it accepts one, a publisher takes over an existing draft only     *)
(* after comparing its assets, and the checksum file, written first, keeps *)
(* bytes of two transactions out of one draft.                             *)
(***************************************************************************)
EXTENDS ReleasePublicationProofs

\* What a step that deletes no draft leaves in place.
Grows ==
  /\ Published \subseteq Published'
  /\ Listed \subseteq Listed'
  /\ \A d \in ReleaseIds : Observed(d) \subseteq Observed(d)'

LEMMA UnchangedGrows ==
  ASSUME UNCHANGED releases PROVE Grows
  BY DEF Grows, Published, Listed, Observed

LEMMA PublishedIsListed == Published \subseteq Listed /\ Listed \subseteq ReleaseIds
  BY DEF Published, Listed

LEMMA PathBounds ==
  /\ 1 \in Paths /\ ~ (1 > PathCount) /\ PathCount \in Nat
  /\ \A k \in Paths : k \in Nat /\ k >= 1
  /\ \A k \in 1 .. (PathCount + 1) : ~ (k > PathCount) => k \in Paths
  BY ReleaseAssumption DEF Paths

\* Every asset of a published release is there.
LEMMA PublishedComplete ==
  ASSUME IInv, NEW d \in Published
  PROVE  Observed(d) = Paths
  <1>1. PICK t \in Transactions : releases[d].assets = t.assets
    BY DEF IInv, Exact
  <1> QED
    BY <1>1, TransactionParts DEF Observed

-----------------------------------------------------------------------------
(* Publishers of one transaction.                                          *)

Undisturbed ==
  /\ losses = 0 /\ deletions = 0
  /\ \A p, q \in Publishers : TransactionOf[p] = TransactionOf[q]

OneRelease ==
  /\ \A d \in ReleaseIds : releases[d].state # "deleted"
  /\ \A d, e \in Listed : d = e

\* The provider holds nothing that p would not have put there.
Carries(p) ==
  /\ tag \in {Absent, TransactionOf[p].commit}
  /\ \A d \in Listed :
       /\ releases[d].body = TransactionOf[p].body
       /\ \A k \in Observed(d) : releases[d].assets[k] = TransactionOf[p].assets[k]

\* What a run has seen or written is still there when it looks again.
OnCourse(p, run) ==
  /\ run.phase \notin {"rejected", "lost"}
  /\ run.draft # 0 => /\ run.draft \in Listed
                      /\ run.seen \subseteq Observed(run.draft)
  /\ run.phase = "conflicted" => Listed # {}
  /\ run.phase \in {"uploading", "uploaded"} =>
       /\ run.draft # 0
       /\ \A k \in Paths : k < run.path => k \in Observed(run.draft)
  /\ run.phase = "uploaded" => run.path \in Observed(run.draft)
  /\ run.phase \in {"checking", "publishing"} =>
       run.draft # 0 /\ Paths \subseteq Observed(run.draft)
  /\ run.phase = "inspecting" => Published # {}

Held == OneRelease /\ \A p \in Publishers : Carries(p)

Converging == Held /\ \A p \in Publishers : OnCourse(p, publisher[p])

ConvergenceInv == IInv /\ (Undisturbed => Converging)

LEMMA OnCourseStable ==
  ASSUME Grows, NEW p \in Publishers, NEW run \in Run, OnCourse(p, run)
  PROVE  OnCourse(p, run)'
  <1>1. run.draft # 0 => run.draft \in ReleaseIds
    BY DEF Run
  <1>2. run.draft # 0 => Observed(run.draft) \subseteq Observed(run.draft)'
    BY <1>1 DEF Grows
  <1>3. CASE run.draft = 0
    BY <1>3 DEF OnCourse, Grows
  <1>4. CASE run.draft # 0
    BY <1>2, <1>4 DEF OnCourse, Grows
  <1> QED BY <1>3, <1>4

\* The run that moved is on course, so all are.
LEMMA CourseStep ==
  ASSUME TypeOK, Grows, Converging, Held', NEW p \in Publishers, NEW run,
         Become(p, run), OnCourse(p, run)'
  PROVE  Converging'
  <1> SUFFICES ASSUME NEW q \in Publishers PROVE OnCourse(q, publisher[q])'
    BY DEF Converging
  <1>1. CASE q = p
    <2>1. publisher'[q] = run
      BY <1>1 DEF Become, TypeOK
    <2> QED BY <1>1, <2>1 DEF OnCourse
  <1>2. CASE q # p
    <2>1. publisher'[q] = publisher[q]
      BY <1>2 DEF Become, TypeOK
    <2>2. PICK known : known = publisher[q]
      OBVIOUS
    <2>3. known \in Run /\ OnCourse(q, known)
      BY <2>2 DEF Converging, TypeOK
    <2>4. OnCourse(q, known)'
      BY <2>3, OnCourseStable
    <2> QED BY <2>1, <2>2, <2>4 DEF OnCourse
  <1> QED BY <1>1, <1>2

LEMMA CourseLocalStep ==
  ASSUME TypeOK, Converging, NEW p \in Publishers, NEW run, Become(p, run),
         OnCourse(p, run), UNCHANGED <<tag, releases>>
  PROVE  Converging'
  <1>1. Held'
    BY DEF Converging, Held, OneRelease, Carries, Listed, Observed
  <1>2. OnCourse(p, run)'
    BY DEF OnCourse, Listed, Published, Observed
  <1> QED BY <1>1, <1>2, UnchangedGrows, CourseStep

\* The next asset of a draft whose earlier assets are there.
LEMMA NextAssetOnCourse ==
  ASSUME NEW p \in Publishers, NEW d \in Listed, NEW k \in Paths,
         NEW seen \in SUBSET Observed(d),
         \A j \in Paths : j < k => j \in Observed(d)
  PROVE  /\ k = 1 => OnCourse(p, NextAsset(d, 1, seen))
         /\ k \in Observed(d) => OnCourse(p, NextAsset(d, k + 1, seen))
  <1>1. d # 0
    BY PublishedIsListed, ReleaseAssumption DEF ReleaseIds
  <1>2. ASSUME k = 1 PROVE OnCourse(p, NextAsset(d, 1, seen))
    <2>1. NextAsset(d, 1, seen) = At("uploading", d, 1, seen)
      BY PathBounds DEF NextAsset
    <2>2. \A j \in Paths : j < 1 => j \in Observed(d)
      BY <1>2
    <2> QED
      BY <1>1, <2>1, <2>2 DEF OnCourse, At
  <1>3. ASSUME k \in Observed(d) PROVE OnCourse(p, NextAsset(d, k + 1, seen))
    <2>1. \A j \in Paths : j < k + 1 => j \in Observed(d)
      <3> SUFFICES ASSUME NEW j \in Paths, j < k + 1 PROVE j \in Observed(d)
        OBVIOUS
      <3>1. j < k \/ j = k
        BY PathBounds
      <3> QED BY <3>1, <1>3
    <2>2. CASE k + 1 > PathCount
      <3>1. NextAsset(d, k + 1, seen) = At("checking", d, k + 1, seen)
        BY <2>2 DEF NextAsset
      <3>2. Paths \subseteq Observed(d)
        BY <2>1, <2>2, PathBounds DEF Paths
      <3> QED BY <1>1, <3>1, <3>2 DEF OnCourse, At
    <2>3. CASE ~ (k + 1 > PathCount)
      <3>1. NextAsset(d, k + 1, seen) = At("uploading", d, k + 1, seen)
        BY <2>3 DEF NextAsset
      <3> QED BY <1>1, <2>1, <3>1 DEF OnCourse, At
    <2> QED BY <2>2, <2>3
  <1> QED BY <1>2, <1>3

\* Whatever _matching_release finds is acceptable.
LEMMA ScanOnCourse ==
  ASSUME IInv, Converging, NEW p \in Publishers, publisher[p].phase \in Scanning,
         NEW m \in ReleaseIds \cup {0},
         (m = 0 /\ Listed = {}) \/ m \in Listed
  PROVE  OnCourse(p, Resumed(p, m))
  <1> DEFINE run == publisher[p]
             t == TransactionOf[p]
  <1>1. OnCourse(p, run) /\ run \in Run /\ SoundRun(p, run)
    BY DEF Converging, IInv, SoundRuns, TypeOK
  <1>2. m \in Listed =>
          /\ releases[m].body = t.body /\ m # 0
          /\ \A k \in Observed(m) : releases[m].assets[k] = t.assets[k]
          /\ Observed(m) \in SUBSET Observed(m)
          /\ \A d \in Listed : d = m
    BY PublishedIsListed, ReleaseAssumption
    DEF Converging, Held, OneRelease, Carries, ReleaseIds
  <1>3. m \in Published => OnCourse(p, At("inspecting", m, 1, {}))
    BY PublishedIsListed DEF OnCourse, At
  <1>4. CASE run.phase = "existing"
    <2>1. Resumed(p, m) = AfterExisting(p, m)
      BY <1>4 DEF Resumed
    <2>2. CASE m = 0
      <3>1. Resumed(p, m) = At("tagging", 0, 1, {})
        BY <2>1, <2>2 DEF AfterExisting
      <3> QED BY <3>1 DEF OnCourse, At
    <2>3. CASE m \in Published
      BY <2>1, <2>3, <1>2, <1>3, PublishedIsListed DEF AfterExisting, SameRelease
    <2>4. CASE m \in Listed /\ m \notin Published
      <3>1. Resumed(p, m) = At("tagging", m, 1, Observed(m))
        BY <2>1, <2>4, <1>2 DEF AfterExisting, SameRelease, AssetsConflict
      <3> QED BY <2>4, <3>1 DEF OnCourse, At
    <2> QED BY <2>2, <2>3, <2>4
  <1>5. CASE run.phase = "conflicted"
    <2>1. Resumed(p, m) = AfterConflict(p, m)
      BY <1>5 DEF Resumed
    <2>2. m \in Listed
      BY <1>1, <1>5 DEF OnCourse
    <2>3. CASE m \in Published
      BY <2>1, <2>2, <2>3, <1>2, <1>3 DEF AfterConflict, SameRelease
    <2>4. CASE m \notin Published
      <3>1. Resumed(p, m) = NextAsset(m, 1, Observed(m))
        BY <2>1, <2>2, <2>4, <1>2 DEF AfterConflict, SameRelease
      <3>2. \A j \in Paths : j < 1 => j \in Observed(m)
        BY PathBounds
      <3> QED BY <2>2, <3>1, <3>2, <1>2, PathBounds, NextAssetOnCourse
    <2> QED BY <2>3, <2>4
  <1>6. CASE run.phase = "uploaded"
    <2>1. Resumed(p, m) = AfterUpload(p, m)
      BY <1>6 DEF Resumed
    <2>2. /\ run.draft \in Listed /\ run.path \in Paths
          /\ run.path \in Observed(run.draft)
          /\ \A k \in Paths : k < run.path => k \in Observed(run.draft)
      BY <1>1, <1>6 DEF OnCourse, SoundRun
    <2>3. m = run.draft
      BY <2>2, <1>2
    <2>4. releases[m].assets[run.path] = t.assets[run.path]
      BY <2>2, <2>3, <1>2
    <2>5. Resumed(p, m) = NextAsset(run.draft, run.path + 1, Observed(m))
      BY <2>1, <2>2, <2>3, <2>4, <1>2 DEF AfterUpload, SameRelease
    <2> QED BY <2>2, <2>3, <2>5, NextAssetOnCourse
  <1>7. CASE run.phase = "checking"
    <2>1. Resumed(p, m) = AfterCheck(p, m)
      BY <1>7 DEF Resumed
    <2>2. run.draft \in Listed /\ Paths \subseteq Observed(run.draft)
      BY <1>1, <1>7 DEF OnCourse
    <2>3. m = run.draft /\ m # 0
      BY <2>2, <1>2
    <2>4. releases[m].assets = t.assets
      <3>1. \A k \in Paths : releases[m].assets[k] = t.assets[k]
        BY <2>2, <2>3, <1>2
      <3>2. releases[m].assets \in [Paths -> Digests \cup {Absent}]
        BY <2>2, <2>3, PublishedIsListed DEF IInv, TypeOK, Release
      <3>3. t.assets \in [Paths -> Digests]
        BY HeldTransaction, TransactionParts
      <3> QED BY <3>1, <3>2, <3>3
    <2>5. Resumed(p, m) = At(IF m \in Published THEN "inspecting" ELSE "publishing",
                             m, 1, {})
      BY <2>1, <2>3, <2>4 DEF AfterCheck
    <2>6. OnCourse(p, At("publishing", m, 1, {}))
      BY <2>2, <2>3 DEF OnCourse, At
    <2> QED BY <2>5, <2>6, <1>3
  <1> QED BY <1>4, <1>5, <1>6, <1>7 DEF Scanning

LEMMA FindOnCourse ==
  ASSUME IInv, Converging, NEW p \in Publishers, FindByTag(p) \/ ListReleases(p)
  PROVE  Converging'
  <1>1. UNCHANGED <<tag, releases>> /\ TypeOK /\ publisher[p].phase \in Scanning
    BY DEF FindByTag, ListReleases, IInv
  <1>2. CASE \E m : /\ (m = 0 /\ Listed = {}) \/ m \in Listed
                    /\ Become(p, Resumed(p, m))
    <2>1. PICK m : /\ (m = 0 /\ Listed = {}) \/ m \in Listed
                   /\ Become(p, Resumed(p, m))
      BY <1>2
    <2>2. m \in ReleaseIds \cup {0}
      BY <2>1, PublishedIsListed
    <2>3. OnCourse(p, Resumed(p, m))
      BY <1>1, <2>1, <2>2, ScanOnCourse
    <2> QED BY <1>1, <2>1, <2>3, CourseLocalStep
  <1>3. CASE publisher' = [publisher EXCEPT ![p].listing = TRUE]
    <2> DEFINE run == [publisher[p] EXCEPT !.listing = TRUE]
    <2>1. Become(p, run)
      BY <1>1, <1>3 DEF TypeOK, Become
    <2>2. OnCourse(p, publisher[p]) /\ publisher[p] \in Run
      BY <1>1 DEF Converging, TypeOK
    <2>3. /\ run.phase = publisher[p].phase /\ run.draft = publisher[p].draft
          /\ run.path = publisher[p].path /\ run.seen = publisher[p].seen
      BY <2>2 DEF Run
    <2>4. OnCourse(p, run)
      BY <2>2, <2>3 DEF OnCourse
    <2> QED BY <1>1, <2>1, <2>4, CourseLocalStep
  <1>4. ~ (\E m, n \in Listed : m # n)
    BY DEF Converging, Held, OneRelease
  <1> QED
    BY <1>2, <1>3, <1>4, PublishedIsListed DEF FindByTag, ListReleases

LEMMA AfterTagOnCourse ==
  ASSUME Converging, NEW p \in Publishers
  PROVE  OnCourse(p, AfterTag(p, TransactionOf[p].commit))
  <1> DEFINE run == publisher[p]
  <1>1. CASE run.draft = 0
    <2>1. AfterTag(p, TransactionOf[p].commit) = At("creating", 0, 1, {})
      BY <1>1 DEF AfterTag
    <2> QED BY <2>1 DEF OnCourse, At
  <1>2. CASE run.draft # 0
    <2>1. AfterTag(p, TransactionOf[p].commit) = NextAsset(run.draft, 1, run.seen)
      BY <1>2 DEF AfterTag
    <2>2. run.draft \in Listed /\ run.seen \in SUBSET Observed(run.draft)
      BY <1>2 DEF Converging, OnCourse
    <2>3. \A j \in Paths : j < 1 => j \in Observed(run.draft)
      BY PathBounds
    <2> QED BY <2>1, <2>2, <2>3, PathBounds, NextAssetOnCourse
  <1> QED BY <1>1, <1>2

LEMMA TagOnCourse ==
  ASSUME IInv, Converging, Undisturbed, NEW p \in Publishers,
         ReadTag(p) \/ CreateTag(p)
  PROVE  Converging'
  <1>1. releases' = releases /\ TypeOK /\ tag \in {Absent, TransactionOf[p].commit}
    BY DEF ReadTag, CreateTag, IInv, Converging, Held, Carries
  <1>2. CASE ReadTag(p) /\ tag = Absent
    <2> DEFINE run == [publisher[p] EXCEPT !.phase = "tag_absent"]
    <2>1. Become(p, run) /\ tag' = tag
      BY <1>1, <1>2, PhaseChange DEF ReadTag
    <2>2. OnCourse(p, publisher[p]) /\ publisher[p] \in Run
      BY <1>1 DEF Converging, TypeOK
    <2>3. /\ run.phase = "tag_absent" /\ run.draft = publisher[p].draft
          /\ run.path = publisher[p].path /\ run.seen = publisher[p].seen
      BY <2>2 DEF Run
    <2>4. OnCourse(p, run)
      BY <2>2, <2>3 DEF OnCourse
    <2> QED BY <1>1, <2>1, <2>4, CourseLocalStep
  <1>3. CASE ReadTag(p) /\ tag # Absent
    <2>1. Become(p, AfterTag(p, TransactionOf[p].commit)) /\ tag' = tag
      BY <1>1, <1>3 DEF ReadTag
    <2> QED BY <1>1, <2>1, AfterTagOnCourse, CourseLocalStep
  <1>4. CASE CreateTag(p)
    <2>1. tag' = TransactionOf[p].commit
      BY <1>1, <1>4 DEF CreateTag
    <2>2. PICK run : run = AfterTag(p, TransactionOf[p].commit)
      OBVIOUS
    <2>3. Become(p, run) /\ OnCourse(p, run)
      BY <1>4, <2>1, <2>2, AfterTagOnCourse DEF CreateTag
    <2>4. OnCourse(p, run)'
      BY <1>1, <2>3 DEF OnCourse, Listed, Published, Observed
    <2>5. Grows
      BY <1>1, UnchangedGrows
    <2>6. Held'
      BY <1>1, <2>1
      DEF Converging, Held, OneRelease, Carries, Listed, Observed, Undisturbed
    <2> QED BY <1>1, <2>3, <2>4, <2>5, <2>6, CourseStep
  <1> QED BY <1>2, <1>3, <1>4

\* Where the provider refuses a second draft, the first release is the only one.
LEMMA CreateDraftOnCourse ==
  ASSUME IInv, Converging, Undisturbed, ~ DuplicateDrafts,
         NEW p \in Publishers, CreateDraft(p)
  PROVE  Converging'
  <1>1. TypeOK /\ tag' = tag
    BY DEF IInv, CreateDraft
  <1>2. CASE Listed # {}
    <2>1. Become(p, At("conflicted", 0, 1, {})) /\ UNCHANGED releases
      BY <1>2, PublishedIsListed DEF CreateDraft
    <2>2. OnCourse(p, At("conflicted", 0, 1, {}))
      BY <1>2 DEF OnCourse, At
    <2> QED BY <1>1, <2>1, <2>2, CourseLocalStep
  <1>3. CASE Listed = {}
    <2>1. Published = {}
      BY <1>3, PublishedIsListed
    <2> DEFINE draft == [UnbornRelease EXCEPT !.state = "draft",
                                              !.body = TransactionOf[p].body]
    <2>2. PICK d \in ReleaseIds :
            /\ releases[d] = UnbornRelease
            /\ releases' = [releases EXCEPT ![d] = draft]
            /\ Become(p, NextAsset(d, 1, {}))
      BY <1>3, <2>1 DEF CreateDraft
    <2>3. releases \in [ReleaseIds -> Release]
      BY <1>1 DEF TypeOK
    <2>4. /\ draft.state = "draft" /\ draft.body = TransactionOf[p].body
          /\ \A k \in Paths : draft.assets[k] = Absent
      BY DEF UnbornRelease
    <2>5. /\ releases'[d] = draft
          /\ \A e \in ReleaseIds : e # d => releases'[e] = releases[e]
      BY <2>2, <2>3
    <2>6. Listed' = {d}
      BY <1>3, <2>4, <2>5 DEF Listed
    <2>7. Published \subseteq Published' /\ Listed \subseteq Listed'
      BY <1>3, <2>1
    <2>8. \A e \in ReleaseIds : Observed(e) \subseteq Observed(e)'
      <3>1. Observed(d) = {}
        BY <2>2 DEF Observed, UnbornRelease
      <3>2. \A e \in ReleaseIds : e # d => Observed(e)' = Observed(e)
        BY <2>5 DEF Observed
      <3> QED BY <3>1, <3>2
    <2>9. Observed(d)' = {}
      BY <2>4, <2>5 DEF Observed
    <2>10. Held'
      <3>1. OneRelease'
        BY <2>4, <2>5, <2>6 DEF Converging, Held, OneRelease
      <3>2. ASSUME NEW q \in Publishers PROVE Carries(q)'
        <4>1. TransactionOf[q] = TransactionOf[p]
          BY DEF Undisturbed
        <4> QED BY <1>1, <2>4, <2>5, <2>6, <2>9, <4>1 DEF Converging, Held, Carries
      <3> QED BY <3>1, <3>2 DEF Held
    <2>11. PICK run : run = NextAsset(d, 1, {})
      OBVIOUS
    <2>12. OnCourse(p, run)'
      <3>1. run = At("uploading", d, 1, {}) /\ d # 0
        BY <2>11, PathBounds DEF NextAsset, ReleaseIds
      <3>2. \A j \in Paths : ~ (j < 1)
        BY PathBounds
      <3> QED BY <3>1, <3>2, <2>6 DEF OnCourse, At
    <2> QED
      BY <1>1, <2>2, <2>7, <2>8, <2>10, <2>11, <2>12, CourseStep DEF Grows
  <1> QED BY <1>2, <1>3

LEMMA SkipOnCourse ==
  ASSUME IInv, Converging, NEW p \in Publishers, SkipAsset(p)
  PROVE  Converging'
  <1> DEFINE run == publisher[p]
  <1>1. /\ run.phase = "uploading" /\ run.path \in run.seen
        /\ UNCHANGED <<tag, releases>> /\ TypeOK
        /\ Become(p, NextAsset(run.draft, run.path + 1, run.seen))
    BY DEF SkipAsset, IInv
  <1>2. OnCourse(p, run) /\ SoundRun(p, run)
    BY DEF Converging, IInv, SoundRuns
  <1>3. /\ run.draft \in Listed /\ run.seen \in SUBSET Observed(run.draft)
        /\ run.path \in Paths /\ run.path \in Observed(run.draft)
        /\ \A k \in Paths : k < run.path => k \in Observed(run.draft)
    BY <1>1, <1>2 DEF OnCourse, SoundRun
  <1>4. OnCourse(p, NextAsset(run.draft, run.path + 1, run.seen))
    BY <1>3, NextAssetOnCourse
  <1> QED BY <1>1, <1>4, CourseLocalStep

LEMMA UploadOnCourse ==
  ASSUME IInv, Converging, Undisturbed, NEW p \in Publishers, UploadAsset(p)
  PROVE  Converging'
  <1>1. PICK known : known = publisher[p] /\ OnCourse(p, known) /\ SoundRun(p, known)
    BY DEF Converging, IInv, SoundRuns
  <1> DEFINE d == known.draft
             k == known.path
             t == TransactionOf[p]
  <1>2. PICK run : run = [known EXCEPT !.phase = "uploaded"]
    OBVIOUS
  <1>3. known.phase = "uploading" /\ tag' = tag /\ TypeOK
    BY <1>1 DEF UploadAsset, IInv
  <1>4. /\ known \in Run /\ d \in Listed /\ d \in ReleaseIds /\ k \in Paths
        /\ known.seen \subseteq Observed(d)
        /\ \A j \in Paths : j < k => j \in Observed(d)
    BY <1>1, <1>3, PublishedIsListed DEF OnCourse, SoundRun
  <1>5. /\ run.phase = "uploaded" /\ run.draft = d /\ run.path = k
        /\ run.seen = known.seen /\ d # 0
    BY <1>2, <1>4, ReleaseAssumption DEF Run, ReleaseIds
  <1>6. releases[d].state \in {"draft", "published"}
    BY <1>4 DEF Listed
  <1>7. Become(p, run)
    BY <1>1, <1>2, <1>3, <1>6, PhaseChange DEF UploadAsset
  <1>8. CASE UNCHANGED releases /\ releases[d].assets[k] # Absent
    <2>1. OnCourse(p, run)
      BY <1>4, <1>5, <1>8 DEF OnCourse, Observed
    <2> QED BY <1>3, <1>7, <1>8, <2>1, CourseLocalStep
  <1>9. CASE /\ releases[d].assets[k] = Absent
             /\ releases' = [releases EXCEPT ![d] =
                  WithAsset(releases[d], k, t.assets[k])]
    <2>1. releases \in [ReleaseIds -> Release] /\ releases[d] \in Release
      BY <1>3, <1>4 DEF TypeOK
    <2>2. PICK written : written = WithAsset(releases[d], k, t.assets[k])
      OBVIOUS
    <2>3. /\ written.state = releases[d].state /\ written.body = releases[d].body
          /\ written.assets = [releases[d].assets EXCEPT ![k] = t.assets[k]]
      BY <2>1, <2>2 DEF WithAsset, Release
    <2>4. /\ written.assets[k] = t.assets[k] /\ t.assets[k] # Absent
          /\ \A j \in Paths : j # k => written.assets[j] = releases[d].assets[j]
      BY <1>4, <2>1, <2>3, HeldTransaction, TransactionParts DEF Release
    <2>5. /\ releases'[d] = written
          /\ \A e \in ReleaseIds : e # d => releases'[e] = releases[e]
      BY <1>4, <1>9, <2>1, <2>2
    <2>6. /\ Observed(d)' = Observed(d) \cup {k}
          /\ \A e \in ReleaseIds : e # d => Observed(e)' = Observed(e)
      BY <1>4, <2>4, <2>5 DEF Observed
    <2>7. Listed' = Listed /\ Published' = Published
      BY <2>3, <2>5 DEF Listed, Published
    <2>8. Held'
      <3>1. OneRelease'
        BY <2>3, <2>5, <2>7 DEF Converging, Held, OneRelease
      <3>2. ASSUME NEW q \in Publishers PROVE Carries(q)'
        <4>1. TransactionOf[q] = t /\ Carries(q)
          BY DEF Undisturbed, Converging, Held
        <4>2. \A e \in Listed : e = d
          BY <1>4 DEF Converging, Held, OneRelease
        <4>3. releases'[d].body = t.body
          BY <1>4, <2>3, <2>5, <4>1 DEF Carries
        <4>4. \A j \in Observed(d)' : releases'[d].assets[j] = t.assets[j]
          BY <1>4, <2>4, <2>5, <2>6, <4>1 DEF Carries, Observed
        <4> QED BY <1>3, <2>7, <4>1, <4>2, <4>3, <4>4 DEF Carries
      <3> QED BY <3>1, <3>2 DEF Held
    <2>9. Grows
      BY <2>6, <2>7 DEF Grows
    <2>10. OnCourse(p, run)'
      BY <1>4, <1>5, <2>6, <2>7 DEF OnCourse
    <2> QED BY <1>3, <1>7, <2>8, <2>9, <2>10, CourseStep
  <1>10. ASSUME releases[d].assets[k] # Absent PROVE UNCHANGED releases
    BY <1>1, <1>10 DEF UploadAsset
  <1>11. ASSUME releases[d].assets[k] = Absent
         PROVE  releases' = [releases EXCEPT ![d] =
                  WithAsset(releases[d], k, t.assets[k])]
    <2>1. d \notin Published
      BY <1>4, <1>11, PublishedComplete DEF Observed
    <2>2. releases[d].state = "draft"
      BY <1>4, <1>6, <2>1 DEF Published
    <2> QED BY <1>1, <1>11, <2>2 DEF UploadAsset
  <1> QED BY <1>8, <1>9, <1>10, <1>11

LEMMA PublishOnCourse ==
  ASSUME IInv, Converging, NEW p \in Publishers, PublishDraft(p)
  PROVE  Converging'
  <1>1. PICK known : known = publisher[p] /\ OnCourse(p, known) /\ SoundRun(p, known)
    BY DEF Converging, IInv, SoundRuns
  <1> DEFINE d == known.draft
  <1>2. known.phase = "publishing" /\ tag' = tag /\ TypeOK
    BY <1>1 DEF PublishDraft, IInv
  <1>3. known \in Run /\ d \in Listed /\ d \in ReleaseIds
    BY <1>1, <1>2, PublishedIsListed DEF OnCourse, SoundRun
  <1>4. PICK run : run = At("inspecting", d, 1, {})
    OBVIOUS
  <1>5. releases[d].state \in {"draft", "published"}
    BY <1>3 DEF Listed
  <1>6. /\ Become(p, run)
        /\ releases' = IF Published = {}
                         THEN [releases EXCEPT ![d].state = "published"]
                         ELSE releases
    BY <1>1, <1>4, <1>5 DEF PublishDraft
  <1>7. releases \in [ReleaseIds -> Release]
    BY <1>2 DEF TypeOK
  <1>8. \A e \in ReleaseIds :
          /\ releases'[e].body = releases[e].body
          /\ releases'[e].assets = releases[e].assets
          /\ \/ releases'[e].state = releases[e].state
             \/ e = d /\ releases'[e].state = "published"
    BY <1>3, <1>6, <1>7 DEF Release
  <1>9. Listed' = Listed
    BY <1>3, <1>5, <1>8 DEF Listed
  <1>10. Published \subseteq Published' /\ Published' # {}
    <2>1. CASE Published = {}
      BY <1>3, <1>6, <1>7, <2>1 DEF Published, Release
    <2>2. CASE Published # {}
      BY <1>6, <2>2 DEF Published
    <2> QED BY <2>1, <2>2
  <1>11. \A e \in ReleaseIds : Observed(e)' = Observed(e)
    BY <1>8 DEF Observed
  <1>12. Held'
    <2>1. OneRelease'
      BY <1>8, <1>9 DEF Converging, Held, OneRelease
    <2>2. \A q \in Publishers : Carries(q)'
      BY <1>2, <1>8, <1>9, <1>11, PublishedIsListed
      DEF Converging, Held, Carries, Observed
    <2> QED BY <2>1, <2>2 DEF Held
  <1>13. OnCourse(p, run)'
    BY <1>3, <1>4, <1>9, <1>10 DEF OnCourse, At
  <1> QED
    BY <1>2, <1>6, <1>9, <1>10, <1>11, <1>12, <1>13, CourseStep DEF Grows

LEMMA InspectOnCourse ==
  ASSUME IInv, Converging, Undisturbed, NEW p \in Publishers, InspectRelease(p)
  PROVE  Converging'
  <1>1. UNCHANGED <<tag, releases>> /\ TypeOK
    BY DEF InspectRelease, IInv
  <1>2. PICK d : d \in Published
    BY DEF Converging, OnCourse, InspectRelease
  <1>3. tag = TransactionOf[p].commit /\ releases[d].assets = TransactionOf[p].assets
    <2>1. PICK t \in Transactions : tag = t.commit /\ releases[d].assets = t.assets
      BY <1>2 DEF IInv, Exact
    <2>2. t = TransactionOf[p]
      BY <2>1 DEF Transactions, Undisturbed
    <2> QED BY <2>1, <2>2
  <1>4. Become(p, At("done", 0, 1, {}))
    BY <1>2, <1>3 DEF InspectRelease
  <1>5. OnCourse(p, At("done", 0, 1, {}))
    BY DEF OnCourse, At
  <1> QED BY <1>1, <1>4, <1>5, CourseLocalStep

LEMMA ConvergenceStep ==
  ASSUME ~ DuplicateDrafts, ConvergenceInv, [Next]_vars
  PROVE  ConvergenceInv'
  <1>1. IInv /\ IInv' /\ losses \in Nat /\ deletions \in Nat
    BY NextStep DEF ConvergenceInv, Preserved, Publishes, IInv, TypeOK
  <1> SUFFICES ASSUME Undisturbed' PROVE Converging'
    BY <1>1 DEF ConvergenceInv
  <1>2. ASSUME NEW p \in Publishers, PublishRelease(p) PROVE Converging'
    <2>1. losses' = losses /\ deletions' = deletions
      BY <1>2
      DEF PublishRelease, FindByTag, ListReleases, ReadTag, CreateTag, CreateDraft,
          SkipAsset, UploadAsset, PublishDraft, InspectRelease, bounds
    <2>2. Undisturbed /\ Converging
      BY <2>1 DEF Undisturbed, ConvergenceInv
    <2> QED
      BY <1>1, <1>2, <2>2, FindOnCourse, TagOnCourse, CreateDraftOnCourse,
         SkipOnCourse, UploadOnCourse, PublishOnCourse, InspectOnCourse
      DEF PublishRelease
  <1>3. ASSUME NEW p \in Publishers, LosePublisher(p) PROVE FALSE
    BY <1>1, <1>3 DEF LosePublisher, Undisturbed
  <1>4. ASSUME NEW p \in Publishers, RetryPublisher(p) PROVE FALSE
    <2>1. Undisturbed
      BY <1>4 DEF RetryPublisher, Undisturbed
    <2> QED BY <1>4, <2>1 DEF RetryPublisher, ConvergenceInv, Converging, OnCourse
  <1>5. ASSUME NEW d \in ReleaseIds, DeleteDraft(d) PROVE FALSE
    BY <1>1, <1>5 DEF DeleteDraft, Undisturbed
  <1>6. CASE UNCHANGED vars
    <2>1. Undisturbed
      BY <1>6 DEF vars, Undisturbed
    <2> QED
      BY <1>6, <2>1
      DEF ConvergenceInv, vars, Converging, Held, OneRelease, Carries, OnCourse,
          Listed, Published, Observed
  <1> QED BY <1>2, <1>3, <1>4, <1>5, <1>6 DEF Next

\* publish_release tolerates every conflict of runs that hold one transaction:
\* where the provider refuses a second draft, no number of them fails while no
\* run dies and nobody deletes a draft.
THEOREM ExactOperationsConvergeHolds ==
  ASSUME ~ DuplicateDrafts
  PROVE  Spec => []ExactOperationsConverge
  <1>1. Init => ConvergenceInv
    <2> SUFFICES ASSUME Init PROVE Converging
      BY InitIInv DEF ConvergenceInv
    <2>1. Listed = {} /\ \A d \in ReleaseIds : releases[d].state = "unborn"
      BY DEF Init, Listed, UnbornRelease
    <2>2. Held
      BY <2>1 DEF Init, Held, OneRelease, Carries
    <2>3. \A p \in Publishers : OnCourse(p, publisher[p])
      BY DEF Init, OnCourse, Started, At
    <2> QED BY <2>2, <2>3 DEF Converging
  <1>2. ConvergenceInv /\ [Next]_vars => ConvergenceInv'
    BY ConvergenceStep
  <1>3. ConvergenceInv => ExactOperationsConverge
    BY DEF ConvergenceInv, ExactOperationsConverge, Undisturbed, Converging, OnCourse
  <1> QED BY <1>1, <1>2, <1>3, PTL DEF Spec

-----------------------------------------------------------------------------
(* Drafts of several transactions.                                         *)

\* The checksum file is the first asset of a draft to be written.
SeedFirst(d) == releases[d].assets[1] = Absent => Observed(d) = {}

\* A draft holds no bytes but those its checksum file lists.
Unmixed(d) ==
  \A t \in Transactions : releases[d].assets[1] = t.assets[1] =>
    \A k \in Observed(d) : releases[d].assets[k] = t.assets[k]

\* A run past the checksum file compared it with its own, or can write no more.
Careful(p, run) ==
  /\ run.phase = "conflicted" => Published # {} /\ ~ run.listing
  /\ run.phase = "uploaded" => run.path \notin run.seen
  /\ run.phase \in {"tagging", "tag_absent", "uploading", "uploaded"}
       /\ run.draft # 0 /\ (run.path > 1 \/ 1 \in run.seen)
     => \/ releases[run.draft].state = "deleted"
        \/ run.seen = Paths
        \/ releases[run.draft].assets[1] = TransactionOf[p].assets[1]

PureDrafts == \A d \in ReleaseIds : SeedFirst(d) /\ Unmixed(d)

CareInv ==
  IInv /\ PureDrafts /\ \A p \in Publishers : Careful(p, publisher[p])

\* What no step of the provider takes back.
Lasts ==
  /\ Accumulates
  /\ Published \subseteq Published'
  /\ \A d \in ReleaseIds : releases[d].state = "deleted" =>
       releases'[d].state = "deleted"

LEMMA UnchangedLasts ==
  ASSUME UNCHANGED <<tag, releases>> PROVE Lasts
  BY DEF Lasts, Accumulates, Published

LEMMA CarefulStable ==
  ASSUME Lasts, NEW p \in Publishers, NEW run \in Run, Careful(p, run)
  PROVE  Careful(p, run)'
  <1>1. run.draft # 0 => run.draft \in ReleaseIds
    BY DEF Run
  <1>2. TransactionOf[p].assets[1] # Absent /\ 1 \in Paths
    BY HeldTransaction, TransactionParts, PathBounds
  <1>3. run.draft # 0
          /\ releases[run.draft].assets[1] = TransactionOf[p].assets[1]
        => releases'[run.draft].assets[1] = TransactionOf[p].assets[1]
    BY <1>1, <1>2 DEF Lasts, Accumulates
  <1>4. run.draft # 0 /\ releases[run.draft].state = "deleted"
        => releases'[run.draft].state = "deleted"
    BY <1>1 DEF Lasts
  <1> QED BY <1>3, <1>4 DEF Careful, Lasts

\* The run that moved is careful, so all are.
LEMMA CareStep ==
  ASSUME CareInv, IInv', Lasts, PureDrafts', NEW p \in Publishers, NEW run,
         Become(p, run), Careful(p, run)'
  PROVE  CareInv'
  <1> SUFFICES ASSUME NEW q \in Publishers PROVE Careful(q, publisher[q])'
    BY DEF CareInv
  <1>1. TypeOK
    BY DEF CareInv, IInv
  <1>2. CASE q = p
    <2>1. publisher'[q] = run
      BY <1>1, <1>2 DEF Become, TypeOK
    <2> QED BY <1>2, <2>1 DEF Careful
  <1>3. CASE q # p
    <2>1. publisher'[q] = publisher[q]
      BY <1>1, <1>3 DEF Become, TypeOK
    <2>2. PICK known : known = publisher[q]
      OBVIOUS
    <2>3. known \in Run /\ Careful(q, known)
      BY <1>1, <2>2 DEF CareInv, TypeOK
    <2>4. Careful(q, known)'
      BY <2>3, CarefulStable
    <2> QED BY <2>1, <2>2, <2>4 DEF Careful
  <1> QED BY <1>2, <1>3

LEMMA CareLocalStep ==
  ASSUME CareInv, IInv', NEW p \in Publishers, NEW run, Become(p, run),
         Careful(p, run), UNCHANGED <<tag, releases>>
  PROVE  CareInv'
  <1>1. PureDrafts'
    BY DEF CareInv, PureDrafts, SeedFirst, Unmixed, Observed
  <1>2. Careful(p, run)'
    BY DEF Careful, Published
  <1> QED BY <1>1, <1>2, UnchangedLasts, CareStep

LEMMA IdleCareful ==
  ASSUME NEW p \in Publishers, NEW d, NEW k, NEW seen,
         NEW phase \in {"existing", "creating", "checking", "publishing", "inspecting",
                        "done", "rejected", "lost"}
  PROVE  /\ Careful(p, At(phase, d, k, seen))
         /\ Careful(p, Rejected) /\ Careful(p, Started)
         /\ Careful(p, At("tagging", 0, k, seen))
  BY DEF Careful, At, Rejected, Started

LEMMA NextAssetCareful ==
  ASSUME NEW p \in Publishers, NEW d, NEW k, NEW seen,
         \/ k = 1 /\ 1 \notin seen
         \/ releases[d].state = "deleted"
         \/ seen = Paths
         \/ releases[d].assets[1] = TransactionOf[p].assets[1]
  PROVE  Careful(p, NextAsset(d, k, seen))
  BY IdleCareful DEF Careful, NextAsset, At

\* A draft is taken over by a run that compared its assets.
LEMMA ScanCareful ==
  ASSUME CareInv, NEW p \in Publishers, publisher[p].phase \in Scanning,
         NEW m \in ReleaseIds \cup {0},
         \/ m \in Published
         \/ publisher[p].listing /\ ((m = 0 /\ Listed = {}) \/ Listed = {m})
  PROVE  Careful(p, Resumed(p, m))
  <1> DEFINE run == publisher[p]
             t == TransactionOf[p]
  <1>1. Careful(p, run) /\ run \in Run /\ SoundRun(p, run)
    BY DEF CareInv, IInv, SoundRuns, TypeOK
  <1>2. Careful(p, Rejected) /\ Careful(p, At("inspecting", m, 1, {}))
    BY IdleCareful
  <1>3. CASE run.phase = "existing"
    <2>1. Resumed(p, m) = AfterExisting(p, m)
      BY <1>3 DEF Resumed
    <2>2. Careful(p, At("tagging", 0, 1, {}))
      BY IdleCareful
    <2>3. ASSUME ~ AssetsConflict(p, m) PROVE Careful(p, At("tagging", m, 1, Observed(m)))
      <3>1. 1 \in Observed(m) => releases[m].assets[1] = t.assets[1]
        BY <2>3 DEF AssetsConflict
      <3> QED BY <3>1 DEF Careful, At
    <2> QED BY <1>2, <2>1, <2>2, <2>3 DEF AfterExisting
  <1>4. CASE run.phase = "conflicted"
    <2>1. Resumed(p, m) = AfterConflict(p, m)
      BY <1>4 DEF Resumed
    <2>2. m \in Published
      BY <1>1, <1>4 DEF Careful
    <2> QED BY <1>2, <2>1, <2>2 DEF AfterConflict
  <1>5. CASE run.phase = "uploaded"
    <2>1. Resumed(p, m) = AfterUpload(p, m)
      BY <1>5 DEF Resumed
    <2>2. /\ run.draft \in ReleaseIds /\ run.draft # 0 /\ run.path \in Paths
          /\ releases[run.draft].state # "unborn" /\ run.path \notin run.seen
      BY <1>1, <1>5 DEF SoundRun, Run, Careful
    <2>3. ASSUME m # 0, releases[m].assets[run.path] = t.assets[run.path]
          PROVE  Careful(p, NextAsset(run.draft, run.path + 1, Observed(m)))
      <3>1. CASE m \in Published
        <4>1. Observed(m) = Paths
          BY <3>1, PublishedComplete DEF CareInv
        <4> QED BY <4>1, NextAssetCareful
      <3>2. CASE Listed = {m} /\ m # run.draft
        <4>1. releases[run.draft].state = "deleted"
          BY <2>2, <3>2 DEF Listed, CareInv, IInv, TypeOK, Release
        <4> QED BY <4>1, NextAssetCareful
      <3>3. CASE Listed = {m} /\ m = run.draft
        <4>1. releases[run.draft].state # "deleted" /\ run.seen # Paths
          BY <2>2, <3>3 DEF Listed
        <4>2. run.path = 1 \/ run.path > 1
          BY <2>2, PathBounds
        <4>3. releases[run.draft].assets[1] = t.assets[1]
          BY <1>1, <1>5, <2>2, <2>3, <3>3, <4>1, <4>2 DEF Careful
        <4> QED BY <4>3, NextAssetCareful
      <3> QED BY <2>3, <3>1, <3>2, <3>3
    <2> QED BY <1>2, <2>1, <2>3 DEF AfterUpload
  <1>6. CASE run.phase = "checking"
    <2>1. Resumed(p, m) = AfterCheck(p, m)
      BY <1>6 DEF Resumed
    <2>2. Careful(p, At("publishing", m, 1, {}))
      BY IdleCareful
    <2> QED BY <1>2, <2>1, <2>2 DEF AfterCheck
  <1> QED BY <1>3, <1>4, <1>5, <1>6 DEF Scanning

LEMMA FindCareful ==
  ASSUME CareInv, IInv', NEW p \in Publishers, FindByTag(p) \/ ListReleases(p)
  PROVE  CareInv'
  <1>1. UNCHANGED <<tag, releases>> /\ TypeOK /\ publisher[p].phase \in Scanning
    BY DEF FindByTag, ListReleases, CareInv, IInv
  <1>2. CASE \E m : /\ \/ m \in Published
                       \/ publisher[p].listing
                            /\ ((m = 0 /\ Listed = {}) \/ Listed = {m})
                    /\ Become(p, Resumed(p, m))
    <2>1. PICK m : /\ \/ m \in Published
                      \/ publisher[p].listing
                           /\ ((m = 0 /\ Listed = {}) \/ Listed = {m})
                   /\ Become(p, Resumed(p, m))
      BY <1>2
    <2>2. m \in ReleaseIds \cup {0}
      BY <2>1, PublishedIsListed
    <2>3. Careful(p, Resumed(p, m))
      BY <1>1, <2>1, <2>2, ScanCareful
    <2> QED BY <1>1, <2>1, <2>3, CareLocalStep
  <1>3. CASE /\ publisher' = [publisher EXCEPT ![p].listing = TRUE]
             /\ Published = {}
    <2> DEFINE run == [publisher[p] EXCEPT !.listing = TRUE]
    <2>1. Become(p, run)
      BY <1>1, <1>3 DEF TypeOK, Become
    <2>2. Careful(p, publisher[p]) /\ publisher[p] \in Run
      BY <1>1 DEF CareInv, TypeOK
    <2>3. /\ run.phase = publisher[p].phase /\ run.draft = publisher[p].draft
          /\ run.path = publisher[p].path /\ run.seen = publisher[p].seen
      BY <2>2 DEF Run
    <2>4. Careful(p, run)
      BY <1>3, <2>2, <2>3 DEF Careful
    <2> QED BY <1>1, <2>1, <2>4, CareLocalStep
  <1>4. CASE Become(p, Rejected)
    BY <1>1, <1>4, IdleCareful, CareLocalStep
  <1> QED BY <1>2, <1>3, <1>4 DEF FindByTag, ListReleases

LEMMA AfterTagCareful ==
  ASSUME CareInv, NEW p \in Publishers, NEW ref,
         publisher[p].phase \in {"tagging", "tag_absent"}
  PROVE  Careful(p, AfterTag(p, ref))
  <1> DEFINE run == publisher[p]
  <1>1. Careful(p, run)
    BY DEF CareInv
  <1>2. Careful(p, Rejected) /\ Careful(p, At("creating", 0, 1, {}))
    BY IdleCareful
  <1>3. ASSUME run.draft # 0 PROVE Careful(p, NextAsset(run.draft, 1, run.seen))
    <2>1. \/ 1 \notin run.seen
          \/ releases[run.draft].state = "deleted"
          \/ run.seen = Paths
          \/ releases[run.draft].assets[1] = TransactionOf[p].assets[1]
      BY <1>1, <1>3 DEF Careful
    <2> QED BY <2>1, NextAssetCareful
  <1> QED BY <1>2, <1>3 DEF AfterTag

LEMMA TagCareful ==
  ASSUME CareInv, IInv', NEW p \in Publishers, ReadTag(p) \/ CreateTag(p)
  PROVE  CareInv'
  <1>1. /\ releases' = releases /\ TypeOK
        /\ publisher[p].phase \in {"tagging", "tag_absent"}
    BY DEF ReadTag, CreateTag, CareInv, IInv
  <1>2. CASE ReadTag(p) /\ tag = Absent
    <2> DEFINE run == [publisher[p] EXCEPT !.phase = "tag_absent"]
    <2>1. Become(p, run) /\ tag' = tag
      BY <1>1, <1>2, PhaseChange DEF ReadTag
    <2>2. Careful(p, publisher[p]) /\ publisher[p] \in Run
          /\ publisher[p].phase = "tagging"
      BY <1>1, <1>2 DEF CareInv, TypeOK, ReadTag
    <2>3. /\ run.phase = "tag_absent" /\ run.draft = publisher[p].draft
          /\ run.path = publisher[p].path /\ run.seen = publisher[p].seen
      BY <2>2 DEF Run
    <2>4. Careful(p, run)
      BY <2>2, <2>3 DEF Careful
    <2> QED BY <1>1, <2>1, <2>4, CareLocalStep
  <1>3. CASE ReadTag(p) /\ tag # Absent
    <2>1. Become(p, AfterTag(p, tag)) /\ tag' = tag
      BY <1>1, <1>3 DEF ReadTag
    <2> QED BY <1>1, <2>1, AfterTagCareful, CareLocalStep
  <1>4. CASE CreateTag(p)
    <2>1. PICK run : run = AfterTag(p, tag') /\ Become(p, run)
      BY <1>4 DEF CreateTag
    <2>2. Careful(p, run)
      BY <1>1, <2>1, AfterTagCareful
    <2>3. Careful(p, run)'
      BY <1>1, <2>2 DEF Careful, Published
    <2>4. Lasts
      <3>1. tag # Absent => tag' = tag
        BY <1>4 DEF CreateTag
      <3> QED BY <1>1, <3>1 DEF Lasts, Accumulates, Published
    <2>5. PureDrafts'
      BY <1>1 DEF CareInv, PureDrafts, SeedFirst, Unmixed, Observed
    <2> QED BY <2>1, <2>3, <2>4, <2>5, CareStep
  <1> QED BY <1>2, <1>3, <1>4

\* A second draft is refused only when the tag has a published release.
LEMMA CreateDraftCareful ==
  ASSUME CareInv, IInv', DuplicateDrafts, NEW p \in Publishers, CreateDraft(p)
  PROVE  CareInv'
  <1>1. TypeOK /\ tag' = tag
    BY DEF CareInv, IInv, CreateDraft
  <1>2. CASE Published # {}
    <2>1. Become(p, At("conflicted", 0, 1, {})) /\ UNCHANGED releases
      BY <1>2 DEF CreateDraft
    <2>2. Careful(p, At("conflicted", 0, 1, {}))
      BY <1>2 DEF Careful, At
    <2> QED BY <1>1, <2>1, <2>2, CareLocalStep
  <1>3. CASE Published = {}
    <2> DEFINE draft == [UnbornRelease EXCEPT !.state = "draft",
                                              !.body = TransactionOf[p].body]
    <2>1. PICK d \in ReleaseIds :
            /\ releases[d] = UnbornRelease
            /\ releases' = [releases EXCEPT ![d] = draft]
            /\ Become(p, NextAsset(d, 1, {}))
      BY <1>3 DEF CreateDraft
    <2>2. /\ releases'[d] = draft
          /\ \A e \in ReleaseIds : e # d => releases'[e] = releases[e]
      BY <1>1, <2>1 DEF TypeOK
    <2>3. /\ releases[d].state = "unborn"
          /\ \A k \in Paths : draft.assets[k] = Absent
          /\ \A k \in Paths : releases[d].assets[k] = Absent
      BY <2>1 DEF UnbornRelease
    <2>4. Lasts
      <3>1. Accumulates
        BY <1>1, <2>2, <2>3 DEF Accumulates
      <3>2. \A e \in ReleaseIds : releases[e].state = "deleted" =>
              releases'[e].state = "deleted"
        BY <2>2, <2>3
      <3> QED BY <1>3, <3>1, <3>2 DEF Lasts
    <2>5. PureDrafts'
      <3>1. Observed(d)' = {}
        BY <2>2, <2>3 DEF Observed
      <3>2. \A e \in ReleaseIds : e # d => Observed(e)' = Observed(e)
        BY <2>2 DEF Observed
      <3> QED BY <2>2, <3>1, <3>2 DEF CareInv, PureDrafts, SeedFirst, Unmixed
    <2>6. PICK run : run = NextAsset(d, 1, {})
      OBVIOUS
    <2>7. Careful(p, run)'
      <3>1. run = At("uploading", d, 1, {})
        BY <2>6, PathBounds DEF NextAsset
      <3> QED BY <3>1 DEF Careful, At
    <2> QED BY <2>1, <2>4, <2>5, <2>6, <2>7, CareStep
  <1> QED BY <1>2, <1>3

LEMMA SkipCareful ==
  ASSUME CareInv, IInv', NEW p \in Publishers, SkipAsset(p)
  PROVE  CareInv'
  <1> DEFINE run == publisher[p]
  <1>1. /\ run.phase = "uploading" /\ run.path \in run.seen
        /\ UNCHANGED <<tag, releases>>
        /\ Become(p, NextAsset(run.draft, run.path + 1, run.seen))
    BY DEF SkipAsset
  <1>2. Careful(p, run) /\ run.draft # 0 /\ run.path \in Paths
    BY <1>1 DEF CareInv, IInv, SoundRuns, SoundRun
  <1>3. run.path = 1 \/ run.path > 1
    BY <1>2, PathBounds
  <1>4. \/ releases[run.draft].state = "deleted"
        \/ run.seen = Paths
        \/ releases[run.draft].assets[1] = TransactionOf[p].assets[1]
    BY <1>1, <1>2, <1>3 DEF Careful
  <1>5. Careful(p, NextAsset(run.draft, run.path + 1, run.seen))
    BY <1>4, NextAssetCareful
  <1> QED BY <1>1, <1>5, CareLocalStep

\* An asset written goes to a draft that holds only assets of this run.
LEMMA UploadTarget ==
  ASSUME CareInv, NEW p \in Publishers, publisher[p].phase = "uploading",
         publisher[p].path \notin publisher[p].seen,
         releases[publisher[p].draft].state = "draft",
         releases[publisher[p].draft].assets[publisher[p].path] = Absent
  PROVE  LET d == publisher[p].draft
         IN  /\ ~ AssetsConflict(p, d)
             /\ \/ publisher[p].path = 1 /\ Observed(d) = {}
                \/ releases[d].assets[1] = TransactionOf[p].assets[1]
  <1> DEFINE run == publisher[p]
             d == run.draft
  <1>1. Careful(p, run) /\ d \in ReleaseIds /\ d # 0 /\ run.path \in Paths
    BY DEF CareInv, IInv, SoundRuns, SoundRun, Run
  <1>2. SeedFirst(d) /\ Unmixed(d)
    BY <1>1 DEF CareInv, PureDrafts
  <1>3. CASE run.path = 1
    <2>1. Observed(d) = {}
      BY <1>2, <1>3 DEF SeedFirst
    <2> QED BY <1>3, <2>1 DEF AssetsConflict
  <1>4. CASE run.path # 1
    <2>1. run.path > 1 /\ run.seen # Paths
      BY <1>1, <1>4, PathBounds
    <2>2. releases[d].assets[1] = TransactionOf[p].assets[1]
      BY <1>1, <2>1 DEF Careful
    <2>3. \A k \in Observed(d) : releases[d].assets[k] = TransactionOf[p].assets[k]
      BY <1>2, <2>2, HeldTransaction DEF Unmixed
    <2> QED BY <2>2, <2>3 DEF AssetsConflict
  <1> QED BY <1>3, <1>4

LEMMA UploadCareful ==
  ASSUME CareInv, IInv', NEW p \in Publishers, UploadAsset(p)
  PROVE  /\ CareInv'
         /\ \A d \in ReleaseIds : releases'[d].assets # releases[d].assets =>
              ~ AssetsConflict(p, d)
  <1>1. PICK known : known = publisher[p] /\ Careful(p, known) /\ SoundRun(p, known)
    BY DEF CareInv, IInv, SoundRuns
  <1> DEFINE d == known.draft
             k == known.path
             t == TransactionOf[p]
  <1>2. PICK run : run = [known EXCEPT !.phase = "uploaded"]
    OBVIOUS
  <1>3. known.phase = "uploading" /\ k \notin known.seen /\ tag' = tag /\ TypeOK
    BY <1>1 DEF UploadAsset, CareInv, IInv
  <1>4. known \in Run /\ d \in ReleaseIds /\ k \in Paths
    BY <1>1, <1>3 DEF SoundRun, Run
  <1>5. /\ run \in Run
        /\ run.phase = "uploaded" /\ run.draft = d /\ run.path = k
        /\ run.seen = known.seen
    BY <1>2, <1>4 DEF Run, Phases, Scanning
  <1>6. Careful(p, run)
    BY <1>1, <1>3, <1>5 DEF Careful
  <1>7. CASE Become(p, Rejected) /\ UNCHANGED releases
    BY <1>3, <1>7, IdleCareful, CareLocalStep
  <1>8. CASE publisher' = [publisher EXCEPT ![p].phase = "uploaded"]
             /\ UNCHANGED releases
    <2>1. Become(p, run)
      BY <1>1, <1>2, <1>3, <1>8, PhaseChange
    <2> QED BY <1>3, <1>6, <1>8, <2>1, CareLocalStep
  <1>9. CASE /\ publisher' = [publisher EXCEPT ![p].phase = "uploaded"]
             /\ releases[d].state = "draft" /\ releases[d].assets[k] = Absent
             /\ releases' = [releases EXCEPT ![d] =
                  WithAsset(releases[d], k, t.assets[k])]
    <2>1. Become(p, run)
      BY <1>1, <1>2, <1>3, <1>9, PhaseChange
    <2>2. releases \in [ReleaseIds -> Release] /\ releases[d] \in Release
      BY <1>3, <1>4 DEF TypeOK
    <2>3. PICK written : written = WithAsset(releases[d], k, t.assets[k])
      OBVIOUS
    <2>4. /\ written.state = "draft" /\ written.body = releases[d].body
          /\ written.assets = [releases[d].assets EXCEPT ![k] = t.assets[k]]
      BY <1>9, <2>2, <2>3 DEF WithAsset, Release
    <2>5. t \in Transactions /\ t.assets[k] # Absent /\ t.assets[1] # Absent
      BY <1>4, HeldTransaction, TransactionParts, PathBounds
    <2>6. /\ written.assets[k] = t.assets[k]
          /\ \A j \in Paths : j # k => written.assets[j] = releases[d].assets[j]
      BY <1>4, <2>2, <2>4 DEF Release
    <2>7. /\ releases'[d] = written
          /\ \A e \in ReleaseIds : e # d => releases'[e] = releases[e]
      BY <1>4, <1>9, <2>2, <2>3
    <2>8. Lasts
      <3>1. ASSUME NEW e \in ReleaseIds
            PROVE  /\ releases[e].state # "unborn" =>
                        releases'[e].state # "unborn"
                        /\ releases'[e].body = releases[e].body
                   /\ \A j \in Paths : releases[e].assets[j] # Absent =>
                        releases'[e].assets[j] = releases[e].assets[j]
                   /\ releases[e].state = "deleted" =>
                        releases'[e].state = "deleted"
        BY <1>9, <2>4, <2>6, <2>7
      <3>2. Published \subseteq Published'
        BY <1>9, <2>7 DEF Published
      <3> QED BY <1>3, <3>1, <3>2 DEF Lasts, Accumulates
    <2>9. /\ ~ AssetsConflict(p, d)
          /\ (k = 1 /\ Observed(d) = {}) \/ releases[d].assets[1] = t.assets[1]
      BY <1>1, <1>3, <1>9, UploadTarget
    <2>10. /\ Observed(d)' = Observed(d) \cup {k}
           /\ \A e \in ReleaseIds : e # d => Observed(e)' = Observed(e)
      BY <1>4, <2>5, <2>6, <2>7 DEF Observed
    <2>11. /\ 1 \in Paths /\ releases'[d].assets[1] = t.assets[1]
           /\ releases'[d].assets[k] = t.assets[k]
           /\ \A j \in Observed(d) : releases'[d].assets[j] = t.assets[j]
      <3>1. \A j \in Observed(d) : releases[d].assets[j] = t.assets[j]
        BY <2>9 DEF AssetsConflict
      <3>2. \A j \in Observed(d) : j # k /\ j \in Paths
        BY <1>9 DEF Observed
      <3> QED BY <2>6, <2>7, <2>9, <3>1, <3>2, PathBounds
    <2>12. SeedFirst(d)'
      BY <2>5, <2>11 DEF SeedFirst
    <2>13. Unmixed(d)'
      <3> SUFFICES ASSUME NEW u \in Transactions, releases'[d].assets[1] = u.assets[1],
                          NEW j \in Observed(d)'
                   PROVE  releases'[d].assets[j] = u.assets[j]
        BY DEF Unmixed
      <3>1. u.assets = t.assets
        BY <2>5, <2>11, ChecksumsAssumption
      <3> QED BY <2>10, <2>11, <3>1
    <2>14. PureDrafts'
      <3>1. \A e \in ReleaseIds : e # d => (SeedFirst(e) /\ Unmixed(e))'
        BY <2>7, <2>10 DEF CareInv, PureDrafts, SeedFirst, Unmixed
      <3> QED BY <2>12, <2>13, <3>1 DEF PureDrafts
    <2>15. Careful(p, run)'
      BY <1>5, <1>6, <2>8, CarefulStable
    <2>16. CareInv'
      BY <2>1, <2>8, <2>14, <2>15, CareStep
    <2> QED BY <2>7, <2>9, <2>16
  <1> QED BY <1>1, <1>7, <1>8, <1>9 DEF UploadAsset

\* Publication and deletion change no assets.
LEMMA StateStep ==
  ASSUME CareInv,
         \A e \in ReleaseIds : releases'[e].assets = releases[e].assets
  PROVE  PureDrafts'
  BY DEF CareInv, PureDrafts, SeedFirst, Unmixed, Observed

LEMMA PublishCareful ==
  ASSUME CareInv, IInv', NEW p \in Publishers, PublishDraft(p)
  PROVE  CareInv'
  <1>1. PICK known : known = publisher[p] /\ SoundRun(p, known)
    BY DEF CareInv, IInv, SoundRuns
  <1> DEFINE d == known.draft
  <1>2. known.phase = "publishing" /\ tag' = tag /\ TypeOK
    BY <1>1 DEF PublishDraft, CareInv, IInv
  <1>3. d \in ReleaseIds
    BY <1>1, <1>2 DEF SoundRun, Run
  <1>4. PICK run : (run = Rejected \/ run = At("inspecting", d, 1, {})) /\ Become(p, run)
    BY <1>1 DEF PublishDraft
  <1>5. Careful(p, run) /\ Careful(p, run)'
    BY <1>4 DEF Careful, Rejected, At
  <1>6. CASE UNCHANGED releases
    BY <1>2, <1>4, <1>5, <1>6, CareLocalStep
  <1>7. CASE /\ releases[d].state # "deleted" /\ Published = {}
             /\ releases' = [releases EXCEPT ![d].state = "published"]
    <2>1. releases \in [ReleaseIds -> Release]
      BY <1>2 DEF TypeOK
    <2>2. \A e \in ReleaseIds :
            /\ releases'[e].body = releases[e].body
            /\ releases'[e].assets = releases[e].assets
            /\ releases'[e].state = releases[e].state
                 \/ (e = d /\ releases'[e].state = "published")
      BY <1>3, <1>7, <2>1 DEF Release
    <2>3. Lasts
      BY <1>2, <1>7, <2>2 DEF Lasts, Accumulates
    <2>4. PureDrafts'
      BY <2>2, StateStep
    <2> QED BY <1>4, <1>5, <2>3, <2>4, CareStep
  <1> QED BY <1>1, <1>6, <1>7 DEF PublishDraft

LEMMA DeleteCareful ==
  ASSUME CareInv, IInv', NEW d \in ReleaseIds, DeleteDraft(d)
  PROVE  CareInv'
  <1>1. /\ releases[d].state = "draft" /\ UNCHANGED <<tag, publisher>> /\ TypeOK
        /\ releases' = [releases EXCEPT ![d].state = "deleted"]
    BY DEF DeleteDraft, CareInv, IInv
  <1>2. \A e \in ReleaseIds :
          /\ releases'[e].body = releases[e].body
          /\ releases'[e].assets = releases[e].assets
          /\ releases'[e].state = releases[e].state
               \/ (e = d /\ releases'[e].state = "deleted")
    BY <1>1 DEF TypeOK, Release
  <1>3. Lasts
    BY <1>1, <1>2 DEF Lasts, Accumulates, Published
  <1>4. PureDrafts'
    BY <1>2, StateStep
  <1>5. ASSUME NEW q \in Publishers PROVE Careful(q, publisher[q])'
    <2>1. PICK known : known = publisher[q]
      OBVIOUS
    <2>2. Careful(q, known)'
      BY <1>1, <1>3, <2>1, CarefulStable DEF CareInv, TypeOK
    <2> QED BY <1>1, <2>1, <2>2 DEF Careful
  <1> QED BY <1>4, <1>5 DEF CareInv

\* The steps of a run that is left with nothing to be careful about.
LEMMA IdleStep ==
  ASSUME CareInv, IInv', NEW p \in Publishers,
         InspectRelease(p) \/ LosePublisher(p) \/ RetryPublisher(p)
  PROVE  CareInv'
  <1>1. UNCHANGED <<tag, releases>>
    BY DEF InspectRelease, LosePublisher, RetryPublisher
  <1>2. PICK run : Become(p, run) /\ Careful(p, run)
    BY IdleCareful DEF InspectRelease, LosePublisher, RetryPublisher
  <1> QED BY <1>1, <1>2, CareLocalStep

\* Only an upload ends in "uploaded".
LEMMA UploadedByUpload ==
  ASSUME IInv, [Next]_vars, NEW p \in Publishers,
         publisher[p].phase = "uploading", publisher'[p].phase = "uploaded"
  PROVE  UploadAsset(p)
  <1>1. TypeOK
    BY DEF IInv
  <1>2. ASSUME NEW q \in Publishers, NEW run, Become(q, run), run.phase # "uploaded"
        PROVE  FALSE
    BY <1>1, <1>2 DEF Become, TypeOK
  <1>3. ASSUME NEW q \in Publishers, q # p, NEW run, Become(q, run)
        PROVE  FALSE
    BY <1>1, <1>3 DEF Become, TypeOK
  <1>4. CASE UNCHANGED vars \/ \E d \in ReleaseIds : DeleteDraft(d)
    BY <1>4 DEF vars, DeleteDraft
  <1>5. CASE \E q \in Publishers : LosePublisher(q) \/ RetryPublisher(q)
    BY <1>2, <1>5 DEF LosePublisher, RetryPublisher, Started, At
  <1>6. CASE \E q \in Publishers : PublishRelease(q)
    <2>1. PICK q \in Publishers : PublishRelease(q)
      BY <1>6
    <2>2. q = p
      <3> SUFFICES ASSUME q # p PROVE FALSE
        OBVIOUS
      <3>1. publisher'[p] = publisher[p]
        BY <1>1, <2>1
        DEF PublishRelease, FindByTag, ListReleases, ReadTag, CreateTag, CreateDraft,
            SkipAsset, UploadAsset, PublishDraft, InspectRelease, Become, TypeOK
      <3> QED BY <3>1
    <2>3. SkipAsset(p) => FALSE
      <3>1. NextAsset(publisher[p].draft, publisher[p].path + 1,
                      publisher[p].seen).phase # "uploaded"
        BY DEF NextAsset, At
      <3> QED BY <3>1, <1>2 DEF SkipAsset
    <2> QED
      BY <2>1, <2>2, <2>3
      DEF PublishRelease, FindByTag, ListReleases, ReadTag, CreateTag, CreateDraft,
          PublishDraft, InspectRelease, Scanning
  <1> QED BY <1>4, <1>5, <1>6 DEF Next

LEMMA CareInvStep ==
  ASSUME DuplicateDrafts, CareInv, [Next]_vars
  PROVE  CareInv'
  <1>1. IInv'
    BY NextStep DEF CareInv, Preserved, Publishes
  <1>2. ASSUME NEW p \in Publishers, PublishRelease(p) PROVE CareInv'
    BY <1>1, <1>2, FindCareful, TagCareful, CreateDraftCareful, SkipCareful,
       UploadCareful, PublishCareful, IdleStep
    DEF PublishRelease
  <1>3. ASSUME NEW p \in Publishers, LosePublisher(p) \/ RetryPublisher(p)
        PROVE  CareInv'
    BY <1>1, <1>3, IdleStep
  <1>4. ASSUME NEW d \in ReleaseIds, DeleteDraft(d) PROVE CareInv'
    BY <1>1, <1>4, DeleteCareful
  <1>5. CASE UNCHANGED vars
    BY <1>1, <1>5
    DEF vars, CareInv, PureDrafts, SeedFirst, Unmixed, Careful, Observed, Published
  <1> QED BY <1>2, <1>3, <1>4, <1>5 DEF Next

\* Where the provider accepts a second draft, publish_release never adds an asset
\* to a draft that holds bytes of another build, whoever wrote them and whenever.
THEOREM DraftsStayCompatibleHolds ==
  ASSUME DuplicateDrafts
  PROVE  Spec => DraftsStayCompatible
  <1>1. Init => CareInv
    <2> SUFFICES ASSUME Init PROVE CareInv
      OBVIOUS
    <2>1. \A d \in ReleaseIds : Observed(d) = {}
      BY DEF Init, Observed, UnbornRelease
    <2>2. PureDrafts
      BY <2>1 DEF PureDrafts, SeedFirst, Unmixed
    <2>3. \A p \in Publishers : Careful(p, publisher[p])
      BY DEF Init, Careful, Started, At
    <2> QED BY <2>2, <2>3, InitIInv DEF CareInv
  <1>2. CareInv /\ [Next]_vars => CareInv'
    BY CareInvStep
  <1>3. CareInv /\ [Next]_vars =>
          [\A p \in Publishers, d \in ReleaseIds :
             publisher[p].phase = "uploading" /\ publisher'[p].phase = "uploaded"
               /\ releases'[d].assets # releases[d].assets
             => ~ AssetsConflict(p, d)]_vars
    <2> SUFFICES ASSUME CareInv, [Next]_vars, NEW p \in Publishers, NEW d \in ReleaseIds,
                        publisher[p].phase = "uploading",
                        publisher'[p].phase = "uploaded",
                        releases'[d].assets # releases[d].assets
                 PROVE  ~ AssetsConflict(p, d)
      OBVIOUS
    <2>1. UploadAsset(p) /\ IInv'
      BY UploadedByUpload, NextStep DEF CareInv, Preserved, Publishes
    <2> QED BY <2>1, UploadCareful
  <1> QED BY <1>1, <1>2, <1>3, PTL DEF Spec, DraftsStayCompatible
=============================================================================

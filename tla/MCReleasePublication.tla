------------------------ MODULE MCReleasePublication ------------------------
EXTENDS ReleasePublication, TLC

CONSTANTS p1, p2, p3, c1, c2, notes, x1, x2, y1, y2, z

Built(commit, sums, sdist, wheel) ==
  [commit |-> commit, body |-> notes, assets |-> <<sums, sdist, wheel>>]

\* Two builds of one commit that agree in one asset, and a build of the commit
\* merged next.
ThreeBuilds ==
  (p1 :> Built(c1, x1, z, y1)) @@ (p2 :> Built(c1, x2, z, y2))
    @@ (p3 :> Built(c2, x2, z, y2))

OneBuild == [p \in {p1, p2, p3} |-> Built(c1, x1, z, y1)]

OneBuildTwice == [p \in {p1, p2} |-> Built(c1, x1, z, y1)]

TwoBuilds == (p1 :> Built(c1, x1, z, y1)) @@ (p2 :> Built(c1, x2, z, y2))
=============================================================================

----------------------------- MODULE MCDiscovery -----------------------------
(* Discovery for TLC: two projects, three types, one of which cannot be    *)
(* listed, and listings of up to three pages.                              *)
EXTENDS Discovery, TLC

CONSTANTS myProject, otherProject, network, autoscaler, tagbinding, n1, n2, a1, b1

TwoProjects == {myProject, otherProject}
NoTypes     == {}
ThreeTypes  == {network, autoscaler, tagbinding}
TwoTypes    == {network, autoscaler}
What        == {n1, n2, a1, b1}
Named       == {n1, n2, b1}
Projected   == n1 :> myProject @@ a1 :> myProject @@ b1 :> myProject @@ n2 :> otherProject
Typed       == n1 :> network @@ n2 :> network @@ a1 :> autoscaler @@ b1 :> tagbinding
=============================================================================

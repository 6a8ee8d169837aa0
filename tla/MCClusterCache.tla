---------------------------- MODULE MCClusterCache ----------------------------
(* Two instances; on one an administrator, the agent's tools and the proxy,   *)
(* on the other a second administrator.                                       *)
EXTENDS ClusterCache, TLC
CONSTANTS i1, i2, w1, w2, r1, p1, first
MCInstances == {i1, i2}
MCWriters == {w1, w2}
MCReaders == {r1}
MCProxied == {p1}
MCAt == w1 :> i1 @@ w2 :> i2 @@ r1 :> i1 @@ p1 :> i1
=============================================================================

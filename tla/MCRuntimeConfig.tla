--------------------------- MODULE MCRuntimeConfig ---------------------------
(* Two instances and two callers; one tool, one skill, two versions.          *)
EXTENDS RuntimeConfig, TLC
CONSTANTS i1, i2, c1, c2, t, k
MCInstances == {i1, i2}
MCCalls == {c1, c2}
MCTools == {t}
MCSkills == {k}
MCStartup == [over |-> {}, skills |-> {k}]
MCRequests == {[remove |-> {}, add |-> {t}, skills |-> None], [remove |-> {}, add |-> {}, skills |-> {}]}
MCPlacements == {c1 :> i1 @@ c2 :> i1, c1 :> i1 @@ c2 :> i2}
=============================================================================

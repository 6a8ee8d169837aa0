----------------------------- MODULE MCAdmission -----------------------------
(* Without Redis: three goroutines, two users, a release function called by  *)
(* two goroutines, so that an overshoot, a roll-back and a repeated release  *)
(* overlap.  With Redis: two runs of alice, who may have one; two runs may   *)
(* execute in all, and bob is not limited.  The clock of r1's instance is    *)
(* one unit ahead.  Units of 30 s: TTL 3, refresh 1, so that one unit of     *)
(* skew satisfies TimeAssumption with nothing to spare.  A refusal and a     *)
(* loss come from the second key of a script, after the first was purged or  *)
(* renewed.                                                                  *)
EXTENDS Admission

CONSTANTS p1, p2, p3, u1, u2, c1, c2, r1, r2, global, alice, bob

MCProcs == {p1, p2, p3}
MCUsers == {u1, u2}
MCCallers == {c1, c2}

MCRuns == {r1, r2}
MCKeys == {global, alice, bob}
MCLimit == [k \in MCKeys |-> CASE k = global -> 2 [] k = alice -> 1 [] k = bob -> 0]
MCDims == [r \in Runs |-> IF r = r1 THEN MCKeys ELSE {global, alice}]
MCPos == [k \in MCKeys |-> IF k = global THEN 0 ELSE 1]
MCOffset == [r \in Runs |-> IF r = r1 THEN 1 ELSE 0]
=============================================================================

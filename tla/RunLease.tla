------------------------------ MODULE RunLease ------------------------------
(***************************************************************************)
(* The distributed admission control of Agent runs (and of kapi sessions): *)
(* platform/coordination/redis.go as run_coordination.go uses it.  Redis   *)
(* keeps one sorted set per limited dimension: its members are run ids and *)
(* the score of a member is the instant its lease ends.  acquire and       *)
(* refresh are Lua scripts, hence atomic; release is a pipeline of ZREMs,  *)
(* hence one step per key.  The scripts get the clock of the caller, so    *)
(* each run carries the offset of its instance's clock.                    *)
(*                                                                         *)
(* Time is relative: rem[k][r] is the score of r in key k minus the true   *)
(* time, life[k] the PEXPIRE of key k, age[r] the time since run r last    *)
(* wrote its lease.  A clock with offset d sees a member expired when      *)
(* rem <= d.                                                               *)
(***************************************************************************)
EXTENDS Integers, FiniteSets

CONSTANTS
  Runs,             \* run ids, the members of the sorted sets
  Keys,             \* the dimensions: the global key and one key per user
  Limit,            \* [Keys -> Nat], 0 means the dimension is not limited
  Dims,             \* [Runs -> SUBSET Keys], the dimensions a run occupies
  Pos,              \* [Keys -> Nat], the order the scripts visit the keys in
  Offset,           \* [Runs -> Int], clock of the run's instance minus true time
  TTL,              \* RUN_LEASE_TTL
  RefreshInterval,  \* RUN_LEASE_REFRESH_INTERVAL
  Floor             \* bound: rem is not counted down below Floor

ASSUME SetsAssumption ==
  /\ IsFiniteSet(Runs)
  /\ Limit \in [Keys -> Nat]
  /\ Dims \in [Runs -> SUBSET Keys]
  /\ Pos \in [Keys -> Nat]

\* A lease refreshed on time is alive for every clock (90 s against 30 s), and
\* at Floor a member is expired for every clock.
ASSUME TimeAssumption ==
  /\ TTL \in Nat
  /\ RefreshInterval \in Nat \ {0}
  /\ Floor \in Int
  /\ Offset \in [Runs -> Int]
  /\ \A q, r \in Runs : Offset[q] - Offset[r] + RefreshInterval < TTL
  /\ \A r \in Runs : Floor <= Offset[r]

VARIABLES
  members,  \* the run ids in each sorted set
  rem,      \* remaining lifetime of a member, meaningless for a non-member
  life,     \* remaining lifetime of a key
  phase,    \* the run, as the holder of its lease
  prompt,   \* the run's heartbeat has never been late since its last write
  age,      \* time since the run wrote its lease
  todo      \* keys whose ZREM is still to be executed

vars == <<members, rem, life, phase, prompt, age, todo>>

\* "live": admitted and heartbeating; "leaving": finished, cancelled, or told
\* that the lease is lost, not yet released; "gone": released, crashed or never
\* told that it was admitted.
Phases == {"idle", "live", "leaving", "gone"}

TypeOK ==
  /\ members \in [Keys -> SUBSET Runs]
  /\ rem \in [Keys -> [Runs -> Int]]
  /\ life \in [Keys -> 0..2 * TTL]
  /\ phase \in [Runs -> Phases]
  /\ prompt \in [Runs -> BOOLEAN]
  /\ age \in [Runs -> 0..RefreshInterval]
  /\ todo \in [Runs -> SUBSET Keys]

Init ==
  /\ members = [k \in Keys |-> {}]
  /\ rem = [k \in Keys |-> [r \in Runs |-> Floor]]
  /\ life = [k \in Keys |-> 0]
  /\ phase = [r \in Runs |-> "idle"]
  /\ prompt = [r \in Runs |-> FALSE]
  /\ age = [r \in Runs |-> 0]
  /\ todo = [r \in Runs |-> {}]

-----------------------------------------------------------------------------
\* RedisCoordinator.Acquire drops the dimensions that are not limited.
Limited(r) == {k \in Dims[r] : Limit[k] > 0}

Earlier(r, k) == {j \in Limited(r) : Pos[j] <= Pos[k]}

\* ZREMRANGEBYSCORE key -inf now, with the clock of run r.
Unexpired(k, r) == {m \in members[k] : rem[k][m] > Offset[r]}
Purge(K, r) == [k \in Keys |-> IF k \in K THEN Unexpired(k, r) ELSE members[k]]

HasRoom(k, r) == Cardinality(Unexpired(k, r)) < Limit[k]

\* The second loop of both scripts: ZADD with the new expiry, PEXPIRE.
WriteLease(r) ==
  /\ rem' = [k \in Keys |->
               IF k \in Limited(r) THEN [rem[k] EXCEPT ![r] = Offset[r] + TTL] ELSE rem[k]]
  /\ life' = [k \in Keys |-> IF k \in Limited(r) THEN 2 * TTL ELSE life[k]]
  /\ age' = [age EXCEPT ![r] = 0]

AddFirstOnly(K, r) ==   \* mutant: only the dimension visited first is taken
  [k \in Keys |-> IF k \in K /\ \A j \in K : Pos[k] <= Pos[j]
                  THEN Unexpired(k, r) \cup {r} ELSE members[k]]
AddMember(K, r) ==
  [k \in Keys |-> IF k \in K THEN Unexpired(k, r) \cup {r} ELSE members[k]]

\* acquireSemaphoreScript returned 1; the reply may be lost, then the caller
\* answers 503 and nobody will refresh or release the lease.
Acquire(r, told) ==
  /\ phase[r] = "idle"
  /\ \A k \in Limited(r) : HasRoom(k, r)
  /\ members' = AddMember(Limited(r), r)
  /\ WriteLease(r)
  /\ phase' = [phase EXCEPT ![r] = IF told THEN "live" ELSE "gone"]
  /\ prompt' = [prompt EXCEPT ![r] = told]
  /\ UNCHANGED todo

\* acquireSemaphoreScript returned 0 at the first full key; the keys up to it
\* have been purged.  The request is answered with 429.
Denied(r) ==
  /\ phase[r] = "idle"
  /\ \E k \in Limited(r) :
       /\ ~HasRoom(k, r)
       /\ \A j \in Earlier(r, k) \ {k} : HasRoom(j, r)
       /\ members' = Purge(Earlier(r, k), r)
  /\ UNCHANGED <<rem, life, phase, prompt, age, todo>>

\* The heartbeat goroutine of the run: startRunHeartbeat until its stop function.
Heartbeating(r) == phase[r] = "live"

StillHeldUnchecked(r) == r \in Runs   \* mutant: the first loop of the script is missing
StillHeld(r) == \A k \in Limited(r) : r \in Unexpired(k, r)

\* refreshSemaphoreScript returned 1: ZADD XX in every key.
Refresh(r) ==
  /\ Heartbeating(r)
  /\ age[r] > 0 \/ ~prompt[r]
  /\ StillHeld(r)
  /\ members' = Purge(Limited(r), r)
  /\ WriteLease(r)
  /\ prompt' = [prompt EXCEPT ![r] = TRUE]
  /\ UNCHANGED <<phase, todo>>

Leave(r) == todo' = [todo EXCEPT ![r] = Limited(r)]

\* The script returned 0 at the first key without the member: the heartbeat
\* goroutine cancels the run.
RefreshLost(r) ==
  /\ Heartbeating(r)
  /\ \E k \in Limited(r) :
       /\ r \notin Unexpired(k, r)
       /\ \A j \in Earlier(r, k) \ {k} : r \in Unexpired(j, r)
       /\ members' = Purge(Earlier(r, k), r)
  /\ phase' = [phase EXCEPT ![r] = "leaving"]
  /\ Leave(r)
  /\ UNCHANGED <<rem, life, prompt, age>>

\* The run ends, is cancelled by a user, or its refresh fails with an error
\* (before the script or after it), which also cancels it.
Finish(r) ==
  /\ phase[r] = "live"
  /\ phase' = [phase EXCEPT ![r] = "leaving"]
  /\ Leave(r)
  /\ UNCHANGED <<members, rem, life, prompt, age>>

\* One ZREM of the release pipeline, in the order of the keys.
ReleaseKey(r) ==
  /\ phase[r] = "leaving"
  /\ \E k \in todo[r] :
       /\ \A j \in todo[r] : Pos[k] <= Pos[j]
       /\ members' = [members EXCEPT ![k] = @ \ {r}]
       /\ todo' = [todo EXCEPT ![r] = @ \ {k}]
  /\ UNCHANGED <<rem, life, phase, prompt, age>>

\* The release is complete, or it failed (its errors are only logged), or the
\* instance died: what has not been removed is left to expire.
Gone(r) ==
  /\ phase[r] \in {"live", "leaving"}
  /\ phase' = [phase EXCEPT ![r] = "gone"]
  /\ todo' = [todo EXCEPT ![r] = {}]
  /\ UNCHANGED <<members, rem, life, prompt, age>>

Released(r) == phase[r] = "leaving" /\ todo[r] = {} /\ Gone(r)

\* The process of the run is not scheduled, or cannot reach Redis in time.
Stall(r) ==
  /\ phase[r] = "live"
  /\ prompt[r]
  /\ prompt' = [prompt EXCEPT ![r] = FALSE]
  /\ UNCHANGED <<members, rem, life, phase, age, todo>>

\* Run ids are never used twice; a gone id whose members are gone too stands
\* for a fresh one.
Fresh(r) ==
  /\ phase[r] = "gone"
  /\ \A k \in Keys : r \notin members[k]
  /\ phase' = [phase EXCEPT ![r] = "idle"]
  /\ UNCHANGED <<members, rem, life, prompt, age, todo>>

\* Time passes; a run whose heartbeat is due and that is not stalled refreshes
\* first.  A key whose PEXPIRE runs out disappears with its members.
Due(r) == Heartbeating(r) /\ prompt[r] /\ age[r] >= RefreshInterval

Tick ==
  /\ \A r \in Runs : ~Due(r)
  /\ rem' = [k \in Keys |-> [r \in Runs |->
               IF rem[k][r] > Floor THEN rem[k][r] - 1 ELSE rem[k][r]]]
  /\ life' = [k \in Keys |-> IF life[k] > 0 THEN life[k] - 1 ELSE 0]
  /\ members' = [k \in Keys |-> IF life[k] <= 1 THEN {} ELSE members[k]]
  /\ age' = [r \in Runs |-> IF phase[r] = "live" /\ prompt[r] THEN age[r] + 1 ELSE age[r]]
  /\ UNCHANGED <<phase, prompt, todo>>

Heartbeat(r) == Refresh(r) \/ RefreshLost(r)

Next ==
  \/ Tick
  \/ \E r \in Runs :
       \/ \E told \in BOOLEAN : Acquire(r, told)
       \/ Denied(r)
       \/ Refresh(r)
       \/ RefreshLost(r)
       \/ Finish(r)
       \/ ReleaseKey(r)
       \/ Gone(r)
       \/ Stall(r)
       \/ Fresh(r)

\* Time passes, heartbeat goroutines run (a stalled one comes back), and the
\* deferred release of a run that ends is executed.
Fairness ==
  /\ WF_vars(Tick)
  /\ \A r \in Runs : WF_vars(Heartbeat(r)) /\ WF_vars(ReleaseKey(r)) /\ WF_vars(Released(r))

Spec == Init /\ [][Next]_vars
FairSpec == Spec /\ Fairness

-----------------------------------------------------------------------------
\* No dimension ever has more members than its limit, whatever the clocks.
WithinLimit == \A k \in Keys : Limit[k] > 0 => Cardinality(members[k]) <= Limit[k]

\* What the limit is for: the runs that are really executing, and whose
\* heartbeats are on time, are within every limit, although every instance
\* purges with its own clock and leases expire lazily.
PromptRuns(k) == {r \in Runs : phase[r] = "live" /\ prompt[r] /\ k \in Dims[r]}
PromptRunsWithinLimit == \A k \in Keys : Limit[k] > 0 => Cardinality(PromptRuns(k)) <= Limit[k]

\* coordination.go:23-24: all limited dimensions succeed or fail atomically.  A
\* run gains a place only by being admitted, and then in every dimension; a
\* refresh that finds one place lost restores none.
AllOrNothing ==
  [][\A r \in Runs : (\E k \in Keys : r \in members'[k] \ members[k]) =>
        phase[r] = "idle" /\ \A k \in Limited(r) : r \in members'[k]]_vars

\* A run that has lost a place learns it at a heartbeat and stops
\* (coordination.go:16-17).
LossIsNoticed ==
  \A r \in Runs :
    (phase[r] = "live" /\ \E k \in Limited(r) : r \notin members[k]) ~> phase[r] # "live"

\* Whatever happens to its holder, a place is free again after a while: a run
\* that is gone has no member that any clock still sees as alive.
PlacesComeBack ==
  \A r \in Runs : phase[r] = "gone" ~>
    (\A k \in Keys : r \in members[k] => \A q \in Runs : rem[k][r] <= Offset[q])

\* The limits, in Redis and in what really executes.
LeaseLimitsHold == WithinLimit /\ PromptRunsWithinLimit

\* The contract of Semaphore and Lease, step by step and in the end.
LeaseContract == AllOrNothing /\ LossIsNoticed /\ PlacesComeBack

-----------------------------------------------------------------------------
\* The inductive invariant behind PromptRunsWithinLimit: a prompt run holds
\* every place, with a lease no older than its age.
MembersLimited == \A k \in Keys : \A r \in members[k] : k \in Limited(r)

PromptLease ==
  \A r \in Runs : phase[r] = "live" /\ prompt[r] =>
    \A k \in Limited(r) :
      /\ r \in members[k]
      /\ rem[k][r] >= Offset[r] + TTL - age[r]
      /\ life[k] >= 2 * TTL - age[r]

IInv == TypeOK /\ MembersLimited /\ WithinLimit /\ PromptLease
=============================================================================

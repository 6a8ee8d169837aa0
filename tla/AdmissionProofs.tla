--------------------------- MODULE AdmissionProofs ---------------------------
(***************************************************************************)
(* The leases in Redis for all sets of runs and keys, limits, lease times  *)
(* and clock offsets within TimeAssumption, by the inductive invariant     *)
(* IInv of RunLease; the in-process limits for every number of goroutines  *)
(* and users and every pair of maxima, by LimiterIInv; and the limits of   *)
(* the service whichever way it was built, because every behaviour of      *)
(* Admission is one of the limiter and one of the leases.                  *)
(***************************************************************************)
EXTENDS Admission, FiniteSetTheorems, TLAPS


-----------------------------------------------------------------------------
(* The leases in Redis.  The argument: a run whose heartbeats are on time  *)
(* wrote its lease at most RefreshInterval ago, so no clock sees it        *)
(* expired and nobody purges it (PromptLease); hence the prompt runs of a  *)
(* dimension are members of its sorted set, whose size the acquire script  *)
(* bounds (WithinLimit).                                                   *)

USE SetsAssumption, TimeAssumption

\* Every set of runs is finite, and its size is a natural number.
LEMMA RunSets == \A S \in SUBSET Runs : IsFiniteSet(S) /\ Cardinality(S) \in Nat
  BY FS_Subset, FS_CardinalityType

\* A subset of a set of runs is not larger.
LEMMA Smaller == \A T \in SUBSET Runs : \A S \in SUBSET T : Cardinality(S) <= Cardinality(T)
  BY FS_Subset

\* Adding one member adds at most one to the size.
LEMMA OneMore ==
  \A S \in SUBSET Runs : \A r \in Runs : Cardinality(S \cup {r}) <= Cardinality(S) + 1
<1> SUFFICES ASSUME NEW S \in SUBSET Runs, NEW r \in Runs
             PROVE  Cardinality(S \cup {r}) <= Cardinality(S) + 1
    OBVIOUS
<1>1. IsFiniteSet(S) /\ Cardinality(S) \in Nat
    BY RunSets
<1>2. CASE r \in S
  <2>1. S \cup {r} = S
      BY <1>2
  <2>2. Cardinality(S \cup {r}) = Cardinality(S)
      BY <2>1, Zenon
  <2> QED BY <1>1, <2>2
<1>3. CASE r \notin S
  <2>1. Cardinality(S \cup {r}) = Cardinality(S) + 1
      BY <1>1, <1>3, FS_AddElement
  <2> QED BY <1>1, <2>1
<1> QED BY <1>2, <1>3

\* With no change of the leases, the invariant stays.
LEMMA StutterInv == IInv /\ UNCHANGED vars => IInv'
  BY DEF IInv, TypeOK, MembersLimited, WithinLimit, PromptLease, Limited, vars

\* The limit is kept by every step that adds no member.
LEMMA ShrinkWithin ==
  ASSUME TypeOK, WithinLimit, members' \in [Keys -> SUBSET Runs],
         \A k \in Keys : members'[k] \subseteq members[k]
  PROVE  WithinLimit'
<1> SUFFICES ASSUME NEW k \in Keys, Limit[k] > 0
             PROVE  Cardinality(members'[k]) <= Limit[k]
    BY DEF WithinLimit
<1>1. Cardinality(members'[k]) <= Cardinality(members[k])
    BY Smaller DEF TypeOK
<1>2. Cardinality(members[k]) <= Limit[k]
    BY DEF WithinLimit
<1>3. members'[k] \in SUBSET Runs /\ members[k] \in SUBSET Runs /\ Limit[k] \in Nat
    BY DEF TypeOK
<1>4. Cardinality(members'[k]) \in Nat /\ Cardinality(members[k]) \in Nat
    BY <1>3, RunSets
<1> QED BY <1>1, <1>2, <1>3, <1>4

\* No clock sees the lease of a prompt run expired.
LEMMA PromptAlive ==
  ASSUME TypeOK, PromptLease, NEW r \in Runs, NEW q \in Runs,
         phase[r] = "live", prompt[r], NEW k \in Limited(r)
  PROVE  r \in Unexpired(k, q)
<1>1. k \in Keys
    BY DEF Limited
<1>2. r \in members[k] /\ rem[k][r] >= Offset[r] + TTL - age[r]
    BY DEF PromptLease
<1>3. rem[k][r] \in Int /\ age[r] \in 0..RefreshInterval
    BY <1>1 DEF TypeOK
<1>4. Offset[q] \in Int /\ Offset[r] \in Int /\ Offset[q] - Offset[r] + RefreshInterval < TTL
    OBVIOUS
<1>5. rem[k][r] > Offset[q]
    BY <1>2, <1>3, <1>4
<1> QED BY <1>2, <1>5 DEF Unexpired

\* PromptLease survives a step that keeps the leases of the other prompt runs,
\* and makes no other run prompt.
LEMMA KeepPrompt ==
  ASSUME TypeOK, PromptLease, NEW r \in Runs,
         \A q \in Runs \ {r} : phase'[q] = phase[q] /\ prompt'[q] = prompt[q] /\ age'[q] = age[q],
         \A q \in Runs \ {r} : phase[q] = "live" /\ prompt[q] => \A k \in Limited(q) :
            q \in members'[k] /\ rem'[k][q] >= rem[k][q] /\ life'[k] >= life[k]
              /\ rem'[k][q] \in Int /\ life'[k] \in Int,
         phase'[r] = "live" /\ prompt'[r] => \A k \in Limited(r) :
            /\ r \in members'[k]
            /\ rem'[k][r] >= Offset[r] + TTL - age'[r]
            /\ life'[k] >= 2 * TTL - age'[r]
  PROVE  PromptLease'
<1> SUFFICES ASSUME NEW q \in Runs, phase'[q] = "live", prompt'[q], NEW k \in Limited(q)
             PROVE  /\ q \in members'[k]
                    /\ rem'[k][q] >= Offset[q] + TTL - age'[q]
                    /\ life'[k] >= 2 * TTL - age'[q]
    BY DEF PromptLease, Limited
<1>1. CASE q = r
    BY <1>1
<1>2. CASE q # r
  <2>1. phase[q] = "live" /\ prompt[q] /\ age'[q] = age[q]
      BY <1>2
  <2>2. /\ q \in members'[k] /\ rem'[k][q] >= rem[k][q] /\ life'[k] >= life[k]
        /\ rem'[k][q] \in Int /\ life'[k] \in Int
      BY <1>2, <2>1
  <2>3. rem[k][q] >= Offset[q] + TTL - age[q] /\ life[k] >= 2 * TTL - age[q]
      BY <2>1 DEF PromptLease
  <2>4. rem[k][q] \in Int /\ life[k] \in Int /\ age[q] \in Int /\ Offset[q] \in Int /\ TTL \in Int
      BY DEF TypeOK, Limited
  <2> QED BY <2>1, <2>2, <2>3, <2>4
<1> QED BY <1>1, <1>2

\* What writing the lease of r does to the scores and the key lifetimes.
LEMMA WriteLeaseFacts ==
  ASSUME TypeOK, NEW r \in Runs, WriteLease(r)
  PROVE  /\ rem' \in [Keys -> [Runs -> Int]]
         /\ life' \in [Keys -> 0..2 * TTL]
         /\ age' \in [Runs -> 0..RefreshInterval]
         /\ age'[r] = 0
         /\ \A q \in Runs \ {r} : age'[q] = age[q]
         /\ \A k \in Limited(r) : rem'[k][r] = Offset[r] + TTL /\ life'[k] = 2 * TTL
         /\ \A k \in Keys : life'[k] >= life[k]
         /\ \A k \in Keys, q \in Runs \ {r} : rem'[k][q] = rem[k][q]
<1>1. rem' \in [Keys -> [Runs -> Int]]
  <2>1. Offset[r] + TTL \in Int
      OBVIOUS
  <2> QED BY <2>1 DEF WriteLease, TypeOK
<1>2. life' \in [Keys -> 0..2 * TTL]
    BY DEF WriteLease, TypeOK
<1>3. age' \in [Runs -> 0..RefreshInterval] /\ age'[r] = 0 /\ \A q \in Runs \ {r} : age'[q] = age[q]
    BY DEF WriteLease, TypeOK
<1>4. \A k \in Limited(r) : rem'[k][r] = Offset[r] + TTL /\ life'[k] = 2 * TTL
    BY DEF WriteLease, TypeOK, Limited
<1>5. \A k \in Keys : life'[k] >= life[k]
    BY DEF WriteLease, TypeOK
<1>6. \A k \in Keys, q \in Runs \ {r} : rem'[k][q] = rem[k][q]
    BY DEF WriteLease, TypeOK
<1> QED BY <1>1, <1>2, <1>3, <1>4, <1>5, <1>6
-----------------------------------------------------------------------------
\* An admission keeps the invariant: it purges only leases that no prompt run
\* holds, and adds one member where there is room for it.
LEMMA AcquireInv == ASSUME IInv, NEW r \in Runs, NEW told \in BOOLEAN, Acquire(r, told)
                    PROVE  IInv'
<1> USE DEF IInv
<1>1. WriteLease(r) /\ phase[r] = "idle"
    BY DEF Acquire
<1>2. \A k \in Keys : k \in Limited(r) => members'[k] = Unexpired(k, r) \cup {r}
    BY DEF Acquire, AddMember
<1>3. \A k \in Keys : k \notin Limited(r) => members'[k] = members[k]
    BY DEF Acquire, AddMember
<1>4. members' \in [Keys -> SUBSET Runs]
    BY DEF Acquire, AddMember, Unexpired, TypeOK
<1>5. phase' \in [Runs -> Phases] /\ prompt' \in [Runs -> BOOLEAN] /\ todo' = todo
    BY DEF Acquire, TypeOK, Phases
<1>6. TypeOK'
    BY <1>1, <1>4, <1>5, WriteLeaseFacts DEF TypeOK
<1>7. MembersLimited'
    BY <1>2, <1>3 DEF MembersLimited, Limited, Unexpired
<1>8. WithinLimit'
  <2> SUFFICES ASSUME NEW k \in Keys, Limit[k] > 0 PROVE Cardinality(members'[k]) <= Limit[k]
      BY DEF WithinLimit
  <2>1. CASE k \in Limited(r)
    <3>1. Cardinality(Unexpired(k, r)) < Limit[k]
        BY <2>1 DEF Acquire, HasRoom
    <3>2. Unexpired(k, r) \in SUBSET Runs
        BY DEF Unexpired, TypeOK
    <3>3. Cardinality(Unexpired(k, r)) \in Nat /\ Cardinality(members'[k]) \in Nat
        BY <3>2, <1>4, RunSets
    <3>4. Cardinality(members'[k]) <= Cardinality(Unexpired(k, r)) + 1
        BY <2>1, <1>2, <3>2, OneMore
    <3> QED BY <3>1, <3>3, <3>4
  <2>2. CASE k \notin Limited(r)
      BY <2>2, <1>3 DEF WithinLimit
  <2> QED BY <2>1, <2>2
<1>9. PromptLease'
  <2>1. ASSUME NEW q \in Runs \ {r}
        PROVE  phase'[q] = phase[q] /\ prompt'[q] = prompt[q] /\ age'[q] = age[q]
      BY <1>1, WriteLeaseFacts DEF Acquire, TypeOK
  <2>2. ASSUME NEW q \in Runs \ {r}, phase[q] = "live", prompt[q], NEW k \in Limited(q)
        PROVE  /\ q \in members'[k] /\ rem'[k][q] >= rem[k][q] /\ life'[k] >= life[k]
               /\ rem'[k][q] \in Int /\ life'[k] \in Int
    <3>1. k \in Keys
        BY DEF Limited
    <3>2. q \in Unexpired(k, r)
        BY <2>2, PromptAlive
    <3>3. q \in members'[k]
        BY <3>1, <3>2, <1>2, <1>3 DEF Unexpired
    <3>4. rem'[k][q] = rem[k][q] /\ rem'[k][q] \in Int /\ life'[k] >= life[k] /\ life'[k] \in Int
        BY <1>1, <3>1, WriteLeaseFacts
    <3> QED BY <3>3, <3>4
  <2>3. ASSUME NEW k \in Limited(r)
        PROVE  /\ r \in members'[k]
               /\ rem'[k][r] >= Offset[r] + TTL - age'[r]
               /\ life'[k] >= 2 * TTL - age'[r]
    <3>1. r \in members'[k]
        BY <1>2 DEF Limited
    <3>2. rem'[k][r] = Offset[r] + TTL /\ life'[k] = 2 * TTL /\ age'[r] = 0
        BY <1>1, WriteLeaseFacts
    <3> QED BY <3>1, <3>2
  <2> QED BY <2>1, <2>2, <2>3, KeepPrompt
<1> QED BY <1>6, <1>7, <1>8, <1>9

\* A step of r that writes no lease, removes no member of another prompt run
\* and does not make r a live prompt run, keeps the invariant.
LEMMA ShrinkInv ==
  ASSUME IInv, NEW r \in Runs,
         rem' = rem, life' = life, age' = age,
         members' \in [Keys -> SUBSET Runs],
         phase' \in [Runs -> Phases], prompt' \in [Runs -> BOOLEAN], todo' \in [Runs -> SUBSET Keys],
         \A k \in Keys : members'[k] \subseteq members[k],
         \A q \in Runs \ {r} : phase'[q] = phase[q] /\ prompt'[q] = prompt[q],
         \A q \in Runs \ {r} : phase[q] = "live" /\ prompt[q] =>
            \A k \in Limited(q) : q \in members'[k],
         ~(phase'[r] = "live" /\ prompt'[r])
  PROVE  IInv'
<1> USE DEF IInv
<1>1. TypeOK'
    BY DEF TypeOK
<1>2. MembersLimited'
    BY DEF MembersLimited, Limited
<1>3. WithinLimit'
    BY ShrinkWithin
<1>4. PromptLease'
    BY DEF PromptLease, Limited
<1> QED BY <1>1, <1>2, <1>3, <1>4

\* Purging with any clock only removes members, and none of a prompt run.
LEMMA PurgeFacts ==
  ASSUME TypeOK, PromptLease, NEW K \in SUBSET Keys, NEW r \in Runs
  PROVE  /\ Purge(K, r) \in [Keys -> SUBSET Runs]
         /\ \A k \in Keys : Purge(K, r)[k] \subseteq members[k]
         /\ \A q \in Runs : phase[q] = "live" /\ prompt[q] =>
               \A k \in Limited(q) : q \in Purge(K, r)[k]
<1>1. Purge(K, r) \in [Keys -> SUBSET Runs] /\ \A k \in Keys : Purge(K, r)[k] \subseteq members[k]
    BY DEF Purge, Unexpired, TypeOK
<1>2. ASSUME NEW q \in Runs, phase[q] = "live", prompt[q], NEW k \in Limited(q)
      PROVE  q \in Purge(K, r)[k]
  <2>1. k \in Keys /\ q \in members[k]
      BY <1>2 DEF PromptLease, Limited
  <2>2. q \in Unexpired(k, r)
      BY <1>2, PromptAlive
  <2> QED BY <2>1, <2>2 DEF Purge
<1> QED BY <1>1, <1>2

LEMMA KeySets == \A r \in Runs : Limited(r) \in SUBSET Keys /\ \A k \in Keys : Earlier(r, k) \in SUBSET Keys
  BY DEF Limited, Earlier

\* A refused admission purges, and starts nothing.
LEMMA DeniedInv == ASSUME IInv, NEW r \in Runs, Denied(r) PROVE IInv'
<1> USE DEF IInv
<1>1. PICK k \in Keys : members' = Purge(Earlier(r, k), r)
    BY DEF Denied, Limited
<1>2. Earlier(r, k) \in SUBSET Keys
    BY KeySets
<1>3. /\ members' \in [Keys -> SUBSET Runs]
      /\ \A j \in Keys : members'[j] \subseteq members[j]
      /\ \A q \in Runs : phase[q] = "live" /\ prompt[q] => \A j \in Limited(q) : q \in members'[j]
    BY <1>1, <1>2, PurgeFacts
<1>4. phase[r] = "idle" /\ UNCHANGED <<rem, life, phase, prompt, age, todo>>
    BY DEF Denied
<1>5. phase' \in [Runs -> Phases] /\ prompt' \in [Runs -> BOOLEAN] /\ todo' \in [Runs -> SUBSET Keys]
    BY <1>4 DEF TypeOK
<1> QED BY <1>3, <1>4, <1>5, ShrinkInv

\* A refresh that finds a place lost purges, and makes its run leave.
LEMMA RefreshLostInv == ASSUME IInv, NEW r \in Runs, RefreshLost(r) PROVE IInv'
<1> USE DEF IInv
<1>1. PICK k \in Keys : members' = Purge(Earlier(r, k), r)
    BY DEF RefreshLost, Limited
<1>2. Earlier(r, k) \in SUBSET Keys
    BY KeySets
<1>3. /\ members' \in [Keys -> SUBSET Runs]
      /\ \A j \in Keys : members'[j] \subseteq members[j]
      /\ \A q \in Runs : phase[q] = "live" /\ prompt[q] => \A j \in Limited(q) : q \in members'[j]
    BY <1>1, <1>2, PurgeFacts
<1>4. /\ phase' = [phase EXCEPT ![r] = "leaving"] /\ todo' = [todo EXCEPT ![r] = Limited(r)]
      /\ UNCHANGED <<rem, life, prompt, age>>
    BY DEF RefreshLost, Leave
<1>5. phase' \in [Runs -> Phases] /\ prompt' \in [Runs -> BOOLEAN] /\ todo' \in [Runs -> SUBSET Keys]
    BY <1>4, KeySets DEF TypeOK, Phases
<1>6. phase'[r] # "live" /\ \A q \in Runs \ {r} : phase'[q] = phase[q] /\ prompt'[q] = prompt[q]
    BY <1>4 DEF TypeOK
<1> QED BY <1>3, <1>4, <1>5, <1>6, ShrinkInv

\* The steps that leave the sorted sets alone: the run ends, dies, stalls, or
\* its id is used for a new run.
LEMMA HolderInv ==
  ASSUME IInv, NEW r \in Runs, Finish(r) \/ Gone(r) \/ Stall(r) \/ Fresh(r)
  PROVE  IInv'
<1> USE DEF IInv
<1>1. UNCHANGED <<members, rem, life, age>>
    BY DEF Finish, Gone, Stall, Fresh
<1>2. /\ phase' \in [Runs -> Phases] /\ prompt' \in [Runs -> BOOLEAN]
      /\ todo' \in [Runs -> SUBSET Keys]
    BY KeySets DEF Finish, Gone, Stall, Fresh, Leave, TypeOK, Phases
<1>3. \A q \in Runs \ {r} : phase'[q] = phase[q] /\ prompt'[q] = prompt[q]
    BY DEF Finish, Gone, Stall, Fresh, TypeOK
<1>4. ~(phase'[r] = "live" /\ prompt'[r])
    BY DEF Finish, Gone, Stall, Fresh, TypeOK
<1>5. members' \in [Keys -> SUBSET Runs] /\ \A k \in Keys : members'[k] \subseteq members[k]
    BY <1>1 DEF TypeOK
<1>6. \A q \in Runs : phase[q] = "live" /\ prompt[q] => \A k \in Limited(q) : q \in members'[k]
    BY <1>1 DEF PromptLease
<1> QED BY <1>1, <1>2, <1>3, <1>4, <1>5, <1>6, ShrinkInv

\* One ZREM of a release removes the member of the leaving run only.
LEMMA ReleaseKeyInv == ASSUME IInv, NEW r \in Runs, ReleaseKey(r) PROVE IInv'
<1> USE DEF IInv
<1>1. PICK k \in Keys : /\ members' = [members EXCEPT ![k] = @ \ {r}]
                       /\ todo' = [todo EXCEPT ![r] = @ \ {k}]
    BY DEF ReleaseKey, TypeOK
<1>2. phase[r] = "leaving" /\ UNCHANGED <<rem, life, phase, prompt, age>>
    BY DEF ReleaseKey
<1>3. /\ members' \in [Keys -> SUBSET Runs]
      /\ \A j \in Keys : members'[j] \subseteq members[j]
      /\ \A q \in Runs \ {r} : \A j \in Keys : q \in members[j] => q \in members'[j]
    BY <1>1 DEF TypeOK
<1>4. \A q \in Runs \ {r} : phase[q] = "live" /\ prompt[q] => \A j \in Limited(q) : q \in members'[j]
    BY <1>3 DEF PromptLease, Limited
<1>5. phase' \in [Runs -> Phases] /\ prompt' \in [Runs -> BOOLEAN] /\ todo' \in [Runs -> SUBSET Keys]
    BY <1>1, <1>2 DEF TypeOK
<1> QED BY <1>2, <1>3, <1>4, <1>5, ShrinkInv

\* A refresh purges, and renews the lease of a run that holds every place.
LEMMA RefreshInv == ASSUME IInv, NEW r \in Runs, Refresh(r) PROVE IInv'
<1> USE DEF IInv
<1>1. WriteLease(r) /\ phase' = phase /\ prompt' = [prompt EXCEPT ![r] = TRUE] /\ todo' = todo
    BY DEF Refresh
<1>2. members' = Purge(Limited(r), r) /\ Limited(r) \in SUBSET Keys
    BY KeySets DEF Refresh
<1>3. /\ members' \in [Keys -> SUBSET Runs]
      /\ \A j \in Keys : members'[j] \subseteq members[j]
      /\ \A q \in Runs : phase[q] = "live" /\ prompt[q] => \A j \in Limited(q) : q \in members'[j]
    BY <1>2, PurgeFacts
<1>4. TypeOK'
    BY <1>1, <1>3, WriteLeaseFacts DEF TypeOK
<1>5. MembersLimited'
    BY <1>3 DEF MembersLimited, Limited
<1>6. WithinLimit'
    BY <1>3, ShrinkWithin
<1>7. PromptLease'
  <2>1. \A q \in Runs \ {r} : phase'[q] = phase[q] /\ prompt'[q] = prompt[q] /\ age'[q] = age[q]
      BY <1>1, WriteLeaseFacts DEF TypeOK
  <2>2. ASSUME NEW q \in Runs \ {r}, phase[q] = "live", prompt[q], NEW k \in Limited(q)
        PROVE  /\ q \in members'[k] /\ rem'[k][q] >= rem[k][q] /\ life'[k] >= life[k]
               /\ rem'[k][q] \in Int /\ life'[k] \in Int
    <3>1. k \in Keys /\ q \in members'[k]
        BY <1>3, <2>2 DEF Limited
    <3>2. rem'[k][q] = rem[k][q] /\ rem'[k][q] \in Int /\ life'[k] >= life[k] /\ life'[k] \in Int
        BY <1>1, <3>1, WriteLeaseFacts
    <3> QED BY <3>1, <3>2
  <2>3. ASSUME NEW k \in Limited(r)
        PROVE  /\ r \in members'[k]
               /\ rem'[k][r] >= Offset[r] + TTL - age'[r]
               /\ life'[k] >= 2 * TTL - age'[r]
    <3>1. k \in Keys /\ r \in Unexpired(k, r)
        BY DEF Refresh, StillHeld, Limited
    <3>2. r \in members'[k]
        BY <1>2, <3>1 DEF Purge
    <3>3. rem'[k][r] = Offset[r] + TTL /\ life'[k] = 2 * TTL /\ age'[r] = 0
        BY <1>1, WriteLeaseFacts
    <3> QED BY <3>2, <3>3
  <2> QED BY <2>1, <2>2, <2>3, KeepPrompt
<1> QED BY <1>4, <1>5, <1>6, <1>7

\* Time ages every lease by one unit; no prompt run's heartbeat is overdue, so
\* no key that holds its lease runs out.
LEMMA TickInv == ASSUME IInv, Tick PROVE IInv'
<1> USE DEF IInv
<1>1. UNCHANGED <<phase, prompt, todo>>
    BY DEF Tick
<1>2. \A r \in Runs : phase[r] = "live" /\ prompt[r] => age[r] < RefreshInterval /\ age'[r] = age[r] + 1
  <2> SUFFICES ASSUME NEW r \in Runs, phase[r] = "live", prompt[r]
               PROVE  age[r] < RefreshInterval /\ age'[r] = age[r] + 1
      OBVIOUS
  <2>1. ~(age[r] >= RefreshInterval)
      BY DEF Tick, Due, Heartbeating
  <2>2. age[r] \in Int /\ RefreshInterval \in Int
      BY DEF TypeOK
  <2>3. age'[r] = age[r] + 1
      BY DEF Tick
  <2> QED BY <2>1, <2>2, <2>3
<1>3. members' \in [Keys -> SUBSET Runs] /\ \A k \in Keys : members'[k] \subseteq members[k]
    BY DEF Tick, TypeOK
<1>4. \A k \in Keys : life[k] > 1 => members'[k] = members[k] /\ life'[k] = life[k] - 1
    BY DEF Tick, TypeOK
<1>5. \A k \in Keys, r \in Runs : rem'[k][r] >= rem[k][r] - 1 /\ rem'[k][r] \in Int
    BY DEF Tick, TypeOK
<1>6. age' \in [Runs -> 0..RefreshInterval]
  <2>1. \A r \in Runs : age'[r] = IF phase[r] = "live" /\ prompt[r] THEN age[r] + 1 ELSE age[r]
      BY DEF Tick
  <2>2. \A r \in Runs : age'[r] \in 0..RefreshInterval
      BY <1>2, <2>1 DEF TypeOK
  <2> QED BY <2>2 DEF Tick
<1>7. TypeOK'
  <2>1. life' \in [Keys -> 0..2 * TTL]
      BY DEF Tick, TypeOK
  <2>2. rem' \in [Keys -> [Runs -> Int]]
      BY DEF Tick, TypeOK
  <2> QED BY <1>1, <1>3, <1>6, <2>1, <2>2 DEF TypeOK
<1>8. MembersLimited'
    BY <1>3 DEF MembersLimited, Limited
<1>9. WithinLimit'
    BY <1>3, ShrinkWithin
<1>10. PromptLease'
  <2> SUFFICES ASSUME NEW r \in Runs, phase[r] = "live", prompt[r], NEW k \in Limited(r)
               PROVE  /\ r \in members'[k]
                      /\ rem'[k][r] >= Offset[r] + TTL - age'[r]
                      /\ life'[k] >= 2 * TTL - age'[r]
      BY <1>1 DEF PromptLease, Limited
  <2>1. k \in Keys
      BY DEF Limited
  <2>2. r \in members[k] /\ rem[k][r] >= Offset[r] + TTL - age[r] /\ life[k] >= 2 * TTL - age[r]
      BY DEF PromptLease
  <2>3. /\ age[r] < RefreshInterval /\ age'[r] = age[r] + 1 /\ age[r] \in Nat
        /\ rem[k][r] \in Int /\ life[k] \in Int /\ rem'[k][r] >= rem[k][r] - 1 /\ rem'[k][r] \in Int
      BY <1>2, <1>5, <2>1 DEF TypeOK
  <2>4. RefreshInterval < TTL /\ RefreshInterval \in Nat /\ TTL \in Nat /\ Offset[r] \in Int
    <3>1. Offset[r] - Offset[r] + RefreshInterval < TTL /\ Offset[r] \in Int
        OBVIOUS
    <3> QED BY <3>1
  <2>5. life[k] > 1
      BY <2>2, <2>3, <2>4
  <2>6. r \in members'[k] /\ life'[k] = life[k] - 1
      BY <1>4, <2>1, <2>2, <2>5
  <2> QED BY <2>2, <2>3, <2>4, <2>6
<1> QED BY <1>7, <1>8, <1>9, <1>10

-----------------------------------------------------------------------------
\* The initial state satisfies the invariant.
LEMMA InitInv == Init => IInv
<1> SUFFICES ASSUME Init PROVE IInv
    OBVIOUS
<1>1. TypeOK
    BY DEF Init, TypeOK, Phases
<1>2. MembersLimited /\ PromptLease
    BY DEF Init, MembersLimited, PromptLease
<1>3. WithinLimit
  <2>1. Cardinality({}) = 0
      BY FS_EmptySet
  <2> QED BY <2>1 DEF Init, WithinLimit
<1> QED BY <1>1, <1>2, <1>3 DEF IInv

\* Every step keeps the invariant.
LEMMA NextInv == IInv /\ [Next]_vars => IInv'
<1> SUFFICES ASSUME IInv, [Next]_vars PROVE IInv'
    OBVIOUS
<1>1. CASE UNCHANGED vars
    BY <1>1, StutterInv
<1>2. CASE Tick
    BY <1>2, TickInv
<1>3. ASSUME NEW r \in Runs,
             \/ \E told \in BOOLEAN : Acquire(r, told)
             \/ Denied(r) \/ Refresh(r) \/ RefreshLost(r) \/ ReleaseKey(r)
             \/ Finish(r) \/ Gone(r) \/ Stall(r) \/ Fresh(r)
      PROVE  IInv'
    BY <1>3, AcquireInv, DeniedInv, RefreshInv, RefreshLostInv, ReleaseKeyInv, HolderInv
<1> QED BY <1>1, <1>2, <1>3 DEF Next

\* The members of every sorted set, their scores and the holders stay together
\* as IInv says, for all runs, keys, limits and clocks.
THEOREM Inductive == Spec => []IInv
  BY InitInv, NextInv, PTL DEF Spec

\* Members, scores and lifetimes keep their types, whatever expires or is purged
\* (coordination/redis.go).
THEOREM TypeCorrect == Spec => []TypeOK
<1>1. IInv => TypeOK
  BY DEF IInv
<1> QED BY Inductive, <1>1, PTL

\* The executing runs whose heartbeats are on time are within every limit.
THEOREM PromptLimit == Spec => []PromptRunsWithinLimit
<1>1. ASSUME IInv PROVE PromptRunsWithinLimit
  <2> SUFFICES ASSUME NEW k \in Keys, Limit[k] > 0
               PROVE  Cardinality(PromptRuns(k)) <= Limit[k]
      BY DEF PromptRunsWithinLimit
  <2>1. PromptRuns(k) \in SUBSET members[k]
      BY <1>1 DEF IInv, PromptLease, PromptRuns, Limited
  <2>2. members[k] \in SUBSET Runs /\ Cardinality(members[k]) <= Limit[k]
      BY <1>1 DEF IInv, TypeOK, WithinLimit
  <2>3. Cardinality(PromptRuns(k)) <= Cardinality(members[k])
      BY <2>1, <2>2, Smaller
  <2>4. PromptRuns(k) \in SUBSET Runs
      BY DEF PromptRuns
  <2>5. Cardinality(PromptRuns(k)) \in Nat /\ Cardinality(members[k]) \in Nat /\ Limit[k] \in Nat
      BY <2>2, <2>4, RunSets
  <2> QED BY <2>2, <2>3, <2>5
<1>2. IInv => PromptRunsWithinLimit
    BY <1>1
<1> QED BY Inductive, <1>2, PTL

\* The limits hold in Redis and among the runs that really execute.
THEOREM LeaseLimits == Spec => []LeaseLimitsHold
<1>1. IInv => WithinLimit
    BY DEF IInv
<1> QED BY <1>1, Inductive, PromptLimit, PTL DEF LeaseLimitsHold

\* Places are gained by an admission only, in every limited dimension at once.
THEOREM Atomic == Spec => AllOrNothing
<1> DEFINE Gain == \A r \in Runs : (\E k \in Keys : r \in members'[k] \ members[k]) =>
                     phase[r] = "idle" /\ \A k \in Limited(r) : r \in members'[k]
<1>1. ASSUME IInv, Next PROVE Gain
  <2>1. ASSUME NEW q \in Runs, NEW told \in BOOLEAN, Acquire(q, told) PROVE Gain
    <3>1. phase[q] = "idle" /\ members' = AddMember(Limited(q), q)
        BY <2>1 DEF Acquire
    <3>2. \A k \in Limited(q) : q \in members'[k]
        BY <3>1 DEF AddMember, Limited
    <3>3. \A k \in Keys : members'[k] \subseteq members[k] \cup {q}
        BY <3>1 DEF AddMember, Unexpired
    <3> QED BY <3>1, <3>2, <3>3
  <2>2. ASSUME NEW q \in Runs, Denied(q) \/ Refresh(q) \/ RefreshLost(q) PROVE Gain
    <3>1. \E K \in SUBSET Keys : members' = Purge(K, q)
        BY <2>2, KeySets DEF Denied, Refresh, RefreshLost, Limited
    <3>2. \A k \in Keys : members'[k] \subseteq members[k]
        BY <3>1 DEF Purge, Unexpired
    <3> QED BY <3>2
  <2>3. ASSUME NEW q \in Runs, ReleaseKey(q) PROVE Gain
    <3>1. \A k \in Keys : members'[k] \subseteq members[k]
        BY <1>1, <2>3 DEF ReleaseKey, IInv, TypeOK
    <3> QED BY <3>1
  <2>4. ASSUME NEW q \in Runs, Finish(q) \/ Gone(q) \/ Stall(q) \/ Fresh(q) PROVE Gain
    <3>1. members' = members
        BY <2>4 DEF Finish, Gone, Stall, Fresh
    <3> QED BY <3>1
  <2>5. CASE Tick
    <3>1. \A k \in Keys : members'[k] \subseteq members[k]
        BY <2>5 DEF Tick
    <3> QED BY <3>1
  <2> QED BY <1>1, <2>1, <2>2, <2>3, <2>4, <2>5 DEF Next
<1>2. IInv /\ [Next]_vars => [Gain]_vars
    BY <1>1
<1> QED BY Inductive, <1>2, PTL DEF Spec, AllOrNothing

-----------------------------------------------------------------------------
(* The limits in the process. *)

USE LimitsAssumption, ProcsAssumption

\* A set of goroutines is finite, so its cardinality is a natural number.
LEMMA ProcSubsets ==
  ASSUME NEW S \in SUBSET Procs
  PROVE  IsFiniteSet(S) /\ Cardinality(S) \in Nat
  BY FS_Subset, FS_CardinalityType

\* One goroutine more, or one less, changes a count of goroutines by one.
LEMMA CountAdd ==
  ASSUME NEW S \in SUBSET Procs, NEW p \in Procs \ S
  PROVE  Cardinality(S \cup {p}) = Cardinality(S) + 1
  BY ProcSubsets, FS_AddElement

LEMMA CountRemove ==
  ASSUME NEW S \in SUBSET Procs, NEW p \in S
  PROVE  Cardinality(S \ {p}) = Cardinality(S) - 1 /\ Cardinality(S) >= 1
  <1>1. IsFiniteSet(S \ {p}) /\ Cardinality(S \ {p}) \in Nat
    BY ProcSubsets
  <1>2. Cardinality(S \ {p}) = Cardinality(S) - 1
    BY ProcSubsets, FS_RemoveElement
  <1> QED
    BY <1>1, <1>2, ProcSubsets

LEMMA HolderSets ==
  /\ GlobalHolders \in SUBSET Procs
  /\ Overshooting \in SUBSET Procs
  /\ \A u : UserHolders(u) \in SUBSET Procs
  BY DEF GlobalHolders, Overshooting, UserHolders

\* LimiterInit: nobody is inside, every counter is zero.
LEMMA LimiterInitInv == LimiterInit => LimiterIInv
  <1> SUFFICES ASSUME LimiterInit PROVE LimiterIInv
    OBVIOUS
  <1>1. /\ GlobalHolders = {}
        /\ Overshooting = {}
        /\ \A u \in Users : UserHolders(u) = {}
    BY DEF LimiterInit, GlobalHolders, OccupiesGlobal, Overshooting, UserHolders
  <1>2. Cardinality({}) = 0
    BY FS_EmptySet
  <1>3. LimiterTypeOK
    BY DEF LimiterInit, LimiterTypeOK, LimiterPhases, ReleaseSteps
  <1>4. ReleaseOrder /\ UndoOnlyLimited /\ FreshGrant
    BY <1>3 DEF LimiterInit, LimiterTypeOK, ReleaseOrder, UndoOnlyLimited, FreshGrant
  <1>5. used = 0 /\ \A u \in Users : counts[u] = 0
    BY DEF LimiterInit
  <1>6. /\ Cardinality(GlobalHolders) = 0 /\ Cardinality(Overshooting) = 0
        /\ \A u \in Users : Cardinality(UserHolders(u)) = 0
    BY <1>1, <1>2
  <1>7. GlobalLimitHolds /\ UserLimitHolds
    BY <1>6 DEF GlobalLimitHolds, UserLimitHolds
  <1>8. CountersExact
    BY <1>5, <1>6 DEF CountersExact
  <1> QED
    BY <1>3, <1>4, <1>7, <1>8 DEF LimiterIInv

-----------------------------------------------------------------------------
\* Each action keeps the invariant: the types and the order of releases
\* first, then how the sets of holders change, then the counts.
LEMMA AddGlobalInv ==
  ASSUME LimiterIInv, NEW p \in Procs, NEW u \in Users, AddGlobal(p, u)
  PROVE  LimiterIInv'
  <1> USE DEF LimiterIInv
  <1>1. LimiterTypeOK' /\ ReleaseOrder' /\ UndoOnlyLimited' /\ FreshGrant'
    BY DEF AddGlobal, LimiterTypeOK, LimiterPhases, ReleaseSteps, ReleaseOrder, UndoOnlyLimited, FreshGrant
  <1>2. \A v \in Users : UserHolders(v)' = UserHolders(v)
    BY DEF AddGlobal, UserHolders, LimiterTypeOK
  <1>3. CASE MaxGlobal # 0 /\ GlobalOvershoots(used + 1)
    <2>1. GlobalHolders' = GlobalHolders
      BY <1>3 DEF AddGlobal, GlobalHolders, OccupiesGlobal, LimiterTypeOK
    <2>2. p \in Procs \ Overshooting /\ Overshooting' = Overshooting \cup {p}
      BY <1>3 DEF AddGlobal, Overshooting, LimiterTypeOK
    <2>3. Cardinality(Overshooting)' = Cardinality(Overshooting) + 1
      BY <2>2, CountAdd, HolderSets
    <2>4. CountersExact'
      BY <1>2, <1>3, <2>1, <2>3, HolderSets, ProcSubsets DEF AddGlobal, CountersExact
    <2>5. GlobalLimitHolds' /\ UserLimitHolds'
      BY <1>2, <2>1 DEF GlobalLimitHolds, UserLimitHolds
    <2> QED
      BY <1>1, <2>4, <2>5
  <1>4. CASE ~(MaxGlobal # 0 /\ GlobalOvershoots(used + 1))
    <2>1. p \in Procs \ GlobalHolders /\ GlobalHolders' = GlobalHolders \cup {p}
      BY <1>4 DEF AddGlobal, GlobalHolders, OccupiesGlobal, LimiterTypeOK
    <2>2. Overshooting' = Overshooting
      BY <1>4 DEF AddGlobal, Overshooting, LimiterTypeOK
    <2>3. Cardinality(GlobalHolders)' = Cardinality(GlobalHolders) + 1
      BY <2>1, CountAdd, HolderSets
    <2>4. CountersExact'
      BY <1>2, <1>4, <2>2, <2>3, HolderSets, ProcSubsets DEF AddGlobal, CountersExact
    <2>5. GlobalLimitHolds'
      BY <1>4, <2>3, HolderSets, ProcSubsets
      DEF GlobalLimitHolds, CountersExact, GlobalOvershoots
    <2>6. UserLimitHolds'
      BY <1>2 DEF UserLimitHolds
    <2> QED
      BY <1>1, <2>4, <2>5, <2>6
  <1> QED
    BY <1>3, <1>4

LEMMA UndoGlobalInv ==
  ASSUME LimiterIInv, NEW p \in Procs, UndoGlobal(p)
  PROVE  LimiterIInv'
  <1> USE DEF LimiterIInv
  <1>1. ReleaseOrder' /\ UndoOnlyLimited' /\ FreshGrant'
    BY DEF UndoGlobal, ReleaseOrder, UndoOnlyLimited, FreshGrant, LimiterTypeOK
  <1>2. \A v \in Users : UserHolders(v)' = UserHolders(v)
    BY DEF UndoGlobal, UserHolders, LimiterTypeOK
  <1>3. GlobalHolders' = GlobalHolders
    BY DEF UndoGlobal, GlobalHolders, OccupiesGlobal, LimiterTypeOK
  <1>4. p \in Overshooting /\ Overshooting' = Overshooting \ {p}
    BY DEF UndoGlobal, Overshooting, LimiterTypeOK
  <1>5. /\ Cardinality(Overshooting)' = Cardinality(Overshooting) - 1
        /\ Cardinality(Overshooting) >= 1
    BY <1>4, CountRemove, HolderSets
  <1>6. CountersExact'
    BY <1>2, <1>3, <1>5, HolderSets, ProcSubsets DEF UndoGlobal, CountersExact
  <1>7. used >= 1
    BY <1>5, HolderSets, ProcSubsets DEF UndoGlobal, CountersExact, UndoOnlyLimited
  <1>8. LimiterTypeOK'
    BY <1>7 DEF UndoGlobal, LimiterTypeOK, LimiterPhases
  <1>9. GlobalLimitHolds' /\ UserLimitHolds'
    BY <1>2, <1>3 DEF GlobalLimitHolds, UserLimitHolds
  <1> QED
    BY <1>1, <1>6, <1>8, <1>9

LEMMA TakeUserInv ==
  ASSUME LimiterIInv, NEW p \in Procs, TakeUser(p)
  PROVE  LimiterIInv'
  <1> USE DEF LimiterIInv
  <1>1. LimiterTypeOK' /\ ReleaseOrder' /\ UndoOnlyLimited' /\ FreshGrant'
    <2>1. counts' \in [Users -> Nat]
      BY DEF TakeUser, LimiterTypeOK
    <2>2. \E next \in {"held", "giveback"} : pc' = [pc EXCEPT ![p] = next]
      BY DEF TakeUser
    <2> QED
      BY <2>1, <2>2 DEF TakeUser, LimiterTypeOK, LimiterPhases, ReleaseOrder, UndoOnlyLimited, FreshGrant
  <1>2. GlobalHolders' = GlobalHolders /\ Overshooting' = Overshooting
    BY DEF TakeUser, GlobalHolders, Overshooting, OccupiesGlobal, LimiterTypeOK, FreshGrant
  <1>3. GlobalLimitHolds' /\ (MaxGlobal # 0 =>
           used' = Cardinality(GlobalHolders)' + Cardinality(Overshooting)')
    BY <1>2 DEF TakeUser, GlobalLimitHolds, CountersExact
  <1>4. CASE MaxPerUser = 0
    <2>1. CountersExact' /\ UserLimitHolds'
      BY <1>3, <1>4 DEF CountersExact, UserLimitHolds
    <2> QED
      BY <1>1, <1>3, <2>1
  <1>5. CASE MaxPerUser # 0 /\ UserFull(counts[subject[p]])
    <2>1. \A v \in Users : UserHolders(v)' = UserHolders(v)
      BY <1>5 DEF TakeUser, UserHolders, LimiterTypeOK
    <2>2. CountersExact' /\ UserLimitHolds'
      BY <1>3, <1>5, <2>1 DEF TakeUser, CountersExact, UserLimitHolds
    <2> QED
      BY <1>1, <1>3, <2>2
  <1>6. CASE MaxPerUser # 0 /\ ~UserFull(counts[subject[p]])
    <2>1. PICK u \in Users : u = subject[p]
      BY DEF LimiterTypeOK
    <2>2. p \in Procs \ UserHolders(u) /\ UserHolders(u)' = UserHolders(u) \cup {p}
      BY <1>6, <2>1 DEF TakeUser, UserHolders, LimiterTypeOK, FreshGrant
    <2>3. \A v \in Users \ {u} : UserHolders(v)' = UserHolders(v)
      BY <1>6, <2>1 DEF TakeUser, UserHolders, LimiterTypeOK
    <2>4. Cardinality(UserHolders(u))' = Cardinality(UserHolders(u)) + 1
      BY <2>2, CountAdd, HolderSets
    <2>5. counts' = [counts EXCEPT ![u] = @ + 1]
      BY <1>6, <2>1 DEF TakeUser
    <2>6. CountersExact'
      BY <1>3, <1>6, <2>1, <2>3, <2>4, <2>5, HolderSets, ProcSubsets DEF CountersExact, LimiterTypeOK
    <2>7. counts[u] < MaxPerUser
      BY <1>6, <2>1 DEF UserFull, LimiterTypeOK
    <2>8. UserLimitHolds'
      BY <1>6, <2>1, <2>3, <2>4, <2>7, HolderSets, ProcSubsets DEF CountersExact, UserLimitHolds
    <2> QED
      BY <1>1, <1>3, <2>6, <2>8
  <1> QED
    BY <1>4, <1>5, <1>6

LEMMA GiveBackGlobalInv ==
  ASSUME LimiterIInv, NEW p \in Procs, GiveBackGlobal(p)
  PROVE  LimiterIInv'
  <1> USE DEF LimiterIInv
  <1>1. ReleaseOrder' /\ UndoOnlyLimited' /\ FreshGrant'
    BY DEF GiveBackGlobal, ReleaseOrder, UndoOnlyLimited, FreshGrant, LimiterTypeOK
  <1>2. \A v \in Users : UserHolders(v)' = UserHolders(v)
    BY DEF GiveBackGlobal, UserHolders, LimiterTypeOK
  <1>3. p \in GlobalHolders /\ GlobalHolders' = GlobalHolders \ {p}
    BY DEF GiveBackGlobal, GlobalHolders, OccupiesGlobal, LimiterTypeOK
  <1>4. Overshooting' = Overshooting
    BY DEF GiveBackGlobal, Overshooting, LimiterTypeOK
  <1>5. /\ Cardinality(GlobalHolders)' = Cardinality(GlobalHolders) - 1
        /\ Cardinality(GlobalHolders) >= 1
    BY <1>3, CountRemove, HolderSets
  <1>6. CountersExact'
    BY <1>2, <1>4, <1>5, HolderSets, ProcSubsets DEF GiveBackGlobal, GlobalReturned, CountersExact
  <1>7. MaxGlobal # 0 => used >= 1
    BY <1>5, HolderSets, ProcSubsets DEF CountersExact
  <1>8. LimiterTypeOK'
    BY <1>7 DEF GiveBackGlobal, GlobalReturned, LimiterTypeOK, LimiterPhases
  <1>9. GlobalLimitHolds' /\ UserLimitHolds'
    BY <1>2, <1>5, HolderSets, ProcSubsets DEF GlobalLimitHolds, UserLimitHolds
  <1> QED
    BY <1>1, <1>6, <1>8, <1>9

LEMMA ReleaseUserInv ==
  ASSUME LimiterIInv, NEW p \in Procs, NEW c \in Callers, ReleaseUser(p, c)
  PROVE  LimiterIInv'
  <1> USE DEF LimiterIInv
  <1>1. LimiterTypeOK' /\ ReleaseOrder' /\ UndoOnlyLimited' /\ FreshGrant'
    BY DEF ReleaseUser, LimiterTypeOK, ReleaseSteps, ReleaseOrder, UndoOnlyLimited, FreshGrant
  <1>2. GlobalHolders' = GlobalHolders /\ Overshooting' = Overshooting
    BY DEF ReleaseUser, GlobalHolders, Overshooting, OccupiesGlobal, LimiterTypeOK
  <1>3. GlobalLimitHolds' /\ (MaxGlobal # 0 =>
           used' = Cardinality(GlobalHolders)' + Cardinality(Overshooting)')
    BY <1>2 DEF ReleaseUser, GlobalLimitHolds, CountersExact
  <1>4. CASE MaxPerUser = 0
    <2>1. CountersExact' /\ UserLimitHolds'
      BY <1>3, <1>4 DEF CountersExact, UserLimitHolds
    <2> QED
      BY <1>1, <1>3, <2>1
  <1>5. CASE MaxPerUser # 0 /\ freedUser[p]
    <2>1. \A v \in Users : UserHolders(v)' = UserHolders(v)
      BY <1>5 DEF ReleaseUser, UserHolders, LimiterTypeOK
    <2>2. CountersExact' /\ UserLimitHolds'
      BY <1>3, <1>5, <2>1 DEF ReleaseUser, OnceRuns, CountersExact, UserLimitHolds
    <2> QED
      BY <1>1, <1>3, <2>2
  <1>6. CASE MaxPerUser # 0 /\ ~freedUser[p]
    <2>1. PICK u \in Users : u = subject[p]
      BY DEF LimiterTypeOK
    <2>2. p \in UserHolders(u) /\ UserHolders(u)' = UserHolders(u) \ {p}
      BY <1>6, <2>1 DEF ReleaseUser, UserHolders, LimiterTypeOK
    <2>3. \A v \in Users \ {u} : UserHolders(v)' = UserHolders(v)
      BY <1>6, <2>1 DEF ReleaseUser, UserHolders, LimiterTypeOK
    <2>4. /\ Cardinality(UserHolders(u))' = Cardinality(UserHolders(u)) - 1
          /\ Cardinality(UserHolders(u)) >= 1
      BY <2>2, CountRemove, HolderSets
    <2>5. counts' = [counts EXCEPT ![u] = IF @ <= 1 THEN 0 ELSE @ - 1]
      BY <1>6, <2>1 DEF ReleaseUser, OnceRuns
    <2>6. CountersExact'
      BY <1>3, <1>6, <2>1, <2>3, <2>4, <2>5, HolderSets, ProcSubsets DEF CountersExact, LimiterTypeOK
    <2>7. UserLimitHolds'
      BY <1>6, <2>1, <2>3, <2>4, HolderSets, ProcSubsets DEF UserLimitHolds
    <2> QED
      BY <1>1, <1>3, <2>6, <2>7
  <1> QED
    BY <1>4, <1>5, <1>6

LEMMA ReleaseGlobalInv ==
  ASSUME LimiterIInv, NEW p \in Procs, NEW c \in Callers, ReleaseGlobal(p, c)
  PROVE  LimiterIInv'
  <1> USE DEF LimiterIInv
  <1>1. ReleaseOrder' /\ UndoOnlyLimited' /\ FreshGrant'
    BY DEF ReleaseGlobal, LimiterTypeOK, ReleaseSteps, ReleaseOrder, UndoOnlyLimited, FreshGrant
  <1>2. Overshooting' = Overshooting /\ \A v \in Users : UserHolders(v)' = UserHolders(v)
    BY DEF ReleaseGlobal, Overshooting, UserHolders, LimiterTypeOK
  <1>3. UserLimitHolds'
    BY <1>2 DEF UserLimitHolds
  <1>4. CASE freedGlobal[p]
    <2>1. GlobalHolders' = GlobalHolders /\ used' = used
      BY <1>4 DEF ReleaseGlobal, OnceRuns, GlobalHolders, OccupiesGlobal, LimiterTypeOK
    <2> QED
      BY <1>1, <1>2, <1>3, <2>1
      DEF ReleaseGlobal, LimiterTypeOK, ReleaseSteps, CountersExact, GlobalLimitHolds
  <1>5. CASE ~freedGlobal[p]
    <2>1. p \in GlobalHolders /\ GlobalHolders' = GlobalHolders \ {p}
      BY <1>5 DEF ReleaseGlobal, GlobalHolders, OccupiesGlobal, LimiterTypeOK
    <2>2. /\ Cardinality(GlobalHolders)' = Cardinality(GlobalHolders) - 1
          /\ Cardinality(GlobalHolders) >= 1
      BY <2>1, CountRemove, HolderSets
    <2>3. used' = GlobalReturned
      BY <1>5 DEF ReleaseGlobal, OnceRuns
    <2>4. CountersExact'
      BY <1>2, <2>2, <2>3, HolderSets, ProcSubsets DEF ReleaseGlobal, GlobalReturned, CountersExact
    <2>5. MaxGlobal # 0 => used >= 1
      BY <2>2, HolderSets, ProcSubsets DEF CountersExact
    <2>6. LimiterTypeOK'
      BY <2>3, <2>5 DEF ReleaseGlobal, GlobalReturned, LimiterTypeOK, ReleaseSteps
    <2>7. GlobalLimitHolds'
      BY <2>2, HolderSets, ProcSubsets DEF GlobalLimitHolds
    <2> QED
      BY <1>1, <1>3, <2>4, <2>6, <2>7
  <1> QED
    BY <1>4, <1>5

LEMMA ForgetInv ==
  ASSUME LimiterIInv, NEW p \in Procs, Forget(p)
  PROVE  LimiterIInv'
  <1> USE DEF LimiterIInv
  <1>1. LimiterTypeOK' /\ ReleaseOrder' /\ UndoOnlyLimited' /\ FreshGrant'
    BY DEF Forget, LimiterTypeOK, LimiterPhases, ReleaseOrder, UndoOnlyLimited, FreshGrant
  <1>2. /\ GlobalHolders' = GlobalHolders
        /\ Overshooting' = Overshooting
        /\ \A v \in Users : UserHolders(v)' = UserHolders(v)
    BY DEF Forget, GlobalHolders, OccupiesGlobal, Overshooting, UserHolders, LimiterTypeOK, ReleaseOrder
  <1>3. CountersExact' /\ GlobalLimitHolds' /\ UserLimitHolds'
    BY <1>2 DEF Forget, CountersExact, GlobalLimitHolds, UserLimitHolds
  <1> QED
    BY <1>1, <1>3

LEMMA LimiterStutterInv == LimiterIInv /\ UNCHANGED limiterVars => LimiterIInv'
  BY DEF LimiterIInv, limiterVars, LimiterTypeOK, ReleaseOrder, UndoOnlyLimited, FreshGrant, CountersExact,
    GlobalLimitHolds, UserLimitHolds, GlobalHolders, OccupiesGlobal, Overshooting, UserHolders

\* LimiterIInv is inductive.
LEMMA LimiterStepInv == LimiterIInv /\ [LimiterNext]_limiterVars => LimiterIInv'
  <1> SUFFICES ASSUME LimiterIInv, LimiterNext PROVE LimiterIInv'
    BY LimiterStutterInv
  <1>1. PICK p \in Procs :
          \/ \E u \in Users : AddGlobal(p, u)
          \/ UndoGlobal(p)
          \/ TakeUser(p)
          \/ GiveBackGlobal(p)
          \/ \E c \in Callers : ReleaseUser(p, c) \/ ReleaseGlobal(p, c)
          \/ Forget(p)
    BY DEF LimiterNext
  <1> QED
    BY <1>1, AddGlobalInv, UndoGlobalInv, TakeUserInv, GiveBackGlobalInv,
       ReleaseUserInv, ReleaseGlobalInv, ForgetInv

THEOREM LimiterInductive == LimiterSpec => []LimiterIInv
  BY LimiterInitInv, LimiterStepInv, PTL DEF LimiterSpec

\* Type correctness: in particular Counter.used never goes below zero, so no
\* place is ever given back twice.
THEOREM LimiterTypeCorrect == LimiterSpec => []LimiterTypeOK
  <1>1. LimiterIInv => LimiterTypeOK
    BY DEF LimiterIInv
  <1> QED
    BY <1>1, LimiterInductive, PTL

\* The two limits of runlimit.New hold for every number of goroutines, users
\* and callers of a release function, and for every pair of maxima.
THEOREM LimitsHold == LimiterSpec => [](GlobalLimitHolds /\ UserLimitHolds)
  <1>1. LimiterIInv => GlobalLimitHolds /\ UserLimitHolds
    BY DEF LimiterIInv
  <1> QED
    BY <1>1, LimiterInductive, PTL

\* The counters are exactly the places taken: no leak, no double return.
THEOREM NoLeak == LimiterSpec => []CountersExact
  <1>1. LimiterIInv => CountersExact
    BY DEF LimiterIInv
  <1> QED
    BY <1>1, LimiterInductive, PTL

\* All that the composite Limiter promises: the two limits and exact counters.
THEOREM LimiterHolds == LimiterSpec => []LimiterExact
  BY LimitsHold, NoLeak, PTL DEF LimiterExact

-----------------------------------------------------------------------------
\* A step of the service is a step of the half that is in use and a stutter of
\* the other.
LEMMA StepOfEither == [AdmissionNext]_admissionVars => [LimiterNext]_limiterVars /\ [Next]_vars
<1>1. CASE Locally
    BY <1>1 DEF Locally
<1>2. CASE InRedis(Next)
    BY <1>2 DEF InRedis
<1>3. CASE UNCHANGED admissionVars
    BY <1>3 DEF admissionVars
<1> QED BY <1>1, <1>2, <1>3 DEF AdmissionNext

\* Service.acquireRunSlot implements both the limiter and the leases.
THEOREM ServesBoth == AdmissionSpec => LimiterSpec /\ Spec
<1>1. AdmissionInit => LimiterInit /\ Init
    BY DEF AdmissionInit
<1> QED BY <1>1, StepOfEither, PTL DEF AdmissionSpec, LimiterSpec, Spec

\* The in-process limits and counters hold in the service.
THEOREM ServiceLimiter == AdmissionSpec => []LimiterExact
<1> QED BY ServesBoth, LimiterHolds

\* The distributed limits hold in the service.
THEOREM ServiceLeases == AdmissionSpec => []LeaseLimitsHold
<1> QED BY ServesBoth, LeaseLimits
=============================================================================

----------------------------- MODULE AgentProofs -----------------------------
(***************************************************************************)
(* Proofs about the agent: what it learns (Cases, RouteLearning), for any  *)
(* number of instances, runs and samples and any size of the caches, and   *)
(* the diagnosis loop (AgentLoop), for every setting of its options.       *)
(*                                                                         *)
(* The cache of VectorCache first: what every method does to the sequence  *)
(* of its entries (PrependIs, RemoveAtIs, ...), and to its items           *)
(* (AddCache, RemoveCache, UpdateCache, ReplaceCache).  The two loops in   *)
(* it are recursive functions, and their results follow by induction over  *)
(* the number of rounds (Induct, Iterates, Follows).                       *)
(*                                                                         *)
(* Cases: a run whose verdict an instance knows and which is still in its  *)
(* cache, or coming back with the warm-up, is on its way out (CasesInv).   *)
(*                                                                         *)
(* RouteLearning: a sample's way through the table, the cache and the jobs *)
(* (SampleFollows), how far the correction is behind (CorrectionFollows),  *)
(* the arithmetic of the corrections, and the ring as a bounded list.      *)
(*                                                                         *)
(* AgentLoop: the counters against the place in the loop (IInv).           *)
(***************************************************************************)
EXTENDS AgentLoop, Cases, RouteLearning, FiniteSetTheorems, WellFoundedInduction, TLAPS

------------------------------------------------------------------------------
(* Induction over the rounds of a loop.                                     *)

LEMMA Induct ==
  ASSUME NEW N \in Nat, NEW T \in SUBSET (0..N), 0 \in T,
         \A n \in 1..N : n - 1 \in T => n \in T
  PROVE  T = 0..N
  <1> SUFFICES ASSUME (0..N) \ T # {} PROVE FALSE
    OBVIOUS
  <1>1. IsWellFoundedOn(OpToRel(<, Nat), Nat)
    BY NatLessThanWellFounded
  <1>2. (0..N) \ T \subseteq Nat
    OBVIOUS
  <1>3. PICK m \in (0..N) \ T : \A y \in (0..N) \ T : ~(<<y, m>> \in OpToRel(<, Nat))
    BY <1>1, <1>2, WFMin
  <1>4. m # 0
    OBVIOUS
  <1>5. m - 1 \in 0..N /\ m \in 1..N
    BY <1>4
  <1>6. m - 1 \in T
    <2> SUFFICES ASSUME m - 1 \in (0..N) \ T PROVE FALSE
      BY <1>5
    <2>1. <<m - 1, m>> \in Nat \X Nat /\ m - 1 < m
      OBVIOUS
    <2>2. <<m - 1, m>> \in OpToRel(<, Nat)
      BY <2>1 DEF OpToRel
    <2> QED
      BY <1>3, <2>2
  <1> QED
    BY <1>5, <1>6

IsLoop(f, A, N, b, turn) ==
  /\ f \in [0..N -> A] /\ f[0] = b
  /\ \A n \in 1..N : f[n] = turn[n][f[n - 1]]

LEMMA Iterates ==
  ASSUME NEW A, NEW N \in Nat, NEW b \in A, NEW turn \in [1..N -> [A -> A]]
  PROVE  \E f : IsLoop(f, A, N, b, turn)
  <1> DEFINE OK(k, f) == f[0] = b /\ \A n \in 1..k : f[n] = turn[n][f[n - 1]]
             T == {k \in 0..N : \E f \in [0..k -> A] : OK(k, f)}
  <1>1. 0 \in T
    <2> DEFINE f == [n \in 0..0 |-> b]
    <2>1. f \in [0..0 -> A] /\ f[0] = b
      OBVIOUS
    <2>2. \A n \in 1..0 : f[n] = turn[n][f[n - 1]]
      OBVIOUS
    <2>3. 0 \in 0..N
      OBVIOUS
    <2> HIDE DEF f
    <2> QED
      BY <2>1, <2>2, <2>3
  <1>2. ASSUME NEW n \in 1..N, n - 1 \in T
        PROVE  n \in T
    <2>1. PICK f \in [0..n - 1 -> A] : OK(n - 1, f)
      BY <1>2
    <2> DEFINE g == [k \in 0..n |-> IF k = n THEN turn[n][f[n - 1]] ELSE f[k]]
    <2>2. turn[n][f[n - 1]] \in A
      OBVIOUS
    <2>3. g \in [0..n -> A]
      BY <2>2
    <2>4. g[0] = b
      BY <2>1
    <2>5. ASSUME NEW k \in 1..n
          PROVE  g[k] = turn[k][g[k - 1]]
      <3>1. CASE k = n
        <4>1. g[k] = turn[n][f[n - 1]] /\ g[k - 1] = f[n - 1]
          BY <3>1
        <4> HIDE DEF g
        <4> QED
          BY <3>1, <4>1
      <3>2. CASE k # n
        <4>1. k \in 1..n - 1 /\ k - 1 \in 0..n - 1 /\ k - 1 # n
          BY <3>2
        <4>2. f[k] = turn[k][f[k - 1]]
          BY <2>1, <4>1
        <4>3. g[k] = f[k] /\ g[k - 1] = f[k - 1]
          BY <3>2, <4>1
        <4> HIDE DEF g
        <4> QED
          BY <4>2, <4>3
      <3> QED
        BY <3>1, <3>2
    <2>6. n \in 0..N
      OBVIOUS
    <2> QED
      BY <2>3, <2>4, <2>5, <2>6
  <1>3. T = 0..N
    <2> HIDE DEF T
    <2>1. T \in SUBSET (0..N)
      BY DEF T
    <2> QED
      BY <1>1, <1>2, <2>1, Induct
  <1>4. N \in T
    BY <1>3
  <1>5. PICK f \in [0..N -> A] : OK(N, f)
    BY <1>4
  <1> QED
    BY <1>5 DEF IsLoop
-----------------------------------------------------------------------------
Keeps(f, g, N) == f[0] = g[0] /\ \A n \in 1..N : f[n - 1] = g[n - 1] => f[n] = g[n]

Agree(f, g, N) == \A n \in 0..N : f[n] = g[n]

LEMMA Follows ==
  ASSUME NEW N \in Nat, NEW f, NEW g, Keeps(f, g, N)
  PROVE  Agree(f, g, N)
  <1> DEFINE T == {n \in 0..N : f[n] = g[n]}
  <1>1. T \in SUBSET (0..N) /\ 0 \in T /\ \A n \in 1..N : n - 1 \in T => n \in T
    BY DEF Keeps
  <1>2. T = 0..N
    <2> HIDE DEF T
    <2> QED
      BY <1>1, Induct
  <1> QED
    BY <1>2 DEF Agree

IsOnly(kept, S, seq, some) ==
  /\ kept \in [0..Len(seq) -> Seq(S)] /\ kept[0] = <<>>
  /\ \A n \in 1..Len(seq) :
       kept[n] = IF seq[n] \in some THEN Append(kept[n - 1], seq[n]) ELSE kept[n - 1]
  /\ Only(seq, some) = kept[Len(seq)]

LEMMA OnlyLoop ==
  ASSUME NEW S, NEW seq \in Seq(S), NEW some
  PROVE  \E kept : IsOnly(kept, S, seq, some)
  <1> DEFINE N == Len(seq)
             turn == [n \in 1..N |-> [s \in Seq(S) |-> IF seq[n] \in some THEN Append(s, seq[n]) ELSE s]]
             Rec(f) == f = [n \in 0..N |-> IF n = 0 THEN <<>>
                                ELSE IF seq[n] \in some THEN Append(f[n - 1], seq[n]) ELSE f[n - 1]]
             kept == CHOOSE f : Rec(f)
  <1>1. N \in Nat /\ \A n \in 1..N : seq[n] \in S
    OBVIOUS
  <1>2. turn \in [1..N -> [Seq(S) -> Seq(S)]]
    BY <1>1
  <1>3. <<>> \in Seq(S)
    OBVIOUS
  <1>4. PICK f \in [0..N -> Seq(S)] : f[0] = <<>> /\ \A n \in 1..N : f[n] = turn[n][f[n - 1]]
    <2> DEFINE A == Seq(S)
               b == <<>>
    <2>1. N \in Nat /\ b \in A /\ turn \in [1..N -> [A -> A]]
      BY <1>1, <1>2, <1>3
    <2> HIDE DEF turn, N, A, b
    <2>2. PICK f : IsLoop(f, A, N, b, turn)
      BY <2>1, Iterates
    <2> QED
      BY <2>2 DEF A, b, IsLoop
  <1>5. \A n \in 1..N : f[n] = IF seq[n] \in some THEN Append(f[n - 1], seq[n]) ELSE f[n - 1]
    <2> TAKE n \in 1..N
    <2>1. f[n - 1] \in Seq(S)
      OBVIOUS
    <2>2. turn[n][f[n - 1]] = IF seq[n] \in some THEN Append(f[n - 1], seq[n]) ELSE f[n - 1]
      BY <2>1
    <2> QED
      BY <1>4, <2>2
  <1>6. Rec(f)
    <2> DEFINE g == [n \in 0..N |-> IF n = 0 THEN <<>>
                                ELSE IF seq[n] \in some THEN Append(f[n - 1], seq[n]) ELSE f[n - 1]]
    <2>1. \A n \in 0..N : f[n] = g[n]
      <3> TAKE n \in 0..N
      <3>1. CASE n = 0
        BY <3>1, <1>4
      <3>2. CASE n # 0
        <4>1. n \in 1..N
          BY <3>2
        <4>2. f[n] = IF seq[n] \in some THEN Append(f[n - 1], seq[n]) ELSE f[n - 1]
          BY <4>1, <1>5
        <4>3. g[n] = IF seq[n] \in some THEN Append(f[n - 1], seq[n]) ELSE f[n - 1]
          BY <3>2
        <4> HIDE DEF g
        <4> QED
          BY <4>2, <4>3
      <3> QED
        BY <3>1, <3>2
    <2>2. f = [n \in 0..N |-> f[n]] /\ g = [n \in 0..N |-> g[n]]
      OBVIOUS
    <2>3. f = g
      <3> HIDE DEF g
      <3> QED
        BY <2>1, <2>2
    <2> QED
      BY <2>3
  <1>7. Rec(kept)
    <2> HIDE DEF Rec
    <2> QED
      BY <1>6
  <1>8. Only(seq, some) = kept[N]
    BY DEF Only
  <1>9. kept = f
    <2>0. \A n \in 1..N : kept[n] = IF seq[n] \in some THEN Append(kept[n - 1], seq[n]) ELSE kept[n - 1]
      <3> TAKE n \in 1..N
      <3>1. n \in 0..N /\ n # 0
        BY <1>1
      <3> HIDE DEF kept, N
      <3>2. kept = [m \in 0..N |-> IF m = 0 THEN <<>>
                        ELSE IF seq[m] \in some THEN Append(kept[m - 1], seq[m]) ELSE kept[m - 1]]
        BY <1>7
      <3> QED
        BY <3>1, <3>2, Zenon
    <2>1. kept[0] = <<>>
      <3> HIDE DEF kept
      <3> QED
        BY <1>7
    <2>2. \A n \in 1..N : kept[n - 1] = f[n - 1] => kept[n] = f[n]
      <3> HIDE DEF kept
      <3> QED
        BY <2>0, <1>5
    <2>4. \A n \in 0..N : kept[n] = f[n]
      <3>1. kept[0] = f[0]
        BY <2>1, <1>4
      <3>2. N \in Nat
        BY <1>1
      <3> HIDE DEF kept, N
      <3>3. Keeps(kept, f, N)
        BY <3>1, <2>2 DEF Keeps
      <3>4. Agree(kept, f, N)
        BY <3>2, <3>3, Follows
      <3> QED
        BY <3>4 DEF Agree
    <2>5. \A n \in 0..N : kept[n] = f[n]
      BY <2>4
    <2>6. kept = [n \in 0..N |-> kept[n]]
      <3> HIDE DEF kept
      <3> QED
        BY <1>7
    <2> HIDE DEF kept
    <2> QED
      BY <2>5, <2>6
  <1> HIDE DEF kept, N
  <1> QED
    BY <1>4, <1>5, <1>8, <1>9 DEF N, IsOnly
-----------------------------------------------------------------------------
\* What is picked from a sequence comes from places of it, two from two.
Picked(out, seq, some) ==
  /\ \A k \in 1..Len(out) : \E m \in 1..Len(seq) : out[k] = seq[m] /\ seq[m] \in some
  /\ \A k, l \in 1..Len(out) : k # l =>
       \E m, n \in 1..Len(seq) : m # n /\ out[k] = seq[m] /\ out[l] = seq[n]

LEMMA OnlyPicks ==
  ASSUME NEW S, NEW seq \in Seq(S), NEW some
  PROVE  /\ Only(seq, some) \in Seq(S)
         /\ Len(Only(seq, some)) <= Len(seq)
         /\ Picked(Only(seq, some), seq, some)
  <1> DEFINE N == Len(seq)
  <1>0. N \in Nat /\ DOMAIN seq = 1..N /\ \A n \in 1..N : seq[n] \in S
    OBVIOUS
  <1>k. PICK kept : IsOnly(kept, S, seq, some)
    BY OnlyLoop
  <1>1. /\ kept \in [0..N -> Seq(S)] /\ kept[0] = <<>>
        /\ \A n \in 1..N :
             kept[n] = IF seq[n] \in some THEN Append(kept[n - 1], seq[n]) ELSE kept[n - 1]
        /\ Only(seq, some) = kept[N]
    BY <1>k DEF IsOnly
  <1> DEFINE Good(n) ==
         /\ Len(kept[n]) <= n
         /\ \A k \in 1..Len(kept[n]) : \E m \in 1..n : kept[n][k] = seq[m] /\ seq[m] \in some
         /\ \A k, l \in 1..Len(kept[n]) : k # l =>
              \E m, j \in 1..n : m # j /\ kept[n][k] = seq[m] /\ kept[n][l] = seq[j]
             T == {n \in 0..N : Good(n)}
  <1>2. 0 \in T
    BY <1>1, <1>0
  <1>3. ASSUME NEW n \in 1..N, n - 1 \in T
        PROVE  n \in T
    <2> DEFINE s == kept[n - 1]
               e == seq[n]
    <2>a. n - 1 \in 0..N /\ n \in 0..N
      BY <1>0
    <2>b. s \in Seq(S) /\ e \in S
      BY <1>0, <1>1, <2>a
    <2>c. Len(s) \in Nat
      BY <2>b
    <2>d. Good(n - 1)
      BY <1>3
    <2>0. n - 1 \in 0..N /\ n \in 0..N /\ s \in Seq(S) /\ e \in S /\ Len(s) \in Nat /\ Good(n - 1)
      BY <2>a, <2>b, <2>c, <2>d
    <2>1. CASE e \in some
      <3>1. kept[n] = Append(s, e)
        BY <2>1, <1>1
      <3>2. Len(kept[n]) = Len(s) + 1 /\ kept[n][Len(s) + 1] = e
            /\ \A k \in 1..Len(s) : kept[n][k] = s[k]
        BY <3>1, <2>0
      <3>3. Len(kept[n]) <= n
        BY <3>2, <2>0
      <3>4. ASSUME NEW k \in 1..Len(kept[n])
            PROVE  \E m \in 1..n : kept[n][k] = seq[m] /\ seq[m] \in some
        <4>1. CASE k = Len(s) + 1
          BY <4>1, <3>2, <2>1
        <4>2. CASE k # Len(s) + 1
          <5>1. k \in 1..Len(s)
            BY <4>2, <3>2, <2>0
          <5>2. PICK m \in 1..n - 1 : s[k] = seq[m] /\ seq[m] \in some
            BY <5>1, <2>0
          <5> HIDE DEF s
          <5> QED
            BY <5>1, <5>2, <3>2
        <4> QED
          BY <4>1, <4>2
      <3>5. ASSUME NEW k \in 1..Len(kept[n]), NEW l \in 1..Len(kept[n]), k # l
            PROVE  \E m, j \in 1..n : m # j /\ kept[n][k] = seq[m] /\ kept[n][l] = seq[j]
        <4>1. CASE k = Len(s) + 1
          <5>1. l \in 1..Len(s)
            BY <4>1, <3>5, <3>2, <2>0
          <5>2. PICK m \in 1..n - 1 : s[l] = seq[m]
            BY <5>1, <2>0
          <5>3. kept[n][l] = seq[m] /\ kept[n][k] = seq[n] /\ m # n
            BY <4>1, <5>1, <5>2, <3>2
          <5> QED
            BY <5>3
        <4>2. CASE l = Len(s) + 1
          <5>1. k \in 1..Len(s)
            BY <4>2, <3>5, <3>2, <2>0
          <5>2. PICK m \in 1..n - 1 : s[k] = seq[m]
            BY <5>1, <2>0
          <5>3. kept[n][k] = seq[m] /\ kept[n][l] = seq[n] /\ m # n
            BY <4>2, <5>1, <5>2, <3>2
          <5> QED
            BY <5>3
        <4>3. CASE k # Len(s) + 1 /\ l # Len(s) + 1
          <5>1. k \in 1..Len(s) /\ l \in 1..Len(s)
            <6>1. Len(s) \in Nat /\ Len(kept[n]) = Len(s) + 1
              BY <3>2, <2>0
            <6> HIDE DEF s
            <6> QED
              BY <4>3, <6>1
          <5>2. PICK m, j \in 1..n - 1 : m # j /\ s[k] = seq[m] /\ s[l] = seq[j]
            BY <5>1, <2>0, <3>5
          <5>3. kept[n][k] = seq[m] /\ kept[n][l] = seq[j]
            BY <5>1, <5>2, <3>2
          <5> QED
            BY <5>2, <5>3
        <4> QED
          BY <4>1, <4>2, <4>3
      <3> QED
        BY <2>0, <3>3, <3>4, <3>5
    <2>2. CASE e \notin some
      <3>1. kept[n] = s
        BY <2>2, <1>1
      <3>2. \A m \in 1..n - 1 : m \in 1..n
        OBVIOUS
      <3>3. Good(n)
        BY <2>d, <2>c, <3>1, <3>2
      <3> QED
        BY <2>a, <3>3
    <2> HIDE DEF T, e
    <2> QED
      BY <2>1, <2>2
  <1>4. T = 0..N
    <2>1. T \in SUBSET (0..N)
      OBVIOUS
    <2> HIDE DEF T, N
    <2> QED
      BY <2>1, <1>0, <1>2, <1>3, Induct
  <1>5. Good(N)
    BY <1>0, <1>4
  <1>6. kept[N] \in Seq(S)
    <2> HIDE DEF N
    <2> QED
      BY <1>0, <1>1
  <1>7. DOMAIN kept[N] = 1..Len(kept[N]) /\ N = Len(seq)
    BY <1>6
  <1>8. Picked(kept[N], seq, some)
    <2> DEFINE out == kept[N]
    <2>1. DOMAIN out = 1..Len(out) /\ DOMAIN seq = 1..N
      BY <1>7, <1>0
    <2>2. \A k \in 1..Len(out) : \E m \in 1..N : out[k] = seq[m] /\ seq[m] \in some
      BY <1>5
    <2>3. \A k, l \in 1..Len(out) : k # l =>
             \E m, j \in 1..N : m # j /\ out[k] = seq[m] /\ out[l] = seq[j]
      BY <1>5
    <2>4. Picked(out, seq, some)
      <3> HIDE DEF out
      <3> QED
        BY <2>2, <2>3 DEF Picked
    <2> QED
      BY <2>4
  <1> HIDE DEF N
  <1> QED
    BY <1>1, <1>5, <1>6, <1>7, <1>8
-----------------------------------------------------------------------------
\* A ring of entries E: every place in use holds one.
Rings(E, c, K) ==
  [buf : [0..c - 1 -> E \cup {Vacant}], head : 0..c - 1, size : 0..c, capacity : {c}, keyOf : {K}]

RingOK(ring, E, c, K) ==
  /\ ring \in Rings(E, c, K)
  /\ \A pos \in 0..ring.size - 1 : ring.buf[IndexAt(ring, pos)] \in E

LEMMA Index ==
  ASSUME NEW c \in Nat \ {0}, NEW h \in 0..c - 1, NEW p \in 0..c - 1
  PROVE  /\ (h - p) % c = IF p <= h THEN h - p ELSE h - p + c
         /\ (h - p) % c \in 0..c - 1
         /\ (h - ((h - p) % c)) % c = p
  <1>1. (h - p) % c = IF p <= h THEN h - p ELSE h - p + c
    OBVIOUS
  <1>3. \A q \in 0..c - 1 : (h - q) % c = IF q <= h THEN h - q ELSE h - q + c
    OBVIOUS
  <1>4. (h - p) % c \in 0..c - 1
    BY <1>1
  <1>5. (h - ((h - p) % c)) % c = p
    <2> DEFINE q == (h - p) % c
    <2>1. (h - q) % c = IF q <= h THEN h - q ELSE h - q + c
      BY <1>3, <1>4
    <2>2. q = IF p <= h THEN h - p ELSE h - p + c
      BY <1>1
    <2>3. q \in Int
      BY <2>2
    <2> HIDE DEF q
    <2>4. (h - q) % c = p
      BY <2>1, <2>2, <2>3
    <2> QED
      BY <2>4 DEF q
  <1> QED
    BY <1>1, <1>4, <1>5

LEMMA NextIndex ==
  ASSUME NEW c \in Nat \ {0}, NEW h \in 0..c - 1
  PROVE  (h + 1) % c = IF h = c - 1 THEN 0 ELSE h + 1
  OBVIOUS

LEMMA SnapshotAt ==
  ASSUME NEW ring, NEW n \in 1..ring.size
  PROVE  Snapshot(ring)[n] = ring.buf[IndexAt(ring, n - 1)]
  BY DEF Snapshot

LEMMA SnapshotIs ==
  ASSUME NEW E, NEW c \in Nat \ {0}, NEW K, NEW ring, RingOK(ring, E, c, K)
  PROVE  Snapshot(ring) \in Seq(E) /\ Len(Snapshot(ring)) = ring.size
  <1>1. ring.size \in Nat
    BY DEF RingOK, Rings
  <1>2. \A n \in 1..ring.size : ring.buf[IndexAt(ring, n - 1)] \in E
    <2> TAKE n \in 1..ring.size
    <2>1. n - 1 \in 0..ring.size - 1
      BY <1>1
    <2> QED
      BY <2>1 DEF RingOK
  <1>3. Snapshot(ring) \in [1..ring.size -> E]
    BY <1>2 DEF Snapshot
  <1> QED
    BY <1>1, <1>3

LEMMA NewIs ==
  ASSUME NEW E, NEW c \in Nat \ {0}, NEW K
  PROVE  /\ RingOK(NewBoundedCache(c, K), E, c, K) /\ NewBoundedCache(c, K).size = 0
         /\ Snapshot(NewBoundedCache(c, K)) = <<>>
  <1>1. NewBoundedCache(c, K) \in Rings(E, c, K)
    BY DEF NewBoundedCache, Rings
  <1>2. NewBoundedCache(c, K).size = 0
    BY DEF NewBoundedCache
  <1>3. RingOK(NewBoundedCache(c, K), E, c, K)
    BY <1>1, <1>2 DEF RingOK
  <1>4. Snapshot(NewBoundedCache(c, K)) \in Seq(E) /\ Len(Snapshot(NewBoundedCache(c, K))) = 0
    BY <1>2, <1>3, SnapshotIs
  <1> QED
    BY <1>2, <1>3, <1>4

\* The new entry is the first, and all fit or the oldest is gone.
Prepended(post, ring, e) ==
  /\ post.size = IF ring.size < ring.capacity THEN ring.size + 1 ELSE ring.capacity
  /\ Snapshot(post)[1] = e
  /\ \A n \in 2..post.size : Snapshot(post)[n] = Snapshot(ring)[n - 1]

LEMMA PrependIs ==
  ASSUME NEW E, NEW c \in Nat \ {0}, NEW K, NEW ring, RingOK(ring, E, c, K), NEW e \in E
  PROVE  /\ RingOK(PrependLocked(ring, e), E, c, K)
         /\ Prepended(PrependLocked(ring, e), ring, e)
  <1> DEFINE place == IF ring.size = 0 THEN 0 ELSE (ring.head + 1) % c
             post == PrependLocked(ring, e)
             h == ring.head
             s == ring.size
  <1>0. /\ ring \in Rings(E, c, K) /\ ring.buf \in [0..c - 1 -> E \cup {Vacant}] /\ h \in 0..c - 1
        /\ s \in 0..c /\ ring.capacity = c /\ ring.keyOf = K
        /\ \A pos : IndexAt(ring, pos) = (h - pos) % c
    <2>1. ring \in Rings(E, c, K)
      BY DEF RingOK
    <2>2. /\ ring.buf \in [0..c - 1 -> E \cup {Vacant}] /\ h \in 0..c - 1
          /\ s \in 0..c /\ ring.capacity = c /\ ring.keyOf = K
      BY <2>1 DEF Rings
    <2> QED
      BY <2>1, <2>2 DEF IndexAt
  <1>1. place \in 0..c - 1 /\ place = IF s = 0 THEN 0 ELSE IF h = c - 1 THEN 0 ELSE h + 1
    <2>1. (h + 1) % c = IF h = c - 1 THEN 0 ELSE h + 1
      BY <1>0, NextIndex
    <2> QED
      BY <1>0, <2>1
  <1>2. /\ post.buf = [ring.buf EXCEPT ![place] = e] /\ post.head = place
        /\ post.size = (IF s < c THEN s + 1 ELSE c)
        /\ post.capacity = c /\ post.keyOf = K
        /\ post \in Rings(E, c, K)
    <2>1. s = c \/ s < c
      BY <1>0
    <2>2. post = [ring EXCEPT !.buf = [ring.buf EXCEPT ![place] = e], !.head = place,
                              !.size = IF s < c THEN s + 1 ELSE s]
      BY <1>0 DEF PrependLocked
    <2> DEFINE b == [ring.buf EXCEPT ![place] = e]
               z == IF s < c THEN s + 1 ELSE c
    <2>3. b \in [0..c - 1 -> E \cup {Vacant}] /\ z \in 0..c
      BY <1>0, <1>1
    <2>4. z = IF s < c THEN s + 1 ELSE s
      BY <1>0, <2>1
    <2>5. post = [ring EXCEPT !.buf = b, !.head = place, !.size = z]
      BY <2>2, <2>4
    <2> HIDE DEF b, z, post, place
    <2>6. /\ post.buf = b /\ post.head = place /\ post.size = z /\ post.capacity = c /\ post.keyOf = K
          /\ post \in Rings(E, c, K)
      BY <1>0, <1>1, <2>3, <2>5 DEF Rings
    <2> QED
      BY <2>6 DEF b, z
  <1>3. /\ post.size \in 1..c /\ post.buf[place] = e
        /\ \A ix \in 0..c - 1 : ix # place => post.buf[ix] = ring.buf[ix]
        /\ \A pos : IndexAt(post, pos) = (place - pos) % c
    <2> HIDE DEF post, place
    <2>1. post.head = place /\ post.capacity = c
      BY <1>2
    <2>2. \A pos : IndexAt(post, pos) = (place - pos) % c
      BY <2>1 DEF IndexAt
    <2>3. post.size \in 1..c
      BY <1>0, <1>2
    <2>4. post.buf[place] = e
      BY <1>0, <1>1, <1>2
    <2>5. \A ix \in 0..c - 1 : ix # place => post.buf[ix] = ring.buf[ix]
      BY <1>0, <1>1, <1>2
    <2> QED
      BY <2>2, <2>3, <2>4, <2>5
  <1> HIDE DEF post, place
  <1>4. post.buf[IndexAt(post, 0)] = e
    <2>0. 0 \in 0..c - 1
      OBVIOUS
    <2>1. (place - 0) % c = place
      BY <1>1, <2>0, Index
    <2> QED
      BY <1>3, <2>1
  <1>5. ASSUME NEW pos \in 1..post.size - 1
        PROVE  post.buf[IndexAt(post, pos)] = ring.buf[IndexAt(ring, pos - 1)] /\ pos - 1 \in 0..s - 1
    <2>1. pos \in 0..c - 1 /\ pos - 1 \in 0..c - 1 /\ pos - 1 \in 0..s - 1 /\ s # 0
      BY <1>0, <1>2, <1>3
    <2>2. (place - pos) % c = IF pos <= place THEN place - pos ELSE place - pos + c
      BY <1>1, <2>1, Index
    <2>3. (h - (pos - 1)) % c = IF pos - 1 <= h THEN h - (pos - 1) ELSE h - (pos - 1) + c
      <3> DEFINE k == pos - 1
      <3>1. k \in 0..c - 1 /\ h \in 0..c - 1
        BY <2>1, <1>0
      <3> HIDE DEF k
      <3>2. (h - k) % c = IF k <= h THEN h - k ELSE h - k + c
        BY <3>1, Index
      <3> QED
        BY <3>2 DEF k
    <2>4. /\ (place - pos) % c = (h - (pos - 1)) % c /\ (place - pos) % c # place
          /\ (place - pos) % c \in 0..c - 1
      <3> DEFINE a == (place - pos) % c
                 b == (h - (pos - 1)) % c
      <3>1. /\ place \in Int /\ h \in Int /\ pos \in Int
            /\ place \in 0..c - 1 /\ h \in 0..c - 1 /\ pos \in 1..c - 1
            /\ place = IF h = c - 1 THEN 0 ELSE h + 1
        BY <1>0, <1>1, <2>1
      <3>2. /\ a = IF pos <= place THEN place - pos ELSE place - pos + c
            /\ b = IF pos - 1 <= h THEN h - (pos - 1) ELSE h - (pos - 1) + c
        BY <2>2, <2>3
      <3> HIDE DEF a, b
      <3>3. a = b /\ a # place /\ a \in 0..c - 1
        BY <3>1, <3>2
      <3> QED
        BY <3>3 DEF a, b
    <2> QED
      BY <1>0, <1>3, <2>1, <2>4
  <1>6. RingOK(post, E, c, K)
    <2> SUFFICES ASSUME NEW pos \in 0..post.size - 1 PROVE post.buf[IndexAt(post, pos)] \in E
      BY <1>2 DEF RingOK
    <2>1. CASE pos = 0
      BY <2>1, <1>4
    <2>2. CASE pos # 0
      <3>1. pos \in 1..post.size - 1
        BY <2>2, <1>3
      <3> QED
        BY <3>1, <1>5 DEF RingOK
    <2> QED
      BY <2>1, <2>2
  <1>7. /\ \A n \in 1..post.size : Snapshot(post)[n] = post.buf[IndexAt(post, n - 1)]
        /\ \A n \in 1..s : Snapshot(ring)[n] = ring.buf[IndexAt(ring, n - 1)]
    <2>1. \A n \in 1..post.size : Snapshot(post)[n] = post.buf[IndexAt(post, n - 1)]
      <3> TAKE n \in 1..post.size
      <3> QED
        BY SnapshotAt
    <2>2. \A n \in 1..s : Snapshot(ring)[n] = ring.buf[IndexAt(ring, n - 1)]
      <3> TAKE n \in 1..s
      <3> QED
        BY SnapshotAt
    <2> QED
      BY <2>1, <2>2
  <1>8. Snapshot(post)[1] = e
    BY <1>3, <1>4, <1>7
  <1>9. ASSUME NEW n \in 2..post.size
        PROVE  Snapshot(post)[n] = Snapshot(ring)[n - 1]
    <2>1. n \in 1..post.size /\ n - 1 \in 1..post.size - 1
      BY <1>3
    <2>2. (n - 1) - 1 \in 0..s - 1 /\ post.buf[IndexAt(post, n - 1)] = ring.buf[IndexAt(ring, (n - 1) - 1)]
      BY <2>1, <1>5
    <2>3. n - 1 \in 1..s
      BY <1>0, <2>2, <2>1
    <2> QED
      BY <1>7, <2>1, <2>2, <2>3
  <1> QED
    BY <1>0, <1>2, <1>6, <1>8, <1>9 DEF post, Prepended
-----------------------------------------------------------------------------
\* The entry at pos is gone, and the older ones have moved up.
RemovedAt(post, ring, pos) ==
  /\ post.size = ring.size - 1
  /\ \A n \in 1..post.size : Snapshot(post)[n] = Snapshot(ring)[IF n <= pos THEN n ELSE n + 1]

LEMMA RemoveAtIs ==
  ASSUME NEW E, NEW c \in Nat \ {0}, NEW K, NEW ring, RingOK(ring, E, c, K), NEW pos \in 0..ring.size - 1
  PROVE  /\ RingOK(RemoveAtPosLocked(ring, pos), E, c, K)
         /\ RemovedAt(RemoveAtPosLocked(ring, pos), ring, pos)
  <1> DEFINE h == ring.head
             s == ring.size
             posOf(ix) == (h - ix) % c
             at(p) == (h - p) % c
             post == RemoveAtPosLocked(ring, pos)
             buf == [ix \in 0..c - 1 |->
                        IF posOf(ix) = s - 1 THEN Vacant
                        ELSE IF posOf(ix) \in pos .. (s - 1) - 1 THEN ring.buf[at(posOf(ix) + 1)]
                        ELSE ring.buf[ix]]
  <1>0. /\ ring \in Rings(E, c, K) /\ ring.buf \in [0..c - 1 -> E \cup {Vacant}] /\ h \in 0..c - 1
        /\ s \in 1..c /\ ring.capacity = c /\ ring.keyOf = K
        /\ DOMAIN ring.buf = 0..c - 1
    <2>1. ring \in Rings(E, c, K)
      BY DEF RingOK
    <2>2. /\ ring.buf \in [0..c - 1 -> E \cup {Vacant}] /\ h \in 0..c - 1
          /\ s \in 0..c /\ ring.capacity = c /\ ring.keyOf = K
      BY <2>1 DEF Rings
    <2> QED
      BY <2>1, <2>2
  <1>1. \A p \in 0..c - 1 : at(p) \in 0..c - 1 /\ posOf(at(p)) = p
    BY <1>0, Index
  <1>2. buf \in [0..c - 1 -> E \cup {Vacant}]
    <2> SUFFICES ASSUME NEW ix \in 0..c - 1
                 PROVE  buf[ix] \in E \cup {Vacant}
      OBVIOUS
    <2>0. posOf(ix) \in 0..c - 1
      BY <1>0, Index
    <2>1. CASE posOf(ix) = s - 1
      BY <2>1
    <2>2. CASE posOf(ix) # s - 1 /\ posOf(ix) \in pos .. (s - 1) - 1
      <3> DEFINE q == posOf(ix) + 1
      <3>1. q \in 0..c - 1
        BY <2>0, <2>2, <1>0
      <3>2. at(q) \in 0..c - 1
        <4> HIDE DEF q
        <4> QED
          BY <3>1, <1>1
      <3>3. buf[ix] = ring.buf[at(q)]
        BY <2>2
      <3> HIDE DEF at, q, buf
      <3> QED
        BY <1>0, <3>2, <3>3
    <2>3. CASE posOf(ix) # s - 1 /\ posOf(ix) \notin pos .. (s - 1) - 1
      BY <2>3, <1>0
    <2> QED
      BY <2>1, <2>2, <2>3
  <1>3. /\ post.buf = buf /\ post.head = h /\ post.size = s - 1 /\ post.capacity = c /\ post.keyOf = K
        /\ post \in Rings(E, c, K)
    <2>1. post = [ring EXCEPT !.size = s - 1, !.buf = buf]
      BY <1>0 DEF RemoveAtPosLocked, IndexAt
    <2>2. s - 1 \in 0..c
      BY <1>0
    <2> HIDE DEF post, buf
    <2> QED
      BY <1>0, <1>2, <2>1, <2>2 DEF Rings
  <1>4. \A p : IndexAt(post, p) = at(p) /\ IndexAt(ring, p) = at(p)
    <2> HIDE DEF post
    <2> QED
      BY <1>0, <1>3 DEF IndexAt
  <1>5. ASSUME NEW p \in 0..(s - 1) - 1
        PROVE  post.buf[IndexAt(post, p)] = ring.buf[IndexAt(ring, IF p < pos THEN p ELSE p + 1)]
    <2>0. p \in 0..c - 1 /\ p # s - 1
      BY <1>0
    <2>1. at(p) \in 0..c - 1 /\ posOf(at(p)) = p
      BY <2>0, <1>1
    <2>2. buf[at(p)] = IF p \in pos .. (s - 1) - 1 THEN ring.buf[at(p + 1)] ELSE ring.buf[at(p)]
      <3> DEFINE ix == at(p)
      <3>1. buf[ix] = IF posOf(ix) = s - 1 THEN Vacant
                      ELSE IF posOf(ix) \in pos .. (s - 1) - 1 THEN ring.buf[at(posOf(ix) + 1)]
                      ELSE ring.buf[ix]
        <4>1. ix \in 0..c - 1
          BY <2>1
        <4> HIDE DEF ix
        <4> QED
          BY <4>1
      <3>2. posOf(ix) = p
        BY <2>1
      <3> HIDE DEF posOf, at, buf
      <3> QED
        BY <2>0, <3>1, <3>2
    <2>3. post.buf[IndexAt(post, p)] = buf[at(p)]
      BY <1>3, <1>4
    <2>4. p \in pos .. (s - 1) - 1 <=> ~(p < pos)
      BY <1>0
    <2>5. IndexAt(ring, p) = at(p) /\ IndexAt(ring, p + 1) = at(p + 1)
      BY <1>4
    <2> HIDE DEF post, buf, at
    <2> QED
      BY <2>2, <2>3, <2>4, <2>5
  <1> HIDE DEF post, buf, at, posOf
  <1>6. ASSUME NEW p \in 0..s - 1
        PROVE  ring.buf[IndexAt(ring, p)] \in E
    BY DEF RingOK
  <1>7. RingOK(post, E, c, K)
    <2> SUFFICES ASSUME NEW p \in 0..(s - 1) - 1 PROVE post.buf[IndexAt(post, p)] \in E
      BY <1>3 DEF RingOK
    <2> DEFINE q == IF p < pos THEN p ELSE p + 1
    <2>1. q \in 0..s - 1
      BY <1>0
    <2>2. post.buf[IndexAt(post, p)] = ring.buf[IndexAt(ring, q)]
      BY <1>5
    <2> HIDE DEF q
    <2> QED
      BY <2>1, <2>2, <1>6
  <1>8. ASSUME NEW n \in 1..post.size
        PROVE  Snapshot(post)[n] = Snapshot(ring)[IF n <= pos THEN n ELSE n + 1]
    <2> DEFINE p == n - 1
               m == IF n <= pos THEN n ELSE n + 1
    <2>1. p \in 0..(s - 1) - 1 /\ m \in 1..s /\ m - 1 = IF p < pos THEN p ELSE p + 1
      BY <1>0, <1>3
    <2>2. Snapshot(post)[n] = post.buf[IndexAt(post, p)]
      BY SnapshotAt
    <2>3. Snapshot(ring)[m] = ring.buf[IndexAt(ring, m - 1)]
      <3> HIDE DEF m
      <3> QED
        BY <2>1, SnapshotAt
    <2>4. post.buf[IndexAt(post, p)] = ring.buf[IndexAt(ring, IF p < pos THEN p ELSE p + 1)]
      <3> HIDE DEF p
      <3> QED
        BY <2>1, <1>5
    <2> HIDE DEF p, m
    <2>5. Snapshot(post)[n] = Snapshot(ring)[m]
      BY <2>1, <2>2, <2>3, <2>4
    <2> QED
      BY <2>5 DEF m
  <1> QED
    BY <1>3, <1>7, <1>8 DEF post, RemovedAt
-----------------------------------------------------------------------------
LEMMA MinIs ==
  ASSUME NEW S \in SUBSET Nat, S # {}
  PROVE  Min(S) \in S /\ \A y \in S : Min(S) <= y
  <1>1. IsWellFoundedOn(OpToRel(<, Nat), Nat)
    BY NatLessThanWellFounded
  <1>2. PICK m \in S : \A y \in S : ~(<<y, m>> \in OpToRel(<, Nat))
    BY <1>1, WFMin
  <1>3. \A y \in S : m <= y
    <2> TAKE y \in S
    <2>1. ~(y < m)
      <3> SUFFICES ASSUME y < m PROVE FALSE
        OBVIOUS
      <3>1. <<y, m>> \in Nat \X Nat
        OBVIOUS
      <3>2. <<y, m>> \in OpToRel(<, Nat)
        BY <3>1 DEF OpToRel
      <3> QED
        BY <1>2, <3>2
    <2> QED
      BY <2>1
  <1> QED
    BY <1>3 DEF Min

ItemAt(ring, n) == Snapshot(ring)[n].item

\* Without the entry of a key, if there is one.
KeyRemoved(post, ring, key) ==
  \/ post = ring /\ \A n \in 1..ring.size : ring.keyOf[ItemAt(ring, n)] # key
  \/ \E pos \in 0..ring.size - 1 :
        ring.keyOf[ItemAt(ring, pos + 1)] = key /\ RemovedAt(post, ring, pos)

LEMMA RemoveByKeyIs ==
  ASSUME NEW E, NEW c \in Nat \ {0}, NEW K, NEW ring, RingOK(ring, E, c, K), NEW key
  PROVE  /\ RingOK(RemoveByKeyLocked(ring, key), E, c, K)
         /\ KeyRemoved(RemoveByKeyLocked(ring, key), ring, key)
  <1> DEFINE hits == {pos \in 0 .. ring.size - 1 :
                         ring.keyOf[ring.buf[IndexAt(ring, pos)].item] = key}
             post == RemoveByKeyLocked(ring, key)
  <1>0. ring.size \in Nat
    BY DEF RingOK, Rings
  <1>1. post = IF hits = {} THEN ring ELSE RemoveAtPosLocked(ring, Min(hits))
    BY DEF RemoveByKeyLocked
  <1>2. ASSUME NEW pos \in 0..ring.size - 1
        PROVE  ItemAt(ring, pos + 1) = ring.buf[IndexAt(ring, pos)].item
    <2>1. pos + 1 \in 1..ring.size /\ (pos + 1) - 1 = pos
      BY <1>0
    <2>2. Snapshot(ring)[pos + 1] = ring.buf[IndexAt(ring, (pos + 1) - 1)]
      <3> DEFINE n == pos + 1
      <3>1. n \in 1..ring.size
        BY <2>1
      <3> HIDE DEF n
      <3>2. Snapshot(ring)[n] = ring.buf[IndexAt(ring, n - 1)]
        BY <3>1, SnapshotAt
      <3> QED
        BY <3>2 DEF n
    <2> QED
      BY <2>1, <2>2 DEF ItemAt
  <1>3. CASE hits = {}
    <2>1. post = ring
      BY <1>1, <1>3
    <2>2. ASSUME NEW n \in 1..ring.size
          PROVE  ring.keyOf[ItemAt(ring, n)] # key
      <3> DEFINE pos == n - 1
      <3>1. pos \in 0..ring.size - 1 /\ pos + 1 = n
        BY <1>0
      <3>2. pos \notin hits
        BY <1>3
      <3> HIDE DEF pos
      <3> QED
        BY <3>1, <3>2, <1>2
    <2> HIDE DEF post
    <2> QED
      BY <2>1, <2>2 DEF KeyRemoved, post
  <1>4. CASE hits # {}
    <2> DEFINE pos == Min(hits)
    <2>1. pos \in hits
      <3>1. hits \in SUBSET Nat
        BY <1>0
      <3> HIDE DEF hits
      <3> QED
        BY <3>1, <1>4, MinIs
    <2>2. pos \in 0..ring.size - 1 /\ ring.keyOf[ItemAt(ring, pos + 1)] = key
      <3> HIDE DEF pos
      <3> QED
        BY <2>1, <1>2
    <2>3. post = RemoveAtPosLocked(ring, pos)
      BY <1>1, <1>4
    <2> HIDE DEF post, pos
    <2>4. RingOK(post, E, c, K) /\ RemovedAt(post, ring, pos)
      BY <2>2, <2>3, RemoveAtIs
    <2>5. KeyRemoved(post, ring, key)
      BY <2>2, <2>4 DEF KeyRemoved
    <2> QED
      BY <2>4, <2>5 DEF post
  <1> QED
    BY <1>3, <1>4

LEMMA AddIs ==
  ASSUME NEW E, NEW c \in Nat \ {0}, NEW K, NEW ring, RingOK(ring, E, c, K), NEW e \in E
  PROVE  /\ RingOK(Add(ring, e), E, c, K)
         /\ \E mid : /\ RingOK(mid, E, c, K)
                     /\ KeyRemoved(mid, ring, K[e.item]) /\ Prepended(Add(ring, e), mid, e)
  <1> DEFINE mid == RemoveByKeyLocked(ring, K[e.item])
  <1>1. ring.keyOf = K
    BY DEF RingOK, Rings
  <1>2. Add(ring, e) = PrependLocked(mid, e)
    BY <1>1 DEF Add
  <1>3. RingOK(mid, E, c, K) /\ KeyRemoved(mid, ring, K[e.item])
    BY RemoveByKeyIs
  <1> HIDE DEF mid
  <1>4. RingOK(PrependLocked(mid, e), E, c, K) /\ Prepended(PrependLocked(mid, e), mid, e)
    BY <1>3, PrependIs
  <1> QED
    BY <1>2, <1>3, <1>4

\* The vector is there, if the entry still is.
VectorSet(post, ring, item) ==
  /\ post.size = ring.size
  /\ \A n \in 1..ring.size :
        Snapshot(post)[n] = IF ItemAt(ring, n) = item THEN [item |-> item, vec |-> TRUE]
                            ELSE Snapshot(ring)[n]

LEMMA UpdateVectorIs ==
  ASSUME NEW I, NEW c \in Nat \ {0}, NEW K, NEW ring, NEW item \in I,
         RingOK(ring, [item : I, vec : BOOLEAN], c, K)
  PROVE  /\ RingOK(UpdateVector(ring, item), [item : I, vec : BOOLEAN], c, K)
         /\ VectorSet(UpdateVector(ring, item), ring, item)
  <1> DEFINE E == [item : I, vec : BOOLEAN]
             post == UpdateVector(ring, item)
             full == [item |-> item, vec |-> TRUE]
             buf == [ix \in 0..c - 1 |-> IF ring.buf[ix].item = item THEN full ELSE ring.buf[ix]]
  <1>0. /\ ring \in Rings(E, c, K) /\ ring.buf \in [0..c - 1 -> E \cup {Vacant}] /\ ring.head \in 0..c - 1
        /\ ring.size \in 0..c /\ ring.capacity = c /\ ring.keyOf = K
        /\ DOMAIN ring.buf = 0..c - 1
    <2>1. ring \in Rings(E, c, K)
      BY DEF RingOK
    <2> HIDE DEF E
    <2>2. /\ ring.buf \in [0..c - 1 -> E \cup {Vacant}] /\ ring.head \in 0..c - 1
          /\ ring.size \in 0..c /\ ring.capacity = c /\ ring.keyOf = K
      BY <2>1 DEF Rings
    <2> QED
      BY <2>1, <2>2
  <1>1. full \in E
    OBVIOUS
  <1> HIDE DEF E
  <1>2. buf \in [0..c - 1 -> E \cup {Vacant}]
    <2> HIDE DEF full
    <2> QED
      BY <1>0, <1>1
  <1>3. /\ post.buf = buf /\ post.head = ring.head /\ post.size = ring.size
        /\ post.capacity = c /\ post.keyOf = K /\ post \in Rings(E, c, K)
    <2>1. post = [ring EXCEPT !.buf = buf]
      BY <1>0 DEF UpdateVector
    <2> HIDE DEF post, buf
    <2> QED
      BY <1>0, <1>2, <2>1 DEF Rings
  <1> HIDE DEF full
  <1>4. ASSUME NEW pos \in 0..ring.size - 1
        PROVE  /\ IndexAt(post, pos) = IndexAt(ring, pos) /\ IndexAt(ring, pos) \in 0..c - 1
               /\ post.buf[IndexAt(post, pos)] =
                    IF ring.buf[IndexAt(ring, pos)].item = item THEN full ELSE ring.buf[IndexAt(ring, pos)]
    <2>1. IndexAt(ring, pos) = (ring.head - pos) % c /\ pos \in 0..c - 1
      BY <1>0 DEF IndexAt
    <2>2. IndexAt(ring, pos) \in 0..c - 1
      BY <2>1, <1>0, Index
    <2> HIDE DEF post
    <2>3. IndexAt(post, pos) = IndexAt(ring, pos)
      BY <1>0, <1>3 DEF IndexAt
    <2>4. post.buf[IndexAt(ring, pos)] =
            IF ring.buf[IndexAt(ring, pos)].item = item THEN full ELSE ring.buf[IndexAt(ring, pos)]
      BY <1>3, <2>2
    <2> QED
      BY <2>2, <2>3, <2>4
  <1>5. RingOK(post, E, c, K)
    <2> HIDE DEF post, buf
    <2>1. ASSUME NEW pos \in 0..ring.size - 1
          PROVE  post.buf[IndexAt(post, pos)] \in E
      <3>1. ring.buf[IndexAt(ring, pos)] \in E
        BY DEF RingOK, E
      <3> QED
        BY <3>1, <1>1, <1>4
    <2> QED
      BY <1>3, <2>1 DEF RingOK
  <1>6. ASSUME NEW n \in 1..ring.size
        PROVE  Snapshot(post)[n] = IF ItemAt(ring, n) = item THEN full ELSE Snapshot(ring)[n]
    <2>1. n - 1 \in 0..ring.size - 1 /\ n \in 1..post.size
      BY <1>0, <1>3
    <2> HIDE DEF post, buf
    <2>2. /\ Snapshot(post)[n] = post.buf[IndexAt(post, n - 1)]
          /\ Snapshot(ring)[n] = ring.buf[IndexAt(ring, n - 1)]
      BY <2>1, SnapshotAt
    <2>3. post.buf[IndexAt(post, n - 1)] =
            IF ring.buf[IndexAt(ring, n - 1)].item = item THEN full ELSE ring.buf[IndexAt(ring, n - 1)]
      <3> DEFINE pos == n - 1
      <3> HIDE DEF pos
      <3>1. pos \in 0..ring.size - 1
        BY <2>1 DEF pos
      <3>2. post.buf[IndexAt(post, pos)] =
            IF ring.buf[IndexAt(ring, pos)].item = item THEN full ELSE ring.buf[IndexAt(ring, pos)]
        BY <3>1, <1>4
      <3> QED
        BY <3>2 DEF pos
    <2> QED
      BY <2>2, <2>3 DEF ItemAt
  <1> QED
    BY <1>3, <1>5, <1>6 DEF post, E, full, VectorSet
-----------------------------------------------------------------------------
\* Without the entries of the set, when there can be one at most.
MatchRemoved(post, ring, items) ==
  \/ post = ring /\ \A n \in 1..ring.size : ItemAt(ring, n) \notin items
  \/ \E pos \in 0..ring.size - 1 : ItemAt(ring, pos + 1) \in items /\ RemovedAt(post, ring, pos)

LEMMA EntryAt ==
  ASSUME NEW ring, NEW pos \in 0..ring.size - 1, ring.size \in Nat
  PROVE  ItemAt(ring, pos + 1) = ring.buf[IndexAt(ring, pos)].item
  <1> DEFINE n == pos + 1
  <1>1. n \in 1..ring.size /\ n - 1 = pos
    OBVIOUS
  <1>2. Snapshot(ring)[n] = ring.buf[IndexAt(ring, n - 1)]
    <2> HIDE DEF n
    <2> QED
      BY <1>1, SnapshotAt
  <1> HIDE DEF n
  <1> QED
    BY <1>1, <1>2 DEF ItemAt, n

LEMMA RemoveMatchingIs ==
  ASSUME NEW E, NEW c \in Nat \ {0}, NEW K, NEW ring, RingOK(ring, E, c, K), NEW items,
         \A m, n \in 1..ring.size : ItemAt(ring, m) \in items /\ ItemAt(ring, n) \in items => m = n
  PROVE  /\ RingOK(RemoveMatching(ring, items), E, c, K)
         /\ MatchRemoved(RemoveMatching(ring, items), ring, items)
  <1> DEFINE s == ring.size
             Rec(f) == f = [n \in 0..s |-> IF n = 0 THEN ring
                 ELSE IF f[n - 1].buf[IndexAt(f[n - 1], s - n)].item \in items
                 THEN RemoveAtPosLocked(f[n - 1], s - n) ELSE f[n - 1]]
             view == CHOOSE f : Rec(f)
  <1>0. s \in Nat
    BY DEF RingOK, Rings
  <1>1. RemoveMatching(ring, items) = view[s]
    BY DEF RemoveMatching
  <1>2. CASE \A n \in 1..s : ItemAt(ring, n) \notin items
    <2> DEFINE f == [n \in 0..s |-> ring]
               g == [n \in 0..s |-> IF n = 0 THEN ring
                 ELSE IF f[n - 1].buf[IndexAt(f[n - 1], s - n)].item \in items
                 THEN RemoveAtPosLocked(f[n - 1], s - n) ELSE f[n - 1]]
    <2>1. ASSUME NEW n \in 1..s
          PROVE  ring.buf[IndexAt(ring, s - n)].item \notin items
      <3> DEFINE pos == s - n
      <3>1. pos \in 0..s - 1 /\ pos + 1 \in 1..s
        BY <1>0
      <3> HIDE DEF pos
      <3>2. ItemAt(ring, pos + 1) = ring.buf[IndexAt(ring, pos)].item
        BY <1>0, <3>1, EntryAt
      <3>3. ItemAt(ring, pos + 1) \notin items
        BY <1>2, <3>1
      <3> QED
        BY <3>2, <3>3 DEF pos
    <2>2. ASSUME NEW n \in 0..s
          PROVE  g[n] = ring
      <3>1. CASE n = 0
        BY <3>1
      <3>2. CASE n # 0
        <4>1. n \in 1..s /\ n - 1 \in 0..s
          BY <3>2, <1>0
        <4>2. f[n - 1] = ring
          BY <4>1
        <4>3. g[n] = IF f[n - 1].buf[IndexAt(f[n - 1], s - n)].item \in items
                     THEN RemoveAtPosLocked(f[n - 1], s - n) ELSE f[n - 1]
          BY <3>2
        <4> HIDE DEF g, f
        <4> QED
          BY <4>1, <4>2, <4>3, <2>1
      <3> QED
        BY <3>1, <3>2
    <2>3. f = g
      <3>1. g = [n \in 0..s |-> g[n]] /\ f = [n \in 0..s |-> f[n]] /\ \A n \in 0..s : f[n] = ring
        OBVIOUS
      <3> HIDE DEF f, g
      <3> QED
        BY <2>2, <3>1
    <2>4. Rec(f)
      BY <2>3
    <2>5. Rec(view)
      <3> HIDE DEF Rec
      <3> QED
        BY <2>4
    <2>6. ASSUME NEW n \in 1..s, view[n - 1] = f[n - 1]
          PROVE  view[n] = f[n]
      <3>1. n \in 0..s /\ n # 0 /\ n - 1 \in 0..s
        BY <1>0
      <3>2. f[n - 1] = ring /\ f[n] = ring
        BY <3>1
      <3> HIDE DEF view, f
      <3>3. view[n] = IF view[n - 1].buf[IndexAt(view[n - 1], s - n)].item \in items
                      THEN RemoveAtPosLocked(view[n - 1], s - n) ELSE view[n - 1]
        <4> HIDE DEF s
        <4> QED
          BY <2>5, <3>1, Zenon
      <3> QED
        BY <2>1, <2>6, <3>2, <3>3
    <2>7. view[0] = f[0]
      <3>1. f[0] = ring
        BY <1>0
      <3> HIDE DEF view, f
      <3> QED
        BY <2>5, <3>1, <1>0
    <2>8. view[s] = f[s]
      <3> HIDE DEF view, f, s
      <3>1. Keeps(view, f, s)
        BY <2>6, <2>7 DEF Keeps
      <3>2. Agree(view, f, s)
        BY <1>0, <3>1, Follows
      <3> QED
        BY <1>0, <3>2 DEF Agree
    <2>9. f[s] = ring
      BY <1>0
    <2> QED
      BY <1>1, <1>2, <2>8, <2>9 DEF MatchRemoved
  <1>3. CASE ~(\A n \in 1..s : ItemAt(ring, n) \notin items)
    <2>1. PICK q \in 1..s : ItemAt(ring, q) \in items
      BY <1>3
    <2> DEFINE pos == q - 1
               less == RemoveAtPosLocked(ring, pos)
               f == [n \in 0..s |-> IF s - n <= pos THEN less ELSE ring]
               g == [n \in 0..s |-> IF n = 0 THEN ring
                 ELSE IF f[n - 1].buf[IndexAt(f[n - 1], s - n)].item \in items
                 THEN RemoveAtPosLocked(f[n - 1], s - n) ELSE f[n - 1]]
    <2>2. pos \in 0..s - 1 /\ pos + 1 = q
      BY <1>0
    <2>3. RingOK(less, E, c, K) /\ RemovedAt(less, ring, pos)
      <3> HIDE DEF pos
      <3> QED
        BY <2>2, RemoveAtIs
    <2> HIDE DEF less, pos
    <2>4. ASSUME NEW k \in 0..s - 1, k # pos
          PROVE  ring.buf[IndexAt(ring, k)].item \notin items
      <3>1. ItemAt(ring, k + 1) = ring.buf[IndexAt(ring, k)].item /\ k + 1 \in 1..s /\ k + 1 # q
        BY <1>0, <2>2, <2>4, EntryAt
      <3>2. ItemAt(ring, k + 1) \notin items
        <4> DEFINE m == k + 1
        <4>1. m \in 1..s /\ m # q
          BY <3>1
        <4> HIDE DEF m
        <4>2. ItemAt(ring, m) \notin items
          BY <4>1, <2>1
        <4> QED
          BY <4>2 DEF m
      <3> QED
        BY <3>1, <3>2
    <2>5. ring.buf[IndexAt(ring, pos)].item \in items
      BY <1>0, <2>1, <2>2, EntryAt
    <2>6. ASSUME NEW k \in 0..pos - 1
          PROVE  less.buf[IndexAt(less, k)].item \notin items
      <3>1. less.size = s - 1 /\ k \in 0..less.size - 1 /\ less.size \in Nat
        BY <1>0, <2>2, <2>3 DEF RemovedAt
      <3>2. ItemAt(less, k + 1) = less.buf[IndexAt(less, k)].item
        BY <3>1, EntryAt
      <3> DEFINE m == k + 1
      <3>3. m \in 1..less.size /\ m <= pos /\ m \in 1..s /\ m # q
        <4> HIDE DEF m
        <4>1. m = k + 1 /\ k \in 0..pos - 1 /\ pos \in 0..s - 1 /\ q = pos + 1 /\ s \in Nat
          BY <2>2, <1>0 DEF m
        <4> QED
          BY <4>1, <3>1
      <3> HIDE DEF m
      <3>4. Snapshot(less)[m] = Snapshot(ring)[m]
        BY <2>3, <3>3 DEF RemovedAt
      <3>5. ItemAt(ring, m) \notin items
        BY <2>1, <3>3
      <3>6. ItemAt(less, m) = ItemAt(ring, m)
        BY <3>4 DEF ItemAt
      <3> QED
        BY <3>2, <3>5, <3>6 DEF m
    <2>7. ASSUME NEW n \in 1..s, NEW r, r = f[n - 1]
          PROVE  f[n] = IF r.buf[IndexAt(r, s - n)].item \in items
                        THEN RemoveAtPosLocked(r, s - n) ELSE r
      <3>1. /\ f[n] = (IF s - n <= pos THEN less ELSE ring)
            /\ r = (IF s - (n - 1) <= pos THEN less ELSE ring)
            /\ s - n \in 0..s - 1
        BY <1>0, <2>7
      <3> DEFINE k == s - n
      <3>2. /\ f[n] = (IF k <= pos THEN less ELSE ring) /\ r = (IF k + 1 <= pos THEN less ELSE ring)
            /\ k \in 0..s - 1
        BY <3>1, <1>0
      <3>3. f[n] = IF r.buf[IndexAt(r, k)].item \in items THEN RemoveAtPosLocked(r, k) ELSE r
        <4> HIDE DEF k, f
        <4>1. CASE k > pos
          <5>1. f[n] = ring /\ r = ring /\ k # pos
            BY <3>2, <4>1, <2>2
          <5> QED
            BY <5>1, <3>2, <2>4
        <4>2. CASE k = pos
          <5>1. f[n] = less /\ r = ring
            BY <3>2, <4>2, <2>2
          <5> QED
            BY <5>1, <2>5, <4>2 DEF less
        <4>3. CASE k < pos
          <5>1. f[n] = less /\ r = less /\ k \in 0..pos - 1
            BY <3>2, <4>3, <2>2
          <5> QED
            BY <5>1, <2>6
        <4> QED
          BY <4>1, <4>2, <4>3, <3>2, <2>2
      <3> QED
        BY <3>3
    <2>8. f[0] = ring /\ f[s] = less
      BY <1>0, <2>2
    <2>9. f = g
      <3>1. ASSUME NEW n \in 0..s
            PROVE  f[n] = g[n]
        <4>1. CASE n = 0
          BY <4>1, <2>8
        <4>2. CASE n # 0
          <5>1. n \in 1..s
            BY <4>2, <1>0
          <5>2. g[n] = IF f[n - 1].buf[IndexAt(f[n - 1], s - n)].item \in items
                       THEN RemoveAtPosLocked(f[n - 1], s - n) ELSE f[n - 1]
            BY <4>2
          <5> HIDE DEF f, g
          <5> QED
            BY <5>1, <5>2, <2>7
        <4> QED
          BY <4>1, <4>2
      <3>2. g = [n \in 0..s |-> g[n]] /\ f = [n \in 0..s |-> f[n]]
        OBVIOUS
      <3> HIDE DEF f, g
      <3> QED
        BY <3>1, <3>2
    <2>10. Rec(f)
      BY <2>9
    <2>11. Rec(view)
      <3> HIDE DEF Rec
      <3> QED
        BY <2>10
    <2>12. ASSUME NEW n \in 1..s, view[n - 1] = f[n - 1]
           PROVE  view[n] = f[n]
      <3>1. n \in 0..s /\ n # 0
        BY <1>0
      <3> HIDE DEF view, f
      <3>3. view[n] = IF view[n - 1].buf[IndexAt(view[n - 1], s - n)].item \in items
                      THEN RemoveAtPosLocked(view[n - 1], s - n) ELSE view[n - 1]
        <4> HIDE DEF s
        <4> QED
          BY <2>11, <3>1, Zenon
      <3> QED
        BY <2>7, <2>12, <3>3
    <2>13. view[0] = f[0]
      <3> HIDE DEF view, f
      <3> QED
        BY <2>8, <2>11, <1>0
    <2>14. view[s] = f[s]
      <3> HIDE DEF view, f, s
      <3>1. Keeps(view, f, s)
        BY <2>12, <2>13 DEF Keeps
      <3>2. Agree(view, f, s)
        BY <1>0, <3>1, Follows
      <3> QED
        BY <1>0, <3>2 DEF Agree
    <2> HIDE DEF f, view
    <2> QED
      BY <1>1, <2>1, <2>2, <2>3, <2>8, <2>14 DEF MatchRemoved
  <1> QED
    BY <1>2, <1>3
-----------------------------------------------------------------------------
\* What the caches are between two steps: entries of items, no two of one key.
CacheOK(ring, I, c, K) ==
  /\ RingOK(ring, [item : I, vec : BOOLEAN], c, K)
  /\ \A m, n \in 1..ring.size : K[ItemAt(ring, m)] = K[ItemAt(ring, n)] => m = n

Has(ring, x) == \E n \in 1..ring.size : ItemAt(ring, n) = x

Lacks(ring, K, key) == \A n \in 1..ring.size : K[ItemAt(ring, n)] # key

Within(post, ring) == \A y : Has(post, y) => Has(ring, y)

LEMMA SizeIs ==
  ASSUME NEW E, NEW c \in Nat \ {0}, NEW K, NEW ring, RingOK(ring, E, c, K)
  PROVE  ring.size \in 0..c /\ ring.capacity = c /\ ring.keyOf = K /\ ring.head \in 0..c - 1
  BY DEF RingOK, Rings

LEMMA RemovedKeeps ==
  ASSUME NEW I, NEW c \in Nat \ {0}, NEW K, NEW ring, NEW post, CacheOK(ring, I, c, K),
         RingOK(post, [item : I, vec : BOOLEAN], c, K),
         NEW pos \in 0..ring.size - 1, RemovedAt(post, ring, pos)
  PROVE  /\ CacheOK(post, I, c, K)
         /\ Within(post, ring)
         /\ Lacks(post, K, K[ItemAt(ring, pos + 1)])
  <1> DEFINE from(n) == IF n <= pos THEN n ELSE n + 1
  <1>0. ring.size \in 1..c /\ post.size = ring.size - 1 /\ pos + 1 \in 1..ring.size
    <2>1. ring.size \in 0..c
      BY SizeIs DEF CacheOK
    <2>2. post.size = ring.size - 1
      BY DEF RemovedAt
    <2> QED
      BY <2>1, <2>2
  <1>1. ASSUME NEW n \in 1..post.size
        PROVE  from(n) \in 1..ring.size /\ from(n) # pos + 1 /\ ItemAt(post, n) = ItemAt(ring, from(n))
    <2>1. from(n) \in 1..ring.size /\ from(n) # pos + 1
      BY <1>0
    <2>2. Snapshot(post)[n] = Snapshot(ring)[from(n)]
      BY DEF RemovedAt
    <2> QED
      BY <2>1, <2>2 DEF ItemAt
  <1>2. ASSUME NEW m \in 1..post.size, NEW n \in 1..post.size, from(m) = from(n)
        PROVE  m = n
    BY <1>0, <1>2
  <1> HIDE DEF from
  <1>3. CacheOK(post, I, c, K)
    <2>1. ASSUME NEW m \in 1..post.size, NEW n \in 1..post.size, K[ItemAt(post, m)] = K[ItemAt(post, n)]
          PROVE  m = n
      <3>1. K[ItemAt(ring, from(m))] = K[ItemAt(ring, from(n))]
        BY <1>1, <2>1
      <3>2. from(m) = from(n)
        BY <1>1, <3>1 DEF CacheOK
      <3> QED
        BY <1>2, <3>2
    <2> QED
      BY <2>1 DEF CacheOK
  <1>4. ASSUME NEW y, Has(post, y)
        PROVE  Has(ring, y)
    BY <1>1, <1>4 DEF Has
  <1>5. ASSUME NEW n \in 1..post.size
        PROVE  K[ItemAt(post, n)] # K[ItemAt(ring, pos + 1)]
    <2> DEFINE gone == pos + 1
    <2>1. gone \in 1..ring.size /\ from(n) # gone
      BY <1>0, <1>1
    <2> HIDE DEF gone
    <2>2. K[ItemAt(ring, from(n))] # K[ItemAt(ring, gone)]
      BY <1>1, <2>1 DEF CacheOK
    <2> QED
      BY <1>1, <2>2 DEF gone
  <1> QED
    BY <1>3, <1>4, <1>5 DEF Within, Lacks

LEMMA NewCache ==
  ASSUME NEW I, NEW c \in Nat \ {0}, NEW K
  PROVE  CacheOK(NewBoundedCache(c, K), I, c, K) /\ \A y : ~Has(NewBoundedCache(c, K), y)
  <1> DEFINE r == NewBoundedCache(c, K)
  <1>1. RingOK(r, [item : I, vec : BOOLEAN], c, K) /\ r.size = 0
    BY NewIs
  <1> HIDE DEF r
  <1>2. 1..r.size = {}
    BY <1>1
  <1> QED
    BY <1>1, <1>2 DEF CacheOK, Has, r

LEMMA AddCache ==
  ASSUME NEW I, NEW c \in Nat \ {0}, NEW K, NEW ring, CacheOK(ring, I, c, K),
         NEW e \in [item : I, vec : BOOLEAN]
  PROVE  /\ CacheOK(Add(ring, e), I, c, K)
         /\ \A y : Has(Add(ring, e), y) => y = e.item \/ Has(ring, y)
  <1> DEFINE E == [item : I, vec : BOOLEAN]
             post == Add(ring, e)
  <1>1. RingOK(ring, E, c, K) /\ e \in E
    BY DEF CacheOK
  <1>2. RingOK(post, E, c, K)
    <2> HIDE DEF E
    <2> QED
      BY <1>1, AddIs
  <1>3. PICK mid : RingOK(mid, E, c, K) /\ KeyRemoved(mid, ring, K[e.item]) /\ Prepended(post, mid, e)
    <2> HIDE DEF E
    <2> QED
      BY <1>1, AddIs
  <1>4. /\ CacheOK(mid, I, c, K) /\ Within(mid, ring)
        /\ Lacks(mid, K, K[e.item])
    <2>1. CASE mid = ring /\ \A n \in 1..ring.size : ring.keyOf[ItemAt(ring, n)] # K[e.item]
      <3>1. ring.keyOf = K
        BY <1>1, SizeIs
      <3> QED
        BY <2>1, <3>1 DEF Within, Lacks
    <2>2. ASSUME NEW pos \in 0..ring.size - 1, ring.keyOf[ItemAt(ring, pos + 1)] = K[e.item],
                 RemovedAt(mid, ring, pos)
          PROVE  /\ CacheOK(mid, I, c, K) /\ Within(mid, ring)
                 /\ Lacks(mid, K, K[e.item])
      <3>1. ring.keyOf = K
        BY <1>1, SizeIs
      <3>2. /\ CacheOK(mid, I, c, K) /\ Within(mid, ring)
            /\ Lacks(mid, K, K[ItemAt(ring, pos + 1)])
        <4>1. RingOK(mid, [item : I, vec : BOOLEAN], c, K)
          BY <1>3
        <4> QED
          BY <2>2, <4>1, RemovedKeeps
      <3> QED
        BY <2>2, <3>1, <3>2
    <2> QED
      BY <1>3, <2>1, <2>2 DEF KeyRemoved
  <1> HIDE DEF post
  <1>5. /\ post.size = IF mid.size < c THEN mid.size + 1 ELSE c
        /\ mid.size \in 0..c
    BY <1>3, SizeIs DEF Prepended
  <1>6. ASSUME NEW n \in 2..post.size
        PROVE  n - 1 \in 1..mid.size /\ ItemAt(post, n) = ItemAt(mid, n - 1)
    <2>1. n - 1 \in 1..mid.size
      BY <1>5
    <2>2. Snapshot(post)[n] = Snapshot(mid)[n - 1]
      BY <1>3 DEF Prepended
    <2> QED
      BY <2>1, <2>2 DEF ItemAt
  <1>7. ItemAt(post, 1) = e.item
    BY <1>3 DEF Prepended, ItemAt
  <1>8. ASSUME NEW m \in 1..post.size, NEW n \in 1..post.size, K[ItemAt(post, m)] = K[ItemAt(post, n)]
        PROVE  m = n
    <2>1. CASE m = 1 /\ n = 1
      BY <2>1
    <2>2. CASE m = 1 /\ n # 1
      <3>1. n \in 2..post.size
        BY <2>2, <1>5
      <3> DEFINE k == n - 1
      <3>2. k \in 1..mid.size /\ ItemAt(post, n) = ItemAt(mid, k)
        BY <3>1, <1>6
      <3> HIDE DEF k
      <3> QED
        BY <3>2, <1>4, <1>7, <1>8, <2>2 DEF Lacks
    <2>3. CASE m # 1 /\ n = 1
      <3>1. m \in 2..post.size
        BY <2>3, <1>5
      <3> DEFINE k == m - 1
      <3>2. k \in 1..mid.size /\ ItemAt(post, m) = ItemAt(mid, k)
        BY <3>1, <1>6
      <3> HIDE DEF k
      <3> QED
        BY <3>2, <1>4, <1>7, <1>8, <2>3 DEF Lacks
    <2>4. CASE m # 1 /\ n # 1
      <3>1. m \in 2..post.size /\ n \in 2..post.size
        BY <2>4, <1>5
      <3> DEFINE k == m - 1
                 l == n - 1
      <3>2. /\ k \in 1..mid.size /\ ItemAt(post, m) = ItemAt(mid, k)
            /\ l \in 1..mid.size /\ ItemAt(post, n) = ItemAt(mid, l)
        BY <3>1, <1>6
      <3>3. k = l
        <4> HIDE DEF k, l
        <4>1. K[ItemAt(mid, k)] = K[ItemAt(mid, l)]
          BY <3>2, <1>8
        <4> QED
          BY <3>2, <1>4, <4>1 DEF CacheOK
      <3> QED
        BY <3>1, <3>3, <1>5
    <2> QED
      BY <2>1, <2>2, <2>3, <2>4
  <1>9. ASSUME NEW y, Has(post, y)
        PROVE  y = e.item \/ Has(ring, y)
    <2>1. PICK n \in 1..post.size : ItemAt(post, n) = y
      BY <1>9 DEF Has
    <2>2. CASE n = 1
      BY <2>1, <2>2, <1>7
    <2>3. CASE n # 1
      <3>1. n \in 2..post.size
        BY <2>3, <1>5
      <3> DEFINE k == n - 1
      <3>2. k \in 1..mid.size /\ ItemAt(post, n) = ItemAt(mid, k)
        BY <3>1, <1>6
      <3> HIDE DEF k
      <3>3. Has(mid, y)
        BY <2>1, <3>2 DEF Has
      <3> QED
        BY <3>3, <1>4 DEF Within
    <2> QED
      BY <2>2, <2>3
  <1>10. CacheOK(post, I, c, K)
    BY <1>2, <1>8 DEF CacheOK
  <1> QED
    BY <1>9, <1>10 DEF post

LEMMA RemoveCache ==
  ASSUME NEW I, NEW c \in Nat \ {0}, NEW K, NEW ring, CacheOK(ring, I, c, K), NEW x
  PROVE  /\ CacheOK(RemoveMatching(ring, {x}), I, c, K)
         /\ ~Has(RemoveMatching(ring, {x}), x)
         /\ Within(RemoveMatching(ring, {x}), ring)
  <1> DEFINE E == [item : I, vec : BOOLEAN]
             post == RemoveMatching(ring, {x})
  <1>1. RingOK(ring, E, c, K)
    BY DEF CacheOK
  <1>2. \A m, n \in 1..ring.size : ItemAt(ring, m) \in {x} /\ ItemAt(ring, n) \in {x} => m = n
    BY DEF CacheOK
  <1>3. RingOK(post, E, c, K) /\ MatchRemoved(post, ring, {x})
    <2> HIDE DEF E
    <2> DEFINE items == {x}
    <2>1. \A m, n \in 1..ring.size : ItemAt(ring, m) \in items /\ ItemAt(ring, n) \in items => m = n
      BY <1>2
    <2>2. post = RemoveMatching(ring, items)
      OBVIOUS
    <2> HIDE DEF items, post
    <2>3. RingOK(post, E, c, K) /\ MatchRemoved(post, ring, items)
      BY <1>1, <2>1, <2>2, RemoveMatchingIs
    <2> QED
      BY <2>3 DEF items
  <1> HIDE DEF post
  <1>4. CASE post = ring /\ \A n \in 1..ring.size : ItemAt(ring, n) \notin {x}
    BY <1>4 DEF Has, post, Within
  <1>5. ASSUME NEW pos \in 0..ring.size - 1, ItemAt(ring, pos + 1) \in {x}, RemovedAt(post, ring, pos)
        PROVE  CacheOK(post, I, c, K) /\ ~Has(post, x) /\ Within(post, ring)
    <2>0. ItemAt(ring, pos + 1) = x /\ RingOK(post, [item : I, vec : BOOLEAN], c, K)
      BY <1>3, <1>5
    <2>1. /\ CacheOK(post, I, c, K) /\ Within(post, ring)
          /\ Lacks(post, K, K[ItemAt(ring, pos + 1)])
      BY <1>5, <2>0, RemovedKeeps
    <2> QED
      BY <2>0, <2>1 DEF Has, Lacks
  <1> QED
    BY <1>3, <1>4, <1>5 DEF MatchRemoved, post

LEMMA UpdateCache ==
  ASSUME NEW I, NEW c \in Nat \ {0}, NEW K, NEW ring, CacheOK(ring, I, c, K), NEW x \in I
  PROVE  /\ CacheOK(UpdateVector(ring, x), I, c, K)
         /\ Within(UpdateVector(ring, x), ring)
  <1> DEFINE post == UpdateVector(ring, x)
  <1>1. RingOK(post, [item : I, vec : BOOLEAN], c, K) /\ VectorSet(post, ring, x)
    BY UpdateVectorIs DEF CacheOK
  <1> HIDE DEF post
  <1>2. post.size = ring.size
    BY <1>1 DEF VectorSet
  <1>3. ASSUME NEW n \in 1..ring.size
        PROVE  ItemAt(post, n) = ItemAt(ring, n)
    <2>1. Snapshot(post)[n] = IF ItemAt(ring, n) = x THEN [item |-> x, vec |-> TRUE]
                              ELSE Snapshot(ring)[n]
      BY <1>1 DEF VectorSet
    <2> QED
      BY <2>1 DEF ItemAt
  <1> QED
    BY <1>1, <1>2, <1>3 DEF CacheOK, Has, post, Within
-----------------------------------------------------------------------------
\* One more entry, older than the others.
Appended(post, ring, e) ==
  /\ post.size = ring.size + 1
  /\ \A n \in 1..ring.size : Snapshot(post)[n] = Snapshot(ring)[n]
  /\ Snapshot(post)[post.size] = e

LEMMA AppendIs ==
  ASSUME NEW E, NEW c \in Nat \ {0}, NEW K, NEW ring, RingOK(ring, E, c, K), ring.size < c, NEW e \in E
  PROVE  /\ RingOK(AppendOldestLocked(ring, e), E, c, K)
         /\ Appended(AppendOldestLocked(ring, e), ring, e)
  <1> DEFINE s == ring.size
             h == IF s = 0 THEN 0 ELSE ring.head
             place == (h - s) % c
             buf == [ix \in 0..c - 1 |-> IF ix = place THEN e ELSE ring.buf[ix]]
             post == AppendOldestLocked(ring, e)
  <1>0. /\ ring \in Rings(E, c, K) /\ ring.buf \in [0..c - 1 -> E \cup {Vacant}] /\ ring.head \in 0..c - 1
        /\ s \in 0..c - 1 /\ ring.capacity = c /\ ring.keyOf = K
    <2>1. ring \in Rings(E, c, K)
      BY DEF RingOK
    <2>2. /\ ring.buf \in [0..c - 1 -> E \cup {Vacant}] /\ ring.head \in 0..c - 1
          /\ ring.size \in 0..c /\ ring.capacity = c /\ ring.keyOf = K
      BY <2>1 DEF Rings
    <2> QED
      BY <2>1, <2>2
  <1>1. h \in 0..c - 1
    BY <1>0
  <1>2. place \in 0..c - 1 /\ (s = 0 => place = 0)
    <2> HIDE DEF h, s
    <2>1. (h - s) % c \in 0..c - 1 /\ (h - s) % c = IF s <= h THEN h - s ELSE h - s + c
      BY <1>0, <1>1, Index
    <2>2. s = 0 => h = 0
      BY DEF h
    <2> QED
      BY <2>1, <2>2
  <1>3. buf \in [0..c - 1 -> E \cup {Vacant}]
    <2> HIDE DEF place
    <2> QED
      BY <1>0
  <1>4. post = [ring EXCEPT !.buf = buf, !.head = h, !.size = s + 1]
    <2>1. CASE s = 0
      <3>1. post = [ring EXCEPT !.head = 0, !.buf[0] = e, !.size = 1]
        BY <2>1 DEF AppendOldestLocked
      <3>2. [ring.buf EXCEPT ![0] = e] = buf
        <4> HIDE DEF place, s
        <4> QED
          BY <1>0, <1>2, <2>1
      <3>3. post = [ring EXCEPT !.head = 0, !.buf = [ring.buf EXCEPT ![0] = e], !.size = 1]
        <4> HIDE DEF post
        <4> QED
          BY <3>1, <1>0 DEF Rings
      <3>4. h = 0 /\ s + 1 = 1
        BY <2>1
      <3> HIDE DEF post, buf, h, s
      <3> QED
        BY <3>2, <3>3, <3>4, <1>0 DEF Rings
    <2>2. CASE s # 0
      <3>1. post = [ring EXCEPT !.buf[IndexAt(ring, ring.size)] = e, !.size = @ + 1]
        BY <2>2 DEF AppendOldestLocked
      <3>2. IndexAt(ring, ring.size) = place /\ h = ring.head
        BY <2>2, <1>0 DEF IndexAt
      <3>3. [ring.buf EXCEPT ![place] = e] = buf
        <4> HIDE DEF place
        <4> QED
          BY <1>0, <1>2
      <3> HIDE DEF post, buf, h, place
      <3> QED
        BY <3>1, <3>2, <3>3, <1>0 DEF Rings
    <2> QED
      BY <2>1, <2>2
  <1>5. /\ post.buf = buf /\ post.head = h /\ post.size = s + 1
        /\ post.capacity = c /\ post.keyOf = K /\ post \in Rings(E, c, K)
    <2> DEFINE z == s + 1
    <2>1. z \in 0..c
      BY <1>0
    <2>2. post = [ring EXCEPT !.buf = buf, !.head = h, !.size = z]
      BY <1>4
    <2> HIDE DEF post, buf, h, z
    <2>3. /\ post.buf = buf /\ post.head = h /\ post.size = z /\ post.capacity = c /\ post.keyOf = K
          /\ post \in Rings(E, c, K)
      BY <1>0, <1>1, <1>3, <2>1, <2>2 DEF Rings
    <2> QED
      BY <2>3 DEF z
  <1>6. ASSUME NEW pos \in 0..s
        PROVE  /\ IndexAt(post, pos) = (h - pos) % c
               /\ post.buf[IndexAt(post, pos)] =
                    IF pos = s THEN e ELSE ring.buf[IndexAt(ring, pos)]
    <2>1. IndexAt(post, pos) = (h - pos) % c
      <3> HIDE DEF post, h
      <3> QED
        BY <1>5 DEF IndexAt
    <2>2. pos \in 0..c - 1 /\ s \in 0..c - 1
      BY <1>0
    <2>3. /\ (h - pos) % c \in 0..c - 1 /\ (h - ((h - pos) % c)) % c = pos
          /\ (h - ((h - s) % c)) % c = s
      <3> HIDE DEF h, s
      <3> QED
        BY <1>1, <2>2, Index
    <2>4. CASE pos = s
      <3> HIDE DEF post, h
      <3> QED
        BY <2>1, <2>3, <2>4, <1>5
    <2>5. CASE pos # s
      <3>1. (h - pos) % c # place
        <4> DEFINE q == (h - pos) % c
        <4>1. (h - q) % c = pos /\ (h - place) % c = s
          BY <2>3
        <4> HIDE DEF q, place, h, s
        <4>2. q # place
          BY <4>1, <2>5
        <4> QED
          BY <4>2 DEF q
      <3>2. h = ring.head
        BY <2>5, <1>0
      <3>3. IndexAt(ring, pos) = (h - pos) % c
        BY <3>2, <1>0 DEF IndexAt
      <3>4. buf[(h - pos) % c] = ring.buf[(h - pos) % c]
        <4> HIDE DEF place, h
        <4> QED
          BY <2>3, <3>1
      <3> HIDE DEF post, h, buf
      <3> QED
        BY <2>1, <2>5, <3>3, <3>4, <1>5
    <2> QED
      BY <2>4, <2>5, <2>1
  <1>7. RingOK(post, E, c, K)
    <2>1. ASSUME NEW pos \in 0..post.size - 1
          PROVE  post.buf[IndexAt(post, pos)] \in E
      <3>1. pos \in 0..s
        BY <1>0, <1>5
      <3>2. post.buf[IndexAt(post, pos)] = IF pos = s THEN e ELSE ring.buf[IndexAt(ring, pos)]
        BY <3>1, <1>6
      <3>3. pos # s => ring.buf[IndexAt(ring, pos)] \in E
        <4>1. pos # s => pos \in 0..ring.size - 1
          BY <3>1, <1>0
        <4> QED
          BY <4>1 DEF RingOK
      <3> HIDE DEF post
      <3> QED
        BY <3>2, <3>3
    <2> HIDE DEF post
    <2> QED
      BY <1>5, <2>1 DEF RingOK
  <1>8. ASSUME NEW n \in 1..s + 1
        PROVE  Snapshot(post)[n] = IF n = s + 1 THEN e ELSE Snapshot(ring)[n]
    <2> DEFINE pos == n - 1
    <2>1. pos \in 0..s /\ n \in 1..post.size /\ (pos = s <=> n = s + 1)
      BY <1>0, <1>5
    <2>2. Snapshot(post)[n] = post.buf[IndexAt(post, pos)]
      BY <2>1, SnapshotAt
    <2>3. n # s + 1 => Snapshot(ring)[n] = ring.buf[IndexAt(ring, pos)]
      <3>1. n # s + 1 => n \in 1..ring.size
        BY <1>0
      <3> QED
        BY <3>1, SnapshotAt
    <2> HIDE DEF post, pos, s
    <2> QED
      BY <2>1, <2>2, <2>3, <1>6
  <1> HIDE DEF post
  <1>9. Appended(post, ring, e)
    <2>1. \A n \in 1..s : n \in 1..s + 1 /\ n # s + 1
      BY <1>0
    <2>2. s + 1 \in 1..s + 1
      BY <1>0
    <2> QED
      BY <1>5, <1>8, <2>1, <2>2 DEF Appended
  <1> QED
    BY <1>7, <1>9 DEF post

LEMMA AppendCache ==
  ASSUME NEW I, NEW c \in Nat \ {0}, NEW K, NEW ring, CacheOK(ring, I, c, K),
         NEW e \in [item : I, vec : BOOLEAN]
  PROVE  /\ CacheOK(AppendNew(ring, e), I, c, K)
         /\ \A y : Has(AppendNew(ring, e), y) => y = e.item \/ Has(ring, y)
  <1> DEFINE E == [item : I, vec : BOOLEAN]
             post == AppendOldestLocked(ring, e)
  <1>1. RingOK(ring, E, c, K) /\ e \in E
    BY DEF CacheOK
  <1>2. ring.size \in 0..c /\ ring.capacity = c /\ ring.keyOf = K
    <2> HIDE DEF E
    <2> QED
      BY <1>1, SizeIs
  <1>3. CASE AppendNew(ring, e) = ring
    BY <1>3
  <1>4. CASE /\ AppendNew(ring, e) = post
             /\ ring.size # c
             /\ \A n \in 1..ring.size : K[ItemAt(ring, n)] # K[e.item]
    <2>1. RingOK(post, E, c, K) /\ Appended(post, ring, e)
      <3> HIDE DEF E
      <3> QED
        BY <1>1, <1>2, <1>4, AppendIs
    <2> HIDE DEF post
    <2>2. ASSUME NEW n \in 1..post.size
          PROVE  /\ n = post.size => ItemAt(post, n) = e.item
                 /\ n # post.size => n \in 1..ring.size /\ ItemAt(post, n) = ItemAt(ring, n)
      <3>1. post.size = ring.size + 1
        BY <2>1 DEF Appended
      <3>2. n # post.size => n \in 1..ring.size
        BY <3>1, <1>2
      <3> QED
        BY <2>1, <3>2 DEF Appended, ItemAt
    <2>3. ASSUME NEW m \in 1..post.size, NEW n \in 1..post.size, K[ItemAt(post, m)] = K[ItemAt(post, n)]
          PROVE  m = n
      BY <2>2, <2>3, <1>4 DEF CacheOK
    <2>4. ASSUME NEW y, Has(post, y)
          PROVE  y = e.item \/ Has(ring, y)
      BY <2>2, <2>4 DEF Has
    <2>5. CacheOK(post, I, c, K)
      BY <2>1, <2>3 DEF CacheOK
    <2> QED
      BY <1>4, <2>4, <2>5
  <1> QED
    <2>1. \A n \in 1..ring.size : ring.keyOf[Snapshot(ring)[n].item] = K[ItemAt(ring, n)]
      BY <1>2 DEF ItemAt
    <2> QED
      BY <1>2, <1>3, <1>4, <2>1 DEF AppendNew
-----------------------------------------------------------------------------
HasOnlyOf(ring, entries) ==
  \A y : Has(ring, y) => \E n \in 1..Len(entries) : entries[n].item = y

LEMMA ReplaceCache ==
  ASSUME NEW I, NEW c \in Nat \ {0}, NEW K, NEW ring, CacheOK(ring, I, c, K),
         NEW entries \in Seq([item : I, vec : BOOLEAN])
  PROVE  /\ CacheOK(Replace(ring, entries), I, c, K)
         /\ HasOnlyOf(Replace(ring, entries), entries)
  <1> DEFINE E == [item : I, vec : BOOLEAN]
             N == Len(entries)
             Listed(y) == \E n \in 1..N : entries[n].item = y
             A == {r \in Rings(E, c, K) : CacheOK(r, I, c, K) /\ \A y : Has(r, y) => Listed(y)}
             b == NewBoundedCache(c, K)
             turn == [n \in 1..N |-> [r \in A |-> AppendNew(r, entries[n])]]
             Rec(f) == f = [n \in 0..N |-> IF n = 0 THEN b ELSE AppendNew(f[n - 1], entries[n])]
             filled == CHOOSE f : Rec(f)
  <1>0. N \in Nat /\ \A n \in 1..N : entries[n] \in E
    <2>1. entries \in Seq(E)
      OBVIOUS
    <2> HIDE DEF E
    <2> QED
      BY <2>1
  <1>1. Replace(ring, entries) = filled[N]
    <2>1. ring.capacity = c /\ ring.keyOf = K
      <3>1. RingOK(ring, E, c, K)
        BY DEF CacheOK
      <3> HIDE DEF E
      <3> QED
        BY <3>1, SizeIs
    <2> QED
      BY <2>1 DEF Replace
  <1>2. b \in A
    <2>1. CacheOK(b, I, c, K) /\ \A y : ~Has(b, y)
      BY NewCache
    <2>2. b \in Rings(E, c, K)
      BY <2>1 DEF CacheOK, RingOK
    <2> HIDE DEF b, E, N
    <2> QED
      BY <2>1, <2>2
  <1>3. ASSUME NEW n \in 1..N, NEW r \in A
        PROVE  AppendNew(r, entries[n]) \in A
    <2> DEFINE e == entries[n]
               post == AppendNew(r, e)
    <2>1. e \in E /\ CacheOK(r, I, c, K)
      BY <1>0
    <2> HIDE DEF e
    <2>2. CacheOK(post, I, c, K) /\ \A y : Has(post, y) => y = e.item \/ Has(r, y)
      BY <2>1, AppendCache
    <2> HIDE DEF post
    <2>3. post \in Rings(E, c, K)
      BY <2>2 DEF CacheOK, RingOK
    <2>4. \A y : Has(r, y) => Listed(y)
      OBVIOUS
    <2>5. Listed(e.item)
      BY DEF e
    <2> HIDE DEF Listed, E
    <2>6. post \in A
      BY <2>2, <2>3, <2>4, <2>5
    <2> QED
      BY <2>6 DEF post, e
  <1> HIDE DEF A, b
  <1>4. turn \in [1..N -> [A -> A]]
    BY <1>3
  <1>5. PICK f : IsLoop(f, A, N, b, turn)
    <2> HIDE DEF turn, N
    <2> QED
      BY <1>0, <1>2, <1>4, Iterates
  <1>6. f \in [0..N -> A] /\ f[0] = b /\ \A n \in 1..N : f[n] = turn[n][f[n - 1]]
    <2> HIDE DEF turn, N
    <2> QED
      BY <1>5 DEF IsLoop
  <1>7. ASSUME NEW n \in 1..N
        PROVE  f[n] = AppendNew(f[n - 1], entries[n])
    <2>1. n - 1 \in 0..N
      BY <1>0
    <2>2. f[n - 1] \in A
      BY <1>6, <2>1
    <2> QED
      BY <1>6, <2>2
  <1>8. Rec(f)
    <2> DEFINE g == [n \in 0..N |-> IF n = 0 THEN b ELSE AppendNew(f[n - 1], entries[n])]
    <2>1. \A n \in 0..N : f[n] = g[n]
      <3> TAKE n \in 0..N
      <3>1. CASE n = 0
        BY <3>1, <1>6
      <3>2. CASE n # 0
        <4>1. n \in 1..N
          BY <3>2
        <4>2. g[n] = AppendNew(f[n - 1], entries[n])
          BY <3>2
        <4> HIDE DEF g
        <4> QED
          BY <4>1, <4>2, <1>7
      <3> QED
        BY <3>1, <3>2
    <2>2. f = [n \in 0..N |-> f[n]] /\ g = [n \in 0..N |-> g[n]]
      BY <1>6
    <2>3. f = g
      <3> HIDE DEF g
      <3> QED
        BY <2>1, <2>2
    <2> QED
      BY <2>3
  <1>9. Rec(filled)
    <2> HIDE DEF Rec
    <2> QED
      BY <1>8
  <1>10. ASSUME NEW n \in 1..N, filled[n - 1] = f[n - 1]
         PROVE  filled[n] = f[n]
    <2>1. n \in 0..N /\ n # 0
      BY <1>0
    <2> HIDE DEF filled, N
    <2>2. filled[n] = AppendNew(filled[n - 1], entries[n])
      BY <1>9, <2>1, Zenon
    <2> QED
      BY <2>2, <1>7, <1>10
  <1>11. filled[0] = f[0]
    <2> HIDE DEF filled
    <2> QED
      BY <1>9, <1>6, <1>0
  <1>12. filled[N] \in A
    <2> HIDE DEF filled, N
    <2>1. Keeps(filled, f, N)
      BY <1>10, <1>11 DEF Keeps
    <2>2. Agree(filled, f, N)
      BY <1>0, <2>1, Follows
    <2> QED
      BY <1>0, <1>6, <2>2 DEF Agree
  <1> HIDE DEF filled
  <1> QED
    BY <1>1, <1>12 DEF A, HasOnlyOf
-----------------------------------------------------------------------------
\* The places of a strict order of a finite set: one for every number.
Ordered(S, R) ==
  /\ \A m \in S : <<m, m>> \notin R
  /\ \A m, n \in S : m # n => <<m, n>> \in R \/ <<n, m>> \in R
  /\ \A l, m, n \in S : <<l, m>> \in R /\ <<m, n>> \in R => <<l, n>> \in R

Ahead(S, R, n) == {m \in S : <<m, n>> \in R}

LEMMA RankIs ==
  ASSUME NEW S, IsFiniteSet(S), NEW R, Ordered(S, R)
  PROVE  /\ \A k \in 1..Cardinality(S) : \E n \in S : Cardinality(Ahead(S, R, n)) + 1 = k
         /\ \A m, n \in S : Cardinality(Ahead(S, R, m)) = Cardinality(Ahead(S, R, n)) => m = n
         /\ \A n \in S : Cardinality(Ahead(S, R, n)) + 1 \in 1..Cardinality(S)
  <1> DEFINE N == Cardinality(S)
             of(n) == Cardinality(Ahead(S, R, n))
             rank == [n \in S |-> of(n) + 1]
  <1>0. N \in Nat
    BY FS_CardinalityType
  <1>1. ASSUME NEW n \in S
        PROVE  IsFiniteSet(Ahead(S, R, n)) /\ of(n) \in 0..N - 1
    <2> DEFINE T == Ahead(S, R, n)
    <2>1. T \in SUBSET S /\ n \notin T
      BY DEF Ahead, Ordered
    <2>2. T # S
      BY <2>1
    <2> HIDE DEF T
    <2>3. IsFiniteSet(T) /\ Cardinality(T) <= N /\ (N = Cardinality(T) => S = T)
      BY <2>1, FS_Subset
    <2>4. Cardinality(T) \in Nat
      BY <2>3, FS_CardinalityType
    <2>5. Cardinality(T) \in 0..N - 1
      BY <2>2, <2>3, <2>4, <1>0
    <2> QED
      BY <2>3, <2>5 DEF T
  <1>2. ASSUME NEW m \in S, NEW n \in S, <<m, n>> \in R
        PROVE  of(m) < of(n)
    <2> DEFINE U == Ahead(S, R, m)
               V == Ahead(S, R, n)
    <2>1. U \in SUBSET V /\ U # V
      <3>1. \A l \in U : l \in V
        BY <1>2 DEF Ahead, Ordered
      <3>2. m \in V /\ m \notin U
        BY <1>2 DEF Ahead, Ordered
      <3> HIDE DEF U, V
      <3> QED
        BY <3>1, <3>2
    <2>2. IsFiniteSet(V) /\ Cardinality(U) \in Nat /\ Cardinality(V) \in Nat
      BY <1>1
    <2> HIDE DEF U, V
    <2>3. Cardinality(U) <= Cardinality(V) /\ (Cardinality(V) = Cardinality(U) => V = U)
      BY <2>1, <2>2, FS_Subset
    <2>4. Cardinality(U) < Cardinality(V)
      BY <2>1, <2>2, <2>3
    <2> QED
      BY <2>4 DEF U, V
  <1> HIDE DEF N, of
  <1>3. ASSUME NEW m \in S, NEW n \in S, of(m) = of(n)
        PROVE  m = n
    <2>1. of(m) \in Int /\ of(n) \in Int
      BY <1>1
    <2>2. <<m, n>> \notin R /\ <<n, m>> \notin R
      <3>1. ~(of(m) < of(n)) /\ ~(of(n) < of(m))
        BY <1>3, <2>1
      <3> QED
        BY <3>1, <1>2
    <2> QED
      BY <2>2 DEF Ordered
  <1>4. rank \in [S -> 1..N]
    <2>1. \A n \in S : of(n) + 1 \in 1..N
      BY <1>0, <1>1
    <2> QED
      BY <2>1
  <1>5. rank \in Injection(S, 1..N)
    <2>1. \A m, n \in S : rank[m] = rank[n] => m = n
      <3> TAKE m, n \in S
      <3>1. rank[m] = of(m) + 1 /\ rank[n] = of(n) + 1 /\ of(m) \in Int /\ of(n) \in Int
        BY <1>1
      <3> HIDE DEF rank
      <3> QED
        BY <3>1, <1>3
    <2> HIDE DEF rank
    <2> QED
      BY <1>4, <2>1 DEF Injection, IsInjective
  <1>6. IsFiniteSet(1..N) /\ Cardinality(1..N) = N
    BY <1>0, FS_Interval
  <1>7. rank \in Surjection(S, 1..N)
    <2> HIDE DEF rank
    <2>1. Cardinality(S) = N
      BY DEF N
    <2> QED
      BY <1>5, <1>6, <2>1, FS_Injection
  <1>8. \A k \in 1..N : \E n \in S : of(n) + 1 = k
    <2>1. \A k \in 1..N : \E n \in S : rank[n] = k
      <3> HIDE DEF rank
      <3> QED
        BY <1>7 DEF Surjection
    <2> QED
      BY <2>1
  <1>9. \A n \in S : of(n) + 1 \in 1..N
    BY <1>0, <1>1
  <1> QED
    BY <1>3, <1>8, <1>9 DEF N, of
-----------------------------------------------------------------------------
\* The best of a sequence come from different places of it, and nothing comes
\* of an empty one.
LEMMA TopIs ==
  ASSUME NEW I, NEW entries \in Seq([item : I, vec : BOOLEAN]), NEW score \in [I -> Nat],
         NEW limit \in Nat, NEW least \in Nat
  PROVE  /\ TopKByVector(entries, score, limit, least) \in Seq([item : I, vec : BOOLEAN])
         /\ Picked(TopKByVector(entries, score, limit, least), entries, [item : I, vec : BOOLEAN])
  <1> DEFINE E == [item : I, vec : BOOLEAN]
             D == DOMAIN entries
             of(n) == score[entries[n].item]
             close == {n \in D : of(n) >= least}
             before(m, n) == of(m) > of(n) \/ (of(m) = of(n) /\ m < n)
             rank(n) == Cardinality({m \in close : before(m, n)}) + 1
             nth(k) == CHOOSE n \in close : rank(n) = k
             top == Min({limit, Cardinality(close)})
             R == {p \in close \X close : before(p[1], p[2])}
             out == TopKByVector(entries, score, limit, least)
  <1>0. /\ D = 1..Len(entries) /\ Len(entries) \in Nat
        /\ \A n \in D : entries[n] \in E /\ of(n) \in Nat
    <2>1. \A e \in E : e.item \in I
      OBVIOUS
    <2>2. D = 1..Len(entries) /\ Len(entries) \in Nat /\ \A n \in D : entries[n] \in E
      <3>1. entries \in Seq(E)
        OBVIOUS
      <3> HIDE DEF E
      <3> QED
        BY <3>1
    <2> HIDE DEF E
    <2> QED
      BY <2>1, <2>2
  <1>1. close \in SUBSET D /\ IsFiniteSet(close)
    <2>1. IsFiniteSet(1..Len(entries))
      BY <1>0, FS_Interval
    <2>2. close \in SUBSET D
      OBVIOUS
    <2> HIDE DEF close, D
    <2> QED
      BY <1>0, <2>1, <2>2, FS_Subset
  <1>2. Cardinality(close) \in Nat
    <2> HIDE DEF close
    <2> QED
      BY <1>1, FS_CardinalityType
  <1>3. Ordered(close, R)
    <2>1. \A m \in close : of(m) \in Nat /\ m \in Nat
      BY <1>0
    <2>2. \A m, n \in close : <<m, n>> \in R <=> before(m, n)
      OBVIOUS
    <2> HIDE DEF close, R, of
    <2>3. \A m \in close : <<m, m>> \notin R
      BY <2>1, <2>2
    <2>4. \A m, n \in close : m # n => <<m, n>> \in R \/ <<n, m>> \in R
      BY <2>1, <2>2
    <2>5. \A l, m, n \in close : <<l, m>> \in R /\ <<m, n>> \in R => <<l, n>> \in R
      BY <2>1, <2>2
    <2> QED
      BY <2>3, <2>4, <2>5 DEF Ordered
  <1>4. ASSUME NEW n \in close
        PROVE  Ahead(close, R, n) = {m \in close : before(m, n)}
    BY DEF Ahead
  <1>5. ASSUME NEW k \in 1..Cardinality(close)
        PROVE  nth(k) \in close /\ rank(nth(k)) = k
    <2>1. \E n \in close : Cardinality(Ahead(close, R, n)) + 1 = k
      <3> HIDE DEF close, R
      <3> QED
        BY <1>1, <1>3, RankIs
    <2>2. \E n \in close : rank(n) = k
      BY <2>1, <1>4
    <2> HIDE DEF close, rank
    <2> QED
      BY <2>2
  <1>6. top \in Nat /\ top <= Cardinality(close)
    <2> DEFINE S == {limit, Cardinality(close)}
    <2>1. S \in SUBSET Nat /\ S # {} /\ Cardinality(close) \in S
      BY <1>2
    <2> HIDE DEF S
    <2>2. Min(S) \in S /\ \A y \in S : Min(S) <= y
      BY <2>1, MinIs
    <2> QED
      BY <2>1, <2>2 DEF S
  <1>7. out = [k \in 1..top |-> entries[nth(k)]]
    BY DEF TopKByVector
  <1> HIDE DEF nth, top, rank, close, out
  <1>8. Len(out) = top
    BY <1>6, <1>7
  <1>9. ASSUME NEW k \in 1..Len(out)
        PROVE  /\ nth(k) \in 1..Len(entries) /\ rank(nth(k)) = k
               /\ out[k] = entries[nth(k)] /\ entries[nth(k)] \in E
    <2>1. k \in 1..Cardinality(close) /\ k \in 1..top
      BY <1>6, <1>8, <1>2
    <2> QED
      BY <2>1, <1>0, <1>1, <1>5, <1>7
  <1>10. \A k \in 1..Len(out) : \E m \in 1..Len(entries) : out[k] = entries[m] /\ entries[m] \in E
    BY <1>9
  <1>11. \A k, l \in 1..Len(out) : k # l =>
            \E m, n \in 1..Len(entries) : m # n /\ out[k] = entries[m] /\ out[l] = entries[n]
    <2> TAKE k, l \in 1..Len(out)
    <2> HAVE k # l
    <2>1. rank(nth(k)) = k /\ rank(nth(l)) = l
      BY <1>9
    <2>2. nth(k) # nth(l)
      BY <2>1
    <2> QED
      BY <1>9, <2>2
  <1> HIDE DEF E
  <1>12. Picked(out, entries, E)
    BY <1>10, <1>11 DEF Picked
  <1>13. out \in Seq(E)
    <2>1. out \in [1..top -> E]
      <3> DEFINE val(k) == entries[nth(k)]
      <3>1. \A k \in 1..top : val(k) \in E
        BY <1>8, <1>9
      <3>2. out = [k \in 1..top |-> val(k)]
        BY <1>7
      <3> HIDE DEF val
      <3> QED
        BY <3>1, <3>2
    <2> QED
      BY <1>6, <2>1
  <1> QED
    BY <1>12, <1>13 DEF out, E

------------------------------------------------------------------------------
(* Cases.                                                                   *)

LEMMA PromptIsOfStore ==
  ASSUME CaseConstants, NEW i \in Instances, CacheOK(store[i], Runs, CaseCacheSize, SymptomOf),
         NEW q \in Queries, NEW embedded \in BOOLEAN, NEW r \in FewShot(i, q, embedded)
  PROVE  Has(store[i], r)
  <1> DEFINE E == [item : Runs, vec : BOOLEAN]
             ring == store[i]
             whole == Snapshot(ring)
             some == {e \in CaseEntries : q.like[e.item] > 0 \/ q.tags[e.item] > 0}
             candidates == CandidateCases(i, q)
             vectors == {e \in CaseEntries : e.vec}
             embeddings == Only(candidates, vectors)
             near == TopKByVector(embeddings, q.like, q.limit, 1)
             tagged == TopKByVector(candidates, q.tags, q.limit, 1)
  <1>0. /\ CaseCacheSize \in Nat \ {0} /\ q.like \in [Runs -> Nat] /\ q.tags \in [Runs -> Nat]
        /\ q.limit \in Nat /\ 1 \in Nat
    BY DEF CaseConstants
  <1>1. whole \in Seq(E) /\ Len(whole) = ring.size
    <2>1. RingOK(ring, E, CaseCacheSize, SymptomOf)
      BY DEF CacheOK
    <2> HIDE DEF E, ring
    <2> QED
      BY <1>0, <2>1, SnapshotIs
  <1>2. candidates = Only(whole, some)
    BY DEF CandidateCases
  <1> HIDE DEF some, vectors, candidates
  <1>3. candidates \in Seq(E) /\ Picked(candidates, whole, some)
    <2> HIDE DEF E, whole
    <2> QED
      BY <1>1, <1>2, OnlyPicks
  <1>4. embeddings \in Seq(E) /\ Picked(embeddings, candidates, vectors)
    <2> HIDE DEF E
    <2> QED
      BY <1>3, OnlyPicks
  <1> HIDE DEF embeddings
  <1>5. near \in Seq(E) /\ Picked(near, embeddings, E)
    BY <1>0, <1>4, TopIs
  <1>6. tagged \in Seq(E) /\ Picked(tagged, candidates, E)
    BY <1>0, <1>3, TopIs
  <1> HIDE DEF near, tagged, whole, ring
  <1>7. \A k \in 1..Len(candidates) : Has(ring, candidates[k].item)
    <2> TAKE k \in 1..Len(candidates)
    <2>1. PICK m \in 1..Len(whole) : candidates[k] = whole[m]
      BY <1>3 DEF Picked
    <2>2. m \in 1..ring.size /\ ItemAt(ring, m) = candidates[k].item
      BY <1>1, <2>1 DEF ItemAt, whole
    <2> QED
      BY <2>2 DEF Has
  <1>8. \A k \in 1..Len(near) : Has(ring, near[k].item)
    <2> TAKE k \in 1..Len(near)
    <2>1. PICK m \in 1..Len(embeddings) : near[k] = embeddings[m]
      BY <1>5 DEF Picked
    <2>2. PICK n \in 1..Len(candidates) : embeddings[m] = candidates[n]
      BY <1>4 DEF Picked
    <2> QED
      BY <2>1, <2>2, <1>7
  <1>9. \A k \in 1..Len(tagged) : Has(ring, tagged[k].item)
    <2> TAKE k \in 1..Len(tagged)
    <2>1. PICK m \in 1..Len(candidates) : tagged[k] = candidates[m]
      BY <1>6 DEF Picked
    <2> QED
      BY <2>1, <1>7
  <1>10. SimilarCases(i, q, embedded) = IF embedded /\ near # <<>> THEN near ELSE tagged
    BY DEF SimilarCases, KeywordCaseMatch, near, tagged, embeddings, vectors, candidates
  <1>11. PICK n \in DOMAIN SimilarCases(i, q, embedded) : r = SimilarCases(i, q, embedded)[n].item
    BY DEF FewShot
  <1>12. CASE embedded /\ near # <<>>
    <2>1. SimilarCases(i, q, embedded) = near
      BY <1>10, <1>12
    <2>2. n \in 1..Len(near)
      <3> HIDE DEF E
      <3> QED
        BY <1>5, <1>11, <2>1
    <2> QED
      BY <1>8, <1>11, <2>1, <2>2 DEF ring
  <1>13. CASE ~(embedded /\ near # <<>>)
    <2>1. SimilarCases(i, q, embedded) = tagged
      BY <1>10, <1>13
    <2>2. n \in 1..Len(tagged)
      <3> HIDE DEF E
      <3> QED
        BY <1>6, <1>11, <2>1
    <2> QED
      BY <1>9, <1>11, <2>1, <2>2 DEF ring
  <1> QED
    BY <1>12, <1>13
-----------------------------------------------------------------------------
Marks == {s \in Seq(Runs) : Len(s) <= SuppressCapacity}

LEMMA MarkIs ==
  ASSUME CaseConstants, NEW set \in Marks, NEW r \in Runs
  PROVE  /\ Mark(set, r) \in Marks
         /\ \A y : Holds(Mark(set, r), y) => y = r \/ Holds(set, y)
  <1>0. SuppressCapacity \in Nat \ {0} /\ set \in Seq(Runs) /\ Len(set) <= SuppressCapacity
    BY DEF CaseConstants, Marks
  <1>1. CASE Holds(set, r)
    BY <1>1 DEF Mark
  <1>2. CASE ~Holds(set, r)
    <2> DEFINE rest == IF Len(set) = SuppressCapacity THEN Tail(set) ELSE set
    <2>1. Mark(set, r) = Append(rest, r)
      BY <1>2 DEF Mark
    <2>2. rest \in Seq(Runs) /\ Len(rest) < SuppressCapacity
      <3>1. CASE Len(set) = SuppressCapacity
        <4>1. Len(set) # 0
          BY <1>0, <3>1
        <4>2. set # <<>>
          BY <4>1
        <4> QED
          BY <1>0, <3>1, <4>2
      <3>2. CASE Len(set) # SuppressCapacity
        BY <1>0, <3>2
      <3> QED
        BY <3>1, <3>2
    <2>3. ASSUME NEW y, Holds(rest, y)
          PROVE  Holds(set, y)
      <3>1. CASE rest = set
        BY <2>3, <3>1
      <3>2. CASE rest = Tail(set) /\ Len(set) = SuppressCapacity
        <4>1. set # <<>>
          BY <1>0, <3>2
        <4>2. PICK n \in 1..Len(Tail(set)) : Tail(set)[n] = y
          BY <1>0, <2>3, <3>2, <4>1 DEF Holds
        <4>3. n + 1 \in 1..Len(set) /\ Tail(set)[n] = set[n + 1]
          BY <1>0, <4>1, <4>2
        <4> QED
          BY <1>0, <4>2, <4>3 DEF Holds
      <3> QED
        BY <3>1, <3>2
    <2> HIDE DEF rest
    <2>4. Append(rest, r) \in Marks
      BY <1>0, <2>2 DEF Marks
    <2>5. ASSUME NEW y, Holds(Append(rest, r), y)
          PROVE  y = r \/ Holds(rest, y)
      BY <2>2, <2>5 DEF Holds
    <2> QED
      BY <2>1, <2>3, <2>4, <2>5
  <1> QED
    BY <1>1, <1>2

LEMMA MarkAllIs ==
  ASSUME CaseConstants, NEW set \in Marks, NEW list \in Seq(Runs)
  PROVE  /\ MarkAll(set, list) \in Marks
         /\ \A y : Holds(MarkAll(set, list), y) => Holds(set, y) \/ Holds(list, y)
  <1> DEFINE N == Len(list)
             A == {s \in Marks : \A y : Holds(s, y) => Holds(set, y) \/ Holds(list, y)}
             turn == [n \in 1..N |-> [s \in A |-> Mark(s, list[n])]]
             Rec(f) == f = [n \in 0..N |-> IF n = 0 THEN set ELSE Mark(f[n - 1], list[n])]
             after == CHOOSE f : Rec(f)
  <1>0. N \in Nat /\ \A n \in 1..N : list[n] \in Runs /\ Holds(list, list[n])
    BY DEF Holds
  <1>1. MarkAll(set, list) = after[N]
    BY DEF MarkAll
  <1>2. set \in A
    OBVIOUS
  <1>3. ASSUME NEW n \in 1..N, NEW s \in A
        PROVE  Mark(s, list[n]) \in A
    <2> DEFINE x == list[n]
    <2>1. x \in Runs /\ Holds(list, x) /\ s \in Marks
      BY <1>0
    <2> HIDE DEF x
    <2>2. Mark(s, x) \in Marks /\ \A y : Holds(Mark(s, x), y) => y = x \/ Holds(s, y)
      BY <2>1, MarkIs
    <2>3. Mark(s, x) \in A
      BY <2>1, <2>2
    <2> QED
      BY <2>3 DEF x
  <1> HIDE DEF A
  <1>4. turn \in [1..N -> [A -> A]]
    BY <1>3
  <1>5. PICK f : IsLoop(f, A, N, set, turn)
    <2> HIDE DEF turn, N
    <2> QED
      BY <1>0, <1>2, <1>4, Iterates
  <1>6. f \in [0..N -> A] /\ f[0] = set /\ \A n \in 1..N : f[n] = turn[n][f[n - 1]]
    <2> HIDE DEF turn, N
    <2> QED
      BY <1>5 DEF IsLoop
  <1>7. ASSUME NEW n \in 1..N
        PROVE  f[n] = Mark(f[n - 1], list[n])
    <2>1. n - 1 \in 0..N
      BY <1>0
    <2>2. f[n - 1] \in A
      BY <1>6, <2>1
    <2> QED
      BY <1>6, <2>2
  <1>8. Rec(f)
    <2> DEFINE g == [n \in 0..N |-> IF n = 0 THEN set ELSE Mark(f[n - 1], list[n])]
    <2>1. \A n \in 0..N : f[n] = g[n]
      <3> TAKE n \in 0..N
      <3>1. CASE n = 0
        BY <3>1, <1>6
      <3>2. CASE n # 0
        <4>1. n \in 1..N
          BY <3>2
        <4>2. g[n] = Mark(f[n - 1], list[n])
          BY <3>2
        <4> HIDE DEF g
        <4> QED
          BY <4>1, <4>2, <1>7
      <3> QED
        BY <3>1, <3>2
    <2>2. f = [n \in 0..N |-> f[n]] /\ g = [n \in 0..N |-> g[n]]
      BY <1>6
    <2>3. f = g
      <3> HIDE DEF g
      <3> QED
        BY <2>1, <2>2
    <2> QED
      BY <2>3
  <1>9. Rec(after)
    <2> HIDE DEF Rec
    <2> QED
      BY <1>8
  <1>10. ASSUME NEW n \in 1..N, after[n - 1] = f[n - 1]
         PROVE  after[n] = f[n]
    <2>1. n \in 0..N /\ n # 0
      BY <1>0
    <2> HIDE DEF after, N
    <2>2. after[n] = Mark(after[n - 1], list[n])
      BY <1>9, <2>1, Zenon
    <2> QED
      BY <2>2, <1>7, <1>10
  <1>11. after[0] = f[0]
    <2> HIDE DEF after
    <2> QED
      BY <1>9, <1>6, <1>0
  <1>12. after[N] \in A
    <2> HIDE DEF after, N
    <2>1. Keeps(after, f, N)
      BY <1>10, <1>11 DEF Keeps
    <2>2. Agree(after, f, N)
      BY <1>0, <2>1, Follows
    <2> QED
      BY <1>0, <1>6, <2>2 DEF Agree
  <1> HIDE DEF after
  <1> QED
    BY <1>1, <1>12 DEF A
-----------------------------------------------------------------------------
\* The caches of all instances.
StoresOK(st) ==
  /\ st \in [Instances -> Rings([item : Runs, vec : BOOLEAN], CaseCacheSize, SymptomOf)]
  /\ \A i \in Instances : CacheOK(st[i], Runs, CaseCacheSize, SymptomOf)

WarmStages == {"list", "marks", "replace", "done"}

\* The stages in which an extraction is at work, on an instance.
AtWork == {"extracting", "embedding", "checked", "added", "created"}

Extractions == [at : Instances \cup {"nowhere"}, stage : Stages, vec : BOOLEAN]

ExtractOK(ex) ==
  /\ ex \in [Runs -> Extractions]
  /\ \A r \in Runs : ex[r].stage \in AtWork => ex[r].at \in Instances

Withdrawals == [at : Instances, run : Runs, stage : PurgeStages]

Lists ==
  /\ caseLibrary \in BOOLEAN /\ built \in Seq(Runs) /\ marked \in Seq(Runs)
  /\ rows \subseteq Runs /\ loose \subseteq Runs /\ late \subseteq Instances \X Runs

Bounds ==
  /\ failures \in 0..MaxFailures /\ restarts \in 0..MaxRestarts
  /\ withdrawals \in 0..MaxWithdrawals

WarmOK(wa) == wa \in [Instances -> [stage : WarmStages, items : Seq(Runs)]]

MarksOK(su) == su \in [Instances -> Marks]

CasesTyped ==
  /\ Lists /\ Bounds /\ StoresOK(store) /\ ExtractOK(extract)
  /\ purges \subseteq Withdrawals /\ WarmOK(warm) /\ MarksOK(suppressed)

LEMMA StoreStep ==
  ASSUME NEW st, StoresOK(st), NEW i \in Instances, NEW ring,
         CacheOK(ring, Runs, CaseCacheSize, SymptomOf)
  PROVE  StoresOK([st EXCEPT ![i] = ring])
  <1> DEFINE R == Rings([item : Runs, vec : BOOLEAN], CaseCacheSize, SymptomOf)
  <1>1. ring \in R /\ st \in [Instances -> R]
    BY DEF CacheOK, RingOK, StoresOK
  <1> HIDE DEF R
  <1>2. [st EXCEPT ![i] = ring] \in [Instances -> R]
    BY <1>1
  <1>3. \A j \in Instances : [st EXCEPT ![i] = ring][j] = IF j = i THEN ring ELSE st[j]
    BY <1>1
  <1> QED
    BY <1>2, <1>3 DEF StoresOK, R

LEMMA ExtractStepOK ==
  ASSUME NEW ex, ExtractOK(ex), NEW r \in Runs, NEW x \in Extractions,
         x.stage \in AtWork => x.at \in Instances
  PROVE  ExtractOK([ex EXCEPT ![r] = x])
  BY DEF ExtractOK

LEMMA OverIs == Over \in Extractions /\ Over.stage = "done" /\ Over.at = "nowhere"
  BY DEF Over, Extractions, Stages

LEMMA StageIs ==
  ASSUME NEW x \in Extractions, NEW stage \in Stages
  PROVE  /\ [x EXCEPT !.stage = stage] \in Extractions
         /\ [x EXCEPT !.stage = stage].at = x.at
         /\ [x EXCEPT !.stage = stage].stage = stage
  BY DEF Extractions

LEMMA EndIs ==
  ASSUME ExtractOK(extract), NEW r \in Runs, End(r)
  PROVE  ExtractOK(extract')
  <1>1. extract' = [extract EXCEPT ![r] = Over]
    BY DEF End
  <1>2. Over \in Extractions /\ (Over.stage \in AtWork => Over.at \in Instances)
    BY OverIs DEF AtWork
  <1>3. ExtractOK([extract EXCEPT ![r] = Over])
    BY <1>2, ExtractStepOK
  <1> QED
    BY <1>1, <1>3

LEMMA ToIs ==
  ASSUME ExtractOK(extract), NEW r \in Runs, extract[r].stage \in AtWork, NEW stage \in AtWork, To(r, stage)
  PROVE  /\ ExtractOK(extract')
         /\ extract'[r].at = extract[r].at /\ extract'[r].stage = stage
         /\ \A q \in Runs : q # r => extract'[q] = extract[q]
  <1> DEFINE x == [extract[r] EXCEPT !.stage = stage]
  <1>1. extract[r] \in Extractions /\ stage \in Stages
    BY DEF ExtractOK, AtWork, Stages
  <1>2. x \in Extractions /\ x.at = extract[r].at /\ x.stage = stage
    BY <1>1, StageIs
  <1>3. extract' = [extract EXCEPT ![r] = x]
    BY DEF To
  <1> HIDE DEF x
  <1>4. x.stage \in AtWork => x.at \in Instances
    BY <1>2 DEF ExtractOK
  <1>5. ExtractOK([extract EXCEPT ![r] = x])
    BY <1>2, <1>4, ExtractStepOK
  <1>6. DOMAIN extract = Runs
    BY DEF ExtractOK
  <1> QED
    BY <1>2, <1>3, <1>5, <1>6

LEMMA CasesTypedInit ==
  ASSUME CaseConstants, CasesInit
  PROVE  CasesTyped
  <1>1. StoresOK(store)
    <2> DEFINE new == NewBoundedCache(CaseCacheSize, SymptomOf)
    <2>1. CacheOK(new, Runs, CaseCacheSize, SymptomOf)
      BY NewCache DEF CaseConstants
    <2>2. new \in Rings([item : Runs, vec : BOOLEAN], CaseCacheSize, SymptomOf)
      BY <2>1 DEF CacheOK, RingOK
    <2>3. store = [i \in Instances |-> new]
      BY DEF CasesInit, CaseStore
    <2> HIDE DEF new
    <2> QED
      BY <2>1, <2>2, <2>3 DEF StoresOK
  <1>2. ExtractOK(extract)
    <2> DEFINE x == [at |-> "nowhere", stage |-> "running", vec |-> FALSE]
    <2>1. x \in Extractions /\ x.stage = "running"
      BY DEF Extractions, Stages
    <2>2. extract = [r \in Runs |-> x]
      BY DEF CasesInit
    <2> HIDE DEF x
    <2> QED
      BY <2>1, <2>2 DEF ExtractOK, AtWork
  <1>3. WarmOK(warm)
    <2>1. Idle \in [stage : WarmStages, items : Seq(Runs)]
      BY DEF Idle, WarmStages
    <2> QED
      BY <2>1 DEF WarmOK, CasesInit
  <1>4. MarksOK(suppressed)
    <2>1. <<>> \in Marks
      BY DEF CaseConstants, Marks
    <2> QED
      BY <2>1 DEF MarksOK, CasesInit, NewBoundedStringSet
  <1>5. Lists
    BY DEF Lists, CasesInit, CaseConstants
  <1>6. Bounds /\ purges \subseteq Withdrawals
    BY DEF Bounds, CasesInit, CaseConstants
  <1> QED
    BY <1>1, <1>2, <1>3, <1>4, <1>5, <1>6 DEF CasesTyped

LEMMA CasesTypedGives ==
  ASSUME CaseConstants, CasesTyped
  PROVE  CasesTypeOK
  <1>1. ASSUME NEW i \in Instances
        PROVE  /\ store[i].size \in 0 .. CaseCacheSize
               /\ store[i].head \in 0 .. CaseCacheSize - 1
               /\ suppressed[i] \in Seq(Runs) /\ Len(suppressed[i]) <= SuppressCapacity
               /\ warm[i].stage \in {"list", "marks", "replace", "done"}
               /\ warm[i].items \in Seq(Runs)
    <2>1. RingOK(store[i], [item : Runs, vec : BOOLEAN], CaseCacheSize, SymptomOf)
      BY DEF CasesTyped, StoresOK, CacheOK
    <2>2. CaseCacheSize \in Nat \ {0}
      BY DEF CaseConstants
    <2>3. store[i].size \in 0 .. CaseCacheSize /\ store[i].head \in 0 .. CaseCacheSize - 1
      BY <2>1, <2>2, SizeIs
    <2>4. suppressed[i] \in Marks /\ warm[i] \in [stage : WarmStages, items : Seq(Runs)]
      BY DEF CasesTyped, MarksOK, WarmOK
    <2> QED
      BY <2>3, <2>4 DEF Marks, WarmStages
  <1>2. extract \in [Runs -> [at : Instances \cup {"nowhere"}, stage : Stages, vec : BOOLEAN]]
    BY DEF CasesTyped, ExtractOK, Extractions
  <1>3. \A p \in purges : p.at \in Instances /\ p.run \in Runs /\ p.stage \in PurgeStages
    BY DEF CasesTyped, Withdrawals
  <1>4. Lists /\ Bounds
    BY DEF CasesTyped
  <1> QED
    BY <1>1, <1>2, <1>3, <1>4 DEF CasesTypeOK, Lists, Bounds
-----------------------------------------------------------------------------
LEMMA CaseCacheSizeIs == ASSUME CaseConstants PROVE CaseCacheSize \in Nat \ {0}
  BY DEF CaseConstants

LEMMA ExtractTyped ==
  ASSUME CaseConstants, CasesTyped, NEW r \in Runs, ExtractStep(r)
  PROVE  CasesTyped'
  <1>0. /\ Lists /\ Bounds /\ StoresOK(store) /\ ExtractOK(extract)
        /\ purges \subseteq Withdrawals /\ WarmOK(warm) /\ MarksOK(suppressed)
        /\ extract[r] \in Extractions /\ DOMAIN extract = Runs
    BY DEF CasesTyped, ExtractOK
  <1>1. CASE RecordDiagnosisCase(r)
    <2> DEFINE x == [extract[r] EXCEPT !.at = HomeOf[r], !.stage = "extracting"]
    <2>1. HomeOf[r] \in Instances
      BY DEF CaseConstants
    <2>2. x \in Extractions /\ x.at \in Instances
      BY <1>0, <2>1 DEF Extractions, Stages
    <2>3. extract' = [extract EXCEPT ![r] = x]
      BY <1>1 DEF RecordDiagnosisCase
    <2> HIDE DEF x
    <2>4. ExtractOK([extract EXCEPT ![r] = x])
      BY <1>0, <2>2, ExtractStepOK
    <2> QED
      BY <1>0, <1>1, <2>3, <2>4 DEF RecordDiagnosisCase, CasesTyped, Lists, Bounds
  <1>2. CASE ExtractFails(r)
    <2>1. ExtractOK(extract')
      BY <1>0, <1>2, EndIs DEF ExtractFails
    <2>2. failures' \in 0..MaxFailures
      BY <1>0, <1>2 DEF ExtractFails, Failing, Bounds, CaseConstants
    <2> QED
      BY <1>0, <1>2, <2>1, <2>2 DEF ExtractFails, CasesTyped, Lists, Bounds
  <1>3. CASE BuildDiagnosisCase(r)
    <2>1. extract[r].stage \in AtWork /\ "embedding" \in AtWork
      BY <1>3 DEF BuildDiagnosisCase, At, AtWork
    <2>2. ExtractOK(extract')
      BY <1>0, <1>3, <2>1, ToIs DEF BuildDiagnosisCase
    <2>3. built' \in Seq(Runs)
      BY <1>0, <1>3 DEF BuildDiagnosisCase, Lists
    <2> QED
      BY <1>0, <1>3, <2>2, <2>3 DEF BuildDiagnosisCase, CasesTyped, Lists, Bounds
  <1>4. CASE EmbedAndCheck(r)
    <2>1. ExtractOK(extract') /\ failures' \in 0..MaxFailures
      <3>1. CASE Holds(suppressed[extract[r].at], r)
        BY <1>0, <1>4, <3>1, EndIs DEF EmbedAndCheck, Bounds
      <3>2. CASE ~Holds(suppressed[extract[r].at], r)
        <4>1. PICK vec \in BOOLEAN :
                /\ extract' = [extract EXCEPT ![r] = [@ EXCEPT !.vec = vec, !.stage = "checked"]]
                /\ IF vec THEN UNCHANGED failures ELSE Failing
          BY <1>4, <3>2 DEF EmbedAndCheck
        <4> DEFINE x == [extract[r] EXCEPT !.vec = vec, !.stage = "checked"]
        <4>2. x \in Extractions /\ x.at = extract[r].at
          BY <1>0 DEF Extractions, Stages
        <4>3. extract[r].at \in Instances
          BY <1>0, <1>4 DEF EmbedAndCheck, At, AtWork, ExtractOK
        <4>4. extract' = [extract EXCEPT ![r] = x]
          BY <4>1
        <4> HIDE DEF x
        <4>5. ExtractOK([extract EXCEPT ![r] = x])
          BY <1>0, <4>2, <4>3, ExtractStepOK
        <4>6. failures' \in 0..MaxFailures
          BY <1>0, <4>1 DEF Failing, Bounds, CaseConstants
        <4> QED
          BY <4>4, <4>5, <4>6
      <3> QED
        BY <3>1, <3>2
    <2> QED
      BY <1>0, <1>4, <2>1 DEF EmbedAndCheck, CasesTyped, Lists, Bounds
  <1>5. CASE AddCase(r)
    <2> DEFINE i == extract[r].at
               e == [item |-> r, vec |-> extract[r].vec]
               ring == Add(store[i], e)
    <2>1. extract[r].stage \in AtWork /\ "added" \in AtWork
      BY <1>5 DEF AddCase, At, AtWork
    <2>2. i \in Instances /\ e \in [item : Runs, vec : BOOLEAN]
      BY <1>0, <2>1 DEF ExtractOK, Extractions
    <2>3. ExtractOK(extract')
      BY <1>0, <1>5, <2>1, ToIs DEF AddCase
    <2>4. store' = [store EXCEPT ![i] = ring]
      BY <1>5 DEF AddCase
    <2>5. CacheOK(store[i], Runs, CaseCacheSize, SymptomOf)
      BY <1>0, <2>2 DEF StoresOK
    <2>6. CacheOK(ring, Runs, CaseCacheSize, SymptomOf)
      <3> HIDE DEF i, e
      <3> QED
        BY <2>2, <2>5, AddCache, CaseCacheSizeIs
    <2> HIDE DEF ring, i
    <2>7. StoresOK([store EXCEPT ![i] = ring])
      BY <1>0, <2>2, <2>6, StoreStep
    <2> QED
      BY <1>0, <1>5, <2>3, <2>4, <2>7 DEF AddCase, CasesTyped, Lists, Bounds
  <1>6. CASE CreateDiagnosisCase(r)
    <2>1. extract[r].stage \in AtWork /\ "created" \in AtWork
      BY <1>6 DEF CreateDiagnosisCase, At, AtWork
    <2>2. ExtractOK(extract')
      BY <1>0, <1>6, <2>1, ToIs DEF CreateDiagnosisCase
    <2>3. rows' \subseteq Runs /\ failures' \in 0..MaxFailures
      BY <1>0, <1>6 DEF CreateDiagnosisCase, Failing, Bounds, Lists, CaseConstants
    <2> QED
      BY <1>0, <1>6, <2>2, <2>3 DEF CreateDiagnosisCase, CasesTyped, Lists, Bounds
  <1>7. CASE Recheck(r)
    <2>1. ExtractOK(extract')
      BY <1>0, <1>7, EndIs DEF Recheck
    <2>2. extract[r].at \in Instances
      BY <1>0, <1>7 DEF Recheck, At, AtWork, ExtractOK
    <2>3. Purge(extract[r].at, r, "suppress") \in Withdrawals
      BY <2>2 DEF Purge, Withdrawals, PurgeStages
    <2>4. purges' \subseteq Withdrawals /\ loose' \subseteq Runs
      BY <1>0, <1>7, <2>3 DEF Recheck, Lists
    <2> QED
      BY <1>0, <1>7, <2>1, <2>4 DEF Recheck, CasesTyped, Lists, Bounds
  <1> QED
    BY <1>1, <1>2, <1>3, <1>4, <1>5, <1>6, <1>7 DEF ExtractStep

LEMMA VerdictTyped ==
  ASSUME CaseConstants, CasesTyped, NEW i \in Instances, NEW r \in Runs,
         SubmitRunFeedback(i, r) \/ ManagementDelete(i, r)
  PROVE  CasesTyped'
  <1>0. /\ Lists /\ Bounds /\ StoresOK(store) /\ ExtractOK(extract)
        /\ purges \subseteq Withdrawals /\ WarmOK(warm) /\ MarksOK(suppressed)
    BY DEF CasesTyped
  <1>1. Purge(i, r, "suppress") \in Withdrawals
    BY DEF Purge, Withdrawals, PurgeStages
  <1>2. withdrawals' \in 0..MaxWithdrawals
    BY <1>0 DEF SubmitRunFeedback, ManagementDelete, OneMore, Bounds, CaseConstants
  <1>3. CASE SubmitRunFeedback(i, r)
    <2>1. marked' \in Seq(Runs)
      BY <1>0, <1>3 DEF SubmitRunFeedback, CreateRunFeedback, Lists
    <2> QED
      BY <1>0, <1>1, <1>2, <1>3, <2>1 DEF SubmitRunFeedback, CasesTyped, Lists, Bounds
  <1>4. CASE ManagementDelete(i, r)
    BY <1>0, <1>1, <1>2, <1>4 DEF ManagementDelete, CasesTyped, Lists, Bounds
  <1> QED
    BY <1>3, <1>4

LEMMA PurgeToIs ==
  ASSUME purges \subseteq Withdrawals, NEW p \in purges, NEW stage \in PurgeStages, PurgeTo(p, stage)
  PROVE  /\ purges' \subseteq Withdrawals
         /\ \E post \in purges' : post.at = p.at /\ post.run = p.run /\ post.stage = stage
         /\ \A q \in purges : q # p => q \in purges'
  <1> DEFINE post == [p EXCEPT !.stage = stage]
  <1>1. p \in Withdrawals
    OBVIOUS
  <1>2. post \in Withdrawals /\ post.at = p.at /\ post.run = p.run /\ post.stage = stage
    BY <1>1 DEF Withdrawals
  <1>3. purges' = (purges \ {p}) \cup {post}
    BY DEF PurgeTo
  <1> HIDE DEF post
  <1> QED
    BY <1>2, <1>3

LEMMA PurgeTyped ==
  ASSUME CaseConstants, CasesTyped, NEW p \in purges,
         SuppressRun(p) \/ RemoveFromStore(p) \/ DeleteDiagnosisCaseByRunID(p)
  PROVE  CasesTyped'
  <1>0. /\ Lists /\ Bounds /\ StoresOK(store) /\ ExtractOK(extract)
        /\ purges \subseteq Withdrawals /\ WarmOK(warm) /\ MarksOK(suppressed)
    BY DEF CasesTyped
  <1> DEFINE i == p.at
             r == p.run
  <1>p. i \in Instances /\ r \in Runs
    BY <1>0 DEF Withdrawals
  <1>s. "remove" \in PurgeStages /\ "delete" \in PurgeStages
    BY DEF PurgeStages
  <1> HIDE DEF i, r
  <1>1. CASE SuppressRun(p)
    <2>1. suppressed[i] \in Marks
      BY <1>0, <1>p DEF MarksOK
    <2> DEFINE new == Mark(suppressed[i], r)
    <2>2. new \in Marks
      BY <1>p, <2>1, MarkIs
    <2>3. suppressed' = [suppressed EXCEPT ![i] = new]
      BY <1>1 DEF SuppressRun, i, r
    <2> HIDE DEF new
    <2>4. MarksOK(suppressed')
      BY <1>0, <2>2, <2>3 DEF MarksOK
    <2>5. purges' \subseteq Withdrawals
      BY <1>0, <1>1, <1>s, PurgeToIs DEF SuppressRun
    <2> QED
      BY <1>0, <1>1, <2>4, <2>5 DEF SuppressRun, CasesTyped, Lists, Bounds
  <1>2. CASE RemoveFromStore(p)
    <2>1. CacheOK(store[i], Runs, CaseCacheSize, SymptomOf)
      BY <1>0, <1>p DEF StoresOK
    <2> DEFINE new == RemoveMatching(store[i], {r})
    <2>2. CacheOK(new, Runs, CaseCacheSize, SymptomOf)
      BY <2>1, RemoveCache, CaseCacheSizeIs
    <2>3. store' = [store EXCEPT ![i] = new]
      BY <1>2 DEF RemoveFromStore, i, r
    <2> HIDE DEF new
    <2>4. StoresOK([store EXCEPT ![i] = new])
      BY <1>0, <1>p, <2>2, StoreStep
    <2>5. purges' \subseteq Withdrawals
      BY <1>0, <1>2, <1>s, PurgeToIs DEF RemoveFromStore
    <2>6. late' \subseteq Instances \X Runs
      <3>1. late' = late \/ late' = late \cup {<<i, r>>}
        BY <1>2 DEF RemoveFromStore, i, r
      <3> QED
        BY <1>0, <1>p, <3>1 DEF Lists
    <2> QED
      BY <1>0, <1>2, <2>3, <2>4, <2>5, <2>6 DEF RemoveFromStore, CasesTyped, Lists, Bounds
  <1>3. CASE DeleteDiagnosisCaseByRunID(p)
    <2>1. rows' \subseteq Runs /\ loose' \subseteq Runs /\ failures' \in 0..MaxFailures
      BY <1>0, <1>3, <1>p DEF DeleteDiagnosisCaseByRunID, Lists, Bounds, Failing, CaseConstants,
         r
    <2> QED
      BY <1>0, <1>3, <2>1 DEF DeleteDiagnosisCaseByRunID, CasesTyped, Lists, Bounds
  <1> QED
    BY <1>1, <1>2, <1>3

WarmState == [stage : WarmStages, items : Seq(Runs)]

LEMMA WarmTyped ==
  ASSUME CaseConstants, CasesTyped, NEW i \in Instances,
         WarmList(i) \/ WarmMarks(i) \/ WarmReplace(i) \/ Restart(i)
  PROVE  CasesTyped'
  <1>0. /\ Lists /\ Bounds /\ StoresOK(store) /\ ExtractOK(extract)
        /\ purges \subseteq Withdrawals /\ WarmOK(warm) /\ MarksOK(suppressed)
    BY DEF CasesTyped
  <1>w. /\ warm \in [Instances -> WarmState] /\ warm[i] \in WarmState /\ Idle \in WarmState
        /\ warm[i].items \in Seq(Runs)
    BY <1>0 DEF WarmOK, WarmState, Idle, WarmStages
  <1>x. ASSUME NEW x \in WarmState, warm' = [warm EXCEPT ![i] = x]
        PROVE  WarmOK(warm')
    BY <1>w, <1>x DEF WarmOK, WarmState
  <1>1. CASE WarmList(i)
    <2> DEFINE recent == Only(built, rows)
               items == IF Len(recent) <= CaseCacheSize THEN recent ELSE SubSeq(recent, 1, CaseCacheSize)
               x == [stage |-> "marks", items |-> items]
    <2>1. recent \in Seq(Runs)
      BY <1>0, OnlyPicks DEF Lists
    <2> HIDE DEF recent
    <2>2. items \in Seq(Runs)
      BY <2>1, CaseCacheSizeIs
    <2> HIDE DEF items
    <2>3. x \in WarmState
      BY <2>2 DEF WarmState, WarmStages
    <2>4. warm' = [warm EXCEPT ![i] = x] \/ warm' = [warm EXCEPT ![i] = Idle]
      BY <1>1 DEF WarmList, items, recent
    <2> HIDE DEF x
    <2>5. WarmOK(warm')
      BY <1>w, <1>x, <2>3, <2>4
    <2>6. failures' \in 0..MaxFailures
      BY <1>0, <1>1 DEF WarmList, Bounds, Failing, CaseConstants
    <2> QED
      BY <1>0, <1>1, <2>5, <2>6 DEF WarmList, CasesTyped, Lists, Bounds
  <1>2. CASE WarmMarks(i)
    <2> DEFINE known == SubSeq(marked, 1, IF Len(marked) < CaseCacheSize THEN Len(marked)
                                          ELSE CaseCacheSize)
               some == {r \in Runs : ~Holds(known, r)}
               items == Only(warm[i].items, some)
               x == [stage |-> "replace", items |-> items]
               y == [warm[i] EXCEPT !.stage = "replace"]
               new == MarkAll(suppressed[i], known)
    <2>1. known \in Seq(Runs)
      <3>1. marked \in Seq(Runs)
        BY <1>0 DEF Lists
      <3> QED
        BY <3>1, CaseCacheSizeIs
    <2>2. suppressed[i] \in Marks
      BY <1>0 DEF MarksOK
    <2>3. \/ /\ suppressed' = [suppressed EXCEPT ![i] = new]
             /\ warm' = [warm EXCEPT ![i] = x]
             /\ UNCHANGED failures
          \/ /\ Failing
             /\ warm' = [warm EXCEPT ![i] = y]
             /\ UNCHANGED suppressed
      BY <1>2 DEF WarmMarks
    <2> HIDE DEF known, some
    <2>4. new \in Marks
      BY <2>1, <2>2, MarkAllIs
    <2>5. items \in Seq(Runs)
      BY <1>w, OnlyPicks
    <2> HIDE DEF new, items
    <2>6. x \in WarmState /\ y \in WarmState
      BY <1>w, <2>5 DEF WarmState, WarmStages
    <2> HIDE DEF x, y
    <2>7. WarmOK(warm')
      BY <1>x, <2>3, <2>6
    <2>8. MarksOK(suppressed')
      BY <1>0, <2>3, <2>4 DEF MarksOK
    <2>9. failures' \in 0..MaxFailures
      BY <1>0, <2>3 DEF Bounds, Failing, CaseConstants
    <2> QED
      BY <1>0, <1>2, <2>7, <2>8, <2>9 DEF WarmMarks, CasesTyped, Lists, Bounds
  <1>3. CASE WarmReplace(i)
    <2>1. PICK vec \in BOOLEAN :
            /\ store' = [store EXCEPT ![i] = Replace(@,
                  [n \in DOMAIN warm[i].items |-> [item |-> warm[i].items[n], vec |-> vec]])]
            /\ IF vec THEN UNCHANGED failures ELSE Failing
      BY <1>3 DEF WarmReplace
    <2> DEFINE entries == [n \in DOMAIN warm[i].items |-> [item |-> warm[i].items[n], vec |-> vec]]
               new == Replace(store[i], entries)
    <2>2. entries \in Seq([item : Runs, vec : BOOLEAN])
      <3> DEFINE items == warm[i].items
      <3>1. items \in Seq(Runs)
        BY <1>w
      <3> HIDE DEF items
      <3>2. /\ Len(items) \in Nat /\ DOMAIN items = 1..Len(items)
            /\ \A n \in 1..Len(items) : [item |-> items[n], vec |-> vec] \in [item : Runs, vec : BOOLEAN]
        BY <3>1
      <3>3. [n \in DOMAIN items |-> [item |-> items[n], vec |-> vec]] \in Seq([item : Runs, vec : BOOLEAN])
        BY <3>2
      <3> QED
        BY <3>3 DEF items
    <2>3. CacheOK(store[i], Runs, CaseCacheSize, SymptomOf)
      BY <1>0 DEF StoresOK
    <2>4. store' = [store EXCEPT ![i] = new]
      BY <2>1
    <2> HIDE DEF entries
    <2>5. CacheOK(new, Runs, CaseCacheSize, SymptomOf)
      BY <2>2, <2>3, ReplaceCache, CaseCacheSizeIs
    <2> HIDE DEF new
    <2>6. StoresOK([store EXCEPT ![i] = new])
      BY <1>0, <2>5, StoreStep
    <2>7. WarmOK(warm')
      BY <1>3, <1>w, <1>x DEF WarmReplace
    <2>8. failures' \in 0..MaxFailures
      BY <1>0, <2>1 DEF Bounds, Failing, CaseConstants
    <2> QED
      BY <1>0, <1>3, <2>4, <2>6, <2>7, <2>8 DEF WarmReplace, CasesTyped, Lists, Bounds
  <1>4. CASE Restart(i)
    <2> DEFINE x == [Idle EXCEPT !.stage = IF caseLibrary THEN "list" ELSE @]
    <2>1. x \in WarmState
      <3> DEFINE stage == IF caseLibrary THEN "list" ELSE Idle.stage
      <3>1. x = [Idle EXCEPT !.stage = stage] /\ stage \in WarmStages
        BY DEF WarmStages, Idle
      <3> HIDE DEF stage, x
      <3> QED
        BY <1>w, <3>1 DEF WarmState
    <2>2. warm' = [warm EXCEPT ![i] = x]
      BY <1>4 DEF Restart
    <2> HIDE DEF x
    <2>3. WarmOK(warm')
      BY <1>x, <2>1, <2>2
    <2>4. StoresOK(store')
      <3>1. CacheOK(CaseStore, Runs, CaseCacheSize, SymptomOf)
        BY NewCache, CaseCacheSizeIs DEF CaseStore
      <3>2. StoresOK([store EXCEPT ![i] = CaseStore])
        BY <1>0, <3>1, StoreStep
      <3> QED
        BY <1>4, <3>2 DEF Restart
    <2>5. MarksOK(suppressed')
      <3>1. NewBoundedStringSet \in Marks
        BY DEF NewBoundedStringSet, Marks, CaseConstants
      <3> QED
        BY <1>0, <1>4, <3>1 DEF Restart, MarksOK
    <2>6. ExtractOK(extract')
      <3>1. extract' = [r \in Runs |-> IF extract[r].at = i THEN Over ELSE extract[r]]
        BY <1>4 DEF Restart
      <3>2. Over \in Extractions /\ Over.stage \notin AtWork
        BY OverIs DEF AtWork
      <3> QED
        BY <1>0, <3>1, <3>2 DEF ExtractOK
    <2>7. purges' \subseteq Withdrawals /\ late' \subseteq Instances \X Runs
      BY <1>0, <1>4 DEF Restart, Lists
    <2>8. loose' \subseteq Runs
      BY <1>0, <1>4 DEF Restart, Lists, Withdrawals
    <2>9. restarts' \in 0..MaxRestarts
      BY <1>0, <1>4 DEF Restart, Bounds, CaseConstants
    <2> QED
      BY <1>0, <1>4, <2>3, <2>4, <2>5, <2>6, <2>7, <2>8, <2>9 DEF Restart, CasesTyped, Lists,
         Bounds
  <1> QED
    BY <1>1, <1>2, <1>3, <1>4

LEMMA CasesTypedNext ==
  ASSUME CaseConstants, CasesTyped, [CasesNext]_cvars
  PROVE  CasesTyped'
  <1>1. CASE UNCHANGED cvars
    BY <1>1 DEF cvars, CasesTyped, Lists, Bounds
  <1>2. ASSUME NEW i \in Instances, NEW r \in Runs, SubmitRunFeedback(i, r) \/ ManagementDelete(i, r)
        PROVE  CasesTyped'
    BY <1>2, VerdictTyped
  <1>3. ASSUME NEW r \in Runs, ExtractStep(r)
        PROVE  CasesTyped'
    BY <1>3, ExtractTyped
  <1>4. ASSUME NEW p \in purges, SuppressRun(p) \/ RemoveFromStore(p) \/ DeleteDiagnosisCaseByRunID(p)
        PROVE  CasesTyped'
    BY <1>4, PurgeTyped
  <1>5. ASSUME NEW i \in Instances, WarmList(i) \/ WarmMarks(i) \/ WarmReplace(i) \/ Restart(i)
        PROVE  CasesTyped'
    BY <1>5, WarmTyped
  <1> QED
    BY <1>1, <1>2, <1>3, <1>4, <1>5 DEF CasesNext
-----------------------------------------------------------------------------
(* A withdrawn case that is in the cache all the same is on its way out:   *)
(* its withdrawal has still to sweep the cache, or its extraction will     *)
(* look at the marks once more, or the warm-up will replace the cache by   *)
(* a list that does not have it.                                           *)

\* r is to be swept out of i by a withdrawal, by its extraction, by the warm-up.
Pending(i, r) == \E p \in purges : p.at = i /\ p.run = r /\ p.stage \in {"suppress", "remove"}

JustAdded(i, r) == extract[r].at = i /\ extract[r].stage \in {"added", "created"}

SweptOut(i, r) == warm[i].stage = "replace" /\ ~Holds(warm[i].items, r)

\* The warm-up of i may bring r.
Coming(i, r) ==
  \/ warm[i].stage \in {"list", "marks"}
  \/ warm[i].stage = "replace" /\ Holds(warm[i].items, r)

\* i knows of the verdict, which did not come during its warm-up.
Known(i, r) == Holds(suppressed[i], r) /\ <<i, r>> \notin late

\* What is withdrawn and still in the cache is not forgotten.
OnItsWayOut(i, r) ==
  Has(store[i], r) /\ Known(i, r) => Pending(i, r) \/ JustAdded(i, r) \/ SweptOut(i, r)

\* The list of the warm-up has no case withdrawn before it was read.
NotComingBack(i, r) == Coming(i, r) /\ Known(i, r) => Pending(i, r)

\* A verdict finds the row, or somebody will.
RowFollows(r) ==
  Holds(marked, r) /\ r \in rows /\ r \notin loose
  => extract[r].stage = "created" \/ \E p \in purges : p.run = r

CasesInv ==
  /\ CasesTyped
  /\ \A i \in Instances, r \in Runs : OnItsWayOut(i, r) /\ NotComingBack(i, r)
  /\ \A r \in Runs : RowFollows(r)

LEMMA CasesInvInit ==
  ASSUME CaseConstants, CasesInit
  PROVE  CasesInv
  <1>1. CasesTyped
    BY CasesTypedInit
  <1>2. \A i \in Instances, r \in Runs : OnItsWayOut(i, r) /\ NotComingBack(i, r)
    <2>1. \A i \in Instances, r \in Runs : ~Holds(suppressed[i], r)
      BY DEF CasesInit, Holds, NewBoundedStringSet
    <2> QED
      BY <2>1 DEF OnItsWayOut, NotComingBack, Known
  <1>3. \A r \in Runs : RowFollows(r)
    BY DEF CasesInit, RowFollows
  <1> QED
    BY <1>1, <1>2, <1>3 DEF CasesInv

\* What one step may do to the place of r on the instance i.
LEMMA SameCase ==
  ASSUME NEW i, NEW r, OnItsWayOut(i, r), NotComingBack(i, r),
         Has(store[i], r)' => Has(store[i], r), Known(i, r)' => Known(i, r),
         Pending(i, r) => Pending(i, r)', JustAdded(i, r) => JustAdded(i, r)', warm'[i] = warm[i]
  PROVE  OnItsWayOut(i, r)' /\ NotComingBack(i, r)'
  BY DEF OnItsWayOut, NotComingBack, Coming, SweptOut

LEMMA ExtractKeeps ==
  ASSUME CaseConstants, CasesInv, NEW s \in Runs, ExtractStep(s), NEW i \in Instances, NEW r \in Runs
  PROVE  /\ OnItsWayOut(i, r)' /\ NotComingBack(i, r)'
         /\ RowFollows(r)'
  <1>0. /\ StoresOK(store) /\ ExtractOK(extract) /\ purges \subseteq Withdrawals
        /\ OnItsWayOut(i, r) /\ NotComingBack(i, r) /\ RowFollows(r)
        /\ DOMAIN extract = Runs
    BY DEF CasesInv, CasesTyped, ExtractOK
  <1>e. UNCHANGED <<warm, suppressed, marked, late>>
    BY DEF ExtractStep, RecordDiagnosisCase, ExtractFails, BuildDiagnosisCase, EmbedAndCheck,
           AddCase, CreateDiagnosisCase, Recheck
  <1>k. Known(i, r)' <=> Known(i, r)
    BY <1>e DEF Known
  <1>x. ASSUME extract'[r] = extract[r] \/ (extract[r].stage \notin {"added", "created"}),
               store' = store, Pending(i, r) => Pending(i, r)'
        PROVE  OnItsWayOut(i, r)' /\ NotComingBack(i, r)'
    <2>1. JustAdded(i, r) => JustAdded(i, r)'
      BY <1>x DEF JustAdded
    <2>2. Has(store[i], r)' => Has(store[i], r)
      BY <1>x
    <2>3. warm'[i] = warm[i]
      BY <1>e
    <2> QED
      BY <1>0, <1>k, <1>x, <2>1, <2>2, <2>3, SameCase
  <1>y. ASSUME extract'[r] = extract[r] \/ (extract[r].stage # "created"), rows' = rows,
               loose \subseteq loose', purges \subseteq purges'
        PROVE  RowFollows(r)'
    BY <1>0, <1>e, <1>y DEF RowFollows
  <1>1. CASE RecordDiagnosisCase(s) \/ ExtractFails(s) \/ BuildDiagnosisCase(s) \/ EmbedAndCheck(s)
    <2>1. /\ extract[s].stage \in {"running", "extracting", "embedding"}
          /\ UNCHANGED <<store, purges, rows, loose>>
      BY <1>1 DEF RecordDiagnosisCase, ExtractFails, BuildDiagnosisCase, EmbedAndCheck, At
    <2>2. s # r => extract'[r] = extract[r]
      BY <1>0, <1>1 DEF RecordDiagnosisCase, ExtractFails, BuildDiagnosisCase, EmbedAndCheck,
         End, To
    <2>3. extract'[r] = extract[r] \/ (extract[r].stage \notin {"added", "created"})
      BY <2>1, <2>2
    <2>4. Pending(i, r) => Pending(i, r)'
      BY <2>1 DEF Pending
    <2> QED
      BY <1>x, <1>y, <2>1, <2>3, <2>4
  <1>2. CASE AddCase(s)
    <2> DEFINE j == extract[s].at
               e == [item |-> s, vec |-> extract[s].vec]
               ring == Add(store[j], e)
    <2>1. extract[s].stage \in AtWork /\ "added" \in AtWork /\ extract[s].stage = "checked"
      BY <1>2 DEF AddCase, At, AtWork
    <2>2. j \in Instances /\ e \in [item : Runs, vec : BOOLEAN] /\ e.item = s
      BY <1>0, <2>1 DEF ExtractOK, Extractions
    <2>3. /\ extract'[s].at = j /\ extract'[s].stage = "added"
          /\ \A q \in Runs : q # s => extract'[q] = extract[q]
      BY <1>0, <1>2, <2>1, ToIs DEF AddCase
    <2>4. store' = [store EXCEPT ![j] = ring]
      BY <1>2 DEF AddCase
    <2>5. CacheOK(store[j], Runs, CaseCacheSize, SymptomOf)
      BY <1>0, <2>2 DEF StoresOK
    <2>6. \A y : Has(ring, y) => y = e.item \/ Has(store[j], y)
      <3> HIDE DEF j, e
      <3> QED
        BY <2>2, <2>5, AddCache, CaseCacheSizeIs
    <2> HIDE DEF ring, j, e
    <2>7. store'[i] = IF i = j THEN ring ELSE store[i]
      BY <1>0, <2>2, <2>4 DEF StoresOK
    <2>8. UNCHANGED <<purges, rows, loose>>
      BY <1>2 DEF AddCase
    <2>9. CASE r = s /\ i = j
      <3>1. JustAdded(i, r)'
        BY <2>3, <2>9 DEF JustAdded
      <3>2. NotComingBack(i, r)'
        BY <1>0, <1>e, <1>k, <2>8 DEF NotComingBack, Coming, Pending
      <3> QED
        BY <3>1, <3>2, <1>0, <1>e, <2>1, <2>8, <2>9 DEF OnItsWayOut, RowFollows
    <2>10. CASE ~(r = s /\ i = j)
      <3>1. Has(store[i], r)' => Has(store[i], r)
        <4>1. Has(store'[i], r) => Has(store[i], r)
          BY <2>2, <2>6, <2>7, <2>10
        <4> QED
          BY <4>1
      <3>2. JustAdded(i, r) => JustAdded(i, r)'
        BY <2>1, <2>3 DEF JustAdded
      <3>3. Pending(i, r) => Pending(i, r)'
        BY <2>8 DEF Pending
      <3>4. warm'[i] = warm[i]
        BY <1>e
      <3>5. RowFollows(r)'
        BY <1>0, <1>e, <2>1, <2>3, <2>8 DEF RowFollows
      <3> QED
        BY <1>0, <1>k, <3>1, <3>2, <3>3, <3>4, <3>5, SameCase
    <2> QED
      BY <2>9, <2>10
  <1>3. CASE CreateDiagnosisCase(s)
    <2>1. extract[s].stage = "added" /\ extract[s].stage \in AtWork /\ "created" \in AtWork
      BY <1>3 DEF CreateDiagnosisCase, At, AtWork
    <2>2. /\ extract'[s].at = extract[s].at /\ extract'[s].stage = "created"
          /\ \A q \in Runs : q # s => extract'[q] = extract[q]
      BY <1>0, <1>3, <2>1, ToIs DEF CreateDiagnosisCase
    <2>3. UNCHANGED <<store, purges, loose>> /\ rows' \subseteq rows \cup {s}
      BY <1>3 DEF CreateDiagnosisCase
    <2>4. JustAdded(i, r) => JustAdded(i, r)'
      BY <2>2 DEF JustAdded
    <2>5. Pending(i, r) => Pending(i, r)'
      BY <2>3 DEF Pending
    <2>6. warm'[i] = warm[i] /\ (Has(store[i], r)' => Has(store[i], r))
      BY <1>e, <2>3
    <2>7. OnItsWayOut(i, r)' /\ NotComingBack(i, r)'
      BY <1>0, <1>k, <2>4, <2>5, <2>6, SameCase
    <2>8. RowFollows(r)'
      BY <1>0, <1>e, <2>2, <2>3 DEF RowFollows
    <2> QED
      BY <2>7, <2>8
  <1>4. CASE Recheck(s)
    <2> DEFINE j == extract[s].at
               p == Purge(j, s, "suppress")
    <2>1. extract[s].stage = "created" /\ j \in Instances
      BY <1>0, <1>4 DEF Recheck, At, AtWork, ExtractOK
    <2>2. extract' = [extract EXCEPT ![s] = Over]
      BY <1>4 DEF Recheck, End
    <2>3. s # r => extract'[r] = extract[r]
      BY <1>0, <2>2
    <2>4. UNCHANGED <<store, rows>>
      BY <1>4 DEF Recheck
    <2>5. p.at = j /\ p.run = s /\ p.stage = "suppress"
      BY DEF Purge
    <2>6. CASE Holds(suppressed[j], s)
      <3>1. purges' = purges \cup {p} /\ loose' = loose
        BY <1>4, <2>6 DEF Recheck
      <3> HIDE DEF p
      <3>2. purges \subseteq purges' /\ p \in purges'
        BY <3>1
      <3>3. Pending(i, r) => Pending(i, r)'
        BY <3>2 DEF Pending
      <3>4. CASE r = s /\ i = j
        <4>1. Pending(i, r)'
          BY <2>5, <3>2, <3>4 DEF Pending
        <4>2. \E q \in purges' : q.run = r
          BY <2>5, <3>2, <3>4
        <4> QED
          BY <4>1, <4>2 DEF OnItsWayOut, NotComingBack, RowFollows
      <3>5. CASE r = s /\ i # j
        <4>1. ~JustAdded(i, r)
          BY <3>5 DEF JustAdded
        <4>2. \E q \in purges' : q.run = r
          BY <2>5, <3>2, <3>5
        <4>3. warm'[i] = warm[i] /\ (Has(store[i], r)' => Has(store[i], r))
          BY <1>e, <2>4
        <4>4. OnItsWayOut(i, r)' /\ NotComingBack(i, r)'
          BY <1>0, <1>k, <3>3, <4>1, <4>3, SameCase
        <4> QED
          BY <4>2, <4>4 DEF RowFollows
      <3>6. CASE r # s
        <4>1. extract'[r] = extract[r]
          BY <2>3, <3>6
        <4> QED
          BY <1>x, <1>y, <2>4, <3>1, <3>2, <3>3, <4>1
      <3> QED
        BY <3>4, <3>5, <3>6
    <2>7. CASE ~Holds(suppressed[j], s)
      <3>1. purges' = purges /\ loose' = IF Holds(marked, s) THEN loose \cup {s} ELSE loose
        BY <1>4, <2>7 DEF Recheck
      <3>2. loose \subseteq loose' /\ (Holds(marked, s) => s \in loose')
        BY <3>1
      <3>3. Pending(i, r) => Pending(i, r)'
        BY <3>1 DEF Pending
      <3>4. warm'[i] = warm[i] /\ (Has(store[i], r)' => Has(store[i], r))
        BY <1>e, <2>4
      <3>5. CASE r # s
        <4>1. extract'[r] = extract[r]
          BY <2>3, <3>5
        <4> QED
          BY <1>x, <1>y, <2>4, <3>1, <3>2, <3>3, <4>1
      <3>6. CASE r = s
        <4>1. RowFollows(r)'
          BY <1>e, <3>2, <3>6 DEF RowFollows
        <4>2. CASE i = j
          <5>1. ~Known(i, r)'
            BY <1>k, <2>7, <3>6, <4>2 DEF Known
          <5> QED
            BY <4>1, <5>1 DEF OnItsWayOut, NotComingBack
        <4>3. CASE i # j
          <5>1. ~JustAdded(i, r)
            BY <3>6, <4>3 DEF JustAdded
          <5> QED
            BY <1>0, <1>k, <3>3, <3>4, <4>1, <5>1, SameCase
        <4> QED
          BY <4>2, <4>3
      <3> QED
        BY <3>5, <3>6
    <2> QED
      BY <2>6, <2>7
  <1> QED
    BY <1>1, <1>2, <1>3, <1>4 DEF ExtractStep
-----------------------------------------------------------------------------
LEMMA VerdictKeeps ==
  ASSUME CaseConstants, CasesInv, NEW j \in Instances, NEW s \in Runs,
         SubmitRunFeedback(j, s) \/ ManagementDelete(j, s), NEW i \in Instances, NEW r \in Runs
  PROVE  /\ OnItsWayOut(i, r)' /\ NotComingBack(i, r)'
         /\ RowFollows(r)'
  <1> DEFINE p == Purge(j, s, "suppress")
  <1>0. OnItsWayOut(i, r) /\ NotComingBack(i, r) /\ RowFollows(r) /\ marked \in Seq(Runs)
    BY DEF CasesInv, CasesTyped, Lists
  <1>1. /\ UNCHANGED <<warm, suppressed, late, store, extract, rows, loose>>
        /\ purges' = purges \cup {p}
    BY DEF SubmitRunFeedback, ManagementDelete
  <1>2. p.run = s
    BY DEF Purge
  <1> HIDE DEF p
  <1>3. Known(i, r)' <=> Known(i, r)
    BY <1>1 DEF Known
  <1>4. purges \subseteq purges' /\ p \in purges'
    BY <1>1
  <1>5. Pending(i, r) => Pending(i, r)'
    BY <1>4 DEF Pending
  <1>6. JustAdded(i, r) => JustAdded(i, r)'
    BY <1>1 DEF JustAdded
  <1>7. warm'[i] = warm[i] /\ (Has(store[i], r)' => Has(store[i], r))
    BY <1>1
  <1>8. OnItsWayOut(i, r)' /\ NotComingBack(i, r)'
    BY <1>0, <1>3, <1>5, <1>6, <1>7, SameCase
  <1>9. Holds(marked', r) => r = s \/ Holds(marked, r)
    <2>1. CASE marked' = marked
      BY <2>1
    <2>2. CASE marked' = <<s>> \o marked
      <3>1. ASSUME NEW n \in 1..Len(<<s>> \o marked), (<<s>> \o marked)[n] = r, n # 1
            PROVE  Holds(marked, r)
        <4> DEFINE m == n - 1
        <4>1. m \in 1..Len(marked) /\ marked[m] = r
          BY <1>0, <3>1
        <4> HIDE DEF m
        <4> QED
          BY <1>0, <4>1 DEF Holds
      <3>2. (<<s>> \o marked)[1] = s /\ DOMAIN (<<s>> \o marked) = 1..Len(<<s>> \o marked)
        BY <1>0
      <3> QED
        BY <2>2, <3>1, <3>2 DEF Holds
    <2> QED
      BY <2>1, <2>2 DEF SubmitRunFeedback, ManagementDelete, CreateRunFeedback
  <1>10. RowFollows(r)'
    <2>1. CASE r = s
      BY <1>2, <1>4, <2>1 DEF RowFollows
    <2>2. CASE r # s
      BY <1>0, <1>1, <1>4, <1>9, <2>2 DEF RowFollows
    <2> QED
      BY <2>1, <2>2
  <1> QED
    BY <1>8, <1>10

LEMMA PurgeKeeps ==
  ASSUME CaseConstants, CasesInv, NEW p \in purges,
         SuppressRun(p) \/ RemoveFromStore(p) \/ DeleteDiagnosisCaseByRunID(p),
         NEW i \in Instances, NEW r \in Runs
  PROVE  /\ OnItsWayOut(i, r)' /\ NotComingBack(i, r)'
         /\ RowFollows(r)'
  <1> DEFINE j == p.at
             s == p.run
  <1>0. /\ StoresOK(store) /\ MarksOK(suppressed) /\ purges \subseteq Withdrawals
        /\ OnItsWayOut(i, r) /\ NotComingBack(i, r) /\ RowFollows(r)
    BY DEF CasesInv, CasesTyped
  <1>p. j \in Instances /\ s \in Runs
    BY <1>0 DEF Withdrawals
  <1>s. "remove" \in PurgeStages /\ "delete" \in PurgeStages
    BY DEF PurgeStages
  <1>e. UNCHANGED <<warm, extract, marked>>
    BY DEF SuppressRun, RemoveFromStore, DeleteDiagnosisCaseByRunID
  <1>j. JustAdded(i, r) => JustAdded(i, r)'
    BY <1>e DEF JustAdded
  <1> HIDE DEF j, s
  <1>1. CASE SuppressRun(p)
    <2>1. PICK post \in purges' : post.at = j /\ post.run = s /\ post.stage = "remove"
      BY <1>0, <1>1, <1>s, PurgeToIs DEF SuppressRun, j, s
    <2>2. \A q \in purges : q # p => q \in purges'
      BY <1>0, <1>1, <1>s, PurgeToIs DEF SuppressRun
    <2>3. UNCHANGED <<store, rows, loose, late>>
      BY <1>1 DEF SuppressRun
    <2>4. RowFollows(r)'
      BY <1>0, <1>e, <2>1, <2>2, <2>3 DEF RowFollows, s
    <2>5. Pending(i, r) => Pending(i, r)'
      BY <2>1, <2>2 DEF Pending, j, s
    <2>6. CASE i = j /\ r = s
      <3>1. Pending(i, r)'
        BY <2>1, <2>6 DEF Pending
      <3> QED
        BY <2>4, <3>1 DEF OnItsWayOut, NotComingBack
    <2>7. CASE ~(i = j /\ r = s)
      <3> DEFINE new == Mark(suppressed[j], s)
      <3>1. \A y : Holds(new, y) => y = s \/ Holds(suppressed[j], y)
        <4>1. suppressed[j] \in Marks
          BY <1>0, <1>p DEF MarksOK
        <4> QED
          BY <1>p, <4>1, MarkIs
      <3>2. suppressed' = [suppressed EXCEPT ![j] = new]
        BY <1>1 DEF SuppressRun, j, s
      <3> HIDE DEF new
      <3>3. suppressed'[i] = IF i = j THEN new ELSE suppressed[i]
        BY <1>0, <1>p, <3>2 DEF MarksOK
      <3>4. Holds(suppressed'[i], r) => Holds(suppressed[i], r)
        BY <2>7, <3>1, <3>3
      <3>5. Known(i, r)' => Known(i, r)
        BY <2>3, <3>4 DEF Known
      <3>6. warm'[i] = warm[i] /\ (Has(store[i], r)' => Has(store[i], r))
        BY <1>e, <2>3
      <3> QED
        BY <1>0, <1>j, <2>4, <2>5, <3>5, <3>6, SameCase
    <2> QED
      BY <2>6, <2>7
  <1>2. CASE RemoveFromStore(p)
    <2>1. PICK post \in purges' : post.at = j /\ post.run = s /\ post.stage = "delete"
      BY <1>0, <1>2, <1>s, PurgeToIs DEF RemoveFromStore, j, s
    <2>2. \A q \in purges : q # p => q \in purges'
      BY <1>0, <1>2, <1>s, PurgeToIs DEF RemoveFromStore
    <2>3. UNCHANGED <<suppressed, rows, loose>>
      BY <1>2 DEF RemoveFromStore
    <2>4. RowFollows(r)'
      BY <1>0, <1>e, <2>1, <2>2, <2>3 DEF RowFollows, s
    <2> DEFINE new == RemoveMatching(store[j], {s})
    <2>5. ~Has(new, s) /\ \A y : Has(new, y) => Has(store[j], y)
      <3>1. CacheOK(store[j], Runs, CaseCacheSize, SymptomOf)
        BY <1>0, <1>p DEF StoresOK
      <3>2. ~Has(new, s) /\ Within(new, store[j])
        BY <3>1, RemoveCache, CaseCacheSizeIs
      <3> QED
        BY <3>2 DEF Within
    <2>6. store' = [store EXCEPT ![j] = new]
      BY <1>2 DEF RemoveFromStore, j, s
    <2> HIDE DEF new
    <2>7. store'[i] = IF i = j THEN new ELSE store[i]
      BY <1>0, <1>p, <2>6 DEF StoresOK
    <2>8. /\ late \subseteq late'
          /\ warm[j].stage # "done" => <<j, s>> \in late'
      BY <1>2 DEF RemoveFromStore, j, s
    <2>9. Known(i, r)' => Known(i, r)
      BY <2>3, <2>8 DEF Known
    <2>10. CASE i = j /\ r = s
      <3>1. ~Has(store[i], r)'
        <4>1. ~Has(store'[i], r)
          BY <2>5, <2>7, <2>10
        <4> QED
          BY <4>1
      <3>2. Coming(i, r)' => ~Known(i, r)'
        <4>1. warm'[i] = warm[i]
          BY <1>e
        <4> QED
          BY <2>8, <2>10, <4>1 DEF Coming, Known
      <3> QED
        BY <2>4, <3>1, <3>2 DEF OnItsWayOut, NotComingBack
    <2>11. CASE ~(i = j /\ r = s)
      <3>1. Pending(i, r) => Pending(i, r)'
        BY <2>2, <2>11 DEF Pending, j, s
      <3>2. Has(store[i], r)' => Has(store[i], r)
        <4>1. Has(store'[i], r) => Has(store[i], r)
          BY <2>5, <2>7
        <4> QED
          BY <4>1
      <3>3. warm'[i] = warm[i]
        BY <1>e
      <3> QED
        BY <1>0, <1>j, <2>4, <2>9, <3>1, <3>2, <3>3, SameCase
    <2> QED
      BY <2>10, <2>11
  <1>3. CASE DeleteDiagnosisCaseByRunID(p)
    <2>1. UNCHANGED <<store, suppressed, late>> /\ purges' = purges \ {p} /\ p.stage = "delete"
      BY <1>3 DEF DeleteDiagnosisCaseByRunID
    <2>2. Pending(i, r) => Pending(i, r)'
      BY <2>1 DEF Pending
    <2>3. Known(i, r)' <=> Known(i, r)
      BY <2>1 DEF Known
    <2>4. warm'[i] = warm[i] /\ (Has(store[i], r)' => Has(store[i], r))
      BY <1>e, <2>1
    <2>5. OnItsWayOut(i, r)' /\ NotComingBack(i, r)'
      BY <1>0, <1>j, <2>2, <2>3, <2>4, SameCase
    <2>6. rows' \subseteq rows /\ loose \subseteq loose' /\ (s \notin rows' \/ s \in loose')
      BY <1>3 DEF DeleteDiagnosisCaseByRunID, s
    <2>7. RowFollows(r)'
      BY <1>0, <1>e, <2>1, <2>6 DEF RowFollows, s
    <2> QED
      BY <2>5, <2>7
  <1> QED
    BY <1>1, <1>2, <1>3

LEMMA WarmKeeps ==
  ASSUME CaseConstants, CasesInv, NEW j \in Instances,
         WarmList(j) \/ WarmMarks(j) \/ WarmReplace(j) \/ Restart(j),
         NEW i \in Instances, NEW r \in Runs
  PROVE  /\ OnItsWayOut(i, r)' /\ NotComingBack(i, r)'
         /\ RowFollows(r)'
  <1>0. /\ Lists /\ StoresOK(store) /\ MarksOK(suppressed) /\ WarmOK(warm) /\ ExtractOK(extract)
        /\ purges \subseteq Withdrawals
        /\ OnItsWayOut(i, r) /\ NotComingBack(i, r) /\ RowFollows(r)
        /\ DOMAIN warm = Instances /\ DOMAIN store = Instances /\ DOMAIN suppressed = Instances
        /\ DOMAIN extract = Runs /\ warm[i].items \in Seq(Runs)
    BY DEF CasesInv, CasesTyped, StoresOK, MarksOK, WarmOK, ExtractOK
  <1>1. CASE WarmList(j)
    <2>1. UNCHANGED <<store, suppressed, late, extract, purges, rows, marked, loose>>
      BY <1>1 DEF WarmList
    <2>2. RowFollows(r)'
      BY <1>0, <2>1 DEF RowFollows
    <2>3. /\ Known(i, r)' <=> Known(i, r)
          /\ Pending(i, r)' <=> Pending(i, r)
          /\ JustAdded(i, r)' <=> JustAdded(i, r)
          /\ Has(store[i], r)' <=> Has(store[i], r)
      BY <2>1 DEF Known, Pending, JustAdded
    <2>4. i # j => warm'[i] = warm[i]
      BY <1>0, <1>1 DEF WarmList
    <2>5. CASE i # j
      BY <1>0, <2>2, <2>3, <2>4, <2>5, SameCase
    <2>6. CASE i = j
      <3>1. warm[i].stage = "list"
        BY <1>1, <2>6 DEF WarmList
      <3> QED
        BY <1>0, <2>2, <2>3, <3>1 DEF OnItsWayOut, NotComingBack, Coming, SweptOut
    <2> QED
      BY <2>5, <2>6
  <1>2. CASE WarmMarks(j)
    <2> DEFINE known == SubSeq(marked, 1, IF Len(marked) < CaseCacheSize THEN Len(marked)
                                          ELSE CaseCacheSize)
               some == {q \in Runs : ~Holds(known, q)}
               items == Only(warm[j].items, some)
               x == [stage |-> "replace", items |-> items]
               y == [warm[j] EXCEPT !.stage = "replace"]
               new == MarkAll(suppressed[j], known)
    <2>1. UNCHANGED <<store, late, extract, purges, rows, marked, loose>> /\ warm[j].stage = "marks"
      BY <1>2 DEF WarmMarks
    <2>2. RowFollows(r)'
      BY <1>0, <2>1 DEF RowFollows
    <2>3. /\ Pending(i, r)' <=> Pending(i, r)
          /\ JustAdded(i, r)' <=> JustAdded(i, r)
          /\ Has(store[i], r)' <=> Has(store[i], r)
      BY <2>1 DEF Pending, JustAdded
    <2>4. \/ suppressed' = [suppressed EXCEPT ![j] = new] /\ warm' = [warm EXCEPT ![j] = x]
          \/ warm' = [warm EXCEPT ![j] = y] /\ UNCHANGED suppressed
      BY <1>2 DEF WarmMarks
    <2> HIDE DEF x, y, new, known
    <2>5. CASE i # j
      <3>1. warm'[i] = warm[i] /\ suppressed'[i] = suppressed[i]
        BY <1>0, <2>4, <2>5
      <3>2. Known(i, r)' <=> Known(i, r)
        BY <2>1, <3>1 DEF Known
      <3> QED
        BY <1>0, <2>2, <2>3, <3>1, <3>2, SameCase
    <2>6. CASE i = j /\ warm' = [warm EXCEPT ![j] = y] /\ UNCHANGED suppressed
      <3>1. warm'[i] = y /\ Known(i, r)' = Known(i, r)
        BY <1>0, <2>1, <2>6 DEF Known
      <3>2. warm[i].stage = "marks"
        BY <2>1, <2>6
      <3> QED
        BY <1>0, <2>2, <2>3, <2>6, <3>1, <3>2 DEF OnItsWayOut, NotComingBack, Coming, SweptOut
    <2>7. CASE i = j /\ suppressed' = [suppressed EXCEPT ![j] = new] /\ warm' = [warm EXCEPT ![j] = x]
      <3>1. warm'[i] = x /\ suppressed'[i] = new /\ warm[i].stage = "marks"
        BY <1>0, <2>1, <2>7
      <3>2. x.stage = "replace" /\ x.items = items
        BY DEF x
      <3>3. Holds(new, r) => Holds(suppressed[j], r) \/ Holds(known, r)
        <4>1. known \in Seq(Runs)
          <5>1. marked \in Seq(Runs)
            BY <1>0 DEF Lists
          <5> QED
            BY <5>1, CaseCacheSizeIs DEF known
        <4>2. suppressed[j] \in Marks
          BY <1>0 DEF MarksOK
        <4> QED
          BY <4>1, <4>2, MarkAllIs DEF new
      <3>4. Holds(items, r) => r \in some
        <4>1. items \in Seq(Runs) /\ Picked(items, warm[j].items, some)
          <5>1. warm[j].items \in Seq(Runs)
            BY <1>0, <2>7
          <5> HIDE DEF some
          <5> QED
            BY <5>1, OnlyPicks
        <4> HIDE DEF items, some
        <4>2. ASSUME NEW n \in DOMAIN items, items[n] = r
              PROVE  r \in some
          <5>1. n \in 1..Len(items)
            BY <4>1
          <5> QED
            BY <4>1, <4>2, <5>1 DEF Picked
        <4> QED
          BY <4>2 DEF Holds
      <3>5. Holds(known, r) => ~Holds(items, r)
        BY <3>4
      <3> HIDE DEF items
      <3>6. Coming(i, r)' /\ Known(i, r)' => Known(i, r) /\ Coming(i, r)
        BY <2>1, <2>7, <3>1, <3>2, <3>3, <3>5 DEF Coming, Known
      <3>7. Known(i, r)' => Known(i, r) \/ SweptOut(i, r)'
        BY <2>1, <2>7, <3>1, <3>2, <3>3, <3>5 DEF SweptOut, Known
      <3>8. ~SweptOut(i, r)
        BY <3>1 DEF SweptOut
      <3> QED
        BY <1>0, <2>2, <2>3, <3>6, <3>7, <3>8 DEF OnItsWayOut, NotComingBack
    <2> QED
      BY <2>4, <2>5, <2>6, <2>7
  <1>3. CASE WarmReplace(j)
    <2>1. PICK vec \in BOOLEAN :
            store' = [store EXCEPT ![j] = Replace(@,
                  [n \in DOMAIN warm[j].items |-> [item |-> warm[j].items[n], vec |-> vec]])]
      BY <1>3 DEF WarmReplace
    <2> DEFINE items == warm[j].items
               entries == [n \in DOMAIN items |-> [item |-> items[n], vec |-> vec]]
               new == Replace(store[j], entries)
    <2>2. UNCHANGED <<suppressed, late, extract, purges, rows, marked, loose>>
          /\ warm[j].stage = "replace" /\ warm' = [warm EXCEPT ![j] = Idle]
      BY <1>3 DEF WarmReplace
    <2>3. /\ Pending(i, r)' <=> Pending(i, r)
          /\ JustAdded(i, r)' <=> JustAdded(i, r)
          /\ Known(i, r)' <=> Known(i, r)
      BY <2>2 DEF Pending, JustAdded, Known
    <2>4. RowFollows(r)'
      BY <1>0, <2>2 DEF RowFollows
    <2>5. CASE i # j
      <3>1. warm'[i] = warm[i] /\ store'[i] = store[i]
        BY <1>0, <2>1, <2>2, <2>5
      <3>2. Has(store[i], r)' => Has(store[i], r)
        BY <3>1
      <3> QED
        BY <1>0, <2>3, <2>4, <3>1, <3>2, SameCase
    <2>6. CASE i = j
      <3>0. items \in Seq(Runs)
        BY <1>0, <2>6
      <3> HIDE DEF items
      <3>1. /\ Len(items) \in Nat /\ DOMAIN items = 1..Len(items)
            /\ \A n \in 1..Len(items) : [item |-> items[n], vec |-> vec] \in [item : Runs, vec : BOOLEAN]
        BY <3>0
      <3>2. entries \in Seq([item : Runs, vec : BOOLEAN]) /\ Len(entries) = Len(items)
        BY <3>1
      <3>3. \A n \in 1..Len(entries) : n \in DOMAIN items /\ entries[n].item = items[n]
        BY <3>1, <3>2
      <3>4. CacheOK(store[j], Runs, CaseCacheSize, SymptomOf)
        BY <1>0 DEF StoresOK
      <3>5. store'[i] = new
        BY <1>0, <2>1, <2>6 DEF items
      <3> HIDE DEF entries
      <3>6. HasOnlyOf(new, entries)
        BY <3>2, <3>4, ReplaceCache, CaseCacheSizeIs
      <3> HIDE DEF new
      <3>7. Has(store[i], r)' => Holds(items, r)
        <4>1. Has(store'[i], r) => Holds(items, r)
          BY <3>3, <3>5, <3>6 DEF Holds, HasOnlyOf
        <4> QED
          BY <4>1
      <3>8. Holds(items, r) => Coming(i, r)
        BY <2>2, <2>6 DEF Coming, items
      <3>9. ~Coming(i, r)'
        <4>1. warm'[i] = Idle
          BY <1>0, <2>2, <2>6
        <4> QED
          BY <4>1 DEF Coming, Idle
      <3> QED
        BY <1>0, <2>3, <2>4, <3>7, <3>8, <3>9 DEF OnItsWayOut, NotComingBack
    <2> QED
      BY <2>5, <2>6
  <1>4. CASE Restart(j)
    <2>1. /\ UNCHANGED <<rows, marked>>
          /\ store' = [store EXCEPT ![j] = CaseStore]
          /\ suppressed' = [suppressed EXCEPT ![j] = NewBoundedStringSet]
          /\ extract' = [q \in Runs |-> IF extract[q].at = j THEN Over ELSE extract[q]]
          /\ purges' = {p \in purges : p.at # j}
          /\ late' = {pair \in late : pair[1] # j}
      BY <1>4 DEF Restart
    <2>2. /\ loose \subseteq loose'
          /\ \A p \in purges : p.at = j => p.run \in loose'
          /\ extract[r].at = j /\ extract[r].stage = "created" /\ Holds(marked, r) => r \in loose'
      BY <1>4 DEF Restart
    <2>3. RowFollows(r)'
      <3>1. extract'[r] = IF extract[r].at = j THEN Over ELSE extract[r]
        BY <2>1
      <3>2. \A p \in purges : p.at # j => p \in purges'
        BY <2>1
      <3>3. CASE Holds(marked, r) /\ r \in rows /\ r \notin loose'
        <4>1. r \notin loose
          BY <2>2, <3>3
        <4>2. CASE extract[r].stage = "created"
          <5>1. extract[r].at # j
            BY <2>2, <3>3, <4>2
          <5> QED
            BY <3>1, <4>2, <5>1 DEF RowFollows
        <4>3. ASSUME NEW p \in purges, p.run = r
              PROVE  RowFollows(r)'
          <5>1. p.at # j
            BY <2>2, <3>3, <4>3
          <5> QED
            BY <3>2, <4>3, <5>1 DEF RowFollows
        <4> QED
          BY <1>0, <3>3, <4>1, <4>2, <4>3 DEF RowFollows
      <3>4. CASE ~(Holds(marked, r) /\ r \in rows /\ r \notin loose')
        BY <2>1, <3>4 DEF RowFollows
      <3> QED
        BY <3>3, <3>4
    <2>4. CASE i = j
      <3>1. ~Holds(suppressed'[i], r)
        BY <1>0, <2>1, <2>4 DEF Holds, NewBoundedStringSet
      <3> QED
        BY <2>3, <3>1 DEF OnItsWayOut, NotComingBack, Known
    <2>5. CASE i # j
      <3>1. store'[i] = store[i] /\ suppressed'[i] = suppressed[i]
        BY <1>0, <2>1, <2>5
      <3>2. warm'[i] = warm[i]
        BY <1>0, <1>4, <2>5 DEF Restart
      <3>3. Pending(i, r) => Pending(i, r)'
        BY <2>1, <2>5 DEF Pending
      <3>4. JustAdded(i, r) => JustAdded(i, r)'
        BY <2>1, <2>5 DEF JustAdded
      <3>5. <<i, r>> \in late' <=> <<i, r>> \in late
        BY <2>1, <2>5
      <3>6. Known(i, r)' => Known(i, r)
        BY <3>1, <3>5 DEF Known
      <3>7. Has(store[i], r)' => Has(store[i], r)
        BY <3>1
      <3> QED
        BY <1>0, <2>3, <3>2, <3>3, <3>4, <3>6, <3>7, SameCase
    <2> QED
      BY <2>4, <2>5
  <1> QED
    BY <1>1, <1>2, <1>3, <1>4

LEMMA CasesInvNext ==
  ASSUME CaseConstants, CasesInv, [CasesNext]_cvars
  PROVE  CasesInv'
  <1>1. CasesTyped'
    BY CasesTypedNext DEF CasesInv
  <1> DEFINE Goal(i, r) == /\ OnItsWayOut(i, r)' /\ NotComingBack(i, r)'
                           /\ RowFollows(r)'
  <1>2. ASSUME NEW i \in Instances, NEW r \in Runs
        PROVE  Goal(i, r)
    <2>1. CASE UNCHANGED cvars
      <3>1. OnItsWayOut(i, r) /\ NotComingBack(i, r) /\ RowFollows(r)
        BY DEF CasesInv
      <3> QED
        BY <2>1, <3>1 DEF cvars, OnItsWayOut, NotComingBack, RowFollows, Pending, JustAdded,
                          SweptOut, Coming, Known
    <2>2. ASSUME NEW j \in Instances, NEW s \in Runs, SubmitRunFeedback(j, s) \/ ManagementDelete(j, s)
          PROVE  Goal(i, r)
      BY <2>2, VerdictKeeps
    <2>3. ASSUME NEW s \in Runs, ExtractStep(s)
          PROVE  Goal(i, r)
      BY <2>3, ExtractKeeps
    <2>4. ASSUME NEW p \in purges, SuppressRun(p) \/ RemoveFromStore(p) \/ DeleteDiagnosisCaseByRunID(p)
          PROVE  Goal(i, r)
      BY <2>4, PurgeKeeps
    <2>5. ASSUME NEW j \in Instances, WarmList(j) \/ WarmMarks(j) \/ WarmReplace(j) \/ Restart(j)
          PROVE  Goal(i, r)
      BY <2>5, WarmKeeps
    <2> QED
      BY <2>1, <2>2, <2>3, <2>4, <2>5 DEF CasesNext
  <1>3. \A i \in Instances, r \in Runs : OnItsWayOut(i, r)' /\ NotComingBack(i, r)'
    BY <1>2
  <1>4. \A r \in Runs : RowFollows(r)'
    <2> TAKE r \in Runs
    <2>1. HomeOf[r] \in Instances
      BY DEF CaseConstants
    <2> QED
      BY <1>2, <2>1
  <1> QED
    BY <1>1, <1>3, <1>4 DEF CasesInv

\* The types of what the instances and the table hold of the cases, whichever
\* verdicts, warm-ups, extractions and restarts interleave
\* (case_library.go, run_feedback.go).
THEOREM CasesTypeCorrect == CasesSpec => []CasesTypeOK
  <1>1. CasesInit => CasesTyped
    BY CaseConstants, CasesTypedInit
  <1>2. CasesTyped /\ [CasesNext]_cvars => CasesTyped'
    BY CaseConstants, CasesTypedNext
  <1>3. CasesTyped => CasesTypeOK
    BY CaseConstants, CasesTypedGives
  <1> QED
    BY <1>1, <1>2, <1>3, PTL DEF CasesSpec

LEMMA VerdictsFollow ==
  ASSUME CaseConstants, CasesInv
  PROVE  VerdictsHold
  <1>1. WithdrawnStaysOut
    <2> SUFFICES ASSUME CasesQuiet, NEW i \in Instances, NEW r \in Runs,
                        Holds(suppressed[i], r), <<i, r>> \notin late,
                        NEW q \in Queries, NEW embedded \in BOOLEAN, r \in FewShot(i, q, embedded)
                 PROVE  FALSE
      BY DEF WithdrawnStaysOut
    <2>1. CacheOK(store[i], Runs, CaseCacheSize, SymptomOf)
      BY DEF CasesInv, CasesTyped, StoresOK
    <2>2. Has(store[i], r)
      BY <2>1, PromptIsOfStore
    <2>3. OnItsWayOut(i, r)
      BY DEF CasesInv
    <2>4. Known(i, r) /\ ~Pending(i, r) /\ ~JustAdded(i, r) /\ ~SweptOut(i, r)
      BY DEF CasesQuiet, Known, Pending, JustAdded, SweptOut
    <2> QED
      BY <2>2, <2>3, <2>4 DEF OnItsWayOut
  <1>2. RowsFollowVerdict
    BY DEF RowsFollowVerdict, CasesQuiet, CasesInv, RowFollows
  <1> QED
    BY <1>1, <1>2 DEF VerdictsHold

\* A run found not useful has left the prompts of every instance that knows
\* of it and the table, whatever interleaved, but for the causes named.
THEOREM NegativeVerdictsHold == CasesSpec => []VerdictsHold
  <1>1. CasesInit => CasesInv
    BY CaseConstants, CasesInvInit
  <1>2. CasesInv /\ [CasesNext]_cvars => CasesInv'
    BY CaseConstants, CasesInvNext
  <1>3. CasesInv => VerdictsHold
    BY CaseConstants, VerdictsFollow
  <1> QED
    BY <1>1, <1>2, <1>3, PTL DEF CasesSpec

------------------------------------------------------------------------------
(* Route learning.                                                          *)

-----------------------------------------------------------------------------
(* Fractions with a positive denominator.                                   *)

Fractions == [num : Int, den : Nat \ {0}]

LEMMA Times ==
  ASSUME NEW a \in Int, NEW b \in Int, NEW k \in Nat \ {0}
  PROVE  /\ a > b <=> a * k > b * k
         /\ a >= b => a * k >= b * k
         /\ a = b => a * k = b * k
  <1>1. a > b => a * k > b * k
    OBVIOUS
  <1>2. a <= b => a * k <= b * k
    OBVIOUS
  <1>3. a * k \in Int /\ b * k \in Int
    OBVIOUS
  <1> QED
    BY <1>1, <1>2, <1>3

\* Above compares the numerators over a common denominator.
LEMMA AboveIs ==
  ASSUME NEW c \in Fractions, NEW d \in Fractions, NEW k \in Nat \ {0}
  PROVE  Above(c, d) <=> c.num * d.den * k > d.num * c.den * k
  <1> DEFINE a == c.num * d.den
             b == d.num * c.den
  <1>1. c.num \in Int /\ c.den \in Nat \ {0} /\ d.num \in Int /\ d.den \in Nat \ {0}
    BY DEF Fractions
  <1>2. a \in Int /\ b \in Int
    BY <1>1
  <1>3. Above(c, d) <=> a > b
    BY DEF Above
  <1> HIDE DEF a, b
  <1>4. a > b <=> a * k > b * k
    BY <1>2, Times
  <1> QED
    BY <1>3, <1>4 DEF a, b

LEMMA AboveOrders ==
  ASSUME NEW c \in Fractions, NEW d \in Fractions, NEW e \in Fractions
  PROVE  /\ ~Above(c, c)
         /\ ~(Above(c, d) /\ Above(d, c))
         /\ Above(c, d) /\ ~Above(e, d) => Above(c, e)
         /\ ~Above(d, c) /\ Above(d, e) => Above(c, e)
         /\ ~Above(d, c) /\ ~Above(e, d) => ~Above(e, c)
  <1> DEFINE x == c.num * d.den * e.den
             y == d.num * c.den * e.den
             z == e.num * c.den * d.den
  <1>1. /\ c.num \in Int /\ c.den \in Nat \ {0} /\ d.num \in Int /\ d.den \in Nat \ {0}
        /\ e.num \in Int /\ e.den \in Nat \ {0}
    BY DEF Fractions
  <1>2. (Above(c, d) <=> x > y) /\ (Above(d, c) <=> y > x)
    BY <1>1, AboveIs
  <1>3. (Above(c, e) <=> x > z) /\ (Above(e, c) <=> z > x)
    <2>1. (Above(c, e) <=> c.num * e.den * d.den > e.num * c.den * d.den)
          /\ (Above(e, c) <=> e.num * c.den * d.den > c.num * e.den * d.den)
      BY <1>1, AboveIs
    <2>2. c.num * e.den * d.den = c.num * d.den * e.den
      BY <1>1
    <2> QED
      BY <2>1, <2>2
  <1>4. (Above(d, e) <=> y > z) /\ (Above(e, d) <=> z > y)
    <2>1. (Above(d, e) <=> d.num * e.den * c.den > e.num * d.den * c.den)
          /\ (Above(e, d) <=> e.num * d.den * c.den > d.num * e.den * c.den)
      BY <1>1, AboveIs
    <2>2. d.num * e.den * c.den = y /\ e.num * d.den * c.den = z
      BY <1>1
    <2> QED
      BY <2>1, <2>2
  <1>5. x \in Int /\ y \in Int /\ z \in Int
    BY <1>1
  <1> HIDE DEF x, y, z
  <1>6. ~Above(c, c)
    BY <1>1 DEF Above
  <1> QED
    BY <1>2, <1>3, <1>4, <1>5, <1>6
-----------------------------------------------------------------------------
(* Corrections: within one half, either way.                               *)

Small == {d \in Fractions : 2 * d.num <= d.den /\ 2 * d.num >= -d.den}

LEMMA CorrectedIs ==
  ASSUME NEW v \in 0..100, NEW d \in Small
  PROVE  /\ Corrected(v, d) \in Fractions /\ Corrected(v, d).den = d.den
         /\ Corrected(v, d).num >= 0
         /\ Corrected(v, d).num <= (v + 15) * d.den
         /\ v >= 15 => Corrected(v, d).num >= (v - 15) * d.den
         /\ d.num = 0 => Corrected(v, d).num = v * d.den
  <1> DEFINE n == d.num
             k == d.den
             moved == v * k + 30 * n
             c == Corrected(v, d)
  <1>1. n \in Int /\ k \in Nat \ {0} /\ 2 * n <= k /\ 2 * n >= -k
    BY DEF Small, Fractions
  <1>2. c = [num |-> IF moved < 0 THEN 0 ELSE IF moved > 100 * k THEN 100 * k ELSE moved, den |-> k]
    BY DEF Corrected
  <1> DEFINE p == v * k
  <1>3. p \in Int /\ p >= 0 /\ p <= 100 * k
    <2>1. v \in Int /\ 0 \in Int /\ 100 \in Int
      OBVIOUS
    <2>2. p \in Int
      BY <1>1
    <2>3. 0 * k <= v * k
      BY <1>1, <2>1, Times
    <2>4. v * k <= 100 * k
      BY <1>1, <2>1, Times
    <2> QED
      BY <1>1, <2>2, <2>3, <2>4
  <1>4. moved = p + 30 * n /\ (v + 15) * k = p + 15 * k /\ (v - 15) * k = p - 15 * k
    BY <1>1
  <1>5. v >= 15 => p >= 15 * k
    <2>1. v \in Int /\ 15 \in Int
      OBVIOUS
    <2> QED
      BY <1>1, <2>1, Times
  <1> HIDE DEF n, k, p
  <1> DEFINE w == IF p + 30 * n < 0 THEN 0 ELSE IF p + 30 * n > 100 * k THEN 100 * k ELSE p + 30 * n
  <1>6. c = [num |-> w, den |-> k]
    BY <1>2, <1>4
  <1>7. /\ w \in Int /\ w >= 0 /\ w <= p + 15 * k
        /\ v >= 15 => w >= p - 15 * k
        /\ n = 0 => w = p
    BY <1>1, <1>3, <1>5
  <1> HIDE DEF w, c
  <1>8. c \in Fractions /\ c.num = w /\ c.den = k
    BY <1>1, <1>6, <1>7 DEF Fractions
  <1> QED
    BY <1>1, <1>4, <1>7, <1>8 DEF c, n, k, p
-----------------------------------------------------------------------------
(* The order of candidates is a strict order of the places of the list.    *)

Outranks(confidence, t, u) ==
  IF t \in Available <=> u \in Available THEN Above(confidence[t], confidence[u]) ELSE t \in Available

LEMMA OutranksOrders ==
  ASSUME NEW confidence \in [Types -> Fractions], NEW t \in Types, NEW u \in Types, NEW v \in Types
  PROVE  /\ ~Outranks(confidence, t, t)
         /\ ~(Outranks(confidence, t, u) /\ Outranks(confidence, u, t))
         /\ Outranks(confidence, t, u) /\ ~Outranks(confidence, v, u) => Outranks(confidence, t, v)
         /\ ~Outranks(confidence, u, t) /\ Outranks(confidence, u, v) => Outranks(confidence, t, v)
         /\ ~Outranks(confidence, u, t) /\ ~Outranks(confidence, v, u) => ~Outranks(confidence, v, t)
  <1> DEFINE c == confidence[t]
             d == confidence[u]
             e == confidence[v]
  <1>1. c \in Fractions /\ d \in Fractions /\ e \in Fractions
    OBVIOUS
  <1> HIDE DEF c, d, e
  <1>2. /\ ~Above(c, c) /\ ~(Above(c, d) /\ Above(d, c))
        /\ Above(c, d) /\ ~Above(e, d) => Above(c, e)
        /\ ~Above(d, c) /\ Above(d, e) => Above(c, e)
        /\ ~Above(d, c) /\ ~Above(e, d) => ~Above(e, c)
    BY <1>1, AboveOrders
  <1> QED
    BY <1>2 DEF Outranks, c, d, e

LEMMA PrecedesIs ==
  ASSUME NEW listed, NEW confidence, NEW m, NEW n
  PROVE  Precedes(listed, confidence, m, n) <=>
           \/ Outranks(confidence, listed[m], listed[n])
           \/ ~Outranks(confidence, listed[n], listed[m]) /\ m < n
  BY DEF Precedes, Outranks

Order(listed, confidence) ==
  {p \in (DOMAIN listed) \X (DOMAIN listed) :
     \/ Outranks(confidence, listed[p[1]], listed[p[2]])
     \/ ~Outranks(confidence, listed[p[2]], listed[p[1]]) /\ p[1] < p[2]}

LEMMA OrderIs ==
  ASSUME NEW listed \in Seq(Types), NEW confidence \in [Types -> Fractions]
  PROVE  /\ Ordered(DOMAIN listed, Order(listed, confidence))
         /\ \A m, n \in DOMAIN listed :
              <<m, n>> \in Order(listed, confidence) <=> Precedes(listed, confidence, m, n)
  <1> DEFINE D == DOMAIN listed
             R == Order(listed, confidence)
             O(m, n) == Outranks(confidence, listed[m], listed[n])
  <1>1. \A m, n \in D : <<m, n>> \in R <=> Precedes(listed, confidence, m, n)
    <2> TAKE m, n \in D
    <2> DEFINE before(k, l) == \/ Outranks(confidence, listed[k], listed[l])
                               \/ ~Outranks(confidence, listed[l], listed[k]) /\ k < l
    <2>1. Precedes(listed, confidence, m, n) <=> before(m, n)
      BY PrecedesIs
    <2>2. R = {p \in D \X D : before(p[1], p[2])}
      BY DEF Order
    <2>3. <<m, n>> \in R <=> before(m, n)
      <3> HIDE DEF R, D
      <3> QED
        BY <2>2
    <2> QED
      BY <2>1, <2>3
  <1>2. \A n \in D : n \in Nat /\ listed[n] \in Types
    OBVIOUS
  <1>3. \A m, n \in D : <<m, n>> \in R <=> (O(m, n) \/ (~O(n, m) /\ m < n))
    BY <1>1, PrecedesIs
  <1>4. ASSUME NEW l \in D, NEW m \in D, NEW n \in D
        PROVE  /\ ~O(l, l) /\ ~(O(l, m) /\ O(m, l))
               /\ O(l, m) /\ ~O(n, m) => O(l, n)
               /\ ~O(m, l) /\ O(m, n) => O(l, n)
               /\ ~O(m, l) /\ ~O(n, m) => ~O(n, l)
    BY <1>2, OutranksOrders
  <1> HIDE DEF R, D, O
  <1>5. \A m \in D : <<m, m>> \notin R
    BY <1>2, <1>3, <1>4
  <1>6. \A m, n \in D : m # n => <<m, n>> \in R \/ <<n, m>> \in R
    BY <1>2, <1>3
  <1>7. ASSUME NEW l \in D, NEW m \in D, NEW n \in D, <<l, m>> \in R, <<m, n>> \in R
        PROVE  <<l, n>> \in R
    <2>1. (O(l, m) \/ (~O(m, l) /\ l < m)) /\ (O(m, n) \/ (~O(n, m) /\ m < n))
      BY <1>3, <1>7
    <2>2. l \in Nat /\ m \in Nat /\ n \in Nat
      BY <1>2
    <2>3. CASE O(l, m)
      <3>1. ~O(n, m)
        BY <1>4, <2>1
      <3> QED
        BY <1>3, <1>4, <2>3, <3>1
    <2>4. CASE O(m, n)
      <3>1. ~O(m, l)
        BY <1>4, <2>1
      <3> QED
        BY <1>3, <1>4, <2>4, <3>1
    <2>5. CASE ~O(l, m) /\ ~O(m, n)
      <3>1. ~O(m, l) /\ ~O(n, m) /\ l < n
        BY <2>1, <2>2, <2>5
      <3>2. ~O(n, l)
        BY <1>4, <3>1
      <3> QED
        BY <1>3, <3>1, <3>2
    <2> QED
      BY <2>3, <2>4, <2>5
  <1>8. Ordered(D, R)
    BY <1>5, <1>6, <1>7 DEF Ordered
  <1> QED
    BY <1>1, <1>8 DEF D, R

\* The first in the order, and it can be run if anything can.
LEMMA FirstIs ==
  ASSUME NEW listed \in Seq(Types), NEW confidence \in [Types -> Fractions],
         NEW a \in DOMAIN listed, listed[a] \in Available
  PROVE  /\ \E n \in DOMAIN listed : \A m \in DOMAIN listed \ {n} : Precedes(listed, confidence, n, m)
         /\ \A n \in DOMAIN listed :
              (\A m \in DOMAIN listed \ {n} : Precedes(listed, confidence, n, m))
              => /\ listed[n] \in Available
                 /\ \A t \in Available : (\E m \in DOMAIN listed : listed[m] = t)
                                         => ~Above(confidence[t], confidence[listed[n]])
  <1> DEFINE D == DOMAIN listed
             R == Order(listed, confidence)
             first(n) == \A m \in D \ {n} : Precedes(listed, confidence, n, m)
  <1>1. Ordered(D, R) /\ \A m, n \in D : <<m, n>> \in R <=> Precedes(listed, confidence, m, n)
    BY OrderIs
  <1>2. D = 1..Len(listed) /\ Len(listed) \in Nat /\ \A n \in D : listed[n] \in Types
    OBVIOUS
  <1>3. IsFiniteSet(D)
    BY <1>2, FS_Interval
  <1>4. Cardinality(D) \in Nat /\ 1 \in 1..Cardinality(D)
    <2>1. Cardinality(D) = IF 1 > Len(listed) THEN 0 ELSE Len(listed) - 1 + 1
      BY <1>2, FS_Interval
    <2>2. Len(listed) >= 1
      BY <1>2
    <2> HIDE DEF D
    <2> QED
      BY <1>2, <2>1, <2>2
  <1>5. \E n \in D : first(n)
    <2>0. \A k \in 1..Cardinality(D) : \E n \in D : Cardinality(Ahead(D, R, n)) + 1 = k
      <3> HIDE DEF D, R
      <3> QED
        BY <1>1, <1>3, RankIs
    <2>1. PICK n \in D : Cardinality(Ahead(D, R, n)) + 1 = 1
      <3> HIDE DEF D, R
      <3> QED
        BY <2>0, <1>4
    <2> DEFINE S == Ahead(D, R, n)
    <2>2. S \in SUBSET D
      BY DEF Ahead
    <2>3. IsFiniteSet(S) /\ Cardinality(S) \in Nat
      <3> HIDE DEF S, D
      <3> QED
        BY <1>3, <2>2, FS_Subset, FS_CardinalityType
    <2>4. Cardinality(S) = 0
      BY <2>1, <2>3
    <2>5. S = {}
      <3> HIDE DEF S
      <3> QED
        BY <2>3, <2>4, FS_EmptySet
    <2>6. ASSUME NEW m \in D \ {n}
          PROVE  Precedes(listed, confidence, n, m)
      <3>1. <<m, n>> \notin R
        BY <2>5 DEF Ahead
      <3>2. <<n, m>> \in R
        BY <1>1, <3>1 DEF Ordered
      <3> QED
        BY <1>1, <3>2
    <2> QED
      BY <2>6
  <1>6. ASSUME NEW n \in D, first(n), NEW m \in D, listed[m] \in Available
        PROVE  /\ listed[n] \in Available
               /\ ~Above(confidence[listed[m]], confidence[listed[n]])
    <2>1. CASE m = n
      <3>1. confidence[listed[n]] \in Fractions
        BY <1>2
      <3>2. ~Above(confidence[listed[n]], confidence[listed[n]])
        BY <3>1, AboveOrders
      <3> QED
        BY <1>6, <2>1, <3>2
    <2>2. CASE m # n
      <3>1. Precedes(listed, confidence, n, m)
        BY <1>6, <2>2
      <3>2. \/ Outranks(confidence, listed[n], listed[m])
            \/ ~Outranks(confidence, listed[m], listed[n])
        BY <3>1, PrecedesIs
      <3>3. ~(Outranks(confidence, listed[n], listed[m]) /\ Outranks(confidence, listed[m], listed[n]))
        <4>1. listed[n] \in Types /\ listed[m] \in Types
          BY <1>2
        <4> QED
          BY <4>1, OutranksOrders
      <3>4. ~Outranks(confidence, listed[m], listed[n])
        BY <3>2, <3>3
      <3> QED
        BY <1>6, <3>4 DEF Outranks
    <2> QED
      BY <2>1, <2>2
  <1> HIDE DEF D, first
  <1>7. \A n \in D : first(n) => listed[n] \in Available
    <2>1. a \in D
      BY DEF D
    <2> QED
      BY <1>6, <2>1
  <1>8. \A n \in D : first(n) => \A m \in D : listed[m] \in Available
                                    => ~Above(confidence[listed[m]], confidence[listed[n]])
    BY <1>6
  <1>9. \A n \in D : first(n) => \A t \in Available :
            (\E m \in D : listed[m] = t) => ~Above(confidence[t], confidence[listed[n]])
    BY <1>8
  <1> QED
    BY <1>5, <1>7, <1>9 DEF D, first
-----------------------------------------------------------------------------
(* The rule.                                                                *)

LEMMA BaseIs ==
  ASSUME RouteConstants, NEW q \in Questions, NEW t \in Types
  PROVE  BaseConfidence[q][t] \in 0..100
  <1> DEFINE score == ScoreOf[q][t]
             x == score - 25
             S == {0, x}
             top == Max(S)
  <1>1. score \in 0..100
    <2>1. ScoreOf \in [Questions -> [Types -> 0..100]]
      BY DEF RouteConstants
    <2> QED
      BY <2>1
  <1> HIDE DEF score
  <1>2. x \in Int /\ x <= 75
    BY <1>1
  <1> HIDE DEF x
  <1>3. Max(S) \in S /\ \A y \in S : Max(S) >= y
    <2>1. \E z \in S : \A y \in S : z >= y
      <3>1. 0 \in S /\ x \in S
        OBVIOUS
      <3>2. CASE x >= 0
        BY <1>2, <3>1, <3>2
      <3>3. CASE x < 0
        BY <1>2, <3>1, <3>3
      <3> QED
        BY <1>2, <3>2, <3>3
    <2> HIDE DEF S
    <2> QED
      BY <2>1 DEF Max
  <1>4. top \in 0..100
    <2>1. top \in S /\ 0 \in S
      BY <1>3
    <2>2. top >= 0
      BY <1>3, <2>1
    <2>3. top = 0 \/ top = x
      BY <2>1
    <2> HIDE DEF top, S
    <2>4. CASE top = 0
      BY <2>4
    <2>5. CASE top = x
      BY <1>2, <2>2, <2>5
    <2> QED
      BY <2>3, <2>4, <2>5
  <1>5. BaseConfidence[q][t] = IF t \in Available THEN score ELSE top
    BY DEF BaseConfidence, x, score
  <1> HIDE DEF top
  <1> QED
    BY <1>1, <1>4, <1>5

Corrs == [Types -> Small]

LEMMA UncalibratedIs == Uncalibrated \in Corrs /\ NoDelta \in Small /\ NoDelta.num = 0 /\ NoDelta.den = 1
  BY DEF Uncalibrated, NoDelta, Corrs, Small, Fractions

LEMMA ConfidencesAre ==
  ASSUME RouteConstants, NEW q \in Questions, NEW correction \in Corrs
  PROVE  /\ Confidences(q, correction) \in [Types -> Fractions]
         /\ \A t \in Types : Confidences(q, correction)[t] = Corrected(BaseConfidence[q][t], correction[t])
  <1>1. ASSUME NEW t \in Types
        PROVE  Corrected(BaseConfidence[q][t], correction[t]) \in Fractions
    <2>1. BaseConfidence[q][t] \in 0..100 /\ correction[t] \in Small
      BY BaseIs DEF Corrs
    <2> QED
      BY <2>1, CorrectedIs
  <1> QED
    BY <1>1 DEF Confidences

LEMMA AgentsAre ==
  ASSUME RouteConstants
  PROVE  /\ AgentList \in Seq(Types) /\ \A t \in Types : \E n \in DOMAIN AgentList : AgentList[n] = t
         /\ \E a \in DOMAIN AgentList : AgentList[a] \in Available
         /\ Available \subseteq Types
         /\ 1 \in DOMAIN AgentList
  <1>1. /\ AgentList \in Seq(Types) /\ {AgentList[n] : n \in DOMAIN AgentList} = Types
        /\ Available \subseteq Types /\ Available # {}
    BY DEF RouteConstants
  <1>2. \A t \in Types : \E n \in DOMAIN AgentList : AgentList[n] = t
    BY <1>1
  <1>3. PICK a \in DOMAIN AgentList : AgentList[a] \in Available
    BY <1>1, <1>2
  <1>4. 1 \in DOMAIN AgentList
    BY <1>1, <1>3
  <1> QED
    BY <1>1, <1>2, <1>3, <1>4

\* The rule's ranking lists every type, and first of all one that can be run.
LEMMA RankingIs ==
  ASSUME RouteConstants, NEW q \in Questions
  PROVE  /\ RankCandidatesBase[q] \in Seq(Types) /\ 1 \in DOMAIN RankCandidatesBase[q]
         /\ \A t \in Types : \E n \in DOMAIN RankCandidatesBase[q] : RankCandidatesBase[q][n] = t
         /\ RankCandidatesBase[q][1] \in Available
  <1> DEFINE D == DOMAIN AgentList
             confidence == Confidences(q, Uncalibrated)
             R == Order(AgentList, confidence)
             place(n) == Cardinality({m \in D : Precedes(AgentList, confidence, m, n)}) + 1
             nth(k) == CHOOSE n \in D : place(n) = k
             listed == RankCandidatesBase[q]
             N == Len(AgentList)
  <1>0. /\ AgentList \in Seq(Types) /\ \A t \in Types : \E n \in D : AgentList[n] = t
        /\ \E a \in D : AgentList[a] \in Available
        /\ Available \subseteq Types /\ 1 \in D
    BY AgentsAre
  <1>1. D = 1..N /\ N \in Nat /\ \A n \in D : AgentList[n] \in Types
    BY <1>0
  <1>2. confidence \in [Types -> Fractions]
    BY ConfidencesAre, UncalibratedIs
  <1>3. listed = [k \in D |-> AgentList[nth(k)]]
    BY DEF RankCandidatesBase
  <1> HIDE DEF confidence
  <1>4. Ordered(D, R) /\ \A m, n \in D : <<m, n>> \in R <=> Precedes(AgentList, confidence, m, n)
    BY <1>0, <1>2, OrderIs
  <1>5. IsFiniteSet(D) /\ Cardinality(D) = N
    <2> HIDE DEF D, N
    <2>1. IsFiniteSet(1..N) /\ Cardinality(1..N) = IF 1 > N THEN 0 ELSE N - 1 + 1
      BY <1>1, FS_Interval
    <2> QED
      BY <1>1, <2>1
  <1>6. /\ \A k \in D : \E n \in D : place(n) = k
        /\ \A n \in D : place(n) \in D
        /\ \A m, n \in D : place(m) = place(n) => m = n
    <2>1. \A n \in D : place(n) = Cardinality(Ahead(D, R, n)) + 1
      <3> TAKE n \in D
      <3>1. {m \in D : Precedes(AgentList, confidence, m, n)} = Ahead(D, R, n)
        <4> HIDE DEF R
        <4> QED
          BY <1>4 DEF Ahead
      <3> QED
        BY <3>1
    <2> HIDE DEF D, R, N, place
    <2>2. /\ \A k \in 1..Cardinality(D) : \E n \in D : Cardinality(Ahead(D, R, n)) + 1 = k
          /\ \A m, n \in D : Cardinality(Ahead(D, R, m)) = Cardinality(Ahead(D, R, n)) => m = n
          /\ \A n \in D : Cardinality(Ahead(D, R, n)) + 1 \in 1..Cardinality(D)
      BY <1>4, <1>5, RankIs
    <2>3. \A n \in D : Cardinality(Ahead(D, R, n)) \in Int
      <3> TAKE n \in D
      <3>1. Ahead(D, R, n) \in SUBSET D
        BY DEF Ahead
      <3> QED
        BY <1>5, <3>1, FS_Subset, FS_CardinalityType
    <2>4. 1..Cardinality(D) = D
      BY <1>1, <1>5
    <2>5. \A m, n \in D : place(m) = place(n) => m = n
      <3> TAKE m, n \in D
      <3>1. place(m) = Cardinality(Ahead(D, R, m)) + 1 /\ place(n) = Cardinality(Ahead(D, R, n)) + 1
            /\ Cardinality(Ahead(D, R, m)) \in Int /\ Cardinality(Ahead(D, R, n)) \in Int
        BY <2>1, <2>3
      <3>2. place(m) = place(n) => Cardinality(Ahead(D, R, m)) = Cardinality(Ahead(D, R, n))
        BY <3>1
      <3> QED
        BY <2>2, <3>2
    <2>6. \A k \in D : \E n \in D : place(n) = k
      BY <2>1, <2>2, <2>4
    <2>7. \A n \in D : place(n) \in D
      BY <2>1, <2>2, <2>4
    <2> QED
      BY <2>5, <2>6, <2>7
  <1> HIDE DEF place, listed, D
  <1>7. \A k \in D : nth(k) \in D /\ place(nth(k)) = k
    BY <1>6
  <1>8. \A n \in D : nth(place(n)) = n
    BY <1>6, <1>7
  <1> HIDE DEF nth
  <1>9. listed \in Seq(Types) /\ DOMAIN listed = D
    <2>1. listed \in [1..N -> Types]
      BY <1>1, <1>3, <1>7
    <2> HIDE DEF N
    <2>2. N \in Nat /\ D = 1..N
      BY <1>1
    <2>3. listed \in Seq(Types)
      BY <2>1, <2>2
    <2>4. DOMAIN listed = 1..N
      BY <2>1
    <2> QED
      BY <2>2, <2>3, <2>4
  <1>10. ASSUME NEW t \in Types
         PROVE  \E n \in DOMAIN listed : listed[n] = t
    <2>1. PICK n \in D : AgentList[n] = t
      BY <1>0
    <2>2. place(n) \in D /\ listed[place(n)] = t
      BY <1>3, <1>6, <1>8, <2>1
    <2> QED
      BY <1>9, <2>2
  <1>11. listed[1] \in Available
    <2> DEFINE n == nth(1)
    <2>1. n \in D /\ place(n) = 1 /\ listed[1] = AgentList[n]
      BY <1>0, <1>3, <1>7
    <2> HIDE DEF n
    <2>2. \A m \in D \ {n} : Precedes(AgentList, confidence, n, m)
      <3> DEFINE S == {m \in D : Precedes(AgentList, confidence, m, n)}
      <3>1. S \in SUBSET D
        OBVIOUS
      <3>2. IsFiniteSet(S) /\ Cardinality(S) \in Nat
        <4> HIDE DEF S
        <4> QED
          BY <1>5, <3>1, FS_Subset, FS_CardinalityType
      <3>3. Cardinality(S) = 0
        <4>1. Cardinality(S) + 1 = 1
          BY <2>1 DEF place
        <4> HIDE DEF S
        <4> QED
          BY <3>2, <4>1
      <3>4. S = {}
        <4> HIDE DEF S
        <4> QED
          BY <3>2, <3>3, FS_EmptySet
      <3> TAKE m \in D \ {n}
      <3>5. <<m, n>> \notin R
        <4>1. ~Precedes(AgentList, confidence, m, n)
          BY <3>4
        <4> HIDE DEF R
        <4> QED
          BY <1>4, <2>1, <4>1
      <3> HIDE DEF R
      <3>6. <<n, m>> \in R
        BY <1>4, <2>1, <3>5 DEF Ordered
      <3> QED
        BY <1>4, <2>1, <3>6
    <2>3. AgentList[n] \in Available
      <3>1. PICK a \in DOMAIN AgentList : AgentList[a] \in Available
        BY <1>0 DEF D
      <3> QED
        BY <1>0, <1>2, <2>1, <2>2, <3>1, FirstIs DEF D
    <2> QED
      BY <2>1, <2>3
  <1> QED
    BY <1>0, <1>9, <1>10, <1>11 DEF listed

LEMMA BestIs ==
  ASSUME RouteConstants, NEW q \in Questions, NEW correction \in Corrs
  PROVE  /\ BestCandidate(q, correction) \in Available
         /\ \A t \in Available :
              ~Above(Confidences(q, correction)[t], Confidences(q, correction)[BestCandidate(q, correction)])
  <1> DEFINE listed == RankCandidatesBase[q]
             confidence == Confidences(q, correction)
             first(n) == \A m \in DOMAIN listed \ {n} : Precedes(listed, confidence, n, m)
             best == CHOOSE n \in DOMAIN listed : first(n)
  <1>1. /\ listed \in Seq(Types) /\ 1 \in DOMAIN listed /\ listed[1] \in Available
        /\ \A t \in Types : \E n \in DOMAIN listed : listed[n] = t
        /\ Available \subseteq Types
    BY RankingIs, AgentsAre
  <1>2. confidence \in [Types -> Fractions]
    BY ConfidencesAre
  <1>3. BestCandidate(q, correction) = listed[best]
    BY DEF BestCandidate
  <1> HIDE DEF listed, confidence
  <1>4. /\ \E n \in DOMAIN listed : first(n)
        /\ \A n \in DOMAIN listed : first(n) =>
              /\ listed[n] \in Available
              /\ \A t \in Available : (\E m \in DOMAIN listed : listed[m] = t)
                                      => ~Above(confidence[t], confidence[listed[n]])
    BY <1>1, <1>2, FirstIs
  <1> HIDE DEF first
  <1>5. best \in DOMAIN listed /\ first(best)
    BY <1>4
  <1> HIDE DEF best
  <1>6. listed[best] \in Available /\ \A t \in Available : ~Above(confidence[t], confidence[listed[best]])
    BY <1>1, <1>4, <1>5
  <1> QED
    BY <1>3, <1>6 DEF confidence

-----------------------------------------------------------------------------
(* What was learnt only tips the questions the rule leaves open.            *)

LEMMA Product ==
  ASSUME NEW a \in Int, NEW b \in Int, NEW x \in Int, NEW y \in Int, a > b,
         NEW k \in Nat \ {0}, NEW l \in Nat \ {0}, x >= a * k, y <= b * l
  PROVE  x * l > y * k
  <1> DEFINE p == a * k
             q == b * l
             z == k * l
  <1>0. p \in Int /\ q \in Int /\ z \in Nat \ {0} /\ x >= p /\ q >= y
    OBVIOUS
  <1>1. p * l = a * z /\ q * k = b * z
    OBVIOUS
  <1>2. a * z > b * z
    <2> HIDE DEF z
    <2> QED
      BY <1>0, Times
  <1>3. x * l >= p * l
    <2> HIDE DEF p
    <2> QED
      BY <1>0, Times
  <1>4. q * k >= y * k
    <2> HIDE DEF q
    <2> QED
      BY <1>0, Times
  <1>5. a * z \in Int /\ b * z \in Int /\ x * l \in Int /\ y * k \in Int
    OBVIOUS
  <1> HIDE DEF p, q, z
  <1> QED
    BY <1>1, <1>2, <1>3, <1>4, <1>5

LEMMA KeywordIs ==
  ASSUME RouteConstants, NEW q \in Questions, NEW c \in Corrs
  PROVE  KeywordRoute(q, c) =
           RouteTo(IF AtLeast(Confidences(q, c)[BestCandidate(q, c)], LeastConfidence)
                   THEN BestCandidate(q, c) ELSE Assistant, "keyword")
  <1>1. BestCandidate(q, c) \in Types
    BY BestIs, AgentsAre
  <1>2. Confidences(q, c)[BestCandidate(q, c)] =
           Corrected(BaseConfidence[q][BestCandidate(q, c)], c[BestCandidate(q, c)])
    BY <1>1, ConfidencesAre
  <1> QED
    BY <1>2 DEF KeywordRoute

\* The confidence of a type is within 15 hundredths of what the rule gives it.
LEMMA NearBase ==
  ASSUME RouteConstants, NEW q \in Questions, NEW c \in Corrs, NEW t \in Types
  PROVE  LET v == BaseConfidence[q][t]
             x == Confidences(q, c)[t]
         IN  /\ v \in 0..100 /\ x.num \in Int /\ x.den \in Nat \ {0}
             /\ x.num <= (v + 15) * x.den
             /\ v >= 15 => x.num >= (v - 15) * x.den
  <1> DEFINE v == BaseConfidence[q][t]
             d == c[t]
             x == Confidences(q, c)[t]
  <1>1. v \in 0..100 /\ d \in Small
    BY BaseIs DEF Corrs
  <1>2. x = Corrected(v, d)
    BY ConfidencesAre
  <1> HIDE DEF v, d, x
  <1>3. /\ x \in Fractions /\ x.den = d.den
        /\ x.num <= (v + 15) * d.den
        /\ v >= 15 => x.num >= (v - 15) * d.den
    BY <1>1, <1>2, CorrectedIs
  <1>4. x.num \in Int /\ x.den \in Nat \ {0}
    BY <1>3 DEF Fractions
  <1> QED
    BY <1>1, <1>3, <1>4 DEF v, x

LEMMA ClearIs ==
  ASSUME RouteConstants, NEW q \in Clear, NEW c \in Corrs
  PROVE  q \in Questions /\ KeywordRoute(q, c) = RuleAlone[q]
  <1> DEFINE first == RankCandidatesBase[q][1]
             score(t) == BaseConfidence[q][t]
  <1>0. /\ q \in Questions
        /\ \/ \A t \in Available : score(t) < LeastConfidence - 15
           \/ /\ score(first) >= LeastConfidence + 15
              /\ \A t \in Available \ {first} : score(first) - score(t) > 30
    BY DEF Clear
  <1>1. first \in Available /\ Available \subseteq Types
    BY <1>0, RankingIs, AgentsAre
  <1> HIDE DEF first, score
  <1>2. CASE \A t \in Available : score(t) < LeastConfidence - 15
    <2>1. ASSUME NEW d \in Corrs
          PROVE  KeywordRoute(q, d) = RouteTo(Assistant, "keyword")
      <3> DEFINE b == BestCandidate(q, d)
                 x == Confidences(q, d)[b]
                 v == score(b)
      <3>1. b \in Available
        BY <1>0, BestIs
      <3> HIDE DEF b
      <3>2. /\ v \in 0..100 /\ x.num \in Int /\ x.den \in Nat \ {0}
            /\ x.num <= (v + 15) * x.den
        BY <1>0, <1>1, <3>1, NearBase DEF score
      <3>3. v < 70 - 15
        BY <1>2, <3>1 DEF LeastConfidence
      <3> HIDE DEF v, x
      <3>4. ~(x.num >= 70 * x.den)
        <4> DEFINE k == x.den
                   w == v + 15
        <4>1. k \in Nat \ {0} /\ w \in Int /\ 70 \in Int /\ 70 > w
          <5>1. v \in Int /\ v < 55
            BY <3>2, <3>3
          <5> QED
            BY <3>2, <5>1
        <4> HIDE DEF k, w
        <4>2. 70 * k > w * k
          BY <4>1, Times
        <4>3. 70 * k \in Int /\ w * k \in Int
          BY <4>1
        <4>4. x.num <= w * k
          BY <3>2 DEF w, k
        <4>5. ~(x.num >= 70 * k)
          BY <3>2, <4>2, <4>3, <4>4
        <4> QED
          BY <4>5 DEF k
      <3>5. ~AtLeast(x, LeastConfidence)
        BY <3>4 DEF AtLeast, LeastConfidence
      <3> QED
        BY <1>0, <3>5, KeywordIs DEF b, x
    <2> QED
      BY <1>0, <2>1, UncalibratedIs DEF RuleAlone
  <1>3. CASE /\ score(first) >= LeastConfidence + 15
             /\ \A t \in Available \ {first} : score(first) - score(t) > 30
    <2>1. ASSUME NEW d \in Corrs
          PROVE  KeywordRoute(q, d) = RouteTo(first, "keyword")
      <3> DEFINE b == BestCandidate(q, d)
                 x == Confidences(q, d)[first]
                 v == score(first)
      <3>1. b \in Available /\ ~Above(x, Confidences(q, d)[b])
        BY <1>0, <1>1, BestIs
      <3> HIDE DEF b
      <3>2. /\ v \in 0..100 /\ x.num \in Int /\ x.den \in Nat \ {0}
            /\ v >= 15 => x.num >= (v - 15) * x.den
        BY <1>0, <1>1, NearBase DEF score
      <3>3. v >= 85 /\ x.num >= (v - 15) * x.den
        <4>1. v >= 70 + 15
          BY <1>3 DEF LeastConfidence
        <4> HIDE DEF v, x
        <4>2. v \in Int
          <5>1. v \in 0..100
            BY <3>2, Zenon
          <5> QED
            BY <5>1
        <4>3. v >= 85
          BY <4>1
        <4>4. v >= 15
          BY <4>2, <4>3
        <4> QED
          BY <3>2, <4>3, <4>4
      <3>4. b = first
        <4> SUFFICES ASSUME b # first PROVE FALSE
          OBVIOUS
        <4> DEFINE y == Confidences(q, d)[b]
                   w == score(b)
        <4>1. /\ w \in 0..100 /\ y.num \in Int /\ y.den \in Nat \ {0}
              /\ y.num <= (w + 15) * y.den
          BY <1>0, <1>1, <3>1, NearBase DEF score
        <4>2. v - w > 30
          BY <1>3, <3>1
        <4> HIDE DEF v, w, x, y
        <4>3. v - 15 \in Int /\ w + 15 \in Int /\ v - 15 > w + 15
          <5>1. v \in Int /\ w \in Int
            BY <3>2, <4>1
          <5> QED
            BY <4>2, <5>1
        <4>4. x.num * y.den > y.num * x.den
          <5> DEFINE a == v - 15
                     e == w + 15
          <5>1. a \in Int /\ e \in Int /\ a > e /\ x.num >= a * x.den /\ y.num <= e * y.den
            BY <3>3, <4>1, <4>3
          <5> HIDE DEF a, e
          <5> QED
            BY <3>2, <4>1, <5>1, Product
        <4>5. Above(x, y)
          BY <4>4 DEF Above
        <4> QED
          BY <3>1, <4>5 DEF y
      <3> HIDE DEF v, x
      <3>5. x.num >= 70 * x.den
        <4> DEFINE k == x.den
                   w == v - 15
        <4>1. k \in Nat \ {0} /\ w \in Int /\ 70 \in Int /\ w >= 70 /\ x.num >= w * k
          BY <3>2, <3>3
        <4> HIDE DEF k, w
        <4>2. w * k >= 70 * k
          BY <4>1, Times
        <4>3. 70 * k \in Int /\ w * k \in Int
          BY <4>1
        <4>4. x.num >= 70 * k
          <5> DEFINE p == 70 * k
                     r == w * k
          <5>1. p \in Int /\ r \in Int /\ r >= p /\ x.num >= r /\ x.num \in Int
            BY <3>2, <4>1, <4>2, <4>3
          <5> HIDE DEF p, r
          <5>2. x.num >= p
            BY <5>1
          <5> QED
            BY <5>2 DEF p
        <4> QED
          BY <4>4 DEF k
      <3>6. AtLeast(x, LeastConfidence)
        BY <3>5 DEF AtLeast, LeastConfidence
      <3> QED
        BY <1>0, <3>4, <3>6, KeywordIs DEF b, x
    <2> QED
      BY <1>0, <2>1, UncalibratedIs DEF RuleAlone
  <1> QED
    BY <1>0, <1>2, <1>3

\* The corrections that a ranking may mix.
CorrectionsSmall ==
  /\ calibration \in Corrs
  /\ \A j \in Jobs : In(j, "publish") => jobs[j].delta \in Corrs

LEMMA OnlyTips ==
  ASSUME RouteConstants, CorrectionsSmall
  PROVE  LearningOnlyTips
  <1>1. Mixed \subseteq Corrs
    <2>1. Corrections \subseteq Corrs
      BY DEF Corrections, CorrectionsSmall
    <2>2. ASSUME NEW from \in [Types -> Corrections]
          PROVE  [t \in Types |-> from[t][t]] \in Corrs
      <3>1. ASSUME NEW t \in Types
            PROVE  from[t][t] \in Small
        <4>1. from[t] \in Corrs
          BY <2>1
        <4> QED
          BY <4>1 DEF Corrs
      <3> QED
        BY <3>1 DEF Corrs
    <2> SUFFICES ASSUME NEW c \in Mixed PROVE c \in Corrs
      OBVIOUS
    <2>3. PICK from \in [Types -> Corrections] : c = [t \in Types |-> from[t][t]]
      BY DEF Mixed
    <2> QED
      BY <2>2, <2>3
  <1>2. ASSUME NEW q \in Questions, NEW c \in Corrs
        PROVE  KeywordRoute(q, c).type \in Available \cup {Assistant}
    BY BestIs, KeywordIs DEF RouteTo
  <1> QED
    BY <1>1, <1>2, ClearIs DEF LearningOnlyTips

LEMMA ModelRoutesRun == ModelRoutesCanRun
  BY DEF ModelRoutesCanRun, ModelDecides, ModelRoute, RouteTo

-----------------------------------------------------------------------------
(* What is computed from the samples is a bounded correction.               *)

LEMMA AtLeastOne ==
  ASSUME NEW n \in Nat
  PROVE  Max({n, 1}) \in Nat \ {0}
  <1> DEFINE S == {n, 1}
             top == Max(S)
  <1>1. \E z \in S : \A y \in S : z >= y
    <2>1. n \in S /\ 1 \in S
      OBVIOUS
    <2>2. CASE n >= 1
      BY <2>1, <2>2
    <2>3. CASE n < 1
      BY <2>1, <2>3
    <2> QED
      BY <2>2, <2>3
  <1>2. top \in S /\ \A y \in S : top >= y
    <2> HIDE DEF S
    <2> QED
      BY <1>1 DEF Max
  <1>3. (top = n \/ top = 1) /\ top >= 1
    BY <1>2
  <1> HIDE DEF top
  <1>4. top \in Nat \ {0}
    BY <1>3
  <1> QED
    BY <1>4 DEF top

LEMMA Counts ==
  ASSUME NEW S, NEW view \in Seq(S), NEW some
  PROVE  CountOf(view, some) \in Nat
  <1> DEFINE D == DOMAIN view
             N == Len(view)
             H == {n \in D : view[n].item \in some}
  <1>1. D = 1..N /\ N \in Nat
    OBVIOUS
  <1>2. IsFiniteSet(1..N)
    <2> HIDE DEF N
    <2> QED
      BY <1>1, FS_Interval
  <1>3. H \in SUBSET D
    OBVIOUS
  <1>4. Cardinality(H) \in Nat
    <2> HIDE DEF D, H, N
    <2> QED
      BY <1>1, <1>2, <1>3, FS_Subset, FS_CardinalityType
  <1> QED
    BY <1>4 DEF CountOf

LEMMA Clamped ==
  ASSUME NEW d \in Fractions
  PROVE  ClampDelta(d) \in Small
  <1>1. d.num \in Int /\ d.den \in Nat \ {0}
    BY DEF Fractions
  <1>2. CASE 2 * d.num > d.den
    BY <1>2 DEF ClampDelta, Small, Fractions
  <1>3. CASE ~(2 * d.num > d.den) /\ 2 * d.num < -d.den
    BY <1>3 DEF ClampDelta, Small, Fractions
  <1>4. CASE ~(2 * d.num > d.den) /\ ~(2 * d.num < -d.den)
    BY <1>1, <1>4 DEF ClampDelta, Small
  <1> QED
    BY <1>2, <1>3, <1>4

LEMMA DeltaSmall ==
  ASSUME NEW S, NEW view \in Seq(S), NEW t
  PROVE  DeltaFor(view, t) \in Small
  <1> DEFINE selected == Selected(view, t)
             shadow == ShadowChose(view, t)
             matched == Matched(view, t)
             missed == [num |-> selected - matched, den |-> Max({selected, 1})]
             wrong == [num |-> shadow - matched, den |-> Max({shadow, 1})]
             x == missed.num * wrong.den - wrong.num * missed.den
             y == missed.den * wrong.den
             difference == [num |-> x, den |-> y]
  <1>1. selected \in Nat /\ shadow \in Nat /\ matched \in Nat
    BY Counts DEF Selected, ShadowChose, Matched
  <1>2. DeltaFor(view, t) = IF selected + shadow - matched < MinSamples \/ difference.num = 0
                            THEN NoDelta ELSE ClampDelta(difference)
    BY DEF DeltaFor
  <1> HIDE DEF selected, shadow, matched
  <1>3. missed \in Fractions /\ wrong \in Fractions
    BY <1>1, AtLeastOne DEF Fractions
  <1> HIDE DEF missed, wrong
  <1>4. /\ missed.num \in Int /\ missed.den \in Nat \ {0}
        /\ wrong.num \in Int /\ wrong.den \in Nat \ {0}
    BY <1>3 DEF Fractions
  <1>5. x \in Int /\ y \in Nat \ {0}
    BY <1>4
  <1> HIDE DEF x, y
  <1>6. difference \in Fractions
    BY <1>5 DEF Fractions
  <1> HIDE DEF difference
  <1> QED
    BY <1>2, <1>6, Clamped, UncalibratedIs

LEMMA RecomputeSmall ==
  ASSUME NEW S, NEW view \in Seq(S)
  PROVE  Recompute(view) \in Corrs
  <1>1. \A t \in Types : DeltaFor(view, t) \in Small
    BY DeltaSmall
  <1> QED
    BY <1>1, UncalibratedIs DEF Recompute, Corrs

\* Nothing is learnt from nothing.
LEMMA RecomputeNothing ==
  ASSUME RouteConstants
  PROVE  Recompute(<<>>) = Uncalibrated
  <1>1. \A some : CountOf(<<>>, some) = 0
    <2> TAKE some
    <2>1. {n \in DOMAIN <<>> : <<>>[n].item \in some} = {}
      OBVIOUS
    <2> QED
      BY <2>1, FS_EmptySet DEF CountOf
  <1>2. MinSamples \in Nat \ {0}
    BY DEF RouteConstants
  <1>3. \A t \in Types : DeltaFor(<<>>, t) = NoDelta
    BY <1>1, <1>2 DEF DeltaFor, Selected, ShadowChose, Matched
  <1> QED
    BY <1>3 DEF Recompute, Uncalibrated

-----------------------------------------------------------------------------
(* The examples shown are entries of the cache, each one from its place.    *)

SampleKeys == [s \in Samples |-> SampleKey(s)]

LEMMA RouteCacheSizeIs == ASSUME RouteConstants PROVE RouteCacheSize \in Nat \ {0}
  BY DEF RouteConstants

LEMMA MinOfTwo ==
  ASSUME NEW m \in Nat, NEW n \in Nat
  PROVE  Min({m, n}) \in Nat /\ Min({m, n}) <= m /\ Min({m, n}) <= n
  <1> DEFINE S == {m, n}
  <1>1. S \in SUBSET Nat /\ S # {} /\ m \in S /\ n \in S
    OBVIOUS
  <1>2. Min(S) \in S /\ \A y \in S : Min(S) <= y
    <2> HIDE DEF S
    <2> QED
      BY <1>1, MinIs
  <1>3. S \subseteq Nat
    OBVIOUS
  <1> HIDE DEF S
  <1>4. Min(S) \in Nat /\ Min(S) <= m /\ Min(S) <= n
    BY <1>1, <1>2, <1>3
  <1> QED
    BY <1>4 DEF S

LEMMA ShownIs ==
  ASSUME RouteConstants, CacheOK(examples, Samples, RouteCacheSize, SampleKeys),
         NEW q \in Questions, NEW embedded \in BOOLEAN
  PROVE  LET shown == SimilarRouteFeedback(q, embedded)
         IN  /\ DOMAIN shown = 1..Len(shown)
             /\ \A k \in 1..Len(shown) : \E m \in 1..examples.size : shown[k] = Snapshot(examples)[m]
             /\ \A k, l \in 1..Len(shown) : k # l =>
                  \E m, n \in 1..examples.size :
                     m # n /\ shown[k] = Snapshot(examples)[m] /\ shown[l] = Snapshot(examples)[n]
  <1> DEFINE E == [item : Samples, vec : BOOLEAN]
             whole == Snapshot(examples)
             vectors == [item : Samples, vec : {TRUE}]
             embeddings == Only(whole, vectors)
             like == LikenessOf[q]
             near == TopKByVector(embeddings, like, FewShotLimit, 1)
             limit == Min({FewShotLimit, Len(whole)})
             latest == SubSeq(whole, 1, limit)
             shown == SimilarRouteFeedback(q, embedded)
             N == examples.size
  <1>0. like \in [Samples -> Nat] /\ FewShotLimit \in Nat /\ 1 \in Nat
    <2>1. LikenessOf \in [Questions -> [Samples -> Nat]] /\ FewShotLimit \in Nat
      BY DEF RouteConstants
    <2> QED
      BY <2>1
  <1>1. whole \in Seq(E) /\ Len(whole) = N
    <2>1. RingOK(examples, E, RouteCacheSize, SampleKeys)
      BY DEF CacheOK
    <2> HIDE DEF E
    <2> QED
      BY <2>1, SnapshotIs, RouteCacheSizeIs
  <1>2. shown = IF embedded /\ near # <<>> THEN near ELSE latest
    <2>1. shown = IF (IF embedded THEN near ELSE <<>>) # <<>>
                  THEN (IF embedded THEN near ELSE <<>>) ELSE latest
      BY DEF SimilarRouteFeedback
    <2> HIDE DEF shown, near, latest
    <2> QED
      BY <2>1
  <1> HIDE DEF vectors, like
  <1>3. embeddings \in Seq(E) /\ Picked(embeddings, whole, vectors)
    <2> HIDE DEF E, whole
    <2> QED
      BY <1>1, OnlyPicks
  <1> HIDE DEF embeddings
  <1>4. near \in Seq(E) /\ Picked(near, embeddings, E)
    BY <1>0, <1>3, TopIs
  <1> HIDE DEF near, whole
  <1>5. CASE shown = near
    <2>1. DOMAIN near = 1..Len(near)
      <3> HIDE DEF E
      <3> QED
        BY <1>4
    <2>2. ASSUME NEW k \in 1..Len(near)
          PROVE  \E m \in 1..N : near[k] = whole[m]
      <3>1. PICK m \in 1..Len(embeddings) : near[k] = embeddings[m]
        BY <1>4 DEF Picked
      <3> QED
        BY <1>1, <1>3, <3>1 DEF Picked
    <2>3. ASSUME NEW k \in 1..Len(near), NEW l \in 1..Len(near), k # l
          PROVE  \E m, n \in 1..N : m # n /\ near[k] = whole[m] /\ near[l] = whole[n]
      <3>1. PICK m, n \in 1..Len(embeddings) : m # n /\ near[k] = embeddings[m] /\ near[l] = embeddings[n]
        BY <1>4, <2>3 DEF Picked
      <3>2. PICK x, y \in 1..Len(whole) : x # y /\ embeddings[m] = whole[x] /\ embeddings[n] = whole[y]
        BY <1>3, <3>1 DEF Picked
      <3> QED
        BY <1>1, <3>1, <3>2
    <2> HIDE DEF shown, N, E
    <2> QED
      BY <1>5, <2>1, <2>2, <2>3 DEF whole, shown, N
  <1>6. CASE shown = latest
    <2>0. N \in Nat /\ Len(whole) \in Nat
      <3> HIDE DEF E, N
      <3> QED
        BY <1>1
    <2>1. limit \in Nat /\ limit <= N
      <3>1. limit \in Nat /\ limit <= Len(whole)
        <4> DEFINE l == Len(whole)
        <4> HIDE DEF l
        <4>1. Min({FewShotLimit, l}) \in Nat /\ Min({FewShotLimit, l}) <= l
          BY <1>0, <2>0, MinOfTwo DEF l
        <4> QED
          BY <4>1 DEF l
      <3> QED
        BY <1>1, <3>1
    <2> HIDE DEF limit
    <2>2. Len(latest) = limit /\ DOMAIN latest = 1..limit /\ \A k \in 1..limit : latest[k] = whole[k]
      <3>1. limit <= Len(whole)
        BY <1>1, <2>1
      <3> HIDE DEF E, N
      <3> QED
        BY <1>1, <2>1, <3>1
    <2>3. \A k \in 1..limit : k \in 1..N
      BY <2>0, <2>1
    <2> HIDE DEF shown, latest, N, E
    <2> QED
      BY <1>6, <2>2, <2>3 DEF whole, shown, N
  <1> QED
    BY <1>2, <1>5, <1>6

-----------------------------------------------------------------------------
(* The jobs.                                                                *)

LEMMA JobsAre ==
  /\ WarmUp \in Jobs /\ Nobody \notin Jobs
  /\ \A s \in Samples : /\ Record(s) \in Jobs /\ Delete(s) \in Jobs
                        /\ Record(s) # WarmUp /\ Delete(s) # WarmUp
  /\ \A s, q \in Samples : /\ Record(s) # Delete(q)
                           /\ Record(s) = Record(q) => s = q
                           /\ Delete(s) = Delete(q) => s = q
  BY DEF WarmUp, Nobody, Jobs, Record, Delete

JobKinds == [stage : RouteStages, seen : Seq(Samples), delta : Corrs \cup {<<>>}]

JobsOK == jobs \in [Jobs -> JobKinds]

\* What is under way elsewhere goes on as it was.
Alone(j) == \A k \in Jobs \ {j} : jobs'[k] = jobs[k]

LEMMA NoJobIs ==
  /\ NoJob \in JobKinds /\ NoJob.stage = "none"
  /\ \A x \in RouteStages : [NoJob EXCEPT !.stage = x] \in JobKinds
  <1>1. <<>> \in Seq(Samples) /\ "none" \in RouteStages
    BY DEF RouteStages
  <1> QED
    BY <1>1 DEF NoJob, JobKinds

LEMMA SetIs ==
  ASSUME JobsOK, NEW j \in Jobs, NEW x \in JobKinds, jobs' = [jobs EXCEPT ![j] = x]
  PROVE  JobsOK' /\ jobs'[j] = x /\ Alone(j)
  BY DEF JobsOK, Alone

LEMMA GoIs ==
  ASSUME JobsOK, NEW j \in Jobs, NEW x \in RouteStages, Go(j, x)
  PROVE  /\ JobsOK' /\ Alone(j)
         /\ jobs'[j].stage = x /\ jobs'[j].seen = jobs[j].seen /\ jobs'[j].delta = jobs[j].delta
  <1> DEFINE y == [jobs[j] EXCEPT !.stage = x]
  <1>1. jobs[j] \in JobKinds
    BY DEF JobsOK
  <1>2. y \in JobKinds /\ y.stage = x /\ y.seen = jobs[j].seen /\ y.delta = jobs[j].delta
    BY <1>1 DEF JobKinds
  <1>3. jobs' = [jobs EXCEPT ![j] = y]
    BY DEF Go
  <1> HIDE DEF y
  <1>4. JobsOK' /\ jobs'[j] = y /\ Alone(j)
    BY <1>2, <1>3, SetIs
  <1> QED
    BY <1>2, <1>4

RoutesTyped ==
  /\ routeLearning \in BOOLEAN
  /\ said \in Seq(Samples) /\ table \subseteq Samples
  /\ CacheOK(examples, Samples, RouteCacheSize, SampleKeys)
  /\ JobsOK
  /\ CorrectionsSmall
  /\ lost \in 0..MaxLost
  /\ newest \in Jobs \cup {Nobody} /\ crossed \in BOOLEAN
  /\ deleted \subseteq Samples /\ held \subseteq Samples

LEMMA RoutesTypedGives ==
  ASSUME RouteConstants, RoutesTyped
  PROVE  RouteTypeOK
  <1>1. examples.size \in 0..RouteCacheSize /\ examples.head \in 0..RouteCacheSize - 1
    BY RouteCacheSizeIs, SizeIs DEF RoutesTyped, CacheOK
  <1>2. \A j \in Jobs : jobs[j].stage \in RouteStages
    BY DEF RoutesTyped, JobsOK, JobKinds
  <1>3. calibration \in [Types -> [num : Int, den : Nat]]
    BY DEF RoutesTyped, CorrectionsSmall, Corrs, Small, Fractions
  <1> QED
    BY <1>1, <1>2, <1>3 DEF RoutesTyped, RouteTypeOK

LEMMA RoutesTypedInit ==
  ASSUME RouteConstants, RouteInit
  PROVE  RoutesTyped
  <1>1. PICK before \in SUBSET Samples : table = before /\ said \in [1..Cardinality(before) -> before]
    BY DEF RouteInit
  <1>2. said \in Seq(Samples) /\ table \subseteq Samples
    <2> DEFINE N == Cardinality(before)
    <2>1. N \in Nat
      <3>1. IsFiniteSet(Samples)
        BY DEF RouteConstants
      <3> QED
        BY <3>1, FS_Subset, FS_CardinalityType
    <2> HIDE DEF N
    <2>2. said \in [1..N -> Samples]
      BY <1>1 DEF N
    <2> QED
      BY <1>1, <2>1, <2>2
  <1>3. CacheOK(examples, Samples, RouteCacheSize, SampleKeys)
    BY NewCache, RouteCacheSizeIs DEF RouteInit, Examples, SampleKeys
  <1>4. JobsOK /\ \A j \in Jobs : jobs[j].stage \in {"none", "list"}
    <2> DEFINE begun == [NoJob EXCEPT !.stage = "list"]
    <2>1. begun \in JobKinds /\ NoJob \in JobKinds /\ begun.stage = "list" /\ NoJob.stage = "none"
      BY NoJobIs DEF RouteStages, NoJob
    <2>2. jobs = [j \in Jobs |-> IF j = WarmUp /\ routeLearning THEN begun ELSE NoJob]
      BY DEF RouteInit
    <2> HIDE DEF begun
    <2> QED
      BY <2>1, <2>2 DEF JobsOK
  <1>5. CorrectionsSmall
    BY <1>4, UncalibratedIs DEF RouteInit, CorrectionsSmall, In
  <1>6. WithRoutes \subseteq BOOLEAN /\ MaxLost \in Nat
    BY DEF RouteConstants
  <1>7. /\ routeLearning \in WithRoutes /\ lost = 0 /\ newest = Nobody /\ crossed = FALSE
        /\ deleted = {} /\ held = {}
    BY DEF RouteInit
  <1>8. 0 \in 0..MaxLost
    BY <1>6
  <1> QED
    BY <1>2, <1>3, <1>4, <1>5, <1>6, <1>7, <1>8 DEF RoutesTyped

\* A step of a job that publishes nothing, or what is small.
LEMMA SmallStays ==
  ASSUME CorrectionsSmall, NEW j \in Jobs, Alone(j), calibration' \in Corrs,
         jobs'[j].stage # "publish" \/ jobs'[j].delta \in Corrs
  PROVE  CorrectionsSmall'
  <1>1. ASSUME NEW k \in Jobs, In(k, "publish")'
        PROVE  jobs'[k].delta \in Corrs
    <2>1. CASE k = j
      BY <1>1, <2>1 DEF In
    <2>2. CASE k # j
      <3>1. jobs'[k] = jobs[k]
        BY <2>2 DEF Alone
      <3>2. In(k, "publish")
        BY <1>1, <3>1 DEF In
      <3> QED
        BY <3>1, <3>2 DEF CorrectionsSmall
    <2> QED
      BY <2>1, <2>2
  <1> QED
    BY <1>1 DEF CorrectionsSmall

-----------------------------------------------------------------------------
(* Types, action by action, with what each one does to its job.             *)

LEMMA RecordTyped ==
  ASSUME RouteConstants, RoutesTyped, NEW s \in Samples, RecordRouteFeedback(s)
  PROVE  /\ RoutesTyped' /\ Alone(Record(s)) /\ jobs'[Record(s)].stage = "persist"
         /\ \A y : Has(examples', y) => y = s \/ Has(examples, y)
  <1> DEFINE e == [item |-> s, vec |-> FALSE]
             post == Add(examples, e)
  <1>1. JobsOK' /\ Alone(Record(s)) /\ jobs'[Record(s)].stage = "persist"
    BY JobsAre, GoIs DEF RoutesTyped, RecordRouteFeedback, RouteStages
  <1>2. /\ said' = <<s>> \o said /\ examples' = post
        /\ UNCHANGED <<routeLearning, table, calibration, lost, newest, crossed, deleted, held>>
    BY DEF RecordRouteFeedback
  <1>3. said' \in Seq(Samples)
    BY <1>2 DEF RoutesTyped
  <1>4. e \in [item : Samples, vec : BOOLEAN] /\ e.item = s
    OBVIOUS
  <1> HIDE DEF e
  <1>5. /\ CacheOK(post, Samples, RouteCacheSize, SampleKeys)
        /\ \A y : Has(post, y) => y = e.item \/ Has(examples, y)
    BY <1>4, AddCache, RouteCacheSizeIs DEF RoutesTyped
  <1> HIDE DEF post
  <1>6. CorrectionsSmall'
    BY <1>1, <1>2, JobsAre, SmallStays DEF RoutesTyped, CorrectionsSmall
  <1> QED
    BY <1>1, <1>2, <1>3, <1>4, <1>5, <1>6 DEF RoutesTyped

LEMMA LostIs ==
  ASSUME RouteConstants, RoutesTyped, Fails \/ UNCHANGED lost
  PROVE  lost' \in 0..MaxLost
  BY DEF RoutesTyped, Fails, RouteConstants

LEMMA PersistTyped ==
  ASSUME RouteConstants, RoutesTyped, NEW s \in Samples, PersistRouteFeedback(s)
  PROVE  /\ RoutesTyped' /\ Alone(Record(s)) /\ jobs'[Record(s)].stage = "snapshot"
         /\ \A y : Has(examples', y) => Has(examples, y)
  <1> DEFINE post == UpdateVector(examples, s)
  <1>1. JobsOK' /\ Alone(Record(s)) /\ jobs'[Record(s)].stage = "snapshot"
    BY JobsAre, GoIs DEF RoutesTyped, PersistRouteFeedback, RouteStages
  <1>2. /\ examples' = post \/ examples' = examples
        /\ table' = table \/ table' = table \cup {s}
        /\ Fails \/ UNCHANGED lost
        /\ UNCHANGED <<routeLearning, said, calibration, newest, crossed, deleted, held>>
    BY DEF PersistRouteFeedback
  <1>3. CacheOK(post, Samples, RouteCacheSize, SampleKeys) /\ Within(post, examples)
    BY UpdateCache, RouteCacheSizeIs DEF RoutesTyped
  <1> HIDE DEF post
  <1>4. /\ CacheOK(examples', Samples, RouteCacheSize, SampleKeys)
        /\ \A y : Has(examples', y) => Has(examples, y)
    BY <1>2, <1>3 DEF RoutesTyped, Within
  <1>5. CorrectionsSmall'
    BY <1>1, <1>2, JobsAre, SmallStays DEF RoutesTyped, CorrectionsSmall
  <1>6. lost' \in 0..MaxLost
    BY <1>2, LostIs
  <1> QED
    BY <1>1, <1>2, <1>4, <1>5, <1>6 DEF RoutesTyped

LEMMA DeleteTyped ==
  ASSUME RouteConstants, RoutesTyped, NEW s \in Samples, DeleteRouteFeedback(s)
  PROVE  /\ RoutesTyped'
         /\ \/ Alone(Delete(s)) /\ jobs'[Delete(s)].stage = "remove" /\ table' = table \ {s}
            \/ UNCHANGED <<jobs, table>>
  <1>1. /\ s \in table
        /\ \/ table' = table \ {s} /\ Go(Delete(s), "remove") /\ UNCHANGED lost
           \/ Fails /\ UNCHANGED <<table, jobs>>
        /\ UNCHANGED <<routeLearning, said, examples, calibration, newest, crossed, deleted, held>>
    BY DEF DeleteRouteFeedback
  <1>2. lost' \in 0..MaxLost
    BY <1>1, LostIs
  <1>3. CASE table' = table \ {s} /\ Go(Delete(s), "remove")
    <2>1. JobsOK' /\ Alone(Delete(s)) /\ jobs'[Delete(s)].stage = "remove"
      BY <1>3, JobsAre, GoIs DEF RoutesTyped, RouteStages
    <2>2. CorrectionsSmall'
      BY <1>1, <2>1, JobsAre, SmallStays DEF RoutesTyped, CorrectionsSmall
    <2> QED
      BY <1>1, <1>2, <1>3, <2>1, <2>2 DEF RoutesTyped
  <1>4. CASE UNCHANGED <<table, jobs>>
    <2>1. JobsOK' /\ CorrectionsSmall'
      BY <1>1, <1>4 DEF RoutesTyped, JobsOK, CorrectionsSmall, In
    <2> QED
      BY <1>1, <1>2, <1>4, <2>1 DEF RoutesTyped
  <1> QED
    BY <1>1, <1>3, <1>4

LEMMA RemoveTyped ==
  ASSUME RouteConstants, RoutesTyped, NEW s \in Samples, RemoveExample(s)
  PROVE  /\ RoutesTyped' /\ Alone(Delete(s)) /\ jobs'[Delete(s)].stage = "snapshot"
         /\ ~Has(examples', s)
         /\ \A y : Has(examples', y) => Has(examples, y)
  <1> DEFINE post == RemoveMatching(examples, {s})
  <1>1. JobsOK' /\ Alone(Delete(s)) /\ jobs'[Delete(s)].stage = "snapshot"
    BY JobsAre, GoIs DEF RoutesTyped, RemoveExample, RouteStages
  <1>2. /\ examples' = post
        /\ held' = held \/ held' = held \cup {s}
        /\ UNCHANGED <<routeLearning, said, table, calibration, lost, newest, crossed, deleted>>
    BY DEF RemoveExample
  <1>3. CacheOK(post, Samples, RouteCacheSize, SampleKeys) /\ ~Has(post, s) /\ Within(post, examples)
    BY RemoveCache, RouteCacheSizeIs DEF RoutesTyped
  <1> HIDE DEF post
  <1>4. CorrectionsSmall'
    BY <1>1, <1>2, JobsAre, SmallStays DEF RoutesTyped, CorrectionsSmall
  <1> QED
    BY <1>1, <1>2, <1>3, <1>4 DEF RoutesTyped, Within

LEMMA ListTyped ==
  ASSUME RouteConstants, RoutesTyped, ListRouteFeedback
  PROVE  /\ RoutesTyped' /\ Alone(WarmUp)
         /\ jobs'[WarmUp].stage \in {"none", "replace"}
         /\ jobs'[WarmUp].stage = "replace" =>
              \A n \in DOMAIN jobs'[WarmUp].seen : jobs'[WarmUp].seen[n] \in table
  <1> DEFINE recent == Only(said, table)
             limit == Min({Len(recent), RouteCacheSize})
             view == SubSeq(recent, 1, limit)
             x == [NoJob EXCEPT !.stage = "replace", !.seen = view]
  <1>1. /\ \/ jobs' = [jobs EXCEPT ![WarmUp] = x] /\ UNCHANGED lost
           \/ Fails /\ Go(WarmUp, "none")
        /\ UNCHANGED <<routeLearning, said, table, examples, calibration, newest, crossed,
                       deleted, held>>
    BY DEF ListRouteFeedback
  <1>2. recent \in Seq(Samples) /\ Picked(recent, said, table)
    BY OnlyPicks DEF RoutesTyped
  <1> HIDE DEF recent
  <1>3. limit \in Nat /\ limit <= Len(recent)
    <2>1. Len(recent) \in Nat /\ RouteCacheSize \in Nat
      BY <1>2, RouteCacheSizeIs
    <2> DEFINE l == Len(recent)
    <2> HIDE DEF l
    <2>2. Min({l, RouteCacheSize}) \in Nat /\ Min({l, RouteCacheSize}) <= l
      BY <2>1, MinOfTwo DEF l
    <2> QED
      BY <2>2 DEF l
  <1> HIDE DEF limit
  <1>4. view \in Seq(Samples) /\ \A n \in DOMAIN view : view[n] \in table
    <2>1. view \in Seq(Samples) /\ DOMAIN view = 1..limit /\ \A n \in 1..limit : view[n] = recent[n]
      BY <1>2, <1>3
    <2>2. \A n \in 1..limit : n \in 1..Len(recent)
      BY <1>2, <1>3
    <2> HIDE DEF view
    <2> QED
      BY <1>2, <2>1, <2>2 DEF Picked
  <1> HIDE DEF view
  <1>5. x \in JobKinds /\ x.stage = "replace" /\ x.seen = view
    BY <1>4, NoJobIs DEF NoJob, JobKinds, RouteStages
  <1> HIDE DEF x
  <1>6. /\ JobsOK' /\ Alone(WarmUp) /\ jobs'[WarmUp].stage \in {"none", "replace"}
        /\ jobs'[WarmUp].stage = "replace" => jobs'[WarmUp] = x
    <2>1. CASE jobs' = [jobs EXCEPT ![WarmUp] = x]
      BY <1>5, <2>1, JobsAre, SetIs DEF RoutesTyped
    <2>2. CASE Go(WarmUp, "none")
      BY <2>2, JobsAre, GoIs DEF RoutesTyped, RouteStages
    <2> QED
      BY <1>1, <2>1, <2>2
  <1>7. CorrectionsSmall'
    BY <1>1, <1>6, JobsAre, SmallStays DEF RoutesTyped, CorrectionsSmall
  <1>8. lost' \in 0..MaxLost
    BY <1>1, LostIs
  <1>9. RoutesTyped'
    BY <1>1, <1>6, <1>7, <1>8 DEF RoutesTyped
  <1> QED
    BY <1>4, <1>5, <1>6, <1>9

LEMMA ReplaceTyped ==
  ASSUME RouteConstants, RoutesTyped, ReplaceExamples
  PROVE  /\ RoutesTyped' /\ Alone(WarmUp) /\ jobs'[WarmUp].stage = "snapshot"
         /\ \A y : Has(examples', y) =>
                     \E n \in DOMAIN jobs[WarmUp].seen : jobs[WarmUp].seen[n] = y
  <1> DEFINE view == jobs[WarmUp].seen
             x == [NoJob EXCEPT !.stage = "snapshot"]
  <1>1. PICK vec \in BOOLEAN : examples' = Warmed(vec)
    BY DEF ReplaceExamples
  <1>2. /\ UNCHANGED lost \/ Fails
        /\ jobs' = [jobs EXCEPT ![WarmUp] = x]
        /\ UNCHANGED <<routeLearning, said, table, calibration, newest, crossed, deleted, held>>
    BY DEF ReplaceExamples
  <1>3. x \in JobKinds /\ x.stage = "snapshot"
    BY NoJobIs DEF NoJob, RouteStages
  <1> HIDE DEF x
  <1>4. JobsOK' /\ Alone(WarmUp) /\ jobs'[WarmUp].stage = "snapshot"
    BY <1>2, <1>3, JobsAre, SetIs DEF RoutesTyped
  <1>5. view \in Seq(Samples)
    BY JobsAre DEF RoutesTyped, JobsOK, JobKinds
  <1> HIDE DEF view
  <1> DEFINE entries == [n \in DOMAIN view |-> [item |-> view[n], vec |-> vec]]
             post == Replace(examples, entries)
  <1>6. examples' = post
    BY <1>1 DEF Warmed, view
  <1>7. /\ Len(view) \in Nat /\ DOMAIN view = 1..Len(view)
        /\ \A n \in 1..Len(view) : [item |-> view[n], vec |-> vec] \in [item : Samples, vec : BOOLEAN]
    BY <1>5
  <1>8. entries \in Seq([item : Samples, vec : BOOLEAN]) /\ Len(entries) = Len(view)
    BY <1>7
  <1>9. \A n \in 1..Len(entries) : n \in DOMAIN view /\ entries[n].item = view[n]
    BY <1>7, <1>8
  <1> HIDE DEF entries
  <1>10. CacheOK(post, Samples, RouteCacheSize, SampleKeys) /\ HasOnlyOf(post, entries)
    BY <1>8, ReplaceCache, RouteCacheSizeIs DEF RoutesTyped
  <1> HIDE DEF post
  <1>11. \A y : Has(examples', y) => \E n \in DOMAIN view : view[n] = y
    BY <1>6, <1>9, <1>10 DEF HasOnlyOf
  <1>12. CorrectionsSmall'
    BY <1>2, <1>4, JobsAre, SmallStays DEF RoutesTyped, CorrectionsSmall
  <1>13. lost' \in 0..MaxLost
    BY <1>2, LostIs
  <1>14. RoutesTyped'
    BY <1>2, <1>4, <1>6, <1>10, <1>12, <1>13 DEF RoutesTyped
  <1> QED
    BY <1>4, <1>11, <1>14 DEF view

LEMMA SnapshotTyped ==
  ASSUME RouteConstants, RoutesTyped, NEW j \in Jobs, SnapshotSamples(j)
  PROVE  /\ RoutesTyped' /\ Alone(j) /\ jobs'[j].stage = "publish"
         /\ jobs'[j].delta = Recompute(Snapshot(examples))
  <1> DEFINE d == Recompute(Snapshot(examples))
             x == [NoJob EXCEPT !.stage = "publish", !.delta = d]
  <1>1. /\ jobs' = [jobs EXCEPT ![j] = x] /\ newest' = j
        /\ UNCHANGED <<routeLearning, said, table, examples, calibration, lost, crossed,
                       deleted, held>>
    BY DEF SnapshotSamples
  <1>2. d \in Corrs
    <2>1. RingOK(examples, [item : Samples, vec : BOOLEAN], RouteCacheSize, SampleKeys)
      BY DEF RoutesTyped, CacheOK
    <2>2. Snapshot(examples) \in Seq([item : Samples, vec : BOOLEAN])
      BY <2>1, SnapshotIs, RouteCacheSizeIs
    <2> QED
      BY <2>2, RecomputeSmall
  <1> HIDE DEF d
  <1>3. x \in JobKinds /\ x.stage = "publish" /\ x.delta = d
    BY <1>2, NoJobIs DEF NoJob, JobKinds, RouteStages
  <1> HIDE DEF x
  <1>4. JobsOK' /\ Alone(j) /\ jobs'[j] = x
    BY <1>1, <1>3, SetIs DEF RoutesTyped
  <1>5. CorrectionsSmall'
    BY <1>1, <1>2, <1>3, <1>4, SmallStays DEF RoutesTyped, CorrectionsSmall
  <1>6. RoutesTyped'
    BY <1>1, <1>4, <1>5 DEF RoutesTyped
  <1> QED
    BY <1>3, <1>4, <1>6 DEF d

LEMMA StoreTyped ==
  ASSUME RouteConstants, RoutesTyped, NEW j \in Jobs, StoreCalibration(j)
  PROVE  RoutesTyped' /\ Alone(j) /\ jobs'[j].stage = "none"
  <1>1. /\ jobs' = [jobs EXCEPT ![j] = NoJob]
        /\ calibration' = jobs[j].delta /\ In(j, "publish")
        /\ crossed' \in BOOLEAN /\ newest' \in {newest, Nobody} /\ deleted' \subseteq deleted \cup Samples
        /\ UNCHANGED <<routeLearning, said, table, examples, lost, held>>
    BY DEF StoreCalibration
  <1>2. JobsOK' /\ Alone(j) /\ jobs'[j].stage = "none"
    BY <1>1, NoJobIs, SetIs DEF RoutesTyped
  <1>3. CorrectionsSmall'
    BY <1>1, <1>2, SmallStays DEF RoutesTyped, CorrectionsSmall
  <1> QED
    BY <1>1, <1>2, <1>3 DEF RoutesTyped

-----------------------------------------------------------------------------
(* The inductive invariant: a sample's way through the table, the cache and *)
(* the jobs, and how far the correction in force is behind the cache.       *)

Made(s) == \E n \in DOMAIN said : said[n] = s

HeldByWarmUp(s) == In(WarmUp, "replace") /\ \E n \in DOMAIN jobs[WarmUp].seen : jobs[WarmUp].seen[n] = s

\* The deletion of s has been through the cache; it has begun.
Gone(s) == In(Delete(s), "snapshot") \/ In(Delete(s), "publish") \/ s \in deleted

Deleting(s) == ~In(Delete(s), "none") \/ s \in deleted

\* A sample has its row after it was made and before it is deleted, and it is
\* out of the cache, and of what the warm-up has in hand, once its deletion has
\* swept the cache.
SampleFollows(s) ==
  /\ s \in table \/ ~In(Record(s), "none") \/ Deleting(s) => Made(s)
  /\ In(Record(s), "persist") => s \notin table /\ ~Deleting(s)
  /\ Deleting(s) => s \notin table
  /\ Gone(s) => s \in held \/ (~Has(examples, s) /\ ~HeldByWarmUp(s))

\* The cache has changed and no snapshot has been taken since.
Changing == \E j \in Jobs : In(j, "persist") \/ In(j, "snapshot")

\* Of the jobs at work, the one whose snapshot is newest has the correction of
\* the cache; with none, and no two that crossed, the one in force is it.
CorrectionFollows ==
  /\ newest \in Jobs => In(newest, "publish")
  /\ ~Changing => /\ newest \in Jobs => jobs[newest].delta = Recompute(Snapshot(examples))
                  /\ newest = Nobody /\ ~crossed => calibration = Recompute(Snapshot(examples))

RoutesInv ==
  /\ RoutesTyped
  /\ \A s \in Samples : SampleFollows(s)
  /\ CorrectionFollows

LEMMA RoutesInvInit ==
  ASSUME RouteConstants, RouteInit
  PROVE  RoutesInv
  <1>1. RoutesTyped
    BY RoutesTypedInit
  <1>2. \A j \in Jobs : jobs[j].stage \in {"none", "list"} /\ (j # WarmUp => jobs[j].stage = "none")
    <2> DEFINE begun == [NoJob EXCEPT !.stage = "list"]
    <2>1. begun.stage = "list" /\ NoJob.stage = "none"
      BY DEF NoJob
    <2>2. jobs = [j \in Jobs |-> IF j = WarmUp /\ routeLearning THEN begun ELSE NoJob]
      BY DEF RouteInit
    <2> HIDE DEF begun
    <2> QED
      BY <2>1, <2>2
  <1>3. /\ examples = NewBoundedCache(RouteCacheSize, SampleKeys) /\ deleted = {}
        /\ newest = Nobody /\ calibration = Uncalibrated
        /\ \A s \in table : Made(s)
    BY DEF RouteInit, Examples, SampleKeys, Made
  <1>4. ASSUME NEW s \in Samples
        PROVE  SampleFollows(s)
    <2>1. In(Record(s), "none") /\ In(Delete(s), "none")
      BY <1>2, JobsAre DEF In
    <2>2. ~Gone(s) /\ ~Deleting(s) /\ ~In(Record(s), "persist")
      BY <1>3, <2>1 DEF Gone, Deleting, In
    <2> QED
      BY <1>3, <2>1, <2>2 DEF SampleFollows
  <1>5. CorrectionFollows
    <2>1. Snapshot(examples) = <<>>
      BY <1>3, NewIs, RouteCacheSizeIs
    <2>2. Recompute(Snapshot(examples)) = Uncalibrated
      BY <2>1, RecomputeNothing
    <2> QED
      BY <1>3, <2>2, JobsAre DEF CorrectionFollows
  <1> QED
    BY <1>1, <1>4, <1>5 DEF RoutesInv

\* What a step does that does no more to a sample than lets it go.
LEMMA SampleStays ==
  ASSUME NEW s \in Samples, SampleFollows(s),
         jobs'[Record(s)] = jobs[Record(s)], jobs'[Delete(s)] = jobs[Delete(s)],
         Made(s) => Made(s)', s \in table' => s \in table, s \in deleted' <=> s \in deleted,
         s \in held => s \in held', Has(examples, s)' => Has(examples, s),
         HeldByWarmUp(s)' => HeldByWarmUp(s)
  PROVE  SampleFollows(s)'
  <1>1. \A x : (In(Record(s), x)' <=> In(Record(s), x)) /\ (In(Delete(s), x)' <=> In(Delete(s), x))
    BY DEF In
  <1>2. (Deleting(s)' <=> Deleting(s)) /\ (Gone(s)' <=> Gone(s))
    BY <1>1 DEF Deleting, Gone
  <1> QED
    BY <1>1, <1>2 DEF SampleFollows

LEMMA WarmStays ==
  ASSUME NEW s, jobs'[WarmUp] = jobs[WarmUp]
  PROVE  HeldByWarmUp(s)' <=> HeldByWarmUp(s)
  BY DEF HeldByWarmUp, In

Shifted(post, seq) == \A n \in DOMAIN seq : n + 1 \in DOMAIN post /\ post[n + 1] = seq[n]

LEMMA Before ==
  ASSUME NEW S, NEW seq \in Seq(S), NEW x \in S, NEW post, post = <<x>> \o seq
  PROVE  Shifted(post, seq)
  <1> DEFINE N == Len(seq)
  <1>1. N \in Nat /\ DOMAIN seq = 1..N
    OBVIOUS
  <1>2. post \in Seq(S) /\ Len(post) = 1 + N
    OBVIOUS
  <1>3. DOMAIN post = 1..1 + N
    BY <1>1, <1>2
  <1>4. ASSUME NEW n \in DOMAIN seq
        PROVE  n + 1 \in 1..1 + N /\ post[n + 1] = seq[n]
    OBVIOUS
  <1> QED
    BY <1>3, <1>4 DEF Shifted

LEMMA RecordKeeps ==
  ASSUME RouteConstants, RoutesInv, NEW s \in Samples, RecordRouteFeedback(s), NEW q \in Samples
  PROVE  SampleFollows(q)'
  <1>1. /\ Alone(Record(s)) /\ jobs'[Record(s)].stage = "persist"
        /\ \A y : Has(examples', y) => y = s \/ Has(examples, y)
    BY RecordTyped DEF RoutesInv
  <1>2. /\ ~Made(s) /\ said' = <<s>> \o said
        /\ UNCHANGED <<table, deleted, held>>
    BY DEF RecordRouteFeedback, Made
  <1>3. SampleFollows(q) /\ SampleFollows(s)
    BY DEF RoutesInv
  <1>4. Made(s)' /\ (Made(q) => Made(q)')
    <2>1. said \in Seq(Samples)
      BY DEF RoutesInv, RoutesTyped
    <2>2. 1 \in DOMAIN said' /\ said'[1] = s
      BY <1>2, <2>1
    <2>3. \A n \in DOMAIN said : n + 1 \in DOMAIN said' /\ said'[n + 1] = said[n]
      <3> DEFINE post == <<s>> \o said
      <3>1. said' = post /\ post = <<s>> \o said
        BY <1>2
      <3> HIDE DEF post
      <3>2. Shifted(post, said)
        BY <2>1, <3>1, Before
      <3> QED
        BY <3>1, <3>2 DEF Shifted
    <2> QED
      BY <2>2, <2>3 DEF Made
  <1>5. /\ jobs'[Delete(q)] = jobs[Delete(q)] /\ jobs'[WarmUp] = jobs[WarmUp]
        /\ q # s => jobs'[Record(q)] = jobs[Record(q)]
    BY <1>1, JobsAre DEF Alone
  <1>6. CASE q # s
    BY <1>1, <1>2, <1>3, <1>4, <1>5, <1>6, WarmStays, SampleStays
  <1>7. CASE q = s
    <2>1. s \notin table /\ In(Record(s), "none") /\ ~Deleting(s)
      BY <1>2, <1>3 DEF SampleFollows
    <2>2. ~Deleting(s)' /\ ~Gone(s)'
      BY <1>2, <1>5, <1>7, <2>1 DEF Deleting, Gone, In
    <2> QED
      BY <1>2, <1>4, <1>7, <2>1, <2>2 DEF SampleFollows
  <1> QED
    BY <1>6, <1>7

LEMMA PersistKeeps ==
  ASSUME RouteConstants, RoutesInv, NEW s \in Samples, PersistRouteFeedback(s), NEW q \in Samples
  PROVE  SampleFollows(q)'
  <1>1. /\ Alone(Record(s)) /\ jobs'[Record(s)].stage = "snapshot"
        /\ \A y : Has(examples', y) => Has(examples, y)
    BY PersistTyped DEF RoutesInv
  <1>2. /\ In(Record(s), "persist") /\ (table' = table \/ table' = table \cup {s})
        /\ UNCHANGED <<said, deleted, held>>
    BY DEF PersistRouteFeedback
  <1>3. SampleFollows(q) /\ SampleFollows(s)
    BY DEF RoutesInv
  <1>4. Made(q)' <=> Made(q)
    BY <1>2 DEF Made
  <1>5. /\ jobs'[Delete(q)] = jobs[Delete(q)] /\ jobs'[WarmUp] = jobs[WarmUp]
        /\ q # s => jobs'[Record(q)] = jobs[Record(q)]
    BY <1>1, JobsAre DEF Alone
  <1>6. CASE q # s
    BY <1>1, <1>2, <1>3, <1>4, <1>5, <1>6, WarmStays, SampleStays
  <1>7. CASE q = s
    <2>1. ~Deleting(s) /\ ~In(Record(s), "none")
      BY <1>2, <1>3 DEF SampleFollows, In
    <2>2. Made(s)
      BY <1>3, <2>1 DEF SampleFollows
    <2>3. ~Deleting(s)' /\ ~Gone(s)' /\ ~In(Record(s), "persist")'
      BY <1>1, <1>2, <1>5, <1>7, <2>1 DEF Deleting, Gone, In
    <2> QED
      BY <1>4, <1>7, <2>2, <2>3 DEF SampleFollows
  <1> QED
    BY <1>6, <1>7

LEMMA DeleteKeeps ==
  ASSUME RouteConstants, RoutesInv, NEW s \in Samples, DeleteRouteFeedback(s), NEW q \in Samples
  PROVE  SampleFollows(q)'
  <1>1. \/ Alone(Delete(s)) /\ jobs'[Delete(s)].stage = "remove" /\ table' = table \ {s}
        \/ UNCHANGED <<jobs, table>>
    BY DeleteTyped DEF RoutesInv
  <1>2. s \in table /\ UNCHANGED <<said, examples, deleted, held>>
    BY DEF DeleteRouteFeedback
  <1>3. SampleFollows(q) /\ SampleFollows(s)
    BY DEF RoutesInv
  <1>4. Made(q)' <=> Made(q)
    BY <1>2 DEF Made
  <1>5. CASE UNCHANGED <<jobs, table>>
    BY <1>2, <1>3, <1>4, <1>5, WarmStays, SampleStays
  <1>6. CASE Alone(Delete(s)) /\ jobs'[Delete(s)].stage = "remove" /\ table' = table \ {s}
    <2>1. /\ jobs'[Record(q)] = jobs[Record(q)] /\ jobs'[WarmUp] = jobs[WarmUp]
          /\ q # s => jobs'[Delete(q)] = jobs[Delete(q)]
      BY <1>6, JobsAre DEF Alone
    <2>2. CASE q # s
      BY <1>2, <1>3, <1>4, <1>6, <2>1, <2>2, WarmStays, SampleStays
    <2>3. CASE q = s
      <3>1. Made(s) /\ ~In(Record(s), "persist") /\ s \notin deleted
        BY <1>2, <1>3 DEF SampleFollows, Deleting
      <3>2. ~Gone(s)' /\ ~In(Record(s), "persist")'
        BY <1>2, <1>6, <2>1, <2>3, <3>1 DEF Gone, In
      <3> QED
        BY <1>4, <1>6, <2>3, <3>1, <3>2 DEF SampleFollows
    <2> QED
      BY <2>2, <2>3
  <1> QED
    BY <1>1, <1>5, <1>6

LEMMA RemoveKeeps ==
  ASSUME RouteConstants, RoutesInv, NEW s \in Samples, RemoveExample(s), NEW q \in Samples
  PROVE  SampleFollows(q)'
  <1>1. /\ Alone(Delete(s)) /\ jobs'[Delete(s)].stage = "snapshot"
        /\ ~Has(examples', s)
        /\ \A y : Has(examples', y) => Has(examples, y)
    BY RemoveTyped DEF RoutesInv
  <1>2. /\ In(Delete(s), "remove") /\ UNCHANGED <<said, table, deleted>>
        /\ held' = IF HeldByWarmUp(s) THEN held \cup {s} ELSE held
    BY DEF RemoveExample, HeldByWarmUp
  <1>3. SampleFollows(q) /\ SampleFollows(s)
    BY DEF RoutesInv
  <1>4. Made(q)' <=> Made(q)
    BY <1>2 DEF Made
  <1>5. /\ jobs'[Record(q)] = jobs[Record(q)] /\ jobs'[WarmUp] = jobs[WarmUp]
        /\ q # s => jobs'[Delete(q)] = jobs[Delete(q)]
    BY <1>1, JobsAre DEF Alone
  <1>6. CASE q # s
    BY <1>1, <1>2, <1>3, <1>4, <1>5, <1>6, WarmStays, SampleStays
  <1>7. CASE q = s
    <2>1. Deleting(s)
      BY <1>2 DEF Deleting, In
    <2>2. Made(s) /\ s \notin table /\ ~In(Record(s), "persist")
      BY <1>3, <2>1 DEF SampleFollows
    <2>3. s \in held' \/ ~HeldByWarmUp(s)'
      BY <1>2, <1>5, WarmStays
    <2>4. ~In(Record(s), "persist")'
      BY <1>5, <1>7, <2>2 DEF In
    <2>5. ~Has(examples, s)'
      BY <1>1
    <2> QED
      BY <1>2, <1>4, <1>7, <2>2, <2>3, <2>4, <2>5 DEF SampleFollows
  <1> QED
    BY <1>6, <1>7

LEMMA ListKeeps ==
  ASSUME RouteConstants, RoutesInv, ListRouteFeedback, NEW q \in Samples
  PROVE  SampleFollows(q)'
  <1>1. /\ Alone(WarmUp)
        /\ jobs'[WarmUp].stage = "replace" =>
              \A n \in DOMAIN jobs'[WarmUp].seen : jobs'[WarmUp].seen[n] \in table
    BY ListTyped DEF RoutesInv
  <1>2. UNCHANGED <<said, table, examples, deleted, held>>
    BY DEF ListRouteFeedback
  <1>3. SampleFollows(q)
    BY DEF RoutesInv
  <1>4. jobs'[Record(q)] = jobs[Record(q)] /\ jobs'[Delete(q)] = jobs[Delete(q)]
    BY <1>1, JobsAre DEF Alone
  <1>5. HeldByWarmUp(q)' => q \in table
    BY <1>1 DEF HeldByWarmUp, In
  <1>6. \A x : (In(Record(q), x)' <=> In(Record(q), x)) /\ (In(Delete(q), x)' <=> In(Delete(q), x))
    BY <1>4 DEF In
  <1>7. (Deleting(q)' <=> Deleting(q)) /\ (Gone(q)' <=> Gone(q)) /\ (Made(q)' <=> Made(q))
    BY <1>2, <1>6 DEF Deleting, Gone, Made
  <1>8. Gone(q) => Deleting(q)
    BY DEF Gone, Deleting, In
  <1>9. Has(examples, q)' <=> Has(examples, q)
    BY <1>2
  <1> QED
    BY <1>2, <1>3, <1>5, <1>6, <1>7, <1>8, <1>9 DEF SampleFollows

LEMMA ReplaceKeeps ==
  ASSUME RouteConstants, RoutesInv, ReplaceExamples, NEW q \in Samples
  PROVE  SampleFollows(q)'
  <1>1. /\ Alone(WarmUp) /\ jobs'[WarmUp].stage = "snapshot"
        /\ \A y : Has(examples', y) =>
                     \E n \in DOMAIN jobs[WarmUp].seen : jobs[WarmUp].seen[n] = y
    BY ReplaceTyped DEF RoutesInv
  <1>2. In(WarmUp, "replace") /\ UNCHANGED <<said, table, deleted, held>>
    BY DEF ReplaceExamples
  <1>3. SampleFollows(q)
    BY DEF RoutesInv
  <1>4. jobs'[Record(q)] = jobs[Record(q)] /\ jobs'[Delete(q)] = jobs[Delete(q)]
    BY <1>1, JobsAre DEF Alone
  <1>5. ~HeldByWarmUp(q)' /\ (Has(examples, q)' => HeldByWarmUp(q))
    <2>1. ~HeldByWarmUp(q)'
      BY <1>1 DEF HeldByWarmUp, In
    <2>2. Has(examples', q) => HeldByWarmUp(q)
      BY <1>1, <1>2 DEF HeldByWarmUp
    <2> QED
      BY <2>1, <2>2
  <1>6. \A x : (In(Record(q), x)' <=> In(Record(q), x)) /\ (In(Delete(q), x)' <=> In(Delete(q), x))
    BY <1>4 DEF In
  <1>7. (Deleting(q)' <=> Deleting(q)) /\ (Gone(q)' <=> Gone(q)) /\ (Made(q)' <=> Made(q))
    BY <1>2, <1>6 DEF Deleting, Gone, Made
  <1> QED
    BY <1>2, <1>3, <1>5, <1>6, <1>7 DEF SampleFollows

\* A job that computes or stores its correction, jobs of deletions included.
LEMMA CorrectionStepKeeps ==
  ASSUME RouteConstants, RoutesInv, NEW j \in Jobs, SnapshotSamples(j) \/ StoreCalibration(j),
         NEW q \in Samples
  PROVE  SampleFollows(q)'
  <1>1. /\ Alone(j) /\ jobs[j].stage \in {"snapshot", "publish"}
        /\ jobs'[j].stage \in {"none", "publish"}
        /\ jobs'[j].stage = "publish" => UNCHANGED deleted
        /\ jobs'[j].stage = "none" => deleted' = deleted \cup {s \in Samples : j = Delete(s)}
    <2>1. CASE SnapshotSamples(j)
      <3>1. Alone(j) /\ jobs'[j].stage = "publish"
        BY <2>1, SnapshotTyped DEF RoutesInv
      <3> QED
        BY <2>1, <3>1 DEF SnapshotSamples, In
    <2>2. CASE StoreCalibration(j)
      <3>1. Alone(j) /\ jobs'[j].stage = "none"
        BY <2>2, StoreTyped DEF RoutesInv
      <3> QED
        BY <2>2, <3>1 DEF StoreCalibration, In
    <2> QED
      BY <2>1, <2>2
  <1>2. UNCHANGED <<said, table, examples, held>>
    BY DEF SnapshotSamples, StoreCalibration
  <1>3. SampleFollows(q)
    BY DEF RoutesInv
  <1>4. Made(q)' <=> Made(q)
    BY <1>2 DEF Made
  <1>5. HeldByWarmUp(q)' => HeldByWarmUp(q)
    <2>1. CASE j = WarmUp
      BY <1>1, <2>1 DEF HeldByWarmUp, In
    <2>2. CASE j # WarmUp
      <3>1. jobs'[WarmUp] = jobs[WarmUp]
        BY <1>1, <2>2, JobsAre DEF Alone
      <3> QED
        BY <3>1, WarmStays
    <2> QED
      BY <2>1, <2>2
  <1>6. Has(examples, q)' <=> Has(examples, q)
    BY <1>2
  <1>7. /\ Deleting(q)' => Deleting(q)
        /\ Gone(q)' => Gone(q)
    <2>1. CASE j = Delete(q)
      <3>1. Deleting(q) /\ Gone(q)
        BY <1>1, <2>1 DEF Deleting, Gone, In
      <3> QED
        BY <3>1
    <2>2. CASE j # Delete(q)
      <3>1. jobs'[Delete(q)] = jobs[Delete(q)] /\ (q \in deleted' <=> q \in deleted)
        BY <1>1, <2>2, JobsAre DEF Alone
      <3> QED
        BY <3>1 DEF Deleting, Gone, In
    <2> QED
      BY <2>1, <2>2
  <1>8. /\ ~In(Record(q), "none")' => ~In(Record(q), "none")
        /\ In(Record(q), "persist")' => In(Record(q), "persist")
    <2>1. CASE j = Record(q)
      BY <1>1, <2>1 DEF In
    <2>2. CASE j # Record(q)
      <3>1. jobs'[Record(q)] = jobs[Record(q)]
        BY <1>1, <2>2, JobsAre DEF Alone
      <3> QED
        BY <3>1 DEF In
    <2> QED
      BY <2>1, <2>2
  <1> QED
    BY <1>2, <1>3, <1>4, <1>5, <1>6, <1>7, <1>8 DEF SampleFollows

LEMMA CorrectionFollowsNext ==
  ASSUME RouteConstants, RoutesInv, [RouteNext]_rvars
  PROVE  CorrectionFollows'
  <1>0. /\ RoutesTyped /\ JobsOK /\ CorrectionFollows
    BY DEF RoutesInv, RoutesTyped
  <1>1. UNCHANGED routeLearning => Recompute(Snapshot(examples))' = Recompute(Snapshot(examples'))
    BY DEF Recompute
  \* A step that leaves a change to be taken up.
  <1>2. ASSUME NEW j \in Jobs, Alone(j), jobs'[j].stage \in {"persist", "snapshot"},
               ~In(j, "publish"), UNCHANGED newest
        PROVE  CorrectionFollows'
    <2>1. Changing'
      BY <1>2 DEF Changing, In
    <2>2. newest \in Jobs => In(newest, "publish")'
      <3> SUFFICES ASSUME newest \in Jobs PROVE In(newest, "publish")'
        OBVIOUS
      <3>1. In(newest, "publish")
        BY <1>0 DEF CorrectionFollows
      <3>2. newest # j
        BY <1>2, <3>1
      <3>3. jobs'[newest] = jobs[newest]
        BY <1>2, <3>2 DEF Alone
      <3>4. jobs'[newest].stage = "publish"
        BY <3>1, <3>3 DEF In
      <3> QED
        BY <1>2, <3>4 DEF In
    <2> QED
      BY <1>2, <2>1, <2>2 DEF CorrectionFollows
  \* A step that has nothing to do with the correction.
  <1>3. ASSUME NEW j \in Jobs, Alone(j), jobs[j].stage \notin {"persist", "snapshot", "publish"},
               UNCHANGED <<newest, crossed, calibration, examples, routeLearning>>
        PROVE  CorrectionFollows'
    <2>1. Changing => Changing'
      <3> SUFFICES ASSUME NEW k \in Jobs, In(k, "persist") \/ In(k, "snapshot") PROVE Changing'
        BY DEF Changing
      <3>1. k # j
        BY <1>3 DEF In
      <3>2. jobs'[k] = jobs[k]
        BY <1>3, <3>1 DEF Alone
      <3> QED
        BY <3>2 DEF Changing, In
    <2>2. newest \in Jobs => jobs'[newest] = jobs[newest] /\ In(newest, "publish")'
      <3> SUFFICES ASSUME newest \in Jobs PROVE jobs'[newest] = jobs[newest] /\ In(newest, "publish")'
        OBVIOUS
      <3>1. In(newest, "publish")
        BY <1>0 DEF CorrectionFollows
      <3>2. newest # j
        BY <1>3, <3>1 DEF In
      <3>3. jobs'[newest] = jobs[newest]
        BY <1>3, <3>2 DEF Alone
      <3>4. jobs'[newest].stage = "publish"
        BY <3>1, <3>3 DEF In
      <3> QED
        BY <1>3, <3>3, <3>4 DEF In
    <2>3. Recompute(Snapshot(examples))' = Recompute(Snapshot(examples))
      BY <1>1, <1>3
    <2> QED
      BY <1>0, <1>3, <2>1, <2>2, <2>3 DEF CorrectionFollows
  <1>4. CASE UNCHANGED rvars
    <2>1. Recompute(Snapshot(examples))' = Recompute(Snapshot(examples))
      BY <1>1, <1>4 DEF rvars
    <2>2. (Changing' <=> Changing) /\ (In(newest, "publish")' <=> In(newest, "publish"))
      BY <1>4 DEF rvars, Changing, In
    <2> QED
      BY <1>0, <1>4, <2>1, <2>2 DEF rvars, CorrectionFollows
  <1>5. ASSUME NEW s \in Samples, RecordRouteFeedback(s) PROVE CorrectionFollows'
    <2>1. Alone(Record(s)) /\ jobs'[Record(s)].stage = "persist"
      BY <1>0, <1>5, RecordTyped
    <2>2. In(Record(s), "none")
      <3>1. ~Made(s) /\ SampleFollows(s)
        BY <1>5 DEF RecordRouteFeedback, Made, RoutesInv
      <3> QED
        BY <3>1 DEF SampleFollows
    <2>3. UNCHANGED newest /\ ~In(Record(s), "publish")
      BY <1>5, <2>2 DEF RecordRouteFeedback, In
    <2> QED
      BY <1>2, <2>1, <2>3, JobsAre
  <1>6. ASSUME NEW s \in Samples, PersistRouteFeedback(s) PROVE CorrectionFollows'
    <2>1. Alone(Record(s)) /\ jobs'[Record(s)].stage = "snapshot"
      BY <1>0, <1>6, PersistTyped
    <2>2. UNCHANGED newest /\ ~In(Record(s), "publish")
      BY <1>6 DEF PersistRouteFeedback, In
    <2> QED
      BY <1>2, <2>1, <2>2, JobsAre
  <1>7. ASSUME NEW s \in Samples, RemoveExample(s) PROVE CorrectionFollows'
    <2>1. Alone(Delete(s)) /\ jobs'[Delete(s)].stage = "snapshot"
      BY <1>0, <1>7, RemoveTyped
    <2>2. UNCHANGED newest /\ ~In(Delete(s), "publish")
      BY <1>7 DEF RemoveExample, In
    <2> QED
      BY <1>2, <2>1, <2>2, JobsAre
  <1>8. ASSUME ReplaceExamples PROVE CorrectionFollows'
    <2>1. Alone(WarmUp) /\ jobs'[WarmUp].stage = "snapshot"
      BY <1>0, <1>8, ReplaceTyped
    <2>2. UNCHANGED newest /\ ~In(WarmUp, "publish")
      BY <1>8 DEF ReplaceExamples, In
    <2> QED
      BY <1>2, <2>1, <2>2, JobsAre
  <1>9. ASSUME ListRouteFeedback PROVE CorrectionFollows'
    <2>1. Alone(WarmUp)
      BY <1>0, <1>9, ListTyped
    <2>2. /\ jobs[WarmUp].stage = "list"
          /\ UNCHANGED <<newest, crossed, calibration, examples, routeLearning>>
      BY <1>9 DEF ListRouteFeedback, In
    <2> QED
      BY <1>3, <2>1, <2>2, JobsAre
  <1>10. ASSUME NEW s \in Samples, DeleteRouteFeedback(s) PROVE CorrectionFollows'
    <2>1. \/ Alone(Delete(s)) /\ jobs'[Delete(s)].stage = "remove"
          \/ UNCHANGED jobs
      BY <1>0, <1>10, DeleteTyped
    <2>2. UNCHANGED <<newest, crossed, calibration, examples, routeLearning>> /\ s \in table
      BY <1>10 DEF DeleteRouteFeedback
    <2>3. jobs[Delete(s)].stage = "none"
      <3>1. SampleFollows(s)
        BY DEF RoutesInv
      <3> QED
        BY <2>2, <3>1 DEF SampleFollows, Deleting, In
    <2>4. Alone(Delete(s))
      BY <2>1 DEF Alone
    <2> QED
      BY <1>3, <2>2, <2>3, <2>4, JobsAre
  <1>11. ASSUME NEW j \in Jobs, SnapshotSamples(j) PROVE CorrectionFollows'
    <2>1. jobs'[j].stage = "publish" /\ jobs'[j].delta = Recompute(Snapshot(examples))
      BY <1>0, <1>11, SnapshotTyped
    <2>2. newest' = j /\ UNCHANGED <<examples, routeLearning>>
      BY <1>11 DEF SnapshotSamples
    <2>3. Recompute(Snapshot(examples))' = Recompute(Snapshot(examples))
      BY <1>1, <2>2
    <2>4. j # Nobody
      BY JobsAre
    <2> QED
      BY <2>1, <2>2, <2>3, <2>4 DEF CorrectionFollows, In
  <1>12. ASSUME NEW j \in Jobs, StoreCalibration(j) PROVE CorrectionFollows'
    <2>1. Alone(j)
      BY <1>0, <1>12, StoreTyped
    <2>2. /\ jobs[j].stage = "publish" /\ calibration' = jobs[j].delta
          /\ crossed' = (j # newest) /\ newest' = (IF j = newest THEN Nobody ELSE newest)
          /\ UNCHANGED <<examples, routeLearning>>
      BY <1>12 DEF StoreCalibration, In
    <2>3. Recompute(Snapshot(examples))' = Recompute(Snapshot(examples))
      BY <1>1, <2>2
    <2>4. Changing => Changing'
      <3> SUFFICES ASSUME NEW k \in Jobs, In(k, "persist") \/ In(k, "snapshot") PROVE Changing'
        BY DEF Changing
      <3>1. k # j
        BY <2>2 DEF In
      <3>2. jobs'[k] = jobs[k]
        BY <2>1, <3>1 DEF Alone
      <3> QED
        BY <3>2 DEF Changing, In
    <2>5. CASE j = newest
      <3>1. newest' = Nobody /\ Nobody \notin Jobs
        BY <2>2, <2>5, JobsAre
      <3>2. ~Changing => calibration' = Recompute(Snapshot(examples))
        BY <1>0, <2>2, <2>5 DEF CorrectionFollows
      <3> QED
        BY <2>3, <2>4, <3>1, <3>2 DEF CorrectionFollows
    <2>6. CASE j # newest
      <3>1. newest' = newest /\ crossed'
        BY <2>2, <2>6
      <3>2. newest \in Jobs => jobs'[newest] = jobs[newest] /\ jobs'[newest].stage = "publish"
        BY <1>0, <2>1, <2>6 DEF CorrectionFollows, Alone, In
      <3>3. newest' \in Jobs => In(newest, "publish")'
        BY <3>1, <3>2 DEF In
      <3> QED
        BY <1>0, <2>3, <2>4, <3>1, <3>2, <3>3 DEF CorrectionFollows
    <2> QED
      BY <2>5, <2>6
  <1> QED
    BY <1>4, <1>5, <1>6, <1>7, <1>8, <1>9, <1>10, <1>11, <1>12 DEF RouteNext

LEMMA RoutesInvNext ==
  ASSUME RouteConstants, RoutesInv, [RouteNext]_rvars
  PROVE  RoutesInv'
  <1>1. RoutesTyped
    BY DEF RoutesInv
  <1>2. RoutesTyped'
    <2>1. CASE UNCHANGED rvars
      <3>1. JobsOK' /\ CorrectionsSmall'
        BY <1>1, <2>1 DEF rvars, RoutesTyped, JobsOK, CorrectionsSmall, In
      <3> QED
        BY <1>1, <2>1, <3>1 DEF rvars, RoutesTyped
    <2> QED
      BY <1>1, <2>1, RecordTyped, PersistTyped, DeleteTyped, RemoveTyped, ListTyped,
         ReplaceTyped,
         SnapshotTyped, StoreTyped DEF RouteNext
  <1>3. ASSUME NEW q \in Samples
        PROVE  SampleFollows(q)'
    <2>1. CASE UNCHANGED rvars
      <3>1. SampleFollows(q)
        BY DEF RoutesInv
      <3>2. (Made(q) => Made(q)') /\ (HeldByWarmUp(q)' => HeldByWarmUp(q))
        BY <2>1 DEF rvars, Made, HeldByWarmUp, In
      <3> QED
        BY <2>1, <3>1, <3>2, SampleStays DEF rvars
    <2> QED
      BY <2>1, RecordKeeps, PersistKeeps, DeleteKeeps, RemoveKeeps, ListKeeps, ReplaceKeeps,
         CorrectionStepKeeps DEF RouteNext
  <1>4. CorrectionFollows'
    BY CorrectionFollowsNext
  <1> QED
    BY <1>2, <1>3, <1>4 DEF RoutesInv

\* The types of the state of routing, whatever samples are made, deleted and
\* loaded in whatever order (route_feedback.go, route_calibration.go).
THEOREM RoutesTypeCorrect == RouteSpec => []RouteTypeOK
  <1>1. RouteInit => RoutesInv
    BY RouteConstants, RoutesInvInit
  <1>2. RoutesInv /\ [RouteNext]_rvars => RoutesInv'
    BY RouteConstants, RoutesInvNext
  <1>3. RoutesInv => RouteTypeOK
    BY RouteConstants, RoutesTypedGives DEF RoutesInv
  <1> QED
    BY <1>1, <1>2, <1>3, PTL DEF RouteSpec

LEMMA RoutingFollows ==
  ASSUME RouteConstants, RoutesInv
  PROVE  RoutingFollowsSamples
  <1>1. CalibrationFollowsSamples
    <2> SUFFICES ASSUME RoutesQuiet, ~crossed PROVE calibration = Recompute(Snapshot(examples))
      BY DEF CalibrationFollowsSamples
    <2>1. ~Changing /\ newest \notin Jobs
      BY DEF RoutesQuiet, Changing, In, RoutesInv, CorrectionFollows
    <2>2. newest = Nobody
      BY <2>1 DEF RoutesInv, RoutesTyped
    <2> QED
      BY <2>1, <2>2 DEF RoutesInv, CorrectionFollows
  <1>2. ASSUME RoutesQuiet, NEW n \in 1..examples.size
        PROVE  Snapshot(examples)[n].item \notin deleted \ held
    <2> DEFINE s == Snapshot(examples)[n].item
    <2>1. Has(examples, s)
      BY DEF Has, ItemAt
    <2> SUFFICES ASSUME s \in deleted, s \notin held PROVE FALSE
      OBVIOUS
    <2> HIDE DEF s
    <2>2. s \in Samples /\ SampleFollows(s)
      BY DEF RoutesInv, RoutesTyped
    <2> QED
      BY <2>1, <2>2 DEF SampleFollows, Gone
  <1>3. DeletedSampleForgotten
    BY <1>2 DEF DeletedSampleForgotten
  <1>4. LearningOnlyTips /\ ModelRoutesCanRun
    BY OnlyTips, ModelRoutesRun DEF RoutesInv, RoutesTyped
  <1>5. ExamplesConfirmed
    <2> SUFFICES ASSUME NEW q \in Questions, NEW embedded \in BOOLEAN
                 PROVE  LET shown == SimilarRouteFeedback(q, embedded)
                        IN  /\ \A n \in DOMAIN shown : RoutesQuiet => shown[n].item \notin deleted \ held
                            /\ \A m, n \in DOMAIN shown :
                                  m # n => SampleKey(shown[m].item) # SampleKey(shown[n].item)
      BY DEF ExamplesConfirmed
    <2> DEFINE shown == SimilarRouteFeedback(q, embedded)
               whole == Snapshot(examples)
               N == examples.size
    <2>0. CacheOK(examples, Samples, RouteCacheSize, SampleKeys)
      BY DEF RoutesInv, RoutesTyped
    <2>1. /\ DOMAIN shown = 1..Len(shown)
          /\ \A k \in 1..Len(shown) : \E m \in 1..N : shown[k] = whole[m]
          /\ \A k, l \in 1..Len(shown) : k # l =>
               \E m, n \in 1..N : m # n /\ shown[k] = whole[m] /\ shown[l] = whole[n]
      BY <2>0, ShownIs
    <2>2. \A n \in 1..N : RoutesQuiet => whole[n].item \notin deleted \ held
      BY <1>2
    <2>3. ASSUME NEW m \in 1..N, NEW n \in 1..N, m # n
          PROVE  SampleKey(whole[m].item) # SampleKey(whole[n].item)
      <3>1. SampleKeys[whole[m].item] # SampleKeys[whole[n].item]
        BY <2>0, <2>3 DEF CacheOK, ItemAt
      <3>2. \A k \in 1..N : whole[k].item \in Samples
        <4>1. whole \in Seq([item : Samples, vec : BOOLEAN]) /\ Len(whole) = N
          BY <2>0, SnapshotIs, RouteCacheSizeIs DEF CacheOK
        <4> TAKE k \in 1..N
        <4>2. whole[k] \in [item : Samples, vec : BOOLEAN]
          <5> DEFINE E == [item : Samples, vec : BOOLEAN]
          <5>1. whole \in Seq(E) /\ Len(whole) = N
            BY <4>1
          <5> HIDE DEF whole, N, E
          <5>2. whole[k] \in E
            BY <5>1
          <5> QED
            BY <5>2 DEF E
        <4> HIDE DEF whole
        <4> QED
          BY <4>2
      <3> HIDE DEF whole
      <3> QED
        BY <3>1, <3>2 DEF SampleKeys
    <2> HIDE DEF shown, whole, N
    <2>4. \A n \in DOMAIN shown : RoutesQuiet => shown[n].item \notin deleted \ held
      BY <2>1, <2>2
    <2>5. ASSUME NEW k \in DOMAIN shown, NEW l \in DOMAIN shown, k # l
          PROVE  SampleKey(shown[k].item) # SampleKey(shown[l].item)
      <3>0. k \in 1..Len(shown) /\ l \in 1..Len(shown)
        BY <2>1
      <3>1. PICK m, n \in 1..N : m # n /\ shown[k] = whole[m] /\ shown[l] = whole[n]
        BY <2>1, <2>5, <3>0, Zenon
      <3> QED
        BY <2>3, <3>1
    <2> QED
      BY <2>4, <2>5 DEF shown
  <1> QED
    BY <1>1, <1>3, <1>4, <1>5 DEF RoutingFollowsSamples

\* What routing learns from is what the samples say, deletions included, and
\* it learns no more than it should: with nothing under way the correction is
\* that of the cache, a deleted sample is no example and in no prompt, and no
\* mixture of corrections turns a question on which the rule is clear.
THEOREM RoutingLearnsFromSamples == RouteSpec => []RoutingFollowsSamples
  <1>1. RouteInit => RoutesInv
    BY RouteConstants, RoutesInvInit
  <1>2. RoutesInv /\ [RouteNext]_rvars => RoutesInv'
    BY RouteConstants, RoutesInvNext
  <1>3. RoutesInv => RoutingFollowsSamples
    BY RouteConstants, RoutingFollows
  <1> QED
    BY <1>1, <1>2, <1>3, PTL DEF RouteSpec

-----------------------------------------------------------------------------
(* The ring implements the bounded list.                                    *)

LEMMA SameSeq ==
  ASSUME NEW E, NEW r \in Seq(E), NEW s \in Seq(E), Len(r) = Len(s),
         \A n \in 1..Len(r) : r[n] = s[n]
  PROVE  r = s
  OBVIOUS

LEMMA ConcatIs ==
  ASSUME NEW E, NEW r \in Seq(E), NEW s \in Seq(E)
  PROVE  /\ r \o s \in Seq(E) /\ Len(r \o s) = Len(r) + Len(s)
         /\ \A n \in 1..Len(r) + Len(s) : (r \o s)[n] = IF n <= Len(r) THEN r[n] ELSE s[n - Len(r)]
  OBVIOUS

LEMMA TailIs ==
  ASSUME NEW E, NEW s \in Seq(E), NEW l \in Nat, NEW h \in Nat, l >= 1, l <= h + 1, h = Len(s)
  PROVE  /\ SubSeq(s, l, h) \in Seq(E)
         /\ Len(SubSeq(s, l, h)) = h - l + 1
         /\ \A n \in 1..h - l + 1 : SubSeq(s, l, h)[n] = s[l + n - 1]
  <1>1. CASE l = h + 1
    BY <1>1
  <1>2. CASE l <= h
    <2>1. l \in 1..h /\ h \in 1..Len(s)
      BY <1>2
    <2>2. Len(SubSeq(s, l, h)) = h - l + 1
      BY <2>1
    <2>3. SubSeq(s, l, h) \in Seq(E)
      BY <2>1
    <2>4. \A n \in 1..h - l + 1 : SubSeq(s, l, h)[n] = s[l + n - 1]
      BY <2>1
    <2> QED
      BY <2>2, <2>3, <2>4
  <1> QED
    BY <1>1, <1>2

\* A sequence without what was at a place of it.
Closed(out, seq, pos) ==
  /\ Len(out) = Len(seq) - 1
  /\ \A n \in 1..Len(out) : out[n] = seq[IF n <= pos THEN n ELSE n + 1]

LEMMA WithoutIs ==
  ASSUME NEW E, NEW seq \in Seq(E), NEW some
  PROVE  /\ List!Without(seq, some) \in Seq(E)
         /\ (\A n \in 1..Len(seq) : seq[n] \notin some) => List!Without(seq, some) = seq
         /\ \A pos \in 0..Len(seq) - 1 :
              /\ seq[pos + 1] \in some
              /\ \A n \in 1..Len(seq) : seq[n] \in some => n = pos + 1
              => Closed(List!Without(seq, some), seq, pos)
  <1> DEFINE N == Len(seq)
             at == CHOOSE n \in DOMAIN seq : seq[n] \in some
             out == List!Without(seq, some)
  <1>0. N \in Nat /\ DOMAIN seq = 1..N
    OBVIOUS
  <1>1. out = IF \E n \in DOMAIN seq : seq[n] \in some
              THEN SubSeq(seq, 1, at - 1) \o SubSeq(seq, at + 1, N) ELSE seq
    BY DEF List!Without, List!RemoveAt
  <1>2. CASE \A n \in 1..N : seq[n] \notin some
    <2>1. out = seq
      BY <1>0, <1>1, <1>2
    <2>2. ASSUME NEW pos \in 0..N - 1
          PROVE  seq[pos + 1] \notin some
      BY <1>0, <1>2
    <2> HIDE DEF N, out
    <2> QED
      BY <2>1, <2>2 DEF N, out
  <1>3. CASE ~(\A n \in 1..N : seq[n] \notin some)
    <2>1. at \in 1..N /\ seq[at] \in some
      BY <1>0, <1>3
    <2> HIDE DEF at
    <2> DEFINE a == SubSeq(seq, 1, at - 1)
               b == SubSeq(seq, at + 1, N)
    <2>2. out = a \o b
      BY <1>0, <1>1, <1>3
    <2>3. a \in Seq(E) /\ Len(a) = at - 1 /\ \A n \in 1..at - 1 : a[n] = seq[n]
      BY <1>0, <2>1
    <2>4. b \in Seq(E) /\ Len(b) = N - at /\ \A n \in 1..N - at : b[n] = seq[at + n]
      <3> DEFINE l == at + 1
      <3>1. l \in Nat /\ l >= 1 /\ l <= N + 1 /\ N \in Nat /\ N = Len(seq)
        BY <1>0, <2>1
      <3> HIDE DEF l, N
      <3>2. /\ SubSeq(seq, l, N) \in Seq(E)
            /\ Len(SubSeq(seq, l, N)) = N - l + 1
            /\ \A n \in 1..N - l + 1 : SubSeq(seq, l, N)[n] = seq[l + n - 1]
        BY <3>1, TailIs
      <3>3. N - l + 1 = N - at /\ \A n \in 1..N - at : l + n - 1 = at + n
        BY <1>0, <2>1 DEF l
      <3> QED
        BY <3>2, <3>3 DEF l
    <2> HIDE DEF a, b, out, N
    <2>5. out \in Seq(E) /\ Len(out) = N - 1
      <3>1. Len(out) = Len(a) + Len(b) /\ out \in Seq(E)
        BY <2>2, <2>3, <2>4, ConcatIs
      <3>2. (at - 1) + (N - at) = N - 1
        BY <1>0, <2>1
      <3> QED
        BY <2>3, <2>4, <3>1, <3>2
    <2>6. ASSUME NEW n \in 1..N - 1
          PROVE  out[n] = seq[IF n <= at - 1 THEN n ELSE n + 1]
      <3>1. out[n] = IF n <= Len(a) THEN a[n] ELSE b[n - Len(a)]
        BY <1>0, <2>1, <2>2, <2>3, <2>4
      <3>2. CASE n <= at - 1
        BY <1>0, <2>1, <2>3, <3>1, <3>2
      <3>3. CASE ~(n <= at - 1)
        <4> DEFINE k == n - Len(a)
        <4>1. k \in 1..N - at /\ at + k = n + 1
          BY <1>0, <2>1, <2>3, <3>3
        <4>2. out[n] = b[k]
          BY <1>0, <2>1, <2>3, <3>1, <3>3
        <4> HIDE DEF k
        <4>3. out[n] = seq[at + k]
          BY <2>4, <4>1, <4>2
        <4>4. out[n] = seq[n + 1]
          BY <4>1, <4>3
        <4> QED
          BY <3>3, <4>4
      <3> QED
        BY <3>2, <3>3
    <2>7. ASSUME NEW pos \in 0..N - 1, \A n \in 1..N : seq[n] \in some => n = pos + 1
          PROVE  Closed(out, seq, pos)
      <3>1. pos = at - 1
        BY <1>0, <2>1, <2>7
      <3> QED
        BY <2>5, <2>6, <3>1 DEF Closed, N
    <2> QED
      BY <1>3, <2>5, <2>7 DEF N, out
  <1> QED
    BY <1>2, <1>3

LEMMA RemovedIsClosed ==
  ASSUME NEW E, NEW c \in Nat \ {0}, NEW K, NEW ring, NEW post,
         RingOK(ring, E, c, K), RingOK(post, E, c, K), NEW pos \in 0..ring.size - 1,
         RemovedAt(post, ring, pos), NEW out \in Seq(E), Closed(out, Snapshot(ring), pos)
  PROVE  Snapshot(post) = out
  <1> DEFINE r == Snapshot(ring)
             s == Snapshot(post)
  <1>1. r \in Seq(E) /\ Len(r) = ring.size /\ s \in Seq(E) /\ Len(s) = post.size
    BY SnapshotIs
  <1>2. /\ post.size = ring.size - 1
        /\ \A n \in 1..post.size : s[n] = r[IF n <= pos THEN n ELSE n + 1]
    BY DEF RemovedAt
  <1>3. /\ Len(out) = Len(r) - 1
        /\ \A n \in 1..Len(out) : out[n] = r[IF n <= pos THEN n ELSE n + 1]
    BY DEF Closed
  <1> HIDE DEF r, s
  <1>4. Len(s) = Len(out) /\ \A n \in 1..Len(s) : s[n] = out[n]
    BY <1>1, <1>2, <1>3
  <1>5. s = out
    BY <1>1, <1>4, SameSeq
  <1> QED
    BY <1>5 DEF s

ListEntries == [item : Samples, vec : BOOLEAN]

\* The keys of the cache and those of the list are the same.
LEMMA KeysAre ==
  ASSUME NEW x \in ListEntries, NEW y \in ListEntries
  PROVE  SampleKeys[x.item] = SampleKeys[y.item] <=> SampleKey(x.item) = SampleKey(y.item)
  <1>1. x.item \in Samples /\ y.item \in Samples
    BY DEF ListEntries
  <1> QED
    BY <1>1 DEF SampleKeys

Cached(ring) == CacheOK(ring, Samples, RouteCacheSize, SampleKeys)

LEMMA CachedIs ==
  ASSUME RouteConstants, NEW ring, Cached(ring)
  PROVE  /\ RingOK(ring, ListEntries, RouteCacheSize, SampleKeys)
         /\ Snapshot(ring) \in Seq(ListEntries) /\ Len(Snapshot(ring)) = ring.size
         /\ ring.size \in 0..RouteCacheSize /\ ring.capacity = RouteCacheSize
         /\ \A m, n \in 1..ring.size :
              SampleKey(Snapshot(ring)[m].item) = SampleKey(Snapshot(ring)[n].item) => m = n
         /\ \A n \in 1..ring.size : Snapshot(ring)[n] \in ListEntries
  <1>1. /\ RingOK(ring, ListEntries, RouteCacheSize, SampleKeys)
        /\ \A m, n \in 1..ring.size :
             SampleKeys[Snapshot(ring)[m].item] = SampleKeys[Snapshot(ring)[n].item] => m = n
    BY DEF Cached, CacheOK, ItemAt, ListEntries
  <1>2. Snapshot(ring) \in Seq(ListEntries) /\ Len(Snapshot(ring)) = ring.size
    BY <1>1, SnapshotIs, RouteCacheSizeIs
  <1>3. ring.size \in 0..RouteCacheSize /\ ring.capacity = RouteCacheSize
    BY <1>1, SizeIs, RouteCacheSizeIs
  <1>4. \A n \in 1..ring.size : Snapshot(ring)[n] \in ListEntries
    BY <1>2
  <1>5. \A m, n \in 1..ring.size :
           SampleKey(Snapshot(ring)[m].item) = SampleKey(Snapshot(ring)[n].item) => m = n
    BY <1>1, <1>4, KeysAre
  <1> QED
    BY <1>1, <1>2, <1>3, <1>4, <1>5

LEMMA WellIs ==
  ASSUME RouteConstants, NEW ring, Cached(ring)
  PROVE  List!WellFormed(Snapshot(ring))
  <1> DEFINE r == Snapshot(ring)
  <1>1. /\ r \in Seq(ListEntries) /\ Len(r) = ring.size /\ ring.size \in 0..RouteCacheSize
        /\ \A m, n \in 1..ring.size : SampleKey(r[m].item) = SampleKey(r[n].item) => m = n
    BY CachedIs
  <1>2. RouteCacheSize \in Nat
    BY RouteCacheSizeIs
  <1> HIDE DEF r
  <1>3. DOMAIN r = 1..ring.size /\ Len(r) <= RouteCacheSize
    BY <1>1, <1>2
  <1> QED
    BY <1>1, <1>3 DEF List!WellFormed, r

\* Add inserts.
LEMMA InsertIs ==
  ASSUME RouteConstants, NEW ring, Cached(ring), NEW e \in ListEntries
  PROVE  Snapshot(Add(ring, e)) =
           List!First(<<e>> \o List!Without(Snapshot(ring),
                                  {x \in List!Entries : SampleKey(x.item) = SampleKey(e.item)}),
                      RouteCacheSize)
  <1> DEFINE c == RouteCacheSize
             E == ListEntries
             r == Snapshot(ring)
             post == Add(ring, e)
             some == {x \in List!Entries : SampleKey(x.item) = SampleKey(e.item)}
             out == List!Without(r, some)
             s == Snapshot(post)
  <1>0. c \in Nat \ {0} /\ List!Entries = E
    BY RouteCacheSizeIs DEF List!Entries, ListEntries
  <1>1. /\ RingOK(ring, E, c, SampleKeys)
        /\ r \in Seq(E) /\ Len(r) = ring.size /\ ring.size \in 0..c
        /\ \A m, n \in 1..ring.size : SampleKey(r[m].item) = SampleKey(r[n].item) => m = n
        /\ \A n \in 1..ring.size : r[n] \in E
        /\ ring.keyOf = SampleKeys
    <2>1. ring.keyOf = SampleKeys
      BY CachedIs, SizeIs, RouteCacheSizeIs
    <2> QED
      BY <2>1, CachedIs
  <1>2. /\ RingOK(post, E, c, SampleKeys)
        /\ \E mid : /\ RingOK(mid, E, c, SampleKeys)
                    /\ KeyRemoved(mid, ring, SampleKeys[e.item]) /\ Prepended(post, mid, e)
    <2> HIDE DEF E, c
    <2>1. e \in E
      BY DEF E
    <2> QED
      BY <1>0, <1>1, <2>1, AddIs
  <1>3. PICK mid : /\ RingOK(mid, E, c, SampleKeys)
                   /\ KeyRemoved(mid, ring, SampleKeys[e.item]) /\ Prepended(post, mid, e)
    BY <1>2
  <1>4. \A n \in 1..ring.size : SampleKeys[ItemAt(ring, n)] = SampleKeys[e.item] <=> r[n] \in some
    <2> TAKE n \in 1..ring.size
    <2>1. r[n] \in E /\ e \in E
      BY <1>1
    <2>2. SampleKeys[r[n].item] = SampleKeys[e.item] <=> SampleKey(r[n].item) = SampleKey(e.item)
      BY <2>1, KeysAre
    <2> QED
      BY <1>0, <2>1, <2>2 DEF ItemAt
  <1>5. \A m, n \in 1..ring.size : r[m] \in some /\ r[n] \in some => m = n
    BY <1>1
  <1> HIDE DEF some, r, post, E, c
  <1>6. /\ out \in Seq(E)
        /\ (\A n \in 1..Len(r) : r[n] \notin some) => out = r
        /\ \A pos \in 0..Len(r) - 1 :
             /\ r[pos + 1] \in some
             /\ \A n \in 1..Len(r) : r[n] \in some => n = pos + 1
             => Closed(out, r, pos)
    BY <1>1, WithoutIs
  <1> HIDE DEF out
  <1>7. Snapshot(mid) = out
    <2>1. CASE mid = ring /\ \A n \in 1..ring.size : ring.keyOf[ItemAt(ring, n)] # SampleKeys[e.item]
      <3>1. \A n \in 1..ring.size : r[n] \notin some
        BY <1>1, <1>4, <2>1
      <3> QED
        BY <1>1, <1>6, <2>1, <3>1 DEF r
    <2>2. ASSUME NEW pos \in 0..ring.size - 1,
                 ring.keyOf[ItemAt(ring, pos + 1)] = SampleKeys[e.item], RemovedAt(mid, ring, pos)
          PROVE  Snapshot(mid) = out
      <3>1. pos + 1 \in 1..ring.size
        BY <1>1
      <3>2. r[pos + 1] \in some
        BY <1>1, <1>4, <2>2, <3>1
      <3>3. \A n \in 1..ring.size : r[n] \in some => n = pos + 1
        BY <1>5, <3>1, <3>2
      <3>4. Closed(out, r, pos)
        BY <1>1, <1>6, <3>2, <3>3
      <3> QED
        BY <1>0, <1>1, <1>3, <1>6, <2>2, <3>4, RemovedIsClosed DEF r
    <2> QED
      BY <1>3, <2>1, <2>2 DEF KeyRemoved
  <1>8. /\ out \in Seq(E) /\ Len(out) = mid.size /\ mid.size \in 0..c /\ mid.capacity = c
        /\ s \in Seq(E) /\ Len(s) = post.size
    <2>1. Snapshot(mid) \in Seq(E) /\ Len(Snapshot(mid)) = mid.size
      BY <1>0, <1>3, SnapshotIs
    <2>2. mid.size \in 0..c /\ mid.capacity = c
      BY <1>0, <1>3, SizeIs
    <2>3. s \in Seq(E) /\ Len(s) = post.size
      BY <1>0, <1>2, SnapshotIs
    <2> HIDE DEF s
    <2> QED
      BY <1>7, <2>1, <2>2, <2>3
  <1>9. /\ post.size = IF mid.size < c THEN mid.size + 1 ELSE c
        /\ s[1] = e
        /\ \A n \in 2..post.size : s[n] = out[n - 1]
    BY <1>3, <1>7, <1>8 DEF Prepended
  <1> HIDE DEF s
  <1> DEFINE longer == <<e>> \o out
             cut == List!First(longer, c)
  <1>10. /\ longer \in Seq(E) /\ Len(longer) = mid.size + 1
         /\ \A n \in 1..mid.size + 1 : longer[n] = IF n = 1 THEN e ELSE out[n - 1]
    <2>1. <<e>> \in Seq(E) /\ Len(<<e>>) = 1 /\ <<e>>[1] = e
      BY DEF E
    <2> DEFINE one == <<e>>
    <2> HIDE DEF one
    <2>2. /\ one \o out \in Seq(E) /\ Len(one \o out) = Len(one) + Len(out)
          /\ \A n \in 1..Len(one) + Len(out) :
                (one \o out)[n] = IF n <= Len(one) THEN one[n] ELSE out[n - Len(one)]
      BY <1>8, <2>1, ConcatIs DEF one
    <2>3. Len(one) = 1 /\ one[1] = e
      BY <2>1 DEF one
    <2> DEFINE l == one \o out
    <2> HIDE DEF l
    <2>4. /\ Len(l) = mid.size + 1 /\ l \in Seq(E)
          /\ \A n \in 1..mid.size + 1 : l[n] = IF n = 1 THEN e ELSE out[n - 1]
      <3>1. mid.size \in Nat /\ Len(out) = mid.size
        BY <1>0, <1>8
      <3>2. Len(l) = 1 + mid.size /\ \A n \in 1..1 + mid.size : l[n] = IF n <= 1 THEN one[n] ELSE out[n - 1]
        BY <2>2, <2>3, <3>1 DEF l
      <3>3. \A n \in 1..mid.size + 1 : n \in 1..1 + mid.size /\ (n <= 1 <=> n = 1)
        BY <3>1
      <3> QED
        BY <2>2, <2>3, <3>1, <3>2, <3>3 DEF l
    <2> QED
      BY <2>4 DEF l, one
  <1> HIDE DEF longer
  <1>11. cut \in Seq(E) /\ Len(cut) = post.size /\ \A n \in 1..post.size : cut[n] = longer[n]
    <2>0. c \in Nat /\ mid.size \in Nat /\ mid.size <= c
      BY <1>0, <1>8
    <2>1. CASE mid.size < c
      <3>1. cut = longer
        BY <1>10, <2>0, <2>1 DEF List!First
      <3> QED
        BY <1>9, <1>10, <2>1, <3>1
    <2>2. CASE mid.size = c
      <3>1. cut = SubSeq(longer, 1, c)
        BY <1>10, <2>0, <2>2 DEF List!First
      <3>2. c <= Len(longer) /\ post.size = c
        BY <1>9, <1>10, <2>0, <2>2
      <3> QED
        BY <1>10, <2>0, <3>1, <3>2
    <2> QED
      BY <2>0, <2>1, <2>2
  <1>12. \A n \in 1..post.size : cut[n] = s[n]
    <2> TAKE n \in 1..post.size
    <2>0. n \in 1..mid.size + 1 /\ n \in Nat
      BY <1>0, <1>8, <1>9
    <2>1. cut[n] = IF n = 1 THEN e ELSE out[n - 1]
      BY <1>10, <1>11, <2>0
    <2>2. n # 1 => n \in 2..post.size
      BY <2>0
    <2> HIDE DEF cut
    <2> QED
      BY <1>9, <2>1, <2>2
  <1> HIDE DEF cut
  <1>13. s = cut
    BY <1>8, <1>11, <1>12, SameSeq
  <1> QED
    BY <1>13 DEF s, cut, longer, out, r, some, post, c

\* RemoveMatching drops.
LEMMA DropIs ==
  ASSUME RouteConstants, NEW ring, Cached(ring), NEW x \in Samples
  PROVE  Snapshot(RemoveMatching(ring, {x})) =
           List!Without(Snapshot(ring), {y \in List!Entries : y.item = x})
  <1> DEFINE c == RouteCacheSize
             E == ListEntries
             r == Snapshot(ring)
             post == RemoveMatching(ring, {x})
             some == {y \in List!Entries : y.item = x}
             out == List!Without(r, some)
  <1>0. c \in Nat \ {0} /\ List!Entries = E
    BY RouteCacheSizeIs DEF List!Entries, ListEntries
  <1>1. /\ RingOK(ring, E, c, SampleKeys)
        /\ r \in Seq(E) /\ Len(r) = ring.size /\ ring.size \in 0..c
        /\ \A m, n \in 1..ring.size : SampleKey(r[m].item) = SampleKey(r[n].item) => m = n
        /\ \A n \in 1..ring.size : r[n] \in E
    BY CachedIs
  <1>2. \A n \in 1..ring.size : ItemAt(ring, n) = r[n].item /\ (r[n].item \in {x} <=> r[n] \in some)
    BY <1>0, <1>1 DEF ItemAt
  <1>3. \A m, n \in 1..ring.size : r[m].item \in {x} /\ r[n].item \in {x} => m = n
    BY <1>1
  <1>4. \A m, n \in 1..ring.size : ItemAt(ring, m) \in {x} /\ ItemAt(ring, n) \in {x} => m = n
    BY <1>2, <1>3
  <1>5. RingOK(post, E, c, SampleKeys) /\ MatchRemoved(post, ring, {x})
    <2> DEFINE items == {x}
    <2>1. \A m, n \in 1..ring.size : ItemAt(ring, m) \in items /\ ItemAt(ring, n) \in items => m = n
      BY <1>4
    <2> HIDE DEF items, E, c
    <2> QED
      BY <1>0, <1>1, <2>1, RemoveMatchingIs DEF items
  <1> HIDE DEF some, r, post, E, c
  <1>6. /\ out \in Seq(E)
        /\ (\A n \in 1..Len(r) : r[n] \notin some) => out = r
        /\ \A pos \in 0..Len(r) - 1 :
             /\ r[pos + 1] \in some
             /\ \A n \in 1..Len(r) : r[n] \in some => n = pos + 1
             => Closed(out, r, pos)
    BY <1>1, WithoutIs
  <1> HIDE DEF out
  <1>7. Snapshot(post) = out
    <2>1. CASE post = ring /\ \A n \in 1..ring.size : ItemAt(ring, n) \notin {x}
      <3>1. \A n \in 1..ring.size : r[n] \notin some
        BY <1>2, <2>1
      <3> QED
        BY <1>1, <1>6, <2>1, <3>1 DEF r
    <2>2. ASSUME NEW pos \in 0..ring.size - 1,
                 ItemAt(ring, pos + 1) \in {x}, RemovedAt(post, ring, pos)
          PROVE  Snapshot(post) = out
      <3>1. pos + 1 \in 1..ring.size
        BY <1>1
      <3>2. r[pos + 1] \in some
        BY <1>2, <2>2, <3>1
      <3>3. \A n \in 1..ring.size : r[n] \in some => n = pos + 1
        BY <1>2, <1>3, <3>1, <3>2
      <3>4. Closed(out, r, pos)
        BY <1>1, <1>6, <3>2, <3>3
      <3> QED
        BY <1>0, <1>1, <1>5, <1>6, <2>2, <3>4, RemovedIsClosed DEF r
    <2> QED
      BY <1>5, <2>1, <2>2 DEF MatchRemoved
  <1> QED
    BY <1>7 DEF post, out, r, some

LEMMA VectorOf ==
  ASSUME NEW I, NEW y \in [item : I, vec : BOOLEAN], NEW x, y.item = x
  PROVE  [y EXCEPT !.vec = TRUE] = [item |-> x, vec |-> TRUE]
  <1> DEFINE z == [y EXCEPT !.vec = TRUE]
  <1>1. z \in [item : I, vec : BOOLEAN]
    OBVIOUS
  <1>2. z.item = x /\ z.vec = TRUE
    OBVIOUS
  <1> HIDE DEF z
  <1>3. z = [item |-> x, vec |-> TRUE]
    BY <1>1, <1>2
  <1> QED
    BY <1>3 DEF z

\* UpdateVector fills.
LEMMA FillIs ==
  ASSUME RouteConstants, NEW ring, Cached(ring), NEW x \in Samples
  PROVE  Snapshot(UpdateVector(ring, x)) =
           [n \in DOMAIN Snapshot(ring) |-> IF Snapshot(ring)[n].item = x
                                            THEN [Snapshot(ring)[n] EXCEPT !.vec = TRUE]
                                            ELSE Snapshot(ring)[n]]
  <1> DEFINE c == RouteCacheSize
             E == ListEntries
             r == Snapshot(ring)
             post == UpdateVector(ring, x)
             s == Snapshot(post)
             out == [n \in DOMAIN r |-> IF r[n].item = x THEN [r[n] EXCEPT !.vec = TRUE] ELSE r[n]]
  <1>0. c \in Nat \ {0}
    BY RouteCacheSizeIs
  <1>1. /\ RingOK(ring, E, c, SampleKeys)
        /\ r \in Seq(E) /\ Len(r) = ring.size /\ ring.size \in 0..c
        /\ \A n \in 1..ring.size : r[n] \in E
    BY CachedIs
  <1>2. RingOK(post, E, c, SampleKeys) /\ VectorSet(post, ring, x)
    <2>1. RingOK(ring, [item : Samples, vec : BOOLEAN], c, SampleKeys)
      BY <1>1 DEF ListEntries
    <2>2. /\ RingOK(post, [item : Samples, vec : BOOLEAN], c, SampleKeys)
          /\ VectorSet(post, ring, x)
      <3> HIDE DEF c
      <3> QED
        BY <1>0, <2>1, UpdateVectorIs
    <2> QED
      BY <2>2 DEF ListEntries
  <1>3. s \in Seq(E) /\ Len(s) = post.size
    BY <1>0, <1>2, SnapshotIs
  <1>4. /\ post.size = ring.size
        /\ \A n \in 1..ring.size : s[n] = IF r[n].item = x THEN [item |-> x, vec |-> TRUE] ELSE r[n]
    BY <1>2 DEF VectorSet, ItemAt
  <1> HIDE DEF r, s, c
  <1>5. ASSUME NEW n \in 1..ring.size, r[n].item = x
        PROVE  [r[n] EXCEPT !.vec = TRUE] = [item |-> x, vec |-> TRUE]
    <2>1. r[n] \in [item : Samples, vec : BOOLEAN]
      BY <1>1 DEF ListEntries
    <2> DEFINE y == r[n]
    <2>2. y \in [item : Samples, vec : BOOLEAN] /\ y.item = x
      BY <1>5, <2>1
    <2> HIDE DEF y
    <2>3. [y EXCEPT !.vec = TRUE] = [item |-> x, vec |-> TRUE]
      BY <2>2, VectorOf
    <2> QED
      BY <2>3 DEF y
  <1>6. DOMAIN r = 1..ring.size /\ DOMAIN s = 1..ring.size
    BY <1>1, <1>3, <1>4
  <1>7. \A n \in 1..ring.size : out[n] = s[n]
    BY <1>4, <1>5, <1>6
  <1>8. s = [n \in 1..ring.size |-> s[n]]
    BY <1>3, <1>6
  <1>9. out = [n \in 1..ring.size |-> out[n]]
    BY <1>6
  <1>10. s = out
    <2> HIDE DEF out
    <2> QED
      BY <1>7, <1>8, <1>9
  <1> QED
    BY <1>10 DEF s, out, r

\* The list of the examples and who has loaded it, as the refinement maps them.
ListOf == [o \in {"agent"} |-> Snapshot(examples)]
LoadedBy == IF In(WarmUp, "list") \/ In(WarmUp, "replace") THEN {} ELSE {"agent"}

LEMMA ListNextIs ==
  ASSUME \/ \E e \in List!Entries : List!Insert("agent", e)
         \/ \E x \in Samples : List!Drop("agent", x) \/ List!Fill("agent", x)
         \/ List!Load("agent")
  PROVE  List!Next
  BY DEF List!Next

LEMMA LoadedStays ==
  ASSUME NEW j \in Jobs, Alone(j), j # WarmUp
  PROVE  LoadedBy' = LoadedBy
  <1>1. jobs'[WarmUp] = jobs[WarmUp]
    BY JobsAre DEF Alone
  <1> QED
    BY <1>1 DEF LoadedBy, In

LEMMA ListRests ==
  ASSUME ListOf' = ListOf, LoadedBy' = LoadedBy
  PROVE  UNCHANGED List!lvars
  BY DEF List!lvars, ListOf, LoadedBy

LEMMA ListStep ==
  ASSUME RouteConstants, RoutesInv, [RouteNext]_rvars
  PROVE  [List!Next]_List!lvars
  <1>0. RoutesTyped /\ Cached(examples)
    BY DEF RoutesInv, RoutesTyped, Cached
  <1>1. ListOf' = ListOf /\ LoadedBy' = LoadedBy => UNCHANGED List!lvars
    BY ListRests
  <1>2. examples' = examples => ListOf' = ListOf
    BY DEF ListOf
  <1>3. ASSUME NEW j \in Jobs, Alone(j), j # WarmUp, examples' = examples
        PROVE  [List!Next]_List!lvars
    <2>1. ListOf' = ListOf /\ LoadedBy' = LoadedBy
      BY <1>2, <1>3, LoadedStays
    <2> QED
      BY <1>1, <2>1
  <1>4. CASE UNCHANGED rvars
    <2>1. ListOf' = ListOf /\ LoadedBy' = LoadedBy
      BY <1>2, <1>4 DEF rvars, LoadedBy, In
    <2> QED
      BY <1>1, <2>1
  <1>5. ASSUME NEW s \in Samples, RecordRouteFeedback(s) PROVE List!Next
    <2> DEFINE e == [item |-> s, vec |-> FALSE]
    <2>1. LoadedBy' = LoadedBy
      BY <1>0, <1>5, RecordTyped, JobsAre, LoadedStays
    <2>2. examples' = Add(examples, e)
      BY <1>5 DEF RecordRouteFeedback
    <2>3. e \in ListEntries /\ e \in List!Entries
      BY DEF ListEntries, List!Entries
    <2> HIDE DEF e
    <2>4. Snapshot(Add(examples, e)) =
             List!First(<<e>> \o List!Without(Snapshot(examples),
                                    {x \in List!Entries : SampleKey(x.item) = SampleKey(e.item)}),
                        RouteCacheSize)
      BY <1>0, <2>3, InsertIs
    <2>5. List!Insert("agent", e)
      BY <2>1, <2>2, <2>4 DEF List!Insert, LoadedBy
    <2> QED
      BY <2>3, <2>5, ListNextIs
  <1>6. ASSUME NEW s \in Samples, PersistRouteFeedback(s) PROVE [List!Next]_List!lvars
    <2>1. Alone(Record(s)) /\ Record(s) \in Jobs /\ Record(s) # WarmUp
      BY <1>0, <1>6, PersistTyped, JobsAre
    <2>2. examples' = UpdateVector(examples, s) \/ examples' = examples
      BY <1>6 DEF PersistRouteFeedback
    <2>3. CASE examples' = UpdateVector(examples, s)
      <3>1. Snapshot(UpdateVector(examples, s)) =
              [n \in DOMAIN Snapshot(examples) |-> IF Snapshot(examples)[n].item = s
                                                   THEN [Snapshot(examples)[n] EXCEPT !.vec = TRUE]
                                                   ELSE Snapshot(examples)[n]]
        BY <1>0, FillIs
      <3>2. LoadedBy' = LoadedBy
        BY <2>1, LoadedStays
      <3>3. List!Fill("agent", s)
        BY <2>3, <3>1, <3>2 DEF List!Fill, LoadedBy
      <3> QED
        BY <3>3, ListNextIs
    <2>4. CASE examples' = examples
      BY <1>3, <2>1, <2>4
    <2> QED
      BY <2>2, <2>3, <2>4
  <1>7. ASSUME NEW s \in Samples, DeleteRouteFeedback(s) PROVE [List!Next]_List!lvars
    <2>1. examples' = examples
      BY <1>7 DEF DeleteRouteFeedback
    <2>2. \/ Alone(Delete(s)) /\ jobs'[Delete(s)].stage = "remove" /\ table' = table \ {s}
          \/ UNCHANGED <<jobs, table>>
      BY <1>0, <1>7, DeleteTyped
    <2>3. Alone(Delete(s)) /\ Delete(s) \in Jobs /\ Delete(s) # WarmUp
      BY <2>2, JobsAre DEF Alone
    <2> QED
      BY <1>3, <2>1, <2>3
  <1>8. ASSUME NEW s \in Samples, RemoveExample(s) PROVE List!Next
    <2>1. LoadedBy' = LoadedBy
      BY <1>0, <1>8, RemoveTyped, JobsAre, LoadedStays
    <2>2. examples' = RemoveMatching(examples, {s})
      BY <1>8 DEF RemoveExample
    <2>3. Snapshot(RemoveMatching(examples, {s})) =
            List!Without(Snapshot(examples), {y \in List!Entries : y.item = s})
      BY <1>0, DropIs
    <2>4. List!Drop("agent", s)
      BY <2>1, <2>2, <2>3 DEF List!Drop, LoadedBy
    <2> QED
      BY <2>4, ListNextIs
  <1>9. ASSUME In(WarmUp, "list") \/ In(WarmUp, "replace"),
               jobs'[WarmUp].stage \notin {"list", "replace"}, Cached(examples')
        PROVE  List!Next
    <2>1. LoadedBy = {} /\ LoadedBy' = {"agent"}
      BY <1>9 DEF LoadedBy, In
    <2>2. List!WellFormed(Snapshot(examples'))
      BY <1>9, WellIs
    <2>3. List!Load("agent")
      BY <2>1, <2>2 DEF List!Load, LoadedBy
    <2> QED
      BY <2>3, ListNextIs
  <1>10. ASSUME ListRouteFeedback PROVE [List!Next]_List!lvars
    <2>1. /\ examples' = examples /\ In(WarmUp, "list")
          /\ jobs'[WarmUp].stage \in {"none", "replace"}
      BY <1>0, <1>10, ListTyped DEF ListRouteFeedback
    <2>2. CASE jobs'[WarmUp].stage = "none"
      <3>1. Cached(examples')
        BY <1>0, <2>1
      <3> QED
        BY <1>9, <2>1, <2>2, <3>1
    <2>3. CASE jobs'[WarmUp].stage = "replace"
      <3>1. LoadedBy' = LoadedBy
        BY <2>1, <2>3 DEF LoadedBy, In
      <3> QED
        BY <1>1, <1>2, <2>1, <3>1
    <2> QED
      BY <2>1, <2>2, <2>3
  <1>11. ASSUME ReplaceExamples PROVE List!Next
    <2>1. In(WarmUp, "replace") /\ jobs'[WarmUp].stage = "snapshot" /\ RoutesTyped'
      BY <1>0, <1>11, ReplaceTyped DEF ReplaceExamples
    <2>2. Cached(examples')
      BY <2>1 DEF RoutesTyped, Cached
    <2> QED
      BY <1>9, <2>1, <2>2
  <1>12. ASSUME NEW j \in Jobs, SnapshotSamples(j) \/ StoreCalibration(j)
         PROVE  [List!Next]_List!lvars
    <2>1. /\ Alone(j) /\ examples' = examples
          /\ jobs[j].stage \in {"snapshot", "publish"} /\ jobs'[j].stage \in {"publish", "none"}
      BY <1>0, <1>12, SnapshotTyped, StoreTyped DEF SnapshotSamples, StoreCalibration, In
    <2>2. CASE j # WarmUp
      BY <1>3, <2>1, <2>2
    <2>3. CASE j = WarmUp
      <3>1. LoadedBy' = LoadedBy
        BY <2>1, <2>3 DEF LoadedBy, In
      <3> QED
        BY <1>1, <1>2, <2>1, <3>1
    <2> QED
      BY <2>2, <2>3
  <1> QED
    BY <1>4, <1>5, <1>6, <1>7, <1>8, <1>10, <1>11, <1>12 DEF RouteNext

\* The ring with its indices behaves as the bounded list: whatever is added,
\* removed, loaded or given its vector, the entries are those of the list.
THEOREM RingIsBoundedList == RouteSpec => ExamplesAreBoundedList
  <1>1. RouteInit => RoutesInv
    BY RouteConstants, RoutesInvInit
  <1>2. RoutesInv /\ [RouteNext]_rvars => RoutesInv'
    BY RouteConstants, RoutesInvNext
  <1>3. RouteInit => List!Init
    <2> SUFFICES ASSUME RouteInit PROVE List!Init
      OBVIOUS
    <2>1. Snapshot(examples) = <<>>
      <3>1. examples = NewBoundedCache(RouteCacheSize, SampleKeys)
        BY DEF RouteInit, Examples, SampleKeys
      <3> QED
        BY <3>1, RouteConstants, NewIs, RouteCacheSizeIs
    <2> QED
      BY <2>1 DEF List!Init
  <1>4. RoutesInv /\ [RouteNext]_rvars => [List!Next]_List!lvars
    BY RouteConstants, ListStep
  <1> QED
    BY <1>1, <1>2, <1>3, <1>4, PTL DEF RouteSpec, ExamplesAreBoundedList, List!Spec

------------------------------------------------------------------------------
(* The diagnosis loop.                                                      *)

USE OptionsAssumption

\* The bound of the steps, the one product of the module, is a number.
LEMMA CapIsNat == Cap \in Nat /\ Cap >= MaxSteps
<1>1. MaxReflections * MaxReflectionSteps \in Nat
  OBVIOUS
<1> QED BY <1>1 DEF Cap

\* What holds between the counter of the loop and the calls of think.
Stepping ==
  /\ pc \in {"reassess", "think", "reflect"} \cup Batching => step < maxSteps
  /\ pc \in {"plan", "head", "reassess", "think"} => thinks <= step
  /\ pc \in {"reflect"} \cup Batching => thinks <= step + 1
  /\ thinks <= Cap

\* Why the counters stay in their types.
Counting ==
  /\ pc \notin {"final", "ended"} => errStreak < MaxToolErrors
  /\ pc = "reassess" => replans < MaxReplans

\* A run above its budget has only rewritten weak answers since.
Spending ==
  /\ budget < 2 => overThinks = 0
  /\ pc \notin {"final", "ended"} => overThinks <= rewrites
  /\ overThinks <= rewrites + 1

\* seen is the history, and no call under way is in it.
Querying ==
  /\ succeeded = seen
  /\ pc \in Batching => \A n \in DOMAIN batch : batch[n].key \notin seen
  /\ repeated = FALSE

\* As long as the database works, phase C leaves no row RUNNING behind it.
Settling ==
  /\ pc = "execute" => next = 1
  /\ dbFailed = FALSE =>
       /\ left = FALSE
       /\ pc = "settle" => \A n \in DOMAIN batch : n < next => batch[n].row # "RUNNING"
       /\ pc \notin {"create", "execute", "settle"} /\ outcome # "dead" => ~Running
  /\ pc # "ended" => outcome = "none"

IInv == TypeOK /\ Stepping /\ Counting /\ Spending /\ Querying /\ Settling /\ DeadMeansCancelled

-----------------------------------------------------------------------------
LEMMA InitInv == Init => IInv
<1> SUFFICES ASSUME Init PROVE IInv
  OBVIOUS
<1>1. batch \in Seq(Call) /\ DOMAIN batch = {}
  BY DEF Init
<1>2. TypeOK
  <2>1. /\ ctxDone \in BOOLEAN /\ fresh \in BOOLEAN
        /\ repeated \in BOOLEAN /\ dbFailed \in BOOLEAN /\ left \in BOOLEAN
    BY Zenon DEF Init
  <2>2. /\ pc \in Places /\ outcome \in {"none", "answer", "error", "dead"}
        /\ seen \in SUBSET Keys /\ succeeded \in SUBSET Keys
    BY DEF Init, Places, Batching
  <2>3. /\ step \in 0..Cap /\ maxSteps \in 1..Cap
        /\ reflections \in 0..MaxReflections /\ rewrites \in 0..MaxRewrites
        /\ errStreak \in 0..MaxToolErrors /\ replans \in 0..MaxReplans /\ lastReplan \in 0..Cap
        /\ budget \in 0..2 /\ next \in Nat /\ thinks \in Nat /\ overThinks \in Nat
    BY CapIsNat DEF Init
  <2> QED BY <1>1, <2>1, <2>2, <2>3 DEF TypeOK
<1>3. Stepping /\ Counting /\ Spending
  BY CapIsNat DEF Init, Stepping, Counting, Spending, Batching
<1>4. Querying /\ Settling /\ DeadMeansCancelled
  BY <1>1 DEF Init, Querying, Settling, Batching, DeadMeansCancelled, Running
<1> QED BY <1>2, <1>3, <1>4 DEF IInv

-----------------------------------------------------------------------------
\* A planned batch is a sequence of calls, and so is one whose rows or results
\* were filled in.
LEMMA BatchType ==
  ASSUME TypeOK
  PROVE  /\ \A row \in Rows : SetRow(row) => batch' \in Seq(Call)
         /\ \A planned \in Batches :
              [n \in DOMAIN planned |-> Planned(planned[n])] \in Seq(Call)
         /\ \A results \in [DOMAIN batch -> {"ok", "error"}] :
              [n \in DOMAIN batch |-> [batch[n] EXCEPT !.result = results[n]]] \in Seq(Call)
<1>1. batch \in Seq(Call)
  BY DEF TypeOK
<1>2. PICK len \in Nat : batch \in [1..len -> Call]
  BY <1>1
<1>3. \A row \in Rows : [batch EXCEPT ![next].row = row] \in [1..len -> Call]
  BY <1>2 DEF Call, TypeOK
<1>4. \A results \in [1..len -> {"ok", "error"}] :
        [n \in 1..len |-> [batch[n] EXCEPT !.result = results[n]]] \in [1..len -> Call]
  BY <1>2 DEF Call, Results
<1>5. ASSUME NEW planned \in Batches
      PROVE  [n \in DOMAIN planned |-> Planned(planned[n])] \in Seq(Call)
  <2>1. PICK size \in 0..MaxBatch : planned \in [1..size -> Keys]
    BY DEF Batches
  <2>2. [n \in 1..size |-> Planned(planned[n])] \in [1..size -> Call]
    BY <2>1 DEF Planned, Call, Rows, Results
  <2>3. size \in Nat /\ DOMAIN planned = 1..size
    BY <2>1
  <2> QED BY <2>2, <2>3
<1>6. DOMAIN batch = 1..len
  BY <1>2
<1>7. [1..len -> Call] \subseteq Seq(Call)
  OBVIOUS
<1>8. \A results \in [DOMAIN batch -> {"ok", "error"}] :
        [n \in DOMAIN batch |-> [batch[n] EXCEPT !.result = results[n]]] \in Seq(Call)
  BY <1>4, <1>6, <1>7
<1>9. ASSUME NEW row \in Rows, SetRow(row) PROVE batch' \in Seq(Call)
  BY <1>3, <1>7, <1>9 DEF SetRow
<1> QED BY <1>5, <1>8, <1>9

\* TypeOK in parts: the numbers, the rest, the Booleans.
Numbers ==
  /\ step \in 0..Cap /\ maxSteps \in 1..Cap
  /\ reflections \in 0..MaxReflections
  /\ rewrites \in 0..MaxRewrites
  /\ errStreak \in 0..MaxToolErrors
  /\ replans \in 0..MaxReplans /\ lastReplan \in 0..Cap
  /\ budget \in 0..2
  /\ next \in Nat
  /\ thinks \in Nat /\ overThinks \in Nat
Others ==
  /\ pc \in Places
  /\ outcome \in {"none", "answer", "error", "dead"}
  /\ seen \in SUBSET Keys /\ succeeded \in SUBSET Keys
  /\ batch \in Seq(Call)
Flags ==
  /\ ctxDone \in BOOLEAN /\ fresh \in BOOLEAN
  /\ repeated \in BOOLEAN /\ dbFailed \in BOOLEAN /\ left \in BOOLEAN

LEMMA TypeParts ==
  /\ TypeOK <=> Numbers /\ Others /\ Flags
  /\ TypeOK' <=> Numbers' /\ Others' /\ Flags'
BY Zenon DEF TypeOK, Numbers, Others, Flags

LEMMA NumbersStep ==
  ASSUME TypeOK, Stepping, Counting, Next
  PROVE  Numbers'
<1> USE CapIsNat DEF control, history, Goto, Return, Spend
<1>1. Numbers
  BY TypeParts
<1>2. CASE Plan \/ LoopHead \/ ReflectSettled \/ ReflectInterrupted
  BY <1>1, <1>2 DEF Plan, LoopHead, ReflectSettled, ReflectInterrupted, Numbers
<1>3. CASE Reassess
  BY <1>1, <1>3 DEF Reassess, Numbers, Counting
<1>4. CASE ThinkFails \/ ThoughtUndelivered
  BY <1>1, <1>4 DEF ThinkFails, ThoughtUndelivered, Think, UpTo, Numbers
<1>5. CASE WeakAnswer
  BY <1>1, <1>5 DEF WeakAnswer, Think, UpTo, Advance, Numbers, Stepping
<1>6. CASE CandidateAnswer
  BY <1>1, <1>6 DEF CandidateAnswer, Think, UpTo, MayReflect, Numbers
<1>7. ASSUME NEW planned \in Batches, ToolCalls(planned)
      PROVE  Numbers'
  BY <1>1, <1>7 DEF ToolCalls, Think, UpTo, Advance, Numbers, Stepping, Counting
<1>8. CASE ReflectAgain
  BY <1>1, <1>8 DEF ReflectAgain, Supplements, MoreSteps, UpTo, Advance, Numbers, Stepping
<1>9. CASE CreateCall \/ SettleCall
  <2>1. Sent("execute") \/ Sent("observe")
    BY <1>9, Zenon DEF CreateCall, SettleCall
  <2>2. next' \in {next + 1, 1, next}
    BY <2>1, Zenon DEF Sent, Continue
  <2>3. UNCHANGED <<control, budget, thinks, overThinks>>
    BY <1>9, Zenon DEF CreateCall, SettleCall
  <2> QED BY <1>1, <2>2, <2>3 DEF Numbers
<1>10. CASE Execute \/ FinalAnswer \/ Cancel \/ UNCHANGED vars
  BY <1>1, <1>10 DEF Execute, FinalAnswer, Cancel, vars, Numbers
<1>11. CASE Observe
  BY <1>1, <1>11 DEF Observe, Advance, Numbers, Stepping, Batching
<1> QED BY <1>2, <1>3, <1>4, <1>5, <1>6, <1>7, <1>8, <1>9, <1>10, <1>11 DEF Next, Loop

\* Phase C writes one of the two final states.
LEMMA SavedCases ==
  ASSUME Saved
  PROVE  (SetRow("COMPLETED") \/ SetRow("FAILED")) /\ UNCHANGED dbFailed
<1>1. CASE batch[next].result = "ok"
  BY <1>1, SMT DEF Saved, Write, SetRow
<1>2. CASE batch[next].result # "ok"
  BY <1>2, SMT DEF Saved, Write, SetRow
<1> QED BY <1>1, <1>2

LEMMA OthersStep ==
  ASSUME TypeOK, Next
  PROVE  Others'
<1> USE DEF control, history, Goto, Return, Places, Batching
<1>1. Others
  BY TypeParts
<1>2. CASE Plan \/ LoopHead \/ ReflectSettled \/ ReflectInterrupted \/ Reassess \/ ReflectAgain
  BY <1>1, <1>2 DEF Plan, LoopHead, ReflectSettled, ReflectInterrupted, Reassess, ReflectAgain,
     Others
<1>3. CASE ThinkFails \/ ThoughtUndelivered \/ WeakAnswer \/ CandidateAnswer
  BY <1>1, <1>3 DEF ThinkFails, ThoughtUndelivered, WeakAnswer, CandidateAnswer, Think, Others
<1>4. ASSUME NEW planned \in Batches, ToolCalls(planned)
      PROVE  Others'
  BY <1>1, <1>4, BatchType DEF ToolCalls, Think, Others
<1>5. CASE CreateCall
  <2>1. batch' \in Seq(Call)
    BY <1>1, <1>5, BatchType DEF CreateCall, Write, WriteFails, Rows, Others
  <2> QED BY <1>1, <1>5, <2>1 DEF CreateCall, Sent, Continue, Others
<1>6. CASE Execute
  BY <1>1, <1>6, BatchType DEF Execute, Others
<1>7. CASE SettleCall
  <2>1. \/ SetRow("COMPLETED") \/ SetRow("FAILED")
        \/ UNCHANGED batch
    BY <1>7, SavedCases, Zenon DEF SettleCall, WriteFails
  <2>2. batch' \in Seq(Call)
    BY <1>1, <2>1, BatchType DEF Rows, Others
  <2> QED BY <1>1, <1>7, <2>2 DEF SettleCall, Sent, Continue, Others
<1>8. CASE Observe
  <2>1. Successful \subseteq Keys
    <3>1. \A n \in DOMAIN batch : batch[n] \in Call
      BY <1>1 DEF Others
    <3>2. \A n \in DOMAIN batch : batch[n].key \in Keys
      BY <3>1 DEF Call
    <3> QED BY <3>2 DEF Successful
  <2> QED BY <1>1, <1>8, <2>1 DEF Observe, Others
<1>9. CASE FinalAnswer \/ Cancel \/ UNCHANGED vars
  BY <1>1, <1>9 DEF FinalAnswer, Cancel, vars, Others
<1> QED BY <1>2, <1>3, <1>4, <1>5, <1>6, <1>7, <1>8, <1>9 DEF Next, Loop

LEMMA FlagsStep ==
  ASSUME TypeOK, Next
  PROVE  Flags'
<1> USE DEF control, history
<1>1. Flags
  BY TypeParts
<1>2. CASE Plan \/ LoopHead \/ ReflectSettled \/ ReflectInterrupted \/ ReflectAgain \/ FinalAnswer \/ UNCHANGED vars
  BY <1>1, <1>2, Zenon DEF Plan, LoopHead, ReflectSettled, ReflectInterrupted, ReflectAgain,
     FinalAnswer, vars, Flags
<1>3. CASE Reassess
  BY <1>1, <1>3, Zenon DEF Reassess, Flags
<1>4. CASE ThinkFails \/ ThoughtUndelivered \/ WeakAnswer \/ CandidateAnswer
  BY <1>1, <1>4, Zenon DEF ThinkFails, ThoughtUndelivered, WeakAnswer, CandidateAnswer, Think,
     Flags
<1>5. ASSUME NEW planned \in Batches, ToolCalls(planned)
      PROVE  Flags'
  BY <1>1, <1>5, Zenon DEF ToolCalls, Think, Flags
<1>6. CASE CreateCall
  BY <1>1, <1>6, Zenon DEF CreateCall, Write, WriteFails, Flags
<1>7. CASE Execute
  BY <1>1, <1>7, Zenon DEF Execute, Flags
<1>8. CASE SettleCall
  BY <1>1, <1>8, Zenon DEF SettleCall, Saved, Write, WriteFails, Flags
<1>9. CASE Observe
  BY <1>1, <1>9, Zenon DEF Observe, Flags
<1>10. CASE Cancel
  BY <1>1, <1>10, Zenon DEF Cancel, Flags
<1> QED BY <1>2, <1>3, <1>4, <1>5, <1>6, <1>7, <1>8, <1>9, <1>10 DEF Next, Loop

-----------------------------------------------------------------------------
LEMMA SteppingStep ==
  ASSUME TypeOK, Stepping, Next
  PROVE  Stepping'
<1> USE CapIsNat DEF control, history, Goto, Return, Batching
<1>1. Numbers
  BY TypeParts
<1>2. CASE Plan \/ ReflectSettled \/ ReflectInterrupted \/ FinalAnswer \/ Cancel \/ UNCHANGED vars
  BY <1>1, <1>2 DEF Plan, ReflectSettled, ReflectInterrupted, FinalAnswer, Cancel, vars,
     Stepping, Numbers
<1>3. CASE LoopHead \/ Reassess
  BY <1>1, <1>3 DEF LoopHead, Reassess, Stepping, Numbers
<1>4. CASE ThinkFails \/ ThoughtUndelivered
  BY <1>1, <1>4 DEF ThinkFails, ThoughtUndelivered, Think, UpTo, Stepping, Numbers
<1>5. CASE WeakAnswer
  BY <1>1, <1>5 DEF WeakAnswer, Think, UpTo, Advance, Stepping, Numbers
<1>6. CASE CandidateAnswer
  BY <1>1, <1>6 DEF CandidateAnswer, Think, UpTo, Stepping, Numbers
<1>7. ASSUME NEW planned \in Batches, ToolCalls(planned)
      PROVE  Stepping'
  <2>1. /\ pc = "think" /\ thinks' = UpTo(Cap + 1, thinks + 1) /\ UNCHANGED maxSteps
        /\ \/ pc' \in {"final", "create"} /\ step' = step
           \/ pc' = "head" /\ step' = step + 1
    <3>1. Think
      BY <1>7 DEF ToolCalls
    <3>2. \/ pc' \in {"final", "create"} /\ UNCHANGED step
          \/ pc' = "head" /\ Advance
      <4>1. CASE OverBudget(planned)
        BY <1>7, <4>1 DEF ToolCalls
      <4>2. CASE ~OverBudget(planned) /\ planned = <<>>
        BY <1>7, <4>2 DEF ToolCalls
      <4>3. CASE ~OverBudget(planned) /\ planned # <<>>
        BY <1>7, <4>3 DEF ToolCalls
      <4> QED BY <4>1, <4>2, <4>3
    <3>3. UNCHANGED maxSteps /\ pc = "think" /\ thinks' = UpTo(Cap + 1, thinks + 1)
      BY <3>1 DEF Think
    <3>4. \/ pc' \in {"final", "create"} /\ step' = step
          \/ pc' = "head" /\ step' = step + 1
      BY <3>2 DEF Advance
    <3> QED BY <3>3, <3>4, Zenon
  <2> QED BY <1>1, <2>1 DEF UpTo, Stepping, Numbers
<1>8. CASE ReflectAgain
  BY <1>1, <1>8 DEF ReflectAgain, Advance, Stepping, Numbers
<1>9. CASE CreateCall \/ SettleCall
  <2>1. UNCHANGED <<step, maxSteps, thinks>> /\ pc \in Batching /\ pc' \in Batching \cup {"ended"}
    BY <1>9, Zenon DEF CreateCall, SettleCall, Sent, Continue
  <2> QED BY <1>1, <2>1 DEF Stepping, Numbers
<1>10. CASE Execute
  BY <1>1, <1>10 DEF Execute, Stepping, Numbers
<1>11. CASE Observe
  BY <1>1, <1>11 DEF Observe, Advance, Stepping, Numbers
<1> QED BY <1>2, <1>3, <1>4, <1>5, <1>6, <1>7, <1>8, <1>9, <1>10, <1>11 DEF Next, Loop

LEMMA CountingStep ==
  ASSUME TypeOK, Counting, Next
  PROVE  Counting'
<1> USE DEF control, history, Goto, Return
<1>1. Numbers
  BY TypeParts
<1>2. CASE Plan \/ Reassess \/ ReflectSettled \/ ReflectInterrupted \/ ReflectAgain \/ FinalAnswer \/ Cancel \/ UNCHANGED vars
  BY <1>1, <1>2 DEF Plan, Reassess, ReflectSettled, ReflectInterrupted, ReflectAgain,
     FinalAnswer, Cancel, vars, Counting, Numbers
<1>3. CASE LoopHead
  BY <1>1, <1>3 DEF LoopHead, MayReassess, Counting, Numbers
<1>4. CASE ThinkFails \/ ThoughtUndelivered \/ WeakAnswer \/ CandidateAnswer
  BY <1>1, <1>4 DEF ThinkFails, ThoughtUndelivered, WeakAnswer, CandidateAnswer, Think,
     Counting, Numbers
<1>5. ASSUME NEW planned \in Batches, ToolCalls(planned)
      PROVE  Counting'
  BY <1>1, <1>5 DEF ToolCalls, Think, Counting, Numbers
<1>6. CASE CreateCall \/ SettleCall
  <2>1. UNCHANGED <<errStreak, replans>> /\ pc \in {"create", "settle"} /\ pc' # "reassess"
    BY <1>6, Zenon DEF CreateCall, SettleCall, Sent, Continue
  <2> QED BY <2>1 DEF Counting
<1>7. CASE Execute \/ Observe
  BY <1>1, <1>7 DEF Execute, Observe, Counting, Numbers
<1> QED BY <1>2, <1>3, <1>4, <1>5, <1>6, <1>7 DEF Next, Loop

LEMMA SpendingStep ==
  ASSUME TypeOK, Spending, Next
  PROVE  Spending'
<1> USE DEF control, history, Goto, Return, Spend
<1>1. Numbers
  BY TypeParts
<1>2. CASE Plan \/ LoopHead \/ Reassess \/ ReflectSettled \/ ReflectInterrupted \/ ReflectAgain
  BY <1>1, <1>2 DEF Plan, LoopHead, Reassess, ReflectSettled, ReflectInterrupted, ReflectAgain,
     Spending, Numbers
<1>3. CASE ThinkFails \/ ThoughtUndelivered
  BY <1>1, <1>3 DEF ThinkFails, ThoughtUndelivered, Think, UpTo, Spending, Numbers
<1>4. CASE WeakAnswer
  BY <1>1, <1>4 DEF WeakAnswer, Think, UpTo, Spending, Numbers
<1>5. CASE CandidateAnswer
  BY <1>1, <1>5 DEF CandidateAnswer, Think, UpTo, Spending, Numbers
<1>6. ASSUME NEW planned \in Batches, ToolCalls(planned)
      PROVE  Spending'
  <2>1. Think /\ (budget' = 2 => pc' = "final") /\ UNCHANGED rewrites
    BY <1>6 DEF ToolCalls, OverBudget
  <2> QED BY <1>1, <2>1 DEF Think, UpTo, Spending, Numbers
<1>7. CASE CreateCall \/ SettleCall
  <2>1. UNCHANGED <<budget, rewrites, overThinks>> /\ pc \in {"create", "settle"}
    BY <1>7, Zenon DEF CreateCall, SettleCall
  <2> QED BY <1>1, <2>1 DEF Spending, Numbers
<1>8. CASE Execute \/ Observe \/ FinalAnswer \/ Cancel \/ UNCHANGED vars
  <2>1. UNCHANGED <<rewrites, overThinks>> /\ (UNCHANGED budget \/ Spend)
    BY <1>8, Zenon DEF Execute, Observe, FinalAnswer, Cancel, vars
  <2>2. pc \in {"final", "ended"} => pc' \in {"final", "ended"}
    BY <1>8, SMT DEF Execute, Observe, FinalAnswer, Cancel, vars
  <2> QED BY <1>1, <2>1, <2>2 DEF Spending, Numbers
<1> QED BY <1>2, <1>3, <1>4, <1>5, <1>6, <1>7, <1>8 DEF Next, Loop

-----------------------------------------------------------------------------
LEMMA QueryingStep ==
  ASSUME TypeOK, Querying, Next
  PROVE  Querying'
<1> USE DEF control, history, Goto, Return, Batching
<1>1. Others
  BY TypeParts
<1>2. CASE Plan \/ LoopHead \/ Reassess \/ ReflectSettled \/ ReflectInterrupted \/ ReflectAgain \/ FinalAnswer
  BY <1>2 DEF Plan, LoopHead, Reassess, ReflectSettled, ReflectInterrupted, ReflectAgain,
     FinalAnswer, Querying
<1>3. CASE ThinkFails \/ ThoughtUndelivered \/ WeakAnswer \/ CandidateAnswer
  BY <1>3 DEF ThinkFails, ThoughtUndelivered, WeakAnswer, CandidateAnswer, Think, Querying
<1>4. ASSUME NEW planned \in Batches, ToolCalls(planned)
      PROVE  Querying'
  <2>1. UNCHANGED <<seen, succeeded, repeated>> /\ \A n \in DOMAIN planned : planned[n] \notin seen
    BY <1>4 DEF ToolCalls, Think, Valid
  <2>2. pc' \notin Batching \/ batch' = [n \in DOMAIN planned |-> Planned(planned[n])]
    BY <1>4 DEF ToolCalls
  <2> QED BY <2>1, <2>2 DEF Planned, Querying
<1>5. CASE CreateCall \/ SettleCall
  <2>1. UNCHANGED <<seen, succeeded, repeated>> /\ pc \in {"create", "settle"}
    BY <1>5, Zenon DEF CreateCall, SettleCall
  <2>2. \/ UNCHANGED batch
        \/ \E row \in Rows : batch' = [batch EXCEPT ![next].row = row]
    BY <1>5, SavedCases DEF CreateCall, SettleCall, WriteFails, Write, SetRow, Rows
  <2>3. DOMAIN batch' = DOMAIN batch /\ \A n \in DOMAIN batch : batch'[n].key = batch[n].key
    <3>1. PICK len \in Nat : batch \in [1..len -> Call]
      BY <1>1 DEF Others
    <3>2. CASE UNCHANGED batch
      BY <3>2
    <3>3. ASSUME NEW row \in Rows, batch' = [batch EXCEPT ![next].row = row]
          PROVE  DOMAIN batch' = DOMAIN batch /\ \A n \in DOMAIN batch : batch'[n].key = batch[n].key
      BY <3>1, <3>3 DEF Call
    <3> QED BY <2>2, <3>2, <3>3
  <2> QED BY <2>1, <2>3 DEF Querying
<1>6. CASE Execute
  <2>1. DOMAIN batch' = DOMAIN batch /\ \A n \in DOMAIN batch : batch'[n].key = batch[n].key
    <3>1. PICK len \in Nat : batch \in [1..len -> Call]
      BY <1>1 DEF Others
    <3>2. PICK results \in [DOMAIN batch -> {"ok", "error"}] :
            batch' = [n \in DOMAIN batch |-> [batch[n] EXCEPT !.result = results[n]]]
      BY <1>6 DEF Execute
    <3> QED BY <3>1, <3>2 DEF Call
  <2>2. UNCHANGED <<seen, succeeded>> /\ pc = "execute"
    BY <1>6, Zenon DEF Execute
  <2>3. \A n \in DOMAIN batch : batch[n].key \notin succeeded
    BY <2>2 DEF Querying
  <2>4. repeated' = FALSE
    BY <1>6, <2>3 DEF Execute, Querying
  <2> QED BY <2>1, <2>2, <2>3, <2>4 DEF Querying
<1>7. CASE Observe
  BY <1>7 DEF Observe, Querying
<1>8. CASE Cancel \/ UNCHANGED vars
  BY <1>8 DEF Cancel, vars, Querying
<1> QED BY <1>2, <1>3, <1>4, <1>5, <1>6, <1>7, <1>8 DEF Next, Loop

LEMMA CancelledStep ==
  ASSUME DeadMeansCancelled, Next
  PROVE  DeadMeansCancelled'
<1> USE DEF DeadMeansCancelled, Dead, Goto, Return
<1>1. CASE Plan \/ LoopHead \/ Reassess \/ ReflectSettled \/ ReflectInterrupted \/ ReflectAgain \/ FinalAnswer
  BY <1>1 DEF Plan, LoopHead, Reassess, ReflectSettled, ReflectInterrupted, ReflectAgain,
     FinalAnswer
<1>2. CASE ThinkFails \/ ThoughtUndelivered \/ WeakAnswer \/ CandidateAnswer
  BY <1>2 DEF ThinkFails, ThoughtUndelivered, WeakAnswer, CandidateAnswer, Think
<1>3. ASSUME NEW planned \in Batches, ToolCalls(planned)
      PROVE  DeadMeansCancelled'
  BY <1>3 DEF ToolCalls, Think
<1>4. CASE CreateCall \/ SettleCall
  BY <1>4 DEF CreateCall, SettleCall, Sent, Continue
<1>5. CASE Execute \/ Observe \/ Cancel \/ UNCHANGED vars
  BY <1>5 DEF Execute, Observe, Cancel, vars
<1> QED BY <1>1, <1>2, <1>3, <1>4, <1>5 DEF Next, Loop

LEMMA SettlingStep ==
  ASSUME TypeOK, Settling, Next
  PROVE  Settling'
<1> USE DEF control, history, Goto, Return
<1>1. Others /\ Numbers /\ Flags
  BY TypeParts
<1>2. PICK len \in Nat : batch \in [1..len -> Call] /\ Len(batch) = len
  BY <1>1 DEF Others
<1>3. CASE Plan \/ LoopHead \/ Reassess \/ ReflectSettled \/ ReflectInterrupted \/ ReflectAgain \/ FinalAnswer
  BY <1>3 DEF Plan, LoopHead, Reassess, ReflectSettled, ReflectInterrupted, ReflectAgain,
     FinalAnswer, Settling, Running
<1>4. CASE ThinkFails \/ ThoughtUndelivered \/ WeakAnswer \/ CandidateAnswer
  BY <1>4 DEF ThinkFails, ThoughtUndelivered, WeakAnswer, CandidateAnswer, Think, Settling,
     Running
<1>5. ASSUME NEW planned \in Batches, ToolCalls(planned)
      PROVE  Settling'
  <2>1. Think /\ UNCHANGED outcome
    BY <1>5 DEF ToolCalls
  <2>2. pc' = "create" \/ (pc' \in {"final", "head"} /\ UNCHANGED batch)
    BY <1>5 DEF ToolCalls
  <2> QED BY <2>1, <2>2 DEF Think, Settling, Running
<1>6. CASE CreateCall
  <2>1. pc = "create" /\ UNCHANGED left /\ (dbFailed' = FALSE => dbFailed = FALSE)
    BY <1>6, Zenon DEF CreateCall, Write, WriteFails
  <2>2. \/ pc' = "create" /\ UNCHANGED outcome
        \/ pc' = "execute" /\ next' = 1 /\ UNCHANGED outcome
        \/ pc' = "ended" /\ outcome' = "dead"
    BY <1>6, <2>1, Zenon DEF CreateCall, Sent, Continue
  <2> QED BY <2>1, <2>2 DEF Settling
<1>7. CASE Execute
  <2>1. next = 1 /\ pc' = "settle" /\ UNCHANGED <<next, outcome, dbFailed, left>> /\ outcome = "none"
    BY <1>7 DEF Execute, Settling
  <2>2. DOMAIN batch' = 1..len
    BY <1>2, <1>7 DEF Execute
  <2> QED BY <2>1, <2>2 DEF Settling
<1>8. CASE SettleCall
  <2>1. pc = "settle" /\ UNCHANGED left /\ outcome = "none"
    BY <1>8 DEF SettleCall, Settling
  <2>2. \/ next < len /\ pc' = "settle" /\ next' = next + 1 /\ UNCHANGED outcome
        \/ ~(next < len) /\ pc' = "observe" /\ next' = 1 /\ UNCHANGED outcome
        \/ pc' = "ended" /\ outcome' = "dead"
    BY <1>2, <1>8, <2>1, Zenon DEF SettleCall, Sent, Continue
  <2>3. CASE dbFailed' = TRUE
    BY <2>1, <2>2, <2>3 DEF Settling
  <2>4. CASE dbFailed' = FALSE
    <3>1. dbFailed = FALSE /\ (SetRow("COMPLETED") \/ SetRow("FAILED"))
      BY <1>8, <2>4, SavedCases DEF SettleCall, WriteFails
    <3>2. DOMAIN batch' = 1..len /\ \A n \in 1..len : n <= next => batch'[n].row # "RUNNING"
      <4>1. PICK row \in {"COMPLETED", "FAILED"} : batch' = [batch EXCEPT ![next].row = row]
        BY <3>1 DEF SetRow
      <4>2. \A n \in 1..len : n < next => batch[n].row # "RUNNING"
        BY <1>2, <2>1, <3>1 DEF Settling
      <4>3. \A n \in 1..len : n <= next => n < next \/ n = next
        BY <1>1 DEF Numbers
      <4>4. DOMAIN batch' = 1..len
        BY <1>2, <4>1
      <4>5. \A n \in 1..len : batch'[n].row = IF n = next THEN row ELSE batch[n].row
        BY <1>2, <4>1 DEF Call
      <4> QED BY <4>2, <4>3, <4>4, <4>5
    <3>3. pc' = "settle" => \A n \in 1..len : n < next' => batch'[n].row # "RUNNING"
      BY <1>1, <2>2, <3>2 DEF Numbers
    <3>4. pc' = "observe" => ~Running'
      <4>1. pc' = "observe" => \A n \in 1..len : n <= next
        BY <1>1, <2>2 DEF Numbers
      <4> QED BY <3>2, <4>1 DEF Running
    <3>5. left' = FALSE
      BY <2>1, <3>1 DEF Settling
    <3> QED BY <2>1, <2>2, <3>2, <3>3, <3>4, <3>5 DEF Settling
  <2>5. dbFailed' \in BOOLEAN
    BY FlagsStep DEF Flags
  <2> QED BY <2>3, <2>4, <2>5
<1>9. CASE Observe
  <2>1. pc = "observe" /\ pc' = "head" /\ UNCHANGED <<dbFailed, outcome>>
    BY <1>9 DEF Observe
  <2>2. dbFailed = FALSE => left' = FALSE
    BY <1>9, <2>1 DEF Observe, Settling
  <2>3. ~Running'
    BY <1>9 DEF Observe, Running
  <2> QED BY <2>1, <2>2, <2>3 DEF Settling
<1>10. CASE Cancel \/ UNCHANGED vars
  BY <1>10 DEF Cancel, vars, Settling, Running
<1> QED BY <1>3, <1>4, <1>5, <1>6, <1>7, <1>8, <1>9, <1>10 DEF Next, Loop

-----------------------------------------------------------------------------
LEMMA Inductive == Spec => []IInv
<1>1. IInv /\ [Next]_vars => IInv'
  <2> SUFFICES ASSUME IInv, [Next]_vars PROVE IInv'
    OBVIOUS
  <2>1. CASE UNCHANGED vars
    BY <2>1 DEF vars, control, history, IInv, TypeOK, Stepping, Counting, Spending, Querying,
       Settling,
                DeadMeansCancelled, Running
  <2>2. CASE Next
    BY <2>2, TypeParts, NumbersStep, OthersStep, FlagsStep, SteppingStep, CountingStep,
       SpendingStep,
             QueryingStep, SettlingStep, CancelledStep DEF IInv
  <2> QED BY <2>1, <2>2
<1> QED BY InitInv, <1>1, PTL DEF Spec

\* The counters stay within their bounds, with whatever options: reflections and
\* replans in particular never exceed MaxReflections and MaxReplans.
THEOREM TypeCorrect == Spec => []TypeOK
<1>1. IInv => TypeOK
  BY DEF IInv
<1> QED BY Inductive, <1>1, PTL

\* loop.go:355-361: no run thinks more often than MaxSteps plus the supplementary
\* steps of all its rounds, whatever the critics ask for.
THEOREM ThinksAreBounded == Spec => []StepsBounded
<1>1. IInv => StepsBounded
  BY DEF IInv, Stepping, StepsBounded
<1> QED BY Inductive, <1>1, PTL

\* loop.go:376-379: after the budget is exceeded only rewrites of weak answers are
\* asked for.
THEOREM BudgetStops == Spec => []BudgetStopsSoon
<1>1. IInv => BudgetStopsSoon
  BY DEF IInv, TypeOK, Spending, BudgetStopsSoon
<1> QED BY Inductive, <1>1, PTL

\* service.go:1024-1027: only a run whose context ended is reported as not alive.
THEOREM DeadIsCancelled == Spec => []DeadMeansCancelled
<1>1. IInv => DeadMeansCancelled
  BY DEF IInv
<1> QED BY Inductive, <1>1, PTL

\* loop.go:412-416: no successful query is executed in a second step.
THEOREM OnlyFailuresRepeat == Spec => []RetriesOnlyFailures
<1>1. IInv => RetriesOnlyFailures
  BY DEF IInv, Querying, RetriesOnlyFailures
<1> QED BY Inductive, <1>1, PTL

\* service.go:959-961: a run that was not cut has settled all its tool calls, for
\* batches of every length.
THEOREM AllCallsSettled == Spec => []CallsSettled
<1>1. IInv => CallsSettled
  <2> SUFFICES ASSUME IInv, outcome \in {"answer", "error"}, ~dbFailed PROVE ~Orphans
    BY DEF CallsSettled
  <2>1. dbFailed = FALSE
    BY Zenon DEF IInv, TypeOK
  <2>2. pc = "ended"
    BY DEF IInv, Settling
  <2> QED BY <2>1, <2>2 DEF IInv, Settling, Orphans
<1> QED BY Inductive, <1>1, PTL

\* Steps and tokens stay within what the options allow.
THEOREM BudgetsAreKept == Spec => []BudgetsKept
BY ThinksAreBounded, BudgetStops, PTL DEF BudgetsKept

\* Every tool call is settled and only failures are repeated.
THEOREM CallsAreExact == Spec => []CallsExact
BY AllCallsSettled, OnlyFailuresRepeat, PTL DEF CallsExact
==============================================================================

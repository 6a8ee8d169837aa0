----------------------------- MODULE ChatProofs -----------------------------
(***************************************************************************)
(* Proofs about the AI chat.                                               *)
(*                                                                         *)
(* The context first: what toMessageContext keeps of any history is pairs  *)
(* of a question and its answer, and every window over them alternates.    *)
(* Its loop is a recursive function; the results follow by induction over  *)
(* its rounds (Induct, Iterates).                                          *)
(*                                                                         *)
(* Then one message and its surroundings, for any number of cancel         *)
(* requests, providers and retries, and any capacity of the queue.         *)
(***************************************************************************)
EXTENDS ChatStream, WellFoundedInduction, TLAPS

-----------------------------------------------------------------------------
(* Induction over the rounds of a loop.                                    *)

LEMMA Induct ==
  ASSUME NEW N \in Nat, NEW T \in SUBSET (0..N), 0 \in T,
         \A n \in 1..N : n - 1 \in T => n \in T
  PROVE  T = 0..N
  <1> SUFFICES ASSUME (0..N) \ T # {} PROVE FALSE
    OBVIOUS
  <1>1. IsWellFoundedOn(OpToRel(<, Nat), Nat)
    BY NatLessThanWellFounded
  <1>2. (0..N) \ T \subseteq Nat
    OBVIOUS
  <1>3. PICK m \in (0..N) \ T : \A y \in (0..N) \ T : ~(<<y, m>> \in OpToRel(<, Nat))
    BY <1>1, <1>2, WFMin
  <1>4. m # 0
    OBVIOUS
  <1>5. m - 1 \in 0..N /\ m \in 1..N
    BY <1>4
  <1>6. m - 1 \in T
    <2> SUFFICES ASSUME m - 1 \in (0..N) \ T PROVE FALSE
      BY <1>5
    <2>1. <<m - 1, m>> \in Nat \X Nat /\ m - 1 < m
      OBVIOUS
    <2>2. <<m - 1, m>> \in OpToRel(<, Nat)
      BY <2>1 DEF OpToRel
    <2> QED
      BY <1>3, <2>2
  <1> QED
    BY <1>5, <1>6

IsLoop(f, A, N, b, turn) ==
  /\ f \in [0..N -> A] /\ f[0] = b
  /\ \A n \in 1..N : f[n] = turn[n][f[n - 1]]

LEMMA Iterates ==
  ASSUME NEW A, NEW N \in Nat, NEW b \in A, NEW turn \in [1..N -> [A -> A]]
  PROVE  \E f : IsLoop(f, A, N, b, turn)
  <1> DEFINE OK(k, f) == f[0] = b /\ \A n \in 1..k : f[n] = turn[n][f[n - 1]]
             T == {k \in 0..N : \E f \in [0..k -> A] : OK(k, f)}
  <1>1. 0 \in T
    <2> DEFINE f == [n \in 0..0 |-> b]
    <2>1. f \in [0..0 -> A] /\ f[0] = b
      OBVIOUS
    <2>2. \A n \in 1..0 : f[n] = turn[n][f[n - 1]]
      OBVIOUS
    <2>3. 0 \in 0..N
      OBVIOUS
    <2> HIDE DEF f
    <2> QED
      BY <2>1, <2>2, <2>3
  <1>2. ASSUME NEW n \in 1..N, n - 1 \in T
        PROVE  n \in T
    <2>1. PICK f \in [0..n - 1 -> A] : OK(n - 1, f)
      BY <1>2
    <2> DEFINE g == [k \in 0..n |-> IF k = n THEN turn[n][f[n - 1]] ELSE f[k]]
    <2>2. turn[n][f[n - 1]] \in A
      OBVIOUS
    <2>3. g \in [0..n -> A]
      BY <2>2
    <2>4. g[0] = b
      BY <2>1
    <2>5. ASSUME NEW k \in 1..n
          PROVE  g[k] = turn[k][g[k - 1]]
      <3>1. CASE k = n
        <4>1. g[k] = turn[n][f[n - 1]] /\ g[k - 1] = f[n - 1]
          BY <3>1
        <4> HIDE DEF g
        <4> QED
          BY <3>1, <4>1
      <3>2. CASE k # n
        <4>1. k \in 1..n - 1 /\ k - 1 \in 0..n - 1 /\ k - 1 # n
          BY <3>2
        <4>2. f[k] = turn[k][f[k - 1]]
          BY <2>1, <4>1
        <4>3. g[k] = f[k] /\ g[k - 1] = f[k - 1]
          BY <3>2, <4>1
        <4> HIDE DEF g
        <4> QED
          BY <4>2, <4>3
      <3> QED
        BY <3>1, <3>2
    <2>6. n \in 0..N
      OBVIOUS
    <2> QED
      BY <2>3, <2>4, <2>5, <2>6
  <1>3. T = 0..N
    <2> HIDE DEF T
    <2>1. T \in SUBSET (0..N)
      BY DEF T
    <2> QED
      BY <1>1, <1>2, <2>1, Induct
  <1>4. N \in T
    BY <1>3
  <1>5. PICK f \in [0..N -> A] : OK(N, f)
    BY <1>4
  <1> QED
    BY <1>5 DEF IsLoop

-----------------------------------------------------------------------------
(* The context.                                                            *)

\* The answer to a question is a later message of the assistant.
LEMMA AnswerIs ==
  ASSUME NEW h \in Seq(ChatMessages), NEW i \in DOMAIN h, AnswerTo(h, i) # 0
  PROVE  AnswerTo(h, i) \in DOMAIN h /\ h[AnswerTo(h, i)].role = "assistant"
  <1> DEFINE later == {j \in i + 1..Len(h) : Counts(h[j]) /\ h[j].role \in {"user", "assistant"}}
             first == CHOOSE j \in later : \A k \in later : j <= k
  <1>1. AnswerTo(h, i) = IF later = {} \/ h[first].role = "user" \/ ~Completed(h[first]) THEN 0 ELSE first
    BY DEF AnswerTo
  <1>2. later # {} /\ h[first].role # "user" /\ AnswerTo(h, i) = first
    <2> HIDE DEF later, first
    <2> QED
      BY <1>1
  <1>3. later \subseteq Nat /\ later \subseteq DOMAIN h
    OBVIOUS
  <1>4. PICK m \in later : \A y \in later : ~(<<y, m>> \in OpToRel(<, Nat))
    <2> HIDE DEF later
    <2> QED
      BY <1>2, <1>3, NatLessThanWellFounded, WFMin
  <1>5. \A k \in later : m <= k
    <2> TAKE k \in later
    <2>1. m \in Nat /\ k \in Nat
      BY <1>3
    <2>2. ~(k < m)
      <3> SUFFICES ASSUME k < m PROVE FALSE
        OBVIOUS
      <3>1. <<k, m>> \in OpToRel(<, Nat)
        BY <2>1 DEF OpToRel
      <3> QED
        BY <1>4, <3>1
    <2> QED
      BY <2>1, <2>2
  <1>6. first \in later
    <2> HIDE DEF later
    <2> QED
      BY <1>5
  <1>7. first \in DOMAIN h /\ h[first].role \in {"user", "assistant"}
    <2> HIDE DEF first
    <2> QED
      BY <1>6
  <1> QED
    BY <1>2, <1>7

Paired(dialog) ==
  /\ Len(dialog) % 2 = 0
  /\ \A k \in DOMAIN dialog : dialog[k].role = IF k % 2 = 1 THEN "user" ELSE "assistant"

\* System messages on one side, on the other questions each with its answer.
PairsKept ==
  {kept \in [next : Nat, system : Seq(ChatMessages), dialog : Seq(ChatMessages)] :
     Paired(kept.dialog) /\ \A k \in DOMAIN kept.system : IsSystem(kept.system[k])}

LEMMA AnotherPair ==
  ASSUME NEW d \in Seq(ChatMessages), Paired(d), NEW q \in ChatMessages, NEW a \in ChatMessages,
         q.role = "user", a.role = "assistant"
  PROVE  d \o <<q, a>> \in Seq(ChatMessages) /\ Paired(d \o <<q, a>>)
  <1> DEFINE e == d \o <<q, a>>
             n == Len(d)
  <1>1. e \in Seq(ChatMessages) /\ Len(e) = n + 2 /\ n \in Nat /\ n % 2 = 0
    BY DEF Paired
  <1>2. \A k \in 1..n : e[k] = d[k] /\ d[k].role = IF k % 2 = 1 THEN "user" ELSE "assistant"
    BY DEF Paired
  <1>3. e[n + 1] = q /\ e[n + 2] = a
    OBVIOUS
  <1> HIDE DEF e, n
  <1>4. (n + 2) % 2 = 0 /\ (n + 1) % 2 = 1
    BY <1>1
  <1>5. ASSUME NEW k \in DOMAIN e
        PROVE  e[k].role = IF k % 2 = 1 THEN "user" ELSE "assistant"
    <2>1. k \in 1..n \/ k = n + 1 \/ k = n + 2
      BY <1>1
    <2>2. CASE k \in 1..n
      BY <1>2, <2>2
    <2>3. CASE k = n + 1
      BY <1>3, <1>4, <2>3
    <2>4. CASE k = n + 2
      BY <1>3, <1>4, <2>4
    <2> QED
      BY <2>1, <2>2, <2>3, <2>4
  <1>6. Paired(e)
    BY <1>1, <1>4, <1>5 DEF Paired
  <1> QED
    BY <1>1, <1>6 DEF e

LEMMA VisitKeepsPairs ==
  ASSUME NEW h \in Seq(ChatMessages), NEW i \in DOMAIN h, NEW kept \in PairsKept
  PROVE  Visit(h, i, kept) \in PairsKept
  <1> DEFINE m == h[i]
             answer == AnswerTo(h, i)
             system == Append(kept.system, m)
             dialog == kept.dialog \o <<m, h[answer]>>
             one == [kept EXCEPT !.system = system]
             pair == [kept EXCEPT !.dialog = dialog, !.next = answer + 1]
  <1>1. m \in ChatMessages
    OBVIOUS
  <1>2. kept \in [next : Nat, system : Seq(ChatMessages), dialog : Seq(ChatMessages)] /\ Paired(kept.dialog)
        /\ \A k \in DOMAIN kept.system : IsSystem(kept.system[k])
    BY DEF PairsKept
  <1>3. CASE IsSystem(m) /\ Visit(h, i, kept) = one
    <2>1. system \in Seq(ChatMessages) /\ \A k \in DOMAIN system : IsSystem(system[k])
      <3>1. system \in Seq(ChatMessages) /\ Len(system) = Len(kept.system) + 1
            /\ system[Len(kept.system) + 1] = m /\ \A k \in 1..Len(kept.system) : system[k] = kept.system[k]
        BY <1>1, <1>2
      <3> HIDE DEF system, m
      <3>2. ASSUME NEW k \in DOMAIN system
            PROVE  IsSystem(system[k])
        <4>1. k \in 1..Len(kept.system) \/ k = Len(kept.system) + 1
          BY <1>2, <3>1
        <4>2. CASE k \in 1..Len(kept.system)
          BY <1>2, <3>1, <4>2
        <4>3. CASE k = Len(kept.system) + 1
          BY <1>3, <3>1, <4>3
        <4> QED
          BY <4>1, <4>2, <4>3
      <3> QED
        BY <3>1, <3>2
    <2> HIDE DEF system, m
    <2>2. /\ one \in [next : Nat, system : Seq(ChatMessages), dialog : Seq(ChatMessages)]
          /\ one.system = system /\ one.dialog = kept.dialog
      BY <1>2, <2>1
    <2> HIDE DEF one
    <2> QED
      BY <1>2, <1>3, <2>1, <2>2 DEF PairsKept
  <1>4. CASE m.role = "user" /\ answer # 0 /\ Visit(h, i, kept) = pair
    <2>1. answer \in DOMAIN h /\ h[answer].role = "assistant"
      BY <1>4, AnswerIs
    <2>2. h[answer] \in ChatMessages /\ answer + 1 \in Nat
      <3> HIDE DEF answer
      <3> QED
        BY <2>1
    <2>3. dialog \in Seq(ChatMessages) /\ Paired(dialog)
      <3> HIDE DEF m, answer
      <3> QED
        BY <1>1, <1>2, <1>4, <2>1, <2>2, AnotherPair
    <2> HIDE DEF dialog, m, answer
    <2>4. /\ pair \in [next : Nat, system : Seq(ChatMessages), dialog : Seq(ChatMessages)]
          /\ pair.system = kept.system /\ pair.dialog = dialog
      BY <1>2, <2>2, <2>3
    <2> HIDE DEF pair
    <2> QED
      BY <1>2, <1>4, <2>3, <2>4 DEF PairsKept
  <1> QED
    BY <1>3, <1>4 DEF Visit

LEMMA KeptArePairs ==
  ASSUME NEW h \in Seq(ChatMessages)
  PROVE  Kept(h) \in PairsKept
  <1> DEFINE N == Len(h)
             turn == [n \in 1..N |-> [kept \in PairsKept |-> Visit(h, n, kept)]]
             Rec(f) == f = [n \in 0..N |-> IF n = 0 THEN Nothing ELSE Visit(h, n, f[n - 1])]
             visited == CHOOSE f : Rec(f)
  <1>0. N \in Nat /\ DOMAIN h = 1..N
    OBVIOUS
  <1>1. Kept(h) = visited[N]
    BY DEF Kept
  <1>2. Nothing \in PairsKept
    <2>1. <<>> \in Seq(ChatMessages) /\ Paired(<<>>)
      BY DEF Paired
    <2> QED
      BY <2>1 DEF Nothing, PairsKept
  <1>3. \A n \in 1..N : \A kept \in PairsKept : Visit(h, n, kept) \in PairsKept
    BY <1>0, VisitKeepsPairs
  <1>4. turn \in [1..N -> [PairsKept -> PairsKept]]
    BY <1>3
  <1>5. PICK f : IsLoop(f, PairsKept, N, Nothing, turn)
    <2> HIDE DEF turn, N
    <2> QED
      BY <1>0, <1>2, <1>4, Iterates
  <1>6. f \in [0..N -> PairsKept] /\ f[0] = Nothing /\ \A n \in 1..N : f[n] = turn[n][f[n - 1]]
    <2> HIDE DEF turn, N
    <2> QED
      BY <1>5 DEF IsLoop
  <1>7. ASSUME NEW n \in 1..N
        PROVE  f[n] = Visit(h, n, f[n - 1])
    <2>1. n - 1 \in 0..N
      BY <1>0
    <2>2. f[n - 1] \in PairsKept
      BY <1>6, <2>1
    <2> QED
      BY <1>6, <2>2
  <1>8. Rec(f)
    <2> DEFINE g == [n \in 0..N |-> IF n = 0 THEN Nothing ELSE Visit(h, n, f[n - 1])]
    <2>1. \A n \in 0..N : f[n] = g[n]
      <3> TAKE n \in 0..N
      <3>1. CASE n = 0
        BY <3>1, <1>6
      <3>2. CASE n # 0
        <4>1. n \in 1..N
          BY <3>2
        <4>2. g[n] = Visit(h, n, f[n - 1])
          BY <3>2
        <4> HIDE DEF g
        <4> QED
          BY <4>1, <4>2, <1>7
      <3> QED
        BY <3>1, <3>2
    <2>2. f = [n \in 0..N |-> f[n]] /\ g = [n \in 0..N |-> g[n]]
      BY <1>6
    <2>3. f = g
      <3> HIDE DEF g
      <3> QED
        BY <2>1, <2>2
    <2> QED
      BY <2>3
  <1>9. Rec(visited)
    <2> HIDE DEF Rec
    <2> QED
      BY <1>8
  <1> DEFINE T == {n \in 0..N : visited[n] \in PairsKept}
  <1>10. visited[0] = Nothing
    <2> HIDE DEF visited
    <2> QED
      BY <1>9, <1>0
  <1>11. ASSUME NEW n \in 1..N, visited[n - 1] \in PairsKept
         PROVE  visited[n] \in PairsKept
    <2>1. n \in 0..N /\ n # 0
      BY <1>0
    <2> HIDE DEF visited, N
    <2>2. visited[n] = Visit(h, n, visited[n - 1])
      BY <1>9, <2>1, Zenon
    <2> QED
      BY <2>2, <1>3, <1>11
  <1> HIDE DEF visited
  <1>12. T \in SUBSET (0..N) /\ 0 \in T /\ \A n \in 1..N : n - 1 \in T => n \in T
    BY <1>0, <1>2, <1>10, <1>11
  <1>13. N \in T
    <2> HIDE DEF T, N
    <2>1. T = 0..N
      BY <1>0, <1>12, Induct
    <2> QED
      BY <1>0, <2>1
  <1> QED
    BY <1>1, <1>13

\* The window is a number of messages from the end.
LEMMA WindowIs ==
  ASSUME WindowAssumption, NEW system \in Seq(ChatMessages), NEW dialog \in Seq(ChatMessages)
  PROVE  \E k \in 0..Len(dialog) : Window(system, dialog) = Newest(dialog, k)
  <1> DEFINE N == Len(dialog)
             fits == {k \in 0..N : /\ k <= MaxContextMessages
                                   /\ k > 0 => SizeOf(system) + SizeOf(Newest(dialog, k)) <= MaxContextChars}
             most == CHOOSE k \in fits : \A j \in fits : j <= k
             rest == {n \in 0..N : N - n \in fits}
  <1>1. N \in Nat /\ 0 \in fits /\ fits \subseteq 0..N
    BY DEF WindowAssumption
  <1>2. Window(system, dialog) = Newest(dialog, most)
    BY DEF Window
  <1> HIDE DEF fits, N
  <1>3. N \in rest /\ rest \subseteq Nat
    BY <1>1
  <1>4. PICK m \in rest : \A y \in rest : ~(<<y, m>> \in OpToRel(<, Nat))
    <2> HIDE DEF rest
    <2> QED
      BY <1>3, NatLessThanWellFounded, WFMin
  <1>5. ASSUME NEW j \in fits
        PROVE  j <= N - m
    <2>1. j \in 0..N /\ m \in 0..N
      BY <1>1
    <2> DEFINE y == N - j
    <2>2. y \in 0..N /\ N - y = j
      BY <1>1, <2>1
    <2>3. y \in rest
      BY <2>2
    <2>4. ~(y < m)
      <3> HIDE DEF y
      <3> SUFFICES ASSUME y < m PROVE FALSE
        OBVIOUS
      <3>1. <<y, m>> \in OpToRel(<, Nat)
        BY <1>1, <2>1, <2>2 DEF OpToRel
      <3> QED
        BY <1>4, <2>3, <3>1
    <2> QED
      BY <1>1, <2>1, <2>4
  <1>6. most \in fits
    <2>1. N - m \in fits /\ \A j \in fits : j <= N - m
      BY <1>5
    <2> QED
      BY <2>1, Zenon
  <1> QED
    BY <1>1, <1>2, <1>6 DEF N

LEMMA ContextMakesDialog ==
  ASSUME WindowAssumption, NEW h \in Seq(ChatMessages)
  PROVE  Alternates(ChatHistoryContext(h))
  <1> DEFINE s == Kept(h).system
             d == Kept(h).dialog
             D == Len(d)
  <1>1. /\ s \in Seq(ChatMessages) /\ d \in Seq(ChatMessages) /\ Paired(d)
        /\ \A k \in DOMAIN s : IsSystem(s[k])
    BY KeptArePairs DEF PairsKept
  <1> HIDE DEF s, d
  <1>2. PICK n \in 0..D : Window(s, d) = Newest(d, n)
    BY <1>1, WindowIs
  <1> DEFINE w == Newest(d, n)
             c == s \o w
             S == Len(s)
  <1>3. D \in Nat /\ S \in Nat /\ D % 2 = 0
    <2>1. D \in Nat /\ S \in Nat
      BY <1>1
    <2>2. D % 2 = 0
      BY <1>1, Zenon DEF Paired
    <2> QED
      BY <2>1, <2>2
  <1>4. w \in Seq(ChatMessages) /\ Len(w) = n /\ \A k \in 1..n : w[k] = d[D - n + k]
    BY <1>1, <1>3 DEF Newest
  <1>5. ChatHistoryContext(h) = c
    BY <1>2 DEF ChatHistoryContext, s, d
  <1> HIDE DEF w
  <1>6. /\ c \in Seq(ChatMessages) /\ Len(c) = S + n
        /\ \A k \in 1..S : c[k] = s[k]
        /\ \A k \in S + 1..S + n : c[k] = w[k - S]
    <2>1. w \in Seq(ChatMessages) /\ Len(w) = n /\ s \in Seq(ChatMessages) /\ n \in Nat
      BY <1>1, <1>4
    <2> QED
      BY <2>1
  <1> HIDE DEF c
  <1>7. ASSUME NEW k \in DOMAIN c
        PROVE  IsSystem(c[k]) \/ c[k].role = IF (Len(c) - k) % 2 = 0 THEN "assistant" ELSE "user"
    <2>1. CASE k \in 1..S
      BY <1>1, <1>6, <2>1
    <2>2. CASE k \in S + 1..S + n
      <3> DEFINE j == D - n + (k - S)
      <3>1. k - S \in 1..n /\ j \in 1..D
        BY <1>3, <2>2
      <3>2. c[k] = d[j]
        BY <1>4, <1>6, <2>2, <3>1
      <3>3. d[j].role = IF j % 2 = 1 THEN "user" ELSE "assistant"
        <4>1. j \in DOMAIN d
          BY <1>1, <3>1
        <4> HIDE DEF j
        <4> QED
          BY <1>1, <4>1, Zenon DEF Paired
      <3>4. D - j = Len(c) - k
        <4>1. Len(c) = S + n /\ k \in Int /\ n \in Int
          BY <1>6, <2>2
        <4> HIDE DEF S, D
        <4> QED
          BY <1>3, <4>1
      <3> HIDE DEF j
      <3>5. (D - j) % 2 = 0 <=> j % 2 = 0
        BY <1>3, <3>1
      <3>6. j % 2 \in {0, 1}
        BY <3>1
      <3> QED
        BY <3>2, <3>3, <3>4, <3>5, <3>6
    <2> QED
      BY <1>3, <1>6, <2>1, <2>2
  <1> QED
    BY <1>5, <1>7 DEF Alternates

-----------------------------------------------------------------------------
(* One message and its surroundings.                                       *)

\* The client: it waits only if it may try again, and once text has been
\* sent there is a body, or no more of it.
ClientOK ==
  /\ llm \in {"idle", "failed", "closed"} \cup Generating
  /\ provider \in 1..Providers /\ attempt \in 0..MaxRetries
  /\ produced \in BOOLEAN
  /\ queue \in Seq(Events) /\ Len(queue) <= QueueSize
  /\ failure \in {"none", "cancelled", "other"}
  /\ llm = "backoff" => attempt < MaxRetries
  /\ produced = TRUE => llm \in {"reading", "closed"}

\* The row: there is none until it is inserted, and nobody cancels what is not there.
RowOK ==
  /\ pc \in Places
  /\ row \in Rows /\ seen \in [Writers -> Rows]
  /\ why \in {"none", "cancelled", "other"}
  /\ cpc \in [Cancellers -> {"idle", "stop", "signal", "update", "save", "answered", "error"}]
  /\ pc \in {"idle", "generate", "append"} => row = Absent
  /\ row = Absent => \A c \in Cancellers : cpc[c] = "idle"

\* The session: the title generator writes over an automatic title only, as far
\* as its copy tells.
SessionOK ==
  /\ session \in {"none", "live", "deleted"}
  /\ history \in Histories \cup {<<>>}
  /\ title \in Titles /\ copy \in [{Stream, "titler"} -> Titles]
  /\ titler \in {"off", "generate", "read", "write"}
  /\ session = "none" => title = "auto"
  /\ titler = "write" => copy["titler"] = "auto"

\* What is on and what is over: a stream returns with its context cancelled.
FlagsOK ==
  /\ streamDone \in BOOLEAN
  /\ mode \in {"stream", "create"}
  /\ browser \in {"reading", "stalled", "gone"}
  /\ active \in BOOLEAN
  /\ local \in SUBSET Cancellers
  /\ signal \in BOOLEAN /\ unsignalled \in BOOLEAN
  /\ pc = "returned" /\ mode = "stream" => streamDone = TRUE

IInv == ClientOK /\ RowOK /\ SessionOK /\ FlagsOK

LEMMA EmptyFits == <<>> \in Seq(Events) /\ Len(<<>>) <= QueueSize
<1>1. QueueSize \in Nat
  BY ClientAssumption
<1> QED BY <1>1

LEMMA InitInv == Init => IInv
<1> SUFFICES ASSUME Init PROVE IInv
  OBVIOUS
<1>1. ClientOK
  <2>1. /\ llm = "idle" /\ provider = 1 /\ attempt = 0 /\ produced = FALSE
        /\ queue = <<>> /\ failure = "none"
    BY DEF Init, LlmInit
  <2>2. 1 \in 1..Providers /\ 0 \in 0..MaxRetries
    BY ClientAssumption
  <2>3. queue \in Seq(Events) /\ Len(queue) <= QueueSize
    BY <2>1, EmptyFits
  <2> QED BY <2>1, <2>2, <2>3 DEF ClientOK
<1>2. RowOK
  BY DEF Init, RowOK, Rows, Places, Over
<1>3. SessionOK
  BY DEF Init, SessionOK, NoCopy, Titles
<1>4. FlagsOK
  BY DEF Init, LlmInit, FlagsOK
<1> QED BY <1>1, <1>2, <1>3, <1>4 DEF IInv

-----------------------------------------------------------------------------
(* The client. *)

LEMMA OneLess ==
  ASSUME ClientOK, queue # <<>>, queue' = Tail(queue)
  PROVE  queue' \in Seq(Events) /\ Len(queue') <= QueueSize
BY ClientAssumption DEF ClientOK

LEMMA OneMore ==
  ASSUME ClientOK, HasRoom, NEW event \in Events, queue' = Append(queue, event)
  PROVE  queue' \in Seq(Events) /\ Len(queue') <= QueueSize
<1>1. Len(queue') = Len(queue) + 1 /\ queue' \in Seq(Events) /\ Len(queue) \in Nat
  BY DEF ClientOK
<1> QED BY <1>1, ClientAssumption DEF HasRoom

\* Requests, retries and fallbacks.
LEMMA RequestStep ==
  ASSUME ClientOK, Request \/ RequestCancelled \/ RetryAgain \/ SleepCancelled
  PROVE  ClientOK'
<1> USE ClientAssumption DEF ClientOK, Generating
<1>1. CASE Request
  <2>1. llm = "request" /\ UNCHANGED <<produced, queue>>
    BY <1>1 DEF Request, Reads, Waits, FallsBack, Fails
  <2>2. \/ llm' \in {"reading", "failed"} /\ provider' = 1 /\ attempt' = 0
        \/ llm' = "backoff" /\ attempt < MaxRetries /\ UNCHANGED <<provider, attempt>>
        \/ llm' = "request" /\ provider < Providers /\ provider' = provider + 1 /\ attempt' = 0
    BY <1>1 DEF Request, Reads, Waits, FallsBack, Fails, LoopsReturn
  <2>3. failure' \in {"other", failure}
    BY <1>1 DEF Request, Reads, Waits, FallsBack, Fails
  <2>4. provider' \in 1..Providers /\ attempt' \in 0..MaxRetries
    BY <2>2
  <2> QED BY <2>1, <2>2, <2>3, <2>4
<1>2. CASE RequestCancelled \/ SleepCancelled
  BY <1>2 DEF RequestCancelled, SleepCancelled, Fails, LoopsReturn
<1>3. CASE RetryAgain
  BY <1>3 DEF RetryAgain
<1> QED BY <1>1, <1>2, <1>3

\* The body.
LEMMA BodyStep ==
  ASSUME ClientOK, Chunk \/ BodyEnds \/ BodyBreaks \/ BodyCancelled
  PROVE  ClientOK'
<1>1. ASSUME NEW event \in Events, HasRoom, Closes(event), llm = "reading"
      PROVE  ClientOK'
  <2>1. queue' \in Seq(Events) /\ Len(queue') <= QueueSize
    BY <1>1, OneMore DEF Closes
  <2>2. llm' = "closed" /\ UNCHANGED <<provider, attempt, produced, failure>>
    BY <1>1 DEF Closes
  <2> QED BY <2>1, <2>2 DEF ClientOK
<1>2. ASSUME llm = "reading", llm' = "closed", UNCHANGED <<provider, attempt, produced, queue, failure>>
      PROVE  ClientOK'
  BY <1>2 DEF ClientOK
<1>3. CASE Chunk
  <2>1. queue' \in Seq(Events) /\ Len(queue') <= QueueSize
    BY <1>3, OneMore DEF Chunk, Events
  <2>2. llm = "reading" /\ produced' = TRUE /\ UNCHANGED <<llm, provider, attempt, failure>>
    BY <1>3 DEF Chunk
  <2> QED BY <2>1, <2>2 DEF ClientOK
<1>4. CASE BodyEnds
  BY <1>1, <1>4 DEF BodyEnds, Events
<1>5. CASE BodyBreaks
  BY <1>1, <1>2, <1>5 DEF BodyBreaks, Events
<1>6. CASE BodyCancelled
  BY <1>1, <1>2, <1>6 DEF BodyCancelled, Events
<1> QED BY <1>3, <1>4, <1>5, <1>6

\* What StreamMessage and CreateMessage do to the client.
Taking ==
  \/ Start
  \/ llm = "reading" /\ llm' = "closed" /\ UNCHANGED <<provider, attempt, produced, queue, failure>>
  \/ failure' = "none" /\ UNCHANGED <<llm, provider, attempt, produced, queue>>
  \/ queue # <<>> /\ queue' = Tail(queue) /\ UNCHANGED <<llm, provider, attempt, produced, failure>>
  \/ queue' = <<>> /\ UNCHANGED <<llm, provider, attempt, produced, failure>>
  \/ /\ llm' = "closed" /\ queue' = <<>> /\ provider' = 1 /\ attempt' = 0
     /\ produced' = FALSE /\ failure' = "none"

LEMMA TakingKeeps ==
  ASSUME ClientOK, Taking
  PROVE  ClientOK'
<1>1. CASE Start
  BY <1>1 DEF Start, ClientOK, Generating
<1>2. CASE llm = "reading" /\ llm' = "closed" /\ UNCHANGED <<provider, attempt, produced, queue, failure>>
  BY <1>2 DEF ClientOK
<1>3. CASE failure' = "none" /\ UNCHANGED <<llm, provider, attempt, produced, queue>>
  BY <1>3 DEF ClientOK
<1>4. CASE queue # <<>> /\ queue' = Tail(queue) /\ UNCHANGED <<llm, provider, attempt, produced, failure>>
  BY <1>4, OneLess DEF ClientOK
<1>5. CASE queue' = <<>> /\ UNCHANGED <<llm, provider, attempt, produced, failure>>
  <2>1. queue' \in Seq(Events) /\ Len(queue') <= QueueSize
    BY <1>5, EmptyFits
  <2> QED BY <1>5, <2>1 DEF ClientOK
<1>6. CASE /\ llm' = "closed" /\ queue' = <<>> /\ provider' = 1 /\ attempt' = 0
           /\ produced' = FALSE /\ failure' = "none"
  <2>1. queue' \in Seq(Events) /\ Len(queue') <= QueueSize
    BY <1>6, EmptyFits
  <2>2. 1 \in 1..Providers /\ 0 \in 0..MaxRetries
    BY ClientAssumption
  <2> QED BY <1>6, <2>1, <2>2 DEF ClientOK
<1> QED BY <1>1, <1>2, <1>3, <1>4, <1>5, <1>6 DEF Taking

LEMMA HandlerTakes == Handler \/ Cut => Taking \/ UNCHANGED client
<1> SUFFICES ASSUME Handler \/ Cut PROVE Taking \/ UNCHANGED client
  OBVIOUS
<1>1. CASE Load \/ AppendMessages \/ StoreCancel
  BY <1>1 DEF Load, AppendMessages, StoreCancel, Taking
<1>2. CASE Generated \/ Announce \/ Opened
  BY <1>2 DEF Generated, Announce, Opened, Taking, client
<1>3. CASE MarkRead \/ CompleteRead \/ FailRead \/ DropRead
  BY <1>3 DEF MarkRead, CompleteRead, FailRead, DropRead, ReadRow
<1>4. CASE MarkSave \/ CompleteSave \/ FailSave \/ DropSave
  BY <1>4 DEF MarkSave, CompleteSave, FailSave, DropSave, SaveRow
<1>5. CASE Forward \/ Cut \/ Finished
  BY <1>5 DEF Forward, Cut, Finished, Taking
<1>6. CASE Interrupted \/ WriteSummary \/ TellCompleted \/ TellFailed
  BY <1>6 DEF Interrupted, WriteSummary, TellCompleted, TellFailed
<1>7. CASE End
  BY <1>7 DEF End, Taking
<1> QED BY <1>1, <1>2, <1>3, <1>4, <1>5, <1>6, <1>7 DEF Handler

LEMMA SurroundingsTake == Surroundings => Taking \/ UNCHANGED client
<1> SUFFICES ASSUME Surroundings PROVE Taking \/ UNCHANGED client
  OBVIOUS
<1>1. CASE Crash
  BY <1>1 DEF Crash, Taking
<1>2. CASE Poll \/ TitleGenerated \/ TitleRead \/ TitleWrite
  BY <1>2 DEF Poll, TitleGenerated, TitleRead, TitleWrite
<1>3. CASE CreateSession \/ Rename \/ Delete
  BY <1>3 DEF CreateSession, Rename, Delete
<1>4. CASE BrowserStalls \/ BrowserLeaves \/ FailStaleMessages
  BY <1>4 DEF BrowserStalls, BrowserLeaves, FailStaleMessages
<1> QED BY <1>1, <1>2, <1>3, <1>4 DEF Surroundings

LEMMA CancelTakesNothing ==
  ASSUME NEW c \in Cancellers, GetMessage(c) \/ CancelStep(c)
  PROVE  UNCHANGED <<client, pc, mode, browser, active, local, session, title, copy, titler, history>>
BY DEF GetMessage, CancelStep, StopLocal, SendSignal, CancelRead, CancelSave, control, chat

LEMMA ClientStep == ClientOK /\ [Next]_vars => ClientOK'
<1> SUFFICES ASSUME ClientOK, [Next]_vars PROVE ClientOK'
  OBVIOUS
<1>1. ASSUME UNCHANGED client PROVE ClientOK'
  BY <1>1 DEF client, ClientOK
<1>2. CASE Handler \/ Cut \/ Surroundings
  BY <1>1, <1>2, HandlerTakes, SurroundingsTake, TakingKeeps
<1>3. CASE LlmStep
  BY <1>3, RequestStep, BodyStep DEF LlmStep, ProviderStep, HeedContext
<1>4. ASSUME NEW c \in Cancellers, GetMessage(c) \/ CancelStep(c) PROVE ClientOK'
  BY <1>1, <1>4, CancelTakesNothing
<1>5. CASE UNCHANGED vars
  BY <1>1, <1>5 DEF vars
<1> QED BY <1>2, <1>3, <1>4, <1>5 DEF Next

-----------------------------------------------------------------------------
(* The row. *)

LEMMA NewRows ==
  /\ \A status \in Unfinished \cup Terminal : \A cause \in {"none", "cancelled", "other"} :
       Row(status, cause) \in Rows /\ Row(status, cause) # Absent
  /\ Absent \in Rows
BY DEF Row, Rows, Absent, Unfinished, Terminal

LEMMA SavedIs ==
  ASSUME RowOK, NEW w \in Writers, NEW new \in Rows, new # Absent, row' = row \/ Saved(w, new)
  PROVE  row' \in Rows /\ (row' = Absent => row = Absent)
BY DEF RowOK, Saved

\* What StreamMessage and CreateMessage do to the row.
Progress ==
  /\ UNCHANGED cpc
  /\ row' \in Rows /\ (row' = Absent => row = Absent)
  /\ seen' \in [Writers -> Rows]
  /\ why' \in {"none", "cancelled", "other"}
  /\ pc' \in Places \ {"idle"}
  /\ pc' \in {"generate", "append"} => row' = row /\ pc \in {"idle", "generate", "append"}

LEMMA ProgressKeeps ==
  ASSUME RowOK, Progress
  PROVE  RowOK'
BY DEF RowOK, Progress

LEMMA ReadRowStep ==
  ASSUME RowOK, NEW place \in {"mark", "complete", "fail", "drop"}, NEW save \in DOMAIN Saving,
         NEW failed \in {"fail", "tellFailed", "end"}, ReadRow(place, save, failed)
  PROVE  Progress
<1>1. /\ UNCHANGED <<row, cpc>> /\ pc' \in {save, failed}
      /\ why' \in {why, "other", "none"}
      /\ seen' = [seen EXCEPT ![Stream] = row] \/ seen' = [seen EXCEPT ![Stream] = Absent]
  BY DEF ReadRow, StreamOnly, Selected, NotSelected, Go, cancels
<1>2. seen' \in [Writers -> Rows]
  BY <1>1, NewRows DEF RowOK
<1>3. pc' \in Places \ {"idle"} /\ pc' \notin {"generate", "append"}
  BY <1>1 DEF Places, Over, Saving
<1> QED BY <1>1, <1>2, <1>3 DEF RowOK, Progress

LEMMA SaveRowStep ==
  ASSUME RowOK, NEW place, NEW new \in Rows, new # Absent,
         NEW next \in {"announce", "summary", "tellFailed", "end"},
         NEW failed \in {"fail", "tellFailed", "end"}, SaveRow(place, new, next, failed),
         why' \in {"none", "cancelled", "other"}
  PROVE  Progress
<1>1. /\ UNCHANGED cpc /\ pc' \in {next, failed}
      /\ row' = row \/ Saved(Stream, new)
      /\ seen' = [seen EXCEPT ![Stream] = Absent]
  BY DEF SaveRow, StreamOnly, Go, cancels
<1>2. seen' \in [Writers -> Rows]
  BY <1>1, NewRows DEF RowOK
<1>3. pc' \in Places \ {"idle"} /\ pc' \notin {"generate", "append"}
  BY <1>1 DEF Places, Over, Saving
<1>4. row' \in Rows /\ (row' = Absent => row = Absent)
  BY <1>1, SavedIs DEF Writers
<1> QED BY <1>1, <1>2, <1>3, <1>4 DEF Progress

LEMMA HandlerRow ==
  ASSUME RowOK, Handler \/ Cut
  PROVE  Progress
<1> USE DEF StreamOnly, Go, cancels, message, chat
<1>1. CASE Load \/ Generated
  <2>1. /\ UNCHANGED <<row, seen, why, cpc>> /\ pc \in {"idle", "generate"}
        /\ pc' \in {"rejected", "generate", "append"}
    BY <1>1 DEF Load, Generated, Rejected
  <2> QED BY <2>1 DEF RowOK, Progress, Places, Over
<1>2. CASE AppendMessages
  <2>1. /\ UNCHANGED <<seen, why, cpc>> /\ pc' \in {"rejected", "returned", "store"}
        /\ row' = row \/ row' = Row("COMPLETED", "none") \/ row' = Row("PENDING", "none")
    BY <1>2 DEF AppendMessages, Rejected
  <2>2. row' \in Rows /\ (row' = Absent => row = Absent)
    BY <2>1, NewRows DEF RowOK, Unfinished, Terminal
  <2>3. pc' \in Places \ {"idle", "generate", "append"}
    BY <2>1 DEF Places, Over
  <2> QED BY <2>1, <2>2, <2>3 DEF RowOK, Progress
<1>3. CASE StoreCancel \/ Announce \/ Cut \/ TellCompleted \/ TellFailed \/ End
  <2>1. UNCHANGED <<row, seen, why, cpc>> /\ pc' \in {"mark", "open", "end", "complete", "returned"}
    BY <1>3 DEF StoreCancel, Announce, Cut, TellCompleted, TellFailed, Tell, End
  <2> QED BY <2>1 DEF RowOK, Progress, Places, Over
<1>4. CASE Opened \/ Forward \/ Finished \/ Interrupted \/ WriteSummary
  <2>1. UNCHANGED <<row, seen, cpc>> /\ pc' \in {"consume", "fail", "drop", "complete", "tell"}
    BY <1>4 DEF Opened, Forward, Finished, Interrupted, WriteSummary
  <2>2. why' \in {why, "cancelled", "other"}
    BY <1>4 DEF Opened, Forward, Finished, Interrupted, WriteSummary, CauseOf
  <2> QED BY <2>1, <2>2 DEF RowOK, Progress, Places, Over
<1>5. CASE MarkRead \/ CompleteRead \/ FailRead \/ DropRead
  <2>1. DOMAIN Saving = {"save", "saveDone", "saveFailed", "saveDropped"}
    BY DEF Saving
  <2> QED BY <1>5, <2>1, ReadRowStep DEF MarkRead, CompleteRead, FailRead, DropRead
<1>6. CASE MarkSave
  <2>1. Row("STREAMING", "none") \in Rows /\ Row("STREAMING", "none") # Absent
    BY NewRows DEF Unfinished
  <2>2. why' \in {"none", "cancelled", "other"}
    BY <1>6 DEF MarkSave, RowOK
  <2> QED BY <1>6, <2>1, <2>2, SaveRowStep DEF MarkSave
<1>7. CASE CompleteSave
  <2>1. Row("COMPLETED", "none") \in Rows /\ Row("COMPLETED", "none") # Absent
    BY NewRows DEF Terminal
  <2>2. why' \in {"none", "cancelled", "other"}
    BY <1>7 DEF CompleteSave, RowOK
  <2> QED BY <1>7, <2>1, <2>2, SaveRowStep DEF CompleteSave
<1>8. CASE FailSave
  <2>1. Row("FAILED", why) \in Rows /\ Row("FAILED", why) # Absent
    BY NewRows DEF Terminal, RowOK
  <2>2. why' \in {"none", "cancelled", "other"}
    BY <1>8 DEF FailSave
  <2> QED BY <1>8, <2>1, <2>2, SaveRowStep DEF FailSave
<1>9. CASE DropSave
  <2>1. Row("FAILED", "cancelled") \in Rows /\ Row("FAILED", "cancelled") # Absent
    BY NewRows DEF Terminal
  <2>2. why' \in {"none", "cancelled", "other"}
    BY <1>9 DEF DropSave
  <2> QED BY <1>9, <2>1, <2>2, SaveRowStep DEF DropSave
<1> QED BY <1>1, <1>2, <1>3, <1>4, <1>5, <1>6, <1>7, <1>8, <1>9 DEF Handler

LEMMA CancelRow ==
  ASSUME RowOK, NEW c \in Cancellers, GetMessage(c) \/ CancelStep(c)
  PROVE  RowOK'
<1>1. row # Absent /\ UNCHANGED <<pc, why>>
  <2>1. UNCHANGED <<pc, why>> /\ (row # Absent \/ cpc[c] # "idle")
    BY DEF GetMessage, CancelStep, StopLocal, SendSignal, CancelRead, CancelSave, CancelAt, message
  <2> QED BY <2>1 DEF RowOK
<1>2. PICK place \in {"stop", "signal", "update", "save", "answered", "error"} :
        cpc' = [cpc EXCEPT ![c] = place]
  BY DEF GetMessage, CancelStep, StopLocal, SendSignal, CancelRead, CancelSave, CGo
<1>3. \/ UNCHANGED seen
      \/ seen' = [seen EXCEPT ![c] = row] \/ seen' = [seen EXCEPT ![c] = Absent]
  BY DEF GetMessage, CancelStep, StopLocal, SendSignal, CancelRead, CancelSave, Selected, NotSelected, message
<1>4. row' = row \/ Saved(c, Row("FAILED", "cancelled"))
  BY DEF GetMessage, CancelStep, StopLocal, SendSignal, CancelRead, CancelSave, message
<1>5. row' \in Rows /\ row' # Absent
  <2>1. Row("FAILED", "cancelled") \in Rows /\ Row("FAILED", "cancelled") # Absent /\ c \in Writers
    BY NewRows DEF Terminal, Writers
  <2> QED BY <1>1, <1>4, <2>1, SavedIs
<1>6. seen' \in [Writers -> Rows]
  BY <1>3, NewRows DEF RowOK
<1>7. cpc' \in [Cancellers -> {"idle", "stop", "signal", "update", "save", "answered", "error"}]
  BY <1>2 DEF RowOK
<1> QED BY <1>1, <1>5, <1>6, <1>7 DEF RowOK

LEMMA RowStep == RowOK /\ [Next]_vars => RowOK'
<1> SUFFICES ASSUME RowOK, [Next]_vars PROVE RowOK'
  OBVIOUS
<1>1. ASSUME UNCHANGED <<pc, message, cpc>> PROVE RowOK'
  BY <1>1 DEF message, RowOK
<1>2. CASE Handler \/ Cut
  BY <1>2, HandlerRow, ProgressKeeps
<1>3. ASSUME NEW c \in Cancellers, GetMessage(c) \/ CancelStep(c) PROVE RowOK'
  BY <1>3, CancelRow
<1>4. CASE Crash
  <2>1. /\ pc' = "crashed" /\ why' = "none" /\ seen' = [seen EXCEPT ![Stream] = Absent]
        /\ UNCHANGED <<row, cpc>>
    BY <1>4 DEF Crash, Go, cancels
  <2>2. seen' \in [Writers -> Rows]
    BY <2>1, NewRows DEF RowOK
  <2> QED BY <2>1, <2>2 DEF RowOK, Places, Over
<1>5. CASE FailStaleMessages
  <2>1. row # Absent /\ row' = Row("FAILED", "other") /\ UNCHANGED <<pc, seen, why, cpc>>
    BY <1>5 DEF FailStaleMessages, Stale, Unfinished, Absent, cancels
  <2>2. row' \in Rows /\ row' # Absent
    BY <2>1, NewRows DEF Terminal
  <2> QED BY <2>1, <2>2 DEF RowOK
<1>6. CASE LlmStep \/ Poll \/ TitleGenerated \/ TitleRead \/ TitleWrite \/ UNCHANGED vars
  BY <1>1, <1>6 DEF LlmStep, Poll, TitleGenerated, TitleRead, TitleWrite, vars, cancels
<1>7. CASE CreateSession \/ Rename \/ Delete \/ BrowserStalls \/ BrowserLeaves
  BY <1>1, <1>7 DEF CreateSession, Rename, Delete, BrowserStalls, BrowserLeaves, cancels
<1> QED BY <1>2, <1>3, <1>4, <1>5, <1>6, <1>7 DEF Next, Surroundings

-----------------------------------------------------------------------------
(* The session, and what is on and what is over. *)

LEMMA SessionStep == SessionOK /\ [Next]_vars => SessionOK'
<1> SUFFICES ASSUME SessionOK, [Next]_vars PROVE SessionOK'
  OBVIOUS
<1> USE DEF chat
<1>1. ASSUME UNCHANGED chat PROVE SessionOK'
  BY <1>1 DEF SessionOK
<1>2. CASE Load
  <2>1. /\ history' = <<>> /\ UNCHANGED <<session, title, titler>>
        /\ UNCHANGED copy \/ copy' = [copy EXCEPT ![Stream] = title]
    BY <1>2 DEF Load
  <2>2. copy' \in [{Stream, "titler"} -> Titles] /\ copy'["titler"] = copy["titler"]
    BY <2>1, WritersAssumption DEF SessionOK
  <2> QED BY <2>1, <2>2 DEF SessionOK
<1>3. CASE AppendMessages \/ WriteSummary
  <2>1. /\ UNCHANGED <<session, copy, history>> /\ titler' \in {titler, "generate", "off"}
        /\ UNCHANGED title \/ (session = "live" /\ title' = copy[Stream])
    BY <1>3 DEF AppendMessages, WriteSummary, UpdateSession, MaybeGenerateTitle
  <2>2. title' \in Titles
    BY <2>1 DEF SessionOK
  <2> QED BY <2>1, <2>2 DEF SessionOK
<1>4. CASE TellCompleted
  BY <1>4 DEF TellCompleted, MaybeGenerateTitle, SessionOK
<1>5. CASE End
  <2>1. /\ UNCHANGED <<session, title, titler, history>> /\ copy' = [copy EXCEPT ![Stream] = "auto"]
    BY <1>5 DEF End
  <2>2. copy' \in [{Stream, "titler"} -> Titles] /\ copy'["titler"] = copy["titler"]
    BY <2>1, WritersAssumption DEF SessionOK, Titles
  <2> QED BY <2>1, <2>2 DEF SessionOK
<1>6. CASE MarkRead \/ CompleteRead \/ FailRead \/ DropRead
  BY <1>1, <1>6 DEF MarkRead, CompleteRead, FailRead, DropRead, ReadRow
<1>7. CASE MarkSave \/ CompleteSave \/ FailSave \/ DropSave
  BY <1>1, <1>7 DEF MarkSave, CompleteSave, FailSave, DropSave, SaveRow
<1>8. CASE Generated \/ StoreCancel \/ Announce \/ Opened \/ Forward \/ Cut \/ Finished
  BY <1>1, <1>8 DEF Generated, StoreCancel, Announce, Opened, Forward, Cut, Finished
<1>9. CASE Interrupted \/ TellFailed \/ LlmStep \/ UNCHANGED vars
  BY <1>1, <1>9 DEF Interrupted, TellFailed, LlmStep, vars
<1>10. CASE Poll \/ BrowserStalls \/ BrowserLeaves \/ FailStaleMessages
  BY <1>1, <1>10 DEF Poll, BrowserStalls, BrowserLeaves, FailStaleMessages
<1>11. ASSUME NEW c \in Cancellers, GetMessage(c) \/ CancelStep(c) PROVE SessionOK'
  BY <1>1, <1>11, CancelTakesNothing
<1>12. CASE CreateSession \/ Rename \/ Delete \/ TitleGenerated
  BY <1>12 DEF CreateSession, Rename, GetSession, UpdateSession, Delete, TitleGenerated, SessionOK, Titles
<1>13. CASE TitleRead
  <2>1. /\ UNCHANGED <<session, title, history>>
        /\ \/ titler' = "write" /\ title = "auto" /\ copy' = [copy EXCEPT !["titler"] = title]
           \/ titler' = "off" /\ UNCHANGED copy
    BY <1>13 DEF TitleRead, StaysAuto, IsAutoTitle
  <2>2. copy' \in [{Stream, "titler"} -> Titles] /\ (titler' = "write" => copy'["titler"] = "auto")
    BY <2>1 DEF SessionOK
  <2> QED BY <2>1, <2>2 DEF SessionOK
<1>14. CASE TitleWrite
  <2>1. /\ UNCHANGED <<session, history>> /\ titler' = "off" /\ copy' = [copy EXCEPT !["titler"] = "auto"]
        /\ UNCHANGED title \/ (session = "live" /\ title' = "llm")
    BY <1>14 DEF TitleWrite, UpdateSession
  <2>2. copy' \in [{Stream, "titler"} -> Titles] /\ title' \in Titles
    BY <2>1 DEF SessionOK, Titles
  <2> QED BY <2>1, <2>2 DEF SessionOK
<1>15. CASE Crash
  BY <1>15 DEF Crash, NoCopy, SessionOK, Titles
<1> QED BY <1>2, <1>3, <1>4, <1>5, <1>6, <1>7, <1>8, <1>9, <1>10, <1>11, <1>12, <1>13, <1>14, <1>15
        DEF Next, Handler, Surroundings

\* A context that is done stays done.
LEMMA FlagsStep == FlagsOK /\ [Next]_vars => FlagsOK' /\ (streamDone = TRUE => streamDone' = TRUE)
<1> DEFINE FlagsKept == FlagsOK' /\ (streamDone = TRUE => streamDone' = TRUE)
<1> SUFFICES ASSUME FlagsOK, [Next]_vars PROVE FlagsKept
  OBVIOUS
<1> USE DEF StreamOnly, Go, cancels, control, message
<1>1. ASSUME UNCHANGED <<streamDone, mode, browser, active, local, signal, unsignalled>>,
             pc' # "returned" \/ pc' = pc
      PROVE  FlagsKept
  BY <1>1 DEF FlagsOK
<1>2. CASE Load \/ Generated
  BY <1>1, <1>2 DEF Load, Generated, Rejected
<1>3. CASE AppendMessages
  BY <1>3 DEF AppendMessages, Rejected, FlagsOK
<1>4. CASE StoreCancel
  BY <1>4 DEF StoreCancel, FlagsOK
<1>5. CASE MarkRead \/ CompleteRead \/ FailRead \/ DropRead
  BY <1>1, <1>5 DEF MarkRead, CompleteRead, FailRead, DropRead, ReadRow
<1>6. CASE MarkSave \/ CompleteSave \/ FailSave \/ DropSave
  BY <1>1, <1>6 DEF MarkSave, CompleteSave, FailSave, DropSave, SaveRow
<1>7. CASE Announce \/ Opened \/ Forward \/ Cut \/ Finished
  BY <1>1, <1>7 DEF Announce, Opened, Forward, Cut, Finished
<1>8. CASE Interrupted \/ WriteSummary \/ TellCompleted \/ TellFailed
  BY <1>1, <1>8 DEF Interrupted, WriteSummary, TellCompleted, TellFailed, Tell
<1>9. CASE End
  BY <1>9 DEF End, FlagsOK
<1>10. ASSUME NEW c \in Cancellers, GetMessage(c) \/ CancelStep(c) PROVE FlagsKept
  <2>1. UNCHANGED <<pc, mode, browser, active, local>>
    BY <1>10, CancelTakesNothing
  <2>2. streamDone' \in BOOLEAN /\ (streamDone = TRUE => streamDone' = TRUE)
    BY <1>10, Zenon DEF GetMessage, CancelStep, StopLocal, SendSignal, CancelRead, CancelSave, FlagsOK
  <2>3. signal' \in {signal, TRUE} /\ unsignalled' \in {unsignalled, TRUE}
    BY <1>10 DEF GetMessage, CancelStep, StopLocal, SendSignal, CancelRead, CancelSave
  <2> QED BY <2>1, <2>2, <2>3 DEF FlagsOK
<1>11. CASE Poll \/ BrowserStalls \/ BrowserLeaves
  BY <1>11 DEF Poll, BrowserStalls, BrowserLeaves, FlagsOK
<1>12. CASE Crash
  BY <1>12 DEF Crash, FlagsOK
<1>13. CASE LlmStep
  <2>1. UNCHANGED streamDone
    BY <1>13 DEF LlmStep, ProviderStep, HeedContext, Request, RequestCancelled, RetryAgain, SleepCancelled,
                 Chunk, BodyEnds, BodyBreaks, BodyCancelled
  <2> QED BY <1>1, <1>13, <2>1 DEF LlmStep
<1>14. CASE TitleGenerated \/ TitleRead \/ TitleWrite \/ FailStaleMessages
  BY <1>1, <1>14 DEF TitleGenerated, TitleRead, TitleWrite, FailStaleMessages
<1>15. CASE CreateSession \/ Rename \/ Delete \/ UNCHANGED vars
  BY <1>1, <1>15 DEF CreateSession, Rename, Delete, vars
<1> QED BY <1>2, <1>3, <1>4, <1>5, <1>6, <1>7, <1>8, <1>9, <1>10, <1>11, <1>12, <1>13, <1>14, <1>15
        DEF Next, Handler, Surroundings

LEMMA Inductive == Spec => []IInv
<1>1. IInv /\ [Next]_vars => IInv'
  BY ClientStep, RowStep, SessionStep, FlagsStep DEF IInv
<1> QED BY InitInv, <1>1, PTL DEF Spec

-----------------------------------------------------------------------------
\* The types of a message, its stream, its session and its cancel requests, for
\* any number of cancel requests, providers and retries (module/ai, platform/llm).
THEOREM TypeCorrect == Spec => []TypeOK
<1>1. IInv => TypeOK
  BY DEF IInv, ClientOK, RowOK, SessionOK, FlagsOK, TypeOK, LlmTypeOK
<1> QED BY Inductive, <1>1, PTL

\* service.go:982-985: of whatever history a session has, what is sent to the
\* model is a dialogue, for every size of the window.
THEOREM ContextIsDialogue == Spec => []ContextAlternates
<1>1. IInv => ContextAlternates
  <2> SUFFICES ASSUME IInv PROVE ContextAlternates
    OBVIOUS
  <2>1. history \in Seq(ChatMessages)
    <3>1. <<>> \in Seq(ChatMessages)
      OBVIOUS
    <3> QED BY <3>1, HistoriesAssumption DEF IInv, SessionOK
  <2> QED BY <2>1, WindowAssumption, ContextMakesDialog DEF ContextAlternates
<1> QED BY Inductive, <1>1, PTL

\* retry.go:20-21, fallback.go:17-18: once text has been sent no provider is
\* asked again.
THEOREM NothingIsReplayed == Spec => NoReplay
<1>1. IInv /\ [Next]_vars => [produced => llm' \notin {"request", "backoff"}]_<<streamDone, client>>
  <2> SUFFICES ASSUME IInv, [Next]_vars, produced PROVE llm' \notin {"request", "backoff"}
    OBVIOUS
  <2>1. llm \in {"reading", "closed"}
    BY DEF IInv, ClientOK
  <2>2. ASSUME UNCHANGED client PROVE llm' \notin {"request", "backoff"}
    BY <2>1, <2>2 DEF client
  <2>3. ASSUME Taking PROVE llm' \notin {"request", "backoff"}
    BY <2>1, <2>3 DEF Taking, Start
  <2>4. CASE Handler \/ Cut \/ Surroundings
    BY <2>2, <2>3, <2>4, HandlerTakes, SurroundingsTake
  <2>5. CASE LlmStep
    BY <2>1, <2>5 DEF LlmStep, ProviderStep, HeedContext, Request, RequestCancelled, RetryAgain,
                      SleepCancelled, Chunk, BodyEnds, BodyBreaks, BodyCancelled, Closes
  <2>6. ASSUME NEW c \in Cancellers, GetMessage(c) \/ CancelStep(c) PROVE llm' \notin {"request", "backoff"}
    BY <2>2, <2>6, CancelTakesNothing
  <2>7. CASE UNCHANGED vars
    BY <2>2, <2>7 DEF vars
  <2> QED BY <2>4, <2>5, <2>6, <2>7 DEF Next
<1> QED BY Inductive, <1>1, PTL DEF Spec, NoReplay

\* The row as a Save of writer w leaves it: a terminal status is changed only if
\* the row is not the one its SELECT returned.
LEMMA SaveRespects ==
  ASSUME NEW w, NEW new, row.status \in Terminal, seen[w] = row, Saved(w, new)
  PROVE  row'.status = row.status
BY DEF Saved, MayOverwrite

\* chat_repository.go:275-277 as the code can keep it: a terminal status is
\* written over only by a Save of an older SELECT.
LEMMA Settled == IInv /\ [Next]_vars => [row.status \in Terminal => row'.status = row.status \/ PendingSave]_vars
<1> SUFFICES ASSUME IInv, [Next]_vars, row.status \in Terminal, ~PendingSave
             PROVE  row'.status = row.status
  OBVIOUS
<1> USE DEF message
<1>1. row # Absent
  BY DEF Absent, Terminal
<1>2. pc \notin {"idle", "generate", "append"}
  BY <1>1 DEF IInv, RowOK
<1>3. ASSUME NEW place \in DOMAIN Saving, NEW new, NEW next, NEW failed, SaveRow(place, new, next, failed)
      PROVE  row'.status = row.status
  <2>1. row' = row \/ Saved(Stream, new)
    BY <1>3 DEF SaveRow
  <2>2. seen[Stream] = row
    BY <1>3 DEF SaveRow, StreamOnly, PendingSave
  <2> QED BY <2>1, <2>2, SaveRespects
<1>4. CASE MarkSave \/ CompleteSave \/ FailSave \/ DropSave
  <2>1. DOMAIN Saving = {"save", "saveDone", "saveFailed", "saveDropped"}
    BY DEF Saving
  <2> QED BY <1>3, <1>4, <2>1 DEF MarkSave, CompleteSave, FailSave, DropSave
<1>5. CASE Load \/ Generated \/ AppendMessages
  BY <1>2, <1>5 DEF Load, Generated, AppendMessages, StreamOnly
<1>6. CASE StoreCancel \/ Announce \/ Opened \/ Forward \/ Cut \/ Finished \/ Interrupted
  BY <1>6 DEF StoreCancel, Announce, Opened, Forward, Cut, Finished, Interrupted
<1>7. CASE MarkRead \/ CompleteRead \/ FailRead \/ DropRead
  BY <1>7 DEF MarkRead, CompleteRead, FailRead, DropRead, ReadRow
<1>8. CASE WriteSummary \/ TellCompleted \/ TellFailed \/ End \/ LlmStep
  BY <1>8 DEF WriteSummary, TellCompleted, TellFailed, End, LlmStep
<1>9. ASSUME NEW c \in Cancellers, GetMessage(c) \/ CancelStep(c) PROVE row'.status = row.status
  <2>1. row' = row \/ (cpc[c] = "save" /\ Saved(c, Row("FAILED", "cancelled")))
    BY <1>9 DEF GetMessage, CancelStep, StopLocal, SendSignal, CancelRead, CancelSave, CancelAt
  <2>2. cpc[c] = "save" => seen[c] = row
    BY DEF PendingSave
  <2> QED BY <2>1, <2>2, SaveRespects
<1>10. CASE FailStaleMessages
  BY <1>10 DEF FailStaleMessages, Stale, Unfinished, Terminal
<1>11. CASE Poll \/ TitleGenerated \/ TitleRead \/ TitleWrite \/ UNCHANGED vars
  BY <1>11 DEF Poll, TitleGenerated, TitleRead, TitleWrite, vars
<1>12. CASE CreateSession \/ Rename \/ Delete \/ BrowserStalls \/ BrowserLeaves \/ Crash
  BY <1>12 DEF CreateSession, Rename, Delete, BrowserStalls, BrowserLeaves, Crash
<1> QED BY <1>4, <1>5, <1>6, <1>7, <1>8, <1>9, <1>10, <1>11, <1>12 DEF Next, Handler, Surroundings

\* service.go:897: the user's title goes only to a writer with an older copy.
LEMMA RenameLost ==
  IInv /\ [Next]_vars =>
    [title = "user" /\ title' # "user" =>
       \/ pc \in {"append", "summary"} /\ copy[Stream] # "user"
       \/ titler = "write" /\ copy["titler"] # "user"]_vars
<1> DEFINE OldCopy == \/ pc \in {"append", "summary"} /\ copy[Stream] # "user"
                      \/ titler = "write" /\ copy["titler"] # "user"
<1> SUFFICES ASSUME IInv, [Next]_vars, title = "user", title' # "user" PROVE OldCopy
  OBVIOUS
<1> USE DEF chat
<1>1. CASE AppendMessages \/ WriteSummary
  BY <1>1 DEF AppendMessages, WriteSummary, StreamOnly, UpdateSession
<1>2. CASE TitleWrite
  BY <1>2 DEF TitleWrite, IInv, SessionOK
<1>3. CASE CreateSession
  BY <1>3 DEF CreateSession, IInv, SessionOK
<1>4. title' = title \/ AppendMessages \/ WriteSummary \/ TitleWrite \/ CreateSession
  <2>1. CASE Load \/ Generated \/ StoreCancel \/ Announce \/ Opened \/ Forward \/ Cut \/ Finished
    BY <2>1 DEF Load, Generated, StoreCancel, Announce, Opened, Forward, Cut, Finished
  <2>2. CASE MarkRead \/ CompleteRead \/ FailRead \/ DropRead
    BY <2>2 DEF MarkRead, CompleteRead, FailRead, DropRead, ReadRow
  <2>3. CASE MarkSave \/ CompleteSave \/ FailSave \/ DropSave
    BY <2>3 DEF MarkSave, CompleteSave, FailSave, DropSave, SaveRow
  <2>4. CASE Interrupted \/ TellCompleted \/ TellFailed \/ End \/ LlmStep \/ UNCHANGED vars
    BY <2>4 DEF Interrupted, TellCompleted, TellFailed, End, LlmStep, vars
  <2>5. ASSUME NEW c \in Cancellers, GetMessage(c) \/ CancelStep(c) PROVE title' = title
    BY <2>5, CancelTakesNothing
  <2>6. CASE Poll \/ TitleGenerated \/ TitleRead \/ Delete \/ BrowserStalls \/ BrowserLeaves
    BY <2>6 DEF Poll, TitleGenerated, TitleRead, Delete, BrowserStalls, BrowserLeaves
  <2>7. CASE Rename \/ Crash \/ FailStaleMessages
    BY <2>7 DEF Rename, UpdateSession, Crash, FailStaleMessages
  <2> QED BY <2>1, <2>2, <2>3, <2>4, <2>5, <2>6, <2>7 DEF Next, Handler, Surroundings
<1> QED BY <1>1, <1>2, <1>3, <1>4

\* chat_repository.go:275-277, service.go:897: neither a settled message nor the
\* user's title is written over, except by a writer that read before it was there.
THEOREM OldCopiesOverwrite == Spec => OnlyOldCopiesOverwrite
BY Inductive, Settled, RenameLost, PTL
   DEF Spec, OnlyOldCopiesOverwrite, SettledUnlessRaced, RenameLostOnlyToOldCopy

\* A stream that returned has cancelled the context of its generation, so whoever
\* still reads the body stops (service.go, runMessageStream).
THEOREM ProviderIsReleased == Spec => []ProviderReleased
<1>1. IInv => ProviderReleased
  BY DEF IInv, FlagsOK, ProviderReleased
<1> QED BY Inductive, <1>1, PTL
=============================================================================

---------------------------- MODULE ServerProofs ----------------------------
(***************************************************************************)
(* Proofs about the process (Lifecycle), about the caches of clusters in   *)
(* it (ClusterCache) and about a request to the proxy (ClusterSession),    *)
(* for any number of requests, sessions, instances and administrators.     *)
(*                                                                         *)
(* ClusterSession: what is open goes with the place ServeHTTP is at        *)
(* (Wiring), the sessions that are counted are members (Counting), and the *)
(* two read deadlines of a session move together (DeadlinesShared).        *)
(*                                                                         *)
(* Lifecycle: time does the work, with all timeouts in the order of        *)
(* LifecycleAssumption.  A request under the API timeout that came in      *)
(* before the listener closed is answered before the shutdown's context    *)
(* ends (Plain), and the balancer has seen the drain before the listener   *)
(* closes (Routes).                                                        *)
(*                                                                         *)
(* ClusterCache: a stale entry, and a load that will store one, is always  *)
(* accounted for: by an invalidation that has yet to reach that very       *)
(* instance, or by one that was lost or that came during a load (Told).    *)
(***************************************************************************)
EXTENDS Lifecycle, ClusterCache, ClusterSession, FiniteSetTheorems, TLAPS

-----------------------------------------------------------------------------
(* The proxy (ClusterSession).                                             *)

\* What is open where ServeHTTP is: copiers between the 101 and wg.Wait only, an
\* armed timer until the deferred Stop, and without an upgrade no client connection.
Wiring ==
  /\ stage \notin {"serve", "wait"} => \A d \in Sides : copier[d] \in Ended
  /\ stage \in {"trip", "relay"} => conn["client"] # "open"
  /\ stage \in {"idle", "returned"} => \A d \in Sides : conn[d] # "open"
  /\ timer = "armed" => stage \in {"switch", "serve", "wait", "leave"}

\* The limiter counts who is refreshed, and without Redis whoever holds a place.
Counting ==
  /\ IsFiniteSet(members) /\ Cardinality(members) <= MaxSessions
  /\ refreshed \subseteq members
  /\ distributed = FALSE => holds \subseteq members

\* The place of the request that is followed.
OwnPlace ==
  stage \in {"idle", "trip", "relay", "returned"} =>
    /\ Self \notin holds /\ Self \notin refreshed
    /\ distributed = FALSE => Self \notin members

\* The two deadlines move together, with every transfer.
DeadlinesShared == cut = FALSE /\ \A d \in Sides : age[d] = quiet

ProxyIInv == ProxyTypeOK /\ Wiring /\ Counting /\ OwnPlace /\ DeadlinesShared

LEMMA ProxyInitInv == ProxyInit => ProxyIInv
<1> SUFFICES ASSUME ProxyInit PROVE ProxyIInv
  OBVIOUS
<1> USE DEF ProxyInit, Both
<1>1. ProxyTypeOK
  <2>1. 0 \in 0..Idle
    BY SessionsAssumption
  <2>2. age \in [Sides -> 0..Idle] /\ quiet \in 0..Idle /\ cut \in BOOLEAN
    BY <2>1
  <2>3. /\ peer \in [Sides -> {"talks", "listens", "still", "gone"}]
        /\ conn \in [Sides -> {"none", "open", "closed"}]
        /\ copier \in [Sides -> {"read", "write"} \cup Ended]
    BY DEF Ended
  <2> QED BY <2>2, <2>3 DEF ProxyTypeOK
<1>2. Wiring
  BY DEF Wiring, Sides, Ended
<1>3. Counting
  <2>1. IsFiniteSet({}) /\ Cardinality({}) = 0
    BY FS_EmptySet
  <2> QED BY <2>1, SessionsAssumption DEF Counting
<1>4. OwnPlace /\ DeadlinesShared
  BY DEF OwnPlace, DeadlinesShared, Sides
<1> QED BY <1>1, <1>2, <1>3, <1>4 DEF ProxyIInv

\* A connection is closed at most once and never opened by closing.
LEMMA CloseIs ==
  ASSUME ProxyTypeOK, NEW S, Close(S)
  PROVE  /\ conn' \in [Sides -> {"none", "open", "closed"}]
         /\ \A d \in Sides : conn'[d] # "open" \/ (conn[d] = "open" /\ d \notin S)
BY DEF ProxyTypeOK, Close

\* The steps of ServeHTTP, as far as the wires go.
LEMMA HandlerWires ==
  ASSUME ProxyIInv, Handler
  PROVE  /\ conn' \in [Sides -> {"none", "open", "closed"}]
         /\ copier' \in [Sides -> {"read", "write"} \cup Ended]
         /\ timer' \in {"none", "armed", "fired", "stopped"}
         /\ Wiring'
         /\ UNCHANGED <<age, quiet, cut>>
<1> DEFINE Rest == UNCHANGED <<age, quiet, cut>>
           Types == /\ conn' \in [Sides -> {"none", "open", "closed"}]
                    /\ copier' \in [Sides -> {"read", "write"} \cup Ended]
                    /\ timer' \in {"none", "armed", "fired", "stopped"}
<1> SUFFICES Types /\ Wiring' /\ Rest
  OBVIOUS
<1> USE DEF ProxyIInv, Go, wires
<1>1. CASE Refuse \/ RoundTrip \/ Acquire \/ WriteRequest \/ ReadResponse \/ Abandon
  <2>1. UNCHANGED wires
    BY <1>1 DEF Refuse, RoundTrip, Acquire, WriteRequest, ReadResponse, Abandon
  <2>2. \/ stage = "idle" /\ stage' \in {"returned", "dial"}
        \/ stage = "trip" /\ stage' = "relay"
        \/ stage \in {"dial", "write", "read", "hijack"} /\ stage' \in {"read", "hijack", "leave"}
    BY <1>1 DEF Refuse, RoundTrip, Acquire, WriteRequest, ReadResponse, Abandon
  <2>3. Wiring'
    BY <2>1, <2>2 DEF Wiring
  <2> QED BY <2>1, <2>3 DEF ProxyTypeOK
<1>2. CASE ToTransport \/ Dial \/ Hijack
  <2>1. UNCHANGED <<copier, age, quiet, cut, timer>>
    BY <1>2 DEF ToTransport, Dial, Hijack
  <2>2. \/ stage = "idle" /\ stage' = "trip" /\ conn' = [conn EXCEPT !["upstream"] = "open"]
        \/ stage = "dial" /\ stage' = "write" /\ conn' = [conn EXCEPT !["upstream"] = "open"]
        \/ stage = "hijack" /\ stage' = "arm" /\ conn' = [conn EXCEPT !["client"] = "open"]
    BY <1>2 DEF ToTransport, Dial, Hijack
  <2>3. Types
    BY <2>1, <2>2 DEF ProxyTypeOK
  <2>4. Wiring'
    BY <2>1, <2>2 DEF Wiring, ProxyTypeOK, Sides
  <2> QED BY <2>1, <2>3, <2>4
<1>3. CASE Cancelled \/ Relay
  <2>1. /\ UNCHANGED <<copier, age, quiet, cut, timer>> /\ Close({"upstream"})
        /\ stage \in {"trip", "relay"} /\ stage' = "returned"
    BY <1>3 DEF Cancelled, Relay
  <2>2. Types
    BY <2>1, CloseIs DEF ProxyTypeOK
  <2>3. Wiring'
    BY <2>1, CloseIs DEF Wiring, Sides
  <2> QED BY <2>1, <2>2, <2>3
<1>4. CASE ArmTimer
  <2>1. /\ UNCHANGED <<copier, age, quiet, cut>> /\ stage = "arm"
        /\ \/ stage' = "switch" /\ timer' \in {"none", "armed"} /\ UNCHANGED conn
           \/ stage' = "leave" /\ Close(Sides) /\ UNCHANGED timer
    BY <1>4 DEF ArmTimer
  <2>2. Types
    BY <2>1, CloseIs DEF ProxyTypeOK
  <2>3. Wiring'
    BY <2>1 DEF Wiring
  <2> QED BY <2>1, <2>2, <2>3
<1>5. CASE SwitchProtocols
  <2>1. /\ UNCHANGED <<conn, age, quiet, cut, timer>> /\ stage = "switch"
        /\ \/ stage' = "serve" /\ copier' = Both("read")
           \/ stage' = "leave" /\ UNCHANGED copier
    BY <1>5 DEF SwitchProtocols
  <2>2. Types
    BY <2>1 DEF ProxyTypeOK, Both
  <2>3. Wiring'
    BY <2>1 DEF Wiring
  <2> QED BY <2>1, <2>2, <2>3
<1>6. CASE CloseBoth
  <2>1. UNCHANGED <<copier, age, quiet, cut, timer>> /\ stage = "serve" /\ stage' = "wait"
    BY <1>6 DEF CloseBoth
  <2>2. Types
    BY <1>6, <2>1, CloseIs DEF CloseBoth, ProxyTypeOK
  <2>3. Wiring'
    BY <2>1 DEF Wiring
  <2> QED BY <2>1, <2>2, <2>3
<1>7. CASE WaitGroup
  <2>1. UNCHANGED wires /\ stage' = "leave" /\ \A d \in Sides : copier[d] \in Ended
    BY <1>7 DEF WaitGroup
  <2> QED BY <2>1 DEF Wiring, ProxyTypeOK
<1>8. CASE Leave
  <2>1. /\ UNCHANGED <<copier, age, quiet, cut>> /\ stage = "leave" /\ stage' = "returned" /\ Close(Sides)
        /\ timer' = IF timer = "armed" THEN "stopped" ELSE timer
    BY <1>8 DEF Leave
  <2>2. Types
    BY <2>1, CloseIs DEF ProxyTypeOK
  <2>3. Wiring'
    BY <2>1, CloseIs DEF Wiring
  <2> QED BY <2>1, <2>2, <2>3
<1> QED BY <1>1, <1>2, <1>3, <1>4, <1>5, <1>6, <1>7, <1>8 DEF Handler

\* A copier, which reads and writes while ServeHTTP serves or waits for it: it is
\* ended by the deadline only if nothing was passed on for as long.
LEMMA CopierWires ==
  ASSUME ProxyIInv, NEW d \in Sides, Copier(d) \/ Panics(d)
  PROVE  /\ copier' \in [Sides -> {"read", "write"} \cup Ended]
         /\ age' \in [Sides -> 0..Idle] /\ quiet' \in 0..Idle
         /\ Wiring' /\ DeadlinesShared'
         /\ UNCHANGED <<fixed, stage, peer, conn, timer, limiter>>
<1> USE DEF ProxyIInv
<1>1. PICK from \in {"read", "write"}, to \in {"read", "write"} \cup Ended : Moves(d, from, to)
  BY DEF Copier, Panics, Read, ReadFails, ReadTimesOut, Write, WriteFails, Ended
<1>2. UNCHANGED <<fixed, stage, peer, conn, timer, limiter>> /\ copier[d] = from /\ copier' = [copier EXCEPT ![d] = to]
  BY <1>1 DEF Moves
<1>3. copier' \in [Sides -> {"read", "write"} \cup Ended]
  BY <1>2 DEF ProxyTypeOK
<1>4. Wiring'
  BY <1>2 DEF Wiring, Ended
<1>5. age' \in [Sides -> 0..Idle] /\ quiet' \in 0..Idle /\ DeadlinesShared'
  <2>1. CASE UNCHANGED <<age, quiet, cut>>
    BY <2>1 DEF ProxyTypeOK, DeadlinesShared
  <2>2. CASE ReadTimesOut(d)
    <3>1. quiet = Idle
      BY <2>2 DEF ReadTimesOut, DeadlinesShared
    <3>2. ~(quiet < Idle)
      BY <3>1, SessionsAssumption
    <3>3. cut' = FALSE /\ UNCHANGED <<age, quiet>>
      BY <2>2, <3>2, Zenon DEF ReadTimesOut, DeadlinesShared
    <3> QED BY <3>3 DEF ProxyTypeOK, DeadlinesShared
  <2>3. CASE Write(d)
    <3>1. age' = [e \in Sides |-> 0] /\ quiet' = 0 /\ UNCHANGED cut
      BY <2>3 DEF Write, Refreshes
    <3> QED BY <3>1, SessionsAssumption DEF DeadlinesShared
  <2> QED BY <2>1, <2>2, <2>3 DEF Copier, Panics, Read, ReadFails, WriteFails
<1> QED BY <1>2, <1>3, <1>4, <1>5

LEMMA TimeWires ==
  ASSUME ProxyIInv, TimePasses
  PROVE  age' \in [Sides -> 0..Idle] /\ quiet' \in 0..Idle /\ DeadlinesShared'
<1> USE SessionsAssumption DEF ProxyIInv, ProxyTypeOK, DeadlinesShared
<1>1. /\ age' = [d \in Sides |-> IF age[d] < Idle THEN age[d] + 1 ELSE Idle]
      /\ quiet' = IF quiet < Idle THEN quiet + 1 ELSE Idle
      /\ UNCHANGED cut
  BY DEF TimePasses
<1>2. quiet' \in 0..Idle
  BY <1>1
<1>3. \A d \in Sides : age'[d] = quiet'
  BY <1>1
<1> QED BY <1>1, <1>2, <1>3

-----------------------------------------------------------------------------
(* Its places in the limiter.                                              *)

\* One more is counted only where there is room.
LEMMA MembersGrow ==
  ASSUME Counting, HasRoom, NEW s
  PROVE  IsFiniteSet(members \cup {s}) /\ Cardinality(members \cup {s}) <= MaxSessions
<1>1. Cardinality(members) \in Nat
  BY FS_CardinalityType DEF Counting
<1>2. IsFiniteSet(members \cup {s})
  BY FS_AddElement DEF Counting
<1>3. Cardinality(members \cup {s}) \in {Cardinality(members), Cardinality(members) + 1}
  BY FS_AddElement DEF Counting
<1> QED BY <1>1, <1>2, <1>3, SessionsAssumption DEF HasRoom

LEMMA MembersShrink ==
  ASSUME Counting, NEW s
  PROVE  IsFiniteSet(members \ {s}) /\ Cardinality(members \ {s}) <= MaxSessions
<1>1. members \ {s} \subseteq members
  OBVIOUS
<1>2. IsFiniteSet(members \ {s}) /\ Cardinality(members \ {s}) <= Cardinality(members)
  BY <1>1, FS_Subset DEF Counting
<1>3. Cardinality(members \ {s}) \in Nat /\ Cardinality(members) \in Nat
  BY <1>2, FS_CardinalityType DEF Counting
<1> QED BY <1>2, <1>3, SessionsAssumption DEF Counting

LEMMA TakeKeeps ==
  ASSUME ProxyTypeOK, Counting, NEW s \in Sessions, TakePlace(s), UNCHANGED distributed
  PROVE  Counting' /\ holds' \in SUBSET Sessions /\ members' \in SUBSET Sessions /\ refreshed' \in SUBSET Sessions
<1>1. HasRoom /\ holds' = holds \cup {s} /\ members' = members \cup {s} /\ refreshed' \subseteq refreshed \cup {s}
  BY DEF TakePlace
<1>2. IsFiniteSet(members') /\ Cardinality(members') <= MaxSessions
  BY <1>1, MembersGrow
<1> QED BY <1>1, <1>2 DEF Counting, ProxyTypeOK

LEMMA GiveBackKeeps ==
  ASSUME ProxyTypeOK, Counting, NEW s \in Sessions, GivePlaceBack(s), UNCHANGED distributed
  PROVE  /\ Counting'
         /\ holds' \in SUBSET Sessions /\ members' \in SUBSET Sessions /\ refreshed' \in SUBSET Sessions
         /\ s \notin holds' /\ s \notin refreshed' /\ (distributed = FALSE => s \notin members')
<1>1. /\ holds' = holds \ {s} /\ refreshed' = refreshed \ {s}
      /\ members' = members \ {s} \/ members' = members
  BY DEF GivePlaceBack, LeaseStopped
<1>2. distributed = FALSE => members' = members \ {s}
  BY Zenon DEF GivePlaceBack
<1>3. IsFiniteSet(members') /\ Cardinality(members') <= MaxSessions
  BY <1>1, MembersShrink DEF Counting
<1> QED BY <1>1, <1>2, <1>3 DEF Counting, ProxyTypeOK

\* What the limiter may do at any step.
LimiterKept ==
  /\ Counting' /\ OwnPlace'
  /\ holds' \in SUBSET Sessions /\ members' \in SUBSET Sessions /\ refreshed' \in SUBSET Sessions

LEMMA LimiterRests ==
  ASSUME ProxyIInv, UNCHANGED <<limiter, distributed>>,
         stage' \in {"idle", "trip", "relay", "returned"} => stage \in {"idle", "trip", "relay", "returned"}
  PROVE  LimiterKept
BY DEF ProxyIInv, limiter, LimiterKept, Counting, OwnPlace, ProxyTypeOK

LEMMA HandlerPlaces ==
  ASSUME ProxyIInv, Handler
  PROVE  LimiterKept
<1> USE DEF Go, fixed
<1>1. UNCHANGED distributed
  BY DEF Handler, Refuse, ToTransport, RoundTrip, Cancelled, Relay, Acquire, Abandon, Dial, WriteRequest,
         ReadResponse, Hijack, ArmTimer, SwitchProtocols, CloseBoth, WaitGroup, Leave
<1>2. CASE Refuse \/ ToTransport \/ RoundTrip \/ Cancelled \/ Relay
  BY <1>1, <1>2, LimiterRests DEF Refuse, ToTransport, RoundTrip, Cancelled, Relay
<1>3. CASE Abandon \/ Dial \/ WriteRequest \/ ReadResponse \/ Hijack \/ ArmTimer
  BY <1>1, <1>3, LimiterRests DEF Abandon, Dial, WriteRequest, ReadResponse, Hijack, ArmTimer
<1>4. CASE SwitchProtocols \/ CloseBoth \/ WaitGroup
  BY <1>1, <1>4, LimiterRests DEF SwitchProtocols, CloseBoth, WaitGroup
<1>5. CASE Acquire
  <2>1. Self \in Sessions
    BY DEF Sessions
  <2>2. CASE stage' = "dial" /\ TakePlace(Self)
    BY <1>1, <2>1, <2>2, TakeKeeps DEF ProxyIInv, LimiterKept, OwnPlace
  <2>3. CASE stage = "idle" /\ stage' = "returned" /\ AcquireFails(Self)
    <3>1. /\ distributed = TRUE /\ UNCHANGED <<holds, refreshed>>
          /\ members' = members \/ (HasRoom /\ members' = members \cup {Self})
      BY <2>3 DEF AcquireFails, ProxyIInv, ProxyTypeOK
    <3>2. IsFiniteSet(members') /\ Cardinality(members') <= MaxSessions
      BY <3>1, MembersGrow DEF ProxyIInv, Counting
    <3> QED BY <1>1, <2>1, <2>3, <3>1, <3>2 DEF ProxyIInv, LimiterKept, Counting, OwnPlace, ProxyTypeOK
  <2>4. CASE stage = "idle" /\ UNCHANGED limiter
    BY <1>1, <2>4, LimiterRests
  <2> QED BY <1>5, <2>2, <2>3, <2>4 DEF Acquire
<1>6. CASE Leave
  BY <1>1, <1>6, GiveBackKeeps DEF Leave, ProxyIInv, LimiterKept, OwnPlace, Sessions
<1> QED BY <1>2, <1>3, <1>4, <1>5, <1>6 DEF Handler

\* The limiter by itself, and the other sessions.
LEMMA LimiterStep ==
  ASSUME ProxyIInv, NEW s \in Sessions, RefreshEnds(s) \/ Lapses(s) \/ (s # Self /\ OtherSession(s))
  PROVE  LimiterKept /\ UNCHANGED <<fixed, stage, peer, wires>>
<1>1. UNCHANGED <<fixed, stage, peer, wires>> /\ UNCHANGED distributed
  BY DEF RefreshEnds, Lapses, OtherSession, fixed
<1>2. CASE RefreshEnds(s)
  BY <1>1, <1>2 DEF RefreshEnds, ProxyIInv, LimiterKept, Counting, OwnPlace, ProxyTypeOK
<1>3. CASE Lapses(s)
  <2>1. members' = members \ {s} /\ s \notin refreshed /\ UNCHANGED <<holds, refreshed>>
    BY <1>3 DEF Lapses, Purged
  <2>2. distributed # FALSE
    BY <1>3, Zenon DEF Lapses
  <2>3. IsFiniteSet(members') /\ Cardinality(members') <= MaxSessions
    BY <2>1, MembersShrink DEF ProxyIInv
  <2> QED BY <1>1, <2>1, <2>2, <2>3 DEF ProxyIInv, LimiterKept, Counting, OwnPlace, ProxyTypeOK
<1>4. CASE s # Self /\ OtherSession(s)
  <2>1. CASE TakePlace(s)
    <3>1. OwnPlace'
      BY <1>1, <1>4, <2>1 DEF TakePlace, ProxyIInv, OwnPlace
    <3> QED BY <1>1, <2>1, <3>1, TakeKeeps DEF ProxyIInv, LimiterKept
  <2>2. CASE GivePlaceBack(s)
    <3>1. OwnPlace'
      BY <1>1, <1>4, <2>2 DEF GivePlaceBack, LeaseStopped, ProxyIInv, OwnPlace
    <3> QED BY <1>1, <2>2, <3>1, GiveBackKeeps DEF ProxyIInv, LimiterKept
  <2> QED BY <1>4, <2>1, <2>2 DEF OtherSession
<1> QED BY <1>1, <1>2, <1>3, <1>4

-----------------------------------------------------------------------------
LEMMA ProxyInductive == ProxySpec => []ProxyIInv
<1>1. ASSUME ProxyIInv, [ProxyNext]_proxyVars PROVE ProxyIInv'
  <2> USE <1>1
  <2>1. CASE Handler
    <3>1. /\ UNCHANGED <<fixed, peer>>
          /\ stage' \in {"returned", "trip", "relay", "dial", "leave", "write", "read", "hijack", "arm",
                         "switch", "serve", "wait"}
      BY <2>1 DEF Handler, Go, Refuse, ToTransport, RoundTrip, Cancelled, Relay, Acquire, Abandon, Dial,
                  WriteRequest, ReadResponse, Hijack, ArmTimer, SwitchProtocols, CloseBoth, WaitGroup, Leave
    <3>2. ProxyTypeOK'
      BY <2>1, <3>1, HandlerWires, HandlerPlaces DEF ProxyIInv, ProxyTypeOK, LimiterKept, fixed
    <3>3. DeadlinesShared'
      BY <2>1, HandlerWires DEF ProxyIInv, DeadlinesShared
    <3> QED BY <2>1, <3>2, <3>3, HandlerWires, HandlerPlaces DEF ProxyIInv, LimiterKept
  <2>2. CASE TokenExpires
    <3>1. Close({"client", "upstream"}) /\ timer' = "fired" /\ UNCHANGED <<fixed, stage, peer, copier, age, quiet, cut, limiter>>
      BY <2>2 DEF TokenExpires, ClosedByTimer
    <3>2. ProxyTypeOK'
      BY <3>1, CloseIs DEF ProxyIInv, ProxyTypeOK, fixed, limiter
    <3>3. Wiring'
      BY <3>1, CloseIs DEF ProxyIInv, Wiring, Sides
    <3>4. DeadlinesShared'
      BY <3>1 DEF ProxyIInv, DeadlinesShared
    <3>5. LimiterKept
      BY <3>1, LimiterRests DEF fixed
    <3> QED BY <3>2, <3>3, <3>4, <3>5 DEF ProxyIInv, LimiterKept
  <2>3. CASE TimePasses
    <3>1. UNCHANGED <<fixed, stage, peer, conn, copier, timer, limiter>>
      BY <2>3 DEF TimePasses
    <3>2. LimiterKept
      BY <3>1, LimiterRests DEF fixed
    <3>3. cut' = FALSE
      BY <2>3, TimeWires DEF DeadlinesShared
    <3>4. ProxyTypeOK'
      BY <2>3, <3>1, <3>2, <3>3, TimeWires DEF ProxyIInv, ProxyTypeOK, LimiterKept, fixed
    <3>5. Wiring'
      BY <3>1 DEF ProxyIInv, Wiring
    <3> QED BY <2>3, <3>2, <3>4, <3>5, TimeWires DEF ProxyIInv, LimiterKept
  <2>4. ASSUME NEW d \in Sides, Copier(d) \/ Panics(d) PROVE ProxyIInv'
    <3>1. UNCHANGED <<fixed, stage, peer, conn, timer, limiter>>
      BY <2>4, CopierWires
    <3>2. LimiterKept
      BY <3>1, LimiterRests DEF fixed
    <3>3. cut' = FALSE
      BY <2>4, CopierWires DEF DeadlinesShared
    <3>4. ProxyTypeOK'
      BY <2>4, <3>1, <3>2, <3>3, CopierWires DEF ProxyIInv, ProxyTypeOK, LimiterKept, fixed
    <3> QED BY <2>4, <3>2, <3>4, CopierWires DEF ProxyIInv, LimiterKept
  <2>5. ASSUME NEW d \in Sides, PeerChanges(d) PROVE ProxyIInv'
    <3>1. UNCHANGED <<fixed, stage, wires, limiter>>
      BY <2>5 DEF PeerChanges
    <3>2. peer' \in [Sides -> {"talks", "listens", "still", "gone"}]
      BY <2>5 DEF PeerChanges, ProxyIInv, ProxyTypeOK
    <3>3. LimiterKept
      BY <3>1, LimiterRests DEF fixed
    <3>4. ProxyTypeOK'
      BY <3>1, <3>2, <3>3 DEF ProxyIInv, ProxyTypeOK, LimiterKept, fixed, wires
    <3>5. Wiring' /\ DeadlinesShared'
      BY <3>1 DEF ProxyIInv, Wiring, DeadlinesShared, wires
    <3> QED BY <3>3, <3>4, <3>5 DEF ProxyIInv, LimiterKept
  <2>6. ASSUME LimiterKept, UNCHANGED <<fixed, stage, peer, wires>> PROVE ProxyIInv'
    <3>1. ProxyTypeOK'
      BY <2>6 DEF ProxyIInv, ProxyTypeOK, LimiterKept, fixed, wires
    <3>2. Wiring' /\ DeadlinesShared'
      BY <2>6 DEF ProxyIInv, Wiring, DeadlinesShared, wires
    <3> QED BY <2>6, <3>1, <3>2 DEF ProxyIInv, LimiterKept
  <2>7. ASSUME NEW s \in Sessions, RefreshEnds(s) \/ Lapses(s) PROVE ProxyIInv'
    BY <2>6, <2>7, LimiterStep
  <2>8. ASSUME NEW s \in Others, OtherSession(s) PROVE ProxyIInv'
    BY <2>6, <2>8, LimiterStep, SessionsAssumption DEF Sessions
  <2>9. CASE UNCHANGED proxyVars
    <3>1. UNCHANGED <<fixed, stage, peer, wires, limiter>>
      BY <2>9 DEF proxyVars
    <3> QED BY <2>6, <3>1, LimiterRests DEF fixed
  <2> QED BY <2>1, <2>2, <2>3, <2>4, <2>5, <2>7, <2>8, <2>9 DEF ProxyNext
<1> QED BY ProxyInitInv, <1>1, PTL DEF ProxySpec

\* The types of a proxied request and of the limiter, for any number of sessions
\* and any idle timeout (proxy.go, session_limiter.go).
THEOREM ProxyTypeCorrect == ProxySpec => []ProxyTypeOK
BY ProxyInductive, PTL DEF ProxyIInv

\* audit.go: whatever fails in Redis, the sessions whose place is still counted are
\* within the cap, for any number of them on any instances.
THEOREM CapIsKept == ProxySpec => []CapHolds
<1>1. ProxyIInv => CapHolds
  <2> SUFFICES ASSUME ProxyIInv PROVE CapHolds
    OBVIOUS
  <2> DEFINE counted == IF distributed THEN holds \cap refreshed ELSE holds
  <2>1. counted \subseteq members
    <3>1. CASE distributed = TRUE
      BY <3>1 DEF ProxyIInv, Counting
    <3>2. CASE distributed = FALSE
      BY <3>2 DEF ProxyIInv, Counting
    <3> QED BY <3>1, <3>2 DEF ProxyIInv, ProxyTypeOK
  <2> HIDE DEF counted
  <2>2. IsFiniteSet(counted) /\ Cardinality(counted) <= Cardinality(members)
    BY <2>1, FS_Subset DEF ProxyIInv, Counting
  <2>3. Cardinality(counted) \in Nat /\ Cardinality(members) \in Nat
    BY <2>2, FS_CardinalityType DEF ProxyIInv, Counting
  <2>4. Cardinality(counted) <= MaxSessions
    BY <2>2, <2>3, SessionsAssumption DEF ProxyIInv, Counting
  <2> QED BY <2>4 DEF CapHolds, counted
<1> QED BY ProxyInductive, <1>1, PTL

\* proxy.go, serveUpgrade and its deferred calls: wherever a request ends, nothing of it is left.
THEOREM LeavesNothing == ProxySpec => []NothingLeft
<1>1. ProxyIInv => NothingLeft
  <2> SUFFICES ASSUME ProxyIInv, stage = "returned"
               PROVE  /\ \A d \in Sides : conn[d] # "open" /\ copier[d] \in Ended
                      /\ timer # "armed"
                      /\ Self \notin holds \cup refreshed
                      /\ ~distributed => Self \notin members
    BY DEF NothingLeft
  <2>1. (\A d \in Sides : conn[d] # "open" /\ copier[d] \in Ended) /\ timer # "armed"
    BY DEF ProxyIInv, Wiring
  <2>2. Self \notin holds \cup refreshed /\ (distributed = FALSE => Self \notin members)
    BY DEF ProxyIInv, OwnPlace
  <2>3. distributed \in BOOLEAN
    BY DEF ProxyIInv, ProxyTypeOK
  <2>4. ~distributed => Self \notin members
    BY <2>2, <2>3
  <2> QED BY <2>1, <2>2, <2>4
<1> QED BY ProxyInductive, <1>1, PTL

\* proxy.go, copyWithIdleTimeout: for every idle timeout, a session over which bytes
\* pass in one direction is not cut off for the silence of the other.
THEOREM TrafficIsNotCut == ProxySpec => []TrafficKeepsAlive
<1>1. ProxyIInv => TrafficKeepsAlive
  BY DEF ProxyIInv, DeadlinesShared, TrafficKeepsAlive
<1> QED BY ProxyInductive, <1>1, PTL

-----------------------------------------------------------------------------
(* The process (Lifecycle).                                                *)

USE LifecycleAssumption
USE DEF RequestKinds

Before == {"new", "opened", "run"}
Stopping == {"stop", "loops", "mcp", "trace", "redis", "db", "exit"}
Releasing == Stopping \ {"stop"}

Typing ==
  /\ main \in Before \cup {"drain", "exited"} \cup Stopping
  /\ now \in Nat /\ since \in Nat /\ began \in Nat /\ until \in Nat
  /\ listening \in BOOLEAN /\ draining \in BOOLEAN /\ signalled \in BOOLEAN /\ failed \in BOOLEAN
  /\ stuck \in BOOLEAN /\ lost \in BOOLEAN
  /\ kind \in [Requests -> RequestKinds]
  /\ req \in [Requests -> {"none", "refused", "active", "answered", "cut", "killed"}]
  /\ start \in [Requests -> Nat]
  /\ balancer \in [routes : BOOLEAN, last : Nat, seen : {"none", "down", "draining", "up"}]

\* What is open where.
Doors ==
  /\ listening => main \in {"run", "drain"} /\ ~failed
  /\ main \notin Before => (main = "exited" \/ draining)
  /\ main \in {"opened", "run", "drain", "stop"} => StoresOpen

\* A request under the API timeout is in the server for that long at most, and
\* none is left when the server has stopped.
Plain ==
  /\ main = "drain" => now <= since + DrainTimeout
  /\ \A r \in Requests : Active(r) =>
       /\ main \in {"run", "drain"} \cup Stopping
       /\ kind[r] = "plain" =>
            /\ start[r] <= now /\ now <= start[r] + APIRequestTimeout
            /\ main = "stop" => start[r] <= since + DrainTimeout
            /\ main \notin Releasing

\* The balancer probes within its period.  Once it has looked at a draining
\* instance it does not route there, and it has when the listener closes.
Routes ==
  /\ balancer.last <= now + 1
  /\ main # "exited" => now < balancer.last + ProbePeriod
  /\ main \in Before \cup {"drain"} /\ (balancer.routes \/ balancer.seen = "up") => listening \/ failed
  /\ main = "drain" =>
       /\ balancer.seen = "up" => balancer.last <= since + 1
       /\ balancer.routes => \/ balancer.last <= since + 1
                             \/ balancer.seen # "none" /\ now <= since + ProbePeriod
  /\ main \in Stopping \cup {"exited"} => failed \/ (~balancer.routes /\ balancer.seen # "up")

\* The cleanup's time counts from its own beginning.
Cleanup ==
  /\ main = "loops" => now = began
  /\ main \in {"loops", "mcp", "trace"} => until = began + ShutdownTimeout
  /\ main = "trace" => stuck = (now >= until)
  /\ lost => main \in {"redis", "db", "exit", "exited"}

LifecycleIInv == Typing /\ Doors /\ Plain /\ Routes /\ Cleanup /\ RolloutLosesNone /\ FlushedUnlessStuck

-----------------------------------------------------------------------------
\* The order of the release.
LEMMA FollowingIs ==
  /\ Following("loops") = "mcp" /\ Following("mcp") = "trace" /\ Following("trace") = "redis"
  /\ Following("redis") = "db" /\ Following("db") = "exit"
<1> DEFINE At(x) == CHOOSE i \in 1..Len(Shutdowners) : Shutdowners[i] = x
<1>1. /\ Len(Shutdowners) = 5
      /\ Shutdowners[1] = "loops" /\ Shutdowners[2] = "mcp" /\ Shutdowners[3] = "trace"
      /\ Shutdowners[4] = "redis" /\ Shutdowners[5] = "db"
  BY DEF Shutdowners
<1>2. \A i \in 1..Len(Shutdowners) : i = 1 \/ i = 2 \/ i = 3 \/ i = 4 \/ i = 5
  BY <1>1
<1>3. \A x : (\E i \in 1..Len(Shutdowners) : Shutdowners[i] = x) =>
               At(x) \in 1..Len(Shutdowners) /\ Shutdowners[At(x)] = x
  OBVIOUS
<1>4. At("loops") = 1 /\ At("mcp") = 2 /\ At("trace") = 3 /\ At("redis") = 4 /\ At("db") = 5
  <2> HIDE DEF At
  <2> QED BY <1>1, <1>2, <1>3
<1>5. \A x : Following(x) = IF At(x) = Len(Shutdowners) THEN "exit" ELSE Shutdowners[At(x) + 1]
  BY DEF Following
<1> HIDE DEF At
<1> QED BY <1>1, <1>4, <1>5

LEMMA LifecycleInitInv == LifecycleInit => LifecycleIInv
<1> SUFFICES ASSUME LifecycleInit PROVE LifecycleIInv
  OBVIOUS
<1> USE DEF LifecycleInit, Before, Stopping, Releasing
<1>1. Typing
  BY DEF Typing
<1>2. Doors /\ Plain /\ Cleanup
  BY DEF Doors, Plain, Cleanup, Active
<1>3. Routes
  BY DEF Routes
<1>4. RolloutLosesNone /\ FlushedUnlessStuck
  BY DEF RolloutLosesNone, PlainAnswered, NobodyRefused, FlushedUnlessStuck
<1> QED BY <1>1, <1>2, <1>3, <1>4 DEF LifecycleIInv

\* What is promised of the requests holds as long as they stay as they are.
LEMMA Promises ==
  ASSUME LifecycleIInv, UNCHANGED <<kind, req>>, failed => failed', lost' => stuck'
  PROVE  RolloutLosesNone' /\ FlushedUnlessStuck'
BY DEF LifecycleIInv, RolloutLosesNone, PlainAnswered, NobodyRefused, FlushedUnlessStuck

\* Start, signal and listener.
LEMMA StartStep ==
  ASSUME LifecycleIInv, OpenPlatform \/ StartBackgroundTasks \/ Listen \/ AcceptFails \/ Signal
  PROVE  LifecycleIInv'
<1> USE DEF LifecycleIInv, Before, Stopping, Releasing
<1>1. UNCHANGED <<now, since, began, until, draining, kind, req, start, balancer, stuck, lost>>
  BY DEF OpenPlatform, StartBackgroundTasks, Listen, AcceptFails, Signal, clock, outside
<1>2. /\ \/ main' = main
         \/ main = "new" /\ main' \in {"opened", "exited"}
         \/ main = "opened" /\ main' = "run"
      /\ main' \in {"opened", "run", "drain", "stop"} => StoresOpen'
      /\ listening' => main' \in {"run", "drain"} /\ ~failed'
      /\ listening' \in BOOLEAN /\ failed' \in BOOLEAN /\ signalled' \in BOOLEAN
      /\ failed => failed'
      /\ listening => listening' \/ failed'
  <2>1. CASE OpenPlatform
    BY <2>1 DEF OpenPlatform, Typing, Doors, StoresOpen, Platform
  <2>2. CASE StartBackgroundTasks
    <3>1. open \subseteq open' /\ main = "opened" /\ main' = "run"
          /\ UNCHANGED <<listening, failed, signalled>>
      BY <2>2 DEF StartBackgroundTasks
    <3> QED BY <3>1 DEF Typing, Doors, StoresOpen
  <2>3. CASE Listen
    <3>1. /\ main \in {"run", "drain"} /\ UNCHANGED <<main, open, signalled>>
          /\ \/ listening' = TRUE /\ failed' = FALSE /\ failed = FALSE
             \/ listening' = FALSE /\ failed' = TRUE /\ listening = FALSE
      BY <2>3 DEF Listen, Typing
    <3> QED BY <3>1 DEF Typing, Doors, StoresOpen
  <2>4. CASE AcceptFails
    BY <2>4 DEF AcceptFails, Typing, Doors, StoresOpen
  <2>5. CASE Signal
    BY <2>5 DEF Signal, Typing, Doors, StoresOpen
  <2> QED BY <2>1, <2>2, <2>3, <2>4, <2>5
<1>3. Typing' /\ Doors'
  BY <1>1, <1>2 DEF Typing, Doors
<1>4. Plain'
  BY <1>1, <1>2 DEF Plain, Active, Doors
<1>5. Routes'
  BY <1>1, <1>2 DEF Routes, Doors
<1>6. Cleanup'
  BY <1>1, <1>2 DEF Cleanup
<1>7. RolloutLosesNone' /\ FlushedUnlessStuck'
  BY <1>1, <1>2, Promises DEF FlushedUnlessStuck
<1> QED BY <1>3, <1>4, <1>5, <1>6, <1>7

\* From the signal, or the listener's failure, to the end of the server.
LEMMA StopStep ==
  ASSUME LifecycleIInv, BeginShutdown \/ CloseListener \/ StopServer
  PROVE  LifecycleIInv'
<1> USE DEF LifecycleIInv, Before, Stopping, Releasing
<1>1. UNCHANGED <<now, open, signalled, failed, kind, req, start, balancer, stuck, lost>>
  BY DEF BeginShutdown, CloseListener, StopServer, clock, outside
<1>2. CASE BeginShutdown
  <2>1. main = "run" /\ main' = "drain" /\ since' = now /\ draining' /\ UNCHANGED <<began, until, listening>>
    BY <1>2 DEF BeginShutdown, SetDraining
  <2>2. Typing' /\ Doors'
    BY <1>1, <1>2, <2>1 DEF BeginShutdown, SetDraining, Typing, Doors, StoresOpen
  <2>3. Plain'
    BY <1>1, <2>1 DEF Plain, Active, Typing
  <2>4. Routes'
    BY <1>1, <2>1 DEF Routes, Typing
  <2>5. Cleanup'
    BY <1>1, <2>1 DEF Cleanup
  <2> QED BY <1>1, <2>1, <2>2, <2>3, <2>4, <2>5, Promises DEF FlushedUnlessStuck
<1>3. CASE CloseListener
  <2>1. main = "drain" /\ main' = "stop" /\ listening' = FALSE /\ UNCHANGED <<since, began, until, draining>>
    BY <1>3 DEF CloseListener, Drained, clock
  <2>2. now >= since + DrainTimeout
    BY <1>3 DEF CloseListener, Drained, EndOfShutdown, Typing
  <2>3. Typing' /\ Doors'
    BY <1>1, <2>1 DEF Typing, Doors, StoresOpen
  <2>4. Plain'
    BY <1>1, <2>1 DEF Plain, Active, Typing
  <2>5. Routes'
    BY <1>1, <2>1, <2>2 DEF Routes, Typing
  <2>6. Cleanup'
    BY <1>1, <2>1 DEF Cleanup
  <2> QED BY <1>1, <2>1, <2>3, <2>4, <2>5, <2>6, Promises DEF FlushedUnlessStuck
<1>4. CASE StopServer
  <2>1. /\ main = "stop" /\ main' = "loops" /\ until' = now + ShutdownTimeout /\ began' = now /\ Quiet
        /\ UNCHANGED <<since, listening, draining>>
    BY <1>4 DEF StopServer, CleanupDeadline
  <2>2. Typing' /\ Doors'
    BY <1>1, <2>1 DEF Typing, Doors
  <2>3. ASSUME NEW r \in Requests, Active(r), kind[r] = "plain" PROVE FALSE
    <3>1. start[r] <= since + DrainTimeout /\ now <= start[r] + APIRequestTimeout
      BY <2>1, <2>3 DEF Plain
    <3>2. now < EndOfShutdown
      BY <3>1 DEF EndOfShutdown, Typing
    <3> QED BY <2>1, <2>3, <3>2 DEF Quiet, EndOfShutdown, Typing
  <2>4. Plain'
    BY <1>1, <2>1, <2>3 DEF Plain, Active
  <2>5. Routes' /\ Cleanup'
    BY <1>1, <2>1 DEF Routes, Cleanup
  <2> QED BY <1>1, <2>1, <2>2, <2>4, <2>5, Promises DEF FlushedUnlessStuck
<1> QED BY <1>2, <1>3, <1>4

\* The release of what is open, in order.
LEMMA ReleaseStep ==
  ASSUME LifecycleIInv, StopLoops \/ CloseMcp \/ CloseMcpExpires \/ TraceShutdown \/ CloseRedis \/ CloseDb
  PROVE  LifecycleIInv'
<1> USE DEF LifecycleIInv, Before, Stopping, Releasing
<1>1. /\ UNCHANGED <<now, since, began, listening, draining, signalled, failed, kind, req, start, balancer>>
      /\ \/ main = "loops" /\ main' = "mcp" /\ UNCHANGED <<until, stuck, lost>>
         \/ main = "mcp" /\ main' = "trace" /\ stuck' = (now >= began + ShutdownTimeout) /\ UNCHANGED <<until, lost>>
         \/ main = "trace" /\ main' = "redis" /\ lost' = (now >= until) /\ UNCHANGED <<until, stuck>>
         \/ main = "redis" /\ main' = "db" /\ until' = now + DbCloseTimeout /\ UNCHANGED <<stuck, lost>>
         \/ main = "db" /\ main' = "exit" /\ UNCHANGED <<until, stuck, lost>>
  BY FollowingIs DEF StopLoops, CloseMcp, CloseMcpExpires, TraceShutdown, CloseRedis, CloseDb, Released, UsedUp,
                     clock, outside
<1>2. Typing' /\ Doors'
  BY <1>1 DEF Typing, Doors
<1>3. Plain' /\ Routes'
  BY <1>1 DEF Plain, Active, Routes
<1>4. Cleanup'
  BY <1>1 DEF Cleanup, Typing
<1>5. lost' => stuck'
  BY <1>1 DEF Cleanup, FlushedUnlessStuck
<1> QED BY <1>1, <1>2, <1>3, <1>4, <1>5, Promises

\* The process ends: with the listener's error, or with everything released.
LEMMA ExitStep ==
  ASSUME LifecycleIInv, ReturnError \/ Exit
  PROVE  LifecycleIInv'
<1> USE DEF LifecycleIInv, Before, Stopping, Releasing
<1>1. /\ main' = "exited" /\ req' = Leaves
      /\ (main = "run" /\ failed) \/ main = "exit"
      /\ UNCHANGED <<now, since, began, until, listening, draining, open, signalled, failed, kind, start, balancer, stuck, lost>>
  BY DEF ReturnError, Exit, clock
<1>2. Typing' /\ Doors'
  BY <1>1 DEF Typing, Doors, Leaves
<1>3. \A r \in Requests : ~Active(r)' /\ (req'[r] = req[r] \/ (req'[r] = "killed" /\ Active(r)))
  BY <1>1 DEF Active, Leaves
<1>4. Plain'
  BY <1>1, <1>3 DEF Plain
<1>5. Routes' /\ Cleanup'
  BY <1>1 DEF Routes, Cleanup
<1>6. RolloutLosesNone'
  BY <1>1, <1>3 DEF Plain, RolloutLosesNone, PlainAnswered, NobodyRefused
<1>7. FlushedUnlessStuck'
  BY <1>1 DEF FlushedUnlessStuck
<1> QED BY <1>2, <1>4, <1>5, <1>6, <1>7

LEMMA RequestStep ==
  ASSUME LifecycleIInv, NEW r \in Requests, Arrive(r) \/ Answer(r)
  PROVE  LifecycleIInv'
<1> USE DEF LifecycleIInv, Before, Stopping, Releasing
<1>1. UNCHANGED <<main, now, since, began, until, listening, draining, open, signalled, failed, kind, balancer, stuck, lost>>
  BY DEF Arrive, Answer, clock
<1>2. Doors' /\ Routes' /\ Cleanup' /\ FlushedUnlessStuck'
  BY <1>1 DEF Doors, StoresOpen, Routes, Cleanup, FlushedUnlessStuck
<1>3. CASE Arrive(r)
  <2>1. /\ balancer.routes
        /\ \/ listening /\ req' = [req EXCEPT ![r] = "active"] /\ start' = [start EXCEPT ![r] = now]
           \/ ~listening /\ req' = [req EXCEPT ![r] = "refused"] /\ start' = start
    BY <1>3 DEF Arrive
  <2>2. Typing'
    BY <1>1, <2>1 DEF Typing
  <2>3. Plain'
    BY <1>1, <2>1 DEF Typing, Plain, Active, Doors
  <2>4. RolloutLosesNone'
    BY <1>1, <2>1 DEF Typing, Routes, RolloutLosesNone, PlainAnswered, NobodyRefused
  <2> QED BY <1>2, <2>2, <2>3, <2>4
<1>4. CASE Answer(r)
  <2>1. /\ Active(r) /\ start' = [start EXCEPT ![r] = 0]
        /\ req' = [req EXCEPT ![r] = IF StoresOpen THEN "answered" ELSE "cut"]
    BY <1>4 DEF Answer
  <2>2. Typing'
    BY <1>1, <2>1 DEF Typing
  <2>3. Plain'
    BY <1>1, <2>1 DEF Typing, Plain, Active
  <2>4. kind[r] = "plain" => StoresOpen
    BY <2>1 DEF Plain, Doors
  <2>5. RolloutLosesNone'
    BY <1>1, <2>1, <2>4 DEF Typing, RolloutLosesNone, PlainAnswered, NobodyRefused
  <2> QED BY <1>2, <2>2, <2>3, <2>5
<1> QED BY <1>3, <1>4

LEMMA ProbeStep ==
  ASSUME LifecycleIInv, Probe
  PROVE  LifecycleIInv'
<1> USE DEF LifecycleIInv, Before, Stopping, Releasing
<1>1. UNCHANGED <<main, now, since, began, until, listening, draining, open, signalled, failed, kind, req, start, stuck, lost>>
  BY DEF Probe, ProbeStart, ReadyHandler, clock
<1>2. Doors' /\ Plain' /\ Cleanup' /\ FlushedUnlessStuck'
  BY <1>1 DEF Doors, StoresOpen, Plain, Active, Cleanup, FlushedUnlessStuck
<1>3. RolloutLosesNone'
  BY <1>1 DEF RolloutLosesNone, PlainAnswered, NobodyRefused
<1>4. CASE ProbeStart
  <2> DEFINE seen == IF ~listening THEN "down" ELSE IF draining THEN "draining" ELSE "up"
  <2>0. seen \in {"down", "draining", "up"} /\ now + 1 \in Nat
    BY DEF Typing
  <2>1. /\ balancer.seen = "none" /\ balancer'.last = now + 1 /\ balancer'.routes = balancer.routes
        /\ balancer'.seen = seen
        /\ balancer' \in [routes : BOOLEAN, last : Nat, seen : {"none", "down", "draining", "up"}]
    <3> HIDE DEF seen
    <3>1. balancer' = [balancer EXCEPT !.last = now + 1, !.seen = seen] /\ balancer.seen = "none"
      BY <1>4 DEF ProbeStart, seen
    <3> QED BY <2>0, <3>1 DEF Typing
  <2>2. Typing'
    BY <1>1, <2>1 DEF Typing
  <2>3. Routes'
    BY <1>1, <2>1 DEF Routes, Typing, Doors
  <2> QED BY <1>2, <1>3, <2>2, <2>3
<1>5. CASE ReadyHandler
  <2>1. /\ balancer'.seen = "none" /\ balancer'.last = balancer.last
        /\ balancer'.routes => balancer.seen = "up"
        /\ balancer' \in [routes : BOOLEAN, last : Nat, seen : {"none", "down", "draining", "up"}]
    BY <1>5 DEF ReadyHandler, Typing
  <2>2. Typing'
    BY <1>1, <2>1 DEF Typing
  <2>3. Routes'
    BY <1>1, <2>1 DEF Routes, Typing
  <2> QED BY <1>2, <1>3, <2>2, <2>3
<1> QED BY <1>4, <1>5 DEF Probe

LEMMA TickStep ==
  ASSUME LifecycleIInv, Tick
  PROVE  LifecycleIInv'
<1> USE DEF LifecycleIInv, Before, Stopping, Releasing
<1>1. /\ ~Due /\ now' = now + 1
      /\ UNCHANGED <<main, since, began, until, listening, draining, open, signalled, failed, kind, req, start, balancer, stuck, lost>>
  BY DEF Tick, outside
<1>2. Typing' /\ Doors'
  BY <1>1 DEF Typing, Doors, StoresOpen
<1>3. Plain'
  <2>1. main = "drain" => now + 1 <= since + DrainTimeout
    BY <1>1 DEF Due, Drained, Typing
  <2>2. ASSUME NEW r \in Requests, Active(r), kind[r] = "plain" PROVE now + 1 <= start[r] + APIRequestTimeout
    BY <1>1, <2>2 DEF Due, Typing
  <2> QED BY <1>1, <2>1, <2>2 DEF Plain, Active, Typing
<1>4. Routes'
  <2>1. balancer.seen = "none" /\ (main # "exited" => now + 1 < balancer.last + ProbePeriod)
    BY <1>1 DEF Due, Typing
  <2> QED BY <1>1, <2>1 DEF Routes, Typing
<1>5. Cleanup'
  BY <1>1 DEF Cleanup, Due
<1>6. RolloutLosesNone' /\ FlushedUnlessStuck'
  BY <1>1 DEF RolloutLosesNone, PlainAnswered, NobodyRefused, FlushedUnlessStuck
<1> QED BY <1>2, <1>3, <1>4, <1>5, <1>6

\* The invariant behind the other results.
THEOREM LifecycleInductive == LifecycleSpec => []LifecycleIInv
<1>1. LifecycleIInv /\ [LifecycleNext]_lifecycleVars => LifecycleIInv'
  <2> SUFFICES ASSUME LifecycleIInv, [LifecycleNext]_lifecycleVars PROVE LifecycleIInv'
    OBVIOUS
  <2>1. CASE UNCHANGED lifecycleVars
    BY <2>1 DEF lifecycleVars, LifecycleIInv, Typing, Doors, StoresOpen, Plain, Active, Routes, Cleanup,
                RolloutLosesNone, PlainAnswered, NobodyRefused, FlushedUnlessStuck
  <2>2. CASE Main \/ ReturnError \/ Signal \/ Listen \/ AcceptFails \/ CloseMcp \/ CloseDb
    BY <2>2, StartStep, StopStep, ReleaseStep, ExitStep DEF Main, CloseDbExpires
  <2> QED BY <2>1, <2>2, RequestStep, ProbeStep, TickStep DEF LifecycleNext
<1> QED BY LifecycleInitInv, <1>1, PTL DEF LifecycleSpec

-----------------------------------------------------------------------------
\* For any number of requests and any timeouts in the order of the defaults, no
\* request under the API timeout is lost to a rollout (app.go, Shutdown).
THEOREM NothingLost == LifecycleSpec => []RolloutLosesNone
<1>1. LifecycleIInv => RolloutLosesNone
  BY DEF LifecycleIInv
<1> QED BY LifecycleInductive, <1>1, PTL

\* The spans are flushed unless closing MCP took all the time of the cleanup.
THEOREM SpansFlushed == LifecycleSpec => []FlushedUnlessStuck
<1>1. LifecycleIInv => FlushedUnlessStuck
  BY DEF LifecycleIInv
<1> QED BY LifecycleInductive, <1>1, PTL

HIDE LifecycleAssumption
HIDE DEF RequestKinds

-----------------------------------------------------------------------------
(* The caches of clusters.                                                 *)

USE PlacementAssumption, KindsAssumption

\* OnItsWay counts an administrator who is about to publish for every instance.
\* The instance of that administrator is invalidated by then and is told no more.
WillReach(i) ==
  \/ i \in inbox
  \/ \E w \in Writers : pc[w] = "invalidate" \/ (pc[w] = "publish" /\ at[w] # i)

EntryTold(i) ==
  clientset[i].fresh => IsCurrent(clientset[i].yaml) \/ WillReach(i) \/ i \in excused
LoadTold(r) ==
  pc[r] = "build" => IsCurrent(held[r]) \/ WillReach(at[r]) \/ r \in overtaken

Told ==
  /\ \A i \in Instances : EntryTold(i)
  /\ \A r \in Readers : LoadTold(r)

\* A load has a kubeconfig in hand.
LoadsHold == \A r \in Readers : pc[r] = "build" => held[r] \in Kubeconfigs

\* A transport is cached under the kubeconfig it was built from.
Transports ==
  /\ \A i \in Instances, k \in Kubeconfigs : transport[i][k] \in {k, None}
  /\ \A p \in Proxied :
       /\ pc[p] = "idle" => through[p] = None
       /\ pc[p] = "target" => held[p] \in Kubeconfigs /\ through[p] = None
       /\ through[p] # None => through[p] = held[p]

\* An update that is about to save has the copy of a row that its SELECT saw.
Updates == \A w \in Writers :
  /\ pc[w] \in {"inspect", "select", "save"} => copy[w] \in Copies
  /\ pc[w] = "save" => copy[w].found

IInv == TypeOK /\ Told /\ LoadsHold /\ Transports /\ Updates

-----------------------------------------------------------------------------
LEMMA InitInv == Init => IInv
<1> SUFFICES ASSUME Init PROVE IInv
  OBVIOUS
<1>1. TypeOK
  BY DEF Init, TypeOK, Row, Rows, Statuses, Entries, NoEntry, NoTransports, Users, Kubeconfigs
<1>2. Told
  BY DEF Init, Told, EntryTold, LoadTold, NoEntry, Users
<1>3. LoadsHold /\ Transports /\ Updates
  BY DEF Init, LoadsHold, Transports, Updates, NoTransports, Users
<1> QED BY <1>1, <1>2, <1>3 DEF IInv

LEMMA RowTyped ==
  ASSUME TypeOK, NEW w \in Writers
  PROVE  /\ [row EXCEPT !.state = "deleted"] \in Rows
         /\ \A c \in Copies : Row("live", w, StatusFor(c)) \in Rows
BY DEF TypeOK, Rows, Row, Copies, StatusFor, Kubeconfigs

\* The steps of an administrator that keep the row.
LEMMA UpdateTypes ==
  ASSUME IInv, NEW w \in Writers,
         UpdateRefused(w) \/ UpdateGets(w) \/ UpdateValidated(w) \/ UpdateSelects(w)
  PROVE  TypeOK'
<1> USE DEF IInv, TypeOK, Goes, Keeps, caches, work, bus, past, db, Users
<1>1. CASE UpdateRefused(w)
  BY <1>1 DEF UpdateRefused
<1>2. CASE UpdateGets(w)
  <2>1. PICK asked \in Statuses \cup {None} : copy' = [copy EXCEPT ![w] = Copy(row.status, asked, FALSE)]
    BY <1>2 DEF UpdateGets
  <2>2. Copy(row.status, asked, FALSE) \in Copies
    BY <2>1 DEF Copy, Copies, Rows
  <2> QED BY <1>2, <2>1, <2>2 DEF UpdateGets
<1>3. CASE UpdateValidated(w)
  BY <1>3 DEF UpdateValidated
<1>4. CASE UpdateSelects(w)
  <2>1. copy[w] \in Copies
    BY <1>4 DEF UpdateSelects, Updates
  <2>2. [copy[w] EXCEPT !.found = row.state = "live"] \in Copies
    BY <2>1 DEF Copies
  <2> QED BY <1>4, <2>2 DEF UpdateSelects
<1> QED BY <1>1, <1>2, <1>3, <1>4

\* The steps that change the row or tell of a change.
LEMMA ChangeTypes ==
  ASSUME IInv, NEW w \in Writers,
         UpdateSaves(w) \/ DeleteRow(w) \/ InvalidateLocal(w) \/ Publish(w)
  PROVE  TypeOK'
<1> USE DEF IInv, TypeOK, Goes, caches, work, bus, past, db, Users, LoadsAt, Untold
<1>1. CASE UpdateSaves(w)
  <2>1. Row("live", w, StatusFor(copy[w])) \in Rows
    BY <1>1, RowTyped DEF UpdateSaves, Updates
  <2> QED BY <1>1, <2>1 DEF UpdateSaves, Unanswered, Keeps
<1>2. CASE DeleteRow(w)
  BY <1>2, RowTyped DEF DeleteRow, Unanswered, AfterDelete
<1>3. CASE InvalidateLocal(w)
  BY <1>3 DEF InvalidateLocal, Invalidates, NoEntry, Entries, NoTransports
<1>4. CASE Publish(w)
  BY <1>4 DEF Publish
<1> QED BY <1>1, <1>2, <1>3, <1>4

\* The steps of an instance, of a tool call and of a proxied request.
LEMMA UseTypes ==
  ASSUME IInv,
         \/ \E i \in Instances : Notified(i) \/ Expires(i)
         \/ \E r \in Readers : Cached(r) \/ Loads(r) \/ Stores(r) \/ Finishes(r)
         \/ \E p \in Proxied : Admitted(p) \/ ProxyTargetCached(p) \/ Answered(p)
  PROVE  TypeOK'
<1> USE DEF IInv, TypeOK, Goes, caches, work, bus, past, db, Users, LoadsAt
<1>1. ASSUME NEW i \in Instances, Notified(i) PROVE TypeOK'
  BY <1>1 DEF Notified, Invalidates, NoEntry, Entries, NoTransports
<1>2. ASSUME NEW i \in Instances, Expires(i) PROVE TypeOK'
  <2>1. clientset[i] \in [yaml : Kubeconfigs, fresh : BOOLEAN]
    BY <1>2 DEF Expires, Entries, NoEntry
  <2>2. [clientset[i] EXCEPT !.fresh = FALSE] \in [yaml : Kubeconfigs, fresh : BOOLEAN]
    BY <2>1
  <2> QED BY <1>2, <2>2 DEF Expires, Entries
<1>3. ASSUME NEW r \in Readers, Cached(r) PROVE TypeOK'
  <2>1. Served(at[r]) \in Kubeconfigs
    BY <1>3 DEF Cached, Served, Entries, NoEntry
  <2> QED BY <1>3, <2>1 DEF Cached
<1>4. ASSUME NEW r \in Readers, Loads(r) PROVE TypeOK'
  BY <1>4 DEF Loads, KubeconfigForProxy, Rows
<1>5. ASSUME NEW r \in Readers, Stores(r) PROVE TypeOK'
  <2>1. Entry(held[r]) \in Entries
    BY <1>5 DEF Stores, LoadsHold, Entry, Entries
  <2>2. excused' \in SUBSET Instances /\ overtaken' \in SUBSET Readers
    BY <1>5 DEF Stores
  <2> QED BY <1>5, <2>1, <2>2 DEF Stores
<1>6. ASSUME NEW r \in Readers, Finishes(r) PROVE TypeOK'
  BY <1>6 DEF Finishes
<1>7. ASSUME NEW p \in Proxied, Admitted(p) PROVE TypeOK'
  BY <1>7 DEF Admitted, KubeconfigForProxy, Rows
<1>8. ASSUME NEW p \in Proxied, ProxyTargetCached(p) PROVE TypeOK'
  <2>1. held[p] \in Kubeconfigs
    BY <1>8 DEF ProxyTargetCached, Transports
  <2>2. transport[at[p]][held[p]] \in {held[p], None}
    BY <2>1 DEF Transports
  <2> QED BY <1>8, <2>1, <2>2 DEF ProxyTargetCached, KeyOf
<1>9. ASSUME NEW p \in Proxied, Answered(p) PROVE TypeOK'
  BY <1>9 DEF Answered
<1> QED BY <1>1, <1>2, <1>3, <1>4, <1>5, <1>6, <1>7, <1>8, <1>9

-----------------------------------------------------------------------------
(* Told. *)

\* What a step does that leaves the row alone, stores nothing, begins no load and
\* takes no invalidation off its way.
LEMMA Undisturbed ==
  ASSUME Told, TypeOK, UNCHANGED <<row, clientset, past, inbox>>,
         \A r \in Readers : pc'[r] = "build" => pc[r] = "build" /\ held'[r] = held[r],
         \A w \in Writers : pc[w] \in {"invalidate", "publish"} => pc'[w] = pc[w]
  PROVE  Told'
BY DEF Told, EntryTold, LoadTold, WillReach, IsCurrent, past, TypeOK, Users

\* The writer that has changed the row will reach every instance; the one that
\* failed has left a note at every instance and every load.
LEMMA ChangeTold ==
  ASSUME IInv, NEW w \in Writers, UpdateSaves(w) \/ DeleteRow(w)
  PROVE  Told'
<1> USE DEF IInv, TypeOK, Goes, Users
<1>1. CASE pc' = [pc EXCEPT ![w] = "invalidate"]
  BY <1>1 DEF Told, EntryTold, LoadTold, WillReach
<1>2. CASE row' = row /\ UNCHANGED past /\ pc' = [pc EXCEPT ![w] = "returned"]
  <2>1. UNCHANGED <<clientset, inbox, held>> /\ pc[w] \in {"idle", "save"}
    BY DEF UpdateSaves, DeleteRow, Unanswered, caches, work, bus, AfterDelete
  <2> QED BY <1>2, <2>1, Undisturbed
<1>3. CASE Untold(Instances) /\ pc' = [pc EXCEPT ![w] = "returned"]
  BY <1>3 DEF Untold, LoadsAt, Told, EntryTold, LoadTold
<1> QED BY <1>1, <1>2, <1>3 DEF UpdateSaves, DeleteRow, Unanswered, AfterDelete

\* An invalidation at instance i leaves no entry there, and notes its loads.
LEMMA InvalidatesTold ==
  ASSUME IInv, NEW i \in Instances, Invalidates(i), UNCHANGED <<row, held>>,
         \A r \in Readers : pc'[r] = pc[r],
         \A j \in Instances \ {i} : WillReach(j) => WillReach(j)'
  PROVE  Told'
<1> USE DEF IInv, TypeOK, Users, Invalidates
<1>1. ASSUME NEW j \in Instances PROVE EntryTold(j)'
  <2>1. CASE j = i
    BY <2>1 DEF EntryTold, NoEntry
  <2>2. CASE j # i
    <3>1. clientset'[j] = clientset[j] /\ (j \in excused => j \in excused')
      BY <2>2
    <3> QED BY <2>2, <3>1 DEF Told, EntryTold, IsCurrent
  <2> QED BY <2>1, <2>2
<1>2. ASSUME NEW r \in Readers PROVE LoadTold(r)'
  <2>1. CASE at[r] = i
    BY <2>1 DEF LoadTold, LoadsAt
  <2>2. CASE at[r] # i
    <3>1. at[r] \in Instances \ {i} /\ pc'[r] = pc[r] /\ held'[r] = held[r]
      BY <2>2
    <3>2. r \in overtaken => r \in overtaken'
      OBVIOUS
    <3> QED BY <3>1, <3>2 DEF Told, LoadTold, IsCurrent
  <2> QED BY <2>1, <2>2
<1> QED BY <1>1, <1>2 DEF Told

LEMMA PublishTold ==
  ASSUME IInv, NEW w \in Writers, Publish(w)
  PROVE  Told'
<1> USE DEF IInv, TypeOK, Goes, Users, caches, work, db
<1>1. PICK reached \in SUBSET subscribed :
        inbox' = inbox \cup reached /\ Untold(Instances \ (reached \cup {at[w]}))
  BY DEF Publish
<1>2. pc' = [pc EXCEPT ![w] = "returned"] /\ pc[w] = "publish" /\ UNCHANGED <<row, clientset, held>>
  BY DEF Publish
<1>3. ASSUME NEW i \in Instances, WillReach(i)
      PROVE  WillReach(i)' \/ i \in Instances \ (reached \cup {at[w]})
  <2>1. CASE i = at[w]
    BY <1>1, <1>2, <1>3, <2>1 DEF WillReach
  <2>2. CASE i # at[w]
    BY <1>1, <2>2 DEF WillReach
  <2> QED BY <2>1, <2>2
<1>4. ASSUME NEW i \in Instances PROVE EntryTold(i)'
  BY <1>1, <1>2, <1>3 DEF Told, EntryTold, IsCurrent, Untold
<1>5. ASSUME NEW r \in Readers PROVE LoadTold(r)'
  <2>1. pc'[r] = pc[r]
    BY <1>2
  <2>2. CASE at[r] \in Instances \ (reached \cup {at[w]})
    BY <1>1, <2>1, <2>2 DEF LoadTold, Untold, LoadsAt
  <2>3. CASE at[r] \notin Instances \ (reached \cup {at[w]})
    BY <1>1, <1>2, <1>3, <2>1, <2>3 DEF Told, LoadTold, IsCurrent, Untold
  <2> QED BY <2>2, <2>3
<1> QED BY <1>4, <1>5 DEF Told

LEMMA StoresTold ==
  ASSUME IInv, NEW r \in Readers, Stores(r)
  PROVE  Told'
<1> USE DEF IInv, TypeOK, Goes, Users, db, work, bus
<1>1. /\ pc[r] = "build" /\ pc' = [pc EXCEPT ![r] = "using"]
      /\ clientset' = [clientset EXCEPT ![at[r]] = Entry(held[r])]
      /\ excused \subseteq excused' /\ (r \in overtaken => at[r] \in excused')
      /\ overtaken' = overtaken \ {r}
      /\ UNCHANGED <<row, held, inbox>>
  BY DEF Stores
<1>2. \A i \in Instances : WillReach(i) => WillReach(i)'
  BY <1>1 DEF WillReach
<1>3. ASSUME NEW i \in Instances PROVE EntryTold(i)'
  <2>1. CASE i = at[r]
    BY <1>1, <1>2, <2>1 DEF Told, LoadTold, EntryTold, Entry, IsCurrent
  <2>2. CASE i # at[r]
    BY <1>1, <1>2, <2>2 DEF Told, EntryTold, IsCurrent
  <2> QED BY <2>1, <2>2
<1>4. ASSUME NEW q \in Readers PROVE LoadTold(q)'
  BY <1>1, <1>2 DEF Told, LoadTold, IsCurrent
<1> QED BY <1>3, <1>4 DEF Told

-----------------------------------------------------------------------------
(* Every step. *)

LEMMA TypeStep ==
  ASSUME IInv, [Next]_vars
  PROVE  TypeOK'
<1>1. CASE UNCHANGED vars
  BY <1>1 DEF IInv, TypeOK, vars, db, past, caches, work, bus
<1> QED BY <1>1, UpdateTypes, ChangeTypes, UseTypes DEF Next, WriterStep

LEMMA ToldStep ==
  ASSUME IInv, [Next]_vars
  PROVE  Told'
<1> USE DEF IInv, Goes, db, caches, work, bus, past, Users
<1>1. CASE UNCHANGED vars
  BY <1>1, Undisturbed DEF vars
<1>2. ASSUME NEW w \in Writers, WriterStep(w) PROVE Told'
  <2>1. CASE UpdateRefused(w) \/ UpdateGets(w) \/ UpdateValidated(w) \/ UpdateSelects(w)
    <3>1. /\ UNCHANGED <<row, clientset, held, past, inbox>>
          /\ pc[w] \in {"idle", "inspect", "select"}
          /\ \E to \in {"returned", "inspect", "select", "save"} : pc' = [pc EXCEPT ![w] = to]
      BY <2>1 DEF UpdateRefused, UpdateGets, UpdateValidated, UpdateSelects
    <3> QED BY <3>1, Undisturbed DEF TypeOK
  <2>2. CASE InvalidateLocal(w)
    <3>1. Invalidates(at[w]) /\ pc[w] = "invalidate" /\ pc' = [pc EXCEPT ![w] = "publish"]
          /\ UNCHANGED <<row, held, inbox>>
      BY <2>2 DEF InvalidateLocal
    <3>2. \A j \in Instances \ {at[w]} : WillReach(j) => WillReach(j)'
      BY <3>1 DEF WillReach, TypeOK
    <3> QED BY <3>1, <3>2, InvalidatesTold DEF TypeOK
  <2> QED BY <1>2, <2>1, <2>2, ChangeTold, PublishTold DEF WriterStep
<1>3. ASSUME NEW i \in Instances, Notified(i) PROVE Told'
  <2>1. \A j \in Instances \ {i} : WillReach(j) => WillReach(j)'
    BY <1>3 DEF Notified, WillReach
  <2> QED BY <1>3, <2>1, InvalidatesTold DEF Notified
<1>4. ASSUME NEW i \in Instances, Expires(i) PROVE Told'
  <2>1. UNCHANGED <<row, pc, held, inbox, past>>
    BY <1>4 DEF Expires
  <2>2. \A j \in Instances : clientset'[j].fresh => clientset'[j] = clientset[j]
    BY <1>4 DEF Expires, TypeOK, Entries, NoEntry
  <2> QED BY <2>1, <2>2 DEF Told, EntryTold, LoadTold, WillReach, IsCurrent
<1>5. ASSUME NEW r \in Readers, Loads(r) PROVE Told'
  <2>1. /\ pc' = [pc EXCEPT ![r] = "build"] /\ held' = [held EXCEPT ![r] = row.yaml]
        /\ row.state = "live" /\ row.status = "enabled"
        /\ UNCHANGED <<row, clientset, inbox, past>> /\ pc[r] = "idle"
    BY <1>5 DEF Loads, KubeconfigForProxy
  <2>2. \A j \in Instances : WillReach(j) => WillReach(j)'
    BY <2>1 DEF WillReach, TypeOK
  <2> QED BY <2>1, <2>2 DEF Told, EntryTold, LoadTold, IsCurrent, TypeOK
<1>6. ASSUME NEW r \in Readers, Finishes(r) PROVE Told'
  <2>1. /\ pc' = [pc EXCEPT ![r] = "idle"] /\ pc[r] \in {"using", "build"}
        /\ held' = [held EXCEPT ![r] = None] /\ overtaken' = overtaken \ {r}
        /\ UNCHANGED <<row, clientset, inbox, excused>>
    BY <1>6 DEF Finishes
  <2>2. \A j \in Instances : WillReach(j) => WillReach(j)'
    BY <2>1 DEF WillReach, TypeOK
  <2> QED BY <2>1, <2>2 DEF Told, EntryTold, LoadTold, IsCurrent, TypeOK
<1>7. ASSUME NEW r \in Readers, Cached(r) PROVE Told'
  <2>1. /\ pc' = [pc EXCEPT ![r] = "using"] /\ pc[r] = "idle"
        /\ held' = [held EXCEPT ![r] = Served(at[r])]
        /\ UNCHANGED <<row, clientset, inbox, past>>
    BY <1>7 DEF Cached
  <2> QED BY <2>1, Undisturbed DEF TypeOK
<1>8. ASSUME NEW p \in Proxied, Admitted(p) \/ ProxyTargetCached(p) \/ Answered(p) PROVE Told'
  <2>1. /\ \E to \in {"target", "using", "idle"} : pc' = [pc EXCEPT ![p] = to]
        /\ \A r \in Readers : held'[r] = held[r]
        /\ UNCHANGED <<row, clientset, inbox, past>>
        /\ pc[p] \notin {"invalidate", "publish"}
    BY <1>8 DEF Admitted, ProxyTargetCached, Answered, KubeconfigForProxy, TypeOK
  <2> QED BY <2>1, Undisturbed DEF TypeOK
<1> QED BY <1>1, <1>2, <1>3, <1>4, <1>5, <1>6, <1>7, <1>8, StoresTold DEF Next

LEMMA LoadsHoldStep ==
  ASSUME IInv, [Next]_vars
  PROVE  LoadsHold'
<1> USE DEF IInv, TypeOK, LoadsHold, Goes, db, caches, work, bus, past, Users
<1>1. CASE UNCHANGED vars
  BY <1>1 DEF vars
<1>2. ASSUME NEW w \in Writers, WriterStep(w) PROVE LoadsHold'
  <2>1. UNCHANGED held
    BY <1>2 DEF WriterStep, UpdateRefused, UpdateGets, UpdateValidated, UpdateSelects, UpdateSaves,
                DeleteRow, InvalidateLocal, Publish
  <2>2. \A r \in Readers : pc'[r] = pc[r]
    BY <1>2 DEF WriterStep, UpdateRefused, UpdateGets, UpdateValidated, UpdateSelects, UpdateSaves,
                DeleteRow, InvalidateLocal, Publish, Unanswered
  <2> QED BY <2>1, <2>2
<1>3. ASSUME NEW i \in Instances, Notified(i) \/ Expires(i) PROVE LoadsHold'
  BY <1>3 DEF Notified, Expires
<1>4. ASSUME NEW r \in Readers, Cached(r) \/ Loads(r) \/ Stores(r) \/ Finishes(r) PROVE LoadsHold'
  BY <1>4 DEF Cached, Loads, Stores, Finishes, KubeconfigForProxy, Rows
<1>5. ASSUME NEW p \in Proxied, Admitted(p) \/ ProxyTargetCached(p) \/ Answered(p) PROVE LoadsHold'
  BY <1>5 DEF Admitted, ProxyTargetCached, Answered, KubeconfigForProxy
<1> QED BY <1>1, <1>2, <1>3, <1>4, <1>5 DEF Next

LEMMA TransportsStep ==
  ASSUME IInv, [Next]_vars
  PROVE  Transports'
<1> USE DEF IInv, TypeOK, Transports, Goes, db, caches, work, bus, past, Users
<1>1. CASE UNCHANGED vars
  BY <1>1 DEF vars
<1>2. ASSUME NEW w \in Writers, WriterStep(w) PROVE Transports'
  <2>1. UNCHANGED <<held, through>>
    BY <1>2 DEF WriterStep, UpdateRefused, UpdateGets, UpdateValidated, UpdateSelects, UpdateSaves,
                DeleteRow, InvalidateLocal, Publish
  <2>2. \A p \in Proxied : pc'[p] = pc[p]
    BY <1>2 DEF WriterStep, UpdateRefused, UpdateGets, UpdateValidated, UpdateSelects, UpdateSaves,
                DeleteRow, InvalidateLocal, Publish, Unanswered
  <2>3. transport' = transport \/ transport' = [transport EXCEPT ![at[w]] = NoTransports]
    BY <1>2 DEF WriterStep, UpdateRefused, UpdateGets, UpdateValidated, UpdateSelects, UpdateSaves,
                DeleteRow, InvalidateLocal, Publish, Invalidates
  <2> QED BY <2>1, <2>2, <2>3 DEF NoTransports
<1>3. ASSUME NEW i \in Instances, Notified(i) \/ Expires(i) PROVE Transports'
  <2>1. UNCHANGED <<held, through, pc>>
    BY <1>3 DEF Notified, Expires
  <2>2. transport' = transport \/ transport' = [transport EXCEPT ![i] = NoTransports]
    BY <1>3 DEF Notified, Expires, Invalidates
  <2> QED BY <2>1, <2>2 DEF NoTransports
<1>4. ASSUME NEW r \in Readers, Cached(r) \/ Loads(r) \/ Stores(r) \/ Finishes(r) PROVE Transports'
  <2>1. UNCHANGED <<transport, through>> /\ \A p \in Proxied : pc'[p] = pc[p] /\ held'[p] = held[p]
    BY <1>4 DEF Cached, Loads, Stores, Finishes, KubeconfigForProxy
  <2> QED BY <2>1
<1>5. ASSUME NEW p \in Proxied, Admitted(p) PROVE Transports'
  BY <1>5 DEF Admitted, KubeconfigForProxy, Rows
<1>6. ASSUME NEW p \in Proxied, ProxyTargetCached(p) PROVE Transports'
  <2>1. held[p] \in Kubeconfigs
    BY <1>6 DEF ProxyTargetCached
  <2>2. /\ through' = [through EXCEPT ![p] = held[p]]
        /\ transport' = [transport EXCEPT ![at[p]][held[p]] = held[p]]
        /\ pc' = [pc EXCEPT ![p] = "using"] /\ UNCHANGED held
    BY <1>6, <2>1 DEF ProxyTargetCached, KeyOf
  <2>3. \A i \in Instances, k \in Kubeconfigs : transport'[i][k] \in {k, None}
    BY <2>1, <2>2
  <2>4. \A q \in Proxied : q # p => pc'[q] = pc[q] /\ through'[q] = through[q]
    BY <2>2
  <2>5. pc'[p] = "using" /\ through'[p] = held[p]
    BY <2>2
  <2> QED BY <2>2, <2>3, <2>4, <2>5
<1>7. ASSUME NEW p \in Proxied, Answered(p) PROVE Transports'
  BY <1>7 DEF Answered
<1> QED BY <1>1, <1>2, <1>3, <1>4, <1>5, <1>6, <1>7 DEF Next

LEMMA UpdatesStep ==
  ASSUME IInv, [Next]_vars
  PROVE  Updates'
<1> USE DEF IInv, TypeOK, Updates, Goes, db, caches, work, bus, past, Users
<1>1. CASE UNCHANGED vars
  BY <1>1 DEF vars
<1>2. ASSUME NEW w \in Writers, UpdateRefused(w) \/ UpdateValidated(w) PROVE Updates'
  BY <1>2 DEF UpdateRefused, UpdateValidated, Keeps
<1>3. ASSUME NEW w \in Writers, UpdateGets(w) PROVE Updates'
  <2>1. PICK asked \in Statuses \cup {None} : copy' = [copy EXCEPT ![w] = Copy(row.status, asked, FALSE)]
    BY <1>3 DEF UpdateGets, Keeps
  <2>2. Copy(row.status, asked, FALSE) \in Copies
    BY <2>1 DEF Copy, Copies, Rows
  <2> QED BY <1>3, <2>1, <2>2 DEF UpdateGets
<1>4. ASSUME NEW w \in Writers, UpdateSelects(w) PROVE Updates'
  <2>1. copy[w] \in Copies /\ row.state = "live"
    BY <1>4 DEF UpdateSelects, Finds
  <2>2. [copy[w] EXCEPT !.found = TRUE] \in Copies /\ [copy[w] EXCEPT !.found = TRUE].found
    BY <2>1 DEF Copies
  <2>3. copy' = [copy EXCEPT ![w] = [copy[w] EXCEPT !.found = TRUE]] /\ pc' = [pc EXCEPT ![w] = "save"]
    BY <1>4, <2>1 DEF UpdateSelects, Keeps
  <2> QED BY <2>2, <2>3
<1>5. ASSUME NEW w \in Writers, UpdateSaves(w) \/ DeleteRow(w) \/ InvalidateLocal(w) \/ Publish(w)
      PROVE  Updates'
  BY <1>5 DEF UpdateSaves, DeleteRow, InvalidateLocal, Publish, Unanswered, Keeps, AfterDelete
<1>6. ASSUME NEW i \in Instances, Notified(i) \/ Expires(i) PROVE Updates'
  BY <1>6 DEF Notified, Expires
<1>7. ASSUME NEW r \in Readers, Cached(r) \/ Loads(r) \/ Stores(r) \/ Finishes(r) PROVE Updates'
  BY <1>7 DEF Cached, Loads, Stores, Finishes
<1>8. ASSUME NEW p \in Proxied, Admitted(p) \/ ProxyTargetCached(p) \/ Answered(p) PROVE Updates'
  BY <1>8 DEF Admitted, ProxyTargetCached, Answered
<1> QED BY <1>1, <1>2, <1>3, <1>4, <1>5, <1>6, <1>7, <1>8 DEF Next, WriterStep

\* The invariant behind the other results.
THEOREM Inductive == Spec => []IInv
<1>1. IInv /\ [Next]_vars => IInv'
  <2> SUFFICES ASSUME IInv, [Next]_vars PROVE IInv'
    OBVIOUS
  <2>1. TypeOK' /\ Told'
    BY TypeStep, ToldStep
  <2>2. LoadsHold' /\ Transports' /\ Updates'
    BY LoadsHoldStep, TransportsStep, UpdatesStep
  <2> QED BY <2>1, <2>2 DEF IInv
<1> QED BY InitInv, <1>1, PTL DEF Spec

-----------------------------------------------------------------------------
\* For any placement of any number of requests: an instance serves a clientset
\* that is not the row's only while an invalidation is on its way, or after one
\* was lost or met a load (service.go:98, factory.go:84-117).
THEOREM StaleUntilTold == Spec => []StaleOnlyIfUntold
<1>1. IInv => StaleOnlyIfUntold
  <2> SUFFICES ASSUME IInv, NEW i \in Instances, Stale(i) PROVE OnItsWay(i) \/ i \in excused
    BY DEF StaleOnlyIfUntold
  <2>1. clientset[i].fresh /\ ~IsCurrent(clientset[i].yaml)
    BY DEF Stale, Served
  <2> QED BY <2>1 DEF IInv, Told, EntryTold, WillReach, OnItsWay
<1> QED BY Inductive, <1>1, PTL

\* A proxied request goes over a transport built from the very kubeconfig it was
\* admitted with (proxy.go, proxyTargetCached).
THEOREM OwnTransport == Spec => []ProxyUsesWhatItRead
<1>1. IInv => ProxyUsesWhatItRead
  BY DEF IInv, Transports, ProxyUsesWhatItRead
<1> QED BY Inductive, <1>1, PTL

\* Whatever the number of administrators, a save undoes what another did only on
\* the strength of a copy read before it (repository.go, Update).
THEOREM UndoneByOverlap == Spec => UndoneOnlyByOverlap
<1>1. ASSUME IInv, [Next]_vars, NEW w \in Writers, pc[w] = "save", pc'[w] # "save", row' # row
      PROVE  /\ row.state = "deleted" => copy[w].found
             /\ (copy[w].asked = None /\ row'.status # row.status) => copy[w].status # row.status
  <2> USE DEF IInv, TypeOK, Users
  <2>1. UpdateSaves(w)
    <3>1. PICK v \in Writers : UpdateSaves(v) \/ DeleteRow(v)
      BY <1>1 DEF Next, WriterStep, vars, db, caches, UpdateRefused, UpdateGets, UpdateValidated, UpdateSelects,
                  InvalidateLocal, Publish, Notified, Expires, Cached, Loads, Stores, Finishes,
                  Admitted, ProxyTargetCached, Answered
    <3>2. v = w
      BY <1>1, <3>1 DEF UpdateSaves, DeleteRow, Unanswered, Goes, AfterDelete
    <3>3. ~DeleteRow(w)
      BY <1>1 DEF DeleteRow, Unanswered, Goes
    <3> QED BY <3>1, <3>2, <3>3
  <2>2. row' = Row("live", w, StatusFor(copy[w]))
    BY <1>1, <2>1 DEF UpdateSaves, Unanswered
  <2>3. copy[w].found
    BY <1>1 DEF Updates
  <2> QED BY <2>2, <2>3 DEF Row, StatusFor
<1>2. IInv /\ [Next]_vars =>
        \A w \in Writers : (pc[w] = "save" /\ pc'[w] # "save" /\ row' # row) =>
          /\ row.state = "deleted" => copy[w].found
          /\ (copy[w].asked = None /\ row'.status # row.status) => copy[w].status # row.status
  BY <1>1
<1> QED BY Inductive, <1>2, PTL DEF Spec, UndoneOnlyByOverlap
=============================================================================

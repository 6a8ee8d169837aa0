---------------------------- MODULE ClusterSession ----------------------------
(***************************************************************************)
(* One request to the /kapi proxy: an ordinary one, a streamed one, or an  *)
(* upgrade (exec, attach, port-forward) with its place in the session      *)
(* limiter, its handshake, the two goroutines that copy between client and *)
(* kube-apiserver, the idle deadline they share and the timer of the       *)
(* access token; and the other sessions of the same user, of which only    *)
(* the place in the limiter matters.                                       *)
(*                                                                         *)
(* A peer "talks" (sends and reads), "listens" (only reads), is "still"    *)
(* (alive or half open, neither sends nor reads: a write to it blocks once *)
(* the buffers are full) or "gone" (its connection is closed or reset).    *)
(***************************************************************************)
EXTENDS Integers, FiniteSets

CONSTANTS
  Self,       \* the session that is followed
  Others,     \* the user's other sessions, on any instance
  MaxSessions,
  Idle        \* upgradeIdleTimeout, in ticks

ASSUME SessionsAssumption == MaxSessions \in Nat \ {0} /\ Idle \in Nat /\ Self \notin Others

VARIABLES
  form,        \* "plain", "stream" or "upgrade"
  stage,       \* where ServeHTTP is
  peer,        \* what the client and the kube-apiserver do
  conn,        \* our connection to each of them
  copier,      \* the goroutine that reads from each of them
  age,         \* ticks since the read deadline of each connection was set
  quiet,       \* history: ticks since a copier last passed bytes on
  cut,         \* history: a read was ended by the deadline although bytes passed
  timer,       \* the timer of the access token
  distributed, \* a SessionSemaphore is configured
  holds,       \* the sessions that are between Acquire and release
  members,     \* who the limiter counts
  refreshed    \* the sessions with a running refreshSessionLease

wires == <<conn, copier, age, quiet, cut, timer>>
limiter == <<holds, members, refreshed>>
fixed == <<form, distributed>>
proxyVars == <<fixed, stage, peer, wires, limiter>>

\* shouldPassThroughRequest and shouldPassThroughResponse tell them apart.
Forms == {"plain", "stream", "upgrade"}

Sides == {"client", "upstream"}
Other == [client |-> "upstream", upstream |-> "client"]
Sessions == {Self} \cup Others
Ended == {"off", "done", "lost"}

ProxyTypeOK ==
  /\ form \in Forms /\ distributed \in BOOLEAN
  /\ stage \in {"idle", "trip", "relay", "dial", "write", "read", "hijack", "arm", "switch",
             "serve", "wait", "leave", "returned"}
  /\ peer \in [Sides -> {"talks", "listens", "still", "gone"}]
  /\ conn \in [Sides -> {"none", "open", "closed"}]
  /\ copier \in [Sides -> {"read", "write"} \cup Ended]
  /\ age \in [Sides -> 0..Idle] /\ quiet \in 0..Idle /\ cut \in BOOLEAN
  /\ timer \in {"none", "armed", "fired", "stopped"}
  /\ holds \in SUBSET Sessions /\ members \in SUBSET Sessions /\ refreshed \in SUBSET Sessions

Both(x) == [d \in Sides |-> x]

ProxyInit ==
  /\ form \in Forms /\ distributed \in BOOLEAN
  /\ stage = "idle"
  /\ peer = Both("talks")
  /\ conn = Both("none")
  /\ copier = Both("off")
  /\ age = Both(0) /\ quiet = 0 /\ cut = FALSE
  /\ timer = "none"
  /\ holds = {} /\ members = {} /\ refreshed = {}

Gone(d) == peer[d] = "gone"
Go(from, to) == stage = from /\ stage' = to /\ UNCHANGED <<fixed, peer>>

-----------------------------------------------------------------------------
(* sessionLimiter. *)

HasRoom == Cardinality(members) < MaxSessions

\* A place, counted by the KeyedSemaphore or by a lease that a goroutine of its
\* own refreshes.
TakePlace(s) ==
  /\ HasRoom
  /\ holds' = holds \cup {s} /\ members' = members \cup {s}
  /\ refreshed' = IF distributed THEN refreshed \cup {s} ELSE refreshed

\* Redis does not answer; the script may have been executed.
AcquireFails(s) ==
  /\ distributed
  /\ members' \in {members} \cup (IF HasRoom THEN {members \cup {s}} ELSE {})
  /\ UNCHANGED <<holds, refreshed>>

LeaseStopped(s) == refreshed \ {s}

\* release: the lease may fail to be removed.
GivePlaceBack(s) ==
  /\ holds' = holds \ {s}
  /\ refreshed' = LeaseStopped(s)
  /\ members' \in {members \ {s}} \cup (IF distributed THEN {members} ELSE {})

\* refreshSessionLease stops for good at the first error or lost lease.
RefreshEnds(s) ==
  /\ s \in refreshed
  /\ refreshed' = refreshed \ {s}
  /\ UNCHANGED <<fixed, stage, peer, wires, holds, members>>

\* A lease that nobody refreshes expires and is purged.
NotPurged == {}                          \* mutant: the script counts expired leases
Purged == members \ refreshed
Lapses(s) ==
  /\ distributed /\ s \in Purged
  /\ members' = members \ {s}
  /\ UNCHANGED <<fixed, stage, peer, wires, holds, refreshed>>

OtherSession(s) ==
  /\ \/ s \notin holds /\ s \notin members /\ TakePlace(s)
     \/ s \in holds /\ GivePlaceBack(s)
  /\ UNCHANGED <<fixed, stage, peer, wires>>

-----------------------------------------------------------------------------
(* ServeHTTP, ordinary and streamed requests. *)

\* No cluster, no kubeconfig, an origin or a namespace that is not allowed, a
\* host that does not parse.
Refuse == Go("idle", "returned") /\ UNCHANGED <<wires, limiter>>

ToTransport ==
  /\ form # "upgrade"
  /\ Go("idle", "trip")
  /\ conn' = [conn EXCEPT !["upstream"] = "open"]
  /\ UNCHANGED <<copier, age, quiet, cut, timer, limiter>>

Close(S) == conn' = [d \in Sides |-> IF d \in S /\ conn[d] = "open" THEN "closed" ELSE conn[d]]

\* The kube-apiserver answers; or it is gone and ErrorHandler says 502.
RoundTrip ==
  /\ peer["upstream"] \in {"talks", "gone"}
  /\ Go("trip", "relay")
  /\ UNCHANGED <<wires, limiter>>

\* The client leaves: the context of the request, and with it RoundTrip and the
\* reading of the body, is cancelled.
Cancelled ==
  /\ Gone("client")
  /\ Go("trip", "returned") \/ Go("relay", "returned")
  /\ Close({"upstream"})
  /\ UNCHANGED <<copier, age, quiet, cut, timer, limiter>>

\* wrapKubernetesResponse reads the whole body, up to its limit; a stream is
\* passed on as it comes.
Relay ==
  /\ form = "plain" => peer["upstream"] \in {"talks", "gone"}
  /\ form = "stream" => Gone("upstream")
  /\ Go("relay", "returned")
  /\ Close({"upstream"})
  /\ UNCHANGED <<copier, age, quiet, cut, timer, limiter>>

-----------------------------------------------------------------------------
(* serveUpgrade. *)

Acquire ==
  /\ form = "upgrade"
  /\ \/ Go("idle", "dial") /\ TakePlace(Self)
     \/ Go("idle", "returned") /\ AcquireFails(Self)
     \/ Go("idle", "returned") /\ ~HasRoom /\ UNCHANGED limiter
  /\ UNCHANGED wires

\* The deferred calls, last in first out: timer.Stop, the two Close, release.

Leave ==
  /\ Go("leave", "returned")
  /\ timer' = IF timer = "armed" THEN "stopped" ELSE timer
  /\ Close(Sides)
  /\ GivePlaceBack(Self)
  /\ UNCHANGED <<copier, age, quiet, cut>>

\* Dial, write, read and hijack each may fail; a client that leaves aborts only
\* the dial.
Abandon ==
  /\ \/ Go("dial", "leave") \/ Go("hijack", "leave")
     \/ Gone("upstream") /\ (Go("write", "leave") \/ Go("read", "leave"))
  /\ UNCHANGED <<wires, limiter>>

Dial ==
  /\ Go("dial", "write")
  /\ conn' = [conn EXCEPT !["upstream"] = "open"]
  /\ UNCHANGED <<copier, age, quiet, cut, timer, limiter>>

WriteRequest == Go("write", "read") /\ UNCHANGED <<wires, limiter>>

\* No deadline: the request context has none.
ReadResponse ==
  /\ peer["upstream"] = "talks"
  /\ Go("read", "hijack") \/ Go("read", "leave")      \* 101, or anything else
  /\ UNCHANGED <<wires, limiter>>

Hijack ==
  /\ Go("hijack", "arm")
  /\ conn' = [conn EXCEPT !["client"] = "open"]
  /\ UNCHANGED <<copier, age, quiet, cut, timer, limiter>>

\* The timer is set to the expiry of the token, if it has one; a token that has
\* expired ends the session here.
ArmTimer ==
  /\ \/ Go("arm", "switch") /\ timer' \in {"none", "armed"} /\ UNCHANGED conn
     \/ Go("arm", "leave") /\ Close(Sides) /\ UNCHANGED timer
  /\ UNCHANGED <<copier, age, quiet, cut, limiter>>

ClosedByTimer == {"client", "upstream"}

TokenExpires ==
  /\ timer = "armed"
  /\ timer' = "fired"
  /\ Close(ClosedByTimer)
  /\ UNCHANGED <<fixed, stage, peer, copier, age, quiet, cut, limiter>>

Writable(d) == conn[d] = "open" /\ ~Gone(d)

\* The 101 is small enough for the buffers of the socket.
SwitchProtocols ==
  /\ \/ Writable("client") /\ Go("switch", "serve") /\ copier' = Both("read")
     \/ ~Writable("client") /\ Go("switch", "leave") /\ UNCHANGED copier
  /\ UNCHANGED <<conn, age, quiet, cut, timer, limiter>>

-----------------------------------------------------------------------------
(* copyWithIdleTimeout, reading from side d and writing to the other one. *)

Moves(d, from, to) ==
  /\ copier[d] = from
  /\ copier' = [copier EXCEPT ![d] = to]
  /\ UNCHANGED <<fixed, stage, peer, conn, timer, limiter>>

Read(d) ==
  /\ conn[d] = "open" /\ peer[d] = "talks"
  /\ Moves(d, "read", "write")
  /\ UNCHANGED <<age, quiet, cut>>

ReadFails(d) ==
  /\ conn[d] = "closed" \/ Gone(d)
  /\ Moves(d, "read", "done")
  /\ UNCHANGED <<age, quiet, cut>>

ReadTimesOut(d) ==
  /\ conn[d] = "open" /\ age[d] = Idle
  /\ Moves(d, "read", "done")
  /\ cut' = (cut \/ quiet < Idle)
  /\ UNCHANGED <<age, quiet>>

\* The sides whose read deadline a copier that reads from d moves.
Refreshes(d) == Sides

\* A write that has succeeded, and the refresh before the next read.
Write(d) ==
  /\ conn[Other[d]] = "open" /\ peer[Other[d]] \in {"talks", "listens"}
  /\ Moves(d, "write", "read")
  /\ age' = [e \in Sides |-> IF e \in Refreshes(d) THEN 0 ELSE age[e]]
  /\ quiet' = 0
  /\ UNCHANGED cut

WriteFails(d) ==
  /\ ~Writable(Other[d])
  /\ Moves(d, "write", "done")
  /\ UNCHANGED <<age, quiet, cut>>

\* recoverCopyPanic: the goroutine ends without noteClose.  Bound: one panic; after
\* one in each direction nobody would close `done`, and the session never ends.
Panics(d) ==
  /\ \A e \in Sides : copier[e] # "lost"
  /\ Moves(d, "read", "lost") \/ Moves(d, "write", "lost")
  /\ UNCHANGED <<age, quiet, cut>>

NotClosed == {}                          \* mutant: only CloseWrite
FirstClose == \E d \in Sides : copier[d] = "done"
ClosedAtEnd == {"client", "upstream"}

CloseBoth ==
  /\ FirstClose
  /\ Go("serve", "wait")
  /\ Close(ClosedAtEnd)
  /\ UNCHANGED <<copier, age, quiet, cut, timer, limiter>>

WaitGroup ==
  /\ \A d \in Sides : copier[d] \in Ended
  /\ Go("wait", "leave")
  /\ UNCHANGED <<wires, limiter>>

TimePasses ==
  /\ stage \in {"serve", "wait"}
  /\ quiet < Idle \/ \E d \in Sides : age[d] < Idle
  /\ age' = [d \in Sides |-> IF age[d] < Idle THEN age[d] + 1 ELSE Idle]
  /\ quiet' = IF quiet < Idle THEN quiet + 1 ELSE Idle
  /\ UNCHANGED <<fixed, stage, peer, conn, copier, cut, timer, limiter>>

\* What the peers may do.
PeerChanges(d) ==
  /\ stage \notin {"idle", "returned"}
  /\ ~Gone(d)
  /\ \E b \in {"talks", "listens", "still", "gone"} \ {peer[d]} : peer' = [peer EXCEPT ![d] = b]
  /\ UNCHANGED <<fixed, stage, wires, limiter>>

-----------------------------------------------------------------------------
Handler ==
  \/ Refuse \/ ToTransport \/ RoundTrip \/ Cancelled \/ Relay
  \/ Acquire \/ Abandon \/ Dial \/ WriteRequest \/ ReadResponse \/ Hijack \/ ArmTimer
  \/ SwitchProtocols \/ CloseBoth \/ WaitGroup \/ Leave

Copier(d) == Read(d) \/ ReadFails(d) \/ ReadTimesOut(d) \/ Write(d) \/ WriteFails(d)

ProxyNext ==
  \/ Handler \/ TokenExpires \/ TimePasses
  \/ \E d \in Sides : Copier(d) \/ Panics(d) \/ PeerChanges(d)
  \/ \E s \in Sessions : RefreshEnds(s) \/ Lapses(s)
  \/ \E s \in Others : OtherSession(s)

ProxySpec == ProxyInit /\ [][ProxyNext]_proxyVars

\* Goroutines run (a copier whose peer reads or sends now and then gets on), time
\* passes, and leases end.  Nothing is assumed of the peers
\* or of the other sessions.
ProxyFairness ==
  /\ WF_proxyVars(Handler) /\ WF_proxyVars(TokenExpires) /\ WF_proxyVars(TimePasses)
  /\ \A d \in Sides : SF_proxyVars(Copier(d))
  /\ \A s \in Sessions : WF_proxyVars(Lapses(s))

FairProxySpec == ProxySpec /\ ProxyFairness

-----------------------------------------------------------------------------
\* The cap of audit.go, as far as the leases can keep it: the sessions whose
\* place is still counted never exceed the limit, whatever fails in Redis.
CapHolds ==
  Cardinality(IF distributed THEN holds \cap refreshed ELSE holds) <= MaxSessions

\* A request that is over leaves nothing behind, wherever it ended: both
\* connections closed, both goroutines ended, the timer off, the lease no longer
\* refreshed and, without Redis, the place free.
NothingLeft ==
  stage = "returned" =>
    /\ \A d \in Sides : conn[d] # "open" /\ copier[d] \in Ended
    /\ timer # "armed"
    /\ Self \notin holds \cup refreshed
    /\ ~distributed => Self \notin members

\* proxy.go:493: a session does not outlive its token, even if both peers keep
\* talking or one of them has stopped reading.
TokenBoundsSession == (timer = "fired") ~> (stage = "returned")

\* proxy.go:577: a session over which nothing comes any more is ended: half-open
\* peers, and a write that blocks while the other direction only waits to read.
\* (Not if both directions are blocked in a write, nor after a panic: it does not
\* count as a close, and no deadline bounds a write.)
WritesBlock == \A d \in Sides : copier[d] \in {"write", "lost"}
Talking == \E d \in Sides : peer[d] = "talks"
IdleSessionEnds == (stage = "serve") ~> (stage = "returned" \/ Talking \/ WritesBlock)

\* A session with traffic in one direction is not cut off for the silence of the
\* other: output without input, or input without output.
TrafficKeepsAlive == ~cut

\* A session ends when it must, and is not cut off before.
SessionEnds == []TrafficKeepsAlive /\ TokenBoundsSession /\ IdleSessionEnds

\* The place of a session that is over is free again in the end, also if the
\* release failed.
PlaceComesBack == (stage = "returned") ~> (Self \notin members)

\* What a session takes is counted while it is held, and given back.
SessionReclaimed == []CapHolds /\ []NothingLeft /\ PlaceComesBack

\* audit.go:16 says that the limiter caps the sessions that a subject may hold
\* open at once, globally across replicas.  It is not so after one failed refresh:
\* the session goes on, but is not counted any more.
CapIsGlobal == Cardinality(holds) <= MaxSessions

\* proxy.go:575-577 says that a session that stays idle longer than the timeout is
\* disconnected and reclaimed.  It is not so when neither peer reads any more and
\* both directions wait in a write: only reads have a deadline.
IdleIsReclaimed == (stage = "serve") ~> (stage = "returned" \/ Talking)

\* No deadline bounds an ordinary request or the handshake of an upgrade: the
\* Timeout that ServeHTTP sets in the rest.Config (proxy.go:233) is not part of a
\* transport, and the request context has no deadline.
RequestEnds == (stage \in {"trip", "read"}) ~> (stage \notin {"trip", "read"})
=============================================================================

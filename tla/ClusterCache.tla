----------------------------- MODULE ClusterCache -----------------------------
(***************************************************************************)
(* One cluster's row and everything that is built from its kubeconfig:     *)
(* cluster.Service with its repository, the clientset cache of the agent's *)
(* tools (kubeclient.Factory), the transport cache of the /kapi proxy, and *)
(* the invalidation that a change sends to the caches of its own instance  *)
(* and, over Redis pub/sub, to those of the others.                        *)
(*                                                                         *)
(* The work is on copies: Update reads the row, may inspect the cluster    *)
(* for seconds, then SELECTs and saves; Clientset reads the kubeconfig,    *)
(* builds a client and stores it.  Nothing holds a lock across these       *)
(* steps, and neither the subscription nor a publication is sure.          *)
(*                                                                         *)
(* A kubeconfig is known by who wrote it.  An entry of the clientset cache *)
(* past its TTL reads as absent, and is told apart only to be able to say  *)
(* so.                                                                     *)
(***************************************************************************)
EXTENDS Integers, FiniteSets

CONSTANTS
  Instances,    \* the replicas of the service
  Writers,      \* administrators who update or delete the cluster, once each
  Readers,      \* agent tool calls that need a clientset
  Proxied,      \* requests through the proxy
  at,           \* the instance that serves each request
  First,        \* who created the cluster
  None

Kubeconfigs == Writers \cup {First}
Users == Writers \cup Readers \cup Proxied

ASSUME PlacementAssumption == at \in [Users -> Instances]

\* A request is of one kind, and has a kubeconfig or none.
ASSUME KindsAssumption ==
  /\ Writers \cap (Readers \cup Proxied) = {}
  /\ Readers \cap Proxied = {}
  /\ None \notin Kubeconfigs

VARIABLES
  row,        \* the cluster's row
  pc,         \* where each request is
  copy,       \* of an update under way: the status it read, the one that is asked
              \* for, and whether repo.Update's SELECT saw the row undeleted
  clientset,  \* per instance: the entry of Factory.cache
  transport,  \* per instance: ProxyHandler.transportCache, by key
  held,       \* the kubeconfig a reader or a proxied request works with
  through,    \* the kubeconfig of the transport a proxied request got
  subscribed,  \* the instances whose subscription succeeded
  inbox,      \* the instances with an invalidation on its way
  overtaken,  \* history: loads under way when an invalidation came or was lost
  excused     \* history: instances with an entry of such a load, or not told

db == <<row, copy>>
past == <<overtaken, excused>>
caches == <<clientset, transport>>
work == <<held, through>>
bus == <<subscribed, inbox>>
vars == <<db, pc, caches, work, bus, past>>

Statuses == {"enabled", "disabled"}
Row(s, k, st) == [state |-> s, yaml |-> k, status |-> st]
Rows == [state : {"live", "deleted"}, yaml : Kubeconfigs, status : Statuses]

Copy(read, a, f) == [status |-> read, asked |-> a, found |-> f]
Copies == [status : Statuses, asked : Statuses \cup {None}, found : BOOLEAN]

NoEntry == [yaml |-> None, fresh |-> FALSE]
Entry(k) == [yaml |-> k, fresh |-> TRUE]
Entries == {NoEntry} \cup [yaml : Kubeconfigs, fresh : BOOLEAN]

KeyOfCluster(k) == First      \* mutant: the cache is keyed by the cluster
KeyOf(k) == k

TypeOK ==
  /\ row \in Rows
  /\ pc \in [Users -> {"idle", "inspect", "select", "save", "invalidate", "publish",
                       "build", "target", "using", "returned"}]
  /\ copy \in [Writers -> Copies \cup {None}]
  /\ clientset \in [Instances -> Entries]
  /\ transport \in [Instances -> [Kubeconfigs -> Kubeconfigs \cup {None}]]
  /\ held \in [Readers \cup Proxied -> Kubeconfigs \cup {None}]
  /\ through \in [Proxied -> Kubeconfigs \cup {None}]
  /\ subscribed \in SUBSET Instances
  /\ inbox \in SUBSET Instances
  /\ overtaken \in SUBSET Readers /\ excused \in SUBSET Instances

NoTransports == [k \in Kubeconfigs |-> None]

\* StartCacheInvalidationWatcher gives up when Subscribe fails, for good.
Init ==
  /\ row = Row("live", First, "enabled")
  /\ pc = [u \in Users |-> "idle"]
  /\ copy = [w \in Writers |-> None]
  /\ clientset = [i \in Instances |-> NoEntry]
  /\ transport = [i \in Instances |-> NoTransports]
  /\ held = [r \in Readers \cup Proxied |-> None]
  /\ through = [p \in Proxied |-> None]
  /\ subscribed \in SUBSET Instances
  /\ inbox = {}
  /\ overtaken = {} /\ excused = {}

LoadsAt(S) == {r \in Readers : pc[r] = "build" /\ at[r] \in S}
Untold(S) == overtaken' = overtaken \cup LoadsAt(S) /\ excused' = excused \cup S

Goes(u, from, to) == pc[u] = from /\ pc' = [pc EXCEPT ![u] = to]

-----------------------------------------------------------------------------
(* Service.Update and Service.Delete. *)

Keeps(w, c) == copy' = [copy EXCEPT ![w] = c]

\* An update ends early: an invalid id, a database error, a row that is gone,
\* a kubeconfig that does not validate or does not connect.
UpdateRefused(w) ==
  /\ Goes(w, "idle", "returned") \/ Goes(w, "inspect", "returned") \/ Goes(w, "select", "returned")
  /\ Keeps(w, None)
  /\ UNCHANGED <<row, caches, work, bus, past>>

\* repo.Get; the request may leave the status out.
UpdateGets(w) ==
  /\ row.state = "live"
  /\ Goes(w, "idle", "inspect")
  /\ \E asked \in Statuses \cup {None} : Keeps(w, Copy(row.status, asked, FALSE))
  /\ UNCHANGED <<row, caches, work, bus, past>>

\* validateClusterYaml, with the inspector if the request asks for it, and
\* encryptYaml.
UpdateValidated(w) ==
  /\ Goes(w, "inspect", "select")
  /\ UNCHANGED <<db, caches, work, bus, past>>

Finds == row.state = "live"

\* repo.Update, the SELECT.
UpdateSelects(w) ==
  /\ Finds
  /\ Goes(w, "select", "save")
  /\ Keeps(w, [copy[w] EXCEPT !.found = row.state = "live"])
  /\ UNCHANGED <<row, caches, work, bus, past>>

\* normalizeStatus: no status in the request keeps the one that was read.
EnabledByDefault(c) == IF c.asked = None THEN "enabled" ELSE c.asked   \* mutant
StatusFor(c) == IF c.asked = None THEN c.status ELSE c.asked

\* A statement of writer w fails, or is committed and its answer lost: the
\* caller invalidates nothing.
Unanswered(w, from, new) ==
  /\ Goes(w, from, "returned")
  /\ row' \in {row, new}
  /\ IF row' = row THEN UNCHANGED past ELSE Untold(Instances)

\* repo.Update, the Save.  The UPDATE does not touch a row that is deleted by
\* now; gorm then INSERTs ... ON CONFLICT DO UPDATE, which clears the deletion.
UpdateSaves(w) ==
  /\ pc[w] = "save"
  /\ LET new == Row("live", w, StatusFor(copy[w])) IN
     \/ Goes(w, "save", "invalidate") /\ row' = new /\ UNCHANGED past
     \/ Unanswered(w, "save", new)
  /\ Keeps(w, None)
  /\ UNCHANGED <<caches, work, bus>>

Forgotten == "returned"           \* mutant: a deletion does not invalidate
AfterDelete == "invalidate"

DeleteRow(w) ==
  LET new == [row EXCEPT !.state = "deleted"] IN
  /\ \/ row.state = "live" /\ Goes(w, "idle", AfterDelete) /\ row' = new /\ UNCHANGED past
     \/ Unanswered(w, "idle", new)
  /\ UNCHANGED <<copy, caches, work, bus>>

\* invalidateLocalCache calls Factory.Invalidate and ProxyHandler.Invalidate,
\* here for instance i.
Invalidates(i) ==
  /\ clientset' = [clientset EXCEPT ![i] = NoEntry]
  /\ transport' = [transport EXCEPT ![i] = NoTransports]
  /\ overtaken' = overtaken \cup LoadsAt({i}) /\ excused' = excused \ {i}

InvalidateLocal(w) ==
  /\ Goes(w, "invalidate", "publish")
  /\ Invalidates(at[w])
  /\ UNCHANGED <<db, work, bus>>

\* Redis pub/sub delivers to the connections it has, at most once.
Publish(w) ==
  /\ Goes(w, "publish", "returned")
  /\ \E reached \in SUBSET subscribed :
       inbox' = inbox \cup reached /\ Untold(Instances \ (reached \cup {at[w]}))
  /\ UNCHANGED <<db, caches, work, subscribed>>

\* The handler given to Subscribe.
Notified(i) ==
  /\ i \in inbox
  /\ inbox' = inbox \ {i}
  /\ Invalidates(i)
  /\ UNCHANGED <<db, pc, work, subscribed>>

-----------------------------------------------------------------------------
(* Factory.Clientset and the proxy. *)

KubeconfigForProxy(r) ==
  /\ row.state = "live" /\ row.status = "enabled"
  /\ held' = [held EXCEPT ![r] = row.yaml]

ServedExpired(i) == clientset[i].yaml                   \* mutant: the TTL is ignored
Served(i) == IF clientset[i].fresh THEN clientset[i].yaml ELSE None

Cached(r) ==
  /\ Served(at[r]) # None
  /\ Goes(r, "idle", "using")
  /\ held' = [held EXCEPT ![r] = Served(at[r])]
  /\ UNCHANGED <<db, caches, through, bus, past>>

Loads(r) ==
  /\ Served(at[r]) = None
  /\ Goes(r, "idle", "build")
  /\ KubeconfigForProxy(r)
  /\ UNCHANGED <<db, caches, through, bus, past>>

Stores(r) ==
  /\ Goes(r, "build", "using")
  /\ clientset' = [clientset EXCEPT ![at[r]] = Entry(held[r])]
  /\ overtaken' = overtaken \ {r}
  /\ excused' = IF r \in overtaken THEN excused \cup {at[r]} ELSE excused
  /\ UNCHANGED <<db, transport, work, bus>>

\* The tool call is over, or the kubeconfig was of no use.
Finishes(r) ==
  /\ Goes(r, "using", "idle") \/ Goes(r, "build", "idle")
  /\ held' = [held EXCEPT ![r] = None]
  /\ overtaken' = overtaken \ {r}
  /\ UNCHANGED <<db, caches, through, bus, excused>>

\* now reaches expiresAt of the entry.
Expires(i) ==
  /\ clientset[i].fresh
  /\ clientset' = [clientset EXCEPT ![i].fresh = FALSE]
  /\ UNCHANGED <<db, pc, transport, work, bus, past>>

\* ProxyHandler.ServeHTTP, as far as the kubeconfig.
Admitted(p) ==
  /\ Goes(p, "idle", "target")
  /\ KubeconfigForProxy(p)
  /\ UNCHANGED <<db, caches, through, bus, past>>

\* proxyTargetCached.
ProxyTargetCached(p) ==
  LET cached == transport[at[p]][KeyOf(held[p])]
      got == IF cached # None THEN cached ELSE held[p]
  IN
  /\ Goes(p, "target", "using")
  /\ through' = [through EXCEPT ![p] = got]
  /\ transport' = [transport EXCEPT ![at[p]][KeyOf(held[p])] = got]
  /\ UNCHANGED <<db, clientset, held, bus, past>>

Answered(p) ==
  /\ Goes(p, "using", "idle")
  /\ held' = [held EXCEPT ![p] = None]
  /\ through' = [through EXCEPT ![p] = None]
  /\ UNCHANGED <<db, caches, bus, past>>

WriterStep(w) ==
  \/ UpdateRefused(w) \/ UpdateGets(w) \/ UpdateValidated(w) \/ UpdateSelects(w) \/ UpdateSaves(w)
  \/ DeleteRow(w)
  \/ InvalidateLocal(w)
  \/ Publish(w)

Next ==
  \/ \E w \in Writers : WriterStep(w)
  \/ \E i \in Instances : Notified(i) \/ Expires(i)
  \/ \E r \in Readers : Cached(r) \/ Loads(r) \/ Stores(r) \/ Finishes(r)
  \/ \E p \in Proxied : Admitted(p) \/ ProxyTargetCached(p) \/ Answered(p)

Spec == Init /\ [][Next]_vars

\* Requests end, and an entry lives no longer than its TTL.
Fairness ==
  /\ \A w \in Writers : WF_vars(WriterStep(w))
  /\ \A i \in Instances : WF_vars(Expires(i)) /\ WF_vars(Notified(i))
  /\ \A r \in Readers : WF_vars(Stores(r) \/ Finishes(r))

FairSpec == Spec /\ Fairness

-----------------------------------------------------------------------------
IsCurrent(k) == row.state = "live" /\ row.status = "enabled" /\ row.yaml = k
Stale(i) == Served(i) # None /\ ~IsCurrent(Served(i))
OnItsWay(i) == i \in inbox \/ \E w \in Writers : pc[w] \in {"invalidate", "publish"}

\* Update, disable and delete reach the cached clients (bootstrap.go:382): an
\* instance serves a clientset of another kubeconfig than the row's, or of a
\* cluster that is disabled or gone, only while the invalidation is on its way,
\* after it was lost, or when a load that was under way stored what it had read.
StaleOnlyIfUntold == \A i \in Instances : Stale(i) => OnItsWay(i) \/ i \in excused

\* What service.go:98 relies on: whatever was lost, raced or failed, once the
\* administrators are through every instance comes to serve, for good, no
\* clientset but the current one.
Converges == <>[](\A i \in Instances : ~Stale(i))

\* The proxy never sends a request that was admitted with one kubeconfig over
\* the connections of another, whatever is updated or invalidated meanwhile.
ProxyUsesWhatItRead ==
  \A p \in Proxied : through[p] # None => through[p] = held[p]

\* What one administrator did is undone by another who did not ask for it only
\* if the update had read the row before: a status that the request leaves out
\* is changed only with an old copy, and a deleted cluster comes back only
\* through a SELECT that saw it undeleted.
UndoneOnlyByOverlap ==
  [][\A w \in Writers : (pc[w] = "save" /\ pc'[w] # "save" /\ row' # row) =>
       /\ row.state = "deleted" => copy[w].found
       /\ (copy[w].asked = None /\ row'.status # row.status) => copy[w].status # row.status]_vars

\* factory.go:115-116 says that after Invalidate the old credential is not used
\* any more within the TTL.  It is not so for a load that was under way: it
\* stores the clientset it built afterwards, for a whole TTL.
InvalidatedMeansCurrent ==
  \A i \in Instances : (Stale(i) /\ i \in subscribed) => OnItsWay(i)
=============================================================================

---------------------------- MODULE RuntimeConfig ----------------------------
(***************************************************************************)
(* The agent's runtime configuration: which tool overrides and skills are  *)
(* in force on each replica, and the history of versions they come from    *)
(* (core/runtime_config.go, the two registries and the repository).        *)
(*                                                                         *)
(* A change is applied to the registries of its own instance, persisted as *)
(* the next version, and announced over pub/sub, which may lose it.  A     *)
(* failure to persist puts back what the call read at the start.  Every    *)
(* instance looks at the latest version when it is asked something and the *)
(* last look is five seconds old, and at every announcement.               *)
(*                                                                         *)
(* The refreshes of an instance exclude one another.  Nothing keeps a      *)
(* change and a refresh, or two changes, of an instance apart, and a       *)
(* snapshot is two registries with a lock each.                            *)
(***************************************************************************)
EXTENDS Integers, Sequences, FiniteSets

CONSTANTS
  Instances,     \* the replicas of the service
  Calls,         \* requests, over and over; bound: one change each
  Tools, Skills, \* what can be overridden and defined
  Startup,       \* the snapshot of the configuration file
  Placements,    \* which instance serves which caller
  Requests,      \* the patches callers send to ReloadTools
  None

Snapshots == [over : SUBSET Tools, skills : SUBSET Skills]

ASSUME StartupAssumption == Startup \in Snapshots
ASSUME PlacementAssumption == Placements \subseteq [Calls -> Instances]

MaxVersions == Cardinality(Calls)

Processes == Calls \cup Instances      \* an instance's watcher goes by its name

\* What callers send to ReloadTools.
Patches == [remove : SUBSET Tools, add : SUBSET Tools, skills : (SUBSET Skills) \cup {None}]
ASSUME RequestAssumption == Requests \subseteq Patches

ASSUME CallsAssumption == IsFiniteSet(Calls)
ASSUME NoneAssumption == None \notin Nat \cup Processes

VARIABLES
  versions,    \* agent_runtime_config_version with its audit, by number
  registry,    \* per instance: toolRegistry.overrides and skillRegistry.skills
  version,     \* per instance: runtimeVersion
  refreshing,  \* per instance: who holds runtimeRefreshMu
  notices,     \* instances with an announcement not yet handled; bound: one each
  pc, at,      \* where each process is, and the instance that serves it
  kind,        \* what a call is for; "spent" lists what is in force and changes no more
  before,      \* the snapshot a change read at its start
  target,      \* the snapshot it is to put in force
  seen,        \* the version a refresh has read; of a change, the version in force
               \* when it read `before`, None if that was not a version
  disturbed,   \* history: processes whose change or refresh another write met
  overlapped   \* history: instances whose registries such a process wrote last

work == <<pc, at, kind, before, target, seen>>
past == <<disturbed, overlapped>>
vars == <<versions, registry, version, refreshing, notices, work, past>>

Kinds == {"list", "change", "spent"}

\* What a change turns `b` into `a` with, as the audit records it.
Diff(b, a) ==
  [tools |-> <<a.over \ b.over, b.over \ a.over>>,
   skills |-> <<a.skills \ b.skills, b.skills \ a.skills>>]

Unchanged(b, a) == Diff(b, a) = Diff(b, b)

\* The snapshot of version n; before the first, the one of the file.
Snapshot(n) == IF n = 0 THEN Startup ELSE versions[n].snapshot
Latest == Len(versions)

\* A row of agent_runtime_config_version and its audit, which a foreign key ties.
Versions ==
  [snapshot : Snapshots, stale : BOOLEAN,
   diff : [tools : (SUBSET Tools) \X SUBSET Tools, skills : (SUBSET Skills) \X SUBSET Skills]]

Waits == {"idle", "check", "loaded", "before", "apply"}
Refreshing == {"half", "stamp"}
Changing == {"torn", "applied", "persist", "store", "undo", "undone"}

TypeOK ==
  /\ versions \in Seq(Versions) /\ Len(versions) \in 0..MaxVersions
  /\ registry \in [Instances -> Snapshots]
  /\ version \in [Instances -> 0..MaxVersions]
  /\ refreshing \in [Instances -> Processes \cup {None}]
  /\ notices \in SUBSET Instances
  /\ pc \in [Processes -> Waits \cup Refreshing \cup Changing]
  /\ at \in [Processes -> Instances]
  /\ kind \in [Processes -> Kinds]
  /\ before \in [Processes -> Snapshots] /\ target \in [Processes -> Snapshots]
  /\ seen \in [Processes -> 0..MaxVersions \cup {None}]
  /\ disturbed \in SUBSET Processes /\ overlapped \in SUBSET Instances

Init ==
  /\ versions = <<>>
  /\ registry = [i \in Instances |-> Startup]
  /\ version = [i \in Instances |-> 0]
  /\ refreshing = [i \in Instances |-> None]
  /\ notices = {}
  /\ pc = [p \in Processes |-> "idle"]
  /\ \E f \in Placements : at = [p \in Processes |-> IF p \in Calls THEN f[p] ELSE p]
  /\ kind = [p \in Processes |-> "list"]
  /\ before = [p \in Processes |-> Startup] /\ target = before
  /\ seen = [p \in Processes |-> 0]
  /\ disturbed = {} /\ overlapped = {}

-----------------------------------------------------------------------------
(* Bookkeeping of the writes that meet. *)

\* Others on p's instance who have read what they will put back, or written.
Others(p) ==
  {q \in Processes \ {p} : at[q] = at[p] /\ pc[q] \in Refreshing \cup Changing \cup {"apply"}}

Goes(p, from, to) == pc[p] = from /\ pc' = [pc EXCEPT ![p] = to]

\* p writes to the registries of its instance.
Met(p) == disturbed \cup Others(p) \cup (IF Others(p) = {} THEN {} ELSE {p})
Sets(p, s) ==
  /\ registry' = [registry EXCEPT ![at[p]] = s]
  /\ disturbed' = Met(p)
SetOverrides(p, s) == Sets(p, [registry[at[p]] EXCEPT !.over = s.over])
SetSkills(p, s) == Sets(p, [registry[at[p]] EXCEPT !.skills = s.skills])

\* p leaves its instance with what it wrote.
Ends(p) ==
  /\ disturbed' = disturbed \ {p}
  /\ overlapped' = IF p \in disturbed THEN overlapped \cup {at[p]} ELSE overlapped \ {at[p]}

-----------------------------------------------------------------------------
(* refreshRuntimeConfig; an announcement forces it. *)

forced(p) == p \in Instances

\* Where a process goes on after a refresh.
After(p) == IF kind[p] = "change" THEN "before" ELSE "idle"
Returns(p) == pc' = [pc EXCEPT ![p] = After(p)]
Unlocks(p) == refreshing' = [refreshing EXCEPT ![at[p]] = None]

\* The last look, runtimeLastCheckNS, can always turn out to be younger than five
\* seconds: time is left out.
RefreshSkips(p) ==
  /\ pc[p] = "check" /\ ~forced(p)
  /\ Returns(p)
  /\ UNCHANGED <<versions, registry, version, refreshing, notices, at, kind, before, target, seen, past>>

\* Under runtimeRefreshMu: the database has no version or does not answer, or the
\* latest version is in force.
NewerByTwo(n, v) == n > v + 1          \* mutant: the next version does not count
Newer(n, v) == n > v

Looks(p) ==
  /\ pc[p] = "check"
  /\ refreshing[at[p]] = None

RefreshFindsNothing(p) ==
  /\ Looks(p)
  /\ Returns(p)
  /\ UNCHANGED <<versions, registry, version, refreshing, notices, at, kind, before, target, seen, past>>

RefreshReads(p) ==
  /\ Looks(p)
  /\ Latest > 0
  /\ Newer(Latest, version[at[p]]) \/ forced(p)
  /\ Goes(p, "check", "loaded")
  /\ refreshing' = [refreshing EXCEPT ![at[p]] = p]
  /\ seen' = [seen EXCEPT ![p] = Latest]
  /\ UNCHANGED <<versions, registry, version, notices, at, kind, before, target, past>>

RefreshSetsOverrides(p) ==
  /\ Goes(p, "loaded", "half")
  /\ SetOverrides(p, Snapshot(seen[p]))
  /\ UNCHANGED <<versions, version, refreshing, notices, at, kind, before, target, seen, overlapped>>

RefreshSetsSkills(p) ==
  /\ Goes(p, "half", "stamp")
  /\ SetSkills(p, Snapshot(seen[p]))
  /\ UNCHANGED <<versions, version, refreshing, notices, at, kind, before, target, seen, overlapped>>

RefreshStamps(p) ==
  /\ pc[p] = "stamp"
  /\ version' = [version EXCEPT ![at[p]] = seen[p]]
  /\ Returns(p) /\ Unlocks(p) /\ Ends(p)
  /\ seen' = [seen EXCEPT ![p] = 0]
  /\ UNCHANGED <<versions, registry, notices, at, kind, before, target>>

\* StartRuntimeConfigWatcher's handler; one announcement after the other.
Watcher(i) ==
  /\ i \in notices
  /\ Goes(i, "idle", "check")
  /\ notices' = notices \ {i}
  /\ UNCHANGED <<versions, registry, version, refreshing, at, kind, before, target, seen, past>>

-----------------------------------------------------------------------------
(* ReloadTools, RollbackRuntimeConfigVersion, and everything that only reads. *)

Begins(c) ==
  /\ Goes(c, "idle", "check")
  /\ \/ UNCHANGED kind
     \/ kind[c] = "list" /\ kind' = [kind EXCEPT ![c] = "change"]
  /\ UNCHANGED <<versions, registry, version, refreshing, notices, at, before, target, seen, past>>

\* currentRuntimeSnapshot, the overrides.
ReadsOverrides(c) ==
  /\ Goes(c, "before", "torn")
  /\ before' = [before EXCEPT ![c].over = registry[at[c]].over]
  /\ seen' = [seen EXCEPT ![c] = IF at[c] \in overlapped THEN None ELSE version[at[c]]]
  /\ disturbed' = IF Others(c) = {} THEN disturbed ELSE disturbed \cup {c}
  /\ UNCHANGED <<versions, registry, version, refreshing, notices, at, kind, target, overlapped>>

\* What a change may ask for: mergeRuntimePatch, where no skills keep the skills;
\* the file's snapshot; an older version.
Merged(s, r) ==
  [over |-> (s.over \ r.remove) \cup r.add, skills |-> IF r.skills = None THEN s.skills ELSE r.skills]
Reloads(s) == {Merged(s, r) : r \in {q \in Requests : ~Unchanged(s, Merged(s, q))}}
Resets == {Startup}
Rollbacks == {Snapshot(n) : n \in 1..Latest}

\* The skills and the target.  A reload that changes nothing is not persisted, nor
\* a target whose skills are invalid or a version that does not exist.
Spent(c) == kind' = [kind EXCEPT ![c] = "spent"]

ReadsSkills(c) ==
  LET s == [before[c] EXCEPT !.skills = registry[at[c]].skills] IN
  /\ pc[c] = "torn"
  /\ \/ \E t \in Reloads(s) \cup Resets \cup Rollbacks :
          /\ Goes(c, "torn", "apply")
          /\ before' = [before EXCEPT ![c] = s]
          /\ target' = [target EXCEPT ![c] = t]
          /\ UNCHANGED <<seen, disturbed, kind>>
     \/ /\ Goes(c, "torn", "idle")
        /\ before' = [before EXCEPT ![c] = Startup]
        /\ seen' = [seen EXCEPT ![c] = 0]
        /\ disturbed' = disturbed \ {c}
        /\ Spent(c)
        /\ UNCHANGED target
  /\ UNCHANGED <<versions, registry, version, refreshing, notices, at, overlapped>>

AppliesOverrides(c) ==
  /\ Goes(c, "apply", "applied")
  /\ SetOverrides(c, target[c])
  /\ UNCHANGED <<versions, version, refreshing, notices, at, kind, before, target, seen, overlapped>>

AppliesSkills(c) ==
  /\ Goes(c, "applied", "persist")
  /\ SetSkills(c, target[c])
  /\ UNCHANGED <<versions, version, refreshing, notices, at, kind, before, target, seen, overlapped>>

\* CreateRuntimeConfigVersion: the table is locked, the number is the next one,
\* and the audit is in the same transaction.  `stale`, history: what was read
\* before was not the version this one follows.
Record(c) ==
  [snapshot |-> target[c], diff |-> Diff(before[c], target[c]),
   stale |-> seen[c] # Latest \/ c \in disturbed]

Commits(c) == versions' = Append(versions, Record(c))

Persists(c) ==
  /\ Goes(c, "persist", "store")
  /\ Commits(c)
  /\ seen' = [seen EXCEPT ![c] = Latest + 1]
  /\ UNCHANGED <<registry, version, refreshing, notices, at, kind, before, target, past>>

\* The transaction fails, or commits and its answer is lost.
PersistFails(c) ==
  /\ Goes(c, "persist", "undo")
  /\ UNCHANGED versions \/ Commits(c)
  /\ UNCHANGED <<registry, version, refreshing, notices, at, kind, before, target, seen, past>>

\* applyRuntimeSnapshot(before).
RestoredToTarget(c) == target[c]      \* mutant: nothing is put back
Restored(c) == before[c]

UndoesOverrides(c) ==
  /\ Goes(c, "undo", "undone")
  /\ SetOverrides(c, Restored(c))
  /\ UNCHANGED <<versions, version, refreshing, notices, at, kind, before, target, seen, overlapped>>

Forgets(c) ==
  /\ before' = [before EXCEPT ![c] = Startup] /\ target' = [target EXCEPT ![c] = Startup]
  /\ seen' = [seen EXCEPT ![c] = 0]
  /\ Spent(c)

\* Undisturbed, the registries are as the call found them.
UndoesSkills(c) ==
  /\ Goes(c, "undone", "idle")
  /\ registry' = [registry EXCEPT ![at[c]].skills = Restored(c).skills]
  /\ disturbed' = Met(c) \ {c}
  /\ overlapped' = IF c \in Met(c) THEN overlapped \cup {at[c]} ELSE overlapped
  /\ Forgets(c)
  /\ UNCHANGED <<versions, version, refreshing, notices, at>>

\* The announcement reaches some of the instances; one that serves nobody is left out.
Publishes == \E told \in SUBSET {at[q] : q \in Calls} : notices' = notices \cup told

\* The number, then the announcement.
Stores(c) ==
  /\ Goes(c, "store", "idle")
  /\ version' = [version EXCEPT ![at[c]] = seen[c]]
  /\ Ends(c) /\ Forgets(c)
  /\ Publishes
  /\ UNCHANGED <<versions, registry, refreshing, at>>

-----------------------------------------------------------------------------
Refresh(p) ==
  \/ RefreshSkips(p) \/ RefreshFindsNothing(p) \/ RefreshReads(p)
  \/ RefreshSetsOverrides(p) \/ RefreshSetsSkills(p) \/ RefreshStamps(p)

Change(c) ==
  \/ ReadsOverrides(c) \/ ReadsSkills(c) \/ AppliesOverrides(c) \/ AppliesSkills(c)
  \/ Persists(c) \/ PersistFails(c) \/ UndoesOverrides(c) \/ UndoesSkills(c)
  \/ Stores(c)

Call(c) == Refresh(c) \/ Change(c) \/ Begins(c)

Next ==
  \/ \E c \in Calls : Call(c)
  \/ \E i \in Instances : Refresh(i) \/ Watcher(i)

Spec == Init /\ [][Next]_vars

\* A step that can be taken is taken, callers ask again and again, and a look at
\* the database falls due and succeeds again and again.
Fairness ==
  /\ \A c \in Calls : WF_vars(Call(c)) /\ SF_vars(RefreshReads(c))
  /\ \A i \in Instances : WF_vars(Refresh(i) \/ Watcher(i))

FairSpec == Spec /\ Fairness

-----------------------------------------------------------------------------
(* Properties. *)

Quiet(i) == \A p \in Processes : at[p] = i => pc[p] \in Waits \ {"apply"}

\* An instance at rest has in its registries the snapshot of the version it says
\* it runs, whatever failed on the way there, unless changes and refreshes of this
\* instance met: then the version number alone is right (runtime_config.go:180-189
\* against 236-266).
DivergedOnlyByOverlap ==
  \A i \in Instances : Quiet(i) => registry[i] = Snapshot(version[i]) \/ i \in overlapped

\* The diff that a version's audit row holds is the difference to the version
\* before it, so that no earlier change is lost without a trace, unless the writer
\* had read another snapshot than that version's: ReloadTools merges its patch
\* into what its own instance has in force, which can be five seconds old.
AuditTellsTheChange ==
  \A n \in 1..Len(versions) :
    versions[n].stale \/ versions[n].diff = Diff(Snapshot(n - 1), versions[n].snapshot)

\* The version number and the audit rows are right about what was in force.
VersionsTellTheTruth == DivergedOnlyByOverlap /\ AuditTellsTheChange

\* With announcements lost and persists failing, every instance that is asked comes
\* to run the latest version, over and over, unless an overlap left it aside:
\* after one the version number hides that the registries are older, and only an
\* announcement or the next version repairs them.
Converges ==
  \A c \in Calls : []<>(registry[at[c]] = Snapshot(Latest) \/ at[c] \in overlapped)

\* A call that fails has changed nothing: refuted.  A transaction whose commit was
\* not answered is in force on every instance at the next refresh, after
\* runtime_config.go:182-184 has put the old snapshot back and answered an error.
FailedIsUndone ==
  [][\A c \in Calls : pc[c] = "persist" /\ pc'[c] = "undo" => versions' = versions]_vars
=============================================================================

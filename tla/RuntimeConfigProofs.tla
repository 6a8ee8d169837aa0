------------------------- MODULE RuntimeConfigProofs -------------------------
(***************************************************************************)
(* Proofs about RuntimeConfig for any number of instances and callers, any *)
(* placement of them and any patches.  What keeps an instance's number and *)
(* its registries together is that whoever is not met by another writer is *)
(* alone on its instance (Alone) and finds there what it left (Finds); and *)
(* when no writer is at work the instance runs what it says (Rests).       *)
(***************************************************************************)
EXTENDS RuntimeConfig, FiniteSetTheorems, TLAPS

\* Who has read what it will put back, or written.
Active == Refreshing \cup Changing \cup {"apply"}
\* Of these, who has written and not left yet.
Writing == Active \ {"torn", "apply"}
\* What only a change goes through.
OfChange == Changing \cup {"before", "apply"}

\* Whose number the versions cannot exceed.
Committed == {c \in Calls : kind[c] = "spent" \/ pc[c] \in {"store", "undo", "undone"}}

Kept ==
  \A p \in Processes :
    /\ kind[p] # "list" => p \in Calls
    /\ pc[p] \in OfChange => kind[p] = "change"

Numbers ==
  /\ Len(versions) <= Cardinality(Committed)
  /\ version \in [Instances -> 0..Len(versions)]
  /\ seen \in [Processes -> 0..Len(versions) \cup {None}]
  /\ \A p \in Processes :
       pc[p] \in {"loaded", "half", "stamp", "store"} => seen[p] \in 1..Len(versions)

\* Whoever was not met is the only one at work on its instance, but for those who
\* came later and have read only.
Alone ==
  \A p \in Processes, q \in Processes :
    (p # q /\ at[p] = at[q] /\ pc[p] \in Active /\ pc[q] \in Active /\ p \notin disturbed)
      => (q \in disturbed /\ pc[q] \in {"torn", "apply"})

Faithful(i) == registry[i] = Snapshot(version[i]) \/ i \in overlapped

\* With no writer at work, an instance runs what it says.
Rests ==
  \A i \in Instances : (\A p \in Processes : at[p] = i => pc[p] \notin Writing) => Faithful(i)

\* What a change that nobody met has read.
HasRead(p) ==
  /\ before[p] = Snapshot(version[at[p]]) \/ at[p] \in overlapped
  /\ pc[p] \in {"apply", "applied", "persist"} => (seen[p] = None \/ before[p] = Snapshot(seen[p]))

\* What a process that nobody met finds in the registries of its instance.
Finds(p) ==
  LET r == registry[at[p]] IN
  /\ pc[p] = "half" => r.over = Snapshot(seen[p]).over
  /\ pc[p] = "stamp" => r = Snapshot(seen[p])
  /\ pc[p] = "torn" => /\ r.over = before[p].over
                       /\ seen[p] = None \/ r = Snapshot(seen[p])
  /\ pc[p] = "apply" => r = before[p]
  /\ pc[p] = "applied" => r.over = target[p].over
  /\ pc[p] = "persist" => r = target[p]
  /\ pc[p] = "store" => r = Snapshot(seen[p])
  /\ pc[p] = "undone" => r.over = before[p].over
  /\ pc[p] \in Changing \cup {"apply"} /\ pc[p] \notin {"torn", "store"} => HasRead(p)

Undisturbed == \A p \in Processes : p \notin disturbed => Finds(p)

IInv == TypeOK /\ Kept /\ Numbers /\ Alone /\ Rests /\ Undisturbed /\ AuditTellsTheChange

-----------------------------------------------------------------------------
\* The constants, for the lemmas below.
LEMMA Parts ==
  /\ Calls \subseteq Processes /\ Instances \subseteq Processes
  /\ MaxVersions \in Nat
  /\ Startup \in Snapshots
  /\ None \notin Nat /\ None \notin Processes
  <1>1. MaxVersions \in Nat
    BY CallsAssumption, FS_CardinalityType DEF MaxVersions
  <1> QED
    BY <1>1, StartupAssumption, NoneAssumption DEF Processes

\* A snapshot is its two halves.
LEMMA Same ==
  ASSUME NEW r \in Snapshots, NEW s \in Snapshots, r.over = s.over, r.skills = s.skills
  PROVE  r = s
  BY DEF Snapshots

\* Half of one snapshot and half of another are a snapshot.
LEMMA Mixed ==
  ASSUME NEW r \in Snapshots, NEW s \in Snapshots
  PROVE  /\ [r EXCEPT !.over = s.over] \in Snapshots
         /\ [r EXCEPT !.skills = s.skills] \in Snapshots
  BY DEF Snapshots

\* Every version is a snapshot, and so is what the file says.
LEMMA SnapshotType ==
  ASSUME TypeOK, NEW n \in 0..Len(versions)
  PROVE  Snapshot(n) \in Snapshots
  <1>1. CASE n = 0
    BY <1>1, Parts DEF Snapshot
  <1>2. CASE n # 0
    <2>1. versions[n] \in Versions
      BY <1>2 DEF TypeOK
    <2> QED
      BY <1>2, <2>1 DEF Snapshot, Versions
  <1> QED
    BY <1>1, <1>2

\* A patch makes a snapshot of a snapshot.
LEMMA MergedType ==
  ASSUME NEW s \in Snapshots, NEW r \in Requests
  PROVE  Merged(s, r) \in Snapshots
  <1>1. r.remove \in SUBSET Tools /\ r.add \in SUBSET Tools /\ r.skills \in (SUBSET Skills) \cup {None}
    BY RequestAssumption DEF Patches
  <1>2. s.over \in SUBSET Tools /\ s.skills \in SUBSET Skills
    BY DEF Snapshots
  <1>3. (s.over \ r.remove) \cup r.add \in SUBSET Tools
    BY <1>1, <1>2
  <1>4. (IF r.skills = None THEN s.skills ELSE r.skills) \in SUBSET Skills
    BY <1>1, <1>2
  <1> QED
    BY <1>3, <1>4 DEF Merged, Snapshots

\* Whatever a change asks for is a snapshot.
LEMMA TargetType ==
  ASSUME TypeOK, NEW s \in Snapshots, NEW t \in Reloads(s) \cup Resets \cup Rollbacks
  PROVE  t \in Snapshots
  <1>1. CASE t \in Reloads(s)
    BY <1>1, MergedType DEF Reloads
  <1>2. CASE t \in Resets
    BY <1>2, Parts DEF Resets
  <1>3. CASE t \in Rollbacks
    <2>1. Len(versions) \in Nat
      BY DEF TypeOK
    <2> QED
      BY <1>3, <2>1, SnapshotType DEF Rollbacks, Latest
  <1> QED
    BY <1>1, <1>2, <1>3

\* What a change persists is a row.
LEMMA RecordType ==
  ASSUME TypeOK, NEW c \in Processes
  PROVE  Record(c) \in Versions
  BY DEF TypeOK, Record, Versions, Diff, Snapshots

\* A row appended to the table leaves the older ones as they are.
LEMMA CommitType ==
  ASSUME TypeOK, NEW c \in Processes, Commits(c)
  PROVE  /\ versions' \in Seq(Versions) /\ Len(versions') = Len(versions) + 1
         /\ versions'[Len(versions) + 1] = Record(c)
         /\ \A n \in 1..Len(versions) : versions'[n] = versions[n]
  BY RecordType DEF TypeOK, Commits

-----------------------------------------------------------------------------
(* The steps, one process at a time. *)

Step(p) ==
  \/ Refresh(p)
  \/ p \in Calls /\ (Change(p) \/ Begins(p))
  \/ p \in Instances /\ Watcher(p)

\* A step is a call's or a watcher's.
LEMMA Steps ==
  ASSUME Next
  PROVE  \E p \in Processes : Step(p)
  BY Parts DEF Next, Call, Step

\* What every step leaves alone.
LEMMA Frame ==
  ASSUME NEW p \in Processes, Step(p)
  PROVE  UNCHANGED at
  BY DEF Step, Refresh, Change, RefreshSkips, RefreshFindsNothing, RefreshReads,
     RefreshSetsOverrides, RefreshSetsSkills, RefreshStamps, Watcher, Begins, ReadsOverrides,
     ReadsSkills, AppliesOverrides, AppliesSkills, Persists, PersistFails, UndoesOverrides,
     UndoesSkills, Stores

\* Only the process that steps moves.
LEMMA Moves ==
  ASSUME TypeOK, NEW p \in Processes, Step(p)
  PROVE  /\ pc' \in [Processes -> Waits \cup Refreshing \cup Changing]
         /\ \A q \in Processes \ {p} : pc'[q] = pc[q]
         /\ kind' \in [Processes -> Kinds]
         /\ \A q \in Processes \ {p} : kind'[q] = kind[q]
  <1>1. CASE RefreshSkips(p)
    BY <1>1 DEF TypeOK, RefreshSkips, Goes, Returns, After, Spent, Forgets, Kinds, Waits,
       Refreshing, Changing
  <1>2. CASE RefreshFindsNothing(p)
    BY <1>2 DEF TypeOK, RefreshFindsNothing, Goes, Returns, After, Spent, Forgets, Kinds, Waits,
       Refreshing, Changing
  <1>3. CASE RefreshReads(p)
    BY <1>3 DEF TypeOK, RefreshReads, Goes, Returns, After, Spent, Forgets, Kinds, Waits,
       Refreshing, Changing
  <1>4. CASE RefreshSetsOverrides(p)
    BY <1>4 DEF TypeOK, RefreshSetsOverrides, Goes, Returns, After, Spent, Forgets, Kinds,
       Waits, Refreshing, Changing
  <1>5. CASE RefreshSetsSkills(p)
    BY <1>5 DEF TypeOK, RefreshSetsSkills, Goes, Returns, After, Spent, Forgets, Kinds, Waits,
       Refreshing, Changing
  <1>6. CASE RefreshStamps(p)
    BY <1>6 DEF TypeOK, RefreshStamps, Goes, Returns, After, Spent, Forgets, Kinds, Waits,
       Refreshing, Changing
  <1>7. CASE Watcher(p)
    BY <1>7 DEF TypeOK, Watcher, Goes, Returns, After, Spent, Forgets, Kinds, Waits, Refreshing,
       Changing
  <1>8. CASE Begins(p)
    BY <1>8 DEF TypeOK, Begins, Goes, Returns, After, Spent, Forgets, Kinds, Waits, Refreshing,
       Changing
  <1>9. CASE ReadsOverrides(p)
    BY <1>9 DEF TypeOK, ReadsOverrides, Goes, Returns, After, Spent, Forgets, Kinds, Waits,
       Refreshing, Changing
  <1>10. CASE ReadsSkills(p)
    BY <1>10 DEF TypeOK, ReadsSkills, Goes, Returns, After, Spent, Forgets, Kinds, Waits,
       Refreshing, Changing
  <1>11. CASE AppliesOverrides(p)
    BY <1>11 DEF TypeOK, AppliesOverrides, Goes, Returns, After, Spent, Forgets, Kinds, Waits,
       Refreshing, Changing
  <1>12. CASE AppliesSkills(p)
    BY <1>12 DEF TypeOK, AppliesSkills, Goes, Returns, After, Spent, Forgets, Kinds, Waits,
       Refreshing, Changing
  <1>13. CASE Persists(p)
    BY <1>13 DEF TypeOK, Persists, Goes, Returns, After, Spent, Forgets, Kinds, Waits,
       Refreshing, Changing
  <1>14. CASE PersistFails(p)
    BY <1>14 DEF TypeOK, PersistFails, Goes, Returns, After, Spent, Forgets, Kinds, Waits,
       Refreshing, Changing
  <1>15. CASE UndoesOverrides(p)
    BY <1>15 DEF TypeOK, UndoesOverrides, Goes, Returns, After, Spent, Forgets, Kinds, Waits,
       Refreshing, Changing
  <1>16. CASE UndoesSkills(p)
    BY <1>16 DEF TypeOK, UndoesSkills, Goes, Returns, After, Spent, Forgets, Kinds, Waits,
       Refreshing, Changing
  <1>17. CASE Stores(p)
    BY <1>17 DEF TypeOK, Stores, Goes, Returns, After, Spent, Forgets, Kinds, Waits, Refreshing,
       Changing
  <1> QED
    BY <1>1, <1>2, <1>3, <1>4, <1>5, <1>6, <1>7, <1>8, <1>9, <1>10, <1>11, <1>12, <1>13, <1>14,
       <1>15, <1>16, <1>17 DEF Step, Refresh, Change

\* Only callers change, and only while their change is on.
LEMMA KeptStep ==
  ASSUME TypeOK, Kept, NEW p \in Processes, Step(p)
  PROVE  Kept'
  <1>a. (kind'[p] # "list" => p \in Calls) /\ (pc'[p] \in OfChange => kind'[p] = "change")
    <2>1. CASE RefreshSkips(p)
      BY <2>1 DEF RefreshSkips, TypeOK, Kept, Goes, Returns, After, Spent, Forgets, OfChange,
         Changing
    <2>2. CASE RefreshFindsNothing(p)
      BY <2>2 DEF RefreshFindsNothing, TypeOK, Kept, Goes, Returns, After, Spent, Forgets,
         OfChange, Changing
    <2>3. CASE RefreshReads(p)
      BY <2>3 DEF RefreshReads, TypeOK, Kept, Goes, Returns, After, Spent, Forgets, OfChange,
         Changing
    <2>4. CASE RefreshSetsOverrides(p)
      BY <2>4 DEF RefreshSetsOverrides, TypeOK, Kept, Goes, Returns, After, Spent, Forgets,
         OfChange, Changing
    <2>5. CASE RefreshSetsSkills(p)
      BY <2>5 DEF RefreshSetsSkills, TypeOK, Kept, Goes, Returns, After, Spent, Forgets,
         OfChange, Changing
    <2>6. CASE RefreshStamps(p)
      BY <2>6 DEF RefreshStamps, TypeOK, Kept, Goes, Returns, After, Spent, Forgets, OfChange,
         Changing
    <2>7. CASE Watcher(p)
      BY <2>7 DEF Watcher, TypeOK, Kept, Goes, Returns, After, Spent, Forgets, OfChange,
         Changing
    <2>8. CASE p \in Calls /\ Begins(p)
      BY <2>8 DEF Begins, TypeOK, Kept, Goes, Returns, After, Spent, Forgets, OfChange, Changing
    <2>9. CASE ReadsOverrides(p)
      BY <2>9 DEF ReadsOverrides, TypeOK, Kept, Goes, Returns, After, Spent, Forgets, OfChange,
         Changing
    <2>10. CASE ReadsSkills(p)
      BY <2>10 DEF ReadsSkills, TypeOK, Kept, Goes, Returns, After, Spent, Forgets, OfChange,
         Changing
    <2>11. CASE AppliesOverrides(p)
      BY <2>11 DEF AppliesOverrides, TypeOK, Kept, Goes, Returns, After, Spent, Forgets,
         OfChange, Changing
    <2>12. CASE AppliesSkills(p)
      BY <2>12 DEF AppliesSkills, TypeOK, Kept, Goes, Returns, After, Spent, Forgets, OfChange,
         Changing
    <2>13. CASE Persists(p)
      BY <2>13 DEF Persists, TypeOK, Kept, Goes, Returns, After, Spent, Forgets, OfChange,
         Changing
    <2>14. CASE PersistFails(p)
      BY <2>14 DEF PersistFails, TypeOK, Kept, Goes, Returns, After, Spent, Forgets, OfChange,
         Changing
    <2>15. CASE UndoesOverrides(p)
      BY <2>15 DEF UndoesOverrides, TypeOK, Kept, Goes, Returns, After, Spent, Forgets,
         OfChange, Changing
    <2>16. CASE UndoesSkills(p)
      BY <2>16 DEF UndoesSkills, TypeOK, Kept, Goes, Returns, After, Spent, Forgets, OfChange,
         Changing
    <2>17. CASE Stores(p)
      BY <2>17 DEF Stores, TypeOK, Kept, Goes, Returns, After, Spent, Forgets, OfChange,
         Changing
    <2> QED
      BY <2>1, <2>2, <2>3, <2>4, <2>5, <2>6, <2>7, <2>8, <2>9, <2>10, <2>11, <2>12, <2>13,
         <2>14, <2>15, <2>16, <2>17 DEF Step, Refresh, Change
  <1> QED
    BY <1>a, Moves DEF Kept

-----------------------------------------------------------------------------
(* Versions. *)

\* The table only grows, by the row of one caller that has not been counted.
LEMMA Growth ==
  ASSUME TypeOK, NEW p \in Processes, Step(p)
  PROVE  versions' = versions \/ (Commits(p) /\ pc[p] = "persist" /\ pc'[p] \in {"store", "undo"})
  <1>1. CASE RefreshSkips(p)
    BY <1>1 DEF RefreshSkips, TypeOK, Goes, Forgets, Spent
  <1>2. CASE RefreshFindsNothing(p)
    BY <1>2 DEF RefreshFindsNothing, TypeOK, Goes, Forgets, Spent
  <1>3. CASE RefreshReads(p)
    BY <1>3 DEF RefreshReads, TypeOK, Goes, Forgets, Spent
  <1>4. CASE RefreshSetsOverrides(p)
    BY <1>4 DEF RefreshSetsOverrides, TypeOK, Goes, Forgets, Spent
  <1>5. CASE RefreshSetsSkills(p)
    BY <1>5 DEF RefreshSetsSkills, TypeOK, Goes, Forgets, Spent
  <1>6. CASE RefreshStamps(p)
    BY <1>6 DEF RefreshStamps, TypeOK, Goes, Forgets, Spent
  <1>7. CASE Watcher(p)
    BY <1>7 DEF Watcher, TypeOK, Goes, Forgets, Spent
  <1>8. CASE p \in Calls /\ Begins(p)
    BY <1>8 DEF Begins, TypeOK, Goes, Forgets, Spent
  <1>9. CASE ReadsOverrides(p)
    BY <1>9 DEF ReadsOverrides, TypeOK, Goes, Forgets, Spent
  <1>10. CASE ReadsSkills(p)
    BY <1>10 DEF ReadsSkills, TypeOK, Goes, Forgets, Spent
  <1>11. CASE AppliesOverrides(p)
    BY <1>11 DEF AppliesOverrides, TypeOK, Goes, Forgets, Spent
  <1>12. CASE AppliesSkills(p)
    BY <1>12 DEF AppliesSkills, TypeOK, Goes, Forgets, Spent
  <1>13. CASE Persists(p)
    BY <1>13 DEF Persists, TypeOK, Goes, Forgets, Spent
  <1>14. CASE PersistFails(p)
    BY <1>14 DEF PersistFails, TypeOK, Goes, Forgets, Spent
  <1>15. CASE UndoesOverrides(p)
    BY <1>15 DEF UndoesOverrides, TypeOK, Goes, Forgets, Spent
  <1>16. CASE UndoesSkills(p)
    BY <1>16 DEF UndoesSkills, TypeOK, Goes, Forgets, Spent
  <1>17. CASE Stores(p)
    BY <1>17 DEF Stores, TypeOK, Goes, Forgets, Spent
  <1> QED
    BY <1>1, <1>2, <1>3, <1>4, <1>5, <1>6, <1>7, <1>8, <1>9, <1>10, <1>11, <1>12, <1>13, <1>14,
       <1>15, <1>16, <1>17 DEF Step, Refresh, Change

\* A version, once written, is never rewritten.
LEMMA Appended ==
  ASSUME TypeOK, NEW p \in Processes, Step(p)
  PROVE  /\ versions' \in Seq(Versions)
         /\ Len(versions) \in Nat /\ Len(versions') \in Nat /\ Len(versions) <= Len(versions')
         /\ \A n \in 1..Len(versions) : versions'[n] = versions[n]
         /\ \A n \in 0..Len(versions) : Snapshot(n)' = Snapshot(n)
  <1>1. CASE versions' = versions
    BY <1>1 DEF TypeOK, Snapshot
  <1>2. CASE Commits(p)
    <2>1. \A n \in 0..Len(versions) : n # 0 => n \in 1..Len(versions)
      BY DEF TypeOK
    <2> QED
      BY <1>2, <2>1, CommitType DEF TypeOK, Snapshot
  <1> QED
    BY <1>1, <1>2, Growth

\* Whoever has committed stays committed.
LEMMA CommittedStep ==
  ASSUME TypeOK, Kept, NEW p \in Processes, Step(p)
  PROVE  /\ IsFiniteSet(Committed) /\ IsFiniteSet(Committed')
         /\ Committed \subseteq Committed'
         /\ versions' # versions => p \in Committed' \ Committed
  <1>1. Committed \subseteq Calls /\ Committed' \subseteq Calls
    BY DEF Committed
  <1>2. IsFiniteSet(Committed) /\ IsFiniteSet(Committed')
    BY <1>1, CallsAssumption, FS_Subset
  <1>3. p \in Committed => p \in Committed'
    <2>1. CASE RefreshSkips(p)
      BY <2>1 DEF RefreshSkips, TypeOK, Kept, Goes, Looks, Returns, After, Spent, Forgets,
         Committed, OfChange, Changing
    <2>2. CASE RefreshFindsNothing(p)
      BY <2>2 DEF RefreshFindsNothing, TypeOK, Kept, Goes, Looks, Returns, After, Spent,
         Forgets, Committed, OfChange, Changing
    <2>3. CASE RefreshReads(p)
      BY <2>3 DEF RefreshReads, TypeOK, Kept, Goes, Looks, Returns, After, Spent, Forgets,
         Committed, OfChange, Changing
    <2>4. CASE RefreshSetsOverrides(p)
      BY <2>4 DEF RefreshSetsOverrides, TypeOK, Kept, Goes, Looks, Returns, After, Spent,
         Forgets, Committed, OfChange, Changing
    <2>5. CASE RefreshSetsSkills(p)
      BY <2>5 DEF RefreshSetsSkills, TypeOK, Kept, Goes, Looks, Returns, After, Spent, Forgets,
         Committed, OfChange, Changing
    <2>6. CASE RefreshStamps(p)
      BY <2>6 DEF RefreshStamps, TypeOK, Kept, Goes, Looks, Returns, After, Spent, Forgets,
         Committed, OfChange, Changing
    <2>7. CASE Watcher(p)
      BY <2>7 DEF Watcher, TypeOK, Kept, Goes, Looks, Returns, After, Spent, Forgets, Committed,
         OfChange, Changing
    <2>8. CASE p \in Calls /\ Begins(p)
      BY <2>8 DEF Begins, TypeOK, Kept, Goes, Looks, Returns, After, Spent, Forgets, Committed,
         OfChange, Changing
    <2>9. CASE ReadsOverrides(p)
      BY <2>9 DEF ReadsOverrides, TypeOK, Kept, Goes, Looks, Returns, After, Spent, Forgets,
         Committed, OfChange, Changing
    <2>10. CASE ReadsSkills(p)
      BY <2>10 DEF ReadsSkills, TypeOK, Kept, Goes, Looks, Returns, After, Spent, Forgets,
         Committed, OfChange, Changing
    <2>11. CASE AppliesOverrides(p)
      BY <2>11 DEF AppliesOverrides, TypeOK, Kept, Goes, Looks, Returns, After, Spent, Forgets,
         Committed, OfChange, Changing
    <2>12. CASE AppliesSkills(p)
      BY <2>12 DEF AppliesSkills, TypeOK, Kept, Goes, Looks, Returns, After, Spent, Forgets,
         Committed, OfChange, Changing
    <2>13. CASE Persists(p)
      BY <2>13 DEF Persists, TypeOK, Kept, Goes, Looks, Returns, After, Spent, Forgets,
         Committed, OfChange, Changing
    <2>14. CASE PersistFails(p)
      BY <2>14 DEF PersistFails, TypeOK, Kept, Goes, Looks, Returns, After, Spent, Forgets,
         Committed, OfChange, Changing
    <2>15. CASE UndoesOverrides(p)
      BY <2>15 DEF UndoesOverrides, TypeOK, Kept, Goes, Looks, Returns, After, Spent, Forgets,
         Committed, OfChange, Changing
    <2>16. CASE UndoesSkills(p)
      BY <2>16 DEF UndoesSkills, TypeOK, Kept, Goes, Looks, Returns, After, Spent, Forgets,
         Committed, OfChange, Changing
    <2>17. CASE Stores(p)
      BY <2>17 DEF Stores, TypeOK, Kept, Goes, Looks, Returns, After, Spent, Forgets, Committed,
         OfChange, Changing
    <2> QED
      BY <2>1, <2>2, <2>3, <2>4, <2>5, <2>6, <2>7, <2>8, <2>9, <2>10, <2>11, <2>12, <2>13,
         <2>14, <2>15, <2>16, <2>17 DEF Step, Refresh, Change
  <1>4. ASSUME versions' # versions PROVE p \in Committed' \ Committed
    <2>1. Commits(p) /\ pc[p] = "persist" /\ pc'[p] \in {"store", "undo"}
      BY <1>4, Growth
    <2>2. kind[p] = "change" /\ p \in Calls
      BY <2>1 DEF Kept, OfChange, Changing
    <2> QED
      BY <2>1, <2>2 DEF Committed
  <1>5. \A q \in Processes \ {p} : q \in Committed => q \in Committed'
    BY Moves DEF Committed
  <1> QED
    BY <1>1, <1>2, <1>3, <1>4, <1>5, Parts

\* There are no more versions than callers that have committed.
LEMMA LengthStep ==
  ASSUME TypeOK, Kept, Numbers, NEW p \in Processes, Step(p)
  PROVE  /\ Len(versions') <= Cardinality(Committed')
         /\ Len(versions') \in 0..MaxVersions
  <1>1. /\ Cardinality(Committed) \in Nat /\ Cardinality(Committed') \in Nat
        /\ Cardinality(Committed) <= Cardinality(Committed')
    BY CommittedStep, FS_CardinalityType, FS_Subset
  <1>2. Len(versions') <= Cardinality(Committed')
    <2>1. CASE versions' = versions
      BY <1>1, <2>1, Appended DEF Numbers
    <2>2. CASE versions' # versions
      <3>1. Commits(p)
        BY <2>2, Growth
      <3>2. Len(versions') = Len(versions) + 1
        BY <3>1, CommitType
      <3>3. Cardinality(Committed) < Cardinality(Committed')
        <4>1. Committed # Committed'
          BY <2>2, CommittedStep
        <4> QED
          BY <4>1, <1>1, CommittedStep, FS_Subset
      <3> QED
        BY <1>1, <3>2, <3>3, Appended DEF Numbers
    <2> QED
      BY <2>1, <2>2
  <1>3. Cardinality(Committed') <= MaxVersions
    <2>1. Committed' \subseteq Calls
      BY DEF Committed
    <2> QED
      BY <2>1, CallsAssumption, FS_Subset DEF MaxVersions
  <1> QED
    BY <1>1, <1>2, <1>3, Appended, Parts

\* An instance, a refresh and a change know of versions there are.
LEMMA NumbersStep ==
  ASSUME TypeOK, Kept, Numbers, NEW p \in Processes, Step(p)
  PROVE  Numbers'
  <1> DEFINE N == Len(versions)  M == Len(versions')
  <1>0. /\ N \in Nat /\ M \in Nat /\ N <= M /\ at[p] \in Instances
        /\ pc \in [Processes -> Waits \cup Refreshing \cup Changing]
    BY Appended DEF TypeOK
  <1>1. /\ version \in [Instances -> 0..N] /\ seen \in [Processes -> 0..N \cup {None}]
        /\ pc[p] \in {"loaded", "half", "stamp", "store"} => seen[p] \in 1..N
    BY DEF Numbers
  <1>2. Commits(p) => M = N + 1
    BY CommitType
  <1>3. /\ version' \in [Instances -> 0..M] /\ seen' \in [Processes -> 0..M \cup {None}]
        /\ \A q \in Processes \ {p} : seen'[q] = seen[q]
        /\ pc'[p] \in {"loaded", "half", "stamp", "store"} => seen'[p] \in 1..M
    <2>1. CASE RefreshSkips(p)
      BY <1>0, <1>1, <1>2, <2>1 DEF RefreshSkips, Goes, Looks, Returns, After, Forgets, Latest
    <2>2. CASE RefreshFindsNothing(p)
      BY <1>0, <1>1, <1>2, <2>2 DEF RefreshFindsNothing, Goes, Looks, Returns, After, Forgets,
         Latest
    <2>3. CASE RefreshReads(p)
      BY <1>0, <1>1, <1>2, <2>3 DEF RefreshReads, Goes, Looks, Returns, After, Forgets, Latest
    <2>4. CASE RefreshSetsOverrides(p)
      BY <1>0, <1>1, <1>2, <2>4 DEF RefreshSetsOverrides, Goes, Looks, Returns, After, Forgets,
         Latest
    <2>5. CASE RefreshSetsSkills(p)
      BY <1>0, <1>1, <1>2, <2>5 DEF RefreshSetsSkills, Goes, Looks, Returns, After, Forgets,
         Latest
    <2>6. CASE RefreshStamps(p)
      BY <1>0, <1>1, <1>2, <2>6 DEF RefreshStamps, Goes, Looks, Returns, After, Forgets, Latest
    <2>7. CASE Watcher(p)
      BY <1>0, <1>1, <1>2, <2>7 DEF Watcher, Goes, Looks, Returns, After, Forgets, Latest
    <2>8. CASE p \in Calls /\ Begins(p)
      BY <1>0, <1>1, <1>2, <2>8 DEF Begins, Goes, Looks, Returns, After, Forgets, Latest
    <2>9. CASE ReadsOverrides(p)
      BY <1>0, <1>1, <1>2, <2>9 DEF ReadsOverrides, Goes, Looks, Returns, After, Forgets, Latest
    <2>10. CASE ReadsSkills(p)
      BY <1>0, <1>1, <1>2, <2>10 DEF ReadsSkills, Goes, Looks, Returns, After, Forgets, Latest
    <2>11. CASE AppliesOverrides(p)
      BY <1>0, <1>1, <1>2, <2>11 DEF AppliesOverrides, Goes, Looks, Returns, After, Forgets,
         Latest
    <2>12. CASE AppliesSkills(p)
      BY <1>0, <1>1, <1>2, <2>12 DEF AppliesSkills, Goes, Looks, Returns, After, Forgets, Latest
    <2>13. CASE Persists(p)
      BY <1>0, <1>1, <1>2, <2>13 DEF Persists, Goes, Looks, Returns, After, Forgets, Latest
    <2>14. CASE PersistFails(p)
      BY <1>0, <1>1, <1>2, <2>14 DEF PersistFails, Goes, Looks, Returns, After, Forgets, Latest
    <2>15. CASE UndoesOverrides(p)
      BY <1>0, <1>1, <1>2, <2>15 DEF UndoesOverrides, Goes, Looks, Returns, After, Forgets,
         Latest
    <2>16. CASE UndoesSkills(p)
      BY <1>0, <1>1, <1>2, <2>16 DEF UndoesSkills, Goes, Looks, Returns, After, Forgets, Latest
    <2>17. CASE Stores(p)
      BY <1>0, <1>1, <1>2, <2>17 DEF Stores, Goes, Looks, Returns, After, Forgets, Latest
    <2> QED
      BY <2>1, <2>2, <2>3, <2>4, <2>5, <2>6, <2>7, <2>8, <2>9, <2>10, <2>11, <2>12, <2>13,
         <2>14, <2>15, <2>16, <2>17 DEF Step, Refresh, Change
  <1>4. \A q \in Processes \ {p} : pc'[q] \in {"loaded", "half", "stamp", "store"} => seen'[q] \in 1..M
    BY <1>0, <1>3, Moves DEF Numbers
  <1> QED
    BY <1>3, <1>4, LengthStep DEF Numbers

\* What p writes, and who is met.
LEMMA Wrote ==
  ASSUME TypeOK, NEW p \in Processes, NEW s \in Snapshots
  PROVE  /\ SetOverrides(p, s) =>
              /\ registry' \in [Instances -> Snapshots]
              /\ \A i \in Instances \ {at[p]} : registry'[i] = registry[i]
              /\ registry'[at[p]].over = s.over /\ registry'[at[p]].skills = registry[at[p]].skills
              /\ disturbed' = Met(p) /\ disturbed' \subseteq Processes
         /\ SetSkills(p, s) =>
              /\ registry' \in [Instances -> Snapshots]
              /\ \A i \in Instances \ {at[p]} : registry'[i] = registry[i]
              /\ registry'[at[p]].over = registry[at[p]].over /\ registry'[at[p]].skills = s.skills
              /\ disturbed' = Met(p) /\ disturbed' \subseteq Processes
  <1> DEFINE r == registry[at[p]]
  <1>1. r \in Snapshots /\ at[p] \in Instances /\ registry \in [Instances -> Snapshots]
    BY DEF TypeOK
  <1>2. [r EXCEPT !.over = s.over] \in Snapshots /\ [r EXCEPT !.skills = s.skills] \in Snapshots
    BY <1>1, Mixed
  <1>3. /\ [r EXCEPT !.over = s.over].over = s.over /\ [r EXCEPT !.over = s.over].skills = r.skills
        /\ [r EXCEPT !.skills = s.skills].over = r.over /\ [r EXCEPT !.skills = s.skills].skills = s.skills
    BY <1>1 DEF Snapshots
  <1>4. Met(p) \subseteq Processes
    BY DEF TypeOK, Met, Others
  <1>5. \A t \in Snapshots : Sets(p, t) =>
              /\ registry' \in [Instances -> Snapshots]
              /\ \A i \in Instances \ {at[p]} : registry'[i] = registry[i]
              /\ registry'[at[p]] = t
              /\ disturbed' = Met(p)
    BY <1>1 DEF Sets
  <1>6. ASSUME SetOverrides(p, s)
        PROVE  /\ registry' \in [Instances -> Snapshots]
               /\ \A i \in Instances \ {at[p]} : registry'[i] = registry[i]
               /\ registry'[at[p]].over = s.over /\ registry'[at[p]].skills = registry[at[p]].skills
               /\ disturbed' = Met(p)
    BY <1>2, <1>3, <1>5, <1>6 DEF SetOverrides
  <1>7. ASSUME SetSkills(p, s)
        PROVE  /\ registry' \in [Instances -> Snapshots]
               /\ \A i \in Instances \ {at[p]} : registry'[i] = registry[i]
               /\ registry'[at[p]].over = registry[at[p]].over /\ registry'[at[p]].skills = s.skills
               /\ disturbed' = Met(p)
    BY <1>2, <1>3, <1>5, <1>7 DEF SetSkills
  <1> QED
    BY <1>4, <1>6, <1>7

\* What a change has read when it has the skills too, and what it makes of it.
LEMMA ReadType ==
  ASSUME TypeOK, NEW c \in Processes, ReadsSkills(c)
  PROVE  /\ before' \in [Processes -> Snapshots] /\ target' \in [Processes -> Snapshots]
         /\ \A q \in Processes \ {c} : before'[q] = before[q] /\ target'[q] = target[q]
         /\ pc'[c] = "apply" => /\ before'[c].over = before[c].over
                               /\ before'[c].skills = registry[at[c]].skills
  <1> DEFINE s == [before[c] EXCEPT !.skills = registry[at[c]].skills]
  <1>1. /\ before[c] \in Snapshots /\ registry[at[c]] \in Snapshots /\ Startup \in Snapshots
        /\ before \in [Processes -> Snapshots] /\ target \in [Processes -> Snapshots]
        /\ pc \in [Processes -> Waits \cup Refreshing \cup Changing]
    BY Parts DEF TypeOK
  <1>2. s \in Snapshots /\ s.over = before[c].over /\ s.skills = registry[at[c]].skills
    BY <1>1, Mixed DEF Snapshots
  <1>3. \A t \in Reloads(s) \cup Resets \cup Rollbacks : t \in Snapshots
    BY <1>2, TargetType
  <1>4. \/ \E t \in Reloads(s) \cup Resets \cup Rollbacks :
             before' = [before EXCEPT ![c] = s] /\ target' = [target EXCEPT ![c] = t]
        \/ pc'[c] = "idle" /\ before' = [before EXCEPT ![c] = Startup] /\ target' = target
    BY <1>1 DEF ReadsSkills, Goes
  <1> HIDE DEF s
  <1> QED
    BY <1>1, <1>2, <1>3, <1>4

\* Every step keeps the types.
LEMMA TypeStep ==
  ASSUME TypeOK, Kept, Numbers, NEW p \in Processes, Step(p)
  PROVE  TypeOK'
  <1>0. /\ at[p] \in Instances /\ before[p] \in Snapshots /\ target[p] \in Snapshots
        /\ registry \in [Instances -> Snapshots] /\ before \in [Processes -> Snapshots] /\ target \in [Processes -> Snapshots]
        /\ Startup \in Snapshots /\ disturbed \subseteq Processes /\ overlapped \subseteq Instances
        /\ Met(p) \subseteq Processes /\ refreshing \in [Instances -> Processes \cup {None}]
        /\ notices \subseteq Instances /\ at \in [Processes -> Instances]
    BY Parts DEF TypeOK, Met, Others
  <1>n. pc[p] \in {"loaded", "half"} => Snapshot(seen[p]) \in Snapshots
    <2>1. pc[p] \in {"loaded", "half"} => seen[p] \in 0..Len(versions)
      BY DEF Numbers, TypeOK
    <2> QED
      BY <2>1, SnapshotType
  <1>m. [before[p] EXCEPT !.over = registry[at[p]].over] \in Snapshots
    BY <1>0, Mixed
  <1>t. Publishes => notices' \subseteq Instances
    BY <1>0, Parts DEF Publishes
  <1>k. [registry[at[p]] EXCEPT !.skills = before[p].skills] \in Snapshots
    BY <1>0, Mixed
  <1>1. /\ registry' \in [Instances -> Snapshots] /\ disturbed' \subseteq Processes
        /\ before' \in [Processes -> Snapshots] /\ target' \in [Processes -> Snapshots]
        /\ refreshing' \in [Instances -> Processes \cup {None}]
        /\ notices' \subseteq Instances /\ overlapped' \subseteq Instances
    <2>1. CASE RefreshSkips(p)
      BY <1>0, <1>n, <1>m, <1>k, <2>1 DEF RefreshSkips, Goes, Looks, Unlocks, Ends, Publishes,
         Forgets, Restored, past
    <2>2. CASE RefreshFindsNothing(p)
      BY <1>0, <1>n, <1>m, <1>k, <2>2 DEF RefreshFindsNothing, Goes, Looks, Unlocks, Ends,
         Publishes, Forgets, Restored, past
    <2>3. CASE RefreshReads(p)
      BY <1>0, <1>n, <1>m, <1>k, <2>3 DEF RefreshReads, Goes, Looks, Unlocks, Ends, Publishes,
         Forgets, Restored, past
    <2>4. CASE RefreshSetsOverrides(p)
      BY <1>0, <1>n, <1>m, <1>k, <2>4, Wrote DEF RefreshSetsOverrides, Goes, Looks, Unlocks,
         Ends, Publishes, Forgets, Restored, past
    <2>5. CASE RefreshSetsSkills(p)
      BY <1>0, <1>n, <1>m, <1>k, <2>5, Wrote DEF RefreshSetsSkills, Goes, Looks, Unlocks, Ends,
         Publishes, Forgets, Restored, past
    <2>6. CASE RefreshStamps(p)
      BY <1>0, <1>n, <1>m, <1>k, <2>6 DEF RefreshStamps, Goes, Looks, Unlocks, Ends, Publishes,
         Forgets, Restored, past
    <2>7. CASE Watcher(p)
      BY <1>0, <1>n, <1>m, <1>k, <2>7 DEF Watcher, Goes, Looks, Unlocks, Ends, Publishes,
         Forgets, Restored, past
    <2>8. CASE p \in Calls /\ Begins(p)
      BY <1>0, <1>n, <1>m, <1>k, <2>8 DEF Begins, Goes, Looks, Unlocks, Ends, Publishes,
         Forgets, Restored, past
    <2>9. CASE ReadsOverrides(p)
      BY <1>0, <1>n, <1>m, <1>k, <2>9 DEF ReadsOverrides, Goes, Looks, Unlocks, Ends, Publishes,
         Forgets, Restored, past
    <2>10. CASE ReadsSkills(p)
      BY <1>0, <1>n, <1>m, <1>k, <2>10, ReadType DEF ReadsSkills, Goes, Looks, Unlocks, Ends,
         Publishes, Forgets, Restored, past
    <2>11. CASE AppliesOverrides(p)
      BY <1>0, <1>n, <1>m, <1>k, <2>11, Wrote DEF AppliesOverrides, Goes, Looks, Unlocks, Ends,
         Publishes, Forgets, Restored, past
    <2>12. CASE AppliesSkills(p)
      BY <1>0, <1>n, <1>m, <1>k, <2>12, Wrote DEF AppliesSkills, Goes, Looks, Unlocks, Ends,
         Publishes, Forgets, Restored, past
    <2>13. CASE Persists(p)
      BY <1>0, <1>n, <1>m, <1>k, <2>13 DEF Persists, Goes, Looks, Unlocks, Ends, Publishes,
         Forgets, Restored, past
    <2>14. CASE PersistFails(p)
      BY <1>0, <1>n, <1>m, <1>k, <2>14 DEF PersistFails, Goes, Looks, Unlocks, Ends, Publishes,
         Forgets, Restored, past
    <2>15. CASE UndoesOverrides(p)
      BY <1>0, <1>n, <1>m, <1>k, <2>15, Wrote DEF UndoesOverrides, Goes, Looks, Unlocks, Ends,
         Publishes, Forgets, Restored, past
    <2>16. CASE UndoesSkills(p)
      BY <1>0, <1>n, <1>m, <1>k, <2>16 DEF UndoesSkills, Goes, Looks, Unlocks, Ends, Publishes,
         Forgets, Restored, past
    <2>17. CASE Stores(p)
      BY <1>0, <1>n, <1>m, <1>k, <1>t, <2>17 DEF Stores, Goes, Looks, Unlocks, Ends, Forgets,
         Restored, past
    <2> QED
      BY <2>1, <2>2, <2>3, <2>4, <2>5, <2>6, <2>7, <2>8, <2>9, <2>10, <2>11, <2>12, <2>13,
         <2>14, <2>15, <2>16, <2>17 DEF Step, Refresh, Change
  <1>2. version' \in [Instances -> 0..Len(versions')] /\ seen' \in [Processes -> 0..Len(versions') \cup {None}]
    BY NumbersStep DEF Numbers
  <1>3. /\ versions' \in Seq(Versions) /\ Len(versions') \in 0..MaxVersions
        /\ at' \in [Processes -> Instances]
    BY Appended, LengthStep, Frame DEF TypeOK
  <1>4. version' \in [Instances -> 0..MaxVersions] /\ seen' \in [Processes -> 0..MaxVersions \cup {None}]
    BY <1>2, <1>3, Parts
  <1> QED
    BY <1>1, <1>3, <1>4, Moves DEF TypeOK

-----------------------------------------------------------------------------
(* Who meets whom. *)

\* Who is marked, and what of an instance a step can touch.
LEMMA Meets ==
  ASSUME TypeOK, Numbers, NEW p \in Processes, Step(p)
  PROVE  /\ \A q \in Processes \ {p} : q \in disturbed => q \in disturbed'
         /\ pc'[p] \in Active /\ p \in disturbed => p \in disturbed'
         /\ pc'[p] \in Active /\ pc[p] \notin Active /\ Others(p) # {} => p \in disturbed'
         /\ pc'[p] \in Writing /\ pc[p] \notin Writing => Others(p) \subseteq disturbed'
         /\ registry' = registry \/ Others(p) \subseteq disturbed'
         /\ \A i \in Instances \ {at[p]} :
              /\ registry'[i] = registry[i] /\ version'[i] = version[i]
              /\ i \in overlapped' <=> i \in overlapped
         /\ pc[p] \notin {"stamp", "store", "undone"} => version' = version /\ overlapped' = overlapped
         /\ pc[p] \notin Writing /\ pc'[p] \notin Writing => registry' = registry
  <1>0. /\ at[p] \in Instances /\ before[p] \in Snapshots /\ target[p] \in Snapshots
        /\ registry \in [Instances -> Snapshots] /\ version \in [Instances -> 0..MaxVersions]
        /\ pc \in [Processes -> Waits \cup Refreshing \cup Changing]
        /\ overlapped \subseteq Instances
    BY DEF TypeOK
  <1>n. pc[p] \in {"loaded", "half"} => Snapshot(seen[p]) \in Snapshots
    <2>1. pc[p] \in {"loaded", "half"} => seen[p] \in 0..Len(versions)
      BY DEF Numbers, TypeOK
    <2> QED
      BY <2>1, SnapshotType
  <1>1. CASE RefreshSkips(p)
    BY <1>0, <1>n, <1>1 DEF RefreshSkips, Goes, Looks, Returns, After, Ends, Forgets, Met,
       Restored, past, Active, Writing, Refreshing, Changing, Waits
  <1>2. CASE RefreshFindsNothing(p)
    BY <1>0, <1>n, <1>2 DEF RefreshFindsNothing, Goes, Looks, Returns, After, Ends, Forgets,
       Met, Restored, past, Active, Writing, Refreshing, Changing, Waits
  <1>3. CASE RefreshReads(p)
    BY <1>0, <1>n, <1>3 DEF RefreshReads, Goes, Looks, Returns, After, Ends, Forgets, Met,
       Restored, past, Active, Writing, Refreshing, Changing, Waits
  <1>4. CASE RefreshSetsOverrides(p)
    BY <1>0, <1>n, <1>4, Wrote DEF RefreshSetsOverrides, Goes, Looks, Returns, After, Ends,
       Forgets, Met, Restored, past, Active, Writing, Refreshing, Changing, Waits
  <1>5. CASE RefreshSetsSkills(p)
    BY <1>0, <1>n, <1>5, Wrote DEF RefreshSetsSkills, Goes, Looks, Returns, After, Ends,
       Forgets, Met, Restored, past, Active, Writing, Refreshing, Changing, Waits
  <1>6. CASE RefreshStamps(p)
    BY <1>0, <1>n, <1>6 DEF RefreshStamps, Goes, Looks, Returns, After, Ends, Forgets, Met,
       Restored, past, Active, Writing, Refreshing, Changing, Waits
  <1>7. CASE Watcher(p)
    BY <1>0, <1>n, <1>7 DEF Watcher, Goes, Looks, Returns, After, Ends, Forgets, Met, Restored,
       past, Active, Writing, Refreshing, Changing, Waits
  <1>8. CASE p \in Calls /\ Begins(p)
    BY <1>0, <1>n, <1>8 DEF Begins, Goes, Looks, Returns, After, Ends, Forgets, Met, Restored,
       past, Active, Writing, Refreshing, Changing, Waits
  <1>9. CASE ReadsOverrides(p)
    BY <1>0, <1>n, <1>9 DEF ReadsOverrides, Goes, Looks, Returns, After, Ends, Forgets, Met,
       Restored, past, Active, Writing, Refreshing, Changing, Waits
  <1>10. CASE ReadsSkills(p)
    BY <1>0, <1>n, <1>10 DEF ReadsSkills, Goes, Looks, Returns, After, Ends, Forgets, Met,
       Restored, past, Active, Writing, Refreshing, Changing, Waits
  <1>11. CASE AppliesOverrides(p)
    BY <1>0, <1>n, <1>11, Wrote DEF AppliesOverrides, Goes, Looks, Returns, After, Ends,
       Forgets, Met, Restored, past, Active, Writing, Refreshing, Changing, Waits
  <1>12. CASE AppliesSkills(p)
    BY <1>0, <1>n, <1>12, Wrote DEF AppliesSkills, Goes, Looks, Returns, After, Ends, Forgets,
       Met, Restored, past, Active, Writing, Refreshing, Changing, Waits
  <1>13. CASE Persists(p)
    BY <1>0, <1>n, <1>13 DEF Persists, Goes, Looks, Returns, After, Ends, Forgets, Met,
       Restored, past, Active, Writing, Refreshing, Changing, Waits
  <1>14. CASE PersistFails(p)
    BY <1>0, <1>n, <1>14 DEF PersistFails, Goes, Looks, Returns, After, Ends, Forgets, Met,
       Restored, past, Active, Writing, Refreshing, Changing, Waits
  <1>15. CASE UndoesOverrides(p)
    BY <1>0, <1>n, <1>15, Wrote DEF UndoesOverrides, Goes, Looks, Returns, After, Ends, Forgets,
       Met, Restored, past, Active, Writing, Refreshing, Changing, Waits
  <1>16. CASE UndoesSkills(p)
    BY <1>0, <1>n, <1>16 DEF UndoesSkills, Goes, Looks, Returns, After, Ends, Forgets, Met,
       Others, Restored, past, Active, Writing, Refreshing, Changing, Waits
  <1>17. CASE Stores(p)
    BY <1>0, <1>n, <1>17 DEF Stores, Goes, Looks, Returns, After, Ends, Forgets, Met, Restored,
       past, Active, Writing, Refreshing, Changing, Waits
  <1> QED
    BY <1>1, <1>2, <1>3, <1>4, <1>5, <1>6, <1>7, <1>8, <1>9, <1>10, <1>11, <1>12, <1>13, <1>14,
       <1>15, <1>16, <1>17 DEF Step, Refresh, Change

\* Whoever is not met stays alone.
LEMMA AloneStep ==
  ASSUME TypeOK, Numbers, Alone, NEW p \in Processes, Step(p)
  PROVE  Alone'
  <1> SUFFICES ASSUME NEW q \in Processes, NEW r \in Processes, q # r, at[q] = at[r],
                      pc'[q] \in Active, pc'[r] \in Active, q \notin disturbed'
               PROVE  r \in disturbed' /\ pc'[r] \in {"torn", "apply"}
    BY Frame DEF Alone
  <1>1. CASE q # p /\ r # p
    BY <1>1, Meets, Moves DEF Alone
  <1>2. CASE q = p
    <2>1. pc[r] = pc'[r] /\ r \in Others(p)
      BY <1>2, Moves DEF Others, Active
    <2>2. pc[p] \in Active /\ p \notin disturbed
      BY <1>2, <2>1, Meets
    <2> QED
      BY <1>2, <2>1, <2>2, Meets DEF Alone
  <1>3. CASE r = p
    <2>1. pc[q] = pc'[q] /\ q \in Others(p) /\ q \notin disturbed
      BY <1>3, Moves, Meets DEF Others, Active
    <2>2. pc'[p] \in {"torn", "apply"}
      <3>1. CASE pc[p] \in Active
        <4>1. pc[p] \in {"torn", "apply"}
          BY <1>3, <2>1, <3>1 DEF Alone
        <4> QED
          BY <4>1, <1>3, <2>1, Meets DEF Writing
      <3>2. CASE pc[p] \notin Active
        BY <3>2, <1>3, <2>1, Meets DEF Writing
      <3> QED
        BY <3>1, <3>2
    <2>3. p \in disturbed'
      BY <1>3, <2>1, Meets DEF Alone
    <2> QED
      BY <1>3, <2>2, <2>3
  <1> QED
    BY <1>1, <1>2, <1>3

\* Nobody is writing on the instance of a process that has read only and that nobody met.
LEMMA Reading ==
  ASSUME TypeOK, Alone, Rests, NEW p \in Processes, pc[p] \in {"torn", "apply"}, p \notin disturbed
  PROVE  Faithful(at[p])
  <1>1. \A q \in Processes : at[q] = at[p] => pc[q] \notin Writing
    BY DEF Alone, Writing, Active, Refreshing, Changing
  <1> QED
    BY <1>1 DEF Rests, TypeOK

\* An instance whose writers have left runs what it says: the last to leave was met,
\* or leaves what it says.
LEMMA RestsStep ==
  ASSUME TypeOK, Kept, Numbers, Rests, Undisturbed, NEW p \in Processes, Step(p)
  PROVE  Rests'
  <1> SUFFICES ASSUME NEW i \in Instances, \A q \in Processes : at[q] = i => pc'[q] \notin Writing
               PROVE  registry'[i] = Snapshot(version[i])' \/ i \in overlapped'
    BY Frame DEF Rests, Faithful
  <1>0. /\ registry \in [Instances -> Snapshots] /\ version \in [Instances -> 0..Len(versions)]
        /\ at[p] \in Instances /\ before[p] \in Snapshots
        /\ pc \in [Processes -> Waits \cup Refreshing \cup Changing]
    BY DEF TypeOK, Numbers
  <1>1. CASE i # at[p] \/ pc[p] \notin Writing
    <2>1. \A q \in Processes : at[q] = i => pc[q] \notin Writing
      BY <1>1, Moves
    <2>2. registry[i] = Snapshot(version[i]) \/ i \in overlapped
      BY <2>1 DEF Rests, Faithful
    <2>3. registry'[i] = registry[i] /\ version'[i] = version[i] /\ (i \in overlapped' <=> i \in overlapped)
      BY <1>1, Meets DEF Writing, Active, Refreshing, Changing
    <2>4. Snapshot(version[i])' = Snapshot(version[i])
      BY <1>0, <2>3, Appended DEF Snapshot
    <2> QED
      BY <2>2, <2>3, <2>4
  <1>2. CASE i = at[p] /\ pc[p] \in Writing
    <2>1. pc'[p] \notin Writing
      BY <1>2
    <2>2. p \notin disturbed => Finds(p)
      BY DEF Undisturbed
    <2>3. CASE RefreshStamps(p)
      BY <1>0, <1>2, <2>2, <2>3 DEF RefreshStamps, Ends, Finds, Snapshot
    <2>4. CASE Stores(p)
      BY <1>0, <1>2, <2>2, <2>4 DEF Stores, Goes, Ends, Finds, Snapshot
    <2>5. CASE UndoesSkills(p)
      <3>1. CASE p \in Met(p)
        BY <1>2, <2>5, <3>1 DEF UndoesSkills
      <3>2. CASE p \notin Met(p)
        <4>1. p \notin disturbed /\ pc[p] = "undone"
          BY <2>5, <3>2 DEF Met, UndoesSkills, Goes
        <4>2. registry[i].over = before[p].over
          BY <1>2, <2>2, <4>1 DEF Finds
        <4>3. before[p] = Snapshot(version[i]) \/ i \in overlapped
          BY <1>2, <2>2, <4>1 DEF Finds, HasRead, Changing
        <4>4. registry'[i] = [registry[i] EXCEPT !.skills = before[p].skills]
          BY <1>0, <1>2, <2>5 DEF UndoesSkills, Restored
        <4>5. registry'[i] = before[p]
          BY <1>0, <4>2, <4>4 DEF Snapshots
        <4>6. versions' = versions /\ version' = version /\ overlapped' = overlapped
          BY <2>5, <3>2 DEF UndoesSkills
        <4> QED
          BY <4>3, <4>5, <4>6 DEF Snapshot
      <3> QED
        BY <3>1, <3>2
    <2> QED
      BY <1>0, <1>2, <2>1, <2>3, <2>4, <2>5 DEF Step, Refresh, Change, Writing, Active,
         Refreshing, Changing,
         RefreshSkips, RefreshFindsNothing, RefreshReads, RefreshSetsOverrides, RefreshSetsSkills, Watcher, Begins, ReadsOverrides, ReadsSkills, AppliesOverrides, AppliesSkills, Persists, PersistFails, UndoesOverrides, Goes, Looks
  <1> QED
    BY <1>1, <1>2

\* What the others hold.
LEMMA Held ==
  ASSUME TypeOK, NEW p \in Processes, Step(p), NEW q \in Processes \ {p}
  PROVE  before'[q] = before[q] /\ target'[q] = target[q] /\ seen'[q] = seen[q]
  <1>0. /\ before \in [Processes -> Snapshots] /\ target \in [Processes -> Snapshots]
        /\ seen \in [Processes -> 0..MaxVersions \cup {None}]
    BY DEF TypeOK
  <1>1. CASE RefreshSkips(p)
    BY <1>0, <1>1 DEF RefreshSkips, Forgets
  <1>2. CASE RefreshFindsNothing(p)
    BY <1>0, <1>2 DEF RefreshFindsNothing, Forgets
  <1>3. CASE RefreshReads(p)
    BY <1>0, <1>3 DEF RefreshReads, Forgets
  <1>4. CASE RefreshSetsOverrides(p)
    BY <1>0, <1>4 DEF RefreshSetsOverrides, Forgets
  <1>5. CASE RefreshSetsSkills(p)
    BY <1>0, <1>5 DEF RefreshSetsSkills, Forgets
  <1>6. CASE RefreshStamps(p)
    BY <1>0, <1>6 DEF RefreshStamps, Forgets
  <1>7. CASE Watcher(p)
    BY <1>0, <1>7 DEF Watcher, Forgets
  <1>8. CASE p \in Calls /\ Begins(p)
    BY <1>0, <1>8 DEF Begins, Forgets
  <1>9. CASE ReadsOverrides(p)
    BY <1>0, <1>9 DEF ReadsOverrides, Forgets
  <1>10. CASE ReadsSkills(p)
    BY <1>0, <1>10, ReadType DEF ReadsSkills, Forgets
  <1>11. CASE AppliesOverrides(p)
    BY <1>0, <1>11 DEF AppliesOverrides, Forgets
  <1>12. CASE AppliesSkills(p)
    BY <1>0, <1>12 DEF AppliesSkills, Forgets
  <1>13. CASE Persists(p)
    BY <1>0, <1>13 DEF Persists, Forgets
  <1>14. CASE PersistFails(p)
    BY <1>0, <1>14 DEF PersistFails, Forgets
  <1>15. CASE UndoesOverrides(p)
    BY <1>0, <1>15 DEF UndoesOverrides, Forgets
  <1>16. CASE UndoesSkills(p)
    BY <1>0, <1>16 DEF UndoesSkills, Forgets
  <1>17. CASE Stores(p)
    BY <1>0, <1>17 DEF Stores, Forgets
  <1> QED
    BY <1>1, <1>2, <1>3, <1>4, <1>5, <1>6, <1>7, <1>8, <1>9, <1>10, <1>11, <1>12, <1>13, <1>14,
       <1>15, <1>16, <1>17 DEF Step, Refresh, Change

\* What a step of p leaves of what q, whom nobody has met, has found.
LEMMA FindsOther ==
  ASSUME TypeOK, Numbers, Alone, Undisturbed, NEW p \in Processes, Step(p),
         NEW q \in Processes \ {p}, q \notin disturbed'
  PROVE  Finds(q)'
  <1>1. CASE pc[q] \notin Active
    <2>1. pc'[q] \notin Active
      BY <1>1, Moves
    <2> QED
      BY <2>1 DEF Finds, Active, Refreshing, Changing
  <1>2. CASE pc[q] \in Active
    <2>1. q \notin disturbed /\ Finds(q)
      BY Meets DEF Undisturbed
    <2>2. at[q] = at[p] => pc[p] \notin {"stamp", "store", "undone"} /\ q \in Others(p)
      BY <1>2, <2>1 DEF Alone, Others, Active, Refreshing, Changing
    <2>3. /\ registry'[at[q]] = registry[at[q]] /\ version'[at[q]] = version[at[q]]
          /\ at[q] \in overlapped' <=> at[q] \in overlapped
      BY <2>2, Meets DEF TypeOK
    <2>4. /\ before'[q] = before[q] /\ target'[q] = target[q] /\ seen'[q] = seen[q]
          /\ pc'[q] = pc[q] /\ at'[q] = at[q]
      BY Moves, Frame, Held
    <2>5. /\ seen[q] # None => Snapshot(seen[q])' = Snapshot(seen[q])
          /\ Snapshot(version[at[q]])' = Snapshot(version[at[q]])
      <3>1. version[at[q]] \in 0..Len(versions) /\ seen[q] \in 0..Len(versions) \cup {None}
        BY DEF Numbers, TypeOK
      <3>2. \A n \in 0..Len(versions) : (IF n = 0 THEN Startup ELSE versions'[n].snapshot) = Snapshot(n)
        BY Appended DEF Snapshot
      <3> QED
        BY <2>3, <2>4, <3>1, <3>2 DEF Snapshot
    <2>6. pc[q] \in {"half", "stamp", "store"} => seen[q] # None
      BY Parts DEF Numbers
    <2> QED
      BY <2>1, <2>3, <2>4, <2>5, <2>6 DEF Finds, HasRead
  <1> QED
    BY <1>1, <1>2

\* What a process finds when it has read or written itself.
LEMMA FindsOwn ==
  ASSUME TypeOK, Kept, Numbers, Alone, Rests, Undisturbed, NEW p \in Processes, Step(p), p \notin disturbed'
  PROVE  Finds(p)'
  <1>0. /\ registry \in [Instances -> Snapshots] /\ version \in [Instances -> 0..Len(versions)]
        /\ at[p] \in Instances /\ before[p] \in Snapshots /\ target[p] \in Snapshots /\ registry[at[p]] \in Snapshots
        /\ pc \in [Processes -> Waits \cup Refreshing \cup Changing]
        /\ before \in [Processes -> Snapshots] /\ target \in [Processes -> Snapshots]
        /\ seen \in [Processes -> 0..Len(versions) \cup {None}] /\ Len(versions) \in Nat /\ None \notin Nat
    BY Parts DEF TypeOK, Numbers
  <1>t. /\ registry' \in [Instances -> Snapshots] /\ before' \in [Processes -> Snapshots] /\ target' \in [Processes -> Snapshots]
    BY TypeStep DEF TypeOK
  <1>a. at' = at
    BY Frame
  <1>1. CASE pc'[p] \notin Active
    BY <1>1 DEF Finds, Active, Refreshing, Changing
  <1>2. CASE pc[p] \in Active /\ pc'[p] \in Active
    <2>1. p \notin disturbed /\ Finds(p)
      BY <1>2, Meets DEF Undisturbed
    <2>2. CASE RefreshSetsSkills(p)
      <3>1. Snapshot(seen[p]) \in Snapshots
        <4>1. pc[p] = "half" /\ seen[p] \in 0..Len(versions)
          BY <2>2 DEF RefreshSetsSkills, Goes, Numbers, TypeOK
        <4> QED
          BY <4>1, SnapshotType
      <3>2. pc[p] = "half" /\ pc'[p] = "stamp" /\ seen' = seen /\ versions' = versions /\ SetSkills(p, Snapshot(seen[p]))
        BY <1>0, <2>2 DEF RefreshSetsSkills, Goes
      <3>3. registry[at[p]].over = Snapshot(seen[p]).over
        BY <2>1, <3>2 DEF Finds
      <3>4. registry'[at[p]].over = Snapshot(seen[p]).over /\ registry'[at[p]].skills = Snapshot(seen[p]).skills
        BY <3>1, <3>2, <3>3, Wrote
      <3>5. registry'[at[p]] = Snapshot(seen[p])
        BY <1>0, <1>t, <3>1, <3>4, Same
      <3> QED
        BY <1>a, <3>2, <3>5 DEF Finds, Snapshot, Changing
    <2>3. CASE ReadsSkills(p)
      <3>1. pc[p] = "torn" /\ pc'[p] = "apply" /\ UNCHANGED <<versions, registry, version, overlapped, seen>>
        BY <1>0, <1>2, <2>3 DEF ReadsSkills, Goes, Active, Refreshing, Changing
      <3>2. before'[p].over = before[p].over /\ before'[p].skills = registry[at[p]].skills /\ before'[p] \in Snapshots
        BY <1>t, <2>3, <3>1, ReadType
      <3>3. registry[at[p]].over = before[p].over /\ (seen[p] = None \/ registry[at[p]] = Snapshot(seen[p]))
        BY <2>1, <3>1 DEF Finds
      <3>4. before'[p] = registry[at[p]]
        BY <1>0, <3>2, <3>3, Same
      <3>5. Faithful(at[p])
        BY <2>1, <3>1, Reading
      <3> QED
        BY <1>a, <3>1, <3>3, <3>4, <3>5 DEF Finds, HasRead, Faithful, Snapshot, Changing
    <2>4. CASE AppliesOverrides(p)
      <3>1. pc[p] = "apply" /\ pc'[p] = "applied" /\ UNCHANGED <<versions, version, overlapped, seen, before, target>> /\ SetOverrides(p, target[p])
        BY <1>0, <2>4 DEF AppliesOverrides, Goes
      <3>2. registry'[at[p]].over = target[p].over
        BY <1>0, <3>1, Wrote
      <3> QED
        BY <1>a, <2>1, <3>1, <3>2 DEF Finds, HasRead, Snapshot, Changing
    <2>5. CASE AppliesSkills(p)
      <3>1. pc[p] = "applied" /\ pc'[p] = "persist" /\ UNCHANGED <<versions, version, overlapped, seen, before, target>> /\ SetSkills(p, target[p])
        BY <1>0, <2>5 DEF AppliesSkills, Goes
      <3>2. registry'[at[p]].skills = target[p].skills /\ registry'[at[p]].over = target[p].over
        BY <1>0, <2>1, <3>1, Wrote DEF Finds
      <3>3. registry'[at[p]] = target[p]
        BY <1>0, <1>t, <3>2, Same
      <3> QED
        BY <1>a, <2>1, <3>1, <3>3 DEF Finds, HasRead, Snapshot, Changing
    <2>6. CASE Persists(p)
      <3>1. pc[p] = "persist" /\ pc'[p] = "store" /\ registry' = registry /\ Commits(p) /\ seen'[p] = Len(versions) + 1
        BY <1>0, <2>6 DEF Persists, Goes, Latest
      <3>2. registry[at[p]] = target[p]
        BY <2>1, <3>1 DEF Finds
      <3>3. versions'[Len(versions) + 1].snapshot = target[p]
        <4>1. versions'[Len(versions) + 1] = Record(p)
          BY <3>1, CommitType
        <4> QED
          BY <4>1 DEF Record
      <3>4. Snapshot(seen[p])' = target[p]
        BY <1>0, <3>1, <3>3 DEF Snapshot
      <3> QED
        BY <1>a, <3>1, <3>2, <3>4 DEF Finds, Changing
    <2>7. CASE PersistFails(p)
      <3>1. pc[p] = "persist" /\ pc'[p] = "undo" /\ UNCHANGED <<registry, version, overlapped, before>>
        BY <1>0, <2>7 DEF PersistFails, Goes, past
      <3>2. HasRead(p)
        BY <2>1, <3>1 DEF Finds, Changing
      <3>3. Snapshot(version[at[p]])' = Snapshot(version[at[p]])
        BY <1>0, <1>a, <3>1, Appended DEF Snapshot
      <3> QED
        BY <1>a, <3>1, <3>2, <3>3 DEF Finds, HasRead
    <2>8. CASE UndoesOverrides(p)
      <3>1. pc[p] = "undo" /\ pc'[p] = "undone" /\ UNCHANGED <<versions, version, overlapped, before>> /\ SetOverrides(p, before[p])
        BY <1>0, <2>8 DEF UndoesOverrides, Goes, Restored
      <3>2. registry'[at[p]].over = before[p].over
        BY <1>0, <3>1, Wrote
      <3> QED
        BY <1>a, <2>1, <3>1, <3>2 DEF Finds, HasRead, Snapshot, Changing
    <2> QED
      BY <1>0, <1>2, <2>2, <2>3, <2>4, <2>5, <2>6, <2>7, <2>8 DEF Step, Refresh, Change, Active,
         Refreshing, Changing, Goes, Looks,
        RefreshSkips, RefreshFindsNothing, RefreshReads, RefreshSetsOverrides, RefreshStamps, Returns, After, Watcher, Begins,
        ReadsOverrides, UndoesSkills, Stores
  <1>3. CASE pc[p] \notin Active /\ pc'[p] \in Active
    <2>1. CASE RefreshSetsOverrides(p)
      <3>1. pc[p] = "loaded" /\ pc'[p] = "half" /\ UNCHANGED <<versions, seen>> /\ SetOverrides(p, Snapshot(seen[p]))
        BY <1>0, <2>1 DEF RefreshSetsOverrides, Goes
      <3>2. Snapshot(seen[p]) \in Snapshots
        <4>1. seen[p] \in 0..Len(versions)
          BY <3>1 DEF Numbers, TypeOK
        <4> QED
          BY <4>1, SnapshotType
      <3>3. registry'[at[p]].over = Snapshot(seen[p]).over
        BY <3>1, <3>2, Wrote
      <3> QED
        BY <1>a, <3>1, <3>3 DEF Finds, Snapshot, Changing
    <2>2. CASE ReadsOverrides(p)
      <3>1. pc[p] = "before" /\ pc'[p] = "torn" /\ UNCHANGED <<versions, registry, version, overlapped>>
        BY <1>0, <2>2 DEF ReadsOverrides, Goes
      <3>2. before'[p].over = registry[at[p]].over
        BY <1>0, <2>2 DEF ReadsOverrides, Snapshots
      <3>3. seen'[p] = IF at[p] \in overlapped THEN None ELSE version[at[p]]
        BY <1>0, <2>2 DEF ReadsOverrides
      <3>4. Others(p) = {}
        BY <1>3, Meets
      <3>5. \A q \in Processes : at[q] = at[p] => pc[q] \notin Writing
        BY <1>3, <3>4 DEF Others, Writing, Active
      <3>6. Faithful(at[p])
        BY <1>0, <3>5 DEF Rests
      <3> QED
        BY <1>a, <3>1, <3>2, <3>3, <3>6 DEF Finds, Faithful, Snapshot
    <2> QED
      BY <1>0, <1>3, <2>1, <2>2 DEF Step, Refresh, Change, Active, Refreshing, Changing, Goes,
         Looks,
        RefreshSkips, RefreshFindsNothing, RefreshReads, RefreshSetsSkills, RefreshStamps, Returns, After, Watcher, Begins,
        ReadsSkills, AppliesOverrides, AppliesSkills, Persists, PersistFails, UndoesOverrides, UndoesSkills, Stores
  <1> QED
    BY <1>1, <1>2, <1>3

\* Both together.
LEMMA UndisturbedStep ==
  ASSUME TypeOK, Kept, Numbers, Alone, Rests, Undisturbed, NEW p \in Processes, Step(p)
  PROVE  Undisturbed'
  BY FindsOther, FindsOwn DEF Undisturbed

\* A row that nobody met and that follows what was read says what changed.
LEMMA AuditStep ==
  ASSUME TypeOK, Numbers, Undisturbed, AuditTellsTheChange, NEW p \in Processes, Step(p)
  PROVE  AuditTellsTheChange'
  <1> DEFINE N == Len(versions)
  <1>0. N \in Nat
    BY DEF TypeOK
  <1>1. \A n \in 1..N : /\ versions'[n] = versions[n] /\ Snapshot(n - 1)' = Snapshot(n - 1)
    <2>1. \A n \in 1..N : n - 1 \in 0..N
      BY <1>0
    <2> QED
      BY <2>1, Appended
  <1>2. CASE versions' = versions
    BY <1>1, <1>2 DEF AuditTellsTheChange
  <1>3. CASE Commits(p) /\ pc[p] = "persist"
    <2>1. Len(versions') = N + 1 /\ versions'[N + 1] = Record(p)
      BY <1>3, CommitType
    <2>2. ASSUME ~Record(p).stale PROVE Record(p).diff = Diff(Snapshot(N), Record(p).snapshot)
      <3>1. seen[p] = N /\ p \notin disturbed
        BY <2>2 DEF Record, Latest
      <3>2. before[p] = Snapshot(N)
        BY <1>0, <1>3, <3>1, Parts DEF Undisturbed, Finds, HasRead, Changing
      <3> QED
        BY <3>2 DEF Record
    <2> SUFFICES ASSUME NEW n \in 1..(N + 1)
                 PROVE  versions'[n].stale \/ versions'[n].diff = Diff(Snapshot(n - 1)', versions'[n].snapshot)
      BY <2>1 DEF AuditTellsTheChange, Diff
    <2>3. CASE n \in 1..N
      BY <1>1, <2>3 DEF AuditTellsTheChange
    <2>4. CASE n = N + 1
      <3>1. n - 1 = N /\ n - 1 \in 0..N
        BY <1>0, <2>4
      <3>2. Snapshot(n - 1)' = Snapshot(n - 1)
        BY <3>1, Appended
      <3>3. Snapshot(n - 1) = Snapshot(N)
        BY <3>1
      <3> HIDE DEF N
      <3> QED
        BY <2>1, <2>2, <2>4, <3>2, <3>3
    <2> QED
      BY <1>0, <2>3, <2>4
  <1> QED
    BY <1>2, <1>3, Growth

-----------------------------------------------------------------------------
\* The invariant holds of an instance that has read its file.
LEMMA Starts ==
  ASSUME Init
  PROVE  IInv
  <1>0. /\ Len(versions) = 0 /\ versions \in Seq(Versions) /\ MaxVersions \in Nat
    BY Parts DEF Init
  <1>1. at \in [Processes -> Instances]
    <2>1. \A f \in Placements : f \in [Calls -> Instances]
      BY PlacementAssumption
    <2> QED
      BY <2>1 DEF Init, Processes
  <1>2. TypeOK
    BY <1>0, <1>1, Parts DEF Init, TypeOK, Waits, Kinds
  <1>3. Kept
    BY DEF Init, Kept, OfChange, Changing
  <1>4. Numbers
    <2>1. Committed \subseteq Calls
      BY DEF Committed
    <2>2. Cardinality(Committed) \in Nat
      BY <2>1, CallsAssumption, FS_Subset, FS_CardinalityType
    <2> QED
      BY <1>0, <2>2 DEF Init, Numbers
  <1>5. Alone
    BY DEF Init, Alone, Active, Refreshing, Changing
  <1>6. Rests
    BY DEF Init, Rests, Faithful, Snapshot
  <1>7. Undisturbed
    BY DEF Init, Undisturbed, Finds, Changing
  <1>8. AuditTellsTheChange
    BY <1>0 DEF AuditTellsTheChange
  <1> QED
    BY <1>2, <1>3, <1>4, <1>5, <1>6, <1>7, <1>8 DEF IInv

\* Every step keeps the invariant.
LEMMA Inductive ==
  ASSUME IInv, [Next]_vars
  PROVE  IInv'
  <1>1. CASE Next
    <2>1. PICK p \in Processes : Step(p)
      BY <1>1, Steps
    <2> QED
      BY <2>1, TypeStep, KeptStep, NumbersStep, AloneStep, RestsStep, UndisturbedStep, AuditStep
         DEF IInv
  <1>2. CASE UNCHANGED vars
    <2>1. UNCHANGED <<versions, registry, version, refreshing, notices, pc, at, kind, before, target, seen, disturbed, overlapped>>
      BY <1>2 DEF vars, work, past
    <2>2. TypeOK' /\ Kept' /\ Numbers'
      BY <2>1 DEF IInv, TypeOK, Kept, Numbers, Committed
    <2>3. Alone' /\ Rests' /\ Undisturbed' /\ AuditTellsTheChange'
      BY <2>1 DEF IInv, Alone, Rests, Faithful, Undisturbed, Finds, HasRead,
         AuditTellsTheChange, Snapshot
    <2> QED
      BY <2>2, <2>3 DEF IInv
  <1> QED
    BY <1>1, <1>2

\* IInv is an invariant of the specification.
THEOREM Invariant == Spec => []IInv
  BY Starts, Inductive, PTL DEF Spec

\* Every variable keeps its type.
THEOREM TypeCorrect == Spec => []TypeOK
  <1>1. IInv => TypeOK
    BY DEF IInv
  <1> QED
    BY <1>1, Invariant, PTL

\* With nothing under way nobody writes.
LEMMA QuietRests ==
  ASSUME IInv
  PROVE  DivergedOnlyByOverlap
  <1>1. \A i \in Instances : Quiet(i) => \A p \in Processes : at[p] = i => pc[p] \notin Writing
    BY DEF Quiet, Waits, Writing, Active, Refreshing, Changing
  <1> QED
    BY <1>1 DEF IInv, Rests, Faithful, DivergedOnlyByOverlap

\* An instance at rest runs the version it says it runs, unless a change or a
\* refresh met another writer there (runtime_config.go), and the audit of a
\* version says what the change changed, unless it was met or lost a race.
THEOREM Truthful == Spec => []VersionsTellTheTruth
  <1>1. IInv => VersionsTellTheTruth
    BY QuietRests DEF IInv, VersionsTellTheTruth
  <1> QED
    BY <1>1, Invariant, PTL
=============================================================================

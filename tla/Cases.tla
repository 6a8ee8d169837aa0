--------------------------------- MODULE Cases ---------------------------------
(***************************************************************************)
(* The diagnosis case library of the agent (core/case_library.go,          *)
(* core/run_feedback.go, core/management_query.go): a completed run is     *)
(* turned into a case by a background extraction, kept in the cache of the *)
(* instance that ran it and in the table; the user's verdict "not useful"  *)
(* on the run withdraws the case, on the instance that takes the verdict.  *)
(*                                                                         *)
(* What is hard here: the verdict may come while the extraction is         *)
(* anywhere, the withdrawal itself is three steps the last of which is a   *)
(* background statement that may fail, the mark that stops a late          *)
(* extraction is a bounded set in memory, the warm-up of a starting        *)
(* instance reads the table and replaces the whole cache later, and every  *)
(* instance has a cache and a mark set of its own.                         *)
(*                                                                         *)
(* A case is named by its run: recordDiagnosisCase is called once, by the  *)
(* instance that finished the run (core/service.go:1045).                  *)
(***************************************************************************)
EXTENDS VectorCache

CONSTANTS Instances, Runs, Symptoms,
          SymptomOf,        \* [Runs -> Symptoms]: agent type, cluster, symptom
          HomeOf,           \* [Runs -> Instances]: the instance that runs it
          Queries,          \* questions: [like, tags : [Runs -> Nat], limit : Nat]
          CaseCacheSize,    \* the cache, and the limit of both warm-up lists
          SuppressCapacity, \* SUPPRESSED_CASE_RUNS_CAPACITY
          MaxFailures,      \* bound: statements and calls that fail
          MaxRestarts,      \* bound: restarts of an instance
          Slots,            \* MAX_BACKGROUND_LLM_CONCURRENCY, per instance
          MaxWithdrawals,   \* bound: verdicts and deletions by hand
          WithCases         \* the values AGENT CaseLibrary may have

ASSUME CaseConstants ==
    /\ SymptomOf \in [Runs -> Symptoms] /\ HomeOf \in [Runs -> Instances]
    /\ CaseCacheSize \in Nat \ {0} /\ SuppressCapacity \in Nat \ {0}
    /\ MaxFailures \in Nat /\ MaxRestarts \in Nat
    /\ Slots \in Nat \ {0} /\ MaxWithdrawals \in Nat
    /\ \A q \in Queries : q.like \in [Runs -> Nat] /\ q.tags \in [Runs -> Nat]
                           /\ q.limit \in Nat
    /\ WithCases \subseteq BOOLEAN /\ WithCases # {}

VARIABLES
    caseLibrary, \* caseLibraryEnabled, for the life of the system
    built,       \* the cases ever built, newest first (created_at)
    rows,        \* the runs with a row in agent_diagnosis_case
    marked,      \* agent_run_feedback with useful = false, newest first
    store,       \* store[i]: the caseStore of instance i
    suppressed,  \* suppressed[i]: suppressedCaseRuns, oldest first
    extract,     \* extract[r]: the extraction of r
    purges,      \* the withdrawals under way
    warm,        \* warm[i]: the warm-up of i
    failures, restarts, withdrawals,
    \* History, read by no action:
    late,        \* <<i, r>>: r was withdrawn at i during its warm-up
    loose        \* runs whose row may outlive the verdict, see RowsFollowVerdict

cvars == <<caseLibrary, built, rows, marked, store, suppressed, extract,
           purges, warm, failures, restarts, withdrawals, late, loose>>

\* A case takes the place of the one of its symptom.
CaseStore == NewBoundedCache(CaseCacheSize, SymptomOf)

CaseEntries == [item : Runs, vec : BOOLEAN]

Stages == {"running", "extracting", "embedding", "checked", "added", "created", "done"}

PurgeStages == {"suppress", "remove", "delete"}

\* A withdrawal: by the feedback or the extraction (async), or by the
\* management page, which waits for its DELETE.
Purge(i, r, stage) == [at |-> i, run |-> r, stage |-> stage]

NewBoundedStringSet == <<>>

Idle == [stage |-> "done", items |-> <<>>]

CasesTypeOK ==
    /\ caseLibrary \in BOOLEAN
    /\ built \in Seq(Runs) /\ marked \in Seq(Runs)
    /\ rows \subseteq Runs /\ loose \subseteq Runs
    /\ \A i \in Instances :
          /\ store[i].size \in 0 .. CaseCacheSize
          /\ store[i].head \in 0 .. CaseCacheSize - 1
          /\ suppressed[i] \in Seq(Runs) /\ Len(suppressed[i]) <= SuppressCapacity
          /\ warm[i].stage \in {"list", "marks", "replace", "done"}
          /\ warm[i].items \in Seq(Runs)
    /\ extract \in [Runs -> [at : Instances \cup {"nowhere"}, stage : Stages,
                             vec : BOOLEAN]]
    /\ \A p \in purges : p.at \in Instances /\ p.run \in Runs /\ p.stage \in PurgeStages
    /\ failures \in 0 .. MaxFailures /\ restarts \in 0 .. MaxRestarts
    /\ withdrawals \in 0 .. MaxWithdrawals
    /\ late \subseteq Instances \X Runs

\* Every instance has started on empty tables.
CasesInit ==
    /\ caseLibrary \in WithCases
    /\ built = <<>> /\ rows = {} /\ marked = <<>>
    /\ store = [i \in Instances |-> CaseStore]
    /\ suppressed = [i \in Instances |-> NewBoundedStringSet]
    /\ extract = [r \in Runs |-> [at |-> "nowhere", stage |-> "running", vec |-> FALSE]]
    /\ purges = {}
    /\ warm = [i \in Instances |-> Idle]
    /\ failures = 0 /\ restarts = 0 /\ withdrawals = 0 /\ late = {} /\ loose = {}

------------------------------------------------------------------------------
(* The set of marks (application/internal/cache/stringset.go).             *)

Holds(set, r) == \E n \in DOMAIN set : set[n] = r

\* Known already: no second place.  Full: the oldest mark goes.
Mark(set, r) ==
    IF Holds(set, r) THEN set
    ELSE Append(IF Len(set) = SuppressCapacity THEN Tail(set) ELSE set, r)

\* The marks of a whole list, in its order.
MarkAll(set, list) ==
    LET after[n \in 0 .. Len(list)] ==
            IF n = 0 THEN set ELSE Mark(after[n - 1], list[n])
    IN  after[Len(list)]

------------------------------------------------------------------------------
(* Extraction (recordDiagnosisCase).  No run of a short answer and no run  *)
(* that failed gets here: they stay "running" for ever.                    *)

At(r, stage) == caseLibrary /\ extract[r].stage = stage

\* An extraction that has ended.
Over == [at |-> "nowhere", stage |-> "done", vec |-> FALSE]

End(r) == extract' = [extract EXCEPT ![r] = Over]

\* The database or the embedding provider fails, once more.
Failing == failures < MaxFailures /\ failures' = failures + 1

To(r, stage) == extract' = [extract EXCEPT ![r].stage = stage]

\* The run completes and its extraction gets a slot.  One that waits
\* for a slot in vain gives up after five seconds, as in ExtractFails.
RecordDiagnosisCase(r) ==
    /\ At(r, "running")
    /\ Cardinality({q \in Runs : extract[q].at = HomeOf[r]}) < Slots
    /\ extract' = [extract EXCEPT ![r] = [@ EXCEPT !.at = HomeOf[r], !.stage = "extracting"]]
    /\ UNCHANGED <<caseLibrary, withdrawals, built, rows, marked, store, suppressed,
                   purges, warm, failures, restarts, late, loose>>

\* The call failed, or its answer has no
\* symptom: no case.
ExtractFails(r) ==
    /\ At(r, "extracting")
    /\ Failing
    /\ End(r)
    /\ UNCHANGED <<caseLibrary, withdrawals, built, rows, marked, store, suppressed,
                   purges, warm, restarts, late, loose>>

\* buildDiagnosisCase: the case has its time of creation.
BuildDiagnosisCase(r) ==
    /\ At(r, "extracting")
    /\ built' = <<r>> \o built
    /\ To(r, "embedding")
    /\ UNCHANGED <<caseLibrary, withdrawals, rows, marked, store, suppressed,
                   purges, warm, failures, restarts, late, loose>>

\* The embedding answers or not; then the marks are looked at, and a run
\* that has been withdrawn meanwhile gives no case.
EmbedAndCheck(r) ==
    /\ At(r, "embedding")
    /\ IF Holds(suppressed[extract[r].at], r) THEN End(r) /\ UNCHANGED failures
       ELSE \E vec \in BOOLEAN :
               /\ extract' = [extract EXCEPT ![r] =
                                [@ EXCEPT !.vec = vec, !.stage = "checked"]]
               /\ IF vec THEN UNCHANGED failures ELSE Failing
    /\ UNCHANGED <<caseLibrary, withdrawals, built, rows, marked, store, suppressed,
                   purges, warm, restarts, late, loose>>

AddCase(r) ==
    /\ At(r, "checked")
    /\ store' = [store EXCEPT ![extract[r].at] =
                    Add(@, [item |-> r, vec |-> extract[r].vec])]
    /\ To(r, "added")
    /\ UNCHANGED <<caseLibrary, withdrawals, built, rows, marked, suppressed,
                   purges, warm, failures, restarts, late, loose>>

\* A failed INSERT is logged, and the case stays in the cache.
CreateDiagnosisCase(r) ==
    /\ At(r, "added")
    /\ To(r, "created")
    /\ \/ rows' = rows \cup {r} /\ UNCHANGED failures
       \/ Failing /\ UNCHANGED rows
    /\ UNCHANGED <<caseLibrary, withdrawals, built, marked, store, suppressed,
                   purges, warm, restarts, late, loose>>

\* The second look at the marks: a verdict that came in between may have
\* swept the cache and the table before the case was there.
Recheck(r) ==
    /\ At(r, "created")
    /\ End(r)
    /\ IF Holds(suppressed[extract[r].at], r)
       THEN /\ purges' = purges \cup {Purge(extract[r].at, r, "suppress")}
            /\ UNCHANGED loose
       ELSE /\ UNCHANGED purges
            /\ loose' = IF Holds(marked, r) THEN loose \cup {r} ELSE loose
    /\ UNCHANGED <<caseLibrary, withdrawals, built, rows, marked, store, suppressed,
                   warm, failures, restarts, late>>

------------------------------------------------------------------------------
(* The verdict and the withdrawal.                                         *)

\* Bound: MaxWithdrawals of them, one after the other.
OneMore == purges = {} /\ withdrawals < MaxWithdrawals /\ withdrawals' = withdrawals + 1

\* One verdict per run: the unique index of agent_run_feedback.
CreateRunFeedback(r) == ~Holds(marked, r) /\ marked' = <<r>> \o marked

\* At any time in the life of the run and on any instance; a verdict "useful"
\* changes nothing here.  purgeDiagnosisCase is called by the same request, after the
\* commit.
SubmitRunFeedback(i, r) ==
    /\ caseLibrary
    /\ CreateRunFeedback(r) /\ OneMore
    /\ purges' = purges \cup {Purge(i, r, "suppress")}
    /\ UNCHANGED <<caseLibrary, built, rows, store, suppressed, extract, warm,
                   failures, restarts, late, loose>>

PurgeTo(p, stage) == purges' = (purges \ {p}) \cup {[p EXCEPT !.stage = stage]}

SuppressRun(p) ==
    /\ p \in purges /\ p.stage = "suppress"
    /\ suppressed' = [suppressed EXCEPT ![p.at] = Mark(@, p.run)]
    /\ PurgeTo(p, "remove")
    /\ UNCHANGED <<caseLibrary, withdrawals, built, rows, marked, store, extract, warm,
                   failures, restarts, late, loose>>

\* From here on the next prompt does not have the case; the DELETE is left
\* to the background (purgeDiagnosisCase).
RemoveFromStore(p) ==
    /\ p \in purges /\ p.stage = "remove"
    /\ store' = [store EXCEPT ![p.at] = RemoveMatching(@, {p.run})]
    /\ late' = IF warm[p.at].stage # "done" THEN late \cup {<<p.at, p.run>>} ELSE late
    /\ PurgeTo(p, "delete")
    /\ UNCHANGED <<caseLibrary, withdrawals, built, rows, marked, suppressed, extract, warm,
                   failures, restarts, loose>>

\* A failed DELETE is logged and not tried again.
DeleteDiagnosisCaseByRunID(p) ==
    /\ p \in purges /\ p.stage = "delete"
    /\ purges' = purges \ {p}
    /\ \/ rows' = rows \ {p.run} /\ UNCHANGED <<failures, loose>>
       \/ /\ Failing
          /\ loose' = loose \cup {p.run}
          /\ UNCHANGED rows
    /\ UNCHANGED <<caseLibrary, withdrawals, built, marked, store, suppressed, extract, warm,
                   restarts, late>>

\* The management page withdraws a case it lists, by the same three steps,
\* without a verdict of the user.
ManagementDelete(i, r) ==
    /\ caseLibrary /\ r \in rows
    /\ ~Holds(suppressed[i], r) /\ OneMore
    /\ purges' = purges \cup {Purge(i, r, "suppress")}
    /\ UNCHANGED <<caseLibrary, built, rows, marked, store, suppressed, extract,
                   warm, failures, restarts, late, loose>>

------------------------------------------------------------------------------
(* The warm-up of an instance (loadDiagnosisCases), and its end.           *)

\* ListRecentDiagnosisCases: the newest rows.
WarmList(i) ==
    /\ warm[i].stage = "list"
    /\ \/ /\ warm' = [warm EXCEPT ![i] =
                [stage |-> "marks",
                 items |-> LET recent == Only(built, rows)
                           IN  IF Len(recent) <= CaseCacheSize THEN recent
                               ELSE SubSeq(recent, 1, CaseCacheSize)]]
          /\ UNCHANGED failures
       \/ /\ Failing
          /\ warm' = [warm EXCEPT ![i] = Idle]
    /\ UNCHANGED <<caseLibrary, withdrawals, built, rows, marked, store, suppressed, extract,
                   purges, restarts, late, loose>>

\* A mutant of the next definition: the verdicts become marks and filter nothing.
WarmUnfiltered(i) ==
    /\ warm[i].stage = "marks"
    /\ suppressed' = [suppressed EXCEPT ![i] = MarkAll(@, marked)]
    /\ warm' = [warm EXCEPT ![i].stage = "replace"]
    /\ UNCHANGED <<caseLibrary, withdrawals, built, rows, marked, store, extract,
                   purges, failures, restarts, late, loose>>

\* loadSuppressedCaseRuns: the newest verdicts are marks of this instance
\* from now on, and their cases are left out.  When the query fails nothing
\* is left out.
WarmMarks(i) ==
    /\ warm[i].stage = "marks"
    /\ \/ LET known == SubSeq(marked, 1, IF Len(marked) < CaseCacheSize THEN Len(marked)
                                         ELSE CaseCacheSize)
          IN  /\ suppressed' = [suppressed EXCEPT ![i] = MarkAll(@, known)]
              /\ warm' = [warm EXCEPT ![i] =
                    [stage |-> "replace",
                     items |-> Only(@.items, {r \in Runs : ~Holds(known, r)})]]
              /\ UNCHANGED failures
       \/ /\ Failing
          /\ warm' = [warm EXCEPT ![i].stage = "replace"]
          /\ UNCHANGED suppressed
    /\ UNCHANGED <<caseLibrary, withdrawals, built, rows, marked, store, extract,
                   purges, restarts, late, loose>>

\* warmupCaseVectors, one batch with its vectors or without, and then the
\* whole cache is replaced, with whatever was added since the list was read.
WarmReplace(i) ==
    /\ warm[i].stage = "replace"
    /\ \E vec \in BOOLEAN :
          /\ store' = [store EXCEPT ![i] = Replace(@,
                [n \in DOMAIN warm[i].items |-> [item |-> warm[i].items[n], vec |-> vec]])]
          /\ IF vec THEN UNCHANGED failures ELSE Failing
    /\ warm' = [warm EXCEPT ![i] = Idle]
    /\ UNCHANGED <<caseLibrary, withdrawals, built, rows, marked, suppressed, extract,
                   purges, restarts, late, loose>>

\* The instance stops or crashes and starts again: its cache, its marks and
\* its background work are gone.  A withdrawal that had not reached its
\* DELETE leaves the row.
Restart(i) ==
    /\ restarts < MaxRestarts
    /\ restarts' = restarts + 1
    /\ store' = [store EXCEPT ![i] = CaseStore]
    /\ suppressed' = [suppressed EXCEPT ![i] = NewBoundedStringSet]
    /\ extract' = [r \in Runs |->
                      IF extract[r].at = i THEN Over ELSE extract[r]]
    /\ purges' = {p \in purges : p.at # i}
    /\ loose' = loose \cup {p.run : p \in {q \in purges : q.at = i}}
                      \cup {r \in Runs : extract[r].at = i /\ extract[r].stage = "created"
                                         /\ Holds(marked, r)}
    /\ late' = {pair \in late : pair[1] # i}
    /\ warm' = [warm EXCEPT ![i] = [Idle EXCEPT !.stage = IF caseLibrary THEN "list" ELSE @]]
    /\ UNCHANGED <<caseLibrary, withdrawals, built, rows, marked, failures>>

------------------------------------------------------------------------------
(* Retrieval (caseFewShotPromptSection), a read of the cache.              *)

\* The likeness of the question to the case counts from MinScore = 1, and a
\* case of another agent type or cluster is nothing like it at all.
CandidateCases(i, q) ==
    Only(Snapshot(store[i]),
         {e \in CaseEntries : q.like[e.item] > 0 \/ q.tags[e.item] > 0})

KeywordCaseMatch(entries, q) ==
    TopKByVector(entries, q.tags, q.limit, 1)

\* By vector when the question has one and an entry with a vector is near
\* enough, by keyword otherwise.
SimilarCases(i, q, embedded) ==
    LET near == TopKByVector(Only(CandidateCases(i, q), {e \in CaseEntries : e.vec}),
                             q.like, q.limit, 1)
    IN  IF embedded /\ near # <<>> THEN near
        ELSE KeywordCaseMatch(CandidateCases(i, q), q)

FewShot(i, q, embedded) ==
    LET matched == SimilarCases(i, q, embedded)
    IN  {matched[n].item : n \in DOMAIN matched}

------------------------------------------------------------------------------
ExtractStep(r) ==
    \/ RecordDiagnosisCase(r)
    \/ ExtractFails(r)
    \/ BuildDiagnosisCase(r)
    \/ EmbedAndCheck(r)
    \/ AddCase(r)
    \/ CreateDiagnosisCase(r)
    \/ Recheck(r)

CasesNext ==
    \/ \E i \in Instances, r \in Runs :
          \/ SubmitRunFeedback(i, r)
          \/ ManagementDelete(i, r)
    \/ \E r \in Runs : ExtractStep(r)
    \/ \E p \in purges : \/ SuppressRun(p)
                         \/ RemoveFromStore(p)
                         \/ DeleteDiagnosisCaseByRunID(p)
    \/ \E i \in Instances : \/ WarmList(i)
                            \/ WarmMarks(i)
                            \/ WarmReplace(i)
                            \/ Restart(i)

CasesSpec == CasesInit /\ [][CasesNext]_cvars

------------------------------------------------------------------------------
(* Properties.                                                             *)

\* No extraction, withdrawal or warm-up is under way.
CasesQuiet ==
    /\ \A r \in Runs : extract[r].stage \in {"running", "done"}
    /\ purges = {}
    /\ \A i \in Instances : warm[i].stage = "done"

\* On an instance that knows of the withdrawal, no prompt gets the case any
\* more, however its extraction, its verdict and the warm-up interleaved.
\* The one way back is a withdrawal during the warm-up, whose list may be
\* from before the DELETE (or the DELETE failed): it replaces the cache without another look at the
\* marks (case_library.go:202-208), and the case stays until the next start.
WithdrawnStaysOut ==
    CasesQuiet =>
        \A i \in Instances, r \in Runs :
            /\ Holds(suppressed[i], r)
            /\ <<i, r>> \notin late
            => \A q \in Queries, embedded \in BOOLEAN : r \notin FewShot(i, q, embedded)

\* A run found not useful has no row in the end, so that no later start
\* finds it, but for three causes: a DELETE that failed, a restart between
\* the verdict and its DELETE (or between INSERT and second look), and an
\* extraction whose instance does not know of the verdict, because another
\* one took it or because the mark was pushed out (case_library.go:329).
RowsFollowVerdict ==
    CasesQuiet /\ caseLibrary =>
        \A r \in Runs : Holds(marked, r) /\ r \in rows => r \in loose

\* A negative verdict holds, in the caches and in the table.
VerdictsHold == WithdrawnStaysOut /\ RowsFollowVerdict
=============================================================================

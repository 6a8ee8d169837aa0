------------------------------ MODULE AgentRun ------------------------------
(***************************************************************************)
(* The life of one Agent run: StreamRun and its goroutine (service.go),    *)
(* the cancel requests that reach it from any replica, the watchers of     *)
(* run_coordination.go, the two database rows it owns (the run record and  *)
(* the assistant message), and the recovery job that fails stale rows.     *)
(* Runs interact only through the concurrency slots, the subject of        *)
(* RunLimiter and RunLease, so one run is enough here.                     *)
(*                                                                         *)
(* UpdateRun and UpdateMessage are a SELECT, a test in Go and a Save, hence *)
(* two steps with the row read in between; HeartbeatRun, FailStaleRuns and *)
(* FailStaleMessages are one conditional UPDATE each, hence one step.      *)
(***************************************************************************)
EXTENDS FiniteSets

CONSTANTS
  Cancellers,   \* cancel requests, of the owner or of an administrator
  Local         \* those that the instance executing the run serves

ASSUME LocalAssumption == Local \subseteq Cancellers

VARIABLES
  pc,        \* where StreamRun, then the run goroutine, is
  ctxDone,   \* runCtx is cancelled
  active,    \* activeRuns holds the cancel function of the run
  slot,      \* a concurrency slot is taken for the run
  status,    \* run.Status, the goroutine's own copy of the record
  aborting,  \* the deferred function of run() is finishing the run
  seen,      \* the row read by the goroutine's pending UpdateRun or UpdateMessage
  record,    \* status of the run's row
  message,   \* status of the assistant message's row
  quiet,     \* the row's heartbeat is older than the stale limit
  aged,      \* the message was created longer ago than the stale limit
  signal,    \* the cancel key of the run is set in Redis
  cpc,       \* where each cancel request is
  found,     \* the status it found with GetRun
  cseen,     \* the row read by its pending UpdateRun
  answer     \* the status it answered

goroutine == <<pc, ctxDone, active, slot, status, aborting, seen>>
rows      == <<record, message, quiet, aged>>
requests  == <<cpc, found, cseen, answer>>
vars      == <<goroutine, rows, signal, requests>>

Terminal == {"COMPLETED", "FAILED", "CANCELLED"}
Records  == {"absent", "RUNNING"} \cup Terminal
Pending  == {"PENDING", "STREAMING"}
Settled  == {"COMPLETED", "FAILED"}
Messages == {"none"} \cup Pending \cup Settled

Opening == {"acquire", "prepare", "register"}
Running == {"create", "beat", "mark", "markSave", "start", "loop"}
Closing == {"update", "updateSave", "finalize", "finalizeSave"}
Leaving == {"cancel", "delete", "release"}
Over    == {"end", "rejected", "crashed"}
Asking  == {"local", "signal", "update", "save"}   \* of a cancel request

TypeOK ==
  /\ pc \in Opening \cup Running \cup Closing \cup Leaving \cup Over
  /\ ctxDone \in BOOLEAN /\ active \in BOOLEAN /\ slot \in BOOLEAN /\ aborting \in BOOLEAN
  /\ quiet \in BOOLEAN /\ aged \in BOOLEAN /\ signal \in BOOLEAN
  /\ status \in Records
  /\ seen \in Records \cup Messages
  /\ record \in Records
  /\ message \in Messages
  /\ cpc \in [Cancellers -> Asking \cup {"idle", "acked", "error", "lost"}]
  /\ found \in [Cancellers -> Records]
  /\ cseen \in [Cancellers -> Records]
  /\ answer \in [Cancellers -> Records]

Init ==
  /\ pc = "acquire"
  /\ ctxDone = FALSE /\ active = FALSE /\ slot = FALSE /\ aborting = FALSE
  /\ status = "absent" /\ seen = "absent"
  /\ record = "absent" /\ message = "none"
  /\ quiet = FALSE /\ aged = FALSE /\ signal = FALSE
  /\ cpc = [c \in Cancellers |-> "idle"]
  /\ found = [c \in Cancellers |-> "absent"]
  /\ cseen = [c \in Cancellers |-> "absent"]
  /\ answer = [c \in Cancellers |-> "absent"]

-----------------------------------------------------------------------------
\* UpdateRun and UpdateMessage, second half: the row `old` was read, `new` is to
\* be written; a terminal row is left alone unless it already has that status.
KeepsNever(old, new) == FALSE           \* mutant: the terminal guard is missing
Keeps(old, new) == old \in Terminal /\ old # new

Goto(next) == pc' = next
Forget == seen' = "absent"    \* the row read is not used any more

\* StreamRun: the slot, then the message pair of the chat session.
AcquireSlot ==
  /\ pc = "acquire"
  /\ \/ slot' = TRUE /\ Goto("prepare")
     \/ slot' \in BOOLEAN /\ Goto("rejected")   \* full, or the reply of Redis was lost
  /\ UNCHANGED <<ctxDone, active, status, aborting, seen, rows, signal, requests>>

Prepare ==
  /\ pc = "prepare"
  /\ \/ /\ message' \in {"none", "PENDING"}   \* without and with a session
        /\ Goto("register")
        /\ slot' = slot
     \/ /\ message' = message                 \* the session is not found, or the database fails
        /\ Goto("rejected")
        /\ slot' \in {slot, FALSE}
  /\ UNCHANGED <<ctxDone, active, status, aborting, seen, record, quiet, aged, signal, requests>>

\* activeRuns.Store and the watchers, before the goroutine starts.
RegisterActive == active' = TRUE

Register ==
  /\ pc = "register"
  /\ RegisterActive
  /\ Goto("create")
  /\ UNCHANGED <<ctxDone, slot, status, aborting, seen, rows, signal, requests>>

\* createRun only logs an error, and the run goes on without its row.
CreateRun ==
  /\ pc = "create"
  /\ record' \in {"absent", "RUNNING"}
  /\ status' = "RUNNING"
  /\ Goto("beat")
  /\ UNCHANGED <<ctxDone, active, slot, aborting, seen, message, quiet, aged, signal, requests>>

\* The first heartbeat is synchronous; a lost lease cancels the run.
FirstHeartbeat ==
  /\ pc = "beat"
  /\ ctxDone' \in {ctxDone, TRUE}
  /\ Goto("mark")
  /\ UNCHANGED <<active, slot, status, aborting, seen, rows, signal, requests>>

\* markRunChatContextStreaming: UpdateMessage, errors ignored.
MarkRead ==
  /\ pc = "mark"
  /\ \/ Goto("start") /\ seen' = seen
     \/ message # "none" /\ seen' = message /\ Goto("markSave")
  /\ UNCHANGED <<ctxDone, active, slot, status, aborting, rows, signal, requests>>

MarkSave ==
  /\ pc = "markSave"
  /\ message' \in IF Keeps(seen, "STREAMING") THEN {message} ELSE {message, "STREAMING"}
  /\ Forget /\ Goto("start")
  /\ UNCHANGED <<ctxDone, active, slot, status, aborting, record, quiet, aged, signal, requests>>

\* The deferred function of run(): whatever is still RUNNING becomes CANCELLED.
Abort ==
  /\ aborting' = TRUE
  /\ status' = "CANCELLED"
  /\ Goto("update")
  /\ UNCHANGED <<ctxDone, active, slot, seen, rows, signal, requests>>

\* RUN_CREATED and PLAN_CREATED; a send fails only when the context is done.
SendCreated ==
  /\ pc = "start"
  /\ Goto("loop")
  /\ UNCHANGED <<ctxDone, active, slot, status, aborting, seen, rows, signal, requests>>

SendInterrupted == pc = "start" /\ ctxDone /\ Abort

\* runLoop returns an answer or an error, possibly after the context is done,
\* or it finds the context done, or it panics.
LoopEnds ==
  /\ pc = "loop"
  /\ status' \in {"COMPLETED", "FAILED"}
  /\ Goto("update")
  /\ UNCHANGED <<ctxDone, active, slot, aborting, seen, rows, signal, requests>>

LoopInterrupted == pc = "loop" /\ ctxDone /\ Abort
LoopPanics == pc = "loop" /\ Abort

\* The last updateRun: on an error the local status stands.
UpdateRead ==
  /\ pc = "update"
  /\ \/ Goto("finalize") /\ seen' = seen
     \/ record # "absent" /\ seen' = record /\ Goto("updateSave")
  /\ UNCHANGED <<ctxDone, active, slot, status, aborting, rows, signal, requests>>

UpdateSave ==
  /\ pc = "updateSave"
  /\ IF Keeps(seen, status)
       THEN /\ record' = record
            /\ status' = IF aborting THEN status ELSE seen
       ELSE /\ record' \in {record, status}
            /\ status' = status
  /\ Forget /\ Goto("finalize")
  /\ UNCHANGED <<ctxDone, active, slot, aborting, message, quiet, aged, signal, requests>>

\* finalizeRunChatContext.
OutcomeOfAnswer(s) == IF s = "FAILED" THEN "FAILED" ELSE "COMPLETED"   \* mutant: only errors fail
Outcome(s) == IF s = "COMPLETED" THEN "COMPLETED" ELSE "FAILED"

FinalizeRead ==
  /\ pc = "finalize"
  /\ \/ Goto("cancel") /\ seen' = seen
     \/ message # "none" /\ seen' = message /\ Goto("finalizeSave")
  /\ UNCHANGED <<ctxDone, active, slot, status, aborting, rows, signal, requests>>

FinalizeSave ==
  /\ pc = "finalizeSave"
  /\ message' \in IF Keeps(seen, Outcome(status)) THEN {message} ELSE {message, Outcome(status)}
  /\ Forget /\ Goto("cancel")
  /\ UNCHANGED <<ctxDone, active, slot, status, aborting, record, quiet, aged, signal, requests>>

\* The deferred calls of the goroutine of StreamRun.
CancelForgotten ==    \* mutant: no deferred cancelRun
  /\ pc = "cancel"
  /\ Goto("delete")
  /\ UNCHANGED <<ctxDone, active, slot, status, aborting, seen, rows, signal, requests>>

CancelContext ==
  /\ pc = "cancel"
  /\ ctxDone' = TRUE
  /\ Goto("delete")
  /\ UNCHANGED <<active, slot, status, aborting, seen, rows, signal, requests>>

DeleteActive ==
  /\ pc = "delete"
  /\ active' = FALSE
  /\ Goto("release")
  /\ UNCHANGED <<ctxDone, slot, status, aborting, seen, rows, signal, requests>>

\* releaseRunSlot; a failed release is only logged.
ReleaseSlot ==
  /\ pc = "release"
  /\ slot' \in {slot, FALSE}
  /\ Goto("end")
  /\ UNCHANGED <<ctxDone, active, status, aborting, seen, rows, signal, requests>>

-----------------------------------------------------------------------------
\* What can happen to the goroutine from outside.

\* The browser closes the stream: runCtx derives from the request's context.
ClientLeaves ==
  /\ pc \notin Over
  /\ ~ctxDone
  /\ ctxDone' = TRUE
  /\ UNCHANGED <<pc, active, slot, status, aborting, seen, rows, signal, requests>>

\* The watchers live from Register until the context is done.
Watched == active /\ ~ctxDone

\* The poll of watchRunCancellation, every 3 s: the key, then the row.
SignalOnly == signal                       \* mutant: the row is not consulted
CancelRequested == signal \/ record = "CANCELLED"

Poll ==
  /\ Watched
  /\ CancelRequested
  /\ ctxDone' = TRUE
  /\ UNCHANGED <<pc, active, slot, status, aborting, seen, rows, signal, requests>>

\* The heartbeat goroutine, which ends with the context: the row's heartbeat is
\* renewed while the row is RUNNING.
Beating == pc \notin Opening \cup {"create", "beat", "rejected", "crashed"} /\ ~ctxDone

Heartbeat ==
  /\ Beating
  /\ record = "RUNNING"
  /\ quiet
  /\ quiet' = FALSE
  /\ UNCHANGED <<goroutine, record, message, aged, signal, requests>>

\* Its refresh fails or finds the lease gone.
LeaseLost ==
  /\ Beating
  /\ ctxDone' = TRUE
  /\ UNCHANGED <<pc, active, slot, status, aborting, seen, rows, signal, requests>>

\* The instance dies, with the cancel requests it was serving.
Crash ==
  /\ pc \notin Over
  /\ Goto("crashed")
  /\ active' = FALSE
  /\ ctxDone' = TRUE
  /\ cpc' = [c \in Cancellers |->
               IF c \in Local /\ cpc[c] \notin {"acked", "error"} THEN "lost" ELSE cpc[c]]
  /\ UNCHANGED <<slot, status, aborting, seen, rows, signal, found, cseen, answer>>

\* The lease of a slot nobody refreshes runs out (RunLease: PlacesComeBack).
SlotExpires ==
  /\ pc \in Over /\ ~Beating
  /\ slot
  /\ slot' = FALSE
  /\ UNCHANGED <<pc, ctxDone, active, status, aborting, seen, rows, signal, requests>>

-----------------------------------------------------------------------------
\* runAIStateRecovery: at the start of every instance and every ten minutes.

\* No heartbeat reaches the row for lease plus stale limit: the goroutine is
\* gone, stalled, or cut off from the database.
GoQuiet ==
  /\ record = "RUNNING"
  /\ ~quiet
  /\ quiet' = TRUE
  /\ UNCHANGED <<goroutine, record, message, aged, signal, requests>>

StaleOwnRun == record = "RUNNING" /\ quiet /\ pc # "crashed"   \* mutant: own rows only
StaleRun == record = "RUNNING" /\ quiet

FailStaleRuns ==
  /\ StaleRun
  /\ record' = "FAILED"
  /\ UNCHANGED <<goroutine, message, quiet, aged, signal, requests>>

\* created_at is never renewed, so every message ages.
Age ==
  /\ message \in Pending
  /\ ~aged
  /\ aged' = TRUE
  /\ UNCHANGED <<goroutine, record, message, quiet, signal, requests>>

StaleMessage == message \in Pending /\ aged

FailStaleMessages ==
  /\ StaleMessage
  /\ message' = "FAILED"
  /\ UNCHANGED <<goroutine, record, quiet, aged, signal, requests>>

-----------------------------------------------------------------------------
\* CancelRun and CancelRunForAdmin.
Step(c, next) == cpc' = [cpc EXCEPT ![c] = next]
Alive(c) == c \in Local => pc # "crashed"

\* GetRun; a missing row is answered with 404.
Find(c) ==
  /\ cpc[c] = "idle"
  /\ Alive(c)
  /\ \/ record # "absent" /\ found' = [found EXCEPT ![c] = record] /\ Step(c, "local")
     \/ found' = found /\ Step(c, "error")
  /\ UNCHANGED <<goroutine, rows, signal, cseen, answer>>

\* activeRuns.Load and the cancel function found there.
CancelLocal(c) ==
  /\ cpc[c] = "local"
  /\ ctxDone' = (ctxDone \/ (c \in Local /\ active))
  /\ Step(c, "signal")
  /\ UNCHANGED <<pc, active, slot, status, aborting, seen, rows, signal, found, cseen, answer>>

\* Signal: SET, then PUBLISH, to which a subscription that works reacts; both
\* may fail, which is only logged.  A run found terminal is answered as it is.
SendSignal(c) ==
  /\ cpc[c] = "signal"
  /\ \/ signal' = signal /\ ctxDone' = ctxDone
     \/ signal' = TRUE /\ ctxDone' \in {ctxDone, ctxDone \/ Watched}
  /\ IF found[c] \in Terminal
       THEN Step(c, "acked") /\ answer' = [answer EXCEPT ![c] = found[c]]
       ELSE Step(c, "update") /\ answer' = answer
  /\ found' = [found EXCEPT ![c] = "absent"]
  /\ UNCHANGED <<pc, active, slot, status, aborting, seen, rows, cseen>>

CancelRead(c) ==
  /\ cpc[c] = "update"
  /\ \/ record # "absent" /\ cseen' = [cseen EXCEPT ![c] = record] /\ Step(c, "save")
     \/ cseen' = cseen /\ Step(c, "error")
  /\ UNCHANGED <<goroutine, rows, signal, found, answer>>

\* The end of UpdateRun with CANCELLED; its error is returned to the caller.
AfterFailedSave == "error"

CancelSave(c) ==
  /\ cpc[c] = "save"
  /\ IF Keeps(cseen[c], "CANCELLED")
       THEN /\ Step(c, "acked") /\ answer' = [answer EXCEPT ![c] = cseen[c]]
            /\ record' = record
       ELSE \/ /\ Step(c, "acked") /\ answer' = [answer EXCEPT ![c] = "CANCELLED"]
               /\ record' = "CANCELLED"
            \/ /\ Step(c, AfterFailedSave) /\ answer' = answer
               /\ record' \in {record, "CANCELLED"}
  /\ cseen' = [cseen EXCEPT ![c] = "absent"]
  /\ UNCHANGED <<goroutine, message, quiet, aged, signal, found>>

-----------------------------------------------------------------------------
Goroutine ==
  \/ AcquireSlot \/ Prepare \/ Register \/ CreateRun \/ FirstHeartbeat
  \/ MarkRead \/ MarkSave \/ SendCreated \/ SendInterrupted
  \/ UpdateRead \/ UpdateSave \/ FinalizeRead \/ FinalizeSave
  \/ CancelContext \/ DeleteActive \/ ReleaseSlot

Surroundings ==
  \/ ClientLeaves \/ Poll \/ Heartbeat \/ LeaseLost \/ Crash \/ SlotExpires
  \/ GoQuiet \/ FailStaleRuns \/ Age \/ FailStaleMessages

CancelStep(c) == CancelLocal(c) \/ SendSignal(c) \/ CancelRead(c) \/ CancelSave(c)

Next ==
  \/ Goroutine
  \/ LoopEnds \/ LoopInterrupted \/ LoopPanics
  \/ Surroundings
  \/ \E c \in Cancellers : Find(c) \/ CancelStep(c)
  \/ pc \in Over /\ UNCHANGED vars   \* the run is over

Spec == Init /\ [][Next]_vars

\* Goroutines are scheduled; a loop whose context is done stops at its next
\* call; the polls and the recovery job come round; leases run out; and a
\* message that stays pending ages.  Nothing is assumed of requests nobody
\* sends, of the loop while its context is alive, or of the database: a fair
\* step may still be its own error branch.
Fairness ==
  /\ WF_vars(Goroutine) /\ WF_vars(LoopInterrupted)
  /\ WF_vars(Poll)
  /\ WF_vars(FailStaleRuns) /\ WF_vars(FailStaleMessages)
  /\ WF_vars(SlotExpires) /\ WF_vars(Age)
  /\ WF_vars(~Beating /\ GoQuiet)
  /\ \A c \in Cancellers : WF_vars(CancelStep(c))

FairSpec == Spec /\ Fairness

-----------------------------------------------------------------------------
\* A cancel request that was answered with success leaves a row that is
\* terminal, whoever else was writing (cancelRun, service.go:784-810).
AnsweredMeansTerminal == \A c \in Cancellers : cpc[c] = "acked" => record \in Terminal

\* agent_repository.go:138-139 as the code can keep it: a terminal row changes
\* only, to another terminal status, under a Save whose SELECT is out of date.
PendingSave ==
  \/ pc = "updateSave" /\ seen # record
  \/ \E c \in Cancellers : cpc[c] = "save" /\ cseen[c] # record

SettledUnlessRaced ==
  [][(record \in Terminal) =>
        (record' \in Terminal /\ (record' = record \/ PendingSave))]_vars

\* service.go:644-646: whoever gets past GetRun on the instance of the run
\* interrupts it at once, however early in the run: the cancel function is
\* stored before the row can be found.
LocalCancelIsImmediate ==
  \A c \in Local : cpc[c] \in {"signal", "update", "save", "acked"} => ctxDone

\* The two rows tell the same story: a chat message is completed only when the
\* run was completed in the eyes of its goroutine, whose status is the row's
\* unless the row could not be read or written.
MessageFollowsRun == message = "COMPLETED" => status = "COMPLETED"

\* What the rows say is true.
RowsTellTheTruth == AnsweredMeansTerminal /\ MessageFollowsRun

\* However the run ends, nothing goes on in its name: the cancel function is
\* forgotten, and watchers and heartbeat, which end with the context, are gone.
NothingLeftBehind == pc \in Over => ~active /\ ~Watched /\ ~Beating

\* A cancel request answered with CANCELLED stops the run, on whatever replica
\* it executes, even when the signal was lost: the poll reads the row.
CancelStops == \A c \in Cancellers :
  (cpc[c] = "acked" /\ answer[c] = "CANCELLED") ~> pc \in Over

\* A cancel request works: at once where the run is, in the end everywhere.
CancelWorks == []LocalCancelIsImmediate /\ CancelStops

\* No row and no slot is left behind by errors, panics, lost clients or crashes,
\* provided the loop ends: its steps are bounded, and every call in it has a
\* timeout.
LoopBounded == WF_vars(LoopEnds)
RecordSettles == LoopBounded => (record = "RUNNING" ~> record \in Terminal)
MessageSettles == LoopBounded => (message \in Pending ~> message \in Settled)
SlotReturned == LoopBounded => (slot ~> ~slot)
EverythingSettles == RecordSettles /\ MessageSettles /\ SlotReturned

\* agent_repository.go:138: a terminal status is written only once.
TerminalOnce == [][(record \in Terminal) => (record' = record)]_vars

\* bootstrap.go:1099-1101: the recovery job fails what a process left behind that
\* restarted or crashed, so not the message of a run whose loop is executing.
OnlyOrphansFailed ==
  [][(message \in Pending /\ message' = "FAILED") => ~(pc = "loop" /\ Beating /\ ~quiet)]_vars

\* service.go:644-646: CancelRun can interrupt an active run also before its row
\* is there.
ActiveIsFound ==
  [][\A c \in Local : active /\ record = "absent" /\ cpc[c] = "idle" => cpc'[c] # "error"]_vars

-----------------------------------------------------------------------------
\* The inductive invariant behind the safety properties.

\* The row is there for whoever has read it, and a terminal status that was
\* read tells that the row is terminal for good.
RowOnceRead ==
  /\ pc \in Opening \cup {"create", "rejected"} => record = "absent"
  /\ pc = "updateSave" => record # "absent" /\ (seen \in Terminal => record \in Terminal)
  /\ pc \in {"update", "updateSave"} => status \in Terminal
  /\ \A c \in Cancellers :
       /\ cpc[c] \in Asking => record # "absent"
       /\ cpc[c] \in {"local", "signal"} => (found[c] \in Terminal => record \in Terminal)
       /\ cpc[c] = "save" => (cseen[c] \in Terminal => record \in Terminal)

\* The cancel function is stored exactly while the goroutine has not cancelled
\* its context by itself.
StoredWhileRunning ==
  /\ pc \in Running \cup Closing \cup {"cancel"} => active
  /\ pc \in {"delete", "release", "end", "crashed"} => ctxDone
  /\ pc \in Opening \cup {"release"} \cup Over => ~active

\* The message is completed at the end only, after which the status is settled.
CompletedLast ==
  message = "COMPLETED" => pc \in Leaving \cup Over /\ status = "COMPLETED"

IInv ==
  /\ TypeOK
  /\ RowOnceRead
  /\ StoredWhileRunning
  /\ CompletedLast
  /\ AnsweredMeansTerminal
  /\ LocalCancelIsImmediate
=============================================================================

------------------------------ MODULE ChatStream ------------------------------
(***************************************************************************)
(* One message of the AI chat (module/ai): StreamMessage and its goroutine *)
(* or CreateMessage, over the LLM client; cancel requests on this and on   *)
(* other instances; the watchers; the title generator; the user who        *)
(* renames or deletes the session; the client that stalls or leaves; the   *)
(* recovery job and a crash of the instance.                               *)
(*                                                                         *)
(* UpdateMessage reads the row, tests it in Go and saves it: two steps,    *)
(* with the row read in `seen`.  The session row is written without such   *)
(* a test; what matters of it is the title and who holds an old copy.      *)
(* Every call of the database or of Redis may fail.  The channel to the    *)
(* client has 16 places: a client that does not read is "stalled" once     *)
(* they are full.                                                          *)
(***************************************************************************)
EXTENDS LlmClient, ChatHistory

CONSTANTS
  Histories,     \* what the session may hold before this message
  Cancellers,    \* cancel requests for the message
  Stream         \* the goroutine of StreamMessage

ASSUME WritersAssumption == Stream \notin Cancellers /\ Stream # "titler"
ASSUME HistoriesAssumption == Histories \subseteq Seq(ChatMessages)

Writers == Cancellers \cup {Stream}

VARIABLES
  mode,        \* "stream" or "create"
  pc,          \* where StreamMessage or CreateMessage is
  row,         \* the assistant's message: its status and why it failed
  seen,        \* what UpdateMessage's SELECT returned to each writer
  why,         \* the error a failing stream stores
  browser,     \* the client: "reading", "stalled", "gone"
  active,      \* activeStreams holds the cancel function
  local,       \* the cancel requests served by the instance of the stream
  cpc,         \* where each cancel request is
  signal,      \* the cancel key is set in Redis
  unsignalled, \* a Signal failed
  session,     \* the session row: "none", "live" or "deleted"
  history,     \* its messages, until they are in the request
  title,       \* its title: automatic, by the LLM, by the user
  copy,        \* the title in the copy of the session that a writer holds
  titler       \* where the title goroutine is

message == <<row, seen, why>>
control == <<mode, browser, active>>
cancels == <<local, cpc, signal, unsignalled>>
chat == <<session, title, copy, titler, history>>
vars == <<streamDone, client, pc, message, control, cancels, chat>>

Absent == [status |-> "absent", cause |-> "none"]
Row(status, cause) == [status |-> status, cause |-> cause]
Terminal == {"COMPLETED", "FAILED"}
Unfinished == {"PENDING", "STREAMING"}
Rows == {Absent} \cup [status : Unfinished \cup Terminal, cause : {"none", "cancelled", "other"}]
Titles == {"auto", "llm", "user"}

\* The places of the stream at which UpdateMessage reads and saves, with the
\* status it saves.
Saving == [save |-> "mark", saveDone |-> "complete", saveFailed |-> "fail", saveDropped |-> "drop"]
Over == {"idle", "rejected", "returned", "crashed"}
Places == Over \cup DOMAIN Saving
          \cup {"append", "store", "mark", "announce", "open", "consume", "complete",
                "summary", "tell", "fail", "tellFailed", "drop", "end", "generate"}

TypeOK ==
  /\ LlmTypeOK
  /\ mode \in {"stream", "create"}
  /\ pc \in Places
  /\ row \in Rows /\ seen \in [Writers -> Rows]
  /\ why \in {"none", "cancelled", "other"}
  /\ browser \in {"reading", "stalled", "gone"}
  /\ active \in BOOLEAN
  /\ local \in SUBSET Cancellers
  /\ cpc \in [Cancellers -> {"idle", "stop", "signal", "update", "save", "answered", "error"}]
  /\ signal \in BOOLEAN /\ unsignalled \in BOOLEAN
  /\ session \in {"none", "live", "deleted"}
  /\ history \in Histories \cup {<<>>}
  /\ title \in Titles /\ copy \in [{Stream, "titler"} -> Titles]
  /\ titler \in {"off", "generate", "read", "write"}

NoCopy == [w \in {Stream, "titler"} |-> "auto"]     \* of goroutines that are gone

Init ==
  /\ LlmInit
  /\ mode \in {"stream", "create"}
  /\ pc = "idle"
  /\ row = Absent /\ seen = [w \in Writers |-> Absent]
  /\ why = "none"
  /\ browser = "reading"
  /\ active = FALSE
  /\ local \in SUBSET Cancellers
  /\ cpc = [c \in Cancellers |-> "idle"]
  /\ signal = FALSE /\ unsignalled = FALSE
  /\ session = "none"
  /\ history \in Histories
  /\ title = "auto"
  /\ copy = NoCopy
  /\ titler = "off"

\* mapAssistantError and userFacingAssistantError: only a cancelled context gives the
\* text that messageCancelRequested looks for.
CauseOf(err) == IF err = "cancelled" THEN "cancelled" ELSE "other"

Gone == browser = "gone"
Go(place) == pc' = place
StreamOnly(place) == pc = place /\ UNCHANGED <<mode, cancels>>

\* A default title, or one that titleForMessage cut from the message.
IsAutoTitle(t) == t = "auto"
MaybeGenerateTitle(t) == IF IsAutoTitle(t) THEN "generate" ELSE "off"

\* The watchers live as long as streamCtx.
Watching == active /\ ~streamDone

-----------------------------------------------------------------------------
(* The session row. *)

GetSession == session = "live"
UpdateSession(t) == session = "live" /\ title' = t

CreateSession ==
  /\ session = "none"
  /\ session' = "live" /\ title' \in {"auto", "user"}
  /\ UNCHANGED <<streamDone, client, pc, message, control, cancels, copy, titler, history>>

\* UpdateSession and DeleteSession on behalf of the user.
Rename ==
  /\ GetSession /\ UpdateSession("user")
  /\ UNCHANGED <<streamDone, client, pc, message, control, cancels, session, copy, titler, history>>

Delete ==
  /\ session = "live"
  /\ session' = "deleted"
  /\ UNCHANGED <<streamDone, client, pc, message, control, cancels, title, copy, titler, history>>

-----------------------------------------------------------------------------
(* UpdateMessage, by writer w, who wants to save `new`. *)

\* The SELECT joins the session, which must not be deleted.
Selected(w) == session = "live" /\ row # Absent /\ seen' = [seen EXCEPT ![w] = row]
NotSelected(w) == seen' = [seen EXCEPT ![w] = Absent]

MayOverwrite(w, new) == seen[w].status \notin Terminal \/ seen[w].status = new.status

Saved(w, new) == row' = IF MayOverwrite(w, new) THEN new ELSE row

-----------------------------------------------------------------------------
(* StreamMessage and CreateMessage, until the goroutine starts. *)

Rejected == Go("rejected")

\* A valid request, with a provider configured: GetSession, ListMessages.
Load ==
  /\ StreamOnly("idle")
  /\ \/ Rejected /\ UNCHANGED <<copy, client>>
     \/ /\ GetSession
        /\ copy' = [copy EXCEPT ![Stream] = title]
        /\ IF mode = "create" THEN Go("generate") /\ Start
           ELSE Go("append") /\ UNCHANGED client
  /\ history' = <<>>
  /\ UNCHANGED <<streamDone, message, browser, active, session, title, titler>>

\* CreateMessage waits for the whole answer; the body is read in the request.
Generated ==
  /\ StreamOnly("generate")
  /\ \/ llm = "reading" /\ Go("append") /\ llm' = "closed"
        /\ UNCHANGED <<provider, attempt, produced, queue, failure>>
     \/ llm = "failed" /\ Rejected /\ failure' = "none"
        /\ UNCHANGED <<llm, provider, attempt, produced, queue>>
  /\ UNCHANGED <<streamDone, message, browser, active, chat>>

\* AppendMessages: one transaction, which also writes the session from the copy.
AppendMessages ==
  /\ StreamOnly("append")
  /\ \/ Rejected /\ UNCHANGED <<row, title, titler>>
     \/ /\ UpdateSession(copy[Stream])
        /\ IF mode = "create"
             THEN /\ row' = Row("COMPLETED", "none") /\ Go("returned")
                  /\ titler' = MaybeGenerateTitle(title')
             ELSE row' = Row("PENDING", "none") /\ Go("store") /\ UNCHANGED titler
  /\ UNCHANGED <<streamDone, client, seen, why, browser, active, session, copy, history>>

StoreCancel ==
  /\ StreamOnly("store")
  /\ active' = TRUE
  /\ Go("mark")
  /\ UNCHANGED <<streamDone, client, message, browser, chat>>

-----------------------------------------------------------------------------
(* runMessageStream. *)

\* The three updates of the row, each a SELECT and a Save.
ReadRow(place, save, failed) ==
  /\ StreamOnly(place)
  /\ \/ Selected(Stream) /\ Go(save) /\ UNCHANGED why
     \/ NotSelected(Stream) /\ Go(failed) /\ why' = IF failed = "fail" THEN "other" ELSE "none"
  /\ UNCHANGED <<streamDone, client, row, browser, active, chat>>

MarkRead == ReadRow("mark", "save", "fail")
CompleteRead == ReadRow("complete", "saveDone", "fail")
FailRead == ReadRow("fail", "saveFailed", "tellFailed")
DropRead == ReadRow("drop", "saveDropped", "end")

SaveRow(place, new, next, failed) ==
  /\ StreamOnly(place)
  /\ \/ Saved(Stream, new) /\ Go(next)
     \/ (row' = row \/ Saved(Stream, new)) /\ Go(failed)
  /\ seen' = [seen EXCEPT ![Stream] = Absent]
  /\ UNCHANGED <<streamDone, client, browser, active, chat>>

MarkSave ==
  /\ SaveRow("save", Row("STREAMING", "none"), "announce", "fail")
  /\ why' = IF pc' = "fail" THEN "other" ELSE why

\* message.created: the channel is empty, so it waits for nobody; a client that
\* has left may be noticed here, and then nothing more is written.
Announce ==
  /\ StreamOnly("announce")
  /\ \/ Go("open") /\ Start
     \/ Gone /\ Go("end") /\ UNCHANGED client
  /\ UNCHANGED <<streamDone, message, browser, active, chat>>

Opened ==
  /\ StreamOnly("open")
  /\ \/ llm \in {"reading", "closed"} /\ Go("consume") /\ UNCHANGED why
     \/ llm = "failed" /\ Go("fail") /\ why' = CauseOf(failure)
  /\ failure' = "none"
  /\ UNCHANGED <<streamDone, llm, provider, attempt, produced, queue, row, seen, browser, active, chat>>

\* A chunk goes to the client under streamCtx.
SendCtx == streamDone \/ Gone

Forward ==
  /\ StreamOnly("consume")
  /\ queue # <<>> /\ Head(queue) = "delta"
  /\ \/ browser # "stalled" /\ Go("consume") /\ UNCHANGED why
     \/ SendCtx /\ Go("drop") /\ why' = "cancelled"
  /\ queue' = Tail(queue)
  /\ UNCHANGED <<streamDone, llm, provider, attempt, produced, failure,
                 row, seen, browser, active, chat>>

\* The chunk that exceeds MAX_RESPONSE_CHARS: the answer is cut and completed.
Cut ==
  /\ StreamOnly("consume")
  /\ queue # <<>> /\ Head(queue) = "delta"
  /\ queue' = Tail(queue)
  /\ Go("complete")
  /\ UNCHANGED <<streamDone, llm, provider, attempt, produced, failure, message, browser, active, chat>>

Finished ==
  /\ StreamOnly("consume")
  /\ queue # <<>> /\ Head(queue) # "delta"
  /\ IF Head(queue) = "done" THEN Go("complete") /\ UNCHANGED why
     ELSE Go("fail") /\ why' = CauseOf(Head(queue))
  /\ queue' = Tail(queue)
  /\ UNCHANGED <<streamDone, llm, provider, attempt, produced, failure,
                 row, seen, browser, active, chat>>

\* The channel is closed without an end.
Interrupted ==
  /\ StreamOnly("consume")
  /\ queue = <<>> /\ llm = "closed"
  /\ Go("fail") /\ why' = IF Gone THEN "cancelled" ELSE "other"
  /\ UNCHANGED <<streamDone, client, row, seen, browser, active, chat>>

\* completeStreamMessage: the row, the session, the event.
CompleteSave ==
  /\ SaveRow("saveDone", Row("COMPLETED", "none"), "summary", "fail")
  /\ why' = IF pc' = "fail" THEN "other" ELSE why

\* UpdateSession writes the title of the copy back.
WriteSummary ==
  /\ StreamOnly("summary")
  /\ \/ UpdateSession(copy[Stream]) /\ Go("tell") /\ UNCHANGED why
     \/ Go("fail") /\ why' = "other" /\ UNCHANGED title
  /\ UNCHANGED <<streamDone, client, row, seen, browser, active,
                 session, copy, titler, history>>

\* The last event waits for room under the request's context.
Tell(place, next) ==
  /\ StreamOnly(place)
  /\ browser # "stalled"
  /\ Go(next)

TellCompleted ==
  /\ Tell("tell", "end")
  /\ titler' = MaybeGenerateTitle(copy[Stream])
  /\ UNCHANGED <<streamDone, client, message, browser, active, session, title, copy, history>>

FailSave ==
  /\ SaveRow("saveFailed", Row("FAILED", why), "tellFailed", "tellFailed")
  /\ why' = "none"

TellFailed ==
  /\ Tell("tellFailed", "end")
  /\ UNCHANGED <<streamDone, client, message, browser, active, chat>>

DropSave ==
  /\ SaveRow("saveDropped", Row("FAILED", "cancelled"), "end", "end")
  /\ why' = "none"

\* The deferred calls: close, cancelStream, Delete.
End ==
  /\ StreamOnly("end")
  /\ streamDone' = TRUE
  /\ active' = FALSE
  /\ Go("returned")
  /\ queue' = <<>>
  /\ copy' = [copy EXCEPT ![Stream] = "auto"]
  /\ UNCHANGED <<llm, provider, attempt, produced, failure, message, browser, session, title, titler, history>>

Handler ==
  \/ Load \/ Generated \/ AppendMessages \/ StoreCancel
  \/ MarkRead \/ MarkSave \/ Announce \/ Opened \/ Forward \/ Finished \/ Interrupted
  \/ CompleteRead \/ CompleteSave \/ WriteSummary \/ TellCompleted
  \/ FailRead \/ FailSave \/ TellFailed \/ DropRead \/ DropSave \/ End

-----------------------------------------------------------------------------
(* CancelMessage. *)

CancelAt(c, place) == cpc[c] = place
CGo(c, place) == cpc' = [cpc EXCEPT ![c] = place]

GetMessage(c) ==
  /\ CancelAt(c, "idle") /\ row # Absent
  /\ \/ Selected(c) /\ CGo(c, "stop")
     \/ NotSelected(c) /\ CGo(c, "error")
  /\ UNCHANGED <<streamDone, client, pc, row, why, control, local, signal, unsignalled, chat>>

\* The cancel function, where the stream is known to this instance.
StopLocal(c) ==
  /\ CancelAt(c, "stop")
  /\ streamDone' = (streamDone \/ (c \in local /\ active))
  /\ CGo(c, "signal")
  /\ UNCHANGED <<client, pc, message, mode, browser, active, local, signal, unsignalled, chat>>

\* Signal sets the key and publishes; the subscriber may or may not hear it. An
\* error is logged, and a terminal message is not written again.
SendSignal(c) ==
  /\ CancelAt(c, "signal")
  /\ \/ signal' = TRUE /\ streamDone' \in {streamDone, streamDone \/ Watching} /\ UNCHANGED unsignalled
     \/ unsignalled' = TRUE /\ UNCHANGED <<signal, streamDone>>
  /\ CGo(c, IF seen[c].status \in Terminal THEN "answered" ELSE "update")
  /\ seen' = [seen EXCEPT ![c] = Absent]
  /\ UNCHANGED <<client, pc, row, why, mode, browser, active, local, chat>>

CancelRead(c) ==
  /\ CancelAt(c, "update")
  /\ \/ Selected(c) /\ CGo(c, "save")
     \/ NotSelected(c) /\ CGo(c, "error")
  /\ UNCHANGED <<streamDone, client, pc, row, why, control, local, signal, unsignalled, chat>>

CancelSave(c) ==
  /\ CancelAt(c, "save")
  /\ \/ Saved(c, Row("FAILED", "cancelled")) /\ CGo(c, "answered")
     \/ (row' = row \/ Saved(c, Row("FAILED", "cancelled"))) /\ CGo(c, "error")
  /\ seen' = [seen EXCEPT ![c] = Absent]
  /\ UNCHANGED <<streamDone, client, pc, why, control, local, signal, unsignalled, chat>>

CancelStep(c) == StopLocal(c) \/ SendSignal(c) \/ CancelRead(c) \/ CancelSave(c)

\* messageCancelRequested: the key, or a row that says so.
CancelRequested == signal \/ (session = "live" /\ row = Row("FAILED", "cancelled"))

Poll ==
  /\ Watching /\ CancelRequested
  /\ streamDone' = TRUE
  /\ UNCHANGED <<client, pc, message, mode, browser, active, cancels, chat>>

-----------------------------------------------------------------------------
(* The title, and what happens around. *)

TitleGenerated ==
  /\ titler = "generate"
  /\ titler' \in {"read", "off"}
  /\ UNCHANGED <<streamDone, client, pc, message, control, cancels, session, title, copy, history>>

NotRechecked(t) == TRUE          \* mutant: the title is not looked at again
StaysAuto(t) == IsAutoTitle(t)

TitleRead ==
  /\ titler = "read"
  /\ \/ /\ GetSession /\ StaysAuto(title)
        /\ titler' = "write"
        /\ copy' = [copy EXCEPT !["titler"] = title]
     \/ titler' = "off" /\ UNCHANGED copy
  /\ UNCHANGED <<streamDone, client, pc, message, control, cancels, session, title, history>>

TitleWrite ==
  /\ titler = "write"
  /\ \/ UpdateSession("llm")
     \/ UNCHANGED title
  /\ titler' = "off" /\ copy' = [copy EXCEPT !["titler"] = "auto"]
  /\ UNCHANGED <<streamDone, client, pc, message, control, cancels, session, history>>

\* The client does not read any more; one that reads again is only slow.
BrowserStalls ==
  /\ browser = "reading" /\ pc \notin Over
  /\ browser' = "stalled"
  /\ UNCHANGED <<streamDone, client, pc, message, mode, active, cancels, chat>>

\* The request's context ends and with it streamCtx, its child.
BrowserLeaves ==
  /\ ~Gone /\ pc \notin Over
  /\ browser' = "gone"
  /\ streamDone' = TRUE
  /\ UNCHANGED <<client, pc, message, mode, active, cancels, chat>>

\* The instance dies with everything in its memory.
Crash ==
  /\ pc \notin Over
  /\ Go("crashed")
  /\ streamDone' = TRUE /\ llm' = "closed" /\ queue' = <<>>
  /\ provider' = 1 /\ attempt' = 0 /\ produced' = FALSE /\ failure' = "none"
  /\ active' = FALSE /\ titler' = "off" /\ copy' = NoCopy
  /\ why' = "none" /\ seen' = [seen EXCEPT ![Stream] = Absent]
  /\ UNCHANGED <<row, mode, browser, cancels, session, title, history>>

\* FailStaleMessages: one conditional UPDATE, whatever became of the session. A stream may
\* itself be older than DEFAULT_STALE_AFTER.
\* mutant: joined with the session
StaleInSession == row.status \in Unfinished /\ session = "live"
Stale == row.status \in Unfinished
FailStaleMessages ==
  /\ Stale
  /\ row' = Row("FAILED", "other")
  /\ UNCHANGED <<streamDone, client, pc, seen, why, control, cancels, chat>>

Surroundings ==
  \/ Poll \/ TitleGenerated \/ TitleRead \/ TitleWrite \/ CreateSession \/ Rename \/ Delete
  \/ BrowserStalls \/ BrowserLeaves \/ Crash \/ FailStaleMessages

RunsHere == pc \notin {"idle", "crashed"}
LlmStep ==
  /\ RunsHere
  /\ ProviderStep \/ HeedContext
  /\ UNCHANGED <<pc, message, control, cancels, chat>>
LlmHeeds ==
  /\ RunsHere
  /\ HeedContext
  /\ UNCHANGED <<pc, message, control, cancels, chat>>

Next ==
  \/ Handler \/ Cut
  \/ LlmStep
  \/ \E c \in Cancellers : GetMessage(c) \/ CancelStep(c)
  \/ Surroundings
  \/ pc \in Over /\ UNCHANGED vars

Spec == Init /\ [][Next]_vars

\* The goroutines of the program are scheduled and its tickers tick. Nothing is
\* assumed of the provider, the client, or the user.
Fairness ==
  /\ WF_vars(Handler /\ pc # "idle")
  /\ WF_vars(LlmHeeds)
  /\ WF_vars(Poll) /\ WF_vars(FailStaleMessages)
  /\ \A c \in Cancellers : WF_vars(CancelStep(c))

FairSpec == Spec /\ Fairness

-----------------------------------------------------------------------------
\* service.go:643-644: a cancel request that was answered stops the generation and the
\* loop that consumes it on whatever instance it runs, also while the client does not read; the signal
\* may get lost but not fail, for then an old copy of the row may hide the
\* status the poll looks for.
Executing == llm \in Generating \/ pc \in {"generate", "open", "consume"}
CancelStops == \A c \in Cancellers :
  (cpc[c] = "answered" /\ pc # "idle") ~> (~Executing \/ unsignalled)

\* No message stays pending or streaming: whatever errors, lost clients, deleted
\* sessions or crashes left, the recovery job ends (service.go:671-672).
MessageSettles == row.status \in Unfinished ~> row.status \in Terminal

\* A stream that ended for whatever reason (cut, cancelled, failed) lets go of
\* its provider: no goroutine keeps reading the body for nobody.
ProviderReleased == pc = "returned" /\ mode = "stream" => llm \notin Generating \/ streamDone

\* A stream that is over is over for everybody: the loop, the message, the provider.
StreamsEnd == []ProviderReleased /\ CancelStops /\ MessageSettles

\* service.go:897: a title the user gave is overwritten only by a writer whose
\* copy of the session is older than the title.
RenameLostOnlyToOldCopy ==
  [][title = "user" /\ title' # "user" =>
       \/ pc \in {"append", "summary"} /\ copy[Stream] # "user"
       \/ titler = "write" /\ copy["titler"] # "user"]_vars

\* chat_repository.go:275-277 as the code can keep it: a terminal message changes
\* only under a Save whose SELECT is out of date, or from failed to failed.
PendingSave ==
  \/ pc \in DOMAIN Saving /\ seen[Stream] # row
  \/ \E c \in Cancellers : cpc[c] = "save" /\ seen[c] # row
SettledUnlessRaced ==
  [][row.status \in Terminal => row'.status = row.status \/ PendingSave]_vars

\* What one writer has put into a row or a title is overwritten only by another
\* that holds an older copy of it.
OnlyOldCopiesOverwrite == SettledUnlessRaced /\ RenameLostOnlyToOldCopy

\* What is sent to the model makes a dialogue.
ContextAlternates == Alternates(ChatHistoryContext(history))

\* service.go:897-898: a title the user gave is kept.
RenameKept == [][title = "user" => title' = "user" \/ session = "deleted"]_vars
=============================================================================

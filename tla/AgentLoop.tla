------------------------------ MODULE AgentLoop ------------------------------
(***************************************************************************)
(* The diagnosis loop of one run: Service.runLoop, executeToolBatch and    *)
(* streamFinalAnswer (application/internal/core/loop.go).  The model, the  *)
(* critics and the tools are the environment: every call of them returns   *)
(* something, as each has a timeout.  In AgentRun this is the stage        *)
(* "loop": it ends with an answer, an error, or because runCtx is done.    *)
(*                                                                         *)
(* Left out: the texts (prompts, plan, ledger, observations), the evidence *)
(* rows, and the parallel execution of a batch, whose calls share nothing. *)
(* The critics answer at once as a panel (core/reflection.go).             *)
(***************************************************************************)
EXTENDS Integers, Sequences, FiniteSets

CONSTANTS
  Keys,                 \* dedupKey: a tool with its scope and arguments
  MaxSteps, MaxReflections, MaxReflectionSteps,
  MaxToolErrors,        \* MaxToolErrorsPerStep
  MaxReplans, ReplanInterval,
  MaxRewrites,          \* MAX_ANSWER_REWRITE_ATTEMPTS
  Jurors,               \* ReflectionJurors
  Opinions,             \* what a critic may answer
  MaxBatch              \* bound: valid calls in one reply

\* withDefaults (service.go:191-279).
ASSUME OptionsAssumption ==
  /\ MaxSteps \in Nat \ {0}
  /\ MaxReflections \in Nat \ {0}
  /\ MaxReflectionSteps \in Nat
  /\ MaxToolErrors \in Nat \ {0}
  /\ MaxReplans \in Nat \ {0}
  /\ ReplanInterval \in Nat \ {0}
  /\ MaxRewrites \in Nat
  /\ MaxBatch \in Nat \ {0}

\* The confidence of a critic in its verdict is told in quarters; 0 is none given.
Certain == 4

ASSUME PanelAssumption ==
  /\ Jurors \in Nat \ {0}
  /\ Opinions \subseteq [level : {"supported", "partially", "unsupported"},
                          confidence : 0..Certain, asks : BOOLEAN]

VARIABLES
  pc,          \* where runLoop is
  ctxDone,     \* runCtx is done: the client left or the run was cancelled
  outcome,     \* what runLoop returned
  step, maxSteps, reflections,
  rewrites,    \* answerRewriteAttempts
  errStreak,
  replans, lastReplan,
  fresh,       \* toolCallsSinceReplan
  seen,
  budget,      \* tokens used: 0 below, 1 exactly at, 2 above MaxTokenBudget
  batch,       \* the planned calls of this step: key, row in the database, result
  next,        \* index of executeToolBatch
  thinks,      \* calls of think, history
  overThinks,  \* those made with the budget exceeded, history
  succeeded,   \* keys that were executed with success, history
  repeated,    \* one of them was executed again in a later step, history
  dbFailed,    \* a write of a tool call failed, history
  left         \* a call of an earlier step is still RUNNING, history

control == <<step, maxSteps, reflections, rewrites, errStreak, replans, lastReplan, fresh, seen>>
history == <<thinks, overThinks, succeeded, repeated, dbFailed, left>>
vars == <<pc, ctxDone, outcome, control, budget, batch, next, history>>

\* No run thinks more often.
Cap == MaxSteps + MaxReflections * MaxReflectionSteps

Rows == {"none", "RUNNING", "COMPLETED", "FAILED"}
Results == {"none", "ok", "error"}
Call == [key : Keys, row : Rows, result : Results]

Batching == {"create", "execute", "settle", "observe"}
Places == {"plan", "head", "reassess", "think", "reflect", "final", "ended"} \cup Batching

TypeOK ==
  /\ pc \in Places
  /\ ctxDone \in BOOLEAN
  /\ outcome \in {"none", "answer", "error", "dead"}
  /\ step \in 0..Cap /\ maxSteps \in 1..Cap
  /\ reflections \in 0..MaxReflections
  /\ rewrites \in 0..MaxRewrites
  /\ errStreak \in 0..MaxToolErrors
  /\ replans \in 0..MaxReplans /\ lastReplan \in 0..Cap
  /\ fresh \in BOOLEAN
  /\ seen \in SUBSET Keys
  /\ budget \in 0..2
  /\ batch \in Seq(Call)
  /\ next \in Nat
  /\ thinks \in Nat /\ overThinks \in Nat
  /\ succeeded \in SUBSET Keys
  /\ repeated \in BOOLEAN /\ dbFailed \in BOOLEAN /\ left \in BOOLEAN

Init ==
  /\ pc = "plan"
  /\ ctxDone = FALSE
  /\ outcome = "none"
  /\ step = 0 /\ maxSteps = MaxSteps
  /\ reflections = 0 /\ rewrites = 0 /\ errStreak = 0
  /\ replans = 0 /\ lastReplan = 0 /\ fresh = FALSE
  /\ seen = {}
  /\ budget = 0
  /\ batch = <<>> /\ next = 1
  /\ thinks = 0 /\ overThinks = 0
  /\ succeeded = {} /\ repeated = FALSE /\ dbFailed = FALSE /\ left = FALSE

-----------------------------------------------------------------------------
Goto(place) == pc' = place /\ UNCHANGED outcome
Return(o) == pc' = "ended" /\ outcome' = o
Cancel ==
  /\ ~ctxDone
  /\ ctxDone' = TRUE
  /\ pc # "ended"
  /\ UNCHANGED <<pc, outcome, control, budget, batch, next, history>>

\* A call of the model consumes tokens.
Spend == budget' \in budget..2

\* Every `continue`, and the end of the loop's body.
AdvanceUnlessFailed ==    \* mutant: a step whose calls all failed is repeated
  step' = IF batch # <<>> /\ \A n \in DOMAIN batch : batch[n].result = "error" THEN step ELSE step + 1
Advance == step' = step + 1

\* An error of the model ends the run as failed, unless it comes from runCtx.
Dead == ctxDone

\* generatePlan and its event.
Plan ==
  /\ pc = "plan"
  /\ Spend
  /\ \/ Goto("head")
     \/ Dead /\ Return("dead")
  /\ UNCHANGED <<ctxDone, control, batch, next, history>>

MayReassess ==
  /\ fresh
  /\ step - lastReplan >= ReplanInterval
  /\ replans < MaxReplans
  /\ budget = 0

\* The condition of the for statement, then the reassessment gate; planning and
\* the ledger may be switched off or empty.
LoopHead ==
  /\ pc = "head"
  /\ IF step >= maxSteps THEN Goto("final")
     ELSE Goto("think") \/ (MayReassess /\ Goto("reassess"))
  /\ UNCHANGED <<ctxDone, control, budget, batch, next, history>>

\* A failed reassessment keeps plan and ledger, and is not counted.
Reassess ==
  /\ pc = "reassess"
  /\ Spend
  /\ \/ /\ replans' = replans + 1 /\ lastReplan' = step /\ fresh' = FALSE
        /\ \/ Goto("think")
           \/ Dead /\ Return("dead")
     \/ /\ UNCHANGED <<replans, lastReplan, fresh>>
        /\ IF Dead THEN Return("dead") ELSE Goto("think")
  /\ UNCHANGED <<ctxDone, step, maxSteps, reflections, rewrites, errStreak, seen, batch, next, history>>

-----------------------------------------------------------------------------
\* think, by what the model replies.  The histories count up to one more than
\* they may reach.
UpTo(a, b) == IF a < b THEN a ELSE b

Think ==
  /\ pc = "think"
  /\ Spend
  /\ thinks' = UpTo(Cap + 1, thinks + 1)
  /\ overThinks' = IF budget = 2 THEN UpTo(MaxRewrites + 2, overThinks + 1) ELSE overThinks
  /\ UNCHANGED <<ctxDone, next, maxSteps, replans, lastReplan, fresh, seen,
                 succeeded, repeated, dbFailed, left>>

ThinkFails ==
  /\ Think
  /\ Return(IF Dead THEN "dead" ELSE "error")
  /\ UNCHANGED <<step, reflections, rewrites, errStreak, batch>>

\* The event with the thoughts of a reply that calls tools is not delivered.
ThoughtUndelivered ==
  /\ Think
  /\ Dead
  /\ Return("dead")
  /\ UNCHANGED <<step, reflections, rewrites, errStreak, batch>>

\* No calls and no substantive answer: asked again, or answered by a fallback.
WeakAnswer ==
  /\ Think
  /\ IF rewrites < MaxRewrites
       THEN rewrites' = rewrites + 1 /\ Advance /\ Goto("head")
       ELSE UNCHANGED <<rewrites, step>> /\ Return("answer")
  /\ UNCHANGED <<reflections, errStreak, batch>>

MayReflect == reflections < MaxReflections /\ MaxReflectionSteps > 0

\* A candidate answer goes to the critics while there are rounds and budget left.
CandidateAnswer ==
  /\ Think
  /\ \/ Goto("final") /\ UNCHANGED reflections
     \/ MayReflect /\ budget' = 0 /\ reflections' = reflections + 1 /\ Goto("reflect")
  /\ UNCHANGED <<step, rewrites, errStreak, batch>>

Planned(k) == [key |-> k, row |-> "none", result |-> "none"]

\* The budget is looked at before the calls are.
OverBudgetIfPlanned(planned) == budget' = 2 /\ planned # <<>>   \* mutant: rejected calls skip it
OverBudget(planned) == budget' = 2

\* validateInvocation rejects the calls that succeeded in an earlier step, and
\* others; `planned` is what is left of the reply's calls.
Valid(k) == k \notin seen

ToolCalls(planned) ==
  /\ Think
  /\ \A n \in DOMAIN planned : Valid(planned[n])
  /\ IF OverBudget(planned)
       THEN Goto("final") /\ UNCHANGED <<errStreak, step, batch>>
     ELSE IF planned = <<>>
       THEN /\ errStreak' = errStreak + 1
            /\ IF errStreak' >= MaxToolErrors
                 THEN Goto("final") /\ UNCHANGED step
                 ELSE Goto("head") /\ Advance
            /\ UNCHANGED batch
     ELSE /\ errStreak' = 0
          /\ batch' = [n \in DOMAIN planned |-> Planned(planned[n])]
          /\ Goto("create")
          /\ UNCHANGED step
  /\ UNCHANGED <<reflections, rewrites>>

\* reflectAnswerPanel: every critic answers for itself or fails.  One asks for
\* more if it names a gap in what it does not find supported, or a direction.
Failed == [level |-> "failed", confidence |-> 0, asks |-> FALSE]

Panels == [1..Jurors -> Opinions \cup {Failed}]

Voters(panel) == {n \in DOMAIN panel : panel[n] # Failed}
Votes(panel, level) == Cardinality({n \in DOMAIN panel : panel[n].level = level})

\* The mean of the confidences given, as TotalConfidence over FullConfidence.
TotalConfidence(panel) ==
  LET sum[n \in 0..Jurors] == IF n = 0 THEN 0 ELSE sum[n - 1] + panel[n].confidence
  IN  sum[Jurors]
FullConfidence(panel) ==
  Certain * Cardinality({n \in DOMAIN panel : panel[n].confidence > 0})

LowConfidence(panel) == 2 * TotalConfidence(panel) < FullConfidence(panel)

\* aggregatePanel: a tie is not a majority, and a doubtful majority is half of one.
PanelLevel(panel) ==
  IF 2 * Votes(panel, "supported") <= Cardinality(Voters(panel))
    THEN IF Votes(panel, "unsupported") > 0 THEN "unsupported" ELSE "partially"
  ELSE IF LowConfidence(panel) THEN "partially" ELSE "supported"

\* Without a gap and a direction there is nothing to look for.
Objects(panel) == PanelLevel(panel) # "supported" /\ \E n \in DOMAIN panel : panel[n].asks

\* reflectionSupplementSteps, rounded to the nearest: the less sure, the more steps.
SupplementSteps(panel) ==
  LET full == FullConfidence(panel)
      total == TotalConfidence(panel)
  IN  IF MaxReflectionSteps <= 1 \/ total = 0 THEN MaxReflectionSteps
      ELSE 1 + (2 * (full - total) * (MaxReflectionSteps - 1) + full) \div (2 * full)

Answering == {panel \in Panels : Voters(panel) # {}}
Supplements == {supplement \in 1..MaxReflectionSteps :
                  \E panel \in Answering : Objects(panel) /\ supplement = SupplementSteps(panel)}
MayBeContent == \E panel \in Answering : ~Objects(panel)

\* The critics all fail, or they are content.
ReflectSettled ==
  /\ pc = "reflect"
  /\ ~Dead \/ MayBeContent
  /\ Spend
  /\ Goto("final")
  /\ UNCHANGED <<ctxDone, control, batch, next, history>>

\* They all fail, as runCtx is done.
ReflectInterrupted ==
  /\ pc = "reflect"
  /\ Dead
  /\ Spend
  /\ Return("dead")
  /\ UNCHANGED <<ctxDone, control, batch, next, history>>

MoreSteps(supplement) == maxSteps' = UpTo(Cap, step + 1 + supplement)

ReflectAgain ==
  /\ pc = "reflect"
  /\ Spend
  /\ \E supplement \in Supplements : MoreSteps(supplement)
  /\ Advance
  /\ Goto("head")
  /\ UNCHANGED <<ctxDone, reflections, rewrites, errStreak, replans, lastReplan, fresh, seen,
                 batch, next, history>>

-----------------------------------------------------------------------------
\* executeToolBatch.  After each event: on to the next call, or back to run()
\* when the event could not be sent.
Continue(last) ==
  IF next < Len(batch) THEN Goto(pc) /\ next' = next + 1 ELSE Goto(last) /\ next' = 1
Sent(last) ==
  \/ Continue(last)
  \/ Dead /\ Return("dead") /\ next' = next

SetRow(row) == batch' = [batch EXCEPT ![next].row = row]
Write(row) == SetRow(row) /\ UNCHANGED dbFailed
WriteFails == UNCHANGED batch /\ dbFailed' = TRUE

\* Phase A: createToolCall, tool_started.
CreateCall ==
  /\ pc = "create"
  /\ Write("RUNNING") \/ WriteFails
  /\ Sent("execute")
  /\ UNCHANGED <<ctxDone, control, budget, thinks, overThinks, succeeded, repeated, left>>

\* Phase B: the group waits for all calls.
Execute ==
  /\ pc = "execute"
  /\ \E results \in [DOMAIN batch -> {"ok", "error"}] :
       batch' = [n \in DOMAIN batch |-> [batch[n] EXCEPT !.result = results[n]]]
  /\ repeated' = (repeated \/ \E n \in DOMAIN batch : batch[n].key \in succeeded)
  /\ Goto("settle")
  /\ UNCHANGED <<ctxDone, control, budget, next, thinks, overThinks, succeeded, dbFailed, left>>

\* Phase C: updateToolCall or completeToolCallWithEvidence, with its fallback;
\* a call whose row is missing cannot be updated.
FailedUnsaved ==                             \* mutant: a failed call is only announced
  IF batch[next].result = "ok" THEN Write("COMPLETED") ELSE UNCHANGED <<batch, dbFailed>>
Saved == Write(IF batch[next].result = "ok" THEN "COMPLETED" ELSE "FAILED")

SettleCall ==
  /\ pc = "settle"
  /\ \/ batch[next].row = "RUNNING" /\ Saved
     \/ WriteFails
  /\ Sent("observe")
  /\ UNCHANGED <<ctxDone, control, budget, thinks, overThinks, succeeded, repeated, left>>

\* Back in runLoop: compressed observations cost tokens, successful calls are
\* registered in seen.
Successful == {batch[n].key : n \in {m \in DOMAIN batch : batch[m].result = "ok"}}
Running == \E n \in DOMAIN batch : batch[n].row = "RUNNING"

Observe ==
  /\ pc = "observe"
  /\ Spend
  /\ seen' = seen \cup Successful
  /\ fresh' = (fresh \/ Successful # {})
  /\ succeeded' = succeeded \cup Successful
  /\ left' = (left \/ Running)
  /\ batch' = <<>>
  /\ Advance
  /\ Goto("head")
  /\ UNCHANGED <<ctxDone, maxSteps, reflections, rewrites, errStreak, replans, lastReplan, next,
                 thinks, overThinks, repeated, dbFailed>>

\* streamFinalAnswer: an answer, an error (an empty answer is one even when runCtx
\* is done), or runCtx is done.
FinalAnswer ==
  /\ pc = "final"
  /\ \/ Return("answer")
     \/ Return("error")
     \/ Dead /\ Return("dead")
  /\ UNCHANGED <<ctxDone, control, budget, batch, next, history>>

-----------------------------------------------------------------------------
Batches == UNION {[1..n -> Keys] : n \in 0..MaxBatch}

Loop ==
  \/ Plan \/ LoopHead \/ Reassess
  \/ ThinkFails \/ ThoughtUndelivered \/ WeakAnswer \/ CandidateAnswer
  \/ \E planned \in Batches : ToolCalls(planned)
  \/ ReflectSettled \/ ReflectInterrupted \/ ReflectAgain
  \/ CreateCall \/ Execute \/ SettleCall \/ Observe
  \/ FinalAnswer

Next == Loop \/ Cancel \/ (pc = "ended" /\ UNCHANGED vars)

Spec == Init /\ [][Next]_vars

\* The goroutine runs, and every call of the model, of a tool and of the
\* database returns: each has a timeout.
FairSpec == Spec /\ WF_vars(Loop)

-----------------------------------------------------------------------------
\* loop.go:355-361: however often the critics object, the run thinks at most
\* MaxSteps plus the supplementary steps of all rounds.
StepsBounded == thinks <= Cap

\* loop.go:376-379: an exceeded budget ends the run: only a rewrite of a weak
\* answer is still asked for, and no tool is called for it.
BudgetStopsSoon == overThinks <= MaxRewrites + 1

\* service.go:1024-1027: run() makes a run CANCELLED when alive is false, which a
\* model or tool that is merely slow must not bring about.
DeadMeansCancelled == outcome = "dead" => ctxDone

\* loop.go:412-416: a query that gave evidence is not executed again in a later
\* step, whatever else was in its batch; a failed one may be.
RetriesOnlyFailures == ~repeated

\* service.go:959-961 for the runs that are not cut: a run that returned an
\* answer or an error has settled every tool call, unless the database failed.
Orphans == left \/ Running
CallsSettled == outcome \in {"answer", "error"} /\ ~dbFailed => ~Orphans

\* A run spends no more steps and no more tokens than its options allow.
BudgetsKept == StepsBounded /\ BudgetStopsSoon

\* Every tool call is settled, and none is made again without need.
CallsExact == CallsSettled /\ RetriesOnlyFailures

\* The assumption LoopBounded of AgentRun: the loop ends, whether or not anybody
\* cancels it.
Ends == <>(pc = "ended")

\* A run comes to its end, and is given up as dead only if it was cancelled.
RunsEnd == []DeadMeansCancelled /\ Ends

\* service.go:959-961: also a stream that is cut leaves no RUNNING record.
NoOrphans == pc = "ended" /\ ~dbFailed => ~Orphans
=============================================================================

----------------------------- MODULE ChatHistory -----------------------------
(***************************************************************************)
(* What of a conversation goes into the next request: buildHistory,        *)
(* toMessageContext and applyContextWindow of module/ai.  A message has a  *)
(* role, a status and a size; size 0 is a blank one.  A session's messages *)
(* are its rows in sequence order, whatever streams and recovery left.     *)
(***************************************************************************)
EXTENDS Integers, SequencesExt

CONSTANTS
  MaxContextMessages,   \* MAX_CONTEXT_MESSAGES
  MaxContextChars       \* MAX_CONTEXT_CHARS

ASSUME WindowAssumption == MaxContextMessages \in Nat /\ MaxContextChars \in Nat

ChatMessages == [role : {"user", "assistant", "system"},
                 status : {"PENDING", "STREAMING", "COMPLETED", "FAILED"}, size : Nat]

Counts(m) == m.size > 0
Completed(m) == m.status = "COMPLETED"

\* nextCompletedAssistantIndex: the answer to the question at i, 0 if it has none.
AnswerTo(messages, i) ==
  LET later == {j \in i + 1..Len(messages) :
                  Counts(messages[j]) /\ messages[j].role \in {"user", "assistant"}}
      first == CHOOSE j \in later : \A k \in later : j <= k
  IN IF later = {} \/ messages[first].role = "user" \/ ~Completed(messages[first])
       THEN 0 ELSE first

IsSystem(m) == m.role = "system"

\* What toMessageContext has kept so far, and the message it goes on with.
Nothing == [next |-> 1, system |-> <<>>, dialog |-> <<>>]

\* mutant: a question is kept without an answer
VisitUnanswered(messages, i, kept) ==
  IF ~Counts(messages[i]) \/ ~Completed(messages[i]) THEN kept
  ELSE IF IsSystem(messages[i]) THEN [kept EXCEPT !.system = Append(@, messages[i])]
  ELSE [kept EXCEPT !.dialog = Append(@, messages[i])]

\* System messages are kept, and questions with their answers; the loop goes on
\* after the answer, so what stands between the two is left out.
Visit(messages, i, kept) ==
  LET m == messages[i]
      answer == AnswerTo(messages, i)
  IN IF ~Counts(m) \/ ~Completed(m) \/ i < kept.next THEN kept
     ELSE IF IsSystem(m) THEN [kept EXCEPT !.system = Append(@, m)]
     ELSE IF m.role = "user" /\ answer # 0
       THEN [kept EXCEPT !.dialog = @ \o <<m, messages[answer]>>, !.next = answer + 1]
     ELSE kept

\* toMessageContext, and the two parts that applyContextWindow makes of it.
Kept(messages) ==
  LET visited[i \in 0..Len(messages)] ==
        IF i = 0 THEN Nothing ELSE Visit(messages, i, visited[i - 1])
  IN visited[Len(messages)]

SizeOf(seq) == FoldLeft(LAMBDA sum, m : sum + m.size, 0, seq)
Newest(seq, k) == SubSeq(seq, Len(seq) - k + 1, Len(seq))

\* applyContextWindow: from the newest message back, until one does not fit.
Window(system, dialog) ==
  LET fits == {k \in 0..Len(dialog) :
                 /\ k <= MaxContextMessages
                 /\ k > 0 => SizeOf(system) + SizeOf(Newest(dialog, k)) <= MaxContextChars}
  IN Newest(dialog, CHOOSE k \in fits : \A j \in fits : j <= k)

ChatHistoryContext(messages) ==
  LET kept == Kept(messages)
  IN kept.system \o Window(kept.system, kept.dialog)

\* service.go:982-985: whatever failed, was cancelled or left
\* blank, what precedes the new question alternates and ends with an answer,
\* after the system messages. (It may begin with an answer: the window counts
\* messages, not pairs.)
Alternates(context) ==
  \A k \in DOMAIN context :
    IsSystem(context[k])
    \/ context[k].role = IF (Len(context) - k) % 2 = 0 THEN "assistant" ELSE "user"
=============================================================================

------------------------------ MODULE LlmClient ------------------------------
(***************************************************************************)
(* One generation by the LLM client (platform/llm): a chain of providers   *)
(* (fallbackClient), each behind retries with a backoff (retryingClient),  *)
(* and the goroutines that read the body of the provider that answered     *)
(* (readStream and the relay of AssistantGenerator.Stream).                *)
(*                                                                         *)
(* The two channels between body and consumer, of 8 places each, are one   *)
(* queue.  Usage and provider names are left out; requests carry no tools, *)
(* so the text of a chunk is passed on as it comes.                        *)
(***************************************************************************)
EXTENDS Integers, Sequences

CONSTANTS
  Providers,     \* length of the chain: the default provider and its fallbacks
  MaxRetries,    \* max_retries of each provider
  QueueSize      \* capacity of the channels, 16

ASSUME ClientAssumption ==
  Providers \in Nat \ {0} /\ MaxRetries \in Nat /\ QueueSize \in Nat \ {0}

VARIABLES
  streamDone,    \* the context of the generation is cancelled
  llm,           \* where the client is
  provider,      \* index in the chain, of the loop in fallbackClient
  attempt,       \* retries so far, of the loop in retryingClient
  produced,      \* a chunk of text has been sent
  queue,         \* events for the consumer
  failure        \* why Stream or Generate returned an error

client == <<llm, provider, attempt, produced, queue, failure>>

Events == {"delta", "done", "cancelled", "other"}
Generating == {"request", "backoff", "reading"}

LlmTypeOK ==
  /\ streamDone \in BOOLEAN
  /\ llm \in {"idle", "failed", "closed"} \cup Generating
  /\ provider \in 1..Providers /\ attempt \in 0..MaxRetries
  /\ produced \in BOOLEAN
  /\ queue \in Seq(Events) /\ Len(queue) <= QueueSize
  /\ failure \in {"none", "cancelled", "other"}

LlmInit ==
  /\ streamDone = FALSE
  /\ llm = "idle"
  /\ provider = 1 /\ attempt = 0
  /\ produced = FALSE
  /\ queue = <<>>
  /\ failure = "none"

Start ==
  /\ llm = "idle"
  /\ llm' = "request"
  /\ UNCHANGED <<provider, attempt, produced, queue, failure>>

-----------------------------------------------------------------------------
(* Before the first byte: requests, retries, fallbacks. *)

\* How a request ends: answered; a transport error, 429 or 5xx; a 4xx, or a
\* timeout, which is a context error to isRetryable.
Outcomes == {"ok", "busy", "refused"}
IsRetryable(outcome) == outcome = "busy"

\* With the return from Stream or Generate the loops' variables are gone.
LoopsReturn == provider' = 1 /\ attempt' = 0

Fails(why) ==
  /\ llm' = "failed" /\ failure' = why
  /\ LoopsReturn
  /\ UNCHANGED <<produced, queue>>

Reads ==
  /\ llm' = "reading"
  /\ LoopsReturn
  /\ UNCHANGED <<produced, queue, failure>>

Waits ==
  /\ attempt < MaxRetries
  /\ llm' = "backoff"
  /\ UNCHANGED <<provider, attempt, produced, queue, failure>>

FallsBack ==
  /\ attempt = MaxRetries /\ provider < Providers
  /\ llm' = "request" /\ provider' = provider + 1 /\ attempt' = 0
  /\ UNCHANGED <<produced, queue, failure>>

Request ==
  /\ llm = "request"
  /\ \E outcome \in Outcomes :
       \/ outcome = "ok" /\ Reads
       \/ IsRetryable(outcome) /\ (Waits \/ FallsBack)
       \/ /\ outcome # "ok"
          /\ IsRetryable(outcome) => attempt = MaxRetries /\ provider = Providers
          /\ Fails("other")
  /\ UNCHANGED streamDone

\* A cancelled context ends the request and is not retried.
RequestCancelled ==
  /\ llm = "request" /\ streamDone
  /\ Fails("cancelled")
  /\ UNCHANGED streamDone

\* sleepWithContext: the timer, or the context.
RetryAgain ==
  /\ llm = "backoff"
  /\ llm' = "request" /\ attempt' = attempt + 1
  /\ UNCHANGED <<streamDone, provider, produced, queue, failure>>

SleepCancelled ==
  /\ llm = "backoff" /\ streamDone
  /\ Fails("cancelled")
  /\ UNCHANGED streamDone

-----------------------------------------------------------------------------
(* The body. *)

HasRoom == Len(queue) < QueueSize

Chunk ==
  /\ llm = "reading" /\ HasRoom
  /\ queue' = Append(queue, "delta")
  /\ produced' = TRUE
  /\ UNCHANGED <<streamDone, llm, provider, attempt, failure>>

Closes(event) ==
  /\ llm' = "closed"
  /\ queue' = Append(queue, event)
  /\ UNCHANGED <<provider, attempt, produced, failure>>

\* [DONE], or the end of a body with a finish reason.
BodyEnds ==
  /\ llm = "reading" /\ HasRoom
  /\ Closes("done")
  /\ UNCHANGED streamDone

RetryMidStream ==                \* mutant: a broken body is requested again
  /\ llm = "reading"
  /\ \/ Waits
     \/ MaxRetries = 0 /\ HasRoom /\ Closes("other")
  /\ UNCHANGED streamDone

\* A body that breaks off, cannot be read or decoded, or exceeds stream_timeout.
\* What is sent then is lost when the queue has no room at the timeout.
BodyBreaks ==
  /\ llm = "reading"
  /\ \/ HasRoom /\ Closes("other")
     \/ llm' = "closed" /\ UNCHANGED <<provider, attempt, produced, queue, failure>>
  /\ UNCHANGED streamDone

\* The send that waits and the scanner both obey the context.
BodyCancelled ==
  /\ llm = "reading" /\ streamDone
  /\ \/ HasRoom /\ Closes("cancelled")
     \/ llm' = "closed" /\ UNCHANGED <<provider, attempt, produced, queue, failure>>
  /\ UNCHANGED streamDone

ProviderStep == Request \/ RetryAgain \/ Chunk \/ BodyEnds \/ BodyBreaks
HeedContext == RequestCancelled \/ SleepCancelled \/ BodyCancelled

-----------------------------------------------------------------------------
\* retry.go:20-21 and fallback.go:17-18: once text has been sent, the
\* generation is neither retried nor moved to another provider, so the client
\* never sees two beginnings of an answer.
NoReplay ==
  [][produced => llm' \notin {"request", "backoff"}]_<<streamDone, client>>
=============================================================================

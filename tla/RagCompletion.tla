---------------------------- MODULE RagCompletion ----------------------------
(***************************************************************************)
(* apps/rag: the answer to one question, from POST /rag/api/completions to *)
(* the end of its stream of events: rag_chat_completions and its           *)
(* event_stream in views.py, rag_completion_stream, search_chunks and the  *)
(* clients of the two backends.                                            *)
(*                                                                         *)
(* Texts are kept by their lengths, since the context and then the system  *)
(* prompt are cut by length: what the model sees of a chunk is whether its *)
(* label "[Source: ...]" is still there.  An action is the code up to the  *)
(* next yield or await; the client may leave at each.                      *)
(***************************************************************************)
EXTENDS Integers, Sequences, FiniteSetsExt, SequencesExt

CONSTANTS
  TopK,           \* RAG_TOP_K
  MaxContext,     \* RAG_MAX_CONTEXT_CHARS
  RetryChars,     \* max_chars of _truncate_context
  RetryTokens,    \* 128, for the second request
  HardMax,        \* INFERENCE_HARD_MAX_TOKENS
  Label,          \* the length of a chunk's "[Source: ...]" line
  Preamble,       \* of the prompt's text before the context
  Instructions,   \* of its text behind it
  Marker,         \* of "[Context truncated due to length]"
  MaxPieces       \* bounds the chunks of bytes the upstream sends

ASSUME RagCompletionAssumption ==
  /\ {TopK, RetryTokens, HardMax} \subseteq Nat \ {0}
  /\ {MaxContext, Label, Preamble, Instructions, Marker, MaxPieces} \subseteq Nat
  /\ RetryChars \in Nat /\ RetryChars >= Preamble + Label

VARIABLES
  collection,   \* the chunks in ChromaDB: id -> [doc, size]
  request,      \* the body: [messages, documents, tokens]
  step,         \* what the generator does next
  hits,         \* the chunks that search_chunks found, the best first
  sent,         \* the events the client has been sent
  calls         \* the requests sent to the upstream

vars == <<collection, request, step, hits, sent, calls>>

-----------------------------------------------------------------------------

Steps == {"posted", "search", "fallback", "finish", "build", "open", "stream",
          "fail", "ended", "left"}

Roles == {"system", "user", "assistant", "tool"}    \* of ChatMessage

Event(kind) == [kind |-> kind, cited |-> {}, call |-> Len(calls)]
Metadata(cited) == [Event("metadata") EXCEPT !.cited = cited]

Send(event) == sent' = Append(sent, event)

(* format_citations: one for each document.                                *)
Cited(found) == {found[i].doc : i \in DOMAIN found}

-----------------------------------------------------------------------------
(* build_augmented_prompt and _truncate_context.                           *)

(* The length of the first n parts of the context with the line behind each*)
Offsets(found) ==
  LET length[n \in 0..Len(found)] ==
        IF n = 0 THEN 0 ELSE length[n - 1] + Label + found[n].size + 2
  IN  length

(* Where the i-th part begins.                                             *)
OffsetOf(found, i) == Offsets(found)[i - 1]

ContextLength(found) ==
  OffsetOf(found, Len(found)) + Label + found[Len(found)].size

(* The documents whose label survives a cut.                               *)
Labelled(found, length) ==
  {found[i].doc : i \in {j \in DOMAIN found : OffsetOf(found, j) + Label <= length}}

Smaller(a, b) == IF a <= b THEN a ELSE b

(* A call is the system prompt, by its length and by what is left in it of *)
(* the labels and the instructions; behind it, the messages of the client  *)
(* that are forwarded, whole; and the tokens asked for.                    *)

(* Those that are no system prompts.                                       *)
Forwarded == {i \in DOMAIN request.messages : request.messages[i].role # "system"}

\* Faulty variant of FirstCall: the context is cut as for a second request.
FirstCallCut ==
  LET context == Smaller(ContextLength(hits), RetryChars)
  IN  [client |-> Forwarded,
       labels |-> Labelled(hits, context),
       prompt |-> Preamble + context + Instructions,
       instructed |-> TRUE,
       tokens |-> Smaller(request.tokens, HardMax)]

\* Faulty variant of FirstCall: the client's system prompts go behind our own.
FirstCallForwardsAll ==
  LET context == Smaller(ContextLength(hits), MaxContext)
  IN  [client |-> DOMAIN request.messages,
       labels |-> Labelled(hits, context),
       prompt |-> Preamble + context + Instructions,
       instructed |-> TRUE,
       tokens |-> Smaller(request.tokens, HardMax)]

FirstCall ==
  LET context == Smaller(ContextLength(hits), MaxContext)
  IN  [client |-> Forwarded,
       labels |-> Labelled(hits, context),
       prompt |-> Preamble + context + Instructions,
       instructed |-> TRUE,
       tokens |-> Smaller(request.tokens, HardMax)]

(* The system prompt is cut from its end, the rest is sent again.          *)
SecondCall ==
  LET cut == calls[1].prompt > RetryChars
      context == Smaller(ContextLength(hits), MaxContext)
  IN  [client |-> calls[1].client,
       labels |-> IF cut THEN Labelled(hits, Smaller(context, RetryChars - Preamble))
                  ELSE calls[1].labels,
       prompt |-> IF cut THEN RetryChars + Marker ELSE calls[1].prompt,
       instructed |-> ~cut,
       tokens |-> Smaller(Smaller(request.tokens, RetryTokens), HardMax)]

-----------------------------------------------------------------------------

InitWith(chunks, body) ==
  /\ collection = chunks
  /\ request = body
  /\ step = "posted"
  /\ hits = <<>>
  /\ sent = <<>>
  /\ calls = <<>>

(* rag_chat_completions answers 400 for no messages, and fails for a body  *)
(* that is no object or whose numbers are none; or it answers with the     *)
(* stream of events.                                                       *)
Refuse ==
  /\ step = "posted"
  /\ step' = "ended"
  /\ UNCHANGED <<collection, request, hits, sent, calls>>

Accept ==
  /\ step = "posted" /\ request.messages # <<>>
  /\ step' = "search"
  /\ UNCHANGED <<collection, request, hits, sent, calls>>

(* The last event of a generator that raises; view's event_stream sends it.*)
Raise ==
  /\ step' = "fail"
  /\ UNCHANGED <<collection, request, hits, sent, calls>>

SendError ==
  /\ step = "fail"
  /\ Send(Event("error"))
  /\ step' = "ended"
  /\ UNCHANGED <<collection, request, hits, calls>>

(* _extract_last_user_message reads from the end up to a user's message.   *)
LastUser == Max({0} \cup {i \in DOMAIN request.messages : request.messages[i].role = "user"})

Unreadable ==
  \/ \E i \in DOMAIN request.messages : i > LastUser /\ request.messages[i].role = "missing"
  \/ LastUser > 0 /\ ~request.messages[LastUser].given

(* The model or the collection cannot be reached.                          *)
SearchRaises == step = "search" /\ Raise

Eligible ==
  {id \in DOMAIN collection :
     request.documents = {} \/ collection[id].doc \in request.documents}

(* What ChromaDB finds, best first, and of it what reaches RAG_MIN_SCORE:  *)
(* any sequence of TopK of the eligible chunks, or fewer.                  *)
Findings ==
  {found \in UNION {[1..n -> Eligible] : n \in 1..TopK} : IsInjective(found)}

(* ChromaDB fails to answer the query, finds nothing, or nothing good.     *)
NothingFound ==
  /\ step = "search" /\ ~Unreadable
  /\ Send(Metadata({}))
  /\ step' = "fallback"
  /\ UNCHANGED <<collection, request, hits, calls>>

Found ==
  /\ step = "search" /\ ~Unreadable
  /\ \E found \in Findings : hits' = [i \in DOMAIN found |-> collection[found[i]]]
  /\ Send(Metadata(Cited(hits')))
  /\ step' = "build"
  /\ UNCHANGED <<collection, request, calls>>

SendFallback ==
  /\ step = "fallback"
  /\ Send(Event("fallback"))
  /\ step' = "finish"
  /\ UNCHANGED <<collection, request, hits, calls>>

SendDone ==
  /\ step = "finish"
  /\ Send(Event("done"))
  /\ step' = "ended"
  /\ UNCHANGED <<collection, request, hits, calls>>

-----------------------------------------------------------------------------

(* What build_augmented_prompt and ChatCompletionRequest accept, the       *)
(* ranges of the other numbers aside.                                      *)
Acceptable ==
  /\ request.tokens >= 1
  /\ \A i \in DOMAIN request.messages :
       /\ request.messages[i].role \in Roles
       /\ request.messages[i].role # "system" => request.messages[i].given

(* The request is not accepted, or the backend has no URL.                 *)
BuildRaises == step = "build" /\ Raise

Call ==
  /\ step = "build" /\ Acceptable
  /\ calls' = Append(calls, FirstCall)
  /\ step' = "open"
  /\ UNCHANGED <<collection, request, hits, sent>>

Opens ==
  /\ step = "open"
  /\ step' = "stream"
  /\ UNCHANGED <<collection, request, hits, sent, calls>>

\* Faulty variant of Retry: the stream is begun anew when it breaks, too.
RetryBroken ==
  /\ step \in {"open", "stream"} /\ Len(calls) = 1
  /\ calls' = Append(calls, SecondCall)
  /\ step' = "open"
  /\ UNCHANGED <<collection, request, hits, sent>>

\* Faulty variant of Retry: the prompt is built anew as often as it is rejected.
RetryUncounted ==
  /\ step = "open" /\ Len(calls) = 1
  /\ calls' = <<>>
  /\ step' = "build"
  /\ UNCHANGED <<collection, request, hits, sent>>

(* The upstream answers 400, to the first request.                         *)
Retry ==
  /\ step = "open" /\ Len(calls) = 1
  /\ calls' = Append(calls, SecondCall)
  /\ UNCHANGED <<collection, request, step, hits, sent>>

(* Another status, an error of the connection, or the second 400.          *)
OpenRaises == step = "open" /\ Raise

Pieces == Cardinality({i \in DOMAIN sent : sent[i].kind = "piece"})

(* The bytes of a chunk are whole characters, by chance.                   *)
SendPiece ==
  /\ step = "stream" /\ Pieces < MaxPieces
  /\ Send(Event("piece"))
  /\ UNCHANGED <<collection, request, step, hits, calls>>

(* A character is cut in two by the end of a chunk, the upstream says      *)
(* nothing for too long, or the connection breaks.                         *)
StreamRaises == step = "stream" /\ Raise

StreamEnds ==
  /\ step = "stream"
  /\ step' = "ended"
  /\ UNCHANGED <<collection, request, hits, sent, calls>>

(* The client leaves; the generator is closed where it is.                 *)
Leave ==
  /\ step \notin {"ended", "left"}
  /\ step' = "left"
  /\ UNCHANGED <<collection, request, hits, sent, calls>>

Search == SearchRaises \/ NothingFound \/ Found
Upstream == Opens \/ Retry \/ OpenRaises \/ SendPiece \/ StreamRaises \/ StreamEnds
Progress ==
  Refuse \/ Accept \/ SendError \/ Search \/ SendFallback \/ SendDone
    \/ BuildRaises \/ Call \/ Upstream

Terminated == step \in {"ended", "left"} /\ UNCHANGED vars

Next == Progress \/ Leave \/ Terminated

-----------------------------------------------------------------------------
(* Properties.                                                             *)

Kinds == {"metadata", "fallback", "done", "piece", "error"}

TypeOK ==
  /\ step \in Steps
  /\ Len(hits) <= TopK /\ Len(calls) <= 2
  /\ \A i \in DOMAIN sent : sent[i].kind \in Kinds /\ sent[i].call \in 0..2

(* What the client reads is one well-formed answer: the metadata comes     *)
(* first and once, the fallback stands alone, all pieces are of the same   *)
(* request to the upstream although there may have been two, and nothing   *)
(* follows "[DONE]" or an error (rag_completion.py:115-175, views.py:176). *)
StreamIsWellFormed ==
  /\ \A i \in DOMAIN sent : sent[i].kind # "error" => (sent[i].kind = "metadata" <=> i = 1)
  /\ \A i \in DOMAIN sent :
       sent[i].kind \in {"error", "done"} => i = Len(sent) /\ step = "ended"
  /\ \A i \in DOMAIN sent :
       sent[i].kind \in {"fallback", "done"} =>
         sent[1].cited = {} /\ \A j \in DOMAIN sent : sent[j].kind # "piece"
  /\ \A i \in DOMAIN sent : sent[i].kind = "piece" => sent[i].call = Len(calls)

(* Every piece of an answer comes from a request to the model in which the *)
(* question stands on sources that the client was told of, on at least one *)
(* of them, and under our system prompt alone: no system prompt of the     *)
(* client's is forwarded, a retry included.  It asks for no more tokens    *)
(* than the first request did; and it is without the instructions, which   *)
(* stand behind the context, only where the retry has cut a prompt that    *)
(* was too long (rag_completion.py:27-36,58-64,162-196).                   *)
AnswersAreGrounded ==
  \A i \in DOMAIN sent :
    LET call == calls[sent[i].call]
    IN  sent[i].kind = "piece" =>
          /\ call.labels # {} /\ call.labels \subseteq sent[1].cited
          /\ \A m \in call.client : request.messages[m].role # "system"
          /\ call.tokens <= calls[1].tokens
          /\ call.instructed \/ (sent[i].call = 2 /\ calls[1].prompt > RetryChars)

(* Every accepted question gets its last event: the upstream's pieces are  *)
(* bounded by the tokens asked for, and its silence by the read timeout.   *)
EveryStreamEnds == <>(step \in {"ended", "left"})

=============================================================================

-------------------------- MODULE AnswerGeneration --------------------------
(***************************************************************************)
(* One question put to the AI answer service                               *)
(* (app/services/ai_answer_service.py): retrieval, the prompt, the chat    *)
(* provider with its retries, the validation of citations and the events   *)
(* the caller receives.                                                    *)
(*                                                                         *)
(* The answer is either streamed or given at once.  A streamed one is read *)
(* from the provider in chunks, filtered, and held until it is validated;  *)
(* one that cites nothing is asked for once more, not streamed.  The       *)
(* caller may cancel wherever the service waits.                           *)
(*                                                                         *)
(* Of a retrieved result remain its size in tokens, the class of results   *)
(* it duplicates, and whether it is eligible; of the text of an answer the *)
(* reasoning tags and the citations, one symbol each.                      *)
(***************************************************************************)
EXTENDS ReasoningFilter, SequencesExt

CONSTANTS
    Classes,        \* of results that duplicate each other
    Retrievals,     \* sequences of results a search may give
    MinEvidence,    \* peka_ai_min_evidence_results
    FixedTokens,    \* policy, question, requirements and output reservation
    MaxPrompt,      \* peka_ai_max_total_prompt_tokens
    MaxEvidence,    \* peka_ai_max_evidence_tokens
    CitationIds,    \* "C1", "C2", ..., as many as a prompt may hold
    Replies,        \* texts the provider may give at once
    MaxText,        \* bound: symbols streamed
    MaxChunk,       \* bound: symbols in a chunk
    DeltaSize       \* symbols in a token event (96 characters)

Result == [size : Nat, class : Classes, eligible : BOOLEAN]

ASSUME AnswerAssumption ==
    /\ {MinEvidence, DeltaSize, MaxChunk} \subseteq Nat \ {0}
    /\ {FixedTokens, MaxPrompt, MaxEvidence, MaxText} \subseteq Nat
    /\ Retrievals \subseteq Seq(Result)
    /\ Replies \subseteq Texts
    /\ \A rs \in Retrievals : Len(rs) <= Len(CitationIds)

VARIABLES
    mode,           \* "stream" or "whole"
    phase,          \* where the request is
    results,        \* what the search gave
    prompt,         \* the positions of the results the prompt cites, in order
    filter,         \* the filter of the stream
    text,           \* the text the provider has given, as filtered
    finish,         \* finish_reason as read last
    attempt,        \* the round of _generate_validated
    answer,         \* the validated answer
    events,         \* the events the caller has received
    told,           \* the text in those events
    posts,          \* auxiliary: requests sent to the provider
    received,       \* auxiliary: what the provider sent, unfiltered
    heard           \* history: what the provider has said of the text's end

answerVars == <<mode, phase, results, prompt, filter, text, finish, attempt, answer,
          events, told, posts, received, heard>>

Phases == {"asked", "retrieved", "no_evidence", "insufficient", "streaming", "check",
           "generate", "retry", "telling", "citing", "complete", "failed", "cancelled"}

Ended == {"complete", "failed", "cancelled"}

\* "open": nothing yet; "whole": it ended; "length": it was cut short, on the last
\* line so far; "hidden": it was cut short, on a line before the last; "silent":
\* the stream ended with neither a finish_reason nor [DONE].
Ends == {"open", "whole", "length", "hidden", "silent"}

Events == {"retrieval", "token", "citations", "complete"}

AnswerInit ==
    /\ mode \in {"stream", "whole"}
    /\ phase = "asked"
    /\ results = <<>> /\ prompt = <<>>
    /\ filter = NewFilter
    /\ text = <<>> /\ finish = "none"
    /\ attempt = 0
    /\ answer = <<>> /\ events = <<>> /\ told = <<>>
    /\ posts = 0 /\ received = <<>> /\ heard = "open"

-----------------------------------------------------------------------------
(***************************************************************************)
(* Retrieval and the prompt.                                               *)
(***************************************************************************)

Eligible == {k \in DOMAIN results : results[k].eligible}

\* Tokens of the results of rs that are chosen.
Tokens[sizes \in Seq(Nat)] ==
    IF sizes = <<>> THEN 0 ELSE Last(sizes) + Tokens[Front(sizes)]

Used(rs, chosen) == Tokens[[i \in DOMAIN chosen |-> rs[chosen[i]].size]]

\* Mutant: the budget of evidence is not looked at.
FitsPrompt(rs, chosen, k) == FixedTokens + Used(rs, chosen) + rs[k].size <= MaxPrompt

\* Result k of rs still fits, after those chosen.
Fits(rs, chosen, k) ==
    /\ FixedTokens + Used(rs, chosen) + rs[k].size <= MaxPrompt
    /\ Used(rs, chosen) + rs[k].size <= MaxEvidence

Duplicate(rs, chosen, k) == \E i \in DOMAIN chosen : rs[chosen[i]].class = rs[k].class

Taken(rs, chosen, k) ==
    rs[k].eligible /\ ~Duplicate(rs, chosen, k) /\ Fits(rs, chosen, k)

\* build: the eligible results are taken in order, duplicates and those that do
\* not fit left out; citation Cn is the n-th one taken.
Choose(rs) ==
    LET chosen[k \in 0..Len(rs)] ==
          IF k = 0 THEN <<>>
          ELSE IF Taken(rs, chosen[k - 1], k) THEN Append(chosen[k - 1], k)
          ELSE chosen[k - 1]
    IN  chosen[Len(rs)]

\* The search answers; a filter it refuses or a search that fails ends it.
Search ==
    /\ phase = "asked"
    /\ results' \in Retrievals
    /\ phase' = "retrieved"
    /\ UNCHANGED <<mode, prompt, filter, text, finish, attempt, answer, events, told,
                   posts, received, heard>>

\* The first event of a stream.
Retrieved == events' = IF mode = "stream" THEN <<"retrieval">> ELSE <<>>

\* _prepare: too little evidence is an answer of its own.
NoEvidence ==
    /\ phase = "retrieved"
    /\ Cardinality(Eligible) < MinEvidence
    /\ Retrieved
    /\ phase' = "no_evidence"
    /\ UNCHANGED <<mode, results, prompt, filter, text, finish, attempt, answer, told,
                   posts, received, heard>>

\* The prompt is built; a stream is opened at once.
BuildPrompt ==
    LET chosen == Choose(results)
    IN  /\ phase = "retrieved"
        /\ Cardinality(Eligible) >= MinEvidence
        /\ FixedTokens < MaxPrompt /\ chosen # <<>>
        /\ prompt' = chosen
        /\ Retrieved
        /\ IF mode = "stream" THEN phase' = "streaming" /\ posts' = posts + 1
           ELSE phase' = "generate" /\ UNCHANGED posts
        /\ UNCHANGED <<mode, results, filter, text, finish, attempt, answer, told,
                       received, heard>>

\* No room for the policy, or for any evidence.
NoRoom ==
    /\ phase = "retrieved"
    /\ Cardinality(Eligible) >= MinEvidence
    /\ FixedTokens >= MaxPrompt \/ Choose(results) = <<>>
    /\ phase' = "failed"
    /\ UNCHANGED <<mode, results, prompt, filter, text, finish, attempt, answer, events,
                   told, posts, received, heard>>

-----------------------------------------------------------------------------
(***************************************************************************)
(* The provider.                                                           *)
(***************************************************************************)

\* One data line of the stream: some content and a finish_reason, which takes the
\* place of the one read before.  A line may follow the one that ended the text.
Chunk(chunk, reason) ==
    LET f == Feed(filter, chunk, FALSE)
    IN  /\ phase = "streaming"
        /\ Len(received) + Len(chunk) <= MaxText
        /\ filter' = f.filter
        /\ text' = text \o f.out
        /\ finish' = reason
        /\ heard' = IF reason = "length" THEN "length"
                     ELSE IF heard \in {"length", "hidden"} THEN "hidden"
                     ELSE IF reason = "stop" THEN "whole" ELSE heard
        /\ received' = received \o chunk
        /\ UNCHANGED <<mode, phase, results, prompt, attempt, answer, events, told, posts>>

\* Mutant: the reason the stream ended for is not looked at.
StreamEndsAnyhow ==
    /\ phase = "streaming"
    /\ text' = text \o Feed(filter, <<>>, TRUE).out
    /\ filter' = NewFilter
    /\ phase' = "check"
    /\ heard' \in IF heard = "open" THEN {"whole", "silent"} ELSE {heard}
    /\ UNCHANGED <<mode, results, prompt, finish, attempt, answer, events, told, posts,
                   received>>

\* The stream is over, at [DONE] or without it: the filter is emptied, and a text
\* whose last line said it was cut short is refused.
StreamEnds ==
    /\ phase = "streaming"
    /\ text' = text \o Feed(filter, <<>>, TRUE).out
    /\ filter' = NewFilter
    /\ phase' = IF finish = "length" THEN "failed" ELSE "check"
    /\ heard' \in IF heard = "open" THEN {"whole", "silent"} ELSE {heard}
    /\ UNCHANGED <<mode, results, prompt, finish, attempt, answer, events, told, posts,
                   received>>

\* generate: the reply to a POST, its reasoning suppressed.
Reply(reply) ==
    /\ phase \in {"generate", "retry"}
    /\ text' = Suppress(reply)
    /\ received' = reply
    /\ heard' = "whole"
    /\ posts' = posts + 1
    /\ phase' = "check"
    /\ UNCHANGED <<mode, results, prompt, filter, finish, attempt, answer, events, told>>

\* Mutant: a POST that fails is repeated until one succeeds.
PostFailsForEver ==
    /\ phase \in {"generate", "retry"}
    /\ posts' = posts + 1
    /\ phase' = "generate"
    /\ posts < 10
    /\ UNCHANGED <<mode, results, prompt, filter, text, finish, attempt, answer, events,
                   told, received, heard>>

\* _post_json: a timeout, a broken connection or a status of 5xx is tried once
\* more; the second failure is an error.
PostFails ==
    /\ phase \in {"generate", "retry"}
    /\ posts' = posts + 1
    /\ phase' = IF phase = "generate" THEN "retry" ELSE "failed"
    /\ UNCHANGED <<mode, results, prompt, filter, text, finish, attempt, answer, events,
                   told, received, heard>>

\* Another status, an invalid reply or one cut short: an error at once.
Refused ==
    /\ phase \in {"generate", "retry", "streaming", "asked"}
    /\ phase' = "failed"
    /\ posts' = IF phase \in {"generate", "retry"} THEN posts + 1 ELSE posts
    /\ UNCHANGED <<mode, results, prompt, filter, text, finish, attempt, answer, events,
                   told, received, heard>>

-----------------------------------------------------------------------------
(***************************************************************************)
(* Validation and the events.                                              *)
(***************************************************************************)

\* citation_ids, and the ids the prompt supplied.
Citations(t) == {t[i] : i \in DOMAIN t} \cap {CitationIds[n] : n \in DOMAIN CitationIds}

Known == {CitationIds[n] : n \in DOMAIN prompt}

\* validate_citations: every citation was supplied, and there is one.
Valid(t) == Citations(t) # {} /\ Citations(t) \subseteq Known

\* The text is normalized and validated; one without citations is asked for
\* again, once, and one with an unknown citation is an error.
Validate ==
    LET t == Suppress(text)
    IN  /\ phase = "check"
        /\ answer' = IF Valid(t) THEN t ELSE <<>>
        /\ attempt' = attempt + 1
        /\ phase' = IF Valid(t) THEN "telling"
                    ELSE IF Citations(t) = {} /\ attempt = 0 THEN "generate"
                    ELSE "failed"
        /\ UNCHANGED <<mode, results, prompt, filter, text, finish, events, told, posts,
                       received, heard>>

Say(event) == events' = Append(events, event)

\* The next part of the answer.
TellPart ==
    LET n == Min({Len(told) + DeltaSize, Len(answer)})
    IN  /\ phase = "telling" /\ mode = "stream"
        /\ told # answer
        /\ told' = SubSeq(answer, 1, n)
        /\ Say("token")
        /\ UNCHANGED <<mode, phase, results, prompt, filter, text, finish, attempt, answer,
                       posts, received, heard>>

\* Nothing was found: the message that says so.
TellInsufficient ==
    /\ phase = "no_evidence" /\ mode = "stream"
    /\ Say("token")
    /\ phase' = "insufficient"
    /\ UNCHANGED <<mode, results, prompt, filter, text, finish, attempt, answer, told,
                   posts, received, heard>>

\* The citations follow the whole text.
Cite ==
    /\ mode = "stream"
    /\ \/ phase = "telling" /\ told = answer
       \/ phase = "insufficient"
    /\ Say("citations")
    /\ phase' = "citing"
    /\ UNCHANGED <<mode, results, prompt, filter, text, finish, attempt, answer, told,
                   posts, received, heard>>

\* The last event of a stream, or the response given at once.
Conclude ==
    /\ \/ phase = "citing"
       \/ mode = "whole" /\ phase \in {"telling", "no_evidence"}
    /\ Say("complete")
    /\ told' = answer
    /\ phase' = "complete"
    /\ UNCHANGED <<mode, results, prompt, filter, text, finish, attempt, answer, posts,
                   received, heard>>

\* The caller goes away while the service waits.
Cancel ==
    /\ phase \notin Ended
    /\ phase' = "cancelled"
    /\ UNCHANGED <<mode, results, prompt, filter, text, finish, attempt, answer, events,
                   told, posts, received, heard>>

Chunks == UNION {[1..n -> Symbols] : n \in 0..MaxChunk}

AnswerNext ==
    \/ Search \/ NoEvidence \/ BuildPrompt \/ NoRoom
    \/ \E chunk \in Chunks, reason \in {"none", "stop", "length"} : Chunk(chunk, reason)
    \/ StreamEnds
    \/ \E reply \in Replies : Reply(reply)
    \/ PostFails \/ Refused
    \/ Validate \/ TellPart \/ TellInsufficient \/ Cite \/ Conclude \/ Cancel

AnswerSpec == AnswerInit /\ [][AnswerNext]_answerVars

-----------------------------------------------------------------------------
(***************************************************************************)
(* Properties.                                                             *)
(***************************************************************************)

\* Type invariant.
AnswerTypeOK ==
    /\ mode \in {"stream", "whole"}
    /\ phase \in Phases
    /\ results \in Seq(Result)
    /\ prompt \in Seq(Nat)
    /\ filter \in Filter
    /\ {text, answer, told, received} \subseteq Texts
    /\ finish \in {"none", "stop", "length"}
    /\ attempt \in Nat
    /\ events \in Seq(Events)
    /\ posts \in Nat
    /\ heard \in Ends

\* However the provider cuts its text into chunks, even within a tag, what
\* passes the filter is what stands outside the blocks of reasoning.
ChunksDoNotMatter ==
    /\ phase = "check" /\ mode = "stream" /\ attempt = 0 => text = Shown[received]
    /\ phase = "streaming" => IsPrefix(text, Shown[received])

\* What the caller is told is validated as a whole before its first part: it
\* shows no reasoning, cites something, cites only what the prompt supplied
\* for the text it is told.  Nor is it a text cut short, as long as the provider
\* says so on the last line of its stream: one whose "length" a later line hides,
\* and one whose stream merely ends, pass for whole.
ToldIsGrounded ==
    told # <<>> =>
        /\ Places(told, Open) = {}
        /\ IsPrefix(told, answer)
        /\ Citations(answer) # {} /\ Citations(answer) \subseteq Known
        /\ heard \in {"whole", "hidden", "silent"}

\* The prompt keeps its budgets; its citations name different results, each
\* eligible and none a duplicate of another, in the order the search ranked them.
PromptIsSound ==
    prompt # <<>> =>
        /\ FixedTokens + Used(results, prompt) <= MaxPrompt
        /\ Used(results, prompt) <= MaxEvidence
        /\ \A i \in DOMAIN prompt : prompt[i] \in Eligible
        /\ \A i, j \in DOMAIN prompt : i < j =>
             prompt[i] < prompt[j] /\ results[prompt[i]].class # results[prompt[j]].class

\* The events of a stream: the retrieval, the text, its citations, the end; a
\* stream that fails or is cancelled has a beginning of that.
Order == [retrieval |-> 1, token |-> 2, citations |-> 3, complete |-> 4]

Said == {events[i] : i \in DOMAIN events}

EventsInOrder ==
    /\ \A i, j \in DOMAIN events : i < j =>
         \/ Order[events[i]] < Order[events[j]]
         \/ events[i] = "token" /\ events[j] = "token"
    /\ mode = "stream" /\ phase = "complete" => Said = Events

\* What the caller receives, and in which order.
TellingIsSound == ToldIsGrounded /\ EventsInOrder

\* A question costs a bounded number of requests to the provider: the stream
\* and one retried attempt, or two retried attempts.
PostsAreBounded == posts <= IF mode = "stream" THEN 3 ELSE 4

=============================================================================

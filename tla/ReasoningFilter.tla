--------------------------- MODULE ReasoningFilter ---------------------------
(***************************************************************************)
(* How app/services/llm_provider.py takes the reasoning of a model out of  *)
(* its text: suppress_reasoning of a complete text, and the filter a       *)
(* stream of chunks is fed to.                                             *)
(*                                                                         *)
(* A text is a sequence of symbols.  The tags are two symbols long, so     *)
(* that a chunk may end inside one: "<" "t" opens a block of reasoning and *)
(* "<" "/" closes it.                                                      *)
(***************************************************************************)
EXTENDS Naturals, Sequences, FiniteSetsExt

CONSTANTS
    Symbols,    \* of texts: parts of tags, citations, anything else
    Retain      \* symbols kept of an unfinished block (32)

ASSUME RetainAssumption == Retain \in Nat \ {0}

Texts == Seq(Symbols)

Open == <<"<", "t">>

Close == <<"<", "/">>

\* Where tag stands in text.
Places(text, tag) == {i \in 1..(Len(text) - 1) : SubSeq(text, i, i + 1) = tag}

\* The first of these places, 0 if there is none.
First(text, tag) == IF Places(text, tag) = {} THEN 0 ELSE Min(Places(text, tag))

From(text, k) == SubSeq(text, k, Len(text))

Before(text, k) == SubSeq(text, 1, k - 1)

\* _REASONING_BLOCK.sub: every block that is closed goes.
WithoutBlocks[text \in Texts] ==
    LET i == First(text, Open)
        block == From(text, i + 2)
        j == First(block, Close)
    IN  IF i = 0 \/ j = 0 THEN text
        ELSE Before(text, i) \o WithoutBlocks[From(block, j + 2)]

\* _UNCLOSED_REASONING.sub: from an opening tag that is left to the end.
WithoutTail(text) ==
    LET i == First(text, Open)
    IN  IF i = 0 THEN text ELSE Before(text, i)

\* suppress_reasoning; white space is not modelled.
Suppress(text) == WithoutTail(WithoutBlocks[text])

Filter == [buffer : Texts, inside : BOOLEAN]

NewFilter == [buffer |-> <<>>, inside |-> FALSE]

\* The loop of feed while a tag is found: what is left of the filter, and what
\* was emitted as out.
Consume[f \in Filter] ==
    LET b == f.buffer
        i == First(b, IF f.inside THEN Close ELSE Open)
        rest == Consume[[buffer |-> From(b, i + 2), inside |-> ~f.inside]]
    IN  IF i = 0 THEN [filter |-> f, out |-> <<>>]
        ELSE IF f.inside THEN rest
        ELSE [filter |-> rest.filter, out |-> Before(b, i) \o rest.out]

\* Mutant: everything read so far is passed on.
HeldBackNothing(buffer) == Len(buffer) + 1

\* The last "<" may begin a tag that the next chunk completes.
HeldBack(buffer) ==
    LET marks == {i \in DOMAIN buffer : buffer[i] = "<"}
    IN  IF marks = {} THEN Len(buffer) + 1 ELSE Max(marks)

\* The last symbols of an unfinished block, in which its end may begin.
Retained(buffer) == IF Len(buffer) > Retain THEN Len(buffer) - Retain + 1 ELSE 1

\* feed: the filter f after a chunk, and what it emits.
Feed(f, chunk, final) ==
    LET c == Consume[[f EXCEPT !.buffer = f.buffer \o chunk]]
        b == c.filter.buffer
        k == IF c.filter.inside THEN Retained(b) ELSE HeldBack(b)
    IN  IF final
        THEN [filter |-> [c.filter EXCEPT !.buffer = <<>>],
              out |-> IF c.filter.inside THEN c.out ELSE c.out \o b]
        ELSE [filter |-> [c.filter EXCEPT !.buffer = From(b, k)],
              out |-> IF c.filter.inside THEN c.out ELSE c.out \o Before(b, k)]

\* What a text shows, told without chunks: what stands outside its blocks.
Shown[text \in Texts] ==
    LET i == First(text, Open)
        block == From(text, i + 2)
        j == First(block, Close)
    IN  IF i = 0 THEN text
        ELSE IF j = 0 THEN Before(text, i)
        ELSE Before(text, i) \o Shown[From(block, j + 2)]

=============================================================================

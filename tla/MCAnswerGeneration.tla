------------------------- MODULE MCAnswerGeneration -------------------------
(***************************************************************************)
(* TLC instances of AnswerGeneration.                                      *)
(***************************************************************************)
EXTENDS AnswerGeneration

\* Tags, the first two citations, and other text.
MCSymbols == {"<", "t", "/", "C1", "C2"}

MCCitationIds == <<"C1", "C2", "C3">>

Found(size, class, eligible) == [size |-> size, class |-> class, eligible |-> eligible]

\* Nothing; one result; a duplicate between two; one too large before one that
\* fits; two whose sum is over the budget of evidence; none eligible;
\* only the second one eligible.
MCRetrievals ==
    {<<>>,
     <<Found(2, "x", TRUE)>>,
     <<Found(2, "x", TRUE), Found(2, "x", TRUE), Found(2, "y", TRUE)>>,
     <<Found(9, "x", TRUE), Found(3, "y", TRUE)>>,
     <<Found(3, "x", TRUE), Found(3, "y", TRUE), Found(1, "z", TRUE)>>,
     <<Found(9, "x", TRUE)>>,
     <<Found(2, "x", FALSE), Found(1, "y", FALSE)>>,
     <<Found(2, "x", FALSE), Found(1, "y", TRUE)>>}

\* Replies given at once: cited, uncited, all reasoning, cited in reasoning
\* only, an unknown citation, a tag left open.
MCReplies ==
    {<<"C1">>, <<"t">>, <<"<", "t", "C1", "<", "/">>, <<"<", "t", "C2", "<", "/", "C1">>,
     <<"C2">>, <<"C1", "<", "t", "C2">>}

=============================================================================

\* Every text of six symbols in chunks of up to two, and replies given at once.
SPECIFICATION AnswerSpec
CONSTANTS
    Retain = 1
    Classes = {"x", "y", "z"}
    Retrievals <- MCRetrievals
    MinEvidence = 1
    FixedTokens = 3
    MaxPrompt = 9
    MaxEvidence = 5
    CitationIds <- MCCitationIds
    Symbols <- MCSymbols
    Replies <- MCReplies
    MaxText = 6
    MaxChunk = 2
    DeltaSize = 2
INVARIANTS
    ChunksDoNotMatter
    TellingIsSound
    PromptIsSound
    PostsAreBounded
CHECK_DEADLOCK FALSE

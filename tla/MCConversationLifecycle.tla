----------------------- MODULE MCConversationLifecycle -----------------------
(***************************************************************************)
(* TLC instances of ConversationLifecycle.                                 *)
(***************************************************************************)
EXTENDS ConversationLifecycle, TLC

\* Requests are interchangeable, and so are conversations.
Symmetry == Permutations(Messages) \cup Permutations(Conversations)

=============================================================================

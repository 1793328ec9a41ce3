-------------------------- MODULE MCKnowledgeSearch --------------------------
(***************************************************************************)
(* KnowledgeSearch for model checking.                                     *)
(***************************************************************************)
EXTENDS KnowledgeSearch, TLC

\* Contents and requests are interchangeable.
Symmetry == Permutations(Versions) \cup Permutations(Handlers)

=============================================================================

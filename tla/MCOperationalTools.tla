------------------------ MODULE MCOperationalTools ------------------------
(***************************************************************************)
(* TLC instances of OperationalTools.                                      *)
(***************************************************************************)
EXTENDS OperationalTools, TLC

\* Requests, connectors and sessions are interchangeable.
Symmetry == Permutations(Requests) \cup Permutations(Connectors)
                \cup Permutations(Sessions)

=============================================================================

-------------------------- MODULE MCConnectorStatus --------------------------
(***************************************************************************)
(* TLC instances of ConnectorStatus.                                       *)
(***************************************************************************)
EXTENDS ConnectorStatus, TLC

\* Handlers are interchangeable.
Symmetry == Permutations(Handlers)

=============================================================================

---------------------- MODULE MCConnectorRegistration ----------------------
(***************************************************************************)
(* TLC instances of ConnectorRegistration.                                 *)
(***************************************************************************)
EXTENDS ConnectorRegistration, TLC

\* Tokens, appliances and handlers are interchangeable.
Symmetry == Permutations(Tokens) \cup Permutations(Instances)
                \cup Permutations(Handlers)

=============================================================================

-------------------------- MODULE MCTenantAccounts --------------------------
(***************************************************************************)
(* TLC instances of TenantAccounts.                                        *)
(***************************************************************************)
EXTENDS TenantAccounts, TLC

\* Users and requests are interchangeable.
Symmetry == Permutations(Users) \cup Permutations(Requests)

=============================================================================

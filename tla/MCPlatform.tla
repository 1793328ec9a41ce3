----------------------------- MODULE MCPlatform -----------------------------
(***************************************************************************)
(* TLC instances of TenantLifecycle composed with PlatformAdministrators.  *)
(***************************************************************************)
EXTENDS TenantLifecycle, TLC

\* Two slugs that differ in case, and one more.
MCSlugs == {"Acme", "acme", "beta"}

\* The hosts are in lower case.
MCLower == [n \in MCSlugs \cup Hosts |-> IF n = "Acme" THEN "acme" ELSE n]

\* Accounts, requests and hosts are interchangeable.
Symmetry == Permutations(Accounts) \cup Permutations(Requests) \cup Permutations(Hosts)

=============================================================================

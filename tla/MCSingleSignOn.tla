--------------------------- MODULE MCSingleSignOn ---------------------------
(***************************************************************************)
(* TLC instances of SingleSignOn.                                          *)
(***************************************************************************)
EXTENDS SingleSignOn, TLC

CONSTANTS p1, p2, e1, e2

\* A person known by the sub alone, the same with both claims and a new email,
\* and another person who was given the former email.
MCIdentities ==
    {[person |-> p1, claims |-> {"sub"}, email |-> e1],
     [person |-> p1, claims |-> {"oid", "sub"}, email |-> e2],
     [person |-> p2, claims |-> {"oid"}, email |-> e1]}

\* Rows, states, requests and providers are interchangeable.
Symmetry ==
    Permutations(Users) \cup Permutations(Sessions) \cup Permutations(Requests)
        \cup Permutations(Issuers)

=============================================================================

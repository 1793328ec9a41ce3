------------------------- MODULE OneTimeCredential -------------------------
(***************************************************************************)
(* What a single-use token or link promises, whoever keeps it: a           *)
(* credential is issued, may be withdrawn while unspent, and is spent by   *)
(* one beneficiary at most, never after it was withdrawn.                  *)
(*                                                                         *)
(* Connector registration tokens and password reset tokens implement it.   *)
(* Expiry by the clock is a withdrawal where the implementation decides it *)
(* under the row lock, and is left to the implementation elsewhere.        *)
(***************************************************************************)
CONSTANTS
    Credentials,    \* tokens, links
    Beneficiaries   \* whom or what one may be spent on

VARIABLES
    state,          \* where each credential is in its life
    spentOn         \* the beneficiaries of each credential

vars == <<state, spentOn>>

States == {"unissued", "valid", "withdrawn", "spent"}

Init ==
    /\ state = [c \in Credentials |-> "unissued"]
    /\ spentOn = [c \in Credentials |-> {}]

\* One commit may issue some credentials and withdraw others.
Administer ==
    /\ state' \in [Credentials -> States]
    /\ \A c \in Credentials :
         \/ state'[c] = state[c]
         \/ state[c] = "unissued" /\ state'[c] = "valid"
         \/ state[c] = "valid" /\ state'[c] = "withdrawn"
    /\ UNCHANGED spentOn

Spend(c, b) ==
    /\ state[c] = "valid"
    /\ state' = [state EXCEPT ![c] = "spent"]
    /\ spentOn' = [spentOn EXCEPT ![c] = {b}]

Next ==
    \/ Administer
    \/ \E c \in Credentials, b \in Beneficiaries : Spend(c, b)

Spec == Init /\ [][Next]_vars

\* A credential has one beneficiary at most, and none unless it is spent.
SpentOnce ==
    \A c \in Credentials :
        /\ \A b, d \in spentOn[c] : b = d
        /\ state[c] # "spent" => spentOn[c] = {}

=============================================================================

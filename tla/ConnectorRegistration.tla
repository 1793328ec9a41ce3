----------------------- MODULE ConnectorRegistration -----------------------
(***************************************************************************)
(* Registration tokens and the connectors registered with them             *)
(* (app/services/connector_service.py).  An administrator issues a token,  *)
(* an appliance registers with it once; the token may be revoked or        *)
(* expire, and the connector retired.                                      *)
(*                                                                         *)
(* register() locks the token row FOR UPDATE and holds the lock until it   *)
(* commits; revoke and the two expiry sweeps (the token list and the       *)
(* maintenance loop) read token rows without a lock and write them later,  *)
(* their UPDATE waiting for the lock.  The partial unique index on         *)
(* (tenant, instance) of unretired connectors decides when the INSERT is   *)
(* committed; the connector limit is only counted.                         *)
(*                                                                         *)
(* One tenant, the limit being per tenant.  An unknown token changes       *)
(* nothing and is not offered; capabilities and the events other than      *)
(* "registration token expired" are left out.                              *)
(***************************************************************************)
EXTENDS Naturals, FiniteSets

CONSTANTS
    Tokens,         \* registration tokens that may be issued
    Instances,      \* appliances, by instance_id
    Handlers,       \* concurrent request handlers
    Maintenance,    \* the session of connector_maintenance_loop
    None,           \* no token, no instance
    Lifetime,       \* token_lifetime
    Limit,          \* CONNECTOR_MAX_ACTIVE_PER_TENANT
    MaxTime         \* bound: the clock stops here

ASSUME RegistrationAssumption ==
    /\ Lifetime \in Nat \ {0}
    /\ Limit \in Nat
    /\ MaxTime \in Nat
    /\ Maintenance \notin Handlers
    /\ None \notin Tokens

VARIABLES
    clock,          \* datetime.now(UTC)
    tenantActive,   \* tenant.status = ACTIVE
    token,          \* the table connector_registration_tokens
    connectors,     \* the table managed_connectors
    session         \* what each handler and the maintenance loop is doing

vars == <<clock, tenantActive, token, connectors, session>>

Sessions == Handlers \cup {Maintenance}

Token == [issued : BOOLEAN, used : BOOLEAN, revoked : BOOLEAN, expires : Nat,
          expiryRecorded : BOOLEAN]

Connector == [token : Tokens, instance : Instances, retired : BOOLEAN]

Session == [op : {"idle", "register", "approved", "revoke", "sweep"},
            token : Tokens \cup {None}, instance : Instances \cup {None},
            now : Nat, seenUsed : BOOLEAN, seenRevoked : BOOLEAN,
            loaded : SUBSET Tokens]

NewToken == [issued |-> FALSE, used |-> FALSE, revoked |-> FALSE, expires |-> 0,
             expiryRecorded |-> FALSE]

Idle == [op |-> "idle", token |-> None, instance |-> None, now |-> 0,
         seenUsed |-> FALSE, seenRevoked |-> FALSE, loaded |-> {}]

Init ==
    /\ clock = 0
    /\ tenantActive = TRUE
    /\ token = [t \in Tokens |-> NewToken]
    /\ connectors = {}
    /\ session = [s \in Sessions |-> Idle]

\* The row lock of register, held from its SELECT to its COMMIT.
Locked(t) == \E s \in Sessions : session[s].op = "approved" /\ session[s].token = t

Active == {c \in connectors : ~c.retired}

\* get_active_by_instance
InstanceActive(i) == \E c \in Active : c.instance = i

\* count_active_for_tenant
LimitReached == Cardinality(Active) >= Limit

-----------------------------------------------------------------------------
(***************************************************************************)
(* Tokens.                                                                 *)
(***************************************************************************)

\* create_registration_token
CreateToken(t) ==
    /\ ~token[t].issued
    /\ clock + Lifetime <= MaxTime
    /\ token' = [token EXCEPT ![t].issued = TRUE, ![t].expires = clock + Lifetime]
    /\ UNCHANGED <<clock, tenantActive, connectors, session>>

\* revoke_registration_token: SELECT without a lock.
RevokeRead(s, t) ==
    /\ session[s].op = "idle"
    /\ token[t].issued
    /\ session' = [session EXCEPT ![s] = [Idle EXCEPT !.op = "revoke",
                                                      !.token = t,
                                                      !.seenUsed = token[t].used,
                                                      !.seenRevoked = token[t].revoked]]
    /\ UNCHANGED <<clock, tenantActive, token, connectors>>

\* 409 on a token seen used, nothing on one seen revoked, else the UPDATE.
RevokeWrite(s) ==
    LET t == session[s].token
    IN  /\ session[s].op = "revoke"
        /\ IF session[s].seenUsed \/ session[s].seenRevoked
           THEN UNCHANGED token
           ELSE ~Locked(t) /\ token' = [token EXCEPT ![t].revoked = TRUE]
        /\ session' = [session EXCEPT ![s] = Idle]
        /\ UNCHANGED <<clock, tenantActive, connectors>>

ExpiryDue(t, now) ==
    /\ token[t].issued
    /\ ~token[t].used
    /\ ~token[t].revoked
    /\ token[t].expires <= now
    /\ ~token[t].expiryRecorded

\* list_registration_tokens and maintenance: the tokens whose expiry is due.
SweepRead(s) ==
    /\ session[s].op = "idle"
    /\ \E t \in Tokens : ExpiryDue(t, clock)
    /\ session' = [session EXCEPT
                     ![s] = [Idle EXCEPT !.op = "sweep",
                                         !.loaded = {t \in Tokens : ExpiryDue(t, clock)}]]
    /\ UNCHANGED <<clock, tenantActive, token, connectors>>

\* Mutant: the events are written, the tokens are not marked.
SweepWriteUnmarked(s) ==
    /\ session[s].op = "sweep"
    /\ \A t \in session[s].loaded : ~Locked(t)
    /\ session' = [session EXCEPT ![s] = Idle]
    /\ UNCHANGED <<clock, tenantActive, token, connectors>>

\* ... and the UPDATE of each, with its event.
SweepWrite(s) ==
    /\ session[s].op = "sweep"
    /\ \A t \in session[s].loaded : ~Locked(t)
    /\ token' = [t \in Tokens |-> IF t \in session[s].loaded
                                  THEN [token[t] EXCEPT !.expiryRecorded = TRUE]
                                  ELSE token[t]]
    /\ session' = [session EXCEPT ![s] = Idle]
    /\ UNCHANGED <<clock, tenantActive, connectors>>

-----------------------------------------------------------------------------
(***************************************************************************)
(* Connectors.                                                             *)
(***************************************************************************)

\* register: the clock is read before the row lock is taken.
RegisterBegin(s, t, i) ==
    /\ session[s].op = "idle"
    /\ token[t].issued
    /\ session' = [session EXCEPT ![s] = [Idle EXCEPT !.op = "register",
                                                      !.token = t,
                                                      !.instance = i,
                                                      !.now = clock]]
    /\ UNCHANGED <<clock, tenantActive, token, connectors>>

\* Mutant: the single-use check is lost.
PermittedTwice(t, i, now) ==
    /\ ~token[t].revoked
    /\ token[t].expires > now
    /\ tenantActive
    /\ ~InstanceActive(i)
    /\ ~LimitReached

\* The checks of register, on the locked token.
Permitted(t, i, now) ==
    /\ ~token[t].used
    /\ ~token[t].revoked
    /\ token[t].expires > now
    /\ tenantActive
    /\ ~InstanceActive(i)
    /\ ~LimitReached

\* One of the checks fails.  An expired token's expiry is recorded first.
RegisterRefuse(s) ==
    LET t == session[s].token
    IN  /\ session[s].op = "register"
        /\ ~Locked(t)
        /\ ~Permitted(t, session[s].instance, session[s].now)
        /\ token' = IF ExpiryDue(t, session[s].now)
                    THEN [token EXCEPT ![t].expiryRecorded = TRUE]
                    ELSE token
        /\ session' = [session EXCEPT ![s] = Idle]
        /\ UNCHANGED <<clock, tenantActive, connectors>>

\* Every check passes: the lock is held on to.
RegisterApprove(s) ==
    /\ session[s].op = "register"
    /\ ~Locked(session[s].token)
    /\ Permitted(session[s].token, session[s].instance, session[s].now)
    /\ session' = [session EXCEPT ![s].op = "approved"]
    /\ UNCHANGED <<clock, tenantActive, token, connectors>>

\* The connector is inserted and the token spent, in one commit, unless the
\* unique index objects.
RegisterCommit(s) ==
    LET t == session[s].token
    IN  /\ session[s].op = "approved"
        /\ ~InstanceActive(session[s].instance)
        /\ connectors' = connectors \cup
             {[token |-> t, instance |-> session[s].instance, retired |-> FALSE]}
        /\ token' = [token EXCEPT ![t].used = TRUE]
        /\ session' = [session EXCEPT ![s] = Idle]
        /\ UNCHANGED <<clock, tenantActive>>

\* IntegrityError, any other database error, or the end of the process: the
\* transaction is rolled back.
RegisterRollback(s) ==
    /\ session[s].op = "approved"
    /\ session' = [session EXCEPT ![s] = Idle]
    /\ UNCHANGED <<clock, tenantActive, token, connectors>>

\* retire
Retire(c) ==
    /\ c \in Active
    /\ connectors' = (connectors \ {c}) \cup {[c EXCEPT !.retired = TRUE]}
    /\ UNCHANGED <<clock, tenantActive, token, session>>

-----------------------------------------------------------------------------

\* A platform administrator suspends or reactivates the tenant.
SetTenantStatus ==
    /\ tenantActive' = ~tenantActive
    /\ UNCHANGED <<clock, token, connectors, session>>

Tick ==
    /\ clock < MaxTime
    /\ clock' = clock + 1
    /\ UNCHANGED <<tenantActive, token, connectors, session>>

Register(s) ==
    RegisterRefuse(s) \/ RegisterApprove(s) \/ RegisterCommit(s) \/ RegisterRollback(s)

Next ==
    \/ \E t \in Tokens : CreateToken(t)
    \/ \E s \in Handlers :
         \/ \E t \in Tokens : RevokeRead(s, t)
         \/ \E t \in Tokens, i \in Instances : RegisterBegin(s, t, i)
         \/ RevokeWrite(s)
         \/ Register(s)
    \/ \E s \in Sessions : SweepRead(s) \/ SweepWrite(s)
    \/ \E c \in connectors : Retire(c)
    \/ SetTenantStatus
    \/ Tick

Spec == Init /\ [][Next]_vars

(***************************************************************************)
(* Handlers run on until they return, time passes, and the maintenance     *)
(* loop wakes up for ever.                                                 *)
(***************************************************************************)
Fairness ==
    /\ WF_vars(Tick)
    /\ \A s \in Handlers : WF_vars(Register(s)) /\ WF_vars(RevokeWrite(s))
    /\ \A s \in Sessions : SF_vars(SweepWrite(s))
    /\ WF_vars(SweepRead(Maintenance))

FairSpec == Spec /\ Fairness

-----------------------------------------------------------------------------
(***************************************************************************)
(* Properties.                                                             *)
(***************************************************************************)

\* Type invariant of the two tables and the sessions.
TypeOK ==
    /\ clock \in Nat
    /\ tenantActive \in BOOLEAN
    /\ token \in [Tokens -> Token]
    /\ connectors \subseteq Connector
    /\ session \in [Sessions -> Session]

\* ADR 0005, "single-use": a token has made at most one connector, however
\* many registrations raced with it, and it is spent exactly when it has.
SingleUse ==
    /\ \A c, d \in connectors : c.token = d.token => c = d
    /\ \A t \in Tokens : token[t].used <=> \E c \in connectors : c.token = t

\* ADR 0004: an appliance is never silently registered twice.
OneActivePerInstance ==
    \A c, d \in Active : c.instance = d.instance => c = d

\* A revocation that has committed wins over every registration still under
\* way: the token is not spent any more.
NoUseAfterRevocation ==
    [][\A t \in Tokens : token[t].revoked => token'[t].used = token[t].used]_vars

\* The expiry of a token nobody used or revoked is recorded in the end.
ExpiryGetsRecorded ==
    \A t \in Tokens :
        token[t].issued /\ token[t].expires <= clock
            ~> token[t].expiryRecorded \/ token[t].used \/ token[t].revoked

TokenState == [t \in Tokens |->
    IF token[t].used THEN "spent"
    ELSE IF ~token[t].issued THEN "unissued"
    ELSE IF token[t].revoked THEN "withdrawn" ELSE "valid"]

TokenSpentOn == [t \in Tokens |-> {c.instance : c \in {d \in connectors : d.token = t}}]

RegistrationToken == INSTANCE OneTimeCredential WITH
    Credentials <- Tokens, Beneficiaries <- Instances,
    state <- TokenState, spentOn <- TokenSpentOn

\* A registration token is a one-time credential of appliances, over every
\* interleaving of registrations, revocations and sweeps; that a revocation may
\* still mark a token a registration has just spent changes neither.
TokensAreOneTime == RegistrationToken!Spec

=============================================================================

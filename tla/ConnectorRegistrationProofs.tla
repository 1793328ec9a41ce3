-------------------- MODULE ConnectorRegistrationProofs --------------------
(***************************************************************************)
(* Single use of registration tokens, for any number of tokens,            *)
(* appliances and handlers.  What carries the argument is LockInv: while a *)
(* registration is between its checks and its commit, nobody else is       *)
(* there with the same token, and what it checked about the token still    *)
(* holds, because every writer of the row waits for the lock.              *)
(***************************************************************************)
EXTENDS ConnectorRegistration, TLAPS

LockInv ==
    /\ \A s \in Sessions :
          /\ session[s].op \in {"register", "approved"} =>
                session[s].token \in Tokens /\ session[s].instance \in Instances
          /\ session[s].op = "approved" =>
                /\ ~token[session[s].token].used
                /\ ~token[session[s].token].revoked
    /\ \A s, u \in Sessions :
          /\ session[s].op = "approved" /\ session[u].op = "approved"
          /\ session[s].token = session[u].token
          => s = u

IInv == TypeOK /\ LockInv /\ SingleUse /\ OneActivePerInstance

-----------------------------------------------------------------------------

LEMMA InitIInv == Init => IInv
  BY RegistrationAssumption
  DEF Init, IInv, TypeOK, LockInv, SingleUse, OneActivePerInstance, Active,
      NewToken, Idle, Token, Connector, Session

LEMMA TypeStep == IInv /\ [Next]_vars => TypeOK'
  <1> SUFFICES ASSUME TypeOK, LockInv, [Next]_vars PROVE TypeOK'
    BY DEF IInv
  <1>t. \A t \in Tokens : token[t] \in Token
    BY DEF TypeOK
  <1>s. \A s \in Sessions : session[s] \in Session
    BY DEF TypeOK
  <1>h. Handlers \subseteq Sessions
    BY DEF Sessions
  <1>i. Idle \in Session
    BY DEF Idle, Session
  <1>1. ASSUME NEW t \in Tokens, CreateToken(t) PROVE TypeOK'
    <2>1. clock + Lifetime \in Nat
      BY RegistrationAssumption DEF TypeOK
    <2>2. [token[t] EXCEPT !.issued = TRUE, !.expires = clock + Lifetime] \in Token
      BY <1>t, <2>1 DEF Token
    <2> QED BY <1>1, <2>2 DEF CreateToken, TypeOK
  <1>2. ASSUME NEW s \in Handlers, NEW t \in Tokens, RevokeRead(s, t) PROVE TypeOK'
    <2>1. [Idle EXCEPT !.op = "revoke", !.token = t, !.seenUsed = token[t].used,
                       !.seenRevoked = token[t].revoked] \in Session
      BY <1>t DEF Idle, Session, Token
    <2> QED BY <1>2, <1>h, <2>1 DEF RevokeRead, TypeOK
  <1>3. ASSUME NEW s \in Handlers, NEW t \in Tokens, NEW i \in Instances,
               RegisterBegin(s, t, i)
        PROVE  TypeOK'
    <2>1. clock \in Nat
      BY DEF TypeOK
    <2>2. [Idle EXCEPT !.op = "register", !.token = t, !.instance = i, !.now = clock]
             \in Session
      BY <2>1 DEF Idle, Session
    <2> QED BY <1>3, <1>h, <2>2 DEF RegisterBegin, TypeOK
  <1>4. ASSUME NEW s \in Handlers, RevokeWrite(s) PROVE TypeOK'
    <2>1. \A t \in Tokens : [token[t] EXCEPT !.revoked = TRUE] \in Token
      BY <1>t DEF Token
    <2>2. token' \in [Tokens -> Token]
      BY <1>4, <2>1 DEF RevokeWrite, TypeOK
    <2> QED BY <1>4, <1>h, <1>i, <2>2 DEF RevokeWrite, TypeOK
  <1>5. ASSUME NEW s \in Handlers, Register(s) PROVE TypeOK'
    <2>1. CASE RegisterRefuse(s)
      <3>1. \A t \in Tokens : [token[t] EXCEPT !.expiryRecorded = TRUE] \in Token
        BY <1>t DEF Token
      <3>2. token' \in [Tokens -> Token]
        BY <2>1, <3>1 DEF RegisterRefuse, TypeOK
      <3> QED BY <2>1, <1>h, <1>i, <3>2 DEF RegisterRefuse, TypeOK
    <2>2. CASE RegisterApprove(s)
      <3>1. [session[s] EXCEPT !.op = "approved"] \in Session
        BY <1>s, <1>h DEF Session
      <3> QED BY <2>2, <1>h, <3>1 DEF RegisterApprove, TypeOK
    <2>3. CASE RegisterCommit(s)
      <3>0. session[s].token \in Tokens /\ session[s].instance \in Instances
        BY <1>h, <2>3 DEF RegisterCommit, LockInv
      <3>1. [token[session[s].token] EXCEPT !.used = TRUE] \in Token
        BY <1>t, <3>0 DEF Token
      <3>2. [token |-> session[s].token, instance |-> session[s].instance,
             retired |-> FALSE] \in Connector
        BY <3>0 DEF Connector
      <3> QED BY <2>3, <1>h, <1>i, <3>1, <3>2 DEF RegisterCommit, TypeOK
    <2>4. CASE RegisterRollback(s)
      BY <2>4, <1>h, <1>i DEF RegisterRollback, TypeOK
    <2> QED BY <1>5, <2>1, <2>2, <2>3, <2>4 DEF Register
  <1>6. ASSUME NEW s \in Sessions, SweepRead(s) PROVE TypeOK'
    <2> DEFINE due == {t \in Tokens : ExpiryDue(t, clock)}
    <2>1. due \in SUBSET Tokens
      OBVIOUS
    <2> HIDE DEF due
    <2>2. [Idle EXCEPT !.op = "sweep", !.loaded = due] \in Session
      BY <2>1 DEF Idle, Session
    <2> QED BY <1>6, <2>2 DEF SweepRead, TypeOK, due
  <1>7. ASSUME NEW s \in Sessions, SweepWrite(s) PROVE TypeOK'
    <2>1. \A t \in Tokens : [token[t] EXCEPT !.expiryRecorded = TRUE] \in Token
      BY <1>t DEF Token
    <2>2. token' \in [Tokens -> Token]
      BY <1>7, <1>t, <2>1 DEF SweepWrite
    <2> QED BY <1>7, <1>i, <2>2 DEF SweepWrite, TypeOK
  <1>8. ASSUME NEW c \in connectors, Retire(c) PROVE TypeOK'
    <2>1. c \in Connector
      BY DEF TypeOK
    <2>2. [c EXCEPT !.retired = TRUE] \in Connector
      BY <2>1 DEF Connector
    <2> QED BY <1>8, <2>2 DEF Retire, TypeOK
  <1>9. CASE SetTenantStatus
    BY <1>9 DEF SetTenantStatus, TypeOK
  <1>10. CASE Tick
    BY <1>10 DEF Tick, TypeOK
  <1>11. CASE UNCHANGED vars
    BY <1>11 DEF vars, TypeOK
  <1> QED BY <1>1, <1>2, <1>3, <1>4, <1>5, <1>6, <1>7, <1>8, <1>9, <1>10, <1>11
          DEF Next

-----------------------------------------------------------------------------
(***************************************************************************)
(* The lock.                                                               *)
(***************************************************************************)

\* A step after which session s holds no lock, and which leaves alone what the
\* holders of the other locks have checked.
LEMMA LockFrame ==
    ASSUME IInv, NEW s \in Sessions, NEW x,
           session' = [session EXCEPT ![s] = x],
           x.op # "approved",
           x.op = "register" => x.token \in Tokens /\ x.instance \in Instances,
           \A u \in Sessions \ {s} :
              session[u].op = "approved" =>
                 /\ token'[session[u].token].used = token[session[u].token].used
                 /\ token'[session[u].token].revoked = token[session[u].token].revoked
    PROVE  LockInv'
  <1>1. /\ session'[s] = x
        /\ \A u \in Sessions \ {s} : session'[u] = session[u]
    BY DEF IInv, TypeOK
  <1>2. ASSUME NEW u \in Sessions
        PROVE  /\ session'[u].op \in {"register", "approved"} =>
                     session'[u].token \in Tokens /\ session'[u].instance \in Instances
               /\ session'[u].op = "approved" =>
                     /\ ~token'[session'[u].token].used
                     /\ ~token'[session'[u].token].revoked
    <2>1. CASE u = s
      BY <1>1, <2>1
    <2>2. CASE u # s
      BY <1>1, <2>2 DEF IInv, LockInv
    <2> QED BY <2>1, <2>2
  <1>3. ASSUME NEW u \in Sessions, NEW v \in Sessions,
               session'[u].op = "approved", session'[v].op = "approved",
               session'[u].token = session'[v].token
        PROVE  u = v
    <2>1. u # s /\ v # s
      BY <1>1, <1>3
    <2> QED BY <1>1, <1>3, <2>1 DEF IInv, LockInv
  <1> QED BY <1>2, <1>3 DEF LockInv

LEMMA LockStep == IInv /\ [Next]_vars => LockInv'
  <1> SUFFICES ASSUME IInv, [Next]_vars PROVE LockInv'
    OBVIOUS
  <1>t. /\ token \in [Tokens -> Token]
        /\ session \in [Sessions -> Session]
    BY DEF IInv, TypeOK
  <1>l. \A u \in Sessions : session[u].op = "approved" => session[u].token \in Tokens
    BY DEF IInv, LockInv
  <1>h. Handlers \subseteq Sessions
    BY DEF Sessions
  <1>i. Idle.op = "idle"
    BY DEF Idle
  \* Steps of the environment and of the token's owner.
  <1>0. ASSUME UNCHANGED session,
               \A t \in Tokens : /\ token'[t].used = token[t].used
                                 /\ token'[t].revoked = token[t].revoked
        PROVE  LockInv'
    BY <1>0, <1>l DEF IInv, LockInv
  <1>1. ASSUME NEW t \in Tokens, CreateToken(t) PROVE LockInv'
    BY <1>0, <1>1, <1>t DEF CreateToken
  <1>2. ASSUME NEW s \in Handlers, NEW t \in Tokens, RevokeRead(s, t) PROVE LockInv'
    <2> DEFINE x == [Idle EXCEPT !.op = "revoke", !.token = t,
                                 !.seenUsed = token[t].used,
                                 !.seenRevoked = token[t].revoked]
    <2>1. x.op = "revoke"
      BY DEF Idle
    <2>2. session' = [session EXCEPT ![s] = x] /\ token' = token
      BY <1>2 DEF RevokeRead
    <2> HIDE DEF x
    <2> QED BY <1>h, <2>1, <2>2, LockFrame
  <1>3. ASSUME NEW s \in Handlers, NEW t \in Tokens, NEW i \in Instances,
               RegisterBegin(s, t, i)
        PROVE  LockInv'
    <2> DEFINE x == [Idle EXCEPT !.op = "register", !.token = t, !.instance = i,
                                 !.now = clock]
    <2>1. x.op = "register" /\ x.token = t /\ x.instance = i
      BY DEF Idle
    <2>2. session' = [session EXCEPT ![s] = x] /\ token' = token
      BY <1>3 DEF RegisterBegin
    <2> HIDE DEF x
    <2> QED BY <1>h, <2>1, <2>2, LockFrame
  \* The UPDATE of a revocation has waited for the lock.
  <1>4. ASSUME NEW s \in Handlers, RevokeWrite(s) PROVE LockInv'
    <2>1. session' = [session EXCEPT ![s] = Idle]
      BY <1>4 DEF RevokeWrite
    <2>2. ASSUME NEW u \in Sessions \ {s}, session[u].op = "approved"
          PROVE  token'[session[u].token] = token[session[u].token]
      BY <1>4, <1>l, <1>t, <2>2 DEF RevokeWrite, Locked
    <2> QED BY <1>h, <1>i, <2>1, <2>2, LockFrame
  <1>5. ASSUME NEW s \in Handlers, RegisterRefuse(s) PROVE LockInv'
    <2>1. session' = [session EXCEPT ![s] = Idle]
      BY <1>5 DEF RegisterRefuse
    <2>2. \A t \in Tokens : /\ token'[t].used = token[t].used
                            /\ token'[t].revoked = token[t].revoked
      BY <1>5, <1>t DEF RegisterRefuse
    <2> QED BY <1>h, <1>i, <1>l, <2>1, <2>2, LockFrame
  \* The lock is free when it is taken.
  <1>6. ASSUME NEW s \in Handlers, RegisterApprove(s) PROVE LockInv'
    <2>1. s \in Sessions
      BY <1>h
    <2>2. /\ session'[s].op = "approved"
          /\ session'[s].token = session[s].token
          /\ session'[s].instance = session[s].instance
          /\ \A u \in Sessions \ {s} : session'[u] = session[u]
          /\ token' = token
      BY <1>6, <1>t, <2>1 DEF RegisterApprove
    <2>3. /\ session[s].token \in Tokens /\ session[s].instance \in Instances
          /\ ~token[session[s].token].used
          /\ ~token[session[s].token].revoked
      BY <1>6, <2>1 DEF RegisterApprove, Permitted, IInv, LockInv
    <2>4. \A u \in Sessions :
             session[u].op = "approved" => session[u].token # session[s].token
      BY <1>6 DEF RegisterApprove, Locked
    <2>5. ASSUME NEW u \in Sessions
          PROVE  /\ session'[u].op \in {"register", "approved"} =>
                       /\ session'[u].token \in Tokens
                       /\ session'[u].instance \in Instances
                 /\ session'[u].op = "approved" =>
                       /\ ~token'[session'[u].token].used
                       /\ ~token'[session'[u].token].revoked
      <3>1. CASE u = s
        BY <2>2, <2>3, <3>1
      <3>2. CASE u # s
        BY <2>2, <3>2 DEF IInv, LockInv
      <3> QED BY <3>1, <3>2
    <2>6. ASSUME NEW u \in Sessions, NEW v \in Sessions,
                 session'[u].op = "approved", session'[v].op = "approved",
                 session'[u].token = session'[v].token
          PROVE  u = v
      <3>1. CASE u # s /\ v # s
        BY <2>2, <2>6, <3>1 DEF IInv, LockInv
      <3>2. CASE u = s \/ v = s
        BY <2>2, <2>4, <2>6, <3>2
      <3> QED BY <3>1, <3>2
    <2> QED BY <2>5, <2>6 DEF LockInv
  <1>7. ASSUME NEW s \in Handlers, RegisterCommit(s) PROVE LockInv'
    <2>1. session' = [session EXCEPT ![s] = Idle]
      BY <1>7 DEF RegisterCommit
    <2>2. ASSUME NEW u \in Sessions \ {s}, session[u].op = "approved"
          PROVE  token'[session[u].token] = token[session[u].token]
      <3>1. session[u].token # session[s].token
        BY <1>7, <1>h, <2>2 DEF RegisterCommit, IInv, LockInv
      <3> QED BY <1>7, <1>l, <1>t, <2>2, <3>1 DEF RegisterCommit
    <2> QED BY <1>h, <1>i, <2>1, <2>2, LockFrame
  <1>8. ASSUME NEW s \in Handlers, RegisterRollback(s) PROVE LockInv'
    BY <1>8, <1>h, <1>i, LockFrame DEF RegisterRollback
  <1>9. ASSUME NEW s \in Sessions, SweepRead(s) PROVE LockInv'
    <2> DEFINE x == [Idle EXCEPT !.op = "sweep",
                                 !.loaded = {t \in Tokens : ExpiryDue(t, clock)}]
    <2>1. x.op = "sweep"
      BY DEF Idle
    <2>2. session' = [session EXCEPT ![s] = x] /\ token' = token
      BY <1>9 DEF SweepRead
    <2> HIDE DEF x
    <2> QED BY <2>1, <2>2, LockFrame
  <1>10. ASSUME NEW s \in Sessions, SweepWrite(s) PROVE LockInv'
    <2>1. session' = [session EXCEPT ![s] = Idle]
      BY <1>10 DEF SweepWrite
    <2>2. \A t \in Tokens : /\ token'[t].used = token[t].used
                            /\ token'[t].revoked = token[t].revoked
      <3> SUFFICES ASSUME NEW t \in Tokens
                   PROVE  /\ token'[t].used = token[t].used
                          /\ token'[t].revoked = token[t].revoked
        OBVIOUS
      <3>1. \/ token'[t] = token[t]
            \/ token'[t] = [token[t] EXCEPT !.expiryRecorded = TRUE]
        BY <1>10 DEF SweepWrite
      <3> QED BY <1>t, <3>1 DEF Token
    <2> QED BY <1>i, <1>l, <2>1, <2>2, LockFrame
  <1>11. ASSUME UNCHANGED <<token, session>> PROVE LockInv'
    BY <1>0, <1>11
  <1> QED BY <1>1, <1>2, <1>3, <1>4, <1>5, <1>6, <1>7, <1>8, <1>9, <1>10, <1>11
          DEF Next, Register, Retire, SetTenantStatus, Tick, vars

-----------------------------------------------------------------------------
(***************************************************************************)
(* The tables.                                                             *)
(***************************************************************************)

\* Every step but a commit and a retirement leaves the connectors and the
\* "used" column alone.
LEMMA QuietSteps ==
    ASSUME IInv, [Next]_vars,
           ~ \E s \in Handlers : RegisterCommit(s),
           ~ \E c \in connectors : Retire(c)
    PROVE  /\ connectors' = connectors
           /\ \A t \in Tokens : token'[t].used = token[t].used
  <1>t. token \in [Tokens -> Token]
    BY DEF IInv, TypeOK
  <1>1. ASSUME NEW t \in Tokens, CreateToken(t)
        PROVE  \A q \in Tokens : token'[q].used = token[q].used
    BY <1>1, <1>t DEF CreateToken, Token
  <1>2. ASSUME NEW s \in Handlers, RevokeWrite(s)
        PROVE  \A q \in Tokens : token'[q].used = token[q].used
    <2> SUFFICES ASSUME NEW q \in Tokens PROVE token'[q].used = token[q].used
      OBVIOUS
    <2>1. \/ token'[q] = token[q]
          \/ token'[q] = [token[q] EXCEPT !.revoked = TRUE]
      BY <1>2, <1>t DEF RevokeWrite
    <2> QED BY <1>t, <2>1 DEF Token
  <1>3. ASSUME NEW s \in Handlers, RegisterRefuse(s)
        PROVE  \A q \in Tokens : token'[q].used = token[q].used
    BY <1>3, <1>t DEF RegisterRefuse
  <1>4. ASSUME NEW s \in Sessions, SweepWrite(s)
        PROVE  \A q \in Tokens : token'[q].used = token[q].used
    <2> SUFFICES ASSUME NEW q \in Tokens PROVE token'[q].used = token[q].used
      OBVIOUS
    <2>1. \/ token'[q] = token[q]
          \/ token'[q] = [token[q] EXCEPT !.expiryRecorded = TRUE]
      BY <1>4 DEF SweepWrite
    <2> QED BY <1>t, <2>1 DEF Token
  <1>5. connectors' = connectors
    BY DEF Next, Register, CreateToken, RevokeRead, RevokeWrite, RegisterBegin,
           RegisterRefuse, RegisterApprove, RegisterRollback, SweepRead, SweepWrite,
           SetTenantStatus, Tick, vars
  <1>6. (\A q \in Tokens : token'[q].used = token[q].used) \/ UNCHANGED token
    BY <1>1, <1>2, <1>3, <1>4
    DEF Next, Register, RevokeRead, RegisterBegin, RegisterApprove,
        RegisterRollback, SweepRead, SetTenantStatus, Tick, vars
  <1> QED BY <1>5, <1>6

LEMMA SingleUseStep == IInv /\ [Next]_vars => SingleUse'
  <1> SUFFICES ASSUME IInv, [Next]_vars PROVE SingleUse'
    OBVIOUS
  <1>t. token \in [Tokens -> Token] /\ connectors \subseteq Connector
    BY DEF IInv, TypeOK
  <1>u. SingleUse
    BY DEF IInv
  <1>1. ASSUME NEW s \in Handlers, RegisterCommit(s) PROVE SingleUse'
    <2>1. PICK t \in Tokens : t = session[s].token
      BY <1>1 DEF RegisterCommit, IInv, LockInv, Sessions
    <2>2. ~token[t].used
      BY <1>1, <2>1 DEF RegisterCommit, IInv, LockInv, Sessions
    <2> DEFINE n == [token |-> t, instance |-> session[s].instance, retired |-> FALSE]
    <2>3. n.token = t
      OBVIOUS
    <2>4. connectors' = connectors \cup {n} /\ token' = [token EXCEPT ![t].used = TRUE]
      BY <1>1, <2>1 DEF RegisterCommit
    <2> HIDE DEF n
    <2>5. \A c \in connectors : c.token # t
      BY <1>u, <2>2 DEF SingleUse
    <2>6. \A c, d \in connectors' : c.token = d.token => c = d
      BY <1>u, <2>3, <2>4, <2>5 DEF SingleUse
    <2>7. ASSUME NEW q \in Tokens
          PROVE  token'[q].used <=> \E c \in connectors' : c.token = q
      <3>1. CASE q = t
        BY <1>t, <2>3, <2>4, <3>1
      <3>2. CASE q # t
        <4>1. token'[q] = token[q]
          BY <1>t, <2>4, <3>2
        <4>2. (\E c \in connectors' : c.token = q) <=> \E c \in connectors : c.token = q
          BY <2>3, <2>4, <3>2
        <4> QED BY <1>u, <4>1, <4>2 DEF SingleUse
      <3> QED BY <3>1, <3>2
    <2> QED BY <2>6, <2>7 DEF SingleUse
  <1>2. ASSUME NEW c \in connectors, Retire(c) PROVE SingleUse'
    <2> DEFINE n == [c EXCEPT !.retired = TRUE]
    <2>1. n.token = c.token
      BY <1>t DEF Connector
    <2>2. connectors' = (connectors \ {c}) \cup {n} /\ token' = token
      BY <1>2 DEF Retire
    <2> HIDE DEF n
    <2>3. \A d, e \in connectors' : d.token = e.token => d = e
      BY <1>u, <2>1, <2>2 DEF SingleUse
    <2>4. ASSUME NEW q \in Tokens
          PROVE  (\E d \in connectors' : d.token = q) <=> \E d \in connectors : d.token = q
      BY <2>1, <2>2
    <2> QED BY <1>u, <2>2, <2>3, <2>4 DEF SingleUse
  <1>3. CASE ~ (\E s \in Handlers : RegisterCommit(s))
             /\ ~ \E c \in connectors : Retire(c)
    BY <1>u, <1>3, QuietSteps DEF SingleUse
  <1> QED BY <1>1, <1>2, <1>3

LEMMA OneActiveStep == IInv /\ [Next]_vars => OneActivePerInstance'
  <1> SUFFICES ASSUME IInv, [Next]_vars PROVE OneActivePerInstance'
    OBVIOUS
  <1>u. OneActivePerInstance
    BY DEF IInv
  <1>1. ASSUME NEW s \in Handlers, RegisterCommit(s) PROVE OneActivePerInstance'
    <2> DEFINE n == [token |-> session[s].token, instance |-> session[s].instance,
                     retired |-> FALSE]
    <2>1. n.instance = session[s].instance
      OBVIOUS
    <2>2. connectors' = connectors \cup {n} /\ ~InstanceActive(session[s].instance)
      BY <1>1 DEF RegisterCommit
    <2> HIDE DEF n
    <2>3. Active' \subseteq Active \cup {n}
      BY <2>2 DEF Active
    <2>4. \A c \in Active : c.instance # n.instance
      BY <2>1, <2>2 DEF InstanceActive
    <2> QED BY <1>u, <2>3, <2>4 DEF OneActivePerInstance
  <1>2. ASSUME NEW c \in connectors, Retire(c) PROVE OneActivePerInstance'
    <2>1. [c EXCEPT !.retired = TRUE].retired
      BY DEF IInv, TypeOK, Connector
    <2>2. Active' \subseteq Active
      BY <1>2, <2>1 DEF Retire, Active
    <2> QED BY <1>u, <2>2 DEF OneActivePerInstance
  <1>3. CASE ~ (\E s \in Handlers : RegisterCommit(s))
             /\ ~ \E c \in connectors : Retire(c)
    BY <1>u, <1>3, QuietSteps DEF OneActivePerInstance, Active
  <1> QED BY <1>1, <1>2, <1>3

\* The strengthening of the safety properties.
THEOREM Inductive == Spec => []IInv
  <1>1. IInv /\ [Next]_vars => IInv'
    BY TypeStep, LockStep, SingleUseStep, OneActiveStep DEF IInv
  <1> QED BY <1>1, InitIInv, PTL DEF Spec

\* Every reachable state is well typed.
THEOREM TypeCorrect == Spec => []TypeOK
  <1>1. IInv => TypeOK
    BY DEF IInv
  <1> QED BY <1>1, Inductive, PTL

\* A token makes one connector, and is spent exactly when it has.
THEOREM TokensAreSingleUse == Spec => []SingleUse
  <1>1. IInv => SingleUse
    BY DEF IInv
  <1> QED BY <1>1, Inductive, PTL

\* No appliance is active twice.
THEOREM AppliancesAreUnique == Spec => []OneActivePerInstance
  <1>1. IInv => OneActivePerInstance
    BY DEF IInv
  <1> QED BY <1>1, Inductive, PTL

\* A committed revocation wins over every registration under way.
THEOREM RevocationWins == Spec => NoUseAfterRevocation
  <1>1. ASSUME IInv, [Next]_vars, NEW t \in Tokens, token[t].revoked
        PROVE  token'[t].used = token[t].used
    <2>t. token \in [Tokens -> Token]
      BY <1>1 DEF IInv, TypeOK
    <2>1. ASSUME NEW s \in Handlers, RegisterCommit(s)
          PROVE  token'[t].used = token[t].used
      <3>1. session[s].token # t
        BY <1>1, <2>1 DEF RegisterCommit, IInv, LockInv, Sessions
      <3> QED BY <2>1, <2>t, <3>1 DEF RegisterCommit
    <2>2. ASSUME NEW c \in connectors, Retire(c) PROVE token'[t].used = token[t].used
      BY <2>2 DEF Retire
    <2> QED BY <1>1, <2>1, <2>2, QuietSteps
  <1>2. IInv /\ [Next]_vars =>
           [\A t \in Tokens : token[t].revoked => token'[t].used = token[t].used]_vars
    BY <1>1
  <1> QED BY <1>2, Inductive, PTL DEF Spec, NoUseAfterRevocation

-----------------------------------------------------------------------------
(***************************************************************************)
(* The refinement of OneTimeCredential.                                    *)
(***************************************************************************)

Writing == {"register", "approved", "revoke"}

\* Only issued tokens are used or revoked.
IssuedInv ==
    /\ \A s \in Sessions :
          session[s].op \in Writing =>
             session[s].token \in Tokens /\ token[session[s].token].issued
    /\ \A t \in Tokens : token[t].revoked => token[t].issued

LEMMA IssuedGrows ==
    ASSUME IInv, [Next]_vars, NEW t \in Tokens, token[t].issued
    PROVE  token'[t].issued
  <1>0. token \in [Tokens -> Token] /\ token[t] \in Token
    BY DEF IInv, TypeOK
  <1>1. ASSUME NEW u \in Tokens, CreateToken(u) PROVE token'[t].issued
    <2>1. PICK row : row = [token[u] EXCEPT !.issued = TRUE, !.expires = clock + Lifetime]
      OBVIOUS
    <2>2. row.issued
      BY <1>0, <2>1 DEF Token
    <2>3. token' = [token EXCEPT ![u] = row]
      BY <1>1, <2>1 DEF CreateToken
    <2> QED BY <1>0, <2>2, <2>3
  <1>2. ASSUME NEW s \in Handlers, RevokeWrite(s) PROVE token'[t].issued
    BY <1>0, <1>2 DEF RevokeWrite, Token
  <1>3. ASSUME NEW s \in Handlers, RegisterCommit(s) PROVE token'[t].issued
    BY <1>0, <1>3 DEF RegisterCommit, Token
  <1>4. ASSUME NEW s \in Sessions, SweepWrite(s) PROVE token'[t].issued
    BY <1>0, <1>4 DEF SweepWrite, Token
  <1>5. CASE UNCHANGED token
    BY <1>5
  <1>6. ASSUME NEW s \in Handlers, Register(s) PROVE token'[t].issued
    <2>1. CASE RegisterRefuse(s)
      BY <1>0, <2>1 DEF RegisterRefuse, Token
    <2>2. CASE RegisterApprove(s) \/ RegisterRollback(s)
      BY <1>5, <2>2 DEF RegisterApprove, RegisterRollback
    <2> QED BY <1>3, <1>6, <2>1, <2>2 DEF Register
  <1>7. ASSUME NEW s \in Sessions, NEW u \in Tokens,
               RevokeRead(s, u) \/ (\E i \in Instances : RegisterBegin(s, u, i)) \/ SweepRead(s)
        PROVE  UNCHANGED token
    BY <1>7 DEF RevokeRead, RegisterBegin, SweepRead
  <1>8. ASSUME (\E c \in connectors : Retire(c)) \/ SetTenantStatus \/ Tick \/ UNCHANGED vars
        PROVE  UNCHANGED token
    BY <1>8 DEF Retire, SetTenantStatus, Tick, vars
  <1> QED BY <1>1, <1>2, <1>4, <1>5, <1>6, <1>7, <1>8 DEF Next, Sessions

LEMMA IssuedInit == Init => IssuedInv
  BY DEF Init, IssuedInv, Idle, NewToken, Writing

\* Whom a step revokes was issued.
LEMMA RevokedWasIssued ==
    ASSUME IInv, IssuedInv, [Next]_vars, NEW t \in Tokens
    PROVE  /\ token'[t].revoked => token[t].issued
           /\ token[t].revoked => token'[t].revoked
  <1>t. token \in [Tokens -> Token]
    BY DEF IInv, TypeOK
  <1>h. Handlers \subseteq Sessions
    BY DEF Sessions
  <1>1. ASSUME NEW s \in Handlers, RevokeWrite(s)
        PROVE  /\ token'[t].revoked => token[t].issued
               /\ token[t].revoked => token'[t].revoked
    <2>1. session[s].token \in Tokens /\ token[session[s].token].issued
      BY <1>1, <1>h DEF RevokeWrite, IssuedInv, Writing
    <2>2. \/ token'[t] = token[t]
          \/ t = session[s].token /\ token'[t] = [token[t] EXCEPT !.revoked = TRUE]
      BY <1>1, <1>t, <2>1 DEF RevokeWrite
    <2> QED BY <1>t, <2>1, <2>2 DEF IssuedInv, Token
  <1>2. ASSUME NEW q \in Tokens, CreateToken(q) PROVE token'[t].revoked = token[t].revoked
    BY <1>2, <1>t DEF CreateToken, Token
  <1>3. ASSUME NEW s \in Handlers, Register(s) PROVE token'[t].revoked = token[t].revoked
    BY <1>3, <1>t DEF Register, RegisterRefuse, RegisterApprove, RegisterCommit,
                      RegisterRollback, Token
  <1>4. ASSUME NEW s \in Sessions, SweepWrite(s) PROVE token'[t].revoked = token[t].revoked
    <2>1. \/ token'[t] = token[t]
          \/ token'[t] = [token[t] EXCEPT !.expiryRecorded = TRUE]
      BY <1>4 DEF SweepWrite
    <2> QED BY <1>t, <2>1 DEF Token
  <1>5. CASE token' = token
    BY <1>5 DEF IssuedInv
  <1>6. CASE token'[t].revoked = token[t].revoked
    BY <1>6 DEF IssuedInv
  <1> QED BY <1>1, <1>2, <1>3, <1>4, <1>5, <1>6
          DEF Next, RevokeRead, RegisterBegin, SweepRead, Retire, SetTenantStatus,
              Tick, vars

\* A session writes only for a token it has seen.
LEMMA WritersStep ==
    ASSUME IInv, IssuedInv, [Next]_vars, NEW s \in Sessions, session'[s].op \in Writing
    PROVE  session'[s].token \in Tokens /\ token[session'[s].token].issued
  <1>t. session \in [Sessions -> Session]
    BY DEF IInv, TypeOK
  <1>i. Idle.op = "idle"
    BY DEF Idle
  <1>1. \/ session'[s] = session[s]
        \/ session'[s] = [session[s] EXCEPT !.op = "approved"] /\ session[s].op = "register"
        \/ session'[s] = Idle
        \/ session'[s].op = "sweep"
        \/ \E t \in Tokens : token[t].issued /\ session'[s].token = t
    <2>1. ASSUME NEW u \in Handlers, NEW t \in Tokens, RevokeRead(u, t)
          PROVE  session'[s] = session[s] \/ (token[t].issued /\ session'[s].token = t)
      <3> DEFINE x == [Idle EXCEPT !.op = "revoke", !.token = t,
                                   !.seenUsed = token[t].used,
                                   !.seenRevoked = token[t].revoked]
      <3>1. x.token = t
        BY DEF Idle
      <3>2. session' = [session EXCEPT ![u] = x] /\ token[t].issued
        BY <2>1 DEF RevokeRead
      <3>3. token[t].issued /\ session' = [session EXCEPT ![u] = x]
        BY <3>2
      <3> HIDE DEF x
      <3>4. session'[s] = session[s] \/ session'[s] = x
        BY <1>t, <3>3
      <3> QED BY <3>1, <3>3, <3>4
    <2>2. ASSUME NEW u \in Handlers, NEW t \in Tokens, NEW i \in Instances,
                 RegisterBegin(u, t, i)
          PROVE  session'[s] = session[s] \/ (token[t].issued /\ session'[s].token = t)
      <3> DEFINE x == [Idle EXCEPT !.op = "register", !.token = t, !.instance = i,
                                   !.now = clock]
      <3>1. x.token = t
        BY DEF Idle
      <3>2. session' = [session EXCEPT ![u] = x] /\ token[t].issued
        BY <2>2 DEF RegisterBegin
      <3>3. token[t].issued /\ session' = [session EXCEPT ![u] = x]
        BY <3>2
      <3> HIDE DEF x
      <3>4. session'[s] = session[s] \/ session'[s] = x
        BY <1>t, <3>3
      <3> QED BY <3>1, <3>3, <3>4
    <2>3. ASSUME NEW u \in Handlers, RevokeWrite(u)
          PROVE  session'[s] = session[s] \/ session'[s] = Idle
      BY <1>t, <2>3 DEF RevokeWrite
    <2>4. ASSUME NEW u \in Handlers, Register(u)
          PROVE  \/ session'[s] = session[s]
                 \/ session'[s] = Idle
                 \/ /\ session'[s] = [session[s] EXCEPT !.op = "approved"]
                    /\ session[s].op = "register"
      BY <1>t, <2>4 DEF Register, RegisterRefuse, RegisterApprove, RegisterCommit,
                        RegisterRollback
    <2>5. ASSUME NEW u \in Sessions, SweepRead(u)
          PROVE  session'[s] = session[s] \/ session'[s].op = "sweep"
      BY <1>t, <2>5 DEF SweepRead, Idle
    <2>6. ASSUME NEW u \in Sessions, SweepWrite(u)
          PROVE  session'[s] = session[s] \/ session'[s] = Idle
      BY <1>t, <2>6 DEF SweepWrite
    <2>7. CASE session' = session
      BY <2>7
    <2> QED BY <2>1, <2>2, <2>3, <2>4, <2>5, <2>6, <2>7
            DEF Next, CreateToken, Retire, SetTenantStatus, Tick, vars
  <1> QED BY <1>1, <1>i, <1>t DEF IssuedInv, Writing, Session

LEMMA IssuedStep == IInv /\ IssuedInv /\ [Next]_vars => IssuedInv'
  <1> SUFFICES ASSUME IInv, IssuedInv, [Next]_vars PROVE IssuedInv'
    OBVIOUS
  <1>1. \A s \in Sessions :
           session'[s].op \in Writing =>
              session'[s].token \in Tokens /\ token'[session'[s].token].issued
    BY WritersStep, IssuedGrows
  <1>2. \A t \in Tokens : token'[t].revoked => token'[t].issued
    BY RevokedWasIssued, IssuedGrows
  <1> QED BY <1>1, <1>2 DEF IssuedInv, Writing

\* A commit spends the token of its registration on its appliance.
LEMMA CommitSpends ==
    ASSUME IInv, IssuedInv, NEW s \in Handlers, RegisterCommit(s)
    PROVE  RegistrationToken!Next
  <1> DEFINE t == session[s].token
             i == session[s].instance
             n == [token |-> t, instance |-> i, retired |-> FALSE]
  <1>t. token \in [Tokens -> Token]
    BY DEF IInv, TypeOK
  <1>1. /\ t \in Tokens /\ i \in Instances
        /\ ~token[t].used /\ ~token[t].revoked /\ token[t].issued
    BY DEF RegisterCommit, IInv, LockInv, IssuedInv, Writing, Sessions
  <1>2. connectors' = connectors \cup {n} /\ token' = [token EXCEPT ![t].used = TRUE]
    BY DEF RegisterCommit
  <1>n. n.token = t /\ n.instance = i
    OBVIOUS
  <1> HIDE DEF t, i, n
  <1>3. TokenState[t] = "valid"
    BY <1>1 DEF TokenState
  <1>4. TokenState' = [TokenState EXCEPT ![t] = "spent"]
    <2>1. /\ token'[t].used
          /\ \A q \in Tokens \ {t} : token'[q] = token[q]
      BY <1>t, <1>1, <1>2 DEF Token
    <2>2. \A q \in Tokens : TokenState'[q] = IF q = t THEN "spent" ELSE TokenState[q]
      BY <2>1 DEF TokenState
    <2>3. /\ TokenState = [q \in Tokens |-> TokenState[q]]
          /\ TokenState' = [q \in Tokens |-> TokenState'[q]]
      BY DEF TokenState
    <2> QED BY <1>1, <2>2, <2>3
  <1>5. \A c \in connectors : c.token # t
    BY <1>1 DEF IInv, SingleUse
  <1>6. TokenSpentOn' = [TokenSpentOn EXCEPT ![t] = {i}]
    <2>1. {d \in connectors' : d.token = t} = {n}
      BY <1>2, <1>5, <1>n
    <2>2. \A q \in Tokens \ {t} :
             {d \in connectors' : d.token = q} = {d \in connectors : d.token = q}
      BY <1>2, <1>n
    <2>3. {c.instance : c \in {n}} = {i}
      BY <1>n
    <2> QED BY <1>1, <2>1, <2>2, <2>3 DEF TokenSpentOn
  <1>7. RegistrationToken!Spend(t, i)
    BY <1>3, <1>4, <1>6 DEF RegistrationToken!Spend
  <1> QED BY <1>1, <1>7 DEF RegistrationToken!Next

\* A retirement keeps the appliances of every token.
LEMMA RetireKeeps ==
    ASSUME IInv, NEW c \in connectors, Retire(c)
    PROVE  TokenState' = TokenState /\ TokenSpentOn' = TokenSpentOn
  <1> DEFINE n == [c EXCEPT !.retired = TRUE]
  <1>1. n.token = c.token /\ n.instance = c.instance
    BY DEF IInv, TypeOK, Connector
  <1>2. connectors' = (connectors \ {c}) \cup {n} /\ token' = token
    BY DEF Retire
  <1> HIDE DEF n
  <1>3. ASSUME NEW q \in Tokens
        PROVE  {e.instance : e \in {d \in connectors' : d.token = q}} =
                 {e.instance : e \in {d \in connectors : d.token = q}}
    BY <1>1, <1>2
  <1> QED BY <1>2, <1>3 DEF TokenState, TokenSpentOn

LEMMA RefinesStep ==
    IInv /\ IssuedInv /\ [Next]_vars =>
       [RegistrationToken!Next]_(RegistrationToken!vars)
  <1> SUFFICES ASSUME IInv, IssuedInv, [Next]_vars
               PROVE  RegistrationToken!Next \/ UNCHANGED RegistrationToken!vars
    OBVIOUS
  <1>1. ASSUME NEW s \in Handlers, RegisterCommit(s) PROVE RegistrationToken!Next
    BY <1>1, CommitSpends
  <1>2. ASSUME NEW c \in connectors, Retire(c) PROVE UNCHANGED RegistrationToken!vars
    BY <1>2, RetireKeeps DEF RegistrationToken!vars
  <1>3. CASE ~ (\E s \in Handlers : RegisterCommit(s))
             /\ ~ \E c \in connectors : Retire(c)
    <2>1. /\ connectors' = connectors
          /\ \A t \in Tokens : token'[t].used = token[t].used
      BY <1>3, QuietSteps
    <2>2. TokenSpentOn' = TokenSpentOn
      BY <2>1 DEF TokenSpentOn
    <2>3. TokenState' \in [Tokens -> RegistrationToken!States]
      BY DEF TokenState, RegistrationToken!States
    <2>4. ASSUME NEW t \in Tokens
          PROVE  \/ TokenState'[t] = TokenState[t]
                 \/ TokenState[t] = "unissued" /\ TokenState'[t] = "valid"
                 \/ TokenState[t] = "valid" /\ TokenState'[t] = "withdrawn"
      <3>1. /\ token[t].issued => token'[t].issued
            /\ token'[t].revoked => token[t].issued
            /\ token[t].revoked => token'[t].revoked
            /\ token[t].revoked => token[t].issued
        BY IssuedGrows, RevokedWasIssued DEF IssuedInv
      <3> QED BY <2>1, <3>1 DEF TokenState
    <2> QED BY <2>2, <2>3, <2>4 DEF RegistrationToken!Next, RegistrationToken!Administer
  <1> QED BY <1>1, <1>2, <1>3

LEMMA RefinesInit == Init => RegistrationToken!Init
  BY DEF Init, RegistrationToken!Init, TokenState, TokenSpentOn, NewToken

\* Registration tokens implement the one-time credential.
THEOREM RegistrationTokensAreOneTime == Spec => TokensAreOneTime
  <1>1. Spec => []IssuedInv
    BY IssuedInit, IssuedStep, Inductive, PTL DEF Spec
  <1> QED BY <1>1, RefinesInit, RefinesStep, Inductive, PTL
          DEF Spec, TokensAreOneTime, RegistrationToken!Spec

-----------------------------------------------------------------------------
(***************************************************************************)
(* What a one-time credential promises.  The proofs do not open the state  *)
(* function of the refinement: they hold of every implementation.          *)
(***************************************************************************)

CredentialType ==
    /\ TokenState \in [Tokens -> RegistrationToken!States]
    /\ TokenSpentOn \in [Tokens -> SUBSET Instances]

LEMMA CredentialInit ==
    RegistrationToken!Init => CredentialType /\ RegistrationToken!SpentOnce
  BY DEF RegistrationToken!Init, CredentialType, RegistrationToken!SpentOnce,
         RegistrationToken!States

LEMMA CredentialStep ==
    ASSUME CredentialType, RegistrationToken!SpentOnce,
           [RegistrationToken!Next]_(RegistrationToken!vars)
    PROVE  CredentialType' /\ RegistrationToken!SpentOnce'
  <1>1. CASE RegistrationToken!Administer
    BY <1>1 DEF RegistrationToken!Administer, CredentialType, RegistrationToken!SpentOnce
  <1>2. ASSUME NEW t \in Tokens, NEW i \in Instances, RegistrationToken!Spend(t, i)
        PROVE  CredentialType' /\ RegistrationToken!SpentOnce'
    <2>1. /\ TokenState'[t] = "spent" /\ TokenSpentOn'[t] = {i}
          /\ \A d \in Tokens \ {t} : /\ TokenState'[d] = TokenState[d]
                                    /\ TokenSpentOn'[d] = TokenSpentOn[d]
      BY <1>2 DEF RegistrationToken!Spend, CredentialType
    <2>2. CredentialType'
      BY <1>2 DEF RegistrationToken!Spend, CredentialType, RegistrationToken!States
    <2>3. ASSUME NEW d \in Tokens
          PROVE  /\ \A x, y \in TokenSpentOn'[d] : x = y
                 /\ TokenState'[d] # "spent" => TokenSpentOn'[d] = {}
      BY <2>1 DEF RegistrationToken!SpentOnce
    <2> QED BY <2>2, <2>3 DEF RegistrationToken!SpentOnce
  <1>3. CASE UNCHANGED RegistrationToken!vars
    BY <1>3 DEF RegistrationToken!vars, CredentialType, RegistrationToken!SpentOnce
  <1> QED BY <1>1, <1>2, <1>3 DEF RegistrationToken!Next

\* A registration token registers one instance at most, and only when it is spent.
THEOREM OneBeneficiary == RegistrationToken!Spec => []RegistrationToken!SpentOnce
  <1> QED BY CredentialInit, CredentialStep, PTL DEF RegistrationToken!Spec

\* What is spent or withdrawn stays so, and keeps its beneficiary.
THEOREM NoSecondLife ==
    RegistrationToken!Spec =>
        [][\A t \in Tokens :
             /\ TokenState[t] \in {"spent", "withdrawn"} => TokenState'[t] = TokenState[t]
             /\ TokenState[t] # "valid" => TokenSpentOn'[t] = TokenSpentOn[t]
          ]_(RegistrationToken!vars)
  <1>1. CredentialType /\ [RegistrationToken!Next]_(RegistrationToken!vars) =>
          [\A t \in Tokens :
             /\ TokenState[t] \in {"spent", "withdrawn"} => TokenState'[t] = TokenState[t]
             /\ TokenState[t] # "valid" => TokenSpentOn'[t] = TokenSpentOn[t]
          ]_(RegistrationToken!vars)
    BY DEF CredentialType, RegistrationToken!Next, RegistrationToken!Administer,
           RegistrationToken!Spend, RegistrationToken!vars
  <1>2. RegistrationToken!Spec => []CredentialType
    BY CredentialInit, CredentialStep, PTL DEF RegistrationToken!Spec
  <1> QED BY <1>1, <1>2, PTL DEF RegistrationToken!Spec

=============================================================================

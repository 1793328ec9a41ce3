---------------------- MODULE OperationalToolsProofs ----------------------
(***************************************************************************)
(* The safety of the operational RPC for any number of requests,           *)
(* connectors, sessions, attempts and crashes.  One inductive invariant    *)
(* carries every theorem: RequestInv relates a row to its consumer and its *)
(* history, SessionInv says what a connector API session may still assume  *)
(* about rows it has read but not locked.                                  *)
(***************************************************************************)
EXTENDS OperationalTools, TLAPS

Visible == Open \cup Settled

\* The row by itself: which tokens and histories go with which status.
RowInv(r) ==
    /\ row[r].status \in {"absent", "inserting", "pending"} =>
          row[r].token = 0 /\ row[r].attempts = 0
    /\ row[r].status = "claimed" => row[r].token = row[r].attempts
    /\ row[r].status \in {"inserting"} \cup Open => row[r].arguments
    /\ row[r].status = "expired" => clock >= row[r].expires
    /\ answered[r] # 0 => answered[r] = row[r].attempts /\ row[r].status \in Settled
    /\ row[r].status \in Answers => answered[r] # 0

\* The consumer: how far it is decides what the row may look like.
ConsumerInv(r) ==
    /\ consumer[r].phase = "none" => row[r].status = "absent"
    /\ row[r].status = "inserting" <=> consumer[r].phase = "creating"
    /\ consumer[r].phase \in {"sleeping", "loaded"} => row[r].status \in Visible
    /\ consumer[r].phase # "done" => consumer[r].outcome = "none"
    /\ consumer[r].phase = "loaded" =>
          /\ consumer[r].seen \in Visible
          /\ consumer[r].seen \in Settled => row[r].status \in Settled
          /\ consumer[r].seen = "expired" => clock >= row[r].expires
          /\ consumer[r].seen \in Answers =>
                /\ answered[r] # 0
                /\ row[r].result = consumer[r].seenResult
    /\ consumer[r].outcome \in Settled => row[r].status \in Settled
    /\ consumer[r].outcome = "expired" => clock >= row[r].expires
    /\ consumer[r].outcome \in Answers =>
          /\ answered[r] # 0
          /\ consumer[r].tool = "knowledge" => ~row[r].result /\ ~row[r].arguments

RequestInv(r) == RowInv(r) /\ ConsumerInv(r)

SessionInv(s) ==
    /\ session[s].now <= clock
    /\ session[s].held \subseteq session[s].loaded
    /\ \A r \in session[s].loaded :
          row[r].status \in Visible /\ row[r].expires <= session[s].now
    /\ session[s].op = "submit" =>
          session[s].request \in Requests /\ session[s].token # 0

IInv ==
    /\ TypeOK
    /\ \A r \in Requests : RequestInv(r)
    /\ \A s \in Sessions : SessionInv(s)

-----------------------------------------------------------------------------

LEMMA InitIInv == Init => IInv
  BY ConstantsAssumption
  DEF Init, IInv, TypeOK, RequestInv, RowInv, ConsumerInv, SessionInv, NewRow,
      NewConsumer, Idle, Row, Consumer, Session, Statuses, Open, Settled,
      Answers, Visible

\* Type correctness is inductive by itself.
LEMMA TypeStep == TypeOK /\ [Next]_vars => TypeOK'
  <1> SUFFICES ASSUME TypeOK, [Next]_vars PROVE TypeOK'
    OBVIOUS
  <1>r. \A r \in Requests : row[r] \in Row /\ consumer[r] \in Consumer
    BY DEF TypeOK
  <1>s. \A s \in Sessions : session[s] \in Session
    BY DEF TypeOK
  <1>i. Idle \in Session /\ NewRow \in Row
    BY DEF Idle, Session, NewRow, Row, Statuses
  <1>1. ASSUME NEW r \in Requests, NEW c \in Connectors,
               NEW tool \in {"knowledge", "operational"}, CreateBegin(r, c, tool)
        PROVE  TypeOK'
    <2>0. clock + RequestTTL \in Nat
      BY ConstantsAssumption DEF TypeOK
    <2>1. [NewRow EXCEPT !.status = "inserting", !.connector = c,
                         !.expires = clock + RequestTTL, !.arguments = TRUE] \in Row
      BY <2>0 DEF NewRow, Row, Statuses
    <2>2. [consumer[r] EXCEPT !.phase = "creating", !.tool = tool] \in Consumer
      BY <1>r DEF Consumer
    <2> QED BY <1>1, <2>1, <2>2 DEF CreateBegin, TypeOK
  <1>2. ASSUME NEW r \in Requests, CreateUnavailable(r) PROVE TypeOK'
    <2>1. [consumer[r] EXCEPT !.phase = "done", !.outcome = "unavailable"]
             \in Consumer
      BY <1>r DEF Consumer
    <2> QED BY <1>2, <2>1 DEF CreateUnavailable, TypeOK
  <1>3. ASSUME NEW r \in Requests, ConsumerStep(r) PROVE TypeOK'
    <2>1. CASE CreateCommit(r)
      <3>1. [row[r] EXCEPT !.status = "pending"] \in Row
        BY <1>r DEF Row, Statuses, Open
      <3>2. [consumer[r] EXCEPT !.phase = "sleeping"] \in Consumer
        BY <1>r DEF Consumer
      <3> QED BY <2>1, <3>1, <3>2 DEF CreateCommit, TypeOK
    <2>2. CASE PollRead(r)
      <3>1. [consumer[r] EXCEPT !.phase = "loaded", !.seen = row[r].status,
                                !.seenResult = row[r].result] \in Consumer
        BY <1>r DEF Consumer, Row
      <3> QED BY <2>2, <3>1 DEF PollRead, TypeOK
    <2>3. CASE PollAgain(r)
      <3>1. [consumer[r] EXCEPT !.phase = "sleeping"] \in Consumer
        BY <1>r DEF Consumer
      <3> QED BY <2>3, <3>1 DEF PollAgain, TypeOK
    <2>4. CASE PollExpire(r)
      <3>1. [row[r] EXCEPT !.status = "expired"] \in Row
        BY <1>r DEF Row, Statuses, Settled
      <3>2. [consumer[r] EXCEPT !.seen = "expired"] \in Consumer
        BY <1>r DEF Consumer, Statuses, Settled
      <3> QED BY <2>4, <3>1, <3>2 DEF PollExpire, TypeOK
    <2>5. CASE Finish(r)
      <3>1. [row[r] EXCEPT !.arguments = FALSE,
                           !.result = @ /\ ~consumer[r].seenResult] \in Row
        BY <1>r DEF Row
      <3>2. consumer[r].seen \in {"expired"} \cup Answers
        BY <2>5 DEF Finish, Settled
      <3>3. [consumer[r] EXCEPT !.phase = "done", !.outcome = consumer[r].seen]
               \in Consumer
        BY <1>r, <3>2 DEF Consumer
      <3> QED BY <2>5, <3>1, <3>3 DEF Finish, TypeOK
    <2> QED BY <1>3, <2>1, <2>2, <2>3, <2>4, <2>5 DEF ConsumerStep
  <1>4. ASSUME NEW r \in Requests, Cancel(r) PROVE TypeOK'
    <2>1. [consumer[r] EXCEPT !.phase = "lost"] \in Consumer
      BY <1>r DEF Consumer
    <2> QED BY <1>4, <2>1 DEF Cancel, TypeOK
  <1>5. ASSUME NEW s \in Sessions, NEW c \in Connectors, ClaimBegin(s, c)
        PROVE  TypeOK'
    <2>1. [Idle EXCEPT !.op = "claim", !.connector = c, !.now = clock] \in Session
      BY DEF Idle, Session, TypeOK
    <2> QED BY <1>5, <2>1 DEF ClaimBegin, TypeOK
  <1>6. ASSUME NEW s \in Sessions, NEW c \in Connectors, NEW r \in Requests,
               NEW token \in 1..MaxAttempts, SubmitBegin(s, c, r, token)
        PROVE  TypeOK'
    <2>0. token \in Nat /\ clock \in Nat
      BY ConstantsAssumption DEF TypeOK
    <2>1. [Idle EXCEPT !.op = "submit", !.connector = c, !.now = clock,
                       !.request = r, !.token = token] \in Session
      BY <2>0 DEF Idle, Session
    <2> QED BY <1>6, <2>1 DEF SubmitBegin, TypeOK
  <1>7. ASSUME NEW s \in Sessions, SessionStep(s) PROVE TypeOK'
    <2>i. [session EXCEPT ![s] = Idle] \in [Sessions -> Session]
      BY <1>i DEF TypeOK
    <2>1. CASE ClaimNothing(s)
      <3> DEFINE L == Overdue(session[s].now)
                 H == {r \in Overdue(session[s].now) : row[r].token # 0}
      <3>1. L \subseteq Requests /\ H \subseteq Requests
        BY DEF Overdue
      <3> HIDE DEF L, H
      <3>2. [session[s] EXCEPT !.op = "expire", !.loaded = L, !.held = H] \in Session
        BY <1>s, <3>1 DEF Session
      <3> QED BY <2>1, <3>2 DEF ClaimNothing, TypeOK, L, H
    <2>2. ASSUME NEW r \in Requests, ClaimRow(s, r) PROVE TypeOK'
      <3>0. row[r].attempts + 1 \in Nat /\ session[s].now + ClaimTTL \in Nat
        BY <1>r, <1>s, ConstantsAssumption DEF Row, Session
      <3>1. [row[r] EXCEPT !.status = "claimed", !.token = row[r].attempts + 1,
                           !.claimExpires = session[s].now + ClaimTTL,
                           !.attempts = @ + 1] \in Row
        BY <1>r, <3>0 DEF Row, Statuses, Open
      <3> QED BY <2>2, <2>i, <3>1 DEF ClaimRow, TypeOK
    <2>3. CASE ExpireOld(s)
      <3>1. ASSUME NEW r \in Requests
            PROVE  /\ [row[r] EXCEPT !.status = "expired", !.token = 0,
                                     !.claimExpires = 0] \in Row
                   /\ [row[r] EXCEPT !.status = "expired"] \in Row
        BY <1>r DEF Row, Statuses, Settled
      <3> QED BY <2>3, <2>i, <1>r, <3>1 DEF ExpireOld, TypeOK
    <2>4. ASSUME NEW answer \in Answers, NEW result \in BOOLEAN,
                 SubmitAccept(s, answer, result)
          PROVE  TypeOK'
      <3> DEFINE r == session[s].request
      <3>0. session[s].token \in Nat
        BY <1>s DEF Session
      <3>1. CASE r \in Requests
        <4>1. [row[r] EXCEPT !.status = answer, !.result = result, !.token = 0,
                             !.claimExpires = 0] \in Row
          BY <1>r, <3>1 DEF Row, Statuses, Settled
        <4> QED BY <2>4, <2>i, <3>0, <3>1, <4>1 DEF SubmitAccept, TypeOK
      <3>2. CASE r \notin Requests
        BY <2>4, <2>i, <3>2 DEF SubmitAccept, TypeOK
      <3> QED BY <3>1, <3>2
    <2>5. CASE SubmitReject(s)
      BY <2>5, <2>i DEF SubmitReject, TypeOK
    <2> QED BY <1>7, <2>1, <2>2, <2>3, <2>4, <2>5 DEF SessionStep, Claim, Submit
  <1>8. ASSUME NEW c \in Connectors, Retire(c) PROVE TypeOK'
    BY <1>8 DEF Retire, TypeOK
  <1>9. CASE Tick
    BY <1>9 DEF Tick, TypeOK
  <1>10. CASE Crash
    <2>1. \A r \in Requests : [consumer[r] EXCEPT !.phase = "lost"] \in Consumer
      BY <1>r DEF Consumer
    <2> QED BY <1>10, <1>i, <1>r, <2>1 DEF Crash, TypeOK
  <1>11. CASE UNCHANGED vars
    BY <1>11 DEF vars, TypeOK
  <1> QED BY <1>1, <1>2, <1>3, <1>4, <1>5, <1>6, <1>7, <1>8, <1>9, <1>10, <1>11
          DEF Next

\* Every reachable state is well typed.
THEOREM TypeCorrect == Spec => []TypeOK
  <1>1. Init => TypeOK
    BY InitIInv DEF IInv
  <1> QED BY <1>1, TypeStep, PTL DEF Spec

-----------------------------------------------------------------------------
(***************************************************************************)
(* Frame lemmas: what a step that leaves a request or a session alone      *)
(* preserves.                                                              *)
(***************************************************************************)

\* Arithmetic only needs these two facts about types.
LEMMA TypeFacts ==
    ASSUME TypeOK
    PROVE  /\ clock \in Nat
           /\ \A r \in Requests : row[r].expires \in Nat /\ row[r].attempts \in Nat
           /\ \A r \in Requests : row[r].status \in Statuses
           /\ \A s \in Sessions : session[s].now \in Nat /\ session[s].token \in Nat
           /\ \A s \in Sessions : session[s].loaded \subseteq Requests
  BY DEF TypeOK, Row, Session

\* No step deletes a visible row or moves its deadline.
RowsPersist ==
    \A r \in Requests :
        row[r].status \in Visible => /\ row'[r].status \in Visible
                                     /\ row'[r].expires = row[r].expires

LEMMA RequestFrame ==
    ASSUME TypeOK, TypeOK', NEW r \in Requests, RequestInv(r), clock' >= clock,
           row'[r] = row[r], consumer'[r] = consumer[r],
           answered'[r] = answered[r]
    PROVE  RequestInv(r)'
  <1>1. row[r].status = "expired" => clock' >= row[r].expires
    BY TypeFacts DEF RequestInv, RowInv, TypeOK
  <1>2. clock >= row[r].expires => clock' >= row[r].expires
    BY TypeFacts DEF TypeOK
  <1> QED BY <1>1, <1>2 DEF RequestInv, RowInv, ConsumerInv

LEMMA SessionFrame ==
    ASSUME TypeOK, TypeOK', NEW s \in Sessions, SessionInv(s), clock' >= clock,
           session'[s] = session[s], RowsPersist
    PROVE  SessionInv(s)'
  <1>1. session[s].now <= clock'
    BY TypeFacts DEF SessionInv, TypeOK
  <1> QED BY <1>1, TypeFacts DEF SessionInv, RowsPersist

LEMMA SessionIdle ==
    ASSUME TypeOK', NEW s \in Sessions, session'[s] = Idle
    PROVE  SessionInv(s)'
  BY DEF SessionInv, Idle, TypeOK

\* A step of one request's consumer preserves the invariant if it does so for
\* that request and for the rows other sessions have read.
LEMMA ConsumerFrame ==
    ASSUME IInv, TypeOK', NEW r \in Requests, RequestInv(r)',
           \A q \in Requests \ {r} : row'[q] = row[q] /\ consumer'[q] = consumer[q],
           row[r].status \in Visible => /\ row'[r].status \in Visible
                                        /\ row'[r].expires = row[r].expires,
           UNCHANGED <<clock, session, answered>>
    PROVE  IInv'
  <1>0. clock' >= clock
    BY TypeFacts DEF IInv
  <1>1. RowsPersist
    BY DEF RowsPersist
  <1>2. ASSUME NEW q \in Requests PROVE RequestInv(q)'
    BY <1>0, <1>2, RequestFrame DEF IInv
  <1>3. ASSUME NEW s \in Sessions PROVE SessionInv(s)'
    BY <1>0, <1>1, <1>3, SessionFrame DEF IInv
  <1> QED BY <1>2, <1>3 DEF IInv

\* A step of one session that may settle or claim rows.
LEMMA SessionStepFrame ==
    ASSUME IInv, TypeOK', NEW s \in Sessions, SessionInv(s)',
           \A q \in Requests : RequestInv(q)', RowsPersist,
           \A t \in Sessions \ {s} : session'[t] = session[t],
           clock' = clock
    PROVE  IInv'
  <1>0. clock' >= clock
    BY TypeFacts DEF IInv
  <1>1. ASSUME NEW t \in Sessions PROVE SessionInv(t)'
    BY <1>0, <1>1, SessionFrame DEF IInv
  <1> QED BY <1>1 DEF IInv

-----------------------------------------------------------------------------
(***************************************************************************)
(* The invariant is inductive: one lemma per process.                      *)
(***************************************************************************)

LEMMA ConsumerStepIInv ==
    ASSUME IInv, TypeOK', NEW r \in Requests,
           \/ \E c \in Connectors, tool \in {"knowledge", "operational"} :
                CreateBegin(r, c, tool)
           \/ CreateUnavailable(r)
           \/ ConsumerStep(r)
           \/ Cancel(r)
    PROVE  IInv'
  <1> USE DEF Visible, Open, Settled, Answers
  <1>t. /\ row \in [Requests -> Row]
        /\ consumer \in [Requests -> Consumer]
    BY DEF IInv, TypeOK
  <1>i. RowInv(r) /\ ConsumerInv(r)
    BY DEF IInv, RequestInv
  <1>1. ASSUME NEW c \in Connectors, NEW tool \in {"knowledge", "operational"},
               CreateBegin(r, c, tool)
        PROVE  IInv'
    <2>1. row[r].status = "absent" /\ answered[r] = 0
      BY <1>1, <1>i DEF CreateBegin, RowInv, ConsumerInv
    <2>2. /\ row'[r].status = "inserting" /\ row'[r].arguments = TRUE
          /\ row'[r].token = 0 /\ row'[r].attempts = 0
          /\ answered'[r] = 0
      BY <1>1, <1>t, <2>1 DEF CreateBegin, NewRow
    <2>3. consumer'[r].phase = "creating" /\ consumer'[r].outcome = "none"
      <3>1. consumer[r].outcome = "none"
        BY <1>1, <1>i DEF CreateBegin, ConsumerInv
      <3>2. consumer'[r] = [consumer[r] EXCEPT !.phase = "creating", !.tool = tool]
        BY <1>1, <1>t DEF CreateBegin
      <3> QED BY <1>t, <3>1, <3>2 DEF Consumer
    <2>4. RequestInv(r)'
      BY <2>2, <2>3 DEF RequestInv, RowInv, ConsumerInv
    <2> QED BY <1>1, <1>t, <2>1, <2>4, ConsumerFrame DEF CreateBegin
  <1>2. CASE CreateUnavailable(r)
    <2>1. RequestInv(r)'
      BY <1>2, <1>t, <1>i DEF CreateUnavailable, RequestInv, RowInv, ConsumerInv
    <2> QED BY <1>2, <1>t, <2>1, ConsumerFrame DEF CreateUnavailable
  <1>3. CASE CreateCommit(r)
    <2>1. RequestInv(r)'
      BY <1>3, <1>t, <1>i DEF CreateCommit, RequestInv, RowInv, ConsumerInv
    <2> QED BY <1>3, <1>t, <2>1, ConsumerFrame DEF CreateCommit
  <1>4. CASE PollRead(r)
    <2>1. RequestInv(r)'
      BY <1>4, <1>t, <1>i DEF PollRead, RequestInv, RowInv, ConsumerInv
    <2> QED BY <1>4, <1>t, <2>1, ConsumerFrame DEF PollRead
  <1>5. CASE PollAgain(r)
    <2>1. RequestInv(r)'
      BY <1>5, <1>t, <1>i DEF PollAgain, RequestInv, RowInv, ConsumerInv
    <2> QED BY <1>5, <1>t, <2>1, ConsumerFrame DEF PollAgain
  <1>6. CASE PollExpire(r)
    <2>1. RequestInv(r)'
      BY <1>6, <1>t, <1>i DEF PollExpire, RequestInv, RowInv, ConsumerInv
    <2> QED BY <1>6, <1>t, <2>1, ConsumerFrame DEF PollExpire
  <1>7. CASE Finish(r)
    <2>0. /\ row[r].status \in Settled
          /\ consumer[r].phase = "loaded"
          /\ consumer[r].seen \in Settled
      BY <1>7, <1>i DEF Finish, ConsumerInv
    <2>2. /\ consumer'[r].phase = "done"
          /\ consumer'[r].outcome = consumer[r].seen
          /\ consumer'[r].tool = consumer[r].tool
      BY <1>7, <1>t DEF Finish
    <2>3. /\ row'[r].status = row[r].status /\ row'[r].token = row[r].token
          /\ row'[r].attempts = row[r].attempts
          /\ row'[r].expires = row[r].expires
          /\ answered' = answered /\ clock' = clock
      BY <1>7, <1>t DEF Finish
    <2>4. consumer[r].tool = "knowledge" /\ consumer[r].seen \in Answers =>
             ~row'[r].result /\ ~row'[r].arguments
      <3>1. SUFFICES ASSUME consumer[r].tool = "knowledge",
                            consumer[r].seen \in Answers
                     PROVE  ~row'[r].result /\ ~row'[r].arguments
        OBVIOUS
      <3>2. row'[r].arguments = FALSE
        BY <1>7, <1>t, <3>1 DEF Finish
      <3>3. row'[r].result = (row[r].result /\ ~consumer[r].seenResult)
        BY <1>7, <1>t, <3>1 DEF Finish
      <3>4. row[r].result = consumer[r].seenResult
        BY <1>i, <2>0, <3>1 DEF ConsumerInv
      <3> QED BY <3>2, <3>3, <3>4
    <2>5. RowInv(r)'
      BY <1>i, <2>0, <2>3 DEF RowInv
    <2>6. ConsumerInv(r)'
      BY <1>i, <2>0, <2>2, <2>3, <2>4 DEF ConsumerInv
    <2>1. RequestInv(r)'
      BY <2>5, <2>6 DEF RequestInv
    <2> QED BY <1>7, <1>t, <2>1, ConsumerFrame DEF Finish
  <1>8. CASE Cancel(r)
    <2>1. RequestInv(r)'
      BY <1>8, <1>t, <1>i DEF Cancel, RequestInv, RowInv, ConsumerInv
    <2> QED BY <1>8, <1>t, <2>1, ConsumerFrame DEF Cancel
  <1> QED BY <1>1, <1>2, <1>3, <1>4, <1>5, <1>6, <1>7, <1>8 DEF ConsumerStep

LEMMA SessionStepIInv ==
    ASSUME IInv, TypeOK', NEW s \in Sessions,
           \/ \E c \in Connectors : ClaimBegin(s, c)
           \/ \E c \in Connectors, r \in Requests, token \in 1..MaxAttempts :
                SubmitBegin(s, c, r, token)
           \/ SessionStep(s)
    PROVE  IInv'
  <1> USE DEF Visible, Open, Settled, Answers
  <1>t. /\ row \in [Requests -> Row]
        /\ session \in [Sessions -> Session]
        /\ answered \in [Requests -> Nat]
        /\ clock \in Nat
    BY DEF IInv, TypeOK
  <1>i. \A r \in Requests : RequestInv(r) /\ RowInv(r) /\ ConsumerInv(r)
    BY DEF IInv, RequestInv
  <1>s. SessionInv(s)
    BY DEF IInv
  <1>c. clock >= clock
    BY <1>t
  \* Steps that leave every row alone.
  <1>r. ASSUME UNCHANGED <<clock, row, consumer, answered>>
        PROVE  RowsPersist /\ \A q \in Requests : RequestInv(q)'
    <2>1. RowsPersist
      BY <1>r DEF RowsPersist
    <2>2. ASSUME NEW q \in Requests PROVE RequestInv(q)'
      BY <1>r, <1>c, <1>i, <2>2, RequestFrame DEF IInv
    <2> QED BY <2>1, <2>2
  <1>1. ASSUME NEW c \in Connectors, ClaimBegin(s, c) PROVE IInv'
    <2>1. SessionInv(s)'
      BY <1>1, <1>t, <1>c DEF ClaimBegin, SessionInv, Idle
    <2> QED BY <1>1, <1>r, <1>t, <2>1, SessionStepFrame DEF ClaimBegin
  <1>2. ASSUME NEW c \in Connectors, NEW r \in Requests, NEW token \in 1..MaxAttempts,
               SubmitBegin(s, c, r, token)
        PROVE  IInv'
    <2>0. token # 0
      BY ConstantsAssumption
    <2>1. SessionInv(s)'
      BY <1>2, <1>t, <1>c, <2>0 DEF SubmitBegin, SessionInv, Idle
    <2> QED BY <1>2, <1>r, <1>t, <2>1, SessionStepFrame DEF SubmitBegin
  <1>3. CASE ClaimNothing(s)
    <2>0. /\ session'[s].now = session[s].now /\ session'[s].op = "expire"
          /\ session'[s].loaded = Overdue(session[s].now)
          /\ session'[s].held \subseteq session'[s].loaded
          /\ row' = row /\ clock' = clock
      BY <1>3, <1>t DEF ClaimNothing
    <2>1. SessionInv(s)'
      BY <1>s, <2>0 DEF SessionInv, Overdue
    <2> QED BY <1>3, <1>r, <1>t, <2>1, SessionStepFrame DEF ClaimNothing
  <1>4. ASSUME NEW r \in Requests, ClaimRow(s, r) PROVE IInv'
    <2>1. row[r].status \in Open /\ row[r].attempts \in Nat
      BY <1>4, <1>t DEF ClaimRow, OldestClaimable, Claimable, Row
    <2>2. RequestInv(r)'
      BY <1>4, <1>t, <1>i, <2>1 DEF ClaimRow, RequestInv, RowInv, ConsumerInv
    <2>3. ASSUME NEW q \in Requests \ {r} PROVE RequestInv(q)'
      BY <1>4, <1>c, <1>i, <1>t, <2>3, RequestFrame DEF ClaimRow, IInv
    <2>4. RowsPersist
      BY <1>4, <1>t, <2>1 DEF ClaimRow, RowsPersist
    <2>5. SessionInv(s)'
      BY <1>4, <1>t, SessionIdle DEF ClaimRow
    <2> QED BY <1>4, <1>t, <2>2, <2>3, <2>4, <2>5, SessionStepFrame DEF ClaimRow
  <1>5. CASE ExpireOld(s)
    <2>1. ASSUME NEW q \in Requests PROVE RequestInv(q)'
      <3>1. CASE q \in session[s].loaded
        <4>1. row[q].status \in Visible /\ clock >= row[q].expires
          BY <1>s, <1>t, <3>1, TypeFacts DEF SessionInv, IInv
        <4>0. \/ row'[q] = [row[q] EXCEPT !.status = "expired", !.token = 0,
                                           !.claimExpires = 0]
              \/ row'[q] = [row[q] EXCEPT !.status = "expired"]
          BY <1>5, <3>1 DEF ExpireOld
        <4>2. /\ row'[q].status = "expired"
              /\ row'[q].expires = row[q].expires
              /\ row'[q].attempts = row[q].attempts
              /\ row'[q].arguments = row[q].arguments
              /\ row'[q].result = row[q].result
          BY <1>t, <4>0 DEF Row
        <4> QED BY <1>5, <1>i, <4>1, <4>2
                DEF ExpireOld, RequestInv, RowInv, ConsumerInv
      <3>2. CASE q \notin session[s].loaded
        <4>1. row'[q] = row[q]
          BY <1>5, <1>s, <3>2 DEF ExpireOld, SessionInv
        <4> QED BY <1>5, <1>c, <1>i, <4>1, RequestFrame DEF ExpireOld, IInv
      <3> QED BY <3>1, <3>2
    <2>2. RowsPersist
      <3> SUFFICES ASSUME NEW q \in Requests, row[q].status \in Visible
                   PROVE  /\ row'[q].status \in Visible
                          /\ row'[q].expires = row[q].expires
        BY DEF RowsPersist
      <3>1. \/ row'[q] = [row[q] EXCEPT !.status = "expired", !.token = 0,
                                        !.claimExpires = 0]
            \/ row'[q] = [row[q] EXCEPT !.status = "expired"]
            \/ row'[q] = row[q]
        BY <1>5 DEF ExpireOld
      <3> QED BY <1>t, <3>1 DEF Row
    <2>3. SessionInv(s)'
      BY <1>5, <1>t, SessionIdle DEF ExpireOld
    <2> QED BY <1>5, <1>t, <2>1, <2>2, <2>3, SessionStepFrame DEF ExpireOld
  <1>6. ASSUME NEW answer \in Answers, NEW result \in BOOLEAN,
               SubmitAccept(s, answer, result)
        PROVE  IInv'
    <2>0. PICK r \in Requests : r = session[s].request
      BY <1>6, <1>s DEF SubmitAccept, SessionInv
    <2>1. /\ session[s].token # 0
          /\ row[r].status = "claimed"
          /\ row[r].token = session[s].token
      BY <1>6, <1>s, <2>0 DEF SubmitAccept, Acceptable, SessionInv
    <2>2. /\ row'[r].status = answer
          /\ row'[r].attempts = row[r].attempts
          /\ row'[r].expires = row[r].expires
          /\ answered'[r] = row[r].attempts
          /\ answered'[r] # 0
          /\ consumer' = consumer
          /\ clock' = clock
      BY <1>6, <1>t, <1>i, <2>0, <2>1 DEF SubmitAccept, RowInv
    <2>3. \A q \in Requests \ {r} : row'[q] = row[q] /\ answered'[q] = answered[q]
      BY <1>6, <1>t, <2>0 DEF SubmitAccept
    <2>4. session'[s] = Idle /\ \A t \in Sessions \ {s} : session'[t] = session[t]
      BY <1>6, <1>t DEF SubmitAccept
    <2>5. RequestInv(r)'
      <3>1. RowInv(r) /\ ConsumerInv(r)
        BY <1>i
      <3>2. RowInv(r)'
        BY <2>2 DEF RowInv
      <3>3. ConsumerInv(r)'
        BY <2>1, <2>2, <3>1 DEF ConsumerInv
      <3> QED BY <3>2, <3>3 DEF RequestInv
    <2>6. ASSUME NEW q \in Requests PROVE RequestInv(q)'
      <3>1. CASE q = r
        BY <2>5, <3>1
      <3>2. CASE q # r
        <4>1. /\ row'[q] = row[q] /\ answered'[q] = answered[q]
              /\ consumer'[q] = consumer[q] /\ clock' >= clock
          BY <1>c, <2>2, <2>3, <3>2
        <4> QED BY <1>i, <4>1, RequestFrame DEF IInv
      <3> QED BY <3>1, <3>2
    <2>7. RowsPersist
      BY <2>1, <2>2, <2>3 DEF RowsPersist
    <2> QED BY <2>2, <2>4, <2>6, <2>7, SessionIdle, SessionStepFrame
  <1>7. CASE SubmitReject(s)
    <2>1. SessionInv(s)'
      BY <1>7, <1>t, SessionIdle DEF SubmitReject
    <2> QED BY <1>7, <1>r, <1>t, <2>1, SessionStepFrame DEF SubmitReject
  <1> QED BY <1>1, <1>2, <1>3, <1>4, <1>5, <1>6, <1>7
          DEF SessionStep, Claim, Submit

LEMMA EnvironmentIInv ==
    ASSUME IInv, TypeOK',
           (\E c \in Connectors : Retire(c)) \/ Tick \/ Crash \/ UNCHANGED vars
    PROVE  IInv'
  <1>t. /\ row \in [Requests -> Row]
        /\ consumer \in [Requests -> Consumer]
        /\ clock \in Nat
    BY DEF IInv, TypeOK
  <1>1. ASSUME clock' >= clock, UNCHANGED <<row, consumer, session, answered>>
        PROVE  IInv'
    <2>1. RowsPersist
      BY <1>1 DEF RowsPersist
    <2>2. ASSUME NEW q \in Requests PROVE RequestInv(q)'
      BY <1>1, <2>2, RequestFrame DEF IInv
    <2>3. ASSUME NEW s \in Sessions PROVE SessionInv(s)'
      BY <1>1, <2>1, <2>3, SessionFrame DEF IInv
    <2> QED BY <2>2, <2>3 DEF IInv
  <1>2. CASE Crash
    <2> USE DEF Visible, Open, Settled, Answers
    <2>1. ASSUME NEW q \in Requests PROVE RequestInv(q)'
      <3>1. RowInv(q) /\ ConsumerInv(q)
        BY DEF IInv, RequestInv
      <3>2. CASE row[q].status = "inserting"
        <4>1. row'[q] = NewRow /\ consumer'[q].phase = "lost"
              /\ consumer'[q].outcome = consumer[q].outcome
              /\ consumer[q].phase = "creating" /\ answered'[q] = answered[q]
          BY <1>2, <1>t, <3>1, <3>2 DEF Crash, ConsumerInv
        <4> QED BY <3>1, <3>2, <4>1 DEF RequestInv, RowInv, ConsumerInv, NewRow
      <3>3. CASE row[q].status # "inserting"
        <4>1. /\ row'[q] = row[q] /\ answered'[q] = answered[q] /\ clock' = clock
              /\ \/ consumer'[q] = consumer[q]
                 \/ /\ consumer'[q].phase = "lost"
                    /\ consumer[q].phase # "done"
                    /\ consumer'[q].outcome = consumer[q].outcome
          BY <1>2, <1>t, <3>3 DEF Crash
        <4>2. consumer'[q].phase # "creating"
          BY <1>2, <1>t, <3>1, <3>3 DEF Crash, ConsumerInv
        <4> QED BY <3>1, <3>3, <4>1, <4>2 DEF RequestInv, RowInv, ConsumerInv
      <3> QED BY <3>2, <3>3
    <2>2. ASSUME NEW s \in Sessions PROVE SessionInv(s)'
      BY <1>2, <2>2, SessionIdle DEF Crash
    <2> QED BY <2>1, <2>2 DEF IInv
  <1>3. clock >= clock /\ clock + 1 >= clock
    BY <1>t
  <1> QED BY <1>1, <1>2, <1>3 DEF Retire, Tick, vars

LEMMA IInvStep == IInv /\ [Next]_vars => IInv'
  <1> SUFFICES ASSUME IInv, [Next]_vars PROVE IInv'
    OBVIOUS
  <1>1. TypeOK'
    BY TypeStep DEF IInv
  <1> QED BY <1>1, ConsumerStepIInv, SessionStepIInv, EnvironmentIInv DEF Next

\* The strengthening of every safety property below.
THEOREM Inductive == Spec => []IInv
  <1> QED BY InitIInv, IInvStep, PTL DEF Spec

\* Whatever lease expiries, retries, stale clocks and sweeps do, the result
\* that was accepted is that of the last claim ever made.
THEOREM LastClaimAnswers == Spec => []AnsweredByLastClaim
  <1>1. IInv => AnsweredByLastClaim
    BY DEF IInv, RequestInv, RowInv, AnsweredByLastClaim
  <1> QED BY <1>1, Inductive, PTL

\* No row and no user hears "expired" before the deadline.
THEOREM ExpiryIsHonest == Spec => []ExpiredOnlyWhenOverdue
  <1>1. IInv => ExpiredOnlyWhenOverdue
    BY DEF IInv, RequestInv, RowInv, ConsumerInv, ExpiredOnlyWhenOverdue
  <1> QED BY <1>1, Inductive, PTL

\* A user is shown an answer only if a submission was accepted for it.
THEOREM ReportsAreReal == Spec => []ReportedAnswersWereAccepted
  <1>1. IInv => ReportedAnswersWereAccepted
    BY DEF IInv, RequestInv, ConsumerInv, ReportedAnswersWereAccepted
  <1> QED BY <1>1, Inductive, PTL

\* The payload a knowledge search has consumed never reappears.
THEOREM PayloadStaysErased == Spec => []ConsumedPayloadErased
  <1>1. IInv => ConsumedPayloadErased
    BY DEF IInv, RequestInv, ConsumerInv, ConsumedPayloadErased
  <1> QED BY <1>1, Inductive, PTL

\* A connector is never handed a request without its arguments.
THEOREM ArgumentsSurvive == Spec => []ClaimableRowsKeepArguments
  <1>1. IInv => ClaimableRowsKeepArguments
    BY DEF IInv, RequestInv, RowInv, ClaimableRowsKeepArguments
  <1> QED BY <1>1, Inductive, PTL

-----------------------------------------------------------------------------

\* What one step may do to a settled row.
StaysSettled(r) ==
    row[r].status \in Settled =>
        /\ row'[r].attempts = row[r].attempts
        /\ \/ row'[r].status = row[r].status
           \/ row'[r].status = "expired" /\ clock >= row[r].expires

LEMMA SettledStep ==
    ASSUME IInv, [Next]_vars, NEW r \in Requests
    PROVE  StaysSettled(r)
  <1>t. row \in [Requests -> Row] /\ row[r] \in Row
    BY DEF IInv, TypeOK
  <1>i. RowInv(r) /\ ConsumerInv(r)
    BY DEF IInv, RequestInv
  <1>0. ASSUME row'[r] = row[r] PROVE StaysSettled(r)
    BY <1>0 DEF StaysSettled
  <1>1. ASSUME NEW q \in Requests, NEW c \in Connectors,
               NEW tool \in {"knowledge", "operational"}, CreateBegin(q, c, tool)
        PROVE  StaysSettled(r)
    <2>1. CASE q = r
      BY <1>1, <1>i, <2>1 DEF CreateBegin, ConsumerInv, StaysSettled, Settled, Answers
    <2>2. CASE q # r
      BY <1>0, <1>1, <1>t, <2>2 DEF CreateBegin
    <2> QED BY <2>1, <2>2
  <1>2. ASSUME NEW q \in Requests, ConsumerStep(q) PROVE StaysSettled(r)
    <2>1. CASE CreateCommit(q)
      <3>1. CASE q = r
        BY <1>i, <2>1, <3>1
        DEF CreateCommit, ConsumerInv, StaysSettled, Settled, Answers
      <3>2. CASE q # r
        BY <1>0, <1>t, <2>1, <3>2 DEF CreateCommit
      <3> QED BY <3>1, <3>2
    <2>2. CASE PollRead(q) \/ PollAgain(q)
      BY <1>0, <2>2 DEF PollRead, PollAgain
    <2>3. CASE PollExpire(q)
      BY <1>t, <2>3 DEF PollExpire, StaysSettled
    <2>4. CASE Finish(q)
      BY <1>t, <2>4 DEF Finish, StaysSettled
    <2> QED BY <1>2, <2>1, <2>2, <2>3, <2>4 DEF ConsumerStep
  <1>3. ASSUME NEW s \in Sessions, SessionStep(s) PROVE StaysSettled(r)
    <2>1. ASSUME NEW q \in Requests, ClaimRow(s, q) PROVE StaysSettled(r)
      <3>1. row[q].status \in Open
        BY <2>1 DEF ClaimRow, OldestClaimable, Claimable, Open
      <3>2. CASE q = r
        BY <3>1, <3>2 DEF StaysSettled, Open, Settled, Answers
      <3>3. CASE q # r
        BY <1>0, <1>t, <2>1, <3>3 DEF ClaimRow
      <3> QED BY <3>2, <3>3
    <2>2. CASE ExpireOld(s)
      <3>1. CASE r \in session[s].loaded
        <4>1. clock >= row[r].expires
          BY <3>1, TypeFacts DEF IInv, SessionInv
        <4>2. \/ row'[r] = [row[r] EXCEPT !.status = "expired", !.token = 0,
                                          !.claimExpires = 0]
              \/ row'[r] = [row[r] EXCEPT !.status = "expired"]
          BY <2>2, <3>1 DEF ExpireOld
        <4>3. row'[r].status = "expired" /\ row'[r].attempts = row[r].attempts
          BY <1>t, <4>2 DEF Row
        <4> QED BY <4>1, <4>3 DEF StaysSettled
      <3>2. CASE r \notin session[s].loaded
        <4>1. r \notin session[s].held
          BY <3>2 DEF IInv, SessionInv
        <4> QED BY <1>0, <2>2, <3>2, <4>1 DEF ExpireOld
      <3> QED BY <3>1, <3>2
    <2>3. ASSUME NEW answer \in Answers, NEW result \in BOOLEAN,
                 SubmitAccept(s, answer, result)
          PROVE  StaysSettled(r)
      <3>1. row[session[s].request].status = "claimed"
        BY <2>3 DEF SubmitAccept, Acceptable
      <3>2. CASE r = session[s].request
        BY <3>1, <3>2 DEF StaysSettled, Settled, Answers
      <3>3. CASE r # session[s].request
        BY <1>0, <1>t, <2>3, <3>3 DEF SubmitAccept
      <3> QED BY <3>2, <3>3
    <2>4. CASE ClaimNothing(s) \/ SubmitReject(s)
      BY <1>0, <2>4 DEF ClaimNothing, SubmitReject
    <2> QED BY <1>3, <2>1, <2>2, <2>3, <2>4 DEF SessionStep, Claim, Submit
  <1>4. CASE Crash
    <2>1. row[r].status \in Settled => row'[r] = row[r]
      BY <1>4 DEF Crash, Settled, Answers
    <2> QED BY <2>1 DEF StaysSettled
  <1>5. ASSUME UNCHANGED row PROVE StaysSettled(r)
    BY <1>0, <1>5
  <1> QED BY <1>1, <1>2, <1>3, <1>4, <1>5
          DEF Next, CreateUnavailable, Cancel, ClaimBegin, SubmitBegin, Retire,
              Tick, vars

\* An accepted answer is final up to expiry, and no settled request reopens.
THEOREM SettledRequestsAreFinal == Spec => SettledIsFinal
  <1>1. IInv /\ [Next]_vars =>
           [\A r \in Requests :
              row[r].status \in Settled =>
                 /\ row'[r].attempts = row[r].attempts
                 /\ \/ row'[r].status = row[r].status
                    \/ row'[r].status = "expired" /\ clock >= row[r].expires]_vars
    BY SettledStep DEF StaysSettled
  <1> QED BY <1>1, Inductive, PTL DEF Spec, SettledIsFinal

=============================================================================

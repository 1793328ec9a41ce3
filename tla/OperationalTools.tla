-------------------------- MODULE OperationalTools --------------------------
(***************************************************************************)
(* The operational RPC of PEKA: a chat handler files a request row for a   *)
(* connector and polls it, the connector claims the row over HTTP, runs    *)
(* the tool in the customer's network and submits the result.              *)
(* (app/services/operational_tool_service.py and its two consumers.)       *)
(*                                                                         *)
(* The only shared state is the table operational_tool_requests.  Every    *)
(* handler runs in a database session of its own under READ COMMITTED, so  *)
(* a handler that reads, decides and then writes is two or more actions    *)
(* here; a statement that holds the row lock from its SELECT to its COMMIT *)
(* (claim, submit) is one.  SKIP LOCKED only passes over a row that        *)
(* another transaction is about to change, which is the same as that       *)
(* transaction having committed first.                                     *)
(*                                                                         *)
(* Simplifications: tenants are not told apart (a connector belongs to one *)
(* tenant); a claim token is the number of the attempt it was drawn for;   *)
(* created_at orders rows as expires_at does (it is expires_at minus a     *)
(* constant); all processes read one clock.                                *)
(***************************************************************************)
EXTENDS Naturals

CONSTANTS
    Requests,       \* rows that may be inserted
    Connectors,     \* registered connectors
    Sessions,       \* concurrent database sessions of the connector API
    RequestTTL,     \* request_ttl
    ClaimTTL,       \* claim_ttl
    MaxAttempts,    \* maximum_attempts
    None,           \* SQL NULL in a connector column
    MaxTime,        \* bound: the clock stops here
    MaxCrashes      \* bound: restarts of the API process

ASSUME ConstantsAssumption ==
    /\ RequestTTL \in Nat \ {0}
    /\ ClaimTTL \in Nat \ {0}
    /\ MaxAttempts \in Nat \ {0}
    /\ MaxTime \in Nat
    /\ MaxCrashes \in Nat

VARIABLES
    clock,      \* datetime.now(UTC)
    retired,    \* connectors whose retired_at is set
    row,        \* the table operational_tool_requests
    consumer,   \* the chat handler waiting for each request
    session,    \* what each connector API session is doing
    answered,   \* history: the claim whose result was accepted, 0 if none
    crashes     \* restarts so far

vars == <<clock, retired, row, consumer, session, answered, crashes>>

Open == {"pending", "claimed"}
Answers == {"completed", "failed"}
Settled == Answers \cup {"expired"}
\* "absent" and "inserting" rows are visible to no handler but their creator.
Statuses == {"absent", "inserting"} \cup Open \cup Settled

Row == [status : Statuses, connector : Connectors \cup {None}, expires : Nat,
        token : Nat, claimExpires : Nat, attempts : Nat,
        arguments : BOOLEAN, result : BOOLEAN]

Consumer == [tool : {"knowledge", "operational"},
             phase : {"none", "creating", "sleeping", "loaded", "done", "lost"},
             seen : Statuses, seenResult : BOOLEAN,
             outcome : {"none", "unavailable", "expired"} \cup Answers]

Session == [op : {"idle", "claim", "expire", "submit"},
            connector : Connectors \cup {None}, now : Nat,
            loaded : SUBSET Requests, held : SUBSET Requests,
            request : Requests \cup {None}, token : Nat]

NewRow == [status |-> "absent", connector |-> None, expires |-> 0, token |-> 0,
           claimExpires |-> 0, attempts |-> 0, arguments |-> FALSE,
           result |-> FALSE]

NewConsumer == [tool |-> "operational", phase |-> "none", seen |-> "absent",
                seenResult |-> FALSE, outcome |-> "none"]

Idle == [op |-> "idle", connector |-> None, now |-> 0, loaded |-> {},
         held |-> {}, request |-> None, token |-> 0]

Init ==
    /\ clock = 0
    /\ retired = {}
    /\ row = [r \in Requests |-> NewRow]
    /\ consumer = [r \in Requests |-> NewConsumer]
    /\ session = [s \in Sessions |-> Idle]
    /\ answered = [r \in Requests |-> 0]
    /\ crashes = 0

-----------------------------------------------------------------------------
(***************************************************************************)
(* The chat handler.                                                       *)
(***************************************************************************)

\* create: the clock is read and a connector chosen, the INSERT is not yet
\* committed.  Which connector answers the availability query is decided by
\* the connector plane; a retired one never does.
CreateBegin(r, c, tool) ==
    /\ consumer[r].phase = "none"
    /\ c \notin retired
    /\ clock + RequestTTL <= MaxTime
    /\ row' = [row EXCEPT ![r] = [NewRow EXCEPT !.status = "inserting",
                                                !.connector = c,
                                                !.expires = clock + RequestTTL,
                                                !.arguments = TRUE]]
    /\ consumer' = [consumer EXCEPT ![r].phase = "creating", ![r].tool = tool]
    /\ UNCHANGED <<clock, retired, session, answered, crashes>>

\* create raises OperationalToolUnavailable: nothing is inserted.
CreateUnavailable(r) ==
    /\ consumer[r].phase = "none"
    /\ consumer' = [consumer EXCEPT ![r].phase = "done",
                                    ![r].outcome = "unavailable"]
    /\ UNCHANGED <<clock, retired, row, session, answered, crashes>>

\* create commits the pending row.
CreateCommit(r) ==
    /\ consumer[r].phase = "creating"
    /\ row' = [row EXCEPT ![r].status = "pending"]
    /\ consumer' = [consumer EXCEPT ![r].phase = "sleeping"]
    /\ UNCHANGED <<clock, retired, session, answered, crashes>>

\* result, first half: expire_all and a SELECT that takes no lock.
PollRead(r) ==
    /\ consumer[r].phase = "sleeping"
    /\ consumer' = [consumer EXCEPT ![r].phase = "loaded",
                                    ![r].seen = row[r].status,
                                    ![r].seenResult = row[r].result]
    /\ UNCHANGED <<clock, retired, row, session, answered, crashes>>

\* result, second half, and the caller's loop: neither settled nor overdue.
PollAgain(r) ==
    /\ consumer[r].phase = "loaded"
    /\ consumer[r].seen \in Open
    /\ clock < row[r].expires
    /\ consumer' = [consumer EXCEPT ![r].phase = "sleeping"]
    /\ UNCHANGED <<clock, retired, row, session, answered, crashes>>

\* Mutant: only unclaimed requests time out.
PollExpirePendingOnly(r) ==
    /\ consumer[r].phase = "loaded"
    /\ consumer[r].seen = "pending"
    /\ clock >= row[r].expires
    /\ row' = [row EXCEPT ![r].status = "expired"]
    /\ consumer' = [consumer EXCEPT ![r].seen = "expired"]
    /\ UNCHANGED <<clock, retired, session, answered, crashes>>

\* result, second half: the row read is overdue, so UPDATE ... SET status =
\* 'expired' WHERE id = ..., whatever the row says by now.
PollExpire(r) ==
    /\ consumer[r].phase = "loaded"
    /\ consumer[r].seen \in Open
    /\ clock >= row[r].expires
    /\ row' = [row EXCEPT ![r].status = "expired"]
    /\ consumer' = [consumer EXCEPT ![r].seen = "expired"]
    /\ UNCHANGED <<clock, retired, session, answered, crashes>>

\* Mutant: the arguments are not erased.
FinishKeepsArguments(r) ==
    /\ consumer[r].phase = "loaded"
    /\ consumer[r].seen \in Settled
    /\ consumer' = [consumer EXCEPT ![r].phase = "done",
                                    ![r].outcome = consumer[r].seen]
    /\ row' = IF consumer[r].tool = "knowledge"
              THEN [row EXCEPT ![r].result = @ /\ ~consumer[r].seenResult]
              ELSE row
    /\ UNCHANGED <<clock, retired, session, answered, crashes>>

\* The callers on a settled row.  Only ConnectorKnowledgeService clears the
\* payload; its session still holds the row as result() loaded it, so a result
\* it did not see is not overwritten (NULL to NULL is no UPDATE).
Finish(r) ==
    /\ consumer[r].phase = "loaded"
    /\ consumer[r].seen \in Settled
    /\ consumer' = [consumer EXCEPT ![r].phase = "done",
                                    ![r].outcome = consumer[r].seen]
    /\ row' = IF consumer[r].tool = "knowledge"
              THEN [row EXCEPT ![r].arguments = FALSE,
                               ![r].result = @ /\ ~consumer[r].seenResult]
              ELSE row
    /\ UNCHANGED <<clock, retired, session, answered, crashes>>

\* The stream's producer task is cancelled at its only await, the sleep.
Cancel(r) ==
    /\ consumer[r].phase = "sleeping"
    /\ consumer' = [consumer EXCEPT ![r].phase = "lost"]
    /\ UNCHANGED <<clock, retired, row, session, answered, crashes>>

-----------------------------------------------------------------------------
(***************************************************************************)
(* The connector API.                                                      *)
(***************************************************************************)

\* GET .../requests/next: the bearer is checked, then claim reads the clock.
ClaimBegin(s, c) ==
    /\ session[s].op = "idle"
    /\ c \notin retired
    /\ session' = [session EXCEPT ![s] = [Idle EXCEPT !.op = "claim",
                                                      !.connector = c,
                                                      !.now = clock]]
    /\ UNCHANGED <<clock, retired, row, consumer, answered, crashes>>

Claimable(r, c, now) ==
    /\ row[r].connector = c
    /\ row[r].expires > now
    /\ row[r].attempts < MaxAttempts
    /\ \/ row[r].status = "pending"
       \/ row[r].status = "claimed" /\ row[r].claimExpires <= now

\* SELECT ... ORDER BY created_at FOR UPDATE SKIP LOCKED LIMIT 1.
OldestClaimable(r, c, now) ==
    /\ Claimable(r, c, now)
    /\ \A q \in Requests : Claimable(q, c, now) => row[r].expires <= row[q].expires

\* claim locks a row, gives it a fresh token and a lease, and commits.
ClaimRow(s, r) ==
    /\ session[s].op = "claim"
    /\ OldestClaimable(r, session[s].connector, session[s].now)
    /\ row' = [row EXCEPT ![r].status = "claimed",
                          ![r].token = row[r].attempts + 1,
                          ![r].claimExpires = session[s].now + ClaimTTL,
                          ![r].attempts = @ + 1]
    /\ session' = [session EXCEPT ![s] = Idle]
    /\ UNCHANGED <<clock, retired, consumer, answered, crashes>>

\* Mutant: a lease that ran out expires the whole request.
OverdueLease(now) ==
    {r \in Requests : row[r].status \in Open /\ row[r].claimExpires <= now}

\* Mutant: claimed rows are left to their consumer.
OverduePending(now) ==
    {r \in Requests : row[r].status = "pending" /\ row[r].expires <= now}

\* The rows _expire_old selects, those of every connector.
Overdue(now) == {r \in Requests : row[r].status \in Open /\ row[r].expires <= now}

\* claim finds nothing; _expire_old reads the overdue rows without a lock.
ClaimNothing(s) ==
    /\ session[s].op = "claim"
    /\ \A r \in Requests : ~Claimable(r, session[s].connector, session[s].now)
    /\ session' = [session EXCEPT
                     ![s].op = "expire",
                     ![s].loaded = Overdue(session[s].now),
                     ![s].held = {r \in Overdue(session[s].now) : row[r].token # 0}]
    /\ UNCHANGED <<clock, retired, row, consumer, answered, crashes>>

\* The flush and commit of _expire_old: one UPDATE by primary key per row that
\* was read, setting the columns whose value differs from the one read.
ExpireOld(s) ==
    /\ session[s].op = "expire"
    /\ row' = [r \in Requests |->
                 IF r \in session[s].held
                 THEN [row[r] EXCEPT !.status = "expired", !.token = 0,
                                     !.claimExpires = 0]
                 ELSE IF r \in session[s].loaded
                 THEN [row[r] EXCEPT !.status = "expired"]
                 ELSE row[r]]
    /\ session' = [session EXCEPT ![s] = Idle]
    /\ UNCHANGED <<clock, retired, consumer, answered, crashes>>

\* POST .../result: the bearer is checked and submit reads the clock, before it
\* waits for the row lock.  The connector may hold the token of any claim it
\* was ever given, and may send it late or again.
SubmitBegin(s, c, r, token) ==
    /\ session[s].op = "idle"
    /\ c \notin retired
    /\ row[r].connector = c
    /\ token \in 1..row[r].attempts
    /\ session' = [session EXCEPT ![s] = [Idle EXCEPT !.op = "submit",
                                                      !.connector = c,
                                                      !.now = clock,
                                                      !.request = r,
                                                      !.token = token]]
    /\ UNCHANGED <<clock, retired, row, consumer, answered, crashes>>

\* Mutant: the token is not compared with the one of the latest claim.
AcceptableAnyToken(r, c, token, now) ==
    /\ row[r].connector = c
    /\ row[r].status = "claimed"
    /\ row[r].token # 0
    /\ row[r].claimExpires > now
    /\ row[r].expires > now

\* submit's check of the row it has locked.
Acceptable(r, c, token, now) ==
    /\ row[r].connector = c
    /\ row[r].status = "claimed"
    /\ row[r].token = token
    /\ row[r].claimExpires > now
    /\ row[r].expires > now

\* submit stores the answer and spends the token.  A completed answer may
\* come without a result.
SubmitAccept(s, answer, result) ==
    LET r == session[s].request
    IN  /\ session[s].op = "submit"
        /\ Acceptable(r, session[s].connector, session[s].token, session[s].now)
        /\ result => answer = "completed"
        /\ row' = [row EXCEPT ![r].status = answer, ![r].result = result,
                              ![r].token = 0, ![r].claimExpires = 0]
        /\ answered' = [answered EXCEPT ![r] = session[s].token]
        /\ session' = [session EXCEPT ![s] = Idle]
        /\ UNCHANGED <<clock, retired, consumer, crashes>>

\* Mutant: the status is committed before the submission is judged.
SubmitRejectTooLate(s) ==
    /\ session[s].op = "submit"
    /\ row' = [row EXCEPT ![session[s].request].status = "completed"]
    /\ session' = [session EXCEPT ![s] = Idle]
    /\ UNCHANGED <<clock, retired, consumer, answered, crashes>>

\* submit raises: 409 when the claim is not acceptable, 422 when the result is
\* larger than 100 000 characters, which any submission may be.
SubmitReject(s) ==
    /\ session[s].op = "submit"
    /\ session' = [session EXCEPT ![s] = Idle]
    /\ UNCHANGED <<clock, retired, row, consumer, answered, crashes>>

-----------------------------------------------------------------------------
(***************************************************************************)
(* The environment.                                                        *)
(***************************************************************************)

\* An administrator retires a connector.
Retire(c) ==
    /\ c \notin retired
    /\ retired' = retired \cup {c}
    /\ UNCHANGED <<clock, row, consumer, session, answered, crashes>>

Tick ==
    /\ clock < MaxTime
    /\ clock' = clock + 1
    /\ UNCHANGED <<retired, row, consumer, session, answered, crashes>>

\* The API process dies: handlers and open transactions are lost.
Crash ==
    /\ crashes < MaxCrashes
    /\ crashes' = crashes + 1
    /\ session' = [s \in Sessions |-> Idle]
    /\ consumer' = [r \in Requests |->
                      IF consumer[r].phase \in {"creating", "sleeping", "loaded"}
                      THEN [consumer[r] EXCEPT !.phase = "lost"]
                      ELSE consumer[r]]
    /\ row' = [r \in Requests |->
                 IF row[r].status = "inserting" THEN NewRow ELSE row[r]]
    /\ UNCHANGED <<clock, retired, answered>>

-----------------------------------------------------------------------------

ConsumerStep(r) ==
    \/ CreateCommit(r) \/ PollRead(r) \/ PollAgain(r) \/ PollExpire(r) \/ Finish(r)

Claim(s) == ClaimNothing(s) \/ \E r \in Requests : ClaimRow(s, r)

Submit(s) ==
    \/ SubmitReject(s)
    \/ \E answer \in Answers, result \in BOOLEAN : SubmitAccept(s, answer, result)

SessionStep(s) == Claim(s) \/ ExpireOld(s) \/ Submit(s)

Next ==
    \/ \E r \in Requests :
         \/ \E c \in Connectors, tool \in {"knowledge", "operational"} :
              CreateBegin(r, c, tool)
         \/ CreateUnavailable(r)
         \/ ConsumerStep(r)
         \/ Cancel(r)
    \/ \E s \in Sessions :
         \/ \E c \in Connectors : ClaimBegin(s, c)
         \/ \E c \in Connectors, r \in Requests, token \in 1..MaxAttempts :
              SubmitBegin(s, c, r, token)
         \/ SessionStep(s)
    \/ \E c \in Connectors : Retire(c)
    \/ Tick
    \/ Crash

Spec == Init /\ [][Next]_vars

(***************************************************************************)
(* A handler that has started runs on until it ends or the process dies,   *)
(* and time passes.  ConnectorsPoll adds that connectors that are still    *)
(* registered keep asking for work, which is the connector's protocol and  *)
(* no promise of this code.                                                *)
(***************************************************************************)
Fairness ==
    /\ WF_vars(Tick)
    /\ \A r \in Requests : WF_vars(ConsumerStep(r))
    /\ \A s \in Sessions : WF_vars(SessionStep(s))

ConnectorsPoll ==
    \A c \in Connectors : SF_vars(\E s \in Sessions : ClaimBegin(s, c))

FairSpec == Spec /\ Fairness
PolledSpec == FairSpec /\ ConnectorsPoll

-----------------------------------------------------------------------------
(***************************************************************************)
(* Properties.                                                             *)
(***************************************************************************)

\* Type invariant of the table, its handlers and the history.
TypeOK ==
    /\ clock \in Nat
    /\ retired \subseteq Connectors
    /\ row \in [Requests -> Row]
    /\ consumer \in [Requests -> Consumer]
    /\ session \in [Sessions -> Session]
    /\ answered \in [Requests -> Nat]
    /\ crashes \in Nat

\* Once a claim has been superseded its result is never accepted, and once a
\* result has been accepted the request is never handed out again: the accepted
\* claim is the last one ever made.
AnsweredByLastClaim ==
    \A r \in Requests : answered[r] # 0 => /\ answered[r] = row[r].attempts
                                           /\ row[r].status \in Settled

\* Neither a row nor a user is told "expired" before the request's deadline,
\* whichever of the two sweepers said so and however stale its read was.
ExpiredOnlyWhenOverdue ==
    \A r \in Requests :
        row[r].status = "expired" \/ consumer[r].outcome = "expired"
            => clock >= row[r].expires

\* A user is shown an answer only if some claim's submission was accepted.
ReportedAnswersWereAccepted ==
    \A r \in Requests : consumer[r].outcome \in Answers => answered[r] # 0

\* When a knowledge search ends with the connector's answer, the raw payload
\* (query and retrieved text) is gone from the database for good.
ConsumedPayloadErased ==
    \A r \in Requests :
        consumer[r].tool = "knowledge" /\ consumer[r].outcome \in Answers
            => ~row[r].result /\ ~row[r].arguments

\* A connector is never handed a request whose arguments were already erased.
ClaimableRowsKeepArguments ==
    \A r \in Requests : row[r].status \in Open => row[r].arguments

\* A settled request is never reopened, and the only thing that may still
\* overwrite an accepted answer is expiry, once the deadline has passed.
SettledIsFinal ==
    [][\A r \in Requests :
         row[r].status \in Settled =>
            /\ row'[r].attempts = row[r].attempts
            /\ \/ row'[r].status = row[r].status
               \/ row'[r].status = "expired" /\ clock >= row[r].expires]_vars

\* Every chat handler that filed a request stops waiting, whatever the
\* connector does, unless it is cancelled or the process dies.
WaitingEnds ==
    \A r \in Requests :
        consumer[r].phase \in {"creating", "sleeping", "loaded"}
            ~> consumer[r].phase \in {"done", "lost"}

\* As long as some connector keeps polling, no row stays open for ever, even
\* when its consumer is gone and its own connector is retired.
OpenRowsSettle ==
    \A r \in Requests :
        row[r].status \in Open ~> row[r].status \in Settled \/ retired = Connectors

=============================================================================

--------------------------- MODULE ConnectorStatus ---------------------------
(***************************************************************************)
(* The authoritative status of one registered connector                    *)
(* (app/services/connector_status_service.py and the heartbeat, failed     *)
(* authentication, inventory, retirement and maintenance operations of     *)
(* app/services/connector_service.py).                                     *)
(*                                                                         *)
(* None of these operations locks the row.  Each loads it, computes, and   *)
(* commits an UPDATE of the columns whose value it changed from the one it *)
(* loaded, so operations that overlap mix their columns.  Nothing flushes  *)
(* or refreshes the row in between (autoflush is off, and commit does not  *)
(* expire it).                                                             *)
(*                                                                         *)
(* A connector is independent of every other one here: the loops over      *)
(* connectors commit a row exactly when that row's status changed.         *)
(* Columns nothing reads back (consecutive_missed_heartbeats, the          *)
(* connector's own status claim) are left out.                             *)
(***************************************************************************)
EXTENDS Naturals, FiniteSets

CONSTANTS
    Handlers,       \* concurrent request handlers
    Maintenance,    \* the session of connector_maintenance_loop
    Interval,       \* heartbeat_interval_seconds
    Threshold,      \* authentication_failure_threshold
    Never,          \* last_heartbeat_at is NULL
    MaxTime,        \* bound: the clock stops here
    MaxFailures,    \* bound: recorded authentication failures
    MaxOpen,        \* bound: operations under way at once
    Reports         \* bound: the source healths a heartbeat may report

ASSUME StatusAssumption ==
    /\ Interval \in Nat \ {0}
    /\ Threshold \in Nat \ {0}
    /\ MaxTime \in Nat
    /\ MaxFailures \in Nat
    /\ MaxOpen \in Nat
    /\ Reports \subseteq BOOLEAN
    /\ Maintenance \notin Handlers
    /\ Never \notin Nat

VARIABLES
    clock,          \* datetime.now(UTC)
    row,            \* the connector's row in managed_connectors
    session,        \* what each handler and the maintenance loop is doing
    recorded        \* AUTHENTICATION_FAILURE events of _record_auth_failure

vars == <<clock, row, session, recorded>>

Sessions == Handlers \cup {Maintenance}

Statuses == {"connected", "degraded", "out_of_sync", "disconnected",
             "authentication_failed", "retired"}

Row == [status : Statuses, retired : BOOLEAN, failures : Nat,
        lastHeartbeat : Nat \cup {Never}, unhealthy : BOOLEAN]

Session == [op : {"idle", "heartbeat", "failure", "recalculate", "retire"},
            loaded : Row, at : Nat]

\* The row register() inserts.
NewRow == [status |-> "disconnected", retired |-> FALSE, failures |-> 0,
           lastHeartbeat |-> Never, unhealthy |-> FALSE]

Idle == [op |-> "idle", loaded |-> NewRow, at |-> 0]

Init ==
    /\ clock = 0
    /\ row = NewRow
    /\ session = [s \in Sessions |-> Idle]
    /\ recorded = 0

-----------------------------------------------------------------------------
(***************************************************************************)
(* The status service.                                                     *)
(***************************************************************************)

Elapsed(r, now) == IF r.lastHeartbeat <= now THEN now - r.lastHeartbeat ELSE 0

\* derive: the first reason that applies.
Derive(r, now) ==
    IF r.retired THEN "retired"
    ELSE IF r.failures >= Threshold THEN "authentication_failed"
    ELSE IF r.lastHeartbeat = Never THEN "disconnected"
    ELSE IF Elapsed(r, now) >= 3 * Interval THEN "disconnected"
    ELSE IF 2 * Elapsed(r, now) > 3 * Interval THEN "out_of_sync"
    ELSE IF r.unhealthy THEN "degraded"
    ELSE "connected"

\* recalculate
Recalculated(r, now) == [r EXCEPT !.status = Derive(r, now)]

-----------------------------------------------------------------------------
(***************************************************************************)
(* The unit of work.                                                       *)
(***************************************************************************)

\* An attribute that keeps the value it was loaded with is not written.
Column(stored, loaded, new) == IF new = loaded THEN stored ELSE new

\* UPDATE managed_connectors at the commit of s, which leaves new in memory.
Update(s, new) ==
    LET old == session[s].loaded
    IN  row' = [status |-> Column(row.status, old.status, new.status),
                retired |-> Column(row.retired, old.retired, new.retired),
                failures |-> Column(row.failures, old.failures, new.failures),
                lastHeartbeat |->
                    Column(row.lastHeartbeat, old.lastHeartbeat, new.lastHeartbeat),
                unhealthy |-> Column(row.unhealthy, old.unhealthy, new.unhealthy)]

Busy == {s \in Sessions : session[s].op # "idle"}

\* An operation loads the row ...
Load(s, op) ==
    /\ session[s].op = "idle"
    /\ Cardinality(Busy) < MaxOpen
    /\ session' = [session EXCEPT ![s] = [op |-> op, loaded |-> row, at |-> clock]]
    /\ UNCHANGED <<clock, row, recorded>>

\* ... and ends, at most once, in a commit.
Finish(s, op) ==
    /\ session[s].op = op
    /\ session' = [session EXCEPT ![s] = Idle]
    /\ UNCHANGED clock

-----------------------------------------------------------------------------
(***************************************************************************)
(* Operations.                                                             *)
(***************************************************************************)

\* heartbeat with a good secret: a connector seen retired is turned away.
HeartbeatBegin(s) == ~row.retired /\ Load(s, "heartbeat")

\* record_heartbeat: received at some moment since, reporting a source health.
HeartbeatCommit(s) ==
    /\ Finish(s, "heartbeat")
    /\ \E now \in session[s].at .. clock, unhealthy \in Reports :
         Update(s, Recalculated([session[s].loaded EXCEPT !.lastHeartbeat = now,
                                                          !.unhealthy = unhealthy,
                                                          !.failures = 0], now))
    /\ UNCHANGED recorded

\* authenticate with a bad secret or header, for retired connectors too.
FailureBegin(s) ==
    /\ recorded + Cardinality({b \in Busy : session[b].op = "failure"}) < MaxFailures
    /\ Load(s, "failure")

\* Mutant: the failure is counted by the caller as well.
FailureCommitTwice(s) ==
    /\ Finish(s, "failure")
    /\ Update(s, Recalculated([session[s].loaded EXCEPT !.failures = @ + 2], session[s].at))
    /\ recorded' = recorded + 1

\* _record_auth_failure
FailureCommit(s) ==
    /\ Finish(s, "failure")
    /\ Update(s, Recalculated([session[s].loaded EXCEPT !.failures = @ + 1], session[s].at))
    /\ recorded' = recorded + 1

\* Mutant: the loop goes through the inventory, which hides retired connectors.
RecalculateBeginVisible(s) == ~row.retired /\ Load(s, "recalculate")

\* The inventories, the detail views and maintenance load the row ...
RecalculateBegin(s) == Load(s, "recalculate")

\* Mutant: nothing commits the session.
RecalculateCommitNothing(s) ==
    /\ Finish(s, "recalculate")
    /\ UNCHANGED <<row, recorded>>

\* ... and _recalculate_many it, at the clock read before or after the load.
RecalculateCommit(s) ==
    /\ Finish(s, "recalculate")
    /\ \E now \in session[s].at .. clock : Update(s, Recalculated(session[s].loaded, now))
    /\ UNCHANGED recorded

\* retire, which on a connector seen retired is a mere detail view.
RetireBegin(s) == ~row.retired /\ Load(s, "retire")

RetireCommit(s) ==
    /\ Finish(s, "retire")
    /\ Update(s, [session[s].loaded EXCEPT !.retired = TRUE, !.status = "retired"])
    /\ UNCHANGED recorded

\* A refusal (an instance mismatch), a failed commit, the death of the process.
Abandon(s) ==
    /\ session[s].op # "idle"
    /\ session' = [session EXCEPT ![s] = Idle]
    /\ UNCHANGED <<clock, row, recorded>>

Tick ==
    /\ clock < MaxTime
    /\ clock' = clock + 1
    /\ UNCHANGED <<row, session, recorded>>

Commit(s) ==
    HeartbeatCommit(s) \/ FailureCommit(s) \/ RecalculateCommit(s) \/ RetireCommit(s)

Next ==
    \/ \E s \in Handlers : HeartbeatBegin(s) \/ FailureBegin(s) \/ RetireBegin(s)
    \/ \E s \in Sessions : RecalculateBegin(s) \/ Commit(s) \/ Abandon(s)
    \/ Tick

Spec == Init /\ [][Next]_vars

(***************************************************************************)
(* Handlers return, time passes, and the maintenance loop, which logs what *)
(* fails and tries again a minute later, succeeds again and again.  Its    *)
(* beginning is strongly fair only because MaxOpen may hold it back while  *)
(* handlers overlap.                                                       *)
(***************************************************************************)
Fairness ==
    /\ WF_vars(Tick)
    /\ \A s \in Handlers : WF_vars(Commit(s) \/ Abandon(s))
    /\ SF_vars(RecalculateBegin(Maintenance))
    /\ SF_vars(RecalculateCommit(Maintenance))

FairSpec == Spec /\ Fairness

-----------------------------------------------------------------------------
(***************************************************************************)
(* Properties.                                                             *)
(***************************************************************************)

\* Type invariant of the row, the sessions and the audit counts.
TypeOK ==
    /\ clock \in Nat
    /\ row \in Row
    /\ session \in [Sessions -> Session]
    /\ recorded \in Nat

\* Overlapping operations lose failures but never invent one: the count that
\* locks a connector never exceeds the failures on the audit stream.
NeverOvercounted == row.failures <= recorded

\* Retirement survives every operation that loaded the row before it.
RetirementIsFinal == [][row.retired => row'.retired]_vars

\* An operation that loaded the row before the retirement may store another
\* status after it, but the status says retired in the end and stays so.
RetirementShows == row.retired ~> [](row.status = "retired")

\* ADR 0007, "Disconnected": a connector that falls silent is not shown as
\* reachable for ever, although nothing but the maintenance loop looks at it.
SilenceIsNoticed ==
    row.lastHeartbeat # Never /\ Elapsed(row, clock) >= 3 * Interval
        ~> \/ row.status \in {"disconnected", "authentication_failed", "retired"}
           \/ Elapsed(row, clock) < 3 * Interval

=============================================================================

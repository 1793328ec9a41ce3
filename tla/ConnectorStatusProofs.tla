------------------------ MODULE ConnectorStatusProofs ------------------------
(***************************************************************************)
(* What holds of ConnectorStatus for any number of handlers, any interval  *)
(* and any threshold.  NeverOvercounted is not inductive by itself: a      *)
(* session may be about to store the count it loaded, so the loaded counts *)
(* have to be bounded by the audit stream as well (LoadedCounts).          *)
(***************************************************************************)
EXTENDS ConnectorStatus, TLAPS

\* No operation under way has loaded more failures than were recorded.
LoadedCounts == \A s \in Sessions : session[s].loaded.failures <= recorded

IInv == TypeOK /\ NeverOvercounted /\ LoadedCounts

USE StatusAssumption

-----------------------------------------------------------------------------

LEMMA DeriveType == ASSUME NEW r, NEW now PROVE Derive(r, now) \in Statuses
  BY DEF Derive, Statuses

LEMMA RecalculatedType ==
    ASSUME NEW r \in Row, NEW now
    PROVE  /\ Recalculated(r, now) \in Row
           /\ Recalculated(r, now).failures = r.failures
           /\ Recalculated(r, now).retired = r.retired
  BY DeriveType DEF Recalculated, Row

\* What an UPDATE stores is the old value of a column or the new one.
LEMMA UpdateColumns ==
    ASSUME TypeOK, NEW s \in Sessions, NEW new \in Row, Update(s, new)
    PROVE  /\ row' \in Row
           /\ row'.failures = row.failures \/ row'.failures = new.failures
           /\ new.retired = session[s].loaded.retired => row'.retired = row.retired
           /\ new.retired => row'.retired \/ row'.retired = row.retired
  <1>1. row \in Row /\ session[s].loaded \in Row
    BY DEF TypeOK, Session
  <1> QED BY <1>1 DEF Update, Column, Row

\* The row a commit leaves in memory.
LEMMA CommittedRows ==
    ASSUME TypeOK, NEW s \in Sessions
    PROVE  /\ session[s].loaded \in Row
           /\ \A now \in Nat, u \in BOOLEAN :
                [session[s].loaded EXCEPT !.lastHeartbeat = now, !.unhealthy = u,
                                          !.failures = 0] \in Row
           /\ [session[s].loaded EXCEPT !.failures = @ + 1] \in Row
           /\ [session[s].loaded EXCEPT !.retired = TRUE, !.status = "retired"] \in Row
  <1>1. session[s].loaded \in Row
    BY DEF TypeOK, Session
  <1>2. PICK old \in Row : old = session[s].loaded
    BY <1>1
  <1>3. \A now \in Nat, u \in BOOLEAN :
          [old EXCEPT !.lastHeartbeat = now, !.unhealthy = u, !.failures = 0] \in Row
    BY DEF Row
  <1>4. [old EXCEPT !.failures = @ + 1] \in Row
    BY DEF Row
  <1>5. [old EXCEPT !.retired = TRUE, !.status = "retired"] \in Row
    BY DEF Row, Statuses
  <1> QED BY <1>1, <1>2, <1>3, <1>4, <1>5

\* What the commit of an operation may do to the row.
LEMMA CommitStep ==
    ASSUME TypeOK, NEW s \in Sessions, Commit(s)
    PROVE  /\ row' \in Row
           /\ row.retired => row'.retired
           /\ \/ row'.failures \in {row.failures, 0, session[s].loaded.failures}
                 /\ recorded' = recorded
              \/ row'.failures \in {row.failures, session[s].loaded.failures + 1}
                 /\ recorded' = recorded + 1
  <1> DEFINE old == session[s].loaded
  <1>t. row \in Row /\ old \in Row /\ clock \in Nat /\ session[s].at \in Nat
    BY DEF TypeOK, Session
  <1>1. CASE HeartbeatCommit(s)
    <2>1. PICK now \in session[s].at .. clock, u \in BOOLEAN :
            Update(s, Recalculated([old EXCEPT !.lastHeartbeat = now, !.unhealthy = u,
                                               !.failures = 0], now))
      BY <1>1 DEF HeartbeatCommit
    <2>2. PICK beat : beat = [old EXCEPT !.lastHeartbeat = now, !.unhealthy = u,
                                         !.failures = 0]
      OBVIOUS
    <2>3. now \in Nat
      BY <1>t
    <2>4. beat \in Row /\ beat.failures = 0 /\ beat.retired = old.retired
      BY <2>2, <2>3, <1>t, CommittedRows DEF Row
    <2>5. Update(s, Recalculated(beat, now))
      BY <2>1, <2>2
    <2>6. /\ Recalculated(beat, now) \in Row
          /\ Recalculated(beat, now).failures = 0
          /\ Recalculated(beat, now).retired = old.retired
      BY <2>4, RecalculatedType
    <2>7. /\ row' \in Row
          /\ row'.retired = row.retired
          /\ row'.failures = row.failures \/ row'.failures = 0
      BY <2>5, <2>6, UpdateColumns
    <2> QED BY <2>7, <1>1 DEF HeartbeatCommit
  <1>2. CASE FailureCommit(s)
    <2>1. PICK failed : failed = [old EXCEPT !.failures = @ + 1]
      OBVIOUS
    <2>2. failed \in Row /\ failed.failures = old.failures + 1
                         /\ failed.retired = old.retired
      BY <2>1, <1>t, CommittedRows DEF Row
    <2>3. Update(s, Recalculated(failed, session[s].at))
      BY <1>2, <2>1 DEF FailureCommit
    <2>4. /\ Recalculated(failed, session[s].at) \in Row
          /\ Recalculated(failed, session[s].at).failures = old.failures + 1
          /\ Recalculated(failed, session[s].at).retired = old.retired
      BY <2>2, RecalculatedType
    <2>5. /\ row' \in Row
          /\ row'.retired = row.retired
          /\ row'.failures = row.failures \/ row'.failures = old.failures + 1
      BY <2>3, <2>4, UpdateColumns
    <2> QED BY <2>5, <1>2 DEF FailureCommit
  <1>3. CASE RecalculateCommit(s)
    <2>1. PICK now \in session[s].at .. clock : Update(s, Recalculated(old, now))
      BY <1>3 DEF RecalculateCommit
    <2>2. /\ Recalculated(old, now) \in Row
          /\ Recalculated(old, now).failures = old.failures
          /\ Recalculated(old, now).retired = old.retired
      BY <1>t, RecalculatedType
    <2>3. /\ row' \in Row
          /\ row'.retired = row.retired
          /\ row'.failures = row.failures \/ row'.failures = old.failures
      BY <2>1, <2>2, UpdateColumns
    <2> QED BY <2>3, <1>3 DEF RecalculateCommit
  <1>4. CASE RetireCommit(s)
    <2>1. PICK gone : gone = [old EXCEPT !.retired = TRUE, !.status = "retired"]
      OBVIOUS
    <2>2. gone \in Row /\ gone.failures = old.failures /\ gone.retired = TRUE
      BY <2>1, <1>t, CommittedRows DEF Row
    <2>3. Update(s, gone)
      BY <1>4, <2>1 DEF RetireCommit
    <2>4. /\ row' \in Row
          /\ row'.retired \/ row'.retired = row.retired
          /\ row'.failures = row.failures \/ row'.failures = old.failures
      BY <2>2, <2>3, UpdateColumns
    <2> QED BY <2>4, <1>4 DEF RetireCommit
  <1> QED BY <1>1, <1>2, <1>3, <1>4 DEF Commit

\* What the other steps of a session do.
LEMMA SessionStep ==
    ASSUME IInv, NEW s \in Sessions, NEW op \in {"heartbeat", "failure", "recalculate", "retire"},
           Load(s, op) \/ Abandon(s)
    PROVE  /\ UNCHANGED <<clock, row, recorded>>
           /\ session' \in [Sessions -> Session]
           /\ LoadedCounts'
  <1>t. session \in [Sessions -> Session] /\ row \in Row /\ clock \in Nat /\ recorded \in Nat
    BY DEF IInv, TypeOK
  <1>1. NewRow \in Row /\ NewRow.failures = 0
    BY DEF NewRow, Row, Statuses
  <1>2. Idle \in Session /\ Idle.loaded.failures <= recorded
    BY <1>1, <1>t DEF Idle, Session
  <1>3. PICK fresh : fresh = [op |-> op, loaded |-> row, at |-> clock]
    OBVIOUS
  <1>4. fresh \in Session /\ fresh.loaded.failures <= recorded
    BY <1>3, <1>t DEF Session, IInv, NeverOvercounted
  <1>5. /\ UNCHANGED <<clock, row, recorded>>
        /\ session' = [session EXCEPT ![s] = fresh] \/ session' = [session EXCEPT ![s] = Idle]
    BY <1>3 DEF Load, Abandon
  <1>6. session' \in [Sessions -> Session]
    BY <1>2, <1>4, <1>5, <1>t
  <1>7. ASSUME NEW q \in Sessions PROVE session'[q].loaded.failures <= recorded'
    <2>1. session'[q] \in {fresh, Idle, session[q]}
      BY <1>5, <1>t
    <2> QED BY <2>1, <1>2, <1>4, <1>5 DEF IInv, LoadedCounts
  <1> QED BY <1>5, <1>6, <1>7 DEF LoadedCounts

-----------------------------------------------------------------------------

LEMMA InitIInv == Init => IInv
  <1> SUFFICES ASSUME Init PROVE IInv
    OBVIOUS
  <1>1. NewRow \in Row /\ NewRow.failures = 0
    BY DEF NewRow, Row, Statuses
  <1>2. Idle \in Session /\ Idle.loaded.failures = 0
    BY <1>1 DEF Idle, Session
  <1> QED BY <1>1, <1>2 DEF Init, IInv, TypeOK, NeverOvercounted, LoadedCounts

LEMMA CommitKeepsIInv ==
    ASSUME IInv, NEW s \in Sessions, Commit(s)
    PROVE  IInv'
  <1>t. /\ TypeOK
        /\ session \in [Sessions -> Session]
        /\ row.failures \in Nat /\ session[s].loaded.failures \in Nat
        /\ recorded \in Nat
    BY DEF IInv, TypeOK, Session, Row
  <1>1. NewRow \in Row /\ NewRow.failures = 0
    BY DEF NewRow, Row, Statuses
  <1>2. Idle \in Session /\ Idle.loaded.failures = 0
    BY <1>1 DEF Idle, Session
  <1>3. /\ session' = [session EXCEPT ![s] = Idle]
        /\ clock' = clock
    BY DEF Commit, HeartbeatCommit, FailureCommit, RecalculateCommit, RetireCommit, Finish
  <1>4. recorded' \in Nat /\ recorded <= recorded'
    BY <1>t, CommitStep
  <1>5. TypeOK'
    BY <1>t, <1>2, <1>3, <1>4, CommitStep DEF TypeOK
  <1>6. NeverOvercounted'
    <2>1. row.failures <= recorded /\ session[s].loaded.failures <= recorded
      BY DEF IInv, NeverOvercounted, LoadedCounts
    <2> QED BY <1>t, <2>1, CommitStep DEF NeverOvercounted
  <1>7. LoadedCounts'
    <2> SUFFICES ASSUME NEW q \in Sessions PROVE session'[q].loaded.failures <= recorded'
      BY DEF LoadedCounts
    <2>1. session'[q] = Idle \/ session'[q] = session[q]
      BY <1>3, <1>t
    <2>2. session[q].loaded.failures <= recorded /\ session[q].loaded.failures \in Nat
      BY <1>t DEF IInv, LoadedCounts, Session, Row
    <2> QED BY <2>1, <2>2, <1>2, <1>4, <1>t
  <1> QED BY <1>5, <1>6, <1>7 DEF IInv

LEMMA NextKeepsIInv == IInv /\ [Next]_vars => IInv'
  <1> SUFFICES ASSUME IInv, [Next]_vars PROVE IInv'
    OBVIOUS
  <1>1. ASSUME NEW s \in Sessions, Commit(s) PROVE IInv'
    BY <1>1, CommitKeepsIInv
  <1>2. ASSUME NEW s \in Sessions,
               NEW op \in {"heartbeat", "failure", "recalculate", "retire"},
               Load(s, op) \/ Abandon(s)
        PROVE  IInv'
    BY <1>2, SessionStep DEF IInv, TypeOK, NeverOvercounted
  <1>3. CASE Tick
    BY <1>3 DEF Tick, IInv, TypeOK, NeverOvercounted, LoadedCounts
  <1>4. CASE UNCHANGED vars
    BY <1>4 DEF vars, IInv, TypeOK, NeverOvercounted, LoadedCounts
  <1> QED BY <1>1, <1>2, <1>3, <1>4
       DEF Next, HeartbeatBegin, FailureBegin, RetireBegin, RecalculateBegin, Sessions

\* The strengthening of NeverOvercounted.
THEOREM Inductive == Spec => []IInv
  BY InitIInv, NextKeepsIInv, PTL DEF Spec

\* Every reachable state is well typed.
THEOREM TypeCorrect == Spec => []TypeOK
  <1>1. IInv => TypeOK
    BY DEF IInv
  <1> QED BY <1>1, Inductive, PTL

\* However operations overlap, a connector is never locked by more failures
\* than the audit stream shows.
THEOREM FailuresAreReal == Spec => []NeverOvercounted
  <1>1. IInv => NeverOvercounted
    BY DEF IInv
  <1> QED BY <1>1, Inductive, PTL

\* No stale copy of the row brings a retired connector back.
THEOREM RetirementSticks == Spec => RetirementIsFinal
  <1>1. ASSUME IInv, [Next]_vars PROVE row.retired => row'.retired
    <2>1. ASSUME NEW s \in Sessions, Commit(s) PROVE row.retired => row'.retired
      BY <1>1, <2>1, CommitStep DEF IInv
    <2>2. (\A s \in Sessions : ~Commit(s)) => row' = row
      BY <1>1 DEF Next, HeartbeatBegin, FailureBegin, RetireBegin, RecalculateBegin,
                  Sessions, Load, Abandon, Tick, vars
    <2> QED BY <2>1, <2>2
  <1>2. IInv /\ [Next]_vars => [row.retired => row'.retired]_vars
    BY <1>1
  <1> QED BY <1>2, Inductive, PTL DEF Spec, RetirementIsFinal

=============================================================================

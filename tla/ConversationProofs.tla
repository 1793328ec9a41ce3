------------------------- MODULE ConversationProofs -------------------------
(***************************************************************************)
(* What holds of AI conversations: of the messages and their generation    *)
(* first, then of the conversations that contain them, and last of how an  *)
(* answer comes about.                                                     *)
(***************************************************************************)
EXTENDS ConversationLifecycle, AnswerGeneration, SequenceTheorems,
        WellFoundedInduction, TLAPS

(***************************************************************************)
(* What holds of ConversationGeneration for any number of requests and     *)
(* conversations and any staleness limit.                                  *)
(*                                                                         *)
(* The safety properties rest on two facts that none of them states.  The  *)
(* row locks of fail_stale: what a transaction is about to fail is still   *)
(* STREAMING, and no other transaction is about to fail it (LockInv).  And *)
(* what the row of a message says at each step of its request (StepInv):   *)
(* up to the request's own verdict, only fail_stale has touched it.        *)
(***************************************************************************)

LockInv ==
    \A n \in Messages : InTransaction(n) =>
        /\ \A m \in request[n].failing : row[m].status = "streaming"
        /\ \A p \in Messages \ {n} :
             InTransaction(p) => request[n].failing \cap request[p].failing = {}

\* What a request knows of a row that it has or has not settled.
Agrees(q, r) ==
    /\ r.status \in {"absent", "streaming"} => r.code = "none"
    /\ q.step \in {"new", "begun", "checked"} => r.status = "absent"
    /\ q.step \in {"running", "terminating"} =>
         r.status = "streaming" \/ (r.status = "failed" /\ r.code = "interrupted")
    /\ q.step = "terminating" => q.verdict # "completed"
    /\ q.step = "settled" /\ q.verdict = "completed" => r.status = "completed"
    /\ q.step = "settled" /\ q.verdict = "failed" => r.status = "failed"
    /\ q.told # "nothing" => q.step = "over"
    /\ q.told = "complete" => r.status = "completed"
    /\ q.told = "error" => r.status = "failed"

StepInv == \A m \in Messages : Agrees(request[m], row[m])

IInv == TypeOK /\ LockInv /\ StepInv /\ OneStreaming

USE GenerationAssumption

-----------------------------------------------------------------------------
(***************************************************************************)
(* Steps that leave the table alone.                                       *)
(***************************************************************************)

\* One request changes and holds no lock it did not hold.
LEMMA RequestStep ==
    ASSUME IInv, NEW m \in Messages, NEW new \in Request,
           request' = [request EXCEPT ![m] = new],
           UNCHANGED <<clock, row>>,
           new.step \in {"begun", "checked"} =>
               InTransaction(m) /\ new.failing = request[m].failing,
           Agrees(new, row[m])
    PROVE  IInv'
  <1>t. request \in [Messages -> Request] /\ row \in [Messages -> Row] /\ clock \in Nat
    BY DEF IInv, TypeOK
  <1>1. request'[m] = new /\ \A n \in Messages \ {m} : request'[n] = request[n]
    BY <1>t
  <1>2. TypeOK'
    BY <1>t DEF TypeOK
  <1>3. LockInv'
    <2>1. \A n \in Messages : InTransaction(n)' =>
            InTransaction(n) /\ request'[n].failing = request[n].failing
      BY <1>1 DEF InTransaction
    <2> QED BY <2>1 DEF IInv, LockInv
  <1>4. StepInv'
    BY <1>1 DEF IInv, StepInv
  <1>5. OneStreaming'
    BY DEF IInv, OneStreaming
  <1> QED BY <1>2, <1>3, <1>4, <1>5 DEF IInv

LEMMA BeginStep ==
    ASSUME IInv, NEW m \in Messages, NEW c \in Conversations, Begin(m, c)
    PROVE  IInv'
  <1>t. request \in [Messages -> Request] /\ row \in [Messages -> Row] /\ clock \in Nat
    BY DEF IInv, TypeOK
  <1>o. request[m] \in Request
    BY <1>t
  <1>1. PICK new : new = [request[m] EXCEPT !.step = "begun", !.conversation = c,
                                            !.created = clock, !.failing = Stale]
    OBVIOUS
  <1>s. Stale \subseteq Messages
    BY DEF Stale
  <1>2. /\ new \in Request
        /\ new.step = "begun" /\ new.failing = Stale
        /\ new.told = request[m].told /\ new.verdict = request[m].verdict
    BY <1>1, <1>o, <1>t, <1>s DEF Request
  <1>3. /\ request' = [request EXCEPT ![m] = new]
        /\ request[m].step = "new"
        /\ \A n \in Stale : ~Locked(n)
        /\ UNCHANGED <<clock, row>>
    BY <1>1 DEF Begin
  <1>4. request'[m] = new /\ \A n \in Messages \ {m} : request'[n] = request[n]
    BY <1>t, <1>3
  <1>5. TypeOK'
    BY <1>t, <1>2, <1>3 DEF TypeOK
  <1>6. LockInv'
    <2>1. \A n \in Stale : row[n].status = "streaming"
      BY DEF Stale
    <2>2. \A n \in Messages \ {m} : InTransaction(n)' => InTransaction(n)
      BY <1>4 DEF InTransaction
    <2>3. \A n \in Messages : InTransaction(n) => request[n].failing \cap Stale = {}
      BY <1>3 DEF Locked
    <2>4. ASSUME NEW n \in Messages, InTransaction(n)'
          PROVE  \A p \in request'[n].failing : row'[p].status = "streaming"
      BY <2>4, <2>1, <2>2, <1>2, <1>3, <1>4 DEF IInv, LockInv
    <2>5. ASSUME NEW n \in Messages, NEW p \in Messages \ {n},
                 InTransaction(n)', InTransaction(p)'
          PROVE  request'[n].failing \cap request'[p].failing = {}
      <3>1. CASE n = m
        BY <3>1, <2>5, <2>2, <2>3, <1>2, <1>4
      <3>2. CASE p = m
        BY <3>2, <2>5, <2>2, <2>3, <1>2, <1>4
      <3>3. CASE n # m /\ p # m
        BY <3>3, <2>5, <2>2, <1>4 DEF IInv, LockInv
      <3> QED BY <3>1, <3>2, <3>3
    <2> QED BY <2>4, <2>5 DEF LockInv
  <1>7. StepInv'
    <2>1. Agrees(new, row[m])
      BY <1>2, <1>3 DEF IInv, StepInv, Agrees
    <2> QED BY <2>1, <1>3, <1>4 DEF IInv, StepInv
  <1>8. OneStreaming'
    BY <1>3 DEF IInv, OneStreaming
  <1> QED BY <1>5, <1>6, <1>7, <1>8 DEF IInv

LEMMA RollBackStep ==
    ASSUME IInv, NEW m \in Messages, request[m].step \notin {"new", "over"},
           RollBack(m), UNCHANGED <<clock, row>>
    PROVE  IInv'
  <1>o. request[m] \in Request
    BY DEF IInv, TypeOK
  <1>1. PICK new : new = [request[m] EXCEPT !.step = "over", !.failing = {}]
    OBVIOUS
  <1>2. /\ new \in Request
        /\ new.step = "over"
        /\ new.told = request[m].told /\ new.verdict = request[m].verdict
    BY <1>1, <1>o DEF Request
  <1>3. Agrees(new, row[m])
    BY <1>2 DEF IInv, StepInv, Agrees
  <1> QED BY <1>1, <1>2, <1>3, RequestStep DEF RollBack

LEMMA CheckStep ==
    ASSUME IInv, NEW m \in Messages, Check(m)
    PROVE  IInv'
  <1>o. request[m] \in Request
    BY DEF IInv, TypeOK
  <1>1. PICK new : new = [request[m] EXCEPT !.step = "checked"]
    OBVIOUS
  <1>2. /\ new \in Request
        /\ new.step = "checked" /\ new.failing = request[m].failing
        /\ new.told = request[m].told /\ new.verdict = request[m].verdict
    BY <1>1, <1>o DEF Request
  <1>3. Agrees(new, row[m])
    BY <1>2 DEF IInv, StepInv, Agrees, Check
  <1>4. InTransaction(m)
    BY DEF Check, InTransaction
  <1>5. request' = [request EXCEPT ![m] = new] /\ UNCHANGED <<clock, row>>
    BY <1>1 DEF Check
  <1> QED BY <1>2, <1>3, <1>4, <1>5, RequestStep

LEMMA PollStep ==
    ASSUME IInv, NEW m \in Messages, Poll(m)
    PROVE  IInv'
  <1>o. request[m] \in Request
    BY DEF IInv, TypeOK
  <1>1. PICK new : new = [request[m] EXCEPT !.memory = "expired"]
    OBVIOUS
  <1>2. /\ new \in Request
        /\ new.step = "running"
        /\ new.told = request[m].told /\ new.verdict = request[m].verdict
    BY <1>1, <1>o DEF Request, Poll
  <1>3. Agrees(new, row[m])
    BY <1>2 DEF IInv, StepInv, Agrees, Poll
  <1>5. request' = [request EXCEPT ![m] = new] /\ UNCHANGED <<clock, row>>
    BY <1>1 DEF Poll
  <1> QED BY <1>2, <1>3, <1>5, RequestStep

LEMMA TerminateReadStep ==
    ASSUME IInv, NEW m \in Messages, NEW verdict \in {"failed", "cancelled"},
           TerminateRead(m, verdict)
    PROVE  IInv'
  <1>o. request[m] \in Request
    BY DEF IInv, TypeOK
  <1>1. PICK new : new =
          [request[m] EXCEPT !.verdict = verdict,
             !.step = IF request[m].memory = "streaming" \/ row[m].status = "streaming"
                      THEN "terminating" ELSE "settled"]
    OBVIOUS
  <1>2. /\ new \in Request
        /\ new.step \in {"terminating", "settled"}
        /\ new.step = "settled" => row[m].status # "streaming"
        /\ new.told = request[m].told /\ new.verdict = verdict
    BY <1>1, <1>o DEF Request
  <1>3. Agrees(new, row[m])
    BY <1>2 DEF IInv, StepInv, Agrees, TerminateRead
  <1>5. request' = [request EXCEPT ![m] = new] /\ UNCHANGED <<clock, row>>
    BY <1>1 DEF TerminateRead
  <1> QED BY <1>2, <1>3, <1>5, RequestStep

LEMMA TellStep ==
    ASSUME IInv, NEW m \in Messages, Tell(m)
    PROVE  IInv'
  <1>o. request[m] \in Request
    BY DEF IInv, TypeOK
  <1>1. PICK new : new =
          [request[m] EXCEPT !.step = "over",
             !.told = IF request[m].verdict = "completed" THEN "complete" ELSE "error"]
    OBVIOUS
  <1>2. /\ new \in Request
        /\ new.step = "over"
        /\ new.told = "complete" => request[m].verdict = "completed"
        /\ new.told = "error" => request[m].verdict # "completed"
    BY <1>1, <1>o DEF Request
  <1>3. Agrees(new, row[m])
    <2>1. request[m].verdict = "completed" \/ request[m].verdict = "failed"
      BY <1>o DEF Tell, Request
    <2> QED BY <1>2, <2>1 DEF IInv, StepInv, Agrees, Tell
  <1>5. request' = [request EXCEPT ![m] = new] /\ UNCHANGED <<clock, row>>
    BY <1>1 DEF Tell, Report
  <1> QED BY <1>2, <1>3, <1>5, RequestStep

-----------------------------------------------------------------------------
(***************************************************************************)
(* Steps that write the table.                                             *)
(***************************************************************************)

\* A request settles its own message, which nobody has locked.
LEMMA SettleStep ==
    ASSUME IInv, NEW m \in Messages, NEW new \in Request, NEW r \in Row,
           request' = [request EXCEPT ![m] = new],
           row' = [row EXCEPT ![m] = r],
           clock' = clock,
           ~Locked(m), new.step = "settled", r.status # "streaming",
           Agrees(new, r)
    PROVE  IInv'
  <1>t. request \in [Messages -> Request] /\ row \in [Messages -> Row] /\ clock \in Nat
    BY DEF IInv, TypeOK
  <1>1. /\ request'[m] = new /\ \A n \in Messages \ {m} : request'[n] = request[n]
        /\ row'[m] = r /\ \A n \in Messages \ {m} : row'[n] = row[n]
    BY <1>t
  <1>2. TypeOK'
    BY <1>t DEF TypeOK
  <1>3. LockInv'
    <2>1. \A n \in Messages : InTransaction(n)' =>
            InTransaction(n) /\ request'[n].failing = request[n].failing
      BY <1>1 DEF InTransaction
    <2>2. \A n \in Messages : InTransaction(n) => m \notin request[n].failing
      BY DEF Locked
    <2>3. ASSUME NEW n \in Messages, InTransaction(n)', NEW p \in request'[n].failing
          PROVE  row'[p].status = "streaming"
      <3>1. p # m /\ p \in Messages
        BY <2>1, <2>2, <2>3, <1>t DEF Request
      <3>2. row[p].status = "streaming"
        BY <2>1, <2>3 DEF IInv, LockInv
      <3> QED BY <3>1, <3>2, <1>1
    <2> QED BY <2>1, <2>3 DEF IInv, LockInv
  <1>4. StepInv'
    BY <1>1 DEF IInv, StepInv
  <1>5. OneStreaming'
    BY <1>1 DEF IInv, OneStreaming
  <1> QED BY <1>2, <1>3, <1>4, <1>5 DEF IInv

LEMMA CompleteStep ==
    ASSUME IInv, NEW m \in Messages, Complete(m)
    PROVE  IInv'
  <1>o. request[m] \in Request /\ row[m] \in Row
    BY DEF IInv, TypeOK
  <1>1. PICK new : new = [request[m] EXCEPT !.step = "settled", !.verdict = "completed"]
    OBVIOUS
  <1>2. PICK r : r = [row[m] EXCEPT !.status = "completed"]
    OBVIOUS
  <1>3. /\ new \in Request
        /\ new.step = "settled" /\ new.verdict = "completed" /\ new.told = request[m].told
    BY <1>1, <1>o DEF Request
  <1>4. r \in Row /\ r.status = "completed"
    BY <1>2, <1>o DEF Row
  <1>5. Agrees(new, r)
    BY <1>3, <1>4 DEF IInv, StepInv, Agrees, Complete
  <1>6. /\ request' = [request EXCEPT ![m] = new]
        /\ row' = [row EXCEPT ![m] = r]
        /\ clock' = clock /\ ~Locked(m)
    BY <1>1, <1>2 DEF Complete
  <1> QED BY <1>3, <1>4, <1>5, <1>6, SettleStep

LEMMA TerminateWriteStep ==
    ASSUME IInv, NEW m \in Messages, TerminateWrite(m)
    PROVE  IInv'
  <1>o. request[m] \in Request /\ row[m] \in Row
    BY DEF IInv, TypeOK
  <1>1. PICK new : new = [request[m] EXCEPT !.step = "settled"]
    OBVIOUS
  <1>2. PICK r : r = [row[m] EXCEPT !.status = request[m].verdict, !.code = "own"]
    OBVIOUS
  <1>3. /\ new \in Request
        /\ new.step = "settled" /\ new.verdict = request[m].verdict
        /\ new.told = request[m].told
    BY <1>1, <1>o DEF Request
  <1>v. request[m].verdict \in {"failed", "cancelled"}
    BY <1>o DEF Request, TerminateWrite, IInv, StepInv, Agrees
  <1>4. r \in Row /\ r.status = request[m].verdict /\ r.code = "own"
    BY <1>2, <1>v, <1>o DEF Row
  <1>5. Agrees(new, r)
    BY <1>3, <1>4, <1>v DEF IInv, StepInv, Agrees, TerminateWrite
  <1>6. /\ request' = [request EXCEPT ![m] = new]
        /\ row' = [row EXCEPT ![m] = r]
        /\ clock' = clock /\ ~Locked(m)
    BY <1>1, <1>2 DEF TerminateWrite
  <1> QED BY <1>3, <1>4, <1>5, <1>6, <1>v, SettleStep

LEMMA FailedRow ==
    ASSUME NEW r \in Row
    PROVE  Failed(r) \in Row /\ Failed(r).status = "failed" /\ Failed(r).code = "interrupted"
  BY DEF Failed, Row

\* fail_stale spares whatever its request has settled.
LEMMA FailedAgrees ==
    ASSUME NEW q \in Request, NEW r \in Row, Agrees(q, r), r.status = "streaming"
    PROVE  Agrees(q, Failed(r))
  BY FailedRow DEF Agrees

LEMMA InsertStep ==
    ASSUME IInv, NEW m \in Messages, Insert(m)
    PROVE  IInv'
  <1>t. request \in [Messages -> Request] /\ row \in [Messages -> Row] /\ clock \in Nat
    BY DEF IInv, TypeOK
  <1>o. request[m] \in Request /\ InTransaction(m) /\ row[m].status = "absent"
    BY <1>t DEF Insert, InTransaction, IInv, StepInv, Agrees
  <1>1. PICK new : new = [request[m] EXCEPT !.step = "running", !.failing = {}]
    OBVIOUS
  <1>2. PICK r : r = [status |-> "streaming", conversation |-> request[m].conversation,
                      created |-> request[m].created, code |-> "none"]
    OBVIOUS
  <1>3. /\ new \in Request
        /\ new.step = "running" /\ new.told = request[m].told
    BY <1>1, <1>o DEF Request
  <1>4. /\ r \in Row /\ r.status = "streaming" /\ r.code = "none"
        /\ r.conversation = request[m].conversation
    BY <1>2, <1>o DEF Row, Request
  <1>5. /\ request' = [request EXCEPT ![m] = new]
        /\ row' = [n \in Messages |-> IF n = m THEN r
                                      ELSE IF n \in request[m].failing THEN Failed(row[n])
                                      ELSE row[n]]
        /\ clock' = clock
        /\ ~ActiveGeneration(m, request[m].conversation)
    BY <1>1, <1>2 DEF Insert, WithMessage
  <1>6. request'[m] = new /\ \A n \in Messages \ {m} : request'[n] = request[n]
    BY <1>t, <1>5
  <1>7. row'[m] = r /\ \A n \in Messages \ {m} :
          row'[n] = IF n \in request[m].failing THEN Failed(row[n]) ELSE row[n]
    BY <1>5
  <1>8. \A n \in request[m].failing : row[n].status = "streaming"
    BY <1>o DEF IInv, LockInv
  <1>9. TypeOK'
    <2>1. \A n \in Messages : row'[n] \in Row
      BY <1>7, <1>4, <1>t, FailedRow
    <2>2. row' \in [Messages -> Row]
      BY <2>1, <1>5
    <2> QED BY <2>2, <1>t, <1>3, <1>5 DEF TypeOK
  <1>10. LockInv'
    <2>1. \A n \in Messages : InTransaction(n)' => InTransaction(n) /\ n # m
      BY <1>3, <1>6 DEF InTransaction
    <2>2. ASSUME NEW n \in Messages, InTransaction(n)', NEW p \in request'[n].failing
          PROVE  row'[p].status = "streaming"
      <3>1. p \in request[n].failing /\ n # m /\ InTransaction(n) /\ p \in Messages
        BY <2>1, <2>2, <1>6, <1>t DEF Request
      <3>2. row[p].status = "streaming"
        BY <3>1 DEF IInv, LockInv
      <3>3. p \notin request[m].failing
        BY <3>1, <1>o DEF IInv, LockInv
      <3> QED BY <3>1, <3>2, <3>3, <1>o, <1>7
    <2> QED BY <2>1, <2>2, <1>6 DEF IInv, LockInv
  <1>11. StepInv'
    <2>0. request[m].step = "checked" /\ Agrees(request[m], row[m])
      BY DEF Insert, IInv, StepInv
    <2>1. Agrees(new, r)
      BY <1>3, <1>4, <2>0 DEF Agrees
    <2>2. ASSUME NEW n \in Messages \ {m} PROVE Agrees(request'[n], row'[n])
      BY <1>6, <1>7, <1>8, <1>t, FailedAgrees DEF IInv, StepInv
    <2> QED BY <2>1, <2>2, <1>6, <1>7 DEF StepInv
  <1>12. OneStreaming'
    <2>1. ASSUME NEW n \in Messages \ {m}, row'[n].status = "streaming"
          PROVE  row'[n] = row[n] /\ row[n].conversation # r.conversation
      <3>1. n \notin request[m].failing
        BY <2>1, <1>7, <1>t, FailedRow
      <3>2. row'[n] = row[n]
        BY <3>1, <1>7
      <3> QED BY <3>1, <3>2, <2>1, <1>4, <1>5 DEF ActiveGeneration
    <2> QED BY <2>1, <1>7 DEF IInv, OneStreaming
  <1> QED BY <1>9, <1>10, <1>11, <1>12 DEF IInv

LEMMA ListStep == IInv /\ List => IInv'
  <1> SUFFICES ASSUME IInv, List PROVE IInv'
    OBVIOUS
  <1>t. request \in [Messages -> Request] /\ row \in [Messages -> Row] /\ clock \in Nat
    BY DEF IInv, TypeOK
  <1>1. /\ row' = [n \in Messages |-> IF n \in Stale THEN Failed(row[n]) ELSE row[n]]
        /\ UNCHANGED <<clock, request>>
        /\ \A n \in Stale : ~Locked(n)
    BY DEF List
  <1>2. \A n \in Stale : n \in Messages /\ row[n].status = "streaming"
    BY DEF Stale
  <1>3. \A n \in Messages : row'[n] = IF n \in Stale THEN Failed(row[n]) ELSE row[n]
    BY <1>1
  <1>4. TypeOK'
    <2>1. \A n \in Messages : row'[n] \in Row
      BY <1>3, <1>t, FailedRow
    <2>2. row' \in [Messages -> Row]
      BY <2>1, <1>1
    <2> QED BY <2>2, <1>t, <1>1 DEF TypeOK
  <1>5. LockInv'
    <2>1. ASSUME NEW n \in Messages, InTransaction(n), NEW p \in request[n].failing
          PROVE  row'[p].status = "streaming"
      <3>1. p \in Messages
        BY <1>t DEF Request
      <3>2. p \notin Stale
        BY <1>1, <2>1, <3>1 DEF Locked
      <3>3. row[p].status = "streaming"
        BY <2>1 DEF IInv, LockInv
      <3> QED BY <3>1, <3>2, <3>3, <1>3
    <2> QED BY <2>1, <1>1 DEF IInv, LockInv, InTransaction
  <1>6. StepInv'
    BY <1>1, <1>2, <1>3, <1>t, FailedAgrees DEF IInv, StepInv
  <1>7. OneStreaming'
    <2>1. \A n \in Messages : row'[n].status = "streaming" => row'[n] = row[n]
      BY <1>3, <1>t, FailedRow
    <2> QED BY <2>1 DEF IInv, OneStreaming
  <1> QED BY <1>4, <1>5, <1>6, <1>7 DEF IInv

-----------------------------------------------------------------------------
(***************************************************************************)
(* The theorems.                                                           *)
(***************************************************************************)

LEMMA InitIInv == Init => IInv
  <1> SUFFICES ASSUME Init PROVE IInv
    OBVIOUS
  <1>1. NoRow \in Row /\ NoRow.status = "absent" /\ NoRow.code = "none"
    BY DEF NoRow, Row
  <1>2. NewRequest \in Request /\ NewRequest.step = "new" /\ NewRequest.told = "nothing"
    BY DEF NewRequest, Request
  <1>3. Agrees(NewRequest, NoRow)
    BY <1>1, <1>2 DEF Agrees
  <1> QED BY <1>1, <1>2, <1>3
       DEF Init, IInv, TypeOK, LockInv, StepInv, OneStreaming, InTransaction

LEMMA NextStep == IInv /\ [Next]_vars => IInv'
  <1> SUFFICES ASSUME IInv, [Next]_vars PROVE IInv'
    OBVIOUS
  <1>1. ASSUME NEW m \in Messages, NEW c \in Conversations, Begin(m, c) PROVE IInv'
    BY <1>1, BeginStep
  <1>2. ASSUME NEW m \in Messages, BeginOn(m) PROVE IInv'
    <2>1. CASE Refuse(m)
      BY <2>1, RollBackStep DEF Refuse
    <2>2. CASE Check(m)
      BY <2>2, CheckStep
    <2>3. CASE Insert(m)
      BY <2>3, InsertStep
    <2>4. CASE Conflict(m)
      BY <2>4, RollBackStep DEF Conflict
    <2> QED BY <1>2, <2>1, <2>2, <2>3, <2>4 DEF BeginOn
  <1>3. ASSUME NEW m \in Messages, Generate(m) PROVE IInv'
    <2>1. CASE Die(m)
      BY <2>1, RollBackStep DEF Die
    <2> QED BY <1>3, <2>1, PollStep, CompleteStep, TerminateReadStep,
               TerminateWriteStep, TellStep DEF Generate
  <1>4. CASE List
    BY <1>4, ListStep
  <1>5. CASE Tick
    BY <1>5 DEF Tick, IInv, TypeOK, LockInv, StepInv, OneStreaming, InTransaction
  <1>6. CASE UNCHANGED vars
    BY <1>6 DEF vars, IInv, TypeOK, LockInv, StepInv, OneStreaming, InTransaction
  <1> QED BY <1>1, <1>2, <1>3, <1>4, <1>5, <1>6 DEF Next

\* The strengthening: row locks, and what the rows say at each step.
THEOREM Inductive == Spec => []IInv
  BY InitIInv, NextStep, PTL DEF Spec

\* Every reachable state is well typed.
THEOREM TypeCorrect == Spec => []TypeOK
  <1>1. IInv => TypeOK
    BY DEF IInv
  <1> QED BY <1>1, Inductive, PTL

\* At most one answer per conversation is shown as being generated.
THEOREM OneAnswerStreams == Spec => []OneStreaming
  <1>1. IInv => OneStreaming
    BY DEF IInv
  <1> QED BY <1>1, Inductive, PTL

\* What the user was told is what is stored.
THEOREM ReportsMatchRows == Spec => []ToldAsStored
  <1>1. IInv => ToldAsStored
    BY DEF IInv, StepInv, Agrees, ToldAsStored
  <1> QED BY <1>1, Inductive, PTL

\* No step changes a row that its own request has settled.
LEMMA SettledStep ==
    ASSUME IInv, [Next]_vars, NEW m \in Messages, SettledByRequest(m)
    PROVE  row'[m] = row[m]
  <1>t. request \in [Messages -> Request] /\ row \in [Messages -> Row]
    BY DEF IInv, TypeOK
  <1>1. row[m].status \notin {"absent", "streaming"}
    BY DEF SettledByRequest, IInv, StepInv, Agrees
  <1>2. request[m].step \notin {"checked", "running", "terminating"}
    BY DEF SettledByRequest, IInv, StepInv, Agrees
  <1>3. ASSUME NEW n \in Messages, Insert(n) PROVE row'[m] = row[m]
    <2>1. m # n /\ InTransaction(n)
      BY <1>2, <1>3 DEF Insert, InTransaction
    <2>2. m \notin request[n].failing
      BY <1>1, <2>1 DEF IInv, LockInv
    <2> QED BY <1>3, <2>1, <2>2 DEF Insert, WithMessage
  <1>4. ASSUME NEW n \in Messages, Complete(n) \/ TerminateWrite(n) PROVE row'[m] = row[m]
    BY <1>t, <1>2, <1>4 DEF Complete, TerminateWrite
  <1>5. CASE List
    BY <1>1, <1>5 DEF List, Stale
  <1>6. row' = row \/ List \/ \E n \in Messages :
          Insert(n) \/ Complete(n) \/ TerminateWrite(n)
    BY DEF Next, Begin, BeginOn, Refuse, Check, Conflict, Generate, Poll,
           TerminateRead, Tell, Die, Tick, vars
  <1> QED BY <1>3, <1>4, <1>5, <1>6

\* A message its own request has settled never changes again.
THEOREM SettledStaysSettled == Spec => SettledIsFinal
  <1>1. IInv /\ [Next]_vars =>
           [\A m \in Messages : SettledByRequest(m) => row'[m] = row[m]]_vars
    BY SettledStep
  <1> QED BY <1>1, Inductive, PTL DEF Spec, SettledIsFinal

-----------------------------------------------------------------------------
(***************************************************************************)
(* What holds of ConversationLifecycle for any number of questions and     *)
(* conversations.                                                          *)
(*                                                                         *)
(* Composing the conversations with the messages only restricts what the   *)
(* requests of ConversationGeneration do (LifecycleIsGeneration), so its   *)
(* invariant IInv holds here as well.  On top of it: where a request       *)
(* stands tells what it has read (Placed), an id that a question picked    *)
(* for a new conversation is known to nobody else until the commit         *)
(* (Fresh), and what the owner may have done to a conversation that was    *)
(* found, undisturbed or not (Listed).                                     *)
(***************************************************************************)

\* How far a request is, and what it has read.
Placed(q, l) ==
    /\ l.at = "start" => l = NoLook
    /\ l.at # "start" => l.of \in Conversations
    /\ q.step = "new" => l.at \in {"start", "context"}
    /\ q.step = "begun" => l.at # "start"
    /\ q.step \in {"checked", "running", "terminating", "settled"} => l.at \in {"new", "found"}
    /\ q.step = "over" => l.at = "start"
    /\ q.step \notin {"new", "over"} => q.conversation = l.of
    /\ l.at = "new" => l.context = {}

\* A message and its conversation.
Kept(l, r) ==
    r.status # "absent" =>
        /\ r.conversation \in Conversations
        /\ conversation[r.conversation] # "absent"
        /\ l.at # "start" => r.conversation = l.of

Fresh(m) ==
    look[m].at = "new" /\ row[m].status = "absent" =>
        /\ conversation[look[m].of] = "absent"
        /\ \A n \in Messages \ {m} : look[n].of # look[m].of

Listed(l, r) ==
    /\ l.at = "found" =>
         /\ conversation[l.of] # "absent"
         /\ ~l.disturbed =>
              /\ conversation[l.of] \in {"active", "archived"}
              /\ ~l.archived => conversation[l.of] = "active"
    /\ l.at \in {"new", "found"} /\ r.status # "absent" /\ ~l.disturbed
         => conversation[l.of] = "active"

Settled(l) ==
    \A n \in l.context : row[n].status = "completed" /\ row[n].conversation = l.of

\* What holds of a message and its request.
Sound(m) ==
    /\ Placed(request[m], look[m])
    /\ Kept(look[m], row[m])
    /\ Listed(look[m], row[m])
    /\ Settled(look[m])
    /\ Fresh(m)

LifeInv == LifeTypeOK /\ \A m \in Messages : Sound(m)

\* No row appears, disappears or moves to another conversation.
RowsStay ==
    \A n \in Messages :
        /\ row'[n].conversation = row[n].conversation
        /\ row'[n].status = "absent" <=> row[n].status = "absent"

-----------------------------------------------------------------------------
(***************************************************************************)
(* The composition restricts ConversationGeneration.                       *)
(***************************************************************************)

LEMMA LifeStepIsStep ==
    ASSUME [LifeNext]_lifeVars
    PROVE  [Next]_vars
  <1>1. ASSUME NEW m \in Messages, Ask(m) PROVE [Next]_vars
    <2>1. CASE Missing(m)
      BY <2>1 DEF Missing, Next, Generate, Die
    <2>2. CASE ~Missing(m)
      BY <1>1, <2>2
         DEF Ask, Find, CheckFound, InsertFound, CreatePair, Next, BeginOn
    <2> QED BY <2>1, <2>2
  <1>2. ASSUME NEW m \in Messages, NEW c \in Conversations,
               ReadContext(m, c) \/ Continue(m, c) \/ Start(m, c)
        PROVE  [Next]_vars
    BY <1>2 DEF ReadContext, Continue, Start, Next
  <1>3. ASSUME NEW m \in Messages, Generate(m) PROVE [Next]_vars
    BY <1>3 DEF Next
  <1>4. CASE Owner
    BY <1>4 DEF Owner, Create, Archive, Restore, Delete
  <1>5. CASE List \/ Tick
    BY <1>5 DEF Next
  <1>6. CASE UNCHANGED lifeVars
    BY <1>6 DEF lifeVars
  <1> QED BY <1>1, <1>2, <1>3, <1>4, <1>5, <1>6 DEF LifeNext

\* The composition implements ConversationGeneration: its requests do nothing
\* that a request of that module cannot do.
THEOREM LifecycleIsGeneration == LifeSpec => Spec
  <1>1. LifeInit => Init
    BY DEF LifeInit
  <1> QED BY <1>1, LifeStepIsStep, PTL DEF LifeSpec, Spec

-----------------------------------------------------------------------------
(***************************************************************************)
(* What the steps of the messages do to the rows.                          *)
(***************************************************************************)

LEMMA CompletedStays ==
    ASSUME IInv, [Next]_vars, NEW m \in Messages, row[m].status = "completed"
    PROVE  row'[m] = row[m]
  BY SettledStep DEF SettledByRequest

LEMMA SettleKeepsRows ==
    ASSUME IInv, NEW m \in Messages, Complete(m) \/ TerminateWrite(m)
    PROVE  RowsStay
  <1>t. row \in [Messages -> Row] /\ request[m] \in Request
    BY DEF IInv, TypeOK
  <1>1. row[m].status # "absent"
    BY DEF Complete, TerminateWrite, IInv, StepInv, Agrees
  <1>2. CASE Complete(m)
    BY <1>t, <1>1, <1>2 DEF Complete, RowsStay, Row
  <1>3. CASE TerminateWrite(m)
    <2>1. PICK r : r = [row[m] EXCEPT !.status = request[m].verdict, !.code = "own"]
      OBVIOUS
    <2>2. r.conversation = row[m].conversation /\ r.status # "absent"
      BY <2>1, <1>t DEF Row, Request
    <2>3. row' = [row EXCEPT ![m] = r]
      BY <2>1, <1>3 DEF TerminateWrite
    <2> QED BY <2>2, <2>3, <1>t, <1>1 DEF RowsStay
  <1> QED BY <1>2, <1>3

LEMMA FailedStays ==
    ASSUME NEW r \in Row, r.status = "streaming"
    PROVE  Failed(r).conversation = r.conversation /\ Failed(r).status # "absent"
  BY DEF Failed, Row

LEMMA ListKeepsRows ==
    ASSUME IInv, List
    PROVE  RowsStay
  <1>t. row \in [Messages -> Row]
    BY DEF IInv, TypeOK
  <1>1. \A n \in Messages : row'[n] = IF n \in Stale THEN Failed(row[n]) ELSE row[n]
    BY DEF List
  <1>2. \A n \in Stale : n \in Messages /\ row[n].status = "streaming"
    BY DEF Stale
  <1> QED BY <1>t, <1>1, <1>2, FailedStays DEF RowsStay

\* The rows after the commit of m's question.
LEMMA InsertRows ==
    ASSUME IInv, NEW m \in Messages, Insert(m)
    PROVE  /\ row'[m].status = "streaming"
           /\ row'[m].conversation = request[m].conversation
           /\ row[m].status = "absent"
           /\ \A n \in Messages \ {m} :
                /\ row'[n].conversation = row[n].conversation
                /\ row'[n].status = "absent" <=> row[n].status = "absent"
  <1>t. row \in [Messages -> Row] /\ request[m] \in Request
    BY DEF IInv, TypeOK
  <1>1. row' = WithMessage(m)
    BY DEF Insert
  <1>2. InTransaction(m) /\ row[m].status = "absent"
    BY DEF Insert, InTransaction, IInv, StepInv, Agrees
  <1>3. \A n \in request[m].failing : n \in Messages /\ row[n].status = "streaming"
    BY <1>t, <1>2 DEF IInv, LockInv, Request
  <1>4. row'[m].status = "streaming" /\ row'[m].conversation = request[m].conversation
    BY <1>1 DEF WithMessage
  <1>5. \A n \in Messages \ {m} :
          row'[n] = IF n \in request[m].failing THEN Failed(row[n]) ELSE row[n]
    BY <1>1 DEF WithMessage
  <1> QED BY <1>t, <1>2, <1>3, <1>4, <1>5, FailedStays

-----------------------------------------------------------------------------
(***************************************************************************)
(* Steps that leave the conversations alone.                               *)
(***************************************************************************)

LEMMA LookStep ==
    ASSUME IInv, LifeInv, [Next]_vars, RowsStay, conversation' = conversation,
           NEW m \in Messages, NEW new \in Look,
           look' = [look EXCEPT ![m] = new],
           \A n \in Messages \ {m} : request'[n] = request[n],
           Placed(request'[m], new),
           Kept(new, row[m]),
           Listed(new, row[m]),
           Settled(new),
           new.at = "new" /\ row[m].status = "absent" =>
               /\ conversation[new.of] = "absent"
               /\ \A n \in Messages \ {m} : look[n].of # new.of,
           \A n \in Messages \ {m} :
               look[n].at = "new" /\ row[n].status = "absent" => look[n].of # new.of
    PROVE  LifeInv'
  <1>t. look \in [Messages -> Look] /\ conversation \in [Conversations -> Lifecycle]
    BY DEF LifeInv, LifeTypeOK
  <1>1. look'[m] = new /\ \A n \in Messages \ {m} : look'[n] = look[n]
    BY <1>t
  <1>2. LifeTypeOK'
    BY <1>t DEF LifeTypeOK
  <1>3. \A n \in Messages : Placed(request'[n], look'[n])
    BY <1>1 DEF LifeInv, Sound
  <1>4. \A n \in Messages : Kept(look[n], row[n])' /\ Listed(look[n], row[n])'
    BY <1>1 DEF LifeInv, Sound, Kept, Listed, RowsStay
  <1>5. ASSUME NEW n \in Messages PROVE Settled(look[n])'
    <2>1. Settled(look'[n]) /\ look'[n] \in Look
      BY <1>1, <1>t DEF LifeInv, Sound
    <2>2. \A k \in look'[n].context : k \in Messages
      BY <2>1 DEF Look
    <2> QED BY <2>1, <2>2, CompletedStays DEF Settled
  <1>6. \A n \in Messages : Fresh(n)'
    BY <1>1 DEF LifeInv, Sound, Fresh, RowsStay
  <1> QED BY <1>2, <1>3, <1>4, <1>5, <1>6 DEF LifeInv, Sound

\* The request goes on; it has read nothing new.
LEMMA GoOn ==
    ASSUME IInv, LifeInv, [Next]_vars, RowsStay, UNCHANGED <<conversation, look>>,
           \A n \in Messages : Placed(request'[n], look[n])
    PROVE  LifeInv'
  <1>t. look \in [Messages -> Look]
    BY DEF LifeInv, LifeTypeOK
  <1>1. LifeTypeOK'
    BY DEF LifeInv, LifeTypeOK
  <1>2. \A n \in Messages : Kept(look[n], row[n])' /\ Listed(look[n], row[n])' /\ Fresh(n)'
    BY DEF LifeInv, Sound, Kept, Listed, Fresh, RowsStay
  <1>3. ASSUME NEW n \in Messages PROVE Settled(look[n])'
    <2>1. \A k \in look[n].context : k \in Messages
      BY <1>t DEF Look
    <2> QED BY <2>1, CompletedStays DEF LifeInv, Sound, Settled
  <1> QED BY <1>1, <1>2, <1>3 DEF LifeInv, Sound

\* The request is over, and what it has read is gone.
LEMMA Over ==
    ASSUME IInv, LifeInv, [Next]_vars, UNCHANGED <<row, conversation>>,
           NEW m \in Messages, request'[m].step = "over",
           \A n \in Messages \ {m} : request'[n] = request[n],
           look' = [look EXCEPT ![m] = NoLook]
    PROVE  LifeInv'
  <1>1. /\ NoLook \in Look /\ NoLook.at = "start" /\ NoLook.of = None
        /\ NoLook.context = {}
    BY DEF NoLook, Look
  <1>2. Placed(request'[m], NoLook) /\ Listed(NoLook, row[m]) /\ Settled(NoLook)
    BY <1>1 DEF Placed, Listed, Settled
  <1>3. Kept(NoLook, row[m])
    BY <1>1 DEF LifeInv, Sound, Kept
  <1>4. \A n \in Messages \ {m} : look[n].at = "new" => look[n].of # None
    BY DEF LifeInv, Sound, Placed
  <1>5. RowsStay
    BY DEF RowsStay
  <1> QED BY <1>1, <1>2, <1>3, <1>4, <1>5, LookStep

-----------------------------------------------------------------------------
(***************************************************************************)
(* The steps of a question.                                                *)
(***************************************************************************)

LEMMA ReadContextStep ==
    ASSUME IInv, LifeInv, NEW m \in Messages, NEW c \in Conversations, ReadContext(m, c)
    PROVE  LifeInv'
  <1>t. look[m] \in Look
    BY DEF LifeInv, LifeTypeOK
  <1>1. PICK new : new = [look[m] EXCEPT !.at = "context", !.of = c, !.context = Completed(c)]
    OBVIOUS
  <1>2. /\ new \in Look /\ new.at = "context" /\ new.of = c
        /\ new.context = Completed(c)
    BY <1>t, <1>1 DEF Look, Completed
  <1>3. /\ look' = [look EXCEPT ![m] = new] /\ UNCHANGED <<vars, conversation>>
        /\ request[m].step = "new" /\ conversation[c] # "absent"
    BY <1>1 DEF ReadContext, Owned
  <1>4. row[m].status = "absent"
    BY <1>3 DEF IInv, StepInv, Agrees
  <1>5. UNCHANGED <<row, request>> /\ RowsStay /\ [Next]_vars
    BY <1>3 DEF vars, RowsStay
  <1>6. Placed(request'[m], new) /\ Kept(new, row[m]) /\ Listed(new, row[m])
    BY <1>2, <1>3, <1>4, <1>5 DEF Placed, Kept, Listed
  <1>7. Settled(new)
    BY <1>2 DEF Settled, Completed
  <1>8. \A n \in Messages \ {m} :
          look[n].at = "new" /\ row[n].status = "absent" => look[n].of # c
    BY <1>3 DEF LifeInv, Sound, Fresh
  <1> QED BY <1>2, <1>3, <1>5, <1>6, <1>7, <1>8, LookStep

\* fail_stale changes no row before the commit.
LEMMA BeginFacts ==
    ASSUME IInv, NEW m \in Messages, NEW c \in Conversations, Begin(m, c)
    PROVE  /\ request[m].step = "new" /\ row[m].status = "absent"
           /\ request'[m].step = "begun" /\ request'[m].conversation = c
           /\ \A n \in Messages \ {m} : request'[n] = request[n]
           /\ row' = row /\ [Next]_vars
  <1>t. request \in [Messages -> Request]
    BY DEF IInv, TypeOK
  <1>1. PICK new : new = [request[m] EXCEPT !.step = "begun", !.conversation = c,
                                            !.created = clock, !.failing = Stale]
    OBVIOUS
  <1>2. new.step = "begun" /\ new.conversation = c
    BY <1>1, <1>t DEF Request
  <1>3. request' = [request EXCEPT ![m] = new] /\ row' = row /\ request[m].step = "new"
    BY <1>1 DEF Begin
  <1>4. row[m].status = "absent"
    BY <1>3 DEF IInv, StepInv, Agrees
  <1> QED BY <1>2, <1>3, <1>4, <1>t DEF Next

LEMMA ContinueStep ==
    ASSUME IInv, LifeInv, NEW m \in Messages, NEW c \in Conversations, Continue(m, c)
    PROVE  LifeInv'
  <1>1. /\ Begin(m, c) /\ look[m].at = "context" /\ look[m].of = c
        /\ UNCHANGED <<conversation, look>>
    BY DEF Continue
  <1>2. \A n \in Messages : Placed(request'[n], look[n])
    BY <1>1, BeginFacts DEF LifeInv, Sound, Placed
  <1> QED BY <1>1, <1>2, BeginFacts, GoOn DEF RowsStay

LEMMA StartStep ==
    ASSUME IInv, LifeInv, NEW m \in Messages, NEW c \in Conversations, Start(m, c)
    PROVE  LifeInv'
  <1>t. look[m] \in Look
    BY DEF LifeInv, LifeTypeOK
  <1>1. PICK new : new = [look[m] EXCEPT !.at = "new", !.of = c]
    OBVIOUS
  <1>2. new \in Look /\ new.at = "new" /\ new.of = c /\ new.context = look[m].context
    BY <1>t, <1>1 DEF Look
  <1>3. /\ look' = [look EXCEPT ![m] = new] /\ Begin(m, c) /\ look[m].at = "start"
        /\ conversation[c] = "absent" /\ \A n \in Messages : look[n].of # c
        /\ conversation' = conversation
    BY <1>1 DEF Start
  <1>4. look[m].context = {}
    BY <1>3 DEF LifeInv, Sound, Placed, NoLook
  <1>5. Placed(request'[m], new) /\ Kept(new, row[m]) /\ Listed(new, row[m]) /\ Settled(new)
    BY <1>2, <1>3, <1>4, BeginFacts DEF Placed, Kept, Listed, Settled
  <1>6. RowsStay /\ [Next]_vars
    BY <1>3, BeginFacts DEF RowsStay
  <1> QED BY <1>2, <1>3, <1>5, <1>6, BeginFacts, LookStep

LEMMA FindStep ==
    ASSUME IInv, LifeInv, NEW m \in Messages, Find(m)
    PROVE  LifeInv'
  <1>t. look[m] \in Look
    BY DEF LifeInv, LifeTypeOK
  <1>1. PICK new : new = [look[m] EXCEPT !.at = "found",
                             !.archived = (conversation[look[m].of] = "archived")]
    OBVIOUS
  <1>2. /\ new \in Look /\ new.at = "found" /\ new.of = look[m].of
        /\ new.context = look[m].context
        /\ new.archived = (conversation[look[m].of] = "archived")
    BY <1>t, <1>1 DEF Look
  <1>3. /\ look' = [look EXCEPT ![m] = new] /\ UNCHANGED <<vars, conversation>>
        /\ request[m].step = "begun" /\ look[m].at = "context"
        /\ conversation[look[m].of] \in {"active", "archived"}
    BY <1>1 DEF Find, Owned
  <1>4. row[m].status = "absent"
    BY <1>3 DEF IInv, StepInv, Agrees
  <1>5. UNCHANGED <<row, request>> /\ RowsStay /\ [Next]_vars
    BY <1>3 DEF vars, RowsStay
  <1>6. Placed(request[m], look[m]) /\ Settled(look[m])
    BY DEF LifeInv, Sound
  <1>7. Placed(request'[m], new)
    BY <1>2, <1>3, <1>5, <1>6 DEF Placed
  <1>8. Kept(new, row[m]) /\ Settled(new)
    BY <1>2, <1>4, <1>6 DEF Kept, Settled
  <1>9. Listed(new, row[m])
    BY <1>2, <1>3, <1>4 DEF Listed
  <1>10. \A n \in Messages \ {m} :
          look[n].at = "new" /\ row[n].status = "absent" => look[n].of # new.of
    BY <1>2, <1>3 DEF LifeInv, Sound, Fresh
  <1> QED BY <1>2, <1>3, <1>5, <1>7, <1>8, <1>9, <1>10, LookStep

\* RollBack and Tell end a request.
LEMMA EndsRequest ==
    ASSUME IInv, NEW m \in Messages, RollBack(m) \/ Report(m)
    PROVE  request'[m].step = "over" /\ \A n \in Messages \ {m} : request'[n] = request[n]
  <1>t. request \in [Messages -> Request] /\ request[m] \in Request
    BY DEF IInv, TypeOK
  <1>1. PICK tell : tell = IF request[m].verdict = "completed" THEN "complete" ELSE "error"
    OBVIOUS
  <1>2. CASE RollBack(m)
    BY <1>t, <1>2 DEF RollBack, Request
  <1>3. CASE Report(m)
    <2>1. request' = [request EXCEPT ![m] = [request[m] EXCEPT !.step = "over",
                                                               !.told = tell]]
      BY <1>1, <1>3 DEF Report
    <2> QED BY <1>t, <2>1 DEF Request
  <1> QED BY <1>2, <1>3

LEMMA EndStep ==
    ASSUME IInv, LifeInv, [Next]_vars, NEW m \in Messages, RollBack(m) \/ Report(m),
           Remember(m), row' = row
    PROVE  LifeInv'
  BY EndsRequest, Over DEF Remember

\* Check and the steps of a generation, up to its end.
LEMMA ProgressFacts ==
    ASSUME IInv, NEW m \in Messages,
           \/ Check(m) \/ Poll(m) \/ Complete(m) \/ TerminateWrite(m)
           \/ \E verdict \in {"failed", "cancelled"} : TerminateRead(m, verdict)
    PROVE  /\ request[m].step \in {"begun", "running", "terminating"}
           /\ request[m].step = "begun" => Check(m)
           /\ request'[m].step \in {"checked", "running", "terminating", "settled"}
           /\ request'[m].conversation = request[m].conversation
           /\ \A n \in Messages \ {m} : request'[n] = request[n]
           /\ RowsStay
  <1>t. request \in [Messages -> Request] /\ request[m] \in Request
    BY DEF IInv, TypeOK
  <1>1. CASE Check(m)
    BY <1>t, <1>1 DEF Check, RowsStay, Request
  <1>2. CASE Poll(m)
    BY <1>t, <1>2 DEF Poll, RowsStay, Request
  <1>3. CASE Complete(m)
    <2>1. RowsStay
      BY <1>3, SettleKeepsRows
    <2> QED BY <1>t, <1>3, <2>1 DEF Complete, Request
  <1>4. CASE TerminateWrite(m)
    <2>1. RowsStay
      BY <1>4, SettleKeepsRows
    <2> QED BY <1>t, <1>4, <2>1 DEF TerminateWrite, Request
  <1>5. ASSUME NEW verdict \in {"failed", "cancelled"}, TerminateRead(m, verdict)
        PROVE  /\ request[m].step = "running"
               /\ request'[m].step \in {"terminating", "settled"}
               /\ request'[m].conversation = request[m].conversation
               /\ \A n \in Messages \ {m} : request'[n] = request[n]
               /\ row' = row
    BY <1>t, <1>5 DEF TerminateRead, Request
  <1> QED BY <1>1, <1>2, <1>3, <1>4, <1>5 DEF RowsStay

LEMMA ProgressStep ==
    ASSUME IInv, LifeInv, [Next]_vars, NEW m \in Messages,
           \/ Check(m) /\ look[m].at \in {"new", "found"}
           \/ Poll(m) \/ Complete(m) \/ TerminateWrite(m)
           \/ \E verdict \in {"failed", "cancelled"} : TerminateRead(m, verdict),
           Remember(m)
    PROVE  LifeInv'
  <1>1. request[m].step = "begun" => look[m].at \in {"new", "found"}
    BY DEF Poll, Complete, TerminateWrite, TerminateRead
  <1>2. \A n \in Messages : Placed(request'[n], look[n])
    BY <1>1, ProgressFacts DEF LifeInv, Sound, Placed
  <1>3. UNCHANGED <<conversation, look>>
    BY ProgressFacts DEF Remember
  <1> QED BY <1>2, <1>3, ProgressFacts, GoOn

LEMMA CommitStep ==
    ASSUME IInv, LifeInv, [Next]_vars, NEW m \in Messages,
           InsertFound(m) \/ CreatePair(m)
    PROVE  LifeInv'
  <1>t. /\ conversation \in [Conversations -> Lifecycle] /\ look \in [Messages -> Look]
        /\ request \in [Messages -> Request]
    BY DEF LifeInv, LifeTypeOK, IInv, TypeOK
  <1>l. look[m].at \in {"new", "found"} /\ look' = look /\ Insert(m)
    BY DEF InsertFound, CreatePair
  <1>c. look[m].of \in Conversations /\ request[m].conversation = look[m].of
    BY <1>l DEF LifeInv, Sound, Placed, Insert
  <1>r. /\ request'[m].step = "running"
        /\ request'[m].conversation = request[m].conversation
        /\ \A n \in Messages \ {m} : request'[n] = request[n]
    BY <1>t, <1>l DEF Insert, Request
  <1>1. PICK c : c = look[m].of
    OBVIOUS
  <1>2. PICK new : new = IF /\ look[m].at = "found"
                            /\ ~(look[m].archived /\ conversation[c] = "archived")
                         THEN conversation[c] ELSE "active"
    OBVIOUS
  <1>3. conversation' = [conversation EXCEPT ![c] = new]
    BY <1>1, <1>2, <1>c, <1>t DEF InsertFound, CreatePair
  <1>4. /\ conversation'[c] = new /\ new \in Lifecycle
        /\ \A k \in Conversations \ {c} : conversation'[k] = conversation[k]
    BY <1>1, <1>2, <1>3, <1>c, <1>t DEF Lifecycle
  <1>5. new \in {conversation[c], "active"} /\ (conversation[c] = "active" => new = "active")
    BY <1>2
  <1>6. new # "absent"
    BY <1>1, <1>2, <1>l DEF LifeInv, Sound, Listed
  <1>7. ~look[m].disturbed => new = "active"
    BY <1>1, <1>2, <1>l DEF LifeInv, Sound, Listed
  <1>8. LifeTypeOK'
    BY <1>3, <1>4, <1>l, <1>t DEF LifeTypeOK
  <1>9. \A n \in Messages : Placed(request[n], look[n])'
    BY <1>r, <1>l, <1>c DEF LifeInv, Sound, Placed
  <1>10. \A n \in Messages : Kept(look[n], row[n])'
    BY <1>1, <1>4, <1>6, <1>l, <1>c, InsertRows DEF LifeInv, Sound, Kept
  <1>11. ASSUME NEW n \in Messages PROVE Listed(look[n], row[n])'
    <2>1. CASE n = m
      BY <2>1, <1>1, <1>4, <1>6, <1>7, <1>l, InsertRows DEF Listed
    <2>2. CASE n # m
      <3>1. Placed(request[n], look[n]) /\ Listed(look[n], row[n])
        BY DEF LifeInv, Sound
      <3>2. row'[n].status = "absent" <=> row[n].status = "absent"
        BY <2>2, <1>l, InsertRows
      <3> QED BY <3>1, <3>2, <1>4, <1>5, <1>6, <1>l DEF Placed, Listed
    <2> QED BY <2>1, <2>2
  <1>12. ASSUME NEW n \in Messages PROVE Settled(look[n])'
    <2>1. \A k \in look[n].context : k \in Messages
      BY <1>t DEF Look
    <2> QED BY <2>1, <1>l, CompletedStays DEF LifeInv, Sound, Settled
  <1>13. ASSUME NEW n \in Messages PROVE Fresh(n)'
    <2>1. CASE n = m
      BY <2>1, <1>l, InsertRows DEF Fresh
    <2>2. CASE n # m
      <3>1. row'[n].status = "absent" => row[n].status = "absent"
        BY <2>2, <1>l, InsertRows
      <3>2. Placed(request[n], look[n]) /\ Fresh(n)
        BY DEF LifeInv, Sound
      <3> QED BY <3>1, <3>2, <2>2, <1>1, <1>4, <1>l DEF Fresh, Placed
    <2> QED BY <2>1, <2>2
  <1> QED BY <1>8, <1>9, <1>10, <1>11, <1>12, <1>13 DEF LifeInv, Sound

-----------------------------------------------------------------------------
(***************************************************************************)
(* The owner.                                                              *)
(***************************************************************************)

\* What is read of the conversation c stays, but for the mark.
LEMMA DisturbedLooks ==
    ASSUME LifeInv, NEW c \in Conversations, Disturb(c)
    PROVE  /\ look' \in [Messages -> Look]
           /\ \A n \in Messages :
                /\ look'[n].at = look[n].at /\ look'[n].of = look[n].of
                /\ look'[n].context = look[n].context
                /\ look'[n].archived = look[n].archived
                /\ ~look'[n].disturbed => ~look[n].disturbed
                /\ look[n].of = c /\ look[n].at \in {"new", "found"} => look'[n].disturbed
                /\ look[n].at = "start" => look'[n] = look[n]
  <1>t. look \in [Messages -> Look]
    BY DEF LifeInv, LifeTypeOK
  <1>1. ASSUME NEW n \in Messages, look'[n] = [look[n] EXCEPT !.disturbed = TRUE]
        PROVE  /\ look'[n] \in Look
               /\ look'[n].at = look[n].at /\ look'[n].of = look[n].of
               /\ look'[n].context = look[n].context
               /\ look'[n].archived = look[n].archived
               /\ look'[n].disturbed = TRUE
    <2>1. look[n] \in Look
      BY <1>t
    <2> QED BY <1>1, <2>1 DEF Look
  <1>2. look' = [n \in Messages |->
                   IF look[n].of = c /\ look[n].at \in {"new", "found"}
                   THEN [look[n] EXCEPT !.disturbed = TRUE] ELSE look[n]]
    BY DEF Disturb
  <1>3. ASSUME NEW n \in Messages
        PROVE  \/ look'[n] = look[n] /\ ~(look[n].of = c /\ look[n].at \in {"new", "found"})
               \/ look'[n] = [look[n] EXCEPT !.disturbed = TRUE] /\ look[n].at # "start"
    BY <1>2
  <1>4. \A n \in Messages : look'[n] \in Look
    BY <1>1, <1>3, <1>t
  <1>5. look' \in [Messages -> Look]
    BY <1>2, <1>4
  <1> QED BY <1>1, <1>3, <1>5

\* archive and delete.
LEMMA DisturbStep ==
    ASSUME LifeInv, NEW c \in Conversations, NEW new \in {"archived", "deleted"},
           conversation[c] # "absent",
           conversation' = [conversation EXCEPT ![c] = new],
           Disturb(c), UNCHANGED <<row, request>>
    PROVE  LifeInv'
  <1>t. conversation \in [Conversations -> Lifecycle]
    BY DEF LifeInv, LifeTypeOK
  <1>1. /\ conversation'[c] = new /\ conversation' \in [Conversations -> Lifecycle]
        /\ \A k \in Conversations \ {c} : conversation'[k] = conversation[k]
    BY <1>t DEF Lifecycle
  <1>2. LifeTypeOK'
    BY <1>1, DisturbedLooks DEF LifeTypeOK
  <1>3. ASSUME NEW n \in Messages PROVE Sound(n)'
    <2>1. /\ Placed(request[n], look[n]) /\ Kept(look[n], row[n])
          /\ Listed(look[n], row[n]) /\ Settled(look[n]) /\ Fresh(n)
      BY DEF LifeInv, Sound
    <2>2. Placed(request[n], look[n])'
      BY <2>1, DisturbedLooks DEF Placed
    <2>3. Kept(look[n], row[n])'
      BY <2>1, <1>1, DisturbedLooks DEF Kept
    <2>4. Listed(look[n], row[n])'
      <3>1. look[n].at # "start" => look[n].of \in Conversations
        BY <2>1 DEF Placed
      <3> QED BY <3>1, <2>1, <1>1, DisturbedLooks DEF Listed
    <2>5. Settled(look[n])'
      BY <2>1, DisturbedLooks DEF Settled
    <2>6. Fresh(n)'
      <3>1. look[n].at = "new" => look[n].of \in Conversations
        BY <2>1 DEF Placed
      <3> QED BY <3>1, <2>1, <1>1, DisturbedLooks DEF Fresh
    <2> QED BY <2>2, <2>3, <2>4, <2>5, <2>6 DEF Sound
  <1> QED BY <1>2, <1>3 DEF LifeInv

\* create, and archive with false.
LEMMA ActivateStep ==
    ASSUME LifeInv, NEW c \in Conversations,
           \/ conversation[c] = "archived"
           \/ \A n \in Messages : look[n].of # c,
           conversation' = [conversation EXCEPT ![c] = "active"],
           UNCHANGED <<row, request, look>>
    PROVE  LifeInv'
  <1>t. conversation \in [Conversations -> Lifecycle]
    BY DEF LifeInv, LifeTypeOK
  <1>1. /\ conversation'[c] = "active" /\ conversation' \in [Conversations -> Lifecycle]
        /\ \A k \in Conversations \ {c} : conversation'[k] = conversation[k]
    BY <1>t DEF Lifecycle
  <1>2. LifeTypeOK'
    BY <1>1 DEF LifeInv, LifeTypeOK
  <1>3. ASSUME NEW n \in Messages PROVE Sound(n)'
    <2>1. /\ Placed(request[n], look[n]) /\ Kept(look[n], row[n])
          /\ Listed(look[n], row[n]) /\ Settled(look[n]) /\ Fresh(n)
      BY DEF LifeInv, Sound
    <2>2. Placed(request[n], look[n])' /\ Settled(look[n])'
      BY <2>1 DEF Placed, Settled
    <2>3. Kept(look[n], row[n])'
      BY <2>1, <1>1 DEF Kept
    <2>4. Listed(look[n], row[n])'
      BY <2>1, <1>1 DEF Placed, Listed
    <2>5. Fresh(n)'
      BY <2>1, <1>1 DEF Placed, Fresh
    <2> QED BY <2>2, <2>3, <2>4, <2>5 DEF Sound
  <1> QED BY <1>2, <1>3 DEF LifeInv

LEMMA OwnerStep == ASSUME LifeInv, Owner PROVE LifeInv'
  <1>1. ASSUME NEW c \in Conversations, Create(c) PROVE LifeInv'
    BY <1>1, ActivateStep DEF Create, vars
  <1>2. ASSUME NEW c \in Conversations, Restore(c) PROVE LifeInv'
    BY <1>2, ActivateStep DEF Restore, vars
  <1>3. ASSUME NEW c \in Conversations, Archive(c) PROVE LifeInv'
    BY <1>3, DisturbStep DEF Archive, vars
  <1>4. ASSUME NEW c \in Conversations, Delete(c) PROVE LifeInv'
    BY <1>4, DisturbStep DEF Delete, Owned, vars
  <1> QED BY <1>1, <1>2, <1>3, <1>4 DEF Owner

-----------------------------------------------------------------------------
(***************************************************************************)
(* The invariant.                                                          *)
(***************************************************************************)

LEMMA LifeInitInv == LifeInit => LifeInv
  <1> SUFFICES ASSUME LifeInit PROVE LifeInv
    OBVIOUS
  <1>1. /\ NoLook \in Look /\ NoLook.at = "start" /\ NoLook.of = None
        /\ NoLook.context = {}
    BY DEF NoLook, Look
  <1>2. NewRequest.step = "new" /\ NoRow.status = "absent"
    BY DEF NewRequest, NoRow
  <1>3. LifeTypeOK
    BY <1>1 DEF LifeInit, LifeTypeOK, Lifecycle
  <1>4. ASSUME NEW m \in Messages PROVE Sound(m)
    <2>1. look[m] = NoLook /\ row[m] = NoRow /\ request[m] = NewRequest
      BY DEF LifeInit, Init
    <2> QED BY <1>1, <1>2, <2>1 DEF Sound, Placed, Kept, Listed, Settled, Fresh
  <1> QED BY <1>3, <1>4 DEF LifeInv

LEMMA LifeNextInv ==
    ASSUME IInv, LifeInv, [LifeNext]_lifeVars
    PROVE  LifeInv'
  <1>n. [Next]_vars
    BY LifeStepIsStep
  <1>1. ASSUME NEW m \in Messages, NEW c \in Conversations,
               ReadContext(m, c) \/ Continue(m, c) \/ Start(m, c)
        PROVE  LifeInv'
    BY <1>1, ReadContextStep, ContinueStep, StartStep
  <1>2. ASSUME NEW m \in Messages, Ask(m) PROVE LifeInv'
    <2>1. CASE Find(m)
      BY <2>1, FindStep
    <2>2. CASE Missing(m)
      BY <2>2, <1>n, EndStep DEF Missing
    <2>3. CASE CheckFound(m)
      <3>1. CASE Refuse(m) /\ Remember(m)
        BY <3>1, <1>n, EndStep DEF Refuse
      <3>2. CASE Check(m) /\ look[m].at \in {"new", "found"} /\ Remember(m)
        BY <3>2, <1>n, ProgressStep
      <3> QED BY <2>3, <3>1, <3>2 DEF CheckFound
    <2>4. CASE InsertFound(m) \/ CreatePair(m)
      BY <2>4, <1>n, CommitStep
    <2>5. CASE Conflict(m) /\ Remember(m)
      BY <2>5, <1>n, EndStep DEF Conflict
    <2> QED BY <1>2, <2>1, <2>2, <2>3, <2>4, <2>5 DEF Ask
  <1>3. ASSUME NEW m \in Messages, Generate(m), Remember(m) PROVE LifeInv'
    <2>1. CASE Tell(m)
      BY <2>1, <1>3, <1>n, EndStep DEF Tell
    <2>2. CASE Die(m)
      BY <2>2, <1>3, <1>n, EndStep DEF Die
    <2>3. CASE \/ Poll(m) \/ Complete(m) \/ TerminateWrite(m)
               \/ \E verdict \in {"failed", "cancelled"} : TerminateRead(m, verdict)
      BY <2>3, <1>3, <1>n, ProgressStep
    <2> QED BY <1>3, <2>1, <2>2, <2>3 DEF Generate
  <1>4. CASE Owner
    BY <1>4, OwnerStep
  <1>5. CASE (List \/ Tick) /\ UNCHANGED <<conversation, look>>
    <2>1. RowsStay /\ request' = request
      BY <1>5, ListKeepsRows DEF RowsStay, List, Tick
    <2> QED BY <2>1, <1>5, <1>n, GoOn DEF LifeInv, Sound
  <1>6. CASE UNCHANGED lifeVars
    <2>1. RowsStay /\ UNCHANGED <<request, conversation, look>>
      BY <1>6 DEF RowsStay, lifeVars, vars
    <2> QED BY <2>1, <1>n, GoOn DEF LifeInv, Sound
  <1> QED BY <1>1, <1>2, <1>3, <1>4, <1>5, <1>6 DEF LifeNext

\* The strengthening.
THEOREM LifeInductive == LifeSpec => [](IInv /\ LifeInv)
  <1>1. LifeSpec => []IInv
    BY LifecycleIsGeneration, Inductive, PTL
  <1> QED BY <1>1, LifeInitInv, LifeNextInv, PTL DEF LifeSpec

-----------------------------------------------------------------------------
(***************************************************************************)
(* The theorems.                                                           *)
(***************************************************************************)

\* Every reachable state of the conversations and of the requests' copies is
\* well typed.
THEOREM LifeTypeCorrect == LifeSpec => []LifeTypeOK
  <1>1. LifeInv => LifeTypeOK
    BY DEF LifeInv
  <1> QED BY <1>1, LifeInductive, PTL

\* A conversation and the question that started it appear together, and no
\* message is without a conversation.
THEOREM QuestionStartsTogether == LifeSpec => []StartedTogether
  <1>1. LifeInv => StartedTogether
    BY DEF LifeInv, Sound, Kept, Fresh, StartedTogether
  <1> QED BY <1>1, LifeInductive, PTL

\* An answer being generated is in an active conversation, unless its owner
\* archived or deleted it since the question found it.
THEOREM StreamsAreListed == LifeSpec => []AnswersAreListed
  <1>1. ASSUME IInv, LifeInv PROVE AnswersAreListed
    <2>1. \A m \in Messages : row[m].status = "streaming" => request[m].step \notin {"new", "begun"}
      BY <1>1 DEF IInv, StepInv, Agrees
    <2>2. \A m \in Messages : request[m] \in Request /\ look[m] \in Look
      BY <1>1 DEF IInv, TypeOK, LifeInv, LifeTypeOK
    <2>3. \A m \in Messages : row[m].status = "streaming" /\ look[m].at # "start"
             => look[m].at \in {"new", "found"}
      BY <1>1, <2>1, <2>2 DEF LifeInv, Sound, Placed, Request
    <2> QED BY <1>1, <2>3 DEF LifeInv, Sound, Kept, Listed, AnswersAreListed
  <1> QED BY <1>1, LifeInductive, PTL

\* Conversations and messages stay together, for any number of either.
THEOREM ConversationsStayWhole == LifeSpec => []ConversationsAreWhole
  <1>1. StartedTogether /\ AnswersAreListed => ConversationsAreWhole
    BY DEF ConversationsAreWhole
  <1> QED BY <1>1, QuestionStartsTogether, StreamsAreListed, PTL

\* The context of an answer was read before its question was accepted, and is
\* completed for good, in the same conversation.
THEOREM ContextSettled == LifeSpec => []ContextIsSettled
  <1>1. ASSUME LifeInv PROVE ContextIsSettled
    <2>1. ASSUME NEW m \in Messages, NEW n \in look[m].context
          PROVE  /\ row[n].status = "completed" /\ row[n].conversation = look[m].of
                 /\ row[m].status # "absent" => row[m].conversation = look[m].of
      <3>1. Placed(request[m], look[m]) /\ Kept(look[m], row[m]) /\ Settled(look[m])
        BY <1>1 DEF LifeInv, Sound
      <3>2. look[m].at # "start"
        BY <2>1, <3>1 DEF Placed, NoLook
      <3> QED BY <2>1, <3>1, <3>2 DEF Kept, Settled
    <2> QED BY <2>1 DEF ContextIsSettled
  <1> QED BY <1>1, LifeInductive, PTL

\* No request and no edit brings a deleted conversation back.
THEOREM DeletedStaysDeleted == LifeSpec => DeletionIsFinal
  <1>1. ASSUME IInv, LifeInv, [LifeNext]_lifeVars, NEW c \in Conversations,
               conversation[c] = "deleted"
        PROVE  conversation'[c] = "deleted"
    <2>t. conversation \in [Conversations -> Lifecycle]
      BY <1>1 DEF LifeInv, LifeTypeOK
    <2>1. ASSUME NEW m \in Messages, InsertFound(m) PROVE conversation'[c] = "deleted"
      BY <1>1, <2>1, <2>t DEF InsertFound
    <2>2. ASSUME NEW m \in Messages, CreatePair(m) PROVE conversation'[c] = "deleted"
      <3>1. row[m].status = "absent" /\ look[m].at = "new"
        BY <1>1, <2>2, InsertRows DEF CreatePair
      <3>2. look[m].of # c
        BY <1>1, <3>1 DEF LifeInv, Sound, Fresh
      <3> QED BY <1>1, <2>2, <3>2, <2>t DEF CreatePair
    <2>3. CASE Owner
      BY <1>1, <2>3, <2>t DEF Owner, Create, Archive, Restore, Delete, Owned
    <2>4. CASE conversation' = conversation
      BY <1>1, <2>4
    <2>5. \/ Owner \/ conversation' = conversation
          \/ \E m \in Messages : InsertFound(m) \/ CreatePair(m)
      BY <1>1 DEF LifeNext, ReadContext, Continue, Start, Ask, Find, Missing, CheckFound,
                  Remember, lifeVars
    <2> QED BY <2>1, <2>2, <2>3, <2>4, <2>5
  <1>2. IInv /\ LifeInv /\ [LifeNext]_lifeVars =>
          [\A c \in Conversations :
             conversation[c] = "deleted" => conversation'[c] = "deleted"]_lifeVars
    BY <1>1
  <1> QED BY <1>2, LifeInductive, PTL DEF LifeSpec, DeletionIsFinal

-----------------------------------------------------------------------------

(***************************************************************************)
(* Recursive functions.                                                    *)
(***************************************************************************)

\* A set of naturals with a member has a least one.
LEMMA LeastNat ==
    ASSUME NEW T, T \subseteq Nat, T # {}
    PROVE  \E n \in T : \A m \in T : n <= m
  <1>1. PICK n \in T : \A m \in T : ~ (<<m, n>> \in OpToRel(<, Nat))
    BY NatLessThanWellFounded, WFMin
  <1>2. ASSUME NEW m \in T PROVE n <= m
    <2>1. ~ (<<m, n>> \in OpToRel(<, Nat))
      BY <1>1
    <2>2. ~ (m < n)
      BY <2>1 DEF OpToRel
    <2> QED BY <2>2
  <1> QED BY <1>2

\* What is good of a member of S is so when it is good of all smaller ones.
Inherited(S, measure, Good) ==
    /\ measure \in [S -> Nat]
    /\ \A s \in S : (\A r \in S : measure[r] < measure[s] => r \in Good) => s \in Good

\* Induction on a measure, over a set of what is good.
LEMMA Induction ==
    ASSUME NEW S, NEW measure, NEW Good, Inherited(S, measure, Good)
    PROVE  \A s \in S : s \in Good
  <1> SUFFICES ASSUME measure \in [S -> Nat],
                      \A s \in S : (\A r \in S : measure[r] < measure[s] => r \in Good)
                                   => s \in Good
               PROVE  \A s \in S : s \in Good
    BY DEF Inherited
  <1> DEFINE T == {measure[s] : s \in S \ Good}
  <1> SUFFICES ASSUME S \ Good # {} PROVE FALSE
    OBVIOUS
  <1>1. T \subseteq Nat /\ T # {}
    OBVIOUS
  <1>2. PICK n \in T : \A m \in T : n <= m
    BY <1>1, LeastNat
  <1>3. PICK s \in S \ Good : n = measure[s]
    BY <1>2
  <1>4. PICK r \in S \ Good : measure[r] < measure[s]
    BY <1>3
  <1>5. measure[s] <= measure[r] /\ measure[r] \in Nat /\ measure[s] \in Nat
    BY <1>2, <1>3, <1>4
  <1> QED BY <1>4, <1>5

\* A recursion over S that goes to what is next until it stops, and combines what
\* it finds there; what is next is smaller by some measure.
Descends(S, V, Stop, base, next, combine, measure) ==
    /\ base \in [S -> V]
    /\ next \in [S -> S]
    /\ combine \in [S \X V -> V]
    /\ measure \in [S -> Nat]
    /\ \A s \in S : s \notin Stop => measure[next[s]] < measure[s]

\* Such a recursion defines a function.  The least relation closed under the
\* recursion has one value for each argument: a second value could be taken away.
LEMMA Recursion ==
    ASSUME NEW S, NEW V, NEW Stop, NEW base, NEW next, NEW combine, NEW measure,
           Descends(S, V, Stop, base, next, combine, measure)
    PROVE  \E F \in [S -> V] : \A s \in S :
             F[s] = IF s \in Stop THEN base[s] ELSE combine[<<s, F[next[s]]>>]
  <1> SUFFICES ASSUME base \in [S -> V], next \in [S -> S], combine \in [S \X V -> V],
                      measure \in [S -> Nat],
                      \A s \in S : s \notin Stop => measure[next[s]] < measure[s]
               PROVE  \E F \in [S -> V] : \A s \in S :
                        F[s] = IF s \in Stop THEN base[s] ELSE combine[<<s, F[next[s]]>>]
    BY DEF Descends
  <1> DEFINE ClosedUp(R) ==
               /\ \A s \in S : s \in Stop => <<s, base[s]>> \in R
               /\ \A s \in S, v \in V : s \notin Stop /\ <<next[s], v>> \in R =>
                    <<s, combine[<<s, v>>]>> \in R
             G == {p \in S \X V : \A R \in SUBSET (S \X V) : ClosedUp(R) => p \in R}
             One(s) == \E v \in V : \A w \in V : <<s, w>> \in G <=> w = v
             Bad == {s \in S : ~ One(s)}
  <1>1. ClosedUp(G)
    <2>1. ASSUME NEW s \in S, s \in Stop PROVE <<s, base[s]>> \in G
      BY <2>1
    <2>2. ASSUME NEW s \in S, NEW v \in V, s \notin Stop, <<next[s], v>> \in G
          PROVE  <<s, combine[<<s, v>>]>> \in G
      <3>1. combine[<<s, v>>] \in V
        OBVIOUS
      <3>2. ASSUME NEW R \in SUBSET (S \X V), ClosedUp(R)
            PROVE  <<s, combine[<<s, v>>]>> \in R
        <4>1. <<next[s], v>> \in R
          BY <2>2, <3>2
        <4> QED BY <4>1, <3>2, <2>2
      <3> QED BY <3>1, <3>2
    <2> QED BY <2>1, <2>2
  <1>2. ASSUME NEW s \in S, NEW v \in V, NEW w \in V, w # v, <<s, w>> \in G,
               s \in Stop => v = base[s],
               s \notin Stop => \A u \in V : <<next[s], u>> \in G => combine[<<s, u>>] = v
        PROVE  FALSE
    <2> DEFINE H == G \ {<<s, w>>}
    <2>1. H \in SUBSET (S \X V)
      OBVIOUS
    <2>2. ASSUME NEW r \in S, r \in Stop PROVE <<r, base[r]>> \in H
      <3>1. <<r, base[r]>> \in G
        BY <1>1, <2>2
      <3> QED BY <3>1, <2>2, <1>2
    <2>3. ASSUME NEW r \in S, NEW u \in V, r \notin Stop, <<next[r], u>> \in H
          PROVE  <<r, combine[<<r, u>>]>> \in H
      <3>1. <<r, combine[<<r, u>>]>> \in G
        BY <1>1, <2>3
      <3> QED BY <3>1, <2>3, <1>2
    <2>4. ClosedUp(H)
      BY <2>2, <2>3
    <2>5. <<s, w>> \in H
      <3> HIDE DEF H, ClosedUp
      <3>1. \A R \in SUBSET (S \X V) : ClosedUp(R) => <<s, w>> \in R
        BY <1>2
      <3> QED BY <3>1, <2>1, <2>4
    <2> QED BY <2>5
  <1>3. ASSUME NEW s \in S, s \in Stop \/ One(next[s]) PROVE One(s)
    <2>1. CASE s \in Stop
      <3>1. base[s] \in V /\ <<s, base[s]>> \in G
        BY <2>1, <1>1
      <3>2. ASSUME NEW w \in V, <<s, w>> \in G PROVE w = base[s]
        <4> HIDE DEF G, ClosedUp
        <4> QED BY <3>1, <3>2, <2>1, <1>2
      <3> HIDE DEF G
      <3> QED BY <3>1, <3>2
    <2>2. CASE s \notin Stop
      <3> HIDE DEF G
      <3>1. PICK v \in V : \A w \in V : <<next[s], w>> \in G <=> w = v
        BY <2>2, <1>3
      <3>2. combine[<<s, v>>] \in V /\ <<s, combine[<<s, v>>]>> \in G
        BY <3>1, <2>2, <1>1
      <3>3. ASSUME NEW w \in V, <<s, w>> \in G PROVE w = combine[<<s, v>>]
        <4> DEFINE x == combine[<<s, v>>]
        <4>1. x \in V /\ \A u \in V : <<next[s], u>> \in G => combine[<<s, u>>] = x
          BY <3>1, <3>2
        <4> HIDE DEF ClosedUp, x
        <4>2. ASSUME w # x PROVE FALSE
          BY <4>1, <4>2, <3>3, <2>2, <1>2
        <4> QED BY <4>2 DEF x
      <3> QED BY <3>2, <3>3
    <2> QED BY <2>1, <2>2
  <1> HIDE DEF G
  <1>4. \A s \in S : One(s)
    <2> SUFFICES ASSUME Bad # {} PROVE FALSE
      OBVIOUS
    <2> DEFINE T == {measure[s] : s \in Bad}
    <2>1. T \subseteq Nat /\ T # {}
      OBVIOUS
    <2>2. PICK n \in T : \A m \in T : n <= m
      BY <2>1, LeastNat
    <2>3. PICK s \in Bad : n = measure[s]
      BY <2>2
    <2>4. s \notin Stop /\ ~ One(next[s])
      <3> HIDE DEF One
      <3> QED BY <2>3, <1>3
    <2>5. next[s] \in Bad /\ measure[next[s]] < measure[s]
      BY <2>3, <2>4
    <2>6. measure[s] <= measure[next[s]]
      <3>1. measure[next[s]] \in T
        BY <2>5
      <3> QED BY <3>1, <2>2, <2>3
    <2>7. measure[s] \in Nat /\ measure[next[s]] \in Nat
      BY <2>3, <2>5
    <2> QED BY <2>5, <2>6, <2>7
  <1> DEFINE F == [s \in S |-> CHOOSE v \in V : <<s, v>> \in G]
  <1>5. ASSUME NEW s \in S
        PROVE  /\ F[s] \in V /\ <<s, F[s]>> \in G
               /\ \A v \in V : <<s, v>> \in G => v = F[s]
    <2>1. \E v \in V : <<s, v>> \in G
      BY <1>4
    <2>2. F[s] \in V /\ <<s, F[s]>> \in G
      BY <2>1
    <2> HIDE DEF F
    <2> QED BY <2>2, <1>4
  <1>6. F \in [S -> V]
    BY <1>5
  <1>7. ASSUME NEW s \in S
        PROVE  F[s] = IF s \in Stop THEN base[s] ELSE combine[<<s, F[next[s]]>>]
    <2> HIDE DEF F
    <2>1. CASE s \in Stop
      BY <2>1, <1>1, <1>5
    <2>2. CASE s \notin Stop
      <3>1. <<s, combine[<<s, F[next[s]]>>]>> \in G /\ combine[<<s, F[next[s]]>>] \in V
        <4>1. F[next[s]] \in V /\ <<next[s], F[next[s]]>> \in G
          BY <1>5
        <4> QED BY <4>1, <2>2, <1>1
      <3> QED BY <3>1, <2>2, <1>5
    <2> QED BY <2>1, <2>2
  <1> QED BY <1>6, <1>7

(***************************************************************************)
(* Texts and tags.                                                         *)
(***************************************************************************)

\* What stands before a position, and what stands from it on.
LEMMA Parts ==
    ASSUME NEW t \in Texts, NEW k \in Nat \ {0}, k <= Len(t) + 1
    PROVE  /\ Before(t, k) \in Texts /\ From(t, k) \in Texts
           /\ Len(Before(t, k)) = k - 1 /\ Len(From(t, k)) = Len(t) - k + 1
           /\ \A i \in 1..(k - 1) : Before(t, k)[i] = t[i]
           /\ \A i \in 1..(Len(t) - k + 1) : From(t, k)[i] = t[k + i - 1]
           /\ t = Before(t, k) \o From(t, k)
  <1>1. Len(t) \in Nat /\ \A i \in 1..Len(t) : t[i] \in Symbols
    BY ElementOfSeq, LenProperties DEF Texts
  <1>2. /\ Before(t, k) \in Texts
        /\ Len(Before(t, k)) = k - 1
        /\ \A i \in 1..(k - 1) : Before(t, k)[i] = t[i]
    <2>1. \A i \in 1..(k - 1) : t[i] \in Symbols
      BY <1>1
    <2>2. /\ SubSeq(t, 1, k - 1) \in Seq(Symbols)
          /\ Len(SubSeq(t, 1, k - 1)) = IF 1 <= k - 1 THEN (k - 1) - 1 + 1 ELSE 0
          /\ \A i \in 1..((k - 1) - 1 + 1) : SubSeq(t, 1, k - 1)[i] = t[1 + i - 1]
      BY <2>1, SubSeqProperties
    <2> QED BY <2>2 DEF Before, Texts
  <1>3. /\ From(t, k) \in Texts
        /\ Len(From(t, k)) = Len(t) - k + 1
        /\ \A i \in 1..(Len(t) - k + 1) : From(t, k)[i] = t[k + i - 1]
    <2>1. \A i \in k..Len(t) : t[i] \in Symbols
      BY <1>1
    <2>2. /\ SubSeq(t, k, Len(t)) \in Seq(Symbols)
          /\ Len(SubSeq(t, k, Len(t))) = IF k <= Len(t) THEN Len(t) - k + 1 ELSE 0
          /\ \A i \in 1..(Len(t) - k + 1) : SubSeq(t, k, Len(t))[i] = t[k + i - 1]
      BY <2>1, <1>1, SubSeqProperties
    <2> QED BY <2>2, <1>1 DEF From, Texts
  <1>4. t = Before(t, k) \o From(t, k)
    <2>1. /\ t \in Seq(Symbols) /\ 1 \in 1..(Len(t) + 1)
          /\ k - 1 \in 1 - 1 .. Len(t) /\ Len(t) \in (k - 1) .. Len(t) /\ (k - 1) + 1 = k
      BY <1>1 DEF Texts
    <2>2. SubSeq(t, 1, k - 1) \o SubSeq(t, (k - 1) + 1, Len(t)) = SubSeq(t, 1, Len(t))
      BY <2>1, ConcatAdjacentSubSeq
    <2>3. SubSeq(t, 1, Len(t)) = t
      BY SubSeqFull DEF Texts
    <2> QED BY <2>1, <2>2, <2>3 DEF Before, From
  <1> QED BY <1>2, <1>3, <1>4

\* The tags, and that one stands at a position.
Tags == {Open, Close}

At(t, tag, i) == i \in 1..(Len(t) - 1) /\ t[i] = tag[1] /\ t[i + 1] = tag[2]

LEMMA TagSymbols ==
    ASSUME NEW tag \in Tags PROVE tag[1] = "<" /\ tag[2] # "<" /\ tag = <<tag[1], tag[2]>>
  BY DEF Tags, Open, Close

LEMMA PlacesAt ==
    ASSUME NEW t \in Texts, NEW tag \in Tags, NEW i
    PROVE  i \in Places(t, tag) <=> At(t, tag, i)
  <1>1. Len(t) \in Nat /\ \A n \in 1..Len(t) : t[n] \in Symbols
    BY ElementOfSeq, LenProperties DEF Texts
  <1>2. ASSUME i \in 1..(Len(t) - 1)
        PROVE  SubSeq(t, i, i + 1) = tag <=> t[i] = tag[1] /\ t[i + 1] = tag[2]
    <2>1. PICK s : s = SubSeq(t, i, i + 1)
      OBVIOUS
    <2>2. s \in Seq(Symbols) /\ Len(s) = 2 /\ s[1] = t[i] /\ s[2] = t[i + 1]
      <3>1. \A n \in i..(i + 1) : t[n] \in Symbols
        BY <1>1, <1>2
      <3>2. /\ s \in Seq(Symbols)
            /\ Len(s) = IF i <= i + 1 THEN (i + 1) - i + 1 ELSE 0
            /\ \A n \in 1..((i + 1) - i + 1) : s[n] = t[i + n - 1]
        BY <3>1, <1>1, <1>2, <2>1, SubSeqProperties
      <3>3. i \in Int /\ (i + 1) - i + 1 = 2 /\ i <= i + 1
        BY <1>1, <1>2
      <3>4. Len(s) = 2 /\ \A n \in 1..2 : s[n] = t[i + n - 1]
        BY <3>2, <3>3
      <3>5. s[1] = t[i + 1 - 1] /\ s[2] = t[i + 2 - 1]
        BY <3>4
      <3> QED BY <3>2, <3>3, <3>4, <3>5
    <2>3. s = <<s[1], s[2]>>
      BY <2>2
    <2> QED BY <2>1, <2>2, <2>3, TagSymbols
  <1> QED BY <1>1, <1>2 DEF Places, At

\* The first place of a tag, and that there is none.
LEMMA FirstAt ==
    ASSUME NEW t \in Texts, NEW tag \in Tags
    PROVE  /\ First(t, tag) \in Nat
           /\ First(t, tag) # 0 => /\ At(t, tag, First(t, tag))
                                   /\ \A i \in Nat : At(t, tag, i) => First(t, tag) <= i
           /\ First(t, tag) = 0 => \A i \in Nat : ~ At(t, tag, i)
  <1>1. CASE Places(t, tag) = {}
    BY <1>1, PlacesAt DEF First
  <1>2. CASE Places(t, tag) # {}
    <2>1. Places(t, tag) \subseteq Nat \ {0}
      BY LenProperties DEF Places, Texts
    <2>2. PICK n \in Places(t, tag) : \A m \in Places(t, tag) : n <= m
      BY <1>2, <2>1, LeastNat
    <2>3. /\ Min(Places(t, tag)) \in Places(t, tag)
          /\ \A m \in Places(t, tag) : Min(Places(t, tag)) <= m
      BY <2>2 DEF Min
    <2>4. First(t, tag) = Min(Places(t, tag))
      BY <1>2 DEF First
    <2> QED BY <2>1, <2>3, <2>4, PlacesAt
  <1> QED BY <1>1, <1>2

LEMMA FirstIs ==
    ASSUME NEW t \in Texts, NEW tag \in Tags, NEW i \in Nat, At(t, tag, i),
           \A n \in 1..(i - 1) : ~ At(t, tag, n)
    PROVE  First(t, tag) = i
  <1>1. First(t, tag) # 0 /\ First(t, tag) <= i /\ At(t, tag, First(t, tag))
    BY FirstAt
  <1>2. First(t, tag) \in Nat
    BY FirstAt
  <1> QED BY <1>1, <1>2

(***************************************************************************)
(* Texts that are joined.                                                  *)
(***************************************************************************)

LEMMA Joined ==
    ASSUME NEW b \in Texts, NEW c \in Texts
    PROVE  /\ b \o c \in Texts /\ Len(b) \in Nat /\ Len(c) \in Nat
           /\ Len(b \o c) = Len(b) + Len(c)
           /\ \A i \in 1..Len(b) : (b \o c)[i] = b[i]
           /\ \A i \in 1..Len(c) : (b \o c)[Len(b) + i] = c[i]
  <1>1. /\ b \o c \in Texts /\ Len(b \o c) = Len(b) + Len(c)
        /\ \A i \in 1..(Len(b) + Len(c)) :
             (b \o c)[i] = IF i <= Len(b) THEN b[i] ELSE c[i - Len(b)]
    BY ConcatProperties DEF Texts
  <1>2. Len(b) \in Nat /\ Len(c) \in Nat
    BY LenProperties DEF Texts
  <1>3. ASSUME NEW i \in 1..Len(b) PROVE (b \o c)[i] = b[i]
    BY <1>1, <1>2
  <1>4. ASSUME NEW i \in 1..Len(c) PROVE (b \o c)[Len(b) + i] = c[i]
    <2>1. Len(b) + i \in 1..(Len(b) + Len(c)) /\ ~ (Len(b) + i <= Len(b))
      BY <1>2
    <2>2. (b \o c)[Len(b) + i] = c[(Len(b) + i) - Len(b)]
      BY <2>1, <1>1
    <2>3. (Len(b) + i) - Len(b) = i
      BY <1>2
    <2> QED BY <2>2, <2>3
  <1> QED BY <1>1, <1>2, <1>3, <1>4

\* Parts of two texts joined, when they are cut within the first one ...
LEMMA PartsOfFirst ==
    ASSUME NEW b \in Texts, NEW c \in Texts, NEW k \in Nat \ {0}, k <= Len(b) + 1
    PROVE  Before(b \o c, k) = Before(b, k) /\ From(b \o c, k) = From(b, k) \o c
  <1>1. /\ b \o c \in Texts /\ Len(b) \in Nat /\ Len(c) \in Nat
        /\ Len(b \o c) = Len(b) + Len(c)
        /\ \A i \in 1..Len(b) : (b \o c)[i] = b[i]
        /\ \A i \in 1..Len(c) : (b \o c)[Len(b) + i] = c[i]
    BY Joined
  <1>2. /\ Before(b, k) \in Texts /\ From(b, k) \in Texts
        /\ Len(Before(b, k)) = k - 1 /\ Len(From(b, k)) = Len(b) - k + 1
        /\ \A i \in 1..(k - 1) : Before(b, k)[i] = b[i]
        /\ \A i \in 1..(Len(b) - k + 1) : From(b, k)[i] = b[k + i - 1]
    BY Parts
  <1>3. k <= Len(b \o c) + 1
    BY <1>1
  <1>4. /\ Before(b \o c, k) \in Texts /\ From(b \o c, k) \in Texts
        /\ Len(Before(b \o c, k)) = k - 1 /\ Len(From(b \o c, k)) = Len(b \o c) - k + 1
        /\ \A i \in 1..(k - 1) : Before(b \o c, k)[i] = (b \o c)[i]
        /\ \A i \in 1..(Len(b \o c) - k + 1) : From(b \o c, k)[i] = (b \o c)[k + i - 1]
    BY <1>1, <1>3, Parts
  <1>5. Before(b \o c, k) = Before(b, k)
    <2>1. ASSUME NEW i \in 1..(k - 1) PROVE Before(b \o c, k)[i] = Before(b, k)[i]
      BY <1>1, <1>2, <1>4
    <2> QED BY <2>1, <1>2, <1>4, SeqEqual DEF Texts
  <1>6. /\ From(b, k) \o c \in Texts
        /\ Len(From(b, k) \o c) = Len(From(b, k)) + Len(c)
        /\ \A i \in 1..Len(From(b, k)) : (From(b, k) \o c)[i] = From(b, k)[i]
        /\ \A i \in 1..Len(c) : (From(b, k) \o c)[Len(From(b, k)) + i] = c[i]
    BY <1>2, Joined
  <1>7. From(b \o c, k) = From(b, k) \o c
    <2>1. ASSUME NEW i \in 1..(Len(b \o c) - k + 1)
          PROVE  From(b \o c, k)[i] = (From(b, k) \o c)[i]
      <3>1. CASE i <= Len(b) - k + 1
        <4>1. i \in 1..(Len(b) - k + 1) /\ k + i - 1 \in 1..Len(b)
          BY <3>1, <1>1
        <4>2. (From(b, k) \o c)[i] = b[k + i - 1]
          BY <4>1, <1>2, <1>6
        <4>3. From(b \o c, k)[i] = (b \o c)[k + i - 1]
          BY <1>4
        <4>4. (b \o c)[k + i - 1] = b[k + i - 1]
          BY <4>1, <1>1
        <4> QED BY <4>2, <4>3, <4>4
      <3>2. CASE ~ (i <= Len(b) - k + 1)
        <4>1. PICK n \in 1..Len(c) : i = (Len(b) - k + 1) + n
          <5>1. i - (Len(b) - k + 1) \in 1..Len(c) /\ i = (Len(b) - k + 1) + (i - (Len(b) - k + 1))
            BY <3>2, <1>1
          <5> QED BY <5>1
        <4>2. (From(b, k) \o c)[i] = c[n]
          BY <4>1, <1>2, <1>6
        <4>3. k + i - 1 = Len(b) + n
          BY <4>1, <1>1
        <4>4. From(b \o c, k)[i] = (b \o c)[Len(b) + n]
          BY <4>3, <1>4
        <4> QED BY <4>2, <4>4, <1>1
      <3> QED BY <3>1, <3>2
    <2>2. Len(From(b \o c, k)) = Len(From(b, k) \o c)
      BY <1>1, <1>2, <1>4, <1>6
    <2> QED BY <2>1, <2>2, <1>4, <1>6, SeqEqual DEF Texts
  <1> QED BY <1>5, <1>7

LEMMA Associative ==
    \A s \in Texts, t \in Texts, u \in Texts : (s \o t) \o u = s \o (t \o u)
  BY ConcatAssociative DEF Texts

\* ... and when they are cut within the second one.
LEMMA PartsOfSecond ==
    ASSUME NEW b \in Texts, NEW c \in Texts, NEW k \in Nat \ {0}, k <= Len(c) + 1
    PROVE  /\ Before(b \o c, Len(b) + k) = b \o Before(c, k)
           /\ From(b \o c, Len(b) + k) = From(c, k)
  <1>1. /\ b \o c \in Texts /\ Len(b) \in Nat /\ Len(c) \in Nat
        /\ Len(b \o c) = Len(b) + Len(c)
    BY Joined
  <1>2. /\ Before(c, k) \in Texts /\ From(c, k) \in Texts /\ Len(Before(c, k)) = k - 1
        /\ c = Before(c, k) \o From(c, k)
    BY Parts
  <1>3. b \o Before(c, k) \in Texts /\ Len(b \o Before(c, k)) = Len(b) + (k - 1)
    BY <1>2, Joined
  <1>4. b \o c = (b \o Before(c, k)) \o From(c, k)
    <2>1. (b \o Before(c, k)) \o From(c, k) = b \o (Before(c, k) \o From(c, k))
      BY <1>2, Associative, Zenon
    <2> QED BY <2>1, <1>2
  <1>5. Len(b) + k \in Nat \ {0} /\ Len(b) + k = Len(b \o Before(c, k)) + 1
    BY <1>1, <1>3
  <1> DEFINE d == b \o Before(c, k)
             e == From(c, k)
  <1>6. d \in Texts /\ e \in Texts /\ Len(d) \in Nat
    BY <1>2, <1>3, Joined
  <1> HIDE DEF d, e
  <1>7. Before(d \o e, Len(d) + 1) = Before(d, Len(d) + 1)
        /\ From(d \o e, Len(d) + 1) = From(d, Len(d) + 1) \o e
    <2>1. Len(d) + 1 \in Nat \ {0} /\ Len(d) + 1 <= Len(d) + 1
      BY <1>6
    <2> QED BY <2>1, <1>6, PartsOfFirst
  <1>8. Before(d, Len(d) + 1) = d /\ From(d, Len(d) + 1) = <<>>
    <2>1. Before(d, Len(d) + 1) = SubSeq(d, 1, Len(d))
      BY <1>6 DEF Before
    <2>2. From(d, Len(d) + 1) = <<>>
      BY <1>6, SubSeqEmpty DEF From
    <2> QED BY <2>1, <2>2, <1>6, SubSeqFull DEF Texts
  <1>9. <<>> \o e = e
    BY <1>6, ConcatEmptySeq DEF Texts
  <1> QED BY <1>4, <1>5, <1>7, <1>8, <1>9 DEF d, e

\* A tag in a text is where it is when more follows.
LEMMA AtFirst ==
    ASSUME NEW b \in Texts, NEW c \in Texts, NEW tag \in Tags, NEW i \in 1..(Len(b) - 1)
    PROVE  At(b \o c, tag, i) <=> At(b, tag, i)
  <1>1. /\ Len(b) \in Nat /\ Len(c) \in Nat
        /\ Len(b \o c) = Len(b) + Len(c)
        /\ \A n \in 1..Len(b) : (b \o c)[n] = b[n]
    BY Joined
  <1>2. i \in 1..Len(b) /\ i + 1 \in 1..Len(b) /\ i \in 1..(Len(b \o c) - 1)
    BY <1>1
  <1> QED BY <1>1, <1>2 DEF At

LEMMA AtSecond ==
    ASSUME NEW b \in Texts, NEW c \in Texts, NEW tag \in Tags, NEW i \in Nat \ {0}
    PROVE  At(b \o c, tag, Len(b) + i) <=> At(c, tag, i)
  <1>1. /\ Len(b) \in Nat /\ Len(c) \in Nat
        /\ Len(b \o c) = Len(b) + Len(c)
        /\ \A n \in 1..Len(c) : (b \o c)[Len(b) + n] = c[n]
    BY Joined
  <1>2. Len(b) + i \in 1..(Len(b \o c) - 1) <=> i \in 1..(Len(c) - 1)
    BY <1>1
  <1>3. ASSUME i \in 1..(Len(c) - 1)
        PROVE  (b \o c)[Len(b) + i] = c[i] /\ (b \o c)[Len(b) + i + 1] = c[i + 1]
    <2>1. i \in 1..Len(c) /\ i + 1 \in 1..Len(c) /\ Len(b) + i + 1 = Len(b) + (i + 1)
      BY <1>1, <1>3
    <2> QED BY <2>1, <1>1
  <1> QED BY <1>2, <1>3 DEF At

\* What follows a text does not change where its first tag is.
LEMMA FirstStays ==
    ASSUME NEW b \in Texts, NEW c \in Texts, NEW tag \in Tags, First(b, tag) # 0
    PROVE  /\ First(b \o c, tag) = First(b, tag)
           /\ Before(b \o c, First(b, tag)) = Before(b, First(b, tag))
           /\ From(b \o c, First(b, tag) + 2) = From(b, First(b, tag) + 2) \o c
  <1>1. PICK i : i = First(b, tag)
    OBVIOUS
  <1>2. i \in Nat /\ At(b, tag, i) /\ \A n \in Nat : At(b, tag, n) => i <= n
    BY <1>1, FirstAt
  <1>3. Len(b) \in Nat /\ i \in 1..(Len(b) - 1) /\ b \o c \in Texts
    BY <1>2, Joined DEF At
  <1>4. At(b \o c, tag, i)
    BY <1>2, <1>3, AtFirst
  <1>5. ASSUME NEW n \in 1..(i - 1) PROVE ~ At(b \o c, tag, n)
    <2>1. n \in 1..(Len(b) - 1) /\ n \in Nat /\ ~ (i <= n)
      BY <1>3
    <2>2. ~ At(b, tag, n)
      BY <2>1, <1>2
    <2> QED BY <2>1, <2>2, AtFirst
  <1>6. First(b \o c, tag) = i
    BY <1>2, <1>3, <1>4, <1>5, FirstIs
  <1>7. i \in Nat \ {0} /\ i <= Len(b) + 1 /\ i + 2 \in Nat \ {0} /\ i + 2 <= Len(b) + 1
    BY <1>3
  <1> QED BY <1>1, <1>6, <1>7, PartsOfFirst

\* Text in which no tag begins moves the first tag of what follows.
LEMMA FirstMoves ==
    ASSUME NEW b \in Texts, NEW c \in Texts, NEW tag \in Tags,
           \A n \in 1..Len(b) : ~ At(b \o c, tag, n)
    PROVE  /\ First(c, tag) = 0 => First(b \o c, tag) = 0
           /\ First(c, tag) # 0 =>
                /\ First(b \o c, tag) = Len(b) + First(c, tag)
                /\ Before(b \o c, First(b \o c, tag)) = b \o Before(c, First(c, tag))
                /\ From(b \o c, First(b \o c, tag) + 2) = From(c, First(c, tag) + 2)
  <1>1. /\ b \o c \in Texts /\ Len(b) \in Nat /\ Len(c) \in Nat
        /\ Len(b \o c) = Len(b) + Len(c)
    BY Joined
  <1>2. ASSUME NEW n \in Nat, At(b \o c, tag, n)
        PROVE  \E m \in Nat \ {0} : n = Len(b) + m /\ At(c, tag, m)
    <2>1. n \in 1..(Len(b \o c) - 1) /\ n \notin 1..Len(b)
      BY <1>2 DEF At
    <2>2. n - Len(b) \in Nat \ {0} /\ n = Len(b) + (n - Len(b))
      BY <2>1, <1>1
    <2>3. PICK m \in Nat \ {0} : n = Len(b) + m
      BY <2>2
    <2>4. At(c, tag, m)
      BY <1>2, <2>3, AtSecond
    <2> QED BY <2>3, <2>4
  <1>3. CASE First(c, tag) = 0
    <2>1. \A n \in Nat : ~ At(b \o c, tag, n)
      BY <1>2, <1>3, FirstAt
    <2>2. First(b \o c, tag) = 0
      BY <2>1, <1>1, FirstAt
    <2> QED BY <2>2, <1>3
  <1>4. CASE First(c, tag) # 0
    <2>1. PICK j : j = First(c, tag)
      OBVIOUS
    <2>2. j \in Nat /\ At(c, tag, j) /\ \A n \in Nat : At(c, tag, n) => j <= n
      BY <2>1, <1>4, FirstAt
    <2>3. j \in 1..(Len(c) - 1)
      BY <2>2 DEF At
    <2>4. j \in Nat \ {0} /\ j <= Len(c) + 1 /\ j + 2 \in Nat \ {0} /\ j + 2 <= Len(c) + 1
          /\ Len(b) + j \in Nat /\ (Len(b) + j) + 2 = Len(b) + (j + 2)
      BY <2>3, <1>1
    <2>5. At(b \o c, tag, Len(b) + j)
      BY <2>2, <2>4, AtSecond
    <2>6. ASSUME NEW n \in 1..((Len(b) + j) - 1), At(b \o c, tag, n) PROVE FALSE
      <3>1. PICK m \in Nat \ {0} : n = Len(b) + m /\ At(c, tag, m)
        BY <2>6, <1>2, <2>4
      <3>2. j <= m
        BY <3>1, <2>2
      <3> QED BY <3>1, <3>2, <2>4, <1>1
    <2>7. First(b \o c, tag) = Len(b) + j
      BY <2>4, <2>5, <2>6, <1>1, FirstIs
    <2>8. /\ Before(b \o c, Len(b) + j) = b \o Before(c, j)
          /\ From(b \o c, Len(b) + (j + 2)) = From(c, j + 2)
      BY <2>4, PartsOfSecond
    <2> QED BY <2>1, <2>4, <2>7, <2>8, <1>4
  <1> QED BY <1>3, <1>4

\* What follows the first tag is a shorter text.
LEMMA AfterTag ==
    ASSUME NEW t \in Texts, NEW tag \in Tags, First(t, tag) # 0
    PROVE  /\ Before(t, First(t, tag)) \in Texts
           /\ From(t, First(t, tag) + 2) \in Texts
           /\ Len(From(t, First(t, tag) + 2)) < Len(t)
           /\ Len(t) \in Nat /\ Len(From(t, First(t, tag) + 2)) \in Nat
  <1>1. First(t, tag) \in 1..(Len(t) - 1) /\ Len(t) \in Nat
    BY FirstAt, LenProperties DEF At, Texts
  <1>2. /\ First(t, tag) \in Nat \ {0} /\ First(t, tag) <= Len(t) + 1
        /\ First(t, tag) + 2 \in Nat \ {0} /\ First(t, tag) + 2 <= Len(t) + 1
    BY <1>1
  <1>3. /\ Before(t, First(t, tag)) \in Texts
        /\ From(t, First(t, tag) + 2) \in Texts
        /\ Len(From(t, First(t, tag) + 2)) = Len(t) - (First(t, tag) + 2) + 1
    BY <1>2, Parts
  <1> QED BY <1>1, <1>3

(***************************************************************************)
(* What the recursive functions compute.                                   *)
(***************************************************************************)

Block(t) == From(t, First(t, Open) + 2)

AfterBlock(t) == From(Block(t), First(Block(t), Close) + 2)

\* The first block of a text is closed.
Closed(t) == First(t, Open) # 0 /\ First(Block(t), Close) # 0

LEMMA AfterBlockShorter ==
    ASSUME NEW t \in Texts, Closed(t)
    PROVE  /\ Before(t, First(t, Open)) \in Texts /\ AfterBlock(t) \in Texts
           /\ Len(t) \in Nat /\ Len(AfterBlock(t)) \in Nat /\ Len(AfterBlock(t)) < Len(t)
  <1>1. Open \in Tags /\ Close \in Tags
    BY DEF Tags
  <1>2. /\ Before(t, First(t, Open)) \in Texts /\ Block(t) \in Texts
        /\ Len(t) \in Nat /\ Len(Block(t)) \in Nat /\ Len(Block(t)) < Len(t)
    BY <1>1, AfterTag DEF Closed, Block
  <1>3. AfterBlock(t) \in Texts /\ Len(AfterBlock(t)) \in Nat /\ Len(AfterBlock(t)) < Len(Block(t))
    BY <1>1, <1>2, AfterTag DEF Closed, AfterBlock
  <1> QED BY <1>2, <1>3

LEMMA NoTag ==
    ASSUME NEW t \in Texts
    PROVE  /\ First(t, Open) # 0 => Before(t, First(t, Open)) \in Texts
           /\ <<>> \in Texts
  BY AfterTag, EmptySeq DEF Tags, Texts

\* A function that goes from a closed block to what follows it: there is one, and
\* whatever is one yields texts.
LEMMA BlocksRecursion ==
    ASSUME NEW base, base \in [Texts -> Texts]
    PROVE  \E F \in [Texts -> Texts] : \A t \in Texts :
             F[t] = IF ~ Closed(t) THEN base[t]
                    ELSE Before(t, First(t, Open)) \o F[AfterBlock(t)]
  <1> DEFINE Stop == {t \in Texts : ~ Closed(t)}
             next == [t \in Texts |-> IF Closed(t) THEN AfterBlock(t) ELSE t]
             combine == [p \in Texts \X Texts |->
                           IF Closed(p[1]) THEN Before(p[1], First(p[1], Open)) \o p[2]
                           ELSE p[2]]
             measure == [t \in Texts |-> Len(t)]
  <1>1. next \in [Texts -> Texts]
    BY AfterBlockShorter
  <1>2. combine \in [Texts \X Texts -> Texts]
    <2>1. ASSUME NEW s \in Texts, NEW t \in Texts, Closed(s)
          PROVE  Before(s, First(s, Open)) \o t \in Texts
      BY <2>1, AfterBlockShorter, Joined
    <2> QED BY <2>1
  <1>3. measure \in [Texts -> Nat]
    BY LenProperties DEF Texts
  <1>4. \A t \in Texts : t \notin Stop => measure[next[t]] < measure[t]
    <2>1. ASSUME NEW t \in Texts, t \notin Stop PROVE measure[next[t]] < measure[t]
      <3>1. Closed(t) /\ next[t] = AfterBlock(t) /\ AfterBlock(t) \in Texts
        BY <2>1, AfterBlockShorter
      <3> QED BY <3>1, AfterBlockShorter
    <2> QED BY <2>1
  <1>5. PICK F \in [Texts -> Texts] : \A t \in Texts :
          F[t] = IF t \in Stop THEN base[t] ELSE combine[<<t, F[next[t]]>>]
    <2>1. Descends(Texts, Texts, Stop, base, next, combine, measure)
      <3> HIDE DEF Stop, next, combine, measure
      <3> QED BY <1>1, <1>2, <1>3, <1>4 DEF Descends
    <2> HIDE DEF Stop, next, combine, measure
    <2> QED BY <2>1, Recursion
  <1>6. ASSUME NEW t \in Texts
        PROVE  F[t] = IF ~ Closed(t) THEN base[t]
                      ELSE Before(t, First(t, Open)) \o F[AfterBlock(t)]
    <2>1. CASE ~ Closed(t)
      BY <2>1, <1>5
    <2>2. CASE Closed(t)
      <3>1. F[AfterBlock(t)] \in Texts /\ next[t] = AfterBlock(t) /\ t \notin Stop
        BY <2>2, AfterBlockShorter
      <3>2. F[t] = combine[<<t, F[AfterBlock(t)]>>]
        BY <3>1, <1>5
      <3>3. combine[<<t, F[AfterBlock(t)]>>] = Before(t, First(t, Open)) \o F[AfterBlock(t)]
        BY <3>1, <2>2
      <3> QED BY <3>2, <3>3, <2>2
    <2> QED BY <2>1, <2>2
  <1> QED BY <1>6

LEMMA BlocksTexts ==
    ASSUME NEW base, base \in [Texts -> Texts], NEW F,
           \A t \in Texts : F[t] = IF ~ Closed(t) THEN base[t]
                                   ELSE Before(t, First(t, Open)) \o F[AfterBlock(t)]
    PROVE  \A t \in Texts : F[t] \in Texts
  <1> DEFINE measure == [t \in Texts |-> Len(t)]
             Good == {t \in Texts : F[t] \in Texts}
  <1>1. measure \in [Texts -> Nat]
    BY LenProperties DEF Texts
  <1>2. ASSUME NEW t \in Texts,
               \A u \in Texts : measure[u] < measure[t] => u \in Good
        PROVE  t \in Good
    <2>1. CASE ~ Closed(t)
      BY <2>1
    <2>2. CASE Closed(t)
      <3>1. AfterBlock(t) \in Good /\ Before(t, First(t, Open)) \in Texts
        BY <2>2, <1>2, AfterBlockShorter
      <3>2. F[t] = Before(t, First(t, Open)) \o F[AfterBlock(t)]
        BY <2>2
      <3>3. F[AfterBlock(t)] \in Texts
        BY <3>1
      <3>4. F[t] \in Texts
        BY <3>1, <3>2, <3>3, Joined
      <3> QED BY <3>4
    <2> QED BY <2>1, <2>2
  <1> HIDE DEF Good
  <1>3. Inherited(Texts, measure, Good)
    BY <1>1, <1>2 DEF Inherited
  <1>4. \A t \in Texts : t \in Good
    BY <1>3, Induction
  <1> QED BY <1>4 DEF Good

\* What the definitions of Shown and WithoutBlocks say of them.
LEMMA ShownIs ==
    /\ Shown \in [Texts -> Texts]
    /\ \A t \in Texts :
         Shown[t] = IF First(t, Open) = 0 THEN t
                    ELSE IF ~ Closed(t) THEN Before(t, First(t, Open))
                    ELSE Before(t, First(t, Open)) \o Shown[AfterBlock(t)]
  <1> DEFINE base == [t \in Texts |-> IF First(t, Open) = 0 \/ Closed(t) THEN t
                                     ELSE Before(t, First(t, Open))]
  <1>1. base \in [Texts -> Texts]
    BY NoTag
  <1>2. PICK F \in [Texts -> Texts] : \A t \in Texts :
          F[t] = IF ~ Closed(t) THEN base[t]
                 ELSE Before(t, First(t, Open)) \o F[AfterBlock(t)]
    BY <1>1, BlocksRecursion
  <1>3. F = [t \in Texts |->
               LET i == First(t, Open)
                   block == From(t, i + 2)
                   j == First(block, Close)
               IN  IF i = 0 THEN t
                   ELSE IF j = 0 THEN Before(t, i)
                   ELSE Before(t, i) \o F[From(block, j + 2)]]
    BY <1>2 DEF Closed, Block, AfterBlock
  <1>4. Shown = [t \in Texts |->
                   LET i == First(t, Open)
                       block == From(t, i + 2)
                       j == First(block, Close)
                   IN  IF i = 0 THEN t
                       ELSE IF j = 0 THEN Before(t, i)
                       ELSE Before(t, i) \o Shown[From(block, j + 2)]]
    BY <1>3 DEF Shown
  <1>5. ASSUME NEW t \in Texts
        PROVE  Shown[t] = IF First(t, Open) = 0 THEN t
                          ELSE IF ~ Closed(t) THEN Before(t, First(t, Open))
                          ELSE Before(t, First(t, Open)) \o Shown[AfterBlock(t)]
    BY <1>4 DEF Closed, Block, AfterBlock
  <1>6. ASSUME NEW t \in Texts
        PROVE  Shown[t] = IF ~ Closed(t) THEN base[t]
                          ELSE Before(t, First(t, Open)) \o Shown[AfterBlock(t)]
    BY <1>5 DEF Closed
  <1>7. \A t \in Texts : Shown[t] \in Texts
    <2> HIDE DEF base
    <2> QED BY <1>1, <1>6, BlocksTexts
  <1> QED BY <1>4, <1>5, <1>7

LEMMA WithoutBlocksIs == WithoutBlocks \in [Texts -> Texts]
  <1> DEFINE base == [t \in Texts |-> t]
  <1>1. base \in [Texts -> Texts]
    OBVIOUS
  <1>2. PICK F \in [Texts -> Texts] : \A t \in Texts :
          F[t] = IF ~ Closed(t) THEN base[t]
                 ELSE Before(t, First(t, Open)) \o F[AfterBlock(t)]
    BY <1>1, BlocksRecursion
  <1>3. F = [t \in Texts |->
               LET i == First(t, Open)
                   block == From(t, i + 2)
                   j == First(block, Close)
               IN  IF i = 0 \/ j = 0 THEN t
                   ELSE Before(t, i) \o F[From(block, j + 2)]]
    BY <1>2 DEF Closed, Block, AfterBlock
  <1>4. WithoutBlocks = [t \in Texts |->
                           LET i == First(t, Open)
                               block == From(t, i + 2)
                               j == First(block, Close)
                           IN  IF i = 0 \/ j = 0 THEN t
                               ELSE Before(t, i) \o WithoutBlocks[From(block, j + 2)]]
    BY <1>3 DEF WithoutBlocks
  <1>5. ASSUME NEW t \in Texts
        PROVE  WithoutBlocks[t] = IF ~ Closed(t) THEN base[t]
                                  ELSE Before(t, First(t, Open)) \o WithoutBlocks[AfterBlock(t)]
    BY <1>4 DEF Closed, Block, AfterBlock
  <1>6. \A t \in Texts : WithoutBlocks[t] \in Texts
    <2> HIDE DEF base
    <2> QED BY <1>1, <1>5, BlocksTexts
  <1> QED BY <1>4, <1>6

\* What is left of a text without its tail has no opening tag.
LEMMA SuppressIs ==
    ASSUME NEW t \in Texts
    PROVE  Suppress(t) \in Texts /\ Places(Suppress(t), Open) = {}
  <1> DEFINE w == WithoutBlocks[t]
             i == First(w, Open)
  <1>1. w \in Texts /\ Open \in Tags
    BY WithoutBlocksIs DEF Tags
  <1> HIDE DEF w
  <1>2. CASE i = 0
    <2>1. Suppress(t) = w
      BY <1>2 DEF Suppress, WithoutTail, w
    <2>2. \A n \in Nat : ~ At(w, Open, n)
      BY <1>1, <1>2, FirstAt
    <2>3. ASSUME NEW n \in Places(w, Open) PROVE FALSE
      <3>1. At(w, Open, n)
        BY <1>1, PlacesAt
      <3> QED BY <3>1, <2>2, <1>1, LenProperties DEF At, Texts
    <2> QED BY <1>1, <2>1, <2>3
  <1>3. CASE i # 0
    <2>1. Suppress(t) = Before(w, i)
      BY <1>3 DEF Suppress, WithoutTail, w
    <2>2. i \in 1..(Len(w) - 1) /\ Len(w) \in Nat /\ \A n \in Nat : At(w, Open, n) => i <= n
      BY <1>1, <1>3, FirstAt, LenProperties DEF At, Texts
    <2>3. i \in Nat \ {0} /\ i <= Len(w) + 1
      BY <2>2
    <2> HIDE DEF i
    <2>4. /\ Before(w, i) \in Texts /\ From(w, i) \in Texts /\ Len(Before(w, i)) = i - 1
          /\ w = Before(w, i) \o From(w, i)
      BY <1>1, <2>3, Parts
    <2>5. ASSUME NEW n \in Places(Before(w, i), Open) PROVE FALSE
      <3>1. At(Before(w, i), Open, n) /\ n \in 1..(Len(Before(w, i)) - 1)
        BY <1>1, <2>4, PlacesAt DEF At
      <3>2. At(w, Open, n)
        <4>1. At(Before(w, i) \o From(w, i), Open, n)
          BY <3>1, <1>1, <2>4, AtFirst
        <4> QED BY <4>1, <2>4
      <3>3. i <= n /\ n <= i - 2
        BY <3>1, <3>2, <2>2, <2>4
      <3> QED BY <3>3, <3>1, <2>3
    <2> QED BY <2>1, <2>4, <2>5
  <1> QED BY <1>2, <1>3

(***************************************************************************)
(* The filter.                                                             *)
(***************************************************************************)

\* The tag the filter looks for, and where it stands in its buffer.
Sought(f) == IF f.inside THEN Close ELSE Open

FoundAt(f) == First(f.buffer, Sought(f))

After(f) == [buffer |-> From(f.buffer, FoundAt(f) + 2), inside |-> ~f.inside]

Consumed == [filter : Filter, out : Texts]

\* What the loop of feed gives.
LEMMA AfterShorter ==
    ASSUME NEW f \in Filter
    PROVE  /\ Sought(f) \in Tags /\ f.buffer \in Texts /\ f.inside \in BOOLEAN
           /\ FoundAt(f) # 0 => /\ Before(f.buffer, FoundAt(f)) \in Texts
                              /\ After(f) \in Filter
                              /\ Len(After(f).buffer) \in Nat /\ Len(f.buffer) \in Nat
                              /\ Len(After(f).buffer) < Len(f.buffer)
  <1>1. Sought(f) \in Tags /\ f.buffer \in Texts /\ f.inside \in BOOLEAN
    BY DEF Sought, Tags, Filter
  <1>2. ASSUME FoundAt(f) # 0
        PROVE  /\ Before(f.buffer, FoundAt(f)) \in Texts
               /\ From(f.buffer, FoundAt(f) + 2) \in Texts
               /\ Len(From(f.buffer, FoundAt(f) + 2)) < Len(f.buffer)
               /\ Len(f.buffer) \in Nat /\ Len(From(f.buffer, FoundAt(f) + 2)) \in Nat
    BY <1>1, <1>2, AfterTag DEF FoundAt
  <1> QED BY <1>1, <1>2 DEF After, Filter

\* What the definition of Consume says of it.
LEMMA ConsumeIs ==
    /\ Consume \in [Filter -> Consumed]
    /\ \A f \in Filter :
         Consume[f] = IF FoundAt(f) = 0 THEN [filter |-> f, out |-> <<>>]
                      ELSE IF f.inside THEN Consume[After(f)]
                      ELSE [filter |-> Consume[After(f)].filter,
                            out |-> Before(f.buffer, FoundAt(f)) \o Consume[After(f)].out]
  <1> DEFINE Stop == {f \in Filter : FoundAt(f) = 0}
             base == [f \in Filter |-> [filter |-> f, out |-> <<>>]]
             next == [f \in Filter |-> IF FoundAt(f) = 0 THEN f ELSE After(f)]
             combine == [p \in Filter \X Consumed |->
                           IF p[1].inside \/ FoundAt(p[1]) = 0 THEN p[2]
                           ELSE [filter |-> p[2].filter,
                                 out |-> Before(p[1].buffer, FoundAt(p[1])) \o p[2].out]]
             measure == [f \in Filter |-> Len(f.buffer)]
  <1>1. base \in [Filter -> Consumed]
    BY NoTag, EmptySeq DEF Consumed, Texts
  <1>2. next \in [Filter -> Filter]
    BY AfterShorter
  <1>3. combine \in [Filter \X Consumed -> Consumed]
    <2>1. ASSUME NEW f \in Filter, NEW c \in Consumed, FoundAt(f) # 0
          PROVE  [filter |-> c.filter, out |-> Before(f.buffer, FoundAt(f)) \o c.out] \in Consumed
      <3>1. Before(f.buffer, FoundAt(f)) \o c.out \in Texts
        BY <2>1, AfterShorter, Joined DEF Consumed
      <3> QED BY <3>1 DEF Consumed
    <2> QED BY <2>1
  <1>4. measure \in [Filter -> Nat]
    BY LenProperties DEF Filter, Texts
  <1>5. \A f \in Filter : f \notin Stop => measure[next[f]] < measure[f]
    <2>1. ASSUME NEW f \in Filter, f \notin Stop PROVE measure[next[f]] < measure[f]
      <3>1. next[f] = After(f) /\ After(f) \in Filter /\ FoundAt(f) # 0
        BY <2>1, AfterShorter
      <3> QED BY <3>1, AfterShorter
    <2> QED BY <2>1
  <1>6. PICK F \in [Filter -> Consumed] : \A f \in Filter :
          F[f] = IF f \in Stop THEN base[f] ELSE combine[<<f, F[next[f]]>>]
    <2>1. Descends(Filter, Consumed, Stop, base, next, combine, measure)
      <3> HIDE DEF Stop, base, next, combine, measure
      <3> QED BY <1>1, <1>2, <1>3, <1>4, <1>5 DEF Descends
    <2> HIDE DEF Stop, base, next, combine, measure
    <2> QED BY <2>1, Recursion
  <1>7. ASSUME NEW f \in Filter
        PROVE  F[f] = IF FoundAt(f) = 0 THEN [filter |-> f, out |-> <<>>]
                      ELSE IF f.inside THEN F[After(f)]
                      ELSE [filter |-> F[After(f)].filter,
                            out |-> Before(f.buffer, FoundAt(f)) \o F[After(f)].out]
    <2>1. CASE FoundAt(f) = 0
      BY <2>1, <1>6
    <2>2. CASE FoundAt(f) # 0
      <3>1. F[After(f)] \in Consumed /\ next[f] = After(f) /\ f \notin Stop
        BY <2>2, AfterShorter
      <3>2. F[f] = combine[<<f, F[After(f)]>>]
        BY <3>1, <1>6
      <3>3. combine[<<f, F[After(f)]>>] =
              IF f.inside \/ FoundAt(f) = 0 THEN F[After(f)]
              ELSE [filter |-> F[After(f)].filter,
                    out |-> Before(f.buffer, FoundAt(f)) \o F[After(f)].out]
        BY <3>1
      <3> HIDE DEF combine
      <3> QED BY <3>2, <3>3, <2>2
    <2> QED BY <2>1, <2>2
  <1>8. F = [f \in Filter |->
               LET b == f.buffer
                   i == First(b, IF f.inside THEN Close ELSE Open)
                   rest == F[[buffer |-> From(b, i + 2), inside |-> ~f.inside]]
               IN  IF i = 0 THEN [filter |-> f, out |-> <<>>]
                   ELSE IF f.inside THEN rest
                   ELSE [filter |-> rest.filter, out |-> Before(b, i) \o rest.out]]
    BY <1>7 DEF FoundAt, Sought, After
  <1>9. Consume = [f \in Filter |->
               LET b == f.buffer
                   i == First(b, IF f.inside THEN Close ELSE Open)
                   rest == Consume[[buffer |-> From(b, i + 2), inside |-> ~f.inside]]
               IN  IF i = 0 THEN [filter |-> f, out |-> <<>>]
                   ELSE IF f.inside THEN rest
                   ELSE [filter |-> rest.filter, out |-> Before(b, i) \o rest.out]]
    <2> HIDE DEF Stop, base, next, combine, measure
    <2> QED BY <1>8 DEF Consume
  <1> HIDE DEF Stop, base, next, combine
  <1>10. ASSUME NEW f \in Filter
         PROVE  Consume[f] = IF FoundAt(f) = 0 THEN [filter |-> f, out |-> <<>>]
                      ELSE IF f.inside THEN Consume[After(f)]
                      ELSE [filter |-> Consume[After(f)].filter,
                            out |-> Before(f.buffer, FoundAt(f)) \o Consume[After(f)].out]
    BY <1>9 DEF FoundAt, Sought, After
  <1> DEFINE Good == {f \in Filter : Consume[f] \in Consumed}
  <1>11. ASSUME NEW f \in Filter,
                \A u \in Filter : measure[u] < measure[f] => u \in Good
         PROVE  f \in Good
    <2>1. CASE FoundAt(f) = 0
      <3>1. Consume[f] = [filter |-> f, out |-> <<>>]
        BY <2>1, <1>10
      <3>2. Consume[f] \in Consumed
        BY <3>1, NoTag, EmptySeq DEF Consumed, Texts
      <3> QED BY <3>2
    <2>2. CASE FoundAt(f) # 0
      <3>1. After(f) \in Good /\ Before(f.buffer, FoundAt(f)) \in Texts
        BY <2>2, <1>11, AfterShorter
      <3>2. Consume[After(f)] \in Consumed
        BY <3>1
      <3>3. Before(f.buffer, FoundAt(f)) \o Consume[After(f)].out \in Texts
        BY <3>1, <3>2, Joined DEF Consumed
      <3>4. \/ Consume[f] = Consume[After(f)]
            \/ Consume[f] = [filter |-> Consume[After(f)].filter,
                             out |-> Before(f.buffer, FoundAt(f)) \o Consume[After(f)].out]
        BY <2>2, <1>10
      <3>5. Consume[f] \in Consumed
        <4> DEFINE rest == Consume[After(f)]
                   o == Before(f.buffer, FoundAt(f)) \o Consume[After(f)].out
        <4>1. rest \in Consumed /\ o \in Texts
          BY <3>2, <3>3
        <4>2. Consume[f] = rest \/ Consume[f] = [filter |-> rest.filter, out |-> o]
          BY <3>4
        <4> HIDE DEF rest, o
        <4>3. [filter |-> rest.filter, out |-> o] \in Consumed
          BY <4>1 DEF Consumed
        <4> QED BY <4>1, <4>2, <4>3
      <3> QED BY <3>5
    <2> QED BY <2>1, <2>2
  <1> HIDE DEF measure, Good
  <1>12. Inherited(Filter, measure, Good)
    BY <1>4, <1>11 DEF Inherited
  <1>13. \A f \in Filter : f \in Good
    BY <1>12, Induction
  <1>14. \A f \in Filter : Consume[f] \in Consumed
    BY <1>13 DEF Good
  <1> QED BY <1>9, <1>10, <1>14

\* What a text shows to a filter that is inside a block, or outside: inside, what
\* follows the end of the block.
Rest(inside, t) ==
    IF ~ inside THEN Shown[t]
    ELSE IF First(t, Close) = 0 THEN <<>>
    ELSE Shown[From(t, First(t, Close) + 2)]

LEMMA RestText ==
    ASSUME NEW inside \in BOOLEAN, NEW t \in Texts
    PROVE  Rest(inside, t) \in Texts
  BY ShownIs, AfterTag, NoTag DEF Rest, Tags

\* Outside a block: what stands before it is shown, and then what the filter finds
\* inside it.
LEMMA RestOutside ==
    ASSUME NEW t \in Texts, First(t, Open) # 0
    PROVE  Rest(FALSE, t) = Before(t, First(t, Open)) \o Rest(TRUE, Block(t))
  <1>1. Before(t, First(t, Open)) \in Texts
    BY NoTag
  <1>2. CASE Closed(t)
    BY <1>2, ShownIs DEF Rest, Closed, AfterBlock
  <1>3. CASE ~ Closed(t)
    <2>1. Shown[t] = Before(t, First(t, Open))
      BY <1>3, ShownIs
    <2>2. Rest(TRUE, Block(t)) = <<>>
      BY <1>3 DEF Rest, Closed
    <2>3. Before(t, First(t, Open)) \o <<>> = Before(t, First(t, Open))
      BY <1>1, ConcatEmptySeq DEF Texts
    <2> QED BY <2>1, <2>2, <2>3 DEF Rest
  <1> QED BY <1>2, <1>3

\* A tag that the filter finds in its buffer is found, whatever follows.
LEMMA StepOfConsume ==
    ASSUME NEW f \in Filter, NEW c \in Texts, FoundAt(f) # 0
    PROVE  Rest(f.inside, f.buffer \o c) =
             (IF f.inside THEN <<>> ELSE Before(f.buffer, FoundAt(f)))
               \o Rest(~ f.inside, After(f).buffer \o c)
  <1>1. /\ Sought(f) \in Tags /\ f.buffer \in Texts /\ f.inside \in BOOLEAN
        /\ Before(f.buffer, FoundAt(f)) \in Texts /\ After(f).buffer \in Texts
    BY AfterShorter DEF Filter
  <1>2. /\ First(f.buffer \o c, Sought(f)) = FoundAt(f)
        /\ Before(f.buffer \o c, FoundAt(f)) = Before(f.buffer, FoundAt(f))
        /\ From(f.buffer \o c, FoundAt(f) + 2) = After(f).buffer \o c
    BY <1>1, FirstStays DEF FoundAt, After
  <1>3. f.buffer \o c \in Texts /\ After(f).buffer \o c \in Texts
    BY <1>1, Joined
  <1>4. CASE f.inside
    <2>1. Rest(f.inside, f.buffer \o c) = Shown[After(f).buffer \o c]
      BY <1>2, <1>4 DEF Rest, Sought
    <2>2. Rest(~ f.inside, After(f).buffer \o c) = Shown[After(f).buffer \o c]
      BY <1>4 DEF Rest
    <2>3. <<>> \o Shown[After(f).buffer \o c] = Shown[After(f).buffer \o c]
      BY <1>3, ShownIs, ConcatEmptySeq DEF Texts
    <2> QED BY <2>1, <2>2, <2>3, <1>4
  <1>5. CASE ~ f.inside
    <2>1. First(f.buffer \o c, Open) = FoundAt(f)
      BY <1>2, <1>5 DEF Sought
    <2>2. Rest(FALSE, f.buffer \o c) =
            Before(f.buffer \o c, FoundAt(f)) \o Rest(TRUE, From(f.buffer \o c, FoundAt(f) + 2))
      BY <2>1, <1>3, RestOutside DEF Block
    <2>3. f.inside = FALSE /\ ~ f.inside = TRUE
      BY <1>1, <1>5
    <2> QED BY <2>2, <2>3, <1>2
  <1> QED BY <1>4, <1>5

\* Of f with c to follow, the loop gives what it emits, and leaves the rest.
Exact(f, c) ==
    Rest(f.inside, f.buffer \o c) =
      Consume[f].out \o Rest(Consume[f].filter.inside, Consume[f].filter.buffer \o c)

\* The loop goes on until there is no tag.
LEMMA ConsumeIsExact ==
    ASSUME NEW c \in Texts
    PROVE  \A f \in Filter : Exact(f, c) /\ FoundAt(Consume[f].filter) = 0
  <1> DEFINE measure == [f \in Filter |-> Len(f.buffer)]
             Good == {f \in Filter : Exact(f, c) /\ FoundAt(Consume[f].filter) = 0}
  <1>1. measure \in [Filter -> Nat]
    BY LenProperties DEF Filter, Texts
  <1>2. ASSUME NEW f \in Filter,
               \A u \in Filter : measure[u] < measure[f] => u \in Good
        PROVE  Exact(f, c) /\ FoundAt(Consume[f].filter) = 0
    <2>1. f.buffer \in Texts /\ f.inside \in BOOLEAN /\ f.buffer \o c \in Texts
      BY Joined DEF Filter
    <2>2. CASE FoundAt(f) = 0
      <3>1. Consume[f] = [filter |-> f, out |-> <<>>]
        BY <2>2, ConsumeIs
      <3>2. Rest(f.inside, f.buffer \o c) \in Texts
        BY <2>1, RestText
      <3>3. <<>> \o Rest(f.inside, f.buffer \o c) = Rest(f.inside, f.buffer \o c)
        BY <3>2, ConcatEmptySeq DEF Texts
      <3>4. Consume[f].filter = f /\ Consume[f].out = <<>>
        BY <3>1
      <3> QED BY <3>3, <3>4, <2>2 DEF Exact
    <2>3. CASE FoundAt(f) # 0
      <3> DEFINE a == After(f)
                 r == Consume[After(f)]
                 p == Before(f.buffer, FoundAt(f))
      <3>1. a \in Good /\ a \in Filter /\ a.inside = (~ f.inside) /\ p \in Texts
        BY <2>3, <1>2, AfterShorter DEF After
      <3>2. /\ Rest(a.inside, a.buffer \o c) = r.out \o Rest(r.filter.inside, r.filter.buffer \o c)
            /\ FoundAt(r.filter) = 0
        BY <3>1 DEF Exact
      <3>3. Rest(f.inside, f.buffer \o c) =
              (IF f.inside THEN <<>> ELSE p) \o Rest(a.inside, a.buffer \o c)
        BY <2>3, <3>1, StepOfConsume
      <3>4. r \in Consumed /\ r.out \in Texts /\ r.filter \in Filter
            /\ r.filter.inside \in BOOLEAN /\ r.filter.buffer \in Texts
        BY <3>1, ConsumeIs DEF Consumed, Filter
      <3>5. Consume[f] = IF f.inside THEN r ELSE [filter |-> r.filter, out |-> p \o r.out]
        BY <2>3, ConsumeIs
      <3> HIDE DEF a, r, p
      <3>6. Rest(r.filter.inside, r.filter.buffer \o c) \in Texts
        BY <3>4, Joined, RestText
      <3> DEFINE q == Rest(r.filter.inside, r.filter.buffer \o c)
      <3>7. CASE f.inside
        <4>1. <<>> \o (r.out \o q) = r.out \o q
          <5>1. r.out \o q \in Texts
            BY <3>4, <3>6, Joined
          <5> QED BY <5>1, ConcatEmptySeq DEF Texts
        <4>2. Consume[f] = r
          BY <3>5, <3>7
        <4> QED BY <4>1, <4>2, <3>2, <3>3, <3>7 DEF Exact
      <3>8. CASE ~ f.inside
        <4>1. (p \o r.out) \o q = p \o (r.out \o q)
          BY <3>1, <3>4, <3>6, Associative, Zenon
        <4>2. Consume[f].filter = r.filter /\ Consume[f].out = p \o r.out
          BY <3>5, <3>8
        <4> QED BY <4>1, <4>2, <3>2, <3>3, <3>8 DEF Exact
      <3> QED BY <3>7, <3>8
    <2> QED BY <2>2, <2>3
  <1> HIDE DEF measure
  <1>3. Inherited(Filter, measure, Good)
    BY <1>1, <1>2 DEF Inherited
  <1>4. \A f \in Filter : f \in Good
    <2> HIDE DEF Good
    <2> QED BY <1>3, Induction
  <1> QED BY <1>4

LEMMA GreatestNat ==
    ASSUME NEW n \in Nat, NEW T, T \subseteq 1..n, T # {}
    PROVE  Max(T) \in T /\ \A m \in T : m <= Max(T)
  <1> DEFINE U == {n - m : m \in T}
  <1>1. U \subseteq Nat /\ U # {}
    <2>1. ASSUME NEW m \in T PROVE n - m \in Nat
      <3>1. m \in 1..n
        OBVIOUS
      <3> QED BY <3>1
    <2> QED BY <2>1
  <1>2. PICK u \in U : \A m \in U : u <= m
    BY <1>1, LeastNat
  <1>3. PICK x \in T : u = n - x
    BY <1>2
  <1>4. ASSUME NEW m \in T PROVE x >= m
    <2>1. n - x <= n - m
      BY <1>2, <1>3
    <2>2. x \in Int /\ m \in Int
      OBVIOUS
    <2> QED BY <2>1, <2>2
  <1>5. Max(T) \in T /\ \A m \in T : Max(T) >= m
    BY <1>3, <1>4 DEF Max
  <1> QED BY <1>5

\* A text whose beginning holds no tag, whatever follows: a filter outside shows
\* the beginning, one inside forgets it.
LEMMA RestMoves ==
    ASSUME NEW d \in Texts, NEW e \in Texts, NEW inside \in BOOLEAN,
           \A n \in 1..Len(d) : ~ At(d \o e, IF inside THEN Close ELSE Open, n)
    PROVE  Rest(inside, d \o e) = IF inside THEN Rest(TRUE, e) ELSE d \o Rest(FALSE, e)
  <1>1. Open \in Tags /\ Close \in Tags /\ d \o e \in Texts
    BY Joined DEF Tags
  <1>2. CASE inside
    <2>1. /\ First(e, Close) = 0 => First(d \o e, Close) = 0
          /\ First(e, Close) # 0 =>
               /\ First(d \o e, Close) = Len(d) + First(e, Close)
               /\ From(d \o e, First(d \o e, Close) + 2) = From(e, First(e, Close) + 2)
      BY <1>1, <1>2, FirstMoves
    <2>2. First(e, Close) # 0 => First(d \o e, Close) # 0
      <3>1. First(e, Close) \in Nat /\ Len(d) \in Nat
        BY <1>1, FirstAt, LenProperties DEF Texts
      <3> QED BY <2>1, <3>1
    <2> QED BY <2>1, <2>2, <1>2 DEF Rest
  <1>3. CASE ~ inside
    <2>1. /\ First(e, Open) = 0 => First(d \o e, Open) = 0
          /\ First(e, Open) # 0 =>
               /\ First(d \o e, Open) = Len(d) + First(e, Open)
               /\ Before(d \o e, First(d \o e, Open)) = d \o Before(e, First(e, Open))
               /\ From(d \o e, First(d \o e, Open) + 2) = From(e, First(e, Open) + 2)
      BY <1>1, <1>3, FirstMoves
    <2>2. CASE First(e, Open) = 0
      <3>1. Shown[e] = e /\ Shown[d \o e] = d \o e
        BY <2>1, <2>2, <1>1, ShownIs
      <3> QED BY <3>1, <1>3 DEF Rest
    <2>3. CASE First(e, Open) # 0
      <3>1. First(d \o e, Open) # 0
        <4>1. First(e, Open) \in Nat /\ Len(d) \in Nat
          BY <1>1, FirstAt, LenProperties DEF Texts
        <4> QED BY <2>1, <2>3, <4>1
      <3>2. Rest(FALSE, d \o e) = Before(d \o e, First(d \o e, Open)) \o Rest(TRUE, Block(d \o e))
        BY <3>1, <1>1, RestOutside
      <3>3. /\ Block(d \o e) = Block(e)
            /\ Before(d \o e, First(d \o e, Open)) = d \o Before(e, First(e, Open))
        BY <2>1, <2>3 DEF Block
      <3>4. Rest(FALSE, e) = Before(e, First(e, Open)) \o Rest(TRUE, Block(e))
        BY <2>3, RestOutside
      <3>5. (d \o Before(e, First(e, Open))) \o Rest(TRUE, Block(e)) =
              d \o (Before(e, First(e, Open)) \o Rest(TRUE, Block(e)))
        <4>1. Before(e, First(e, Open)) \in Texts /\ Block(e) \in Texts
          BY <2>3, <1>1, AfterTag DEF Block
        <4>2. Rest(TRUE, Block(e)) \in Texts
          BY <4>1, RestText
        <4> QED BY <4>1, <4>2, Associative, Zenon
      <3> QED BY <3>2, <3>3, <3>4, <3>5, <1>3
    <2> QED BY <2>2, <2>3
  <1> QED BY <1>2, <1>3

\* What a filter passes on of a buffer in which it finds no tag.
Passed(f, k) == IF f.inside THEN <<>> ELSE Before(f.buffer, k)

KeptFrom(f) == IF f.inside THEN Retained(f.buffer) ELSE HeldBack(f.buffer)

LEMMA KeptIs ==
    ASSUME NEW f \in Filter
    PROVE  KeptFrom(f) \in Nat \ {0} /\ KeptFrom(f) <= Len(f.buffer) + 1
  <1>1. f.buffer \in Texts /\ f.inside \in BOOLEAN /\ Len(f.buffer) \in Nat
        /\ DOMAIN f.buffer = 1..Len(f.buffer) /\ Retain \in Nat \ {0}
    BY LenProperties, RetainAssumption DEF Filter, Texts
  <1>2. CASE f.inside
    BY <1>1, <1>2 DEF KeptFrom, Retained
  <1>3. CASE ~ f.inside
    <2> DEFINE marks == {i \in DOMAIN f.buffer : f.buffer[i] = "<"}
    <2>1. marks \subseteq 1..Len(f.buffer)
      BY <1>1
    <2>2. KeptFrom(f) = IF marks = {} THEN Len(f.buffer) + 1 ELSE Max(marks)
      BY <1>3 DEF KeptFrom, HeldBack
    <2> HIDE DEF marks
    <2>3. CASE marks = {}
      BY <2>2, <2>3, <1>1
    <2>4. CASE marks # {}
      <3>1. Max(marks) \in marks
        BY <2>1, <2>4, <1>1, GreatestNat
      <3>2. KeptFrom(f) \in 1..Len(f.buffer)
        BY <3>1, <2>1, <2>2, <2>4
      <3> QED BY <3>2, <1>1
    <2> QED BY <2>3, <2>4
  <1> QED BY <1>2, <1>3

\* No tag begins in what is not kept, even one that the next chunk completes.
LEMMA KeptIsEnough ==
    ASSUME NEW f \in Filter, FoundAt(f) = 0, NEW c \in Texts, NEW n \in 1..(KeptFrom(f) - 1)
    PROVE  ~ At(f.buffer \o c, Sought(f), n)
  <1>1. f.buffer \in Texts /\ f.inside \in BOOLEAN /\ Len(f.buffer) \in Nat
        /\ DOMAIN f.buffer = 1..Len(f.buffer) /\ Retain \in Nat \ {0} /\ Sought(f) \in Tags
    BY LenProperties, RetainAssumption, AfterShorter DEF Filter, Texts
  <1>2. KeptFrom(f) \in Nat \ {0} /\ KeptFrom(f) <= Len(f.buffer) + 1
    BY KeptIs
  <1>3. ASSUME n \in 1..(Len(f.buffer) - 1) PROVE ~ At(f.buffer \o c, Sought(f), n)
    <2>1. ~ At(f.buffer, Sought(f), n)
      BY <1>1, <1>3, FirstAt DEF FoundAt
    <2> QED BY <2>1, <1>1, <1>3, AtFirst
  <1>4. CASE f.inside
    <2>1. n \in 1..(Len(f.buffer) - 1)
      BY <1>1, <1>4 DEF KeptFrom, Retained
    <2> QED BY <2>1, <1>3
  <1>5. CASE ~ f.inside
    <2> DEFINE marks == {i \in DOMAIN f.buffer : f.buffer[i] = "<"}
    <2>1. marks \subseteq 1..Len(f.buffer)
      BY <1>1
    <2>2. KeptFrom(f) = IF marks = {} THEN Len(f.buffer) + 1 ELSE Max(marks)
      BY <1>5 DEF KeptFrom, HeldBack
    <2>3. SUFFICES ASSUME n = Len(f.buffer), At(f.buffer \o c, Sought(f), n) PROVE FALSE
      BY <1>1, <1>2, <1>3
    <2>4. n \in 1..Len(f.buffer) /\ (f.buffer \o c)[n] = f.buffer[n]
      BY <2>3, <1>1, <1>2, Joined
    <2>5. f.buffer[n] = "<"
      BY <2>3, <2>4, <1>1, TagSymbols DEF At
    <2>6. n \in marks
      BY <2>4, <2>5, <1>1
    <2> HIDE DEF marks
    <2>7. KeptFrom(f) = Max(marks) /\ Max(marks) \in marks
      BY <2>1, <2>2, <2>6, <1>1, GreatestNat
    <2>8. KeptFrom(f) \in 1..Len(f.buffer)
      BY <2>1, <2>7
    <2> QED BY <2>3, <2>8, <1>1
  <1> QED BY <1>4, <1>5

LEMMA KeptIsExact ==
    ASSUME NEW f \in Filter, FoundAt(f) = 0, NEW c \in Texts
    PROVE  /\ Passed(f, KeptFrom(f)) \in Texts /\ From(f.buffer, KeptFrom(f)) \in Texts
           /\ Rest(f.inside, f.buffer \o c) =
                Passed(f, KeptFrom(f)) \o Rest(f.inside, From(f.buffer, KeptFrom(f)) \o c)
  <1> DEFINE d == Before(f.buffer, KeptFrom(f))
             e == From(f.buffer, KeptFrom(f)) \o c
  <1>1. f.buffer \in Texts /\ f.inside \in BOOLEAN /\ KeptFrom(f) \in Nat \ {0}
        /\ KeptFrom(f) <= Len(f.buffer) + 1
    BY KeptIs DEF Filter
  <1>2. /\ d \in Texts /\ From(f.buffer, KeptFrom(f)) \in Texts
        /\ Len(d) = KeptFrom(f) - 1
        /\ f.buffer = d \o From(f.buffer, KeptFrom(f))
    BY <1>1, Parts
  <1>3. e \in Texts /\ d \o e = f.buffer \o c
    <2>1. (d \o From(f.buffer, KeptFrom(f))) \o c = d \o e
      BY <1>2, Associative, Zenon
    <2> QED BY <2>1, <1>2, Joined
  <1>4. ASSUME NEW n \in 1..Len(d)
        PROVE  ~ At(d \o e, IF f.inside THEN Close ELSE Open, n)
    <2>1. n \in 1..(KeptFrom(f) - 1)
      BY <1>2
    <2>2. ~ At(f.buffer \o c, Sought(f), n)
      BY <2>1, KeptIsEnough
    <2> QED BY <2>2, <1>3 DEF Sought
  <1>5. Passed(f, KeptFrom(f)) = (IF f.inside THEN <<>> ELSE d) /\ <<>> \in Texts
    BY NoTag, EmptySeq DEF Passed, Texts
  <1> HIDE DEF d, e
  <1>6. Rest(f.inside, d \o e) = IF f.inside THEN Rest(TRUE, e) ELSE d \o Rest(FALSE, e)
    BY <1>1, <1>2, <1>3, <1>4, RestMoves
  <1>7. <<>> \o Rest(TRUE, e) = Rest(TRUE, e)
    BY <1>3, RestText, ConcatEmptySeq DEF Texts
  <1>8. Rest(f.inside, d \o e) = Passed(f, KeptFrom(f)) \o Rest(f.inside, e)
    BY <1>1, <1>5, <1>6, <1>7
  <1>9. Passed(f, KeptFrom(f)) \in Texts
    BY <1>2, <1>5
  <1> QED BY <1>2, <1>3, <1>8, <1>9 DEF e

\* The filter after the loop of feed.
Looped(f, chunk) == Consume[[f EXCEPT !.buffer = f.buffer \o chunk]]

LEMMA LoopedIs ==
    ASSUME NEW f \in Filter, NEW chunk \in Texts, NEW c \in Texts
    PROVE  /\ Looped(f, chunk).filter \in Filter /\ Looped(f, chunk).out \in Texts
           /\ FoundAt(Looped(f, chunk).filter) = 0
           /\ Rest(f.inside, f.buffer \o (chunk \o c)) =
                Looped(f, chunk).out
                  \o Rest(Looped(f, chunk).filter.inside, Looped(f, chunk).filter.buffer \o c)
  <1> DEFINE g == [f EXCEPT !.buffer = f.buffer \o chunk]
  <1>1. f.buffer \in Texts /\ f.inside \in BOOLEAN
    BY DEF Filter
  <1>2. f.buffer \o chunk \in Texts /\ (f.buffer \o chunk) \o c = f.buffer \o (chunk \o c)
    <2>1. (f.buffer \o chunk) \o c = f.buffer \o (chunk \o c)
      BY <1>1, Associative, Zenon
    <2> QED BY <2>1, <1>1, Joined
  <1>3. g \in Filter /\ g.inside = f.inside /\ g.buffer = f.buffer \o chunk
    BY <1>1, <1>2 DEF Filter
  <1>4. Looped(f, chunk) = Consume[g]
    BY DEF Looped
  <1> HIDE DEF g
  <1>5. Consume[g] \in Consumed
    BY <1>3, ConsumeIs
  <1>6. Exact(g, c) /\ FoundAt(Consume[g].filter) = 0
    BY <1>3, ConsumeIsExact
  <1> QED BY <1>2, <1>3, <1>4, <1>5, <1>6 DEF Exact, Consumed

\* feed in these terms.
LEMMA FeedIs ==
    ASSUME NEW f \in Filter, NEW chunk \in Texts
    PROVE  /\ Feed(f, chunk, FALSE).filter =
                [Looped(f, chunk).filter EXCEPT
                   !.buffer = From(Looped(f, chunk).filter.buffer,
                                   KeptFrom(Looped(f, chunk).filter))]
           /\ Feed(f, chunk, FALSE).out =
                Looped(f, chunk).out
                  \o Passed(Looped(f, chunk).filter, KeptFrom(Looped(f, chunk).filter))
           /\ Feed(f, chunk, TRUE).out =
                IF Looped(f, chunk).filter.inside THEN Looped(f, chunk).out
                ELSE Looped(f, chunk).out \o Looped(f, chunk).filter.buffer
  <1> DEFINE l == Looped(f, chunk)
  <1>1. <<>> \in Texts
    BY EmptySeq DEF Texts
  <1>2. l.out \in Texts /\ l.filter \in Filter
    BY <1>1, LoopedIs
  <1>3. l.out \o <<>> = l.out
    BY <1>2, ConcatEmptySeq DEF Texts
  <1> QED BY <1>3 DEF Feed, Looped, KeptFrom, Passed

\* What the filter has passed on and what it will show of its buffer and the text
\* to come are what the whole text shows, however the text is cut into chunks.
LEMMA FeedIsExact ==
    ASSUME NEW f \in Filter, NEW chunk \in Texts
    PROVE  /\ Feed(f, chunk, FALSE).filter \in Filter
           /\ Feed(f, chunk, FALSE).out \in Texts
           /\ \A c \in Texts :
                Rest(f.inside, f.buffer \o (chunk \o c)) =
                  Feed(f, chunk, FALSE).out
                    \o Rest(Feed(f, chunk, FALSE).filter.inside,
                            Feed(f, chunk, FALSE).filter.buffer \o c)
  <1> DEFINE l == Looped(f, chunk)
             h == l.filter
             g == Feed(f, chunk, FALSE)
  <1>1. <<>> \in Texts
    BY EmptySeq DEF Texts
  <1>2. h \in Filter /\ l.out \in Texts /\ FoundAt(h) = 0
    BY <1>1, LoopedIs
  <1>3. /\ g.filter = [h EXCEPT !.buffer = From(h.buffer, KeptFrom(h))]
        /\ g.out = l.out \o Passed(h, KeptFrom(h))
    BY FeedIs
  <1>4. \A c \in Texts :
          Rest(f.inside, f.buffer \o (chunk \o c)) = l.out \o Rest(h.inside, h.buffer \o c)
    BY LoopedIs
  <1> HIDE DEF l, g, h
  <1>5. /\ Passed(h, KeptFrom(h)) \in Texts
        /\ From(h.buffer, KeptFrom(h)) \in Texts
        /\ h.inside \in BOOLEAN
    BY <1>1, <1>2, KeptIsExact DEF Filter
  <1>6. /\ g.filter \in Filter /\ g.filter.inside = h.inside
        /\ g.filter.buffer = From(h.buffer, KeptFrom(h))
    BY <1>2, <1>3, <1>5 DEF Filter
  <1>7. g.out \in Texts
    BY <1>2, <1>3, <1>5, Joined
  <1>8. ASSUME NEW c \in Texts
        PROVE  Rest(f.inside, f.buffer \o (chunk \o c)) =
                 g.out \o Rest(g.filter.inside, g.filter.buffer \o c)
    <2> DEFINE p == Passed(h, KeptFrom(h))
               q == Rest(h.inside, From(h.buffer, KeptFrom(h)) \o c)
    <2>1. Rest(h.inside, h.buffer \o c) = p \o q
      BY <1>2, KeptIsExact
    <2>2. p \in Texts /\ q \in Texts
      BY <1>5, Joined, RestText
    <2> HIDE DEF p, q
    <2>3. (l.out \o p) \o q = l.out \o (p \o q)
      BY <1>2, <2>2, Associative, Zenon
    <2> QED BY <2>1, <2>3, <1>3, <1>4, <1>6 DEF p, q
  <1> QED BY <1>6, <1>7, <1>8 DEF g

\* The last call gives all that is left to show.
LEMMA FeedAtEnd ==
    ASSUME NEW f \in Filter
    PROVE  Feed(f, <<>>, TRUE).out = Rest(f.inside, f.buffer \o <<>>)
  <1> DEFINE l == Looped(f, <<>>)
             h == l.filter
  <1>1. <<>> \in Texts /\ <<>> \o <<>> = <<>>
    BY EmptySeq, ConcatEmptySeq DEF Texts
  <1>2. h \in Filter /\ l.out \in Texts /\ FoundAt(h) = 0
    BY <1>1, LoopedIs
  <1>3. Rest(f.inside, f.buffer \o <<>>) = l.out \o Rest(h.inside, h.buffer \o <<>>)
    <2>1. Rest(f.inside, f.buffer \o (<<>> \o <<>>)) = l.out \o Rest(h.inside, h.buffer \o <<>>)
      BY <1>1, LoopedIs
    <2> QED BY <2>1, <1>1
  <1>4. Feed(f, <<>>, TRUE).out = IF h.inside THEN l.out ELSE l.out \o h.buffer
    BY <1>1, FeedIs
  <1> HIDE DEF l, h
  <1>5. h.buffer \in Texts /\ h.inside \in BOOLEAN /\ h.buffer \o <<>> = h.buffer
    BY <1>2, ConcatEmptySeq DEF Filter, Texts
  <1>6. CASE h.inside
    <2>1. Rest(h.inside, h.buffer) = <<>>
      BY <1>2, <1>6 DEF Rest, FoundAt, Sought
    <2>2. l.out \o <<>> = l.out
      BY <1>2, ConcatEmptySeq DEF Texts
    <2> QED BY <2>1, <2>2, <1>3, <1>4, <1>5, <1>6
  <1>7. CASE ~ h.inside
    <2>1. Rest(h.inside, h.buffer) = h.buffer
      BY <1>2, <1>5, <1>7, ShownIs DEF Rest, FoundAt, Sought
    <2> QED BY <2>1, <1>3, <1>4, <1>5, <1>7
  <1> QED BY <1>6, <1>7

(***************************************************************************)
(* The prompt.                                                             *)
(***************************************************************************)

LEMMA SameInterval ==
    \A m \in Nat, n \in Nat : 1..m = 1..n => m = n
  <1>1. ASSUME NEW m \in Nat, NEW n \in Nat, 1..m = 1..n, m < n PROVE FALSE
    <2>1. n \in 1..n /\ n \notin 1..m
      BY <1>1
    <2> QED BY <2>1, <1>1
  <1>2. ASSUME NEW m \in Nat, NEW n \in Nat, 1..m = 1..n PROVE m = n
    <2>1. ~ (m < n) /\ ~ (n < m)
      BY <1>1, <1>2
    <2> QED BY <2>1
  <1> QED BY <1>2

LEMMA FrontIs ==
    ASSUME NEW S, NEW s \in Seq(S), s # <<>>
    PROVE  /\ Front(s) \in Seq(S) /\ Last(s) \in S
           /\ Len(s) \in Nat \ {0} /\ Len(Front(s)) = Len(s) - 1
  <1>1. Len(s) \in Nat \ {0}
    BY EmptySeq
  <1>2. \A i \in 1..Len(s) : s[i] \in S
    BY ElementOfSeq
  <1>3. /\ SubSeq(s, 1, Len(s) - 1) \in Seq(S)
        /\ Len(SubSeq(s, 1, Len(s) - 1)) = IF 1 <= Len(s) - 1 THEN (Len(s) - 1) - 1 + 1 ELSE 0
    <2>1. \A i \in 1..(Len(s) - 1) : s[i] \in S
      BY <1>1, <1>2
    <2> QED BY <2>1, <1>1, SubSeqProperties
  <1>4. Len(SubSeq(s, 1, Len(s) - 1)) = Len(s) - 1
    <2>1. CASE 1 <= Len(s) - 1
      BY <2>1, <1>1, <1>3
    <2>2. CASE ~ (1 <= Len(s) - 1)
      <3>1. Len(s) - 1 = 0
        <4>1. \A n \in Nat \ {0} : ~ (1 <= n - 1) => n - 1 = 0
          OBVIOUS
        <4> QED BY <4>1, <2>2, <1>1
      <3>2. Len(SubSeq(s, 1, Len(s) - 1)) = 0
        BY <2>2, <1>3
      <3> QED BY <3>1, <3>2
    <2> QED BY <2>1, <2>2
  <1>5. Last(s) \in S
    BY <1>1, <1>2 DEF Last
  <1> QED BY <1>1, <1>3, <1>4, <1>5 DEF Front

LEMMA FrontNat ==
    \A s \in Seq(Nat) : s # <<>> =>
      /\ Front(s) \in Seq(Nat) /\ Last(s) \in Nat
      /\ Len(s) \in Nat /\ Len(Front(s)) \in Nat /\ Len(Front(s)) < Len(s)
  <1>1. ASSUME NEW s \in Seq(Nat), s # <<>>
        PROVE  /\ Front(s) \in Seq(Nat) /\ Last(s) \in Nat
               /\ Len(s) \in Nat \ {0} /\ Len(Front(s)) = Len(s) - 1
    BY <1>1, FrontIs
  <1> QED BY <1>1

\* What the definition of Tokens says of it.
LEMMA TokensIs ==
    /\ Tokens \in [Seq(Nat) -> Nat]
    /\ \A s \in Seq(Nat) : Tokens[s] = IF s = <<>> THEN 0 ELSE Last(s) + Tokens[Front(s)]
  <1> DEFINE Stop == {<<>>}
             base == [s \in Seq(Nat) |-> 0]
             next == [s \in Seq(Nat) |-> IF s = <<>> THEN s ELSE Front(s)]
             combine == [p \in Seq(Nat) \X Nat |-> IF p[1] = <<>> THEN p[2] ELSE Last(p[1]) + p[2]]
             measure == [s \in Seq(Nat) |-> Len(s)]
  <1>1. base \in [Seq(Nat) -> Nat]
    OBVIOUS
  <1>2. next \in [Seq(Nat) -> Seq(Nat)]
    BY FrontNat
  <1>3. combine \in [Seq(Nat) \X Nat -> Nat]
    BY FrontNat
  <1>4. measure \in [Seq(Nat) -> Nat]
    BY LenProperties
  <1>5. \A s \in Seq(Nat) : s \notin Stop => measure[next[s]] < measure[s]
    <2>1. ASSUME NEW s \in Seq(Nat), s # <<>> PROVE measure[next[s]] < measure[s]
      <3>1. next[s] = Front(s) /\ Front(s) \in Seq(Nat)
        BY <2>1, FrontNat
      <3>2. measure[next[s]] = Len(Front(s)) /\ measure[s] = Len(s)
        BY <3>1
      <3> QED BY <3>2, <2>1, FrontNat
    <2> QED BY <2>1
  <1>6. PICK F \in [Seq(Nat) -> Nat] : \A s \in Seq(Nat) :
          F[s] = IF s \in Stop THEN base[s] ELSE combine[<<s, F[next[s]]>>]
    <2>1. Descends(Seq(Nat), Nat, Stop, base, next, combine, measure)
      <3> HIDE DEF Stop, base, next, combine, measure
      <3> QED BY <1>1, <1>2, <1>3, <1>4, <1>5 DEF Descends
    <2> HIDE DEF Stop, base, next, combine, measure
    <2> QED BY <2>1, Recursion
  <1>7. ASSUME NEW s \in Seq(Nat)
        PROVE  F[s] = IF s = <<>> THEN 0 ELSE Last(s) + F[Front(s)]
    <2>1. CASE s = <<>>
      BY <2>1, <1>6
    <2>2. CASE s # <<>>
      <3>1. F[Front(s)] \in Nat /\ next[s] = Front(s) /\ s \notin Stop
        BY <2>2, FrontNat
      <3>2. F[s] = combine[<<s, F[Front(s)]>>]
        BY <3>1, <1>6
      <3>3. combine[<<s, F[Front(s)]>>] = Last(s) + F[Front(s)]
        BY <3>1, <2>2
      <3> QED BY <3>2, <3>3, <2>2
    <2> QED BY <2>1, <2>2
  <1>8. F = [sizes \in Seq(Nat) |-> IF sizes = <<>> THEN 0 ELSE Last(sizes) + F[Front(sizes)]]
    BY <1>7
  <1>9. Tokens = [sizes \in Seq(Nat) |->
                    IF sizes = <<>> THEN 0 ELSE Last(sizes) + Tokens[Front(sizes)]]
    <2> HIDE DEF Stop, base, next, combine, measure
    <2> QED BY <1>8 DEF Tokens
  <1> HIDE DEF Stop, base, next, combine
  <1>10. \A s \in Seq(Nat) : Tokens[s] = IF s = <<>> THEN 0 ELSE Last(s) + Tokens[Front(s)]
    BY <1>9
  <1> DEFINE Good == {s \in Seq(Nat) : Tokens[s] \in Nat}
  <1>11. ASSUME NEW s \in Seq(Nat),
                \A r \in Seq(Nat) : measure[r] < measure[s] => r \in Good
         PROVE  s \in Good
    <2>1. CASE s = <<>>
      <3>1. Tokens[s] = IF s = <<>> THEN 0 ELSE Last(s) + Tokens[Front(s)]
        BY <1>10
      <3>2. Tokens[s] \in Nat
        BY <3>1, <2>1
      <3> QED BY <3>2
    <2>2. CASE s # <<>>
      <3>1. Front(s) \in Seq(Nat) /\ measure[Front(s)] < measure[s] /\ Last(s) \in Nat
        BY <2>2, FrontNat
      <3>2. Tokens[Front(s)] \in Nat
        BY <3>1, <1>11
      <3>3. Tokens[s] = Last(s) + Tokens[Front(s)]
        BY <2>2, <1>10
      <3>4. Tokens[s] \in Nat
        BY <3>1, <3>2, <3>3
      <3> QED BY <3>4
    <2> QED BY <2>1, <2>2
  <1> HIDE DEF measure, Good
  <1>12. Inherited(Seq(Nat), measure, Good)
    BY <1>4, <1>11 DEF Inherited
  <1>13. \A s \in Seq(Nat) : s \in Good
    BY <1>12, Induction
  <1>14. \A s \in Seq(Nat) : Tokens[s] \in Nat
    BY <1>13 DEF Good
  <1> QED BY <1>9, <1>10, <1>14

\* The sizes of the results that are chosen.
Sizes(rs, chosen) == [i \in DOMAIN chosen |-> rs[chosen[i]].size]

LEMMA SizesIs ==
    ASSUME NEW rs \in Seq(Result), NEW chosen \in Seq(DOMAIN rs)
    PROVE  /\ Sizes(rs, chosen) \in Seq(Nat)
           /\ Len(chosen) \in Nat /\ DOMAIN chosen = 1..Len(chosen)
           /\ \A i \in DOMAIN chosen : chosen[i] \in DOMAIN rs /\ rs[chosen[i]] \in Result
           /\ Len(Sizes(rs, chosen)) = Len(chosen)
           /\ Used(rs, chosen) = Tokens[Sizes(rs, chosen)] /\ Used(rs, chosen) \in Nat
  <1>1. Len(chosen) \in Nat /\ DOMAIN chosen = 1..Len(chosen)
    BY LenProperties
  <1>2. \A k \in DOMAIN rs : rs[k] \in Result
    BY LenProperties
  <1>3. \A i \in DOMAIN chosen : chosen[i] \in DOMAIN rs /\ rs[chosen[i]] \in Result
    BY <1>1, <1>2, ElementOfSeq
  <1>4. Sizes(rs, chosen) \in [1..Len(chosen) -> Nat]
    BY <1>1, <1>3 DEF Sizes, Result
  <1>5. Sizes(rs, chosen) \in Seq(Nat) /\ Len(Sizes(rs, chosen)) = Len(chosen)
    <2>1. Sizes(rs, chosen) \in Seq(Nat)
      <3>1. \E n \in Nat : Sizes(rs, chosen) \in [1..n -> Nat]
        BY <1>1, <1>4
      <3> QED BY <3>1, SeqDef
    <2>2. DOMAIN Sizes(rs, chosen) = 1..Len(Sizes(rs, chosen)) /\ Len(Sizes(rs, chosen)) \in Nat
      BY <2>1, LenProperties
    <2>3. 1..Len(Sizes(rs, chosen)) = 1..Len(chosen)
      BY <2>2, <1>4
    <2>4. Len(Sizes(rs, chosen)) = Len(chosen)
      BY <2>2, <2>3, <1>1, SameInterval
    <2> QED BY <2>1, <2>4
  <1>6. Used(rs, chosen) = Tokens[Sizes(rs, chosen)]
    BY DEF Used, Sizes
  <1> QED BY <1>1, <1>3, <1>5, <1>6, TokensIs

\* One more result costs its size.
LEMMA UsedAppend ==
    ASSUME NEW rs \in Seq(Result), NEW chosen \in Seq(DOMAIN rs), NEW k \in DOMAIN rs
    PROVE  /\ Append(chosen, k) \in Seq(DOMAIN rs)
           /\ Used(rs, Append(chosen, k)) = Used(rs, chosen) + rs[k].size
  <1> DEFINE s == Sizes(rs, chosen)
             t == Sizes(rs, Append(chosen, k))
  <1>1. /\ Append(chosen, k) \in Seq(DOMAIN rs)
        /\ Len(Append(chosen, k)) = Len(chosen) + 1
        /\ \A i \in 1..Len(chosen) : Append(chosen, k)[i] = chosen[i]
        /\ Append(chosen, k)[Len(chosen) + 1] = k
    BY AppendProperties
  <1>2. /\ s \in Seq(Nat) /\ Len(chosen) \in Nat /\ DOMAIN chosen = 1..Len(chosen)
        /\ Len(s) = Len(chosen)
        /\ Used(rs, chosen) = Tokens[s] /\ Used(rs, chosen) \in Nat
    BY SizesIs
  <1>3. /\ t \in Seq(Nat) /\ DOMAIN Append(chosen, k) = 1..(Len(chosen) + 1)
        /\ Len(t) = Len(chosen) + 1
        /\ Used(rs, Append(chosen, k)) = Tokens[t]
    BY <1>1, SizesIs
  <1>4. t[Len(chosen) + 1] = rs[k].size /\ \A i \in 1..Len(chosen) : t[i] = s[i]
    BY <1>1, <1>2, <1>3 DEF Sizes
  <1> HIDE DEF s, t
  <1>5. t # <<>> /\ Last(t) = rs[k].size
    BY <1>2, <1>3, <1>4, EmptySeq DEF Last
  <1>6. Front(t) = s
    <2>1. Front(t) \in Seq(Nat) /\ Len(Front(t)) = Len(s)
      <3>1. Front(t) \in Seq(Nat) /\ Len(Front(t)) = Len(t) - 1
        BY <1>3, <1>5, FrontIs
      <3> QED BY <3>1, <1>2, <1>3
    <2>2. ASSUME NEW i \in 1..Len(s) PROVE Front(t)[i] = s[i]
      <3>1. \A j \in 1..Len(s) : t[j] \in Nat
        <4>1. \A j \in 1..Len(t) : t[j] \in Nat
          BY <1>3, ElementOfSeq
        <4> QED BY <4>1, <1>2, <1>3
      <3>2. \A j \in 1..(Len(s) - 1 + 1) : SubSeq(t, 1, Len(s))[j] = t[1 + j - 1]
        BY <3>1, <1>2, SubSeqProperties
      <3>3. SubSeq(t, 1, Len(s))[i] = t[i]
        BY <3>2, <1>2
      <3>4. Front(t) = SubSeq(t, 1, Len(s))
        BY <1>2, <1>3 DEF Front
      <3> QED BY <3>3, <3>4, <1>2, <1>4
    <2> QED BY <2>1, <2>2, <1>2, SeqEqual
  <1>7. Tokens[t] = Last(t) + Tokens[Front(t)]
    BY <1>3, <1>5, TokensIs
  <1>8. rs[k].size \in Nat
    <2>1. DOMAIN rs = 1..Len(rs)
      BY LenProperties
    <2>2. rs[k] \in Result
      BY <2>1, ElementOfSeq
    <2> QED BY <2>2 DEF Result
  <1> QED BY <1>1, <1>2, <1>3, <1>5, <1>6, <1>7, <1>8

\* A selection among the first k results.
Selected(rs, c, k) ==
    /\ c \in Seq(DOMAIN rs)
    /\ \A i \in DOMAIN c : c[i] <= k /\ rs[c[i]].eligible
    /\ \A i, j \in DOMAIN c : i < j =>
         c[i] < c[j] /\ rs[c[i]].class # rs[c[j]].class
    /\ c # <<>> => FixedTokens + Used(rs, c) <= MaxPrompt
    /\ Used(rs, c) <= MaxEvidence

\* The loop of build keeps its selection sound, result by result.
LEMMA SelectedNone ==
    ASSUME NEW rs \in Seq(Result) PROVE Selected(rs, <<>>, 0)
  <1>1. <<>> \in Seq(DOMAIN rs) /\ DOMAIN (<<>>) = {} /\ Len(<<>>) = 0
    BY EmptySeq
  <1>2. Used(rs, <<>>) = 0
    <2>1. Sizes(rs, <<>>) \in Seq(Nat) /\ Len(Sizes(rs, <<>>)) = 0
      BY <1>1, SizesIs
    <2>2. Sizes(rs, <<>>) = <<>>
      BY <2>1, EmptySeq
    <2>3. Used(rs, <<>>) = Tokens[Sizes(rs, <<>>)]
      BY <1>1, SizesIs
    <2> QED BY <2>1, <2>2, <2>3, TokensIs
  <1>3. MaxEvidence \in Nat
    BY AnswerAssumption
  <1> QED BY <1>1, <1>2, <1>3 DEF Selected

LEMMA SelectedMore ==
    ASSUME NEW rs \in Seq(Result), NEW k \in DOMAIN rs, NEW c, Selected(rs, c, k - 1)
    PROVE  Selected(rs, IF Taken(rs, c, k) THEN Append(c, k) ELSE c, k)
  <1>1. /\ c \in Seq(DOMAIN rs) /\ Len(c) \in Nat /\ DOMAIN c = 1..Len(c)
        /\ \A i \in DOMAIN c : c[i] \in DOMAIN rs
        /\ DOMAIN rs \subseteq Nat /\ k \in Nat
    BY SizesIs, LenProperties DEF Selected
  <1>2. CASE ~ Taken(rs, c, k)
    <2>1. \A i \in DOMAIN c : c[i] <= k
      <3>1. \A i \in DOMAIN c : c[i] \in Nat /\ c[i] <= k - 1
        BY <1>1 DEF Selected
      <3> QED BY <3>1, <1>1
    <2> QED BY <1>2, <2>1 DEF Selected
  <1>3. CASE Taken(rs, c, k)
    <2> DEFINE d == Append(c, k)
    <2>1. /\ d \in Seq(DOMAIN rs) /\ Len(d) = Len(c) + 1
          /\ \A i \in 1..Len(c) : d[i] = c[i]
          /\ d[Len(c) + 1] = k
      BY <1>1, AppendProperties
    <2>2. DOMAIN d = 1..(Len(c) + 1)
      BY <2>1, <1>1, LenProperties
    <2>3. Used(rs, d) = Used(rs, c) + rs[k].size
      BY <1>1, UsedAppend
    <2> HIDE DEF d
    <2>4. ASSUME NEW i \in DOMAIN d PROVE d[i] <= k /\ rs[d[i]].eligible
      <3>1. CASE i \in 1..Len(c)
        <4>1. c[i] <= k - 1 /\ c[i] \in Nat /\ rs[c[i]].eligible
          BY <3>1, <1>1 DEF Selected
        <4> QED BY <3>1, <4>1, <2>1, <1>1
      <3>2. CASE i = Len(c) + 1
        BY <3>2, <2>1, <1>1, <1>3 DEF Taken
      <3> QED BY <3>1, <3>2, <2>2, <1>1
    <2>5. ASSUME NEW i \in DOMAIN d, NEW j \in DOMAIN d, i < j
          PROVE  d[i] < d[j] /\ rs[d[i]].class # rs[d[j]].class
      <3>1. i \in 1..Len(c) /\ d[i] = c[i] /\ c[i] \in Nat /\ c[i] <= k - 1
        BY <2>1, <2>2, <2>5, <1>1 DEF Selected
      <3>2. CASE j \in 1..Len(c)
        BY <3>1, <3>2, <2>1, <2>5, <1>1 DEF Selected
      <3>3. CASE j = Len(c) + 1
        <4>1. rs[c[i]].class # rs[k].class
          BY <3>1, <1>1, <1>3 DEF Taken, Duplicate
        <4> QED BY <4>1, <3>1, <3>3, <2>1, <1>1
      <3> QED BY <3>2, <3>3, <2>2, <1>1
    <2>6. FixedTokens + Used(rs, d) <= MaxPrompt /\ Used(rs, d) <= MaxEvidence
      <3>1. Used(rs, c) \in Nat /\ rs[k] \in Result /\ FixedTokens \in Nat
        BY <1>1, SizesIs, LenProperties, AnswerAssumption
      <3>2. rs[k].size \in Nat
        BY <3>1 DEF Result
      <3> QED BY <3>1, <3>2, <2>3, <1>3 DEF Taken, Fits
    <2>7. Selected(rs, d, k)
      BY <2>1, <2>4, <2>5, <2>6 DEF Selected
    <2> QED BY <2>7, <1>3 DEF d
  <1> QED BY <1>2, <1>3

LEMMA ChooseIs ==
    ASSUME NEW rs \in Seq(Result)
    PROVE  Selected(rs, Choose(rs), Len(rs))
  <1> DEFINE K == 0..Len(rs)
             V == Seq(Nat)
             Step(c, k) == IF Taken(rs, c, k) THEN Append(c, k) ELSE c
             Stop == {0}
             base == [k \in K |-> <<>>]
             next == [k \in K |-> IF k = 0 THEN 0 ELSE k - 1]
             combine == [p \in K \X V |-> Step(p[2], p[1])]
             measure == [k \in K |-> k]
  <1>1. Len(rs) \in Nat /\ DOMAIN rs = 1..Len(rs)
    BY LenProperties
  <1>2. base \in [K -> V] /\ next \in [K -> K] /\ measure \in [K -> Nat]
    BY <1>1, EmptySeq
  <1>3. combine \in [K \X V -> V]
    <2>1. ASSUME NEW k \in K, NEW c \in V PROVE Step(c, k) \in V
      <3>1. Append(c, k) \in Seq(Nat)
        BY <1>1, AppendProperties
      <3> QED BY <3>1
    <2> HIDE DEF Step, V
    <2> QED BY <2>1
  <1>4. \A k \in K : k \notin Stop => measure[next[k]] < measure[k]
    BY <1>1
  <1>5. PICK F \in [K -> V] : \A k \in K :
          F[k] = IF k \in Stop THEN base[k] ELSE combine[<<k, F[next[k]]>>]
    <2>1. Descends(K, V, Stop, base, next, combine, measure)
      <3> HIDE DEF K, V, Stop, base, next, combine, measure
      <3> QED BY <1>2, <1>3, <1>4 DEF Descends
    <2> HIDE DEF K, V, Stop, base, next, combine, measure
    <2> QED BY <2>1, Recursion
  <1>6. ASSUME NEW k \in K
        PROVE  F[k] = IF k = 0 THEN <<>> ELSE Step(F[k - 1], k)
    <2>1. CASE k = 0
      BY <2>1, <1>5
    <2>2. CASE k # 0
      <3>1. k - 1 \in K /\ next[k] = k - 1 /\ k \notin Stop /\ F[k - 1] \in V
        <4>1. k - 1 \in K /\ next[k] = k - 1 /\ k \notin Stop
          BY <2>2, <1>1
        <4> HIDE DEF K, V
        <4> QED BY <4>1
      <3>2. F[k] = combine[<<k, F[k - 1]>>]
        BY <3>1, <1>5
      <3>3. combine[<<k, F[k - 1]>>] = Step(F[k - 1], k)
        BY <3>1
      <3> HIDE DEF Step
      <3> QED BY <3>2, <3>3, <2>2
    <2> QED BY <2>1, <2>2
  <1>7. F = [k \in 0..Len(rs) |->
               IF k = 0 THEN <<>>
               ELSE IF Taken(rs, F[k - 1], k) THEN Append(F[k - 1], k)
               ELSE F[k - 1]]
    BY <1>6
  <1>8. PICK G : /\ G = [k \in 0..Len(rs) |->
                           IF k = 0 THEN <<>>
                           ELSE IF Taken(rs, G[k - 1], k) THEN Append(G[k - 1], k)
                           ELSE G[k - 1]]
                 /\ Choose(rs) = G[Len(rs)]
    <2> HIDE DEF K, V, Step, Stop, base, next, combine, measure
    <2> QED BY <1>7 DEF Choose
  <1> DEFINE Good == {k \in K : Selected(rs, G[k], k)}
  <1>9. ASSUME NEW k \in K,
               \A r \in K : measure[r] < measure[k] => r \in Good
        PROVE  k \in Good
    <2>1. CASE k = 0
      <3>1. G[k] = <<>>
        BY <2>1, <1>8
      <3>2. Selected(rs, G[k], k)
        BY <3>1, <2>1, SelectedNone
      <3> QED BY <3>2
    <2>2. CASE k # 0
      <3>1. k - 1 \in K /\ k \in DOMAIN rs /\ measure[k - 1] < measure[k]
        BY <2>2, <1>1
      <3>2. Selected(rs, G[k - 1], k - 1)
        BY <3>1, <1>9
      <3>3. G[k] = IF Taken(rs, G[k - 1], k) THEN Append(G[k - 1], k) ELSE G[k - 1]
        BY <2>2, <1>8
      <3>4. Selected(rs, G[k], k)
        BY <3>1, <3>2, <3>3, SelectedMore
      <3> QED BY <3>4
    <2> QED BY <2>1, <2>2
  <1>10. \A k \in K : k \in Good
    <2> HIDE DEF measure, Good, K
    <2>1. Inherited(K, measure, Good)
      BY <1>2, <1>9 DEF Inherited
    <2> QED BY <2>1, Induction
  <1>11. Len(rs) \in Good
    BY <1>1, <1>10
  <1> QED BY <1>8, <1>11

(***************************************************************************)
(* Types.                                                                  *)
(***************************************************************************)

LEMMA ChunkIsText ==
    ASSUME NEW chunk \in Chunks PROVE chunk \in Texts
  <1>1. PICK n \in 0..MaxChunk : chunk \in [1..n -> Symbols]
    BY DEF Chunks
  <1>2. MaxChunk \in Nat
    BY AnswerAssumption
  <1>3. n \in Nat
    BY <1>1, <1>2
  <1> QED BY <1>1, <1>3, SeqDef DEF Texts

LEMMA ChooseText ==
    ASSUME NEW rs \in Seq(Result) PROVE Choose(rs) \in Seq(Nat)
  <1>1. Choose(rs) \in Seq(DOMAIN rs)
    BY ChooseIs DEF Selected
  <1>2. DOMAIN rs \subseteq Nat
    BY LenProperties
  <1> QED BY <1>1, <1>2, SeqMonotonic

\* What is told next is a part of the answer, longer than the one before.
LEMMA TellPartIs ==
    ASSUME AnswerTypeOK, TellPart
    PROVE  /\ told' \in Texts /\ Len(told') \in Nat /\ Len(told') <= Len(answer)
           /\ told' = Before(answer, Len(told') + 1)
           /\ Len(told) < Len(answer) => Len(told) < Len(told')
  <1> DEFINE n == Min({Len(told) + DeltaSize, Len(answer)})
  <1>1. /\ answer \in Texts /\ told \in Texts /\ Len(answer) \in Nat /\ Len(told) \in Nat
        /\ DeltaSize \in Nat \ {0}
    BY LenProperties, AnswerAssumption DEF AnswerTypeOK, Texts
  <1>2. n \in {Len(told) + DeltaSize, Len(answer)} /\ n <= Len(answer)
    <2>1. PICK m \in {Len(told) + DeltaSize, Len(answer)} :
            \A x \in {Len(told) + DeltaSize, Len(answer)} : m <= x
      <3>1. {Len(told) + DeltaSize, Len(answer)} \subseteq Nat
        BY <1>1
      <3> QED BY <3>1, LeastNat
    <2> QED BY <2>1 DEF Min
  <1>3. told' = SubSeq(answer, 1, n)
    BY DEF TellPart
  <1> HIDE DEF n
  <1>4. n \in Nat /\ n + 1 \in Nat \ {0} /\ n + 1 <= Len(answer) + 1 /\ (n + 1) - 1 = n
    BY <1>1, <1>2
  <1>5. Before(answer, n + 1) \in Texts /\ Len(Before(answer, n + 1)) = n
    BY <1>1, <1>4, Parts
  <1>6. told' = Before(answer, n + 1)
    BY <1>3, <1>4 DEF Before
  <1> QED BY <1>1, <1>2, <1>4, <1>5, <1>6

LEMMA AnswerTypeInit == AnswerInit => AnswerTypeOK
  <1>1. \A S : <<>> \in Seq(S)
    BY EmptySeq
  <1>2. NewFilter \in Filter
    BY <1>1 DEF NewFilter, Filter, Texts
  <1> SUFFICES ASSUME AnswerInit PROVE AnswerTypeOK
    OBVIOUS
  <1>3. /\ results \in Seq(Result) /\ prompt \in Seq(Nat) /\ events \in Seq(Events)
        /\ {text, answer, told, received} \subseteq Texts
    BY <1>1 DEF AnswerInit, Texts
  <1>4. /\ mode \in {"stream", "whole"} /\ phase \in Phases /\ filter \in Filter
        /\ finish \in {"none", "stop", "length"} /\ attempt \in Nat /\ posts \in Nat
        /\ heard \in Ends
    BY <1>2 DEF AnswerInit, Phases, Ends
  <1> QED BY <1>3, <1>4 DEF AnswerTypeOK

LEMMA AnswerTypeNext == AnswerTypeOK /\ [AnswerNext]_answerVars => AnswerTypeOK'
  <1> SUFFICES ASSUME AnswerTypeOK, [AnswerNext]_answerVars PROVE AnswerTypeOK'
    OBVIOUS
  <1>0. (\A S : <<>> \in Seq(S)) /\ <<>> \in Texts /\ NewFilter \in Filter
    BY EmptySeq DEF NewFilter, Filter, Texts
  <1>1. CASE Search
    BY <1>1, AnswerAssumption DEF Search, AnswerTypeOK, Phases
  <1>2. ASSUME NEW e \in Events PROVE Append(events, e) \in Seq(Events) /\ <<e>> \in Seq(Events)
    BY AppendProperties, <1>0 DEF AnswerTypeOK
  <1>3. CASE NoEvidence
    <2>1. events' \in Seq(Events)
      BY <1>0, <1>2, <1>3 DEF NoEvidence, Retrieved, Events
    <2> QED BY <1>3, <2>1 DEF NoEvidence, AnswerTypeOK, Phases
  <1>4. CASE BuildPrompt
    <2>1. events' \in Seq(Events)
      BY <1>0, <1>2, <1>4 DEF BuildPrompt, Retrieved, Events
    <2>2. prompt' \in Seq(Nat)
      BY <1>4, ChooseText DEF BuildPrompt, AnswerTypeOK
    <2>3. posts' \in Nat /\ phase' \in Phases
      BY <1>4 DEF BuildPrompt, AnswerTypeOK, Phases
    <2> QED BY <1>4, <2>1, <2>2, <2>3 DEF BuildPrompt, AnswerTypeOK
  <1>5. CASE NoRoom
    BY <1>5 DEF NoRoom, AnswerTypeOK, Phases
  <1>6. ASSUME NEW chunk \in Chunks, NEW reason \in {"none", "stop", "length"}, Chunk(chunk, reason)
        PROVE  AnswerTypeOK'
    <2>1. chunk \in Texts /\ filter \in Filter /\ text \in Texts /\ received \in Texts
      BY ChunkIsText DEF AnswerTypeOK
    <2>2. Feed(filter, chunk, FALSE).filter \in Filter /\ Feed(filter, chunk, FALSE).out \in Texts
      BY <2>1, FeedIsExact
    <2>3. filter' \in Filter /\ text' \in Texts /\ received' \in Texts
      BY <2>1, <2>2, <1>6, Joined DEF Chunk
    <2>4. finish' \in {"none", "stop", "length"} /\ heard' \in Ends
      BY <1>6 DEF Chunk, Ends, AnswerTypeOK
    <2> QED BY <2>3, <2>4, <1>6 DEF Chunk, AnswerTypeOK
  <1>7. CASE StreamEnds
    <2>1. filter \in Filter /\ text \in Texts
      BY DEF AnswerTypeOK
    <2>2. Feed(filter, <<>>, TRUE).out \in Texts
      <3>1. filter.inside \in BOOLEAN /\ filter.buffer \o <<>> \in Texts
        BY <2>1, <1>0, Joined DEF Filter
      <3> QED BY <2>1, <3>1, FeedAtEnd, RestText
    <2>3. text' \in Texts
      BY <2>1, <2>2, <1>7, Joined DEF StreamEnds
    <2>4. heard' \in Ends /\ phase' \in Phases
      BY <1>7 DEF StreamEnds, AnswerTypeOK, Ends, Phases
    <2> QED BY <2>3, <2>4, <1>0, <1>7 DEF StreamEnds, AnswerTypeOK
  <1>8. ASSUME NEW reply \in Replies, Reply(reply) PROVE AnswerTypeOK'
    <2>1. reply \in Texts
      BY AnswerAssumption
    <2>2. text' \in Texts /\ received' \in Texts
      BY <2>1, <1>8, SuppressIs DEF Reply
    <2>3. phase' \in Phases /\ posts' \in Nat
      BY <1>8 DEF Reply, AnswerTypeOK, Phases
    <2>4. heard' \in Ends
      BY <1>8 DEF Reply, Ends
    <2> QED BY <2>2, <2>3, <2>4, <1>8 DEF Reply, AnswerTypeOK
  <1>9. CASE PostFails
    BY <1>9 DEF PostFails, AnswerTypeOK, Phases
  <1>10. CASE Refused
    BY <1>10 DEF Refused, AnswerTypeOK, Phases
  <1>11. CASE Validate
    <2>1. answer' \in Texts
      BY <1>0, <1>11, SuppressIs DEF Validate, AnswerTypeOK
    <2> QED BY <2>1, <1>11 DEF Validate, AnswerTypeOK, Phases
  <1>12. CASE TellPart
    <2>1. told' \in Texts /\ events' \in Seq(Events)
      BY <1>2, <1>12, TellPartIs DEF TellPart, Say, Events
    <2> QED BY <2>1, <1>12 DEF TellPart, AnswerTypeOK
  <1>13. CASE TellInsufficient
    <2>1. events' \in Seq(Events)
      BY <1>2, <1>13 DEF TellInsufficient, Say, Events
    <2> QED BY <2>1, <1>13 DEF TellInsufficient, AnswerTypeOK, Phases
  <1>14. CASE Cite
    <2>1. events' \in Seq(Events)
      BY <1>2, <1>14 DEF Cite, Say, Events
    <2> QED BY <2>1, <1>14 DEF Cite, AnswerTypeOK, Phases
  <1>15. CASE Conclude
    <2>1. events' \in Seq(Events)
      BY <1>2, <1>15 DEF Conclude, Say, Events
    <2> QED BY <2>1, <1>15 DEF Conclude, AnswerTypeOK, Phases
  <1>16. CASE Cancel
    BY <1>16 DEF Cancel, AnswerTypeOK, Phases
  <1>17. CASE UNCHANGED answerVars
    BY <1>17 DEF answerVars, AnswerTypeOK
  <1> QED BY <1>1, <1>3, <1>4, <1>5, <1>6, <1>7, <1>8, <1>9, <1>10, <1>11, <1>12, <1>13,
             <1>14, <1>15, <1>16, <1>17 DEF AnswerNext

\* Type correctness: the invariant of the types of an answer.
THEOREM AnswerTypeCorrect == AnswerSpec => []AnswerTypeOK
  <1> QED BY AnswerTypeInit, AnswerTypeNext, PTL DEF AnswerSpec

(***************************************************************************)
(* The invariant of an answer.                                             *)
(***************************************************************************)

\* Before anything is asked of the provider nothing is kept of it.
NothingYet ==
    /\ phase \in {"asked", "retrieved"} =>
         /\ prompt = <<>> /\ events = <<>>
         /\ filter = NewFilter /\ text = <<>> /\ received = <<>> /\ finish = "none"
    /\ phase \in {"asked", "retrieved", "no_evidence", "insufficient", "streaming"} =>
         attempt = 0
    /\ phase \in {"streaming", "insufficient", "citing"} => mode = "stream"
    /\ phase \in {"generate", "retry"} /\ mode = "stream" => attempt # 0
    /\ phase \notin {"telling", "citing", "complete", "failed", "cancelled"} =>
         answer = <<>> /\ told = <<>>

\* Requests the round that runs may cost with those before it.
Allowed == IF mode = "stream" THEN IF attempt = 0 THEN 1 ELSE 3 ELSE 2 * attempt + 2

\* What is still to be spent in each phase.
PostsInv ==
    /\ PostsAreBounded
    /\ phase \in {"asked", "retrieved"} => posts = 0
    /\ phase \in {"streaming", "check", "generate", "retry"} =>
         attempt \in {0, 1} /\ posts <= Allowed
    /\ phase = "generate" => posts + 2 <= Allowed
    /\ phase = "retry" => posts + 1 <= Allowed

\* What the end of a text may be for it to pass for whole.
PassesForWhole == {"whole", "hidden", "silent"}

\* An answer is validated, and only a text that passes for whole becomes one:
\* finish tells a text cut short on the last line from every other.
AnswerInv ==
    /\ phase \in {"asked", "retrieved"} => heard = "open"
    /\ phase = "streaming" => (heard = "length" <=> finish = "length")
    /\ phase = "check" => heard \in PassesForWhole
    /\ phase = "telling" => answer # <<>>
    /\ answer # <<>> =>
         Valid(answer) /\ Places(answer, Open) = {} /\ heard \in PassesForWhole
    /\ told = Before(answer, Len(told) + 1) /\ Len(told) <= Len(answer)

\* The events of a stream in each phase.
EventsInv ==
    /\ EventsInOrder
    /\ mode = "whole" /\ phase # "complete" => events = <<>>
    /\ mode = "stream" =>
         /\ phase \in {"no_evidence", "streaming", "check", "generate", "retry"} =>
              Said = {"retrieval"}
         /\ phase = "insufficient" => Said = {"retrieval", "token"}
         /\ phase = "telling" =>
              Said = IF told = <<>> THEN {"retrieval"} ELSE {"retrieval", "token"}
         /\ phase = "citing" => Said = {"retrieval", "token", "citations"}

\* What was shown and what the filter will show are what the whole text shows.
FilterInv ==
    /\ phase = "streaming" =>
         \A c \in Texts :
           Shown[received \o c] = text \o Rest(filter.inside, filter.buffer \o c)
    /\ phase = "check" /\ mode = "stream" /\ attempt = 0 => text = Shown[received]

LEMMA NothingYetNext ==
    ASSUME AnswerTypeOK, NothingYet, [AnswerNext]_answerVars
    PROVE  NothingYet'
  <1>1. CASE Search
    BY <1>1 DEF Search, NothingYet, AnswerTypeOK
  <1>2. CASE NoEvidence
    BY <1>2 DEF NoEvidence, NothingYet, AnswerTypeOK
  <1>3. CASE BuildPrompt
    BY <1>3 DEF BuildPrompt, NothingYet, AnswerTypeOK
  <1>4. CASE NoRoom
    BY <1>4 DEF NoRoom, NothingYet, AnswerTypeOK
  <1>5. ASSUME NEW chunk \in Chunks, NEW reason \in {"none", "stop", "length"},
               Chunk(chunk, reason)
        PROVE  NothingYet'
    BY <1>5 DEF Chunk, NothingYet, AnswerTypeOK
  <1>6. CASE StreamEnds
    BY <1>6 DEF StreamEnds, NothingYet, AnswerTypeOK
  <1>7. ASSUME NEW reply \in Replies, Reply(reply) PROVE NothingYet'
    BY <1>7 DEF Reply, NothingYet, AnswerTypeOK
  <1>8. CASE PostFails
    BY <1>8 DEF PostFails, NothingYet, AnswerTypeOK
  <1>9. CASE Refused
    BY <1>9 DEF Refused, NothingYet, AnswerTypeOK
  <1>10. CASE Validate
    BY <1>10 DEF Validate, NothingYet, AnswerTypeOK
  <1>11. CASE TellPart
    BY <1>11 DEF TellPart, NothingYet, AnswerTypeOK
  <1>12. CASE TellInsufficient
    BY <1>12 DEF TellInsufficient, NothingYet, AnswerTypeOK
  <1>13. CASE Cite
    BY <1>13 DEF Cite, NothingYet, AnswerTypeOK
  <1>14. CASE Conclude
    BY <1>14 DEF Conclude, NothingYet, AnswerTypeOK
  <1>15. CASE Cancel
    BY <1>15 DEF Cancel, NothingYet, AnswerTypeOK
  <1>16. CASE UNCHANGED answerVars
    BY <1>16 DEF answerVars, NothingYet, AnswerTypeOK
  <1> QED BY <1>1, <1>2, <1>3, <1>4, <1>5, <1>6, <1>7, <1>8, <1>9,
             <1>10, <1>11, <1>12, <1>13, <1>14, <1>15, <1>16 DEF AnswerNext

LEMMA PostsNext ==
    ASSUME AnswerTypeOK, NothingYet, PostsInv, [AnswerNext]_answerVars
    PROVE  PostsInv'
  <1>1. CASE Search
    BY <1>1 DEF Search, PostsInv, PostsAreBounded, Allowed, NothingYet, AnswerTypeOK
  <1>2. CASE NoEvidence
    BY <1>2 DEF NoEvidence, PostsInv, PostsAreBounded, Allowed, NothingYet, AnswerTypeOK
  <1>3. CASE BuildPrompt
    BY <1>3 DEF BuildPrompt, PostsInv, PostsAreBounded, Allowed, NothingYet, AnswerTypeOK
  <1>4. CASE NoRoom
    BY <1>4 DEF NoRoom, PostsInv, PostsAreBounded, Allowed, NothingYet, AnswerTypeOK
  <1>5. ASSUME NEW chunk \in Chunks, NEW reason \in {"none", "stop", "length"},
               Chunk(chunk, reason)
        PROVE  PostsInv'
    BY <1>5 DEF Chunk, PostsInv, PostsAreBounded, Allowed, NothingYet, AnswerTypeOK
  <1>6. CASE StreamEnds
    BY <1>6 DEF StreamEnds, PostsInv, PostsAreBounded, Allowed, NothingYet, AnswerTypeOK
  <1>7. ASSUME NEW reply \in Replies, Reply(reply) PROVE PostsInv'
    BY <1>7 DEF Reply, PostsInv, PostsAreBounded, Allowed, NothingYet, AnswerTypeOK
  <1>8. CASE PostFails
    BY <1>8 DEF PostFails, PostsInv, PostsAreBounded, Allowed, NothingYet, AnswerTypeOK
  <1>9. CASE Refused
    BY <1>9 DEF Refused, PostsInv, PostsAreBounded, Allowed, NothingYet, AnswerTypeOK
  <1>10. CASE Validate
    <2>1. phase = "check" /\ attempt \in {0, 1} /\ posts <= Allowed
      BY <1>10 DEF Validate, PostsInv
    <2>2. mode' = mode /\ posts' = posts /\ attempt' = attempt + 1
          /\ phase' \in {"telling", "generate", "failed"}
          /\ (phase' = "generate" => attempt = 0)
      BY <1>10 DEF Validate
    <2> QED BY <2>1, <2>2 DEF PostsInv, PostsAreBounded, Allowed, AnswerTypeOK
  <1>11. CASE TellPart
    BY <1>11 DEF TellPart, PostsInv, PostsAreBounded, Allowed, NothingYet, AnswerTypeOK
  <1>12. CASE TellInsufficient
    BY <1>12 DEF TellInsufficient, PostsInv, PostsAreBounded, Allowed, NothingYet, AnswerTypeOK
  <1>13. CASE Cite
    BY <1>13 DEF Cite, PostsInv, PostsAreBounded, Allowed, NothingYet, AnswerTypeOK
  <1>14. CASE Conclude
    BY <1>14 DEF Conclude, PostsInv, PostsAreBounded, Allowed, NothingYet, AnswerTypeOK
  <1>15. CASE Cancel
    BY <1>15 DEF Cancel, PostsInv, PostsAreBounded, Allowed, NothingYet, AnswerTypeOK
  <1>16. CASE UNCHANGED answerVars
    BY <1>16 DEF answerVars, PostsInv, PostsAreBounded, Allowed, NothingYet, AnswerTypeOK
  <1> QED BY <1>1, <1>2, <1>3, <1>4, <1>5, <1>6, <1>7, <1>8, <1>9,
             <1>10, <1>11, <1>12, <1>13, <1>14, <1>15, <1>16 DEF AnswerNext

LEMMA PromptNext ==
    ASSUME AnswerTypeOK, NothingYet, PromptIsSound, [AnswerNext]_answerVars
    PROVE  PromptIsSound'
  <1>1. CASE Search
    BY <1>1 DEF Search, PromptIsSound, Eligible, NothingYet
  <1>2. CASE NoEvidence
    BY <1>2 DEF NoEvidence, PromptIsSound, Eligible, NothingYet
  <1>3. CASE BuildPrompt
    <2>1. Selected(results, prompt', Len(results)) /\ results' = results
      BY <1>3, ChooseIs DEF BuildPrompt, AnswerTypeOK
    <2>2. DOMAIN results = 1..Len(results)
      BY LenProperties DEF AnswerTypeOK
    <2>3. \A i \in DOMAIN prompt' : prompt'[i] \in DOMAIN results
      <3>1. prompt' \in Seq(DOMAIN results)
        BY <2>1 DEF Selected
      <3> QED BY <3>1, LenProperties, ElementOfSeq
    <2> QED BY <2>1, <2>2, <2>3 DEF PromptIsSound, Selected, Eligible
  <1>4. CASE NoRoom
    BY <1>4 DEF NoRoom, PromptIsSound, Eligible, NothingYet
  <1>5. ASSUME NEW chunk \in Chunks, NEW reason \in {"none", "stop", "length"},
               Chunk(chunk, reason)
        PROVE  PromptIsSound'
    BY <1>5 DEF Chunk, PromptIsSound, Eligible, NothingYet
  <1>6. CASE StreamEnds
    BY <1>6 DEF StreamEnds, PromptIsSound, Eligible, NothingYet
  <1>7. ASSUME NEW reply \in Replies, Reply(reply) PROVE PromptIsSound'
    BY <1>7 DEF Reply, PromptIsSound, Eligible, NothingYet
  <1>8. CASE PostFails
    BY <1>8 DEF PostFails, PromptIsSound, Eligible, NothingYet
  <1>9. CASE Refused
    BY <1>9 DEF Refused, PromptIsSound, Eligible, NothingYet
  <1>10. CASE Validate
    BY <1>10 DEF Validate, PromptIsSound, Eligible, NothingYet
  <1>11. CASE TellPart
    BY <1>11 DEF TellPart, PromptIsSound, Eligible, NothingYet
  <1>12. CASE TellInsufficient
    BY <1>12 DEF TellInsufficient, PromptIsSound, Eligible, NothingYet
  <1>13. CASE Cite
    BY <1>13 DEF Cite, PromptIsSound, Eligible, NothingYet
  <1>14. CASE Conclude
    BY <1>14 DEF Conclude, PromptIsSound, Eligible, NothingYet
  <1>15. CASE Cancel
    BY <1>15 DEF Cancel, PromptIsSound, Eligible, NothingYet
  <1>16. CASE UNCHANGED answerVars
    BY <1>16 DEF answerVars, PromptIsSound, Eligible, NothingYet
  <1> QED BY <1>1, <1>2, <1>3, <1>4, <1>5, <1>6, <1>7, <1>8, <1>9,
             <1>10, <1>11, <1>12, <1>13, <1>14, <1>15, <1>16 DEF AnswerNext

\* A text is its own last part, and its empty one.
LEMMA WholeText ==
    ASSUME NEW t \in Texts
    PROVE  /\ Len(t) \in Nat /\ Before(t, Len(t) + 1) = t
           /\ Before(t, Len(<<>>) + 1) = <<>> /\ Len(<<>>) <= Len(t)
           /\ Len(t) = 0 => t = <<>>
  <1>1. Len(t) \in Nat /\ Len(<<>>) = 0 /\ SubSeq(t, 1, Len(t)) = t
    BY LenProperties, EmptySeq, SubSeqFull DEF Texts
  <1>2. SubSeq(t, 1, 0) = <<>>
    BY SubSeqEmpty
  <1>3. (Len(t) + 1) - 1 = Len(t) /\ (Len(<<>>) + 1) - 1 = 0 /\ Len(<<>>) <= Len(t)
    BY <1>1
  <1>4. Len(t) = 0 => t = <<>>
    BY EmptySeq DEF Texts
  <1> QED BY <1>1, <1>2, <1>3, <1>4 DEF Before

LEMMA ValidIsSome ==
    ASSUME NEW t, Valid(t) PROVE t # <<>>
  <1>1. DOMAIN (<<>>) = {}
    OBVIOUS
  <1> QED BY <1>1 DEF Valid, Citations

LEMMA AnswerNextInv ==
    ASSUME AnswerTypeOK, NothingYet, AnswerInv, [AnswerNext]_answerVars
    PROVE  AnswerInv'
  <1>1. CASE Search
    BY <1>1 DEF Search, AnswerInv, NothingYet, Valid, Known
  <1>2. CASE NoEvidence
    BY <1>2 DEF NoEvidence, AnswerInv, NothingYet, Valid, Known
  <1>3. CASE BuildPrompt
    <2>1. /\ answer = <<>> /\ heard = "open" /\ finish = "none"
          /\ told = Before(answer, Len(told) + 1) /\ Len(told) <= Len(answer)
          /\ UNCHANGED <<answer, told, heard, finish>>
          /\ phase' \in {"streaming", "generate"}
      BY <1>3 DEF BuildPrompt, AnswerInv, NothingYet
    <2>2. told' = Before(answer', Len(told') + 1) /\ Len(told') <= Len(answer')
      BY <2>1
    <2>3. answer' = <<>> /\ heard' # "length" /\ finish' # "length"
      BY <2>1 DEF AnswerTypeOK
    <2> QED BY <2>1, <2>2, <2>3 DEF AnswerInv
  <1>4. CASE NoRoom
    BY <1>4 DEF NoRoom, AnswerInv, NothingYet, Valid, Known
  <1>5. ASSUME NEW chunk \in Chunks, NEW reason \in {"none", "stop", "length"},
               Chunk(chunk, reason)
        PROVE  AnswerInv'
    BY <1>5 DEF Chunk, AnswerInv, NothingYet, Valid, Known
  <1>6. CASE StreamEnds
    <2>1. phase' = "check" => heard' \in PassesForWhole
      BY <1>6 DEF StreamEnds, AnswerInv, AnswerTypeOK, Ends, PassesForWhole
    <2>2. answer = <<>> /\ phase' \in {"check", "failed"} /\ UNCHANGED <<answer, told>>
      BY <1>6 DEF StreamEnds, NothingYet
    <2> QED BY <2>1, <2>2 DEF AnswerInv
  <1>7. ASSUME NEW reply \in Replies, Reply(reply) PROVE AnswerInv'
    BY <1>7 DEF Reply, AnswerInv, NothingYet, Valid, Known, PassesForWhole
  <1>8. CASE PostFails
    BY <1>8 DEF PostFails, AnswerInv, NothingYet, Valid, Known
  <1>9. CASE Refused
    BY <1>9 DEF Refused, AnswerInv, NothingYet, Valid, Known
  <1>10. CASE Validate
    <2>1. /\ phase = "check" /\ heard \in PassesForWhole /\ told = <<>> /\ text \in Texts
          /\ UNCHANGED <<told, heard, prompt>>
          /\ phase' \in {"telling", "generate", "failed"}
      BY <1>10 DEF Validate, AnswerInv, NothingYet, AnswerTypeOK
    <2>2. CASE Valid(Suppress(text))
      <3>1. answer' = Suppress(text) /\ phase' = "telling"
        BY <1>10, <2>2 DEF Validate
      <3>2. answer' \in Texts /\ Places(answer', Open) = {} /\ answer' # <<>>
        BY <2>1, <2>2, <3>1, SuppressIs, ValidIsSome
      <3>3. Valid(answer)'
        BY <2>1, <2>2, <3>1 DEF Valid, Known
      <3>4. told' = Before(answer', Len(told') + 1) /\ Len(told') <= Len(answer')
        BY <2>1, <3>2, WholeText
      <3> QED BY <2>1, <3>1, <3>2, <3>3, <3>4 DEF AnswerInv
    <2>3. CASE ~ Valid(Suppress(text))
      <3>1. answer' = <<>> /\ phase' \in {"generate", "failed"}
        BY <1>10, <2>3 DEF Validate
      <3>2. told' = Before(answer', Len(told') + 1) /\ Len(told') <= Len(answer')
        BY <2>1, <3>1, WholeText, NoTag
      <3> QED BY <2>1, <3>1, <3>2 DEF AnswerInv
    <2> QED BY <2>2, <2>3
  <1>11. CASE TellPart
    <2>1. told' = Before(answer', Len(told') + 1) /\ Len(told') <= Len(answer')
      BY <1>11, TellPartIs DEF TellPart
    <2> QED BY <1>11, <2>1 DEF TellPart, AnswerInv, Valid, Known
  <1>12. CASE TellInsufficient
    BY <1>12 DEF TellInsufficient, AnswerInv, NothingYet, Valid, Known
  <1>13. CASE Cite
    BY <1>13 DEF Cite, AnswerInv, NothingYet, Valid, Known
  <1>14. CASE Conclude
    <2>1. told' = Before(answer', Len(told') + 1) /\ Len(told') <= Len(answer')
      BY <1>14, WholeText DEF Conclude, AnswerTypeOK
    <2> QED BY <1>14, <2>1 DEF Conclude, AnswerInv, Valid, Known
  <1>15. CASE Cancel
    BY <1>15 DEF Cancel, AnswerInv, NothingYet, Valid, Known
  <1>16. CASE UNCHANGED answerVars
    BY <1>16 DEF answerVars, AnswerInv, NothingYet, Valid, Known
  <1> QED BY <1>1, <1>2, <1>3, <1>4, <1>5, <1>6, <1>7, <1>8, <1>9,
             <1>10, <1>11, <1>12, <1>13, <1>14, <1>15, <1>16 DEF AnswerNext

\* One more event, that may follow all those before it.
LEMMA SaidMore ==
    ASSUME NEW e \in Events, events \in Seq(Events), Say(e),
           \A i, j \in DOMAIN events : i < j =>
             \/ Order[events[i]] < Order[events[j]]
             \/ events[i] = "token" /\ events[j] = "token",
           \A d \in Said : Order[d] < Order[e] \/ (d = "token" /\ e = "token")
    PROVE  /\ Said' = Said \cup {e}
           /\ \A i, j \in DOMAIN events' : i < j =>
                \/ Order[events'[i]] < Order[events'[j]]
                \/ events'[i] = "token" /\ events'[j] = "token"
  <1>1. /\ Len(events) \in Nat /\ DOMAIN events = 1..Len(events)
        /\ events' \in Seq(Events) /\ Len(events') = Len(events) + 1
        /\ \A i \in 1..Len(events) : events'[i] = events[i]
        /\ events'[Len(events) + 1] = e
    BY AppendProperties, LenProperties DEF Say
  <1>2. DOMAIN events' = 1..(Len(events) + 1)
    BY <1>1, LenProperties
  <1>3. Said' = Said \cup {e}
    <2>1. ASSUME NEW d \in Said' PROVE d \in Said \cup {e}
      <3>1. PICK i \in DOMAIN events' : d = events'[i]
        BY <2>1 DEF Said
      <3>2. CASE i \in 1..Len(events)
        BY <3>1, <3>2, <1>1 DEF Said
      <3>3. CASE i = Len(events) + 1
        BY <3>1, <3>3, <1>1
      <3> QED BY <3>2, <3>3, <1>1, <1>2
    <2>2. ASSUME NEW d \in Said \cup {e} PROVE d \in Said'
      <3>1. CASE d \in Said
        <4>1. PICK i \in DOMAIN events : d = events[i]
          BY <3>1 DEF Said
        <4>2. i \in DOMAIN events' /\ events'[i] = d
          BY <4>1, <1>1, <1>2
        <4> QED BY <4>2 DEF Said
      <3>2. CASE d = e
        <4>1. Len(events) + 1 \in DOMAIN events' /\ events'[Len(events) + 1] = d
          BY <3>2, <1>1, <1>2
        <4> QED BY <4>1 DEF Said
      <3> QED BY <2>2, <3>1, <3>2
    <2> QED BY <2>1, <2>2
  <1>4. ASSUME NEW i \in DOMAIN events', NEW j \in DOMAIN events', i < j
        PROVE  \/ Order[events'[i]] < Order[events'[j]]
               \/ events'[i] = "token" /\ events'[j] = "token"
    <2>1. i \in DOMAIN events /\ events'[i] = events[i]
      BY <1>1, <1>2, <1>4
    <2>2. CASE j \in 1..Len(events)
      BY <2>1, <2>2, <1>1, <1>4
    <2>3. CASE j = Len(events) + 1
      <3>1. events[i] \in Said
        BY <2>1 DEF Said
      <3> QED BY <3>1, <2>1, <2>3, <1>1
    <2> QED BY <2>2, <2>3, <1>1, <1>2
  <1> QED BY <1>3, <1>4

LEMMA SaidFirst ==
    ASSUME Retrieved
    PROVE  /\ mode = "stream" => Said' = {"retrieval"}
           /\ mode = "whole" => events' = <<>>
           /\ \A i, j \in DOMAIN events' : i < j =>
                \/ Order[events'[i]] < Order[events'[j]]
                \/ events'[i] = "token" /\ events'[j] = "token"
  <1>1. CASE mode = "stream"
    <2>1. events' = <<"retrieval">> /\ DOMAIN events' = {1}
      BY <1>1 DEF Retrieved
    <2> QED BY <2>1, <1>1 DEF Said
  <1>2. CASE mode # "stream"
    <2>1. events' = <<>> /\ DOMAIN events' = {}
      BY <1>2 DEF Retrieved
    <2> QED BY <2>1, <1>2
  <1> QED BY <1>1, <1>2

LEMMA OrderIs ==
    /\ Order["retrieval"] = 1 /\ Order["token"] = 2
    /\ Order["citations"] = 3 /\ Order["complete"] = 4
  BY DEF Order

LEMMA EventsNext ==
    ASSUME AnswerTypeOK, NothingYet, AnswerInv, EventsInv, [AnswerNext]_answerVars
    PROVE  EventsInv'
  <1>1. CASE Search
    BY <1>1 DEF Search, EventsInv, EventsInOrder, Said, NothingYet, Ended
  <1>2. CASE NoEvidence
    BY <1>2, SaidFirst DEF NoEvidence, EventsInv, EventsInOrder, AnswerTypeOK
  <1>3. CASE BuildPrompt
    BY <1>3, SaidFirst DEF BuildPrompt, EventsInv, EventsInOrder, AnswerTypeOK
  <1>4. CASE NoRoom
    BY <1>4 DEF NoRoom, EventsInv, EventsInOrder, Said, NothingYet, Ended
  <1>5. ASSUME NEW chunk \in Chunks, NEW reason \in {"none", "stop", "length"},
               Chunk(chunk, reason)
        PROVE  EventsInv'
    BY <1>5 DEF Chunk, EventsInv, EventsInOrder, Said, NothingYet, Ended
  <1>6. CASE StreamEnds
    BY <1>6 DEF StreamEnds, EventsInv, EventsInOrder, Said, NothingYet, Ended
  <1>7. ASSUME NEW reply \in Replies, Reply(reply) PROVE EventsInv'
    BY <1>7 DEF Reply, EventsInv, EventsInOrder, Said, NothingYet, Ended
  <1>8. CASE PostFails
    BY <1>8 DEF PostFails, EventsInv, EventsInOrder, Said, NothingYet, Ended
  <1>9. CASE Refused
    BY <1>9 DEF Refused, EventsInv, EventsInOrder, Said, NothingYet, Ended
  <1>10. CASE Validate
    BY <1>10 DEF Validate, EventsInv, EventsInOrder, Said, NothingYet, Ended
  <1>11. CASE TellPart
    <2>1. Said \subseteq {"retrieval", "token"} /\ "retrieval" \in Said
      BY <1>11 DEF TellPart, EventsInv
    <2>2. \A d \in Said : Order[d] < Order["token"] \/ d = "token"
      BY <2>1, OrderIs
    <2>3. /\ Said' = Said \cup {"token"}
          /\ \A i, j \in DOMAIN events' : i < j =>
               \/ Order[events'[i]] < Order[events'[j]]
               \/ events'[i] = "token" /\ events'[j] = "token"
      BY <1>11, <2>2, SaidMore DEF TellPart, EventsInv, EventsInOrder, AnswerTypeOK, Events
    <2>4. told' # <<>>
      <3>1. /\ told \in Texts /\ answer \in Texts /\ Len(told) <= Len(answer)
            /\ told = Before(answer, Len(told) + 1) /\ told # answer
        BY <1>11 DEF TellPart, AnswerTypeOK, AnswerInv
      <3>2. Len(told) \in Nat /\ Len(answer) \in Nat /\ Before(answer, Len(answer) + 1) = answer
        BY <3>1, WholeText
      <3>3. Len(told) # Len(answer)
        BY <3>1, <3>2
      <3>4. Len(told) < Len(told') /\ Len(told') \in Nat
        BY <1>11, <3>1, <3>2, <3>3, TellPartIs
      <3>5. Len(<<>>) = 0
        BY EmptySeq
      <3> QED BY <3>2, <3>4, <3>5
    <2>5. Said' = {"retrieval", "token"}
      BY <2>1, <2>3
    <2> QED BY <1>11, <2>3, <2>4, <2>5 DEF TellPart, EventsInv, EventsInOrder
  <1>12. CASE TellInsufficient
    <2>1. Said = {"retrieval"}
      BY <1>12 DEF TellInsufficient, EventsInv
    <2>2. \A d \in Said : Order[d] < Order["token"]
      BY <2>1, OrderIs
    <2>3. /\ Said' = Said \cup {"token"}
          /\ \A i, j \in DOMAIN events' : i < j =>
               \/ Order[events'[i]] < Order[events'[j]]
               \/ events'[i] = "token" /\ events'[j] = "token"
      BY <1>12, <2>2, SaidMore DEF TellInsufficient, EventsInv, EventsInOrder, AnswerTypeOK, Events
    <2>4. Said' = {"retrieval", "token"}
      BY <2>1, <2>3
    <2> QED BY <1>12, <2>3, <2>4 DEF TellInsufficient, EventsInv, EventsInOrder
  <1>13. CASE Cite
    <2>1. Said = {"retrieval", "token"}
      BY <1>13 DEF Cite, EventsInv, AnswerInv
    <2>2. \A d \in Said : Order[d] < Order["citations"]
      BY <2>1, OrderIs
    <2>3. /\ Said' = Said \cup {"citations"}
          /\ \A i, j \in DOMAIN events' : i < j =>
               \/ Order[events'[i]] < Order[events'[j]]
               \/ events'[i] = "token" /\ events'[j] = "token"
      BY <1>13, <2>2, SaidMore DEF Cite, EventsInv, EventsInOrder, AnswerTypeOK, Events
    <2>4. Said' = {"retrieval", "token", "citations"}
      BY <2>1, <2>3
    <2> QED BY <1>13, <2>3, <2>4 DEF Cite, EventsInv, EventsInOrder
  <1>14. CASE Conclude
    <2>1. \/ mode = "stream" /\ Said = {"retrieval", "token", "citations"}
          \/ mode = "whole" /\ Said = {}
      BY <1>14 DEF Conclude, EventsInv, NothingYet, Said
    <2>2. \A d \in Said : Order[d] < Order["complete"]
      BY <2>1, OrderIs
    <2>3. /\ Said' = Said \cup {"complete"}
          /\ \A i, j \in DOMAIN events' : i < j =>
               \/ Order[events'[i]] < Order[events'[j]]
               \/ events'[i] = "token" /\ events'[j] = "token"
      BY <1>14, <2>2, SaidMore DEF Conclude, EventsInv, EventsInOrder, AnswerTypeOK, Events
    <2>4. mode = "stream" => Said' = Events
      BY <2>1, <2>3 DEF Events
    <2> QED BY <1>14, <2>3, <2>4 DEF Conclude, EventsInv, EventsInOrder
  <1>15. CASE Cancel
    BY <1>15 DEF Cancel, EventsInv, EventsInOrder, Said, NothingYet, Ended
  <1>16. CASE UNCHANGED answerVars
    BY <1>16 DEF answerVars, EventsInv, EventsInOrder, Said, NothingYet, Ended
  <1> QED BY <1>1, <1>2, <1>3, <1>4, <1>5, <1>6, <1>7, <1>8, <1>9,
             <1>10, <1>11, <1>12, <1>13, <1>14, <1>15, <1>16 DEF AnswerNext

LEMMA FilterNext ==
    ASSUME AnswerTypeOK, NothingYet, FilterInv, [AnswerNext]_answerVars
    PROVE  FilterInv'
  <1>1. CASE Search
    BY <1>1 DEF Search, FilterInv, NothingYet
  <1>2. CASE NoEvidence
    BY <1>2 DEF NoEvidence, FilterInv, NothingYet
  <1>3. CASE BuildPrompt
    <2>1. /\ received' = <<>> /\ text' = <<>> /\ filter' = NewFilter
          /\ phase' \in {"streaming", "generate"}
      BY <1>3 DEF BuildPrompt, NothingYet
    <2>2. \A c \in Texts :
            Shown[received' \o c] = text' \o Rest(filter'.inside, filter'.buffer \o c)
      <3>1. ASSUME NEW c \in Texts
            PROVE  Shown[<<>> \o c] = <<>> \o Rest(FALSE, <<>> \o c)
        <4>1. <<>> \o c = c /\ Shown[c] \in Texts
          BY ShownIs, ConcatEmptySeq DEF Texts
        <4>2. <<>> \o Shown[c] = Shown[c]
          BY <4>1, ConcatEmptySeq DEF Texts
        <4> QED BY <4>1, <4>2 DEF Rest
      <3> QED BY <3>1, <2>1 DEF NewFilter
    <2> QED BY <2>1, <2>2 DEF FilterInv
  <1>4. CASE NoRoom
    BY <1>4 DEF NoRoom, FilterInv, NothingYet
  <1>5. ASSUME NEW chunk \in Chunks, NEW reason \in {"none", "stop", "length"},
               Chunk(chunk, reason)
        PROVE  FilterInv'
    <2>1. /\ chunk \in Texts /\ filter \in Filter /\ text \in Texts /\ received \in Texts
      BY ChunkIsText DEF AnswerTypeOK
    <2> DEFINE g == Feed(filter, chunk, FALSE)
    <2>2. /\ phase = "streaming" /\ phase' = "streaming"
          /\ received' = received \o chunk /\ text' = text \o g.out /\ filter' = g.filter
      BY <1>5 DEF Chunk
    <2>3. /\ g.filter \in Filter /\ g.out \in Texts
          /\ \A c \in Texts : Rest(filter.inside, filter.buffer \o (chunk \o c)) =
                                g.out \o Rest(g.filter.inside, g.filter.buffer \o c)
      BY <2>1, FeedIsExact
    <2>4. \A c \in Texts : Shown[received \o c] = text \o Rest(filter.inside, filter.buffer \o c)
      BY <2>2 DEF FilterInv
    <2> HIDE DEF g
    <2>5. ASSUME NEW c \in Texts
          PROVE  Shown[received' \o c] = text' \o Rest(filter'.inside, filter'.buffer \o c)
      <3>1. chunk \o c \in Texts /\ (received \o chunk) \o c = received \o (chunk \o c)
        <4>1. (received \o chunk) \o c = received \o (chunk \o c)
          BY <2>1, Associative, Zenon
        <4> QED BY <4>1, <2>1, Joined
      <3>2. Shown[received' \o c] =
              text \o (g.out \o Rest(g.filter.inside, g.filter.buffer \o c))
        BY <3>1, <2>2, <2>3, <2>4
      <3>3. Rest(g.filter.inside, g.filter.buffer \o c) \in Texts
        <4>1. g.filter.inside \in BOOLEAN /\ g.filter.buffer \o c \in Texts
          BY <2>3, Joined DEF Filter
        <4> QED BY <4>1, RestText
      <3>4. (text \o g.out) \o Rest(g.filter.inside, g.filter.buffer \o c) =
              text \o (g.out \o Rest(g.filter.inside, g.filter.buffer \o c))
        <4>1. /\ text \in Texts /\ g.out \in Texts
              /\ Rest(g.filter.inside, g.filter.buffer \o c) \in Texts
          BY <3>3, <2>1, <2>3
        <4> QED BY <4>1, Associative, Zenon
      <3> QED BY <3>2, <3>4, <2>2
    <2> QED BY <2>2, <2>5 DEF FilterInv
  <1>6. CASE StreamEnds
    <2>1. filter \in Filter /\ received \in Texts /\ <<>> \in Texts
      BY EmptySeq DEF AnswerTypeOK, Texts
    <2>2. /\ phase = "streaming" /\ phase' # "streaming" /\ received' = received
          /\ text' = text \o Feed(filter, <<>>, TRUE).out
      BY <1>6 DEF StreamEnds
    <2>3. Shown[received \o <<>>] = text \o Rest(filter.inside, filter.buffer \o <<>>)
      BY <2>1, <2>2 DEF FilterInv
    <2>4. received \o <<>> = received
      BY <2>1, ConcatEmptySeq DEF Texts
    <2>5. text' = Shown[received']
      BY <2>1, <2>2, <2>3, <2>4, FeedAtEnd
    <2> QED BY <2>2, <2>5 DEF FilterInv
  <1>7. ASSUME NEW reply \in Replies, Reply(reply) PROVE FilterInv'
    BY <1>7 DEF Reply, FilterInv, NothingYet
  <1>8. CASE PostFails
    BY <1>8 DEF PostFails, FilterInv, NothingYet
  <1>9. CASE Refused
    BY <1>9 DEF Refused, FilterInv, NothingYet
  <1>10. CASE Validate
    BY <1>10 DEF Validate, FilterInv
  <1>11. CASE TellPart
    BY <1>11 DEF TellPart, FilterInv, NothingYet
  <1>12. CASE TellInsufficient
    BY <1>12 DEF TellInsufficient, FilterInv, NothingYet
  <1>13. CASE Cite
    BY <1>13 DEF Cite, FilterInv, NothingYet
  <1>14. CASE Conclude
    BY <1>14 DEF Conclude, FilterInv, NothingYet
  <1>15. CASE Cancel
    BY <1>15 DEF Cancel, FilterInv, NothingYet
  <1>16. CASE UNCHANGED answerVars
    BY <1>16 DEF answerVars, FilterInv, NothingYet
  <1> QED BY <1>1, <1>2, <1>3, <1>4, <1>5, <1>6, <1>7, <1>8, <1>9,
             <1>10, <1>11, <1>12, <1>13, <1>14, <1>15, <1>16 DEF AnswerNext

\* A text is a prefix of itself with more after it.
LEMMA PrefixOfJoined ==
    ASSUME NEW s \in Texts, NEW t \in Texts PROVE IsPrefix(s, s \o t)
  <1>1. Len(s) \in Nat /\ Len(t) \in Nat /\ s \o t \in Texts /\ Len(s \o t) = Len(s) + Len(t)
    BY Joined
  <1>2. Len(s) + 1 \in Nat \ {0} /\ Len(s) + 1 <= Len(s) + 1 /\ (Len(s) + 1) - 1 = Len(s)
    BY <1>1
  <1>3. Before(s \o t, Len(s) + 1) = Before(s, Len(s) + 1)
    BY <1>2, PartsOfFirst
  <1> QED BY <1>1, <1>2, <1>3 DEF IsPrefix, Before

(***************************************************************************)
(* The invariant and what it implies.                                      *)
(***************************************************************************)

AnswerIInv ==
    /\ AnswerTypeOK
    /\ NothingYet
    /\ PostsInv
    /\ PromptIsSound
    /\ AnswerInv
    /\ EventsInv
    /\ FilterInv

LEMMA AnswerIInvInit == AnswerInit => AnswerIInv
  <1> SUFFICES ASSUME AnswerInit PROVE AnswerIInv
    OBVIOUS
  <1>1. AnswerTypeOK
    BY AnswerTypeInit
  <1>2. NothingYet /\ PostsInv /\ PromptIsSound /\ FilterInv
    BY DEF AnswerInit, NothingYet, PostsInv, PostsAreBounded, PromptIsSound, FilterInv
  <1>3. AnswerInv
    <2>1. told = Before(answer, Len(told) + 1) /\ Len(told) <= Len(answer)
      BY NoTag, EmptySeq, WholeText DEF AnswerInit, Texts
    <2> QED BY <2>1 DEF AnswerInit, AnswerInv
  <1>4. EventsInv
    <2>1. events = <<>> /\ DOMAIN events = {}
      BY DEF AnswerInit
    <2> QED BY <2>1 DEF AnswerInit, EventsInv, EventsInOrder, Said
  <1> QED BY <1>1, <1>2, <1>3, <1>4 DEF AnswerIInv

LEMMA AnswerIInvNext == AnswerIInv /\ [AnswerNext]_answerVars => AnswerIInv'
  <1> SUFFICES ASSUME AnswerIInv, [AnswerNext]_answerVars PROVE AnswerIInv'
    OBVIOUS
  <1>1. AnswerTypeOK /\ NothingYet /\ PostsInv /\ PromptIsSound /\ AnswerInv /\ EventsInv
        /\ FilterInv
    BY DEF AnswerIInv
  <1>2. AnswerTypeOK'
    BY <1>1, AnswerTypeNext
  <1>3. NothingYet' /\ PostsInv' /\ PromptIsSound'
    BY <1>1, NothingYetNext, PostsNext, PromptNext
  <1>4. AnswerInv' /\ EventsInv' /\ FilterInv'
    BY <1>1, AnswerNextInv, EventsNext, FilterNext
  <1> QED BY <1>2, <1>3, <1>4 DEF AnswerIInv

LEMMA AnswerInvariant == AnswerSpec => []AnswerIInv
  <1> QED BY AnswerIInvInit, AnswerIInvNext, PTL DEF AnswerSpec

\* However the provider cuts its text into chunks, what the filter passes on is
\* what the text shows, for every text, every chunking and every number of
\* symbols kept of an unfinished block.
THEOREM AnswerChunksDoNotMatter == AnswerSpec => []ChunksDoNotMatter
  <1>1. AnswerIInv => ChunksDoNotMatter
    <2> SUFFICES ASSUME AnswerIInv PROVE ChunksDoNotMatter
      OBVIOUS
    <2>1. FilterInv /\ AnswerTypeOK
      BY DEF AnswerIInv
    <2>2. ASSUME phase = "streaming" PROVE IsPrefix(text, Shown[received])
      <3>1. text \in Texts /\ received \in Texts /\ filter \in Filter /\ <<>> \in Texts
        BY <2>1, NoTag, EmptySeq DEF AnswerTypeOK, Texts
      <3> DEFINE r == Rest(filter.inside, filter.buffer \o <<>>)
      <3>2. r \in Texts
        <4>1. filter.inside \in BOOLEAN /\ filter.buffer \o <<>> \in Texts
          BY <3>1, Joined DEF Filter
        <4> QED BY <4>1, RestText
      <3>3. Shown[received] = text \o r
        <4>1. received \o <<>> = received
          BY <3>1, ConcatEmptySeq DEF Texts
        <4> QED BY <4>1, <3>1, <2>1, <2>2 DEF FilterInv
      <3> HIDE DEF r
      <3>4. IsPrefix(text, text \o r)
        BY <3>1, <3>2, PrefixOfJoined
      <3> QED BY <3>3, <3>4
    <2> QED BY <2>1, <2>2 DEF ChunksDoNotMatter, FilterInv
  <1> QED BY <1>1, AnswerInvariant, PTL

\* What the caller receives of an answer is validated before its first part, shows
\* no reasoning, cites what the prompt supplied, is no text that the last line of
\* its stream said was cut short, and comes in order: retrieval, text, citations,
\* end.
THEOREM WhatIsToldIsSound == AnswerSpec => []TellingIsSound
  <1>1. AnswerIInv => TellingIsSound
    <2> SUFFICES ASSUME AnswerIInv PROVE TellingIsSound
      OBVIOUS
    <2>1. AnswerInv /\ EventsInOrder /\ told \in Texts /\ answer \in Texts
      BY DEF AnswerIInv, EventsInv, AnswerTypeOK
    <2>2. ASSUME told # <<>> PROVE ToldIsGrounded
      <3>1. /\ Len(told) \in Nat /\ Len(answer) \in Nat /\ Len(told) <= Len(answer)
            /\ told = Before(answer, Len(told) + 1)
        BY <2>1, WholeText DEF AnswerInv
      <3>2. answer # <<>>
        <4>1. Len(told) # 0 /\ Len(<<>>) = 0
          BY <2>1, <2>2, WholeText, EmptySeq
        <4> QED BY <4>1, <3>1
      <3>3. /\ Valid(answer) /\ Places(answer, Open) = {}
            /\ heard \in {"whole", "hidden", "silent"}
        BY <2>1, <3>2 DEF AnswerInv, PassesForWhole
      <3>4. /\ From(answer, Len(told) + 1) \in Texts
            /\ answer = told \o From(answer, Len(told) + 1)
        <4>1. PICK k : k = Len(told) + 1
          OBVIOUS
        <4>2. k \in Nat \ {0} /\ k <= Len(answer) + 1
          BY <4>1, <3>1
        <4>3. From(answer, k) \in Texts /\ answer = Before(answer, k) \o From(answer, k)
          BY <4>2, <2>1, Parts
        <4> QED BY <4>1, <4>3, <3>1
      <3>5. IsPrefix(told, answer)
        <4>1. IsPrefix(told, told \o From(answer, Len(told) + 1))
          BY <2>1, <3>4, PrefixOfJoined
        <4> QED BY <4>1, <3>4
      <3>6. ASSUME NEW i \in Places(told, Open) PROVE FALSE
        <4>1. At(told, Open, i) /\ i \in 1..(Len(told) - 1) /\ Open \in Tags
          BY <2>1, PlacesAt DEF At, Tags
        <4>2. At(told \o From(answer, Len(told) + 1), Open, i)
          BY <4>1, <2>1, <3>4, AtFirst
        <4>3. At(answer, Open, i)
          BY <4>2, <3>4
        <4> QED BY <4>1, <4>3, <3>3, <2>1, PlacesAt
      <3> QED BY <3>3, <3>5, <3>6 DEF ToldIsGrounded, Valid
    <2> QED BY <2>1, <2>2 DEF TellingIsSound, ToldIsGrounded
  <1> QED BY <1>1, AnswerInvariant, PTL

\* Whatever a search gives, the prompt keeps both its budgets, and its citations
\* name eligible results, in their order, none a duplicate of another.
THEOREM PromptsAreSound == AnswerSpec => []PromptIsSound
  <1>1. AnswerIInv => PromptIsSound
    BY DEF AnswerIInv
  <1> QED BY <1>1, AnswerInvariant, PTL

\* A question costs at most three requests to the provider when it is streamed, and
\* four when it is not, whatever fails.
THEOREM PostsStayBounded == AnswerSpec => []PostsAreBounded
  <1>1. AnswerIInv => PostsAreBounded
    BY DEF AnswerIInv, PostsInv
  <1> QED BY <1>1, AnswerInvariant, PTL

=============================================================================

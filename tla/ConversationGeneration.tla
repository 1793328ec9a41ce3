----------------------- MODULE ConversationGeneration -----------------------
(***************************************************************************)
(* Answers being generated in a user's conversations                       *)
(* (app/services/ai_conversation_service.py, its repository, and the two   *)
(* routes of app/api/routes/tenant/ai_answer.py that drive it).            *)
(*                                                                         *)
(* Each request inserts one assistant message as STREAMING, generates for  *)
(* a while and settles the message.  The owner's next list or question     *)
(* fails the messages that have been STREAMING for too long, whether or    *)
(* not their generation is still running.                                  *)
(*                                                                         *)
(* fail_stale is one UPDATE; in begin_message it locks the rows it changed *)
(* until that request commits or rolls back.  A partial unique index       *)
(* admits one STREAMING assistant message per conversation.  A request     *)
(* keeps the message it inserted in memory as STREAMING and does not read  *)
(* the row again unless a tool poll expired it.                            *)
(*                                                                         *)
(* One user (every query is scoped to the owner).  User messages go with   *)
(* their assistant message; content is left out.  The conversations'       *)
(* own rows, and the fairness, are in ConversationLifecycle.               *)
(***************************************************************************)
EXTENDS Naturals

CONSTANTS
    Messages,       \* assistant messages, one per answer request
    Conversations,
    None,           \* no conversation
    StaleAfter,     \* the 15 minutes of fail_stale
    MaxTime         \* bound: the clock stops here

ASSUME GenerationAssumption ==
    /\ StaleAfter \in Nat
    /\ MaxTime \in Nat
    /\ None \notin Conversations

VARIABLES
    clock,      \* datetime.now(UTC)
    row,        \* the table ai_conversation_messages
    request     \* the request that inserts and generates each message

vars == <<clock, row, request>>

Row == [status : {"absent", "streaming", "completed", "failed", "cancelled"},
        conversation : Conversations \cup {None}, created : Nat,
        code : {"none", "interrupted", "own"}]

Request == [step : {"new", "begun", "checked", "running", "terminating", "settled", "over"},
            conversation : Conversations \cup {None}, created : Nat,
            failing : SUBSET Messages,
            memory : {"streaming", "expired"},
            verdict : {"completed", "failed", "cancelled"},
            told : {"nothing", "complete", "error"}]

NoRow == [status |-> "absent", conversation |-> None, created |-> 0, code |-> "none"]

NewRequest == [step |-> "new", conversation |-> None, created |-> 0, failing |-> {},
               memory |-> "streaming", verdict |-> "completed", told |-> "nothing"]

Init ==
    /\ clock = 0
    /\ row = [m \in Messages |-> NoRow]
    /\ request = [m \in Messages |-> NewRequest]

-----------------------------------------------------------------------------
(***************************************************************************)
(* The database.                                                           *)
(***************************************************************************)

\* The rows fail_stale updates.
Stale == {m \in Messages : row[m].status = "streaming" /\ row[m].created + StaleAfter < clock}

\* What fail_stale makes of a row.
Failed(r) == [r EXCEPT !.status = "failed", !.code = "interrupted"]

InTransaction(m) == request[m].step \in {"begun", "checked"}

\* Rows a begin_message under way has updated.
Locked(m) == \E n \in Messages : InTransaction(n) /\ m \in request[n].failing

\* A STREAMING message of conversation c, as the transaction of m sees it.
ActiveGeneration(m, c) ==
    \E n \in Messages \ request[m].failing :
        row[n].status = "streaming" /\ row[n].conversation = c

-----------------------------------------------------------------------------
(***************************************************************************)
(* begin_message.                                                          *)
(***************************************************************************)

\* fail_stale opens the transaction (bound: the message can still go stale).
Begin(m, c) ==
    /\ request[m].step = "new"
    /\ clock + StaleAfter < MaxTime
    /\ \A n \in Stale : ~Locked(n)
    /\ request' = [request EXCEPT ![m] = [@ EXCEPT !.step = "begun", !.conversation = c,
                                                   !.created = clock, !.failing = Stale]]
    /\ UNCHANGED <<clock, row>>

\* The transaction ends without a trace, its locks with it.
RollBack(m) == request' = [request EXCEPT ![m] = [@ EXCEPT !.step = "over", !.failing = {}]]

\* has_active_generation: 409.
Refuse(m) ==
    /\ request[m].step = "begun"
    /\ ActiveGeneration(m, request[m].conversation)
    /\ RollBack(m)
    /\ UNCHANGED <<clock, row>>

Check(m) ==
    /\ request[m].step = "begun"
    /\ ~ActiveGeneration(m, request[m].conversation)
    /\ request' = [request EXCEPT ![m].step = "checked"]
    /\ UNCHANGED <<clock, row>>

\* The rows as m commits them.
WithMessage(m) ==
    [n \in Messages |->
        IF n = m THEN [status |-> "streaming", conversation |-> request[m].conversation,
                       created |-> request[m].created, code |-> "none"]
        ELSE IF n \in request[m].failing THEN Failed(row[n])
        ELSE row[n]]

\* Mutant: the unique index does not exist.
InsertUnindexed(m) ==
    /\ request[m].step = "checked"
    /\ row' = WithMessage(m)
    /\ request' = [request EXCEPT ![m] = [@ EXCEPT !.step = "running", !.failing = {}]]
    /\ UNCHANGED clock

\* The commit that inserts the STREAMING message ...
Insert(m) ==
    /\ request[m].step = "checked"
    /\ ~ActiveGeneration(m, request[m].conversation)
    /\ row' = WithMessage(m)
    /\ request' = [request EXCEPT ![m] = [@ EXCEPT !.step = "running", !.failing = {}]]
    /\ UNCHANGED clock

\* ... or the IntegrityError of uq_ai_conversation_active_generation: 409.
Conflict(m) ==
    /\ request[m].step = "checked"
    /\ ActiveGeneration(m, request[m].conversation)
    /\ RollBack(m)
    /\ UNCHANGED <<clock, row>>

-----------------------------------------------------------------------------
(***************************************************************************)
(* Generation.                                                             *)
(***************************************************************************)

\* OperationalToolService.result expires every object of the session; so does
\* get_db, which closes the session before a streamed response starts.
Poll(m) ==
    /\ request[m].step = "running"
    /\ request' = [request EXCEPT ![m].memory = "expired"]
    /\ UNCHANGED <<clock, row>>

\* complete: whatever the row says by now.
Complete(m) ==
    /\ request[m].step = "running"
    /\ ~Locked(m)
    /\ row' = [row EXCEPT ![m].status = "completed"]
    /\ request' = [request EXCEPT ![m] = [@ EXCEPT !.step = "settled",
                                                   !.verdict = "completed"]]
    /\ UNCHANGED clock

\* terminate, for an error or a disconnected client: the status in memory, or
\* in the row if it was expired, decides ...
TerminateRead(m, verdict) ==
    /\ request[m].step = "running"
    /\ request' = [request EXCEPT ![m] =
         [@ EXCEPT !.verdict = verdict,
                   !.step = IF request[m].memory = "streaming" \/ row[m].status = "streaming"
                            THEN "terminating" ELSE "settled"]]
    /\ UNCHANGED <<clock, row>>

\* ... whether the row is overwritten.
TerminateWrite(m) ==
    /\ request[m].step = "terminating"
    /\ ~Locked(m)
    /\ row' = [row EXCEPT ![m] = [@ EXCEPT !.status = request[m].verdict, !.code = "own"]]
    /\ request' = [request EXCEPT ![m].step = "settled"]
    /\ UNCHANGED clock

Report(m) ==
    request' = [request EXCEPT ![m] =
        [@ EXCEPT !.step = "over",
                  !.told = IF request[m].verdict = "completed" THEN "complete" ELSE "error"]]

\* Mutant: the terminal event is sent before the message is stored.
TellEarly(m) ==
    /\ request[m].step \in {"terminating", "settled"} /\ request[m].verdict # "cancelled"
    /\ Report(m)
    /\ UNCHANGED <<clock, row>>

\* The terminal event of the stream, or the response.
Tell(m) ==
    /\ request[m].step = "settled" /\ request[m].verdict # "cancelled"
    /\ Report(m)
    /\ UNCHANGED <<clock, row>>

\* The process ends, or the stream is closed where no handler of events runs
\* (while a frame is being sent; in the plain route, on any other exception).
Die(m) ==
    /\ request[m].step \notin {"new", "over"}
    /\ RollBack(m)
    /\ UNCHANGED <<clock, row>>

-----------------------------------------------------------------------------

\* Mutant: the UPDATE is never committed.
ListUncommitted ==
    /\ Stale # {}
    /\ UNCHANGED vars

\* list
List ==
    /\ Stale # {}
    /\ \A m \in Stale : ~Locked(m)
    /\ row' = [m \in Messages |-> IF m \in Stale THEN Failed(row[m]) ELSE row[m]]
    /\ UNCHANGED <<clock, request>>

Tick ==
    /\ clock < MaxTime
    /\ clock' = clock + 1
    /\ UNCHANGED <<row, request>>

BeginOn(m) == Refuse(m) \/ Check(m) \/ Insert(m) \/ Conflict(m)

Generate(m) ==
    \/ Poll(m)
    \/ Complete(m)
    \/ \E verdict \in {"failed", "cancelled"} : TerminateRead(m, verdict)
    \/ TerminateWrite(m)
    \/ Tell(m)
    \/ Die(m)

Next ==
    \/ \E m \in Messages :
         \/ \E c \in Conversations : Begin(m, c)
         \/ BeginOn(m)
         \/ Generate(m)
    \/ List
    \/ Tick

Spec == Init /\ [][Next]_vars

-----------------------------------------------------------------------------
(***************************************************************************)
(* Properties.                                                             *)
(***************************************************************************)

\* Type invariant of the message table and the requests.
TypeOK ==
    /\ clock \in Nat
    /\ row \in [Messages -> Row]
    /\ request \in [Messages -> Request]

\* A conversation never shows two answers being generated, although two
\* requests may find it idle at the same time.
OneStreaming ==
    \A m, n \in Messages :
        /\ row[m].status = "streaming"
        /\ row[n].status = "streaming"
        /\ row[m].conversation = row[n].conversation
        => m = n

\* The status a request itself gave its message.
SettledByRequest(m) ==
    row[m].status \in {"completed", "cancelled"} \/ row[m].code = "own"

\* No later question, list or straggling request touches a message that its
\* own request has settled.
SettledIsFinal ==
    [][\A m \in Messages : SettledByRequest(m) => row'[m] = row[m]]_vars

\* The user is told what is stored, and after it is stored.
ToldAsStored ==
    \A m \in Messages :
        /\ request[m].told = "complete" => row[m].status = "completed"
        /\ request[m].told = "error" => row[m].status = "failed"

\* docs/api/ai-conversations.md: streaming records do not remain active for
\* ever, whatever became of the request.
StreamingEnds ==
    \A m \in Messages : row[m].status = "streaming" ~> row[m].status # "streaming"

=============================================================================

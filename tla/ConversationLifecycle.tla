------------------------ MODULE ConversationLifecycle ------------------------
(***************************************************************************)
(* The conversations of a user: started by a question or on their own,     *)
(* continued, archived, restored and deleted, while answers are generated  *)
(* in them (app/services/ai_conversation_service.py and the routes of      *)
(* app/api/routes/tenant/ai_conversations.py).                             *)
(*                                                                         *)
(* The messages and their generation are those of ConversationGeneration;  *)
(* here the rows of the conversations, which nothing locks, are composed   *)
(* with them.  A request reads the context of the conversation, looks it   *)
(* up again in begin_message and writes it with its messages.  An edit of  *)
(* the owner writes the one column it is about, whatever it read before:   *)
(* it takes effect at its commit, or changes nothing.                      *)
(*                                                                         *)
(* Titles and previews are left out, and so are the limits on the context. *)
(***************************************************************************)
EXTENDS ConversationGeneration

VARIABLES
    conversation,   \* the table ai_conversations
    look            \* what the request of each message has read of them

lifeVars == <<vars, conversation, look>>

\* deleted_at hides a conversation whether or not it is archived.
Lifecycle == {"absent", "active", "archived", "deleted"}

\* context: stored with the message as context_message_ids; disturbed
\* (auxiliary): the owner archived or deleted the conversation since.
Look == [at : {"start", "context", "new", "found"}, of : Conversations \cup {None},
         context : SUBSET Messages, archived : BOOLEAN, disturbed : BOOLEAN]

NoLook == [at |-> "start", of |-> None, context |-> {}, archived |-> FALSE,
           disturbed |-> FALSE]

LifeInit ==
    /\ Init
    /\ conversation = [c \in Conversations |-> "absent"]
    /\ look = [m \in Messages |-> NoLook]

\* The request of m goes on as in ConversationGeneration; what it has read is
\* gone when it ends.
Remember(m) ==
    /\ look' = IF request'[m].step = "over" THEN [look EXCEPT ![m] = NoLook] ELSE look
    /\ UNCHANGED conversation

\* _owned finds it.
Owned(c) == conversation[c] \in {"active", "archived"}

-----------------------------------------------------------------------------
(***************************************************************************)
(* A question.                                                             *)
(***************************************************************************)

\* Mutant: whatever has been said so far.
CompletedAny(c) == {n \in Messages : row[n].status # "absent" /\ row[n].conversation = c}

\* The messages generation_context selects from.
Completed(c) == {n \in Messages : row[n].status = "completed" /\ row[n].conversation = c}

\* generation_context: a question in a conversation that exists.
ReadContext(m, c) ==
    /\ request[m].step = "new" /\ look[m].at = "start"
    /\ Owned(c)
    /\ look' = [look EXCEPT ![m] = [@ EXCEPT !.at = "context", !.of = c,
                                             !.context = Completed(c)]]
    /\ UNCHANGED <<vars, conversation>>

\* begin_message, in that conversation ...
Continue(m, c) ==
    /\ look[m].at = "context" /\ look[m].of = c
    /\ Begin(m, c)
    /\ UNCHANGED <<conversation, look>>

\* ... or in one with an id of its own.
Start(m, c) ==
    /\ look[m].at = "start"
    /\ conversation[c] = "absent" /\ \A n \in Messages : look[n].of # c
    /\ Begin(m, c)
    /\ look' = [look EXCEPT ![m] = [@ EXCEPT !.at = "new", !.of = c]]
    /\ UNCHANGED conversation

\* _owned, again.
Find(m) ==
    /\ request[m].step = "begun" /\ look[m].at = "context"
    /\ Owned(look[m].of)
    /\ look' = [look EXCEPT ![m] = [@ EXCEPT !.at = "found",
                      !.archived = (conversation[look[m].of] = "archived")]]
    /\ UNCHANGED <<vars, conversation>>

\* 404: the session is closed, and its transaction rolled back.
Missing(m) ==
    /\ request[m].step = "begun" /\ look[m].at = "context"
    /\ ~Owned(look[m].of)
    /\ RollBack(m)
    /\ Remember(m)
    /\ UNCHANGED <<clock, row>>

\* Nobody generates in a conversation that is new.
CheckFound(m) ==
    /\ \/ look[m].at = "found" /\ (Refuse(m) \/ Check(m))
       \/ look[m].at = "new" /\ Check(m)
    /\ Remember(m)

\* The messages are committed, and is_archived if it was read as true.
InsertFound(m) ==
    /\ look[m].at = "found"
    /\ Insert(m)
    /\ conversation' = [conversation EXCEPT ![look[m].of] =
                           IF look[m].archived /\ @ = "archived" THEN "active" ELSE @]
    /\ UNCHANGED look

\* Mutant: the conversation is committed before its messages are added.
CreatePairEarly(m) ==
    /\ look[m].at = "new" /\ request[m].step \in {"begun", "checked"}
    /\ conversation[look[m].of] = "absent"
    /\ conversation' = [conversation EXCEPT ![look[m].of] = "active"]
    /\ UNCHANGED <<vars, look>>

\* create_pair: one commit.
CreatePair(m) ==
    /\ look[m].at = "new"
    /\ Insert(m)
    /\ conversation' = [conversation EXCEPT ![look[m].of] = "active"]
    /\ UNCHANGED look

Ask(m) ==
    \/ Find(m) \/ Missing(m) \/ CheckFound(m) \/ InsertFound(m) \/ CreatePair(m)
    \/ Conflict(m) /\ Remember(m)

-----------------------------------------------------------------------------
(***************************************************************************)
(* The owner.                                                              *)
(***************************************************************************)

\* create: without a question.
Create(c) ==
    /\ conversation[c] = "absent" /\ \A n \in Messages : look[n].of # c
    /\ conversation' = [conversation EXCEPT ![c] = "active"]
    /\ UNCHANGED <<vars, look>>

\* The requests under way in c are told apart.
Disturb(c) ==
    look' = [m \in Messages |->
               IF look[m].of = c /\ look[m].at \in {"new", "found"}
               THEN [look[m] EXCEPT !.disturbed = TRUE] ELSE look[m]]

\* archive: a column of its own, which is written if it was read otherwise.
Archive(c) ==
    /\ conversation[c] = "active"
    /\ conversation' = [conversation EXCEPT ![c] = "archived"]
    /\ Disturb(c)
    /\ UNCHANGED vars

\* archive with false.
Restore(c) ==
    /\ conversation[c] = "archived"
    /\ conversation' = [conversation EXCEPT ![c] = "active"]
    /\ UNCHANGED <<vars, look>>

\* delete: deleted_at, for good.
Delete(c) ==
    /\ Owned(c)
    /\ conversation' = [conversation EXCEPT ![c] = "deleted"]
    /\ Disturb(c)
    /\ UNCHANGED vars

Owner == \E c \in Conversations : Create(c) \/ Archive(c) \/ Restore(c) \/ Delete(c)

-----------------------------------------------------------------------------

LifeNext ==
    \/ \E m \in Messages :
         \/ \E c \in Conversations : ReadContext(m, c) \/ Continue(m, c) \/ Start(m, c)
         \/ Ask(m)
         \/ Generate(m) /\ Remember(m)
    \/ Owner
    \/ (List \/ Tick) /\ UNCHANGED <<conversation, look>>

LifeSpec == LifeInit /\ [][LifeNext]_lifeVars

(***************************************************************************)
(* begin_message runs on until it returns, time passes, and the owner      *)
(* comes back to the list.  Nothing is assumed of a generation: it may     *)
(* hang for ever, or its process may be gone.                              *)
(***************************************************************************)
LifeFairness ==
    /\ WF_lifeVars(Tick /\ UNCHANGED <<conversation, look>>)
    /\ WF_lifeVars(List /\ UNCHANGED <<conversation, look>>)
    /\ \A m \in Messages : WF_lifeVars(Ask(m))

LifeFairSpec == LifeSpec /\ LifeFairness

-----------------------------------------------------------------------------
(***************************************************************************)
(* Properties, beside those of ConversationGeneration.                     *)
(***************************************************************************)

\* Type invariant.
LifeTypeOK ==
    /\ conversation \in [Conversations -> Lifecycle]
    /\ look \in [Messages -> Look]

\* Nothing that read a conversation before its deletion brings it back.
DeletionIsFinal ==
    [][\A c \in Conversations :
         conversation[c] = "deleted" => conversation'[c] = "deleted"]_lifeVars

\* A conversation that a question started never shows without the question,
\* and no message is left without a conversation, whatever fails in between.
StartedTogether ==
    \A m \in Messages :
        /\ row[m].status # "absent" => conversation[row[m].conversation] # "absent"
        /\ look[m].at = "new" /\ row[m].status = "absent"
               => conversation[look[m].of] = "absent"

\* An answer being generated is in a conversation the owner finds among the
\* active ones, unless the owner archived or deleted it since begin_message
\* looked it up: a question is not accepted after the deletion, and takes its
\* conversation out of the archive.
AnswersAreListed ==
    \A m \in Messages :
        row[m].status = "streaming" /\ look[m].at # "start" /\ ~look[m].disturbed
            => conversation[row[m].conversation] = "active"

\* Conversations and their messages stay together.
ConversationsAreWhole == StartedTogether /\ AnswersAreListed

\* "recent completed owned messages are passed as bounded conversation context"
\* (docs/api/ai-conversations.md), although they are read before the question
\* is accepted: of the same conversation, and completed for good.
ContextIsSettled ==
    \A m \in Messages : \A n \in look[m].context :
        /\ row[n].status = "completed"
        /\ row[n].conversation = look[m].of
        /\ row[m].status # "absent" => row[m].conversation = row[n].conversation

=============================================================================

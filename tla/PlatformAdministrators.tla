----------------------- MODULE PlatformAdministrators -----------------------
(***************************************************************************)
(* The administrators of the platform: login and lockout, setup and reset  *)
(* links, changes of role and activity, and the recovery from the command  *)
(* line (app/services/platform_*_service.py, app/cli).                     *)
(*                                                                         *)
(* As in TenantAccounts, a request is one or two reading steps and a       *)
(* commit of a session of its own; here no row is ever locked.  An account *)
(* is identified by its username; an email in use only refuses a request.  *)
(* A password is abstracted to whether the column is NULL, so that its     *)
(* replacement by a signed-in user is not a step.                          *)
(***************************************************************************)
EXTENDS Naturals, FiniteSets, UnitOfWork

CONSTANTS
    Accounts,       \* usernames
    Requests,       \* requests and commands served; each is served once
    MaxInvites,     \* bound: invitations ever issued
    LockAfter,      \* failed logins that lock an account (5)
    None            \* no account, no invitation

ASSUME PlatformAssumption ==
    /\ MaxInvites \in Nat
    /\ LockAfter \in Nat \ {0}
    /\ None \notin Accounts
    /\ None \notin Nat
    /\ IsFiniteSet(Accounts)

VARIABLES
    account,        \* the table platform_admin_users
    invite,         \* the table platform_admin_invites
    req,            \* what each request is doing
    spent,          \* auxiliary: the requests that used each invitation
    wrong,          \* auxiliary: logins rejected since an account was restored
    raced           \* auxiliary: which conflicts of requests have happened

adminVars == <<account, invite, req, spent, wrong, raced>>

Invites == 1..MaxInvites

Account == [exists : BOOLEAN, active : BOOLEAN, admin : BOOLEAN,
            password : BOOLEAN, failed : Nat, locked : BOOLEAN]

NoAccount == [exists |-> FALSE, active |-> FALSE, admin |-> FALSE,
              password |-> FALSE, failed |-> 0, locked |-> FALSE]

\* create_admin: active, with a password and the default role.
FirstAdmin == [NoAccount EXCEPT !.exists = TRUE, !.active = TRUE, !.admin = TRUE,
                                !.password = TRUE]

Invite == [purpose : {"none", "setup", "reset"}, user : Accounts \cup {None},
           used : BOOLEAN, expired : BOOLEAN]

NoInvite == [purpose |-> "none", user |-> None, used |-> FALSE, expired |-> FALSE]

Ops == {"idle", "done", "rejected", "accepted", "create", "update", "update_checked",
        "active", "active_checked", "reissue", "consume", "recover"}

Request == [op : Ops, actor : Accounts \cup {None}, user : Accounts \cup {None},
            copy : Account, invite : Invites \cup {None}, new : Invites \cup {None},
            seen : SUBSET Invites, value : BOOLEAN]

Idle == [op |-> "idle", actor |-> None, user |-> None, copy |-> NoAccount,
         invite |-> None, new |-> None, seen |-> {}, value |-> FALSE]

Finished == [Idle EXCEPT !.op = "done"]

-----------------------------------------------------------------------------

Administering == {"update", "update_checked", "active", "active_checked"}

SigningIn == {"rejected", "accepted"}

Restoring == {"consume", "recover"}

\* The conflicts recorded, each between the requests of two sets.
Conflicts == [administer |-> <<Administering, Administering>>,
              reissue    |-> <<{"reissue"}, {"reissue"}>>,
              consume    |-> <<{"consume"}, {"consume"}>>,
              restore    |-> <<SigningIn, Restoring>>]

Conflict(k, a, b) ==
    \/ a \in Conflicts[k][1] /\ b \in Conflicts[k][2]
    \/ b \in Conflicts[k][1] /\ a \in Conflicts[k][2]

\* Request r has made its first reads and goes on with record m.
Enter(r, m) ==
    /\ req' = [req EXCEPT ![r] = m]
    /\ raced' = raced \cup {k \in DOMAIN Conflicts :
                              \E q \in Requests \ {r} : Conflict(k, m.op, req[q].op)}

Leave(r) ==
    /\ req' = [req EXCEPT ![r] = Finished]
    /\ UNCHANGED raced

Taken == {i \in Invites : invite[i].purpose # "none"} \cup {req[r].new : r \in Requests}

Fresh(i) == i \notin Taken /\ \A k \in Invites : k < i => k \in Taken

\* get_current_platform_admin and require_platform_admin
Administrator(a) ==
    account[a].exists /\ account[a].active /\ ~account[a].locked /\ account[a].admin

\* count_active_admins; a locked account counts.
ActiveAdmins == {a \in Accounts : account[a].exists /\ account[a].active /\ account[a].admin}

Live(i) == invite[i].purpose # "none" /\ ~invite[i].used /\ ~invite[i].expired

Update(r, new) ==
    account' = [account EXCEPT ![req[r].user] = Flushed(@, req[r].copy, new)]

\* _new_invite: the invitations read expire and i is inserted.
Replace(is, i, purpose, u) ==
    [k \in Invites |->
        IF k = i THEN [NoInvite EXCEPT !.purpose = purpose, !.user = u]
        ELSE IF k \in is THEN [invite[k] EXCEPT !.expired = TRUE]
        ELSE invite[k]]

AdminInit ==
    /\ \E a \in Accounts :
         account = [u \in Accounts |-> IF u = a THEN FirstAdmin ELSE NoAccount]
    /\ invite = [i \in Invites |-> NoInvite]
    /\ req = [r \in Requests |-> Idle]
    /\ spent = [i \in Invites |-> {}]
    /\ wrong = [u \in Accounts |-> 0]
    /\ raced = {}

-----------------------------------------------------------------------------
(***************************************************************************)
(* Login and the links.                                                    *)
(***************************************************************************)

\* authenticate: an account that is inactive or locked is refused, uncounted.
LoginRead(r, u, verifies) ==
    LET good == account[u].password /\ verifies
    IN  /\ account[u].exists /\ account[u].active /\ ~account[u].locked
        /\ Enter(r, [Idle EXCEPT !.op = IF good THEN "accepted" ELSE "rejected",
                                 !.user = u, !.copy = account[u]])
        /\ wrong' = IF good THEN wrong ELSE [wrong EXCEPT ![u] = @ + 1]
        /\ UNCHANGED <<account, invite, spent>>

\* Mutant: the count goes on after an accepted login.
LoginCommitUncleared(r) ==
    LET c == req[r].copy
        failed == c.failed + 1
    IN  /\ req[r].op \in SigningIn
        /\ Update(r, [c EXCEPT !.failed = failed, !.locked = failed >= LockAfter])
        /\ Leave(r)
        /\ UNCHANGED <<invite, spent, wrong>>

\* record_successful_login, record_failed_login
LoginCommit(r) ==
    LET c == req[r].copy
        failed == IF req[r].op = "accepted" THEN 0 ELSE c.failed + 1
    IN  /\ req[r].op \in SigningIn
        /\ Update(r, [c EXCEPT !.failed = failed, !.locked = failed >= LockAfter])
        /\ Leave(r)
        /\ UNCHANGED <<invite, spent, wrong>>

UnusedResets(u) == {i \in Invites : invite[i].purpose = "reset"
                                    /\ invite[i].user = u /\ ~invite[i].used}

\* password_reset: the unused reset links are read, unlocked.
ReissueRead(r, u) ==
    /\ account[u].exists
    /\ \E i \in Invites :
         /\ Fresh(i)
         /\ Enter(r, [Idle EXCEPT !.op = "reissue", !.user = u, !.new = i,
                                  !.seen = UnusedResets(u)])
    /\ UNCHANGED <<account, invite, spent, wrong>>

ReissueCommit(r) ==
    /\ req[r].op = "reissue"
    /\ invite' = Replace(req[r].seen, req[r].new, "reset", req[r].user)
    /\ Leave(r)
    /\ UNCHANGED <<account, spent, wrong>>

\* consume_reset: the invitation and the account are read, unlocked.
ConsumeRead(r, i) ==
    /\ Live(i)
    /\ Enter(r, [Idle EXCEPT !.op = "consume", !.invite = i, !.user = invite[i].user,
                             !.copy = account[invite[i].user]])
    /\ UNCHANGED <<account, invite, spent, wrong>>

\* The account is active, unlocked and without failures; the hash is new.
Restored(c) == [c EXCEPT !.active = TRUE, !.locked = FALSE, !.failed = 0]

Restore(r) ==
    /\ account' = [account EXCEPT ![req[r].user] =
                     [Flushed(@, req[r].copy, Restored(req[r].copy))
                        EXCEPT !.password = TRUE]]
    /\ wrong' = [wrong EXCEPT ![req[r].user] = 0]

ConsumeCommit(r) ==
    /\ req[r].op = "consume"
    /\ Restore(r)
    /\ invite' = [invite EXCEPT ![req[r].invite].used = TRUE]
    /\ spent' = [spent EXCEPT ![req[r].invite] = @ \cup {r}]
    /\ Leave(r)

-----------------------------------------------------------------------------
(***************************************************************************)
(* Accounts.                                                               *)
(***************************************************************************)

CreateRead(r, actor, u, admin) ==
    /\ Administrator(actor)
    /\ ~account[u].exists
    /\ \E i \in Invites :
         /\ Fresh(i)
         /\ Enter(r, [Idle EXCEPT !.op = "create", !.actor = actor, !.user = u,
                                  !.new = i, !.value = admin])
    /\ UNCHANGED <<account, invite, spent, wrong>>

\* Mutant: an account that was never written has no counter of failures.
CreateCommitNull(r) ==
    /\ req[r].op = "create"
    /\ ~account[req[r].user].exists
    /\ account' = [account EXCEPT ![req[r].user] =
                     [NoAccount EXCEPT !.exists = TRUE, !.admin = req[r].value,
                                       !.failed = None]]
    /\ invite' = Replace({}, req[r].new, "setup", req[r].user)
    /\ Leave(r)
    /\ UNCHANGED <<spent, wrong>>

\* An inactive account without a password, and its setup invitation; the
\* unique index on the username objects to a second one.
CreateCommit(r) ==
    /\ req[r].op = "create"
    /\ ~account[req[r].user].exists
    /\ account' = [account EXCEPT ![req[r].user] =
                     [NoAccount EXCEPT !.exists = TRUE, !.admin = req[r].value]]
    /\ invite' = Replace({}, req[r].new, "setup", req[r].user)
    /\ Leave(r)
    /\ UNCHANGED <<spent, wrong>>

\* update: the role; email and name are left out.
UpdateRead(r, actor, u, admin) ==
    /\ Administrator(actor)
    /\ account[u].exists
    /\ Enter(r, [Idle EXCEPT !.op = "update", !.actor = actor, !.user = u,
                             !.copy = account[u], !.value = admin])
    /\ UNCHANGED <<account, invite, spent, wrong>>

\* set_active: nobody deactivates the own account.
ActiveRead(r, actor, u, active) ==
    /\ Administrator(actor)
    /\ account[u].exists
    /\ active \/ u # actor
    /\ Enter(r, [Idle EXCEPT !.op = "active", !.actor = actor, !.user = u,
                             !.copy = account[u], !.value = active])
    /\ UNCHANGED <<account, invite, spent, wrong>>

\* The change needs a second administrator: a demotion of oneself, and the
\* deactivation of an active administrator.
NeedsAnother(m) ==
    /\ ~m.value /\ m.copy.admin
    /\ IF m.op = "update" THEN m.user = m.actor ELSE m.copy.active

\* Mutant: only the deactivation is checked.
CheckDeactivationOnly(r) ==
    /\ req[r].op \in {"update", "active"}
    /\ req' = [req EXCEPT ![r] =
                 IF req[r].op = "active" /\ NeedsAnother(req[r]) /\ Cardinality(ActiveAdmins) <= 1
                 THEN Finished
                 ELSE [@ EXCEPT !.op = IF req[r].op = "update" THEN "update_checked"
                                       ELSE "active_checked"]]
    /\ UNCHANGED <<account, invite, spent, wrong, raced>>

\* The active administrators are counted, by a query of its own.
Check(r) ==
    /\ req[r].op \in {"update", "active"}
    /\ req' = [req EXCEPT ![r] =
                 IF NeedsAnother(req[r]) /\ Cardinality(ActiveAdmins) <= 1
                 THEN Finished
                 ELSE [@ EXCEPT !.op = IF req[r].op = "update" THEN "update_checked"
                                       ELSE "active_checked"]]
    /\ UNCHANGED <<account, invite, spent, wrong, raced>>

UpdateCommit(r) ==
    /\ req[r].op = "update_checked"
    /\ Update(r, [req[r].copy EXCEPT !.admin = req[r].value])
    /\ Leave(r)
    /\ UNCHANGED <<invite, spent, wrong>>

ActiveCommit(r) ==
    /\ req[r].op = "active_checked"
    /\ Update(r, [req[r].copy EXCEPT !.active = req[r].value])
    /\ Leave(r)
    /\ UNCHANGED <<invite, spent, wrong>>

\* resolve: the command line reads the account, and waits for its operator.
RecoverRead(r, u) ==
    /\ account[u].exists /\ account[u].admin
    /\ Enter(r, [Idle EXCEPT !.op = "recover", !.user = u, !.copy = account[u]])
    /\ UNCHANGED <<account, invite, spent, wrong>>

\* reset_password
RecoverCommit(r) ==
    /\ req[r].op = "recover"
    /\ Restore(r)
    /\ Leave(r)
    /\ UNCHANGED <<invite, spent>>

\* The database fails, an index objects, the operator gives up.
RollBack(r) ==
    /\ req[r].op \notin {"idle", "done"}
    /\ Leave(r)
    /\ UNCHANGED <<account, invite, spent, wrong>>

Expire(i) ==
    /\ Live(i)
    /\ invite' = [invite EXCEPT ![i].expired = TRUE]
    /\ UNCHANGED <<account, req, spent, wrong, raced>>

\* The endpoints of /platform/auth and /platform/users.
AdminBegin(r) ==
    \/ \E u \in Accounts, verifies \in BOOLEAN : LoginRead(r, u, verifies)
    \/ \E i \in Invites : ConsumeRead(r, i)
    \/ \E actor, u \in Accounts, value \in BOOLEAN :
         \/ CreateRead(r, actor, u, value)
         \/ UpdateRead(r, actor, u, value)
         \/ ActiveRead(r, actor, u, value)
    \/ \E actor, u \in Accounts : Administrator(actor) /\ ReissueRead(r, u)

\* Local commands, which need no API and act on administrators.
CommandBegin(r) ==
    \E u \in Accounts :
        \/ RecoverRead(r, u)
        \/ account[u].admin /\ ReissueRead(r, u)

AdminEnd(r) ==
    \/ LoginCommit(r) \/ ReissueCommit(r) \/ ConsumeCommit(r)
    \/ CreateCommit(r) \/ Check(r) \/ UpdateCommit(r) \/ ActiveCommit(r)
    \/ RecoverCommit(r) \/ RollBack(r)

-----------------------------------------------------------------------------
(***************************************************************************)
(* Properties.                                                             *)
(***************************************************************************)

\* Type invariant of the tables, the requests and the auxiliary variables.
AdminTypeOK ==
    /\ account \in [Accounts -> Account]
    /\ invite \in [Invites -> Invite]
    /\ req \in [Requests -> Request]
    /\ spent \in [Invites -> SUBSET Requests]
    /\ wrong \in [Accounts -> Nat]
    /\ raced \subseteq DOMAIN Conflicts

\* "The last active platform administrator cannot be deactivated", nor remove
\* the own role; others are demoted unchecked, which is enough because the one
\* who demotes is an active administrator.  Two changes at once may undo it.
PlatformAdministratorRemains ==
    "administer" \notin raced => ActiveAdmins # {}

\* A setup or reset link sets one password, and a reset link replaces the
\* earlier ones, unless two requests of that kind overlapped.
PlatformLinks ==
    /\ "consume" \notin raced => \A i \in Invites : Cardinality(spent[i]) <= 1
    /\ "reissue" \notin raced =>
         \A u \in Accounts : Cardinality({i \in UnusedResets(u) : Live(i)}) <= 1

\* A link or a recovery gives a clean slate: the account is locked only by
\* LockAfter rejected logins since.  docs/operations/platform-admin-recovery.md
\* says that a recovery "activates and unlocks" the account; a login that fails
\* while its operator is typing the password undoes that, hence the condition.
CleanSlate ==
    "restore" \notin raced =>
        \A u \in Accounts :
            /\ account[u].failed <= wrong[u]
            /\ account[u].locked => wrong[u] >= LockAfter

\* What is promised of links and recoveries.
LinksAndRecoveries == PlatformLinks /\ CleanSlate

=============================================================================

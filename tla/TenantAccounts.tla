--------------------------- MODULE TenantAccounts ---------------------------
(***************************************************************************)
(* The accounts of one tenant: local login and lockout, password reset     *)
(* tokens, invitations and their activation, and the administrators'       *)
(* changes of role and activity (app/services/tenant_*_service.py).        *)
(*                                                                         *)
(* Every request has a database session of its own: it reads rows, works   *)
(* on the copies (hashing a password takes most of its time) and writes,   *)
(* at its commit, only the columns whose value differs from its copy.      *)
(* Reset tokens are read FOR UPDATE, nothing else is locked.  A request    *)
(* therefore is one or two reading steps and a commit; it may also end     *)
(* without one.                                                            *)
(*                                                                         *)
(* A user is identified by the normalized email, which a unique index      *)
(* guards.  The two link tables are one here, told apart by the purpose of *)
(* a link; created_at is the start of the inserting transaction, so links  *)
(* are numbered when their request begins.  Time only matters to links,    *)
(* which may expire at any moment; a reset reads its clock before it waits *)
(* for the token's lock.  Passwords are abstracted to whether the column   *)
(* is NULL and whether a presented one verifies.                           *)
(***************************************************************************)
EXTENDS Naturals, FiniteSets, UnitOfWork

CONSTANTS
    Users,          \* email addresses
    Names,          \* usernames
    AdminName,      \* the username admin_{slug} of the bootstrap account
    Requests,       \* requests served; each is served once
    MaxLinks,       \* bound: links ever issued
    LockAfter,      \* failed logins that lock an account (5)
    None            \* no user, no link

ASSUME AccountsAssumption ==
    /\ MaxLinks \in Nat
    /\ LockAfter \in Nat \ {0}
    /\ AdminName \in Names
    /\ None \notin Users
    /\ None \notin Nat
    /\ IsFiniteSet(Users)

VARIABLES
    user,           \* the table tenant_users
    link,           \* tenant_password_reset_tokens and tenant_admin_invites
    req,            \* what each request is doing
    spent,          \* auxiliary: the requests that set a password with a link
    wrong,          \* auxiliary: logins rejected per user
    overlapped      \* auxiliary: kinds of requests two of which overlapped

vars == <<user, link, req, spent, wrong, overlapped>>

Links == 1..MaxLinks

Invitations == {"bootstrap", "user_setup", "password_reset"}

User == [exists : BOOLEAN, active : BOOLEAN, admin : BOOLEAN, local : BOOLEAN,
         name : Names \cup {None}, password : BOOLEAN, failed : Nat,
         locked : BOOLEAN]

Link == [purpose : Invitations \cup {"none", "reset"}, user : Users \cup {None},
         used : BOOLEAN, expired : BOOLEAN]

NoUser == [exists |-> FALSE, active |-> FALSE, admin |-> FALSE, local |-> FALSE,
           name |-> None, password |-> FALSE, failed |-> 0, locked |-> FALSE]

NoLink == [purpose |-> "none", user |-> None, used |-> FALSE, expired |-> FALSE]

Ops == {"idle", "done", "rejected", "accepted", "issue", "present", "reset", "activate",
        "bootstrap", "regenerate", "recipient", "create", "invite", "change",
        "role", "role_counted", "active", "active_counted"}

Request == [op : Ops, user : Users \cup {None}, copy : User,
            link : Links \cup {None}, new : Links \cup {None},
            seen : SUBSET Links, value : BOOLEAN, name : Names \cup {None}]

Idle == [op |-> "idle", user |-> None, copy |-> NoUser, link |-> None,
         new |-> None, seen |-> {}, value |-> FALSE, name |-> None]

Finished == [Idle EXCEPT !.op = "done"]

-----------------------------------------------------------------------------

\* The kinds of requests whose overlap is recorded.
Kind(op) ==
    CASE op \in {"role", "role_counted", "active", "active_counted"} -> "administer"
      [] op = "issue" -> "issue"
      [] op \in {"invite", "regenerate", "recipient"} -> "invite"
      [] op \in {"activate", "bootstrap"} -> "activate"
      [] OTHER -> "none"

\* Request r has made its first reads and goes on with record m.
Enter(r, m) ==
    /\ req[r].op = "idle"
    /\ req' = [req EXCEPT ![r] = m]
    /\ overlapped' = overlapped \cup
         {k \in {Kind(m.op)} \ {"none"} : \E q \in Requests \ {r} : Kind(req[q].op) = k}

Leave(r) ==
    /\ req' = [req EXCEPT ![r] = Finished]
    /\ UNCHANGED overlapped

\* Numbers are taken when the inserting transaction starts, in that order.
Taken == {l \in Links : link[l].purpose # "none"} \cup {req[r].new : r \in Requests}

Fresh(l) ==
    /\ l = 1 \/ l - 1 \in Taken
    /\ \A k \in Links \cap Taken : k < l

\* get_current_tenant_user: the row is read again by every request.
Admitted(u) == user[u].exists /\ user[u].active /\ ~user[u].locked

\* require_tenant_admin
Administrator(u) == Admitted(u) /\ user[u].admin

\* count_active_admins
ActiveAdmins == {u \in Users : user[u].exists /\ user[u].active /\ user[u].admin}

Live(l) == link[l].purpose # "none" /\ ~link[l].used /\ ~link[l].expired

\* SELECT ... FOR UPDATE of a reset token, held to the end of the transaction.
Locked(l) == \E r \in Requests : req[r].op = "reset" /\ req[r].link = l

\* UPDATE of the columns that differ from the copy the request read.
Write(u, copy, new) == [user EXCEPT ![u] = Flushed(@, copy, new)]

\* The links in ls are given expires_at = now and link l is inserted.
Replace(ls, l, purpose, u) ==
    [k \in Links |->
        IF k = l THEN [NoLink EXCEPT !.purpose = purpose, !.user = u]
        ELSE IF k \in ls THEN [link[k] EXCEPT !.expired = TRUE]
        ELSE link[k]]

\* The rows of a tenant that has just been created, and of one in use: the
\* bootstrap invitation of a has been used, b is its second administrator.
NewTenant ==
    /\ user = [u \in Users |-> NoUser]
    /\ \E a \in Users :
         link = [l \in Links |->
                   IF l = 1 THEN [NoLink EXCEPT !.purpose = "bootstrap", !.user = a]
                   ELSE NoLink]

Account(name) == [exists |-> TRUE, active |-> TRUE, admin |-> TRUE, local |-> TRUE,
                  name |-> name, password |-> TRUE, failed |-> 0, locked |-> FALSE]

RunningTenant ==
    \E a, b \in Users, n \in Names :
        /\ a # b /\ n # AdminName
        /\ user = [u \in Users |-> IF u = a THEN Account(AdminName)
                                   ELSE IF u = b THEN Account(n) ELSE NoUser]
        /\ link = [l \in Links |->
                     IF l = 1 THEN [purpose |-> "bootstrap", user |-> a,
                                    used |-> TRUE, expired |-> FALSE]
                     ELSE NoLink]

Init ==
    /\ NewTenant \/ RunningTenant
    /\ req = [r \in Requests |-> Idle]
    /\ spent = [l \in Links |-> {}]
    /\ wrong = [u \in Users |-> 0]
    /\ overlapped = {}

-----------------------------------------------------------------------------
(***************************************************************************)
(* Local login.                                                            *)
(***************************************************************************)

\* The account may log in: every condition of authenticate but the password.
MayLogIn(u) == user[u].local /\ user[u].active /\ ~user[u].locked

\* authenticate: the user is read and the password verified against the copy.
LoginRead(r, u, verifies) ==
    LET good == MayLogIn(u) /\ user[u].password /\ verifies
    IN  /\ user[u].exists
        /\ Enter(r, IF good THEN [Idle EXCEPT !.op = "accepted", !.user = u,
                                              !.copy = user[u]]
                    ELSE IF MayLogIn(u)
                    THEN [Idle EXCEPT !.op = "rejected", !.user = u,
                                      !.copy = user[u]]
                    ELSE Finished)
        /\ wrong' = IF ~good /\ MayLogIn(u) THEN [wrong EXCEPT ![u] = @ + 1]
                    ELSE wrong
        /\ UNCHANGED <<user, link, spent>>

LoginAccept(r) ==
    LET c == req[r].copy
    IN  /\ req[r].op = "accepted"
        /\ user' = Write(req[r].user, c, [c EXCEPT !.failed = 0])
        /\ Leave(r)
        /\ UNCHANGED <<link, spent, wrong>>

\* Mutant: the account is locked one failure early.
LoginRejectEarly(r) ==
    LET c == req[r].copy
    IN  /\ req[r].op = "rejected"
        /\ user' = Write(req[r].user, c,
                         [c EXCEPT !.failed = c.failed + 1,
                                   !.locked = c.failed + 2 >= LockAfter])
        /\ Leave(r)
        /\ UNCHANGED <<link, spent, wrong>>

\* The failure is counted on the copy; overlapping failures count once.
LoginReject(r) ==
    LET c == req[r].copy
    IN  /\ req[r].op = "rejected"
        /\ user' = Write(req[r].user, c,
                         [c EXCEPT !.failed = c.failed + 1,
                                   !.locked = c.failed + 1 >= LockAfter])
        /\ Leave(r)
        /\ UNCHANGED <<link, spent, wrong>>

-----------------------------------------------------------------------------
(***************************************************************************)
(* Password reset tokens.                                                  *)
(***************************************************************************)

LiveResets(u) == {l \in Links : link[l].purpose = "reset" /\ link[l].user = u /\ Live(l)}

\* request_for_email of the user, request_by_platform_admin of an administrator:
\* the live tokens are read, without a lock.
ResetRequest(r, u, byPlatform) ==
    /\ user[u].exists /\ user[u].local /\ user[u].active
    /\ byPlatform => user[u].admin
    /\ \E l \in Links :
         /\ Fresh(l)
         /\ Enter(r, [Idle EXCEPT !.op = "issue", !.user = u, !.new = l,
                                  !.seen = LiveResets(u)])
    /\ UNCHANGED <<user, link, spent, wrong>>

\* Mutant: the tokens issued earlier stay valid.
ResetIssueKeeping(r) ==
    /\ req[r].op = "issue"
    /\ link' = Replace({}, req[r].new, "reset", req[r].user)
    /\ Leave(r)
    /\ UNCHANGED <<user, spent, wrong>>

\* _issue: the UPDATE of the tokens read waits for a reset that holds one.
ResetIssue(r) ==
    /\ req[r].op = "issue"
    /\ \A l \in req[r].seen : ~Locked(l)
    /\ link' = Replace(req[r].seen, req[r].new, "reset", req[r].user)
    /\ Leave(r)
    /\ UNCHANGED <<user, spent, wrong>>

\* reset: the clock is read, by which the token presented has not expired.
ResetPresent(r, l) ==
    /\ link[l].purpose = "reset" /\ Live(l)
    /\ Enter(r, [Idle EXCEPT !.op = "present", !.link = l])
    /\ UNCHANGED <<user, link, spent, wrong>>

\* Mutant: the token is read without FOR UPDATE.
ResetLockUnlocked(r) ==
    LET l == req[r].link
        u == link[l].user
    IN  /\ req[r].op = "present"
        /\ ~link[l].used
        /\ user[u].local /\ user[u].active
        /\ req' = [req EXCEPT ![r].op = "reset", ![r].user = u, ![r].copy = user[u]]
        /\ UNCHANGED <<user, link, spent, wrong, overlapped>>

\* The token is locked, as soon as nobody else has it, unless it has been used;
\* one withdrawn since the clock was read passes.  Its user is read.
ResetLock(r) ==
    LET l == req[r].link
        u == link[l].user
    IN  /\ req[r].op = "present"
        /\ ~link[l].used /\ ~Locked(l)
        /\ user[u].local /\ user[u].active
        /\ req' = [req EXCEPT ![r].op = "reset", ![r].user = u, ![r].copy = user[u]]
        /\ UNCHANGED <<user, link, spent, wrong, overlapped>>

\* The password is new whatever it was, so that column is always written.
ResetCommit(r) ==
    LET c == req[r].copy
        u == req[r].user
    IN  /\ req[r].op = "reset"
        /\ user' = [Write(u, c, [c EXCEPT !.failed = 0, !.locked = FALSE])
                      EXCEPT ![u].password = TRUE]
        /\ link' = [link EXCEPT ![req[r].link].used = TRUE]
        /\ spent' = [spent EXCEPT ![req[r].link] = @ \cup {r}]
        /\ Leave(r)
        /\ UNCHANGED wrong

-----------------------------------------------------------------------------
(***************************************************************************)
(* Invitations.                                                            *)
(***************************************************************************)

Bootstraps == {l \in Links : link[l].purpose = "bootstrap"}

\* The latest of a set of links, by created_at.
Latest(ls) == CHOOSE l \in ls : \A k \in ls : k <= l

UnusedBootstraps == {l \in Bootstraps : ~link[l].used}

\* activate: the invitation is read without a lock, then the account.
ActivateRead(r, l) ==
    LET u == link[l].user
    IN  /\ link[l].purpose \in {"user_setup", "password_reset"}
        /\ Live(l)
        /\ Enter(r, [Idle EXCEPT !.op = "activate", !.link = l, !.user = u,
                                 !.copy = user[u]])
        /\ UNCHANGED <<user, link, spent, wrong>>

\* Mutant: the invitation is left unused.
ActivateCommitUnused(r) ==
    LET c == req[r].copy
        u == req[r].user
    IN  /\ req[r].op = "activate"
        /\ user' = [Write(u, c, [c EXCEPT !.active = TRUE]) EXCEPT ![u].password = TRUE]
        /\ UNCHANGED link
        /\ spent' = [spent EXCEPT ![req[r].link] = @ \cup {r}]
        /\ Leave(r)
        /\ UNCHANGED wrong

\* Neither the lock nor the count of failures is touched.
ActivateCommit(r) ==
    LET c == req[r].copy
        u == req[r].user
    IN  /\ req[r].op = "activate"
        /\ user' = [Write(u, c, [c EXCEPT !.active = TRUE]) EXCEPT ![u].password = TRUE]
        /\ link' = [link EXCEPT ![req[r].link].used = TRUE]
        /\ spent' = [spent EXCEPT ![req[r].link] = @ \cup {r}]
        /\ Leave(r)
        /\ UNCHANGED wrong

NameTaken(n) == \E v \in Users : user[v].exists /\ user[v].name = n

\* activate of a bootstrap invitation: neither email nor username is in use.
BootstrapRead(r, l) ==
    /\ l \in Bootstraps /\ Live(l)
    /\ ~user[link[l].user].exists
    /\ ~NameTaken(AdminName)
    /\ Enter(r, [Idle EXCEPT !.op = "bootstrap", !.link = l, !.user = link[l].user])
    /\ UNCHANGED <<user, link, spent, wrong>>

\* The account is inserted, unless the unique index on the email objects.
BootstrapCommit(r) ==
    /\ req[r].op = "bootstrap"
    /\ ~user[req[r].user].exists
    /\ user' = [user EXCEPT ![req[r].user] = Account(AdminName)]
    /\ link' = [link EXCEPT ![req[r].link].used = TRUE]
    /\ spent' = [spent EXCEPT ![req[r].link] = @ \cup {r}]
    /\ Leave(r)
    /\ UNCHANGED wrong

\* regenerate: the latest unused bootstrap invitation is replaced, or, when
\* every one has been used, the latest is repeated.
RegenerateRead(r) ==
    /\ Bootstraps # {}
    /\ \E l \in Links :
         LET previous == IF UnusedBootstraps = {} THEN {} ELSE {Latest(UnusedBootstraps)}
             source == IF previous = {} THEN Latest(Bootstraps) ELSE Latest(previous)
         IN  /\ Fresh(l)
             /\ Enter(r, [Idle EXCEPT !.op = "regenerate", !.new = l,
                                      !.user = link[source].user, !.seen = previous])
    /\ UNCHANGED <<user, link, spent, wrong>>

\* update_recipient: refused once the latest invitation has been used.
RecipientRead(r, u) ==
    /\ Bootstraps # {}
    /\ ~link[Latest(Bootstraps)].used
    /\ \E l \in Links :
         /\ Fresh(l)
         /\ Enter(r, [Idle EXCEPT !.op = "recipient", !.new = l, !.user = u,
                                  !.seen = {Latest(Bootstraps)}])
    /\ UNCHANGED <<user, link, spent, wrong>>

\* create_invite and the commit of either.
BootstrapReissue(r) ==
    /\ req[r].op \in {"regenerate", "recipient"}
    /\ link' = Replace(req[r].seen, req[r].new, "bootstrap", req[r].user)
    /\ Leave(r)
    /\ UNCHANGED <<user, spent, wrong>>

\* create: neither the email nor the username is in use.
CreateRead(r, actor, u, n, admin) ==
    /\ Administrator(actor)
    /\ ~user[u].exists /\ ~NameTaken(n)
    /\ \E l \in Links :
         /\ Fresh(l)
         /\ Enter(r, [Idle EXCEPT !.op = "create", !.user = u, !.new = l,
                                  !.name = n, !.value = admin])
    /\ UNCHANGED <<user, link, spent, wrong>>

\* Mutant: the counter of failures starts out NULL.
CreateCommitNull(r) ==
    /\ req[r].op = "create"
    /\ ~user[req[r].user].exists
    /\ user' = [user EXCEPT ![req[r].user] =
                  [NoUser EXCEPT !.exists = TRUE, !.local = TRUE, !.failed = None,
                                 !.admin = req[r].value, !.name = req[r].name]]
    /\ link' = Replace({}, req[r].new, "user_setup", req[r].user)
    /\ Leave(r)
    /\ UNCHANGED <<spent, wrong>>

\* An inactive account without a password, and its setup invitation.
CreateCommit(r) ==
    /\ req[r].op = "create"
    /\ ~user[req[r].user].exists
    /\ user' = [user EXCEPT ![req[r].user] =
                  [NoUser EXCEPT !.exists = TRUE, !.local = TRUE,
                                 !.admin = req[r].value, !.name = req[r].name]]
    /\ link' = Replace({}, req[r].new, "user_setup", req[r].user)
    /\ Leave(r)
    /\ UNCHANGED <<spent, wrong>>

UnusedInvites(u) == {l \in Links : link[l].purpose = "password_reset"
                                   /\ link[l].user = u /\ ~link[l].used}

\* reset by an administrator of the tenant: an invitation, not a reset token.
InviteRead(r, actor, u) ==
    /\ Administrator(actor)
    /\ user[u].exists /\ user[u].local
    /\ \E l \in Links :
         /\ Fresh(l)
         /\ Enter(r, [Idle EXCEPT !.op = "invite", !.user = u, !.new = l,
                                  !.seen = UnusedInvites(u)])
    /\ UNCHANGED <<user, link, spent, wrong>>

\* _invite: every unused invitation read expires.
InviteCommit(r) ==
    /\ req[r].op = "invite"
    /\ link' = Replace(req[r].seen, req[r].new, "password_reset", req[r].user)
    /\ Leave(r)
    /\ UNCHANGED <<user, spent, wrong>>

-----------------------------------------------------------------------------
(***************************************************************************)
(* Accounts.                                                               *)
(***************************************************************************)

\* change_password of a signed-in user who presents the current password.
ChangeRead(r, u) ==
    /\ Admitted(u) /\ user[u].local /\ user[u].password
    /\ Enter(r, [Idle EXCEPT !.op = "change", !.user = u])
    /\ UNCHANGED <<user, link, spent, wrong>>

ChangeCommit(r) ==
    /\ req[r].op = "change"
    /\ user' = [user EXCEPT ![req[r].user].password = TRUE]
    /\ Leave(r)
    /\ UNCHANGED <<link, spent, wrong>>

\* set_role: the actor and the user are read.
RoleRead(r, actor, u, admin) ==
    /\ Administrator(actor)
    /\ user[u].exists
    /\ Enter(r, [Idle EXCEPT !.op = "role", !.user = u, !.copy = user[u],
                             !.value = admin])
    /\ UNCHANGED <<user, link, spent, wrong>>

\* set_active: nobody deactivates the own account.
ActiveRead(r, actor, u, active) ==
    /\ Administrator(actor)
    /\ user[u].exists
    /\ active \/ u # actor
    /\ Enter(r, [Idle EXCEPT !.op = "active", !.user = u, !.copy = user[u],
                             !.value = active])
    /\ UNCHANGED <<user, link, spent, wrong>>

\* Mutant: two administrators are taken for enough when none is left.
LastAdministratorLoose(r) ==
    /\ req[r].copy.admin /\ req[r].copy.active /\ ~req[r].value
    /\ Cardinality(ActiveAdmins) < 1

\* The change would take the last active administrator, as counted now.
LastAdministrator(r) ==
    /\ req[r].copy.admin /\ req[r].copy.active /\ ~req[r].value
    /\ Cardinality(ActiveAdmins) <= 1

\* The administrators are counted, by a query of its own.
Count(r) ==
    /\ req[r].op \in {"role", "active"}
    /\ req' = [req EXCEPT ![r] =
                 IF LastAdministrator(r) THEN Finished
                 ELSE [@ EXCEPT !.op = IF req[r].op = "role" THEN "role_counted"
                                       ELSE "active_counted"]]
    /\ UNCHANGED <<user, link, spent, wrong, overlapped>>

RoleCommit(r) ==
    LET c == req[r].copy
    IN  /\ req[r].op = "role_counted"
        /\ user' = Write(req[r].user, c, [c EXCEPT !.admin = req[r].value])
        /\ Leave(r)
        /\ UNCHANGED <<link, spent, wrong>>

ActiveCommit(r) ==
    LET c == req[r].copy
    IN  /\ req[r].op = "active_counted"
        /\ user' = Write(req[r].user, c, [c EXCEPT !.active = req[r].value])
        /\ Leave(r)
        /\ UNCHANGED <<link, spent, wrong>>

\* A unique index objects, the database fails, or the process ends.
RollBack(r) ==
    /\ req[r].op \notin {"idle", "done"}
    /\ Leave(r)
    /\ UNCHANGED <<user, link, spent, wrong>>

\* A single sign-on (provision): a new account, or a local one taken over.
SignOn(u) ==
    /\ user[u].exists => user[u].active /\ ~user[u].locked /\ user[u].local
    /\ user' = [user EXCEPT ![u] =
                  IF user[u].exists THEN [@ EXCEPT !.local = FALSE]
                  ELSE [NoUser EXCEPT !.exists = TRUE, !.active = TRUE]]
    /\ UNCHANGED <<link, req, spent, wrong, overlapped>>

\* The hour or the day of a link has passed.
Expire(l) ==
    /\ Live(l)
    /\ link' = [link EXCEPT ![l].expired = TRUE]
    /\ UNCHANGED <<user, req, spent, wrong, overlapped>>

\* /tenant/auth: anyone, with a link or a password.
AuthEndpoints(r) ==
    \/ \E u \in Users, verifies \in BOOLEAN : LoginRead(r, u, verifies)
    \/ \E u \in Users : ResetRequest(r, u, FALSE) \/ ChangeRead(r, u)
    \/ \E l \in Links : ResetPresent(r, l) \/ ActivateRead(r, l) \/ BootstrapRead(r, l)

\* /tenant/admin/users: administrators of the tenant.
UserEndpoints(r) ==
    \E actor, u \in Users :
        \/ InviteRead(r, actor, u)
        \/ \E n \in Names, admin \in BOOLEAN : CreateRead(r, actor, u, n, admin)
        \/ \E admin \in BOOLEAN : RoleRead(r, actor, u, admin)
        \/ \E active \in BOOLEAN : ActiveRead(r, actor, u, active)

\* /platform/tenants/{slug}/admin-invite and .../administrators: the platform.
PlatformEndpoints(r) ==
    \/ RegenerateRead(r)
    \/ \E u \in Users : RecipientRead(r, u) \/ ResetRequest(r, u, TRUE)

Begin(r) == AuthEndpoints(r) \/ UserEndpoints(r) \/ PlatformEndpoints(r)

End(r) ==
    \/ LoginAccept(r) \/ LoginReject(r)
    \/ ResetIssue(r) \/ ResetLock(r) \/ ResetCommit(r)
    \/ ActivateCommit(r) \/ BootstrapCommit(r) \/ BootstrapReissue(r)
    \/ CreateCommit(r) \/ InviteCommit(r) \/ ChangeCommit(r)
    \/ Count(r) \/ RoleCommit(r) \/ ActiveCommit(r)
    \/ RollBack(r)

Next ==
    \/ \E r \in Requests : Begin(r) \/ End(r)
    \/ \E u \in Users : SignOn(u)
    \/ \E l \in Links : Expire(l)

Spec == Init /\ [][Next]_vars


-----------------------------------------------------------------------------
(***************************************************************************)
(* Properties.                                                             *)
(***************************************************************************)

\* Type invariant of the tables, the requests and the auxiliary variables.
TypeOK ==
    /\ user \in [Users -> User]
    /\ link \in [Links -> Link]
    /\ req \in [Requests -> Request]
    /\ spent \in [Links -> SUBSET Requests]
    /\ wrong \in [Users -> Nat]
    /\ overlapped \subseteq {"administer", "issue", "invite", "activate"}

(***************************************************************************)
(* A reset token seen as a single-use credential.  One that was valid when *)
(* a reset read its clock counts as valid until that reset has ended.      *)
(***************************************************************************)
Presented(l) == \E r \in Requests : req[r].op \in {"present", "reset"} /\ req[r].link = l

ResetState ==
    [l \in Links |->
        IF link[l].purpose # "reset" THEN "unissued"
        ELSE IF link[l].used THEN "spent"
        ELSE IF link[l].expired /\ ~Presented(l) THEN "withdrawn"
        ELSE "valid"]

ResetSpentOn == [l \in Links |-> IF link[l].purpose = "reset" THEN spent[l] ELSE {}]

ResetToken == INSTANCE OneTimeCredential WITH
    Credentials <- Links, Beneficiaries <- Requests,
    state <- ResetState, spentOn <- ResetSpentOn

\* The reset link "is single-use" (the mail of _issue): it sets one password,
\* and none if it was presented after a newer request withdrew it, however
\* requests overlap.
ResetTokensAreOneTime == ResetToken!Spec

\* Invitations are not locked: one sets one password as long as no two
\* activations overlap.
InvitationsSpentOnce ==
    "activate" \notin overlapped =>
        \A l \in Links : Cardinality(spent[l]) <= 1

\* A request for a link replaces the earlier ones of its kind, so that a user
\* has one live reset token, one live invitation, and the tenant one live
\* bootstrap invitation, unless two such requests overlapped.
NewestLinkOnly ==
    /\ "issue" \notin overlapped =>
         \A u \in Users : Cardinality(LiveResets(u)) <= 1
    /\ "invite" \notin overlapped =>
         /\ \A u \in Users : Cardinality({l \in UnusedInvites(u) : Live(l)}) <= 1
         /\ Cardinality({l \in Bootstraps : Live(l)}) <= 1

\* "The last active tenant administrator cannot be demoted" nor deactivated,
\* unless two changes of role or activity overlapped.
AdministratorRemains ==
    /\ "administer" \notin overlapped
    /\ \E l \in Bootstraps : link[l].used
    => ActiveAdmins # {}

\* Lost updates only lower the counter of failures: nobody is locked out
\* before LockAfter rejected logins.
LockIsEarned ==
    \A u \in Users :
        /\ user[u].failed <= wrong[u]
        /\ user[u].locked => wrong[u] >= LockAfter

=============================================================================

------------------------ MODULE TenantAccountsProofs ------------------------
(***************************************************************************)
(* What holds of the accounts of a tenant, for any number of users,        *)
(* requests and links and any number of failures that lock.                *)
(*                                                                         *)
(* A property that only holds while requests of a kind do not overlap is   *)
(* carried by what the one request of that kind knows between its reads    *)
(* and its commit.  LinksInv says which links a request presents, replaces *)
(* and inserts; a commit then leaves at most the link that it inserted.    *)
(* UsersInv says who remains an administrator when a change of another is  *)
(* committed, and that a rejected login is one of those counted.  Apart is *)
(* what makes a request alone: an overlap is recorded when the second of   *)
(* two requests enters, so those of a kind not recorded have different     *)
(* kinds, and the row locks keep two resets of one link apart.             *)
(***************************************************************************)
EXTENDS TenantAccounts, FiniteSetTheorems, WellFoundedInduction, TLAPS

Activating == {"activate", "bootstrap"}
Reissuing == {"regenerate", "recipient"}
Inserting == {"issue", "create", "invite"} \cup Reissuing
Presenting == {"present", "reset"} \cup Activating
Administering == {"role", "role_counted", "active", "active_counted"}

\* The operations of a request that concerns a user.
Personal == Ops \ {"idle", "done", "present"}

Kinds == {"administer", "issue", "invite", "activate"}

LiveInvites(u) == {l \in UnusedInvites(u) : Live(l)}

LiveBootstraps == {l \in Bootstraps : Live(l)}

\* What a request is about.
Formed(m) ==
    /\ m.op \in Personal => m.user \in Users
    /\ m.op \in Presenting => m.link \in Links
    /\ m.op \in Inserting => m.new \in Links /\ link[m.new].purpose = "none"
    /\ m.op \notin Inserting => m.new = None

\* The link presented, which is unused as long as the request is alone with it.
LinkHeld(m) ==
    /\ m.op \in {"present", "reset"} => link[m.link].purpose = "reset"
    /\ m.op = "reset" => ~link[m.link].used
    /\ m.op = "activate" => link[m.link].purpose \in {"user_setup", "password_reset"}
    /\ m.op = "bootstrap" => link[m.link].purpose = "bootstrap"
    /\ m.op \in Activating /\ "activate" \notin overlapped => ~link[m.link].used

\* A request for a link has seen every link that it is to replace.
SeenAll(m) ==
    /\ m.op = "issue" /\ "issue" \notin overlapped => LiveResets(m.user) \subseteq m.seen
    /\ m.op = "invite" /\ "invite" \notin overlapped => LiveInvites(m.user) \subseteq m.seen
    /\ m.op \in Reissuing /\ "invite" \notin overlapped =>
         /\ LiveBootstraps \subseteq m.seen
         /\ \A k \in Bootstraps : k < m.new

\* An administrator other than the one a change is about.
Another(u) == \E a \in ActiveAdmins : a # u

\* Who remains when the change of one administrator is committed.
LastHeld(m) ==
    "administer" \notin overlapped =>
        /\ m.op \in {"role", "active"} => (m.copy.admin /\ m.copy.active) \/ Another(m.user)
        /\ m.op \in {"role_counted", "active_counted"} => m.value \/ Another(m.user)

\* A login about to be counted was one of those counted in wrong.
Counted(m) ==
    m.op = "rejected" => ~m.copy.locked /\ m.copy.failed + 1 <= wrong[m.user]

\* Requests of a kind whose overlap was not recorded are alone.
Apart(r, q) ==
    /\ \A k \in Kinds \ overlapped : Kind(req[r].op) = k => Kind(req[q].op) # k
    /\ req[r].op = "reset" /\ req[q].op = "reset" => req[r].link # req[q].link
    /\ req[r].new # None => req[r].new # req[q].new

TableInv ==
    \A l \in Links :
        /\ link[l].purpose # "none" => link[l].user \in Users
        /\ link[l].used => link[l].purpose # "none"
        /\ spent[l] # {} => link[l].used
        /\ link[l].purpose = "reset" \/ "activate" \notin overlapped =>
             \A a, b \in spent[l] : a = b

\* One live link of each kind; a live bootstrap invitation is the latest.
NewestInv ==
    /\ "issue" \notin overlapped => \A u \in Users : \A k, l \in LiveResets(u) : k = l
    /\ "invite" \notin overlapped =>
         /\ \A u \in Users : \A k, l \in LiveInvites(u) : k = l
         /\ \A l \in LiveBootstraps : \A k \in Bootstraps : k <= l

LinksInv ==
    /\ \A r \in Requests : Formed(req[r]) /\ LinkHeld(req[r]) /\ SeenAll(req[r])
    /\ \A r, q \in Requests : r # q => Apart(r, q)
    /\ TableInv
    /\ NewestInv

UsersInv ==
    /\ \A r \in Requests : LastHeld(req[r]) /\ Counted(req[r])
    /\ AdministratorRemains
    /\ LockIsEarned

IInv == TypeOK /\ LinksInv /\ UsersInv

USE AccountsAssumption

-----------------------------------------------------------------------------
(***************************************************************************)
(* Records, rows and the latest of some links.                             *)
(***************************************************************************)

\* A session writes the columns it changed and leaves the others alone.
LEMMA FlushedUser ==
    ASSUME NEW row \in User, NEW copy \in User, NEW new \in User
    PROVE  /\ Flushed(row, copy, new) \in User
           /\ Flushed(row, copy, new).exists =
                IF new.exists # copy.exists THEN new.exists ELSE row.exists
           /\ Flushed(row, copy, new).active =
                IF new.active # copy.active THEN new.active ELSE row.active
           /\ Flushed(row, copy, new).admin =
                IF new.admin # copy.admin THEN new.admin ELSE row.admin
           /\ Flushed(row, copy, new).failed =
                IF new.failed # copy.failed THEN new.failed ELSE row.failed
           /\ Flushed(row, copy, new).locked =
                IF new.locked # copy.locked THEN new.locked ELSE row.locked
  <1>1. DOMAIN row = {"exists", "active", "admin", "local", "name", "password",
                      "failed", "locked"}
    BY DEF User
  <1>2. Flushed(row, copy, new) =
          [f \in {"exists", "active", "admin", "local", "name", "password",
                  "failed", "locked"} |-> IF new[f] # copy[f] THEN new[f] ELSE row[f]]
    BY <1>1 DEF Flushed
  <1>3. Flushed(row, copy, new) =
          [exists |-> IF new.exists # copy.exists THEN new.exists ELSE row.exists,
           active |-> IF new.active # copy.active THEN new.active ELSE row.active,
           admin |-> IF new.admin # copy.admin THEN new.admin ELSE row.admin,
           local |-> IF new.local # copy.local THEN new.local ELSE row.local,
           name |-> IF new.name # copy.name THEN new.name ELSE row.name,
           password |-> IF new.password # copy.password THEN new.password ELSE row.password,
           failed |-> IF new.failed # copy.failed THEN new.failed ELSE row.failed,
           locked |-> IF new.locked # copy.locked THEN new.locked ELSE row.locked]
    BY <1>2
  <1> QED BY <1>3 DEF User

LEMMA LinkNumbers == Links \subseteq Nat
  BY DEF Links

\* Some links have a latest one.
LEMMA LatestOf ==
    ASSUME NEW ls \in SUBSET Links, ls # {}
    PROVE  Latest(ls) \in ls /\ \A k \in ls : k <= Latest(ls)
  <1> DEFINE left == {MaxLinks - l : l \in ls}
  <1>1. left \subseteq Nat /\ left # {}
    <2>1. ASSUME NEW l \in ls PROVE MaxLinks - l \in Nat
      BY DEF Links
    <2> QED BY <2>1
  <1>2. PICK x \in left : \A y \in left : ~ (<<y, x>> \in OpToRel(<, Nat))
    BY <1>1, NatLessThanWellFounded, WFMin
  <1>3. PICK l \in ls : x = MaxLinks - l
    BY <1>2
  <1>4. ASSUME NEW k \in ls PROVE k <= l
    <2>1. ~ (<<MaxLinks - k, x>> \in OpToRel(<, Nat))
      BY <1>2
    <2>2. ~ (MaxLinks - k < x)
      BY <2>1, <1>1, <1>2 DEF OpToRel
    <2> QED BY <2>2, <1>3 DEF Links
  <1> QED BY <1>3, <1>4 DEF Latest

\* A number that is taken next is later than those taken.
LEMMA FreshIsLast ==
    ASSUME NEW l \in Links, Fresh(l)
    PROVE  /\ link[l].purpose = "none"
           /\ \A r \in Requests : req[r].new # l
           /\ \A k \in Links : link[k].purpose # "none" => k < l
  <1>1. \A k \in Links \cap Taken : k < l
    BY DEF Fresh
  <1>2. l \notin Taken
    BY <1>1 DEF Links
  <1> QED BY <1>1, <1>2 DEF Taken

-----------------------------------------------------------------------------
(***************************************************************************)
(* Type correctness.                                                       *)
(***************************************************************************)

LEMMA RecordTypes ==
    /\ Idle \in Request /\ Finished \in Request
    /\ Idle.op = "idle" /\ Finished.op = "done"
    /\ Idle.new = None /\ Finished.new = None
    /\ NoUser \in User /\ NoLink \in Link
    /\ \A n \in Names : Account(n) \in User
  BY DEF Idle, Finished, Request, Ops, NoUser, User, NoLink, Link, Account

LEMMA KindType == \A op : Kind(op) \in Kinds \cup {"none"}
  BY DEF Kind, Kinds

LEMMA EnterType ==
    ASSUME TypeOK, NEW r \in Requests, NEW m \in Request, Enter(r, m),
           UNCHANGED <<user, link, spent>>, wrong' \in [Users -> Nat]
    PROVE  TypeOK'
  <1>1. req' \in [Requests -> Request]
    BY DEF TypeOK, Enter
  <1>2. overlapped' \subseteq Kinds
    BY KindType DEF TypeOK, Enter, Kinds
  <1> QED BY <1>1, <1>2 DEF TypeOK, Kinds

LEMMA LeaveType ==
    ASSUME TypeOK, NEW r \in Requests, Leave(r)
    PROVE  req' \in [Requests -> Request] /\ overlapped' = overlapped
  BY RecordTypes DEF TypeOK, Leave

LEMMA WriteType ==
    ASSUME TypeOK, NEW u, NEW copy \in User, NEW new \in User
    PROVE  Write(u, copy, new) \in [Users -> User]
  <1>1. CASE u \in Users
    <2>1. Flushed(user[u], copy, new) \in User
      BY <1>1, FlushedUser DEF TypeOK
    <2> QED BY <2>1 DEF Write, TypeOK
  <1>2. CASE u \notin Users
    BY <1>2 DEF Write, TypeOK
  <1> QED BY <1>1, <1>2

LEMMA PasswordType ==
    ASSUME NEW f \in [Users -> User], NEW u
    PROVE  [f EXCEPT ![u].password = TRUE] \in [Users -> User]
  <1>1. \A row \in User : [row EXCEPT !.password = TRUE] \in User
    BY DEF User
  <1> QED BY <1>1

LEMMA ReplaceType ==
    ASSUME TypeOK, NEW ls, NEW l, NEW p \in Invitations \cup {"none", "reset"},
           NEW u \in Users
    PROVE  Replace(ls, l, p, u) \in [Links -> Link]
  <1>1. [NoLink EXCEPT !.purpose = p, !.user = u] \in Link
    BY DEF Link, NoLink
  <1>2. \A k \in Links : link[k] \in Link /\ [link[k] EXCEPT !.expired = TRUE] \in Link
    <2>1. \A row \in Link : [row EXCEPT !.expired = TRUE] \in Link
      BY DEF Link
    <2>2. \A k \in Links : link[k] \in Link
      BY DEF TypeOK
    <2> QED BY <2>1, <2>2
  <1> QED BY <1>1, <1>2 DEF Replace

LEMMA AgedLinkType ==
    ASSUME TypeOK, NEW l,
           \/ link' = [link EXCEPT ![l].used = TRUE]
           \/ link' = [link EXCEPT ![l].expired = TRUE]
    PROVE  link' \in [Links -> Link]
  <1>1. CASE l \in Links
    <2>1. link[l] \in Link
      BY <1>1 DEF TypeOK
    <2>2. /\ [link[l] EXCEPT !.used = TRUE] \in Link
          /\ [link[l] EXCEPT !.expired = TRUE] \in Link
      BY <2>1 DEF Link
    <2>3. \/ link' = [link EXCEPT ![l] = [link[l] EXCEPT !.used = TRUE]]
          \/ link' = [link EXCEPT ![l] = [link[l] EXCEPT !.expired = TRUE]]
      OBVIOUS
    <2> QED BY <2>2, <2>3 DEF TypeOK
  <1>2. CASE l \notin Links
    BY <1>2 DEF TypeOK
  <1> QED BY <1>1, <1>2

\* A reading step only chooses what its request is about.
LEMMA BeginType ==
    ASSUME TypeOK, LinksInv, NEW r \in Requests, Begin(r)
    PROVE  TypeOK'
  <1> USE RecordTypes
  <1>u. \A v \in Users : user[v] \in User
    BY DEF TypeOK
  <1>l. \A k \in Links : link[k].purpose # "none" => link[k].user \in Users
    BY DEF LinksInv, TableInv
  <1>1. ASSUME NEW u \in Users, NEW verifies \in BOOLEAN, LoginRead(r, u, verifies)
        PROVE  TypeOK'
    <2>1. wrong' \in [Users -> Nat]
      BY <1>1 DEF LoginRead, TypeOK
    <2>2. /\ [Idle EXCEPT !.op = "accepted", !.user = u, !.copy = user[u]] \in Request
          /\ [Idle EXCEPT !.op = "rejected", !.user = u, !.copy = user[u]] \in Request
      BY <1>u DEF Request, Ops
    <2> QED BY <1>1, <2>1, <2>2, EnterType DEF LoginRead
  <1>2. ASSUME NEW u \in Users, NEW p \in BOOLEAN, ResetRequest(r, u, p) PROVE TypeOK'
    <2>1. PICK l \in Links :
            Enter(r, [Idle EXCEPT !.op = "issue", !.user = u, !.new = l,
                                  !.seen = LiveResets(u)])
      BY <1>2 DEF ResetRequest
    <2>2. [Idle EXCEPT !.op = "issue", !.user = u, !.new = l, !.seen = LiveResets(u)]
            \in Request
      BY DEF Request, Ops, LiveResets
    <2> QED BY <1>2, <2>1, <2>2, EnterType DEF ResetRequest, TypeOK
  <1>3. ASSUME NEW u \in Users, ChangeRead(r, u) PROVE TypeOK'
    <2>1. [Idle EXCEPT !.op = "change", !.user = u] \in Request
      BY DEF Request, Ops
    <2> QED BY <1>3, <2>1, EnterType DEF ChangeRead, TypeOK
  <1>4. ASSUME NEW l \in Links, ResetPresent(r, l) PROVE TypeOK'
    <2>1. [Idle EXCEPT !.op = "present", !.link = l] \in Request
      BY DEF Request, Ops
    <2> QED BY <1>4, <2>1, EnterType DEF ResetPresent, TypeOK
  <1>5. ASSUME NEW l \in Links, ActivateRead(r, l) PROVE TypeOK'
    <2>1. link[l].user \in Users
      BY <1>5, <1>l DEF ActivateRead
    <2>2. [Idle EXCEPT !.op = "activate", !.link = l, !.user = link[l].user,
                       !.copy = user[link[l].user]] \in Request
      BY <2>1, <1>u DEF Request, Ops
    <2> QED BY <1>5, <2>2, EnterType DEF ActivateRead, TypeOK
  <1>6. ASSUME NEW l \in Links, BootstrapRead(r, l) PROVE TypeOK'
    <2>1. link[l].user \in Users
      BY <1>6, <1>l DEF BootstrapRead, Bootstraps
    <2>2. [Idle EXCEPT !.op = "bootstrap", !.link = l, !.user = link[l].user] \in Request
      BY <2>1 DEF Request, Ops
    <2> QED BY <1>6, <2>2, EnterType DEF BootstrapRead, TypeOK
  <1>7. ASSUME NEW a \in Users, NEW u \in Users, InviteRead(r, a, u) PROVE TypeOK'
    <2>1. PICK l \in Links :
            Enter(r, [Idle EXCEPT !.op = "invite", !.user = u, !.new = l,
                                  !.seen = UnusedInvites(u)])
      BY <1>7 DEF InviteRead
    <2>2. [Idle EXCEPT !.op = "invite", !.user = u, !.new = l, !.seen = UnusedInvites(u)]
            \in Request
      BY DEF Request, Ops, UnusedInvites
    <2> QED BY <1>7, <2>1, <2>2, EnterType DEF InviteRead, TypeOK
  <1>8. ASSUME NEW a \in Users, NEW u \in Users, NEW n \in Names, NEW admin \in BOOLEAN,
               CreateRead(r, a, u, n, admin)
        PROVE  TypeOK'
    <2>1. PICK l \in Links :
            Enter(r, [Idle EXCEPT !.op = "create", !.user = u, !.new = l,
                                  !.name = n, !.value = admin])
      BY <1>8 DEF CreateRead
    <2>2. [Idle EXCEPT !.op = "create", !.user = u, !.new = l, !.name = n, !.value = admin]
            \in Request
      BY DEF Request, Ops
    <2> QED BY <1>8, <2>1, <2>2, EnterType DEF CreateRead, TypeOK
  <1>9. ASSUME NEW a \in Users, NEW u \in Users, NEW value \in BOOLEAN,
               RoleRead(r, a, u, value) \/ ActiveRead(r, a, u, value)
        PROVE  TypeOK'
    <2>1. /\ [Idle EXCEPT !.op = "role", !.user = u, !.copy = user[u], !.value = value]
               \in Request
          /\ [Idle EXCEPT !.op = "active", !.user = u, !.copy = user[u], !.value = value]
               \in Request
      BY <1>u DEF Request, Ops
    <2> QED BY <1>9, <2>1, EnterType DEF RoleRead, ActiveRead, TypeOK
  <1>10. ASSUME RegenerateRead(r) PROVE TypeOK'
    <2> DEFINE previous == IF UnusedBootstraps = {} THEN {} ELSE {Latest(UnusedBootstraps)}
               source == IF previous = {} THEN Latest(Bootstraps) ELSE Latest(previous)
    <2>1. PICK l \in Links :
            Enter(r, [Idle EXCEPT !.op = "regenerate", !.new = l,
                                  !.user = link[source].user, !.seen = previous])
      BY <1>10 DEF RegenerateRead
    <2>2. previous \in SUBSET Bootstraps /\ Bootstraps \in SUBSET Links /\ Bootstraps # {}
      BY <1>10, LatestOf DEF UnusedBootstraps, Bootstraps, RegenerateRead
    <2> HIDE DEF previous
    <2>3. source \in Bootstraps
      BY <2>2, LatestOf
    <2>4. link[source].user \in Users
      BY <2>3, <1>l DEF Bootstraps
    <2> HIDE DEF source
    <2>5. [Idle EXCEPT !.op = "regenerate", !.new = l, !.user = link[source].user,
                       !.seen = previous] \in Request
      BY <2>2, <2>4 DEF Request, Ops
    <2> QED BY <1>10, <2>1, <2>5, EnterType DEF RegenerateRead, TypeOK
  <1>11. ASSUME NEW u \in Users, RecipientRead(r, u) PROVE TypeOK'
    <2>1. PICK l \in Links :
            Enter(r, [Idle EXCEPT !.op = "recipient", !.new = l, !.user = u,
                                  !.seen = {Latest(Bootstraps)}])
      BY <1>11 DEF RecipientRead
    <2>2. Latest(Bootstraps) \in Links
      BY <1>11, LatestOf DEF RecipientRead, Bootstraps
    <2>3. [Idle EXCEPT !.op = "recipient", !.new = l, !.user = u,
                       !.seen = {Latest(Bootstraps)}] \in Request
      BY <2>2 DEF Request, Ops
    <2> QED BY <1>11, <2>1, <2>3, EnterType DEF RecipientRead, TypeOK
  <1> QED
    BY <1>1, <1>2, <1>3, <1>4, <1>5, <1>6, <1>7, <1>8, <1>9, <1>10, <1>11
    DEF Begin, AuthEndpoints, UserEndpoints, PlatformEndpoints

\* A commit, a roll back, a lock or a count.
LEMMA EndType ==
    ASSUME TypeOK, LinksInv, NEW r \in Requests, End(r)
    PROVE  TypeOK'
  <1> DEFINE c == req[r].copy
             u == req[r].user
  <1>c. req[r] \in Request /\ c \in User
    BY DEF TypeOK, Request
  <1>u. req[r].op \in Personal => u \in Users
    BY DEF LinksInv, Formed
  <1>l. req[r].op \in Presenting => req[r].link \in Links
    BY DEF LinksInv, Formed
  <1> HIDE DEF c, u
  <1>1. ASSUME LoginAccept(r) PROVE TypeOK'
    <2>1. [c EXCEPT !.failed = 0] \in User
      BY <1>c DEF User
    <2>2. user' = Write(u, c, [c EXCEPT !.failed = 0])
      BY <1>1 DEF LoginAccept, c, u
    <2> QED BY <1>1, <1>c, <2>1, <2>2, WriteType, LeaveType DEF LoginAccept, TypeOK
  <1>2. ASSUME LoginReject(r) PROVE TypeOK'
    <2> DEFINE f == c.failed + 1
               b == f >= LockAfter
               n == [c EXCEPT !.failed = f, !.locked = b]
    <2>1. f \in Nat /\ b \in BOOLEAN
      BY <1>c DEF User
    <2>2. user' = Write(u, c, n)
      BY <1>2 DEF LoginReject, c, u
    <2> HIDE DEF f, b
    <2>3. n \in User
      BY <1>c, <2>1 DEF User
    <2> HIDE DEF n
    <2>4. user' \in [Users -> User]
      BY <1>c, <2>2, <2>3, WriteType
    <2> QED BY <1>2, <2>4, LeaveType DEF LoginReject, TypeOK
  <1>3. ASSUME ResetIssue(r) \/ BootstrapReissue(r) \/ InviteCommit(r) PROVE TypeOK'
    <2>1. link' \in [Links -> Link]
      BY <1>3, <1>u, ReplaceType
      DEF ResetIssue, BootstrapReissue, InviteCommit, Invitations, Personal, Ops, u
    <2> QED BY <1>3, <2>1, LeaveType DEF ResetIssue, BootstrapReissue, InviteCommit, TypeOK
  <1>4. ASSUME ResetLock(r) PROVE TypeOK'
    <2>1. link[req[r].link].user \in Users
      BY <1>4, <1>l DEF ResetLock, LinksInv, TableInv, LinkHeld, Presenting
    <2> DEFINE v == link[req[r].link].user
               m == [req[r] EXCEPT !.op = "reset", !.user = v, !.copy = user[v]]
    <2>2. m \in Request
      BY <1>c, <2>1 DEF TypeOK, Request, Ops
    <2>3. req' = [req EXCEPT ![r] = m]
      BY <1>4, Zenon DEF ResetLock
    <2> HIDE DEF m
    <2>4. req' \in [Requests -> Request]
      BY <2>2, <2>3 DEF TypeOK
    <2> QED BY <1>4, <2>4 DEF ResetLock, TypeOK
  <1>5. ASSUME ResetCommit(r) PROVE TypeOK'
    <2> DEFINE n == [c EXCEPT !.failed = 0, !.locked = FALSE]
    <2>1. n \in User
      BY <1>c DEF User
    <2>2. user' = [Write(u, c, n) EXCEPT ![u].password = TRUE]
      BY <1>5 DEF ResetCommit, c, u
    <2> HIDE DEF n
    <2>3. Write(u, c, n) \in [Users -> User]
      BY <1>c, <2>1, WriteType
    <2>4. user' \in [Users -> User]
      BY <2>2, <2>3, PasswordType
    <2>5. link' \in [Links -> Link] /\ spent' \in [Links -> SUBSET Requests]
      <3>1. link' \in [Links -> Link]
        BY <1>5, AgedLinkType DEF ResetCommit
      <3>2. spent' \in [Links -> SUBSET Requests]
        BY <1>5 DEF ResetCommit, TypeOK
      <3> QED BY <3>1, <3>2
    <2> QED BY <1>5, <2>4, <2>5, LeaveType DEF ResetCommit, TypeOK
  <1>6. ASSUME ActivateCommit(r) PROVE TypeOK'
    <2> DEFINE n == [c EXCEPT !.active = TRUE]
    <2>1. n \in User
      BY <1>c DEF User
    <2>2. user' = [Write(u, c, n) EXCEPT ![u].password = TRUE]
      BY <1>6 DEF ActivateCommit, c, u
    <2> HIDE DEF n
    <2>3. Write(u, c, n) \in [Users -> User]
      BY <1>c, <2>1, WriteType
    <2>4. user' \in [Users -> User]
      BY <2>2, <2>3, PasswordType
    <2>5. link' \in [Links -> Link] /\ spent' \in [Links -> SUBSET Requests]
      <3>1. link' \in [Links -> Link]
        BY <1>6, AgedLinkType DEF ActivateCommit
      <3>2. spent' \in [Links -> SUBSET Requests]
        BY <1>6 DEF ActivateCommit, TypeOK
      <3> QED BY <3>1, <3>2
    <2> QED BY <1>6, <2>4, <2>5, LeaveType DEF ActivateCommit, TypeOK
  <1>7. ASSUME BootstrapCommit(r) PROVE TypeOK'
    <2>1. user' \in [Users -> User]
      BY <1>7, RecordTypes DEF BootstrapCommit, TypeOK
    <2>2. link' \in [Links -> Link] /\ spent' \in [Links -> SUBSET Requests]
      <3>1. link' \in [Links -> Link]
        BY <1>7, AgedLinkType DEF BootstrapCommit
      <3>2. spent' \in [Links -> SUBSET Requests]
        BY <1>7 DEF BootstrapCommit, TypeOK
      <3> QED BY <3>1, <3>2
    <2> QED BY <1>7, <2>1, <2>2, LeaveType DEF BootstrapCommit, TypeOK
  <1>8. ASSUME CreateCommit(r) PROVE TypeOK'
    <2>1. [NoUser EXCEPT !.exists = TRUE, !.local = TRUE, !.admin = req[r].value,
                         !.name = req[r].name] \in User
      BY <1>c, RecordTypes DEF User, Request
    <2>2. user' \in [Users -> User]
      BY <1>8, <2>1 DEF CreateCommit, TypeOK
    <2>3. link' \in [Links -> Link]
      BY <1>8, <1>u, ReplaceType DEF CreateCommit, Invitations, Personal, Ops, u
    <2> QED BY <1>8, <2>2, <2>3, LeaveType DEF CreateCommit, TypeOK
  <1>9. ASSUME ChangeCommit(r) PROVE TypeOK'
    <2>1. user' = [user EXCEPT ![u].password = TRUE]
      BY <1>9 DEF ChangeCommit, u
    <2>0. user \in [Users -> User]
      BY DEF TypeOK
    <2>2. user' \in [Users -> User]
      BY <2>0, <2>1 DEF User
    <2> QED BY <1>9, <2>2, LeaveType DEF ChangeCommit, TypeOK
  <1>10. ASSUME Count(r) PROVE TypeOK'
    <2>1. req' \in [Requests -> Request]
      BY <1>10, <1>c, RecordTypes DEF Count, TypeOK, Request, Ops
    <2> QED BY <1>10, <2>1 DEF Count, TypeOK
  <1>11. ASSUME RoleCommit(r) \/ ActiveCommit(r) PROVE TypeOK'
    <2>1. /\ [c EXCEPT !.admin = req[r].value] \in User
          /\ [c EXCEPT !.active = req[r].value] \in User
      BY <1>c DEF User, Request
    <2>2. \/ user' = Write(u, c, [c EXCEPT !.admin = req[r].value])
          \/ user' = Write(u, c, [c EXCEPT !.active = req[r].value])
      BY <1>11 DEF RoleCommit, ActiveCommit, c, u
    <2>3. user' \in [Users -> User]
      BY <1>c, <2>1, <2>2, WriteType
    <2> QED BY <1>11, <2>3, LeaveType DEF RoleCommit, ActiveCommit, TypeOK
  <1>12. ASSUME RollBack(r) PROVE TypeOK'
    BY <1>12, LeaveType DEF RollBack, TypeOK
  <1> QED
    BY <1>1, <1>2, <1>3, <1>4, <1>5, <1>6, <1>7, <1>8, <1>9, <1>10, <1>11, <1>12 DEF End

LEMMA NextType == TypeOK /\ LinksInv /\ [Next]_vars => TypeOK'
  <1> SUFFICES ASSUME TypeOK, LinksInv, [Next]_vars PROVE TypeOK'
    OBVIOUS
  <1>1. ASSUME NEW r \in Requests, Begin(r) PROVE TypeOK'
    BY <1>1, BeginType
  <1>2. ASSUME NEW r \in Requests, End(r) PROVE TypeOK'
    BY <1>2, EndType
  <1>3. ASSUME NEW u \in Users, SignOn(u) PROVE TypeOK'
    <2> DEFINE row == IF user[u].exists THEN [user[u] EXCEPT !.local = FALSE]
                      ELSE [NoUser EXCEPT !.exists = TRUE, !.active = TRUE]
    <2>1. user' = [user EXCEPT ![u] = row]
      BY <1>3 DEF SignOn
    <2>2. user[u] \in User /\ NoUser \in User
      BY RecordTypes DEF TypeOK
    <2>3. row \in User
      BY <2>2 DEF User
    <2> HIDE DEF row
    <2> QED BY <1>3, <2>1, <2>3 DEF SignOn, TypeOK
  <1>4. ASSUME NEW l \in Links, Expire(l) PROVE TypeOK'
    <2>1. link' \in [Links -> Link]
      BY <1>4, AgedLinkType DEF Expire
    <2> QED BY <1>4, <2>1 DEF Expire, TypeOK
  <1>5. CASE UNCHANGED vars
    BY <1>5 DEF vars, TypeOK
  <1> QED BY <1>1, <1>2, <1>3, <1>4, <1>5 DEF Next

-----------------------------------------------------------------------------
(***************************************************************************)
(* Links.                                                                  *)
(***************************************************************************)

\* A link that this step did not insert.
Aged(l) ==
    /\ link'[l].purpose = link[l].purpose /\ link'[l].user = link[l].user
    /\ link[l].used => link'[l].used
    /\ link[l].expired => link'[l].expired

LEMMA AgedViews ==
    ASSUME \A l \in Links : Aged(l)
    PROVE  /\ Bootstraps' = Bootstraps /\ LiveBootstraps' \subseteq LiveBootstraps
           /\ \A u : LiveResets(u)' \subseteq LiveResets(u)
           /\ \A u : LiveInvites(u)' \subseteq LiveInvites(u)
  <1>1. \A l \in Links : Live(l)' => Live(l)
    BY DEF Aged, Live
  <1>2. Bootstraps' = Bootstraps
    BY DEF Aged, Bootstraps
  <1>3. LiveBootstraps' \subseteq LiveBootstraps
    BY <1>1, <1>2 DEF LiveBootstraps, Bootstraps
  <1>4. ASSUME NEW u PROVE LiveResets(u)' \subseteq LiveResets(u)
    BY <1>1 DEF Aged, LiveResets
  <1>5. ASSUME NEW u PROVE LiveInvites(u)' \subseteq LiveInvites(u)
    BY <1>1 DEF Aged, LiveInvites, UnusedInvites
  <1> QED BY <1>2, <1>3, <1>4, <1>5

\* A request that goes on while links age.
LEMMA FrameRequest ==
    ASSUME LinksInv, \A l \in Links : Aged(l), overlapped \subseteq overlapped',
           NEW q \in Requests, req'[q] = req[q],
           req[q].op = "reset" \/ (req[q].op \in Activating /\ "activate" \notin overlapped')
             => link'[req[q].link].used = link[req[q].link].used
    PROVE  Formed(req[q])' /\ LinkHeld(req[q])' /\ SeenAll(req[q])'
  <1>0. Formed(req[q]) /\ LinkHeld(req[q]) /\ SeenAll(req[q])
    BY DEF LinksInv
  <1>1. Formed(req[q])'
    BY <1>0 DEF Formed, Aged
  <1>2. LinkHeld(req[q])'
    BY <1>0 DEF Formed, LinkHeld, Aged, Presenting, Activating
  <1>3. SeenAll(req[q])'
    BY <1>0, AgedViews DEF SeenAll
  <1> QED BY <1>1, <1>2, <1>3

\* Nobody is the worse for a request that has ended.
LEMMA EndedRequest ==
    ASSUME NEW q \in Requests, req'[q] = Finished
    PROVE  /\ Formed(req[q])' /\ LinkHeld(req[q])' /\ SeenAll(req[q])'
           /\ \A p \in Requests : Apart(p, q)' /\ Apart(q, p)'
  <1>1. /\ req'[q].op = "done" /\ req'[q].new = None
        /\ "done" \notin Personal \cup Presenting \cup Inserting \cup Reissuing \cup Activating
    BY RecordTypes DEF Personal, Presenting, Inserting, Reissuing, Activating
  <1>2. Kind(req'[q].op) = "none" /\ "none" \notin Kinds
    BY <1>1 DEF Kind, Kinds
  <1> QED BY <1>1, <1>2 DEF Formed, LinkHeld, SeenAll, Apart

\* What a step leaves true when links only age and requests only end.
LEMMA AgeingStep ==
    ASSUME LinksInv, TableInv', \A l \in Links : Aged(l), overlapped' = overlapped,
           \A q \in Requests : req'[q] = req[q] \/ req'[q] = Finished,
           \A q \in Requests :
              /\ req'[q] = req[q]
              /\ req[q].op = "reset"
                   \/ (req[q].op \in Activating /\ "activate" \notin overlapped)
              => link'[req[q].link].used = link[req[q].link].used
    PROVE  LinksInv'
  <1>1. ASSUME NEW q \in Requests
        PROVE  Formed(req[q])' /\ LinkHeld(req[q])' /\ SeenAll(req[q])'
    BY FrameRequest, EndedRequest
  <1>2. ASSUME NEW p \in Requests, NEW q \in Requests, p # q PROVE Apart(p, q)'
    <2>1. CASE req'[p] = Finished \/ req'[q] = Finished
      BY <2>1, EndedRequest
    <2>2. CASE req'[p] = req[p] /\ req'[q] = req[q]
      BY <1>2, <2>2 DEF LinksInv, Apart
    <2> QED BY <2>1, <2>2
  <1>3. NewestInv'
    BY AgedViews DEF LinksInv, NewestInv
  <1> QED BY <1>1, <1>2, <1>3 DEF LinksInv

\* A request that begins.
LEMMA EnterStep ==
    ASSUME LinksInv, NEW r \in Requests, NEW m \in Request, Enter(r, m), TypeOK,
           UNCHANGED <<link, spent>>, m.op # "reset",
           Formed(m), LinkHeld(m), SeenAll(m),
           m.new # None => \A q \in Requests : req[q].new # m.new
    PROVE  LinksInv'
  <1>1. /\ req'[r] = m /\ \A q \in Requests \ {r} : req'[q] = req[q]
        /\ overlapped \subseteq overlapped'
    BY DEF Enter, TypeOK
  <1>2. \A l \in Links : Aged(l)
    BY DEF Aged
  <1>3. Formed(req[r])' /\ LinkHeld(req[r])'
    BY <1>1 DEF Formed, LinkHeld
  <1>4. SeenAll(req[r])'
    BY <1>1, <1>2, AgedViews DEF SeenAll
  <1>5. ASSUME NEW q \in Requests \ {r}
        PROVE  Formed(req[q])' /\ LinkHeld(req[q])' /\ SeenAll(req[q])'
    BY <1>1, <1>2, FrameRequest
  <1>6. ASSUME NEW p \in Requests, NEW q \in Requests, p # q PROVE Apart(p, q)'
    <2>1. \A k \in Kinds \ overlapped' : Kind(req'[p].op) = k => Kind(req'[q].op) # k
      <3>1. ASSUME NEW k \in Kinds \ overlapped', Kind(m.op) = k, NEW x \in Requests \ {r}
            PROVE  Kind(req[x].op) # k
        BY <3>1 DEF Enter, Kinds
      <3> QED BY <1>1, <1>6, <3>1 DEF LinksInv, Apart
    <2>2. req'[p].op = "reset" /\ req'[q].op = "reset" => req'[p].link # req'[q].link
      BY <1>1, <1>6 DEF LinksInv, Apart
    <2>3. req'[p].new # None => req'[p].new # req'[q].new
      BY <1>1, <1>6 DEF LinksInv, Apart
    <2> QED BY <2>1, <2>2, <2>3 DEF Apart
  <1>7. TableInv'
    BY <1>1 DEF LinksInv, TableInv
  <1>8. NewestInv'
    BY <1>1, <1>2, AgedViews DEF LinksInv, NewestInv
  <1> QED BY <1>1, <1>3, <1>4, <1>5, <1>6, <1>7, <1>8 DEF LinksInv

\* A reading step chooses a link that is free, or one that may be used, and
\* sees the links that it is to replace.
LEMMA BeginLinks ==
    ASSUME TypeOK, LinksInv, NEW r \in Requests, Begin(r)
    PROVE  LinksInv'
  <1> USE RecordTypes
  <1>u. \A v \in Users : user[v] \in User
    BY DEF TypeOK
  <1>l. \A k \in Links : link[k].purpose # "none" => link[k].user \in Users
    BY DEF LinksInv, TableInv
  <1>s. "done" \notin Personal \cup Presenting \cup Inserting \cup Reissuing \cup Activating
    BY DEF Personal, Presenting, Inserting, Reissuing, Activating
  <1> DEFINE Quiet(m) == Formed(m) /\ LinkHeld(m) /\ SeenAll(m) /\ m.op # "reset"
  <1>q. ASSUME NEW m \in Request, Enter(r, m), UNCHANGED <<link, spent>>, Quiet(m),
               m.new # None => \A q \in Requests : req[q].new # m.new
        PROVE  LinksInv'
    BY <1>q, EnterStep
  <1>n. ASSUME NEW m \in Request, m.new = None, m.op \notin Presenting \cup Inserting,
               m.op \in Personal => m.user \in Users
        PROVE  Quiet(m)
    BY <1>n DEF Formed, LinkHeld, SeenAll, Presenting, Inserting, Activating
  <1>f. ASSUME NEW l \in Links, Fresh(l)
        PROVE  link[l].purpose = "none" /\ \A q \in Requests : req[q].new # l
    BY <1>f, FreshIsLast
  <1> HIDE DEF Quiet
  <1>1. ASSUME NEW u \in Users, NEW verifies \in BOOLEAN, LoginRead(r, u, verifies)
        PROVE  LinksInv'
    <2> DEFINE a == [Idle EXCEPT !.op = "accepted", !.user = u, !.copy = user[u]]
               b == [Idle EXCEPT !.op = "rejected", !.user = u, !.copy = user[u]]
    <2>1. a \in Request /\ b \in Request
      BY <1>u DEF Request, Ops
    <2>2. /\ a.op = "accepted" /\ a.new = None /\ a.user = u
          /\ b.op = "rejected" /\ b.new = None /\ b.user = u
      BY DEF Request
    <2>3. /\ Enter(r, a) \/ Enter(r, b) \/ Enter(r, Finished)
          /\ UNCHANGED <<link, spent>>
      BY <1>1 DEF LoginRead
    <2> HIDE DEF a, b
    <2>4. Quiet(a) /\ Quiet(b) /\ Quiet(Finished)
      BY <2>1, <2>2, <1>n, <1>s DEF Presenting, Inserting, Reissuing, Activating
    <2> QED BY <2>1, <2>2, <2>3, <2>4, <1>q
  <1>2. ASSUME NEW u \in Users, NEW p \in BOOLEAN, ResetRequest(r, u, p) PROVE LinksInv'
    <2>1. PICK l \in Links :
            /\ Fresh(l)
            /\ Enter(r, [Idle EXCEPT !.op = "issue", !.user = u, !.new = l,
                                     !.seen = LiveResets(u)])
      BY <1>2 DEF ResetRequest
    <2> DEFINE m == [Idle EXCEPT !.op = "issue", !.user = u, !.new = l,
                                 !.seen = LiveResets(u)]
    <2>2. m \in Request
      BY DEF Request, Ops, LiveResets
    <2>3. m.op = "issue" /\ m.user = u /\ m.new = l /\ m.seen = LiveResets(u)
      BY DEF Request
    <2> HIDE DEF m
    <2>4. Quiet(m)
      BY <2>1, <2>3, <1>f
      DEF Quiet, Formed, LinkHeld, SeenAll, Presenting, Inserting, Activating, Reissuing
    <2> QED BY <1>2, <2>1, <2>2, <2>3, <2>4, <1>f, <1>q DEF ResetRequest, m
  <1>3. ASSUME NEW u \in Users, ChangeRead(r, u) PROVE LinksInv'
    <2> DEFINE m == [Idle EXCEPT !.op = "change", !.user = u]
    <2>1. m \in Request
      BY DEF Request, Ops
    <2>2. m.op = "change" /\ m.new = None /\ m.user = u
      BY DEF Request
    <2>3. Enter(r, m) /\ UNCHANGED <<link, spent>>
      BY <1>3 DEF ChangeRead
    <2> HIDE DEF m
    <2> QED BY <2>1, <2>2, <2>3, <1>n, <1>q DEF Presenting, Inserting, Reissuing, Activating
  <1>4. ASSUME NEW l \in Links, ResetPresent(r, l) PROVE LinksInv'
    <2> DEFINE m == [Idle EXCEPT !.op = "present", !.link = l]
    <2>1. m \in Request
      BY DEF Request, Ops
    <2>2. m.op = "present" /\ m.new = None /\ m.link = l
      BY DEF Request
    <2>3. Enter(r, m) /\ UNCHANGED <<link, spent>>
      BY <1>4 DEF ResetPresent
    <2> HIDE DEF m
    <2>4. Quiet(m)
      BY <1>4, <2>2 DEF ResetPresent, Quiet, Formed, LinkHeld, SeenAll, Presenting,
                        Inserting, Activating, Reissuing, Personal
    <2> QED BY <2>1, <2>2, <2>3, <2>4, <1>q
  <1>5. ASSUME NEW l \in Links, ActivateRead(r, l) PROVE LinksInv'
    <2>1. link[l].user \in Users
      BY <1>5, <1>l DEF ActivateRead
    <2> DEFINE m == [Idle EXCEPT !.op = "activate", !.link = l, !.user = link[l].user,
                                 !.copy = user[link[l].user]]
    <2>2. m \in Request
      BY <2>1, <1>u DEF Request, Ops
    <2>3. m.op = "activate" /\ m.new = None /\ m.link = l /\ m.user = link[l].user
      BY DEF Request
    <2>4. Enter(r, m) /\ UNCHANGED <<link, spent>>
      BY <1>5 DEF ActivateRead
    <2> HIDE DEF m
    <2>5. Quiet(m)
      BY <1>5, <2>1, <2>3 DEF ActivateRead, Live, Quiet, Formed, LinkHeld, SeenAll,
                        Presenting, Inserting, Activating, Reissuing
    <2> QED BY <2>2, <2>3, <2>4, <2>5, <1>q
  <1>6. ASSUME NEW l \in Links, BootstrapRead(r, l) PROVE LinksInv'
    <2>1. link[l].user \in Users
      BY <1>6, <1>l DEF BootstrapRead, Bootstraps
    <2> DEFINE m == [Idle EXCEPT !.op = "bootstrap", !.link = l, !.user = link[l].user]
    <2>2. m \in Request
      BY <2>1 DEF Request, Ops
    <2>3. m.op = "bootstrap" /\ m.new = None /\ m.link = l /\ m.user = link[l].user
      BY DEF Request
    <2>4. Enter(r, m) /\ UNCHANGED <<link, spent>>
      BY <1>6 DEF BootstrapRead
    <2> HIDE DEF m
    <2>5. Quiet(m)
      BY <1>6, <2>1, <2>3 DEF BootstrapRead, Bootstraps, Live, Quiet, Formed, LinkHeld,
                        SeenAll, Presenting, Inserting, Activating, Reissuing
    <2> QED BY <2>2, <2>3, <2>4, <2>5, <1>q
  <1>7. ASSUME NEW a \in Users, NEW u \in Users, InviteRead(r, a, u) PROVE LinksInv'
    <2>1. PICK l \in Links :
            /\ Fresh(l)
            /\ Enter(r, [Idle EXCEPT !.op = "invite", !.user = u, !.new = l,
                                     !.seen = UnusedInvites(u)])
      BY <1>7 DEF InviteRead
    <2> DEFINE m == [Idle EXCEPT !.op = "invite", !.user = u, !.new = l,
                                 !.seen = UnusedInvites(u)]
    <2>2. m \in Request
      BY DEF Request, Ops, UnusedInvites
    <2>3. m.op = "invite" /\ m.user = u /\ m.new = l /\ m.seen = UnusedInvites(u)
      BY DEF Request
    <2> HIDE DEF m
    <2>4. Quiet(m)
      BY <2>1, <2>3, <1>f
      DEF Quiet, Formed, LinkHeld, SeenAll, Presenting, Inserting, Activating, Reissuing,
          LiveInvites
    <2> QED BY <1>7, <2>1, <2>2, <2>3, <2>4, <1>f, <1>q DEF InviteRead, m
  <1>8. ASSUME NEW a \in Users, NEW u \in Users, NEW n \in Names, NEW admin \in BOOLEAN,
               CreateRead(r, a, u, n, admin)
        PROVE  LinksInv'
    <2>1. PICK l \in Links :
            /\ Fresh(l)
            /\ Enter(r, [Idle EXCEPT !.op = "create", !.user = u, !.new = l,
                                     !.name = n, !.value = admin])
      BY <1>8 DEF CreateRead
    <2> DEFINE m == [Idle EXCEPT !.op = "create", !.user = u, !.new = l,
                                 !.name = n, !.value = admin]
    <2>2. m \in Request
      BY DEF Request, Ops
    <2>3. m.op = "create" /\ m.user = u /\ m.new = l
      BY DEF Request
    <2> HIDE DEF m
    <2>4. Quiet(m)
      BY <2>1, <2>3, <1>f
      DEF Quiet, Formed, LinkHeld, SeenAll, Presenting, Inserting, Activating, Reissuing
    <2> QED BY <1>8, <2>1, <2>2, <2>3, <2>4, <1>f, <1>q DEF CreateRead, m
  <1>9. ASSUME NEW a \in Users, NEW u \in Users, NEW value \in BOOLEAN,
               RoleRead(r, a, u, value) \/ ActiveRead(r, a, u, value)
        PROVE  LinksInv'
    <2> DEFINE d == [Idle EXCEPT !.op = "role", !.user = u, !.copy = user[u], !.value = value]
               e == [Idle EXCEPT !.op = "active", !.user = u, !.copy = user[u],
                                 !.value = value]
    <2>1. d \in Request /\ e \in Request
      BY <1>u DEF Request, Ops
    <2>2. /\ d.op = "role" /\ d.new = None /\ d.user = u
          /\ e.op = "active" /\ e.new = None /\ e.user = u
      BY DEF Request
    <2>3. (Enter(r, d) \/ Enter(r, e)) /\ UNCHANGED <<link, spent>>
      BY <1>9 DEF RoleRead, ActiveRead
    <2> HIDE DEF d, e
    <2> QED BY <2>1, <2>2, <2>3, <1>n, <1>q DEF Presenting, Inserting, Reissuing, Activating
  <1>10. ASSUME RegenerateRead(r) PROVE LinksInv'
    <2> DEFINE previous == IF UnusedBootstraps = {} THEN {} ELSE {Latest(UnusedBootstraps)}
               source == IF previous = {} THEN Latest(Bootstraps) ELSE Latest(previous)
    <2>1. PICK l \in Links :
            /\ Fresh(l)
            /\ Enter(r, [Idle EXCEPT !.op = "regenerate", !.new = l,
                                     !.user = link[source].user, !.seen = previous])
      BY <1>10 DEF RegenerateRead
    <2>2. /\ previous \in SUBSET Bootstraps /\ Bootstraps \in SUBSET Links /\ Bootstraps # {}
          /\ UnusedBootstraps \in SUBSET Links
      BY <1>10, LatestOf DEF UnusedBootstraps, Bootstraps, RegenerateRead
    <2>3. "invite" \notin overlapped => LiveBootstraps \subseteq previous
      <3> SUFFICES ASSUME "invite" \notin overlapped, NEW k \in LiveBootstraps
                   PROVE  k \in previous
        OBVIOUS
      <3>1. k \in UnusedBootstraps /\ \A j \in Bootstraps : j <= k
        BY DEF LiveBootstraps, UnusedBootstraps, Live, LinksInv, NewestInv
      <3>2. Latest(UnusedBootstraps) \in UnusedBootstraps /\ k <= Latest(UnusedBootstraps)
        BY <2>2, <3>1, LatestOf
      <3>3. Latest(UnusedBootstraps) \in Bootstraps /\ UnusedBootstraps # {}
        BY <3>2 DEF UnusedBootstraps
      <3>4. k \in Nat /\ Latest(UnusedBootstraps) \in Nat
        BY <2>2, <3>1, <3>2, LinkNumbers
      <3>5. k = Latest(UnusedBootstraps)
        BY <3>1, <3>2, <3>3, <3>4
      <3> QED BY <3>3, <3>5
    <2> HIDE DEF previous
    <2>4. source \in Bootstraps
      BY <2>2, LatestOf
    <2>5. link[source].user \in Users
      BY <2>4, <1>l DEF Bootstraps
    <2> HIDE DEF source
    <2> DEFINE m == [Idle EXCEPT !.op = "regenerate", !.new = l,
                                 !.user = link[source].user, !.seen = previous]
    <2>6. m \in Request
      BY <2>2, <2>5 DEF Request, Ops
    <2>7. /\ m.op = "regenerate" /\ m.user = link[source].user /\ m.new = l
          /\ m.seen = previous
      BY DEF Request
    <2> HIDE DEF m
    <2>8. \A k \in Bootstraps : k < l
      BY <2>1, FreshIsLast DEF Bootstraps
    <2>9. Quiet(m)
      BY <2>1, <2>3, <2>5, <2>7, <2>8, <1>f
      DEF Quiet, Formed, LinkHeld, SeenAll, Presenting, Inserting, Activating, Reissuing
    <2> QED BY <1>10, <2>1, <2>6, <2>7, <2>9, <1>f, <1>q DEF RegenerateRead, m
  <1>11. ASSUME NEW u \in Users, RecipientRead(r, u) PROVE LinksInv'
    <2>1. PICK l \in Links :
            /\ Fresh(l)
            /\ Enter(r, [Idle EXCEPT !.op = "recipient", !.new = l, !.user = u,
                                     !.seen = {Latest(Bootstraps)}])
      BY <1>11 DEF RecipientRead
    <2>2. /\ Bootstraps \in SUBSET Links /\ Latest(Bootstraps) \in Bootstraps
          /\ \A k \in Bootstraps : k <= Latest(Bootstraps)
      BY <1>11, LatestOf DEF RecipientRead, Bootstraps
    <2>3. "invite" \notin overlapped => LiveBootstraps \subseteq {Latest(Bootstraps)}
      <3> SUFFICES ASSUME "invite" \notin overlapped, NEW k \in LiveBootstraps
                   PROVE  k = Latest(Bootstraps)
        OBVIOUS
      <3>1. k \in Bootstraps /\ \A j \in Bootstraps : j <= k
        BY DEF LiveBootstraps, LinksInv, NewestInv
      <3>2. k \in Nat /\ Latest(Bootstraps) \in Nat
        BY <2>2, <3>1, LinkNumbers
      <3> QED BY <2>2, <3>1, <3>2
    <2> DEFINE m == [Idle EXCEPT !.op = "recipient", !.new = l, !.user = u,
                                 !.seen = {Latest(Bootstraps)}]
    <2>4. m \in Request
      BY <2>2 DEF Request, Ops
    <2>5. m.op = "recipient" /\ m.user = u /\ m.new = l /\ m.seen = {Latest(Bootstraps)}
      BY DEF Request
    <2> HIDE DEF m
    <2>6. \A k \in Bootstraps : k < l
      BY <2>1, FreshIsLast DEF Bootstraps
    <2>7. Quiet(m)
      BY <2>1, <2>3, <2>5, <2>6, <1>f
      DEF Quiet, Formed, LinkHeld, SeenAll, Presenting, Inserting, Activating, Reissuing
    <2> QED BY <1>11, <2>1, <2>4, <2>5, <2>7, <1>f, <1>q DEF RecipientRead, m
  <1> QED
    BY <1>1, <1>2, <1>3, <1>4, <1>5, <1>6, <1>7, <1>8, <1>9, <1>10, <1>11
    DEF Begin, AuthEndpoints, UserEndpoints, PlatformEndpoints

\* A request that ends without touching a link.
LEMMA QuietStep ==
    ASSUME LinksInv, TypeOK, NEW r \in Requests, Leave(r), UNCHANGED <<link, spent>>
    PROVE  LinksInv'
  <1>1. /\ \A l \in Links : Aged(l)
        /\ \A q \in Requests : req'[q] = req[q] \/ req'[q] = Finished
        /\ overlapped' = overlapped
    BY DEF Aged, Leave, TypeOK
  <1>2. TableInv'
    BY <1>1 DEF LinksInv, TableInv
  <1> QED BY <1>1, <1>2, AgeingStep

\* A link is used by the one request that holds it.
LEMMA UseStep ==
    ASSUME LinksInv, TypeOK, NEW r \in Requests, Leave(r),
           req[r].op \in {"reset"} \cup Activating,
           link' = [link EXCEPT ![req[r].link].used = TRUE],
           spent' = [spent EXCEPT ![req[r].link] = @ \cup {r}]
    PROVE  LinksInv'
  <1> DEFINE l == req[r].link
  <1>0. /\ Formed(req[r]) /\ LinkHeld(req[r])
        /\ \A q \in Requests : LinkHeld(req[q])
        /\ \A q \in Requests : q # r => Apart(q, r)
    BY DEF LinksInv
  <1>1. l \in Links /\ link[l].purpose # "none"
    BY <1>0 DEF Formed, LinkHeld, Presenting, Activating
  <1>2. /\ \A q \in Requests : req'[q] = req[q] \/ req'[q] = Finished
        /\ req'[r] = Finished /\ overlapped' = overlapped
    BY DEF Leave, TypeOK
  <1>3. req'[r] # req[r]
    BY <1>2, RecordTypes DEF Activating
  <1>4. /\ link'[l].purpose = link[l].purpose /\ link'[l].user = link[l].user
        /\ link'[l].used /\ link'[l].expired = link[l].expired
        /\ \A k \in Links \ {l} : link'[k] = link[k]
        /\ spent'[l] = spent[l] \cup {r}
        /\ \A k \in Links \ {l} : spent'[k] = spent[k]
    BY <1>1 DEF TypeOK, Link
  <1>5. \A k \in Links : Aged(k)
    BY <1>4 DEF Aged
  <1>6. link[l].purpose = "reset" \/ "activate" \notin overlapped => ~link[l].used
    BY <1>0 DEF LinkHeld, Activating
  <1> HIDE DEF l
  <1>7. TableInv'
    <2>1. ASSUME NEW k \in Links \ {l}
          PROVE  /\ link'[k].purpose # "none" => link'[k].user \in Users
                 /\ link'[k].used => link'[k].purpose # "none"
                 /\ spent'[k] # {} => link'[k].used
                 /\ link'[k].purpose = "reset" \/ "activate" \notin overlapped' =>
                      \A a, b \in spent'[k] : a = b
      <3>1. link'[k] = link[k] /\ spent'[k] = spent[k] /\ overlapped' = overlapped
        BY <1>2, <1>4
      <3>2. /\ link[k].purpose # "none" => link[k].user \in Users
            /\ link[k].used => link[k].purpose # "none"
            /\ spent[k] # {} => link[k].used
            /\ link[k].purpose = "reset" \/ "activate" \notin overlapped =>
                 \A a, b \in spent[k] : a = b
        BY DEF LinksInv, TableInv
      <3> QED BY <3>1, <3>2
    <2>2. link'[l].user \in Users
      BY <1>1, <1>4 DEF LinksInv, TableInv
    <2>3. link[l].purpose = "reset" \/ "activate" \notin overlapped => spent[l] = {}
      BY <1>1, <1>6 DEF LinksInv, TableInv
    <2>4. link'[l].purpose = "reset" \/ "activate" \notin overlapped' =>
            \A a, b \in spent'[l] : a = b
      BY <1>2, <1>4, <2>3
    <2> QED BY <1>1, <1>4, <2>1, <2>2, <2>4 DEF TableInv
  <1>8. ASSUME NEW q \in Requests, req'[q] = req[q],
               req[q].op = "reset" \/ (req[q].op \in Activating /\ "activate" \notin overlapped)
        PROVE  link'[req[q].link].used = link[req[q].link].used
    <2>1. q # r
      BY <1>3, <1>8
    <2>2. Apart(q, r) /\ LinkHeld(req[q]) /\ LinkHeld(req[r])
      BY <1>0, <2>1
    <2>3. req[q].link \in Links
      BY <1>8 DEF LinksInv, Formed, Presenting
    <2>4. CASE req[q].op = "reset"
      <3>1. req[q].link # l
        BY <2>2, <2>4 DEF Apart, LinkHeld, Activating, l
      <3> QED BY <2>3, <3>1, <1>4
    <2>5. CASE req[q].op \in Activating /\ "activate" \notin overlapped
      <3>1. Kind(req[q].op) = "activate" /\ "activate" \in Kinds
        BY <2>5 DEF Kind, Kinds, Activating
      <3>2. req[r].op = "reset"
        BY <2>2, <2>5, <3>1 DEF Apart, Kind, Activating
      <3>3. req[q].link # l
        BY <2>2, <2>5, <3>2 DEF LinkHeld, Activating, l
      <3> QED BY <2>3, <3>3, <1>4
    <2> QED BY <1>8, <2>4, <2>5
  <1> QED BY <1>2, <1>5, <1>7, <1>8, AgeingStep

\* A link is inserted, and those that its request has seen expire.
LEMMA ReplaceStep ==
    ASSUME LinksInv, TypeOK, NEW r \in Requests, Leave(r), req[r].op \in Inserting,
           NEW ls, NEW p \in Invitations \cup {"reset"},
           link' = Replace(ls, req[r].new, p, req[r].user), spent' = spent,
           p = "reset" => req[r].op = "issue",
           p = "password_reset" => req[r].op = "invite",
           p = "bootstrap" => req[r].op \in Reissuing,
           req[r].op # "create" => ls = req[r].seen
    PROVE  LinksInv'
  <1> DEFINE l == req[r].new
             u == req[r].user
  <1>0. /\ Formed(req[r]) /\ SeenAll(req[r])
        /\ \A q \in Requests : Formed(req[q]) /\ LinkHeld(req[q]) /\ SeenAll(req[q])
        /\ \A q \in Requests : q # r => Apart(q, r) /\ Apart(r, q)
    BY DEF LinksInv
  <1>1. l \in Links /\ l # None /\ link[l].purpose = "none" /\ u \in Users
    BY <1>0, LinkNumbers DEF Formed, Inserting, Reissuing, Personal, Ops
  <1>2. /\ \A q \in Requests \ {r} : req'[q] = req[q]
        /\ req'[r] = Finished /\ overlapped' = overlapped
    BY DEF Leave, TypeOK
  <1> HIDE DEF l, u
  <1>3. /\ link'[l].purpose = p /\ link'[l].user = u /\ ~link'[l].used
    BY <1>1, RecordTypes DEF Replace, l, u, Link, NoLink
  <1>4. ASSUME NEW k \in Links \ {l}
        PROVE  /\ link'[k].purpose = link[k].purpose /\ link'[k].user = link[k].user
               /\ link'[k].used = link[k].used
               /\ link[k].expired => link'[k].expired
               /\ k \in ls => link'[k].expired
    BY DEF Replace, TypeOK, Link, l
  <1>5. ASSUME NEW k \in Links \ {l}, Live(k)' PROVE Live(k) /\ k \notin ls
    BY <1>4, <1>5 DEF Live
  <1>6. \A v : LiveResets(v)' \subseteq
                 (LiveResets(v) \ ls) \cup (IF p = "reset" /\ v = u THEN {l} ELSE {})
    BY <1>3, <1>4, <1>5 DEF LiveResets
  <1>7. \A v : LiveInvites(v)' \subseteq
                 (LiveInvites(v) \ ls) \cup (IF p = "password_reset" /\ v = u THEN {l} ELSE {})
    BY <1>3, <1>4, <1>5 DEF LiveInvites, UnusedInvites
  <1>8. Bootstraps' = Bootstraps \cup (IF p = "bootstrap" THEN {l} ELSE {})
    BY <1>1, <1>3, <1>4 DEF Bootstraps
  <1>9. LiveBootstraps' \subseteq
          (LiveBootstraps \ ls) \cup (IF p = "bootstrap" THEN {l} ELSE {})
    BY <1>3, <1>4, <1>5 DEF LiveBootstraps, Bootstraps
  <1>10. ASSUME NEW q \in Requests \ {r}
         PROVE  Formed(req[q])' /\ LinkHeld(req[q])' /\ SeenAll(req[q])'
    <2>0. Formed(req[q]) /\ LinkHeld(req[q]) /\ SeenAll(req[q]) /\ Apart(r, q)
      BY <1>0
    <2>1. Formed(req[q])'
      BY <1>1, <1>2, <1>4, <2>0 DEF Formed, Apart, l
    <2>2. LinkHeld(req[q])'
      <3>1. req[q].op \in Presenting => req[q].link \in Links \ {l}
        BY <1>1, <2>0 DEF Formed, LinkHeld, Presenting, Activating
      <3> QED BY <1>2, <1>4, <2>0, <3>1 DEF LinkHeld, Presenting, Activating
    <2>3. SeenAll(req[q])'
      <3>1. ASSUME req[q].op = "issue", "issue" \notin overlapped PROVE p # "reset"
        BY <2>0, <3>1 DEF Apart, Kind, Kinds
      <3>2. ASSUME req[q].op \in {"invite"} \cup Reissuing, "invite" \notin overlapped
            PROVE  p # "password_reset" /\ p # "bootstrap"
        BY <2>0, <3>2 DEF Apart, Kind, Kinds, Reissuing
      <3> QED BY <1>2, <1>6, <1>7, <1>8, <1>9, <2>0, <3>1, <3>2 DEF SeenAll
    <2> QED BY <2>1, <2>2, <2>3
  <1>11. ASSUME NEW x \in Requests, NEW q \in Requests, x # q PROVE Apart(x, q)'
    <2>1. CASE x = r \/ q = r
      BY <1>2, <2>1, EndedRequest
    <2>2. CASE x # r /\ q # r
      BY <1>2, <1>11, <2>2 DEF LinksInv, Apart
    <2> QED BY <2>1, <2>2
  <1>12. TableInv'
    <2>1. \A k \in Links \ {l} :
             /\ link'[k].purpose # "none" => link'[k].user \in Users
             /\ link'[k].used => link'[k].purpose # "none"
             /\ spent'[k] # {} => link'[k].used
             /\ link'[k].purpose = "reset" \/ "activate" \notin overlapped' =>
                  \A a, b \in spent'[k] : a = b
      BY <1>2, <1>4 DEF LinksInv, TableInv
    <2>2. spent'[l] = {}
      BY <1>1 DEF LinksInv, TableInv
    <2> QED BY <1>1, <1>3, <2>1, <2>2 DEF TableInv
  <1>13. NewestInv'
    <2>0. NewestInv
      BY DEF LinksInv
    <2>1. ASSUME "issue" \notin overlapped, NEW v \in Users
          PROVE  \A j, k \in LiveResets(v)' : j = k
      <3>1. CASE p = "reset" /\ v = u
        <4>1. LiveResets(u) \subseteq ls
          BY <1>0, <2>1, <3>1 DEF SeenAll, u
        <4> QED BY <1>6, <3>1, <4>1
      <3>2. CASE ~(p = "reset" /\ v = u)
        BY <1>6, <2>0, <2>1, <3>2 DEF NewestInv
      <3> QED BY <3>1, <3>2
    <2>2. ASSUME "invite" \notin overlapped, NEW v \in Users
          PROVE  \A j, k \in LiveInvites(v)' : j = k
      <3>1. CASE p = "password_reset" /\ v = u
        <4>1. LiveInvites(u) \subseteq ls
          BY <1>0, <2>2, <3>1 DEF SeenAll, u
        <4> QED BY <1>7, <3>1, <4>1
      <3>2. CASE ~(p = "password_reset" /\ v = u)
        BY <1>7, <2>0, <2>2, <3>2 DEF NewestInv
      <3> QED BY <3>1, <3>2
    <2>3. ASSUME "invite" \notin overlapped, NEW j \in LiveBootstraps', NEW k \in Bootstraps'
          PROVE  k <= j
      <3>1. CASE p = "bootstrap"
        <4>1. LiveBootstraps \subseteq ls /\ \A i \in Bootstraps : i < l
          BY <1>0, <2>3, <3>1 DEF SeenAll, l, Reissuing
        <4>2. j = l
          BY <1>9, <4>1
        <4>3. k = l \/ k < l
          BY <1>8, <4>1
        <4>4. k \in Nat /\ l \in Nat
          BY <1>1, LinkNumbers DEF Bootstraps
        <4> QED BY <4>2, <4>3, <4>4
      <3>2. CASE p # "bootstrap"
        BY <1>8, <1>9, <2>0, <2>3, <3>2 DEF NewestInv
      <3> QED BY <3>1, <3>2
    <2> QED BY <1>2, <2>1, <2>2, <2>3 DEF NewestInv
  <1>14. Formed(req[r])' /\ LinkHeld(req[r])' /\ SeenAll(req[r])'
    BY <1>2, EndedRequest
  <1> QED BY <1>10, <1>11, <1>12, <1>13, <1>14 DEF LinksInv

\* The rows that a reset locks are nobody else's.
LEMMA LockStep ==
    ASSUME LinksInv, TypeOK, NEW r \in Requests, ResetLock(r)
    PROVE  LinksInv'
  <1> DEFINE l == req[r].link
             v == link[l].user
  <1>1. /\ req[r].op = "present" /\ ~link[l].used /\ ~Locked(l)
        /\ link' = link /\ spent' = spent /\ overlapped' = overlapped
    BY DEF ResetLock
  <1>2. /\ l \in Links /\ link[l].purpose = "reset" /\ req[r].new = None /\ v \in Users
    BY <1>1 DEF LinksInv, TableInv, Formed, LinkHeld, Presenting, Inserting, Reissuing
  <1>3. /\ req'[r].op = "reset" /\ req'[r].link = l /\ req'[r].user = v /\ req'[r].new = None
        /\ \A q \in Requests \ {r} : req'[q] = req[q]
    BY <1>2 DEF ResetLock, TypeOK, Request
  <1> HIDE DEF l, v
  <1>4. \A k \in Links : Aged(k)
    BY <1>1 DEF Aged
  <1>5. Formed(req[r])' /\ LinkHeld(req[r])' /\ SeenAll(req[r])'
    BY <1>1, <1>2, <1>3 DEF Formed, LinkHeld, SeenAll, Presenting, Inserting, Reissuing,
                            Activating
  <1>6. ASSUME NEW q \in Requests \ {r}
        PROVE  Formed(req[q])' /\ LinkHeld(req[q])' /\ SeenAll(req[q])'
    BY <1>1, <1>3, <1>4, FrameRequest
  <1>7. ASSUME NEW x \in Requests, NEW q \in Requests, x # q PROVE Apart(x, q)'
    <2>0. Kind("reset") = "none" /\ "none" \notin Kinds
      BY DEF Kind, Kinds
    <2>1. \A z \in Requests : req[z].op = "reset" => req[z].link # l
      BY <1>1 DEF Locked
    <2>2. Apart(x, q)
      BY <1>7 DEF LinksInv
    <2>3. CASE x = r
      BY <1>1, <1>3, <1>7, <2>0, <2>1, <2>3 DEF Apart
    <2>4. CASE q = r
      <3>1. req'[x] = req[x]
        BY <1>3, <1>7, <2>4
      <3>2. req[x].new # None => req[x].new # req'[r].new
        BY <1>3
      <3> QED BY <1>1, <1>3, <2>0, <2>1, <2>4, <3>1, <3>2 DEF Apart
    <2>5. CASE x # r /\ q # r
      BY <1>1, <1>3, <2>2, <2>5 DEF Apart
    <2> QED BY <2>3, <2>4, <2>5
  <1>8. TableInv' /\ NewestInv'
    BY <1>1, <1>4, AgedViews DEF LinksInv, TableInv, NewestInv
  <1> QED BY <1>5, <1>6, <1>7, <1>8 DEF LinksInv

LEMMA CountLinks ==
    ASSUME LinksInv, TypeOK, NEW r \in Requests, Count(r)
    PROVE  LinksInv'
  <1>1. CASE LastAdministrator(r)
    <2>1. Leave(r) /\ UNCHANGED <<link, spent>>
      BY <1>1 DEF Count, Leave
    <2> QED BY <2>1, QuietStep
  <1>2. CASE ~LastAdministrator(r)
    <2>1. /\ req[r].op \in {"role", "active"} /\ req'[r].op \in {"role_counted", "active_counted"}
          /\ req'[r].new = req[r].new /\ req'[r].user = req[r].user
          /\ \A q \in Requests \ {r} : req'[q] = req[q]
          /\ link' = link /\ spent' = spent /\ overlapped' = overlapped
      BY <1>2 DEF Count, TypeOK, Request
    <2>2. \A k \in Links : Aged(k)
      BY <2>1 DEF Aged
    <2>3. Formed(req[r])' /\ LinkHeld(req[r])' /\ SeenAll(req[r])'
      BY <2>1 DEF LinksInv, Formed, LinkHeld, SeenAll, Presenting, Inserting, Reissuing,
                  Activating, Personal, Ops
    <2>4. ASSUME NEW q \in Requests \ {r}
          PROVE  Formed(req[q])' /\ LinkHeld(req[q])' /\ SeenAll(req[q])'
      BY <2>1, <2>2, FrameRequest
    <2>5. ASSUME NEW x \in Requests, NEW q \in Requests, x # q PROVE Apart(x, q)'
      <3>1. \A z \in Requests : /\ Kind(req'[z].op) = Kind(req[z].op)
                                /\ req'[z].new = req[z].new
                                /\ req'[z].op = "reset" =>
                                     req[z].op = "reset" /\ req'[z].link = req[z].link
        BY <2>1 DEF Kind
      <3>2. Apart(x, q)
        BY <2>5 DEF LinksInv
      <3> QED BY <2>1, <3>1, <3>2 DEF Apart
    <2>6. TableInv' /\ NewestInv'
      BY <2>1, <2>2, AgedViews DEF LinksInv, TableInv, NewestInv
    <2> QED BY <2>3, <2>4, <2>5, <2>6 DEF LinksInv
  <1> QED BY <1>1, <1>2

LEMMA EndLinks ==
    ASSUME TypeOK, LinksInv, NEW r \in Requests, End(r)
    PROVE  LinksInv'
  <1>1. CASE \/ LoginAccept(r) \/ LoginReject(r) \/ ChangeCommit(r) \/ RoleCommit(r)
             \/ ActiveCommit(r) \/ RollBack(r)
    BY <1>1, QuietStep
    DEF LoginAccept, LoginReject, ChangeCommit, RoleCommit, ActiveCommit, RollBack
  <1>2. CASE ResetCommit(r) \/ ActivateCommit(r) \/ BootstrapCommit(r)
    BY <1>2, UseStep DEF ResetCommit, ActivateCommit, BootstrapCommit, Activating
  <1>3. CASE ResetIssue(r)
    BY <1>3, ReplaceStep DEF ResetIssue, Inserting
  <1>4. CASE InviteCommit(r)
    BY <1>4, ReplaceStep DEF InviteCommit, Inserting, Invitations
  <1>5. CASE BootstrapReissue(r)
    BY <1>5, ReplaceStep DEF BootstrapReissue, Inserting, Reissuing, Invitations
  <1>6. CASE CreateCommit(r)
    BY <1>6, ReplaceStep DEF CreateCommit, Inserting, Invitations
  <1>7. CASE ResetLock(r)
    BY <1>7, LockStep
  <1>8. CASE Count(r)
    BY <1>8, CountLinks
  <1> QED BY <1>1, <1>2, <1>3, <1>4, <1>5, <1>6, <1>7, <1>8 DEF End

LEMMA NextLinks == TypeOK /\ LinksInv /\ [Next]_vars => LinksInv'
  <1> SUFFICES ASSUME TypeOK, LinksInv, [Next]_vars PROVE LinksInv'
    OBVIOUS
  <1>1. ASSUME NEW r \in Requests, Begin(r) PROVE LinksInv'
    BY <1>1, BeginLinks
  <1>2. ASSUME NEW r \in Requests, End(r) PROVE LinksInv'
    BY <1>2, EndLinks
  <1>3. CASE UNCHANGED <<link, req, spent, overlapped>>
    <2>1. (\A l \in Links : Aged(l)) /\ TableInv'
      BY <1>3 DEF Aged, LinksInv, TableInv
    <2> QED BY <1>3, <2>1, AgeingStep
  <1>4. ASSUME NEW l \in Links, Expire(l) PROVE LinksInv'
    <2>1. /\ link'[l] = [link[l] EXCEPT !.expired = TRUE]
          /\ \A k \in Links \ {l} : link'[k] = link[k]
          /\ req' = req /\ spent' = spent /\ overlapped' = overlapped
      BY <1>4 DEF Expire, TypeOK
    <2>2. \A k \in Links : Aged(k) /\ link'[k].used = link[k].used
      BY <2>1 DEF Aged, TypeOK, Link
    <2>3. TableInv'
      BY <2>1, <2>2 DEF LinksInv, TableInv, Aged
    <2>4. \A q \in Requests : req[q].op \in Presenting => req[q].link \in Links
      BY DEF LinksInv, Formed
    <2> QED BY <2>1, <2>2, <2>3, <2>4, AgeingStep DEF Presenting
  <1> QED BY <1>1, <1>2, <1>3, <1>4 DEF Next, SignOn, vars

-----------------------------------------------------------------------------
(***************************************************************************)
(* Users.                                                                  *)
(***************************************************************************)

\* No row has more failures or a new lock.
Milder ==
    \A u \in Users : /\ user'[u].failed <= user[u].failed
                     /\ user'[u].locked => user[u].locked

\* What the write of one row does.
LEMMA WriteRow ==
    ASSUME TypeOK, NEW u \in Users, NEW copy \in User, NEW new \in User
    PROVE  /\ Write(u, copy, new)[u] = Flushed(user[u], copy, new)
           /\ \A v \in Users \ {u} : Write(u, copy, new)[v] = user[v]
  BY DEF Write, TypeOK

\* What a step leaves true when no administrator goes.
LEMMA KeepStep ==
    ASSUME TypeOK, TypeOK', LinksInv, UsersInv, LockIsEarned',
           overlapped \subseteq overlapped', ActiveAdmins \subseteq ActiveAdmins',
           \A u \in Users : wrong[u] <= wrong'[u],
           \A q \in Requests : \/ req'[q] = req[q]
                               \/ LastHeld(req[q])' /\ Counted(req[q])',
           \A l \in Bootstraps' : link'[l].used =>
              (l \in Bootstraps /\ link[l].used) \/ ActiveAdmins' # {}
    PROVE  UsersInv'
  <1>1. ASSUME NEW q \in Requests, req'[q] = req[q] PROVE LastHeld(req[q])'
    BY <1>1 DEF UsersInv, LastHeld, Another
  <1>2. ASSUME NEW q \in Requests, req'[q] = req[q] PROVE Counted(req[q])'
    <2>1. CASE req[q].op = "rejected"
      <3>1. req[q].user \in Users
        BY <2>1 DEF LinksInv, Formed, Personal, Ops
      <3>2. req[q].copy.failed \in Nat
        BY DEF TypeOK, Request, User
      <3>3. wrong[req[q].user] \in Nat /\ wrong'[req[q].user] \in Nat
        BY <3>1 DEF TypeOK
      <3>4. ~req[q].copy.locked /\ req[q].copy.failed + 1 <= wrong[req[q].user]
        BY <2>1 DEF UsersInv, Counted
      <3>5. wrong[req[q].user] <= wrong'[req[q].user]
        BY <3>1
      <3>6. req[q].copy.failed + 1 <= wrong'[req[q].user]
        BY <3>2, <3>3, <3>4, <3>5
      <3> QED BY <1>2, <3>4, <3>6 DEF Counted
    <2>2. CASE req[q].op # "rejected"
      BY <1>2, <2>2 DEF Counted
    <2> QED BY <2>1, <2>2
  <1>3. AdministratorRemains'
    BY DEF UsersInv, AdministratorRemains
  <1> QED BY <1>1, <1>2, <1>3 DEF UsersInv

LEMMA MilderIsEarned ==
    ASSUME TypeOK, TypeOK', UsersInv, Milder, \A u \in Users : wrong[u] <= wrong'[u]
    PROVE  LockIsEarned'
  <1> SUFFICES ASSUME NEW u \in Users
               PROVE  /\ user'[u].failed <= wrong'[u]
                      /\ user'[u].locked => wrong'[u] >= LockAfter
    BY DEF LockIsEarned
  <1>1. /\ user[u].failed \in Nat /\ user'[u].failed \in Nat
        /\ wrong[u] \in Nat /\ wrong'[u] \in Nat
    BY DEF TypeOK, User
  <1>2. user[u].failed <= wrong[u] /\ (user[u].locked => wrong[u] >= LockAfter)
    BY DEF UsersInv, LockIsEarned
  <1>3. user'[u].failed <= user[u].failed /\ (user'[u].locked => user[u].locked)
    BY DEF Milder
  <1> QED BY <1>1, <1>2, <1>3

\* A request that has ended claims nothing.
LEMMA EndedUser ==
    ASSUME NEW q \in Requests, req'[q] = Finished
    PROVE  LastHeld(req[q])' /\ Counted(req[q])'
  BY RecordTypes DEF LastHeld, Counted

\* A commit after which every administrator is still there.
LEMMA LeaveKeeps ==
    ASSUME TypeOK, TypeOK', LinksInv, UsersInv, LockIsEarned', wrong' = wrong,
           NEW r \in Requests, Leave(r), ActiveAdmins \subseteq ActiveAdmins',
           \A l \in Bootstraps' : link'[l].used =>
              (l \in Bootstraps /\ link[l].used) \/ ActiveAdmins' # {}
    PROVE  UsersInv'
  <1>1. /\ req'[r] = Finished /\ \A q \in Requests \ {r} : req'[q] = req[q]
        /\ overlapped' = overlapped
    BY DEF Leave, TypeOK
  <1>2. \A u \in Users : wrong[u] <= wrong'[u]
    BY DEF TypeOK
  <1> QED BY <1>1, <1>2, KeepStep, EndedUser

\* Reading steps write no row.
LEMMA BeginUsers ==
    ASSUME TypeOK, TypeOK', LinksInv, UsersInv, NEW r \in Requests, Begin(r)
    PROVE  UsersInv'
  <1> USE RecordTypes
  <1>0. UNCHANGED <<user, link>>
    BY DEF Begin, AuthEndpoints, UserEndpoints, PlatformEndpoints, LoginRead, ResetRequest,
           ChangeRead, ResetPresent, ActivateRead, BootstrapRead, InviteRead, CreateRead,
           RoleRead, ActiveRead, RegenerateRead, RecipientRead
  <1>1. ActiveAdmins' = ActiveAdmins /\ Bootstraps' = Bootstraps
    BY <1>0 DEF ActiveAdmins, Bootstraps
  <1>2. ASSUME NEW m \in Request, Enter(r, m), \A u \in Users : wrong[u] <= wrong'[u],
               LastHeld(m),
               m.op = "rejected" => ~m.copy.locked /\ m.copy.failed + 1 <= wrong'[m.user]
        PROVE  UsersInv'
    <2>1. /\ req'[r] = m /\ \A q \in Requests \ {r} : req'[q] = req[q]
          /\ overlapped \subseteq overlapped'
      BY <1>2 DEF Enter, TypeOK
    <2>2. LastHeld(req[r])' /\ Counted(req[r])'
      BY <1>1, <1>2, <2>1 DEF LastHeld, Another, Counted
    <2>3. Milder
      BY <1>0 DEF Milder, TypeOK, User
    <2>4. LockIsEarned'
      BY <1>2, <2>3, MilderIsEarned
    <2> QED BY <1>0, <1>1, <1>2, <2>1, <2>2, <2>4, KeepStep
  <1>3. ASSUME NEW m, Enter(r, m), wrong' = wrong,
               m.op \notin {"rejected"} \cup Administering
        PROVE  UsersInv'
    <2>1. /\ req'[r] = m /\ \A q \in Requests \ {r} : req'[q] = req[q]
          /\ overlapped \subseteq overlapped'
      BY <1>3 DEF Enter, TypeOK
    <2>2. LastHeld(req[r])' /\ Counted(req[r])'
      BY <1>3, <2>1 DEF LastHeld, Counted, Administering
    <2>3. Milder /\ \A u \in Users : wrong[u] <= wrong'[u]
      BY <1>0, <1>3 DEF Milder, TypeOK, User
    <2>4. LockIsEarned'
      BY <2>3, MilderIsEarned
    <2> QED BY <1>0, <1>1, <2>1, <2>2, <2>3, <2>4, KeepStep
  <1>4. ASSUME NEW u \in Users, NEW verifies \in BOOLEAN, LoginRead(r, u, verifies)
        PROVE  UsersInv'
    <2> DEFINE a == [Idle EXCEPT !.op = "accepted", !.user = u, !.copy = user[u]]
               b == [Idle EXCEPT !.op = "rejected", !.user = u, !.copy = user[u]]
    <2>0. user[u] \in User /\ wrong \in [Users -> Nat]
      BY DEF TypeOK
    <2>1. a \in Request /\ b \in Request
      BY <2>0 DEF Request, Ops
    <2>2. a.op = "accepted" /\ b.op = "rejected" /\ b.user = u /\ b.copy = user[u]
      BY DEF Request
    <2>3. \/ (Enter(r, a) \/ Enter(r, Finished)) /\ wrong' = wrong
          \/ Enter(r, b) /\ ~user[u].locked /\ wrong' = [wrong EXCEPT ![u] = @ + 1]
      BY <1>4 DEF LoginRead, MayLogIn
    <2> HIDE DEF a, b
    <2>4. CASE (Enter(r, a) \/ Enter(r, Finished)) /\ wrong' = wrong
      <3> QED BY <2>2, <2>4, <1>3 DEF Administering
    <2>5. CASE Enter(r, b) /\ ~user[u].locked /\ wrong' = [wrong EXCEPT ![u] = @ + 1]
      <3>1. /\ \A v \in Users : wrong[v] <= wrong'[v]
            /\ wrong'[u] = wrong[u] + 1
        BY <2>0, <2>5
      <3>2. user[u].failed <= wrong[u] /\ user[u].failed \in Nat
        BY <2>0 DEF UsersInv, LockIsEarned, User
      <3>3. user[u].failed + 1 <= wrong'[u]
        BY <2>0, <3>1, <3>2
      <3>4. LastHeld(b)
        BY <2>2 DEF LastHeld
      <3> QED BY <2>1, <2>2, <2>5, <3>1, <3>3, <3>4, <1>2
    <2> QED BY <2>3, <2>4, <2>5
  <1>5. ASSUME NEW a \in Users, NEW u \in Users, NEW value \in BOOLEAN,
               RoleRead(r, a, u, value) \/ ActiveRead(r, a, u, value)
        PROVE  UsersInv'
    <2> DEFINE d == [Idle EXCEPT !.op = "role", !.user = u, !.copy = user[u], !.value = value]
               e == [Idle EXCEPT !.op = "active", !.user = u, !.copy = user[u],
                                 !.value = value]
    <2>0. user[u] \in User /\ wrong \in [Users -> Nat]
      BY DEF TypeOK
    <2>1. d \in Request /\ e \in Request
      BY <2>0 DEF Request, Ops
    <2>2. /\ d.op = "role" /\ d.copy = user[u] /\ d.user = u
          /\ e.op = "active" /\ e.copy = user[u] /\ e.user = u
      BY DEF Request
    <2>3. (Enter(r, d) \/ Enter(r, e)) /\ wrong' = wrong
      BY <1>5 DEF RoleRead, ActiveRead
    <2>4. a \in ActiveAdmins /\ user[u].exists
      BY <1>5 DEF RoleRead, ActiveRead, Administrator, Admitted, ActiveAdmins
    <2>5. (user[u].admin /\ user[u].active) \/ Another(u)
      BY <2>4 DEF Another, ActiveAdmins
    <2>6. \A v \in Users : wrong[v] <= wrong'[v]
      BY <2>0, <2>3
    <2> HIDE DEF d, e
    <2>7. LastHeld(d) /\ LastHeld(e)
      BY <2>2, <2>5 DEF LastHeld
    <2> QED BY <2>1, <2>2, <2>3, <2>6, <2>7, <1>2
  <1>6. ASSUME NEW u \in Users, NEW p \in BOOLEAN, ResetRequest(r, u, p) PROVE UsersInv'
    BY <1>3, <1>6 DEF ResetRequest, Idle, Administering
  <1>7. ASSUME NEW u \in Users, ChangeRead(r, u) PROVE UsersInv'
    BY <1>3, <1>7 DEF ChangeRead, Idle, Administering
  <1>8. ASSUME NEW l \in Links, ResetPresent(r, l) \/ ActivateRead(r, l) \/ BootstrapRead(r, l)
        PROVE  UsersInv'
    BY <1>3, <1>8 DEF ResetPresent, ActivateRead, BootstrapRead, Idle, Administering
  <1>9. ASSUME NEW a \in Users, NEW u \in Users, InviteRead(r, a, u) PROVE UsersInv'
    BY <1>3, <1>9 DEF InviteRead, Idle, Administering
  <1>10. ASSUME NEW a \in Users, NEW u \in Users, NEW n \in Names, NEW admin \in BOOLEAN,
                CreateRead(r, a, u, n, admin)
         PROVE  UsersInv'
    BY <1>3, <1>10 DEF CreateRead, Idle, Administering
  <1>11. ASSUME RegenerateRead(r) PROVE UsersInv'
    BY <1>3, <1>11 DEF RegenerateRead, Idle, Administering
  <1>12. ASSUME NEW u \in Users, RecipientRead(r, u) PROVE UsersInv'
    BY <1>3, <1>12 DEF RecipientRead, Idle, Administering
  <1> QED
    BY <1>4, <1>5, <1>6, <1>7, <1>8, <1>9, <1>10, <1>11, <1>12
    DEF Begin, AuthEndpoints, UserEndpoints, PlatformEndpoints

\* The row of u is written, and neither its lock nor its administrator goes.
LEMMA RowStep ==
    ASSUME TypeOK, NEW u \in Users, \A v \in Users \ {u} : user'[v] = user[v],
           user'[u].failed = 0 \/ user'[u].failed = user[u].failed,
           user'[u].locked => user[u].locked,
           u \in ActiveAdmins => user'[u].exists /\ user'[u].active /\ user'[u].admin
    PROVE  Milder /\ ActiveAdmins \subseteq ActiveAdmins'
  <1>1. Milder
    BY DEF Milder, TypeOK, User
  <1>2. ActiveAdmins \subseteq ActiveAdmins'
    BY DEF ActiveAdmins
  <1> QED BY <1>1, <1>2

\* A step in which no failure is counted and no administrator goes.
LEMMA GentleStep ==
    ASSUME TypeOK, TypeOK', LinksInv, UsersInv, wrong' = wrong, Milder,
           NEW r \in Requests, Leave(r), ActiveAdmins \subseteq ActiveAdmins',
           \A l \in Bootstraps' : link'[l].used =>
              (l \in Bootstraps /\ link[l].used) \/ ActiveAdmins' # {}
    PROVE  UsersInv'
  <1>1. \A u \in Users : wrong[u] <= wrong'[u]
    BY DEF TypeOK
  <1>2. LockIsEarned'
    BY <1>1, MilderIsEarned
  <1> QED BY <1>2, LeaveKeeps

\* An accepted login clears the failures it has read.
LEMMA AcceptUsers ==
    ASSUME TypeOK, TypeOK', LinksInv, UsersInv, NEW r \in Requests, LoginAccept(r)
    PROVE  UsersInv'
  <1> DEFINE c == req[r].copy
             u == req[r].user
             n == [c EXCEPT !.failed = 0]
  <1>1. c \in User /\ u \in Users /\ user[u] \in User
    BY DEF TypeOK, Request, LinksInv, Formed, LoginAccept, Personal, Ops
  <1>2. user' = Write(u, c, n) /\ Leave(r) /\ UNCHANGED <<link, wrong>>
    BY DEF LoginAccept
  <1> HIDE DEF c, u
  <1>3. n \in User
    BY <1>1 DEF User
  <1>4. /\ n.failed = 0 /\ n.locked = c.locked /\ n.exists = c.exists
        /\ n.active = c.active /\ n.admin = c.admin
    BY <1>1 DEF User
  <1> HIDE DEF n
  <1>5. user'[u] = Flushed(user[u], c, n) /\ \A v \in Users \ {u} : user'[v] = user[v]
    BY <1>1, <1>2, <1>3, WriteRow
  <1>6. /\ user'[u].failed = 0 \/ user'[u].failed = user[u].failed
        /\ user'[u].locked = user[u].locked /\ user'[u].exists = user[u].exists
        /\ user'[u].active = user[u].active /\ user'[u].admin = user[u].admin
    BY <1>1, <1>3, <1>4, <1>5, FlushedUser
  <1>7. Milder /\ ActiveAdmins \subseteq ActiveAdmins'
    BY <1>1, <1>5, <1>6, RowStep DEF ActiveAdmins
  <1> QED BY <1>2, <1>7, GentleStep DEF Bootstraps

\* A rejected login counts at most the failures there have been.
LEMMA RejectUsers ==
    ASSUME TypeOK, TypeOK', LinksInv, UsersInv, NEW r \in Requests, LoginReject(r)
    PROVE  UsersInv'
  <1> DEFINE c == req[r].copy
             u == req[r].user
             f == c.failed + 1
             b == f >= LockAfter
             n == [c EXCEPT !.failed = f, !.locked = b]
  <1>1. c \in User /\ u \in Users /\ user[u] \in User
    BY DEF TypeOK, Request, LinksInv, Formed, LoginReject, Personal, Ops
  <1>2. user' = Write(u, c, n) /\ Leave(r) /\ UNCHANGED <<link, wrong>>
    BY DEF LoginReject
  <1>c. ~c.locked /\ f <= wrong[u]
    BY DEF UsersInv, Counted, LoginReject
  <1>f. f \in Nat /\ b \in BOOLEAN /\ f # c.failed /\ (b <=> f >= LockAfter)
        /\ wrong[u] \in Nat
    BY <1>1 DEF TypeOK, User
  <1> HIDE DEF c, u, f, b
  <1>3. n \in User
    BY <1>1, <1>f DEF User
  <1>4. /\ n.failed = f /\ n.locked = b /\ n.exists = c.exists
        /\ n.active = c.active /\ n.admin = c.admin
    BY <1>1 DEF User
  <1> HIDE DEF n
  <1>5. user'[u] = Flushed(user[u], c, n) /\ \A v \in Users \ {u} : user'[v] = user[v]
    BY <1>1, <1>2, <1>3, WriteRow
  <1>6. /\ user'[u].failed = f
        /\ user'[u].locked = IF b THEN TRUE ELSE user[u].locked
        /\ user'[u].exists = user[u].exists
        /\ user'[u].active = user[u].active /\ user'[u].admin = user[u].admin
    <2>1. /\ user'[u].exists = user[u].exists
          /\ user'[u].active = user[u].active /\ user'[u].admin = user[u].admin
          /\ user'[u].failed = IF n.failed # c.failed THEN n.failed ELSE user[u].failed
          /\ user'[u].locked = IF n.locked # c.locked THEN n.locked ELSE user[u].locked
      BY <1>1, <1>3, <1>4, <1>5, FlushedUser
    <2>2. c.locked = FALSE
      BY <1>1, <1>c DEF User
    <2>3. b = TRUE \/ b = FALSE
      BY <1>f
    <2> QED BY <2>1, <2>2, <2>3, <1>4, <1>f
  <1>7. ActiveAdmins \subseteq ActiveAdmins'
    BY <1>5, <1>6 DEF ActiveAdmins
  <1>8. LockIsEarned'
    <2>1. ASSUME NEW v \in Users \ {u}
          PROVE  user'[v].failed <= wrong'[v] /\ (user'[v].locked => wrong'[v] >= LockAfter)
      BY <1>2, <1>5 DEF UsersInv, LockIsEarned
    <2>2. user'[u].failed <= wrong'[u]
      BY <1>2, <1>6, <1>c
    <2>3. user'[u].locked => wrong'[u] >= LockAfter
      <3>1. CASE b
        BY <3>1, <1>2, <1>c, <1>f
      <3>2. CASE ~b
        BY <3>2, <1>1, <1>2, <1>6 DEF UsersInv, LockIsEarned
      <3> QED BY <3>1, <3>2, <1>f
    <2> QED BY <2>1, <2>2, <2>3 DEF LockIsEarned
  <1> QED BY <1>2, <1>7, <1>8, LeaveKeeps DEF Bootstraps

\* A reset or an activation writes the password, unlocks or activates.
LEMMA LinkUsers ==
    ASSUME TypeOK, TypeOK', LinksInv, UsersInv, NEW r \in Requests,
           ResetCommit(r) \/ ActivateCommit(r)
    PROVE  UsersInv'
  <1> DEFINE c == req[r].copy
             u == req[r].user
             i == [c EXCEPT !.failed = 0, !.locked = FALSE]
             j == [c EXCEPT !.active = TRUE]
  <1>1. c \in User /\ u \in Users /\ user[u] \in User
    BY DEF TypeOK, Request, LinksInv, Formed, ResetCommit, ActivateCommit, Personal, Ops
  <1>2. /\ \/ user' = [Write(u, c, i) EXCEPT ![u].password = TRUE]
           \/ user' = [Write(u, c, j) EXCEPT ![u].password = TRUE]
        /\ Leave(r) /\ wrong' = wrong
    BY DEF ResetCommit, ActivateCommit
  <1>l. /\ link' = [link EXCEPT ![req[r].link].used = TRUE]
        /\ req[r].link \in Links /\ link[req[r].link].purpose # "bootstrap"
    BY DEF ResetCommit, ActivateCommit, LinksInv, Formed, LinkHeld, Presenting, Activating
  <1> HIDE DEF c, u
  <1>3. i \in User /\ j \in User
    BY <1>1 DEF User
  <1>4. /\ i.failed = 0 /\ i.locked = FALSE /\ i.exists = c.exists
        /\ i.active = c.active /\ i.admin = c.admin
        /\ j.failed = c.failed /\ j.locked = c.locked /\ j.exists = c.exists
        /\ j.active = TRUE /\ j.admin = c.admin
    BY <1>1 DEF User
  <1> HIDE DEF i, j
  <1>5. PICK n \in {i, j} : user' = [Write(u, c, n) EXCEPT ![u].password = TRUE]
    BY <1>2
  <1>6. /\ n \in User /\ (n.failed = 0 \/ n.failed = c.failed)
        /\ (n.locked = FALSE \/ n.locked = c.locked)
        /\ n.exists = c.exists /\ (n.active = TRUE \/ n.active = c.active)
        /\ n.admin = c.admin
    BY <1>3, <1>4, <1>5
  <1>7. /\ Write(u, c, n)[u] = Flushed(user[u], c, n)
        /\ \A v \in Users \ {u} : Write(u, c, n)[v] = user[v]
        /\ Write(u, c, n) \in [Users -> User]
    <2>1. n \in User
      BY <1>6
    <2>2. Write(u, c, n) \in [Users -> User]
      BY <1>1, <2>1, WriteType
    <2> QED BY <1>1, <2>1, <2>2, WriteRow
  <1> DEFINE w == Flushed(user[u], c, n)
  <1>8. /\ w \in User /\ (w.failed = 0 \/ w.failed = user[u].failed)
        /\ (w.locked => user[u].locked)
        /\ w.exists = user[u].exists /\ (w.active = TRUE \/ w.active = user[u].active)
        /\ w.admin = user[u].admin
    <2>1. /\ w \in User
          /\ w.exists = IF n.exists # c.exists THEN n.exists ELSE user[u].exists
          /\ w.active = IF n.active # c.active THEN n.active ELSE user[u].active
          /\ w.admin = IF n.admin # c.admin THEN n.admin ELSE user[u].admin
          /\ w.failed = IF n.failed # c.failed THEN n.failed ELSE user[u].failed
          /\ w.locked = IF n.locked # c.locked THEN n.locked ELSE user[u].locked
      BY <1>1, <1>6, FlushedUser
    <2> HIDE DEF w
    <2> QED BY <1>6, <2>1
  <1>9. /\ user'[u] = [w EXCEPT !.password = TRUE]
        /\ \A v \in Users \ {u} : user'[v] = user[v]
    BY <1>1, <1>5, <1>7
  <1> HIDE DEF w
  <1>10. /\ user'[u].failed = w.failed /\ user'[u].locked = w.locked
         /\ user'[u].exists = w.exists /\ user'[u].active = w.active
         /\ user'[u].admin = w.admin
    BY <1>8, <1>9 DEF User
  <1>11. Milder /\ ActiveAdmins \subseteq ActiveAdmins'
    BY <1>1, <1>8, <1>9, <1>10, RowStep DEF ActiveAdmins
  <1>12. \A l \in Bootstraps' : link'[l].used => l \in Bootstraps /\ link[l].used
    BY <1>l DEF Bootstraps, TypeOK, Link
  <1> QED BY <1>2, <1>11, <1>12, GentleStep

\* A new account: the first administrator, or one that cannot log in yet.
LEMMA InsertUsers ==
    ASSUME TypeOK, TypeOK', LinksInv, UsersInv, NEW r \in Requests,
           BootstrapCommit(r) \/ CreateCommit(r)
    PROVE  UsersInv'
  <1> DEFINE u == req[r].user
  <1>1. /\ u \in Users /\ ~user[u].exists
        /\ \A v \in Users \ {u} : user'[v] = user[v]
        /\ Leave(r) /\ wrong' = wrong
    BY DEF LinksInv, Formed, BootstrapCommit, CreateCommit, Personal, Ops, TypeOK
  <1>2. user'[u].failed = 0 /\ ~user'[u].locked
    <2>0. user \in [Users -> User]
      BY DEF TypeOK
    <2>1. CASE BootstrapCommit(r)
      <3>1. user'[u] = Account(AdminName)
        BY <1>1, <2>0, <2>1 DEF BootstrapCommit
      <3> QED BY <3>1 DEF Account
    <2>2. CASE CreateCommit(r)
      <3>1. user'[u] = [NoUser EXCEPT !.exists = TRUE, !.local = TRUE,
                                      !.admin = req[r].value, !.name = req[r].name]
        BY <1>1, <2>0, <2>2 DEF CreateCommit
      <3> QED BY <3>1 DEF NoUser
    <2> QED BY <2>1, <2>2
  <1>3. u \notin ActiveAdmins
    BY <1>1 DEF ActiveAdmins
  <1>4. Milder /\ ActiveAdmins \subseteq ActiveAdmins'
    BY <1>1, <1>2, <1>3, RowStep
  <1>5. CASE BootstrapCommit(r)
    <2>1. u \in ActiveAdmins'
      BY <1>1, <1>5 DEF BootstrapCommit, ActiveAdmins, TypeOK, Account
    <2> QED BY <1>1, <1>4, <2>1, GentleStep
  <1>6. CASE CreateCommit(r)
    <2>1. /\ link' = Replace({}, req[r].new, "user_setup", u)
          /\ req[r].new \in Links
      BY <1>6 DEF CreateCommit, LinksInv, Formed, Inserting
    <2>2. \A l \in Bootstraps' : link'[l].used => l \in Bootstraps /\ link[l].used
      BY <2>1 DEF Replace, Bootstraps, NoLink
    <2> QED BY <1>1, <1>4, <2>2, GentleStep
  <1> QED BY <1>5, <1>6

\* Two administrators are enough for one of them to remain.
LEMMA SecondAdministrator ==
    ASSUME NEW u, ~ (Cardinality(ActiveAdmins) <= 1)
    PROVE  Another(u)
  <1> SUFFICES ASSUME ~Another(u) PROVE FALSE
    OBVIOUS
  <1>1. ActiveAdmins \subseteq {u}
    BY DEF Another
  <1>2. IsFiniteSet({u}) /\ Cardinality({u}) = 1
    BY FS_Singleton
  <1>3. IsFiniteSet(ActiveAdmins) /\ Cardinality(ActiveAdmins) <= 1
    BY <1>1, <1>2, FS_Subset
  <1> QED BY <1>3

\* The count of administrators is right as long as nobody else changes one.
LEMMA CountUsers ==
    ASSUME TypeOK, TypeOK', LinksInv, UsersInv, NEW r \in Requests, Count(r)
    PROVE  UsersInv'
  <1>1. /\ req[r] \in Request /\ LastHeld(req[r])
        /\ \A q \in Requests \ {r} : req'[q] = req[q]
        /\ user' = user /\ link' = link /\ wrong' = wrong /\ overlapped' = overlapped
    BY DEF Count, TypeOK, UsersInv
  <1>2. LastHeld(req[r])' /\ Counted(req[r])'
    <2>1. CASE LastAdministrator(r)
      BY <2>1, EndedUser DEF Count, TypeOK
    <2>2. CASE ~LastAdministrator(r)
      <3>1. /\ req[r].op \in {"role", "active"}
            /\ req'[r].op \in {"role_counted", "active_counted"}
            /\ req'[r].value = req[r].value /\ req'[r].user = req[r].user
        BY <2>2 DEF Count, TypeOK, Request
      <3>2. "administer" \notin overlapped => req[r].value \/ Another(req[r].user)
        BY <2>2, <1>1, <3>1, SecondAdministrator DEF LastHeld, LastAdministrator
      <3>3. ActiveAdmins' = ActiveAdmins
        BY <1>1 DEF ActiveAdmins
      <3> QED BY <1>1, <3>1, <3>2, <3>3 DEF LastHeld, Counted, Another
    <2> QED BY <2>1, <2>2
  <1>3. ActiveAdmins' = ActiveAdmins /\ LockIsEarned' /\ Bootstraps' = Bootstraps
    BY <1>1 DEF ActiveAdmins, UsersInv, LockIsEarned, Bootstraps
  <1>4. \A v \in Users : wrong[v] <= wrong'[v]
    BY <1>1 DEF TypeOK
  <1> QED BY <1>1, <1>2, <1>3, <1>4, KeepStep

\* A change of role or activity takes at most the administrator it is about.
LEMMA ChangeUsers ==
    ASSUME TypeOK, TypeOK', LinksInv, UsersInv, NEW r \in Requests,
           RoleCommit(r) \/ ActiveCommit(r)
    PROVE  UsersInv'
  <1> DEFINE c == req[r].copy
             u == req[r].user
             v == req[r].value
             i == [c EXCEPT !.admin = v]
             j == [c EXCEPT !.active = v]
  <1>1. c \in User /\ u \in Users /\ user[u] \in User /\ v \in BOOLEAN
    BY DEF TypeOK, Request, LinksInv, Formed, RoleCommit, ActiveCommit, Personal, Ops
  <1>2. /\ user' = Write(u, c, i) \/ user' = Write(u, c, j)
        /\ Leave(r) /\ UNCHANGED <<link, wrong>>
    BY DEF RoleCommit, ActiveCommit
  <1>h. /\ req[r].op \in {"role_counted", "active_counted"}
        /\ "administer" \notin overlapped => v \/ Another(u)
    BY DEF RoleCommit, ActiveCommit, UsersInv, LastHeld
  <1> HIDE DEF c, u, v
  <1>3. i \in User /\ j \in User
    BY <1>1 DEF User
  <1>4. /\ i.failed = c.failed /\ i.locked = c.locked /\ i.exists = c.exists
        /\ i.active = c.active /\ i.admin = v
        /\ j.failed = c.failed /\ j.locked = c.locked /\ j.exists = c.exists
        /\ j.active = v /\ j.admin = c.admin
    BY <1>1 DEF User
  <1> HIDE DEF i, j
  <1>5. PICK n \in {i, j} : user' = Write(u, c, n)
    BY <1>2
  <1>6. /\ n \in User /\ n.failed = c.failed /\ n.locked = c.locked
        /\ n.exists = c.exists /\ (n.active = v \/ n.active = c.active)
        /\ (n.admin = v \/ n.admin = c.admin)
    BY <1>3, <1>4, <1>5
  <1>7. user'[u] = Flushed(user[u], c, n) /\ \A w \in Users \ {u} : user'[w] = user[w]
    BY <1>1, <1>5, <1>6, WriteRow
  <1>8. /\ user'[u].failed = user[u].failed /\ user'[u].locked = user[u].locked
        /\ user'[u].exists = user[u].exists
        /\ user'[u].active = v \/ user'[u].active = user[u].active
        /\ user'[u].admin = v \/ user'[u].admin = user[u].admin
    <2>1. /\ user'[u].exists = IF n.exists # c.exists THEN n.exists ELSE user[u].exists
          /\ user'[u].active = IF n.active # c.active THEN n.active ELSE user[u].active
          /\ user'[u].admin = IF n.admin # c.admin THEN n.admin ELSE user[u].admin
          /\ user'[u].failed = IF n.failed # c.failed THEN n.failed ELSE user[u].failed
          /\ user'[u].locked = IF n.locked # c.locked THEN n.locked ELSE user[u].locked
      BY <1>1, <1>6, <1>7, FlushedUser
    <2> QED BY <1>6, <2>1
  <1>9. LockIsEarned'
    BY <1>2, <1>7, <1>8 DEF UsersInv, LockIsEarned
  <1>10. CASE v
    <2>1. ActiveAdmins \subseteq ActiveAdmins'
      BY <1>7, <1>8, <1>10 DEF ActiveAdmins
    <2> QED BY <1>2, <1>9, <2>1, LeaveKeeps DEF Bootstraps
  <1>11. CASE ~v
    <2>1. /\ req'[r] = Finished /\ \A q \in Requests \ {r} : req'[q] = req[q]
          /\ overlapped' = overlapped /\ link' = link /\ wrong' = wrong
      BY <1>2 DEF Leave, TypeOK
    <2>2. \A a \in ActiveAdmins : a # u => a \in ActiveAdmins'
      BY <1>7 DEF ActiveAdmins
    <2>3. "administer" \notin overlapped => ActiveAdmins' # {}
      BY <1>h, <1>11, <2>2 DEF Another
    <2>4. AdministratorRemains'
      BY <2>1, <2>3 DEF AdministratorRemains
    <2>5. ASSUME NEW q \in Requests \ {r}, "administer" \notin overlapped
          PROVE  req[q].op \notin Administering
      <3>1. Apart(q, r)
        BY DEF LinksInv
      <3> QED BY <1>h, <2>5, <3>1 DEF Apart, Kind, Kinds, Administering
    <2>6. ASSUME NEW q \in Requests PROVE LastHeld(req[q])' /\ Counted(req[q])'
      <3>1. CASE q = r
        BY <2>1, <3>1, EndedUser
      <3>2. CASE q # r
        <4>1. LastHeld(req[q])'
          BY <2>1, <2>5, <3>2 DEF LastHeld, Administering
        <4>2. Counted(req[q])'
          BY <2>1, <3>2 DEF UsersInv, Counted
        <4> QED BY <4>1, <4>2
      <3> QED BY <3>1, <3>2
    <2> QED BY <1>9, <2>4, <2>6 DEF UsersInv
  <1> QED BY <1>1, <1>10, <1>11

\* Steps that write no row of a user.
LEMMA OtherUsers ==
    ASSUME TypeOK, TypeOK', LinksInv, UsersInv, NEW r \in Requests, Leave(r),
           UNCHANGED <<user, wrong>>,
           \A l \in Bootstraps' : link'[l].used => l \in Bootstraps /\ link[l].used
    PROVE  UsersInv'
  <1>1. Milder /\ ActiveAdmins' = ActiveAdmins
    BY DEF Milder, ActiveAdmins, TypeOK, User
  <1> QED BY <1>1, GentleStep

LEMMA EndUsers ==
    ASSUME TypeOK, TypeOK', LinksInv, UsersInv, NEW r \in Requests, End(r)
    PROVE  UsersInv'
  <1>1. CASE ResetIssue(r) \/ InviteCommit(r) \/ BootstrapReissue(r)
    <2>1. PICK ls, p : link' = Replace(ls, req[r].new, p, req[r].user)
      BY <1>1 DEF ResetIssue, InviteCommit, BootstrapReissue
    <2>2. \A l \in Bootstraps' : link'[l].used => l \in Bootstraps /\ link[l].used
      BY <2>1 DEF Replace, Bootstraps, NoLink, TypeOK, Link
    <2> QED BY <1>1, <2>2, OtherUsers DEF ResetIssue, InviteCommit, BootstrapReissue
  <1>2. CASE RollBack(r)
    BY <1>2, OtherUsers DEF RollBack, Bootstraps
  <1>3. CASE ChangeCommit(r)
    <2> DEFINE u == req[r].user
    <2>1. /\ u \in Users /\ user' = [user EXCEPT ![u].password = TRUE]
          /\ Leave(r) /\ UNCHANGED <<link, wrong>>
      BY <1>3 DEF ChangeCommit, LinksInv, Formed, Personal, Ops
    <2> HIDE DEF u
    <2>2. user \in [Users -> User]
      BY DEF TypeOK
    <2>3. /\ \A v \in Users \ {u} : user'[v] = user[v]
          /\ user'[u].failed = user[u].failed /\ user'[u].locked = user[u].locked
          /\ user'[u].exists = user[u].exists /\ user'[u].active = user[u].active
          /\ user'[u].admin = user[u].admin
      BY <2>1, <2>2 DEF User
    <2>4. Milder /\ ActiveAdmins \subseteq ActiveAdmins'
      BY <2>1, <2>3, RowStep DEF ActiveAdmins
    <2> QED BY <2>1, <2>4, GentleStep DEF Bootstraps
  <1>4. CASE ResetLock(r)
    <2>1. /\ UNCHANGED <<user, link, wrong, overlapped>> /\ req'[r].op = "reset"
          /\ \A q \in Requests \ {r} : req'[q] = req[q]
      BY <1>4 DEF ResetLock, TypeOK, Request
    <2>2. LastHeld(req[r])' /\ Counted(req[r])'
      BY <2>1 DEF LastHeld, Counted
    <2>3. ActiveAdmins' = ActiveAdmins /\ LockIsEarned' /\ Bootstraps' = Bootstraps
      BY <2>1 DEF ActiveAdmins, UsersInv, LockIsEarned, Bootstraps
    <2>4. \A v \in Users : wrong[v] <= wrong'[v]
      BY <2>1 DEF TypeOK
    <2> QED BY <2>1, <2>2, <2>3, <2>4, KeepStep
  <1> QED
    BY <1>1, <1>2, <1>3, <1>4, AcceptUsers, RejectUsers, LinkUsers, InsertUsers, CountUsers,
       ChangeUsers DEF End

LEMMA NextUsers == TypeOK /\ TypeOK' /\ LinksInv /\ UsersInv /\ [Next]_vars => UsersInv'
  <1> SUFFICES ASSUME TypeOK, TypeOK', LinksInv, UsersInv, [Next]_vars PROVE UsersInv'
    OBVIOUS
  <1>w. \A v \in Users : wrong[v] <= wrong[v]
    BY DEF TypeOK
  <1>1. ASSUME NEW r \in Requests, Begin(r) PROVE UsersInv'
    BY <1>1, BeginUsers
  <1>2. ASSUME NEW r \in Requests, End(r) PROVE UsersInv'
    BY <1>2, EndUsers
  <1>3. ASSUME NEW u \in Users, SignOn(u) PROVE UsersInv'
    <2> DEFINE row == IF user[u].exists THEN [user[u] EXCEPT !.local = FALSE]
                      ELSE [NoUser EXCEPT !.exists = TRUE, !.active = TRUE]
    <2>1. /\ user' = [user EXCEPT ![u] = row]
          /\ UNCHANGED <<link, req, wrong, overlapped>>
      BY <1>3 DEF SignOn
    <2>2. user[u] \in User /\ user \in [Users -> User]
      BY DEF TypeOK
    <2>3. /\ row.failed = 0 \/ row.failed = user[u].failed
          /\ row.locked => user[u].locked
          /\ user[u].exists => row.exists /\ row.active = user[u].active
                               /\ row.admin = user[u].admin
      BY <2>2 DEF User, NoUser
    <2> HIDE DEF row
    <2>4. user'[u] = row /\ \A v \in Users \ {u} : user'[v] = user[v]
      BY <2>1, <2>2
    <2>5. Milder /\ ActiveAdmins \subseteq ActiveAdmins'
      BY <2>3, <2>4, RowStep DEF ActiveAdmins
    <2>6. LockIsEarned'
      BY <2>1, <2>5, <1>w, MilderIsEarned
    <2> QED BY <2>1, <2>5, <2>6, <1>w, KeepStep DEF Bootstraps
  <1>4. ASSUME NEW l \in Links, Expire(l) PROVE UsersInv'
    <2>1. /\ UNCHANGED <<user, req, wrong, overlapped>>
          /\ link' = [link EXCEPT ![l].expired = TRUE]
      BY <1>4 DEF Expire
    <2>2. \A k \in Bootstraps' : link'[k].used => k \in Bootstraps /\ link[k].used
      BY <2>1 DEF Bootstraps, TypeOK, Link
    <2>3. ActiveAdmins' = ActiveAdmins /\ LockIsEarned'
      BY <2>1 DEF ActiveAdmins, UsersInv, LockIsEarned
    <2> QED BY <2>1, <2>2, <2>3, <1>w, KeepStep
  <1>5. CASE UNCHANGED vars
    <2>1. ActiveAdmins' = ActiveAdmins /\ LockIsEarned' /\ Bootstraps' = Bootstraps
      BY <1>5 DEF vars, ActiveAdmins, UsersInv, LockIsEarned, Bootstraps
    <2> QED BY <1>5, <2>1, <1>w, KeepStep DEF vars
  <1> QED BY <1>1, <1>2, <1>3, <1>4, <1>5 DEF Next

-----------------------------------------------------------------------------
(***************************************************************************)
(* The invariant.                                                          *)
(***************************************************************************)

LEMMA InitInv == Init => IInv
  <1> SUFFICES ASSUME Init PROVE IInv
    OBVIOUS
  <1> USE RecordTypes
  <1>1. /\ req = [r \in Requests |-> Idle] /\ spent = [l \in Links |-> {}]
        /\ wrong = [u \in Users |-> 0] /\ overlapped = {}
    BY DEF Init
  <1>2. PICK a \in Users : \A l \in Links :
          /\ l = 1 => link[l].purpose = "bootstrap" /\ link[l].user = a
          /\ l # 1 => link[l] = NoLink
    <2>1. CASE NewTenant
      <3>1. PICK a \in Users :
              link = [l \in Links |->
                        IF l = 1 THEN [NoLink EXCEPT !.purpose = "bootstrap", !.user = a]
                        ELSE NoLink]
        BY <2>1 DEF NewTenant
      <3> QED BY <3>1 DEF NoLink
    <2>2. CASE RunningTenant
      BY <2>2 DEF RunningTenant
    <2> QED BY <2>1, <2>2 DEF Init
  <1>3. user \in [Users -> User] /\ link \in [Links -> Link]
    <2>1. CASE NewTenant
      <3>1. PICK b \in Users :
              link = [l \in Links |->
                        IF l = 1 THEN [NoLink EXCEPT !.purpose = "bootstrap", !.user = b]
                        ELSE NoLink]
        BY <2>1 DEF NewTenant
      <3>2. [NoLink EXCEPT !.purpose = "bootstrap", !.user = b] \in Link
        BY DEF Link, NoLink, Invitations
      <3> QED BY <2>1, <3>1, <3>2 DEF NewTenant
    <2>2. CASE RunningTenant
      BY <2>2 DEF RunningTenant, Link, NoLink, Invitations
    <2> QED BY <2>1, <2>2 DEF Init
  <1>4. TypeOK
    BY <1>1, <1>3 DEF TypeOK
  <1>5. \A u \in Users : user[u].failed = 0 /\ ~user[u].locked
    <2>1. CASE NewTenant
      BY <2>1 DEF NewTenant, NoUser
    <2>2. CASE RunningTenant
      BY <2>2 DEF RunningTenant, NoUser, Account
    <2> QED BY <2>1, <2>2 DEF Init
  <1>6. \A u \in Users : LiveResets(u) = {} /\ LiveInvites(u) = {}
    BY <1>2 DEF LiveResets, LiveInvites, UnusedInvites, NoLink
  <1>7. \A l \in Bootstraps : l = 1
    BY <1>2 DEF Bootstraps, NoLink
  <1>8. NewestInv
    BY <1>6, <1>7 DEF NewestInv, LiveBootstraps
  <1>9. TableInv
    BY <1>1, <1>2 DEF TableInv, NoLink
  <1>10. \A r \in Requests : Formed(req[r]) /\ LinkHeld(req[r]) /\ SeenAll(req[r])
    BY <1>1 DEF Formed, LinkHeld, SeenAll, Personal, Presenting, Inserting, Reissuing,
                Activating
  <1>11. \A r, q \in Requests : r # q => Apart(r, q)
    BY <1>1 DEF Apart, Kind, Kinds
  <1>12. AdministratorRemains
    <2>1. CASE NewTenant
      BY <2>1 DEF AdministratorRemains, NewTenant, Bootstraps, NoLink
    <2>2. CASE RunningTenant
      BY <2>2 DEF AdministratorRemains, RunningTenant, ActiveAdmins, Account
    <2> QED BY <2>1, <2>2 DEF Init
  <1>13. LockIsEarned
    BY <1>1, <1>5 DEF LockIsEarned
  <1>14. \A r \in Requests : LastHeld(req[r]) /\ Counted(req[r])
    BY <1>1 DEF LastHeld, Counted
  <1> QED BY <1>4, <1>8, <1>9, <1>10, <1>11, <1>12, <1>13, <1>14
          DEF IInv, LinksInv, UsersInv

\* The invariant that the theorems rest on.
THEOREM Inductive == Spec => []IInv
  <1>1. IInv /\ [Next]_vars => IInv'
    BY NextType, NextLinks, NextUsers DEF IInv
  <1> QED BY InitInv, <1>1, PTL DEF Spec

\* The tables, the requests and the auxiliary variables are well typed.
THEOREM TypeCorrect == Spec => []TypeOK
  <1>1. IInv => TypeOK
    BY DEF IInv
  <1> QED BY <1>1, Inductive, PTL

\* One member at most, told by its members.
LEMMA AtMostOne ==
    ASSUME NEW S, \A a, b \in S : a = b
    PROVE  Cardinality(S) <= 1
  <1>1. CASE S = {}
    BY <1>1, FS_EmptySet
  <1>2. CASE S # {}
    <2>1. PICK x \in S : TRUE
      BY <1>2
    <2>2. S = {x}
      BY <2>1
    <2>3. Cardinality({x}) = 1
      BY FS_Singleton
    <2> QED BY <2>2, <2>3
  <1> QED BY <1>1, <1>2

\* An invitation sets one password as long as no two activations overlap.
THEOREM InvitationsSetOnePassword == Spec => []InvitationsSpentOnce
  <1>1. IInv => InvitationsSpentOnce
    BY AtMostOne DEF IInv, LinksInv, TableInv, InvitationsSpentOnce
  <1> QED BY <1>1, Inductive, PTL

\* A request for a link leaves one live link of its kind, unless two overlapped.
THEOREM OneLiveLink == Spec => []NewestLinkOnly
  <1>1. IInv => NewestLinkOnly
    <2> SUFFICES ASSUME IInv PROVE NewestLinkOnly
      OBVIOUS
    <2>1. NewestInv
      BY DEF IInv, LinksInv
    <2>2. ASSUME "issue" \notin overlapped, NEW u \in Users
          PROVE  Cardinality(LiveResets(u)) <= 1
      BY <2>1, <2>2, AtMostOne DEF NewestInv
    <2>3. ASSUME "invite" \notin overlapped, NEW u \in Users
          PROVE  Cardinality(LiveInvites(u)) <= 1
      BY <2>1, <2>3, AtMostOne DEF NewestInv
    <2>4. ASSUME "invite" \notin overlapped PROVE Cardinality(LiveBootstraps) <= 1
      <3>1. ASSUME NEW j \in LiveBootstraps, NEW k \in LiveBootstraps PROVE j = k
        <4>1. j <= k /\ k <= j
          BY <2>1, <2>4 DEF NewestInv, LiveBootstraps
        <4>2. j \in Nat /\ k \in Nat
          BY LinkNumbers DEF LiveBootstraps, Bootstraps
        <4> QED BY <4>1, <4>2
      <3> QED BY <3>1, AtMostOne
    <2> QED BY <2>2, <2>3, <2>4 DEF NewestLinkOnly, LiveInvites, LiveBootstraps
  <1> QED BY <1>1, Inductive, PTL

\* Once the bootstrap invitation has been used, an active administrator
\* remains, unless two changes of role or activity overlapped.
THEOREM AnAdministratorRemains == Spec => []AdministratorRemains
  <1>1. IInv => AdministratorRemains
    BY DEF IInv, UsersInv
  <1> QED BY <1>1, Inductive, PTL

\* Nobody is locked out before LockAfter rejected logins.
THEOREM LocksAreEarned == Spec => []LockIsEarned
  <1>1. IInv => LockIsEarned
    BY DEF IInv, UsersInv
  <1> QED BY <1>1, Inductive, PTL

-----------------------------------------------------------------------------
(***************************************************************************)
(* Reset tokens implement the one-time credential.                         *)
(***************************************************************************)

\* What a step may do to the reset token l without spending it.
Administered(l) ==
    /\ link[l].purpose = "reset" =>
         /\ link'[l].purpose = "reset" /\ link'[l].used = link[l].used
         /\ link[l].expired => link'[l].expired
         /\ spent'[l] = spent[l]
    /\ link[l].purpose # "reset" /\ link'[l].purpose = "reset" =>
         ~link'[l].used /\ ~link'[l].expired /\ spent'[l] = {}
    /\ Presented(l)' => Presented(l) \/ ~link[l].expired

LEMMA AdministeredStep ==
    ASSUME \A l \in Links : Administered(l)
    PROVE  ResetToken!Next
  <1>1. ResetState' \in [Links -> ResetToken!States]
    BY DEF ResetState, ResetToken!States
  <1>2. ASSUME NEW l \in Links
        PROVE  \/ ResetState'[l] = ResetState[l]
               \/ ResetState[l] = "unissued" /\ ResetState'[l] = "valid"
               \/ ResetState[l] = "valid" /\ ResetState'[l] = "withdrawn"
    BY DEF Administered, ResetState
  <1>3. ResetSpentOn' = ResetSpentOn
    BY DEF Administered, ResetSpentOn
  <1> QED BY <1>1, <1>2, <1>3 DEF ResetToken!Next, ResetToken!Administer

\* A reset spends its token on the password it sets.
LEMMA ResetSpends ==
    ASSUME IInv, NEW r \in Requests, ResetCommit(r)
    PROVE  ResetToken!Next
  <1> DEFINE l == req[r].link
  <1>1. /\ l \in Links /\ link[l].purpose = "reset" /\ ~link[l].used /\ spent[l] = {}
        /\ req[r].op = "reset"
    BY DEF IInv, LinksInv, TableInv, Formed, LinkHeld, Presenting, ResetCommit
  <1>2. /\ link' = [link EXCEPT ![l].used = TRUE]
        /\ spent' = [spent EXCEPT ![l] = @ \cup {r}]
        /\ req' = [req EXCEPT ![r] = Finished]
    BY DEF ResetCommit, Leave
  <1>p. Presented(l)
    BY <1>1 DEF Presented
  <1> HIDE DEF l
  <1>t. link \in [Links -> Link] /\ spent \in [Links -> SUBSET Requests]
        /\ req \in [Requests -> Request]
    BY DEF IInv, TypeOK
  <1>3. /\ link'[l].purpose = "reset" /\ link'[l].used /\ spent'[l] = {r}
        /\ \A k \in Links \ {l} : link'[k] = link[k] /\ spent'[k] = spent[k]
    BY <1>1, <1>2, <1>t DEF Link
  <1>4. ASSUME NEW k \in Links \ {l} PROVE Presented(k)' <=> Presented(k)
    <2>1. req'[r].op = "done" /\ \A q \in Requests \ {r} : req'[q] = req[q]
      BY <1>2, <1>t, RecordTypes
    <2>2. req[r].link = l
      BY DEF l
    <2> QED BY <2>1, <2>2 DEF Presented
  <1>5. ResetState[l] = "valid"
    BY <1>1, <1>p DEF ResetState
  <1>6. ResetState' = [ResetState EXCEPT ![l] = "spent"]
    <2>1. \A k \in Links : ResetState'[k] = IF k = l THEN "spent" ELSE ResetState[k]
      BY <1>3, <1>4 DEF ResetState
    <2>2. /\ ResetState = [k \in Links |-> ResetState[k]]
          /\ ResetState' = [k \in Links |-> ResetState'[k]]
      BY DEF ResetState
    <2> QED BY <1>1, <2>1, <2>2
  <1>7. ResetSpentOn' = [ResetSpentOn EXCEPT ![l] = {r}]
    <2>1. \A k \in Links : ResetSpentOn'[k] = IF k = l THEN {r} ELSE ResetSpentOn[k]
      BY <1>3 DEF ResetSpentOn
    <2>2. /\ ResetSpentOn = [k \in Links |-> ResetSpentOn[k]]
          /\ ResetSpentOn' = [k \in Links |-> ResetSpentOn'[k]]
      BY DEF ResetSpentOn
    <2> QED BY <1>1, <2>1, <2>2
  <1>8. ResetToken!Spend(l, r)
    BY <1>5, <1>6, <1>7 DEF ResetToken!Spend
  <1> QED BY <1>1, <1>8 DEF ResetToken!Next

\* A step that leaves the links alone and begins at most to present a live one.
LEMMA PresentStep ==
    ASSUME UNCHANGED <<link, spent>>,
           \A q \in Requests :
              \/ req'[q].op \notin {"present", "reset"}
              \/ req[q].op \in {"present", "reset"} /\ req'[q].link = req[q].link
              \/ ~link[req'[q].link].expired
    PROVE  \A l \in Links : Administered(l)
  <1>1. ASSUME NEW l \in Links, Presented(l)' PROVE Presented(l) \/ ~link[l].expired
    BY <1>1 DEF Presented
  <1>2. ASSUME NEW l \in Links PROVE Administered(l)
    BY <1>1 DEF Administered
  <1> QED BY <1>2

\* A request that ends presents nothing any more.
LEMMA LeaveStep ==
    ASSUME TypeOK, NEW r \in Requests, Leave(r), NEW l \in Links
    PROVE  Presented(l)' => Presented(l)
  <1>1. req'[r].op = "done" /\ \A q \in Requests \ {r} : req'[q] = req[q]
    BY RecordTypes DEF Leave, TypeOK
  <1> QED BY <1>1 DEF Presented

LEMMA BeginPresents ==
    ASSUME TypeOK, NEW r \in Requests, Begin(r)
    PROVE  \A l \in Links : Administered(l)
  <1>0. UNCHANGED <<link, spent>>
    BY DEF Begin, AuthEndpoints, UserEndpoints, PlatformEndpoints, LoginRead, ResetRequest,
           ChangeRead, ResetPresent, ActivateRead, BootstrapRead, InviteRead, CreateRead,
           RoleRead, ActiveRead, RegenerateRead, RecipientRead
  <1>1. ASSUME NEW m, Enter(r, m),
               m.op \notin {"present", "reset"} \/ ~link[m.link].expired
        PROVE  \A l \in Links : Administered(l)
    <2>1. req'[r] = m /\ \A q \in Requests \ {r} : req'[q] = req[q]
      BY <1>1 DEF Enter, TypeOK
    <2> QED BY <1>0, <1>1, <2>1, PresentStep
  <1>2. ASSUME NEW u \in Users, NEW verifies \in BOOLEAN, LoginRead(r, u, verifies)
        PROVE  \A l \in Links : Administered(l)
    <2>1. Finished.op = "done"
      BY RecordTypes
    <2>2. \/ Enter(r, [Idle EXCEPT !.op = "accepted", !.user = u, !.copy = user[u]])
          \/ Enter(r, [Idle EXCEPT !.op = "rejected", !.user = u, !.copy = user[u]])
          \/ Enter(r, Finished)
      BY <1>2 DEF LoginRead
    <2> QED BY <1>1, <2>1, <2>2 DEF Idle
  <1>3. ASSUME NEW u \in Users, NEW p \in BOOLEAN, ResetRequest(r, u, p)
        PROVE  \A l \in Links : Administered(l)
    BY <1>1, <1>3 DEF ResetRequest, Idle
  <1>4. ASSUME NEW u \in Users, ChangeRead(r, u) \/ RecipientRead(r, u)
        PROVE  \A l \in Links : Administered(l)
    BY <1>1, <1>4 DEF ChangeRead, RecipientRead, Idle
  <1>5. ASSUME NEW k \in Links, ResetPresent(r, k)
        PROVE  \A l \in Links : Administered(l)
    BY <1>1, <1>5 DEF ResetPresent, Idle, Live
  <1>6. ASSUME NEW k \in Links, ActivateRead(r, k) \/ BootstrapRead(r, k)
        PROVE  \A l \in Links : Administered(l)
    BY <1>1, <1>6 DEF ActivateRead, BootstrapRead, Idle
  <1>7. ASSUME NEW a \in Users, NEW u \in Users, InviteRead(r, a, u)
        PROVE  \A l \in Links : Administered(l)
    BY <1>1, <1>7 DEF InviteRead, Idle
  <1>8. ASSUME NEW a \in Users, NEW u \in Users, NEW n \in Names, NEW admin \in BOOLEAN,
               CreateRead(r, a, u, n, admin)
        PROVE  \A l \in Links : Administered(l)
    BY <1>1, <1>8 DEF CreateRead, Idle
  <1>9. ASSUME NEW a \in Users, NEW u \in Users, NEW value \in BOOLEAN,
               RoleRead(r, a, u, value) \/ ActiveRead(r, a, u, value)
        PROVE  \A l \in Links : Administered(l)
    BY <1>1, <1>9 DEF RoleRead, ActiveRead, Idle
  <1>10. ASSUME RegenerateRead(r) PROVE \A l \in Links : Administered(l)
    BY <1>1, <1>10 DEF RegenerateRead, Idle
  <1> QED
    BY <1>2, <1>3, <1>4, <1>5, <1>6, <1>7, <1>8, <1>9, <1>10
    DEF Begin, AuthEndpoints, UserEndpoints, PlatformEndpoints

LEMMA EndAdministers ==
    ASSUME IInv, NEW r \in Requests, End(r), ~ResetCommit(r)
    PROVE  \A l \in Links : Administered(l)
  <1>0. TypeOK /\ LinksInv
    BY DEF IInv
  <1>1. CASE \/ LoginAccept(r) \/ LoginReject(r) \/ ChangeCommit(r) \/ RoleCommit(r)
             \/ ActiveCommit(r) \/ RollBack(r)
    <2>1. Leave(r) /\ UNCHANGED <<link, spent>>
      BY <1>1 DEF LoginAccept, LoginReject, ChangeCommit, RoleCommit, ActiveCommit, RollBack
    <2> QED BY <2>1, <1>0, LeaveStep DEF Administered
  <1>2. CASE ActivateCommit(r) \/ BootstrapCommit(r)
    <2>1. /\ link' = [link EXCEPT ![req[r].link].used = TRUE]
          /\ spent' = [spent EXCEPT ![req[r].link] = @ \cup {r}]
          /\ Leave(r) /\ req[r].link \in Links /\ link[req[r].link].purpose # "reset"
      BY <1>0, <1>2 DEF ActivateCommit, BootstrapCommit, LinksInv, Formed, LinkHeld, Presenting,
                        Activating
    <2>2. \A l \in Links : Presented(l)' => Presented(l)
      BY <1>0, <2>1, LeaveStep
    <2>3. /\ link'[req[r].link].purpose = link[req[r].link].purpose
          /\ \A l \in Links \ {req[r].link} : link'[l] = link[l] /\ spent'[l] = spent[l]
      BY <1>0, <2>1 DEF TypeOK, Link
    <2> QED BY <2>1, <2>2, <2>3 DEF Administered
  <1>3. CASE ResetIssue(r) \/ InviteCommit(r) \/ BootstrapReissue(r) \/ CreateCommit(r)
    <2>1. PICK ls, p : link' = Replace(ls, req[r].new, p, req[r].user)
      BY <1>3 DEF ResetIssue, InviteCommit, BootstrapReissue, CreateCommit
    <2>2. /\ req[r].new \in Links /\ link[req[r].new].purpose = "none"
          /\ Leave(r) /\ spent' = spent
      BY <1>0, <1>3 DEF ResetIssue, InviteCommit, BootstrapReissue, CreateCommit, LinksInv,
                        Formed, Inserting, Reissuing
    <2>3. spent[req[r].new] = {}
      BY <1>0, <2>2 DEF LinksInv, TableInv
    <2>4. \A l \in Links : Presented(l)' => Presented(l)
      BY <1>0, <2>2, LeaveStep
    <2>5. /\ ~link'[req[r].new].used /\ ~link'[req[r].new].expired
          /\ \A l \in Links \ {req[r].new} :
               /\ link'[l].purpose = link[l].purpose /\ link'[l].used = link[l].used
               /\ link[l].expired => link'[l].expired
      <3> DEFINE n == req[r].new
                 u == req[r].user
      <3>1. n \in Links /\ \A l \in Links : link[l] \in Link
        BY <1>0, <2>2 DEF TypeOK
      <3>2. link'[n] = [purpose |-> p, user |-> u, used |-> FALSE, expired |-> FALSE]
        BY <2>1, <3>1 DEF Replace, NoLink
      <3>3. \A l \in Links \ {n} :
              link'[l] = IF l \in ls THEN [link[l] EXCEPT !.expired = TRUE] ELSE link[l]
        BY <2>1 DEF Replace
      <3> HIDE DEF n
      <3>4. ASSUME NEW l \in Links \ {n}
            PROVE  /\ link'[l].purpose = link[l].purpose /\ link'[l].used = link[l].used
                   /\ link[l].expired => link'[l].expired
        BY <3>1, <3>3 DEF Link
      <3> USE DEF n
      <3> QED BY <3>2, <3>4
    <2> QED BY <2>2, <2>3, <2>4, <2>5 DEF Administered
  <1>4. CASE ResetLock(r)
    <2>1. /\ UNCHANGED <<link, spent>> /\ req[r].op = "present"
          /\ req'[r].link = req[r].link /\ \A q \in Requests \ {r} : req'[q] = req[q]
      BY <1>0, <1>4 DEF ResetLock, TypeOK, Request
    <2> QED BY <2>1, PresentStep
  <1>5. CASE Count(r)
    <2>1. /\ UNCHANGED <<link, spent>> /\ req'[r].op \notin {"present", "reset"}
          /\ \A q \in Requests \ {r} : req'[q] = req[q]
      BY <1>0, <1>5, RecordTypes DEF Count, TypeOK, Request
    <2> QED BY <2>1, PresentStep
  <1> QED BY <1>1, <1>2, <1>3, <1>4, <1>5 DEF End

LEMMA RefinesStep == IInv /\ [Next]_vars => [ResetToken!Next]_(ResetToken!vars)
  <1> SUFFICES ASSUME IInv, [Next]_vars
               PROVE  ResetToken!Next \/ UNCHANGED ResetToken!vars
    OBVIOUS
  <1>0. TypeOK
    BY DEF IInv
  <1>1. ASSUME NEW r \in Requests, Begin(r) PROVE ResetToken!Next
    BY <1>0, <1>1, BeginPresents, AdministeredStep
  <1>2. ASSUME NEW r \in Requests, End(r) PROVE ResetToken!Next
    BY <1>2, ResetSpends, EndAdministers, AdministeredStep
  <1>3. ASSUME NEW l \in Links, Expire(l) PROVE ResetToken!Next
    <2>1. /\ link' = [link EXCEPT ![l].expired = TRUE] /\ req' = req /\ spent' = spent
      BY <1>3 DEF Expire
    <2>2. \A k \in Links : /\ link'[k].purpose = link[k].purpose
                           /\ link'[k].used = link[k].used
                           /\ link[k].expired => link'[k].expired
                           /\ Presented(k)' <=> Presented(k)
      BY <1>0, <2>1 DEF TypeOK, Link, Presented
    <2>3. \A k \in Links : Administered(k)
      BY <2>1, <2>2 DEF Administered
    <2> QED BY <2>3, AdministeredStep
  <1>4. CASE UNCHANGED <<link, req, spent>>
    BY <1>4 DEF ResetToken!vars, ResetState, ResetSpentOn, Presented
  <1> QED BY <1>1, <1>2, <1>3, <1>4 DEF Next, SignOn, vars

LEMMA RefinesInit == Init => ResetToken!Init
  <1> SUFFICES ASSUME Init PROVE ResetToken!Init
    OBVIOUS
  <1>1. \A l \in Links : link[l].purpose # "reset" /\ spent[l] = {}
    <2>1. CASE NewTenant
      <3>1. PICK a \in Users :
              link = [l \in Links |->
                        IF l = 1 THEN [NoLink EXCEPT !.purpose = "bootstrap", !.user = a]
                        ELSE NoLink]
        BY <2>1 DEF NewTenant
      <3> QED BY <3>1 DEF NoLink, Init
    <2>2. CASE RunningTenant
      BY <2>2 DEF RunningTenant, NoLink, Init
    <2> QED BY <2>1, <2>2 DEF Init
  <1> QED BY <1>1 DEF ResetToken!Init, ResetState, ResetSpentOn

\* A reset token sets one password, and none if a newer request withdrew it
\* before it was presented, however requests overlap.
THEOREM ResetTokensSetOnePassword == Spec => ResetTokensAreOneTime
  <1> QED BY RefinesInit, RefinesStep, Inductive, PTL
          DEF Spec, ResetTokensAreOneTime, ResetToken!Spec

=============================================================================

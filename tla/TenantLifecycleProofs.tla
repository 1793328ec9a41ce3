----------------------- MODULE TenantLifecycleProofs ------------------------
(***************************************************************************)
(* What holds of the platform's administrators, its tenants and the        *)
(* registry, for any number of accounts, requests, slugs and restarts.     *)
(*                                                                         *)
(* The invariant says what a request knows between its reads and its       *)
(* commit, as long as no conflict of its kind has been recorded.  LinksInv *)
(* says it of the link that is presented and of those to be replaced,      *)
(* AccountsInv of who remains an administrator and of the failures that    *)
(* are counted or cleared, RegistryInv of the row and the registry while a *)
(* call is alone on its slug, NamesInv of the names under which the two    *)
(* dictionaries of the registry hold a definition.  A step of TenantLifecycle leaves the        *)
(* administrators alone, except that Stop ends their requests (Abandon),   *)
(* so that each half is proved on its own.                                 *)
(***************************************************************************)
EXTENDS TenantLifecycle, FiniteSetTheorems, TLAPS

Inserting == {"create", "reissue"}
Updating == {"update", "update_checked"}
Deactivating == {"active", "active_checked"}
Uncommitted == {"create", "update", "status", "delete"}

LiveResets(u) == {i \in UnusedResets(u) : Live(i)}

\* What a request is about.
Formed(m) ==
    /\ m.op \notin {"idle", "done"} => m.user \in Accounts
    /\ m.op = "consume" => m.invite \in Invites /\ invite[m.invite].purpose # "none"
    /\ m.op \in Inserting => m.new \in Invites /\ invite[m.new].purpose = "none"
    /\ m.op \notin Inserting => m.new = None

\* A link presented is unused, and one that replaces others has seen them, as
\* long as the request is alone with its kind.
LinkHeld(m) ==
    /\ m.op = "consume" /\ "consume" \notin raced => ~invite[m.invite].used
    /\ m.op = "reissue" /\ "reissue" \notin raced => LiveResets(m.user) \subseteq m.seen

\* Two requests, of which no conflict was recorded, do not conflict.
Apart(r, q) ==
    /\ \A k \in DOMAIN Conflicts \ raced : ~Conflict(k, req[r].op, req[q].op)
    /\ req[r].new # None => req[r].new # req[q].new

TableInv ==
    \A i \in Invites :
        /\ invite[i].purpose # "none" => invite[i].user \in Accounts
        /\ invite[i].used => invite[i].purpose # "none"
        /\ spent[i] # {} => invite[i].used
        /\ "consume" \notin raced => \A a, b \in spent[i] : a = b

NewestInv ==
    "reissue" \notin raced => \A u \in Accounts : \A k, l \in LiveResets(u) : k = l

LinksInv ==
    /\ \A r \in Requests : Formed(req[r]) /\ LinkHeld(req[r])
    /\ \A r, q \in Requests : r # q => Apart(r, q)
    /\ TableInv
    /\ NewestInv

\* An administrator other than the one a change is about.
Another(u) == \E a \in ActiveAdmins : a # u

\* Who remains when the change of one administrator is committed.
LastHeld(m) ==
    "administer" \notin raced =>
        /\ m.op \in Administering => m.actor \in ActiveAdmins
        /\ m.op \in Updating /\ m.user = m.actor => m.copy.admin
        /\ m.op \in Deactivating /\ m.user = m.actor => m.value
        /\ m.op = "update_checked" => m.value \/ Another(m.user)

\* A rejected login is one of those counted in wrong; one that is restored
\* has nothing on record that its copy has not.
Counted(m) ==
    "restore" \notin raced =>
        /\ m.op \in SigningIn => ~m.copy.locked
        /\ m.op = "rejected" => m.copy.failed + 1 <= wrong[m.user]
        /\ m.op \in Restoring =>
             /\ m.copy.failed = 0 => account[m.user].failed = 0
             /\ m.copy.locked = FALSE => ~account[m.user].locked

AccountsInv ==
    /\ \A r \in Requests : LastHeld(req[r]) /\ Counted(req[r])
    /\ PlatformAdministratorRemains
    /\ CleanSlate

\* By its slug, s resolves as the table has it.
Agree(s) == ResolveFromSlug(s) = Expected(s)

\* What a call knows of a slug that it alone is about.
CallHeld(m) ==
    m.slug \notin disturbed =>
        /\ m.op \in {"update", "status", "delete", "publish", "refresh"} => m.copy = tenant[m.slug]
        /\ m.op = "delete" => ~m.copy.active
        /\ m.op = "withdraw" => tenant[m.slug] = NoTenant
        /\ m.op \in Uncommitted /\ NoNamesakes(m.slug) => Agree(m.slug)

\* What has been loaded of s while the process starts.
Loaded(s) == IF s \in toLoad THEN NoDefinition ELSE Expected(s)

RegistryInv ==
    /\ \A r \in Requests :
         /\ InFlight(r) => process = "up" /\ call[r].slug \in Slugs /\ CallHeld(call[r])
         /\ ~InFlight(r) => call[r].slug = None
    /\ \A r, q \in Requests :
         r # q /\ InFlight(r) /\ InFlight(q) /\ call[r].slug = call[q].slug =>
             call[r].slug \in disturbed
    /\ \A s \in Slugs \ disturbed :
         process = "up" /\ NoNamesakes(s)
             /\ (\A r \in Requests : InFlight(r) => call[r].slug # s) => Agree(s)
    /\ process = "down" => bySlug = EmptyRegistry /\ byHost = EmptyRegistry
    /\ process = "loading" =>
         /\ \A s \in toLoad : tenant[s].active
         /\ \A s \in Slugs : NoNamesakes(s) => bySlug[Lower[s]] = Loaded(s)

\* A tenant, or a copy of it, under a slug and a host that the process has known.
Recorded(s, t) == t.id # 0 /\ <<s, t.host>> \in names

CallRecorded(m) ==
    IF m.op = "create" THEN m.copy.host \in Hosts ELSE Recorded(m.slug, m.copy)

\* A definition is found by its own names only.
Owned ==
    \A k \in Keys :
        /\ bySlug[k] # NoDefinition =>
             <<bySlug[k].slug, bySlug[k].row.host>> \in names /\ Lower[bySlug[k].slug] = k
        /\ byHost[k] # NoDefinition =>
             <<byHost[k].slug, byHost[k].row.host>> \in names /\ Lower[byHost[k].row.host] = k

\* What the slug of s names is what its host names, and no other host names s.
Paired(s) ==
    LET d == bySlug[Lower[s]]
    IN  /\ d # NoDefinition => byHost[Lower[d.row.host]] = d
        /\ \A k \in Keys : byHost[k].slug = s => byHost[k] = d

NamesInv ==
    /\ Owned
    /\ \A s \in Slugs : tenant[s] # NoTenant => Recorded(s, tenant[s])
    /\ \A r \in Requests : InFlight(r) => CallRecorded(call[r])
    /\ \A s \in Slugs : NoNamesakes(s) => Paired(s)

IInv == TypeOK /\ LinksInv /\ AccountsInv /\ RegistryInv /\ NamesInv

USE PlatformAssumption, LifecycleAssumption

-----------------------------------------------------------------------------
(***************************************************************************)
(* Records and conflicts.                                                  *)
(***************************************************************************)

\* A session writes the columns it changed and leaves the others alone.
LEMMA FlushedAccount ==
    ASSUME NEW row \in Account, NEW copy \in Account, NEW new \in Account
    PROVE  /\ Flushed(row, copy, new) \in Account
           /\ Flushed(row, copy, new).exists =
                IF new.exists # copy.exists THEN new.exists ELSE row.exists
           /\ Flushed(row, copy, new).active =
                IF new.active # copy.active THEN new.active ELSE row.active
           /\ Flushed(row, copy, new).admin =
                IF new.admin # copy.admin THEN new.admin ELSE row.admin
           /\ Flushed(row, copy, new).failed =
                IF new.failed # copy.failed THEN new.failed ELSE row.failed
           /\ Flushed(row, copy, new).locked =
                IF new.locked # copy.locked THEN new.locked ELSE row.locked
  <1>1. DOMAIN row = {"exists", "active", "admin", "password", "failed", "locked"}
    BY DEF Account
  <1>2. Flushed(row, copy, new) =
          [exists |-> IF new.exists # copy.exists THEN new.exists ELSE row.exists,
           active |-> IF new.active # copy.active THEN new.active ELSE row.active,
           admin |-> IF new.admin # copy.admin THEN new.admin ELSE row.admin,
           password |-> IF new.password # copy.password THEN new.password ELSE row.password,
           failed |-> IF new.failed # copy.failed THEN new.failed ELSE row.failed,
           locked |-> IF new.locked # copy.locked THEN new.locked ELSE row.locked]
    <2>1. Flushed(row, copy, new) =
            [f \in {"exists", "active", "admin", "password", "failed", "locked"} |->
               IF new[f] # copy[f] THEN new[f] ELSE row[f]]
      BY <1>1 DEF Flushed
    <2> QED BY <2>1
  <1> QED BY <1>2 DEF Account

LEMMA FlushedTenant ==
    ASSUME NEW row \in Tenant, NEW copy \in Tenant, NEW new \in Tenant
    PROVE  /\ Flushed(row, copy, new) \in Tenant
           /\ new.id = copy.id => Flushed(row, copy, new).id = row.id
           /\ new.host = copy.host => Flushed(row, copy, new).host = row.host
           /\ row = copy => Flushed(row, copy, new) = new
  <1>1. DOMAIN row = {"id", "active", "renamed", "host"}
    BY DEF Tenant
  <1>2. Flushed(row, copy, new) =
          [id |-> IF new.id # copy.id THEN new.id ELSE row.id,
           active |-> IF new.active # copy.active THEN new.active ELSE row.active,
           renamed |-> IF new.renamed # copy.renamed THEN new.renamed ELSE row.renamed,
           host |-> IF new.host # copy.host THEN new.host ELSE row.host]
    <2>1. Flushed(row, copy, new) = [f \in {"id", "active", "renamed", "host"} |->
                                       IF new[f] # copy[f] THEN new[f] ELSE row[f]]
      BY <1>1 DEF Flushed
    <2> QED BY <2>1
  <1> QED BY <1>2 DEF Tenant

\* Which operations conflict.
LEMMA ConflictSets ==
    /\ DOMAIN Conflicts = {"administer", "reissue", "consume", "restore"}
    /\ \A a, b :
         /\ Conflict("administer", a, b) <=> a \in Administering /\ b \in Administering
         /\ Conflict("reissue", a, b) <=> a = "reissue" /\ b = "reissue"
         /\ Conflict("consume", a, b) <=> a = "consume" /\ b = "consume"
         /\ Conflict("restore", a, b) <=> \/ a \in SigningIn /\ b \in Restoring
                                          \/ b \in SigningIn /\ a \in Restoring
  BY DEF Conflicts, Conflict

LEMMA RecordTypes ==
    /\ Idle \in Request /\ Finished \in Request
    /\ Idle.op = "idle" /\ Finished.op = "done"
    /\ Idle.new = None /\ Finished.new = None
    /\ NoAccount \in Account /\ NoInvite \in Invite
    /\ NoAccount.failed = 0 /\ NoAccount.locked = FALSE
    /\ NoTenant \in Tenant /\ IdleCall \in Call /\ DoneCall \in Call
    /\ NoTenant.id = 0 /\ NoTenant.active = FALSE
    /\ DoneCall.op = "done" /\ DoneCall.slug = None
  <1>1. NoAccount \in Account /\ NoAccount.failed = 0 /\ NoAccount.locked = FALSE
    BY DEF NoAccount, Account
  <1>2. Idle \in Request /\ Idle.op = "idle" /\ Idle.new = None
    BY <1>1 DEF Idle, Request, Ops
  <1>3. Finished \in Request /\ Finished.op = "done" /\ Finished.new = None
    BY <1>2 DEF Finished, Request, Ops
  <1>4. /\ NoTenant \in Tenant /\ NoInvite \in Invite
        /\ NoTenant.id = 0 /\ NoTenant.active = FALSE
    BY DEF NoTenant, Tenant, Ids, NoInvite, Invite
  <1>5. IdleCall \in Call /\ IdleCall.slug = None
    BY <1>4 DEF IdleCall, Call, CallOps
  <1>6. DoneCall \in Call /\ DoneCall.op = "done" /\ DoneCall.slug = None
    BY <1>5 DEF DoneCall, Call, CallOps
  <1> QED BY <1>1, <1>2, <1>3, <1>4, <1>5, <1>6

\* A request that has ended has nothing to lose.
LEMMA EndedRequest ==
    ASSUME NEW q \in Requests, req'[q] = Finished
    PROVE  /\ Formed(req[q])' /\ LinkHeld(req[q])' /\ LastHeld(req[q])' /\ Counted(req[q])'
           /\ \A p \in Requests : Apart(p, q)' /\ Apart(q, p)'
  <1>1. req'[q].op = "done" /\ req'[q].new = None
    BY RecordTypes
  <1>2. \A k \in DOMAIN Conflicts : \A a : ~Conflict(k, a, "done") /\ ~Conflict(k, "done", a)
    BY ConflictSets DEF Administering, SigningIn, Restoring
  <1> QED BY <1>1, <1>2
          DEF Formed, LinkHeld, LastHeld, Counted, Apart, Inserting, Administering, Updating,
              Deactivating, SigningIn, Restoring

-----------------------------------------------------------------------------
(***************************************************************************)
(* What the steps of PlatformAdministrators do.                            *)
(***************************************************************************)

\* What a request knows when it has made its first reads.
Reading(r, m) ==
    /\ Enter(r, m) /\ UNCHANGED <<account, invite, spent>>
    /\ Formed(m) /\ LinkHeld(m)
    /\ m.new # None => \A q \in Requests : req[q].new # m.new
    /\ wrong' = IF m.op = "rejected" THEN [wrong EXCEPT ![m.user] = @ + 1] ELSE wrong
    /\ m.op \in SigningIn \cup Restoring \cup Administering => m.copy = account[m.user]
    /\ m.op \in SigningIn => ~account[m.user].locked
    /\ m.op \in Administering => m.actor \in ActiveAdmins /\ m.op \in {"update", "active"}
    /\ m.op = "active" => m.value \/ m.user # m.actor

LEMMA FreshIsFree ==
    ASSUME NEW i \in Invites, Fresh(i)
    PROVE  invite[i].purpose = "none" /\ \A q \in Requests : req[q].new # i
  BY DEF Fresh, Taken

LEMMA Reads ==
    ASSUME AdminTypeOK, LinksInv, NEW r \in Requests, AdminBegin(r) \/ CommandBegin(r)
    PROVE  \E m \in Request : Reading(r, m)
  <1> USE RecordTypes
  <1>a. \A u \in Accounts : account[u] \in Account
    BY DEF AdminTypeOK
  <1>d. \A a \in Accounts : Administrator(a) => a \in ActiveAdmins
    BY DEF Administrator, ActiveAdmins
  <1>1. ASSUME NEW u \in Accounts, NEW verifies \in BOOLEAN, LoginRead(r, u, verifies)
        PROVE  \E m \in Request : Reading(r, m)
    <2> DEFINE good == account[u].password /\ verifies
               op == IF good THEN "accepted" ELSE "rejected"
               m == [Idle EXCEPT !.op = op, !.user = u, !.copy = account[u]]
    <2>1. op \in {"accepted", "rejected"} /\ (op = "rejected" <=> ~good)
      OBVIOUS
    <2>2. /\ Enter(r, m) /\ UNCHANGED <<account, invite, spent>> /\ ~account[u].locked
          /\ wrong' = IF good THEN wrong ELSE [wrong EXCEPT ![u] = @ + 1]
      BY <1>1 DEF LoginRead
    <2> HIDE DEF op, good
    <2>3. m \in Request
      BY <1>a, <2>1 DEF Request, Ops
    <2>4. m.op = op /\ m.user = u /\ m.copy = account[u] /\ m.new = None
      BY DEF Request
    <2> HIDE DEF m
    <2>5. Formed(m) /\ LinkHeld(m)
      BY <2>1, <2>4 DEF Formed, LinkHeld, Inserting
    <2>6. wrong' = IF m.op = "rejected" THEN [wrong EXCEPT ![m.user] = @ + 1] ELSE wrong
      BY <2>1, <2>2, <2>4
    <2> QED BY <2>1, <2>2, <2>3, <2>4, <2>5, <2>6 DEF Reading, Administering
  <1>2. ASSUME NEW i \in Invites, ConsumeRead(r, i)
        PROVE  \E m \in Request : Reading(r, m)
    <2> DEFINE u == invite[i].user
               m == [Idle EXCEPT !.op = "consume", !.invite = i, !.user = u,
                                 !.copy = account[u]]
    <2>1. u \in Accounts /\ Live(i)
      BY <1>2 DEF ConsumeRead, Live, LinksInv, TableInv
    <2>2. Enter(r, m) /\ UNCHANGED <<account, invite, spent, wrong>>
      BY <1>2 DEF ConsumeRead
    <2> HIDE DEF u
    <2>3. m \in Request
      BY <1>a, <2>1 DEF Request, Ops
    <2>4. /\ m.op = "consume" /\ m.user = u /\ m.copy = account[u] /\ m.new = None
          /\ m.invite = i
      BY DEF Request
    <2> HIDE DEF m
    <2>5. Formed(m) /\ LinkHeld(m)
      BY <2>1, <2>4 DEF Formed, LinkHeld, Inserting, Live
    <2> QED BY <2>2, <2>3, <2>4, <2>5 DEF Reading, SigningIn, Administering
  <1>3. ASSUME NEW a \in Accounts, NEW u \in Accounts, NEW v \in BOOLEAN, CreateRead(r, a, u, v)
        PROVE  \E m \in Request : Reading(r, m)
    <2>1. PICK i \in Invites :
            /\ Fresh(i)
            /\ Enter(r, [Idle EXCEPT !.op = "create", !.actor = a, !.user = u, !.new = i,
                                     !.value = v])
      BY <1>3 DEF CreateRead
    <2> DEFINE m == [Idle EXCEPT !.op = "create", !.actor = a, !.user = u, !.new = i,
                                 !.value = v]
    <2>2. m \in Request
      BY DEF Request, Ops
    <2>3. m.op = "create" /\ m.user = u /\ m.new = i
      BY DEF Request
    <2>4. Enter(r, m) /\ UNCHANGED <<account, invite, spent, wrong>>
      BY <1>3, <2>1 DEF CreateRead
    <2> HIDE DEF m
    <2>5. Formed(m) /\ LinkHeld(m)
      BY <2>1, <2>3, FreshIsFree DEF Formed, LinkHeld, Inserting
    <2> QED BY <2>1, <2>2, <2>3, <2>4, <2>5, FreshIsFree
            DEF Reading, SigningIn, Administering, Restoring
  <1>4. ASSUME NEW a \in Accounts, NEW u \in Accounts, NEW v \in BOOLEAN,
               UpdateRead(r, a, u, v)
        PROVE  \E m \in Request : Reading(r, m)
    <2> DEFINE m == [Idle EXCEPT !.op = "update", !.actor = a, !.user = u,
                                 !.copy = account[u], !.value = v]
    <2>1. Enter(r, m) /\ UNCHANGED <<account, invite, spent, wrong>> /\ a \in ActiveAdmins
      BY <1>4, <1>d DEF UpdateRead
    <2>2. m \in Request
      BY <1>a DEF Request, Ops
    <2>3. /\ m.op = "update" /\ m.user = u /\ m.actor = a /\ m.copy = account[u]
          /\ m.new = None
      BY DEF Request
    <2> HIDE DEF m
    <2>4. Formed(m) /\ LinkHeld(m)
      BY <2>3 DEF Formed, LinkHeld, Inserting
    <2> QED BY <2>1, <2>2, <2>3, <2>4 DEF Reading, SigningIn
  <1>5. ASSUME NEW a \in Accounts, NEW u \in Accounts, NEW v \in BOOLEAN,
               ActiveRead(r, a, u, v)
        PROVE  \E m \in Request : Reading(r, m)
    <2> DEFINE m == [Idle EXCEPT !.op = "active", !.actor = a, !.user = u,
                                 !.copy = account[u], !.value = v]
    <2>1. /\ Enter(r, m) /\ UNCHANGED <<account, invite, spent, wrong>>
          /\ a \in ActiveAdmins /\ (v \/ u # a)
      BY <1>5, <1>d DEF ActiveRead
    <2>2. m \in Request
      BY <1>a DEF Request, Ops
    <2>3. /\ m.op = "active" /\ m.user = u /\ m.actor = a /\ m.copy = account[u]
          /\ m.new = None /\ m.value = v
      BY DEF Request
    <2> HIDE DEF m
    <2>4. Formed(m) /\ LinkHeld(m)
      BY <2>3 DEF Formed, LinkHeld, Inserting
    <2> QED BY <2>1, <2>2, <2>3, <2>4 DEF Reading, SigningIn
  <1>6. ASSUME NEW u \in Accounts, ReissueRead(r, u)
        PROVE  \E m \in Request : Reading(r, m)
    <2>1. PICK i \in Invites :
            /\ Fresh(i)
            /\ Enter(r, [Idle EXCEPT !.op = "reissue", !.user = u, !.new = i,
                                     !.seen = UnusedResets(u)])
      BY <1>6 DEF ReissueRead
    <2> DEFINE m == [Idle EXCEPT !.op = "reissue", !.user = u, !.new = i,
                                 !.seen = UnusedResets(u)]
    <2>2. m \in Request
      BY DEF Request, Ops, UnusedResets
    <2>3. m.op = "reissue" /\ m.user = u /\ m.new = i /\ m.seen = UnusedResets(u)
      BY DEF Request
    <2>4. Enter(r, m) /\ UNCHANGED <<account, invite, spent, wrong>>
      BY <1>6, <2>1 DEF ReissueRead
    <2> HIDE DEF m
    <2>5. Formed(m) /\ LinkHeld(m)
      BY <2>1, <2>3, FreshIsFree DEF Formed, LinkHeld, Inserting, LiveResets
    <2> QED BY <2>1, <2>2, <2>3, <2>4, <2>5, FreshIsFree
            DEF Reading, SigningIn, Administering, Restoring
  <1>7. ASSUME NEW u \in Accounts, RecoverRead(r, u)
        PROVE  \E m \in Request : Reading(r, m)
    <2> DEFINE m == [Idle EXCEPT !.op = "recover", !.user = u, !.copy = account[u]]
    <2>1. Enter(r, m) /\ UNCHANGED <<account, invite, spent, wrong>>
      BY <1>7 DEF RecoverRead
    <2>2. m \in Request
      BY <1>a DEF Request, Ops
    <2>3. m.op = "recover" /\ m.user = u /\ m.copy = account[u] /\ m.new = None
      BY DEF Request
    <2> HIDE DEF m
    <2>4. Formed(m) /\ LinkHeld(m)
      BY <2>3 DEF Formed, LinkHeld, Inserting
    <2> QED BY <2>1, <2>2, <2>3, <2>4 DEF Reading, SigningIn, Administering
  <1> QED BY <1>1, <1>2, <1>3, <1>4, <1>5, <1>6, <1>7 DEF AdminBegin, CommandBegin

\* The rows that a commit leaves.
Written(u) ==
    /\ account' \in [Accounts -> Account]
    /\ \A v \in Accounts \ {u} : account'[v] = account[v]

LEMMA UpdateWrites ==
    ASSUME AdminTypeOK, NEW r \in Requests, req[r].user \in Accounts,
           NEW n \in Account, Update(r, n)
    PROVE  /\ Written(req[r].user)
           /\ account'[req[r].user] = Flushed(account[req[r].user], req[r].copy, n)
  <1>1. account[req[r].user] \in Account /\ req[r].copy \in Account
    BY DEF AdminTypeOK, Request
  <1>2. Flushed(account[req[r].user], req[r].copy, n) \in Account
    BY <1>1, FlushedAccount
  <1> QED BY <1>2 DEF AdminTypeOK, Update, Written

\* A login clears the failures it has read, or counts one more and locks.
LEMMA LoginRow ==
    ASSUME AdminTypeOK, LinksInv, NEW r \in Requests, LoginCommit(r)
    PROVE  LET u == req[r].user
               c == req[r].copy
           IN  /\ u \in Accounts /\ Written(u)
               /\ account'[u].exists = account[u].exists
               /\ account'[u].active = account[u].active
               /\ account'[u].admin = account[u].admin
               /\ req[r].op = "accepted" /\ ~c.locked =>
                    /\ account'[u].failed \in {0, account[u].failed}
                    /\ account'[u].locked = account[u].locked
               /\ req[r].op = "rejected" /\ ~c.locked =>
                    /\ account'[u].failed = c.failed + 1
                    /\ account'[u].locked =
                         IF c.failed + 1 >= LockAfter THEN TRUE ELSE account[u].locked
  <1> DEFINE u == req[r].user
             c == req[r].copy
             f == IF req[r].op = "accepted" THEN 0 ELSE c.failed + 1
             b == f >= LockAfter
             n == [c EXCEPT !.failed = f, !.locked = b]
  <1>1. c \in Account /\ u \in Accounts /\ account[u] \in Account
    BY DEF AdminTypeOK, Request, LinksInv, Formed, LoginCommit, SigningIn
  <1>2. f \in Nat /\ b \in BOOLEAN /\ (b <=> f >= LockAfter) /\ c.failed \in Nat
    BY <1>1 DEF Account
  <1>3. /\ req[r].op = "accepted" => f = 0 /\ ~b
        /\ req[r].op = "rejected" => f = c.failed + 1
    OBVIOUS
  <1>4. Update(r, n) /\ req[r].op \in {"accepted", "rejected"}
    BY DEF LoginCommit, SigningIn
  <1> HIDE DEF f, b
  <1>5. n \in Account
    BY <1>1, <1>2 DEF Account
  <1>6. /\ n.exists = c.exists /\ n.active = c.active /\ n.admin = c.admin
        /\ n.failed = f /\ n.locked = b
    BY <1>1 DEF Account
  <1> HIDE DEF n
  <1>7. Written(u) /\ account'[u] = Flushed(account[u], c, n)
    BY <1>1, <1>4, <1>5, UpdateWrites
  <1>8. /\ account'[u].exists = account[u].exists
        /\ account'[u].active = account[u].active /\ account'[u].admin = account[u].admin
        /\ account'[u].failed = IF f # c.failed THEN f ELSE account[u].failed
        /\ account'[u].locked = IF b # c.locked THEN b ELSE account[u].locked
    BY <1>1, <1>5, <1>6, <1>7, FlushedAccount
  <1>9. ASSUME req[r].op = "accepted", ~c.locked
        PROVE  /\ account'[u].failed \in {0, account[u].failed}
               /\ account'[u].locked = account[u].locked
    <2>1. b = FALSE /\ c.locked = FALSE
      BY <1>1, <1>2, <1>3, <1>9 DEF Account
    <2> QED BY <1>3, <1>8, <1>9, <2>1
  <1>10. ASSUME req[r].op = "rejected", ~c.locked
         PROVE  /\ account'[u].failed = c.failed + 1
                /\ account'[u].locked =
                     IF c.failed + 1 >= LockAfter THEN TRUE ELSE account[u].locked
    <2>1. f = c.failed + 1 /\ f # c.failed /\ c.locked = FALSE
      BY <1>1, <1>2, <1>3, <1>10 DEF Account
    <2>2. b = TRUE \/ b = FALSE
      BY <1>2
    <2> QED BY <1>2, <1>8, <2>1, <2>2
  <1> QED BY <1>1, <1>7, <1>8, <1>9, <1>10

\* A change writes the one column that it is about.
LEMMA ChangeRow ==
    ASSUME AdminTypeOK, LinksInv, NEW r \in Requests, UpdateCommit(r) \/ ActiveCommit(r)
    PROVE  LET u == req[r].user
           IN  /\ u \in Accounts /\ Written(u) /\ req[r].value \in BOOLEAN
               /\ account'[u].exists = account[u].exists
               /\ account'[u].failed = account[u].failed
               /\ account'[u].locked = account[u].locked
               /\ account'[u].active = account[u].active \/ account'[u].active = req[r].value
               /\ account'[u].admin = account[u].admin \/ account'[u].admin = req[r].value
               /\ req[r].op = "update_checked" => account'[u].active = account[u].active
               /\ req[r].op = "active_checked" => account'[u].admin = account[u].admin
  <1> DEFINE u == req[r].user
             c == req[r].copy
             v == req[r].value
             i == [c EXCEPT !.admin = v]
             j == [c EXCEPT !.active = v]
  <1>1. c \in Account /\ u \in Accounts /\ account[u] \in Account /\ v \in BOOLEAN
    BY DEF AdminTypeOK, Request, LinksInv, Formed, UpdateCommit, ActiveCommit
  <1>2. \/ req[r].op = "update_checked" /\ Update(r, i)
        \/ req[r].op = "active_checked" /\ Update(r, j)
    BY DEF UpdateCommit, ActiveCommit
  <1> HIDE DEF v
  <1>3. i \in Account /\ j \in Account
    BY <1>1 DEF Account
  <1>4. /\ i.exists = c.exists /\ i.failed = c.failed /\ i.locked = c.locked
        /\ i.active = c.active /\ i.admin = v
        /\ j.exists = c.exists /\ j.failed = c.failed /\ j.locked = c.locked
        /\ j.active = v /\ j.admin = c.admin
    BY <1>1 DEF Account
  <1> HIDE DEF i, j
  <1>5. PICK n \in {i, j} :
          /\ Update(r, n)
          /\ req[r].op = "update_checked" => n = i
          /\ req[r].op = "active_checked" => n = j
    BY <1>2
  <1>6. Written(u) /\ account'[u] = Flushed(account[u], c, n)
    BY <1>1, <1>3, <1>5, UpdateWrites
  <1>7. /\ account'[u].exists = IF n.exists # c.exists THEN n.exists ELSE account[u].exists
        /\ account'[u].active = IF n.active # c.active THEN n.active ELSE account[u].active
        /\ account'[u].admin = IF n.admin # c.admin THEN n.admin ELSE account[u].admin
        /\ account'[u].failed = IF n.failed # c.failed THEN n.failed ELSE account[u].failed
        /\ account'[u].locked = IF n.locked # c.locked THEN n.locked ELSE account[u].locked
    BY <1>1, <1>3, <1>5, <1>6, FlushedAccount
  <1> QED BY <1>1, <1>4, <1>5, <1>6, <1>7 DEF v

\* A link or a recovery clears what its copy has on record.
LEMMA RestoreRow ==
    ASSUME AdminTypeOK, LinksInv, NEW r \in Requests, ConsumeCommit(r) \/ RecoverCommit(r)
    PROVE  LET u == req[r].user
               c == req[r].copy
           IN  /\ u \in Accounts /\ Written(u)
               /\ account'[u].exists = account[u].exists
               /\ account'[u].admin = account[u].admin
               /\ account[u].active => account'[u].active
               /\ account'[u].failed = IF c.failed = 0 THEN account[u].failed ELSE 0
               /\ account'[u].locked = IF c.locked THEN FALSE ELSE account[u].locked
  <1> DEFINE u == req[r].user
             c == req[r].copy
             n == Restored(c)
             row == Flushed(account[u], c, n)
  <1>1. c \in Account /\ u \in Accounts /\ account[u] \in Account
    BY DEF AdminTypeOK, Request, LinksInv, Formed, ConsumeCommit, RecoverCommit
  <1>2. account' = [account EXCEPT ![u] = [row EXCEPT !.password = TRUE]]
    BY DEF ConsumeCommit, RecoverCommit, Restore
  <1>3. n \in Account
    BY <1>1 DEF Account, Restored
  <1>4. /\ n.exists = c.exists /\ n.admin = c.admin /\ n.active = TRUE
        /\ n.failed = 0 /\ n.locked = FALSE
    BY <1>1 DEF Account, Restored
  <1> HIDE DEF n
  <1>5. /\ row \in Account
        /\ row.exists = account[u].exists /\ row.admin = account[u].admin
        /\ row.active = IF n.active # c.active THEN n.active ELSE account[u].active
        /\ row.failed = IF 0 # c.failed THEN 0 ELSE account[u].failed
        /\ row.locked = IF FALSE # c.locked THEN FALSE ELSE account[u].locked
    <2>1. /\ row \in Account
          /\ row.exists = IF n.exists # c.exists THEN n.exists ELSE account[u].exists
          /\ row.admin = IF n.admin # c.admin THEN n.admin ELSE account[u].admin
          /\ row.active = IF n.active # c.active THEN n.active ELSE account[u].active
          /\ row.failed = IF n.failed # c.failed THEN n.failed ELSE account[u].failed
          /\ row.locked = IF n.locked # c.locked THEN n.locked ELSE account[u].locked
      BY <1>1, <1>3, FlushedAccount
    <2> HIDE DEF row
    <2> QED BY <1>4, <2>1
  <1>6. c.locked \in BOOLEAN /\ c.active \in BOOLEAN
    BY <1>1 DEF Account
  <1> HIDE DEF row, u, c
  <1>7. [row EXCEPT !.password = TRUE] \in Account
    BY <1>5 DEF Account
  <1>8. account' \in [Accounts -> Account] /\ account'[u] = [row EXCEPT !.password = TRUE]
        /\ \A v \in Accounts \ {u} : account'[v] = account[v]
    BY <1>1, <1>2, <1>7 DEF AdminTypeOK
  <1>9. /\ account'[u].exists = row.exists /\ account'[u].admin = row.admin
        /\ account'[u].active = row.active /\ account'[u].failed = row.failed
        /\ account'[u].locked = row.locked
    BY <1>5, <1>8 DEF Account
  <1>10. /\ account[u].active => row.active
         /\ row.locked = IF c.locked THEN FALSE ELSE account[u].locked
    BY <1>4, <1>5, <1>6
  <1> QED BY <1>1, <1>5, <1>8, <1>9, <1>10 DEF Written, u, c

LEMMA CreateRow ==
    ASSUME AdminTypeOK, LinksInv, NEW r \in Requests, CreateCommit(r)
    PROVE  LET u == req[r].user
           IN  /\ u \in Accounts /\ Written(u) /\ ~account[u].exists
               /\ account'[u].failed = 0 /\ account'[u].locked = FALSE
  <1> DEFINE u == req[r].user
             n == [NoAccount EXCEPT !.exists = TRUE, !.admin = req[r].value]
  <1>1. u \in Accounts /\ req[r].value \in BOOLEAN
    BY DEF AdminTypeOK, Request, LinksInv, Formed, CreateCommit
  <1>2. n \in Account /\ n.failed = 0 /\ n.locked = FALSE
    BY <1>1, RecordTypes DEF Account
  <1>3. account' = [account EXCEPT ![u] = n] /\ ~account[u].exists
    BY DEF CreateCommit
  <1> HIDE DEF n
  <1> QED BY <1>1, <1>2, <1>3 DEF Written, AdminTypeOK

-----------------------------------------------------------------------------
(***************************************************************************)
(* Type correctness.                                                       *)
(***************************************************************************)

\* What a step of TenantLifecycle does to the administrators.
Abandon ==
    /\ \A q \in Requests : req'[q] \in {req[q], Finished}
    /\ UNCHANGED <<account, invite, spent, wrong, raced>>
    /\ req' \in [Requests -> Request]

AdminNext ==
    \/ \E r \in Requests : AdminBegin(r) \/ CommandBegin(r) \/ AdminEnd(r)
    \/ \E i \in Invites : Expire(i)
    \/ Abandon

LEMMA AdminSteps == AdminTypeOK /\ [Next]_vars => AdminNext
  <1> SUFFICES ASSUME AdminTypeOK, [Next]_vars PROVE AdminNext
    OBVIOUS
  <1>1. UNCHANGED adminVars => Abandon
    BY DEF adminVars, Abandon, AdminTypeOK
  <1>2. ASSUME NEW r \in Requests,
               Arrive(r) \/ (AdminEnd(r) /\ UNCHANGED lifeVars)
                 \/ (LifeStep(r) /\ UNCHANGED adminVars)
        PROVE  AdminNext
    BY <1>1, <1>2 DEF Arrive, AdminNext
  <1>3. CASE Stop
    <2>1. Abandon
      BY <1>3, RecordTypes DEF Stop, Abandon, AdminTypeOK
    <2> QED BY <2>1 DEF AdminNext
  <1>4. CASE Start \/ Serve \/ (\E s \in Slugs : LoadTenant(s)) \/ UNCHANGED vars
    BY <1>1, <1>4 DEF Start, Serve, LoadTenant, vars, adminVars, AdminNext
  <1>5. ASSUME NEW i \in Invites, Expire(i) PROVE AdminNext
    BY <1>5 DEF AdminNext
  <1> QED BY <1>2, <1>3, <1>4, <1>5 DEF Next

LEMMA LeaveType ==
    ASSUME AdminTypeOK, NEW r \in Requests, Leave(r)
    PROVE  /\ req' \in [Requests -> Request] /\ raced' = raced
           /\ req'[r] = Finished /\ \A q \in Requests \ {r} : req'[q] = req[q]
  BY RecordTypes DEF AdminTypeOK, Leave

LEMMA ReplaceType ==
    ASSUME AdminTypeOK, NEW is, NEW i, NEW p \in {"none", "setup", "reset"},
           NEW u \in Accounts
    PROVE  Replace(is, i, p, u) \in [Invites -> Invite]
  BY RecordTypes DEF Replace, AdminTypeOK, Invite

LEMMA CheckStep ==
    ASSUME AdminTypeOK, NEW r \in Requests, Check(r)
    PROVE  /\ req' \in [Requests -> Request]
           /\ UNCHANGED <<account, invite, spent, wrong, raced>>
           /\ \A q \in Requests \ {r} : req'[q] = req[q]
           /\ \/ req'[r] = Finished
              \/ /\ ~ (NeedsAnother(req[r]) /\ Cardinality(ActiveAdmins) <= 1)
                 /\ req'[r].op = IF req[r].op = "update" THEN "update_checked"
                                 ELSE "active_checked"
                 /\ req[r].op \in {"update", "active"}
                 /\ req'[r].actor = req[r].actor /\ req'[r].user = req[r].user
                 /\ req'[r].copy = req[r].copy /\ req'[r].value = req[r].value
                 /\ req'[r].new = req[r].new
  <1> DEFINE refuse == NeedsAnother(req[r]) /\ Cardinality(ActiveAdmins) <= 1
             op == IF req[r].op = "update" THEN "update_checked" ELSE "active_checked"
             m == [req[r] EXCEPT !.op = op]
  <1>1. /\ req' = [req EXCEPT ![r] = IF refuse THEN Finished ELSE m]
        /\ UNCHANGED <<account, invite, spent, wrong, raced>>
        /\ req[r].op \in {"update", "active"} /\ req[r] \in Request
    <2>1. req' = [req EXCEPT ![r] = IF refuse THEN Finished ELSE m]
      <3>1. req' = [req EXCEPT ![r] =
                      IF NeedsAnother(req[r]) /\ Cardinality(ActiveAdmins) <= 1 THEN Finished
                      ELSE [req[r] EXCEPT !.op = IF req[r].op = "update" THEN "update_checked"
                                                 ELSE "active_checked"]]
        BY DEF Check
      <3> QED BY <3>1
    <2> QED BY <2>1 DEF Check, AdminTypeOK
  <1> HIDE DEF refuse
  <1>2. op \in Ops
    BY DEF Ops
  <1>3. m \in Request
    BY <1>1, <1>2 DEF Request
  <1>4. /\ m.op = op /\ m.actor = req[r].actor /\ m.user = req[r].user
        /\ m.copy = req[r].copy /\ m.value = req[r].value /\ m.new = req[r].new
    BY <1>1 DEF Request
  <1> HIDE DEF m
  <1>5. /\ req' \in [Requests -> Request] /\ \A q \in Requests \ {r} : req'[q] = req[q]
        /\ req'[r] = IF refuse THEN Finished ELSE m
    BY <1>1, <1>3, RecordTypes DEF AdminTypeOK
  <1>6. CASE refuse
    BY <1>1, <1>5, <1>6
  <1>7. CASE ~refuse
    BY <1>1, <1>4, <1>5, <1>7 DEF refuse
  <1> QED BY <1>6, <1>7

LEMMA AdminType == AdminTypeOK /\ LinksInv /\ AdminNext => AdminTypeOK'
  <1> SUFFICES ASSUME AdminTypeOK, LinksInv, AdminNext PROVE AdminTypeOK'
    OBVIOUS
  <1> USE RecordTypes
  <1>1. ASSUME NEW r \in Requests, AdminBegin(r) \/ CommandBegin(r) PROVE AdminTypeOK'
    <2>1. PICK m \in Request : Reading(r, m)
      BY <1>1, Reads
    <2>2. req' \in [Requests -> Request] /\ raced' \subseteq DOMAIN Conflicts
      BY <2>1 DEF Reading, Enter, AdminTypeOK
    <2>3. wrong' = wrong \/ wrong' = [wrong EXCEPT ![m.user] = @ + 1]
      BY <2>1 DEF Reading
    <2>4. wrong' \in [Accounts -> Nat]
      BY <2>3 DEF AdminTypeOK
    <2> QED BY <2>1, <2>2, <2>4 DEF Reading, AdminTypeOK
  <1>2. ASSUME NEW r \in Requests, AdminEnd(r) PROVE AdminTypeOK'
    <2>1. CASE LoginCommit(r) \/ UpdateCommit(r) \/ ActiveCommit(r)
      <3>1. Written(req[r].user) /\ Leave(r) /\ UNCHANGED <<invite, spent, wrong>>
        BY <2>1, LoginRow, ChangeRow DEF LoginCommit, UpdateCommit, ActiveCommit
      <3> QED BY <3>1, LeaveType DEF Written, AdminTypeOK
    <2>2. CASE ReissueCommit(r)
      <3>1. req[r].user \in Accounts
        BY <2>2 DEF ReissueCommit, LinksInv, Formed
      <3>2. invite' \in [Invites -> Invite]
        BY <2>2, <3>1, ReplaceType DEF ReissueCommit
      <3> QED BY <2>2, <3>2, LeaveType DEF ReissueCommit, AdminTypeOK
    <2>3. CASE ConsumeCommit(r)
      <3>1. Written(req[r].user) /\ Leave(r)
        BY <2>3, RestoreRow DEF ConsumeCommit
      <3>2. /\ wrong' \in [Accounts -> Nat] /\ invite' \in [Invites -> Invite]
            /\ spent' \in [Invites -> SUBSET Requests]
        BY <2>3 DEF ConsumeCommit, Restore, AdminTypeOK, Invite
      <3> QED BY <3>1, <3>2, LeaveType DEF Written, AdminTypeOK
    <2>4. CASE CreateCommit(r)
      <3>1. Written(req[r].user) /\ req[r].user \in Accounts
        BY <2>4, CreateRow
      <3>2. invite' \in [Invites -> Invite]
        BY <2>4, <3>1, ReplaceType DEF CreateCommit
      <3> QED BY <2>4, <3>1, <3>2, LeaveType DEF CreateCommit, Written, AdminTypeOK
    <2>5. CASE Check(r)
      BY <2>5, CheckStep DEF AdminTypeOK
    <2>6. CASE RecoverCommit(r)
      <3>1. Written(req[r].user) /\ Leave(r) /\ UNCHANGED <<invite, spent>>
        BY <2>6, RestoreRow DEF RecoverCommit
      <3>2. wrong' \in [Accounts -> Nat]
        BY <2>6 DEF RecoverCommit, Restore, AdminTypeOK
      <3> QED BY <3>1, <3>2, LeaveType DEF Written, AdminTypeOK
    <2>7. CASE RollBack(r)
      BY <2>7, LeaveType DEF RollBack, AdminTypeOK
    <2> QED BY <1>2, <2>1, <2>2, <2>3, <2>4, <2>5, <2>6, <2>7 DEF AdminEnd
  <1>3. ASSUME NEW i \in Invites, Expire(i) PROVE AdminTypeOK'
    <2>1. invite' \in [Invites -> Invite]
      BY <1>3 DEF Expire, AdminTypeOK, Invite
    <2> QED BY <1>3, <2>1 DEF Expire, AdminTypeOK
  <1>4. CASE Abandon
    BY <1>4 DEF Abandon, AdminTypeOK
  <1> QED BY <1>1, <1>2, <1>3, <1>4 DEF AdminNext

-----------------------------------------------------------------------------
(***************************************************************************)
(* Links.                                                                  *)
(***************************************************************************)

\* A link that this step did not insert.
Aged(i) ==
    /\ invite'[i].purpose = invite[i].purpose /\ invite'[i].user = invite[i].user
    /\ invite[i].used => invite'[i].used
    /\ invite[i].expired => invite'[i].expired

LEMMA AgedViews ==
    ASSUME \A i \in Invites : Aged(i)
    PROVE  \A u : LiveResets(u)' \subseteq LiveResets(u)
  BY DEF Aged, LiveResets, UnusedResets, Live

\* A request that goes on as it is, ends, or goes on to the commit of a change.
Calm(q) ==
    \/ req'[q] \in {req[q], Finished}
    \/ /\ req[q].op \in {"update", "active"}
       /\ req'[q].op \in {"update_checked", "active_checked"}
       /\ req'[q].new = req[q].new /\ req'[q].user = req[q].user

\* Links only age, and no request begins.
LEMMA AgeingStep ==
    ASSUME LinksInv, TableInv', \A i \in Invites : Aged(i), raced' = raced,
           \A q \in Requests : Calm(q),
           \A q \in Requests :
              req'[q] = req[q] /\ req[q].op = "consume" /\ "consume" \notin raced
              => invite'[req[q].invite].used = invite[req[q].invite].used
    PROVE  LinksInv'
  <1> DEFINE Commits(q) == /\ req[q].op \in {"update", "active"}
                           /\ req'[q].op \in {"update_checked", "active_checked"}
                           /\ req'[q].new = req[q].new /\ req'[q].user = req[q].user
  <1>1. ASSUME NEW q \in Requests PROVE Formed(req[q])' /\ LinkHeld(req[q])'
    <2>0. Formed(req[q]) /\ LinkHeld(req[q])
      BY DEF LinksInv
    <2>1. CASE req'[q] = Finished
      BY <2>1, EndedRequest
    <2>2. CASE req'[q] = req[q]
      <3>1. Formed(req[q])'
        BY <2>0, <2>2 DEF Formed, Inserting, Aged
      <3>2. LinkHeld(req[q])'
        BY <2>0, <2>2, AgedViews DEF LinkHeld
      <3> QED BY <3>1, <3>2
    <2>3. CASE Commits(q)
      BY <2>0, <2>3 DEF Formed, LinkHeld, Inserting
    <2> QED BY <2>1, <2>2, <2>3 DEF Calm
  <1>2. ASSUME NEW p \in Requests, NEW q \in Requests, p # q PROVE Apart(p, q)'
    <2>1. CASE req'[p] = Finished \/ req'[q] = Finished
      BY <2>1, EndedRequest
    <2>2. CASE req'[p] # Finished /\ req'[q] # Finished
      <3>1. ASSUME NEW x \in {p, q}
            PROVE  /\ req'[x].new = req[x].new
                   /\ req'[x].op \in Administering <=> req[x].op \in Administering
                   /\ req'[x].op = "reissue" <=> req[x].op = "reissue"
                   /\ req'[x].op = "consume" <=> req[x].op = "consume"
                   /\ req'[x].op \in SigningIn <=> req[x].op \in SigningIn
                   /\ req'[x].op \in Restoring <=> req[x].op \in Restoring
        BY <2>2 DEF Calm, Administering, SigningIn, Restoring
      <3>2. Apart(p, q)
        BY <1>2 DEF LinksInv
      <3>3. ASSUME NEW k \in DOMAIN Conflicts \ raced
            PROVE  ~Conflict(k, req'[p].op, req'[q].op)
        <4>1. ~Conflict(k, req[p].op, req[q].op)
          BY <3>2 DEF Apart
        <4>2. k \in {"administer", "reissue", "consume", "restore"}
          BY ConflictSets
        <4> QED BY <3>1, <4>1, <4>2, ConflictSets
      <3> QED BY <3>1, <3>2, <3>3 DEF Apart, Conflict, Conflicts
    <2> QED BY <2>1, <2>2
  <1>3. NewestInv'
    BY AgedViews DEF LinksInv, NewestInv
  <1> QED BY <1>1, <1>2, <1>3 DEF LinksInv

\* A request that begins: an overlap that it makes is recorded.
LEMMA ReadingLinks ==
    ASSUME AdminTypeOK, LinksInv, NEW r \in Requests, NEW m \in Request, Reading(r, m)
    PROVE  LinksInv'
  <1>1. /\ req'[r] = m /\ \A q \in Requests \ {r} : req'[q] = req[q]
        /\ raced \subseteq raced' /\ invite' = invite /\ spent' = spent
    BY DEF Reading, Enter, AdminTypeOK
  <1>2. \A u : LiveResets(u)' = LiveResets(u)
    BY <1>1 DEF LiveResets, UnusedResets, Live
  <1>3. ASSUME NEW q \in Requests PROVE Formed(req[q])' /\ LinkHeld(req[q])'
    <2>1. Formed(req'[q]) /\ LinkHeld(req'[q])
      BY <1>1 DEF LinksInv, Reading
    <2> QED BY <1>1, <1>2, <2>1 DEF Formed, LinkHeld
  <1>4. ASSUME NEW p \in Requests, NEW q \in Requests, p # q PROVE Apart(p, q)'
    <2>1. ASSUME NEW k \in DOMAIN Conflicts, k \notin raced', NEW x \in Requests \ {r}
          PROVE  ~Conflict(k, m.op, req[x].op) /\ ~Conflict(k, req[x].op, m.op)
      BY <2>1 DEF Reading, Enter, Conflict
    <2>2. \A k \in DOMAIN Conflicts \ raced' : ~Conflict(k, req'[p].op, req'[q].op)
      <3>1. CASE p = r \/ q = r
        BY <1>1, <1>4, <2>1, <3>1
      <3>2. CASE p # r /\ q # r
        BY <1>1, <1>4, <3>2 DEF LinksInv, Apart
      <3> QED BY <3>1, <3>2
    <2>3. req'[p].new # None => req'[p].new # req'[q].new
      BY <1>1, <1>4 DEF LinksInv, Apart, Reading
    <2> QED BY <2>2, <2>3 DEF Apart, Conflict, Conflicts
  <1>5. TableInv' /\ NewestInv'
    BY <1>1, <1>2 DEF LinksInv, TableInv, NewestInv
  <1> QED BY <1>3, <1>4, <1>5 DEF LinksInv

\* A step that writes no link.
LEMMA QuietLinks ==
    ASSUME LinksInv, UNCHANGED <<invite, spent, raced>>, \A q \in Requests : Calm(q)
    PROVE  LinksInv'
  <1>1. \A i \in Invites : Aged(i)
    BY DEF Aged
  <1>2. TableInv'
    BY DEF LinksInv, TableInv
  <1> QED BY <1>1, <1>2, AgeingStep

\* The link is used once while its request is alone with its kind.
LEMMA ConsumeLinks ==
    ASSUME AdminTypeOK, LinksInv, NEW r \in Requests, ConsumeCommit(r)
    PROVE  LinksInv'
  <1> DEFINE i == req[r].invite
  <1>1. /\ invite' = [invite EXCEPT ![i].used = TRUE]
        /\ spent' = [spent EXCEPT ![i] = @ \cup {r}]
        /\ Leave(r) /\ req[r].op = "consume"
    BY DEF ConsumeCommit
  <1>2. /\ i \in Invites /\ invite[i].purpose # "none"
        /\ "consume" \notin raced => ~invite[i].used
    BY <1>1 DEF LinksInv, Formed, LinkHeld
  <1>3. /\ req'[r] = Finished /\ \A q \in Requests \ {r} : req'[q] = req[q]
        /\ raced' = raced
    BY <1>1, LeaveType
  <1> HIDE DEF i
  <1>4. /\ \A k \in Invites \ {i} : invite'[k] = invite[k] /\ spent'[k] = spent[k]
        /\ spent'[i] = spent[i] \cup {r} /\ invite'[i].used = TRUE
        /\ invite'[i].purpose = invite[i].purpose /\ invite'[i].user = invite[i].user
        /\ invite'[i].expired = invite[i].expired
    BY <1>1, <1>2 DEF AdminTypeOK, Invite
  <1>5. \A k \in Invites : Aged(k)
    BY <1>4 DEF Aged
  <1>6. TableInv'
    <2> SUFFICES ASSUME NEW k \in Invites
                 PROVE  /\ invite'[k].purpose # "none" => invite'[k].user \in Accounts
                        /\ invite'[k].used => invite'[k].purpose # "none"
                        /\ spent'[k] # {} => invite'[k].used
                        /\ "consume" \notin raced => \A a, b \in spent'[k] : a = b
      BY <1>3 DEF TableInv
    <2>1. CASE k = i
      <3>1. "consume" \notin raced => spent[i] = {}
        BY <1>2 DEF LinksInv, TableInv
      <3> QED BY <1>2, <1>4, <2>1, <3>1 DEF LinksInv, TableInv
    <2>2. CASE k # i
      BY <1>4, <2>2 DEF LinksInv, TableInv
    <2> QED BY <2>1, <2>2
  <1>7. ASSUME NEW q \in Requests, req'[q] = req[q], req[q].op = "consume",
               "consume" \notin raced
        PROVE  invite'[req[q].invite].used = invite[req[q].invite].used
    <2>1. CASE q = r
      BY <1>1, <1>3, <1>7, <2>1, RecordTypes
    <2>2. CASE q # r
      <3>1. Apart(q, r)
        BY <2>2 DEF LinksInv
      <3> QED BY <1>1, <1>7, <3>1, ConflictSets DEF Apart
    <2> QED BY <2>1, <2>2
  <1>8. \A q \in Requests : Calm(q)
    BY <1>3 DEF Calm
  <1> QED BY <1>3, <1>5, <1>6, <1>7, <1>8, AgeingStep

\* A link is inserted, and for a reset those seen before expire.
LEMMA InsertLinks ==
    ASSUME AdminTypeOK, LinksInv, NEW r \in Requests, NEW is, NEW p \in {"setup", "reset"},
           req[r].op \in Inserting, p = "reset" => req[r].op = "reissue" /\ is = req[r].seen,
           invite' = Replace(is, req[r].new, p, req[r].user), spent' = spent, Leave(r)
    PROVE  LinksInv'
  <1> DEFINE i == req[r].new
             u == req[r].user
  <1>1. i \in Invites /\ u \in Accounts /\ invite[i].purpose = "none"
    BY DEF LinksInv, Formed, Inserting
  <1>2. /\ req'[r] = Finished /\ \A q \in Requests \ {r} : req'[q] = req[q]
        /\ raced' = raced
    BY LeaveType
  <1>3. invite'[i] = [NoInvite EXCEPT !.purpose = p, !.user = u]
    BY <1>1 DEF Replace
  <1>4. /\ invite'[i].purpose = p /\ invite'[i].user = u
        /\ ~invite'[i].used /\ ~invite'[i].expired
    BY <1>1, <1>3 DEF NoInvite
  <1>5. \A k \in Invites \ {i} :
          invite'[k] = IF k \in is THEN [invite[k] EXCEPT !.expired = TRUE] ELSE invite[k]
    BY DEF Replace
  <1>r. \A k \in Invites : invite[k] \in Invite
    BY DEF AdminTypeOK
  <1>s. "reissue" \notin raced /\ p = "reset" => LiveResets(u) \subseteq is
    BY DEF LinksInv, LinkHeld
  <1> HIDE DEF i, u
  <1>6. ASSUME NEW k \in Invites \ {i}
        PROVE  Aged(k) /\ invite'[k].used = invite[k].used /\ (k \in is => invite'[k].expired)
    BY <1>5, <1>r DEF Aged, Invite
  <1>7. \A v : LiveResets(v)' \subseteq LiveResets(v) \cup {i}
    BY <1>6 DEF LiveResets, UnusedResets, Live, Aged
  <1>8. \A v : i \in LiveResets(v)' => p = "reset" /\ v = u
    BY <1>4 DEF LiveResets, UnusedResets
  <1>9. \A v, k : k \in LiveResets(v)' /\ k # i => ~invite'[k].expired /\ k \in Invites
    BY DEF LiveResets, UnusedResets, Live
  <1>10. TableInv'
    <2> SUFFICES ASSUME NEW k \in Invites
                 PROVE  /\ invite'[k].purpose # "none" => invite'[k].user \in Accounts
                        /\ invite'[k].used => invite'[k].purpose # "none"
                        /\ spent[k] # {} => invite'[k].used
                        /\ "consume" \notin raced => \A a, b \in spent[k] : a = b
      BY <1>2 DEF TableInv
    <2>1. CASE k = i
      <3>1. spent[i] = {}
        BY <1>1 DEF LinksInv, TableInv
      <3> QED BY <1>1, <1>4, <2>1, <3>1
    <2>2. CASE k # i
      BY <1>6, <2>2 DEF LinksInv, TableInv, Aged
    <2> QED BY <2>1, <2>2
  <1>11. NewestInv'
    <2> SUFFICES ASSUME "reissue" \notin raced, NEW v \in Accounts,
                        NEW k \in LiveResets(v)', NEW l \in LiveResets(v)'
                 PROVE  k = l
      BY <1>2 DEF NewestInv
    <2>1. CASE i \in LiveResets(v)'
      <3>1. p = "reset" /\ v = u
        BY <1>8, <2>1
      <3>2. ASSUME NEW x \in LiveResets(v)' PROVE x = i
        BY <1>6, <1>7, <1>9, <1>s, <3>1
      <3> QED BY <3>2
    <2>2. CASE i \notin LiveResets(v)'
      BY <1>7, <2>2 DEF LinksInv, NewestInv
    <2> QED BY <2>1, <2>2
  <1>12. ASSUME NEW q \in Requests PROVE Formed(req[q])' /\ LinkHeld(req[q])'
    <2>1. CASE q = r
      BY <1>2, <2>1, EndedRequest
    <2>2. CASE q # r
      <3>1. Apart(r, q) /\ Formed(req[q]) /\ LinkHeld(req[q]) /\ req'[q] = req[q]
        BY <1>2, <2>2 DEF LinksInv
      <3>2. req[q].new # i
        BY <1>1, <3>1 DEF Apart, Invites, i
      <3>3. Formed(req[q])'
        BY <1>1, <1>6, <3>1, <3>2 DEF Formed, Aged, Inserting
      <3>4. ASSUME req[q].op = "consume", "consume" \notin raced
            PROVE  ~invite'[req[q].invite].used
        BY <1>1, <1>6, <3>1, <3>4 DEF Formed, LinkHeld
      <3>5. ASSUME req[q].op = "reissue", "reissue" \notin raced
            PROVE  LiveResets(req[q].user)' \subseteq req[q].seen
        <4>1. p # "reset"
          BY <3>1, <3>5, ConflictSets DEF Apart
        <4> QED BY <1>7, <1>8, <3>1, <3>5, <4>1 DEF LinkHeld
      <3> QED BY <1>2, <3>1, <3>3, <3>4, <3>5 DEF LinkHeld
    <2> QED BY <2>1, <2>2
  <1>13. ASSUME NEW a \in Requests, NEW b \in Requests, a # b PROVE Apart(a, b)'
    <2>1. CASE a = r \/ b = r
      BY <1>2, <2>1, EndedRequest
    <2>2. CASE a # r /\ b # r
      BY <1>2, <1>13, <2>2 DEF LinksInv, Apart, Conflict, Conflicts
    <2> QED BY <2>1, <2>2
  <1> QED BY <1>10, <1>11, <1>12, <1>13 DEF LinksInv

LEMMA NextLinks == AdminTypeOK /\ LinksInv /\ AdminNext => LinksInv'
  <1> SUFFICES ASSUME AdminTypeOK, LinksInv, AdminNext PROVE LinksInv'
    OBVIOUS
  <1>1. ASSUME NEW r \in Requests, AdminBegin(r) \/ CommandBegin(r) PROVE LinksInv'
    BY <1>1, Reads, ReadingLinks
  <1>2. ASSUME NEW r \in Requests, AdminEnd(r) PROVE LinksInv'
    <2>1. CASE LoginCommit(r) \/ UpdateCommit(r) \/ ActiveCommit(r) \/ RecoverCommit(r)
                 \/ RollBack(r)
      <3>1. Leave(r) /\ UNCHANGED <<invite, spent>>
        BY <2>1 DEF LoginCommit, UpdateCommit, ActiveCommit, RecoverCommit, RollBack
      <3>2. raced' = raced /\ \A q \in Requests : Calm(q)
        BY <3>1, LeaveType DEF Calm
      <3> QED BY <3>1, <3>2, QuietLinks
    <2>2. CASE ReissueCommit(r)
      BY <2>2, InsertLinks DEF ReissueCommit, Inserting
    <2>3. CASE ConsumeCommit(r)
      BY <2>3, ConsumeLinks
    <2>4. CASE CreateCommit(r)
      BY <2>4, InsertLinks DEF CreateCommit, Inserting
    <2>5. CASE Check(r)
      <3>1. \A q \in Requests : Calm(q)
        BY <2>5, CheckStep DEF Calm
      <3> QED BY <2>5, <3>1, CheckStep, QuietLinks
    <2> QED BY <1>2, <2>1, <2>2, <2>3, <2>4, <2>5 DEF AdminEnd
  <1>3. ASSUME NEW i \in Invites, Expire(i) PROVE LinksInv'
    <2>1. invite' = [invite EXCEPT ![i].expired = TRUE] /\ UNCHANGED <<req, spent, raced>>
      BY <1>3 DEF Expire
    <2>2. \A k \in Invites : Aged(k) /\ invite'[k].used = invite[k].used
      BY <2>1 DEF Aged, AdminTypeOK, Invite
    <2>3. TableInv'
      BY <2>1, <2>2 DEF LinksInv, TableInv, Aged
    <2>4. \A q \in Requests :
            req[q].op = "consume" => invite'[req[q].invite].used = invite[req[q].invite].used
      BY <2>2 DEF LinksInv, Formed
    <2> QED BY <2>1, <2>2, <2>3, <2>4, AgeingStep DEF Calm
  <1>4. CASE Abandon
    BY <1>4, QuietLinks DEF Abandon, Calm
  <1> QED BY <1>1, <1>2, <1>3, <1>4 DEF AdminNext

-----------------------------------------------------------------------------
(***************************************************************************)
(* Administrators and failures.                                            *)
(***************************************************************************)

\* What is said of failures is still true of request q, which goes on as it is.
Uncounted(q) ==
    "restore" \notin raced' =>
        /\ req[q].op = "rejected" => wrong[req[q].user] <= wrong'[req[q].user]
        /\ req[q].op \in Restoring =>
             /\ account[req[q].user].failed = 0 => account'[req[q].user].failed = 0
             /\ account'[req[q].user].locked => account[req[q].user].locked

LEMMA CountedKept ==
    ASSUME AdminTypeOK, AdminTypeOK', LinksInv, AccountsInv, raced \subseteq raced',
           NEW q \in Requests, req'[q] = req[q], Uncounted(q)
    PROVE  Counted(req[q])'
  <1> SUFFICES ASSUME "restore" \notin raced'
               PROVE  /\ req[q].op \in SigningIn => ~req[q].copy.locked
                      /\ req[q].op = "rejected" =>
                           req[q].copy.failed + 1 <= wrong'[req[q].user]
                      /\ req[q].op \in Restoring =>
                           /\ req[q].copy.failed = 0 => account'[req[q].user].failed = 0
                           /\ req[q].copy.locked = FALSE => ~account'[req[q].user].locked
    BY DEF Counted
  <1>1. Counted(req[q]) /\ "restore" \notin raced
    BY DEF AccountsInv
  <1>2. ASSUME req[q].op = "rejected"
        PROVE  req[q].copy.failed + 1 <= wrong'[req[q].user]
    <2>1. req[q].user \in Accounts /\ req[q].copy \in Account
      BY <1>2 DEF LinksInv, Formed, AdminTypeOK, Request
    <2>2. /\ wrong[req[q].user] \in Nat /\ wrong'[req[q].user] \in Nat
          /\ req[q].copy.failed \in Nat
      BY <2>1 DEF AdminTypeOK, Account
    <2>3. /\ req[q].copy.failed + 1 <= wrong[req[q].user]
          /\ wrong[req[q].user] <= wrong'[req[q].user]
      BY <1>1, <1>2 DEF Counted, Uncounted
    <2> QED BY <2>2, <2>3
  <1> QED BY <1>1, <1>2 DEF Counted, Uncounted

\* What a step leaves true when no administrator goes.
LEMMA KeepAccounts ==
    ASSUME AdminTypeOK, AdminTypeOK', LinksInv, AccountsInv, CleanSlate',
           raced \subseteq raced', ActiveAdmins \subseteq ActiveAdmins',
           \A q \in Requests : \/ req'[q] = req[q] /\ Uncounted(q)
                               \/ LastHeld(req[q])' /\ Counted(req[q])'
    PROVE  AccountsInv'
  <1>1. ASSUME NEW q \in Requests PROVE LastHeld(req[q])' /\ Counted(req[q])'
    <2>1. ASSUME req'[q] = req[q] PROVE LastHeld(req[q])'
      BY <2>1 DEF AccountsInv, LastHeld, Another
    <2> QED BY <2>1, CountedKept
  <1>2. PlatformAdministratorRemains'
    BY DEF AccountsInv, PlatformAdministratorRemains
  <1> QED BY <1>1, <1>2 DEF AccountsInv

\* A step that writes no account.
LEMMA QuietAccounts ==
    ASSUME AdminTypeOK, AdminTypeOK', LinksInv, AccountsInv, UNCHANGED <<account, wrong, raced>>,
           \A q \in Requests : \/ req'[q] = req[q]
                               \/ LastHeld(req[q])' /\ Counted(req[q])'
    PROVE  AccountsInv'
  <1>1. CleanSlate' /\ ActiveAdmins' = ActiveAdmins
    BY DEF AccountsInv, CleanSlate, ActiveAdmins
  <1>2. \A q \in Requests : req'[q] = req[q] => Uncounted(q)
    <2> SUFFICES ASSUME NEW q \in Requests, req[q].op = "rejected"
                 PROVE  wrong[req[q].user] <= wrong[req[q].user]
      BY DEF Uncounted
    <2>1. wrong[req[q].user] \in Nat
      BY DEF LinksInv, Formed, AdminTypeOK
    <2> QED BY <2>1
  <1> QED BY <1>1, <1>2, KeepAccounts

\* A login that is rejected is counted when it is read.
LEMMA ReadingAccounts ==
    ASSUME AdminTypeOK, AdminTypeOK', LinksInv, AccountsInv,
           NEW r \in Requests, NEW m \in Request, Reading(r, m)
    PROVE  AccountsInv'
  <1>1. /\ req'[r] = m /\ \A q \in Requests \ {r} : req'[q] = req[q]
        /\ raced \subseteq raced' /\ account' = account
    BY DEF Reading, Enter, AdminTypeOK
  <1>2. \/ wrong' = wrong /\ m.op # "rejected"
        \/ /\ m.user \in Accounts /\ wrong' = [wrong EXCEPT ![m.user] = @ + 1]
           /\ m.op = "rejected"
    BY DEF Reading, Formed
  <1>3. \A u \in Accounts : /\ wrong[u] \in Nat /\ wrong'[u] \in Nat
                            /\ wrong[u] <= wrong'[u]
                            /\ account[u].failed \in Nat
    BY <1>2 DEF AdminTypeOK, Account
  <1>4. CleanSlate'
    <2> SUFFICES ASSUME "restore" \notin raced', NEW u \in Accounts
                 PROVE  /\ account[u].failed <= wrong'[u]
                        /\ account[u].locked => wrong'[u] >= LockAfter
      BY <1>1 DEF CleanSlate
    <2>1. account[u].failed <= wrong[u] /\ (account[u].locked => wrong[u] >= LockAfter)
      BY <1>1 DEF AccountsInv, CleanSlate
    <2> QED BY <1>3, <2>1
  <1>5. ActiveAdmins' = ActiveAdmins
    BY <1>1 DEF ActiveAdmins
  <1>6. LastHeld(req[r])'
    <2>1. m.op \in Administering =>
            /\ m.actor \in ActiveAdmins /\ m.op \in {"update", "active"}
            /\ m.copy = account[m.user] /\ (m.op = "active" => m.value \/ m.user # m.actor)
      BY DEF Reading
    <2> QED BY <1>1, <1>5, <2>1
            DEF LastHeld, Administering, Updating, Deactivating, ActiveAdmins
  <1>7. Counted(req[r])'
    <2> SUFFICES ASSUME "restore" \notin raced'
                 PROVE  /\ m.op \in SigningIn => ~m.copy.locked
                        /\ m.op = "rejected" => m.copy.failed + 1 <= wrong'[m.user]
                        /\ m.op \in Restoring =>
                             /\ m.copy.failed = 0 => account[m.user].failed = 0
                             /\ m.copy.locked = FALSE => ~account[m.user].locked
      BY <1>1 DEF Counted
    <2>1. /\ m.op \in SigningIn \cup Restoring => m.copy = account[m.user]
          /\ m.op \in SigningIn => ~account[m.user].locked
      BY DEF Reading
    <2>2. ASSUME m.op = "rejected" PROVE m.copy.failed + 1 <= wrong'[m.user]
      <3>1. m.user \in Accounts /\ wrong'[m.user] = wrong[m.user] + 1
        BY <1>2, <2>2 DEF AdminTypeOK
      <3>2. account[m.user].failed <= wrong[m.user]
        BY <1>1, <3>1 DEF AccountsInv, CleanSlate
      <3>3. m.copy.failed = account[m.user].failed
        BY <2>1, <2>2 DEF SigningIn
      <3> QED BY <1>3, <3>1, <3>2, <3>3
    <2> QED BY <2>1, <2>2
  <1>8. ASSUME NEW q \in Requests PROVE q = r \/ (req'[q] = req[q] /\ Uncounted(q))
    BY <1>1, <1>3 DEF Uncounted, LinksInv, Formed
  <1> QED BY <1>1, <1>4, <1>5, <1>6, <1>7, <1>8, KeepAccounts

\* As long as no sign-in overlaps a restore, one of them is under way.
LEMMA NoRestore ==
    ASSUME LinksInv, "restore" \notin raced, NEW r \in Requests, NEW q \in Requests,
           req[r].op \in SigningIn
    PROVE  req[q].op \notin Restoring
  <1>1. CASE q = r
    BY <1>1 DEF SigningIn, Restoring
  <1>2. CASE q # r
    <2>1. Apart(q, r)
      BY <1>2 DEF LinksInv
    <2> QED BY <2>1, ConflictSets DEF Apart
  <1> QED BY <1>1, <1>2

LEMMA LoginAccounts ==
    ASSUME AdminTypeOK, AdminTypeOK', LinksInv, AccountsInv,
           NEW r \in Requests, LoginCommit(r)
    PROVE  AccountsInv'
  <1> DEFINE u == req[r].user
             c == req[r].copy
  <1>1. /\ req'[r] = Finished /\ \A q \in Requests \ {r} : req'[q] = req[q]
        /\ raced' = raced /\ wrong' = wrong /\ req[r].op \in SigningIn
    BY LeaveType DEF LoginCommit
  <1>2. /\ u \in Accounts /\ Written(u)
        /\ account'[u].exists = account[u].exists /\ account'[u].active = account[u].active
        /\ account'[u].admin = account[u].admin
        /\ req[r].op = "accepted" /\ ~c.locked =>
             /\ account'[u].failed \in {0, account[u].failed}
             /\ account'[u].locked = account[u].locked
        /\ req[r].op = "rejected" /\ ~c.locked =>
             /\ account'[u].failed = c.failed + 1
             /\ account'[u].locked = IF c.failed + 1 >= LockAfter THEN TRUE
                                     ELSE account[u].locked
    BY LoginRow
  <1>3. "restore" \notin raced => ~c.locked
                                  /\ (req[r].op = "rejected" => c.failed + 1 <= wrong[u])
    BY <1>1 DEF AccountsInv, Counted
  <1>4. \A v \in Accounts : wrong[v] \in Nat /\ account[v].failed \in Nat
    BY DEF AdminTypeOK, Account
  <1>c. c.failed \in Nat
    BY DEF AdminTypeOK, Request, Account
  <1> HIDE DEF u, c
  <1>5. CleanSlate'
    <2> SUFFICES ASSUME "restore" \notin raced, NEW v \in Accounts
                 PROVE  /\ account'[v].failed <= wrong[v]
                        /\ account'[v].locked => wrong[v] >= LockAfter
      BY <1>1 DEF CleanSlate
    <2>0. account[v].failed <= wrong[v] /\ (account[v].locked => wrong[v] >= LockAfter)
      BY DEF AccountsInv, CleanSlate
    <2>1. CASE v # u
      BY <1>2, <2>0, <2>1 DEF Written
    <2>2. CASE v = u /\ req[r].op = "accepted"
      BY <1>2, <1>3, <1>4, <2>0, <2>2
    <2>3. CASE v = u /\ req[r].op = "rejected"
      <3>1. account'[v].failed = c.failed + 1 /\ c.failed + 1 <= wrong[v]
        BY <1>2, <1>3, <2>3
      <3>2. CASE c.failed + 1 >= LockAfter
        BY <1>4, <1>c, <3>1, <3>2
      <3>3. CASE ~ (c.failed + 1 >= LockAfter)
        BY <1>2, <1>3, <2>0, <2>3, <3>1, <3>3
      <3> QED BY <3>2, <3>3
    <2> QED BY <1>1, <2>1, <2>2, <2>3 DEF SigningIn
  <1>6. ActiveAdmins' = ActiveAdmins
    BY <1>2 DEF ActiveAdmins, Written
  <1>7. ASSUME NEW q \in Requests \ {r} PROVE Uncounted(q)
    <2>1. "restore" \notin raced => req[q].op \notin Restoring
      BY <1>1, NoRestore
    <2>2. req[q].op = "rejected" => req[q].user \in Accounts
      BY DEF LinksInv, Formed
    <2> QED BY <1>1, <1>4, <2>1, <2>2 DEF Uncounted
  <1> QED BY <1>1, <1>5, <1>6, <1>7, EndedRequest, KeepAccounts

\* A link or a recovery takes the failures away, and counts afresh.
LEMMA RestoreAccounts ==
    ASSUME AdminTypeOK, AdminTypeOK', LinksInv, AccountsInv,
           NEW r \in Requests, ConsumeCommit(r) \/ RecoverCommit(r)
    PROVE  AccountsInv'
  <1> DEFINE u == req[r].user
             c == req[r].copy
  <1>1. /\ req'[r] = Finished /\ \A q \in Requests \ {r} : req'[q] = req[q]
        /\ raced' = raced /\ wrong' = [wrong EXCEPT ![u] = 0] /\ req[r].op \in Restoring
    BY LeaveType DEF ConsumeCommit, RecoverCommit, Restore, Restoring
  <1>2. /\ u \in Accounts /\ Written(u)
        /\ account'[u].exists = account[u].exists /\ account'[u].admin = account[u].admin
        /\ account[u].active => account'[u].active
        /\ account'[u].failed = IF c.failed = 0 THEN account[u].failed ELSE 0
        /\ account'[u].locked = IF c.locked THEN FALSE ELSE account[u].locked
    BY RestoreRow
  <1>3. ASSUME "restore" \notin raced
        PROVE  account'[u].failed = 0 /\ ~account'[u].locked
    <2>1. c.locked \in BOOLEAN
      BY DEF AdminTypeOK, Request, Account
    <2>2. /\ c.failed = 0 => account[u].failed = 0
          /\ c.locked = FALSE => ~account[u].locked
      BY <1>1, <1>3 DEF AccountsInv, Counted
    <2> HIDE DEF c
    <2> QED BY <1>2, <2>1, <2>2
  <1> HIDE DEF u
  <1>4. CleanSlate'
    <2> SUFFICES ASSUME "restore" \notin raced, NEW v \in Accounts
                 PROVE  /\ account'[v].failed <= wrong'[v]
                        /\ account'[v].locked => wrong'[v] >= LockAfter
      BY <1>1 DEF CleanSlate
    <2>0. account[v].failed <= wrong[v] /\ (account[v].locked => wrong[v] >= LockAfter)
      BY DEF AccountsInv, CleanSlate
    <2>1. CASE v # u
      BY <1>1, <1>2, <2>0, <2>1 DEF Written, AdminTypeOK
    <2>2. CASE v = u
      <3>1. wrong'[v] = 0
        BY <1>1, <2>2 DEF AdminTypeOK
      <3> QED BY <1>3, <2>2, <3>1
    <2> QED BY <2>1, <2>2
  <1>5. ActiveAdmins \subseteq ActiveAdmins'
    BY <1>2 DEF ActiveAdmins, Written
  <1>6. ASSUME NEW q \in Requests \ {r} PROVE Uncounted(q)
    <2>1. "restore" \notin raced => req[q].op \notin SigningIn
      BY <1>1, NoRestore
    <2>2. req[q].op \in Restoring => req[q].user \in Accounts
      BY DEF LinksInv, Formed, Restoring
    <2> QED BY <1>1, <1>2, <1>3, <2>1, <2>2 DEF Uncounted, Written, SigningIn
  <1> QED BY <1>1, <1>4, <1>5, <1>6, EndedRequest, KeepAccounts

\* A new account has no failures, and takes no administrator's place.
LEMMA CreateAccounts ==
    ASSUME AdminTypeOK, AdminTypeOK', LinksInv, AccountsInv,
           NEW r \in Requests, CreateCommit(r)
    PROVE  AccountsInv'
  <1> DEFINE u == req[r].user
  <1>1. /\ req'[r] = Finished /\ \A q \in Requests \ {r} : req'[q] = req[q]
        /\ raced' = raced /\ wrong' = wrong
    BY LeaveType DEF CreateCommit
  <1>2. /\ u \in Accounts /\ Written(u) /\ ~account[u].exists
        /\ account'[u].failed = 0 /\ account'[u].locked = FALSE
    BY CreateRow
  <1>3. \A v \in Accounts : wrong[v] \in Nat
    BY DEF AdminTypeOK
  <1> HIDE DEF u
  <1>4. CleanSlate'
    BY <1>1, <1>2, <1>3 DEF AccountsInv, CleanSlate, Written
  <1>5. ActiveAdmins \subseteq ActiveAdmins'
    BY <1>2 DEF ActiveAdmins, Written
  <1>6. ASSUME NEW q \in Requests \ {r} PROVE Uncounted(q)
    BY <1>1, <1>2, <1>3 DEF Uncounted, Written, LinksInv, Formed, Restoring
  <1> QED BY <1>1, <1>4, <1>5, <1>6, EndedRequest, KeepAccounts

LEMMA SecondAdministrator ==
    ASSUME NEW u, ~ (Cardinality(ActiveAdmins) <= 1)
    PROVE  Another(u)
  <1> SUFFICES ASSUME ~Another(u) PROVE FALSE
    OBVIOUS
  <1>1. ActiveAdmins \subseteq {u}
    BY DEF Another
  <1>2. IsFiniteSet({u}) /\ Cardinality({u}) = 1
    BY FS_Singleton
  <1>3. IsFiniteSet(ActiveAdmins) /\ Cardinality(ActiveAdmins) <= 1
    BY <1>1, <1>2, FS_Subset
  <1> QED BY <1>3

\* A demotion of oneself goes on only if the count found another.
LEMMA CheckAccounts ==
    ASSUME AdminTypeOK, AdminTypeOK', LinksInv, AccountsInv, NEW r \in Requests, Check(r)
    PROVE  AccountsInv'
  <1>1. /\ UNCHANGED <<account, wrong, raced>>
        /\ \A q \in Requests \ {r} : req'[q] = req[q]
    BY CheckStep
  <1>2. ActiveAdmins' = ActiveAdmins
    BY <1>1 DEF ActiveAdmins
  <1>3. LastHeld(req[r])' /\ Counted(req[r])'
    <2>1. CASE req'[r] = Finished
      BY <2>1, EndedRequest
    <2>2. CASE req'[r] # Finished
      <3>1. /\ ~ (NeedsAnother(req[r]) /\ Cardinality(ActiveAdmins) <= 1)
            /\ req'[r].op = IF req[r].op = "update" THEN "update_checked"
                            ELSE "active_checked"
            /\ req[r].op \in {"update", "active"}
            /\ req'[r].actor = req[r].actor /\ req'[r].user = req[r].user
            /\ req'[r].copy = req[r].copy /\ req'[r].value = req[r].value
        BY <2>2, CheckStep
      <3>2. LastHeld(req[r])
        BY DEF AccountsInv
      <3>3. ASSUME "administer" \notin raced, req[r].op = "update", ~req[r].value
            PROVE  Another(req[r].user)
        <4>1. req[r].actor \in ActiveAdmins
          BY <3>2, <3>3 DEF LastHeld, Administering
        <4>2. CASE req[r].user # req[r].actor
          BY <4>1, <4>2 DEF Another
        <4>3. CASE req[r].user = req[r].actor
          <5>1. req[r].copy.admin
            BY <3>2, <3>3, <4>3 DEF LastHeld, Updating
          <5>2. NeedsAnother(req[r])
            BY <3>3, <4>3, <5>1 DEF NeedsAnother
          <5> QED BY <3>1, <5>2, SecondAdministrator
        <4> QED BY <4>2, <4>3
      <3>4. LastHeld(req[r])'
        BY <1>1, <1>2, <3>1, <3>2, <3>3
        DEF LastHeld, Another, Administering, Updating, Deactivating
      <3>5. Counted(req[r])'
        BY <3>1 DEF Counted, SigningIn, Restoring
      <3> QED BY <3>4, <3>5
    <2> QED BY <2>1, <2>2
  <1> QED BY <1>1, <1>3, QuietAccounts

\* A change takes at most the administrator that it is about.
LEMMA ChangeAccounts ==
    ASSUME AdminTypeOK, AdminTypeOK', LinksInv, AccountsInv,
           NEW r \in Requests, UpdateCommit(r) \/ ActiveCommit(r)
    PROVE  AccountsInv'
  <1> DEFINE u == req[r].user
             v == req[r].value
  <1>1. /\ req'[r] = Finished /\ \A q \in Requests \ {r} : req'[q] = req[q]
        /\ raced' = raced /\ wrong' = wrong
        /\ req[r].op \in {"update_checked", "active_checked"}
    BY LeaveType DEF UpdateCommit, ActiveCommit
  <1>2. /\ u \in Accounts /\ Written(u) /\ v \in BOOLEAN
        /\ account'[u].exists = account[u].exists
        /\ account'[u].failed = account[u].failed /\ account'[u].locked = account[u].locked
        /\ account'[u].active = account[u].active \/ account'[u].active = v
        /\ account'[u].admin = account[u].admin \/ account'[u].admin = v
    BY ChangeRow
  <1>3. "administer" \notin raced => v \/ Another(u)
    <2>1. LastHeld(req[r])
      BY DEF AccountsInv
    <2> QED BY <1>1, <2>1 DEF LastHeld, Administering, Deactivating, Another
  <1>w. \A x \in Accounts : wrong[x] \in Nat
    BY DEF AdminTypeOK
  <1> HIDE DEF u, v
  <1>4. CleanSlate'
    BY <1>1, <1>2 DEF AccountsInv, CleanSlate, Written
  <1>5. ASSUME NEW q \in Requests \ {r} PROVE Uncounted(q)
    BY <1>1, <1>2, <1>w DEF Uncounted, Written, LinksInv, Formed, Restoring
  <1>6. CASE v
    <2>1. ActiveAdmins \subseteq ActiveAdmins'
      BY <1>2, <1>6 DEF ActiveAdmins, Written
    <2> QED BY <1>1, <1>4, <1>5, <2>1, EndedRequest, KeepAccounts
  <1>7. CASE ~v
    <2>1. \A a \in ActiveAdmins : a # u => a \in ActiveAdmins'
      BY <1>2 DEF ActiveAdmins, Written
    <2>2. PlatformAdministratorRemains'
      BY <1>1, <1>3, <1>7, <2>1 DEF PlatformAdministratorRemains, Another
    <2>3. ASSUME NEW q \in Requests \ {r}, "administer" \notin raced
          PROVE  req[q].op \notin Administering
      <3>1. Apart(q, r)
        BY DEF LinksInv
      <3> QED BY <1>1, <2>3, <3>1, ConflictSets DEF Apart, Administering
    <2>4. ASSUME NEW q \in Requests PROVE LastHeld(req[q])' /\ Counted(req[q])'
      <3>1. CASE q = r
        BY <1>1, <3>1, EndedRequest
      <3>2. CASE q # r
        <4>1. LastHeld(req[q])'
          BY <1>1, <2>3, <3>2 DEF LastHeld, Administering, Updating, Deactivating
        <4>2. Counted(req[q])'
          BY <1>1, <1>5, <3>2, CountedKept
        <4> QED BY <4>1, <4>2
      <3> QED BY <3>1, <3>2
    <2> QED BY <1>4, <2>2, <2>4 DEF AccountsInv
  <1> QED BY <1>2, <1>6, <1>7

LEMMA NextAccounts ==
    AdminTypeOK /\ AdminTypeOK' /\ LinksInv /\ AccountsInv /\ AdminNext => AccountsInv'
  <1> SUFFICES ASSUME AdminTypeOK, AdminTypeOK', LinksInv, AccountsInv, AdminNext
               PROVE  AccountsInv'
    OBVIOUS
  <1>1. ASSUME NEW r \in Requests, AdminBegin(r) \/ CommandBegin(r) PROVE AccountsInv'
    BY <1>1, Reads, ReadingAccounts
  <1>2. ASSUME NEW r \in Requests, ReissueCommit(r) \/ RollBack(r) PROVE AccountsInv'
    <2>1. UNCHANGED <<account, wrong>> /\ Leave(r)
      BY <1>2 DEF ReissueCommit, RollBack
    <2> QED BY <2>1, LeaveType, EndedRequest, QuietAccounts
  <1>3. ASSUME NEW r \in Requests, AdminEnd(r) PROVE AccountsInv'
    BY <1>2, <1>3, LoginAccounts, RestoreAccounts, CreateAccounts, CheckAccounts,
       ChangeAccounts DEF AdminEnd
  <1>4. ASSUME NEW i \in Invites, Expire(i) PROVE AccountsInv'
    BY <1>4, QuietAccounts DEF Expire
  <1>5. CASE Abandon
    BY <1>5, EndedRequest, QuietAccounts DEF Abandon
  <1> QED BY <1>1, <1>3, <1>4, <1>5 DEF AdminNext

-----------------------------------------------------------------------------
(***************************************************************************)
(* Tenants and the registry.                                               *)
(***************************************************************************)

LifeTypeOK ==
    /\ tenant \in [Slugs -> Tenant]
    /\ bySlug \in [Keys -> Definition] /\ byHost \in [Keys -> Definition]
    /\ call \in [Requests -> Call] /\ disturbed \subseteq Slugs
    /\ process \in {"up", "down", "loading"} /\ toLoad \subseteq Slugs
    /\ created \in 0..MaxTenants /\ restarts \in 0..MaxRestarts
    /\ names \subseteq Slugs \X Hosts

\* What a step does to the tenants.
LifeNext ==
    \/ \E r \in Requests :
         (process = "up" /\ call[r].op = "idle" /\ LifeBegin(r)) \/ LifeStep(r)
    \/ Stop \/ Start \/ Serve
    \/ \E s \in Slugs : LoadTenant(s)
    \/ UNCHANGED lifeVars

LEMMA LifeSteps == [Next]_vars => LifeNext
  BY DEF Next, Arrive, LifeNext, vars, lifeVars

LEMMA CallStep ==
    ASSUME LifeTypeOK, NEW r \in Requests, LifeStep(r), RegistryInv
    PROVE  /\ InFlight(r) /\ process = "up" /\ call[r].slug \in Slugs /\ CallHeld(call[r])
           /\ call[r] \in Call /\ call[r].copy \in Tenant
           /\ tenant[call[r].slug] \in Tenant
  <1>1. InFlight(r)
    BY DEF LifeStep, CreateTenantCommit, ChangeCommit, Refresh, Publish, DeleteCommit,
           Withdraw, Fail, InFlight
  <1> QED BY <1>1 DEF RegistryInv, LifeTypeOK, Call

LEMMA ChangedTenant ==
    ASSUME NEW m \in Call
    PROVE  /\ Changed(m) \in Tenant
           /\ Changed(m).id = m.copy.id /\ Changed(m).host = m.copy.host
  BY DEF Changed, Call, Tenant

LEMMA ProceedType ==
    ASSUME LifeTypeOK, NEW r \in Requests, NEW op \in CallOps, NEW copy \in Tenant,
           Proceed(r, op, copy)
    PROVE  /\ call' \in [Requests -> Call]
           /\ call'[r].op = op /\ call'[r].copy = copy /\ call'[r].slug = call[r].slug
           /\ \A q \in Requests \ {r} : call'[q] = call[q]
  BY DEF LifeTypeOK, Proceed, Call

LEMMA EndCallType ==
    ASSUME LifeTypeOK, NEW r \in Requests, End(r)
    PROVE  /\ call' \in [Requests -> Call] /\ call'[r] = DoneCall
           /\ \A q \in Requests \ {r} : call'[q] = call[q]
  BY RecordTypes DEF LifeTypeOK, End

\* The call that a request makes when it arrives.
LEMMA LifeReads ==
    ASSUME LifeTypeOK, NEW r \in Requests, LifeBegin(r)
    PROVE  \E s \in Slugs, m \in Call :
             /\ m.op \in Uncommitted /\ m.slug = s
             /\ IF m.op = "create" THEN m.copy.host \in Hosts
                ELSE m.copy = tenant[s] /\ Exists(s)
             /\ m.op = "delete" => ~tenant[s].active
             /\ call' = [call EXCEPT ![r] = m]
             /\ disturbed' = disturbed \cup
                  {t \in {s} : \E q \in Requests \ {r} : InFlight(q) /\ call[q].slug = s}
             /\ UNCHANGED <<tenant, Registry, process, toLoad, created, restarts, names>>
  <1> DEFINE Told(s, m) ==
               /\ m.op \in Uncommitted /\ m.slug = s
               /\ IF m.op = "create" THEN m.copy.host \in Hosts
                  ELSE m.copy = tenant[s] /\ Exists(s)
               /\ m.op = "delete" => ~tenant[s].active
               /\ call' = [call EXCEPT ![r] = m]
               /\ disturbed' = disturbed \cup
                    {t \in {s} : \E q \in Requests \ {r} : InFlight(q) /\ call[q].slug = s}
               /\ UNCHANGED <<tenant, Registry, process, toLoad, created, restarts, names>>
  <1> USE RecordTypes
  <1>1. PICK s \in Slugs :
          \/ \E host \in Hosts : CreateTenantRead(r, s, host)
          \/ \E v \in BOOLEAN : UpdateTenantRead(r, s, v) \/ StatusRead(r, s, v)
          \/ DeleteRead(r, s)
    BY DEF LifeBegin
  <1>t. tenant[s] \in Tenant
    BY DEF LifeTypeOK
  <1>2. ASSUME NEW host \in Hosts, CreateTenantRead(r, s, host)
        PROVE  \E m \in Call : Told(s, m)
    <2> DEFINE c == [NoTenant EXCEPT !.host = host]
               k == [IdleCall EXCEPT !.op = "create", !.copy = c]
               m == [k EXCEPT !.slug = s]
    <2>0. c \in Tenant /\ c.host = host
      BY DEF Tenant
    <2>1. k \in Call /\ k.op = "create" /\ k.copy = c
      BY <2>0 DEF Call, CallOps
    <2>2. Begin(r, s, k)
      BY <1>2 DEF CreateTenantRead
    <2> HIDE DEF k
    <2>3. m \in Call /\ m.op = "create" /\ m.slug = s /\ m.copy.host = host
      BY <2>0, <2>1 DEF Call
    <2> QED BY <2>2, <2>3 DEF Begin, Uncommitted, Registry
  <1>3. ASSUME NEW v \in BOOLEAN,
               UpdateTenantRead(r, s, v) \/ StatusRead(r, s, v) \/ DeleteRead(r, s)
        PROVE  \E m \in Call : Told(s, m)
    <2> DEFINE K(k) == /\ k \in Call /\ k.op \in {"update", "status", "delete"}
                       /\ k.copy = tenant[s] /\ Exists(s)
                       /\ (k.op = "delete" => ~tenant[s].active)
                       /\ Begin(r, s, k)
    <2>1. ASSUME UpdateTenantRead(r, s, v) PROVE \E k : K(k)
      <3> DEFINE k == [IdleCall EXCEPT !.op = "update", !.copy = tenant[s], !.value = v]
      <3>1. k \in Call /\ k.op = "update" /\ k.copy = tenant[s]
        BY <1>t DEF Call, CallOps
      <3>2. Begin(r, s, k) /\ Exists(s)
        BY <2>1 DEF UpdateTenantRead
      <3> QED BY <3>1, <3>2
    <2>2. ASSUME StatusRead(r, s, v) PROVE \E k : K(k)
      <3> DEFINE k == [IdleCall EXCEPT !.op = "status", !.copy = tenant[s], !.value = v]
      <3>1. k \in Call /\ k.op = "status" /\ k.copy = tenant[s]
        BY <1>t DEF Call, CallOps
      <3>2. Begin(r, s, k) /\ Exists(s)
        BY <2>2 DEF StatusRead
      <3> QED BY <3>1, <3>2
    <2>3. ASSUME DeleteRead(r, s) PROVE \E k : K(k)
      <3> DEFINE k == [IdleCall EXCEPT !.op = "delete", !.copy = tenant[s]]
      <3>1. k \in Call /\ k.op = "delete" /\ k.copy = tenant[s]
        BY <1>t DEF Call, CallOps
      <3>2. Begin(r, s, k) /\ Exists(s) /\ ~tenant[s].active
        BY <2>3 DEF DeleteRead
      <3> QED BY <3>1, <3>2
    <2>4. PICK k : K(k)
      BY <1>3, <2>1, <2>2, <2>3
    <2> DEFINE m == [k EXCEPT !.slug = s]
    <2>5. m \in Call /\ m.op = k.op /\ m.slug = s /\ m.copy = k.copy
      BY <2>4 DEF Call
    <2> QED BY <2>4, <2>5 DEF Begin, Uncommitted, Registry
  <1>4. \E m \in Call : Told(s, m)
    BY <1>1, <1>2, <1>3
  <1> QED BY <1>4

\* The registry's records.
LEMMA Empty ==
    /\ NoDefinition \in Definition
    /\ NoDefinition.slug = None /\ NoDefinition.row = NoTenant /\ ~NoDefinition.row.active
    /\ EmptyRegistry \in [Keys -> Definition]
    /\ \A k \in Keys : EmptyRegistry[k] = NoDefinition
    /\ \A s \in Slugs : Lower[s] \in Keys
  <1>1. /\ NoDefinition \in Definition
        /\ NoDefinition.slug = None /\ NoDefinition.row = NoTenant
    BY RecordTypes DEF NoDefinition, Definition, Define
  <1> QED BY <1>1, RecordTypes DEF EmptyRegistry, Keys

LEMMA EmptyHolds ==
    /\ bySlug = EmptyRegistry /\ byHost = EmptyRegistry =>
         Owned /\ \A s \in Slugs : Paired(s)
    /\ bySlug' = EmptyRegistry /\ byHost' = EmptyRegistry =>
         Owned' /\ \A s \in Slugs : Paired(s)'
  BY Empty DEF Owned, Paired

\* The hosts that are left are those that the definition under the slug has not.
LEMMA HostsLeft ==
    ASSUME LifeTypeOK, NEW s \in Slugs
    PROVE  /\ HostsWithout(s) \in [Keys -> Definition]
           /\ \A k \in Keys :
                HostsWithout(s)[k] =
                  IF bySlug[Lower[s]] # NoDefinition /\ k = Lower[bySlug[Lower[s]].row.host]
                  THEN NoDefinition ELSE byHost[k]
  BY Empty DEF HostsWithout, LifeTypeOK

LEMMA AddType ==
    ASSUME LifeTypeOK, NEW s \in Slugs, NEW row \in Tenant, Add(Define(s, row))
    PROVE  bySlug' \in [Keys -> Definition] /\ byHost' \in [Keys -> Definition]
  <1>1. Define(s, row) \in Definition /\ Define(s, row).slug = s
    BY DEF Define, Definition
  <1> QED BY <1>1, HostsLeft DEF Add, LifeTypeOK

LEMMA RemoveType ==
    ASSUME LifeTypeOK, NEW s \in Slugs, RemoveBySlug(s)
    PROVE  bySlug' \in [Keys -> Definition] /\ byHost' \in [Keys -> Definition]
  BY Empty, HostsLeft DEF RemoveBySlug, LifeTypeOK

LEMMA LifeType == LifeTypeOK /\ RegistryInv /\ NamesInv /\ LifeNext => LifeTypeOK'
  <1> SUFFICES ASSUME LifeTypeOK, RegistryInv, NamesInv, LifeNext PROVE LifeTypeOK'
    OBVIOUS
  <1> USE RecordTypes
  <1>1. ASSUME NEW r \in Requests, LifeBegin(r) PROVE LifeTypeOK'
    <2>1. PICK s \in Slugs, m \in Call :
            /\ call' = [call EXCEPT ![r] = m]
            /\ disturbed' \subseteq disturbed \cup {s}
            /\ UNCHANGED <<tenant, Registry, process, toLoad, created, restarts, names>>
      BY <1>1, LifeReads
    <2> QED BY <2>1 DEF LifeTypeOK, Registry
  <1>2. ASSUME NEW r \in Requests, LifeStep(r) PROVE LifeTypeOK'
    <2> DEFINE s == call[r].slug
               c == call[r].copy
    <2>0. s \in Slugs /\ c \in Tenant /\ tenant[s] \in Tenant /\ call[r] \in Call
      BY <1>2, CallStep
    <2>1. CASE CreateTenantCommit(r)
      <3> DEFINE new == [id |-> created + 1, active |-> TRUE, renamed |-> FALSE,
                         host |-> c.host]
      <3>1. /\ created < MaxTenants /\ tenant' = [tenant EXCEPT ![s] = new]
            /\ created' = created + 1 /\ Proceed(r, "publish", new)
            /\ names' = names \cup {<<s, c.host>>}
            /\ UNCHANGED <<Registry, process, toLoad, restarts, disturbed>>
            /\ call[r].op = "create"
        BY <2>1 DEF CreateTenantCommit
      <3>2. new \in Tenant /\ created + 1 \in 0..MaxTenants
        BY <2>0, <3>1 DEF Tenant, Ids, LifeTypeOK
      <3> HIDE DEF new
      <3>3. call' \in [Requests -> Call]
        BY <3>1, <3>2, ProceedType DEF CallOps
      <3>4. c.host \in Hosts
        BY <1>2, <3>1 DEF NamesInv, CallRecorded, InFlight
      <3> QED BY <2>0, <3>1, <3>2, <3>3, <3>4 DEF LifeTypeOK, Registry
    <2>2. CASE ChangeCommit(r)
      <3> DEFINE new == Changed(call[r])
      <3>1. /\ tenant' = [tenant EXCEPT ![s] = Flushed(tenant[s], c, new)]
            /\ Proceed(r, "refresh", new)
            /\ UNCHANGED <<Registry, Process, disturbed, names>>
        BY <2>2 DEF ChangeCommit
      <3>2. new \in Tenant
        BY <2>0, ChangedTenant
      <3> HIDE DEF new
      <3>3. Flushed(tenant[s], c, new) \in Tenant
        BY <2>0, <3>2, FlushedTenant
      <3>4. call' \in [Requests -> Call]
        BY <3>1, <3>2, ProceedType DEF CallOps
      <3> QED BY <2>0, <3>1, <3>3, <3>4 DEF LifeTypeOK, Registry, Process
    <2>3. CASE Refresh(r)
      <3>1. call' \in [Requests -> Call]
        BY <2>0, <2>3, ProceedType DEF Refresh, CallOps
      <3> QED BY <2>3, <3>1 DEF Refresh, LifeTypeOK, Registry, Process
    <2>4. CASE Publish(r)
      <3>1. Add(Define(s, c)) /\ End(r) /\ UNCHANGED <<tenant, Process, disturbed, names>>
        BY <2>4 DEF Publish
      <3> QED BY <2>0, <3>1, AddType, EndCallType DEF LifeTypeOK, Process
    <2>5. CASE Withdraw(r)
      <3>1. RemoveBySlug(s) /\ End(r) /\ UNCHANGED <<tenant, Process, disturbed, names>>
        BY <2>5 DEF Withdraw
      <3> QED BY <2>0, <3>1, RemoveType, EndCallType DEF LifeTypeOK, Process
    <2>6. CASE DeleteCommit(r)
      <3>1. tenant' \in [Slugs -> Tenant]
        BY <2>0, <2>6 DEF DeleteCommit, LifeTypeOK
      <3>2. call' \in [Requests -> Call]
        BY <2>0, <2>6, ProceedType DEF DeleteCommit, CallOps
      <3> QED BY <2>6, <3>1, <3>2 DEF DeleteCommit, LifeTypeOK, Registry, Process
    <2>7. CASE Fail(r)
      <3>1. disturbed' \subseteq Slugs
        BY <2>0, <2>7 DEF Fail, LifeTypeOK
      <3> QED BY <2>7, <3>1, EndCallType DEF Fail, LifeTypeOK, Registry, Process
    <2> QED BY <1>2, <2>1, <2>2, <2>3, <2>4, <2>5, <2>6, <2>7 DEF LifeStep
  <1>3. CASE Stop
    <2>1. call' \in [Requests -> Call]
      BY <1>3 DEF Stop, LifeTypeOK
    <2>2. restarts' \in 0..MaxRestarts
      BY <1>3 DEF Stop, LifeTypeOK
    <2> QED BY <1>3, <2>1, <2>2, Empty DEF Stop, LifeTypeOK
  <1>4. CASE Start
    <2>1. names' \subseteq Slugs \X Hosts
      BY <1>4 DEF Start, NamesInv, Recorded, Exists, LifeTypeOK
    <2> QED BY <1>4, <2>1 DEF Start, LifeTypeOK, Registry
  <1>5. CASE Serve
    BY <1>5 DEF Serve, LifeTypeOK, Registry
  <1>6. ASSUME NEW s \in Slugs, LoadTenant(s) PROVE LifeTypeOK'
    <2>1. tenant[s] \in Tenant
      BY DEF LifeTypeOK
    <2> QED BY <1>6, <2>1, AddType DEF LoadTenant, LifeTypeOK
  <1>7. CASE UNCHANGED lifeVars
    BY <1>7 DEF lifeVars, LifeTypeOK
  <1> QED BY <1>1, <1>2, <1>3, <1>4, <1>5, <1>6, <1>7 DEF LifeNext

-----------------------------------------------------------------------------
(***************************************************************************)
(* The two dictionaries of the registry.                                   *)
(***************************************************************************)

\* The names of s and those of another tenant differ in lower case.
LEMMA NamesakesApart ==
    ASSUME NEW s, NoNamesakes(s), NEW t, NEW h, <<t, h>> \in names, t # s
    PROVE  Lower[t] # Lower[s] /\ \A g : <<s, g>> \in names => Lower[g] # Lower[h]
  BY DEF NoNamesakes

LEMMA NamesGrow ==
    ASSUME NEW s, names \subseteq names', NoNamesakes(s)'
    PROVE  NoNamesakes(s)
  BY DEF NoNamesakes

\* Adding a definition of s replaces what the registry held of s, and takes nothing
\* from a tenant that has no namesake.
LEMMA AddStep ==
    ASSUME LifeTypeOK, NamesInv, NEW s \in Slugs, NEW row \in Tenant,
           <<s, row.host>> \in names, Add(Define(s, row)), UNCHANGED names
    PROVE  /\ Owned' /\ (\A t \in Slugs : NoNamesakes(t)' => Paired(t)')
           /\ bySlug'[Lower[s]] = Define(s, row)
           /\ \A t \in Slugs \ {s} : NoNamesakes(t) => bySlug'[Lower[t]] = bySlug[Lower[t]]
  <1> DEFINE d == Define(s, row)
             e == bySlug[Lower[s]]
             hosts == HostsWithout(s)
  <1>1. /\ d.slug = s /\ d.row = row /\ d.row.host = row.host /\ s # None
        /\ row.host \in Hosts /\ Lower[row.host] \in Keys /\ d # NoDefinition
    BY Empty DEF Define, LifeTypeOK, Keys
  <1>2. /\ \A t \in Slugs : Lower[t] \in Keys
        /\ \A h \in Hosts : Lower[h] \in Keys
    BY DEF Keys
  <1> HIDE DEF d
  <1>3. /\ bySlug' = [bySlug EXCEPT ![Lower[s]] = d]
        /\ byHost' = [hosts EXCEPT ![Lower[row.host]] = d]
    BY <1>1 DEF Add, d
  <1>4. /\ hosts \in [Keys -> Definition]
        /\ \A k \in Keys :
             hosts[k] = IF e # NoDefinition /\ k = Lower[e.row.host] THEN NoDefinition
                        ELSE byHost[k]
    BY <1>2, HostsLeft
  <1> HIDE DEF hosts
  <1>5. /\ \A k \in Keys : bySlug'[k] = IF k = Lower[s] THEN d ELSE bySlug[k]
        /\ \A k \in Keys : byHost'[k] = IF k = Lower[row.host] THEN d ELSE hosts[k]
    BY <1>1, <1>2, <1>3, <1>4 DEF LifeTypeOK
  <1>6. Owned'
    <2> SUFFICES ASSUME NEW k \in Keys
                 PROVE  /\ bySlug'[k] # NoDefinition =>
                             /\ <<bySlug'[k].slug, bySlug'[k].row.host>> \in names
                             /\ Lower[bySlug'[k].slug] = k
                        /\ byHost'[k] # NoDefinition =>
                             /\ <<byHost'[k].slug, byHost'[k].row.host>> \in names
                             /\ Lower[byHost'[k].row.host] = k
      BY DEF Owned
    <2>1. Owned
      BY DEF NamesInv
    <2>3. bySlug'[k] # NoDefinition =>
            /\ <<bySlug'[k].slug, bySlug'[k].row.host>> \in names
            /\ Lower[bySlug'[k].slug] = k
      BY <1>1, <1>5, <2>1 DEF Owned
    <2>4. byHost'[k] # NoDefinition =>
            /\ <<byHost'[k].slug, byHost'[k].row.host>> \in names
            /\ Lower[byHost'[k].row.host] = k
      <3>1. CASE k = Lower[row.host]
        BY <1>1, <1>5, <3>1
      <3>2. CASE k # Lower[row.host]
        BY <1>4, <1>5, <2>1, <3>2 DEF Owned
      <3> QED BY <3>1, <3>2
    <2> QED BY <2>3, <2>4
  <1>7. ASSUME NEW t \in Slugs \ {s}, NoNamesakes(t)
        PROVE  bySlug'[Lower[t]] = bySlug[Lower[t]] /\ Paired(t)'
    <2>1. /\ Lower[s] # Lower[t]
          /\ \A g : <<t, g>> \in names => Lower[g] # Lower[row.host]
      BY <1>7, NamesakesApart
    <2>2. bySlug'[Lower[t]] = bySlug[Lower[t]]
      BY <1>2, <1>5, <2>1
    <2>3. Owned /\ Paired(t)
      BY <1>7 DEF NamesInv
    <2>4. e # NoDefinition => /\ <<e.slug, e.row.host>> \in names /\ Lower[e.slug] = Lower[s]
                              /\ e.slug # t
      BY <1>2, <2>1, <2>3 DEF Owned
    <2>5. e # NoDefinition => \A g : <<t, g>> \in names => Lower[g] # Lower[e.row.host]
      BY <1>7, <2>4, NamesakesApart
    <2> DEFINE f == bySlug[Lower[t]]
    <2>6. f # NoDefinition => /\ f.slug = t /\ <<t, f.row.host>> \in names
                              /\ f.row.host \in Hosts
      <3>1. f # NoDefinition => <<f.slug, f.row.host>> \in names /\ Lower[f.slug] = Lower[t]
        BY <1>2, <2>3 DEF Owned
      <3>2. f # NoDefinition => f.slug = t
        BY <1>7, <3>1, NamesakesApart
      <3> QED BY <3>1, <3>2 DEF LifeTypeOK
    <2>7. f # NoDefinition => byHost'[Lower[f.row.host]] = f
      BY <1>2, <1>4, <1>5, <2>1, <2>3, <2>5, <2>6 DEF Paired
    <2>8. ASSUME NEW k \in Keys, byHost'[k].slug = t PROVE byHost'[k] = f
      BY <1>1, <1>4, <1>5, <2>3, <2>8, Empty DEF Paired
    <2> QED BY <2>2, <2>7, <2>8 DEF Paired
  <1>8. ASSUME NoNamesakes(s) PROVE Paired(s)'
    <2>1. Owned /\ Paired(s)
      BY <1>8 DEF NamesInv
    <2>2. byHost'[Lower[row.host]] = d /\ bySlug'[Lower[s]] = d
      BY <1>1, <1>2, <1>5
    <2>3. ASSUME NEW k \in Keys, byHost'[k].slug = s, byHost'[k] # d PROVE FALSE
      <3>1. byHost'[k] = hosts[k] /\ hosts[k].slug = s
        BY <1>5, <2>3
      <3>2. hosts[k] = byHost[k] /\ byHost[k] # NoDefinition
        BY <1>1, <1>4, <3>1, Empty
      <3>3. byHost[k] = e /\ Lower[byHost[k].row.host] = k
        BY <2>1, <3>1, <3>2 DEF Paired, Owned
      <3> QED BY <1>1, <1>4, <3>1, <3>2, <3>3, Empty
    <2> QED BY <1>1, <2>2, <2>3 DEF Paired
  <1>9. \A t \in Slugs : NoNamesakes(t)' => NoNamesakes(t)
    BY NamesGrow
  <1> QED BY <1>2, <1>5, <1>6, <1>7, <1>8, <1>9 DEF d

\* Removing what the slug of s names leaves nothing of s, nor takes anything from
\* a tenant that has no namesake.
LEMMA RemoveStep ==
    ASSUME LifeTypeOK, NamesInv, NEW s \in Slugs, NEW h, <<s, h>> \in names,
           RemoveBySlug(s), UNCHANGED names
    PROVE  /\ Owned' /\ (\A t \in Slugs : NoNamesakes(t)' => Paired(t)')
           /\ bySlug'[Lower[s]] = NoDefinition
           /\ \A t \in Slugs \ {s} : NoNamesakes(t) => bySlug'[Lower[t]] = bySlug[Lower[t]]
  <1> DEFINE e == bySlug[Lower[s]]
  <1>1. /\ \A t \in Slugs : Lower[t] \in Keys
        /\ \A g \in Hosts : Lower[g] \in Keys
        /\ s # None
    BY DEF Keys
  <1>2. /\ \A k \in Keys : bySlug'[k] = IF k = Lower[s] THEN NoDefinition ELSE bySlug[k]
        /\ \A k \in Keys :
             byHost'[k] = IF e # NoDefinition /\ k = Lower[e.row.host] THEN NoDefinition
                          ELSE byHost[k]
    BY <1>1, HostsLeft DEF RemoveBySlug, LifeTypeOK
  <1>3. Owned'
    <2> SUFFICES ASSUME NEW k \in Keys
                 PROVE  /\ bySlug'[k] # NoDefinition =>
                             /\ <<bySlug'[k].slug, bySlug'[k].row.host>> \in names
                             /\ Lower[bySlug'[k].slug] = k
                        /\ byHost'[k] # NoDefinition =>
                             /\ <<byHost'[k].slug, byHost'[k].row.host>> \in names
                             /\ Lower[byHost'[k].row.host] = k
      BY DEF Owned
    <2>1. Owned
      BY DEF NamesInv
    <2> QED BY <1>2, <2>1 DEF Owned
  <1>4. ASSUME NEW t \in Slugs \ {s}, NoNamesakes(t)
        PROVE  bySlug'[Lower[t]] = bySlug[Lower[t]] /\ Paired(t)'
    <2>1. Lower[s] # Lower[t]
      BY <1>4, NamesakesApart
    <2>2. bySlug'[Lower[t]] = bySlug[Lower[t]]
      BY <1>1, <1>2, <2>1
    <2>3. Owned /\ Paired(t)
      BY <1>4 DEF NamesInv
    <2>4. e # NoDefinition => /\ <<e.slug, e.row.host>> \in names /\ Lower[e.slug] = Lower[s]
                              /\ e.slug # t
      BY <1>1, <2>1, <2>3 DEF Owned
    <2>5. e # NoDefinition => \A g : <<t, g>> \in names => Lower[g] # Lower[e.row.host]
      BY <1>4, <2>4, NamesakesApart
    <2> DEFINE f == bySlug[Lower[t]]
    <2>6. f # NoDefinition => /\ f.slug = t /\ <<t, f.row.host>> \in names
                              /\ f.row.host \in Hosts
      <3>1. f # NoDefinition => <<f.slug, f.row.host>> \in names /\ Lower[f.slug] = Lower[t]
        BY <1>1, <2>3 DEF Owned
      <3>2. f # NoDefinition => f.slug = t
        BY <1>4, <3>1, NamesakesApart
      <3> QED BY <3>1, <3>2 DEF LifeTypeOK
    <2>7. f # NoDefinition => byHost'[Lower[f.row.host]] = f
      BY <1>1, <1>2, <2>3, <2>5, <2>6 DEF Paired
    <2>8. ASSUME NEW k \in Keys, byHost'[k].slug = t PROVE byHost'[k] = f
      BY <1>2, <2>3, <2>8, Empty DEF Paired
    <2> QED BY <2>2, <2>7, <2>8 DEF Paired
  <1>5. ASSUME NoNamesakes(s) PROVE Paired(s)'
    <2>1. Owned /\ Paired(s)
      BY <1>5 DEF NamesInv
    <2>2. bySlug'[Lower[s]] = NoDefinition
      BY <1>1, <1>2
    <2>3. ASSUME NEW k \in Keys, byHost'[k].slug = s PROVE FALSE
      <3>1. byHost'[k] = byHost[k] /\ byHost[k] # NoDefinition
        BY <1>1, <1>2, <2>3, Empty
      <3>2. byHost[k] = e /\ Lower[byHost[k].row.host] = k
        BY <2>1, <2>3, <3>1 DEF Paired, Owned
      <3> QED BY <1>1, <1>2, <2>3, <3>1, <3>2, Empty
    <2> QED BY <2>2, <2>3 DEF Paired
  <1>6. \A t \in Slugs : NoNamesakes(t)' => NoNamesakes(t)
    BY NamesGrow
  <1> QED BY <1>1, <1>2, <1>3, <1>4, <1>5, <1>6

\* A tenant without namesakes resolves by all its names as it does by its slug.
LEMMA AgreeResolves ==
    ASSUME LifeTypeOK, Owned, NEW s \in Slugs, Paired(s), Agree(s),
           tenant[s] # NoTenant => Recorded(s, tenant[s])
    PROVE  ResolvesAsStored(s)
  <1> DEFINE d == bySlug[Lower[s]]
  <1>1. /\ Enabled(d) = Expected(s) /\ s # None /\ tenant[s] \in Tenant
        /\ Lower[s] \in Keys /\ d \in Definition
    BY DEF Agree, ResolveFromSlug, LifeTypeOK, Keys
  <1>2. CASE tenant[s].active
    <2>1. d = Define(s, tenant[s]) /\ d # NoDefinition /\ d.row = tenant[s]
      BY <1>1, <1>2, Empty DEF Expected, Enabled, Define
    <2>2. tenant[s].host \in Hosts
      BY <1>2, RecordTypes DEF Recorded, LifeTypeOK
    <2>3. ResolveFromHost(tenant[s].host) = Expected(s)
      BY <1>2, <2>1 DEF Paired, ResolveFromHost, Enabled, Expected
    <2>4. ASSUME NEW h \in Hosts, ResolveFromHost(h).slug = s
          PROVE  Lower[h] = Lower[tenant[s].host]
      <3>1. Lower[h] \in Keys
        BY DEF Keys
      <3>2. byHost[Lower[h]].slug = s /\ byHost[Lower[h]] # NoDefinition
        BY <1>1, <2>4, Empty DEF ResolveFromHost, Enabled
      <3>3. byHost[Lower[h]] = d
        BY <3>1, <3>2 DEF Paired
      <3> QED BY <2>1, <3>1, <3>2, <3>3 DEF Owned
    <2> QED BY <1>2, <2>3, <2>4 DEF ResolvesAsStored, Agree
  <1>3. CASE ~tenant[s].active
    <2>1. ~d.row.active
      <3>1. Enabled(d) = NoDefinition
        BY <1>1, <1>3 DEF Expected
      <3> QED BY <3>1, Empty DEF Enabled
    <2>2. ASSUME NEW h \in Hosts PROVE ResolveFromHost(h).slug # s
      <3>1. Lower[h] \in Keys
        BY DEF Keys
      <3>2. byHost[Lower[h]].slug = s => ResolveFromHost(h) = NoDefinition
        BY <2>1, <3>1 DEF Paired, ResolveFromHost, Enabled
      <3> QED BY <1>1, <3>2, Empty DEF ResolveFromHost, Enabled
    <2> QED BY <1>3, <2>2 DEF ResolvesAsStored, Agree
  <1> QED BY <1>2, <1>3

\* What is held or stored changes only as these say.
LEMMA KeepNames ==
    ASSUME NamesInv, names \subseteq names',
           Owned', \A s \in Slugs : NoNamesakes(s)' => Paired(s)',
           \A s \in Slugs : tenant'[s] \in {tenant[s], NoTenant} \/ Recorded(s, tenant[s])',
           \A r \in Requests : call'[r] = call[r] \/ ~InFlight(r)' \/ CallRecorded(call[r])'
    PROVE  NamesInv'
  BY DEF NamesInv, Recorded, CallRecorded, InFlight

LEMMA KeepRegistry ==
    ASSUME NamesInv, UNCHANGED Registry, names \subseteq names'
    PROVE  Owned' /\ (\A s \in Slugs : NoNamesakes(s)' => Paired(s)')
  <1>1. \A s \in Slugs : NoNamesakes(s)' => NoNamesakes(s)
    BY NamesGrow
  <1>2. Owned'
    BY DEF Registry, NamesInv, Owned
  <1>3. \A s \in Slugs : Paired(s)' <=> Paired(s)
    BY DEF Registry, Paired
  <1> QED BY <1>1, <1>2, <1>3 DEF NamesInv

\* A definition is published under a slug and a host that its tenant has had, and
\* the history of these only grows while the registry lives.
LEMMA NextNames == LifeTypeOK /\ RegistryInv /\ NamesInv /\ LifeNext => NamesInv'
  <1> SUFFICES ASSUME LifeTypeOK, RegistryInv, NamesInv, LifeNext PROVE NamesInv'
    OBVIOUS
  <1> USE RecordTypes
  <1>1. ASSUME NEW r \in Requests, LifeBegin(r) PROVE NamesInv'
    <2>1. PICK s \in Slugs, m \in Call :
             /\ m.op \in Uncommitted /\ m.slug = s
             /\ IF m.op = "create" THEN m.copy.host \in Hosts
                ELSE m.copy = tenant[s] /\ Exists(s)
             /\ call' = [call EXCEPT ![r] = m]
             /\ UNCHANGED <<tenant, Registry, process, toLoad, created, restarts, names>>
      BY <1>1, LifeReads
    <2>2. m.op # "create" => Recorded(s, tenant[s])
      BY <2>1 DEF NamesInv, Exists
    <2>3. call'[r] = m /\ \A q \in Requests \ {r} : call'[q] = call[q]
      BY <2>1 DEF LifeTypeOK
    <2>4. CallRecorded(call[r])'
      BY <2>1, <2>2, <2>3 DEF CallRecorded, Recorded
    <2> QED BY <2>1, <2>3, <2>4, KeepNames, KeepRegistry
  <1>2. ASSUME NEW r \in Requests, LifeStep(r) PROVE NamesInv'
    <2> DEFINE c == call[r].copy
    <2>0. PICK s \in Slugs :
            /\ s = call[r].slug /\ c \in Tenant /\ tenant[s] \in Tenant /\ call[r] \in Call
            /\ CallRecorded(call[r])
      BY <1>2, CallStep DEF NamesInv
    <2>1. CASE CreateTenantCommit(r)
      <3> DEFINE new == [id |-> created + 1, active |-> TRUE, renamed |-> FALSE,
                         host |-> c.host]
      <3>1. /\ created < MaxTenants /\ tenant' = [tenant EXCEPT ![s] = new]
            /\ Proceed(r, "publish", new) /\ names' = names \cup {<<s, c.host>>}
            /\ UNCHANGED Registry
        BY <2>0, <2>1 DEF CreateTenantCommit
      <3>2. new \in Tenant /\ new.id # 0 /\ new.host = c.host
        BY <2>0, <3>1 DEF Tenant, Ids, LifeTypeOK
      <3> HIDE DEF new
      <3>3. /\ call'[r].op = "publish" /\ call'[r].copy = new /\ call'[r].slug = s
            /\ \A q \in Requests \ {r} : call'[q] = call[q]
        BY <2>0, <3>1, <3>2, ProceedType DEF CallOps
      <3>4. tenant'[s] = new /\ \A t \in Slugs \ {s} : tenant'[t] = tenant[t]
        BY <2>0, <3>1 DEF LifeTypeOK
      <3>5. Recorded(s, tenant[s])' /\ CallRecorded(call[r])'
        BY <3>1, <3>2, <3>3, <3>4 DEF Recorded, CallRecorded
      <3> QED BY <3>1, <3>3, <3>4, <3>5, KeepNames, KeepRegistry
    <2>2. CASE ChangeCommit(r)
      <3> DEFINE new == Changed(call[r])
      <3>1. /\ tenant' = [tenant EXCEPT ![s] = Flushed(tenant[s], c, new)]
            /\ Proceed(r, "refresh", new) /\ SameRow(r) /\ call[r].op # "create"
            /\ UNCHANGED <<Registry, names>>
        BY <2>0, <2>2 DEF ChangeCommit
      <3>2. new \in Tenant /\ new.id = c.id /\ new.host = c.host
        BY <2>0, ChangedTenant
      <3> HIDE DEF new
      <3>3. /\ call'[r].op = "refresh" /\ call'[r].copy = new /\ call'[r].slug = s
            /\ \A q \in Requests \ {r} : call'[q] = call[q]
        BY <2>0, <3>1, <3>2, ProceedType DEF CallOps
      <3>4. Recorded(s, c) /\ tenant[s].id = c.id
        BY <2>0, <3>1 DEF CallRecorded, SameRow
      <3>5. Recorded(s, tenant[s])
        BY <2>0, <3>4 DEF NamesInv, Recorded
      <3>6. /\ tenant'[s] = Flushed(tenant[s], c, new)
            /\ \A t \in Slugs \ {s} : tenant'[t] = tenant[t]
        BY <2>0, <3>1 DEF LifeTypeOK
      <3>7. tenant'[s].id = tenant[s].id /\ tenant'[s].host = tenant[s].host
        BY <2>0, <3>2, <3>6, FlushedTenant
      <3>8. Recorded(s, tenant[s])' /\ CallRecorded(call[r])'
        BY <3>1, <3>2, <3>3, <3>4, <3>5, <3>7 DEF Recorded, CallRecorded
      <3> QED BY <3>1, <3>3, <3>6, <3>8, KeepNames, KeepRegistry
    <2>3. CASE Refresh(r)
      <3>1. /\ call'[r].op = "publish" /\ call'[r].copy = tenant[s] /\ call'[r].slug = s
            /\ \A q \in Requests \ {r} : call'[q] = call[q]
        BY <2>0, <2>3, ProceedType DEF Refresh, CallOps
      <3>2. /\ UNCHANGED <<tenant, Registry, names>> /\ SameRow(r)
            /\ call[r].op = "refresh"
        BY <2>0, <2>3 DEF Refresh
      <3>3. Recorded(s, tenant[s])
        BY <2>0, <3>2 DEF NamesInv, Recorded, CallRecorded, SameRow
      <3>4. CallRecorded(call[r])'
        BY <3>1, <3>2, <3>3 DEF Recorded, CallRecorded
      <3> QED BY <3>1, <3>2, <3>4, KeepNames, KeepRegistry
    <2>4. CASE Publish(r)
      <3>1. /\ Add(Define(s, c)) /\ End(r) /\ UNCHANGED <<tenant, names>>
            /\ call[r].op = "publish"
        BY <2>0, <2>4 DEF Publish
      <3>2. <<s, c.host>> \in names
        BY <2>0, <3>1 DEF CallRecorded, Recorded
      <3>3. Owned' /\ (\A t \in Slugs : NoNamesakes(t)' => Paired(t)')
        BY <2>0, <3>1, <3>2, AddStep
      <3>4. ~InFlight(r)' /\ \A q \in Requests \ {r} : call'[q] = call[q]
        BY <3>1, EndCallType DEF InFlight
      <3> QED BY <3>1, <3>3, <3>4, KeepNames
    <2>5. CASE DeleteCommit(r)
      <3>1. /\ call'[r].op = "withdraw" /\ call'[r].slug = s /\ call'[r].copy = c
            /\ \A q \in Requests \ {r} : call'[q] = call[q]
        BY <2>0, <2>5, ProceedType DEF DeleteCommit, CallOps
      <3>2. /\ UNCHANGED <<Registry, names>> /\ call[r].op = "delete"
            /\ tenant' \in {[tenant EXCEPT ![s] = NoTenant], tenant}
        BY <2>0, <2>5 DEF DeleteCommit
      <3>3. CallRecorded(call[r])'
        BY <2>0, <3>1, <3>2 DEF CallRecorded, Recorded
      <3>4. \A t \in Slugs : tenant'[t] \in {tenant[t], NoTenant}
        BY <2>0, <3>2 DEF LifeTypeOK
      <3> QED BY <3>1, <3>2, <3>3, <3>4, KeepNames, KeepRegistry
    <2>6. CASE Withdraw(r)
      <3>1. /\ RemoveBySlug(s) /\ End(r) /\ UNCHANGED <<tenant, names>>
            /\ call[r].op = "withdraw"
        BY <2>0, <2>6 DEF Withdraw
      <3>2. <<s, c.host>> \in names
        BY <2>0, <3>1 DEF CallRecorded, Recorded
      <3>3. Owned' /\ (\A t \in Slugs : NoNamesakes(t)' => Paired(t)')
        BY <2>0, <3>1, <3>2, RemoveStep
      <3>4. ~InFlight(r)' /\ \A q \in Requests \ {r} : call'[q] = call[q]
        BY <3>1, EndCallType DEF InFlight
      <3> QED BY <3>1, <3>3, <3>4, KeepNames
    <2>7. CASE Fail(r)
      <3>1. UNCHANGED <<tenant, Registry, names>> /\ End(r)
        BY <2>7 DEF Fail
      <3>2. ~InFlight(r)' /\ \A q \in Requests \ {r} : call'[q] = call[q]
        BY <3>1, EndCallType DEF InFlight
      <3> QED BY <3>1, <3>2, KeepNames, KeepRegistry
    <2> QED BY <1>2, <2>1, <2>2, <2>3, <2>4, <2>5, <2>6, <2>7 DEF LifeStep
  <1>3. CASE Stop
    <2>1. Owned' /\ (\A s \in Slugs : Paired(s)')
      BY <1>3, EmptyHolds DEF Stop
    <2>2. \A r \in Requests : ~InFlight(r)'
      BY <1>3 DEF Stop, InFlight
    <2> QED BY <1>3, <2>1, <2>2, KeepNames DEF Stop
  <1>4. CASE Start
    <2>1. /\ names' = {<<s, tenant[s].host>> : s \in {t \in Slugs : Exists(t)}}
          /\ UNCHANGED <<tenant, call>>
          /\ bySlug' = EmptyRegistry /\ byHost' = EmptyRegistry
          /\ \A r \in Requests : ~InFlight(r)
      BY <1>4 DEF Start, Registry, RegistryInv
    <2>2. Owned' /\ (\A s \in Slugs : Paired(s)')
      BY <2>1, EmptyHolds
    <2>3. \A s \in Slugs : tenant[s] # NoTenant => Recorded(s, tenant[s])'
      BY <2>1 DEF NamesInv, Recorded, Exists
    <2> QED BY <2>1, <2>2, <2>3 DEF NamesInv, InFlight
  <1>5. CASE Serve \/ UNCHANGED lifeVars
    <2>1. UNCHANGED <<tenant, call, Registry, names>>
      BY <1>5 DEF Serve, lifeVars, Registry
    <2> QED BY <2>1, KeepNames, KeepRegistry
  <1>6. ASSUME NEW s \in Slugs, LoadTenant(s) PROVE NamesInv'
    <2>1. /\ Add(Define(s, tenant[s])) /\ UNCHANGED <<tenant, call, names>>
          /\ tenant[s].active /\ tenant[s] \in Tenant
      BY <1>6 DEF LoadTenant, RegistryInv, LifeTypeOK
    <2>2. <<s, tenant[s].host>> \in names
      BY <2>1 DEF NamesInv, Recorded
    <2>3. Owned' /\ (\A t \in Slugs : NoNamesakes(t)' => Paired(t)')
      BY <2>1, <2>2, AddStep
    <2> QED BY <2>1, <2>3, KeepNames
  <1> QED BY <1>1, <1>2, <1>3, <1>4, <1>5, <1>6 DEF LifeNext

-----------------------------------------------------------------------------
(***************************************************************************)
(* The row and the registry.                                               *)
(***************************************************************************)

\* A step of the call of r, about slug s.
LEMMA MoveStep ==
    ASSUME RegistryInv, NEW r \in Requests, NEW s \in Slugs,
           \A q \in Requests \ {r} : call'[q] = call[q],
           disturbed \subseteq disturbed', process = "up", process' = "up",
           names \subseteq names',
           \A t \in Slugs \ {s} : tenant'[t] = tenant[t],
           \A t \in Slugs \ {s} : NoNamesakes(t) => bySlug'[Lower[t]] = bySlug[Lower[t]],
           \A q \in Requests \ {r} : InFlight(q) /\ call[q].slug = s => s \in disturbed',
           InFlight(r) => call[r].slug = s,
           \/ /\ call'[r].op = "done" /\ call'[r].slug = None
              /\ s \notin disturbed' /\ NoNamesakes(s)' => Agree(s)'
           \/ InFlight(r)' /\ call'[r].slug = s /\ CallHeld(call[r])'
    PROVE  RegistryInv'
  <1>0. \A t \in Slugs : NoNamesakes(t)' => NoNamesakes(t)
    BY NamesGrow
  <1>1. \A t \in Slugs \ {s} : NoNamesakes(t)' => (Agree(t)' <=> Agree(t))
    BY <1>0 DEF Agree, ResolveFromSlug, Enabled, Expected
  <1>2. \A q \in Requests \ {r} : InFlight(q)' <=> InFlight(q)
    BY DEF InFlight
  <1>3. ASSUME NEW q \in Requests
        PROVE  /\ InFlight(q)' => call'[q].slug \in Slugs /\ CallHeld(call[q])'
               /\ ~InFlight(q)' => call'[q].slug = None
    <2>1. CASE q = r
      BY <2>1 DEF InFlight
    <2>2. CASE q # r /\ ~InFlight(q)
      BY <1>2, <2>2 DEF RegistryInv
    <2>3. CASE q # r /\ InFlight(q)
      <3>1. call[q].slug \in Slugs /\ CallHeld(call[q]) /\ call'[q] = call[q]
        BY <2>3 DEF RegistryInv
      <3>2. CASE call[q].slug = s
        <4>1. s \in disturbed'
          BY <2>3, <3>2
        <4> QED BY <1>2, <2>3, <3>1, <3>2, <4>1 DEF CallHeld
      <3>3. CASE call[q].slug # s
        BY <1>0, <1>1, <1>2, <2>3, <3>1, <3>3 DEF CallHeld
      <3> QED BY <3>2, <3>3
    <2> QED BY <2>1, <2>2, <2>3
  <1>4. ASSUME NEW p \in Requests, NEW q \in Requests, p # q, InFlight(p)', InFlight(q)',
               call'[p].slug = call'[q].slug
        PROVE  call'[p].slug \in disturbed'
    <2>1. CASE p # r /\ q # r
      BY <1>2, <1>4, <2>1 DEF RegistryInv
    <2>2. CASE p = r \/ q = r
      BY <1>2, <1>4, <2>2 DEF InFlight
    <2> QED BY <2>1, <2>2
  <1>5. ASSUME NEW t \in Slugs \ disturbed', NoNamesakes(t)',
               \A q \in Requests : InFlight(q)' => call'[q].slug # t
        PROVE  Agree(t)'
    <2>1. CASE t = s
      BY <1>5, <2>1
    <2>2. CASE t # s
      BY <1>0, <1>1, <1>2, <1>5, <2>2 DEF RegistryInv
    <2> QED BY <2>1, <2>2
  <1> QED BY <1>3, <1>4, <1>5 DEF RegistryInv

\* While a call is alone on its slug its copy is the row, and what it has not
\* yet published is the only difference between the table and the registry.
LEMMA NextRegistry == LifeTypeOK /\ RegistryInv /\ NamesInv /\ LifeNext => RegistryInv'
  <1> SUFFICES ASSUME LifeTypeOK, RegistryInv, NamesInv, LifeNext PROVE RegistryInv'
    OBVIOUS
  <1> USE RecordTypes
  <1>1. ASSUME NEW r \in Requests, process = "up", call[r].op = "idle", LifeBegin(r)
        PROVE  RegistryInv'
    <2>1. PICK s \in Slugs, m \in Call :
             /\ m.op \in Uncommitted /\ m.slug = s
             /\ m.op # "create" => m.copy = tenant[s]
             /\ m.op = "delete" => ~tenant[s].active
             /\ call' = [call EXCEPT ![r] = m]
             /\ disturbed' = disturbed \cup
                  {t \in {s} : \E q \in Requests \ {r} : InFlight(q) /\ call[q].slug = s}
             /\ UNCHANGED <<tenant, Registry, process, toLoad, created, restarts, names>>
      BY <1>1, LifeReads
    <2>2. /\ call'[r] = m /\ \A q \in Requests \ {r} : call'[q] = call[q]
          /\ disturbed \subseteq disturbed' /\ ~InFlight(r)
      BY <1>1, <2>1 DEF LifeTypeOK, InFlight
    <2>3. \A q \in Requests \ {r} : InFlight(q) /\ call[q].slug = s => s \in disturbed'
      BY <2>1
    <2>4. s \notin disturbed' /\ NoNamesakes(s)' => Agree(s)'
      <3>1. ASSUME s \notin disturbed', NoNamesakes(s) PROVE Agree(s)
        BY <1>1, <2>2, <2>3, <3>1 DEF RegistryInv
      <3> QED BY <2>1, <3>1, NamesGrow
              DEF Agree, ResolveFromSlug, Enabled, Expected, Registry
    <2>5. CallHeld(call[r])' /\ InFlight(r)'
      BY <2>1, <2>2, <2>4 DEF CallHeld, Uncommitted, InFlight
    <2> QED BY <1>1, <2>1, <2>2, <2>3, <2>5, MoveStep DEF Registry
  <1>2. ASSUME NEW r \in Requests, LifeStep(r) PROVE RegistryInv'
    <2> DEFINE c == call[r].copy
    <2>0. PICK s \in Slugs :
            /\ s = call[r].slug /\ c \in Tenant /\ tenant[s] \in Tenant /\ call[r] \in Call
            /\ InFlight(r) /\ process = "up" /\ CallHeld(call[r]) /\ CallRecorded(call[r])
      BY <1>2, CallStep DEF NamesInv
    <2>a. \A q \in Requests \ {r} : InFlight(q) /\ call[q].slug = s => s \in disturbed
      BY <2>0 DEF RegistryInv
    <2>m. ASSUME \A q \in Requests \ {r} : call'[q] = call[q],
                 disturbed \subseteq disturbed', process' = process, names \subseteq names',
                 \A t \in Slugs \ {s} : tenant'[t] = tenant[t],
                 \A t \in Slugs \ {s} : NoNamesakes(t) => bySlug'[Lower[t]] = bySlug[Lower[t]],
                 \/ call'[r] = DoneCall /\ (s \notin disturbed' /\ NoNamesakes(s)' => Agree(s)')
                 \/ InFlight(r)' /\ call'[r].slug = s /\ CallHeld(call[r])'
          PROVE  RegistryInv'
      BY <2>0, <2>a, <2>m, MoveStep
    <2>1. CASE CreateTenantCommit(r)
      <3> DEFINE new == [id |-> created + 1, active |-> TRUE, renamed |-> FALSE,
                         host |-> c.host]
      <3>1. /\ created < MaxTenants /\ tenant' = [tenant EXCEPT ![s] = new]
            /\ Proceed(r, "publish", new) /\ names \subseteq names'
            /\ bySlug' = bySlug /\ UNCHANGED <<process, disturbed>>
        BY <2>0, <2>1 DEF CreateTenantCommit, Registry
      <3>2. new \in Tenant
        BY <2>0, <3>1 DEF Tenant, Ids, LifeTypeOK
      <3> HIDE DEF new
      <3>3. /\ call'[r].op = "publish" /\ call'[r].copy = new /\ call'[r].slug = s
            /\ \A q \in Requests \ {r} : call'[q] = call[q]
        BY <2>0, <3>1, <3>2, ProceedType DEF CallOps
      <3>4. /\ tenant'[s] = new
            /\ \A t \in Slugs \ {s} : tenant'[t] = tenant[t]
        BY <2>0, <3>1 DEF LifeTypeOK
      <3>5. CallHeld(call[r])' /\ InFlight(r)'
        BY <2>0, <3>3, <3>4 DEF CallHeld, Uncommitted, InFlight
      <3> QED BY <2>m, <3>1, <3>3, <3>4, <3>5
    <2>2. CASE ChangeCommit(r)
      <3> DEFINE new == Changed(call[r])
      <3>1. /\ tenant' = [tenant EXCEPT ![s] = Flushed(tenant[s], c, new)]
            /\ Proceed(r, "refresh", new)
            /\ bySlug' = bySlug /\ UNCHANGED <<process, disturbed, names>>
            /\ call[r].op \in {"update", "status"}
        BY <2>0, <2>2 DEF ChangeCommit, Registry, Process
      <3>2. new \in Tenant
        BY <2>0, ChangedTenant
      <3> HIDE DEF new
      <3>3. tenant[s] = c => Flushed(tenant[s], c, new) = new
        BY <2>0, <3>2, FlushedTenant
      <3>4. /\ call'[r].op = "refresh" /\ call'[r].copy = new /\ call'[r].slug = s
            /\ \A q \in Requests \ {r} : call'[q] = call[q]
        BY <2>0, <3>1, <3>2, ProceedType DEF CallOps
      <3>5. /\ tenant'[s] = Flushed(tenant[s], c, new)
            /\ \A t \in Slugs \ {s} : tenant'[t] = tenant[t]
        BY <2>0, <3>1 DEF LifeTypeOK
      <3>6. s \notin disturbed => c = tenant[s]
        BY <2>0, <3>1 DEF CallHeld
      <3>7. CallHeld(call[r])' /\ InFlight(r)'
        BY <2>0, <3>1, <3>3, <3>4, <3>5, <3>6 DEF CallHeld, Uncommitted, InFlight
      <3> QED BY <2>m, <3>1, <3>4, <3>5, <3>7
    <2>3. CASE Refresh(r)
      <3>1. /\ call'[r].op = "publish" /\ call'[r].copy = tenant[s] /\ call'[r].slug = s
            /\ \A q \in Requests \ {r} : call'[q] = call[q]
        BY <2>0, <2>3, ProceedType DEF Refresh, CallOps
      <3>2. bySlug' = bySlug /\ UNCHANGED <<tenant, process, disturbed, names>>
        BY <2>0, <2>3 DEF Refresh, Registry, Process
      <3>3. CallHeld(call[r])' /\ InFlight(r)'
        BY <2>0, <3>1, <3>2 DEF CallHeld, Uncommitted, InFlight
      <3> QED BY <2>m, <3>1, <3>2, <3>3
    <2>4. CASE Publish(r)
      <3>1. /\ Add(Define(s, c)) /\ call[r].op = "publish" /\ End(r)
            /\ UNCHANGED <<tenant, process, disturbed, names>>
        BY <2>0, <2>4 DEF Publish, Process
      <3>2. <<s, c.host>> \in names
        BY <2>0, <3>1 DEF CallRecorded, Recorded
      <3>3. /\ bySlug'[Lower[s]] = Define(s, c)
            /\ \A t \in Slugs \ {s} : NoNamesakes(t) => bySlug'[Lower[t]] = bySlug[Lower[t]]
        BY <2>0, <3>1, <3>2, AddStep
      <3>4. s \notin disturbed => c = tenant[s]
        BY <2>0, <3>1 DEF CallHeld
      <3>5. s \notin disturbed' => Agree(s)'
        BY <2>0, <3>1, <3>3, <3>4 DEF Agree, ResolveFromSlug, Enabled, Expected, Define
      <3> QED BY <2>m, <3>1, <3>3, <3>5, EndCallType
    <2>5. CASE DeleteCommit(r)
      <3>1. /\ call'[r].op = "withdraw" /\ call'[r].slug = s
            /\ \A q \in Requests \ {r} : call'[q] = call[q]
        BY <2>0, <2>5, ProceedType DEF DeleteCommit, CallOps
      <3>2. /\ tenant' = IF SameRow(r) THEN [tenant EXCEPT ![s] = NoTenant] ELSE tenant
            /\ bySlug' = bySlug /\ UNCHANGED <<process, disturbed, names>>
            /\ call[r].op = "delete"
        BY <2>0, <2>5 DEF DeleteCommit, Registry, Process
      <3>3. \A t \in Slugs \ {s} : tenant'[t] = tenant[t]
        BY <2>0, <3>2 DEF LifeTypeOK
      <3>4. ASSUME s \notin disturbed PROVE tenant'[s] = NoTenant
        <4>1. SameRow(r)
          BY <2>0, <3>2, <3>4 DEF CallHeld, SameRow
        <4> QED BY <2>0, <3>2, <4>1 DEF LifeTypeOK
      <3>5. CallHeld(call[r])' /\ InFlight(r)'
        BY <2>0, <3>1, <3>2, <3>4 DEF CallHeld, Uncommitted, InFlight
      <3> QED BY <2>m, <3>1, <3>2, <3>3, <3>5
    <2>6. CASE Withdraw(r)
      <3>1. /\ RemoveBySlug(s) /\ call[r].op = "withdraw" /\ End(r)
            /\ UNCHANGED <<tenant, process, disturbed, names>>
        BY <2>0, <2>6 DEF Withdraw, Process
      <3>2. <<s, c.host>> \in names
        BY <2>0, <3>1 DEF CallRecorded, Recorded
      <3>3. /\ bySlug'[Lower[s]] = NoDefinition
            /\ \A t \in Slugs \ {s} : NoNamesakes(t) => bySlug'[Lower[t]] = bySlug[Lower[t]]
        BY <2>0, <3>1, <3>2, RemoveStep
      <3>4. s \notin disturbed => tenant[s] = NoTenant
        BY <2>0, <3>1 DEF CallHeld
      <3>5. s \notin disturbed' => Agree(s)'
        BY <2>0, <3>1, <3>3, <3>4, Empty DEF Agree, ResolveFromSlug, Enabled, Expected
      <3> QED BY <2>m, <3>1, <3>3, <3>5, EndCallType
    <2>7. CASE Fail(r)
      <3>1. /\ bySlug' = bySlug /\ UNCHANGED <<tenant, process, names>> /\ End(r)
            /\ disturbed \subseteq disturbed'
            /\ call[r].op \in Uncommitted \/ s \in disturbed'
        BY <2>0, <2>7 DEF Fail, Uncommitted, Registry, Process
      <3>2. s \notin disturbed' /\ NoNamesakes(s)' => Agree(s)'
        <4>1. s \notin disturbed' /\ NoNamesakes(s)' => Agree(s)
          BY <2>0, <3>1, NamesGrow DEF CallHeld
        <4> QED BY <3>1, <4>1 DEF Agree, ResolveFromSlug, Enabled, Expected
      <3> QED BY <2>m, <3>1, <3>2, EndCallType
    <2> QED BY <1>2, <2>1, <2>2, <2>3, <2>4, <2>5, <2>6, <2>7 DEF LifeStep
  <1>3. CASE Stop
    <2>1. /\ process' = "down" /\ bySlug' = EmptyRegistry /\ byHost' = EmptyRegistry
          /\ \A q \in Requests : ~InFlight(q)' /\ call'[q].slug = None
      BY <1>3 DEF Stop, InFlight, RegistryInv
    <2> QED BY <2>1 DEF RegistryInv
  <1>4. CASE Start
    <2>1. /\ call' = call /\ tenant' = tenant /\ process' = "loading"
          /\ toLoad' = {s \in Slugs : tenant[s].active} /\ bySlug' = EmptyRegistry
          /\ \A q \in Requests : ~InFlight(q) /\ call[q].slug = None
      BY <1>4 DEF Start, RegistryInv, Registry
    <2>2. \A s \in Slugs : bySlug'[Lower[s]] = NoDefinition /\ Loaded(s)' = NoDefinition
      BY <2>1, Empty DEF Loaded, Expected
    <2> QED BY <2>1, <2>2 DEF RegistryInv, InFlight
  <1>5. CASE Serve
    <2>1. /\ process = "loading" /\ process' = "up" /\ toLoad = {}
          /\ bySlug' = bySlug /\ UNCHANGED <<tenant, call, disturbed, names>>
      BY <1>5 DEF Serve, Registry
    <2>2. \A s \in Slugs : NoNamesakes(s) => bySlug[Lower[s]] = Expected(s)
      BY <2>1 DEF RegistryInv, Loaded
    <2>3. \A s \in Slugs : NoNamesakes(s)' => Agree(s)'
      BY <2>1, <2>2, NamesGrow, Empty
         DEF Agree, ResolveFromSlug, Enabled, Expected, Define
    <2>4. \A q \in Requests : ~InFlight(q) /\ call[q].slug = None
      BY <2>1 DEF RegistryInv
    <2> QED BY <2>1, <2>3, <2>4 DEF RegistryInv, InFlight
  <1>6. ASSUME NEW s \in Slugs, LoadTenant(s) PROVE RegistryInv'
    <2>1. /\ Add(Define(s, tenant[s])) /\ UNCHANGED <<tenant, call, process, disturbed, names>>
          /\ tenant[s].active /\ tenant[s] \in Tenant
          /\ process = "loading" /\ toLoad' = toLoad \ {s}
      BY <1>6 DEF LoadTenant, RegistryInv, LifeTypeOK
    <2>2. <<s, tenant[s].host>> \in names
      BY <2>1 DEF NamesInv, Recorded
    <2>3. /\ bySlug'[Lower[s]] = Define(s, tenant[s])
          /\ \A t \in Slugs \ {s} : NoNamesakes(t) => bySlug'[Lower[t]] = bySlug[Lower[t]]
      BY <2>1, <2>2, AddStep
    <2>4. ASSUME NEW t \in Slugs, NoNamesakes(t)' PROVE bySlug'[Lower[t]] = Loaded(t)'
      <3>1. NoNamesakes(t) /\ bySlug[Lower[t]] = Loaded(t)
        BY <2>1, <2>4, NamesGrow DEF RegistryInv
      <3>2. CASE t = s
        BY <2>1, <2>3, <3>2 DEF Loaded, Expected
      <3>3. CASE t # s
        BY <2>1, <2>3, <3>1, <3>3 DEF Loaded, Expected
      <3> QED BY <3>2, <3>3
    <2>5. \A q \in Requests : ~InFlight(q) /\ call[q].slug = None
      BY <2>1 DEF RegistryInv
    <2>6. process' = "loading" /\ call' = call /\ \A t \in toLoad' : tenant'[t].active
      BY <2>1 DEF RegistryInv
    <2> QED BY <2>4, <2>5, <2>6 DEF RegistryInv, InFlight
  <1>7. CASE UNCHANGED lifeVars
    BY <1>7 DEF lifeVars, RegistryInv, InFlight, CallHeld, Agree, ResolveFromSlug, Enabled,
                Expected, NoNamesakes, Loaded
  <1> QED BY <1>1, <1>2, <1>3, <1>4, <1>5, <1>6, <1>7 DEF LifeNext

-----------------------------------------------------------------------------
(***************************************************************************)
(* The theorems.                                                           *)
(***************************************************************************)

LEMMA InitInv == Init => IInv
  <1> SUFFICES ASSUME Init PROVE IInv
    OBVIOUS
  <1> USE RecordTypes
  <1>1. /\ invite = [i \in Invites |-> NoInvite] /\ req = [r \in Requests |-> Idle]
        /\ spent = [i \in Invites |-> {}] /\ wrong = [u \in Accounts |-> 0] /\ raced = {}
        /\ tenant = [s \in Slugs |-> NoTenant]
        /\ bySlug = EmptyRegistry /\ byHost = EmptyRegistry
        /\ call = [r \in Requests |-> IdleCall]
        /\ IdleCall.op = "idle" /\ IdleCall.slug = None
        /\ process = "up" /\ toLoad = {} /\ created = 0 /\ restarts = 0
        /\ disturbed = {} /\ names = {}
    BY DEF Init, AdminInit, IdleCall
  <1>2. PICK a \in Accounts :
          account = [u \in Accounts |-> IF u = a THEN FirstAdmin ELSE NoAccount]
    BY DEF Init, AdminInit
  <1>3. /\ FirstAdmin \in Account /\ FirstAdmin.failed = 0 /\ FirstAdmin.locked = FALSE
        /\ FirstAdmin.exists /\ FirstAdmin.active /\ FirstAdmin.admin
    BY DEF FirstAdmin, Account
  <1>4. AdminTypeOK
    BY <1>1, <1>2, <1>3 DEF AdminTypeOK
  <1>5. TypeOK
    BY <1>1, <1>4, Empty DEF TypeOK
  <1>6. \A r \in Requests : Formed(req[r]) /\ LinkHeld(req[r]) /\ LastHeld(req[r])
                            /\ Counted(req[r])
    BY <1>1 DEF Formed, LinkHeld, LastHeld, Counted, Inserting, Administering, Updating,
                Deactivating, SigningIn, Restoring
  <1>7. \A r, q \in Requests : r # q => Apart(r, q)
    <2>1. \A k \in DOMAIN Conflicts : ~Conflict(k, "idle", "idle")
      BY ConflictSets DEF Administering, SigningIn, Restoring
    <2> QED BY <1>1, <2>1 DEF Apart
  <1>8. TableInv
    BY <1>1 DEF TableInv, NoInvite
  <1>9. NewestInv
    BY <1>1 DEF NewestInv, LiveResets, UnusedResets, NoInvite
  <1>10. PlatformAdministratorRemains
    BY <1>2, <1>3 DEF PlatformAdministratorRemains, ActiveAdmins
  <1>11. CleanSlate
    BY <1>1, <1>2, <1>3 DEF CleanSlate
  <1>12. RegistryInv
    <2>1. \A s \in Slugs : Agree(s)
      BY <1>1, Empty DEF Agree, ResolveFromSlug, Enabled, Expected
    <2> QED BY <1>1, <2>1 DEF RegistryInv, InFlight
  <1>13. NamesInv
    <2>1. Owned /\ \A s \in Slugs : Paired(s)
      BY <1>1, EmptyHolds
    <2> QED BY <1>1, <2>1 DEF NamesInv, InFlight
  <1> QED BY <1>5, <1>6, <1>7, <1>8, <1>9, <1>10, <1>11, <1>12, <1>13
          DEF IInv, LinksInv, AccountsInv

\* The invariant that the theorems rest on.
THEOREM Inductive == Spec => []IInv
  <1>1. IInv /\ [Next]_vars => IInv'
    <2> SUFFICES ASSUME IInv, [Next]_vars PROVE IInv'
      OBVIOUS
    <2>1. /\ AdminTypeOK /\ LifeTypeOK /\ LinksInv /\ AccountsInv
          /\ RegistryInv /\ NamesInv
      BY DEF IInv, TypeOK, LifeTypeOK
    <2>2. AdminNext /\ LifeNext
      BY <2>1, AdminSteps, LifeSteps
    <2>3. AdminTypeOK' /\ LifeTypeOK'
      BY <2>1, <2>2, AdminType, LifeType
    <2>4. LinksInv' /\ AccountsInv' /\ RegistryInv' /\ NamesInv'
      BY <2>1, <2>2, <2>3, NextLinks, NextAccounts, NextRegistry, NextNames
    <2> QED BY <2>3, <2>4 DEF IInv, TypeOK, LifeTypeOK
  <1> QED BY InitInv, <1>1, PTL DEF Spec

\* The tables, the registry, the requests and the bounds are well typed.
THEOREM TypeCorrect == Spec => []TypeOK
  <1>1. IInv => TypeOK
    BY DEF IInv
  <1> QED BY <1>1, Inductive, PTL

\* An active platform administrator remains, unless two changes of role or
\* activity overlapped: the one who changes another is one, and is counted.
THEOREM APlatformAdministratorRemains == Spec => []PlatformAdministratorRemains
  <1>1. IInv => PlatformAdministratorRemains
    BY DEF IInv, AccountsInv
  <1> QED BY <1>1, Inductive, PTL

LEMMA AtMostOne ==
    ASSUME NEW S, \A a, b \in S : a = b
    PROVE  Cardinality(S) <= 1
  <1>1. CASE S = {}
    BY <1>1, FS_EmptySet
  <1>2. CASE S # {}
    <2>1. PICK x : x \in S
      BY <1>2
    <2>2. S = {x}
      BY <2>1
    <2>3. Cardinality({x}) = 1
      BY FS_Singleton
    <2> QED BY <2>2, <2>3
  <1> QED BY <1>1, <1>2

\* A link sets one password and a newer reset link is the only live one; what
\* a link or a recovery has restored is locked by later failures alone.  Each
\* as long as no two requests of the kind overlapped.
THEOREM LinksAndRecoveriesHold == Spec => []LinksAndRecoveries
  <1>1. IInv => LinksAndRecoveries
    <2> SUFFICES ASSUME IInv PROVE PlatformLinks /\ CleanSlate
      BY DEF LinksAndRecoveries
    <2>1. CleanSlate
      BY DEF IInv, AccountsInv
    <2>2. "consume" \notin raced => \A i \in Invites : Cardinality(spent[i]) <= 1
      BY AtMostOne DEF IInv, LinksInv, TableInv
    <2>3. ASSUME "reissue" \notin raced, NEW u \in Accounts
          PROVE  Cardinality({i \in UnusedResets(u) : Live(i)}) <= 1
      <3>1. \A k, l \in {i \in UnusedResets(u) : Live(i)} : k = l
        BY <2>3 DEF IInv, LinksInv, NewestInv, LiveResets
      <3> QED BY <3>1, AtMostOne
    <2> QED BY <2>1, <2>2, <2>3 DEF PlatformLinks
  <1> QED BY <1>1, Inductive, PTL

\* Once the requests about a slug have ended the registry resolves it, by slug and
\* by host and in any spelling, as the table has it, unless they overlapped, the
\* refresh of one failed, or another tenant has had a name that is one of its own
\* in lower case since the process started.
THEOREM RegistryFollowsTable == Spec => []RegistryAgrees
  <1>1. IInv => RegistryAgrees
    <2> SUFFICES ASSUME IInv, NEW s \in Slugs \ disturbed, process = "up",
                        NoNamesakes(s), \A r \in Requests : call[r].slug # s
                 PROVE  ResolvesAsStored(s)
      BY DEF RegistryAgrees
    <2>1. Agree(s)
      BY DEF IInv, RegistryInv
    <2>2. Paired(s) /\ Owned /\ LifeTypeOK /\ (tenant[s] # NoTenant => Recorded(s, tenant[s]))
      BY DEF IInv, NamesInv, TypeOK, LifeTypeOK
    <2> QED BY <2>1, <2>2, AgreeResolves
  <1> QED BY <1>1, Inductive, PTL

\* A tenant that goes had been deactivated, unless another request overlapped.
THEOREM DeletedTenantsWereInactive == Spec => OnlySuspendedGo
  <1>1. ASSUME IInv, [Next]_vars, NEW s \in Slugs \ disturbed', tenant[s].id # 0,
               tenant'[s].id # tenant[s].id
        PROVE  ~tenant[s].active
    <2>1. LifeTypeOK /\ RegistryInv /\ LifeNext
      BY <1>1, LifeSteps DEF IInv, TypeOK, LifeTypeOK
    <2>2. ASSUME NEW r \in Requests, LifeStep(r) PROVE ~tenant[s].active
      <3>0. /\ call[r].slug \in Slugs /\ CallHeld(call[r]) /\ call[r] \in Call
            /\ call[r].copy \in Tenant /\ tenant[call[r].slug] \in Tenant
        BY <2>1, <2>2, CallStep
      <3>1. CASE CreateTenantCommit(r)
        BY <1>1, <2>1, <3>0, <3>1 DEF CreateTenantCommit, Exists, LifeTypeOK
      <3>2. CASE ChangeCommit(r)
        <4> DEFINE new == Changed(call[r])
                   t == call[r].slug
        <4>1. tenant' = [tenant EXCEPT ![t] = Flushed(tenant[t], call[r].copy, new)]
          BY <3>2 DEF ChangeCommit
        <4>2. new \in Tenant /\ new.id = call[r].copy.id
          BY <3>0, ChangedTenant
        <4> HIDE DEF new
        <4>3. Flushed(tenant[t], call[r].copy, new).id = tenant[t].id
          BY <3>0, <4>2, FlushedTenant
        <4>4. tenant'[s].id = tenant[s].id
          BY <2>1, <3>0, <4>1, <4>3 DEF LifeTypeOK
        <4> QED BY <1>1, <4>4
      <3>3. CASE DeleteCommit(r)
        <4>1. s = call[r].slug
          BY <1>1, <2>1, <3>3 DEF DeleteCommit, LifeTypeOK
        <4>2. s \notin disturbed /\ call[r].op = "delete"
          BY <1>1, <3>3 DEF DeleteCommit
        <4> QED BY <3>0, <4>1, <4>2 DEF CallHeld
      <3>4. CASE Refresh(r) \/ Publish(r) \/ Withdraw(r) \/ Fail(r)
        BY <1>1, <3>4 DEF Refresh, Publish, Withdraw, Fail
      <3> QED BY <2>2, <3>1, <3>2, <3>3, <3>4 DEF LifeStep
    <2>3. ASSUME NEW r \in Requests, LifeBegin(r) PROVE FALSE
      <3>1. tenant' = tenant
        BY <2>1, <2>3, LifeReads
      <3> QED BY <1>1, <3>1
    <2>4. CASE \/ Stop \/ Start \/ Serve \/ (\E t \in Slugs : LoadTenant(t))
               \/ UNCHANGED lifeVars
      BY <1>1, <2>4 DEF Stop, Start, Serve, LoadTenant, lifeVars
    <2> QED BY <2>1, <2>2, <2>3, <2>4 DEF LifeNext
  <1>2. IInv /\ [Next]_vars =>
          \A s \in Slugs \ disturbed' :
             tenant[s].id # 0 /\ tenant'[s].id # tenant[s].id => ~tenant[s].active
    BY <1>1
  <1> QED BY <1>2, Inductive, PTL DEF Spec, OnlySuspendedGo

=============================================================================

--------------------------- MODULE TenantLifecycle ---------------------------
(***************************************************************************)
(* Tenants and the registry they are resolved by                           *)
(* (app/services/tenant_service.py, tenant_registry_manager.py,            *)
(* app/core/tenant_registry.py), run by the administrators of              *)
(* PlatformAdministrators: Next composes the two.                          *)
(*                                                                         *)
(* The table is the truth and the registry, two dictionaries of the API    *)
(* process, is what requests see.  A change commits its row, reads it back *)
(* and only then publishes it, in steps that others may come between; the  *)
(* registry dies with the process and is loaded when it starts.  There is  *)
(* one API process, as the deployment starts it.                           *)
(*                                                                         *)
(* The table tells slugs and hosts apart by case, and the registry does    *)
(* not: it is keyed by the lower-case slug and the lower-case host, so     *)
(* tenants may share an entry.  A host is the one made of the slug or the  *)
(* one requested at the creation, and never changes.                       *)
(*                                                                         *)
(* A tenant is its slug, with an id per creation.  Of its columns the      *)
(* status, the host and one display name of two remain.                    *)
(***************************************************************************)
EXTENDS PlatformAdministrators

CONSTANTS
    Slugs,          \* slugs
    Hosts,          \* hosts (tenants.subdomain)
    Lower,          \* str.lower of slugs and hosts
    MaxTenants,     \* bound: tenants ever created
    MaxRestarts     \* bound: restarts of the API process

ASSUME LifecycleAssumption ==
    /\ MaxTenants \in Nat /\ MaxRestarts \in Nat
    /\ DOMAIN Lower = Slugs \cup Hosts
    /\ None \notin Slugs /\ None \notin Hosts

VARIABLES
    tenant,         \* the table tenants
    bySlug,         \* the registry of the API process: _by_slug
    byHost,         \* and _by_host
    call,           \* what each lifecycle request is doing
    process,        \* the API process: "up" when it accepts requests
    toLoad,         \* the tenants it still has to load when it starts
    created,        \* auxiliary: tenants created so far
    restarts,       \* auxiliary: ends of the API process so far
    disturbed,      \* history: slugs on which requests overlapped or a refresh failed
    names           \* history: slugs and hosts in the table since the process started

lifeVars == <<tenant, bySlug, byHost, call, process, toLoad, created, restarts,
              disturbed, names>>

vars == <<account, invite, req, spent, wrong, raced,
          tenant, bySlug, byHost, call, process, toLoad, created, restarts,
          disturbed, names>>

Ids == 0..MaxTenants        \* 0: there is no such tenant

Keys == {Lower[n] : n \in Slugs \cup Hosts}

Tenant == [id : Ids, active : BOOLEAN, renamed : BOOLEAN, host : Hosts \cup {None}]

NoTenant == [id |-> 0, active |-> FALSE, renamed |-> FALSE, host |-> None]

\* TenantDefinition: what the registry holds of a tenant.
Definition == [slug : Slugs \cup {None}, row : Tenant]

Define(s, t) == [slug |-> s, row |-> t]

NoDefinition == Define(None, NoTenant)

EmptyRegistry == [k \in Keys |-> NoDefinition]

CallOps == {"idle", "done", "create", "update", "status", "refresh", "publish",
            "delete", "withdraw"}

Call == [op : CallOps, slug : Slugs \cup {None}, copy : Tenant, value : BOOLEAN]

IdleCall == [op |-> "idle", slug |-> None, copy |-> NoTenant, value |-> FALSE]

DoneCall == [IdleCall EXCEPT !.op = "done"]

InFlight(r) == call[r].op \notin {"idle", "done"}

Exists(s) == tenant[s].id # 0

\* The row this request has loaded is still there.
SameRow(r) == tenant[call[r].slug].id = call[r].copy.id

Begin(r, s, m) ==
    /\ call' = [call EXCEPT ![r] = [m EXCEPT !.slug = s]]
    /\ disturbed' = disturbed \cup
         {t \in {s} : \E q \in Requests \ {r} : InFlight(q) /\ call[q].slug = s}
    /\ UNCHANGED <<tenant, bySlug, byHost, process, toLoad, created, restarts, names>>

\* The next step of request r is op, with copy loaded.
Proceed(r, op, copy) ==
    call' = [call EXCEPT ![r].op = op, ![r].copy = copy]

End(r) == call' = [call EXCEPT ![r] = DoneCall]

Registry == <<bySlug, byHost>>

Process == <<process, toLoad, created, restarts>>

-----------------------------------------------------------------------------
(***************************************************************************)
(* The registry.                                                           *)
(***************************************************************************)

\* The hosts without that of the definition now under the slug of s.
HostsWithout(s) ==
    LET existing == bySlug[Lower[s]]
    IN  IF existing = NoDefinition THEN byHost
        ELSE [byHost EXCEPT ![Lower[existing.row.host]] = NoDefinition]

\* add: the definition takes the place of what its lower-case slug named, and of
\* what its lower-case host named.
Add(d) ==
    /\ bySlug' = [bySlug EXCEPT ![Lower[d.slug]] = d]
    /\ byHost' = [HostsWithout(d.slug) EXCEPT ![Lower[d.row.host]] = d]

\* remove_by_slug: whatever tenant the lower-case slug names by now.
RemoveBySlug(s) ==
    /\ bySlug' = [bySlug EXCEPT ![Lower[s]] = NoDefinition]
    /\ byHost' = HostsWithout(s)

-----------------------------------------------------------------------------
(***************************************************************************)
(* Lifecycle requests.                                                     *)
(***************************************************************************)

\* create: the slug, in this spelling, is free.  The host is the one requested, or
\* made of the slug.
CreateTenantRead(r, s, host) ==
    /\ ~Exists(s)
    /\ Begin(r, s, [IdleCall EXCEPT !.op = "create",
                                    !.copy = [NoTenant EXCEPT !.host = host]])

\* The row is committed, unless a unique index, of the slug or of the host, objects;
\* what is published is the object inserted, not the row read again.
CreateTenantCommit(r) ==
    LET s == call[r].slug
        host == call[r].copy.host
        new == [id |-> created + 1, active |-> TRUE, renamed |-> FALSE, host |-> host]
    IN  /\ call[r].op = "create"
        /\ ~Exists(s) /\ created < MaxTenants
        /\ \A t \in Slugs : tenant[t].host # host
        /\ tenant' = [tenant EXCEPT ![s] = new]
        /\ created' = created + 1
        /\ names' = names \cup {<<s, host>>}
        /\ Proceed(r, "publish", new)
        /\ UNCHANGED <<Registry, process, toLoad, restarts, disturbed>>

\* update of the display name; one that changes nothing returns at once.
UpdateTenantRead(r, s, renamed) ==
    /\ Exists(s) /\ tenant[s].renamed # renamed
    /\ Begin(r, s, [IdleCall EXCEPT !.op = "update", !.copy = tenant[s],
                                    !.value = renamed])

\* set_active
StatusRead(r, s, active) ==
    /\ Exists(s)
    /\ Begin(r, s, [IdleCall EXCEPT !.op = "status", !.copy = tenant[s],
                                    !.value = active])

Changed(m) ==
    IF m.op = "update" THEN [m.copy EXCEPT !.renamed = m.value]
    ELSE [m.copy EXCEPT !.active = m.value]

\* The UPDATE of a row that is gone fails, and so does the refresh after a
\* commit that had nothing to update.
ChangeCommit(r) ==
    LET s == call[r].slug
    IN  /\ call[r].op \in {"update", "status"}
        /\ SameRow(r)
        /\ tenant' = [tenant EXCEPT ![s] = Flushed(@, call[r].copy, Changed(call[r]))]
        /\ Proceed(r, "refresh", Changed(call[r]))
        /\ UNCHANGED <<Registry, Process, disturbed, names>>

\* The row is read again, as others have left it by now.
Refresh(r) ==
    /\ call[r].op = "refresh"
    /\ SameRow(r)
    /\ Proceed(r, "publish", tenant[call[r].slug])
    /\ UNCHANGED <<tenant, Registry, Process, disturbed, names>>

\* registry_manager.add
Publish(r) ==
    /\ call[r].op = "publish"
    /\ Add(Define(call[r].slug, call[r].copy))
    /\ End(r)
    /\ UNCHANGED <<tenant, Process, disturbed, names>>

\* Mutant: an active tenant may be deleted.
DeleteReadAny(r, s) ==
    /\ Exists(s)
    /\ Begin(r, s, [IdleCall EXCEPT !.op = "delete", !.copy = tenant[s]])

\* delete: the tenant was deactivated before.
DeleteRead(r, s) ==
    /\ Exists(s) /\ ~tenant[s].active
    /\ Begin(r, s, [IdleCall EXCEPT !.op = "delete", !.copy = tenant[s]])

\* The DELETE of a row that is gone is no error.
DeleteCommit(r) ==
    LET s == call[r].slug
    IN  /\ call[r].op = "delete"
        /\ tenant' = IF SameRow(r) THEN [tenant EXCEPT ![s] = NoTenant] ELSE tenant
        /\ Proceed(r, "withdraw", call[r].copy)
        /\ UNCHANGED <<Registry, Process, disturbed, names>>

\* remove_by_slug, after the commit.
Withdraw(r) ==
    /\ call[r].op = "withdraw"
    /\ RemoveBySlug(call[r].slug)
    /\ End(r)
    /\ UNCHANGED <<tenant, Process, disturbed, names>>

\* The database fails before the commit, or at the refresh after it: the row
\* is changed then, and the registry is not.
Fail(r) ==
    /\ call[r].op \in {"create", "update", "status", "delete", "refresh"}
    /\ End(r)
    /\ disturbed' = IF call[r].op = "refresh" THEN disturbed \cup {call[r].slug}
                    ELSE disturbed
    /\ UNCHANGED <<tenant, Registry, Process, names>>

-----------------------------------------------------------------------------
(***************************************************************************)
(* The API process.                                                        *)
(***************************************************************************)

\* The process ends; its requests end where they are, local commands do not.
Stop ==
    /\ process # "down" /\ restarts < MaxRestarts
    /\ process' = "down"
    /\ restarts' = restarts + 1
    /\ bySlug' = EmptyRegistry /\ byHost' = EmptyRegistry
    /\ toLoad' = {}
    /\ call' = [r \in Requests |-> IF InFlight(r) THEN DoneCall ELSE call[r]]
    /\ req' = [r \in Requests |->
                 IF req[r].op \in {"idle", "done", "recover", "reissue"} THEN req[r]
                 ELSE Finished]
    /\ UNCHANGED <<account, invite, spent, wrong, raced, tenant, created, disturbed, names>>

\* Mutant: the registry starts empty.
StartEmpty ==
    /\ process = "down"
    /\ process' = "loading"
    /\ toLoad' = {}
    /\ disturbed' = {}
    /\ names' = {<<s, tenant[s].host>> : s \in {t \in Slugs : Exists(t)}}
    /\ UNCHANGED <<tenant, Registry, call, created, restarts>>
    /\ UNCHANGED adminVars

\* startup_event: the active tenants are read before requests are served.
Start ==
    /\ process = "down"
    /\ process' = "loading"
    /\ toLoad' = {s \in Slugs : tenant[s].active}
    /\ disturbed' = {}
    /\ names' = {<<s, tenant[s].host>> : s \in {t \in Slugs : Exists(t)}}
    /\ UNCHANGED <<tenant, Registry, call, created, restarts>>
    /\ UNCHANGED adminVars

\* load adds them one after the other, in the order of names that are not modelled.
LoadTenant(s) ==
    /\ process = "loading" /\ s \in toLoad
    /\ Add(Define(s, tenant[s]))
    /\ toLoad' = toLoad \ {s}
    /\ UNCHANGED <<tenant, call, process, created, restarts, disturbed, names>>
    /\ UNCHANGED adminVars

\* The event is over.
Serve ==
    /\ process = "loading" /\ toLoad = {}
    /\ process' = "up"
    /\ UNCHANGED <<tenant, Registry, call, toLoad, created, restarts, disturbed, names>>
    /\ UNCHANGED adminVars

Init ==
    /\ AdminInit
    /\ tenant = [s \in Slugs |-> NoTenant]
    /\ bySlug = EmptyRegistry /\ byHost = EmptyRegistry
    /\ call = [r \in Requests |-> IdleCall]
    /\ process = "up" /\ toLoad = {}
    /\ created = 0
    /\ restarts = 0
    /\ disturbed = {}
    /\ names = {}

\* The lifecycle endpoints of /platform/tenants, for platform administrators.
LifeBegin(r) ==
    /\ \E a \in Accounts : Administrator(a)
    /\ \E s \in Slugs :
         \/ \E host \in Hosts : CreateTenantRead(r, s, host)
         \/ \E value \in BOOLEAN : UpdateTenantRead(r, s, value) \/ StatusRead(r, s, value)
         \/ DeleteRead(r, s)

LifeStep(r) ==
    \/ CreateTenantCommit(r) \/ ChangeCommit(r) \/ Refresh(r) \/ Publish(r)
    \/ DeleteCommit(r) \/ Withdraw(r) \/ Fail(r)

\* Request r has not been served: it may be of either kind, or a command.
Arrive(r) ==
    /\ req[r].op = "idle" /\ call[r].op = "idle"
    /\ \/ process = "up" /\ AdminBegin(r) /\ UNCHANGED lifeVars
       \/ CommandBegin(r) /\ UNCHANGED lifeVars
       \/ process = "up" /\ LifeBegin(r) /\ UNCHANGED adminVars

Next ==
    \/ \E r \in Requests :
         \/ Arrive(r)
         \/ AdminEnd(r) /\ UNCHANGED lifeVars
         \/ LifeStep(r) /\ UNCHANGED adminVars
    \/ \E i \in Invites : Expire(i) /\ UNCHANGED lifeVars
    \/ Stop \/ Start \/ Serve
    \/ \E s \in Slugs : LoadTenant(s)

Spec == Init /\ [][Next]_vars

-----------------------------------------------------------------------------
(***************************************************************************)
(* Properties.                                                             *)
(***************************************************************************)

\* Type invariant of the composition.
TypeOK ==
    /\ AdminTypeOK
    /\ tenant \in [Slugs -> Tenant]
    /\ bySlug \in [Keys -> Definition] /\ byHost \in [Keys -> Definition]
    /\ call \in [Requests -> Call]
    /\ process \in {"up", "down", "loading"} /\ toLoad \subseteq Slugs
    /\ created \in 0..MaxTenants
    /\ restarts \in 0..MaxRestarts
    /\ disturbed \subseteq Slugs
    /\ names \subseteq Slugs \X Hosts

\* _build_context: a definition that is enabled.
Enabled(d) == IF d.row.active THEN d ELSE NoDefinition

\* resolve_from_slug, resolve_from_host
ResolveFromSlug(slug) == Enabled(bySlug[Lower[slug]])

ResolveFromHost(host) == Enabled(byHost[Lower[host]])

\* Since the process started no tenant but s has had its slug in another spelling,
\* nor a host that is one of its own in another spelling.
NoNamesakes(s) ==
    \A q \in names : q[1] # s =>
        /\ Lower[q[1]] # Lower[s]
        /\ \A p \in names : p[1] = s => Lower[p[2]] # Lower[q[2]]

\* What requests for s are to see.
Expected(s) == IF tenant[s].active THEN Define(s, tenant[s]) ELSE NoDefinition

\* By its slug and by its host, in any spelling, and by no other host.
ResolvesAsStored(s) ==
    /\ ResolveFromSlug(s) = Expected(s)
    /\ tenant[s].active => ResolveFromHost(tenant[s].host) = Expected(s)
    /\ \A h \in Hosts : ResolveFromHost(h).slug = s =>
          tenant[s].active /\ Lower[h] = Lower[tenant[s].host]

\* Once the requests about a slug have ended, the registry resolves it and its host
\* as the table has them, whichever of them failed and wherever the process ended;
\* a restart even mends what an overlap or a failed refresh has left.  It does not
\* hold of tenants whose names differ only in case: they share entries, and of
\* these the tenant published, or loaded, last has what is left.
RegistryAgrees ==
    \A s \in Slugs \ disturbed :
        process = "up" /\ NoNamesakes(s) /\ (\A r \in Requests : call[r].slug # s) =>
            ResolvesAsStored(s)

\* "Deactivate the tenant before deleting it": no tenant goes while it is
\* active, unless another request about it overlapped the deletion.
OnlySuspendedGo ==
    [][\A s \in Slugs \ disturbed' :
          tenant[s].id # 0 /\ tenant'[s].id # tenant[s].id => ~tenant[s].active]_vars

=============================================================================

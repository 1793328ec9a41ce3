---------------------------- MODULE SingleSignOn ----------------------------
(***************************************************************************)
(* Single sign-on of one tenant with an OpenID Connect provider: the       *)
(* configuration (app/services/tenant_sso_service.py), the state of a      *)
(* login (tenant_oidc_auth_session_service.py), and the account a callback *)
(* signs its person in to (oidc_user_service.py).                          *)
(*                                                                         *)
(* A request reads, calls the provider, and commits the columns that       *)
(* differ from its copies, with no row locked; only the UPDATE that        *)
(* migrates a subject holds the row until its transaction ends.            *)
(*                                                                         *)
(* What the provider says of a person is an identity: the claims oid and   *)
(* sub, either of which may be missing, and an email, which persons may    *)
(* share over time.  A client secret is named by the request that saved    *)
(* it, a provider by its issuer, which also names the endpoints found      *)
(* there.                                                                  *)
(***************************************************************************)
EXTENDS Naturals, FiniteSets, UnitOfWork

CONSTANTS
    Users,          \* ids of rows of tenant_users
    Sessions,       \* ids of rows of tenant_oidc_auth_sessions
    Requests,       \* requests served; each is served once
    Persons,        \* persons the providers know
    Identities,     \* what a provider may say: [person, claims, email]
    Emails,         \* normalized email addresses
    Issuers,        \* identity providers
    None            \* no value

ASSUME SignOnAssumption ==
    /\ Identities \subseteq [person : Persons, claims : (SUBSET {"oid", "sub"}) \ {{}},
                             email : Emails]
    /\ None \notin Users \cup Sessions \cup Issuers \cup Emails
    /\ None \notin Identities \cup (Persons \X {"oid", "sub"})

\* A provider gives the sub of a person always, as OpenID Connect requires of it,
\* or, of a person it knows by the oid, never.
ASSUME ProviderAssumption ==
    \A i, j \in Identities : i.person = j.person => ("sub" \in i.claims <=> "sub" \in j.claims)

VARIABLES
    user,           \* the table tenant_users
    session,        \* the table tenant_oidc_auth_sessions
    config,         \* the row of tenant_sso_configs
    req,            \* what each request is doing
    saved,          \* auxiliary: the client secret saved last
    completed,      \* auxiliary: the callbacks signed in with each session
    signedIn,       \* auxiliary: the accounts each person was signed in to
    raced           \* auxiliary: which conflicts of requests have happened

vars == <<user, session, config, req, saved, completed, signedIn, raced>>

\* A subject is one claim of one person.
Subjects == Persons \X {"oid", "sub"}

Has(i, claim) == claim \in i.claims

\* OIDCUserIdentity.subject: the oid, or the sub where there is none.
Subject(i) == <<i.person, IF Has(i, "oid") THEN "oid" ELSE "sub">>

\* Email and external subject are unique within the tenant.
User == [email : Emails \cup {None}, subject : Subjects \cup {None},
         sso : BOOLEAN, active : BOOLEAN]

NoUser == [email |-> None, subject |-> None, sso |-> FALSE, active |-> FALSE]

Session == [state : {"none", "open", "used"}, issuer : Issuers \cup {None}]

NoSession == [state |-> "none", issuer |-> None]

\* The secret: who saved it, and whether the column holds it encrypted.
Config == [issuer : Issuers \cup {None}, endpoints : Issuers \cup {None},
           secret : (Requests \cup {"first", None}) \X BOOLEAN, enabled : BOOLEAN]

Ops == {"idle", "done", "upgrade", "login", "callback", "test", "save",
        "validated", "consumed", "provision", "by_sub", "migrate", "migrated",
        "reread", "by_email", "write"}

Request == [op : Ops, for : {"none", "view", "login", "callback", "test"},
            config : Config, session : Sessions \cup {None}, user : Users \cup {None},
            copy : User, identity : Identities \cup {None},
            issuer : Issuers \cup {None}, keep : BOOLEAN, enabled : BOOLEAN]

NoConfig == [issuer |-> None, endpoints |-> None, secret |-> <<None, TRUE>>,
             enabled |-> FALSE]

Idle == [op |-> "idle", for |-> "none", config |-> NoConfig, session |-> None,
         user |-> None, copy |-> NoUser, identity |-> None, issuer |-> None,
         keep |-> FALSE, enabled |-> FALSE]

Finished == [Idle EXCEPT !.op = "done"]

-----------------------------------------------------------------------------

Provisioning == {"provision", "by_sub", "migrate", "migrated", "reread", "by_email",
                 "write"}

Calling == {"validated", "consumed"}

\* The conflicts recorded, each between the requests of two sets.
Conflicts == [provision |-> <<Provisioning, Provisioning>>,
              callback  |-> <<Calling, Calling>>,
              endpoints |-> <<{"test"}, {"save"}>>,
              secret    |-> <<{"upgrade", "save"}, {"upgrade", "save"}>>]

Conflict(k, a, b) ==
    \/ a \in Conflicts[k][1] /\ b \in Conflicts[k][2]
    \/ b \in Conflicts[k][1] /\ a \in Conflicts[k][2]

\* Request r goes on with record m.
Goto(r, m) ==
    /\ req' = [req EXCEPT ![r] = m]
    /\ raced' = raced \cup {k \in DOMAIN Conflicts :
                              \E q \in Requests \ {r} : Conflict(k, m.op, req[q].op)}

Leave(r) ==
    /\ req' = [req EXCEPT ![r] = Finished]
    /\ UNCHANGED raced

\* The row a migration has updated and not yet committed.
Held(u) == \E q \in Requests : req[q].op = "migrated" /\ req[q].user = u

BySubject(s) == {u \in Users : user[u].subject = s}

ByEmail(e) == {u \in Users : user[u].email = e}

\* A configuration in use, its secret perhaps from before secrets were
\* encrypted; some logins under way; an account made by an administrator, or
\* one bound to the sub of a person when only that claim was read.
Init ==
    /\ \E i \in Issuers, encrypted \in BOOLEAN :
         config = [issuer |-> i, endpoints |-> None, secret |-> <<"first", encrypted>>,
                   enabled |-> TRUE]
    /\ \E open \in SUBSET Sessions :
         session = [s \in Sessions |->
                      IF s \in open THEN [state |-> "open", issuer |-> config.issuer]
                      ELSE NoSession]
    /\ \E u \in Users, i \in Identities, row \in {"none", "local", "legacy"} :
         /\ row = "legacy" => Has(i, "sub")
         /\ user = [v \in Users |->
                      IF v # u \/ row = "none" THEN NoUser
                      ELSE [email |-> i.email, active |-> TRUE, sso |-> row = "legacy",
                            subject |-> IF row = "legacy" THEN <<i.person, "sub">>
                                        ELSE None]]
    /\ req = [r \in Requests |-> Idle]
    /\ saved = "first"
    /\ completed = [s \in Sessions |-> {}]
    /\ signedIn = [p \in Persons |-> {}]
    /\ raced = {}

-----------------------------------------------------------------------------
(***************************************************************************)
(* The configuration.                                                      *)
(***************************************************************************)

InTheClear == config.secret[1] # None /\ ~config.secret[2]

\* get: the configuration is read on the way to what the request is for; one
\* that only shows it changes nothing unless the secret is in the clear.
Get(r, m) ==
    /\ m.for = "view" => InTheClear
    /\ Goto(r, [m EXCEPT !.config = config,
                         !.op = IF InTheClear THEN "upgrade" ELSE m.for])

\* A secret stored in the clear is written back encrypted, and the row read.
Upgrade(r) ==
    LET c == req[r].config
        row == Flushed(config, c, [c EXCEPT !.secret = <<c.secret[1], TRUE>>])
    IN  /\ req[r].op = "upgrade"
        /\ config' = row
        /\ IF req[r].for = "view" THEN Leave(r)
           ELSE Goto(r, [req[r] EXCEPT !.op = req[r].for, !.config = row])
        /\ UNCHANGED <<user, session, saved, completed, signedIn>>

\* upsert: a secret is given, or one is there to keep.
SaveRead(r, issuer, keep, enabled) ==
    /\ keep => config.secret[1] # None
    /\ Goto(r, [Idle EXCEPT !.op = "save", !.config = config, !.issuer = issuer,
                            !.keep = keep, !.enabled = enabled])
    /\ UNCHANGED <<user, session, config, saved, completed, signedIn>>

\* Mutant: the endpoints of the previous provider stay stored.
SaveCommitCached(r) ==
    LET c == req[r].config
        secret == <<IF req[r].keep THEN c.secret[1] ELSE r, TRUE>>
    IN  /\ req[r].op = "save"
        /\ config' = Flushed(config, c,
                       [issuer |-> req[r].issuer, endpoints |-> c.endpoints,
                        secret |-> secret, enabled |-> req[r].enabled])
        /\ saved' = secret[1]
        /\ Leave(r)
        /\ UNCHANGED <<user, session, completed, signedIn>>

\* The endpoints are cleared: they are found again at the provider.
SaveCommit(r) ==
    LET c == req[r].config
        secret == <<IF req[r].keep THEN c.secret[1] ELSE r, TRUE>>
    IN  /\ req[r].op = "save"
        /\ config' = Flushed(config, c,
                       [issuer |-> req[r].issuer, endpoints |-> None,
                        secret |-> secret, enabled |-> req[r].enabled])
        /\ saved' = secret[1]
        /\ Leave(r)
        /\ UNCHANGED <<user, session, completed, signedIn>>

\* test_configuration: the endpoints the provider gives are stored.
TestCommit(r) ==
    LET c == req[r].config
    IN  /\ req[r].op = "test"
        /\ c.issuer # None /\ c.secret[1] # None
        /\ config' = Flushed(config, c, [c EXCEPT !.endpoints = c.issuer])
        /\ Leave(r)
        /\ UNCHANGED <<user, session, saved, completed, signedIn>>

-----------------------------------------------------------------------------
(***************************************************************************)
(* The state of a login.                                                   *)
(***************************************************************************)

\* login_with_sso: a session for the provider as it was configured.
Login(r, s) ==
    /\ req[r].op = "login"
    /\ req[r].config.enabled
    /\ session[s].state = "none"
    /\ session' = [session EXCEPT ![s] = [state |-> "open",
                                          issuer |-> req[r].config.issuer]]
    /\ Leave(r)
    /\ UNCHANGED <<user, config, saved, completed, signedIn>>

\* validate: the state is known and not used; one that has expired only
\* refuses the callback, as one that never comes.
Validate(r, s) ==
    /\ session[s].state = "open"
    /\ Goto(r, [Idle EXCEPT !.op = "validated", !.session = s])
    /\ UNCHANGED <<user, session, config, saved, completed, signedIn>>

\* Mutant: the state is kept until the login succeeds.
ConsumeNothing(r) ==
    /\ req[r].op = "validated"
    /\ UNCHANGED session
    /\ Goto(r, [req[r] EXCEPT !.op = "consumed"])
    /\ UNCHANGED <<user, config, saved, completed, signedIn>>

\* consume: before the provider is asked anything, whatever it will say.
Consume(r) ==
    /\ req[r].op = "validated"
    /\ session' = [session EXCEPT ![req[r].session].state = "used"]
    /\ Goto(r, [req[r] EXCEPT !.op = "consumed"])
    /\ UNCHANGED <<user, config, saved, completed, signedIn>>

\* The configuration is read for the exchange of the code.
Resolve(r) ==
    /\ req[r].op = "consumed"
    /\ Get(r, [req[r] EXCEPT !.for = "callback"])
    /\ UNCHANGED <<user, session, config, saved, completed, signedIn>>

\* Of the provider it is assumed that, once an account is bound to the oid of a
\* person, it gives the oid in every identity of that person.
Vouched(i) == BySubject(<<i.person, "oid">>) # {} => Has(i, "oid")

\* authenticate: the provider the login began at accepts its code and vouches
\* for an identity.
Authenticate(r, i) ==
    /\ Vouched(i)
    /\ req[r].op = "callback"
    /\ req[r].config.enabled
    /\ req[r].config.issuer = session[req[r].session].issuer
    /\ Goto(r, [Idle EXCEPT !.op = "provision", !.session = req[r].session,
                            !.identity = i])
    /\ UNCHANGED <<user, session, config, saved, completed, signedIn>>

-----------------------------------------------------------------------------
(***************************************************************************)
(* provision: the account of an identity.                                  *)
(***************************************************************************)

\* The account is authorized as read, or the request ends here.
Authorized(r, us, m) ==
    IF \A u \in us : user[u].active
    THEN Goto(r, m) ELSE Leave(r)

\* By the oid, or by the sub of an identity that has none.
BySubjectRead(r) ==
    LET i == req[r].identity
        found == BySubject(Subject(i))
    IN  /\ req[r].op = "provision"
        /\ IF found # {}
           THEN \E u \in found :
                  Authorized(r, found, [req[r] EXCEPT !.op = "write", !.user = u,
                                                      !.copy = user[u]])
           ELSE Goto(r, [req[r] EXCEPT !.op = IF i.claims = {"oid", "sub"} THEN "by_sub"
                                              ELSE "by_email"])
        /\ UNCHANGED <<user, session, config, saved, completed, signedIn>>

\* An account bound to the sub of an identity that now has an oid.
LegacyRead(r) ==
    LET found == BySubject(<<req[r].identity.person, "sub">>)
    IN  /\ req[r].op = "by_sub"
        /\ IF found = {} THEN Goto(r, [req[r] EXCEPT !.op = "by_email"])
           ELSE \E u \in found :
                  IF user[u].sso
                  THEN Authorized(r, found, [req[r] EXCEPT !.op = "migrate", !.user = u,
                                                           !.copy = user[u]])
                  ELSE Leave(r)
        /\ UNCHANGED <<user, session, config, saved, completed, signedIn>>

\* update_external_subject_if_matches: the UPDATE waits for one that holds the
\* row; where it matches nothing, or the new subject is taken, it is undone.
Migrate(r) ==
    LET u == req[r].user
        i == req[r].identity
    IN  /\ req[r].op = "migrate"
        /\ ~Held(u)
        /\ Goto(r, [req[r] EXCEPT
                      !.op = IF user[u].subject = <<i.person, "sub">>
                                /\ BySubject(Subject(i)) = {}
                             THEN "migrated" ELSE "reread"])
        /\ UNCHANGED <<user, session, config, saved, completed, signedIn>>

\* Another callback may have made the same migration.
Reread(r) ==
    LET u == req[r].user
    IN  /\ req[r].op = "reread"
        /\ IF user[u].subject = Subject(req[r].identity)
           THEN Authorized(r, {u}, [req[r] EXCEPT !.op = "write", !.copy = user[u]])
           ELSE Leave(r)
        /\ UNCHANGED <<user, session, config, saved, completed, signedIn>>

\* Mutant: an account bound to someone else is taken for the email's sake.
EmailReadAny(r) ==
    LET i == req[r].identity
        found == ByEmail(i.email)
    IN  /\ req[r].op = "by_email"
        /\ IF found = {} THEN Goto(r, [req[r] EXCEPT !.op = "write"])
           ELSE \E u \in found :
                  Authorized(r, found, [req[r] EXCEPT !.op = "write", !.user = u,
                                                      !.copy = user[u]])
        /\ UNCHANGED <<user, session, config, saved, completed, signedIn>>

\* By email: an account of the tenant that is unbound, or bound to this person.
EmailRead(r) ==
    LET i == req[r].identity
        found == ByEmail(i.email)
    IN  /\ req[r].op = "by_email"
        /\ IF found = {} THEN Goto(r, [req[r] EXCEPT !.op = "write"])
           ELSE \E u \in found :
                  IF user[u].subject \in {None} \cup {<<i.person, c>> : c \in i.claims}
                  THEN Authorized(r, found, [req[r] EXCEPT !.op = "write", !.user = u,
                                                           !.copy = user[u]])
                  ELSE Leave(r)
        /\ UNCHANGED <<user, session, config, saved, completed, signedIn>>

SignedIn(r, u) ==
    /\ signedIn' = [signedIn EXCEPT ![req[r].identity.person] = @ \cup {u}]
    /\ completed' = [completed EXCEPT ![req[r].session] = @ \cup {r}]
    /\ Leave(r)
    /\ UNCHANGED <<session, config, saved>>

\* The account found is turned over to single sign-on and bound, if it is not;
\* one whose row a migration holds has to wait.
SignInKnown(r) ==
    LET u == req[r].user
        c == req[r].copy
        new == [c EXCEPT !.sso = TRUE,
                         !.subject = IF c.subject = None THEN Subject(req[r].identity)
                                     ELSE c.subject]
    IN  /\ req[r].op = "write" /\ u # None
        /\ ~Held(u)
        /\ c.subject = None => BySubject(new.subject) \subseteq {u}
        /\ user' = [user EXCEPT ![u] = Flushed(user[u], c, new)]
        /\ SignedIn(r, u)

\* The migration and the rest of the update commit together.
SignInMigrated(r) ==
    LET u == req[r].user
        c == req[r].copy
    IN  /\ req[r].op = "migrated"
        /\ user' = [user EXCEPT ![u] =
                      [Flushed(user[u], c, [c EXCEPT !.sso = TRUE])
                         EXCEPT !.subject = Subject(req[r].identity)]]
        /\ SignedIn(r, u)

\* Mutant: a new account is not bound to the identity.
SignInNewUnbound(r) ==
    LET i == req[r].identity
    IN  /\ req[r].op = "write" /\ req[r].user = None
        /\ ByEmail(i.email) = {} /\ BySubject(Subject(i)) = {}
        /\ \E u \in Users :
             /\ user[u] = NoUser
             /\ user' = [user EXCEPT ![u] = [email |-> i.email, subject |-> "",
                                             sso |-> TRUE, active |-> TRUE]]
             /\ SignedIn(r, u)

\* A new account, unless a unique index objects.
SignInNew(r) ==
    LET i == req[r].identity
    IN  /\ req[r].op = "write" /\ req[r].user = None
        /\ ByEmail(i.email) = {} /\ BySubject(Subject(i)) = {}
        /\ \E u \in Users :
             /\ user[u] = NoUser
             /\ user' = [user EXCEPT ![u] = [email |-> i.email, subject |-> Subject(i),
                                             sso |-> TRUE, active |-> TRUE]]
             /\ SignedIn(r, u)

-----------------------------------------------------------------------------

\* The provider or the database fails, an index objects, the code is missing.
Fail(r) ==
    /\ req[r].op \notin {"idle", "done"}
    /\ Leave(r)
    /\ UNCHANGED <<user, session, config, saved, completed, signedIn>>

\* An administrator of the tenant deactivates an account or activates it.
SetActive(u) ==
    /\ user[u] # NoUser /\ ~Held(u)
    /\ user' = [user EXCEPT ![u].active = ~@]
    /\ UNCHANGED <<session, config, req, saved, completed, signedIn, raced>>

Begin(r) ==
    /\ req[r].op = "idle"
    /\ \/ \E for \in {"view", "login", "test"} :
            /\ Get(r, [Idle EXCEPT !.for = for])
            /\ UNCHANGED <<user, session, config, saved, completed, signedIn>>
       \/ \E s \in Sessions : Validate(r, s)
       \/ \E i \in Issuers, keep, enabled \in BOOLEAN : SaveRead(r, i, keep, enabled)

Configure(r) ==
    Upgrade(r) \/ SaveCommit(r) \/ TestCommit(r)

SignIn(r) ==
    \/ \E s \in Sessions : Login(r, s)
    \/ Consume(r) \/ Resolve(r)
    \/ \E i \in Identities : Authenticate(r, i)
    \/ BySubjectRead(r) \/ LegacyRead(r) \/ Migrate(r) \/ Reread(r) \/ EmailRead(r)
    \/ SignInKnown(r) \/ SignInMigrated(r) \/ SignInNew(r)

Next ==
    \/ \E r \in Requests : Begin(r) \/ Configure(r) \/ SignIn(r) \/ Fail(r)
    \/ \E u \in Users : SetActive(u)

Spec == Init /\ [][Next]_vars

-----------------------------------------------------------------------------
(***************************************************************************)
(* Properties.                                                             *)
(***************************************************************************)

\* Type invariant of the tables, the requests and the auxiliary variables.
TypeOK ==
    /\ user \in [Users -> User]
    /\ session \in [Sessions -> Session]
    /\ config \in Config
    /\ req \in [Requests -> Request]
    /\ saved \in Requests \cup {"first"}
    /\ completed \in [Sessions -> SUBSET Requests]
    /\ signedIn \in [Persons -> SUBSET Users]
    /\ raced \subseteq DOMAIN Conflicts

\* A person is signed in to one account, with whichever claims and email the
\* provider gives, and nobody else ever is, unless two callbacks overlapped:
\* both may then find an unbound account by its email, and each binds it.
OneAccountPerPerson ==
    "provision" \notin raced =>
        /\ \A p \in Persons : Cardinality(signedIn[p]) <= 1
        /\ \A p, q \in Persons : p # q => signedIn[p] \cap signedIn[q] = {}

\* "OIDC state has already been used": a state completes one login, unless two
\* callbacks with states overlapped before they had consumed them.
StateUsedOnce ==
    "callback" \notin raced => \A s \in Sessions : Cardinality(completed[s]) <= 1

\* The endpoints stored are those of the provider stored, unless a test, which
\* waits for the network between its read and its commit, overlapped a change.
EndpointsOfIssuer ==
    "endpoints" \notin raced => config.endpoints \in {None, config.issuer}

\* The client secret in force is the one saved last, though every reader of a
\* secret in the clear writes it back, unless such a request overlapped a change.
SecretIsTheSavedOne ==
    "secret" \notin raced => config.secret[1] = saved

\* What is stored of the provider is what was saved, all of it.
ConfigurationIsTheSavedOne == EndpointsOfIssuer /\ SecretIsTheSavedOne

=============================================================================

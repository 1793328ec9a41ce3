------------------------- MODULE SingleSignOnProofs -------------------------
(***************************************************************************)
(* What holds of single sign-on, for any number of accounts, states,       *)
(* requests, persons and providers.                                        *)
(*                                                                         *)
(* A request works on copies with no row locked, so that the invariant     *)
(* says what each of its copies still agrees on with the tables, as long   *)
(* as no conflict of its kind has been recorded: StateInv of the state a   *)
(* callback has consumed, ConfigInv of the configuration read to be        *)
(* changed, AccountsInv of the account looked for and found.  That the     *)
(* kinds a request conflicts with are absent while no conflict is recorded *)
(* is RequestsInv.                                                         *)
(***************************************************************************)
EXTENDS SingleSignOn, FiniteSetTheorems, TLAPS

\* What a request knows whatever others do.
Formed(m) ==
    /\ m.op \in Calling \cup Provisioning \cup {"callback"} => m.session \in Sessions
    /\ m.op = "upgrade" =>
         /\ m.for \in {"view", "login", "callback", "test"}
         /\ m.for = "callback" => m.session \in Sessions
    /\ m.op \in Provisioning => m.identity \in Identities
    /\ m.op \in {"migrate", "migrated", "reread"} => m.user \in Users
    /\ m.op = "save" => /\ m.issuer \in Issuers
                        /\ m.keep => m.config.secret[1] # None

\* Two requests, of which no conflict was recorded, do not conflict.
Apart(r, q) ==
    \A k \in DOMAIN Conflicts \ raced : ~Conflict(k, req[r].op, req[q].op)

RequestsInv ==
    /\ \A r \in Requests : Formed(req[r])
    /\ \A r, q \in Requests : r # q => Apart(r, q)

\* A callback that has consumed its state.
Consumed(m) ==
    \/ m.op \in {"consumed", "callback"} \cup Provisioning
    \/ m.op = "upgrade" /\ m.for = "callback"

\* A state is consumed by the one callback that completes its login.
StateInv ==
    /\ \A r \in Requests : Consumed(req[r]) => session[req[r].session].state = "used"
    /\ \A s \in Sessions : completed[s] # {} => session[s].state = "used"
    /\ "callback" \notin raced =>
         /\ \A r \in Requests :
              /\ req[r].op = "validated" => session[req[r].session].state = "open"
              /\ Consumed(req[r]) => completed[req[r].session] = {}
         /\ \A r, q \in Requests :
              r # q /\ Consumed(req[r]) /\ Consumed(req[q]) => req[r].session # req[q].session
         /\ \A s \in Sessions : \A a, b \in completed[s] : a = b

\* What a copy of the configuration still agrees on with the row.
ConfigHeld(m) ==
    /\ "endpoints" \notin raced =>
         /\ m.op = "test" => m.config.issuer = config.issuer
         /\ m.op = "save" => config.endpoints \in {None, m.config.endpoints}
    /\ "secret" \notin raced =>
         (m.op \in {"upgrade", "save"} => m.config.secret = config.secret)

ConfigInv ==
    /\ \A r \in Requests : ConfigHeld(req[r])
    /\ ConfigurationIsTheSavedOne

\* Account u is bound to person p, by either claim.
Bound(u, p) == user[u].subject \in {<<p, "oid">>, <<p, "sub">>}

Unbound(p) == \A v \in Users : ~Bound(v, p)

\* What a callback knows of the account of its person while it is alone.
AccountHeld(m) ==
    LET p == m.identity.person
    IN  /\ m.op = "provision" => m.user = None /\ Vouched(m.identity)
        /\ m.op = "by_sub" => /\ m.user = None /\ m.identity.claims = {"oid", "sub"}
                              /\ BySubject(<<p, "oid">>) = {}
        /\ m.op \in {"migrate", "migrated"} =>
             /\ m.identity.claims = {"oid", "sub"} /\ BySubject(<<p, "oid">>) = {}
             /\ user[m.user].subject = <<p, "sub">> /\ m.copy.subject = <<p, "sub">>
        /\ m.op # "reread"
        /\ m.op = "by_email" => m.user = None /\ Unbound(p)
        /\ m.op = "write" /\ m.user = None => Unbound(p)
        /\ m.op = "write" /\ m.user # None =>
             /\ m.user \in Users /\ m.copy.subject = user[m.user].subject
             /\ Bound(m.user, p) \/ (user[m.user].subject = None /\ Unbound(p))

\* A person has one account, which is bound by a claim that providers give.
AccountsInv ==
    "provision" \notin raced =>
        /\ \A r \in Requests : AccountHeld(req[r])
        /\ \A p \in Persons : \A u \in signedIn[p] : Bound(u, p)
        /\ \A p \in Persons : \A u, v \in Users : Bound(u, p) /\ Bound(v, p) => u = v
        /\ \A u \in Users : user[u].subject # None =>
             \E i \in Identities, c \in {"oid", "sub"} :
                 c \in i.claims /\ user[u].subject = <<i.person, c>>

IInv == TypeOK /\ RequestsInv /\ StateInv /\ ConfigInv /\ AccountsInv

USE SignOnAssumption

-----------------------------------------------------------------------------
(***************************************************************************)
(* Records and conflicts.                                                  *)
(***************************************************************************)

\* A session writes the columns it changed and leaves the others alone.
LEMMA FlushedUser ==
    ASSUME NEW row \in User, NEW copy \in User, NEW new \in User
    PROVE  /\ Flushed(row, copy, new) \in User
           /\ Flushed(row, copy, new).subject =
                IF new.subject # copy.subject THEN new.subject ELSE row.subject
  <1>1. DOMAIN row = {"email", "subject", "sso", "active"}
    BY DEF User
  <1>2. Flushed(row, copy, new) =
          [email |-> IF new.email # copy.email THEN new.email ELSE row.email,
           subject |-> IF new.subject # copy.subject THEN new.subject ELSE row.subject,
           sso |-> IF new.sso # copy.sso THEN new.sso ELSE row.sso,
           active |-> IF new.active # copy.active THEN new.active ELSE row.active]
    <2>1. Flushed(row, copy, new) = [f \in {"email", "subject", "sso", "active"} |->
                                       IF new[f] # copy[f] THEN new[f] ELSE row[f]]
      BY <1>1 DEF Flushed
    <2> QED BY <2>1
  <1> QED BY <1>2 DEF User

LEMMA FlushedConfig ==
    ASSUME NEW row \in Config, NEW copy \in Config, NEW new \in Config
    PROVE  /\ Flushed(row, copy, new) \in Config
           /\ Flushed(row, copy, new).issuer =
                IF new.issuer # copy.issuer THEN new.issuer ELSE row.issuer
           /\ Flushed(row, copy, new).endpoints =
                IF new.endpoints # copy.endpoints THEN new.endpoints ELSE row.endpoints
           /\ Flushed(row, copy, new).secret =
                IF new.secret # copy.secret THEN new.secret ELSE row.secret
  <1>1. DOMAIN row = {"issuer", "endpoints", "secret", "enabled"}
    BY DEF Config
  <1>2. Flushed(row, copy, new) =
          [issuer |-> IF new.issuer # copy.issuer THEN new.issuer ELSE row.issuer,
           endpoints |-> IF new.endpoints # copy.endpoints THEN new.endpoints
                         ELSE row.endpoints,
           secret |-> IF new.secret # copy.secret THEN new.secret ELSE row.secret,
           enabled |-> IF new.enabled # copy.enabled THEN new.enabled ELSE row.enabled]
    <2>1. Flushed(row, copy, new) = [f \in {"issuer", "endpoints", "secret", "enabled"} |->
                                       IF new[f] # copy[f] THEN new[f] ELSE row[f]]
      BY <1>1 DEF Flushed
    <2> QED BY <2>1
  <1> QED BY <1>2 DEF Config

\* Which operations conflict.
LEMMA ConflictSets ==
    /\ DOMAIN Conflicts = {"provision", "callback", "endpoints", "secret"}
    /\ \A a, b :
         /\ Conflict("provision", a, b) <=> a \in Provisioning /\ b \in Provisioning
         /\ Conflict("callback", a, b) <=> a \in Calling /\ b \in Calling
         /\ Conflict("endpoints", a, b) <=> \/ a = "test" /\ b = "save"
                                            \/ a = "save" /\ b = "test"
         /\ Conflict("secret", a, b) <=> a \in {"upgrade", "save"} /\ b \in {"upgrade", "save"}
  BY DEF Conflicts, Conflict

LEMMA RecordTypes ==
    /\ NoUser \in User /\ NoUser.subject = None
    /\ NoSession \in Session /\ NoSession.state = "none"
    /\ Idle \in Request /\ Finished \in Request
    /\ Idle.op = "idle" /\ Finished.op = "done" /\ Idle.user = None
  <1>1. NoUser \in User /\ NoUser.subject = None
    BY DEF NoUser, User
  <1>2. NoConfig \in Config
    BY DEF NoConfig, Config
  <1>3. Idle \in Request /\ Idle.op = "idle" /\ Idle.user = None
    BY <1>1, <1>2 DEF Idle, Request, Ops
  <1>4. Finished \in Request /\ Finished.op = "done"
    BY <1>3 DEF Finished, Request, Ops
  <1>5. NoSession \in Session /\ NoSession.state = "none"
    BY DEF NoSession, Session
  <1> QED BY <1>1, <1>3, <1>4, <1>5

\* A request that has ended, or has not begun, knows nothing.
LEMMA Ended ==
    ASSUME NEW m, m.op \in {"idle", "done"}
    PROVE  Formed(m) /\ ~Consumed(m) /\ ConfigHeld(m) /\ AccountHeld(m)
  BY DEF Formed, Consumed, ConfigHeld, AccountHeld, Calling, Provisioning

\* One that is not looking for an account knows nothing of accounts.
LEMMA NotProvisioning ==
    ASSUME NEW m, m.op \notin Provisioning
    PROVE  AccountHeld(m)
  BY DEF AccountHeld, Provisioning

-----------------------------------------------------------------------------
(***************************************************************************)
(* Requests: what a step of one leaves of the others.                      *)
(***************************************************************************)

\* Request r goes on with record m, and an overlap it makes is recorded.
LEMMA GotoStep ==
    ASSUME TypeOK, RequestsInv, NEW r \in Requests, NEW m \in Request, Goto(r, m), Formed(m)
    PROVE  /\ req' \in [Requests -> Request] /\ raced' \subseteq DOMAIN Conflicts
           /\ req'[r] = m /\ \A q \in Requests \ {r} : req'[q] = req[q]
           /\ raced \subseteq raced'
           /\ RequestsInv'
  <1>1. /\ req' \in [Requests -> Request] /\ raced' \subseteq DOMAIN Conflicts
        /\ req'[r] = m /\ \A q \in Requests \ {r} : req'[q] = req[q]
        /\ raced \subseteq raced'
    BY DEF TypeOK, Goto
  <1>2. \A q \in Requests : Formed(req[q])'
    BY <1>1 DEF RequestsInv, Formed
  <1>3. ASSUME NEW p \in Requests, NEW q \in Requests, p # q PROVE Apart(p, q)'
    <2> SUFFICES ASSUME NEW k \in DOMAIN Conflicts \ raced'
                 PROVE  ~Conflict(k, req'[p].op, req'[q].op)
      BY DEF Apart, Conflicts, Conflict
    <2>1. CASE p # r /\ q # r
      BY <1>1, <1>3, <2>1 DEF RequestsInv, Apart
    <2>2. \A x \in Requests \ {r} : ~Conflict(k, m.op, req[x].op)
      BY DEF Goto
    <2>3. CASE p = r
      BY <1>1, <1>3, <2>2, <2>3
    <2>4. CASE q = r
      BY <1>1, <1>3, <2>2, <2>4 DEF Conflict
    <2> QED BY <2>1, <2>3, <2>4
  <1> QED BY <1>1, <1>2, <1>3 DEF RequestsInv

LEMMA LeaveStep ==
    ASSUME TypeOK, RequestsInv, NEW r \in Requests, Leave(r)
    PROVE  /\ req' \in [Requests -> Request] /\ raced' = raced
           /\ req'[r] = Finished /\ \A q \in Requests \ {r} : req'[q] = req[q]
           /\ RequestsInv'
  <1>1. /\ req' \in [Requests -> Request] /\ raced' = raced
        /\ req'[r] = Finished /\ \A q \in Requests \ {r} : req'[q] = req[q]
    BY RecordTypes DEF TypeOK, Leave
  <1>2. \A q \in Requests : Formed(req[q])'
    <2>1. Formed(Finished)
      BY RecordTypes, Ended
    <2> QED BY <1>1, <2>1 DEF RequestsInv, Formed
  <1>3. ASSUME NEW p \in Requests, NEW q \in Requests, p # q PROVE Apart(p, q)'
    <2>1. CASE p # r /\ q # r
      BY <1>1, <1>3, <2>1 DEF RequestsInv, Apart, Conflict, Conflicts
    <2>2. CASE p = r \/ q = r
      BY <1>1, <2>2, RecordTypes, ConflictSets
      DEF Apart, Conflict, Conflicts, Provisioning, Calling
    <2> QED BY <2>1, <2>2
  <1> QED BY <1>1, <1>2, <1>3 DEF RequestsInv

\* While no conflict is recorded a request is alone with its kind.
LEMMA Alone ==
    ASSUME RequestsInv, NEW r \in Requests, NEW q \in Requests \ {r}
    PROVE  /\ "provision" \notin raced /\ req[r].op \in Provisioning =>
                req[q].op \notin Provisioning
           /\ "callback" \notin raced /\ req[r].op \in Calling => req[q].op \notin Calling
           /\ "endpoints" \notin raced /\ req[r].op = "test" => req[q].op # "save"
           /\ "endpoints" \notin raced /\ req[r].op = "save" => req[q].op # "test"
           /\ "secret" \notin raced /\ req[r].op \in {"upgrade", "save"} =>
                req[q].op \notin {"upgrade", "save"}
  <1>1. Apart(r, q)
    BY DEF RequestsInv
  <1> QED BY <1>1, ConflictSets DEF Apart

-----------------------------------------------------------------------------
(***************************************************************************)
(* The steps that only read.                                               *)
(***************************************************************************)

Quiet == UNCHANGED <<user, session, config, saved, completed, signedIn>>

\* What a request knows when it has read, or tried a migration.
Reads(r, m) ==
    /\ Goto(r, m) /\ Quiet
    /\ Formed(m) /\ ConfigHeld(m)
    /\ Consumed(m) => Consumed(req[r]) /\ m.session = req[r].session
    /\ m.op = "validated" => session[m.session].state = "open"
    /\ "provision" \notin raced' => AccountHeld(m)

Reading(r) ==
    \/ Begin(r) \/ Resolve(r) \/ \E i \in Identities : Authenticate(r, i)
    \/ BySubjectRead(r) \/ LegacyRead(r) \/ Migrate(r) \/ Reread(r) \/ EmailRead(r)
    \/ Fail(r)

\* get: what is read is what is stored.
LEMMA GetReads ==
    ASSUME TypeOK, NEW r \in Requests, NEW n \in Request, Get(r, n), Quiet,
           n.for \in {"view", "login", "callback", "test"},
           n.for = "callback" => /\ n.session \in Sessions /\ n.session = req[r].session
                                 /\ Consumed(req[r])
    PROVE  \E m \in Request : Reads(r, m)
  <1> DEFINE op == IF InTheClear THEN "upgrade" ELSE n.for
             m == [n EXCEPT !.config = config, !.op = op]
  <1>1. Goto(r, m)
    BY DEF Get
  <1>2. op \in {"upgrade", "login", "callback", "test"} /\ (op # "upgrade" => op = n.for)
    BY DEF Get
  <1> HIDE DEF op
  <1>3. m \in Request
    BY <1>2 DEF TypeOK, Request, Ops
  <1>4. m.op = op /\ m.for = n.for /\ m.config = config /\ m.session = n.session
    BY DEF Request
  <1> HIDE DEF m
  <1>5. Formed(m) /\ ConfigHeld(m) /\ AccountHeld(m)
    BY <1>2, <1>4, NotProvisioning DEF Formed, ConfigHeld, Calling, Provisioning
  <1>6. Consumed(m) => Consumed(req[r]) /\ m.session = req[r].session
    BY <1>2, <1>4 DEF Consumed, Provisioning
  <1>7. m.op # "validated"
    BY <1>2, <1>4
  <1> QED BY <1>1, <1>3, <1>5, <1>6, <1>7 DEF Reads

LEMMA BeginReads ==
    ASSUME TypeOK, NEW r \in Requests, Begin(r)
    PROVE  \E m \in Request : Reads(r, m)
  <1> USE RecordTypes
  <1>1. ASSUME NEW for \in {"view", "login", "test"}, Get(r, [Idle EXCEPT !.for = for]), Quiet
        PROVE  \E m \in Request : Reads(r, m)
    <2> DEFINE n == [Idle EXCEPT !.for = for]
    <2>1. n \in Request /\ n.for = for
      BY DEF Request
    <2> HIDE DEF n
    <2>2. Get(r, n)
      BY <1>1 DEF n
    <2> QED BY <1>1, <2>1, <2>2, GetReads
  <1>2. ASSUME NEW s \in Sessions, Validate(r, s)
        PROVE  \E m \in Request : Reads(r, m)
    <2> DEFINE m == [Idle EXCEPT !.op = "validated", !.session = s]
    <2>1. Goto(r, m) /\ Quiet /\ session[s].state = "open"
      BY <1>2 DEF Validate, Quiet
    <2>2. m \in Request /\ m.op = "validated" /\ m.session = s
      BY DEF Request, Ops
    <2> HIDE DEF m
    <2>3. Formed(m) /\ ConfigHeld(m) /\ AccountHeld(m) /\ ~Consumed(m)
      BY <2>2, NotProvisioning DEF Formed, ConfigHeld, Consumed, Calling, Provisioning
    <2> QED BY <2>1, <2>2, <2>3 DEF Reads
  <1>3. ASSUME NEW i \in Issuers, NEW keep \in BOOLEAN, NEW enabled \in BOOLEAN,
               SaveRead(r, i, keep, enabled)
        PROVE  \E m \in Request : Reads(r, m)
    <2> DEFINE m == [Idle EXCEPT !.op = "save", !.config = config, !.issuer = i,
                                 !.keep = keep, !.enabled = enabled]
    <2>1. Goto(r, m) /\ Quiet /\ (keep => config.secret[1] # None)
      BY <1>3 DEF SaveRead, Quiet
    <2>2. m \in Request
      BY DEF Request, Ops, TypeOK
    <2>3. m.op = "save" /\ m.config = config /\ m.issuer = i /\ m.keep = keep
      BY DEF Request
    <2> HIDE DEF m
    <2>4. Formed(m) /\ ConfigHeld(m) /\ AccountHeld(m) /\ ~Consumed(m)
      BY <2>1, <2>3, NotProvisioning
      DEF Formed, ConfigHeld, Consumed, Calling, Provisioning
    <2> QED BY <2>1, <2>2, <2>3, <2>4 DEF Reads
  <1> QED BY <1>1, <1>2, <1>3 DEF Begin, Quiet

LEMMA CallbackReads ==
    ASSUME TypeOK, RequestsInv, NEW r \in Requests,
           Resolve(r) \/ \E i \in Identities : Authenticate(r, i)
    PROVE  \E m \in Request : Reads(r, m)
  <1>0. req[r] \in Request /\ Formed(req[r])
    BY DEF TypeOK, RequestsInv
  <1>1. CASE Resolve(r)
    <2> DEFINE n == [req[r] EXCEPT !.for = "callback"]
    <2>1. Get(r, n) /\ Quiet /\ req[r].op = "consumed"
      BY <1>1 DEF Resolve, Quiet
    <2>2. n \in Request /\ n.for = "callback" /\ n.session = req[r].session
      BY <1>0 DEF Request
    <2> HIDE DEF n
    <2>3. n.session \in Sessions /\ Consumed(req[r])
      BY <1>0, <2>1, <2>2 DEF Formed, Consumed, Calling
    <2> QED BY <2>1, <2>2, <2>3, GetReads
  <1>2. ASSUME NEW i \in Identities, Authenticate(r, i)
        PROVE  \E m \in Request : Reads(r, m)
    <2> DEFINE m == [Idle EXCEPT !.op = "provision", !.session = req[r].session,
                                 !.identity = i]
    <2>1. Goto(r, m) /\ Quiet /\ req[r].op = "callback" /\ Vouched(i)
      BY <1>2 DEF Authenticate, Quiet
    <2>2. req[r].session \in Sessions /\ Consumed(req[r])
      BY <1>0, <2>1 DEF Formed, Consumed
    <2>3. m \in Request
      BY <2>2, RecordTypes DEF Request, Ops
    <2>4. m.op = "provision" /\ m.session = req[r].session /\ m.identity = i /\ m.user = None
      BY RecordTypes DEF Request
    <2> HIDE DEF m
    <2>5. Formed(m) /\ ConfigHeld(m) /\ AccountHeld(m)
      BY <2>1, <2>2, <2>4 DEF Formed, ConfigHeld, AccountHeld, Calling, Provisioning
    <2> QED BY <2>1, <2>2, <2>3, <2>4, <2>5 DEF Reads
  <1> QED BY <1>1, <1>2

\* A callback goes on looking for the account of its identity.
LEMMA LooksFurther ==
    ASSUME TypeOK, RequestsInv, NEW r \in Requests, NEW m \in Request,
           req[r].op \in Provisioning, m.op \in Provisioning, Goto(r, m), Quiet,
           m.identity = req[r].identity, m.session = req[r].session,
           m.op \in {"migrate", "migrated", "reread"} => m.user \in Users,
           "provision" \notin raced => AccountHeld(m)
    PROVE  Reads(r, m)
  <1>0. req[r] \in Request /\ Formed(req[r])
    BY DEF TypeOK, RequestsInv
  <1>1. Formed(m)
    BY <1>0 DEF Formed, Provisioning
  <1>2. ConfigHeld(m) /\ m.op # "validated" /\ Consumed(req[r])
    BY DEF ConfigHeld, Provisioning, Consumed
  <1>3. raced \subseteq raced'
    BY DEF Goto
  <1> QED BY <1>1, <1>2, <1>3 DEF Reads

\* A person who is found by neither claim has no account, as providers give
\* the sub of a person always or never.
LEMMA NotFound ==
    ASSUME AccountsInv, "provision" \notin raced, NEW i \in Identities,
           BySubject(Subject(i)) = {}, i.claims # {"oid", "sub"}, Vouched(i)
    PROVE  Unbound(i.person)
  <1>1. i.claims = {"oid"} \/ i.claims = {"sub"}
    <2>1. i.claims \subseteq {"oid", "sub"} /\ i.claims # {}
      OBVIOUS
    <2>2. CASE "oid" \in i.claims
      <3>1. "sub" \notin i.claims
        BY <2>1, <2>2
      <3> QED BY <2>1, <2>2, <3>1
    <2>3. CASE "oid" \notin i.claims
      BY <2>1, <2>3
    <2> QED BY <2>2, <2>3
  <1>2. BySubject(<<i.person, "oid">>) = {}
    BY <1>1 DEF Subject, Has, Vouched
  <1>3. BySubject(<<i.person, "sub">>) = {}
    <2>1. CASE i.claims = {"sub"}
      BY <2>1 DEF Subject, Has
    <2>2. CASE i.claims = {"oid"}
      <3>1. \A j \in Identities : j.person = i.person => "sub" \notin j.claims
        BY <2>2, ProviderAssumption
      <3> SUFFICES ASSUME NEW u \in Users, user[u].subject = <<i.person, "sub">> PROVE FALSE
        BY DEF BySubject
      <3>2. user[u].subject # None
        OBVIOUS
      <3>3. PICK j \in Identities, c \in {"oid", "sub"} :
              c \in j.claims /\ user[u].subject = <<j.person, c>>
        BY <3>2 DEF AccountsInv
      <3> QED BY <3>1, <3>3
    <2> QED BY <1>1, <2>1, <2>2
  <1> QED BY <1>2, <1>3 DEF Unbound, Bound, BySubject

LEMMA SubjectReads ==
    ASSUME TypeOK, RequestsInv, AccountsInv, NEW r \in Requests, BySubjectRead(r)
    PROVE  (Leave(r) /\ Quiet) \/ \E m \in Request : Reads(r, m)
  <1> DEFINE i == req[r].identity
             found == BySubject(Subject(i))
             p == i.person
  <1>0. req[r] \in Request /\ Formed(req[r]) /\ req[r].op = "provision" /\ Quiet
    BY DEF TypeOK, RequestsInv, BySubjectRead, Quiet
  <1>1. i \in Identities
    BY <1>0 DEF Formed, Provisioning
  <1>2. "provision" \notin raced => req[r].user = None /\ Vouched(i)
    BY <1>0 DEF AccountsInv, AccountHeld
  <1>3. ASSUME NEW u \in found,
               Authorized(r, found, [req[r] EXCEPT !.op = "write", !.user = u,
                                                   !.copy = user[u]])
        PROVE  (Leave(r) /\ Quiet) \/ \E m \in Request : Reads(r, m)
    <2> DEFINE m == [req[r] EXCEPT !.op = "write", !.user = u, !.copy = user[u]]
    <2>1. Leave(r) \/ Goto(r, m)
      BY <1>3 DEF Authorized
    <2>2. u \in Users /\ user[u].subject = Subject(i) /\ user[u] \in User
      BY DEF BySubject, TypeOK
    <2>3. m \in Request
      BY <1>0, <2>2 DEF Request, Ops
    <2>4. /\ m.op = "write" /\ m.user = u /\ m.copy = user[u]
          /\ m.identity = i /\ m.session = req[r].session
      BY <1>0 DEF Request
    <2> HIDE DEF m
    <2>5. Bound(u, p)
      BY <2>2 DEF Bound, Subject
    <2>6. AccountHeld(m)
      BY <2>2, <2>4, <2>5 DEF AccountHeld
    <2>7. Goto(r, m) => Reads(r, m)
      BY <1>0, <2>3, <2>4, <2>6, LooksFurther DEF Provisioning
    <2> QED BY <1>0, <2>1, <2>3, <2>7
  <1>4. ASSUME found = {},
               Goto(r, [req[r] EXCEPT !.op = IF i.claims = {"oid", "sub"} THEN "by_sub"
                                             ELSE "by_email"])
        PROVE  \E m \in Request : Reads(r, m)
    <2> DEFINE both == i.claims = {"oid", "sub"}
               m == [req[r] EXCEPT !.op = IF both THEN "by_sub" ELSE "by_email"]
    <2>1. m \in Request
      BY <1>0 DEF Request, Ops
    <2>2. /\ m.op = (IF both THEN "by_sub" ELSE "by_email") /\ m.user = req[r].user
          /\ m.identity = i /\ m.session = req[r].session
      BY <1>0 DEF Request
    <2>3. Goto(r, m)
      BY <1>4
    <2> HIDE DEF m
    <2>4. ASSUME "provision" \notin raced PROVE AccountHeld(m)
      <3>1. CASE both
        <4>1. BySubject(<<p, "oid">>) = {}
          BY <1>4, <3>1 DEF Subject, Has
        <4> QED BY <1>2, <2>2, <2>4, <3>1, <4>1 DEF AccountHeld
      <3>2. CASE ~both
        <4>1. Unbound(p)
          BY <1>1, <1>2, <1>4, <2>4, <3>2, NotFound
        <4> QED BY <1>2, <2>2, <2>4, <3>2, <4>1 DEF AccountHeld
      <3> QED BY <3>1, <3>2
    <2>5. Reads(r, m)
      BY <1>0, <2>1, <2>2, <2>3, <2>4, LooksFurther DEF Provisioning
    <2> QED BY <2>1, <2>5
  <1> QED BY <1>3, <1>4 DEF BySubjectRead

LEMMA LegacyReads ==
    ASSUME TypeOK, RequestsInv, AccountsInv, NEW r \in Requests, LegacyRead(r)
    PROVE  (Leave(r) /\ Quiet) \/ \E m \in Request : Reads(r, m)
  <1> DEFINE i == req[r].identity
             p == i.person
             found == BySubject(<<p, "sub">>)
  <1>0. req[r] \in Request /\ Formed(req[r]) /\ req[r].op = "by_sub" /\ Quiet
    BY DEF TypeOK, RequestsInv, LegacyRead, Quiet
  <1>1. "provision" \notin raced =>
          req[r].user = None /\ i.claims = {"oid", "sub"} /\ BySubject(<<p, "oid">>) = {}
    BY <1>0 DEF AccountsInv, AccountHeld
  <1>2. ASSUME found = {}, Goto(r, [req[r] EXCEPT !.op = "by_email"])
        PROVE  \E m \in Request : Reads(r, m)
    <2> DEFINE m == [req[r] EXCEPT !.op = "by_email"]
    <2>1. Goto(r, m) /\ m \in Request
      BY <1>0, <1>2 DEF Request, Ops
    <2>2. /\ m.op = "by_email" /\ m.user = req[r].user
          /\ m.identity = i /\ m.session = req[r].session
      BY <1>0 DEF Request
    <2> HIDE DEF m
    <2>3. "provision" \notin raced => AccountHeld(m)
      BY <1>1, <1>2, <2>2 DEF AccountHeld, Unbound, Bound, BySubject
    <2>4. Reads(r, m)
      BY <1>0, <2>1, <2>2, <2>3, LooksFurther DEF Provisioning
    <2> QED BY <2>1, <2>4
  <1>3. ASSUME NEW u \in found,
               Authorized(r, found, [req[r] EXCEPT !.op = "migrate", !.user = u,
                                                   !.copy = user[u]])
        PROVE  (Leave(r) /\ Quiet) \/ \E m \in Request : Reads(r, m)
    <2> DEFINE m == [req[r] EXCEPT !.op = "migrate", !.user = u, !.copy = user[u]]
    <2>1. Leave(r) \/ Goto(r, m)
      BY <1>3 DEF Authorized
    <2>2. u \in Users /\ user[u].subject = <<p, "sub">> /\ user[u] \in User
      BY DEF BySubject, TypeOK
    <2>3. m \in Request
      BY <1>0, <2>2 DEF Request, Ops
    <2>4. /\ m.op = "migrate" /\ m.user = u /\ m.copy = user[u]
          /\ m.identity = i /\ m.session = req[r].session
      BY <1>0 DEF Request
    <2> HIDE DEF m
    <2>5. "provision" \notin raced => AccountHeld(m)
      BY <1>1, <2>2, <2>4 DEF AccountHeld
    <2>6. Goto(r, m) => Reads(r, m)
      BY <1>0, <2>2, <2>3, <2>4, <2>5, LooksFurther DEF Provisioning
    <2> QED BY <1>0, <2>1, <2>3, <2>6
  <1> QED BY <1>0, <1>2, <1>3 DEF LegacyRead

\* A migration finds what it has read: it is not made by another callback.
LEMMA MigrateReads ==
    ASSUME TypeOK, RequestsInv, AccountsInv, NEW r \in Requests, Migrate(r)
    PROVE  \E m \in Request : Reads(r, m)
  <1> DEFINE i == req[r].identity
             u == req[r].user
             still == user[u].subject = <<i.person, "sub">> /\ BySubject(Subject(i)) = {}
             m == [req[r] EXCEPT !.op = IF still THEN "migrated" ELSE "reread"]
  <1>0. req[r] \in Request /\ Formed(req[r]) /\ req[r].op = "migrate" /\ Quiet
    BY DEF TypeOK, RequestsInv, Migrate, Quiet
  <1>1. Goto(r, m)
    BY DEF Migrate
  <1>2. "provision" \notin raced => AccountHeld(req[r]) /\ still
    BY <1>0 DEF AccountsInv, AccountHeld, Subject, Has
  <1> HIDE DEF still
  <1>3. m \in Request
    BY <1>0 DEF Request, Ops
  <1>4. /\ m.op = (IF still THEN "migrated" ELSE "reread") /\ m.user = u
        /\ m.copy = req[r].copy /\ m.identity = i /\ m.session = req[r].session
    BY <1>0 DEF Request
  <1> HIDE DEF m
  <1>5. "provision" \notin raced => AccountHeld(m)
    BY <1>0, <1>2, <1>4 DEF AccountHeld
  <1>6. u \in Users
    BY <1>0 DEF Formed
  <1>7. Reads(r, m)
    BY <1>0, <1>1, <1>3, <1>4, <1>5, <1>6, LooksFurther DEF Provisioning
  <1> QED BY <1>3, <1>7

LEMMA RereadReads ==
    ASSUME TypeOK, RequestsInv, AccountsInv, NEW r \in Requests, Reread(r)
    PROVE  (Leave(r) /\ Quiet) \/ \E m \in Request : Reads(r, m)
  <1> DEFINE u == req[r].user
             m == [req[r] EXCEPT !.op = "write", !.copy = user[u]]
  <1>0. req[r] \in Request /\ Formed(req[r]) /\ req[r].op = "reread" /\ Quiet
    BY DEF TypeOK, RequestsInv, Reread, Quiet
  <1>1. Leave(r) \/ Goto(r, m)
    BY DEF Reread, Authorized
  <1>2. u \in Users /\ user[u] \in User
    BY <1>0 DEF Formed, TypeOK
  <1>3. m \in Request
    BY <1>0, <1>2 DEF Request, Ops
  <1>4. m.op = "write" /\ m.identity = req[r].identity /\ m.session = req[r].session
    BY <1>0 DEF Request
  <1> HIDE DEF m
  <1>5. "provision" \in raced
    BY <1>0 DEF AccountsInv, AccountHeld
  <1>6. Goto(r, m) => Reads(r, m)
    BY <1>0, <1>3, <1>4, <1>5, LooksFurther DEF Provisioning
  <1> QED BY <1>0, <1>1, <1>3, <1>6

LEMMA EmailReads ==
    ASSUME TypeOK, RequestsInv, AccountsInv, NEW r \in Requests, EmailRead(r)
    PROVE  (Leave(r) /\ Quiet) \/ \E m \in Request : Reads(r, m)
  <1> DEFINE i == req[r].identity
             p == i.person
             found == ByEmail(i.email)
             mine == {None} \cup {<<p, c>> : c \in i.claims}
  <1>0. req[r] \in Request /\ Formed(req[r]) /\ req[r].op = "by_email" /\ Quiet
    BY DEF TypeOK, RequestsInv, EmailRead, Quiet
  <1>1. "provision" \notin raced => req[r].user = None /\ Unbound(p)
    BY <1>0 DEF AccountsInv, AccountHeld
  <1>2. ASSUME Goto(r, [req[r] EXCEPT !.op = "write"])
        PROVE  \E m \in Request : Reads(r, m)
    <2> DEFINE m == [req[r] EXCEPT !.op = "write"]
    <2>1. Goto(r, m) /\ m \in Request
      BY <1>0, <1>2 DEF Request, Ops
    <2>2. /\ m.op = "write" /\ m.user = req[r].user
          /\ m.identity = i /\ m.session = req[r].session
      BY <1>0 DEF Request
    <2> HIDE DEF m
    <2>3. "provision" \notin raced => AccountHeld(m)
      BY <1>1, <2>2 DEF AccountHeld
    <2>4. Reads(r, m)
      BY <1>0, <2>1, <2>2, <2>3, LooksFurther DEF Provisioning
    <2> QED BY <2>1, <2>4
  <1>3. ASSUME NEW u \in found, user[u].subject \in mine,
               Authorized(r, found, [req[r] EXCEPT !.op = "write", !.user = u,
                                                   !.copy = user[u]])
        PROVE  (Leave(r) /\ Quiet) \/ \E m \in Request : Reads(r, m)
    <2> DEFINE m == [req[r] EXCEPT !.op = "write", !.user = u, !.copy = user[u]]
    <2>1. Leave(r) \/ Goto(r, m)
      BY <1>3 DEF Authorized
    <2>2. u \in Users /\ user[u] \in User
      BY DEF ByEmail, TypeOK
    <2>3. m \in Request
      BY <1>0, <2>2 DEF Request, Ops
    <2>4. /\ m.op = "write" /\ m.user = u /\ m.copy = user[u]
          /\ m.identity = i /\ m.session = req[r].session
      BY <1>0 DEF Request
    <2> HIDE DEF m
    <2>5. user[u].subject = None \/ Bound(u, p)
      <3>1. i \in Identities
        BY <1>0 DEF Formed, Provisioning
      <3>2. i.claims \subseteq {"oid", "sub"}
        BY <3>1
      <3> QED BY <1>3, <3>2 DEF Bound
    <2>6. "provision" \notin raced => AccountHeld(m)
      BY <1>1, <2>2, <2>4, <2>5 DEF AccountHeld
    <2>7. Goto(r, m) => Reads(r, m)
      BY <1>0, <2>3, <2>4, <2>6, LooksFurther DEF Provisioning
    <2> QED BY <1>0, <2>1, <2>3, <2>7
  <1> QED BY <1>0, <1>2, <1>3 DEF EmailRead

LEMMA Readings ==
    ASSUME TypeOK, RequestsInv, AccountsInv, NEW r \in Requests, Reading(r)
    PROVE  (Leave(r) /\ Quiet) \/ \E m \in Request : Reads(r, m)
  <1>1. CASE Fail(r)
    BY <1>1 DEF Fail, Quiet
  <1> QED BY <1>1, BeginReads, CallbackReads, SubjectReads, LegacyReads, MigrateReads,
             RereadReads, EmailReads DEF Reading

-----------------------------------------------------------------------------
(***************************************************************************)
(* The steps that write.                                                   *)
(***************************************************************************)

\* The secret is encrypted, and nothing else changes where it is still the one
\* that was read.
LEMMA UpgradeWrites ==
    ASSUME TypeOK, RequestsInv, NEW r \in Requests, Upgrade(r)
    PROVE  /\ UNCHANGED <<user, session, saved, completed, signedIn>>
           /\ config' \in Config /\ config'.issuer = config.issuer
           /\ config'.endpoints = config.endpoints
           /\ req[r].config.secret = config.secret => config'.secret[1] = config.secret[1]
           /\ req[r].op = "upgrade"
           /\ \/ Leave(r)
              \/ \E m \in Request :
                   /\ Goto(r, m) /\ Formed(m) /\ m.op \in {"login", "callback", "test"}
                   /\ m.config = config' /\ m.session = req[r].session
                   /\ m.op = "callback" => Consumed(req[r])
  <1> DEFINE c == req[r].config
             new == [c EXCEPT !.secret = <<c.secret[1], TRUE>>]
             row == Flushed(config, c, new)
             m == [req[r] EXCEPT !.op = req[r].for, !.config = row]
  <1>0. req[r] \in Request /\ Formed(req[r]) /\ req[r].op = "upgrade" /\ config \in Config
    BY DEF TypeOK, RequestsInv, Upgrade
  <1>1. c \in Config
    BY <1>0 DEF Request
  <1>2. /\ new \in Config /\ new.issuer = c.issuer /\ new.endpoints = c.endpoints
        /\ new.secret = <<c.secret[1], TRUE>>
    <2>1. c.secret \in (Requests \cup {"first", None}) \X BOOLEAN
      BY <1>1 DEF Config
    <2>2. <<c.secret[1], TRUE>> \in (Requests \cup {"first", None}) \X BOOLEAN
      BY <2>1
    <2> QED BY <1>1, <2>2 DEF Config
  <1>3. config' = row /\ UNCHANGED <<user, session, saved, completed, signedIn>>
    BY DEF Upgrade
  <1>4. IF req[r].for = "view" THEN Leave(r) ELSE Goto(r, m)
    BY DEF Upgrade
  <1> HIDE DEF new
  <1>5. /\ row \in Config /\ row.issuer = config.issuer /\ row.endpoints = config.endpoints
        /\ row.secret = IF new.secret # c.secret THEN new.secret ELSE config.secret
    <2>1. /\ row \in Config
          /\ row.issuer = IF new.issuer # c.issuer THEN new.issuer ELSE config.issuer
          /\ row.endpoints = IF new.endpoints # c.endpoints THEN new.endpoints
                             ELSE config.endpoints
          /\ row.secret = IF new.secret # c.secret THEN new.secret ELSE config.secret
      <3>1. config \in Config /\ c \in Config /\ new \in Config
        BY <1>0, <1>1, <1>2
      <3> HIDE DEF c
      <3> QED BY <3>1, FlushedConfig
    <2> HIDE DEF row
    <2> QED BY <1>2, <2>1
  <1>6. c.secret = config.secret => row.secret[1] = config.secret[1]
    BY <1>2, <1>5
  <1> HIDE DEF row
  <1>7. ASSUME req[r].for # "view"
        PROVE  /\ m \in Request /\ Formed(m) /\ m.op \in {"login", "callback", "test"}
               /\ m.config = config' /\ m.session = req[r].session
               /\ m.op = "callback" => Consumed(req[r])
    <2>1. req[r].for \in {"login", "callback", "test"}
      BY <1>0, <1>7 DEF Formed
    <2>2. /\ m \in Request /\ m.op = req[r].for /\ m.config = row
          /\ m.session = req[r].session
      BY <1>0, <1>5, <2>1 DEF Request, Ops
    <2>3. Formed(m)
      BY <1>0, <2>1, <2>2 DEF Formed, Calling, Provisioning
    <2> QED BY <1>0, <1>3, <2>1, <2>2, <2>3 DEF Consumed
  <1> QED BY <1>0, <1>3, <1>4, <1>5, <1>6, <1>7

\* What is saved is what is stored, and no endpoints of an earlier provider.
LEMMA SaveWrites ==
    ASSUME TypeOK, RequestsInv, NEW r \in Requests, SaveCommit(r)
    PROVE  /\ UNCHANGED <<user, session, completed, signedIn>> /\ Leave(r)
           /\ config' \in Config /\ saved' \in Requests \cup {"first"}
           /\ config.endpoints \in {None, req[r].config.endpoints} => config'.endpoints = None
           /\ req[r].config.secret = config.secret => config'.secret[1] = saved'
           /\ req[r].op = "save"
  <1> DEFINE c == req[r].config
             secret == <<IF req[r].keep THEN c.secret[1] ELSE r, TRUE>>
             new == [issuer |-> req[r].issuer, endpoints |-> None, secret |-> secret,
                     enabled |-> req[r].enabled]
             row == Flushed(config, c, new)
  <1>0. req[r] \in Request /\ Formed(req[r]) /\ req[r].op = "save" /\ config \in Config
    BY DEF TypeOK, RequestsInv, SaveCommit
  <1>1. c \in Config
    BY <1>0 DEF Request
  <1>2. secret \in (Requests \cup {"first"}) \X BOOLEAN
    <2>1. c.secret[1] \in Requests \cup {"first", None}
      BY <1>1 DEF Config
    <2>2. req[r].keep => c.secret[1] # None
      BY <1>0 DEF Formed
    <2> QED BY <2>1, <2>2
  <1>3. config' = row /\ saved' = secret[1]
    BY DEF SaveCommit
  <1>4. UNCHANGED <<user, session, completed, signedIn>> /\ Leave(r)
    BY DEF SaveCommit
  <1> HIDE DEF secret
  <1>5. new \in Config /\ new.endpoints = None /\ new.secret = secret
    BY <1>0, <1>2 DEF Config, Request
  <1> HIDE DEF new
  <1>6. /\ row \in Config
        /\ row.endpoints = IF new.endpoints # c.endpoints THEN new.endpoints
                           ELSE config.endpoints
        /\ row.secret = IF new.secret # c.secret THEN new.secret ELSE config.secret
    BY <1>0, <1>1, <1>5, FlushedConfig
  <1> QED BY <1>0, <1>2, <1>3, <1>4, <1>5, <1>6

\* The endpoints found are those of the provider that was asked.
LEMMA TestWrites ==
    ASSUME TypeOK, RequestsInv, NEW r \in Requests, TestCommit(r)
    PROVE  /\ UNCHANGED <<user, session, saved, completed, signedIn>> /\ Leave(r)
           /\ config' \in Config /\ config'.issuer = config.issuer
           /\ config'.secret = config.secret
           /\ req[r].config.issuer = config.issuer
                => config'.endpoints \in {config.issuer, config.endpoints}
           /\ req[r].op = "test"
  <1> DEFINE c == req[r].config
             new == [c EXCEPT !.endpoints = c.issuer]
             row == Flushed(config, c, new)
  <1>0. req[r] \in Request /\ req[r].op = "test" /\ config \in Config
    BY DEF TypeOK, TestCommit
  <1>1. c \in Config
    BY <1>0 DEF Request
  <1>2. /\ new \in Config /\ new.issuer = c.issuer /\ new.endpoints = c.issuer
        /\ new.secret = c.secret
    BY <1>1 DEF Config
  <1>3. /\ config' = row /\ UNCHANGED <<user, session, saved, completed, signedIn>>
        /\ Leave(r)
    BY DEF TestCommit
  <1> HIDE DEF new
  <1>4. /\ row \in Config /\ row.issuer = config.issuer /\ row.secret = config.secret
        /\ row.endpoints = IF new.endpoints # c.endpoints THEN new.endpoints
                           ELSE config.endpoints
    BY <1>0, <1>1, <1>2, FlushedConfig
  <1> QED BY <1>0, <1>2, <1>3, <1>4

LEMMA ConsumeWrites ==
    ASSUME TypeOK, RequestsInv, NEW r \in Requests, Consume(r)
    PROVE  /\ UNCHANGED <<user, config, saved, completed, signedIn>>
           /\ session' \in [Sessions -> Session]
           /\ req[r].op = "validated" /\ req[r].session \in Sessions
           /\ session'[req[r].session].state = "used"
           /\ \A s \in Sessions \ {req[r].session} : session'[s] = session[s]
           /\ \E m \in Request : /\ Goto(r, m) /\ Formed(m) /\ m.op = "consumed"
                                 /\ m.session = req[r].session
  <1> DEFINE s == req[r].session
             m == [req[r] EXCEPT !.op = "consumed"]
  <1>0. req[r] \in Request /\ Formed(req[r]) /\ req[r].op = "validated"
    BY DEF TypeOK, RequestsInv, Consume
  <1>1. s \in Sessions
    BY <1>0 DEF Formed, Calling
  <1>2. m \in Request /\ m.op = "consumed" /\ m.session = s
    BY <1>0 DEF Request, Ops
  <1>3. Formed(m)
    BY <1>1, <1>2 DEF Formed, Calling, Provisioning
  <1>4. /\ Goto(r, m) /\ session' = [session EXCEPT ![s].state = "used"]
        /\ UNCHANGED <<user, config, saved, completed, signedIn>>
    BY DEF Consume
  <1>5. session \in [Sessions -> Session] /\ session[s] \in Session
    BY <1>1 DEF TypeOK
  <1>6. /\ [session[s] EXCEPT !.state = "used"] \in Session
        /\ [session[s] EXCEPT !.state = "used"].state = "used"
    BY <1>5 DEF Session
  <1>7. session' = [session EXCEPT ![s] = [session[s] EXCEPT !.state = "used"]]
    BY <1>4
  <1> QED BY <1>0, <1>1, <1>2, <1>3, <1>4, <1>5, <1>6, <1>7

LEMMA LoginWrites ==
    ASSUME TypeOK, NEW r \in Requests, NEW s \in Sessions, Login(r, s)
    PROVE  /\ UNCHANGED <<user, config, saved, completed, signedIn>> /\ Leave(r)
           /\ session' \in [Sessions -> Session]
           /\ session[s].state = "none" /\ session'[s].state = "open"
           /\ \A t \in Sessions \ {s} : session'[t] = session[t]
  <1>0. req[r] \in Request /\ session \in [Sessions -> Session]
    BY DEF TypeOK
  <1>1. [state |-> "open", issuer |-> req[r].config.issuer] \in Session
    BY <1>0 DEF Request, Config, Session
  <1> QED BY <1>0, <1>1 DEF Login

\* A callback signs its person in to account u, and commits its row.
Signs(r, u, row) ==
    LET i == req[r].identity
        p == i.person
    IN  /\ req[r].op \in Provisioning /\ i \in Identities /\ req[r].session \in Sessions
        /\ u \in Users /\ row \in User
        /\ user' = [user EXCEPT ![u] = row]
        /\ signedIn' = [signedIn EXCEPT ![p] = @ \cup {u}]
        /\ completed' = [completed EXCEPT ![req[r].session] = @ \cup {r}]
        /\ Leave(r) /\ UNCHANGED <<session, config, saved>>
        /\ "provision" \notin raced =>
             /\ Bound(u, p) \/ (user[u].subject = None /\ Unbound(p))
             /\ (row.subject = user[u].subject /\ Bound(u, p)) \/ row.subject = Subject(i)

LEMMA SubjectType ==
    ASSUME NEW i \in Identities
    PROVE  /\ i.person \in Persons /\ Subject(i) \in Subjects /\ Subject(i) # None
           /\ Subject(i) \in {<<i.person, "oid">>, <<i.person, "sub">>}
           /\ \E c \in {"oid", "sub"} : c \in i.claims /\ Subject(i) = <<i.person, c>>
           /\ i.email \in Emails
  <1>1. i.person \in Persons /\ i.claims \subseteq {"oid", "sub"} /\ i.claims # {}
        /\ i.email \in Emails
    OBVIOUS
  <1>2. CASE "oid" \in i.claims
    BY <1>1, <1>2 DEF Subject, Subjects, Has
  <1>3. CASE "oid" \notin i.claims
    <2>1. "sub" \in i.claims
      BY <1>1, <1>3
    <2> QED BY <1>1, <1>3, <2>1 DEF Subject, Subjects, Has
  <1> QED BY <1>2, <1>3

LEMMA KnownSigns ==
    ASSUME TypeOK, RequestsInv, AccountsInv, NEW r \in Requests, SignInKnown(r)
    PROVE  \E u, row : Signs(r, u, row)
  <1> DEFINE u == req[r].user
             c == req[r].copy
             i == req[r].identity
             p == i.person
             subject == IF c.subject = None THEN Subject(i) ELSE c.subject
             new == [c EXCEPT !.sso = TRUE, !.subject = subject]
             row == Flushed(user[u], c, new)
  <1>0. /\ req[r] \in Request /\ Formed(req[r]) /\ req[r].op = "write" /\ u # None
        /\ c.subject = None => BySubject(new.subject) \subseteq {u}
    BY DEF TypeOK, RequestsInv, SignInKnown
  <1>1. u \in Users /\ c \in User /\ i \in Identities /\ req[r].session \in Sessions
        /\ user[u] \in User
    BY <1>0 DEF Request, Formed, Provisioning, TypeOK
  <1>2. /\ user' = [user EXCEPT ![u] = row]
        /\ signedIn' = [signedIn EXCEPT ![p] = @ \cup {u}]
        /\ completed' = [completed EXCEPT ![req[r].session] = @ \cup {r}]
        /\ Leave(r) /\ UNCHANGED <<session, config, saved>>
    BY DEF SignInKnown, SignedIn
  <1>3. subject \in Subjects \cup {None}
    BY <1>1, SubjectType DEF User
  <1>4. new \in User /\ new.subject = subject
    BY <1>1, <1>3 DEF User
  <1> HIDE DEF new
  <1>5. /\ row \in User
        /\ row.subject = IF new.subject # c.subject THEN new.subject ELSE user[u].subject
    BY <1>1, <1>4, FlushedUser
  <1>6. ASSUME "provision" \notin raced
        PROVE  /\ Bound(u, p) \/ (user[u].subject = None /\ Unbound(p))
               /\ (row.subject = user[u].subject /\ Bound(u, p)) \/ row.subject = Subject(i)
    <2>1. /\ c.subject = user[u].subject
          /\ Bound(u, p) \/ (user[u].subject = None /\ Unbound(p))
      BY <1>0, <1>6 DEF AccountsInv, AccountHeld
    <2>2. CASE c.subject = None
      BY <1>1, <1>4, <1>5, <2>1, <2>2, SubjectType
    <2>3. CASE c.subject # None
      BY <1>4, <1>5, <2>1, <2>3
    <2> QED BY <2>1, <2>2, <2>3
  <1> HIDE DEF row
  <1> QED BY <1>0, <1>1, <1>2, <1>5, <1>6 DEF Signs, Provisioning

LEMMA MigratedSigns ==
    ASSUME TypeOK, RequestsInv, AccountsInv, NEW r \in Requests, SignInMigrated(r)
    PROVE  \E u, row : Signs(r, u, row)
  <1> DEFINE u == req[r].user
             c == req[r].copy
             i == req[r].identity
             p == i.person
             new == [c EXCEPT !.sso = TRUE]
             flushed == Flushed(user[u], c, new)
             row == [flushed EXCEPT !.subject = Subject(i)]
  <1>0. req[r] \in Request /\ Formed(req[r]) /\ req[r].op = "migrated"
    BY DEF TypeOK, RequestsInv, SignInMigrated
  <1>1. u \in Users /\ c \in User /\ i \in Identities /\ req[r].session \in Sessions
        /\ user[u] \in User
    BY <1>0 DEF Request, Formed, Provisioning, TypeOK
  <1>2. /\ user' = [user EXCEPT ![u] = row]
        /\ signedIn' = [signedIn EXCEPT ![p] = @ \cup {u}]
        /\ completed' = [completed EXCEPT ![req[r].session] = @ \cup {r}]
        /\ Leave(r) /\ UNCHANGED <<session, config, saved>>
    BY DEF SignInMigrated, SignedIn
  <1>3. new \in User
    BY <1>1 DEF User
  <1>4. flushed \in User
    BY <1>1, <1>3, FlushedUser
  <1> HIDE DEF flushed
  <1>5. row \in User /\ row.subject = Subject(i)
    BY <1>1, <1>4, SubjectType DEF User
  <1>6. "provision" \notin raced => Bound(u, p)
    BY <1>0 DEF AccountsInv, AccountHeld, Bound
  <1> HIDE DEF row
  <1> QED BY <1>0, <1>1, <1>2, <1>5, <1>6 DEF Signs, Provisioning

LEMMA NewSigns ==
    ASSUME TypeOK, RequestsInv, AccountsInv, NEW r \in Requests, SignInNew(r)
    PROVE  \E u, row : Signs(r, u, row)
  <1> DEFINE i == req[r].identity
             row == [email |-> i.email, subject |-> Subject(i), sso |-> TRUE, active |-> TRUE]
  <1>0. req[r] \in Request /\ Formed(req[r]) /\ req[r].op = "write" /\ req[r].user = None
    BY DEF TypeOK, RequestsInv, SignInNew
  <1>1. i \in Identities /\ req[r].session \in Sessions
    BY <1>0 DEF Formed, Provisioning
  <1>2. PICK u \in Users :
          user[u] = NoUser /\ user' = [user EXCEPT ![u] = row] /\ SignedIn(r, u)
    BY DEF SignInNew
  <1>3. /\ signedIn' = [signedIn EXCEPT ![i.person] = @ \cup {u}]
        /\ completed' = [completed EXCEPT ![req[r].session] = @ \cup {r}]
        /\ Leave(r) /\ UNCHANGED <<session, config, saved>>
    BY <1>2 DEF SignedIn
  <1>4. row \in User /\ row.subject = Subject(i)
    BY <1>1, SubjectType DEF User
  <1>5. "provision" \notin raced => user[u].subject = None /\ Unbound(i.person)
    BY <1>0, <1>2, RecordTypes DEF AccountsInv, AccountHeld
  <1> HIDE DEF row
  <1> QED BY <1>0, <1>1, <1>2, <1>3, <1>4, <1>5 DEF Signs, Provisioning

\* An account keeps its subject when an administrator changes its activity.
LEMMA ActiveWrites ==
    ASSUME TypeOK, NEW u \in Users, SetActive(u)
    PROVE  /\ user' \in [Users -> User]
           /\ \A v \in Users : user'[v].subject = user[v].subject
           /\ UNCHANGED <<session, config, req, saved, completed, signedIn, raced>>
  <1>1. user \in [Users -> User] /\ user[u] \in User
    BY DEF TypeOK
  <1>2. /\ [user[u] EXCEPT !.active = ~user[u].active] \in User
        /\ [user[u] EXCEPT !.active = ~user[u].active].subject = user[u].subject
    BY <1>1 DEF User
  <1>3. /\ user' = [user EXCEPT ![u] = [user[u] EXCEPT !.active = ~user[u].active]]
        /\ UNCHANGED <<session, config, req, saved, completed, signedIn, raced>>
    BY DEF SetActive
  <1> QED BY <1>1, <1>2, <1>3

\* What a step can be, seen from the invariant.
Kinds ==
    \/ \E r \in Requests :
         \/ Leave(r) /\ Quiet
         \/ \E m \in Request : Reads(r, m)
         \/ Upgrade(r) \/ SaveCommit(r) \/ TestCommit(r) \/ Consume(r)
         \/ \E s \in Sessions : Login(r, s)
         \/ \E u, row : Signs(r, u, row)
    \/ \E u \in Users : SetActive(u)
    \/ UNCHANGED vars

LEMMA Steps == TypeOK /\ RequestsInv /\ AccountsInv /\ [Next]_vars => Kinds
  <1> SUFFICES ASSUME TypeOK, RequestsInv, AccountsInv, [Next]_vars PROVE Kinds
    OBVIOUS
  <1>1. ASSUME NEW r \in Requests, Reading(r) PROVE Kinds
    BY <1>1, Readings DEF Kinds
  <1>2. ASSUME NEW r \in Requests, SignInKnown(r) \/ SignInMigrated(r) \/ SignInNew(r)
        PROVE  Kinds
    <2>1. \E u, row : Signs(r, u, row)
      BY <1>2, KnownSigns, MigratedSigns, NewSigns
    <2> QED BY <2>1 DEF Kinds
  <1>3. ASSUME NEW r \in Requests,
               Configure(r) \/ Consume(r) \/ \E s \in Sessions : Login(r, s)
        PROVE  Kinds
    BY <1>3 DEF Kinds, Configure
  <1>4. CASE (\E u \in Users : SetActive(u)) \/ UNCHANGED vars
    BY <1>4 DEF Kinds
  <1>5. ASSUME NEW r \in Requests, Begin(r) \/ Fail(r) PROVE Kinds
    BY <1>1, <1>5 DEF Reading
  <1>6. ASSUME NEW r \in Requests, SignIn(r) PROVE Kinds
    BY <1>1, <1>2, <1>3, <1>6 DEF SignIn, Reading
  <1> QED BY <1>3, <1>4, <1>5, <1>6 DEF Next

-----------------------------------------------------------------------------
(***************************************************************************)
(* Types and requests.                                                     *)
(***************************************************************************)

LEMMA NextTypes == TypeOK /\ RequestsInv /\ Kinds => TypeOK' /\ RequestsInv'
  <1> SUFFICES ASSUME TypeOK, RequestsInv, Kinds PROVE TypeOK' /\ RequestsInv'
    OBVIOUS
  <1> DEFINE Tables ==
               /\ user' \in [Users -> User] /\ session' \in [Sessions -> Session]
               /\ config' \in Config /\ saved' \in Requests \cup {"first"}
               /\ completed' \in [Sessions -> SUBSET Requests]
               /\ signedIn' \in [Persons -> SUBSET Users]
  <1>1. ASSUME NEW r \in Requests, Leave(r), Tables PROVE TypeOK' /\ RequestsInv'
    BY <1>1, LeaveStep DEF TypeOK
  <1>2. ASSUME NEW r \in Requests, NEW m \in Request, Goto(r, m), Formed(m), Tables
        PROVE  TypeOK' /\ RequestsInv'
    BY <1>2, GotoStep DEF TypeOK
  <1>3. ASSUME Quiet PROVE Tables
    BY <1>3 DEF Quiet, TypeOK
  <1>4. ASSUME NEW r \in Requests, (Leave(r) /\ Quiet) \/ \E m \in Request : Reads(r, m)
        PROVE  TypeOK' /\ RequestsInv'
    BY <1>1, <1>2, <1>3, <1>4 DEF Reads
  <1>5. ASSUME NEW r \in Requests, Upgrade(r) PROVE TypeOK' /\ RequestsInv'
    <2>1. Tables
      BY <1>5, UpgradeWrites DEF TypeOK
    <2> QED BY <1>1, <1>2, <1>5, <2>1, UpgradeWrites
  <1>6. ASSUME NEW r \in Requests, SaveCommit(r) PROVE TypeOK' /\ RequestsInv'
    <2>1. Tables
      BY <1>6, SaveWrites DEF TypeOK
    <2> QED BY <1>1, <1>6, <2>1, SaveWrites
  <1>7. ASSUME NEW r \in Requests, TestCommit(r) PROVE TypeOK' /\ RequestsInv'
    <2>1. Tables
      BY <1>7, TestWrites DEF TypeOK
    <2> QED BY <1>1, <1>7, <2>1, TestWrites
  <1>8. ASSUME NEW r \in Requests, Consume(r) PROVE TypeOK' /\ RequestsInv'
    <2>1. Tables
      BY <1>8, ConsumeWrites DEF TypeOK
    <2> QED BY <1>2, <1>8, <2>1, ConsumeWrites
  <1>9. ASSUME NEW r \in Requests, NEW s \in Sessions, Login(r, s)
        PROVE  TypeOK' /\ RequestsInv'
    <2>1. Tables
      BY <1>9, LoginWrites DEF TypeOK
    <2> QED BY <1>1, <1>9, <2>1, LoginWrites
  <1>10. ASSUME NEW r \in Requests, NEW u, NEW row, Signs(r, u, row)
         PROVE  TypeOK' /\ RequestsInv'
    <2>1. u \in Users /\ req[r].identity.person \in Persons /\ req[r].session \in Sessions
      BY <1>10, SubjectType DEF Signs
    <2>2. Tables
      BY <1>10, <2>1 DEF Signs, TypeOK
    <2> QED BY <1>1, <1>10, <2>2 DEF Signs
  <1>11. ASSUME NEW u \in Users, SetActive(u) PROVE TypeOK' /\ RequestsInv'
    <2>1. TypeOK'
      BY <1>11, ActiveWrites DEF TypeOK
    <2>2. req' = req /\ raced' = raced
      BY <1>11, ActiveWrites
    <2> QED BY <2>1, <2>2 DEF RequestsInv, Formed, Apart, Conflict, Conflicts
  <1>12. CASE UNCHANGED vars
    BY <1>12 DEF vars, TypeOK, RequestsInv, Formed, Apart, Conflict, Conflicts
  <1> HIDE DEF Tables
  <1> QED BY <1>4, <1>5, <1>6, <1>7, <1>8, <1>9, <1>10, <1>11, <1>12 DEF Kinds

-----------------------------------------------------------------------------
(***************************************************************************)
(* The state of a login.                                                   *)
(***************************************************************************)

\* A step that consumes no state and completes no login: request r at most
\* keeps what it has consumed.
LEMMA StateStep ==
    ASSUME TypeOK, RequestsInv, StateInv, NEW r \in Requests,
           \A q \in Requests \ {r} : req'[q] = req[q],
           raced \subseteq raced', completed' = completed,
           \A s \in Sessions :
              session'[s].state = session[s].state \/ session[s].state = "none",
           Consumed(req'[r]) => Consumed(req[r]) /\ req'[r].session = req[r].session,
           req'[r].op = "validated" => session'[req'[r].session].state = "open"
    PROVE  StateInv'
  <1>1. ASSUME NEW q \in Requests, Consumed(req'[q])
        PROVE  /\ Consumed(req[q]) /\ req'[q].session = req[q].session
               /\ req[q].session \in Sessions
    <2>1. Consumed(req[q]) /\ req'[q].session = req[q].session
      BY <1>1
    <2> QED BY <2>1 DEF RequestsInv, Formed, Consumed, Calling, Provisioning
  <1>2. ASSUME NEW q \in Requests, Consumed(req'[q])
        PROVE  session'[req'[q].session].state = "used"
    BY <1>1, <1>2 DEF StateInv
  <1>3. ASSUME NEW s \in Sessions, completed[s] # {} PROVE session'[s].state = "used"
    BY <1>3 DEF StateInv
  <1>4. ASSUME "callback" \notin raced', NEW q \in Requests, req'[q].op = "validated"
        PROVE  session'[req'[q].session].state = "open"
    <2>1. CASE q = r
      BY <1>4, <2>1
    <2>2. CASE q # r
      <3>1. req'[q] = req[q] /\ session[req[q].session].state = "open"
        BY <1>4, <2>2 DEF StateInv
      <3>2. req[q].session \in Sessions
        BY <1>4, <3>1 DEF RequestsInv, Formed, Calling
      <3> QED BY <3>1, <3>2
    <2> QED BY <2>1, <2>2
  <1> QED BY <1>1, <1>2, <1>3, <1>4 DEF StateInv, Consumed

LEMMA NextState == TypeOK /\ RequestsInv /\ StateInv /\ Kinds => StateInv'
  <1> SUFFICES ASSUME TypeOK, RequestsInv, StateInv, Kinds PROVE StateInv'
    OBVIOUS
  <1> USE RecordTypes
  <1>0. ~Consumed(Finished) /\ Finished.op # "validated"
    BY Ended
  <1>1. ASSUME NEW r \in Requests, Leave(r), completed' = completed,
               \A s \in Sessions :
                  session'[s].state = session[s].state \/ session[s].state = "none"
        PROVE  StateInv'
    <2>1. raced' = raced /\ req'[r] = Finished /\ \A q \in Requests \ {r} : req'[q] = req[q]
      BY <1>1, LeaveStep
    <2> QED BY <1>0, <1>1, <2>1, StateStep
  <1>2. ASSUME NEW r \in Requests, NEW m \in Request, Goto(r, m), Formed(m),
               completed' = completed, session' = session,
               Consumed(m) => Consumed(req[r]) /\ m.session = req[r].session,
               m.op = "validated" => session[m.session].state = "open"
        PROVE  StateInv'
    <2>1. /\ raced \subseteq raced' /\ req'[r] = m
          /\ \A q \in Requests \ {r} : req'[q] = req[q]
      BY <1>2, GotoStep
    <2> QED BY <1>2, <2>1, StateStep
  <1>3. ASSUME NEW r \in Requests, (Leave(r) /\ Quiet) \/ \E m \in Request : Reads(r, m)
        PROVE  StateInv'
    BY <1>1, <1>2, <1>3 DEF Reads, Quiet
  <1>4. ASSUME NEW r \in Requests, Upgrade(r) PROVE StateInv'
    <2>1. session' = session /\ completed' = completed
      BY <1>4, UpgradeWrites
    <2>2. CASE Leave(r)
      BY <1>1, <2>1, <2>2
    <2>3. ASSUME NEW m \in Request, Goto(r, m), Formed(m),
                 m.op \in {"login", "callback", "test"},
                 m.session = req[r].session, m.op = "callback" => Consumed(req[r])
          PROVE  StateInv'
      <3>1. Consumed(m) => Consumed(req[r])
        BY <2>3 DEF Consumed, Provisioning
      <3> QED BY <1>2, <2>1, <2>3, <3>1
    <2> QED BY <1>4, <2>2, <2>3, UpgradeWrites
  <1>5. ASSUME NEW r \in Requests, SaveCommit(r) \/ TestCommit(r) PROVE StateInv'
    BY <1>1, <1>5, SaveWrites, TestWrites
  <1>6. ASSUME NEW r \in Requests, NEW s \in Sessions, Login(r, s) PROVE StateInv'
    BY <1>1, <1>6, LoginWrites
  <1>7. ASSUME NEW r \in Requests, Consume(r) PROVE StateInv'
    <2> DEFINE s == req[r].session
    <2>1. /\ completed' = completed /\ s \in Sessions /\ req[r].op = "validated"
          /\ session'[s].state = "used" /\ \A t \in Sessions \ {s} : session'[t] = session[t]
      BY <1>7, ConsumeWrites
    <2>2. PICK m \in Request :
            Goto(r, m) /\ Formed(m) /\ m.op = "consumed" /\ m.session = s
      BY <1>7, ConsumeWrites
    <2>3. /\ raced \subseteq raced' /\ req'[r] = m
          /\ \A q \in Requests \ {r} : req'[q] = req[q]
      BY <2>2, GotoStep
    <2>4. ASSUME NEW q \in Requests, Consumed(req'[q])
          PROVE  /\ req'[q].session \in Sessions /\ session'[req'[q].session].state = "used"
                 /\ q # r => session[req[q].session].state = "used"
      <3>1. CASE q = r
        BY <2>1, <2>2, <2>3, <3>1
      <3>2. CASE q # r
        <4>1. req'[q] = req[q] /\ req[q].session \in Sessions
          BY <2>3, <2>4, <3>2
          DEF RequestsInv, Formed, Consumed, Calling, Provisioning
        <4> QED BY <2>1, <2>4, <4>1 DEF StateInv
      <3> QED BY <3>1, <3>2
    <2>5. ASSUME NEW t \in Sessions, completed[t] # {} PROVE session'[t].state = "used"
      BY <2>1, <2>5 DEF StateInv
    <2>6. ASSUME "callback" \notin raced'
          PROVE  /\ \A q \in Requests :
                      /\ req'[q].op # "validated"
                      /\ Consumed(req'[q]) => completed[req'[q].session] = {}
                 /\ \A q, x \in Requests :
                      q # x /\ Consumed(req'[q]) /\ Consumed(req'[x]) =>
                        req'[q].session # req'[x].session
      <3>0. "callback" \notin raced
        BY <2>3, <2>6
      <3>1. session[s].state = "open" /\ completed[s] = {}
        BY <2>1, <3>0 DEF StateInv
      <3>2. ASSUME NEW q \in Requests
            PROVE  /\ req'[q].op # "validated"
                   /\ Consumed(req'[q]) => completed[req'[q].session] = {}
        <4>1. CASE q = r
          BY <2>2, <2>3, <3>1, <4>1
        <4>2. CASE q # r
          BY <2>1, <2>3, <3>0, <4>2, Alone DEF StateInv, Calling
        <4> QED BY <4>1, <4>2
      <3>3. ASSUME NEW q \in Requests \ {r}, Consumed(req'[q]) PROVE req'[q].session # s
        BY <2>3, <2>4, <3>1, <3>3
      <3>4. ASSUME NEW q \in Requests \ {r}, NEW x \in Requests \ {r}, q # x,
                   Consumed(req'[q]), Consumed(req'[x])
            PROVE  req'[q].session # req'[x].session
        BY <2>3, <3>0, <3>4 DEF StateInv
      <3> QED BY <2>2, <2>3, <3>2, <3>3, <3>4
    <2> QED BY <2>1, <2>3, <2>4, <2>5, <2>6 DEF StateInv, Consumed
  <1>8. ASSUME NEW r \in Requests, NEW u, NEW row, Signs(r, u, row) PROVE StateInv'
    <2> DEFINE s == req[r].session
    <2>1. /\ s \in Sessions /\ session' = session /\ Consumed(req[r])
          /\ completed' = [completed EXCEPT ![s] = @ \cup {r}]
      BY <1>8 DEF Signs, Consumed
    <2>2. raced' = raced /\ req'[r] = Finished /\ \A q \in Requests \ {r} : req'[q] = req[q]
      BY <1>8, LeaveStep DEF Signs
    <2>3. /\ completed'[s] = completed[s] \cup {r}
          /\ \A t \in Sessions \ {s} : completed'[t] = completed[t]
      BY <2>1 DEF TypeOK
    <2>4. ASSUME NEW q \in Requests, Consumed(req'[q])
          PROVE  q # r /\ req'[q] = req[q] /\ req[q].session \in Sessions
      <3>1. q # r /\ req'[q] = req[q]
        BY <1>0, <2>2, <2>4
      <3> QED BY <2>4, <3>1 DEF RequestsInv, Formed, Consumed, Calling, Provisioning
    <2>5. ASSUME NEW t \in Sessions, completed'[t] # {} PROVE session'[t].state = "used"
      BY <2>1, <2>3, <2>5 DEF StateInv
    <2>6. ASSUME "callback" \notin raced
          PROVE  /\ \A q \in Requests :
                      /\ req'[q].op = "validated" => session[req'[q].session].state = "open"
                      /\ Consumed(req'[q]) => completed'[req'[q].session] = {}
                 /\ \A t \in Sessions : \A a, b \in completed'[t] : a = b
      <3>1. completed[s] = {}
        BY <2>1, <2>6 DEF StateInv
      <3>2. ASSUME NEW q \in Requests, Consumed(req'[q])
            PROVE  completed'[req'[q].session] = {}
        <4>1. req[q].session # s
          BY <2>1, <2>4, <2>6, <3>2 DEF StateInv
        <4> QED BY <2>3, <2>4, <2>6, <3>2, <4>1 DEF StateInv
      <3>3. ASSUME NEW q \in Requests, req'[q].op = "validated"
            PROVE  session[req'[q].session].state = "open"
        BY <1>0, <2>2, <2>6, <3>3 DEF StateInv
      <3>4. \A t \in Sessions : \A a, b \in completed'[t] : a = b
        BY <2>3, <2>6, <3>1 DEF StateInv
      <3> QED BY <3>2, <3>3, <3>4
    <2> QED BY <2>1, <2>2, <2>4, <2>5, <2>6 DEF StateInv, Consumed
  <1>9. ASSUME NEW u \in Users, SetActive(u) PROVE StateInv'
    <2>1. req' = req /\ session' = session /\ completed' = completed /\ raced' = raced
      BY <1>9, ActiveWrites
    <2> QED BY <2>1 DEF StateInv, Consumed
  <1>10. CASE UNCHANGED vars
    BY <1>10 DEF vars, StateInv, Consumed
  <1> QED BY <1>3, <1>4, <1>5, <1>6, <1>7, <1>8, <1>9, <1>10 DEF Kinds

-----------------------------------------------------------------------------
(***************************************************************************)
(* The configuration.                                                      *)
(***************************************************************************)

\* A step that stores nothing of the configuration.
LEMMA ConfigStep ==
    ASSUME ConfigInv, NEW r \in Requests, \A q \in Requests \ {r} : req'[q] = req[q],
           raced \subseteq raced', config' = config, saved' = saved, ConfigHeld(req[r])'
    PROVE  ConfigInv'
  <1>1. \A q \in Requests : ConfigHeld(req[q])'
    BY DEF ConfigInv, ConfigHeld
  <1> QED BY <1>1 DEF ConfigInv, ConfigurationIsTheSavedOne, EndpointsOfIssuer,
                      SecretIsTheSavedOne

LEMMA FinishedHolds ==
    ASSUME NEW r \in Requests, req'[r] = Finished
    PROVE  ConfigHeld(req[r])' /\ AccountHeld(req[r])'
  BY RecordTypes DEF ConfigHeld, AccountHeld

LEMMA NextConfig == TypeOK /\ RequestsInv /\ ConfigInv /\ Kinds => ConfigInv'
  <1> SUFFICES ASSUME TypeOK, RequestsInv, ConfigInv, Kinds PROVE ConfigInv'
    OBVIOUS
  <1> USE DEF EndpointsOfIssuer, SecretIsTheSavedOne, ConfigurationIsTheSavedOne
  <1>1. ASSUME NEW r \in Requests, Leave(r), config' = config, saved' = saved PROVE ConfigInv'
    BY <1>1, LeaveStep, FinishedHolds, ConfigStep
  <1>2. ASSUME NEW r \in Requests, NEW m \in Request, Goto(r, m), Formed(m), config' = config,
               saved' = saved, ConfigHeld(m)
        PROVE  ConfigInv'
    <2>1. /\ raced \subseteq raced' /\ req'[r] = m
          /\ \A q \in Requests \ {r} : req'[q] = req[q]
      BY <1>2, GotoStep
    <2>2. ConfigHeld(req[r])'
      BY <1>2, <2>1 DEF ConfigHeld
    <2> QED BY <1>2, <2>1, <2>2, ConfigStep
  <1>3. ASSUME NEW r \in Requests, (Leave(r) /\ Quiet) \/ \E m \in Request : Reads(r, m)
        PROVE  ConfigInv'
    BY <1>1, <1>2, <1>3 DEF Reads, Quiet
  <1>4. ASSUME NEW r \in Requests, Upgrade(r) PROVE ConfigInv'
    <2>1. /\ req[r].op = "upgrade" /\ saved' = saved
          /\ config'.issuer = config.issuer /\ config'.endpoints = config.endpoints
          /\ req[r].config.secret = config.secret => config'.secret[1] = config.secret[1]
      BY <1>4, UpgradeWrites
    <2>2. /\ raced \subseteq raced' /\ \A q \in Requests \ {r} : req'[q] = req[q]
          /\ ConfigHeld(req[r])'
      <3>1. CASE Leave(r)
        BY <3>1, LeaveStep, FinishedHolds
      <3>2. ASSUME NEW m \in Request, Goto(r, m), Formed(m), m.config = config',
                   m.op \in {"login", "callback", "test"}
            PROVE  /\ raced \subseteq raced' /\ \A q \in Requests \ {r} : req'[q] = req[q]
                   /\ ConfigHeld(req[r])'
        BY <3>2, GotoStep DEF ConfigHeld
      <3> QED BY <1>4, <3>1, <3>2, UpgradeWrites
    <2>3. ASSUME NEW q \in Requests \ {r} PROVE ConfigHeld(req[q])'
      <3>1. ConfigHeld(req[q]) /\ req'[q] = req[q]
        BY <2>2 DEF ConfigInv
      <3>2. "secret" \notin raced' => req[q].op \notin {"upgrade", "save"}
        BY <2>1, <2>2, Alone
      <3> QED BY <2>1, <2>2, <3>1, <3>2 DEF ConfigHeld
    <2>4. "secret" \notin raced => req[r].config.secret = config.secret
      BY <2>1 DEF ConfigInv, ConfigHeld
    <2> QED BY <2>1, <2>2, <2>3, <2>4 DEF ConfigInv
  <1>5. ASSUME NEW r \in Requests, SaveCommit(r) PROVE ConfigInv'
    <2>1. /\ req[r].op = "save" /\ Leave(r)
          /\ config.endpoints \in {None, req[r].config.endpoints} => config'.endpoints = None
          /\ req[r].config.secret = config.secret => config'.secret[1] = saved'
      BY <1>5, SaveWrites
    <2>2. /\ raced' = raced /\ \A q \in Requests \ {r} : req'[q] = req[q]
          /\ ConfigHeld(req[r])'
      BY <2>1, LeaveStep, FinishedHolds
    <2>3. ConfigHeld(req[r])
      BY DEF ConfigInv
    <2>4. "endpoints" \notin raced => config'.endpoints = None
      BY <2>1, <2>3 DEF ConfigHeld
    <2>5. ASSUME NEW q \in Requests \ {r} PROVE ConfigHeld(req[q])'
      <3>1. /\ "secret" \notin raced => req[q].op \notin {"upgrade", "save"}
            /\ "endpoints" \notin raced => req[q].op # "test"
        BY <2>1, Alone
      <3> QED BY <2>2, <2>4, <3>1 DEF ConfigHeld
    <2> QED BY <2>1, <2>2, <2>3, <2>4, <2>5 DEF ConfigInv, ConfigHeld
  <1>6. ASSUME NEW r \in Requests, TestCommit(r) PROVE ConfigInv'
    <2>1. /\ req[r].op = "test" /\ Leave(r) /\ saved' = saved
          /\ config'.issuer = config.issuer /\ config'.secret = config.secret
          /\ req[r].config.issuer = config.issuer
               => config'.endpoints \in {config.issuer, config.endpoints}
      BY <1>6, TestWrites
    <2>2. /\ raced' = raced /\ \A q \in Requests \ {r} : req'[q] = req[q]
          /\ ConfigHeld(req[r])'
      BY <2>1, LeaveStep, FinishedHolds
    <2>3. ConfigHeld(req[r])
      BY DEF ConfigInv
    <2>4. ASSUME NEW q \in Requests \ {r} PROVE ConfigHeld(req[q])'
      <3>1. ConfigHeld(req[q]) /\ req'[q] = req[q]
        BY <2>2 DEF ConfigInv
      <3>2. "endpoints" \notin raced => req[q].op # "save"
        BY <2>1, Alone
      <3> QED BY <2>1, <2>2, <3>1, <3>2 DEF ConfigHeld
    <2> QED BY <2>1, <2>2, <2>3, <2>4 DEF ConfigInv, ConfigHeld
  <1>7. ASSUME NEW r \in Requests, NEW s \in Sessions, Login(r, s) PROVE ConfigInv'
    BY <1>1, <1>7, LoginWrites
  <1>8. ASSUME NEW r \in Requests, Consume(r) PROVE ConfigInv'
    <2>1. PICK m \in Request : Goto(r, m) /\ Formed(m) /\ m.op = "consumed"
      BY <1>8, ConsumeWrites
    <2>2. ConfigHeld(m)
      BY <2>1 DEF ConfigHeld
    <2> QED BY <1>2, <1>8, <2>1, <2>2, ConsumeWrites
  <1>9. ASSUME NEW r \in Requests, NEW u, NEW row, Signs(r, u, row) PROVE ConfigInv'
    BY <1>1, <1>9 DEF Signs
  <1>10. ASSUME NEW u \in Users, SetActive(u) PROVE ConfigInv'
    <2>1. req' = req /\ config' = config /\ saved' = saved /\ raced' = raced
      BY <1>10, ActiveWrites
    <2> QED BY <2>1 DEF ConfigInv, ConfigHeld
  <1>11. CASE UNCHANGED vars
    BY <1>11 DEF vars, ConfigInv, ConfigHeld
  <1> QED BY <1>3, <1>4, <1>5, <1>6, <1>7, <1>8, <1>9, <1>10, <1>11 DEF Kinds

-----------------------------------------------------------------------------
(***************************************************************************)
(* Accounts.                                                               *)
(***************************************************************************)

\* While the table is left alone a request knows what it knew.
LEMMA SameAccounts ==
    ASSUME user' = user, NEW q \in Requests, req'[q] = req[q], AccountHeld(req[q])
    PROVE  AccountHeld(req[q])'
  <1>1. \A x : BySubject(x)' = BySubject(x)
    BY DEF BySubject
  <1>2. \A x : Unbound(x)' <=> Unbound(x)
    BY DEF Unbound, Bound
  <1>3. \A i : Vouched(i)' <=> Vouched(i)
    BY <1>1 DEF Vouched
  <1>4. \A v, x : Bound(v, x)' <=> Bound(v, x)
    BY DEF Bound
  <1> QED BY <1>1, <1>2, <1>3, <1>4 DEF AccountHeld

\* A step that binds no account.
LEMMA AccountsStep ==
    ASSUME AccountsInv, NEW r \in Requests, \A q \in Requests \ {r} : req'[q] = req[q],
           raced \subseteq raced', user' = user, signedIn' = signedIn,
           "provision" \notin raced' => AccountHeld(req[r])'
    PROVE  AccountsInv'
  <1> SUFFICES ASSUME "provision" \notin raced'
               PROVE  /\ \A q \in Requests : AccountHeld(req[q])'
                      /\ \A p \in Persons : \A u \in signedIn'[p] : Bound(u, p)'
                      /\ \A p \in Persons : \A u, v \in Users :
                            Bound(u, p)' /\ Bound(v, p)' => u = v
                      /\ \A u \in Users : user'[u].subject # None =>
                            \E i \in Identities, c \in {"oid", "sub"} :
                              c \in i.claims /\ user'[u].subject = <<i.person, c>>
    BY DEF AccountsInv
  <1>1. "provision" \notin raced
    OBVIOUS
  <1>2. ASSUME NEW q \in Requests PROVE AccountHeld(req[q])'
    <2>1. CASE q = r
      BY <2>1
    <2>2. CASE q # r
      <3>1. AccountHeld(req[q]) /\ req'[q] = req[q]
        BY <1>1, <2>2 DEF AccountsInv
      <3> QED BY <3>1, SameAccounts
    <2> QED BY <2>1, <2>2
  <1> QED BY <1>1, <1>2 DEF AccountsInv, Bound

\* An account is bound to one person.
LEMMA OnePerson ==
    ASSUME NEW p, NEW q, NEW u, Bound(u, p), Bound(u, q)
    PROVE  p = q
  BY DEF Bound

\* A person is signed in to the account bound to that person, or to one that is
\* bound to nobody, and that is the only one since.
LEMMA SignsAccounts ==
    ASSUME TypeOK, RequestsInv, AccountsInv, NEW r \in Requests, NEW u, NEW row,
           Signs(r, u, row)
    PROVE  AccountsInv'
  <1> DEFINE i == req[r].identity
  <1>1. raced' = raced /\ req'[r] = Finished /\ \A q \in Requests \ {r} : req'[q] = req[q]
    BY LeaveStep DEF Signs
  <1> SUFFICES ASSUME "provision" \notin raced PROVE AccountsInv'
    BY <1>1 DEF AccountsInv
  <1>p. PICK p : p = i.person
    OBVIOUS
  <1>2. /\ req[r].op \in Provisioning /\ i \in Identities /\ u \in Users
        /\ Bound(u, p) \/ (user[u].subject = None /\ Unbound(p))
        /\ (row.subject = user[u].subject /\ Bound(u, p)) \/ row.subject = Subject(i)
    BY <1>p DEF Signs
  <1>3. p \in Persons
    BY <1>p, <1>2, SubjectType
  <1>4. /\ user'[u].subject = row.subject
        /\ \A v \in Users \ {u} : user'[v] = user[v]
        /\ signedIn'[p] = signedIn[p] \cup {u}
        /\ \A x \in Persons \ {p} : signedIn'[x] = signedIn[x]
    BY <1>p, <1>2, <1>3 DEF Signs, TypeOK
  <1>5. ASSUME NEW q \in Requests PROVE AccountHeld(req[q])'
    <2>1. CASE q = r
      BY <1>1, <2>1, FinishedHolds
    <2>2. CASE q # r
      <3>1. req[q].op \notin Provisioning /\ req'[q] = req[q]
        BY <1>1, <1>2, <2>2, Alone
      <3> QED BY <3>1 DEF AccountHeld, Provisioning
    <2> QED BY <2>1, <2>2
  <1>6. Bound(u, p)'
    BY <1>p, <1>2, <1>4, SubjectType DEF Bound
  <1>7. ASSUME NEW v \in Users, NEW x \in Persons, Bound(v, x) PROVE Bound(v, x)'
    <2>1. CASE v # u
      BY <1>4, <1>7, <2>1 DEF Bound
    <2>2. CASE v = u
      <3>1. user[u].subject # None
        BY <1>7, <2>2 DEF Bound
      <3>2. x = p
        BY <1>2, <1>7, <2>2, <3>1, OnePerson
      <3> QED BY <1>6, <2>2, <3>2
    <2> QED BY <2>1, <2>2
  <1>8. ASSUME NEW v \in Users, NEW x \in Persons, Bound(v, x)'
        PROVE  Bound(v, x) \/ (v = u /\ x = p)
    <2>1. CASE v # u
      BY <1>4, <1>8, <2>1 DEF Bound
    <2>2. CASE v = u
      BY <1>6, <1>8, <2>2 DEF Bound
    <2> QED BY <2>1, <2>2
  <1>9. ASSUME NEW v \in Users, NEW w \in Users, NEW x \in Persons, Bound(v, x)', Bound(w, x)'
        PROVE  v = w
    <2>1. Bound(v, x) /\ Bound(w, x) => v = w
      BY DEF AccountsInv
    <2>2. \A y \in Users : Bound(y, p) => y = u
      BY <1>2, <1>3 DEF AccountsInv, Unbound
    <2> QED BY <1>8, <1>9, <2>1, <2>2
  <1>10. ASSUME NEW x \in Persons, NEW v \in signedIn'[x] PROVE Bound(v, x)'
    <2>1. CASE v \in signedIn[x]
      <3>1. v \in Users
        BY <2>1 DEF TypeOK
      <3>2. Bound(v, x)
        BY <2>1 DEF AccountsInv
      <3> QED BY <1>7, <3>1, <3>2
    <2>2. CASE v \notin signedIn[x]
      BY <1>4, <1>6, <1>10, <2>2
    <2> QED BY <2>1, <2>2
  <1>11. ASSUME NEW v \in Users, user'[v].subject # None
         PROVE  \E j \in Identities, c \in {"oid", "sub"} :
                  c \in j.claims /\ user'[v].subject = <<j.person, c>>
    <2>1. CASE v = u /\ row.subject = Subject(i)
      BY <1>2, <1>4, <2>1, SubjectType
    <2>2. CASE ~(v = u /\ row.subject = Subject(i))
      <3>1. user'[v].subject = user[v].subject
        BY <1>2, <1>4, <2>2
      <3> QED BY <1>11, <3>1 DEF AccountsInv
    <2> QED BY <2>1, <2>2
  <1> QED BY <1>5, <1>9, <1>10, <1>11 DEF AccountsInv

LEMMA NextAccounts == TypeOK /\ RequestsInv /\ AccountsInv /\ Kinds => AccountsInv'
  <1> SUFFICES ASSUME TypeOK, RequestsInv, AccountsInv, Kinds PROVE AccountsInv'
    OBVIOUS
  <1>1. ASSUME NEW r \in Requests, Leave(r), user' = user, signedIn' = signedIn
        PROVE  AccountsInv'
    BY <1>1, LeaveStep, FinishedHolds, AccountsStep
  <1>2. ASSUME NEW r \in Requests, NEW m \in Request, Goto(r, m), Formed(m), user' = user,
               signedIn' = signedIn, "provision" \notin raced' => AccountHeld(m)
        PROVE  AccountsInv'
    <2>1. /\ raced \subseteq raced' /\ req'[r] = m
          /\ \A q \in Requests \ {r} : req'[q] = req[q]
      BY <1>2, GotoStep
    <2>2. "provision" \notin raced' => AccountHeld(req[r])'
      BY <1>2, <2>1 DEF AccountHeld, Vouched, BySubject, Unbound, Bound
    <2> QED BY <1>2, <2>1, <2>2, AccountsStep
  <1>3. ASSUME NEW r \in Requests, (Leave(r) /\ Quiet) \/ \E m \in Request : Reads(r, m)
        PROVE  AccountsInv'
    BY <1>1, <1>2, <1>3 DEF Reads, Quiet
  <1>4. ASSUME NEW r \in Requests, NEW m \in Request, Goto(r, m), Formed(m), user' = user,
               signedIn' = signedIn, m.op \in {"login", "callback", "test", "consumed"}
        PROVE  AccountsInv'
    BY <1>2, <1>4, NotProvisioning DEF Provisioning
  <1>5. ASSUME NEW r \in Requests, Upgrade(r) PROVE AccountsInv'
    BY <1>1, <1>4, <1>5, UpgradeWrites
  <1>6. ASSUME NEW r \in Requests, SaveCommit(r) \/ TestCommit(r) PROVE AccountsInv'
    BY <1>1, <1>6, SaveWrites, TestWrites
  <1>7. ASSUME NEW r \in Requests, Consume(r) PROVE AccountsInv'
    BY <1>4, <1>7, ConsumeWrites
  <1>8. ASSUME NEW r \in Requests, NEW s \in Sessions, Login(r, s) PROVE AccountsInv'
    BY <1>1, <1>8, LoginWrites
  <1>9. ASSUME NEW r \in Requests, NEW u, NEW row, Signs(r, u, row) PROVE AccountsInv'
    BY <1>9, SignsAccounts
  <1>10. ASSUME NEW u \in Users, SetActive(u) PROVE AccountsInv'
    <2>1. /\ req' = req /\ signedIn' = signedIn /\ raced' = raced
          /\ \A v \in Users : user'[v].subject = user[v].subject
      BY <1>10, ActiveWrites
    <2> SUFFICES ASSUME "provision" \notin raced PROVE AccountsInv'
      BY <2>1 DEF AccountsInv
    <2>2. \A v \in Users : \A x : Bound(v, x)' <=> Bound(v, x)
      BY <2>1 DEF Bound
    <2>3. ASSUME NEW q \in Requests PROVE AccountHeld(req[q])'
      <3>1. AccountHeld(req[q])
        BY DEF AccountsInv
      <3>2. \A x : (BySubject(<<x, "oid">>) = {})' <=> BySubject(<<x, "oid">>) = {}
        BY <2>1 DEF BySubject
      <3>3. req[q].op \in {"migrate", "migrated"} => req[q].user \in Users
        BY DEF RequestsInv, Formed
      <3> QED BY <2>1, <2>2, <3>1, <3>2, <3>3 DEF AccountHeld, Vouched, Unbound
    <2>4. ASSUME NEW x \in Persons, NEW v \in signedIn[x] PROVE v \in Users /\ Bound(v, x)
      BY DEF TypeOK, AccountsInv
    <2> QED BY <2>1, <2>2, <2>3, <2>4 DEF AccountsInv
  <1>11. CASE UNCHANGED vars
    <2>1. req' = req /\ user' = user /\ signedIn' = signedIn /\ raced' = raced
      BY <1>11 DEF vars
    <2>2. "provision" \notin raced => \A q \in Requests : AccountHeld(req[q])'
      BY <2>1, SameAccounts DEF AccountsInv
    <2> QED BY <2>1, <2>2 DEF AccountsInv, Bound
  <1> QED BY <1>3, <1>5, <1>6, <1>7, <1>8, <1>9, <1>10, <1>11 DEF Kinds

-----------------------------------------------------------------------------
(***************************************************************************)
(* The invariant and what follows from it.                                 *)
(***************************************************************************)

LEMMA InitInv == Init => IInv
  <1> SUFFICES ASSUME Init PROVE IInv
    OBVIOUS
  <1>1. PICK i \in Issuers, encrypted \in BOOLEAN :
          config = [issuer |-> i, endpoints |-> None, secret |-> <<"first", encrypted>>,
                    enabled |-> TRUE]
    BY DEF Init
  <1>2. PICK open \in SUBSET Sessions :
          session = [s \in Sessions |->
                       IF s \in open THEN [state |-> "open", issuer |-> config.issuer]
                       ELSE NoSession]
    BY DEF Init
  <1>3. PICK u \in Users, j \in Identities, kind \in {"none", "local", "legacy"} :
          /\ kind = "legacy" => Has(j, "sub")
          /\ user = [v \in Users |->
                       IF v # u \/ kind = "none" THEN NoUser
                       ELSE [email |-> j.email, active |-> TRUE, sso |-> kind = "legacy",
                             subject |-> IF kind = "legacy" THEN <<j.person, "sub">>
                                         ELSE None]]
    BY DEF Init
  <1>4. /\ req = [r \in Requests |-> Idle] /\ saved = "first"
        /\ completed = [s \in Sessions |-> {}] /\ signedIn = [p \in Persons |-> {}]
        /\ raced = {}
    BY DEF Init
  <1>5. /\ config \in Config /\ config.issuer = i /\ config.endpoints = None
        /\ config.secret[1] = "first"
    BY <1>1 DEF Config
  <1>6. session \in [Sessions -> Session]
    <2>1. [state |-> "open", issuer |-> config.issuer] \in Session
      BY <1>5 DEF Session
    <2> QED BY <1>2, <2>1, RecordTypes
  <1>7. ASSUME NEW v \in Users
        PROVE  /\ user[v] \in User
               /\ user[v].subject # None =>
                    v = u /\ user[v].subject = <<j.person, "sub">> /\ "sub" \in j.claims
    <2>1. CASE v # u \/ kind = "none"
      <3>1. user[v] = NoUser
        BY <1>3, <2>1
      <3> QED BY <3>1, RecordTypes
    <2>2. CASE v = u /\ kind = "local"
      <3>1. user[v] = [email |-> j.email, active |-> TRUE, sso |-> FALSE, subject |-> None]
        BY <1>3, <2>2
      <3> QED BY <3>1, SubjectType DEF User
    <2>3. CASE v = u /\ kind = "legacy"
      <3>1. /\ user[v] = [email |-> j.email, active |-> TRUE, sso |-> TRUE,
                          subject |-> <<j.person, "sub">>]
            /\ "sub" \in j.claims
        BY <1>3, <2>3 DEF Has
      <3>2. <<j.person, "sub">> \in Subjects
        BY SubjectType DEF Subjects
      <3> QED BY <2>3, <3>1, <3>2, SubjectType DEF User
    <2> QED BY <2>1, <2>2, <2>3
  <1>8. user \in [Users -> User]
    BY <1>3, <1>7
  <1>9. TypeOK
    BY <1>4, <1>5, <1>6, <1>8, RecordTypes DEF TypeOK
  <1>10. \A r \in Requests : req[r].op = "idle"
    BY <1>4, RecordTypes
  <1>11. RequestsInv
    <2>1. \A r \in Requests : Formed(req[r])
      BY <1>10, Ended
    <2>2. \A r, q \in Requests : Apart(r, q)
      BY <1>10, ConflictSets DEF Apart, Provisioning, Calling
    <2> QED BY <2>1, <2>2 DEF RequestsInv
  <1>12. StateInv
    BY <1>4, <1>10, Ended DEF StateInv
  <1>13. ConfigInv
    <2>1. \A r \in Requests : ConfigHeld(req[r])
      BY <1>10, Ended
    <2> QED BY <1>4, <1>5, <2>1
        DEF ConfigInv, ConfigurationIsTheSavedOne, EndpointsOfIssuer, SecretIsTheSavedOne
  <1>14. AccountsInv
    <2>1. \A r \in Requests : AccountHeld(req[r])
      BY <1>10, Ended
    <2>2. ASSUME NEW v \in Users, NEW p \in Persons, Bound(v, p) PROVE v = u
      <3>1. user[v].subject # None
        BY <2>2 DEF Bound
      <3> QED BY <1>7, <3>1
    <2>3. ASSUME NEW v \in Users, user[v].subject # None
          PROVE  \E k \in Identities, c \in {"oid", "sub"} :
                   c \in k.claims /\ user[v].subject = <<k.person, c>>
      BY <1>7, <2>3
    <2> QED BY <1>4, <2>1, <2>2, <2>3 DEF AccountsInv
  <1> QED BY <1>9, <1>11, <1>12, <1>13, <1>14 DEF IInv

THEOREM Inductive == Spec => []IInv
  <1>1. IInv /\ [Next]_vars => IInv'
    <2> SUFFICES ASSUME IInv, [Next]_vars PROVE IInv'
      OBVIOUS
    <2>1. TypeOK /\ RequestsInv /\ StateInv /\ ConfigInv /\ AccountsInv
      BY DEF IInv
    <2>2. Kinds
      BY <2>1, Steps
    <2> QED BY <2>1, <2>2, NextTypes, NextState, NextConfig, NextAccounts DEF IInv
  <1> QED BY InitInv, <1>1, PTL DEF Spec

\* The tables, the configuration and the requests are well typed.
THEOREM TypeCorrect == Spec => []TypeOK
  <1>1. IInv => TypeOK
    BY DEF IInv
  <1> QED BY <1>1, Inductive, PTL

LEMMA AtMostOne ==
    ASSUME NEW S, \A a, b \in S : a = b
    PROVE  Cardinality(S) <= 1
  <1>1. CASE S = {}
    BY <1>1, FS_EmptySet
  <1>2. CASE S # {}
    <2>1. PICK x : x \in S
      BY <1>2
    <2>2. S = {x}
      BY <2>1
    <2>3. Cardinality({x}) = 1
      BY FS_Singleton
    <2> QED BY <2>2, <2>3
  <1> QED BY <1>1, <1>2

\* A state completes one login, unless two callbacks overlapped before they had
\* consumed theirs: one that is alone consumes an open state, and every later
\* one finds it used.
THEOREM AStateIsUsedOnce == Spec => []StateUsedOnce
  <1>1. IInv => StateUsedOnce
    BY AtMostOne DEF IInv, StateInv, StateUsedOnce
  <1> QED BY <1>1, Inductive, PTL

\* What is stored of the provider is what was saved, although a test and a
\* reader of a secret in the clear write it too, unless they overlapped a save.
THEOREM TheSavedConfigurationIsStored == Spec => []ConfigurationIsTheSavedOne
  <1>1. IInv => ConfigurationIsTheSavedOne
    BY DEF IInv, ConfigInv
  <1> QED BY <1>1, Inductive, PTL

\* A person is signed in to one account, and nobody else is, with whichever
\* claims and email the provider gives, unless two callbacks overlapped.
THEOREM APersonHasOneAccount == Spec => []OneAccountPerPerson
  <1>1. IInv => OneAccountPerPerson
    <2> SUFFICES ASSUME IInv, "provision" \notin raced
                 PROVE  /\ \A p \in Persons : Cardinality(signedIn[p]) <= 1
                        /\ \A p, q \in Persons : p # q => signedIn[p] \cap signedIn[q] = {}
      BY DEF OneAccountPerPerson
    <2>1. \A p \in Persons : \A u \in signedIn[p] : u \in Users /\ Bound(u, p)
      BY DEF IInv, TypeOK, AccountsInv
    <2>2. \A p \in Persons : \A u, v \in Users : Bound(u, p) /\ Bound(v, p) => u = v
      BY DEF IInv, AccountsInv
    <2>3. ASSUME NEW p \in Persons PROVE Cardinality(signedIn[p]) <= 1
      <3>1. \A u, v \in signedIn[p] : u = v
        BY <2>1, <2>2
      <3> QED BY <3>1, AtMostOne
    <2>4. ASSUME NEW p \in Persons, NEW q \in Persons, p # q
          PROVE  signedIn[p] \cap signedIn[q] = {}
      BY <2>1, <2>4, OnePerson
    <2> QED BY <2>3, <2>4
  <1> QED BY <1>1, Inductive, PTL

=============================================================================

------------------------------- MODULE Identity -------------------------------
(***************************************************************************)
(* Identities: registration, login with its limiter, access tokens and     *)
(* their resolution into principals (backend/app/api/auth.py, security/    *)
(* service.py, rate_limit.py, tokens.py, dependencies.py, repository.py)   *)
(* and the bootstrap of an administrator (scripts/create_admin.py).        *)
(*                                                                         *)
(* Steps end where the code awaits Redis or the database, so calls overlap *)
(* between them.  Every Redis command may fail, which the limiter ignores. *)
(* Usernames are in their normalized form.  Time is kept as what remains   *)
(* of a key's expiry and of a token's life.  Rows of the audit table are   *)
(* kept for registrations only.                                            *)
(***************************************************************************)
EXTENDS Integers, FiniteSets

CONSTANTS
  Users,          \* usernames
  Payloads,       \* role lists a registration may ask for
  Calls,          \* calls in flight at a time
  Limit,          \* security_login_rate_limit_attempts
  Window,         \* security_login_rate_limit_window_seconds, in ticks
  TokenTTL,       \* security_access_token_ttl_seconds, in ticks
  MaxTokens,      \* bound: tokens alive at a time
  MaxCount        \* bound: failures counted while Redis does not answer the check

RoleNames == { "ADMIN", "OPERATOR", "VIEWER" }

ASSUME PayloadAssumption == Payloads \subseteq SUBSET RoleNames
ASSUME LimitAssumption == { Limit, Window, TokenTTL, MaxTokens, MaxCount } \subseteq Nat \ {0}
ASSUME CallAssumption == IsFiniteSet(Calls)
ASSUME NameAssumption == "anonymous" \notin Users

VARIABLES
  user,           \* users and user_roles: username -> status, roles
  audit,          \* AUTH_REGISTER rows: who registered whom with which roles
  trusted,        \* identities that were given a role outside of the API
  failures,       \* the limiter's key of one origin: count and what remains of its expiry
  faults,         \* the kinds of Redis commands that have failed
  token,          \* unexpired access tokens
  call            \* calls in flight

vars == << user, audit, trusted, failures, faults, token, call >>

NoUser  == [status |-> "NONE", roles |-> {}]
NoCall  == [pc |-> "idle", user |-> "anonymous", actor |-> "anonymous", claims |-> {},
            roles |-> {}, manages |-> FALSE, demoted |-> FALSE]
NoKey   == [count |-> 0, ttl |-> 0]      \* a ttl of 0 is a key that does not expire

Exists(u) == user[u].status # "NONE"

Init ==
  /\ user = [u \in Users |-> NoUser]
  /\ audit = {} /\ trusted = {} /\ token = {}
  /\ failures = NoKey /\ faults = {}
  /\ call = [c \in Calls |-> NoCall]

Goto(c, pc) == call' = [call EXCEPT ![c].pc = pc]
End(c)      == call' = [call EXCEPT ![c] = NoCall]

-----------------------------------------------------------------------------
(* Login                                                                    *)

\* Mutant: one failure more than the budget.
check_off_by_one == failures.count <= Limit

\* LoginRateLimiter.check, when Redis answers.
check == failures.count < Limit

\* The origin is looked at before the credentials are; an unavailable Redis counts as 0.
LoginCheck(c, u) ==
  /\ call[c].pc = "idle"
  /\ \/ check /\ UNCHANGED faults
     \/ failures.count < MaxCount /\ faults' = faults \cup {"get"}
  /\ call' = [call EXCEPT ![c] = [NoCall EXCEPT !.pc = "credentials", !.user = u]]
  /\ UNCHANGED << user, audit, trusted, failures, token >>

\* AuthService.authenticate: a wrong password, an unknown and a disabled account look alike.
authenticate(c) ==
  /\ call[c].pc = "credentials"
  /\ \E matches \in BOOLEAN :
       Goto(c, IF matches /\ user[call[c].user].status = "ACTIVE" THEN "verified" ELSE "failed")
  /\ UNCHANGED << user, audit, trusted, failures, faults, token >>

\* register_failure, first command: INCR creates the key without an expiry.
Incr(c) ==
  /\ call[c].pc = "failed"
  /\ failures' = [failures EXCEPT !.count = @ + 1]
  /\ IF failures.count = 0 THEN Goto(c, "arming") ELSE End(c)
  /\ UNCHANGED << user, audit, trusted, faults, token >>

\* Mutant: the window is never armed.
Expire_never(c) ==
  /\ call[c].pc = "arming"
  /\ End(c)
  /\ UNCHANGED << user, audit, trusted, failures, faults, token >>

\* register_failure, second command, after the first failure only.
Expire(c) ==
  /\ call[c].pc = "arming"
  /\ failures' = IF failures.count = 0 THEN NoKey ELSE [failures EXCEPT !.ttl = Window]
  /\ End(c)
  /\ UNCHANGED << user, audit, trusted, faults, token >>

\* A command of register_failure raises, or the process ends before it.
RedisFails(c) ==
  /\ call[c].pc \in { "failed", "arming" }
  /\ faults' = faults \cup { IF call[c].pc = "failed" THEN "incr" ELSE "expire" }
  /\ End(c)
  /\ UNCHANGED << user, audit, trusted, failures, token >>

\* reset, which may fail as well.
Reset(c) ==
  /\ call[c].pc = "verified"
  /\ failures' \in { failures, NoKey }
  /\ Goto(c, "issuing")
  /\ UNCHANGED << user, audit, trusted, faults, token >>

create_access_token(c) ==
  /\ call[c].pc = "issuing"
  /\ Cardinality(token) < MaxTokens
  /\ token' = token \cup { [user |-> call[c].user, roles |-> user[call[c].user].roles, left |-> TokenTTL] }
  /\ End(c)
  /\ UNCHANGED << user, audit, trusted, failures, faults >>

\* Time passes: keys and tokens expire.
Tick ==
  /\ failures' = IF failures.ttl = 1 THEN NoKey
                 ELSE IF failures.ttl = 0 THEN failures ELSE [failures EXCEPT !.ttl = @ - 1]
  /\ token' = { [t EXCEPT !.left = @ - 1] : t \in { s \in token : s.left > 1 } }
  /\ UNCHANGED << user, audit, trusted, faults, call >>

-----------------------------------------------------------------------------
(* Principals                                                               *)

\* get_optional_principal without a credential.
Anonymous(c) ==
  /\ call[c].pc = "idle"
  /\ Goto(c, "register")
  /\ UNCHANGED << user, audit, trusted, failures, faults, token >>

\* _authenticate: the token is unexpired, and its user exists and is active.
_authenticate(c, t) ==
  /\ call[c].pc = "idle"
  /\ user[t.user].status = "ACTIVE"
  /\ call' = [call EXCEPT ![c] = [NoCall EXCEPT !.pc = "known", !.actor = t.user, !.claims = t.roles]]
  /\ UNCHANGED << user, audit, trusted, failures, faults, token >>

\* The only role that holds user.manage is ADMIN.
Manages(roles) == "ADMIN" \in roles

\* Mutant: the roles of the token decide.
principal_for_claims(c) ==
  /\ call[c].pc = "known"
  /\ call' = [call EXCEPT ![c].pc = "register", ![c].manages = Manages(call[c].claims)]
  /\ UNCHANGED << user, audit, trusted, failures, faults, token >>

\* IdentityService.principal_for: authority is read from the tables.
principal_for(c) ==
  /\ call[c].pc = "known"
  /\ call' = [call EXCEPT ![c].pc = "register", ![c].manages = Manages(user[call[c].actor].roles)]
  /\ UNCHANGED << user, audit, trusted, failures, faults, token >>

-----------------------------------------------------------------------------
(* Registration                                                             *)

\* Mutant: whoever has signed in may ask for roles.
granted_to_any_principal(c, requested) ==
  IF requested # {} /\ call[c].actor # "anonymous" THEN requested ELSE {"VIEWER"}

\* Roles that are asked for count only for a caller who holds user.manage.
granted(c, requested) ==
  IF requested # {} /\ call[c].manages THEN requested ELSE {"VIEWER"}

\* register: the name is free when it is looked up.
register(c, u, requested) ==
  /\ call[c].pc = "register"
  /\ ~Exists(u)
  /\ call' = [call EXCEPT ![c].pc = "insert", ![c].user = u, ![c].roles = granted(c, requested)]
  /\ UNCHANGED << user, audit, trusted, failures, faults, token >>

\* uq_users_username.  Emails are left out: one that is taken ends as Refused does.
UniqueRow(u) == ~Exists(u)

\* The row, its roles and the audit row commit together.
RegisterCommit(c) ==
  LET u == call[c].user
      actor == IF call[c].actor = "anonymous" THEN u ELSE call[c].actor
  IN  /\ call[c].pc = "insert"
      /\ UniqueRow(u)
      /\ user' = [user EXCEPT ![u] = [status |-> "ACTIVE", roles |-> call[c].roles]]
      /\ audit' = audit \cup { [actor |-> actor, subject |-> u, roles |-> call[c].roles] }
      /\ End(c)
      /\ UNCHANGED << trusted, failures, faults, token >>

\* A check of the call fails, or its commit violates a constraint.
Refused(c) ==
  /\ call[c].pc \in { "known", "register", "insert", "promote", "create" }
  /\ End(c)
  /\ UNCHANGED << user, audit, trusted, failures, faults, token >>

-----------------------------------------------------------------------------
(* Outside of the API                                                       *)

\* create_admin.py: looks the name up,
BootstrapRead(c, u) ==
  /\ call[c].pc = "idle"
  /\ call' = [call EXCEPT ![c] = [NoCall EXCEPT !.pc = IF Exists(u) THEN "promote" ELSE "create",
                                                !.user = u, !.manages = (user[u].status = "DISABLED")]]
  /\ UNCHANGED << user, audit, trusted, failures, faults, token >>

\* creates it as an administrator,
BootstrapCreate(c) ==
  /\ call[c].pc = "create"
  /\ UniqueRow(call[c].user)
  /\ user' = [user EXCEPT ![call[c].user] = [status |-> "ACTIVE", roles |-> {"ADMIN"}]]
  /\ trusted' = trusted \cup {call[c].user}
  /\ End(c)
  /\ UNCHANGED << audit, failures, faults, token >>

\* or promotes it, and enables it when it was disabled as it was looked up.
BootstrapPromote(c) ==
  /\ call[c].pc = "promote"
  /\ user' = [user EXCEPT ![call[c].user].roles = @ \cup {"ADMIN"},
                          ![call[c].user].status = IF call[c].manages THEN "ACTIVE" ELSE @]
  /\ trusted' = trusted \cup {call[c].user}
  /\ End(c)
  /\ UNCHANGED << audit, failures, faults, token >>

\* SQL: an administrator disables an identity or changes its roles.  History: the calls whose
\* user was looked up before.
Administer(u) ==
  /\ Exists(u)
  /\ \/ user' = [user EXCEPT ![u].status = "DISABLED"] /\ UNCHANGED trusted
     \/ /\ \E roles \in Payloads : user' = [user EXCEPT ![u].roles = roles]
        /\ trusted' = trusted \cup {u}
  /\ call' = [c \in Calls |-> [call[c] EXCEPT !.demoted = @ \/ call[c].actor = u]]
  /\ UNCHANGED << audit, failures, faults, token >>

-----------------------------------------------------------------------------
LoginStep(c) ==
  \/ \E u \in Users : LoginCheck(c, u)
  \/ authenticate(c) \/ Incr(c) \/ Expire(c) \/ RedisFails(c) \/ Reset(c) \/ create_access_token(c)

RegisterStep(c) ==
  \/ Anonymous(c) \/ principal_for(c) \/ RegisterCommit(c) \/ Refused(c)
  \/ \E t \in token : _authenticate(c, t)
  \/ \E u \in Users, requested \in Payloads : register(c, u, requested)

BootstrapStep(c) ==
  \/ \E u \in Users : BootstrapRead(c, u)
  \/ BootstrapCreate(c) \/ BootstrapPromote(c)

Next ==
  \/ \E c \in Calls : LoginStep(c) \/ RegisterStep(c) \/ BootstrapStep(c)
  \/ \E u \in Users : Administer(u)
  \/ Tick

\* Time passes, and a call whose failure has been counted runs on.
Fairness == WF_vars(Tick) /\ \A c \in Calls : WF_vars(Expire(c) \/ RedisFails(c))

Spec == Init /\ [][Next]_vars /\ Fairness

-----------------------------------------------------------------------------
(* Properties                                                               *)

Rows == [status : { "NONE", "ACTIVE", "DISABLED" }, roles : SUBSET RoleNames]

\* Types; no row has roles without an identity.
TypeOK ==
  /\ user \in [Users -> Rows]
  /\ \A u \in Users : ~Exists(u) => user[u] = NoUser
  /\ audit \subseteq [actor : Users, subject : Users, roles : SUBSET RoleNames]
  /\ trusted \subseteq Users /\ faults \subseteq { "get", "incr", "expire" }
  /\ failures \in [count : Nat, ttl : 0 .. Window]
  /\ token \subseteq [user : Users, roles : SUBSET RoleNames, left : 1 .. TokenTTL]

\* Whoever had ADMIN at some time.
EverManager(u) == u \in trusted \/ \E row \in audit : row.subject = u /\ "ADMIN" \in row.roles

\* Rows are well typed, and an identity that holds more than VIEWER got it outside of the
\* API, or from another identity that had user.manage and stands in the audit trail
\* (auth.py, register: "otherwise registration would be a privilege-escalation endpoint"),
\* however calls, revocations and promotions overlap.
NoSelfPromotion ==
  TypeOK /\
  \A u \in Users : user[u].roles \ {"VIEWER"} # {} =>
    \/ u \in trusted
    \/ \E row \in audit : row.subject = u /\ row.actor # u /\ EverManager(row.actor)

\* The check comes before the credentials and the count after them, so parallel calls pass
\* it together: while Redis answers, the budget is overrun by at most the calls in flight
\* (rate_limit.py, check).
OverrunBounded == "get" \notin faults => failures.count <= Limit - 1 + Cardinality(Calls)

\* Roles are granted on the authority of the tables, whatever the token of the caller claims:
\* a registration that is about to grant them is made by an active administrator, unless its
\* rights were changed after this very request had looked it up (dependencies.py,
\* _authenticate; service.py, principal_for).
RevokedAtOnce ==
  \A c \in Calls : call[c].pc = "insert" /\ call[c].roles \ {"VIEWER"} # {} =>
    \/ call[c].demoted
    \/ Manages(user[call[c].actor].roles) /\ user[call[c].actor].status = "ACTIVE"

\* An origin is not refused for ever, as long as no expiry was lost (rate_limit.py,
\* register_failure).
BlockEndsUnlessLost == []<>(check \/ "expire" \in faults)
=============================================================================

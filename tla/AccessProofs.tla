----------------------------- MODULE AccessProofs -----------------------------
(***************************************************************************)
(* Proofs about who may do what: Identity, for any users, payloads, number *)
(* of calls in flight, limits and lifetimes, and OrganizationScope, for    *)
(* any hierarchy, bindings and number of replacements in flight.           *)
(***************************************************************************)
EXTENDS Identity, OrganizationScope, FiniteSetTheorems, TLAPS

PCs == { "idle", "credentials", "verified", "failed", "arming", "issuing", "known", "register",
         "insert", "promote", "create" }

CallRecords == [pc : PCs, user : Users \cup {"anonymous"}, actor : Users \cup {"anonymous"},
                claims : SUBSET RoleNames, roles : SUBSET RoleNames, manages : BOOLEAN, demoted : BOOLEAN]

\* What a call is about and who makes it is known when it is needed; who makes it exists, and
\* so does who is to be promoted.
WellFormed(x) ==
  /\ x.pc = "idle" => x = NoCall
  /\ x.pc \in { "credentials", "verified", "issuing", "insert", "promote", "create" } => x.user \in Users
  /\ x.pc = "known" => x.actor \in Users
  /\ x.actor \in Users => Exists(x.actor)
  /\ x.pc = "promote" => Exists(x.user)

CallInv == call \in [Calls -> CallRecords] /\ \A c \in Calls : WellFormed(call[c])

\* Whoever is an administrator became one outside of the API or by a registration.
RoleInv == \A u \in Users : "ADMIN" \in user[u].roles => EverManager(u)

\* The authority of a call is that of its actor, unless it has been changed since.
Authorized(x) ==
  /\ x.pc = "known" => x.demoted \/ user[x.actor].status = "ACTIVE"
  /\ x.pc \in { "register", "insert" } /\ x.manages =>
       /\ x.actor \in Users /\ EverManager(x.actor)
       /\ x.demoted \/ (Manages(user[x.actor].roles) /\ user[x.actor].status = "ACTIVE")
  /\ x.pc = "insert" /\ x.roles \ {"VIEWER"} # {} => x.manages

AuthorityInv == \A c \in Calls : Authorized(call[c])

\* The calls that may still count a failure.
Counting == { c \in Calls : call[c].pc \in { "credentials", "failed" } }

\* A call that passed the check has its failure in the bound before it counts it.
BudgetInv == "get" \notin faults => failures.count + Cardinality(Counting) <= Limit - 1 + Cardinality(Calls)

IdInv == NoSelfPromotion /\ CallInv /\ RoleInv /\ AuthorityInv /\ BudgetInv

-----------------------------------------------------------------------------
(* Rows and calls                                                           *)

\* What is left of the identities when one of them is written: every one that existed does,
\* and administrators are known.
Keeps ==
  /\ \A u \in Users : Exists(u) => Exists(u)'
  /\ audit \subseteq audit' /\ trusted \subseteq trusted'

\* Who had ADMIN at some time stays one who had.
LEMMA EverManagerKept ==
  ASSUME Keeps, NEW u, EverManager(u)
  PROVE  EverManager(u)'
BY DEF Keeps, EverManager

\* No call is a well-formed one.
LEMMA NoCallFits == NoCall \in CallRecords /\ WellFormed(NoCall) /\ Authorized(NoCall)
PROOF
<1>1. NoCall \in CallRecords
  BY DEF NoCall, CallRecords, PCs
<1>2. WellFormed(NoCall) /\ Authorized(NoCall)
  BY NameAssumption DEF NoCall, WellFormed, Authorized
<1> QED BY <1>1, <1>2

\* A call that goes on well formed leaves all calls so.
LEMMA CallGoesOn ==
  ASSUME CallInv, AuthorityInv, UNCHANGED << user, audit, trusted >>, NEW c \in Calls, NEW x \in CallRecords,
         WellFormed(x), Authorized(x), call' = [call EXCEPT ![c] = x]
  PROVE  CallInv' /\ AuthorityInv'
PROOF
<1>1. call \in [Calls -> CallRecords]
  BY DEF CallInv
<1>2. call' \in [Calls -> CallRecords] /\ \A d \in Calls : call'[d] = IF d = c THEN x ELSE call[d]
  BY <1>1
<1>3. ASSUME NEW d \in Calls PROVE WellFormed(call'[d]) /\ Authorized(call'[d])
  BY <1>2 DEF CallInv, AuthorityInv
<1>4. \A y : (WellFormed(y) => WellFormed(y)') /\ (Authorized(y) => Authorized(y)')
  BY DEF WellFormed, Authorized, Exists, EverManager
<1>5. \A d \in Calls : WellFormed(call[d])' /\ Authorized(call[d])'
  BY <1>3, <1>4 DEF WellFormed, Authorized, Exists, EverManager
<1> QED BY <1>2, <1>5 DEF CallInv, AuthorityInv

\* A change of the tables that takes nobody's authority away leaves the calls well formed.
LEMMA CallsKept ==
  ASSUME CallInv, AuthorityInv, Keeps,
         \A a \in Users : Exists(a) =>
           /\ Manages(user[a].roles) => Manages(user'[a].roles)
           /\ user[a].status = "ACTIVE" => user'[a].status = "ACTIVE",
         NEW c \in Calls, call' = [call EXCEPT ![c] = NoCall]
  PROVE  CallInv' /\ AuthorityInv'
PROOF
<1>1. call \in [Calls -> CallRecords]
  BY DEF CallInv
<1>2. call' \in [Calls -> CallRecords] /\ \A d \in Calls : call'[d] = IF d = c THEN NoCall ELSE call[d]
  BY <1>1, NoCallFits
<1>3. \A d \in Calls : WellFormed(call'[d]) /\ Authorized(call'[d]) /\ call'[d] \in CallRecords
  BY <1>2, NoCallFits DEF CallInv, AuthorityInv
<1>4. ASSUME NEW d \in Calls PROVE WellFormed(call[d])' /\ Authorized(call[d])'
  <2> DEFINE y == call'[d]
  <2>1. WellFormed(y) /\ Authorized(y) /\ y \in CallRecords
    BY <1>3
  <2>2. y.actor \in Users => Exists(y.actor) /\ user'[y.actor].status # "NONE"
    BY <2>1 DEF WellFormed, Keeps, Exists
  <2>3. y.actor \in Users /\ EverManager(y.actor) =>
          y.actor \in trusted' \/ \E row \in audit' : row.subject = y.actor /\ "ADMIN" \in row.roles
    BY DEF Keeps, EverManager
  <2>4. WellFormed(call[d])'
    BY <2>1, <2>2 DEF WellFormed, Exists, Keeps
  <2>5. y.pc = "known" => y.actor \in Users
    BY <2>1 DEF WellFormed
  <2>6. (y.pc = "known" => y.demoted \/ user'[y.actor].status = "ACTIVE")
    BY <2>1, <2>2, <2>5 DEF Authorized
  <2>7. y.pc \in { "register", "insert" } /\ y.manages =>
          /\ y.actor \in Users
          /\ y.actor \in trusted' \/ \E row \in audit' : row.subject = y.actor /\ "ADMIN" \in row.roles
          /\ y.demoted \/ (Manages(user'[y.actor].roles) /\ user'[y.actor].status = "ACTIVE")
    BY <2>1, <2>2, <2>3 DEF Authorized
  <2>8. y.pc = "insert" /\ y.roles \ {"VIEWER"} # {} => y.manages
    BY <2>1 DEF Authorized
  <2>9. Authorized(call[d])'
    BY <2>6, <2>7, <2>8 DEF Authorized, EverManager, Manages
  <2> QED BY <2>4, <2>9
<1> QED BY <1>2, <1>4 DEF CallInv, AuthorityInv

\* An ended call leaves all calls well formed.
LEMMA CallEnds ==
  ASSUME CallInv, AuthorityInv, UNCHANGED << user, audit, trusted >>, NEW c \in Calls, End(c)
  PROVE  CallInv' /\ AuthorityInv'
BY CallGoesOn, NoCallFits DEF End

\* Calls stay well formed, and their authority is that of their actors.
LEMMA CallStep ==
  ASSUME TypeOK, CallInv, RoleInv, AuthorityInv, [Next]_vars
  PROVE  CallInv' /\ AuthorityInv'
PROOF
<1>0. call \in [Calls -> CallRecords] /\ \A c \in Calls : call[c] \in CallRecords
  BY DEF CallInv
<1>a. \A c \in Calls : WellFormed(call[c]) /\ Authorized(call[c])
  BY DEF CallInv, AuthorityInv
<1>b. ASSUME NEW c \in Calls, NEW pc \in PCs, Goto(c, pc), UNCHANGED << user, audit, trusted >>,
             pc \in { "verified", "failed", "issuing", "arming" },
             pc \in { "verified", "issuing" } => call[c].user \in Users
      PROVE  CallInv' /\ AuthorityInv'
  <2> DEFINE x == [call[c] EXCEPT !.pc = pc]
  <2>1. x \in CallRecords /\ WellFormed(x) /\ Authorized(x)
    BY <1>0, <1>a, <1>b DEF CallRecords, WellFormed, Authorized
  <2>2. call' = [call EXCEPT ![c] = x]
    BY <1>0, <1>b DEF Goto
  <2> QED BY <1>b, <2>1, <2>2, CallGoesOn
<1>1. ASSUME NEW c \in Calls, NEW u \in Users, LoginCheck(c, u) PROVE CallInv' /\ AuthorityInv'
  <2> DEFINE x == [NoCall EXCEPT !.pc = "credentials", !.user = u]
  <2>1. x \in CallRecords /\ WellFormed(x) /\ Authorized(x)
    BY NameAssumption DEF NoCall, CallRecords, WellFormed, Authorized, PCs
  <2>2. call' = [call EXCEPT ![c] = x] /\ UNCHANGED << user, audit, trusted >>
    BY <1>1 DEF LoginCheck
  <2> QED BY <2>1, <2>2, CallGoesOn
<1>2. ASSUME NEW c \in Calls, authenticate(c) PROVE CallInv' /\ AuthorityInv'
  <2>1. call[c].user \in Users /\ UNCHANGED << user, audit, trusted >> /\ (Goto(c, "verified") \/ Goto(c, "failed"))
    BY <1>a, <1>2 DEF authenticate, WellFormed
  <2> QED BY <1>b, <2>1 DEF PCs
<1>3. ASSUME NEW c \in Calls, Incr(c) PROVE CallInv' /\ AuthorityInv'
  <2>1. UNCHANGED << user, audit, trusted >> /\ (Goto(c, "arming") \/ End(c))
    BY <1>3 DEF Incr
  <2> QED BY <1>b, <2>1, CallEnds DEF PCs
<1>4. ASSUME NEW c \in Calls, Expire(c) \/ RedisFails(c) \/ create_access_token(c) \/ Refused(c)
      PROVE  CallInv' /\ AuthorityInv'
  BY <1>4, CallEnds DEF Expire, RedisFails, create_access_token, Refused
<1>5. ASSUME NEW c \in Calls, Reset(c) PROVE CallInv' /\ AuthorityInv'
  <2>1. call[c].user \in Users /\ UNCHANGED << user, audit, trusted >> /\ Goto(c, "issuing")
    BY <1>a, <1>5 DEF Reset, WellFormed
  <2> QED BY <1>b, <2>1 DEF PCs
<1>6. ASSUME Tick \/ UNCHANGED vars PROVE CallInv' /\ AuthorityInv'
  <2>1. UNCHANGED << user, audit, trusted, call >>
    BY <1>6 DEF Tick, vars
  <2> QED BY <2>1 DEF CallInv, AuthorityInv, WellFormed, Authorized, Exists, EverManager
<1>7. ASSUME NEW c \in Calls, Anonymous(c) PROVE CallInv' /\ AuthorityInv'
  <2> DEFINE x == [NoCall EXCEPT !.pc = "register"]
  <2>1. x \in CallRecords /\ WellFormed(x) /\ Authorized(x)
    BY NameAssumption DEF NoCall, CallRecords, WellFormed, Authorized, PCs
  <2>2. call[c] = NoCall
    BY <1>a, <1>7 DEF Anonymous, WellFormed
  <2>3. call' = [call EXCEPT ![c] = x] /\ UNCHANGED << user, audit, trusted >>
    BY <1>0, <1>7, <2>2 DEF Anonymous, Goto
  <2> QED BY <2>1, <2>3, CallGoesOn
<1>8. ASSUME NEW c \in Calls, NEW t \in token, _authenticate(c, t) PROVE CallInv' /\ AuthorityInv'
  <2> DEFINE x == [NoCall EXCEPT !.pc = "known", !.actor = t.user, !.claims = t.roles]
  <2>1. t.user \in Users /\ t.roles \in SUBSET RoleNames /\ user[t.user].status = "ACTIVE"
    BY <1>8 DEF _authenticate, TypeOK
  <2>2. x \in CallRecords /\ WellFormed(x) /\ Authorized(x)
    BY <2>1 DEF NoCall, CallRecords, WellFormed, Authorized, PCs, Exists
  <2>3. call' = [call EXCEPT ![c] = x] /\ UNCHANGED << user, audit, trusted >>
    BY <1>8 DEF _authenticate
  <2> QED BY <2>2, <2>3, CallGoesOn
<1>9. ASSUME NEW c \in Calls, principal_for(c) PROVE CallInv' /\ AuthorityInv'
  <2> DEFINE m == Manages(user[call[c].actor].roles)
             x == [call[c] EXCEPT !.pc = "register", !.manages = m]
  <2>1. /\ call[c].pc = "known" /\ call[c].actor \in Users
        /\ call[c].demoted \/ user[call[c].actor].status = "ACTIVE"
        /\ m => EverManager(call[c].actor)
    BY <1>a, <1>9 DEF principal_for, WellFormed, Authorized, RoleInv, Manages
  <2>2. m \in BOOLEAN
    BY DEF Manages
  <2>3. call' = [call EXCEPT ![c] = x] /\ UNCHANGED << user, audit, trusted >>
    BY <1>0, <1>9 DEF principal_for
  <2>4. x \in CallRecords /\ WellFormed(x)
    BY <1>0, <1>a, <2>1, <2>2 DEF CallRecords, WellFormed, PCs
  <2>5. x.pc = "register" /\ x.manages = m /\ x.actor = call[c].actor /\ x.demoted = call[c].demoted
    BY <1>0 DEF CallRecords
  <2>6. Authorized(x)
    BY <2>1, <2>5 DEF Authorized
  <2> QED BY <2>3, <2>4, <2>6, CallGoesOn
<1>10. ASSUME NEW c \in Calls, NEW u \in Users, NEW requested \in Payloads, register(c, u, requested)
       PROVE  CallInv' /\ AuthorityInv'
  <2> DEFINE g == granted(c, requested)
             x == [call[c] EXCEPT !.pc = "insert", !.user = u, !.roles = g]
  <2>1. g \in SUBSET RoleNames /\ (g \ {"VIEWER"} # {} => call[c].manages)
    BY PayloadAssumption DEF granted, RoleNames
  <2>2. call' = [call EXCEPT ![c] = x] /\ UNCHANGED << user, audit, trusted >> /\ call[c].pc = "register"
    BY <1>0, <1>10 DEF register
  <2> HIDE DEF g
  <2>3. x \in CallRecords /\ WellFormed(x)
    BY <1>0, <1>a, <2>1, <2>2 DEF CallRecords, WellFormed, PCs
  <2>4. /\ x.pc = "insert" /\ x.roles = g /\ x.manages = call[c].manages /\ x.actor = call[c].actor
        /\ x.demoted = call[c].demoted
    BY <1>0 DEF CallRecords
  <2>5. Authorized(x)
    BY <1>a, <2>1, <2>2, <2>4 DEF Authorized
  <2> QED BY <2>2, <2>3, <2>5, CallGoesOn
<1>11. ASSUME NEW c \in Calls, RegisterCommit(c) PROVE CallInv' /\ AuthorityInv'
  <2>1. call' = [call EXCEPT ![c] = NoCall] /\ audit \subseteq audit' /\ UNCHANGED trusted
    BY <1>11 DEF RegisterCommit, End
  <2>2. \A a \in Users : Exists(a) => user'[a] = user[a]
    BY <1>11 DEF RegisterCommit, UniqueRow, TypeOK, Exists
  <2> QED BY <2>1, <2>2, CallsKept DEF Keeps, Exists
<1>12. ASSUME NEW c \in Calls, NEW u \in Users, BootstrapRead(c, u) PROVE CallInv' /\ AuthorityInv'
  <2> DEFINE m == (user[u].status = "DISABLED")
             x == [NoCall EXCEPT !.pc = IF Exists(u) THEN "promote" ELSE "create", !.user = u, !.manages = m]
  <2>1. m \in BOOLEAN
    OBVIOUS
  <2>2. call' = [call EXCEPT ![c] = x] /\ UNCHANGED << user, audit, trusted >>
    BY <1>12 DEF BootstrapRead
  <2> HIDE DEF m
  <2>3. x \in CallRecords /\ WellFormed(x) /\ Authorized(x)
    BY <2>1, NameAssumption DEF NoCall, CallRecords, WellFormed, Authorized, PCs
  <2> QED BY <2>2, <2>3, CallGoesOn
<1>13. ASSUME NEW c \in Calls, BootstrapCreate(c) PROVE CallInv' /\ AuthorityInv'
  <2>1. call' = [call EXCEPT ![c] = NoCall] /\ UNCHANGED audit /\ trusted \subseteq trusted'
    BY <1>13 DEF BootstrapCreate, End
  <2>2. \A a \in Users : Exists(a) => user'[a] = user[a]
    BY <1>13 DEF BootstrapCreate, UniqueRow, TypeOK, Exists
  <2> QED BY <2>1, <2>2, CallsKept DEF Keeps, Exists
<1>14. ASSUME NEW c \in Calls, BootstrapPromote(c) PROVE CallInv' /\ AuthorityInv'
  <2>1. call' = [call EXCEPT ![c] = NoCall] /\ UNCHANGED audit /\ trusted \subseteq trusted'
    BY <1>14 DEF BootstrapPromote, End
  <2>2. \A a \in Users : /\ user[a].roles \subseteq user'[a].roles
                         /\ user'[a].status = user[a].status \/ user'[a].status = "ACTIVE"
    BY <1>14 DEF BootstrapPromote, TypeOK, Rows
  <2> QED BY <2>1, <2>2, CallsKept DEF Keeps, Exists, Manages
<1>15. ASSUME NEW u \in Users, Administer(u) PROVE CallInv' /\ AuthorityInv'
  <2>1. /\ call' = [c \in Calls |-> [call[c] EXCEPT !.demoted = @ \/ call[c].actor = u]]
        /\ UNCHANGED audit /\ trusted \subseteq trusted' /\ \A a \in Users \ {u} : user'[a] = user[a]
        /\ user'[u].status \in { user[u].status, "DISABLED" } /\ Exists(u)
    BY <1>15 DEF Administer, TypeOK, Rows
  <2>2. call' \in [Calls -> CallRecords]
    BY <1>0, <2>1 DEF CallRecords
  <2>3. ASSUME NEW c \in Calls PROVE WellFormed(call[c])' /\ Authorized(call[c])'
    <3> DEFINE x == call[c]
               y == call'[c]
    <3>1. /\ y.pc = x.pc /\ y.user = x.user /\ y.actor = x.actor /\ y.roles = x.roles /\ y.manages = x.manages
          /\ x.actor # u => y = x
          /\ x.actor = u => y.demoted
      <4> DEFINE m == (x.demoted \/ x.actor = u)
      <4>1. y = [x EXCEPT !.demoted = m] /\ x \in CallRecords
        BY <1>0, <2>1
      <4>2. x.demoted \in BOOLEAN
        BY <4>1 DEF CallRecords
      <4>3. (x.actor # u => m = x.demoted) /\ (x.actor = u => m)
        BY <4>2
      <4> HIDE DEF x, y, m
      <4>4. /\ y.pc = x.pc /\ y.user = x.user /\ y.actor = x.actor /\ y.roles = x.roles
            /\ y.manages = x.manages /\ y.demoted = m
        BY <4>1 DEF CallRecords
      <4>5. m = x.demoted => y = x
        BY <4>1 DEF CallRecords
      <4> QED BY <4>3, <4>4, <4>5
    <3>2. WellFormed(x) /\ Authorized(x)
      BY <1>a
    <3>3. x.pc = "idle" => y = x
      BY <3>1, <3>2, NameAssumption DEF WellFormed, NoCall
    <3>4. WellFormed(call[c])'
      BY <2>1, <3>1, <3>2, <3>3 DEF WellFormed, Exists
    <3>5. y.demoted \/ y = x
      BY <3>1
    <3>6. y.pc = "known" => y.demoted \/ user'[y.actor].status = "ACTIVE"
      BY <2>1, <3>1, <3>2 DEF Authorized, WellFormed
    <3>7. y.pc \in { "register", "insert" } /\ y.manages =>
            /\ y.actor \in Users /\ EverManager(y.actor)
            /\ y.demoted \/ (Manages(user'[y.actor].roles) /\ user'[y.actor].status = "ACTIVE")
      BY <2>1, <3>1, <3>2 DEF Authorized
    <3>8. y.pc = "insert" /\ y.roles \ {"VIEWER"} # {} => y.manages
      BY <3>1, <3>2 DEF Authorized
    <3>9. EverManager(y.actor) =>
            y.actor \in trusted' \/ \E row \in audit' : row.subject = y.actor /\ "ADMIN" \in row.roles
      BY <2>1 DEF EverManager
    <3>10. Authorized(call[c])'
      BY <3>6, <3>7, <3>8, <3>9 DEF Authorized, EverManager, Manages
    <3> QED BY <3>4, <3>10
  <2> QED BY <2>2, <2>3 DEF CallInv, AuthorityInv
<1> QED BY <1>1, <1>2, <1>3, <1>4, <1>5, <1>6, <1>7, <1>8, <1>9, <1>10, <1>11, <1>12, <1>13, <1>14, <1>15
    DEF Next, LoginStep, RegisterStep, BootstrapStep

\* Every step keeps the types.
LEMMA TypeStep ==
  ASSUME TypeOK, CallInv, [Next]_vars
  PROVE  TypeOK'
PROOF
<1>0. \A c \in Calls : call[c] \in CallRecords /\ WellFormed(call[c])
  BY DEF CallInv
<1>a. Window \in Nat \ {0} /\ TokenTTL \in Nat \ {0}
  BY LimitAssumption
<1>b. NoKey \in [count : Nat, ttl : 0 .. Window]
  BY <1>a DEF NoKey
<1>c. NoUser \in Rows
  BY DEF NoUser, Rows
<1>1. ASSUME NEW c \in Calls, NEW u \in Users, LoginCheck(c, u) PROVE TypeOK'
  BY <1>1 DEF LoginCheck, TypeOK, Exists
<1>2. ASSUME NEW c \in Calls, authenticate(c) PROVE TypeOK'
  BY <1>2 DEF authenticate, TypeOK, Exists
<1>3. ASSUME NEW c \in Calls, Incr(c) PROVE TypeOK'
  <2>1. failures' \in [count : Nat, ttl : 0 .. Window]
    BY <1>3 DEF Incr, TypeOK
  <2> QED BY <1>3, <2>1 DEF Incr, TypeOK, Exists
<1>4. ASSUME NEW c \in Calls, Expire(c) PROVE TypeOK'
  <2>1. failures' \in [count : Nat, ttl : 0 .. Window]
    BY <1>a, <1>b, <1>4 DEF Expire, TypeOK
  <2> QED BY <1>4, <2>1 DEF Expire, TypeOK, Exists
<1>5. ASSUME NEW c \in Calls, RedisFails(c) PROVE TypeOK'
  BY <1>5 DEF RedisFails, TypeOK, Exists
<1>6. ASSUME NEW c \in Calls, Reset(c) PROVE TypeOK'
  BY <1>b, <1>6 DEF Reset, TypeOK, Exists
<1>7. ASSUME NEW c \in Calls, create_access_token(c) PROVE TypeOK'
  <2>1. call[c].user \in Users
    BY <1>0, <1>7 DEF create_access_token, WellFormed
  <2>2. user[call[c].user].roles \in SUBSET RoleNames /\ TokenTTL \in 1 .. TokenTTL
    BY <1>a, <2>1 DEF TypeOK, Rows
  <2>3. token' \subseteq [user : Users, roles : SUBSET RoleNames, left : 1 .. TokenTTL]
    BY <1>7, <2>1, <2>2 DEF create_access_token, TypeOK
  <2> QED BY <1>7, <2>3 DEF create_access_token, TypeOK, Exists
<1>8. ASSUME Tick PROVE TypeOK'
  <2>1. failures' \in [count : Nat, ttl : 0 .. Window]
    BY <1>a, <1>b, <1>8 DEF Tick, TypeOK
  <2>2. ASSUME NEW t \in token, t.left > 1
        PROVE  [t EXCEPT !.left = @ - 1] \in [user : Users, roles : SUBSET RoleNames, left : 1 .. TokenTTL]
    BY <1>a, <2>2 DEF TypeOK
  <2>3. token' \subseteq [user : Users, roles : SUBSET RoleNames, left : 1 .. TokenTTL]
    BY <1>8, <2>2 DEF Tick
  <2> QED BY <1>8, <2>1, <2>3 DEF Tick, TypeOK, Exists
<1>9. ASSUME NEW c \in Calls, Anonymous(c) \/ principal_for(c) \/ Refused(c) PROVE TypeOK'
  BY <1>9 DEF Anonymous, principal_for, Refused, TypeOK, Exists
<1>10. ASSUME NEW c \in Calls, NEW t \in token, _authenticate(c, t) PROVE TypeOK'
  BY <1>10 DEF _authenticate, TypeOK, Exists
<1>11. ASSUME NEW c \in Calls, NEW u \in Users, NEW requested \in Payloads, register(c, u, requested) PROVE TypeOK'
  BY <1>11 DEF register, TypeOK, Exists
<1>12. ASSUME NEW c \in Calls, RegisterCommit(c) PROVE TypeOK'
  <2> DEFINE u == call[c].user
             actor == IF call[c].actor = "anonymous" THEN u ELSE call[c].actor
             row == [status |-> "ACTIVE", roles |-> call[c].roles]
  <2>1. u \in Users /\ actor \in Users /\ call[c].roles \in SUBSET RoleNames
    BY <1>0, <1>12 DEF RegisterCommit, WellFormed, CallRecords
  <2>2. row \in Rows /\ row.status = "ACTIVE"
    BY <2>1 DEF Rows
  <2>3. /\ user' = [user EXCEPT ![u] = row] /\ UNCHANGED << trusted, failures, faults, token >>
        /\ audit' = audit \cup { [actor |-> actor, subject |-> u, roles |-> call[c].roles] }
    BY <1>12 DEF RegisterCommit
  <2>4. audit' \subseteq [actor : Users, subject : Users, roles : SUBSET RoleNames]
    BY <2>1, <2>3 DEF TypeOK
  <2> HIDE DEF row
  <2>5. user' \in [Users -> Rows] /\ \A v \in Users : user'[v] = IF v = u THEN row ELSE user[v]
    BY <2>1, <2>2, <2>3 DEF TypeOK
  <2>6. \A v \in Users : user'[v].status = "NONE" => user'[v] = NoUser
    BY <2>2, <2>5 DEF TypeOK, Exists
  <2> QED BY <2>3, <2>4, <2>5, <2>6 DEF TypeOK, Exists
<1>13. ASSUME NEW c \in Calls, NEW u \in Users, BootstrapRead(c, u) PROVE TypeOK'
  BY <1>13 DEF BootstrapRead, TypeOK, Exists
<1>14. ASSUME NEW c \in Calls, BootstrapCreate(c) PROVE TypeOK'
  <2>1. call[c].user \in Users
    BY <1>0, <1>14 DEF BootstrapCreate, WellFormed
  <2>2. [status |-> "ACTIVE", roles |-> {"ADMIN"}] \in Rows
    BY DEF Rows, RoleNames
  <2> QED BY <1>14, <2>1, <2>2 DEF BootstrapCreate, TypeOK, Exists
<1>15. ASSUME NEW c \in Calls, BootstrapPromote(c) PROVE TypeOK'
  <2> DEFINE u == call[c].user
  <2>1. call[c].user \in Users
    BY <1>0, <1>15 DEF BootstrapPromote, WellFormed
  <2>2. user' \in [Users -> Rows]
    BY <1>15, <2>1 DEF BootstrapPromote, TypeOK, Rows, RoleNames
  <2>3. \A v \in Users : v # call[c].user => user'[v] = user[v]
    BY <1>15, <2>1 DEF BootstrapPromote, TypeOK
  <2>4. user'[u].status # "NONE"
    <3>1. user[u].status # "NONE"
      BY <1>0, <1>15 DEF BootstrapPromote, WellFormed, Exists
    <3> QED BY <1>15, <2>1, <3>1 DEF BootstrapPromote, TypeOK, Rows
  <2> QED BY <1>15, <2>1, <2>2, <2>3, <2>4 DEF BootstrapPromote, TypeOK, Exists
<1>16. ASSUME NEW u \in Users, Administer(u) PROVE TypeOK'
  <2>1. user' \in [Users -> Rows] /\ \A v \in Users \ {u} : user'[v] = user[v]
    BY <1>16, PayloadAssumption DEF Administer, TypeOK, Rows
  <2>2. user'[u].status # "NONE"
    BY <1>16 DEF Administer, TypeOK, Rows, Exists
  <2> QED BY <1>16, <2>1, <2>2 DEF Administer, TypeOK, Exists
<1>17. CASE UNCHANGED vars
  BY <1>17 DEF vars, TypeOK, Exists
<1> QED BY <1>1, <1>2, <1>3, <1>4, <1>5, <1>6, <1>7, <1>8, <1>9, <1>10, <1>11, <1>12, <1>13, <1>14, <1>15,
           <1>16, <1>17
    DEF Next, LoginStep, RegisterStep, BootstrapStep

-----------------------------------------------------------------------------
(* Roles                                                                    *)

\* The second half of NoSelfPromotion.
Granted(u) ==
  user[u].roles \ {"VIEWER"} # {} =>
    \/ u \in trusted
    \/ \E row \in audit : row.subject = u /\ row.actor # u /\ EverManager(row.actor)

GrantedInv == \A u \in Users : Granted(u)

\* Identities whose roles are left alone or that are trusted stay well founded.
LEMMA GrantedKept ==
  ASSUME Keeps, RoleInv, GrantedInv,
         \A u \in Users : user'[u].roles = user[u].roles \/ u \in trusted'
  PROVE  RoleInv' /\ GrantedInv'
PROOF
<1>1. ASSUME NEW u \in Users, "ADMIN" \in user'[u].roles PROVE EverManager(u)'
  BY <1>1, EverManagerKept DEF RoleInv, EverManager
<1>2. ASSUME NEW u \in Users PROVE Granted(u)'
  <2>1. CASE u \in trusted'
    BY <2>1 DEF Granted
  <2>2. CASE user'[u].roles = user[u].roles
    <3>1. ASSUME user'[u].roles \ {"VIEWER"} # {}, u \notin trusted'
          PROVE  \E row \in audit' : row.subject = u /\ row.actor # u /\ EverManager(row.actor)'
      <4>1. PICK row \in audit : row.subject = u /\ row.actor # u /\ EverManager(row.actor)
        BY <2>2, <3>1 DEF GrantedInv, Granted, Keeps
      <4>2. EverManager(row.actor)'
        BY <4>1, EverManagerKept
      <4> QED BY <4>1, <4>2 DEF Keeps
    <3> QED BY <3>1 DEF Granted
  <2> QED BY <2>1, <2>2
<1> QED BY <1>1, <1>2 DEF RoleInv, GrantedInv

\* Nobody gets more than VIEWER but from outside or from another identity that had ADMIN.
LEMMA GrantedStep ==
  ASSUME TypeOK, CallInv, AuthorityInv, RoleInv, GrantedInv, [Next]_vars
  PROVE  RoleInv' /\ GrantedInv'
PROOF
<1>0. \A c \in Calls : call[c] \in CallRecords /\ WellFormed(call[c]) /\ Authorized(call[c])
  BY DEF CallInv, AuthorityInv
<1>a. ASSUME UNCHANGED << user, audit, trusted >> PROVE RoleInv' /\ GrantedInv'
  BY <1>a, GrantedKept DEF Keeps, Exists
<1>1. ASSUME NEW c \in Calls, LoginStep(c) PROVE UNCHANGED << user, audit, trusted >>
  BY <1>1 DEF LoginStep, LoginCheck, authenticate, Incr, Expire, RedisFails, Reset, create_access_token
<1>2. ASSUME NEW c \in Calls, RegisterStep(c), ~RegisterCommit(c) PROVE UNCHANGED << user, audit, trusted >>
  BY <1>2 DEF RegisterStep, Anonymous, principal_for, Refused, _authenticate, register
<1>3. ASSUME NEW c \in Calls, RegisterCommit(c) PROVE RoleInv' /\ GrantedInv'
  <2>0. PICK u \in Users : u = call[c].user
    BY <1>0, <1>3 DEF RegisterCommit, WellFormed
  <2> DEFINE actor == IF call[c].actor = "anonymous" THEN u ELSE call[c].actor
  <2>1. PICK row : /\ ~Exists(u) /\ UNCHANGED trusted /\ call[c].pc = "insert"
                   /\ user' = [user EXCEPT ![u] = [status |-> "ACTIVE", roles |-> call[c].roles]]
                   /\ audit' = audit \cup { row }
                   /\ row = [actor |-> actor, subject |-> u, roles |-> call[c].roles]
    BY <1>3, <2>0 DEF RegisterCommit, UniqueRow
  <2>2. \A v \in Users \ {u} : user'[v] = user[v]
    BY <2>1 DEF TypeOK
  <2>3. user'[u].roles = call[c].roles
    BY <2>1 DEF TypeOK
  <2>4. Keeps
    BY <2>1, <2>2 DEF Keeps, Exists
  <2>5. row \in audit' /\ row.subject = u /\ row.roles = call[c].roles /\ row.actor = actor
    BY <2>1
  <2>6. "ADMIN" \in user'[u].roles => EverManager(u)'
    BY <2>3, <2>5 DEF EverManager
  <2>7. Granted(u)'
    <3>1. ASSUME user'[u].roles \ {"VIEWER"} # {} PROVE row.actor # u /\ EverManager(row.actor)'
      <4>1. call[c].manages /\ call[c].actor \in Users /\ EverManager(call[c].actor)
        BY <1>0, <2>1, <2>3, <3>1 DEF Authorized
      <4>2. call[c].actor # u /\ row.actor = call[c].actor
        BY <1>0, <2>1, <2>5, <4>1, NameAssumption DEF WellFormed
      <4>3. EverManager(row.actor)
        BY <4>1, <4>2
      <4>4. EverManager(row.actor)'
        BY <2>4, <4>3, EverManagerKept
      <4> QED BY <4>2, <4>4
    <3> QED BY <2>5, <3>1 DEF Granted
  <2>8. ASSUME NEW v \in Users, v # u PROVE ("ADMIN" \in user'[v].roles => EverManager(v)') /\ Granted(v)'
    <3>1. user'[v] = user[v]
      BY <2>2, <2>8
    <3>2. "ADMIN" \in user'[v].roles => EverManager(v)'
      BY <2>4, <3>1, EverManagerKept DEF RoleInv
    <3>3. ASSUME user'[v].roles \ {"VIEWER"} # {}, v \notin trusted'
          PROVE  \E r \in audit' : r.subject = v /\ r.actor # v /\ EverManager(r.actor)'
      <4>1. PICK r \in audit : r.subject = v /\ r.actor # v /\ EverManager(r.actor)
        BY <3>1, <3>3, <2>4 DEF GrantedInv, Granted, Keeps
      <4>2. EverManager(r.actor)'
        BY <2>4, <4>1, EverManagerKept
      <4> QED BY <4>1, <4>2, <2>4 DEF Keeps
    <3> QED BY <3>2, <3>3 DEF Granted
  <2> QED BY <2>6, <2>7, <2>8 DEF RoleInv, GrantedInv
<1>4. ASSUME NEW c \in Calls, NEW u \in Users, BootstrapRead(c, u) PROVE UNCHANGED << user, audit, trusted >>
  BY <1>4 DEF BootstrapRead
<1>5. ASSUME NEW c \in Calls, BootstrapCreate(c) PROVE RoleInv' /\ GrantedInv'
  <2>1. /\ call[c].user \in Users /\ ~Exists(call[c].user) /\ trusted' = trusted \cup {call[c].user} /\ UNCHANGED audit
        /\ \A v \in Users \ {call[c].user} : user'[v] = user[v]
    BY <1>0, <1>5 DEF BootstrapCreate, WellFormed, UniqueRow, TypeOK
  <2>2. Keeps
    BY <2>1 DEF Keeps, Exists
  <2> QED BY <2>1, <2>2, GrantedKept
<1>6. ASSUME NEW c \in Calls, BootstrapPromote(c) PROVE RoleInv' /\ GrantedInv'
  <2>1. /\ call[c].user \in Users /\ trusted' = trusted \cup {call[c].user} /\ UNCHANGED audit
        /\ \A v \in Users \ {call[c].user} : user'[v] = user[v]
        /\ user'[call[c].user].status \in { "ACTIVE", user[call[c].user].status }
    BY <1>0, <1>6 DEF BootstrapPromote, WellFormed, TypeOK, Rows
  <2>2. Keeps
    BY <2>1 DEF Keeps, Exists
  <2> QED BY <2>1, <2>2, GrantedKept
<1>7. ASSUME NEW u \in Users, Administer(u) PROVE RoleInv' /\ GrantedInv'
  <2>1. /\ trusted \subseteq trusted' /\ UNCHANGED audit /\ Exists(u)
        /\ \A v \in Users \ {u} : user'[v] = user[v]
        /\ user'[u].status \in { "DISABLED", user[u].status }
        /\ user'[u].roles = user[u].roles \/ u \in trusted'
    BY <1>7 DEF Administer, TypeOK, Rows
  <2>2. Keeps
    BY <2>1 DEF Keeps, Exists
  <2> QED BY <2>1, <2>2, GrantedKept
<1>8. ASSUME Tick \/ UNCHANGED vars PROVE UNCHANGED << user, audit, trusted >>
  BY <1>8 DEF Tick, vars
<1> QED BY <1>a, <1>1, <1>2, <1>3, <1>4, <1>5, <1>6, <1>7, <1>8 DEF Next, BootstrapStep

-----------------------------------------------------------------------------
(* The budget of failures                                                   *)

\* A call that passed the check counts at most one failure, so the calls that passed it
\* together overrun the budget by no more than their number.
LEMMA BudgetStep ==
  ASSUME TypeOK, CallInv, BudgetInv, [Next]_vars
  PROVE  BudgetInv'
PROOF
<1>0. /\ failures.count \in Nat /\ Limit \in Nat \ {0} /\ IsFiniteSet(Calls) /\ Cardinality(Calls) \in Nat
      /\ call \in [Calls -> CallRecords] /\ NoCall.pc = "idle"
  BY LimitAssumption, CallAssumption, FS_CardinalityType DEF TypeOK, CallInv, NoCall
<1>1. IsFiniteSet(Counting) /\ Cardinality(Counting) \in Nat /\ Cardinality(Counting) <= Cardinality(Calls)
  <2>1. Counting \in SUBSET Calls
    BY DEF Counting
  <2> QED BY <1>0, <2>1, FS_Subset, FS_CardinalityType
<1>2. Counting' \in SUBSET Calls
  BY DEF Counting
<1>3. IsFiniteSet(Counting') /\ Cardinality(Counting') \in Nat /\ Cardinality(Counting') <= Cardinality(Calls)
  BY <1>0, <1>2, FS_Subset, FS_CardinalityType
<1>a. ASSUME Counting' \subseteq Counting, failures'.count \in Nat, failures'.count <= failures.count,
             faults \subseteq faults'
      PROVE  BudgetInv'
  <2>1. Cardinality(Counting') <= Cardinality(Counting)
    BY <1>1, <1>a, FS_Subset
  <2>2. ASSUME "get" \notin faults'
        PROVE  failures'.count + Cardinality(Counting') <= Limit - 1 + Cardinality(Calls)
    <3>1. failures.count + Cardinality(Counting) <= Limit - 1 + Cardinality(Calls)
      BY <1>a, <2>2 DEF BudgetInv
    <3> QED BY <1>0, <1>1, <1>3, <1>a, <2>1, <3>1
  <2> QED BY <2>2 DEF BudgetInv
<1>b. ASSUME UNCHANGED failures PROVE failures'.count \in Nat /\ failures'.count <= failures.count
  BY <1>0, <1>b
<1>c. ASSUME NEW c \in Calls, \A d \in Calls \ {c} : call'[d] = call[d],
             call[c].pc \in { "credentials", "failed" } \/ call'[c].pc \notin { "credentials", "failed" }
      PROVE  Counting' \subseteq Counting
  BY <1>c DEF Counting
<1>d. ASSUME NEW c \in Calls, End(c)
      PROVE  /\ \A d \in Calls \ {c} : call'[d] = call[d]
             /\ call'[c].pc \notin { "credentials", "failed" }
  BY <1>0, <1>d DEF End
<1>e. ASSUME NEW c \in Calls, NEW pc \in PCs, Goto(c, pc)
      PROVE  /\ \A d \in Calls \ {c} : call'[d] = call[d]
             /\ call'[c].pc = pc
  BY <1>0, <1>e DEF Goto, CallRecords
<1>4. ASSUME NEW c \in Calls, NEW u \in Users, LoginCheck(c, u) PROVE BudgetInv'
  <2>1. UNCHANGED failures /\ (failures.count < Limit \/ "get" \in faults')
    BY <1>4 DEF LoginCheck, check
  <2> QED BY <1>0, <1>3, <2>1 DEF BudgetInv
<1>5. ASSUME NEW c \in Calls, authenticate(c) PROVE BudgetInv'
  <2>1. /\ UNCHANGED << failures, faults >> /\ call[c].pc = "credentials"
        /\ Goto(c, "verified") \/ Goto(c, "failed")
    BY <1>5 DEF authenticate
  <2>2. \A d \in Calls \ {c} : call'[d] = call[d]
    BY <1>e, <2>1 DEF PCs
  <2> QED BY <1>a, <1>b, <1>c, <2>1, <2>2
<1>6. ASSUME NEW c \in Calls, Incr(c) PROVE BudgetInv'
  <2>1. failures'.count = failures.count + 1 /\ UNCHANGED faults /\ call[c].pc = "failed"
    BY <1>6 DEF Incr, TypeOK
  <2>2. /\ \A d \in Calls \ {c} : call'[d] = call[d]
        /\ call'[c].pc \notin { "credentials", "failed" }
    BY <1>d, <1>e, <1>6 DEF Incr, PCs
  <2>3. Counting' = Counting \ {c} /\ c \in Counting
    BY <2>1, <2>2 DEF Counting
  <2>4. Cardinality(Counting') = Cardinality(Counting) - 1
    BY <1>1, <2>3, FS_RemoveElement
  <2>5. ASSUME "get" \notin faults'
        PROVE  failures'.count + Cardinality(Counting') <= Limit - 1 + Cardinality(Calls)
    <3>1. failures.count + Cardinality(Counting) <= Limit - 1 + Cardinality(Calls)
      BY <2>1, <2>5 DEF BudgetInv
    <3> QED BY <1>0, <1>1, <2>1, <2>4, <3>1
  <2> QED BY <2>5 DEF BudgetInv
<1>7. ASSUME NEW c \in Calls, Expire(c) PROVE BudgetInv'
  <2>1. failures'.count = failures.count /\ UNCHANGED faults
    BY <1>7 DEF Expire, TypeOK, NoKey
  <2>2. failures'.count \in Nat /\ failures'.count <= failures.count
    BY <1>0, <2>1
  <2> QED BY <1>a, <1>c, <1>d, <1>7, <2>1, <2>2 DEF Expire
<1>8. ASSUME NEW c \in Calls,
             RedisFails(c) \/ create_access_token(c) \/ Refused(c) \/ RegisterCommit(c)
               \/ BootstrapCreate(c) \/ BootstrapPromote(c)
      PROVE  BudgetInv'
  <2>1. UNCHANGED failures /\ faults \subseteq faults' /\ End(c)
    BY <1>8 DEF RedisFails, create_access_token, Refused, RegisterCommit, BootstrapCreate, BootstrapPromote
  <2> QED BY <1>a, <1>b, <1>c, <1>d, <2>1
<1>9. ASSUME NEW c \in Calls, Reset(c) PROVE BudgetInv'
  <2>1. failures' \in { failures, NoKey } /\ UNCHANGED faults /\ Goto(c, "issuing")
    BY <1>9 DEF Reset
  <2>2. failures'.count \in Nat /\ failures'.count <= failures.count
    BY <1>0, <2>1 DEF NoKey
  <2> QED BY <1>a, <1>c, <1>e, <2>1, <2>2 DEF PCs
<1>10. ASSUME NEW c \in Calls, Anonymous(c) PROVE BudgetInv'
  <2>1. UNCHANGED << failures, faults >> /\ Goto(c, "register")
    BY <1>10 DEF Anonymous
  <2> QED BY <1>a, <1>b, <1>c, <1>e, <2>1 DEF PCs
<1>11. ASSUME NEW c \in Calls, NEW t \in token, _authenticate(c, t) PROVE BudgetInv'
  <2>1. /\ UNCHANGED << failures, faults >> /\ \A d \in Calls \ {c} : call'[d] = call[d]
        /\ call'[c].pc = "known"
    BY <1>0, <1>11 DEF _authenticate, NoCall
  <2> QED BY <1>a, <1>b, <1>c, <2>1
<1>12. ASSUME NEW c \in Calls, principal_for(c) PROVE BudgetInv'
  <2>1. /\ UNCHANGED << failures, faults >> /\ \A d \in Calls \ {c} : call'[d] = call[d]
        /\ call'[c].pc = "register"
    BY <1>0, <1>12 DEF principal_for, CallRecords
  <2> QED BY <1>a, <1>b, <1>c, <2>1
<1>13. ASSUME NEW c \in Calls, NEW u \in Users, NEW requested \in Payloads, register(c, u, requested)
       PROVE  BudgetInv'
  <2>1. /\ UNCHANGED << failures, faults >> /\ \A d \in Calls \ {c} : call'[d] = call[d]
        /\ call'[c].pc = "insert"
    BY <1>0, <1>13 DEF register, CallRecords
  <2> QED BY <1>a, <1>b, <1>c, <2>1
<1>14. ASSUME NEW c \in Calls, NEW u \in Users, BootstrapRead(c, u) PROVE BudgetInv'
  <2>1. /\ UNCHANGED << failures, faults >> /\ \A d \in Calls \ {c} : call'[d] = call[d]
        /\ call'[c].pc \in { "promote", "create" }
    BY <1>0, <1>14 DEF BootstrapRead, NoCall
  <2> QED BY <1>a, <1>b, <1>c, <2>1
<1>15. ASSUME NEW u \in Users, Administer(u) PROVE BudgetInv'
  <2>1. UNCHANGED << failures, faults >> /\ \A d \in Calls : call'[d].pc = call[d].pc
    BY <1>0, <1>15 DEF Administer, CallRecords
  <2>2. Counting' \subseteq Counting
    BY <2>1 DEF Counting
  <2> QED BY <1>a, <1>b, <2>1, <2>2
<1>16. ASSUME Tick PROVE BudgetInv'
  <2>1. UNCHANGED << faults, call >> /\ failures'.count \in { failures.count, 0 }
    BY <1>16 DEF Tick, NoKey, TypeOK
  <2>2. failures'.count \in Nat /\ failures'.count <= failures.count
    BY <1>0, <2>1
  <2>3. Counting' \subseteq Counting
    BY <2>1 DEF Counting
  <2> QED BY <1>a, <2>1, <2>2, <2>3
<1>17. CASE UNCHANGED vars
  BY <1>17 DEF vars, BudgetInv, Counting
<1> QED BY <1>4, <1>5, <1>6, <1>7, <1>8, <1>9, <1>10, <1>11, <1>12, <1>13, <1>14, <1>15, <1>16, <1>17
    DEF Next, LoginStep, RegisterStep, BootstrapStep

-----------------------------------------------------------------------------
(* What the identities promise                                              *)

\* The invariant holds at the start and is kept by every step.
LEMMA Invariance == Spec => []IdInv
PROOF
<1>0. NoSelfPromotion <=> TypeOK /\ GrantedInv
  BY DEF NoSelfPromotion, GrantedInv, Granted
<1>1. ASSUME Init PROVE IdInv
  <2>1. TypeOK /\ GrantedInv /\ RoleInv
    BY <1>1, LimitAssumption DEF Init, TypeOK, GrantedInv, Granted, RoleInv, NoUser, NoKey, Rows, Exists
  <2>2. CallInv /\ AuthorityInv
    BY <1>1, NoCallFits DEF Init, CallInv, AuthorityInv
  <2>3. BudgetInv
    <3>1. Counting = {} /\ failures.count = 0
      BY <1>1 DEF Init, Counting, NoCall, NoKey
    <3>2. Cardinality(Counting) = 0 /\ Cardinality(Calls) \in Nat /\ Limit \in Nat \ {0}
      BY <3>1, LimitAssumption, CallAssumption, FS_EmptySet, FS_CardinalityType
    <3> QED BY <3>1, <3>2 DEF BudgetInv
  <2> QED BY <1>0, <2>1, <2>2, <2>3 DEF IdInv
<1>2. ASSUME IdInv, [Next]_vars PROVE IdInv'
  <2>1. TypeOK' /\ CallInv' /\ AuthorityInv' /\ RoleInv' /\ GrantedInv' /\ BudgetInv'
    BY <1>0, <1>2, TypeStep, CallStep, GrantedStep, BudgetStep DEF IdInv
  <2>2. NoSelfPromotion'
    BY <2>1 DEF NoSelfPromotion, GrantedInv, Granted
  <2> QED BY <2>1, <2>2 DEF IdInv
<1> QED BY <1>1, <1>2, PTL DEF Spec

\* Nobody gets more than VIEWER but from outside of the API or from another identity that
\* had user.manage and stands in the audit trail (auth.py, register).
THEOREM Promotion == Spec => []NoSelfPromotion
BY Invariance, PTL DEF IdInv

\* Roles are granted on the authority that the tables give the caller at that moment, unless
\* it was changed while the very request was under way (dependencies.py, _authenticate).
THEOREM Revocation == Spec => []RevokedAtOnce
PROOF
<1>1. IdInv => RevokedAtOnce
  BY DEF IdInv, AuthorityInv, Authorized, RevokedAtOnce
<1> QED BY <1>1, Invariance, PTL

\* While Redis answers, an origin counts fewer failures than its budget and the calls in
\* flight together (rate_limit.py, check and register_failure).
THEOREM Overrun == Spec => []OverrunBounded
PROOF
<1>1. ASSUME IdInv PROVE OverrunBounded
  <2>1. failures.count \in Nat /\ Limit \in Nat /\ IsFiniteSet(Calls) /\ Cardinality(Calls) \in Nat
    BY <1>1, LimitAssumption, CallAssumption, FS_CardinalityType DEF IdInv, NoSelfPromotion, TypeOK
  <2>2. Counting \in SUBSET Calls
    BY DEF Counting
  <2>3. Cardinality(Counting) \in Nat
    BY <2>1, <2>2, FS_Subset, FS_CardinalityType
  <2>4. "get" \notin faults => failures.count + Cardinality(Counting) <= Limit - 1 + Cardinality(Calls)
    BY <1>1 DEF IdInv, BudgetInv
  <2> QED BY <2>1, <2>3, <2>4 DEF OverrunBounded
<1> QED BY <1>1, Invariance, PTL

-----------------------------------------------------------------------------
(* The reach of a caller                                                    *)

\* What the queries so far have collected is bound, below a bound node, or deleted since.
CollectedInv ==
  LET bound == resolution.bindings IN
  /\ \A a \in resolution.areas :
       \/ <<"AREA", a>> \in bound
       \/ area[a] = Gone
       \/ /\ area[a] \in Plants
          /\ <<"PLANT", area[a]>> \in bound \/ <<"ORGANIZATION", plant[area[a]]>> \in bound
  /\ \A p \in resolution.plants :
       \/ plant[p] = Gone
       \/ plant[p] \in Orgs /\ <<"ORGANIZATION", plant[p]>> \in bound

Replacements ==
  [ pc : { "idle", "validated", "deleted" }, user : Principals \cup {"none"},
    bindings : SUBSET Bindings, doomed : SUBSET Bindings ]

Resolutions ==
  [ pc : { "idle", "bound", "areas", "plants", "resolved" }, user : Principals \cup {"none"},
    bindings : SUBSET Bindings, plants : SUBSET Plants, areas : SUBSET Areas ]

\* A replacement in flight is of somebody's bindings.
ReplacementInv == \A r \in Requests : request[r].pc # "idle" => request[r].user \in Principals

\* The invariant of the hierarchy and of the resolution, and of the replacements.
ForestInv == NoOrphans /\ CollectedInv
OInv      == ForestInv /\ ReplacementInv

\* What bindings name at a level.
LEMMA BindingIds ==
  ASSUME NEW S \in SUBSET Bindings
  PROVE  /\ \A a : a \in Ids(S, "AREA") <=> <<"AREA", a>> \in S
         /\ \A p : p \in Ids(S, "PLANT") <=> <<"PLANT", p>> \in S
         /\ \A o : o \in Ids(S, "ORGANIZATION") <=> <<"ORGANIZATION", o>> \in S
         /\ Ids(S, "AREA") \subseteq Areas
         /\ Ids(S, "PLANT") \subseteq Plants
         /\ Ids(S, "ORGANIZATION") \subseteq Orgs
PROOF
<1>1. \A b \in S : b = <<b[1], b[2]>>
  BY DEF Bindings
<1>2. \A level, x : x \in Ids(S, level) <=> <<level, x>> \in S
  <2> SUFFICES ASSUME NEW level, NEW x PROVE x \in Ids(S, level) <=> <<level, x>> \in S
    OBVIOUS
  <2>1. ASSUME x \in Ids(S, level) PROVE <<level, x>> \in S
    <3>1. PICK b \in S : b[1] = level /\ x = b[2]
      BY <2>1 DEF Ids
    <3> QED BY <1>1, <3>1
  <2>2. ASSUME <<level, x>> \in S PROVE x \in Ids(S, level)
    <3>1. <<level, x>>[1] = level /\ <<level, x>>[2] = x
      OBVIOUS
    <3> QED BY <2>2, <3>1 DEF Ids
  <2> QED BY <2>1, <2>2
<1>3. \A a : <<"AREA", a>> \in Bindings => a \in Areas
  BY DEF Bindings
<1>4. \A p : <<"PLANT", p>> \in Bindings => p \in Plants
  BY DEF Bindings
<1>5. \A o : <<"ORGANIZATION", o>> \in Bindings => o \in Orgs
  BY DEF Bindings
<1> QED BY <1>2, <1>3, <1>4, <1>5

\* A device with an area hangs from an organization, and is below a bound node if its area, its
\* plant or its organization is bound.
LEMMA AboveBound ==
  ASSUME NoOrphans, NEW d \in Devices, device_scope[d] # NoArea,
         NEW S \in SUBSET Bindings
  PROVE  LET a == device_scope[d] IN
         /\ a \in LiveAreas /\ area[a] \in LivePlants
         /\ Above(d) \cap S # {} <=> \/ <<"AREA", a>> \in S \/ <<"PLANT", area[a]>> \in S
                                     \/ <<"ORGANIZATION", plant[area[a]]>> \in S
PROOF
<1>1. device_scope[d] \in LiveAreas /\ area[device_scope[d]] \in LivePlants
  BY DEF NoOrphans, LiveAreas
<1>2. Above(d) = { <<"AREA", device_scope[d]>>, <<"PLANT", area[device_scope[d]]>>,
                   <<"ORGANIZATION", plant[area[device_scope[d]]]>> }
  BY <1>1 DEF Above
<1> QED BY <1>1, <1>2

\* A cascade takes everything below the dropped plants along; what a resolution has collected
\* there is gone.
LEMMA DropStep ==
  ASSUME ForestInv, NEW gone \in SUBSET LivePlants, DropPlants(gone),
         UNCHANGED << user_scope, request, resolution >>,
         organization' \in [Orgs -> {"live", Unused, Gone}],
         \A p \in LivePlants \ gone : organization'[plant[p]] = "live"
  PROVE  ForestInv'
PROOF
<1> USE NullAssumption
<1>0. /\ plant \in [Plants -> Orgs \cup {Unused, Gone}]
      /\ area \in [Areas -> Plants \cup {Unused, Gone}]
      /\ device_scope \in [Devices -> Areas \cup {NoArea}]
      /\ gone \subseteq Plants
  BY DEF ForestInv, NoOrphans, ScopeTypeOK, LivePlants
<1>1. /\ plant' = [p \in Plants |-> IF p \in gone THEN Gone ELSE plant[p]]
      /\ area' = [a \in Areas |-> IF a \in LiveAreas /\ area[a] \in gone THEN Gone ELSE area[a]]
      /\ device_scope' = [d \in Devices |->
           IF device_scope[d] \in LiveAreas /\ area[device_scope[d]] \in gone THEN NoArea ELSE device_scope[d]]
  BY DEF DropPlants, DropAreas, LiveAreas
<1>2. ScopeTypeOK'
  BY <1>0, <1>1 DEF ForestInv, NoOrphans, ScopeTypeOK
<1>3. LivePlants' = LivePlants \ gone
  BY <1>0, <1>1 DEF LivePlants
<1>4. LiveAreas' = { a \in LiveAreas : area[a] \notin gone }
  BY <1>0, <1>1 DEF LiveAreas
<1>5. NoOrphans'
  <2>1. \A p \in LivePlants' : plant'[p] \in LiveOrgs'
    BY <1>0, <1>1, <1>3 DEF LiveOrgs, LivePlants
  <2>2. \A a \in LiveAreas' : area'[a] \in LivePlants'
    BY <1>0, <1>1, <1>3, <1>4 DEF ForestInv, NoOrphans, LiveAreas
  <2>3. \A d \in Devices : device_scope'[d] # NoArea => device_scope'[d] \in LiveAreas'
    BY <1>0, <1>1, <1>4 DEF ForestInv, NoOrphans
  <2> QED BY <1>2, <2>1, <2>2, <2>3 DEF NoOrphans
<1>6. CollectedInv'
  <2>0. resolution.areas \subseteq Areas /\ resolution.plants \subseteq Plants
    BY DEF ForestInv, NoOrphans, ScopeTypeOK
  <2>1. \A a \in Areas : area[a] \in Plants => area'[a] = Gone \/ (area'[a] = area[a] /\ plant'[area[a]] = plant[area[a]])
    BY <1>0, <1>1 DEF LiveAreas
  <2>2. \A a \in Areas : area[a] = Gone => area'[a] = Gone
    BY <1>0, <1>1
  <2>3. \A p \in Plants : plant'[p] = Gone \/ plant'[p] = plant[p]
    BY <1>0, <1>1
  <2> QED BY <2>0, <2>1, <2>2, <2>3 DEF ForestInv, CollectedInv
<1> QED BY <1>5, <1>6 DEF ForestInv

\* Rows are inserted below rows that are there, and deleted with what is below them.
LEMMA HierarchyKept ==
  ASSUME ForestInv, HierarchyStep
  PROVE  ForestInv'
PROOF
<1> USE NullAssumption
<1>0. /\ organization \in [Orgs -> {"live", Unused, Gone}]
      /\ plant \in [Plants -> Orgs \cup {Unused, Gone}]
      /\ area \in [Areas -> Plants \cup {Unused, Gone}]
      /\ device_scope \in [Devices -> Areas \cup {NoArea}]
      /\ resolution.areas \subseteq Areas /\ resolution.plants \subseteq Plants
  BY DEF ForestInv, NoOrphans, ScopeTypeOK
<1>1. ASSUME NEW o \in Orgs, create_organization(o) PROVE ForestInv'
  <2>1. ScopeTypeOK' /\ LiveOrgs \subseteq LiveOrgs'
    BY <1>0, <1>1 DEF ForestInv, NoOrphans, ScopeTypeOK, create_organization, LiveOrgs
  <2> QED BY <1>1, <2>1 DEF ForestInv, NoOrphans, CollectedInv, create_organization, LivePlants, LiveAreas
<1>2. ASSUME NEW o \in Orgs, delete_organization(o) PROVE ForestInv'
  <2> DEFINE gone == { p \in LivePlants : plant[p] = o }
  <2>1. \A p \in LivePlants \ gone : organization'[plant[p]] = "live"
    BY <1>0, <1>2 DEF ForestInv, NoOrphans, delete_organization, LiveOrgs, LivePlants
  <2>2. organization' \in [Orgs -> {"live", Unused, Gone}]
    BY <1>0, <1>2 DEF delete_organization
  <2>3. DropPlants(gone) /\ UNCHANGED << user_scope, request, resolution >>
    BY <1>2 DEF delete_organization
  <2> HIDE DEF gone
  <2>4. gone \in SUBSET LivePlants
    BY DEF gone
  <2> QED BY <2>1, <2>2, <2>3, <2>4, DropStep
<1>3. ASSUME NEW p \in Plants, delete_plant(p) PROVE ForestInv'
  <2>1. DropPlants({p}) /\ UNCHANGED << user_scope, request, resolution >> /\ {p} \in SUBSET LivePlants
    BY <1>3 DEF delete_plant
  <2>2. organization' \in [Orgs -> {"live", Unused, Gone}]
    BY <1>0, <1>3 DEF delete_plant
  <2>3. \A q \in LivePlants \ {p} : organization'[plant[q]] = "live"
    BY <1>0, <1>3 DEF ForestInv, NoOrphans, delete_plant, LiveOrgs
  <2> QED BY <2>1, <2>2, <2>3, DropStep
<1>4. ASSUME NEW p \in Plants, NEW o \in Orgs, create_plant(p, o) PROVE ForestInv'
  <2>1. plant' = [plant EXCEPT ![p] = o] /\ plant[p] = Unused /\ organization[o] = "live"
    BY <1>4 DEF create_plant, LiveOrgs
  <2>2. ScopeTypeOK'
    <3>1. plant' \in [Plants -> Orgs \cup {Unused, Gone}]
      BY <1>0, <2>1
    <3>2. UNCHANGED << organization, area, device_scope, user_scope, request, resolution >>
      BY <1>4 DEF create_plant
    <3> QED BY <3>1, <3>2 DEF ForestInv, NoOrphans, ScopeTypeOK
  <2>3. \A q \in LivePlants' : plant'[q] \in LiveOrgs'
    BY <1>0, <1>4, <2>1 DEF ForestInv, NoOrphans, create_plant, LivePlants, LiveOrgs
  <2>4. \A a \in LiveAreas' : area'[a] \in LivePlants'
    BY <1>0, <1>4, <2>1 DEF ForestInv, NoOrphans, create_plant, LivePlants, LiveAreas
  <2>5. \A a \in Areas : area[a] \in Plants => plant'[area[a]] = plant[area[a]]
    BY <1>0, <2>1 DEF ForestInv, NoOrphans, LiveAreas, LivePlants
  <2>6. CollectedInv'
    <3>1. \A q \in Plants : plant[q] = Gone \/ plant[q] \in Orgs => plant'[q] = plant[q]
      BY <1>0, <2>1
    <3>2. area' = area /\ resolution' = resolution
      BY <1>4 DEF create_plant
    <3> QED BY <1>0, <2>5, <3>1, <3>2 DEF ForestInv, CollectedInv
  <2> QED BY <1>4, <2>2, <2>3, <2>4, <2>6 DEF ForestInv, NoOrphans, create_plant, LiveAreas
<1>5. ASSUME NEW a \in Areas, delete_area(a) PROVE ForestInv'
  <2>1. /\ area' = [b \in Areas |-> IF b = a THEN Gone ELSE area[b]]
        /\ device_scope' = [d \in Devices |-> IF device_scope[d] = a THEN NoArea ELSE device_scope[d]]
        /\ UNCHANGED << organization, plant, user_scope, request, resolution >>
    BY <1>5 DEF delete_area, DropAreas
  <2>2. ScopeTypeOK'
    BY <1>0, <2>1 DEF ForestInv, NoOrphans, ScopeTypeOK
  <2>3. LiveAreas' = LiveAreas \ {a}
    BY <1>0, <2>1 DEF LiveAreas
  <2>4. \A d \in Devices : device_scope'[d] # NoArea => device_scope'[d] \in LiveAreas'
    BY <1>0, <2>1, <2>3 DEF ForestInv, NoOrphans
  <2>5. \A b \in LiveAreas' : area'[b] \in LivePlants'
    BY <1>0, <2>1, <2>3 DEF ForestInv, NoOrphans, LiveAreas, LivePlants
  <2>6. CollectedInv'
    BY <1>0, <2>1 DEF ForestInv, CollectedInv
  <2> QED BY <2>1, <2>2, <2>4, <2>5, <2>6 DEF ForestInv, NoOrphans, LivePlants, LiveOrgs
<1>6. ASSUME NEW a \in Areas, NEW p \in Plants, create_area(a, p) PROVE ForestInv'
  <2>1. area' = [area EXCEPT ![a] = p] /\ area[a] = Unused
    BY <1>6 DEF create_area
  <2>2. ScopeTypeOK'
    BY <1>0, <1>6 DEF ForestInv, NoOrphans, ScopeTypeOK, create_area
  <2>3. LiveAreas' = LiveAreas \cup {a}
    BY <1>0, <2>1 DEF LiveAreas
  <2>4. \A b \in LiveAreas' : area'[b] \in LivePlants'
    BY <1>0, <1>6, <2>1, <2>3 DEF ForestInv, NoOrphans, create_area, LiveAreas, LivePlants
  <2>5. CollectedInv'
    <3>1. \A b \in Areas : area[b] = Gone \/ area[b] \in Plants => area'[b] = area[b]
      BY <1>0, <2>1
    <3>2. plant' = plant /\ resolution' = resolution
      BY <1>6 DEF create_area
    <3> QED BY <1>0, <3>1, <3>2 DEF ForestInv, CollectedInv
  <2> QED BY <1>6, <2>2, <2>3, <2>4, <2>5 DEF ForestInv, NoOrphans, create_area, LivePlants, LiveOrgs
<1>7. ASSUME NEW d \in Devices, NEW a \in Areas \cup {NoArea}, set_device_scope(d, a) PROVE ForestInv'
  <2>1. ScopeTypeOK'
    BY <1>0, <1>7 DEF ForestInv, NoOrphans, ScopeTypeOK, set_device_scope
  <2>2. \A e \in Devices : device_scope'[e] # NoArea => device_scope'[e] \in LiveAreas'
    BY <1>0, <1>7 DEF ForestInv, NoOrphans, set_device_scope, LiveAreas
  <2> QED BY <1>7, <2>1, <2>2 DEF ForestInv, NoOrphans, CollectedInv, set_device_scope, LivePlants,
             LiveAreas, LiveOrgs
<1> QED BY <1>1, <1>2, <1>3, <1>4, <1>5, <1>6, <1>7 DEF HierarchyStep

\* Nothing but the hierarchy itself makes orphans.
LEMMA ForestKept ==
  ASSUME ForestInv, ScopeTypeOK', UNCHANGED hierarchy
  PROVE  NoOrphans'
BY DEF ForestInv, NoOrphans, hierarchy, LiveOrgs, LivePlants, LiveAreas

\* The replacement of bindings leaves the hierarchy and the resolution alone.
LEMMA BindingStep ==
  ASSUME OInv, NEW r \in Requests,
         \/ \E u \in Principals, bindings \in SUBSET Bindings : set_user_scopes(r, u, bindings)
         \/ ScopesDeleted(r) \/ ScopesCommitted(r) \/ ScopesRolledBack(r)
  PROVE  OInv'
PROOF
<1> USE DEF Replacements
<1>0. ScopeTypeOK
  BY DEF OInv, ForestInv, NoOrphans
<1>1. UNCHANGED hierarchy /\ UNCHANGED resolution
  BY DEF set_user_scopes, ScopesDeleted, ScopesCommitted, ScopesRolledBack
<1>2. ASSUME NEW u \in Principals, NEW bindings \in SUBSET Bindings, set_user_scopes(r, u, bindings) PROVE ScopeTypeOK'
  BY <1>0, <1>1, <1>2 DEF ScopeTypeOK, set_user_scopes, hierarchy
<1>3. ASSUME ScopesRolledBack(r) PROVE ScopeTypeOK'
  BY <1>0, <1>1, <1>3 DEF ScopeTypeOK, ScopesRolledBack, NoReplacement, hierarchy
<1>4. ASSUME ScopesDeleted(r) PROVE ScopeTypeOK'
  <2>1. request[r].user \in Principals
    BY <1>4 DEF OInv, ForestInv, ReplacementInv, ScopesDeleted
  <2>2. PICK doomed \in SUBSET Bindings : doomed = user_scope[request[r].user]
    BY <1>0, <2>1 DEF ScopeTypeOK
  <2> DEFINE k == [request[r] EXCEPT !.pc = "deleted", !.doomed = doomed]
  <2>3. user_scope' = user_scope /\ request' = [request EXCEPT ![r] = k]
    BY <1>0, <1>4, <2>2 DEF ScopesDeleted, ScopeTypeOK
  <2>4. k \in Replacements
    <3>1. request[r] \in Replacements
      BY <1>0 DEF ScopeTypeOK
    <3>2. \A x \in Replacements :
            [x EXCEPT !.pc = "deleted", !.doomed = doomed]
              \in Replacements
      OBVIOUS
    <3> QED BY <3>1, <3>2
  <2> HIDE DEF k
  <2>5. request' \in [Requests -> Replacements]
    BY <1>0, <2>3, <2>4 DEF ScopeTypeOK
  <2> QED BY <1>0, <1>1, <2>3, <2>5 DEF ScopeTypeOK, hierarchy
<1>5. ASSUME ScopesCommitted(r) PROVE ScopeTypeOK'
  BY <1>0, <1>1, <1>5 DEF ScopeTypeOK, ScopesCommitted, NoReplacement, hierarchy
<1>6. ScopeTypeOK'
  BY <1>2, <1>3, <1>4, <1>5
<1>7. request \in [Requests -> Replacements]
  BY <1>0 DEF ScopeTypeOK
<1>8. ReplacementInv'
  BY <1>7 DEF OInv, ForestInv, ReplacementInv, NoReplacement, set_user_scopes, ScopesDeleted,
     ScopesCommitted, ScopesRolledBack
<1> QED BY <1>1, <1>6, <1>8, ForestKept DEF OInv, ForestInv, CollectedInv, hierarchy

\* Every query collects what is live and below a bound node at its moment.
LEMMA QueryStep ==
  ASSUME OInv,
         \/ \E u \in Principals : ResolveBindings(u)
         \/ ResolveAreas \/ ResolvePlants \/ ResolveOrgAreas \/ ScopeDenied
         \/ \E d \in Devices : ensure_device_in_scope(d)
  PROVE  OInv'
PROOF
<1> USE DEF Resolutions
<1> DEFINE bound == resolution.bindings
<1>0. /\ ScopeTypeOK /\ bound \in SUBSET Bindings
      /\ resolution \in Resolutions
  BY DEF OInv, ForestInv, NoOrphans, ScopeTypeOK
<1>1. UNCHANGED << hierarchy, user_scope, request >>
  BY DEF ResolveBindings, ResolveAreas, ResolvePlants, ResolveOrgAreas, ScopeDenied, ensure_device_in_scope
<1>2. SUFFICES /\ resolution' \in Resolutions
               /\ CollectedInv'
  <2>1. ASSUME resolution' \in Resolutions
        PROVE  ScopeTypeOK'
    BY <1>0, <1>1, <2>1 DEF ScopeTypeOK, hierarchy
  <2> QED BY <1>1, <2>1, ForestKept DEF OInv, ForestInv, ReplacementInv
<1>3. ASSUME NEW p \in PlantsOf(Ids(bound, "ORGANIZATION"))
      PROVE  p \in Plants /\ plant[p] \in Orgs /\ <<"ORGANIZATION", plant[p]>> \in bound
  BY <1>0, BindingIds DEF PlantsOf, LivePlants
<1>4. ASSUME NEW a \in ReachedAreas(bound, {})
      PROVE  /\ a \in Areas
             /\ <<"AREA", a>> \in bound \/ (area[a] \in Plants /\ <<"PLANT", area[a]>> \in bound)
  BY <1>0, BindingIds DEF ReachedAreas, AreasOf, LiveAreas
<1>5. ASSUME NEW a \in AreasOf(resolution.plants)
      PROVE  a \in Areas /\ area[a] \in Plants /\ <<"ORGANIZATION", plant[area[a]]>> \in bound
  <2>1. a \in LiveAreas /\ a \in Areas /\ area[a] \in resolution.plants /\ area[a] \in Plants
    BY <1>0 DEF AreasOf, LiveAreas
  <2>2. plant[area[a]] # Gone
    BY <2>1, NullAssumption DEF OInv, ForestInv, NoOrphans, LivePlants
  <2> QED BY <2>1, <2>2 DEF OInv, ForestInv, CollectedInv
<1>6. plant' = plant /\ area' = area
  BY <1>1 DEF hierarchy
<1>7. CASE ScopeDenied \/ \E d \in Devices : ensure_device_in_scope(d)
  <2>1. resolution' = NoResolution
    BY <1>7 DEF ScopeDenied, ensure_device_in_scope
  <2> QED BY <2>1 DEF NoResolution, CollectedInv
<1>8. CASE \E u \in Principals : ResolveBindings(u)
  <2>1. PICK u \in Principals : resolution' = [NoResolution EXCEPT !.pc = "bound", !.user = u, !.bindings = user_scope[u]]
    BY <1>8 DEF ResolveBindings
  <2>2. user_scope[u] \in SUBSET Bindings
    BY <1>0 DEF ScopeTypeOK
  <2> QED BY <2>1, <2>2 DEF NoResolution, CollectedInv
<1>9. CASE ResolveAreas
  <2>1. resolution' = [resolution EXCEPT !.pc = "areas", !.areas = ReachedAreas(bound, {})]
    BY <1>9 DEF ResolveAreas
  <2>2. ReachedAreas(bound, {}) \in SUBSET Areas
    BY <1>4
  <2>3. /\ resolution' \in Resolutions
        /\ resolution'.areas = ReachedAreas(bound, {}) /\ resolution'.bindings = bound
        /\ resolution'.plants = resolution.plants
    BY <1>0, <2>1, <2>2
  <2> QED BY <1>4, <1>6, <2>3 DEF OInv, ForestInv, CollectedInv
<1>10. CASE ResolvePlants
  <2>1. resolution' = [resolution EXCEPT !.pc = "plants", !.plants = PlantsOf(Ids(bound, "ORGANIZATION"))]
    BY <1>10 DEF ResolvePlants
  <2>2. PlantsOf(Ids(bound, "ORGANIZATION")) \in SUBSET Plants
    BY <1>3
  <2>3. /\ resolution' \in Resolutions
        /\ resolution'.areas = resolution.areas /\ resolution'.bindings = bound
        /\ resolution'.plants = PlantsOf(Ids(bound, "ORGANIZATION"))
    BY <1>0, <2>1, <2>2
  <2> QED BY <1>3, <1>6, <2>3 DEF OInv, ForestInv, CollectedInv
<1>11. CASE ResolveOrgAreas
  <2>1. resolution' = [resolution EXCEPT !.pc = "resolved", !.areas = @ \cup AreasOf(resolution.plants)]
    BY <1>11 DEF ResolveOrgAreas
  <2>2. AreasOf(resolution.plants) \in SUBSET Areas
    BY <1>5
  <2>3. /\ resolution' \in Resolutions
        /\ resolution'.areas = resolution.areas \cup AreasOf(resolution.plants) /\ resolution'.bindings = bound
        /\ resolution'.plants = resolution.plants
    BY <1>0, <2>1, <2>2
  <2> QED BY <1>5, <1>6, <2>3 DEF OInv, ForestInv, CollectedInv
<1> QED BY <1>7, <1>8, <1>9, <1>10, <1>11

\* The hierarchy is a forest, and what is collected stays below what is bound.
LEMMA ScopeInvariance == ScopeSpec => []OInv
PROOF
<1>1. ScopeInit => OInv
  <2> SUFFICES ASSUME ScopeInit PROVE OInv
    OBVIOUS
  <2>1. ScopeTypeOK
    BY DEF ScopeInit, ScopeTypeOK, NoReplacement, NoResolution
  <2>2. LivePlants = {} /\ LiveAreas = {}
    BY NullAssumption DEF ScopeInit, LivePlants, LiveAreas
  <2>3. NoOrphans
    BY <2>1, <2>2 DEF ScopeInit, NoOrphans
  <2> QED BY <2>3 DEF ScopeInit, OInv, ForestInv, CollectedInv, ReplacementInv, NoReplacement, NoResolution
<1>2. OInv /\ [ScopeNext]_scope_vars => OInv'
  <2> SUFFICES ASSUME OInv, [ScopeNext]_scope_vars PROVE OInv'
    OBVIOUS
  <2>1. CASE UNCHANGED scope_vars
    BY <2>1 DEF scope_vars, OInv, ForestInv, NoOrphans, ScopeTypeOK, CollectedInv, ReplacementInv, LiveOrgs,
       LivePlants, LiveAreas
  <2>2. CASE ScopeNext
    <3>1. CASE HierarchyStep
      <4>1. UNCHANGED request
        BY <3>1 DEF HierarchyStep, create_organization, delete_organization, create_plant, delete_plant,
                    create_area, delete_area, set_device_scope
      <4> QED BY <3>1, <4>1, HierarchyKept DEF OInv, ReplacementInv
    <3> QED BY <2>2, <3>1, BindingStep, QueryStep DEF ScopeNext
  <2> QED BY <2>1, <2>2
<1> QED BY <1>1, <1>2, PTL DEF ScopeSpec

\* A request that is let through acts on a device below a node the caller was bound to when
\* its bindings were read, though devices move, subtrees are deleted and bindings replaced
\* between the queries (scope_policy.py, resolve_device_access).
THEOREM AdmissionIsBelowBinding == ScopeSpec => []AdmittedBelowBinding
PROOF
<1>1. OInv => AdmittedBelowBinding
  <2> SUFFICES ASSUME OInv, NEW d \in Devices, Admitted(d)
               PROVE  Above(d) \cap resolution.bindings # {}
    BY DEF AdmittedBelowBinding
  <2>1. device_scope[d] \in resolution.areas /\ resolution.areas \subseteq Areas /\ resolution.bindings \in SUBSET Bindings
    BY DEF Admitted, DevicesOf, OInv, ForestInv, NoOrphans, ScopeTypeOK
  <2>2. device_scope[d] # NoArea
    BY <2>1, NullAssumption
  <2>3. area[device_scope[d]] # Gone
    BY <2>2, NullAssumption DEF OInv, ForestInv, NoOrphans, LiveAreas
  <2>4. NoOrphans
    BY DEF OInv, ForestInv
  <2> QED BY <2>1, <2>2, <2>3, <2>4, AboveBound DEF OInv, ForestInv, CollectedInv
<1> QED BY <1>1, ScopeInvariance, PTL

\* The hierarchy stays a forest, and the top-down resolution reaches exactly the devices that
\* are below a bound node looked at from the device upwards; its ancestors are seen
\* (org_models.py, ON DELETE CASCADE; scope_policy.py, both resolutions).
THEOREM ReachIsTheSubtree == ScopeSpec => []ReachIsSubtree
PROOF
<1>1. OInv => ReachIsSubtree
  <2> SUFFICES ASSUME OInv PROVE ReachIsSubtree
    OBVIOUS
  <2>0. NoOrphans
    BY DEF OInv, ForestInv
  <2>1. SUFFICES ASSUME NEW u \in Principals \ Wildcards
                 PROVE  LET reached == resolve_device_access(u)
                            seen    == resolve_organization_access(u)
                        IN  /\ reached = { d \in Devices : Above(d) \cap user_scope[u] # {} }
                            /\ \A d \in reached : /\ device_scope[d] \in seen.areas
                                                  /\ area[device_scope[d]] \in seen.plants
                                                  /\ plant[area[device_scope[d]]] \in seen.orgs
    BY <2>0 DEF ReachIsSubtree
  <2> DEFINE bound == user_scope[u]
  <2>2. bound \in SUBSET Bindings
    BY <2>0 DEF NoOrphans, ScopeTypeOK
  <2>3. ASSUME NEW d \in Devices, device_scope[d] = NoArea
        PROVE  d \notin resolve_device_access(u) /\ Above(d) = {}
    BY <2>2, <2>3, BindingIds, NullAssumption
    DEF resolve_device_access, DevicesOf, ReachedAreas, AreasOf, LiveAreas, Above
  <2>4. ASSUME NEW d \in Devices, device_scope[d] # NoArea
        PROVE  d \in resolve_device_access(u) <=> Above(d) \cap bound # {}
    <3> DEFINE a == device_scope[d]
    <3>1. a \in LiveAreas /\ area[a] \in LivePlants
      BY <2>0, <2>4, AboveBound
    <3>2. d \in resolve_device_access(u) <=>
            \/ a \in Ids(bound, "AREA") \/ area[a] \in Ids(bound, "PLANT")
            \/ plant[area[a]] \in Ids(bound, "ORGANIZATION")
      BY <3>1 DEF resolve_device_access, DevicesOf, ReachedAreas, AreasOf, PlantsOf
    <3> QED BY <2>0, <2>2, <2>4, <3>2, AboveBound, BindingIds
  <2>5. ASSUME NEW d \in Devices, d \in resolve_device_access(u)
        PROVE  /\ device_scope[d] \in resolve_organization_access(u).areas
               /\ area[device_scope[d]] \in resolve_organization_access(u).plants
               /\ plant[area[device_scope[d]]] \in resolve_organization_access(u).orgs
    <3> DEFINE a       == device_scope[d]
               areas   == Ids(bound, "AREA")
               plants  == Ids(bound, "PLANT") \cup { area[b] : b \in areas \cap LiveAreas }
               orgs    == Ids(bound, "ORGANIZATION") \cup { plant[p] : p \in plants \cap LivePlants }
               plants2 == plants \cup PlantsOf(orgs)
    <3>1. a # NoArea
      BY <2>3, <2>5
    <3>2. a \in LiveAreas /\ area[a] \in LivePlants
      BY <2>0, <3>1, AboveBound
    <3>3. \/ a \in areas \/ area[a] \in Ids(bound, "PLANT")
          \/ plant[area[a]] \in Ids(bound, "ORGANIZATION")
      BY <2>5, <3>2 DEF resolve_device_access, DevicesOf, ReachedAreas, AreasOf, PlantsOf
    <3>4. plant[area[a]] \in orgs
      BY <3>2, <3>3
    <3>5. area[a] \in plants2
      BY <3>2, <3>4 DEF PlantsOf
    <3>6. a \in areas \cup AreasOf(plants2)
      BY <3>2, <3>5 DEF AreasOf
    <3>7. resolve_organization_access(u) = [orgs |-> orgs, plants |-> plants2, areas |-> areas \cup AreasOf(plants2)]
      BY DEF resolve_organization_access
    <3> HIDE DEF orgs, plants2, areas
    <3> QED BY <3>4, <3>5, <3>6, <3>7
  <2>6. resolve_device_access(u) \subseteq Devices
    BY DEF resolve_device_access, DevicesOf
  <2>7. resolve_device_access(u) = { d \in Devices : Above(d) \cap bound # {} }
    BY <2>3, <2>4, <2>6
  <2> QED BY <2>5, <2>6, <2>7
<1> QED BY <1>1, ScopeInvariance, PTL
=============================================================================

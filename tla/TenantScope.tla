----------------------------- MODULE TenantScope -----------------------------
(***************************************************************************)
(* Whom a request of the core API speaks for: logins, sessions and bearer  *)
(* tokens (core/views.py, authentication.py) and the tenant checks before  *)
(* each view (permissions.py, etl/views.py).  A session keeps the operator *)
(* in the server's store, a token carries it; both end JWT_EXPIRY_HOURS    *)
(* after the login.                                                        *)
(***************************************************************************)
EXTENDS Naturals

CONSTANTS Users, Tenants,
          Profiles,   \* OperatorProfile rows, as seeded: <<user, tenant>>
          Browsers,   \* cookie jars, one session each
          Calls,      \* requests
          NoOperator, \* a session without operator, a request without token
          NoTenant,   \* no tenant_id parameter
          Lifetime,   \* JWT_EXPIRY_HOURS
          MaxHours    \* bound: hours that pass

ASSUME ScopeAssumption ==
  /\ Profiles \subseteq Users \X Tenants
  /\ Lifetime \in Nat /\ MaxHours \in Nat
  /\ NoTenant \notin Tenants
  /\ NoOperator \notin [user : Users, tenant : Tenants, until : Nat]

VARIABLES
  hour,    \* the clock
  session, \* the operator in the session of each browser
  tokens,  \* tokens handed out
  call,    \* each request: where it stands, its browser, whom it speaks for
  left     \* history: browsers that logged out, with no login begun since

scopeVars == <<hour, session, tokens, call, left>>

Operators == [user : Users, tenant : Tenants, until : Nat]
Points == {"idle", "login", "allowed", "closed"}

(* stored: the session a login under way will save: a row of its own, the  *)
(* browser's row, which it has loaded, or one that a logout has deleted.   *)
CallTypes ==
  [at : Points, browser : Browsers, who : Operators \cup {NoOperator},
   stored : {"none", "loaded", "deleted"}, since : Nat]

ScopeTypeOK ==
  /\ hour \in Nat
  /\ session \in [Browsers -> Operators \cup {NoOperator}]
  /\ tokens \subseteq Operators
  /\ call \in [Calls -> CallTypes]
  /\ left \subseteq Browsers

(* The operator a login of u at tenant t makes.                            *)
Operator(u, t) == [user |-> u, tenant |-> t, until |-> hour + Lifetime]

(* A request that speaks for nobody: not yet, or no more.                  *)
Request(at, b) ==
  [at |-> at, browser |-> b, who |-> NoOperator, stored |-> "none", since |-> 0]

(* Browsers without and with a login.                                      *)
ScopeInit ==
  /\ hour = 0
  /\ session \in [Browsers -> {NoOperator} \cup {Operator(p[1], p[2]) : p \in Profiles}]
  /\ tokens = {session[b] : b \in Browsers} \ {NoOperator}
  /\ call \in [Calls -> {Request("idle", b) : b \in Browsers}]
  /\ left = {}

-----------------------------------------------------------------------------
(* Logins and logouts.                                                     *)

(* Neither an expired session nor an expired token is read.                *)
Live(operator) == operator # NoOperator /\ hour < operator.until

(* An hour passes; a login takes no hour.                                  *)
Tick ==
  /\ hour < MaxHours
  /\ \A q \in Calls : call[q].at # "login"
  /\ hour' = hour + 1
  /\ UNCHANGED <<session, tokens, call, left>>

(* Fields, password and profile are right; the session was loaded when the *)
(* request came in.                                                        *)
LoginChecks(q, u, t) ==
  /\ call[q].at = "idle" /\ <<u, t>> \in Profiles
  /\ call' = [call EXCEPT ![q].at = "login",
        ![q].who = Operator(u, t),
        ![q].stored = IF Live(session[call[q].browser]) THEN "loaded" ELSE "none"]
  /\ left' = left \ {call[q].browser}
  /\ UNCHANGED <<hour, session, tokens>>

(* The token is issued; the session row is created or updated, unless a    *)
(* logout has deleted it: then Django answers 400 and nothing is saved.  A *)
(* login without a row brings the browser a session of its own; one under  *)
(* way with the row before will do so too.                                 *)
LoginSaves(q) ==
  /\ call[q].at = "login"
  /\ LET b == call[q].browser
         saved == call[q].stored # "deleted"
         fresh == call[q].stored = "none"
     IN  /\ call' = [p \in Calls |->
               IF p = q THEN Request("closed", b)
               ELSE IF fresh /\ call[p].browser = b /\ call[p].stored = "loaded"
               THEN [call[p] EXCEPT !.stored = "none"] ELSE call[p]]
         /\ session' = IF saved THEN [session EXCEPT ![b] = call[q].who] ELSE session
         /\ tokens' = IF saved THEN tokens \cup {call[q].who} ELSE tokens
         /\ left' = IF fresh THEN left \ {b} ELSE left
  /\ UNCHANGED hour

(* Mutant: the operator is taken out of the session, the row stays.        *)
Logout_RowStays(b) ==
  /\ Live(session[b])
  /\ session' = [session EXCEPT ![b] = NoOperator]
  /\ left' = left \cup {b}
  /\ UNCHANGED <<hour, tokens, call>>

(* session.flush deletes the row, under a login that has loaded it too;    *)
(* tokens stay good.                                                       *)
Logout(b) ==
  /\ Live(session[b])
  /\ session' = [session EXCEPT ![b] = NoOperator]
  /\ call' = [q \in Calls |->
       IF call[q].browser = b /\ call[q].stored = "loaded"
       THEN [call[q] EXCEPT !.stored = "deleted"] ELSE call[q]]
  /\ left' = left \cup {b}
  /\ UNCHANGED <<hour, tokens>>

-----------------------------------------------------------------------------
(* Every other request.                                                    *)

(* Mutant: a token is taken however old it is.                             *)
Speaker_AnyToken(q, token) ==
  IF Live(session[call[q].browser]) THEN session[call[q].browser] ELSE token

(* The session comes before the token, which must not have expired.        *)
Speaker(q, token) ==
  CASE Live(session[call[q].browser]) -> session[call[q].browser]
    [] ~Live(session[call[q].browser]) /\ Live(token) -> token
    [] OTHER -> NoOperator

(* TenantScopedPermission and _forbidden_if_tenant_mismatch: a tenant that *)
(* the parameters name is the speaker's.                                   *)
Authenticates(q, token, named) ==
  /\ call[q].at = "idle"
  /\ LET who == Speaker(q, token)
     IN  /\ who # NoOperator
         /\ named \in {who.tenant, NoTenant}
         /\ call' = [call EXCEPT ![q].at = "allowed", ![q].who = who, ![q].since = hour]
  /\ UNCHANGED <<hour, session, tokens, left>>

(* A request that is refused, 400, 401 or 403, leaves everything as it is. *)
ScopeStep ==
  \/ Tick
  \/ \E q \in Calls, u \in Users, t \in Tenants : LoginChecks(q, u, t)
  \/ \E q \in Calls : LoginSaves(q)
  \/ \E b \in Browsers : Logout(b)
  \/ \E q \in Calls, token \in tokens \cup {NoOperator}, named \in Tenants \cup {NoTenant} :
       Authenticates(q, token, named)

-----------------------------------------------------------------------------
(* Properties.                                                             *)

(* A request that is let through speaks for an operator who has a profile  *)
(* of the tenant and logged in less than Lifetime before, by a session as  *)
(* by a token, whatever logins and logouts lie between (core/views.py:54,  *)
(* authentication.py:20-46).                                               *)
SpeaksForAnOperator == \A q \in Calls : call[q].at = "allowed" =>
  /\ <<call[q].who.user, call[q].who.tenant>> \in Profiles
  /\ call[q].since < call[q].who.until
  /\ call[q].who.until <= call[q].since + Lifetime

(* A logout holds: a login that shares the session and was under way does  *)
(* not bring it back (core/views.py:61 against 79).                        *)
LogoutHolds == \A b \in left : session[b] = NoOperator
=============================================================================

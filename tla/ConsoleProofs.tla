---------------------------- MODULE ConsoleProofs ----------------------------
(***************************************************************************)
(* Proofs about Console, for any operators, tenants, browsers, requests    *)
(* and deliveries: whom requests speak for (ScopeInv), whose job they      *)
(* touch (TouchInv), and what the row says of its end (EndInv).            *)
(***************************************************************************)
EXTENDS Console, SequenceTheorems, TLAPS

(* A login made of a profile, not longer ago than the clock shows.         *)
Granted(operator) ==
  /\ operator \in Operators
  /\ <<operator.user, operator.tenant>> \in Profiles
  /\ operator.until <= hour + Lifetime

(* A session and a token keep what a login put there.                      *)
KeptInv ==
  /\ \A b \in Browsers : session[b] # NoOperator => Granted(session[b])
  /\ \A operator \in tokens : Granted(operator)

(* A request speaks for a login; a login that will save over the browser's *)
(* row began after the last logout of that browser.                        *)
CallInv(q) ==
  /\ call[q].at = "login" => Granted(call[q].who)
  /\ call[q].at = "allowed" => call[q].who \in Operators
  /\ call[q].stored = "loaded" => call[q].at = "login" /\ call[q].browser \notin left

ScopeInv ==
  ScopeTypeOK /\ KeptInv /\ (\A q \in Calls : CallInv(q)) /\ SpeaksForAnOperator /\ LogoutHolds

-----------------------------------------------------------------------------
(* Whom requests speak for.                                                *)

(* Before the first request only earlier logins speak for anybody.         *)
LEMMA ScopeInitial == ScopeInit => ScopeInv
<1> SUFFICES ASSUME ScopeInit PROVE ScopeInv
  OBVIOUS
<1> USE ScopeAssumption DEF ScopeInit
<1>1. \A p \in Profiles : Operator(p[1], p[2]) \in Operators /\ Granted(Operator(p[1], p[2]))
  BY DEF Operator, Operators, Granted
<1>2. \A b \in Browsers : Request("idle", b) \in CallTypes
  BY DEF Request, CallTypes, Points
<1>3. \A q \in Calls : \E b \in Browsers : call[q] = Request("idle", b)
  OBVIOUS
<1>4. ScopeTypeOK
  BY <1>1, <1>2 DEF ScopeTypeOK
<1>5. \A q \in Calls : call[q].at = "idle" /\ call[q].stored = "none"
  BY <1>3 DEF Request
<1> QED
  BY <1>1, <1>4, <1>5 DEF ScopeInv, KeptInv, CallInv, SpeaksForAnOperator, LogoutHolds

(* Time makes no login newer.                                              *)
LEMMA TickKeeps == ScopeInv /\ Tick => ScopeInv'
<1> SUFFICES ASSUME ScopeInv, Tick PROVE ScopeInv'
  OBVIOUS
<1> USE ScopeAssumption DEF ScopeInv, Tick
<1>1. \A operator : Granted(operator) => Granted(operator)'
  BY DEF Granted, ScopeTypeOK, Operators
<1> QED
  BY <1>1 DEF ScopeTypeOK, KeptInv, CallInv, SpeaksForAnOperator, LogoutHolds

(* A request whose stored session changes stays the same otherwise.        *)
LEMMA StoredChanges ==
  ASSUME NEW c \in CallTypes, NEW v \in {"none", "loaded", "deleted"}
  PROVE  /\ [c EXCEPT !.stored = v] \in CallTypes
         /\ [c EXCEPT !.stored = v].stored = v
         /\ [c EXCEPT !.stored = v].at = c.at /\ [c EXCEPT !.stored = v].browser = c.browser
         /\ [c EXCEPT !.stored = v].who = c.who /\ [c EXCEPT !.stored = v].since = c.since
  BY DEF CallTypes

(* A login asks for a profile of the tenant.                               *)
LEMMA LoginChecksKeeps ==
  ASSUME NEW q \in Calls, NEW u \in Users, NEW t \in Tenants, ScopeInv, LoginChecks(q, u, t)
  PROVE  ScopeInv'
<1> USE ScopeAssumption DEF LoginChecks
<1>0. ScopeTypeOK /\ KeptInv /\ (\A p \in Calls : CallInv(p)) /\ SpeaksForAnOperator /\ LogoutHolds
  BY DEF ScopeInv
<1> DEFINE operator == Operator(u, t)
<1>1. Granted(operator) /\ operator \in Operators
  BY <1>0 DEF Operator, Operators, Granted, ScopeTypeOK
<1>2. \A o : Granted(o) => Granted(o)'
  BY <1>0 DEF Granted
<1>3. \A p \in Calls : p # q => call'[p] = call[p]
  BY <1>0 DEF ScopeTypeOK
<1>4. /\ call'[q].at = "login" /\ call'[q].who = operator
      /\ call'[q].stored \in {"none", "loaded"} /\ call'[q].browser = call[q].browser
      /\ call'[q] \in CallTypes
  <2> HIDE DEF operator
  <2> DEFINE stored == IF Live(session[call[q].browser]) THEN "loaded" ELSE "none"
  <2>1. call'[q] = [call[q] EXCEPT !.at = "login", !.who = operator, !.stored = stored]
    BY <1>0 DEF ScopeTypeOK, operator
  <2>2. stored \in {"none", "loaded"} /\ call[q] \in CallTypes
    BY <1>0 DEF ScopeTypeOK
  <2> HIDE DEF stored
  <2>3. /\ call'[q] \in CallTypes /\ call'[q].at = "login" /\ call'[q].who = operator
        /\ call'[q].stored = stored /\ call'[q].browser = call[q].browser
    BY ONLY <1>1, <2>1, <2>2 DEF CallTypes, Points
  <2> QED BY <2>2, <2>3
<1> HIDE DEF operator
<1>5. ScopeTypeOK'
  BY <1>0, <1>3, <1>4 DEF ScopeTypeOK
<1> QED
  <2>1. KeptInv' BY <1>0, <1>2 DEF KeptInv
  <2>2. \A p \in Calls : CallInv(p)'
    <3> SUFFICES ASSUME NEW p \in Calls PROVE CallInv(p)'
      OBVIOUS
    <3>1. CASE p = q BY <1>0, <1>1, <1>2, <1>4, <3>1 DEF CallInv
    <3>2. CASE p # q
      <4>1. left' \subseteq left /\ CallInv(p) BY <1>0
      <4> QED BY <1>2, <1>3, <3>2, <4>1 DEF CallInv
    <3> QED BY <3>1, <3>2
  <2>3. SpeaksForAnOperator' BY <1>0, <1>3, <1>4 DEF SpeaksForAnOperator
  <2>4. LogoutHolds' BY <1>0 DEF LogoutHolds
  <2> QED BY <1>5, <2>1, <2>2, <2>3, <2>4 DEF ScopeInv

(* What a login saves is what it was granted.                              *)
LEMMA LoginSavesKeeps ==
  ASSUME NEW q \in Calls, ScopeInv, LoginSaves(q)
  PROVE  ScopeInv'
<1> USE ScopeAssumption
<1>0. ScopeTypeOK /\ KeptInv /\ (\A p \in Calls : CallInv(p)) /\ SpeaksForAnOperator /\ LogoutHolds
  BY DEF ScopeInv
<1> DEFINE b == call[q].browser
           fresh == call[q].stored = "none"
<1>1. /\ call[q].at = "login" /\ Granted(call[q].who) /\ b \in Browsers
      /\ call[q].who \in Operators
  BY <1>0 DEF LoginSaves, CallInv, Granted, ScopeTypeOK, CallTypes
<1>2. \A o : Granted(o) => Granted(o)'
  BY <1>0 DEF Granted, LoginSaves
<1>3. call'[q] = Request("closed", b)
  BY <1>0 DEF LoginSaves
<1>4. \A p \in Calls : p # q =>
        \/ call'[p] = call[p] /\ (fresh => ~(call[p].browser = b /\ call[p].stored = "loaded"))
        \/ fresh /\ call'[p] = [call[p] EXCEPT !.stored = "none"]
  BY <1>0 DEF LoginSaves
<1>a. \A p \in Calls : p # q =>
        /\ call'[p] \in CallTypes
        /\ call'[p].at = call[p].at /\ call'[p].who = call[p].who
        /\ call'[p].browser = call[p].browser /\ call'[p].since = call[p].since
        /\ call'[p].stored = "loaded" => call[p].stored = "loaded" /\ (fresh => call[p].browser # b)
  <2>1. \A p \in Calls : call[p] \in CallTypes
    BY <1>0 DEF ScopeTypeOK
  <2>2. \A p \in Calls :
          /\ [call[p] EXCEPT !.stored = "none"] \in CallTypes
          /\ [call[p] EXCEPT !.stored = "none"].stored = "none"
          /\ [call[p] EXCEPT !.stored = "none"].at = call[p].at
          /\ [call[p] EXCEPT !.stored = "none"].browser = call[p].browser
          /\ [call[p] EXCEPT !.stored = "none"].who = call[p].who
          /\ [call[p] EXCEPT !.stored = "none"].since = call[p].since
    BY <2>1, StoredChanges
  <2> HIDE DEF b, fresh
  <2> SUFFICES ASSUME NEW p \in Calls, p # q
               PROVE  /\ call'[p] \in CallTypes
                      /\ call'[p].at = call[p].at /\ call'[p].who = call[p].who
                      /\ call'[p].browser = call[p].browser /\ call'[p].since = call[p].since
                      /\ call'[p].stored = "loaded" =>
                           call[p].stored = "loaded" /\ (fresh => call[p].browser # b)
    OBVIOUS
  <2>3. CASE call'[p] = call[p] /\ (fresh => ~(call[p].browser = b /\ call[p].stored = "loaded"))
    BY <2>1, <2>3
  <2>4. CASE fresh /\ call'[p] = [call[p] EXCEPT !.stored = "none"]
    BY <2>2, <2>4
  <2> QED BY <1>4, <2>3, <2>4
<1>b. call'[q] \in CallTypes /\ call'[q].at = "closed" /\ call'[q].stored = "none"
  BY <1>1, <1>3 DEF CallTypes, Points, Request
<1>5. ScopeTypeOK'
  <2>1. \A p \in Calls : call'[p] \in CallTypes
    BY <1>a, <1>b
  <2> QED BY <1>0, <1>1, <2>1 DEF ScopeTypeOK, LoginSaves
<1>6. KeptInv'
  BY <1>0, <1>1, <1>2 DEF KeptInv, LoginSaves, ScopeTypeOK
<1>7. ASSUME NEW p \in Calls PROVE CallInv(p)'
  <2>1. CASE p = q BY <1>b, <2>1 DEF CallInv
  <2>2. CASE p # q
    <3>1. left' \subseteq left BY <1>0 DEF LoginSaves
    <3>2. CallInv(p) BY <1>0
    <3> QED BY <1>2, <1>a, <2>2, <3>1, <3>2 DEF CallInv
  <2> QED BY <2>1, <2>2
<1>8. SpeaksForAnOperator'
  BY <1>0, <1>a, <1>b DEF SpeaksForAnOperator
<1>9. LogoutHolds'
  BY <1>0, <1>1 DEF LogoutHolds, LoginSaves, CallInv, ScopeTypeOK, CallTypes
<1> QED
  BY <1>5, <1>6, <1>7, <1>8, <1>9 DEF ScopeInv

(* A logout takes its row from the logins that have loaded it.             *)
LEMMA LogoutKeeps ==
  ASSUME NEW b \in Browsers, ScopeInv, Logout(b)
  PROVE  ScopeInv'
<1> USE ScopeAssumption
<1>0. ScopeTypeOK /\ KeptInv /\ (\A p \in Calls : CallInv(p)) /\ SpeaksForAnOperator /\ LogoutHolds
  BY DEF ScopeInv
<1>1. \A o : Granted(o) => Granted(o)'
  BY <1>0 DEF Granted, Logout
<1>2. \A p \in Calls :
        \/ call'[p] = call[p] /\ ~(call[p].browser = b /\ call[p].stored = "loaded")
        \/ call'[p] = [call[p] EXCEPT !.stored = "deleted"]
  BY <1>0 DEF Logout
<1>3. \A p \in Calls :
        /\ call'[p] \in CallTypes
        /\ call'[p].at = call[p].at /\ call'[p].who = call[p].who
        /\ call'[p].browser = call[p].browser /\ call'[p].since = call[p].since
        /\ call'[p].stored = "loaded" => call[p].stored = "loaded" /\ call[p].browser # b
  <2>1. \A p \in Calls : call[p] \in CallTypes
    BY <1>0 DEF ScopeTypeOK
  <2>2. \A p \in Calls :
          /\ [call[p] EXCEPT !.stored = "deleted"] \in CallTypes
          /\ [call[p] EXCEPT !.stored = "deleted"].stored = "deleted"
          /\ [call[p] EXCEPT !.stored = "deleted"].at = call[p].at
          /\ [call[p] EXCEPT !.stored = "deleted"].browser = call[p].browser
          /\ [call[p] EXCEPT !.stored = "deleted"].who = call[p].who
          /\ [call[p] EXCEPT !.stored = "deleted"].since = call[p].since
    BY <2>1, StoredChanges
  <2> QED BY <1>2, <2>1, <2>2
<1>4. ScopeTypeOK'
  BY <1>0, <1>3 DEF ScopeTypeOK, Logout
<1>5. KeptInv'
  BY <1>0, <1>1 DEF KeptInv, Logout, ScopeTypeOK
<1>6. \A p \in Calls : CallInv(p)'
  BY <1>0, <1>1, <1>3 DEF CallInv, Logout
<1>7. SpeaksForAnOperator'
  BY <1>0, <1>3 DEF SpeaksForAnOperator
<1>8. LogoutHolds'
  BY <1>0 DEF LogoutHolds, Logout, ScopeTypeOK
<1> QED
  BY <1>4, <1>5, <1>6, <1>7, <1>8 DEF ScopeInv

(* A request is let through for a live session or token only.              *)
LEMMA AuthenticatesKeeps ==
  ASSUME NEW q \in Calls, NEW token \in tokens \cup {NoOperator},
         NEW named \in Tenants \cup {NoTenant}, ScopeInv, Authenticates(q, token, named)
  PROVE  ScopeInv'
<1> USE ScopeAssumption
<1>0. ScopeTypeOK /\ KeptInv /\ (\A p \in Calls : CallInv(p)) /\ SpeaksForAnOperator /\ LogoutHolds
  BY DEF ScopeInv
<1> DEFINE who == Speaker(q, token)
<1>1. who # NoOperator /\ Granted(who) /\ who \in Operators /\ hour < who.until
  BY <1>0 DEF Authenticates, Speaker, Live, KeptInv, Granted, ScopeTypeOK, CallTypes
<1>2. \A o : Granted(o) => Granted(o)'
  BY <1>0 DEF Granted, Authenticates
<1>3. \A p \in Calls : p # q => call'[p] = call[p]
  BY <1>0 DEF Authenticates, ScopeTypeOK
<1>4. /\ call'[q].at = "allowed" /\ call'[q].who = who /\ call'[q].since = hour
      /\ call'[q].stored = call[q].stored /\ call'[q].browser = call[q].browser
      /\ call'[q] \in CallTypes /\ call[q].stored # "loaded"
  BY <1>0, <1>1 DEF Authenticates, ScopeTypeOK, CallTypes, Points, CallInv
<1> HIDE DEF who
<1>5. ScopeTypeOK'
  BY <1>0, <1>3, <1>4 DEF ScopeTypeOK, Authenticates
<1>6. KeptInv'
  BY <1>0, <1>2 DEF KeptInv, Authenticates
<1>7. ASSUME NEW p \in Calls PROVE CallInv(p)'
  <2>1. CASE p = q BY <1>0, <1>1, <1>4, <2>1 DEF CallInv
  <2>2. CASE p # q
    <3>1. left' = left /\ CallInv(p) BY <1>0 DEF Authenticates
    <3> QED BY <1>2, <1>3, <2>2, <3>1 DEF CallInv
  <2> QED BY <2>1, <2>2
<1>8. SpeaksForAnOperator'
  BY <1>0, <1>1, <1>3, <1>4 DEF SpeaksForAnOperator, Granted
<1>9. LogoutHolds'
  BY <1>0 DEF LogoutHolds, Authenticates
<1> QED
  BY <1>5, <1>6, <1>7, <1>8, <1>9 DEF ScopeInv

(* Reading the status closes the request.                                  *)
LEMMA StatusKeeps ==
  ASSUME NEW q \in Calls, ScopeInv, StatusAnswers(q)
  PROVE  ScopeInv'
<1> USE ScopeAssumption
<1>0. ScopeTypeOK /\ KeptInv /\ (\A p \in Calls : CallInv(p)) /\ SpeaksForAnOperator /\ LogoutHolds
  BY DEF ScopeInv
<1>1. UNCHANGED <<hour, session, tokens, left>>
  BY DEF StatusAnswers
<1>2. \A o : Granted(o) => Granted(o)'
  BY <1>1 DEF Granted
<1>3. \A p \in Calls : p # q => call'[p] = call[p]
  BY <1>0 DEF StatusAnswers, ScopeTypeOK
<1>4. call'[q] \in CallTypes /\ call'[q].at = "closed" /\ call'[q].stored = "none"
  BY <1>0 DEF StatusAnswers, ScopeTypeOK, CallTypes, Points, Request
<1>5. ScopeTypeOK'
  BY <1>0, <1>1, <1>3, <1>4 DEF StatusAnswers, ScopeTypeOK
<1>6. KeptInv'
  BY <1>0, <1>1, <1>2 DEF KeptInv
<1>7. ASSUME NEW p \in Calls PROVE CallInv(p)'
  <2>1. CASE p = q BY <1>4, <2>1 DEF CallInv
  <2>2. CASE p # q BY <1>0, <1>1, <1>2, <1>3, <2>2 DEF CallInv
  <2> QED BY <2>1, <2>2
<1>8. SpeaksForAnOperator'
  BY <1>0, <1>3, <1>4 DEF SpeaksForAnOperator
<1>9. LogoutHolds'
  BY <1>0, <1>1 DEF LogoutHolds
<1> QED
  BY <1>5, <1>6, <1>7, <1>8, <1>9 DEF ScopeInv

(* Every step of the logins and of the requests keeps ScopeInv.            *)
LEMMA ScopeStepKeeps == ScopeInv /\ ScopeStep => ScopeInv'
<1> SUFFICES ASSUME ScopeInv, ScopeStep PROVE ScopeInv'
  OBVIOUS
<1> QED
  BY TickKeeps, LoginChecksKeeps, LoginSavesKeeps, LogoutKeeps, AuthenticatesKeeps DEF ScopeStep

(* The job's own steps leave them alone.                                   *)
LEMMA ScopeStutters == ScopeInv /\ UNCHANGED scopeVars => ScopeInv'
<1> SUFFICES ASSUME ScopeInv, UNCHANGED scopeVars PROVE ScopeInv'
  OBVIOUS
<1> USE DEF scopeVars
<1>1. \A o : Granted(o) => Granted(o)'
  BY DEF Granted
<1> QED
  BY <1>1 DEF ScopeInv, ScopeTypeOK, KeptInv, CallInv, SpeaksForAnOperator, LogoutHolds

(* ScopeInv is inductive.                                                  *)
LEMMA ScopeInduction == ScopeInv /\ [Next]_consoleVars => ScopeInv'
<1> SUFFICES ASSUME ScopeInv, [Next]_consoleVars PROVE ScopeInv'
  OBVIOUS
<1>1. CASE ScopeStep BY <1>1, ScopeStepKeeps
<1>2. CASE \E q \in Calls : StatusAnswers(q) BY <1>2, StatusKeeps
<1>3. CASE UNCHANGED scopeVars BY <1>3, ScopeStutters
<1> QED
  BY <1>1, <1>2, <1>3 DEF Next, CancelAsked, consoleVars, scopeVars

(* Sessions, tokens and requests keep their types.                         *)
THEOREM ScopeTypes == Spec => []ScopeTypeOK
<1>1. Init => ScopeInv BY ScopeInitial DEF Init
<1>2. ScopeInv => ScopeTypeOK BY DEF ScopeInv
<1> QED BY <1>1, <1>2, ScopeInduction, PTL DEF Spec

(* A request that is let through speaks for an operator with a profile,    *)
(* whose login is not older than Lifetime (authentication.py:20-46).       *)
THEOREM SpeakersAreOperators == Spec => []SpeaksForAnOperator
<1>1. Init => ScopeInv BY ScopeInitial DEF Init
<1>2. ScopeInv => SpeaksForAnOperator BY DEF ScopeInv
<1> QED BY <1>1, <1>2, ScopeInduction, PTL DEF Spec

(* No login under way brings back what a logout has ended, however many    *)
(* share the browser (core/views.py:61-79).                                *)
THEOREM LogoutsHold == Spec => []LogoutHolds
<1>1. Init => ScopeInv BY ScopeInitial DEF Init
<1>2. ScopeInv => LogoutHolds BY DEF ScopeInv
<1> QED BY <1>1, <1>2, ScopeInduction, PTL DEF Spec

-----------------------------------------------------------------------------
(* What the row says of its end.                                           *)

(* A delivery that has come to its outcome has a result, and one that      *)
(* failed has logged why.                                                  *)
RunOK(d) ==
  /\ d \in RunType
  /\ d.at \in {"poll", "save"} => d.then \in {"credits", "payments", "commit"}
  /\ d.at = "check3" => d.cancelled \/ d.result # "none"
  /\ d.at = "final" => d.result # "none"
  /\ d.result = "failed" => d.log # <<>>

ReportInv == ReportTypeOK /\ (\A r \in Runs : RunOK(run[r])) /\ EndsAgree

(* Progress is a percentage.                                               *)
LEMMA ProgressInRange ==
  ASSUME NEW rows \in Nat, NEW credits \in Nat \ {0}, rows # 0
  PROVE  CreditProgress(rows) \in 0..100 /\ PaymentProgress(rows, credits) \in 0..100
<1>1. (35 * rows) \div (rows + HalfWay) \in Nat
  BY ReportAssumption
<1>2. (50 * rows) \div (rows + credits) \in Nat
  OBVIOUS
<1> QED BY <1>1, <1>2 DEF CreditProgress, PaymentProgress

(* What is stored of a log is a log of at most MaxStored entries, empty    *)
(* only if the log is.                                                     *)
LEMMA StoredIsLog ==
  ASSUME NEW log \in Log
  PROVE  Stored(log) \in Log /\ Len(Stored(log)) <= MaxStored /\ (log # <<>> => Stored(log) # <<>>)
<1> USE ReportAssumption
<1>0. Len(log) \in Nat /\ log \in Seq([row : Nat, message : Messages]) BY DEF Log
<1>1. CASE Len(log) <= MaxStored BY <1>1 DEF Stored
<1>2. CASE ~(Len(log) <= MaxStored)
  <2> DEFINE from == Len(log) - MaxStored + 1
  <2>1. from \in 1..Len(log) /\ Stored(log) = SubSeq(log, from, Len(log))
    BY <1>0, <1>2 DEF Stored
  <2>2. ASSUME NEW i \in from..Len(log) PROVE log[i] \in [row : Nat, message : Messages]
    <3>1. i \in 1..Len(log) BY <1>0, <2>1
    <3> QED BY <1>0, <3>1, ElementOfSeq
  <2>3. /\ SubSeq(log, from, Len(log)) \in Seq([row : Nat, message : Messages])
        /\ Len(SubSeq(log, from, Len(log))) = IF from <= Len(log) THEN Len(log) - from + 1 ELSE 0
    <3> HIDE DEF from
    <3> QED BY <1>0, <2>1, <2>2, SubSeqProperties
  <2>4. Len(SubSeq(log, from, Len(log))) = MaxStored
    BY <1>0, <2>1, <2>3
  <2>5. SubSeq(log, from, Len(log)) # <<>>
    <3> HIDE DEF from
    <3> QED BY <2>3, <2>4, EmptySeq
  <2> QED BY <2>1, <2>3, <2>4, <2>5 DEF Log
<1> QED BY <1>1, <1>2

(* The critical failures are messages.                                     *)
LEMMA CriticalIsMessages ==
  ASSUME NEW log \in Log
  PROVE  Critical(log) \in Seq(Messages)
<1> DEFINE n == IF Len(Stored(log)) < MaxCritical THEN Len(Stored(log)) ELSE MaxCritical
<1>1. Stored(log) \in Log BY StoredIsLog
<1>2. n \in Nat /\ \A i \in 1..n : Stored(log)[i].message \in Messages
  <2> DEFINE stored == Stored(log)
  <2>1. stored \in Seq([row : Nat, message : Messages]) BY <1>1 DEF Log
  <2> HIDE DEF stored
  <2>2. Len(stored) \in Nat /\ \A i \in 1..Len(stored) : stored[i] \in [row : Nat, message : Messages]
    BY <2>1, LenProperties, ElementOfSeq
  <2>3. n = IF Len(stored) < MaxCritical THEN Len(stored) ELSE MaxCritical
    BY DEF stored
  <2> HIDE DEF n
  <2>4. n \in Nat /\ n <= Len(stored) BY <2>2, <2>3, ReportAssumption
  <2>5. \A i \in 1..n : stored[i].message \in Messages BY <2>2, <2>4
  <2> QED BY <2>4, <2>5 DEF stored
<1>3. Critical(log) = [i \in 1..n |-> Stored(log)[i].message] BY DEF Critical
<1> HIDE DEF n
<1> QED BY <1>2, <1>3

(* A delivery that changes leaves the others alone.                        *)
LEMMA RunsKeep ==
  ASSUME ReportInv, NEW r \in Runs, NEW d, RunOK(d), run' = [run EXCEPT ![r] = d]
  PROVE  run' \in [Runs -> RunType] /\ \A p \in Runs : RunOK(run'[p])
<1>1. run \in [Runs -> RunType] /\ \A p \in Runs : RunOK(run[p])
  BY DEF ReportInv, ReportTypeOK
<1>2. d \in RunType BY DEF RunOK
<1>3. \A p \in Runs : run'[p] = IF p = r THEN d ELSE run[p] BY <1>1
<1> QED BY <1>1, <1>2, <1>3

(* A step that saves nothing keeps ReportInv if the deliveries stay sound. *)
LEMMA QuietKeeps ==
  ASSUME ReportInv, Quietly, run' \in [Runs -> RunType], \A p \in Runs : RunOK(run'[p])
  PROVE  ReportInv'
  BY DEF ReportInv, ReportTypeOK, EndsAgree, Quietly

(* Going on to a point of which RunOK says nothing.                        *)
LEMMA RunGoes ==
  ASSUME ReportInv, NEW r \in Runs, NEW from \in RunPoints,
         NEW to \in RunPoints \ {"poll", "save", "check3", "final"}, Go(r, from, to)
  PROVE  run' \in [Runs -> RunType] /\ \A p \in Runs : RunOK(run'[p])
<1>1. RunOK(run[r]) /\ run[r] \in RunType BY DEF ReportInv, ReportTypeOK
<1> DEFINE d == [run[r] EXCEPT !.at = to]
<1>2. run' = [run EXCEPT ![r] = d] BY DEF Go
<1>3. RunOK(d)
  <2>1. /\ d \in RunType /\ d.at = to /\ d.result = run[r].result /\ d.log = run[r].log
    BY <1>1 DEF RunType
  <2> HIDE DEF d
  <2> QED BY <1>1, <2>1 DEF RunOK
<1> HIDE DEF d
<1> QED BY <1>2, <1>3, RunsKeep

(* The checks before the pipeline and in the except block.                 *)
LEMMA ChecksKeep ==
  ASSUME ReportInv, NEW r \in Runs, Load(r) \/ Check2(r) \/ Check4(r)
  PROVE  ReportInv'
<1>1. \E from \in RunPoints, to \in RunPoints \ {"poll", "save", "check3", "final"} :
        Go(r, from, to) /\ Quietly
  <2>1. CASE Load(r)
    <3>1. CASE SeesCancel BY <2>1, <3>1 DEF Load, RunPoints
    <3>2. CASE ~SeesCancel BY <2>1, <3>2 DEF Load, RunPoints
    <3> QED BY <3>1, <3>2
  <2>2. CASE Check2(r)
    <3>1. CASE flag BY <2>2, <3>1 DEF Check2, RunPoints
    <3>2. CASE ~flag BY <2>2, <3>2 DEF Check2, RunPoints
    <3> QED BY <3>1, <3>2
  <2>3. CASE Check4(r)
    <3>1. CASE SeesCancel BY <2>3, <3>1 DEF Check4, RunPoints
    <3>2. CASE ~SeesCancel BY <2>3, <3>2 DEF Check4, RunPoints
    <3> QED BY <3>1, <3>2
  <2> QED BY <2>1, <2>2, <2>3
<1> QED BY <1>1, RunGoes, QuietKeeps

(* A delivery that begins has nothing yet.                                 *)
LEMMA DeliverKeeps ==
  ASSUME ReportInv, NEW r \in Runs, Deliver(r)
  PROVE  ReportInv'
<1>1. run \in [Runs -> RunType] /\ \A p \in Runs : RunOK(run[p])
  BY DEF ReportInv, ReportTypeOK
<1>2. \A at \in {"load", "over"} : RunOK(Fresh(at)) /\ Fresh(at) \in RunType
  <2>1. <<>> \in Log BY DEF Log
  <2> SUFFICES ASSUME NEW at \in {"load", "over"} PROVE RunOK(Fresh(at)) /\ Fresh(at) \in RunType
    OBVIOUS
  <2>2. Fresh(at) \in RunType BY <2>1 DEF Fresh, RunType, RunPoints, Results
  <2> QED BY <2>2 DEF RunOK, Fresh
<1>3. \A p \in Runs : run'[p] = Fresh("load") \/ run'[p] = Fresh("over") \/ run'[p] = run[p]
  BY DEF Deliver
<1>4. run' \in [Runs -> RunType]
  <2>1. \A p \in Runs : run'[p] \in RunType BY <1>1, <1>2, <1>3
  <2> QED BY <2>1 DEF Deliver
<1>5. \A p \in Runs : RunOK(run'[p]) BY <1>1, <1>2, <1>3
<1> QED BY <1>4, <1>5, QuietKeeps DEF Deliver

(* A log stays a log when an entry is appended, and is not empty then.     *)
LEMMA LogGrows ==
  ASSUME NEW log \in Log, NEW n \in Nat, NEW message \in Messages
  PROVE  Append(log, Entry(n, message)) \in Log /\ Append(log, Entry(n, message)) # <<>>
<1> DEFINE e == Entry(n, message)
<1>1. e \in [row : Nat, message : Messages] /\ log \in Seq([row : Nat, message : Messages])
  BY DEF Entry, Log
<1> HIDE DEF e
<1>2. Append(log, e) \in Seq([row : Nat, message : Messages]) /\ Append(log, e) # <<>>
  <2> DEFINE S == [row : Nat, message : Messages]
  <2>1. e \in S /\ log \in Seq(S) BY <1>1
  <2> HIDE DEF S
  <2>2. Append(log, e) \in Seq(S) /\ Append(log, e) # <<>> BY <2>1, AppendProperties
  <2> QED BY <2>2 DEF S
<1> QED BY <1>2 DEF Log, e

(* Nor does it cease to be one when the entries of a row are.              *)
LEMMA LogExtends ==
  ASSUME NEW log \in Log, NEW n \in Nat, NEW message \in Messages, NEW bad \in Nat,
         NEW more, more = [i \in 1..bad |-> Entry(n, message)]
  PROVE  log \o more \in Log /\ (log # <<>> => log \o more # <<>>)
<1> DEFINE S == [row : Nat, message : Messages]
<1>1. log \in Seq(S) BY DEF Log
<1>2. more \in Seq(S)
  <2>1. Entry(n, message) \in S BY DEF Entry
  <2> HIDE DEF S
  <2> QED BY <2>1, IsASeq
<1> HIDE DEF S
<1>3. log \o more \in Seq(S) /\ Len(log \o more) = Len(log) + Len(more)
  BY <1>1, <1>2, ConcatProperties
<1>4. Len(log) \in Nat /\ Len(more) \in Nat /\ (log # <<>> => Len(log) # 0)
  BY <1>1, <1>2, LenProperties, EmptySeq
<1>5. log # <<>> => log \o more # <<>>
  BY <1>3, <1>4, EmptySeq
<1> QED BY <1>3, <1>5 DEF Log, S

(* A row that is received leaves the delivery sound.                       *)
LEMMA ReceivedIsOK ==
  ASSUME NEW c, RunOK(c), c.at \in {"credits", "payments"}, NEW bad \in Nat,
         NEW n \in Nat, NEW message \in Messages, NEW due \in 0..100
  PROVE  /\ RunOK([Received(c, n, bad, message, due) EXCEPT !.credits = n])
         /\ RunOK([Received(c, n, bad, message, due) EXCEPT !.payments = n])
<1> DEFINE more == [i \in 1..bad |-> Entry(n, message)]
           log == c.log \o more
           at == IF n % PollEvery = 0 THEN "poll" ELSE c.at
<1>1. c \in RunType BY DEF RunOK
<1>2. log \in Log /\ (c.log # <<>> => log # <<>>)
  <2>1. c.log \in Log BY <1>1 DEF RunType
  <2>2. PICK entries : entries = more OBVIOUS
  <2>3. c.log \o entries \in Log /\ (c.log # <<>> => c.log \o entries # <<>>)
    BY <2>1, <2>2, LogExtends
  <2> QED BY <2>2, <2>3
<1>3. at \in {"poll", "credits", "payments"}
  OBVIOUS
<1>4. Received(c, n, bad, message, due) =
        [c EXCEPT !.log = log, !.at = at, !.then = c.at, !.due = due]
  BY <1>1 DEF Received, RunType
<1> HIDE DEF more, log, at
<1> DEFINE d == Received(c, n, bad, message, due)
<1>5. /\ d \in RunType /\ d.at = at /\ d.then = c.at /\ d.log = log /\ d.result = c.result
  <2>1. c.at \in RunPoints /\ at \in RunPoints BY <1>1, <1>3 DEF RunType, RunPoints
  <2>2. due \in 0..100
    OBVIOUS
  <2> QED BY ONLY <1>1, <1>2, <1>4, <2>1, <2>2 DEF RunType, d
<1> HIDE DEF d
<1>6. ASSUME NEW e \in {[d EXCEPT !.credits = n], [d EXCEPT !.payments = n]}
      PROVE  e \in RunType /\ e.at = d.at /\ e.then = d.then /\ e.log = d.log /\ e.result = d.result
  BY <1>5 DEF RunType
<1>7. ASSUME NEW e, e \in RunType, e.at = d.at, e.then = d.then, e.log = d.log, e.result = d.result
      PROVE  RunOK(e)
  BY <1>2, <1>3, <1>5, <1>7 DEF RunOK
<1> QED BY <1>6, <1>7 DEF d

(* Rows of the two exports.                                                *)
LEMMA RowsKeep ==
  ASSUME ReportInv, NEW r \in Runs, CreditRow(r) \/ PaymentRow(r)
  PROVE  ReportInv'
<1>1. RunOK(run[r]) /\ run[r] \in RunType BY DEF ReportInv, ReportTypeOK
<1>2. run[r].credits \in Nat /\ run[r].payments \in Nat /\ run[r].counted \in Nat \ {0}
  BY <1>1 DEF RunType
<1>3. CASE CreditRow(r)
  <2> DEFINE n == run[r].credits + 1
  <2>1. n \in Nat /\ n # 0 /\ CreditProgress(n) \in 0..100
    <3>1. n \in Nat /\ n # 0 /\ run[r].counted \in Nat \ {0} BY <1>2
    <3> HIDE DEF n
    <3> QED BY <3>1, ProgressInRange
  <2> DEFINE d(bad) ==
        [Received(run[r], n, bad, "credit row", CreditProgress(n)) EXCEPT !.credits = n]
  <2>2. \A bad \in Nat : RunOK(d(bad))
    <3> HIDE DEF n
    <3> QED BY <1>1, <1>3, <2>1, ReceivedIsOK DEF CreditRow, Messages
  <2>3. PICK bad \in RowErrors : run' = [run EXCEPT ![r] = d(bad)] /\ Quietly
    BY <1>3 DEF CreditRow
  <2>4. RunOK(d(bad))
    <3>1. bad \in Nat BY ReportAssumption
    <3> HIDE DEF d
    <3> QED BY <2>2, <3>1
  <2> HIDE DEF d
  <2> QED BY <2>3, <2>4, RunsKeep, QuietKeeps
<1>4. CASE PaymentRow(r)
  <2> DEFINE n == run[r].payments + 1
             due == PaymentProgress(n, run[r].counted)
  <2>1. n \in Nat /\ n # 0 /\ due \in 0..100
    <3>1. n \in Nat /\ n # 0 /\ run[r].counted \in Nat \ {0} BY <1>2
    <3> HIDE DEF n
    <3> QED BY <3>1, ProgressInRange
  <2> DEFINE d(bad) == [Received(run[r], n, bad, "payment row", due) EXCEPT !.payments = n]
  <2>2. \A bad \in Nat : RunOK(d(bad))
    <3> HIDE DEF n, due
    <3> QED BY <1>1, <1>4, <2>1, ReceivedIsOK DEF PaymentRow, Messages
  <2>3. PICK bad \in RowErrors : run' = [run EXCEPT ![r] = d(bad)] /\ Quietly
    BY <1>4 DEF PaymentRow
  <2>4. RunOK(d(bad))
    <3>1. bad \in Nat BY ReportAssumption
    <3> HIDE DEF d
    <3> QED BY <2>2, <3>1
  <2> HIDE DEF d
  <2> QED BY <2>3, <2>4, RunsKeep, QuietKeeps
<1> QED BY <1>3, <1>4

(* The ends of the exports, and their failures.                            *)
LEMMA ExportsKeep ==
  ASSUME ReportInv, NEW r \in Runs, CreditsEnd(r) \/ PaymentsEnd(r) \/ StreamRaises(r)
  PROVE  ReportInv'
<1> DEFINE c == run[r]
<1>1. RunOK(c) /\ c \in RunType BY DEF ReportInv, ReportTypeOK
<1>2. c.credits \in Nat BY <1>1 DEF RunType
<1>3. CASE CreditsEnd(r)
  <2>1. PICK counted \in Nat \ {0} :
          /\ run' = [run EXCEPT ![r] = [c EXCEPT !.at = "poll", !.then = "payments", !.due = 40,
                                                !.counted = counted]]
          /\ Quietly
    <3>1. 1..(IF c.credits = 0 THEN 1 ELSE c.credits) \subseteq Nat \ {0} BY <1>2
    <3> QED BY <1>3, <3>1 DEF CreditsEnd
  <2> DEFINE d == [c EXCEPT !.at = "poll", !.then = "payments", !.due = 40, !.counted = counted]
  <2> HIDE DEF c
  <2>2. /\ d \in RunType /\ d.at = "poll" /\ d.then = "payments" /\ d.log = c.log
        /\ d.result = c.result
    <3>1. c \in RunType /\ {"poll", "payments", "commit"} \subseteq RunPoints
      BY <1>1 DEF RunPoints
    <3>2. 40 \in 0..100 /\ 95 \in 0..100
      OBVIOUS
    <3> QED BY ONLY <3>1, <3>2 DEF RunType
  <2> HIDE DEF d
  <2>3. RunOK(d) BY <1>1, <2>2 DEF RunOK
  <2>4. run' = [run EXCEPT ![r] = d] BY <2>1 DEF d
  <2> QED BY <2>1, <2>3, <2>4, RunsKeep, QuietKeeps
<1>4. CASE PaymentsEnd(r)
  <2> DEFINE d == [c EXCEPT !.at = "poll", !.then = "commit", !.due = 95]
  <2>1. run' = [run EXCEPT ![r] = d] /\ Quietly
    BY <1>4 DEF PaymentsEnd
  <2> HIDE DEF c
  <2>2. /\ d \in RunType /\ d.at = "poll" /\ d.then = "commit" /\ d.log = c.log
        /\ d.result = c.result
    <3>1. c \in RunType /\ {"poll", "payments", "commit"} \subseteq RunPoints
      BY <1>1 DEF RunPoints
    <3>2. 40 \in 0..100 /\ 95 \in 0..100
      OBVIOUS
    <3> QED BY ONLY <3>1, <3>2 DEF RunType
  <2> HIDE DEF d
  <2>3. RunOK(d) BY <1>1, <2>2 DEF RunOK
  <2> QED BY <2>1, <2>3, RunsKeep, QuietKeeps
<1>5. CASE StreamRaises(r)
  <2>1. PICK why \in {"404 of an export", "database"} :
          run' = [run EXCEPT ![r] = [c EXCEPT !.at = "except", !.why = why]] /\ Quietly
    BY <1>5 DEF StreamRaises
  <2> DEFINE d == [c EXCEPT !.at = "except", !.why = why]
  <2> HIDE DEF c
  <2>2. /\ d \in RunType /\ d.at = "except" /\ d.log = c.log /\ d.result = c.result
    <3>1. c \in RunType /\ why \in Results BY <1>1, <2>1 DEF Results, Messages
    <3> QED BY ONLY <3>1 DEF RunType, RunPoints
  <2> HIDE DEF d
  <2>3. RunOK(d) BY <1>1, <2>2 DEF RunOK
  <2>4. run' = [run EXCEPT ![r] = d] BY <2>1 DEF d
  <2> QED BY <2>1, <2>3, <2>4, RunsKeep, QuietKeeps
<1> QED BY <1>3, <1>4, <1>5

(* The look at the flag, the commit and the look after it.                 *)
LEMMA VerdictsKeep ==
  ASSUME ReportInv, NEW r \in Runs, Poll(r) \/ Commit(r) \/ Check3(r)
  PROVE  ReportInv'
<1> DEFINE c == run[r]
<1>1. RunOK(c) /\ c \in RunType /\ flag \in BOOLEAN BY DEF ReportInv, ReportTypeOK
<1>2. CASE Poll(r)
  <2> DEFINE at == IF flag THEN "check3" ELSE "save"
             d == [c EXCEPT !.at = at, !.cancelled = flag]
  <2>1. run' = [run EXCEPT ![r] = d] /\ Quietly /\ c.at = "poll"
    BY <1>2 DEF Poll
  <2>2. at \in {"check3", "save"} /\ (at = "check3" => flag)
    OBVIOUS
  <2> HIDE DEF c, at
  <2>3. /\ d \in RunType /\ d.at = at /\ d.then = c.then /\ d.cancelled = flag
        /\ d.log = c.log /\ d.result = c.result
    BY <1>1, <2>2 DEF RunType, RunPoints
  <2> HIDE DEF d
  <2>4. RunOK(d) BY <1>1, <2>1, <2>2, <2>3 DEF RunOK
  <2> QED BY <2>1, <2>4, RunsKeep, QuietKeeps
<1>3. CASE Commit(r)
  <2>1. PICK ok \in BOOLEAN :
          /\ run' = [run EXCEPT ![r] = [c EXCEPT !.at = "check3",
                  !.result = IF ok THEN "ok" ELSE "failed",
                  !.log = IF ok THEN @ ELSE Append(@, Entry(0, "database"))]]
          /\ Quietly
    BY <1>3 DEF Commit
  <2> DEFINE result == IF ok THEN "ok" ELSE "failed"
             log == IF ok THEN c.log ELSE Append(c.log, Entry(0, "database"))
             d == [c EXCEPT !.at = "check3", !.result = result, !.log = log]
  <2>2. run' = [run EXCEPT ![r] = d] BY <1>1, <2>1 DEF RunType
  <2>3. result \in {"ok", "failed"} /\ log \in Log /\ (result = "failed" => log # <<>>)
    <3>1. c.log \in Log BY <1>1 DEF RunType
    <3> QED BY <3>1, LogGrows DEF Messages
  <2> HIDE DEF c, result, log
  <2>4. /\ d \in RunType /\ d.at = "check3" /\ d.log = log /\ d.result = result
    BY <1>1, <2>3 DEF RunType, RunPoints
  <2> HIDE DEF d
  <2>5. RunOK(d) BY <2>3, <2>4 DEF RunOK
  <2> QED BY <2>1, <2>2, <2>5, RunsKeep, QuietKeeps
<1>4. CASE Check3(r)
  <2>1. CASE SeesCancel \/ c.cancelled
    <3>1. Go(r, "check3", "clear") /\ Quietly BY <1>4, <2>1 DEF Check3
    <3>2. "check3" \in RunPoints /\ "clear" \in RunPoints \ {"poll", "save", "check3", "final"}
      BY DEF RunPoints
    <3> QED BY <3>1, <3>2, RunGoes, QuietKeeps
  <2>2. CASE ~(SeesCancel \/ c.cancelled)
    <3> DEFINE d == [c EXCEPT !.at = "final"]
    <3>1. run' = [run EXCEPT ![r] = d] /\ Quietly /\ c.at = "check3" BY <1>4, <2>2 DEF Check3, Go
    <3> HIDE DEF c
    <3>2. /\ d \in RunType /\ d.at = "final" /\ d.log = c.log /\ d.result = c.result
      BY <1>1 DEF RunType, RunPoints
    <3> HIDE DEF d
    <3>3. RunOK(d) BY <1>1, <2>2, <3>1, <3>2 DEF RunOK
    <3> QED BY <3>1, <3>3, RunsKeep, QuietKeeps
  <2> QED BY <2>1, <2>2
<1> QED BY <1>2, <1>3, <1>4

(* PROCESSING is saved, also over a row that has ended.                    *)
LEMMA StartKeeps ==
  ASSUME ReportInv, NEW r \in Runs, Start(r)
  PROVE  ReportInv'
<1>1. run' \in [Runs -> RunType] /\ \A p \in Runs : RunOK(run'[p])
  <2>1. "start" \in RunPoints /\ "check2" \in RunPoints \ {"poll", "save", "check3", "final"}
    BY DEF RunPoints
  <2> QED BY <2>1, RunGoes DEF Start
<1>2. /\ row' \in RowType /\ row'.status = "PROCESSING" /\ row'.completed = row.completed
      /\ row'.errors = row.errors
  <2>1. row \in RowType /\ 5 \in 0..100 BY DEF ReportInv, ReportTypeOK
  <2>2. row' = [row EXCEPT !.status = "PROCESSING", !.progress = 5] BY DEF Start
  <2> QED BY ONLY <2>1, <2>2 DEF RowType, Active
<1>3. row.status \in Active \cup Terminal BY DEF ReportInv, ReportTypeOK, RowType
<1> QED BY <1>1, <1>2, <1>3 DEF ReportInv, ReportTypeOK, EndsAgree, Start, Active, Terminal

(* A progress save touches neither status nor result nor summary.          *)
LEMMA SaveProgressKeeps ==
  ASSUME ReportInv, NEW r \in Runs, SaveProgress(r)
  PROVE  ReportInv'
<1>1. run[r] \in RunType /\ RunOK(run[r]) /\ row \in RowType BY DEF ReportInv, ReportTypeOK
<1>2. run' \in [Runs -> RunType] /\ \A p \in Runs : RunOK(run'[p])
  <2>1. /\ "save" \in RunPoints
        /\ run[r].then \in RunPoints \ {"poll", "save", "check3", "final"}
    BY <1>1 DEF RunOK, RunPoints, SaveProgress, Go
  <2> QED BY <2>1, RunGoes DEF SaveProgress
<1> DEFINE due == run[r].due
           rows == Rows(r)
           errors == Stored(run[r].log)
<1>3. due \in 0..100 /\ rows \in Nat /\ errors \in Log /\ Len(errors) <= MaxStored
  <2>1. due \in 0..100 /\ run[r].log \in Log /\ run[r].credits \in Nat /\ run[r].payments \in Nat
    BY <1>1 DEF RunType
  <2> QED BY <2>1, StoredIsLog DEF Rows
<1>4. row' = [row EXCEPT !.progress = due, !.processed = rows, !.errors = errors]
  BY DEF SaveProgress
<1> HIDE DEF due, rows, errors
<1>5. /\ row' \in RowType /\ row'.errors = errors /\ row'.status = row.status
      /\ row'.completed = row.completed /\ row'.result = row.result
      /\ row'.valid = row.valid /\ row'.count = row.count
  BY ONLY <1>1, <1>3, <1>4 DEF RowType
<1>6. late' \in Nat
  BY DEF SaveProgress, ReportInv, ReportTypeOK
<1> QED BY <1>2, <1>3, <1>5, <1>6 DEF ReportInv, ReportTypeOK, EndsAgree, SaveProgress

(* The outcome: completed without errors is valid, failed has at least one.*)
LEMMA FinalKeeps ==
  ASSUME ReportInv, NEW r \in Runs, Final(r)
  PROVE  ReportInv'
<1> DEFINE c == run[r]
           log == c.log
           ok == c.result = "ok"
<1>1. c \in RunType /\ RunOK(c) /\ c.at = "final" BY DEF ReportInv, ReportTypeOK, Final
<1>2. log \in Log /\ (~ok => log # <<>>) /\ Rows(r) \in Nat
  BY <1>1 DEF RunType, RunOK, Rows
<1>3. Stored(log) \in Log /\ Len(Stored(log)) <= MaxStored /\ (log # <<>> => Stored(log) # <<>>)
      /\ Critical(log) \in Seq(Messages)
  BY <1>2, StoredIsLog, CriticalIsMessages
<1>4. Len(log) \in Nat /\ (Len(log) = 0 <=> log = <<>>)
  BY <1>2, EmptySeq, LenProperties DEF Log
<1>5. run' \in [Runs -> RunType] /\ \A p \in Runs : RunOK(run'[p])
  <2> DEFINE at == IF ok THEN "clear" ELSE "except"
             why == IF ok THEN c.why ELSE Stored(log)[1].message
             d == [c EXCEPT !.at = at, !.why = why]
  <2>1. run' = [run EXCEPT ![r] = d] BY <1>1 DEF Final, RunType
  <2>2. at \in {"clear", "except"} /\ why \in Results
    <3>1. CASE ok BY <1>1, <3>1 DEF RunType
    <3>2. CASE ~ok
      <4> DEFINE stored == Stored(log)
      <4>1. stored \in Seq([row : Nat, message : Messages]) /\ stored # <<>>
        BY <1>2, <1>3, <3>2 DEF Log
      <4> HIDE DEF stored
      <4>2. 1 \in 1..Len(stored) BY <4>1, EmptySeq
      <4>3. stored[1] \in [row : Nat, message : Messages] BY <4>1, <4>2, ElementOfSeq
      <4> QED BY <3>2, <4>3 DEF stored, Results
    <3> QED BY <3>1, <3>2
  <2> HIDE DEF c, at, why
  <2>3. d \in RunType /\ d.at = at /\ d.log = c.log /\ d.result = c.result
    <3>1. c \in RunType BY <1>1
    <3> QED BY ONLY <3>1, <2>2 DEF RunType, RunPoints
  <2> HIDE DEF d
  <2>4. RunOK(d) BY <1>1, <2>2, <2>3 DEF RunOK
  <2> QED BY <2>1, <2>4, RunsKeep
<1>6. /\ row'.status = (IF ok THEN "COMPLETED" ELSE "FAILED") /\ row'.completed = TRUE
      /\ row'.progress = 100 /\ row'.processed = Rows(r) /\ row'.errors = Stored(log)
      /\ row'.valid = (ok /\ log = <<>>) /\ row'.count = Len(log)
      /\ row'.critical = Critical(log) /\ row'.result = "ingested"
      /\ row' \in RowType /\ UNCHANGED <<flag, cancel, late, reopened, died>>
  <2> DEFINE status == IF ok THEN "COMPLETED" ELSE "FAILED"
             valid == ok /\ log = <<>>
             rows == Rows(r)
             errors == Stored(log)
             count == Len(log)
             critical == Critical(log)
  <2>1. row' = [status |-> status, completed |-> TRUE, progress |-> 100, processed |-> rows,
                errors |-> errors, valid |-> valid, count |-> count, critical |-> critical,
                result |-> "ingested"]
        /\ UNCHANGED <<flag, cancel, late, reopened, died>>
    BY DEF Final, SavesOutcome
  <2>2. /\ status \in Active \cup Terminal /\ valid \in BOOLEAN /\ rows \in Nat /\ errors \in Log
        /\ count \in Nat /\ critical \in Seq(Messages) /\ 100 \in 0..100 /\ "ingested" \in Results
    BY <1>2, <1>3, <1>4 DEF Terminal, Results
  <2> HIDE DEF status, valid, rows, errors, count, critical
  <2>3. /\ row' \in RowType /\ row'.status = status /\ row'.completed = TRUE
        /\ row'.progress = 100 /\ row'.processed = rows /\ row'.errors = errors
        /\ row'.valid = valid /\ row'.count = count /\ row'.critical = critical
        /\ row'.result = "ingested"
    BY ONLY <2>1, <2>2 DEF RowType
  <2> QED BY <2>1, <2>3 DEF status, valid, rows, errors, count, critical
<1> HIDE DEF c, log, ok
<1>7. ReportTypeOK'
  BY <1>3, <1>5, <1>6 DEF ReportInv, ReportTypeOK
<1>8. EndsAgree'
  <2>1. CASE ok BY <1>4, <1>6, <2>1 DEF EndsAgree, Active
  <2>2. CASE ~ok
    <3>1. row'.status = "FAILED" /\ row'.completed /\ row'.result = "ingested" BY <1>6, <2>2
    <3>2. row'.count \in Nat /\ row'.count # 0 BY <1>2, <1>4, <1>6, <2>2
    <3>3. row'.valid = FALSE BY <1>6, <2>2
    <3> QED BY <3>1, <3>2, <3>3 DEF EndsAgree, Active
  <2> QED BY <2>1, <2>2
<1> QED BY <1>5, <1>7, <1>8 DEF ReportInv

(* An end without an outcome: one entry, and a summary that agrees.        *)
LEMMA EndedIsRow ==
  ASSUME ReportInv, NEW status \in {"FAILED", "CANCELLED"}, NEW message \in Messages,
         NEW result \in Results, row' = Ended(status, message, result),
         status = "CANCELLED" => result = "cancelled", UNCHANGED reopened
  PROVE  /\ row' \in RowType /\ Len(row'.errors) <= MaxStored /\ row'.status = status
         /\ EndsAgree'
<1> DEFINE errors == <<Entry(0, message)>>
           critical == <<message>>
<1>1. errors \in Log /\ critical \in Seq(Messages) /\ Len(errors) = 1
  BY DEF Log, Entry
<1>2. row \in RowType /\ status \in Active \cup Terminal
  BY DEF ReportInv, ReportTypeOK, Terminal
<1>3. row' = [row EXCEPT !.status = status, !.completed = TRUE, !.result = result,
              !.errors = errors, !.valid = FALSE, !.count = 1, !.critical = critical]
  BY DEF Ended
<1> HIDE DEF errors, critical
<1>4. /\ row' \in RowType /\ row'.status = status /\ row'.completed = TRUE
      /\ row'.result = result /\ row'.errors = errors /\ row'.valid = FALSE /\ row'.count = 1
  <2>1. result \in Results OBVIOUS
  <2> QED BY ONLY <1>1, <1>2, <1>3, <2>1 DEF RowType
<1>5. EndsAgree' BY <1>4 DEF EndsAgree, Active
<1>6. Len(row'.errors) = 1 BY <1>1, <1>4
<1>7. 1 <= MaxStored BY ReportAssumption
<1>8. Len(row'.errors) <= MaxStored BY <1>6, <1>7
<1> QED BY <1>4, <1>5, <1>8

(* The except block's save.                                                *)
LEMMA MarkFailedKeeps ==
  ASSUME ReportInv, NEW r \in Runs, MarkFailed(r)
  PROVE  ReportInv'
<1>1. run' \in [Runs -> RunType] /\ \A p \in Runs : RunOK(run'[p])
  <2>1. "markfailed" \in RunPoints /\ "clear" \in RunPoints \ {"poll", "save", "check3", "final"}
    BY DEF RunPoints
  <2> QED BY <2>1, RunGoes DEF MarkFailed
<1>2. run[r].why \in Results /\ "generic" \in Messages
  BY DEF ReportInv, ReportTypeOK, RunType, Messages
<1>3. row' = Ended("FAILED", "generic", run[r].why) /\ UNCHANGED <<flag, cancel, late, reopened, died>>
  BY DEF MarkFailed
<1>4. row' \in RowType /\ Len(row'.errors) <= MaxStored /\ EndsAgree'
  BY <1>2, <1>3, EndedIsRow
<1> QED BY <1>1, <1>3, <1>4 DEF ReportInv, ReportTypeOK

(* The finally block, and a death.                                         *)
LEMMA LeavingKeeps ==
  ASSUME ReportInv, NEW r \in Runs, Clear(r) \/ RunDies(r)
  PROVE  ReportInv'
<1>1. \E from \in RunPoints : Go(r, from, "over")
  <2>1. run[r].at \in RunPoints BY DEF ReportInv, ReportTypeOK, RunType
  <2> QED BY <2>1 DEF Clear, RunDies, Go, RunPoints
<1>2. run' \in [Runs -> RunType] /\ \A p \in Runs : RunOK(run'[p])
  BY <1>1, RunGoes DEF RunPoints
<1> QED BY <1>2 DEF ReportInv, ReportTypeOK, EndsAgree, Clear, RunDies

(* The steps of a cancel.                                                  *)
LEMMA CancelKeeps ==
  ASSUME ReportInv, NEW c \in Cancels, CancelReads(c) \/ CancelStep(c)
  PROVE  ReportInv'
<1>1. cancel' \in [Cancels -> [at : {"idle", "mark", "save", "done", "refused"}]]
  BY DEF ReportInv, ReportTypeOK, CancelReads, CancelStep, CancelMarks, CancelSaves, CancelAt
<1>2. CASE CancelReads(c) \/ CancelMarks(c)
  BY <1>1, <1>2 DEF ReportInv, ReportTypeOK, EndsAgree, CancelReads, CancelMarks
<1>3. CASE CancelSaves(c)
  <2>1. row' = Ended("CANCELLED", "cancelled", "cancelled") /\ UNCHANGED <<flag, run, late, reopened, died>>
    BY <1>3 DEF CancelSaves
  <2>2. row' \in RowType /\ Len(row'.errors) <= MaxStored /\ EndsAgree'
    BY <2>1, EndedIsRow DEF Messages, Results
  <2> QED BY <1>1, <2>1, <2>2 DEF ReportInv, ReportTypeOK
<1> QED BY <1>2, <1>3 DEF CancelStep

(* Steps outside the job.                                                  *)
LEMMA ReportStutters == ReportInv /\ UNCHANGED reportVars => ReportInv'
  BY DEF reportVars, ReportInv, ReportTypeOK, EndsAgree

(* A queued job without deliveries.                                        *)
LEMMA ReportInitial == ReportInit => ReportInv
<1> SUFFICES ASSUME ReportInit PROVE ReportInv
  OBVIOUS
<1>1. <<>> \in Log /\ <<>> \in Seq(Messages) /\ Len(<<>>) = 0 BY DEF Log
<1>2. Fresh("idle") \in RunType BY <1>1 DEF Fresh, RunType, RunPoints, Results
<1>3. RunOK(Fresh("idle")) BY <1>2 DEF RunOK, Fresh
<1>4. row \in RowType /\ Len(row.errors) <= MaxStored
  <2>1. row.errors = <<>> BY DEF ReportInit
  <2>2. Len(row.errors) = 0 BY <1>1, <2>1
  <2>3. 0 <= MaxStored BY ReportAssumption
  <2>4. row \in RowType
    <3> DEFINE none == <<>>
    <3>1. /\ none \in Log /\ none \in Seq(Messages) /\ 0 \in 0..100 /\ 0 \in Nat
          /\ "QUEUED" \in Active \cup Terminal /\ "" \in Results
      BY <1>1 DEF Active, Results
    <3>2. row = [status |-> "QUEUED", progress |-> 0, processed |-> 0, completed |-> FALSE,
                 result |-> "", errors |-> none, valid |-> TRUE, count |-> 0, critical |-> none]
      BY DEF ReportInit
    <3> HIDE DEF none
    <3> QED BY ONLY <3>1, <3>2 DEF RowType
  <2> QED BY <2>2, <2>3, <2>4
<1>5. run \in [Runs -> RunType] /\ \A r \in Runs : RunOK(run[r])
  BY <1>2, <1>3 DEF ReportInit
<1> QED BY <1>4, <1>5 DEF ReportInit, ReportInv, ReportTypeOK, EndsAgree, Terminal

(* ReportInv is inductive.                                                 *)
LEMMA ReportInduction == ReportInv /\ [Next]_consoleVars => ReportInv'
<1> SUFFICES ASSUME ReportInv, [Next]_consoleVars PROVE ReportInv'
  OBVIOUS
<1>1. ASSUME NEW r \in Runs, RunStep(r) PROVE ReportInv'
  BY <1>1, DeliverKeeps, ChecksKeep, RowsKeep, ExportsKeep, VerdictsKeep, StartKeeps,
     SaveProgressKeeps, FinalKeeps, MarkFailedKeeps, LeavingKeeps DEF RunStep
<1>2. ASSUME NEW c \in Cancels, CancelReads(c) \/ CancelStep(c) PROVE ReportInv'
  BY <1>2, CancelKeeps
<1>3. CASE UNCHANGED reportVars BY <1>3, ReportStutters
<1> QED BY <1>1, <1>2, <1>3 DEF Next, CancelAsked, StatusAnswers, consoleVars

(* Every variable keeps its type: progress is a percentage, no more than   *)
(* MaxStored errors are stored (tasks.py:50-53, pipeline.rs:74-83).        *)
THEOREM ConsoleTypes == Spec => []ConsoleTypeOK
<1> DEFINE Inv == ScopeInv /\ ReportInv /\ shown \subseteq Tenants
<1>1. Init => Inv BY ScopeInitial, ReportInitial DEF Init
<1>2. Inv /\ [Next]_consoleVars => Inv'
  <2> SUFFICES ASSUME Inv, [Next]_consoleVars PROVE Inv'
    OBVIOUS
  <2>1. shown' \subseteq Tenants
    <3>1. CASE \E q \in Calls : StatusAnswers(q)
      BY <3>1, ConsoleAssumption DEF StatusAnswers, OwnJob
    <3>2. CASE shown' = shown BY <3>2
    <3> QED BY <3>1, <3>2 DEF Next, CancelAsked, consoleVars
  <2> QED BY <2>1, ScopeInduction, ReportInduction
<1>3. Inv => ConsoleTypeOK BY DEF ScopeInv, ReportInv, ConsoleTypeOK
<1> QED BY <1>1, <1>2, <1>3, PTL DEF Spec

(* Status, result and summary agree at every end, whatever deliveries,     *)
(* deaths and cancels write one after another (tasks.py:134-181,           *)
(* cancel_sync.py:61-79).                                                  *)
THEOREM EndsAlwaysAgree == Spec => []EndsAgree
<1>1. Init => ReportInv BY ReportInitial DEF Init
<1>2. ReportInv => EndsAgree BY DEF ReportInv
<1> QED BY <1>1, <1>2, ReportInduction, PTL DEF Spec

-----------------------------------------------------------------------------
(* Whose job requests touch.                                               *)

(* A cancel keeps the request it was let through with; the row says        *)
(* CANCELLED, or the flag is up, because of a cancel.                      *)
CancelledBy(c) == cancel[c].at \in {"save", "done"}

TouchInv ==
  /\ \A c \in Cancels : cancel[c].at \in {"mark", "save", "done"} =>
       call[c].at = "allowed" /\ call[c].who.tenant = JobTenant
  /\ row.status = "CANCELLED" \/ flag => \E c \in Cancels : CancelledBy(c)
  /\ shown \subseteq {JobTenant}

(* The job's own steps raise no flag and save no CANCELLED.                *)
LEMMA RunTouchesNobody ==
  ASSUME ReportInv, NEW r \in Runs, RunStep(r)
  PROVE  /\ cancel' = cancel
         /\ row'.status = "CANCELLED" \/ flag' => row.status = "CANCELLED" \/ flag
<1>1. row \in RowType BY DEF ReportInv, ReportTypeOK
<1>2. CASE UNCHANGED <<row, flag, cancel>> BY <1>2
<1>3. CASE Start(r) BY <1>1, <1>3 DEF Start, RowType
<1>4. CASE SaveProgress(r) BY <1>1, <1>4 DEF SaveProgress, RowType
<1>5. CASE Final(r)
  <2>1. row'.status \in {"COMPLETED", "FAILED"} /\ UNCHANGED <<flag, cancel>>
    BY <1>5 DEF Final, SavesOutcome
  <2> QED BY <2>1
<1>6. CASE MarkFailed(r) BY <1>1, <1>6 DEF MarkFailed, Ended, RowType
<1>7. CASE Clear(r) BY <1>7 DEF Clear
<1> QED
  BY <1>2, <1>3, <1>4, <1>5, <1>6, <1>7 DEF RunStep, Quietly, Deliver, Load, Check2, CreditRow,
     PaymentRow, CreditsEnd, PaymentsEnd, Poll, StreamRaises, Commit, Check3, Check4, RunDies

(* A request that was let through is not changed by logins and logouts.    *)
LEMMA AllowedStay ==
  ASSUME ScopeInv, ScopeStep, NEW c \in Calls, call[c].at = "allowed"
  PROVE  call'[c] = call[c]
<1>1. call \in [Calls -> CallTypes] /\ call[c].stored # "loaded"
  BY DEF ScopeInv, ScopeTypeOK, CallInv
<1>2. CASE Tick BY <1>2 DEF Tick
<1>3. CASE \E q \in Calls, u \in Users, t \in Tenants : LoginChecks(q, u, t)
  BY <1>1, <1>3 DEF LoginChecks
<1>4. CASE \E q \in Calls : LoginSaves(q)
  BY <1>1, <1>4 DEF LoginSaves
<1>5. CASE \E b \in Browsers : Logout(b)
  BY <1>1, <1>5 DEF Logout
<1>6. CASE \E q \in Calls, token \in tokens \cup {NoOperator}, named \in Tenants \cup {NoTenant} :
             Authenticates(q, token, named)
  BY <1>1, <1>6 DEF Authenticates
<1> QED BY <1>2, <1>3, <1>4, <1>5, <1>6 DEF ScopeStep

(* TouchInv is inductive, with the other two.                              *)
LEMMA TouchInduction ==
  ScopeInv /\ ReportInv /\ TouchInv /\ [Next]_consoleVars => TouchInv'
<1> SUFFICES ASSUME ScopeInv, ReportInv, TouchInv, [Next]_consoleVars PROVE TouchInv'
  OBVIOUS
<1> USE ConsoleAssumption
<1>0. /\ cancel \in [Cancels -> [at : {"idle", "mark", "save", "done", "refused"}]]
      /\ call \in [Calls -> CallTypes] /\ row \in RowType
  BY DEF ScopeInv, ScopeTypeOK, ReportInv, ReportTypeOK
<1>1. CASE ScopeStep /\ UNCHANGED <<reportVars, shown>>
  BY <1>1, AllowedStay DEF TouchInv, CancelledBy, reportVars
<1>2. CASE \E q \in Calls : StatusAnswers(q)
  <2>1. PICK q \in Calls : StatusAnswers(q) BY <1>2
  <2>2. \A c \in Calls : c # q => call'[c] = call[c] BY <1>0, <2>1 DEF StatusAnswers
  <2>3. q \in Cancels => cancel[q].at = "idle" BY <2>1 DEF StatusAnswers, NotCancelling
  <2>4. shown' = shown \cup {JobTenant} /\ UNCHANGED reportVars
    BY <2>1 DEF StatusAnswers, OwnJob
  <2> QED BY <2>2, <2>3, <2>4 DEF TouchInv, CancelledBy, reportVars
<1>3. ASSUME NEW c \in Cancels, CancelAsked(c) PROVE TouchInv'
  <2>1. \A d \in Cancels : d # c => cancel'[d] = cancel[d]
    BY <1>0, <1>3 DEF CancelAsked, CancelReads, CancelAt
  <2>2. cancel[c].at = "idle" /\ UNCHANGED <<row, flag, call, shown>>
    BY <1>3 DEF CancelAsked, CancelReads, CancelAt, scopeVars
  <2>3. call[c].at = "allowed" /\ call[c].who.tenant = JobTenant
    BY <1>3 DEF CancelAsked, OwnJob
  <2>4. \A d \in Cancels : CancelledBy(d) => CancelledBy(d)' BY <2>1, <2>2 DEF CancelledBy
  <2> QED BY <2>1, <2>2, <2>3, <2>4 DEF TouchInv
<1>4. ASSUME NEW c \in Cancels, CancelStep(c), UNCHANGED <<scopeVars, shown>> PROVE TouchInv'
  <2>1. \A d \in Cancels : d # c => cancel'[d] = cancel[d]
    BY <1>0, <1>4 DEF CancelStep, CancelMarks, CancelSaves, CancelAt
  <2>2. cancel[c].at \in {"mark", "save"} /\ cancel'[c].at \in {"save", "done"}
    BY <1>0, <1>4 DEF CancelStep, CancelMarks, CancelSaves, CancelAt
  <2>3. call' = call /\ shown' = shown BY <1>4 DEF scopeVars
  <2>4. CancelledBy(c)' BY <2>2 DEF CancelledBy
  <2> QED BY <2>1, <2>2, <2>3, <2>4 DEF TouchInv
<1>5. ASSUME NEW r \in Runs, RunStep(r), UNCHANGED <<scopeVars, shown>> PROVE TouchInv'
  BY <1>5, RunTouchesNobody DEF TouchInv, CancelledBy, scopeVars
<1>6. CASE UNCHANGED consoleVars
  BY <1>6 DEF TouchInv, CancelledBy, consoleVars, scopeVars, reportVars
<1> QED BY <1>1, <1>2, <1>3, <1>4, <1>5, <1>6 DEF Next

(* A job is shown to, and cancelled by, operators with a profile of its    *)
(* tenant only (etl/views.py:168, 189, permissions.py:15-22).              *)
THEOREM JobsStayInTheirTenant == Spec => []OnlyItsTenant
<1> DEFINE Inv == ScopeInv /\ ReportInv /\ TouchInv
<1>1. Init => Inv
  <2>1. Init => TouchInv
    <3> SUFFICES ASSUME Init PROVE TouchInv
      OBVIOUS
    <3>1. row.status = "QUEUED" /\ ~flag BY DEF Init, ReportInit
    <3>2. \A c \in Cancels : cancel[c].at = "idle" BY DEF Init, ReportInit
    <3> QED BY <3>1, <3>2 DEF TouchInv, Init
  <2> QED BY <2>1, ScopeInitial, ReportInitial DEF Init
<1>2. Inv /\ [Next]_consoleVars => Inv'
  BY ScopeInduction, ReportInduction, TouchInduction
<1>3. Inv => OnlyItsTenant
  <2> SUFFICES ASSUME Inv PROVE OnlyItsTenant
    OBVIOUS
  <2>1. \A c \in Cancels : CancelledBy(c) => <<call[c].who.user, JobTenant>> \in Profiles
    BY ConsoleAssumption DEF TouchInv, CancelledBy, ScopeInv, SpeaksForAnOperator
  <2> QED BY <2>1 DEF TouchInv, CancelledBy, OnlyItsTenant
<1> QED BY <1>1, <1>2, <1>3, PTL DEF Spec
=============================================================================

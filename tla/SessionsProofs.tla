--------------------------- MODULE SessionsProofs ---------------------------
(***************************************************************************)
(* Theorems of Sessions, for any number of handlers, hosts, sessions and   *)
(* passwords.                                                              *)
(***************************************************************************)
EXTENDS Sessions, FiniteSetTheorems, TLAPS

LEMMA NoneIsNoPassword ==
  None \notin Password /\ "torn" \notin Password \cup {None} /\ "cut" \notin Password \cup {None}
BY SessionsAssumption DEF SessionsAssumption

(* The variables keep their types: auth.go's state under any interleaving. *)
THEOREM TypeCorrect == Spec => []TypeOK
<1> USE SessionsAssumption DEF SessionsAssumption, memory, history, TypeOK, Place, Idle
<1>1. ASSUME Init PROVE TypeOK
  <2>1. req \in [Request -> [at : Place, addr : Address \cup {None},
                            password : Password \cup {None}, copy : Password \cup {None, "cut"}]]
    BY <1>1 DEF Init
  <2>2. /\ hash \in Password \cup {None, "cut"} /\ setupRequired \in BOOLEAN
        /\ attempts \in [Address -> [count : Nat, resets : Nat]] /\ sessions \in [Session -> Nat]
    BY <1>1 DEF Init, RequiresSetup
  <2>3. QED
    BY <1>1, <2>1, <2>2 DEF Init
<1>2. TypeOK /\ [Next]_vars => TypeOK'
  <2> SUFFICES ASSUME TypeOK, [Next]_vars PROVE TypeOK'
    OBVIOUS
  <2>1. ASSUME NEW r \in Request, NEW a \in Address, NEW p \in Password, LoginBegin(r, a, p)
        PROVE  TypeOK'
    BY <2>1 DEF LoginBegin
  <2>2. ASSUME NEW r \in Request, NEW p \in Password, SetupBegin(r, p)
        PROVE  TypeOK'
    BY <2>2 DEF SetupBegin
  <2>3. ASSUME NEW r \in Request, LoginCopy(r)
        PROVE  TypeOK'
    <3> DEFINE Copied == Password \cup {None, "cut"}
               Secret == Password \cup {None}
               Host == Address \cup {None}
    <3>1. req' \in [Request -> [at : Place, addr : Host, password : Secret, copy : Copied]]
      <4>1. /\ req \in [Request -> [at : Place, addr : Host, password : Secret, copy : Copied]]
            /\ hash \in Copied /\ "compare" \in Place
        OBVIOUS
      <4>2. req' = [req EXCEPT ![r].at = "compare", ![r].copy = hash]
        BY <2>3 DEF LoginCopy
      <4> HIDE DEF Copied, Secret, Host, TypeOK, Place, Idle
      <4>3. QED
        BY <4>1, <4>2
    <3>2. QED
      BY <2>3, <3>1 DEF LoginCopy
  <2>4. ASSUME NEW r \in Request, LoginFail(r)
        PROVE  TypeOK'
    <3>1. attempts' \in [Address -> [count : Nat, resets : Nat]]
      <4> DEFINE rec == IF NoRecord(req[r].addr)
                        THEN [count |-> 1, resets |-> now + attemptWindow]
                        ELSE [count |-> attempts[req[r].addr].count + 1,
                              resets |-> attempts[req[r].addr].resets]
      <4>1. attempts' = [attempts EXCEPT ![req[r].addr] = rec]
        BY <2>4 DEF LoginFail, recordFailure
      <4>2. req[r].addr \in Address => rec \in [count : Nat, resets : Nat]
        OBVIOUS
      <4> HIDE DEF rec
      <4>3. QED
        BY <4>1, <4>2
    <3>2. QED
      BY <2>4, <3>1 DEF LoginFail, Return
  <2>5. ASSUME NEW r \in Request, LoginOk(r)
        PROVE  TypeOK'
    <3>1. Pruned \in [Session -> Nat]
      BY DEF Pruned
    <3>2. PICK s \in Session : /\ sessions' = [Pruned EXCEPT ![s] = now + sessionTTL]
                               /\ earned' = [earned EXCEPT ![s] = req[r].password]
      BY <2>5 DEF LoginOk, Issue
    <3>3. sessions' \in [Session -> Nat] /\ earned' \in [Session -> Password \cup {None}]
      BY <3>1, <3>2
    <3>4. attempts' \in [Address -> [count : Nat, resets : Nat]]
      BY <2>5 DEF LoginOk
    <3>5. QED
      BY <2>5, <3>3, <3>4 DEF LoginOk, Return
  <2>6. ASSUME NEW r \in Request, SetPassword(r)
        PROVE  TypeOK'
    <3>1. hash' \in Password \cup {None, "cut"}
      BY <2>6 DEF SetPassword
    <3>2. rivals' \subseteq Password \cup {None} /\ contested' \in BOOLEAN
      <4>1. req[r].password \in Password \cup {None}
        OBVIOUS
      <4>2. rivals' = rivals \cup {req[r].password} /\ contested' = (contested \/ Enabled)
        BY <2>6 DEF SetPassword
      <4>3. QED
        BY <4>1, <4>2
    <3>3. req' \in [Request -> [at : Place, addr : Address \cup {None},
                                 password : Password \cup {None}, copy : Password \cup {None, "cut"}]]
      BY <2>6 DEF SetPassword, Goto
    <3>4. QED
      BY <2>6, <3>1, <3>2, <3>3 DEF SetPassword
  <2>7. ASSUME NEW r \in Request, StartSession(r)
        PROVE  TypeOK'
    <3>1. Pruned \in [Session -> Nat]
      BY DEF Pruned
    <3>2. QED
      BY <2>7, <3>1 DEF StartSession, Issue, Return
  <2>8. ASSUME NEW r \in Request, SaveHashBegin(r) \/ SaveHashEnd(r) \/ SaveHashFail(r)
        PROVE  TypeOK'
    <3>1. CASE SaveHashBegin(r)
      BY <3>1 DEF SaveHashBegin, Goto
    <3>2. CASE SaveHashEnd(r)
      BY <3>2 DEF SaveHashEnd, Goto
    <3>3. CASE SaveHashFail(r)
      BY <3>3 DEF SaveHashFail, Return
    <3>4. QED
      BY <2>8, <3>1, <3>2, <3>3
  <2>9. ASSUME NEW s \in Session, ExpireSession(s) \/ Logout(s)
        PROVE  TypeOK'
    BY <2>9 DEF ExpireSession, Logout
  <2>10. ASSUME NEW t \in ApiToken, handleTokens(t) \/ handleTokenDelete(t)
         PROVE  TypeOK'
    BY <2>10 DEF handleTokens, handleTokenDelete, CreateAPIToken, DeleteAPIToken
  <2>11. ASSUME Restart
         PROVE  TypeOK'
    BY <2>11 DEF Restart, StartWith, Configured, LoadHash, RequiresSetup
  <2>12. ASSUME Tick
         PROVE  TypeOK'
    BY <2>12 DEF Tick
  <2>13. ASSUME UNCHANGED vars
         PROVE  TypeOK'
    BY <2>13 DEF vars
  <2>14. QED
    BY <2>1, <2>2, <2>3, <2>4, <2>5, <2>6, <2>7, <2>8, <2>9, <2>10, <2>11, <2>12, <2>13 DEF Next
<1>3. QED
  BY <1>1, <1>2, PTL DEF Spec

-----------------------------------------------------------------------------
(* Failed logins. *)

InFlight(a) == {r \in Request : req[r].at \in {"checked", "compare"} /\ req[r].addr = a}

LEMMA InFlightIsFinite ==
  ASSUME NEW a \in Address
  PROVE  /\ IsFiniteSet(InFlight(a)) /\ Cardinality(InFlight(a)) \in Nat
         /\ Cardinality(InFlight(a)) <= Cardinality(Request)
         /\ Cardinality(Request) \in Nat
BY SessionsAssumption, FS_Subset, FS_CardinalityType DEF SessionsAssumption, InFlight

(* However the logins of a host interleave, its failures stay within the limit and
   the logins in flight (Login, lockedOut and recordFailure of auth.go). *)
THEOREM FailuresBounded == Spec => []FailuresAreBounded
<1> USE SessionsAssumption DEF SessionsAssumption
<1> DEFINE Bound(a) == attempts[a].count + Cardinality(InFlight(a))
                         <= maxAttempts - 1 + Cardinality(Request)
<1>1. FailuresAreBounded <=> \A a \in Address : Bound(a)
  BY DEF FailuresAreBounded, InFlight
<1>2. ASSUME TypeOK, Init PROVE FailuresAreBounded
  <2>1. \A a \in Address : attempts[a].count = 0
    BY <1>2 DEF Init, RequiresSetup
  <2>2. QED
    BY <1>1, <2>1, InFlightIsFinite
<1>3. ASSUME TypeOK, TypeOK', FailuresAreBounded, [Next]_vars PROVE FailuresAreBounded'
  <2> SUFFICES ASSUME NEW a \in Address PROVE Bound(a)'
    BY DEF FailuresAreBounded, InFlight
  <2>1. /\ Cardinality(InFlight(a)) \in Nat /\ IsFiniteSet(InFlight(a))
        /\ Cardinality(InFlight(a)') \in Nat
        /\ Cardinality(InFlight(a)') <= Cardinality(Request)
        /\ Cardinality(Request) \in Nat
    <3>1. IsFiniteSet(Request) /\ InFlight(a) \subseteq Request /\ InFlight(a)' \subseteq Request
      BY DEF InFlight
    <3>2. QED
      BY <3>1, FS_Subset, FS_CardinalityType
  <2>2. Bound(a)
    BY <1>1, <1>3
  <2>3. attempts[a].count \in Nat /\ attempts'[a].count \in Nat
    BY <1>3 DEF TypeOK
  <2>4. CASE attempts'[a].count = attempts[a].count /\ InFlight(a)' \subseteq InFlight(a)
    <3>1. Cardinality(InFlight(a)') <= Cardinality(InFlight(a))
      BY <2>4, <2>1, FS_Subset
    <3>2. QED
      BY <2>1, <2>2, <2>3, <2>4, <3>1
  <2>5. CASE attempts'[a].count <= maxAttempts - 1
    BY <2>1, <2>3, <2>5
  <2>6. ASSUME NEW r \in Request, NEW b \in Address, NEW p \in Password, LoginBegin(r, b, p)
        PROVE  Bound(a)'
    <3>1. CASE b = a
      <4>1. attempts'[a].count <= maxAttempts - 1
        <5>1. CASE Expired(a)
          <6>1. attempts' = [attempts EXCEPT ![a].count = 0, ![a].resets = 0]
            BY <2>6, <3>1, <5>1 DEF LoginBegin
          <6>2. attempts'[a].count = 0
            BY <6>1, <1>3 DEF TypeOK
          <6>3. QED
            BY <6>2
        <5>2. CASE ~Expired(a)
          <6>1. attempts' = attempts
            BY <2>6, <3>1, <5>2 DEF LoginBegin
          <6>2. attempts[a].count = 0 \/ ~(attempts[a].count >= maxAttempts)
            BY <2>6, <3>1, <5>2 DEF LoginBegin, lockedOut, NoRecord
          <6>3. QED
            BY <2>3, <6>1, <6>2
        <5>3. QED
          BY <5>1, <5>2
      <4>2. QED
        BY <4>1, <2>5
    <3>2. CASE b # a
      <4>1. InFlight(a)' \subseteq InFlight(a)
        BY <2>6, <3>2, <1>3 DEF LoginBegin, InFlight, TypeOK, Idle
      <4>2. attempts'[a].count = attempts[a].count
        BY <2>6, <3>2, <1>3 DEF LoginBegin, TypeOK
      <4>3. QED
        BY <4>1, <4>2, <2>4
    <3>3. QED
      BY <3>1, <3>2
  <2>7. ASSUME NEW r \in Request, LoginFail(r)
        PROVE  Bound(a)'
    <3>1. req[r].addr \in Address \cup {None} /\ DOMAIN attempts = Address
      BY <1>3 DEF TypeOK
    <3>2. InFlight(a)' = InFlight(a) \ {r}
      BY <2>7, <1>3 DEF LoginFail, Return, Idle, InFlight, TypeOK
    <3>3. CASE req[r].addr = a
      <4>1. r \in InFlight(a)
        BY <2>7, <3>3 DEF LoginFail, InFlight
      <4>2. Cardinality(InFlight(a)') = Cardinality(InFlight(a)) - 1
        BY <2>1, <3>2, <4>1, FS_RemoveElement
      <4>3. attempts'[a].count <= attempts[a].count + 1
        BY <2>7, <2>3, <3>3, <1>3 DEF LoginFail, recordFailure, TypeOK
      <4>4. QED
        BY <2>1, <2>2, <2>3, <4>2, <4>3
    <3>4. CASE req[r].addr # a
      <4>1. attempts'[a].count = attempts[a].count
        BY <2>7, <3>4, <1>3 DEF LoginFail, recordFailure, TypeOK
      <4>2. QED
        BY <4>1, <3>2, <2>4
    <3>5. QED
      BY <3>3, <3>4
  <2>8. ASSUME NEW r \in Request, LoginOk(r)
        PROVE  Bound(a)'
    <3>1. CASE req[r].addr = a
      <4>1. attempts'[a].count = 0
        BY <2>8, <3>1, <1>3 DEF LoginOk, TypeOK
      <4>2. QED
        BY <4>1, <2>5
    <3>2. CASE req[r].addr # a
      <4>1. attempts'[a].count = attempts[a].count
        BY <2>8, <3>2, <1>3 DEF LoginOk, TypeOK
      <4>2. InFlight(a)' \subseteq InFlight(a)
        BY <2>8, <1>3 DEF LoginOk, Return, Idle, InFlight, TypeOK
      <4>3. QED
        BY <4>1, <4>2, <2>4
    <3>3. QED
      BY <3>1, <3>2
  <2>9. ASSUME NEW r \in Request,
               \/ LoginCopy(r) \/ SetPassword(r) \/ StartSession(r)
               \/ SaveHashBegin(r) \/ SaveHashEnd(r) \/ SaveHashFail(r)
               \/ \E p \in Password : SetupBegin(r, p)
        PROVE  Bound(a)'
    <3>1. attempts' = attempts
      BY <2>9 DEF LoginCopy, SetPassword, StartSession, SaveHashBegin, SaveHashEnd, SaveHashFail,
                  SetupBegin, memory
    <3>2. InFlight(a)' \subseteq InFlight(a)
      <4>1. CASE LoginCopy(r)
        BY <4>1, <1>3 DEF LoginCopy, InFlight, TypeOK
      <4>2. CASE SetPassword(r) \/ SaveHashBegin(r) \/ SaveHashEnd(r)
        BY <4>2, <1>3 DEF SetPassword, SaveHashBegin, SaveHashEnd, Goto, InFlight, TypeOK
      <4>3. CASE StartSession(r) \/ SaveHashFail(r)
        <5>1. req' = [req EXCEPT ![r] = Idle]
          BY <4>3 DEF StartSession, SaveHashFail, Return
        <5>2. QED
          BY <5>1, <1>3 DEF Idle, InFlight, TypeOK
      <4>4. CASE \E p \in Password : SetupBegin(r, p)
        BY <4>4, <1>3 DEF SetupBegin, Idle, InFlight, TypeOK
      <4>5. QED
        BY <2>9, <4>1, <4>2, <4>3, <4>4
    <3>3. QED
      BY <3>1, <3>2, <2>4
  <2>10. ASSUME Restart
         PROVE  Bound(a)'
    <3>1. attempts'[a].count = 0
      BY <2>10 DEF Restart, StartWith, RequiresSetup
    <3>2. QED
      BY <3>1, <2>5
  <2>11. ASSUME \/ \E s \in Session : ExpireSession(s) \/ Logout(s)
                \/ \E t \in ApiToken : handleTokens(t) \/ handleTokenDelete(t)
                \/ Tick \/ UNCHANGED vars
         PROVE  Bound(a)'
    <3>1. attempts' = attempts /\ req' = req
      BY <2>11 DEF ExpireSession, Logout, handleTokens, handleTokenDelete, Tick, vars, memory
    <3>2. QED
      BY <3>1, <2>4 DEF InFlight
  <2>12. QED
    BY <1>3, <2>6, <2>7, <2>8, <2>9, <2>10, <2>11 DEF Next
<1>4. QED
  BY <1>2, <1>3, TypeCorrect, PTL DEF Spec

(* Handlers whose page has set its password and is still saving or signing in. *)
Saving(r) == req[r].at \in {"save", "writing", "signin"}

(* Why the password in memory, the passwords that earned a session and the password in
   the file agree.  The first three parts hold however many pages are handled at once:
   what a session was earned with, what a login compares with and what is in force are
   the same password, or passwords that pages of this process set.  The fourth says that
   as long as no page has replaced the password of another, the one page that is saving
   carries the password in force, and nothing is confirmed before it is in the file. *)
SetBy(p) == p = hash \/ {p, hash} \subseteq rivals
EarnedHere == \A s \in Session : sessions[s] # 0 => hash # None /\ SetBy(earned[s])
ComparedHere ==
  \A r \in Request :
    /\ req[r].at \in {"checked", "compare"} => hash # None
    /\ req[r].at = "compare" => SetBy(req[r].copy)
SetHere ==
  /\ \A r \in Request :
       /\ InSetup(r) => /\ req[r].password \in Password /\ config.password = None
                        /\ hash \in rivals \cup {None}
       /\ Saving(r) => {req[r].password, hash} \subseteq rivals
  /\ rivals \subseteq Password
  /\ config.password # None => hash = config.password
  /\ setupRequired => config.exposed
  /\ config.exposed /\ hash = None => setupRequired
Uncontested ==
  /\ \A r \in Request :
       /\ Saving(r) => hash = req[r].password /\ confirmed = None
       /\ req[r].at = "signin" => file = req[r].password
       /\ \A q \in Request : Saving(q) /\ Saving(r) => q = r
  /\ confirmed # None => hash = confirmed /\ file = confirmed /\ config.password = None

Agreed == EarnedHere /\ ComparedHere /\ SetHere /\ (contested \/ Uncontested)

LEMMA AgreedImplies ==
  ASSUME TypeOK, Agreed
  PROVE  ServesTheEntitled /\ ConfirmedPasswordLasts
<1>1. ServesTheEntitled
  BY DEF TypeOK, Agreed, EarnedHere, SetBy, SetHere, ServesTheEntitled, Middleware, NeedsSetup, Enabled,
         authenticated, ValidateAndTouchAPIToken
<1>2. ConfirmedPasswordLasts
  <2>1. confirmed # None => confirmed # "torn"
    BY NoneIsNoPassword DEF TypeOK
  <2>2. QED
    BY <2>1 DEF TypeOK, Agreed, Uncontested, ConfirmedPasswordLasts, LoadHash
<1>3. QED
  BY <1>1, <1>2

(* A session that is issued was earned with the password in force, or with one that a
   page of this process set, as the password in force was. *)
LEMMA IssueEarns ==
  ASSUME TypeOK, EarnedHere, NEW p \in Password, Issue(p), hash' = hash, rivals' = rivals,
         hash # None, SetBy(p)
  PROVE  EarnedHere'
<1>1. PICK s \in Session : /\ sessions' = [Pruned EXCEPT ![s] = now + sessionTTL]
                           /\ earned' = [earned EXCEPT ![s] = p]
  BY DEF Issue
<1>2. ASSUME NEW t \in Session, sessions'[t] # 0
      PROVE  t = s \/ (t # s /\ sessions[t] # 0)
  BY <1>1, <1>2 DEF Pruned, TypeOK
<1>3. ASSUME NEW t \in Session
      PROVE  earned'[t] = IF t = s THEN p ELSE earned[t]
  BY <1>1 DEF TypeOK
<1>4. \A q : SetBy(q)' <=> SetBy(q)
  BY DEF SetBy
<1>5. QED
  BY <1>2, <1>3, <1>4 DEF EarnedHere

LEMMA AgreedInvariant == Spec => []Agreed
<1> USE NoneIsNoPassword
<1> USE DEF Agreed
<1>1. Init => Agreed
  BY DEF Init, EarnedHere, ComparedHere, SetBy, SetHere, Uncontested, Idle, InSetup, Saving, RequiresSetup
<1>2. ASSUME TypeOK, TypeOK', Agreed, [Next]_vars PROVE Agreed'
  <2>1. ASSUME NEW r \in Request, NEW a \in Address, NEW p \in Password, LoginBegin(r, a, p)
        PROVE  Agreed'
    <3>1. \A q \in Request : InSetup(q)' = (InSetup(q) /\ q # r) /\ Saving(q)' = (Saving(q) /\ q # r)
      BY <1>2, <2>1 DEF TypeOK, LoginBegin, Idle, InSetup, Saving
    <3>2. EarnedHere' /\ ComparedHere'
      BY <1>2, <2>1 DEF TypeOK, EarnedHere, ComparedHere, SetBy, LoginBegin, Idle, Enabled, history
    <3>3. SetHere'
      BY <1>2, <2>1, <3>1 DEF TypeOK, SetHere, LoginBegin, history
    <3>4. Uncontested => Uncontested'
      BY <1>2, <2>1, <3>1 DEF TypeOK, Uncontested, LoginBegin, Idle, history
    <3>5. QED
      BY <1>2, <2>1, <3>2, <3>3, <3>4 DEF LoginBegin, history
  <2>2. ASSUME NEW r \in Request, NEW p \in Password, SetupBegin(r, p)
        PROVE  Agreed'
    <3>1. EarnedHere' /\ ComparedHere'
      BY <1>2, <2>2 DEF TypeOK, EarnedHere, ComparedHere, SetBy, SetupBegin, Idle, memory, history
    <3>2. SetHere'
      BY <1>2, <2>2 DEF TypeOK, SetHere, SetupBegin, Idle, InSetup, Saving, NeedsSetup, Enabled,
                        memory, history
    <3>3. Uncontested => Uncontested'
      BY <1>2, <2>2 DEF TypeOK, Uncontested, SetupBegin, Idle, Saving, memory, history
    <3>4. QED
      BY <1>2, <2>2, <3>1, <3>2, <3>3 DEF SetupBegin, history
  <2>3. ASSUME NEW r \in Request, LoginCopy(r)
        PROVE  Agreed'
    BY <1>2, <2>3 DEF TypeOK, EarnedHere, ComparedHere, SetBy, SetHere, Uncontested, LoginCopy, InSetup,
                      Saving, memory, history
  <2>4. ASSUME NEW r \in Request, LoginFail(r)
        PROVE  Agreed'
    BY <1>2, <2>4 DEF TypeOK, EarnedHere, ComparedHere, SetBy, SetHere, Uncontested, LoginFail, Return,
                      Idle, InSetup, Saving, history
  <2>5. ASSUME NEW r \in Request, LoginOk(r)
        PROVE  Agreed'
    <3>1. EarnedHere'
      <4>1. /\ req[r].password = req[r].copy /\ Issue(req[r].password)
            /\ hash' = hash /\ rivals' = rivals /\ req[r].at = "compare"
        BY <2>5 DEF LoginOk, history
      <4>2. /\ hash # None /\ SetBy(req[r].copy)
            /\ req[r].password \in Password \cup {None}
        BY <1>2, <4>1 DEF ComparedHere, SetBy, TypeOK
      <4>3. req[r].password \in Password
        BY <1>2, <4>1, <4>2 DEF TypeOK, SetBy, SetHere
      <4>4. SetBy(req[r].password)
        BY <4>1, <4>2
      <4>5. QED
        BY <1>2, <4>1, <4>2, <4>3, <4>4, IssueEarns
    <3>2. ComparedHere' /\ SetHere' /\ (Uncontested => Uncontested')
      BY <1>2, <2>5 DEF TypeOK, ComparedHere, SetBy, SetHere, Uncontested, LoginOk, Return,
                        Idle, InSetup, Saving, history
    <3>3. QED
      BY <1>2, <2>5, <3>1, <3>2 DEF LoginOk, history
  <2>6. ASSUME NEW r \in Request, SetPassword(r)
        PROVE  Agreed'
    <3> DEFINE p == req[r].password
    <3>1. /\ p \in Password /\ hash' = p /\ rivals' = rivals \cup {p} /\ hash \in rivals \cup {None}
          /\ config.password = None /\ config' = config
      BY <1>2, <2>6 DEF SetPassword, SetHere, InSetup
    <3>2. EarnedHere' /\ ComparedHere'
      BY <1>2, <2>6, <3>1 DEF TypeOK, EarnedHere, ComparedHere, SetBy, SetPassword, Goto
    <3>3. SetHere'
      BY <1>2, <2>6, <3>1 DEF TypeOK, SetHere, SetPassword, Goto, InSetup, Saving
    <3>4. Uncontested /\ ~Enabled => Uncontested'
      <4> SUFFICES ASSUME Uncontested, hash = None
                   PROVE  Uncontested'
        BY DEF Enabled
      <4>1. \A q \in Request : ~Saving(q)
        BY <1>2 DEF SetHere, Uncontested, TypeOK
      <4>2. confirmed = None /\ confirmed' = None
        BY <2>6 DEF Uncontested, SetPassword
      <4>3. \A q \in Request : Saving(q)' => q = r
        BY <1>2, <2>6, <4>1 DEF SetPassword, Goto, Saving, TypeOK
      <4>4. req'[r].at = "save" /\ req'[r].password = p
        BY <1>2, <2>6 DEF SetPassword, Goto, TypeOK
      <4>5. QED
        BY <3>1, <4>2, <4>3, <4>4 DEF Uncontested, Saving
    <3>5. QED
      BY <1>2, <2>6, <3>2, <3>3, <3>4 DEF SetPassword
  <2>7. ASSUME NEW r \in Request, StartSession(r)
        PROVE  Agreed'
    <3>1. EarnedHere'
      <4>1. Issue(req[r].password) /\ hash' = hash /\ rivals' = rivals /\ Saving(r) /\ InSetup(r)
        BY <2>7 DEF StartSession, Saving, InSetup
      <4>2. req[r].password \in Password /\ hash # None /\ SetBy(req[r].password)
        BY <1>2, <4>1 DEF SetHere, TypeOK, SetBy
      <4>3. QED
        BY <1>2, <4>1, <4>2, IssueEarns
    <3>2. ComparedHere' /\ SetHere'
      BY <1>2, <2>7 DEF TypeOK, ComparedHere, SetBy, SetHere, StartSession, Return, Idle, InSetup, Saving
    <3>3. Uncontested => Uncontested'
      BY <1>2, <2>7 DEF TypeOK, SetHere, InSetup, Uncontested, StartSession, Return, Idle, Saving
    <3>4. QED
      BY <1>2, <2>7, <3>1, <3>2, <3>3 DEF StartSession
  <2>8. ASSUME NEW r \in Request, SaveHashBegin(r) \/ SaveHashEnd(r)
        PROVE  Agreed'
    <3>1. ASSUME NEW q \in Request
          PROVE  /\ InSetup(q)' <=> InSetup(q)
                 /\ Saving(q)' <=> Saving(q)
                 /\ req'[q].password = req[q].password /\ req'[q].copy = req[q].copy
                 /\ req'[q].at \in {"checked", "compare"} => req'[q].at = req[q].at
      BY <1>2, <2>8 DEF TypeOK, SaveHashBegin, SaveHashEnd, Goto, InSetup, Saving
    <3>2. UNCHANGED <<config, hash, setupRequired, sessions, earned, confirmed, rivals, contested>>
      BY <2>8 DEF SaveHashBegin, SaveHashEnd, memory, history
    <3>3. EarnedHere' /\ ComparedHere' /\ SetHere'
      BY <1>2, <3>1, <3>2 DEF EarnedHere, ComparedHere, SetBy, SetHere
    <3>4. Uncontested => Uncontested'
      <4>1. Saving(r)
        BY <2>8 DEF SaveHashBegin, SaveHashEnd, Saving
      <4>2. \A q \in Request : req'[q].at = "signin" => q = r \/ req[q].at = "signin"
        BY <1>2, <2>8 DEF TypeOK, SaveHashBegin, SaveHashEnd, Goto
      <4>3. \A q \in Request : req[q].at = "signin" => Saving(q)
        BY DEF Saving
      <4>4. req'[r].at = "signin" => file' = req[r].password
        BY <1>2, <2>8 DEF TypeOK, SaveHashBegin, SaveHashEnd, Goto
      <4>5. QED
        BY <3>1, <3>2, <4>1, <4>2, <4>3, <4>4 DEF Uncontested
    <3>5. QED
      BY <1>2, <3>2, <3>3, <3>4
  <2>9. ASSUME NEW r \in Request, SaveHashFail(r)
        PROVE  Agreed'
    BY <1>2, <2>9 DEF TypeOK, EarnedHere, ComparedHere, SetBy, SetHere, Uncontested, SaveHashFail, Return,
                      Idle, InSetup, Saving, memory, history
  <2>10. ASSUME NEW s \in Session, ExpireSession(s) \/ Logout(s)
         PROVE  Agreed'
    BY <1>2, <2>10 DEF TypeOK, EarnedHere, ComparedHere, SetBy, SetHere, Uncontested, ExpireSession,
                       Logout, InSetup, Saving, history
  <2>11. ASSUME Restart
         PROVE  Agreed'
    <3>1. EarnedHere' /\ ComparedHere' /\ SetHere'
      BY <1>2, <2>11 DEF TypeOK, EarnedHere, ComparedHere, SetBy, SetHere, Restart, StartWith, Configured,
                         Idle, InSetup, Saving, RequiresSetup
    <3>2. Uncontested => Uncontested'
      BY <1>2, <2>11 DEF TypeOK, Uncontested, Restart, StartWith, Configured, LoadHash, Idle, Saving
    <3>3. QED
      BY <1>2, <2>11, <3>1, <3>2 DEF Restart
  <2>12. ASSUME \/ \E t \in ApiToken : handleTokens(t) \/ handleTokenDelete(t)
                \/ Tick \/ UNCHANGED vars
         PROVE  Agreed'
    BY <1>2, <2>12 DEF EarnedHere, ComparedHere, SetBy, SetHere, Uncontested, handleTokens,
                       handleTokenDelete, Tick, vars, memory, history, InSetup, Saving
  <2>13. QED
    BY <1>2, <2>1, <2>2, <2>3, <2>4, <2>5, <2>6, <2>7, <2>8, <2>9, <2>10, <2>11, <2>12 DEF Next
<1>3. QED
  BY <1>1, <1>2, TypeCorrect, PTL DEF Spec

(* The middleware serves nobody but those who may see the dashboard, under any
   interleaving of logins, restarts, crashes and first-run pages (auth.go, Middleware;
   handler.go, HandleSetup). *)
THEOREM ServesOnlyTheEntitled == Spec => []ServesTheEntitled
BY AgreedInvariant, AgreedImplies, TypeCorrect, PTL

(* A confirmed password is in force and in the file, at every moment at which the
   process may end, unless a first-run page has replaced another one's password
   (handler.go, HandleSetup; auth.go, SaveHash and LoadHash). *)
THEOREM ConfirmedLasts == Spec => []ConfirmedPasswordLasts
BY AgreedInvariant, AgreedImplies, TypeCorrect, PTL

=============================================================================

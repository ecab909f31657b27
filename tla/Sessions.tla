------------------------------ MODULE Sessions ------------------------------
(***************************************************************************)
(* Who may use the dashboard: the password, the sessions it earns, the     *)
(* limit on failed logins, the API tokens, and what of it survives a       *)
(* crash.  internal/auth keeps the state in one mutex, which every         *)
(* operation takes several times: a request is a few steps, and requests   *)
(* interleave.  Source: internal/auth/auth.go, the sign-in pages of        *)
(* internal/web/handler.go, the start of internal/cli/serve.go and the     *)
(* tokens of internal/storage/storage.go.                                  *)
(***************************************************************************)
EXTENDS Naturals, FiniteSets

CONSTANTS Password,      \* passwords that ValidatePassword accepts
          Address,       \* client hosts, as clientKey reduces them
          Session,       \* session tokens; each is issued at most once
          ApiToken,      \* API tokens
          Request,       \* handlers that can run at a time
          None,          \* no password, no file
          maxAttempts, attemptWindow, sessionTTL,
          MaxTime        \* bound on the clock

ASSUME SessionsAssumption ==
  /\ None \notin Password
  /\ "torn" \notin Password \cup {None} /\ "cut" \notin Password \cup {None}
  /\ IsFiniteSet(Request)
  /\ maxAttempts \in Nat \ {0} /\ attemptWindow \in Nat /\ sessionTTL \in Nat \ {0}
  /\ MaxTime \in Nat

VARIABLES config,         \* the password and the reachability the operator configured
          hash,           \* the password in memory
          setupRequired,
          sessions,       \* expiry of each session, 0 if it does not exist
          earned,         \* the password each session was given for (not in the code)
          attempts,       \* failed logins per host; count 0 is no record
          file,           \* the stored password; "torn" or "cut" while it is written
          tokens,         \* rows of api_tokens
          req,            \* the place of each handler and what it carries
          now

(* History, which the code does not keep and no guard reads. *)
VARIABLES confirmed,      \* the password a first-run page confirmed last
          rivals,         \* the passwords that first-run pages set since the process started
          contested       \* a first-run page has replaced the password of another one

memory  == <<hash, setupRequired, sessions, attempts>>
history == <<confirmed, rivals, contested>>
vars == <<config, memory, earned, file, tokens, req, history, now>>

-----------------------------------------------------------------------------
(* Handlers. *)

Idle == [at |-> "idle", addr |-> None, password |-> None, copy |-> None]

Goto(r, p) == req' = [req EXCEPT ![r].at = p]
Return(r)  == req' = [req EXCEPT ![r] = Idle]

Enabled    == hash # None
NeedsSetup == setupRequired /\ ~Enabled

\* Mutant: the content of the file is not looked at
LoadAnything == file

\* What a stored file is worth.  Only the prefix of a hash is looked for: a file that
\* was cut before the end of it is no password, one that was cut behind it is taken
\* for a hash, which no password matches.
LoadHash == IF file = "torn" THEN None ELSE file

\* A server that can be reached from the network needs a password.
RequiresSetup(p) == config.exposed /\ p = None

\* A start of the server.  The configured password wins over the stored one.
StartWith(p) ==
  /\ hash' = p
  /\ setupRequired' = RequiresSetup(p)
  /\ sessions' = [s \in Session |-> 0]
  /\ attempts' = [a \in Address |-> [count |-> 0, resets |-> 0]]

Configured == IF config.password = None THEN LoadHash ELSE config.password

Init ==
  /\ config \in [password : Password \cup {None}, exposed : BOOLEAN]
  /\ hash = config.password
  /\ setupRequired = RequiresSetup(config.password)
  /\ sessions = [s \in Session |-> 0]
  /\ earned = [s \in Session |-> None]
  /\ attempts = [a \in Address |-> [count |-> 0, resets |-> 0]]
  /\ file = None
  /\ tokens = {}
  /\ req = [r \in Request |-> Idle]
  /\ confirmed = None
  /\ rivals = {}
  /\ contested = FALSE
  /\ now = 0

-----------------------------------------------------------------------------
(* Sessions.  pruneSessionsLocked drops what has expired, then a session that *)
(* was never used before is added.                                            *)

Pruned == [s \in Session |-> IF now > sessions[s] THEN 0 ELSE sessions[s]]

Issue(p) ==
  \E s \in Session :
    /\ earned[s] = None
    /\ sessions' = [Pruned EXCEPT ![s] = now + sessionTTL]
    /\ earned' = [earned EXCEPT ![s] = p]

ValidateAndTouchAPIToken(t) == t \in tokens

\* Whether the middleware serves a request that carries session s and token t.
authenticated(s) == sessions[s] # 0 /\ now <= sessions[s]
\* Mutant: whether a password is still to be set does not matter
MiddlewareOpen(s, t) == ValidateAndTouchAPIToken(t) \/ ~Enabled \/ authenticated(s)
Middleware(s, t) ==
  \/ ValidateAndTouchAPIToken(t)
  \/ ~NeedsSetup /\ ~Enabled
  \/ Enabled /\ authenticated(s)

\* A request with an expired session removes it on its way to the login page.
ExpireSession(s) ==
  /\ Enabled /\ sessions[s] # 0 /\ now > sessions[s]
  /\ sessions' = [sessions EXCEPT ![s] = 0]
  /\ UNCHANGED <<config, hash, setupRequired, attempts, earned, file, tokens, req, history, now>>

Logout(s) ==
  /\ sessions[s] # 0
  /\ sessions' = [sessions EXCEPT ![s] = 0]
  /\ UNCHANGED <<config, hash, setupRequired, attempts, earned, file, tokens, req, history, now>>

-----------------------------------------------------------------------------
(* Login.  The limit is checked, the hash copied and the verdict recorded    *)
(* under three separate locks; the comparison itself holds none.             *)

Expired(a)   == now > attempts[a].resets
NoRecord(a)  == attempts[a].count = 0 \/ Expired(a)
\* Mutant: one failure too many
lockedOutLate(a) == ~NoRecord(a) /\ attempts[a].count > maxAttempts
lockedOut(a) == ~NoRecord(a) /\ attempts[a].count >= maxAttempts

LoginBegin(r, a, p) ==
  /\ req[r] = Idle
  /\ ~NeedsSetup /\ Enabled
  /\ ~lockedOut(a)
  /\ attempts' = IF Expired(a) THEN [attempts EXCEPT ![a].count = 0, ![a].resets = 0] ELSE attempts
  /\ req' = [req EXCEPT ![r] = [Idle EXCEPT !.at = "checked", !.addr = a, !.password = p]]
  /\ UNCHANGED <<config, hash, setupRequired, sessions, earned, file, tokens, history, now>>

LoginCopy(r) ==
  /\ req[r].at = "checked"
  /\ req' = [req EXCEPT ![r].at = "compare", ![r].copy = hash]
  /\ UNCHANGED <<config, memory, earned, file, tokens, history, now>>

recordFailure(a) ==
  attempts' = [attempts EXCEPT ![a] =
                 IF NoRecord(a) THEN [count |-> 1, resets |-> now + attemptWindow]
                 ELSE [count |-> attempts[a].count + 1, resets |-> attempts[a].resets]]

LoginFail(r) ==
  /\ req[r].at = "compare" /\ req[r].password # req[r].copy
  /\ recordFailure(req[r].addr)
  /\ Return(r)
  /\ UNCHANGED <<config, hash, setupRequired, sessions, earned, file, tokens, history, now>>

LoginOk(r) ==
  /\ req[r].at = "compare" /\ req[r].password = req[r].copy
  /\ attempts' = [attempts EXCEPT ![req[r].addr] = [count |-> 0, resets |-> 0]]
  /\ Issue(req[r].password)
  /\ Return(r)
  /\ UNCHANGED <<config, hash, setupRequired, file, tokens, history, now>>

-----------------------------------------------------------------------------
(* First run.  A submission that does not validate changes nothing.  Whether  *)
(* a password is still to be set is looked at once, at the start: of several  *)
(* submissions handled at a time, each sets its password and saves it.        *)

InSetup(r) == req[r].at \in {"setup", "save", "writing", "signin"}

SetupBegin(r, p) ==
  /\ req[r] = Idle
  /\ NeedsSetup
  /\ req' = [req EXCEPT ![r] = [Idle EXCEPT !.at = "setup", !.password = p]]
  /\ UNCHANGED <<config, memory, earned, file, tokens, history, now>>

SetPassword(r) ==
  /\ req[r].at = "setup"
  /\ hash' = req[r].password
  /\ sessions' = [s \in Session |-> 0]
  /\ rivals' = rivals \cup {req[r].password}
  /\ contested' = (contested \/ Enabled)
  /\ Goto(r, "save")
  /\ UNCHANGED <<config, setupRequired, attempts, earned, file, tokens, confirmed, now>>

\* os.WriteFile truncates the file and then writes it: a crash in between leaves less
\* than the prefix of the hash, or the prefix and not the rest.
SaveHashBegin(r) ==
  /\ req[r].at = "save"
  /\ file' \in {"torn", "cut"}
  /\ Goto(r, "writing")
  /\ UNCHANGED <<config, memory, earned, tokens, history, now>>

SaveHashEnd(r) ==
  /\ req[r].at = "writing"
  /\ file' = req[r].password
  /\ Goto(r, "signin")
  /\ UNCHANGED <<config, memory, earned, tokens, history, now>>

\* Mutant: the error is ignored
SaveHashFailUnnoticed(r) ==
  /\ req[r].at \in {"save", "writing"}
  /\ Goto(r, "signin")
  /\ UNCHANGED <<config, memory, earned, file, tokens, history, now>>

\* The directory or the file cannot be written: the page says so.
SaveHashFail(r) ==
  /\ req[r].at \in {"save", "writing"}
  /\ Return(r)
  /\ UNCHANGED <<config, memory, earned, file, tokens, history, now>>

StartSession(r) ==
  /\ req[r].at = "signin"
  /\ Issue(req[r].password)
  /\ confirmed' = req[r].password
  /\ Return(r)
  /\ UNCHANGED <<config, hash, setupRequired, attempts, file, tokens, rivals, contested, now>>

-----------------------------------------------------------------------------
(* API tokens, which the middleware accepts in the place of a session.       *)

CreateAPIToken(t) == tokens' = tokens \cup {t}
DeleteAPIToken(t) == tokens' = tokens \ {t}

\* POST /api/tokens makes a random token, which no row has
handleTokens(t) ==
  /\ t \notin tokens
  /\ CreateAPIToken(t)
  /\ UNCHANGED <<config, memory, earned, file, req, history, now>>

\* The id of a row that is gone deletes nothing
handleTokenDelete(t) ==
  /\ DeleteAPIToken(t)
  /\ UNCHANGED <<config, memory, earned, file, req, history, now>>

-----------------------------------------------------------------------------

\* The process ends at any point, and starts again.
Restart ==
  /\ StartWith(Configured)
  /\ req' = [r \in Request |-> Idle]
  /\ rivals' = {}
  /\ UNCHANGED <<config, earned, file, tokens, confirmed, contested, now>>

Tick == /\ now < MaxTime
        /\ now' = now + 1
        /\ UNCHANGED <<config, memory, earned, file, tokens, req, history>>

Next ==
  \/ \E r \in Request : \/ \E a \in Address, p \in Password : LoginBegin(r, a, p)
                        \/ \E p \in Password : SetupBegin(r, p)
                        \/ LoginCopy(r) \/ LoginFail(r) \/ LoginOk(r)
                        \/ SetPassword(r) \/ StartSession(r)
                        \/ SaveHashBegin(r) \/ SaveHashEnd(r) \/ SaveHashFail(r)
  \/ \E s \in Session : ExpireSession(s) \/ Logout(s)
  \/ \E t \in ApiToken : handleTokens(t) \/ handleTokenDelete(t)
  \/ Restart
  \/ Tick

Spec == Init /\ [][Next]_vars

-----------------------------------------------------------------------------
(* Properties. *)

Place == {"idle", "checked", "compare", "setup", "save", "writing", "signin"}

TypeOK ==
  /\ config \in [password : Password \cup {None}, exposed : BOOLEAN]
  /\ hash \in Password \cup {None, "cut"}
  /\ setupRequired \in BOOLEAN
  /\ sessions \in [Session -> Nat]
  /\ earned \in [Session -> Password \cup {None}]
  /\ attempts \in [Address -> [count : Nat, resets : Nat]]
  /\ file \in Password \cup {None, "torn", "cut"}
  /\ tokens \subseteq ApiToken
  /\ req \in [Request -> [at : Place, addr : Address \cup {None},
                          password : Password \cup {None}, copy : Password \cup {None, "cut"}]]
  /\ confirmed \in Password \cup {None} /\ rivals \subseteq Password \cup {None} /\ contested \in BOOLEAN
  /\ now \in Nat

\* The limit on failed logins is checked before a slow comparison and counted after
\* it, so that logins of one host that run at once all pass the check.  However they
\* interleave, a host fails at most maxAttempts - 1 times plus once per login in flight
\* before it is locked out (auth.go, Login, lockedOut and recordFailure).
FailuresAreBounded ==
  \A a \in Address :
    attempts[a].count + Cardinality({r \in Request : req[r].at \in {"checked", "compare"}
                                                     /\ req[r].addr = a})
      <= maxAttempts - 1 + Cardinality(Request)

\* Whoever the middleware serves carries a live API token, or a session that has not
\* expired and was earned with the password in force, or the operator left the
\* dashboard open: it is not exposed and there is no password.  No restart, crash or
\* login in flight leads to another way in.  First-run pages handled at once do lead to
\* one, and to no more than this: the session of one of them, or of a login that was
\* comparing, lives on although another of them has set the password since; both
\* passwords were set by first-run pages of this process (handler.go, HandleSetup).
ServesTheEntitled ==
  \A s \in Session, t \in ApiToken :
    Middleware(s, t) =>
      \/ t \in tokens
      \/ /\ hash # None /\ now <= sessions[s]
         /\ earned[s] = hash \/ {earned[s], hash} \subseteq rivals
      \/ ~config.exposed /\ hash = None

\* A password that a first-run page confirmed is the password from then on, and a crash
\* at any later moment finds it in the file, unless another first-run page, which had
\* begun before there was a password, has replaced a password at some time.  Neither a
\* page that failed to save, nor a crash while a page was saving, nor pages that began
\* together are enough to lose it (handler.go, HandleSetup; auth.go, SaveHash, LoadHash).
ConfirmedPasswordLasts ==
  confirmed # None => contested \/ (hash = confirmed /\ LoadHash = confirmed)

\* What a comment of HandleSetup says of the page: "Once a password exists there is
\* nothing to set up, and this page must not become a way to overwrite it."  It does not
\* hold: the page looks for a password when it begins, not when it sets one.
NeverOverwritten ==
  confirmed # None => hash = confirmed /\ LoadHash = confirmed

=============================================================================

------------------------------ MODULE RemotePool ------------------------------
(***************************************************************************)
(* The pool of SSH connections to the edge gateways that scan networks on  *)
(* the server's behalf (SSHRunner).  Sweeps and deep scans call RunScan    *)
(* from many goroutines; they share one connection per gateway address,    *)
(* which is dialled, recycled when a key file changes, and replaced after  *)
(* a failed session, under one mutex for all gateways.                     *)
(*                                                                         *)
(* A file is what os.Stat and the parser see of it: its contents and the   *)
(* stamp of its last change.  What sshd and the network do (refuse a       *)
(* session, go away, come back) are actions of the environment.            *)
(***************************************************************************)
EXTENDS Naturals, FiniteSets, Sequences, FiniteSetsExt

CONSTANTS
  Worker,          \* goroutines that call RunScan
  Gateway,         \* identifiers of the configured remote scanners
  Names,           \* RemoteScannersConfig.Names: the gateways in file order
  Networks,        \* [Gateway -> set of networks it is configured for]
  Network,         \* networks that are swept
  Hosts,           \* [Network -> hosts in it], for the deep scans
  Addr,            \* host:port
  AddrOf,          \* [Gateway -> Addr]
  File,            \* private key files
  OwnFile,         \* [Gateway -> File or NoFile]: ssh_key_file of the gateway
  SharedFile,      \* ssh_key_file of all gateways, or NoFile
  OwnKey,          \* [Gateway -> what ssh_key of the gateway is]
  SharedKey,       \* ssh_key of all gateways
  Passwords,       \* gateways with ssh_password
  SharedPassword,  \* whether there is one for all gateways
  SessionLimit,    \* sessions sshd allows on one connection (MaxSessions)
  MaxWrites,       \* bound: how often the key files change
  Conn,            \* connections, recycled once closed and forgotten
  NoFile, NoConn, NoGateway, NoAddr, Nobody

ASSUME PoolAssumption ==
  /\ AddrOf \in [Gateway -> Addr]
  /\ Networks \in [Gateway -> SUBSET Network]
  /\ Names \in Seq(Gateway)
  /\ OwnFile \in [Gateway -> File \cup {NoFile}]
  /\ SharedFile \in File \cup {NoFile}
  /\ OwnKey \in [Gateway -> {"none", "valid", "garbled"}]
  /\ SharedKey \in {"none", "valid", "garbled"}
  /\ NoFile \notin File /\ NoConn \notin Conn
  /\ NoAddr \notin Addr /\ NoGateway \notin Gateway /\ Nobody \notin Worker
  /\ SharedPassword \in BOOLEAN /\ SessionLimit \in Nat /\ MaxWrites \in Nat

VARIABLES
  file,      \* [File -> [has, stamp]]: contents and modification time on disk
  up,        \* addresses whose gateway answers
  conn,      \* [Conn -> its address, the credentials it was dialled with, its state]
  pool,      \* SSHRunner.clients
  stamped,   \* SSHRunner.clientModTimes
  mu,        \* holder of SSHRunner.mu
  pc,        \* where each RunScan stands
  gw,        \* the gateway of its target
  client,    \* the connection getClient gave it
  offered,   \* the credentials it is dialling with
  again,     \* it is in its second and last try
  calm,      \* addresses where nothing has gone wrong so far (history)
  overtaken  \* addresses where a key file changed during the dial (history)

env == <<file, up>>
locals == <<gw, offered, again>>
vars == <<file, up, conn, pool, stamped, mu, pc, client, calm, overtaken, locals>>

-----------------------------------------------------------------------------
Stamp == [of: File, at: 0..MaxWrites]
NoStamp == [of |-> NoFile, at |-> 0]
Fixed == [of |-> NoFile, at |-> 1]   \* a password or an in-memory key
Credential == Stamp \cup {Fixed}
Line == [addr: Addr \cup {NoAddr}, using: SUBSET Credential,
         state: {"free", "open", "lost", "shut"}]
Free == [addr |-> NoAddr, using |-> {}, state |-> "free"]

\* The first gateway, in the order of Names, that serves the target.
FirstWith(found) == IF found = {} THEN NoGateway ELSE Names[Min(found)]

\* A network is matched by its text.
FindScannerForCIDR(cidr) == FirstWith({i \in DOMAIN Names : cidr \in Networks[Names[i]]})

\* A host is matched by containment: with networks that overlap its gateway
\* need not be that of the network it was found in.
FindScannerForIP(ip) ==
  FirstWith({i \in DOMAIN Names : \E n \in Networks[Names[i]] : ip \in Hosts[n]})

findScannerConfig(target) ==
  IF target \in Network THEN FindScannerForCIDR(target) ELSE FindScannerForIP(target)

getKeyFileForScanner(g) == IF OwnFile[g] # NoFile THEN OwnFile[g] ELSE SharedFile

\* The credentials one level of the configuration offers.  Beside an in-memory
\* key, even a garbled one, the key file is not looked at; an unreadable or
\* garbled file offers none.
Offers(key, f, password) ==
  (IF key = "none" /\ f # NoFile /\ file[f].has = "key"
     THEN {[of |-> f, at |-> file[f].stamp]} ELSE {})
    \cup (IF key = "valid" \/ password THEN {Fixed} ELSE {})

\* The gateway's own credentials, else the shared ones.
getAuthMethods(g) ==
  LET own == Offers(OwnKey[g], OwnFile[g], g \in Passwords)
  IN IF own # {} THEN own ELSE Offers(SharedKey, SharedFile, SharedPassword)

\* What os.Stat makes of a key file that is configured and on disk.
StatOf(f) == [of |-> f, at |-> file[f].stamp]
OnDisk(f) == f # NoFile /\ file[f].has # "nothing"

\* Mutant: only a stamp that went backwards counts as a change.
KeyWentBack(a, f) ==
  OnDisk(f) /\ stamped[a] # NoStamp /\ stamped[a].of = f /\ file[f].stamp < stamped[a].at

\* The file was stamped when the connection to a was dialled and has
\* another stamp now.  clientKeyFiles is never read: the stamp compared may
\* be that of another gateway's file.
KeyChanged(a, f) == OnDisk(f) /\ stamped[a] # NoStamp /\ stamped[a] # StatOf(f)

Holders(c) == {w \in Worker : client[w] = c}
IsFree(c) == conn[c].state = "free"
IsOpen(c) == conn[c].state = "open"
Sessions(c) == {w \in Worker : pc[w] = "run" /\ client[w] = c}

\* What Client.Close leaves of c; its slot is free if nobody keeps it.
Shut(c, keepers) == IF keepers = {} THEN Free ELSE [conn[c] EXCEPT !.state = "shut"]

\* A worker forgets its client: a closed one that nobody else holds is gone.
Forgotten(w) ==
  LET c == client[w]
  IN IF c # NoConn /\ conn[c].state = "shut" /\ Holders(c) = {w}
       THEN [conn EXCEPT ![c] = Free] ELSE conn

Init ==
  /\ file \in [File -> {[has |-> "key", stamp |-> 0]}]
  /\ up = Addr
  /\ conn = [c \in Conn |-> Free]
  /\ pool = [a \in Addr |-> NoConn]
  /\ stamped = [a \in Addr |-> NoStamp]
  /\ mu = Nobody
  /\ pc = [w \in Worker |-> "idle"]
  /\ gw = [w \in Worker |-> NoGateway]
  /\ client = [w \in Worker |-> NoConn]
  /\ offered = [w \in Worker |-> {}]
  /\ again = [w \in Worker |-> FALSE]
  /\ calm = Addr
  /\ overtaken = {}

-----------------------------------------------------------------------------
(* RunScan. *)

\* RunScan returns; the connection stays in the pool.
Return(w) ==
  /\ pc' = [pc EXCEPT ![w] = "idle"]
  /\ conn' = Forgotten(w)
  /\ client' = [client EXCEPT ![w] = NoConn]
  /\ gw' = [gw EXCEPT ![w] = NoGateway]
  /\ offered' = [offered EXCEPT ![w] = {}]
  /\ again' = [again EXCEPT ![w] = FALSE]

\* RunScan is called for a network or a host that a gateway serves.
RunScan(w, target) ==
  /\ pc[w] = "idle"
  /\ findScannerConfig(target) \in Gateway
  /\ gw' = [gw EXCEPT ![w] = findScannerConfig(target)]
  /\ pc' = [pc EXCEPT ![w] = "get"]
  /\ UNCHANGED <<env, conn, pool, stamped, mu, client, offered, again, calm, overtaken>>

\* getClient, a connection is pooled and its key has not changed.
GetPooled(w) ==
  LET a == AddrOf[gw[w]] IN
  /\ pc[w] = "get" /\ mu = Nobody
  /\ ~KeyChanged(a, getKeyFileForScanner(gw[w]))
  /\ pool[a] # NoConn
  /\ client' = [client EXCEPT ![w] = pool[a]]
  /\ pc' = [pc EXCEPT ![w] = "session"]
  /\ UNCHANGED <<env, conn, pool, stamped, mu, calm, overtaken, locals>>

\* Mutant: the connection is forgotten without being closed.
Leak(a) ==
  /\ pool' = [pool EXCEPT ![a] = NoConn]
  /\ stamped' = IF pool[a] = NoConn THEN stamped ELSE [stamped EXCEPT ![a] = NoStamp]
  /\ UNCHANGED conn

\* The connection of a is closed and forgotten, whoever uses it.
Drop(a) ==
  IF pool[a] = NoConn
    THEN UNCHANGED <<conn, pool, stamped>>
    ELSE /\ conn' = [conn EXCEPT ![pool[a]] = Shut(pool[a], Holders(pool[a]))]
         /\ pool' = [pool EXCEPT ![a] = NoConn]
         /\ stamped' = [stamped EXCEPT ![a] = NoStamp]

\* getClient, no connection to use: the pooled one is recycled if its key
\* changed.  With credentials the mutex is kept for as long as the dial takes.
GetNew(w) ==
  LET a == AddrOf[gw[w]]
      methods == getAuthMethods(gw[w]) IN
  /\ pc[w] = "get" /\ mu = Nobody
  /\ pool[a] = NoConn \/ KeyChanged(a, getKeyFileForScanner(gw[w]))
  /\ Drop(a)
  /\ methods # {}
  /\ mu' = w
  /\ offered' = [offered EXCEPT ![w] = methods]
  /\ pc' = [pc EXCEPT ![w] = "dial"]
  /\ overtaken' = overtaken \ {a}
  /\ UNCHANGED <<env, gw, client, again, calm>>

\* getClient, no credential can be read: RunScan fails.
GetFails(w) ==
  LET a == AddrOf[gw[w]] IN
  /\ pc[w] = "get" /\ mu = Nobody
  /\ pool[a] = NoConn \/ KeyChanged(a, getKeyFileForScanner(gw[w]))
  /\ Drop(a)
  /\ getAuthMethods(gw[w]) = {}
  /\ pc' = [pc EXCEPT ![w] = "giveup"]
  /\ UNCHANGED <<env, gw, mu, client, offered, again, calm, overtaken>>

\* The error is wrapped and returned.
GiveUp(w) ==
  /\ pc[w] = "giveup"
  /\ Return(w)
  /\ UNCHANGED <<env, pool, stamped, mu, calm, overtaken>>

\* ssh.Dial succeeds: the connection is pooled under the stamp the key file
\* has by now, and the mutex is released.
DialOk(w) ==
  LET a == AddrOf[gw[w]]
      f == getKeyFileForScanner(gw[w]) IN
  /\ pc[w] = "dial" /\ mu = w
  /\ a \in up
  /\ \E c \in Conn : IsFree(c)
  /\ LET c == CHOOSE c \in Conn : IsFree(c) IN
       /\ conn' = [conn EXCEPT ![c] = [addr |-> a, using |-> offered[w], state |-> "open"]]
       /\ pool' = [pool EXCEPT ![a] = c]
       /\ client' = [client EXCEPT ![w] = c]
  /\ stamped' = IF OnDisk(f) THEN [stamped EXCEPT ![a] = StatOf(f)] ELSE stamped
  /\ mu' = Nobody
  /\ pc' = [pc EXCEPT ![w] = "session"]
  /\ offered' = [offered EXCEPT ![w] = {}]
  /\ UNCHANGED <<env, gw, again, calm, overtaken>>

\* ssh.Dial fails: the gateway does not answer or refuses the credentials,
\* which it only does after a change.
DialFails(w) ==
  LET a == AddrOf[gw[w]] IN
  /\ pc[w] = "dial" /\ mu = w
  /\ a \notin calm
  /\ mu' = Nobody
  /\ pc' = [pc EXCEPT ![w] = "giveup"]
  /\ UNCHANGED <<env, conn, pool, stamped, client, calm, overtaken, locals>>

\* NewSession on an open connection with room.
NewSession(w) ==
  /\ pc[w] = "session"
  /\ IsOpen(client[w])
  /\ Cardinality(Sessions(client[w])) < SessionLimit
  /\ pc' = [pc EXCEPT ![w] = "run"]
  /\ UNCHANGED <<env, conn, pool, stamped, mu, client, calm, overtaken, locals>>

\* Mutant: a refused session is retried for as long as it is refused.
SessionRetries(w) ==
  /\ pc[w] = "session"
  /\ ~IsOpen(client[w]) \/ Cardinality(Sessions(client[w])) >= SessionLimit
  /\ pc' = [pc EXCEPT ![w] = "remove"]
  /\ calm' = IF IsOpen(client[w]) THEN calm \ {AddrOf[gw[w]]} ELSE calm
  /\ UNCHANGED <<env, conn, pool, stamped, mu, client, overtaken, locals>>

\* NewSession fails on a connection that is shut, lost or full.  The first
\* time the connection is taken for stale, the second time RunScan fails.
SessionFails(w) ==
  /\ pc[w] = "session"
  /\ ~IsOpen(client[w]) \/ Cardinality(Sessions(client[w])) >= SessionLimit
  /\ pc' = [pc EXCEPT ![w] = IF again[w] THEN "giveup" ELSE "remove"]
  /\ calm' = IF IsOpen(client[w]) THEN calm \ {AddrOf[gw[w]]} ELSE calm
  /\ UNCHANGED <<env, conn, pool, stamped, mu, client, overtaken, locals>>

\* removeClient closes whatever connection is pooled for the address.
removeClient(w) ==
  LET a == AddrOf[gw[w]]
      c == pool[a] IN
  /\ pc[w] = "remove" /\ mu = Nobody
  /\ conn' = IF c = NoConn THEN Forgotten(w)
             ELSE [Forgotten(w) EXCEPT ![c] = Shut(c, Holders(c) \ {w})]
  /\ pool' = [pool EXCEPT ![a] = NoConn]
  /\ stamped' = IF c = NoConn THEN stamped ELSE [stamped EXCEPT ![a] = NoStamp]
  /\ client' = [client EXCEPT ![w] = NoConn]
  /\ again' = [again EXCEPT ![w] = TRUE]
  /\ pc' = [pc EXCEPT ![w] = "get"]
  /\ UNCHANGED <<env, mu, gw, offered, calm, overtaken>>

\* Mutant: the connection is closed with the session of the scan.
RunEndsAndCloses(w) ==
  LET a == AddrOf[gw[w]] IN
  /\ pc[w] = "run" /\ IsOpen(client[w])
  /\ pc' = [pc EXCEPT ![w] = "idle"]
  /\ conn' = [conn EXCEPT ![client[w]] = Shut(client[w], Holders(client[w]) \ {w})]
  /\ pool' = [pool EXCEPT ![a] = NoConn]
  /\ stamped' = [stamped EXCEPT ![a] = NoStamp]
  /\ client' = [client EXCEPT ![w] = NoConn]
  /\ gw' = [gw EXCEPT ![w] = NoGateway]
  /\ again' = [again EXCEPT ![w] = FALSE]
  /\ UNCHANGED <<env, mu, offered, calm, overtaken>>

\* nmap ends while the connection lives: with a report, with an error of its
\* own, or killed because the scan is cancelled, which is noticed only here.
RunEnds(w) ==
  /\ pc[w] = "run"
  /\ IsOpen(client[w])
  /\ Return(w)
  /\ UNCHANGED <<env, pool, stamped, mu, calm, overtaken>>

\* The connection under the session goes: Run fails with nothing read.
RunBreaks(w) ==
  /\ pc[w] = "run"
  /\ ~IsOpen(client[w])
  /\ Return(w)
  /\ UNCHANGED <<env, pool, stamped, mu, calm, overtaken>>

-----------------------------------------------------------------------------
(* What happens around it. *)

\* A key file is replaced, garbled or removed.
WriteKey(f) ==
  /\ file[f].stamp < MaxWrites
  /\ \E contents \in {"key", "garbled", "nothing"} :
       file' = [file EXCEPT ![f] = [has |-> contents, stamp |-> @.stamp + 1]]
  /\ calm' = {}
  /\ overtaken' = overtaken \cup {AddrOf[gw[w]] : w \in {v \in Worker : pc[v] = "dial"}}
  /\ UNCHANGED <<up, conn, pool, stamped, mu, pc, client, locals>>

\* A gateway goes away with its connections, or comes back.
GatewayDown(a) ==
  /\ a \in up
  /\ up' = up \ {a}
  /\ calm' = calm \ {a}
  /\ conn' = [c \in Conn |-> IF IsOpen(c) /\ conn[c].addr = a
                               THEN [conn[c] EXCEPT !.state = "lost"] ELSE conn[c]]
  /\ UNCHANGED <<file, pool, stamped, mu, pc, client, overtaken, locals>>

GatewayUp(a) ==
  /\ a \notin up
  /\ up' = up \cup {a}
  /\ UNCHANGED <<file, conn, pool, stamped, mu, pc, client, calm, overtaken, locals>>

\* The command line closes the pool once its scans are over; the stamps stay.
Close ==
  /\ \A w \in Worker : pc[w] = "idle"
  /\ \E a \in Addr : pool[a] # NoConn
  /\ conn' = [c \in Conn |-> IF \E a \in Addr : pool[a] = c THEN Free ELSE conn[c]]
  /\ pool' = [a \in Addr |-> NoConn]
  /\ UNCHANGED <<env, stamped, mu, pc, client, calm, overtaken, locals>>

getClient(w) == GetPooled(w) \/ GetNew(w) \/ GetFails(w)
Dial(w) == DialOk(w) \/ DialFails(w)
Session(w) == NewSession(w) \/ SessionFails(w)
Run(w) == RunEnds(w) \/ RunBreaks(w)

Step(w) == getClient(w) \/ Dial(w) \/ GiveUp(w) \/ Session(w) \/ removeClient(w) \/ Run(w)

Next ==
  \/ \E w \in Worker :
       \/ \E t \in Network \cup UNION {Hosts[n] : n \in Network} : RunScan(w, t)
       \/ Step(w)
  \/ \E f \in File : WriteKey(f)
  \/ \E a \in Addr : GatewayDown(a) \/ GatewayUp(a)
  \/ Close

Spec == Init /\ [][Next]_vars

\* Go's mutex is handed to a waiter that starves; a dial, a session and nmap
\* end one way or the other.
Fairness ==
  \A w \in Worker :
    /\ SF_vars(getClient(w)) /\ SF_vars(removeClient(w))
    /\ WF_vars(Dial(w)) /\ WF_vars(GiveUp(w)) /\ WF_vars(Session(w)) /\ WF_vars(Run(w))

FairSpec == Spec /\ Fairness

-----------------------------------------------------------------------------
Pooled == {pool[a] : a \in Addr} \ {NoConn}

\* The pool (SSHRunner.clients) holds every connection that is not closed,
\* and no closed one, each under its own address: no connection leaks, none
\* is handed out after Close, and a gateway has at most one, however getClient,
\* removeClient and key rotation interleave.
OneConnectionPerGateway ==
  /\ \A a \in Addr : pool[a] # NoConn =>
       conn[pool[a]].addr = a /\ conn[pool[a]].state \in {"open", "lost"}
  /\ \A c \in Conn \ Pooled : conn[c].state \in {"free", "shut"}

\* What getClient hands out of the pool was dialled with the key on disk.
HandsOutCurrentKey(w) ==
  LET a == AddrOf[gw[w]]
      f == getKeyFileForScanner(gw[w])
  IN GetPooled(w) => a \in overtaken \/ \A k \in conn[pool[a]].using :
                                          k.of = f /\ OnDisk(f) => k = StatOf(f)

\* A scan that is given a pooled connection gets one that was opened with the
\* key its gateway's file holds now ("check if file on disk was modified
\* since connection established").  The exception is a file that changed
\* while the connection was being dialled: the stamp is taken after the dial.
RotatedKeyIsDropped == [][\A w \in Worker : HandsOutCurrentKey(w)]_vars

\* While a gateway answers, takes all sessions and its keys are left alone,
\* no scan through it fails or loses its connection: the scans that share
\* the connection never disturb each other by starting, ending or being
\* cancelled.
HealthyGatewaysServe ==
  [][\A w \in Worker : GiveUp(w) \/ RunBreaks(w) => AddrOf[gw[w]] \notin calm]_vars

\* Every RunScan returns, also when others hold the mutex, when its session
\* is refused time and again, or when its connection is closed under it: it
\* tries twice and no more.
EveryScanReturns == \A w \in Worker : pc[w] # "idle" ~> pc[w] = "idle"

\* "Connection might be stale, retry once" (removeClient): what is removed
\* is the connection whose session failed.  It is not: by then the pool may
\* hold a new one that other scans run over.
RemovesTheStaleOne ==
  [][\A w \in Worker : removeClient(w) => pool[AddrOf[gw[w]]] \in {client[w], NoConn}]_vars
=============================================================================

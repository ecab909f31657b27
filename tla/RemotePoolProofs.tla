--------------------------- MODULE RemotePoolProofs ---------------------------
(***************************************************************************)
(* Theorems of RemotePool, for any number of scans, gateways, key files    *)
(* and connections.                                                        *)
(***************************************************************************)
EXTENDS RemotePool, TLAPS

TypeOK ==
  /\ file \in [File -> [has: {"key", "garbled", "nothing"}, stamp: 0..MaxWrites]]
  /\ up \in SUBSET Addr
  /\ conn \in [Conn -> Line]
  /\ pool \in [Addr -> Conn \cup {NoConn}]
  /\ stamped \in [Addr -> Stamp \cup {NoStamp}]
  /\ mu \in Worker \cup {Nobody}
  /\ pc \in [Worker -> {"idle", "get", "dial", "session", "remove", "run", "giveup"}]
  /\ gw \in [Worker -> Gateway \cup {NoGateway}]
  /\ client \in [Worker -> Conn \cup {NoConn}]
  /\ offered \in [Worker -> SUBSET Credential]
  /\ again \in [Worker -> BOOLEAN]
  /\ calm \in SUBSET Addr
  /\ overtaken \in SUBSET Addr

\* A RunScan that has begun knows its gateway.
Targeted == \A w \in Worker : pc[w] # "idle" => gw[w] \in Gateway

\* SSHRunner.mu is held by the worker that dials and only by it, and it
\* found no connection for its gateway.
Dialling ==
  \A w \in Worker : /\ pc[w] = "dial" <=> mu = w
                    /\ pc[w] = "dial" => pool[AddrOf[gw[w]]] = NoConn

\* A worker holds a client exactly from getClient to its return, one that
\* was dialled for its gateway.
Holding ==
  \A w \in Worker :
    /\ pc[w] \in {"idle", "get", "dial"} => client[w] = NoConn
    /\ pc[w] \in {"session", "remove", "run"} => client[w] # NoConn
    /\ client[w] # NoConn => /\ conn[client[w]].state # "free"
                             /\ conn[client[w]].addr = AddrOf[gw[w]]

IInv == TypeOK /\ Targeted /\ Dialling /\ Holding /\ OneConnectionPerGateway

-----------------------------------------------------------------------------
LEMMA FreeIsALine == Free \in Line
BY DEF Free, Line

LEMMA Constants ==
  /\ AddrOf \in [Gateway -> Addr]
  /\ OwnFile \in [Gateway -> File \cup {NoFile}] /\ SharedFile \in File \cup {NoFile}
  /\ NoFile \notin File /\ NoConn \notin Conn /\ NoAddr \notin Addr
  /\ NoGateway \notin Gateway /\ Nobody \notin Worker /\ MaxWrites \in Nat
BY PoolAssumption DEF PoolAssumption

(* What Client.Close leaves is a connection that is shut, or a free slot. *)
LEMMA ShutIsALine ==
  ASSUME TypeOK, NEW c \in Conn, NEW keepers
  PROVE  /\ Shut(c, keepers) \in Line
         /\ Shut(c, keepers).state \in {"free", "shut"}
         /\ keepers # {} => /\ Shut(c, keepers).state = "shut"
                            /\ Shut(c, keepers).addr = conn[c].addr
BY FreeIsALine DEF TypeOK, Shut, Line, Free

(* getAuthMethods reads credentials, from files that are configured. *)
LEMMA MethodsAreCredentials ==
  ASSUME TypeOK, NEW g \in Gateway
  PROVE  getAuthMethods(g) \in SUBSET Credential
<1>1. ASSUME NEW f \in File \cup {NoFile}, NEW key, NEW b \in BOOLEAN
      PROVE  Offers(key, f, b) \in SUBSET Credential
  BY <1>1, Constants DEF TypeOK, Offers, Credential, Stamp, Fixed
<1>2. OwnFile[g] \in File \cup {NoFile} /\ (g \in Passwords) \in BOOLEAN /\ SharedPassword \in BOOLEAN
  BY PoolAssumption DEF PoolAssumption
<1>3. QED
  BY <1>1, <1>2, Constants DEF getAuthMethods

(* The connections without the one a worker forgets when it returns. *)
LEMMA ForgottenKeeps ==
  ASSUME IInv, NEW w \in Worker
  PROVE  /\ Forgotten(w) \in [Conn -> Line]
         /\ \A c \in Conn : Forgotten(w)[c] = conn[c] \/
              (conn[c].state = "shut" /\ Holders(c) = {w} /\ Forgotten(w)[c] = Free)
BY FreeIsALine, Constants DEF IInv, TypeOK, Forgotten

(* A return keeps the invariant, from wherever RunScan returns. *)
LEMMA ReturnKeeps ==
  ASSUME IInv, NEW w \in Worker, pc[w] # "dial", Return(w),
         UNCHANGED <<env, pool, stamped, mu, calm, overtaken>>
  PROVE  IInv'
<1> USE DEF Return
<1>1. TypeOK'
  BY ForgottenKeeps DEF IInv, TypeOK, env
<1>2. Targeted' /\ Dialling'
  BY DEF IInv, TypeOK, Targeted, Dialling
<1>3. \A v \in Worker : client'[v] = client[v] /\ client[v] \in Conn => conn'[client[v]] = conn[client[v]] \/ v = w
  BY ForgottenKeeps DEF IInv, TypeOK, Holders
<1>4. Holding'
  <2> SUFFICES ASSUME NEW v \in Worker PROVE Holding!(v)'
    BY DEF Holding
  <2>1. CASE v = w
    BY <2>1 DEF IInv, TypeOK, Holding
  <2>2. CASE v # w
    BY <2>2, <1>3 DEF IInv, TypeOK, Holding
  <2>3. QED
    BY <2>1, <2>2
<1>5. OneConnectionPerGateway'
  <2>1. \A c \in Conn : conn'[c] = conn[c] \/ (conn[c].state = "shut" /\ conn'[c].state = "free")
    BY ForgottenKeeps DEF Free
  <2>2. Pooled' = Pooled
    BY DEF Pooled
  <2>3. QED
    BY <2>1, <2>2 DEF IInv, TypeOK, OneConnectionPerGateway
<1>6. QED
  BY <1>1, <1>2, <1>4, <1>5 DEF IInv

(* Dropping the connection of an address whose mutex is free: it is closed  *)
(* for whoever uses it, and no other connection is touched.                 *)
LEMMA DropKeeps ==
  ASSUME IInv, NEW a \in Addr, Drop(a)
  PROVE  /\ conn' \in [Conn -> Line]
         /\ pool' = [pool EXCEPT ![a] = NoConn]
         /\ stamped' \in [Addr -> Stamp \cup {NoStamp}]
         /\ \A c \in Conn : conn'[c] = conn[c] \/
              (c = pool[a] /\ conn'[c].state \in {"free", "shut"})
         /\ pool[a] # NoConn => conn'[pool[a]].state \in {"free", "shut"}
         /\ \A w \in Worker : client[w] # NoConn =>
              conn'[client[w]].state # "free" /\ conn'[client[w]].addr = conn[client[w]].addr
<1> DEFINE c == pool[a]
<1>1. CASE c = NoConn
  BY <1>1 DEF IInv, TypeOK, Drop, Holding
<1>2. CASE c # NoConn
  <2>1. /\ c \in Conn
        /\ conn' = [conn EXCEPT ![c] = Shut(c, Holders(c))]
        /\ pool' = [pool EXCEPT ![a] = NoConn]
        /\ stamped' = [stamped EXCEPT ![a] = NoStamp]
    BY <1>2 DEF IInv, TypeOK, Drop
  <2>2. /\ Shut(c, Holders(c)) \in Line
        /\ Shut(c, Holders(c)).state \in {"free", "shut"}
        /\ Holders(c) # {} => /\ Shut(c, Holders(c)).state = "shut"
                              /\ Shut(c, Holders(c)).addr = conn[c].addr
    BY <2>1, ShutIsALine DEF IInv
  <2>3. \A w \in Worker : client[w] = c => w \in Holders(c)
    BY DEF Holders
  <2> HIDE DEF c
  <2>4. \A w \in Worker : client[w] # NoConn =>
          conn'[client[w]].state # "free" /\ conn'[client[w]].addr = conn[client[w]].addr
    BY <2>1, <2>2, <2>3 DEF IInv, TypeOK, Holding
  <2>5. QED
    BY <2>1, <2>2, <2>4 DEF IInv, TypeOK, c
<1>3. QED
  BY <1>1, <1>2

(* getClient without a connection to use: with or without credentials, the  *)
(* recycled connection is closed and out of the pool.                       *)
LEMMA GetKeeps ==
  ASSUME IInv, NEW w \in Worker, GetNew(w) \/ GetFails(w)
  PROVE  IInv'
<1> DEFINE a == AddrOf[gw[w]]
<1>1. /\ pc[w] = "get" /\ mu = Nobody /\ Drop(a) /\ gw[w] \in Gateway /\ a \in Addr
      /\ UNCHANGED <<env, gw, client, again, calm>>
      /\ overtaken' \in {overtaken, overtaken \ {a}}
  BY Constants DEF GetNew, GetFails, IInv, TypeOK, Targeted
<1>2. \/ /\ mu' = w /\ pc' = [pc EXCEPT ![w] = "dial"]
         /\ offered' = [offered EXCEPT ![w] = getAuthMethods(gw[w])]
      \/ /\ mu' = mu /\ pc' = [pc EXCEPT ![w] = "giveup"] /\ offered' = offered
  BY DEF GetNew, GetFails
<1>3. \A v \in Worker : pc[v] # "dial"
  BY <1>1, Constants DEF IInv, Dialling
<1>4. TypeOK'
  <2>1. conn' \in [Conn -> Line] /\ stamped' \in [Addr -> Stamp \cup {NoStamp}]
    BY <1>1, DropKeeps
  <2>2. pool' \in [Addr -> Conn \cup {NoConn}]
    BY <1>1, DropKeeps DEF IInv, TypeOK
  <2>3. offered' \in [Worker -> SUBSET Credential]
    BY <1>1, <1>2, MethodsAreCredentials DEF IInv, TypeOK
  <2>4. overtaken' \in SUBSET Addr
    BY <1>1 DEF IInv, TypeOK
  <2>5. QED
    BY <1>1, <1>2, <2>1, <2>2, <2>3, <2>4 DEF IInv, TypeOK, env
<1>5. Targeted'
  BY <1>1, <1>2 DEF IInv, TypeOK, Targeted
<1>6. Dialling'
  <2>1. pool'[a] = NoConn
    BY <1>1, DropKeeps DEF IInv, TypeOK
  <2>2. QED
    BY <1>1, <1>2, <1>3, <2>1, Constants DEF IInv, TypeOK, Dialling
<1>7. Holding'
  BY <1>1, <1>2, DropKeeps DEF IInv, TypeOK, Holding
<1>8. OneConnectionPerGateway'
  <2>1. \A b \in Addr : b # a => pool[b] # pool[a] \/ pool[b] = NoConn
    BY <1>1 DEF IInv, TypeOK, OneConnectionPerGateway
  <2>2. \A b \in Addr : pool'[b] = IF b = a THEN NoConn ELSE pool[b]
    BY <1>1, DropKeeps DEF IInv, TypeOK
  <2>3. \A b \in Addr : pool'[b] # NoConn => conn'[pool'[b]] = conn[pool[b]] /\ b # a
    BY <1>1, <2>1, <2>2, DropKeeps DEF IInv, TypeOK
  <2>4. \A c \in Conn \ Pooled' : c \notin Pooled \/ c = pool[a]
    BY <2>2, <1>1 DEF IInv, TypeOK, Pooled
  <2>5. \A c \in Conn \ Pooled' : conn'[c].state \in {"free", "shut"}
    BY <1>1, <2>4, DropKeeps, Constants DEF IInv, TypeOK, OneConnectionPerGateway
  <2>6. QED
    BY <2>2, <2>3, <2>5 DEF IInv, OneConnectionPerGateway
<1>9. QED
  BY <1>4, <1>5, <1>6, <1>7, <1>8 DEF IInv

(* A dialled connection is the first of its address: whoever else wanted    *)
(* one was kept waiting by the mutex.                                       *)
LEMMA DialKeeps ==
  ASSUME IInv, NEW w \in Worker, DialOk(w)
  PROVE  IInv'
<1> DEFINE a == AddrOf[gw[w]]
           f == getKeyFileForScanner(gw[w])
           c == CHOOSE x \in Conn : IsFree(x)
<1>1. /\ pc[w] = "dial" /\ mu = w /\ gw[w] \in Gateway /\ a \in Addr
      /\ c \in Conn /\ IsFree(c)
      /\ conn' = [conn EXCEPT ![c] = [addr |-> a, using |-> offered[w], state |-> "open"]]
      /\ pool' = [pool EXCEPT ![a] = c]
      /\ client' = [client EXCEPT ![w] = c]
      /\ stamped' = IF OnDisk(f) THEN [stamped EXCEPT ![a] = StatOf(f)] ELSE stamped
      /\ mu' = Nobody
      /\ pc' = [pc EXCEPT ![w] = "session"]
      /\ offered' = [offered EXCEPT ![w] = {}]
      /\ UNCHANGED <<file, up, gw, again, calm, overtaken>>
  BY Constants DEF DialOk, IInv, TypeOK, Targeted, env
<1>2. f \in File \cup {NoFile}
  BY <1>1, Constants DEF getKeyFileForScanner
<1>3. pool[a] = NoConn
  BY <1>1 DEF IInv, Dialling
<1> HIDE DEF a, f, c
<1>4. TypeOK'
  <2>1. OnDisk(f) => StatOf(f) \in Stamp
    BY <1>2 DEF IInv, TypeOK, OnDisk, StatOf, Stamp
  <2>2. [addr |-> a, using |-> offered[w], state |-> "open"] \in Line
    BY <1>1 DEF IInv, TypeOK, Line
  <2>3. QED
    BY <1>1, <2>1, <2>2 DEF IInv, TypeOK
<1>5. Targeted' /\ Dialling'
  <2>1. \A v \in Worker : v # w => pc[v] # "dial"
    BY <1>1 DEF IInv, Dialling
  <2>2. QED
    BY <1>1, <2>1, Constants DEF IInv, TypeOK, Targeted, Dialling
<1>6. \A v \in Worker : client[v] # c
  BY <1>1, Constants DEF IInv, Holding, IsFree
<1>7. Holding'
  <2> SUFFICES ASSUME NEW v \in Worker PROVE Holding!(v)'
    BY DEF Holding
  <2>1. CASE v = w
    BY <1>1, <2>1, Constants DEF IInv, TypeOK, Holding, a
  <2>2. CASE v # w
    BY <1>1, <1>6, <2>2 DEF IInv, TypeOK, Holding
  <2>3. QED
    BY <2>1, <2>2
<1>8. OneConnectionPerGateway'
  <2>1. \A b \in Addr : pool[b] # c
    BY <1>1, Constants DEF IInv, OneConnectionPerGateway, IsFree
  <2>2. \A x \in Conn \ Pooled' : x # c /\ x \notin Pooled
    BY <1>1, <1>3, Constants DEF IInv, TypeOK, Pooled
  <2>3. QED
    BY <1>1, <2>1, <2>2 DEF IInv, TypeOK, OneConnectionPerGateway
<1>9. QED
  BY <1>4, <1>5, <1>7, <1>8 DEF IInv

(* removeClient closes the pooled connection, its own or another's.         *)
LEMMA RemoveKeeps ==
  ASSUME IInv, NEW w \in Worker, removeClient(w)
  PROVE  IInv'
<1> DEFINE a == AddrOf[gw[w]]
           c == pool[a]
           s == Shut(c, Holders(c) \ {w})
<1>1. /\ pc[w] = "remove" /\ mu = Nobody /\ gw[w] \in Gateway /\ a \in Addr
      /\ conn' = IF c = NoConn THEN Forgotten(w) ELSE [Forgotten(w) EXCEPT ![c] = s]
      /\ pool' = [pool EXCEPT ![a] = NoConn]
      /\ stamped' = IF c = NoConn THEN stamped ELSE [stamped EXCEPT ![a] = NoStamp]
      /\ client' = [client EXCEPT ![w] = NoConn]
      /\ again' = [again EXCEPT ![w] = TRUE]
      /\ pc' = [pc EXCEPT ![w] = "get"]
      /\ UNCHANGED <<file, up, mu, gw, offered, calm, overtaken>>
  BY Constants DEF removeClient, IInv, TypeOK, Targeted, env
<1>2. c \in Conn \cup {NoConn}
  BY <1>1 DEF IInv, TypeOK
<1>3. c # NoConn => /\ s \in Line /\ s.state \in {"free", "shut"}
                    /\ Holders(c) \ {w} # {} => s.state = "shut" /\ s.addr = conn[c].addr
  BY <1>2, ShutIsALine DEF IInv
<1>4. \A v \in Worker : v # w /\ client[v] = c => v \in Holders(c) \ {w}
  BY DEF Holders
<1>5. \A b \in Addr : b # a => pool[b] # c \/ pool[b] = NoConn
  BY <1>1 DEF IInv, TypeOK, OneConnectionPerGateway
<1> HIDE DEF a, c, s
<1>6. TypeOK'
  BY <1>1, <1>2, <1>3, ForgottenKeeps DEF IInv, TypeOK
<1>7. Targeted' /\ Dialling'
  BY <1>1, Constants DEF IInv, TypeOK, Targeted, Dialling
<1>8. Holding'
  <2> SUFFICES ASSUME NEW v \in Worker PROVE Holding!(v)'
    BY DEF Holding
  <2>1. CASE v = w
    BY <1>1, <2>1 DEF IInv, TypeOK, Holding
  <2>2. CASE v # w
    <3>1. client'[v] = client[v] /\ pc'[v] = pc[v] /\ gw'[v] = gw[v]
      BY <1>1, <2>2 DEF IInv, TypeOK
    <3>2. client[v] # NoConn => conn'[client[v]].state # "free" /\ conn'[client[v]].addr = conn[client[v]].addr
      <4>1. client[v] \in Conn => Forgotten(w)[client[v]] = conn[client[v]]
        BY <2>2, ForgottenKeeps DEF Holders
      <4>2. CASE client[v] # c
        BY <1>1, <1>2, <4>1, <4>2, ForgottenKeeps DEF IInv, TypeOK, Holding
      <4>3. CASE client[v] = c
        BY <1>1, <1>2, <1>3, <1>4, <2>2, <4>3, ForgottenKeeps DEF IInv, TypeOK, Holding
      <4>4. QED
        BY <4>2, <4>3
    <3>3. QED
      BY <3>1, <3>2 DEF IInv, Holding
  <2>3. QED
    BY <2>1, <2>2
<1>9. OneConnectionPerGateway'
  <2>1. \A b \in Addr : pool'[b] # NoConn => b # a /\ pool'[b] = pool[b] /\ pool[b] # c
    BY <1>1, <1>5 DEF IInv, TypeOK
  <2>2. \A x \in Conn : x # c => conn'[x] = conn[x] \/ (conn[x].state = "shut" /\ conn'[x].state = "free")
    BY <1>1, <1>2, ForgottenKeeps DEF Free, IInv, TypeOK
  <2>3. c # NoConn => conn'[c].state \in {"free", "shut"}
    BY <1>1, <1>2, <1>3, ForgottenKeeps
  <2>4. \A x \in Conn \ Pooled' : x \notin Pooled \/ x = c
    BY <1>1, Constants DEF IInv, TypeOK, Pooled, c
  <2>5. \A b \in Addr : pool'[b] # NoConn =>
          conn'[pool'[b]].addr = b /\ conn'[pool'[b]].state \in {"open", "lost"}
    BY <2>1, <2>2 DEF IInv, TypeOK, OneConnectionPerGateway
  <2>6. \A x \in Conn \ Pooled' : conn'[x].state \in {"free", "shut"}
    BY <2>2, <2>3, <2>4, Constants DEF IInv, OneConnectionPerGateway
  <2>7. QED
    BY <2>5, <2>6 DEF OneConnectionPerGateway
<1>10. QED
  BY <1>6, <1>7, <1>8, <1>9 DEF IInv

(* The steps that leave the pool alone. *)
LEMMA OthersKeep ==
  ASSUME IInv, NEW w \in Worker,
         GetPooled(w) \/ DialFails(w) \/ Session(w) \/ \E t \in Network \cup UNION {Hosts[n] : n \in Network} : RunScan(w, t)
  PROVE  IInv'
<1> USE DEF IInv, TypeOK, Targeted, Dialling, Holding, OneConnectionPerGateway, Pooled, env, locals
<1>1. CASE GetPooled(w)
  BY <1>1, Constants DEF GetPooled
<1>2. CASE DialFails(w)
  BY <1>2, Constants DEF DialFails
<1>3. CASE Session(w)
  BY <1>3, Constants DEF Session, NewSession, SessionFails
<1>4. CASE \E t \in Network \cup UNION {Hosts[n] : n \in Network} : RunScan(w, t)
  BY <1>4, Constants DEF RunScan
<1>5. QED
  BY <1>1, <1>2, <1>3, <1>4

(* Key files that change and gateways that go and come. *)
LEMMA SurroundingsKeep ==
  ASSUME IInv,
         \/ \E f \in File : WriteKey(f)
         \/ \E a \in Addr : GatewayDown(a) \/ GatewayUp(a)
  PROVE  IInv'
<1> USE DEF IInv, TypeOK, Targeted, Dialling, Holding, OneConnectionPerGateway, Pooled, env, locals
<1>1. ASSUME NEW f \in File, WriteKey(f)
      PROVE  IInv'
  <2>1. file' \in [File -> [has: {"key", "garbled", "nothing"}, stamp: 0..MaxWrites]]
    BY <1>1, Constants DEF WriteKey
  <2>2. overtaken' \in SUBSET Addr
    BY <1>1, Constants DEF WriteKey
  <2>3. QED
    BY <1>1, <2>1, <2>2, Constants DEF WriteKey
<1>2. ASSUME NEW a \in Addr, GatewayDown(a)
      PROVE  IInv'
  <2>1. \A c \in Conn : conn'[c] \in Line /\ conn'[c].addr = conn[c].addr
                        /\ (conn'[c].state = conn[c].state \/ (conn[c].state = "open" /\ conn'[c].state = "lost"))
    <3> SUFFICES ASSUME NEW c \in Conn
                 PROVE  /\ conn'[c] \in Line /\ conn'[c].addr = conn[c].addr
                        /\ conn'[c].state = conn[c].state \/ (conn[c].state = "open" /\ conn'[c].state = "lost")
      OBVIOUS
    <3>1. conn'[c] = conn[c] \/ (conn[c].state = "open" /\ conn'[c] = [conn[c] EXCEPT !.state = "lost"])
      BY <1>2 DEF GatewayDown, IsOpen
    <3>2. conn[c] \in Line
      OBVIOUS
    <3>3. QED
      BY <3>1, <3>2 DEF Line
  <2>2. conn' \in [Conn -> Line]
    BY <1>2, <2>1 DEF GatewayDown
  <2>3. QED
    BY <1>2, <2>1, <2>2, Constants DEF GatewayDown
<1>3. ASSUME NEW a \in Addr, GatewayUp(a)
      PROVE  IInv'
  BY <1>3, Constants DEF GatewayUp
<1>4. QED
  BY <1>1, <1>2, <1>3

(* Close empties the pool when nothing runs over it. *)
LEMMA CloseKeeps ==
  ASSUME IInv, Close
  PROVE  IInv'
<1>1. \A w \in Worker : pc[w] = "idle" /\ client[w] = NoConn
  BY DEF Close, IInv, Holding
<1>2. conn' \in [Conn -> Line]
  BY FreeIsALine DEF Close, IInv, TypeOK
<1>3. TypeOK' /\ Targeted' /\ Dialling' /\ Holding'
  BY <1>1, <1>2 DEF Close, IInv, TypeOK, Targeted, Dialling, Holding, env, locals
<1>4. \A c \in Conn : conn'[c].state \in {"free", "shut"}
  BY Constants DEF Close, IInv, TypeOK, OneConnectionPerGateway, Pooled, Free
<1>5. OneConnectionPerGateway'
  BY <1>4 DEF Close, OneConnectionPerGateway
<1>6. QED
  BY <1>3, <1>5 DEF IInv

LEMMA Inductive == IInv /\ [Next]_vars => IInv'
<1> SUFFICES ASSUME IInv, [Next]_vars PROVE IInv'
  OBVIOUS
<1>1. ASSUME NEW w \in Worker, Step(w) PROVE IInv'
  <2>1. CASE GetPooled(w) \/ DialFails(w) \/ Session(w)
    BY <2>1, OthersKeep
  <2>2. CASE GetNew(w) \/ GetFails(w)
    BY <2>2, GetKeeps
  <2>3. CASE DialOk(w)
    BY <2>3, DialKeeps
  <2>4. CASE GiveUp(w) \/ Run(w)
    BY <2>4, ReturnKeeps DEF GiveUp, Run, RunEnds, RunBreaks
  <2>5. CASE removeClient(w)
    BY <2>5, RemoveKeeps
  <2>6. QED
    BY <1>1, <2>1, <2>2, <2>3, <2>4, <2>5 DEF Step, getClient, Dial
<1>2. CASE UNCHANGED vars
  BY <1>2 DEF vars, locals, IInv, TypeOK, Targeted, Dialling, Holding, OneConnectionPerGateway, Pooled
<1>3. QED
  BY <1>1, <1>2, OthersKeep, SurroundingsKeep, CloseKeeps DEF Next

LEMMA Initial == Init => IInv
<1> SUFFICES ASSUME Init PROVE IInv
  OBVIOUS
<1>1. TypeOK
  BY FreeIsALine, Constants DEF Init, TypeOK
<1>2. Targeted /\ Dialling /\ Holding
  BY Constants DEF Init, Targeted, Dialling, Holding
<1>3. OneConnectionPerGateway
  BY DEF Init, OneConnectionPerGateway, Free
<1>4. QED
  BY <1>1, <1>2, <1>3 DEF IInv

(* SSHRunner.clients holds exactly the connections that are not closed, at  *)
(* most one for each gateway address, whatever order RunScan's calls, key   *)
(* rotation and failures come in.                                           *)
THEOREM PoolIsExact == Spec => []OneConnectionPerGateway
<1>1. IInv => OneConnectionPerGateway
  BY DEF IInv
<1>2. QED
  BY <1>1, Initial, Inductive, PTL DEF Spec

-----------------------------------------------------------------------------
(* Key rotation.  Two gateways at one address are expected to use the same  *)
(* key file: the stamps do not say whose file they are of.                  *)
OneKeyPerAddress ==
  \A g, h \in Gateway : AddrOf[g] = AddrOf[h] => getKeyFileForScanner(g) = getKeyFileForScanner(h)

\* The file key a gateway's connection was dialled with is the one its
\* address is stamped with.
PooledIsStamped(g) ==
  pool[AddrOf[g]] # NoConn =>
    \A k \in conn[pool[AddrOf[g]]].using :
      k.of = getKeyFileForScanner(g) /\ k.of # NoFile => stamped[AddrOf[g]] = k

\* The file key w dials g with is the one on disk.
DialIsCurrent(g, w) ==
  pc[w] = "dial" /\ AddrOf[gw[w]] = AddrOf[g] =>
    \A k \in offered[w] :
      k.of = getKeyFileForScanner(g) /\ k.of # NoFile => OnDisk(k.of) /\ k = StatOf(k.of)

\* Both hold unless the file changed during the dial.
Fresh ==
  \A g \in Gateway : AddrOf[g] \notin overtaken =>
    PooledIsStamped(g) /\ \A w \in Worker : DialIsCurrent(g, w)

LEMMA MethodsAreOnDisk ==
  ASSUME TypeOK, NEW g \in Gateway, NEW k \in getAuthMethods(g), NEW f \in File, k.of = f
  PROVE  OnDisk(f) /\ k = StatOf(f)
<1>1. ASSUME NEW h \in File \cup {NoFile}, NEW key, NEW b \in BOOLEAN, k \in Offers(key, h, b)
      PROVE  OnDisk(f) /\ k = StatOf(f)
  BY <1>1, Constants DEF Offers, Fixed, OnDisk, StatOf
<1>2. OwnFile[g] \in File \cup {NoFile} /\ (g \in Passwords) \in BOOLEAN /\ SharedPassword \in BOOLEAN
  BY PoolAssumption DEF PoolAssumption
<1>3. QED
  BY <1>1, <1>2, Constants DEF getAuthMethods

(* What is pooled after a step was pooled before, with the same stamp and   *)
(* credentials, in all steps but a dial that succeeds.                      *)
LEMMA PoolOnlyShrinks ==
  ASSUME IInv, [Next]_vars, \A w \in Worker : ~DialOk(w), NEW a \in Addr, pool'[a] # NoConn
  PROVE  /\ pool[a] # NoConn /\ pool'[a] = pool[a] /\ stamped'[a] = stamped[a]
         /\ conn'[pool[a]].using = conn[pool[a]].using
         /\ conn'[pool[a]] = conn[pool[a]] \/ GatewayDown(a)
<1> DEFINE Goal == /\ pool[a] # NoConn /\ pool'[a] = pool[a] /\ stamped'[a] = stamped[a]
                   /\ conn'[pool[a]].using = conn[pool[a]].using
                   /\ conn'[pool[a]] = conn[pool[a]] \/ GatewayDown(a)
<1>1. \A b \in Addr : b # a /\ pool[b] # NoConn => pool[b] # pool[a]
  BY DEF IInv, OneConnectionPerGateway
<1>2. pool[a] # NoConn => pool[a] \in Conn /\ conn[pool[a]].state \in {"open", "lost"}
  BY DEF IInv, TypeOK, OneConnectionPerGateway
<1>3. ASSUME NEW w \in Worker, pc[w] = "get", GetNew(w) \/ GetFails(w)
      PROVE  Goal
  <2>1. Drop(AddrOf[gw[w]]) /\ AddrOf[gw[w]] \in Addr
    BY <1>3, Constants DEF GetNew, GetFails, IInv, Targeted
  <2>2. pool' = [pool EXCEPT ![AddrOf[gw[w]]] = NoConn]
    BY <2>1, DropKeeps
  <2>3. AddrOf[gw[w]] # a
    BY <2>2 DEF IInv, TypeOK
  <2>4. pool'[a] = pool[a] /\ pool[a] # NoConn
    BY <2>2, <2>3 DEF IInv, TypeOK
  <2>5. conn'[pool[a]] = conn[pool[a]]
    BY <2>1, <2>3, <2>4, <1>1, <1>2, DropKeeps
  <2>6. stamped'[a] = stamped[a]
    BY <2>1, <2>3 DEF Drop, IInv, TypeOK
  <2>7. QED
    BY <2>4, <2>5, <2>6
<1>4. ASSUME NEW w \in Worker, removeClient(w)
      PROVE  Goal
  <2>1. AddrOf[gw[w]] # a
    BY <1>4 DEF removeClient, IInv, TypeOK
  <2>2. pool'[a] = pool[a] /\ stamped'[a] = stamped[a]
    BY <1>4, <2>1 DEF removeClient, IInv, TypeOK
  <2>3. AddrOf[gw[w]] \in Addr
    BY <1>4, Constants DEF removeClient, IInv, Targeted
  <2>4. Forgotten(w)[pool[a]] = conn[pool[a]]
    BY <2>2, <1>2, ForgottenKeeps
  <2>5. conn'[pool[a]] = conn[pool[a]]
    BY <1>4, <2>1, <2>2, <2>3, <2>4, <1>1, <1>2, ForgottenKeeps DEF removeClient
  <2>6. QED
    BY <2>2, <2>5
<1>5. ASSUME NEW w \in Worker, GiveUp(w) \/ Run(w)
      PROVE  Goal
  <2>1. pool' = pool /\ stamped' = stamped /\ conn' = Forgotten(w)
    BY <1>5 DEF GiveUp, Run, RunEnds, RunBreaks, Return
  <2>2. QED
    BY <2>1, <1>2, ForgottenKeeps
<1>6. ASSUME NEW w \in Worker, GetPooled(w) \/ DialFails(w) \/ Session(w) \/ \E t \in Network \cup UNION {Hosts[n] : n \in Network} : RunScan(w, t)
      PROVE  Goal
  BY <1>6 DEF GetPooled, DialFails, Session, NewSession, SessionFails, RunScan
<1>7. ASSUME NEW f \in File, WriteKey(f)
      PROVE  Goal
  BY <1>7 DEF WriteKey
<1>8. ASSUME NEW b \in Addr, GatewayDown(b) \/ GatewayUp(b)
      PROVE  Goal
  <2>1. pool' = pool /\ stamped' = stamped
    BY <1>8 DEF GatewayDown, GatewayUp
  <2>2. \A c \in Conn : conn'[c].using = conn[c].using
    <3> SUFFICES ASSUME NEW c \in Conn PROVE conn'[c].using = conn[c].using
      OBVIOUS
    <3>1. conn'[c] = conn[c] \/ conn'[c] = [conn[c] EXCEPT !.state = "lost"]
      BY <1>8 DEF GatewayDown, GatewayUp
    <3>2. conn[c] \in Line
      BY DEF IInv, TypeOK
    <3>3. QED
      BY <3>1, <3>2 DEF Line
  <2>3. pool[a] # NoConn => conn[pool[a]].addr = a
    BY DEF IInv, OneConnectionPerGateway
  <2>4. pool[a] # NoConn => conn'[pool[a]] = conn[pool[a]] \/ GatewayDown(a)
    BY <1>2, <1>8, <2>3 DEF GatewayDown, GatewayUp
  <2>5. QED
    BY <2>1, <2>2, <2>4, <1>2
<1>9. ~Close
  BY DEF Close
<1>10. CASE UNCHANGED vars
  BY <1>10 DEF vars
<1>11. QED
  BY <1>3, <1>4, <1>5, <1>6, <1>7, <1>8, <1>9, <1>10
     DEF Next, Step, getClient, Dial, GetNew, GetFails

LEMMA FreshStays ==
  ASSUME OneKeyPerAddress, IInv, Fresh, [Next]_vars
  PROVE  Fresh'
<1> SUFFICES ASSUME NEW g \in Gateway, AddrOf[g] \notin overtaken'
             PROVE  PooledIsStamped(g)' /\ \A w \in Worker : DialIsCurrent(g, w)'
  BY DEF Fresh
<1> DEFINE a == AddrOf[g]
           Goal == PooledIsStamped(g)' /\ \A w \in Worker : DialIsCurrent(g, w)'
<1>1. a \in Addr /\ getKeyFileForScanner(g) \in File \cup {NoFile}
  BY Constants DEF getKeyFileForScanner
<1>2. ASSUME NEW w \in Worker, DialOk(w)
      PROVE  Goal
  <2> DEFINE c == CHOOSE x \in Conn : IsFree(x)
             f == getKeyFileForScanner(gw[w])
  <2>1. /\ pc[w] = "dial" /\ mu = w /\ gw[w] \in Gateway /\ AddrOf[gw[w]] \in Addr /\ c \in Conn /\ IsFree(c)
        /\ conn' = [conn EXCEPT ![c] = [addr |-> AddrOf[gw[w]], using |-> offered[w], state |-> "open"]]
        /\ pool' = [pool EXCEPT ![AddrOf[gw[w]]] = c]
        /\ stamped' = IF OnDisk(f) THEN [stamped EXCEPT ![AddrOf[gw[w]]] = StatOf(f)] ELSE stamped
        /\ pc' = [pc EXCEPT ![w] = "session"]
        /\ UNCHANGED <<gw, overtaken>>
    BY <1>2, Constants DEF DialOk, IInv, TypeOK, Targeted, env
  <2>2. \A v \in Worker : pc'[v] # "dial"
    BY <2>1, Constants DEF IInv, TypeOK, Dialling
  <2>3. CASE AddrOf[gw[w]] = a
    <3>1. f = getKeyFileForScanner(g)
      BY <2>1, <2>3 DEF OneKeyPerAddress
    <3>2. \A k \in offered[w] : k.of = f /\ k.of # NoFile => OnDisk(f) /\ k = StatOf(f)
      BY <2>1, <2>3, <3>1 DEF Fresh, DialIsCurrent
    <3>3. pool'[a] = c /\ conn'[c].using = offered[w]
      BY <2>1, <2>3 DEF IInv, TypeOK
    <3>4. OnDisk(f) => stamped'[a] = StatOf(f)
      BY <2>1, <2>3 DEF IInv, TypeOK
    <3>5. getKeyFileForScanner(g)' = getKeyFileForScanner(g)
      BY DEF getKeyFileForScanner
    <3> HIDE DEF c, f
    <3>6. PooledIsStamped(g)'
      BY <3>1, <3>2, <3>3, <3>4, <3>5 DEF PooledIsStamped
    <3>7. QED
      BY <2>2, <3>6 DEF DialIsCurrent
  <2>4. CASE AddrOf[gw[w]] # a
    <3>1. pool'[a] = pool[a] /\ stamped'[a] = stamped[a]
      BY <1>1, <2>1, <2>4 DEF IInv, TypeOK
    <3>2. pool[a] # NoConn => pool[a] # c /\ conn'[pool[a]] = conn[pool[a]]
      BY <1>1, <2>1 DEF IInv, TypeOK, OneConnectionPerGateway, IsFree
    <3>3. PooledIsStamped(g)'
      BY <1>1, <2>1, <3>1, <3>2 DEF Fresh, PooledIsStamped, getKeyFileForScanner
    <3>4. QED
      BY <2>2, <3>3 DEF DialIsCurrent
  <2>5. QED
    BY <2>3, <2>4
<1>3. CASE \A w \in Worker : ~DialOk(w)
  <2>1. a \notin overtaken \/ \E w \in Worker : GetNew(w) /\ AddrOf[gw[w]] = a
    BY DEF Next, vars, locals, env, Step, getClient, Dial, Session, Run, RunScan, GetPooled, GetNew, GetFails,
           GiveUp, DialOk, DialFails, NewSession, SessionFails, removeClient, RunEnds, RunBreaks, WriteKey,
           GatewayDown, GatewayUp, Close
  <2>2. PooledIsStamped(g)'
    <3>1. CASE pool'[a] = NoConn
      BY <3>1 DEF PooledIsStamped
    <3>2. CASE pool'[a] # NoConn
      <4>1. /\ pool[a] # NoConn /\ stamped'[a] = stamped[a]
            /\ conn'[pool'[a]].using = conn[pool[a]].using
        BY <1>1, <1>3, <3>2, PoolOnlyShrinks
      <4>2. a \notin overtaken
        <5>1. ASSUME NEW w \in Worker, GetNew(w), AddrOf[gw[w]] = a
              PROVE  pool'[a] = NoConn
          BY <1>1, <5>1 DEF GetNew, Drop, IInv, TypeOK
        <5>2. QED
          BY <2>1, <3>2, <5>1
      <4>3. QED
        BY <4>1, <4>2 DEF Fresh, PooledIsStamped, getKeyFileForScanner
    <3>3. QED
      BY <3>1, <3>2
  <2>3. ASSUME NEW w \in Worker, pc'[w] = "dial", AddrOf[gw'[w]] = a
        PROVE  DialIsCurrent(g, w)'
    <3>1. CASE pc[w] = "dial" /\ gw'[w] = gw[w] /\ offered'[w] = offered[w] /\ file' = file /\ a \notin overtaken
      BY <2>3, <3>1 DEF Fresh, DialIsCurrent, OnDisk, StatOf, getKeyFileForScanner
    <3>2. CASE GetNew(w)
      <4>1. offered'[w] = getAuthMethods(gw[w]) /\ gw' = gw /\ file' = file /\ gw[w] \in Gateway
        BY <3>2 DEF GetNew, IInv, TypeOK, Targeted, env
      <4>2. \A k \in offered'[w] : k.of \in File => OnDisk(k.of) /\ k = StatOf(k.of)
        BY <4>1, MethodsAreOnDisk DEF IInv
      <4>3. QED
        BY <1>1, <4>1, <4>2 DEF DialIsCurrent, OnDisk, StatOf, getKeyFileForScanner
    <3>3. QED
      <4>1. \A f \in File : ~WriteKey(f)
        BY <2>3 DEF WriteKey, locals
      <4>2. ASSUME NEW v \in Worker, GetNew(v), v # w
            PROVE  FALSE
        BY <2>3, <4>2, Constants DEF GetNew, IInv, TypeOK, Dialling
      <4>3. CASE \A v \in Worker : ~GetNew(v)
        <5>1. overtaken' = overtaken /\ file' = file
          BY <4>1, <4>3 DEF Next, vars, locals, env, Step, getClient, Dial, Session, Run, RunScan, GetPooled, GetFails,
             GiveUp, DialOk, DialFails, NewSession, SessionFails, removeClient, RunEnds, RunBreaks,
             GatewayDown, GatewayUp, Close
        <5>2. pc[w] = "dial" /\ gw'[w] = gw[w] /\ offered'[w] = offered[w]
          <6>1. ASSUME NEW v \in Worker, NEW t, RunScan(v, t) PROVE pc[w] = "dial" /\ gw'[w] = gw[w] /\ offered' = offered
            BY <2>3, <6>1 DEF RunScan, IInv, TypeOK
          <6>2. ASSUME NEW v \in Worker, Return(v) PROVE pc[w] = "dial" /\ gw'[w] = gw[w] /\ offered'[w] = offered[w]
            BY <2>3, <6>2 DEF Return, IInv, TypeOK
          <6>3. ASSUME NEW v \in Worker, GetPooled(v) \/ GetFails(v) \/ DialFails(v) \/ Session(v) \/ removeClient(v)
                PROVE  pc[w] = "dial" /\ gw'[w] = gw[w] /\ offered'[w] = offered[w]
            BY <2>3, <6>3 DEF GetPooled, GetFails, DialFails, Session, NewSession, SessionFails, removeClient,
               locals, IInv, TypeOK
          <6>4. ASSUME NEW b \in Addr, GatewayDown(b) \/ GatewayUp(b)
                PROVE  pc[w] = "dial" /\ gw'[w] = gw[w] /\ offered'[w] = offered[w]
            BY <2>3, <6>4 DEF GatewayDown, GatewayUp, locals
          <6>5. CASE Close \/ UNCHANGED vars
            BY <2>3, <6>5 DEF Close, vars, locals
          <6>6. QED
            BY <1>3, <4>1, <4>3, <6>1, <6>2, <6>3, <6>4, <6>5
               DEF Next, Step, getClient, Dial, GiveUp, Run, RunEnds, RunBreaks
        <5>3. QED
          BY <3>1, <5>1, <5>2
      <4>4. QED
        BY <3>2, <4>2, <4>3
  <2>4. QED
    BY <2>2, <2>3 DEF DialIsCurrent
<1>4. QED
  BY <1>2, <1>3

(* A pooled connection is handed out only with the key that is on disk,     *)
(* provided that gateways at one address share their key file.              *)
THEOREM RotationIsNoticed ==
  ASSUME OneKeyPerAddress
  PROVE  Spec => RotatedKeyIsDropped
<1>1. Init => IInv /\ Fresh
  <2> SUFFICES ASSUME Init PROVE Fresh
    BY Initial
  <2>1. \A g \in Gateway : pool[AddrOf[g]] = NoConn
    BY Constants DEF Init
  <2>2. \A w \in Worker : pc[w] # "dial"
    BY DEF Init
  <2>3. QED
    BY <2>1, <2>2 DEF Fresh, PooledIsStamped, DialIsCurrent
<1>2. IInv /\ Fresh /\ [Next]_vars => (IInv /\ Fresh)'
  BY Inductive, FreshStays
<1>3. IInv /\ Fresh => \A w \in Worker : HandsOutCurrentKey(w)
  <2> SUFFICES ASSUME IInv, Fresh, NEW w \in Worker, GetPooled(w), AddrOf[gw[w]] \notin overtaken,
                      NEW k \in conn[pool[AddrOf[gw[w]]]].using,
                      k.of = getKeyFileForScanner(gw[w]), OnDisk(k.of)
               PROVE  k = StatOf(k.of)
    BY DEF HandsOutCurrentKey
  <2>1. gw[w] \in Gateway /\ pool[AddrOf[gw[w]]] # NoConn /\ ~KeyChanged(AddrOf[gw[w]], k.of)
    BY DEF GetPooled, IInv, Targeted
  <2>2. stamped[AddrOf[gw[w]]] = k
    BY <2>1 DEF Fresh, PooledIsStamped, OnDisk
  <2>3. k # NoStamp
    BY DEF OnDisk, NoStamp
  <2>4. QED
    BY <2>1, <2>2, <2>3 DEF KeyChanged
<1>4. QED
  BY <1>1, <1>2, <1>3, PTL DEF Spec, RotatedKeyIsDropped

-----------------------------------------------------------------------------
(* Healthy gateways. *)

\* Every gateway, or all of them together, have a password, a key that is valid or
\* a key file no in-memory key stands in the way of.
Usable(key, f, password) == password \/ key = "valid" \/ (key = "none" /\ f # NoFile)
HasCredentials ==
  \A g \in Gateway : \/ Usable(OwnKey[g], OwnFile[g], g \in Passwords)
                     \/ Usable(SharedKey, SharedFile, SharedPassword)

\* The pooled connection of a healthy gateway is open and stamped with the
\* key file as it is.
HealthyLine(g) ==
  LET a == AddrOf[g]
      f == getKeyFileForScanner(g)
  IN /\ \A h \in File : file[h].has = "key"
     /\ a \in up
     /\ pool[a] # NoConn => conn[pool[a]].state = "open"
     /\ stamped[a] = NoStamp \/ (f # NoFile /\ stamped[a] = StatOf(f))

\* All its scans run over that connection.
HealthyScan(g, w) ==
  pc[w] # "idle" /\ AddrOf[gw[w]] = AddrOf[g] =>
    /\ pc[w] \notin {"remove", "giveup"}
    /\ pc[w] \in {"session", "run"} => client[w] = pool[AddrOf[g]]

Healthy ==
  \A g \in Gateway : AddrOf[g] \in calm => HealthyLine(g) /\ \A w \in Worker : HealthyScan(g, w)

(* With its key files in place a gateway has credentials to offer.          *)
LEMMA HasMethods ==
  ASSUME HasCredentials, NEW g \in Gateway, \A h \in File : file[h].has = "key"
  PROVE  getAuthMethods(g) # {}
BY Constants DEF HasCredentials, Usable, getAuthMethods, Offers

(* getClient at a healthy gateway: nothing is recycled, and dialling only   *)
(* starts when no connection is pooled.                                     *)
LEMMA HealthyGet ==
  ASSUME OneKeyPerAddress, HasCredentials, IInv,
         NEW g \in Gateway, HealthyLine(g),
         NEW w \in Worker, GetNew(w) \/ GetFails(w), AddrOf[gw[w]] = AddrOf[g]
  PROVE  /\ GetNew(w) /\ pool[AddrOf[g]] = NoConn
         /\ UNCHANGED <<conn, pool, stamped>>
<1>1. gw[w] \in Gateway
  BY DEF GetNew, GetFails, IInv, Targeted
<1>2. getKeyFileForScanner(gw[w]) = getKeyFileForScanner(g)
  BY <1>1 DEF OneKeyPerAddress
<1>3. ~KeyChanged(AddrOf[g], getKeyFileForScanner(g))
  BY DEF HealthyLine, KeyChanged
<1>4. ~GetFails(w)
  BY <1>1, HasMethods DEF HealthyLine, GetFails
<1>5. QED
  BY <1>2, <1>3, <1>4 DEF GetNew, Drop

(* Only a dial stamps an address; other steps forget its stamp at most.     *)
LEMMA StampsOnlyGo ==
  ASSUME IInv, [Next]_vars, \A w \in Worker : ~DialOk(w), NEW a \in Addr
  PROVE  stamped'[a] \in {stamped[a], NoStamp}
<1>1. ASSUME NEW b, Drop(b) PROVE stamped'[a] \in {stamped[a], NoStamp}
  BY <1>1 DEF Drop, IInv, TypeOK
<1>2. ASSUME NEW w \in Worker, removeClient(w) PROVE stamped'[a] \in {stamped[a], NoStamp}
  BY <1>2 DEF removeClient, IInv, TypeOK
<1>3. ASSUME stamped' = stamped PROVE stamped'[a] \in {stamped[a], NoStamp}
  BY <1>3
<1>4. QED
  BY <1>1, <1>2, <1>3 DEF Next, vars, Step, getClient, Dial, Session, Run, RunScan, GetPooled, GetNew, GetFails,
     GiveUp, DialFails, NewSession, SessionFails, RunEnds, RunBreaks, WriteKey, GatewayDown, GatewayUp, Close

(* Nothing gets well again, and key files and gateways stay as they are     *)
(* where all is well.                                                       *)
LEMMA CalmBefore ==
  ASSUME [Next]_vars, NEW a \in calm'
  PROVE  /\ a \in calm /\ file' = file /\ ~GatewayDown(a)
         /\ a \in up => a \in up'
<1>1. ASSUME NEW w \in Worker, Session(w) PROVE a \in calm /\ file' = file /\ up' = up
  BY <1>1 DEF Session, NewSession, SessionFails, env
<1>2. ~GatewayDown(a) /\ \A f \in File : ~WriteKey(f)
  BY DEF GatewayDown, WriteKey
<1>3. ASSUME NEW b \in Addr, GatewayDown(b) \/ GatewayUp(b)
      PROVE  a \in calm /\ file' = file /\ (a \in up => a \in up')
  BY <1>2, <1>3 DEF GatewayDown, GatewayUp
<1>4. ASSUME calm' = calm, file' = file, up' = up PROVE a \in calm /\ file' = file /\ up' = up
  BY <1>4
<1>5. QED
  BY <1>1, <1>2, <1>3, <1>4 DEF Next, vars, env, locals, Step, getClient, Dial, Run, RunScan, GetPooled, GetNew,
     GetFails, GiveUp, DialOk, DialFails, removeClient, RunEnds, RunBreaks, Close

LEMMA HealthyLineStays ==
  ASSUME OneKeyPerAddress, IInv, NEW g \in Gateway, HealthyLine(g), [Next]_vars,
         AddrOf[g] \in calm'
  PROVE  HealthyLine(g)'
<1> DEFINE a == AddrOf[g]
           f == getKeyFileForScanner(g)
<1>1. a \in Addr /\ f \in File \cup {NoFile} /\ f' = f
  BY Constants DEF getKeyFileForScanner
<1>2. /\ file' = file /\ ~GatewayDown(a) /\ a \in up'
      /\ \A h \in File : file[h].has = "key"
      /\ pool[a] # NoConn => conn[pool[a]].state = "open"
      /\ stamped[a] = NoStamp \/ (f # NoFile /\ stamped[a] = StatOf(f))
  BY CalmBefore DEF HealthyLine
<1>3. /\ pool'[a] # NoConn => conn'[pool'[a]].state = "open"
      /\ stamped'[a] = NoStamp \/ (f # NoFile /\ stamped'[a] = StatOf(f))
  <2>1. CASE \A w \in Worker : ~DialOk(w)
    BY <1>1, <1>2, <2>1, PoolOnlyShrinks, StampsOnlyGo
  <2>2. ASSUME NEW w \in Worker, DialOk(w)
        PROVE  /\ pool'[a] # NoConn => conn'[pool'[a]].state = "open"
               /\ stamped'[a] = NoStamp \/ (f # NoFile /\ stamped'[a] = StatOf(f))
    <3> DEFINE c == CHOOSE x \in Conn : IsFree(x)
               b == AddrOf[gw[w]]
    <3>1. /\ gw[w] \in Gateway /\ b \in Addr /\ c \in Conn /\ IsFree(c)
          /\ conn' = [conn EXCEPT ![c] = [addr |-> b, using |-> offered[w], state |-> "open"]]
          /\ pool' = [pool EXCEPT ![b] = c]
          /\ stamped' = IF OnDisk(getKeyFileForScanner(gw[w]))
                           THEN [stamped EXCEPT ![b] = StatOf(getKeyFileForScanner(gw[w]))] ELSE stamped
      BY <2>2, Constants DEF DialOk, IInv, TypeOK, Targeted
    <3>2. b = a => getKeyFileForScanner(gw[w]) = f
      BY <3>1 DEF OneKeyPerAddress
    <3>3. OnDisk(f) => f # NoFile
      BY DEF OnDisk
    <3> HIDE DEF c, b, f
    <3>4. stamped'[a] = NoStamp \/ (f # NoFile /\ stamped'[a] = StatOf(f))
      BY <1>1, <1>2, <3>1, <3>2, <3>3 DEF IInv, TypeOK
    <3>5. pool[a] # NoConn => pool[a] # c
      BY <1>1, <3>1 DEF IInv, OneConnectionPerGateway, IsFree
    <3>6. pool'[a] # NoConn => conn'[pool'[a]].state = "open"
      BY <1>1, <1>2, <3>1, <3>5 DEF IInv, TypeOK
    <3>7. QED
      BY <3>4, <3>6
  <2>3. QED
    BY <2>1, <2>2
<1>4. QED
  BY <1>1, <1>2, <1>3 DEF HealthyLine, StatOf

LEMMA HealthyScanStays ==
  ASSUME OneKeyPerAddress, HasCredentials, IInv, NEW g \in Gateway, HealthyLine(g), [Next]_vars,
         AddrOf[g] \in calm', NEW w \in Worker, \A v \in Worker : HealthyScan(g, v)
  PROVE  HealthyScan(g, w)'
<1> DEFINE a == AddrOf[g]
<1> SUFFICES ASSUME pc'[w] # "idle", AddrOf[gw'[w]] = a
             PROVE  /\ pc'[w] \notin {"remove", "giveup"}
                    /\ pc'[w] \in {"session", "run"} => client'[w] = pool'[a]
  BY DEF HealthyScan
<1> DEFINE Goal == /\ pc'[w] \notin {"remove", "giveup"}
                   /\ pc'[w] \in {"session", "run"} => client'[w] = pool'[a]
<1>1. a \in Addr /\ a \in calm
  BY Constants, CalmBefore
<1>2. ASSUME NEW v \in Worker, NEW t, RunScan(v, t) PROVE Goal
  BY <1>2 DEF RunScan, IInv, TypeOK, HealthyScan
<1>3. ASSUME NEW v \in Worker, GetPooled(v) PROVE Goal
  BY <1>3 DEF GetPooled, locals, IInv, TypeOK, HealthyScan
<1>4. ASSUME NEW v \in Worker, GetNew(v) \/ GetFails(v) PROVE Goal
  <2>1. CASE AddrOf[gw[v]] = a
    <3>1. GetNew(v) /\ pool' = pool
      BY <1>4, <2>1, HealthyGet
    <3>2. QED
      BY <3>1 DEF GetNew, IInv, TypeOK, HealthyScan
  <2>2. CASE AddrOf[gw[v]] # a
    <3>1. /\ gw' = gw /\ client' = client /\ v # w /\ pc'[w] = pc[w]
          /\ Drop(AddrOf[gw[v]]) /\ AddrOf[gw[v]] \in Addr
      BY <1>4, <2>2, Constants DEF GetNew, GetFails, IInv, TypeOK, Targeted
    <3>2. pool'[a] = pool[a]
      BY <1>1, <2>2, <3>1 DEF Drop, IInv, TypeOK
    <3>3. QED
      BY <3>1, <3>2 DEF HealthyScan
  <2>3. QED
    BY <2>1, <2>2
<1>5. ASSUME NEW v \in Worker, DialOk(v) PROVE Goal
  <2>1. /\ gw' = gw /\ pc[v] = "dial" /\ pc' = [pc EXCEPT ![v] = "session"]
        /\ pool' = [pool EXCEPT ![AddrOf[gw[v]]] = client'[v]] /\ AddrOf[gw[v]] \in Addr
        /\ v # w => client'[w] = client[w]
    BY <1>5, Constants DEF DialOk, IInv, TypeOK, Targeted
  <2>2. CASE v = w
    BY <1>1, <2>1, <2>2 DEF IInv, TypeOK
  <2>3. CASE v # w /\ AddrOf[gw[v]] = a
    <3>1. pool[a] = NoConn
      BY <2>1, <2>3 DEF IInv, Dialling
    <3>2. pc[w] \notin {"session", "run", "remove", "giveup"}
      BY <2>1, <2>3, <3>1 DEF IInv, TypeOK, HealthyScan, Holding
    <3>3. QED
      BY <2>1, <2>3, <3>2 DEF IInv, TypeOK
  <2>4. CASE v # w /\ AddrOf[gw[v]] # a
    BY <1>1, <2>1, <2>4 DEF IInv, TypeOK, HealthyScan
  <2>5. QED
    BY <2>2, <2>3, <2>4
<1>6. ASSUME NEW v \in Worker, DialFails(v) PROVE Goal
  BY <1>1, <1>6 DEF DialFails, locals, IInv, TypeOK, HealthyScan
<1>7. ASSUME NEW v \in Worker, Session(v) PROVE Goal
  <2>1. v # w => Goal
    BY <1>7 DEF Session, NewSession, SessionFails, locals, IInv, TypeOK, HealthyScan
  <2>2. NewSession(v) => Goal
    BY DEF NewSession, locals, IInv, TypeOK, HealthyScan
  <2>3. v = w => ~SessionFails(v)
    <3>1. SUFFICES ASSUME v = w, SessionFails(v) PROVE FALSE
      OBVIOUS
    <3>2. pc[w] = "session" /\ gw[w] = gw'[w]
      BY <3>1 DEF SessionFails, locals
    <3>3. client[w] = pool[a] /\ client[w] # NoConn
      BY <3>2 DEF HealthyScan, IInv, Holding
    <3>4. IsOpen(client[w])
      BY <3>3 DEF HealthyLine, IsOpen
    <3>5. calm' = calm \ {a}
      BY <3>1, <3>2, <3>4 DEF SessionFails
    <3>6. QED
      BY <3>5
  <2>4. QED
    BY <1>7, <2>1, <2>2, <2>3 DEF Session
<1>8. ASSUME NEW v \in Worker, removeClient(v) PROVE Goal
  <2>1. /\ pc[v] = "remove" /\ gw' = gw /\ pc' = [pc EXCEPT ![v] = "get"]
        /\ pool' = [pool EXCEPT ![AddrOf[gw[v]]] = NoConn]
        /\ client' = [client EXCEPT ![v] = NoConn]
    BY <1>8 DEF removeClient
  <2>2. AddrOf[gw[v]] # a
    BY <2>1 DEF HealthyScan
  <2>3. QED
    BY <1>1, <2>1, <2>2 DEF IInv, TypeOK, HealthyScan
<1>9. ASSUME NEW v \in Worker, GiveUp(v) \/ Run(v) PROVE Goal
  <2>1. /\ pool' = pool /\ pc' = [pc EXCEPT ![v] = "idle"]
        /\ client' = [client EXCEPT ![v] = NoConn] /\ gw' = [gw EXCEPT ![v] = NoGateway]
    BY <1>9 DEF GiveUp, Run, RunEnds, RunBreaks, Return
  <2>2. QED
    BY <2>1 DEF IInv, TypeOK, HealthyScan
<1>10. ASSUME \/ \E f \in File : WriteKey(f)
              \/ \E b \in Addr : GatewayDown(b) \/ GatewayUp(b)
              \/ UNCHANGED vars
       PROVE  Goal
  BY <1>10 DEF WriteKey, GatewayDown, GatewayUp, vars, locals, HealthyScan
<1>11. ASSUME Close PROVE Goal
  BY <1>11 DEF Close
<1>12. QED
  BY <1>2, <1>3, <1>4, <1>5, <1>6, <1>7, <1>8, <1>9, <1>10, <1>11 DEF Next, Step, getClient, Dial

(* While a gateway answers, takes all sessions and its keys are left alone, *)
(* no scan of it fails: provided that it has credentials and that gateways  *)
(* at one address share their key file.                                     *)
THEOREM ScansDoNotDisturb ==
  ASSUME OneKeyPerAddress, HasCredentials
  PROVE  Spec => HealthyGatewaysServe
<1>1. Init => IInv /\ Healthy
  <2> SUFFICES ASSUME Init PROVE Healthy
    BY Initial
  <2>1. \A g \in Gateway : HealthyLine(g)
    BY Constants DEF Init, HealthyLine
  <2>2. QED
    BY <2>1 DEF Init, Healthy, HealthyScan
<1>2. IInv /\ Healthy /\ [Next]_vars => (IInv /\ Healthy)'
  <2> SUFFICES ASSUME IInv, Healthy, [Next]_vars, NEW g \in Gateway, AddrOf[g] \in calm'
               PROVE  HealthyLine(g)' /\ \A w \in Worker : HealthyScan(g, w)'
    BY Inductive DEF Healthy
  <2>1. HealthyLine(g) /\ \A w \in Worker : HealthyScan(g, w)
    BY CalmBefore DEF Healthy
  <2>2. QED
    BY <2>1, HealthyLineStays, HealthyScanStays
<1>3. IInv /\ Healthy =>
        \A w \in Worker : GiveUp(w) \/ RunBreaks(w) => AddrOf[gw[w]] \notin calm
  <2> SUFFICES ASSUME IInv, Healthy, NEW w \in Worker, AddrOf[gw[w]] \in calm,
                      GiveUp(w) \/ RunBreaks(w)
               PROVE  FALSE
    OBVIOUS
  <2>1. gw[w] \in Gateway /\ pc[w] # "idle"
    BY DEF IInv, Targeted, GiveUp, RunBreaks
  <2>2. HealthyLine(gw[w]) /\ HealthyScan(gw[w], w)
    BY <2>1 DEF Healthy
  <2>3. QED
    BY <2>1, <2>2 DEF HealthyLine, HealthyScan, GiveUp, RunBreaks, IsOpen, IInv, Holding
<1>4. QED
  BY <1>1, <1>2, <1>3, PTL DEF Spec, HealthyGatewaysServe
=============================================================================

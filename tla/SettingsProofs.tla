--------------------------- MODULE SettingsProofs ---------------------------
(***************************************************************************)
(* Proofs about Settings, for any file, any environment and any ids.       *)
(***************************************************************************)
EXTENDS Settings, WellFoundedInduction, SequenceTheorems, TLAPS

-----------------------------------------------------------------------------
(* Types. *)

MainType    == [plain : Value \cup {Unset}, scan_interval : Int, min_scan_interval : Int,
                networks : SUBSET Net, enable_remote : BOOLEAN, sudo : BOOLEAN]
RouterType  == [enable : BOOLEAN, remote : BOOLEAN, host : Host \cup {Unset}, sudo : BOOLEAN,
                networks : SUBSET Net]
ScannerType == [known : BOOLEAN, host : Host \cup {Unset}, sudo : BOOLEAN, networks : SUBSET Net]
SwitchType  == [known : BOOLEAN, timeout : Int]

Config ==
  [main : MainType, netNames : SUBSET Net, opnsense : RouterType, openwrt : RouterType,
   wrtNames : Seq(Router), wrts : [Router -> RouterType],
   names : Seq(ScannerIds), scanners : [ScannerIds -> ScannerType],
   swNames : Seq(Switch), switches : [Switch -> SwitchType]]

\* What Normalize works from and does not change.
Said(c) == <<c.netNames, c.opnsense, c.openwrt, c.wrtNames, c.wrts, c.swNames>>

\* The parts of a configuration are its fields.
LEMMA ConfigParts ==
  ASSUME NEW c \in Config
  PROVE  /\ c.main \in MainType /\ c.netNames \subseteq Net
         /\ c.opnsense \in RouterType /\ c.openwrt \in RouterType
         /\ c.wrtNames \in Seq(Router) /\ c.wrts \in [Router -> RouterType]
         /\ c.names \in Seq(ScannerIds) /\ c.scanners \in [ScannerIds -> ScannerType]
         /\ c.swNames \in Seq(Switch) /\ c.switches \in [Switch -> SwitchType]
  BY DEF Config

\* Configurations with the same parts are the same.
LEMMA ConfigEqual ==
  ASSUME NEW c \in Config, NEW d \in Config, Said(c) = Said(d), c.main = d.main,
         c.names = d.names, c.scanners = d.scanners, c.switches = d.switches
  PROVE  c = d
  BY DEF Config, Said

LEMMA WithMain ==
  ASSUME NEW c \in Config, NEW v \in MainType
  PROVE  LET d == [c EXCEPT !.main = v]
         IN /\ d \in Config /\ Said(d) = Said(c) /\ d.main = v
            /\ d.names = c.names /\ d.scanners = c.scanners /\ d.switches = c.switches
  BY DEF Config, Said

LEMMA WithScanners ==
  ASSUME NEW c \in Config, NEW v \in [ScannerIds -> ScannerType], NEW q \in Seq(ScannerIds)
  PROVE  LET d == [c EXCEPT !.scanners = v, !.names = q]
         IN /\ d \in Config /\ Said(d) = Said(c) /\ d.main = c.main
            /\ d.names = q /\ d.scanners = v /\ d.switches = c.switches
  BY DEF Config, Said

LEMMA WithSwitches ==
  ASSUME NEW c \in Config, NEW v \in [Switch -> SwitchType]
  PROVE  LET d == [c EXCEPT !.switches = v]
         IN /\ d \in Config /\ Said(d) = Said(c) /\ d.main = c.main
            /\ d.names = c.names /\ d.scanners = c.scanners /\ d.switches = v
  BY DEF Config, Said

\* A name is added once, at the end.
LEMMA WithNameShape ==
  ASSUME NEW S, NEW q \in Seq(S), NEW id \in S
  PROVE  /\ WithName(q, id) \in Seq(S)
         /\ \A x : Contains(WithName(q, id), x) <=> Contains(q, x) \/ x = id
         /\ Contains(q, id) => WithName(q, id) = q
PROOF
  <1>1. CASE Contains(q, id)
    BY <1>1 DEF WithName
  <1>2. CASE ~Contains(q, id)
    <2> DEFINE w == Append(q, id)
    <2>1. w \in Seq(S) /\ Len(w) = Len(q) + 1 /\ w[Len(q) + 1] = id
          /\ \A i \in 1..Len(q) : w[i] = q[i]
      OBVIOUS
    <2>2. WithName(q, id) = w
      BY <1>2 DEF WithName
    <2>3. Len(q) \in Nat
      OBVIOUS
    <2> HIDE DEF w
    <2>4. ASSUME NEW x PROVE Contains(w, x) <=> Contains(q, x) \/ x = id
      BY <2>1, <2>3 DEF Contains
    <2> QED
      BY <1>2, <2>1, <2>2, <2>4
  <1> QED
    BY <1>1, <1>2

\* What a sequence contains is its range.
LEMMA RangeContains ==
  ASSUME NEW S, NEW q \in Seq(S)
  PROVE  /\ \A x : x \in Range(q) <=> Contains(q, x)
         /\ \A x : Contains(q, x) => x \in S
  BY DEF Range, Contains

-----------------------------------------------------------------------------
(* Scanners. *)

\* What may be written to a scanner.
ScannerKey(key, v) ==
  \/ key = "host" /\ v \in Host \cup {Unset}
  \/ key = "sudo" /\ v \in BOOLEAN
  \/ key = "networks" /\ v \in SUBSET Net

LEMMA NewScannerRow ==
  ASSUME NEW r \in ScannerType, NEW key, NEW v, ScannerKey(key, v)
  PROVE  LET out == [[r EXCEPT ![key] = v] EXCEPT !.known = TRUE]
         IN /\ out \in ScannerType /\ out.known = TRUE
            /\ out.host = (IF key = "host" THEN v ELSE r.host)
            /\ out.sudo = (IF key = "sudo" THEN v ELSE r.sudo)
            /\ out.networks = (IF key = "networks" THEN v ELSE r.networks)
PROOF
  <1>1. CASE key = "host"
    BY <1>1 DEF ScannerKey, ScannerType
  <1>2. CASE key = "sudo"
    BY <1>2 DEF ScannerKey, ScannerType
  <1>3. CASE key = "networks"
    BY <1>3 DEF ScannerKey, ScannerType
  <1> QED
    BY <1>1, <1>2, <1>3 DEF ScannerKey

\* What writing one setting of a scanner makes of a configuration.
Sets(c, out, id, key, v) ==
  LET old == c.scanners[id]
      new == out.scanners[id]
  IN /\ out \in Config /\ Said(out) = Said(c) /\ out.main = c.main
     /\ out.switches = c.switches /\ out.names = WithName(c.names, id)
     /\ new.known = TRUE
     /\ new.host = (IF key = "host" THEN v ELSE old.host)
     /\ new.sudo = (IF key = "sudo" THEN v ELSE old.sudo)
     /\ new.networks = (IF key = "networks" THEN v ELSE old.networks)
     /\ \A s \in ScannerIds \ {id} : out.scanners[s] = c.scanners[s]

LEMMA SetScanner ==
  ASSUME NEW c \in Config, NEW id \in ScannerIds, NEW key, NEW v, ScannerKey(key, v)
  PROVE  Sets(c, setRemoteScannerValue(c, id, key, v), id, key, v)
PROOF
  <1> DEFINE old == c.scanners[id]
             r == [[old EXCEPT ![key] = v] EXCEPT !.known = TRUE]
             sc == [c.scanners EXCEPT ![id] = r]
             q == WithName(c.names, id)
             out == setRemoteScannerValue(c, id, key, v)
  <1>1. c.scanners \in [ScannerIds -> ScannerType] /\ c.names \in Seq(ScannerIds)
    BY ConfigParts
  <1>2. old \in ScannerType
    BY <1>1
  <1>3. q \in Seq(ScannerIds)
    BY <1>1, WithNameShape
  <1>4. out = [c EXCEPT !.scanners = sc, !.names = q]
    BY <1>1 DEF setRemoteScannerValue
  <1> HIDE DEF q, old
  <1>5. /\ r \in ScannerType /\ r.known = TRUE
        /\ r.host = (IF key = "host" THEN v ELSE old.host)
        /\ r.sudo = (IF key = "sudo" THEN v ELSE old.sudo)
        /\ r.networks = (IF key = "networks" THEN v ELSE old.networks)
    BY <1>2, NewScannerRow
  <1> HIDE DEF r
  <1>6. /\ sc \in [ScannerIds -> ScannerType] /\ sc[id] = r
        /\ \A s \in ScannerIds \ {id} : sc[s] = c.scanners[s]
    BY <1>1, <1>5
  <1> HIDE DEF sc, out
  <1>7. /\ out \in Config /\ Said(out) = Said(c) /\ out.main = c.main
        /\ out.names = q /\ out.scanners = sc /\ out.switches = c.switches
    <2>1. \A t \in [ScannerIds -> ScannerType], w \in Seq(ScannerIds) :
            LET d == [c EXCEPT !.scanners = t, !.names = w]
            IN /\ d \in Config /\ Said(d) = Said(c) /\ d.main = c.main
               /\ d.names = w /\ d.scanners = t /\ d.switches = c.switches
      BY WithScanners
    <2> QED
      BY <1>3, <1>4, <1>6, <2>1
  <1>8. /\ out \in Config /\ Said(out) = Said(c) /\ out.main = c.main
        /\ out.switches = c.switches /\ out.names = q
        /\ out.scanners[id].known = TRUE
        /\ out.scanners[id].host = (IF key = "host" THEN v ELSE old.host)
        /\ out.scanners[id].sudo = (IF key = "sudo" THEN v ELSE old.sudo)
        /\ out.scanners[id].networks = (IF key = "networks" THEN v ELSE old.networks)
        /\ \A s \in ScannerIds \ {id} : out.scanners[s] = c.scanners[s]
    BY <1>5, <1>6, <1>7
  <1> QED
    BY <1>8 DEF out, q, old, Sets

\* What Register makes of a configuration.
Registers(c, out, id, router) ==
  /\ out \in Config /\ Said(out) = Said(c) /\ out.switches = c.switches
  /\ out.main = [c.main EXCEPT !.enable_remote = TRUE]
  /\ out.names = WithName(c.names, id)
  /\ out.scanners[id].known = TRUE
  /\ out.scanners[id].host = router.host
  /\ out.scanners[id].sudo = router.sudo
  /\ out.scanners[id].networks =
       (IF router.networks = {} THEN c.scanners[id].networks ELSE router.networks)
  /\ \A s \in ScannerIds \ {id} : out.scanners[s] = c.scanners[s]

LEMMA NamedAgain ==
  ASSUME NEW q \in Seq(ScannerIds), NEW id \in ScannerIds
  PROVE  WithName(WithName(q, id), id) = WithName(q, id)
  BY WithNameShape

LEMMA EnabledRemote ==
  ASSUME NEW c \in Config
  PROVE  LET d == [c EXCEPT !.main.enable_remote = TRUE]
         IN /\ d \in Config /\ Said(d) = Said(c)
            /\ d.main = [c.main EXCEPT !.enable_remote = TRUE]
            /\ d.names = c.names /\ d.scanners = c.scanners /\ d.switches = c.switches
PROOF
  <1> DEFINE v == [c.main EXCEPT !.enable_remote = TRUE]
             d == [c EXCEPT !.main = v]
  <1>1. v \in MainType
    BY ConfigParts DEF MainType
  <1>2. [c EXCEPT !.main.enable_remote = TRUE] = d
    OBVIOUS
  <1> HIDE DEF v
  <1>3. /\ d \in Config /\ Said(d) = Said(c) /\ d.main = v
        /\ d.names = c.names /\ d.scanners = c.scanners /\ d.switches = c.switches
    BY <1>1, WithMain
  <1> HIDE DEF d
  <1> QED
    BY <1>2, <1>3 DEF v

LEMMA RegisterShape ==
  ASSUME NEW c \in Config, NEW id \in ScannerIds, NEW router \in RouterType, router.remote
  PROVE  Registers(c, Register(c, id, router), id, router)
PROOF
  <1> DEFINE a == setRemoteScannerValue(c, id, "host", router.host)
             d == setRemoteScannerValue(a, id, "sudo", router.sudo)
             e == IF router.networks = {} THEN d
                  ELSE setRemoteScannerValue(d, id, "networks", router.networks)
             out == [e EXCEPT !.main.enable_remote = TRUE]
  <1>0. /\ router.host \in Host \cup {Unset} /\ router.sudo \in BOOLEAN
        /\ router.networks \in SUBSET Net
    BY DEF RouterType
  <1>1. Register(c, id, router) = out
    BY DEF Register
  <1>2. ScannerKey("host", router.host) /\ ScannerKey("sudo", router.sudo)
        /\ ScannerKey("networks", router.networks)
    BY <1>0 DEF ScannerKey
  <1>3. /\ a \in Config /\ Said(a) = Said(c) /\ a.main = c.main
        /\ a.switches = c.switches /\ a.names = WithName(c.names, id)
        /\ a.scanners[id].host = router.host
        /\ a.scanners[id].networks = c.scanners[id].networks
        /\ \A s \in ScannerIds \ {id} : a.scanners[s] = c.scanners[s]
    <2>1. Sets(c, a, id, "host", router.host)
      BY <1>2, SetScanner
    <2> HIDE DEF a
    <2> QED
      BY <2>1 DEF Sets
  <1> HIDE DEF a
  <1>4. /\ d \in Config /\ Said(d) = Said(a) /\ d.main = a.main
        /\ d.switches = a.switches /\ d.names = WithName(a.names, id)
        /\ d.scanners[id].known = TRUE
        /\ d.scanners[id].host = a.scanners[id].host
        /\ d.scanners[id].sudo = router.sudo
        /\ d.scanners[id].networks = a.scanners[id].networks
        /\ \A s \in ScannerIds \ {id} : d.scanners[s] = a.scanners[s]
    <2>1. Sets(a, d, id, "sudo", router.sudo)
      BY <1>2, <1>3, SetScanner
    <2> HIDE DEF d
    <2> QED
      BY <2>1 DEF Sets
  <1> HIDE DEF d
  <1>5. c.names \in Seq(ScannerIds)
    BY ConfigParts
  <1>6. /\ d \in Config /\ Said(d) = Said(c) /\ d.main = c.main
        /\ d.switches = c.switches /\ d.names = WithName(c.names, id)
        /\ d.scanners[id].known = TRUE
        /\ d.scanners[id].host = router.host
        /\ d.scanners[id].sudo = router.sudo
        /\ d.scanners[id].networks = c.scanners[id].networks
        /\ \A s \in ScannerIds \ {id} : d.scanners[s] = c.scanners[s]
    BY <1>3, <1>4, <1>5, NamedAgain
  <1>7. /\ e \in Config /\ Said(e) = Said(c) /\ e.main = c.main
        /\ e.switches = c.switches /\ e.names = WithName(c.names, id)
        /\ e.scanners[id].known = TRUE
        /\ e.scanners[id].host = router.host
        /\ e.scanners[id].sudo = router.sudo
        /\ e.scanners[id].networks =
             (IF router.networks = {} THEN c.scanners[id].networks ELSE router.networks)
        /\ \A s \in ScannerIds \ {id} : e.scanners[s] = c.scanners[s]
    <2>1. CASE router.networks = {}
      BY <1>6, <2>1
    <2>2. CASE router.networks # {}
      <3> DEFINE g == setRemoteScannerValue(d, id, "networks", router.networks)
      <3>1. e = g
        BY <2>2
      <3>2. /\ g \in Config /\ Said(g) = Said(d) /\ g.main = d.main
            /\ g.switches = d.switches /\ g.names = WithName(d.names, id)
            /\ g.scanners[id].known = TRUE
            /\ g.scanners[id].host = d.scanners[id].host
            /\ g.scanners[id].sudo = d.scanners[id].sudo
            /\ g.scanners[id].networks = router.networks
            /\ \A s \in ScannerIds \ {id} : g.scanners[s] = d.scanners[s]
        <4>1. Sets(d, g, id, "networks", router.networks)
          BY <1>2, <1>6, SetScanner
        <4> HIDE DEF g
        <4> QED
          BY <4>1 DEF Sets
      <3> HIDE DEF g, e
      <3> QED
        BY <1>5, <1>6, <2>2, <3>1, <3>2, NamedAgain
    <2> QED
      BY <2>1, <2>2
  <1> HIDE DEF e
  <1>8. /\ out \in Config /\ Said(out) = Said(e)
        /\ out.main = [e.main EXCEPT !.enable_remote = TRUE]
        /\ out.names = e.names /\ out.scanners = e.scanners /\ out.switches = e.switches
    BY <1>7, EnabledRemote
  <1> HIDE DEF out
  <1>9. Registers(c, out, id, router)
    BY <1>7, <1>8 DEF Registers
  <1> QED
    BY <1>1, <1>9

-----------------------------------------------------------------------------
(* Recursive functions over the routers and over the variables. *)

\* A set of naturals that holds 0 and every successor holds them all.
LEMMA NatInduct ==
  ASSUME NEW S \in SUBSET Nat, 0 \in S, \A n \in S : n + 1 \in S
  PROVE  S = Nat
PROOF
  <1> DEFINE T == Nat \ S
  <1> SUFFICES ASSUME T # {} PROVE FALSE
    OBVIOUS
  <1>1. T \subseteq Nat
    OBVIOUS
  <1>2. PICK x \in T : \A y \in T : ~ (<<y, x>> \in OpToRel(<, Nat))
    BY <1>1, NatLessThanWellFounded, WFMin
  <1>3. \A y \in T : ~ (y < x)
    BY <1>1, <1>2 DEF OpToRel
  <1>4. x \in Nat /\ x # 0 /\ x \notin S
    OBVIOUS
  <1>5. x - 1 \in Nat /\ x - 1 < x /\ (x - 1) + 1 = x
    BY <1>4
  <1>6. x - 1 \in S
    BY <1>3, <1>5
  <1> QED
    BY <1>4, <1>5, <1>6

\* m[n] is what the first n functions of F make of c.
Applied(m, F, N, c) == m[0] = c /\ \A n \in 1..N : m[n] = F[n][m[n-1]]

\* N functions can be applied one after the other.
LEMMA OneAfterTheOther ==
  ASSUME NEW T, NEW N \in Nat, NEW c \in T, NEW F \in [1..N -> [T -> T]]
  PROVE  \E m \in [0..N -> T] : Applied(m, F, N, c)
PROOF
  <1> DEFINE R(m, k) == /\ m \in [0..k -> T] /\ m[0] = c
                        /\ \A n \in 1..k : m[n] = F[n][m[n-1]]
             S == {k \in Nat : k <= N => \E m : R(m, k)}
  <1>1. 0 \in S
    <2> DEFINE m == [n \in 0..0 |-> c]
    <2>1. R(m, 0)
      OBVIOUS
    <2> HIDE DEF m, R
    <2> QED
      BY <2>1
  <1>2. ASSUME NEW k \in S PROVE k + 1 \in S
    <2>1. k \in Nat
      OBVIOUS
    <2> SUFFICES ASSUME k + 1 <= N PROVE \E m : R(m, k + 1)
      BY <2>1
    <2>2. PICK m : R(m, k)
      BY <2>1
    <2>3. k + 1 \in 1..N
      BY <2>1
    <2>4. m[k] \in T /\ F[k+1] \in [T -> T]
      BY <2>1, <2>2, <2>3
    <2> DEFINE g == [n \in 0..(k+1) |-> IF n = k + 1 THEN F[k+1][m[k]] ELSE m[n]]
    <2>5. g \in [0..(k+1) -> T] /\ g[0] = c
      BY <2>1, <2>2, <2>4
    <2>6. ASSUME NEW n \in 1..(k+1) PROVE g[n] = F[n][g[n-1]]
      <3>1. n - 1 \in 0..(k+1) /\ n \in 0..(k+1) /\ n - 1 # k + 1
        BY <2>1
      <3>2. g[n-1] = m[n-1]
        BY <3>1
      <3>3. CASE n = k + 1
        BY <2>1, <3>1, <3>2, <3>3
      <3>4. CASE n # k + 1
        <4>1. n \in 1..k
          BY <2>1, <3>4
        <4> QED
          BY <2>2, <3>1, <3>2, <3>4, <4>1
      <3> QED
        BY <3>3, <3>4
    <2>7. R(g, k + 1)
      BY <2>5, <2>6
    <2> HIDE DEF g, R
    <2> QED
      BY <2>7
  <1> HIDE DEF R
  <1>3. S = Nat
    <2> HIDE DEF S
    <2>1. S \in SUBSET Nat
      BY DEF S
    <2> QED
      BY <1>1, <1>2, <2>1, NatInduct
  <1> HIDE DEF S
  <1>4. N \in S /\ N <= N
    BY <1>3
  <1>5. \E m : R(m, N)
    BY <1>4 DEF S
  <1> QED
    BY <1>5 DEF R, Applied

-----------------------------------------------------------------------------
(* RegisterRouters. *)

\* A router under its id.
IsRouter(r) == r[1] \in ScannerIds /\ r[2] \in RouterType

\* The routers of a configuration are routers.
LEMMA RoutersSeq ==
  ASSUME NEW c \in Config
  PROVE  Routers(c) \in Seq(ScannerIds \X RouterType)
PROOF
  <1> DEFINE T == ScannerIds \X RouterType
             w == <<<<"opnsense", c.opnsense>>, <<"openwrt", c.openwrt>>>>
             row(n) == <<c.wrtNames[n], Listed(c, c.wrtNames[n])>>
             L == Len(c.wrtNames)
             q == [n \in 1..L |-> row(n)]
  <1>1. c.wrtNames \in Seq(Router) /\ c.opnsense \in RouterType /\ c.openwrt \in RouterType
        /\ c.wrts \in [Router -> RouterType]
    BY ConfigParts
  <1>2. NewRouter \in RouterType
    BY DEF NewRouter, RouterType
  <1>3. w \in Seq(T)
    <2>1. "opnsense" \in ScannerIds /\ "openwrt" \in ScannerIds
      BY DEF ScannerIds
    <2> QED
      BY <1>1, <2>1
  <1>4. ASSUME NEW n \in 1..L PROVE row(n) \in T
    <2>1. c.wrtNames[n] \in Router
      BY <1>1
    <2>2. c.wrtNames[n] \in ScannerIds /\ Listed(c, c.wrtNames[n]) \in RouterType
      BY <1>1, <1>2, <2>1 DEF Listed, ScannerIds
    <2> QED
      BY <2>2
  <1>5. L \in Nat
    BY <1>1
  <1> HIDE DEF row, L
  <1>6. q \in Seq(T)
    BY <1>4, <1>5
  <1> HIDE DEF w, q, T
  <1>7. Routers(c) = w \o q
    BY DEF Routers, w, q, L, row
  <1>8. Routers(c) \in Seq(T)
    BY <1>3, <1>6, <1>7
  <1> QED
    BY <1>8 DEF T

LEMMA RoutersTyped ==
  ASSUME NEW c \in Config
  PROVE  Len(Routers(c)) \in Nat /\ \A n \in 1..Len(Routers(c)) : IsRouter(Routers(c)[n])
PROOF
  <1> DEFINE T == ScannerIds \X RouterType
  <1>1. Routers(c) \in Seq(T)
    BY RoutersSeq
  <1> HIDE DEF T
  <1>2. Len(Routers(c)) \in Nat /\ \A n \in 1..Len(Routers(c)) : Routers(c)[n] \in T
    BY <1>1
  <1> QED
    BY <1>2 DEF T, IsRouter

\* m is the way through the first n routers of q.
Chain(m, c, q, n) ==
  m[0] = c /\ \A k \in 1..n : m[k] = Register(m[k-1], q[k][1], q[k][2])

\* Registering leads through the configurations m[0], m[1], ... up to its result.
LEMMA RegisterUnfolds ==
  ASSUME NEW c \in Config
  PROVE  \E m : /\ Chain(m, c, Routers(c), Len(Routers(c)))
                /\ RegisterRouters(c) = m[Len(Routers(c))]
PROOF
  <1> DEFINE q == Routers(c)
             N == Len(q)
             F == [n \in 1..N |-> [x \in Config |-> Register(x, q[n][1], q[n][2])]]
             m[n \in 0..N] == IF n = 0 THEN c ELSE Register(m[n-1], q[n][1], q[n][2])
  <1>1. N \in Nat /\ \A n \in 1..N : q[n][1] \in ScannerIds /\ q[n][2] \in RouterType
    BY RoutersTyped DEF IsRouter
  <1>2. RegisterRouters(c) = m[N]
    BY DEF RegisterRouters
  <1> HIDE DEF q, N
  <1>3. \A n \in 1..N, x \in Config : Register(x, q[n][1], q[n][2]) \in Config
    <2> SUFFICES ASSUME NEW n \in 1..N, NEW x \in Config
                 PROVE  Register(x, q[n][1], q[n][2]) \in Config
      OBVIOUS
    <2>1. CASE ~q[n][2].remote
      BY <2>1 DEF Register
    <2>2. CASE q[n][2].remote
      <3>1. \A r \in RouterType : r.remote => Registers(x, Register(x, q[n][1], r), q[n][1], r)
        BY <1>1, RegisterShape
      <3>2. Registers(x, Register(x, q[n][1], q[n][2]), q[n][1], q[n][2])
        BY <1>1, <2>2, <3>1
      <3> QED
        BY <3>2 DEF Registers
    <2> QED
      BY <2>1, <2>2
  <1>4. F \in [1..N -> [Config -> Config]]
    BY <1>3
  <1>5. PICK g \in [0..N -> Config] : Applied(g, F, N, c)
    <2> HIDE DEF F, m
    <2> QED
      BY <1>1, <1>4, OneAfterTheOther
  <1>6. \A n \in 1..N : g[n] = Register(g[n-1], q[n][1], q[n][2])
    <2> SUFFICES ASSUME NEW n \in 1..N
                 PROVE  g[n] = Register(g[n-1], q[n][1], q[n][2])
      OBVIOUS
    <2>1. n - 1 \in 0..N
      BY <1>1
    <2> QED
      BY <1>5, <2>1 DEF Applied
  <1>7. g = [n \in 0..N |-> IF n = 0 THEN c ELSE Register(g[n-1], q[n][1], q[n][2])]
    <2>1. \A n \in 0..N : n # 0 => n \in 1..N
      BY <1>1
    <2> QED
      BY <1>5, <1>6, <2>1 DEF Applied
  <1>8. m = [n \in 0..N |-> IF n = 0 THEN c ELSE Register(m[n-1], q[n][1], q[n][2])]
    BY <1>7
  <1> HIDE DEF m
  <1>9. \A n \in 0..N : m[n] = IF n = 0 THEN c ELSE Register(m[n-1], q[n][1], q[n][2])
    BY <1>8
  <1>10. m[0] = c /\ \A n \in 1..N : m[n] = Register(m[n-1], q[n][1], q[n][2])
    BY <1>1, <1>9
  <1> QED
    BY <1>2, <1>10 DEF q, N, Chain

\* What registering the routers of R, which come to the settings of eff, makes of a
\* configuration.
Rows(c, out, R, eff) ==
  /\ out \in Config /\ Said(out) = Said(c) /\ out.switches = c.switches
  /\ out.main = [c.main EXCEPT !.enable_remote = @ \/ R # {}]
  /\ \A x : Contains(out.names, x) <=> Contains(c.names, x) \/ x \in R
  /\ (\A x \in R : Contains(c.names, x)) => out.names = c.names
  /\ \A s \in ScannerIds \ R : out.scanners[s] = c.scanners[s]
  /\ \A s \in R \cap ScannerIds :
       /\ out.scanners[s].known = TRUE
       /\ out.scanners[s].host = eff[s].host
       /\ out.scanners[s].sudo = eff[s].sudo
       /\ out.scanners[s].networks =
            (IF eff[s].networks = {} THEN c.scanners[s].networks ELSE eff[s].networks)

LEMMA NoRows ==
  ASSUME NEW c \in Config, NEW eff
  PROVE  Rows(c, c, {}, eff)
PROOF
  <1>1. c.main \in MainType
    BY ConfigParts
  <1>2. c.main = [c.main EXCEPT !.enable_remote = @ \/ {} # {}]
    BY <1>1 DEF MainType
  <1> QED
    BY <1>2 DEF Rows

\* more is what eff comes to with the router r of the id: the settings of the last router
\* of an id, with the networks of the last that has any.
Adds(more, eff, id, r) ==
  /\ more \in [ScannerIds -> RouterType]
  /\ more[id].host = r.host /\ more[id].sudo = r.sudo
  /\ more[id].networks = (IF r.networks = {} THEN eff[id].networks ELSE r.networks)
  /\ \A s \in ScannerIds \ {id} : more[s] = eff[s]

LEMMA CanAdd ==
  ASSUME NEW eff \in [ScannerIds -> RouterType], NEW id \in ScannerIds, NEW r \in RouterType
  PROVE  \E more : Adds(more, eff, id, r)
PROOF
  <1> DEFINE v == IF r.networks = {} THEN eff[id].networks ELSE r.networks
             t == [r EXCEPT !.networks = v]
             more == [eff EXCEPT ![id] = t]
  <1>1. eff[id] \in RouterType
    OBVIOUS
  <1>2. v \in SUBSET Net
    BY <1>1 DEF RouterType
  <1> HIDE DEF v
  <1>3. t \in RouterType /\ t.host = r.host /\ t.sudo = r.sudo /\ t.networks = v
    BY <1>2 DEF RouterType
  <1> HIDE DEF t
  <1>4. /\ more \in [ScannerIds -> RouterType] /\ more[id] = t
        /\ \A s \in ScannerIds \ {id} : more[s] = eff[s]
    BY <1>3
  <1> HIDE DEF more
  <1>5. Adds(more, eff, id, r)
    BY <1>3, <1>4 DEF Adds, v
  <1> QED
    BY <1>5

\* One more router.
LEMMA OneMoreRow ==
  ASSUME NEW c \in Config, NEW R, NEW eff, NEW x, Rows(c, x, R, eff),
         \A s \in ScannerIds \ R : eff[s].networks = {},
         NEW id \in ScannerIds, NEW r \in RouterType, r.remote,
         NEW more, Adds(more, eff, id, r)
  PROVE  Rows(c, Register(x, id, r), R \cup {id}, more)
PROOF
  <1> DEFINE out == Register(x, id, r)
             Q == R \cup {id}
  <1>0. x \in Config
    BY DEF Rows
  <1>1. Registers(x, out, id, r)
    BY <1>0, RegisterShape
  <1> HIDE DEF out
  <1>13. /\ more[id].host = r.host /\ more[id].sudo = r.sudo
         /\ more[id].networks = (IF r.networks = {} THEN eff[id].networks ELSE r.networks)
         /\ \A s \in ScannerIds \ {id} : more[s] = eff[s]
    BY DEF Adds
  <1>2. c.main \in MainType
    BY ConfigParts
  <1>3. x.names \in Seq(ScannerIds)
    BY <1>0, ConfigParts
  <1>4. out \in Config /\ Said(out) = Said(c) /\ out.switches = c.switches
    BY <1>1 DEF Registers, Rows
  <1>5. out.main = [c.main EXCEPT !.enable_remote = @ \/ Q # {}]
    <2>1. out.main = [x.main EXCEPT !.enable_remote = TRUE]
      BY <1>1 DEF Registers
    <2>2. x.main = [c.main EXCEPT !.enable_remote = @ \/ R # {}]
      BY DEF Rows
    <2>3. Q # {}
      OBVIOUS
    <2> HIDE DEF Q
    <2> QED
      BY <1>2, <2>1, <2>2, <2>3 DEF MainType
  <1>6. out.names = WithName(x.names, id)
    BY <1>1 DEF Registers
  <1>7. \A y : Contains(out.names, y) <=> Contains(c.names, y) \/ y \in Q
    <2>1. \A y : Contains(out.names, y) <=> Contains(x.names, y) \/ y = id
      BY <1>3, <1>6, WithNameShape
    <2>2. \A y : Contains(x.names, y) <=> Contains(c.names, y) \/ y \in R
      BY DEF Rows
    <2> QED
      BY <2>1, <2>2
  <1>8. ASSUME \A y \in Q : Contains(c.names, y) PROVE out.names = c.names
    <2>1. x.names = c.names
      BY <1>8 DEF Rows
    <2>2. Contains(x.names, id)
      BY <1>8, <2>1
    <2> QED
      BY <1>3, <1>6, <2>1, <2>2, WithNameShape
  <1>9. \A s \in ScannerIds \ Q : out.scanners[s] = c.scanners[s]
    BY <1>1 DEF Registers, Rows
  <1>10. ASSUME NEW s \in Q \cap ScannerIds
         PROVE  /\ out.scanners[s].known = TRUE
                /\ out.scanners[s].host = more[s].host
                /\ out.scanners[s].sudo = more[s].sudo
                /\ out.scanners[s].networks =
                     (IF more[s].networks = {} THEN c.scanners[s].networks
                      ELSE more[s].networks)
    <2>1. CASE s = id
      <3>1. x.scanners[id].networks =
              (IF eff[id].networks = {} THEN c.scanners[id].networks ELSE eff[id].networks)
        <4>1. CASE id \in R
          BY <4>1 DEF Rows
        <4>2. CASE id \notin R
          <5>1. x.scanners[id] = c.scanners[id]
            BY <4>2 DEF Rows
          <5> QED
            BY <4>2, <5>1
        <4> QED
          BY <4>1, <4>2
      <3>2. /\ out.scanners[id].known = TRUE
            /\ out.scanners[id].host = r.host /\ out.scanners[id].sudo = r.sudo
            /\ out.scanners[id].networks =
                 (IF r.networks = {} THEN x.scanners[id].networks ELSE r.networks)
        BY <1>1 DEF Registers
      <3> QED
        BY <1>13, <2>1, <3>1, <3>2
    <2>2. CASE s # id
      <3>1. s \in R \cap ScannerIds /\ s \in ScannerIds \ {id}
        BY <2>2
      <3>2. out.scanners[s] = x.scanners[s]
        BY <1>1, <3>1 DEF Registers
      <3> QED
        BY <1>13, <3>1, <3>2 DEF Rows
    <2> QED
      BY <2>1, <2>2
  <1>11. Rows(c, out, Q, more)
    <2> HIDE DEF Q
    <2> QED
      BY <1>4, <1>5, <1>7, <1>8, <1>9, <1>10 DEF Rows
  <1> QED
    BY <1>11 DEF out

\* The ids of the first n routers of q that scan, and that have networks.
RemoteIds(q, n) == {q[k][1] : k \in {j \in 1..n : q[j][2].remote}}
FilledIds(q, n) == {q[k][1] : k \in {j \in 1..n : q[j][2].remote /\ q[j][2].networks # {}}}

\* eff is what the first n routers of q come to, from wherever they are registered.
Effect(eff, q, n) ==
  /\ eff \in [ScannerIds -> RouterType]
  /\ \A s \in ScannerIds : eff[s].networks # {} <=> s \in FilledIds(q, n)
  /\ \A c \in Config : \A m : Chain(m, c, q, n) => Rows(c, m[n], RemoteIds(q, n), eff)

LEMMA NoEffect ==
  ASSUME NEW q
  PROVE  Effect([s \in ScannerIds |-> NewRouter], q, 0)
PROOF
  <1> DEFINE eff == [s \in ScannerIds |-> NewRouter]
  <1>1. eff \in [ScannerIds -> RouterType] /\ \A s \in ScannerIds : eff[s].networks = {}
    BY DEF NewRouter, RouterType
  <1> HIDE DEF eff
  <1>2. RemoteIds(q, 0) = {} /\ FilledIds(q, 0) = {}
    BY DEF RemoteIds, FilledIds
  <1>3. \A c \in Config : \A m : Chain(m, c, q, 0) => Rows(c, m[0], {}, eff)
    BY NoRows DEF Chain
  <1>4. Effect(eff, q, 0)
    BY <1>1, <1>2, <1>3 DEF Effect
  <1> QED
    BY <1>4 DEF eff

LEMMA OneMoreEffect ==
  ASSUME NEW q, NEW n \in Nat, IsRouter(q[n+1]), NEW eff, Effect(eff, q, n)
  PROVE  \E more : Effect(more, q, n + 1)
PROOF
  <1> DEFINE id == q[n+1][1]
             r == q[n+1][2]
  <1>1. id \in ScannerIds /\ r \in RouterType
    BY DEF IsRouter
  <1>2. \A j : j \in 1..(n+1) <=> j \in 1..n \/ j = n + 1
    OBVIOUS
  <1>3. ASSUME NEW c \in Config, NEW m, Chain(m, c, q, n + 1)
        PROVE  Chain(m, c, q, n) /\ m[n+1] = Register(m[n], id, r)
    <2>1. m[0] = c /\ \A k \in 1..(n+1) : m[k] = Register(m[k-1], q[k][1], q[k][2])
      BY <1>3 DEF Chain
    <2>2. n + 1 \in 1..(n+1) /\ (n + 1) - 1 = n
      OBVIOUS
    <2> QED
      BY <1>2, <2>1, <2>2 DEF Chain
  <1>4. CASE ~r.remote
    <2>1. RemoteIds(q, n + 1) = RemoteIds(q, n) /\ FilledIds(q, n + 1) = FilledIds(q, n)
      BY <1>2, <1>4 DEF RemoteIds, FilledIds
    <2>2. \A x : Register(x, id, r) = x
      BY <1>4 DEF Register
    <2> HIDE DEF id, r
    <2>3. Effect(eff, q, n + 1)
      BY <1>3, <2>1, <2>2 DEF Effect
    <2> QED
      BY <2>3
  <1>5. CASE r.remote
    <2>1. RemoteIds(q, n + 1) = RemoteIds(q, n) \cup {id}
      BY <1>2, <1>5 DEF RemoteIds
    <2>2. FilledIds(q, n + 1) = IF r.networks = {} THEN FilledIds(q, n)
                                ELSE FilledIds(q, n) \cup {id}
      <3>1. CASE r.networks = {}
        BY <1>2, <3>1 DEF FilledIds
      <3>2. CASE r.networks # {}
        BY <1>2, <1>5, <3>2 DEF FilledIds
      <3> QED
        BY <3>1, <3>2
    <2> HIDE DEF id, r
    <2>3. eff \in [ScannerIds -> RouterType]
      BY DEF Effect
    <2>0. PICK more : Adds(more, eff, id, r)
      BY <1>1, <2>3, CanAdd
    <2>4. /\ more \in [ScannerIds -> RouterType]
          /\ more[id].networks = (IF r.networks = {} THEN eff[id].networks ELSE r.networks)
          /\ \A s \in ScannerIds \ {id} : more[s] = eff[s]
      BY <2>0 DEF Adds
    <2>5. ASSUME NEW s \in ScannerIds
          PROVE  more[s].networks # {} <=> s \in FilledIds(q, n + 1)
      <3>1. eff[s].networks # {} <=> s \in FilledIds(q, n)
        BY DEF Effect
      <3>2. CASE s = id
        BY <2>2, <2>4, <3>1, <3>2
      <3>3. CASE s # id
        BY <2>2, <2>4, <3>1, <3>3
      <3> QED
        BY <3>2, <3>3
    <2>6. \A s \in ScannerIds \ RemoteIds(q, n) : eff[s].networks = {}
      BY DEF Effect, RemoteIds, FilledIds
    <2>7. ASSUME NEW c \in Config, NEW m, Chain(m, c, q, n + 1)
          PROVE  Rows(c, m[n+1], RemoteIds(q, n + 1), more)
      <3>1. Rows(c, m[n], RemoteIds(q, n), eff) /\ m[n+1] = Register(m[n], id, r)
        BY <1>3, <2>7 DEF Effect
      <3>2. \A t \in RouterType : t.remote /\ Adds(more, eff, id, t) =>
              Rows(c, Register(m[n], id, t), RemoteIds(q, n) \cup {id}, more)
        BY <1>1, <2>6, <3>1, OneMoreRow
      <3>3. Rows(c, Register(m[n], id, r), RemoteIds(q, n) \cup {id}, more)
        BY <1>1, <1>5, <2>0, <3>2
      <3> QED
        BY <2>1, <3>1, <3>3
    <2>8. Effect(more, q, n + 1)
      BY <2>4, <2>5, <2>7 DEF Effect
    <2> QED
      BY <2>8
  <1> QED
    BY <1>4, <1>5

LEMMA HasEffect ==
  ASSUME NEW c \in Config
  PROVE  \E eff : Effect(eff, Routers(c), Len(Routers(c)))
PROOF
  <1> DEFINE q == Routers(c)
             N == Len(q)
             S == {n \in Nat : n <= N => \E eff : Effect(eff, q, n)}
  <1>1. N \in Nat /\ \A n \in 1..N : IsRouter(q[n])
    BY RoutersTyped
  <1> HIDE DEF q, N
  <1>2. 0 \in S
    BY NoEffect
  <1>3. ASSUME NEW n \in S PROVE n + 1 \in S
    <2>1. n \in Nat
      OBVIOUS
    <2> SUFFICES ASSUME n + 1 <= N PROVE \E eff : Effect(eff, q, n + 1)
      BY <2>1
    <2>2. n + 1 \in 1..N /\ n <= N
      BY <1>1, <2>1
    <2>3. PICK eff : Effect(eff, q, n)
      BY <2>2
    <2>4. IsRouter(q[n+1])
      BY <1>1, <2>2
    <2> HIDE DEF S
    <2> QED
      BY <2>1, <2>3, <2>4, OneMoreEffect
  <1>4. S \in SUBSET Nat
    OBVIOUS
  <1> HIDE DEF S
  <1>5. S = Nat
    BY <1>2, <1>3, <1>4, NatInduct
  <1>6. N \in S /\ N <= N
    BY <1>1, <1>5
  <1>7. \E eff : Effect(eff, q, N)
    BY <1>6 DEF S
  <1> QED
    BY <1>7 DEF q, N

\* What the routers of c come to, for each id.
Effective(c) == CHOOSE eff : Effect(eff, Routers(c), Len(Routers(c)))
RouterOf(c, id) == Effective(c)[id]

LEMMA EffectiveEffect ==
  ASSUME NEW c \in Config
  PROVE  Effect(Effective(c), Routers(c), Len(Routers(c)))
  BY HasEffect DEF Effective

LEMMA RemoteAll ==
  ASSUME NEW c \in Config
  PROVE  /\ RemoteIds(Routers(c), Len(Routers(c))) = Registered(c)
         /\ FilledIds(Routers(c), Len(Routers(c))) = WithNetworks(c)
PROOF
  <1> DEFINE q == Routers(c)
             N == Len(q)
  <1>1. Range(q) = {q[k] : k \in 1..N}
    <2>1. \E T : q \in Seq(T)
      BY RoutersSeq
    <2>2. DOMAIN q = 1..N
      BY <2>1
    <2> QED
      BY <2>2 DEF Range
  <1> HIDE DEF q, N
  <1>2. RemoteIds(q, N) = {r[1] : r \in {x \in Range(q) : x[2].remote}}
    BY <1>1 DEF RemoteIds
  <1>3. FilledIds(q, N)
          = {r[1] : r \in {s \in {x \in Range(q) : x[2].remote} : s[2].networks # {}}}
    BY <1>1 DEF FilledIds
  <1> QED
    BY <1>2, <1>3 DEF q, N, Registered, WithNetworks, Remote

\* RegisterRouters registers the routers that scan remotely.
LEMMA RegisterRoutersShape ==
  ASSUME NEW c \in Config
  PROVE  Rows(c, RegisterRouters(c), Registered(c), Effective(c))
PROOF
  <1>1. PICK m : /\ Chain(m, c, Routers(c), Len(Routers(c)))
                 /\ RegisterRouters(c) = m[Len(Routers(c))]
    BY RegisterUnfolds
  <1>2. Rows(c, m[Len(Routers(c))], RemoteIds(Routers(c), Len(Routers(c))), Effective(c))
    BY <1>1, EffectiveEffect DEF Effect
  <1> QED
    BY <1>1, <1>2, RemoteAll

-----------------------------------------------------------------------------
(* Normalize. *)

\* What Normalize works from decides what is registered.
LEMMA SameSaid ==
  ASSUME NEW c, NEW d, Said(c) = Said(d)
  PROVE  /\ Registered(c) = Registered(d) /\ WithNetworks(c) = WithNetworks(d)
         /\ \A id : RouterOf(c, id) = RouterOf(d, id)
         /\ c.netNames = d.netNames /\ c.swNames = d.swNames /\ c.wrtNames = d.wrtNames
PROOF
  <1>1. /\ c.netNames = d.netNames /\ c.swNames = d.swNames /\ c.wrtNames = d.wrtNames
        /\ c.opnsense = d.opnsense /\ c.openwrt = d.openwrt /\ c.wrts = d.wrts
    BY DEF Said
  <1>2. Routers(c) = Routers(d)
    <2>1. \A id : Listed(c, id) = Listed(d, id)
      BY <1>1 DEF Listed
    <2> QED
      BY <1>1, <2>1 DEF Routers
  <1>3. \A id : RouterOf(c, id) = RouterOf(d, id)
    BY <1>2 DEF RouterOf, Effective
  <1> QED
    BY <1>1, <1>2, <1>3 DEF Registered, WithNetworks, Remote

LEMMA RegisteredIds ==
  ASSUME NEW c \in Config
  PROVE  Registered(c) \subseteq ScannerIds
         /\ \A id \in ScannerIds : /\ RouterOf(c, id) \in RouterType
                                   /\ RouterOf(c, id).networks # {} <=> id \in WithNetworks(c)
PROOF
  <1>1. RemoteIds(Routers(c), Len(Routers(c))) \subseteq ScannerIds
    BY RoutersTyped DEF RemoteIds, IsRouter
  <1> QED
    BY <1>1, EffectiveEffect, RemoteAll DEF Effect, RouterOf

\* The main settings after Normalize.
NormalMain(c, d) ==
  /\ d.main.plain = c.main.plain
  /\ d.main.scan_interval = Repaired(c.main.scan_interval, defaultScanInterval)
  /\ d.main.min_scan_interval = Repaired(c.main.min_scan_interval, defaultMinScanInterval)
  /\ d.main.networks = (IF c.main.networks = {} THEN c.netNames ELSE c.main.networks)
  /\ d.main.enable_remote = (c.main.enable_remote \/ Registered(c) # {})
  /\ d.main.sudo = c.main.sudo

NormalScanner(c, d, s) ==
  LET old == c.scanners[s]
      new == d.scanners[s]
      r == RouterOf(c, s)
  IN IF s \in Registered(c)
     THEN /\ new.known = TRUE /\ new.host = r.host
          /\ new.sudo = (r.sudo \/ c.main.sudo)
          /\ new.networks = (IF r.networks = {} THEN old.networks ELSE r.networks)
     ELSE /\ new.known = old.known /\ new.host = old.host /\ new.networks = old.networks
          /\ new.sudo = (old.sudo \/ (c.main.sudo /\ Contains(d.names, s)))

NormalSwitches(c, d) ==
  \A w \in Switch : d.switches[w] =
    (IF Contains(c.swNames, w)
     THEN [known |-> TRUE, timeout |-> Repaired(c.switches[w].timeout, 5)]
     ELSE c.switches[w])

\* d is what Normalize makes of c.
Normal(c, d) ==
  /\ d \in Config /\ Said(d) = Said(c)
  /\ NormalMain(c, d)
  /\ \A x : Contains(d.names, x) <=> Contains(c.names, x) \/ x \in Registered(c)
  /\ (\A x \in Registered(c) : Contains(c.names, x)) => d.names = c.names
  /\ \A s \in ScannerIds : NormalScanner(c, d, s)
  /\ NormalSwitches(c, d)

\* The repairs that come before routers are registered.
LEMMA RepairsShape ==
  ASSUME NEW c \in Config
  PROVE  LET d == RepairSwitches(AdoptNames(RepairTimings(c)))
         IN /\ d \in Config /\ Said(d) = Said(c)
            /\ d.names = c.names /\ d.scanners = c.scanners
            /\ NormalSwitches(c, d)
            /\ d.main.plain = c.main.plain
            /\ d.main.scan_interval = Repaired(c.main.scan_interval, defaultScanInterval)
            /\ d.main.min_scan_interval = Repaired(c.main.min_scan_interval, defaultMinScanInterval)
            /\ d.main.networks = (IF c.main.networks = {} THEN c.netNames ELSE c.main.networks)
            /\ d.main.enable_remote = c.main.enable_remote
            /\ d.main.sudo = c.main.sudo
PROOF
  <1> DEFINE t == RepairTimings(c)
             a == AdoptNames(t)
             d == RepairSwitches(a)
             mi == Repaired(c.main.min_scan_interval, defaultMinScanInterval)
             si == Repaired(c.main.scan_interval, defaultScanInterval)
             m1 == [[c.main EXCEPT !.min_scan_interval = mi] EXCEPT !.scan_interval = si]
             m2 == [m1 EXCEPT !.networks = c.netNames]
             sw == [w \in Switch |-> IF Contains(a.swNames, w)
                                     THEN [known |-> TRUE, timeout |-> Repaired(a.switches[w].timeout, 5)]
                                     ELSE a.switches[w]]
  <1>1. c.main \in MainType /\ c.netNames \in SUBSET Net
    BY ConfigParts
  <1>2. mi \in Int /\ si \in Int
    BY <1>1 DEF MainType, Repaired, defaultMinScanInterval, defaultScanInterval
  <1>3. t = [c EXCEPT !.main = m1]
    BY <1>1 DEF RepairTimings, MainType, Config
  <1> HIDE DEF mi, si
  <1>4. /\ m1 \in MainType /\ m1.plain = c.main.plain /\ m1.scan_interval = si
        /\ m1.min_scan_interval = mi /\ m1.networks = c.main.networks
        /\ m1.enable_remote = c.main.enable_remote /\ m1.sudo = c.main.sudo
    BY <1>1, <1>2 DEF MainType
  <1> HIDE DEF m1, t
  <1>5. \A v \in MainType :
          LET e == [c EXCEPT !.main = v]
          IN /\ e \in Config /\ Said(e) = Said(c) /\ e.main = v
             /\ e.names = c.names /\ e.scanners = c.scanners /\ e.switches = c.switches
    BY WithMain
  <1>6. /\ t \in Config /\ Said(t) = Said(c) /\ t.main = m1
        /\ t.names = c.names /\ t.scanners = c.scanners /\ t.switches = c.switches
    BY <1>3, <1>4, <1>5
  <1>7. t.netNames = c.netNames
    BY <1>6, SameSaid
  <1>8. /\ m2 \in MainType /\ m2.plain = m1.plain /\ m2.scan_interval = m1.scan_interval
        /\ m2.min_scan_interval = m1.min_scan_interval /\ m2.networks = c.netNames
        /\ m2.enable_remote = m1.enable_remote /\ m2.sudo = m1.sudo
    BY <1>1, <1>4 DEF MainType
  <1>9. a = IF m1.networks = {} THEN [t EXCEPT !.main = m2] ELSE t
    BY <1>6, <1>7 DEF AdoptNames, Config
  <1> HIDE DEF m2, a
  <1>10. \A v \in MainType :
          LET e == [t EXCEPT !.main = v]
          IN /\ e \in Config /\ Said(e) = Said(t) /\ e.main = v
             /\ e.names = t.names /\ e.scanners = t.scanners /\ e.switches = t.switches
    BY <1>6, WithMain
  <1>11. /\ a \in Config /\ Said(a) = Said(c)
         /\ a.main = (IF m1.networks = {} THEN m2 ELSE m1)
         /\ a.names = c.names /\ a.scanners = c.scanners /\ a.switches = c.switches
    BY <1>6, <1>8, <1>9, <1>10
  <1>12. a.switches \in [Switch -> SwitchType]
    BY <1>11, ConfigParts
  <1>13. d = [a EXCEPT !.switches = sw]
    BY <1>11 DEF RepairSwitches
  <1>14. sw \in [Switch -> SwitchType]
    BY <1>12 DEF SwitchType, Repaired
  <1>15. \A w \in Switch : sw[w] = IF Contains(a.swNames, w)
                                   THEN [known |-> TRUE, timeout |-> Repaired(a.switches[w].timeout, 5)]
                                   ELSE a.switches[w]
    OBVIOUS
  <1> HIDE DEF sw, d
  <1>16. \A v \in [Switch -> SwitchType] :
           LET e == [a EXCEPT !.switches = v]
           IN /\ e \in Config /\ Said(e) = Said(a) /\ e.main = a.main
              /\ e.names = a.names /\ e.scanners = a.scanners /\ e.switches = v
    BY <1>11, WithSwitches
  <1>17. /\ d \in Config /\ Said(d) = Said(a) /\ d.main = a.main
         /\ d.names = a.names /\ d.scanners = a.scanners /\ d.switches = sw
    BY <1>13, <1>14, <1>16
  <1>18. a.swNames = c.swNames
    BY <1>11, SameSaid
  <1>19. NormalSwitches(c, d)
    BY <1>11, <1>15, <1>17, <1>18 DEF NormalSwitches
  <1>20. /\ d.main.plain = c.main.plain /\ d.main.scan_interval = si
         /\ d.main.min_scan_interval = mi
         /\ d.main.networks = (IF c.main.networks = {} THEN c.netNames ELSE c.main.networks)
         /\ d.main.enable_remote = c.main.enable_remote /\ d.main.sudo = c.main.sudo
    BY <1>4, <1>8, <1>11, <1>17
  <1>21. /\ d \in Config /\ Said(d) = Said(c) /\ d.names = c.names /\ d.scanners = c.scanners
    BY <1>11, <1>17
  <1> QED
    BY <1>19, <1>20, <1>21 DEF d, a, t, mi, si

LEMMA SpreadSudoShape ==
  ASSUME NEW c \in Config
  PROVE  LET d == SpreadSudo(c)
         IN /\ d \in Config /\ Said(d) = Said(c) /\ d.main = c.main
            /\ d.names = c.names /\ d.switches = c.switches
            /\ \A s \in ScannerIds :
                 /\ d.scanners[s].known = c.scanners[s].known
                 /\ d.scanners[s].host = c.scanners[s].host
                 /\ d.scanners[s].networks = c.scanners[s].networks
                 /\ d.scanners[s].sudo = (c.scanners[s].sudo \/ (c.main.sudo /\ Contains(c.names, s)))
PROOF
  <1>1. c.scanners \in [ScannerIds -> ScannerType] /\ c.main \in MainType
    BY ConfigParts
  <1>2. CASE ~c.main.sudo
    <2>1. SpreadSudo(c) = c
      BY <1>2 DEF SpreadSudo
    <2>2. \A s \in ScannerIds : c.scanners[s].sudo \in BOOLEAN
      BY <1>1 DEF ScannerType
    <2>3. \A s \in ScannerIds :
            c.scanners[s].sudo = (c.scanners[s].sudo \/ (c.main.sudo /\ Contains(c.names, s)))
      BY <1>2, <2>2
    <2> QED
      BY <2>1, <2>3
  <1>3. CASE c.main.sudo
    <2> DEFINE row(s) == IF Contains(c.names, s) THEN [c.scanners[s] EXCEPT !.sudo = TRUE]
                         ELSE c.scanners[s]
               sc == [s \in ScannerIds |-> row(s)]
               d == SpreadSudo(c)
    <2>1. d = [c EXCEPT !.scanners = sc, !.names = c.names]
      BY <1>3 DEF SpreadSudo, Config
    <2>2. ASSUME NEW s \in ScannerIds
          PROVE  /\ row(s) \in ScannerType
                 /\ row(s).known = c.scanners[s].known
                 /\ row(s).host = c.scanners[s].host
                 /\ row(s).networks = c.scanners[s].networks
                 /\ row(s).sudo = (c.scanners[s].sudo \/ Contains(c.names, s))
      <3>1. c.scanners[s] \in ScannerType
        BY <1>1
      <3>2. CASE Contains(c.names, s)
        BY <3>1, <3>2 DEF ScannerType
      <3>3. CASE ~Contains(c.names, s)
        BY <3>1, <3>3 DEF ScannerType
      <3> QED
        BY <3>2, <3>3
    <2> HIDE DEF row
    <2>3. sc \in [ScannerIds -> ScannerType] /\ \A s \in ScannerIds : sc[s] = row(s)
      BY <2>2
    <2> HIDE DEF sc, d
    <2>4. c.names \in Seq(ScannerIds)
      BY ConfigParts
    <2>5. \A t \in [ScannerIds -> ScannerType], w \in Seq(ScannerIds) :
            LET e == [c EXCEPT !.scanners = t, !.names = w]
            IN /\ e \in Config /\ Said(e) = Said(c) /\ e.main = c.main
               /\ e.names = w /\ e.scanners = t /\ e.switches = c.switches
      BY WithScanners
    <2>6. /\ d \in Config /\ Said(d) = Said(c) /\ d.main = c.main
          /\ d.names = c.names /\ d.scanners = sc /\ d.switches = c.switches
      BY <2>1, <2>3, <2>4, <2>5
    <2> QED
      BY <1>3, <2>2, <2>3, <2>6 DEF d
  <1> QED
    BY <1>2, <1>3

\* Normalize repairs, registers and spreads.
LEMMA NormalizeShape ==
  ASSUME NEW c \in Config
  PROVE  Normal(c, Normalize(c))
PROOF
  <1> DEFINE a == RepairSwitches(AdoptNames(RepairTimings(c)))
             g == RegisterRouters(a)
             d == SpreadSudo(g)
             R == Registered(c)
  <1>1. Normalize(c) = d
    BY DEF Normalize
  <1>2. /\ a \in Config /\ Said(a) = Said(c)
        /\ a.names = c.names /\ a.scanners = c.scanners
        /\ NormalSwitches(c, a)
        /\ a.main.plain = c.main.plain
        /\ a.main.scan_interval = Repaired(c.main.scan_interval, defaultScanInterval)
        /\ a.main.min_scan_interval = Repaired(c.main.min_scan_interval, defaultMinScanInterval)
        /\ a.main.networks = (IF c.main.networks = {} THEN c.netNames ELSE c.main.networks)
        /\ a.main.enable_remote = c.main.enable_remote
        /\ a.main.sudo = c.main.sudo
    BY RepairsShape
  <1> HIDE DEF a
  <1>3. Registered(a) = R /\ \A id : RouterOf(a, id) = RouterOf(c, id)
    BY <1>2, SameSaid
  <1>4. Rows(a, g, R, Effective(a))
    BY <1>2, <1>3, RegisterRoutersShape
  <1> HIDE DEF g
  <1>5. g \in Config /\ Said(g) = Said(c) /\ g.switches = a.switches
    BY <1>2, <1>4 DEF Rows
  <1>6. /\ d \in Config /\ Said(d) = Said(g) /\ d.main = g.main
        /\ d.names = g.names /\ d.switches = g.switches
        /\ \A s \in ScannerIds :
             /\ d.scanners[s].known = g.scanners[s].known
             /\ d.scanners[s].host = g.scanners[s].host
             /\ d.scanners[s].networks = g.scanners[s].networks
             /\ d.scanners[s].sudo = (g.scanners[s].sudo \/ (g.main.sudo /\ Contains(g.names, s)))
    BY <1>5, SpreadSudoShape
  <1> HIDE DEF d
  <1>7. a.main \in MainType /\ c.main \in MainType
    BY <1>2, ConfigParts
  <1>8. /\ g.main.plain = a.main.plain /\ g.main.scan_interval = a.main.scan_interval
        /\ g.main.min_scan_interval = a.main.min_scan_interval
        /\ g.main.networks = a.main.networks /\ g.main.sudo = a.main.sudo
        /\ g.main.enable_remote = (a.main.enable_remote \/ R # {})
    <2>1. g.main = [a.main EXCEPT !.enable_remote = @ \/ R # {}]
      BY <1>4 DEF Rows
    <2> HIDE DEF R
    <2> QED
      BY <1>7, <2>1 DEF MainType
  <1>9. NormalMain(c, d)
    <2> HIDE DEF R
    <2>1. /\ d.main.plain = c.main.plain /\ d.main.sudo = c.main.sudo
          /\ d.main.enable_remote = (c.main.enable_remote \/ R # {})
      BY <1>2, <1>6, <1>8
    <2>2. d.main.networks = (IF c.main.networks = {} THEN c.netNames ELSE c.main.networks)
      BY <1>2, <1>6, <1>8
    <2>3. /\ d.main.scan_interval = Repaired(c.main.scan_interval, defaultScanInterval)
          /\ d.main.min_scan_interval = Repaired(c.main.min_scan_interval, defaultMinScanInterval)
      BY <1>2, <1>6, <1>8
    <2> QED
      BY <2>1, <2>2, <2>3 DEF NormalMain, R
  <1>10. /\ \A x : Contains(d.names, x) <=> Contains(c.names, x) \/ x \in R
         /\ (\A x \in R : Contains(c.names, x)) => d.names = c.names
    <2>1. /\ \A x : Contains(g.names, x) <=> Contains(a.names, x) \/ x \in R
          /\ (\A x \in R : Contains(a.names, x)) => g.names = a.names
      BY <1>4 DEF Rows
    <2> QED
      BY <1>2, <1>6, <2>1
  <1>11. ASSUME NEW s \in ScannerIds PROVE NormalScanner(c, d, s)
    <2>0. g.main.sudo = c.main.sudo /\ c.main.sudo \in BOOLEAN
      BY <1>2, <1>7, <1>8 DEF MainType
    <2>1. CASE s \in R
      <3>1. /\ g.scanners[s].known = TRUE
            /\ g.scanners[s].host = RouterOf(c, s).host
            /\ g.scanners[s].sudo = RouterOf(c, s).sudo
            /\ g.scanners[s].networks =
                 (IF RouterOf(c, s).networks = {} THEN c.scanners[s].networks
                  ELSE RouterOf(c, s).networks)
        BY <1>2, <1>3, <1>4, <2>1 DEF Rows, RouterOf
      <3>2. Contains(g.names, s)
        BY <1>6, <1>10, <2>1
      <3>3. d.scanners[s].sudo = (RouterOf(c, s).sudo \/ c.main.sudo)
        BY <1>6, <2>0, <3>1, <3>2
      <3> QED
        BY <1>6, <2>1, <3>1, <3>3 DEF NormalScanner
    <2>2. CASE s \notin R
      <3>1. g.scanners[s] = c.scanners[s]
        BY <1>2, <1>4, <2>2 DEF Rows
      <3>2. d.scanners[s].sudo = (c.scanners[s].sudo \/ (c.main.sudo /\ Contains(d.names, s)))
        BY <1>6, <2>0, <3>1
      <3> QED
        BY <1>6, <2>2, <3>1, <3>2 DEF NormalScanner
    <2> QED
      BY <2>1, <2>2
  <1>12. NormalSwitches(c, d)
    BY <1>2, <1>5, <1>6 DEF NormalSwitches
  <1> QED
    BY <1>1, <1>5, <1>6, <1>9, <1>10, <1>11, <1>12 DEF Normal

\* What Normalize makes of a configuration is determined but for the order of the names:
\* two configurations with the same names, made of the same one, are the same.
LEMMA NormalEqual ==
  ASSUME NEW c \in Config, NEW d \in Config, Said(c) = Said(d), c.names = d.names,
         c.main.plain = d.main.plain, c.main.scan_interval = d.main.scan_interval,
         c.main.min_scan_interval = d.main.min_scan_interval,
         c.main.networks = d.main.networks, c.main.enable_remote = d.main.enable_remote,
         c.main.sudo = d.main.sudo,
         \A s \in ScannerIds : c.scanners[s] = d.scanners[s],
         \A w \in Switch : c.switches[w] = d.switches[w]
  PROVE  c = d
PROOF
  <1>1. /\ c.main \in MainType /\ d.main \in MainType
        /\ c.scanners \in [ScannerIds -> ScannerType] /\ d.scanners \in [ScannerIds -> ScannerType]
        /\ c.switches \in [Switch -> SwitchType] /\ d.switches \in [Switch -> SwitchType]
    BY ConfigParts
  <1>2. c.main = d.main
    BY <1>1 DEF MainType
  <1>3. c.scanners = d.scanners
    BY <1>1
  <1>4. c.switches = d.switches
    BY <1>1
  <1> QED
    BY <1>2, <1>3, <1>4, ConfigEqual

LEMMA RepairedOnce ==
  ASSUME NEW v \in Int, NEW default \in Int, default > 0
  PROVE  /\ Repaired(v, default) \in Int /\ Repaired(v, default) > 0
         /\ Repaired(Repaired(v, default), default) = Repaired(v, default)
  BY DEF Repaired

\* Main settings, and rows of scanners, with the same fields are the same.
LEMMA SameMain ==
  ASSUME NEW p \in MainType, NEW q \in MainType, p.plain = q.plain, p.sudo = q.sudo,
         p.scan_interval = q.scan_interval, p.min_scan_interval = q.min_scan_interval,
         p.networks = q.networks, p.enable_remote = q.enable_remote
  PROVE  p = q
  BY DEF MainType

LEMMA SameScanner ==
  ASSUME NEW r \in ScannerType, NEW q \in ScannerType, r.known = q.known, r.host = q.host,
         r.sudo = q.sudo, r.networks = q.networks
  PROVE  r = q
  BY DEF ScannerType

\* Normalize changes nothing that it has made.
LEMMA NormalizeTwice ==
  ASSUME NEW c \in Config
  PROVE  Normalize(Normalize(c)) = Normalize(c)
PROOF
  <1> DEFINE d == Normalize(c)
             e == Normalize(d)
             R == Registered(c)
  <1>1. Normal(c, d)
    BY NormalizeShape
  <1> HIDE DEF d
  <1>2. d \in Config /\ Said(d) = Said(c)
    BY <1>1 DEF Normal
  <1>3. Normal(d, e)
    BY <1>2, NormalizeShape
  <1> HIDE DEF e
  <1>4. e \in Config /\ Said(e) = Said(d)
    BY <1>3 DEF Normal
  <1>5. /\ Registered(d) = R /\ \A id : RouterOf(d, id) = RouterOf(c, id)
        /\ d.netNames = c.netNames /\ d.swNames = c.swNames
    BY <1>2, SameSaid
  <1>6. c.main \in MainType /\ d.main \in MainType
    BY <1>2, ConfigParts
  <1>7. e.names = d.names
    <2>1. \A x \in R : Contains(d.names, x)
      BY <1>1 DEF Normal
    <2> QED
      BY <1>3, <1>5, <2>1 DEF Normal
  <1>8. NormalMain(c, d) /\ NormalMain(d, e)
    BY <1>1, <1>3 DEF Normal
  <1>9. /\ e.main.plain = d.main.plain /\ e.main.sudo = d.main.sudo
        /\ e.main.networks = d.main.networks
        /\ e.main.enable_remote = d.main.enable_remote
    <2> HIDE DEF R
    <2>1. d.main.enable_remote \in BOOLEAN
      BY <1>6 DEF MainType
    <2>2. e.main.enable_remote = (d.main.enable_remote \/ R # {})
          /\ d.main.enable_remote = (c.main.enable_remote \/ R # {})
      BY <1>5, <1>8 DEF NormalMain, R
    <2>3. e.main.enable_remote = d.main.enable_remote
      BY <2>1, <2>2
    <2>4. e.main.networks = d.main.networks
      BY <1>5, <1>8 DEF NormalMain
    <2> QED
      BY <1>8, <2>3, <2>4 DEF NormalMain
  <1>10. /\ e.main.scan_interval = d.main.scan_interval
         /\ e.main.min_scan_interval = d.main.min_scan_interval
    <2>1. c.main.scan_interval \in Int /\ c.main.min_scan_interval \in Int
      BY <1>6 DEF MainType
    <2>2. /\ defaultScanInterval \in Int /\ defaultScanInterval > 0
          /\ defaultMinScanInterval \in Int /\ defaultMinScanInterval > 0
      BY DEF defaultScanInterval, defaultMinScanInterval
    <2> QED
      BY <1>8, <2>1, <2>2, RepairedOnce DEF NormalMain
  <1>11. ASSUME NEW s \in ScannerIds PROVE e.scanners[s] = d.scanners[s]
    <2>1. NormalScanner(c, d, s) /\ NormalScanner(d, e, s)
      BY <1>1, <1>3 DEF Normal
    <2>2. d.scanners[s] \in ScannerType /\ e.scanners[s] \in ScannerType
          /\ c.scanners[s] \in ScannerType
      BY <1>2, <1>4, ConfigParts
    <2>3. d.main.sudo = c.main.sudo
      BY <1>8 DEF NormalMain
    <2>4. CASE s \in R
      BY <1>5, <2>1, <2>2, <2>3, <2>4, SameScanner DEF NormalScanner
    <2>5. CASE s \notin R
      <3>1. d.scanners[s].sudo = (c.scanners[s].sudo \/ (c.main.sudo /\ Contains(d.names, s)))
        BY <2>1, <2>5 DEF NormalScanner
      <3>2. e.scanners[s].sudo = (d.scanners[s].sudo \/ (c.main.sudo /\ Contains(d.names, s)))
        BY <1>5, <1>7, <2>1, <2>3, <2>5 DEF NormalScanner
      <3>3. d.scanners[s].sudo \in BOOLEAN
        BY <2>2 DEF ScannerType
      <3>4. e.scanners[s].sudo = d.scanners[s].sudo
        BY <3>1, <3>2, <3>3
      <3> QED
        BY <1>5, <2>1, <2>2, <2>5, <3>4, SameScanner DEF NormalScanner
    <2> QED
      BY <2>4, <2>5
  <1>12. ASSUME NEW w \in Switch PROVE e.switches[w] = d.switches[w]
    <2>1. NormalSwitches(c, d) /\ NormalSwitches(d, e)
      BY <1>1, <1>3 DEF Normal
    <2>2. c.switches[w].timeout \in Int
      BY ConfigParts DEF SwitchType
    <2>3. CASE Contains(c.swNames, w)
      <3>1. d.switches[w] = [known |-> TRUE, timeout |-> Repaired(c.switches[w].timeout, 5)]
        BY <2>1, <2>3 DEF NormalSwitches
      <3>2. e.switches[w] = [known |-> TRUE, timeout |-> Repaired(d.switches[w].timeout, 5)]
        BY <1>5, <2>1, <2>3 DEF NormalSwitches
      <3>3. d.switches[w].timeout = Repaired(c.switches[w].timeout, 5)
        BY <3>1
      <3>4. \A v \in Int : Repaired(Repaired(v, 5), 5) = Repaired(v, 5)
        BY RepairedOnce
      <3>5. Repaired(d.switches[w].timeout, 5) = Repaired(c.switches[w].timeout, 5)
        BY <2>2, <3>3, <3>4
      <3> QED
        BY <3>1, <3>2, <3>5
    <2>4. CASE ~Contains(c.swNames, w)
      BY <1>5, <2>1, <2>4 DEF NormalSwitches
    <2> QED
      BY <2>3, <2>4
  <1>13. e = d
    BY <1>2, <1>4, <1>7, <1>9, <1>10, <1>11, <1>12, NormalEqual
  <1> QED
    BY <1>13 DEF e, d

-----------------------------------------------------------------------------
(* setValue. *)

MainKey(key, v) ==
  \/ key = "plain" /\ v \in Value
  \/ key \in {"scan_interval", "min_scan_interval"} /\ v \in Int
  \/ key = "networks" /\ v \in SUBSET Net
  \/ key \in {"enable_remote", "sudo"} /\ v \in BOOLEAN

RouterKey(key, v) ==
  \/ key \in {"enable", "remote", "sudo"} /\ v \in BOOLEAN
  \/ key = "host" /\ v \in Host
  \/ key = "networks" /\ v \in SUBSET Net

\* What the sections say.
LineKind(l) ==
  \/ l[1] = "main" /\ MainKey(l[3], l[4])
  \/ l[1] = "network_names" /\ l[4] \in Net
  \/ l[1] = "opnsense" /\ RouterKey(l[3], l[4])
  \/ l[1] = "openwrt" /\ RouterKey(l[3], l[4])
  \/ l[1] = "openwrts" /\ l[4] \in Seq(Router)
  \/ l[1] = "openwrt." /\ l[2] \in Router /\ RouterKey(l[3], l[4])
  \/ l[1] = "remote_scanners" /\ l[4] \in Seq(Scanner)
  \/ l[1] = "remote_scanner." /\ l[2] \in Scanner /\ ScannerKey(l[3], l[4])
  \/ l[1] = "switches" /\ l[4] \in Seq(Switch)
  \/ l[1] = "switch." /\ l[2] \in Switch /\ l[4] \in Int

LEMMA SettingKinds ==
  /\ \A s \in MainSetting : MainKey(s[1], s[2])
  /\ \A s \in RouterSetting : RouterKey(s[1], s[2])
  /\ \A s \in RouterSetting \ ({"enable", "remote"} \X BOOLEAN) : ScannerKey(s[1], s[2])
PROOF
  <1>1. \A v \in NetLists : v \in SUBSET Net
    BY DEF NetLists
  <1>2. ASSUME NEW s \in MainSetting PROVE MainKey(s[1], s[2])
    BY <1>1, IntervalAssumption DEF MainSetting, MainKey
  <1>3. ASSUME NEW s \in RouterSetting PROVE RouterKey(s[1], s[2])
    BY <1>1 DEF RouterSetting, RouterKey
  <1>4. ASSUME NEW s \in RouterSetting \ ({"enable", "remote"} \X BOOLEAN)
        PROVE  ScannerKey(s[1], s[2])
    <2>1. RouterKey(s[1], s[2])
      BY <1>3
    <2>2. s = <<s[1], s[2]>>
      BY DEF RouterSetting
    <2>3. ~ (s[1] \in {"enable", "remote"} /\ s[2] \in BOOLEAN)
      BY <2>2
    <2> QED
      BY <2>1, <2>3 DEF RouterKey, ScannerKey
  <1> QED
    BY <1>2, <1>3, <1>4

LEMMA LineKinds ==
  ASSUME NEW l \in Line
  PROVE  LineKind(l)
PROOF
  <1> USE SettingKinds
  <1>1. CASE l \in {<<"main", Unset, s[1], s[2]>> : s \in MainSetting}
    BY <1>1 DEF LineKind
  <1>2. CASE l \in {<<"network_names", Unset, "cidr", n>> : n \in Net}
    BY <1>2 DEF LineKind
  <1>3. CASE l \in {<<sec, Unset, s[1], s[2]>> : sec \in {"opnsense", "openwrt"}, s \in RouterSetting}
    BY <1>3 DEF LineKind
  <1>4. CASE l \in {<<"openwrts", Unset, "names", q>> : q \in {<<r>> : r \in Router}}
    BY <1>4 DEF LineKind
  <1>5. CASE l \in {<<"openwrt.", r, s[1], s[2]>> : r \in Router, s \in RouterSetting}
    BY <1>5 DEF LineKind
  <1>6. CASE l \in {<<"remote_scanners", Unset, "names", q>> : q \in {<<s>> : s \in Scanner}}
    <2>1. PICK s \in Scanner : l = <<"remote_scanners", Unset, "names", <<s>> >>
      BY <1>6
    <2>2. <<s>> \in Seq(Scanner)
      OBVIOUS
    <2>3. l[1] = "remote_scanners" /\ l[4] \in Seq(Scanner)
      BY <2>1, <2>2
    <2> QED
      BY <2>3 DEF LineKind
  <1>7. CASE l \in {<<"remote_scanner.", s, k[1], k[2]>> :
                      s \in Scanner, k \in RouterSetting \ ({"enable", "remote"} \X BOOLEAN)}
    BY <1>7 DEF LineKind
  <1>8. CASE l \in {<<"switches", Unset, "names", q>> : q \in {<<s>> : s \in Switch}}
    <2>1. PICK s \in Switch : l = <<"switches", Unset, "names", <<s>> >>
      BY <1>8
    <2>2. <<s>> \in Seq(Switch)
      OBVIOUS
    <2>3. l[1] = "switches" /\ l[4] \in Seq(Switch)
      BY <2>1, <2>2
    <2> QED
      BY <2>3 DEF LineKind
  <1>9. CASE l \in {<<"switch.", s, "timeout", t>> : s \in Switch, t \in Interval}
    BY <1>9, IntervalAssumption DEF LineKind
  <1> QED
    BY <1>1, <1>2, <1>3, <1>4, <1>5, <1>6, <1>7, <1>8, <1>9 DEF Line

LEMMA SetMain ==
  ASSUME NEW c \in Config, NEW key, NEW v, MainKey(key, v)
  PROVE  LET d == [c EXCEPT !.main[key] = v]
         IN /\ d \in Config /\ Said(d) = Said(c) /\ d.main = [c.main EXCEPT ![key] = v]
            /\ d.names = c.names /\ d.scanners = c.scanners /\ d.switches = c.switches
PROOF
  <1> DEFINE m == [c.main EXCEPT ![key] = v]
             d == [c EXCEPT !.main = m]
  <1>1. c.main \in MainType
    BY ConfigParts
  <1>2. m \in MainType
    <2>1. CASE key = "plain" /\ v \in Value
      BY <1>1, <2>1 DEF MainType
    <2>2. CASE key = "scan_interval" /\ v \in Int
      BY <1>1, <2>2 DEF MainType
    <2>3. CASE key = "min_scan_interval" /\ v \in Int
      BY <1>1, <2>3 DEF MainType
    <2>4. CASE key = "networks" /\ v \in SUBSET Net
      BY <1>1, <2>4 DEF MainType
    <2>5. CASE key = "enable_remote" /\ v \in BOOLEAN
      BY <1>1, <2>5 DEF MainType
    <2>6. CASE key = "sudo" /\ v \in BOOLEAN
      BY <1>1, <2>6 DEF MainType
    <2> QED
      BY <2>1, <2>2, <2>3, <2>4, <2>5, <2>6 DEF MainKey
  <1>3. [c EXCEPT !.main[key] = v] = d
    BY DEF Config
  <1> HIDE DEF m
  <1>4. /\ d \in Config /\ Said(d) = Said(c) /\ d.main = m
        /\ d.names = c.names /\ d.scanners = c.scanners /\ d.switches = c.switches
    BY <1>2, WithMain
  <1> HIDE DEF d
  <1> QED
    BY <1>3, <1>4 DEF m

LEMMA SetRouter ==
  ASSUME NEW r \in RouterType, NEW key, NEW v, RouterKey(key, v)
  PROVE  [r EXCEPT ![key] = v] \in RouterType
PROOF
  <1>1. CASE key = "enable" /\ v \in BOOLEAN
    BY <1>1 DEF RouterType
  <1>2. CASE key = "remote" /\ v \in BOOLEAN
    BY <1>2 DEF RouterType
  <1>3. CASE key = "sudo" /\ v \in BOOLEAN
    BY <1>3 DEF RouterType
  <1>4. CASE key = "host" /\ v \in Host
    BY <1>4 DEF RouterType
  <1>5. CASE key = "networks" /\ v \in SUBSET Net
    BY <1>5 DEF RouterType
  <1> QED
    BY <1>1, <1>2, <1>3, <1>4, <1>5 DEF RouterKey

\* A router is set: everything but the routers stays.
SetsRouters(c, d) ==
  /\ d \in Config /\ d.main = c.main /\ d.names = c.names
  /\ d.scanners = c.scanners /\ d.switches = c.switches
  /\ d.netNames = c.netNames /\ d.swNames = c.swNames

LEMMA SetRoutersShape ==
  ASSUME NEW c \in Config, NEW l, LineKind(l),
         l[1] \in {"opnsense", "openwrt", "openwrts", "openwrt."}
  PROVE  SetsRouters(c, setValue(c, l))
PROOF
  <1> DEFINE d == setValue(c, l)
             key == l[3]
             v == l[4]
  <1>1. c.opnsense \in RouterType /\ c.openwrt \in RouterType
        /\ c.wrts \in [Router -> RouterType] /\ c.wrtNames \in Seq(Router)
    BY ConfigParts
  <1>2. CASE l[1] = "opnsense"
    <2>1. d = [c EXCEPT !.opnsense = [c.opnsense EXCEPT ![key] = v]]
      BY <1>2 DEF setValue, Config
    <2>2. RouterKey(key, v)
      BY <1>2 DEF LineKind
    <2>3. [c.opnsense EXCEPT ![key] = v] \in RouterType
      BY <1>1, <2>2, SetRouter
    <2> DEFINE r == [c.opnsense EXCEPT ![key] = v]
    <2> HIDE DEF r, d, key, v
    <2>4. d = [c EXCEPT !.opnsense = r] /\ r \in RouterType
      BY <2>1, <2>3 DEF r
    <2>5. /\ d \in Config /\ d.main = c.main /\ d.names = c.names
          /\ d.scanners = c.scanners /\ d.switches = c.switches
          /\ d.netNames = c.netNames /\ d.swNames = c.swNames
      BY <2>4 DEF Config
    <2>6. SetsRouters(c, d)
      BY <2>5 DEF SetsRouters
    <2> QED
      BY <2>6 DEF d
  <1>3. CASE l[1] = "openwrt"
    <2>1. d = [c EXCEPT !.openwrt = [c.openwrt EXCEPT ![key] = v]]
      BY <1>3 DEF setValue, Config
    <2>2. RouterKey(key, v)
      BY <1>3 DEF LineKind
    <2>3. [c.openwrt EXCEPT ![key] = v] \in RouterType
      BY <1>1, <2>2, SetRouter
    <2> DEFINE r == [c.openwrt EXCEPT ![key] = v]
    <2> HIDE DEF r, d, key, v
    <2>4. d = [c EXCEPT !.openwrt = r] /\ r \in RouterType
      BY <2>1, <2>3 DEF r
    <2>5. /\ d \in Config /\ d.main = c.main /\ d.names = c.names
          /\ d.scanners = c.scanners /\ d.switches = c.switches
          /\ d.netNames = c.netNames /\ d.swNames = c.swNames
      BY <2>4 DEF Config
    <2>6. SetsRouters(c, d)
      BY <2>5 DEF SetsRouters
    <2> QED
      BY <2>6 DEF d
  <1>4. CASE l[1] = "openwrts"
    <2>1. v \in Seq(Router)
      BY <1>4 DEF LineKind
    <2>2. d = [c EXCEPT !.wrtNames = v]
      BY <1>4 DEF setValue, setOpenWrtNames
    <2> HIDE DEF d, v
    <2>3. /\ d \in Config /\ d.main = c.main /\ d.names = c.names
          /\ d.scanners = c.scanners /\ d.switches = c.switches
          /\ d.netNames = c.netNames /\ d.swNames = c.swNames
      BY <2>1, <2>2 DEF Config
    <2>4. SetsRouters(c, d)
      BY <2>3 DEF SetsRouters
    <2> QED
      BY <2>4 DEF d
  <1>5. CASE l[1] = "openwrt."
    <2> DEFINE id == l[2]
               r == [c.wrts[id] EXCEPT ![key] = v]
               w == [c.wrts EXCEPT ![id] = r]
               q == WithName(c.wrtNames, id)
    <2>1. RouterKey(key, v) /\ id \in Router
      BY <1>5 DEF LineKind
    <2>2. q \in Seq(Router)
      BY <1>1, <2>1, WithNameShape
    <2>3. d = [c EXCEPT !.wrts = w, !.wrtNames = q]
      BY <1>1, <1>5 DEF setValue, setOpenWrtValue, Config
    <2>4. c.wrts[id] \in RouterType
      BY <1>1, <2>1
    <2>5. r \in RouterType
      BY <2>1, <2>4, SetRouter
    <2> HIDE DEF r, d, q, key, v, id
    <2>6. w \in [Router -> RouterType]
      BY <1>1, <2>1, <2>5
    <2> HIDE DEF w
    <2>7. /\ d \in Config /\ d.main = c.main /\ d.names = c.names
          /\ d.scanners = c.scanners /\ d.switches = c.switches
          /\ d.netNames = c.netNames /\ d.swNames = c.swNames
      BY <2>2, <2>3, <2>6 DEF Config
    <2>8. SetsRouters(c, d)
      BY <2>7 DEF SetsRouters
    <2> QED
      BY <2>8 DEF d
  <1> QED
    BY <1>2, <1>3, <1>4, <1>5

LEMMA SetNetworkNames ==
  ASSUME NEW c \in Config, NEW l, l[1] = "network_names", LineKind(l)
  PROVE  LET d == setValue(c, l)
         IN /\ d \in Config /\ d.names = c.names /\ d.scanners = c.scanners
  BY DEF setValue, Config, LineKind

LEMMA SetScannerNames ==
  ASSUME NEW c \in Config, NEW l, l[1] = "remote_scanners", LineKind(l)
  PROVE  LET d == setValue(c, l)
         IN /\ d \in Config /\ Said(d) = Said(c) /\ d.main = c.main
            /\ d.names = l[4] /\ d.switches = c.switches
            /\ \A s \in ScannerIds :
                 /\ d.scanners[s].known = (c.scanners[s].known \/ Contains(l[4], s))
                 /\ d.scanners[s].host = c.scanners[s].host
                 /\ d.scanners[s].sudo = c.scanners[s].sudo
                 /\ d.scanners[s].networks = c.scanners[s].networks
                 /\ ~Contains(l[4], s) => d.scanners[s] = c.scanners[s]
PROOF
  <1> DEFINE q == l[4]
             row(s) == IF Contains(q, s) THEN [c.scanners[s] EXCEPT !.known = TRUE]
                       ELSE c.scanners[s]
             sc == [s \in ScannerIds |-> row(s)]
             d == setValue(c, l)
  <1>1. d = [c EXCEPT !.scanners = sc, !.names = q]
    BY DEF setValue, setRemoteScannerNames, Config
  <1>2. q \in Seq(ScannerIds)
    <2>1. l[4] \in Seq(Scanner)
      BY DEF LineKind
    <2> QED
      BY <2>1 DEF ScannerIds
  <1>3. c.scanners \in [ScannerIds -> ScannerType]
    BY ConfigParts
  <1>4. ASSUME NEW s \in ScannerIds
        PROVE  /\ row(s) \in ScannerType
               /\ row(s).known = (c.scanners[s].known \/ Contains(q, s))
               /\ row(s).host = c.scanners[s].host
               /\ row(s).sudo = c.scanners[s].sudo
               /\ row(s).networks = c.scanners[s].networks
               /\ ~Contains(q, s) => row(s) = c.scanners[s]
    <2>1. c.scanners[s] \in ScannerType
      BY <1>3
    <2>2. CASE Contains(q, s)
      BY <2>1, <2>2 DEF ScannerType
    <2>3. CASE ~Contains(q, s)
      <3>1. c.scanners[s].known \in BOOLEAN
        BY <2>1 DEF ScannerType
      <3> QED
        BY <2>1, <2>3, <3>1
    <2> QED
      BY <2>2, <2>3
  <1> HIDE DEF row
  <1>5. sc \in [ScannerIds -> ScannerType] /\ \A s \in ScannerIds : sc[s] = row(s)
    BY <1>4
  <1> HIDE DEF sc, d, q
  <1>6. \A t \in [ScannerIds -> ScannerType], w \in Seq(ScannerIds) :
          LET e == [c EXCEPT !.scanners = t, !.names = w]
          IN /\ e \in Config /\ Said(e) = Said(c) /\ e.main = c.main
             /\ e.names = w /\ e.scanners = t /\ e.switches = c.switches
    BY WithScanners
  <1>7. /\ d \in Config /\ Said(d) = Said(c) /\ d.main = c.main
        /\ d.names = q /\ d.scanners = sc /\ d.switches = c.switches
    BY <1>1, <1>2, <1>5, <1>6
  <1>8. \A s \in ScannerIds :
          /\ d.scanners[s].known = (c.scanners[s].known \/ Contains(q, s))
          /\ d.scanners[s].host = c.scanners[s].host
          /\ d.scanners[s].sudo = c.scanners[s].sudo
          /\ d.scanners[s].networks = c.scanners[s].networks
          /\ ~Contains(q, s) => d.scanners[s] = c.scanners[s]
    BY <1>4, <1>5, <1>7
  <1> QED
    BY <1>7, <1>8 DEF d, q

LEMMA SetOneScanner ==
  ASSUME NEW c \in Config, NEW l, l[1] = "remote_scanner.", LineKind(l)
  PROVE  l[2] \in Scanner /\ Sets(c, setValue(c, l), l[2], l[3], l[4])
PROOF
  <1>1. l[2] \in Scanner /\ ScannerKey(l[3], l[4])
    BY DEF LineKind
  <1>2. l[2] \in ScannerIds
    BY <1>1 DEF ScannerIds
  <1>3. \A id \in ScannerIds : \A key, v :
          ScannerKey(key, v) => Sets(c, setRemoteScannerValue(c, id, key, v), id, key, v)
    BY SetScanner
  <1>4. setValue(c, l) = setRemoteScannerValue(c, l[2], l[3], l[4])
    BY DEF setValue
  <1> QED
    BY <1>1, <1>2, <1>3, <1>4

\* A switch or the list of switches is set.
SetsSwitch(c, d, l) ==
  /\ d \in Config /\ d.main = c.main /\ d.names = c.names /\ d.scanners = c.scanners
  /\ d.netNames = c.netNames
  /\ d.swNames = (IF l[1] = "switches" THEN l[4] ELSE c.swNames)
  /\ \A w \in Switch : d.switches[w] =
       (IF l[1] = "switch." /\ w = l[2] THEN [known |-> TRUE, timeout |-> l[4]]
        ELSE c.switches[w])

LEMMA SetSwitches ==
  ASSUME NEW c \in Config, NEW l, l[1] \in {"switches", "switch."}, LineKind(l)
  PROVE  SetsSwitch(c, setValue(c, l), l)
PROOF
  <1> DEFINE d == setValue(c, l)
  <1>1. c.swNames \in Seq(Switch) /\ c.switches \in [Switch -> SwitchType]
    BY ConfigParts
  <1>2. CASE l[1] = "switches"
    <2>1. d = [c EXCEPT !.swNames = l[4]] /\ l[4] \in Seq(Switch)
      BY <1>2 DEF setValue, setSwitchNames, LineKind
    <2> HIDE DEF d
    <2>2. /\ d \in Config /\ d.main = c.main /\ d.names = c.names /\ d.scanners = c.scanners
          /\ d.netNames = c.netNames /\ d.swNames = l[4] /\ d.switches = c.switches
      BY <2>1 DEF Config
    <2>3. SetsSwitch(c, d, l)
      BY <1>2, <2>2 DEF SetsSwitch
    <2> QED
      BY <2>3 DEF d
  <1>3. CASE l[1] = "switch."
    <2> DEFINE r == [known |-> TRUE, timeout |-> l[4]]
               sw == [c.switches EXCEPT ![l[2]] = r]
    <2>1. l[2] \in Switch /\ l[4] \in Int
      BY <1>3 DEF LineKind
    <2>2. d = [c EXCEPT !.switches = sw]
      BY <1>3 DEF setValue, setSwitchValue, Config
    <2>3. r \in SwitchType
      BY <2>1 DEF SwitchType
    <2> HIDE DEF r, d
    <2>4. /\ sw \in [Switch -> SwitchType]
          /\ \A w \in Switch : sw[w] = IF w = l[2] THEN r ELSE c.switches[w]
      BY <1>1, <2>1, <2>3
    <2> HIDE DEF sw
    <2>5. /\ d \in Config /\ d.main = c.main /\ d.names = c.names /\ d.scanners = c.scanners
          /\ d.netNames = c.netNames /\ d.swNames = c.swNames /\ d.switches = sw
      BY <2>2, <2>4 DEF Config
    <2>6. SetsSwitch(c, d, l)
      BY <1>3, <2>4, <2>5 DEF r, SetsSwitch
    <2> QED
      BY <2>6 DEF d
  <1> QED
    BY <1>2, <1>3

\* Every scanner that is named is configured.
Named(c) == \A id \in ScannerIds : Contains(c.names, id) => c.scanners[id].known = TRUE

\* A setting keeps a configuration one.
LEMMA SetValueTyped ==
  ASSUME NEW c \in Config, NEW l \in Line
  PROVE  setValue(c, l) \in Config /\ (Named(c) => Named(setValue(c, l)))
PROOF
  <1> DEFINE d == setValue(c, l)
  <1>1. LineKind(l)
    BY LineKinds
  <1>2. CASE l[1] = "main"
    <2>1. MainKey(l[3], l[4])
      BY <1>1, <1>2 DEF LineKind
    <2>2. d = [c EXCEPT !.main[l[3]] = l[4]]
      BY <1>2 DEF setValue
    <2> HIDE DEF d
    <2>3. /\ d \in Config /\ d.names = c.names /\ d.scanners = c.scanners
      BY <2>1, <2>2, SetMain
    <2> QED
      BY <2>3 DEF d, Named
  <1>3. CASE l[1] = "network_names"
    BY <1>1, <1>3, SetNetworkNames DEF Named
  <1>4. CASE l[1] \in {"opnsense", "openwrt", "openwrts", "openwrt."}
    BY <1>1, <1>4, SetRoutersShape DEF Named, SetsRouters
  <1>5. CASE l[1] = "remote_scanners"
    <2>1. /\ d \in Config /\ d.names = l[4]
          /\ \A s \in ScannerIds : d.scanners[s].known = (c.scanners[s].known \/ Contains(l[4], s))
      BY <1>1, <1>5, SetScannerNames
    <2> HIDE DEF d
    <2> QED
      BY <2>1 DEF d, Named
  <1>6. CASE l[1] = "remote_scanner."
    <2>1. l[2] \in Scanner /\ Sets(c, d, l[2], l[3], l[4])
      BY <1>1, <1>6, SetOneScanner
    <2> HIDE DEF d
    <2>2. /\ d \in Config /\ d.names = WithName(c.names, l[2])
          /\ d.scanners[l[2]].known = TRUE
          /\ \A s \in ScannerIds \ {l[2]} : d.scanners[s] = c.scanners[s]
      BY <2>1 DEF Sets
    <2>3. c.names \in Seq(ScannerIds) /\ l[2] \in ScannerIds
      BY <2>1, ConfigParts DEF ScannerIds
    <2>4. \A x : Contains(d.names, x) <=> Contains(c.names, x) \/ x = l[2]
      BY <2>2, <2>3, WithNameShape
    <2> QED
      BY <2>2, <2>4 DEF d, Named
  <1>7. CASE l[1] \in {"switches", "switch."}
    <2>1. SetsSwitch(c, d, l)
      BY <1>1, <1>7, SetSwitches
    <2> HIDE DEF d
    <2> QED
      BY <2>1 DEF d, Named, SetsSwitch
  <1> HIDE DEF d
  <1>8. \/ l[1] = "main" \/ l[1] = "network_names"
        \/ l[1] \in {"opnsense", "openwrt", "openwrts", "openwrt."}
        \/ l[1] = "remote_scanners" \/ l[1] = "remote_scanner."
        \/ l[1] \in {"switches", "switch."}
    BY <1>1 DEF LineKind
  <1> QED
    BY <1>2, <1>3, <1>4, <1>5, <1>6, <1>7, <1>8 DEF d

-----------------------------------------------------------------------------
(* The environment. *)

Good == {c \in Config : Named(c)}

\* The configurations on the way through the variables of S.
Overlaid(m, c, e, S) ==
  /\ m[0] = c
  /\ \A n \in 1..Len(e) : m[n] = IF e[n] \in S THEN setValue(m[n-1], e[n]) ELSE m[n-1]

LEMMA OverlayUnfolds ==
  ASSUME NEW c \in Config, NEW e \in Seq(Line), NEW S
  PROVE  \E m : Overlaid(m, c, e, S) /\ Overlay(c, e, S) = m[Len(e)]
PROOF
  <1> DEFINE N == Len(e)
             Step(x, n) == IF e[n] \in S THEN setValue(x, e[n]) ELSE x
             F == [n \in 1..N |-> [x \in Config |-> Step(x, n)]]
             m[n \in 0..N] == IF n = 0 THEN c
                              ELSE IF e[n] \in S THEN setValue(m[n-1], e[n]) ELSE m[n-1]
  <1>1. N \in Nat /\ \A n \in 1..N : e[n] \in Line
    OBVIOUS
  <1>2. Overlay(c, e, S) = m[N]
    BY DEF Overlay
  <1> HIDE DEF N
  <1>3. \A n \in 1..N, x \in Config : Step(x, n) \in Config
    BY <1>1, SetValueTyped
  <1>4. F \in [1..N -> [Config -> Config]]
    BY <1>3
  <1>5. PICK g \in [0..N -> Config] : Applied(g, F, N, c)
    <2> HIDE DEF F, m
    <2> QED
      BY <1>1, <1>4, OneAfterTheOther
  <1>6. \A n \in 1..N : g[n] = Step(g[n-1], n)
    <2> SUFFICES ASSUME NEW n \in 1..N
                 PROVE  g[n] = Step(g[n-1], n)
      OBVIOUS
    <2>1. n - 1 \in 0..N
      BY <1>1
    <2> QED
      BY <1>5, <2>1 DEF Applied
  <1>7. g = [n \in 0..N |-> IF n = 0 THEN c
                            ELSE IF e[n] \in S THEN setValue(g[n-1], e[n]) ELSE g[n-1]]
    <2>1. \A n \in 0..N : n # 0 => n \in 1..N
      BY <1>1
    <2> QED
      BY <1>5, <1>6, <2>1 DEF Applied
  <1>8. m = [n \in 0..N |-> IF n = 0 THEN c
                            ELSE IF e[n] \in S THEN setValue(m[n-1], e[n]) ELSE m[n-1]]
    BY <1>7
  <1> HIDE DEF m
  <1>9. \A n \in 0..N : m[n] = IF n = 0 THEN c
                               ELSE IF e[n] \in S THEN setValue(m[n-1], e[n]) ELSE m[n-1]
    BY <1>8
  <1>10. m[0] = c /\ \A n \in 1..N : m[n] = IF e[n] \in S THEN setValue(m[n-1], e[n]) ELSE m[n-1]
    BY <1>1, <1>9
  <1>11. Overlaid(m, c, e, S)
    BY <1>10 DEF Overlaid, N
  <1> QED
    BY <1>2, <1>11 DEF N

\* Variables keep a configuration one whose named scanners are configured.
LEMMA OverlayTyped ==
  ASSUME NEW c \in Good, NEW e \in Seq(Line), NEW S
  PROVE  Overlay(c, e, S) \in Good
PROOF
  <1> DEFINE N == Len(e)
  <1>0. c \in Config
    BY DEF Good
  <1>1. PICK m : Overlaid(m, c, e, S) /\ Overlay(c, e, S) = m[N]
    BY <1>0, OverlayUnfolds
  <1>2. N \in Nat /\ \A n \in 1..N : e[n] \in Line
    OBVIOUS
  <1>3. m[0] = c
        /\ \A n \in 1..N : m[n] = IF e[n] \in S THEN setValue(m[n-1], e[n]) ELSE m[n-1]
    BY <1>1 DEF Overlaid
  <1> HIDE DEF N
  <1> DEFINE T == {n \in Nat : n <= N => m[n] \in Good}
  <1>4. 0 \in T
    BY <1>3
  <1>5. ASSUME NEW n \in T PROVE n + 1 \in T
    <2>1. n \in Nat
      OBVIOUS
    <2> SUFFICES ASSUME n + 1 <= N PROVE m[n+1] \in Good
      BY <2>1
    <2>2. n + 1 \in 1..N /\ n <= N /\ (n + 1) - 1 = n
      BY <1>2, <2>1
    <2>3. m[n] \in Good /\ e[n+1] \in Line
      BY <1>2, <2>2
    <2>4. m[n+1] = IF e[n+1] \in S THEN setValue(m[n], e[n+1]) ELSE m[n]
      BY <1>3, <2>2
    <2>5. setValue(m[n], e[n+1]) \in Good
      BY <2>3, SetValueTyped DEF Good
    <2> QED
      BY <2>3, <2>4, <2>5
  <1>6. T \in SUBSET Nat
    OBVIOUS
  <1> HIDE DEF T
  <1>7. T = Nat
    BY <1>4, <1>5, <1>6, NatInduct
  <1>8. N \in T /\ N <= N
    BY <1>2, <1>7
  <1>9. m[N] \in Good
    BY <1>8 DEF T
  <1> QED
    BY <1>1, <1>9

LEMMA EnvironTyped ==
  ASSUME NEW c \in Good, NEW e \in Seq(Line)
  PROVE  Environ(c, e) \in Good
PROOF
  <1>1. \A x \in Good : \A S : Overlay(x, e, S) \in Good
    BY OverlayTyped
  <1>2. \A x \in Good : EnvMain(x, e) \in Good
    BY <1>1 DEF EnvMain
  <1>3. \A x \in Good : EnvOpenWrts(x, e) \in Good
    BY <1>1 DEF EnvOpenWrts
  <1>4. \A x \in Good : EnvOPNsense(x, e) \in Good
    BY <1>1 DEF EnvOPNsense
  <1>5. \A x \in Good : EnvSwitches(x, e) \in Good
    BY <1>1 DEF EnvSwitches
  <1>6. \A x \in Good : EnvRemoteScanners(x, e) \in Good
    BY <1>1 DEF EnvRemoteScanners
  <1> QED
    BY <1>2, <1>3, <1>4, <1>5, <1>6 DEF Environ

LEMMA NormalizeTyped ==
  ASSUME NEW c \in Good
  PROVE  Normalize(c) \in Good
PROOF
  <1> DEFINE d == Normalize(c)
  <1>1. c \in Config /\ Named(c)
    BY DEF Good
  <1>2. Normal(c, d)
    BY <1>1, NormalizeShape
  <1> HIDE DEF d
  <1>3. d \in Config
    BY <1>2 DEF Normal
  <1>4. ASSUME NEW id \in ScannerIds, Contains(d.names, id)
        PROVE  d.scanners[id].known = TRUE
    <2>1. Contains(c.names, id) \/ id \in Registered(c)
      BY <1>2, <1>4 DEF Normal
    <2>2. NormalScanner(c, d, id)
      BY <1>2 DEF Normal
    <2> QED
      BY <1>1, <2>1, <2>2 DEF Named, NormalScanner
  <1> QED
    BY <1>3, <1>4 DEF d, Good, Named

-----------------------------------------------------------------------------
(* The invariant: every stage's configuration is what Normalize has made of the one *)
(* before it.                                                                       *)

CfgTyped == /\ cfg \in Good /\ plainFile \in Good
            /\ env \in Seq(EnvLine)
            /\ stage \in {"file", "loaded", "ready", "serving"}

CfgMade ==
  /\ stage = "loaded" => cfg = Normalize(plainFile)
  /\ stage \in {"ready", "serving"} => cfg = Normalize(Environ(Normalize(plainFile), env))

IInv == CfgTyped /\ CfgMade

LEMMA EnvIsLines ==
  ASSUME NEW e \in Seq(EnvLine)
  PROVE  e \in Seq(Line)
PROOF
  <1>1. EnvLine \subseteq Line
    BY DEF EnvLine
  <1> HIDE DEF EnvLine, Line
  <1> QED
    BY <1>1

LEMMA DefaultGood == Default \in Good
PROOF
  <1> DEFINE m == [plain |-> Unset, scan_interval |-> defaultScanInterval,
                   min_scan_interval |-> defaultMinScanInterval, networks |-> {},
                   enable_remote |-> FALSE, sudo |-> FALSE]
  <1>1. NewRouter \in RouterType
    BY DEF NewRouter, RouterType
  <1>2. NewScanner \in ScannerType
    BY DEF NewScanner, ScannerType
  <1>3. NewSwitch \in SwitchType
    BY DEF NewSwitch, SwitchType
  <1>4. m \in MainType
    BY DEF MainType, defaultScanInterval, defaultMinScanInterval
  <1>5. /\ [s \in ScannerIds |-> NewScanner] \in [ScannerIds -> ScannerType]
        /\ [r \in Router |-> NewRouter] \in [Router -> RouterType]
        /\ [w \in Switch |-> NewSwitch] \in [Switch -> SwitchType]
    BY <1>1, <1>2, <1>3
  <1>6. <<>> \in Seq(Router) /\ <<>> \in Seq(ScannerIds) /\ <<>> \in Seq(Switch)
    OBVIOUS
  <1>7. Default \in Config
    BY <1>1, <1>4, <1>5, <1>6 DEF Default, Config
  <1>8. \A id : ~Contains(Default.names, id)
    BY DEF Default, Contains
  <1> QED
    BY <1>7, <1>8 DEF Good, Named

LEMMA InitInvariant == Init => IInv
PROOF
  <1> SUFFICES ASSUME Init PROVE IInv
    OBVIOUS
  <1>1. cfg \in Good /\ plainFile \in Good
    BY DefaultGood DEF Init
  <1>2. env \in Seq(EnvLine) /\ stage = "file"
    <2> HIDE DEF EnvLine
    <2> QED
      BY DEF Init
  <1> QED
    BY <1>1, <1>2 DEF IInv, CfgTyped, CfgMade

LEMMA NextInvariant == IInv /\ [Next]_vars => IInv'
PROOF
  <1> SUFFICES ASSUME IInv, [Next]_vars PROVE IInv'
    OBVIOUS
  <1>0. /\ cfg \in Good /\ plainFile \in Good /\ env \in Seq(EnvLine)
        /\ stage \in {"file", "loaded", "ready", "serving"}
    BY DEF IInv, CfgTyped
  <1>1. CASE ReadLine
    <2>1. PICK l \in Line : cfg' = setValue(cfg, l)
      BY <1>1 DEF ReadLine
    <2>2. cfg' \in Good
      BY <1>0, <2>1, SetValueTyped DEF Good
    <2>3. stage' = "file" /\ env' = env /\ plainFile' = plainFile
      BY <1>1 DEF ReadLine
    <2> QED
      BY <1>0, <2>2, <2>3 DEF IInv, CfgTyped, CfgMade
  <1>2. CASE Load
    <2>1. /\ plainFile' = cfg /\ cfg' = Normalize(cfg) /\ stage' = "loaded" /\ env' = env
      BY <1>2 DEF Load
    <2>2. cfg' \in Good
      BY <1>0, <2>1, NormalizeTyped
    <2> QED
      BY <1>0, <2>1, <2>2 DEF IInv, CfgTyped, CfgMade
  <1>3. CASE SetVariable
    <2>1. PICK l \in EnvLine : env' = Append(env, l)
      BY <1>3 DEF SetVariable
    <2>2. env' \in Seq(EnvLine)
      BY <1>0, <2>1
    <2>3. stage = "loaded" /\ stage' = stage /\ cfg' = cfg /\ plainFile' = plainFile
      BY <1>3 DEF SetVariable
    <2> QED
      BY <1>0, <2>2, <2>3 DEF IInv, CfgTyped, CfgMade
  <1>4. CASE ApplyEnv
    <2>1. /\ stage = "loaded" /\ cfg' = Normalize(Environ(cfg, env)) /\ stage' = "ready"
          /\ env' = env /\ plainFile' = plainFile
      BY <1>4 DEF ApplyEnv
    <2>2. cfg = Normalize(plainFile)
      BY <2>1 DEF IInv, CfgMade
    <2>3. Environ(cfg, env) \in Good
      BY <1>0, EnvIsLines, EnvironTyped
    <2>4. cfg' \in Good
      BY <2>1, <2>3, NormalizeTyped
    <2>5. CfgTyped'
      BY <1>0, <2>1, <2>4 DEF CfgTyped
    <2>6. CfgMade'
      BY <2>1, <2>2 DEF CfgMade
    <2> QED
      BY <2>5, <2>6 DEF IInv
  <1>5. CASE runServe
    <2> DEFINE x == Environ(Normalize(plainFile), env)
    <2>1. /\ stage = "ready" /\ cfg' = Normalize(cfg) /\ stage' = "serving"
          /\ env' = env /\ plainFile' = plainFile
      BY <1>5 DEF runServe
    <2>2. cfg = Normalize(x)
      BY <2>1 DEF IInv, CfgMade
    <2>3. x \in Good
      BY <1>0, EnvIsLines, EnvironTyped, NormalizeTyped
    <2> HIDE DEF x
    <2>4. cfg' = cfg
      BY <2>1, <2>2, <2>3, NormalizeTwice DEF Good
    <2>5. CfgTyped'
      BY <1>0, <2>1, <2>4 DEF CfgTyped
    <2>6. CfgMade'
      BY <2>1, <2>2, <2>4 DEF CfgMade, x
    <2> QED
      BY <2>5, <2>6 DEF IInv
  <1>6. CASE UNCHANGED vars
    BY <1>6 DEF vars, IInv, CfgTyped, CfgMade
  <1> QED
    BY <1>1, <1>2, <1>3, <1>4, <1>5, <1>6 DEF Next

\* At every stage the configuration is one whose named scanners are configured, and is
\* what Normalize has made of the stage before: of the file, and of that with the
\* environment over it (config.go, Load, ApplyEnv and Normalize).
THEOREM Invariant == Spec => []IInv
PROOF
  <1>1. Init => IInv
    BY InitInvariant
  <1>2. IInv /\ [Next]_vars => IInv'
    BY NextInvariant
  <1> QED
    BY <1>1, <1>2, PTL DEF Spec

\* Past the file, the configuration is what Normalize has made of another one.
LEMMA MadeByNormalize ==
  ASSUME IInv, stage # "file"
  PROVE  \E x \in Good : cfg = Normalize(x)
PROOF
  <1>0. plainFile \in Good /\ env \in Seq(Line)
    BY EnvIsLines DEF IInv, CfgTyped
  <1>1. CASE stage = "loaded"
    BY <1>0, <1>1 DEF IInv, CfgMade
  <1>2. CASE stage \in {"ready", "serving"}
    <2>1. Environ(Normalize(plainFile), env) \in Good
      BY <1>0, NormalizeTyped, EnvironTyped
    <2> QED
      BY <1>2, <2>1 DEF IInv, CfgMade
  <1> QED
    BY <1>1, <1>2 DEF IInv, CfgTyped

\* Normalize run again, as runServe does after the flags, changes nothing: nothing is
\* registered or listed twice, nothing repaired or spread differently, for any routers,
\* scanners and switches and whatever file and environment say (config.go, Normalize).
THEOREM NormalizesOnce == Spec => []NormalizeOnceIsEnough
PROOF
  <1>1. IInv => NormalizeOnceIsEnough
    <2> SUFFICES ASSUME IInv, stage # "file" PROVE Normalize(cfg) = cfg
      BY DEF NormalizeOnceIsEnough
    <2>1. PICK x \in Good : cfg = Normalize(x)
      BY MadeByNormalize
    <2> QED
      BY <2>1, NormalizeTwice DEF Good
  <1> QED
    BY <1>1, Invariant, PTL

\* Whatever file and environment say, the configuration in force configures every
\* scanner and switch it names, leaves no interval that turns scanning or its limit off,
\* and scans the networks it has names for if it lists none (config.go, Normalize).
THEOREM InForceUsable == Spec => []InForceIsUsable
PROOF
  <1>1. IInv => InForceIsUsable
    <2> SUFFICES ASSUME IInv, stage # "file"
                 PROVE  /\ \A id \in Range(cfg.names) : cfg.scanners[id].known
                        /\ \A id \in Range(cfg.swNames) :
                             cfg.switches[id].known /\ cfg.switches[id].timeout > 0
                        /\ cfg.main.scan_interval > 0 /\ cfg.main.min_scan_interval > 0
                        /\ cfg.netNames # {} => cfg.main.networks # {}
      BY DEF InForceIsUsable
    <2>1. PICK x \in Good : cfg = Normalize(x)
      BY MadeByNormalize
    <2>2. x \in Config /\ cfg \in Good
      BY <2>1 DEF Good, IInv, CfgTyped
    <2>3. Normal(x, cfg)
      BY <2>1, <2>2, NormalizeShape
    <2>4. cfg \in Config /\ Named(cfg)
      BY <2>2 DEF Good
    <2>5. cfg.names \in Seq(ScannerIds) /\ cfg.swNames \in Seq(Switch) /\ x.main \in MainType
          /\ x.switches \in [Switch -> SwitchType]
      BY <2>2, <2>4, ConfigParts
    <2>6. ASSUME NEW id \in Range(cfg.names) PROVE cfg.scanners[id].known
      <3>1. Contains(cfg.names, id) /\ id \in ScannerIds
        BY <2>5, RangeContains
      <3> QED
        BY <2>4, <3>1 DEF Named
    <2>7. ASSUME NEW id \in Range(cfg.swNames)
          PROVE  cfg.switches[id].known /\ cfg.switches[id].timeout > 0
      <3>1. Contains(cfg.swNames, id) /\ id \in Switch
        BY <2>5, RangeContains
      <3>2. x.swNames = cfg.swNames
        BY <2>3, SameSaid DEF Normal
      <3>3. cfg.switches[id] = [known |-> TRUE, timeout |-> Repaired(x.switches[id].timeout, 5)]
        BY <2>3, <3>1, <3>2 DEF Normal, NormalSwitches
      <3>4. x.switches[id].timeout \in Int
        BY <2>5, <3>1 DEF SwitchType
      <3>5. Repaired(x.switches[id].timeout, 5) > 0
        BY <3>4 DEF Repaired
      <3> QED
        BY <3>3, <3>5
    <2>8. cfg.main.scan_interval > 0 /\ cfg.main.min_scan_interval > 0
      BY <2>3, <2>5 DEF Normal, NormalMain, MainType, Repaired, defaultScanInterval,
                        defaultMinScanInterval
    <2>9. cfg.netNames # {} => cfg.main.networks # {}
      <3>1. x.netNames = cfg.netNames
        BY <2>3, SameSaid DEF Normal
      <3> QED
        BY <2>3, <3>1 DEF Normal, NormalMain
    <2> QED
      BY <2>6, <2>7, <2>8, <2>9
  <1> QED
    BY <1>1, Invariant, PTL

-----------------------------------------------------------------------------
(* The environment over the file and over what Normalize has made of the file. *)

\* After the same settings, what Normalize works from is the same.
LEMMA SaidAfter ==
  ASSUME NEW a \in Config, NEW b \in Config, Said(a) = Said(b), NEW l, LineKind(l)
  PROVE  Said(setValue(a, l)) = Said(setValue(b, l))
PROOF
  <1>0. /\ a.netNames = b.netNames /\ a.opnsense = b.opnsense /\ a.openwrt = b.openwrt
        /\ a.wrtNames = b.wrtNames /\ a.wrts = b.wrts /\ a.swNames = b.swNames
    BY DEF Said
  <1>1. CASE l[1] = "main"
    BY <1>0, <1>1 DEF setValue, Said, Config
  <1>2. CASE l[1] = "network_names"
    BY <1>0, <1>2 DEF setValue, Said, Config
  <1>3. CASE l[1] = "opnsense"
    BY <1>0, <1>3 DEF setValue, Said, Config
  <1>4. CASE l[1] = "openwrt"
    BY <1>0, <1>4 DEF setValue, Said, Config
  <1>5. CASE l[1] = "openwrts"
    BY <1>0, <1>5 DEF setValue, setOpenWrtNames, Said, Config
  <1>6. CASE l[1] = "openwrt."
    BY <1>0, <1>6 DEF setValue, setOpenWrtValue, Said, Config
  <1>7. CASE l[1] = "remote_scanners"
    BY <1>0, <1>7 DEF setValue, setRemoteScannerNames, Said, Config
  <1>8. CASE l[1] = "remote_scanner."
    BY <1>0, <1>8 DEF setValue, setRemoteScannerValue, Said, Config
  <1>9. CASE l[1] = "switches"
    BY <1>0, <1>9 DEF setValue, setSwitchNames, Said, Config
  <1>10. CASE l[1] = "switch."
    BY <1>0, <1>10 DEF setValue, setSwitchValue, Said, Config
  <1> QED
    BY <1>1, <1>2, <1>3, <1>4, <1>5, <1>6, <1>7, <1>8, <1>9, <1>10 DEF LineKind

Adopted(c) == IF c.main.networks = {} THEN c.netNames ELSE c.main.networks

AlikeMain(f, a, b) ==
  /\ a.main.plain = b.main.plain /\ a.main.sudo = b.main.sudo
  /\ Repaired(a.main.scan_interval, defaultScanInterval)
       = Repaired(b.main.scan_interval, defaultScanInterval)
  /\ Repaired(a.main.min_scan_interval, defaultMinScanInterval)
       = Repaired(b.main.min_scan_interval, defaultMinScanInterval)
  /\ Adopted(a) = Adopted(b)
  /\ a.main.enable_remote = b.main.enable_remote \/ Registered(f) # {}

AlikeScanner(f, a, b, s) ==
  LET p == a.scanners[s]
      q == b.scanners[s]
  IN IF s \in Registered(f)
     THEN p.networks = q.networks \/ RouterOf(f, s).networks # {}
     ELSE /\ p.known = q.known /\ p.host = q.host /\ p.networks = q.networks
          /\ p.sudo = q.sudo \/ f.main.sudo

\* a and b, which have come from f without and with an early Normalize, differ in what a
\* later Normalize makes the same, as long as the routers of f and its sudo stay on.
Alike(f, a, b) ==
  /\ a \in Config /\ b \in Config /\ Said(a) = Said(b)
  /\ AlikeMain(f, a, b)
  /\ \A x : x \notin Registered(f) => (Contains(a.names, x) <=> Contains(b.names, x))
  /\ \A s \in ScannerIds : AlikeScanner(f, a, b, s)
  /\ \A w \in Switch : Repaired(a.switches[w].timeout, 5) = Repaired(b.switches[w].timeout, 5)

\* A variable that does not set the scanner of a router that f registers.
Harmless(f, l) == l[1] = "remote_scanner." => l[2] \notin Registered(f)

\* A configuration is like itself normalized.
LEMMA AlikeAtFirst ==
  ASSUME NEW f \in Config
  PROVE  Alike(f, f, Normalize(f))
PROOF
  <1> DEFINE d == Normalize(f)
  <1>1. Normal(f, d)
    BY NormalizeShape
  <1> HIDE DEF d
  <1>2. d \in Config /\ Said(d) = Said(f)
    BY <1>1 DEF Normal
  <1>3. /\ f.main \in MainType /\ f.scanners \in [ScannerIds -> ScannerType]
        /\ f.switches \in [Switch -> SwitchType]
    BY ConfigParts
  <1>4. d.netNames = f.netNames
    BY <1>2, SameSaid
  <1>5. AlikeMain(f, f, d)
    <2>1. NormalMain(f, d)
      BY <1>1 DEF Normal
    <2>2. f.main.scan_interval \in Int /\ f.main.min_scan_interval \in Int
          /\ f.main.enable_remote \in BOOLEAN
      BY <1>3 DEF MainType
    <2>3. /\ defaultScanInterval \in Int /\ defaultScanInterval > 0
          /\ defaultMinScanInterval \in Int /\ defaultMinScanInterval > 0
      BY DEF defaultScanInterval, defaultMinScanInterval
    <2>4. Repaired(f.main.scan_interval, defaultScanInterval)
            = Repaired(d.main.scan_interval, defaultScanInterval)
      BY <2>1, <2>2, <2>3, RepairedOnce DEF NormalMain
    <2>5. Repaired(f.main.min_scan_interval, defaultMinScanInterval)
            = Repaired(d.main.min_scan_interval, defaultMinScanInterval)
      BY <2>1, <2>2, <2>3, RepairedOnce DEF NormalMain
    <2>6. Adopted(f) = Adopted(d)
      BY <1>4, <2>1 DEF NormalMain, Adopted
    <2>7. f.main.enable_remote = d.main.enable_remote \/ Registered(f) # {}
      BY <2>1, <2>2 DEF NormalMain
    <2> QED
      BY <2>1, <2>4, <2>5, <2>6, <2>7 DEF NormalMain, AlikeMain
  <1>6. \A x : x \notin Registered(f) => (Contains(f.names, x) <=> Contains(d.names, x))
    BY <1>1 DEF Normal
  <1>7. ASSUME NEW s \in ScannerIds PROVE AlikeScanner(f, f, d, s)
    <2>1. NormalScanner(f, d, s)
      BY <1>1 DEF Normal
    <2>2. CASE s \in Registered(f)
      BY <2>1, <2>2 DEF NormalScanner, AlikeScanner
    <2>3. CASE s \notin Registered(f)
      <3>1. f.scanners[s].sudo \in BOOLEAN /\ f.main.sudo \in BOOLEAN
        BY <1>3 DEF ScannerType, MainType
      <3>2. f.scanners[s].sudo = d.scanners[s].sudo \/ f.main.sudo
        BY <2>1, <2>3, <3>1 DEF NormalScanner
      <3> QED
        BY <2>1, <2>3, <3>2 DEF NormalScanner, AlikeScanner
    <2> QED
      BY <2>2, <2>3
  <1>8. ASSUME NEW w \in Switch
        PROVE  Repaired(f.switches[w].timeout, 5) = Repaired(d.switches[w].timeout, 5)
    <2>1. f.switches[w].timeout \in Int
      BY <1>3 DEF SwitchType
    <2>2. \A v \in Int : Repaired(Repaired(v, 5), 5) = Repaired(v, 5)
      BY RepairedOnce
    <2>3. \/ d.switches[w] = f.switches[w]
          \/ d.switches[w] = [known |-> TRUE, timeout |-> Repaired(f.switches[w].timeout, 5)]
      BY <1>1 DEF Normal, NormalSwitches
    <2>4. CASE d.switches[w] = f.switches[w]
      BY <2>4
    <2>5. CASE d.switches[w] = [known |-> TRUE, timeout |-> Repaired(f.switches[w].timeout, 5)]
      <3>1. d.switches[w].timeout = Repaired(f.switches[w].timeout, 5)
        BY <2>5
      <3> QED
        BY <2>1, <2>2, <3>1
    <2> QED
      BY <2>3, <2>4, <2>5
  <1>9. Alike(f, f, d)
    BY <1>2, <1>5, <1>6, <1>7, <1>8 DEF Alike
  <1> QED
    BY <1>9 DEF d

\* A main setting is the same on both sides afterwards.
LEMMA AlikeMainStep ==
  ASSUME NEW f, NEW a \in Config, NEW b \in Config, AlikeMain(f, a, b),
         NEW c \in Config, NEW d \in Config, NEW key, NEW v, MainKey(key, v),
         c.main = [a.main EXCEPT ![key] = v], d.main = [b.main EXCEPT ![key] = v],
         c.netNames = d.netNames, c.netNames = a.netNames, d.netNames = b.netNames
  PROVE  AlikeMain(f, c, d)
PROOF
  <1>1. a.main \in MainType /\ b.main \in MainType
    BY ConfigParts
  <1>2. CASE key = "plain"
    BY <1>1, <1>2 DEF MainType, AlikeMain, Adopted
  <1>3. CASE key = "scan_interval"
    BY <1>1, <1>3 DEF MainType, AlikeMain, Adopted
  <1>4. CASE key = "min_scan_interval"
    BY <1>1, <1>4 DEF MainType, AlikeMain, Adopted
  <1>5. CASE key = "networks"
    BY <1>1, <1>5 DEF MainType, AlikeMain, Adopted
  <1>6. CASE key = "enable_remote"
    BY <1>1, <1>6 DEF MainType, AlikeMain, Adopted
  <1>7. CASE key = "sudo"
    BY <1>1, <1>7 DEF MainType, AlikeMain, Adopted
  <1> QED
    BY <1>2, <1>3, <1>4, <1>5, <1>6, <1>7 DEF MainKey

\* A main setting changes nothing but itself.
MainSet(b, key, v) == [b EXCEPT !.main[key] = v]

LEMMA MainAfter ==
  ASSUME NEW b \in Config, NEW e, NEW key, NEW v, MainKey(key, v), e = MainSet(b, key, v)
  PROVE  /\ Said(e) = Said(b) /\ e.main = [b.main EXCEPT ![key] = v]
         /\ e.names = b.names /\ e.scanners = b.scanners /\ e.switches = b.switches
PROOF
  BY SetMain DEF MainSet

\* The same variable keeps two configurations alike, if it is harmless.
LEMMA AlikeStep ==
  ASSUME NEW f \in Config, NEW a, NEW b, Alike(f, a, b), NEW l \in EnvLine, Harmless(f, l)
  PROVE  Alike(f, setValue(a, l), setValue(b, l))
PROOF
  <1> DEFINE c == setValue(a, l)
             d == setValue(b, l)
             R == Registered(f)
  <1>0. /\ a \in Config /\ b \in Config /\ Said(a) = Said(b)
        /\ AlikeMain(f, a, b)
        /\ \A x : x \notin R => (Contains(a.names, x) <=> Contains(b.names, x))
        /\ \A s \in ScannerIds : AlikeScanner(f, a, b, s)
        /\ \A w \in Switch : Repaired(a.switches[w].timeout, 5) = Repaired(b.switches[w].timeout, 5)
    BY DEF Alike
  <1>1. l \in Line /\ l[1] # "network_names"
    BY DEF EnvLine
  <1>2. LineKind(l)
    BY <1>1, LineKinds
  <1>3. Said(c) = Said(d)
    BY <1>0, <1>2, SaidAfter
  <1>4. c \in Config /\ d \in Config
    BY <1>0, <1>1, SetValueTyped
  <1>5. CASE l[1] = "main"
    <2>1. MainKey(l[3], l[4])
      BY <1>2, <1>5 DEF LineKind
    <2>2. c = MainSet(a, l[3], l[4]) /\ d = MainSet(b, l[3], l[4])
      BY <1>5 DEF setValue, MainSet
    <2> HIDE DEF c, d
    <2>3. /\ Said(c) = Said(a) /\ c.main = [a.main EXCEPT ![l[3]] = l[4]]
          /\ c.names = a.names /\ c.scanners = a.scanners /\ c.switches = a.switches
      BY <1>0, <2>1, <2>2, MainAfter
    <2>4. /\ Said(d) = Said(b) /\ d.main = [b.main EXCEPT ![l[3]] = l[4]]
          /\ d.names = b.names /\ d.scanners = b.scanners /\ d.switches = b.switches
      BY <1>0, <2>1, <2>2, MainAfter
    <2>5. c.netNames = a.netNames /\ d.netNames = b.netNames /\ c.netNames = d.netNames
      BY <1>3, <2>3, <2>4, SameSaid
    <2>6. AlikeMain(f, c, d)
      BY <1>0, <1>4, <2>1, <2>3, <2>4, <2>5, AlikeMainStep
    <2>7. \A s \in ScannerIds : AlikeScanner(f, c, d, s)
      BY <1>0, <2>3, <2>4, <2>5 DEF AlikeScanner
    <2>8. Alike(f, c, d)
      BY <1>0, <1>3, <1>4, <2>3, <2>4, <2>6, <2>7 DEF Alike
    <2> QED
      BY <2>8 DEF c, d
  <1>6. CASE l[1] \in {"opnsense", "openwrt", "openwrts", "openwrt."}
    <2>1. SetsRouters(a, c) /\ SetsRouters(b, d)
      BY <1>0, <1>2, <1>6, SetRoutersShape
    <2> HIDE DEF c, d
    <2>2. AlikeMain(f, c, d)
      BY <1>0, <2>1 DEF AlikeMain, SetsRouters, Adopted
    <2>3. ASSUME NEW s \in ScannerIds PROVE AlikeScanner(f, c, d, s)
      <3>1. c.scanners[s] = a.scanners[s] /\ d.scanners[s] = b.scanners[s]
        BY <2>1 DEF SetsRouters
      <3> QED
        BY <1>0, <3>1 DEF AlikeScanner
    <2>4. Alike(f, c, d)
      BY <1>0, <1>3, <1>4, <2>1, <2>2, <2>3 DEF Alike, SetsRouters
    <2> QED
      BY <2>4 DEF c, d
  <1>7. CASE l[1] = "remote_scanners"
    <2>0. l[4] \in Seq(Scanner)
      BY <1>2, <1>7 DEF LineKind
    <2>1. /\ Said(c) = Said(a) /\ c.main = a.main /\ c.names = l[4] /\ c.switches = a.switches
          /\ \A s \in ScannerIds :
               /\ c.scanners[s].known = (a.scanners[s].known \/ Contains(l[4], s))
               /\ c.scanners[s].host = a.scanners[s].host
               /\ c.scanners[s].sudo = a.scanners[s].sudo
               /\ c.scanners[s].networks = a.scanners[s].networks
      BY <1>0, <1>2, <1>7, SetScannerNames
    <2>2. /\ Said(d) = Said(b) /\ d.main = b.main /\ d.names = l[4] /\ d.switches = b.switches
          /\ \A s \in ScannerIds :
               /\ d.scanners[s].known = (b.scanners[s].known \/ Contains(l[4], s))
               /\ d.scanners[s].host = b.scanners[s].host
               /\ d.scanners[s].sudo = b.scanners[s].sudo
               /\ d.scanners[s].networks = b.scanners[s].networks
      BY <1>0, <1>2, <1>7, SetScannerNames
    <2> HIDE DEF c, d
    <2>3. c.netNames = a.netNames /\ d.netNames = b.netNames
      BY <2>1, <2>2, SameSaid
    <2>4. AlikeMain(f, c, d)
      BY <1>0, <2>1, <2>2, <2>3 DEF AlikeMain, Adopted
    <2>5. ASSUME NEW s \in ScannerIds PROVE AlikeScanner(f, c, d, s)
      <3>1. CASE s \in R
        BY <1>0, <2>1, <2>2, <2>3, <3>1 DEF AlikeScanner
      <3>2. CASE s \notin R
        <4>1. c.scanners[s].known = d.scanners[s].known
          BY <1>0, <2>1, <2>2, <3>2 DEF AlikeScanner
        <4> QED
          BY <1>0, <2>1, <2>2, <3>2, <4>1 DEF AlikeScanner
      <3> QED
        BY <3>1, <3>2
    <2>6. Alike(f, c, d)
      BY <1>0, <1>3, <1>4, <2>1, <2>2, <2>4, <2>5 DEF Alike
    <2> QED
      BY <2>6 DEF c, d
  <1>8. CASE l[1] = "remote_scanner."
    <2> DEFINE id == l[2]
    <2>1. id \in Scanner /\ Sets(a, c, id, l[3], l[4]) /\ Sets(b, d, id, l[3], l[4])
      BY <1>0, <1>2, <1>8, SetOneScanner
    <2> HIDE DEF c, d
    <2>2. Said(c) = Said(a) /\ Said(d) = Said(b) /\ c.main = a.main /\ d.main = b.main
          /\ c.switches = a.switches /\ d.switches = b.switches
          /\ c.names = WithName(a.names, id) /\ d.names = WithName(b.names, id)
      BY <2>1 DEF Sets
    <2>3. c.netNames = a.netNames /\ d.netNames = b.netNames
      BY <2>2, SameSaid
    <2>4. AlikeMain(f, c, d)
      BY <1>0, <2>2, <2>3 DEF AlikeMain, Adopted
    <2>5. id \notin R /\ id \in ScannerIds
      BY <1>8, <2>1 DEF Harmless, ScannerIds
    <2>6. \A x : x \notin R => (Contains(c.names, x) <=> Contains(d.names, x))
      <3>1. a.names \in Seq(ScannerIds) /\ b.names \in Seq(ScannerIds)
        BY <1>0, ConfigParts
      <3>2. \A q \in Seq(ScannerIds), i \in ScannerIds :
              \A x : Contains(WithName(q, i), x) <=> Contains(q, x) \/ x = i
        BY WithNameShape
      <3>3. /\ \A x : Contains(c.names, x) <=> Contains(a.names, x) \/ x = id
            /\ \A x : Contains(d.names, x) <=> Contains(b.names, x) \/ x = id
        BY <2>2, <2>5, <3>1, <3>2
      <3> QED
        BY <1>0, <3>3
    <2>7. ASSUME NEW s \in ScannerIds PROVE AlikeScanner(f, c, d, s)
      <3>1. CASE s = id
        <4>1. AlikeScanner(f, a, b, id)
          BY <1>0, <2>5
        <4> QED
          BY <2>1, <2>5, <3>1, <4>1 DEF AlikeScanner, Sets
      <3>2. CASE s # id
        <4>1. c.scanners[s] = a.scanners[s] /\ d.scanners[s] = b.scanners[s]
          BY <2>1, <3>2 DEF Sets
        <4> QED
          BY <1>0, <2>3, <4>1 DEF AlikeScanner
      <3> QED
        BY <3>1, <3>2
    <2>8. Alike(f, c, d)
      BY <1>0, <1>3, <1>4, <2>2, <2>4, <2>6, <2>7 DEF Alike
    <2> QED
      BY <2>8 DEF c, d
  <1>9. CASE l[1] \in {"switches", "switch."}
    <2>1. SetsSwitch(a, c, l) /\ SetsSwitch(b, d, l)
      BY <1>0, <1>2, <1>9, SetSwitches
    <2> HIDE DEF c, d
    <2>2. AlikeMain(f, c, d)
      BY <1>0, <2>1 DEF AlikeMain, SetsSwitch, Adopted
    <2>3. \A s \in ScannerIds : AlikeScanner(f, c, d, s)
      BY <1>0, <2>1 DEF AlikeScanner, SetsSwitch
    <2>4. ASSUME NEW w \in Switch
          PROVE  Repaired(c.switches[w].timeout, 5) = Repaired(d.switches[w].timeout, 5)
      <3>1. CASE l[1] = "switch." /\ w = l[2]
        BY <2>1, <3>1 DEF SetsSwitch
      <3>2. CASE ~ (l[1] = "switch." /\ w = l[2])
        <4>1. c.switches[w] = a.switches[w] /\ d.switches[w] = b.switches[w]
          BY <2>1, <3>2 DEF SetsSwitch
        <4> QED
          BY <1>0, <4>1
      <3> QED
        BY <3>1, <3>2
    <2>5. Alike(f, c, d)
      BY <1>0, <1>3, <1>4, <2>1, <2>2, <2>3, <2>4 DEF Alike, SetsSwitch
    <2> QED
      BY <2>5 DEF c, d
  <1> HIDE DEF c, d
  <1>10. \/ l[1] = "main"
         \/ l[1] \in {"opnsense", "openwrt", "openwrts", "openwrt."}
         \/ l[1] = "remote_scanners" \/ l[1] = "remote_scanner."
         \/ l[1] \in {"switches", "switch."}
    BY <1>1, <1>2 DEF LineKind
  <1> QED
    BY <1>5, <1>6, <1>7, <1>8, <1>9, <1>10 DEF c, d

\* So do the variables of S.
LEMMA AlikeOverlay ==
  ASSUME NEW f \in Config, NEW a, NEW b, Alike(f, a, b), NEW e \in Seq(EnvLine),
         \A l \in Range(e) : Harmless(f, l), NEW S
  PROVE  Alike(f, Overlay(a, e, S), Overlay(b, e, S))
PROOF
  <1> DEFINE N == Len(e)
  <1>0. a \in Config /\ b \in Config /\ e \in Seq(Line)
    BY EnvIsLines DEF Alike
  <1>1. PICK m : Overlaid(m, a, e, S) /\ Overlay(a, e, S) = m[N]
    BY <1>0, OverlayUnfolds
  <1>2. PICK g : Overlaid(g, b, e, S) /\ Overlay(b, e, S) = g[N]
    BY <1>0, OverlayUnfolds
  <1>3. N \in Nat /\ \A n \in 1..N : e[n] \in EnvLine /\ Harmless(f, e[n])
    <2>1. \A n \in 1..N : e[n] \in Range(e)
      BY DEF Range
    <2> HIDE DEF EnvLine, Harmless
    <2> QED
      BY <2>1
  <1>4. /\ m[0] = a
        /\ \A n \in 1..N : m[n] = IF e[n] \in S THEN setValue(m[n-1], e[n]) ELSE m[n-1]
    BY <1>1 DEF Overlaid
  <1>5. /\ g[0] = b
        /\ \A n \in 1..N : g[n] = IF e[n] \in S THEN setValue(g[n-1], e[n]) ELSE g[n-1]
    BY <1>2 DEF Overlaid
  <1> HIDE DEF N
  <1> DEFINE T == {n \in Nat : n <= N => Alike(f, m[n], g[n])}
  <1>6. 0 \in T
    BY <1>4, <1>5
  <1>7. ASSUME NEW n \in T PROVE n + 1 \in T
    <2>1. n \in Nat
      OBVIOUS
    <2> SUFFICES ASSUME n + 1 <= N PROVE Alike(f, m[n+1], g[n+1])
      BY <2>1
    <2>2. n + 1 \in 1..N /\ n <= N /\ (n + 1) - 1 = n
      BY <1>3, <2>1
    <2>3. Alike(f, m[n], g[n]) /\ e[n+1] \in EnvLine /\ Harmless(f, e[n+1])
      BY <1>3, <2>2
    <2>4. /\ m[n+1] = IF e[n+1] \in S THEN setValue(m[n], e[n+1]) ELSE m[n]
          /\ g[n+1] = IF e[n+1] \in S THEN setValue(g[n], e[n+1]) ELSE g[n]
      BY <1>4, <1>5, <2>2
    <2>5. \A l \in EnvLine : Harmless(f, l) => Alike(f, setValue(m[n], l), setValue(g[n], l))
      BY <2>3, AlikeStep
    <2> QED
      BY <2>3, <2>4, <2>5
  <1>8. T \in SUBSET Nat
    OBVIOUS
  <1> HIDE DEF T
  <1>9. T = Nat
    BY <1>6, <1>7, <1>8, NatInduct
  <1>10. N \in T /\ N <= N
    BY <1>3, <1>9
  <1>11. Alike(f, m[N], g[N])
    BY <1>10 DEF T
  <1> QED
    BY <1>1, <1>2, <1>11

\* Alike configurations see the same variables of their scanners.
LEMMA SameVariables ==
  ASSUME NEW f \in Config, NEW a, NEW b, Alike(f, a, b), NEW e \in Seq(EnvLine),
         \A l \in Range(e) : Harmless(f, l)
  PROVE  GivenFor(e, "remote_scanner.", a.names) = GivenFor(e, "remote_scanner.", b.names)
PROOF
  <1>1. ASSUME NEW l \in Range(e), l[1] = "remote_scanner."
        PROVE  Contains(a.names, l[2]) <=> Contains(b.names, l[2])
    <2>1. l[2] \notin Registered(f)
      BY <1>1 DEF Harmless
    <2> QED
      BY <2>1 DEF Alike
  <1> QED
    BY <1>1 DEF GivenFor, Given

\* So does the whole environment.
LEMMA AlikeEnviron ==
  ASSUME NEW f \in Config, NEW a, NEW b, Alike(f, a, b), NEW e \in Seq(EnvLine),
         \A l \in Range(e) : Harmless(f, l)
  PROVE  Alike(f, Environ(a, e), Environ(b, e))
PROOF
  <1>1. \A x, y, S : Alike(f, x, y) => Alike(f, Overlay(x, e, S), Overlay(y, e, S))
    BY AlikeOverlay
  <1>2. \A x, y : Alike(f, x, y) => Alike(f, EnvMain(x, e), EnvMain(y, e))
    BY <1>1 DEF EnvMain
  <1>3. ASSUME NEW x, NEW y, Alike(f, x, y)
        PROVE  Alike(f, EnvOpenWrts(x, e), EnvOpenWrts(y, e))
    <2> DEFINE p == Overlay(x, e, Given(e, "openwrt") \cup Given(e, "openwrts"))
               q == Overlay(y, e, Given(e, "openwrt") \cup Given(e, "openwrts"))
    <2>1. Alike(f, p, q)
      BY <1>1, <1>3
    <2> HIDE DEF p, q
    <2>2. p.wrtNames = q.wrtNames
      BY <2>1, SameSaid DEF Alike
    <2>3. Alike(f, Overlay(p, e, GivenFor(e, "openwrt.", p.wrtNames)),
                   Overlay(q, e, GivenFor(e, "openwrt.", q.wrtNames)))
      BY <1>1, <2>1, <2>2
    <2> QED
      BY <2>3 DEF EnvOpenWrts, p, q
  <1>4. \A x, y : Alike(f, x, y) => Alike(f, EnvOPNsense(x, e), EnvOPNsense(y, e))
    BY <1>1 DEF EnvOPNsense
  <1>5. ASSUME NEW x, NEW y, Alike(f, x, y)
        PROVE  Alike(f, EnvSwitches(x, e), EnvSwitches(y, e))
    <2> DEFINE p == Overlay(x, e, Given(e, "switches"))
               q == Overlay(y, e, Given(e, "switches"))
    <2>1. Alike(f, p, q)
      BY <1>1, <1>5
    <2> HIDE DEF p, q
    <2>2. p.swNames = q.swNames
      BY <2>1, SameSaid DEF Alike
    <2>3. Alike(f, Overlay(p, e, GivenFor(e, "switch.", p.swNames)),
                   Overlay(q, e, GivenFor(e, "switch.", q.swNames)))
      BY <1>1, <2>1, <2>2
    <2> QED
      BY <2>3 DEF EnvSwitches, p, q
  <1>6. ASSUME NEW x, NEW y, Alike(f, x, y)
        PROVE  Alike(f, EnvRemoteScanners(x, e), EnvRemoteScanners(y, e))
    <2> DEFINE p == Overlay(Overlay(x, e, RemoteMain(e)), e, Given(e, "remote_scanners"))
               q == Overlay(Overlay(y, e, RemoteMain(e)), e, Given(e, "remote_scanners"))
    <2>1. Alike(f, p, q)
      BY <1>1, <1>6
    <2> HIDE DEF p, q
    <2>2. GivenFor(e, "remote_scanner.", p.names) = GivenFor(e, "remote_scanner.", q.names)
      BY <2>1, SameVariables
    <2>3. Alike(f, Overlay(p, e, GivenFor(e, "remote_scanner.", p.names)),
                   Overlay(q, e, GivenFor(e, "remote_scanner.", q.names)))
      BY <1>1, <2>1, <2>2
    <2> QED
      BY <2>3 DEF EnvRemoteScanners, p, q
  <1> QED
    BY <1>2, <1>3, <1>4, <1>5, <1>6 DEF Environ

\* Configurations that differ in three parts are the same once those are replaced.
LEMMA SameButThree ==
  ASSUME NEW c \in Config, NEW d \in Config, Said(c) = Said(d), c.main = d.main,
         NEW n, NEW sc, NEW sw
  PROVE  [c EXCEPT !.names = n, !.scanners = sc, !.switches = sw]
           = [d EXCEPT !.names = n, !.scanners = sc, !.switches = sw]
PROOF
  <1> DEFINE D == {"main", "netNames", "opnsense", "openwrt", "wrtNames", "wrts", "names",
                   "scanners", "swNames", "switches"}
             p == [c EXCEPT !.names = n, !.scanners = sc, !.switches = sw]
             q == [d EXCEPT !.names = n, !.scanners = sc, !.switches = sw]
  <1>1. DOMAIN c = D /\ DOMAIN d = D
    BY DEF Config
  <1>2. \A k \in D \ {"names", "scanners", "switches"} : c[k] = d[k]
    BY DEF Said
  <1>3. p = [k \in D |-> IF k = "switches" THEN sw ELSE IF k = "scanners" THEN sc
                         ELSE IF k = "names" THEN n ELSE c[k]]
    BY <1>1
  <1>4. q = [k \in D |-> IF k = "switches" THEN sw ELSE IF k = "scanners" THEN sc
                         ELSE IF k = "names" THEN n ELSE d[k]]
    BY <1>1
  <1> HIDE DEF D
  <1> QED
    BY <1>2, <1>3, <1>4

\* Normalize makes the same configuration in force of two that are alike, if the routers
\* of f are still registered and its sudo still set.
LEMMA NormalizeLevels ==
  ASSUME NEW f \in Config, NEW a, NEW b, Alike(f, a, b),
         Registered(f) \subseteq Registered(a), WithNetworks(f) \subseteq WithNetworks(a),
         f.main.sudo => a.main.sudo
  PROVE  InForce(Normalize(a)) = InForce(Normalize(b))
PROOF
  <1> DEFINE x == Normalize(a)
             y == Normalize(b)
             R == Registered(a)
  <1>0. /\ a \in Config /\ b \in Config /\ Said(a) = Said(b)
        /\ AlikeMain(f, a, b)
        /\ \A z : z \notin Registered(f) => (Contains(a.names, z) <=> Contains(b.names, z))
        /\ \A s \in ScannerIds : AlikeScanner(f, a, b, s)
        /\ \A w \in Switch : Repaired(a.switches[w].timeout, 5) = Repaired(b.switches[w].timeout, 5)
    BY DEF Alike
  <1>1. Normal(a, x) /\ Normal(b, y)
    BY <1>0, NormalizeShape
  <1> HIDE DEF x, y
  <1>2. /\ x \in Config /\ y \in Config /\ Said(x) = Said(a) /\ Said(y) = Said(b)
    BY <1>1 DEF Normal
  <1>3. /\ Registered(b) = R /\ \A id : RouterOf(b, id) = RouterOf(a, id)
        /\ x.swNames = y.swNames /\ a.swNames = y.swNames /\ b.swNames = y.swNames
    BY <1>0, <1>2, SameSaid
  <1>4. /\ x.main \in MainType /\ y.main \in MainType /\ a.main \in MainType
        /\ b.main \in MainType
        /\ x.scanners \in [ScannerIds -> ScannerType] /\ y.scanners \in [ScannerIds -> ScannerType]
        /\ x.names \in Seq(ScannerIds) /\ y.names \in Seq(ScannerIds)
        /\ y.swNames \in Seq(Switch)
    BY <1>0, <1>2, ConfigParts
  <1>5. x.main = y.main
    <2>1. NormalMain(a, x) /\ NormalMain(b, y)
      BY <1>1 DEF Normal
    <2>2. x.main.enable_remote = y.main.enable_remote
      <3>1. a.main.enable_remote \in BOOLEAN /\ b.main.enable_remote \in BOOLEAN
        BY <1>4 DEF MainType
      <3>2. /\ x.main.enable_remote = (a.main.enable_remote \/ R # {})
            /\ y.main.enable_remote = (b.main.enable_remote \/ R # {})
        BY <1>3, <2>1 DEF NormalMain
      <3>3. a.main.enable_remote = b.main.enable_remote \/ R # {}
        BY <1>0 DEF AlikeMain
      <3> HIDE DEF R
      <3> QED
        BY <3>1, <3>2, <3>3
    <2>3. x.main.networks = y.main.networks
      BY <1>0, <2>1 DEF NormalMain, AlikeMain, Adopted
    <2>4. /\ x.main.plain = y.main.plain /\ x.main.sudo = y.main.sudo
          /\ x.main.scan_interval = y.main.scan_interval
          /\ x.main.min_scan_interval = y.main.min_scan_interval
      BY <1>0, <2>1 DEF NormalMain, AlikeMain
    <2> QED
      BY <1>4, <2>2, <2>3, <2>4, SameMain
  <1>6. \A z : Contains(x.names, z) <=> Contains(y.names, z)
    <2>1. /\ \A z : Contains(x.names, z) <=> Contains(a.names, z) \/ z \in R
          /\ \A z : Contains(y.names, z) <=> Contains(b.names, z) \/ z \in R
      BY <1>1, <1>3 DEF Normal
    <2> QED
      BY <1>0, <2>1
  <1>7. Range(x.names) = Range(y.names)
    BY <1>4, <1>6, RangeContains
  <1>8. ASSUME NEW s \in Range(y.names) PROVE x.scanners[s] = y.scanners[s]
    <2>1. s \in ScannerIds /\ Contains(y.names, s) /\ Contains(x.names, s)
      BY <1>4, <1>6, <1>8, RangeContains
    <2>2. NormalScanner(a, x, s) /\ NormalScanner(b, y, s) /\ AlikeScanner(f, a, b, s)
      BY <1>0, <1>1, <2>1 DEF Normal
    <2>3. x.scanners[s] \in ScannerType /\ y.scanners[s] \in ScannerType
      BY <1>4, <2>1
    <2>4. a.main.sudo = b.main.sudo /\ a.main.sudo \in BOOLEAN
      BY <1>0, <1>4 DEF AlikeMain, MainType
    <2>5. CASE s \in R
      <3>1. x.scanners[s].networks = y.scanners[s].networks
        <4>1. CASE s \in Registered(f)
          <5>1. RouterOf(f, s).networks # {} => RouterOf(a, s).networks # {}
            BY <1>0, <2>1, RegisteredIds
          <5> QED
            BY <1>3, <2>2, <2>5, <4>1, <5>1 DEF NormalScanner, AlikeScanner
        <4>2. CASE s \notin Registered(f)
          BY <1>3, <2>2, <2>5, <4>2 DEF NormalScanner, AlikeScanner
        <4> QED
          BY <4>1, <4>2
      <3>2. /\ x.scanners[s].known = y.scanners[s].known
            /\ x.scanners[s].host = y.scanners[s].host
            /\ x.scanners[s].sudo = y.scanners[s].sudo
        BY <1>3, <2>2, <2>4, <2>5 DEF NormalScanner
      <3> QED
        BY <2>3, <3>1, <3>2, SameScanner
    <2>6. CASE s \notin R
      <3>0. s \notin Registered(f)
        BY <2>6
      <3>1. /\ x.scanners[s].known = y.scanners[s].known
            /\ x.scanners[s].host = y.scanners[s].host
            /\ x.scanners[s].networks = y.scanners[s].networks
        BY <1>3, <2>2, <2>6, <3>0 DEF NormalScanner, AlikeScanner
      <3>2. /\ x.scanners[s].sudo = (a.scanners[s].sudo \/ a.main.sudo)
            /\ y.scanners[s].sudo = (b.scanners[s].sudo \/ a.main.sudo)
        BY <1>3, <2>1, <2>2, <2>4, <2>6 DEF NormalScanner
      <3>3. a.scanners[s].sudo = b.scanners[s].sudo \/ a.main.sudo
        BY <2>2, <3>0 DEF AlikeScanner
      <3>4. a.scanners[s].sudo \in BOOLEAN /\ b.scanners[s].sudo \in BOOLEAN
        BY <1>0, <2>1, ConfigParts DEF ScannerType
      <3>5. x.scanners[s].sudo = y.scanners[s].sudo
        BY <2>4, <3>2, <3>3, <3>4
      <3> QED
        BY <2>3, <3>1, <3>5, SameScanner
    <2> QED
      BY <2>5, <2>6
  <1>9. ASSUME NEW w \in Range(y.swNames) PROVE x.switches[w] = y.switches[w]
    <2>1. w \in Switch /\ Contains(y.swNames, w)
      BY <1>4, <1>9, RangeContains
    <2>2. NormalSwitches(a, x) /\ NormalSwitches(b, y)
      BY <1>1 DEF Normal
    <2>3. /\ x.switches[w] = [known |-> TRUE, timeout |-> Repaired(a.switches[w].timeout, 5)]
          /\ y.switches[w] = [known |-> TRUE, timeout |-> Repaired(b.switches[w].timeout, 5)]
      BY <1>3, <2>1, <2>2 DEF NormalSwitches
    <2> QED
      BY <1>0, <2>1, <2>3
  <1>10. InForce(x) = InForce(y)
    <2> DEFINE scx == [s \in Range(x.names) |-> x.scanners[s]]
               scy == [s \in Range(y.names) |-> y.scanners[s]]
               swx == [w \in Range(x.swNames) |-> x.switches[w]]
               swy == [w \in Range(y.swNames) |-> y.switches[w]]
               nx == Range(x.names)
               ny == Range(y.names)
    <2>1. scx = scy /\ swx = swy /\ nx = ny
      BY <1>3, <1>7, <1>8, <1>9
    <2>2. /\ InForce(x) = [x EXCEPT !.names = nx, !.scanners = scx, !.switches = swx]
          /\ InForce(y) = [y EXCEPT !.names = ny, !.scanners = scy, !.switches = swy]
      BY <1>2 DEF InForce, Config
    <2> HIDE DEF scx, scy, swx, swy, nx, ny
    <2>3. Said(x) = Said(y)
      BY <1>0, <1>2
    <2>4. \A n, sc, sw : [x EXCEPT !.names = n, !.scanners = sc, !.switches = sw]
                           = [y EXCEPT !.names = n, !.scanners = sc, !.switches = sw]
      BY <1>2, <1>5, <2>3, SameButThree
    <2> QED
      BY <2>1, <2>2, <2>4
  <1> QED
    BY <1>10 DEF x, y

\* The Normalize that Load runs before the environment is known leaves no trace in the
\* configuration in force, for any file, any environment and any number of routers,
\* scanners and switches, as long as the environment turns no router of the file and no
\* sudo off, takes no router's networks and sets no router's scanner (config.go, Load,
\* ApplyEnv and Normalize).
THEOREM EarlyNormalizeIsHarmless == Spec => []EarlyNormalizeLeavesNoTrace
PROOF
  <1>1. IInv => EarlyNormalizeLeavesNoTrace
    <2> SUFFICES ASSUME IInv, stage \in {"ready", "serving"}, OnlyAdds
                 PROVE  InForce(cfg) = InForce(Normalize(Environ(plainFile, env)))
      BY DEF EarlyNormalizeLeavesNoTrace
    <2> DEFINE f == plainFile
               a == Environ(f, env)
               b == Environ(Normalize(f), env)
    <2>1. f \in Good /\ env \in Seq(EnvLine) /\ env \in Seq(Line) /\ f \in Config
      BY EnvIsLines DEF IInv, CfgTyped, Good
    <2>2. cfg = Normalize(b)
      BY DEF IInv, CfgMade
    <2>3. Alike(f, f, Normalize(f))
      BY <2>1, AlikeAtFirst
    <2>4. Alike(f, a, b)
      BY <2>1, <2>3, AlikeEnviron DEF OnlyAdds, Harmless
    <2> HIDE DEF a, b
    <2>5. Said(a) = Said(b) /\ a.main.sudo = b.main.sudo /\ b \in Config
      BY <2>4 DEF Alike, AlikeMain
    <2>6. Normal(b, cfg)
      BY <2>2, <2>5, NormalizeShape
    <2>7. Said(cfg) = Said(a) /\ cfg.main.sudo = a.main.sudo
      BY <2>5, <2>6 DEF Normal, NormalMain
    <2>8. /\ Registered(f) \subseteq Registered(a) /\ WithNetworks(f) \subseteq WithNetworks(a)
          /\ f.main.sudo => a.main.sudo
      BY <2>7, SameSaid DEF OnlyAdds
    <2>9. InForce(Normalize(a)) = InForce(Normalize(b))
      BY <2>1, <2>4, <2>8, NormalizeLevels
    <2> QED
      BY <2>2, <2>9 DEF a
  <1> QED
    BY <1>1, Invariant, PTL

=============================================================================

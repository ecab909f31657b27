------------------------ MODULE DeviceRecordsProofs ------------------------
(***************************************************************************)
(* Proofs about DeviceRecords, for any set of addresses, networks, MACs    *)
(* and spellings, and sweeps of any length.                                *)
(***************************************************************************)
EXTENDS DeviceRecords, WellFoundedInduction, SequenceTheorems, TLAPS

-----------------------------------------------------------------------------
(* Induction over the devices of a sweep. *)

\* A set of naturals that holds 0 and every successor holds them all.
LEMMA NatInduct ==
  ASSUME NEW S \in SUBSET Nat, 0 \in S, \A n \in S : n + 1 \in S
  PROVE  S = Nat
PROOF
  <1> DEFINE T == Nat \ S
  <1> SUFFICES ASSUME T # {} PROVE FALSE
    OBVIOUS
  <1>1. T \subseteq Nat
    OBVIOUS
  <1>2. PICK x \in T : \A y \in T : ~ (<<y, x>> \in OpToRel(<, Nat))
    BY <1>1, NatLessThanWellFounded, WFMin
  <1>3. \A y \in T : ~ (y < x)
    BY <1>1, <1>2 DEF OpToRel
  <1>4. x \in Nat /\ x # 0 /\ x \notin S
    OBVIOUS
  <1>5. x - 1 \in Nat /\ x - 1 < x /\ (x - 1) + 1 = x
    BY <1>4
  <1>6. x - 1 \in S
    BY <1>3, <1>5
  <1> QED
    BY <1>4, <1>5, <1>6

Ips(found, n) == {found[k].ip : k \in 1..n}

\* What mergeDevices does with the nth device of the sweep.
Merge(t, found, recent, n) ==
  mergeDevice(t, found[n], Ips(found, Len(found)), recent \cup Ips(found, n - 1))

\* The intermediate tables of a sweep of N devices exist.
LEMMA Intermediate ==
  ASSUME NEW rs, NEW found, NEW recent, NEW N \in Nat
  PROVE  \E m : m = [n \in 0..N |-> IF n = 0 THEN rs ELSE Merge(m[n-1], found, recent, n)]
PROOF
  <1> DEFINE R(m, k) == m = [n \in 0..k |-> IF n = 0 THEN rs ELSE Merge(m[n-1], found, recent, n)]
             S == {k \in Nat : \E m : R(m, k)}
  <1>1. 0 \in S
    <2> DEFINE m == [n \in 0..0 |-> rs]
    <2>1. R(m, 0)
      OBVIOUS
    <2> HIDE DEF m, R
    <2> QED
      BY <2>1
  <1>2. ASSUME NEW k \in S PROVE k + 1 \in S
    <2>1. k \in Nat
      OBVIOUS
    <2>2. PICK m : R(m, k)
      OBVIOUS
    <2> DEFINE g == [n \in 0..(k+1) |-> IF n = k + 1 THEN Merge(m[k], found, recent, k + 1)
                                        ELSE m[n]]
    <2>3. \A n \in 0..k : m[n] = IF n = 0 THEN rs ELSE Merge(m[n-1], found, recent, n)
      BY <2>2
    <2>4. ASSUME NEW n \in 0..(k+1)
          PROVE  g[n] = IF n = 0 THEN rs ELSE Merge(g[n-1], found, recent, n)
      <3>1. CASE n = k + 1
        BY <2>1, <3>1
      <3>2. CASE n # k + 1
        <4>1. n \in 0..k /\ (n # 0 => n - 1 \in 0..(k+1) /\ n - 1 # k + 1)
          BY <2>1, <3>2
        <4>2. g[n] = m[n] /\ (n # 0 => g[n-1] = m[n-1])
          BY <4>1, <3>2
        <4> QED
          BY <2>3, <4>1, <4>2
      <3> QED
        BY <3>1, <3>2
    <2>5. R(g, k + 1)
      BY <2>4
    <2> HIDE DEF g, R
    <2>6. \E h : R(h, k + 1)
      BY <2>5
    <2> QED
      BY <2>1, <2>6
  <1> HIDE DEF R
  <1>3. S = Nat
    BY <1>1, <1>2, NatInduct
  <1>4. \E m : R(m, N)
    BY <1>3
  <1> QED
    BY <1>4 DEF R

\* A sweep goes through the tables m[0], m[1], ... up to its result.
LEMMA SweepUnfolds ==
  ASSUME NEW rs, NEW found, NEW recent, Len(found) \in Nat
  PROVE  \E m : /\ m[0] = rs
                /\ \A n \in 1..Len(found) : m[n] = Merge(m[n-1], found, recent, n)
                /\ mergeDevices(rs, found, recent) = m[Len(found)]
PROOF
  <1> DEFINE N == Len(found)
             m[n \in 0..N] == IF n = 0 THEN rs ELSE Merge(m[n-1], found, recent, n)
  <1>1. m = [n \in 0..N |-> IF n = 0 THEN rs ELSE Merge(m[n-1], found, recent, n)]
    BY Intermediate
  <1>2. mergeDevices(rs, found, recent) = m[N]
    BY DEF mergeDevices, Merge, Ips
  <1> HIDE DEF m
  <1>3. \A n \in 0..N : m[n] = IF n = 0 THEN rs ELSE Merge(m[n-1], found, recent, n)
    BY <1>1
  <1>4. m[0] = rs /\ \A n \in 1..N : m[n] = Merge(m[n-1], found, recent, n)
    BY <1>3
  <1> QED
    BY <1>2, <1>4

-----------------------------------------------------------------------------
(* Tables. *)

\* A table is a function of its own domain.
LEMMA TableShape ==
  ASSUME NEW rs
  PROVE  Table(rs) <=> DOMAIN rs \subseteq IP /\ rs \in [DOMAIN rs -> Row]
  BY DEF Table

\* An entry of a table is a row.
LEMMA TableRow ==
  ASSUME NEW rs, Table(rs), NEW a \in DOMAIN rs
  PROVE  rs[a] \in Row
  BY TableShape

\* Putting a row into a table.
LEMMA WithShape ==
  ASSUME NEW rs, Table(rs), NEW ip \in IP, NEW r \in Row
  PROVE  /\ Table(With(rs, ip, r))
         /\ DOMAIN With(rs, ip, r) = DOMAIN rs \cup {ip}
         /\ With(rs, ip, r)[ip] = r
         /\ \A a \in DOMAIN rs \ {ip} : With(rs, ip, r)[a] = rs[a]
  BY TableShape DEF With, Table

\* Taking one out.
LEMMA WithoutShape ==
  ASSUME NEW rs, Table(rs), NEW ip
  PROVE  /\ Table(Without(rs, ip))
         /\ DOMAIN Without(rs, ip) = DOMAIN rs \ {ip}
         /\ \A a \in DOMAIN rs \ {ip} : Without(rs, ip)[a] = rs[a]
  BY TableShape DEF Without, Table

\* Restricting it to some addresses.
LEMMA RestrictShape ==
  ASSUME NEW rs, Table(rs), NEW S, S \subseteq DOMAIN rs
  PROVE  Table([a \in S |-> rs[a]])
  BY TableShape DEF Table

\* Changing the row of an address that is there.
LEMMA ChangeShape ==
  ASSUME NEW rs, Table(rs), NEW ip \in DOMAIN rs, NEW r \in Row
  PROVE  /\ Table([rs EXCEPT ![ip] = r])
         /\ DOMAIN [rs EXCEPT ![ip] = r] = DOMAIN rs
         /\ [rs EXCEPT ![ip] = r][ip] = r
         /\ \A a \in DOMAIN rs \ {ip} : [rs EXCEPT ![ip] = r][a] = rs[a]
  BY TableShape DEF Table

\* A row whose MAC was written.
LEMMA NewMac ==
  ASSUME NEW r \in Row, NEW mac \in Mac \cup {None}
  PROVE  /\ [r EXCEPT !.mac = mac] \in Row
         /\ [r EXCEPT !.mac = mac].mac = mac
         /\ [r EXCEPT !.mac = mac].link = r.link
         /\ [r EXCEPT !.mac = mac].custom = r.custom
  BY DEF Row

\* Writing a MAC into the row of an address changes nothing else.
LEMMA MacShape ==
  ASSUME NEW rs, Table(rs), NEW ip \in DOMAIN rs, NEW mac \in Mac \cup {None}
  PROVE  LET out == [rs EXCEPT ![ip].mac = mac]
         IN /\ Table(out) /\ DOMAIN out = DOMAIN rs
            /\ out[ip].mac = mac /\ out[ip].link = rs[ip].link
            /\ out[ip].custom = rs[ip].custom
            /\ \A a \in DOMAIN rs \ {ip} : out[a] = rs[a]
PROOF
  <1> DEFINE r == [rs[ip] EXCEPT !.mac = mac]
             out == [rs EXCEPT ![ip] = r]
  <1>1. rs[ip] \in Row
    BY TableRow
  <1>2. r \in Row /\ r.mac = mac /\ r.link = rs[ip].link /\ r.custom = rs[ip].custom
    BY <1>1, NewMac
  <1> HIDE DEF r
  <1>3. /\ Table(out) /\ DOMAIN out = DOMAIN rs /\ out[ip] = r
        /\ \A a \in DOMAIN rs \ {ip} : out[a] = rs[a]
    BY <1>2, ChangeShape
  <1>4. [rs EXCEPT ![ip].mac = mac] = out
    BY DEF r
  <1> HIDE DEF out
  <1> QED
    BY <1>2, <1>3, <1>4

\* What a user may have said of a device is an entry in each of its fields.
LEMMA CarriedType ==
  ASSUME NEW r \in Row
  PROVE  Carried(r) \in [Field -> Entry] /\ Blank \in [Field -> Entry]
  BY DEF Carried, Blank, Row, Entry

\* What addNewDevice does to a table: the new row, and the old one that goes.
Joined(rs, out, ip, mac, custom, gone) ==
  /\ Table(out)
  /\ DOMAIN out = (DOMAIN rs \ gone) \cup {ip}
  /\ out[ip].mac = mac /\ out[ip].link = None /\ out[ip].custom = custom
  /\ \A a \in DOMAIN rs \ (gone \cup {ip}) : out[a] = rs[a]

NotThere(ip, old, heard, recent) ==
  \/ inSameSubnet(ip, old) /\ old \notin heard
  \/ ~inSameSubnet(ip, old) /\ old \notin recent

\* addNewDevice adds a blank row, or one that carries what was said of another
\* address of the MAC, which then may go.
LEMMA AddNewShape ==
  ASSUME NEW rs, Table(rs), NEW ip \in IP, ip \notin DOMAIN rs, NEW mac \in Mac \cup {None},
         NEW heard, NEW recent
  PROVE  LET out == addNewDevice(rs, ip, mac, heard, recent)
         IN \/ /\ findByMAC(rs, mac, ip) = {}
               /\ Joined(rs, out, ip, mac, Blank, {})
            \/ \E old \in findByMAC(rs, mac, ip) :
                 \/ Joined(rs, out, ip, mac, Carried(rs[old]), {})
                 \/ /\ Joined(rs, out, ip, mac, Carried(rs[old]), {old})
                    /\ NotThere(ip, old, heard, recent)
PROOF
  <1> DEFINE olds == findByMAC(rs, mac, ip)
             old  == CHOOSE a \in olds : TRUE
             row(c) == [mac |-> mac, link |-> None, custom |-> c]
             out == addNewDevice(rs, ip, mac, heard, recent)
  <1>1. ASSUME NEW c \in [Field -> Entry]
        PROVE  row(c) \in Row /\ row(c).mac = mac /\ row(c).link = None /\ row(c).custom = c
    BY <1>1 DEF Row
  <1>2. CASE olds = {}
    <2>1. out = With(rs, ip, row(Blank))
      BY <1>2 DEF addNewDevice
    <2>2. row(Blank) \in Row /\ row(Blank).mac = mac /\ row(Blank).link = None
          /\ row(Blank).custom = Blank
      BY <1>1 DEF Blank, Entry
    <2> HIDE DEF row, out
    <2>3. Joined(rs, out, ip, mac, Blank, {})
      BY <2>1, <2>2, WithShape DEF Joined
    <2> QED
      BY <1>2, <2>3 DEF out
  <1>3. CASE olds # {}
    <2> DEFINE c == Carried(rs[old])
               there == IF inSameSubnet(ip, old) THEN old \in heard ELSE old \in recent
               left == IF there THEN rs ELSE Without(rs, old)
    <2>1. old \in olds /\ old \in DOMAIN rs
      BY <1>3 DEF findByMAC, Holders
    <2>2. out = With(left, ip, row(c))
      BY <1>3 DEF addNewDevice
    <2>3. /\ row(c) \in Row /\ row(c).mac = mac /\ row(c).link = None
          /\ row(c).custom = c
      BY <1>1, <2>1, CarriedType, TableRow
    <2> HIDE DEF row, out, c, olds, old
    <2>4. CASE there
      <3>1. out = With(rs, ip, row(c))
        BY <2>2, <2>4
      <3> HIDE DEF left, there
      <3>2. Joined(rs, out, ip, mac, c, {})
        BY <2>3, <3>1, WithShape DEF Joined
      <3> QED
        BY <2>1, <3>2 DEF out, c, olds
    <2>5. CASE ~there
      <3>1. /\ Table(left) /\ DOMAIN left = DOMAIN rs \ {old}
            /\ \A a \in DOMAIN rs \ {old} : left[a] = rs[a]
        BY <2>5, WithoutShape
      <3> HIDE DEF left
      <3>2. Joined(rs, out, ip, mac, c, {old})
        BY <2>2, <2>3, <3>1, WithShape DEF Joined
      <3>3. NotThere(ip, old, heard, recent)
        BY <2>5 DEF NotThere
      <3> HIDE DEF there
      <3> QED
        BY <2>1, <3>2, <3>3 DEF out, c, olds
    <2> QED
      BY <2>4, <2>5
  <1> QED
    BY <1>2, <1>3

-----------------------------------------------------------------------------
(* What each write makes of a table. *)

\* A row whose columns of the user were written.
LEMMA NewCustom ==
  ASSUME NEW r \in Row, NEW c \in [Field -> Entry]
  PROVE  /\ [r EXCEPT !.custom = c] \in Row
         /\ [r EXCEPT !.custom = c].mac = r.mac
         /\ [r EXCEPT !.custom = c].link = r.link
         /\ [r EXCEPT !.custom = c].custom = c
  BY DEF Row

\* Writing them into the row of an address changes nothing else.
LEMMA CustomShape ==
  ASSUME NEW rs, Table(rs), NEW ip \in DOMAIN rs, NEW c \in [Field -> Entry]
  PROVE  LET out == [rs EXCEPT ![ip].custom = c]
         IN /\ Table(out) /\ DOMAIN out = DOMAIN rs
            /\ out[ip].mac = rs[ip].mac /\ out[ip].link = rs[ip].link
            /\ out[ip].custom = c
            /\ \A a \in DOMAIN rs \ {ip} : out[a] = rs[a]
PROOF
  <1> DEFINE r == [rs[ip] EXCEPT !.custom = c]
             out == [rs EXCEPT ![ip] = r]
  <1>1. rs[ip] \in Row
    BY TableRow
  <1>2. r \in Row /\ r.mac = rs[ip].mac /\ r.link = rs[ip].link /\ r.custom = c
    BY <1>1, NewCustom
  <1> HIDE DEF r
  <1>3. /\ Table(out) /\ DOMAIN out = DOMAIN rs /\ out[ip] = r
        /\ \A a \in DOMAIN rs \ {ip} : out[a] = rs[a]
    BY <1>2, ChangeShape
  <1>4. [rs EXCEPT ![ip].custom = c] = out
    BY DEF r
  <1> HIDE DEF out
  <1> QED
    BY <1>2, <1>3, <1>4

\* The same for the link, with the columns blanked.
LEMMA BlankShape ==
  ASSUME NEW rs, Table(rs), NEW ip \in DOMAIN rs, NEW l \in Mac \cup {None}
  PROVE  LET out == [rs EXCEPT ![ip].custom = Blank, ![ip].link = l]
         IN /\ Table(out) /\ DOMAIN out = DOMAIN rs
            /\ out[ip].mac = rs[ip].mac /\ out[ip].link = l
            /\ out[ip].custom = Blank
            /\ \A a \in DOMAIN rs \ {ip} : out[a] = rs[a]
PROOF
  <1> DEFINE r == [rs[ip] EXCEPT !.custom = Blank, !.link = l]
             out == [rs EXCEPT ![ip] = r]
  <1>1. rs[ip] \in Row /\ Blank \in [Field -> Entry]
    BY TableRow DEF Blank, Entry
  <1>2. r \in Row /\ r.mac = rs[ip].mac /\ r.link = l /\ r.custom = Blank
    BY <1>1 DEF Row
  <1> HIDE DEF r
  <1>3. /\ Table(out) /\ DOMAIN out = DOMAIN rs /\ out[ip] = r
        /\ \A a \in DOMAIN rs \ {ip} : out[a] = rs[a]
    BY <1>2, ChangeShape
  <1>4. [rs EXCEPT ![ip].custom = Blank, ![ip].link = l] = out
    BY DEF r
  <1> HIDE DEF out
  <1> QED
    BY <1>2, <1>3, <1>4

\* Fields of a request over those of a row.
LEMMA OverType ==
  ASSUME NEW c \in [Field -> Entry], NEW S \in SUBSET Field, NEW g \in [S -> Entry]
  PROVE  /\ Over(c, g) \in [Field -> Entry]
         /\ \A f \in S : Over(c, g)[f] = g[f]
         /\ \A f \in Field \ S : Over(c, g)[f] = c[f]
  BY DEF Over

\* The fields of a request.
LEMMA EditShape ==
  ASSUME NEW e \in Edit
  PROVE  /\ DOMAIN e.custom \subseteq Field /\ e.custom \in [DOMAIN e.custom -> Entry]
         /\ e.link \in Mac \cup {None, Keep} /\ e.mac \in Lowered \cup {None, Keep}
PROOF
  <1>1. PICK S \in SUBSET Field : e.custom \in [S -> Entry]
    BY DEF Edit
  <1> QED
    BY <1>1 DEF Edit

\* Lower-case spellings are spellings.
LEMMA LoweredIsMac == Lowered \subseteq Mac
  BY MacAssumption DEF Lowered, MacAssumption

\* What a linked device shows is a row, but for its own MAC and link.
LEMMA ViewShape ==
  ASSUME NEW rs, Table(rs), NEW ip \in DOMAIN rs, NEW p \in DOMAIN rs
  PROVE  /\ View(rs, ip, p) \in Row
         /\ View(rs, ip, p).mac = rs[ip].mac /\ View(rs, ip, p).link = rs[ip].link
         /\ View(rs, ip, p).custom =
              [f \in Field |-> Inherited(f, rs[ip].custom[f], rs[p].custom[f])]
PROOF
  <1> DEFINE c == [f \in Field |-> Inherited(f, rs[ip].custom[f], rs[p].custom[f])]
  <1>1. rs[ip] \in Row /\ rs[p] \in Row
    BY TableRow
  <1>2. ASSUME NEW f \in Field, NEW own \in Entry, NEW parent \in Entry
        PROVE  Inherited(f, own, parent) \in Entry
    BY FieldAssumption DEF Inherited, FieldAssumption
  <1>3. c \in [Field -> Entry]
    BY <1>1, <1>2 DEF Row
  <1>4. View(rs, ip, p) = [rs[ip] EXCEPT !.custom = c]
    BY DEF View
  <1> HIDE DEF c
  <1>5. /\ View(rs, ip, p) \in Row
        /\ View(rs, ip, p).mac = rs[ip].mac /\ View(rs, ip, p).link = rs[ip].link
        /\ View(rs, ip, p).custom = c
    BY <1>1, <1>3, <1>4, NewCustom
  <1> QED
    BY <1>5 DEF c

\* Parents are rows of the table.
LEMMA ParentsShape ==
  ASSUME NEW rs, NEW ip
  PROVE  /\ Parents(rs, ip) \subseteq DOMAIN rs
         /\ Parents(rs, ip) # {} => (CHOOSE a \in Parents(rs, ip) : TRUE) \in Parents(rs, ip)
  BY DEF Parents, Holders

\* What a reader sees is a row.
LEMMA ShownShape ==
  ASSUME NEW rs, Table(rs), NEW ip \in DOMAIN rs
  PROVE  /\ Shown(rs, ip) \in Row /\ Listed(rs, ip) \subseteq Row
         /\ Shown(rs, ip).mac = rs[ip].mac /\ Shown(rs, ip).link = rs[ip].link
PROOF
  <1>1. CASE Parents(rs, ip) = {}
    BY <1>1, TableRow DEF Shown, Listed
  <1>2. CASE Parents(rs, ip) # {}
    <2> DEFINE p == CHOOSE a \in Parents(rs, ip) : TRUE
    <2>1. p \in DOMAIN rs
      BY <1>2, ParentsShape
    <2>2. Shown(rs, ip) = View(rs, ip, p)
      BY <1>2 DEF Shown
    <2>3. Listed(rs, ip) = {View(rs, ip, a) : a \in Parents(rs, ip)}
      BY <1>2 DEF Listed
    <2> HIDE DEF p
    <2>4. ASSUME NEW q \in DOMAIN rs
          PROVE  /\ View(rs, ip, q) \in Row
                 /\ View(rs, ip, q).mac = rs[ip].mac /\ View(rs, ip, q).link = rs[ip].link
      BY ViewShape
    <2>5. ASSUME NEW a \in Parents(rs, ip) PROVE View(rs, ip, a) \in Row
      BY <2>4, ParentsShape
    <2>6. Listed(rs, ip) \subseteq Row
      BY <2>3, <2>5
    <2> QED
      BY <2>1, <2>2, <2>4, <2>6
  <1> QED
    BY <1>1, <1>2

\* What a probe stores over a row that is there.
LEMMA StoredShape ==
  ASSUME NEW rs, Table(rs), NEW ip \in DOMAIN rs, NEW copy \in Row
  PROVE  /\ Stored(rs, ip, copy) \in Row
         /\ Stored(rs, ip, copy).mac = copy.mac /\ Stored(rs, ip, copy).link = copy.link
         /\ \A f \in Field :
              LET stored == Stored(rs, ip, copy).custom[f]
              IN /\ f \in {"label", "group"} =>
                      stored = IF copy.custom[f] = None THEN Shown(rs, ip).custom[f]
                               ELSE copy.custom[f]
                 /\ f = "notify" => stored = Shown(rs, ip).custom[f]
                 /\ f = "ssh"    => stored = rs[ip].custom[f]
                 /\ f = "os"     => stored = copy.custom[f]
PROOF
  <1> DEFINE c == [f \in Field |->
                 CASE f \in {"label", "group"} ->
                        IF copy.custom[f] = None THEN Shown(rs, ip).custom[f] ELSE copy.custom[f]
                   [] f = "notify" -> Shown(rs, ip).custom[f]
                   [] f = "ssh"    -> rs[ip].custom[f]
                   [] f = "os"     -> copy.custom[f]]
  <1>1. /\ rs[ip].custom \in [Field -> Entry] /\ copy.custom \in [Field -> Entry]
        /\ Shown(rs, ip).custom \in [Field -> Entry]
    BY TableRow, ShownShape DEF Row
  <1>2. c \in [Field -> Entry]
    BY <1>1, FieldAssumption DEF FieldAssumption
  <1>3. Stored(rs, ip, copy) = [copy EXCEPT !.custom = c]
    BY DEF Stored
  <1> HIDE DEF c
  <1>4. /\ Stored(rs, ip, copy) \in Row
        /\ Stored(rs, ip, copy).mac = copy.mac /\ Stored(rs, ip, copy).link = copy.link
        /\ Stored(rs, ip, copy).custom = c
    BY <1>2, <1>3, NewCustom
  <1>5. ASSUME NEW f \in Field
        PROVE  /\ f \in {"label", "group"} =>
                    c[f] = IF copy.custom[f] = None THEN Shown(rs, ip).custom[f]
                           ELSE copy.custom[f]
               /\ f = "notify" => c[f] = Shown(rs, ip).custom[f]
               /\ f = "ssh"    => c[f] = rs[ip].custom[f]
               /\ f = "os"     => c[f] = copy.custom[f]
    BY DEF c
  <1> QED
    BY <1>4, <1>5

-----------------------------------------------------------------------------
(* What each source makes of a table. *)

\* The row of a new address joins the table, and the one it carries from may go.
Added(rs, out, ip, mac, heard, recent) ==
  \/ /\ findByMAC(rs, mac, ip) = {}
     /\ Joined(rs, out, ip, mac, Blank, {})
  \/ \E old \in findByMAC(rs, mac, ip) :
       \/ Joined(rs, out, ip, mac, Carried(rs[old]), {})
       \/ /\ Joined(rs, out, ip, mac, Carried(rs[old]), {old})
          /\ NotThere(ip, old, heard, recent)

\* Only the MAC of one row is another.
Renamed(rs, out, ip, mac) ==
  /\ Table(out) /\ DOMAIN out = DOMAIN rs
  /\ out[ip].mac = mac /\ out[ip].link = rs[ip].link /\ out[ip].custom = rs[ip].custom
  /\ \A a \in DOMAIN rs \ {ip} : out[a] = rs[a]

\* A row is at another address, with all the user has said of it.
Moved(rs, out, old, ip, mac) ==
  /\ Table(out) /\ DOMAIN out = (DOMAIN rs \ {old}) \cup {ip}
  /\ out[ip].mac = mac /\ out[ip].custom = rs[old].custom
  /\ \A a \in DOMAIN rs \ {old, ip} : out[a] = rs[a]

\* Nothing changes when nothing is written.
LEMMA SameShape ==
  ASSUME NEW rs, Table(rs), NEW ip \in DOMAIN rs
  PROVE  Renamed(rs, rs, ip, rs[ip].mac)
  BY DEF Renamed

\* A device of a sweep.
LEMMA MergeDeviceShape ==
  ASSUME NEW rs, Table(rs), NEW d \in [ip : IP, mac : Mac \cup {None}],
         NEW heard, NEW recent
  PROVE  LET out == mergeDevice(rs, d, heard, recent)
         IN \/ d.ip \notin DOMAIN rs /\ Added(rs, out, d.ip, d.mac, heard, recent)
            \/ /\ d.ip \in DOMAIN rs
               /\ Renamed(rs, out, d.ip, IF d.mac = None THEN rs[d.ip].mac ELSE d.mac)
PROOF
  <1> DEFINE out == mergeDevice(rs, d, heard, recent)
  <1>0. d.ip \in IP /\ d.mac \in Mac \cup {None}
    OBVIOUS
  <1>1. CASE d.ip \notin DOMAIN rs
    <2>1. out = addNewDevice(rs, d.ip, d.mac, heard, recent)
      BY <1>1 DEF mergeDevice
    <2>2. Added(rs, addNewDevice(rs, d.ip, d.mac, heard, recent), d.ip, d.mac, heard, recent)
      BY <1>0, <1>1, AddNewShape DEF Added
    <2> HIDE DEF out
    <2>3. Added(rs, out, d.ip, d.mac, heard, recent)
      BY <2>1, <2>2
    <2> QED
      BY <1>1, <2>3 DEF out
  <1>2. CASE d.ip \in DOMAIN rs /\ d.mac = None
    <2>1. out = rs
      BY <1>2 DEF mergeDevice
    <2>2. Renamed(rs, rs, d.ip, rs[d.ip].mac)
      BY <1>2, SameShape
    <2> HIDE DEF out
    <2>3. Renamed(rs, out, d.ip, IF d.mac = None THEN rs[d.ip].mac ELSE d.mac)
      BY <1>2, <2>1, <2>2
    <2> QED
      BY <1>2, <2>3 DEF out
  <1>3. CASE d.ip \in DOMAIN rs /\ d.mac # None
    <2>1. out = [rs EXCEPT ![d.ip].mac = d.mac]
      BY <1>3 DEF mergeDevice
    <2>2. Renamed(rs, [rs EXCEPT ![d.ip].mac = d.mac], d.ip, d.mac)
      BY <1>0, <1>3, MacShape DEF Renamed
    <2> HIDE DEF out
    <2>3. Renamed(rs, out, d.ip, IF d.mac = None THEN rs[d.ip].mac ELSE d.mac)
      BY <1>3, <2>1, <2>2
    <2> QED
      BY <1>3, <2>3 DEF out
  <1> QED
    BY <1>1, <1>2, <1>3

\* A device another source knows of.
LEMMA FilledInShape ==
  ASSUME NEW rs, Table(rs), NEW ip \in IP, NEW mac \in Mac \cup {None}, NEW recent
  PROVE  LET out == filledIn(rs, ip, mac, recent)
         IN \/ ip \notin DOMAIN rs /\ Added(rs, out, ip, mac, {}, recent)
            \/ /\ ip \in DOMAIN rs
               /\ Renamed(rs, out, ip, IF rs[ip].mac # None THEN rs[ip].mac ELSE mac)
PROOF
  <1> DEFINE out == filledIn(rs, ip, mac, recent)
  <1>1. CASE ip \notin DOMAIN rs
    <2>1. out = addNewDevice(rs, ip, mac, {}, recent)
      BY <1>1 DEF filledIn
    <2>2. Added(rs, addNewDevice(rs, ip, mac, {}, recent), ip, mac, {}, recent)
      BY <1>1, AddNewShape DEF Added
    <2> HIDE DEF out
    <2>3. Added(rs, out, ip, mac, {}, recent)
      BY <2>1, <2>2
    <2> QED
      BY <1>1, <2>3 DEF out
  <1>2. CASE ip \in DOMAIN rs /\ rs[ip].mac # None
    <2>1. out = rs
      BY <1>2 DEF filledIn
    <2>2. Renamed(rs, rs, ip, rs[ip].mac)
      BY <1>2, SameShape
    <2> HIDE DEF out
    <2>3. Renamed(rs, out, ip, IF rs[ip].mac # None THEN rs[ip].mac ELSE mac)
      BY <1>2, <2>1, <2>2
    <2> QED
      BY <1>2, <2>3 DEF out
  <1>3. CASE ip \in DOMAIN rs /\ rs[ip].mac = None
    <2>1. out = [rs EXCEPT ![ip].mac = mac]
      BY <1>3 DEF filledIn
    <2>2. Renamed(rs, [rs EXCEPT ![ip].mac = mac], ip, mac)
      BY <1>3, MacShape DEF Renamed
    <2> HIDE DEF out
    <2>3. Renamed(rs, out, ip, IF rs[ip].mac # None THEN rs[ip].mac ELSE mac)
      BY <1>3, <2>1, <2>2
    <2> QED
      BY <1>3, <2>3 DEF out
  <1> QED
    BY <1>1, <1>2, <1>3

\* A client of the controller.
LEMMA MergeClientShape ==
  ASSUME NEW rs, Table(rs), NEW ip \in (IP \ V6) \cup {None}, NEW mac \in Mac \cup {None},
         NEW recent
  PROVE  LET out == mergeClient(rs, ip, mac, recent)
         IN \/ out = rs
            \/ /\ ip \in IP \ DOMAIN rs /\ Added(rs, out, ip, mac, {}, recent)
               /\ Spelled(rs, mac) = {}
            \/ \E old \in ClientRows(rs, ip, mac) :
                 LET now == IF rs[old].mac = None THEN mac ELSE rs[old].mac
                 IN \/ Renamed(rs, out, old, now)
                    \/ ip \in IP \ DOMAIN rs /\ Moved(rs, out, old, ip, now)
PROOF
  <1> DEFINE out == mergeClient(rs, ip, mac, recent)
             at == ClientRows(rs, ip, mac)
             old == CHOOSE a \in at : TRUE
             now == IF rs[old].mac = None THEN mac ELSE rs[old].mac
             row == [rs[old] EXCEPT !.mac = now]
  <1>0. at \subseteq DOMAIN rs
    BY DEF ClientRows, Spelled
  <1>1. CASE at = {} /\ ip = None
    BY <1>1 DEF mergeClient
  <1>2. CASE at = {} /\ ip # None
    <2>1. ip \in IP \ DOMAIN rs /\ Spelled(rs, mac) = {}
      BY <1>2 DEF ClientRows
    <2>2. out = addNewDevice(rs, ip, mac, {}, recent)
      BY <1>2 DEF mergeClient
    <2>3. Added(rs, addNewDevice(rs, ip, mac, {}, recent), ip, mac, {}, recent)
      BY <2>1, AddNewShape DEF Added
    <2> HIDE DEF out
    <2>4. Added(rs, out, ip, mac, {}, recent)
      BY <2>2, <2>3
    <2> QED
      BY <2>1, <2>4 DEF out
  <1>3. CASE at # {}
    <2>1. old \in at /\ old \in DOMAIN rs
      BY <1>0, <1>3
    <2>2. rs[old] \in Row
      BY <2>1, TableRow
    <2>3. now \in Mac \cup {None}
      BY <2>2 DEF Row
    <2>4. row = [rs[old] EXCEPT !.mac = IF @ = None THEN mac ELSE @]
      OBVIOUS
    <2>5. out = IF ip = None \/ ip \in DOMAIN rs THEN [rs EXCEPT ![old] = row]
                ELSE With(Without(rs, old), ip, row)
      BY <1>3, <2>4 DEF mergeClient
    <2> HIDE DEF now
    <2>6. row \in Row /\ row.mac = now /\ row.link = rs[old].link
          /\ row.custom = rs[old].custom
      BY <2>2, <2>3, NewMac
    <2> HIDE DEF row, out, old, at
    <2>7. CASE ip = None \/ ip \in DOMAIN rs
      <3>1. out = [rs EXCEPT ![old] = row]
        BY <2>5, <2>7
      <3>2. /\ Table([rs EXCEPT ![old] = row]) /\ DOMAIN [rs EXCEPT ![old] = row] = DOMAIN rs
            /\ [rs EXCEPT ![old] = row][old] = row
            /\ \A a \in DOMAIN rs \ {old} : [rs EXCEPT ![old] = row][a] = rs[a]
        BY <2>1, <2>6, ChangeShape
      <3>3. Renamed(rs, out, old, now)
        BY <2>6, <3>1, <3>2 DEF Renamed
      <3> QED
        BY <2>1, <3>3 DEF out, at, now
    <2>8. CASE ip # None /\ ip \notin DOMAIN rs
      <3> DEFINE left == Without(rs, old)
      <3>1. out = With(left, ip, row)
        BY <2>5, <2>8
      <3>2. /\ Table(left) /\ DOMAIN left = DOMAIN rs \ {old}
            /\ \A a \in DOMAIN rs \ {old} : left[a] = rs[a]
        BY WithoutShape
      <3> HIDE DEF left
      <3>3. Moved(rs, out, old, ip, now)
        BY <2>6, <2>8, <3>1, <3>2, WithShape DEF Moved
      <3> QED
        BY <2>1, <2>8, <3>3 DEF out, at, now
    <2> QED
      BY <2>7, <2>8
  <1> QED
    BY <1>1, <1>2, <1>3

-----------------------------------------------------------------------------
(* Every step keeps the types. *)

Find == [ip : IP, mac : Mac \cup {None}]

\* A sweep is a sequence of finds.
LEMMA SweepType ==
  ASSUME NEW found \in Sweeps
  PROVE  /\ Len(found) \in Nat /\ DOMAIN found = 1..Len(found)
         /\ \A n \in 1..Len(found) : found[n] \in Find /\ found[n].ip \notin V6
         /\ \A i, j \in 1..Len(found) : found[i].ip = found[j].ip => i = j
PROOF
  <1> DEFINE D == [ip : IP \ V6, mac : Mac \cup {None}]
  <1>1. PICK N \in 1..MaxSweep : found \in [1..N -> D]
    BY DEF Sweeps
  <1>2. N \in Nat
    BY <1>1, BoundAssumption DEF BoundAssumption
  <1>3. found \in Seq(D)
    <2>1. found \in UNION {[1..n -> D] : n \in Nat}
      BY <1>1, <1>2
    <2> HIDE DEF D
    <2>2. Seq(D) = UNION {[1..n -> D] : n \in Nat}
      BY SeqDef, Zenon
    <2> QED
      BY <2>1, <2>2, Zenon
  <1>4. Len(found) \in Nat /\ DOMAIN found = 1..Len(found) /\ found \in [1..Len(found) -> D]
    BY <1>3, LenProperties
  <1>5. ASSUME NEW d \in D PROVE d \in Find /\ d.ip \notin V6
    BY DEF Find
  <1>6. \A n \in 1..Len(found) : found[n] \in D
    BY <1>4
  <1>7. \A i, j \in DOMAIN found : found[i].ip = found[j].ip => i = j
    BY DEF Sweeps
  <1> HIDE DEF D
  <1> QED
    BY <1>4, <1>5, <1>6, <1>7

\* The table is one after every device of the sweep.
LEMMA SweepKeepsTable ==
  ASSUME NEW rs, Table(rs), NEW found \in Sweeps, NEW recent, NEW m,
         m[0] = rs,
         \A n \in 1..Len(found) : m[n] = Merge(m[n-1], found, recent, n)
  PROVE  \A n \in 0..Len(found) : Table(m[n])
PROOF
  <1> DEFINE N == Len(found)
             S == {n \in Nat : n <= N => Table(m[n])}
  <1>1. 0 \in S
    OBVIOUS
  <1>2. ASSUME NEW n \in S PROVE n + 1 \in S
    <2> SUFFICES ASSUME n + 1 <= N PROVE Table(m[n+1])
      OBVIOUS
    <2>1. N \in Nat /\ found[n+1] \in Find /\ n + 1 \in 1..N /\ (n + 1) - 1 = n
      BY SweepType
    <2>2. Table(m[n])
      BY <2>1
    <2>3. m[n+1] = Merge(m[n], found, recent, n + 1)
      BY <2>1
    <2> DEFINE heard == Ips(found, Len(found))
               lately == recent \cup Ips(found, (n + 1) - 1)
               out == mergeDevice(m[n], found[n+1], heard, lately)
    <2>4. m[n+1] = out
      BY <2>3 DEF Merge
    <2> HIDE DEF heard, lately
    <2>5. Table(out)
      BY <2>1, <2>2, MergeDeviceShape DEF Added, Joined, Renamed, Find
    <2> QED
      BY <2>4, <2>5
  <1> HIDE DEF S
  <1>3. S = Nat
    BY <1>1, <1>2, NatInduct DEF S
  <1>4. N \in Nat
    BY SweepType
  <1> QED
    BY <1>3, <1>4 DEF S

LEMMA MergeDevicesTable ==
  ASSUME Table(rows), MergeDevices
  PROVE  Table(rows')
PROOF
  <1>1. PICK found \in Sweeps, recent \in Lately : rows' = mergeDevices(rows, found, recent)
    BY DEF MergeDevices
  <1>2. Len(found) \in Nat
    BY <1>1, SweepType
  <1>3. PICK m : /\ m[0] = rows
                 /\ \A n \in 1..Len(found) : m[n] = Merge(m[n-1], found, recent, n)
                 /\ mergeDevices(rows, found, recent) = m[Len(found)]
    BY <1>2, SweepUnfolds
  <1>4. \A n \in 0..Len(found) : Table(m[n])
    BY <1>1, <1>3, SweepKeepsTable
  <1> QED
    BY <1>1, <1>2, <1>3, <1>4

LEMMA MergeSupplementalTable ==
  ASSUME Table(rows), MergeSupplemental
  PROVE  Table(rows')
PROOF
  <1>1. PICK ip \in IP, mac \in Mac \cup {None}, recent \in Lately :
          rows' = filledIn(rows, ip, mac, recent)
    BY DEF MergeSupplemental
  <1>2. Table(filledIn(rows, ip, mac, recent))
    BY FilledInShape DEF Added, Joined, Renamed
  <1> QED
    BY <1>1, <1>2

LEMMA MergeIPv6NeighborsTable ==
  ASSUME Table(rows), MergeIPv6Neighbors
  PROVE  Table(rows')
PROOF
  <1>1. PICK ip \in V6 \ DOMAIN rows, mac \in Mac \ Random :
          rows' = addNewDevice(rows, ip, mac, {}, {})
    BY DEF MergeIPv6Neighbors
  <1>2. ip \in IP /\ ip \notin DOMAIN rows /\ mac \in Mac \cup {None}
    BY AddressAssumption DEF AddressAssumption
  <1>3. Table(addNewDevice(rows, ip, mac, {}, {}))
    BY <1>2, AddNewShape DEF Joined
  <1> QED
    BY <1>1, <1>3

LEMMA MergeUniFiClientsTable ==
  ASSUME Table(rows), MergeUniFiClients
  PROVE  Table(rows')
PROOF
  <1>1. PICK ip \in (IP \ V6) \cup {None}, mac \in Mac \cup {None}, recent \in Lately :
          rows' = mergeClient(rows, ip, mac, recent)
    BY DEF MergeUniFiClients
  <1>2. Table(mergeClient(rows, ip, mac, recent))
    BY MergeClientShape DEF Added, Joined, Renamed, Moved
  <1> QED
    BY <1>1, <1>2

-----------------------------------------------------------------------------
(* Requests. *)

\* The link a request asks for.
LEMMA ParentMacType ==
  ASSUME NEW rs, Table(rs), NEW ip \in DOMAIN rs, NEW e \in Edit
  PROVE  ParentMac(rs, ip, e) \in Mac \cup {None}
PROOF
  <1>1. rs[ip] \in Row
    BY TableRow
  <1>2. e.link \in Mac \cup {None, Keep}
    BY EditShape
  <1> QED
    BY <1>1, <1>2 DEF ParentMac, Row

\* A request that is written to the row of the device.
LEMMA DirectShape ==
  ASSUME NEW rs, Table(rs), NEW ip \in DOMAIN rs, NEW e \in Edit
  PROVE  LET out == DirectEdit(rs, ip, e)
         IN /\ Table(out) /\ DOMAIN out = DOMAIN rs
            /\ out[ip].mac = IF e.mac = Keep THEN rs[ip].mac ELSE e.mac
            /\ out[ip].link = ParentMac(rs, ip, e)
            /\ out[ip].custom = Over(rs[ip].custom, e.custom)
            /\ \A a \in DOMAIN rs \ {ip} : out[a] = rs[a]
PROOF
  <1> DEFINE mac == IF e.mac = Keep THEN rs[ip].mac ELSE e.mac
             c == Over(rs[ip].custom, e.custom)
             l == ParentMac(rs, ip, e)
             r == [mac |-> mac, link |-> l, custom |-> c]
             out == [rs EXCEPT ![ip] = r]
  <1>1. rs[ip].mac \in Mac \cup {None} /\ rs[ip].custom \in [Field -> Entry]
    BY TableRow DEF Row
  <1>2. mac \in Mac \cup {None}
    BY <1>1, EditShape, LoweredIsMac
  <1>3. c \in [Field -> Entry]
    BY <1>1, EditShape, OverType
  <1>4. l \in Mac \cup {None}
    BY ParentMacType
  <1>5. DirectEdit(rs, ip, e) = out
    BY DEF DirectEdit
  <1> HIDE DEF mac, c, l
  <1>6. r \in Row /\ r.mac = mac /\ r.link = l /\ r.custom = c
    BY <1>2, <1>3, <1>4 DEF Row
  <1> HIDE DEF r
  <1>7. /\ Table(out) /\ DOMAIN out = DOMAIN rs /\ out[ip] = r
        /\ \A a \in DOMAIN rs \ {ip} : out[a] = rs[a]
    BY <1>6, ChangeShape
  <1> HIDE DEF out
  <1>8. /\ Table(out) /\ DOMAIN out = DOMAIN rs
        /\ out[ip].mac = mac /\ out[ip].link = l /\ out[ip].custom = c
        /\ \A a \in DOMAIN rs \ {ip} : out[a] = rs[a]
    BY <1>6, <1>7
  <1> QED
    BY <1>5, <1>8 DEF mac, c, l

\* A request that is written to the row of the parent: the device is blank, and if it
\* is its own parent what was written is gone.
LEMMA ForwardShape ==
  ASSUME NEW rs, Table(rs), NEW ip \in DOMAIN rs, NEW p \in DOMAIN rs, NEW e \in Edit
  PROVE  LET out == ForwardEdit(rs, ip, p, e)
         IN /\ Table(out) /\ DOMAIN out = DOMAIN rs
            /\ out[ip].mac = rs[ip].mac /\ out[ip].custom = Blank
            /\ out[ip].link = ParentMac(rs, ip, e)
            /\ p # ip => /\ out[p].mac = rs[p].mac /\ out[p].link = rs[p].link
                         /\ out[p].custom = Over(rs[p].custom, e.custom)
            /\ \A a \in DOMAIN rs \ {ip, p} : out[a] = rs[a]
PROOF
  <1> DEFINE c == Over(rs[p].custom, e.custom)
             l == ParentMac(rs, ip, e)
             up == [rs EXCEPT ![p].custom = c]
             out == [up EXCEPT ![ip].custom = Blank, ![ip].link = l]
  <1>1. rs[p].custom \in [Field -> Entry]
    BY TableRow DEF Row
  <1>2. c \in [Field -> Entry]
    BY <1>1, EditShape, OverType
  <1>3. l \in Mac \cup {None}
    BY ParentMacType
  <1>4. ForwardEdit(rs, ip, p, e) = out
    BY DEF ForwardEdit
  <1> HIDE DEF c, l
  <1>5. /\ Table(up) /\ DOMAIN up = DOMAIN rs
        /\ up[p].mac = rs[p].mac /\ up[p].link = rs[p].link /\ up[p].custom = c
        /\ \A a \in DOMAIN rs \ {p} : up[a] = rs[a]
    BY <1>2, CustomShape
  <1> HIDE DEF up
  <1>6. /\ Table(out) /\ DOMAIN out = DOMAIN up
        /\ out[ip].mac = up[ip].mac /\ out[ip].link = l
        /\ out[ip].custom = Blank
        /\ \A a \in DOMAIN up \ {ip} : out[a] = up[a]
    BY <1>3, <1>5, BlankShape
  <1> HIDE DEF out
  <1>7. /\ Table(out) /\ DOMAIN out = DOMAIN rs
        /\ out[ip].mac = rs[ip].mac /\ out[ip].custom = Blank
        /\ out[ip].link = l
        /\ p # ip => /\ out[p].mac = rs[p].mac /\ out[p].link = rs[p].link
                     /\ out[p].custom = c
        /\ \A a \in DOMAIN rs \ {ip, p} : out[a] = rs[a]
    BY <1>5, <1>6
  <1> QED
    BY <1>4, <1>7 DEF c, l

\* The parent a request finds.
LEMMA UpdateFieldsShape ==
  ASSUME NEW rs, Table(rs), NEW ip \in DOMAIN rs, NEW e \in Edit
  PROVE  LET parents == Holders(rs, ParentMac(rs, ip, e))
             p == CHOOSE a \in parents : TRUE
         IN \/ parents = {} /\ UpdateFields(rs, ip, e) = DirectEdit(rs, ip, e)
            \/ /\ p \in parents /\ p \in DOMAIN rs
               /\ UpdateFields(rs, ip, e) = ForwardEdit(rs, ip, p, e)
  BY DEF UpdateFields, Holders

LEMMA UpdateFieldsTable ==
  ASSUME NEW rs, Table(rs), NEW ip \in DOMAIN rs, NEW e \in Edit
  PROVE  Table(UpdateFields(rs, ip, e))
PROOF
  <1>1. CASE UpdateFields(rs, ip, e) = DirectEdit(rs, ip, e)
    BY <1>1, DirectShape
  <1>2. CASE \E p \in DOMAIN rs : UpdateFields(rs, ip, e) = ForwardEdit(rs, ip, p, e)
    BY <1>2, ForwardShape
  <1> QED
    BY <1>1, <1>2, UpdateFieldsShape

-----------------------------------------------------------------------------
(* Type correctness. *)

LEMMA InitTypeOK == Init => TypeOK
PROOF
  <1> SUFFICES ASSUME Init PROVE TypeOK
    OBVIOUS
  <1>1. Table(rows)
    BY DEF Init, Table
  <1> QED
    BY <1>1, BoundAssumption DEF Init, TypeOK, BoundAssumption

\* One more request is within the bound.
LEMMA OneMoreEdit ==
  ASSUME TypeOK, edits < MaxEdits, edits' = edits + 1
  PROVE  edits' \in 0..MaxEdits
  BY BoundAssumption DEF TypeOK, BoundAssumption

LEMMA SourceType ==
  ASSUME TypeOK, MergeDevices \/ MergeSupplemental \/ MergeIPv6Neighbors \/ MergeUniFiClients
  PROVE  TypeOK'
PROOF
  <1>1. Table(rows)
    BY DEF TypeOK
  <1>2. Table(rows')
    BY <1>1, MergeDevicesTable, MergeSupplementalTable, MergeIPv6NeighborsTable,
       MergeUniFiClientsTable
  <1>3. UNCHANGED <<probe, facts, edits>>
    BY DEF MergeDevices, MergeSupplemental, MergeIPv6Neighbors, MergeUniFiClients
  <1> QED
    BY <1>2, <1>3 DEF TypeOK

LEMMA DeleteDeviceType ==
  ASSUME TypeOK, NEW ip \in IP, DeleteDevice(ip)
  PROVE  TypeOK'
PROOF
  <1>1. Table(rows')
    BY WithoutShape DEF TypeOK, DeleteDevice
  <1> QED
    BY <1>1, OneMoreEdit DEF TypeOK, DeleteDevice

LEMMA ClearDevicesType ==
  ASSUME TypeOK, NEW gone, ClearDevices(gone)
  PROVE  TypeOK'
PROOF
  <1>1. Table(rows')
    BY RestrictShape DEF TypeOK, ClearDevices
  <1> QED
    BY <1>1, OneMoreEdit DEF TypeOK, ClearDevices

LEMMA UpdateDeviceFieldsType ==
  ASSUME TypeOK, NEW ip \in IP, UpdateDeviceFields(ip)
  PROVE  TypeOK'
PROOF
  <1>1. Table(rows')
    BY UpdateFieldsTable DEF TypeOK, UpdateDeviceFields, Requests
  <1> QED
    BY <1>1, OneMoreEdit DEF TypeOK, UpdateDeviceFields

LEMMA FactsBeginType ==
  ASSUME TypeOK, FactsBegin
  PROVE  TypeOK'
PROOF
  <1>1. PICK ip \in DOMAIN rows, by \in {"ip", "mac"}, new \in Lowered \cup {None}, os \in Value :
          facts' = [stage |-> IF new = None THEN "os" ELSE "mac", ip |-> ip, new |-> new,
                    os |-> os, target |-> IF by = "ip" THEN None ELSE rows[ip].mac]
    BY DEF FactsBegin
  <1> DEFINE target == IF by = "ip" THEN None ELSE rows[ip].mac
  <1>2. ip \in IP /\ rows[ip] \in Row
    BY TableShape, TableRow DEF TypeOK
  <1>3. target \in Mac \cup {None}
    BY <1>2 DEF Row
  <1> HIDE DEF target
  <1>4. CASE new = None
    <2>1. facts' = [stage |-> "os", ip |-> ip, new |-> None, os |-> os, target |-> target]
      BY <1>1, <1>4 DEF target
    <2>2. facts' \in [stage : {"os"}, ip : IP, new : {None}, os : Value, target : Mac \cup {None}]
      BY <2>1, <1>2, <1>3
    <2> QED
      BY <2>2, OneMoreEdit DEF TypeOK, FactsBegin
  <1>5. CASE new # None
    <2>1. facts' = [stage |-> "mac", ip |-> ip, new |-> new, os |-> os, target |-> target]
      BY <1>1, <1>5 DEF target
    <2>2. facts' \in [stage : {"mac"}, ip : IP, new : Lowered, os : Value, target : Mac \cup {None}]
      BY <2>1, <1>2, <1>3, <1>5
    <2> QED
      BY <2>2, OneMoreEdit DEF TypeOK, FactsBegin
  <1> QED
    BY <1>4, <1>5

LEMMA UpdateDeviceMACType ==
  ASSUME TypeOK, UpdateDeviceMAC
  PROVE  TypeOK'
PROOF
  <1>1. facts.stage = "mac"
    BY DEF UpdateDeviceMAC
  <1>2. facts \in [stage : {"mac"}, ip : IP, new : Lowered, os : Value, target : Mac \cup {None}]
    BY <1>1 DEF TypeOK, Idle
  <1>3. facts' \in [stage : {"os"}, ip : IP, new : {None}, os : Value, target : Mac \cup {None}]
    BY <1>2 DEF UpdateDeviceMAC
  <1>4. facts.new \in Mac \cup {None}
    BY <1>2, LoweredIsMac
  <1>5. CASE facts.ip \notin DOMAIN rows
    BY <1>3, <1>5 DEF TypeOK, UpdateDeviceMAC
  <1>6. CASE facts.ip \in DOMAIN rows
    <2> DEFINE ip == facts.ip
               mac == facts.new
    <2>1. rows' = [rows EXCEPT ![ip].mac = mac]
      BY <1>6 DEF UpdateDeviceMAC
    <2>2. Table(rows) /\ ip \in DOMAIN rows /\ mac \in Mac \cup {None}
      BY <1>4, <1>6 DEF TypeOK
    <2> HIDE DEF ip, mac
    <2>3. Table([rows EXCEPT ![ip].mac = mac])
      BY <2>2, MacShape
    <2>4. Table(rows')
      BY <2>1, <2>3
    <2> QED
      BY <1>3, <2>4 DEF TypeOK, UpdateDeviceMAC
  <1> QED
    BY <1>5, <1>6

LEMMA UpdateDeviceCustomOSType ==
  ASSUME TypeOK, UpdateDeviceCustomOS
  PROVE  TypeOK'
PROOF
  <1> DEFINE given == [f \in Field \cap {"os"} |-> facts.os]
  <1>1. facts.stage = "os"
    BY DEF UpdateDeviceCustomOS
  <1>2. facts.os \in Value
    BY <1>1 DEF TypeOK, Idle
  <1>3. Field \cap {"os"} \in SUBSET Field /\ given \in [Field \cap {"os"} -> Entry]
    BY <1>2 DEF Entry
  <1> HIDE DEF given
  <1>4. ASSUME NEW a \in DOMAIN rows
        PROVE  [rows[a] EXCEPT !.custom = Over(@, given)] \in Row
    <2> DEFINE c == Over(rows[a].custom, given)
    <2>1. rows[a] \in Row
      BY TableRow DEF TypeOK
    <2>2. rows[a].custom \in [Field -> Entry]
      BY <2>1 DEF Row
    <2>3. c \in [Field -> Entry]
      BY <1>3, <2>2, OverType
    <2>4. [rows[a] EXCEPT !.custom = Over(@, given)] = [rows[a] EXCEPT !.custom = c]
      OBVIOUS
    <2> HIDE DEF c
    <2> QED
      BY <2>1, <2>3, <2>4, NewCustom
  <1>5. rows' = [a \in DOMAIN rows |-> IF a \in FactRows(rows)
                   THEN [rows[a] EXCEPT !.custom = Over(@, given)] ELSE rows[a]]
    BY DEF UpdateDeviceCustomOS, given
  <1>6. \A a \in DOMAIN rows : rows[a] \in Row
    BY TableRow DEF TypeOK
  <1>7. rows' \in [DOMAIN rows -> Row]
    BY <1>4, <1>5, <1>6
  <1>8. Table(rows')
    BY <1>7, TableShape DEF TypeOK, Table
  <1> QED
    BY <1>8 DEF TypeOK, UpdateDeviceCustomOS

LEMMA ProbeBeginType ==
  ASSUME TypeOK, ProbeBegin
  PROVE  TypeOK'
PROOF
  <1>0. PICK ip \in DOMAIN rows : \E copy \in Listed(rows, ip) :
          probe' = [stage |-> "listed", ip |-> ip, copy |-> copy]
    BY DEF ProbeBegin
  <1>1. PICK copy \in Listed(rows, ip) :
          probe' = [stage |-> "listed", ip |-> ip, copy |-> copy]
    BY <1>0
  <1>2. ip \in IP /\ copy \in Row
    BY <1>1, TableShape, ShownShape DEF TypeOK
  <1>3. probe' \in [stage : {"listed", "read"}, ip : IP, copy : Row]
    BY <1>1, <1>2
  <1> QED
    BY <1>3 DEF TypeOK, ProbeBegin

LEMMA ProbeReadType ==
  ASSUME TypeOK, ProbeRead
  PROVE  TypeOK'
PROOF
  <1> DEFINE copy == IF probe.ip \in DOMAIN rows THEN Shown(rows, probe.ip) ELSE probe.copy
  <1>1. probe.stage = "listed"
    BY DEF ProbeRead
  <1>2. probe \in [stage : {"listed", "read"}, ip : IP, copy : Row]
    BY <1>1 DEF TypeOK, Idle
  <1>3. copy \in Row
    BY <1>2, ShownShape DEF TypeOK
  <1>4. probe' = [probe EXCEPT !.stage = "read", !.copy = copy]
    BY DEF ProbeRead
  <1> HIDE DEF copy
  <1>5. probe' \in [stage : {"listed", "read"}, ip : IP, copy : Row]
    BY <1>2, <1>3, <1>4
  <1> QED
    BY <1>5 DEF TypeOK, ProbeRead

LEMMA UpdateDeviceType ==
  ASSUME TypeOK, UpdateDevice
  PROVE  TypeOK'
PROOF
  <1> DEFINE ip == probe.ip
             row == IF ip \in DOMAIN rows THEN Stored(rows, ip, probe.copy) ELSE probe.copy
  <1>1. probe.stage = "read"
    BY DEF UpdateDevice
  <1>2. ip \in IP /\ probe.copy \in Row
    BY <1>1 DEF TypeOK, Idle
  <1>3. row \in Row
    BY <1>2, StoredShape DEF TypeOK
  <1>4. rows' = With(rows, ip, row)
    BY DEF UpdateDevice
  <1> HIDE DEF ip, row
  <1>5. Table(rows')
    BY <1>2, <1>3, <1>4, WithShape DEF TypeOK
  <1> QED
    BY <1>5 DEF TypeOK, UpdateDevice

LEMMA RestartType ==
  ASSUME TypeOK, Restart
  PROVE  TypeOK'
PROOF
  <1>1. Table(rows')
    BY RestrictShape DEF TypeOK, Restart
  <1> QED
    BY <1>1 DEF TypeOK, Restart

LEMMA StepType == TypeOK /\ [Next]_vars => TypeOK'
PROOF
  <1> SUFFICES ASSUME TypeOK, [Next]_vars PROVE TypeOK'
    OBVIOUS
  <1>1. CASE UNCHANGED vars
    BY <1>1 DEF TypeOK, vars
  <1>2. CASE MergeDevices \/ MergeSupplemental \/ MergeIPv6Neighbors \/ MergeUniFiClients
    BY <1>2, SourceType
  <1>3. ASSUME NEW ip \in IP, DeleteDevice(ip) PROVE TypeOK'
    BY <1>3, DeleteDeviceType
  <1>4. ASSUME NEW gone, ClearDevices(gone) PROVE TypeOK'
    BY <1>4, ClearDevicesType
  <1>5. ASSUME NEW ip \in IP, UpdateDeviceFields(ip) PROVE TypeOK'
    BY <1>5, UpdateDeviceFieldsType
  <1>6. CASE FactsBegin
    BY <1>6, FactsBeginType
  <1>7. CASE UpdateDeviceMAC
    BY <1>7, UpdateDeviceMACType
  <1>8. CASE UpdateDeviceCustomOS
    BY <1>8, UpdateDeviceCustomOSType
  <1>9. CASE ProbeBegin \/ ProbeRead \/ UpdateDevice
    BY <1>9, ProbeBeginType, ProbeReadType, UpdateDeviceType
  <1>10. CASE Restart
    BY <1>10, RestartType
  <1> QED
    BY <1>1, <1>2, <1>3, <1>4, <1>5, <1>6, <1>7, <1>8, <1>9, <1>10 DEF Next

\* Whatever sweeps, sources, requests, facts and probes write, in whatever order and
\* with a restart between any two of them, the table holds whole rows of addresses, and
\* nothing is written for a device that is gone (the store of devices).
THEOREM TypeCorrect == Spec => []TypeOK
PROOF
  <1>1. Init => TypeOK
    BY InitTypeOK
  <1>2. TypeOK /\ [Next]_vars => TypeOK'
    BY StepType
  <1> QED
    BY <1>1, <1>2, PTL DEF Spec

-----------------------------------------------------------------------------
(* What a user saves and what a device shows. *)

\* Tables with the same MACs have the same holders of each.
LEMMA SameHolders ==
  ASSUME NEW rs, NEW out, DOMAIN out = DOMAIN rs, \A a \in DOMAIN rs : out[a].mac = rs[a].mac,
         NEW mac
  PROVE  Holders(out, mac) = Holders(rs, mac)
  BY DEF Holders

\* A blank device shows what its parent has, but for the group.
LEMMA BlankInherits ==
  ASSUME NEW f \in Field, NEW v, f # "group"
  PROVE  Inherited(f, None, v) = v
  BY FieldAssumption DEF Inherited, FieldAssumption

LEMMA SavedShown ==
  ASSUME NEW rs, Table(rs), NEW ip \in DOMAIN rs, NEW e \in Edit, e.mac = Keep,
         ip \notin Parents(UpdateFields(rs, ip, e), ip),
         NEW f \in DOMAIN e.custom,
         f = "group" => Parents(UpdateFields(rs, ip, e), ip) = {}
  PROVE  Shown(UpdateFields(rs, ip, e), ip).custom[f] = e.custom[f]
PROOF
  <1> DEFINE saved == UpdateFields(rs, ip, e)
             l == ParentMac(rs, ip, e)
             parents == Holders(rs, l)
             p == CHOOSE a \in parents : TRUE
  <1>1. DOMAIN e.custom \subseteq Field /\ e.custom \in [DOMAIN e.custom -> Entry] /\ f \in Field
    BY EditShape
  <1>2. CASE parents = {}
    <2>1. saved = DirectEdit(rs, ip, e)
      BY <1>2 DEF UpdateFields
    <2>2. LET out == DirectEdit(rs, ip, e)
          IN /\ DOMAIN out = DOMAIN rs
             /\ out[ip].mac = IF e.mac = Keep THEN rs[ip].mac ELSE e.mac
             /\ out[ip].link = ParentMac(rs, ip, e)
             /\ out[ip].custom = Over(rs[ip].custom, e.custom)
             /\ \A a \in DOMAIN rs \ {ip} : out[a] = rs[a]
      BY DirectShape
    <2> HIDE DEF saved
    <2>3. /\ DOMAIN saved = DOMAIN rs /\ saved[ip].link = l
          /\ saved[ip].custom = Over(rs[ip].custom, e.custom)
          /\ saved[ip].mac = rs[ip].mac
          /\ \A a \in DOMAIN rs \ {ip} : saved[a] = rs[a]
      BY <2>1, <2>2
    <2>4. \A a \in DOMAIN rs : saved[a].mac = rs[a].mac
      BY <2>3
    <2>5. Parents(saved, ip) = {}
      BY <1>2, <2>3, <2>4, SameHolders DEF Parents
    <2>6. Shown(saved, ip) = saved[ip]
      BY <2>5 DEF Shown
    <2>7. Over(rs[ip].custom, e.custom)[f] = e.custom[f]
      BY <1>1 DEF Over
    <2>8. Shown(saved, ip).custom[f] = e.custom[f]
      BY <2>3, <2>6, <2>7
    <2> QED
      BY <2>8 DEF saved
  <1>3. CASE parents # {}
    <2>1. saved = ForwardEdit(rs, ip, p, e) /\ p \in parents /\ p \in DOMAIN rs
      BY <1>3 DEF UpdateFields, Holders
    <2> HIDE DEF p
    <2>2. LET out == ForwardEdit(rs, ip, p, e)
          IN /\ Table(out) /\ DOMAIN out = DOMAIN rs
             /\ out[ip].mac = rs[ip].mac /\ out[ip].custom = Blank
             /\ out[ip].link = ParentMac(rs, ip, e)
             /\ p # ip => /\ out[p].mac = rs[p].mac /\ out[p].link = rs[p].link
                          /\ out[p].custom = Over(rs[p].custom, e.custom)
             /\ \A a \in DOMAIN rs \ {ip, p} : out[a] = rs[a]
      BY <2>1, ForwardShape
    <2> HIDE DEF saved
    <2>3. /\ Table(saved) /\ DOMAIN saved = DOMAIN rs
          /\ saved[ip].mac = rs[ip].mac /\ saved[ip].custom = Blank /\ saved[ip].link = l
          /\ p # ip => saved[p].mac = rs[p].mac /\ saved[p].custom = Over(rs[p].custom, e.custom)
          /\ \A a \in DOMAIN rs \ {ip, p} : saved[a] = rs[a]
      BY <2>1, <2>2
    <2>4. \A a \in DOMAIN rs : saved[a].mac = rs[a].mac
      BY <2>3
    <2>5. Parents(saved, ip) = parents
      BY <2>3, <2>4, SameHolders DEF Parents
    <2>6. p # ip
      BY <2>1, <2>5 DEF saved
    <2>7. Shown(saved, ip) = View(saved, ip, p)
      BY <1>3, <2>5 DEF Shown, p
    <2>8. saved[ip].custom[f] = None /\ saved[p].custom[f] = e.custom[f]
      BY <1>1, <2>3, <2>6 DEF Blank, Over
    <2>9. View(saved, ip, p).custom = [g \in Field |-> Inherited(g, saved[ip].custom[g], saved[p].custom[g])]
      BY <2>1, <2>3, ViewShape
    <2>10. Shown(saved, ip).custom[f] = Inherited(f, None, e.custom[f])
      BY <1>1, <2>7, <2>8, <2>9
    <2>11. f # "group"
      BY <1>3, <2>5 DEF saved
    <2>12. Shown(saved, ip).custom[f] = e.custom[f]
      BY <1>1, <2>10, <2>11, BlankInherits
    <2> QED
      BY <2>12 DEF saved
  <1> QED
    BY <1>2, <1>3

\* What a user saves of a device is what the device shows, in every table a run of the
\* program can reach, with any number of devices and links (UpdateDeviceFields,
\* GetDevice).
THEOREM SavedFieldsAreShown == Spec => []SavedIsShown
PROOF
  <1>1. TypeOK => SavedIsShown
    <2> SUFFICES ASSUME TypeOK, NEW ip \in DOMAIN rows, NEW e \in {r \in Edit : r.mac = Keep},
                        ip \notin Parents(UpdateFields(rows, ip, e), ip),
                        NEW f \in DOMAIN e.custom,
                        f = "group" => Parents(UpdateFields(rows, ip, e), ip) = {}
                 PROVE  Shown(UpdateFields(rows, ip, e), ip).custom[f] = e.custom[f]
      BY DEF SavedIsShown
    <2>1. Table(rows) /\ e \in Edit /\ e.mac = Keep
      BY DEF TypeOK
    <2> QED
      BY <2>1, SavedShown
  <1> QED
    BY <1>1, TypeCorrect, PTL

-----------------------------------------------------------------------------
(* A probe whose copy is what its device shows. *)

\* What it stores: the SSH override the device has, and what it shows of the rest.
LEMMA StoredOfShown ==
  ASSUME NEW rs, Table(rs), NEW ip \in DOMAIN rs, NEW f \in Field
  PROVE  Stored(rs, ip, Shown(rs, ip)).custom[f] =
           IF f = "ssh" THEN rs[ip].custom[f] ELSE Shown(rs, ip).custom[f]
PROOF
  <1> DEFINE s == Shown(rs, ip)
             w == Stored(rs, ip, s)
  <1>1. s \in Row
    BY ShownShape
  <1> HIDE DEF s
  <1>2. /\ f \in {"label", "group"} =>
             w.custom[f] = IF s.custom[f] = None THEN Shown(rs, ip).custom[f] ELSE s.custom[f]
        /\ f = "notify" => w.custom[f] = Shown(rs, ip).custom[f]
        /\ f = "ssh"    => w.custom[f] = rs[ip].custom[f]
        /\ f = "os"     => w.custom[f] = s.custom[f]
    BY <1>1, StoredShape
  <1> HIDE DEF w
  <1>3. f \in {"label", "group", "notify", "ssh", "os"}
    BY FieldAssumption DEF FieldAssumption
  <1>4. s = Shown(rs, ip)
    BY DEF s
  <1>5. w.custom[f] = IF f = "ssh" THEN rs[ip].custom[f] ELSE s.custom[f]
    BY <1>2, <1>3, <1>4
  <1> QED
    BY <1>5 DEF s, w

\* A column inherited twice is the column inherited once.
LEMMA InheritedTwice ==
  ASSUME NEW f \in Field, NEW own, NEW parent
  PROVE  /\ Inherited(f, own, own) = own
         /\ Inherited(f, IF f = "ssh" THEN own ELSE Inherited(f, own, parent), parent)
              = Inherited(f, own, parent)
PROOF
  <1>1. f \in {"label", "group", "notify", "ssh", "os"}
    BY FieldAssumption DEF FieldAssumption
  <1> QED
    BY <1>1 DEF Inherited

\* The device of a table with the same links and MACs.
LEMMA SameParents ==
  ASSUME NEW rs, NEW out, DOMAIN out = DOMAIN rs,
         \A a \in DOMAIN rs : out[a].mac = rs[a].mac /\ out[a].link = rs[a].link,
         NEW ip \in DOMAIN rs
  PROVE  Parents(out, ip) = Parents(rs, ip)
  BY SameHolders DEF Parents

\* What a linked device shows, column by column.
LEMMA ShownLinked ==
  ASSUME NEW rs, Table(rs), NEW ip \in DOMAIN rs, Parents(rs, ip) # {}
  PROVE  LET p == CHOOSE a \in Parents(rs, ip) : TRUE
         IN /\ p \in Parents(rs, ip) /\ p \in DOMAIN rs
            /\ Shown(rs, ip).custom =
                 [f \in Field |-> Inherited(f, rs[ip].custom[f], rs[p].custom[f])]
PROOF
  <1> DEFINE p == CHOOSE a \in Parents(rs, ip) : TRUE
  <1>1. p \in Parents(rs, ip) /\ p \in DOMAIN rs
    BY ParentsShape
  <1>2. Shown(rs, ip) = View(rs, ip, p)
    BY DEF Shown
  <1> HIDE DEF p
  <1>3. View(rs, ip, p).custom =
          [f \in Field |-> Inherited(f, rs[ip].custom[f], rs[p].custom[f])]
    BY <1>1, ViewShape
  <1>4. Shown(rs, ip).custom =
          [f \in Field |-> Inherited(f, rs[ip].custom[f], rs[p].custom[f])]
    BY <1>2, <1>3
  <1> QED
    BY <1>1, <1>4 DEF p

LEMMA ProbeShowsTheSame ==
  ASSUME NEW rs, Table(rs), NEW ip \in DOMAIN rs, ip \in IP, NEW a \in DOMAIN rs,
         Parents(rs, ip) = {} \/ ip \notin Parents(rs, a) \/ a = ip
  PROVE  Shown(With(rs, ip, Stored(rs, ip, Shown(rs, ip))), a).custom = Shown(rs, a).custom
PROOF
  <1> DEFINE s == Shown(rs, ip)
             r == Stored(rs, ip, s)
             out == With(rs, ip, r)
             p == CHOOSE b \in Parents(rs, a) : TRUE
  <1>1. s \in Row /\ s.mac = rs[ip].mac /\ s.link = rs[ip].link
    BY ShownShape
  <1>2. \A f \in Field : r.custom[f] = IF f = "ssh" THEN rs[ip].custom[f] ELSE s.custom[f]
    BY StoredOfShown
  <1>3. Parents(rs, ip) = {} => s = rs[ip]
    BY DEF Shown
  <1>4. Parents(rs, a) = {} => Shown(rs, a) = rs[a]
    BY DEF Shown
  <1> HIDE DEF s
  <1>5. r \in Row /\ r.mac = rs[ip].mac /\ r.link = rs[ip].link
    BY <1>1, StoredShape
  <1> HIDE DEF r
  <1>6. /\ Table(out) /\ DOMAIN out = DOMAIN rs /\ out[ip] = r
        /\ \A b \in DOMAIN rs \ {ip} : out[b] = rs[b]
    <2>0. Table(rs) /\ ip \in IP /\ r \in Row
      BY <1>5
    <2>1. \A q \in Row :
            /\ Table(With(rs, ip, q)) /\ DOMAIN With(rs, ip, q) = DOMAIN rs \cup {ip}
            /\ With(rs, ip, q)[ip] = q
            /\ \A b \in DOMAIN rs \ {ip} : With(rs, ip, q)[b] = rs[b]
      BY <2>0, WithShape
    <2>2. out = With(rs, ip, r)
      OBVIOUS
    <2> HIDE DEF out
    <2> QED
      BY <2>0, <2>1, <2>2
  <1> HIDE DEF out
  <1>7. \A b \in DOMAIN rs : out[b].mac = rs[b].mac /\ out[b].link = rs[b].link
    BY <1>5, <1>6
  <1>8. Parents(out, a) = Parents(rs, a)
    BY <1>6, <1>7, SameParents
  <1>9. rs[ip] \in Row /\ rs[ip].custom \in [Field -> Entry] /\ r.custom \in [Field -> Entry]
    BY <1>5, TableRow DEF Row
  <1>10. Parents(rs, ip) = {} => r.custom = rs[ip].custom
    BY <1>2, <1>3, <1>9
  <1>11. CASE Parents(rs, a) = {}
    <2>1. Shown(out, a) = out[a]
      BY <1>8, <1>11 DEF Shown
    <2>2. out[a].custom = rs[a].custom
      BY <1>6, <1>10, <1>11
    <2> QED
      BY <1>4, <1>11, <2>1, <2>2 DEF out, r, s
  <1>12. CASE Parents(rs, a) # {}
    <2>1. p \in Parents(rs, a) /\ p \in DOMAIN rs
      BY <1>12, ParentsShape
    <2>2. Shown(rs, a).custom = [f \in Field |-> Inherited(f, rs[a].custom[f], rs[p].custom[f])]
      BY <1>12, ShownLinked
    <2>3. p = CHOOSE b \in Parents(out, a) : TRUE
      BY <1>8
    <2>4. Shown(out, a).custom = [f \in Field |-> Inherited(f, out[a].custom[f], out[p].custom[f])]
      BY <1>6, <1>8, <1>12, <2>3, ShownLinked
    <2> HIDE DEF p
    <2>5. SUFFICES ASSUME NEW f \in Field
                   PROVE  Inherited(f, out[a].custom[f], out[p].custom[f])
                            = Inherited(f, rs[a].custom[f], rs[p].custom[f])
      BY <2>2, <2>4 DEF out, r, s
    <2>6. CASE a # ip /\ p # ip
      BY <1>6, <2>1, <2>6
    <2>7. CASE a # ip /\ p = ip
      <3>1. Parents(rs, ip) = {}
        BY <2>1, <2>7
      <3> QED
        BY <1>6, <1>10, <2>7, <3>1
    <2>8. CASE a = ip /\ p = ip
      <3>1. s.custom[f] = Inherited(f, rs[ip].custom[f], rs[ip].custom[f])
        BY <2>2, <2>8 DEF s
      <3>2. r.custom[f] = rs[ip].custom[f]
        BY <1>2, <3>1, InheritedTwice
      <3> QED
        BY <1>6, <2>8, <3>2
    <2>9. CASE a = ip /\ p # ip
      <3>1. s.custom[f] = Inherited(f, rs[ip].custom[f], rs[p].custom[f])
        BY <2>2, <2>9 DEF s
      <3>2. out[p] = rs[p] /\ out[a] = r
        BY <1>6, <2>1, <2>9
      <3> DEFINE own == rs[ip].custom[f]
                 parent == rs[p].custom[f]
      <3>3. r.custom[f] = IF f = "ssh" THEN own ELSE Inherited(f, own, parent)
        BY <1>2, <3>1
      <3>4. Inherited(f, r.custom[f], parent) = Inherited(f, own, parent)
        BY <3>3, InheritedTwice
      <3> QED
        BY <2>9, <3>2, <3>4
    <2> QED
      BY <2>6, <2>7, <2>8, <2>9
  <1> QED
    BY <1>11, <1>12

\* The store of a probe that read what its device shows is invisible, whatever the
\* columns, the links and the other devices are (scanPortHost, UpdateDevice).
THEOREM ProbesAreInvisible == Spec => ProbeIsInvisible
PROOF
  <1> DEFINE A == UpdateDevice /\ probe.ip \in DOMAIN rows /\ probe.copy = Shown(rows, probe.ip)
                  => \A a \in DOMAIN rows :
                       Parents(rows, probe.ip) = {} \/ probe.ip \notin Parents(rows, a) \/ a = probe.ip
                         => Shown(rows', a).custom = Shown(rows, a).custom
  <1>1. TypeOK /\ [Next]_vars => [A]_vars
    <2> SUFFICES ASSUME TypeOK, UpdateDevice, probe.ip \in DOMAIN rows,
                        probe.copy = Shown(rows, probe.ip), NEW a \in DOMAIN rows,
                        Parents(rows, probe.ip) = {} \/ probe.ip \notin Parents(rows, a) \/ a = probe.ip
                 PROVE  Shown(rows', a).custom = Shown(rows, a).custom
      OBVIOUS
    <2>1. Table(rows) /\ probe.ip \in IP
      BY TableShape DEF TypeOK
    <2>2. rows' = With(rows, probe.ip, Stored(rows, probe.ip, Shown(rows, probe.ip)))
      BY DEF UpdateDevice
    <2>3. Shown(With(rows, probe.ip, Stored(rows, probe.ip, Shown(rows, probe.ip))), a).custom
            = Shown(rows, a).custom
      BY <2>1, ProbeShowsTheSame
    <2> QED
      BY <2>2, <2>3
  <1> QED
    BY <1>1, TypeCorrect, PTL DEF Spec, ProbeIsInvisible

-----------------------------------------------------------------------------
(* What the steps of sweeps and other sources write. *)

\* A step that leaves probes, facts and requests alone is one of a source, or a start.
LEMMA SweptSteps ==
  ASSUME TypeOK, Next, Swept
  PROVE  MergeDevices \/ MergeSupplemental \/ MergeIPv6Neighbors \/ MergeUniFiClients \/ Restart
PROOF
  <1>1. probe' = probe /\ facts' = facts /\ edits' = edits
    BY DEF Swept
  <1>2. edits' # edits + 1
    BY <1>1, BoundAssumption DEF TypeOK, BoundAssumption
  <1>3. ASSUME NEW ip \in IP PROVE ~DeleteDevice(ip) /\ ~UpdateDeviceFields(ip)
    BY <1>2 DEF DeleteDevice, UpdateDeviceFields
  <1>4. ASSUME NEW gone PROVE ~ClearDevices(gone)
    BY <1>2 DEF ClearDevices
  <1>5. ~FactsBegin
    BY <1>2 DEF FactsBegin
  <1>6. ~UpdateDeviceMAC
    <2> SUFFICES ASSUME UpdateDeviceMAC PROVE FALSE
      OBVIOUS
    <2>1. facts.stage = "mac" /\ facts' = [facts EXCEPT !.stage = "os", !.new = None]
      BY DEF UpdateDeviceMAC
    <2>2. facts \in [stage : {"mac"}, ip : IP, new : Lowered, os : Value, target : Mac \cup {None}]
      BY <2>1 DEF TypeOK, Idle
    <2>3. facts'.stage = "os"
      BY <2>1, <2>2
    <2> QED
      BY <1>1, <2>1, <2>3
  <1>7. ~UpdateDeviceCustomOS
    BY <1>1 DEF UpdateDeviceCustomOS, Idle
  <1>8. ~ProbeBegin
    BY <1>1 DEF ProbeBegin
  <1>9. ~ProbeRead
    <2> SUFFICES ASSUME ProbeRead PROVE FALSE
      OBVIOUS
    <2> DEFINE copy == IF probe.ip \in DOMAIN rows THEN Shown(rows, probe.ip) ELSE probe.copy
    <2>1. probe.stage = "listed" /\ probe' = [probe EXCEPT !.stage = "read", !.copy = copy]
      BY DEF ProbeRead
    <2> HIDE DEF copy
    <2>2. probe \in [stage : {"listed", "read"}, ip : IP, copy : Row]
      BY <2>1 DEF TypeOK, Idle
    <2>3. probe'.stage = "read"
      BY <2>1, <2>2
    <2> QED
      BY <1>1, <2>1, <2>3
  <1>10. ~UpdateDevice
    BY <1>1 DEF UpdateDevice, Idle
  <1> QED
    BY <1>3, <1>4, <1>5, <1>6, <1>7, <1>8, <1>9, <1>10 DEF Next

-----------------------------------------------------------------------------
(* A device at a new address. *)

Agrees(r, s) == \A f \in CarriedFields : r.custom[f] = s.custom[f]

\* The IPv4 rows with a MAC.
Holding(rs, mac) == {a \in Holders(rs, mac) : a \notin V6}

\* What a row carries to a new address.
LEMMA CarriedAgrees ==
  ASSUME NEW r, NEW s, r.custom = Carried(s)
  PROVE  Agrees(r, s)
  BY DEF Agrees, Carried, CarriedFields

\* A new row of a MAC that one other row has is a copy of that.
LEMMA AddedAgrees ==
  ASSUME NEW rs, NEW out, NEW at \in IP, at \notin DOMAIN rs, NEW mac, NEW heard, NEW recent,
         Added(rs, out, at, mac, heard, recent),
         NEW ip \in DOMAIN out, ip \notin DOMAIN rs,
         NEW old, findByMAC(rs, out[ip].mac, ip) = {old}
  PROVE  Agrees(out[ip], rs[old])
PROOF
  <1>1. ip = at /\ out[ip].mac = mac
    BY DEF Added, Joined
  <1>2. findByMAC(rs, mac, at) = {old}
    BY <1>1
  <1>3. out[ip].custom = Carried(rs[old])
    BY <1>1, <1>2 DEF Added, Joined
  <1> QED
    BY <1>3, CarriedAgrees

\* The tables of a sweep: the rows the sweep has come to stay, with the MAC that was
\* seen there, and the others are as they were.
Followed(rs, t, found, n) ==
  /\ \A a \in DOMAIN t \ Ips(found, n) : a \in DOMAIN rs /\ t[a] = rs[a]
  /\ \A k \in 1..n : /\ found[k].ip \in DOMAIN t
                     /\ found[k].mac # None => t[found[k].ip].mac = found[k].mac

LEMMA IpsGrow ==
  ASSUME NEW found, NEW n \in Nat
  PROVE  Ips(found, n + 1) = Ips(found, n) \cup {found[n+1].ip}
PROOF
  <1>1. 1..(n+1) = (1..n) \cup {n + 1}
    OBVIOUS
  <1> QED
    BY <1>1 DEF Ips

LEMMA FollowedStep ==
  ASSUME NEW rs, NEW found \in Sweeps, NEW recent, NEW t, Table(t),
         NEW n \in Nat, n + 1 \in 1..Len(found), Followed(rs, t, found, n)
  PROVE  Followed(rs, Merge(t, found, recent, n + 1), found, n + 1)
PROOF
  <1> DEFINE N == Len(found)
             heard == Ips(found, N)
             lately == recent \cup Ips(found, (n + 1) - 1)
             d == found[n+1]
             out == mergeDevice(t, d, heard, lately)
  <1>1. N \in Nat /\ d \in Find /\ (n + 1) - 1 = n /\ n < N
    BY SweepType
  <1>2. \A i, j \in 1..N : found[i].ip = found[j].ip => i = j
    BY SweepType
  <1>3. ASSUME NEW k \in 1..n
        PROVE  /\ found[k].ip # d.ip /\ found[k].ip \in heard /\ found[k].ip \in lately
               /\ found[k].ip \in DOMAIN t
               /\ found[k].mac # None => t[found[k].ip].mac = found[k].mac
    <2>1. k \in 1..N /\ k # n + 1
      BY <1>1
    <2> QED
      BY <1>1, <1>2, <2>1 DEF Followed, Ips
  <1>4. Ips(found, n + 1) = Ips(found, n) \cup {d.ip}
    BY IpsGrow
  <1>5. Merge(t, found, recent, n + 1) = out
    BY DEF Merge
  <1> HIDE DEF heard, lately, d
  <1>6. \/ d.ip \notin DOMAIN t /\ Added(t, out, d.ip, d.mac, heard, lately)
        \/ /\ d.ip \in DOMAIN t
           /\ Renamed(t, out, d.ip, IF d.mac = None THEN t[d.ip].mac ELSE d.mac)
    BY <1>1, MergeDeviceShape DEF Find
  <1> HIDE DEF out
  <1>7. /\ d.ip \in DOMAIN out
        /\ d.mac # None => out[d.ip].mac = d.mac
        /\ \A a \in DOMAIN out \ {d.ip} : a \in DOMAIN t /\ out[a] = t[a]
        /\ \A k \in 1..n : found[k].ip \in DOMAIN out
    <2>1. CASE d.ip \in DOMAIN t
      BY <1>3, <1>6, <2>1 DEF Renamed
    <2>2. CASE d.ip \notin DOMAIN t
      <3>1. PICK gone : /\ gone \cap heard = {} \/ gone \cap lately = {}
                        /\ DOMAIN out = (DOMAIN t \ gone) \cup {d.ip}
                        /\ out[d.ip].mac = d.mac
                        /\ \A a \in DOMAIN t \ (gone \cup {d.ip}) : out[a] = t[a]
        <4>1. ASSUME NEW c, Joined(t, out, d.ip, d.mac, c, {})
              PROVE  \E gone : /\ gone \cap heard = {} \/ gone \cap lately = {}
                               /\ DOMAIN out = (DOMAIN t \ gone) \cup {d.ip}
                               /\ out[d.ip].mac = d.mac
                               /\ \A a \in DOMAIN t \ (gone \cup {d.ip}) : out[a] = t[a]
          <5>1. {} \cap heard = {}
            OBVIOUS
          <5> QED
            BY <4>1, <5>1 DEF Joined
        <4>2. ASSUME NEW c, NEW o, Joined(t, out, d.ip, d.mac, c, {o}),
                     NotThere(d.ip, o, heard, lately)
              PROVE  \E gone : /\ gone \cap heard = {} \/ gone \cap lately = {}
                               /\ DOMAIN out = (DOMAIN t \ gone) \cup {d.ip}
                               /\ out[d.ip].mac = d.mac
                               /\ \A a \in DOMAIN t \ (gone \cup {d.ip}) : out[a] = t[a]
          <5>1. {o} \cap heard = {} \/ {o} \cap lately = {}
            BY <4>2 DEF NotThere
          <5> QED
            BY <4>2, <5>1 DEF Joined
        <4> QED
          BY <1>6, <2>2, <4>1, <4>2 DEF Added
      <3>2. \A k \in 1..n : found[k].ip \notin gone
        BY <1>3, <3>1
      <3> QED
        BY <1>3, <3>1, <3>2
    <2> QED
      BY <2>1, <2>2
  <1>8. \A a \in DOMAIN out \ Ips(found, n + 1) : a \in DOMAIN rs /\ out[a] = rs[a]
    BY <1>4, <1>7 DEF Followed
  <1>9. ASSUME NEW k \in 1..(n+1)
        PROVE  /\ found[k].ip \in DOMAIN out
               /\ found[k].mac # None => out[found[k].ip].mac = found[k].mac
    <2>1. CASE k = n + 1
      <3>1. found[k] = d
        BY <2>1 DEF d
      <3> QED
        BY <1>7, <3>1
    <2>2. CASE k # n + 1
      <3>1. k \in 1..n
        BY <2>2
      <3> QED
        BY <1>3, <1>7, <3>1
    <2> QED
      BY <2>1, <2>2
  <1>10. Followed(rs, out, found, n + 1)
    BY <1>8, <1>9 DEF Followed
  <1> QED
    BY <1>5, <1>10

LEMMA SweepFollows ==
  ASSUME NEW rs, NEW found \in Sweeps, NEW recent, NEW m,
         m[0] = rs, \A n \in 1..Len(found) : m[n] = Merge(m[n-1], found, recent, n),
         \A n \in 0..Len(found) : Table(m[n])
  PROVE  \A n \in 0..Len(found) : Followed(rs, m[n], found, n)
PROOF
  <1> DEFINE N == Len(found)
             S == {n \in Nat : n <= N => Followed(rs, m[n], found, n)}
  <1>1. N \in Nat
    BY SweepType
  <1>2. 0 \in S
    BY DEF Followed, Ips
  <1>3. ASSUME NEW n \in S PROVE n + 1 \in S
    <2> SUFFICES ASSUME n + 1 <= N PROVE Followed(rs, m[n+1], found, n + 1)
      OBVIOUS
    <2>1. n \in Nat /\ n \in 0..N /\ n + 1 \in 1..N /\ (n + 1) - 1 = n
      BY <1>1
    <2>2. m[n+1] = Merge(m[n], found, recent, n + 1)
      BY <2>1
    <2>3. Table(m[n]) /\ Followed(rs, m[n], found, n)
      BY <2>1
    <2> QED
      BY <2>1, <2>2, <2>3, FollowedStep
  <1> HIDE DEF S
  <1>4. S = Nat
    BY <1>2, <1>3, NatInduct DEF S
  <1> QED
    BY <1>1, <1>4 DEF S

\* The IPv4 rows with the MAC, of which there is one, all say what was said of the old.
Holds(t, mac, row) ==
  /\ Holding(t, mac) # {}
  /\ \A a \in Holding(t, mac) : Agrees(t[a], row)

\* What the sweep may say of the MAC and of the old address: the MAC is found at no
\* other address that is known, and nothing else is found at the old one.
Undisturbed(rs, found, mac, old) ==
  \A k \in 1..Len(found) :
    /\ found[k].ip = old => found[k].mac \in {mac, None}
    /\ found[k].mac = mac /\ found[k].ip \in DOMAIN rs => found[k].ip = old

\* The columns of a row that joins, and the rows that go for it.
Entered(t, out, ip, mac, c, gone) ==
  /\ Joined(t, out, ip, mac, c, gone)
  /\ gone \subseteq findByMAC(t, mac, ip)
  /\ findByMAC(t, mac, ip) # {} => \E o \in findByMAC(t, mac, ip) : c = Carried(t[o])

LEMMA AddedEnters ==
  ASSUME NEW t, NEW out, NEW ip, NEW mac, NEW heard, NEW recent,
         Added(t, out, ip, mac, heard, recent)
  PROVE  \E c, gone : Entered(t, out, ip, mac, c, gone)
PROOF
  <1>1. CASE findByMAC(t, mac, ip) = {} /\ Joined(t, out, ip, mac, Blank, {})
    <2>1. Entered(t, out, ip, mac, Blank, {})
      BY <1>1 DEF Entered
    <2> QED
      BY <2>1
  <1>2. ASSUME NEW o \in findByMAC(t, mac, ip), Joined(t, out, ip, mac, Carried(t[o]), {})
        PROVE  \E c, gone : Entered(t, out, ip, mac, c, gone)
    <2>1. Entered(t, out, ip, mac, Carried(t[o]), {})
      BY <1>2 DEF Entered
    <2> QED
      BY <2>1
  <1>3. ASSUME NEW o \in findByMAC(t, mac, ip), Joined(t, out, ip, mac, Carried(t[o]), {o})
        PROVE  \E c, gone : Entered(t, out, ip, mac, c, gone)
    <2>1. Entered(t, out, ip, mac, Carried(t[o]), {o})
      BY <1>3 DEF Entered
    <2> QED
      BY <2>1
  <1> QED
    BY <1>1, <1>2, <1>3 DEF Added

LEMMA HoldsStep ==
  ASSUME NEW rs, Table(rs), NEW found \in Sweeps, NEW recent, NEW t, Table(t),
         NEW n \in Nat, n + 1 \in 1..Len(found), Followed(rs, t, found, n),
         NEW mac, NEW old, Holding(rs, mac) = {old}, Undisturbed(rs, found, mac, old),
         Holds(t, mac, rs[old])
  PROVE  Holds(Merge(t, found, recent, n + 1), mac, rs[old])
PROOF
  <1> DEFINE N == Len(found)
             heard == Ips(found, N)
             lately == recent \cup Ips(found, (n + 1) - 1)
             d == found[n+1]
             out == mergeDevice(t, d, heard, lately)
  <1>1. N \in Nat /\ d \in Find /\ d.ip \notin V6 /\ n < N
    BY SweepType
  <1>2. d.ip \notin Ips(found, n)
    <2>1. ASSUME NEW k \in 1..n PROVE found[k].ip # d.ip
      <3>1. k \in 1..N /\ k # n + 1
        BY <1>1
      <3> QED
        BY <3>1, SweepType
    <2> QED
      BY <2>1 DEF Ips
  <1>3. d.ip \in DOMAIN t => d.ip \in DOMAIN rs /\ t[d.ip] = rs[d.ip]
    BY <1>2 DEF Followed
  <1>4. d.ip = old => d.mac \in {mac, None}
    BY DEF Undisturbed
  <1>5. d.mac = mac /\ d.ip \in DOMAIN rs => d.ip = old
    BY DEF Undisturbed
  <1>6. Merge(t, found, recent, n + 1) = out
    BY DEF Merge
  <1>7. mac # None /\ old \in DOMAIN rs /\ rs[old].mac = mac
    BY DEF Holding, Holders
  <1> HIDE DEF heard, lately, d
  <1>8. \/ d.ip \notin DOMAIN t /\ Added(t, out, d.ip, d.mac, heard, lately)
        \/ /\ d.ip \in DOMAIN t
           /\ Renamed(t, out, d.ip, IF d.mac = None THEN t[d.ip].mac ELSE d.mac)
    BY <1>1, MergeDeviceShape DEF Find
  <1> HIDE DEF out
  <1>9. CASE d.ip \in DOMAIN t
    <2> DEFINE now == IF d.mac = None THEN t[d.ip].mac ELSE d.mac
    <2>1. /\ DOMAIN out = DOMAIN t /\ out[d.ip].mac = now /\ out[d.ip].custom = t[d.ip].custom
          /\ \A a \in DOMAIN t \ {d.ip} : out[a] = t[a]
      BY <1>8, <1>9 DEF Renamed
    <2>2. now = mac <=> t[d.ip].mac = mac
      <3>1. CASE d.mac = None
        BY <3>1
      <3>2. CASE d.mac = mac
        BY <1>3, <1>5, <1>7, <1>9, <3>2
      <3>3. CASE d.mac # mac /\ d.mac # None
        <4>1. d.ip # old
          BY <1>4, <3>3
        <4>2. t[d.ip].mac # mac
          BY <1>1, <1>3, <1>7, <1>9, <4>1 DEF Holding, Holders
        <4> QED
          BY <3>3, <4>2
      <3> QED
        BY <3>1, <3>2, <3>3
    <2> HIDE DEF now
    <2>3. Holding(out, mac) = Holding(t, mac)
      BY <2>1, <2>2 DEF Holding, Holders
    <2>4. ASSUME NEW a \in Holding(t, mac) PROVE Agrees(out[a], rs[old])
      <3>1. a \in DOMAIN t /\ Agrees(t[a], rs[old])
        BY DEF Holds, Holding, Holders
      <3>2. out[a].custom = t[a].custom
        BY <2>1, <3>1
      <3> QED
        BY <3>1, <3>2 DEF Agrees
    <2>5. Holds(out, mac, rs[old])
      BY <2>3, <2>4 DEF Holds
    <2> QED
      BY <1>6, <2>5
  <1>10. CASE d.ip \notin DOMAIN t
    <2>1. PICK c, gone : Entered(t, out, d.ip, d.mac, c, gone)
      BY <1>8, <1>10, AddedEnters
    <2>2. \A a \in gone : a \in DOMAIN t /\ t[a].mac = d.mac
      BY <2>1 DEF Entered, findByMAC, Holders
    <2>3. /\ DOMAIN out = (DOMAIN t \ gone) \cup {d.ip}
          /\ out[d.ip].mac = d.mac /\ out[d.ip].custom = c
          /\ \A a \in DOMAIN t \ (gone \cup {d.ip}) : out[a] = t[a]
      BY <2>1 DEF Entered, Joined
    <2>4. CASE d.mac = mac
      <3>1. findByMAC(t, d.mac, d.ip) = Holding(t, mac)
        BY <1>1, <1>10, <2>4 DEF findByMAC, Holding, Holders
      <3>2. PICK o \in Holding(t, mac) : c = Carried(t[o])
        BY <2>1, <3>1 DEF Entered, Holds
      <3>3. Agrees(t[o], rs[old])
        BY <3>2 DEF Holds
      <3>4. Agrees(out[d.ip], t[o])
        BY <2>3, <3>2, CarriedAgrees
      <3>5. Agrees(out[d.ip], rs[old])
        BY <3>3, <3>4 DEF Agrees
      <3>6. d.ip \in Holding(out, mac)
        BY <1>1, <1>7, <2>3, <2>4 DEF Holding, Holders
      <3>7. \A a \in Holding(out, mac) \ {d.ip} : a \in Holding(t, mac) /\ out[a] = t[a]
        BY <2>3 DEF Holding, Holders
      <3>8. Holds(out, mac, rs[old])
        BY <3>5, <3>6, <3>7 DEF Holds
      <3> QED
        BY <1>6, <3>8
    <2>5. CASE d.mac # mac
      <3>1. Holding(out, mac) = Holding(t, mac)
        BY <1>10, <2>2, <2>3, <2>5 DEF Holding, Holders
      <3>2. \A a \in Holding(t, mac) : out[a] = t[a]
        BY <1>10, <2>2, <2>3, <2>5 DEF Holding, Holders
      <3>3. Holds(out, mac, rs[old])
        BY <3>1, <3>2 DEF Holds
      <3> QED
        BY <1>6, <3>3
    <2> QED
      BY <2>4, <2>5
  <1> QED
    BY <1>9, <1>10

LEMMA SweepHolds ==
  ASSUME NEW rs, Table(rs), NEW found \in Sweeps, NEW recent, NEW m,
         m[0] = rs, \A n \in 1..Len(found) : m[n] = Merge(m[n-1], found, recent, n),
         \A n \in 0..Len(found) : Table(m[n]),
         NEW mac, NEW old, Holding(rs, mac) = {old}, Undisturbed(rs, found, mac, old)
  PROVE  Holds(m[Len(found)], mac, rs[old])
PROOF
  <1> DEFINE N == Len(found)
             S == {n \in Nat : n <= N => Holds(m[n], mac, rs[old])}
  <1>1. N \in Nat
    BY SweepType
  <1>2. 0 \in S
    BY DEF Holds, Agrees
  <1>3. ASSUME NEW n \in S PROVE n + 1 \in S
    <2> SUFFICES ASSUME n + 1 <= N PROVE Holds(m[n+1], mac, rs[old])
      OBVIOUS
    <2>1. n \in Nat /\ n \in 0..N /\ n + 1 \in 1..N /\ (n + 1) - 1 = n
      BY <1>1
    <2>2. m[n+1] = Merge(m[n], found, recent, n + 1)
      BY <2>1
    <2>3. Table(m[n]) /\ Followed(rs, m[n], found, n)
      BY <2>1, SweepFollows
    <2>4. Holds(m[n], mac, rs[old])
      BY <2>1
    <2> QED
      BY <2>1, <2>2, <2>3, <2>4, HoldsStep
  <1> HIDE DEF S
  <1>4. S = Nat
    BY <1>2, <1>3, NatInduct DEF S
  <1> QED
    BY <1>1, <1>4 DEF S

\* The hypotheses of MovesKeepUserData.
MovedAlone(rs, out, ip, old) ==
  /\ findByMAC(rs, out[ip].mac, ip) = {old}
  /\ old \in DOMAIN out => out[old].mac = out[ip].mac
  /\ Holders(out, out[ip].mac) \cap DOMAIN rs \subseteq Holders(rs, out[ip].mac)
  /\ Holders(rs, out[ip].mac) \ DOMAIN out \subseteq {old}

LEMMA MergeDevicesMoves ==
  ASSUME Table(rows), MergeDevices, NEW ip \in DOMAIN rows' \ DOMAIN rows,
         NEW old \in DOMAIN rows, MovedAlone(rows, rows', ip, old)
  PROVE  Agrees(rows'[ip], rows[old])
PROOF
  <1>1. PICK found \in Sweeps, recent \in Lately : rows' = mergeDevices(rows, found, recent)
    BY DEF MergeDevices
  <1> DEFINE N == Len(found)
             mac == rows'[ip].mac
  <1>2. N \in Nat
    BY <1>1, SweepType
  <1>3. PICK m : /\ m[0] = rows
                 /\ \A n \in 1..N : m[n] = Merge(m[n-1], found, recent, n)
                 /\ mergeDevices(rows, found, recent) = m[N]
    BY <1>2, SweepUnfolds
  <1>4. \A n \in 0..N : Table(m[n])
    BY <1>1, <1>3, SweepKeepsTable
  <1>5. Followed(rows, rows', found, N)
    <2>1. \A n \in 0..N : Followed(rows, m[n], found, n)
      BY <1>1, <1>3, <1>4, SweepFollows
    <2>2. N \in 0..N /\ rows' = m[N]
      BY <1>1, <1>2, <1>3
    <2> QED
      BY <2>1, <2>2
  <1>6. ip \notin V6
    <2>1. PICK k \in 1..N : found[k].ip = ip
      BY <1>5 DEF Followed, Ips
    <2> QED
      BY <2>1, SweepType
  <1>7. findByMAC(rows, mac, ip) = {old} /\ mac # None
    BY DEF MovedAlone, findByMAC, Holders
  <1>8. Holding(rows, mac) = {old}
    <2>1. Holding(rows, mac) = findByMAC(rows, mac, ip)
      BY <1>6 DEF Holding, Holders, findByMAC
    <2> QED
      BY <1>7, <2>1
  <1>9. Undisturbed(rows, found, mac, old)
    <2> SUFFICES ASSUME NEW k \in 1..N
                 PROVE  /\ found[k].ip = old => found[k].mac \in {mac, None}
                        /\ found[k].mac = mac /\ found[k].ip \in DOMAIN rows => found[k].ip = old
      BY DEF Undisturbed
    <2>1. /\ found[k].ip \in DOMAIN rows' /\ found[k].ip \notin V6
          /\ found[k].mac # None => rows'[found[k].ip].mac = found[k].mac
      BY <1>5, SweepType DEF Followed
    <2>2. ASSUME found[k].ip = old PROVE found[k].mac \in {mac, None}
      BY <2>1, <2>2 DEF MovedAlone
    <2>3. ASSUME found[k].mac = mac, found[k].ip \in DOMAIN rows PROVE found[k].ip = old
      <3>1. found[k].ip \in Holders(rows', mac) \cap DOMAIN rows
        BY <1>7, <2>1, <2>3 DEF Holders
      <3>2. found[k].ip \in Holding(rows, mac)
        BY <2>1, <3>1 DEF MovedAlone, Holding
      <3> QED
        BY <1>8, <3>2
    <2> QED
      BY <2>2, <2>3
  <1>10. ip \in Holding(rows', mac)
    BY <1>6, <1>7 DEF Holding, Holders
  <1> HIDE DEF mac
  <1>11. Holds(rows', mac, rows[old])
    <2>1. Holds(m[N], mac, rows[old])
      BY <1>1, <1>3, <1>4, <1>8, <1>9, SweepHolds
    <2> QED
      BY <1>1, <1>3, <2>1
  <1> QED
    BY <1>10, <1>11 DEF Holds

LEMMA MergeSupplementalMoves ==
  ASSUME Table(rows), MergeSupplemental, NEW ip \in DOMAIN rows' \ DOMAIN rows,
         NEW old \in DOMAIN rows, MovedAlone(rows, rows', ip, old)
  PROVE  Agrees(rows'[ip], rows[old])
PROOF
  <1>1. PICK at \in IP, mac \in Mac \cup {None}, recent \in Lately :
          rows' = filledIn(rows, at, mac, recent)
    BY DEF MergeSupplemental
  <1> DEFINE out == filledIn(rows, at, mac, recent)
  <1>2. \/ at \notin DOMAIN rows /\ Added(rows, out, at, mac, {}, recent)
        \/ Renamed(rows, out, at, IF rows[at].mac # None THEN rows[at].mac ELSE mac)
    BY FilledInShape
  <1>3. rows' = out
    BY <1>1
  <1> HIDE DEF out
  <1>4. at \notin DOMAIN rows /\ Added(rows, out, at, mac, {}, recent)
    BY <1>2, <1>3 DEF Renamed
  <1>5. findByMAC(rows, out[ip].mac, ip) = {old} /\ ip \in DOMAIN out /\ ip \notin DOMAIN rows
    BY <1>3 DEF MovedAlone
  <1>6. Agrees(out[ip], rows[old])
    BY <1>4, <1>5, AddedAgrees
  <1> QED
    BY <1>3, <1>6

LEMMA MergeIPv6NeighborsMoves ==
  ASSUME Table(rows), MergeIPv6Neighbors, NEW ip \in DOMAIN rows' \ DOMAIN rows,
         NEW old \in DOMAIN rows, MovedAlone(rows, rows', ip, old)
  PROVE  Agrees(rows'[ip], rows[old])
PROOF
  <1>1. PICK at \in V6 \ DOMAIN rows, mac \in Mac \ Random :
          rows' = addNewDevice(rows, at, mac, {}, {})
    BY DEF MergeIPv6Neighbors
  <1> DEFINE out == addNewDevice(rows, at, mac, {}, {})
  <1>2. at \in IP /\ at \notin DOMAIN rows /\ mac \in Mac \cup {None}
    BY AddressAssumption DEF AddressAssumption
  <1>3. Added(rows, out, at, mac, {}, {})
    BY <1>2, AddNewShape DEF Added
  <1>4. rows' = out
    BY <1>1
  <1> HIDE DEF out
  <1>5. findByMAC(rows, out[ip].mac, ip) = {old} /\ ip \in DOMAIN out /\ ip \notin DOMAIN rows
    BY <1>4 DEF MovedAlone
  <1>6. Agrees(out[ip], rows[old])
    BY <1>2, <1>3, <1>5, AddedAgrees
  <1> QED
    BY <1>4, <1>6

LEMMA MergeUniFiClientsMoves ==
  ASSUME Table(rows), MergeUniFiClients, NEW ip \in DOMAIN rows' \ DOMAIN rows,
         NEW old \in DOMAIN rows, MovedAlone(rows, rows', ip, old)
  PROVE  Agrees(rows'[ip], rows[old])
PROOF
  <1>1. PICK at \in (IP \ V6) \cup {None}, mac \in Mac \cup {None}, recent \in Lately :
          rows' = mergeClient(rows, at, mac, recent)
    BY DEF MergeUniFiClients
  <1> DEFINE out == mergeClient(rows, at, mac, recent)
  <1>2. \/ out = rows
        \/ at \in IP \ DOMAIN rows /\ Added(rows, out, at, mac, {}, recent)
        \/ \E was \in ClientRows(rows, at, mac) :
             LET now == IF rows[was].mac = None THEN mac ELSE rows[was].mac
             IN \/ Renamed(rows, out, was, now)
                \/ at \in IP \ DOMAIN rows /\ Moved(rows, out, was, at, now)
    BY MergeClientShape
  <1>3. rows' = out
    BY <1>1
  <1> HIDE DEF out
  <1>4. /\ findByMAC(rows, out[ip].mac, ip) = {old} /\ ip \in DOMAIN out /\ ip \notin DOMAIN rows
        /\ Holders(rows, out[ip].mac) \ DOMAIN out \subseteq {old}
    BY <1>3 DEF MovedAlone
  <1>5. CASE at \in IP \ DOMAIN rows /\ Added(rows, out, at, mac, {}, recent)
    <2>1. at \in IP /\ at \notin DOMAIN rows
      BY <1>5
    <2>2. Agrees(out[ip], rows[old])
      BY <1>4, <1>5, <2>1, AddedAgrees
    <2> QED
      BY <1>3, <2>2
  <1>6. ASSUME NEW was \in ClientRows(rows, at, mac), NEW now,
               now = IF rows[was].mac = None THEN mac ELSE rows[was].mac,
               at \notin DOMAIN rows, Moved(rows, out, was, at, now)
        PROVE  Agrees(rows'[ip], rows[old])
    <2>1. was \in DOMAIN rows
      BY DEF ClientRows, Spelled
    <2>2. /\ DOMAIN out = (DOMAIN rows \ {was}) \cup {at}
          /\ out[at].mac = now /\ out[at].custom = rows[was].custom
      BY <1>6 DEF Moved
    <2>3. ip = at /\ out[ip].mac = now /\ was \notin DOMAIN out
      BY <1>4, <1>6, <2>1, <2>2
    <2>4. now # None /\ rows[old].mac = now
      BY <1>4, <2>3 DEF findByMAC, Holders
    <2>5. rows[was].mac = now
      <3> SUFFICES ASSUME rows[was].mac = None PROVE FALSE
        BY <1>6
      <3>1. mac = now
        BY <1>6
      <3>2. old \in Spelled(rows, mac)
        BY <2>4, <3>1 DEF Spelled
      <3>3. was \in Spelled(rows, mac)
        BY <3>2 DEF ClientRows
      <3> QED
        BY <3>3 DEF Spelled
    <2>6. was \in Holders(rows, out[ip].mac) \ DOMAIN out
      BY <2>1, <2>3, <2>4, <2>5 DEF Holders
    <2>7. was = old
      BY <1>4, <2>6
    <2> QED
      BY <1>3, <2>2, <2>3, <2>7 DEF Agrees
  <1>7. \A was, now : Renamed(rows, out, was, now) => FALSE
    BY <1>4 DEF Renamed
  <1> QED
    BY <1>2, <1>4, <1>5, <1>6, <1>7

\* A device at a new address keeps what the user has said of it, through a sweep of any
\* length in any order and whatever rows it moves on the way, and when another source
\* is the first to see it there (addNewDeviceLocked, MergeUniFiClients).
THEOREM MovesKeepWhatWasSaid == Spec => MovesKeepUserData
PROOF
  <1> DEFINE A == Swept => \A ip \in DOMAIN rows' \ DOMAIN rows, old \in DOMAIN rows :
       LET mac == rows'[ip].mac
       IN /\ findByMAC(rows, mac, ip) = {old}
          /\ old \in DOMAIN rows' => rows'[old].mac = mac
          /\ Holders(rows', mac) \cap DOMAIN rows \subseteq Holders(rows, mac)
          /\ Holders(rows, mac) \ DOMAIN rows' \subseteq {old}
          => \A f \in CarriedFields : rows'[ip].custom[f] = rows[old].custom[f]
  <1>1. TypeOK /\ [Next]_vars => [A]_vars
    <2> SUFFICES ASSUME TypeOK, Next, Swept, NEW ip \in DOMAIN rows' \ DOMAIN rows,
                        NEW old \in DOMAIN rows, MovedAlone(rows, rows', ip, old)
                 PROVE  Agrees(rows'[ip], rows[old])
      BY DEF MovedAlone, Agrees
    <2>1. Table(rows)
      BY DEF TypeOK
    <2>2. ~Restart
      BY DEF Restart
    <2> QED
      BY <2>1, <2>2, SweptSteps, MergeDevicesMoves, MergeSupplementalMoves,
         MergeIPv6NeighborsMoves, MergeUniFiClientsMoves
  <1> QED
    BY <1>1, TypeCorrect, PTL DEF Spec, MovesKeepUserData

-----------------------------------------------------------------------------
(* What a user has written. *)

\* All columns of the rows of a table are still in it.
AllThere(rs, out, f) ==
  \A a \in DOMAIN rs : rs[a].custom[f] = None \/ \E b \in DOMAIN out : out[b].custom[f] = rs[a].custom[f]

LEMMA AllThereIsEnough ==
  ASSUME NEW rs, NEW out, NEW f, AllThere(rs, out, f), NEW a \in DOMAIN rs
  PROVE  rs[a].custom[f] \in Written(out, f) \cup {None}
  BY DEF AllThere, Written

LEMMA AddedLosesNothing ==
  ASSUME NEW rs, NEW out, NEW ip, NEW mac, NEW heard, NEW recent, ip \notin DOMAIN rs,
         Added(rs, out, ip, mac, heard, recent), NEW f \in CarriedFields
  PROVE  AllThere(rs, out, f)
PROOF
  <1>1. ASSUME NEW c, Joined(rs, out, ip, mac, c, {}) PROVE AllThere(rs, out, f)
    BY <1>1 DEF Joined, AllThere
  <1>2. ASSUME NEW old \in DOMAIN rs, Joined(rs, out, ip, mac, Carried(rs[old]), {old})
        PROVE  AllThere(rs, out, f)
    <2>1. f \in Field /\ Carried(rs[old])[f] = rs[old].custom[f]
      BY DEF CarriedFields, Carried
    <2>2. DOMAIN out = (DOMAIN rs \ {old}) \cup {ip} /\ out[ip].custom[f] = rs[old].custom[f]
          /\ \A a \in DOMAIN rs \ {old, ip} : out[a] = rs[a]
      BY <1>2, <2>1 DEF Joined
    <2> QED
      BY <2>2 DEF AllThere
  <1>3. findByMAC(rs, mac, ip) \subseteq DOMAIN rs
    BY DEF findByMAC, Holders
  <1> QED
    BY <1>1, <1>2, <1>3 DEF Added

LEMMA RenamedLosesNothing ==
  ASSUME NEW rs, NEW out, NEW ip, NEW mac, Renamed(rs, out, ip, mac), NEW f
  PROVE  AllThere(rs, out, f)
  BY DEF Renamed, AllThere

LEMMA MovedLosesNothing ==
  ASSUME NEW rs, NEW out, NEW old \in DOMAIN rs, NEW ip, NEW mac, ip \notin DOMAIN rs,
         Moved(rs, out, old, ip, mac), NEW f
  PROVE  AllThere(rs, out, f)
  BY DEF Moved, AllThere

LEMMA NothingLostTwice ==
  ASSUME NEW rs, NEW mid, NEW out, NEW f, AllThere(rs, mid, f), AllThere(mid, out, f)
  PROVE  AllThere(rs, out, f)
  BY DEF AllThere

LEMMA MergeDevicesLosesNothing ==
  ASSUME Table(rows), MergeDevices, NEW f \in CarriedFields
  PROVE  AllThere(rows, rows', f)
PROOF
  <1>1. PICK found \in Sweeps, recent \in Lately : rows' = mergeDevices(rows, found, recent)
    BY DEF MergeDevices
  <1> DEFINE N == Len(found)
  <1>2. N \in Nat /\ \A n \in 1..N : found[n] \in Find
    BY <1>1, SweepType
  <1>3. PICK m : /\ m[0] = rows
                 /\ \A n \in 1..N : m[n] = Merge(m[n-1], found, recent, n)
                 /\ mergeDevices(rows, found, recent) = m[N]
    BY <1>2, SweepUnfolds
  <1>4. \A n \in 0..N : Table(m[n])
    BY <1>1, <1>3, SweepKeepsTable
  <1> DEFINE S == {n \in Nat : n <= N => AllThere(rows, m[n], f)}
  <1>5. 0 \in S
    BY <1>3 DEF AllThere
  <1>6. ASSUME NEW n \in S PROVE n + 1 \in S
    <2> SUFFICES ASSUME n + 1 <= N PROVE AllThere(rows, m[n+1], f)
      OBVIOUS
    <2>1. n \in 0..N /\ n + 1 \in 1..N /\ (n + 1) - 1 = n
      BY <1>2
    <2>2. AllThere(rows, m[n], f)
      BY <1>2
    <2> DEFINE heard == Ips(found, N)
               lately == recent \cup Ips(found, (n + 1) - 1)
               d == found[n+1]
               out == mergeDevice(m[n], d, heard, lately)
    <2>3. m[n+1] = out
      BY <1>3, <2>1 DEF Merge
    <2>4. Table(m[n]) /\ d \in Find
      BY <1>2, <1>4, <2>1
    <2> HIDE DEF heard, lately, d
    <2>5. \/ d.ip \notin DOMAIN m[n] /\ Added(m[n], out, d.ip, d.mac, heard, lately)
          \/ Renamed(m[n], out, d.ip, IF d.mac = None THEN m[n][d.ip].mac ELSE d.mac)
      BY <2>4, MergeDeviceShape DEF Find
    <2> HIDE DEF out
    <2>6. AllThere(m[n], out, f)
      BY <2>5, AddedLosesNothing, RenamedLosesNothing
    <2> QED
      BY <2>2, <2>3, <2>6, NothingLostTwice
  <1> HIDE DEF S
  <1>7. S = Nat
    BY <1>5, <1>6, NatInduct DEF S
  <1>8. AllThere(rows, m[N], f)
    BY <1>2, <1>7 DEF S
  <1> QED
    BY <1>1, <1>3, <1>8

LEMMA MergeSupplementalLosesNothing ==
  ASSUME Table(rows), MergeSupplemental, NEW f \in CarriedFields
  PROVE  AllThere(rows, rows', f)
PROOF
  <1>1. PICK ip \in IP, mac \in Mac \cup {None}, recent \in Lately :
          rows' = filledIn(rows, ip, mac, recent)
    BY DEF MergeSupplemental
  <1> DEFINE out == filledIn(rows, ip, mac, recent)
  <1>2. \/ ip \notin DOMAIN rows /\ Added(rows, out, ip, mac, {}, recent)
        \/ Renamed(rows, out, ip, IF rows[ip].mac # None THEN rows[ip].mac ELSE mac)
    BY FilledInShape
  <1>3. rows' = out
    BY <1>1
  <1> HIDE DEF out
  <1>4. AllThere(rows, out, f)
    BY <1>2, AddedLosesNothing, RenamedLosesNothing
  <1> QED
    BY <1>3, <1>4

LEMMA MergeIPv6NeighborsLosesNothing ==
  ASSUME Table(rows), MergeIPv6Neighbors, NEW f \in CarriedFields
  PROVE  AllThere(rows, rows', f)
PROOF
  <1>1. PICK ip \in V6 \ DOMAIN rows, mac \in Mac \ Random :
          rows' = addNewDevice(rows, ip, mac, {}, {})
    BY DEF MergeIPv6Neighbors
  <1> DEFINE out == addNewDevice(rows, ip, mac, {}, {})
  <1>2. ip \in IP /\ ip \notin DOMAIN rows /\ mac \in Mac \cup {None}
    BY AddressAssumption DEF AddressAssumption
  <1>3. Added(rows, out, ip, mac, {}, {})
    BY <1>2, AddNewShape DEF Added
  <1>4. rows' = out
    BY <1>1
  <1> HIDE DEF out
  <1>5. AllThere(rows, out, f)
    BY <1>2, <1>3, AddedLosesNothing
  <1> QED
    BY <1>4, <1>5

LEMMA MergeUniFiClientsLosesNothing ==
  ASSUME Table(rows), MergeUniFiClients, NEW f \in CarriedFields
  PROVE  AllThere(rows, rows', f)
PROOF
  <1>1. PICK ip \in (IP \ V6) \cup {None}, mac \in Mac \cup {None}, recent \in Lately :
          rows' = mergeClient(rows, ip, mac, recent)
    BY DEF MergeUniFiClients
  <1> DEFINE out == mergeClient(rows, ip, mac, recent)
  <1>2. \/ out = rows
        \/ ip \in IP \ DOMAIN rows /\ Added(rows, out, ip, mac, {}, recent)
        \/ \E old \in ClientRows(rows, ip, mac) :
             LET now == IF rows[old].mac = None THEN mac ELSE rows[old].mac
             IN \/ Renamed(rows, out, old, now)
                \/ ip \in IP \ DOMAIN rows /\ Moved(rows, out, old, ip, now)
    BY MergeClientShape
  <1>3. rows' = out
    BY <1>1
  <1>4. ClientRows(rows, ip, mac) \subseteq DOMAIN rows
    BY DEF ClientRows, Spelled
  <1> HIDE DEF out
  <1>5. AllThere(rows, rows, f)
    BY DEF AllThere
  <1>6. AllThere(rows, out, f)
    BY <1>2, <1>4, <1>5, AddedLosesNothing, RenamedLosesNothing, MovedLosesNothing
  <1> QED
    BY <1>3, <1>6

\* A row is as the user has left it, or its MAC is at another address.
KeptOrRelocated(rs, out, a) ==
  \/ a \in DOMAIN out /\ out[a].custom = rs[a].custom
  \/ rs[a].mac # None /\ \E ip \in DOMAIN out \ {a} : out[ip].mac = rs[a].mac

LEMMA AddedKeeps ==
  ASSUME NEW rs, NEW out, NEW ip, NEW mac, NEW heard, NEW recent, ip \notin DOMAIN rs,
         Added(rs, out, ip, mac, heard, recent), NEW a \in DOMAIN rs
  PROVE  \/ a \in DOMAIN out /\ out[a] = rs[a]
         \/ a \notin DOMAIN out /\ rs[a].mac = mac /\ mac # None /\ ip \in DOMAIN out \ {a} /\ out[ip].mac = mac
PROOF
  <1>1. ASSUME NEW c, Joined(rs, out, ip, mac, c, {}) PROVE a \in DOMAIN out /\ out[a] = rs[a]
    BY <1>1 DEF Joined
  <1>2. ASSUME NEW old \in findByMAC(rs, mac, ip), NEW c, Joined(rs, out, ip, mac, c, {old})
        PROVE  \/ a \in DOMAIN out /\ out[a] = rs[a]
               \/ a \notin DOMAIN out /\ rs[a].mac = mac /\ mac # None /\ ip \in DOMAIN out \ {a} /\ out[ip].mac = mac
    <2>1. rs[old].mac = mac /\ mac # None
      BY DEF findByMAC, Holders
    <2> QED
      BY <1>2, <2>1 DEF Joined
  <1> QED
    BY <1>1, <1>2 DEF Added

LEMMA SweepKeepsOrRelocates ==
  ASSUME Table(rows), MergeDevices, NEW a \in DOMAIN rows
  PROVE  KeptOrRelocated(rows, rows', a)
PROOF
  <1>1. PICK found \in Sweeps, recent \in Lately : rows' = mergeDevices(rows, found, recent)
    BY DEF MergeDevices
  <1> DEFINE N == Len(found)
  <1>2. N \in Nat /\ \A n \in 1..N : found[n] \in Find
    BY <1>1, SweepType
  <1>3. PICK m : /\ m[0] = rows
                 /\ \A n \in 1..N : m[n] = Merge(m[n-1], found, recent, n)
                 /\ mergeDevices(rows, found, recent) = m[N]
    <2> HIDE DEF N
    <2>1. Len(found) \in Nat
      BY <1>2 DEF N
    <2> QED
      BY <2>1, SweepUnfolds DEF N
  <1>4. \A n \in 0..N : Table(m[n])
    BY <1>1, <1>3, SweepKeepsTable
  <1>5. \A n \in 0..N : Followed(rows, m[n], found, n)
    BY <1>3, <1>4, SweepFollows
  <1> DEFINE Kept(n) == a \in DOMAIN m[n] /\ m[n][a].custom = rows[a].custom
             Found(n) == \E k \in 1..n : found[k].ip # a /\ found[k].mac = rows[a].mac /\ found[k].mac # None
             S == {n \in Nat : n <= N => Kept(n) \/ Found(n)}
  <1>6. 0 \in S
    BY <1>3
  <1>7. ASSUME NEW n \in S PROVE n + 1 \in S
    <2> SUFFICES ASSUME n + 1 <= N PROVE Kept(n + 1) \/ Found(n + 1)
      OBVIOUS
    <2>1. n \in Nat /\ n \in 0..N /\ n + 1 \in 0..N /\ n + 1 \in 1..N /\ (n + 1) - 1 = n /\ n + 1 \in 1..(n + 1)
      BY <1>2
    <2>2. CASE Found(n)
      BY <2>1, <2>2
    <2>3. CASE Kept(n)
      <3> DEFINE heard == Ips(found, N)
                 lately == recent \cup Ips(found, (n + 1) - 1)
                 d == found[n+1]
                 out == mergeDevice(m[n], d, heard, lately)
      <3>1. m[n+1] = out
        BY <1>3, <2>1 DEF Merge
      <3>2. Table(m[n]) /\ d \in Find
        BY <1>2, <1>4, <2>1
      <3>3. /\ Followed(rows, m[n], found, n) /\ Followed(rows, m[n+1], found, n + 1)
        BY <1>5, <2>1
      <3> HIDE DEF heard, lately, d
      <3>4. \/ d.ip \notin DOMAIN m[n] /\ Added(m[n], out, d.ip, d.mac, heard, lately)
            \/ Renamed(m[n], out, d.ip, IF d.mac = None THEN m[n][d.ip].mac ELSE d.mac)
        BY <3>2, MergeDeviceShape DEF Find
      <3> HIDE DEF out
      <3>5. CASE Renamed(m[n], out, d.ip, IF d.mac = None THEN m[n][d.ip].mac ELSE d.mac)
        BY <2>3, <3>1, <3>5 DEF Renamed
      <3>6. CASE d.ip \notin DOMAIN m[n] /\ Added(m[n], out, d.ip, d.mac, heard, lately)
        <4>1. \/ a \in DOMAIN out /\ out[a] = m[n][a]
              \/ a \notin DOMAIN out /\ m[n][a].mac = d.mac /\ d.mac # None /\ d.ip # a
          BY <2>3, <3>6, AddedKeeps
        <4>2. CASE a \in DOMAIN out /\ out[a] = m[n][a]
          BY <2>3, <3>1, <4>2
        <4>3. CASE a \notin DOMAIN out /\ m[n][a].mac = d.mac /\ d.mac # None /\ d.ip # a
          <5>1. a \notin Ips(found, n + 1)
            BY <3>1, <3>3, <4>3 DEF Followed, Ips
          <5>2. a \notin Ips(found, n)
            BY <5>1, <2>1, IpsGrow
          <5>3. m[n][a] = rows[a]
            BY <2>3, <3>3, <5>2 DEF Followed
          <5>4. d = found[n+1] /\ d.mac = rows[a].mac
            BY <4>3, <5>3 DEF d
          <5> QED
            BY <2>1, <4>3, <5>4
        <4> QED
          BY <4>1, <4>2, <4>3
      <3> QED
        BY <3>4, <3>5, <3>6
    <2> QED
      BY <1>7, <2>1, <2>2, <2>3
  <1> HIDE DEF S
  <1>8. S = Nat
    BY <1>6, <1>7, NatInduct DEF S
  <1>9. Kept(N) \/ Found(N)
    BY <1>2, <1>8 DEF S
  <1>10. ASSUME Found(N) PROVE rows[a].mac # None /\ \E ip \in DOMAIN m[N] \ {a} : m[N][ip].mac = rows[a].mac
    <2>1. PICK k \in 1..N : found[k].ip # a /\ found[k].mac = rows[a].mac /\ found[k].mac # None
      BY <1>10
    <2>2. Followed(rows, m[N], found, N)
      BY <1>2, <1>5
    <2>3. found[k].ip \in DOMAIN m[N] /\ m[N][found[k].ip].mac = found[k].mac
      BY <2>1, <2>2 DEF Followed
    <2> QED
      BY <2>1, <2>3
  <1> QED
    BY <1>1, <1>3, <1>9, <1>10 DEF KeptOrRelocated

LEMMA OthersKeepOrRelocate ==
  ASSUME Table(rows), MergeSupplemental \/ MergeIPv6Neighbors, NEW a \in DOMAIN rows
  PROVE  KeptOrRelocated(rows, rows', a)
PROOF
  <1>1. CASE MergeSupplemental
    <2>1. PICK ip \in IP, mac \in Mac \cup {None}, recent \in Lately :
            rows' = filledIn(rows, ip, mac, recent)
      BY <1>1 DEF MergeSupplemental
    <2> DEFINE out == filledIn(rows, ip, mac, recent)
    <2>2. \/ ip \notin DOMAIN rows /\ Added(rows, out, ip, mac, {}, recent)
          \/ Renamed(rows, out, ip, IF rows[ip].mac # None THEN rows[ip].mac ELSE mac)
      BY FilledInShape
    <2>3. rows' = out
      BY <2>1
    <2> HIDE DEF out
    <2>4. CASE ip \notin DOMAIN rows /\ Added(rows, out, ip, mac, {}, recent)
      BY <2>3, <2>4, AddedKeeps DEF KeptOrRelocated
    <2>5. CASE Renamed(rows, out, ip, IF rows[ip].mac # None THEN rows[ip].mac ELSE mac)
      BY <2>3, <2>5 DEF Renamed, KeptOrRelocated
    <2> QED
      BY <2>2, <2>4, <2>5
  <1>2. CASE MergeIPv6Neighbors
    <2>1. PICK ip \in V6 \ DOMAIN rows, mac \in Mac \ Random :
            rows' = addNewDevice(rows, ip, mac, {}, {})
      BY <1>2 DEF MergeIPv6Neighbors
    <2>2. ip \in IP /\ ip \notin DOMAIN rows /\ mac \in Mac \cup {None}
      BY AddressAssumption DEF AddressAssumption
    <2> DEFINE out == addNewDevice(rows, ip, mac, {}, {})
    <2>3. Added(rows, out, ip, mac, {}, {})
      BY <2>2, AddNewShape DEF Added
    <2>4. rows' = out
      BY <2>1
    <2> HIDE DEF out
    <2> QED
      BY <2>2, <2>3, <2>4, AddedKeeps DEF KeptOrRelocated
  <1> QED
    BY <1>1, <1>2

\* A client that is new to the store may move a device; one that is known keeps all.
LEMMA ClientsKeepOrRelocate ==
  ASSUME Table(rows), MergeUniFiClients, NEW a \in DOMAIN rows, NEW f
  PROVE  KeptOrRelocated(rows, rows', a) \/ AllThere(rows, rows', f)
PROOF
  <1>1. PICK ip \in (IP \ V6) \cup {None}, mac \in Mac \cup {None}, recent \in Lately :
          rows' = mergeClient(rows, ip, mac, recent)
    BY DEF MergeUniFiClients
  <1> DEFINE out == mergeClient(rows, ip, mac, recent)
  <1>2. \/ out = rows
        \/ ip \in IP \ DOMAIN rows /\ Added(rows, out, ip, mac, {}, recent)
        \/ \E old \in ClientRows(rows, ip, mac) :
             LET now == IF rows[old].mac = None THEN mac ELSE rows[old].mac
             IN \/ Renamed(rows, out, old, now)
                \/ ip \in IP \ DOMAIN rows /\ Moved(rows, out, old, ip, now)
    BY MergeClientShape
  <1>3. rows' = out
    BY <1>1
  <1>4. ClientRows(rows, ip, mac) \subseteq DOMAIN rows
    BY DEF ClientRows, Spelled
  <1> HIDE DEF out
  <1>5. CASE out = rows
    BY <1>3, <1>5 DEF KeptOrRelocated
  <1>6. CASE ip \in IP \ DOMAIN rows /\ Added(rows, out, ip, mac, {}, recent)
    BY <1>3, <1>6, AddedKeeps DEF KeptOrRelocated
  <1>7. ASSUME NEW old \in ClientRows(rows, ip, mac), NEW now,
               Renamed(rows, out, old, now) \/ (ip \in IP \ DOMAIN rows /\ Moved(rows, out, old, ip, now))
        PROVE  AllThere(rows, rows', f)
    BY <1>3, <1>4, <1>7, RenamedLosesNothing, MovedLosesNothing
  <1> QED
    BY <1>2, <1>5, <1>6, <1>7

\* No sweep of any length and no other source loses what a user has written, but for the
\* SSH and the OS override of a row whose MAC it has found at another address, and no
\* start of the program but for IPv6 rows with a private MAC, of which only those with
\* a label or a group stay (MergeDevices, MergeSupplemental, MergeIPv6Neighbors,
\* MergeUniFiClients, addNewDeviceLocked).
THEOREM NothingIsLost == Spec => SweepLosesNothing
PROOF
  <1> DEFINE A == Swept => \A a \in DOMAIN rows, f \in Field :
       \/ rows[a].custom[f] \in Written(rows', f) \cup {None}
       \/ f \notin CarriedFields /\ Relocated(a)
       \/ f \notin {"label", "group"} /\ a \in Ephemeral(rows) \ DOMAIN rows'
  <1>1. TypeOK /\ [Next]_vars => [A]_vars
    <2> SUFFICES ASSUME TypeOK, Next, Swept, NEW a \in DOMAIN rows, NEW f \in Field
                 PROVE  \/ rows[a].custom[f] \in Written(rows', f) \cup {None}
                        \/ f \notin CarriedFields /\ Relocated(a)
                        \/ f \notin {"label", "group"} /\ a \in Ephemeral(rows) \ DOMAIN rows'
      OBVIOUS
    <2>1. Table(rows)
      BY DEF TypeOK
    <2>2. CASE Restart
      <3>1. rows' = [b \in DOMAIN rows \ Ephemeral(rows) |-> rows[b]]
        BY <2>2 DEF Restart
      <3>2. CASE a \notin Ephemeral(rows)
        BY <3>1, <3>2 DEF Written
      <3>3. CASE a \in Ephemeral(rows)
        BY <3>1, <3>3 DEF Ephemeral
      <3> QED
        BY <3>2, <3>3
    <2>3. CASE ~Restart
      <3>1. MergeDevices \/ MergeSupplemental \/ MergeIPv6Neighbors \/ MergeUniFiClients
        BY <2>3, SweptSteps
      <3>2. CASE f \in CarriedFields
        <4>1. AllThere(rows, rows', f)
          BY <2>1, <3>1, <3>2, MergeDevicesLosesNothing, MergeSupplementalLosesNothing,
             MergeIPv6NeighborsLosesNothing, MergeUniFiClientsLosesNothing
        <4> QED
          BY <4>1, AllThereIsEnough
      <3>3. CASE f \notin CarriedFields
        <4>1. KeptOrRelocated(rows, rows', a) \/ AllThere(rows, rows', f)
          BY <2>1, <3>1, SweepKeepsOrRelocates, OthersKeepOrRelocate, ClientsKeepOrRelocate
        <4>2. CASE AllThere(rows, rows', f)
          BY <4>2, AllThereIsEnough
        <4>3. CASE KeptOrRelocated(rows, rows', a)
          BY <3>3, <4>3 DEF KeptOrRelocated, Relocated, Written
        <4> QED
          BY <4>1, <4>2, <4>3
      <3> QED
        BY <3>2, <3>3
    <2> QED
      BY <2>2, <2>3
  <1> QED
    BY <1>1, TypeCorrect, PTL DEF Spec, SweepLosesNothing

=============

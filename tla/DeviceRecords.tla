--------------------------- MODULE DeviceRecords ---------------------------
(***************************************************************************)
(* The rows of the devices table: which device is at an address, what the  *)
(* user has said of it, and how sweeps, other sources, edits, facts and    *)
(* port probes write to the same rows.                                     *)
(* Source: internal/storage/storage.go, internal/api/api.go and            *)
(* scanJob.scanPortHost of internal/api/scanjob.go.                        *)
(*                                                                         *)
(* A row is kept for an address.  The columns the user fills in differ in  *)
(* three ways only: what a linked device shows of them, what a probe       *)
(* writes back and what moves to a new address.  One column stands for     *)
(* each kind: "label" (also notes, names, web url, type), "group",         *)
(* "notify", "ssh" (override and port) and "os" (custom_os and its version *)
(* and family).  ansible_managed is left out: it is like "notify" but that *)
(* a sweep sets it on a row that is not probed yet.                        *)
(*                                                                         *)
(* A MAC is a text: nmap and the neighbour table write it in capitals,     *)
(* arp-scan, facts and edits do not, and most comparisons are exact.  Mac  *)
(* is the set of spellings and Lower what NormalizeMAC makes of them.      *)
(***************************************************************************)
EXTENDS Naturals, Sequences, FiniteSets

CONSTANTS IP, Mac, Value,
          Lower,        \* the lower-case spelling of a MAC
          Random,       \* MACs with the bit of a private one
          Field,        \* the columns of an instance
          V6,           \* IPv6 addresses, the link-local ones left out
          Net,          \* the network of an address
          Probed,       \* the addresses of an instance that are probed
          MaxSweep,     \* bound on the devices of one sweep
          MaxSet,       \* bound on the fields of one request
          MaxEdits      \* bound on the requests of the user

None == "none"          \* an empty column, no MAC, no link
Keep == "keep"          \* a field that is absent in a request

ASSUME FieldAssumption == Field \subseteq {"label", "group", "notify", "ssh", "os"}
ASSUME ValueAssumption == None \notin Value \cup Mac /\ Keep \notin Value \cup Mac
ASSUME AddressAssumption == V6 \subseteq IP /\ Net \in [IP -> Nat] /\ None \notin IP
ASSUME MacAssumption == /\ Lower \in [Mac -> Mac] /\ \A m \in Mac : Lower[Lower[m]] = Lower[m]
                        /\ Random \subseteq Mac
ASSUME BoundAssumption == MaxSweep \in Nat /\ MaxSet \in Nat /\ MaxEdits \in Nat

VARIABLES
  rows,     \* the devices table
  probe,    \* scanPortHost: the address and the copy of its device
  facts,    \* handleDeviceFacts between its calls to the store
  edits     \* requests of the user so far (bounded)

vars == <<rows, probe, facts, edits>>

Entry == Value \cup {None}
Row   == [mac : Mac \cup {None}, link : Mac \cup {None}, custom : [Field -> Entry]]
Table(rs) == \E S \in SUBSET IP : rs \in [S -> Row]

Blank == [f \in Field |-> None]

Idle == [stage |-> "idle"]

Without(rs, ip)  == [a \in DOMAIN rs \ {ip} |-> rs[a]]
With(rs, ip, r)  == [a \in DOMAIN rs \cup {ip} |-> IF a = ip THEN r ELSE rs[a]]
Holders(rs, mac) == {a \in DOMAIN rs : mac # None /\ rs[a].mac = mac}
Spelled(rs, mac) == {a \in DOMAIN rs : mac # None /\ rs[a].mac # None
                                      /\ Lower[rs[a].mac] = Lower[mac]}

-----------------------------------------------------------------------------
(* What a reader sees: the row joined with the one it is linked to. *)

Parents(rs, ip) == Holders(rs, rs[ip].link)

\* Empty text is inherited, a flag always; a group never
Inherited(f, own, parent) ==
  CASE f \in {"label", "os"}   -> IF parent = None THEN own ELSE parent
    [] f \in {"notify", "ssh"} -> parent
    [] f = "group"             -> own

View(rs, ip, p) ==
  [rs[ip] EXCEPT !.custom = [f \in Field |-> Inherited(f, @[f], rs[p].custom[f])]]

\* GetDevice: of several rows with the MAC of the link SQLite takes one, and the same
\* one whenever it is asked
Shown(rs, ip) ==
  IF Parents(rs, ip) = {} THEN rs[ip] ELSE View(rs, ip, CHOOSE a \in Parents(rs, ip) : TRUE)

\* GetDevices: the last of them
Listed(rs, ip) ==
  IF Parents(rs, ip) = {} THEN {rs[ip]} ELSE {View(rs, ip, a) : a \in Parents(rs, ip)}

-----------------------------------------------------------------------------
(* Sweeps: MergeDevices and addNewDeviceLocked. *)

\* An address of no configured network has one to itself
inSameSubnet(a, b) == Net[a] = Net[b]

\* Rows with the MAC at another address of the same family
findByMAC(rs, mac, ip) == {a \in Holders(rs, mac) : a # ip /\ (a \in V6 <=> ip \in V6)}

\* Mutant: a column that was added later is not copied.
CarriedLess(old) ==
  [f \in Field |-> IF f \in {"label", "notify"} THEN old.custom[f] ELSE None]

\* What is written to the row of a new address: the link, the SSH and the OS override
\* of the old one are not among it
Carried(old) ==
  [f \in Field |-> IF f \in {"label", "group", "notify"} THEN old.custom[f] ELSE None]

\* The row at the old address goes, unless the device still answers there: in the same
\* subnet as far as this sweep has heard of it, elsewhere if it was seen lately
addNewDevice(rs, ip, mac, heard, recent) ==
  LET olds == findByMAC(rs, mac, ip)
      old  == CHOOSE a \in olds : TRUE
      there == IF inSameSubnet(ip, old) THEN old \in heard ELSE old \in recent
  IN IF olds = {} THEN With(rs, ip, [mac |-> mac, link |-> None, custom |-> Blank])
     ELSE With(IF there THEN rs ELSE Without(rs, old), ip,
               [mac |-> mac, link |-> None, custom |-> Carried(rs[old])])

\* A sweep writes the MAC it has seen over the one of the row
mergeDevice(rs, d, heard, recent) ==
  IF d.ip \notin DOMAIN rs THEN addNewDevice(rs, d.ip, d.mac, heard, recent)
  ELSE IF d.mac = None THEN rs ELSE [rs EXCEPT ![d.ip].mac = d.mac]

\* One transaction.  The rows it has merged so far are among those seen lately.
mergeDevices(rs, found, recent) ==
  LET ips(n) == {found[k].ip : k \in 1..n}
      merged[n \in 0..Len(found)] ==
        IF n = 0 THEN rs
        ELSE mergeDevice(merged[n-1], found[n], ips(Len(found)), recent \cup ips(n-1))
  IN merged[Len(found)]

\* nmap sweeps IPv4 addresses, each once
Sweeps == {found \in UNION {[1..n -> [ip : IP \ V6, mac : Mac \cup {None}]] : n \in 1..MaxSweep} :
             \A i, j \in DOMAIN found : found[i].ip = found[j].ip => i = j}

\* The rows seen in the last three scan intervals, of those where it can matter
Lately == SUBSET {a \in DOMAIN rows : \E b \in IP : ~inSameSubnet(a, b) /\ (a \in V6 <=> b \in V6)}

MergeDevices ==
  /\ rows' \in {mergeDevices(rows, found, recent) : found \in Sweeps, recent \in Lately}
  /\ UNCHANGED <<probe, facts, edits>>

\* A source that has heard of no other address and fills in a MAC only where there is none
filledIn(rs, ip, mac, recent) ==
  IF ip \notin DOMAIN rs THEN addNewDevice(rs, ip, mac, {}, recent)
  ELSE IF rs[ip].mac # None THEN rs ELSE [rs EXCEPT ![ip].mac = mac]

\* mDNS, the ARP table, and the IPv6 neighbours of the scan command; leases and
\* reservations of a router (MergeRouterDHCP) do the same to these columns
MergeSupplemental ==
  /\ rows' \in {filledIn(rows, ip, mac, recent) :
                  ip \in IP, mac \in Mac \cup {None}, recent \in Lately}
  /\ UNCHANGED <<probe, facts, edits>>

\* The neighbours of a scan job add a device only if no row has its MAC; a row of
\* another device at the address fails the insert, and the transaction with it
MergeIPv6Neighbors ==
  /\ \E ip \in V6 \ DOMAIN rows, mac \in Mac \ Random :
       /\ Holders(rows, mac) = {}
       /\ rows' = addNewDevice(rows, ip, mac, {}, {})
  /\ UNCHANGED <<probe, facts, edits>>

\* The row a client of the controller is: with its MAC, at its address if there is one
\* such, or else the one at its address
ClientRows(rs, ip, mac) ==
  LET same == Spelled(rs, mac)
  IN IF same # {} THEN IF ip \in same THEN {ip} ELSE {CHOOSE a \in same : TRUE}
     ELSE {ip} \cap DOMAIN rs

\* Mutant: nothing looks whether a row is at the new address.
mergeClientAnyway(rs, ip, mac, recent) ==
  LET at == ClientRows(rs, ip, mac)
  IN IF at = {} THEN IF ip = None THEN rs ELSE addNewDevice(rs, ip, mac, {}, recent)
     ELSE LET old == CHOOSE a \in at : TRUE
          IN IF ip = None THEN rs ELSE With(Without(rs, old), ip, rs[old])

\* The row moves to the address of the client, whole, if no row is there
mergeClient(rs, ip, mac, recent) ==
  LET at == ClientRows(rs, ip, mac)
  IN IF at = {} THEN IF ip = None THEN rs ELSE addNewDevice(rs, ip, mac, {}, recent)
     ELSE LET old == CHOOSE a \in at : TRUE
              row == [rs[old] EXCEPT !.mac = IF @ = None THEN mac ELSE @]
          IN IF ip = None \/ ip \in DOMAIN rs THEN [rs EXCEPT ![old] = row]
             ELSE With(Without(rs, old), ip, row)

MergeUniFiClients ==
  /\ rows' \in {mergeClient(rows, ip, mac, recent) :
                  ip \in (IP \ V6) \cup {None}, mac \in Mac \cup {None}, recent \in Lately}
  /\ UNCHANGED <<probe, facts, edits>>

-----------------------------------------------------------------------------
(* Requests of the user. *)

Lowered == {Lower[m] : m \in Mac}

\* Some fields, a link, a MAC, each of them or none
Edit == [custom : UNION {[S -> Entry] : S \in {T \in SUBSET Field : Cardinality(T) <= MaxSet}},
         link : Mac \cup {None, Keep}, mac : Lowered \cup {None, Keep}]

Over(custom, given) == [f \in Field |-> IF f \in DOMAIN given THEN given[f] ELSE custom[f]]

ParentMac(rs, ip, e) == IF e.link = Keep THEN rs[ip].link ELSE e.link

\* Mutant: the device keeps its own columns beside those of the parent.
ForwardEditTwice(rs, ip, p, e) ==
  [rs EXCEPT ![p].custom = Over(@, e.custom), ![ip].link = ParentMac(rs, ip, e)]

\* The parent takes the fields and the device is blank, so that it inherits them
ForwardEdit(rs, ip, p, e) ==
  LET up == [rs EXCEPT ![p].custom = Over(@, e.custom)]
  IN [up EXCEPT ![ip].custom = Blank, ![ip].link = ParentMac(rs, ip, e)]

DirectEdit(rs, ip, e) ==
  [rs EXCEPT ![ip] = [mac |-> IF e.mac = Keep THEN @.mac ELSE e.mac,
                      link |-> ParentMac(rs, ip, e), custom |-> Over(@.custom, e.custom)]]

UpdateFields(rs, ip, e) ==
  LET parents == Holders(rs, ParentMac(rs, ip, e))
  IN IF parents = {} THEN DirectEdit(rs, ip, e)
     ELSE ForwardEdit(rs, ip, CHOOSE a \in parents : TRUE, e)

\* The page offers the devices there are as parents
Requests == {e \in Edit : e.link \in {rows[a].mac : a \in DOMAIN rows} \cup {None, Keep}}

UpdateDeviceFields(ip) ==
  /\ edits < MaxEdits
  /\ ip \in DOMAIN rows
  /\ rows' \in {UpdateFields(rows, ip, e) : e \in Requests}
  /\ edits' = edits + 1
  /\ UNCHANGED <<probe, facts>>

DeleteDevice(ip) ==
  /\ edits < MaxEdits
  /\ ip \in DOMAIN rows
  /\ rows' = Without(rows, ip)
  /\ edits' = edits + 1
  /\ UNCHANGED <<probe, facts>>

\* All devices, or those of a network
ClearDevices(gone) ==
  /\ edits < MaxEdits
  /\ rows' = [a \in DOMAIN rows \ gone |-> rows[a]]
  /\ edits' = edits + 1
  /\ UNCHANGED <<probe, facts>>

\* Facts name a device by its address or its MAC and may bring a new MAC
FactsBegin ==
  /\ edits < MaxEdits /\ facts.stage = "idle"
  /\ \E ip \in DOMAIN rows, by \in {"ip", "mac"}, new \in Lowered \cup {None}, os \in Value :
       /\ by = "mac" => rows[ip].mac # None
       /\ facts' = [stage |-> IF new = None THEN "os" ELSE "mac", ip |-> ip, new |-> new, os |-> os,
                    target |-> IF by = "ip" THEN None ELSE rows[ip].mac]
  /\ edits' = edits + 1
  /\ UNCHANGED <<rows, probe>>

\* Mutant: the MAC of a device that is gone is inserted.
UpsertDeviceMAC ==
  /\ facts.stage = "mac"
  /\ rows' = IF facts.ip \notin DOMAIN rows THEN With(rows, facts.ip, [mac |-> facts.new])
             ELSE [rows EXCEPT ![facts.ip].mac = facts.new]
  /\ facts' = [facts EXCEPT !.stage = "os", !.new = None]
  /\ UNCHANGED <<probe, edits>>

UpdateDeviceMAC ==
  /\ facts.stage = "mac"
  /\ rows' = IF facts.ip \notin DOMAIN rows THEN rows ELSE [rows EXCEPT ![facts.ip].mac = facts.new]
  /\ facts' = [facts EXCEPT !.stage = "os", !.new = None]
  /\ UNCHANGED <<probe, edits>>

\* Rows the facts are for; the request fails when there are none
FactRows(rs) == IF facts.target = None THEN {facts.ip} \cap DOMAIN rs ELSE Spelled(rs, facts.target)

UpdateDeviceCustomOS ==
  /\ facts.stage = "os"
  /\ rows' = [a \in DOMAIN rows |->
                IF a \in FactRows(rows)
                THEN [rows[a] EXCEPT !.custom = Over(@, [f \in Field \cap {"os"} |-> facts.os])]
                ELSE rows[a]]
  /\ facts' = Idle
  /\ UNCHANGED <<probe, edits>>

-----------------------------------------------------------------------------
(* A probe of the ports of one device, and the start of the program. *)

ProbeBegin ==
  /\ probe.stage = "idle"
  /\ \E ip \in DOMAIN rows \cap Probed : \E copy \in Listed(rows, ip) :
       probe' = [stage |-> "listed", ip |-> ip, copy |-> copy]
  /\ UNCHANGED <<rows, facts, edits>>

\* nmap is done: the device is read again, or taken from the list if it is gone
ProbeRead ==
  /\ probe.stage = "listed"
  /\ probe' = [probe EXCEPT !.stage = "read",
                            !.copy = IF probe.ip \in DOMAIN rows THEN Shown(rows, probe.ip) ELSE @]
  /\ UNCHANGED <<rows, facts, edits>>

\* Mutant: the query behind the copy does not select custom_os.
StoredWithoutOS(rs, ip, copy) ==
  LET now == Shown(rs, ip).custom
  IN [copy EXCEPT !.custom = [f \in Field |->
        CASE f \in {"label", "group"} -> IF @[f] = None THEN now[f] ELSE @[f]
          [] f = "notify"             -> now[f]
          [] f = "ssh"                -> rs[ip].custom[f]
          [] f = "os"                 -> None]]

\* What UpdateDevice stores of a copy over the row that is there
Stored(rs, ip, copy) ==
  LET now == Shown(rs, ip).custom
  IN [copy EXCEPT !.custom = [f \in Field |->
        CASE f \in {"label", "group"} -> IF @[f] = None THEN now[f] ELSE @[f]
          [] f = "notify"             -> now[f]
          [] f = "ssh"                -> rs[ip].custom[f]
          [] f = "os"                 -> @[f]]]

\* After the services of the device have been looked at, one by one
\* (UpdateOpenPorts, which follows, writes to a table of its own.)
UpdateDevice ==
  /\ probe.stage = "read"
  /\ LET ip == probe.ip
     IN rows' = With(rows, ip, IF ip \in DOMAIN rows THEN Stored(rows, ip, probe.copy)
                               ELSE probe.copy)
  /\ probe' = Idle
  /\ UNCHANGED <<facts, edits>>

\* IPv6 rows with a private MAC go at every start, except those of the user
Ephemeral(rs) == {a \in DOMAIN rs \cap V6 : rs[a].mac \in Random /\
                    \A f \in Field \cap {"label", "group"} : rs[a].custom[f] = None}

\* The program stops between any two steps: an open transaction is rolled back
Restart ==
  /\ rows' = [a \in DOMAIN rows \ Ephemeral(rows) |-> rows[a]]
  /\ probe' = Idle /\ facts' = Idle
  /\ UNCHANGED edits

Init ==
  /\ rows = [a \in {} |-> Blank]
  /\ probe = Idle /\ facts = Idle
  /\ edits = 0

Next ==
  \/ MergeDevices \/ MergeSupplemental \/ MergeIPv6Neighbors \/ MergeUniFiClients
  \/ \E ip \in IP : DeleteDevice(ip) \/ ClearDevices({a \in IP : Net[a] = Net[ip]}) \/ UpdateDeviceFields(ip)
  \/ ClearDevices(IP) \/ FactsBegin \/ UpdateDeviceMAC \/ UpdateDeviceCustomOS
  \/ ProbeBegin \/ ProbeRead \/ UpdateDevice
  \/ Restart

Spec == Init /\ [][Next]_vars

-----------------------------------------------------------------------------
(* Properties. *)

TypeOK ==
  /\ Table(rows)
  /\ probe = Idle \/ probe \in [stage : {"listed", "read"}, ip : IP, copy : Row]
  /\ facts = Idle \/ facts \in [stage : {"mac"}, ip : IP, new : Lowered, os : Value,
                                target : Mac \cup {None}]
                  \/ facts \in [stage : {"os"}, ip : IP, new : {None}, os : Value,
                                target : Mac \cup {None}]
  /\ edits \in 0..MaxEdits

\* A user who saves fields of a device (the page sends no MAC with them) and opens it again finds them, whether they are
\* kept in its row or in that of the device it is linked to; but for the group of a
\* linked device, and a device that is linked to its own MAC (UpdateDeviceFields,
\* GetDevice).
SavedIsShown ==
  \A ip \in DOMAIN rows, e \in {r \in Edit : r.mac = Keep} :
    LET saved == UpdateFields(rows, ip, e)
    IN ip \notin Parents(saved, ip)
       => \A f \in DOMAIN e.custom :
            (f = "group" => Parents(saved, ip) = {}) => Shown(saved, ip).custom[f] = e.custom[f]

\* A probe whose copy is still what its device shows changes nothing that any device
\* shows, though it stores inherited columns as the device's own; but for the devices
\* linked to one that is linked itself (scanPortHost, UpdateDevice).
ProbeIsInvisible ==
  [][UpdateDevice /\ probe.ip \in DOMAIN rows /\ probe.copy = Shown(rows, probe.ip)
     => \A a \in DOMAIN rows :
          Parents(rows, probe.ip) = {} \/ probe.ip \notin Parents(rows, a) \/ a = probe.ip
            => Shown(rows', a).custom = Shown(rows, a).custom]_vars

\* A step of a sweep or of another source
Swept == UNCHANGED <<probe, facts, edits>>

CarriedFields == Field \cap {"label", "group", "notify"}

\* A device that a sweep or another source finds at a new address keeps what the user
\* has said of it, in whatever order the sweep lists its finds; unless in the same sweep
\* another device was found at its old address or its MAC at the address of another,
\* or a client was moved there from the device's address of the other family
\* (addNewDeviceLocked, MergeUniFiClients).
MovesKeepUserData ==
  [][Swept => \A ip \in DOMAIN rows' \ DOMAIN rows, old \in DOMAIN rows :
       LET mac == rows'[ip].mac
       IN /\ findByMAC(rows, mac, ip) = {old}
          /\ old \in DOMAIN rows' => rows'[old].mac = mac
          /\ Holders(rows', mac) \cap DOMAIN rows \subseteq Holders(rows, mac)
          /\ Holders(rows, mac) \ DOMAIN rows' \subseteq {old}
          => \A f \in CarriedFields : rows'[ip].custom[f] = rows[old].custom[f]]_vars

\* No sweep, and no sequence of devices in it, loses anything the user has written:
\* every value is still in some row.  Two things are not kept: the SSH and the OS override
\* of a row whose MAC a source has found at another address, and what is not a label or a
\* group of an IPv6 row with a private MAC when the program starts (MergeDevices,
\* MergeSupplemental, addNewDeviceLocked).
Written(rs, f) == {rs[a].custom[f] : a \in DOMAIN rs} \ {None}
Relocated(a) == rows[a].mac # None /\ \E ip \in DOMAIN rows' \ {a} : rows'[ip].mac = rows[a].mac
SweepLosesNothing ==
  [][Swept => \A a \in DOMAIN rows, f \in Field :
       \/ rows[a].custom[f] \in Written(rows', f) \cup {None}
       \/ f \notin CarriedFields /\ Relocated(a)
       \/ f \notin {"label", "group"} /\ a \in Ephemeral(rows) \ DOMAIN rows']_vars

\* "All user customizations [...] are mapped to physical hardware MAC addresses": no
\* sweep shows what the user has said of one device on another.
CustomizationsFollowHardware ==
  [][Swept => \A ip \in DOMAIN rows' :
       rows'[ip].mac # None /\ rows'[ip].custom["label"] # None
       => \E old \in DOMAIN rows : /\ rows[old].mac = None \/ Lower[rows[old].mac] = Lower[rows'[ip].mac]
                                  /\ rows[old].custom["label"] = rows'[ip].custom["label"]]_vars

\* "Fetch current device from store to preserve customized fields": what a device shows
\* is the same after a probe.
ProbePreservesCustomized ==
  [][UpdateDevice /\ probe.ip \in DOMAIN rows =>
       Shown(rows', probe.ip).custom = Shown(rows, probe.ip).custom]_vars
=============================================================================

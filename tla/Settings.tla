------------------------------ MODULE Settings ------------------------------
(***************************************************************************)
(* How the configuration comes about: the defaults, the lines of the file, *)
(* the environment, the flags of serve, and Normalize, which repairs       *)
(* values and registers routers as remote scanners, after each of them.    *)
(* Source: internal/config/config.go, internal/cli/root.go and serve.go.   *)
(*                                                                         *)
(* The many settings that are stored and read and nothing else are one     *)
(* setting, "plain".  A router or a scanner is a record of the settings    *)
(* Normalize looks at.  A list of networks is a set.                       *)
(***************************************************************************)
EXTENDS Integers, Sequences, SequencesExt

CONSTANTS Value,        \* values of plain settings; what does not parse is no value
          Interval,     \* whole numbers given for the two intervals
          Net, Host,
          Router,       \* ids of listed OpenWrt routers, "openwrt" and "opnsense" if need be
          Scanner,      \* ids the user may give to remote scanners, a router's too
          Switch,
          MaxLines,     \* bound on the lines of the file
          MaxEnv        \* bound on the variables set

Unset == "unset"
defaultScanInterval == 300
defaultMinScanInterval == 30

ASSUME IntervalAssumption == Interval \subseteq Int
ASSUME BoundAssumption == MaxLines \in Nat /\ MaxEnv \in Nat

VARIABLES cfg, stage, lines,
          env,          \* the variables that are set
          plainFile     \* the file's settings before Normalize (not in the code)

vars == <<cfg, stage, lines, env, plainFile>>

-----------------------------------------------------------------------------
(* Settings, in the file and in the environment. *)

NewRouter  == [enable |-> FALSE, remote |-> FALSE, host |-> Unset, sudo |-> FALSE, networks |-> {}]
NewScanner == [known |-> FALSE, host |-> Unset, sudo |-> FALSE, networks |-> {}]
NewSwitch  == [known |-> FALSE, timeout |-> 5]

ScannerIds == Scanner \cup Router \cup {"opnsense", "openwrt"}

Default ==
  [main     |-> [plain |-> Unset, scan_interval |-> defaultScanInterval,
                 min_scan_interval |-> defaultMinScanInterval, networks |-> {},
                 enable_remote |-> FALSE, sudo |-> FALSE],
   netNames |-> {},
   opnsense |-> NewRouter,
   openwrt  |-> NewRouter,
   wrtNames |-> <<>>, wrts |-> [r \in Router |-> NewRouter],
   names    |-> <<>>, scanners |-> [s \in ScannerIds |-> NewScanner],
   swNames  |-> <<>>, switches |-> [s \in Switch |-> NewSwitch]]

NetLists == {{}} \cup {{n} : n \in Net}
RouterSetting == ({"enable", "remote", "sudo"} \X BOOLEAN) \cup ({"host"} \X Host) \cup ({"networks"} \X NetLists)
MainSetting == ({"plain"} \X Value) \cup ({"scan_interval", "min_scan_interval"} \X Interval)
               \cup ({"networks"} \X NetLists) \cup ({"enable_remote", "sudo"} \X BOOLEAN)

\* A setting is its section, the id in the section's name, the key and the value
Line ==
  {<<"main", Unset, s[1], s[2]>> : s \in MainSetting}
  \cup {<<"network_names", Unset, "cidr", n>> : n \in Net}
  \cup {<<sec, Unset, s[1], s[2]>> : sec \in {"opnsense", "openwrt"}, s \in RouterSetting}
  \cup {<<"openwrts", Unset, "names", q>> : q \in {<<r>> : r \in Router}}
  \cup {<<"openwrt.", r, s[1], s[2]>> : r \in Router, s \in RouterSetting}
  \cup {<<"remote_scanners", Unset, "names", q>> : q \in {<<s>> : s \in Scanner}}
  \cup {<<"remote_scanner.", s, k[1], k[2]>> : s \in Scanner, k \in RouterSetting \ ({"enable", "remote"} \X BOOLEAN)}
  \cup {<<"switches", Unset, "names", q>> : q \in {<<s>> : s \in Switch}}
  \cup {<<"switch.", s, "timeout", t>> : s \in Switch, t \in Interval}

\* What the environment can set: no name of a network, no minimum interval and no
\* switching on of a router of a list
EnvLine == {l \in Line : /\ l[1] # "network_names" /\ l[3] # "min_scan_interval"
                        /\ ~(l[1] = "openwrt." /\ l[3] = "enable")}

-----------------------------------------------------------------------------
(* setValue and the functions it calls. *)

\* Mutant: a name is added without a look at the list.
WithNameAgain(q, id) == Append(q, id)

WithName(q, id) == IF Contains(q, id) THEN q ELSE Append(q, id)

setRemoteScannerValue(c, id, key, v) ==
  [c EXCEPT !.scanners[id][key] = v, !.scanners[id].known = TRUE, !.names = WithName(@, id)]

\* The list replaces the names; what is configured already stays configured
setRemoteScannerNames(c, q) ==
  [c EXCEPT !.names = q,
            !.scanners = [s \in ScannerIds |-> IF Contains(q, s) THEN [@[s] EXCEPT !.known = TRUE] ELSE @[s]]]

setOpenWrtNames(c, q) == [c EXCEPT !.wrtNames = q]
setOpenWrtValue(c, id, key, v) ==
  [c EXCEPT !.wrts[id][key] = v, !.wrtNames = WithName(@, id)]

setSwitchNames(c, q) == [c EXCEPT !.swNames = q]
setSwitchValue(c, id, v) == [c EXCEPT !.switches[id] = [known |-> TRUE, timeout |-> v]]

setValue(c, l) ==
  LET id == l[2]  key == l[3]  v == l[4]
  IN CASE l[1] = "main"            -> [c EXCEPT !.main[key] = v]
       [] l[1] = "network_names"   -> [c EXCEPT !.netNames = @ \cup {v}]
       [] l[1] = "opnsense"        -> [c EXCEPT !.opnsense[key] = v]
       [] l[1] = "openwrt"         -> [c EXCEPT !.openwrt[key] = v]
       [] l[1] = "openwrts"        -> setOpenWrtNames(c, v)
       [] l[1] = "openwrt."        -> setOpenWrtValue(c, id, key, v)
       [] l[1] = "remote_scanners" -> setRemoteScannerNames(c, v)
       [] l[1] = "remote_scanner." -> setRemoteScannerValue(c, id, key, v)
       [] l[1] = "switches"        -> setSwitchNames(c, v)
       [] l[1] = "switch."         -> setSwitchValue(c, id, v)

-----------------------------------------------------------------------------
(* Normalize. *)

\* Mutant: only zero is out of range.
RepairedZero(v, default) == IF v = 0 THEN default ELSE v

Repaired(v, default) == IF v <= 0 THEN default ELSE v

RepairTimings(c) ==
  [c EXCEPT !.main.min_scan_interval = Repaired(@, defaultMinScanInterval),
            !.main.scan_interval = Repaired(@, defaultScanInterval)]

\* Named networks are the networks to scan, unless those are listed
AdoptNames(c) == IF c.main.networks = {} THEN [c EXCEPT !.main.networks = c.netNames] ELSE c

RepairSwitches(c) ==
  [c EXCEPT !.switches = [s \in Switch |->
     IF Contains(c.swNames, s) THEN [known |-> TRUE, timeout |-> Repaired(@[s].timeout, 5)] ELSE @[s]]]

\* Mutant: a scanner that is registered already is left as it is.
RegisterNew(c, id, router) ==
  IF ~router.remote \/ c.scanners[id].known THEN c
  ELSE [c EXCEPT !.scanners[id] = [known |-> TRUE, host |-> router.host,
                                   sudo |-> router.sudo, networks |-> router.networks],
                 !.names = WithName(@, id), !.main.enable_remote = TRUE]

\* Every setting of the router is written over the scanner's, the list of networks
\* only if there is one
Register(c, id, router) ==
  IF ~router.remote THEN c
  ELSE LET d == setRemoteScannerValue(setRemoteScannerValue(c, id, "host", router.host),
                                      id, "sudo", router.sudo)
           e == IF router.networks = {} THEN d
                ELSE setRemoteScannerValue(d, id, "networks", router.networks)
       IN [e EXCEPT !.main.enable_remote = TRUE]

\* A listed "openwrt" is passed over, as a router that does not scan, if the router of
\* the section of that name counts
Listed(c, id) ==
  IF id = "openwrt" /\ (c.openwrt.enable \/ c.openwrt.remote) THEN NewRouter ELSE c.wrts[id]

\* OPNsense, and AllOpenWrts with those that Register leaves out in any case
Routers(c) ==
  <<<<"opnsense", c.opnsense>>, <<"openwrt", c.openwrt>>>>
    \o [n \in 1..Len(c.wrtNames) |-> <<c.wrtNames[n], Listed(c, c.wrtNames[n])>>]

RegisterRouters(c) ==
  LET q == Routers(c)
      registered[n \in 0..Len(q)] ==
        IF n = 0 THEN c ELSE Register(registered[n-1], q[n][1], q[n][2])
  IN registered[Len(q)]

SpreadSudo(c) ==
  IF ~c.main.sudo THEN c
  ELSE [c EXCEPT !.scanners = [s \in ScannerIds |->
          IF Contains(c.names, s) THEN [@[s] EXCEPT !.sudo = TRUE] ELSE @[s]]]

Normalize(c) == SpreadSudo(RegisterRouters(RepairSwitches(AdoptNames(RepairTimings(c)))))

-----------------------------------------------------------------------------
(* ApplyEnv: section by section; the variables of an id are looked up for the *)
(* ids that are named by then.                                                *)

Given(e, sec)       == {l \in Range(e) : l[1] = sec}
GivenFor(e, sec, q) == {l \in Given(e, sec) : Contains(q, l[2])}
RemoteMain(e)       == {l \in Given(e, "main") : l[3] \in {"enable_remote", "sudo"}}

\* The variables of S are set, one after the other
Overlay(c, e, S) ==
  LET overlaid[n \in 0..Len(e)] ==
        IF n = 0 THEN c
        ELSE IF e[n] \in S THEN setValue(overlaid[n-1], e[n]) ELSE overlaid[n-1]
  IN overlaid[Len(e)]

EnvMain(c, e)     == Overlay(c, e, Given(e, "main") \ RemoteMain(e))
EnvOpenWrts(c, e) ==
  LET d == Overlay(c, e, Given(e, "openwrt") \cup Given(e, "openwrts"))
  IN Overlay(d, e, GivenFor(e, "openwrt.", d.wrtNames))
EnvOPNsense(c, e) == Overlay(c, e, Given(e, "opnsense"))
EnvSwitches(c, e) ==
  LET d == Overlay(c, e, Given(e, "switches")) IN Overlay(d, e, GivenFor(e, "switch.", d.swNames))
EnvRemoteScanners(c, e) ==
  LET d == Overlay(Overlay(c, e, RemoteMain(e)), e, Given(e, "remote_scanners"))
  IN Overlay(d, e, GivenFor(e, "remote_scanner.", d.names))

Environ(c, e) ==
  EnvRemoteScanners(EnvSwitches(EnvOPNsense(EnvOpenWrts(EnvMain(c, e), e), e), e), e)

-----------------------------------------------------------------------------
(* The start of the program. *)

Init == cfg = Default /\ stage = "file" /\ lines = 0 /\ env = <<>> /\ plainFile = Default

ReadLine ==
  /\ stage = "file" /\ lines < MaxLines
  /\ \E l \in Line : cfg' = setValue(cfg, l)
  /\ lines' = lines + 1
  /\ UNCHANGED <<stage, env, plainFile>>

Load ==
  /\ stage = "file"
  /\ plainFile' = cfg
  /\ cfg' = Normalize(cfg)
  /\ stage' = "loaded"
  /\ UNCHANGED <<lines, env>>

\* One more variable is found in the environment
SetVariable ==
  /\ stage = "loaded" /\ Len(env) < MaxEnv
  /\ \E l \in EnvLine :
       /\ \A k \in Range(env) : SubSeq(k, 1, 3) # SubSeq(l, 1, 3)
       /\ env' = Append(env, l)
  /\ UNCHANGED <<cfg, stage, lines, plainFile>>

ApplyEnv ==
  /\ stage = "loaded"
  /\ cfg' = Normalize(Environ(cfg, env))
  /\ stage' = "ready"
  /\ UNCHANGED <<lines, env, plainFile>>

runServe ==
  /\ stage = "ready"
  /\ cfg' = Normalize(cfg)
  /\ stage' = "serving"
  /\ UNCHANGED <<lines, env, plainFile>>

Next == ReadLine \/ Load \/ SetVariable \/ ApplyEnv \/ runServe

Spec == Init /\ [][Next]_vars

-----------------------------------------------------------------------------
(* Properties. *)

\* Normalize runs three times on the way to the server; a second run changes nothing
\* that the first has made: nothing is registered or listed twice, nothing repaired
\* or spread differently (config.go, Normalize).
NormalizeOnceIsEnough == stage # "file" => Normalize(cfg) = cfg

\* Ids of the routers registered as scanners, and of those that come with networks
Remote(c)       == {r \in Range(Routers(c)) : r[2].remote}
Registered(c)   == {r[1] : r \in Remote(c)}
WithNetworks(c) == {r[1] : r \in {s \in Remote(c) : s[2].networks # {}}}

\* The environment turns nothing off that the file has turned on, leaves no scanner of a
\* router without its router's networks and does not speak of it as one of the user's
OnlyAdds ==
  /\ Registered(plainFile) \subseteq Registered(cfg)
  /\ WithNetworks(plainFile) \subseteq WithNetworks(cfg)
  /\ plainFile.main.sudo => cfg.main.sudo
  /\ \A l \in Range(env) : l[1] = "remote_scanner." => l[2] \notin Registered(plainFile)

\* A configuration without the scanners and switches that are not named any more, and
\* without the order in which the scanners are tried
InForce(c) == [c EXCEPT !.names = Range(@),
                        !.scanners = [s \in Range(c.names) |-> @[s]],
                        !.switches = [s \in Range(c.swNames) |-> @[s]]]

\* The Normalize that Load runs before the environment is known leaves no trace in
\* the configuration in force, as long as the environment turns no router and no sudo
\* off, takes no router's networks and sets no router's scanner: file and environment
\* count as one configuration, but for the order of the scanners and for what is left of
\* scanners and switches nothing names any more (config.go, Load and ApplyEnv).
EarlyNormalizeLeavesNoTrace ==
  stage \in {"ready", "serving"} /\ OnlyAdds
    => InForce(cfg) = InForce(Normalize(Environ(plainFile, env)))

\* The configuration in force never lacks what it names: every named scanner and
\* switch is configured, and no interval turns scanning or its rate limit off.
InForceIsUsable ==
  stage # "file" =>
    /\ \A id \in Range(cfg.names) : cfg.scanners[id].known
    /\ \A id \in Range(cfg.swNames) : cfg.switches[id].known /\ cfg.switches[id].timeout > 0
    /\ cfg.main.scan_interval > 0 /\ cfg.main.min_scan_interval > 0
    /\ cfg.netNames # {} => cfg.main.networks # {}

\* "Environment variables take precedence over the config file" (config.go:935): the
\* remote scanners are those the user names and the routers that scan with the
\* environment laid over the file; a router that it turns off is none.
EnvironmentTakesPrecedence ==
  stage = "serving" =>
    \A id \in Range(cfg.names) :
      \/ id \in Registered(cfg) \cup Range(plainFile.names)
      \/ \E l \in Range(env) : l[1] \in {"remote_scanners", "remote_scanner."}

=============================================================================

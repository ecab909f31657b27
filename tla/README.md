# LAN Orangutan in TLA+

LAN Orangutan is a Go server that finds the devices of a local network, keeps
them in SQLite and shows when they come and go. This directory models the parts
of it where goroutines, requests, timers and several sources of the same data
meet: how a scan is started, run, cancelled and shut down, how the deep scan shares
its work, how a device becomes online or offline, what happens to its record, who may
log in, where the settings come from, how remote gateways are used and how traffic
becomes a rate. Paths below are relative to the repository; `scanjob.go`
and `api.go` are in `internal/api`, `storage.go` is in `internal/storage`, `serve.go`
in `internal/cli`, `auth.go` in `internal/auth`, `config.go` in `internal/config`,
`remotescan.go` in `internal/remotescan`, `traffic.go` in `internal/api`.

## Inventory

| Component | State | Operations | Interacts with | Where it is hard | What makes it correct |
|---|---|---|---|---|---|
| Scan jobs and scan API (`scanjob.go`, `api.go`) | `Handler.job`, `scanJob` fields, its context | start, adopt, cancel, deep scan of a device, continuous switch, the stages of `run`, `finish`, the synchronous `GET /api/scan` | store, scanner, background loop, shutdown | cancellation, deadline and shutdown between any two stages; a goroutine per network; locks released before the job is over; finds of others credited to the job | one scan at a time; one true outcome per job; no flags left behind; every job ends |
| Background scanner (`scanjob.go`) | its loop, the last job, `last_deep_scan_date` | start the due job, wait for it, pause, sweep again after a nightly scan | scan jobs, settings | runs beside users' requests and a goroutine of the continuous switch | one nightly scan a night; it stops at shutdown |
| Deep-scan queue (`scanjob.go`) | progress, tally, one channel per network | gateways in parallel, networks in turn, one or two workers | scanner, store | unbuffered channel, cancellation checks at four places | each host once, gateways not overloaded, true status, the queue returns |
| Scan flags (`storage.go`) | `scanRunning`, scanning, deep-scanning and completed networks, the current one | set, clear | jobs, dashboard | every job sets and clears what all jobs share | clean when nothing runs; consistent meanwhile |
| Shutdown (`serve.go`) | signal, server, wait group, bound | cancel scans, drain HTTP, wait | all goroutines | jobs started too late; handlers that outlive the drain; scans that do not unwind | no job writes after the wait; the exit is bounded |
| Presence (`storage.go`, `scanjob.go`) | `is_online`, `missed_sweeps`, `last_seen`, `device_presence_history` | merges of six sources, deep probes, missing devices, deletion, pruning | scan jobs, `GET /api/scan` | each source has its own update code; failed sweeps; stale leases | a device leaves for a reason, is noticed when gone, one event per change |
| Device records (`storage.go`, `api.go`) | rows of `devices` | sweeps, relocation by MAC, IPv6 and UniFi merges, user edits, facts, linked MAC, write-back of probes | presence, traffic | read-modify-write across a probe of minutes; a stale source relocating a device | user fields survive; one row per device |
| Scan history (`storage.go`) | `scan_history` | record, prune | jobs, dashboard | records written after a cancellation | true status |
| Traffic (`traffic.go`, `storage.go`) | samples, hourly sums, the previous counters | collect, roll up, prune | UniFi, routers, NetFlow | counters that start over, failed queries and commits; devices with two meters, or that change meters | bytes of a device with one meter neither lost nor counted twice |
| Notifications (`api.go`, `internal/notification`) | accumulated devices, failure counters | batch, failure and recovery alerts | jobs | one alert per outage, batches credited to the running job | no device announced twice or never |
| Authentication (`internal/auth`) | password in memory and on disk, sessions, failed attempts, API tokens | set-up, login, logout, expiry, lock-out, restart | web, configuration | a slow hash comparison between check and count; two first-run pages at once; a crash while the password is written | lock-out holds, only the entitled are served, a confirmed password lasts |
| Remote scanner (`internal/remotescan`) | connection per gateway, key-file stamps | dial, reuse, retry, drop, close | scanner | one connection shared by scans; keys that change on disk; refused sessions | pool exact, rotated keys noticed, scans do not disturb each other |
| Configuration (`config.go`) | settings, networks, routers, registered scanners | defaults, file, environment, `Normalize` | all | the same repair runs three times on partial input | one meaning for a file and an environment |
| Log buffer (`internal/logging`) | ring | write, read | all | wrap-around | the newest lines in order |
| Legacy migration (`storage.go`) | JSON file, database | import, rename | start-up | a crash between import and rename | imported once |
| Scanner, classification, network detection, web, command line, packaging | caches | - | - | external programs and formats | - |

## Modules

| Module | What it is |
|---|---|
| `ScanJobs` | jobs, handlers, background scanner, flags, shutdown: one action per handler or per stage of `run` |
| `ScanSlot` | what `ScanJobs` implements: one slot, one outcome |
| `ScanJobsProofs` | theorems of `ScanJobs` |
| `DeepQueue` | one `runDeepQueue`: gateway, producer and worker goroutines |
| `DeepQueueProofs` | theorems of `DeepQueue` |
| `HostPool` | what `DeepQueue` implements: each host once, limits per gateway |
| `Presence` | the devices table as far as presence goes, under every source of a job |
| `Attendance` | what `Presence` implements: the timeline of each device |
| `PresenceProofs` | theorems of `Presence` |
| `DeviceRecords` | rows of the devices table: who is at an address and what the user has said of it |
| `DeviceRecordsProofs` | theorems of `DeviceRecords` |
| `Sessions` | password, sessions, limiter, tokens and the password file |
| `SessionsProofs` | theorems of `Sessions` |
| `Settings` | `Default`, `Load`, `setValue`, `ApplyEnv`, `Normalize` as operators, and the order `serve` runs them in |
| `SettingsProofs` | theorems of `Settings` |
| `RemotePool` | `SSHRunner`: its pool, `RunScan`, key files, gateways that fail |
| `RemotePoolProofs` | theorems of `RemotePool` |
| `Traffic` | `TrafficCollector`: one cycle, reading by reading |
| `TrafficProofs` | theorems of `Traffic` |
| `MC...` | small instances for TLC |

`ScanJobs` abstracts the queue to three steps per network (queued, probing, end,
or stuck); `DeepQueue` refines those. `Presence` abstracts a job to the order in
which it writes to the store; its interleavings with other jobs are those of
`ScanJobs`, where the store is locked for each transaction.

### ScanJobs

The state is that of the code: `Handler.job`, each job's `status`, context,
results and the fields it was created with, the flags of the store, the setting
`last_deep_scan_date`, the loop of the background scanner, the shutdown sequence.
`pc[j]` says where the goroutine of the job is in `run`, `net[j][n]` where the
goroutine of each of its networks is. A step reaches from one point where another
goroutine can interleave to the next (a lock, a channel, a wait, a scan that takes
minutes). Deliberate simplifications:

- starting a job (`startScanJobWithDeadline`) is one step: all its callers but one hold `jobMu`;
- each network has a gateway of its own, so several are probed at once; `DeepQueue` has shared gateways;
- `StartBackgroundScanner` reads `job.nightlyDeep` in the step that starts the job. The code reads it without a lock while `runNewDeviceDeepScan` may have set it for the time of its queue; that race is in the list of hazards;
- one night and one day are modelled; errors of networks (`networkScanErrors`), result texts, durations and notifications are left out;
- new devices are credited to the job in the slot, as `scanNetwork` does, not to the job that swept.

`GET /api/scan` is two actions, `handleScan` (a request begins, with the context of its request,
which neither a cancellation nor the shutdown ends) and `scanAllNetworks` (a network is done, its new
devices credited to whatever job runs, and the next one begins). It keeps no flags; what it writes to
devices is in `Presence`. `visited[j]` is history: the networks that somebody other than job
`j` swept while `j` ran.

`server.Shutdown` gives up after ten seconds (serve.go:170). `ShutdownDrain` therefore ends
with all handlers returned, or with `late` set: handlers go on, and may start jobs, adopt,
cancel and sweep. A background start saves the date of the nightly scan before its job exists, so
that this one setting may be written after the wait. `run` stops in `"merging"` between the
supplemental sources and their merges, so that these are writes like those of sweeps, probes and
judging.

A job is started at most once (`Job` is the bound on the number of scans).
`QueueStick` is the queue that never returns after a cancellation; that it can
happen is shown in `DeepQueue`.

### DeepQueue

Each gateway goroutine, the producer loop inside it, and each worker have a place
of their own; the unbuffered channel is a rendezvous (`HandOver`). The order of the
hosts and of the networks of a gateway is left open, which covers
`prioritizeDeepScanDevices` and the nightly shuffles.

### Presence

An address stands for the device that has it. Time counts in cycle intervals (the
scan interval times the number of networks), so `expiryThreshold` is three. The age
of a record is capped by `Old`, at which `PruneOldHistory` may remove it. `up`
(which devices are there), `met` (what this job has merged) and `unseen` (rounds
since a device was merged) are not in the code: the first is the world, the others
are what the properties compare the table with. `history` keeps the newest event
of each address. `Sources` says what the configuration lets a job consult:

- sweeps and `GET /api/scan` see any part of the devices that are up; a sweep may
  fail, be skipped or not be saved;
- IPv6 neighbours refresh the record with their MAC address, whatever its address, or become a record;
- mDNS and UniFi see devices that are up, OPNsense's ARP table any address;
- router leases and reservations name any address;
- a deep probe goes to what the sweep found, to the recent devices, to those of
  the last day that are due, or to one chosen device; with `nmap -Pn` it succeeds
  whether the host is there or not.

No time passes in the supplemental stages (they take seconds, a cycle minutes).
Pruning of events may drop any of them, more than the code does. The table is empty
at first; the import of an old data file is left out. `PresenceGone` consults every source but
OPNsense's ARP table: an entry that stays there would merge the device in every job.

### DeviceRecords

A row has its MAC, its link and one column of each kind (`label` inherited when it
is empty, `notify` always, `group` never, and so on: the kinds differ in what a linked
device shows, what a probe writes back and what moves with the device). MACs are texts:
`Mac` has spellings and `Lower` their normal form, since the code compares some of them
exactly. A sweep gives up to `MaxSweep` devices in any order to `MergeDevices`, whose
loop is the recursive function `Table`. How long ago each device of a sweep was last seen
is the function `Lately`. mDNS, IPv6 neighbours, UniFi, DHCP, the ARP table, user requests, facts
(two calls to the store) and the three steps of a probe are actions of their own.
Columns nothing depends on (ports of switches, radio data, open ports) are left out, and so is
`ansible_managed`, which is like `notify` but that a sweep sets it on a row that was never probed.

`SweepLosesNothing` is about every column a user fills in, and names the two exceptions of the
code: the SSH and the OS override of a row whose MAC has been found at another address
(`Relocated`: relocation does not carry them, storage.go:1323), and what is neither a label nor a
group of an IPv6 row with a private MAC when the program starts.

### Sessions

Each handler takes the mutex of `Authenticator` several times, so a login is three
steps (look at the limit, compare, count or issue), a set-up four (ask, set, write, issue).
`SaveHash` truncates before it writes, so a crash in between leaves part of a hash: a file that
is `"torn"` before the end of the prefix is refused, one that is `"cut"` behind it is taken for a hash
(`LoadHash` looks at the prefix only), and no password matches until the file is deleted. A crash
restarts the server with what the file and the configuration say.

`HandleSetup` asks `NeedsSetup` when it begins and sets the password later (handler.go:212), so
any number of first-run pages may be handled at once, each replacing what the one before has
set. Nothing in the model prevents that. History tells what comes of it: `confirmed`
(the password a page confirmed last), `rivals` (passwords set by pages since the start),
`contested` (a page has replaced another's password) and `earned` (what a session was given for).
`ServesTheEntitled` says that such pages leave a session that another password of `rivals`
has earned, and nothing worse; `ConfirmedPasswordLasts` that a confirmed password is lost only if
they were `contested`. `SessionsRival.cfg` shows that it does get lost.

### Settings

`setValue`, `Environ` and `Normalize` are operators on a record of the settings that
others are derived from; all that is only stored is the setting `plain`. The
behaviour chooses a file line by line, loads it, normalizes, applies variables,
normalizes, and normalizes once more in `serve`. The notes of that last call are
always empty, since `Load` and `ApplyEnv` have repaired everything before. The environment
is the sequence of the variables that are set; `ApplyEnv` looks at it section by section,
and `Overlay` sets those of a section one after the other. A list of networks may be empty:
that is what `ParseNetworkList` makes of a value such as `,`. A user may give a scanner the
id of a router, and list a router as `openwrt` or `opnsense` besides the section of that
name, which the code does not prevent (`Listed`, `Routers`).

`EarlyNormalizeLeavesNoTrace` compares what is in force (`InForce`): without scanners and
switches that nothing names any more, and without the order of the scanners. It holds if
the environment `OnlyAdds` (turns nothing off that the file turns on, and leaves each
registered router its networks), and TLC refutes it when any part of that is dropped: a router that the
environment turns off stays a scanner; `OPNSENSE_NETWORKS=,` leaves the scanner of the
firewall with the networks of the file; and `REMOTE_SCANNER_OPNSENSE_NETWORKS` is read at
all only because the first `Normalize` has named that scanner already.

### RemotePool

`getClient`, `removeClient` and the dial hold `SSHRunner.mu`, and are a step each
(the dial two, as it takes long). A session is opened, runs or is refused
(`SessionLimit` is MaxSessions of sshd), and is retried once. A gateway offers the key of the
configuration, even a garbled one, instead of its key file, and a password beside either
(`Offers`); the instance has a gateway with a shared file and one with a key in memory. `WriteKey`,
`GatewayDown` and `GatewayUp` are the world. `calm` and `overtaken` are history: addresses
to which nothing has happened, and addresses whose key changed during a dial.
`clientKeyFiles` is written and never read, so it is left out.

### Traffic

One direction of one counter per meter, a cycle reading by reading: sources are asked
in the order of `CollectCycle`, any of them may fail or the time may be over, traffic
flows and counters start over between any two readings. A rate stands for the
bytes it claims, and `claimed` for the recorded samples, so that the properties compare bytes
with bytes; the rounding of a rate to whole bytes per second is left out.

Who is measured by what changes: `there` says which devices are behind a port or at an address,
`known` which one the switch has learnt there or the store has at the address. Devices come and
go (`Come`, `Go`), and both learn of it later or never (`Learn`). A byte counts at every meter its device
is behind; a reading is put down to the device that is `known` there, under one of two keys
per device (`KeyOf`), so that counters of two meters can meet in one `prev`.
`moved`, `base`, `start`, `own` and `calm` are history. A key is `own` while one meter,
with no other device behind it or taken to be, has measured it since its first reading, and `calm` while
moreover nothing started over, failed to be recorded or was restarted. The properties are about those
keys; `TrafficMeters.cfg` shows that they do not hold of the others.

## Runs

| Run | Shows | Bounds |
|---|---|---|
| `ScanJobsOverlap` | types; a running job is in the slot; flags clean when idle; the current network is a scanning one; outcomes are final; refinement of `ScanSlot` | two jobs, one network, all modes, no automatic port scans |
| `ScanJobsNetworks` | honest outcomes; jobs and shutdown end | one job, two networks, all modes, nightly window, shutdown |
| `ScanJobsShutdown` | no job writes after the wait; one nightly job; probes follow a sweep | two automatic jobs, the scanner loop, one `GET /api/scan` at a time, shutdown at any moment, with handlers that return in time or do not |
| `DeepQueueShared` | types; true status; progress adds up; refinement of `HostPool`; the uncancelled queue returns | four hosts, three networks, two gateways, two workers each, cancelled at any moment |
| `PresenceTimeline` | types; what a job met stays online; devices leave with evidence; refinement of `Attendance` | two devices, two networks, ages up to three intervals, every source but DHCP and probes |
| `PresenceGone` | a device that is gone is noticed, with DHCP and probes | one device that comes and goes, ages up to six |
| `SessionsRestart` | types; failed logins are bounded; only the entitled are served; a confirmed password lasts | three handlers, each a login or a first-run page, one host, two passwords, two sessions, crashes that leave a torn or a cut file, three ticks |
| `SettingsOverlay` | a second `Normalize` changes nothing; the one before the environment leaves no trace; what is in force is usable | files of up to three settings, one variable, two routers that may be listed (named as the sections `openwrt` and `opnsense`), two scanners (one with the id of a router), two switches, empty lists of networks, negative intervals |
| `DeviceRecords` | types; what is saved is shown; a probe of an unchanged device is invisible; moves keep user data; sweeps lose nothing | three addresses in two networks, three spellings, sweeps of two devices, one user request |
| `DeviceRecordsTakeover` (violated) | user data does not follow the hardware | the same, one column |
| `RemotePool` | pool exact; rotated keys noticed; healthy gateways serve; every scan returns | two scans, two gateways at one address, three connections, one rewrite of the key |
| `Traffic` | rates never overstate; rates add up | two devices that come, go and are learnt, a port, a controller, an address, two firewalls; two events (bytes and changes of place), one byte claimed of a device without a meter of its own |

Eleven more configurations state a claim that TLC refutes; they are no runs of the project
and are kept to reproduce findings 1 to 6 and 8 to 12 (`tlc -config PresenceDHCP.cfg MCPresence.tla`):

| Configuration | Claim of a document or comment | Module | Finding |
|---|---|---|---|
| `ScanJobsResweep.cfg` | `OneScanAtATime` | `MCScanJobs` | 1 |
| `ScanJobsStaleClear.cfg` | `IsScanRunningTruthful` | `MCScanJobs` | 2 |
| `DeepQueueCancel.cfg` | `CancelStops` | `MCDeepQueue` | 3 |
| `PresenceDHCP.cfg` | `NeverLeavesTwice` | `MCPresence` | 4 |
| `PresenceProbe.cfg` | `ComesOnlineIfUp` | `MCPresence` | 5 |
| `PresenceUnswept.cfg` | `LeavesOnlyIfLookedFor` | `MCPresence` | 6 |
| `ScanJobsCredit.cfg` | `ProbesOnlyItsOwn` | `MCScanJobs` | 8 |
| `ScanJobsMidWrite.cfg` | `NoScanOutlivesTheWait` | `MCScanJobs` | 9 |
| `SessionsRival.cfg` | `NeverOverwritten` | `MCSessions` | 10 |
| `SettingsPrecedence.cfg` | `EnvironmentTakesPrecedence` | `MCSettings` | 11 |
| `TrafficMeters.cfg` | `EveryRateIsTrue` | `MCTraffic` | 12 |

Two more claims are stated beside the properties of their modules without a configuration,
and TLC refutes them when they are added to the run's: `ProbePreservesCustomized`
(`DeviceRecords`) and `RemovesTheStaleOne` (`RemotePool`).

Why these bounds are enough: two jobs are what it takes for one to unwind while the
next starts, three for the sweep after a nightly scan; two networks for one to fail
while the other succeeds; two workers, a shared gateway and one beside it are all
that `runDeepQueue` distinguishes. Presence is decided device by device, so that two
devices in two networks cover a sweep of one with the other left out; ages up to the
expiry, and to an hour for DHCP, are all that is compared. The theorems remove the
bounds for the properties they cover. For device records, two addresses of a network and one
of another are a place to come from, one to go to and one that is not comparable; two
spellings of one MAC and another MAC give a known, a respelled and a new device; one
request follows or precedes any source. A move between two IPv4 networks, where `old \in recent` decides
whether the old row stays, takes a fourth address, which is too much for the run; the
theorems cover it, as they cover three addresses with one MAC. Three login handlers are one more than the limit; a
window and a life of one tick expire within the three ticks. Three lines of a file and a
variable can name, enable and spread one router. Two scans and three connections are
one holder of an old connection, one of a new one and the dial between; two gateways
share an address so that they recycle each other's. Two events are two bytes, which
tell a counter that wrapped from one that started over, or a byte and a change of place, which
is all it takes to compare two meters (`TrafficMeters.cfg` needs no more). `MaxClaim` stops only
devices that are without a meter of their own, about which the properties say nothing. One
`GET /api/scan` at a time is enough, since a request differs from another in nothing but the network
it is at; whether handlers outlive the drain is open at every drain.

Deadlock is not checked in the runs of `ScanJobs` and `DeepQueue`: the server exits,
the finished job or queue does nothing, and a cancelled queue may stick, which is a
finding; nor for `Settings`, which ends when the server runs, and `DeviceRecords`, whose
requests are bounded. The others check it. `ScanJobsOverlap` and `ScanJobsShutdown`
use the symmetry of jobs and networks, and the liveness runs do not.

### Fairness

- Goroutines of a job, of its gateways and workers, weakly fair: the Go scheduler
  runs what can run, and every scan, probe and merge is bounded (`--host-timeout`,
  context timeouts, rate-limit waits that end).
- The steps of the shutdown sequence, weakly fair; its wait has a bound of its own.
- Nobody clicks, cancels or signals by fairness, and the clock does not either.
- A waiter for the mutex of the pool gets it although others come and go (strong
  fairness: Go's mutex hands over to a waiter that starves); dials, sessions and nmap end
  one way or the other (nmap has a host timeout, the dial is the weak point: its
  timeout covers the TCP connect only). Gateways and key files owe nothing.
- `GoneIsNoticed` assumes no fairness: its premise says that jobs over the network
  of the device keep coming to their end.

### Findings

1. The sweep that follows a nightly scan is started outside `Handler.job`
   (scanjob.go:1206), so a user's scan starts beside it, and nobody can watch or
   cancel it. `ScanJobsResweep.cfg`.
2. `finish` frees the slot before the deferred clearing of the flags; the next job
   loses its running flag. `ScanJobsStaleClear.cfg`.
3. Workers that see the cancellation after a receive return; if all do, the
   producer's send (scanjob.go:930) blocks for ever, and with it the job, the
   background loop and the graceful end of the server. The window is narrow: each
   worker must be between its receive and its check, and the producer past its own.
   `DeepQueueCancel.cfg`.
4. `MergeRouterDHCP` recomputes `is_online` from an hour, so devices that left
   return without an event and leave again. `PresenceDHCP.cfg`.
5. A deep probe that finds nothing counts as a sighting. `PresenceProbe.cfg`.
6. Networks that were not swept count as scanned when devices are judged missing.
   `PresenceUnswept.cfg`.
7. A sweep that finds another device at a known address overwrites the MAC of the row
   and keeps what the user said of the old one, against README.md:44.
   `DeviceRecordsTakeover`.
8. The comment on `runNewDeviceDeepScan` (scanjob.go:762) says that it profiles only records created
   by this job. `scanNetwork` credits what any caller finds to the running job (api.go:886), so a
   job probes devices that a `GET /api/scan` met in a network the job itself skipped or failed
   to sweep. `ScanJobsCredit.cfg`.
9. The comment of the shutdown (serve.go:178) says that the cancellation reaches any scan in flight. A
   `GET /api/scan` runs in the context of its request; if `server.Shutdown` gives up after its ten
   seconds, the process ends in the middle of its merges. `ScanJobsMidWrite.cfg`.
10. "Once a password exists there is nothing to set up, and this page must not become a way to
    overwrite it" (handler.go:209): of two first-run pages handled at once the later one replaces
    the password the other has confirmed. `SessionsRival.cfg`.
11. "Environment variables take precedence over the config file" (config.go:935, and README.md:272): a
    router that the file turns on and the environment turns off stays a remote scanner, because
    the first `Normalize` has registered it. `SettingsPrecedence.cfg`.
12. "Only attribute traffic directly if port is dedicated to a single MAC" (traffic.go:109): a
    switch and the controller share a device's previous reading, and so do all of its addresses at
    the firewalls, so that a failed query, a second address or a move to another port compares
    the counters of two meters; and a device is charged for one that has come after it until the
    switch or the store has learnt of that. `TrafficMeters.cfg`.

Seen while modelling, and not claims of any document:

- relocation drops the link, the ssh override and the custom OS of a device; a group set on
  a linked device is stored with the other and never shown; a device deleted during its
  probe returns; an edit during a probe is lost; facts that bring a new MAC fail
  halfway; an IPv6 address that is now another device's fails the whole batch;
- MAC addresses that differ in spelling break recognition and links;
- the first `Normalize` is felt when the environment empties a list of networks or speaks of a
  scanner that has the id of a router, and in the sudo and timeouts left on scanners and
  switches that the environment's lists no longer name;
- `removeClient` closes whatever is pooled, also a fresh connection of others; a session
  refused for their number does the same; a shared key used as a fallback is not watched;
- a password file that a crash has cut behind its prefix locks everybody out until it is deleted;
- a device in networks of both kinds of firewall is measured by neither; readings of
  a cycle whose commit fails are lost.

## Proofs

All are checked by TLAPS, for any sets of jobs, hosts, networks, addresses, routers and
so on, and sweeps, files and environments of any length. Every safety property of the runs that
pass has a theorem, a few of them (of `ScanJobs`, `Presence` and `RemotePool`) under an assumption
that is named here; liveness has none. An assumption named with a module is the `ASSUME` on
its constants.

**ScanJobsProofs** (from `ScanJobsAssumption`).
`TypeCorrect` is inductive by itself. `Invariant` proves `IInv`: for each job, the
status matches the place in `run`; the goroutines of networks run only while the job
waits for them; a network whose goroutine has ended has a result unless the job was
cancelled; and the outcome is honest. `HonestOutcome` needs the other parts, because a
job reports at a point where only its place in `run` tells that all of its results are
in. The proof shows that a step concerns one job and leaves the others `Untouched`
(at most cancelled or adopted). `OutcomesAreFinal` follows, since `finish` is reached
only from the stages where the status is `running`. `RunningAreRegistered`, `OneAtATime`
and `ScanSlotRefined` assume that there are no automatic port scans: without a
nightly job there is no sweep outside the slot. `ScanJobsResweep` shows that the
assumption is needed.

Four more theorems hold with port scans. `OneNightlyJob` needs that the night is marked as done as
soon as there is a nightly job (`NightTaken`): the setting is read and saved under one lock.
`CurrentScans` is inductive with the types. `FlagsAreCleared` follows from `FlagsOwned`: for
each flag that is set there is a job whose deferred call that clears it is still to come.
A job may clear the flags of another (finding 2), never leave its own. `ExitIsClean` needs that all jobs
under way are cancelled once shutdown has begun (`Halted`) and that the jobs that come later, which are
born cancelled, reach no write (`Quiet`), whether the background scanner or a late handler starts
them; the merges of the supplemental sources are among the writes. `ProbesFollowSweeps` says that
a job collects only what it has swept or what others have swept while it ran (`Collected`); it has no
premise on who is registered and covers the sweep outside the slot and `GET /api/scan`.

**DeepQueueProofs** (from `DeepQueueAssumption`: finitely many hosts).
The inductive invariant `IInv` says where every goroutine and every host is. `GatewayShape`,
`NetworkStage` and `WorkerShape` tie the place of a goroutine to what it holds: workers of a
network run only while the gateway is in it, and end with a host in hand only after a
cancellation.
`OnePlace` says that a host is unsent, held out by its gateway, with one worker or tallied,
and never in two places; `NoneLost` that without a cancellation it is in one; `Counters` that
`active` and `complete` are the numbers of hosts with workers at these points.
`HistoryIsHonest`, `TypeCorrect` (a counter that is a cardinality is never negative) and `ProgressIsRight` follow.
`QueueRefinesPool` maps the place of a host to the state of its task in `HostPool`. Each host
is probed at most once because of `OnePlace`, and the limit of a gateway holds because of `NetworkStage`:
the workers that probe are those of the network the gateway is in.

**PresenceProofs** (from `PresenceAssumption`).
`TypeCorrect` holds with all sources. `OneTransaction` reduces each step to one
transaction of the store, and the theorems go by cases on those.
`LeavesHaveEvidence` and `TimelineRefined` assume that there are no DHCP merges and no
deep probes (`Exact`); their invariant `Evidence` says that `missed_sweeps` is the
number of rounds in which the device was missed, and zero when it is offline (a
returning device does not reset it). `MetStaysOnline` assumes no DHCP merges; its
invariant `Found` says why a device that was met is not given up at the end of the
job: it is in `activeIPs`, or it was met after the probes, when neither its misses
nor its age count. The runs with DHCP and probes show that the assumptions are needed.

**SessionsProofs** (from `SessionsAssumption`).
`TypeCorrect`; `FailuresBounded`: failures plus logins in flight never exceed the limit
by more than the handlers there are, by counting the handlers between check and count.
`ServesOnlyTheEntitled` and `ConfirmedLasts` allow any number of first-run pages at once. Their
invariant `Agreed` says that a session was earned with the password in force or with one of two
`rivals` (`EarnedHere`), that a login compares with one of these (`ComparedHere`), that what a page carries
is one of them once it is set (`SetHere`), and that memory, file and the confirmed password agree
unless the pages were `contested` (`Uncontested`).

**DeviceRecordsProofs** (from the five assumptions of `DeviceRecords`).
A sweep is a recursive function over its finds, so what it does to a table of any size is proved by
induction over their number (`NatInduct`; a set of naturals that is not empty has a least
element). `TypeCorrect` is inductive by itself. `SavedFieldsAreShown` follows from it: an edit
that is forwarded leaves the device blank, so that it shows the parent's columns, provided that the device is
not its own parent. `ProbesAreInvisible` goes through the columns one by one: what a probe
read from the parent it writes back to the device. `NothingIsLost` and
`MovesKeepWhatWasSaid` follow a sweep find by find; for the former, each find keeps a value in some row
or relocates the row that had it, and who has been relocated stays so (`KeptOrRelocated`). For the latter the invariant of the
sweep is that each row the sweep has come to stays and has the MAC that was seen there
(`Followed`), and that all rows with the MAC of the device say what its old row said (`Holds`).

**SettingsProofs** (from the three assumptions of `Settings`).
`NormalizeShape` says what `Normalize` makes of each field (`Normal`); its loop over the routers is
unfolded by induction. From that, `NormalizeTwice` (idempotence), and with the invariant that
`cfg` is what `Normalize` has made of the stage before (`CfgMade`) and that every named scanner is
configured (`Named`), `NormalizesOnce` and `InForceUsable`. `EarlyNormalizeIsHarmless` is
a simulation: the configurations with and without the early `Normalize` stay `Alike` under
each variable that `OnlyAdds` allows, which means that they differ only in what the later `Normalize`
writes over (the scanners of routers, repaired intervals, adopted networks, sudo), and `NormalizeLevels`
says that it makes them one.

**RemotePoolProofs** (from `PoolAssumption`).
`PoolIsExact` by an invariant on who holds the mutex, what it found and who holds which
connection. `RotationIsNoticed` assumes that gateways at one address use one key file
(`OneKeyPerAddress`): the stamp is kept per address. `ScansDoNotDisturb` also assumes that each
gateway has credentials (`HasCredentials`).

**TrafficProofs** (from `TrafficAssumption`).
`NeverOverstated` and `NothingGoesMissing` assume nothing of who is measured by what: devices come, go,
share ports and change meters, and the theorems are about the keys that are `own`, and `calm`, at the
moment. The invariant says that the meter of an `own` key with a reading is still the one it was
read from (`OwnMeters`). It bounds the claims by `base`, the bytes moved at the last reading, and what
a meter shows by its last reading plus what was moved since (`ClaimsBounded`, `Samples`);
for a `calm` key both are equalities (`NothingLost`). `OncePerCycle` is needed because a second reading at the same instant
claims nothing and would lose what came in between.

Only model-checked: liveness under fairness (`EveryJobEnds`, `ShutdownEnds`, `QueueReturns`,
`GoneIsNoticed`, `EveryScanReturns`), which needs `ENABLED` and is beyond the prover.

What proof attempts have found:

- `MovesKeepUserData` was false as first stated: with three IPv4 addresses of one MAC the
  row that `findByMAC` meets first is not the one the device came from. It now says that there is one such row
  and that the sweep finds nothing else at it.
- `EarlyNormalizeLeavesNoTrace` was false with two scanners or two switches: the sudo and the
  timeouts of those that the environment no longer names keep what the early call gave them. It now
  compares what is in force.
- `ProbeFollowsSweep` was false as first stated, of the job's own sweeps only: with the sweep outside the
  slot, and with `GET /api/scan`, a job is credited with what others found. It now counts what
  was swept by others while the job ran.
- `SweepLosesNothing` was false of the SSH and the OS override; it now covers them and names the rows
  that lose them.

## Plan

What would come next:

1. `Alerts`: the failure and recovery messages (`failedGateways`): one message per outage while
   sends are outside the lock, and a key that is made differently on failure and on success.
2. `Traffic`: `RollupAndPruneTraffic`. `traffic_hourly` has no unique key, so its `INSERT OR
   IGNORE` repeats hours, and its sums are MAX - MIN over counters that start over.
3. `LegacyImport` with crashes between import and rename.

Not modelled and not planned: the scanner's external programs and protocols (the models
let them answer, fail and time out), classification, network detection,
rendering, one-shot commands, packaging. `PROJECT.json` lists every component with the
reason, and the hazards that no property covers yet.

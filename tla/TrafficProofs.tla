---------------------------- MODULE TrafficProofs -----------------------------
(***************************************************************************)
(* Theorems of Traffic, for any sources, devices and networks, whoever     *)
(* comes to which port or address.                                         *)
(***************************************************************************)
EXTENDS Traffic, TLAPS

TypeOK ==
  /\ there \in [Spot -> SUBSET Mac] /\ known \in [Spot -> Mac \cup {NoMac}]
  /\ counter \in [Meter -> Nat]
  /\ prev \in [Key -> Reading]
  /\ todo \in SUBSET Source
  /\ left \in SUBSET Meter
  /\ phase \in {"idle", "collect", "record"}
  /\ sampled \in SUBSET Key
  /\ pending \in [Key -> Nat] /\ claimed \in [Key -> Nat]
  /\ moved \in [Key -> Nat] /\ base \in [Key -> Nat] /\ start \in [Key -> Nat]
  /\ own \in SUBSET Key /\ calm \in SUBSET own

\* A key followed so far that has a reading still has its one meter.
OwnMeters == \A k \in own : prev[k].when # "never" => Alone(k)

\* That meter is read once in a cycle, after its source was asked.
\* Without it a second reading at one instant would claim nothing.
OncePerCycle ==
  /\ \A m \in left : m[1] \notin todo
  /\ phase # "collect" => left = {} /\ todo = {}
  /\ \A k \in own, m \in Meter :
       prev[k].when = "now" /\ m \in Meters(k) => m[1] \notin todo /\ m \notin left

Samples == \A k \in Key \ sampled : pending[k] = 0

Bounded(k) ==
  /\ claimed[k] + pending[k] <= base[k]
  /\ base[k] <= moved[k]
  /\ start[k] <= base[k]

\* What the meter shows beyond the last reading was moved since.
Shown(k, m) == counter[m] + base[k] <= prev[k].bytes + moved[k]

ClaimsBounded ==
  \A k \in own :
    /\ Bounded(k)
    /\ \A m \in Meter : prev[k].when # "never" /\ m \in Meters(k) => Shown(k, m)

\* The same without loss, for what nothing has happened to.
Settled(k) ==
  /\ prev[k].when = "never" => claimed[k] + pending[k] = 0
  /\ prev[k].when # "never" => claimed[k] + pending[k] + start[k] = base[k]

ShownAll(k, m) == counter[m] + base[k] = prev[k].bytes + moved[k]

NothingLost ==
  \A k \in calm :
    /\ Settled(k)
    /\ \A m \in Meter : prev[k].when # "never" /\ m \in Meters(k) => ShownAll(k, m)

IInv == TypeOK /\ OwnMeters /\ OncePerCycle /\ Samples /\ ClaimsBounded /\ NothingLost

-----------------------------------------------------------------------------
(* What a device's own meter is. *)
LEMMA OwnMeter ==
  ASSUME NEW k \in Key, Alone(k), NEW m \in Meters(k)
  PROVE  m \in Meter /\ Meters(k) = {m} /\ Behind(m) = {k[1]} /\ Known(m) = k[1] /\ Kind(m) = k[2]
<1>1. PICK n \in Meter : Meters(k) = {n} /\ Behind(n) = {Known(n)}
  BY DEF Alone
<1>2. m = n
  BY <1>1
<1>3. k[1] \in Behind(m) \cup {Known(m)} /\ Kind(m) = k[2]
  BY DEF Meters
<1>4. QED
  BY <1>1, <1>2, <1>3

(* A reading that counts is of a known device, and of one of its meters. *)
LEMMA KeyKnown ==
  ASSUME TypeOK, NEW m \in Meter, Measures(m)
  PROVE  KeyOf(m) \in Key /\ m \in Meters(KeyOf(m))
<1>. USE TrafficAssumption DEF TrafficAssumption, Firewall
<1>1. Kind(m) \in {"link", "wan"}
  BY DEF Kind
<1>2. Known(m) \in Mac
  <2>1. CASE m \in Port
    BY <2>1 DEF Measures, Known, SpotOf, Spot, TypeOK
  <2>2. CASE m \in {"unifi"} \X Station
    BY <2>2 DEF Known
  <2>3. CASE m \in Flow
    BY <2>3 DEF Measures, Known, SpotOf, Spot, TypeOK
  <2>4. QED
    BY <2>1, <2>2, <2>3 DEF Meter
<1>3. QED
  BY <1>1, <1>2 DEF KeyOf, Key, Meters, Measures

(* Who measures whom depends on the world alone. *)
LEMMA WorldKept ==
  ASSUME UNCHANGED world, NEW k \in Key
  PROVE  Meters(k)' = Meters(k) /\ (Alone(k)' <=> Alone(k))
<1>1. \A m \in Meter : Behind(m)' = Behind(m) /\ Known(m)' = Known(m)
  BY DEF world, Behind, Known, SpotOf
<1>2. Meters(k)' = Meters(k)
  BY <1>1 DEF Meters
<1>3. QED
  BY <1>1, <1>2 DEF Alone

(* What a sample claims. *)
LEMMA Claims ==
  ASSUME TypeOK, NEW k \in Key, NEW b \in Nat
  PROVE  /\ ComputeRate(k, b) \in Nat
         /\ prev[k].when = "earlier" /\ b >= prev[k].bytes => ComputeRate(k, b) + prev[k].bytes = b
         /\ prev[k].when # "earlier" \/ b < prev[k].bytes => ComputeRate(k, b) = 0
BY DEF TypeOK, Reading, ComputeRate

LEMMA InitHolds == Init => IInv
<1>. SUFFICES ASSUME Init PROVE IInv
  OBVIOUS
<1>1. there \in [Spot -> SUBSET Mac] /\ known \in [Spot -> Mac \cup {NoMac}]
  BY TrafficAssumption DEF Init, TrafficAssumption
<1>2. TypeOK
  BY <1>1 DEF Init, TypeOK, Zero, NoReading, Reading
<1>3. OwnMeters /\ OncePerCycle /\ Samples
  BY DEF Init, OwnMeters, OncePerCycle, Samples, Zero, NoReading
<1>4. ClaimsBounded /\ NothingLost
  BY DEF Init, ClaimsBounded, NothingLost, Bounded, Settled, Zero, NoReading
<1>5. QED
  BY <1>2, <1>3, <1>4 DEF IInv

-----------------------------------------------------------------------------
(* A cycle begins: readings of the last one become earlier ones. *)
LEMMA BeginKeeps ==
  ASSUME IInv, CycleBegin
  PROVE  IInv'
<1>. USE DEF CycleBegin, IInv, history
<1>1. \A k \in Key : /\ prev'[k].bytes = prev[k].bytes
                     /\ prev'[k].when # "now"
                     /\ prev'[k].when = "never" <=> prev[k].when = "never"
                     /\ prev'[k] \in Reading
  BY DEF TypeOK, Reading
<1>2. TypeOK'
  BY <1>1 DEF TypeOK, world
<1>3. own \subseteq Key /\ calm \subseteq Key
  BY DEF TypeOK
<1>4. \A k \in Key : Meters(k)' = Meters(k) /\ (Alone(k)' <=> Alone(k))
  BY WorldKept
<1>5. OwnMeters' /\ OncePerCycle' /\ Samples'
  BY <1>1, <1>3, <1>4 DEF OwnMeters, OncePerCycle, Samples
<1>6. ClaimsBounded'
  BY <1>1, <1>3, <1>4 DEF ClaimsBounded, Bounded, Shown
<1>7. NothingLost'
  BY <1>1, <1>3, <1>4 DEF NothingLost, Settled, ShownAll
<1>8. QED
  BY <1>2, <1>5, <1>6, <1>7

(* Steps that only move the cycle on. *)
LEMMA ProgressKeeps ==
  ASSUME IInv, \/ Timeout \/ Collected
               \/ \E s \in Source : Fetch(s) \/ FetchFails(s)
               \/ \E m \in Meter : Skip(m)
  PROVE  IInv'
<1>. USE DEF IInv, history
<1>1. UNCHANGED <<world, counter, prev, pending, sampled, claimed, history>>
  BY DEF Timeout, Collected, Fetch, FetchFails, Skip
<1>2. own \subseteq Key /\ calm \subseteq Key
  BY DEF TypeOK
<1>3. \A k \in Key : Meters(k)' = Meters(k) /\ (Alone(k)' <=> Alone(k))
  BY <1>1, WorldKept
<1>4. ClaimsBounded' /\ NothingLost' /\ Samples' /\ OwnMeters'
  BY <1>1, <1>2, <1>3 DEF ClaimsBounded, NothingLost, Samples, OwnMeters, Bounded, Settled, Shown, ShownAll
<1>5. TypeOK' /\ OncePerCycle'
  <2>. USE <1>1, <1>2, <1>3 DEF TypeOK, world
  <2>1. CASE Timeout
    BY <2>1 DEF Timeout, OncePerCycle
  <2>2. CASE Collected
    BY <2>2 DEF Collected, OncePerCycle
  <2>3. ASSUME NEW s \in Source, Fetch(s) PROVE TypeOK' /\ OncePerCycle'
    <3>1. TypeOK'
      BY <2>3 DEF Fetch
    <3>2. OncePerCycle'
      BY <2>3 DEF Fetch, OncePerCycle, Upcoming
    <3>3. QED
      BY <3>1, <3>2
  <2>4. ASSUME NEW s \in Source, FetchFails(s) PROVE TypeOK' /\ OncePerCycle'
    BY <2>4 DEF FetchFails, OncePerCycle, Upcoming
  <2>5. ASSUME NEW m \in Meter, Skip(m) PROVE TypeOK' /\ OncePerCycle'
    BY <2>5 DEF Skip, OncePerCycle
  <2>6. QED
    BY <2>1, <2>2, <2>3, <2>4, <2>5
<1>6. QED
  BY <1>4, <1>5

(* A reading claims at most what was moved since the one before: the meter *)
(* is the one of that reading, or the key is followed no more.             *)
LEMMA ReadKeeps ==
  ASSUME IInv, NEW m \in Meter, Read(m), NEW k \in Key, k = KeyOf(m)
  PROVE  IInv'
<1>. DEFINE c == ComputeRate(k, counter[m])
<1>1. k \in Key /\ m \in Meters(k) /\ m \in left
  BY KeyKnown DEF Read, IInv
<1>2. /\ counter[m] \in Nat /\ prev[k] \in Reading
      /\ claimed[k] \in Nat /\ pending[k] \in Nat /\ moved[k] \in Nat /\ base[k] \in Nat /\ start[k] \in Nat
  BY <1>1 DEF IInv, TypeOK
<1>3. /\ c \in Nat
      /\ prev[k].when = "earlier" /\ counter[m] >= prev[k].bytes => c + prev[k].bytes = counter[m]
      /\ prev[k].when # "earlier" \/ counter[m] < prev[k].bytes => c = 0
  BY <1>1, <1>2, Claims DEF IInv
<1>4. /\ pending' = [pending EXCEPT ![k] = @ + c]
      /\ prev' = [prev EXCEPT ![k] = [bytes |-> counter[m], when |-> "now"]]
      /\ base' = [base EXCEPT ![k] = moved[k]]
      /\ start' = IF prev[k].when = "never" THEN [start EXCEPT ![k] = moved[k]] ELSE start
      /\ sampled' = sampled \cup {k}
      /\ left' = left \ {m}
      /\ own' = (IF Alone(k) THEN own ELSE own \ {k})
      /\ calm' = calm \cap own'
      /\ UNCHANGED <<world, counter, todo, phase, claimed, moved>>
  BY DEF Read
<1>5. /\ own' \subseteq own /\ own \subseteq Key /\ calm' \subseteq calm /\ calm \subseteq own
      /\ calm' \subseteq own'
      /\ \A j \in Key : Meters(j)' = Meters(j) /\ (Alone(j)' <=> Alone(j))
  BY <1>4, WorldKept DEF IInv, TypeOK
<1>6. k \in own' => Meters(k) = {m} /\ Alone(k)
  BY <1>1, <1>4, OwnMeter
<1>. HIDE DEF c
<1>7. TypeOK'
  <2>1. pending' \in [Key -> Nat] /\ base' \in [Key -> Nat] /\ start' \in [Key -> Nat]
    BY <1>1, <1>2, <1>3, <1>4 DEF IInv, TypeOK
  <2>2. [bytes |-> counter[m], when |-> "now"] \in Reading
    BY <1>2 DEF Reading
  <2>3. prev' \in [Key -> Reading]
    BY <1>1, <1>4, <2>2 DEF IInv, TypeOK
  <2>4. /\ own' \in SUBSET Key /\ calm' \in SUBSET own' /\ sampled' \in SUBSET Key
        /\ left' \in SUBSET Meter
    BY <1>1, <1>4, <1>5 DEF IInv, TypeOK
  <2>5. QED
    BY <1>4, <2>1, <2>3, <2>4 DEF IInv, TypeOK, world
<1>8. /\ prev'[k] = [bytes |-> counter[m], when |-> "now"]
      /\ pending'[k] = pending[k] + c /\ base'[k] = moved[k]
      /\ start'[k] = IF prev[k].when = "never" THEN moved[k] ELSE start[k]
      /\ claimed'[k] = claimed[k] /\ moved'[k] = moved[k] /\ counter'[m] = counter[m]
  BY <1>1, <1>4 DEF IInv, TypeOK
<1>9. \A j \in Key \ {k} : /\ prev'[j] = prev[j] /\ pending'[j] = pending[j] /\ base'[j] = base[j]
                           /\ start'[j] = start[j] /\ claimed'[j] = claimed[j] /\ moved'[j] = moved[j]
  BY <1>4 DEF IInv, TypeOK
<1>10. OwnMeters'
  BY <1>5, <1>6, <1>9 DEF IInv, OwnMeters
<1>11. OncePerCycle'
  <2>1. m[1] \notin todo /\ phase = "collect"
    BY <1>1 DEF IInv, OncePerCycle
  <2>2. /\ \A n \in left' : n[1] \notin todo'
        /\ phase' # "collect" => left' = {} /\ todo' = {}
    BY <2>1, <1>4 DEF IInv, OncePerCycle
  <2>3. ASSUME NEW j \in own', NEW n \in Meter, prev'[j].when = "now", n \in Meters(j)
        PROVE  n[1] \notin todo' /\ n \notin left'
    BY <2>1, <2>3, <1>4, <1>5, <1>6, <1>9 DEF IInv, OncePerCycle
  <2>4. QED
    BY <2>2, <2>3, <1>5 DEF OncePerCycle
<1>12. Samples'
  BY <1>4, <1>9 DEF IInv, Samples
<1>13. ASSUME k \in own' PROVE prev[k].when # "now"
  BY <1>1, <1>5, <1>13 DEF IInv, OncePerCycle
<1>14. ClaimsBounded'
  <2>1. ASSUME k \in own' PROVE Bounded(k)'
    <3>1. Bounded(k) /\ (prev[k].when # "never" => Shown(k, m))
      BY <1>1, <1>5, <2>1 DEF IInv, ClaimsBounded
    <3>2. CASE prev[k].when = "earlier" /\ counter[m] >= prev[k].bytes
      <4>1. prev[k].bytes \in Nat /\ prev[k].when # "never"
        BY <1>2, <3>2 DEF Reading
      <4>2. counter[m] + base[k] <= prev[k].bytes + moved[k]
        BY <3>1, <4>1 DEF Shown
      <4>3. c + base[k] <= moved[k]
        BY <4>1, <4>2, <1>2, <1>3, <3>2
      <4>4. QED
        BY <4>1, <4>3, <3>1, <1>2, <1>3, <1>8 DEF Bounded
    <3>3. CASE ~(prev[k].when = "earlier" /\ counter[m] >= prev[k].bytes)
      <4>1. c = 0
        BY <3>3, <1>2, <1>3 DEF Reading
      <4>2. QED
        BY <4>1, <3>1, <1>2, <1>8 DEF Bounded
    <3>4. QED
      BY <3>2, <3>3
  <2>2. Shown(k, m)'
    BY <1>2, <1>8 DEF Shown
  <2>3. ASSUME NEW j \in own' PROVE Bounded(j)'
    BY <2>1, <1>5, <1>9 DEF IInv, ClaimsBounded, Bounded
  <2>4. ASSUME NEW j \in own', NEW n \in Meter, prev'[j].when # "never", n \in Meters(j)
        PROVE  Shown(j, n)'
    <3>1. CASE j = k
      BY <2>2, <2>4, <3>1, <1>6
    <3>2. CASE j # k
      <4>1. Shown(j, n)
        BY <2>4, <3>2, <1>5, <1>9 DEF IInv, ClaimsBounded
      <4>2. QED
        BY <4>1, <3>2, <1>4, <1>5, <1>9 DEF Shown
    <3>3. QED
      BY <3>1, <3>2
  <2>5. QED
    BY <2>3, <2>4, <1>5 DEF ClaimsBounded
<1>15. NothingLost'
  <2>1. ASSUME k \in calm' PROVE Settled(k)'
    <3>1. Settled(k) /\ Bounded(k) /\ (prev[k].when # "never" => ShownAll(k, m))
      BY <1>1, <1>5, <2>1 DEF IInv, NothingLost, ClaimsBounded
    <3>2. CASE prev[k].when = "never"
      BY <3>1, <3>2, <1>2, <1>3, <1>8 DEF Settled
    <3>3. CASE prev[k].when # "never"
      <4>1. prev[k].bytes \in Nat /\ prev[k].when = "earlier"
        BY <1>2, <1>5, <1>13, <2>1, <3>3 DEF Reading
      <4>2. counter[m] + base[k] = prev[k].bytes + moved[k] /\ base[k] <= moved[k]
        BY <3>1, <3>3 DEF ShownAll, Bounded
      <4>3. c + base[k] = moved[k]
        BY <4>1, <4>2, <1>2, <1>3
      <4>4. QED
        BY <4>1, <4>3, <3>1, <3>3, <1>2, <1>3, <1>8 DEF Settled
    <3>4. QED
      BY <3>2, <3>3
  <2>2. ShownAll(k, m)'
    BY <1>2, <1>8 DEF ShownAll
  <2>3. ASSUME NEW j \in calm' PROVE Settled(j)'
    BY <2>1, <1>5, <1>9 DEF IInv, NothingLost, Settled
  <2>4. ASSUME NEW j \in calm', NEW n \in Meter, prev'[j].when # "never", n \in Meters(j)
        PROVE  ShownAll(j, n)'
    <3>1. CASE j = k
      BY <2>2, <2>4, <3>1, <1>5, <1>6
    <3>2. CASE j # k
      <4>1. ShownAll(j, n)
        BY <2>4, <3>2, <1>5, <1>9 DEF IInv, NothingLost
      <4>2. QED
        BY <4>1, <3>2, <1>4, <1>5, <1>9 DEF ShownAll
    <3>3. QED
      BY <3>1, <3>2
  <2>5. QED
    BY <2>3, <2>4, <1>5 DEF NothingLost
<1>16. QED
  BY <1>7, <1>10, <1>11, <1>12, <1>14, <1>15 DEF IInv

(* The cycle ends, with its samples recorded or without. *)
LEMMA EndKeeps ==
  ASSUME IInv, RecordTrafficSamples \/ RecordFails
  PROVE  IInv'
<1>. USE DEF CycleEnd
<1>1. /\ pending' = Zero /\ sampled' = {} /\ phase' = "idle"
      /\ UNCHANGED <<world, counter, prev, todo, left, moved, base, start, own>>
      /\ phase = "record"
  BY DEF RecordTrafficSamples, RecordFails, history
<1>2. /\ claimed' \in [Key -> Nat] /\ calm' \in SUBSET calm
      /\ \A k \in Key : claimed'[k] + pending'[k] <= claimed[k] + pending[k]
      /\ \A k \in calm' : claimed'[k] + pending'[k] = claimed[k] + pending[k]
  <2>1. CASE RecordTrafficSamples
    BY <2>1, <1>1 DEF RecordTrafficSamples, history, IInv, TypeOK, Zero
  <2>2. CASE RecordFails
    BY <2>2, <1>1 DEF RecordFails, IInv, TypeOK, Zero, Samples
  <2>3. QED
    BY <2>1, <2>2
<1>3. TypeOK'
  BY <1>1, <1>2 DEF IInv, TypeOK, Zero, world
<1>4. own \subseteq Key /\ calm' \subseteq calm /\ calm \subseteq own
  BY <1>2 DEF IInv, TypeOK
<1>5. \A k \in Key : Meters(k)' = Meters(k) /\ (Alone(k)' <=> Alone(k))
  BY <1>1, WorldKept
<1>6. OwnMeters' /\ OncePerCycle' /\ Samples'
  BY <1>1, <1>4, <1>5 DEF IInv, OwnMeters, OncePerCycle, Samples, Zero
<1>7. ClaimsBounded'
  <2>1. ASSUME NEW k \in own PROVE Bounded(k)'
    <3>1. /\ claimed[k] + pending[k] \in Nat /\ claimed'[k] + pending'[k] \in Nat
          /\ base[k] \in Nat /\ claimed'[k] + pending'[k] <= claimed[k] + pending[k]
      BY <1>2, <1>3, <1>4 DEF IInv, TypeOK
    <3>2. Bounded(k)
      BY DEF IInv, ClaimsBounded
    <3>3. QED
      BY <1>1, <3>1, <3>2 DEF Bounded
  <2>2. QED
    BY <1>1, <1>4, <1>5, <2>1 DEF IInv, ClaimsBounded, Shown
<1>8. NothingLost'
  BY <1>1, <1>2, <1>4, <1>5 DEF IInv, NothingLost, Settled, ShownAll
<1>9. QED
  BY <1>3, <1>6, <1>7, <1>8 DEF IInv

-----------------------------------------------------------------------------
(* A byte of a device passes meters: of the devices followed, it is the    *)
(* one whose own meter counts it, and that meter does.                     *)
LEMMA MoveKeeps ==
  ASSUME IInv, NEW x \in Mac, NEW kind \in {"link", "wan"}, NEW past \in SUBSET Meter,
         Move(x, kind, past),
         \A m \in past : x \in Behind(m) /\ Kind(m) = kind,
         \A m \in Meter : Meters(<<x, kind>>) = {m} /\ x \in Behind(m) => m \in past
  PROVE  IInv'
<1>. DEFINE k == <<x, kind>>
<1>1. /\ moved' = [moved EXCEPT ![k] = @ + 1]
      /\ counter' = [m \in Meter |-> IF m \in past THEN counter[m] + 1 ELSE counter[m]]
      /\ UNCHANGED <<world, prev, cycle, pending, sampled, claimed, base, start, own, calm>>
  BY DEF Move
<1>2. k \in Key
  BY DEF Key
<1>. HIDE DEF k
<1>3. /\ \A j \in Key : moved'[j] = IF j = k THEN moved[j] + 1 ELSE moved[j]
      /\ moved' \in [Key -> Nat]
  BY <1>1, <1>2 DEF IInv, TypeOK
<1>4. \A m \in Meter : counter'[m] = IF m \in past THEN counter[m] + 1 ELSE counter[m]
  BY <1>1
<1>5. TypeOK'
  <2>1. counter' \in [Meter -> Nat]
    BY <1>1 DEF IInv, TypeOK
  <2>2. QED
    BY <1>1, <1>3, <2>1 DEF IInv, TypeOK, cycle, world
<1>6. own \subseteq Key /\ calm \subseteq own
  BY DEF IInv, TypeOK
<1>7. \A j \in Key : Meters(j)' = Meters(j) /\ (Alone(j)' <=> Alone(j))
  BY <1>1, WorldKept
<1>8. OwnMeters' /\ OncePerCycle' /\ Samples'
  BY <1>1, <1>6, <1>7 DEF IInv, cycle, OwnMeters, OncePerCycle, Samples
<1>9. ASSUME NEW j \in own, NEW m \in Meter, prev[j].when # "never", m \in Meters(j)
      PROVE  m \in past <=> j = k
  <2>1. Meters(j) = {m} /\ Behind(m) = {j[1]} /\ Kind(m) = j[2]
    BY <1>6, <1>9, OwnMeter DEF IInv, OwnMeters
  <2>2. j \in Key /\ (j = k <=> j[1] = x /\ j[2] = kind)
    BY <1>6 DEF Key, k
  <2>3. ASSUME m \in past PROVE j = k
    BY <2>1, <2>2, <2>3
  <2>4. ASSUME j = k PROVE m \in past
    BY <2>1, <2>2, <2>4 DEF k
  <2>5. QED
    BY <2>3, <2>4
<1>10. \A j \in own : Bounded(j)'
  BY <1>1, <1>3, <1>6 DEF IInv, ClaimsBounded, Bounded, TypeOK
<1>11. ASSUME NEW j \in own, NEW m \in Meter, prev[j].when # "never", m \in Meters(j)
       PROVE  /\ Shown(j, m)'
              /\ j \in calm => ShownAll(j, m)'
  <2>1. /\ prev[j].bytes \in Nat /\ counter[m] \in Nat /\ base[j] \in Nat /\ moved[j] \in Nat
    BY <1>6 DEF IInv, TypeOK, Reading
  <2>2. Shown(j, m) /\ (j \in calm => ShownAll(j, m))
    BY <1>11 DEF IInv, ClaimsBounded, NothingLost
  <2>3. /\ moved'[j] = IF j = k THEN moved[j] + 1 ELSE moved[j]
        /\ counter'[m] = IF j = k THEN counter[m] + 1 ELSE counter[m]
    BY <1>3, <1>4, <1>6, <1>9, <1>11
  <2>4. prev'[j] = prev[j] /\ base'[j] = base[j]
    BY <1>1
  <2>5. QED
    BY <2>1, <2>2, <2>3, <2>4 DEF Shown, ShownAll
<1>12. ClaimsBounded'
  BY <1>1, <1>6, <1>7, <1>10, <1>11 DEF ClaimsBounded
<1>13. NothingLost'
  BY <1>1, <1>6, <1>7, <1>11 DEF IInv, NothingLost, Settled
<1>14. QED
  BY <1>5, <1>8, <1>12, <1>13 DEF IInv

LEMMA TrafficKeeps ==
  ASSUME IInv, NEW x \in Mac,
         MoveLink(x) \/ \E ip \in Ip : MoveWan(x, ip)
  PROVE  IInv'
<1>1. CASE MoveLink(x)
  <2>. DEFINE past == {m \in Meter : m[1] \notin Firewall /\ x \in Behind(m)}
  <2>1. \A m \in past : x \in Behind(m) /\ Kind(m) = "link"
    BY DEF Kind
  <2>2. ASSUME NEW m \in Meter, Meters(<<x, "link">>) = {m}, x \in Behind(m) PROVE m \in past
    <3>1. Kind(m) = "link"
      BY <2>2 DEF Meters
    <3>2. QED
      BY <2>2, <3>1 DEF Kind
  <2>3. Move(x, "link", past)
    BY <1>1 DEF MoveLink
  <2>. HIDE DEF past
  <2>4. past \in SUBSET Meter
    BY DEF past
  <2>5. QED
    BY <2>1, <2>2, <2>3, <2>4, MoveKeeps
<1>2. ASSUME NEW ip \in Ip, MoveWan(x, ip) PROVE IInv'
  <2>. DEFINE past == {m \in Meter : m[1] \in Firewall /\ m[2] = ip}
  <2>1. x \in there[ip] /\ Move(x, "wan", past)
    BY <1>2 DEF MoveWan
  <2>2. \A m \in past : x \in Behind(m) /\ Kind(m) = "wan"
    BY <2>1, TrafficAssumption DEF Behind, SpotOf, Kind, Firewall, TrafficAssumption
  <2>3. PICK n \in past : Configured(n)
    BY <2>1 DEF Move
  <2>4. n \in Meters(<<x, "wan">>)
    BY <2>2, <2>3 DEF Meters
  <2>5. past \in SUBSET Meter
    OBVIOUS
  <2>. HIDE DEF past
  <2>6. \A m \in Meter : Meters(<<x, "wan">>) = {m} /\ x \in Behind(m) => m \in past
    BY <2>4
  <2>7. QED
    BY <2>1, <2>2, <2>5, <2>6, MoveKeeps
<1>3. QED
  BY <1>1, <1>2

(* A counter that starts over shows less than was moved. *)
LEMMA ResetKeeps ==
  ASSUME IInv, NEW m \in Meter, Reset(m)
  PROVE  IInv'
<1>. USE DEF IInv, cycle
<1>1. /\ counter' = [counter EXCEPT ![m] = 0]
      /\ calm' = {k \in calm : m \notin Meters(k)}
      /\ UNCHANGED <<world, prev, cycle, pending, sampled, claimed, moved, base, start, own>>
  BY DEF Reset
<1>2. own \subseteq Key /\ calm' \subseteq calm /\ calm \subseteq own
  BY <1>1 DEF TypeOK
<1>3. \A k \in Key : Meters(k)' = Meters(k) /\ (Alone(k)' <=> Alone(k))
  BY <1>1, WorldKept
<1>4. TypeOK'
  BY <1>1, <1>2 DEF TypeOK, world
<1>5. OwnMeters' /\ OncePerCycle' /\ Samples'
  BY <1>1, <1>2, <1>3 DEF OwnMeters, OncePerCycle, Samples
<1>6. ASSUME NEW k \in own, NEW n \in Meter, prev[k].when # "never", n \in Meters(k)
      PROVE  Shown(k, n)' /\ (k \in calm' => ShownAll(k, n)')
  <2>1. Shown(k, n) /\ (k \in calm => ShownAll(k, n)) /\ Bounded(k) /\ k \in Key
    BY <1>2, <1>6 DEF ClaimsBounded, NothingLost
  <2>2. CASE n = m
    <3>1. counter'[n] = 0 /\ k \notin calm'
      BY <1>1, <1>6, <2>2 DEF TypeOK
    <3>2. /\ prev[k].bytes \in Nat /\ base[k] \in Nat /\ moved[k] \in Nat
      BY <2>1 DEF TypeOK, Reading
    <3>3. QED
      BY <1>1, <2>1, <3>1, <3>2 DEF Shown, Bounded
  <2>3. CASE n # m
    BY <1>1, <2>1, <2>3 DEF TypeOK, Shown, ShownAll
  <2>4. QED
    BY <2>2, <2>3
<1>7. ClaimsBounded'
  BY <1>1, <1>2, <1>3, <1>6 DEF ClaimsBounded, Bounded
<1>8. NothingLost'
  BY <1>1, <1>2, <1>3, <1>6 DEF NothingLost, Settled
<1>9. QED
  BY <1>4, <1>5, <1>7, <1>8

(* Devices come and go: those followed that have a reading keep the meter  *)
(* it is from.                                                             *)
LEMMA ChangeKeeps ==
  ASSUME IInv, Changed,
         there' \in [Spot -> SUBSET Mac], known' \in [Spot -> Mac \cup {NoMac}]
  PROVE  IInv'
<1>. USE DEF IInv, cycle
<1>1. /\ own' = {k \in own : prev[k].when = "never" \/ (Alone(k)' /\ Meters(k)' = Meters(k))}
      /\ calm' = calm \cap own'
      /\ UNCHANGED <<counter, prev, cycle, pending, sampled, claimed, moved, base, start>>
  BY DEF Changed
<1>2. /\ own' \subseteq own /\ own \subseteq Key /\ calm' \subseteq calm /\ calm \subseteq own
      /\ calm' \subseteq own'
  BY <1>1 DEF TypeOK
<1>3. \A k \in own' : prev[k].when # "never" => Alone(k)' /\ Meters(k)' = Meters(k)
  BY <1>1
<1>4. TypeOK'
  BY <1>1, <1>2 DEF TypeOK
<1>5. OwnMeters' /\ Samples'
  BY <1>1, <1>3 DEF OwnMeters, Samples
<1>6. OncePerCycle'
  BY <1>1, <1>2, <1>3 DEF OncePerCycle
<1>7. ClaimsBounded'
  BY <1>1, <1>2, <1>3 DEF ClaimsBounded, Bounded, Shown
<1>8. NothingLost'
  BY <1>1, <1>2, <1>3 DEF NothingLost, Settled, ShownAll
<1>9. QED
  BY <1>4, <1>5, <1>6, <1>7, <1>8

LEMMA WorldKeeps ==
  ASSUME IInv, NEW s \in Spot,
         \/ \E x \in Mac : Come(s, x) \/ Go(s, x)
         \/ \E x \in Mac \cup {NoMac} : Learn(s, x)
  PROVE  IInv'
<1>1. /\ Changed
      /\ there' \in [Spot -> SUBSET Mac] /\ known' \in [Spot -> Mac \cup {NoMac}]
  BY DEF IInv, TypeOK, Come, Go, Learn
<1>2. QED
  BY <1>1, ChangeKeeps

(* A restart forgets all readings, and what was not recorded. *)
LEMMA RestartKeeps ==
  ASSUME IInv, Restart
  PROVE  IInv'
<1>. USE DEF IInv
<1>1. /\ prev' = [k \in Key |-> NoReading]
      /\ todo' = {} /\ left' = {} /\ phase' = "idle"
      /\ pending' = Zero /\ sampled' = {}
      /\ calm' = calm \ {k \in Key : prev[k].when # "never"}
      /\ UNCHANGED <<world, counter, claimed, moved, base, start, own>>
  BY DEF Restart
<1>2. TypeOK'
  BY <1>1 DEF TypeOK, Zero, NoReading, Reading, world
<1>3. own \subseteq Key /\ calm' \subseteq calm /\ calm \subseteq own /\ \A k \in Key : prev'[k].when = "never"
  BY <1>1 DEF TypeOK, NoReading
<1>4. OwnMeters' /\ OncePerCycle' /\ Samples'
  BY <1>1, <1>3 DEF OwnMeters, OncePerCycle, Samples, Zero
<1>5. ClaimsBounded'
  <2>1. ASSUME NEW k \in own PROVE Bounded(k)'
    <3>1. claimed[k] \in Nat /\ pending[k] \in Nat /\ base[k] \in Nat /\ pending'[k] = 0
      BY <1>1, <1>3 DEF TypeOK, Zero
    <3>2. QED
      BY <1>1, <3>1 DEF ClaimsBounded, Bounded
  <2>2. QED
    BY <1>1, <1>3, <2>1 DEF ClaimsBounded
<1>6. NothingLost'
  <2>1. ASSUME NEW k \in calm' PROVE Settled(k)'
    <3>1. k \in Key /\ k \in calm /\ prev[k].when = "never" /\ claimed[k] \in Nat /\ pending[k] \in Nat
      BY <1>1, <1>3, <2>1 DEF TypeOK
    <3>2. claimed[k] = 0
      BY <3>1 DEF NothingLost, Settled
    <3>3. QED
      BY <1>1, <3>1, <3>2 DEF Settled, Zero, NoReading
  <2>2. QED
    BY <1>3, <2>1 DEF NothingLost
<1>7. QED
  BY <1>2, <1>4, <1>5, <1>6

LEMMA Inductive ==
  ASSUME IInv, [Next]_vars
  PROVE  IInv'
<1>1. CASE UNCHANGED vars
  <2>1. /\ UNCHANGED <<counter, prev, cycle, pending, sampled, claimed, moved, base, start, own, calm>>
        /\ UNCHANGED world
    BY <1>1 DEF vars, history
  <2>2. own \subseteq Key /\ calm \subseteq own
    BY DEF IInv, TypeOK
  <2>3. \A k \in Key : Meters(k)' = Meters(k) /\ (Alone(k)' <=> Alone(k))
    BY <2>1, WorldKept
  <2>4. TypeOK' /\ Samples' /\ OwnMeters'
    BY <2>1, <2>2, <2>3 DEF IInv, cycle, world, TypeOK, Samples, OwnMeters
  <2>5. OncePerCycle' /\ ClaimsBounded' /\ NothingLost'
    BY <2>1, <2>2, <2>3 DEF IInv, cycle, OncePerCycle, ClaimsBounded, NothingLost, Bounded, Settled,
                            Shown, ShownAll
  <2>6. QED
    BY <2>4, <2>5 DEF IInv
<1>2. CASE CycleBegin
  BY <1>2, BeginKeeps
<1>3. CASE RecordTrafficSamples \/ RecordFails
  BY <1>3, EndKeeps
<1>4. CASE Restart
  BY <1>4, RestartKeeps
<1>5. CASE Timeout \/ Collected \/ (\E s \in Source : Fetch(s) \/ FetchFails(s))
  BY <1>5, ProgressKeeps
<1>6. ASSUME NEW m \in Meter, Skip(m) \/ Read(m) \/ Reset(m) PROVE IInv'
  <2>1. Read(m) => KeyOf(m) \in Key
    BY KeyKnown DEF Read, IInv
  <2>2. QED
    BY <1>6, <2>1, ProgressKeeps, ReadKeeps, ResetKeeps
<1>7. CASE (\E x \in Mac : MoveLink(x)) \/ (\E x \in Mac, ip \in Ip : MoveWan(x, ip))
  BY <1>7, TrafficKeeps
<1>8. CASE (\E s \in Spot, x \in Mac : Come(s, x) \/ Go(s, x))
           \/ (\E s \in Spot, x \in Mac \cup {NoMac} : Learn(s, x))
  BY <1>8, WorldKeeps
<1>9. QED
  BY <1>1, <1>2, <1>3, <1>4, <1>5, <1>6, <1>7, <1>8 DEF Next

LEMMA Invariance == Spec => []IInv
<1>1. IInv /\ [Next]_vars => IInv'
  BY Inductive
<1>2. QED
  BY <1>1, InitHolds, PTL DEF Spec

-----------------------------------------------------------------------------
(* The recorded rates of a device that one meter of its own has measured   *)
(* since its first reading never claim more bytes than it moved, whatever  *)
(* CollectCycle meets: counters that start over, queries that fail, a      *)
(* commit that fails, a restart, other devices that come to other meters.  *)
(* Which devices that is the code does not know: own follows who was where.*)
THEOREM NeverOverstated == Spec => []RatesNeverOverstate
<1>1. ASSUME IInv PROVE RatesNeverOverstate
  <2>. SUFFICES ASSUME NEW k \in own PROVE claimed[k] <= moved[k]
    BY DEF RatesNeverOverstate
  <2>1. claimed[k] \in Nat /\ pending[k] \in Nat /\ base[k] \in Nat /\ moved[k] \in Nat /\ Bounded(k)
    BY <1>1 DEF IInv, TypeOK, ClaimsBounded
  <2>2. QED
    BY <2>1 DEF Bounded
<1>2. IInv => RatesNeverOverstate
  BY <1>1
<1>3. QED
  BY <1>2, Invariance, PTL

(* And while its counter does not start over, no commit of its samples     *)
(* fails and the server runs, they account for every byte between its      *)
(* first reading and its last, whichever queries fail.                     *)
THEOREM NothingGoesMissing == Spec => []RatesAddUp
<1>1. ASSUME IInv PROVE RatesAddUp
  <2>. SUFFICES ASSUME NEW k \in calm, prev[k].when # "never"
                PROVE  claimed[k] + pending[k] = base[k] - start[k]
    BY DEF RatesAddUp
  <2>1. k \in Key /\ Settled(k)
    BY <1>1 DEF IInv, TypeOK, NothingLost
  <2>2. claimed[k] \in Nat /\ pending[k] \in Nat /\ base[k] \in Nat /\ start[k] \in Nat
    BY <1>1, <2>1 DEF IInv, TypeOK
  <2>3. QED
    BY <2>1, <2>2 DEF Settled
<1>2. IInv => RatesAddUp
  BY <1>1
<1>3. QED
  BY <1>2, Invariance, PTL
=============================================================================

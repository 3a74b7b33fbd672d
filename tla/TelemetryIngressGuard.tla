------------------------- MODULE TelemetryIngressGuard -------------------------
(***************************************************************************)
(* The guard every device:telemetry message passes first.  It remembers    *)
(* the keys it has seen and the times of what it accepted, of each device  *)
(* and of all, and forgets what is too old at the start of each call.      *)
(* A message it refuses is dropped; one it accepts goes on to be stored.   *)
(* The clock is Date.now(), taken never to go back within a server run.    *)
(***************************************************************************)
EXTENDS Integers, Sequences, FiniteSets

CONSTANTS
  Devices,        \* device ids, each a sequence of the pieces ":" may join
  Ids,            \* messageId, sequence or seq of a message, likewise
  NoId,           \* the message has none, or a blank one
  DedupeWindow,   \* dedupeWindowMs
  Minute,         \* 60 000 ms
  MaxPerDevice,   \* maxPerDevicePerMinute
  MaxGlobal,      \* maxGlobalPerMinute
  MaxTime         \* bound of the model: the last time of a message

ASSUME GuardAssumption ==
  /\ NoId \notin Ids
  /\ DedupeWindow \in Nat \ {0} /\ Minute \in Nat \ {0}
  /\ MaxPerDevice \in Nat \ {0} /\ MaxGlobal \in Nat \ {0}
  /\ MaxTime \in Nat

VARIABLES
  now,
  seenKeys,           \* event key -> time it was accepted
  deviceTimestamps,   \* device -> times of its accepted messages, oldest first
  globalTimestamps,
  decision,           \* what the last call returned
  \* History variables: the times of every message accepted in this server run.
  global, byDevice, byId

history == <<global, byDevice, byId>>
vars == <<now, seenKeys, deviceTimestamps, globalTimestamps, decision, history>>

-----------------------------------------------------------------------------
(* Keys.                                                                   *)

\* extractEventKey: `${deviceId}:${normalized}`.
EventKey(d, id) == d \o <<":">> \o id

Keys == {EventKey(d, id) : d \in Devices, id \in Ids}

-----------------------------------------------------------------------------
(* What prune leaves.                                                      *)

\* Mutant: a message a minute old is forgotten.
ExpiredAtAMinute(t) == t <= now - Minute

Expired(t) == t < now - Minute

\* The loop that shifts off the head while it is too old.
Recent(s) == SubSeq(s, 1 + Cardinality({i \in DOMAIN s : \A j \in 1..i : Expired(s[j])}), Len(s))

RecentDevices ==
  [d \in {e \in DOMAIN deviceTimestamps : Recent(deviceTimestamps[e]) # <<>>} |->
     Recent(deviceTimestamps[d])]

\* Mutant: keys are never forgotten.
AllKeys == seenKeys

RecentKeys == [k \in {j \in DOMAIN seenKeys : seenKeys[j] >= now - DedupeWindow} |-> seenKeys[k]]

-----------------------------------------------------------------------------
(* evaluate.                                                               *)

TimesOf(d) == IF d \in DOMAIN RecentDevices THEN RecentDevices[d] ELSE <<>>

Duplicate(d, id) ==
  /\ id # NoId
  /\ EventKey(d, id) \in DOMAIN RecentKeys
  /\ now - RecentKeys[EventKey(d, id)] <= DedupeWindow

\* Mutant: the list as it was before the call pruned it.
DeviceWasFull(d) == d \in DOMAIN deviceTimestamps /\ Len(deviceTimestamps[d]) >= MaxPerDevice

DeviceFull(d) == Len(TimesOf(d)) >= MaxPerDevice

GlobalFull == Len(Recent(globalTimestamps)) >= MaxGlobal

Refuse(reason) ==
  /\ decision' = reason
  /\ seenKeys' = RecentKeys
  /\ deviceTimestamps' = RecentDevices
  /\ globalTimestamps' = Recent(globalTimestamps)
  /\ UNCHANGED <<now, history>>

Accept(d, id) ==
  /\ decision' = "accepted"
  /\ seenKeys' = IF id = NoId THEN RecentKeys
                 ELSE [k \in DOMAIN RecentKeys \cup {EventKey(d, id)} |->
                         IF k = EventKey(d, id) THEN now ELSE RecentKeys[k]]
  /\ deviceTimestamps' = [e \in DOMAIN RecentDevices \cup {d} |->
                            IF e = d THEN Append(TimesOf(d), now) ELSE RecentDevices[e]]
  /\ globalTimestamps' = Append(Recent(globalTimestamps), now)
  /\ global'   = Append(global, now)
  /\ byDevice' = [byDevice EXCEPT ![d] = Append(@, now)]
  /\ byId'     = IF id = NoId THEN byId ELSE [byId EXCEPT ![<<d, id>>] = Append(@, now)]
  /\ UNCHANGED now

\* The disjuncts are in the order of the code's early returns.
Evaluate(d, id) ==
  \/ Duplicate(d, id) /\ Refuse("duplicate")
  \/ ~Duplicate(d, id) /\ DeviceFull(d) /\ Refuse("rate_limited_device")
  \/ ~Duplicate(d, id) /\ ~DeviceFull(d) /\ GlobalFull /\ Refuse("rate_limited_global")
  \/ ~Duplicate(d, id) /\ ~DeviceFull(d) /\ ~GlobalFull /\ Accept(d, id)

-----------------------------------------------------------------------------
Unused == [d \in Devices |-> <<>>]
UnusedIds == [x \in Devices \X Ids |-> <<>>]

Init ==
  /\ now = 0 /\ decision = "none"
  /\ seenKeys = <<>> /\ deviceTimestamps = <<>> /\ globalTimestamps = <<>>
  /\ global = <<>> /\ byDevice = Unused /\ byId = UnusedIds

Tick ==
  /\ now < MaxTime /\ now' = now + 1
  /\ UNCHANGED <<seenKeys, deviceTimestamps, globalTimestamps, decision, history>>

\* The guard lives in the memory of one server run.
Restart ==
  /\ decision' = "none"
  /\ seenKeys' = <<>> /\ deviceTimestamps' = <<>> /\ globalTimestamps' = <<>>
  /\ global' = <<>> /\ byDevice' = Unused /\ byId' = UnusedIds
  /\ UNCHANGED now

Next == Tick \/ Restart \/ \E d \in Devices, id \in Ids \cup {NoId} : Evaluate(d, id)

Spec == Init /\ [][Next]_vars

-----------------------------------------------------------------------------
(* Properties.                                                             *)

Times == Seq(0..MaxTime)

\* The types of the guard's maps; a device with no recent message has no entry.
TypeOK ==
  /\ now \in 0..MaxTime
  /\ DOMAIN seenKeys \subseteq Keys /\ \A k \in DOMAIN seenKeys : seenKeys[k] \in 0..now
  /\ DOMAIN deviceTimestamps \subseteq Devices
  /\ \A d \in DOMAIN deviceTimestamps : deviceTimestamps[d] \in Times \ {<<>>}
  /\ globalTimestamps \in Times /\ global \in Times
  /\ byDevice \in [Devices -> Times] /\ byId \in [Devices \X Ids -> Times]

\* The refinement mapping: the policy's view of a server run is what the guard took in of it.
Policy == INSTANCE IngressPolicy
            WITH now <- now, global <- global, byDevice <- byDevice, byId <- byId, decision <- decision

\* No two messages share an event key unless they share device and id.
KeysDistinct ==
  \A d \in Devices, e \in Devices, i \in Ids, j \in Ids :
    EventKey(d, i) = EventKey(e, j) => d = e /\ i = j

\* evaluate answers every message as the policy does that forgets nothing:
\* what prune drops never changes an answer.
ImplementsPolicy == Policy!Spec

\* No minute of a server run takes in more than the two limits evaluate keeps.
RateKept == Policy!RateKept

\* Two accepted messages of a device with one id are further apart than the window.
OncePerWindow == Policy!OncePerWindow

\* When keys live no longer than timestamps do, evaluate keeps at most
\* maxGlobalPerMinute of each, whatever the devices send.
MemoryBounded ==
  /\ Len(globalTimestamps) <= MaxGlobal
  /\ \A d \in DOMAIN deviceTimestamps : Len(deviceTimestamps[d]) <= MaxPerDevice
  /\ DedupeWindow <= Minute => Cardinality(DOMAIN seenKeys) <= MaxGlobal
=============================================================================

----------------------------- MODULE IngressPolicy -----------------------------
(***************************************************************************)
(* What the ingress guard promises of the telemetry it lets through, said  *)
(* over everything a server run has accepted and with nothing forgotten:   *)
(* an id of a device is taken once per window, and no minute has more than *)
(* the allowed messages of a device, or of all devices together.           *)
(***************************************************************************)
EXTENDS Integers, Sequences

CONSTANTS
  Devices, Ids, NoId,
  DedupeWindow, Minute, MaxPerDevice, MaxGlobal,
  MaxTime

VARIABLES
  now,
  global,     \* the times of all accepted messages
  byDevice,   \* of those of each device
  byId,       \* of those of each id of each device
  decision    \* the last answer

vars == <<now, global, byDevice, byId, decision>>

\* The last n of the times s lie within the window w that ends now.
Full(s, n, w) == Len(s) >= n /\ now - s[Len(s) - n + 1] <= w

Answer(d, id) ==
  IF id # NoId /\ Full(byId[<<d, id>>], 1, DedupeWindow) THEN "duplicate"
  ELSE IF Full(byDevice[d], MaxPerDevice, Minute) THEN "rate_limited_device"
  ELSE IF Full(global, MaxGlobal, Minute) THEN "rate_limited_global"
  ELSE "accepted"

Unused == [d \in Devices |-> <<>>]
UnusedIds == [x \in Devices \X Ids |-> <<>>]

Init ==
  /\ now = 0 /\ decision = "none"
  /\ global = <<>> /\ byDevice = Unused /\ byId = UnusedIds

Tick == now < MaxTime /\ now' = now + 1 /\ UNCHANGED <<global, byDevice, byId, decision>>

Note(d, id) ==
  /\ global'   = Append(global, now)
  /\ byDevice' = [byDevice EXCEPT ![d] = Append(@, now)]
  /\ byId'     = IF id = NoId THEN byId ELSE [byId EXCEPT ![<<d, id>>] = Append(@, now)]

Receive(d, id) ==
  /\ decision' = Answer(d, id)
  /\ IF Answer(d, id) = "accepted" THEN Note(d, id) ELSE UNCHANGED <<global, byDevice, byId>>
  /\ UNCHANGED now

\* A server run ends and the next begins with nothing remembered.
Restart ==
  /\ decision' = "none"
  /\ global' = <<>> /\ byDevice' = Unused /\ byId' = UnusedIds
  /\ UNCHANGED now

Next == Tick \/ Restart \/ \E d \in Devices, id \in Ids \cup {NoId} : Receive(d, id)

Spec == Init /\ [][Next]_vars

-----------------------------------------------------------------------------
\* Any n + 1 of the times s span more than the window w.
Spread(s, n, w) == \A i \in DOMAIN s : i + n \in DOMAIN s => s[i + n] - s[i] > w

\* No minute of a server run has more accepted messages of one device than
\* maxPerDevicePerMinute, nor more in all than maxGlobalPerMinute.
RateKept ==
  /\ Spread(global, MaxGlobal, Minute)
  /\ \A d \in Devices : Spread(byDevice[d], MaxPerDevice, Minute)

\* Two accepted messages of a device with the same id are more than
\* dedupeWindowMs apart.
OncePerWindow == \A x \in Devices \X Ids : Spread(byId[x], 1, DedupeWindow)
=============================================================================

------------------------------- MODULE Reports -------------------------------
(***************************************************************************)
(* The reports of Traffic together with the devices they carry: alive IPs  *)
(* go to the panel with the traffic, over HTTP, and while the push channel *)
(* is connected also in device reports over it.  Both take them from       *)
(* Tracker.FlushAliveIPs (internal/tracker/tracker.go), which answers only *)
(* when they have changed since it was last asked, whoever asked, and      *)
(* answers with a buffer of its own that the next call writes over.        *)
(*                                                                         *)
(* The devices of all users are one set; a report carries the whole set.   *)
(***************************************************************************)
EXTENDS Traffic, Sequences

CONSTANTS Devices,    \* devices that can be connected
          WireCap,    \* room in writeCh, 16 in the code
          MaxMoves,   \* bound on changes of the connected devices
          MaxFlaps    \* bound on losses of the push channel

ASSUME ReportsAssumption == {WireCap, MaxMoves, MaxFlaps} \subseteq Nat

VARIABLES
    online,    \* devices that are connected to the kernel
    live,      \* Tracker.live's aliveIPs, of the last tick
    reported,  \* Tracker.lastAliveIPsHash, as the set it stands for
    buffer,    \* Tracker.aliveIPsBuf
    rest,      \* alive IPs of the report under way: carried (it holds the
               \* buffer), encoded (its own copy is made), devices (the copy)
    channel,   \* the push channel: connected, and the messages in writeCh
    known,     \* panel: the devices it was told last
    slipped,   \* history: the last thing that happened to what the tracker
               \* takes for reported was to be lost or overwritten by older news
    moves, flaps

deviceVars == <<online, live, reported, buffer, rest, channel, known, slipped, moves, flaps>>

allVars == <<vars, deviceVars>>

NoRest == [carried |-> FALSE, encoded |-> FALSE, devices |-> {}]

InitReports ==
    /\ Init
    /\ online = {} /\ live = {} /\ reported = {} /\ buffer = {}
    /\ rest = NoRest
    /\ channel = [connected |-> FALSE, wire |-> <<>>]
    /\ known = {} /\ slipped = FALSE
    /\ moves = 0 /\ flaps = 0

-----------------------------------------------------------------------------
\* Devices come and go.
Move ==
    /\ phase = "running" /\ up
    /\ moves < MaxMoves /\ moves' = moves + 1
    /\ online' \in SUBSET Devices \ {online}
    /\ UNCHANGED <<vars, live, reported, buffer, rest, channel, known, slipped, flaps>>

\* TrackTick, publishing the snapshot of the devices as well.
Track ==
    /\ TrackTick
    /\ live' = online
    /\ UNCHANGED <<online, reported, buffer, rest, channel, known, slipped, moves, flaps>>

\* A kernel that starts or stops loses its connections.
Restart ==
    /\ StartKernel \/ StopKernel
    /\ online' = {}
    /\ UNCHANGED <<live, reported, buffer, rest, channel, known, slipped, moves, flaps>>

Changed == live # reported

\* What FlushAliveIPs leaves behind.
Flush ==
    /\ reported' = live
    /\ buffer' = IF Changed THEN live ELSE buffer

\* pushReportAsync: the goroutine gets the buffer itself.
Push ==
    /\ PushTick
    /\ IF push'.stage = "sending"
       THEN Flush /\ rest' = [NoRest EXCEPT !.carried = Changed]
       ELSE UNCHANGED <<reported, buffer, rest>>
    /\ UNCHANGED <<online, live, channel, known, slipped, moves, flaps>>

\* The goroutine encodes what the buffer holds by now.
Encode ==
    /\ phase # "gone" /\ push.stage = "sending"
    /\ rest.carried /\ ~rest.encoded
    /\ rest' = [rest EXCEPT !.encoded = TRUE, !.devices = buffer]
    /\ UNCHANGED <<vars, online, live, reported, buffer, channel, known, slipped, moves, flaps>>

Told(devices) == known' = devices /\ slipped' = (devices # reported)

Lost == UNCHANGED known /\ slipped' = TRUE

\* The request leaves out alive IPs when there are none.
Deliver ==
    /\ rest.carried => rest.encoded
    /\ Report
    /\ IF ~rest.carried THEN UNCHANGED <<known, slipped>>
       ELSE IF faults' = faults \/ doubled' # doubled
       THEN IF rest.devices = {} THEN Lost ELSE Told(rest.devices)
       ELSE Lost
    /\ rest' = NoRest
    /\ UNCHANGED <<online, live, reported, buffer, channel, moves, flaps>>

\* RestoreAliveIPs adds to the buffer what it holds already; the hash stays.
GiveBack ==
    /\ Restore \/ Exit
    /\ UNCHANGED deviceVars

\* Mutant of DeviceTick: the channel need not be connected.
DeviceTick_Unconnected ==
    /\ phase = "running"
    /\ Changed
    /\ Flush
    /\ channel' = IF channel.connected THEN [channel EXCEPT !.wire = Append(@, live)] ELSE channel
    /\ UNCHANGED <<vars, online, live, rest, known, slipped, moves, flaps>>

\* What a report under way has encoded when the loop writes over the buffer at
\* that moment: before, after, or in between.
Torn == {[rest EXCEPT !.encoded = TRUE, !.devices = d] : d \in SUBSET (buffer \cup live)}

\* sendDeviceBatch: a full channel drops the report.  Writing the buffer while
\* the goroutine reads it is a data race: the goroutine may have read anything
\* in between, or the runtime ends the process.
DeviceTick ==
    /\ phase = "running"
    /\ channel.connected
    /\ Changed
    /\ Flush
    /\ IF Len(channel.wire) < WireCap
       THEN channel' = [channel EXCEPT !.wire = Append(@, live)] /\ UNCHANGED slipped
       ELSE slipped' = TRUE /\ UNCHANGED channel
    /\ LET racing == push.stage = "sending" /\ rest.carried /\ ~rest.encoded
       IN  \/ UNCHANGED <<rest, phase>>
           \/ racing /\ rest' \in Torn /\ UNCHANGED phase
           \/ racing /\ phase' = "gone" /\ UNCHANGED rest
    /\ UNCHANGED <<kernelVars, trackerVars, panelVars, push, backoff, final>>
    /\ UNCHANGED <<online, live, known, moves, flaps>>

WireDelivers ==
    /\ phase # "gone"
    /\ channel.wire # <<>>
    /\ channel' = [channel EXCEPT !.wire = Tail(@)]
    /\ Told(Head(channel.wire))
    /\ UNCHANGED <<vars, online, live, reported, buffer, rest, moves, flaps>>

Connect ==
    /\ phase = "running" /\ ~channel.connected
    /\ channel' = [connected |-> TRUE, wire |-> <<>>]
    /\ UNCHANGED <<vars, online, live, reported, buffer, rest, known, slipped, moves, flaps>>

\* What was not written yet is gone with the connection.
Disconnect ==
    /\ phase # "gone" /\ channel.connected
    /\ flaps < MaxFlaps /\ flaps' = flaps + 1
    /\ channel' = [connected |-> FALSE, wire |-> <<>>]
    /\ slipped' = (slipped \/ channel.wire # <<>>)
    /\ UNCHANGED <<vars, online, live, reported, buffer, rest, known, moves>>

\* Shutdown takes the devices along; its report is not modelled further.
End ==
    /\ Shutdown \/ FinalReport \/ ProcessExits
    /\ UNCHANGED deviceVars

ServeUser ==
    /\ \E u \in Users : Serve(u)
    /\ UNCHANGED deviceVars

NextReports ==
    \/ Move \/ Track \/ Restart \/ Push \/ Encode \/ Deliver \/ GiveBack
    \/ DeviceTick \/ WireDelivers \/ Connect \/ Disconnect \/ End \/ ServeUser

SpecReports == InitReports /\ [][NextReports]_allVars

\* The fairness of Traffic, for the goroutine's new step and for a message in
\* the channel.  Nothing makes the device ticker win against the report ticker.
FairReports ==
    /\ SpecReports
    /\ WF_allVars(Track) /\ WF_allVars(Push)
    /\ WF_allVars(Encode) /\ WF_allVars(Deliver) /\ WF_allVars(GiveBack)
    /\ WF_allVars(WireDelivers)

-----------------------------------------------------------------------------
(* Properties *)

\* While the service runs on with its kernel up, the panel comes to know the
\* devices that are connected, whichever of the two ways took them and however
\* the two overlapped, unless what the tracker takes for reported has slipped:
\* a report that failed, that was empty or was dropped, or one that arrived
\* after a newer one.  Nothing is sent again then until the devices change.
DevicesReported ==
    <>[](phase = "running" /\ up /\ ~slipped) => <>[](known = online)
=============================================================================

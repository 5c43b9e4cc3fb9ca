------------------------------ MODULE Telemetry ------------------------------
(***************************************************************************)
(* The way of a telemetry value from the drone into FrSkyTelemetryData:    *)
(* MainActivity.startWLANStream starts a UDPTelemetryReader, asks the      *)
(* drone to stop and then to start its streams (RestClient), and hands     *)
(* over to the video activity, all on the UI thread. The user may come     *)
(* back and start again in the same process, with the earlier readers      *)
(* still there.                                                            *)
(*                                                                         *)
(* The drone and the sockets are external. One value of the map is looked  *)
(* at; those of other identifiers do not touch it.                         *)
(***************************************************************************)
EXTENDS Integers

CONSTANTS
  MaxSessions,   \* bounds how often the user starts the stream
  Values,        \* of the telemetry looked at
  FirstValue,    \* what the map holds in the beginning
  Malformed,     \* a datagram setData cannot parse
  Nothing        \* where no datagram is

ASSUME TelemetryAssumption ==
  /\ MaxSessions \in Nat /\ Values \subseteq Int /\ FirstValue \in Values
  /\ Malformed \notin Values /\ Nothing \notin Values /\ Malformed # Nothing

Readers   == 1..MaxSessions
NoReader  == 0
Datagrams == Values \cup {Malformed}

VARIABLES
  session,      \* the number of times the stream was started
  ui,           \* what the UI thread does next
  reader,       \* what the reader thread of each session does next
  data,         \* the datagram a reader has received
  alive,        \* the process, for an exception nobody catches ends it
  value,        \* telemtryDataMap at the identifier looked at
  streaming,    \* drone: is sending
  lateStop,     \* some stop request failed and may reach the drone at any time
  current,      \* drone: what it measures
  socket, inbox \* who has the port; the datagram waiting there

drone    == <<streaming, lateStop, current>>
port     == <<socket, inbox>>
telemetryVars == <<session, ui, reader, data, alive, value, drone, port>>

Init ==
  /\ session = 0 /\ ui = "menu"
  /\ reader = [r \in Readers |-> "none"] /\ data = [r \in Readers |-> Nothing]
  /\ alive = TRUE /\ value = FirstValue
  /\ streaming \in BOOLEAN /\ lateStop = FALSE /\ current \in Values
  /\ socket = NoReader /\ inbox = Nothing

-----------------------------------------------------------------------------
(***************************************************************************)
(* startWLANStream. A request that fails is printed, no more; it may have  *)
(* reached the drone all the same, and a stop may do so later. Nor is the  *)
(* status of an answer looked at, which may be an error.                   *)
(***************************************************************************)
onStartStreamClick ==
  /\ alive /\ ui = "menu" /\ session < MaxSessions
  /\ session' = session + 1 /\ ui' = "stop"
  /\ reader' = [reader EXCEPT ![session'] = "bind"]
  /\ UNCHANGED <<data, alive, value, drone, port>>

stopStream ==
  /\ alive /\ ui = "stop" /\ ui' = "start"
  /\ \/ streaming' = FALSE /\ UNCHANGED lateStop
     \/ lateStop' \in {lateStop, TRUE} /\ UNCHANGED streaming
  /\ UNCHANGED <<session, reader, data, alive, value, current, port>>

startStream ==
  /\ alive /\ ui = "start" /\ ui' = "video"
  /\ streaming' \in {streaming, TRUE}
  /\ UNCHANGED <<session, reader, data, alive, value, lateStop, current, port>>

-----------------------------------------------------------------------------
(***************************************************************************)
(* UDPTelemetryReader.run. The port may be taken by the reader of an       *)
(* earlier session, or the address not be there. The socket is not closed  *)
(* when the thread ends; the garbage collector may do so.                  *)
(***************************************************************************)
Bind(r) ==
  /\ alive /\ reader[r] = "bind" /\ socket = NoReader
  /\ socket' = r /\ inbox' = Nothing /\ reader' = [reader EXCEPT ![r] = "receive"]
  /\ UNCHANGED <<session, ui, data, alive, value, drone>>

connectionFailure(r) ==
  /\ alive /\ reader[r] \in {"bind", "receive"}
  /\ reader' = [reader EXCEPT ![r] = "ended"]
  /\ UNCHANGED <<session, ui, data, alive, value, drone, port>>

Receive(r) ==
  /\ alive /\ reader[r] = "receive" /\ inbox # Nothing
  /\ data' = [data EXCEPT ![r] = inbox] /\ inbox' = Nothing
  /\ reader' = [reader EXCEPT ![r] = "setData"]
  /\ UNCHANGED <<session, ui, alive, value, drone, socket>>

\* Plausible slip: whatever comes is stored.
Anything(d) == TRUE
Parsable(d) == d # Malformed

setData(r) ==
  /\ alive /\ reader[r] = "setData" /\ Parsable(data[r])
  /\ value' = data[r] /\ data' = [data EXCEPT ![r] = Nothing]
  /\ reader' = [reader EXCEPT ![r] = "receive"]
  /\ UNCHANGED <<session, ui, alive, drone, port>>

\* No ':' or no number: the exception is of a kind run does not catch, and the
\* port goes with the process.
Crash(r) ==
  /\ alive /\ reader[r] = "setData" /\ ~Parsable(data[r])
  /\ alive' = FALSE /\ socket' = NoReader /\ inbox' = Nothing
  /\ UNCHANGED <<session, ui, reader, data, value, drone>>

run(r) == Bind(r) \/ connectionFailure(r) \/ Receive(r) \/ setData(r) \/ Crash(r)

CollectSocket ==
  /\ alive /\ socket # NoReader /\ reader[socket] = "ended"
  /\ socket' = NoReader /\ inbox' = Nothing
  /\ UNCHANGED <<session, ui, reader, data, alive, value, drone>>

-----------------------------------------------------------------------------
(***************************************************************************)
(* The drone. What it sends is lost unless the port is open and has room.  *)
(***************************************************************************)
Send ==
  /\ streaming /\ socket # NoReader /\ inbox = Nothing
  /\ inbox' = current
  /\ UNCHANGED <<session, ui, reader, data, alive, value, drone, socket>>

SendMalformed ==
  /\ streaming /\ socket # NoReader /\ inbox = Nothing
  /\ inbox' = Malformed
  /\ UNCHANGED <<session, ui, reader, data, alive, value, drone, socket>>

Measure ==
  /\ \E v \in Values : current' = v
  /\ UNCHANGED <<session, ui, reader, data, alive, value, streaming, lateStop, port>>

StopLate ==
  /\ lateStop /\ streaming' = FALSE
  /\ UNCHANGED <<session, ui, reader, data, alive, value, lateStop, current, port>>

Drone == Send \/ SendMalformed \/ Measure \/ StopLate

TelemetryTypeOK ==
  /\ session \in 0..MaxSessions /\ ui \in {"menu", "stop", "start", "video", "view", "playing"}
  /\ reader \in [Readers -> {"none", "bind", "receive", "setData", "ended"}]
  /\ data \in [Readers -> Datagrams \cup {Nothing}]
  /\ alive \in BOOLEAN /\ value \in Values
  /\ streaming \in BOOLEAN /\ lateStop \in BOOLEAN /\ current \in Values
  /\ socket \in {NoReader} \cup Readers /\ inbox \in Datagrams \cup {Nothing}
=============================================================================

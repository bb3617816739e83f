-------------------------- MODULE RelayConnections --------------------------
(***************************************************************************)
(* The relay's sockets (relay/src/server.ts, connections.ts,               *)
(* socket-admissions.ts, connection-liveness.ts): how one is admitted,     *)
(* says hello, becomes the one holder of its device or is turned away, is  *)
(* replaced by a newer one, falls silent, and closes; and what the other   *)
(* devices of the account are told about it.                               *)
(*                                                                         *)
(* Two gaps are where things interleave: handleHello awaits the licence    *)
(* gate, and ws.close() is not yet the close callback.  What a hello       *)
(* proves (signature, clock, nonce, licence) is one verdict; the device    *)
(* gives its account, its type and its key.  Close reasons are left out.   *)
(***************************************************************************)
EXTENDS Naturals, FiniteSets

CONSTANTS
  Socket,       \* connection ids: each is opened once
  Device,       \* device ids, an app's per-machine slots included
  Agent,        \* the devices that are agents
  UidOf,        \* the account of each device
  AccountOf,    \* the account device a slot belongs to; itself for the others
  Ip, None,
  PerIp,        \* the limit of sockets per address
  Global,       \* the limit of sockets
  MaxEpoch,     \* bound: epochs a client may claim
  MaxTs         \* bound: timestamps of hellos

ASSUME ConnectionsAssumption ==
  /\ Agent \subseteq Device
  /\ DOMAIN UidOf = Device
  /\ AccountOf \in [Device -> Device]
  /\ None \notin Socket \cup Device \cup Ip
  /\ {PerIp, Global} \subseteq Nat \ {0}
  /\ {MaxEpoch, MaxTs} \subseteq Nat

VARIABLES
  ready,         \* readyState: "none", "open", "closing" or "closed"
  phase,         \* ws.data.phase
  hello,         \* the hello of a socket: device, epoch, ts; None before
  timers,        \* helloTimers
  reservations,  \* SocketAdmissions: sockets with their address
  byIp,          \* SocketAdmissions: sockets per address
  byConnection,  \* Connections: the sockets with an entry
  byDevice,      \* Connections: the holder of each device, or None
  byUid,         \* Connections: the sockets of each account
  liveness,      \* sockets tracked: "none", "fresh", or "late" past the window
  view           \* history: the agents each socket has been told are online

tables == <<byConnection, byDevice, byUid>>
vars == <<ready, phase, hello, timers, reservations, byIp, tables, liveness, view>>

-----------------------------------------------------------------------------
Uid == {UidOf[d] : d \in Device}
DeviceOf(s) == hello[s].device
UidOfSocket(s) == UidOf[DeviceOf(s)]

(* Connections.remove and insert, on the three maps as one value.           *)
Tables == [connections |-> byConnection, devices |-> byDevice, uids |-> byUid]

Without(t, s) ==
  [connections |-> t.connections \ {s},
   devices |-> [t.devices EXCEPT ![DeviceOf(s)] = IF @ = s THEN None ELSE @],
   uids |-> [t.uids EXCEPT ![UidOfSocket(s)] = @ \ {s}]]

With(t, s) ==
  [connections |-> t.connections \cup {s},
   devices |-> [t.devices EXCEPT ![DeviceOf(s)] = s],
   uids |-> [t.uids EXCEPT ![UidOfSocket(s)] = @ \cup {s}]]

Becomes(t) ==
  /\ byConnection' = t.connections
  /\ byDevice' = t.devices
  /\ byUid' = t.uids

(* sameAccountPeers: live sockets of the account, without s's own device.   *)
Peers(t, s) ==
  {p \in t.uids[UidOfSocket(s)] : ready[p] = "open" /\ DeviceOf(p) # DeviceOf(s)}

(* ws.close(): from here to the close callback the socket is closing.       *)
Closing(S) == ready' = [s \in Socket |-> IF s \in S /\ ready[s] = "open" THEN "closing" ELSE ready[s]]

(* sendErrorAndClose: the phase is closed at once, before the callback.     *)
SendErrorAndClose(s) ==
  /\ Closing({s})
  /\ phase' = [phase EXCEPT ![s] = "closed"]

-----------------------------------------------------------------------------
(* The upgrade of a request, with open(): a slot is reserved and the hello  *)
(* timer armed.  A request over a limit is answered and leaves nothing.     *)
Upgrade(s, ip) ==
  /\ ready[s] = "none"
  /\ byIp[ip] < PerIp
  /\ Cardinality({r \in Socket : reservations[r] # None}) < Global
  /\ reservations' = [reservations EXCEPT ![s] = ip]
  /\ byIp' = [byIp EXCEPT ![ip] = @ + 1]
  /\ ready' = [ready EXCEPT ![s] = "open"]
  /\ phase' = [phase EXCEPT ![s] = "awaiting-hello"]
  /\ timers' = timers \cup {s}
  /\ UNCHANGED <<hello, tables, liveness, view>>

(* The first frame: a hello that awaits its verdict.                        *)
Hello(s, device, epoch, ts) ==
  /\ ready[s] = "open"
  /\ phase[s] = "awaiting-hello"
  /\ phase' = [phase EXCEPT ![s] = "authenticating"]
  /\ hello' = [hello EXCEPT ![s] = [device |-> device, epoch |-> epoch, ts |-> ts]]
  /\ UNCHANGED <<ready, timers, reservations, byIp, tables, liveness, view>>

(* Mutant of StillWaiting: nothing is looked at after the gate.             *)
StillWhatever(s) == TRUE

(* The check after the await.                                               *)
StillWaiting(s) == phase[s] = "authenticating" /\ ready[s] = "open"

(* Epoch arbitration: not an older frame, nor an older process.             *)
Outranks(s, holder) ==
  /\ hello[s].ts >= hello[holder].ts
  /\ hello[s].epoch >= hello[holder].epoch

(* What s and its peers are told when s is admitted to the tables t.        *)
Announced(t, s) ==
  [p \in Socket |->
     IF p = s THEN {DeviceOf(a) : a \in {q \in Peers(t, s) : DeviceOf(q) \in Agent}}
     ELSE IF p \in Peers(t, s) /\ DeviceOf(s) \in Agent THEN view[p] \cup {DeviceOf(s)}
     ELSE view[p]]

(* The rest of handleHello: refused (by its clock, signature, nonce, key   *)
(* or licence), too late, outranked, or admitted in the holder's place.    *)
GateRefuses(s) ==
  /\ phase[s] = "authenticating"
  /\ ready[s] = "open"
  /\ SendErrorAndClose(s)
  /\ UNCHANGED <<hello, timers, reservations, byIp, tables, liveness, view>>

HelloOutranked(s) ==
  /\ hello[s] # None
  /\ StillWaiting(s)
  /\ byDevice[DeviceOf(s)] # None
  /\ ~Outranks(s, byDevice[DeviceOf(s)])
  /\ SendErrorAndClose(s)
  /\ UNCHANGED <<hello, timers, reservations, byIp, tables, liveness, view>>

HelloAdmitted(s) ==
  LET holder == byDevice[DeviceOf(s)]
      left == IF holder = None THEN Tables ELSE Without(Tables, holder)
      now == With(left, s)
  IN  /\ hello[s] # None
      /\ phase[s] # "ready"
      /\ StillWaiting(s)
      /\ holder # None => Outranks(s, holder)
      /\ Becomes(now)
      /\ Closing({holder})
      /\ liveness' = [x \in Socket |-> IF x = s THEN "fresh"
                                       ELSE IF x = holder THEN "none" ELSE liveness[x]]
      /\ phase' = [x \in Socket |-> IF x = s THEN "ready"
                                    ELSE IF x = holder THEN "closed" ELSE phase[x]]
      /\ timers' = timers \ {s}
      /\ view' = Announced(now, s)
      /\ UNCHANGED <<hello, reservations, byIp>>

(* A second frame during the gate, a binary frame, a second hello.          *)
Misuse(s) ==
  /\ ready[s] = "open"
  /\ phase[s] \in {"authenticating", "ready", "awaiting-hello"}
  /\ SendErrorAndClose(s)
  /\ UNCHANGED <<hello, timers, reservations, byIp, tables, liveness, view>>

HelloTimeout(s) ==
  /\ s \in timers
  /\ timers' = timers \ {s}
  /\ IF phase[s] \in {"awaiting-hello", "authenticating"} THEN SendErrorAndClose(s)
     ELSE UNCHANGED <<ready, phase>>
  /\ UNCHANGED <<hello, reservations, byIp, tables, liveness, view>>

-----------------------------------------------------------------------------
(* A connection that is up.                                                 *)

(* The protocol's pong, or the application's ping.                          *)
Heard(s) ==
  /\ ready[s] = "open"
  /\ s \in byConnection
  /\ liveness[s] = "late"
  /\ liveness' = [liveness EXCEPT ![s] = "fresh"]
  /\ UNCHANGED <<ready, phase, hello, timers, reservations, byIp, tables, view>>

(* The window passes with nothing heard.                                    *)
Quiet(s) ==
  /\ liveness[s] = "fresh"
  /\ liveness' = [liveness EXCEPT ![s] = "late"]
  /\ UNCHANGED <<ready, phase, hello, timers, reservations, byIp, tables, view>>

(* pingInterval: every connection past its window is closed.                *)
PingInterval ==
  /\ \E s \in byConnection : liveness[s] = "late" /\ ready[s] = "open"
  /\ Closing({s \in byConnection : liveness[s] = "late"})
  /\ UNCHANGED <<phase, hello, timers, reservations, byIp, tables, liveness, view>>

(* handleRevoke: every slot of the account device.                          *)
Revoke(device) ==
  /\ \E d \in Device : AccountOf[d] = device /\ byDevice[d] # None
  /\ Closing({byDevice[d] : d \in {e \in Device : AccountOf[e] = device}})
  /\ UNCHANGED <<phase, hello, timers, reservations, byIp, tables, liveness, view>>

(* handleExpire: every connection of the account.                           *)
Expire(uid) ==
  /\ byUid[uid] # {}
  /\ Closing(byUid[uid])
  /\ UNCHANGED <<phase, hello, timers, reservations, byIp, tables, liveness, view>>

-----------------------------------------------------------------------------
(* Mutant of EntryOf: the entry is looked up by the socket's device.        *)
EntryOfDevice(s) == IF hello[s] = None THEN None ELSE byDevice[DeviceOf(s)]

(* getByConnectionId: a superseded socket has no entry any more.            *)
EntryOf(s) == IF s \in byConnection THEN s ELSE None

(* Mutant of Departed: the peers hear of a departure whatever took over.    *)
DepartedByDevice(s) ==
  IF hello[s] # None /\ DeviceOf(s) \in Agent
  THEN [p \in Socket |-> IF p # s /\ hello[p] # None THEN view[p] \ {DeviceOf(s)} ELSE view[p]]
  ELSE view

(* fanOutAgentPresence of peer-offline, for a socket that had an entry.     *)
Departed(s) ==
  IF EntryOf(s) # None /\ DeviceOf(s) \in Agent
  THEN [p \in Socket |-> IF p \in Peers(Without(Tables, EntryOf(s)), s)
                         THEN view[p] \ {DeviceOf(s)} ELSE view[p]]
  ELSE view

(* Mutant of Released: a socket that lost its entry keeps its slot.         *)
ReleasedWithEntry(s) ==
  IF hello[s] # None /\ s \notin byConnection THEN byIp
  ELSE [byIp EXCEPT ![reservations[s]] = @ - 1]

(* SocketAdmissions.release.                                                *)
Released(s) == [byIp EXCEPT ![reservations[s]] = @ - 1]

(* The close callback, after close() or because the client went away.       *)
Close(s) ==
  /\ ready[s] \in {"open", "closing"}
  /\ ready' = [ready EXCEPT ![s] = "closed"]
  /\ phase' = [phase EXCEPT ![s] = "closed"]
  /\ reservations' = [reservations EXCEPT ![s] = None]
  /\ byIp' = Released(s)
  /\ timers' = timers \ {s}
  /\ IF EntryOf(s) = None THEN UNCHANGED <<tables, liveness>>
     ELSE /\ Becomes(Without(Tables, EntryOf(s)))
          /\ liveness' = [liveness EXCEPT ![EntryOf(s)] = "none"]
  /\ view' = Departed(s)
  /\ UNCHANGED hello

-----------------------------------------------------------------------------
Init ==
  /\ ready = [s \in Socket |-> "none"]
  /\ phase = [s \in Socket |-> "none"]
  /\ hello = [s \in Socket |-> None]
  /\ timers = {}
  /\ reservations = [s \in Socket |-> None]
  /\ byIp = [ip \in Ip |-> 0]
  /\ byConnection = {}
  /\ byDevice = [d \in Device |-> None]
  /\ byUid = [u \in Uid |-> {}]
  /\ liveness = [s \in Socket |-> "none"]
  /\ view = [s \in Socket |-> {}]

Next ==
  \/ \E s \in Socket :
       \/ \E ip \in Ip : Upgrade(s, ip)
       \/ \E d \in Device, e \in 1..MaxEpoch, t \in 1..MaxTs : Hello(s, d, e, t)
       \/ GateRefuses(s)
       \/ HelloOutranked(s)
       \/ HelloAdmitted(s)
       \/ Misuse(s)
       \/ HelloTimeout(s)
       \/ Heard(s)
       \/ Quiet(s)
       \/ Close(s)
  \/ PingInterval
  \/ \E d \in Device : Revoke(d)
  \/ \E u \in Uid : Expire(u)

Spec == Init /\ [][Next]_vars

-----------------------------------------------------------------------------
(* Properties.                                                              *)

TypeOK ==
  /\ ready \in [Socket -> {"none", "open", "closing", "closed"}]
  /\ phase \in [Socket -> {"none", "awaiting-hello", "authenticating", "ready", "closed"}]
  /\ hello \in [Socket -> {None} \cup [device : Device, epoch : Nat, ts : Nat]]
  /\ timers \subseteq Socket
  /\ reservations \in [Socket -> Ip \cup {None}]
  /\ byIp \in [Ip -> Nat]
  /\ byConnection \subseteq Socket
  /\ byDevice \in [Device -> Socket \cup {None}]
  /\ byUid \in [Uid -> SUBSET Socket]
  /\ liveness \in [Socket -> {"none", "fresh", "late"}]
  /\ view \in [Socket -> SUBSET Device]

(* Connections: the three maps hold the same connections, each device has  *)
(* one holder, and an entry is a socket past hello whose close callback    *)
(* has not run; no socket past hello and open is without its entry.        *)
OneHolder ==
  /\ \A s \in byConnection :
       /\ ready[s] \in {"open", "closing"}
       /\ phase[s] = "ready" \/ ready[s] = "closing"
       /\ hello[s] # None
       /\ byDevice[DeviceOf(s)] = s
       /\ s \in byUid[UidOfSocket(s)]
  /\ \A d \in Device : byDevice[d] # None => byDevice[d] \in byConnection
  /\ \A u \in Uid : byUid[u] \subseteq byConnection
  /\ \A s \in Socket : ready[s] = "open" /\ phase[s] = "ready" => s \in byConnection

(* SocketAdmissions: a slot is held by every socket that is not closed and *)
(* by no other, through superseding, timeouts and late closes, and the     *)
(* counts per address are those of the slots.                              *)
SlotsAreSockets ==
  /\ \A s \in Socket : reservations[s] # None <=> ready[s] \in {"open", "closing"}
  /\ \A ip \in Ip : byIp[ip] = Cardinality({s \in Socket : reservations[s] = ip})

(* The live agents of the account of s, other than s itself.                *)
LiveAgents(s, states) ==
  {d \in Agent : /\ d # DeviceOf(s)
                 /\ UidOf[d] = UidOfSocket(s)
                 /\ byDevice[d] # None
                 /\ ready[byDevice[d]] \in states}

(* fanOutAgentPresence: a connection has been told of every agent of its   *)
(* account that is up, and of none that has gone, whichever of two sockets *)
(* of a device closed first.                                               *)
PresenceAgrees ==
  \A s \in byConnection :
    ready[s] = "open" =>
      /\ LiveAgents(s, {"open"}) \subseteq view[s]
      /\ view[s] \subseteq LiveAgents(s, {"open", "closing"})

(* helloTimers and liveness: a socket that has not said a valid hello has  *)
(* a timer running that will close it, a connection is tracked for the     *)
(* ping interval to close, and neither outlives its socket.                *)
SilentIsWatched ==
  \A s \in Socket :
    /\ ready[s] = "open" /\ phase[s] # "ready" => s \in timers
    /\ liveness[s] # "none" <=> s \in byConnection
    /\ ready[s] = "closed" => s \notin timers /\ s \notin byConnection
=============================================================================

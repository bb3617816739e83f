------------------------ MODULE RelayConnectionsProofs ------------------------
(***************************************************************************)
(* That the relay's three maps agree, that every silent socket is watched, *)
(* that a slot is held by the sockets that are up and by no other, and     *)
(* that presence agrees with the maps, for any sockets, devices, accounts  *)
(* and limits.  OneHolder is not inductive by itself: a holder that is     *)
(* taken out of the maps must be looked for under its own device and       *)
(* account, which is what FiledUnderItsOwn adds, and a socket that is open *)
(* is in one of the phases a message or a timer acts on.                   *)
(***************************************************************************)
EXTENDS RelayConnections, FiniteSetTheorems, TLAPS

(* A socket filed in an index has the device and the account of its place.  *)
FiledUnderItsOwn ==
  /\ \A d \in Device : byDevice[d] # None => DeviceOf(byDevice[d]) = d
  /\ \A u \in Uid : \A s \in byUid[u] : UidOfSocket(s) = u

(* An open socket is in a phase that a message or a timer acts on, and one *)
(* not yet opened has no timer.                                            *)
PhaseOfReady ==
  \A s \in Socket :
    /\ ready[s] = "open" => phase[s] \in {"awaiting-hello", "authenticating", "ready"}
    /\ ready[s] = "none" => s \notin timers

(* The slots of an address are finitely many, so that they can be counted.  *)
SlotsOf(ip) == {s \in Socket : reservations[s] = ip}
FiniteSlots == \A ip \in Ip : IsFiniteSet(SlotsOf(ip))

IInv ==
  /\ TypeOK
  /\ OneHolder
  /\ FiledUnderItsOwn
  /\ PhaseOfReady
  /\ SilentIsWatched
  /\ SlotsAreSockets
  /\ FiniteSlots

-----------------------------------------------------------------------------
(* A socket that has said hello has a device and an account.                *)
LEMMA HelloTyped ==
  ASSUME TypeOK, NEW s \in Socket, hello[s] # None
  PROVE  /\ hello[s] \in [device : Device, epoch : Nat, ts : Nat]
         /\ DeviceOf(s) \in Device
         /\ UidOfSocket(s) \in Uid
<1>1. hello[s] \in [device : Device, epoch : Nat, ts : Nat]
  BY DEF TypeOK
<1>2. DeviceOf(s) \in Device
  BY <1>1 DEF DeviceOf
<1>. QED
  BY <1>1, <1>2 DEF UidOfSocket, Uid

-----------------------------------------------------------------------------
(* The slots.                                                               *)

(* Slots are as they were where nothing opens and nothing has closed.       *)
LEMMA SlotsStay ==
  ASSUME IInv, UNCHANGED <<reservations, byIp>>,
         \A s \in Socket : ready'[s] \in {"open", "closing"} <=> ready[s] \in {"open", "closing"}
  PROVE  SlotsAreSockets' /\ FiniteSlots'
<1>1. \A ip \in Ip : SlotsOf(ip)' = SlotsOf(ip)
  BY DEF SlotsOf
<1>2. FiniteSlots'
  BY <1>1 DEF IInv, FiniteSlots
<1>3. SlotsAreSockets'
  BY DEF IInv, SlotsAreSockets
<1>. QED
  BY <1>2, <1>3

(* SocketAdmissions.reserve: one more slot at its address.                  *)
LEMMA SlotTaken ==
  ASSUME IInv, NEW s \in Socket, NEW ip \in Ip, Upgrade(s, ip)
  PROVE  SlotsAreSockets' /\ FiniteSlots'
<1>1. s \notin SlotsOf(ip) /\ reservations[s] = None
  <2>1. reservations[s] = None
    BY DEF IInv, SlotsAreSockets, Upgrade
  <2>. QED
    BY <2>1, ConnectionsAssumption DEF SlotsOf
<1>2. SlotsOf(ip)' = SlotsOf(ip) \cup {s}
  BY DEF IInv, TypeOK, SlotsOf, Upgrade
<1>3. \A i \in Ip \ {ip} : SlotsOf(i)' = SlotsOf(i)
  BY <1>1, ConnectionsAssumption DEF IInv, TypeOK, SlotsOf, Upgrade
<1>4. IsFiniteSet(SlotsOf(ip))
  BY DEF IInv, FiniteSlots
<1>5. IsFiniteSet(SlotsOf(ip)') /\ Cardinality(SlotsOf(ip)') = Cardinality(SlotsOf(ip)) + 1
  BY <1>1, <1>2, <1>4, FS_AddElement
<1>6. FiniteSlots'
  BY <1>3, <1>5 DEF IInv, FiniteSlots
<1>7. \A i \in Ip : byIp'[i] = Cardinality(SlotsOf(i)')
  <2>1. \A i \in Ip : byIp[i] = Cardinality(SlotsOf(i))
    BY DEF IInv, SlotsAreSockets, SlotsOf
  <2>2. byIp'[ip] = byIp[ip] + 1 /\ \A i \in Ip \ {ip} : byIp'[i] = byIp[i]
    BY DEF IInv, TypeOK, Upgrade
  <2>. QED
    BY <1>3, <1>5, <2>1, <2>2
<1>8. \A x \in Socket : reservations'[x] # None <=> ready'[x] \in {"open", "closing"}
  BY ConnectionsAssumption DEF IInv, TypeOK, SlotsAreSockets, Upgrade
<1>. QED
  BY <1>6, <1>7, <1>8 DEF SlotsAreSockets, SlotsOf

(* SocketAdmissions.release: the socket had a slot, and it is gone.         *)
LEMMA SlotFreed ==
  ASSUME IInv, NEW s \in Socket, Close(s)
  PROVE  /\ SlotsAreSockets' /\ FiniteSlots'
         /\ byIp' \in [Ip -> Nat]
         /\ reservations' \in [Socket -> Ip \cup {None}]
<1>. PICK ip \in Ip : reservations[s] = ip
  BY DEF IInv, TypeOK, SlotsAreSockets, Close
<1>1. s \in SlotsOf(ip)
  BY DEF SlotsOf
<1>2. SlotsOf(ip)' = SlotsOf(ip) \ {s}
  BY <1>1, ConnectionsAssumption DEF IInv, TypeOK, SlotsOf, Close
<1>3. \A i \in Ip \ {ip} : SlotsOf(i)' = SlotsOf(i)
  BY ConnectionsAssumption DEF IInv, TypeOK, SlotsOf, Close
<1>4. IsFiniteSet(SlotsOf(ip))
  BY <1>1 DEF IInv, FiniteSlots
<1>5. IsFiniteSet(SlotsOf(ip)') /\ Cardinality(SlotsOf(ip)') = Cardinality(SlotsOf(ip)) - 1
  BY <1>1, <1>2, <1>4, FS_RemoveElement
<1>6. FiniteSlots'
  BY <1>3, <1>5 DEF IInv, FiniteSlots
<1>7. \A i \in Ip : byIp'[i] = Cardinality(SlotsOf(i)')
  <2>1. \A i \in Ip : byIp[i] = Cardinality(SlotsOf(i))
    BY DEF IInv, SlotsAreSockets, SlotsOf
  <2>2. byIp'[ip] = byIp[ip] - 1 /\ \A i \in Ip \ {ip} : byIp'[i] = byIp[i]
    BY <1>1 DEF IInv, TypeOK, Close, Released
  <2>. QED
    BY <1>3, <1>5, <2>1, <2>2
<1>8. \A x \in Socket : reservations'[x] # None <=> ready'[x] \in {"open", "closing"}
  BY ConnectionsAssumption DEF IInv, TypeOK, SlotsAreSockets, Close
<1>9. byIp' \in [Ip -> Nat]
  <2>1. \A i \in Ip : byIp'[i] \in Nat
    BY <1>6, <1>7, FS_CardinalityType DEF FiniteSlots
  <2>2. DOMAIN byIp' = Ip /\ byIp' = [i \in Ip |-> byIp'[i]]
    BY DEF IInv, TypeOK, Close, Released
  <2>. QED
    BY <2>1, <2>2
<1>10. reservations' \in [Socket -> Ip \cup {None}]
  BY DEF IInv, TypeOK, Close
<1>. QED
  BY <1>6, <1>7, <1>8, <1>9, <1>10 DEF SlotsAreSockets, SlotsOf

-----------------------------------------------------------------------------
(* Each action keeps the invariant.                                         *)

(* A socket that opens is in no map, and its timer runs.                    *)
LEMMA UpgradeKeeps ==
  ASSUME IInv, NEW s \in Socket, NEW ip \in Ip, Upgrade(s, ip)
  PROVE  IInv'
<1>1. TypeOK'
  BY ConnectionsAssumption DEF IInv, TypeOK, Uid, Upgrade, tables
<1>2. OneHolder'
  BY ConnectionsAssumption DEF IInv, TypeOK, OneHolder, Uid, DeviceOf, UidOfSocket, Upgrade, tables
<1>3. FiledUnderItsOwn'
  BY ConnectionsAssumption
    DEF IInv, TypeOK, OneHolder, FiledUnderItsOwn, Uid, DeviceOf, UidOfSocket, Upgrade, tables
<1>4. PhaseOfReady'
  BY ConnectionsAssumption DEF IInv, TypeOK, PhaseOfReady, Upgrade, tables
<1>5. SilentIsWatched'
  BY ConnectionsAssumption
    DEF IInv, TypeOK, OneHolder, PhaseOfReady, SilentIsWatched, Upgrade, tables
<1>6. SlotsAreSockets' /\ FiniteSlots'
  BY SlotTaken
<1>. QED
  BY <1>1, <1>2, <1>3, <1>4, <1>5, <1>6 DEF IInv

(* A hello is said by a socket in no map.                                   *)
LEMMA HelloKeeps ==
  ASSUME IInv, NEW s \in Socket, NEW d \in Device, NEW e \in Nat, NEW ts \in Nat,
         Hello(s, d, e, ts)
  PROVE  IInv'
<1>1. TypeOK'
  BY ConnectionsAssumption DEF IInv, TypeOK, Uid, Hello, tables
<1>2. OneHolder'
  BY ConnectionsAssumption DEF IInv, TypeOK, OneHolder, Uid, DeviceOf, UidOfSocket, Hello, tables
<1>3. FiledUnderItsOwn'
  BY ConnectionsAssumption
    DEF IInv, TypeOK, OneHolder, FiledUnderItsOwn, Uid, DeviceOf, UidOfSocket, Hello, tables
<1>4. PhaseOfReady'
  BY ConnectionsAssumption DEF IInv, TypeOK, PhaseOfReady, Hello, tables
<1>5. SilentIsWatched'
  BY ConnectionsAssumption DEF IInv, TypeOK, OneHolder, PhaseOfReady, SilentIsWatched, Hello, tables
<1>6. SlotsAreSockets' /\ FiniteSlots'
  BY SlotsStay DEF IInv, TypeOK, Hello, tables
<1>. QED
  BY <1>1, <1>2, <1>3, <1>4, <1>5, <1>6 DEF IInv

(* What only closes sockets leaves every map as it is.                      *)
LEMMA ClosingKeeps ==
  ASSUME IInv, NEW S, Closing(S),
         UNCHANGED <<phase, hello, timers, reservations, byIp, tables, liveness, view>>
  PROVE  IInv'
<1>1. TypeOK'
  BY ConnectionsAssumption DEF IInv, TypeOK, Uid, Closing, tables
<1>2. OneHolder'
  BY ConnectionsAssumption DEF IInv, TypeOK, OneHolder, Uid, DeviceOf, UidOfSocket, Closing, tables
<1>3. FiledUnderItsOwn'
  BY ConnectionsAssumption
    DEF IInv, TypeOK, OneHolder, FiledUnderItsOwn, Uid, DeviceOf, UidOfSocket, Closing, tables
<1>4. PhaseOfReady'
  BY ConnectionsAssumption DEF IInv, TypeOK, PhaseOfReady, Closing, tables
<1>5. SilentIsWatched'
  BY ConnectionsAssumption
    DEF IInv, TypeOK, OneHolder, PhaseOfReady, SilentIsWatched, Closing, tables
<1>6. SlotsAreSockets' /\ FiniteSlots'
  BY SlotsStay DEF IInv, TypeOK, Closing, tables
<1>. QED
  BY <1>1, <1>2, <1>3, <1>4, <1>5, <1>6 DEF IInv

(* So does an error before the close, whatever it does to the timer.        *)
LEMMA RejectingKeeps ==
  ASSUME IInv, NEW s \in Socket, SendErrorAndClose(s),
         timers' \subseteq timers, timers \ {s} \subseteq timers',
         UNCHANGED <<hello, reservations, byIp, tables, liveness, view>>
  PROVE  IInv'
<1>1. TypeOK'
  BY ConnectionsAssumption DEF IInv, TypeOK, Uid, SendErrorAndClose, Closing, tables
<1>2. OneHolder'
  BY ConnectionsAssumption
    DEF IInv, TypeOK, OneHolder, Uid, DeviceOf, UidOfSocket, SendErrorAndClose, Closing, tables
<1>3. FiledUnderItsOwn'
  BY ConnectionsAssumption
    DEF IInv, TypeOK, OneHolder, FiledUnderItsOwn, Uid, DeviceOf, UidOfSocket, SendErrorAndClose, Closing, tables
<1>4. PhaseOfReady'
  BY ConnectionsAssumption DEF IInv, TypeOK, PhaseOfReady, SendErrorAndClose, Closing, tables
<1>5. SilentIsWatched'
  BY ConnectionsAssumption
    DEF IInv, TypeOK, OneHolder, PhaseOfReady, SilentIsWatched, SendErrorAndClose, Closing, tables
<1>6. SlotsAreSockets' /\ FiniteSlots'
  BY SlotsStay DEF IInv, TypeOK, SendErrorAndClose, Closing, tables
<1>. QED
  BY <1>1, <1>2, <1>3, <1>4, <1>5, <1>6 DEF IInv

(* What is heard of a connection changes only its liveness.                 *)
LEMMA TrackingKeeps ==
  ASSUME IInv, NEW s \in Socket, Heard(s) \/ Quiet(s)
  PROVE  IInv'
<1>1. TypeOK'
  BY ConnectionsAssumption DEF IInv, TypeOK, Uid, Heard, Quiet, tables
<1>2. OneHolder'
  BY ConnectionsAssumption
    DEF IInv, TypeOK, OneHolder, Uid, DeviceOf, UidOfSocket, Heard, Quiet, tables
<1>3. FiledUnderItsOwn'
  BY ConnectionsAssumption
    DEF IInv, TypeOK, OneHolder, FiledUnderItsOwn, Uid, DeviceOf, UidOfSocket, Heard, Quiet, tables
<1>4. PhaseOfReady'
  BY ConnectionsAssumption DEF IInv, TypeOK, PhaseOfReady, Heard, Quiet, tables
<1>5. SilentIsWatched'
  BY ConnectionsAssumption
    DEF IInv, TypeOK, OneHolder, PhaseOfReady, SilentIsWatched, Heard, Quiet, tables
<1>6. SlotsAreSockets' /\ FiniteSlots'
  BY SlotsStay DEF IInv, TypeOK, Heard, Quiet, tables
<1>. QED
  BY <1>1, <1>2, <1>3, <1>4, <1>5, <1>6 DEF IInv

(* HelloTimeout closes a socket that is waiting and leaves any other alone. *)
LEMMA HelloTimeoutKeeps ==
  ASSUME IInv, NEW s \in Socket, HelloTimeout(s)
  PROVE  IInv'
<1>1. CASE phase[s] \in {"awaiting-hello", "authenticating"}
  BY <1>1, RejectingKeeps DEF HelloTimeout
<1>2. CASE phase[s] \notin {"awaiting-hello", "authenticating"}
  <2>1. TypeOK'
    BY <1>2 DEF HelloTimeout, IInv, TypeOK, Uid, tables
  <2>2. OneHolder'
    BY <1>2 DEF HelloTimeout, IInv, OneHolder, Uid, DeviceOf, UidOfSocket, tables
  <2>3. FiledUnderItsOwn'
    BY <1>2 DEF HelloTimeout, IInv, FiledUnderItsOwn, Uid, DeviceOf, UidOfSocket, tables
  <2>4. PhaseOfReady'
    BY <1>2 DEF HelloTimeout, IInv, PhaseOfReady
  <2>5. SilentIsWatched'
    BY <1>2 DEF HelloTimeout, IInv, PhaseOfReady, SilentIsWatched, tables
  <2>6. SlotsAreSockets' /\ FiniteSlots'
    BY <1>2, SlotsStay DEF HelloTimeout
  <2>. QED
    BY <2>1, <2>2, <2>3, <2>4, <2>5, <2>6 DEF IInv
<1>. QED
  BY <1>1, <1>2

(* What the close callback does to the maps: nothing for a socket with no   *)
(* entry, and it takes the entry out of all three otherwise.                *)
LEMMA CloseMaps ==
  ASSUME IInv, NEW s \in Socket, Close(s)
  PROVE  /\ byConnection' = byConnection \ {s}
         /\ byDevice' = [d \in Device |-> IF byDevice[d] = s THEN None ELSE byDevice[d]]
         /\ byUid' = [u \in Uid |-> byUid[u] \ {s}]
         /\ liveness' = [x \in Socket |-> IF x = s THEN "none" ELSE liveness[x]]
<1>. USE ConnectionsAssumption
<1>1. s # None
  OBVIOUS
<1>2. CASE s \notin byConnection
  <2>1. byConnection' = byConnection /\ byDevice' = byDevice /\ byUid' = byUid /\ liveness' = liveness
    BY <1>1, <1>2 DEF Close, EntryOf, tables
  <2>2. \A d \in Device : byDevice[d] # s
    BY <1>1, <1>2 DEF IInv, OneHolder
  <2>3. \A u \in Uid : s \notin byUid[u]
    BY <1>2 DEF IInv, OneHolder
  <2>4. liveness[s] = "none"
    BY <1>2 DEF IInv, SilentIsWatched
  <2>5. byDevice \in [Device -> Socket \cup {None}] /\ byUid \in [Uid -> SUBSET Socket]
        /\ liveness \in [Socket -> {"none", "fresh", "late"}]
    BY DEF IInv, TypeOK
  <2>6. byDevice = [d \in Device |-> IF byDevice[d] = s THEN None ELSE byDevice[d]]
    BY <2>2, <2>5
  <2>7. byUid = [u \in Uid |-> byUid[u] \ {s}]
    BY <2>3, <2>5
  <2>8. liveness = [x \in Socket |-> IF x = s THEN "none" ELSE liveness[x]]
    BY <2>4, <2>5
  <2>. QED
    BY <1>2, <2>1, <2>6, <2>7, <2>8
<1>3. CASE s \in byConnection
  <2>1. EntryOf(s) = s
    BY <1>3 DEF EntryOf
  <2>2. /\ byConnection' = byConnection \ {s}
        /\ byDevice' = [byDevice EXCEPT ![DeviceOf(s)] = IF @ = s THEN None ELSE @]
        /\ byUid' = [byUid EXCEPT ![UidOfSocket(s)] = @ \ {s}]
        /\ liveness' = [liveness EXCEPT ![s] = "none"]
    BY <1>1, <2>1 DEF Close, Becomes, Without, Tables
  <2>3. hello[s] # None
    BY <1>3 DEF IInv, OneHolder
  <2>4. DeviceOf(s) \in Device /\ UidOfSocket(s) \in Uid
    BY <2>3, HelloTyped DEF IInv
  <2>5. \A d \in Device : byDevice[d] = s => d = DeviceOf(s)
    BY <1>1 DEF IInv, FiledUnderItsOwn
  <2>6. \A u \in Uid : s \in byUid[u] => u = UidOfSocket(s)
    BY DEF IInv, FiledUnderItsOwn
  <2>7. byDevice \in [Device -> Socket \cup {None}] /\ byUid \in [Uid -> SUBSET Socket]
        /\ liveness \in [Socket -> {"none", "fresh", "late"}]
    BY DEF IInv, TypeOK
  <2>8. byDevice' = [d \in Device |-> IF byDevice[d] = s THEN None ELSE byDevice[d]]
    BY <2>2, <2>4, <2>5, <2>7
  <2>9. byUid' = [u \in Uid |-> byUid[u] \ {s}]
    <3>1. \A u \in Uid : byUid'[u] = byUid[u] \ {s}
      <4>1. ASSUME NEW u \in Uid, u # UidOfSocket(s)
            PROVE  byUid'[u] = byUid[u] /\ s \notin byUid[u]
        BY <2>2, <2>6, <2>7, <4>1
      <4>2. byUid'[UidOfSocket(s)] = byUid[UidOfSocket(s)] \ {s}
        BY <2>2, <2>4, <2>7
      <4>. QED
        BY <4>1, <4>2
    <3>. QED
      BY <2>2, <2>7, <3>1
  <2>10. liveness' = [x \in Socket |-> IF x = s THEN "none" ELSE liveness[x]]
    BY <2>2, <2>7
  <2>. QED
    BY <2>2, <2>8, <2>9, <2>10
<1>. QED
  BY <1>2, <1>3

(* Close takes a socket, and its entry if it has one, out of everything.    *)
LEMMA CloseKeeps ==
  ASSUME IInv, NEW s \in Socket, Close(s)
  PROVE  IInv'
<1>. USE ConnectionsAssumption
<1>1. /\ byConnection' = byConnection \ {s}
      /\ byDevice' = [d \in Device |-> IF byDevice[d] = s THEN None ELSE byDevice[d]]
      /\ byUid' = [u \in Uid |-> byUid[u] \ {s}]
      /\ liveness' = [x \in Socket |-> IF x = s THEN "none" ELSE liveness[x]]
  BY CloseMaps
<1>2. /\ ready' = [ready EXCEPT ![s] = "closed"]
      /\ phase' = [phase EXCEPT ![s] = "closed"]
      /\ timers' = timers \ {s}
      /\ hello' = hello
  BY DEF Close
<1>3. SlotsAreSockets' /\ FiniteSlots' /\ byIp' \in [Ip -> Nat]
      /\ reservations' \in [Socket -> Ip \cup {None}]
  BY SlotFreed
<1>4. view' \in [Socket -> SUBSET Device]
  <2>1. view \in [Socket -> SUBSET Device]
    BY DEF IInv, TypeOK
  <2>2. view' = Departed(s)
    BY DEF Close
  <2>. QED
    BY <2>1, <2>2 DEF Departed
<1>5. TypeOK'
  BY <1>1, <1>2, <1>3, <1>4 DEF IInv, TypeOK, Uid
<1>6. OneHolder'
  BY <1>1, <1>2 DEF IInv, TypeOK, OneHolder, Uid, DeviceOf, UidOfSocket
<1>7. FiledUnderItsOwn'
  BY <1>1, <1>2 DEF IInv, TypeOK, FiledUnderItsOwn, Uid, DeviceOf, UidOfSocket
<1>8. PhaseOfReady'
  BY <1>2 DEF IInv, TypeOK, PhaseOfReady
<1>9. SilentIsWatched'
  BY <1>1, <1>2 DEF IInv, TypeOK, SilentIsWatched
<1>. QED
  BY <1>3, <1>5, <1>6, <1>7, <1>8, <1>9 DEF IInv

(* What an admission does to the maps: the holder goes out of all three,    *)
(* and the new socket takes its place under the same device and account.    *)
LEMMA AdmittedMaps ==
  ASSUME IInv, NEW s \in Socket, HelloAdmitted(s)
  PROVE  /\ s \notin byConnection
         /\ DeviceOf(s) \in Device
         /\ UidOfSocket(s) \in Uid
         /\ byConnection' = (byConnection \ {byDevice[DeviceOf(s)]}) \cup {s}
         /\ byDevice' = [d \in Device |-> IF d = DeviceOf(s) THEN s ELSE byDevice[d]]
         /\ byUid' = [u \in Uid |-> IF u = UidOfSocket(s)
                                    THEN (byUid[u] \ {byDevice[DeviceOf(s)]}) \cup {s}
                                    ELSE byUid[u]]
<1>. USE ConnectionsAssumption
<1>. DEFINE holder == byDevice[DeviceOf(s)]
<1>1. DeviceOf(s) \in Device /\ UidOfSocket(s) \in Uid
  BY HelloTyped DEF HelloAdmitted, IInv
<1>2. s \notin byConnection
  BY DEF HelloAdmitted, StillWaiting, IInv, OneHolder
<1>3. byDevice \in [Device -> Socket \cup {None}] /\ byUid \in [Uid -> SUBSET Socket]
      /\ byConnection \subseteq Socket
  BY DEF IInv, TypeOK
<1>4. CASE holder = None
  <2>1. /\ byConnection' = byConnection \cup {s}
        /\ byDevice' = [byDevice EXCEPT ![DeviceOf(s)] = s]
        /\ byUid' = [byUid EXCEPT ![UidOfSocket(s)] = @ \cup {s}]
    BY <1>4 DEF HelloAdmitted, Becomes, With, Tables
  <2>2. byConnection' = (byConnection \ {holder}) \cup {s}
    BY <1>3, <1>4, <2>1
  <2>3. byDevice' = [d \in Device |-> IF d = DeviceOf(s) THEN s ELSE byDevice[d]]
    BY <1>1, <1>3, <2>1
  <2>4. byUid' = [u \in Uid |-> IF u = UidOfSocket(s) THEN (byUid[u] \ {holder}) \cup {s}
                                ELSE byUid[u]]
    <3>1. byUid[UidOfSocket(s)] \ {holder} = byUid[UidOfSocket(s)]
      BY <1>1, <1>3, <1>4
    <3>. HIDE DEF holder
    <3>. QED
      BY <1>1, <1>3, <2>1, <3>1
  <2>. QED
    BY <1>1, <1>2, <2>2, <2>3, <2>4
<1>5. CASE holder # None
  <2>1. DeviceOf(holder) = DeviceOf(s) /\ UidOfSocket(holder) = UidOfSocket(s)
    BY <1>1, <1>5 DEF IInv, FiledUnderItsOwn, UidOfSocket
  <2>2. /\ byConnection' = (byConnection \ {holder}) \cup {s}
        /\ byDevice' = [[byDevice EXCEPT ![DeviceOf(s)] = IF @ = holder THEN None ELSE @]
                          EXCEPT ![DeviceOf(s)] = s]
        /\ byUid' = [[byUid EXCEPT ![UidOfSocket(s)] = @ \ {holder}]
                       EXCEPT ![UidOfSocket(s)] = @ \cup {s}]
    BY <1>5, <2>1 DEF HelloAdmitted, Becomes, With, Without, Tables
  <2>. HIDE DEF holder
  <2>3. byDevice' = [d \in Device |-> IF d = DeviceOf(s) THEN s ELSE byDevice[d]]
    BY <1>1, <1>3, <2>2
  <2>4. byUid' = [u \in Uid |-> IF u = UidOfSocket(s) THEN (byUid[u] \ {holder}) \cup {s}
                                ELSE byUid[u]]
    BY <1>1, <1>3, <2>2
  <2>. QED
    BY <1>1, <1>2, <2>2, <2>3, <2>4 DEF holder
<1>. QED
  BY <1>4, <1>5

(* HelloAdmitted leaves one holder, the superseded socket closing.          *)
LEMMA HelloAdmittedKeeps ==
  ASSUME IInv, NEW s \in Socket, HelloAdmitted(s)
  PROVE  IInv'
<1>. USE ConnectionsAssumption
<1>. DEFINE holder == byDevice[DeviceOf(s)]
<1>1. /\ s \notin byConnection
      /\ DeviceOf(s) \in Device
      /\ UidOfSocket(s) \in Uid
      /\ byConnection' = (byConnection \ {holder}) \cup {s}
      /\ byDevice' = [d \in Device |-> IF d = DeviceOf(s) THEN s ELSE byDevice[d]]
      /\ byUid' = [u \in Uid |-> IF u = UidOfSocket(s) THEN (byUid[u] \ {holder}) \cup {s}
                                 ELSE byUid[u]]
  BY AdmittedMaps
<1>2. /\ ready' = [x \in Socket |-> IF x = holder /\ ready[x] = "open" THEN "closing" ELSE ready[x]]
      /\ phase' = [x \in Socket |-> IF x = s THEN "ready"
                                    ELSE IF x = holder THEN "closed" ELSE phase[x]]
      /\ liveness' = [x \in Socket |-> IF x = s THEN "fresh"
                                       ELSE IF x = holder THEN "none" ELSE liveness[x]]
      /\ timers' = timers \ {s}
      /\ hello' = hello
      /\ reservations' = reservations
      /\ byIp' = byIp
      /\ hello[s] # None
      /\ ready[s] = "open"
  BY DEF HelloAdmitted, Closing, StillWaiting
<1>3. holder # s
  BY <1>1 DEF IInv, OneHolder
<1>4. \A d \in Device : d # DeviceOf(s) => byDevice[d] # holder \/ byDevice[d] = None
  BY <1>1 DEF IInv, FiledUnderItsOwn
<1>5. \A u \in Uid : u # UidOfSocket(s) => holder \notin byUid[u]
  <2>1. ASSUME NEW u \in Uid, holder \in byUid[u] PROVE u = UidOfSocket(s)
    <3>1. holder # None
      BY <2>1 DEF IInv, TypeOK
    <3>2. DeviceOf(holder) = DeviceOf(s)
      BY <1>1, <3>1 DEF IInv, FiledUnderItsOwn
    <3>3. UidOfSocket(holder) = u
      BY <2>1 DEF IInv, FiledUnderItsOwn
    <3>. QED
      BY <3>2, <3>3 DEF UidOfSocket
  <2>. QED
    BY <2>1
<1>6. view' \in [Socket -> SUBSET Device]
  <2>1. view' \in [Socket -> SUBSET Device]
    <3>. DEFINE now == With(IF holder = None THEN Tables ELSE Without(Tables, holder), s)
    <3>1. view' = Announced(now, s)
      BY DEF HelloAdmitted
    <3>2. \A q \in Peers(now, s) : DeviceOf(q) \in Agent => DeviceOf(q) \in Device
      OBVIOUS
    <3>3. view \in [Socket -> SUBSET Device]
      BY DEF IInv, TypeOK
    <3>. HIDE DEF now
    <3>4. {DeviceOf(a) : a \in {q \in Peers(now, s) : DeviceOf(q) \in Agent}} \subseteq Device
      BY <3>2
    <3>. QED
      BY <1>1, <3>1, <3>3, <3>4 DEF Announced
  <2>. QED
    BY <2>1
<1>. HIDE DEF holder
<1>7. TypeOK'
  BY <1>1, <1>2, <1>6 DEF IInv, TypeOK, Uid
<1>8. OneHolder'
  <2>1. ASSUME NEW x \in byConnection'
        PROVE  /\ ready'[x] \in {"open", "closing"}
               /\ phase'[x] = "ready" \/ ready'[x] = "closing"
               /\ hello'[x] # None
               /\ byDevice'[DeviceOf(x)'] = x
               /\ x \in byUid'[UidOfSocket(x)']
    <3>1. CASE x = s
      BY <1>1, <1>2, <1>3, <3>1 DEF IInv, TypeOK, DeviceOf, UidOfSocket
    <3>2. CASE x # s
      <4>1. x \in byConnection /\ x # holder /\ x \in Socket
        BY <1>1, <3>2 DEF IInv, TypeOK
      <4>2. DeviceOf(x) # DeviceOf(s)
        BY <4>1 DEF IInv, OneHolder, holder
      <4>3. DeviceOf(x)' = DeviceOf(x) /\ UidOfSocket(x)' = UidOfSocket(x)
        BY <1>2 DEF DeviceOf, UidOfSocket
      <4>4. DeviceOf(x) \in Device /\ UidOfSocket(x) \in Uid
        BY <4>1, HelloTyped DEF IInv, OneHolder
      <4>. QED
        BY <1>1, <1>2, <3>2, <4>1, <4>2, <4>3, <4>4 DEF IInv, OneHolder
    <3>. QED
      BY <3>1, <3>2
  <2>2. \A d \in Device : byDevice'[d] # None => byDevice'[d] \in byConnection'
    BY <1>1, <1>4 DEF IInv, OneHolder
  <2>3. \A u \in Uid : byUid'[u] \subseteq byConnection'
    BY <1>1, <1>5 DEF IInv, OneHolder
  <2>4. \A x \in Socket : ready'[x] = "open" /\ phase'[x] = "ready" => x \in byConnection'
    BY <1>1, <1>2 DEF IInv, OneHolder
  <2>. QED
    BY <2>1, <2>2, <2>3, <2>4 DEF OneHolder
<1>9. FiledUnderItsOwn'
  BY <1>1, <1>2 DEF IInv, FiledUnderItsOwn, DeviceOf, UidOfSocket
<1>10. PhaseOfReady'
  BY <1>2 DEF IInv, TypeOK, PhaseOfReady
<1>11. SilentIsWatched'
  BY <1>1, <1>2, <1>3 DEF IInv, TypeOK, OneHolder, PhaseOfReady, SilentIsWatched
<1>12. SlotsAreSockets' /\ FiniteSlots'
  BY <1>2, SlotsStay DEF IInv, TypeOK
<1>. QED
  BY <1>7, <1>8, <1>9, <1>10, <1>11, <1>12 DEF IInv

-----------------------------------------------------------------------------
(* The relay starts with nothing open, in no map.                           *)
LEMMA InitIInv == Init => IInv
<1>. SUFFICES ASSUME Init PROVE IInv
  OBVIOUS
<1>1. \A ip \in Ip : SlotsOf(ip) = {}
  BY ConnectionsAssumption DEF Init, SlotsOf
<1>2. FiniteSlots
  BY <1>1, FS_EmptySet DEF FiniteSlots
<1>3. SlotsAreSockets
  <2>1. \A ip \in Ip : Cardinality({s \in Socket : reservations[s] = ip}) = 0
    BY <1>1, FS_EmptySet DEF SlotsOf
  <2>. QED
    BY <2>1 DEF Init, SlotsAreSockets
<1>4. TypeOK
  BY DEF Init, TypeOK
<1>5. OneHolder /\ FiledUnderItsOwn
  BY DEF Init, OneHolder, FiledUnderItsOwn
<1>6. PhaseOfReady /\ SilentIsWatched
  BY DEF Init, PhaseOfReady, SilentIsWatched
<1>. QED
  BY <1>2, <1>3, <1>4, <1>5, <1>6 DEF IInv

(* Every step keeps IInv.                                                   *)
LEMMA NextIInv == IInv /\ [Next]_vars => IInv'
<1>. SUFFICES ASSUME IInv, [Next]_vars PROVE IInv'
  OBVIOUS
<1>1. ASSUME NEW s \in Socket, NEW ip \in Ip, Upgrade(s, ip) PROVE IInv'
  BY <1>1, UpgradeKeeps
<1>2. ASSUME NEW s \in Socket, NEW d \in Device, NEW e \in 1..MaxEpoch, NEW ts \in 1..MaxTs,
             Hello(s, d, e, ts)
      PROVE  IInv'
  <2>1. e \in Nat /\ ts \in Nat
    BY ConnectionsAssumption
  <2>. QED
    BY <1>2, <2>1, HelloKeeps
<1>3. ASSUME NEW s \in Socket, GateRefuses(s) \/ HelloOutranked(s) \/ Misuse(s) PROVE IInv'
  BY <1>3, RejectingKeeps DEF GateRefuses, HelloOutranked, Misuse
<1>4. ASSUME NEW s \in Socket, HelloAdmitted(s) PROVE IInv'
  BY <1>4, HelloAdmittedKeeps
<1>5. ASSUME NEW s \in Socket, HelloTimeout(s) PROVE IInv'
  BY <1>5, HelloTimeoutKeeps
<1>6. ASSUME NEW s \in Socket, Heard(s) \/ Quiet(s) PROVE IInv'
  BY <1>6, TrackingKeeps
<1>7. ASSUME NEW s \in Socket, Close(s) PROVE IInv'
  BY <1>7, CloseKeeps
<1>8. CASE PingInterval
  BY <1>8, ClosingKeeps DEF PingInterval
<1>9. ASSUME NEW d \in Device, Revoke(d) PROVE IInv'
  BY <1>9, ClosingKeeps DEF Revoke
<1>10. ASSUME NEW u \in Uid, Expire(u) PROVE IInv'
  BY <1>10, ClosingKeeps DEF Expire
<1>11. CASE UNCHANGED vars
  <2>1. SlotsAreSockets' /\ FiniteSlots'
    BY <1>11, SlotsStay DEF vars
  <2>2. TypeOK' /\ OneHolder' /\ FiledUnderItsOwn'
    BY <1>11 DEF vars, tables, IInv, TypeOK, OneHolder, FiledUnderItsOwn, Uid, DeviceOf, UidOfSocket
  <2>3. PhaseOfReady' /\ SilentIsWatched'
    BY <1>11 DEF vars, tables, IInv, PhaseOfReady, SilentIsWatched
  <2>. QED
    BY <2>1, <2>2, <2>3 DEF IInv
<1>. QED
  BY <1>1, <1>2, <1>3, <1>4, <1>5, <1>6, <1>7, <1>8, <1>9, <1>10, <1>11 DEF Next

(* The inductive invariant holds of every reachable state.                  *)
THEOREM IInvHolds == Spec => []IInv
BY InitIInv, NextIInv, PTL DEF Spec

(* Types are kept: in particular no address ever counts below zero.         *)
THEOREM TypeCorrect == Spec => []TypeOK
<1>1. IInv => TypeOK
  BY DEF IInv
<1>. QED
  BY <1>1, IInvHolds, PTL

(* Connections: one holder per device, and the three maps agree, whatever   *)
(* is superseded, refused, timed out or closed late.                        *)
THEOREM OneHolderHolds == Spec => []OneHolder
<1>1. IInv => OneHolder
  BY DEF IInv
<1>. QED
  BY <1>1, IInvHolds, PTL

(* helloTimers and liveness: no open socket is left unwatched.              *)
THEOREM SilentIsWatchedHolds == Spec => []SilentIsWatched
<1>1. IInv => SilentIsWatched
  BY DEF IInv
<1>. QED
  BY <1>1, IInvHolds, PTL

(* SocketAdmissions: the slots are those of the sockets that are up.        *)
THEOREM SlotsAreSocketsHolds == Spec => []SlotsAreSockets
<1>1. IInv => SlotsAreSockets
  BY DEF IInv
<1>. QED
  BY <1>1, IInvHolds, PTL

-----------------------------------------------------------------------------
(* Presence.  A step that changes neither the maps nor a view can only make *)
(* an open socket closing, which PresenceAgrees allows for.                 *)

(* Nothing opens, closes or moves.                                          *)
LEMMA PresenceStays ==
  ASSUME IInv, PresenceAgrees, UNCHANGED <<tables, view>>,
         \A s \in byConnection : hello'[s] = hello[s],
         \A s \in byConnection : \/ ready'[s] = ready[s]
                                 \/ ready[s] = "open" /\ ready'[s] = "closing"
  PROVE  PresenceAgrees'
<1>. SUFFICES ASSUME NEW s \in byConnection', ready'[s] = "open"
              PROVE  /\ LiveAgents(s, {"open"})' \subseteq view'[s]
                     /\ view'[s] \subseteq LiveAgents(s, {"open", "closing"})'
  BY DEF PresenceAgrees
<1>1. s \in byConnection /\ ready[s] = "open" /\ view'[s] = view[s]
  BY DEF tables
<1>2. LiveAgents(s, {"open"}) \subseteq view[s] /\ view[s] \subseteq LiveAgents(s, {"open", "closing"})
  BY <1>1 DEF PresenceAgrees
<1>3. DeviceOf(s)' = DeviceOf(s) /\ UidOfSocket(s)' = UidOfSocket(s)
  BY <1>1 DEF DeviceOf, UidOfSocket
<1>4. \A d \in Agent : byDevice'[d] = byDevice[d] /\ (byDevice[d] # None => byDevice[d] \in byConnection)
  BY ConnectionsAssumption DEF IInv, OneHolder, tables
<1>5. LiveAgents(s, {"open"})' \subseteq LiveAgents(s, {"open"})
  BY <1>3, <1>4 DEF LiveAgents
<1>6. LiveAgents(s, {"open", "closing"}) \subseteq LiveAgents(s, {"open", "closing"})'
  BY <1>3, <1>4 DEF LiveAgents
<1>. QED
  BY <1>1, <1>2, <1>5, <1>6

(* fanOutAgentPresence of peer-offline reaches whom it concerns.            *)
LEMMA PresenceAfterClose ==
  ASSUME IInv, PresenceAgrees, NEW s \in Socket, Close(s)
  PROVE  PresenceAgrees'
<1>. USE ConnectionsAssumption
<1>1. /\ byConnection' = byConnection \ {s}
      /\ byDevice' = [d \in Device |-> IF byDevice[d] = s THEN None ELSE byDevice[d]]
      /\ byUid' = [u \in Uid |-> byUid[u] \ {s}]
  BY CloseMaps
<1>2. hello' = hello /\ ready' = [ready EXCEPT ![s] = "closed"]
  BY DEF Close
<1>3. ready \in [Socket -> {"none", "open", "closing", "closed"}] /\ view \in [Socket -> SUBSET Device]
  BY DEF IInv, TypeOK
<1>. SUFFICES ASSUME NEW p \in byConnection', ready'[p] = "open"
              PROVE  /\ LiveAgents(p, {"open"})' \subseteq view'[p]
                     /\ view'[p] \subseteq LiveAgents(p, {"open", "closing"})'
  BY DEF PresenceAgrees
<1>4. p \in byConnection /\ p # s /\ p \in Socket /\ ready[p] = "open" /\ hello[p] # None
  BY <1>1, <1>2, <1>3 DEF IInv, TypeOK, OneHolder
<1>5. LiveAgents(p, {"open"}) \subseteq view[p] /\ view[p] \subseteq LiveAgents(p, {"open", "closing"})
  BY <1>4 DEF PresenceAgrees
<1>6. DeviceOf(p)' = DeviceOf(p) /\ UidOfSocket(p)' = UidOfSocket(p)
  BY <1>2 DEF DeviceOf, UidOfSocket
<1>7. \A d \in Agent : byDevice[d] # None => byDevice[d] \in Socket
  BY DEF IInv, TypeOK
<1>8. \A d, states : /\ states \subseteq {"open", "closing"}
                     => (d \in LiveAgents(p, states)' <=>
                           d \in LiveAgents(p, states) /\ byDevice[d] # s)
  BY <1>1, <1>2, <1>3, <1>6, <1>7 DEF LiveAgents
<1>9. CASE s \in byConnection /\ DeviceOf(s) \in Agent
  <2>1. hello[s] # None /\ DeviceOf(s) \in Device /\ byDevice[DeviceOf(s)] = s
    BY <1>9, HelloTyped DEF IInv, OneHolder
  <2>2. \A d \in Agent : byDevice[d] = s <=> d = DeviceOf(s)
    BY <2>1 DEF IInv, FiledUnderItsOwn
  <2>3. DeviceOf(p) # DeviceOf(s)
    BY <1>4, <2>1 DEF IInv, OneHolder
  <2>4. CASE UidOfSocket(p) = UidOfSocket(s)
    <3>1. p \in Peers(Without(Tables, s), s)
      <4>1. p \in byUid[UidOfSocket(s)] /\ UidOfSocket(s) \in Uid
        BY <1>4, <2>1, <2>4, HelloTyped DEF IInv, OneHolder
      <4>2. byUid \in [Uid -> SUBSET Socket]
        BY DEF IInv, TypeOK
      <4>3. p \in Without(Tables, s).uids[UidOfSocket(s)]
        BY <1>4, <4>1, <4>2 DEF Without, Tables
      <4>. QED
        BY <1>4, <2>3, <4>3 DEF Peers
    <3>2. view'[p] = view[p] \ {DeviceOf(s)}
      BY <1>4, <1>9, <3>1 DEF Close, Departed, EntryOf
    <3>3. \A d, states : states \subseteq {"open", "closing"} =>
            (d \in LiveAgents(p, states)' <=> d \in LiveAgents(p, states) /\ d # DeviceOf(s))
      <4>1. \A d, states : d \in LiveAgents(p, states) => d \in Agent
        BY DEF LiveAgents
      <4>. QED
        BY <1>8, <2>2, <4>1
    <3>. QED
      BY <1>5, <3>2, <3>3
  <2>5. CASE UidOfSocket(p) # UidOfSocket(s)
    <3>1. p \notin Peers(Without(Tables, s), s)
      <4>1. UidOfSocket(s) \in Uid /\ byUid \in [Uid -> SUBSET Socket]
        BY <2>1, HelloTyped DEF IInv, TypeOK
      <4>2. p \notin byUid[UidOfSocket(s)]
        BY <2>5, <4>1 DEF IInv, FiledUnderItsOwn
      <4>. QED
        BY <4>1, <4>2 DEF Peers, Without, Tables
    <3>2. view'[p] = view[p]
      BY <1>4, <1>9, <3>1 DEF Close, Departed, EntryOf
    <3>3. \A d, states : d \in LiveAgents(p, states) => byDevice[d] # s
      BY <2>2, <2>5 DEF LiveAgents, UidOfSocket
    <3>. QED
      BY <1>5, <1>8, <3>2, <3>3
  <2>. QED
    BY <2>4, <2>5
<1>10. CASE ~(s \in byConnection /\ DeviceOf(s) \in Agent)
  <2>1. view' = view
    BY <1>10 DEF Close, Departed, EntryOf
  <2>2. \A d \in Agent : byDevice[d] # s
    BY <1>10 DEF IInv, OneHolder, FiledUnderItsOwn
  <2>3. \A d, states : d \in LiveAgents(p, states) => byDevice[d] # s
    BY <2>2 DEF LiveAgents
  <2>. QED
    BY <1>5, <1>8, <2>1, <2>3
<1>. QED
  BY <1>9, <1>10

(* fanOutAgentPresence of peer-online, and the agents told to the new one.  *)
LEMMA PresenceAfterAdmission ==
  ASSUME IInv, IInv', PresenceAgrees, NEW s \in Socket, HelloAdmitted(s)
  PROVE  PresenceAgrees'
<1>. USE ConnectionsAssumption
<1>. DEFINE holder == byDevice[DeviceOf(s)]
            now == With(IF holder = None THEN Tables ELSE Without(Tables, holder), s)
<1>1. /\ s \notin byConnection
      /\ DeviceOf(s) \in Device
      /\ UidOfSocket(s) \in Uid
      /\ byConnection' = (byConnection \ {holder}) \cup {s}
      /\ byDevice' = [d \in Device |-> IF d = DeviceOf(s) THEN s ELSE byDevice[d]]
      /\ byUid' = [u \in Uid |-> IF u = UidOfSocket(s) THEN (byUid[u] \ {holder}) \cup {s}
                                 ELSE byUid[u]]
  BY AdmittedMaps
<1>2. /\ ready' = [x \in Socket |-> IF x = holder /\ ready[x] = "open" THEN "closing" ELSE ready[x]]
      /\ hello' = hello
      /\ hello[s] # None
      /\ ready[s] = "open"
      /\ view' = Announced(now, s)
      /\ now.uids = byUid'
  BY DEF HelloAdmitted, Closing, StillWaiting, Becomes
<1>3. Peers(now, s) = {q \in byUid'[UidOfSocket(s)] : ready[q] = "open" /\ DeviceOf(q) # DeviceOf(s)}
  BY <1>2 DEF Peers
<1>4. view \in [Socket -> SUBSET Device] /\ byDevice \in [Device -> Socket \cup {None}]
      /\ ready \in [Socket -> {"none", "open", "closing", "closed"}]
  BY DEF IInv, TypeOK
<1>5. \A x : DeviceOf(x)' = DeviceOf(x) /\ UidOfSocket(x)' = UidOfSocket(x)
  BY <1>2 DEF DeviceOf, UidOfSocket
<1>. HIDE DEF now
(* Whoever holds another device holds it still, and is as ready as it was.  *)
<1>6. \A d \in Agent : d # DeviceOf(s) /\ byDevice[d] # None =>
        /\ byDevice[d] \in byConnection /\ byDevice[d] \in Socket
        /\ byDevice[d] # holder
        /\ ready'[byDevice[d]] = ready[byDevice[d]]
        /\ DeviceOf(byDevice[d]) = d
  <2>1. ASSUME NEW d \in Agent, d # DeviceOf(s), byDevice[d] # None
        PROVE  /\ byDevice[d] \in byConnection /\ byDevice[d] \in Socket
               /\ byDevice[d] # holder /\ DeviceOf(byDevice[d]) = d
    BY <1>1, <2>1 DEF IInv, TypeOK, OneHolder, FiledUnderItsOwn
  <2>. HIDE DEF holder
  <2>. QED
    BY <1>2, <2>1
<1>7. \A d \in Agent : d # DeviceOf(s) => byDevice'[d] = byDevice[d]
  BY <1>1
<1>. SUFFICES ASSUME NEW p \in byConnection', ready'[p] = "open"
              PROVE  /\ LiveAgents(p, {"open"})' \subseteq view'[p]
                     /\ view'[p] \subseteq LiveAgents(p, {"open", "closing"})'
  BY DEF PresenceAgrees
<1>8. CASE p = s
  <2>1. view'[s] = {DeviceOf(a) : a \in {q \in Peers(now, s) : DeviceOf(q) \in Agent}}
    BY <1>2 DEF Announced
  <2>2. ASSUME NEW d \in LiveAgents(s, {"open"})' PROVE d \in view'[s]
    <3>1. /\ d \in Agent /\ d # DeviceOf(s) /\ UidOf[d] = UidOfSocket(s)
          /\ byDevice[d] # None /\ ready[byDevice[d]] = "open"
      BY <1>5, <1>6, <1>7, <2>2 DEF LiveAgents
    <3>2. DeviceOf(byDevice[d]) = d /\ byDevice[d] \in byConnection'
      BY <1>1, <1>6, <3>1
    <3>3. byDevice[d] \in byUid'[UidOfSocket(s)]
      BY <1>5, <3>1, <3>2 DEF IInv, OneHolder, UidOfSocket
    <3>4. byDevice[d] \in {q \in Peers(now, s) : DeviceOf(q) \in Agent}
      BY <1>3, <3>1, <3>2, <3>3
    <3>. QED
      BY <2>1, <3>2, <3>4
  <2>3. ASSUME NEW d \in view'[s] PROVE d \in LiveAgents(s, {"open", "closing"})'
    <3>1. PICK q \in Peers(now, s) : DeviceOf(q) = d /\ d \in Agent
      BY <2>1, <2>3
    <3>2. q \in byUid'[UidOfSocket(s)] /\ ready[q] = "open" /\ d # DeviceOf(s)
      BY <1>3, <3>1
    <3>3. q \in byConnection' /\ UidOfSocket(q) = UidOfSocket(s)
      BY <1>1, <1>5, <3>2 DEF IInv, OneHolder, FiledUnderItsOwn
    <3>4. byDevice'[d] = q
      BY <1>5, <3>1, <3>3 DEF IInv, OneHolder
    <3>5. q # None /\ ready'[q] \in {"open", "closing"}
      BY <3>3 DEF IInv, OneHolder, TypeOK
    <3>6. UidOf[d] = UidOfSocket(s)
      BY <3>1, <3>3 DEF UidOfSocket
    <3>. QED
      BY <1>5, <3>1, <3>2, <3>4, <3>5, <3>6 DEF LiveAgents
  <2>. QED
    BY <1>8, <2>2, <2>3
<1>9. CASE p # s
  <2>1. p \in byConnection /\ p # holder /\ p \in Socket
    BY <1>1, <1>9 DEF IInv, TypeOK
  <2>2. ready[p] = "open" /\ DeviceOf(p) # DeviceOf(s) /\ hello[p] # None
    <3>1. DeviceOf(p) # DeviceOf(s) /\ hello[p] # None
      BY <2>1 DEF IInv, OneHolder
    <3>. HIDE DEF holder
    <3>. QED
      BY <1>2, <2>1, <3>1
  <2>3. LiveAgents(p, {"open"}) \subseteq view[p] /\ view[p] \subseteq LiveAgents(p, {"open", "closing"})
    BY <2>1, <2>2 DEF PresenceAgrees
  <2>4. p \in Peers(now, s) <=> UidOfSocket(p) = UidOfSocket(s)
    <3>1. p \in byUid'[UidOfSocket(p)]
      BY <1>5 DEF IInv, OneHolder
    <3>2. p \in byUid'[UidOfSocket(s)] => UidOfSocket(p) = UidOfSocket(s)
      BY <1>1, <1>5 DEF IInv, FiledUnderItsOwn
    <3>. QED
      BY <1>3, <2>2, <3>1, <3>2
  <2>5. \A d, states : d # DeviceOf(s) =>
          (d \in LiveAgents(p, states)' <=> d \in LiveAgents(p, states))
    BY <1>5, <1>6, <1>7 DEF LiveAgents
  <2>6. CASE UidOfSocket(p) = UidOfSocket(s) /\ DeviceOf(s) \in Agent
    <3>1. view'[p] = view[p] \cup {DeviceOf(s)}
      BY <1>2, <1>9, <2>1, <2>4, <2>6 DEF Announced
    <3>2. \A states : "open" \in states => DeviceOf(s) \in LiveAgents(p, states)'
      <4>1. byDevice'[DeviceOf(s)] = s /\ s # None
        BY <1>1
      <4>2. ready'[s] = "open"
        <5>1. s # holder
          BY <1>1 DEF IInv, OneHolder
        <5>. HIDE DEF holder
        <5>. QED
          BY <1>2, <5>1
      <4>. QED
        BY <1>5, <2>2, <2>6, <4>1, <4>2 DEF LiveAgents, UidOfSocket
    <3>. QED
      BY <2>3, <2>5, <3>1, <3>2
  <2>7. CASE ~(UidOfSocket(p) = UidOfSocket(s) /\ DeviceOf(s) \in Agent)
    <3>1. view'[p] = view[p]
      BY <1>2, <1>9, <2>1, <2>4, <2>7 DEF Announced
    <3>2. \A states : DeviceOf(s) \notin LiveAgents(p, states) /\ DeviceOf(s) \notin LiveAgents(p, states)'
      BY <1>5, <2>7 DEF LiveAgents, UidOfSocket
    <3>. QED
      BY <2>3, <2>5, <3>1, <3>2
  <2>. QED
    BY <2>6, <2>7
<1>. QED
  BY <1>8, <1>9

(* Every step keeps presence in agreement with the maps.                    *)
LEMMA NextPresence ==
  ASSUME IInv, IInv', PresenceAgrees, [Next]_vars
  PROVE  PresenceAgrees'
<1>1. ASSUME NEW s \in Socket, NEW ip \in Ip, Upgrade(s, ip) PROVE PresenceAgrees'
  <2>1. s \notin byConnection
    BY <1>1 DEF Upgrade, IInv, OneHolder
  <2>. QED
    BY <1>1, <2>1, PresenceStays DEF Upgrade, IInv, TypeOK
<1>2. ASSUME NEW s \in Socket, NEW d \in Device, NEW e \in 1..MaxEpoch, NEW ts \in 1..MaxTs,
             Hello(s, d, e, ts)
      PROVE  PresenceAgrees'
  <2>1. s \notin byConnection
    BY <1>2 DEF Hello, IInv, OneHolder
  <2>. QED
    BY <1>2, <2>1, PresenceStays DEF Hello, IInv, TypeOK
<1>3. ASSUME NEW S, Closing(S), UNCHANGED <<hello, tables, view>> PROVE PresenceAgrees'
  BY <1>3, PresenceStays DEF Closing, IInv, TypeOK
<1>4. ASSUME NEW s \in Socket,
             GateRefuses(s) \/ HelloOutranked(s) \/ Misuse(s) \/ HelloTimeout(s)
      PROVE  PresenceAgrees'
  <2>1. UNCHANGED <<hello, tables, view>> /\ (Closing({s}) \/ ready' = ready)
    BY <1>4 DEF GateRefuses, HelloOutranked, Misuse, HelloTimeout, SendErrorAndClose
  <2>. QED
    BY <1>3, <2>1, PresenceStays
<1>5. ASSUME NEW s \in Socket, HelloAdmitted(s) PROVE PresenceAgrees'
  BY <1>5, PresenceAfterAdmission
<1>6. ASSUME NEW s \in Socket, Heard(s) \/ Quiet(s) PROVE PresenceAgrees'
  BY <1>6, PresenceStays DEF Heard, Quiet
<1>7. ASSUME NEW s \in Socket, Close(s) PROVE PresenceAgrees'
  BY <1>7, PresenceAfterClose
<1>8. CASE PingInterval
  BY <1>8, <1>3 DEF PingInterval
<1>9. ASSUME NEW d \in Device, Revoke(d) PROVE PresenceAgrees'
  BY <1>9, <1>3 DEF Revoke
<1>10. ASSUME NEW u \in Uid, Expire(u) PROVE PresenceAgrees'
  BY <1>10, <1>3 DEF Expire
<1>11. CASE UNCHANGED vars
  BY <1>11, PresenceStays DEF vars
<1>. QED
  BY <1>1, <1>2, <1>4, <1>5, <1>6, <1>7, <1>8, <1>9, <1>10, <1>11 DEF Next

(* fanOutAgentPresence: every connection knows the agents of its account    *)
(* that are up and believes in none that is gone.                           *)
THEOREM PresenceAgreesHolds == Spec => []PresenceAgrees
<1>1. Init => PresenceAgrees
  BY DEF Init, PresenceAgrees
<1>2. IInv /\ IInv' /\ PresenceAgrees /\ [Next]_vars => PresenceAgrees'
  BY NextPresence
<1>. QED
  BY <1>1, <1>2, IInvHolds, PTL DEF Spec

=============================================================================

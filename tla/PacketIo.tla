------------------------------ MODULE PacketIo ------------------------------
(***************************************************************************)
(* Packet I/O: sonic/packetio_impl.cc and its callers.                     *)
(*                                                                         *)
(*   APPL_STATE_DB -> StateEventMonitor -> Add/RemovePacketIoPort          *)
(*   kernel -> receive thread -> SendPacketInToController -> the primary   *)
(*   StreamChannel -> HandlePacketOutRequest -> SendPacketOut -> kernel    *)
(*                                                                         *)
(* Ports come and go under server_state_lock_, one action each.  The       *)
(* receive thread selects and reads without it and takes it only in the    *)
(* callback, so a port may be removed between its select, its read and its *)
(* callback: the selectable it uses is then destroyed, and what it reads   *)
(* from it is arbitrary.  Sockets have file descriptors, the lowest free   *)
(* one first, and are bound to an interface index; an interface that is    *)
(* deleted and created again has another index.                            *)
(***************************************************************************)
EXTENDS IrTranslation, FiniteSets, FiniteSetsExt

CONSTANTS
  PortNames,   \* netdev names, SEND_TO_INGRESS among them
  PortIds,     \* the ids of the port map
  IfIndexes,   \* interface indexes, which the kernel gives out from the lowest
  Nobody,      \* no interface
  MaxPackets,  \* bound: packets that arrive
  MaxEvents    \* bound: events of APPL_STATE_DB

ASSUME PacketIoConstants ==
  /\ Nobody \notin PortNames
  /\ IfIndexes \subseteq Nat \ {0}
  /\ MaxPackets \in Nat
  /\ MaxEvents \in Nat

VARIABLES
  use_genetlink,         \* use_genetlink_, from the command line
  netdev,                \* the kernel: name -> interface index, 0 for none
  created,               \* the kernel: the last index it gave out
  sockets,               \* the kernel: open fd -> [ifindex, queue]
  netlink,               \* the kernel: messages of the netlink group
  announced,             \* APPL_STATE_DB: ports with a row
  events,                \* events not handled yet
  port_to_socket,        \* port_to_socket_
  port_to_selectables,   \* port_to_selectables_, and the members of port_select_
  port_translation_map,  \* port_translation_map_
  rx,                    \* the receive thread
  errno,                 \* its errno is EINTR
  counters,              \* packetio_counters_
  arrived, handled,      \* counters for the bounds
  last,                  \* the last packet in or out that was sent
  lost,                  \* history: packets read or queued that nobody got
  failed                 \* history: ports whose last SET could not be applied

kernelVars == <<netdev, created, announced>>
portVars == <<port_to_socket, port_to_selectables>>
historyVars == <<arrived, handled, last, lost, failed>>
vars == <<use_genetlink, kernelVars, sockets, netlink, events, portVars, port_translation_map, rx,
          errno, counters, historyVars>>

\* The thread is in select, in readData before the read, or in the callback
\* with a packet.  gone: its selectable was destroyed meanwhile.
Selecting == [pc |-> "select", port |-> Nobody, fd |-> 0, packet |-> Nobody, gone |-> FALSE]

NoPacket == [from |-> Nobody, to |-> Nobody]

Init ==
  /\ use_genetlink \in BOOLEAN
  /\ netdev = [p \in PortNames |-> 0]
  /\ created = 0
  /\ sockets = <<>>
  /\ netlink = <<>>
  /\ announced = {}
  /\ events = <<>>
  /\ port_to_socket = <<>>
  /\ port_to_selectables = <<>>
  /\ port_translation_map = <<>>
  /\ rx = Selecting
  /\ errno = FALSE
  /\ counters = [packet_in_received |-> 0, packet_in_errors |-> 0]
  /\ arrived = 0
  /\ handled = 0
  /\ last = NoPacket
  /\ lost = 0
  /\ failed = {}

-----------------------------------------------------------------------------
(* The kernel and APPL_STATE_DB.                                           *)

CreateNetdev(p) ==
  /\ netdev[p] = 0
  /\ \E i \in IfIndexes :
       /\ i > created
       /\ \A j \in IfIndexes : j > created => i <= j
       /\ netdev' = [netdev EXCEPT ![p] = i]
       /\ created' = i
  /\ UNCHANGED <<use_genetlink, sockets, netlink, announced, events, portVars,
                 port_translation_map, rx, errno, counters, historyVars>>

DeleteNetdev(p) ==
  /\ netdev[p] # 0
  /\ netdev' = [netdev EXCEPT ![p] = 0]
  /\ UNCHANGED <<use_genetlink, created, sockets, netlink, announced, events, portVars,
                 port_translation_map, rx, errno, counters, historyVars>>

Announce(p, set) ==
  /\ Len(events) + handled < MaxEvents
  /\ set # (p \in announced)
  /\ announced' = IF set THEN announced \cup {p} ELSE announced \ {p}
  /\ events' = Append(events, [port |-> p, set |-> set])
  /\ UNCHANGED <<use_genetlink, netdev, created, sockets, netlink, portVars,
                 port_translation_map, rx, errno, counters, historyVars>>

\* A packet for the controller, on a socket bound to the interface or, with
\* genetlink, in a message with the index.  No socket: the kernel drops it.
Arrive(p) ==
  /\ arrived < MaxPackets
  /\ netdev[p] # 0
  /\ IF use_genetlink
     THEN /\ netlink' = Append(netlink, [ifindex |-> netdev[p], port |-> p])
          /\ UNCHANGED sockets
     ELSE \E fd \in DOMAIN sockets :
            /\ sockets[fd].ifindex = netdev[p]
            /\ sockets' = [sockets EXCEPT ![fd].queue = Append(@, p)]
            /\ UNCHANGED netlink
  /\ arrived' = arrived + 1
  /\ UNCHANGED <<use_genetlink, kernelVars, events, portVars, port_translation_map, rx, errno,
                 counters, handled, last, lost, failed>>

\* A signal interrupts the thread's epoll_wait or read.
Interrupt ==
  /\ ~use_genetlink
  /\ rx.pc \in {"select", "read"}
  /\ ~errno
  /\ errno' = TRUE
  /\ UNCHANGED <<use_genetlink, kernelVars, sockets, netlink, events, portVars,
                 port_translation_map, rx, counters, historyVars>>

-----------------------------------------------------------------------------
(* Ports.                                                                  *)

MapInsert(map, key, value) ==
  [k \in DOMAIN map \cup {key} |-> IF k = key THEN value ELSE map[k]]

LowestFreeFd == Min((1..(Cardinality(DOMAIN sockets) + 1)) \ DOMAIN sockets)

\* Mutation: a socket that cannot be bound is not closed.
SocketLeftOpen(p) ==
  [fd |-> IF netdev[p] = 0 THEN 0 ELSE LowestFreeFd,
   open |-> MapInsert(sockets, LowestFreeFd, [ifindex |-> netdev[p], queue |-> <<>>])]

\* CreateAndBindSockets can only fail at if_nametoindex here, and closes the
\* socket it had opened.
CreatePacketIoSocket(p) ==
  IF netdev[p] = 0
  THEN [fd |-> 0, open |-> sockets]
  ELSE [fd |-> LowestFreeFd,
        open |-> MapInsert(sockets, LowestFreeFd, [ifindex |-> netdev[p], queue |-> <<>>])]

AddPacketIoPort(p) ==
  LET new == CreatePacketIoSocket(p)
  IN \/ /\ p \in DOMAIN port_to_socket
        /\ UNCHANGED <<sockets, portVars, failed>>
     \/ /\ p \notin DOMAIN port_to_socket
        /\ sockets' = new.open
        /\ IF new.fd = 0
           THEN failed' = failed \cup {p} /\ UNCHANGED portVars
           ELSE /\ port_to_socket' = MapInsert(port_to_socket, p, new.fd)
                /\ port_to_selectables' =
                     IF use_genetlink THEN port_to_selectables
                                      ELSE MapInsert(port_to_selectables, p, new.fd)
                /\ failed' = failed \ {p}

\* Mutation: the socket is closed and stays in the map.
SocketMapKept(p) ==
  /\ p \in DOMAIN port_to_socket
  /\ port_to_socket[p] \in DOMAIN sockets
  /\ port_to_selectables' = Restrict(port_to_selectables, DOMAIN port_to_selectables \ {p})
  /\ sockets' = Restrict(sockets, DOMAIN sockets \ {port_to_socket[p]})
  /\ UNCHANGED <<port_to_socket, rx, lost, failed>>

\* A port that was never added is an error, logged by the event monitor.
RemovePacketIoPort(p) ==
  IF p \in DOMAIN port_to_socket
  THEN LET fd == port_to_socket[p]
       IN /\ port_to_selectables' = Restrict(port_to_selectables, DOMAIN port_to_selectables \ {p})
          /\ port_to_socket' = Restrict(port_to_socket, DOMAIN port_to_socket \ {p})
          /\ sockets' = Restrict(sockets, DOMAIN sockets \ {fd})
          /\ lost' = lost + Len(sockets[fd].queue)
          /\ rx' = IF rx.port = p THEN [rx EXCEPT !.gone = TRUE] ELSE rx
          /\ UNCHANGED failed
  ELSE failed' = failed \ {p} /\ UNCHANGED <<portVars, sockets, rx, lost>>

HandleEvent ==
  /\ events # <<>>
  /\ LET event == Head(events)
     IN IF event.set THEN AddPacketIoPort(event.port) /\ UNCHANGED <<rx, lost>>
                     ELSE RemovePacketIoPort(event.port)
  /\ events' = Tail(events)
  /\ handled' = handled + 1
  /\ UNCHANGED <<use_genetlink, kernelVars, netlink, port_translation_map, errno, counters,
                 arrived, last>>

\* Add- and RemovePortTranslation, whose events are PortTranslation's.
RemovePortTranslation(p) ==
  /\ p \in DOMAIN port_translation_map
  /\ port_translation_map' = BimapErase(port_translation_map, p)
  /\ UNCHANGED <<use_genetlink, kernelVars, sockets, netlink, events, portVars, rx, errno,
                 counters, historyVars>>

AddPortTranslation(p, id) ==
  /\ p \notin DOMAIN port_translation_map
  /\ id \notin Range(port_translation_map)
  /\ port_translation_map' = BimapInsert(port_translation_map, p, id)
  /\ UNCHANGED <<use_genetlink, kernelVars, sockets, netlink, events, portVars, rx, errno,
                 counters, historyVars>>

-----------------------------------------------------------------------------
(* Packets in.                                                             *)

\* Mutation: a packet that cannot be sent is not counted.
ErrorsUncounted(source, target, from) ==
  LET source_id == TranslatePort("kForController", port_translation_map, source)
  IN \/ /\ source_id.ok
        /\ last' = [from |-> from, to |-> source_id.value]
        /\ counters' = [counters EXCEPT !.packet_in_received = @ + 1]
     \/ /\ ~source_id.ok
        /\ UNCHANGED <<counters, last>>

\* Mutation: the ingress port is reported to be the target port.
TargetForSource(source, target, from) ==
  LET id == TranslatePort("kForController", port_translation_map,
                          IF target = Nobody THEN source ELSE target)
  IN /\ id.ok
     /\ last' = [from |-> from, to |-> id.value]
     /\ counters' = [counters EXCEPT !.packet_in_received = @ + 1]

\* The callback of StartReceive, under server_state_lock_.  An empty target
\* stands for the source.  The primary may be missing.
SendPacketInToController(source, target, from) ==
  LET source_id == TranslatePort("kForController", port_translation_map, source)
      target_id == IF target = Nobody THEN source_id
                   ELSE TranslatePort("kForController", port_translation_map, target)
  IN \/ /\ source_id.ok /\ target_id.ok
        /\ last' = [from |-> from, to |-> source_id.value]
        /\ counters' = [counters EXCEPT !.packet_in_received = @ + 1]
     \/ /\ counters' = [counters EXCEPT !.packet_in_errors = @ + 1]
        /\ UNCHANGED last

\* port_select_.select(&sel) finds a selectable with data, and is about to
\* call its readData.
Select(p) ==
  /\ ~use_genetlink
  /\ rx.pc = "select"
  /\ p \in DOMAIN port_to_selectables
  /\ sockets[port_to_selectables[p]].queue # <<>>
  /\ rx' = [Selecting EXCEPT !.pc = "read", !.port = p, !.fd = port_to_selectables[p]]
  /\ UNCHANGED <<use_genetlink, kernelVars, sockets, netlink, events, portVars,
                 port_translation_map, errno, counters, historyVars>>

\* The loop of readData looks at errno, which a read that succeeds leaves as
\* it was: once it is EINTR, every packet is read over by the next one.  A
\* closed descriptor is an error other than EINTR; one that was opened again
\* for another port has that port's packets.
ReadData ==
  /\ rx.pc = "read"
  /\ IF rx.fd \notin DOMAIN sockets
     THEN /\ rx' = Selecting
          /\ errno' = FALSE
          /\ UNCHANGED <<sockets, lost>>
     ELSE /\ sockets[rx.fd].queue # <<>>
          /\ sockets' = [sockets EXCEPT ![rx.fd].queue = Tail(@)]
          /\ IF errno
             THEN lost' = lost + 1 /\ UNCHANGED rx
             ELSE /\ rx' = [rx EXCEPT !.pc = "callback", !.packet = Head(sockets[rx.fd].queue)]
                  /\ UNCHANGED lost
          /\ UNCHANGED errno
  /\ UNCHANGED <<use_genetlink, kernelVars, netlink, events, portVars, port_translation_map,
                 counters, arrived, handled, last, failed>>

\* The name is read through a reference to the selectable, under the lock.
Callback ==
  /\ rx.pc = "callback"
  /\ \E source \in IF rx.gone THEN PortNames \cup {Nobody} ELSE {rx.port} :
       SendPacketInToController(source, Nobody, rx.packet)
  /\ rx' = Selecting
  /\ UNCHANGED <<use_genetlink, kernelVars, sockets, netlink, events, portVars,
                 port_translation_map, errno, arrived, handled, lost, failed>>

\* A 16 bit index is passed as a signed number: the upper half is refused.
GetIfname(ifindex) ==
  IF ifindex < 2^15 /\ \E p \in PortNames : netdev[p] = ifindex
  THEN CHOOSE p \in PortNames : netdev[p] = ifindex
  ELSE Nobody

\* Mutation: the thread ends with the first message it cannot process.
BadMessageEndsThread ==
  /\ netlink # <<>>
  /\ GetIfname(Head(netlink).ifindex) # Nobody
  /\ SendPacketInToController(GetIfname(Head(netlink).ifindex), Nobody, Head(netlink).port)
  /\ netlink' = Tail(netlink)
  /\ UNCHANGED <<use_genetlink, kernelVars, sockets, events, portVars, port_translation_map, rx,
                 errno, arrived, handled, lost, failed>>

\* A message whose source has no name is skipped, and one with a target that
\* has no name is taken for a packet to its source.
ProcessReceiveMessage ==
  /\ netlink # <<>>
  /\ LET msg == Head(netlink)
         source == GetIfname(msg.ifindex)
     IN IF source = Nobody
        THEN lost' = lost + 1 /\ UNCHANGED <<counters, last>>
        ELSE /\ \E target \in PortNames \cup {Nobody} :
                  SendPacketInToController(source, target, msg.port)
             /\ UNCHANGED lost
  /\ netlink' = Tail(netlink)
  /\ UNCHANGED <<use_genetlink, kernelVars, sockets, events, portVars, port_translation_map, rx,
                 errno, arrived, handled, failed>>

-----------------------------------------------------------------------------
(* Packets out.                                                            *)

\* The interface of the descriptor's socket gets the packet, if the interface
\* of that name is up, the descriptor open and the socket's own interface
\* still there.
SendPacketOut(id) ==
  LET name == TranslatePort("kForOrchAgent", port_translation_map, id)
  IN /\ name.ok
     /\ name.value \in DOMAIN port_to_socket
     /\ netdev[name.value] # 0
     /\ port_to_socket[name.value] \in DOMAIN sockets
     /\ LET ifindex == sockets[port_to_socket[name.value]].ifindex
        IN \E p \in PortNames :
             /\ netdev[p] = ifindex
             /\ last' = [from |-> id, to |-> p]
     /\ UNCHANGED <<use_genetlink, kernelVars, sockets, netlink, events, portVars,
                    port_translation_map, rx, errno, counters, arrived, handled, lost,
                    failed>>

Next ==
  \/ \E p \in PortNames :
       \/ CreateNetdev(p) \/ DeleteNetdev(p) \/ Arrive(p) \/ Select(p)
       \/ \E set \in BOOLEAN : Announce(p, set)
       \/ RemovePortTranslation(p)
       \/ \E id \in PortIds : AddPortTranslation(p, id)
  \/ Interrupt \/ HandleEvent \/ ReadData \/ Callback \/ ProcessReceiveMessage
  \/ \E id \in PortIds : SendPacketOut(id)

\* The receive thread and the event thread never stop; the lock they take is
\* always given back.
Fairness ==
  /\ WF_vars(HandleEvent) /\ WF_vars(ReadData) /\ WF_vars(Callback)
  /\ WF_vars(ProcessReceiveMessage)
  /\ WF_vars(\E p \in PortNames : Select(p))

Spec == Init /\ [][Next]_vars /\ Fairness

-----------------------------------------------------------------------------
(* Properties.                                                             *)

Queued == Len(netlink) + SumFunction([fd \in DOMAIN sockets |-> Len(sockets[fd].queue)])

\* The process holds exactly one open descriptor for each port it has, and
\* selects on exactly those, whatever events came and failed: no descriptor
\* is leaked and none is closed while in use.  Once every event is handled, the
\* ports with a socket are those of APPL_STATE_DB, but for those whose interface
\* was missing when they came.
OneSocketPerPort ==
  /\ Range(port_to_socket) = DOMAIN sockets
  /\ IsInjective(port_to_socket)
  /\ port_to_selectables = IF use_genetlink THEN <<>> ELSE port_to_socket
  /\ events = <<>> => DOMAIN port_to_socket = announced \ failed

\* Every packet that arrived is queued, in the thread's hands, counted as sent
\* or as an error, or was lost in one of three ways: read over after an
\* interrupt, closed with its socket, or skipped for want of a port name.
PacketsAreAccountedFor ==
  arrived = Queued + (IF rx.pc = "callback" THEN 1 ELSE 0)
              + counters.packet_in_received + counters.packet_in_errors + lost

\* A packet in carries the id of the port it arrived at, at the time of the
\* sending; only a port that was removed between the read and the callback
\* may be confused with another one.
PacketInNamesItsPort ==
  [][counters'.packet_in_received > counters.packet_in_received /\ ~rx.gone =>
       /\ last'.from \in DOMAIN port_translation_map
       /\ last'.to = port_translation_map[last'.from]]_vars

\* A packet out leaves by the port the controller named, also while
\* interfaces, ports and ids change: never by another one.
PacketOutLeavesByItsPort ==
  [][last' # last /\ counters' = counters =>
       /\ last'.to \in DOMAIN port_translation_map
       /\ port_translation_map[last'.to] = last'.from]_vars

\* The receive thread empties the sockets and the netlink group, unless it was
\* interrupted, or its port was removed just before the read and the
\* descriptor it is about to read belongs to another port by now.
PacketsAreRead == []<>(Queued = 0 \/ errno \/ rx.gone)
=============================================================================

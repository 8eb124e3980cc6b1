--------------------------- MODULE PacketIoProofs ---------------------------
(***************************************************************************)
(* Proofs about PacketIo, for any ports, ids, interface indexes and bounds.*)
(*                                                                         *)
(* The inductive invariant says which descriptor belongs to which port     *)
(* (OneSocketPerPort), that an interface index once given out stands for   *)
(* one port for ever (IndexesAreOwned), what the receive thread holds      *)
(* (ReceiverHoldsItsPort) and what the events still to be handled will     *)
(* make of the ports (PendingEventsDecide).                                *)
(***************************************************************************)
EXTENDS PacketIo, CollectionTheorems

Messages == [ifindex : Nat, port : PortNames]
Sockets == [ifindex : Nat, queue : Seq(PortNames)]

\* The types of all variables.
TypeOK ==
  /\ use_genetlink \in BOOLEAN
  /\ netdev \in [PortNames -> Nat]
  /\ created \in Nat
  /\ DOMAIN sockets \subseteq Nat \ {0} /\ IsFiniteSet(DOMAIN sockets)
  /\ sockets \in [DOMAIN sockets -> Sockets]
  /\ netlink \in Seq(Messages)
  /\ announced \subseteq PortNames
  /\ events \in Seq([port : PortNames, set : BOOLEAN])
  /\ DOMAIN port_to_socket \subseteq PortNames
  /\ port_to_socket \in [DOMAIN port_to_socket -> Nat \ {0}]
  /\ DOMAIN port_translation_map \subseteq PortNames
  /\ port_translation_map \in [DOMAIN port_translation_map -> PortIds]
  /\ rx \in [pc : {"select", "read", "callback"}, port : PortNames \cup {Nobody}, fd : Nat,
             packet : PortNames \cup {Nobody}, gone : BOOLEAN]
  /\ errno \in BOOLEAN
  /\ counters \in [packet_in_received : Nat, packet_in_errors : Nat]
  /\ arrived \in Nat /\ handled \in Nat /\ lost \in Nat
  /\ failed \subseteq PortNames

\* OneSocketPerPort without its last conjunct.
SocketsMatchPorts ==
  /\ Range(port_to_socket) = DOMAIN sockets
  /\ IsInjective(port_to_socket)
  /\ port_to_selectables = IF use_genetlink THEN <<>> ELSE port_to_socket

\* Indexes are given out in order and never twice: an interface that has the
\* index of another one's packet or socket does not exist.
IndexesAreOwned ==
  /\ \A p \in PortNames : netdev[p] <= created
  /\ \A p, q \in PortNames : netdev[p] = netdev[q] /\ netdev[p] # 0 => p = q
  /\ \A p \in DOMAIN port_to_socket :
       LET socket == sockets[port_to_socket[p]]
       IN /\ socket.ifindex \in 1..created
          /\ \A q \in PortNames : netdev[q] = socket.ifindex => q = p
          /\ \A j \in DOMAIN socket.queue : socket.queue[j] = p
  /\ \A j \in DOMAIN netlink :
       /\ netlink[j].ifindex \in 1..created
       /\ \A q \in PortNames : netdev[q] = netlink[j].ifindex => q = netlink[j].port

\* The thread reads from its port's descriptor, and what it has read is its
\* port's, unless that port was removed meanwhile.
ReceiverHoldsItsPort ==
  /\ rx.pc = "select" => rx = Selecting
  /\ rx.pc # "select" /\ ~rx.gone =>
       /\ rx.port \in DOMAIN port_to_socket
       /\ rx.fd = port_to_socket[rx.port]
  /\ rx.pc = "callback" /\ ~rx.gone => rx.packet = rx.port

\* The last event of a port agrees with APPL_STATE_DB; a port without one has
\* a socket exactly if it is announced and could be added.
PendingEventsDecide ==
  /\ DOMAIN port_to_socket \cap failed = {}
  /\ \A i \in DOMAIN events :
       (\A j \in DOMAIN events : j > i => events[j].port # events[i].port)
         => (events[i].set <=> events[i].port \in announced)
  /\ \A p \in PortNames :
       (\A i \in DOMAIN events : events[i].port # p)
         => (p \in DOMAIN port_to_socket <=> p \in announced \ failed)

IndInv ==
  /\ TypeOK
  /\ SocketsMatchPorts
  /\ IndexesAreOwned
  /\ ReceiverHoldsItsPort
  /\ PendingEventsDecide

-----------------------------------------------------------------------------
(* The lowest free descriptor is one that is not open.                     *)

\* A nonempty set of natural numbers has a smallest member.
LEMMA MinIn ==
  ASSUME NEW S, S # {}, NEW n \in Nat, S \subseteq 0..n
  PROVE  Min(S) \in S
  BY LeastMember DEF Min

\* CreatePacketIoSocket never gets a descriptor that is in use.
LEMMA LowestFreeFdIsFree ==
  ASSUME TypeOK
  PROVE  LowestFreeFd \in Nat \ {0} /\ LowestFreeFd \notin DOMAIN sockets
  <1> DEFINE D == DOMAIN sockets
             n == Cardinality(D)
             S == (1..(n + 1)) \ D
  <1>1. IsFiniteSet(D) /\ n \in Nat
    BY FS_CardinalityType DEF TypeOK
  <1>2. S # {}
    <2>1. SUFFICES ASSUME 1..(n + 1) \subseteq D PROVE FALSE
      OBVIOUS
    <2>2. Cardinality(1..(n + 1)) = n + 1
      BY <1>1, FS_Interval
    <2>3. Cardinality(1..(n + 1)) <= n
      BY <1>1, <2>1, FS_Subset
    <2> QED BY <1>1, <2>2, <2>3
  <1>3. S \in SUBSET Nat /\ n + 1 \in Nat /\ S \subseteq 0..(n + 1)
    BY <1>1
  <1>4. Min(S) \in S
    <2> HIDE DEF S, n, D
    <2> QED BY <1>2, <1>3, MinIn
  <1> QED BY <1>1, <1>4 DEF LowestFreeFd

-----------------------------------------------------------------------------
(* The inductive invariant holds initially and is preserved.               *)

\* It holds when the process starts.
LEMMA InitIndInv == Init => IndInv
  <1> SUFFICES ASSUME Init PROVE IndInv
    OBVIOUS
  <1> USE DEF Init
  <1>1. TypeOK
    <2>1. DOMAIN sockets = {} /\ DOMAIN port_to_socket = {} /\ DOMAIN port_translation_map = {}
      OBVIOUS
    <2>2. /\ sockets \in [DOMAIN sockets -> Sockets]
          /\ port_to_socket \in [DOMAIN port_to_socket -> Nat \ {0}]
          /\ port_translation_map \in [DOMAIN port_translation_map -> PortIds]
      OBVIOUS
    <2>3. netlink \in Seq(Messages) /\ events \in Seq([port : PortNames, set : BOOLEAN])
      OBVIOUS
    <2>4. rx \in [pc : {"select", "read", "callback"}, port : PortNames \cup {Nobody}, fd : Nat,
                  packet : PortNames \cup {Nobody}, gone : BOOLEAN]
      BY DEF Selecting
    <2>5. netdev \in [PortNames -> Nat] /\ counters \in [packet_in_received : Nat, packet_in_errors : Nat]
      OBVIOUS
    <2> QED BY <2>1, <2>2, <2>3, <2>4, <2>5, FS_EmptySet DEF TypeOK
  <1>2. SocketsMatchPorts
    BY DEF SocketsMatchPorts, Range, IsInjective
  <1>3. IndexesAreOwned
    BY DEF IndexesAreOwned
  <1>4. ReceiverHoldsItsPort
    BY DEF ReceiverHoldsItsPort, Selecting
  <1>5. PendingEventsDecide
    BY DEF PendingEventsDecide
  <1> QED BY <1>1, <1>2, <1>3, <1>4, <1>5 DEF IndInv

\* The kernel creates an interface, with an index nobody had before.
LEMMA CreateNetdevInv ==
  ASSUME IndInv, NEW p \in PortNames, CreateNetdev(p)
  PROVE  IndInv'
  <1> USE DEF CreateNetdev, portVars, historyVars
  <1>0. PICK i \in IfIndexes : /\ i > created
                               /\ netdev' = [netdev EXCEPT ![p] = i]
                               /\ created' = i
    OBVIOUS
  <1>1. i \in Nat \ {0}
    BY PacketIoConstants
  <1>2. TypeOK'
    <2>1. netdev' \in [PortNames -> Nat]
      BY <1>1, <1>0 DEF IndInv, TypeOK
    <2> QED BY <1>0, <1>1, <2>1 DEF IndInv, TypeOK
  <1>3. SocketsMatchPorts'
    BY DEF IndInv, SocketsMatchPorts
  <1>4. IndexesAreOwned'
    BY <1>0, <1>1 DEF IndInv, TypeOK, IndexesAreOwned
  <1>5. ReceiverHoldsItsPort'
    BY DEF IndInv, ReceiverHoldsItsPort
  <1>6. PendingEventsDecide'
    BY DEF IndInv, PendingEventsDecide
  <1> QED BY <1>2, <1>3, <1>4, <1>5, <1>6 DEF IndInv

\* The kernel deletes one: nobody gets its index any more.
LEMMA DeleteNetdevInv ==
  ASSUME IndInv, NEW p \in PortNames, DeleteNetdev(p)
  PROVE  IndInv'
  <1> USE DEF DeleteNetdev, portVars, historyVars
  <1>1. TypeOK'
    BY DEF IndInv, TypeOK
  <1>2. SocketsMatchPorts'
    BY DEF IndInv, SocketsMatchPorts
  <1>3. IndexesAreOwned'
    BY DEF IndInv, TypeOK, IndexesAreOwned
  <1>4. ReceiverHoldsItsPort'
    BY DEF IndInv, ReceiverHoldsItsPort
  <1>5. PendingEventsDecide'
    BY DEF IndInv, PendingEventsDecide
  <1> QED BY <1>1, <1>2, <1>3, <1>4, <1>5 DEF IndInv

\* A row appears in APPL_STATE_DB or goes, and its event is queued.
LEMMA AnnounceInv ==
  ASSUME IndInv, NEW p \in PortNames, NEW set \in BOOLEAN, Announce(p, set)
  PROVE  IndInv'
  <1> USE DEF Announce, portVars, historyVars
  <1>1. TypeOK'
    <2>1. events' \in Seq([port : PortNames, set : BOOLEAN])
      BY DEF IndInv, TypeOK
    <2>2. announced' \subseteq PortNames
      BY DEF IndInv, TypeOK
    <2> QED BY <2>1, <2>2 DEF IndInv, TypeOK
  <1>2. SocketsMatchPorts'
    BY DEF IndInv, SocketsMatchPorts
  <1>3. IndexesAreOwned'
    BY DEF IndInv, IndexesAreOwned
  <1>4. ReceiverHoldsItsPort'
    BY DEF IndInv, ReceiverHoldsItsPort
  <1>5. PendingEventsDecide'
    <2> DEFINE n == Len(events)
    <2>1. /\ events \in Seq([port : PortNames, set : BOOLEAN]) /\ n \in Nat
          /\ DOMAIN events = 1..n
          /\ DOMAIN events' = 1..(n + 1)
          /\ \A i \in 1..n : events'[i] = events[i]
          /\ events'[n + 1] = [port |-> p, set |-> set]
      BY DEF IndInv, TypeOK
    <2>2. /\ p \in announced' <=> set
          /\ \A q \in PortNames : q # p => (q \in announced' <=> q \in announced)
      OBVIOUS
    <2>3. \A i \in 1..n : events[i].port \in PortNames
      <3>1. \A i \in 1..Len(events) : events[i] \in [port : PortNames, set : BOOLEAN]
        BY <2>1, ElementOfSeq
      <3> QED BY <3>1
    <2>4. ASSUME NEW i \in DOMAIN events',
                 \A j \in DOMAIN events' : j > i => events'[j].port # events'[i].port
          PROVE  events'[i].set <=> events'[i].port \in announced'
      <3>1. CASE i = n + 1
        BY <3>1, <2>1, <2>2
      <3>2. CASE i # n + 1
        <4>1. i \in 1..n /\ n + 1 > i /\ n + 1 \in DOMAIN events'
          BY <3>2, <2>1
        <4>2. events[i].port # p
          BY <4>1, <2>1, <2>4
        <4>3. \A j \in 1..n : j > i => events[j].port # events[i].port
          BY <4>1, <2>1, <2>4
        <4>4. events[i].set <=> events[i].port \in announced
          BY <4>1, <4>3, <2>1 DEF IndInv, PendingEventsDecide
        <4> QED BY <4>1, <4>2, <4>4, <2>1, <2>2, <2>3
      <3> QED BY <3>1, <3>2
    <2>5. ASSUME NEW q \in PortNames, \A i \in DOMAIN events' : events'[i].port # q
          PROVE  q \in DOMAIN port_to_socket <=> q \in announced' \ failed
      <3>1. n + 1 \in DOMAIN events' /\ \A i \in 1..n : i \in DOMAIN events'
        BY <2>1
      <3>2. q # p
        BY <3>1, <2>1, <2>5
      <3>3. \A i \in DOMAIN events : events[i].port # q
        BY <3>1, <2>1, <2>5
      <3> QED BY <3>2, <3>3, <2>2 DEF IndInv, PendingEventsDecide
    <2> QED BY <2>4, <2>5 DEF IndInv, PendingEventsDecide
  <1> QED BY <1>1, <1>2, <1>3, <1>4, <1>5 DEF IndInv

\* A packet is queued on the socket of the port it came by.
LEMMA ArriveInv ==
  ASSUME IndInv, NEW p \in PortNames, Arrive(p)
  PROVE  IndInv'
  <1>0. /\ UNCHANGED <<use_genetlink, netdev, created, announced, events, port_to_socket,
                      port_to_selectables, port_translation_map, rx, errno, counters, handled,
                      last, lost, failed>>
        /\ arrived' = arrived + 1
        /\ netdev[p] # 0
    BY DEF Arrive, portVars, kernelVars
  <1>1. CASE use_genetlink
    <2> DEFINE msg == [ifindex |-> netdev[p], port |-> p]
    <2>1. /\ netlink' = Append(netlink, msg) /\ netlink \in Seq(Messages) /\ msg \in Messages
      BY <1>1 DEF Arrive, IndInv, TypeOK, Messages
    <2>0. UNCHANGED sockets
      BY <1>1 DEF Arrive
    <2>2. TypeOK'
      <3>1. netlink' \in Seq(Messages)
        BY <2>1
      <3>2. arrived' \in Nat
        BY <1>0 DEF IndInv, TypeOK
      <3> QED BY <3>1, <3>2, <2>0, <1>0 DEF IndInv, TypeOK
    <2>3. SocketsMatchPorts'
      BY <2>0, <1>0 DEF IndInv, SocketsMatchPorts
    <2>4. IndexesAreOwned'
      <3>1. ASSUME NEW j \in DOMAIN netlink'
            PROVE  /\ netlink'[j].ifindex \in 1..created
                   /\ \A q \in PortNames : netdev[q] = netlink'[j].ifindex => q = netlink'[j].port
        <4>1. CASE j = Len(netlink) + 1
          <5>1. netlink'[j] = msg
            BY <2>1, <4>1
          <5> QED BY <5>1, <1>0 DEF IndInv, TypeOK, IndexesAreOwned
        <4>2. CASE j # Len(netlink) + 1
          <5>1. j \in DOMAIN netlink /\ netlink'[j] = netlink[j]
            BY <2>1, <4>2
          <5> QED BY <5>1 DEF IndInv, IndexesAreOwned
        <4> QED BY <4>1, <4>2
      <3> QED BY <3>1, <2>0, <1>0 DEF IndInv, IndexesAreOwned
    <2>5. ReceiverHoldsItsPort'
      BY <1>0 DEF IndInv, ReceiverHoldsItsPort
    <2>6. PendingEventsDecide'
      BY <1>0 DEF IndInv, PendingEventsDecide
    <2> QED BY <2>2, <2>3, <2>4, <2>5, <2>6 DEF IndInv
  <1>2. CASE ~use_genetlink
    <2>1. PICK fd \in DOMAIN sockets :
            /\ sockets[fd].ifindex = netdev[p]
            /\ sockets' = [sockets EXCEPT ![fd].queue = Append(@, p)]
      BY <1>2 DEF Arrive
    <2>2. UNCHANGED netlink
      BY <1>2 DEF Arrive
    <2>3. /\ sockets \in [DOMAIN sockets -> Sockets]
          /\ sockets[fd] \in Sockets
      BY DEF IndInv, TypeOK
    <2>4. /\ DOMAIN sockets' = DOMAIN sockets
          /\ sockets'[fd] = [ifindex |-> netdev[p], queue |-> Append(sockets[fd].queue, p)]
          /\ \A x \in DOMAIN sockets : x # fd => sockets'[x] = sockets[x]
      BY <2>1, <2>3 DEF Sockets
    <2>5. TypeOK'
      <3>1. sockets'[fd] \in Sockets
        BY <2>3, <2>4 DEF Sockets, IndInv, TypeOK
      <3>2. sockets' \in [DOMAIN sockets' -> Sockets]
        BY <2>1, <2>3, <2>4, <3>1
      <3>3. arrived' \in Nat
        BY <1>0 DEF IndInv, TypeOK
      <3> QED BY <1>0, <2>2, <2>4, <3>2, <3>3 DEF IndInv, TypeOK
    <2>6. SocketsMatchPorts'
      BY <1>0, <2>4 DEF IndInv, SocketsMatchPorts
    <2>7. IndexesAreOwned'
      <3>1. ASSUME NEW q \in DOMAIN port_to_socket
            PROVE  LET socket == sockets'[port_to_socket[q]]
                   IN /\ socket.ifindex \in 1..created
                      /\ \A r \in PortNames : netdev[r] = socket.ifindex => r = q
                      /\ \A j \in DOMAIN socket.queue : socket.queue[j] = q
        <4>1. CASE port_to_socket[q] = fd
          <5>1. p = q
            BY <4>1, <2>1 DEF IndInv, IndexesAreOwned
          <5>2. ASSUME NEW j \in DOMAIN Append(sockets[fd].queue, p)
                PROVE  Append(sockets[fd].queue, p)[j] = q
            <6>1. sockets[fd].queue \in Seq(PortNames)
              BY <2>3 DEF Sockets
            <6>2. \A k \in DOMAIN sockets[fd].queue : sockets[fd].queue[k] = q
              BY <4>1 DEF IndInv, IndexesAreOwned
            <6> QED BY <6>1, <6>2, <5>1
          <5>3. sockets[fd].ifindex \in 1..created /\ \A r \in PortNames : netdev[r] = sockets[fd].ifindex => r = q
            BY <4>1 DEF IndInv, IndexesAreOwned
          <5>4. /\ sockets'[fd].ifindex = sockets[fd].ifindex
                /\ sockets'[fd].queue = Append(sockets[fd].queue, p)
            BY <2>1, <2>4
          <5> QED BY <4>1, <5>2, <5>3, <5>4
        <4>2. CASE port_to_socket[q] # fd
          <5>1. port_to_socket[q] \in DOMAIN sockets
            BY DEF IndInv, SocketsMatchPorts, Range
          <5>2. sockets'[port_to_socket[q]] = sockets[port_to_socket[q]]
            BY <4>2, <5>1, <2>4
          <5> QED BY <5>2 DEF IndInv, IndexesAreOwned
        <4> QED BY <4>1, <4>2
      <3> QED BY <3>1, <2>2, <1>0 DEF IndInv, IndexesAreOwned
    <2>8. ReceiverHoldsItsPort'
      BY <1>0 DEF IndInv, ReceiverHoldsItsPort
    <2>9. PendingEventsDecide'
      BY <1>0 DEF IndInv, PendingEventsDecide
    <2> QED BY <2>5, <2>6, <2>7, <2>8, <2>9 DEF IndInv
  <1> QED BY <1>1, <1>2 DEF IndInv, TypeOK

\* The first event goes: what the others say of APPL_STATE_DB stays, and its
\* own port is settled if none of them is about it.
LEMMA TailDecides ==
  ASSUME IndInv, events # <<>>, events' = Tail(events), announced' = announced,
         DOMAIN port_to_socket' \cap failed' = {},
         \A q \in PortNames : q # Head(events).port =>
           (q \in DOMAIN port_to_socket' <=> q \in DOMAIN port_to_socket) /\ (q \in failed' <=> q \in failed),
         Head(events).set =>
           (Head(events).port \in DOMAIN port_to_socket' <=> Head(events).port \notin failed'),
         ~Head(events).set => Head(events).port \notin DOMAIN port_to_socket'
  PROVE  PendingEventsDecide'
  <1> DEFINE n == Len(events)
             e == Head(events)
  <1>1. /\ events \in Seq([port : PortNames, set : BOOLEAN]) /\ n \in Nat \ {0}
        /\ DOMAIN events = 1..n
        /\ DOMAIN events' = 1..(n - 1)
        /\ \A i \in 1..(n - 1) : events'[i] = events[i + 1]
        /\ events[1] = e
    BY DEF IndInv, TypeOK
  <1>2. \A i \in 1..n : events[i] \in [port : PortNames, set : BOOLEAN]
    BY <1>1, ElementOfSeq
  <1>3. ASSUME NEW i \in DOMAIN events',
               \A j \in DOMAIN events' : j > i => events'[j].port # events'[i].port
        PROVE  events'[i].set <=> events'[i].port \in announced'
    <2>1. i + 1 \in DOMAIN events /\ events'[i] = events[i + 1]
      BY <1>1
    <2>2. ASSUME NEW j \in DOMAIN events, j > i + 1
          PROVE  events[j].port # events[i + 1].port
      <3>1. j - 1 \in DOMAIN events' /\ j - 1 > i /\ events'[j - 1] = events[j]
        BY <1>1, <2>2
      <3> QED BY <3>1, <2>1, <1>3
    <2> HIDE DEF n, e
    <2> QED BY <2>1, <2>2 DEF IndInv, PendingEventsDecide
  <1>4. ASSUME NEW q \in PortNames, \A i \in DOMAIN events' : events'[i].port # q
        PROVE  q \in DOMAIN port_to_socket' <=> q \in announced' \ failed'
    <2>1. \A j \in DOMAIN events : j > 1 => events[j].port # q
      <3> SUFFICES ASSUME NEW j \in DOMAIN events, j > 1 PROVE events[j].port # q
        OBVIOUS
      <3>1. j - 1 \in DOMAIN events' /\ events'[j - 1] = events[j]
        BY <1>1
      <3> QED BY <3>1, <1>4
    <2>2. CASE q = e.port
      <3>1. 1 \in DOMAIN events /\ events[1].port = q
        BY <1>1, <2>2
      <3>2. events[1].set <=> q \in announced
        BY <3>1, <2>1 DEF IndInv, PendingEventsDecide
      <3>3. e.set <=> q \in announced
        BY <3>2, <1>1
      <3> QED BY <3>3, <2>2
    <2>3. CASE q # e.port
      <3>1. \A j \in DOMAIN events : events[j].port # q
        BY <2>1, <2>3, <1>1
      <3>2. q \in DOMAIN port_to_socket <=> q \in announced \ failed
        BY <3>1 DEF IndInv, PendingEventsDecide
      <3> QED BY <3>2, <2>3
    <2> QED BY <2>2, <2>3
  <1> QED BY <1>3, <1>4 DEF PendingEventsDecide

\* The event of a port that came: it gets a descriptor no other port has, or
\* none and is remembered as failed.
LEMMA HandleSetInv ==
  ASSUME IndInv, HandleEvent, Head(events).set
  PROVE  IndInv'
  <1> DEFINE p == Head(events).port
             new == CreatePacketIoSocket(p)
  <1>0. /\ UNCHANGED <<use_genetlink, netdev, created, announced, netlink, rx, lost,
                       port_translation_map, errno, counters, arrived, last>>
        /\ events # <<>>
        /\ events' = Tail(events)
        /\ handled' = handled + 1
        /\ AddPacketIoPort(p)
    BY DEF HandleEvent, kernelVars
  <1>1. p \in PortNames
    <2>1. events \in Seq([port : PortNames, set : BOOLEAN])
      BY DEF IndInv, TypeOK
    <2>2. Head(events) \in [port : PortNames, set : BOOLEAN]
      BY <2>1, <1>0, HeadTailProperties
    <2> QED BY <2>2
  <1>2. events' \in Seq([port : PortNames, set : BOOLEAN]) /\ handled' \in Nat
    BY <1>0 DEF IndInv, TypeOK
  <1> HIDE DEF p
  <1>3. CASE UNCHANGED <<sockets, portVars, failed>>  /\ (p \in DOMAIN port_to_socket)
    <2>1. TypeOK'
      BY <1>0, <1>2, <1>3 DEF IndInv, TypeOK, portVars
    <2>2. SocketsMatchPorts'
      BY <1>0, <1>3 DEF IndInv, SocketsMatchPorts, portVars
    <2>3. IndexesAreOwned'
      BY <1>0, <1>3 DEF IndInv, IndexesAreOwned, portVars
    <2>4. ReceiverHoldsItsPort'
      BY <1>0, <1>3 DEF IndInv, ReceiverHoldsItsPort, portVars
    <2>5. PendingEventsDecide'
      <3>1. p \notin failed /\ UNCHANGED <<port_to_socket, failed>>
        BY <1>3 DEF IndInv, PendingEventsDecide, portVars
      <3>2. DOMAIN port_to_socket \cap failed = {}
        BY DEF IndInv, PendingEventsDecide
      <3> QED BY <1>0, <1>3, <3>1, <3>2, TailDecides DEF p
    <2> QED BY <2>1, <2>2, <2>3, <2>4, <2>5 DEF IndInv
  <1>4. CASE p \notin DOMAIN port_to_socket /\ netdev[p] = 0
    <2>0. failed' = failed \cup {p} /\ UNCHANGED <<sockets, port_to_socket, port_to_selectables>>
      BY <1>0, <1>4 DEF AddPacketIoPort, CreatePacketIoSocket, portVars
    <2>1. TypeOK'
      <3>1. failed' \subseteq PortNames
        BY <2>0, <1>1 DEF IndInv, TypeOK
      <3> QED BY <1>0, <1>2, <2>0, <3>1 DEF IndInv, TypeOK
    <2>2. SocketsMatchPorts'
      BY <1>0, <2>0 DEF IndInv, SocketsMatchPorts
    <2>3. IndexesAreOwned'
      BY <1>0, <2>0 DEF IndInv, IndexesAreOwned
    <2>4. ReceiverHoldsItsPort'
      BY <1>0, <2>0 DEF IndInv, ReceiverHoldsItsPort
    <2>5. PendingEventsDecide'
      <3>1. DOMAIN port_to_socket' \cap failed' = {}
        BY <2>0, <1>4 DEF IndInv, PendingEventsDecide
      <3> QED BY <1>0, <1>4, <2>0, <3>1, TailDecides DEF p
    <2> QED BY <2>1, <2>2, <2>3, <2>4, <2>5 DEF IndInv
  <1>5. CASE p \notin DOMAIN port_to_socket /\ netdev[p] # 0
    <2> DEFINE fd == LowestFreeFd
               socket == [ifindex |-> netdev[p], queue |-> <<>>]
    <2>1. fd \in Nat \ {0} /\ fd \notin DOMAIN sockets
      BY LowestFreeFdIsFree DEF IndInv
    <2>2. /\ sockets' = MapInsert(sockets, fd, socket)
          /\ port_to_socket' = MapInsert(port_to_socket, p, fd)
          /\ port_to_selectables' = IF use_genetlink THEN port_to_selectables
                                                    ELSE MapInsert(port_to_selectables, p, fd)
          /\ failed' = failed \ {p}
      BY <1>0, <1>5, <2>1 DEF AddPacketIoPort, CreatePacketIoSocket
    <2> HIDE DEF fd
    <2>3. /\ DOMAIN sockets' = DOMAIN sockets \cup {fd}
          /\ sockets'[fd] = socket
          /\ \A x \in DOMAIN sockets : sockets'[x] = sockets[x]
          /\ DOMAIN port_to_socket' = DOMAIN port_to_socket \cup {p}
          /\ port_to_socket'[p] = fd
          /\ \A q \in DOMAIN port_to_socket : port_to_socket'[q] = port_to_socket[q]
      BY <1>5, <2>1, <2>2 DEF MapInsert
    <2>4. \A q \in DOMAIN port_to_socket : port_to_socket[q] \in DOMAIN sockets
      BY DEF IndInv, SocketsMatchPorts, Range
    <2>5. TypeOK'
      <3>1. IsFiniteSet(DOMAIN sockets') /\ DOMAIN sockets' \subseteq Nat \ {0}
        BY <2>1, <2>3, FS_AddElement DEF IndInv, TypeOK
      <3>2. socket \in Sockets
        BY <1>1 DEF IndInv, TypeOK, Sockets
      <3>3. sockets' \in [DOMAIN sockets' -> Sockets]
        BY <2>2, <2>3, <3>2 DEF IndInv, TypeOK, MapInsert
      <3>4. port_to_socket' \in [DOMAIN port_to_socket' -> Nat \ {0}]
        BY <2>1, <2>2, <2>3 DEF IndInv, TypeOK, MapInsert
      <3>5. DOMAIN port_to_socket' \subseteq PortNames /\ failed' \subseteq PortNames
        BY <1>1, <2>2, <2>3 DEF IndInv, TypeOK
      <3> QED BY <1>0, <1>2, <3>1, <3>3, <3>4, <3>5 DEF IndInv, TypeOK
    <2>6. SocketsMatchPorts'
      <3>1. Range(port_to_socket') = DOMAIN sockets'
        BY <2>3, <1>5 DEF IndInv, SocketsMatchPorts, Range
      <3>2. IsInjective(port_to_socket')
        BY <2>1, <2>3, <2>4 DEF IndInv, SocketsMatchPorts, IsInjective
      <3>3. port_to_selectables' = IF use_genetlink' THEN <<>> ELSE port_to_socket'
        BY <1>0, <2>2 DEF IndInv, SocketsMatchPorts
      <3> QED BY <3>1, <3>2, <3>3 DEF SocketsMatchPorts
    <2>7. IndexesAreOwned'
      <3>1. ASSUME NEW q \in DOMAIN port_to_socket'
            PROVE  LET s == sockets'[port_to_socket'[q]]
                   IN /\ s.ifindex \in 1..created
                      /\ \A r \in PortNames : netdev[r] = s.ifindex => r = q
                      /\ \A j \in DOMAIN s.queue : s.queue[j] = q
        <4>1. CASE q = p
          <5>1. sockets'[port_to_socket'[q]] = socket
            BY <2>3, <4>1
          <5>2. netdev[p] \in 1..created /\ \A r \in PortNames : netdev[r] = netdev[p] => r = p
            BY <1>1, <1>5 DEF IndInv, TypeOK, IndexesAreOwned
          <5> QED BY <5>1, <5>2, <4>1
        <4>2. CASE q # p
          <5>1. q \in DOMAIN port_to_socket
            BY <4>2, <2>3
          <5>2. sockets'[port_to_socket'[q]] = sockets[port_to_socket[q]]
            BY <5>1, <2>3, <2>4
          <5> QED BY <5>1, <5>2 DEF IndInv, IndexesAreOwned
        <4> QED BY <4>1, <4>2
      <3> QED BY <3>1, <1>0 DEF IndInv, IndexesAreOwned
    <2>8. ReceiverHoldsItsPort'
      BY <1>0, <2>3 DEF IndInv, ReceiverHoldsItsPort
    <2>9. PendingEventsDecide'
      <3>1. DOMAIN port_to_socket' \cap failed' = {}
        BY <2>2, <2>3 DEF IndInv, PendingEventsDecide
      <3>2. p \in DOMAIN port_to_socket' /\ p \notin failed'
        BY <2>2, <2>3
      <3> QED BY <1>0, <2>2, <2>3, <3>1, <3>2, TailDecides DEF p
    <2> QED BY <2>5, <2>6, <2>7, <2>8, <2>9 DEF IndInv
  <1>6. p \in DOMAIN port_to_socket => UNCHANGED <<sockets, portVars, failed>>
    BY <1>0 DEF AddPacketIoPort
  <1> QED BY <1>3, <1>4, <1>5, <1>6

\* The event of a port that went: its descriptor is closed, and a thread that
\* was about to use it is marked.
LEMMA HandleDelInv ==
  ASSUME IndInv, HandleEvent, ~Head(events).set
  PROVE  IndInv'
  <1> DEFINE p == Head(events).port
  <1>0. /\ UNCHANGED <<use_genetlink, netdev, created, announced, netlink,
                       port_translation_map, errno, counters, arrived, last>>
        /\ events # <<>>
        /\ events' = Tail(events)
        /\ handled' = handled + 1
        /\ RemovePacketIoPort(p)
    BY DEF HandleEvent, kernelVars
  <1>1. p \in PortNames
    <2>1. events \in Seq([port : PortNames, set : BOOLEAN])
      BY DEF IndInv, TypeOK
    <2>2. Head(events) \in [port : PortNames, set : BOOLEAN]
      BY <2>1, <1>0, HeadTailProperties
    <2> QED BY <2>2
  <1>2. events' \in Seq([port : PortNames, set : BOOLEAN]) /\ handled' \in Nat
    BY <1>0 DEF IndInv, TypeOK
  <1> HIDE DEF p
  <1>3. CASE p \notin DOMAIN port_to_socket
    <2>0. /\ failed' = failed \ {p}
          /\ UNCHANGED <<port_to_socket, port_to_selectables, sockets, rx, lost>>
      BY <1>0, <1>3 DEF RemovePacketIoPort, portVars
    <2>1. TypeOK'
      <3>1. failed' \subseteq PortNames
        BY <2>0 DEF IndInv, TypeOK
      <3> QED BY <1>0, <1>2, <2>0, <3>1 DEF IndInv, TypeOK
    <2>2. SocketsMatchPorts'
      BY <1>0, <2>0 DEF IndInv, SocketsMatchPorts
    <2>3. IndexesAreOwned'
      BY <1>0, <2>0 DEF IndInv, IndexesAreOwned
    <2>4. ReceiverHoldsItsPort'
      BY <1>0, <2>0 DEF IndInv, ReceiverHoldsItsPort
    <2>5. PendingEventsDecide'
      <3>1. DOMAIN port_to_socket' \cap failed' = {}
        BY <2>0 DEF IndInv, PendingEventsDecide
      <3> QED BY <1>0, <1>3, <2>0, <3>1, TailDecides DEF p
    <2> QED BY <2>1, <2>2, <2>3, <2>4, <2>5 DEF IndInv
  <1>4. CASE p \in DOMAIN port_to_socket
    <2> DEFINE fd == port_to_socket[p]
    <2>1. /\ port_to_selectables' = Restrict(port_to_selectables, DOMAIN port_to_selectables \ {p})
          /\ port_to_socket' = Restrict(port_to_socket, DOMAIN port_to_socket \ {p})
          /\ sockets' = Restrict(sockets, DOMAIN sockets \ {fd})
          /\ lost' = lost + Len(sockets[fd].queue)
          /\ rx' = IF rx.port = p THEN [rx EXCEPT !.gone = TRUE] ELSE rx
          /\ UNCHANGED failed
      BY <1>0, <1>4 DEF RemovePacketIoPort
    <2>2. /\ DOMAIN sockets' = DOMAIN sockets \ {fd}
          /\ \A x \in DOMAIN sockets' : sockets'[x] = sockets[x]
          /\ DOMAIN port_to_socket' = DOMAIN port_to_socket \ {p}
          /\ \A q \in DOMAIN port_to_socket' : port_to_socket'[q] = port_to_socket[q]
      BY <2>1 DEF Restrict
    <2>3. fd \in DOMAIN sockets /\ \A q \in DOMAIN port_to_socket : q # p => port_to_socket[q] # fd
      BY <1>4 DEF IndInv, SocketsMatchPorts, Range, IsInjective
    <2>4. \A q \in DOMAIN port_to_socket : port_to_socket[q] \in DOMAIN sockets
      BY DEF IndInv, SocketsMatchPorts, Range
    <2>5. TypeOK'
      <3>1. IsFiniteSet(DOMAIN sockets') /\ DOMAIN sockets' \subseteq Nat \ {0}
        <4>1. IsFiniteSet(DOMAIN sockets) /\ DOMAIN sockets \subseteq Nat \ {0}
          BY DEF IndInv, TypeOK
        <4>2. IsFiniteSet(DOMAIN sockets \ {fd})
          BY <4>1, FS_RemoveElement
        <4> QED BY <4>1, <4>2, <2>2
      <3>2. sockets' \in [DOMAIN sockets' -> Sockets]
        BY <2>1, <2>2 DEF IndInv, TypeOK, Restrict
      <3>3. port_to_socket' \in [DOMAIN port_to_socket' -> Nat \ {0}]
        BY <2>1, <2>2 DEF IndInv, TypeOK, Restrict
      <3>4. lost' \in Nat
        <4>1. sockets[fd].queue \in Seq(PortNames)
          BY <2>3 DEF IndInv, TypeOK, Sockets
        <4>2. Len(sockets[fd].queue) \in Nat
          BY <4>1
        <4>3. lost \in Nat /\ lost' = lost + Len(sockets[fd].queue)
          BY <2>1 DEF IndInv, TypeOK
        <4> HIDE DEF fd
        <4> QED BY ONLY <4>2, <4>3
      <3>5. DOMAIN port_to_socket' \subseteq PortNames
        BY <2>2 DEF IndInv, TypeOK
      <3>6. rx' \in [pc : {"select", "read", "callback"}, port : PortNames \cup {Nobody}, fd : Nat,
                     packet : PortNames \cup {Nobody}, gone : BOOLEAN]
        BY <2>1 DEF IndInv, TypeOK
      <3> QED BY <1>0, <1>2, <2>1, <3>1, <3>2, <3>3, <3>4, <3>5, <3>6 DEF IndInv, TypeOK
    <2>6. SocketsMatchPorts'
      <3>1. Range(port_to_socket') = DOMAIN sockets'
        BY <2>2, <2>3 DEF IndInv, SocketsMatchPorts, Range
      <3>2. IsInjective(port_to_socket')
        BY <2>2 DEF IndInv, SocketsMatchPorts, IsInjective
      <3>3. port_to_selectables' = IF use_genetlink' THEN <<>> ELSE port_to_socket'
        <4>1. CASE use_genetlink
          <5>1. port_to_selectables = <<>>
            BY <4>1 DEF IndInv, SocketsMatchPorts
          <5>2. DOMAIN port_to_selectables \ {p} = {}
            BY <5>1
          <5> QED BY <5>2, <2>1, <4>1, <1>0 DEF Restrict
        <4>2. CASE ~use_genetlink
          BY <2>1, <4>2, <1>0 DEF IndInv, SocketsMatchPorts
        <4> QED BY <4>1, <4>2
      <3> QED BY <3>1, <3>2, <3>3 DEF SocketsMatchPorts
    <2>7. IndexesAreOwned'
      <3>1. ASSUME NEW q \in DOMAIN port_to_socket'
            PROVE  q \in DOMAIN port_to_socket /\ sockets'[port_to_socket'[q]] = sockets[port_to_socket[q]]
        BY <2>2, <2>3, <2>4
      <3> QED BY <3>1, <1>0 DEF IndInv, IndexesAreOwned
    <2>8. ReceiverHoldsItsPort'
      <3>1. rx \in [pc : {"select", "read", "callback"}, port : PortNames \cup {Nobody}, fd : Nat,
                    packet : PortNames \cup {Nobody}, gone : BOOLEAN]
        BY DEF IndInv, TypeOK
      <3>2. CASE rx.port = p
        <4>1. rx.pc # "select"
          BY <3>2, <1>1, PacketIoConstants DEF IndInv, ReceiverHoldsItsPort, Selecting
        <4>2. rx'.pc = rx.pc /\ rx'.gone
          BY <2>1, <3>1, <3>2
        <4> QED BY <4>1, <4>2 DEF ReceiverHoldsItsPort
      <3>3. CASE rx.port # p
        <4>1. rx' = rx
          BY <2>1, <3>3
        <4> QED BY <4>1, <2>2, <3>3 DEF IndInv, ReceiverHoldsItsPort
      <3> QED BY <3>2, <3>3
    <2>9. PendingEventsDecide'
      <3>1. DOMAIN port_to_socket' \cap failed' = {}
        BY <2>1, <2>2 DEF IndInv, PendingEventsDecide
      <3> QED BY <1>0, <2>1, <2>2, <3>1, TailDecides DEF p
    <2> QED BY <2>5, <2>6, <2>7, <2>8, <2>9 DEF IndInv
  <1> QED BY <1>3, <1>4

\* The thread takes a packet off the descriptor it has, unless it is closed.
LEMMA ReadDataInv ==
  ASSUME IndInv, ReadData
  PROVE  IndInv'
  <1>0. /\ UNCHANGED <<use_genetlink, netdev, created, announced, netlink, events, port_to_socket,
                       port_to_selectables, port_translation_map, counters, arrived, handled,
                       last, failed>>
        /\ rx.pc = "read"
    BY DEF ReadData, kernelVars, portVars
  <1>1. CASE rx.fd \notin DOMAIN sockets
    <2>0. rx' = Selecting /\ errno' = FALSE /\ UNCHANGED <<sockets, lost>>
      BY <1>1 DEF ReadData
    <2>1. TypeOK'
      <3>1. rx' \in [pc : {"select", "read", "callback"}, port : PortNames \cup {Nobody}, fd : Nat,
                     packet : PortNames \cup {Nobody}, gone : BOOLEAN]
        BY <2>0 DEF Selecting
      <3> QED BY <1>0, <2>0, <3>1 DEF IndInv, TypeOK
    <2>2. SocketsMatchPorts'
      BY <1>0, <2>0 DEF IndInv, SocketsMatchPorts
    <2>3. IndexesAreOwned'
      BY <1>0, <2>0 DEF IndInv, IndexesAreOwned
    <2>4. ReceiverHoldsItsPort'
      BY <2>0 DEF ReceiverHoldsItsPort, Selecting
    <2>5. PendingEventsDecide'
      BY <1>0 DEF IndInv, PendingEventsDecide
    <2> QED BY <2>1, <2>2, <2>3, <2>4, <2>5 DEF IndInv
  <1>2. CASE rx.fd \in DOMAIN sockets
    <2> DEFINE fd == rx.fd
               queue == sockets[fd].queue
    <2>1. /\ queue # <<>>
          /\ sockets' = [sockets EXCEPT ![fd].queue = Tail(@)]
          /\ IF errno THEN lost' = lost + 1 /\ UNCHANGED rx
             ELSE rx' = [rx EXCEPT !.pc = "callback", !.packet = Head(queue)] /\ UNCHANGED lost
          /\ UNCHANGED errno
      BY <1>2 DEF ReadData
    <2>2. sockets \in [DOMAIN sockets -> Sockets] /\ sockets[fd] \in Sockets
      BY <1>2 DEF IndInv, TypeOK
    <2>3. /\ queue \in Seq(PortNames)
          /\ Head(queue) \in PortNames /\ Head(queue) = queue[1] /\ 1 \in DOMAIN queue
          /\ Tail(queue) \in Seq(PortNames)
          /\ \A j \in DOMAIN Tail(queue) : j + 1 \in DOMAIN queue /\ Tail(queue)[j] = queue[j + 1]
      <3>1. queue \in Seq(PortNames)
        BY <2>2 DEF Sockets
      <3> HIDE DEF queue
      <3> QED BY <3>1, <2>1, HeadTailProperties
    <2>4. /\ DOMAIN sockets' = DOMAIN sockets
          /\ sockets'[fd] = [ifindex |-> sockets[fd].ifindex, queue |-> Tail(queue)]
          /\ \A x \in DOMAIN sockets : x # fd => sockets'[x] = sockets[x]
      BY <2>1, <2>2, <1>2 DEF Sockets
    <2>5. TypeOK'
      <3>1. sockets'[fd] \in Sockets
        BY <2>2, <2>3, <2>4 DEF Sockets
      <3>2. sockets' \in [DOMAIN sockets' -> Sockets]
        BY <2>1, <2>2, <2>4, <3>1
      <3>3. lost' \in Nat
        BY <2>1 DEF IndInv, TypeOK
      <3>4. rx' \in [pc : {"select", "read", "callback"}, port : PortNames \cup {Nobody}, fd : Nat,
                     packet : PortNames \cup {Nobody}, gone : BOOLEAN]
        BY <2>1, <2>3 DEF IndInv, TypeOK
      <3> QED BY <1>0, <2>1, <2>4, <3>2, <3>3, <3>4 DEF IndInv, TypeOK
    <2>6. SocketsMatchPorts'
      BY <1>0, <2>4 DEF IndInv, SocketsMatchPorts
    <2>7. IndexesAreOwned'
      <3>1. ASSUME NEW q \in DOMAIN port_to_socket
            PROVE  LET socket == sockets'[port_to_socket[q]]
                   IN /\ socket.ifindex \in 1..created
                      /\ \A r \in PortNames : netdev[r] = socket.ifindex => r = q
                      /\ \A j \in DOMAIN socket.queue : socket.queue[j] = q
        <4>1. CASE port_to_socket[q] = fd
          <5>1. /\ sockets'[fd].ifindex = sockets[fd].ifindex
                /\ sockets'[fd].queue = Tail(queue)
            BY <2>4
          <5>2. \A j \in DOMAIN Tail(queue) : Tail(queue)[j] = q
            <6>1. \A j \in DOMAIN queue : queue[j] = q
              BY <4>1 DEF IndInv, IndexesAreOwned
            <6> QED BY <6>1, <2>3
          <5>3. /\ sockets[fd].ifindex \in 1..created
                /\ \A r \in PortNames : netdev[r] = sockets[fd].ifindex => r = q
            BY <4>1 DEF IndInv, IndexesAreOwned
          <5> HIDE DEF fd, queue
          <5> QED BY <4>1, <5>1, <5>2, <5>3
        <4>2. CASE port_to_socket[q] # fd
          <5>1. port_to_socket[q] \in DOMAIN sockets
            BY DEF IndInv, SocketsMatchPorts, Range
          <5>2. sockets'[port_to_socket[q]] = sockets[port_to_socket[q]]
            BY <4>2, <5>1, <2>4
          <5> QED BY <5>2 DEF IndInv, IndexesAreOwned
        <4> QED BY <4>1, <4>2
      <3> QED BY <3>1, <1>0 DEF IndInv, IndexesAreOwned
    <2>8. ReceiverHoldsItsPort'
      <3>1. CASE errno
        BY <3>1, <2>1, <1>0 DEF IndInv, ReceiverHoldsItsPort
      <3>2. CASE ~errno
        <4>1. /\ rx'.pc = "callback" /\ rx'.port = rx.port /\ rx'.fd = rx.fd /\ rx'.gone = rx.gone
              /\ rx'.packet = Head(queue)
          BY <3>2, <2>1 DEF IndInv, TypeOK
        <4>2. ~rx.gone => rx.port \in DOMAIN port_to_socket /\ port_to_socket[rx.port] = fd
          BY <1>0 DEF IndInv, ReceiverHoldsItsPort
        <4>3. ~rx.gone => queue[1] = rx.port
          BY <4>2, <2>3 DEF IndInv, IndexesAreOwned
        <4> QED BY <4>1, <4>2, <4>3, <2>3, <1>0 DEF ReceiverHoldsItsPort
      <3> QED BY <3>1, <3>2
    <2>9. PendingEventsDecide'
      BY <1>0 DEF IndInv, PendingEventsDecide
    <2> QED BY <2>5, <2>6, <2>7, <2>8, <2>9 DEF IndInv
  <1> QED BY <1>1, <1>2

\* The actions that touch neither sockets nor ports, but for the thread.
LEMMA SelectInv ==
  ASSUME IndInv, NEW p \in PortNames, Select(p)
  PROVE  IndInv'
  <1>0. UNCHANGED <<use_genetlink, netdev, created, announced, sockets, netlink, events,
                    port_to_socket, port_to_selectables, port_translation_map, errno, counters,
                    arrived, handled, last, lost, failed>>
    BY DEF Select, kernelVars, portVars, historyVars
  <1>1. rx' = [pc |-> "read", port |-> p, fd |-> port_to_selectables[p], packet |-> Nobody, gone |-> FALSE]
    BY DEF Select, Selecting
  <1>2. p \in DOMAIN port_to_socket /\ port_to_selectables[p] = port_to_socket[p]
    BY DEF Select, IndInv, SocketsMatchPorts
  <1>3. TypeOK'
    <2>1. port_to_socket[p] \in Nat
      BY <1>2 DEF IndInv, TypeOK
    <2>2. rx' \in [pc : {"select", "read", "callback"}, port : PortNames \cup {Nobody}, fd : Nat,
                   packet : PortNames \cup {Nobody}, gone : BOOLEAN]
      BY <1>1, <1>2, <2>1
    <2> QED BY <1>0, <2>2 DEF IndInv, TypeOK
  <1>4. SocketsMatchPorts'
    BY <1>0 DEF IndInv, SocketsMatchPorts
  <1>5. IndexesAreOwned'
    BY <1>0 DEF IndInv, IndexesAreOwned
  <1>6. ReceiverHoldsItsPort'
    BY <1>0, <1>1, <1>2 DEF ReceiverHoldsItsPort
  <1>7. PendingEventsDecide'
    BY <1>0 DEF IndInv, PendingEventsDecide
  <1> QED BY <1>3, <1>4, <1>5, <1>6, <1>7 DEF IndInv

\* A signal interrupts the call: only errno changes.
LEMMA InterruptInv ==
  ASSUME IndInv, Interrupt
  PROVE  IndInv'
  <1> USE DEF Interrupt, kernelVars, portVars, historyVars
  <1>1. TypeOK'
    BY DEF IndInv, TypeOK
  <1>2. SocketsMatchPorts'
    BY DEF IndInv, SocketsMatchPorts
  <1>3. IndexesAreOwned'
    BY DEF IndInv, IndexesAreOwned
  <1>4. ReceiverHoldsItsPort'
    BY DEF IndInv, ReceiverHoldsItsPort
  <1>5. PendingEventsDecide'
    BY DEF IndInv, PendingEventsDecide
  <1> QED BY <1>1, <1>2, <1>3, <1>4, <1>5 DEF IndInv

\* The port map stays a function from names to ids.
LEMMA TranslationInv ==
  ASSUME IndInv, NEW p \in PortNames,
         RemovePortTranslation(p) \/ \E id \in PortIds : AddPortTranslation(p, id)
  PROVE  IndInv'
  <1>0. UNCHANGED <<use_genetlink, netdev, created, announced, sockets, netlink, events,
                    port_to_socket, port_to_selectables, rx, errno, counters, arrived, handled,
                    last, lost, failed>>
    BY DEF RemovePortTranslation, AddPortTranslation, kernelVars, portVars, historyVars
  <1>1. TypeOK'
    <2> DEFINE map == port_translation_map
    <2>1. DOMAIN map \subseteq PortNames /\ map \in [DOMAIN map -> PortIds]
      BY DEF IndInv, TypeOK
    <2>2. DOMAIN map' \subseteq PortNames /\ map' \in [DOMAIN map' -> PortIds]
      <3>1. CASE RemovePortTranslation(p)
        BY <2>1, <3>1 DEF RemovePortTranslation, BimapErase
      <3>2. CASE \E id \in PortIds : AddPortTranslation(p, id)
        <4>1. PICK id \in PortIds : AddPortTranslation(p, id)
          BY <3>2
        <4> QED BY <2>1, <4>1 DEF AddPortTranslation, BimapInsert
      <3> QED BY <3>1, <3>2
    <2> QED BY <1>0, <2>2 DEF IndInv, TypeOK
  <1>2. SocketsMatchPorts'
    BY <1>0 DEF IndInv, SocketsMatchPorts
  <1>3. IndexesAreOwned'
    BY <1>0 DEF IndInv, IndexesAreOwned
  <1>4. ReceiverHoldsItsPort'
    BY <1>0 DEF IndInv, ReceiverHoldsItsPort
  <1>5. PendingEventsDecide'
    BY <1>0 DEF IndInv, PendingEventsDecide
  <1> QED BY <1>1, <1>2, <1>3, <1>4, <1>5 DEF IndInv

\* What the callback does to the counters.
LEMMA SendPacketInCounts ==
  ASSUME counters \in [packet_in_received : Nat, packet_in_errors : Nat],
         NEW source, NEW target, NEW from, SendPacketInToController(source, target, from)
  PROVE  /\ counters' \in [packet_in_received : Nat, packet_in_errors : Nat]
         /\ counters'.packet_in_received + counters'.packet_in_errors
              = counters.packet_in_received + counters.packet_in_errors + 1
         /\ counters' # counters
         /\ counters'.packet_in_received > counters.packet_in_received =>
              /\ source \in DOMAIN port_translation_map
              /\ last' = [from |-> from, to |-> port_translation_map[source]]
  <1> DEFINE c == counters
             sent == [c EXCEPT !.packet_in_received = @ + 1]
             error == [c EXCEPT !.packet_in_errors = @ + 1]
  <1>1. c.packet_in_received \in Nat /\ c.packet_in_errors \in Nat
    OBVIOUS
  <1>2. CASE counters' = error
    BY <1>1, <1>2
  <1>3. CASE /\ counters' = sent
             /\ TranslatePort("kForController", port_translation_map, source).ok
             /\ last' = [from |-> from,
                         to |-> TranslatePort("kForController", port_translation_map, source).value]
    <2>1. source \in DOMAIN port_translation_map
      BY <1>3 DEF TranslatePort, Err
    <2>2. TranslatePort("kForController", port_translation_map, source).value = port_translation_map[source]
      BY <2>1 DEF TranslatePort, Ok
    <2> QED BY <1>1, <1>3, <2>1, <2>2
  <1> QED BY <1>2, <1>3 DEF SendPacketInToController

\* The callback hands the packet over; the thread selects again.
LEMMA CallbackInv ==
  ASSUME IndInv, Callback
  PROVE  IndInv'
  <1> USE DEF Callback, kernelVars, portVars
  <1>1. TypeOK'
    <2>1. counters' \in [packet_in_received : Nat, packet_in_errors : Nat]
      BY SendPacketInCounts DEF IndInv, TypeOK
    <2>2. rx' \in [pc : {"select", "read", "callback"}, port : PortNames \cup {Nobody}, fd : Nat,
                   packet : PortNames \cup {Nobody}, gone : BOOLEAN]
      BY DEF Selecting
    <2> QED BY <2>1, <2>2 DEF IndInv, TypeOK
  <1>2. SocketsMatchPorts'
    BY DEF IndInv, SocketsMatchPorts
  <1>3. IndexesAreOwned'
    BY DEF IndInv, IndexesAreOwned
  <1>4. ReceiverHoldsItsPort'
    BY DEF ReceiverHoldsItsPort, Selecting
  <1>5. PendingEventsDecide'
    BY DEF IndInv, PendingEventsDecide
  <1> QED BY <1>1, <1>2, <1>3, <1>4, <1>5 DEF IndInv

\* A generic netlink message is handled in one go.
LEMMA ProcessReceiveMessageInv ==
  ASSUME IndInv, ProcessReceiveMessage
  PROVE  IndInv'
  <1>0. /\ UNCHANGED <<use_genetlink, netdev, created, announced, sockets, events, port_to_socket,
                       port_to_selectables, port_translation_map, rx, errno, arrived, handled,
                       failed>>
        /\ netlink # <<>>
        /\ netlink' = Tail(netlink)
    BY DEF ProcessReceiveMessage, kernelVars, portVars
  <1>1. /\ netlink \in Seq(Messages) /\ netlink' \in Seq(Messages)
        /\ \A j \in DOMAIN netlink' : j + 1 \in DOMAIN netlink /\ netlink'[j] = netlink[j + 1]
    BY <1>0 DEF IndInv, TypeOK
  <1>2. TypeOK'
    <2>1. counters' \in [packet_in_received : Nat, packet_in_errors : Nat] /\ lost' \in Nat
      <3>1. CASE GetIfname(Head(netlink).ifindex) = Nobody
        BY <3>1 DEF ProcessReceiveMessage, IndInv, TypeOK
      <3>2. CASE GetIfname(Head(netlink).ifindex) # Nobody
        BY <3>2, SendPacketInCounts DEF ProcessReceiveMessage, IndInv, TypeOK
      <3> QED BY <3>1, <3>2
    <2> QED BY <1>0, <1>1, <2>1 DEF IndInv, TypeOK
  <1>3. SocketsMatchPorts'
    BY <1>0 DEF IndInv, SocketsMatchPorts
  <1>4. IndexesAreOwned'
    BY <1>0, <1>1 DEF IndInv, IndexesAreOwned
  <1>5. ReceiverHoldsItsPort'
    BY <1>0 DEF IndInv, ReceiverHoldsItsPort
  <1>6. PendingEventsDecide'
    BY <1>0 DEF IndInv, PendingEventsDecide
  <1> QED BY <1>2, <1>3, <1>4, <1>5, <1>6 DEF IndInv

\* Only last can change: sending a packet out, or nothing happening at all.
LEMMA SendPacketOutInv ==
  ASSUME IndInv, (\E id \in PortIds : SendPacketOut(id)) \/ UNCHANGED vars
  PROVE  IndInv'
  <1>0. UNCHANGED <<use_genetlink, netdev, created, announced, sockets, netlink, events,
                    port_to_socket, port_to_selectables, port_translation_map, rx, errno, counters,
                    arrived, handled, lost, failed>>
    BY DEF SendPacketOut, vars, kernelVars, portVars, historyVars
  <1>1. TypeOK'
    BY <1>0 DEF IndInv, TypeOK
  <1>2. SocketsMatchPorts'
    BY <1>0 DEF IndInv, SocketsMatchPorts
  <1>3. IndexesAreOwned'
    BY <1>0 DEF IndInv, IndexesAreOwned
  <1>4. ReceiverHoldsItsPort'
    BY <1>0 DEF IndInv, ReceiverHoldsItsPort
  <1>5. PendingEventsDecide'
    BY <1>0 DEF IndInv, PendingEventsDecide
  <1> QED BY <1>1, <1>2, <1>3, <1>4, <1>5 DEF IndInv

\* Every step preserves the inductive invariant.
LEMMA NextIndInv == IndInv /\ [Next]_vars => IndInv'
  <1> SUFFICES ASSUME IndInv, [Next]_vars PROVE IndInv'
    OBVIOUS
  <1>1. ASSUME NEW p \in PortNames, CreateNetdev(p) PROVE IndInv'
    BY <1>1, CreateNetdevInv
  <1>2. ASSUME NEW p \in PortNames, DeleteNetdev(p) PROVE IndInv'
    BY <1>2, DeleteNetdevInv
  <1>3. ASSUME NEW p \in PortNames, Arrive(p) PROVE IndInv'
    BY <1>3, ArriveInv
  <1>4. ASSUME NEW p \in PortNames, Select(p) PROVE IndInv'
    BY <1>4, SelectInv
  <1>5. ASSUME NEW p \in PortNames, NEW set \in BOOLEAN, Announce(p, set) PROVE IndInv'
    BY <1>5, AnnounceInv
  <1>6. ASSUME NEW p \in PortNames,
               RemovePortTranslation(p) \/ \E id \in PortIds : AddPortTranslation(p, id)
        PROVE  IndInv'
    BY <1>6, TranslationInv
  <1>7. CASE Interrupt
    BY <1>7, InterruptInv
  <1>8. CASE HandleEvent
    BY <1>8, HandleSetInv, HandleDelInv
  <1>9. CASE ReadData
    BY <1>9, ReadDataInv
  <1>10. CASE Callback
    BY <1>10, CallbackInv
  <1>11. CASE ProcessReceiveMessage
    BY <1>11, ProcessReceiveMessageInv
  <1>12. CASE (\E id \in PortIds : SendPacketOut(id)) \/ UNCHANGED vars
    BY <1>12, SendPacketOutInv
  <1> QED BY <1>1, <1>2, <1>3, <1>4, <1>5, <1>6, <1>7, <1>8, <1>9, <1>10, <1>11, <1>12 DEF Next

\* Descriptors and ports match at all times, for any number of ports,
\* events and failures: AddPacketIoPort and RemovePacketIoPort leak none.
THEOREM SocketsStayWithPorts == Spec => []OneSocketPerPort
  <1>1. IndInv => OneSocketPerPort
    <2> SUFFICES ASSUME IndInv PROVE OneSocketPerPort
      OBVIOUS
    <2>1. ASSUME events = <<>> PROVE DOMAIN port_to_socket = announced \ failed
      <3>1. \A p \in PortNames : p \in DOMAIN port_to_socket <=> p \in announced \ failed
        BY <2>1 DEF IndInv, PendingEventsDecide
      <3> QED BY <3>1 DEF IndInv, TypeOK
    <2> QED BY <2>1 DEF IndInv, SocketsMatchPorts, OneSocketPerPort
  <1> QED BY <1>1, InitIndInv, NextIndInv, PTL DEF Spec

-----------------------------------------------------------------------------
(* No packet is forgotten.                                                 *)

Lengths(s) == [fd \in DOMAIN s |-> Len(s[fd].queue)]

AllTyped(s) == IsFiniteSet(DOMAIN s) /\ s \in [DOMAIN s -> Sockets]

\* Queue lengths are natural numbers, and so is their sum.
LEMMA LengthsType ==
  ASSUME NEW s, AllTyped(s)
  PROVE  /\ \A fd \in DOMAIN s : Lengths(s)[fd] \in Nat /\ Lengths(s)[fd] = Len(s[fd].queue)
         /\ DOMAIN Lengths(s) = DOMAIN s
         /\ SumFunction(Lengths(s)) = SumFunctionOnSet(Lengths(s), DOMAIN s)
         /\ SumFunction(Lengths(s)) \in Nat
  <1>1. \A fd \in DOMAIN s : s[fd].queue \in Seq(PortNames)
    BY DEF AllTyped, Sockets
  <1>2. /\ \A fd \in DOMAIN s : Lengths(s)[fd] \in Nat /\ Lengths(s)[fd] = Len(s[fd].queue)
        /\ DOMAIN Lengths(s) = DOMAIN s
    BY <1>1 DEF Lengths
  <1>3. SumFunction(Lengths(s)) = SumFunctionOnSet(Lengths(s), DOMAIN s)
    BY <1>2 DEF SumFunction
  <1>4. SumFunctionOnSet(Lengths(s), DOMAIN s) \in Nat
    BY <1>2, SumNat DEF AllTyped
  <1> QED BY <1>2, <1>3, <1>4

\* One queue that changes changes the sum by as much.
LEMMA OneQueueChanges ==
  ASSUME NEW s, NEW t, AllTyped(s), AllTyped(t), DOMAIN t = DOMAIN s, NEW fd \in DOMAIN s,
         \A x \in DOMAIN s : x # fd => t[x] = s[x]
  PROVE  SumFunction(Lengths(t)) = SumFunction(Lengths(s)) + (Len(t[fd].queue) - Len(s[fd].queue))
  <1> DEFINE f == Lengths(s)
             g == Lengths(t)
             D == DOMAIN s
  <1>1. \A x \in D : f[x] \in Int /\ g[x] \in Int
    BY LengthsType
  <1>2. \A x \in D \ {fd} : f[x] = g[x]
    BY LengthsType
  <1>3. IsFiniteSet(D) /\ fd \in D
    BY DEF AllTyped
  <1>4. SumFunctionOnSet(g, D) = SumFunctionOnSet(f, D) - f[fd] + g[fd]
    <2> HIDE DEF f, g, D
    <2> QED BY ONLY <1>1, <1>2, <1>3, SumUpdate
  <1>5. /\ SumFunctionOnSet(f, D) = SumFunction(f) /\ SumFunctionOnSet(g, D) = SumFunction(g)
        /\ SumFunction(f) \in Nat
        /\ f[fd] \in Nat /\ f[fd] = Len(s[fd].queue)
        /\ g[fd] \in Nat /\ g[fd] = Len(t[fd].queue)
    BY LengthsType
  <1>6. SumFunction(g) = SumFunction(f) + (Len(t[fd].queue) - Len(s[fd].queue))
    <2> DEFINE a == SumFunction(f)
               b == SumFunction(g)
               m == Len(s[fd].queue)
               n == Len(t[fd].queue)
    <2>1. b = a - m + n /\ a \in Int /\ m \in Int /\ n \in Int
      <3> HIDE DEF f, g, D
      <3> QED BY <1>4, <1>5
    <2>2. b = a + (n - m)
      <3> HIDE DEF a, b, m, n
      <3> QED BY ONLY <2>1
    <2> QED BY <2>2
  <1> QED BY <1>6

\* A socket that is closed takes its queue with it.
LEMMA OneQueueCloses ==
  ASSUME NEW s, NEW t, AllTyped(s), AllTyped(t), NEW fd \in DOMAIN s, DOMAIN t = DOMAIN s \ {fd},
         \A x \in DOMAIN t : t[x] = s[x]
  PROVE  SumFunction(Lengths(s)) = SumFunction(Lengths(t)) + Len(s[fd].queue)
  <1>1. \A x \in DOMAIN s : Lengths(s)[x] \in Int
    BY LengthsType
  <1>2. IsFiniteSet(DOMAIN s) /\ IsFiniteSet(DOMAIN t)
    BY DEF AllTyped
  <1>3. SumFunctionOnSet(Lengths(s), DOMAIN s)
          = Lengths(s)[fd] + SumFunctionOnSet(Lengths(s), DOMAIN t)
    BY <1>1, <1>2, SumRemove
  <1>4. \A x \in DOMAIN t : Lengths(s)[x] = Lengths(t)[x]
    BY LengthsType
  <1>5. SumFunctionOnSet(Lengths(s), DOMAIN t) = SumFunctionOnSet(Lengths(t), DOMAIN t)
    BY <1>2, <1>4, SumCongruent
  <1>6. /\ SumFunctionOnSet(Lengths(s), DOMAIN s) = SumFunction(Lengths(s))
        /\ SumFunctionOnSet(Lengths(t), DOMAIN t) = SumFunction(Lengths(t))
        /\ SumFunction(Lengths(t)) \in Nat
        /\ Lengths(s)[fd] \in Nat /\ Lengths(s)[fd] = Len(s[fd].queue)
    BY LengthsType
  <1> QED BY <1>3, <1>5, <1>6

\* What is queued, in the terms of these lemmas.
LEMMA QueuedIs == IndInv => /\ AllTyped(sockets)
                            /\ Queued = Len(netlink) + SumFunction(Lengths(sockets))
                            /\ Len(netlink) \in Nat
  BY DEF IndInv, TypeOK, AllTyped, Queued, Lengths

\* The same in the next state.
LEMMA NextQueuedIs == IndInv' => /\ AllTyped(sockets')
                                 /\ Queued' = Len(netlink') + SumFunction(Lengths(sockets'))
                                 /\ Len(netlink') \in Nat
  BY DEF IndInv, TypeOK, AllTyped, Queued, Lengths

InHand(r) == IF r.pc = "callback" THEN 1 ELSE 0

\* The numbers of the account.
LEMMA AccountTypes ==
  ASSUME IndInv
  PROVE  /\ arrived \in Int /\ lost \in Int /\ InHand(rx) \in Int
         /\ counters.packet_in_received + counters.packet_in_errors \in Int
         /\ Len(netlink) \in Int /\ SumFunction(Lengths(sockets)) \in Int
         /\ counters \in [packet_in_received : Nat, packet_in_errors : Nat]
  <1>1. SumFunction(Lengths(sockets)) \in Nat
    BY LengthsType, QueuedIs
  <1>2. Len(netlink) \in Int
    BY QueuedIs
  <1>3. counters \in [packet_in_received : Nat, packet_in_errors : Nat]
    BY DEF IndInv, TypeOK
  <1>4. counters.packet_in_received + counters.packet_in_errors \in Int
    BY <1>3
  <1>5. arrived \in Int /\ lost \in Int
    BY DEF IndInv, TypeOK
  <1>6. InHand(rx) \in Int
    BY DEF InHand
  <1> QED BY <1>1, <1>2, <1>3, <1>4, <1>5, <1>6

\* A step that moves packets from one place to another keeps the account.
LEMMA AccountStep ==
  ASSUME IndInv, IndInv', PacketsAreAccountedFor,
         arrived' - arrived =
           (Len(netlink') - Len(netlink))
             + (SumFunction(Lengths(sockets')) - SumFunction(Lengths(sockets)))
             + (InHand(rx') - InHand(rx))
             + ((counters'.packet_in_received + counters'.packet_in_errors)
                  - (counters.packet_in_received + counters.packet_in_errors))
             + (lost' - lost)
  PROVE  PacketsAreAccountedFor'
  <1>1. /\ Len(netlink) \in Int /\ Len(netlink') \in Int
        /\ SumFunction(Lengths(sockets)) \in Int /\ SumFunction(Lengths(sockets')) \in Int
    <2>1. SumFunction(Lengths(sockets)) \in Nat
      BY LengthsType, QueuedIs
    <2>2. SumFunction(Lengths(sockets')) \in Nat
      BY LengthsType, NextQueuedIs
    <2> QED BY <2>1, <2>2, QueuedIs, NextQueuedIs
  <1>2. /\ arrived \in Int /\ lost \in Int /\ InHand(rx) \in Int
        /\ counters.packet_in_received \in Int /\ counters.packet_in_errors \in Int
    BY DEF IndInv, TypeOK, InHand
  <1>3. /\ arrived' \in Int /\ lost' \in Int /\ InHand(rx') \in Int
        /\ counters'.packet_in_received \in Int /\ counters'.packet_in_errors \in Int
    BY DEF IndInv, TypeOK, InHand
  <1>4. arrived = Len(netlink) + SumFunction(Lengths(sockets)) + InHand(rx)
                    + counters.packet_in_received + counters.packet_in_errors + lost
    BY QueuedIs DEF PacketsAreAccountedFor, InHand
  <1>5. arrived' = Len(netlink') + SumFunction(Lengths(sockets')) + InHand(rx')
                     + counters'.packet_in_received + counters'.packet_in_errors + lost'
    <2> DEFINE s0 == SumFunction(Lengths(sockets))
               s1 == SumFunction(Lengths(sockets'))
               n0 == Len(netlink)
               n1 == Len(netlink')
               h0 == InHand(rx)
               h1 == InHand(rx')
               c0 == counters.packet_in_received
               c1 == counters'.packet_in_received
               e0 == counters.packet_in_errors
               e1 == counters'.packet_in_errors
               l1 == lost'
               a1 == arrived'
    <2>1. a1 - arrived = (n1 - n0) + (s1 - s0) + (h1 - h0) + ((c1 + e1) - (c0 + e0)) + (l1 - lost)
      OBVIOUS
    <2>2. arrived = n0 + s0 + h0 + c0 + e0 + lost
      BY <1>4
    <2>3. /\ s0 \in Int /\ s1 \in Int /\ n0 \in Int /\ n1 \in Int /\ h0 \in Int /\ h1 \in Int
          /\ c0 \in Int /\ c1 \in Int /\ e0 \in Int /\ e1 \in Int /\ l1 \in Int /\ a1 \in Int
          /\ arrived \in Int /\ lost \in Int
      BY <1>1, <1>2, <1>3
    <2>4. a1 = n1 + s1 + h1 + c1 + e1 + l1
      <3> HIDE DEF s0, s1, n0, n1, h0, h1, c0, c1, e0, e1, l1, a1
      <3> QED BY ONLY <2>1, <2>2, <2>3
    <2> QED BY <2>4
  <1> QED BY <1>5, NextQueuedIs DEF PacketsAreAccountedFor, InHand

\* A packet that arrives is queued.
LEMMA ArriveAccount ==
  ASSUME IndInv, IndInv', PacketsAreAccountedFor, NEW p \in PortNames, Arrive(p)
  PROVE  PacketsAreAccountedFor'
  <1>1. UNCHANGED <<rx, counters, lost>> /\ arrived' = arrived + 1
    BY DEF Arrive
  <1>2. /\ arrived \in Int /\ lost \in Int /\ InHand(rx) \in Int
        /\ counters.packet_in_received + counters.packet_in_errors \in Int
        /\ Len(netlink) \in Int /\ SumFunction(Lengths(sockets)) \in Int
    BY AccountTypes
  <1>3. CASE use_genetlink
    <2>1. netlink' = Append(netlink, [ifindex |-> netdev[p], port |-> p]) /\ UNCHANGED sockets
      BY <1>3 DEF Arrive
    <2>2. Len(netlink') = Len(netlink) + 1
      BY <2>1 DEF IndInv, TypeOK
    <2> QED BY <1>1, <1>2, <2>1, <2>2, AccountStep
  <1>4. CASE ~use_genetlink
    <2>1. PICK fd \in DOMAIN sockets : sockets' = [sockets EXCEPT ![fd].queue = Append(@, p)]
      BY <1>4 DEF Arrive
    <2>2. UNCHANGED netlink
      BY <1>4 DEF Arrive
    <2>3. sockets[fd].queue \in Seq(PortNames) /\ sockets \in [DOMAIN sockets -> Sockets]
      BY DEF IndInv, TypeOK, Sockets
    <2>4. /\ DOMAIN sockets' = DOMAIN sockets
          /\ \A x \in DOMAIN sockets : x # fd => sockets'[x] = sockets[x]
          /\ sockets'[fd].queue = Append(sockets[fd].queue, p)
      BY <2>1, <2>3 DEF Sockets
    <2>5. Len(sockets'[fd].queue) - Len(sockets[fd].queue) = 1
      BY <2>3, <2>4
    <2>6. SumFunction(Lengths(sockets'))
            = SumFunction(Lengths(sockets)) + (Len(sockets'[fd].queue) - Len(sockets[fd].queue))
      BY <2>4, OneQueueChanges, QueuedIs, NextQueuedIs
    <2>7. SumFunction(Lengths(sockets')) = SumFunction(Lengths(sockets)) + 1
      BY <2>5, <2>6
    <2> QED BY <1>1, <1>2, <2>2, <2>7, AccountStep
  <1> QED BY <1>3, <1>4

\* A port that comes has an empty queue; one that goes loses its packets.
LEMMA HandleEventAccount ==
  ASSUME IndInv, IndInv', PacketsAreAccountedFor, HandleEvent
  PROVE  PacketsAreAccountedFor'
  <1> DEFINE p == Head(events).port
  <1>1. UNCHANGED <<netlink, counters, arrived>>
    BY DEF HandleEvent
  <1>2. /\ arrived \in Int /\ lost \in Int /\ InHand(rx) \in Int
        /\ counters.packet_in_received + counters.packet_in_errors \in Int
        /\ Len(netlink) \in Int /\ SumFunction(Lengths(sockets)) \in Int
    BY AccountTypes
  <1>3. CASE Head(events).set
    <2>1. UNCHANGED <<rx, lost>> /\ AddPacketIoPort(p)
      BY <1>3 DEF HandleEvent
    <2>2. SumFunction(Lengths(sockets')) = SumFunction(Lengths(sockets))
      <3>1. CASE sockets' = sockets
        BY <3>1
      <3>2. CASE sockets' # sockets
        <4> DEFINE fd == LowestFreeFd
        <4>1. sockets' = MapInsert(sockets, fd, [ifindex |-> netdev[p], queue |-> <<>>])
          BY <2>1, <3>2 DEF AddPacketIoPort, CreatePacketIoSocket
        <4>2. fd \notin DOMAIN sockets
          BY LowestFreeFdIsFree DEF IndInv
        <4> HIDE DEF fd
        <4>3. /\ DOMAIN sockets = DOMAIN sockets' \ {fd} /\ fd \in DOMAIN sockets'
              /\ \A x \in DOMAIN sockets : sockets[x] = sockets'[x]
              /\ sockets'[fd].queue = <<>>
          BY <4>1, <4>2 DEF MapInsert
        <4>4. SumFunction(Lengths(sockets')) = SumFunction(Lengths(sockets)) + Len(sockets'[fd].queue)
          BY <4>3, QueuedIs, NextQueuedIs, OneQueueCloses
        <4> QED BY <4>3, <4>4, <1>2
      <3> QED BY <3>1, <3>2
    <2> QED BY <1>1, <1>2, <2>1, <2>2, AccountStep
  <1>4. CASE ~Head(events).set
    <2>1. RemovePacketIoPort(p)
      BY <1>4 DEF HandleEvent
    <2>2. InHand(rx') = InHand(rx)
      BY <2>1 DEF RemovePacketIoPort, IndInv, TypeOK, InHand
    <2>3. CASE p \notin DOMAIN port_to_socket
      <3>1. UNCHANGED <<sockets, lost>>
        BY <2>1, <2>3 DEF RemovePacketIoPort
      <3> QED BY <1>1, <1>2, <2>2, <3>1, AccountStep
    <2>4. CASE p \in DOMAIN port_to_socket
      <3> DEFINE fd == port_to_socket[p]
      <3>1. /\ sockets' = Restrict(sockets, DOMAIN sockets \ {fd})
            /\ lost' = lost + Len(sockets[fd].queue)
        BY <2>1, <2>4 DEF RemovePacketIoPort
      <3>2. fd \in DOMAIN sockets
        BY <2>4 DEF IndInv, SocketsMatchPorts, Range
      <3> HIDE DEF fd
      <3>3. /\ DOMAIN sockets' = DOMAIN sockets \ {fd}
            /\ \A x \in DOMAIN sockets' : sockets'[x] = sockets[x]
        BY <3>1 DEF Restrict
      <3>4. SumFunction(Lengths(sockets)) = SumFunction(Lengths(sockets')) + Len(sockets[fd].queue)
        BY <3>2, <3>3, QueuedIs, NextQueuedIs, OneQueueCloses
      <3>5. SumFunction(Lengths(sockets')) \in Int /\ Len(sockets[fd].queue) \in Int
        <4>1. sockets[fd].queue \in Seq(PortNames)
          BY <3>2 DEF IndInv, TypeOK, Sockets
        <4> QED BY <4>1, LengthsType, NextQueuedIs
      <3> QED BY <1>1, <1>2, <2>2, <3>1, <3>4, <3>5, AccountStep
    <2> QED BY <2>3, <2>4
  <1> QED BY <1>3, <1>4

\* A packet that is read is in the thread's hands, or is read over.
LEMMA ReadDataAccount ==
  ASSUME IndInv, IndInv', PacketsAreAccountedFor, ReadData
  PROVE  PacketsAreAccountedFor'
  <1>1. UNCHANGED <<netlink, counters, arrived>> /\ rx.pc = "read"
    BY DEF ReadData
  <1>2. /\ arrived \in Int /\ lost \in Int /\ InHand(rx) = 0
        /\ counters.packet_in_received + counters.packet_in_errors \in Int
        /\ Len(netlink) \in Int /\ SumFunction(Lengths(sockets)) \in Int
    BY <1>1, AccountTypes DEF InHand
  <1>3. CASE rx.fd \notin DOMAIN sockets
    <2>1. UNCHANGED <<sockets, lost>> /\ InHand(rx') = 0
      BY <1>3 DEF ReadData, InHand, Selecting
    <2> QED BY <1>1, <1>2, <2>1, AccountStep
  <1>4. CASE rx.fd \in DOMAIN sockets
    <2> DEFINE fd == rx.fd
    <2>1. sockets[fd].queue # <<>> /\ sockets' = [sockets EXCEPT ![fd].queue = Tail(@)]
      BY <1>4 DEF ReadData
    <2>2. InHand(rx') + lost' = lost + 1 /\ InHand(rx') \in Int /\ lost' \in Int
      <3>1. CASE errno
        BY <3>1, <1>1, <1>2, <1>4 DEF ReadData, InHand
      <3>2. CASE ~errno
        <4>1. rx'.pc = "callback" /\ UNCHANGED lost
          BY <3>2, <1>4 DEF ReadData, IndInv, TypeOK
        <4> QED BY <4>1, <1>2 DEF InHand
      <3> QED BY <3>1, <3>2
    <2>3. sockets[fd].queue \in Seq(PortNames) /\ sockets \in [DOMAIN sockets -> Sockets]
      BY <1>4 DEF IndInv, TypeOK, Sockets
    <2>4. /\ DOMAIN sockets' = DOMAIN sockets
          /\ \A x \in DOMAIN sockets : x # fd => sockets'[x] = sockets[x]
          /\ sockets'[fd].queue = Tail(sockets[fd].queue)
      BY <1>4, <2>1, <2>3 DEF Sockets
    <2> HIDE DEF fd
    <2>5. Len(sockets'[fd].queue) = Len(sockets[fd].queue) - 1 /\ Len(sockets[fd].queue) \in Int
      <3>1. Len(Tail(sockets[fd].queue)) = Len(sockets[fd].queue) - 1 /\ Len(sockets[fd].queue) \in Int
        BY <2>1, <2>3, HeadTailProperties, LenProperties
      <3> QED BY <3>1, <2>4
    <2>6. SumFunction(Lengths(sockets'))
            = SumFunction(Lengths(sockets)) + (Len(sockets'[fd].queue) - Len(sockets[fd].queue))
      <3>1. fd \in DOMAIN sockets
        BY <1>4 DEF fd
      <3> QED BY <3>1, <2>4, OneQueueChanges, QueuedIs, NextQueuedIs
    <2>7. SumFunction(Lengths(sockets')) = SumFunction(Lengths(sockets)) - 1
      BY <1>2, <2>5, <2>6
    <2> QED BY <1>1, <1>2, <2>2, <2>7, AccountStep
  <1> QED BY <1>3, <1>4

\* A packet in the callback, or in a message, is sent or counted as an error.
LEMMA SendPacketInAccount ==
  ASSUME IndInv, IndInv', PacketsAreAccountedFor, Callback \/ ProcessReceiveMessage
  PROVE  PacketsAreAccountedFor'
  <1>1. UNCHANGED <<sockets, arrived>>
    BY DEF Callback, ProcessReceiveMessage
  <1>2. /\ arrived \in Int /\ lost \in Int /\ InHand(rx) \in Int
        /\ counters.packet_in_received + counters.packet_in_errors \in Int
        /\ Len(netlink) \in Int /\ SumFunction(Lengths(sockets)) \in Int
        /\ counters \in [packet_in_received : Nat, packet_in_errors : Nat]
    BY AccountTypes
  <1>3. CASE Callback
    <2>1. UNCHANGED <<netlink, lost>> /\ InHand(rx) = 1 /\ InHand(rx') = 0
      BY <1>3 DEF Callback, InHand, Selecting
    <2>2. PICK source : SendPacketInToController(source, Nobody, rx.packet)
      BY <1>3 DEF Callback
    <2>3. counters'.packet_in_received + counters'.packet_in_errors
            = counters.packet_in_received + counters.packet_in_errors + 1
      BY <1>2, <2>2, SendPacketInCounts
    <2> QED BY <1>1, <1>2, <2>1, <2>3, AccountStep
  <1>4. CASE ProcessReceiveMessage
    <2>1. netlink # <<>> /\ netlink' = Tail(netlink) /\ UNCHANGED rx
      BY <1>4 DEF ProcessReceiveMessage
    <2>2. Len(netlink') = Len(netlink) - 1
      BY <2>1 DEF IndInv, TypeOK
    <2>3. CASE lost' = lost + 1 /\ UNCHANGED counters
      BY <1>1, <1>2, <2>1, <2>2, <2>3, AccountStep
    <2>4. CASE GetIfname(Head(netlink).ifindex) # Nobody
      <3>1. UNCHANGED lost /\ \E target : SendPacketInToController(GetIfname(Head(netlink).ifindex), target,
                                                             Head(netlink).port)
        BY <1>4, <2>4 DEF ProcessReceiveMessage
      <3>2. counters'.packet_in_received + counters'.packet_in_errors
              = counters.packet_in_received + counters.packet_in_errors + 1
        BY <1>2, <3>1, SendPacketInCounts
      <3> QED BY <1>1, <1>2, <2>1, <2>2, <3>1, <3>2, AccountStep
    <2> QED BY <1>4, <2>3, <2>4 DEF ProcessReceiveMessage
  <1> QED BY <1>3, <1>4

\* Every packet that arrived is queued, in hand, counted or lost in one of the
\* three ways PacketIo names, for any number of ports and packets.
THEOREM PacketsAreNotForgotten == Spec => []PacketsAreAccountedFor
  <1>1. Init => PacketsAreAccountedFor
    <2> SUFFICES ASSUME Init PROVE PacketsAreAccountedFor
      OBVIOUS
    <2>1. IndInv
      BY InitIndInv
    <2>2. DOMAIN sockets = {} /\ Len(netlink) = 0
      BY DEF Init
    <2>3. SumFunction(Lengths(sockets)) = 0
      BY <2>1, <2>2, QueuedIs, LengthsType, SumEmpty
    <2>4. Queued = 0
      BY <2>1, <2>2, <2>3, QueuedIs
    <2> QED BY <2>4 DEF Init, PacketsAreAccountedFor, Selecting
  <1>2. IndInv /\ IndInv' /\ PacketsAreAccountedFor /\ [Next]_vars => PacketsAreAccountedFor'
    <2> SUFFICES ASSUME IndInv, IndInv', PacketsAreAccountedFor, [Next]_vars
                 PROVE  PacketsAreAccountedFor'
      OBVIOUS
    <2>1. ASSUME NEW p \in PortNames, Arrive(p) PROVE PacketsAreAccountedFor'
      BY <2>1, ArriveAccount
    <2>2. CASE HandleEvent
      BY <2>2, HandleEventAccount
    <2>3. CASE ReadData
      BY <2>3, ReadDataAccount
    <2>4. CASE Callback \/ ProcessReceiveMessage
      BY <2>4, SendPacketInAccount
    <2>5. ASSUME UNCHANGED <<sockets, netlink, counters, arrived, lost>>, rx'.pc # "callback", rx.pc # "callback"
          PROVE  PacketsAreAccountedFor'
      BY <2>5 DEF PacketsAreAccountedFor, Queued
    <2>6. ASSUME UNCHANGED <<sockets, netlink, counters, arrived, lost, rx>> PROVE PacketsAreAccountedFor'
      BY <2>6 DEF PacketsAreAccountedFor, Queued
    <2>7. ASSUME NEW p \in PortNames, Select(p) PROVE PacketsAreAccountedFor'
      BY <2>5, <2>7 DEF Select, Selecting, historyVars
    <2>8. ASSUME NEW p \in PortNames,
                 \/ CreateNetdev(p) \/ DeleteNetdev(p) \/ \E set \in BOOLEAN : Announce(p, set)
                 \/ RemovePortTranslation(p) \/ \E id \in PortIds : AddPortTranslation(p, id)
          PROVE  PacketsAreAccountedFor'
      BY <2>6, <2>8 DEF CreateNetdev, DeleteNetdev, Announce, RemovePortTranslation,
                        AddPortTranslation, historyVars
    <2>9. CASE Interrupt \/ (\E id \in PortIds : SendPacketOut(id)) \/ UNCHANGED vars
      BY <2>6, <2>9 DEF Interrupt, SendPacketOut, vars, historyVars
    <2> QED BY <2>1, <2>2, <2>3, <2>4, <2>7, <2>8, <2>9 DEF Next
  <1> QED BY <1>1, <1>2, InitIndInv, NextIndInv, PTL DEF Spec

-----------------------------------------------------------------------------
(* Packets carry the right ports.                                          *)

\* The name of an index is that of the port the message came by.
LEMMA GetIfnameIsRight ==
  ASSUME IndInv, netlink # <<>>, GetIfname(Head(netlink).ifindex) # Nobody
  PROVE  GetIfname(Head(netlink).ifindex) = Head(netlink).port
  <1> DEFINE i == Head(netlink).ifindex
  <1>1. 1 \in DOMAIN netlink /\ Head(netlink) = netlink[1]
    BY DEF IndInv, TypeOK
  <1>2. \E p \in PortNames : netdev[p] = i
    BY DEF GetIfname
  <1>3. GetIfname(i) = CHOOSE p \in PortNames : netdev[p] = i
    BY DEF GetIfname
  <1>4. GetIfname(i) \in PortNames /\ netdev[GetIfname(i)] = i
    BY <1>2, <1>3
  <1> QED BY <1>1, <1>4 DEF IndInv, IndexesAreOwned

\* A packet in is sent under the id its own port has in the port map, unless
\* the port was removed while the thread had the packet.
THEOREM PacketsInAreNamed == Spec => PacketInNamesItsPort
  <1> DEFINE A == counters'.packet_in_received > counters.packet_in_received /\ ~rx.gone =>
                    /\ last'.from \in DOMAIN port_translation_map
                    /\ last'.to = port_translation_map[last'.from]
  <1>1. IndInv /\ [Next]_vars => [A]_vars
    <2> SUFFICES ASSUME IndInv, Next, counters'.packet_in_received > counters.packet_in_received, ~rx.gone
                 PROVE  /\ last'.from \in DOMAIN port_translation_map
                        /\ last'.to = port_translation_map[last'.from]
      OBVIOUS
    <2>1. counters \in [packet_in_received : Nat, packet_in_errors : Nat]
      BY DEF IndInv, TypeOK
    <2>2. counters' # counters
      BY <2>1
    <2>3. Callback \/ ProcessReceiveMessage
      BY <2>2 DEF Next, CreateNetdev, DeleteNetdev, Announce, Arrive, Interrupt, Select, HandleEvent,
                  ReadData, RemovePortTranslation, AddPortTranslation, SendPacketOut
    <2>4. CASE Callback
      <3>1. SendPacketInToController(rx.port, Nobody, rx.packet)
        BY <2>4 DEF Callback
      <3>2. rx.packet = rx.port
        BY <2>4 DEF Callback, IndInv, ReceiverHoldsItsPort
      <3> QED BY <2>1, <3>1, <3>2, SendPacketInCounts
    <2>5. CASE ProcessReceiveMessage
      <3> DEFINE source == GetIfname(Head(netlink).ifindex)
      <3>1. source # Nobody /\ netlink # <<>>
        BY <2>2, <2>5 DEF ProcessReceiveMessage
      <3>2. PICK target : SendPacketInToController(source, target, Head(netlink).port)
        BY <2>5, <3>1 DEF ProcessReceiveMessage
      <3>3. source = Head(netlink).port
        BY <3>1, GetIfnameIsRight
      <3> HIDE DEF source
      <3> QED BY <2>1, <3>2, <3>3, SendPacketInCounts
    <2> QED BY <2>3, <2>4, <2>5
  <1> QED BY <1>1, InitIndInv, NextIndInv, PTL DEF Spec, PacketInNamesItsPort

\* A packet out leaves by the interface whose id the controller gave.
THEOREM PacketsOutLeaveByTheirPort == Spec => PacketOutLeavesByItsPort
  <1> DEFINE A == last' # last /\ counters' = counters =>
                    /\ last'.to \in DOMAIN port_translation_map
                    /\ port_translation_map[last'.to] = last'.from
  <1>1. IndInv /\ [Next]_vars => [A]_vars
    <2> SUFFICES ASSUME IndInv, Next, last' # last, counters' = counters
                 PROVE  /\ last'.to \in DOMAIN port_translation_map
                        /\ port_translation_map[last'.to] = last'.from
      OBVIOUS
    <2>1. ~Callback /\ ~ProcessReceiveMessage
      <3>1. counters \in [packet_in_received : Nat, packet_in_errors : Nat]
        BY DEF IndInv, TypeOK
      <3>2. \A source, target, from : ~SendPacketInToController(source, target, from)
        BY <3>1, SendPacketInCounts
      <3> QED BY <3>2 DEF Callback, ProcessReceiveMessage
    <2>2. PICK id \in PortIds : SendPacketOut(id)
      BY <2>1 DEF Next, CreateNetdev, DeleteNetdev, Announce, Arrive, Interrupt, Select, HandleEvent,
                  ReadData, RemovePortTranslation, AddPortTranslation, historyVars
    <2> DEFINE map == port_translation_map
               name == TranslatePort("kForOrchAgent", map, id)
    <2>3. name.ok
      BY <2>2 DEF SendPacketOut
    <2>4. id \in Range(map)
      BY <2>3 DEF TranslatePort, Err
    <2>5. name.value = CHOOSE n \in DOMAIN map : map[n] = id
      BY <2>4 DEF TranslatePort, Ok
    <2>6. name.value \in DOMAIN map /\ map[name.value] = id
      BY <2>4, <2>5 DEF Range
    <2> HIDE DEF name
    <2>7. PICK p \in PortNames :
            /\ netdev[p] = sockets[port_to_socket[name.value]].ifindex
            /\ last' = [from |-> id, to |-> p]
      BY <2>2 DEF SendPacketOut, name
    <2>8. name.value \in DOMAIN port_to_socket
      BY <2>2 DEF SendPacketOut, name
    <2>9. p = name.value
      BY <2>7, <2>8 DEF IndInv, IndexesAreOwned
    <2> QED BY <2>6, <2>7, <2>9
  <1> QED BY <1>1, InitIndInv, NextIndInv, PTL DEF Spec, PacketOutLeavesByItsPort
=============================================================================

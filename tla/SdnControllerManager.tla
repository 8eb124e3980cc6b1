------------------------ MODULE SdnControllerManager ------------------------
(***************************************************************************)
(* Primary election among the SDN controllers of a P4Runtime switch:       *)
(* p4rt_app/p4runtime/sdn_controller_manager.cc, with the part of          *)
(* P4RuntimeImpl::StreamChannel (p4runtime_impl.cc) that drives it.        *)
(*                                                                         *)
(* Every handler runs under server_state_lock_ and SdnControllerManager's  *)
(* own lock_, so each is one step.  What interleaves is the order in which *)
(* the streams, the unary requests and the CONFIG_DB events reach the      *)
(* lock, and the network, which may break a stream at any time.            *)
(***************************************************************************)
EXTENDS Naturals

CONSTANTS
  Connections,    \* SdnConnection objects, one per open StreamChannel
  Roles,          \* role names; the root role (no name) is one of them
  PacketInRoles,  \* role_receives_packet_in_
  ElectionIds,    \* uint128 election ids; 0 is a legal one
  DeviceIds,      \* nonzero device ids
  None            \* std::nullopt

OptionalElectionId == ElectionIds \cup {None}
OptionalDeviceId   == DeviceIds \cup {None}

Responses == [device_id : OptionalDeviceId, election_id : OptionalElectionId,
              status : {"OK", "ALREADY_EXISTS", "NOT_FOUND"}]

ASSUME SdnConstants ==
  /\ PacketInRoles \subseteq Roles
  /\ ElectionIds \subseteq Nat
  /\ DeviceIds \subseteq Nat \ {0}
  /\ None \notin Nat
  /\ None \notin Roles
  /\ None \notin Connections
  /\ None \notin Responses

VARIABLES
  device_id,       \* device_id_
  connections,     \* connections_, without its order
  past,            \* election_id_past_by_role_
  stream,          \* state of each gRPC stream
  role_name,       \* SdnConnection::role_name_
  election_id,     \* SdnConnection::election_id_
  told,            \* the last arbitration response that reached each peer
  packet_in_at,    \* the peers the last PacketIn reached
  last_mutation    \* by role, the election id of the last mutation allowed

vars == <<device_id, connections, past, stream, role_name, election_id, told,
          packet_in_at, last_mutation>>

Init ==
  /\ device_id = None
  /\ connections = {}
  /\ past = [r \in Roles |-> None]
  /\ stream = [c \in Connections |-> "closed"]
  /\ role_name = [c \in Connections |-> None]
  /\ election_id = [c \in Connections |-> None]
  /\ told = [c \in Connections |-> None]
  /\ packet_in_at = {}
  /\ last_mutation = [r \in Roles |-> None]

-----------------------------------------------------------------------------
(* Queries.                                                                *)

IsInitialized(c) == c \in connections

\* The connection holds the role's highest accepted election id.
IsPrimary(c) ==
  /\ c \in connections
  /\ election_id[c] # None
  /\ election_id[c] = past[role_name[c]]

PrimaryConnectionExists(r) ==
  /\ past[r] # None
  /\ \E c \in connections : role_name[c] = r /\ election_id[c] = past[r]

\* Mutation: a connection that is already registered is not checked again.
UnusedCheckedOnceOnly(c, r, eid) ==
  eid # None /\ c \notin connections =>
    \A d \in connections \ {c} : ~(role_name[d] = r /\ election_id[d] = eid)

\* Any number of connections may have no election id (forced backups).
VerifyElectionIdIsUnused(c, r, eid) ==
  eid # None => \A d \in connections \ {c} :
                   ~(role_name[d] = r /\ election_id[d] = eid)

VerifyElectionIdIsActive(r, eid) ==
  \E c \in connections : role_name[c] = r /\ election_id[c] = eid

\* Mutation: any active election id will do.
AllowAnyActiveId(dev, r, eid) ==
  dev # None /\ dev = device_id /\ eid # None /\ VerifyElectionIdIsActive(r, eid)

\* Write, SetForwardingPipelineConfig and PacketOut.  A request's device id
\* of 0 reads as "no device id", and None never equals a request's id.
AllowMutableRequest(dev, r, eid) ==
  /\ dev # None
  /\ dev = device_id
  /\ eid # None
  /\ eid = past[r]
  /\ VerifyElectionIdIsActive(r, eid)

ArbitrationResponse(c) ==
  [device_id   |-> device_id,
   election_id |-> past[role_name[c]],
   status      |-> IF ~PrimaryConnectionExists(role_name[c]) THEN "NOT_FOUND"
                   ELSE IF past[role_name[c]] = election_id[c] THEN "OK"
                   ELSE "ALREADY_EXISTS"]

-----------------------------------------------------------------------------
(* Notifications.  The responses are built after the state has changed,    *)
(* hence the prime; a write to a broken stream is logged and lost.         *)

SendArbitrationResponse(S) ==
  told' = [c \in Connections |->
             IF c \in S /\ stream[c] = "open"
             THEN ArbitrationResponse(c)'
             ELSE IF stream'[c] = "closed" THEN None ELSE told[c]]

\* InformConnectionsAboutPrimaryChange
ConnectionsOfRole(r) == {c \in connections : role_name[c] = r}

-----------------------------------------------------------------------------
(* StreamChannel.                                                          *)

\* A controller opens a StreamChannel; a fresh SdnConnection is created.
OpenStream(c) ==
  /\ stream[c] = "closed"
  /\ stream' = [stream EXCEPT ![c] = "open"]
  /\ UNCHANGED <<device_id, connections, past, role_name, election_id, told,
                 packet_in_at, last_mutation>>

\* The peer is gone.  Messages it sent before may still be read.
BreakStream(c) ==
  /\ stream[c] = "open"
  /\ stream' = [stream EXCEPT ![c] = "broken"]
  /\ UNCHANGED <<device_id, connections, past, role_name, election_id, told,
                 packet_in_at, last_mutation>>

\* Mutation: a primary leaves without a word.
NobodyInformed(c) == {}

\* The connections to inform when c goes.
InformedOnDisconnect(c) ==
  IF IsPrimary(c) THEN ConnectionsOfRole(role_name[c]) \ {c} ELSE {}

\* Disconnect, and the end of the StreamChannel handler that destroys the
\* SdnConnection.  A connection that was never initialized leaves no trace.
Disconnect(c) ==
  /\ connections' = connections \ {c}
  /\ stream' = [stream EXCEPT ![c] = "closed"]
  /\ role_name' = [role_name EXCEPT ![c] = None]
  /\ election_id' = [election_id EXCEPT ![c] = None]
  /\ UNCHANGED <<device_id, past>>
  /\ SendArbitrationResponse(InformedOnDisconnect(c))
  /\ UNCHANGED <<packet_in_at, last_mutation>>

\* stream->Read fails: the peer closed the stream, or it broke.
CloseStream(c) ==
  /\ stream[c] # "closed"
  /\ Disconnect(c)

\* The conditions under which HandleArbitrationUpdate returns OK.
ArbitrationAccepted(c, dev, r, eid) ==
  /\ device_id # None
  /\ dev = device_id
  /\ IsInitialized(c) => r = role_name[c]
  /\ VerifyElectionIdIsUnused(c, r, eid)

\* Mutation: a downgrade of the primary goes unnoticed.
DowngradeUnnoticed(c, r) == FALSE

\* connection_was_primary; a new connection has no election id yet.
WasPrimary(c, r) == election_id[c] # None /\ election_id[c] = past[r]

\* Mutation: every election id makes its connection the primary.
AnyIdWins(r, eid) == eid # None

\* connection_is_new_primary
IsNewPrimary(r, eid) == eid # None /\ (past[r] = None \/ eid >= past[r])

\* HandleArbitrationUpdate for an accepted message: the connection is
\* registered or updated, the role's highest election id follows, and the
\* connections concerned are told.
UpdateArbitration(c, r, eid) ==
  /\ connections' = connections \cup {c}
  /\ role_name' = [role_name EXCEPT ![c] = r]
  /\ election_id' = [election_id EXCEPT ![c] = eid]
  /\ past' = IF IsNewPrimary(r, eid) THEN [past EXCEPT ![r] = eid] ELSE past
  /\ UNCHANGED <<device_id, stream>>
  /\ SendArbitrationResponse(IF IsNewPrimary(r, eid) \/ WasPrimary(c, r)
                             THEN ConnectionsOfRole(r) \cup {c}
                             ELSE {c})
  /\ UNCHANGED <<packet_in_at, last_mutation>>

\* An arbitration message; a rejected one ends the stream.
HandleArbitrationUpdate(c, dev, r, eid) ==
  /\ stream[c] # "closed"
  /\ \/ ArbitrationAccepted(c, dev, r, eid) /\ UpdateArbitration(c, r, eid)
     \/ ~ArbitrationAccepted(c, dev, r, eid) /\ Disconnect(c)

\* A PacketOut message on the stream.
PacketOut(c) ==
  /\ stream[c] # "closed"
  /\ IsInitialized(c)
  /\ AllowMutableRequest(device_id, role_name[c], election_id[c])
  /\ last_mutation' = [last_mutation EXCEPT ![role_name[c]] = election_id[c]]
  /\ UNCHANGED <<device_id, connections, past, stream, role_name, election_id,
                 told, packet_in_at>>

-----------------------------------------------------------------------------
(* Unary requests, packets from the switch and CONFIG_DB events.           *)

\* A Write or SetForwardingPipelineConfig request.  It arrives outside any
\* stream, so its fields are whatever a controller, or one that used to be
\* the primary, put into it.
MutableRequest(dev, r, eid) ==
  /\ AllowMutableRequest(dev, r, eid)
  /\ last_mutation' = [last_mutation EXCEPT ![r] = eid]
  /\ UNCHANGED <<device_id, connections, past, stream, role_name, election_id,
                 told, packet_in_at>>

\* Mutation: the packet goes to every connection of a role that receives it.
SendPacketInToAll ==
  /\ packet_in_at' = {c \in connections :
                        role_name[c] \in PacketInRoles /\ stream[c] = "open"}
  /\ UNCHANGED <<device_id, connections, past, stream, role_name, election_id,
                 told, last_mutation>>

\* SendStreamMessageToPrimary: a copy for the primary of every role that
\* receives packets.
SendPacketInToPrimary ==
  /\ packet_in_at' = {c \in connections :
                        /\ IsPrimary(c)
                        /\ role_name[c] \in PacketInRoles
                        /\ stream[c] = "open"}
  /\ UNCHANGED <<device_id, connections, past, stream, role_name, election_id,
                 told, last_mutation>>

\* A change of node-id in CONFIG_DB; 0 removes the id.  Rejected, and lost,
\* while a controller is connected.
SetDeviceId(d) ==
  /\ connections = {}
  /\ device_id' = IF d = 0 THEN None ELSE d
  /\ UNCHANGED <<connections, past, stream, role_name, election_id, told,
                 packet_in_at, last_mutation>>

-----------------------------------------------------------------------------
Next ==
  \/ \E c \in Connections :
       \/ OpenStream(c)
       \/ BreakStream(c)
       \/ CloseStream(c)
       \/ \E dev \in DeviceIds, r \in Roles, eid \in OptionalElectionId :
            HandleArbitrationUpdate(c, dev, r, eid)
       \/ PacketOut(c)
  \/ \E dev \in DeviceIds, r \in Roles, eid \in OptionalElectionId :
       MutableRequest(dev, r, eid)
  \/ SendPacketInToPrimary
  \/ \E d \in DeviceIds \cup {0} : SetDeviceId(d)

Spec == Init /\ [][Next]_vars

\* gRPC reports a broken stream to the thread blocked in stream->Read.
Fairness ==
  \A c \in Connections : WF_vars(stream[c] = "broken" /\ CloseStream(c))

FairSpec == Spec /\ Fairness

-----------------------------------------------------------------------------
(* The abstract specification this component implements.                   *)

PrimaryOf(r) ==
  IF \E c \in connections : IsPrimary(c) /\ role_name[c] = r
  THEN CHOOSE c \in connections : IsPrimary(c) /\ role_name[c] = r
  ELSE None

Election == INSTANCE PrimaryElection
              WITH epoch    <- past,
                   primary  <- [r \in Roles |-> PrimaryOf(r)],
                   mutation <- last_mutation

-----------------------------------------------------------------------------
(* Properties.                                                             *)

TypeOK ==
  /\ device_id \in OptionalDeviceId
  /\ connections \subseteq Connections
  /\ past \in [Roles -> OptionalElectionId]
  /\ stream \in [Connections -> {"closed", "open", "broken"}]
  /\ role_name \in [Connections -> Roles \cup {None}]
  /\ election_id \in [Connections -> OptionalElectionId]
  /\ told \in [Connections -> Responses \cup {None}]
  /\ packet_in_at \subseteq Connections
  /\ last_mutation \in [Roles -> OptionalElectionId]

\* At most one connection of a role is its primary: two controllers can never
\* both pass AllowMutableRequest by way of different streams, whatever the
\* order of bids, downgrades and disconnects.
AtMostOnePrimary ==
  \A c, d \in connections :
    IsPrimary(c) /\ IsPrimary(d) /\ role_name[c] = role_name[d] => c = d

\* Every connected peer that can be reached has last been told exactly what
\* is the case now: the device id, the highest election id of its role, and
\* whether it, another connection or nobody is the primary.  The handlers send
\* responses only to those a change concerns; none may be forgotten.
ToldTheTruth ==
  \A c \in connections : stream[c] = "open" => told[c] = ArbitrationResponse(c)

\* Fencing: once a role has mutated the switch under an election id, no
\* request or PacketOut with a smaller one is ever allowed again, even after
\* every controller has gone and the device id has changed.
MutationsAreFenced ==
  [][\A r \in Roles : last_mutation[r] # None =>
       /\ last_mutation'[r] # None
       /\ last_mutation'[r] >= last_mutation[r]]_vars

\* A PacketIn reaches only peers that were told they are the primary, and at
\* most one peer of each role.
PacketInToToldPrimaries ==
  [][packet_in_at' # packet_in_at =>
       \A c \in packet_in_at' :
         /\ told[c] # None
         /\ told[c].status = "OK"
         /\ \A d \in packet_in_at' \ {c} : role_name[c] # role_name[d]]_vars

\* Arbitration as a whole is the abstract election: epochs that never
\* decrease, one primary per role, mutations only by a primary under the
\* epoch of its role.
ImplementsElection == Election!Spec
\* When the stream of a primary breaks, every backup of its role that stays
\* connected is told in the end that the primary is gone, unless another
\* connection has become primary meanwhile.
BackupsLearnOfLoss ==
  \A c, d \in Connections :
    (/\ IsPrimary(c) /\ stream[c] = "broken"
     /\ d \in connections /\ stream[d] = "open" /\ role_name[d] = role_name[c])
    ~> (\/ d \notin connections \/ stream[d] # "open"
        \/ told[d].status # "ALREADY_EXISTS"
        \/ \E e \in Connections \ {c} :
              IsPrimary(e) /\ role_name[e] = role_name[d]
        \/ IsPrimary(c) /\ stream[c] = "open")
=============================================================================

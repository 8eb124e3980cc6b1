--------------------- MODULE SdnControllerManagerProofs ---------------------
(***************************************************************************)
(* Proofs about SdnControllerManager, for any number of connections,       *)
(* roles, election ids and device ids.                                     *)
(***************************************************************************)
EXTENDS SdnControllerManager, TLAPS

-----------------------------------------------------------------------------
(* The inductive invariant.                                                *)

\* A registered connection has a role and a stream; one that is not
\* registered has no election id.
Registered ==
  /\ \A c \in connections : role_name[c] \in Roles /\ stream[c] # "closed"
  /\ \A c \in Connections \ connections : election_id[c] = None

\* Connections of one role have different election ids.
UniqueIds ==
  \A c, d \in connections :
    /\ role_name[c] = role_name[d]
    /\ election_id[c] = election_id[d]
    /\ election_id[c] # None
    => c = d

\* A role never mutates the switch under an id above the one it accepted.
MutationBelowPast ==
  \A r \in Roles : last_mutation[r] # None =>
    past[r] # None /\ last_mutation[r] <= past[r]

IInv == TypeOK /\ Registered /\ UniqueIds /\ MutationBelowPast

-----------------------------------------------------------------------------
\* The inductive invariant holds of a server that has just started.
LEMMA InitIInv == Init => IInv
BY SdnConstants
DEF SdnConstants, Init, IInv, TypeOK, Registered, UniqueIds, MutationBelowPast,
    OptionalDeviceId, OptionalElectionId

\* Responses are well typed.
LEMMA ResponseType ==
  ASSUME TypeOK, NEW c \in Connections, role_name[c] \in Roles
  PROVE  ArbitrationResponse(c) \in Responses
BY DEF TypeOK, ArbitrationResponse, Responses

\* What SendArbitrationResponse leaves as the last message of every stream is a
\* response, if what it sends is one.
LEMMA SendType ==
  ASSUME NEW S, told \in [Connections -> Responses \cup {None}],
         SendArbitrationResponse(S),
         \A c \in S : c \in Connections => ArbitrationResponse(c)' \in Responses
  PROVE  told' \in [Connections -> Responses \cup {None}]
BY DEF SendArbitrationResponse

\* Disconnect, with the responses it sends to the role, preserves IInv.
LEMMA DisconnectIInv ==
  ASSUME IInv, NEW c \in Connections, Disconnect(c)
  PROVE  IInv'
<1> USE DEF IInv
<1>1. /\ connections' \subseteq Connections
      /\ stream' \in [Connections -> {"closed", "open", "broken"}]
      /\ role_name' \in [Connections -> Roles \cup {None}]
      /\ election_id' \in [Connections -> OptionalElectionId]
      /\ device_id' \in OptionalDeviceId
      /\ past' \in [Roles -> OptionalElectionId]
      /\ packet_in_at' \subseteq Connections
      /\ last_mutation' \in [Roles -> OptionalElectionId]
  BY DEF Disconnect, TypeOK, OptionalElectionId
<1>2. ASSUME NEW d \in InformedOnDisconnect(c)
      PROVE  ArbitrationResponse(d)' \in Responses
  <2>1. d \in connections /\ d # c
    BY DEF InformedOnDisconnect, ConnectionsOfRole
  <2>2. d \in Connections /\ role_name'[d] \in Roles
    BY <2>1 DEF Disconnect, TypeOK, Registered
  <2> QED BY <1>1, <2>2 DEF ArbitrationResponse, Responses
<1>3. told' \in [Connections -> Responses \cup {None}]
  BY <1>2, SendType DEF Disconnect, TypeOK
<1>4. TypeOK'
  BY <1>1, <1>3 DEF TypeOK
<1>5. Registered'
  BY DEF Disconnect, TypeOK, Registered
<1>6. UniqueIds'
  BY DEF Disconnect, TypeOK, UniqueIds
<1>7. MutationBelowPast'
  BY DEF Disconnect, MutationBelowPast
<1> QED BY <1>4, <1>5, <1>6, <1>7

\* An arbitration update that is accepted preserves IInv: the id it brings is
\* not in use by another connection of the role, and the role's past id only grows.
LEMMA UpdateIInv ==
  ASSUME IInv, NEW c \in Connections, NEW dev, NEW r \in Roles,
         NEW eid \in OptionalElectionId, stream[c] # "closed",
         ArbitrationAccepted(c, dev, r, eid), UpdateArbitration(c, r, eid)
  PROVE  IInv'
<1> USE DEF IInv
<1>1. /\ connections' \subseteq Connections
      /\ stream' \in [Connections -> {"closed", "open", "broken"}]
      /\ role_name' \in [Connections -> Roles \cup {None}]
      /\ election_id' \in [Connections -> OptionalElectionId]
      /\ device_id' \in OptionalDeviceId
      /\ past' \in [Roles -> OptionalElectionId]
      /\ packet_in_at' \subseteq Connections
      /\ last_mutation' \in [Roles -> OptionalElectionId]
  BY DEF UpdateArbitration, TypeOK, OptionalElectionId
<1>2. ASSUME NEW d \in ConnectionsOfRole(r) \cup {c}
      PROVE  ArbitrationResponse(d)' \in Responses
  <2>1. d \in Connections /\ role_name'[d] \in Roles
    BY DEF UpdateArbitration, ConnectionsOfRole, TypeOK, Registered
  <2> QED BY <1>1, <2>1 DEF ArbitrationResponse, Responses
<1>3. told' \in [Connections -> Responses \cup {None}]
  BY <1>2, SendType DEF UpdateArbitration, TypeOK
<1>4. TypeOK'
  BY <1>1, <1>3 DEF TypeOK
<1>5. Registered'
  BY DEF UpdateArbitration, TypeOK, Registered
<1>6. UniqueIds'
  BY DEF UpdateArbitration, TypeOK, UniqueIds, ArbitrationAccepted,
         VerifyElectionIdIsUnused
<1>7. MutationBelowPast'
  <2>1. last_mutation' = last_mutation
    BY DEF UpdateArbitration
  <2>2. ASSUME NEW q \in Roles, last_mutation[q] # None
        PROVE  past'[q] # None /\ last_mutation[q] <= past'[q]
    <3>1. /\ last_mutation[q] \in Nat /\ past[q] \in Nat
          /\ past[q] # None /\ last_mutation[q] <= past[q]
      BY <2>2, SdnConstants
      DEF SdnConstants, MutationBelowPast, TypeOK, OptionalElectionId
    <3>2. CASE q = r /\ IsNewPrimary(r, eid)
      <4>1. past'[q] = eid /\ eid \in Nat /\ eid # None
        BY <3>2, SdnConstants
        DEF SdnConstants, UpdateArbitration, IsNewPrimary, TypeOK,
            OptionalElectionId
      <4>2. eid >= past[q]
        BY <3>1, <3>2 DEF IsNewPrimary
      <4> QED BY <3>1, <4>1, <4>2
    <3>3. CASE ~(q = r /\ IsNewPrimary(r, eid))
      BY <3>1, <3>3 DEF UpdateArbitration, TypeOK
    <3> QED BY <3>2, <3>3
  <2> QED BY <2>1, <2>2 DEF MutationBelowPast
<1> QED BY <1>4, <1>5, <1>6, <1>7

\* A mutation that AllowMutableRequest lets through preserves IInv: its id is
\* the role's past id.
LEMMA MutationIInv ==
  ASSUME IInv, NEW dev, NEW r \in Roles, NEW eid \in OptionalElectionId,
         AllowMutableRequest(dev, r, eid),
         last_mutation' = [last_mutation EXCEPT ![r] = eid],
         UNCHANGED <<device_id, connections, past, stream, role_name,
                     election_id, told, packet_in_at>>
  PROVE  IInv'
<1> USE DEF IInv
<1>1. TypeOK'
  BY DEF TypeOK
<1>2. Registered' /\ UniqueIds'
  BY DEF Registered, UniqueIds
<1>3. MutationBelowPast'
  BY SdnConstants
  DEF SdnConstants, TypeOK, MutationBelowPast, AllowMutableRequest, OptionalElectionId
<1> QED BY <1>1, <1>2, <1>3

\* A connection's role is a role of the model while it is registered.
LEMMA PacketOutArguments ==
  ASSUME IInv, NEW c \in Connections, PacketOut(c)
  PROVE  role_name[c] \in Roles /\ election_id[c] \in OptionalElectionId
BY DEF IInv, TypeOK, Registered, PacketOut, IsInitialized

\* Every step of the server preserves the inductive invariant.
LEMMA NextIInv == IInv /\ [Next]_vars => IInv'
<1> SUFFICES ASSUME IInv, [Next]_vars
             PROVE  IInv'
  OBVIOUS
<1>1. ASSUME NEW c \in Connections, OpenStream(c)
      PROVE  IInv'
  BY <1>1 DEF IInv, OpenStream, TypeOK, Registered, UniqueIds,
              MutationBelowPast
<1>2. ASSUME NEW c \in Connections, BreakStream(c)
      PROVE  IInv'
  BY <1>2 DEF IInv, BreakStream, TypeOK, Registered, UniqueIds,
              MutationBelowPast
<1>3. ASSUME NEW c \in Connections, CloseStream(c)
      PROVE  IInv'
  BY <1>3, DisconnectIInv DEF CloseStream
<1>4. ASSUME NEW c \in Connections, NEW dev \in DeviceIds, NEW r \in Roles,
             NEW eid \in OptionalElectionId,
             HandleArbitrationUpdate(c, dev, r, eid)
      PROVE  IInv'
  BY <1>4, DisconnectIInv, UpdateIInv DEF HandleArbitrationUpdate
<1>5. ASSUME NEW c \in Connections, PacketOut(c)
      PROVE  IInv'
  BY <1>5, PacketOutArguments, MutationIInv DEF PacketOut
<1>6. ASSUME NEW dev \in DeviceIds, NEW r \in Roles,
             NEW eid \in OptionalElectionId, MutableRequest(dev, r, eid)
      PROVE  IInv'
  BY <1>6, MutationIInv DEF MutableRequest
<1>7. CASE SendPacketInToPrimary
  BY <1>7 DEF IInv, SendPacketInToPrimary, TypeOK, Registered, UniqueIds,
              MutationBelowPast
<1>8. ASSUME NEW d \in DeviceIds \cup {0}, SetDeviceId(d)
      PROVE  IInv'
  BY <1>8 DEF IInv, SetDeviceId, TypeOK, Registered, UniqueIds,
              MutationBelowPast, OptionalDeviceId
<1>9. CASE UNCHANGED vars
  BY <1>9 DEF IInv, vars, TypeOK, Registered, UniqueIds, MutationBelowPast
<1> QED
  BY <1>1, <1>2, <1>3, <1>4, <1>5, <1>6, <1>7, <1>8, <1>9 DEF Next

\* The inductive invariant holds in every reachable state.
THEOREM Invariance == Spec => []IInv
BY InitIInv, NextIInv, PTL DEF Spec

\* Every variable of SdnControllerManager keeps its type.
THEOREM TypeCorrect == Spec => []TypeOK
<1>1. IInv => TypeOK
  BY DEF IInv
<1> QED BY <1>1, Invariance, PTL

\* At no time has a role two primary connections.
THEOREM OnePrimary == Spec => []AtMostOnePrimary
<1>1. IInv => AtMostOnePrimary
  BY DEF IInv, UniqueIds, AtMostOnePrimary, IsPrimary
<1> QED BY <1>1, Invariance, PTL

-----------------------------------------------------------------------------
(* What the peers were told.                                               *)

\* A step that leaves the state an answer is built from unchanged for d also
\* leaves the answer unchanged.
LEMMA SameResponse ==
  ASSUME NEW d, device_id' = device_id, role_name'[d] = role_name[d],
         election_id'[d] = election_id[d],
         past'[role_name[d]] = past[role_name[d]],
         PrimaryConnectionExists(role_name[d])' =
           PrimaryConnectionExists(role_name[d])
  PROVE  ArbitrationResponse(d)' = ArbitrationResponse(d)
BY DEF ArbitrationResponse, PrimaryConnectionExists

\* After Disconnect the peers that remain know whether the role has a primary:
\* all of them are told if it was the primary that left.
LEMMA DisconnectTold ==
  ASSUME IInv, ToldTheTruth, NEW c \in Connections, Disconnect(c)
  PROVE  ToldTheTruth'
<1> SUFFICES ASSUME NEW d \in connections', stream'[d] = "open"
             PROVE  told'[d] = ArbitrationResponse(d)'
  BY DEF ToldTheTruth
<1>1. /\ d \in connections /\ d # c /\ d \in Connections
      /\ stream[d] = "open" /\ role_name[d] \in Roles
      /\ role_name'[d] = role_name[d] /\ election_id'[d] = election_id[d]
  BY DEF Disconnect, IInv, TypeOK, Registered
<1>2. CASE d \in InformedOnDisconnect(c)
  BY <1>1, <1>2 DEF Disconnect, SendArbitrationResponse
<1>3. CASE d \notin InformedOnDisconnect(c)
  <2>1. told'[d] = told[d]
    BY <1>1, <1>3 DEF Disconnect, SendArbitrationResponse
  <2>2. ~(IsPrimary(c) /\ role_name[c] = role_name[d])
    BY <1>1, <1>3 DEF InformedOnDisconnect, ConnectionsOfRole
  <2>3. PrimaryConnectionExists(role_name[d])' =
          PrimaryConnectionExists(role_name[d])
    BY <1>1, <2>2 DEF Disconnect, PrimaryConnectionExists, IsPrimary, IInv,
                      TypeOK
  <2> QED BY <1>1, <2>1, <2>3, SameResponse DEF Disconnect, ToldTheTruth
<1> QED BY <1>2, <1>3

\* After an accepted update every peer of the role knows its outcome: all of
\* them are told if the primary changed, the sender in any case.
LEMMA UpdateTold ==
  ASSUME IInv, ToldTheTruth, NEW c \in Connections, NEW dev, NEW r \in Roles,
         NEW eid \in OptionalElectionId, stream[c] # "closed",
         ArbitrationAccepted(c, dev, r, eid), UpdateArbitration(c, r, eid)
  PROVE  ToldTheTruth'
<1> SUFFICES ASSUME NEW d \in connections', stream'[d] = "open"
             PROVE  told'[d] = ArbitrationResponse(d)'
  BY DEF ToldTheTruth
<1>1. d \in Connections /\ stream[d] = "open"
  BY DEF UpdateArbitration, IInv, TypeOK
<1> DEFINE S == IF IsNewPrimary(r, eid) \/ WasPrimary(c, r)
                THEN ConnectionsOfRole(r) \cup {c}
                ELSE {c}
<1>2. CASE d \in S
  BY <1>1, <1>2 DEF UpdateArbitration, SendArbitrationResponse
<1>3. CASE d \notin S
  <2>1. /\ d # c /\ d \in connections /\ role_name[d] \in Roles
        /\ role_name'[d] = role_name[d] /\ election_id'[d] = election_id[d]
    BY <1>1, <1>3 DEF UpdateArbitration, IInv, TypeOK, Registered
  <2>2. told'[d] = told[d]
    BY <1>1, <1>3 DEF UpdateArbitration, SendArbitrationResponse
  <2>3. CASE role_name[d] # r
    <3>1. past'[role_name[d]] = past[role_name[d]]
      BY <2>1, <2>3 DEF UpdateArbitration, IInv, TypeOK
    <3>2. c \in connections => role_name[c] = r
      BY DEF ArbitrationAccepted, IsInitialized
    <3>3. PrimaryConnectionExists(role_name[d])' =
            PrimaryConnectionExists(role_name[d])
      BY <2>1, <2>3, <3>1, <3>2
      DEF UpdateArbitration, PrimaryConnectionExists, IInv, TypeOK
    <3> QED BY <1>1, <2>1, <2>2, <3>1, <3>3, SameResponse
            DEF UpdateArbitration, ToldTheTruth
  <2>4. CASE role_name[d] = r
    <3>1. ~IsNewPrimary(r, eid) /\ ~WasPrimary(c, r)
      BY <1>3, <2>1, <2>4 DEF ConnectionsOfRole
    <3>2. past' = past
      BY <3>1 DEF UpdateArbitration
    <3>3. past[r] # None => election_id[c] # past[r] /\ eid # past[r]
      BY <3>1, SdnConstants
      DEF SdnConstants, IsNewPrimary, WasPrimary, IInv, TypeOK,
          OptionalElectionId
    <3>4. PrimaryConnectionExists(r)' = PrimaryConnectionExists(r)
      BY <3>2, <3>3
      DEF UpdateArbitration, PrimaryConnectionExists, IInv, TypeOK
    <3> QED BY <1>1, <2>1, <2>2, <2>4, <3>2, <3>4, SameResponse
            DEF UpdateArbitration, ToldTheTruth
  <2> QED BY <2>3, <2>4
<1> QED BY <1>2, <1>3

\* A step that changes neither what is told nor anything an answer is built
\* from; it may still break or open streams of others.
LEMMA QuietTold ==
  ASSUME IInv, ToldTheTruth,
         UNCHANGED <<device_id, connections, past, role_name, election_id,
                     told>>,
         \A d \in connections : stream'[d] = "open" => stream[d] = "open"
  PROVE  ToldTheTruth'
BY DEF ToldTheTruth, ArbitrationResponse, PrimaryConnectionExists

\* Every step of the server leaves every reachable peer with a true answer.
LEMMA NextTold == IInv /\ ToldTheTruth /\ [Next]_vars => ToldTheTruth'
<1> SUFFICES ASSUME IInv, ToldTheTruth, [Next]_vars
             PROVE  ToldTheTruth'
  OBVIOUS
<1>1. ASSUME NEW c \in Connections, OpenStream(c) \/ BreakStream(c)
      PROVE  ToldTheTruth'
  BY <1>1, QuietTold DEF OpenStream, BreakStream, IInv, TypeOK, Registered
<1>2. ASSUME NEW c \in Connections, CloseStream(c)
      PROVE  ToldTheTruth'
  BY <1>2, DisconnectTold DEF CloseStream
<1>3. ASSUME NEW c \in Connections, NEW dev \in DeviceIds, NEW r \in Roles,
             NEW eid \in OptionalElectionId,
             HandleArbitrationUpdate(c, dev, r, eid)
      PROVE  ToldTheTruth'
  BY <1>3, DisconnectTold, UpdateTold DEF HandleArbitrationUpdate
<1>4. ASSUME NEW c \in Connections, PacketOut(c)
      PROVE  ToldTheTruth'
  BY <1>4, QuietTold DEF PacketOut
<1>5. ASSUME NEW dev \in DeviceIds, NEW r \in Roles,
             NEW eid \in OptionalElectionId, MutableRequest(dev, r, eid)
      PROVE  ToldTheTruth'
  BY <1>5, QuietTold DEF MutableRequest
<1>6. CASE SendPacketInToPrimary
  BY <1>6, QuietTold DEF SendPacketInToPrimary
<1>7. ASSUME NEW d \in DeviceIds \cup {0}, SetDeviceId(d)
      PROVE  ToldTheTruth'
  BY <1>7 DEF SetDeviceId, ToldTheTruth
<1>8. CASE UNCHANGED vars
  BY <1>8, QuietTold DEF vars
<1> QED BY <1>1, <1>2, <1>3, <1>4, <1>5, <1>6, <1>7, <1>8 DEF Next

\* Every reachable peer has last been told exactly what is the case.
THEOREM PeersKnowTheTruth == Spec => []ToldTheTruth
<1>1. Init => ToldTheTruth
  BY DEF Init, ToldTheTruth
<1> QED BY <1>1, NextTold, Invariance, PTL DEF Spec

-----------------------------------------------------------------------------
(* Fencing.                                                                *)

\* No step lowers the id under which a role was last mutated.
LEMMA NextFenced ==
  ASSUME IInv, [Next]_vars, NEW r \in Roles, last_mutation[r] # None
  PROVE  last_mutation'[r] # None /\ last_mutation'[r] >= last_mutation[r]
<1> USE SdnConstants DEF SdnConstants
<1>1. last_mutation[r] \in Nat
  BY DEF IInv, TypeOK, OptionalElectionId
<1>2. ASSUME NEW dev, NEW q \in Roles, NEW eid \in OptionalElectionId,
             AllowMutableRequest(dev, q, eid),
             last_mutation' = [last_mutation EXCEPT ![q] = eid]
      PROVE  last_mutation'[r] # None /\ last_mutation'[r] >= last_mutation[r]
  BY <1>1, <1>2
  DEF AllowMutableRequest, IInv, TypeOK, MutationBelowPast, OptionalElectionId
<1>3. ASSUME NEW c \in Connections, PacketOut(c)
      PROVE  last_mutation'[r] # None /\ last_mutation'[r] >= last_mutation[r]
  BY <1>2, <1>3, PacketOutArguments DEF PacketOut
<1>4. ASSUME NEW dev \in DeviceIds, NEW q \in Roles,
             NEW eid \in OptionalElectionId, MutableRequest(dev, q, eid)
      PROVE  last_mutation'[r] # None /\ last_mutation'[r] >= last_mutation[r]
  BY <1>2, <1>4 DEF MutableRequest
<1>5. CASE last_mutation' = last_mutation
  BY <1>1, <1>5
<1> QED
  BY <1>3, <1>4, <1>5
  DEF Next, vars, OpenStream, BreakStream, CloseStream, Disconnect,
      HandleArbitrationUpdate, UpdateArbitration, SendPacketInToPrimary,
      SetDeviceId

\* No mutation is ever allowed under an election id smaller than that of an
\* earlier mutation of the role.
THEOREM Fencing == Spec => MutationsAreFenced
<1>1. IInv /\ [Next]_vars =>
        [\A r \in Roles : last_mutation[r] # None =>
           /\ last_mutation'[r] # None
           /\ last_mutation'[r] >= last_mutation[r]]_vars
  BY NextFenced
<1> QED BY <1>1, Invariance, PTL DEF Spec, MutationsAreFenced

-----------------------------------------------------------------------------
(* Refinement of PrimaryElection.                                          *)

\* PrimaryOf picks the one primary of a role, before and after a step.
LEMMA PrimaryOfIs ==
  ASSUME UniqueIds, NEW c \in connections, IsPrimary(c)
  PROVE  PrimaryOf(role_name[c]) = c
BY DEF UniqueIds, IsPrimary, PrimaryOf

\* The same for the state after a step.
LEMMA PrimaryOfIsNext ==
  ASSUME UniqueIds', NEW c \in connections', IsPrimary(c)', NEW q,
         role_name'[c] = q
  PROVE  PrimaryOf(q)' = c
BY DEF UniqueIds, IsPrimary, PrimaryOf

\* A step that keeps the set of primaries of a role keeps its primary.
LEMMA SamePrimary ==
  ASSUME UniqueIds, UniqueIds', NEW q \in Roles,
         \A d : (d \in connections /\ IsPrimary(d) /\ role_name[d] = q)
             <=> (d \in connections' /\ IsPrimary(d)' /\ role_name'[d] = q)
  PROVE  PrimaryOf(q)' = PrimaryOf(q)
<1>1. CASE \E d \in connections : IsPrimary(d) /\ role_name[d] = q
  BY <1>1, PrimaryOfIs, PrimaryOfIsNext
<1>2. CASE ~\E d \in connections : IsPrimary(d) /\ role_name[d] = q
  BY <1>2 DEF PrimaryOf
<1> QED BY <1>1, <1>2

\* A role that is left without a primary has none in the abstract election.
LEMMA PrimaryOfNone ==
  ASSUME NEW q, \A d \in connections' : ~(IsPrimary(d)' /\ role_name'[d] = q)
  PROVE  PrimaryOf(q)' = None
BY DEF PrimaryOf

\* Disconnect is the abstract loss of a primary, or a stutter if a backup left.
LEMMA DisconnectRefines ==
  ASSUME IInv, IInv', NEW c \in Connections, Disconnect(c)
  PROVE  [Election!Next]_(Election!vars)
<1>1. ASSUME NEW q \in Roles, ~(IsPrimary(c) /\ role_name[c] = q)
      PROVE  PrimaryOf(q)' = PrimaryOf(q)
  <2>1. \A d : (d \in connections /\ IsPrimary(d) /\ role_name[d] = q)
            <=> (d \in connections' /\ IsPrimary(d)' /\ role_name'[d] = q)
    BY <1>1 DEF Disconnect, IsPrimary, IInv, TypeOK
  <2> QED BY <2>1, SamePrimary DEF IInv
<1>2. past' = past /\ last_mutation' = last_mutation
  BY DEF Disconnect
<1>3. CASE IsPrimary(c)
  <2> PICK r \in Roles : r = role_name[c]
    BY <1>3 DEF IInv, Registered, IsPrimary
  <2>1. PrimaryOf(r) = c
    BY <1>3, PrimaryOfIs DEF IInv, IsPrimary
  <2>2. \A d \in connections' : ~(IsPrimary(d)' /\ role_name'[d] = r)
    BY <1>3 DEF Disconnect, IsPrimary, IInv, TypeOK, UniqueIds
  <2>3. PrimaryOf(r)' = None
    BY <2>2, PrimaryOfNone
  <2>4. [q \in Roles |-> PrimaryOf(q)]'
          = [[q \in Roles |-> PrimaryOf(q)] EXCEPT ![r] = None]
    BY <1>1, <2>1, <2>3
  <2>5. Election!StepDown(r)
    BY <1>2, <2>1, <2>4, SdnConstants DEF SdnConstants, Election!StepDown
  <2> QED BY <2>5 DEF Election!Next
<1>4. CASE ~IsPrimary(c)
  <2>1. [q \in Roles |-> PrimaryOf(q)]' = [q \in Roles |-> PrimaryOf(q)]
    BY <1>1, <1>4
  <2> QED BY <1>2, <2>1 DEF Election!vars
<1> QED BY <1>3, <1>4

\* An accepted update is an abstract election, a resignation or a stutter.
LEMMA UpdateRefines ==
  ASSUME IInv, IInv', NEW c \in Connections, NEW dev, NEW r \in Roles,
         NEW eid \in OptionalElectionId,
         ArbitrationAccepted(c, dev, r, eid), UpdateArbitration(c, r, eid)
  PROVE  [Election!Next]_(Election!vars)
<1>1. c \in connections => role_name[c] = r
  BY DEF ArbitrationAccepted, IsInitialized
<1>2. last_mutation' = last_mutation
  BY DEF UpdateArbitration
<1>3. ASSUME NEW q \in Roles, q # r
      PROVE  PrimaryOf(q)' = PrimaryOf(q)
  <2>1. \A d : (d \in connections /\ IsPrimary(d) /\ role_name[d] = q)
            <=> (d \in connections' /\ IsPrimary(d)' /\ role_name'[d] = q)
    BY <1>1, <1>3 DEF UpdateArbitration, IsPrimary, IInv, TypeOK
  <2> QED BY <2>1, SamePrimary DEF IInv
<1>4. CASE IsNewPrimary(r, eid)
  <2>1. eid # None /\ eid \in ElectionIds
    BY <1>4 DEF IsNewPrimary, OptionalElectionId
  <2>2. past' = [past EXCEPT ![r] = eid]
    BY <1>4 DEF UpdateArbitration
  <2>3. c \in connections' /\ role_name'[c] = r /\ IsPrimary(c)'
    BY <2>1, <2>2 DEF UpdateArbitration, IsPrimary, IInv, TypeOK
  <2>4. PrimaryOf(r)' = c
    BY <2>3, PrimaryOfIsNext DEF IInv
  <2>5. [q \in Roles |-> PrimaryOf(q)]'
          = [[q \in Roles |-> PrimaryOf(q)] EXCEPT ![r] = c]
    BY <1>3, <2>4
  <2>6. Election!Elect(r, c, eid)
    BY <1>2, <1>4, <2>2, <2>5 DEF Election!Elect, IsNewPrimary
  <2> QED BY <2>1, <2>6 DEF Election!Next
<1>5. CASE ~IsNewPrimary(r, eid)
  <2>1. past' = past
    BY <1>5 DEF UpdateArbitration
  <2>2. ~IsPrimary(c)'
    BY <1>5, <2>1, SdnConstants
    DEF SdnConstants, UpdateArbitration, IsPrimary, IsNewPrimary, IInv, TypeOK,
        OptionalElectionId
  <2>3. CASE c \in connections /\ IsPrimary(c)
    <3>1. PrimaryOf(r) = c
      BY <1>1, <2>3, PrimaryOfIs DEF IInv
    <3>2. \A d \in connections' : ~(IsPrimary(d)' /\ role_name'[d] = r)
      BY <1>1, <2>1, <2>2, <2>3
      DEF UpdateArbitration, IsPrimary, IInv, TypeOK, UniqueIds
    <3>3. PrimaryOf(r)' = None
      BY <3>2, PrimaryOfNone
    <3>4. [q \in Roles |-> PrimaryOf(q)]'
            = [[q \in Roles |-> PrimaryOf(q)] EXCEPT ![r] = None]
      BY <1>3, <3>3
    <3>5. Election!StepDown(r)
      BY <1>2, <2>1, <3>1, <3>4, SdnConstants
      DEF SdnConstants, Election!StepDown
    <3> QED BY <3>5 DEF Election!Next
  <2>4. CASE ~(c \in connections /\ IsPrimary(c))
    <3>1. \A d : (d \in connections /\ IsPrimary(d) /\ role_name[d] = r)
              <=> (d \in connections' /\ IsPrimary(d)' /\ role_name'[d] = r)
      BY <2>1, <2>2, <2>4 DEF UpdateArbitration, IsPrimary, IInv, TypeOK
    <3>2. PrimaryOf(r)' = PrimaryOf(r)
      BY <3>1, SamePrimary DEF IInv
    <3>3. [q \in Roles |-> PrimaryOf(q)]' = [q \in Roles |-> PrimaryOf(q)]
      BY <1>3, <3>2
    <3> QED BY <1>2, <2>1, <3>3 DEF Election!vars
  <2> QED BY <2>3, <2>4
<1> QED BY <1>4, <1>5

\* An allowed mutation is an abstract mutation in the epoch of its role.
LEMMA MutationRefines ==
  ASSUME IInv, IInv', NEW dev, NEW r \in Roles,
         NEW eid \in OptionalElectionId,
         AllowMutableRequest(dev, r, eid),
         last_mutation' = [last_mutation EXCEPT ![r] = eid],
         UNCHANGED <<connections, past, role_name, election_id>>
  PROVE  [Election!Next]_(Election!vars)
<1>1. [q \in Roles |-> PrimaryOf(q)]' = [q \in Roles |-> PrimaryOf(q)]
  BY DEF PrimaryOf, IsPrimary
<1>2. PICK c \in connections : IsPrimary(c) /\ role_name[c] = r
  BY DEF AllowMutableRequest, VerifyElectionIdIsActive, IsPrimary
<1>3. PrimaryOf(r) = c /\ c \in Connections
  BY <1>2, PrimaryOfIs DEF IInv, TypeOK
<1>4. Election!Mutate(r)
  BY <1>1, <1>3, SdnConstants
  DEF SdnConstants, Election!Mutate, AllowMutableRequest
<1> QED BY <1>4 DEF Election!Next

\* A step that touches no role, id or mutation is a stutter.
LEMMA QuietRefines ==
  ASSUME UNCHANGED <<connections, past, role_name, election_id, last_mutation>>
  PROVE  [Election!Next]_(Election!vars)
<1>1. [q \in Roles |-> PrimaryOf(q)]' = [q \in Roles |-> PrimaryOf(q)]
  BY DEF PrimaryOf, IsPrimary
<1> QED BY <1>1 DEF Election!vars

\* Every step of the server is a step of the abstract election or a stutter.
LEMMA NextRefines ==
  IInv /\ IInv' /\ [Next]_vars => [Election!Next]_(Election!vars)
<1> SUFFICES ASSUME IInv, IInv', [Next]_vars
             PROVE  [Election!Next]_(Election!vars)
  OBVIOUS
<1>1. ASSUME NEW c \in Connections, OpenStream(c) \/ BreakStream(c)
      PROVE  [Election!Next]_(Election!vars)
  BY <1>1, QuietRefines DEF OpenStream, BreakStream
<1>2. ASSUME NEW c \in Connections, CloseStream(c)
      PROVE  [Election!Next]_(Election!vars)
  BY <1>2, DisconnectRefines DEF CloseStream
<1>3. ASSUME NEW c \in Connections, NEW dev \in DeviceIds, NEW r \in Roles,
             NEW eid \in OptionalElectionId,
             HandleArbitrationUpdate(c, dev, r, eid)
      PROVE  [Election!Next]_(Election!vars)
  BY <1>3, DisconnectRefines, UpdateRefines DEF HandleArbitrationUpdate
<1>4. ASSUME NEW c \in Connections, PacketOut(c)
      PROVE  [Election!Next]_(Election!vars)
  BY <1>4, PacketOutArguments, MutationRefines DEF PacketOut
<1>5. ASSUME NEW dev \in DeviceIds, NEW r \in Roles,
             NEW eid \in OptionalElectionId, MutableRequest(dev, r, eid)
      PROVE  [Election!Next]_(Election!vars)
  BY <1>5, MutationRefines DEF MutableRequest
<1>6. CASE SendPacketInToPrimary
  BY <1>6, QuietRefines DEF SendPacketInToPrimary
<1>7. ASSUME NEW d \in DeviceIds \cup {0}, SetDeviceId(d)
      PROVE  [Election!Next]_(Election!vars)
  BY <1>7, QuietRefines DEF SetDeviceId
<1>8. CASE UNCHANGED vars
  BY <1>8, QuietRefines DEF vars
<1> QED BY <1>1, <1>2, <1>3, <1>4, <1>5, <1>6, <1>7, <1>8 DEF Next

\* SdnControllerManager implements the abstract election.
THEOREM Refinement == Spec => ImplementsElection
<1>1. Init => Election!Init
  BY DEF Init, Election!Init, PrimaryOf
<1> QED
  BY <1>1, NextRefines, Invariance, PTL DEF Spec, ImplementsElection, Election!Spec

-----------------------------------------------------------------------------
(* PacketIns.                                                              *)

\* Only SendPacketInToPrimary delivers a PacketIn.
LEMMA OnlyPacketInDelivers ==
  ASSUME [Next]_vars, packet_in_at' # packet_in_at
  PROVE  SendPacketInToPrimary
<1>1. ASSUME NEW c \in Connections,
             OpenStream(c) \/ BreakStream(c) \/ CloseStream(c) \/ PacketOut(c)
      PROVE  packet_in_at' = packet_in_at
  BY <1>1 DEF OpenStream, BreakStream, CloseStream, Disconnect, PacketOut
<1>2. ASSUME NEW c \in Connections, NEW dev \in DeviceIds, NEW r \in Roles,
             NEW eid \in OptionalElectionId,
             HandleArbitrationUpdate(c, dev, r, eid)
      PROVE  packet_in_at' = packet_in_at
  BY <1>2 DEF HandleArbitrationUpdate, UpdateArbitration, Disconnect
<1>3. ASSUME NEW dev \in DeviceIds, NEW r \in Roles,
             NEW eid \in OptionalElectionId, MutableRequest(dev, r, eid)
      PROVE  packet_in_at' = packet_in_at
  BY <1>3 DEF MutableRequest
<1>4. ASSUME NEW d \in DeviceIds \cup {0}, SetDeviceId(d)
      PROVE  packet_in_at' = packet_in_at
  BY <1>4 DEF SetDeviceId
<1>5. CASE UNCHANGED vars
  BY <1>5 DEF vars
<1> QED BY <1>1, <1>2, <1>3, <1>4, <1>5 DEF Next

\* A PacketIn reaches only peers that were told they are the primary, and at
\* most one of each role (SendPacketInToPrimary): a primary that can be reached
\* has last been told so, and a role has one.
THEOREM PacketInsReachToldPrimaries == Spec => PacketInToToldPrimaries
<1>1. IInv /\ ToldTheTruth /\ [Next]_vars =>
        (packet_in_at' # packet_in_at =>
           \A c \in packet_in_at' :
             /\ told[c] # None
             /\ told[c].status = "OK"
             /\ \A d \in packet_in_at' \ {c} : role_name[c] # role_name[d])
  <2> SUFFICES ASSUME IInv, ToldTheTruth, [Next]_vars, packet_in_at' # packet_in_at,
                      NEW c \in packet_in_at'
               PROVE  /\ told[c] # None
                      /\ told[c].status = "OK"
                      /\ \A d \in packet_in_at' \ {c} : role_name[c] # role_name[d]
    OBVIOUS
  <2>1. \A d \in packet_in_at' : d \in connections /\ IsPrimary(d) /\ stream[d] = "open"
    BY OnlyPacketInDelivers DEF SendPacketInToPrimary
  <2>2. told[c] = ArbitrationResponse(c)
    BY <2>1 DEF ToldTheTruth
  <2>3. told[c].status = "OK"
    <3>1. past[role_name[c]] = election_id[c] /\ PrimaryConnectionExists(role_name[c])
      BY <2>1 DEF IsPrimary, PrimaryConnectionExists
    <3> QED BY <2>2, <3>1 DEF ArbitrationResponse
  <2>4. told[c] # None
    <3>1. c \in Connections /\ role_name[c] \in Roles
      BY <2>1 DEF IInv, TypeOK, Registered
    <3>2. ArbitrationResponse(c) \in Responses
      BY <3>1, ResponseType DEF IInv
    <3> QED BY <2>2, <3>2, SdnConstants DEF SdnConstants
  <2>5. \A d \in packet_in_at' \ {c} : role_name[c] # role_name[d]
    BY <2>1 DEF IInv, UniqueIds, IsPrimary
  <2> QED BY <2>3, <2>4, <2>5
<1> QED BY <1>1, Invariance, PeersKnowTheTruth, PTL DEF Spec, PacketInToToldPrimaries
=============================================================================

----------------------------- MODULE MCPacketlib -----------------------------
(***************************************************************************)
(* Packets of every kind of header, with payloads short and long, options  *)
(* that fit and do not, computed fields missing and wrong, other fields    *)
(* missing; and the bytes of packets, whole, cut short and altered.        *)
(***************************************************************************)
EXTENDS Packetlib, LibraryCall

Stacks ==
  {<<"ethernet">>, <<"ethernet", "arp">>, <<"ethernet", "ptp">>, <<"ethernet", "ipv4">>,
   <<"ethernet", "ipv4", "udp">>, <<"ethernet", "vlan", "ipv4", "tcp">>, <<"ethernet", "csig", "ipv6", "tcp">>,
   <<"ethernet", "ipv4", "icmp">>, <<"ethernet", "ipv6", "hop_by_hop", "icmp">>,
   <<"ethernet", "ipv6", "hop_by_hop", "udp">>, <<"ethernet", "ipv6", "udp", "ipfix", "psamp">>,
   <<"ethernet", "ipv4", "udp", "ptp">>, <<"ethernet", "ipv6", "udp", "psp", "udp">>,
   <<"packet_in", "ethernet", "ipv4", "ipv4", "icmp">>, <<"ipv6", "ipv6">>}

GreStack == <<"ethernet", "ipv4", "gre", "ipv6", "udp">>

\* The fields that say which header comes next, and those that decide how
\* the packet is checked.
Selectors ==
  {"ethertype", "protocol_type", "protocol", "next_header", "destination_port", "crypt_offset",
   "virtualization_cookie_present", "checksum_present", "message_type"}

\* The value that demands the next header.
Demand(table, next, other) ==
  IF \E e \in table : e[2] = next THEN (CHOOSE e \in table : e[2] = next)[1] ELSE other

DefaultSelector(kind, name, next) ==
  CASE name \in {"ethertype", "protocol_type"} ->
         IF next = None THEN <<>> ELSE Bitset(Demand(EtherTypes, next, 0), 16)
    [] name = "protocol" -> Bitset(Demand(IpProtocols \cup {<<1, "icmp">>}, next, 253), 8)
    [] name = "next_header" ->
         Bitset(IF kind = "psp" THEN 17 ELSE Demand(IpProtocols \cup {<<58, "icmp">>, <<0, "hop_by_hop">>}, next, 254), 8)
    [] name = "destination_port" -> Bitset(Demand(UdpDestinations, next, 7), 16)
    [] name = "crypt_offset" -> Bitset(2, 6)
    [] name = "message_type" -> Bitset(1, 4)
    [] OTHER -> <<0>>

\* A field as a test would write it: computed fields are left out.
DefaultField(kind, name, next) ==
  CASE name \in Selectors /\ name \in FixedFields[kind] /\ kind # "arp" /\ ~(kind = "tcp" /\ name = "destination_port") ->
         DefaultSelector(kind, name, next)
    [] name \in ToSet(ComputedFields[kind]) \/ name = "uninterpreted_options" -> <<>>
    [] name \in DOMAIN ConstantFields[kind] -> Zeros(Width[kind][name])
    [] OTHER -> Zeros(Width[kind][name] - 1) \o <<1>>

\* Bits with a pattern, so that what is lost or moved shows.
Pattern(n) == [j \in 1..(8 * n) |-> IF j % 7 = 0 THEN 1 ELSE 0]
Ones(width) == [j \in 1..width |-> 1]

\* The packet of a stack of headers, with one field of one kind changed.
PacketOf(stack, bytes, change) ==
  LET next(i) == IF i < Len(stack) THEN stack[i + 1] ELSE None
      names(k) == FixedFields[k] \cup ToSet(OptionalFields[k])
      value(i, n) == IF change.kind = stack[i] /\ change.field = n THEN change.value
                     ELSE DefaultField(stack[i], n, next(i))
  IN [headers |-> [i \in DOMAIN stack |->
                     [kind |-> stack[i], fields |-> [n \in names(stack[i]) |-> value(i, n)]]],
      payload |-> Pattern(bytes)]

Change(kind, name, value) == [kind |-> kind, field |-> name, value |-> value]
NoChange == Change(None, None, <<>>)

\* One field at a time: erased, filled with ones, or of another length.
Changes(kind) ==
  {Change(kind, n, v) : n \in FixedFields[kind], v \in {<<>>}}
    \cup {Change(kind, n, Ones(Width[kind][n])) : n \in FixedFields[kind]}
    \cup (IF kind \in DOMAIN WordsField
          THEN {Change(kind, "uninterpreted_options", Pattern(n)) : n \in {1, 4, 40, 44}} ELSE {})
    \cup (IF kind = "hop_by_hop"
          THEN {Change(kind, "options_and_padding", v) :
                  v \in {Zeros(24), Zeros(40), Bitset(5, 8) \o Bitset(3, 8) \o Ones(24) \o Zeros(8),
                         Bitset(5, 8) \o Bitset(5, 8) \o Zeros(32), Bitset(1, 8) \o Bitset(4, 8) \o Ones(32)}}
          ELSE {})

BuildPacket ==
  \E stack \in Stacks, bytes \in {0, 1, 50} :
    \E change \in {NoChange} \cup UNION {Changes(k) : k \in ToSet(stack)} :
      call' = [op |-> "packet", packet |-> PacketOf(stack, bytes, change), change |-> change]

\* A frame that is too long for its length to be an ethertype.
BuildLongFrame ==
  \E bytes \in {1500, 1501} :
    call' = [op |-> "packet", packet |-> PacketOf(<<"ethernet">>, bytes, NoChange), change |-> NoChange]

BuildTunnel ==
  \E checksum \in {<<>>, Ones(16)}, reserved1 \in {<<>>, Zeros(16), Pattern(2)}, present \in {<<0>>, <<1>>} :
    LET p == PacketOf(GreStack, 1, NoChange)
        optional == [checksum |-> checksum, reserved1 |-> reserved1, checksum_present |-> present]
    IN call' = [op |-> "tunnel", optional |-> optional,
                packet |-> [p EXCEPT !.headers[3].fields =
                              [n \in DOMAIN @ |-> IF n \in DOMAIN optional THEN optional[n] ELSE @[n]]]]

kMaxBytes == 109   \* the longest packet of the stacks
CutShort == -1

\* A stack's packet with three bytes of payload, as it is on the wire.
Wires ==
  {[stack |-> stack, data |-> RawSerializePacket(UpdateAllComputedFields(PacketOf(stack, 3, NoChange)).value).value] :
     stack \in Stacks \cup {GreStack}}

\* The bytes of a packet, cut short anywhere, or with one of them altered.
ParseBytes ==
  \E stack \in Stacks \cup {GreStack}, n \in 0..kMaxBytes, v \in {CutShort, 0, 79, 128, 255} :
    call' = [op |-> "parse", stack |-> stack, at |-> n, byte |-> v]

-----------------------------------------------------------------------------
(* Properties.                                                             *)

IsComputed(c) ==
  c.kind # None /\ c.field \in ToSet(ComputedFields[c.kind]) /\ c.field # "ethertype"

\* A change that leaves a packet as the library is to write it: nothing, a
\* computed field left out, another value of a field that nothing depends on,
\* options of whole words.
IsHarmless(c) ==
  \/ c = NoChange
  \/ IsComputed(c) /\ c.value = <<>>
  \/ /\ c.value # <<>> /\ c.field \in FixedFields[c.kind] /\ c.field \notin Selectors
     /\ ~IsComputed(c) /\ c.field \notin DOMAIN ConstantFields[c.kind]
  \/ c.field = "uninterpreted_options" /\ Len(c.value) % 32 = 0 /\ (c.kind = "tcp" => Len(c.value) <= 320)

HasNoEthertype(p) ==
  \E i \in 1..(Len(p.headers) - 1) : p.headers[i].kind = "ethernet" /\ p.headers[i].fields.ethertype = <<>>

\* More IPv4 options than the header length can count.
HeaderLengthWraps(p) ==
  \E i \in DOMAIN p.headers : p.headers[i].kind = "ipv4" /\ Len(Options(p.headers[i])) > 320

UpperProtocol(p) == SelectSeq(p.headers, LAMBDA h : h.kind \notin {"ethernet", "vlan", "csig"})

\* A packet of the stacks: what it becomes, and what that is parsed as.
PacketSurvives(p, change) ==
  LET wire == SerializePacket(p)
      padded == PadPacketToMinimumSize(p)
      filled == UpdateMissingComputedFields(padded.value)
      parsed == ParsePacket(wire.value, p.headers[1].kind)
      updated == UpdateAllComputedFields(padded.value)
  IN /\ (wire = Abort) = HasNoEthertype(p)
     /\ IsHarmless(change) => wire.ok = (Len(p.payload) <= 8 * 1500)
     /\ wire.ok /\ ~HeaderLengthWraps(p) =>
          /\ parsed.headers = filled.value.headers /\ parsed.payload = filled.value.payload
          /\ parsed.reasons_invalid = {}
          /\ p.headers[1].kind = "ethernet" /\ Len(p.headers) > 1 /\ UpperProtocol(p)[1].kind \in {"ipv4", "ipv6"} =>
               GetEthernetTrailer([parsed EXCEPT !.payload = @ \o Pattern(2)]) = Ok(Pattern(2))
     /\ IsComputed(change) /\ change.field # "options_and_padding" =>
          updated.ok /\ PacketInvalidReasons(updated.value) = {}

\* A GRE header's optional fields: without the second the checksum cannot be
\* computed, and when that is overwritten with zero the checksum, computed
\* before, is the one of what it was.
TunnelSurvives(p, optional) ==
  LET updated == UpdateAllComputedFields(PadPacketToMinimumSize(p).value)
      valid == PacketInvalidReasons(updated.value) = {}
  IN IF optional.checksum_present = <<1>>
     THEN /\ updated.ok = (optional.reserved1 # <<>>)
          /\ updated.ok => valid = (optional.reserved1 = Zeros(16))
     ELSE updated.ok /\ valid = (optional.checksum = <<>> /\ optional.reserved1 = <<>>)

PacketsSurvive(called) ==
  /\ called.op = "packet" => PacketSurvives(called.packet, called.change)
  /\ called.op = "tunnel" => TunnelSurvives(called.packet, called.optional)

BytesSurvive(called) ==
  called.op = "parse" =>
    LET whole == (CHOOSE w \in Wires : w.stack = called.stack).data
        Before(n) == SubSeq(whole, 1, 8 * n)
        data == IF called.byte = CutShort THEN Before(called.at)
                ELSE Before(called.at) \o Bitset(called.byte, 8) \o SubSeq(whole, 8 * called.at + 9, Len(whole))
        reached == 8 * called.at + (IF called.byte = CutShort THEN 0 ELSE 8)
    IN reached <= Len(whole) => RawSerializePacket(ParsePacket(data, called.stack[1])) = Ok(data)

\* ParsePacket loses nothing: whatever the bytes, what RawSerializePacket
\* makes of the packet are the same bytes.  SerializePacket writes every packet
\* whose own fields are there and fit, and ends the process only over an
\* ethertype that is missing.  What it writes is a valid packet that parses to the one it was given, padded and
\* completed, unless IPv4 options are longer than a header length can say;
\* bytes added behind an IP packet are its Ethernet trailer.  And whatever
\* stood in a computed field, UpdateAllComputedFields makes the packet valid,
\* but for a GRE checksum over a reserved field that was not zero.
PacketsSurviveTheWire == [][BytesSurvive(call') /\ PacketsSurvive(call')]_call
=============================================================================

------------------------------ MODULE Packetlib ------------------------------
(***************************************************************************)
(* packetlib.cc: packets between bytes and structured headers.             *)
(*                                                                         *)
(* Bits are sequences over {0, 1}, as in BitString, with their real        *)
(* widths.  A header is its kind and its fields, each the bits its hex     *)
(* string stands for; a field that is not set has no bits, and so has the  *)
(* hex string "0x" the parser makes of options that are not there.  What   *)
(* the code does field by field is here a table that it is done to: the    *)
(* layout of each header, the fields with a constant value, those with a   *)
(* length, and the order in which computed fields are updated.             *)
(*                                                                         *)
(* Left out: the texts of the reasons, and whether an update says that it  *)
(* changed anything.                                                       *)
(***************************************************************************)
EXTENDS Integers, Sequences, SequencesExt, FiniteSetsExt, StatusOr

Kinds == {"ethernet", "ipv4", "ipv6", "hop_by_hop", "udp", "tcp", "arp", "icmp", "vlan", "csig",
          "gre", "packet_in", "ipfix", "psamp", "ptp", "psp"}

\* HEADER_NOT_SET, and a next header that is not supported.
None == "none"
Unsupported == "unsupported"

kMinNumBytesInEthernetPayload == 46

Number(b) == MapThenSumSet(LAMBDA j : 2^(Len(b) - j), {j \in DOMAIN b : b[j] = 1})

\* std::bitset<width>(n) of a number below 2^31: the bits that do not fit are
\* lost.
Bitset(n, width) == [j \in 1..width |-> IF width - j > 30 THEN 0 ELSE (n \div 2^(width - j)) % 2]

Zeros(width) == [j \in 1..width |-> 0]

-----------------------------------------------------------------------------
(* Headers.                                                                *)

\* In the order of the parser: names and widths.
LinkAndNetworkLayout ==
  [ethernet |-> <<<<"ethernet_destination", 48>>, <<"ethernet_source", 48>>, <<"ethertype", 16>>>>,
   ipv4 |-> <<<<"version", 4>>, <<"ihl", 4>>, <<"dscp", 6>>, <<"ecn", 2>>, <<"total_length", 16>>,
              <<"identification", 16>>, <<"flags", 3>>, <<"fragment_offset", 13>>, <<"ttl", 8>>,
              <<"protocol", 8>>, <<"checksum", 16>>, <<"ipv4_source", 32>>, <<"ipv4_destination", 32>>>>,
   ipv6 |-> <<<<"version", 4>>, <<"dscp", 6>>, <<"ecn", 2>>, <<"flow_label", 20>>,
              <<"payload_length", 16>>, <<"next_header", 8>>, <<"hop_limit", 8>>,
              <<"ipv6_source", 128>>, <<"ipv6_destination", 128>>>>,
   hop_by_hop |-> <<<<"next_header", 8>>, <<"header_extension_length", 8>>, <<"options_and_padding", 48>>>>,
   udp |-> <<<<"source_port", 16>>, <<"destination_port", 16>>, <<"length", 16>>, <<"checksum", 16>>>>]

TransportAndTagLayout ==
  [tcp |-> <<<<"source_port", 16>>, <<"destination_port", 16>>, <<"sequence_number", 32>>,
             <<"acknowledgement_number", 32>>, <<"data_offset", 4>>, <<"rest_of_header", 60>>>>,
   arp |-> <<<<"hardware_type", 16>>, <<"protocol_type", 16>>, <<"hardware_length", 8>>,
             <<"protocol_length", 8>>, <<"operation", 16>>, <<"sender_hardware_address", 48>>,
             <<"sender_protocol_address", 32>>, <<"target_hardware_address", 48>>,
             <<"target_protocol_address", 32>>>>,
   icmp |-> <<<<"type", 8>>, <<"code", 8>>, <<"checksum", 16>>, <<"rest_of_header", 32>>>>,
   vlan |-> <<<<"priority_code_point", 3>>, <<"drop_eligible_indicator", 1>>, <<"vlan_identifier", 12>>,
              <<"ethertype", 16>>>>,
   csig |-> <<<<"signal_type", 3>>, <<"reserved0", 1>>, <<"signal_value", 5>>, <<"locator_metadata", 7>>,
              <<"ethertype", 16>>>>,
   gre |-> <<<<"checksum_present", 1>>, <<"reserved0", 12>>, <<"version", 3>>, <<"protocol_type", 16>>>>]

TelemetryAndTunnelLayout ==
  [packet_in |-> <<<<"ingress_port", 9>>, <<"target_egress_port", 9>>, <<"unused_pad", 6>>>>,
   ipfix |-> <<<<"version", 16>>, <<"length", 16>>, <<"export_time", 32>>, <<"sequence_number", 32>>,
               <<"observation_domain_id", 32>>>>,
   psamp |-> <<<<"template_id", 16>>, <<"length", 16>>, <<"observation_time", 64>>, <<"flowset", 16>>,
               <<"next_hop_index", 16>>, <<"epoch", 16>>, <<"ingress_port", 16>>, <<"egress_port", 16>>,
               <<"user_meta_field", 16>>, <<"dlb_id", 8>>, <<"variable_length", 8>>,
               <<"packet_sampled_length", 16>>>>,
   ptp |-> <<<<"transport_specific", 4>>, <<"message_type", 4>>, <<"reserved0", 4>>, <<"version_ptp", 4>>,
             <<"message_length", 16>>, <<"domain_number", 8>>, <<"reserved1", 8>>, <<"flags", 16>>,
             <<"correction_field", 64>>, <<"reserved2", 32>>, <<"source_port_identity", 80>>,
             <<"sequence_id", 16>>, <<"control_field", 8>>, <<"log_message_interval", 8>>>>,
   psp |-> <<<<"next_header", 8>>, <<"header_ext_length", 8>>, <<"reserved0", 2>>, <<"crypt_offset", 6>>,
             <<"sample_bit", 1>>, <<"drop_bit", 1>>, <<"version", 4>>,
             <<"virtualization_cookie_present", 1>>, <<"reserved1", 1>>,
             <<"security_parameters_index", 32>>, <<"initialization_vector", 64>>>>]

Layout == LinkAndNetworkLayout @@ TransportAndTagLayout @@ TelemetryAndTunnelLayout

\* The fields behind the fixed part of a header.
OptionalFields ==
  [k \in Kinds |-> CASE k \in {"ipv4", "tcp"} -> <<"uninterpreted_options">>
                     [] k = "gre" -> <<"checksum", "reserved1">>
                     [] OTHER -> <<>>]

FixedFields == [k \in Kinds |-> {Layout[k][j][1] : j \in DOMAIN Layout[k]}]
Width == [k \in Kinds |-> [n \in FixedFields[k] |-> (CHOOSE f \in ToSet(Layout[k]) : f[1] = n)[2]]]

\* The bits before each field of a header, and those of all of them.
BitsBefore(k, j) == MapThenSumSet(LAMBDA i : Layout[k][i][2], 1..(j - 1))
Offset ==
  [k \in Kinds |-> [n \in FixedFields[k] |->
     BitsBefore(k, CHOOSE j \in DOMAIN Layout[k] : Layout[k][j][1] = n)]]
HeaderBitwidth == [k \in Kinds |-> BitsBefore(k, Len(Layout[k]) + 1)]

kGreOptionalBitwidth == 32

EtherTypes ==
  {<<2048, "ipv4">>, <<34525, "ipv6">>, <<2054, "arp">>, <<33024, "vlan">>, <<35063, "ptp">>, <<39168, "csig">>}

IpProtocols ==
  {<<4, "ipv4">>, <<6, "tcp">>, <<17, "udp">>, <<41, "ipv6">>, <<47, "gre">>, <<253, None>>, <<254, None>>}

UdpDestinations == {<<4739, "ipfix">>, <<319, "ptp">>, <<320, "ptp">>, <<1000, "psp">>}

\* The entry of a table for a value, or what there is for any other.
Lookup(table, value, other) ==
  IF \E e \in table : e[1] = value THEN (CHOOSE e \in table : e[1] = value)[2] ELSE other

GetNextHeaderForEtherType(ethertype) ==
  IF Number(ethertype) <= 1535 THEN None ELSE Lookup(EtherTypes, Number(ethertype), Unsupported)

\* A protocol that is not set matches none of the hex strings.
GetNextHeaderForProtocol(table, protocol) ==
  IF protocol = <<>> THEN Unsupported ELSE Lookup(table, Number(protocol), Unsupported)

GetNextHeader(h) ==
  LET f == h.fields
  IN CASE h.kind \in {"ethernet", "vlan", "csig"} -> GetNextHeaderForEtherType(f.ethertype)
       [] h.kind = "gre" -> GetNextHeaderForEtherType(f.protocol_type)
       [] h.kind = "packet_in" -> "ethernet"
       [] h.kind = "ipv4" -> GetNextHeaderForProtocol(IpProtocols \cup {<<1, "icmp">>}, f.protocol)
       [] h.kind = "ipv6" ->
            GetNextHeaderForProtocol(IpProtocols \cup {<<58, "icmp">>, <<0, "hop_by_hop">>}, f.next_header)
       [] h.kind = "hop_by_hop" ->
            IF f.header_extension_length # Zeros(8) THEN Unsupported
            ELSE GetNextHeaderForProtocol(IpProtocols \cup {<<58, "icmp">>}, f.next_header)
       [] h.kind = "udp" -> Lookup(UdpDestinations, Number(f.destination_port), None)
       [] h.kind = "ipfix" -> "psamp"
       [] h.kind = "psp" ->
            CASE f.virtualization_cookie_present = <<1>> -> Unsupported
              [] /\ f.virtualization_cookie_present # <<1>>
                 /\ Number(f.next_header) = 17
                 /\ Number(f.crypt_offset) * 32 >= HeaderBitwidth["udp"] -> "udp"
              [] OTHER -> None
       [] OTHER -> None

NextSupported(h) == IF GetNextHeader(h) = Unsupported THEN None ELSE GetNextHeader(h)

-----------------------------------------------------------------------------
(* Parsing.                                                                *)

\* Options that end with the data are what there is of them, so that nothing
\* is lost.
ParseOptions(words, data) ==
  IF words > 5 THEN SubSeq(data, 1, Min({32 * (words - 5), Len(data)})) ELSE <<>>

\* The header and the data behind it.
ParseHeader(kind, data) ==
  LET fixed == [n \in FixedFields[kind] |->
                  SubSeq(data, Offset[kind][n] + 1, Offset[kind][n] + Width[kind][n])]
      rest == SubSeq(data, HeaderBitwidth[kind] + 1, Len(data))
      has_optionals == kind = "gre" /\ fixed.checksum_present = <<1>>
      optional ==
        CASE kind = "ipv4" -> <<ParseOptions(Number(fixed.ihl), rest)>>
          [] kind = "tcp" -> <<ParseOptions(Number(fixed.data_offset), rest)>>
          [] kind = "gre" ->
               IF has_optionals THEN <<SubSeq(rest, 1, 16), SubSeq(rest, 17, 32)>> ELSE <<<<>>, <<>>>>
          [] OTHER -> <<>>
      names == OptionalFields[kind]
      value(n) == IF n \in FixedFields[kind] THEN fixed[n]
                  ELSE optional[CHOOSE j \in DOMAIN names : names[j] = n]
  IN IF \/ Len(data) < HeaderBitwidth[kind]
        \/ has_optionals /\ Len(rest) < kGreOptionalBitwidth
     THEN Err
     ELSE Ok([header |-> [kind |-> kind, fields |-> [n \in FixedFields[kind] \cup ToSet(names) |-> value(n)]],
              rest |-> SubSeq(rest, Len(FlattenSeq(optional)) + 1, Len(rest))])

\* The loop of ParsePacket: a header that is too short, like everything
\* behind one that demands no supported header, stays in the payload.
RECURSIVE ParseHeaders(_, _, _)
ParseHeaders(packet, next, data) ==
  IF next = None THEN [packet EXCEPT !.payload = data]
  ELSE LET parsed == ParseHeader(next, data)
       IN IF ~parsed.ok THEN [packet EXCEPT !.payload = data, !.reasons_invalid = {<<0, "too short">>}]
          ELSE LET h == parsed.value.header
               IN ParseHeaders([packet EXCEPT !.headers = Append(@, h),
                                              !.fully_parsed = GetNextHeader(h) # Unsupported],
                               NextSupported(h), parsed.value.rest)

-----------------------------------------------------------------------------
(* Sizes.  Indices are one more than those of the code.                    *)

Options(h) == IF h.kind \in {"ipv4", "tcp"} THEN h.fields.uninterpreted_options ELSE <<>>

HeaderSizeInBits(h) ==
  HeaderBitwidth[h.kind] + Len(Options(h))
    + IF h.kind = "gre" /\ h.fields.checksum_present = <<1>> THEN kGreOptionalBitwidth ELSE 0

PacketSizeInBits(p, start) ==
  LET counted == start..Len(p.headers)
  IN OkIf(\A i \in counted : p.headers[i].kind # None /\ Len(Options(p.headers[i])) % 8 = 0,
          Len(p.payload) + MapThenSumSet(LAMBDA i : HeaderSizeInBits(p.headers[i]), counted))

PacketSizeInBytes(p, start) ==
  LET bits == PacketSizeInBits(p, start)
  IN IF bits.ok /\ bits.value % 8 = 0 THEN Ok(bits.value \div 8) ELSE Err

\* Pads what follows the first Ethernet header.
PadPacketToMinimumSize(p) ==
  LET ethernet == {i \in DOMAIN p.headers : p.headers[i].kind = "ethernet"}
      unset == {i \in DOMAIN p.headers : p.headers[i].kind = None}
      after == PacketSizeInBytes(p, Min(ethernet) + 1)
  IN CASE ethernet = {} -> Ok(p)
       [] ethernet # {} /\ \E i \in unset : i < Min(ethernet) -> Ok(p)
       [] OTHER ->
            IF ~after.ok THEN Err
            ELSE Ok([p EXCEPT !.payload = @ \o Zeros(8 * Max({0, kMinNumBytesInEthernetPayload - after.value}))])

-----------------------------------------------------------------------------
(* Serialization.                                                          *)

\* The fields behind the fixed part that are written.
WrittenOptionals(h) ==
  IF h.kind = "gre" /\ h.fields.checksum_present # <<1>> THEN <<>> ELSE OptionalFields[h.kind]

\* Every field has its width, what is behind them is whole bytes, and there
\* when a GRE header says so.
CanSerialize(h) ==
  /\ h.kind # None
  /\ \A n \in FixedFields[h.kind] : Len(h.fields[n]) = Width[h.kind][n]
  /\ \A n \in ToSet(WrittenOptionals(h)) : Len(h.fields[n]) % 8 = 0 /\ (h.kind = "gre" => h.fields[n] # <<>>)

\* The fixed part, which alone is not the header (also a mutant).
FixedBits(h) == FlattenSeq([j \in DOMAIN Layout[h.kind] |-> h.fields[Layout[h.kind][j][1]]])

SerializeHeader(h) == FixedBits(h) \o FlattenSeq([j \in DOMAIN WrittenOptionals(h) |-> h.fields[WrittenOptionals(h)[j]]])

\* RawSerializePacket from a header on.
RawSerialize(p, start) ==
  OkIf(\A i \in start..Len(p.headers) : CanSerialize(p.headers[i]),
       FlattenSeq([j \in 1..(Len(p.headers) - start + 1) |-> SerializeHeader(p.headers[start + j - 1])]) \o p.payload)

RawSerializePacket(p) == RawSerialize(p, 1)

-----------------------------------------------------------------------------
(* Checksums.                                                              *)

\* The loop that adds the carry of a sum until it fits 16 bits ends with the
\* sum modulo 2^16 - 1, and with zero only for zero.
OnesComplementChecksum(data) ==
  LET sum == MapThenSumSet(LAMBDA j : 2^(15 - ((j - 1) % 16)), {j \in DOMAIN data : data[j] = 1})
      carried == IF sum = 0 THEN 0 ELSE 1 + ((sum - 1) % (2^16 - 1))
  IN Bitset(2^16 - 1 - carried, 16)

WithField(h, name, value) == [h EXCEPT !.fields[name] = value]
WithFieldAt(p, i, name, value) == [p EXCEPT !.headers[i] = WithField(@, name, value)]

Ipv4HeaderChecksum(h) ==
  LET zeroed == WithField(h, "checksum", Zeros(16))
  IN OkIf(CanSerialize(zeroed), OnesComplementChecksum(SerializeHeader(zeroed)))

\* The checksum of pseudo header and packet from i on, with its own field zero.
ChecksumFrom(p, i, pseudo_header) ==
  LET serialized == RawSerialize(WithFieldAt(p, i, "checksum", Zeros(16)), i)
  IN OkIf(pseudo_header.ok /\ serialized.ok,
          OnesComplementChecksum(pseudo_header.value \o serialized.value))

\* An IP header may have options between it and what it carries.  The code
\* reads headers(-1) when options come first of all: here there is no header.
PrecedingIpHeader(p, i) ==
  LET before == IF i > 1 /\ p.headers[i - 1].kind = "hop_by_hop" THEN i - 2 ELSE i - 1
  IN IF before > 0 THEN p.headers[before] ELSE [kind |-> None]

\* The fields a pseudo header is made of, all of which must be set.
PseudoHeader(fields) == OkIf(\A j \in DOMAIN fields : fields[j] # <<>>, FlattenSeq(fields))

\* Nothing for a UDP header in a PSP tunnel: it may have any checksum.
AnyChecksum == <<>>
UdpHeaderChecksum(p, i) ==
  LET ip == PrecedingIpHeader(p, i)
      length == p.headers[i].fields.length
  IN CASE ip.kind = "ipv4" ->
            ChecksumFrom(p, i, PseudoHeader(<<ip.fields.ipv4_source, ip.fields.ipv4_destination, Zeros(8),
                                              ip.fields.protocol, length>>))
       [] ip.kind = "ipv6" ->
            ChecksumFrom(p, i, PseudoHeader(<<ip.fields.ipv6_source, ip.fields.ipv6_destination, Zeros(16),
                                              length, Zeros(24), Bitset(17, 8)>>))
       [] ip.kind = "psp" -> Ok(AnyChecksum)
       [] OTHER -> Err

IcmpHeaderChecksum(p, i) ==
  LET ip == PrecedingIpHeader(p, i)
      size == PacketSizeInBytes(p, i)
  IN CASE ip.kind = "ipv4" -> ChecksumFrom(p, i, Ok(<<>>))
       [] ip.kind = "ipv6" ->
            IF ~size.ok THEN Err
            ELSE ChecksumFrom(p, i, PseudoHeader(<<ip.fields.ipv6_source, ip.fields.ipv6_destination, Zeros(16),
                                                   Bitset(size.value, 16), Zeros(24), Bitset(58, 8)>>))
       [] OTHER -> Err

GreHeaderChecksum(p, i) == ChecksumFrom(p, i, Ok(<<>>))

-----------------------------------------------------------------------------
(* Computed fields.                                                        *)

\* The fields with one right value.
ConstantFields ==
  [k \in Kinds |->
     CASE k = "ipv4" -> [version |-> 4]
       [] k = "ipv6" -> [version |-> 6]
       [] k = "arp" -> [hardware_type |-> 1, protocol_type |-> 2048, hardware_length |-> 6, protocol_length |-> 4]
       [] k = "gre" -> [reserved0 |-> 0, version |-> 0]
       [] k = "packet_in" -> [unused_pad |-> 0]
       [] k = "psamp" -> [variable_length |-> 255]
       [] k = "ptp" -> [reserved0 |-> 0, reserved1 |-> 0, reserved2 |-> 0]
       [] k = "psp" -> [reserved0 |-> 0]
       [] OTHER -> [n \in {} |-> 0]]

\* The fields that say how long the packet is from a header on (0), or from
\* the one behind it (1).
LengthFields ==
  [k \in Kinds |->
     CASE k = "ipv4" -> [total_length |-> 0]
       [] k = "ipv6" -> [payload_length |-> 1]
       [] k \in {"udp", "ipfix"} -> [length |-> 0]
       [] k = "psamp" -> [length |-> 0, packet_sampled_length |-> 1]
       [] k = "ptp" -> [message_length |-> 0]
       [] OTHER -> [n \in {} |-> 0]]

\* The words of a header with options, which a field of four bits counts.
WordsField == [ipv4 |-> "ihl", tcp |-> "data_offset"]

ExpectedLength(p, i, name) ==
  LET size == PacketSizeInBytes(p, i + LengthFields[p.headers[i].kind][name])
  IN OkIf(size.ok, Bitset(size.value, 16))

\* The IPv4 header's own length wraps around; the TCP header's is checked.
ExpectedWords(h) ==
  LET words == 5 + Len(Options(h)) \div 32
  IN OkIf(Len(Options(h)) % 32 = 0 /\ (h.kind = "tcp" => words <= 15), Bitset(words, 4))

\* Options are padded to six bytes: one byte of padding is a zero, more are
\* an option of type 1 with its length and zeros.
PaddedOptions(options) ==
  LET missing == 6 - Len(options) \div 8
  IN CASE options = <<>> -> Bitset(1, 8) \o Bitset(4, 8) \o Zeros(32)
       [] options # <<>> /\ missing >= 2 ->
            options \o Bitset(1, 8) \o Bitset(missing - 2, 8) \o Zeros(8 * (missing - 2))
       [] options # <<>> /\ missing = 1 -> options \o Zeros(8)
       [] OTHER -> options

ExpectedChecksum(p, i) ==
  CASE p.headers[i].kind = "ipv4" -> Ipv4HeaderChecksum(p.headers[i])
    [] p.headers[i].kind = "udp" -> UdpHeaderChecksum(p, i)
    [] p.headers[i].kind = "icmp" -> IcmpHeaderChecksum(p, i)
    [] p.headers[i].kind = "gre" -> GreHeaderChecksum(p, i)

\* In the order in which they are updated.
ComputedFields ==
  [k \in Kinds |->
     CASE k = "ethernet" -> <<"ethertype">>
       [] k = "ipv4" -> <<"version", "ihl", "total_length", "checksum">>
       [] k = "ipv6" -> <<"version", "payload_length">>
       [] k = "hop_by_hop" -> <<"header_extension_length", "options_and_padding">>
       [] k = "udp" -> <<"length", "checksum">>
       [] k = "arp" -> <<"hardware_type", "protocol_type", "hardware_length", "protocol_length">>
       [] k = "icmp" -> <<"checksum">>
       [] k = "tcp" -> <<"data_offset">>
       [] k = "gre" -> <<"checksum", "reserved1">>
       [] k = "ipfix" -> <<"length">>
       [] k = "psamp" -> <<"length", "variable_length", "packet_sampled_length">>
       [] k = "ptp" -> <<"message_length">>
       [] OTHER -> <<>>]

\* A field that is set is left alone, unless it is to be overwritten.  An
\* ethertype is a length only in the last header; a GRE header has a checksum
\* only when it says so.
MustUpdate(p, i, name, overwrite) ==
  LET h == p.headers[i]
  IN /\ h.fields[name] = <<>> \/ overwrite
     /\ h.kind = "ethernet" => Number(h.fields.ethertype) <= 1500 /\ i = Len(p.headers)
     /\ h.kind = "gre" => h.fields.checksum_present = <<1>>

ComputedValue(p, i, name) ==
  LET h == p.headers[i]
      size == PacketSizeInBytes(p, i + 1)
      checksum == ExpectedChecksum(p, i)
  IN CASE name = "ethertype" -> OkIf(size.ok /\ size.value <= 1500, Bitset(size.value, 16))
       [] name = "checksum" ->
            IF checksum = Ok(AnyChecksum) THEN Ok(IF h.fields.checksum = <<>> THEN Zeros(16) ELSE h.fields.checksum)
            ELSE checksum
       [] name \in {"ihl", "data_offset"} -> ExpectedWords(h)
       [] name = "header_extension_length" -> Ok(Zeros(8))
       [] name = "options_and_padding" -> Ok(PaddedOptions(h.fields[name]))
       [] name = "reserved1" -> Ok(Zeros(16))
       [] name \in DOMAIN LengthFields[h.kind] -> ExpectedLength(p, i, name)
       [] OTHER -> Ok(Bitset(ConstantFields[h.kind][name], Width[h.kind][name]))

\* Mutant: from the outermost header inwards.
OutermostFirst(p) ==
  LET fields(i) == [j \in DOMAIN ComputedFields[p.headers[i].kind] |-> <<i, ComputedFields[p.headers[i].kind][j]>>]
  IN FlattenSeq([j \in DOMAIN p.headers |-> fields(j)])

\* The computed fields of a packet, from the innermost header outwards.
UpdateOrder(p) ==
  LET fields(i) == [j \in DOMAIN ComputedFields[p.headers[i].kind] |-> <<i, ComputedFields[p.headers[i].kind][j]>>]
  IN FlattenSeq([j \in DOMAIN p.headers |-> fields(Len(p.headers) + 1 - j)])

RECURSIVE UpdateFields(_, _, _)
UpdateFields(p, order, overwrite) ==
  IF order = <<>> THEN Ok(p)
  ELSE LET i == Head(order)[1]
           name == Head(order)[2]
           value == ComputedValue(p, i, name)
       IN CASE ~MustUpdate(p, i, name, overwrite) -> UpdateFields(p, Tail(order), overwrite)
            [] MustUpdate(p, i, name, overwrite) /\ value.ok ->
                 UpdateFields(WithFieldAt(p, i, name, value.value), Tail(order), overwrite)
            [] OTHER -> Err

UpdateComputedFields(p, overwrite) ==
  IF \E i \in DOMAIN p.headers : p.headers[i].kind = None THEN Err
  ELSE UpdateFields(p, UpdateOrder(p), overwrite)

UpdateMissingComputedFields(p) == UpdateComputedFields(p, FALSE)
UpdateAllComputedFields(p) == UpdateComputedFields(p, TRUE)

-----------------------------------------------------------------------------
(* Validity.  A reason is a header and what is wrong with it.              *)

IsSet(h, name) == Len(h.fields[name]) = Width[h.kind][name]

\* Every field must be set, but for two that are not looked at.
UncheckedFields == {<<"gre", "protocol_type">>, <<"psp", "reserved1">>}

FormatInvalidReasons(h) ==
  {n \in FixedFields[h.kind] : <<h.kind, n>> \notin UncheckedFields /\ ~IsSet(h, n)}

ConstantInvalidReasons(h) ==
  {n \in DOMAIN ConstantFields[h.kind] :
     IsSet(h, n) /\ h.fields[n] # Bitset(ConstantFields[h.kind][n], Width[h.kind][n])}

LengthInvalidReasons(p, i) ==
  LET h == p.headers[i]
  IN {n \in DOMAIN LengthFields[h.kind] : IsSet(h, n) /\ Ok(h.fields[n]) # ExpectedLength(p, i, n)}

\* A packet with too many TCP options is told so, not that the offset is wrong.
OptionsInvalidReasons(h) ==
  IF h.kind \notin DOMAIN WordsField THEN {}
  ELSE LET words == 5 + Len(Options(h)) \div 32
           field == WordsField[h.kind]
           whole == Len(Options(h)) % 32 = 0
       IN (IF whole /\ (h.kind = "tcp" => words <= 15) THEN {} ELSE {"uninterpreted_options"})
            \cup (IF IsSet(h, field) /\ (whole => h.fields[field] # Bitset(words, 4)) THEN {field} ELSE {})

\* An ethertype up to 1500 is the length of what follows.  One that is not
\* set is dereferenced all the same, see Aborts.
EthernetInvalidReasons(p, i) ==
  LET ethertype == Number(p.headers[i].fields.ethertype)
      size == PacketSizeInBytes(p, i + 1)
  IN IF \/ ~size.ok
        \/ ethertype <= 1500 /\ size.value # ethertype
        \/ ethertype > 1500 /\ size.value < kMinNumBytesInEthernetPayload
     THEN {"payload size"} ELSE {}

\* Options are a zero byte, or a type, a length and that many bytes, which
\* for a padding option (type 1) are zero.
RECURSIVE WellFormedOptions(_)
WellFormedOptions(bytes) ==
  CASE bytes = <<>> -> TRUE
    [] bytes # <<>> /\ Head(bytes) = 0 -> WellFormedOptions(Tail(bytes))
    [] bytes # <<>> /\ Head(bytes) # 0 ->
         /\ Len(bytes) >= 2
         /\ bytes[2] + 2 <= Len(bytes)
         /\ Head(bytes) = 1 => \A j \in 3..(bytes[2] + 2) : bytes[j] = 0
         /\ WellFormedOptions(SubSeq(bytes, bytes[2] + 3, Len(bytes)))

BytesOf(bits) == [j \in 1..(Len(bits) \div 8) |-> Number(SubSeq(bits, 8 * j - 7, 8 * j))]

\* Zero is a UDP checksum like any when there is none to expect.
ChecksumInvalidReasons(p, i) ==
  LET h == p.headers[i]
      expected == ExpectedChecksum(p, i)
      anything == h.kind = "udp" /\ (h.fields.checksum = Zeros(16) \/ expected = Ok(AnyChecksum))
      wrong == ~expected.ok \/ (~anything /\ h.fields.checksum # expected.value)
  IN IF IsSet(h, "checksum") /\ wrong THEN {"checksum"} ELSE {}

\* An ICMP header must come behind an IP header, whose version decides what
\* the checksum covers.
IcmpInvalidReasons(p, i) ==
  IF PrecedingIpHeader(p, i).kind \notin {"ipv4", "ipv6"} THEN {"checksum"} ELSE ChecksumInvalidReasons(p, i)

\* The optional fields must be there just when the header says so.  Both
\* missing are no invalid fields, but there is no checksum then.
GreInvalidReasons(p, i) ==
  LET f == p.headers[i].fields
      lengths == {Len(f.checksum), Len(f.reserved1)}
      expected == ExpectedChecksum(p, i)
  IN CASE f.checksum_present # <<1>> -> IF lengths = {0} THEN {} ELSE {"checksum_present"}
       [] f.checksum_present = <<1>> /\ lengths \notin {{0}, {16}} -> {"checksum_present"}
       [] OTHER -> (IF Ok(f.checksum) = expected THEN {} ELSE {"checksum"})
                     \cup (IF f.reserved1 = Zeros(16) THEN {} ELSE {"reserved1"})

\* Of the PTP messages only events are supported.
KindInvalidReasons(p, i) ==
  LET h == p.headers[i]
  IN CASE h.kind = "ethernet" -> EthernetInvalidReasons(p, i)
       [] h.kind = "gre" -> GreInvalidReasons(p, i)
       [] h.kind = "ptp" -> IF IsSet(h, "message_type") /\ Number(h.fields.message_type) > 3 THEN {"message_type"} ELSE {}
       [] h.kind = "hop_by_hop" ->
            IF IsSet(h, "options_and_padding") /\ ~WellFormedOptions(BytesOf(h.fields.options_and_padding))
            THEN {"options_and_padding"} ELSE {}
       [] h.kind = "icmp" -> IcmpInvalidReasons(p, i)
       [] h.kind \in {"ipv4", "udp"} -> ChecksumInvalidReasons(p, i)
       [] OTHER -> {}

HeaderInvalidReasons(p, i) ==
  IF p.headers[i].kind = None THEN {"header uninitialized"}
  ELSE FormatInvalidReasons(p.headers[i]) \cup ConstantInvalidReasons(p.headers[i])
         \cup LengthInvalidReasons(p, i) \cup OptionsInvalidReasons(p.headers[i]) \cup KindInvalidReasons(p, i)

\* Headers that are not what the last header before them demands; one that is
\* not set demands nothing.  The first may be any.
OrderInvalidReasons(p) ==
  LET set == {i \in DOMAIN p.headers : p.headers[i].kind # None}
      before(i) == {j \in set : j < i}
      demanded(i) == IF before(i) = {} THEN p.headers[1].kind ELSE NextSupported(p.headers[Max(before(i))])
      end == Len(p.headers) + 1
  IN {<<i, "order">> : i \in {i \in set : demanded(i) # p.headers[i].kind}}
       \cup (IF end > 1 /\ demanded(end) # None THEN {<<end, "missing">>} ELSE {})

PacketInvalidReasons(p) ==
  IF p.headers = <<>> /\ p.payload = <<>> THEN {<<0, "empty">>}
  ELSE UNION {{<<i, what>> : what \in HeaderInvalidReasons(p, i)} : i \in DOMAIN p.headers}
         \cup (IF PacketSizeInBytes(p, 1).ok THEN {} ELSE {<<0, "size">>})
         \cup OrderInvalidReasons(p)

\* EthernetHeaderInvalidReasons takes the value of an ethertype that it could
\* not read: absl::StatusOr ends the process.
Aborts(p) ==
  \E i \in DOMAIN p.headers :
    p.headers[i].kind = "ethernet" /\ p.headers[i].fields.ethertype = <<>> /\ PacketSizeInBytes(p, i + 1).ok

-----------------------------------------------------------------------------

ParsePacket(data, first_header) ==
  LET empty == [headers |-> <<>>, payload |-> <<>>, reasons_invalid |-> {}, fully_parsed |-> TRUE]
      parsed == ParseHeaders(empty, first_header, data)
  IN [parsed EXCEPT !.reasons_invalid = @ \cup PacketInvalidReasons(parsed)]

Abort == [ok |-> FALSE, aborted |-> TRUE]

SerializePacket(p) ==
  LET padded == PadPacketToMinimumSize(p)
      updated == UpdateMissingComputedFields(padded.value)
  IN CASE ~padded.ok -> Err
       [] padded.ok /\ ~updated.ok -> Err
       [] padded.ok /\ updated.ok /\ Aborts(updated.value) -> Abort
       [] OTHER -> IF PacketInvalidReasons(updated.value) = {} THEN RawSerializePacket(updated.value) ELSE Err

\* What follows the packet that the IP header says there is; for ARP, all of
\* the packet.
GetEthernetTrailer(p) ==
  LET upper == {i \in 2..Len(p.headers) : p.headers[i].kind \notin {"vlan", "csig"}}
      h == p.headers[Min(upper)]
      raw == RawSerializePacket(p)
      field == IF h.kind = "ipv4" THEN "total_length" ELSE "payload_length"
      actual == PacketSizeInBytes(p, Min(upper) + LengthFields[h.kind][field])
      trailer_size == actual.value - Number(h.fields[field])
  IN IF p.headers = <<>> \/ p.headers[1].kind # "ethernet" \/ upper = {} \/ ~raw.ok THEN Err
     ELSE CASE h.kind \in {"ipv4", "ipv6"} ->
                 IF ~actual.ok \/ h.fields[field] = <<>> \/ 8 * trailer_size > Len(raw.value) THEN Err
                 ELSE Ok(SubSeq(raw.value, Len(raw.value) - 8 * Max({0, trailer_size}) + 1, Len(raw.value)))
            [] h.kind = "arp" -> raw
            [] OTHER -> Err
=============================================================================

--------------------------- MODULE SymbolicValues ---------------------------
(***************************************************************************)
(* What P4-Symbolic computes with (p4_symbolic/symbolic): expressions of   *)
(* z3 and their sorts, the guarded map of a packet's fields, the ids that  *)
(* stand for the strings of the controller, and the bits of a packet.      *)
(*                                                                         *)
(* Every expression is taken at one assignment to the free variables, the  *)
(* valuation: an expression is its sort and its value there, and a guard   *)
(* is the boolean it evaluates to.  Sorts do not depend on the valuation,  *)
(* so neither do the errors.  An exception of z3 is an error as well.      *)
(***************************************************************************)
EXTENDS SymbolicIr

Bits == INSTANCE Bitwise

kDropPort == 511
kCpuPort == 510
kPortBitwidth == 9
kDefaultActionEntryIndex == -1
kValidPseudoField == "$valid$"
kExtractedPseudoField == "$extracted$"

\* The key of a field is its header and its name; that of the packet's own
\* pseudo fields has no header.
kGotClonedPseudoField == <<"", "$got_cloned$">>
kGotRecirculatedPseudoField == <<"", "$got_recirculated$">>
StandardMetadata(field) == <<"standard_metadata", field>>

(* Expressions.  `variable` holds the key of the field whose free variable *)
(* the expression is, if it is one.                                        *)
Bool(b) == [kind |-> "bool", width |-> 0, value |-> b, variable |-> {}]
Text(s) == [kind |-> "string", width |-> 0, value |-> s, variable |-> {}]
BitVector(n, width) == [kind |-> "bv", width |-> width, value |-> n % 2^width, variable |-> {}]
FreeField(key, n, width) == [BitVector(n, width) EXCEPT !.variable = {key}]

IsBv(e) == e.kind = "bv"
IsBit(e) == IsBv(e) /\ e.width = 1

\* As many digits as the number has in binary; 0 has one.
BitWidthOf(n) == IF n = 0 THEN 1 ELSE CHOOSE w \in 1..30 : 2^(w - 1) <= n /\ n < 2^w

HexStringToZ3Bitvector(n) == BitVector(n, BitWidthOf(n))

-----------------------------------------------------------------------------
(* Operators.                                                              *)
Pad(e, size) == IF size > 0 THEN BitVector(e.value, e.width + size) ELSE e
Suffix(e, size) == IF size < e.width THEN BitVector(e.value, size) ELSE e

SortCheckAndPad(a, b) ==
  CASE a.kind = "bool" /\ IsBit(b) -> Ok(<<a, Bool(b.value = 1)>>)
    [] b.kind = "bool" /\ IsBit(a) -> Ok(<<Bool(a.value = 1), b>>)
    [] a.kind # b.kind -> Err
    [] OTHER -> IF IsBv(a) THEN Ok(<<Pad(a, b.width - a.width), Pad(b, a.width - b.width)>>) ELSE Ok(<<a, b>>)

SortCheckAndExtract(a, b) ==
  IF a.kind # b.kind THEN Err
  ELSE IF IsBv(a) THEN Ok(<<Suffix(a, b.width), Suffix(b, a.width)>>) ELSE Ok(<<a, b>>)

TruncateBitVectorToFit(target, value) ==
  IF IsBv(target) /\ IsBv(value) /\ target.width < value.width THEN Suffix(value, target.width) ELSE value

\* A hash is whatever the valuation says of the field it goes to.
FreeVariable(key, sort, valuation) ==
  IF sort.kind = "bool" THEN Bool(valuation.hashes[key] = 1) ELSE BitVector(valuation.hashes[key], sort.width)

\* Bit-vectors wrap around.
Arithmetic(a, b, op) ==
  LET pair == SortCheckAndPad(a, b)
      l == pair.value[1]
      r == pair.value[2]
  IN IF ~pair.ok THEN Err
     ELSE IF ~IsBv(l) THEN Err
     ELSE Ok(BitVector(CASE op = "+" -> l.value + r.value
                         [] op = "-" -> l.value - r.value
                         [] op = "*" -> l.value * r.value
                         [] op = "<<" -> IF r.value >= l.width THEN 0 ELSE l.value * 2^r.value
                         [] op = ">>" -> IF r.value >= l.width THEN 0 ELSE l.value \div 2^r.value
                         [] op = "|" -> Bits!|(l.value, r.value)
                         [] op = "^" -> Bits!^^(l.value, r.value),
                       l.width))

Plus(a, b) == Arithmetic(a, b, "+")
Minus(a, b) == Arithmetic(a, b, "-")
Times(a, b) == Arithmetic(a, b, "*")
LShift(a, b) == Arithmetic(a, b, "<<")
RShift(a, b) == Arithmetic(a, b, ">>")
BitOr(a, b) == Arithmetic(a, b, "|")
BitXor(a, b) == Arithmetic(a, b, "^")

Eq(a, b) ==
  LET pair == SortCheckAndPad(a, b)
  IN IF pair.ok THEN Ok(Bool(pair.value[1].value = pair.value[2].value)) ELSE Err
Neq(a, b) == LET equal == Eq(a, b) IN IF equal.ok THEN Ok(Bool(~equal.value.value)) ELSE Err

\* Fields have no sign.
Lt(a, b) ==
  LET pair == SortCheckAndPad(a, b)
  IN IF ~pair.ok THEN Err ELSE OkIf(IsBv(pair.value[1]), Bool(pair.value[1].value < pair.value[2].value))
Gt(a, b) == Lt(b, a)
Lte(a, b) == LET greater == Gt(a, b) IN IF greater.ok THEN Ok(Bool(~greater.value.value)) ELSE Err
Gte(a, b) == Lte(b, a)

Not(a) == IF a.kind = "bool" THEN Ok(Bool(~a.value)) ELSE Err
And(a, b) == IF a.kind = "bool" /\ b.kind = "bool" THEN Ok(Bool(a.value /\ b.value)) ELSE Err
Or(a, b) == IF a.kind = "bool" /\ b.kind = "bool" THEN Ok(Bool(a.value \/ b.value)) ELSE Err

BitNeg(a) == IF IsBv(a) THEN Ok(BitVector(2^a.width - 1 - a.value, a.width)) ELSE Err

\* The result is as wide as the narrower of the two.
BitAnd(a, b) ==
  CASE a.kind = "bool" /\ IsBit(b) -> Ok(IF a.value THEN b ELSE BitVector(0, 1))
    [] b.kind = "bool" /\ IsBit(a) -> Ok(IF b.value THEN a ELSE BitVector(0, 1))
    [] OTHER ->
         LET pair == SortCheckAndExtract(a, b)
         IN IF ~pair.ok THEN Err
            ELSE IF IsBv(a)
            THEN Ok(BitVector(Bits!&(pair.value[1].value, pair.value[2].value), pair.value[1].width))
            ELSE And(a, b)

\* Equal expressions stay what they are: a field that neither branch assigned
\* is still its free variable.
Ite(condition, true_value, false_value) ==
  IF condition.kind # "bool" THEN Err
  ELSE IF true_value.variable = false_value.variable /\ true_value.variable # {} THEN Ok(true_value)
  ELSE LET pair == SortCheckAndPad(true_value, false_value)
           chosen == IF condition.value THEN pair.value[1] ELSE pair.value[2]
       IN IF pair.ok THEN Ok([chosen EXCEPT !.variable = {}]) ELSE Err

ToBoolSort(a) ==
  CASE a.kind = "bool" -> Ok(a) [] a.kind \in {"bv", "int"} -> Ok(Bool(a.value >= 1)) [] OTHER -> Err

ToBitVectorSort(a, size) ==
  CASE a.kind = "bool" -> Ok(BitVector(IF a.value THEN 1 ELSE 0, size))
    [] IsBv(a) -> OkIf(a.width <= size, Pad(a, size - a.width))
    [] OTHER -> Err

\* Nothing can be extracted for a prefix of no bits.
PrefixEq(a, b, prefix_size) ==
  LET Prefix(e) ==
        IF e.width >= prefix_size THEN e.value \div 2^(e.width - prefix_size) ELSE e.value
  IN OkIf(IsBv(a) /\ IsBv(b) /\ prefix_size > 0, Bool(Prefix(a) = Prefix(b)))

-----------------------------------------------------------------------------
(* The guarded map.                                                        *)
Get(headers, key) == IF key \in DOMAIN headers THEN Ok(headers[key]) ELSE Err

\* A value is cut to the width of the field, and widened to it; where the
\* guard does not hold the field keeps what it has.
Set(headers, key, value, guard) ==
  IF key \notin DOMAIN headers THEN Err
  ELSE LET new == Ite(Bool(guard), TruncateBitVectorToFit(headers[key], value), headers[key])
       IN IF new.ok THEN Ok((key :> new.value) @@ headers) ELSE Err

\* One assignment after the other, each to a field of its own; `values` may be errors.
SetAll(headers, values, guard) ==
  LET new == [k \in DOMAIN values |->
                IF ~values[k].ok \/ k \notin DOMAIN headers THEN Err
                ELSE Ite(Bool(guard), TruncateBitVectorToFit(headers[k], values[k].value), headers[k])]
  IN IF \A k \in DOMAIN values : new[k].ok
     THEN Ok([k \in DOMAIN values |-> new[k].value] @@ headers) ELSE Err

\* Every field of every header is a free variable, and so are its pseudo fields.
FreeSymbolicHeaders(program, valuation) ==
  LET keys == UNION {{<<h, f>> : f \in DOMAIN program.headers[h].fields} : h \in DOMAIN program.headers}
      pseudo == (DOMAIN program.headers) \X {kValidPseudoField, kExtractedPseudoField}
  IN [k \in keys |-> FreeField(k, valuation.fields[k], program.headers[k[1]].fields[k[2]])]
       @@ [k \in pseudo \union {kGotClonedPseudoField, kGotRecirculatedPseudoField} |-> Bool(FALSE)]

-----------------------------------------------------------------------------
(* Lookups.                                                                *)
GetFieldDefinition(program, header, field) ==
  IF header \notin DOMAIN program.headers THEN Err
  ELSE IF field \notin DOMAIN program.headers[header].fields THEN Err
  ELSE Ok(program.headers[header].fields[field])

GetFieldBitwidth(key, program) ==
  IF key[2] \in {kValidPseudoField, kExtractedPseudoField} THEN Ok(1)
  ELSE GetFieldDefinition(program, key[1], key[2])

GetFieldNameFromMatch(match_name, table) ==
  IF match_name \in DOMAIN table.match_name_to_field THEN Ok(table.match_name_to_field[match_name]) ELSE Err

GetMatchDefinition(match_name, table) ==
  IF match_name \in DOMAIN table.table_definition.match_fields_by_name
  THEN Ok(table.table_definition.match_fields_by_name[match_name]) ELSE Err

GetIrTable(program, table_name) ==
  IF table_name \in DOMAIN program.tables THEN Ok(program.tables[table_name]) ELSE Err

-----------------------------------------------------------------------------
(* Translation.  A value of P4Runtime is a string or a number.  An         *)
(* allocator is the map it has so far, and whether it makes new ids.       *)
NewAllocator(static_mapping, dynamic_translation) ==
  [string_to_id |-> static_mapping, dynamic_translation |-> dynamic_translation]

AllocatedIds(allocator) == {allocator.string_to_id[s] : s \in DOMAIN allocator.string_to_id}

NextId(allocator) == Min(0..Cardinality(AllocatedIds(allocator)) \ AllocatedIds(allocator))

AllocateId(allocator, s) ==
  IF s \in DOMAIN allocator.string_to_id THEN Ok([allocator |-> allocator, id |-> allocator.string_to_id[s]])
  ELSE LET id == NextId(allocator)
       IN OkIf(allocator.dynamic_translation,
               [allocator |-> [allocator EXCEPT !.string_to_id = (s :> id) @@ @], id |-> id])

\* An id nobody allocated is its own name, if ids are made as they are needed.
IdToString(allocator, id) ==
  LET names == {s \in DOMAIN allocator.string_to_id : allocator.string_to_id[s] = id}
  IN IF names # {} THEN Ok(CHOOSE s \in names : TRUE)
     ELSE IF allocator.dynamic_translation THEN Ok(ToString(id)) ELSE Err

NewTranslator == [allocators |-> [t \in {} |-> NewAllocator(<<>>, TRUE)], fields_type |-> [k \in {} |-> ""]]

\* `field` is the set of the key whose field the value is for, or of none.  A
\* string is given an id, as wide as the id needs; a field that held strings
\* holds no numbers.
FormatP4RTValue(value, field, type_name, bitwidth, translator) ==
  IF "str" \in DOMAIN value
  THEN LET allocator == IF type_name \in DOMAIN translator.allocators THEN translator.allocators[type_name]
                        ELSE NewAllocator([s \in {} |-> 0], TRUE)
           allocated == AllocateId(allocator, value.str)
       IN IF ~allocated.ok \/ bitwidth # 0 THEN Err
          ELSE Ok([expr |-> HexStringToZ3Bitvector(allocated.value.id),
                   translator |->
                     [allocators |-> (type_name :> allocated.value.allocator) @@ translator.allocators,
                      fields_type |-> [k \in field |-> type_name] @@ translator.fields_type]])
  ELSE OkIf(/\ field \intersect DOMAIN translator.fields_type = {}
            /\ bitwidth > 0 /\ value.int < 2^bitwidth,
            [expr |-> BitVector(value.int, bitwidth), translator |-> translator])

\* The type of the field goes before the one that is given.
TranslateZ3ValueStringToP4RT(value, field, type_name, translator) ==
  LET type == IF field \in DOMAIN translator.fields_type THEN translator.fields_type[field] ELSE type_name
  IN IF type \notin DOMAIN translator.allocators THEN Ok([text |-> value, translated |-> FALSE])
     ELSE LET text == IdToString(translator.allocators[type], value)
          IN IF text.ok THEN Ok([text |-> text.value, translated |-> TRUE]) ELSE Err

\* A match or a parameter whose definition has no width holds strings.
TranslateZ3ValueStringToIrValue(value, field, definition, translator) ==
  LET p4rt == TranslateZ3ValueStringToP4RT(value, field, definition.type_name, translator)
  IN CASE ~p4rt.ok -> Err
       [] definition.bitwidth # 0 -> OkIf(~p4rt.value.translated, [int |-> value])
       [] OTHER -> Ok([str |-> IF p4rt.value.translated THEN p4rt.value.text ELSE ToString(value)])

-----------------------------------------------------------------------------
(* The packet: the bits of the valid headers in the deparser's order.      *)
AppendZ3ValueStringToBitString(bits, value, width) ==
  bits \o [i \in 1..width |-> (value \div 2^(width - i)) % 2]

DeparseHeader(bits, headers, program, header) ==
  LET type == program.headers[header]
  IN FoldLeft(LAMBDA packet, f : AppendZ3ValueStringToBitString(packet, headers[<<header, f>>].value,
                                                                headers[<<header, f>>].width),
              bits, type.ordered_fields_list)

DeparsePacket(headers, program) ==
  LET known == \A h \in ToSet(program.deparser) : h \in DOMAIN program.headers
      valid == SelectSeq(program.deparser, LAMBDA h : headers[<<h, kValidPseudoField>>].value)
      bitvectors == \A h \in ToSet(valid) : \A f \in DOMAIN program.headers[h].fields : IsBv(headers[<<h, f>>])
      packet == FoldLeft(LAMBDA bits, h : DeparseHeader(bits, headers, program, h), <<>>, valid)
  IN IF ~known \/ ~bitvectors THEN Err ELSE OkIf(Len(packet) % 8 = 0, packet)
=============================================================================

----------------------------- MODULE SymbolicIr -----------------------------
(***************************************************************************)
(* P4-Symbolic's intermediate representation (p4_symbolic/ir): the program *)
(* BMv2's compiler wrote and the switch's IrP4Info become one program,     *)
(* whose controls and parse states know the point where the branches that  *)
(* leave them meet again.                                                  *)
(*                                                                         *)
(* A value of a JSON document is a record with the one field of its kind   *)
(* (string, number, bool, list, struct, null); a structure is a function   *)
(* of the names of its fields, and the text of a number in hexadecimals is *)
(* a string that holds the number.  The branches of a C++ oneof are        *)
(* records with the one field that is set, as in the protobufs.            *)
(***************************************************************************)
EXTENDS Integers, Sequences, SequencesExt, FiniteSets, FiniteSetsExt, StatusOr

IsKind(value, kind) == kind \in DOMAIN value
Has(fields, name, kind) == name \in DOMAIN fields /\ IsKind(fields[name], kind)

\* The elements of a set one after the other; the code has them in the order of
\* their names, on which nothing depends.
InOrder(S) == FoldSet(LAMBDA x, seq : Append(seq, x), <<>>, S)

EndOfPipeline == "__END_OF_PIPELINE__"
EndOfParser == "__END_OF_PARSER__"

Bmv2ToIrControlName(name) == IF name = "" THEN EndOfPipeline ELSE name
Bmv2ToIrParseStateName(name) == IF name = "" THEN EndOfParser ELSE name

(* What the strings of the document may name; anything else is refused.    *)
UnaryOps == {"~", "not"}
BinaryOps ==
  {"+", "-", "*", "<<", ">>", "==", "!=", ">", ">=", "<", "<=", "and", "or", "&", "|", "^"}
BuiltinOps == {"b2d", "d2b"}
ExpressionOpToCase(op) ==
  CASE op \in BinaryOps -> "binary" [] op \in UnaryOps -> "unary" [] op = "?" -> "ternary"
    [] op \in BuiltinOps -> "builtin" [] OTHER -> "unsupported"

ExtractSourceLocation(value) ==
  OkIf(IsKind(value, "struct") /\ {"filename", "line", "column", "source_fragment"} \subseteq DOMAIN value.struct,
       "location")

-----------------------------------------------------------------------------
(* Headers.                                                                *)
ValidateHeaderTypeFields(list) ==
  Len(list) = 3 /\ IsKind(list[1], "string") /\ IsKind(list[2], "number") /\ IsKind(list[3], "bool")

\* The types that compilers of old wrote without their last field.
kIcmpRestOfHeaderFieldName == "rest_of_header"
kIcmpRestOfHeaderBitwidth == 32

ExtractHeaderType(type) ==
  LET names == [j \in DOMAIN type.fields |-> type.fields[j][1].string]
      Width(f) == type.fields[CHOOSE j \in DOMAIN names : names[j] = f][2].number
      incomplete == type.name = "icmp_t" /\ Len(names) < 4
      all == IF incomplete THEN Append(names, kIcmpRestOfHeaderFieldName) ELSE names
  IN IF /\ \A j \in DOMAIN type.fields : ValidateHeaderTypeFields(type.fields[j])
        /\ incomplete => kIcmpRestOfHeaderFieldName \notin ToSet(names)
     THEN Ok([name |-> type.name, ordered_fields_list |-> all,
              fields |-> [f \in ToSet(all) |->
                            IF f \in ToSet(names) THEN Width(f) ELSE kIcmpRestOfHeaderBitwidth]])
     ELSE Err

-----------------------------------------------------------------------------
(* Values and expressions.  `variables` are the parameters of the action   *)
(* around them, which the document names by number.                        *)
ExtractFieldValue(list) ==
  OkIf(Len(list) = 2 /\ IsKind(list[1], "string") /\ IsKind(list[2], "string"), <<list[1].string, list[2].string>>)

ExtractHexstrValue(n) == [value |-> IF n < 0 THEN -n ELSE n, negative |-> n < 0]

ExtractLookaheadValue(list) ==
  OkIf(Len(list) = 2 /\ IsKind(list[1], "number") /\ IsKind(list[2], "number"),
       [offset |-> list[1].number, bitwidth |-> list[2].number])

IsTypedValue(value) == IsKind(value, "struct") /\ {"type", "value"} \subseteq DOMAIN value.struct

WrapField(field) == IF field.ok THEN Ok([field_value |-> field.value]) ELSE Err

RECURSIVE ExtractRValue(_, _)
RECURSIVE ExtractRExpression(_, _)

ExtractLValue(value, variables) ==
  IF ~IsTypedValue(value) THEN Err
  ELSE LET type == value.struct.type.string
           v == value.struct.value
       IN CASE type = "field" -> WrapField(ExtractFieldValue(v.list))
            [] type \in {"runtime_data", "local"} -> Ok([variable_value |-> variables[v.number + 1]])
            [] OTHER -> Err

ExtractRValue(value, variables) ==
  IF ~IsTypedValue(value) THEN Err
  ELSE LET type == value.struct.type.string
           v == value.struct.value
       IN CASE type = "header" -> Ok([header_value |-> v.string])
            [] type \in {"field", "runtime_data", "local"} -> ExtractLValue(value, variables)
            [] type = "hexstr" -> Ok([hexstr_value |-> ExtractHexstrValue(v.string)])
            [] type = "bool" -> Ok([bool_value |-> v.bool])
            [] type = "string" -> Ok([string_value |-> v.string])
            [] type = "expression" ->
                 LET e == ExtractRExpression(v.struct, variables)
                 IN IF e.ok THEN Ok([expression_value |-> e.value]) ELSE Err
            [] OTHER -> Err

\* The operands of an expression in the order of the IR's message.
ExtractUnaryExpression(e) == Ok(<<e.right>>)
ExtractBinaryExpression(e) == IF "left" \notin DOMAIN e THEN Err ELSE Ok(<<e.left, e.right>>)
ExtractTernaryExpression(e) ==
  IF "left" \notin DOMAIN e \/ {"cond", "condition"} \intersect DOMAIN e = {} THEN Err
  ELSE Ok(<<IF "condition" \in DOMAIN e THEN e.condition ELSE e.cond, e.left, e.right>>)
ExtractBuiltinExpression(e) ==
  Ok((IF "left" \in DOMAIN e /\ ~IsKind(e.left, "null") THEN <<e.left>> ELSE <<>>) \o <<e.right>>)

ExtractRExpression(e, variables) ==
  \* An expression may be wrapped in others, as in parentheses.
  IF "op" \notin DOMAIN e /\ Has(e, "type", "string") /\ e.type.string = "expression" /\ Has(e, "value", "struct")
  THEN ExtractRExpression(e.value.struct, variables)
  ELSE IF ~{"op", "right"} \subseteq DOMAIN e THEN Err
  ELSE LET form == ExpressionOpToCase(e.op.string)
           operands == CASE form = "unary" -> ExtractUnaryExpression(e)
                         [] form = "binary" -> ExtractBinaryExpression(e)
                         [] form = "ternary" -> ExtractTernaryExpression(e)
                         [] form = "builtin" -> ExtractBuiltinExpression(e)
                         [] OTHER -> Err
           arguments == IF operands.ok
                        THEN AllOk([j \in DOMAIN operands.value |-> ExtractRValue(operands.value[j], variables)])
                        ELSE Err
       IN IF arguments.ok THEN Ok([operation |-> e.op.string, arguments |-> arguments.value]) ELSE Err

-----------------------------------------------------------------------------
(* Statements and actions.                                                 *)
IsList(value, n) == IsKind(value, "list") /\ Len(value.list) = n

\* setValid() and setInvalid() assign a header's validity bit.
ValidityAssignment(header, op) ==
  [assignment |-> [left |-> [field_value |-> <<header, "$valid$">>],
                   right |-> [bool_value |-> op = "add_header"]]]

\* A header that a list of one parameter names.
HeaderParameter(params, variables) ==
  IF ~IsList(params, 1) THEN Err
  ELSE LET header == ExtractRValue(params.list[1], variables)
       IN IF header.ok /\ "header_value" \in DOMAIN header.value THEN Ok(header.value.header_value) ELSE Err

ExtractAssignment(params, variables) ==
  IF ~IsList(params, 2) THEN Err
  ELSE LET left == ExtractLValue(params.list[1], variables)
           right == ExtractRValue(params.list[2], variables)
       IN IF left.ok /\ right.ok THEN Ok([assignment |-> [left |-> left.value, right |-> right.value]]) ELSE Err

ExtractHash(params, variables) ==
  IF ~IsKind(params, "list") \/ params.list = <<>> THEN Err
  ELSE LET target == ExtractLValue(params.list[1], variables)
       IN IF target.ok /\ "field_value" \in DOMAIN target.value
          THEN Ok([hash |-> target.value.field_value]) ELSE Err

ExtractHeaderAssignment(params, variables) ==
  IF ~IsList(params, 2) THEN Err
  ELSE LET sides == AllOk([j \in 1..2 |-> ExtractRValue(params.list[j], variables)])
       IN IF sides.ok /\ \A j \in 1..2 : "header_value" \in DOMAIN sides.value[j]
          THEN Ok([header_assignment |-> [left |-> sides.value[1].header_value,
                                          right |-> sides.value[2].header_value]])
          ELSE Err

ExtractStatement(primitive, variables) ==
  IF ~{"op", "parameters"} \subseteq DOMAIN primitive THEN Err
  ELSE IF "source_info" \in DOMAIN primitive /\ ~ExtractSourceLocation(primitive.source_info).ok THEN Err
  ELSE LET op == primitive.op.string
           params == primitive.parameters
           header == HeaderParameter(params, variables)
       IN CASE op = "assign" -> ExtractAssignment(params, variables)
            [] op = "mark_to_drop" -> IF header.ok THEN Ok([drop |-> header.value]) ELSE Err
            [] op = "modify_field_with_hash_based_offset" -> ExtractHash(params, variables)
            [] op = "clone_ingress_pkt_to_egress" -> Ok([clone |-> TRUE])
            [] op = "recirculate" -> Ok([recirculate |-> TRUE])
            [] op \in {"add_header", "remove_header"} ->
                 IF header.ok THEN Ok(ValidityAssignment(header.value, op)) ELSE Err
            [] op = "assign_header" -> ExtractHeaderAssignment(params, variables)
            [] op = "exit" -> Ok([exit |-> TRUE])
            [] OTHER -> Err

ExtractAction(action, definition) ==
  LET parameter_map == [j \in DOMAIN action.runtime_data |-> action.runtime_data[j].name]
      body == AllOk([j \in DOMAIN action.primitives |-> ExtractStatement(action.primitives[j], parameter_map)])
  IN IF ~body.ok THEN Err
     ELSE Ok([action_definition |-> definition, action_body |-> body.value,
              parameter_to_bitwidth |->
                [p \in ToSet(parameter_map) |->
                   action.runtime_data[CHOOSE j \in DOMAIN parameter_map : parameter_map[j] = p].bitwidth]])

\* An action P4Info does not know, such as the branch of an if, is defined by the document.
ImplicitActionDefinition(action) ==
  [name |-> action.name, alias |-> "", id |-> action.id,
   params_by_name |-> [p \in {action.runtime_data[j].name : j \in DOMAIN action.runtime_data} |->
                         [bitwidth |-> action.runtime_data[CHOOSE j \in DOMAIN action.runtime_data :
                                                              action.runtime_data[j].name = p].bitwidth,
                          type_name |-> ""]]]

-----------------------------------------------------------------------------
(* Tables.                                                                 *)
ExtractTable(table, definition, actions_by_bmv2_id) ==
  LET default == table.default_entry.action_id
      keys == {table.key[j].name : j \in DOMAIN table.key}
      Key(k) == table.key[CHOOSE j \in DOMAIN table.key :
                            table.key[j].name = k /\ \A l \in DOMAIN table.key : l > j => table.key[l].name # k]
  IN IF /\ table.type \in {"simple", "indirect", "indirect_ws"}
        /\ default \in DOMAIN actions_by_bmv2_id
        \* The default action's arguments are as many as its parameters...
        /\ Cardinality(DOMAIN actions_by_bmv2_id[default].parameter_to_bitwidth) = Len(table.default_entry.action_data)
        /\ \A j \in DOMAIN table.key : Len(table.key[j].target) = 2
     THEN Ok([table_definition |-> definition,
              action_selector_type |-> table.type,
              default_action |-> actions_by_bmv2_id[default].action_definition.name,
              \* ... and have no names.
              default_action_parameters |-> table.default_entry.action_data,
              action_to_next_control |->
                [a \in DOMAIN table.next_tables |-> Bmv2ToIrControlName(table.next_tables[a])],
              match_name_to_field |-> [k \in keys |-> <<Key(k).target[1], Key(k).target[2]>>]])
     ELSE Err

\* A table P4Info does not know matches exactly.
ImplicitTableDefinition(table) ==
  IF \A j \in DOMAIN table.key : table.key[j].match_type = "exact"
  THEN Ok([name |-> table.name, alias |-> "", id |-> 0, entry_actions |-> <<>>, has_action_profile_id |-> FALSE,
           match_fields_by_name |->
             [k \in {table.key[j].name : j \in DOMAIN table.key} |->
                [match_type |-> "exact", bitwidth |-> 0, type_name |-> ""]]])
  ELSE Err

-----------------------------------------------------------------------------
(* The parser.                                                             *)
ExtractExtractParserOp(params) ==
  OkIf(/\ Len(params) = 1
       /\ Has(params[1], "type", "string") /\ Has(params[1], "value", "string")
       /\ params[1].type.string = "regular",                 \* no stacks
       [extract |-> params[1].value.string])

ExtractSetRValue(type, value) ==
  CASE type = "field" -> WrapField(ExtractFieldValue(value.list))
    [] type = "hexstr" -> Ok([hexstr_value |-> ExtractHexstrValue(value.string)])
    [] type = "lookahead" ->
         LET ahead == ExtractLookaheadValue(value.list)
         IN IF ahead.ok THEN Ok([lookahead_value |-> ahead.value]) ELSE Err
    [] type = "expression" ->
         LET e == ExtractRExpression(value.struct, <<>>)
         IN IF e.ok THEN Ok([expression_value |-> e.value]) ELSE Err
    [] OTHER -> Err

ExtractSetParserOp(params) ==
  IF ~(/\ Len(params) = 2
       /\ Has(params[1], "type", "string") /\ Has(params[1], "value", "list")
       /\ params[1].type.string = "field"
       /\ Has(params[2], "type", "string") /\ "value" \in DOMAIN params[2])
  THEN Err
  ELSE LET lvalue == ExtractFieldValue(params[1].value.list)
           rvalue == ExtractSetRValue(params[2].type.string, params[2].value)
       IN IF lvalue.ok /\ rvalue.ok THEN Ok([set |-> [lvalue |-> lvalue.value, rvalue |-> rvalue.value]]) ELSE Err

\* Of the primitives a parser knows setValid() and setInvalid().
ExtractPrimitiveParserOp(params) ==
  IF ~(Len(params) = 1 /\ Has(params[1], "op", "string") /\ Has(params[1], "parameters", "list")) THEN Err
  ELSE LET op == params[1].op.string
           header == HeaderParameter(params[1].parameters, <<>>)
       IN IF op \in {"add_header", "remove_header"} /\ header.ok
          THEN Ok([primitive |-> ValidityAssignment(header.value, op).assignment]) ELSE Err

ExtractParserOperation(op) ==
  CASE op.op = "extract" -> ExtractExtractParserOp(op.parameters)
    [] op.op = "set" -> ExtractSetParserOp(op.parameters)
    [] op.op = "primitive" -> ExtractPrimitiveParserOp(op.parameters)
    [] OTHER -> Err

ExtractParserTransitionKeyField(key) == IF key.type = "field" THEN ExtractFieldValue(key.value) ELSE Err

\* The value and the mask of a transition are sets: of a number, or of none
\* when the text is empty.
ExtractParserTransition(t) ==
  LET next_state == Bmv2ToIrParseStateName(t.next_state)
      Hex(text) == ExtractHexstrValue(CHOOSE n \in text : TRUE)
  IN CASE t.type = "default" -> Ok([default |-> TRUE, next_state |-> next_state])
       [] t.type = "hexstr" /\ t.value # {} ->
            Ok([default |-> FALSE, value |-> Hex(t.value), next_state |-> next_state,
                mask |-> IF t.mask = {} THEN {} ELSE {Hex(t.mask)}])
       [] OTHER -> Err

ExtractParseState(state) ==
  LET ops == AllOk([j \in DOMAIN state.parser_ops |-> ExtractParserOperation(state.parser_ops[j])])
      key == AllOk([j \in DOMAIN state.transition_key |-> ExtractParserTransitionKeyField(state.transition_key[j])])
      transitions == AllOk([j \in DOMAIN state.transitions |-> ExtractParserTransition(state.transitions[j])])
  IN IF ops.ok /\ key.ok /\ transitions.ok
     THEN Ok([parser_ops |-> ops.value, transition_key_fields |-> key.value, transitions |-> transitions.value])
     ELSE Err

ExtractParser(parser) ==
  LET states == AllOk([j \in DOMAIN parser.parse_states |-> ExtractParseState(parser.parse_states[j])])
      names == [j \in DOMAIN parser.parse_states |-> parser.parse_states[j].name]
  IN IF states.ok
     THEN Ok([initial_state |-> parser.init_state,
              parse_states |-> [n \in ToSet(names) |-> states.value[Max({j \in DOMAIN names : names[j] = n})]]])
     ELSE Err

ExtractDeparser(deparser) == deparser.order

ExtractError(list) ==
  OkIf(Len(list) = 2 /\ IsKind(list[1], "string") /\ IsKind(list[2], "number"), <<list[1].string, list[2].number>>)

-----------------------------------------------------------------------------
(* The control flow graph.  A node's merge point is the first node that    *)
(* every way from it to the end goes through; it is left to the node to    *)
(* continue there when every way to the merge point goes through the node, *)
(* so that no merge point is executed twice.                               *)
ControlChildren(program) ==
  [n \in {EndOfPipeline} \union DOMAIN program.conditionals \union DOMAIN program.tables |->
     IF n = EndOfPipeline THEN {}
     ELSE IF n \in DOMAIN program.conditionals
     THEN {program.conditionals[n].if_branch, program.conditionals[n].else_branch}
     ELSE {program.tables[n].action_to_next_control[a] : a \in DOMAIN program.tables[n].action_to_next_control}]

ParserChildren(parser) ==
  [n \in {EndOfParser} \union DOMAIN parser.parse_states |->
     IF n = EndOfParser THEN {} ELSE {t.next_state : t \in ToSet(parser.parse_states[n].transitions)}]

\* The nodes of the subgraphs with these roots; a name no node has is refused.
RECURSIVE ConstructSubgraph(_, _)
ConstructSubgraph(children, nodes) ==
  LET more == nodes \union UNION {children[n] : n \in nodes \intersect DOMAIN children}
  IN IF more # nodes THEN ConstructSubgraph(children, more)
     ELSE OkIf(nodes \subseteq DOMAIN children, [n \in nodes |-> children[n]])

\* What a list of paths has in common, one after the other; a path after two
\* that have nothing in common starts anew.
CommonPath(paths) ==
  FoldLeft(LAMBDA path, other : IF path = <<>> THEN other ELSE LongestCommonPrefix({path, other}), <<>>, paths)

\* The order of a node's children and parents is that of their names.
RECURSIVE ContractedReversePathFromLeaf(_, _)
ContractedReversePathFromLeaf(graph, node) ==
  LET next == InOrder(graph[node])
  IN Append(CommonPath([j \in DOMAIN next |-> ContractedReversePathFromLeaf(graph, next[j])]), node)

RECURSIVE ContractedPathFromRoot(_, _)
ContractedPathFromRoot(graph, node) ==
  LET parents == InOrder({p \in DOMAIN graph : node \in graph[p]})
  IN Append(CommonPath([j \in DOMAIN parents |-> ContractedPathFromRoot(graph, parents[j])]), node)

\* The last node but one, if there is one.
GetMergePoint(path) == IF Len(path) > 1 THEN {path[Len(path) - 1]} ELSE {}

\* No node without a merge point is asked for.
GetOptimizedSymbolicExecutionInfo(graph, node) ==
  IF node \notin DOMAIN graph THEN Err
  ELSE LET merge == GetMergePoint(ContractedReversePathFromLeaf(graph, node))
       IN IF merge = {} THEN Err
          ELSE LET point == CHOOSE n \in merge : TRUE
               IN Ok([merge_point |-> point,
                      continue_to_merge_point |-> GetMergePoint(ContractedPathFromRoot(graph, point)) = {node}])

\* One graph for the parser and the pipelines: no node is both a state and a
\* control.
ControlFlowGraph(program) ==
  LET states == ConstructSubgraph(ParserChildren(program.parser), {program.parser.initial_state})
      controls == ConstructSubgraph(ControlChildren(program),
                                    {program.pipeline[n] : n \in DOMAIN program.pipeline})
  IN IF states.ok /\ controls.ok /\ DOMAIN states.value \intersect DOMAIN controls.value = {}
     THEN Ok([n \in DOMAIN states.value \union DOMAIN controls.value |->
                IF n \in DOMAIN states.value THEN states.value[n] ELSE controls.value[n]])
     ELSE Err

-----------------------------------------------------------------------------
(* The translation.                                                        *)
ByName(seq, names) ==
  [n \in ToSet(names) |-> seq[Max({j \in DOMAIN names : names[j] = n})]]

TranslateHeaders(bmv2) ==
  LET typed == SelectSeq(bmv2.headers, LAMBDA h : \E t \in ToSet(bmv2.header_types) : t.name = h.header_type)
      Type(h) == bmv2.header_types[Min({j \in DOMAIN bmv2.header_types : bmv2.header_types[j].name = h.header_type})]
      types == AllOk([j \in DOMAIN typed |-> ExtractHeaderType(Type(typed[j]))])
  IN IF types.ok THEN Ok(ByName(types.value, [j \in DOMAIN typed |-> typed[j].name])) ELSE Err

\* P4Info is keyed on aliases; the document has the names in full.
TranslateActions(bmv2, pdpi) ==
  LET Definition(a) ==
        LET known == {d \in {pdpi.actions_by_name[alias] : alias \in DOMAIN pdpi.actions_by_name} : d.name = a.name}
        IN IF known = {} THEN ImplicitActionDefinition(a) ELSE CHOOSE d \in known : TRUE
  IN AllOk([j \in DOMAIN bmv2.actions |-> ExtractAction(bmv2.actions[j], Definition(bmv2.actions[j]))])

TranslateTable(table, pdpi, actions_by_bmv2_id) ==
  LET known == {d \in {pdpi.tables_by_name[alias] : alias \in DOMAIN pdpi.tables_by_name} : d.name = table.name}
      definition == IF known = {} THEN ImplicitTableDefinition(table) ELSE Ok(CHOOSE d \in known : TRUE)
  IN IF definition.ok THEN ExtractTable(table, definition.value, actions_by_bmv2_id) ELSE Err

TranslateConditional(conditional) ==
  LET condition == ExtractRValue([struct |-> conditional.expression], <<>>)
  IN IF condition.ok
     THEN Ok([condition |-> condition.value, if_branch |-> Bmv2ToIrControlName(conditional.true_next),
              else_branch |-> Bmv2ToIrControlName(conditional.false_next)])
     ELSE Err

\* The analysis of the graph is kept with the nodes.
WithInfo(graph, nodes) ==
  LET info == [n \in DOMAIN nodes |-> GetOptimizedSymbolicExecutionInfo(graph, n)]
  IN IF \A n \in DOMAIN nodes : info[n].ok THEN Ok([n \in DOMAIN nodes |-> info[n].value @@ nodes[n]]) ELSE Err

Optimize(program) ==
  LET graph == ControlFlowGraph(program)
      tables == WithInfo(graph.value, program.tables)
      conditionals == WithInfo(graph.value, program.conditionals)
      states == WithInfo(graph.value, program.parser.parse_states)
  IN IF graph.ok /\ tables.ok /\ conditionals.ok /\ states.ok
     THEN Ok([program EXCEPT !.tables = tables.value, !.conditionals = conditionals.value,
                             !.parser.parse_states = states.value])
     ELSE Err

Bmv2AndP4infoToIr(bmv2, pdpi) ==
  IF Len(bmv2.parsers) # 1 \/ Len(bmv2.deparsers) # 1 THEN Err
  ELSE
  LET headers == TranslateHeaders(bmv2)
      parser == ExtractParser(bmv2.parsers[1])
      actions == TranslateActions(bmv2, pdpi)
      ids == {bmv2.actions[j].id : j \in DOMAIN bmv2.actions}
      by_id == [i \in ids |-> actions.value[Min({j \in DOMAIN bmv2.actions : bmv2.actions[j].id = i})]]
      all_tables == FlattenSeq([j \in DOMAIN bmv2.pipelines |-> bmv2.pipelines[j].tables])
      all_conditionals == FlattenSeq([j \in DOMAIN bmv2.pipelines |-> bmv2.pipelines[j].conditionals])
      tables == AllOk([j \in DOMAIN all_tables |-> TranslateTable(all_tables[j], pdpi, by_id)])
      conditionals == AllOk([j \in DOMAIN all_conditionals |-> TranslateConditional(all_conditionals[j])])
      errors == AllOk([j \in DOMAIN bmv2.errors |-> ExtractError(bmv2.errors[j])])
  IN IF ~(headers.ok /\ parser.ok /\ actions.ok) THEN Err
     ELSE IF ~(tables.ok /\ conditionals.ok /\ errors.ok) THEN Err
     ELSE Optimize(
       [headers |-> headers.value, parser |-> parser.value,
        deparser |-> ExtractDeparser(bmv2.deparsers[1]),
        actions |-> ByName(actions.value, [j \in DOMAIN bmv2.actions |-> bmv2.actions[j].name]),
        tables |-> ByName(tables.value, [j \in DOMAIN all_tables |-> all_tables[j].name]),
        conditionals |-> ByName(conditionals.value, [j \in DOMAIN all_conditionals |-> all_conditionals[j].name]),
        pipeline |-> ByName([j \in DOMAIN bmv2.pipelines |-> Bmv2ToIrControlName(bmv2.pipelines[j].init_table)],
                            [j \in DOMAIN bmv2.pipelines |-> bmv2.pipelines[j].name]),
        errors |-> ByName([j \in DOMAIN errors.value |-> errors.value[j][2]],
                          [j \in DOMAIN errors.value |-> errors.value[j][1]])])

-----------------------------------------------------------------------------
(* Table entries: concrete ones hold an entity of PDPI's IR, symbolic ones *)
(* a sketch of one.                                                        *)
kMulticastGroupTable == "builtin::multicast_group_table"

IsBuiltInTable(name) == name = kMulticastGroupTable
IsConcrete(entry) == "concrete_entry" \in DOMAIN entry

EntityToTableName(entity) ==
  IF "table_entry" \in DOMAIN entity THEN entity.table_entry.table_name ELSE kMulticastGroupTable

UseFullyQualifiedActionName(info, action) ==
  IF action.name \in DOMAIN info.actions_by_name
  THEN Ok([action EXCEPT !.name = info.actions_by_name[action.name].name]) ELSE Err

\* An entry has one action, or a set of actions.
UseFullyQualifiedNamesInEntry(info, entry) ==
  IF entry.table_name \notin DOMAIN info.tables_by_name THEN Err
  ELSE LET named == [entry EXCEPT !.table_name = info.tables_by_name[@].name]
       IN IF "action" \in DOMAIN entry
          THEN LET action == UseFullyQualifiedActionName(info, entry.action)
               IN IF action.ok THEN Ok([named EXCEPT !.action = action.value]) ELSE Err
          ELSE IF "action_set" \in DOMAIN entry
          THEN LET actions == AllOk([j \in DOMAIN entry.action_set |->
                                       UseFullyQualifiedActionName(info, entry.action_set[j])])
               IN IF actions.ok THEN Ok([named EXCEPT !.action_set = actions.value]) ELSE Err
          ELSE Err

UseFullyQualifiedNamesInEntity(info, entity) ==
  IF "table_entry" \notin DOMAIN entity THEN Ok(entity)
  ELSE LET entry == UseFullyQualifiedNamesInEntry(info, entity.table_entry)
       IN IF entry.ok THEN Ok([table_entry |-> entry.value]) ELSE Err

\* The entries of a table are numbered from 0 in the order they are given.
ParseTableEntries(info, entities) ==
  LET named == AllOk([j \in DOMAIN entities |-> UseFullyQualifiedNamesInEntity(info, entities[j])])
      names == {EntityToTableName(named.value[j]) : j \in DOMAIN entities}
      Of(t) == SelectSeq(named.value, LAMBDA e : EntityToTableName(e) = t)
  IN IF ~named.ok THEN Err
     ELSE Ok([t \in names |-> [j \in DOMAIN Of(t) |-> [concrete_entry |-> Of(t)[j], index |-> j - 1]]])

\* A sketch with every match of the table left open; what ranks it among the
\* others is given.
CreateSymbolicIrTableEntry(index, table, priority, prefix_length) ==
  LET fields == table.table_definition.match_fields_by_name
      ranked == \E f \in DOMAIN fields : fields[f].match_type \in {"ternary", "optional"}
      Sketch(f) == IF ~ranked /\ fields[f].match_type = "lpm"
                   THEN [name |-> f, lpm |-> [value |-> {}, prefix_length |-> CHOOSE n \in prefix_length : TRUE]]
                   ELSE [name |-> f]
      names == InOrder(DOMAIN fields)
  IN IF \/ ~ranked /\ prefix_length = {} /\ \E f \in DOMAIN fields : fields[f].match_type = "lpm"
        \/ ranked /\ priority <= 0
     THEN Err
     ELSE Ok([index |-> index,
              symbolic_entry |-> [table_name |-> table.table_definition.name,
                                  matches |-> [j \in DOMAIN names |-> Sketch(names[j])],
                                  priority |-> IF ranked THEN priority ELSE 0]])

GetIndex(entry) == entry.index
GetTableName(entry) ==
  IF IsConcrete(entry) THEN EntityToTableName(entry.concrete_entry) ELSE entry.symbolic_entry.table_name
GetPriority(entry) ==
  IF ~IsConcrete(entry) THEN entry.symbolic_entry.priority
  ELSE IF "table_entry" \in DOMAIN entry.concrete_entry THEN entry.concrete_entry.table_entry.priority ELSE 0
=============================================================================

-------------------------- MODULE SymbolicExecution --------------------------
(***************************************************************************)
(* The symbolic execution of a P4 program (p4_symbolic/symbolic): actions, *)
(* tables, conditionals, the parser, and the pipelines of V1Model.         *)
(*                                                                         *)
(* Every branch is executed on its own copy of the headers and the copies  *)
(* are joined, field by field, where the branches meet; a guard says       *)
(* whether the packet gets there at all.  The execution is that of one     *)
(* valuation of the free variables: `s` has the program, the entries of    *)
(* its tables and the valuation; a `packet` is what changes along the way, *)
(* the headers and the translator.                                         *)
(***************************************************************************)
EXTENDS SymbolicTableEntry

PKT_INSTANCE_TYPE_NORMAL == 0
PKT_INSTANCE_TYPE_REPLICATION == 5

(* Actions.  `context` is the headers and the scope of the action.         *)
EmptyScope == [v \in {} |-> Bool(FALSE)]

EvaluateFieldValue(key, headers) == Get(headers, key)
EvaluateHexStr(hexstr) == OkIf(~hexstr.negative, HexStringToZ3Bitvector(hexstr.value))
EvaluateBool(b) == Ok(Bool(b))
EvaluateString(s) == Ok(Text(s))
EvaluateVariable(variable, context) ==
  IF variable \in DOMAIN context.scope THEN Ok(context.scope[variable]) ELSE Err

BinaryOperation(op, l, r) ==
  CASE op = "+" -> Plus(l, r)    [] op = "-" -> Minus(l, r)   [] op = "*" -> Times(l, r)
    [] op = "<<" -> LShift(l, r) [] op = ">>" -> RShift(l, r) [] op = "==" -> Eq(l, r)
    [] op = "!=" -> Neq(l, r)    [] op = ">" -> Gt(l, r)      [] op = ">=" -> Gte(l, r)
    [] op = "<" -> Lt(l, r)      [] op = "<=" -> Lte(l, r)    [] op = "and" -> And(l, r)
    [] op = "or" -> Or(l, r)     [] op = "&" -> BitAnd(l, r)  [] op = "|" -> BitOr(l, r)
    [] op = "^" -> BitXor(l, r)

RECURSIVE EvaluateRExpression(_, _)

EvaluateRValue(rvalue, context) ==
  CASE "field_value" \in DOMAIN rvalue -> EvaluateFieldValue(rvalue.field_value, context.headers)
    [] "hexstr_value" \in DOMAIN rvalue -> EvaluateHexStr(rvalue.hexstr_value)
    [] "bool_value" \in DOMAIN rvalue -> EvaluateBool(rvalue.bool_value)
    [] "string_value" \in DOMAIN rvalue -> EvaluateString(rvalue.string_value)
    [] "variable_value" \in DOMAIN rvalue -> EvaluateVariable(rvalue.variable_value, context)
    [] "expression_value" \in DOMAIN rvalue -> EvaluateRExpression(rvalue.expression_value, context)
    [] OTHER -> Err                                          \* headers are no values

EvaluateRExpression(e, context) ==
  LET operands == AllOk([j \in DOMAIN e.arguments |-> EvaluateRValue(e.arguments[j], context)])
      args == operands.value
  IN CASE ~operands.ok -> Err
       [] e.operation \in BinaryOps -> BinaryOperation(e.operation, args[1], args[2])
       [] e.operation = "not" -> Not(args[1])
       [] e.operation = "~" -> BitNeg(args[1])
       [] e.operation = "?" -> Ite(args[1], args[2], args[3])
       [] e.operation = "d2b" -> ToBoolSort(args[1])
       [] e.operation = "b2d" -> ToBitVectorSort(args[1], 1)

WithHeaders(record, headers) == IF headers.ok THEN Ok([record EXCEPT !.headers = headers.value]) ELSE Err

\* The scope of an action has no guard.
EvaluateAssignmentStatement(assignment, context, guard) ==
  LET right == EvaluateRValue(assignment.right, context)
  IN CASE ~right.ok -> Err
       [] "field_value" \in DOMAIN assignment.left ->
            WithHeaders(context, Set(context.headers, assignment.left.field_value, right.value, guard))
       [] "variable_value" \in DOMAIN assignment.left ->
            Ok([context EXCEPT !.scope = (assignment.left.variable_value :> right.value) @@ @])
       [] OTHER -> Err

\* Headers of one type, field by field and with their validity.
EvaluateHeaderAssignmentStatement(assignment, context, program, guard) ==
  LET left == assignment.left
      right == assignment.right
  IN IF ~({left, right} \subseteq DOMAIN program.headers) THEN Err
     ELSE IF program.headers[left].name # program.headers[right].name THEN Err
     ELSE LET fields == ToSet(program.headers[right].ordered_fields_list) \union {kValidPseudoField}
          IN WithHeaders(context,
                         SetAll(context.headers,
                                [k \in {left} \X fields |-> Get(context.headers, <<right, k[2]>>)], guard))

\* A dropped packet is not replicated either.
EvaluateDropStatement(header, context, program, guard) ==
  LET width == GetFieldBitwidth(<<header, "mcast_grp">>, program)
  IN IF ~width.ok THEN Err
     ELSE WithHeaders(context, SetAll(context.headers,
                                      <<header, "egress_spec">> :> Ok(BitVector(kDropPort, kPortBitwidth))
                                        @@ <<header, "mcast_grp">> :> Ok(BitVector(0, width.value)),
                                      guard))

EvaluateStatement(statement, context, program, valuation, guard) ==
  CASE "assignment" \in DOMAIN statement -> EvaluateAssignmentStatement(statement.assignment, context, guard)
    [] "clone" \in DOMAIN statement ->
         WithHeaders(context, Set(context.headers, kGotClonedPseudoField, Bool(TRUE), guard))
    [] "recirculate" \in DOMAIN statement ->
         WithHeaders(context, Set(context.headers, kGotRecirculatedPseudoField, Bool(TRUE), guard))
    [] "drop" \in DOMAIN statement -> EvaluateDropStatement(statement.drop, context, program, guard)
    [] "hash" \in DOMAIN statement ->
         IF statement.hash \notin DOMAIN context.headers THEN Err
         ELSE WithHeaders(context,
                          Set(context.headers, statement.hash,
                              FreeVariable(statement.hash, context.headers[statement.hash], valuation), guard))
    [] "exit" \in DOMAIN statement -> Ok(context)            \* not supported, and ignored
    [] "header_assignment" \in DOMAIN statement ->
         EvaluateHeaderAssignmentStatement(statement.header_assignment, context, program, guard)

\* The statements of an action, one after the other, on the packet.
EvaluateActionBody(action, scope, s, packet, guard) ==
  LET Step(context, statement) ==
        IF context.ok THEN EvaluateStatement(statement, context.value, s.program, s.valuation, guard) ELSE Err
      after == FoldLeft(Step, Ok([headers |-> packet.headers, scope |-> scope]), action.action_body)
  IN IF after.ok THEN Ok([packet EXCEPT !.headers = after.value.headers]) ELSE Err

\* As many arguments as parameters, found by their names.
EvaluateConcreteAction(action, args, s, packet, guard) ==
  LET parameters == action.action_definition.params_by_name
      Argument(result, arg) ==
        IF ~result.ok \/ arg.name \notin DOMAIN parameters THEN Err
        ELSE LET definition == parameters[arg.name]
                 formatted == FormatP4RTValue(arg.value, {}, definition.type_name, definition.bitwidth,
                                              result.value.translator)
             IN IF ~formatted.ok THEN Err
                ELSE Ok([scope |-> result.value.scope @@ (arg.name :> formatted.value.expr),
                         translator |-> formatted.value.translator])
      bound == FoldLeft(Argument, Ok([scope |-> EmptyScope, translator |-> packet.translator]), args)
  IN IF Cardinality(DOMAIN parameters) # Len(args) THEN Err
     ELSE IF ~bound.ok THEN Err
     ELSE EvaluateActionBody(action, bound.value.scope, s,
                             [packet EXCEPT !.translator = bound.value.translator], guard)

EvaluateSymbolicAction(action, entry, s, packet, guard) ==
  LET table == s.program.tables[GetTableName(entry)]
      parameters == DOMAIN action.action_definition.params_by_name
      values == [p \in parameters |-> GetSymbolicActionParameter(entry, p, action, table, s.valuation)]
  IN IF \E p \in parameters : ~values[p].ok THEN Err
     ELSE EvaluateActionBody(action, [p \in parameters |-> values[p].value], s, packet, guard)

-----------------------------------------------------------------------------
(* Table entries.                                                          *)
GetMatches(entry) ==
  IF IsConcrete(entry) THEN entry.concrete_entry.table_entry.matches ELSE entry.symbolic_entry.matches

\* A mutation: entries are tried in the order they are given.
EntriesAsGiven(table, entries) == entries

\* The highest priority first, or the longest prefix where there are no
\* priorities; entries of one rank stay in their order.
SortedEntries(table, entries) ==
  LET fields == table.table_definition.match_fields_by_name
      OfType(types) == {f \in DOMAIN fields : fields[f].match_type \in types}
      PrefixLength(entry) ==
        LET lpm == {m \in ToSet(GetMatches(entry)) : m.name \in OfType({"lpm"}) /\ "lpm" \in DOMAIN m}
        IN IF lpm = {} THEN 0 ELSE (CHOOSE m \in lpm : TRUE).lpm.prefix_length
      Rank(entry) == IF OfType({"ternary", "optional"}) # {} THEN GetPriority(entry)
                     ELSE IF OfType({"lpm"}) # {} THEN PrefixLength(entry) ELSE 0
      ranked == [j \in DOMAIN entries |-> [rank |-> Rank(entries[j]), position |-> j]]
      sorted == SortSeq(ranked, LAMBDA a, b : \/ a.rank > b.rank
                                              \/ a.rank = b.rank /\ a.position < b.position)
  IN [j \in DOMAIN entries |-> entries[sorted[j].position]]

\* Whether the match holds, and the translator.
EvaluateConcreteMatch(match, definition, field, value, translator) ==
  LET type == definition.match_type
      Format(v, t) == FormatP4RTValue(v, {field}, definition.type_name, definition.bitwidth, t)
      Result(condition, t) == IF condition.ok THEN Ok([holds |-> condition.value.value, translator |-> t]) ELSE Err
      given == CASE type = "exact" -> match.exact
                 [] type = "optional" -> match.optional
                 [] type = "lpm" -> match.lpm.value
                 [] type = "ternary" -> match.ternary.value
      formatted == Format(given, translator)
      mask == Format(match.ternary.mask, formatted.value.translator)
      masked == BitAnd(value, mask.value.expr)
  IN CASE type \notin SymbolicMatchTypes \/ type \notin DOMAIN match -> Err
       [] ~formatted.ok -> Err
       [] type \in {"exact", "optional"} -> Result(Eq(value, formatted.value.expr), formatted.value.translator)
       [] type = "lpm" ->
            Result(PrefixEq(value, formatted.value.expr, match.lpm.prefix_length), formatted.value.translator)
       [] ~mask.ok -> Err
       [] ~masked.ok -> Err
       [] OTHER -> Result(Eq(masked.value, formatted.value.expr), mask.value.translator)

EvaluateSymbolicMatch(entry, match_name, value, table, s, translator) ==
  LET variables == GetSymbolicMatch(entry, match_name, table, s.program, s.valuation)
      masked == BitAnd(value, variables.value.mask)
      equal == Eq(masked.value, variables.value.value)
  IN IF ~variables.ok THEN Err
     ELSE IF ~masked.ok THEN Err
     ELSE IF equal.ok THEN Ok([holds |-> equal.value.value, translator |-> translator]) ELSE Err

EvaluateTableEntryCondition(table, entry, s, packet) ==
  LET Match(result, match) ==
        LET definition == GetMatchDefinition(match.name, table)
            field == GetFieldNameFromMatch(match.name, table)
            value == EvaluateFieldValue(field.value, packet.headers)
            translator == result.value.translator
            evaluated == IF IsConcrete(entry)
                         THEN EvaluateConcreteMatch(match, definition.value, field.value, value.value, translator)
                         ELSE EvaluateSymbolicMatch(entry, match.name, value.value, table, s, translator)
        IN IF ~result.ok \/ ~definition.ok \/ ~field.ok THEN Err
           ELSE IF ~value.ok THEN Err
           ELSE IF ~evaluated.ok THEN Err
           ELSE Ok([evaluated.value EXCEPT !.holds = @ /\ result.value.holds])
  IN FoldLeft(Match, Ok([holds |-> TRUE, translator |-> packet.translator]), GetMatches(entry))

EvaluateSingleConcreteAction(invocation, s, packet, guard) ==
  IF invocation.name \notin DOMAIN s.program.actions THEN Err
  ELSE EvaluateConcreteAction(s.program.actions[invocation.name], invocation.params, s, packet, guard)

EvaluateSingleSymbolicAction(action_name, entry, s, packet, guard) ==
  IF action_name \notin DOMAIN s.program.actions THEN Err
  ELSE EvaluateSymbolicAction(s.program.actions[action_name], entry, s, packet, guard)

\* A free selector picks the action of a set; the last one takes what is left.
EvaluateActionSet(actions, selector, s, packet) ==
  LET Selected(j) == IF j = Len(actions) THEN \A k \in 1..(j - 1) : selector # k - 1 ELSE selector = j - 1
      Step(result, j) == IF result.ok THEN EvaluateSingleConcreteAction(actions[j], s, result.value, Selected(j))
                         ELSE Err
  IN FoldLeft(Step, Ok(packet), [j \in DOMAIN actions |-> j])

EvaluateConcreteEntryAction(entry, s, packet, guard) ==
  LET ir == entry.concrete_entry.table_entry
  IN CASE "action" \in DOMAIN ir -> EvaluateSingleConcreteAction(ir.action, s, packet, guard)
       [] "action_set" \in DOMAIN ir ->
            EvaluateActionSet(ir.action_set, s.valuation.selectors[VariableOf(entry)], s, packet)
       [] OTHER -> Err

EvaluateSymbolicEntryAction(table, entry, s, packet, guard) ==
  LET Step(result, name) ==
        LET applied == GetSymbolicActionInvocation(entry, name, table, s.valuation)
        IN IF ~result.ok THEN Err
           ELSE EvaluateSingleSymbolicAction(name, entry, s, result.value, guard /\ applied.value)
  IN IF table.table_definition.has_action_profile_id THEN Err
     ELSE FoldLeft(Step, Ok(packet), table.table_definition.entry_actions)

EvaluateTableEntryAction(table, entry, s, packet, guard) ==
  IF IsConcrete(entry) THEN EvaluateConcreteEntryAction(entry, s, packet, guard)
  ELSE EvaluateSymbolicEntryAction(table, entry, s, packet, guard)

DefaultEntry(table) ==
  [index |-> kDefaultActionEntryIndex,
   concrete_entry |->
     [table_entry |->
        [action |-> [name |-> table.default_action,
                     params |-> [j \in DOMAIN table.default_action_parameters |->
                                   [name |-> "", value |-> [int |-> table.default_action_parameters[j]]]]]]]]

EntriesOf(table, s) ==
  LET name == table.table_definition.name
  IN IF name \in DOMAIN s.table_entries THEN SortedEntries(table, s.table_entries[name]) ELSE <<>>

\* The conditions of all entries, on the headers the table is applied to.
EvaluateConditions(table, entries, s, packet) ==
  LET Entry(result, entry) ==
        LET condition == EvaluateTableEntryCondition(table, entry, s,
                                                     [packet EXCEPT !.translator = result.value.translator])
        IN IF ~result.ok THEN Err
           ELSE IF ~condition.ok THEN Err
           ELSE Ok([holds |-> Append(result.value.holds, condition.value.holds),
                    translator |-> condition.value.translator])
  IN FoldLeft(Entry, Ok([holds |-> <<>>, translator |-> packet.translator]), entries)

-----------------------------------------------------------------------------
(* Traces: which tables were executed, and which entry was hit.            *)
NoMatches == [t \in {} |-> [matched |-> FALSE, entry_index |-> -1]]
DefaultTableMatch == [matched |-> FALSE, entry_index |-> kDefaultActionEntryIndex]

MergeMatchesOnCondition(condition, true_matches, false_matches) ==
  LET matches == IF condition THEN true_matches ELSE false_matches
  IN [t \in DOMAIN true_matches \union DOMAIN false_matches |->
        IF t \in DOMAIN matches THEN matches[t] ELSE DefaultTableMatch]

MergeDisjointTableMatches(lhs, rhs) == OkIf(DOMAIN lhs \intersect DOMAIN rhs = {}, lhs @@ rhs)

\* The headers where branches meet: those of the first branch whose condition
\* holds, else `otherwise`, under the guard.
MergeHeaders(headers, conditions, branches, otherwise, guard) ==
  LET Merged(k) == FoldRight(LAMBDA j, rest : IF rest.ok THEN Ite(Bool(conditions[j]), branches[j][k], rest.value)
                                              ELSE Err,
                             [j \in DOMAIN conditions |-> j], Ok(otherwise[k]))
  IN SetAll(headers, [k \in DOMAIN headers |-> Merged(k)], guard)

-----------------------------------------------------------------------------
(* Controls.  The result is the packet after the control and all that      *)
(* follows, and the matches on the way.                                    *)
RECURSIVE EvaluateControl(_, _, _, _)

\* The action of each entry on a copy of the headers, the last entry first;
\* what is joined is the headers, the translator goes from one to the next.
EvaluateRows(table, entries, s, packet) ==
  LET Row(entry, result) ==
        LET after == EvaluateTableEntryAction(table, entry, s,
                                              [packet EXCEPT !.translator = result.value.translator], TRUE)
        IN IF ~result.ok THEN Err
           ELSE IF ~after.ok THEN Err
           ELSE Ok([headers |-> <<after.value.headers>> \o result.value.headers,
                    translator |-> after.value.translator])
  IN FoldRight(Row, Append(entries, DefaultEntry(table)), Ok([headers |-> <<>>, translator |-> packet.translator]))

\* What follows a hit or a miss, up to the merge point; a program cannot
\* branch on the action that was executed.
EvaluateBranches(table, match_index, s, packet, guard) ==
  LET next == table.action_to_next_control
      leaving == {a \in DOMAIN next : next[a] # table.merge_point}
      Branch(result, action) ==
        LET condition == (match_index # kDefaultActionEntryIndex) <=> (action = "__HIT__")
            branch == EvaluateControl(next[action], s, result.value.packet, guard /\ condition)
        IN IF ~result.ok THEN Err
           ELSE IF ~branch.ok THEN Err
           ELSE Ok([packet |-> branch.value.packet,
                    matches |-> MergeMatchesOnCondition(condition, branch.value.matches, result.value.matches)])
  IN IF ~(leaving \subseteq {"__HIT__", "__MISS__"}) THEN Err
     ELSE FoldLeft(Branch, Ok([packet |-> packet, matches |-> NoMatches]),
                   SelectSeq(<<"__HIT__", "__MISS__">>, LAMBDA a : a \in leaving))

MatchIndex(entries, holds, guard) ==
  LET hit == {j \in DOMAIN entries : guard /\ holds[j]}
  IN IF hit = {} THEN kDefaultActionEntryIndex ELSE GetIndex(entries[Min(hit)])

EvaluateTable(table, s, packet, guard) ==
  LET name == table.table_definition.name
      entries == EntriesOf(table, s)
      conditions == EvaluateConditions(table, entries, s, packet)
      rows == EvaluateRows(table, entries, s, [packet EXCEPT !.translator = conditions.value.translator])
      merged == MergeHeaders(packet.headers, conditions.value.holds, rows.value.headers,
                             Last(rows.value.headers), guard)
      match_index == MatchIndex(entries, conditions.value.holds, guard)
      branches == EvaluateBranches(table, match_index, s,
                                   [headers |-> merged.value, translator |-> rows.value.translator], guard)
      result == EvaluateControl(IF table.continue_to_merge_point THEN table.merge_point ELSE EndOfPipeline,
                                s, branches.value.packet, guard)
      all == MergeDisjointTableMatches(result.value.matches, branches.value.matches)
  IN IF ~conditions.ok THEN Err
     ELSE IF ~rows.ok THEN Err
     ELSE IF ~merged.ok THEN Err
     ELSE IF ~branches.ok THEN Err
     ELSE IF ~result.ok THEN Err
     ELSE IF ~all.ok THEN Err
     ELSE OkIf(name \notin DOMAIN all.value,                 \* executed twice otherwise
               [packet |-> result.value.packet,
                matches |-> (name :> [matched |-> guard, entry_index |-> match_index]) @@ all.value])

\* Both branches are executed, and neither has the guard.
EvaluateConditional(conditional, s, packet, guard) ==
  LET condition == EvaluateRValue(conditional.condition, [headers |-> packet.headers, scope |-> EmptyScope])
      Next(branch) == IF branch = conditional.merge_point THEN EndOfPipeline ELSE branch
      if == EvaluateControl(Next(conditional.if_branch), s, packet, TRUE)
      else == EvaluateControl(Next(conditional.else_branch), s,
                              [packet EXCEPT !.translator = if.value.packet.translator], TRUE)
      headers == MergeHeaders(packet.headers, <<condition.value.value>>, <<if.value.packet.headers>>,
                              else.value.packet.headers, guard)
      merged == [packet |-> [headers |-> headers.value, translator |-> else.value.packet.translator],
                 matches |-> MergeMatchesOnCondition(condition.value.value, if.value.matches, else.value.matches)]
      result == EvaluateControl(conditional.merge_point, s, merged.packet, guard)
      all == MergeDisjointTableMatches(merged.matches, result.value.matches)
  IN IF ~condition.ok THEN Err
     ELSE IF condition.value.kind # "bool" THEN Err
     ELSE IF ~if.ok THEN Err
     ELSE IF ~else.ok THEN Err
     ELSE IF ~headers.ok THEN Err
     ELSE IF ~conditional.continue_to_merge_point THEN Ok(merged)
     ELSE IF ~result.ok THEN Err
     ELSE IF all.ok THEN Ok([packet |-> result.value.packet, matches |-> all.value]) ELSE Err

EvaluateControl(control_name, s, packet, guard) ==
  CASE control_name = EndOfPipeline -> Ok([packet |-> packet, matches |-> NoMatches])
    [] control_name \in DOMAIN s.program.tables -> EvaluateTable(s.program.tables[control_name], s, packet, guard)
    [] control_name \in DOMAIN s.program.conditionals ->
         EvaluateConditional(s.program.conditionals[control_name], s, packet, guard)
    [] OTHER -> Err

EvaluatePipeline(pipeline_name, s, packet, guard) ==
  IF pipeline_name \notin DOMAIN s.program.pipeline THEN Err
  ELSE EvaluateControl(s.program.pipeline[pipeline_name], s, packet, guard)

-----------------------------------------------------------------------------
(* The parser.                                                             *)
kParserErrorField == StandardMetadata("parser_error")

\* A header can only be extracted where nothing was assigned to its fields.
EvaluateExtractParserOperation(header, context, program, guard) ==
  IF header \notin DOMAIN program.headers THEN Err
  ELSE LET fields == program.headers[header].fields
           Free(f) == LET value == context.headers[<<header, f>>]
                      IN value.variable = {<<header, f>>} /\ IsBv(value) /\ value.width = fields[f]
           set == SetAll(context.headers,
                         [k \in {header} \X {kValidPseudoField, kExtractedPseudoField} |-> Ok(Bool(TRUE))], guard)
       IN IF \A f \in DOMAIN fields : Free(f) THEN WithHeaders(context, set) ELSE Err

EvaluateSetOperationRValue(rvalue, context) ==
  IF "lookahead_value" \in DOMAIN rvalue THEN Err ELSE EvaluateRValue(rvalue, context)

EvaluateSetParserOperation(set, context, guard) ==
  LET rvalue == EvaluateSetOperationRValue(set.rvalue, context)
  IN IF rvalue.ok THEN WithHeaders(context, Set(context.headers, set.lvalue, rvalue.value, guard)) ELSE Err

EvaluatePrimitiveParserOperation(primitive, context, guard) ==
  EvaluateAssignmentStatement(primitive, context, guard)

EvaluateParserOperation(op, context, program, guard) ==
  CASE "extract" \in DOMAIN op -> EvaluateExtractParserOperation(op.extract, context, program, guard)
    [] "set" \in DOMAIN op -> EvaluateSetParserOperation(op.set, context, guard)
    [] "primitive" \in DOMAIN op -> EvaluatePrimitiveParserOperation(op.primitive, context, guard)

EvaluateParserOperations(parse_state, headers, program, guard) ==
  LET Step(context, op) == IF context.ok THEN EvaluateParserOperation(op, context.value, program, guard) ELSE Err
      after == FoldLeft(Step, Ok([headers |-> headers, scope |-> EmptyScope]), parse_state.parser_ops)
  IN IF after.ok THEN Ok(after.value.headers) ELSE Err

ConstructHexStringMatchCondition(hexstr, masks, key) ==
  LET value == EvaluateHexStr(hexstr)
      mask == EvaluateHexStr(CHOOSE m \in masks : TRUE)
      masked_value == BitAnd(value.value, mask.value)
      masked_key == BitAnd(key, mask.value)
  IN IF ~value.ok THEN Err
     ELSE IF masks = {} THEN Eq(value.value, key)
     ELSE IF mask.ok THEN Eq(masked_value.value, masked_key.value) ELSE Err

\* The fields of the key side by side, the first one in front.
TransitionKey(parse_state, headers) ==
  LET fields == AllOk([j \in DOMAIN parse_state.transition_key_fields |->
                         Get(headers, parse_state.transition_key_fields[j])])
      Concat(a, b) == BitVector(a.value * 2^b.width + b.value, a.width + b.width)
  IN IF ~fields.ok THEN Err
     ELSE IF \E j \in DOMAIN fields.value : ~IsBv(fields.value[j]) THEN Err
     ELSE IF fields.value = <<>> THEN Ok({})
     ELSE Ok({FoldLeft(Concat, Head(fields.value), Tail(fields.value))})

\* Only the last transition may be the default.
ConstructMatchConditions(parse_state, headers) ==
  LET key == TransitionKey(parse_state, headers)
      transitions == parse_state.transitions
      Condition(j) ==
        IF transitions[j].default THEN OkIf(j = Len(transitions), Bool(TRUE))
        ELSE IF key.value = {} THEN Err
        ELSE ConstructHexStringMatchCondition(transitions[j].value, transitions[j].mask,
                                              CHOOSE k \in key.value : TRUE)
      conditions == AllOk([j \in DOMAIN transitions |-> Condition(j)])
  IN IF ~key.ok THEN Err
     ELSE IF conditions.ok THEN Ok([j \in DOMAIN transitions |-> conditions.value[j].value]) ELSE Err

ConstructFallThroughGuard(match_conditions, guard) ==
  guard /\ \A j \in DOMAIN match_conditions : ~match_conditions[j]

GetErrorCodeExpression(program, error_name) ==
  LET width == GetFieldBitwidth(kParserErrorField, program)
  IN IF error_name \in DOMAIN program.errors /\ width.ok
     THEN Ok(BitVector(program.errors[error_name], width.value)) ELSE Err

SetParserError(program, headers, error_name, guard) ==
  LET code == GetErrorCodeExpression(program, error_name)
  IN IF code.ok THEN Set(headers, kParserErrorField, code.value, guard) ELSE Err

\* The transitions are executed on copies, up to the merge point.  A packet that
\* takes none of them has an error and does not go on to the merge point of this
\* state.  (Whether the last transition is the default is asked of an
\* expression, which is never null: the error is set up in any case.)
RECURSIVE EvaluateParseState(_, _, _, _)
EvaluateParseState(program, state_name, headers, guard) ==
  IF state_name = EndOfParser THEN Ok(headers)
  ELSE IF state_name \notin DOMAIN program.parser.parse_states THEN Err
  ELSE
  LET parse_state == program.parser.parse_states[state_name]
      after == EvaluateParserOperations(parse_state, headers, program, guard)
      conditions == ConstructMatchConditions(parse_state, after.value)
      transitions == parse_state.transitions
      branches == AllOk([j \in DOMAIN transitions |->
                           IF transitions[j].next_state = parse_state.merge_point THEN Ok(after.value)
                           ELSE EvaluateParseState(program, transitions[j].next_state, after.value, TRUE)])
      merged == MergeHeaders(after.value, conditions.value, branches.value, after.value, guard)
      fall_through == ConstructFallThroughGuard(conditions.value, guard)
      result == IF transitions = <<>> THEN merged ELSE SetParserError(program, merged.value, "NoMatch", fall_through)
      merge_point_guard == guard /\ (transitions # <<>> => ~fall_through)
  IN IF ~after.ok THEN Err
     ELSE IF ~conditions.ok THEN Err
     ELSE IF ~branches.ok THEN Err
     ELSE IF ~merged.ok THEN Err
     ELSE IF ~result.ok THEN Err
     ELSE IF parse_state.continue_to_merge_point
     THEN EvaluateParseState(program, parse_state.merge_point, result.value, merge_point_guard)
     ELSE result

EvaluateParsers(program, ingress_headers) ==
  EvaluateParseState(program, program.parser.initial_state, ingress_headers, TRUE)

-----------------------------------------------------------------------------
(* V1Model.                                                                *)
kFieldsToBeInitialized ==
  {"egress_spec", "instance_type", "enq_timestamp", "enq_qdepth", "deq_timedelta", "deq_qdepth",
   "ingress_global_timestamp", "egress_global_timestamp", "mcast_grp", "egress_rid", "checksum_error",
   "parser_error", "priority"}

InitializeStandardMetadata(program, headers) ==
  IF "standard_metadata" \notin DOMAIN program.headers THEN Err
  ELSE LET fields == program.headers["standard_metadata"].fields
           initial == [k \in {StandardMetadata(f) : f \in kFieldsToBeInitialized} |->
                         Ok(BitVector(IF k[2] = "instance_type" THEN PKT_INSTANCE_TYPE_NORMAL ELSE 0, fields[k[2]]))]
       IN IF kFieldsToBeInitialized \subseteq DOMAIN fields THEN SetAll(headers, initial, TRUE) ELSE Err

CheckPhysicalPortsConformanceToV1Model(physical_ports) ==
  physical_ports \subseteq 0..511 \ {kDropPort, kCpuPort}

EgressSpecDroppedValue == BitVector(kDropPort, kPortBitwidth)

IsDropped(headers) ==
  LET spec == Get(headers, StandardMetadata("egress_spec"))
  IN IF spec.ok THEN Eq(spec.value, EgressSpecDroppedValue) ELSE Err

InitializeIngressHeaders(program, headers) ==
  LET initialized == InitializeStandardMetadata(program, headers)
      pseudo == (DOMAIN program.headers) \X {kValidPseudoField, kExtractedPseudoField}
  IN IF initialized.ok THEN SetAll(initialized.value, [k \in pseudo |-> Ok(Bool(FALSE))], TRUE) ELSE Err

\* One replica of the group the packet is sent to, as the valuation picks it;
\* the last one takes what is left.
EvaluateMulticastGroup(group, mcast_grp, s, packet) ==
  LET Width(f) == s.program.headers["standard_metadata"].fields[f]
      hit == mcast_grp.value = group.multicast_group_id % 2^mcast_grp.width
      index == s.valuation.replicas[group.multicast_group_id]
      typed == Set(packet.headers, StandardMetadata("instance_type"),
                   BitVector(PKT_INSTANCE_TYPE_REPLICATION, Width("instance_type")), hit)
      Selected(j) == IF j = Len(group.replicas) THEN \A k \in 1..(j - 1) : index # k - 1 ELSE index = j - 1
      Replica(result, j) ==
        LET replica == group.replicas[j]
            allocated == AllocateId(result.value.translator.allocators["port_id_t"], replica.port)
            sent == SetAll(result.value.headers,
                           StandardMetadata("egress_spec") :> Ok(BitVector(allocated.value.id, Width("egress_spec")))
                             @@ StandardMetadata("egress_rid") :> Ok(BitVector(replica.instance, Width("egress_rid"))),
                           hit /\ Selected(j))
        IN IF ~result.ok THEN Err
           ELSE IF ~allocated.ok THEN Err
           ELSE IF ~sent.ok THEN Err
           ELSE Ok([headers |-> sent.value,
                    translator |-> [result.value.translator EXCEPT !.allocators["port_id_t"] = allocated.value.allocator]])
  IN IF group.multicast_group_id = 0 \/ ~typed.ok THEN Err
     ELSE FoldLeft(Replica, Ok([packet EXCEPT !.headers = typed.value]), [j \in DOMAIN group.replicas |-> j])

EvaluateMulticastGroupTable(s, packet) ==
  LET mcast_grp == Get(packet.headers, StandardMetadata("mcast_grp"))
      Group(result, entry) ==
        IF ~result.ok THEN Err
        ELSE EvaluateMulticastGroup(entry.concrete_entry.multicast_group_entry, mcast_grp.value, s, result.value)
  IN IF kMulticastGroupTable \notin DOMAIN s.table_entries THEN Ok(packet)
     ELSE IF "port_id_t" \notin DOMAIN packet.translator.allocators \/ ~mcast_grp.ok THEN Err
     ELSE FoldLeft(Group, Ok(packet), s.table_entries[kMulticastGroupTable])

\* Ingress, replication and egress; a packet dropped at ingress is not executed
\* at egress.
EvaluatePipelines(s, packet) ==
  LET ingress == EvaluatePipeline("ingress", s, packet, TRUE)
      replicated == EvaluateMulticastGroupTable(s, ingress.value.packet)
      dropped == IsDropped(replicated.value.headers).value.value
      sent == Set(replicated.value.headers, StandardMetadata("egress_port"),
                  replicated.value.headers[StandardMetadata("egress_spec")], ~dropped)
      egress == EvaluatePipeline("egress", s, [replicated.value EXCEPT !.headers = sent.value], ~dropped)
  IN IF ~ingress.ok THEN Err
     ELSE IF ~replicated.ok THEN Err
     ELSE IF ~sent.ok THEN Err
     ELSE IF ~egress.ok THEN Err
     ELSE Ok([packet |-> egress.value.packet, matches |-> ingress.value.matches @@ egress.value.matches])

\* The context of the valuation: what the packet was, and what became of it.
EvaluateV1model(s, translator, physical_ports) ==
  LET initial == InitializeIngressHeaders(s.program, FreeSymbolicHeaders(s.program, s.valuation))
      parsed == EvaluateParsers(s.program, initial.value)
      extracted == [k \in (DOMAIN s.program.headers) \X {kValidPseudoField} |->
                      Ok(parsed.value[<<k[1], kExtractedPseudoField>>])]
      ingress_headers == SetAll(initial.value, extracted, TRUE)
      result == EvaluatePipelines(s, [headers |-> parsed.value, translator |-> translator])
      egress_headers == result.value.packet.headers
  IN IF ~CheckPhysicalPortsConformanceToV1Model(physical_ports) \/ ~initial.ok THEN Err
     ELSE IF ~parsed.ok THEN Err
     ELSE IF ~result.ok THEN Err
     ELSE IF StandardMetadata("ingress_port") \notin DOMAIN initial.value THEN Err
     ELSE Ok([translator |-> result.value.packet.translator,
              context |->
                [valuation |-> s.valuation,
                 ingress_headers |-> ingress_headers.value, parsed_headers |-> parsed.value,
                 egress_headers |-> egress_headers,
                 ingress_port |-> ingress_headers.value[StandardMetadata("ingress_port")],
                 egress_port |-> egress_headers[StandardMetadata("egress_spec")],
                 trace |-> [matched_entries |-> result.value.matches,
                            dropped |-> IsDropped(egress_headers).value.value,
                            got_cloned |-> egress_headers[kGotClonedPseudoField].value]]])

-----------------------------------------------------------------------------
(* The solver's state.  `holds` is what has been asserted, at the          *)
(* valuation.                                                              *)
InitializeTableEntries(program, entries, valuation) ==
  LET Entry(result, entry) ==
        LET table == GetIrTable(program, GetTableName(entry))
            matches == InitializeSymbolicMatches(entry, table.value, program, valuation, result.value)
        IN IF ~result.ok \/ ~table.ok THEN Err
           ELSE IF IsConcrete(entry) THEN result
           ELSE IF table.value.table_definition.has_action_profile_id THEN Err
           ELSE IF ~matches.ok THEN Err
           ELSE InitializeSymbolicActions(entry, table.value, program, valuation, matches.value)
      names == InOrder({t \in DOMAIN entries : ~IsBuiltInTable(t)})
  IN FoldLeft(Entry, Ok([holds |-> TRUE, translator |-> NewTranslator]),
              FlattenSeq([j \in DOMAIN names |-> entries[names[j]]]))

\* An allocator that the entries needed already is not replaced.
AddTranslations(translator, translation_per_type) ==
  [translator EXCEPT
     !.allocators = @ @@ [t \in DOMAIN translation_per_type |->
                            NewAllocator(translation_per_type[t].static_mapping,
                                         translation_per_type[t].dynamic_translation)]]

\* A number is cut to the width of what it is compared with.
EqualsNumber(e, n) == e.value = n % 2^e.width

\* Values of a type that only has its static translation are among the ids of it.
AddConstraintForStaticallyTranslatedValue(value, type_name, translator) ==
  IF type_name \notin DOMAIN translator.allocators THEN TRUE
  ELSE LET allocator == translator.allocators[type_name]
       IN allocator.dynamic_translation \/ \E id \in AllocatedIds(allocator) : EqualsNumber(value, id)

\* The type of a match, or the one its field turned out to have.
TypeOfMatch(match_name, table, translator) ==
  LET definition == GetMatchDefinition(match_name, table).value
      field == GetFieldNameFromMatch(match_name, table).value
  IN IF definition.type_name = "" /\ field \in DOMAIN translator.fields_type
     THEN translator.fields_type[field] ELSE definition.type_name

ConstraintsOfSymbolicEntry(entry, program, valuation, translator) ==
  LET table == program.tables[GetTableName(entry)]
      Definitions(a) == program.actions[a].action_definition.params_by_name
  IN /\ \A j \in DOMAIN entry.symbolic_entry.matches :
          LET name == entry.symbolic_entry.matches[j].name
          IN AddConstraintForStaticallyTranslatedValue(
               GetSymbolicMatch(entry, name, table, program, valuation).value.value,
               TypeOfMatch(name, table, translator), translator)
     /\ \A a \in ToSet(table.table_definition.entry_actions) : \A p \in DOMAIN Definitions(a) :
          AddConstraintForStaticallyTranslatedValue(
            GetSymbolicActionParameter(entry, p, program.actions[a], table, valuation).value,
            Definitions(a)[p].type_name, translator)

AddConstraintsForStaticallyTranslatedValues(s, translator, headers) ==
  /\ \A k \in DOMAIN translator.fields_type :
       AddConstraintForStaticallyTranslatedValue(headers[k], translator.fields_type[k], translator)
  /\ \A t \in DOMAIN s.table_entries : \A j \in DOMAIN s.table_entries[t] :
       ~IsConcrete(s.table_entries[t][j])
         => ConstraintsOfSymbolicEntry(s.table_entries[t][j], s.program, s.valuation, translator)

AddPortConstraints(context, physical_ports) ==
  IF physical_ports = {}
  THEN ~EqualsNumber(context.ingress_port, kCpuPort) /\ ~EqualsNumber(context.ingress_port, kDropPort)
  ELSE /\ \E p \in physical_ports : EqualsNumber(context.ingress_port, p)
       /\ context.trace.dropped \/ \E p \in physical_ports : EqualsNumber(context.egress_port, p)

\* The context of one valuation, and whether what was asserted holds there.
EvaluateAt(program, entries, physical_ports, translation_per_type, valuation) ==
  LET s == [program |-> program, table_entries |-> entries, valuation |-> valuation]
      initialized == InitializeTableEntries(program, entries, valuation)
      result == EvaluateV1model(s, AddTranslations(initialized.value.translator, translation_per_type), physical_ports)
  IN IF ~initialized.ok THEN Err
     ELSE IF ~result.ok THEN Err
     ELSE Ok([context |-> result.value.context, translator |-> result.value.translator,
              asserted |-> /\ initialized.value.holds
                           /\ AddConstraintsForStaticallyTranslatedValues(
                                s, result.value.translator, result.value.context.ingress_headers)
                           /\ AddPortConstraints(result.value.context, physical_ports)])

\* The models of a program are the contexts of the valuations that satisfy what
\* is asserted; the translator is the same for all of them.
EvaluateP4Program(program, entries, physical_ports, translation_per_type, valuations) ==
  LET results == {EvaluateAt(program, entries, physical_ports, translation_per_type, v) : v \in valuations}
  IN IF \E r \in results : ~r.ok THEN Err
     ELSE Ok([program |-> program, table_entries |-> entries,
              translator |-> (CHOOSE r \in results : TRUE).value.translator,
              models |-> {r.value.context : r \in {r \in results : r.value.asserted}}])

-----------------------------------------------------------------------------
(* Solutions.                                                              *)
ConvertFullyQualifiedNamesToAliases(entry, program) ==
  IF "table_entry" \notin DOMAIN entry.concrete_entry THEN entry
  ELSE LET Alias(action) == IF action.name \in DOMAIN program.actions
                            THEN [action EXCEPT !.name = program.actions[@].action_definition.alias] ELSE action
           ir == entry.concrete_entry.table_entry
           table == [ir EXCEPT !.table_name = program.tables[@].table_definition.alias]
           named == IF "action" \in DOMAIN ir THEN [table EXCEPT !.action = Alias(@)]
                    ELSE IF "action_set" \in DOMAIN ir
                    THEN [table EXCEPT !.action_set = [j \in DOMAIN ir.action_set |-> Alias(ir.action_set[j])]]
                    ELSE table
       IN IF ir.table_name \in DOMAIN program.tables THEN [entry EXCEPT !.concrete_entry.table_entry = named]
          ELSE entry

\* The fields as the controller names them.
ExtractHeaders(headers, translator) ==
  LET translated == [k \in DOMAIN headers |-> TranslateZ3ValueStringToP4RT(headers[k].value, k, "", translator)]
  IN IF \A k \in DOMAIN headers : translated[k].ok THEN Ok([k \in DOMAIN headers |-> translated[k].value.text])
     ELSE Err

ExtractEntries(state, model) ==
  LET Entry(e) == IF IsConcrete(e) THEN Ok(e)
                  ELSE ExtractConcreteEntryFromModel(e, model.valuation, state.program, state.translator)
      extracted == [t \in DOMAIN state.table_entries |->
                      AllOk([j \in DOMAIN state.table_entries[t] |-> Entry(state.table_entries[t][j])])]
  IN IF \E t \in DOMAIN extracted : ~extracted[t].ok THEN Err
     ELSE Ok([t \in DOMAIN extracted |->
                [j \in DOMAIN extracted[t].value |->
                   ConvertFullyQualifiedNamesToAliases(extracted[t].value[j], state.program)]])

ExtractFromModel(state, model) ==
  LET headers == AllOk(<<ExtractHeaders(model.ingress_headers, state.translator),
                         ExtractHeaders(model.parsed_headers, state.translator),
                         ExtractHeaders(model.egress_headers, state.translator)>>)
      packets == AllOk(<<DeparsePacket(model.ingress_headers, state.program),
                         DeparsePacket(model.egress_headers, state.program)>>)
      entries == ExtractEntries(state, model)
  IN IF ~headers.ok \/ ~packets.ok \/ ~entries.ok THEN Err
     ELSE Ok([ingress_port |-> model.ingress_port.value, egress_port |-> model.egress_port.value,
              ingress_headers |-> headers.value[1], parsed_headers |-> headers.value[2],
              egress_headers |-> headers.value[3],
              serialized_ingress_headers |-> packets.value[1], serialized_egress_headers |-> packets.value[2],
              table_entries |-> entries.value, trace |-> model.trace])

=============================================================================

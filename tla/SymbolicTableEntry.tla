------------------------- MODULE SymbolicTableEntry -------------------------
(***************************************************************************)
(* Symbolic table entries (p4_symbolic/symbolic/symbolic_table_entry.cc):  *)
(* entries of which only a sketch is given and whose matches, action and   *)
(* parameters are variables for the solver.  What the entry may be is      *)
(* asserted; the entry itself is read back from a model.                   *)
(*                                                                         *)
(* The variables of an entry are those of the valuation: a value and a     *)
(* mask for each match, the set of the actions that are chosen, and a      *)
(* number for each parameter of each action.                               *)
(***************************************************************************)
EXTENDS SymbolicValues

SymbolicMatchTypes == {"exact", "lpm", "ternary", "optional"}
AllOnes(width) == 2^width - 1

VariableOf(entry) == <<GetTableName(entry), GetIndex(entry)>>

(* The variables.  A match the sketch leaves out is a wildcard and has     *)
(* none; a width that P4Info gives has to be the one of the program.       *)
GetSymbolicMatchInfo(entry, match_name, table, program) ==
  LET definition == GetMatchDefinition(match_name, table)
      field == GetFieldNameFromMatch(match_name, table)
      width == IF field.ok THEN GetFieldBitwidth(field.value, program) ELSE Err
  IN IF ~definition.ok \/ ~width.ok THEN Err
     ELSE OkIf(/\ definition.value.match_type \in SymbolicMatchTypes
               /\ \E m \in ToSet(entry.symbolic_entry.matches) : m.name = match_name
               /\ definition.value.bitwidth \in {0, width.value},
               [match_type |-> definition.value.match_type, bitwidth |-> width.value,
                variable |-> Append(VariableOf(entry), match_name)])

GetSymbolicMatch(entry, match_name, table, program, valuation) ==
  LET match == GetSymbolicMatchInfo(entry, match_name, table, program)
      variables == valuation.matches[match.value.variable]
  IN IF ~match.ok THEN Err
     ELSE Ok([match_type |-> match.value.match_type,
              value |-> BitVector(variables.value, match.value.bitwidth),
              mask |-> BitVector(variables.mask, match.value.bitwidth)])

\* Whether the entry has this action.
GetSymbolicActionInvocation(entry, action_name, table, valuation) ==
  OkIf(action_name \in ToSet(table.table_definition.entry_actions),
       action_name \in valuation.chosen[VariableOf(entry)])

GetSymbolicActionParameterInfo(entry, param_name, action, table) ==
  LET name == action.action_definition.name
      defined == action.action_definition.params_by_name
      implemented == action.parameter_to_bitwidth
  IN IF \/ name \notin ToSet(table.table_definition.entry_actions)
        \/ param_name \notin DOMAIN implemented \intersect DOMAIN defined THEN Err
     ELSE OkIf(defined[param_name].bitwidth \in {0, implemented[param_name]},
               [variable |-> VariableOf(entry) \o <<name, param_name>>, bitwidth |-> implemented[param_name]])

GetSymbolicActionParameter(entry, param_name, action, table, valuation) ==
  LET parameter == GetSymbolicActionParameterInfo(entry, param_name, action, table)
  IN IF parameter.ok THEN Ok(BitVector(valuation.params[parameter.value.variable], parameter.value.bitwidth))
     ELSE Err

-----------------------------------------------------------------------------
(* What is asserted of a match.                                            *)
AddMatchTypeConstraintsForSymbolicMatch(variables) ==
  LET width == variables.mask.width
      negated == BitNeg(variables.mask).value
      suffix == BitAnd(negated, Plus(negated, BitVector(1, width)).value).value
  IN CASE variables.match_type = "exact" -> variables.mask.value = AllOnes(width)
       [] variables.match_type = "lpm" -> suffix.value = 0
       [] variables.match_type = "optional" -> variables.mask.value \in {0, AllOnes(width)}
       [] variables.match_type = "ternary" -> TRUE

\* P4Runtime refuses an entry with bits outside of its mask.
AddCanonicityConstraintForSymbolicMatch(variables) ==
  BitAnd(variables.value, variables.mask).value.value = variables.value.value

\* What the sketch says of a match: the variables it gives and their values.
ConcreteParts(variables, match) ==
  LET Parts(variable, values) ==
        [j \in 1..Cardinality(values) |-> [variable |-> variable, value |-> InOrder(values)[j]]]
  IN CASE "exact" \in DOMAIN match -> Parts(variables.value, {match.exact})
       [] "lpm" \in DOMAIN match -> Parts(variables.value, match.lpm.value)
       [] "ternary" \in DOMAIN match ->
            Parts(variables.value, match.ternary.value) \o Parts(variables.mask, match.ternary.mask)
       [] "optional" \in DOMAIN match -> Parts(variables.value, match.optional)
       [] OTHER -> <<>>

GetZ3Value(value, match_name, table, translator) ==
  LET field == GetFieldNameFromMatch(match_name, table)
      definition == GetMatchDefinition(match_name, table).value
  IN IF field.ok
     THEN FormatP4RTValue(value, {field.value}, definition.type_name, definition.bitwidth, translator)
     ELSE Err

\* The mask is made of a vector of ones and one of zeroes, and there is no
\* vector without bits.
PrefixMaskConstraint(variables, prefix_length) ==
  LET width == variables.mask.width
  IN IF prefix_length < 0 THEN Ok(TRUE)
     ELSE OkIf(prefix_length \in 1..(width - 1),
               variables.mask.value = AllOnes(prefix_length) * 2^(width - prefix_length))

\* `acc` is what is asserted so far and the translator.
AddConstraintsForConcretePartsOfSymbolicMatch(variables, match, table, acc) ==
  LET Part(result, part) ==
        IF ~result.ok THEN Err
        ELSE LET formatted == GetZ3Value(part.value, match.name, table, result.value.translator)
                 equal == Eq(part.variable, formatted.value.expr)
             IN IF ~formatted.ok THEN Err
                ELSE IF ~equal.ok THEN Err
                ELSE Ok([holds |-> result.value.holds /\ equal.value.value,
                         translator |-> formatted.value.translator])
      parts == FoldLeft(Part, Ok(acc), ConcreteParts(variables, match))
      mask == IF "lpm" \in DOMAIN match THEN PrefixMaskConstraint(variables, match.lpm.prefix_length) ELSE Ok(TRUE)
  IN IF ~parts.ok \/ ~mask.ok THEN Err
     ELSE Ok([parts.value EXCEPT !.holds = @ /\ mask.value])

InitializeSymbolicMatches(entry, table, program, valuation, acc) ==
  LET Match(result, match) ==
        IF ~result.ok \/ match.name = "" THEN Err
        ELSE LET variables == GetSymbolicMatch(entry, match.name, table, program, valuation)
             IN IF ~variables.ok THEN Err
                ELSE AddConstraintsForConcretePartsOfSymbolicMatch(
                       variables.value, match, table,
                       [result.value EXCEPT
                          !.holds = /\ @
                                    /\ AddMatchTypeConstraintsForSymbolicMatch(variables.value)
                                    /\ AddCanonicityConstraintForSymbolicMatch(variables.value)])
  IN FoldLeft(Match, Ok(acc), entry.symbolic_entry.matches)

-----------------------------------------------------------------------------
(* What is asserted of the action.                                         *)
AddSingleActionChoiceConstraintForSymbolicAction(entry, valuation) ==
  Cardinality(valuation.chosen[VariableOf(entry)]) = 1

\* An invocation without a name leaves the action open; an action without
\* parameters cannot be named.
AddConstraintsForConcretePartsOfSymbolicAction(entry, invocation, table, program, valuation, acc) ==
  LET action == program.actions[invocation.name]
      definitions == action.action_definition.params_by_name
      Param(result, param) ==
        IF ~result.ok \/ param.name \notin DOMAIN definitions THEN Err
        ELSE LET definition == definitions[param.name]
                 formatted == FormatP4RTValue(param.value, {}, definition.type_name, definition.bitwidth,
                                              result.value.translator)
                 variable == GetSymbolicActionParameter(entry, param.name, action, table, valuation)
                 equal == Eq(variable.value, formatted.value.expr)
             IN IF ~formatted.ok THEN Err
                ELSE IF ~equal.ok THEN Err
                ELSE Ok([holds |-> result.value.holds /\ equal.value.value,
                         translator |-> formatted.value.translator])
  IN IF invocation.name = "" THEN OkIf(invocation.params = <<>>, acc)
     ELSE IF invocation.name \notin ToSet(table.table_definition.entry_actions) THEN Err
     ELSE IF DOMAIN definitions = {} THEN Err
     ELSE FoldLeft(Param, Ok([acc EXCEPT !.holds = @ /\ valuation.chosen[VariableOf(entry)] = {invocation.name}]),
                   invocation.params)

InitializeSymbolicActions(entry, table, program, valuation, acc) ==
  LET names == ToSet(table.table_definition.entry_actions)
      known == /\ names \subseteq DOMAIN program.actions
               /\ \A a \in names : \A p \in DOMAIN program.actions[a].action_definition.params_by_name :
                    GetSymbolicActionParameterInfo(entry, p, program.actions[a], table).ok
      chosen == [acc EXCEPT !.holds = @ /\ AddSingleActionChoiceConstraintForSymbolicAction(entry, valuation)]
      sketch == entry.symbolic_entry
  IN IF ~known \/ "action_set" \in DOMAIN sketch THEN Err
     ELSE IF "action" \notin DOMAIN sketch THEN Ok(chosen)
     ELSE AddConstraintsForConcretePartsOfSymbolicAction(entry, sketch.action, table, program, valuation, chosen)

-----------------------------------------------------------------------------
(* The entry of a model.                                                   *)
EvalZ3BitvectorToPrefixLength(mask) ==
  LET suffix == AllOnes(mask.width) - mask.value
      lengths == {n \in 0..mask.width : suffix = AllOnes(n)}
  IN IF lengths = {} THEN Err ELSE Ok(mask.width - CHOOSE n \in lengths : TRUE)

\* The match, and whether it is a wildcard, which is left out.
ExtractMatch(entry, match_name, table, program, valuation, translator) ==
  LET variables == GetSymbolicMatch(entry, match_name, table, program, valuation)
      field == GetFieldNameFromMatch(match_name, table)
      definition == GetMatchDefinition(match_name, table)
      mask == variables.value.mask
      Value(expr) == TranslateZ3ValueStringToIrValue(expr.value, field.value, definition.value, translator)
      value == Value(variables.value.value)
      type == variables.value.match_type
      prefix == EvalZ3BitvectorToPrefixLength(mask)
  IN IF ~variables.ok THEN Err
     ELSE IF ~value.ok THEN Err
     ELSE CASE type = "exact" -> Ok([wildcard |-> FALSE, match |-> [name |-> match_name, exact |-> value.value]])
            [] type = "ternary" ->
                 IF ~Value(mask).ok THEN Err
                 ELSE Ok([wildcard |-> mask.value = 0,
                          match |-> [name |-> match_name,
                                     ternary |-> [value |-> value.value, mask |-> Value(mask).value]]])
            [] ~prefix.ok -> Err
            [] type = "lpm" ->
                 Ok([wildcard |-> prefix.value = 0,
                     match |-> [name |-> match_name,
                                lpm |-> [value |-> value.value, prefix_length |-> prefix.value]]])
            [] type = "optional" ->
                 OkIf(prefix.value \in {0, mask.width},
                      [wildcard |-> prefix.value = 0,
                       match |-> [name |-> match_name, optional |-> value.value]])

ExtractInvocation(entry, action_name, table, program, valuation, translator) ==
  LET action == program.actions[action_name]
      definitions == action.action_definition.params_by_name
      names == InOrder(DOMAIN definitions)
      Param(p) ==
        LET variable == GetSymbolicActionParameter(entry, p, action, table, valuation)
            value == TranslateZ3ValueStringToIrValue(variable.value.value, <<>>, definitions[p], translator)
        IN IF ~variable.ok THEN Err
           ELSE IF value.ok THEN Ok([name |-> p, value |-> value.value]) ELSE Err
      params == AllOk([j \in DOMAIN names |-> Param(names[j])])
  IN IF action_name \notin DOMAIN program.actions THEN Err
     ELSE IF params.ok THEN Ok([name |-> action_name, params |-> params.value]) ELSE Err

\* Everything else is as in the sketch.
ExtractConcreteEntryFromModel(entry, valuation, program, translator) ==
  LET table == GetIrTable(program, GetTableName(entry))
      sketch == entry.symbolic_entry
      matches == AllOk([j \in DOMAIN sketch.matches |->
                          ExtractMatch(entry, sketch.matches[j].name, table.value, program, valuation, translator)])
      kept == SelectSeq(matches.value, LAMBDA m : ~m.wildcard)
      chosen == SelectSeq(table.value.table_definition.entry_actions,
                          LAMBDA a : GetSymbolicActionInvocation(entry, a, table.value, valuation).value)
      action == ExtractInvocation(entry, chosen[1], table.value, program, valuation, translator)
      concrete == [table_name |-> sketch.table_name, priority |-> sketch.priority,
                   matches |-> [j \in DOMAIN kept |-> kept[j].match]]
  IN IF ~table.ok THEN Err
     ELSE IF ~matches.ok \/ table.value.table_definition.has_action_profile_id \/ Len(chosen) > 1 THEN Err
     ELSE IF chosen = <<>> THEN Ok([index |-> entry.index, concrete_entry |-> [table_entry |-> concrete]])
     ELSE IF ~action.ok THEN Err
     ELSE Ok([index |-> entry.index,
              concrete_entry |-> [table_entry |-> ("action" :> action.value) @@ concrete]])
=============================================================================

-------------------------- MODULE PacketSynthesizer --------------------------
(***************************************************************************)
(* The packet synthesizer of P4-Symbolic (p4_symbolic/packet_synthesizer): *)
(* test packets for criteria that a coverage goal asks for.  The solver is *)
(* a stack of frames, one for each kind of criterion, and only the frames  *)
(* above the first criterion that changed are replaced from one call to    *)
(* the next; a frame is the set of the models that satisfy what it and the *)
(* frames below it assert.                                                 *)
(*                                                                         *)
(* Criteria are records with the fields that are set.                      *)
(***************************************************************************)
EXTENDS SymbolicExecution

(* Criteria.                                                               *)
CriteriaCases ==
  {"output_criteria", "input_packet_header_criteria", "table_reachability_criteria",
   "table_entry_reachability_criteria", "payload_criteria", "ingress_port_criteria"}

NoCriteria == [c \in {} |-> {}]

\* The variant of a case is a set: of the criterion, or of none.
GetCriteriaVariant(criteria, case) == IF case \in DOMAIN criteria THEN {criteria[case]} ELSE {}

HaveEqualCriteriaVariants(lhs, rhs, case) == GetCriteriaVariant(lhs, case) = GetCriteriaVariant(rhs, case)

\* Two criteria of one kind are compatible when they are the same; only those
\* on headers are joined.
MergedVariant(lhs, rhs, case) ==
  LET l == GetCriteriaVariant(lhs, case)
      r == GetCriteriaVariant(rhs, case)
  IN CASE l = {} -> Ok(r)
       [] r = {} \/ l = r -> Ok(l)
       [] case = "input_packet_header_criteria" -> Ok({lhs[case] \o rhs[case]})
       [] OTHER -> Err

\* What is covered is listed with the criteria.
MetadataOf(criteria) == IF "metadata" \in DOMAIN criteria THEN criteria.metadata ELSE <<>>

\* A variant that is not set leaves the criteria without it.
SetCriteriaVariant(criteria, variant, case) ==
  [c \in (DOMAIN criteria \ {case}) \union {x \in {case} : variant # {}} |->
     IF c = case THEN CHOOSE v \in variant : TRUE ELSE criteria[c]]

MakeConjunction(lhs, rhs) ==
  LET merged == [c \in CriteriaCases |-> MergedVariant(lhs, rhs, c)]
      covered == IF {"metadata"} \intersect (DOMAIN lhs \union DOMAIN rhs) = {} THEN NoCriteria
                 ELSE "metadata" :> MetadataOf(lhs) \o MetadataOf(rhs)
  IN IF \A c \in CriteriaCases : merged[c].ok
     THEN Ok(FoldSet(LAMBDA c, criteria : SetCriteriaVariant(criteria, merged[c].value, c), covered, CriteriaCases))
     ELSE Err

MakeCartesianProductConjunction(lhs, rhs) ==
  AllOk(FlattenSeq([i \in DOMAIN lhs |-> [j \in DOMAIN rhs |-> MakeConjunction(lhs[i], rhs[j])]]))

-----------------------------------------------------------------------------
(* The criteria of a coverage goal.  A goal is a record with the one field *)
(* that is set; the names of tables and headers are in the order of a set, *)
(* which is that of the names.                                             *)
MatchesPatterns(target, patterns) == "*" \in patterns \/ target \in patterns

GoalEntries(goal, state, table) ==
  LET entries == IF table \in DOMAIN state.table_entries THEN state.table_entries[table] ELSE <<>>
      ForIndex(i) == [table_reachability_criteria |-> table,
                      table_entry_reachability_criteria |-> [table_name |-> table, match_index |-> i]]
      hits == [j \in DOMAIN entries |-> ("metadata" :> <<entries[j]>>) @@ ForIndex(j - 1)]
  IN IF goal.cover_default_actions /\ ~(goal.exclude_empty_tables /\ entries = <<>>)
     THEN Append(hits, ForIndex(kDefaultActionEntryIndex)) ELSE hits

EntryCoverageCriteria(goal, state) ==
  LET target_tables == InOrder({t \in DOMAIN state.program.tables :
                                   /\ state.program.tables[t].table_definition.id # 0     \* not BMv2's own
                                   /\ MatchesPatterns(t, goal.tables)
                                   /\ ~MatchesPatterns(t, goal.table_exclusions)})
  IN FlattenSeq([j \in DOMAIN target_tables |-> GoalEntries(goal, state, target_tables[j])])

PacketFateCriteria(goal) ==
  [j \in DOMAIN goal.fates |->
     CASE goal.fates[j] = "UNSPECIFIED" -> NoCriteria
       [] goal.fates[j] = "DROP" -> [output_criteria |-> TRUE]
       [] goal.fates[j] = "NOT_DROP" -> [output_criteria |-> FALSE]]

MakeHeaderValidityCriterion(header, valid) ==
  [name |-> <<header, kValidPseudoField>>, match |-> [exact |-> IF valid THEN 1 ELSE 0], negated |-> FALSE]

HeaderCoverageCriteria(goal, state) ==
  LET headers == {h \in DOMAIN state.program.headers : h \notin {"standard_metadata", "scalars"}}
      targets == {h \in headers : MatchesPatterns(h, goal.headers) /\ ~MatchesPatterns(h, goal.header_exclusions)}
      prevented == {h \in headers : MatchesPatterns(h, goal.headers_to_prevent_unless_explicitly_covered)}
      \* No name stands for no header.
      all == InOrder(targets \union (IF goal.include_wildcard_header THEN {""} ELSE {}))
      Criteria(h) ==
        LET others == InOrder(prevented \ {h})
            field_criteria ==
              (IF h = "" THEN <<>> ELSE <<MakeHeaderValidityCriterion(h, TRUE)>>)
                \o [j \in DOMAIN others |-> MakeHeaderValidityCriterion(others[j], FALSE)]
        IN IF field_criteria = <<>> THEN NoCriteria ELSE [input_packet_header_criteria |-> field_criteria]
  IN [j \in DOMAIN all |-> Criteria(all[j])]

GoalCriteria(goal, state) ==
  CASE "entry_coverage" \in DOMAIN goal -> Ok(EntryCoverageCriteria(goal.entry_coverage, state))
    [] "packet_fate_coverage" \in DOMAIN goal -> Ok(PacketFateCriteria(goal.packet_fate_coverage))
    [] "header_coverage" \in DOMAIN goal -> Ok(HeaderCoverageCriteria(goal.header_coverage, state))
    [] "custom_criteria_coverage" \in DOMAIN goal -> Ok(goal.custom_criteria_coverage)
    [] OTHER -> Err

\* A goal that is missing asks for nothing in particular.
CartesianProductCriteria(goal, state) ==
  LET Of(kind) == IF kind \in DOMAIN goal THEN GoalCriteria(kind :> goal[kind], state).value ELSE <<NoCriteria>>
      fate_entry == MakeCartesianProductConjunction(Of("packet_fate_coverage"), Of("entry_coverage"))
      header_fate_entry == MakeCartesianProductConjunction(Of("header_coverage"), fate_entry.value)
  IN IF ~fate_entry.ok THEN Err ELSE IF ~header_fate_entry.ok THEN Err
     ELSE MakeCartesianProductConjunction(header_fate_entry.value, Of("custom_criteria_coverage"))

GenerateSynthesisCriteriaFor(goals, state) ==
  LET lists == AllOk([j \in DOMAIN goals |->
                        IF "cartesian_product_coverage" \in DOMAIN goals[j]
                        THEN CartesianProductCriteria(goals[j].cartesian_product_coverage, state)
                        ELSE GoalCriteria(goals[j], state)])
  IN IF lists.ok THEN Ok(FlattenSeq(lists.value)) ELSE Err

-----------------------------------------------------------------------------
(* What a criterion asserts of a model.                                    *)
GetFieldMatchConstraints(field, bitwidth, match) ==
  CASE "exact" \in DOMAIN match -> Eq(field, BitVector(match.exact, bitwidth))
    [] "lpm" \in DOMAIN match -> PrefixEq(field, BitVector(match.lpm.value, bitwidth), match.lpm.prefix_length)
    [] "ternary" \in DOMAIN match ->
         LET masked == BitAnd(field, BitVector(match.ternary.mask, bitwidth))
         IN IF masked.ok THEN Eq(masked.value, BitVector(match.ternary.value, bitwidth)) ELSE Err
    [] OTHER -> Err                                          \* no optional matches

\* The bit-width is that of the program's field; a field no header has is refused.
FieldCriterion(criterion, state, model) ==
  LET width == GetFieldBitwidth(criterion.name, state.program)
  IN IF criterion.name \notin DOMAIN model.ingress_headers \/ ~width.ok THEN Err
     ELSE GetFieldMatchConstraints(model.ingress_headers[criterion.name], width.value, criterion.match)

\* The models of a frame once the criteria of its case are added.  A table that
\* no trace has, and a field that no header has, cannot be looked up.
AddConstraintsForInputPacketHeader(criteria, state, models) ==
  IF \E m \in models : \E j \in DOMAIN criteria : ~FieldCriterion(criteria[j], state, m).ok THEN Err
  ELSE Ok({m \in models : \A j \in DOMAIN criteria :
             criteria[j].negated # FieldCriterion(criteria[j], state, m).value.value})

AddConstraintsForIngressPort(port, models) == Ok({m \in models : m.ingress_port.value = port})

AddOutputConstraints(drop_expected, models) == Ok({m \in models : m.trace.dropped = drop_expected})

AddTableConstraints(table, models) ==
  IF \E m \in models : table \notin DOMAIN m.trace.matched_entries THEN Err
  ELSE Ok({m \in models : m.trace.matched_entries[table].matched})

AddTableEntryConstraints(criteria, models) ==
  IF \E m \in models : criteria.table_name \notin DOMAIN m.trace.matched_entries THEN Err
  ELSE Ok({m \in models : m.trace.matched_entries[criteria.table_name].entry_index = criteria.match_index})

-----------------------------------------------------------------------------
(* The stack.  A synthesizer is its solver (the models of the program, and *)
(* those of each frame from the bottom up) and the criteria that the       *)
(* frames are to encode.                                                   *)
kSolverFrameStackOrder ==
  <<"output_criteria", "input_packet_header_criteria", "table_reachability_criteria",
    "table_entry_reachability_criteria", "ingress_port_criteria">>

FrameCount == Len(kSolverFrameStackOrder)

CreateSynthesizer(state) ==
  [state |-> state, base |-> state.models, frames |-> [j \in 1..FrameCount |-> state.models],
   current_criteria |-> NoCriteria]

TopModels(synthesizer) == IF synthesizer.frames = <<>> THEN synthesizer.base ELSE Last(synthesizer.frames)

PushSolverFrame(synthesizer) ==
  IF Len(synthesizer.frames) >= FrameCount THEN Err
  ELSE Ok([synthesizer EXCEPT !.frames = Append(@, TopModels(synthesizer))])

\* Frames are popped one at a time until there are none left.
PopSolverFrames(synthesizer, n) ==
  LET left == Len(synthesizer.frames) - n
  IN [ok |-> left >= 0,
      synthesizer |-> [synthesizer EXCEPT !.frames = SubSeq(@, 1, IF left >= 0 THEN left ELSE 0)]]

\* The entry of a table is asked for when the table is.
NoEntry == [table_name |-> "", match_index |-> 0]

ConstraintsOf(case, criteria, state, models) ==
  CASE case = "output_criteria" /\ case \in DOMAIN criteria -> AddOutputConstraints(criteria[case], models)
    [] case = "input_packet_header_criteria" /\ case \in DOMAIN criteria ->
         AddConstraintsForInputPacketHeader(criteria[case], state, models)
    [] case = "table_reachability_criteria" /\ case \in DOMAIN criteria -> AddTableConstraints(criteria[case], models)
    [] case = "table_entry_reachability_criteria" /\ "table_reachability_criteria" \in DOMAIN criteria ->
         AddTableEntryConstraints(IF case \in DOMAIN criteria THEN criteria[case] ELSE NoEntry, models)
    [] case = "ingress_port_criteria" /\ case \in DOMAIN criteria ->
         AddConstraintsForIngressPort(criteria[case], models)
    [] OTHER -> Ok(models)

\* The frame stays when its constraints cannot be added.
AddFrameForCriteria(synthesizer, case, criteria) ==
  LET pushed == PushSolverFrame(synthesizer)
  IN IF ~pushed.ok THEN [ok |-> FALSE, synthesizer |-> synthesizer]
     ELSE LET models == ConstraintsOf(case, criteria, synthesizer.state, TopModels(pushed.value))
          IN [ok |-> models.ok,
              synthesizer |-> IF ~models.ok THEN pushed.value
                              ELSE [pushed.value EXCEPT !.frames[Len(pushed.value.frames)] = models.value]]

RECURSIVE PushFrames(_, _)
PushFrames(synthesizer, criteria) ==
  IF Len(synthesizer.frames) >= FrameCount THEN [ok |-> TRUE, synthesizer |-> synthesizer]
  ELSE LET added == AddFrameForCriteria(synthesizer, kSolverFrameStackOrder[Len(synthesizer.frames) + 1], criteria)
       IN IF added.ok THEN PushFrames(added.synthesizer, criteria) ELSE added

\* A mutation: the frame of the criterion that changed is kept.
KeepChangedFrame(synthesizer, criteria) ==
  LET changed == {j \in 1..FrameCount :
                    ~HaveEqualCriteriaVariants(criteria, synthesizer.current_criteria, kSolverFrameStackOrder[j])}
      popped == PopSolverFrames(synthesizer, FrameCount - (IF changed = {} THEN FrameCount ELSE Min(changed)))
      pushed == PushFrames(popped.synthesizer, criteria)
  IN IF pushed.ok THEN [pushed EXCEPT !.synthesizer.current_criteria = criteria] ELSE pushed

\* Only what lies above the first criterion that changed is replaced, and the
\* criteria are remembered once all of the frames are there.
PrepareZ3SolverStack(synthesizer, criteria) ==
  LET changed == {j \in 1..FrameCount :
                    ~HaveEqualCriteriaVariants(criteria, synthesizer.current_criteria, kSolverFrameStackOrder[j])}
      pop_index == IF changed = {} THEN FrameCount ELSE Min(changed) - 1
      popped == PopSolverFrames(synthesizer, FrameCount - pop_index)
  IN IF ~popped.ok THEN popped
     ELSE LET pushed == PushFrames(popped.synthesizer, criteria)
          IN IF pushed.ok THEN [pushed EXCEPT !.synthesizer.current_criteria = criteria] ELSE pushed

-----------------------------------------------------------------------------
(* The packet of a model.                                                  *)

\* p4c mangles the names of the user's metadata: a prefix, and a number after.
MangledNames(name) ==
  {<<"scalars", prefix \o name \o digit>> : prefix \in {"userMetadata._", "local_metadata_t._"},
                                           digit \in {"0", "1", "2", "3", "4", "5", "6", "7", "8", "9"}}

GetUserMetadataFieldName(name, headers) ==
  LET candidates == MangledNames(name) \intersect DOMAIN headers
  IN IF Cardinality(candidates) = 1 THEN Ok(CHOOSE c \in candidates : TRUE) ELSE Err

\* The port as the controller names it; "" when its field turned out not to be translated.
GetLocalMetadataIngressPortFromModel(state, headers) ==
  LET field == GetUserMetadataFieldName("ingress_port", headers)
  IN IF ~field.ok THEN Err
     ELSE LET port == TranslateZ3ValueStringToP4RT(headers[field.value].value, field.value, "", state.translator)
          IN IF ~port.ok THEN Err ELSE Ok(IF port.value.translated THEN port.value.text ELSE "")

\* Programs of old mark mirrored packets under another name.
Mirrored(headers) ==
  LET valid == GetUserMetadataFieldName("mirror_session_id_valid", headers)
      marked == GetUserMetadataFieldName("marked_to_mirror", headers)
  IN CASE valid.ok -> Ok(headers[valid.value].value = 1)
       [] marked.ok -> Ok(headers[marked.value].value = 1)
       [] OTHER -> Err

\* A mirrored packet is neither dropped nor punted.
PredictPacket(packet, port, dropped, got_cloned, mirrored) ==
  [packet |-> packet, ingress_port |-> port, drop_expected |-> dropped /\ ~mirrored,
   punt_expected |-> got_cloned /\ ~mirrored, mirror_expected |-> mirrored]

SynthesizePacketFromZ3Model(state, model, payload, should_be_dropped) ==
  LET packet == DeparsePacket(model.ingress_headers, state.program)
      mirrored == Mirrored(model.egress_headers)
      port == GetLocalMetadataIngressPortFromModel(state, model.parsed_headers)
  IN IF ~packet.ok \/ ~(should_be_dropped \subseteq {model.trace.dropped}) THEN Err
     ELSE IF ~mirrored.ok \/ ~port.ok THEN Err
     ELSE Ok(PredictPacket(packet.value \o payload, port.value, model.trace.dropped,
                           model.trace.got_cloned, mirrored.value))

\* A call leaves the synthesizer in a new state, whether it succeeds or not; its
\* results are an error, no packet, or the packet of any model there is.
SynthesizePacket(synthesizer, criteria) ==
  LET prepared == PrepareZ3SolverStack(synthesizer, criteria)
      after == prepared.synthesizer
      payload == IF "payload_criteria" \in DOMAIN criteria THEN criteria.payload_criteria ELSE <<>>
  IN [synthesizer |-> after,
      ok |-> prepared.ok,
      models |-> IF prepared.ok THEN TopModels(after) ELSE {},
      results |-> IF ~prepared.ok THEN {Err}
                  ELSE {SynthesizePacketFromZ3Model(after.state, m, payload, GetCriteriaVariant(criteria, "output_criteria"))
                          : m \in TopModels(after)}]

-----------------------------------------------------------------------------
(* Packets for all paths: the program is executed depth first, one path    *)
(* after the other, and a path that no packet can take is left.            *)
(*                                                                         *)
(* A world is one valuation on the path: the headers it has got there, and *)
(* whether it satisfies what was asserted on the way.  `acc` is the        *)
(* translator and the results so far, each the set of the packets that the *)
(* solver may pick for a path.                                             *)
AnyOf(results) == (CHOOSE r \in results : TRUE).value
Check(worlds) == \E w \in worlds : w.live
StateOf(s, world) == [program |-> s.program, table_entries |-> s.table_entries, valuation |-> world.valuation]
PacketOf(world, acc) == [headers |-> world.headers, translator |-> acc.translator]

\* The packet of the final headers; it is dropped if the path says so.
SynthesizePacketOnPath(s, world, acc, dropped) ==
  LET packet == DeparsePacket(world.headers, s.program)
      mirrored == Mirrored(world.headers)
      port == GetLocalMetadataIngressPortFromModel([translator |-> acc.translator], world.headers)
  IN IF ~packet.ok \/ ~mirrored.ok \/ ~port.ok THEN Err
     ELSE Ok(PredictPacket(packet.value, port.value, dropped, FALSE, mirrored.value))

AddResult(s, worlds, acc, dropped) ==
  LET constrained == {w \in worlds : w.live /\ AddConstraintsForStaticallyTranslatedValues(
                                                  StateOf(s, w), acc.translator, w.headers)}
      packets == {SynthesizePacketOnPath(s, w, acc, dropped) : w \in constrained}
  IN IF constrained = {} THEN Ok(acc)
     ELSE IF \E p \in packets : ~p.ok THEN Err
     ELSE Ok([acc EXCEPT !.results = Append(@, {p.value : p \in packets})])

RECURSIVE EvaluateControlDfs(_, _, _, _, _)

EvaluatePipelineDfs(pipeline_name, s, worlds, acc) ==
  IF pipeline_name \notin DOMAIN s.program.pipeline THEN Err
  ELSE EvaluateControlDfs(s.program.pipeline[pipeline_name], s, worlds, pipeline_name, acc)

\* Where a packet may be dropped at ingress, the path ends there.
EndOfPipelineDfs(s, worlds, pipeline_name, acc) ==
  LET dropped == {[w EXCEPT !.live = @ /\ IsDropped(w.headers).value.value] : w \in worlds}
  IN IF pipeline_name # "ingress" THEN AddResult(s, worlds, acc, FALSE)
     ELSE IF Check(dropped) THEN AddResult(s, dropped, acc, TRUE)
     ELSE EvaluatePipelineDfs("egress", s, worlds, acc)

\* The action of an entry in every world, and the control where the branches
\* of the table meet.
EvaluateRowDfs(table, entry, s, worlds, pipeline_name, acc) ==
  LET after == [w \in worlds |-> EvaluateTableEntryAction(table, entry, StateOf(s, w), PacketOf(w, acc), TRUE)]
      results == {after[w] : w \in worlds}
  IN IF ~Check(worlds) THEN Ok(acc)
     ELSE IF \E r \in results : ~r.ok THEN Err
     ELSE EvaluateControlDfs(table.merge_point, s, {[w EXCEPT !.headers = after[w].value.headers] : w \in worlds},
                             pipeline_name, [acc EXCEPT !.translator = AnyOf(results).translator])

\* Each entry where it is the first that matches, and the default action.
EvaluateTableDfs(table, s, worlds, pipeline_name, acc) ==
  LET entries == EntriesOf(table, s)
      conditions == [w \in worlds |-> EvaluateConditions(table, entries, StateOf(s, w), PacketOf(w, acc))]
      Holds(w, j) == conditions[w].value.holds[j]
      Reaching(j) == {[w EXCEPT !.live = @ /\ (j \in DOMAIN entries => Holds(w, j))
                                           /\ \A k \in 1..(j - 1) : ~Holds(w, k)] : w \in worlds}
      rows == Append(entries, DefaultEntry(table))
      Row(result, j) ==
        IF result.ok THEN EvaluateRowDfs(table, rows[j], s, Reaching(j), pipeline_name, result.value) ELSE Err
  IN IF \E w \in worlds : ~conditions[w].ok THEN Err
     ELSE FoldLeft(Row, Ok([acc EXCEPT !.translator = AnyOf({conditions[w] : w \in worlds}).translator]),
                   [j \in DOMAIN rows |-> j])

EvaluateConditionalDfs(conditional, s, worlds, pipeline_name, acc) ==
  LET condition == [w \in worlds |-> EvaluateRValue(conditional.condition,
                                                     [headers |-> w.headers, scope |-> EmptyScope])]
      Taking(b) == {[w EXCEPT !.live = @ /\ condition[w].value.value = b] : w \in worlds}
      Branch(result, b) ==
        CASE ~result.ok -> Err
          [] ~Check(Taking(b)) -> result
          [] OTHER -> EvaluateControlDfs(IF b THEN conditional.if_branch ELSE conditional.else_branch, s, Taking(b),
                                         pipeline_name, result.value)
  IN IF \E w \in worlds : ~condition[w].ok THEN Err
     ELSE IF \E w \in worlds : condition[w].value.kind # "bool" THEN Err
     ELSE FoldLeft(Branch, Ok(acc), <<TRUE, FALSE>>)

EvaluateControlDfs(control_name, s, worlds, pipeline_name, acc) ==
  CASE control_name = EndOfPipeline -> EndOfPipelineDfs(s, worlds, pipeline_name, acc)
    [] control_name \in DOMAIN s.program.tables ->
         EvaluateTableDfs(s.program.tables[control_name], s, worlds, pipeline_name, acc)
    [] control_name \in DOMAIN s.program.conditionals ->
         EvaluateConditionalDfs(s.program.conditionals[control_name], s, worlds, pipeline_name, acc)
    [] OTHER -> Err

\* The states share one copy of the headers: what a transition led to, the
\* next one finds done.  A transition does not ask that those before it fail.
RECURSIVE EvaluateParseStateDfs(_, _, _, _)
EvaluateParseStateDfs(state_name, s, worlds, acc) ==
  IF state_name = EndOfParser
  THEN LET result == EvaluatePipelineDfs("ingress", s, worlds, acc)
       IN IF result.ok THEN Ok([worlds |-> worlds, acc |-> result.value]) ELSE Err
  ELSE IF state_name \notin DOMAIN s.program.parser.parse_states THEN Err
  ELSE
  LET parse_state == s.program.parser.parse_states[state_name]
      ops == [w \in worlds |-> EvaluateParserOperations(parse_state, w.headers, s.program, TRUE)]
      after == {[w EXCEPT !.headers = ops[w].value] : w \in worlds}
      Conditions(w) == ConstructMatchConditions(parse_state, w.headers)
      \* The conditions are those of the headers as they were after the operations.
      tagged == {[world |-> w, path |-> Conditions(w).value] : w \in after}
      PathOf(w) == (CHOOSE t \in tagged : t.world.valuation = w.valuation).path
      Live(w) == (CHOOSE t \in tagged : t.world.valuation = w.valuation).world.live
      Transition(result, j) ==
        LET current == result.value.worlds
            taking == {[w EXCEPT !.live = Live(w) /\ PathOf(w)[j]] : w \in current}
        IN IF ~result.ok THEN Err
           ELSE IF ~Check(taking) THEN result
           ELSE EvaluateParseStateDfs(parse_state.transitions[j].next_state, s, taking, result.value.acc)
      all == FoldLeft(Transition, Ok([worlds |-> after, acc |-> acc]), [j \in DOMAIN parse_state.transitions |-> j])
  IN IF \E w \in worlds : ~ops[w].ok THEN Err
     ELSE IF \E w \in after : ~Conditions(w).ok THEN Err
     ELSE IF ~all.ok THEN Err
     ELSE Ok([all.value EXCEPT !.worlds = {[w EXCEPT !.live = Live(w)] : w \in @}])

EvaluateParsersDfs(s, worlds, acc) == EvaluateParseStateDfs(s.program.parser.initial_state, s, worlds, acc)

EvaluateV1modelAndSynthesizePackets(s, worlds, translator, physical_ports) ==
  LET headers == [w \in worlds |-> InitializeIngressHeaders(s.program, FreeSymbolicHeaders(s.program, w.valuation))]
      initial == {[w EXCEPT !.headers = headers[w].value] : w \in worlds}
  IN IF ~CheckPhysicalPortsConformanceToV1Model(physical_ports) \/ \E w \in worlds : ~headers[w].ok THEN Err
     ELSE EvaluateParsersDfs(s, initial, [translator |-> translator, results |-> <<>>])

\* What the sketches of the entries assert goes before everything else.
SynthesizePacketsCoveringAllControlFlowPaths(program, entries, physical_ports, translation_per_type, valuations) ==
  LET initialized == [v \in valuations |-> InitializeTableEntries(program, entries, v)]
      translator == AddTranslations(AnyOf({initialized[v] : v \in valuations}).translator, translation_per_type)
      worlds == {[valuation |-> v, headers |-> <<>>, live |-> initialized[v].value.holds] : v \in valuations}
      result == EvaluateV1modelAndSynthesizePackets([program |-> program, table_entries |-> entries], worlds,
                                                    translator, physical_ports)
  IN IF \E v \in valuations : ~initialized[v].ok THEN Err
     ELSE IF ~result.ok THEN Err
     ELSE Ok(result.value.acc.results)
=============================================================================

-------------------------- MODULE SequencingProofs --------------------------
(***************************************************************************)
(* Proofs about References and Sequencing, for any P4 program whose tables *)
(* refer to one another without a cycle, and any entities.                 *)
(***************************************************************************)
EXTENDS Sequencing, CollectionTheorems

-----------------------------------------------------------------------------
(* Table references.                                                       *)

\* A field reference g of the table reference r comes from a match field, a
\* parameter of an action, or an annotation on what the built-in table names.
FromMatch(r, g) ==
  /\ g.action = "" /\ g.source \in Fields(Info, r.source)
  /\ g.optional = FieldIsOptional(Info, r.source, g.source)
  /\ \E q \in Info.tables[r.source].fields[g.source].refers_to :
       q[1] = r.destination /\ q[2] = g.destination

FromAction(r, g) ==
  /\ g.action \in Info.tables[r.source].actions \cap DOMAIN Info.actions
  /\ g.source \in DOMAIN Info.actions[g.action]
  /\ \E q \in Info.actions[g.action][g.source] : q[1] = r.destination /\ q[2] = g.destination

FromBuiltIn(r, g) ==
  /\ r.source = MulticastTable /\ ~g.optional
  /\ \/ g.action = Replica
     \/ g.action = "" /\ g.source = "multicast_group_id"

\* What the annotations of the program name.
LEMMA AnnotationFacts ==
  /\ \A t \in DOMAIN Info.tables : \A f \in Fields(Info, t) :
       \A q \in Info.tables[t].fields[f].refers_to :
         q[2] \in Fields(Info, q[1]) /\ ~FieldIsOptional(Info, q[1], q[2])
  /\ \A a \in DOMAIN Info.actions : \A p \in DOMAIN Info.actions[a] : \A q \in Info.actions[a][p] :
       q[2] \in Fields(Info, q[1]) /\ ~FieldIsOptional(Info, q[1], q[2])
  /\ \A t \in DOMAIN Info.tables : \A f \in Fields(Info, t) :
       \A q \in Info.tables[t].fields[f].referenced_by :
         /\ ~FieldIsOptional(Info, t, f) /\ q[1] = MulticastTable
         /\ q[2] \in ReplicaParams \cup {"multicast_group_id"}
  <1>1. AnnotationsAreSupported(Info)
    BY ProgramAssumption DEF IsProgram
  <1>2. \A q \in RefersToAnnotationsOf(Info) :
          q[2] \in Fields(Info, q[1]) /\ ~FieldIsOptional(Info, q[1], q[2])
    BY <1>1 DEF AnnotationsAreSupported
  <1>3. \A t \in DOMAIN Info.tables : \A f \in Fields(Info, t) :
          \A q \in Info.tables[t].fields[f].refers_to : q \in RefersToAnnotationsOf(Info)
    BY DEF RefersToAnnotationsOf
  <1>4. \A a \in DOMAIN Info.actions : \A p \in DOMAIN Info.actions[a] :
          \A q \in Info.actions[a][p] : q \in RefersToAnnotationsOf(Info)
    BY DEF RefersToAnnotationsOf
  <1>5. \A t \in DOMAIN Info.tables : \A f \in Fields(Info, t) :
          /\ Info.tables[t].fields[f].referenced_by # {} => ~FieldIsOptional(Info, t, f)
          /\ \A q \in Info.tables[t].fields[f].referenced_by :
               q[1] = MulticastTable /\ q[2] \in ReplicaParams \cup {"multicast_group_id"}
    BY <1>1, Zenon DEF AnnotationsAreSupported
  <1> QED BY <1>2, <1>3, <1>4, <1>5

\* Where the field references of the program come from, and that what they
\* name is there and has a value in every entity.
LEMMA ReferenceFields ==
  ASSUME NEW r \in TableReferences
  PROVE  /\ r.source \in DOMAIN Info.tables /\ r.destination \in DOMAIN Info.tables
         /\ r.fields # {}
         /\ \A g \in r.fields :
              /\ FromMatch(r, g) \/ FromAction(r, g) \/ FromBuiltIn(r, g)
              /\ g.destination \in Fields(Info, r.destination)
              /\ ~FieldIsOptional(Info, r.destination, g.destination)
  <1> DEFINE F(src, dst) ==
               RefersToOfTable(Info, src, dst)
                 \cup (UNION {RefersToOfAction(Info, a, dst) :
                                a \in Info.tables[src].actions \cap DOMAIN Info.actions})
                 \cup ReferencedByOfTable(Info, src, dst)
  <1>1. PICK p \in (DOMAIN Info.tables) \X (DOMAIN Info.tables) :
          /\ F(p[1], p[2]) # {}
          /\ r = [source |-> p[1], destination |-> p[2], fields |-> F(p[1], p[2])]
    BY DEF TableReferences, ParseIrTableReferences
  <1>2. /\ r.source = p[1] /\ r.destination = p[2] /\ r.fields = F(r.source, r.destination)
        /\ r.source \in DOMAIN Info.tables /\ r.destination \in DOMAIN Info.tables
    BY <1>1
  <1> DEFINE s == r.source
             d == r.destination
  <1>4. ASSUME NEW g \in RefersToOfTable(Info, s, d)
        PROVE  FromMatch(r, g) /\ g.destination \in Fields(Info, d) /\ ~FieldIsOptional(Info, d, g.destination)
    <2>1. PICK f \in Fields(Info, s) : \E q \in Info.tables[s].fields[f].refers_to :
            q[1] = d /\ g = FieldReference("", f, q[2], FieldIsOptional(Info, s, f))
      BY DEF RefersToOfTable
    <2>2. PICK q \in Info.tables[s].fields[f].refers_to :
            q[1] = d /\ g = FieldReference("", f, q[2], FieldIsOptional(Info, s, f))
      BY <2>1
    <2>3. /\ g.action = "" /\ g.source = f /\ g.destination = q[2]
          /\ g.optional = FieldIsOptional(Info, s, f)
      BY <2>2 DEF FieldReference
    <2>4. q[2] \in Fields(Info, q[1]) /\ ~FieldIsOptional(Info, q[1], q[2])
      BY <1>2, <2>2, AnnotationFacts
    <2> QED BY <2>2, <2>3, <2>4 DEF FromMatch
  <1>5. ASSUME NEW a \in Info.tables[s].actions \cap DOMAIN Info.actions,
               NEW g \in RefersToOfAction(Info, a, d)
        PROVE  FromAction(r, g) /\ g.destination \in Fields(Info, d) /\ ~FieldIsOptional(Info, d, g.destination)
    <2>1. PICK f \in DOMAIN Info.actions[a] : \E q \in Info.actions[a][f] :
            q[1] = d /\ g = FieldReference(a, f, q[2], FALSE)
      BY DEF RefersToOfAction
    <2>2. PICK q \in Info.actions[a][f] : q[1] = d /\ g = FieldReference(a, f, q[2], FALSE)
      BY <2>1
    <2>3. g.action = a /\ g.source = f /\ g.destination = q[2]
      BY <2>2 DEF FieldReference
    <2>4. q[2] \in Fields(Info, q[1]) /\ ~FieldIsOptional(Info, q[1], q[2])
      BY <1>2, <2>2, AnnotationFacts
    <2> QED BY <2>2, <2>3, <2>4 DEF FromAction
  <1>6. ASSUME NEW g \in ReferencedByOfTable(Info, s, d)
        PROVE  FromBuiltIn(r, g) /\ g.destination \in Fields(Info, d) /\ ~FieldIsOptional(Info, d, g.destination)
    <2>1. PICK f \in Fields(Info, d) : \E q \in Info.tables[d].fields[f].referenced_by :
            q[1] = s /\ g = FieldReference(IF q[2] \in ReplicaParams THEN Replica ELSE "", q[2], f, FALSE)
      BY DEF ReferencedByOfTable
    <2>2. PICK q \in Info.tables[d].fields[f].referenced_by :
            q[1] = s /\ g = FieldReference(IF q[2] \in ReplicaParams THEN Replica ELSE "", q[2], f, FALSE)
      BY <2>1
    <2>3. /\ g.action = (IF q[2] \in ReplicaParams THEN Replica ELSE "")
          /\ g.source = q[2] /\ g.destination = f /\ g.optional = FALSE
      BY <2>2 DEF FieldReference
    <2>4. /\ ~FieldIsOptional(Info, d, f) /\ q[1] = MulticastTable
          /\ q[2] \in ReplicaParams \cup {"multicast_group_id"}
      BY <1>2, <2>2, AnnotationFacts
    <2> QED BY <2>2, <2>3, <2>4 DEF FromBuiltIn
  <1>7. \A g \in r.fields : \/ g \in RefersToOfTable(Info, s, d)
                            \/ \E a \in Info.tables[s].actions \cap DOMAIN Info.actions :
                                 g \in RefersToOfAction(Info, a, d)
                            \/ g \in ReferencedByOfTable(Info, s, d)
    <2> DEFINE Acts == {RefersToOfAction(Info, a, d) :
                          a \in Info.tables[s].actions \cap DOMAIN Info.actions}
    <2>1. r.fields = RefersToOfTable(Info, s, d) \cup (UNION Acts) \cup ReferencedByOfTable(Info, s, d)
      BY <1>2
    <2>2. \A X \in Acts : \E a \in Info.tables[s].actions \cap DOMAIN Info.actions :
                             X = RefersToOfAction(Info, a, d)
      OBVIOUS
    <2> HIDE DEF Acts, s, d
    <2> QED BY ONLY <2>1, <2>2, Zenon
  <1> HIDE DEF F
  <1> QED BY <1>1, <1>2, <1>4, <1>5, <1>6, <1>7

-----------------------------------------------------------------------------
(* The references of entities.                                             *)

OfFields(F, d) == {ConcreteFieldReferenceFromDestinationMatchField(f, d) : f \in F}
MatchFields(r, optional) == {f \in r.fields : f.action = "" /\ (IF optional THEN f.optional ELSE ~f.optional)}
ActionFields(r, a) == {f \in r.fields : f.action = a}

IsIncomingPart(r, d, some, p) ==
  /\ p # {}
  /\ \/ p = OfFields(MatchFields(r, FALSE) \cup some, d)
     \/ \E f \in r.fields : /\ f.action # ""
                            /\ p = OfFields(MatchFields(r, FALSE) \cup some, d)
                                      \cup OfFields(ActionFields(r, f.action), d)

\* A possible incoming reference is made of all exact match fields, some
\* optional ones, and those of one action or none.
LEMMA IncomingForm ==
  ASSUME NEW r, NEW d, NEW p
  PROVE  ConcreteTableReference(r, p) \in PossibleIncomingConcreteTableReferences(r, d)
           <=> \E some \in SUBSET MatchFields(r, TRUE) : IsIncomingPart(r, d, some, p)
  <1> DEFINE Of(fields) == {ConcreteFieldReferenceFromDestinationMatchField(f, d) : f \in fields}
             actions == {f.action : f \in r.fields} \ {""}
             optional == {f \in r.fields : f.action = "" /\ f.optional}
             exact == {f \in r.fields : f.action = "" /\ ~f.optional}
             match == {Of(exact \cup o) : o \in SUBSET optional}
             action == {Of({f \in r.fields : f.action = a}) : a \in actions}
             parts == match \cup {q[1] \cup q[2] : q \in match \X action}
  <1>1. PossibleIncomingConcreteTableReferences(r, d) = {ConcreteTableReference(r, q) : q \in parts \ {{}}}
    BY Zenon DEF PossibleIncomingConcreteTableReferences
  <1>2. ConcreteTableReference(r, p) \in PossibleIncomingConcreteTableReferences(r, d)
          <=> p \in parts /\ p # {}
    <2> HIDE DEF parts
    <2>1. \A q : ConcreteTableReference(r, p) = ConcreteTableReference(r, q) => p = q
      BY DEF ConcreteTableReference
    <2> QED BY <1>1, <2>1
  <1>3. optional = MatchFields(r, TRUE) /\ exact = MatchFields(r, FALSE)
    BY DEF MatchFields
  <1>4. \A F : Of(F) = OfFields(F, d)
    BY DEF OfFields
  <1>5. \A q : q \in match <=> \E o \in SUBSET MatchFields(r, TRUE) : q = OfFields(MatchFields(r, FALSE) \cup o, d)
    <2> HIDE DEF Of, optional, exact
    <2> QED BY <1>3, <1>4
  <1>6. \A q : q \in action <=> \E f \in r.fields : f.action # "" /\ q = OfFields(ActionFields(r, f.action), d)
    <2> HIDE DEF Of
    <2>1. \A q : q \in action <=> \E a \in actions : q = OfFields(ActionFields(r, a), d)
      BY <1>4 DEF ActionFields
    <2>2. \A a : a \in actions <=> \E f \in r.fields : f.action # "" /\ a = f.action
      OBVIOUS
    <2> HIDE DEF action, actions
    <2> QED BY <2>1, <2>2
  <1>7. p \in parts <=> p \in match \/ \E m \in match, a \in action : p = m \cup a
    <2> HIDE DEF match, action
    <2>1. \A q \in match \X action : q[1] \in match /\ q[2] \in action
      OBVIOUS
    <2>2. \A m \in match, a \in action : <<m, a>> \in match \X action /\ <<m, a>>[1] = m /\ <<m, a>>[2] = a
      OBVIOUS
    <2> DEFINE both == {q[1] \cup q[2] : q \in match \X action}
    <2>3. p \in both <=> \E m \in match, a \in action : p = m \cup a
      <3>1. ASSUME p \in both PROVE \E m \in match, a \in action : p = m \cup a
        <4>1. PICK q \in match \X action : p = q[1] \cup q[2]
          BY <3>1
        <4> QED BY <2>1, <4>1
      <3>2. ASSUME NEW m \in match, NEW a \in action, p = m \cup a PROVE p \in both
        <4> DEFINE q == <<m, a>>
        <4>1. q \in match \X action /\ q[1] = m /\ q[2] = a
          BY <2>2
        <4> HIDE DEF q
        <4> QED BY <3>2, <4>1
      <3> QED BY <3>1, <3>2
    <2> HIDE DEF both
    <2> QED BY <2>3 DEF both
  <1> HIDE DEF parts, match, action
  <1>8. ASSUME p \in parts, p # {} PROVE \E some \in SUBSET MatchFields(r, TRUE) : IsIncomingPart(r, d, some, p)
    <2>1. CASE p \in match
      BY <1>5, <1>8, <2>1 DEF IsIncomingPart
    <2>2. CASE \E m \in match, a \in action : p = m \cup a
      <3>1. PICK m \in match, a \in action : p = m \cup a
        BY <2>2
      <3>2. PICK o \in SUBSET MatchFields(r, TRUE) : m = OfFields(MatchFields(r, FALSE) \cup o, d)
        BY <1>5, <3>1
      <3>3. PICK f \in r.fields : f.action # "" /\ a = OfFields(ActionFields(r, f.action), d)
        BY <1>6, <3>1
      <3>4. IsIncomingPart(r, d, o, p)
        BY <1>8, <3>1, <3>2, <3>3 DEF IsIncomingPart
      <3> QED BY <3>4
    <2> QED BY <1>7, <1>8, <2>1, <2>2
  <1>9. ASSUME NEW some \in SUBSET MatchFields(r, TRUE), IsIncomingPart(r, d, some, p) PROVE p \in parts /\ p # {}
    BY <1>5, <1>6, <1>7, <1>9 DEF IsIncomingPart
  <1> QED BY <1>2, <1>8, <1>9

\* All possible incoming references of an entity are references it satisfies.
LEMMA IncomingIsSatisfied ==
  ASSUME NEW d, NEW o \in AllIncoming(TableReferences, d)
  PROVE  Satisfies(o, d)
  <1>1. PICK r \in GetIncomingTableReferences(TableReferences, d.table) :
          o \in PossibleIncomingConcreteTableReferences(r, d)
    BY DEF AllIncoming
  <1>2. r \in TableReferences /\ r.destination = d.table
    BY DEF GetIncomingTableReferences
  <1>3. PICK p : o = ConcreteTableReference(r, p)
    BY <1>1 DEF PossibleIncomingConcreteTableReferences
  <1>4. o.destination = d.table /\ o.fields = p
    BY <1>2, <1>3 DEF ConcreteTableReference
  <1>5. PICK F : p = OfFields(F, d)
    <2>1. PICK some \in SUBSET MatchFields(r, TRUE) : IsIncomingPart(r, d, some, p)
      BY <1>1, <1>3, IncomingForm
    <2>2. \A A, B : OfFields(A, d) \cup OfFields(B, d) = OfFields(A \cup B, d)
      BY DEF OfFields
    <2>3. CASE p = OfFields(MatchFields(r, FALSE) \cup some, d)
      BY <2>3
    <2>4. ASSUME NEW f \in r.fields,
                 p = OfFields(MatchFields(r, FALSE) \cup some, d) \cup OfFields(ActionFields(r, f.action), d)
          PROVE  p = OfFields((MatchFields(r, FALSE) \cup some) \cup ActionFields(r, f.action), d)
      BY <2>2, <2>4
    <2> QED BY <2>1, <2>3, <2>4 DEF IsIncomingPart
  <1>6. \A x \in p : \E f \in F : x = Concrete(f, d.matches[f.destination])
    BY <1>5 DEF OfFields, ConcreteFieldReferenceFromDestinationMatchField
  <1>7. \A x \in p : d.matches[x.destination] = x.value
    BY <1>6 DEF Concrete
  <1> QED BY <1>4, <1>7 DEF Satisfies

\* What an entity refers to: a reference of its table, with the values of the
\* match fields it sets and of one of its actions, if it has any.
SetFields(r, e) == {g \in r.fields : g.action = "" /\ g.source \in DOMAIN e.matches}

\* Every outgoing reference of an entity is of this form.
LEMMA OutgoingForm ==
  ASSUME NEW e, NEW o \in AllOutgoing(TableReferences, e)
  PROVE  \E r \in TableReferences :
           /\ r.source = e.table /\ o = ConcreteTableReference(r, o.fields) /\ o.fields # {}
           /\ \/ o.fields = {Concrete(f, e.matches[f.source]) : f \in SetFields(r, e)}
              \/ \E a \in Range(e.actions) :
                   o.fields = {Concrete(f, e.matches[f.source]) : f \in SetFields(r, e)}
                                \cup {Concrete(f, a.params[f.source]) : f \in ActionFields(r, a.name)}
  <1>1. PICK r \in GetOutgoingTableReferences(TableReferences, e.table) :
          o \in OutgoingConcreteTableReferences(r, e)
    BY DEF AllOutgoing
  <1>2. r \in TableReferences /\ r.source = e.table
    BY DEF GetOutgoingTableReferences
  <1> DEFINE match == {Concrete(f, e.matches[f.source]) : f \in SetFields(r, e)}
             part(a) == {Concrete(f, a.params[f.source]) : f \in ActionFields(r, a.name)}
  <1>3. /\ PartialReferenceFromMatch(r, e) = match
        /\ \A a : GetPartialReferenceFromAction(r, a) = part(a)
    BY DEF PartialReferenceFromMatch, GetPartialReferenceFromAction, SetFields, ActionFields
  <1>4. PICK p : /\ o = ConcreteTableReference(r, p) /\ p # {}
                 /\ \/ p = match
                    \/ \E a \in Range(e.actions) : p = match \cup GetPartialReferenceFromAction(r, a)
    <2> HIDE DEF match
    <2> QED BY <1>1, <1>3 DEF OutgoingConcreteTableReferences
  <1>5. o.fields = p
    BY <1>4 DEF ConcreteTableReference
  <1> HIDE DEF match, part
  <1> QED BY <1>2, <1>3, <1>4, <1>5 DEF match, part

\* No action has an empty name, and an exact match field has a value.
LEMMA EntityFacts ==
  ASSUME NEW e, IsEntity(Info, e), NEW r \in TableReferences, r.source = e.table
  PROVE  /\ \A a \in Range(e.actions) : a.name # ""
         /\ \A g \in r.fields : g.action = "" /\ ~g.optional => g.source \in DOMAIN e.matches
  <1>1. e.table \in DOMAIN Info.tables
    BY DEF IsEntity
  <1>2. "" \notin Info.tables[e.table].actions
    <2>1. "" \notin DOMAIN Info.actions /\ Replica # ""
      BY ProgramAssumption DEF IsProgram, Replica
    <2>2. IF e.table = MulticastTable
          THEN Info.tables[e.table].actions = {Replica}
          ELSE Info.tables[e.table].actions \subseteq DOMAIN Info.actions \ {Replica}
      BY <1>1, ProgramAssumption DEF IsProgram
    <2>3. CASE e.table = MulticastTable
      BY <2>1, <2>2, <2>3
    <2>4. CASE e.table # MulticastTable
      BY <2>1, <2>2, <2>4
    <2> QED BY <2>3, <2>4
  <1>3. \A a \in Range(e.actions) : a.name # ""
    BY <1>2 DEF IsEntity
  <1>4. ASSUME NEW g \in r.fields, g.action = "", ~g.optional PROVE g.source \in DOMAIN e.matches
    <2>1. FromMatch(r, g) \/ FromAction(r, g) \/ FromBuiltIn(r, g)
      BY ReferenceFields
    <2>2. CASE FromMatch(r, g)
      BY <1>4, <2>2 DEF FromMatch, IsEntity
    <2>3. CASE FromAction(r, g)
      BY <1>4, <2>3, ProgramAssumption DEF FromAction, IsProgram
    <2>4. CASE FromBuiltIn(r, g)
      <3>1. e.table = MulticastTable /\ g.source = "multicast_group_id"
        BY <1>4, <2>4 DEF FromBuiltIn, Replica
      <3>2. /\ Fields(Info, MulticastTable) = {"multicast_group_id"}
            /\ ~FieldIsOptional(Info, MulticastTable, "multicast_group_id")
        BY <1>1, <3>1, ProgramAssumption DEF IsProgram
      <3> QED BY <3>1, <3>2 DEF IsEntity
    <2> QED BY <2>1, <2>2, <2>3, <2>4
  <1> QED BY <1>3, <1>4

\* A reference that an entity satisfies is one of its possible incoming
\* references.
LEMMA SatisfiedIsIncoming ==
  ASSUME NEW e, IsEntity(Info, e), NEW d, NEW o \in AllOutgoing(TableReferences, e), Satisfies(o, d)
  PROVE  o \in AllIncoming(TableReferences, d)
  <1> DEFINE Match(r) == {Concrete(f, e.matches[f.source]) : f \in SetFields(r, e)}
             Part(r, a) == {Concrete(f, a.params[f.source]) : f \in ActionFields(r, a.name)}
  <1>1. PICK r \in TableReferences :
          /\ r.source = e.table /\ o = ConcreteTableReference(r, o.fields) /\ o.fields # {}
          /\ \/ o.fields = Match(r)
             \/ \E a \in Range(e.actions) : o.fields = Match(r) \cup Part(r, a)
    BY OutgoingForm
  <1>2. r \in GetIncomingTableReferences(TableReferences, d.table)
    <2>1. o.destination = r.destination
      BY <1>1 DEF ConcreteTableReference
    <2> QED BY <2>1 DEF Satisfies, GetIncomingTableReferences
  <1>3. \A f, v : /\ Concrete(f, v).destination = f.destination
                 /\ Concrete(f, v).value = v
    BY DEF Concrete
  <1> DEFINE some == {g \in SetFields(r, e) : g.optional}
  <1>4. SetFields(r, e) = MatchFields(r, FALSE) \cup some /\ some \in SUBSET MatchFields(r, TRUE)
    <2>1. \A g \in r.fields : g.action = "" /\ ~g.optional => g.source \in DOMAIN e.matches
      BY <1>1, EntityFacts
    <2> QED BY <2>1 DEF SetFields, MatchFields
  <1>5. Match(r) = OfFields(SetFields(r, e), d)
    <2>1. ASSUME NEW f \in SetFields(r, e)
          PROVE  Concrete(f, e.matches[f.source]) = ConcreteFieldReferenceFromDestinationMatchField(f, d)
      <3>1. Concrete(f, e.matches[f.source]) \in o.fields
        BY <1>1
      <3>2. d.matches[f.destination] = e.matches[f.source]
        BY <1>3, <3>1 DEF Satisfies
      <3> QED BY <3>2 DEF ConcreteFieldReferenceFromDestinationMatchField
    <2> QED BY <2>1 DEF OfFields
  <1>6. ASSUME NEW a \in Range(e.actions), o.fields = Match(r) \cup Part(r, a)
        PROVE  Part(r, a) = OfFields(ActionFields(r, a.name), d)
    <2>1. ASSUME NEW f \in ActionFields(r, a.name)
          PROVE  Concrete(f, a.params[f.source]) = ConcreteFieldReferenceFromDestinationMatchField(f, d)
      <3>1. Concrete(f, a.params[f.source]) \in o.fields
        BY <1>6
      <3>2. d.matches[f.destination] = a.params[f.source]
        BY <1>3, <3>1 DEF Satisfies
      <3> QED BY <3>2 DEF ConcreteFieldReferenceFromDestinationMatchField
    <2> QED BY <2>1 DEF OfFields
  <1> HIDE DEF Match, Part, some
  <1>7. IsIncomingPart(r, d, some, o.fields)
    <2>1. CASE o.fields = Match(r)
      BY <1>1, <1>4, <1>5, <2>1 DEF IsIncomingPart
    <2>2. ASSUME NEW a \in Range(e.actions), o.fields = Match(r) \cup Part(r, a)
          PROVE  IsIncomingPart(r, d, some, o.fields)
      <3>1. a.name # ""
        BY <1>1, EntityFacts
      <3>2. CASE ActionFields(r, a.name) = {}
        <4>1. Part(r, a) = {}
          BY <1>6, <2>2, <3>2 DEF OfFields
        <4> QED BY <1>1, <1>4, <1>5, <2>2, <4>1 DEF IsIncomingPart
      <3>3. CASE ActionFields(r, a.name) # {}
        <4>1. PICK f \in r.fields : f.action = a.name
          BY <3>3 DEF ActionFields
        <4>2. o.fields = OfFields(MatchFields(r, FALSE) \cup some, d) \cup OfFields(ActionFields(r, f.action), d)
          BY <1>4, <1>5, <1>6, <2>2, <4>1
        <4> QED BY <1>1, <3>1, <4>1, <4>2 DEF IsIncomingPart
      <3> QED BY <3>2, <3>3
    <2> QED BY <1>1, <2>1, <2>2
  <1>8. o \in PossibleIncomingConcreteTableReferences(r, d)
    BY <1>1, <1>4, <1>7, IncomingForm
  <1> QED BY <1>2, <1>8 DEF AllIncoming

\* One of the references of e is a possible incoming one of d if and only if e
\* refers to d.
LEMMA IncomingIsReferredTo ==
  ASSUME NEW e, IsEntity(Info, e), NEW d
  PROVE  AllOutgoing(TableReferences, e) \cap AllIncoming(TableReferences, d) # {} <=> RefersTo(e, d)
  BY IncomingIsSatisfied, SatisfiedIsIncoming DEF RefersTo

\* UnsatisfiedOutgoingReferences is exact for any set of entities.
LEMMA UnsatisfiedIsExact ==
  ASSUME NEW S, \A e \in S : IsEntity(Info, e)
  PROVE  UnsatisfiedOutgoingReferences(TableReferences, S) = Dangling(S)
  <1> DEFINE satisfiable == UNION {AllIncoming(TableReferences, e) : e \in S}
  <1>1. UnsatisfiedOutgoingReferences(TableReferences, S)
          = {e \in S : ~(AllOutgoing(TableReferences, e) \subseteq satisfiable)}
    BY Zenon DEF UnsatisfiedOutgoingReferences
  <1>2. ASSUME NEW e \in S, NEW o \in AllOutgoing(TableReferences, e)
        PROVE  o \in satisfiable <=> \E d \in S : Satisfies(o, d)
    <2>1. o \in satisfiable <=> \E d \in S : o \in AllIncoming(TableReferences, d)
      OBVIOUS
    <2>2. IsEntity(Info, e)
      OBVIOUS
    <2> HIDE DEF satisfiable
    <2> QED BY <2>1, <2>2, IncomingIsSatisfied, SatisfiedIsIncoming
  <1> HIDE DEF satisfiable
  <1> QED BY <1>1, <1>2 DEF Dangling, Unmet

-----------------------------------------------------------------------------
(* Garbage collection.                                                     *)

\* One round of the search.
Round(pool, S) ==
  S \cup {e \in pool : \E s \in S :
              AllOutgoing(TableReferences, s) \cap AllIncoming(TableReferences, e) # {}}

IsReached(g, pool, frontier) ==
  g = [k \in 0..Cardinality(pool) |-> IF k = 0 THEN frontier ELSE Round(pool, g[k - 1])]

\* The search ends with all that can be reached, and reaches nothing that is
\* not in every closed set.
LEMMA ReachedFacts ==
  ASSUME NEW pool, IsFiniteSet(pool), NEW frontier
  PROVE  LET R == Reached(TableReferences, pool, frontier)
         IN /\ frontier \subseteq R /\ R \subseteq frontier \cup pool
            /\ Round(pool, R) = R
            /\ \A T : frontier \subseteq T /\ Round(pool, T) \subseteq T => R \subseteq T
  <1> DEFINE n == Cardinality(pool)
             V == frontier \cup pool
             G == [A \in SUBSET V |-> Round(pool, A)]
             r == ReachedInRounds(TableReferences, pool, frontier)
  <1>1. n \in Nat
    BY FS_CardinalityType
  <1>2. \A A \in SUBSET V : G[A] = Round(pool, A) /\ Round(pool, A) \in SUBSET V /\ A \subseteq Round(pool, A)
    BY DEF Round
  <1>3. G \in [SUBSET V -> SUBSET V] /\ frontier \in SUBSET V
    BY <1>2
  <1> HIDE DEF G
  <1>4. \E g : IsReached(g, pool, frontier)
    <2>1. PICK g : IsIteration(g, G, frontier, n)
      <3> HIDE DEF n
      <3> QED BY ONLY <1>1, IterationExists
    <2>2. g[0] = frontier /\ (\A k \in 0..n : g[k] \in SUBSET V) /\ (\A k \in 1..n : g[k] = G[g[k - 1]])
      <3> HIDE DEF n, V
      <3>1. Iterates(g, G, frontier, n, V)
        BY ONLY <1>1, <1>3, <2>1, IterationType
      <3> QED BY <3>1 DEF Iterates
    <2>3. ASSUME NEW k \in 0..n PROVE g[k] = IF k = 0 THEN frontier ELSE Round(pool, g[k - 1])
      <3>1. CASE k = 0
        BY <2>2, <3>1
      <3>2. CASE k # 0
        <4>1. k \in 1..n /\ k - 1 \in 0..n
          BY <1>1, <3>2
        <4> HIDE DEF n
        <4> QED BY <1>2, <2>2, <3>2, <4>1
      <3> QED BY <3>1, <3>2
    <2>4. g = [k \in 0..n |-> g[k]]
      BY <2>1 DEF IsIteration
    <2>5. IsReached(g, pool, frontier)
      BY <2>3, <2>4 DEF IsReached
    <2> QED BY <2>5
  <1>5. IsReached(r, pool, frontier)
    BY <1>4 DEF ReachedInRounds, IsReached, Round
  <1> HIDE DEF r
  <1>6. /\ DOMAIN r = 0..n
        /\ \A k \in 0..n : r[k] = IF k = 0 THEN frontier ELSE Round(pool, r[k - 1])
    BY <1>5 DEF IsReached
  <1> HIDE DEF n
  <1>7. \A k \in 0..n : r[k] \in SUBSET V
    <2> DEFINE P == {k \in 0..n : r[k] \in SUBSET V}
    <2>1. 0 \in P
      BY <1>1, <1>3, <1>6
    <2>2. \A k \in 0..n : k # n /\ k \in P => k + 1 \in P
      <3>1. SUFFICES ASSUME NEW k \in 0..n, k # n, r[k] \in SUBSET V PROVE k + 1 \in P
        OBVIOUS
      <3>2. k + 1 \in 0..n /\ k + 1 # 0 /\ (k + 1) - 1 = k
        BY <1>1, <3>1
      <3>3. r[k + 1] = Round(pool, r[k])
        BY <1>6, <3>2
      <3> QED BY <1>2, <3>1, <3>2, <3>3
    <2> HIDE DEF P
    <2>3. \A k \in 0..n : k \in P
      BY ONLY <1>1, <2>1, <2>2, UpToInduction
    <2> QED BY <2>3 DEF P
  <1>8. IsIteration(r, G, frontier, n)
    <2>1. \A k \in 0..n : r[k] = IF k = 0 THEN frontier ELSE G[r[k - 1]]
      <3>1. SUFFICES ASSUME NEW k \in 0..n, k # 0 PROVE Round(pool, r[k - 1]) = G[r[k - 1]]
        BY <1>6
      <3>2. k - 1 \in 0..n
        BY <1>1, <3>1
      <3> QED BY <1>2, <1>7, <3>2
    <2>2. r = [k \in 0..n |-> r[k]]
      BY <1>5 DEF IsReached, n
    <2> QED BY <2>1, <2>2 DEF IsIteration
  <1>9. G[r[n]] = r[n]
    <2>1. \A k \in 0..n : r[k] \subseteq G[r[k]]
      BY <1>2, <1>7
    <2>2. n = Cardinality(pool)
      BY DEF n
    <2>3. G \in [SUBSET (frontier \cup pool) -> SUBSET (frontier \cup pool)]
      BY <1>3
    <2> QED BY ONLY <1>1, <1>8, <2>1, <2>2, <2>3, IsFiniteSet(pool), IterationHalts
  <1>10. n \in 0..n /\ 0 \in 0..n
    BY <1>1
  <1>11. ASSUME NEW T, frontier \subseteq T, Round(pool, T) \subseteq T PROVE r[n] \subseteq T
    <2> DEFINE P == {k \in 0..n : r[k] \subseteq T}
    <2>1. 0 \in P
      BY <1>6, <1>10, <1>11
    <2>2. \A k \in 0..n : k # n /\ k \in P => k + 1 \in P
      <3>1. SUFFICES ASSUME NEW k \in 0..n, k # n, r[k] \subseteq T PROVE k + 1 \in P
        OBVIOUS
      <3>2. k + 1 \in 0..n /\ k + 1 # 0 /\ (k + 1) - 1 = k
        BY <1>1, <3>1
      <3>3. r[k + 1] = Round(pool, r[k])
        BY <1>6, <3>2
      <3>4. Round(pool, r[k]) \subseteq Round(pool, T)
        BY <3>1 DEF Round
      <3> QED BY <1>11, <3>2, <3>3, <3>4
    <2> HIDE DEF P
    <2>3. \A k \in 0..n : k \in P
      BY ONLY <1>1, <2>1, <2>2, UpToInduction
    <2> QED BY <1>10, <2>3 DEF P
  <1>12. frontier \subseteq r[n]
    <2> DEFINE P == {k \in 0..n : frontier \subseteq r[k]}
    <2>1. 0 \in P
      BY <1>6, <1>10
    <2>2. \A k \in 0..n : k # n /\ k \in P => k + 1 \in P
      <3>1. SUFFICES ASSUME NEW k \in 0..n, k # n, frontier \subseteq r[k] PROVE k + 1 \in P
        OBVIOUS
      <3>2. k + 1 \in 0..n /\ k + 1 # 0 /\ (k + 1) - 1 = k
        BY <1>1, <3>1
      <3>3. r[k + 1] = Round(pool, r[k])
        BY <1>6, <3>2
      <3>4. r[k] \subseteq Round(pool, r[k])
        BY <1>2, <1>7
      <3> QED BY <3>1, <3>2, <3>3, <3>4
    <2> HIDE DEF P
    <2>3. \A k \in 0..n : k \in P
      BY ONLY <1>1, <2>1, <2>2, UpToInduction
    <2> QED BY <1>10, <2>3 DEF P
  <1>13. Reached(TableReferences, pool, frontier) = r[n]
    BY DEF Reached, r, n
  <1>14. Round(pool, r[n]) = r[n] /\ r[n] \subseteq frontier \cup pool
    BY <1>2, <1>7, <1>9, <1>10
  <1> QED BY <1>11, <1>12, <1>13, <1>14

\* An entity of a table something refers to has possible references to it.
LEMMA PoolIsListed ==
  ASSUME NEW d, GetIncomingTableReferences(TableReferences, d.table) # {}
  PROVE  AllIncoming(TableReferences, d) # {}
  <1>1. PICK r \in TableReferences : r.destination = d.table
    BY DEF GetIncomingTableReferences
  <1>2. PICK g \in r.fields : TRUE
    BY ReferenceFields
  <1> DEFINE match == OfFields(MatchFields(r, FALSE) \cup MatchFields(r, TRUE), d)
             p == IF g.action = "" THEN match ELSE match \cup OfFields(ActionFields(r, g.action), d)
  <1>3. p # {}
    <2>1. CASE g.action = ""
      <3>1. g \in MatchFields(r, FALSE) \cup MatchFields(r, TRUE)
        BY <2>1 DEF MatchFields
      <3> QED BY <2>1, <3>1 DEF OfFields
    <2>2. CASE g.action # ""
      <3>1. g \in ActionFields(r, g.action)
        BY DEF ActionFields
      <3> QED BY <2>2, <3>1 DEF OfFields
    <2> QED BY <2>1, <2>2
  <1>4. IsIncomingPart(r, d, MatchFields(r, TRUE), p)
    <2> HIDE DEF match
    <2>1. CASE g.action = ""
      BY <1>3, <2>1 DEF IsIncomingPart, match
    <2>2. CASE g.action # ""
      BY <1>3, <2>2 DEF IsIncomingPart, match
    <2> QED BY <2>1, <2>2
  <1> HIDE DEF p
  <1>5. ConcreteTableReference(r, p) \in PossibleIncomingConcreteTableReferences(r, d)
    BY <1>4, IncomingForm
  <1> QED BY <1>1, <1>5 DEF AllIncoming, GetIncomingTableReferences

\* The sets that have the roots and all they refer to.
Closed(garbage, roots) ==
  {T \in SUBSET (garbage \cup roots) :
     roots \subseteq T /\ \A e \in T, d \in garbage : RefersTo(e, d) => d \in T}

\* What is reported as unreachable is not in every closed set.
LEMMA UnreachableIsExact ==
  ASSUME NEW S, IsFiniteSet(S), \A e \in S : IsEntity(Info, e), NEW Q \in SUBSET S,
         GetEntitiesUnreachableFromRoots(TableReferences, S, Q).ok
  PROVE  GetEntitiesUnreachableFromRoots(TableReferences, S, Q).value
           = {e \in S \ Q : \E T \in Closed(S \ Q, {q \in Q : q.table # MulticastTable}) : e \notin T}
  <1> DEFINE garbage == S \ Q
             pool == {e \in S \ Q : GetIncomingTableReferences(TableReferences, e.table) # {}}
             frontier == {q \in Q : q.table # MulticastTable}
             listed == {e \in pool : AllIncoming(TableReferences, e) # {}}
             R == Reached(TableReferences, pool, frontier)
             result == GetEntitiesUnreachableFromRoots(TableReferences, S, Q)
  <1>1. result.value = (((S \ Q) \ pool) \cup listed) \ R
    <2> HIDE DEF pool, frontier, listed, R
    <2>1. result = IF \E e \in S \ Q : e.table = MulticastTable
                   THEN [ok |-> FALSE]
                   ELSE [ok |-> TRUE, value |-> (((S \ Q) \ pool) \cup listed) \ R]
      BY Zenon DEF GetEntitiesUnreachableFromRoots, pool, frontier, listed, R
    <2>2. result.ok
      OBVIOUS
    <2> HIDE DEF result
    <2> QED BY <2>1, <2>2
  <1>2. listed = pool
    BY PoolIsListed
  <1>3. pool \subseteq garbage /\ result.value = garbage \ R
    <2> HIDE DEF R, result
    <2> QED BY <1>1, <1>2
  <1>4. IsFiniteSet(pool)
    BY FS_Subset
  <1>5. /\ frontier \subseteq R /\ R \subseteq frontier \cup pool
        /\ Round(pool, R) = R
        /\ \A T : frontier \subseteq T /\ Round(pool, T) \subseteq T => R \subseteq T
    <2> HIDE DEF pool, frontier
    <2> QED BY <1>4, ReachedFacts
  <1>6. \A T \in SUBSET (garbage \cup frontier) : \A e \in T, d \in garbage :
          RefersTo(e, d) <=> AllOutgoing(TableReferences, e) \cap AllIncoming(TableReferences, d) # {}
    BY IncomingIsReferredTo
  <1>7. \A e, d : RefersTo(e, d) => GetIncomingTableReferences(TableReferences, d.table) # {}
    <2>1. SUFFICES ASSUME NEW e, NEW d, RefersTo(e, d)
                   PROVE  GetIncomingTableReferences(TableReferences, d.table) # {}
      OBVIOUS
    <2>2. PICK o \in AllOutgoing(TableReferences, e) : Satisfies(o, d)
      BY <2>1 DEF RefersTo
    <2>3. PICK r \in TableReferences : o = ConcreteTableReference(r, o.fields)
      BY OutgoingForm
    <2>4. r.destination = d.table
      BY <2>2, <2>3 DEF Satisfies, ConcreteTableReference
    <2> QED BY <2>4 DEF GetIncomingTableReferences
  <1> HIDE DEF R, result
  <1>8. R \in Closed(garbage, frontier)
    <2>1. R \in SUBSET (garbage \cup frontier)
      BY <1>3, <1>5
    <2>2. ASSUME NEW e \in R, NEW d \in garbage, RefersTo(e, d) PROVE d \in R
      <3>1. d \in pool
        BY <1>7, <2>2
      <3>2. d \in Round(pool, R)
        BY <1>6, <2>1, <2>2, <3>1 DEF Round
      <3> QED BY <1>5, <3>2
    <2> QED BY <1>5, <2>1, <2>2 DEF Closed
  <1>9. ASSUME NEW T \in Closed(garbage, frontier) PROVE R \subseteq T
    <2>1. T \in SUBSET (garbage \cup frontier) /\ frontier \subseteq T
      BY DEF Closed
    <2>2. Round(pool, T) \subseteq T
      <3>1. SUFFICES ASSUME NEW d \in pool, NEW e \in T,
                            AllOutgoing(TableReferences, e) \cap AllIncoming(TableReferences, d) # {}
                     PROVE  d \in T
        BY DEF Round
      <3>2. d \in garbage /\ RefersTo(e, d)
        BY <1>3, <1>6, <2>1, <3>1
      <3> QED BY <3>2 DEF Closed
    <2> QED BY <1>5, <2>1, <2>2
  <1> HIDE DEF garbage, pool, frontier
  <1>10. result.value = {e \in garbage : \E T \in Closed(garbage, frontier) : e \notin T}
    BY <1>3, <1>8, <1>9
  <1> QED BY <1>10 DEF garbage, frontier, result

-----------------------------------------------------------------------------
(* Layers.                                                                 *)

\* The nodes that all edges to come from A.
After(nodes, edges, A) == {v \in nodes : \A e \in edges : e[2] = v => e[1] \in A}

IsLayering(L, nodes, edges, n) ==
  /\ L[0] = {}
  /\ \A k \in 0..n : L[k] \in SUBSET nodes
  /\ \A k \in 1..n : L[k] = After(nodes, edges, L[k - 1]) /\ L[k - 1] \subseteq L[k]
  /\ After(nodes, edges, L[n]) = L[n]

IsLayers(g, nodes, edges) ==
  g = [k \in 0..Cardinality(nodes) |-> IF k = 0 THEN {} ELSE After(nodes, edges, g[k - 1])]

\* Layers grow, and as many layers as there are nodes are enough.
LEMMA LayersFacts ==
  ASSUME NEW nodes, IsFiniteSet(nodes), NEW edges
  PROVE  IsLayering(Layers(nodes, edges), nodes, edges, Cardinality(nodes))
  <1> DEFINE n == Cardinality(nodes)
             G == [A \in SUBSET nodes |-> After(nodes, edges, A)]
             L == Layers(nodes, edges)
  <1>1. n \in Nat
    BY FS_CardinalityType
  <1>2. \A A : After(nodes, edges, A) \in SUBSET nodes
    BY DEF After
  <1>3. (\A A \in SUBSET nodes : G[A] = After(nodes, edges, A)) /\ G \in [SUBSET nodes -> SUBSET nodes]
    BY <1>2
  <1> HIDE DEF G
  <1>4. \E g : IsLayers(g, nodes, edges)
    <2>1. PICK g : IsIteration(g, G, {}, n)
      <3> HIDE DEF n
      <3> QED BY ONLY <1>1, IterationExists
    <2>2. g[0] = {} /\ (\A k \in 0..n : g[k] \in SUBSET nodes) /\ (\A k \in 1..n : g[k] = G[g[k - 1]])
      <3> HIDE DEF n
      <3>1. {} \in SUBSET nodes
        OBVIOUS
      <3>2. Iterates(g, G, {}, n, nodes)
        BY ONLY <1>1, <1>3, <2>1, <3>1, IterationType
      <3> QED BY <3>2 DEF Iterates
    <2>3. ASSUME NEW k \in 0..n PROVE g[k] = IF k = 0 THEN {} ELSE After(nodes, edges, g[k - 1])
      <3>1. CASE k = 0
        BY <2>2, <3>1
      <3>2. CASE k # 0
        <4>1. k \in 1..n /\ k - 1 \in 0..n
          BY <1>1, <3>2
        <4> HIDE DEF n
        <4> QED BY <1>3, <2>2, <3>2, <4>1
      <3> QED BY <3>1, <3>2
    <2>4. g = [k \in 0..n |-> g[k]]
      BY <2>1 DEF IsIteration
    <2>5. IsLayers(g, nodes, edges)
      BY <2>3, <2>4 DEF IsLayers
    <2> QED BY <2>5
  <1>5. IsLayers(L, nodes, edges)
    BY <1>4 DEF Layers, IsLayers, After
  <1> HIDE DEF L
  <1>6. \A k \in 0..n : L[k] = IF k = 0 THEN {} ELSE After(nodes, edges, L[k - 1])
    BY <1>5 DEF IsLayers
  <1> HIDE DEF n
  <1>7. \A k \in 0..n : L[k] \in SUBSET nodes
    BY <1>2, <1>6
  <1>8. L[0] = {} /\ \A k \in 1..n : L[k] = After(nodes, edges, L[k - 1])
    BY <1>1, <1>6
  <1>9. \A k \in 0..n : L[k] \subseteq After(nodes, edges, L[k])
    <2> DEFINE P == {k \in 0..n : L[k] \subseteq After(nodes, edges, L[k])}
    <2>1. 0 \in P
      BY <1>1, <1>8
    <2>2. \A k \in 0..n : k # n /\ k \in P => k + 1 \in P
      <3>1. SUFFICES ASSUME NEW k \in 0..n, k # n, L[k] \subseteq After(nodes, edges, L[k]) PROVE k + 1 \in P
        OBVIOUS
      <3>2. k + 1 \in 0..n /\ k + 1 \in 1..n /\ (k + 1) - 1 = k
        BY <1>1, <3>1
      <3>3. L[k + 1] = After(nodes, edges, L[k])
        BY <1>8, <3>2
      <3>4. L[k + 1] \subseteq After(nodes, edges, L[k + 1])
        BY <3>1, <3>3 DEF After
      <3> QED BY <3>2, <3>4
    <2> HIDE DEF P
    <2>3. \A k \in 0..n : k \in P
      BY ONLY <1>1, <2>1, <2>2, UpToInduction
    <2> QED BY <2>3 DEF P
  <1>10. IsIteration(L, G, {}, n)
    <2>1. \A k \in 0..n : L[k] = IF k = 0 THEN {} ELSE G[L[k - 1]]
      <3>1. SUFFICES ASSUME NEW k \in 0..n, k # 0 PROVE After(nodes, edges, L[k - 1]) = G[L[k - 1]]
        BY <1>6
      <3>2. k - 1 \in 0..n
        BY <1>1, <3>1
      <3> QED BY <1>3, <1>7, <3>2
    <2>2. L = [k \in 0..n |-> L[k]]
      BY <1>5 DEF IsLayers, n
    <2> QED BY <2>1, <2>2 DEF IsIteration
  <1>11. G[L[n]] = L[n]
    <2>1. \A k \in 0..n : L[k] \subseteq G[L[k]]
      BY <1>3, <1>7, <1>9
    <2>2. n = Cardinality(nodes)
      BY DEF n
    <2>3. PICK x : x = {}
      OBVIOUS
    <2>4. G \in [SUBSET (x \cup nodes) -> SUBSET (x \cup nodes)] /\ IsIteration(L, G, x, n)
      <3>1. x \cup nodes = nodes
        BY <2>3
      <3> QED BY <1>3, <1>10, <2>3, <3>1
    <2> QED BY ONLY <1>1, <2>1, <2>2, <2>4, IsFiniteSet(nodes), IterationHalts
  <1>12. \A k \in 1..n : L[k - 1] \subseteq L[k]
    BY <1>1, <1>8, <1>9
  <1>13. After(nodes, edges, L[n]) = L[n]
    BY <1>1, <1>3, <1>7, <1>11
  <1> QED BY <1>7, <1>8, <1>12, <1>13 DEF IsLayering, n, L

-----------------------------------------------------------------------------
(* The calls.                                                              *)

\* What is called.
Sequenced(S, U, max) == [op |-> "sequence", held |-> S, updates |-> SetToSeq(U), max |-> max]

WellCalled ==
  \/ call = Idle
  \/ \E S \in EntitySets : call = [op |-> "references", entities |-> S]
  \/ \E S \in EntitySets : Dangling(S) = {} /\ \E U \in Requests(S) : \E max \in BatchSizes : call = Sequenced(S, U, max)
  \/ \E S \in EntitySets : Dangling(S) = {} /\ call = [op |-> "sort", entities |-> S]
  \/ \E S \in EntitySets : \E roots \in SUBSET S : call = [op |-> "collect", entities |-> S, roots |-> roots]

\* Between calls, and in each of them, the arguments are of the sets above.
LEMMA CallsAreWell == SequencingSpec => []WellCalled
  <1>1. call = Idle => WellCalled
    BY DEF WellCalled
  <1>2. WellCalled /\ [SequencingNext]_call => WellCalled'
    <2>1. SUFFICES ASSUME WellCalled, [SequencingNext]_call PROVE WellCalled'
      OBVIOUS
    <2>2. CASE CheckReferences
      BY <2>2 DEF CheckReferences, WellCalled
    <2>3. CASE SequenceUpdates
      BY <2>3 DEF SequenceUpdates, WellCalled, Sequenced
    <2>4. CASE SortEntities
      BY <2>4 DEF SortEntities, WellCalled
    <2>5. CASE CollectGarbage
      BY <2>5 DEF CollectGarbage, WellCalled
    <2>6. CASE Return
      BY <2>6 DEF Return, WellCalled
    <2>7. CASE UNCHANGED call
      BY <2>1, <2>7 DEF WellCalled
    <2> QED BY <2>1, <2>2, <2>3, <2>4, <2>5, <2>6, <2>7 DEF SequencingNext
  <1> QED BY <1>1, <1>2, PTL DEF SequencingSpec

\* What references.cc and the garbage collector say of a set of entities is
\* what the references of the program mean.
THEOREM ReferencesMeanWhatTheySay == SequencingSpec => []ReferencesAreExact
  <1>1. ASSUME WellCalled PROVE ReferencesAreExact
    <2>1. UnsatisfiedAreDangling
      <3>1. SUFFICES ASSUME call.op = "references"
                     PROVE  UnsatisfiedOutgoingReferences(TableReferences, call.entities) = Dangling(call.entities)
        BY DEF UnsatisfiedAreDangling
      <3>2. PICK S \in EntitySets : call = [op |-> "references", entities |-> S]
        BY <1>1, <3>1 DEF WellCalled, Idle, Sequenced
      <3>3. call.entities = S /\ \A e \in S : IsEntity(Info, e)
        BY <3>2, EntitiesAssumption
      <3> QED BY <3>3, UnsatisfiedIsExact
    <2>2. UnreachableAreGarbage
      <3> DEFINE Result(S, Q) == GetEntitiesUnreachableFromRoots(TableReferences, S, Q)
                 Roots(Q) == {e \in Q : e.table # MulticastTable}
      <3>1. SUFFICES ASSUME call.op = "collect", Result(call.entities, call.roots).ok
                     PROVE  Result(call.entities, call.roots).value
                              = {e \in call.entities \ call.roots :
                                   \E T \in Closed(call.entities \ call.roots, Roots(call.roots)) : e \notin T}
        BY Zenon DEF UnreachableAreGarbage, Closed
      <3>2. PICK S \in EntitySets : \E Q \in SUBSET S : call = [op |-> "collect", entities |-> S, roots |-> Q]
        BY <1>1, <3>1 DEF WellCalled, Idle, Sequenced
      <3>3. PICK Q \in SUBSET S : call = [op |-> "collect", entities |-> S, roots |-> Q]
        BY <3>2
      <3>4. call.entities = S /\ call.roots = Q /\ IsFiniteSet(S) /\ \A e \in S : IsEntity(Info, e)
        BY <3>3, EntitiesAssumption
      <3>5. Result(S, Q).ok
        BY <3>1, <3>4
      <3>6. Result(S, Q).value = {e \in S \ Q : \E T \in Closed(S \ Q, Roots(Q)) : e \notin T}
        BY <3>4, <3>5, UnreachableIsExact
      <3> HIDE DEF Result, Roots
      <3> QED BY <3>4, <3>6
    <2> QED BY <2>1, <2>2 DEF ReferencesAreExact
  <1> QED BY <1>1, CallsAreWell, PTL

-----------------------------------------------------------------------------
(* The dependencies of updates.                                            *)

\* An action of an entity of a table of the program's own, and its parameters.
LEMMA ActionFacts ==
  ASSUME NEW e, IsEntity(Info, e), e.table # MulticastTable, NEW a \in Range(e.actions)
  PROVE  /\ a.name \in Info.tables[e.table].actions \cap DOMAIN Info.actions
         /\ DOMAIN a.params = DOMAIN Info.actions[a.name]
  <1>1. e.table \in DOMAIN Info.tables /\ a.name \in Info.tables[e.table].actions
    BY DEF IsEntity
  <1>2. a.name \in DOMAIN Info.actions /\ a.name # Replica
    BY <1>1, ProgramAssumption DEF IsProgram
  <1> QED BY <1>1, <1>2 DEF IsEntity

\* Updates depend on one another only if their tables refer to one another.
LEMMA DependentTables ==
  ASSUME NEW x, IsEntity(Info, x), x.table # MulticastTable, NEW y, IsEntity(Info, y),
         ValuesReferredTo(Info, x) \cap ReferencedValues(Info, y) # {}
  PROVE  \E r \in TableReferences : r.source = x.table /\ r.destination = y.table
  <1> DEFINE s == x.table
             d == y.table
             Acts == UNION {RefersToOfAction(Info, a, d) : a \in Info.tables[s].actions \cap DOMAIN Info.actions}
             F == RefersToOfTable(Info, s, d) \cup Acts \cup ReferencedByOfTable(Info, s, d)
  <1>1. s \in DOMAIN Info.tables /\ d \in DOMAIN Info.tables
    BY DEF IsEntity
  <1>2. PICK v \in ValuesReferredTo(Info, x) : v \in ReferencedValues(Info, y)
    OBVIOUS
  <1>3. v[1] = d
    BY <1>2 DEF ReferencedValues
  <1>4. \/ \E f \in DOMAIN x.matches : \E q \in RefersToAnnotations(Info.tables[s].fields[f].refers_to) :
             v = <<q[1], q[2], x.matches[f]>>
        \/ \E a \in Range(x.actions) : \E p \in DOMAIN a.params :
             \E q \in RefersToAnnotations(Info.actions[a.name][p]) : v = <<q[1], q[2], a.params[p]>>
    BY <1>2 DEF ValuesReferredTo
  <1>5. F # {}
    <2>1. ASSUME NEW f \in DOMAIN x.matches, NEW q \in RefersToAnnotations(Info.tables[s].fields[f].refers_to),
                 v = <<q[1], q[2], x.matches[f]>>
          PROVE  F # {}
      <3>1. f \in Fields(Info, s) /\ q \in Info.tables[s].fields[f].refers_to /\ q[1] = d
        BY <1>3, <2>1 DEF IsEntity, RefersToAnnotations
      <3>2. FieldReference("", f, q[2], FieldIsOptional(Info, s, f)) \in RefersToOfTable(Info, s, d)
        <4> DEFINE Of(g) == {FieldReference("", g, t[2], FieldIsOptional(Info, s, g)) :
                               t \in {u \in Info.tables[s].fields[g].refers_to : u[1] = d}}
        <4>1. FieldReference("", f, q[2], FieldIsOptional(Info, s, f)) \in Of(f)
          BY <3>1
        <4>2. RefersToOfTable(Info, s, d) = UNION {Of(g) : g \in Fields(Info, s)}
          BY Zenon DEF RefersToOfTable
        <4> HIDE DEF Of
        <4> QED BY <3>1, <4>1, <4>2
      <3> HIDE DEF Acts
      <3> QED BY <3>2
    <2>2. ASSUME NEW a \in Range(x.actions), NEW p \in DOMAIN a.params,
                 NEW q \in RefersToAnnotations(Info.actions[a.name][p]), v = <<q[1], q[2], a.params[p]>>
          PROVE  F # {}
      <3>1. /\ a.name \in Info.tables[s].actions \cap DOMAIN Info.actions
            /\ p \in DOMAIN Info.actions[a.name]
        BY ActionFacts
      <3>2. q \in Info.actions[a.name][p] /\ q[1] = d
        BY <1>3, <2>2 DEF RefersToAnnotations
      <3>3. FieldReference(a.name, p, q[2], FALSE) \in RefersToOfAction(Info, a.name, d)
        <4> DEFINE Of(g) == {FieldReference(a.name, g, t[2], FALSE) :
                               t \in {u \in Info.actions[a.name][g] : u[1] = d}}
        <4>1. FieldReference(a.name, p, q[2], FALSE) \in Of(p)
          BY <3>2
        <4>2. RefersToOfAction(Info, a.name, d) = UNION {Of(g) : g \in DOMAIN Info.actions[a.name]}
          BY Zenon DEF RefersToOfAction
        <4> HIDE DEF Of
        <4> QED BY <3>1, <4>1, <4>2
      <3>4. FieldReference(a.name, p, q[2], FALSE) \in Acts
        BY <3>1, <3>3
      <3> HIDE DEF Acts
      <3> QED BY <3>4
    <2> QED BY <1>4, <2>1, <2>2
  <1> DEFINE r == [source |-> s, destination |-> d, fields |-> F]
  <1>6. r \in TableReferences
    <2> DEFINE pair == <<s, d>>
    <2>1. pair \in (DOMAIN Info.tables) \X (DOMAIN Info.tables) /\ pair[1] = s /\ pair[2] = d
      BY <1>1
    <2> HIDE DEF pair
    <2> QED BY <1>5, <2>1 DEF TableReferences, ParseIrTableReferences
  <1>7. r.source = s /\ r.destination = d
    OBVIOUS
  <1> HIDE DEF r, F
  <1> QED BY <1>6, <1>7

\* If e refers to d, both of tables of the program's own, an update of e names
\* a value that an update of d has.
LEMMA ReferencesAreDependencies ==
  ASSUME NEW e, IsEntity(Info, e), e.table # MulticastTable,
         NEW d, IsEntity(Info, d), d.table # MulticastTable,
         NEW o \in AllOutgoing(TableReferences, e), Satisfies(o, d)
  PROVE  ValuesReferredTo(Info, e) \cap ReferencedValues(Info, d) # {}
  <1> DEFINE Match(r) == {Concrete(f, e.matches[f.source]) : f \in SetFields(r, e)}
             Part(r, a) == {Concrete(f, a.params[f.source]) : f \in ActionFields(r, a.name)}
  <1>1. PICK r \in TableReferences :
          /\ r.source = e.table /\ o = ConcreteTableReference(r, o.fields) /\ o.fields # {}
          /\ \/ o.fields = Match(r)
             \/ \E a \in Range(e.actions) : o.fields = Match(r) \cup Part(r, a)
    BY OutgoingForm
  <1>2. r.destination = d.table
    BY <1>1 DEF ConcreteTableReference, Satisfies
  <1>3. PICK x \in o.fields : TRUE
    BY <1>1
  <1>4. \A f, v : Concrete(f, v).destination = f.destination /\ Concrete(f, v).value = v
    BY DEF Concrete
  <1>5. d.matches[x.destination] = x.value
    BY DEF Satisfies
  <1>6. e.table \in DOMAIN Info.tables /\ d.table \in DOMAIN Info.tables
    BY DEF IsEntity
  <1>7. ASSUME NEW f \in r.fields, NEW v, x = Concrete(f, v), NEW q \in RefersToAnnotationsOf(Info),
               q[1] = r.destination, q[2] = f.destination
        PROVE  <<q[1], q[2], v>> \in ReferencedValues(Info, d)
    <2>1. f.destination \in DOMAIN d.matches
      BY <1>2, ReferenceFields DEF IsEntity
    <2>2. v = d.matches[q[2]]
      BY <1>4, <1>5, <1>7
    <2>3. q \in IrReferences(Info)
      BY <1>2, <1>7 DEF IrReferences, RefersToAnnotations
    <2>4. q[1] = d.table /\ q[2] \in DOMAIN d.matches
      BY <1>2, <1>7, <2>1
    <2> QED BY <2>2, <2>3, <2>4 DEF ReferencedValues
  <1>8. ASSUME NEW f \in SetFields(r, e), x = Concrete(f, e.matches[f.source])
        PROVE  ValuesReferredTo(Info, e) \cap ReferencedValues(Info, d) # {}
    <2>1. f \in r.fields /\ f.action = "" /\ f.source \in DOMAIN e.matches
      BY DEF SetFields
    <2>2. FromMatch(r, f)
      <3>1. FromMatch(r, f) \/ FromAction(r, f) \/ FromBuiltIn(r, f)
        BY <2>1, ReferenceFields
      <3>2. ~FromAction(r, f)
        BY <2>1, ProgramAssumption DEF FromAction, IsProgram
      <3>3. ~FromBuiltIn(r, f)
        BY <1>1 DEF FromBuiltIn
      <3> QED BY <3>1, <3>2, <3>3
    <2>3. PICK q \in Info.tables[e.table].fields[f.source].refers_to :
            q[1] = r.destination /\ q[2] = f.destination
      BY <1>1, <2>2 DEF FromMatch
    <2>4. q \in RefersToAnnotationsOf(Info) /\ f.source \in Fields(Info, e.table)
      <3>1. f.source \in Fields(Info, e.table)
        BY <1>1, <2>2 DEF FromMatch
      <3> QED BY <1>6, <2>3, <3>1 DEF RefersToAnnotationsOf
    <2>5. <<q[1], q[2], e.matches[f.source]>> \in ReferencedValues(Info, d)
      BY <1>7, <1>8, <2>1, <2>3, <2>4
    <2>6. q \in RefersToAnnotations(Info.tables[e.table].fields[f.source].refers_to)
      BY <1>2, <2>3 DEF RefersToAnnotations
    <2>7. <<q[1], q[2], e.matches[f.source]>> \in ValuesReferredTo(Info, e)
      <3> DEFINE Of(g) == {<<t[1], t[2], e.matches[g]>> :
                             t \in RefersToAnnotations(Info.tables[e.table].fields[g].refers_to)}
      <3>1. <<q[1], q[2], e.matches[f.source]>> \in Of(f.source)
        BY <2>6
      <3>2. UNION {Of(g) : g \in DOMAIN e.matches} \subseteq ValuesReferredTo(Info, e)
        BY DEF ValuesReferredTo
      <3> HIDE DEF Of
      <3> QED BY <2>1, <3>1, <3>2
    <2> QED BY <2>5, <2>7
  <1>9. ASSUME NEW a \in Range(e.actions), NEW f \in ActionFields(r, a.name), x = Concrete(f, a.params[f.source])
        PROVE  ValuesReferredTo(Info, e) \cap ReferencedValues(Info, d) # {}
    <2>1. f \in r.fields /\ f.action = a.name /\ f.action # ""
      BY <1>1, EntityFacts DEF ActionFields
    <2>2. FromAction(r, f)
      <3>1. FromMatch(r, f) \/ FromAction(r, f) \/ FromBuiltIn(r, f)
        BY <2>1, ReferenceFields
      <3>2. ~FromMatch(r, f)
        BY <2>1 DEF FromMatch
      <3>3. ~FromBuiltIn(r, f)
        BY <1>1 DEF FromBuiltIn
      <3> QED BY <3>1, <3>2, <3>3
    <2>3. PICK q \in Info.actions[a.name][f.source] : q[1] = r.destination /\ q[2] = f.destination
      BY <2>1, <2>2 DEF FromAction
    <2>4. f.source \in DOMAIN Info.actions[a.name] /\ a.name \in DOMAIN Info.actions
      BY <2>1, <2>2 DEF FromAction
    <2>5. q \in RefersToAnnotationsOf(Info)
      BY <2>3, <2>4 DEF RefersToAnnotationsOf
    <2>6. <<q[1], q[2], a.params[f.source]>> \in ReferencedValues(Info, d)
      BY <1>7, <1>9, <2>1, <2>3, <2>5
    <2>7. q \in RefersToAnnotations(Info.actions[a.name][f.source]) /\ f.source \in DOMAIN a.params
      BY <1>2, <2>3, <2>4, ActionFacts DEF RefersToAnnotations
    <2>8. <<q[1], q[2], a.params[f.source]>> \in ValuesReferredTo(Info, e)
      BY <2>7 DEF ValuesReferredTo
    <2> QED BY <2>6, <2>8
  <1> QED BY <1>1, <1>3, <1>8, <1>9

\* The updates of a request, as lists: of tables of the program's own, whose
\* actions and fields exist.
AreUpdates(updates, n) ==
  /\ DOMAIN updates = 1..n
  /\ \A j \in 1..n : /\ updates[j].type \in {"INSERT", "MODIFY", "DELETE"}
                     /\ IsEntity(Info, updates[j].entity)
                     /\ updates[j].entity.table # MulticastTable

TableEdges == {<<r.destination, r.source>> : r \in TableReferences}

\* A dependency between updates is one between their tables: of an INSERT or a
\* MODIFY on an INSERT of a table it refers to, of a DELETE on a DELETE of a
\* table that refers to it.
LEMMA DependencyTables ==
  ASSUME NEW n \in Nat, NEW updates, AreUpdates(updates, n),
         NEW u \in 1..n, NEW v \in 1..n, DependsOn(Info, updates, v, u)
  PROVE  \/ /\ updates[v].type # "DELETE" /\ updates[u].type # "DELETE"
            /\ \E e \in TableEdges : e[1] = updates[u].entity.table /\ e[2] = updates[v].entity.table
         \/ /\ updates[v].type = "DELETE" /\ updates[u].type = "DELETE"
            /\ \E e \in TableEdges : e[1] = updates[v].entity.table /\ e[2] = updates[u].entity.table
  <1>1. ASSUME NEW r \in TableReferences PROVE \E e \in TableEdges : e[1] = r.destination /\ e[2] = r.source
    <2> DEFINE e == <<r.destination, r.source>>
    <2>1. e \in TableEdges /\ e[1] = r.destination /\ e[2] = r.source
      BY DEF TableEdges
    <2> HIDE DEF e
    <2> QED BY <2>1
  <1>2. ASSUME NEW x \in 1..n, NEW y \in 1..n,
               ValuesReferredTo(Info, updates[x].entity) \cap ReferencedValues(Info, updates[y].entity) # {}
        PROVE  \E e \in TableEdges : e[1] = updates[y].entity.table /\ e[2] = updates[x].entity.table
    <2>1. /\ IsEntity(Info, updates[x].entity) /\ updates[x].entity.table # MulticastTable
          /\ IsEntity(Info, updates[y].entity)
      BY DEF AreUpdates
    <2>2. PICK r \in TableReferences : r.source = updates[x].entity.table /\ r.destination = updates[y].entity.table
      BY <1>2, <2>1, DependentTables
    <2> QED BY <1>1, <2>2
  <1>3. CASE /\ updates[v].type \in {"INSERT", "MODIFY"} /\ updates[u].type = "INSERT"
             /\ ValuesReferredTo(Info, updates[v].entity) \cap ReferencedValues(Info, updates[u].entity) # {}
    BY <1>2, <1>3
  <1>4. CASE /\ updates[v].type = "DELETE" /\ updates[u].type = "DELETE"
             /\ ValuesReferredTo(Info, updates[u].entity) \cap ReferencedValues(Info, updates[v].entity) # {}
    BY <1>2, <1>4
  <1> QED BY <1>3, <1>4 DEF DependsOn

\* Updates of tables whose references have no cycle are in no cycle.
LEMMA UpdatesAreInNoCycle ==
  ASSUME NEW n \in Nat, NEW updates, AreUpdates(updates, n)
  PROVE  Layers(DOMAIN updates, BuildDependencyGraph(Info, updates))[n] = DOMAIN updates
  <1> DEFINE nodes == DOMAIN updates
             E == BuildDependencyGraph(Info, updates)
             A == Layers(nodes, E)[n]
             T == DOMAIN Info.tables
             K == Cardinality(T)
             clear == Layers(T, TableEdges)
             tab(j) == updates[j].entity.table
  <1>1. nodes = 1..n /\ IsFiniteSet(nodes) /\ Cardinality(nodes) = n
    BY FS_Interval DEF AreUpdates
  <1>2. A \in SUBSET nodes /\ A = After(nodes, E, A)
    <2>1. IsLayering(Layers(nodes, E), nodes, E, n)
      BY <1>1, LayersFacts
    <2> QED BY <2>1 DEF IsLayering
  <1>3. IsFiniteSet(T) /\ K \in Nat
    BY ProgramAssumption, FS_CardinalityType DEF IsProgram
  <1>4. IsLayering(clear, T, TableEdges, K)
    BY <1>3, LayersFacts
  <1>5. clear[K] = T
    BY ProgramAssumption DEF DependenciesFormACycle, TableEdges
  <1> HIDE DEF K, clear
  <1>6. clear[0] = {} /\ \A k \in 1..K : clear[k] = After(T, TableEdges, clear[k - 1])
    BY <1>4 DEF IsLayering
  <1>7. \A j \in 1..n : tab(j) \in T
    BY DEF AreUpdates, IsEntity
  <1> DEFINE B == (1..n) \ A
  <1>8. ASSUME NEW v \in B PROVE \E u \in B : DependsOn(Info, updates, v, u)
    <2>1. v \notin After(nodes, E, A) /\ v \in nodes
      BY <1>1, <1>2
    <2>2. PICK e \in E : e[2] = v /\ e[1] \notin A
      BY <2>1 DEF After
    <2>3. e[1] \in nodes /\ DependsOn(Info, updates, e[2], e[1])
      BY DEF BuildDependencyGraph
    <2> QED BY <1>1, <2>2, <2>3
  <1> HIDE DEF A
  <1>9. \A e \in TableEdges : \A k \in 1..K : e[2] \in clear[k] => e[1] \in clear[k - 1]
    BY <1>6 DEF After
  <1>10. ASSUME NEW v \in B, updates[v].type # "DELETE" PROVE FALSE
    <2> DEFINE Held(k) == \E w \in B : updates[w].type # "DELETE" /\ tab(w) \in clear[k]
               M == {k \in 0..K : Held(k)}
    <2>1. K \in M
      BY <1>3, <1>5, <1>7, <1>10
    <2>2. PICK m \in M : \A k \in M : m <= k
      <3>1. M \subseteq 0..K /\ M # {}
        BY <2>1
      <3> HIDE DEF M
      <3> QED BY <1>3, <3>1, LeastMember
    <2>3. PICK w \in B : updates[w].type # "DELETE" /\ tab(w) \in clear[m]
      BY <2>2
    <2>4. m \in 1..K /\ m - 1 \in 0..K /\ ~(m <= m - 1)
      BY <1>3, <1>6, <2>2, <2>3
    <2>5. PICK u \in B : DependsOn(Info, updates, w, u)
      BY <1>8
    <2>6. /\ updates[u].type # "DELETE"
          /\ \E e \in TableEdges : e[1] = tab(u) /\ e[2] = tab(w)
      BY <2>3, <2>5, DependencyTables
    <2>7. tab(u) \in clear[m - 1]
      BY <1>9, <2>3, <2>4, <2>6
    <2>8. m - 1 \in M
      BY <2>4, <2>6, <2>7
    <2> HIDE DEF M
    <2> QED BY <2>2, <2>4, <2>8
  <1>11. ASSUME NEW v \in B PROVE FALSE
    <2> DEFINE Held(k) == \E w \in B : tab(w) \notin clear[K - k]
               M == {k \in 0..K : Held(k)}
    <2>1. K \in M
      <3>1. K \in 0..K /\ K - K = 0
        BY <1>3
      <3> QED BY <1>6, <1>11, <3>1
    <2>2. PICK m \in M : \A k \in M : m <= k
      <3>1. M \subseteq 0..K /\ M # {}
        BY <2>1
      <3> HIDE DEF M
      <3> QED BY <1>3, <3>1, LeastMember
    <2>3. PICK w \in B : tab(w) \notin clear[K - m]
      BY <2>2
    <2>4. m # 0
      <3>1. K - 0 = K
        BY <1>3
      <3> QED BY <1>5, <1>7, <2>3, <3>1
    <2>5. m - 1 \in 0..K /\ ~(m <= m - 1) /\ K - (m - 1) \in 1..K /\ (K - (m - 1)) - 1 = K - m
      BY <1>3, <2>2, <2>4
    <2>6. PICK u \in B : DependsOn(Info, updates, w, u)
      BY <1>8
    <2>7. \E e \in TableEdges : e[1] = tab(w) /\ e[2] = tab(u)
      BY <1>10, <2>6, DependencyTables
    <2>8. tab(u) \notin clear[K - (m - 1)]
      BY <1>9, <2>3, <2>5, <2>7
    <2>9. m - 1 \in M
      BY <2>5, <2>8
    <2> HIDE DEF M
    <2> QED BY <2>2, <2>5, <2>9
  <1>12. A = 1..n
    BY <1>1, <1>2, <1>11
  <1> QED BY <1>1, <1>12 DEF A

\* The sequence s has each member of S once.
Lists(s, S) ==
  /\ s \in Seq(S)
  /\ \A j, k \in 1..Len(s) : s[j] = s[k] => j = k
  /\ \A x \in S : \E j \in 1..Len(s) : s[j] = x

\* A set of indices is listed in ascending order, each once.
LEMMA InOrderLists ==
  ASSUME NEW n \in Nat, NEW S \in SUBSET (1..n)
  PROVE  Lists(InOrder(S), S)
  <1>1. IsFiniteSet(S)
    <2>1. IsFiniteSet(1..n)
      BY FS_Interval
    <2> QED BY ONLY S \in SUBSET (1..n), <2>1, FS_Subset
  <1>2. Cardinality(S) \in Nat
    BY <1>1, FS_CardinalityType
  <1>3. \E f \in [1..Cardinality(S) -> S] : \A j, k \in DOMAIN f : j < k => f[j] < f[k]
    BY AscendingExists DEF Ascending
  <1>4. /\ InOrder(S) \in [1..Cardinality(S) -> S]
        /\ \A j, k \in 1..Cardinality(S) : j < k => InOrder(S)[j] < InOrder(S)[k]
    BY <1>3 DEF InOrder
  <1>5. \A j, k \in 1..Cardinality(S) : InOrder(S)[j] = InOrder(S)[k] => j = k
    <2>1. \A j \in 1..Cardinality(S) : InOrder(S)[j] \in S
      BY <1>4
    <2>2. \A x \in S : x \in Int
      OBVIOUS
    <2>3. \A j \in 1..Cardinality(S) : InOrder(S)[j] \in Int
      BY ONLY <2>1, <2>2, Zenon
    <2> QED BY <1>2, <1>4, <2>3
  <1>6. InOrder(S) \in Seq(S) /\ Len(InOrder(S)) = Cardinality(S)
    BY <1>2, <1>4, FunctionIsSeq
  <1>7. \A x \in S : \E j \in 1..Cardinality(S) : InOrder(S)[j] = x
    BY <1>1, <1>4, <1>5, InjectionIsOnto
  <1> QED BY <1>5, <1>6, <1>7 DEF Lists

\* Layers that stop growing have stopped for good.
LEMMA LayersAreUsedInTurn ==
  ASSUME NEW n \in Nat, NEW nodes, NEW edges, NEW L, IsLayering(L, nodes, edges, n),
         NEW used, used = {k \in 1..n : L[k] # L[k - 1]}
  PROVE  /\ Cardinality(used) \in 0..n /\ used = 1..Cardinality(used)
         /\ L[Cardinality(used)] = L[n]
         /\ \A j, k \in 0..n : j <= k => L[j] \subseteq L[k]
  <1>1. \A k \in 1..n : L[k] = After(nodes, edges, L[k - 1]) /\ L[k - 1] \subseteq L[k]
    BY DEF IsLayering
  <1> DEFINE stopped == {k \in 1..(n + 1) : k \notin used}
  <1>2. PICK z \in stopped : \A k \in stopped : z <= k
    <2>1. stopped \subseteq 0..(n + 1) /\ n + 1 \in stopped /\ n + 1 \in Nat
      OBVIOUS
    <2> HIDE DEF stopped
    <2> QED BY <2>1, LeastMember
  <1>3. z \in 1..(n + 1) /\ z \notin used /\ \A k \in 1..(n + 1) : k < z => k \in used
    BY <1>2
  <1> DEFINE m == z - 1
  <1>4. m \in 0..n
    BY <1>3
  <1>5. \A k \in 0..n : k >= z => L[k] = L[k - 1]
    <2> DEFINE P == {k \in 0..n : k >= z => L[k] = L[k - 1]}
    <2>1. 0 \in P
      BY <1>3
    <2>2. ASSUME NEW k \in 0..n, k # n, k \in P PROVE k + 1 \in P
      <3>1. k + 1 \in 1..n /\ (k + 1) - 1 = k
        BY <2>2
      <3>2. CASE k + 1 < z
        BY <1>3, <3>1, <3>2
      <3>3. CASE k + 1 = z
        BY <1>3, <3>1, <3>3
      <3>4. CASE k >= z
        <4>1. k \in 1..n /\ L[k] = L[k - 1]
          BY <1>3, <2>2, <3>4
        <4>2. L[k + 1] = After(nodes, edges, L[k]) /\ L[k] = After(nodes, edges, L[k - 1])
          BY <1>1, <3>1, <4>1
        <4> QED BY <3>1, <4>1, <4>2
      <3> QED BY <1>3, <3>2, <3>3, <3>4
    <2> HIDE DEF P
    <2>3. \A k \in 0..n : k \in P
      BY <2>1, <2>2, UpToInduction
    <2> QED BY <2>3 DEF P
  <1>6. used = 1..m
    <2>1. \A k \in used : k \in 1..n /\ L[k] # L[k - 1]
      OBVIOUS
    <2>2. \A k \in used : k \in 1..m
      BY <1>3, <1>5, <2>1
    <2>3. \A k \in 1..m : k \in used
      BY <1>3
    <2> QED BY <2>2, <2>3
  <1>7. Cardinality(used) = m
    <2> HIDE DEF m
    <2>1. Cardinality(1..m) = IF 1 > m THEN 0 ELSE m - 1 + 1
      BY <1>4, FS_Interval
    <2>2. Cardinality(1..m) = m
      BY <1>4, <2>1
    <2> QED BY ONLY <1>6, <2>2
  <1>8. L[m] = L[n]
    <2> DEFINE P == {k \in 0..n : k >= m => L[k] = L[m]}
    <2>1. 0 \in P
      BY <1>4
    <2>2. ASSUME NEW k \in 0..n, k # n, k \in P PROVE k + 1 \in P
      <3>1. k + 1 \in 0..n /\ (k + 1) - 1 = k
        BY <2>2
      <3>2. CASE k + 1 < m
        BY <1>4, <3>1, <3>2
      <3>3. CASE k + 1 = m
        BY <3>1, <3>3
      <3>4. CASE k >= m
        BY <1>3, <1>5, <2>2, <3>1, <3>4
      <3> QED BY <1>4, <3>2, <3>3, <3>4
    <2>3. 0 \in P /\ \A k \in 0..n : k # n /\ k \in P => k + 1 \in P
      BY <2>1, <2>2
    <2> HIDE DEF P
    <2>4. n \in P
      BY <2>3, UpToInduction
    <2> QED BY <1>4, <2>4 DEF P
  <1>9. ASSUME NEW j \in 0..n PROVE \A k \in 0..n : j <= k => L[j] \subseteq L[k]
    <2> DEFINE P == {k \in 0..n : j <= k => L[j] \subseteq L[k]}
    <2>1. 0 \in P
      OBVIOUS
    <2>2. ASSUME NEW k \in 0..n, k # n, k \in P PROVE k + 1 \in P
      <3>1. k + 1 \in 1..n /\ k + 1 \in 0..n /\ (k + 1) - 1 = k
        BY <2>2
      <3>2. L[k] \subseteq L[k + 1]
        BY <1>1, <3>1
      <3>3. CASE j <= k
        BY <2>2, <3>1, <3>2, <3>3
      <3>4. CASE ~(j <= k)
        <4>1. j <= k + 1 => j = k + 1
          BY <3>4
        <4> QED BY <3>1, <4>1
      <3> QED BY <3>3, <3>4
    <2>3. 0 \in P /\ \A k \in 0..n : k # n /\ k \in P => k + 1 \in P
      BY <2>1, <2>2
    <2> HIDE DEF P
    <2>4. \A k \in 0..n : k \in P
      BY <2>3, UpToInduction
    <2> QED BY <2>4 DEF P
  <1> QED BY <1>4, <1>6, <1>7, <1>8, <1>9

\* The m batches b list each of the updates 1..n once, and edges of the
\* dependency graph lead from a batch to a later one.
Batched(b, m, n, edges) ==
  /\ DOMAIN b = 1..m
  /\ \A k \in 1..m : b[k] \in Seq(1..n)
  /\ \A x \in 1..n : \E k \in 1..m : \E j \in 1..Len(b[k]) : b[k][j] = x
  /\ \A k, l \in 1..m : \A i \in 1..Len(b[k]), j \in 1..Len(b[l]) : b[k][i] = b[l][j] => k = l /\ i = j
  /\ \A e \in edges : \A k, l \in 1..m : \A i \in 1..Len(b[k]), j \in 1..Len(b[l]) :
       e[1] = b[k][i] /\ e[2] = b[l][j] => k < l

\* What is new in each layer makes such batches.
LEMMA LayersMakeBatches ==
  ASSUME NEW n \in Nat, NEW edges, NEW L, IsLayering(L, 1..n, edges, n), L[n] = 1..n,
         NEW m \in 0..n, {k \in 1..n : L[k] # L[k - 1]} = 1..m, L[m] = L[n],
         \A j, k \in 0..n : j <= k => L[j] \subseteq L[k],
         NEW b, b = [k \in 1..m |-> InOrder(L[k] \ L[k - 1])]
  PROVE  Batched(b, m, n, edges)
  <1> DEFINE S(k) == L[k] \ L[k - 1]
  <1>1. /\ \A k \in 0..n : L[k] \in SUBSET (1..n)
        /\ L[0] = {} /\ \A k \in 1..n : L[k] = After(1..n, edges, L[k - 1])
    BY DEF IsLayering
  <1>2. ASSUME NEW k \in 1..m PROVE Lists(b[k], S(k)) /\ S(k) \in SUBSET (1..n)
    <2>1. S(k) \in SUBSET (1..n) /\ b[k] = InOrder(S(k))
      BY <1>1
    <2> HIDE DEF S
    <2>2. PICK s : s = S(k)
      OBVIOUS
    <2>3. Lists(InOrder(s), s)
      BY ONLY n \in Nat, <2>1, <2>2, InOrderLists
    <2> QED BY ONLY <2>1, <2>2, <2>3
  <1> HIDE DEF S
  <1>3. \A k \in 1..m : \A j \in 1..Len(b[k]) : b[k][j] \in L[k] /\ b[k][j] \notin L[k - 1]
    <2>1. SUFFICES ASSUME NEW k \in 1..m, NEW j \in 1..Len(b[k]) PROVE b[k][j] \in S(k)
      BY DEF S
    <2>2. b[k] \in Seq(S(k))
      BY <1>2 DEF Lists
    <2>3. PICK s, T : s = b[k] /\ T = S(k)
      OBVIOUS
    <2>4. s \in Seq(T) /\ j \in 1..Len(s)
      BY <2>2, <2>3
    <2>5. s[j] \in T
      BY ONLY <2>4, ElementOfSeq
    <2> QED BY ONLY <2>3, <2>5
  <1>4. ASSUME NEW x \in 1..n PROVE \E k \in 1..m : \E j \in 1..Len(b[k]) : b[k][j] = x
    <2> DEFINE M == {k \in 0..n : x \in L[k]}
    <2>1. PICK k \in M : \A l \in M : k <= l
      <3>1. M \subseteq 0..n /\ n \in M
        OBVIOUS
      <3> HIDE DEF M
      <3> QED BY <3>1, LeastMember
    <2>2. k # 0
      BY <1>1, <2>1
    <2>3. k \in 1..n /\ k - 1 \in 0..n /\ ~(k <= k - 1)
      BY <2>1, <2>2
    <2>4. x \in L[k] /\ x \notin L[k - 1]
      BY <2>1, <2>3
    <2>5. k \in 1..m
      BY <2>3, <2>4
    <2>6. x \in S(k)
      BY <2>4 DEF S
    <2>7. \E j \in 1..Len(b[k]) : b[k][j] = x
      BY ONLY <1>2, <2>5, <2>6 DEF Lists
    <2> QED BY ONLY <2>5, <2>7
  <1>5. ASSUME NEW k \in 1..m, NEW l \in 1..m, NEW x, x \in L[k], x \notin L[l - 1] PROVE ~(k < l)
    <2>1. k < l => k \in 0..n /\ l - 1 \in 0..n /\ k <= l - 1
      OBVIOUS
    <2> QED BY <1>5, <2>1
  <1>6. ASSUME NEW k \in 1..m, NEW l \in 1..m, NEW i \in 1..Len(b[k]), NEW j \in 1..Len(b[l]), b[k][i] = b[l][j]
        PROVE  k = l /\ i = j
    <2>1. PICK x : x = b[k][i]
      OBVIOUS
    <2>2. x \in L[k] /\ x \notin L[k - 1] /\ x \in L[l] /\ x \notin L[l - 1]
      BY ONLY <1>3, <1>6, <2>1
    <2>3. ~(k < l)
      BY ONLY <1>5, <2>2
    <2>4. ~(l < k)
      BY ONLY <1>5, <2>2
    <2>5. k = l
      BY ONLY n \in Nat, m \in 0..n, k \in 1..m, l \in 1..m, <2>3, <2>4
    <2>6. \A a, c \in 1..Len(b[k]) : b[k][a] = b[k][c] => a = c
      BY ONLY <1>2 DEF Lists
    <2> QED BY ONLY <1>6, <2>5, <2>6
  <1>7. ASSUME NEW e \in edges, NEW k \in 1..m, NEW l \in 1..m, NEW i \in 1..Len(b[k]), NEW j \in 1..Len(b[l]),
               e[1] = b[k][i], e[2] = b[l][j]
        PROVE  k < l
    <2>1. e[2] \in L[l] /\ e[1] \notin L[k - 1]
      BY <1>3, <1>7
    <2>2. l \in 1..n /\ l - 1 \in 0..n
      OBVIOUS
    <2>3. e[1] \in L[l - 1]
      BY <1>1, <2>1, <2>2 DEF After
    <2>4. k <= l - 1
      <3>1. ~(l - 1 <= k - 1)
        <4>1. k - 1 \in 0..n
          OBVIOUS
        <4> QED BY <2>1, <2>2, <2>3, <4>1
      <3> QED BY <3>1
    <2> QED BY <2>4
  <1>8. DOMAIN b = 1..m
    OBVIOUS
  <1>9. \A k \in 1..m : b[k] \in Seq(1..n)
    <2>1. ASSUME NEW k \in 1..m PROVE b[k] \in Seq(1..n)
      <3>1. b[k] \in Seq(S(k)) /\ S(k) \subseteq 1..n
        BY <1>2 DEF Lists
      <3>2. PICK s, T, V : s = b[k] /\ T = S(k) /\ V = 1..n
        OBVIOUS
      <3>3. s \in Seq(T) /\ T \subseteq V
        BY ONLY <3>1, <3>2
      <3>4. Len(s) \in Nat /\ s \in [1..Len(s) -> T]
        BY ONLY <3>3, LenProperties
      <3>5. s \in [1..Len(s) -> V]
        BY ONLY <3>3, <3>4
      <3>6. s \in Seq(V)
        BY ONLY <3>4, <3>5, FunctionIsSeq
      <3> QED BY ONLY <3>2, <3>6
    <2> QED BY ONLY <2>1
  <1> QED BY ONLY <1>4, <1>6, <1>7, <1>8, <1>9 DEF Batched

\* Updates of the program's own tables are put in batches.
LEMMA UpdatesAreBatched ==
  ASSUME NEW n \in Nat, NEW updates, AreUpdates(updates, n), Len(updates) = n
  PROVE  /\ SequencePiUpdatesInPlace(Info, updates).ok
         /\ \E m \in 0..n : Batched(SequencePiUpdatesInPlace(Info, updates).batches, m, n,
                                    BuildDependencyGraph(Info, updates))
  <1> DEFINE edges == BuildDependencyGraph(Info, updates)
             L == Layers(DOMAIN updates, edges)
             used == {k \in 1..Len(updates) : L[k] # L[k - 1]}
             m == Cardinality(used)
             b == [k \in 1..m |-> InOrder(L[k] \ L[k - 1])]
  <1>1. DOMAIN updates = 1..n /\ IsFiniteSet(1..n) /\ Cardinality(1..n) = n
    BY FS_Interval DEF AreUpdates
  <1>2. L[n] = 1..n
    BY <1>1, UpdatesAreInNoCycle
  <1>3. ~\E j \in DOMAIN updates : updates[j].entity.table = MulticastTable
    BY DEF AreUpdates
  <1>4. SequencePiUpdatesInPlace(Info, updates) = [ok |-> TRUE, batches |-> b]
    <2>1. SequencePiUpdatesInPlace(Info, updates)
            = IF \/ \E j \in DOMAIN updates : updates[j].entity.table = MulticastTable
                 \/ L[Len(updates)] # DOMAIN updates
              THEN [ok |-> FALSE] ELSE [ok |-> TRUE, batches |-> b]
      BY Zenon DEF SequencePiUpdatesInPlace
    <2> HIDE DEF L, b
    <2> QED BY <1>1, <1>2, <1>3, <2>1
  <1>5. IsLayering(L, 1..n, edges, n)
    BY <1>1, LayersFacts
  <1> HIDE DEF edges, L
  <1>6. /\ m \in 0..n /\ used = 1..m /\ L[m] = L[n] /\ \A j, k \in 0..n : j <= k => L[j] \subseteq L[k]
    <2>1. used = {k \in 1..n : L[k] # L[k - 1]}
      OBVIOUS
    <2> HIDE DEF used
    <2> QED BY <1>5, <2>1, LayersAreUsedInTurn
  <1>7. {k \in 1..n : L[k] # L[k - 1]} = 1..m
    BY <1>6
  <1> HIDE DEF m
  <1>8. Batched(b, m, n, edges)
    BY <1>2, <1>5, <1>6, <1>7, LayersMakeBatches
  <1> HIDE DEF b
  <1>9. SequencePiUpdatesInPlace(Info, updates).ok /\ SequencePiUpdatesInPlace(Info, updates).batches = b
    BY <1>4
  <1> QED BY <1>6, <1>8, <1>9 DEF edges

\* Division rounds down.
LEMMA Quotient ==
  ASSUME NEW a \in Nat, NEW d \in Nat, d # 0, NEW q, q = a \div d
  PROVE  q \in Nat /\ d * q <= a /\ a < d * q + d
  OBVIOUS

\* Products of a factor that is not 0 are as their other factors.
LEMMA Multiples ==
  ASSUME NEW d \in Nat, d # 0, NEW a \in Int, NEW b \in Int
  PROVE  /\ a < b => d * a + d <= d * b
         /\ a <= b => d * a <= d * b
  <1>1. d * a \in Int /\ d * b \in Int /\ d * (b - a) = d * b - d * a /\ d * (b - a) \in Int
    OBVIOUS
  <1>2. b - a >= 1 => d * (b - a) >= d
    OBVIOUS
  <1>3. b - a >= 0 => d * (b - a) >= 0
    OBVIOUS
  <1> QED BY <1>1, <1>2, <1>3

\* The piece that position j of a batch is in, and the positions of a piece.
PieceOf(j, max) == (j - 1) \div max + 1
FirstIn(p, max) == max * (p - 1) + 1
LastIn(p, max, pieces, len) == IF p = pieces THEN len ELSE max * p

IsPiece(p, max, pieces, len) ==
  LET lo == FirstIn(p, max)
      hi == LastIn(p, max, pieces, len)
  IN /\ lo \in Int /\ hi \in Int /\ 1 <= lo /\ lo <= hi /\ hi <= len /\ hi - lo + 1 <= max
     /\ \A j \in 1..len : (lo <= j /\ j <= hi) <=> PieceOf(j, max) = p

\* The pieces cover a batch: every position is in just one, and none is empty
\* or longer than the limit.
LEMMA PiecesCover ==
  ASSUME NEW len \in Nat, NEW max \in Nat, max # 0, NEW pieces, pieces = (len + max - 1) \div max
  PROVE  /\ pieces \in Nat
         /\ \A p \in 1..pieces : IsPiece(p, max, pieces, len)
         /\ \A j \in 1..len : PieceOf(j, max) \in 1..pieces
  <1>1. pieces \in Nat /\ max * pieces <= len + max - 1 /\ len + max - 1 < max * pieces + max
    <2>1. PICK a : a = len + max - 1
      OBVIOUS
    <2>2. a \in Nat /\ pieces = a \div max
      BY <2>1
    <2>3. pieces \in Nat /\ max * pieces <= a /\ a < max * pieces + max
      BY ONLY max \in Nat, max # 0, <2>2, Quotient
    <2> QED BY <2>1, <2>3
  <1>2. max * pieces \in Int /\ len <= max * pieces
    BY <1>1
  <1>3. ASSUME NEW j \in 1..len
        PROVE  /\ PieceOf(j, max) \in Nat /\ PieceOf(j, max) - 1 \in Nat
               /\ max * (PieceOf(j, max) - 1) < j
               /\ j <= max * (PieceOf(j, max) - 1) + max
    <2>1. PICK a, q : a = j - 1 /\ q = a \div max
      OBVIOUS
    <2>2. a \in Nat
      BY <2>1
    <2>3. q \in Nat /\ max * q <= a /\ a < max * q + max
      BY ONLY max \in Nat, max # 0, <2>1, <2>2, Quotient
    <2>4. PieceOf(j, max) = q + 1 /\ PieceOf(j, max) - 1 = q /\ PieceOf(j, max) \in Nat
      BY <2>1, <2>3 DEF PieceOf
    <2> QED BY <2>1, <2>3, <2>4
  <1>4. ASSUME NEW j \in 1..len PROVE PieceOf(j, max) \in 1..pieces
    <2>1. PICK q : q = PieceOf(j, max) - 1
      OBVIOUS
    <2>2. q \in Nat /\ max * q < j /\ PieceOf(j, max) = q + 1
      BY <1>3, <2>1
    <2>3. pieces <= q => max * pieces <= max * q
      BY ONLY <1>1, <2>2, max \in Nat, max # 0, Multiples
    <2>4. max * q \in Int
      BY <2>2
    <2>5. q < pieces
      BY <1>1, <1>2, <2>2, <2>3, <2>4
    <2> QED BY <1>1, <2>2, <2>5
  <1>5. ASSUME NEW p \in 1..pieces PROVE IsPiece(p, max, pieces, len)
    <2>1. PICK q, lo, hi : q = p - 1 /\ lo = FirstIn(p, max) /\ hi = LastIn(p, max, pieces, len)
      OBVIOUS
    <2>2. q \in Nat /\ p \in Int /\ max * q \in Int /\ max * p \in Int /\ 0 <= max * q /\ max * p = max * q + max
      BY <1>1, <2>1
    <2>3. /\ lo = max * q + 1
          /\ hi = IF p = pieces THEN len ELSE max * p
      BY <2>1 DEF FirstIn, LastIn
    <2>4. max * q < len /\ (p # pieces => max * p < len)
      <3>1. max * q + max <= max * pieces
        <4>1. q < pieces /\ pieces \in Int /\ q \in Int
          BY <1>1, <2>1
        <4> QED BY ONLY <4>1, max \in Nat, max # 0, Multiples
      <3>2. p # pieces => max * p + max <= max * pieces
        <4>1. (p # pieces => p < pieces) /\ pieces \in Int
          BY <1>1
        <4> QED BY ONLY <2>2, <4>1, max \in Nat, max # 0, Multiples
      <3> QED BY <1>1, <1>2, <2>2, <3>1, <3>2
    <2>5. lo \in Int /\ hi \in Int /\ 1 <= lo /\ lo <= hi /\ hi <= len /\ hi - lo + 1 <= max
      BY <1>2, <2>2, <2>3, <2>4
    <2>6. ASSUME NEW j \in 1..len PROVE (lo <= j /\ j <= hi) <=> PieceOf(j, max) = p
      <3>1. PICK r : r = PieceOf(j, max) - 1
        OBVIOUS
      <3>2. /\ r \in Nat /\ max * r \in Int /\ max * r < j /\ j <= max * r + max
            /\ PieceOf(j, max) = r + 1 /\ r + 1 \in 1..pieces
        BY <1>3, <1>4, <3>1
      <3>3. CASE PieceOf(j, max) = p
        <4>1. r = q
          BY <2>1, <3>2, <3>3
        <4> QED BY <1>2, <2>2, <2>3, <3>2, <3>3, <4>1
      <3>4. CASE r < q
        <4>1. max * r + max <= max * q
          BY ONLY <2>2, <3>2, <3>4, max \in Nat, max # 0, Multiples
        <4>2. ~(lo <= j) /\ PieceOf(j, max) # p
          BY <2>1, <2>2, <2>3, <3>2, <3>4, <4>1
        <4> QED BY <4>2
      <3>5. CASE q < r
        <4>1. max * q + max <= max * r
          BY ONLY <2>2, <3>2, <3>5, max \in Nat, max # 0, Multiples
        <4>2. p # pieces
          BY <1>1, <2>1, <3>2, <3>5
        <4>3. ~(j <= hi) /\ PieceOf(j, max) # p
          BY <2>1, <2>2, <2>3, <3>2, <3>5, <4>1, <4>2
        <4> QED BY <4>3
      <3>6. r = q => PieceOf(j, max) = p
        BY <2>1, <3>2
      <3> QED BY <2>2, <3>2, <3>3, <3>4, <3>5, <3>6
    <2> QED BY <2>1, <2>5, <2>6 DEF IsPiece
  <1> QED BY <1>1, <1>4, <1>5

\* A batch s cut into requests: each is not empty and of at most max updates,
\* and has those of its piece.
IsCut(c, updates, s, max) ==
  /\ c \in Seq(Seq(Range(updates)))
  /\ \A p \in 1..Len(c) :
       /\ Len(c[p]) \in 1..max
       /\ Range(c[p]) = {updates[s[j]] : j \in {i \in 1..Len(s) : PieceOf(i, max) = p}}
  /\ \A j \in 1..Len(s) : PieceOf(j, max) \in 1..Len(c)

\* What Cut makes of a batch is such a cut.
LEMMA CutFacts ==
  ASSUME NEW n \in Nat, NEW updates, DOMAIN updates = 1..n, NEW s \in Seq(1..n), NEW max \in Nat, max # 0
  PROVE  IsCut(Cut(updates, s, max), updates, s, max)
  <1> DEFINE len == Len(s)
             P == Pieces(s, max)
             c == Cut(updates, s, max)
             T == Range(updates)
  <1>1. len \in Nat /\ P = (len + max - 1) \div max
    BY DEF Pieces
  <1>2. /\ P \in Nat
        /\ \A p \in 1..P : IsPiece(p, max, P, len)
        /\ \A j \in 1..len : PieceOf(j, max) \in 1..P
    <2> HIDE DEF P, len
    <2> QED BY <1>1, PiecesCover
  <1>3. \A j \in 1..len : s[j] \in 1..n
    BY ElementOfSeq
  <1>4. \A i \in 1..n : updates[i] \in T
    BY DEF Range
  <1>5. ASSUME NEW p \in 1..P
        PROVE  /\ c[p] \in Seq(T) /\ Len(c[p]) \in 1..max
               /\ Range(c[p]) = {updates[s[j]] : j \in {i \in 1..Len(s) : PieceOf(i, max) = p}}
    <2> DEFINE lo == FirstIn(p, max)
               hi == LastIn(p, max, P, len)
               w == Piece(s, max, p)
    <2>1. /\ lo \in Int /\ hi \in Int /\ 1 <= lo /\ lo <= hi /\ hi <= len /\ hi - lo + 1 <= max
          /\ \A j \in 1..len : (lo <= j /\ j <= hi) <=> PieceOf(j, max) = p
      <3>1. IsPiece(p, max, P, len)
        BY <1>2
      <3> HIDE DEF P, len
      <3> QED BY <3>1 DEF IsPiece
    <2>2. w = SubSeq(s, lo, hi)
      BY DEF Piece, FirstIn, LastIn
    <2> HIDE DEF lo, hi, len, P, w
    <2>3. PICK k : k = hi - lo + 1
      OBVIOUS
    <2>4. k \in 1..max /\ Len(w) = k /\ DOMAIN w = 1..k /\ \A i \in 1..k : w[i] = s[lo + i - 1]
      <3>1. lo \in 1..(Len(s) + 1) /\ hi \in (lo - 1)..Len(s)
        BY <1>1, <2>1 DEF len
      <3>2. /\ SubSeq(s, lo, hi) \in Seq(1..n) /\ Len(SubSeq(s, lo, hi)) = hi - lo + 1
            /\ \A i \in 1..(hi - lo + 1) : SubSeq(s, lo, hi)[i] = s[lo + i - 1]
        BY <3>1, SubSeqProperties
      <3>3. w \in Seq(1..n) /\ Len(w) = k /\ \A i \in 1..k : w[i] = s[lo + i - 1]
        BY <2>2, <2>3, <3>2
      <3>4. k \in 1..max
        BY <2>1, <2>3
      <3> QED BY <3>3, <3>4
    <2>5. c[p] = [i \in 1..k |-> updates[w[i]]]
      BY <2>4 DEF Cut, P, w
    <2> HIDE DEF c
    <2>6. \A i \in 1..k : lo + i - 1 \in 1..len /\ PieceOf(lo + i - 1, max) = p
      BY <1>1, <2>1, <2>3
    <2>7. \A i \in 1..k : c[p][i] = updates[s[lo + i - 1]] /\ c[p][i] \in T
      BY <1>3, <1>4, <2>4, <2>5, <2>6
    <2>8. c[p] \in Seq(T) /\ Len(c[p]) = k
      <3>1. c[p] \in [1..k -> T] /\ k \in Nat
        BY <2>4, <2>5, <2>7
      <3> HIDE DEF T
      <3> QED BY ONLY <3>1, FunctionIsSeq
    <2>9. Range(c[p]) = {updates[s[j]] : j \in {i \in 1..len : PieceOf(i, max) = p}}
      <3> DEFINE R == {updates[s[j]] : j \in {i \in 1..len : PieceOf(i, max) = p}}
      <3>1. Range(c[p]) = {c[p][i] : i \in 1..k}
        BY <2>5 DEF Range
      <3>2. \A i \in 1..k : c[p][i] \in R
        BY <2>6, <2>7
      <3>3. ASSUME NEW j \in 1..len, PieceOf(j, max) = p PROVE updates[s[j]] \in Range(c[p])
        <4>1. lo <= j /\ j <= hi
          BY <2>1, <3>3
        <4>2. PICK i : i = j - lo + 1
          OBVIOUS
        <4>3. i \in 1..k /\ lo + i - 1 = j
          BY <1>1, <2>1, <2>3, <4>1, <4>2
        <4> QED BY <2>7, <3>1, <4>3
      <3> QED BY <3>1, <3>2, <3>3
    <2> QED BY <2>4, <2>8, <2>9 DEF len
  <1>6. c \in Seq(Seq(T)) /\ Len(c) = P
    <2>1. c \in [1..P -> Seq(T)]
      <3>1. DOMAIN c = 1..P /\ c = [p \in 1..P |-> c[p]]
        BY DEF Cut
      <3> HIDE DEF c, P, T
      <3> QED BY <1>5, <3>1
    <2> HIDE DEF c, P, T
    <2>2. PICK Q : Q = Seq(T)
      OBVIOUS
    <2> QED BY ONLY <1>2, <2>1, <2>2, FunctionIsSeq
  <1> HIDE DEF c, P, T, len
  <1> QED BY <1>2, <1>5, <1>6 DEF IsCut, c, T, len

\* The update of index i is in request q[i] of R, of at most max updates, and
\* what it depends on is in an earlier one.
IsSending(R, updates, n, max, edges, q) ==
  /\ q \in [1..n -> 1..Len(R)]
  /\ R \in Seq(Seq(Range(updates)))
  /\ \A k \in 1..Len(R) : /\ Len(R[k]) \in 1..max
                          /\ Range(R[k]) = {updates[i] : i \in {j \in 1..n : q[j] = k}}
  /\ \A e \in edges : q[e[1]] < q[e[2]]

\* The pieces of the batches, one batch after the other, are such requests.
LEMMA PiecesAreSent ==
  ASSUME NEW n \in Nat, NEW updates, NEW max \in Nat, NEW edges, \A e \in edges : e[1] \in 1..n /\ e[2] \in 1..n,
         NEW m \in Nat, NEW b, Batched(b, m, n, edges),
         NEW cs, \A k \in 1..m : IsCut(cs[k], updates, b[k], max),
         NEW R, R \in Seq(Seq(Range(updates))), NEW o, Placed(R, cs, o, m)
  PROVE  \E q : IsSending(R, updates, n, max, edges, q)
  <1> DEFINE Sent(i, z) == \E k \in 1..m : \E j \in 1..Len(b[k]) : b[k][j] = i /\ z = o[k] + PieceOf(j, max)
             q == [i \in 1..n |-> CHOOSE z : Sent(i, z)]
  <1>1. ASSUME NEW k \in 1..m
        PROVE  /\ b[k] \in Seq(1..n) /\ o[k] \in Nat /\ Len(cs[k]) \in Nat
               /\ o[k] + Len(cs[k]) <= Len(R) /\ Len(R) \in Nat
               /\ \A j \in 1..Len(b[k]) : b[k][j] \in 1..n /\ PieceOf(j, max) \in 1..Len(cs[k])
               /\ \A p \in 1..Len(cs[k]) : R[o[k] + p] = cs[k][p]
    <2>1. b[k] \in Seq(1..n)
      BY DEF Batched
    <2>2. o[k] \in Nat /\ o[k] + Len(cs[k]) <= Len(R) /\ \A p \in 1..Len(cs[k]) : R[o[k] + p] = cs[k][p]
      BY DEF Placed
    <2>3. cs[k] \in Seq(Seq(Range(updates))) /\ \A j \in 1..Len(b[k]) : PieceOf(j, max) \in 1..Len(cs[k])
      BY DEF IsCut
    <2>4. Len(cs[k]) \in Nat /\ Len(R) \in Nat
      BY <2>3, LenProperties
    <2>5. \A j \in 1..Len(b[k]) : b[k][j] \in 1..n
      BY <2>1, ElementOfSeq
    <2> QED BY <2>1, <2>2, <2>3, <2>4, <2>5
  <1>2. ASSUME NEW k \in 1..m, NEW j \in 1..Len(b[k])
        PROVE  /\ q[b[k][j]] = o[k] + PieceOf(j, max)
               /\ q[b[k][j]] \in 1..Len(R)
    <2>1. PICK i, z : i = b[k][j] /\ z = o[k] + PieceOf(j, max)
      OBVIOUS
    <2>2. Sent(i, z)
      BY <2>1
    <2>3. \A y : Sent(i, y) => y = z
      <3>1. SUFFICES ASSUME NEW y, Sent(i, y) PROVE y = z
        OBVIOUS
      <3>2. PICK l \in 1..m : \E h \in 1..Len(b[l]) : b[l][h] = i /\ y = o[l] + PieceOf(h, max)
        BY <3>1
      <3>3. PICK h \in 1..Len(b[l]) : b[l][h] = i /\ y = o[l] + PieceOf(h, max)
        BY <3>2
      <3>4. l = k /\ h = j
        BY <2>1, <3>3 DEF Batched
      <3> QED BY <2>1, <3>3, <3>4
    <2> HIDE DEF Sent
    <2>4. q[i] = z
      BY <1>1, <2>1, <2>2, <2>3
    <2>5. z \in 1..Len(R)
      <3>1. PICK a, p, c, r : a = o[k] /\ p = PieceOf(j, max) /\ c = Len(cs[k]) /\ r = Len(R)
        OBVIOUS
      <3>2. a \in Nat /\ c \in Nat /\ r \in Nat /\ p \in 1..c /\ a + c <= r /\ z = a + p
        BY ONLY <1>1, <2>1, <3>1
      <3>3. z \in 1..r
        BY ONLY <3>2
      <3> QED BY ONLY <3>1, <3>3
    <2> HIDE DEF q
    <2> QED BY <2>1, <2>4, <2>5
  <1>3. ASSUME NEW i \in 1..n PROVE \E k \in 1..m : \E j \in 1..Len(b[k]) : b[k][j] = i
    BY DEF Batched
  <1>4. q \in [1..n -> 1..Len(R)]
    <2>1. \A i \in 1..n : q[i] \in 1..Len(R)
      <3> HIDE DEF q
      <3> QED BY <1>2, <1>3
    <2>2. q = [i \in 1..n |-> q[i]]
      OBVIOUS
    <2> HIDE DEF q
    <2> QED BY <2>1, <2>2
  <1> HIDE DEF q, Sent
  <1>5. ASSUME NEW z \in 1..Len(R)
        PROVE  Len(R[z]) \in 1..max /\ Range(R[z]) = {updates[i] : i \in {j \in 1..n : q[j] = z}}
    <2>1. PICK k \in 1..m : \E p \in 1..Len(cs[k]) : z = o[k] + p
      BY DEF Placed
    <2>2. PICK p \in 1..Len(cs[k]) : z = o[k] + p
      BY <2>1
    <2>3. R[z] = cs[k][p]
      BY <1>1, <2>2
    <2>4. /\ Len(cs[k][p]) \in 1..max
          /\ Range(cs[k][p]) = {updates[b[k][j]] : j \in {i \in 1..Len(b[k]) : PieceOf(i, max) = p}}
      BY DEF IsCut
    <2>5. ASSUME NEW j \in 1..Len(b[k]), PieceOf(j, max) = p
          PROVE  b[k][j] \in 1..n /\ q[b[k][j]] = z
      BY <1>1, <1>2, <2>2, <2>5
    <2>6. ASSUME NEW i \in 1..n, q[i] = z PROVE \E j \in 1..Len(b[k]) : PieceOf(j, max) = p /\ b[k][j] = i
      <3>1. PICK l \in 1..m : \E j \in 1..Len(b[l]) : b[l][j] = i
        BY <1>3
      <3>2. PICK j \in 1..Len(b[l]) : b[l][j] = i
        BY <3>1
      <3>3. o[l] + PieceOf(j, max) = o[k] + p
        BY <1>2, <2>2, <2>6, <3>2
      <3>4. PICK r : r = PieceOf(j, max)
        OBVIOUS
      <3>5. /\ o[l] \in Nat /\ o[k] \in Nat /\ Len(cs[l]) \in Nat /\ Len(cs[k]) \in Nat
            /\ r \in 1..Len(cs[l]) /\ o[l] + r = o[k] + p
        BY <1>1, <3>3, <3>4
      <3>6. (l < k => o[l] + Len(cs[l]) <= o[k]) /\ (k < l => o[k] + Len(cs[k]) <= o[l])
        BY DEF Placed
      <3>7. l = k
        <4>1. PICK a, c, d, g : a = o[l] /\ c = o[k] /\ d = Len(cs[l]) /\ g = Len(cs[k])
          OBVIOUS
        <4>2. /\ a \in Nat /\ c \in Nat /\ d \in Nat /\ g \in Nat /\ r \in 1..d /\ p \in 1..g /\ a + r = c + p
              /\ (l < k => a + d <= c) /\ (k < l => c + g <= a)
          BY ONLY <3>5, <3>6, <4>1, p \in 1..Len(cs[k])
        <4> QED BY ONLY <4>2, l \in 1..m, k \in 1..m, m \in Nat
      <3>8. r = p
        BY <3>5, <3>7
      <3> QED BY <3>2, <3>4, <3>7, <3>8
    <2>7. {updates[b[k][j]] : j \in {i \in 1..Len(b[k]) : PieceOf(i, max) = p}}
            = {updates[i] : i \in {j \in 1..n : q[j] = z}}
      BY <2>5, <2>6
    <2> QED BY <2>3, <2>4, <2>7
  <1>6. ASSUME NEW e \in edges PROVE q[e[1]] < q[e[2]]
    <2>1. PICK k \in 1..m : \E i \in 1..Len(b[k]) : b[k][i] = e[1]
      BY <1>3
    <2>2. PICK i \in 1..Len(b[k]) : b[k][i] = e[1]
      BY <2>1
    <2>3. PICK l \in 1..m : \E j \in 1..Len(b[l]) : b[l][j] = e[2]
      BY <1>3
    <2>4. PICK j \in 1..Len(b[l]) : b[l][j] = e[2]
      BY <2>3
    <2>5. k < l
      BY <2>2, <2>4 DEF Batched
    <2>6. o[k] + Len(cs[k]) <= o[l]
      BY <2>5 DEF Placed
    <2>7. PICK r, t : r = PieceOf(i, max) /\ t = PieceOf(j, max)
      OBVIOUS
    <2>8. q[e[1]] = o[k] + r /\ q[e[2]] = o[l] + t
      BY <1>2, <2>2, <2>4, <2>7
    <2>9. /\ o[k] \in Nat /\ o[l] \in Nat /\ Len(cs[k]) \in Nat /\ Len(cs[l]) \in Nat
          /\ r \in 1..Len(cs[k]) /\ t \in 1..Len(cs[l])
      BY <1>1, <2>7
    <2>10. PICK a, c, d : a = o[k] /\ c = o[l] /\ d = Len(cs[k])
      OBVIOUS
    <2>11. a \in Nat /\ c \in Nat /\ d \in Nat /\ r \in 1..d /\ t \in Nat /\ t # 0 /\ a + d <= c
      BY ONLY <2>6, <2>9, <2>10
    <2>12. a + r < c + t
      BY ONLY <2>11
    <2> QED BY ONLY <2>8, <2>10, <2>12
  <1>7. IsSending(R, updates, n, max, edges, q)
    BY <1>4, <1>5, <1>6 DEF IsSending
  <1> QED BY <1>7

\* Updates of the program's own tables are sent so.
LEMMA UpdatesAreSent ==
  ASSUME NEW n \in Nat, NEW updates, AreUpdates(updates, n), Len(updates) = n, NEW max \in Nat, max # 0
  PROVE  /\ SequencePiUpdatesIntoWriteRequests(Info, updates, max).ok
         /\ \E q : IsSending(SequencePiUpdatesIntoWriteRequests(Info, updates, max).requests,
                             updates, n, max, BuildDependencyGraph(Info, updates), q)
  <1> DEFINE edges == BuildDependencyGraph(Info, updates)
             batched == SequencePiUpdatesInPlace(Info, updates)
             b == batched.batches
             cs == [k \in DOMAIN b |-> Cut(updates, b[k], max)]
             R == FlattenSeq(cs)
             T == Seq(Range(updates))
  <1>1. SequencePiUpdatesIntoWriteRequests(Info, updates, max)
          = IF max <= 0 \/ ~batched.ok THEN [ok |-> FALSE] ELSE [ok |-> TRUE, requests |-> R]
    BY Zenon DEF SequencePiUpdatesIntoWriteRequests
  <1>2. batched.ok /\ \E m \in 0..n : Batched(b, m, n, edges)
    BY UpdatesAreBatched
  <1>3. PICK m \in 0..n : Batched(b, m, n, edges)
    BY <1>2
  <1> HIDE DEF batched, b
  <1>4. /\ SequencePiUpdatesIntoWriteRequests(Info, updates, max).ok
        /\ SequencePiUpdatesIntoWriteRequests(Info, updates, max).requests = R
    <2>1. ~(max <= 0)
      OBVIOUS
    <2> HIDE DEF R
    <2> QED BY <1>1, <1>2, <2>1
  <1>5. \A e \in edges : e[1] \in 1..n /\ e[2] \in 1..n
    BY DEF BuildDependencyGraph, AreUpdates
  <1> HIDE DEF edges
  <1>6. DOMAIN b = 1..m /\ DOMAIN updates = 1..n
    BY <1>3 DEF Batched, AreUpdates
  <1>7. ASSUME NEW k \in 1..m PROVE IsCut(cs[k], updates, b[k], max)
    <2>1. cs[k] = Cut(updates, b[k], max) /\ b[k] \in Seq(1..n)
      BY <1>3, <1>6 DEF Batched
    <2>2. PICK s : s = b[k]
      OBVIOUS
    <2>3. IsCut(Cut(updates, s, max), updates, s, max)
      BY <1>6, <2>1, <2>2, CutFacts
    <2> HIDE DEF cs
    <2> QED BY ONLY <2>1, <2>2, <2>3
  <1>8. cs \in [1..m -> Seq(T)]
    <2>1. cs = [k \in 1..m |-> cs[k]]
      BY <1>6
    <2>2. \A k \in 1..m : cs[k] \in Seq(T)
      BY <1>7 DEF IsCut
    <2> HIDE DEF cs, T
    <2> QED BY <2>1, <2>2
  <1> HIDE DEF cs, R
  <1>9. PICK V : V = T
    OBVIOUS
  <1>10. cs \in Seq(Seq(V)) /\ Len(cs) = m
    <2>1. PICK W : W = Seq(V)
      OBVIOUS
    <2>2. cs \in [1..m -> W] /\ m \in Nat
      BY <1>8, <1>9, <2>1
    <2> QED BY ONLY <2>1, <2>2, FunctionIsSeq
  <1>11. R \in Seq(V) /\ \E o : Placed(R, cs, o, m)
    BY ONLY <1>10, FlattenFacts DEF R
  <1>12. PICK o : Placed(R, cs, o, m)
    BY <1>11
  <1>13. \E q : IsSending(R, updates, n, max, edges, q)
    <2>1. m \in Nat /\ R \in Seq(Seq(Range(updates)))
      BY <1>9, <1>11
    <2> QED BY <1>3, <1>5, <1>7, <1>12, <2>1, PiecesAreSent
  <1> QED BY <1>4, <1>13 DEF edges

-----------------------------------------------------------------------------
(* No reference dangles on the way.                                        *)

\* The updates U of a switch that holds S: at most one for a key, and no
\* reference dangles once all are applied.
AreRequested(S, U) ==
  /\ \A u \in U : /\ u.type \in {"INSERT", "MODIFY", "DELETE"} /\ IsEntity(Info, u.entity)
                  /\ u.type = "INSERT" => \A f \in S : EntityKey(f) # EntityKey(u.entity)
                  /\ u.type = "DELETE" => u.entity \in S
                  /\ u.type = "MODIFY" => /\ u.entity \notin S
                                          /\ \E f \in S : EntityKey(f) = EntityKey(u.entity)
  /\ \A u, v \in U : EntityKey(u.entity) = EntityKey(v.entity) => u = v
  /\ Dangling(AppliedTo(S, U)) = {}

\* Every request that is sequenced is finite and of this form.
LEMMA RequestFacts ==
  ASSUME NEW S \in EntitySets, NEW U \in Requests(S)
  PROVE  IsFiniteSet(U) /\ AreRequested(S, U)
  <1>1. \A u \in U : u \in Updates(S)
    <2>1. PICK f \in [1..MaxUpdates -> Updates(S)] : U = Range(f)
      BY DEF Requests
    <2>2. \A j \in DOMAIN f : f[j] \in Updates(S)
      BY <2>1
    <2> QED BY <2>1, <2>2 DEF Range
  <1>2. OnePerKey({u.entity : u \in U}) /\ Dangling(AppliedTo(S, U)) = {}
    BY DEF Requests
  <1>3. /\ IsFiniteSet(S) /\ \A e \in S : IsEntity(Info, e)
        /\ IsFiniteSet(Writable) /\ \A e \in Writable : IsEntity(Info, e)
    BY EntitiesAssumption
  <1>4. ASSUME NEW u \in U
        PROVE  /\ u.type \in {"INSERT", "MODIFY", "DELETE"} /\ IsEntity(Info, u.entity)
               /\ u.type = "INSERT" => \A f \in S : EntityKey(f) # EntityKey(u.entity)
               /\ u.type = "DELETE" => u.entity \in S
               /\ u.type = "MODIFY" => /\ u.entity \notin S
                                       /\ \E f \in S : EntityKey(f) = EntityKey(u.entity)
               /\ u.entity \in S \cup Writable
               /\ u = [type |-> u.type, entity |-> u.entity]
    BY <1>1, <1>3 DEF Updates
  <1>5. ASSUME NEW u \in U, NEW v \in U, EntityKey(u.entity) = EntityKey(v.entity) PROVE u = v
    <2>1. u.entity = v.entity
      BY <1>2, <1>5 DEF OnePerKey
    <2>2. u.type = v.type
      BY <1>4, <1>5, <2>1
    <2> QED BY <1>4, <2>1, <2>2
  <1>6. IsFiniteSet(U)
    <2> DEFINE f == [u \in U |-> u.entity]
    <2>1. f \in [U -> S \cup Writable]
      BY <1>4
    <2>2. \A u, v \in U : f[u] = f[v] => u = v
      BY <1>5
    <2> HIDE DEF f
    <2>3. f \in Injection(U, S \cup Writable)
      BY <2>1, <2>2 DEF Injection, IsInjective
    <2>4. IsFiniteSet(S \cup Writable)
      BY <1>3, FS_Union
    <2> QED BY ONLY <2>3, <2>4, FS_Injection
  <1> QED BY <1>2, <1>4, <1>5, <1>6 DEF AreRequested

\* An update v waits for another, u.
WaitsFor(v, u) ==
  LET referrer(x, y) == ValuesReferredTo(Info, x.entity) \cap ReferencedValues(Info, y.entity) # {}
  IN \/ v.type \in {"INSERT", "MODIFY"} /\ u.type = "INSERT" /\ referrer(v, u)
     \/ v.type = "DELETE" /\ u.type = "DELETE" /\ referrer(u, v)

\* A reference is met by the key of an entity alone.
LEMMA SameKeySatisfies ==
  ASSUME NEW o, NEW d, NEW f, EntityKey(d) = EntityKey(f), Satisfies(o, d)
  PROVE  Satisfies(o, f)
  <1>1. d.table = f.table /\ d.matches = f.matches
    BY DEF EntityKey
  <1> QED BY <1>1 DEF Satisfies

\* What a switch held and no update deletes, it holds under the same key.
LEMMA KeptUnlessDeleted ==
  ASSUME NEW S, NEW W, NEW d \in S, \A w \in W : w.type = "DELETE" => EntityKey(w.entity) # EntityKey(d)
  PROVE  \E f \in AppliedTo(S, W) : EntityKey(f) = EntityKey(d)
  <1>1. CASE \A w \in W : EntityKey(w.entity) # EntityKey(d)
    <2>1. d \in AppliedTo(S, W)
      BY <1>1 DEF AppliedTo
    <2> QED BY <2>1
  <1>2. ASSUME NEW w \in W, EntityKey(w.entity) = EntityKey(d) PROVE \E f \in AppliedTo(S, W) : EntityKey(f) = EntityKey(d)
    <2>1. w.entity \in AppliedTo(S, W)
      BY <1>2 DEF AppliedTo
    <2> QED BY <1>2, <2>1
  <1> QED BY <1>1, <1>2

\* Part of the updates, with all that they wait for, leaves unmet only what
\* is excused.
LEMMA OnlyTheExcusedDangle ==
  ASSUME NEW S, \A e \in S : IsEntity(Info, e), OnePerKey(S), Dangling(S) = {},
         NEW U, AreRequested(S, U), \A u \in U : u.entity.table # MulticastTable,
         NEW W \in SUBSET U, \A v \in W, u \in U : WaitsFor(v, u) => u \in W,
         NEW e \in AppliedTo(S, W), NEW o \in Unmet(AppliedTo(S, W), e)
  PROVE  IsExcused(e, o, W, U)
  <1>1. o \in AllOutgoing(TableReferences, e) /\ \A d \in AppliedTo(S, W) : ~Satisfies(o, d)
    BY DEF Unmet
  <1>2. \A V : \A u \in V : u.type # "DELETE" => u.entity \in AppliedTo(S, V)
    BY DEF AppliedTo
  <1>3. \/ e \in S /\ \A u \in W : EntityKey(u.entity) # EntityKey(e)
        \/ \E v \in W : v.type # "DELETE" /\ e = v.entity
    BY DEF AppliedTo
  <1>4. ASSUME NEW d \in S, Satisfies(o, d)
        PROVE  \E w \in W : w.type = "DELETE" /\ EntityKey(w.entity) = EntityKey(d) /\ Satisfies(o, w.entity)
    <2>1. PICK w \in W : w.type = "DELETE" /\ EntityKey(w.entity) = EntityKey(d)
      <3>1. ASSUME NEW f \in AppliedTo(S, W), EntityKey(f) = EntityKey(d) PROVE FALSE
        BY <1>1, <1>4, <3>1, SameKeySatisfies
      <3> QED BY <3>1, KeptUnlessDeleted
    <2> QED BY <1>4, <2>1, SameKeySatisfies
  <1>5. ASSUME NEW f \in S, NEW p \in AllOutgoing(TableReferences, f) PROVE \E d \in S : Satisfies(p, d)
    BY DEF Dangling, Unmet
  <1>6. CASE e \in AppliedTo(S, U)
    <2>1. PICK d \in AppliedTo(S, U) : Satisfies(o, d)
      BY <1>1, <1>6 DEF AreRequested, Dangling, Unmet
    <2>2. PICK u \in U : u.type # "DELETE" /\ d = u.entity
      <3>1. ~(d \in S /\ \A u \in U : EntityKey(u.entity) # EntityKey(d))
        <4>1. SUFFICES ASSUME d \in S, \A u \in U : EntityKey(u.entity) # EntityKey(d) PROVE FALSE
          OBVIOUS
        <4>2. d \in AppliedTo(S, W)
          BY <4>1 DEF AppliedTo
        <4> QED BY <1>1, <2>1, <4>2
      <3> QED BY <2>1, <3>1 DEF AppliedTo
    <2>3. u \notin W
      BY <1>1, <1>2, <2>1, <2>2
    <2>4. u.type = "INSERT"
      <3>1. SUFFICES ASSUME u.type = "MODIFY" PROVE FALSE
        BY <2>2 DEF AreRequested
      <3>2. PICK f \in S : EntityKey(f) = EntityKey(d)
        BY <2>2, <3>1 DEF AreRequested
      <3>3. Satisfies(o, f)
        BY <2>1, <3>2, SameKeySatisfies
      <3>4. PICK w \in W : EntityKey(w.entity) = EntityKey(f)
        BY <1>4, <3>3
      <3>5. w = u
        BY <2>2, <3>2, <3>4 DEF AreRequested
      <3> QED BY <2>3, <3>5
    <2>5. CASE e \in S
      <3>1. PICK f \in S : Satisfies(o, f)
        BY <1>1, <1>5, <2>5
      <3>2. PICK w \in W : w.type = "DELETE" /\ Satisfies(o, w.entity)
        BY <1>4, <3>1
      <3>3. u \in U \ W /\ Satisfies(o, u.entity)
        BY <2>1, <2>2, <2>3
      <3> QED BY <2>4, <3>2, <3>3 DEF IsExcused
    <2>6. ASSUME NEW v \in W, v.type # "DELETE", e = v.entity PROVE FALSE
      <3>1. /\ IsEntity(Info, e) /\ e.table # MulticastTable /\ IsEntity(Info, d) /\ d.table # MulticastTable
            /\ v.type \in {"INSERT", "MODIFY"}
        BY <2>2, <2>6 DEF AreRequested
      <3>2. ValuesReferredTo(Info, e) \cap ReferencedValues(Info, d) # {}
        BY <1>1, <2>1, <3>1, ReferencesAreDependencies
      <3>3. WaitsFor(v, u)
        BY <2>2, <2>4, <2>6, <3>1, <3>2 DEF WaitsFor
      <3> QED BY <2>3, <3>3
    <2> QED BY <1>3, <2>5, <2>6
  <1>7. CASE e \notin AppliedTo(S, U)
    <2>1. e \in S /\ \A u \in W : EntityKey(u.entity) # EntityKey(e)
      BY <1>2, <1>3, <1>7
    <2>2. PICK u \in U : EntityKey(u.entity) = EntityKey(e)
      BY <1>7, <2>1 DEF AppliedTo
    <2>3. u \in U \ W
      BY <2>1, <2>2
    <2>4. CASE u.type = "MODIFY"
      BY <2>2, <2>3, <2>4 DEF IsExcused
    <2>5. u.type # "INSERT"
      BY <2>1, <2>2 DEF AreRequested
    <2>6. CASE u.type = "DELETE"
      <3>1. u.entity = e
        BY <2>1, <2>2, <2>6 DEF AreRequested, OnePerKey
      <3>2. PICK f \in S : Satisfies(o, f)
        BY <1>1, <1>5, <2>1
      <3>3. PICK w \in W : w.type = "DELETE" /\ Satisfies(o, w.entity)
        BY <1>4, <3>2
      <3>4. /\ IsEntity(Info, e) /\ e.table # MulticastTable
            /\ IsEntity(Info, w.entity) /\ w.entity.table # MulticastTable
        BY <3>1 DEF AreRequested
      <3>5. ValuesReferredTo(Info, e) \cap ReferencedValues(Info, w.entity) # {}
        BY <1>1, <3>3, <3>4, ReferencesAreDependencies
      <3>6. WaitsFor(w, u)
        BY <2>6, <3>1, <3>3, <3>5 DEF WaitsFor
      <3> QED BY <2>3, <3>6
    <2> QED BY <2>4, <2>5, <2>6 DEF AreRequested
  <1> QED BY <1>6, <1>7

\* What SequencedUpdatesNeverDangle says of the requests R.
SentUpTo(R, k) == UNION {Range(R[j]) : j \in 1..k}

AreSentSafely(R, S, all, max) ==
  /\ SentUpTo(R, Len(R)) = all
  /\ \A k \in DOMAIN R :
       /\ Len(R[k]) \in 1..max
       /\ Range(R[k]) \cap SentUpTo(R, k - 1) = {}
       /\ \A part \in SUBSET Range(R[k]) :
            LET done == SentUpTo(R, k - 1) \cup part
                switch == AppliedTo(S, done)
            IN \A e \in switch : \A o \in Unmet(switch, e) : IsExcused(e, o, done, all)

\* The list updates has each of the updates U once.
LEMMA SendingIsSafe ==
  ASSUME NEW S \in EntitySets, Dangling(S) = {}, NEW U \in Requests(S),
         \A u \in U : u.entity.table # MulticastTable,
         NEW n \in Nat, NEW updates, DOMAIN updates = 1..n, Range(updates) = U,
         \A i, j \in 1..n : updates[i] = updates[j] => i = j,
         NEW max, NEW R, NEW q, IsSending(R, updates, n, max, BuildDependencyGraph(Info, updates), q)
  PROVE  AreSentSafely(R, S, U, max)
  <1> DEFINE edges == BuildDependencyGraph(Info, updates)
  <1>1. /\ \A e \in S : IsEntity(Info, e)
        /\ OnePerKey(S) /\ AreRequested(S, U)
    BY RequestFacts, EntitiesAssumption
  <1>2. /\ \A i \in 1..n : q[i] \in 1..Len(R)
        /\ \A k \in 1..Len(R) : Len(R[k]) \in 1..max /\ Range(R[k]) = {updates[i] : i \in {j \in 1..n : q[j] = k}}
        /\ \A e \in edges : q[e[1]] < q[e[2]]
        /\ DOMAIN R = 1..Len(R) /\ Len(R) \in Nat
    BY LenProperties DEF IsSending
  <1>3. /\ \A u \in U : \E i \in 1..n : updates[i] = u
        /\ \A i \in 1..n : updates[i] \in U
    BY DEF Range
  <1> HIDE DEF edges
  <1>4. ASSUME NEW k \in 0..Len(R) PROVE \A i \in 1..n : updates[i] \in SentUpTo(R, k) <=> q[i] <= k
    <2>1. ASSUME NEW i \in 1..n, q[i] <= k PROVE updates[i] \in SentUpTo(R, k)
      <3>1. q[i] \in 1..k /\ q[i] \in 1..Len(R)
        BY <1>2, <2>1
      <3>2. updates[i] \in Range(R[q[i]])
        BY <1>2, <3>1
      <3> QED BY <3>1, <3>2 DEF SentUpTo
    <2>2. ASSUME NEW i \in 1..n, updates[i] \in SentUpTo(R, k) PROVE q[i] <= k
      <3>1. PICK j \in 1..k : updates[i] \in Range(R[j])
        BY <2>2 DEF SentUpTo
      <3>2. j \in 1..Len(R)
        BY <1>2
      <3>3. PICK h \in 1..n : q[h] = j /\ updates[h] = updates[i]
        BY <1>2, <3>1, <3>2
      <3>4. h = i
        BY <3>3
      <3> QED BY <3>3, <3>4
    <2> QED BY <2>1, <2>2
  <1>5. ASSUME NEW k \in 0..Len(R) PROVE SentUpTo(R, k) \subseteq U
    <2>1. ASSUME NEW j \in 1..k PROVE Range(R[j]) \subseteq U
      <3>1. j \in 1..Len(R)
        BY <1>2
      <3> QED BY <1>2, <1>3, <3>1
    <2> QED BY <2>1 DEF SentUpTo
  <1>6. SentUpTo(R, Len(R)) = U
    <2>1. Len(R) \in 0..Len(R)
      BY <1>2
    <2>2. \A i \in 1..n : q[i] <= Len(R)
      BY <1>2
    <2>3. ASSUME NEW u \in U PROVE u \in SentUpTo(R, Len(R))
      <3>1. PICK i \in 1..n : updates[i] = u
        BY <1>3
      <3> QED BY <1>4, <2>1, <2>2, <3>1
    <2> QED BY <1>5, <2>1, <2>3
  <1>7. ASSUME NEW k \in 1..Len(R), NEW part \in SUBSET Range(R[k])
        PROVE  \E W \in SUBSET U : /\ W = SentUpTo(R, k - 1) \cup part
                                   /\ \A v \in W, u \in U : WaitsFor(v, u) => u \in W
    <2>1. PICK W : W = SentUpTo(R, k - 1) \cup part
      OBVIOUS
    <2>2. k - 1 \in 0..Len(R)
      BY <1>2
    <2>3. \A v \in Range(R[k]) : \E j \in 1..n : q[j] = k /\ updates[j] = v
      BY <1>2
    <2>4. W \in SUBSET U
      BY <1>3, <1>5, <2>1, <2>2, <2>3
    <2>5. ASSUME NEW v \in W, NEW u \in U, WaitsFor(v, u) PROVE u \in W
      <3>1. PICK j \in 1..n : updates[j] = v /\ q[j] <= k
        <4>1. CASE v \in SentUpTo(R, k - 1)
          <5>1. PICK j \in 1..n : updates[j] = v
            BY <1>3, <2>4
          <5>2. q[j] <= k - 1 /\ q[j] \in Int
            BY <1>2, <1>4, <2>2, <4>1, <5>1
          <5> QED BY <5>1, <5>2
        <4>2. CASE v \in part
          <5>1. PICK j \in 1..n : q[j] = k /\ updates[j] = v
            BY <2>3, <4>2
          <5> QED BY <5>1
        <4> QED BY <2>1, <4>1, <4>2
      <3>2. PICK i \in 1..n : updates[i] = u
        BY <1>3
      <3>3. DependsOn(Info, updates, j, i)
        BY <2>5, <3>1, <3>2 DEF WaitsFor, DependsOn
      <3>4. PICK e : e = <<i, j>>
        OBVIOUS
      <3>5. e \in (DOMAIN updates) \X (DOMAIN updates) /\ e[1] = i /\ e[2] = j
        BY <3>4
      <3>6. e \in edges
        BY <3>3, <3>5 DEF edges, BuildDependencyGraph
      <3>7. q[i] < q[j]
        BY <1>2, <3>5, <3>6
      <3>8. q[i] <= k - 1
        BY <1>2, <3>1, <3>7
      <3>9. u \in SentUpTo(R, k - 1)
        BY <1>4, <2>2, <3>2, <3>8
      <3> QED BY <2>1, <3>9
    <2> QED BY <2>4, <2>5, <2>1
  <1>8. ASSUME NEW k \in 1..Len(R) PROVE Range(R[k]) \cap SentUpTo(R, k - 1) = {}
    <2>1. k - 1 \in 0..Len(R)
      BY <1>2
    <2>2. SUFFICES ASSUME NEW u \in Range(R[k]), u \in SentUpTo(R, k - 1) PROVE FALSE
      OBVIOUS
    <2>3. PICK i \in 1..n : q[i] = k /\ updates[i] = u
      BY <1>2
    <2>4. q[i] <= k - 1
      BY <1>4, <2>1, <2>2, <2>3
    <2> QED BY <2>3, <2>4
  <1>9. ASSUME NEW k \in 1..Len(R), NEW part \in SUBSET Range(R[k])
        PROVE  LET done == SentUpTo(R, k - 1) \cup part
                   switch == AppliedTo(S, done)
               IN \A e \in switch : \A o \in Unmet(switch, e) : IsExcused(e, o, done, U)
    <2>1. PICK W \in SUBSET U : /\ W = SentUpTo(R, k - 1) \cup part
                                /\ \A v \in W, u \in U : WaitsFor(v, u) => u \in W
      BY <1>7
    <2>2. \A e \in AppliedTo(S, W) : \A o \in Unmet(AppliedTo(S, W), e) : IsExcused(e, o, W, U)
      BY <1>1, <2>1, OnlyTheExcusedDangle
    <2> QED BY ONLY <2>1, <2>2
  <1> QED BY <1>2, <1>6, <1>8, <1>9, Zenon DEF AreSentSafely

\* Updates of the program's own tables are always put in order, and sent in
\* that order they leave no reference dangling but for the excused.
LEMMA SequencingKeepsReferences ==
  ASSUME WellCalled
  PROVE  SequencedUpdatesNeverDangle
  <1> DEFINE Result(updates, max) == SequencePiUpdatesIntoWriteRequests(Info, updates, max)
             Own(U) == \A u \in U : u.entity.table # MulticastTable
  <1>1. SUFFICES ASSUME call.op = "sequence"
                 PROVE  /\ Result(call.updates, call.max).ok <=> call.max > 0 /\ Own(Range(call.updates))
                        /\ Result(call.updates, call.max).ok =>
                             AreSentSafely(Result(call.updates, call.max).requests, call.held,
                                           Range(call.updates), call.max)
    BY Zenon DEF SequencedUpdatesNeverDangle, AreSentSafely, SentUpTo
  <1>2. PICK S \in EntitySets : Dangling(S) = {} /\ \E U \in Requests(S) : \E max \in BatchSizes : call = Sequenced(S, U, max)
    BY <1>1 DEF WellCalled, Idle
  <1>3. PICK U \in Requests(S) : \E max \in BatchSizes : call = Sequenced(S, U, max)
    BY <1>2
  <1>4. PICK max \in BatchSizes : call = Sequenced(S, U, max)
    BY <1>3
  <1>5. PICK updates : updates = SetToSeq(U)
    OBVIOUS
  <1>6. call.held = S /\ call.updates = updates /\ call.max = max /\ max \in Int
    BY <1>4, <1>5, BoundsAssumption DEF Sequenced
  <1>7. IsFiniteSet(U) /\ AreRequested(S, U)
    BY RequestFacts
  <1>8. PICK n : n = Cardinality(U)
    OBVIOUS
  <1>9. /\ n \in Nat /\ updates \in [1..n -> U]
        /\ \A j, k \in 1..n : updates[j] = updates[k] => j = k
        /\ \A x \in U : \E j \in 1..n : updates[j] = x
    BY <1>5, <1>7, <1>8, SetToSeqFacts
  <1>10. DOMAIN updates = 1..n /\ Range(updates) = U /\ Len(updates) = n
    <2>1. DOMAIN updates = 1..n /\ Range(updates) = U
      BY <1>9 DEF Range
    <2>2. Len(updates) = n
      BY ONLY <1>9, FunctionIsSeq
    <2> QED BY <2>1, <2>2
  <1>11. ASSUME Own(U), max > 0
         PROVE  Result(updates, max).ok /\ AreSentSafely(Result(updates, max).requests, S, U, max)
    <2>1. AreUpdates(updates, n) /\ max \in Nat /\ max # 0
      BY <1>6, <1>7, <1>9, <1>10, <1>11 DEF AreUpdates, AreRequested
    <2>2. Result(updates, max).ok /\ \E q : IsSending(Result(updates, max).requests, updates, n, max,
                                                      BuildDependencyGraph(Info, updates), q)
      BY <1>9, <1>10, <2>1, UpdatesAreSent
    <2> HIDE DEF Result
    <2>3. PICK R : R = Result(updates, max).requests
      OBVIOUS
    <2>4. PICK q : IsSending(R, updates, n, max, BuildDependencyGraph(Info, updates), q)
      BY <2>2, <2>3
    <2>5. AreSentSafely(R, S, U, max)
      BY <1>2, <1>9, <1>10, <1>11, <2>4, SendingIsSafe
    <2> QED BY <2>2, <2>3, <2>5
  <1>12. CASE ~(max > 0)
    <2>1. ~Result(updates, max).ok
      BY <1>6, <1>12 DEF SequencePiUpdatesIntoWriteRequests
    <2> QED BY <1>6, <1>12, <2>1
  <1>13. CASE ~Own(U)
    <2>1. \E j \in DOMAIN updates : updates[j].entity.table = MulticastTable
      BY <1>9, <1>10, <1>13
    <2>2. SequencePiUpdatesInPlace(Info, updates) = [ok |-> FALSE]
      BY <2>1 DEF SequencePiUpdatesInPlace
    <2>3. ~SequencePiUpdatesInPlace(Info, updates).ok
      BY <2>2
    <2>4. Result(updates, max) = [ok |-> FALSE]
      BY <2>3 DEF SequencePiUpdatesIntoWriteRequests
    <2>5. ~Result(updates, max).ok
      BY <2>4
    <2> HIDE DEF Result
    <2> QED BY <1>6, <1>10, <1>13, <2>5
  <1> HIDE DEF Result
  <1> QED BY <1>6, <1>10, <1>11, <1>12, <1>13

-----------------------------------------------------------------------------
(* Ranks.                                                                  *)

\* A set of numbers with a lower bound has a lowest member.
LEMMA LowestMember ==
  ASSUME NEW n \in Nat, NEW S, S \subseteq (-n)..0, S # {}
  PROVE  \E m \in S : \A k \in S : m <= k
  <1> DEFINE U == {k + n : k \in S}
  <1>1. U # {} /\ U \subseteq 0..n
    OBVIOUS
  <1>2. PICK u \in U : \A v \in U : u <= v
    <2> HIDE DEF U
    <2> QED BY ONLY n \in Nat, <1>1, LeastMember
  <1>3. PICK m \in S : u = m + n
    OBVIOUS
  <1>4. ASSUME NEW k \in S PROVE m <= k
    <2>1. k + n \in U /\ k \in Int /\ m \in Int
      OBVIOUS
    <2>2. u <= k + n
      BY <1>2, <2>1
    <2> QED BY <1>3, <2>1, <2>2
  <1> QED BY <1>4

\* The rank of a table by the ranks f of those it refers to.
Below(f, t) == {f[r.destination] - 1 : r \in GetOutgoingTableReferences(TableReferences, t)}
Rank(f, t) == CHOOSE m \in Below(f, t) \cup {0} : \A n \in Below(f, t) \cup {0} : m <= n
IsRanking(f) == f = [t \in DOMAIN Info.tables |-> Rank(f, t)]

\* It is below theirs.
LEMMA RankIsBelow ==
  ASSUME NEW k \in Nat, NEW f, NEW t,
         \A r \in TableReferences : r.source = t => f[r.destination] \in (-k)..0
  PROVE  /\ Rank(f, t) \in (-(k + 1))..0
         /\ \A r \in TableReferences : r.source = t => Rank(f, t) < f[r.destination]
  <1> DEFINE S == Below(f, t) \cup {0}
  <1>1. S \subseteq (-(k + 1))..0 /\ S # {} /\ k + 1 \in Nat
    BY DEF Below, GetOutgoingTableReferences
  <1>2. \E m \in S : \A n \in S : m <= n
    <2> HIDE DEF S
    <2> QED BY <1>1, LowestMember
  <1>3. Rank(f, t) \in S /\ \A n \in S : Rank(f, t) <= n
    BY <1>2 DEF Rank
  <1>4. ASSUME NEW r \in TableReferences, r.source = t PROVE Rank(f, t) < f[r.destination]
    <2>1. f[r.destination] - 1 \in S /\ f[r.destination] \in Int
      BY <1>4 DEF Below, GetOutgoingTableReferences
    <2>2. Rank(f, t) <= f[r.destination] - 1 /\ Rank(f, t) \in Int
      <3>1. Rank(f, t) \in (-(k + 1))..0
        BY <1>1, <1>3
      <3> QED BY <1>3, <2>1, <3>1
    <2> QED BY <2>1, <2>2
  <1> HIDE DEF S
  <1> QED BY <1>1, <1>3, <1>4

\* The tables layer by layer: one of a layer refers only to the one before.
AreTableLayers(L, K) ==
  /\ L[0] = {} /\ L[K] = DOMAIN Info.tables
  /\ \A k \in 1..K : \A t \in L[k] :
       t \in DOMAIN Info.tables /\ \A r \in TableReferences : r.source = t => r.destination \in L[k - 1]

\* References without a cycle have such layers.
LEMMA TableLayers ==
  \E K \in Nat : \E L : AreTableLayers(L, K)
  <1> DEFINE T == DOMAIN Info.tables
             K == Cardinality(T)
             L == Layers(T, TableEdges)
  <1>1. IsFiniteSet(T) /\ K \in Nat
    BY ProgramAssumption, FS_CardinalityType DEF IsProgram
  <1>2. IsLayering(L, T, TableEdges, K)
    BY <1>1, LayersFacts
  <1>3. L[K] = T
    BY ProgramAssumption DEF DependenciesFormACycle, TableEdges
  <1> HIDE DEF K, L
  <1>4. L[0] = {} /\ \A k \in 1..K : L[k] = After(T, TableEdges, L[k - 1])
    BY <1>2 DEF IsLayering
  <1>5. ASSUME NEW k \in 1..K, NEW t \in L[k], NEW r \in TableReferences, r.source = t
        PROVE  r.destination \in L[k - 1]
    <2>1. <<r.destination, r.source>> \in TableEdges
      BY DEF TableEdges
    <2>2. PICK e \in TableEdges : e[1] = r.destination /\ e[2] = t
      BY <1>5, <2>1
    <2> QED BY <1>4, <2>2 DEF After
  <1>6. \A k \in 1..K : \A t \in L[k] : t \in T
    BY <1>4 DEF After
  <1>7. AreTableLayers(L, K)
    BY <1>3, <1>4, <1>5, <1>6 DEF AreTableLayers
  <1> QED BY <1>1, <1>7

\* Ranks can be worked out: as many rounds as there are layers are enough,
\* since what a table refers to has its rank one round earlier.
LEMMA RankingExists == \E f : IsRanking(f)
  <1> DEFINE T == DOMAIN Info.tables
             F == [T -> Int]
             G == [f \in F |-> [t \in T |-> Rank(f, t)]]
             zero == [t \in T |-> 0]
  <1>1. PICK K \in Nat : \E L : AreTableLayers(L, K)
    BY TableLayers
  <1>2. PICK L : AreTableLayers(L, K)
    BY <1>1
  <1>3. /\ L[0] = {} /\ L[K] = T
        /\ \A k \in 1..K : \A t \in L[k] :
             t \in T /\ \A r \in TableReferences : r.source = t => r.destination \in L[k - 1]
    BY <1>2 DEF AreTableLayers
  <1>4. PICK g : IsIteration(g, G, zero, K)
    <2> HIDE DEF G, zero
    <2> QED BY <1>1, IterationExists
  <1>5. g[0] = zero /\ \A k \in 1..K : g[k] = G[g[k - 1]]
    <2> HIDE DEF G, zero
    <2> QED BY <1>1, <1>4 DEF IsIteration
  <1>6. \A k \in 0..K : g[k] \in [T -> (-k)..0]
    <2> DEFINE P == {k \in 0..K : g[k] \in [T -> (-k)..0]}
    <2>1. 0 \in P
      BY <1>5
    <2>2. \A k \in 0..K : k # K /\ k \in P => k + 1 \in P
      <3>1. SUFFICES ASSUME NEW k \in 0..K, k # K, g[k] \in [T -> (-k)..0] PROVE k + 1 \in P
        OBVIOUS
      <3>2. k + 1 \in 1..K /\ k + 1 \in 0..K /\ (k + 1) - 1 = k /\ k \in Nat
        BY <3>1
      <3>3. g[k] \in F
        BY <3>1
      <3>4. g[k + 1] = [t \in T |-> Rank(g[k], t)]
        BY <1>5, <3>2, <3>3
      <3>5. \A t \in T : Rank(g[k], t) \in (-(k + 1))..0
        <4>1. \A r \in TableReferences : g[k][r.destination] \in (-k)..0
          BY <3>1, ReferenceFields
        <4> QED BY <3>2, <4>1, RankIsBelow
      <3> QED BY <3>2, <3>4, <3>5
    <2> HIDE DEF P
    <2>3. \A k \in 0..K : k \in P
      BY ONLY K \in Nat, <2>1, <2>2, UpToInduction
    <2> QED BY <2>3 DEF P
  <1>7. \A k \in 0..K : g[k] \in F
    BY <1>6
  <1> DEFINE Q == {k \in 0..K : \A t \in L[k] : Rank(g[k], t) = g[k][t]}
  <1>8. 0 \in Q
    BY <1>3
  <1>9. \A k \in 0..K : k # K /\ k \in Q => k + 1 \in Q
    <2>1. SUFFICES ASSUME NEW k \in 0..K, k # K, k \in Q, NEW t \in L[k + 1]
                   PROVE  Rank(g[k + 1], t) = g[k + 1][t]
      OBVIOUS
    <2>2. k + 1 \in 1..K /\ k + 1 \in 0..K /\ (k + 1) - 1 = k
      BY <2>1
    <2>3. g[k + 1] = [x \in T |-> Rank(g[k], x)]
      BY <1>5, <1>7, <2>2
    <2>4. t \in T /\ \A r \in TableReferences : r.source = t => r.destination \in L[k]
      BY <1>3, <2>2
    <2>5. \A r \in TableReferences : r.source = t => g[k + 1][r.destination] = g[k][r.destination]
      BY <2>1, <2>3, <2>4, ReferenceFields
    <2>6. Below(g[k + 1], t) = Below(g[k], t)
      BY <2>5 DEF Below, GetOutgoingTableReferences
    <2>7. Rank(g[k + 1], t) = Rank(g[k], t)
      BY <2>6 DEF Rank
    <2> QED BY <2>3, <2>4, <2>7
  <1> HIDE DEF Q
  <1>10. K \in Q
    <2>1. \A k \in 0..K : k \in Q
      BY ONLY K \in Nat, <1>8, <1>9, UpToInduction
    <2> QED BY <2>1
  <1>11. \A t \in T : Rank(g[K], t) = g[K][t]
    BY <1>3, <1>10 DEF Q
  <1>12. g[K] \in F
    BY <1>7
  <1>13. IsRanking(g[K])
    BY <1>11, <1>12 DEF IsRanking
  <1> QED BY <1>13

\* DependencyRankByTableName ranks a table below all it refers to.
LEMMA RanksDescend ==
  /\ \A t \in DOMAIN Info.tables : Ranks[t] \in Int
  /\ \A r \in TableReferences : Ranks[r.source] < Ranks[r.destination]
  <1> DEFINE T == DOMAIN Info.tables
  <1>1. IsRanking(Ranks)
    BY RankingExists DEF Ranks, DependencyRankByTableName, IsRanking, Rank, Below
  <1>2. \A t \in T : Ranks[t] = Rank(Ranks, t)
    BY <1>1 DEF IsRanking
  <1>3. PICK K \in Nat : \E L : AreTableLayers(L, K)
    BY TableLayers
  <1>4. PICK L : AreTableLayers(L, K)
    BY <1>3
  <1> DEFINE P == {k \in 0..K : \A t \in L[k] : Ranks[t] \in (-k)..0}
  <1>5. 0 \in P
    BY <1>4 DEF AreTableLayers
  <1>6. \A k \in 0..K : k # K /\ k \in P => k + 1 \in P
    <2>1. SUFFICES ASSUME NEW k \in 0..K, k # K, k \in P, NEW t \in L[k + 1]
                   PROVE  Ranks[t] \in (-(k + 1))..0
      OBVIOUS
    <2>2. k + 1 \in 1..K /\ (k + 1) - 1 = k /\ k \in Nat
      BY <2>1
    <2>3. t \in T /\ \A r \in TableReferences : r.source = t => r.destination \in L[k]
      BY <1>4, <2>2 DEF AreTableLayers
    <2>4. \A r \in TableReferences : r.source = t => Ranks[r.destination] \in (-k)..0
      BY <2>1, <2>3
    <2>5. Rank(Ranks, t) \in (-(k + 1))..0
      BY <2>2, <2>4, RankIsBelow
    <2> QED BY <1>2, <2>3, <2>5
  <1> HIDE DEF P
  <1>7. \A k \in 0..K : k \in P
    BY ONLY K \in Nat, <1>5, <1>6, UpToInduction
  <1>8. \A t \in T : Ranks[t] \in (-K)..0
    <2>1. K \in P /\ L[K] = T
      BY <1>4, <1>7 DEF AreTableLayers
    <2> QED BY <2>1 DEF P
  <1>9. \A t \in T : Ranks[t] \in Int
    BY <1>8
  <1>10. ASSUME NEW r \in TableReferences PROVE Ranks[r.source] < Ranks[r.destination]
    <2>1. \A q \in TableReferences : q.source = r.source => Ranks[q.destination] \in (-K)..0
      BY <1>8, ReferenceFields
    <2>2. Rank(Ranks, r.source) < Ranks[r.destination]
      BY <2>1, RankIsBelow
    <2> QED BY <1>2, <2>2, ReferenceFields
  <1> QED BY <1>9, <1>10

-----------------------------------------------------------------------------
(* Sorting by rank.                                                        *)

\* Of n elements with ranks rk, those that come before the one at k.
First(rk, j, k) == rk[j] > rk[k] \/ (rk[j] = rk[k] /\ j < k)
Firsts(rk, n, k) == {j \in 1..n : First(rk, j, k)}
Place(rk, n, k) == Cardinality(Firsts(rk, n, k)) + 1

\* Places are numbers up to n, and are in the order of the elements.
LEMMA PlacesAreOrdered ==
  ASSUME NEW n \in Nat, NEW rk, \A j \in 1..n : rk[j] \in Int
  PROVE  /\ \A k \in 1..n : Place(rk, n, k) \in 1..n
         /\ \A j, k \in 1..n : First(rk, j, k) => Place(rk, n, j) < Place(rk, n, k)
         /\ \A j, k \in 1..n : j # k => First(rk, j, k) \/ First(rk, k, j)
  <1>1. IsFiniteSet(1..n) /\ Cardinality(1..n) = n
    BY FS_Interval
  <1>2. \A k \in 1..n : Firsts(rk, n, k) \in SUBSET (1..n) /\ k \notin Firsts(rk, n, k)
    BY DEF Firsts, First
  <1>3. \A k \in 1..n : IsFiniteSet(Firsts(rk, n, k)) /\ Cardinality(Firsts(rk, n, k)) \in Nat
    BY <1>1, <1>2, FS_Subset, FS_CardinalityType
  <1>4. ASSUME NEW k \in 1..n PROVE Place(rk, n, k) \in 1..n
    <2> DEFINE S == Firsts(rk, n, k)
    <2>1. S \subseteq 1..n /\ S # 1..n
      BY <1>2
    <2>2. Cardinality(S) < n
      <3> HIDE DEF S
      <3>1. PICK N : N = 1..n
        OBVIOUS
      <3>2. IsFiniteSet(N) /\ S \in SUBSET N /\ S # N /\ Cardinality(N) = n
        BY <1>1, <2>1, <3>1
      <3>3. Cardinality(S) <= Cardinality(N) /\ (Cardinality(S) = Cardinality(N) => S = N)
        BY ONLY <3>2, FS_Subset
      <3> QED BY <1>3, <3>2, <3>3, FS_CardinalityType, <2>1, <1>1 DEF S
    <2> QED BY <1>3, <2>2 DEF Place
  <1>5. ASSUME NEW j \in 1..n, NEW k \in 1..n, First(rk, j, k) PROVE Place(rk, n, j) < Place(rk, n, k)
    <2> DEFINE A == Firsts(rk, n, j)
               B == Firsts(rk, n, k)
    <2>1. A \subseteq B /\ j \in B /\ j \notin A
      BY <1>2, <1>5 DEF Firsts, First
    <2>2. IsFiniteSet(A) /\ IsFiniteSet(B) /\ Cardinality(A) \in Nat /\ Cardinality(B) \in Nat
      BY <1>3
    <2>3. Cardinality(A) < Cardinality(B)
      <3> HIDE DEF A, B
      <3>1. A \in SUBSET B /\ A # B
        BY <2>1
      <3>2. Cardinality(A) <= Cardinality(B) /\ (Cardinality(A) = Cardinality(B) => A = B)
        BY ONLY <2>2, <3>1, FS_Subset
      <3> QED BY <2>2, <3>1, <3>2
    <2> QED BY <2>2, <2>3 DEF Place
  <1>6. \A j, k \in 1..n : j # k => First(rk, j, k) \/ First(rk, k, j)
    BY DEF First
  <1> QED BY <1>4, <1>5, <1>6

\* Every place is taken, by one element, and ranks descend from place to place.
LEMMA PlacesAreTaken ==
  ASSUME NEW n \in Nat, NEW rk, \A j \in 1..n : rk[j] \in Int
  PROVE  /\ \A k \in 1..n : Place(rk, n, k) \in 1..n
         /\ \A p \in 1..n : \E k \in 1..n : Place(rk, n, k) = p
         /\ \A j, k \in 1..n : Place(rk, n, j) = Place(rk, n, k) => j = k
         /\ \A j, k \in 1..n : Place(rk, n, j) < Place(rk, n, k) => rk[j] >= rk[k]
  <1>1. /\ \A k \in 1..n : Place(rk, n, k) \in 1..n
        /\ \A j, k \in 1..n : First(rk, j, k) => Place(rk, n, j) < Place(rk, n, k)
        /\ \A j, k \in 1..n : j # k => First(rk, j, k) \/ First(rk, k, j)
    BY PlacesAreOrdered
  <1>2. \A j, k \in 1..n : Place(rk, n, j) = Place(rk, n, k) => j = k
    <2>1. SUFFICES ASSUME NEW j \in 1..n, NEW k \in 1..n, Place(rk, n, j) = Place(rk, n, k), j # k PROVE FALSE
      OBVIOUS
    <2>2. Place(rk, n, j) < Place(rk, n, k) \/ Place(rk, n, k) < Place(rk, n, j)
      BY <1>1, <2>1
    <2>3. Place(rk, n, j) \in Int /\ Place(rk, n, k) \in Int
      BY <1>1
    <2> QED BY <2>1, <2>2, <2>3
  <1>3. \A p \in 1..n : \E k \in 1..n : Place(rk, n, k) = p
    <2> DEFINE N == 1..n
               f == [k \in 1..n |-> Place(rk, n, k)]
    <2>1. IsFiniteSet(N) /\ Cardinality(N) = n
      BY FS_Interval
    <2>2. f \in [1..Cardinality(N) -> N] /\ \A j, k \in 1..Cardinality(N) : f[j] = f[k] => j = k
      BY <1>1, <1>2, <2>1
    <2>3. \A p \in N : \E k \in 1..Cardinality(N) : f[k] = p
      <3> HIDE DEF N, f
      <3> QED BY ONLY <2>1, <2>2, InjectionIsOnto
    <2> QED BY <2>1, <2>3
  <1>4. ASSUME NEW j \in 1..n, NEW k \in 1..n, Place(rk, n, j) < Place(rk, n, k) PROVE rk[j] >= rk[k]
    <2>1. Place(rk, n, j) \in Int /\ Place(rk, n, k) \in Int
      BY <1>1
    <2>2. ~First(rk, k, j)
      BY <1>1, <1>4, <2>1
    <2>3. rk[j] \in Int /\ rk[k] \in Int
      OBVIOUS
    <2> QED BY <2>2, <2>3 DEF First
  <1> QED BY <1>1, <1>2, <1>3, <1>4

\* The order of StableSortEntities: all entities once, by descending rank.
InRankOrder(s, S, n) ==
  /\ s \in [1..n -> S]
  /\ \A x \in S : \E p \in 1..n : s[p] = x
  /\ \A p, q \in 1..n : p < q => Ranks[s[p].table] >= Ranks[s[q].table]

\* Sorted, the members of a finite set are in that order.
LEMMA EntitiesAreSorted ==
  ASSUME NEW S, IsFiniteSet(S), \A e \in S : IsEntity(Info, e)
  PROVE  InRankOrder(StableSortEntities(Ranks, SetToSeq(S)), S, Cardinality(S))
  <1> DEFINE n == Cardinality(S)
             entities == SetToSeq(S)
             rk == [j \in 1..n |-> Ranks[entities[j].table]]
             first(j, k) == \/ GreaterThanInDependencyOrder(Ranks, entities[j], entities[k])
                            \/ Ranks[entities[j].table] = Ranks[entities[k].table] /\ j < k
             place(k) == Cardinality({j \in DOMAIN entities : first(j, k)}) + 1
             at == [p \in 1..n |-> CHOOSE k \in 1..n : place(k) = p]
             s == StableSortEntities(Ranks, entities)
  <1>1. n \in Nat /\ entities \in [1..n -> S] /\ \A x \in S : \E j \in 1..n : entities[j] = x
    BY SetToSeqFacts
  <1> HIDE DEF n, entities
  <1>2. DOMAIN entities = 1..n /\ \A j \in 1..n : entities[j] \in S
    BY <1>1
  <1>3. \A j \in 1..n : rk[j] = Ranks[entities[j].table] /\ rk[j] \in Int
    BY <1>2, RanksDescend DEF IsEntity
  <1>4. \A k \in 1..n : place(k) = Place(rk, n, k)
    <2>1. SUFFICES ASSUME NEW k \in 1..n
                   PROVE  {j \in DOMAIN entities : first(j, k)} = Firsts(rk, n, k)
      BY DEF Place
    <2> QED BY <1>2, <1>3 DEF Firsts, First, GreaterThanInDependencyOrder
  <1> HIDE DEF rk
  <1>5. /\ \A k \in 1..n : Place(rk, n, k) \in 1..n
        /\ \A p \in 1..n : \E k \in 1..n : Place(rk, n, k) = p
        /\ \A j, k \in 1..n : Place(rk, n, j) = Place(rk, n, k) => j = k
        /\ \A j, k \in 1..n : Place(rk, n, j) < Place(rk, n, k) => rk[j] >= rk[k]
    BY <1>1, <1>3, PlacesAreTaken
  <1>6. \A p \in 1..n : at[p] \in 1..n /\ Place(rk, n, at[p]) = p
    <2>1. SUFFICES ASSUME NEW p \in 1..n PROVE at[p] \in 1..n /\ Place(rk, n, at[p]) = p
      OBVIOUS
    <2>2. \E k \in 1..n : place(k) = p
      BY <1>4, <1>5
    <2> HIDE DEF place
    <2>3. at[p] \in 1..n /\ place(at[p]) = p
      BY <2>2
    <2> QED BY <1>4, <2>3
  <1>7. s = [p \in 1..n |-> entities[at[p]]]
    BY <1>2 DEF StableSortEntities
  <1> HIDE DEF at, s
  <1>8. s \in [1..n -> S]
    BY <1>2, <1>6, <1>7
  <1>9. ASSUME NEW x \in S PROVE \E p \in 1..n : s[p] = x
    <2>1. PICK k \in 1..n : entities[k] = x
      BY <1>1
    <2>2. PICK p \in 1..n : p = Place(rk, n, k)
      BY <1>5
    <2>3. at[p] = k
      BY <1>5, <1>6, <2>2
    <2> QED BY <1>7, <2>1, <2>3
  <1>10. ASSUME NEW p \in 1..n, NEW q \in 1..n, p < q PROVE Ranks[s[p].table] >= Ranks[s[q].table]
    <2>1. rk[at[p]] >= rk[at[q]]
      BY <1>5, <1>6, <1>10
    <2> QED BY <1>3, <1>6, <1>7, <2>1
  <1>11. InRankOrder(s, S, n)
    BY <1>8, <1>9, <1>10 DEF InRankOrder
  <1> QED BY <1>11 DEF s, n, entities

\* What an entity refers to has the higher rank.
LEMMA ReferencesRankHigher ==
  ASSUME NEW e, NEW d, NEW o \in AllOutgoing(TableReferences, e), Satisfies(o, d)
  PROVE  Ranks[e.table] < Ranks[d.table]
  <1>1. PICK r \in TableReferences : r.source = e.table /\ o = ConcreteTableReference(r, o.fields)
    BY OutgoingForm
  <1>2. o.destination = r.destination
    BY <1>1 DEF ConcreteTableReference
  <1>3. d.table = r.destination
    BY <1>2 DEF Satisfies
  <1> QED BY <1>1, <1>3, RanksDescend

\* So a part of the entities in which none is without those of higher rank has
\* no dangling reference.
LEMMA HigherRanksSuffice ==
  ASSUME NEW S, Dangling(S) = {}, NEW W \in SUBSET S,
         \A e \in W, d \in S : Ranks[e.table] < Ranks[d.table] => d \in W
  PROVE  Dangling(W) = {}
  <1>1. SUFFICES ASSUME NEW e \in W, NEW o \in Unmet(W, e) PROVE FALSE
    BY DEF Dangling
  <1>2. o \in AllOutgoing(TableReferences, e) /\ ~\E d \in W : Satisfies(o, d)
    BY <1>1 DEF Unmet
  <1>3. PICK d \in S : Satisfies(o, d)
    BY <1>2 DEF Dangling, Unmet
  <1>4. d \in W
    BY <1>2, <1>3, ReferencesRankHigher
  <1> QED BY <1>2, <1>3, <1>4

\* Deletions of all of S by ascending rank.
DeletesInOrder(d, S, n) ==
  /\ DOMAIN d = 1..n /\ Len(d) = n
  /\ \A i \in 1..n : d[i].entity \in S
  /\ \A x \in S : \E i \in 1..n : d[i].entity = x
  /\ \A i, j \in 1..n : i < j => Ranks[d[i].entity.table] <= Ranks[d[j].entity.table]

\* Numbers none of which is above the next ascend.
LEMMA NeighborsAscend ==
  ASSUME NEW n \in Nat, NEW f, \A j \in 1..n : f[j] \in Int, \A j \in 1..(n - 1) : f[j] <= f[j + 1]
  PROVE  \A i, j \in 1..n : i < j => f[i] <= f[j]
  <1>1. SUFFICES ASSUME NEW i \in 1..n PROVE \A j \in 1..n : i < j => f[i] <= f[j]
    OBVIOUS
  <1> DEFINE P == {j \in 0..n : i < j => f[i] <= f[j]}
  <1>2. 0 \in P
    OBVIOUS
  <1>3. \A k \in 0..n : k # n /\ k \in P => k + 1 \in P
    <2>1. SUFFICES ASSUME NEW k \in 0..n, k # n, k \in P, i < k + 1 PROVE f[i] <= f[k + 1]
      OBVIOUS
    <2>2. k \in 1..n /\ k \in 1..(n - 1) /\ k + 1 \in 1..n /\ (i < k \/ i = k)
      BY <2>1
    <2>3. f[k] <= f[k + 1] /\ f[i] \in Int /\ f[k] \in Int /\ f[k + 1] \in Int
      BY <2>2
    <2>4. f[i] <= f[k]
      BY <2>1, <2>2, <2>3
    <2> QED BY <2>3, <2>4
  <1> HIDE DEF P
  <1>4. \A k \in 0..n : k \in P
    BY ONLY n \in Nat, <1>2, <1>3, UpToInduction
  <1>5. \A j \in 1..n : j \in P
    BY <1>4
  <1> QED BY <1>5 DEF P

\* StableSortUpdates can reverse the order, and whatever it then makes of the
\* updates is in order.
LEMMA DeletesAreSorted ==
  ASSUME NEW S, \A e \in S : IsEntity(Info, e), NEW n \in Nat, NEW s, InRankOrder(s, S, n)
  PROVE  LET deletes == StableSortUpdates(Ranks, [j \in DOMAIN s |-> [type |-> "DELETE", entity |-> s[j]]], TRUE)
         IN deletes # {} /\ \A d \in deletes : DeletesInOrder(d, S, n)
  <1> DEFINE updates == [j \in DOMAIN s |-> [type |-> "DELETE", entity |-> s[j]]]
             orders == SetToSeqs(DOMAIN updates)
             Of(p) == [j \in DOMAIN updates |-> updates[p[j]]]
             isSorted(d) == \A j \in 1..(Len(d) - 1) : Ranks[d[j].entity.table] <= Ranks[d[j + 1].entity.table]
             deletes == StableSortUpdates(Ranks, updates, TRUE)
  <1>1. /\ DOMAIN s = 1..n /\ \A j \in 1..n : s[j] \in S
        /\ \A x \in S : \E p \in 1..n : s[p] = x
        /\ \A p, q \in 1..n : p < q => Ranks[s[p].table] >= Ranks[s[q].table]
    BY DEF InRankOrder
  <1>2. \A j \in 1..n : Ranks[s[j].table] \in Int
    BY <1>1, RanksDescend DEF IsEntity
  <1>3. DOMAIN updates = 1..n /\ \A j \in 1..n : updates[j].entity = s[j]
    BY <1>1
  <1>4. IsFiniteSet(1..n) /\ Cardinality(1..n) = n
    BY FS_Interval
  <1>5. orders = {p \in [1..n -> 1..n] : \A i, j \in 1..n : i # j => p[i] # p[j]}
    BY <1>3, <1>4 DEF SetToSeqs
  <1>6. deletes = {d \in {Of(p) : p \in orders} : isSorted(d)}
    BY DEF StableSortUpdates
  <1> HIDE DEF updates, orders, deletes
  <1>7. \A p \in orders : /\ DOMAIN Of(p) = 1..n /\ Len(Of(p)) = n
                          /\ \A j \in 1..n : p[j] \in 1..n /\ Of(p)[j].entity = s[p[j]]
    <2>1. SUFFICES ASSUME NEW p \in orders
                   PROVE  /\ DOMAIN Of(p) = 1..n /\ Len(Of(p)) = n
                          /\ \A j \in 1..n : p[j] \in 1..n /\ Of(p)[j].entity = s[p[j]]
      OBVIOUS
    <2>2. DOMAIN Of(p) = 1..n /\ \A j \in 1..n : p[j] \in 1..n /\ Of(p)[j].entity = s[p[j]]
      BY <1>3, <1>5
    <2>3. Len(Of(p)) = n
      <3>1. Of(p) \in [1..n -> Range(Of(p))]
        BY <2>2 DEF Range
      <3> HIDE DEF Of
      <3> QED BY ONLY n \in Nat, <3>1, FunctionIsSeq
    <2> QED BY <2>2, <2>3
  <1>8. ASSUME NEW d \in deletes PROVE DeletesInOrder(d, S, n)
    <2>1. PICK p \in orders : d = Of(p)
      BY <1>6
    <2>2. isSorted(d)
      BY <1>6
    <2>3. /\ DOMAIN d = 1..n /\ Len(d) = n
          /\ \A j \in 1..n : p[j] \in 1..n /\ d[j].entity = s[p[j]]
      BY <1>7, <2>1
    <2> HIDE DEF Of
    <2>4. \A j \in 1..n : d[j].entity \in S
      BY <1>1, <2>3
    <2>5. ASSUME NEW x \in S PROVE \E i \in 1..n : d[i].entity = x
      <3>1. PICK k \in 1..n : s[k] = x
        BY <1>1
      <3>2. PICK N : N = 1..n
        OBVIOUS
      <3>3. IsFiniteSet(N) /\ Cardinality(N) = n
        BY <1>4, <3>2
      <3>4. p \in [1..Cardinality(N) -> N] /\ \A i, j \in 1..Cardinality(N) : p[i] = p[j] => i = j
        BY <1>5, <3>2, <3>3
      <3>5. \A y \in N : \E i \in 1..Cardinality(N) : p[i] = y
        BY ONLY <3>3, <3>4, InjectionIsOnto
      <3>6. PICK i \in 1..n : p[i] = k
        BY <3>2, <3>3, <3>5
      <3> QED BY <2>3, <3>1, <3>6
    <2>6. \A i, j \in 1..n : i < j => Ranks[d[i].entity.table] <= Ranks[d[j].entity.table]
      <3> DEFINE f == [j \in 1..n |-> Ranks[d[j].entity.table]]
      <3>1. \A j \in 1..n : f[j] \in Int
        BY <1>2, <2>3
      <3>2. \A j \in 1..(n - 1) : f[j] <= f[j + 1]
        <4>1. \A j \in 1..(n - 1) : j \in 1..n /\ j + 1 \in 1..n
          OBVIOUS
        <4> QED BY <2>2, <2>3, <4>1
      <3>3. \A i, j \in 1..n : i < j => f[i] <= f[j]
        <4> HIDE DEF f
        <4> QED BY ONLY n \in Nat, <3>1, <3>2, NeighborsAscend
      <3> QED BY <3>3
    <2> QED BY <2>3, <2>4, <2>5, <2>6 DEF DeletesInOrder
  <1>9. deletes # {}
    <2> DEFINE p == [j \in 1..n |-> n + 1 - j]
    <2>1. p \in orders
      BY <1>5
    <2>2. /\ Len(Of(p)) = n /\ \A j \in 1..n : Of(p)[j].entity = s[n + 1 - j]
      BY <1>7, <2>1
    <2> HIDE DEF Of
    <2>3. ASSUME NEW j \in 1..(n - 1)
          PROVE  Ranks[Of(p)[j].entity.table] <= Ranks[Of(p)[j + 1].entity.table]
      <3>1. j \in 1..n /\ j + 1 \in 1..n /\ n + 1 - j \in 1..n /\ n - j \in 1..n /\ n + 1 - (j + 1) = n - j
        OBVIOUS
      <3>2. Of(p)[j].entity = s[n + 1 - j] /\ Of(p)[j + 1].entity = s[n - j]
        BY <2>2, <3>1
      <3>3. Ranks[s[n - j].table] >= Ranks[s[n + 1 - j].table]
        <4>1. n - j < n + 1 - j
          BY <3>1
        <4> QED BY <1>1, <3>1, <4>1
      <3>4. Ranks[s[n - j].table] \in Int /\ Ranks[s[n + 1 - j].table] \in Int
        BY <1>2, <3>1
      <3> HIDE DEF p
      <3> QED BY <3>2, <3>3, <3>4
    <2>4. isSorted(Of(p))
      <3> HIDE DEF p
      <3> QED BY <2>2, <2>3
    <2> QED BY <1>6, <2>1, <2>4
  <1> QED BY <1>8, <1>9 DEF deletes, updates

\* Entities installed and deleted by rank leave no reference dangling.
LEMMA SortingKeepsReferences ==
  ASSUME WellCalled
  PROVE  SortedUpdatesNeverDangle
  <1> DEFINE Sorted(S) == StableSortEntities(Ranks, SetToSeq(S))
             Deletes(s) == StableSortUpdates(Ranks, [j \in DOMAIN s |-> [type |-> "DELETE", entity |-> s[j]]], TRUE)
             Safe(s, deletes, S) ==
               /\ Range(s) = S /\ Len(s) = Cardinality(S)
               /\ \A k \in DOMAIN s : Dangling({s[j] : j \in 1..k}) = {}
               /\ deletes # {}
               /\ \A d \in deletes : \A k \in DOMAIN d : Dangling({d[j].entity : j \in k..Len(d)}) = {}
  <1>1. SUFFICES ASSUME call.op = "sort"
                 PROVE  Safe(Sorted(call.entities), Deletes(Sorted(call.entities)), call.entities)
    BY Zenon DEF SortedUpdatesNeverDangle
  <1>2. PICK S \in EntitySets : Dangling(S) = {} /\ call = [op |-> "sort", entities |-> S]
    BY <1>1 DEF WellCalled, Idle, Sequenced
  <1>3. call.entities = S /\ IsFiniteSet(S) /\ \A e \in S : IsEntity(Info, e)
    BY <1>2, EntitiesAssumption
  <1>4. PICK n : n = Cardinality(S)
    OBVIOUS
  <1>5. PICK s : s = Sorted(S)
    OBVIOUS
  <1>6. n \in Nat /\ InRankOrder(s, S, n)
    BY <1>3, <1>4, <1>5, EntitiesAreSorted, FS_CardinalityType
  <1>7. PICK deletes : deletes = Deletes(s)
    OBVIOUS
  <1>8. deletes # {} /\ \A d \in deletes : DeletesInOrder(d, S, n)
    BY <1>3, <1>6, <1>7, DeletesAreSorted
  <1> HIDE DEF Sorted, Deletes
  <1>9. /\ s \in [1..n -> S] /\ \A x \in S : \E p \in 1..n : s[p] = x
        /\ \A p, q \in 1..n : p < q => Ranks[s[p].table] >= Ranks[s[q].table]
    BY <1>6 DEF InRankOrder
  <1>10. Range(s) = S /\ Len(s) = n /\ DOMAIN s = 1..n
    <2>1. Range(s) = S /\ DOMAIN s = 1..n
      BY <1>9 DEF Range
    <2>2. Len(s) = n
      BY ONLY <1>6, <1>9, FunctionIsSeq
    <2> QED BY <2>1, <2>2
  <1>11. \A e \in S : Ranks[e.table] \in Int
    BY <1>3, RanksDescend DEF IsEntity
  <1>12. ASSUME NEW k \in 1..n PROVE Dangling({s[j] : j \in 1..k}) = {}
    <2> DEFINE W == {s[j] : j \in 1..k}
    <2>1. W \in SUBSET S
      BY <1>6, <1>9
    <2>2. ASSUME NEW e \in W, NEW d \in S, Ranks[e.table] < Ranks[d.table] PROVE d \in W
      <3>1. PICK j \in 1..k : e = s[j]
        OBVIOUS
      <3>2. PICK p \in 1..n : s[p] = d
        BY <1>9
      <3>3. j \in 1..n /\ e \in S
        BY <1>6, <2>1
      <3>4. ~(j < p)
        <4>1. j < p => Ranks[e.table] >= Ranks[d.table]
          BY <1>9, <3>1, <3>2, <3>3
        <4> QED BY <1>11, <2>2, <3>3, <4>1
      <3>5. p \in 1..k
        BY <1>6, <3>3, <3>4
      <3> QED BY <3>2, <3>5
    <2> HIDE DEF W
    <2>3. Dangling(W) = {}
      BY <1>2, <2>1, <2>2, HigherRanksSuffice
    <2> QED BY <2>3 DEF W
  <1>13. ASSUME NEW d \in deletes PROVE \A k \in DOMAIN d : Dangling({d[j].entity : j \in k..Len(d)}) = {}
    <2>1. /\ DOMAIN d = 1..n /\ Len(d) = n
          /\ \A i \in 1..n : d[i].entity \in S
          /\ \A x \in S : \E i \in 1..n : d[i].entity = x
          /\ \A i, j \in 1..n : i < j => Ranks[d[i].entity.table] <= Ranks[d[j].entity.table]
      BY <1>8 DEF DeletesInOrder
    <2>2. SUFFICES ASSUME NEW k \in 1..n PROVE Dangling({d[j].entity : j \in k..n}) = {}
      BY <2>1
    <2> DEFINE W == {d[j].entity : j \in k..n}
    <2>3. W \in SUBSET S
      BY <1>6, <2>1
    <2>4. ASSUME NEW e \in W, NEW x \in S, Ranks[e.table] < Ranks[x.table] PROVE x \in W
      <3>1. PICK j \in k..n : e = d[j].entity
        OBVIOUS
      <3>2. PICK i \in 1..n : d[i].entity = x
        BY <2>1
      <3>3. j \in 1..n /\ e \in S
        BY <1>6, <2>3
      <3>4. ~(i < j)
        <4>1. i < j => Ranks[x.table] <= Ranks[e.table]
          BY <2>1, <3>1, <3>2, <3>3
        <4> QED BY <1>11, <2>4, <3>3, <4>1
      <3>5. i \in k..n
        BY <1>6, <3>3, <3>4
      <3> QED BY <3>2, <3>5
    <2> HIDE DEF W
    <2>5. Dangling(W) = {}
      BY <1>2, <2>3, <2>4, HigherRanksSuffice
    <2> QED BY <2>5 DEF W
  <1>14. Safe(s, deletes, S)
    BY <1>4, <1>8, <1>10, <1>12, <1>13
  <1> HIDE DEF Safe
  <1> QED BY <1>3, <1>5, <1>7, <1>14

\* Updates sequenced by their dependencies, and entities sorted by rank, leave
\* no reference dangling on the way but for the excused, for every program
\* without a cycle and every set of entities.
THEOREM SequencingIsSafe == SequencingSpec => []UpdatesNeverDangle
  <1>1. ASSUME WellCalled PROVE UpdatesNeverDangle
    BY <1>1, SequencingKeepsReferences, SortingKeepsReferences DEF UpdatesNeverDangle
  <1> QED BY <1>1, CallsAreWell, PTL
=============================================================================

----------------------------- MODULE References -----------------------------
(***************************************************************************)
(* p4_infra/p4_pdpi: which entity refers to which (reference_annotations,  *)
(* references, entity_keys and the dependency ranks of ir).                *)
(*                                                                         *)
(* A P4 program, info, is a record of                                      *)
(*   tables : name -> [fields : name -> [optional : BOOLEAN,               *)
(*                                       refers_to, referenced_by : sets   *)
(*                                         of <<table, field>>],           *)
(*                     actions, default_only : sets of action names]       *)
(*   actions : name -> param name -> set of <<table, field>>, @refers_to   *)
(* The built-in multicast group table is one of the tables: its one field  *)
(* is multicast_group_id, its one action "replica" (port, instance).       *)
(* An entity is [table, priority, matches, actions]: matches a function on *)
(* the fields it sets, actions the sequence of its actions (one, those of  *)
(* its action set, or its replicas and their backups), each [name, params].*)
(***************************************************************************)
EXTENDS Integers, Sequences, FiniteSets, SequencesExt

MulticastTable == "multicast_group_table"
Replica == "replica"
ReplicaParams == {"port", "instance"}

Fields(info, table) == DOMAIN info.tables[table].fields
FieldIsOptional(info, table, field) == info.tables[table].fields[field].optional

\* What tells two entities apart: a multicast group is its id, and its match
\* here is just that.
EntityKey(e) == [table |-> e.table, priority |-> e.priority, matches |-> e.matches]

-----------------------------------------------------------------------------
(* The references a program declares.  A field reference has the action it *)
(* comes from, "" for a match field.                                       *)

FieldReference(action, source, destination, optional) ==
  [action |-> action, source |-> source, destination |-> destination, optional |-> optional]

\* @refers_to on the match fields of a table, by destination table.
RefersToOfTable(info, table, destination) ==
  UNION {{FieldReference("", f, r[2], FieldIsOptional(info, table, f)) :
            r \in {q \in info.tables[table].fields[f].refers_to : q[1] = destination}} :
           f \in Fields(info, table)}

\* @refers_to on the parameters of an action, by destination table.
RefersToOfAction(info, action, destination) ==
  UNION {{FieldReference(action, p, r[2], FALSE) :
            r \in {q \in info.actions[action][p] : q[1] = destination}} :
           p \in DOMAIN info.actions[action]}

\* @referenced_by on the fields of the destination: only the built-in table
\* may be named, its field or a parameter of its one action.
ReferencedByOfTable(info, table, destination) ==
  UNION {{FieldReference(IF r[2] \in ReplicaParams THEN Replica ELSE "", r[2], f, FALSE) :
            r \in {q \in info.tables[destination].fields[f].referenced_by : q[1] = table}} :
           f \in Fields(info, destination)}

\* Every <<table, field>> an @refers_to annotation names.
RefersToAnnotationsOf(info) ==
  (UNION {UNION {info.tables[t].fields[f].refers_to : f \in Fields(info, t)} : t \in DOMAIN info.tables})
  \cup (UNION {UNION {info.actions[a][p] : p \in DOMAIN info.actions[a]} : a \in DOMAIN info.actions})

\* The tables and fields annotations name exist, a referenced field is not
\* optional, @referenced_by names the built-in table, and no default action
\* has references.
AnnotationsAreSupported(info) ==
  /\ \A r \in RefersToAnnotationsOf(info) : /\ r[1] \in DOMAIN info.tables
                                           /\ r[2] \in Fields(info, r[1])
                                           /\ ~FieldIsOptional(info, r[1], r[2])
  /\ \A t \in DOMAIN info.tables :
       /\ \A f \in Fields(info, t) :
            LET by == info.tables[t].fields[f].referenced_by
            IN /\ by # {} => ~FieldIsOptional(info, t, f)
               /\ \A r \in by : /\ r[1] = MulticastTable
                                /\ r[2] \in ReplicaParams \cup {"multicast_group_id"}
       /\ \A a \in info.tables[t].default_only :
            \A p \in DOMAIN info.actions[a] : info.actions[a][p] = {}

\* One table reference per pair of tables; a table inherits the references of
\* the actions its entries may use.
ParseIrTableReferences(info) ==
  LET fields(src, dst) ==
        RefersToOfTable(info, src, dst)
          \cup (UNION {RefersToOfAction(info, a, dst) :
                         a \in info.tables[src].actions \cap DOMAIN info.actions})
          \cup ReferencedByOfTable(info, src, dst)
  IN {[source |-> p[1], destination |-> p[2], fields |-> fields(p[1], p[2])] :
        p \in {q \in (DOMAIN info.tables) \X (DOMAIN info.tables) : fields(q[1], q[2]) # {}}}

GetOutgoingTableReferences(references, table) == {r \in references : r.source = table}
GetIncomingTableReferences(references, table) == {r \in references : r.destination = table}

\* A P4 program that IrP4Info can be made of.  The built-in table's action is
\* not one of the program's own.
IsProgram(info) ==
  /\ IsFiniteSet(DOMAIN info.tables)
  /\ "" \notin DOMAIN info.actions
  /\ \A t \in DOMAIN info.tables :
       IF t = MulticastTable
       THEN /\ Fields(info, t) = {"multicast_group_id"} /\ ~FieldIsOptional(info, t, "multicast_group_id")
            /\ info.tables[t].actions = {Replica}
       ELSE info.tables[t].actions \subseteq DOMAIN info.actions \ {Replica}
  /\ AnnotationsAreSupported(info)

\* A well formed entity: its table, fields and actions exist, and an exact
\* field and every parameter has a value.
IsEntity(info, e) ==
  /\ e.table \in DOMAIN info.tables
  /\ DOMAIN e.matches \subseteq Fields(info, e.table)
  /\ \A f \in Fields(info, e.table) \ DOMAIN e.matches : FieldIsOptional(info, e.table, f)
  /\ \A a \in Range(e.actions) :
       /\ a.name \in info.tables[e.table].actions
       /\ DOMAIN a.params = IF a.name = Replica THEN ReplicaParams ELSE DOMAIN info.actions[a.name]

-----------------------------------------------------------------------------
(* Dependency ranks.                                                       *)

\* The nodes of a graph layer by layer: in layer k those all of whose edges
\* come from layer k - 1.  A node in a cycle, or behind one, is in none.
Layers(nodes, edges) ==
  LET layer[k \in 0..Cardinality(nodes)] ==
        IF k = 0 THEN {}
        ELSE LET done == layer[k - 1] IN {v \in nodes : \A e \in edges : e[2] = v => e[1] \in done}
  IN layer

\* A table met again while its rank is being worked out is in a cycle, or
\* refers to one.
DependenciesFormACycle(tables, references) ==
  Layers(tables, {<<r.destination, r.source>> : r \in references})[Cardinality(tables)] # tables

\* 0 for a table that refers to none, else one below the lowest of the tables
\* it refers to.  Only for references without a cycle.
DependencyRankByTableName(tables, references) ==
  LET rank[t \in tables] ==
        LET below == {rank[r.destination] - 1 : r \in GetOutgoingTableReferences(references, t)}
        IN CHOOSE m \in below \cup {0} : \A n \in below \cup {0} : m <= n
  IN rank

-----------------------------------------------------------------------------
(* The references of an entity: sets of [source, destination, value].      *)

Concrete(field, value) ==
  [source |-> <<field.action, field.source>>, destination |-> field.destination, value |-> value]

ConcreteTableReference(reference, fields) ==
  [source |-> reference.source, destination |-> reference.destination, fields |-> fields]

GetPartialReferenceFromAction(reference, action) ==
  {Concrete(f, action.params[f.source]) : f \in {g \in reference.fields : g.action = action.name}}

PartialReferenceFromMatch(reference, entity) ==
  {Concrete(f, entity.matches[f.source]) :
     f \in {g \in reference.fields : g.action = "" /\ g.source \in DOMAIN entity.matches}}

\* One reference per action, each with all that the match fields refer to;
\* the match fields alone when there is no action.
OutgoingConcreteTableReferences(reference, entity) ==
  LET match == PartialReferenceFromMatch(reference, entity)
      parts == IF entity.actions = <<>>
               THEN {match}
               ELSE {match \cup GetPartialReferenceFromAction(reference, a) : a \in Range(entity.actions)}
  IN {ConcreteTableReference(reference, p) : p \in parts \ {{}}}

ConcreteFieldReferenceFromDestinationMatchField(field, entity) ==
  Concrete(field, entity.matches[field.destination])

\* Mutation: the entity that refers to this one has every optional field.
IncomingWithEveryField(reference, entity) ==
  LET Of(fields) == {ConcreteFieldReferenceFromDestinationMatchField(f, entity) : f \in fields}
      actions == {f.action : f \in reference.fields}
      match == Of({f \in reference.fields : f.action = ""})
  IN {ConcreteTableReference(reference, match \cup Of({f \in reference.fields : f.action = a})) : a \in actions}

\* Whatever combination of its optional fields and whichever of its actions
\* the entity that refers to this one may have.
PossibleIncomingConcreteTableReferences(reference, entity) ==
  LET Of(fields) == {ConcreteFieldReferenceFromDestinationMatchField(f, entity) : f \in fields}
      actions == {f.action : f \in reference.fields} \ {""}
      optional == {f \in reference.fields : f.action = "" /\ f.optional}
      exact == {f \in reference.fields : f.action = "" /\ ~f.optional}
      match == {Of(exact \cup o) : o \in SUBSET optional}
      action == {Of({f \in reference.fields : f.action = a}) : a \in actions}
      parts == match \cup {p[1] \cup p[2] : p \in match \X action}
  IN {ConcreteTableReference(reference, p) : p \in parts \ {{}}}

AllOutgoing(references, entity) ==
  UNION {OutgoingConcreteTableReferences(r, entity) :
           r \in GetOutgoingTableReferences(references, entity.table)}

AllIncoming(references, entity) ==
  UNION {PossibleIncomingConcreteTableReferences(r, entity) :
           r \in GetIncomingTableReferences(references, entity.table)}

\* The entities with a reference none of the entities satisfies.
UnsatisfiedOutgoingReferences(references, entities) ==
  LET satisfiable == UNION {AllIncoming(references, e) : e \in entities}
  IN {e \in entities : ~(AllOutgoing(references, e) \subseteq satisfiable)}
=============================================================================

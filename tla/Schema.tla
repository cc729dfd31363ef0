------------------------------- MODULE Schema --------------------------------
(***************************************************************************)
(* The plan that registration compiles from the Go types of a handler, the *)
(* process-neutral input schema projected from it, and the validation the  *)
(* worker makes of the schema it is sent.                                  *)
(*                                                                         *)
(* Go types are a graph: a function `types' from names to records [kind,   *)
(* bits, elem, key, fields, codec], so types may be shared and cyclic.     *)
(* `codec' says that the type, or a pointer to it, implements one of the   *)
(* codec interfaces the direction rejects. A field [name, type, omitempty, *)
(* legal] has the name from its tag; it is legal when it is exported, not  *)
(* embedded and has no other tag or option.                                *)
(***************************************************************************)
EXTENDS Integers, Sequences, FiniteSets, SequencesExt

CONSTANTS
  Identifiers,      \* the names that are Starlark identifiers
  JSONNames,        \* the names that encoding/json accepts
  maxIntegerBits,   \* the width of int64
  byteBits          \* the width of uint8

ASSUME SchemaAssumption == Identifiers \subseteq JSONNames /\ maxIntegerBits \in Nat \ {0}

Scalars == {"string", "bool", "int", "uint", "float"}

-----------------------------------------------------------------------------
(* The compiler: the arena, the types compiled and being compiled, whether it *)
(* failed and the index of the node compiled last. Indexes start at 0.        *)

NewCompiler == [nodes |-> <<>>, done |-> <<>>, active |-> {}, err |-> FALSE, index |-> 0]
Rejected(c) == [c EXCEPT !.err = TRUE]
NodeAt(nodes, index) == nodes[index + 1]

AppendNode(c, node) == [c EXCEPT !.nodes = Append(@, node), !.index = Len(c.nodes)]
TypeNode(kind, typ, elem, fields) == [kind |-> kind, typ |-> typ, elem |-> elem, fields |-> fields]

\* compileFieldName: keyword arguments must be identifiers, other members JSON names.
compileFieldName(field, keyword) ==
  field.legal /\ field.name \in IF keyword THEN Identifiers ELSE JSONNames

\* One None cannot select a level of two.
NestingAllowed(types, dir, t) == TRUE
PointerAllowed(types, dir, t) == ~(dir = "input" /\ types[t.elem].kind = "pointer")

\* Byte sequences of an output are converted without compiling their element.
IsBytes(types, dir, t) ==
  LET elem == types[t.elem]
  IN dir = "output" /\ elem.kind = "uint" /\ elem.bits = byteBits /\ ~elem.codec

RECURSIVE compile(_, _, _, _, _)

\* A pointer, sequence or map around its compiled element.
Around(types, dir, c, typ, kind) ==
  LET elem == compile(types, dir, c, types[typ].elem, FALSE)
  IN IF elem.err THEN elem ELSE AppendNode(elem, TypeNode(kind, typ, elem.index, <<>>))

compileStruct(types, dir, c, typ, root) ==
  LET member(acc, field) ==
        LET d == compile(types, dir, acc.c, field.type, FALSE)
            refused == \/ ~compileFieldName(field, dir = "input" /\ root)
                       \/ field.omitempty /\ types[field.type].kind # "pointer"
                       \/ \E i \in DOMAIN acc.fields : acc.fields[i].name = field.name
        IN IF acc.c.err THEN acc
           ELSE IF refused THEN [acc EXCEPT !.c = Rejected(@)]
           ELSE [c |-> d, fields |-> Append(acc.fields, [name |-> field.name, node |-> d.index,
                                                         omitempty |-> field.omitempty])]
      all == FoldLeft(member, [c |-> c, fields |-> <<>>], types[typ].fields)
  IN IF all.c.err THEN all.c ELSE AppendNode(all.c, TypeNode("struct", typ, 0, all.fields))

compileNew(types, dir, c, typ, root) ==
  LET t == types[typ] IN
  IF t.codec THEN Rejected(c)
  ELSE IF t.kind \in Scalars THEN AppendNode(c, TypeNode(t.kind, typ, 0, <<>>))
  ELSE IF t.kind = "pointer" /\ PointerAllowed(types, dir, t)
    THEN Around(types, dir, c, typ, "pointer")
  ELSE IF t.kind = "slice" \/ (t.kind = "array" /\ dir = "output")
    THEN IF IsBytes(types, dir, t) THEN AppendNode(c, TypeNode("bytes", typ, 0, <<>>))
         ELSE Around(types, dir, c, typ, "list")
  ELSE IF t.kind = "map" /\ t.key = "string" THEN Around(types, dir, c, typ, "map")
  ELSE IF t.kind = "struct" THEN compileStruct(types, dir, c, typ, root)
  ELSE Rejected(c)

compile(types, dir, c, typ, root) ==
  LET d == compileNew(types, dir, [c EXCEPT !.active = @ \cup {typ}], typ, root)
  IN IF typ \in DOMAIN c.done THEN [c EXCEPT !.index = c.done[typ]]
     ELSE IF typ \in c.active THEN Rejected(c)
     ELSE IF d.err THEN d
     ELSE [d EXCEPT !.done = (typ :> d.index) @@ @, !.active = @ \ {typ}]

compileType(types, dir, typ) == compile(types, dir, NewCompiler, typ, TRUE)

-----------------------------------------------------------------------------
(* The input schema *)

InputNode(kind, elem, fields) ==
  [kind |-> kind, elem |-> elem, fields |-> fields, intMin |-> 0, intMax |-> 0, float32 |-> FALSE]

projectInputNode(types, node) ==
  LET bits == types[node.typ].bits
      maxInt64 == 2^(maxIntegerBits - 1) - 1
  IN IF node.kind = "int"
       THEN [InputNode("int", 0, <<>>) EXCEPT !.intMin = -(2^(bits - 1)), !.intMax = 2^(bits - 1) - 1]
     ELSE IF node.kind = "uint"
       THEN [InputNode("int", 0, <<>>)
               EXCEPT !.intMax = IF bits = maxIntegerBits THEN maxInt64 ELSE 2^bits - 1]
     ELSE IF node.kind = "float"
       THEN [InputNode("float", 0, <<>>) EXCEPT !.float32 = bits < maxIntegerBits]
     ELSE IF node.kind = "pointer" THEN InputNode("optional", node.elem, <<>>)
     ELSE InputNode(node.kind, node.elem,
                    [i \in DOMAIN node.fields |->
                       [name |-> node.fields[i].name, node |-> node.fields[i].node]])

projectInputSchema(types, root, nodes) ==
  [root |-> root, nodes |-> [i \in DOMAIN nodes |-> projectInputNode(types, nodes[i])]]

InvalidPlan == [ok |-> FALSE]

\* Compile: an input plan, its schema and an output plan, or ErrInvalidPlan.
Compile(types, inputType, outputType) ==
  LET in == compileType(types, "input", inputType)
      out == compileType(types, "output", outputType)
  IN IF \/ types[inputType].kind # "struct" \/ types[outputType].kind # "struct"
        \/ in.err \/ out.err
       THEN InvalidPlan
       ELSE [ok |-> TRUE, types |-> types, inputNodes |-> in.nodes,
             inputSchema |-> projectInputSchema(types, in.index, in.nodes),
             outputRoot |-> out.index, outputNodes |-> out.nodes]

-----------------------------------------------------------------------------
(* The worker's validation *)

validateInputStruct(index, node) ==
  /\ node.elem = 0
  /\ \A i \in DOMAIN node.fields :
       /\ node.fields[i].name \in JSONNames
       /\ \A j \in DOMAIN node.fields : node.fields[j].name = node.fields[i].name => i = j
       /\ node.fields[i].node \in 0..(index - 1)

validateInputNode(nodes, index, node) ==
  /\ node.kind # "int" => node.intMin = 0 /\ node.intMax = 0
  /\ node.float32 => node.kind = "float"
  /\ \/ /\ node.kind \in {"string", "bool", "float", "int"}
        /\ node.elem = 0 /\ node.fields = <<>>
        /\ node.intMin <= node.intMax
     \/ /\ node.kind \in {"list", "map", "optional"}
        /\ node.elem \in 0..(index - 1) /\ node.fields = <<>>
        /\ node.kind = "optional" => NodeAt(nodes, node.elem).kind # "optional"
     \/ node.kind = "struct" /\ validateInputStruct(index, node)

Validate(schema) ==
  /\ schema.root \in 0..(Len(schema.nodes) - 1)
  /\ LET root == NodeAt(schema.nodes, schema.root)
     IN /\ root.kind = "struct"
        /\ \A i \in DOMAIN root.fields : root.fields[i].name \in Identifiers
  /\ \A i \in DOMAIN schema.nodes : validateInputNode(schema.nodes, i - 1, schema.nodes[i])
=============================================================================

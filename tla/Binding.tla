------------------------------- MODULE Binding -------------------------------
(***************************************************************************)
(* Binding of arguments and conversion of results. The worker binds the    *)
(* Starlark arguments of a call against the input schema (Bind); the       *)
(* parent binds the decoded map again, onto the handler's Go input, and    *)
(* makes the canonical map that is authorized (BindValue); the handler's   *)
(* Go output is converted back (ConvertOutput).                            *)
(*                                                                         *)
(* A Go value is a record with the kind of its type in g and its content;  *)
(* nil pointers, slices and maps are [g |-> "nil"].                        *)
(***************************************************************************)
EXTENDS Values, Schema

ASSUME WidthAssumption == MaxInt64 = 2^(maxIntegerBits - 1) - 1

GoNil == [g |-> "nil"]

fieldPosition(node, name) == SelectInSeq(node.fields, LAMBDA f : f.name = name)

InclusiveRange(node, n) == n \in node.intMin..(node.intMax + 1)
checkInteger(node, n) == n \in node.intMin..node.intMax

UnroundedFloat(c, node, q) ==
  IF ~isFiniteFloat(q) \/ (node.float32 /\ q \notin -MaxFloat32..MaxFloat32)
    THEN Fail(c, "arguments") ELSE Give(c, Float(q))
checkFloat(c, node, q) ==
  IF ~isFiniteFloat(q) \/ (node.float32 /\ q \notin -MaxFloat32..MaxFloat32)
    THEN Fail(c, "arguments")
    ELSE Give(c, Float(IF node.float32 THEN RoundedTo32(q) ELSE q))

-----------------------------------------------------------------------------
(* Bind, in the worker *)

bindScalar(c, node, s) ==
  IF \/ node.kind = "string" /\ s.k = "str"
     \/ node.kind = "bool" /\ s.k = "bool"
     \/ node.kind = "int" /\ s.k = "int" /\ FitsInt64(s.n) /\ checkInteger(node, s.n)
    THEN Give(c, s)
  ELSE IF node.kind = "float" /\ s.k = "float" THEN checkFloat(c, node, s.q)
  ELSE IF node.kind = "float" /\ s.k = "int" THEN checkFloat(c, node, 4 * s.n)
  ELSE Fail(c, "arguments")

RECURSIVE bindValue(_, _, _, _, _, _)

\* An optional member that is None is seen but stays absent.
bindStruct(c, nodes, heap, node, entries, depth) ==
  LET optional(field) == NodeAt(nodes, field.node).kind = "optional"
      member(acc, entry) ==
        LET position == fieldPosition(node, entry.key.s)
            field == node.fields[position]
            d == bindValue(acc.c, nodes, heap, field.node, entry.value, depth + 1)
        IN IF acc.c.err # "" THEN acc
           ELSE IF entry.key.k # "str" \/ position = 0 \/ position \in acc.seen
             THEN [acc EXCEPT !.c = Fail(@, "arguments")]
           ELSE IF optional(field) /\ entry.value = Nil
             THEN [acc EXCEPT !.seen = @ \cup {position}]
           ELSE [c |-> d, seen |-> acc.seen \cup {position}, m |-> (field.name :> d.v) @@ acc.m]
      all == FoldLeft(member, [c |-> c, seen |-> {}, m |-> <<>>], entries)
      missing == {i \in DOMAIN node.fields : i \notin all.seen /\ ~optional(node.fields[i])}
  IN IF all.c.err # "" THEN all.c
     ELSE IF missing # {} THEN Fail(all.c, "arguments")
     ELSE Give(all.c, Map(all.m))

\* bindValue with bindList and bindMap. Bind keeps no active path: the schema is finite.
bindValue(c, nodes, heap, index, s, depth) ==
  LET node == NodeAt(nodes, index)
      d == consumeNode(c, depth)
      object == heap[s.r]
      is(kinds) == s.k = "ref" /\ object.k \in kinds
      sized == containerLength(d, Len(object.e))
      item(acc, x) == bindValue(acc, nodes, heap, node.elem, x, depth + 1)
      entry(acc, x) == IF x.key.k # "str" THEN Fail(acc, "arguments")
                       ELSE bindValue(acc, nodes, heap, node.elem, x.value, depth + 1)
      put(m, x, v) == IF x.key.k # "str" THEN m ELSE (x.key.s :> v) @@ m
  IN IF node.kind = "optional"
       THEN IF s = Nil THEN Give(d, Nil) ELSE bindValue(c, nodes, heap, node.elem, s, depth)
     ELSE IF d.err # "" THEN d
     ELSE IF node.kind \in {"string", "int", "bool", "float"} THEN bindScalar(d, node, s)
     ELSE IF node.kind = "list" /\ is({"list", "tuple"})
       THEN LET all == ConvertEach(sized, object.e, <<>>, item, AppendValue)
            IN Give(all, List(all.v))
     ELSE IF node.kind = "map" /\ is({"dict"})
       THEN LET all == ConvertEach(sized, object.e, <<>>, entry, put) IN Give(all, Map(all.v))
     ELSE IF node.kind = "struct" /\ is({"dict"})
       THEN IF sized.err # "" THEN sized ELSE bindStruct(sized, nodes, heap, node, object.e, depth)
     ELSE Fail(d, "arguments")

\* Keyword arguments are entries like those of a dict; one name may come twice.
Bind(schema, heap, positional, kwargs) ==
  LET sized == containerLength(consumeNode(newValueConverter(MaxValueBytes), 1), Len(kwargs))
      node == NodeAt(schema.nodes, schema.root)
  IN IF positional THEN Fail(newValueConverter(MaxValueBytes), "arguments")
     ELSE IF sized.err # "" THEN sized
     ELSE bindStruct(sized, schema.nodes, heap, node, kwargs, 1)

-----------------------------------------------------------------------------
(* BindValue, in the parent: [ok, go, v] with the Go input and the canonical map *)

Unbound == [ok |-> FALSE]
Bound(go, v) == [ok |-> TRUE, go |-> go, v |-> v]

\* reflect's SetInt, SetUint and SetFloat keep the low bits or round.
SetInt(n, bits) == ((n + 2^(bits - 1)) % 2^bits) - 2^(bits - 1)
SetUint(n, bits) == n % 2^bits
SetFloat(q, bits) == IF bits < maxIntegerBits THEN RoundedTo32(q) ELSE q

rebindScalar(plan, index, v) ==
  LET node == NodeAt(plan.inputSchema.nodes, index)
      typ == plan.types[NodeAt(plan.inputNodes, index).typ]
      float == checkFloat(newValueConverter(1), node, v.q)
  IN IF node.kind = "string" /\ v.k = "str" THEN Bound([g |-> "string", s |-> v.s], v)
     ELSE IF node.kind = "bool" /\ v.k = "bool" THEN Bound([g |-> "bool", b |-> v.b], v)
     ELSE IF node.kind = "int" /\ v.k = "int" /\ checkInteger(node, v.n)
       THEN Bound([g |-> typ.kind, n |-> IF typ.kind = "uint" THEN SetUint(v.n, typ.bits)
                                                              ELSE SetInt(v.n, typ.bits)], v)
     ELSE IF node.kind = "float" /\ v.k = "float" /\ float.err = ""
       THEN Bound([g |-> "float", q |-> SetFloat(float.v.q, typ.bits)], float.v)
     ELSE Unbound

RECURSIVE rebindValue(_, _, _)

rebindStruct(plan, index, m) ==
  LET nodes == plan.inputSchema.nodes
      fields == NodeAt(nodes, index).fields
      names == {fields[i].name : i \in DOMAIN fields}
      field(name) == fields[CHOOSE i \in DOMAIN fields : fields[i].name = name]
      absent == {name \in names : /\ NodeAt(nodes, field(name).node).kind = "optional"
                                  /\ name \in DOMAIN m => m[name] = Nil}
      bound == [name \in (names \ absent) \cap DOMAIN m |-> rebindValue(plan, field(name).node, m[name])]
  IN IF \/ ~(names \ absent \subseteq DOMAIN m) \/ ~(DOMAIN m \subseteq names)
        \/ \E name \in DOMAIN bound : ~bound[name].ok
       THEN Unbound
       ELSE Bound([g |-> "struct", f |-> [name \in names |-> IF name \in absent THEN GoNil ELSE bound[name].go]],
                  Map([name \in DOMAIN bound |-> bound[name].v]))

\* rebindValue with rebindOptional, rebindList and rebindMap.
rebindValue(plan, index, v) ==
  LET node == NodeAt(plan.inputSchema.nodes, index)
      all(part) == [i \in DOMAIN part |-> rebindValue(plan, node.elem, part[i])]
      go(part) == [i \in DOMAIN part |-> part[i].go]
      value(part) == [i \in DOMAIN part |-> part[i].v]
      ok(part) == \A i \in DOMAIN part : part[i].ok
      elem == rebindValue(plan, node.elem, v)
  IN IF node.kind = "optional"
       THEN IF v = Nil THEN Bound(GoNil, Nil)
            ELSE IF elem.ok THEN Bound([g |-> "ptr", to |-> elem.go], elem.v) ELSE Unbound
     ELSE IF node.kind = "list" /\ v.k = "list"
       THEN LET part == all(v.e)
            IN IF ok(part) THEN Bound([g |-> "slice", e |-> go(part)], List(value(part))) ELSE Unbound
     ELSE IF node.kind = "map" /\ v.k = "map"
       THEN LET part == all(v.m)
            IN IF ok(part) THEN Bound([g |-> "map", m |-> go(part)], Map(value(part))) ELSE Unbound
     ELSE IF node.kind = "struct" /\ v.k = "map" THEN rebindStruct(plan, index, v.m)
     ELSE rebindScalar(plan, index, v)

BindValue(plan, v) == rebindStruct(plan, plan.inputSchema.root, v.m)

-----------------------------------------------------------------------------
(* ConvertOutput, in the parent *)

omitOutputField(field, go) == field.omitempty /\ go = GoNil

RECURSIVE convertNode(_, _, _, _, _)

convertStruct(c, nodes, node, go, depth) ==
  LET included == SelectSeq(node.fields, LAMBDA f : ~omitOutputField(f, go.f[f.name]))
      all == ConvertEach(containerLength(consumeNode(c, depth), Len(included)), included, <<>>,
                         LAMBDA acc, f : convertNode(acc, nodes, f.node, go.f[f.name], depth + 1),
                         LAMBDA m, f, v : (f.name :> v) @@ m)
  IN Give(all, Map(all.v))

convertList(c, nodes, node, go, depth) ==
  LET all == ConvertEach(containerLength(c, Len(go.e)), go.e, <<>>,
                         LAMBDA acc, x : convertNode(acc, nodes, node.elem, x, depth + 1), AppendValue)
  IN Give(all, List(all.v))

convertOutputBytes(c, go, depth) ==
  LET all == ConvertEach(containerLength(c, Len(go.e)), go.e, <<>>,
                         LAMBDA acc, n : Give(consumeNode(acc, depth + 1), Integer(n)), AppendValue)
  IN Give(all, List(all.v))

convertMap(c, nodes, node, go, depth) ==
  LET keys == SortedKeys(go.m)
      all == ConvertEach(containerLength(c, Len(keys)), keys, <<>>,
                         LAMBDA acc, t : convertNode(acc, nodes, node.elem, go.m[t], depth + 1),
                         LAMBDA m, t, v : (t :> v) @@ m)
  IN Give(all, Map(all.v))

\* A pointer adds neither depth nor a node; a nil pointer, slice or map becomes None.
convertNode(c, nodes, index, go, depth) ==
  LET node == NodeAt(nodes, index)
      d == consumeNode(c, depth)
  IN IF go = GoNil THEN Give(d, Nil)
     ELSE IF node.kind = "pointer" THEN convertNode(c, nodes, node.elem, go.to, depth)
     ELSE IF d.err # "" THEN d
     ELSE IF node.kind = "string" THEN Give(d, Str(go.s))
     ELSE IF node.kind = "bool" THEN Give(d, Bool(go.b))
     ELSE IF node.kind \in {"int", "uint"} THEN convertInteger(d, Integer(go.n))
     ELSE IF node.kind = "float" THEN convertFloat(d, Float(go.q))
     ELSE IF node.kind = "bytes" THEN convertOutputBytes(d, go, depth)
     ELSE IF node.kind = "list" THEN convertList(d, nodes, node, go, depth)
     ELSE IF node.kind = "map" THEN convertMap(d, nodes, node, go, depth)
     ELSE convertStruct(c, nodes, node, go, depth)

ConvertOutput(plan, go, maxNodes) ==
  convertNode(newValueConverter(maxNodes), plan.outputNodes, plan.outputRoot, go, 1)

-----------------------------------------------------------------------------
(* A reference definition: what a Go value denotes, without limits. An input leaves out *)
(* every nil member of a struct, an output the ones marked omitempty.                   *)

RECURSIVE Denoted(_, _, _, _)
Denoted(nodes, index, go, isInput) ==
  LET node == NodeAt(nodes, index)
      whole(parts, v) == IF \E i \in DOMAIN parts : parts[i] = Bottom THEN Bottom ELSE v
      of(part) == [i \in DOMAIN part |-> Denoted(nodes, node.elem, part[i], isInput)]
      present == {i \in DOMAIN node.fields :
                    ~((isInput \/ node.fields[i].omitempty) /\ go.f[node.fields[i].name] = GoNil)}
      member(name) == CHOOSE i \in present : node.fields[i].name = name
      members == [name \in {node.fields[i].name : i \in present} |->
                    Denoted(nodes, node.fields[member(name)].node, go.f[name], isInput)]
  IN IF go = GoNil THEN Nil
     ELSE IF node.kind = "pointer" THEN Denoted(nodes, node.elem, go.to, isInput)
     ELSE IF node.kind = "string" THEN Str(go.s)
     ELSE IF node.kind = "bool" THEN Bool(go.b)
     ELSE IF node.kind \in {"int", "uint"} THEN IF FitsInt64(go.n) THEN Integer(go.n) ELSE Bottom
     ELSE IF node.kind = "float" THEN IF isFiniteFloat(go.q) THEN Float(go.q) ELSE Bottom
     ELSE IF node.kind = "bytes" THEN List([i \in DOMAIN go.e |-> Integer(go.e[i])])
     ELSE IF node.kind = "list" THEN whole(of(go.e), List(of(go.e)))
     ELSE IF node.kind = "map" THEN whole(of(go.m), Map(of(go.m)))
     ELSE whole(members, Map(members))
=============================================================================

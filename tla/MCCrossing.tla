----------------------------- MODULE MCCrossing ------------------------------
(***************************************************************************)
(* The hosts that TLC tries. One kind has every small graph of Go types    *)
(* and only starts a worker. The others fix the types and vary one thing:  *)
(* the arguments of a call, the handler's output, the program's value, or  *)
(* the texts that caps depend on.                                          *)
(*                                                                         *)
(* MaxInt64 is 7 and MaxUint32 88; "bad" is not UTF-8 and is read back as  *)
(* "fffd"; "lt" needs escapes.                                             *)
(***************************************************************************)
EXTENDS Crossing

MCStrings == <<"a", "b", "bad", "fffd", "lt">>
MCJSONLen == [a |-> 3, b |-> 3, bad |-> 8, fffd |-> 5, lt |-> 8]
MCRepaired == [a |-> "a", b |-> "b", bad |-> "fffd", fffd |-> "fffd", lt |-> "lt"]

Text(bytes, text) == [bytes |-> bytes, text |-> text]
Plain == Text(1, "plain")

-----------------------------------------------------------------------------
(* Go types *)

GoType(kind, bits) ==
  [kind |-> kind, bits |-> bits, elem |-> "-", key |-> "string", fields |-> <<>>, codec |-> FALSE]
Of(kind, elem) == [GoType(kind, 0) EXCEPT !.elem = elem]
Member(name, type) == [name |-> name, type |-> type, omitempty |-> FALSE, legal |-> TRUE]
Struct(fields) == [GoType("struct", 0) EXCEPT !.fields = fields]

Ints == <<GoType("int", 3), GoType("int", 4), GoType("uint", 2), GoType("uint", 3), GoType("uint", 4)>>
Floats == <<GoType("float", 2), GoType("float", 4)>>
OtherTypes == <<GoType("string", 0), GoType("bool", 0), GoType("chan", 0)>>
Scalar == Ints \o Floats \o OtherTypes

\* Definitions of a type that may mention the types R, A, B and C.
Definitions ==
  <<GoType("int", 3), GoType("uint", 3), GoType("chan", 0), [GoType("string", 0) EXCEPT !.codec = TRUE],
    Of("pointer", "A"), Of("pointer", "B"), Of("pointer", "R"),
    Of("slice", "A"), Of("slice", "B"), Of("slice", "R"), Of("array", "B"),
    Of("map", "A"), Of("map", "B"), [Of("map", "B") EXCEPT !.key = "int"],
    Of("slice", "C"), Of("map", "C"), Of("pointer", "C"), Struct(<<Member("lt", "C"), Member("b", "B")>>),
    Struct(<<>>), Struct(<<Member("lt", "A")>>), Struct(<<Member("lt", "B")>>),
    Struct(<<Member("a", "R")>>), Struct(<<Member("a", "A"), Member("b", "B")>>),
    Struct(<<Member("a", "B"), Member("a", "B")>>),
    Struct(<<[Member("a", "B") EXCEPT !.omitempty = TRUE], Member("b", "B")>>)>>

Roots ==
  <<Struct(<<Member("a", "A"), Member("b", "B")>>), Struct(<<Member("b", "B"), Member("a", "A")>>),
    Struct(<<[Member("a", "A") EXCEPT !.omitempty = TRUE]>>), Struct(<<Member("lt", "A")>>),
    Struct(<<[Member("a", "A") EXCEPT !.legal = FALSE]>>), Of("pointer", "A")>>

-----------------------------------------------------------------------------
(* Hosts *)

BaseHost ==
  [types |-> [R |-> Struct(<<>>)], in |-> "R", out |-> "R",
   manifest |-> {Plain}, id |-> Plain, manifestBytes |-> 10,
   sources |-> {Plain}, calls |-> {}, outputs |-> {}, remaining |-> {MaxValueBytes},
   finals |-> {}, details |-> {}]

TypesHost(r, a, b) ==
  [BaseHost EXCEPT !.types = [R |-> Roots[r], A |-> Definitions[a], B |-> Definitions[b],
                              C |-> Of("pointer", "D"), D |-> GoType("float", 2)]]

Empty == [g |-> "struct", f |-> <<>>]
Call(heap, positional, kwargs) == [heap |-> heap, positional |-> positional, kwargs |-> kwargs]
Entry(key, value) == [key |-> key, value |-> value]
Ref(r) == [k |-> "ref", r |-> r]
Other == [k |-> "other"]
NoCall == Call(<<>>, FALSE, <<>>)

\* Texts at the limits of the caps and beyond.
TextHost(id, manifestBytes) ==
  [BaseHost EXCEPT
     !.manifest = {Plain, id}, !.id = id, !.manifestBytes = manifestBytes,
     !.sources = {Text(0, "plain"), Text(3, "plain"), Text(4, "plain"), Text(3, "escaped"),
                  Text(1, "invalid"), Text(2, "invalid")},
     !.calls = {NoCall}, !.outputs = {Empty},
     !.details = {Text(n, t) : n \in {0, 1, 4, 5}, t \in {"plain", "escaped"}}]

TextIDs == <<Plain, Text(1, "escaped"), Text(2, "escaped"), Text(9, "plain"), Text(1, "invalid")>>

-----------------------------------------------------------------------------
(* Arguments *)

Heap ==
  [none |-> [k |-> "list", e |-> <<>>],
   ints |-> [k |-> "list", e |-> <<Integer(1), Integer(7), Integer(8)>>],
   pair |-> [k |-> "tuple", e |-> <<Integer(-1), Nil>>],
   mixed |-> [k |-> "list", e |-> <<Float(1), Str("a")>>],
   nested |-> [k |-> "list", e |-> <<Ref("pair")>>],
   loop |-> [k |-> "list", e |-> <<Ref("loop")>>],
   blank |-> [k |-> "dict", e |-> <<>>],
   two |-> [k |-> "dict", e |-> <<Entry(Str("bad"), Integer(1)), Entry(Str("fffd"), Integer(2))>>],
   member |-> [k |-> "dict", e |-> <<Entry(Str("lt"), Integer(1))>>],
   absent |-> [k |-> "dict", e |-> <<Entry(Str("lt"), Nil)>>],
   floats |-> [k |-> "dict", e |-> <<Entry(Str("a"), Float(3)), Entry(Str("b"), Nil)>>],
   numbered |-> [k |-> "dict", e |-> <<Entry(Integer(1), Integer(1))>>],
   rows |-> [k |-> "dict", e |-> <<Entry(Str("a"), Ref("pair"))>>]]

Arguments ==
  {Nil, Bool(TRUE), Other, Str("a"), Str("bad"), Str("lt")}
    \cup {Integer(n) : n \in {-9, -8, -5, -4, -1, 0, 3, 4, 7, 8, 15}}
    \cup {Float(q) : q \in {-3, 0, 1, 2, 3, 40, 41, 42, 80, 81}}
    \cup {Ref(r) : r \in DOMAIN Heap}

Keyword(name, value) == Entry(Str(name), value)
Calls ==
  {Call(Heap, FALSE, <<Keyword("a", x)>>) : x \in Arguments}
    \cup {Call(Heap, FALSE, <<Keyword("b", y), Keyword("a", x)>>) : x \in Arguments, y \in Arguments}
    \cup {Call(Heap, FALSE, <<Keyword("a", x), Keyword(name, x)>>) :
            x \in {Nil, Integer(3)}, name \in {"a", "lt"}}
    \cup {Call(Heap, TRUE, <<Keyword("a", Integer(3))>>), Call(Heap, FALSE, <<>>)}

\* A call has an argument a of type T and an optional argument b of type T.
ArgumentHost(types) ==
  [BaseHost EXCEPT
     !.types = types @@ [R |-> Struct(<<Member("a", "T"), Member("b", "P")>>), P |-> Of("pointer", "T"),
                         O |-> Struct(<<>>)],
     !.out = "O", !.calls = Calls, !.outputs = {Empty}]

ArgumentTypes ==
  [i \in 1..9 |-> [T |-> Scalar[i]]]
    \o <<[T |-> Of("slice", "E"), E |-> GoType("int", 4)],
          [T |-> Of("slice", "E"), E |-> Of("pointer", "F"), F |-> GoType("int", 2)],
          [T |-> Of("slice", "E"), E |-> Of("slice", "G"), G |-> Of("pointer", "F"), F |-> GoType("int", 3)],
          [T |-> Of("map", "E"), E |-> GoType("uint", 2)],
          [T |-> Of("map", "E"), E |-> Of("pointer", "F"), F |-> GoType("float", 2)],
          [T |-> Struct(<<Member("lt", "E")>>), E |-> Of("pointer", "F"), F |-> GoType("int", 2)],
          [T |-> Struct(<<Member("lt", "F")>>), F |-> GoType("float", 4)]>>

-----------------------------------------------------------------------------
(* Outputs: the Go values of a type *)

RECURSIVE GoValues(_, _)
GoValues(types, typ) ==
  LET t == types[typ]
      elems == IF t.elem # "-" /\ types[t.elem].kind = "uint" /\ types[t.elem].bits = byteBits
                 THEN {0, 7} ELSE GoValues(types, t.elem)
  IN IF t.kind = "string" THEN {[g |-> "string", s |-> s] : s \in {"a", "bad", "lt"}}
     ELSE IF t.kind = "bool" THEN {[g |-> "bool", b |-> b] : b \in BOOLEAN}
     ELSE IF t.kind = "int" THEN {[g |-> "int", n |-> n] : n \in {-1, 2^(t.bits - 1) - 1}}
     ELSE IF t.kind = "uint" THEN {[g |-> "uint", n |-> n] : n \in {0, 2^t.bits - 1}}
     ELSE IF t.kind = "float" THEN {[g |-> "float", q |-> q] : q \in {-1, 4, 6, 80, 81}}
     ELSE IF t.kind = "pointer" THEN {GoNil} \cup {[g |-> "ptr", to |-> x] : x \in elems}
     ELSE IF t.kind = "slice"
       THEN {GoNil} \cup {[g |-> "slice", e |-> e] : e \in UNION {[1..n -> elems] : n \in 0..2}}
     ELSE IF t.kind = "array" THEN {[g |-> "slice", e |-> e] : e \in [1..2 -> elems]}
     ELSE IF t.kind = "map"
       THEN {GoNil} \cup {[g |-> "map", m |-> m] :
                            m \in UNION {[keys -> elems] : keys \in {{}, {"a"}, {"bad"}, {"bad", "fffd"}}}}
     ELSE LET names == {t.fields[i].name : i \in DOMAIN t.fields}
              typeOf(name) == t.fields[CHOOSE i \in DOMAIN t.fields : t.fields[i].name = name].type
              all == UNION {GoValues(types, typeOf(name)) : name \in names}
          IN {[g |-> "struct", f |-> f] :
                f \in {h \in [names -> all] : \A name \in names : h[name] \in GoValues(types, typeOf(name))}}

\* An output has a member a of type T and a member b that is left out when it is nil.
OutputHost(types) ==
  LET all == types @@ [R |-> Struct(<<>>), O |-> Struct(<<Member("a", "T"),
                         [Member("b", "P") EXCEPT !.omitempty = TRUE]>>), P |-> Of("pointer", "B"),
                       B |-> GoType("bool", 0)]
  IN [BaseHost EXCEPT !.types = all, !.out = "O", !.calls = {NoCall}, !.outputs = GoValues(all, "O"),
                      !.remaining = {1, 12, 20, 40}, !.details = {Plain}]

OutputTypes ==
  [i \in 1..9 |-> [T |-> Scalar[i]]]
    \o <<[T |-> Of("slice", "E"), E |-> GoType("uint", 3)],
          [T |-> Of("array", "E"), E |-> GoType("uint", 3)],
          [T |-> Of("pointer", "D"), D |-> Of("pointer", "E"), E |-> Of("map", "F"), F |-> GoType("int", 2)],
          [T |-> Of("slice", "E"), E |-> Of("slice", "F"), F |-> GoType("int", 2)],
          [T |-> Of("map", "E"), E |-> Of("pointer", "F"), F |-> GoType("string", 0)],
          [T |-> Struct(<<Member("lt", "E")>>), E |-> Of("slice", "F"), F |-> GoType("bool", 0)]>>

-----------------------------------------------------------------------------
(* Final values *)

Items == {Nil, Bool(FALSE), Integer(7), Integer(8), Float(4), Float(81), Str("bad"), Other, Ref("x"), Ref("y")}
Keys == {Str("a"), Str("bad"), Str("fffd"), Integer(1)}

Objects ==
  {[k |-> "list", e |-> e] : e \in UNION {[1..n -> Items] : n \in 0..2}}
    \cup {[k |-> "tuple", e |-> e] : e \in UNION {[1..n -> Items \ {Ref("x")}] : n \in 0..2}}
    \cup {[k |-> "dict", e |-> <<Entry(key, x)>>] : key \in Keys, x \in Items}
    \cup {[k |-> "dict", e |-> <<Entry(key[1], x), Entry(key[2], y)>>] :
            key \in {p \in Keys \X Keys : p[1] # p[2]}, x \in {Integer(7), Ref("y")},
            y \in {Integer(-1), Ref("x"), Ref("y")}}

Inner ==
  {[k |-> "list", e |-> <<>>], [k |-> "list", e |-> <<Ref("x")>>], [k |-> "list", e |-> <<Integer(1), Integer(2)>>],
   [k |-> "tuple", e |-> <<Nil>>], [k |-> "tuple", e |-> <<Ref("z")>>],
   [k |-> "dict", e |-> <<>>], [k |-> "dict", e |-> <<Entry(Str("a"), Ref("z"))>>],
   [k |-> "dict", e |-> <<Entry(Str("a"), Ref("y"))>>]}

Innermost == {[k |-> "list", e |-> <<>>], [k |-> "list", e |-> <<Integer(1)>>], [k |-> "list", e |-> <<Ref("x")>>]}

Finals ==
  {[heap |-> [x |-> x, y |-> y, z |-> z], value |-> Ref("x")] : x \in Objects, y \in Inner, z \in Innermost}
    \cup {[heap |-> <<>>, value |-> v] : v \in Items \ {Ref("x"), Ref("y")}}

-----------------------------------------------------------------------------
FinalHost == [BaseHost EXCEPT !.finals = Finals]
ArgumentHosts == [i \in DOMAIN ArgumentTypes |-> ArgumentHost(ArgumentTypes[i])]
OutputHosts == [i \in DOMAIN OutputTypes |-> OutputHost(OutputTypes[i])]

MCConfigurations ==
  [c \in {<<"final", 0, 0, 0>>}
           \cup ({"types"} \X (DOMAIN Roots) \X (DOMAIN Definitions) \X (DOMAIN Definitions))
           \cup ({"text"} \X (DOMAIN TextIDs) \X {10, 48, 49} \X {0})
           \cup ({"arguments"} \X (DOMAIN ArgumentTypes) \X {0} \X {0})
           \cup ({"output"} \X (DOMAIN OutputTypes) \X {0} \X {0}) |->
     IF c[1] = "types" THEN TypesHost(c[2], c[3], c[4])
     ELSE IF c[1] = "text" THEN TextHost(TextIDs[c[2]], c[3])
     ELSE IF c[1] = "arguments" THEN ArgumentHosts[c[2]]
     ELSE IF c[1] = "output" THEN OutputHosts[c[2]]
     ELSE FinalHost]
=============================================================================

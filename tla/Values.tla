------------------------------- MODULE Values --------------------------------
(***************************************************************************)
(* The values that cross the process boundary: the conversions between     *)
(* Starlark values, process-neutral values and JSON, with the limits on    *)
(* depth, nodes and encoded bytes.                                         *)
(*                                                                         *)
(* A process-neutral value is a record with a kind k and the content of    *)
(* that kind. Strings are members of a small set that tells apart what     *)
(* json.Marshal does with them: a string that is not UTF-8 is read back    *)
(* as another one. A float is a number of quarters; every float fits 64    *)
(* bits, even ones fit float32. Integers beyond MaxInt64 and floats        *)
(* beyond MaxFloat (infinities) are Starlark values only.                  *)
(*                                                                         *)
(* A Starlark value is a scalar or a reference into a heap of lists,       *)
(* tuples and dicts: programs can alias containers and build cycles.       *)
(***************************************************************************)
EXTENDS Integers, Sequences, FiniteSets, SequencesExt

CONSTANTS
  Strings,            \* a sequence of all strings, in sorted order
  JSONLen,          \* the length of json.Marshal of each string
  Repaired,         \* what the other process decodes of each string
  MaxInt64, MaxFloat, MaxFloat32,
  MaxValueDepth, MaxValueBytes

ASSUME ValuesAssumption ==
  /\ MaxValueDepth \in Nat \ {0} /\ MaxValueBytes \in Nat \ {0}
  /\ MaxInt64 \in Nat /\ MaxFloat32 \in Nat /\ MaxFloat \in Nat

Nil == [k |-> "nil"]
Bool(b) == [k |-> "bool", b |-> b]
Str(s) == [k |-> "str", s |-> s]
Integer(n) == [k |-> "int", n |-> n]
Float(q) == [k |-> "float", q |-> q]
List(e) == [k |-> "list", e |-> e]
Map(m) == [k |-> "map", m |-> m]

\* The keys of a map in sorted order.
SortedKeys(m) == SelectSeq(Strings, LAMBDA t : t \in DOMAIN m)
Children(v) ==
  IF v.k = "list" THEN v.e
  ELSE LET keys == SortedKeys(v.m) IN [i \in DOMAIN keys |-> v.m[keys[i]]]

FitsInt64(n) == n \in -(MaxInt64 + 1)..MaxInt64
isFiniteFloat(q) == q \in -MaxFloat..MaxFloat

\* float64(float32(q)): to the nearest, ties to even.
RoundedTo32(q) == IF q % 2 = 0 THEN q ELSE IF q % 4 = 1 THEN q - 1 ELSE q + 1

-----------------------------------------------------------------------------
(* The converter: the nodes left, the containers on the active path, an error *)
(* and the value converted last.                                              *)

newValueConverter(maxNodes) == [left |-> maxNodes, active |-> {}, err |-> "", v |-> Nil]

Fail(c, err) == [c EXCEPT !.err = err]
Give(c, v) == [c EXCEPT !.v = v]

ConsumeOneDepthLess(c, depth) ==
  IF depth >= MaxValueDepth \/ c.left = 0 THEN Fail(c, "limit") ELSE [c EXCEPT !.left = @ - 1]
consumeNode(c, depth) ==
  IF depth > MaxValueDepth \/ c.left = 0 THEN Fail(c, "limit") ELSE [c EXCEPT !.left = @ - 1]

\* Fails unless that many children fit the rest of the budget.
containerLength(c, length) == IF c.err = "" /\ length > c.left THEN Fail(c, "limit") ELSE c

enter(c, r) ==
  IF r \in c.active THEN Fail(c, "unsupported") ELSE [c EXCEPT !.active = @ \cup {r}]
NeverLeave(c, r) == c
leave(c, r) == [c EXCEPT !.active = @ \ {r}]

\* Convert the items one after the other, up to the first error; Combine adds the value
\* of an item to the container converted so far.
ConvertEach(c, items, empty, Convert(_, _), Combine(_, _, _)) ==
  FoldLeft(LAMBDA acc, item :
             IF acc.err # "" THEN acc
             ELSE LET d == Convert(acc, item) IN Give(d, Combine(acc.v, item, d.v)),
           Give(c, empty), items)

AppendValue(seq, item, v) == Append(seq, v)

-----------------------------------------------------------------------------
(* Process-neutral values *)

\* validate and toStarlark visit the same nodes in the same order; toStarlark makes a
\* fresh copy, here the value itself. Process-neutral values are trees.
RECURSIVE toStarlark(_, _, _)
toStarlark(c, v, depth) ==
  LET d == consumeNode(c, depth) IN
  IF d.err # "" THEN d
  ELSE IF v.k = "float" /\ ~isFiniteFloat(v.q) THEN Fail(d, "unsupported")
  ELSE IF v.k \notin {"list", "map"} THEN Give(d, v)
  ELSE Give(ConvertEach(containerLength(d, Len(Children(v))), Children(v), <<>>,
                        LAMBDA acc, x : toStarlark(acc, x, depth + 1), AppendValue), v)

ValidateValue(v) == toStarlark(newValueConverter(MaxValueBytes), v, 1).err
ToStarlark(v) == toStarlark(newValueConverter(MaxValueBytes), v, 1)

-----------------------------------------------------------------------------
(* Starlark values *)

convertInteger(c, s) == IF FitsInt64(s.n) THEN Give(c, s) ELSE Fail(c, "unsupported")
convertFloat(c, s) == IF isFiniteFloat(s.q) THEN Give(c, s) ELSE Fail(c, "unsupported")

\* Lists and dicts are entered, tuples are not: no tuple contains itself.
RECURSIVE fromStarlark(_, _, _, _)
fromStarlark(c, heap, s, depth) ==
  LET d == consumeNode(c, depth)
      object == heap[s.r]
      entered == IF object.k = "tuple" THEN d ELSE enter(d, s.r)
      sized == containerLength(entered, Len(object.e))
      item(acc, x) == fromStarlark(acc, heap, x, depth + 1)
      entry(acc, x) == IF x.key.k # "str" THEN Fail(acc, "unsupported")
                       ELSE fromStarlark(acc, heap, x.value, depth + 1)
      put(m, x, v) == IF x.key.k # "str" THEN m ELSE (x.key.s :> v) @@ m
      converted ==
        IF object.k = "dict"
          THEN LET all == ConvertEach(sized, object.e, <<>>, entry, put) IN Give(all, Map(all.v))
          ELSE LET all == ConvertEach(sized, object.e, <<>>, item, AppendValue)
               IN Give(all, List(all.v))
  IN IF d.err # "" THEN d
     ELSE IF s.k \in {"nil", "bool", "str"} THEN Give(d, s)
     ELSE IF s.k = "int" THEN convertInteger(d, s)
     ELSE IF s.k = "float" THEN convertFloat(d, s)
     ELSE IF s.k # "ref" THEN Fail(d, "unsupported")
     ELSE IF converted.err # "" \/ object.k = "tuple" THEN converted
     ELSE leave(converted, s.r)

FromStarlark(heap, s) == fromStarlark(newValueConverter(MaxValueBytes), heap, s, 1)

-----------------------------------------------------------------------------
(* JSON *)

\* strconv for -9..99.
Digits(n) == IF n < 0 THEN 2 ELSE IF n > 9 THEN 2 ELSE 1

\* The length of the encoding. A float is spelled with a point: 1.0, 1.5, 1.25.
RECURSIVE EncLen(_)
EncLen(v) ==
  LET keys == SortedKeys(v.m)
      commas(n) == IF n = 0 THEN 0 ELSE n - 1
  IN IF v.k = "nil" THEN 4
     ELSE IF v.k = "bool" THEN IF v.b THEN 4 ELSE 5
     ELSE IF v.k = "str" THEN JSONLen[v.s]
     ELSE IF v.k = "int" THEN Digits(v.n)
     ELSE IF v.k = "float" THEN Digits(v.q \div 4) + IF v.q % 2 = 0 THEN 2 ELSE 3
     ELSE IF v.k = "list"
       THEN FoldLeft(LAMBDA acc, x : acc + EncLen(x), 2 + commas(Len(v.e)), v.e)
     ELSE FoldLeft(LAMBDA acc, t : acc + JSONLen[t] + 1 + EncLen(v.m[t]), 2 + commas(Len(keys)), keys)

\* A number token: its value in quarters and whether it has a point or an exponent.
WithoutZero(q) == [j |-> "number", q |-> q, point |-> q % 4 # 0]
writeFloat(q) == [j |-> "number", q |-> q, point |-> TRUE]

\* encodeNormalizedValue: the JSON value that is written. The keys of an object are
\* written in sorted order; the reader keeps the last of two that it reads as one.
RECURSIVE writeNormalizedValue(_)
writeNormalizedValue(v) ==
  IF v.k = "str" THEN [j |-> "string", s |-> Repaired[v.s]]
  ELSE IF v.k = "int" THEN [j |-> "number", q |-> 4 * v.n, point |-> FALSE]
  ELSE IF v.k = "float" THEN writeFloat(v.q)
  ELSE IF v.k = "list"
    THEN [j |-> "array", e |-> [i \in DOMAIN v.e |-> writeNormalizedValue(v.e[i])]]
  ELSE IF v.k = "map"
    THEN [j |-> "object",
          m |-> FoldLeft(LAMBDA acc, t : (Repaired[t] :> writeNormalizedValue(v.m[t])) @@ acc,
                         <<>>, SortedKeys(v.m))]
  ELSE [j |-> v.k, v |-> v]

Invalidated == [k |-> "invalid"]

decodeNumber(token) ==
  IF token.point
    THEN IF isFiniteFloat(token.q) THEN Float(token.q) ELSE Invalidated
    ELSE IF FitsInt64(token.q \div 4) THEN Integer(token.q \div 4) ELSE Invalidated

RECURSIVE normalizeValue(_)
normalizeValue(json) ==
  IF json.j = "number" THEN decodeNumber(json)
  ELSE IF json.j = "string" THEN Str(json.s)
  ELSE IF json.j = "array"
    THEN LET e == [i \in DOMAIN json.e |-> normalizeValue(json.e[i])]
         IN IF Invalidated \in ToSet(e) THEN Invalidated ELSE List(e)
  ELSE IF json.j = "object"
    THEN LET m == [t \in DOMAIN json.m |-> normalizeValue(json.m[t])]
         IN IF \E t \in DOMAIN m : m[t] = Invalidated THEN Invalidated ELSE Map(m)
  ELSE json.v

\* What a reader makes of the encoding of a value.
decodeNormalizedValue(v) == normalizeValue(writeNormalizedValue(v))

\* encodeBoundedValue and validateBoundedValue: "" or the sentinel.
encodeBoundedValue(v) ==
  IF v = Invalidated \/ ValidateValue(v) # "" THEN "errInvalidValue"
  ELSE IF EncLen(v) > MaxValueBytes THEN "errFrameTooLarge" ELSE ""

-----------------------------------------------------------------------------
(* Reference definitions, without budgets or an active path. *)

\* What a Starlark value denotes: its containers unfolded to a depth of `fuel', "bottom"
\* where it is deeper, cyclic or has no process-neutral form.
Bottom == [k |-> "bottom"]
RECURSIVE Unfolded(_, _, _)
Unfolded(heap, s, fuel) ==
  IF fuel = 0 THEN Bottom
  ELSE IF s.k = "int" THEN IF FitsInt64(s.n) THEN s ELSE Bottom
  ELSE IF s.k = "float" THEN IF isFiniteFloat(s.q) THEN s ELSE Bottom
  ELSE IF s.k # "ref" THEN IF s.k = "other" THEN Bottom ELSE s
  ELSE LET e == heap[s.r].e
           of(x) == Unfolded(heap, x, fuel - 1)
       IN IF heap[s.r].k # "dict"
            THEN LET items == [i \in DOMAIN e |-> of(e[i])]
                 IN IF Bottom \in ToSet(items) THEN Bottom ELSE List(items)
            ELSE LET bad == \E i \in DOMAIN e : e[i].key.k # "str" \/ of(e[i].value) = Bottom
                     at(t) == CHOOSE i \in DOMAIN e : e[i].key = Str(t)
                 IN IF bad THEN Bottom
                    ELSE Map([t \in {e[i].key.s : i \in DOMAIN e} |-> of(e[at(t)].value)])

\* The value with every string as the other process reads it.
RECURSIVE AsRead(_)
AsRead(v) ==
  IF v.k = "str" THEN Str(Repaired[v.s])
  ELSE IF v.k = "list" THEN List([i \in DOMAIN v.e |-> AsRead(v.e[i])])
  ELSE IF v.k = "map"
    THEN LET last(t) == CHOOSE i \in DOMAIN Strings :
                          /\ Strings[i] \in DOMAIN v.m /\ Repaired[Strings[i]] = t
                          /\ \A j \in DOMAIN Strings :
                               (Strings[j] \in DOMAIN v.m /\ Repaired[Strings[j]] = t) => j <= i
         IN Map([t \in {Repaired[u] : u \in DOMAIN v.m} |-> AsRead(v.m[Strings[last(t)]])])
  ELSE v
=============================================================================

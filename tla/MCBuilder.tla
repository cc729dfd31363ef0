----------------------------- MODULE MCBuilder ------------------------------
(* An instance of Builder for TLC: names that clash, that are namespaces of *)
(* one another or have a reserved root; IDs that are other capabilities'    *)
(* names; disabled lists with unknown and repeated IDs; two IDs that are    *)
(* not UTF-8 and the one that JSON makes of both.                           *)
EXTENDS Builder

MCNames == {<<"a", "b">>, <<"a", "b", "c">>, <<"d", "b">>, <<"json", "b">>}
NotUTF8 == {<<"id", "xff">>, <<"id", "xfe">>}
MCIDs == MCNames \cup NotUTF8 \cup {<<"id">>}
MCOnWire == [id \in MCIDs |-> IF id \in NotUTF8 THEN <<"id">> ELSE id]
MCReservedRoots == {"json"}
MCDisabledLists ==
  {<<>>, <<<<"id">>>>, <<<<"a", "b">>>>, <<<<"a", "b">>, <<"id">>>>, <<<<"id">>, <<"id">>>>}

\* The number of attempts TLC explores.
FewAttempts == Cardinality(attempted) <= 3
=============================================================================

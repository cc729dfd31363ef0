------------------------------ MODULE MCSearch -------------------------------
(* An instance of Search for TLC: capabilities that share words, a name in   *)
(* camel case, two names that differ only in case, a name of connectors, an  *)
(* acronym, a number, results that fill a response to the byte, one that     *)
(* cannot fit, and search terms that are too many.                           *)
EXTENDS Search

P(gap, word) == [gap |-> gap, word |-> word, upper |-> FALSE]
U(gap, word) == [gap |-> gap, word |-> word, upper |-> TRUE]

MCRunes == [git |-> 3, iss |-> 3, ue |-> 2, create |-> 6, db |-> 2, x |-> 1, get |-> 3,
            to |-> 2, http |-> 4, two |-> 1, pad |-> 60]
MCConnectors == {<<"to">>}

Cap(id, order, name, terms, summary, description, bytes) ==
  [id |-> id, order |-> order, name |-> name, terms |-> terms, summary |-> summary,
   description |-> description, bytes |-> bytes]

gitCreateIssue == <<P("", "git"), P(".", "create"), U("camel", "iss"), P("", "ue")>>
gitIssue == <<P("", "git"), P(".", "iss"), P("", "ue")>>
dbxGet == <<P("", "db"), P("", "x"), P(".", "get")>>
dbxGET == <<P("", "db"), P("", "x"), U(".", "get")>>
toTo == <<P("", "to"), P(".", "to")>>

MCCapabilities == {
  Cap("i1", 3, gitCreateIssue, <<>>, <<U("", "git"), U("camel", "x")>>, <<P("", "get")>>, 20),
  Cap("i2", 4, gitIssue, <<<<P("", "get"), P(" ", "db")>>>>, <<P("", "create")>>,
      <<U("", "http"), U("acronym", "get"), P("digit", "two")>>, 47),
  Cap("i3", 2, dbxGet, <<>>, <<P("", "git")>>, <<P("", "iss"), P("_", "two")>>, 48),
  Cap("i4", 1, dbxGET, <<<<P("", "git"), P(" ", "iss"), P("", "ue")>>>>, <<P("", "get")>>,
      <<P("", "create")>>, 68),
  Cap("i5", 5, toTo, <<>>, <<P("", "get"), P(" ", "to"), P(" ", "git")>>, <<P("", "db")>>, 20),
  Cap("i6", 7, <<P("", "x"), P(".", "get")>>, <<>>, <<P("", "get")>>, <<P("", "get")>>, 69),
  Cap("i7", 6, <<P("", "x"), P(".", "db")>>, <<<<P("", "x")>>, <<P("", "x")>>>>,
      <<P("", "pad")>>, <<P("", "get")>>, 20)}

MCQueries == {[text |-> t, space |-> 0] :
  t \in {gitCreateIssue, gitIssue, dbxGet, dbxGET, toTo, <<P("", "get")>>, <<P("", "iss")>>,
         <<P("", "db")>>, <<P("", "http")>>, <<P("", "git"), P(" ", "get")>>,
         <<P("", "create"), P(" ", "get"), P(" ", "git")>>,
         <<P("", "create"), P(" ", "get"), P(" ", "git"), P("_", "x")>>,
         <<P("", "db"), P(" ", "get"), P(" ", "x"), P(" ", "http"), P(" ", "two")>>}}
  \cup {[text |-> <<P("", "get")>>, space |-> 2], [text |-> <<P("", "get")>>, space |-> 28],
        [text |-> <<>>, space |-> 1]}

\* The names in lower case.
MCLoweredNames == {[text |-> ToLower(c.name), space |-> 0] : c \in MCCapabilities}
=============================================================================

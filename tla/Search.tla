------------------------------- MODULE Search --------------------------------
(***************************************************************************)
(* Capability search: the index that catalog.Build compiles from the       *)
(* enabled capabilities, and Search and Describe over it.                  *)
(*                                                                         *)
(* A text is a sequence of pieces [gap, word, upper]. A word is a run of   *)
(* runes with no boundary inside; `upper' says that it starts with an      *)
(* upper-case letter; `gap' is what lies before it: a separator (any rune  *)
(* that is neither letter nor digit), or a change of case ("camel"), the   *)
(* end of an acronym ("acronym"), a change between letters and digits      *)
(* ("digit"), or nothing (""). A token is a sequence of words, joined. No  *)
(* word is spelled as the beginning of another one, so tokens are prefixes *)
(* of one another exactly when their words are. The surrounding space of a *)
(* query is a number of bytes.                                             *)
(***************************************************************************)
EXTENDS Integers, Sequences, FiniteSets, SequencesExt

CONSTANTS
  Capabilities,   \* records [id, name, order, terms, summary, description, bytes]: order is
                  \* the place of the name among all names, bytes the encoded result
  Queries,        \* records [text, space]
  Runes,          \* the number of runes of each word
  Connectors,     \* the tokens that are dropped
  MaxSearchQueryBytes, MaxSearchResults, maxDistinctQueryTokens, maxSearchResponseBytes,
  maxSupportedRegistrations, maxSearchableMetadataBytes, maxSearchTermPhrases,
  maxSearchTermBytes

Separators == {".", "_", " "}
CaseGaps == {"camel", "acronym"}
Pieces == [gap : Separators \cup CaseGaps \cup {"digit", ""}, word : DOMAIN Runes, upper : BOOLEAN]
Texts == Seq(Pieces)

ASSUME RunesAssumption == \A w \in DOMAIN Runes : Runes[w] \in Nat
ASSUME QueriesAssumption == \A q \in Queries : q.text \in Texts /\ q.space \in Nat
ASSUME CapabilitiesAssumption ==
  /\ IsFiniteSet(Capabilities)
  /\ \A c \in Capabilities :
       /\ {c.name, c.summary, c.description} \subseteq Texts /\ c.terms \in Seq(Texts)
       /\ c.order \in Int /\ c.bytes \in Nat
  /\ \A c, d \in Capabilities : c.order = d.order => c = d      \* names are unique
ASSUME LimitsAssumption ==
  /\ {MaxSearchQueryBytes, MaxSearchResults} \subseteq Nat \ {0}   \* checked by Build
  /\ {maxDistinctQueryTokens, maxSearchResponseBytes, maxSupportedRegistrations,
      maxSearchableMetadataBytes, maxSearchTermPhrases, maxSearchTermBytes} \subseteq Nat
  /\ maxSearchResponseBytes >= 32     \* room for a response without results

VARIABLES
  catalog,    \* what Build returned, with the registrations it was given
  response    \* the answer to one Search or Describe

vars == <<catalog, response>>

None == [kind |-> "none"]
ErrInvalidRegistration == [kind |-> "invalid registration"]
ErrSearchQueryLimit == [kind |-> "search query limit"]

-----------------------------------------------------------------------------
(* Texts and tokens *)

\* The sum of a sequence of numbers.
Total(numbers) ==
  LET sum[k \in 0..Len(numbers)] == IF k = 0 THEN 0 ELSE sum[k - 1] + numbers[k]
  IN sum[Len(numbers)]

RuneCount(token) == Total([i \in DOMAIN token |-> Runes[token[i]]])
Bytes(text) ==
  Total([i \in DOMAIN text |-> Runes[text[i].word] + IF text[i].gap \in Separators THEN 1 ELSE 0])

\* strings.ToLower leaves no boundary of case.
ToLower(text) ==
  [i \in DOMAIN text |->
     [text[i] EXCEPT !.upper = FALSE, !.gap = IF @ \in CaseGaps THEN "" ELSE @]]

\* A token that began with an upper-case letter is not split where lower case turns
\* into upper case (MySQL, GitHub).
shouldSplitBefore(piece, startedUpper) ==
  \/ piece.gap \in Separators \cup {"digit", "acronym"}
  \/ piece.gap = "camel" /\ ~startedUpper

flush(scan) ==
  IF scan.current = <<>> \/ scan.current \in Connectors
    THEN scan.tokens ELSE Append(scan.tokens, scan.current)

ScanPiece(scan, piece) ==
  IF scan.current = <<>> \/ shouldSplitBefore(piece, scan.startedUpper)
    THEN [tokens |-> flush(scan), current |-> <<piece.word>>, startedUpper |-> piece.upper]
    ELSE [scan EXCEPT !.current = Append(@, piece.word)]

\* The loop over the runes of a text: scan[k] is its state after k pieces.
EmptyScan == [tokens |-> <<>>, current |-> <<>>, startedUpper |-> FALSE]
tokenize(text) ==
  LET scan[k \in 0..Len(text)] ==
        IF k = 0 THEN EmptyScan ELSE ScanPiece(scan[k - 1], text[k])
  IN flush(scan[Len(text)])

\* uniqueTokens, and the part of tokenizeQuery that drops repetitions. The order of
\* tokens has no influence on anything that follows.
uniqueTokens(text) == ToSet(tokenize(text))
tokenizeJoined(phrases) == UNION {uniqueTokens(phrases[i]) : i \in DOMAIN phrases}

-----------------------------------------------------------------------------
(* The index *)

fieldWeightName == 12
fieldWeightSearchTerms == 10
fieldWeightSummary == 5
fieldWeightDescription == 2
matchQualityExact == 100
matchQualityPrefix == 72
minPrefixQueryTokenLength == 3
idfMinFactor == 1
idfBucketCount == 8
searchResponsePrefixJSONBytes == 12
searchResponseTruncatedFalse == 20
searchResponseCommaJSONBytes == 1

TermBytes(terms) == Total([i \in DOMAIN terms |-> Bytes(terms[i])])

\* A term that ends with space is not a Text.
validateSearchTerms(terms) ==
  /\ Len(terms) <= maxSearchTermPhrases
  /\ \A i \in DOMAIN terms : terms[i] # <<>> /\ terms[i][1].gap # " "
  /\ TermBytes(terms) <= maxSearchTermBytes

searchableMetadataBytes(c) ==
  Bytes(c.name) + Bytes(c.summary) + Bytes(c.description) + TermBytes(c.terms)

\* sort.Slice and slices.SortStableFunc, on elements that differ.
SortedBy(S, Less(_, _)) ==
  CHOOSE s \in SetToSeqs(S) : \A i, j \in DOMAIN s : i < j => Less(s[i], s[j])

FilterNothing(registrations, disabled) ==
  SortedBy(ToSet(registrations), LAMBDA a, b : a.order < b.order)
filterEnabled(registrations, disabled) ==
  SortedBy({c \in ToSet(registrations) : c.id \notin disabled}, LAMBDA a, b : a.order < b.order)

resultFitsResponseCap(bytes) ==
  searchResponsePrefixJSONBytes + bytes + searchResponseTruncatedFalse <= maxSearchResponseBytes

idfFactor(frequency, documentCount) ==
  idfMinFactor + ((documentCount - frequency) * (idfBucketCount - idfMinFactor)) \div documentCount

\* compileSearchIndex with assignIDF: the tokens of each field, each with its rarity.
FieldTokens(c) ==
  [name |-> uniqueTokens(c.name), terms |-> tokenizeJoined(c.terms),
   summary |-> uniqueTokens(c.summary), description |-> uniqueTokens(c.description)]
DocumentFrequency(enabled, token) ==
  Cardinality({i \in DOMAIN enabled : \E f \in DOMAIN FieldTokens(enabled[i]) :
                                         token \in FieldTokens(enabled[i])[f]})
assignIDF(enabled, tokens) ==
  {[text |-> t, idf |-> idfFactor(DocumentFrequency(enabled, t), Len(enabled))] : t \in tokens}

compileSearchIndex(enabled) ==
  [i \in DOMAIN enabled |->
     LET fields == FieldTokens(enabled[i])
     IN [normalizedName |-> ToLower(enabled[i].name),
         fields |-> [f \in DOMAIN fields |-> assignIDF(enabled, fields[f])],
         resultJSONBytes |-> enabled[i].bytes]]

\* catalog.Build, of which Builder models the validation of names, IDs and disabled IDs.
BuildCatalog(registrations, disabled) ==
  LET enabled == filterEnabled(registrations, disabled)
      valid == /\ Len(registrations) <= maxSupportedRegistrations
               /\ Total([i \in DOMAIN registrations |-> searchableMetadataBytes(registrations[i])])
                    <= maxSearchableMetadataBytes
               /\ \A i \in DOMAIN registrations : validateSearchTerms(registrations[i].terms)
               /\ \A i \in DOMAIN enabled : resultFitsResponseCap(enabled[i].bytes)
  IN IF ~valid THEN ErrInvalidRegistration
     ELSE [kind |-> "catalog", registrations |-> registrations, disabled |-> disabled,
           enabled |-> enabled, documents |-> compileSearchIndex(enabled)]

-----------------------------------------------------------------------------
(* Scores *)

tokenMatchQuality(queryToken, documentToken) ==
  IF queryToken = documentToken THEN matchQualityExact
  ELSE IF RuneCount(queryToken) >= minPrefixQueryTokenLength /\ IsPrefix(queryToken, documentToken)
    THEN matchQualityPrefix ELSE 0

\* The rarest of the tokens that match best.
tokenFieldContribution(tokens, queryToken, weight) ==
  LET quality(t) == tokenMatchQuality(queryToken, t.text)
      best == Max({0} \cup {quality(t) : t \in tokens})
  IN IF best = 0 THEN 0
     ELSE weight * best * Max({t.idf : t \in {u \in tokens : quality(u) = best}})

bestTokenContribution(document, queryToken) ==
  Max({tokenFieldContribution(document.fields.name, queryToken, fieldWeightName),
       tokenFieldContribution(document.fields.terms, queryToken, fieldWeightSearchTerms),
       tokenFieldContribution(document.fields.summary, queryToken, fieldWeightSummary),
       tokenFieldContribution(document.fields.description, queryToken, fieldWeightDescription)})

scoreDocument(document, queryTokens) ==
  [score |-> LET tokens == SetToSeq(queryTokens)
             IN Total([i \in DOMAIN tokens |-> bestTokenContribution(document, tokens[i])]),
   matched |-> Cardinality({t \in queryTokens : bestTokenContribution(document, t) > 0})]

requiredMatches(queryTokens) ==
  IF queryTokens <= 2 THEN queryTokens ELSE (2 * queryTokens + 2) \div 3

\* Exact names first, then the score, then the name.
ScoreOnly(left, right) ==
  IF left.score # right.score THEN left.score > right.score ELSE left.entry.order < right.entry.order
compareSearchCandidates(left, right) ==
  IF left.exact # right.exact THEN left.exact ELSE ScoreOnly(left, right)

eligible(documents, tokens) ==
  {i \in DOMAIN documents :
     scoreDocument(documents[i], tokens).matched >= requiredMatches(Cardinality(tokens))}

searchCandidate(enabled, documents, query, i) ==
  LET tokens == uniqueTokens(query.text)
      scored == scoreDocument(documents[i], tokens)
  IN [entry |-> enabled[i], bytes |-> documents[i].resultJSONBytes,
      score |-> (scored.score * scored.matched) \div Cardinality(tokens),
      exact |-> documents[i].normalizedName = ToLower(query.text)]

Candidates(enabled, documents, query) ==
  SortedBy({searchCandidate(enabled, documents, query, i) :
              i \in eligible(documents, uniqueTokens(query.text))},
           compareSearchCandidates)

-----------------------------------------------------------------------------
(* Packing *)

FitsWithoutComma(used, count, bytes) ==
  used + bytes + searchResponseTruncatedFalse <= maxSearchResponseBytes
FitsResponse(used, count, bytes) ==
  used + (IF count > 0 THEN searchResponseCommaJSONBytes ELSE 0) + bytes
    + searchResponseTruncatedFalse <= maxSearchResponseBytes

PackCandidate(pack, c) ==
  IF \/ pack.truncated
     \/ Len(pack.results) = MaxSearchResults
     \/ ~FitsResponse(pack.used, Len(pack.results), c.bytes)
    THEN [pack EXCEPT !.truncated = TRUE]
    ELSE [pack EXCEPT !.results = Append(@, c.entry),
                      !.used = @ + c.bytes
                        + IF pack.results = <<>> THEN 0 ELSE searchResponseCommaJSONBytes]

\* The loop over the ranked candidates: pack[k] is its state after k of them.
EmptyPack == [results |-> <<>>, used |-> searchResponsePrefixJSONBytes, truncated |-> FALSE]
packSearchResponse(candidates) ==
  LET pack[k \in 0..Len(candidates)] ==
        IF k = 0 THEN EmptyPack ELSE PackCandidate(pack[k - 1], candidates[k])
      last == pack[Len(candidates)]
  IN [kind |-> "results", results |-> last.results, truncated |-> last.truncated]

SearchCatalog(cat, query) ==
  LET tokens == uniqueTokens(query.text) IN
  IF \/ Bytes(query.text) + query.space > MaxSearchQueryBytes
     \/ Cardinality(tokens) > maxDistinctQueryTokens
    THEN ErrSearchQueryLimit
  ELSE IF tokens = {} THEN [kind |-> "results", results |-> <<>>, truncated |-> FALSE]
  ELSE packSearchResponse(Candidates(cat.enabled, cat.documents, query))

Lookup(cat, name) == {c \in ToSet(cat.enabled) : c.name = name}

-----------------------------------------------------------------------------
(* Actions *)

Init == catalog = None /\ response = None

\* A build that was refused may be followed by another one.
Build(registrations, disabled) ==
  /\ catalog.kind # "catalog"
  /\ catalog' = BuildCatalog(registrations, disabled)
  /\ UNCHANGED response

SearchFor(query) ==
  /\ catalog.kind = "catalog" /\ response = None
  /\ response' = [kind |-> "answer", query |-> query, answer |-> SearchCatalog(catalog, query)]
  /\ UNCHANGED catalog

Describe(name) ==
  /\ catalog.kind = "catalog" /\ response = None
  /\ response' = [kind |-> "description", name |-> name, found |-> Lookup(catalog, name)]
  /\ UNCHANGED catalog

Answered ==
  /\ response # None
  /\ response' = None
  /\ UNCHANGED catalog

\* The sequences of registrations Build may be given; names and IDs are distinct.
Registrations == UNION {SetToSeqs(S) : S \in {T \in SUBSET Capabilities :
                                                Cardinality(T) <= maxSupportedRegistrations + 1}}

Next ==
  \/ \E registrations \in Registrations :
       \E disabled \in SUBSET {c.id : c \in ToSet(registrations)} : Build(registrations, disabled)
  \/ \E query \in Queries : SearchFor(query)
  \/ \E c \in Capabilities : Describe(c.name)
  \/ Answered

Spec == Init /\ [][Next]_vars

-----------------------------------------------------------------------------
(* Properties *)

\* The results of a query that was not refused.
Answer == response.kind = "answer" /\ response.answer.kind = "results"
Results == response.answer.results
Truncated == response.answer.truncated

ResponseBytes ==
  searchResponsePrefixJSONBytes + Total([i \in DOMAIN Results |-> Results[i].bytes])
    + (IF Results = <<>> THEN 0 ELSE Len(Results) - 1)
    + searchResponseTruncatedFalse - (IF Truncated THEN 1 ELSE 0)

\* packSearchResponse: an answer is the beginning of the ranking, at most MaxSearchResults
\* long and encoded in at most maxSearchResponseBytes; it says truncated exactly when
\* an eligible capability is missing, never for lack of a candidate, is never empty
\* while one is eligible, and leaves out no result that there was room for.
PackedPrefix ==
  Answer =>
    LET ranked == IF uniqueTokens(response.query.text) = {} THEN <<>>
                  ELSE Candidates(catalog.enabled, catalog.documents, response.query)
        n == Len(Results)
    IN /\ n <= MaxSearchResults /\ n <= Len(ranked)
       /\ \A i \in 1..n : Results[i] = ranked[i].entry
       /\ ResponseBytes <= maxSearchResponseBytes
       /\ Truncated <=> n < Len(ranked)
       /\ Len(ranked) > 0 => n > 0
       /\ (Truncated /\ n < MaxSearchResults) =>
            ResponseBytes + 1 + searchResponseCommaJSONBytes + ranked[n + 1].bytes
              > maxSearchResponseBytes

\* Search for the name of an enabled capability, as it is registered: the capability is
\* first, or after one whose name differs only in case, whatever the others score and
\* however tight the bounds are. A name of connectors alone has no tokens to search for.
ExactNameFirst ==
  Answer =>
    \A c \in ToSet(catalog.enabled) :
      (response.query.text = c.name /\ uniqueTokens(c.name) # {}) =>
        /\ Results # <<>>
        /\ ToLower(Results[1].name) = ToLower(c.name)

\* filterEnabled before compileSearchIndex: the answer is the one of a catalog in which
\* the disabled capabilities were never registered, in whatever order the others were:
\* a disabled capability changes no rarity, score or truncation, and is not described.
DisabledLeavesNoTrace ==
  LET others == {c \in ToSet(catalog.registrations) : c.id \notin catalog.disabled}
  IN /\ Answer => LET alone == SearchCatalog(BuildCatalog(SetToSeq(others), {}), response.query)
                  IN Results = alone.results /\ Truncated = alone.truncated
     /\ response.kind = "description" =>
          response.found = {c \in others : c.name = response.name}

\* The documented promise for a query in any case: "A case-insensitive exact dotted-name
\* query, after trimming surrounding whitespace, ranks first."
ExactNameAnyCase ==
  Answer =>
    \A c \in ToSet(catalog.enabled) :
      ToLower(response.query.text) = ToLower(c.name) =>
        /\ Results # <<>>
        /\ ToLower(Results[1].name) = ToLower(c.name)
=============================================================================

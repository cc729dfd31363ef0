--------------------------- MODULE ProtocolProofs ---------------------------
(***************************************************************************)
(* Proofs about the worker protocol.  First the caps of PayloadCaps: they  *)
(* are right for every configuration NewRunner accepts, exact in 32 bits,  *)
(* no legal frame exceeds the cap of its writer, and the cap of the reader *)
(* is never below the cap of the writer.  Then the exchange of Protocol,   *)
(* for all limits, all lengths and all pipe bounds.                        *)
(***************************************************************************)
EXTENDS Protocol, PayloadCaps, SequenceTheorems, WellFoundedInduction, TLAPS

-----------------------------------------------------------------------------
(* The caps *)

\* A nonempty set of naturals with an upper bound has a greatest element.
LEMMA Greatest ==
  ASSUME NEW S \in SUBSET Nat, S # {}, NEW b \in Nat, \A n \in S : n <= b
  PROVE  \E n \in S : \A m \in S : m <= n
<1> DEFINE T == {b - n : n \in S}
           R == {p \in Nat \X Nat : p[1] < p[2]}
<1>1. T \subseteq Nat /\ T # {}
  OBVIOUS
<1>2. IsWellFoundedOn(R, Nat)
  BY NatLessThanWellFounded, Zenon DEF OpToRel
<1>3. PICK x \in T : \A y \in T : ~(<<y, x>> \in R)
  <2> HIDE DEF T, R
  <2> QED BY <1>1, <1>2, WFMin, Zenon
<1>4. ASSUME NEW y \in T PROVE x <= y
  <2>1. x \in Nat /\ y \in Nat
    <3> HIDE DEF T
    <3> QED BY <1>1
  <2>2. y < x => <<y, x>> \in R
    BY <2>1
  <2>3. ~(<<y, x>> \in R)
    BY <1>3
  <2> QED
    <3> HIDE DEF T, R
    <3> QED BY <2>1, <2>2, <2>3
<1>5. PICK n \in S : x = b - n
  OBVIOUS
<1> QED
  <2> SUFFICES ASSUME NEW m \in S PROVE m <= n
    BY <1>5
  <2>1. x <= b - m
    BY <1>4
  <2> QED BY <1>5, <2>1

\* The spelling of a text has a length of at most six bytes for each of its own.
LEMMA EncodedLenType ==
  ASSUME NEW s \in Texts
  PROVE  /\ EncodedLen(s) \in Nat
         /\ EncodedLen(s) <= emptyJSONString + jsonStringEscapeMax * s.bytes
BY DEF Texts, EncodedLen, emptyJSONString, jsonStringEscapeMax

\* What longestEncodedID returns is the length of the longest ID.
LEMMA LongestIsLongest ==
  ASSUME NEW manifest \in SUBSET Texts, longestEncodedID(manifest) # Invalid
  PROVE  /\ longestEncodedID(manifest) \in 0..MaxUint32
         /\ \A id \in manifest : EncodedLen(id) <= longestEncodedID(manifest)
<1> DEFINE E == EncodedIDs(manifest)
<1>1. E \in SUBSET Nat /\ E # {}
  BY EncodedLenType DEF EncodedIDs, emptyJSONString
<1>2. \A n \in E : n <= MaxUint32
  BY <1>1, MaxUint32Assumption DEF longestEncodedID, configUint32
<1>3. \E n \in E : \A m \in E : m <= n
  <2> HIDE DEF E
  <2> QED BY <1>1, <1>2, MaxUint32Assumption, Greatest
<1>4. /\ longestEncodedID(manifest) \in E
      /\ \A m \in E : m <= longestEncodedID(manifest)
  BY <1>3 DEF longestEncodedID
<1> QED BY <1>1, <1>2, <1>4 DEF EncodedIDs

\* What a detail adds to a frame is bounded by its size.
LEMMA WithDetailBound ==
  ASSUME NEW detail \in Texts
  PROVE  WithDetail(detail) \in Nat /\ WithDetail(detail) <= 12 + 6 * detail.bytes
<1>1. detail.bytes \in Nat
  BY DEF Texts
<1>2. EncodedLen(detail) \in Nat /\ EncodedLen(detail) <= 2 + 6 * detail.bytes
  BY <1>1 DEF EncodedLen, emptyJSONString, jsonStringEscapeMax
<1> QED BY <1>1, <1>2 DEF WithDetail, detailPrefix

\* What sanitizedFinalErrorDetail leaves fits the detail part of the cap.
LEMMA FinalErrorDetailFits ==
  ASSUME NEW code \in FinalErrorCodes, NEW detail \in Texts
  PROVE  WithDetail(sanitizedFinalErrorDetail(code, detail)) \in 0..(12 + 6 * maxDiagnosticBytes)
<1> DEFINE kept == sanitizedFinalErrorDetail(code, detail)
<1>1. kept \in Texts /\ kept.bytes \in Nat /\ kept.bytes <= maxDiagnosticBytes
  BY DetailAssumption DEF sanitizedFinalErrorDetail, NoDetail, Texts
<1> HIDE DEF kept
<1>2. WithDetail(kept) \in Nat /\ WithDetail(kept) <= 12 + 6 * kept.bytes
  BY <1>1, WithDetailBound
<1>3. WithDetail(kept) \in 0..(12 + 6 * maxDiagnosticBytes)
  BY <1>1, <1>2, DetailAssumption
<1> QED BY <1>3 DEF kept

\* What sanitizedAbortDetail leaves fits the detail part of the cap.
LEMMA AbortDetailFits ==
  ASSUME NEW detail \in Texts
  PROVE  WithDetail(sanitizedAbortDetail(detail)) \in 0..(12 + 6 * MaxAgentErrorBytes)
<1> DEFINE kept == sanitizedAbortDetail(detail)
<1>1. kept \in Texts /\ kept.bytes \in Nat /\ kept.bytes <= MaxAgentErrorBytes
  BY DetailAssumption DEF sanitizedAbortDetail, validAbortDetail, NoDetail, Texts
<1> HIDE DEF kept
<1>2. WithDetail(kept) \in Nat /\ WithDetail(kept) <= 12 + 6 * kept.bytes
  BY <1>1, WithDetailBound
<1>3. WithDetail(kept) \in 0..(12 + 6 * MaxAgentErrorBytes)
  BY <1>1, <1>2, DetailAssumption
<1> QED BY <1>3 DEF kept

\* A detail that was sanitized by its sender is accepted by its receiver: every abort
\* detail, and every final_error detail that is UTF-8.
THEOREM DetailsAreAccepted ==
  ASSUME NEW detail \in Texts
  PROVE  /\ decodeAbortDetail(OnWire(sanitizedAbortDetail(detail)))
         /\ detail.text # "invalid" => \A code \in FinalErrorCodes :
              decodeFinalErrorDetail(code, OnWire(sanitizedFinalErrorDetail(code, detail)))
BY DetailAssumption
   DEF Texts, NoDetail, OnWire, sanitizedAbortDetail, validAbortDetail, decodeAbortDetail,
       sanitizedFinalErrorDetail, decodeFinalErrorDetail

\* Every legal frame of the child passes the child's write check: with a value of at
\* most maxValueBytes, any advertised ID and any detail, final_error details with
\* every byte escaped included.  The cap itself fits the 32-bit frame prefix.
THEOREM ChildFramesFit ==
  ASSUME NEW v \in Nat, NEW manifest \in SUBSET Texts, childPayloadCap(v, manifest) # Invalid
  PROVE  LET cap == childPayloadCap(v, manifest) IN
           /\ cap \in 0..MaxUint32
           /\ \A id \in manifest, n \in 0..v : frameFits(encodeNativeCall(id, n), cap)
           /\ \A n \in 0..v : frameFits(encodeFinal(n), cap)
           /\ \A code \in FinalErrorCodes, detail \in Texts :
                frameFits(encodeFinalError(code, detail), cap)
<1> DEFINE cap == childPayloadCap(v, manifest)
           id == longestEncodedID(manifest)
           call == nativeCallPrefix + id + nativeCallMid + v + closingBrace
           fin == finalPrefix + v + closingBrace
<1> USE DEF closingBrace, emptyJSONString, jsonStringEscapeMax
<1>1. /\ id # Invalid
      /\ configUint32(call) # Invalid /\ configUint32(fin) # Invalid
      /\ finalErrorPayloadCap # Invalid
      /\ cap = maxUint32(maxUint32(configUint32(call), configUint32(fin)), finalErrorPayloadCap)
  BY DEF childPayloadCap
<1>2. /\ id \in 0..MaxUint32
      /\ \A i \in manifest : EncodedLen(i) <= id
  BY <1>1, LongestIsLongest
<1>3. call \in Nat /\ call <= MaxUint32 /\ configUint32(call) = call
  BY <1>1, <1>2, MaxUint32Assumption DEF configUint32, nativeCallPrefix, nativeCallMid
<1>4. fin \in Nat /\ fin <= MaxUint32 /\ configUint32(fin) = fin
  BY <1>1, MaxUint32Assumption DEF configUint32, finalPrefix
<1>5. /\ finalErrorPayloadCap \in 0..MaxUint32
      /\ finalErrorPayloadCap = 61 + 6 * maxDiagnosticBytes
  BY <1>1, MaxUint32Assumption, DetailAssumption
     DEF finalErrorPayloadCap, configUint32, finalErrorPrefix, detailPrefix
<1>6. /\ cap \in 0..MaxUint32
      /\ call <= cap /\ fin <= cap /\ finalErrorPayloadCap <= cap
  <2> HIDE DEF cap, call, fin
  <2> QED BY <1>1, <1>3, <1>4, <1>5 DEF maxUint32
<1>7. ASSUME NEW i \in manifest, NEW n \in 0..v
      PROVE  frameFits(encodeNativeCall(i, n), cap)
  <2>1. EncodedLen(i) \in Nat /\ EncodedLen(i) <= id
    BY <1>2, EncodedLenType
  <2>2. encodeNativeCall(i, n) > 0 /\ encodeNativeCall(i, n) <= call
    BY <1>2, <2>1 DEF encodeNativeCall, nativeCallPrefix, nativeCallMid
  <2>3. encodeNativeCall(i, n) \in Nat
    BY <2>1 DEF encodeNativeCall, nativeCallPrefix, nativeCallMid
  <2> HIDE DEF cap, call
  <2> QED BY <1>3, <1>6, <2>2, <2>3 DEF frameFits
<1>8. ASSUME NEW n \in 0..v
      PROVE  frameFits(encodeFinal(n), cap)
  <2>1. encodeFinal(n) \in Nat /\ encodeFinal(n) > 0 /\ encodeFinal(n) <= fin
    BY DEF encodeFinal, finalPrefix
  <2> HIDE DEF cap, fin
  <2> QED BY <1>4, <1>6, <2>1 DEF frameFits
<1>9. ASSUME NEW code \in FinalErrorCodes, NEW detail \in Texts
      PROVE  frameFits(encodeFinalError(code, detail), cap)
  <2>1. shorterBy(code) \in 0..9
    BY DEF shorterBy, FinalErrorCodes
  <2>2. /\ encodeFinalError(code, detail) \in Nat
        /\ encodeFinalError(code, detail) > 0
        /\ encodeFinalError(code, detail) <= finalErrorPayloadCap
    BY <1>5, <2>1, FinalErrorDetailFits, DetailAssumption DEF encodeFinalError, finalErrorPrefix
  <2> HIDE DEF cap
  <2> QED BY <1>5, <1>6, <2>2 DEF frameFits
<1> QED BY <1>6, <1>7, <1>8, <1>9

\* Every legal frame of the parent passes the parent's write check.
THEOREM ParentFramesFit ==
  ASSUME NEW v \in Nat, parentPayloadCap(v) # Invalid
  PROVE  LET cap == parentPayloadCap(v) IN
           /\ cap \in 0..MaxUint32
           /\ \A n \in 0..v : frameFits(encodeNativeResult(n), cap)
           /\ \A detail \in Texts : frameFits(encodeNativeAbort(detail), cap)
<1> DEFINE cap == parentPayloadCap(v)
           res == nativeResultPrefix + v + closingBrace
<1> USE DEF closingBrace, emptyJSONString, jsonStringEscapeMax
<1>1. /\ configUint32(res) # Invalid /\ nativeAbortPayloadCap # Invalid
      /\ cap = maxUint32(configUint32(res), nativeAbortPayloadCap)
  BY DEF parentPayloadCap
<1>2. res \in Nat /\ res <= MaxUint32 /\ configUint32(res) = res
  BY <1>1, MaxUint32Assumption DEF configUint32, nativeResultPrefix
<1>3. /\ nativeAbortPayloadCap \in 0..MaxUint32
      /\ nativeAbortPayloadCap = 35 + 6 * MaxAgentErrorBytes
  BY <1>1, MaxUint32Assumption, DetailAssumption
     DEF nativeAbortPayloadCap, configUint32, nativeAbortPrefix, detailPrefix
<1>4. cap \in 0..MaxUint32 /\ res <= cap /\ nativeAbortPayloadCap <= cap
  <2> HIDE DEF cap, res
  <2> QED BY <1>1, <1>2, <1>3 DEF maxUint32
<1>5. ASSUME NEW n \in 0..v
      PROVE  frameFits(encodeNativeResult(n), cap)
  <2>1. encodeNativeResult(n) \in Nat /\ encodeNativeResult(n) > 0 /\ encodeNativeResult(n) <= res
    BY DEF encodeNativeResult, nativeResultPrefix
  <2> HIDE DEF cap, res
  <2> QED BY <1>2, <1>4, <2>1 DEF frameFits
<1>6. ASSUME NEW detail \in Texts
      PROVE  frameFits(encodeNativeAbort(detail), cap)
  <2>1. /\ encodeNativeAbort(detail) \in Nat
        /\ encodeNativeAbort(detail) > 0
        /\ encodeNativeAbort(detail) <= nativeAbortPayloadCap
    BY <1>3, AbortDetailFits, DetailAssumption DEF encodeNativeAbort, nativeAbortPrefix
  <2> HIDE DEF cap
  <2> QED BY <1>3, <1>4, <2>1 DEF frameFits
<1> QED BY <1>4, <1>5, <1>6

\* Every exec frame with a source of at most maxSourceBytes passes the parent's check.
THEOREM ExecFits ==
  ASSUME NEW maxSource \in Nat, NEW manifestBytes \in Nat,
         execPayloadCap(maxSource, manifestBytes) # Invalid,
         NEW source \in Texts, source.bytes <= maxSource,
         NEW limitBytes \in 0..execBytes
  PROVE  /\ execPayloadCap(maxSource, manifestBytes) \in 0..MaxUint32
         /\ frameFits(encodeExec(source, manifestBytes, limitBytes),
                      execPayloadCap(maxSource, manifestBytes))
<1> DEFINE cap == execPayloadCap(maxSource, manifestBytes)
<1>1. cap \in 0..MaxUint32 /\ cap = execBytes + manifestBytes + 2 + 6 * maxSource
  BY MaxUint32Assumption, ExecAssumption
     DEF execPayloadCap, configUint32, emptyJSONString, jsonStringEscapeMax
<1>2. /\ source.bytes \in Nat
      /\ EncodedLen(source) \in 2..(2 + 6 * source.bytes)
  BY DEF Texts, EncodedLen, emptyJSONString, jsonStringEscapeMax
<1>3. /\ encodeExec(source, manifestBytes, limitBytes) > 0
      /\ encodeExec(source, manifestBytes, limitBytes) <= cap
  <2> HIDE DEF cap
  <2> QED BY <1>1, <1>2, ExecAssumption DEF encodeExec
<1> QED BY <1>1, <1>3 DEF frameFits

\* The child computes its write cap from the manifest it decoded, in which an ID that
\* was not UTF-8 has another spelling: the child finds a cap whenever NewRunner did,
\* and none of its frames is over the cap the parent reads with.
THEOREM ReaderAdmitsWriter ==
  ASSUME NEW v \in Nat, NEW manifest \in SUBSET Texts, childPayloadCap(v, manifest) # Invalid
  PROVE  LET decoded == {OnWire(id) : id \in manifest} IN
           /\ childPayloadCap(v, decoded) # Invalid
           /\ childPayloadCap(v, decoded) <= childPayloadCap(v, manifest)
<1> DEFINE decoded == {OnWire(id) : id \in manifest}
           call(m) == nativeCallPrefix + longestEncodedID(m) + nativeCallMid + v + closingBrace
           fin == finalPrefix + v + closingBrace
           cap(m) == maxUint32(maxUint32(configUint32(call(m)), configUint32(fin)),
                               finalErrorPayloadCap)
<1>1. decoded \in SUBSET Texts
  BY DEF OnWire, Texts
<1>2. ASSUME NEW id \in manifest
      PROVE  EncodedLen(OnWire(id)) \in Nat /\ EncodedLen(OnWire(id)) <= EncodedLen(id)
  BY DEF OnWire, Texts, EncodedLen, emptyJSONString, jsonStringEscapeMax
<1>3. /\ longestEncodedID(manifest) # Invalid
      /\ configUint32(call(manifest)) # Invalid
      /\ configUint32(v) # Invalid /\ configUint32(fin) # Invalid
      /\ finalErrorPayloadCap # Invalid
      /\ childPayloadCap(v, manifest) = cap(manifest)
  BY DEF childPayloadCap
<1>4. /\ longestEncodedID(manifest) \in 0..MaxUint32
      /\ \A id \in manifest : EncodedLen(id) <= longestEncodedID(manifest)
  BY <1>3, LongestIsLongest
<1>5. 2 <= longestEncodedID(manifest)
  <2>1. \A n \in EncodedIDs(manifest) : n \in Nat /\ n <= MaxUint32
    BY <1>3, EncodedLenType, MaxUint32Assumption
       DEF longestEncodedID, configUint32, EncodedIDs, emptyJSONString
  <2>2. 2 \in EncodedIDs(manifest)
    BY DEF EncodedIDs, emptyJSONString
  <2>3. \E n \in EncodedIDs(manifest) : \A m \in EncodedIDs(manifest) : m <= n
    BY <2>1, <2>2, MaxUint32Assumption, Greatest
  <2> QED BY <1>3, <2>2, <2>3 DEF longestEncodedID
<1>6. \A n \in EncodedIDs(decoded) : n \in Nat /\ n <= longestEncodedID(manifest)
  <2> SUFFICES ASSUME NEW n \in EncodedIDs(decoded)
               PROVE  n \in Nat /\ n <= longestEncodedID(manifest)
    OBVIOUS
  <2>1. CASE n = 2
    BY <1>5, <2>1
  <2>2. CASE n # 2
    <3>1. PICK id \in manifest : n = EncodedLen(OnWire(id))
      BY <2>2 DEF EncodedIDs, emptyJSONString
    <3>2. EncodedLen(id) \in Nat
      BY EncodedLenType
    <3> QED BY <1>2, <1>4, <3>1, <3>2
  <2> QED BY <2>1, <2>2
<1>7. /\ EncodedIDs(decoded) \subseteq Nat
      /\ \E n \in EncodedIDs(decoded) : \A m \in EncodedIDs(decoded) : m <= n
  <2> DEFINE ids == EncodedIDs(decoded)
             bound == longestEncodedID(manifest)
  <2>1. ids \subseteq Nat
    BY <1>6
  <2>2. 2 \in ids
    BY DEF EncodedIDs, emptyJSONString
  <2>3. bound \in Nat /\ \A n \in ids : n <= bound
    BY <1>4, <1>6, MaxUint32Assumption
  <2> HIDE DEF ids, bound
  <2>4. \E n \in ids : \A m \in ids : m <= n
    BY <2>1, <2>2, <2>3, Greatest
  <2> QED BY <2>1, <2>4 DEF ids
<1>8. /\ longestEncodedID(decoded) # Invalid
      /\ longestEncodedID(decoded) \in Nat
      /\ longestEncodedID(decoded) <= longestEncodedID(manifest)
  <2> HIDE DEF decoded
  <2>1. ASSUME NEW n \in EncodedIDs(decoded)
        PROVE  configUint32(n) # Invalid
    <3>1. n \in Nat /\ n <= longestEncodedID(manifest)
      BY <1>6
    <3> QED BY <1>4, <3>1, MaxUint32Assumption DEF configUint32, Invalid
  <2>2. longestEncodedID(decoded) \in EncodedIDs(decoded)
    BY <1>7, <2>1 DEF longestEncodedID
  <2>3. longestEncodedID(decoded) \in Nat
    BY <1>7, <2>2
  <2>4. longestEncodedID(decoded) <= longestEncodedID(manifest)
    BY <1>6, <2>2
  <2>5. longestEncodedID(decoded) # Invalid
    BY <2>3 DEF Invalid
  <2> QED BY <2>3, <2>4, <2>5
<1>9. /\ call(manifest) \in 0..MaxUint32 /\ configUint32(call(manifest)) = call(manifest)
      /\ call(decoded) \in 0..call(manifest) /\ configUint32(call(decoded)) = call(decoded)
      /\ configUint32(call(decoded)) # Invalid
  BY <1>3, <1>4, <1>8, MaxUint32Assumption
     DEF configUint32, Invalid, nativeCallPrefix, nativeCallMid, closingBrace
<1>10. childPayloadCap(v, decoded) = cap(decoded)
  <2> HIDE DEF decoded
  <2> QED BY <1>3, <1>8, <1>9 DEF childPayloadCap
<1>11. fin \in 0..MaxUint32 /\ configUint32(fin) = fin /\ finalErrorPayloadCap \in 0..MaxUint32
  BY <1>3, MaxUint32Assumption, DetailAssumption
     DEF configUint32, finalErrorPayloadCap, finalPrefix, closingBrace, finalErrorPrefix,
         detailPrefix, emptyJSONString, jsonStringEscapeMax
<1>12. cap(decoded) # Invalid /\ cap(decoded) <= cap(manifest)
  <2> HIDE DEF call, fin, decoded
  <2> QED BY <1>9, <1>11, MaxUint32Assumption DEF maxUint32, Invalid
<1> QED BY <1>3, <1>10, <1>12

-----------------------------------------------------------------------------
(* The exchange *)

(***************************************************************************)
(* What the parent keeps true by its own checks.  Nothing here mentions    *)
(* the state of the child: the only thing assumed of its frames is that    *)
(* they decode.                                                            *)
(***************************************************************************)
ParentInv ==
  /\ toParent \in Seq(ChildFrames)
  /\ pctl \in {"writeExec", "read", "native", "eof", "abortEOF", "ended"}
  /\ pstate \in ConnStates
  /\ pcalls \in Nat /\ results \in Nat /\ delivered \in Nat /\ remaining \in Nat
  /\ pcalls <= MaxNativeCalls
  /\ delivered + remaining = MaxIntermediateValueBytes
  /\ pctl \in {"writeExec", "read", "eof"} => pcalls = results
  /\ pctl = "native" => pcalls = results + 1
  /\ pctl # "ended" => outcome = "none"
  /\ pctl = "ended" => outcome \in {"value", "retained", "kill"} \cup FinalErrors
  /\ pctl = "eof" => terminal \in {"final"} \cup FinalErrors
  /\ outcome = "value" => pcalls = results

\* A step of the child, of either kind, touches nothing the parent relies on but the
\* frames.
AnyChildStep == ChildStep \/ FaultyChildStep

USE LimitsAssumption, LengthsAssumption, PipeAssumption
    DEF FinalErrors, ParentFrames, ChildFrames, ConnStates, parentVars, childVars, historyVars

\* The child leaves the parent's variables and the ledger alone.
LEMMA ChildLeavesLedger ==
  ASSUME AnyChildStep
  PROVE  UNCHANGED <<parentVars, results, delivered>>
BY DEF AnyChildStep, ChildStep, FaultyChildStep, serveExec, beginMain, programEnds, callRefused,
   bindFails, writeNativeCall, acceptNativeResult, acceptNativeAbort, replyLost, serveSilently,
   writeTerminal, childFails, faultySend, faultyRead

\* What engine.Execute returns is a code of a final_error once it is an error.
ReturnedInv == returned \in {"none", "ok"} \cup FinalErrors /\ (proc = "unwound" => returned # "none")

\* Only the child decides what the engine returned.
LEMMA ReturnedStep ==
  ASSUME ReturnedInv, ParentStep \/ AnyChildStep \/ UNCHANGED vars
  PROVE  ReturnedInv'
<1>1. CASE ParentStep
  BY <1>1 DEF ReturnedInv, ParentStep, writeExec, readFails, acceptNativeCall, acceptTerminal,
     terminalEOF, nativeKill, writeNativeResult, writeAbort, abortEOF, closeStdin, killChild, closeStdout
<1>2. CASE ChildStep
  BY <1>2 DEF ReturnedInv, ChildStep, serveExec, beginMain, programEnds, callRefused,
     bindFails, writeNativeCall, acceptNativeResult, acceptNativeAbort, replyLost, serveSilently,
     writeTerminal, childFails, EngineReturns, Exit
<1>3. CASE FaultyChildStep
  BY <1>3 DEF ReturnedInv, FaultyChildStep, faultySend, faultyRead, childFails, Exit
<1>4. CASE UNCHANGED vars
  BY <1>4 DEF ReturnedInv, vars
<1> QED
  BY <1>1, <1>2, <1>3, <1>4 DEF AnyChildStep

\* Either child writes frames.
LEMMA ChildWritesFrames ==
  ASSUME ParentInv, ReturnedInv, AnyChildStep
  PROVE  toParent' \in Seq(ChildFrames)
<1>1. ASSUME NEW f \in ChildFrames, toParent' = Append(toParent, f)
      PROVE  toParent' \in Seq(ChildFrames)
  BY <1>1 DEF ParentInv
<1>2. CASE writeTerminal
  BY <1>1, <1>2 DEF writeTerminal, TerminalFrames, ReturnedInv, ParentInv
<1>3. CASE writeNativeCall \/ \E f \in ChildFrames : faultySend(f)
  BY <1>1, <1>3 DEF writeNativeCall, faultySend, ParentInv
<1>4. CASE UNCHANGED toParent
  BY <1>4 DEF ParentInv
<1> QED
  BY <1>2, <1>3, <1>4 DEF AnyChildStep, ChildStep, FaultyChildStep, serveExec, beginMain, programEnds,
     callRefused, bindFails, acceptNativeResult, acceptNativeAbort, replyLost, serveSilently,
     childFails, faultyRead

\* Every step of either system preserves the parent's invariant.
LEMMA ParentInvStep ==
  ASSUME ParentInv, ReturnedInv, ParentStep \/ AnyChildStep \/ UNCHANGED vars
  PROVE  ParentInv'
<1> USE DEF ParentInv
<1>1. CASE writeExec \/ nativeKill \/ abortEOF
  BY <1>1 DEF writeExec, nativeKill, abortEOF, End
<1>2. CASE acceptNativeCall
  BY <1>2 DEF acceptNativeCall, FrameAvailable, CallBudgetLeft, End
<1>3. CASE acceptTerminal
  <2>1. Head(toParent) \in ChildFrames /\ Tail(toParent) \in Seq(ChildFrames)
    BY <1>3, HeadTailProperties DEF acceptTerminal, FrameAvailable
  <2> QED
    BY <1>3, <2>1 DEF acceptTerminal, FrameAvailable, End
<1>4. CASE terminalEOF
  BY <1>4 DEF terminalEOF, End
<1>5. CASE \E n \in Lengths : writeNativeResult(n)
  BY <1>5 DEF writeNativeResult, Fits, End
<1>6. CASE writeAbort
  BY <1>6 DEF writeAbort
<1>7. CASE closeStdin \/ killChild \/ closeStdout \/ UNCHANGED vars
  BY <1>7 DEF closeStdin, killChild, closeStdout, vars
<1>8. CASE AnyChildStep
  BY <1>8, ChildLeavesLedger, ChildWritesFrames
<1>9. CASE readFails
  <2>1. toParent' \in Seq(ChildFrames)
    BY <1>9, HeadTailProperties DEF readFails, FrameAvailable
  <2> QED
    BY <1>9, <2>1 DEF readFails, End
<1> QED
  BY <1>1, <1>2, <1>3, <1>4, <1>5, <1>6, <1>7, <1>8, <1>9 DEF ParentStep

\* Every step of either system is a step of the ledger or invisible to it.
LEMMA StepKeepsLedger ==
  ASSUME ParentInv, ParentInv', ParentStep \/ AnyChildStep \/ UNCHANGED vars
  PROVE  [Ledger!Next]_(Ledger!lvars)
<1> USE DEF ParentInv, Ledger!lvars
<1>1. CASE \E v \in {"value", "retained", "kill"} \cup FinalErrors :
             /\ outcome = "none" /\ outcome' = v /\ UNCHANGED <<pcalls, results, delivered>>
             /\ v = "value" => pcalls = results
  BY <1>1 DEF Ledger!Next, Ledger!Finish
<1>2. CASE UNCHANGED <<pcalls, results, delivered, outcome>>
  BY <1>2
<1>3. CASE acceptNativeCall
  <2>1. CASE pstate = "Ready" /\ CallBudgetLeft
    BY <1>3, <2>1 DEF acceptNativeCall, CallBudgetLeft, Ledger!Next, Ledger!Accept
  <2>2. CASE ~(pstate = "Ready" /\ CallBudgetLeft)
    BY <1>1, <1>3, <2>2 DEF acceptNativeCall, End
  <2> QED
    BY <2>1, <2>2
<1>4. CASE \E n \in Lengths : writeNativeResult(n)
  <2>1. PICK n \in Lengths : writeNativeResult(n)
    BY <1>4
  <2>2. CASE Writable
    <3>1. n \in 0..(MaxIntermediateValueBytes - delivered)
      BY <2>1 DEF writeNativeResult, Fits
    <3>2. Ledger!Reply
      BY <2>1, <2>2, <3>1 DEF writeNativeResult, Ledger!Reply
    <3> QED
      BY <3>2 DEF Ledger!Next
  <2>3. CASE ~Writable
    BY <1>1, <2>1, <2>3 DEF writeNativeResult, End
  <2> QED
    BY <2>2, <2>3
<1>5. CASE writeExec
  BY <1>1, <1>2, <1>5 DEF writeExec, End
<1>6. CASE readFails \/ nativeKill \/ abortEOF
  BY <1>1, <1>6 DEF readFails, nativeKill, abortEOF, End
<1>7. CASE acceptTerminal
  BY <1>1, <1>2, <1>7 DEF acceptTerminal, End
<1>8. CASE terminalEOF
  BY <1>1, <1>8 DEF terminalEOF, End
<1>9. CASE writeAbort \/ closeStdin \/ killChild \/ closeStdout \/ UNCHANGED vars
  BY <1>2, <1>9 DEF writeAbort, closeStdin, killChild, closeStdout, vars
<1>10. CASE AnyChildStep
  BY <1>2, <1>10, ChildLeavesLedger
<1> QED
  BY <1>3, <1>4, <1>5, <1>6, <1>7, <1>8, <1>9, <1>10 DEF ParentStep

\* The initial states.
LEMMA InitParent == Init => ParentInv /\ ReturnedInv /\ Ledger!Init
BY DEF Init, ParentInv, ReturnedInv, Ledger!Init

\* The exchange with this repository's worker keeps the ledger: serial native calls
\* within MaxNativeCalls, result bytes within MaxIntermediateValueBytes, a value
\* only when every call was answered with a result.
THEOREM WorkerKeepsLedger == Spec => KeepsLedger
<1>1. ParentInv /\ ReturnedInv /\ [Next]_vars => ParentInv' /\ ReturnedInv' /\ [Ledger!Next]_(Ledger!lvars)
  BY ParentInvStep, ReturnedStep, StepKeepsLedger DEF Next, Over, AnyChildStep
<1> QED
  BY <1>1, InitParent, PTL DEF Spec, KeepsLedger, Ledger!Spec

\* So does the exchange with a process that sends any frames in any order: the
\* bounds rest on the parent's own checks alone.
THEOREM FaultyChildKeepsLedger == FaultyChildSpec => KeepsLedger
<1>1. ParentInv /\ ReturnedInv /\ [FaultyChildNext]_vars => ParentInv' /\ ReturnedInv' /\ [Ledger!Next]_(Ledger!lvars)
  BY ParentInvStep, ReturnedStep, StepKeepsLedger DEF FaultyChildNext, Over, AnyChildStep
<1> QED
  BY <1>1, InitParent, PTL DEF FaultyChildSpec, KeepsLedger, Ledger!Spec
-----------------------------------------------------------------------------
(***************************************************************************)
(* The conversation with this repository's worker is always at one of nine *)
(* points, each of which fixes both pipes, both connection states and how  *)
(* the three counters compare.  That is the strengthening from which the   *)
(* properties of the worker's exchange follow.                             *)
(***************************************************************************)
Counts(calls, sent) == pcalls = calls /\ ccalls = sent

\* Before the worker has read the exec frame.
Fresh ==
  /\ cstate = "Init" /\ toParent = <<>> /\ Counts(0, 0) /\ results = 0 /\ terminal = "none"
  /\ \/ pctl = "writeExec" /\ toChild = <<>> /\ pstate = "Init"
     \/ pctl = "read" /\ toChild = <<"exec">> /\ pstate = "Ready"
     \/ pctl = "ended" /\ pstate \in {"Init", "Ready"} /\ (toChild = <<>> \/ (toChild = <<"exec">> /\ ~Alive))

\* The program runs.
Idle ==
  /\ cstate = "Ready" /\ toParent = <<>> /\ toChild = <<>> /\ Counts(results, results)
  /\ terminal = "none" /\ pstate = "Ready" /\ pctl \in {"read", "ended"}

\* A native_call is on its way.
Asked ==
  /\ cstate = "AwaitNative" /\ toParent = <<"native_call">> /\ toChild = <<>>
  /\ Counts(results, results + 1)
  /\ terminal = "none" /\ pstate = "Ready" /\ pctl \in {"read", "ended"}

\* The parent works on it, or could not write its reply.
Taken ==
  /\ cstate = "AwaitNative" /\ toParent = <<>> /\ toChild = <<>>
  /\ Counts(results + 1, results + 1)
  /\ terminal = "none" /\ pstate = "AwaitNative" /\ pctl \in {"native", "abortEOF", "ended"}

\* A result is on its way.
Answered ==
  /\ cstate = "AwaitNative" /\ toParent = <<>> /\ toChild = <<"native_result">>
  /\ Counts(results, results)
  /\ terminal = "none" /\ pstate = "Ready" /\ pctl \in {"read", "ended"}

\* An abort is on its way.
Aborting ==
  /\ cstate = "AwaitNative" /\ toParent = <<>> /\ toChild = <<"native_abort">>
  /\ Counts(results + 1, results + 1)
  /\ terminal = "none" /\ pstate = "Done" /\ pctl \in {"abortEOF", "ended"}
  /\ proc # "unwound" /\ status # "one"

\* The worker has read it.
Aborted ==
  /\ cstate = "Done" /\ toParent = <<>> /\ toChild = <<>>
  /\ Counts(results + 1, results + 1)
  /\ terminal = "none" /\ pstate = "Done" /\ pctl \in {"abortEOF", "ended"}
  /\ status # "one"

\* A terminal frame is on its way.
Reported ==
  /\ cstate = "Done" /\ toChild = <<>> /\ Counts(results, results)
  /\ \E f \in {"final"} \cup FinalErrors : toParent = <<f>> /\ (f = "final" => returned = "ok")
  /\ terminal = "none" /\ pstate = "Ready" /\ pctl \in {"read", "ended"}
  /\ ~Alive

\* The parent has read it.
Concluded ==
  /\ cstate = "Done" /\ toParent = <<>> /\ toChild = <<>> /\ Counts(results, results)
  /\ terminal \in {"final"} \cup FinalErrors /\ (terminal = "final" => returned = "ok")
  /\ pstate = "Done" /\ pctl \in {"eof", "ended"}
  /\ ~Alive

Conversation ==
  \/ Fresh \/ Idle \/ Asked \/ Taken \/ Answered \/ Aborting \/ Aborted \/ Reported \/ Concluded

\* What the process and the engine add to it.
EngineInv ==
  /\ proc \in {"boot", "engine", "forward", "unwound", "exited"}
  /\ phase \in {"loading", "running", "done"}
  /\ ccalls \in Nat /\ attempts \in Nat
  /\ ccalls <= attempts /\ attempts <= MaxNativeCalls
  /\ proc = "boot" => cstate = "Init" /\ phase = "loading"
  /\ proc \in {"boot", "engine", "forward"} => attempts = ccalls
  /\ proc = "engine" => cstate = "Ready" /\ phase # "done"
  /\ proc = "forward" => cstate = "AwaitNative" /\ phase = "running"
  /\ proc = "unwound" => cstate # "Init"
  /\ proc = "unwound" /\ cstate = "AwaitNative" => toChild = <<>> /\ "stdin" \notin open
  /\ returned = "ok" => attempts = ccalls /\ cstate \in {"Ready", "Done"} /\ phase = "done"
  /\ returned # "none" => proc \in {"unwound", "exited"}

\* What teardown and the outcome add to it.
OutcomeInv ==
  /\ open \subseteq {"stdin", "stdout"}
  /\ "stdout" \notin open => ~Alive /\ "stdin" \notin open
  /\ outcome \notin {"none", "kill"} => ~Alive
  /\ outcome = "value" => terminal = "final"
  /\ "parent" \notin illegal
  /\ "child" \in illegal => "stdin" \notin open

\* Status 1 is set only when the process exits.
StatusInv == status = "one" => proc = "exited"

WorkerInv == ParentInv /\ ReturnedInv /\ Conversation /\ EngineInv /\ OutcomeInv /\ StatusInv

\* Pipes that hold at most one frame.
LEMMA OneFrame ==
  /\ \A f : Append(<<>>, f) = <<f>> /\ Head(<<f>>) = f /\ Tail(<<f>>) = <<>> /\ <<f>> # <<>>
  /\ \A f, g : <<f>> = <<g>> => f = g
OBVIOUS

\* The parent moves the conversation to its next point.
LEMMA ParentConverses ==
  ASSUME WorkerInv, ParentStep
  PROVE  Conversation'
<1> USE OneFrame DEF WorkerInv, Counts
<1>1. CASE writeExec
  <2>1. Fresh
    BY <1>1 DEF writeExec, Conversation, Fresh, Idle, Asked, Taken, Answered, Aborting, Aborted, Reported, Concluded
  <2>2. CASE Writable
    <3>1. toChild = <<>> /\ cstate = "Init" /\ toParent = <<>> /\ Counts(0, 0) /\ results = 0 /\ terminal = "none"
      BY <1>1, <2>1 DEF writeExec, Fresh
    <3>2. toChild' = <<"exec">> /\ pctl' = "read" /\ pstate' = "Ready"
      BY <1>1, <2>2, <3>1 DEF writeExec
    <3>3. UNCHANGED <<cstate, toParent, pcalls, ccalls, results, terminal>>
      BY <1>1 DEF writeExec, childVars, historyVars
    <3>4. Fresh'
      BY <3>1, <3>2, <3>3 DEF Fresh
    <3> QED
      BY <3>4 DEF Conversation
  <2>3. CASE ~Writable
    <3>1. toChild = <<>> /\ pstate = "Init" /\ cstate = "Init" /\ toParent = <<>> /\ Counts(0, 0)
          /\ results = 0 /\ terminal = "none"
      BY <1>1, <2>1 DEF writeExec, Fresh
    <3>2. pctl' = "ended" /\ UNCHANGED <<toChild, pstate>>
      BY <1>1, <2>3 DEF writeExec, End
    <3>3. UNCHANGED <<cstate, toParent, pcalls, ccalls, results, terminal>>
      BY <1>1 DEF writeExec, childVars, historyVars
    <3>4. Fresh'
      BY <3>1, <3>2, <3>3 DEF Fresh
    <3> QED
      BY <3>4 DEF Conversation
  <2> QED
    BY <2>2, <2>3
<1>2. CASE readFails
  <2>1. toParent # <<>> => Head(toParent) # "malformed"
    BY DEF Conversation, Fresh, Idle, Asked, Taken, Answered, Aborting, Aborted, Reported, Concluded
  <2>2. (AtEOF \/ ReadBroken) /\ UNCHANGED toParent
    BY <1>2, <2>1 DEF readFails, FrameAvailable
  <2> QED
    BY <1>2, <2>2 DEF readFails, End, AtEOF, ReadBroken, OutcomeInv, Alive,
     Conversation, Fresh, Idle, Asked, Taken, Answered, Aborting, Aborted, Reported, Concluded
<1>3. CASE acceptNativeCall
  <2>1. Asked
    BY <1>3 DEF acceptNativeCall, FrameAvailable, Conversation, Fresh, Idle, Asked, Taken, Answered, Aborting, Aborted,
       Reported, Concluded
  <2>2. CallBudgetLeft
    BY <2>1 DEF Asked, EngineInv, ParentInv, CallBudgetLeft
  <2>3. Taken'
    BY <1>3, <2>1, <2>2 DEF acceptNativeCall, Asked, Taken
  <2> QED
    BY <2>3 DEF Conversation
<1>4. CASE acceptTerminal
  <2>1. Reported
    BY <1>4 DEF acceptTerminal, FrameAvailable, Conversation, Fresh, Idle, Asked, Taken, Answered, Aborting, Aborted,
       Reported, Concluded
  <2>2. Concluded'
    BY <1>4, <2>1 DEF acceptTerminal, Reported, Concluded, Alive
  <2> QED
    BY <2>2 DEF Conversation
<1>5. CASE terminalEOF
  <2>1. Concluded
    BY <1>5 DEF terminalEOF, Conversation, Fresh, Idle, Asked, Taken, Answered, Aborting, Aborted, Reported, Concluded
  <2>2. Concluded'
    BY <1>5, <2>1 DEF terminalEOF, End, Concluded, Alive
  <2> QED
    BY <2>2 DEF Conversation
<1>6. CASE nativeKill
  <2>1. Taken
    BY <1>6 DEF nativeKill, Conversation, Fresh, Idle, Asked, Taken, Answered, Aborting, Aborted, Reported, Concluded
  <2>2. Taken'
    BY <1>6, <2>1 DEF nativeKill, End, Taken
  <2> QED
    BY <2>2 DEF Conversation
<1>7. CASE \E n \in Lengths : writeNativeResult(n)
  <2>1. Taken
    BY <1>7 DEF writeNativeResult, Conversation, Fresh, Idle, Asked, Taken, Answered, Aborting, Aborted, Reported, Concluded
  <2>2. CASE Writable
    <3>1. Answered'
      BY <1>7, <2>1, <2>2 DEF writeNativeResult, Taken, Answered, ParentInv
    <3> QED
      BY <3>1 DEF Conversation
  <2>3. CASE ~Writable
    <3>1. Taken'
      BY <1>7, <2>1, <2>3 DEF writeNativeResult, End, Taken
    <3> QED
      BY <3>1 DEF Conversation
  <2> QED
    BY <2>2, <2>3
<1>8. CASE writeAbort
  <2>1. Taken
    BY <1>8 DEF writeAbort, Conversation, Fresh, Idle, Asked, Taken, Answered, Aborting, Aborted, Reported, Concluded
  <2>2. CASE Writable
    <3>1. status # "one" /\ proc # "unwound"
      BY <2>1, <2>2 DEF Taken, Writable, Alive, EngineInv, OutcomeInv, StatusInv
    <3>2. Aborting'
      BY <1>8, <2>1, <2>2, <3>1 DEF writeAbort, Taken, Aborting
    <3> QED
      BY <3>2 DEF Conversation
  <2>3. CASE ~Writable
    <3>1. Taken'
      BY <1>8, <2>1, <2>3 DEF writeAbort, Taken
    <3> QED
      BY <3>1 DEF Conversation
  <2> QED
    BY <2>2, <2>3
<1>9. CASE abortEOF
  BY <1>9 DEF abortEOF, End, Conversation, Fresh, Idle, Asked, Taken, Answered, Aborting, Aborted, Reported, Concluded
<1>10. CASE closeStdin \/ closeStdout
  BY <1>10 DEF closeStdin, closeStdout, Alive,
     Conversation, Fresh, Idle, Asked, Taken, Answered, Aborting, Aborted, Reported, Concluded
<1>11. CASE killChild
  BY <1>11 DEF killChild, Alive,
     Conversation, Fresh, Idle, Asked, Taken, Answered, Aborting, Aborted, Reported, Concluded
<1> QED
  BY <1>1, <1>2, <1>3, <1>4, <1>5, <1>6, <1>7, <1>8, <1>9, <1>10, <1>11 DEF ParentStep

\* The worker does too.
LEMMA ChildConverses ==
  ASSUME WorkerInv, ChildStep
  PROVE  Conversation'
<1> USE OneFrame DEF WorkerInv, Counts
<1>1. CASE serveExec
  <2>1. Fresh
    BY <1>1 DEF serveExec, EngineInv, Conversation, Fresh, Idle, Asked, Taken, Answered, Aborting, Aborted, Reported, Concluded
  <2>2. Idle'
    BY <1>1, <2>1 DEF serveExec, Fresh, Idle, Alive
  <2> QED
    BY <2>2 DEF Conversation
<1>2. CASE beginMain \/ programEnds \/ callRefused \/ bindFails
  <2>1. Idle
    BY <1>2 DEF beginMain, programEnds, callRefused, bindFails, EngineInv,
       Conversation, Fresh, Idle, Asked, Taken, Answered, Aborting, Aborted, Reported, Concluded, Alive
  <2>2. Idle'
    BY <1>2, <2>1 DEF beginMain, programEnds, callRefused, bindFails, Idle
  <2> QED
    BY <2>2 DEF Conversation
<1>3. CASE writeNativeCall
  <2>1. Idle
    BY <1>3 DEF writeNativeCall, EngineInv,
       Conversation, Fresh, Idle, Asked, Taken, Answered, Aborting, Aborted, Reported, Concluded, Alive
  <2>2. ccalls < MaxNativeCalls
    BY <1>3 DEF writeNativeCall, MayAttempt, EngineInv
  <2>3. Asked'
    BY <1>3, <2>1, <2>2 DEF writeNativeCall, Idle, Asked
  <2> QED
    BY <2>3 DEF Conversation
<1>4. CASE acceptNativeResult
  <2>1. Answered
    BY <1>4 DEF acceptNativeResult, Conversation, Fresh, Idle, Asked, Taken, Answered, Aborting, Aborted,
       Reported, Concluded
  <2>2. Idle'
    BY <1>4, <2>1 DEF acceptNativeResult, Answered, Idle
  <2> QED
    BY <2>2 DEF Conversation
<1>5. CASE acceptNativeAbort
  <2>1. Aborting
    BY <1>5 DEF acceptNativeAbort, Conversation, Fresh, Idle, Asked, Taken, Answered, Aborting, Aborted,
       Reported, Concluded
  <2>2. Aborted'
    BY <1>5, <2>1 DEF acceptNativeAbort, Aborting, Aborted
  <2> QED
    BY <2>2 DEF Conversation
<1>6. CASE replyLost
  <2>1. Asked \/ Taken
    BY <1>6 DEF replyLost, EngineInv, Conversation, Fresh, Idle, Asked, Taken, Answered, Aborting, Aborted,
       Reported, Concluded
  <2>2. Asked' \/ Taken'
    BY <1>6, <2>1 DEF replyLost, Asked, Taken
  <2> QED
    BY <2>2 DEF Conversation
<1>7. CASE serveSilently
  <2>1. Aborted
    BY <1>7 DEF serveSilently, NotAborted, Alive, Conversation, Fresh, Idle, Asked, Taken, Answered, Aborting, Aborted,
       Reported, Concluded
  <2>2. Aborted'
    BY <1>7, <2>1 DEF serveSilently, Exit, Aborted
  <2> QED
    BY <2>2 DEF Conversation
<1>8. CASE writeTerminal
  <2>1. CASE cstate = "Ready"
    <3>1. Idle
      BY <2>1 DEF Conversation, Fresh, Idle, Asked, Taken, Answered, Aborting, Aborted, Reported, Concluded
    <3>2. PICK f \in TerminalFrames : toParent' = Append(toParent, f)
      BY <1>8, <2>1 DEF writeTerminal, MayWriteTerminal
    <3>3. f \in {"final"} \cup FinalErrors /\ (f = "final" => returned = "ok")
      BY <1>8, <3>2 DEF TerminalFrames, ReturnedInv, writeTerminal
    <3>4. toParent' = <<f>>
      BY <3>1, <3>2 DEF Idle
    <3>5. Reported'
      BY <1>8, <2>1, <3>1, <3>3, <3>4 DEF writeTerminal, MayWriteTerminal, Exit, Idle, Reported, Alive
    <3> QED
      BY <3>5 DEF Conversation
  <2>2. CASE cstate # "Ready"
    <3>1. Asked \/ Taken
      BY <1>8, <2>2 DEF writeTerminal, NotAborted, EngineInv, Conversation, Fresh, Idle, Asked, Taken, Answered,
         Aborting, Aborted, Reported, Concluded
    <3>2. Asked' \/ Taken'
      BY <1>8, <2>2, <3>1 DEF writeTerminal, MayWriteTerminal, Exit, Asked, Taken
    <3> QED
      BY <3>2 DEF Conversation
  <2> QED
    BY <2>1, <2>2
<1>9. CASE childFails
  BY <1>9 DEF childFails, Exit, Alive, EngineInv,
     Conversation, Fresh, Idle, Asked, Taken, Answered, Aborting, Aborted, Reported, Concluded
<1> QED
  BY <1>1, <1>2, <1>3, <1>4, <1>5, <1>6, <1>7, <1>8, <1>9 DEF ChildStep

\* Both keep what is known of the engine.
LEMMA EngineStep ==
  ASSUME WorkerInv, ParentStep \/ ChildStep
  PROVE  EngineInv'
<1> USE OneFrame DEF WorkerInv, Counts
<1>1. CASE ParentStep
  <2>1. CASE Taken
    BY <1>1, <2>1 DEF EngineInv, Taken, Writable, Alive, ParentStep, writeExec, readFails, acceptNativeCall, acceptTerminal,
       terminalEOF, nativeKill, writeNativeResult, writeAbort, abortEOF, closeStdin, killChild, closeStdout
  <2>2. CASE ~Taken
    <3>1. pctl # "native"
      BY <2>2 DEF Conversation, Fresh, Idle, Asked, Taken, Answered, Aborting, Aborted, Reported, Concluded
    <3>2. UNCHANGED <<ccalls, attempts, cstate, phase, returned>>
      BY <1>1 DEF ParentStep, writeExec, readFails, acceptNativeCall, acceptTerminal,
         terminalEOF, nativeKill, writeNativeResult, writeAbort, abortEOF, closeStdin, killChild, closeStdout
    <3>3. proc' = proc \/ proc' = "exited"
      BY <1>1 DEF ParentStep, writeExec, readFails, acceptNativeCall, acceptTerminal,
         terminalEOF, nativeKill, writeNativeResult, writeAbort, abortEOF, closeStdin, killChild, closeStdout
    <3>4. open' \subseteq open
      BY <1>1 DEF ParentStep, writeExec, readFails, acceptNativeCall, acceptTerminal,
         terminalEOF, nativeKill, writeNativeResult, writeAbort, abortEOF, closeStdin, killChild, closeStdout
    <3>5. toChild' = toChild \/ cstate = "Init"
      BY <1>1, <3>1 DEF ParentStep, writeExec, readFails, acceptNativeCall, acceptTerminal,
         terminalEOF, nativeKill, writeNativeResult, writeAbort, abortEOF, closeStdin, killChild, closeStdout,
         Conversation, Fresh, Idle, Asked, Taken, Answered, Aborting, Aborted, Reported, Concluded
    <3> QED
      BY <3>2, <3>3, <3>4, <3>5 DEF EngineInv
  <2> QED
    BY <2>1, <2>2
<1>2. CASE serveExec
  BY <1>2 DEF EngineInv, serveExec
<1>6. CASE beginMain \/ programEnds \/ callRefused \/ bindFails
  BY <1>6 DEF EngineInv, beginMain, programEnds, callRefused, bindFails, MayAttempt, EngineReturns
<1>3. CASE writeNativeCall
  BY <1>3 DEF EngineInv, writeNativeCall, MayAttempt, EngineReturns
<1>4. CASE acceptNativeResult \/ acceptNativeAbort \/ replyLost
  BY <1>4 DEF EngineInv, acceptNativeResult, acceptNativeAbort, replyLost, EngineReturns
<1>5. CASE serveSilently \/ writeTerminal \/ childFails
  BY <1>5 DEF EngineInv, serveSilently, writeTerminal, childFails, Exit
<1> QED
  BY <1>1, <1>2, <1>3, <1>4, <1>5, <1>6 DEF ChildStep

\* The parent keeps what is known of teardown and the outcome.
LEMMA OutcomeParentStep ==
  ASSUME WorkerInv, ParentStep
  PROVE  OutcomeInv'
<1> USE OneFrame DEF WorkerInv, OutcomeInv, Alive
<1>1. CASE writeExec \/ readFails \/ nativeKill \/ writeAbort \/ (\E n \in Lengths : writeNativeResult(n))
  BY <1>1 DEF writeExec, readFails, nativeKill, writeAbort, writeNativeResult, End, ParentInv
<1>2. CASE acceptNativeCall
  <2>1. pstate = "Ready" /\ CallBudgetLeft
    BY <1>2 DEF acceptNativeCall, FrameAvailable, CallBudgetLeft, EngineInv, ParentInv, Counts,
       Conversation, Fresh, Idle, Asked, Taken, Answered, Aborting, Aborted, Reported, Concluded
  <2> QED
    BY <1>2, <2>1 DEF acceptNativeCall
<1>3. CASE acceptTerminal
  <2>1. pstate = "Ready"
    BY <1>3 DEF acceptTerminal, Conversation, Fresh, Idle, Asked, Taken, Answered, Aborting, Aborted, Reported, Concluded
  <2> QED
    BY <1>3, <2>1 DEF acceptTerminal, ParentInv
<1>4. CASE terminalEOF
  <2>1. toParent = <<>>
    BY <1>4 DEF terminalEOF, Conversation, Fresh, Idle, Asked, Taken, Answered, Aborting, Aborted, Reported, Concluded
  <2> QED
    BY <1>4, <2>1 DEF terminalEOF, FrameAvailable, AtEOF, End, ParentInv
<1>5. CASE abortEOF
  <2>1. toParent = <<>>
    BY <1>5 DEF abortEOF, Conversation, Fresh, Idle, Asked, Taken, Answered, Aborting, Aborted, Reported, Concluded
  <2> QED
    BY <1>5, <2>1 DEF abortEOF, ReadReturns, FrameAvailable, AtEOF, ReadBroken, End
<1>6. CASE closeStdin \/ killChild \/ closeStdout
  BY <1>6 DEF closeStdin, killChild, closeStdout
<1> QED
  BY <1>1, <1>2, <1>3, <1>4, <1>5, <1>6 DEF ParentStep

\* So does the worker.
LEMMA OutcomeChildStep ==
  ASSUME WorkerInv, ChildStep
  PROVE  OutcomeInv'
<1> USE DEF WorkerInv, OutcomeInv, Alive
<1>1. CASE writeNativeCall
  BY <1>1 DEF writeNativeCall, MayAttempt, EngineInv
<1>2. CASE writeTerminal
  BY <1>2 DEF writeTerminal, MayWriteTerminal, NotAborted, Exit, EngineInv, ParentInv,
     Conversation, Fresh, Idle, Asked, Taken, Answered, Aborting, Aborted, Reported, Concluded
<1>3. CASE ~(writeNativeCall \/ writeTerminal)
  <2>1. UNCHANGED <<open, illegal, outcome, terminal>> /\ proc # "exited"
    BY <1>3 DEF ChildStep, serveExec, beginMain, programEnds, callRefused, bindFails,
       acceptNativeResult, acceptNativeAbort, replyLost, serveSilently, childFails
  <2> QED
    BY <2>1
<1> QED
  BY <1>1, <1>2, <1>3

\* A status 1 is the end of a process.
LEMMA StatusStep ==
  ASSUME StatusInv, ParentStep \/ ChildStep
  PROVE  StatusInv'
BY DEF StatusInv, Alive, Exit, ParentStep, writeExec, readFails, acceptNativeCall, acceptTerminal,
   terminalEOF, nativeKill, writeNativeResult, writeAbort, abortEOF, closeStdin, killChild, closeStdout,
   ChildStep, serveExec, beginMain, programEnds, callRefused, bindFails, writeNativeCall, EngineReturns,
   acceptNativeResult, acceptNativeAbort, replyLost, serveSilently, writeTerminal, childFails

\* The invariant holds initially.
LEMMA InitWorker == Init => WorkerInv
BY InitParent DEF Init, WorkerInv, Conversation, Fresh, Counts, EngineInv, OutcomeInv, StatusInv, Alive

\* The invariant is inductive.
LEMMA NextWorker == WorkerInv /\ [Next]_vars => WorkerInv'
<1> SUFFICES ASSUME WorkerInv, [Next]_vars PROVE WorkerInv'
  OBVIOUS
<1>1. CASE ParentStep
  BY <1>1, ParentInvStep, ReturnedStep, ParentConverses, EngineStep, OutcomeParentStep, StatusStep DEF WorkerInv
<1>2. CASE ChildStep
  BY <1>2, ParentInvStep, ReturnedStep, ChildConverses, EngineStep, OutcomeChildStep, StatusStep
     DEF WorkerInv, AnyChildStep
<1>3. CASE UNCHANGED vars
  BY <1>3 DEF vars, WorkerInv, ParentInv, ReturnedInv, Conversation, Fresh, Idle, Asked, Taken, Answered, Aborting,
     Aborted, Reported, Concluded, Counts, EngineInv, OutcomeInv, StatusInv, Alive
<1> QED
  BY <1>1, <1>2, <1>3 DEF Next, Over

\* The conversation with the worker is always at one of its nine points.
THEOREM WorkerInvariance == Spec => []WorkerInv
BY InitWorker, NextWorker, PTL DEF Spec

\* The counters of the engine and of both connections agree up to the call in
\* flight and stay within MaxNativeCalls.
THEOREM CountersTheorem == Spec => []CountersAgree
<1>1. WorkerInv => CountersAgree
  <2> SUFFICES ASSUME WorkerInv PROVE CountersAgree
    OBVIOUS
  <2>1. /\ results <= pcalls /\ pcalls <= ccalls /\ ccalls <= results + 1
        /\ ccalls <= attempts /\ attempts <= MaxNativeCalls
        /\ ccalls = pcalls <=> ~Asked
    BY DEF WorkerInv, ParentInv, EngineInv, Conversation, Fresh, Idle, Asked, Taken, Answered, Aborting, Aborted,
       Reported, Concluded, Counts
  <2>2. Asked => Frames("native_call") = {1}
    BY DEF Asked, Frames
  <2>3. ~Asked => Frames("native_call") = {}
    BY DEF WorkerInv, Conversation, Fresh, Idle, Asked, Taken, Answered, Aborting, Aborted, Reported, Concluded, Frames
  <2> QED
    BY <2>1, <2>2, <2>3 DEF CountersAgree
<1> QED
  BY <1>1, WorkerInvariance, PTL

\* The connections stay in step: the counters of the engine and of both connections
\* agree up to the call in flight, and neither connection ever meets errIllegalState
\* while the worker's stdin is open.
THEOREM InStep == Spec => []PeersInStep
<1>1. WorkerInv /\ CountersAgree => PeersInStep
  BY DEF WorkerInv, OutcomeInv, PeersInStep
<1> QED
  BY <1>1, CountersTheorem, WorkerInvariance, PTL

\* A terminal frame is the last one and every call before it was answered.
THEOREM TerminalTheorem == Spec => []TerminalInTurn
<1>1. WorkerInv => TerminalInTurn
  <2> SUFFICES ASSUME WorkerInv PROVE TerminalInTurn
    OBVIOUS
  <2>1. CASE Asked
    BY <2>1 DEF Asked, TerminalInTurn
  <2>2. CASE Reported
    BY <2>2 DEF Reported, TerminalInTurn, Counts
  <2>3. CASE toParent = <<>>
    BY <2>3 DEF TerminalInTurn
  <2> QED
    BY <2>1, <2>2, <2>3 DEF WorkerInv, Conversation, Fresh, Idle, Taken, Answered, Aborting, Aborted, Concluded
<1> QED
  BY <1>1, WorkerInvariance, PTL

\* After an abort the worker writes nothing and does not exit with status 1.
THEOREM AbortTheorem == Spec => []AbortEndsCleanly
<1>1. WorkerInv => AbortEndsCleanly
  BY DEF WorkerInv, AbortEndsCleanly, Conversation, Fresh, Idle, Asked, Taken, Answered, Aborting, Aborted,
     Reported, Concluded
<1> QED
  BY <1>1, WorkerInvariance, PTL

\* A value is the value of main, after all of its calls were answered.
THEOREM ValueTheorem == Spec => []ValueIsMains
<1>1. WorkerInv => ValueIsMains
  BY DEF WorkerInv, ValueIsMains, OutcomeInv, EngineInv, Conversation, Fresh, Idle, Asked, Taken, Answered, Aborting,
     Aborted, Reported, Concluded, Counts
<1> QED
  BY <1>1, WorkerInvariance, PTL

\* An exchange that ends without asking for a kill has outlived its process.
THEOREM UnkilledTheorem == Spec => []UnkilledIsDead
<1>1. WorkerInv => UnkilledIsDead
  BY DEF WorkerInv, OutcomeInv, ParentInv, UnkilledIsDead
<1> QED
  BY <1>1, WorkerInvariance, PTL

\* The parent dispatches only while main waits for the reply.
THEOREM DispatchTheorem == Spec => []DispatchOnlyForWaitingMain
<1>1. WorkerInv => DispatchOnlyForWaitingMain
  BY DEF WorkerInv, DispatchOnlyForWaitingMain, Writable, Alive, EngineInv,
     Conversation, Fresh, Idle, Asked, Taken, Answered, Aborting, Aborted, Reported, Concluded
<1> QED
  BY <1>1, WorkerInvariance, PTL

\* The parent serves one run of main: it dispatches only while main waits, and its
\* value is that of a main all of whose calls were answered.
THEOREM MainTheorem == Spec => []MainIsServed
<1>1. DispatchOnlyForWaitingMain /\ ValueIsMains => MainIsServed
  BY DEF MainIsServed
<1> QED
  BY <1>1, DispatchTheorem, ValueTheorem, PTL
=============================================================================

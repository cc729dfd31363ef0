---------------------------- MODULE PayloadCaps -----------------------------
(***************************************************************************)
(* The sizes of the worker protocol's frames and the caps that bound them. *)
(* Both processes compute the caps on their own: the parent in NewRunner   *)
(* from its configuration, the child in serveExec from the exec frame.     *)
(* Every write and every read of a frame is checked against such a cap,    *)
(* after the content of the frame was checked against the configured       *)
(* limits, so a cap that comes out too small refuses legal frames.         *)
(*                                                                         *)
(* A text is abstracted to its size and to how json.Marshal spells it:     *)
(* "plain" as it is, "escaped" with six bytes for each byte (control       *)
(* characters, <, > and &), "invalid" (not UTF-8) with \ufffd for each     *)
(* byte, which the reader decodes into three plain bytes.                  *)
(***************************************************************************)
EXTENDS Integers

CONSTANTS
  MaxUint32,            \* math.MaxUint32
  maxDiagnosticBytes,   \* the bound on a final_error detail
  MaxAgentErrorBytes,   \* the bound on a native_abort detail
  execBytes             \* the exec frame with worst limits but without source and IDs

ASSUME MaxUint32Assumption == MaxUint32 \in Nat
ASSUME DetailAssumption == maxDiagnosticBytes \in Nat /\ MaxAgentErrorBytes \in Nat
ASSUME ExecAssumption == execBytes \in Nat

jsonStringEscapeMax == 6

\* The lengths of the fixed parts of the frames.
nativeCallPrefix == 38
nativeCallMid == 13
finalPrefix == 25
finalErrorPrefix == 48      \* with the longest code, invalid_arguments
nativeResultPrefix == 33
nativeAbortPrefix == 22
detailPrefix == 10          \* finalErrorDetail and nativeAbortDetail
closingBrace == 1           \* every suffix
emptyJSONString == 2

-----------------------------------------------------------------------------
(* Texts *)

Texts == [bytes : Nat, text : {"plain", "escaped", "invalid"}]

\* len(json.Marshal(s)).
EncodedLen(s) ==
  emptyJSONString + IF s.text = "plain" THEN s.bytes ELSE jsonStringEscapeMax * s.bytes

\* What the other process decodes.
OnWire(s) == IF s.text = "invalid" THEN [bytes |-> 3 * s.bytes, text |-> "plain"] ELSE s

-----------------------------------------------------------------------------
(* Checked 32-bit arithmetic *)

\* errInvalidLimits
Invalid == -1

Wrapped(n) == n % (MaxUint32 + 1)

\* configUint32, and the results of addConfigUint32 and mulConfigUint32: formed in
\* 64 bits and refused when they do not fit.
configUint32(n) == IF n < 0 \/ n > MaxUint32 THEN Invalid ELSE n

maxUint32(a, b) == IF a > b THEN a ELSE b

-----------------------------------------------------------------------------
(* Caps *)

\* The longest ID of a manifest (a set of texts) as it is spelled in a frame.
EncodedIDs(manifest) == {emptyJSONString} \cup {EncodedLen(id) : id \in manifest}
longestEncodedID(manifest) ==
  IF \E n \in EncodedIDs(manifest) : configUint32(n) = Invalid
    THEN Invalid
    ELSE CHOOSE n \in EncodedIDs(manifest) : \A m \in EncodedIDs(manifest) : m <= n

UnescapedErrorCap ==
  configUint32(finalErrorPrefix + detailPrefix + emptyJSONString + maxDiagnosticBytes + closingBrace)
finalErrorPayloadCap ==
  configUint32(finalErrorPrefix + detailPrefix + emptyJSONString
                 + jsonStringEscapeMax * maxDiagnosticBytes + closingBrace)

nativeAbortPayloadCap ==
  configUint32(nativeAbortPrefix + detailPrefix + emptyJSONString
                 + jsonStringEscapeMax * MaxAgentErrorBytes + closingBrace)

childPayloadCap(maxValueBytes, manifest) ==
  LET id == longestEncodedID(manifest)
      nativeCall ==
        configUint32(nativeCallPrefix + id + nativeCallMid + maxValueBytes + closingBrace)
      final == configUint32(finalPrefix + maxValueBytes + closingBrace)
  IN IF Invalid \in {configUint32(maxValueBytes), id, nativeCall, final, finalErrorPayloadCap}
       THEN Invalid
       ELSE maxUint32(maxUint32(nativeCall, final), finalErrorPayloadCap)

parentPayloadCap(maxValueBytes) ==
  LET nativeResult == configUint32(nativeResultPrefix + maxValueBytes + closingBrace)
  IN IF Invalid \in {configUint32(maxValueBytes), nativeResult, nativeAbortPayloadCap}
       THEN Invalid
       ELSE maxUint32(nativeResult, nativeAbortPayloadCap)

\* The exec frame without its source: manifestBytes is the length of the manifest.
execPayloadCap(maxSourceBytes, manifestBytes) ==
  LET expanded == configUint32(jsonStringEscapeMax * maxSourceBytes)
      base == configUint32(execBytes + manifestBytes + emptyJSONString)
  IN IF Invalid \in {configUint32(maxSourceBytes), expanded, base}
       THEN Invalid
       ELSE configUint32(base + expanded)

-----------------------------------------------------------------------------
(* Frames *)

encodeNativeCall(id, valueBytes) ==
  nativeCallPrefix + EncodedLen(id) + nativeCallMid + valueBytes + closingBrace

encodeFinal(valueBytes) == finalPrefix + valueBytes + closingBrace

encodeNativeResult(valueBytes) == nativeResultPrefix + valueBytes + closingBrace

\* The spelling of each final_error code is shorter than invalid_arguments' by this.
FinalErrorCodes == {"invalid_program", "invalid_arguments", "resource_limit", "internal"}
shorterBy(code) ==
  IF code = "internal" THEN 9
  ELSE IF code = "resource_limit" THEN 3
  ELSE IF code = "invalid_program" THEN 2 ELSE 0

allowsFinalErrorDetail(code) == code \in {"invalid_program", "invalid_arguments"}

NoDetail == [bytes |-> 0, text |-> "plain"]
WithDetail(detail) == IF detail.bytes = 0 THEN 0 ELSE detailPrefix + EncodedLen(detail)

\* A detail that is too long or not allowed is dropped.
sanitizedFinalErrorDetail(code, detail) ==
  IF detail.bytes <= maxDiagnosticBytes /\ allowsFinalErrorDetail(code) THEN detail ELSE NoDetail

encodeFinalError(code, detail) ==
  finalErrorPrefix - shorterBy(code) + closingBrace + WithDetail(sanitizedFinalErrorDetail(code, detail))

\* The parent refuses a detail the child must not send; one that is absent is legal.
decodeFinalErrorDetail(code, detail) ==
  detail.bytes # 0 => detail.bytes <= maxDiagnosticBytes /\ allowsFinalErrorDetail(code)

\* An abort detail is also dropped when it is not valid UTF-8.
validAbortDetail(detail) == detail.bytes <= MaxAgentErrorBytes /\ detail.text # "invalid"
sanitizedAbortDetail(detail) == IF validAbortDetail(detail) THEN detail ELSE NoDetail

encodeNativeAbort(detail) == nativeAbortPrefix + closingBrace + WithDetail(sanitizedAbortDetail(detail))

decodeAbortDetail(detail) == detail.bytes # 0 => validAbortDetail(detail)

\* limitBytes is what the child's limits take less than worstChildLimits.
encodeExec(source, manifestBytes, limitBytes) ==
  execBytes - limitBytes + manifestBytes + EncodedLen(source)

\* writeFrame and readFrame: nothing empty, nothing over the cap.
frameFits(length, maxPayload) == length > 0 /\ length <= maxPayload
=============================================================================

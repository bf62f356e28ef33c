---------------------------- MODULE HttpResponse ----------------------------
(***************************************************************************)
(* HttpResponse: what user code may set of it, how the content of a file   *)
(* is encoded, and when generateResponse throws.  A file is its extension; *)
(* compression itself is left out.                                         *)
(***************************************************************************)
EXTENDS Integers, Sequences

(* What the handler of a request, or onMessage without one, can set;       *)
(* file is the extension given to setContentByFilePath, "no file" if it    *)
(* was not called, and "" a file without extension.                        *)
Responses == [mVersion : {"UNKNOWN", "HTTP1_1"}, mStatus : {0, 200, 404},
              mIsKeepAlive : BOOLEAN, file : {"no file", "", ".html", ".png"}]

(* Mutant: any encoding that compression supports is selected.             *)
SelectEncodeTypeAny(file, mAvailEncodings) ==
    IF file \in {"no file", "", ".png"} THEN "NO_ENCODING" ELSE "GZIP"

selectEncodeType(file, mAvailEncodings) ==
    IF file = ".html" /\ mAvailEncodings # <<>> THEN mAvailEncodings[1] ELSE "NO_ENCODING"

(* Mutant: Content-Encoding names the encoding that was selected.          *)
ContentEncodingAsSelected(file, mAvailEncodings) == selectEncodeType(file, mAvailEncodings)

(* The Content-Encoding setContentByFilePath sets: what is neither gzip    *)
(* nor unencoded is compressed with deflate.                               *)
ContentEncoding(file, mAvailEncodings) ==
    LET selectEncode == selectEncodeType(file, mAvailEncodings) IN
    IF selectEncode \in {"NO_ENCODING", "GZIP"} THEN selectEncode ELSE "DEFLATE"

(* The content has a length once it is set from a file.                    *)
validateResponse(r) ==
    /\ r.mVersion # "UNKNOWN"
    /\ r.mStatus # 0
    /\ r.mStatus < 300 => r.file # "no file"
=============================================================================

----------------------------- MODULE HttpRequest -----------------------------
(***************************************************************************)
(* parseHttpRequest.  A packet is a sequence of tokens: a request line or  *)
(* a header line (without its CRLF), a CRLF, or a byte of a body.  A part  *)
(* of a line or of a CRLF is a byte too: nothing the parser looks for is   *)
(* complete, and behind a blank line it counts as body.                    *)
(*                                                                         *)
(* A line has a key (the method, or the header's name) and a value: the    *)
(* number of the request, the length of the content, or what is in         *)
(* ContentTypes.  Every request line has a known version and a path.       *)
(***************************************************************************)
EXTENDS StringHelper, SequencesExt

CRLF == [key |-> "CRLF", value |-> 0]
Byte == [key |-> "byte", value |-> 0]

KnownType == 1     \* values of Content-Type
UnknownType == 2
NoNumber == -2     \* a Content-Length that from_chars does not take

Keys(tokens) == {tokens[i].key : i \in DOMAIN tokens}

(* The value of the first line with that key: insert keeps it.             *)
ValueOf(key, tokens) == tokens[SelectInSeq(tokens, LAMBDA t : t.key = key)].value

(* The method, wherever it is in the line.                                 *)
parseStartLine(requestLine) ==
    CASE "GET" \in Keys(requestLine)  -> "GET"
      [] "POST" \in Keys(requestLine) -> "POST"
      [] OTHER                        -> "UNKNOWN"

(* mContentLength; it is looked for only if there is a Content-Type.       *)
ContentLength(headers) ==
    IF {"Content-Type", "Content-Length"} \subseteq Keys(headers)
    THEN ValueOf("Content-Length", headers) ELSE -1

(* What parseHeaders refuses.                                              *)
BadHeaders(type, headers) ==
    /\ type # "GET"
    /\ "Content-Type" \in Keys(headers)
    /\ \/ ValueOf("Content-Type", headers) = UnknownType
       \/ ContentLength(headers) = NoNumber

to_encoding_type(str) ==
    CASE str = <<"gzip">>    -> "GZIP"
      [] str = <<"br">>      -> "BR"
      [] str = <<"deflate">> -> "DEFLATE"
      [] OTHER               -> "NO_ENCODING"

(* mAcceptEncodings, of the value of Accept-Encoding.                      *)
AcceptEncodings(value) ==
    LET split_result == split(strip(value), ",") IN
    [i \in DOMAIN split_result |-> to_encoding_type(strip(split_result[i]))]

BadRequest == [error |-> "BadRequest"]
PartialPacket == [error |-> "PartialPacket"]

(* Mutant: the size is not checked.                                        *)
BodyUnchecked(type, headers, body) == TRUE

(* The size check; what follows the headers of a GET is its body.          *)
BodyComplete(type, headers, body) ==
    type # "GET" => Len(body) = ContentLength(headers)

(* The BLANK_LINE is looked for after the CRLF of the request line, so     *)
(* that a request without headers has none.                                *)
parseHttpRequest(packet) ==
    LET crlfs == {i \in DOMAIN packet : packet[i] = CRLF}
        line == FindFrom(packet, 1, crlfs)
        type == parseStartLine(SubSeq(packet, 1, line - 1))
        blank == FindFrom(packet, line + 1, {i \in crlfs : i + 1 \in crlfs})
        headers == SubSeq(packet, line + 1, blank)
        body == SubSeq(packet, blank + 2, Len(packet))
    IN  IF \/ line = npos(packet) \/ type = "UNKNOWN"
           \/ blank = npos(packet) \/ BadHeaders(type, headers)
        THEN BadRequest
        ELSE IF ~BodyComplete(type, headers, body)
        THEN PartialPacket
        ELSE [error |-> "none",
              number |-> ValueOf(type, packet),
              encodings |-> "Accept-Encoding" \in Keys(headers),
              mRequestSize |-> Len(packet)]
=============================================================================

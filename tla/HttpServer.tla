----------------------------- MODULE HttpServer -----------------------------
(***************************************************************************)
(* An http::HttpServer and one connection: the client's requests arrive in *)
(* fragments of any size, onMessage parses all that was received and not   *)
(* taken yet, calls the request handler and sends its response.            *)
(***************************************************************************)
EXTENDS HttpRequest, HttpResponse

CONSTANT Inputs   \* records: the requests a client sends one after another, and
                  \* the value of their Accept-Encoding headers

Methods == {"GET", "POST", "PUT"}

(* The key of a token says what it is, so that no header has that of a     *)
(* request line, a CRLF or a byte.                                         *)
OtherKeys == Methods \cup {"CRLF", "byte"}
HeaderKeys == STRING \ OtherKeys
ASSUME HttpAssumption == \A i \in Inputs :
    /\ i.requests \in Seq([method : Methods, headers : Seq([key : HeaderKeys, value : Int]), body : Nat])
    /\ i.accept \in Seq(STRING)

VARIABLES
    input,          \* the client's
    mRequestHandle, \* user code has set a handler
    incoming,       \* tokens not received yet
    mRecvBuffer,    \* received, not taken
    mState,         \* of the connection
    handled,        \* history: the numbers of the requests handled
    encoding,       \* history: the Content-Encoding of the last response
    pipelined,      \* history: a fragment had the start of a request after something else
    failure         \* a ResponseError left startLoop

vars == <<input, mRequestHandle, incoming, mRecvBuffer, mState, handled, encoding, pipelined, failure>>

IsStart(token) == token.key \in Methods

(* A request as it is sent.                                                *)
Tokens(request, number) ==
    <<[key |-> request.method, value |-> number], CRLF>>
    \o FlattenSeq([i \in DOMAIN request.headers |-> <<request.headers[i], CRLF>>])
    \o <<CRLF>> \o [i \in 1 .. request.body |-> Byte]

Token == [key : HeaderKeys \cup OtherKeys, value : Int]

TypeOK ==
    /\ input \in Inputs
    /\ mRequestHandle \in BOOLEAN
    /\ incoming \in Seq(Token) /\ mRecvBuffer \in Seq(Token)
    /\ mState \in {"Connected", "HalfClosed"}
    /\ handled \in Seq(DOMAIN input.requests)
    /\ encoding \in {"none", "NO_ENCODING", "GZIP", "DEFLATE"}
    /\ pipelined \in BOOLEAN
    /\ failure \in BOOLEAN

Init ==
    /\ input \in Inputs
    /\ mRequestHandle \in BOOLEAN
    /\ incoming = FlattenSeq([i \in DOMAIN input.requests |-> Tokens(input.requests[i], i)])
    /\ mRecvBuffer = <<>>
    /\ mState = "Connected"
    /\ handled = <<>>
    /\ encoding = "none"
    /\ pipelined = FALSE
    /\ failure = FALSE
-----------------------------------------------------------------------------
(* Mutant: what was handled is not taken from the buffer.                  *)
ExtractStringNothing(packet, request) == packet

(* What extractString(mRequestSize) leaves.                                *)
ExtractString(packet, request) == SubSeq(packet, request.mRequestSize + 1, Len(packet))

(* The handler's response, or a BAD_REQUEST without a version if there is  *)
(* no handler; a valid one is sent unless the connection is half closed.   *)
Respond(request) ==
    /\ handled' = Append(handled, request.number)
    /\ \E response \in IF mRequestHandle
                        THEN Responses
                        ELSE {[mVersion |-> "UNKNOWN", mStatus |-> 400, mIsKeepAlive |-> FALSE,
                               file |-> "no file"]} :
          IF ~validateResponse(response)
          THEN failure' = TRUE /\ UNCHANGED <<mState, encoding>>
          ELSE /\ encoding' = ContentEncoding(response.file,
                                 IF request.encodings THEN AcceptEncodings(input.accept) ELSE <<>>)
               /\ mState' = IF response.mIsKeepAlive THEN mState ELSE "HalfClosed"
               /\ UNCHANGED failure

(* A packet that is refused or not complete stays in the buffer; the first *)
(* is answered with a 400.                                                 *)
onMessage(packet) ==
    LET request == parseHttpRequest(packet) IN
    IF request.error = "none"
    THEN Respond(request) /\ mRecvBuffer' = ExtractString(packet, request)
    ELSE mRecvBuffer' = packet /\ UNCHANGED <<mState, handled, encoding, failure>>

(* A fragment of whole tokens arrives and is read.                         *)
Receive ==
    /\ ~failure
    /\ \E n \in DOMAIN incoming :
          /\ incoming' = SubSeq(incoming, n + 1, Len(incoming))
          /\ pipelined' = (pipelined \/ \E i \in 2 .. n : IsStart(incoming[i]))
          /\ onMessage(mRecvBuffer \o SubSeq(incoming, 1, n))
    /\ UNCHANGED <<input, mRequestHandle>>

(* A fragment that ends within a line or a CRLF, and is not refused: the   *)
(* part is taken with what is before it, the rest is no line the parser    *)
(* knows.  (One that is refused is parsed again with the next: Receive.)   *)
ReceiveTorn ==
    /\ ~failure
    /\ \E n \in DOMAIN incoming :
          LET packet == Append(mRecvBuffer \o SubSeq(incoming, 1, n - 1), Byte) IN
          /\ incoming[n] # Byte
          /\ parseHttpRequest(packet).error = "none"
          /\ incoming' = <<Byte>> \o SubSeq(incoming, n + 1, Len(incoming))
          /\ pipelined' = (pipelined \/ \E i \in 2 .. n : IsStart(incoming[i]))
          /\ onMessage(packet)
    /\ UNCHANGED <<input, mRequestHandle>>

Next == Receive \/ ReceiveTorn

Spec == Init /\ [][Next]_vars
-----------------------------------------------------------------------------
(***************************************************************************)
(* Properties.                                                             *)
(***************************************************************************)
WellFormed(request) ==
    /\ request.headers # <<>>
    /\ \/ request.method = "GET" /\ request.body = 0
       \/ /\ request.method = "POST"
          /\ {"Content-Type", "Content-Length"} \subseteq Keys(request.headers)
          /\ ValueOf("Content-Type", request.headers) = KnownType
          /\ ValueOf("Content-Length", request.headers) = request.body

(* Well-formed requests with some header, one at a time, are all handled,  *)
(* once and in order, and nothing is left of them, however they are        *)
(* fragmented: a request refused half-way stays in the buffer and is       *)
(* handled later (HttpRequest.cpp:188-240, HttpServer.cpp:43-52,67-75).    *)
(* Not so if a fragment has parts of two requests: a GET takes all there   *)
(* is as its body, a POST waits for a length that does not come.           *)
WellFormedHandled ==
    /\ incoming = <<>> /\ ~pipelined /\ ~failure
    /\ \A i \in DOMAIN input.requests : WellFormed(input.requests[i])
    => handled = [i \in DOMAIN input.requests |-> i] /\ mRecvBuffer = <<>>

(* The name is an item of a comma-separated list, but for blanks.          *)
Listed(name, list) ==
    LET chars == {i \in DOMAIN list : list[i] # " "} IN
    \E i \in chars :
        /\ list[i] = name
        /\ \A j \in chars : j < i /\ (\A k \in chars : k <= j \/ k >= i) => list[j] = ","
        /\ \A j \in chars : j > i /\ (\A k \in chars : k <= i \/ k >= j) => list[j] = ","

(* A response is not encoded with what the client does not accept, but for *)
(* a client that lists br: where br comes first it gets deflate            *)
(* (HttpResponse.cpp:74-86,190-199, HttpRequest.cpp:129-134).              *)
EncodingAccepted ==
    /\ encoding = "GZIP" => Listed("gzip", input.accept)
    /\ encoding = "DEFLATE" => Listed("deflate", input.accept) \/ Listed("br", input.accept)
=============================================================================

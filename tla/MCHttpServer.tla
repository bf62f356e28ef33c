---------------------------- MODULE MCHttpServer ----------------------------
(***************************************************************************)
(* Up to two requests of each kind, in fragments of any sizes, and every   *)
(* Accept-Encoding of up to five of its symbols.                           *)
(***************************************************************************)
EXTENDS HttpServer

Header(key, value) == [key |-> key, value |-> value]
Request(method, headers, body) == [method |-> method, headers |-> headers, body |-> body]
Type(t) == Header("Content-Type", t)
Length(n) == Header("Content-Length", n)
Get == Request("GET", <<Header("Accept-Encoding", 0)>>, 0)

MCRequests ==
    {Get,
     Request("GET", <<>>, 0),
     Request("POST", <<Type(KnownType), Length(2)>>, 2),
     Request("POST", <<Length(0), Type(KnownType)>>, 0),
     Request("POST", <<Length(1)>>, 1),
     Request("POST", <<Type(UnknownType), Length(1)>>, 1),
     Request("POST", <<Type(KnownType), Length(NoNumber)>>, 1),
     Request("PUT", <<Type(KnownType)>>, 0)}

MCInputs ==
    [requests : BoundedSeq(MCRequests, 2), accept : {<<"gzip">>}]
    \cup [requests : {<<Get>>}, accept : BoundedSeq({"gzip", "deflate", "br", ",", " "}, 5)]
=============================================================================

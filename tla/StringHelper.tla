---------------------------- MODULE StringHelper ----------------------------
(***************************************************************************)
(* utils::split and utils::strip: a string is a sequence, its positions    *)
(* count from 1 and npos is the one after the last.                        *)
(***************************************************************************)
EXTENDS Integers, Sequences, FiniteSets

npos(str) == Len(str) + 1

(* The first position from start on that is in where, or npos.             *)
FindFrom(str, start, where) ==
    CHOOSE pos \in start .. npos(str) :
        /\ pos \in where \cup {npos(str)}
        /\ where \cap (start .. pos - 1) = {}

(* A piece counts if a delimiter follows it: what comes after the last     *)
(* delimiter is dropped, unless there is none.                             *)
split(str, token) ==
    LET tokens == {i \in DOMAIN str : str[i] = token}
        others == DOMAIN str \ tokens
        piecesFrom[start \in 1 .. npos(str)] ==
            LET end == FindFrom(str, start, tokens) IN
            IF end = npos(str)
            THEN <<>>
            ELSE <<SubSeq(str, start, end - 1)>> \o piecesFrom[FindFrom(str, end, others)]
        first == FindFrom(str, 1, others)
    IN  IF FindFrom(str, first, tokens) = npos(str) THEN <<str>> ELSE piecesFrom[first]

(* Blanks are taken off both ends at once; a view has its two ends.  *)
strip(str) ==
    LET trimmed[view \in (0 .. Len(str)) \X (0 .. Len(str))] ==
            LET start == view[1]
                end == view[2]
            IN  IF start >= end \/ (str[start + 1] # " " /\ str[end] # " ")
                THEN SubSeq(str, start + 1, end)
                ELSE trimmed[<<IF str[start + 1] = " " THEN start + 1 ELSE start,
                               IF str[end] = " " THEN end - 1 ELSE end>>]
    IN  trimmed[<<0, Len(str)>>]
=============================================================================

-------------------------- MODULE HttpServerProof --------------------------
(***************************************************************************)
(* What onMessage does with any list of encodings and any requests.  The   *)
(* functions of StringHelper are recursive: that they are defined, and     *)
(* what they return, is proved by induction over sets of numbers.          *)
(***************************************************************************)
EXTENDS HttpServer, SequenceTheorems, WellFoundedInduction, TLAPS

-----------------------------------------------------------------------------
(* Numbers.                                                                *)

(* Among natural numbers there is a least.                                 *)
LEMMA LeastExists ==
    ASSUME NEW S, S \subseteq Nat, S # {}
    PROVE  \E x \in S : \A y \in S : x <= y
<1> DEFINE R == OpToRel(<, Nat)
<1>1. IsWellFoundedOn(R, Nat)
  BY NatLessThanWellFounded
<1>2. \A x \in Nat, y \in Nat : y < x => <<y, x>> \in R
  BY DEF OpToRel
<1> HIDE DEF R
<1>3. PICK x \in S : \A y \in S : ~(<<y, x>> \in R)
  BY <1>1, WFMin
<1>4. ASSUME NEW y \in S PROVE x <= y
  <2>1. x \in Nat /\ y \in Nat
    OBVIOUS
  <2>2. ~(y < x)
    BY <1>2, <1>3, <2>1, Zenon
  <2>3. QED BY <2>1, <2>2
<1>5. QED BY <1>4

(* Among bounded natural numbers there is a greatest.                      *)
LEMMA GreatestExists ==
    ASSUME NEW n \in Nat, NEW S, S \subseteq 0 .. n, S # {}
    PROVE  \E x \in S : \A y \in S : y <= x
<1> DEFINE T == {k \in 0 .. n : n - k \in S}
<1>1. T \subseteq Nat
  OBVIOUS
<1>2. T # {}
  <2>1. PICK x : x \in S
    OBVIOUS
  <2>2. n - x \in 0 .. n /\ n - (n - x) = x
    BY <2>1
  <2>3. n - x \in T
    BY <2>1, <2>2
  <2>4. QED BY <2>3
<1>3. PICK k \in T : \A l \in T : k <= l
  BY <1>1, <1>2, LeastExists
<1>4. n - k \in S
  OBVIOUS
<1>5. ASSUME NEW y \in S PROVE y <= n - k
  <2>1. y \in 0 .. n
    OBVIOUS
  <2>2. n - y \in 0 .. n /\ n - (n - y) = y
    BY <2>1
  <2>3. n - y \in T
    BY <2>2
  <2>4. k <= n - y
    BY <1>3, <2>3
  <2>5. k \in 0 .. n
    OBVIOUS
  <2>6. QED BY <2>1, <2>4, <2>5
<1>6. QED BY <1>4, <1>5

(* Induction, for a predicate written as a set.                            *)
LEMMA NatSetInduction ==
    ASSUME NEW S, 0 \in S, \A n \in Nat : n \in S => n + 1 \in S
    PROVE  Nat \subseteq S
<1> DEFINE T == Nat \ S
<1>1. SUFFICES ASSUME T # {} PROVE FALSE
  OBVIOUS
<1>2. PICK x \in T : \A y \in T : x <= y
  BY <1>1, LeastExists
<1>3. x # 0 /\ x - 1 \in Nat /\ x \in Nat
  OBVIOUS
<1>4. x - 1 \in S
  BY <1>2, <1>3
<1>5. x - 1 + 1 \in S
  BY <1>3, <1>4
<1>6. QED BY <1>3, <1>5

-----------------------------------------------------------------------------
(* Strings.                                                                *)

Strings == Seq(STRING)

(* find and find_first_not_of return the first place, or npos.             *)
LEMMA FindFromIsFirst ==
    ASSUME NEW str, Len(str) \in Nat, NEW start \in 1 .. npos(str), NEW where
    PROVE  /\ FindFrom(str, start, where) \in start .. npos(str)
           /\ FindFrom(str, start, where) \in where \cup {npos(str)}
           /\ where \cap (start .. FindFrom(str, start, where) - 1) = {}
<1> DEFINE S == (start .. npos(str)) \cap (where \cup {npos(str)})
<1>1. npos(str) \in Nat
  BY DEF npos
<1>2. S \subseteq Nat /\ npos(str) \in S
  BY <1>1
<1>3. PICK x \in S : \A y \in S : x <= y
  BY <1>2, LeastExists
<1>4. x \in start .. npos(str) /\ x \in where \cup {npos(str)}
  OBVIOUS
<1>5. where \cap (start .. x - 1) = {}
  BY <1>1, <1>3
<1>6. QED BY <1>4, <1>5 DEF FindFrom

(* Names, for what the provers cannot read.                                *)
Blank == " "
Comma == ","

(* The blank and the comma are none of the names of encodings.             *)
LEMMA Symbols == /\ Blank # Comma
                 /\ Blank # "gzip" /\ Blank # "br" /\ Blank # "deflate"
                 /\ Comma # "gzip" /\ Comma # "br" /\ Comma # "deflate"
  BY Zenon DEF Blank, Comma

(* A string without the blanks at its ends, from s + 1 to e.               *)
Solid(str, s, e) == {i \in s + 1 .. e : str[i] # Blank}
Core(str, s, e) ==
    IF Solid(str, s, e) = {} THEN <<>>
    ELSE SubSeq(str, Min(Solid(str, s, e)), Max(Solid(str, s, e)))

(* The first and the last symbol that is no blank.                         *)
LEMMA EndsOfSolid ==
    ASSUME NEW str \in Strings, NEW s \in 0 .. Len(str), NEW e \in 0 .. Len(str),
           Solid(str, s, e) # {}
    PROVE  /\ Min(Solid(str, s, e)) \in Solid(str, s, e)
           /\ Max(Solid(str, s, e)) \in Solid(str, s, e)
           /\ \A i \in Solid(str, s, e) :
                 Min(Solid(str, s, e)) <= i /\ i <= Max(Solid(str, s, e))
<1> DEFINE N == Solid(str, s, e)
<1>1. s \in Nat /\ e \in Nat
  BY LenProperties DEF Strings
<1>2. N \subseteq Nat /\ N \subseteq 0 .. e /\ N # {}
  BY <1>1 DEF Solid
<1> HIDE DEF N
<1>3. \E x \in N : \A y \in N : x <= y
  BY <1>2, LeastExists
<1>4. \E x \in N : \A y \in N : y <= x
  BY <1>1, <1>2, GreatestExists
<1>5. Min(N) \in N /\ \A y \in N : Min(N) <= y
  BY <1>3 DEF Min
<1>6. \E x \in N : \A y \in N : x >= y
  BY <1>2, <1>4
<1>7. Max(N) \in N /\ \A y \in N : Max(N) >= y
  BY <1>6 DEF Max
<1>8. QED BY <1>2, <1>5, <1>7 DEF N

(* One round of the loop of strip.                                         *)
After(str, s, e) ==
    <<IF str[s + 1] = Blank THEN s + 1 ELSE s, IF str[e] = Blank THEN e - 1 ELSE e>>

(* One step of strip: either both ends are no blanks, or one end is        *)
(* dropped and what is between the solid symbols stays.                    *)
LEMMA CoreStep ==
    ASSUME NEW str \in Strings, NEW s \in 0 .. Len(str), NEW e \in 0 .. Len(str)
    PROVE  /\ s >= e \/ (str[s + 1] # Blank /\ str[e] # Blank)
                 => Core(str, s, e) = SubSeq(str, s + 1, e)
           /\ ~(s >= e \/ (str[s + 1] # Blank /\ str[e] # Blank))
                 => /\ After(str, s, e)[1] \in 0 .. Len(str)
                    /\ After(str, s, e)[2] \in 0 .. Len(str)
                    /\ After(str, s, e)[2] - After(str, s, e)[1] < e - s
                    /\ Core(str, s, e) = Core(str, After(str, s, e)[1], After(str, s, e)[2])
<1>1. s \in Nat /\ e \in Nat /\ Len(str) \in Nat
  BY LenProperties DEF Strings
<1>2. CASE s >= e
  <2>1. Solid(str, s, e) = {}
    BY <1>1, <1>2 DEF Solid
  <2>2. SubSeq(str, s + 1, e) = <<>>
    BY <1>1, <1>2, SubSeqEmpty
  <2>3. QED BY <1>2, <2>1, <2>2 DEF Core
<1>3. CASE s < e /\ str[s + 1] # Blank /\ str[e] # Blank
  <2>1. s + 1 \in Solid(str, s, e) /\ e \in Solid(str, s, e)
    BY <1>1, <1>3 DEF Solid
  <2>2. /\ Min(Solid(str, s, e)) \in s + 1 .. e
        /\ Max(Solid(str, s, e)) \in s + 1 .. e
        /\ Min(Solid(str, s, e)) <= s + 1
        /\ e <= Max(Solid(str, s, e))
    BY <2>1, EndsOfSolid DEF Solid
  <2>3. Min(Solid(str, s, e)) = s + 1 /\ Max(Solid(str, s, e)) = e
    BY <1>1, <2>2
  <2>4. QED BY <1>1, <1>3, <2>1, <2>3 DEF Core
<1>4. CASE s < e /\ ~(str[s + 1] # Blank /\ str[e] # Blank)
  <2> DEFINE s1 == IF str[s + 1] = Blank THEN s + 1 ELSE s
             e1 == IF str[e] = Blank THEN e - 1 ELSE e
  <2>1. After(str, s, e)[1] = s1 /\ After(str, s, e)[2] = e1
    BY DEF After
  <2>2. s1 \in 0 .. Len(str) /\ e1 \in 0 .. Len(str) /\ e1 - s1 < e - s
    BY <1>1, <1>4
  <2>3. Solid(str, s, e) = Solid(str, s1, e1)
    BY <1>1, <1>4 DEF Solid
  <2> HIDE DEF s1, e1
  <2>4. Core(str, s, e) = Core(str, s1, e1)
    BY <2>3 DEF Core
  <2>5. QED BY <1>1, <1>4, <2>1, <2>2, <2>4
<1>5. QED BY <1>1, <1>2, <1>3, <1>4

(* The recursive function of strip.                                        *)
Views(str) == (0 .. Len(str)) \X (0 .. Len(str))
TrimmedFcn(str) ==
    CHOOSE trimmed : trimmed =
        [view \in Views(str) |->
            IF view[1] >= view[2] \/ (str[view[1] + 1] # Blank /\ str[view[2]] # Blank)
            THEN SubSeq(str, view[1] + 1, view[2])
            ELSE trimmed[After(str, view[1], view[2])]]

LEMMA StripIsTrimmed == \A str : strip(str) = TrimmedFcn(str)[<<0, Len(str)>>]
  BY Zenon DEF strip, TrimmedFcn, Views, After, Blank

(* The recursive function of strip is defined: its views get shorter.      *)
LEMMA TrimmedExists ==
    ASSUME NEW str \in Strings
    PROVE  TrimmedFcn(str) =
        [view \in Views(str) |->
            IF view[1] >= view[2] \/ (str[view[1] + 1] # Blank /\ str[view[2]] # Blank)
            THEN SubSeq(str, view[1] + 1, view[2])
            ELSE TrimmedFcn(str)[After(str, view[1], view[2])]]
<1> DEFINE Round(g, view) ==
               IF view[1] >= view[2] \/ (str[view[1] + 1] # Blank /\ str[view[2]] # Blank)
               THEN SubSeq(str, view[1] + 1, view[2])
               ELSE g[After(str, view[1], view[2])]
           f == [view \in Views(str) |-> Core(str, view[1], view[2])]
<1>1. ASSUME NEW view \in Views(str) PROVE f[view] = Round(f, view)
  <2>1. view[1] \in 0 .. Len(str) /\ view[2] \in 0 .. Len(str)
    BY DEF Views
  <2>2. CASE view[1] >= view[2] \/ (str[view[1] + 1] # Blank /\ str[view[2]] # Blank)
    BY <2>1, <2>2, CoreStep
  <2>3. CASE ~(view[1] >= view[2] \/ (str[view[1] + 1] # Blank /\ str[view[2]] # Blank))
    <3> DEFINE next == After(str, view[1], view[2])
    <3>1. next[1] \in 0 .. Len(str) /\ next[2] \in 0 .. Len(str)
          /\ Core(str, view[1], view[2]) = Core(str, next[1], next[2])
      BY <2>1, <2>3, CoreStep
    <3>2. next \in Views(str)
      BY <3>1 DEF Views, After
    <3>3. f[next] = Core(str, next[1], next[2])
      BY <3>2
    <3>4. QED BY <2>3, <3>1, <3>3
  <2>4. QED BY <2>2, <2>3
<1>2. f = [view \in Views(str) |-> Round(f, view)]
  BY <1>1
<1> HIDE DEF f
<1>3. \E g : g = [view \in Views(str) |-> Round(g, view)]
  BY <1>2
<1>4. QED BY <1>3 DEF TrimmedFcn

(* strip takes the blanks off both ends.                                   *)
LEMMA StripIsCore ==
    ASSUME NEW str \in Strings
    PROVE  strip(str) = Core(str, 0, Len(str))
<1> DEFINE f == TrimmedFcn(str)
           S == {k \in Nat : \A s, e \in 0 .. Len(str) :
                                e - s <= k => f[<<s, e>>] = Core(str, s, e)}
<1>1. Len(str) \in Nat
  BY LenProperties DEF Strings
<1>2. ASSUME NEW s \in 0 .. Len(str), NEW e \in 0 .. Len(str)
      PROVE  f[<<s, e>>] = IF s >= e \/ (str[s + 1] # Blank /\ str[e] # Blank)
                           THEN SubSeq(str, s + 1, e)
                           ELSE f[After(str, s, e)]
  <2>1. <<s, e>> \in Views(str)
    BY DEF Views
  <2>2. QED BY <2>1, TrimmedExists
<1> HIDE DEF f
<1>3. 0 \in S
  <2>1. ASSUME NEW s \in 0 .. Len(str), NEW e \in 0 .. Len(str), e - s <= 0
        PROVE  f[<<s, e>>] = Core(str, s, e)
    <3>1. s >= e
      BY <1>1, <2>1
    <3>2. QED BY <1>2, <3>1, CoreStep
  <2>2. QED BY <2>1
<1>4. ASSUME NEW k \in Nat, k \in S PROVE k + 1 \in S
  <2>1. ASSUME NEW s \in 0 .. Len(str), NEW e \in 0 .. Len(str), e - s <= k + 1
        PROVE  f[<<s, e>>] = Core(str, s, e)
    <3>1. CASE s >= e \/ (str[s + 1] # Blank /\ str[e] # Blank)
      BY <1>2, <3>1, CoreStep
    <3>2. CASE ~(s >= e \/ (str[s + 1] # Blank /\ str[e] # Blank))
      <4> DEFINE next == After(str, s, e)
      <4>1. f[<<s, e>>] = f[next]
        BY <1>2, <3>2
      <4>2. /\ next[1] \in 0 .. Len(str) /\ next[2] \in 0 .. Len(str)
            /\ next[2] - next[1] < e - s
            /\ Core(str, s, e) = Core(str, next[1], next[2])
        BY <3>2, CoreStep
      <4>3. next = <<next[1], next[2]>>
        BY DEF After
      <4> HIDE DEF next
      <4>4. next[2] - next[1] <= k
        BY <1>1, <2>1, <4>2
      <4>5. f[<<next[1], next[2]>>] = Core(str, next[1], next[2])
        BY <1>4, <4>2, <4>4
      <4>6. QED BY <4>1, <4>2, <4>3, <4>5
    <3>3. QED BY <3>1, <3>2
  <2>2. QED BY <2>1
<1>5. Nat \subseteq S
  <2> HIDE DEF S
  <2>1. QED BY <1>3, <1>4, NatSetInduction
<1>6. Len(str) \in S /\ 0 \in 0 .. Len(str) /\ Len(str) \in 0 .. Len(str)
  BY <1>1, <1>5
<1>7. f[<<0, Len(str)>>] = Core(str, 0, Len(str))
  BY <1>1, <1>6
<1>8. QED BY <1>7, StripIsTrimmed DEF f

(* What strip leaves, and that the rest is blank.                          *)
LEMMA StripIsPart ==
    ASSUME NEW str \in Strings
    PROVE  \E lo \in 1 .. Len(str) + 1, hi \in 0 .. Len(str) :
              /\ strip(str) = SubSeq(str, lo, hi)
              /\ \A i \in 1 .. Len(str) : i < lo \/ hi < i => str[i] = Blank
<1> DEFINE N == Solid(str, 0, Len(str))
<1>1. Len(str) \in Nat
  BY LenProperties DEF Strings
<1>2. CASE N = {}
  <2>1. strip(str) = SubSeq(str, 1, 0)
    <3>1. SubSeq(str, 1, 0) = <<>>
      BY SubSeqEmpty
    <3>2. strip(str) = <<>>
      BY <1>2, StripIsCore DEF Core
    <3>3. QED BY <3>1, <3>2
  <2>2. \A i \in 1 .. Len(str) : str[i] = Blank
    BY <1>1, <1>2 DEF Solid
  <2>3. 1 \in 1 .. Len(str) + 1 /\ 0 \in 0 .. Len(str)
    BY <1>1
  <2>4. QED BY <2>1, <2>2, <2>3
<1>3. CASE N # {}
  <2>1. 0 \in 0 .. Len(str) /\ Len(str) \in 0 .. Len(str)
    BY <1>1
  <2>2. /\ Min(N) \in N /\ Max(N) \in N
        /\ \A i \in N : Min(N) <= i /\ i <= Max(N)
    BY <1>3, <2>1, EndsOfSolid
  <2>3. N \subseteq 1 .. Len(str)
    BY <1>1 DEF Solid
  <2>4. strip(str) = SubSeq(str, Min(N), Max(N))
    BY <1>3, StripIsCore DEF Core
  <2>5. ASSUME NEW i \in 1 .. Len(str), i < Min(N) \/ Max(N) < i PROVE str[i] = Blank
    <3>1. i \notin N
      BY <1>1, <2>2, <2>3, <2>5
    <3>2. QED BY <1>1, <3>1 DEF Solid
  <2>6. Min(N) \in 1 .. Len(str) + 1 /\ Max(N) \in 0 .. Len(str)
    BY <1>1, <2>2, <2>3
  <2>7. QED BY <2>4, <2>5, <2>6
<1>4. QED BY <1>2, <1>3

(* What a part of a string is.                                             *)
LEMMA PartOfString ==
    ASSUME NEW str \in Strings, NEW lo \in 1 .. Len(str) + 1, NEW hi \in 0 .. Len(str)
    PROVE  /\ SubSeq(str, lo, hi) \in Strings
           /\ Len(SubSeq(str, lo, hi)) = IF lo <= hi THEN hi - lo + 1 ELSE 0
           /\ \A i \in 1 .. hi - lo + 1 : SubSeq(str, lo, hi)[i] = str[lo + i - 1]
<1>1. Len(str) \in Nat /\ lo \in Int /\ hi \in Int
  BY LenProperties DEF Strings
<1>2. \A i \in lo .. hi : str[i] \in STRING
  BY <1>1, ElementOfSeq DEF Strings
<1>3. QED BY <1>1, <1>2, SubSeqProperties DEF Strings

LEMMA StripIsString == ASSUME NEW str \in Strings PROVE strip(str) \in Strings
  BY StripIsPart, PartOfString

(* A symbol that is left alone is the only one that is not blank.          *)
LEMMA StripIsSingle ==
    ASSUME NEW str \in Strings, NEW x, strip(str) = <<x>>
    PROVE  \E p \in 1 .. Len(str) :
              /\ str[p] = x
              /\ \A i \in 1 .. Len(str) : i # p => str[i] = Blank
<1>1. Len(str) \in Nat
  BY LenProperties DEF Strings
<1>2. PICK lo \in 1 .. Len(str) + 1, hi \in 0 .. Len(str) :
              /\ strip(str) = SubSeq(str, lo, hi)
              /\ \A i \in 1 .. Len(str) : i < lo \/ hi < i => str[i] = Blank
  BY StripIsPart
<1>3. Len(strip(str)) = 1 /\ strip(str)[1] = x
  OBVIOUS
<1>4. /\ Len(strip(str)) = IF lo <= hi THEN hi - lo + 1 ELSE 0
      /\ \A i \in 1 .. hi - lo + 1 : strip(str)[i] = str[lo + i - 1]
  <2>1. /\ Len(SubSeq(str, lo, hi)) = IF lo <= hi THEN hi - lo + 1 ELSE 0
        /\ \A i \in 1 .. hi - lo + 1 : SubSeq(str, lo, hi)[i] = str[lo + i - 1]
    BY PartOfString, Zenon
  <2>2. strip(str) = SubSeq(str, lo, hi)
    BY <1>2
  <2>3. QED BY <2>1, <2>2, Zenon
<1>5. lo = hi
  BY <1>1, <1>3, <1>4
<1>6. lo \in 1 .. Len(str) /\ str[lo] = x
  <2>1. 1 \in 1 .. hi - lo + 1 /\ lo + 1 - 1 = lo
    BY <1>1, <1>5
  <2>2. strip(str)[1] = str[lo]
    BY <1>4, <2>1
  <2>3. QED BY <1>1, <1>3, <1>5, <2>2
<1>7. \A i \in 1 .. Len(str) : i # lo => str[i] = Blank
  BY <1>1, <1>2, <1>5
<1>8. QED BY <1>6, <1>7

-----------------------------------------------------------------------------
(* Lists.                                                                  *)

Delims(str) == {i \in DOMAIN str : str[i] = Comma}
Others(str) == DOMAIN str \ Delims(str)

(* Where the piece that starts there ends, and where the next one starts.  *)
End(str, start) == FindFrom(str, start, Delims(str))
Following(str, start) == FindFrom(str, End(str, start), Others(str))

(* The places that a step of split goes to are behind the one it starts    *)
(* at.                                                                     *)
LEMMA PiecesAdvance ==
    ASSUME NEW str \in Strings, NEW start \in 1 .. npos(str)
    PROVE  /\ npos(str) \in Nat \ {0}
           /\ End(str, start) \in start .. npos(str)
           /\ End(str, start) # npos(str) =>
                 /\ End(str, start) \in Delims(str)
                 /\ Following(str, start) \in start + 1 .. npos(str)
<1>1. Len(str) \in Nat /\ DOMAIN str = 1 .. Len(str)
  BY LenProperties DEF Strings
<1>2. /\ End(str, start) \in start .. npos(str)
      /\ End(str, start) \in Delims(str) \cup {npos(str)}
  BY <1>1, FindFromIsFirst DEF End
<1>3. ASSUME End(str, start) # npos(str) PROVE Following(str, start) \in start + 1 .. npos(str)
  <2>1. End(str, start) \in 1 .. npos(str)
    BY <1>1, <1>2 DEF npos
  <2>2. /\ Following(str, start) \in End(str, start) .. npos(str)
        /\ Following(str, start) \in Others(str) \cup {npos(str)}
    BY <1>1, <2>1, FindFromIsFirst DEF Following
  <2>3. End(str, start) \notin Others(str)
    BY <1>2, <1>3 DEF Others
  <2>4. Following(str, start) # End(str, start)
    BY <1>3, <2>2, <2>3
  <2>5. QED BY <1>1, <1>2, <2>2, <2>4 DEF npos
<1>4. QED BY <1>1, <1>2, <1>3 DEF npos

(* The recursive function of split, one step of it, and what it is for the *)
(* last k + 1 places.                                                      *)
PiecesFcn(str) ==
    CHOOSE piecesFrom : piecesFrom =
        [start \in 1 .. npos(str) |->
            IF End(str, start) = npos(str)
            THEN <<>>
            ELSE <<SubSeq(str, start, End(str, start) - 1)>> \o piecesFrom[Following(str, start)]]

Step(str, g, start) ==
    IF End(str, start) = npos(str)
    THEN <<>>
    ELSE <<SubSeq(str, start, End(str, start) - 1)>> \o g[Following(str, start)]

Solves(str, g, k) == g = [start \in npos(str) - k .. npos(str) |-> Step(str, g, start)]

LEMMA SplitIsPieces ==
    \A str : split(str, Comma) =
        IF FindFrom(str, FindFrom(str, 1, Others(str)), Delims(str)) = npos(str)
        THEN <<str>> ELSE PiecesFcn(str)[FindFrom(str, 1, Others(str))]
  BY Zenon DEF split, PiecesFcn, End, Following, Others, Delims, Comma

(* The recursive function of split is defined: it goes forward.            *)
LEMMA PiecesExist ==
    ASSUME NEW str \in Strings
    PROVE  PiecesFcn(str) = [start \in 1 .. npos(str) |-> Step(str, PiecesFcn(str), start)]
<1> DEFINE m == npos(str)
           S == {k \in Nat : k < m => \E g : Solves(str, g, k)}
<1>1. m \in Nat \ {0}
  BY LenProperties DEF npos, Strings
<1>2. 0 \in S
  <2> DEFINE g == [start \in m - 0 .. m |-> <<>>]
  <2>1. \A start \in m - 0 .. m : Step(str, g, start) = <<>>
    <3>1. ASSUME NEW start \in m - 0 .. m PROVE End(str, start) = m
      <4>1. start \in 1 .. m /\ start = m
        BY <1>1
      <4>2. QED BY <1>1, <4>1, PiecesAdvance
    <3> HIDE DEF g
    <3>2. QED BY <3>1 DEF Step
  <2>2. Solves(str, g, 0)
    <3> DEFINE h == [start \in m - 0 .. m |-> Step(str, g, start)]
    <3>1. h = g
      BY <2>1
    <3>2. QED BY <3>1, Zenon DEF Solves
  <2>3. QED BY <2>2
<1>3. ASSUME NEW k \in Nat, k \in S PROVE k + 1 \in S
  <2>1. SUFFICES ASSUME k + 1 < m PROVE \E h : Solves(str, h, k + 1)
    OBVIOUS
  <2>2. PICK g : Solves(str, g, k)
    BY <1>1, <1>3, <2>1
  <2> DEFINE h == [start \in m - (k + 1) .. m |-> Step(str, g, start)]
  <2>3. ASSUME NEW start \in m - (k + 1) .. m PROVE Step(str, g, start) = Step(str, h, start)
    <3>1. start \in 1 .. m
      BY <1>1, <2>1
    <3>2. CASE End(str, start) = m
      BY <3>2 DEF Step
    <3>3. CASE End(str, start) # m
      <4> DEFINE next == Following(str, start)
      <4>1. next \in start + 1 .. m
        BY <3>1, <3>3, PiecesAdvance
      <4>2. next \in m - k .. m /\ next \in m - (k + 1) .. m
        BY <1>1, <3>1, <4>1
      <4> HIDE DEF next
      <4>3. h[next] = Step(str, g, next)
        BY <4>2
      <4>4. g[next] = Step(str, g, next)
        <5> DEFINE f == [j \in m - k .. m |-> Step(str, g, j)]
        <5>1. f[next] = Step(str, g, next)
          BY <4>2
        <5>2. g = f
          BY <2>2, Zenon DEF Solves
        <5>3. QED BY <5>1, <5>2, Zenon
      <4>5. g[next] = h[next]
        BY <4>3, <4>4
      <4>6. QED BY <4>5 DEF Step, next
    <3>4. QED BY <3>2, <3>3
  <2>4. Solves(str, h, k + 1)
    <3> DEFINE f == [start \in m - (k + 1) .. m |-> Step(str, h, start)]
    <3>1. f = h
      <4>1. ASSUME NEW start \in m - (k + 1) .. m PROVE f[start] = h[start]
        <5> HIDE DEF h
        <5>1. f[start] = Step(str, h, start)
          OBVIOUS
        <5>2. h[start] = Step(str, g, start)
          BY DEF h
        <5>3. QED BY <2>3, <5>1, <5>2 DEF h
      <4>2. QED BY <4>1
    <3>2. QED BY <3>1, Zenon DEF Solves
  <2>5. QED BY <2>4
<1>4. \E g : Solves(str, g, m - 1)
  <2>1. Nat \subseteq S
    <3> HIDE DEF S
    <3>1. QED BY <1>2, <1>3, NatSetInduction
  <2>2. m - 1 \in S /\ m - 1 < m
    BY <1>1, <2>1
  <2>3. QED BY <2>2
<1>5. m - (m - 1) = 1
  BY <1>1
<1>6. \E g : g = [start \in 1 .. m |-> Step(str, g, start)]
  BY <1>4, <1>5, Zenon DEF Solves
<1>7. QED BY <1>6, Zenon DEF PiecesFcn, Step

(* The pieces of a string are strings.                                     *)
LEMMA PiecesTyped ==
    ASSUME NEW str \in Strings, NEW start \in 1 .. npos(str)
    PROVE  /\ PiecesFcn(str)[start] = Step(str, PiecesFcn(str), start)
           /\ PiecesFcn(str)[start] \in Seq(Strings)
<1> DEFINE m == npos(str)
           f == PiecesFcn(str)
           S == {k \in Nat : \A i \in 1 .. m : m - i <= k => f[i] \in Seq(Strings)}
<1>1. m \in Nat \ {0} /\ Len(str) \in Nat /\ m = Len(str) + 1
  BY LenProperties DEF npos, Strings
<1>2. \A i \in 1 .. m : f[i] = Step(str, f, i)
  <2> DEFINE g == [i \in 1 .. m |-> Step(str, f, i)]
  <2>1. \A i \in 1 .. m : g[i] = Step(str, f, i)
    OBVIOUS
  <2>2. f = g
    BY PiecesExist, Zenon
  <2> HIDE DEF f, g
  <2>3. QED BY <2>1, <2>2
<1> HIDE DEF f
<1>3. ASSUME NEW i \in 1 .. m, End(str, i) = m PROVE f[i] \in Seq(Strings)
  BY <1>2, <1>3, EmptySeq DEF Step
<1>4. ASSUME NEW i \in 1 .. m, End(str, i) # m, f[Following(str, i)] \in Seq(Strings)
      PROVE  f[i] \in Seq(Strings)
  <2>1. End(str, i) \in i .. m
    BY PiecesAdvance
  <2>2. SubSeq(str, i, End(str, i) - 1) \in Strings
    <3>1. i \in 1 .. Len(str) + 1 /\ End(str, i) - 1 \in 0 .. Len(str)
      BY <1>1, <1>4, <2>1
    <3>2. QED BY <3>1, PartOfString
  <2>3. f[i] = <<SubSeq(str, i, End(str, i) - 1)>> \o f[Following(str, i)]
    BY <1>2, <1>4 DEF Step
  <2>4. <<SubSeq(str, i, End(str, i) - 1)>> \in Seq(Strings)
    BY <2>2
  <2>5. QED BY <1>4, <2>3, <2>4, ConcatProperties
<1>5. 0 \in S
  <2>1. ASSUME NEW i \in 1 .. m, m - i <= 0 PROVE End(str, i) = m
    BY <1>1, <2>1, PiecesAdvance
  <2>2. QED BY <1>3, <2>1
<1>6. ASSUME NEW k \in Nat, k \in S PROVE k + 1 \in S
  <2>1. SUFFICES ASSUME NEW i \in 1 .. m, m - i <= k + 1 PROVE f[i] \in Seq(Strings)
    OBVIOUS
  <2>2. CASE End(str, i) = m
    BY <1>3, <2>2
  <2>3. CASE End(str, i) # m
    <3>1. Following(str, i) \in i + 1 .. m
      BY <2>3, PiecesAdvance
    <3>2. Following(str, i) \in 1 .. m /\ m - Following(str, i) <= k
      BY <1>1, <2>1, <3>1
    <3>3. f[Following(str, i)] \in Seq(Strings)
      BY <1>6, <3>2
    <3>4. QED BY <1>4, <2>3, <3>3
  <2>4. QED BY <2>2, <2>3
<1>7. Nat \subseteq S
  <2> HIDE DEF S
  <2>1. QED BY <1>5, <1>6, NatSetInduction
<1>8. m - start \in S /\ start \in 1 .. m
  BY <1>1, <1>7
<1>9. f[start] \in Seq(Strings)
  BY <1>8, <1>1
<1>10. QED BY <1>2, <1>9 DEF f

LEMMA OneElement ==
    ASSUME NEW S, NEW x \in S
    PROVE  <<x>> \in Seq(S) /\ Len(<<x>>) = 1 /\ <<x>>[1] = x
  OBVIOUS

(* The first piece of a list is what stands between the delimiters at its  *)
(* start and another delimiter, or all of it.                              *)
LEMMA FirstPiece ==
    ASSUME NEW str \in Strings
    PROVE  /\ split(str, Comma) \in Seq(Strings)
           /\ Len(split(str, Comma)) >= 1
           /\ \E lo \in 1 .. Len(str) + 1, hi \in 0 .. Len(str) :
                 /\ split(str, Comma)[1] = SubSeq(str, lo, hi)
                 /\ \A i \in 1 .. Len(str) : i < lo => str[i] = Comma
                 /\ \/ lo = 1 /\ hi = Len(str)
                    \/ hi < Len(str) /\ str[hi + 1] = Comma
<1> DEFINE m == npos(str)
           first == FindFrom(str, 1, Others(str))
           pieces == split(str, Comma)
<1>1. m \in Nat \ {0} /\ Len(str) \in Nat /\ m = Len(str) + 1 /\ DOMAIN str = 1 .. Len(str)
  BY LenProperties DEF npos, Strings
<1>2. first \in 1 .. m /\ Others(str) \cap (1 .. first - 1) = {}
  <2>1. 1 \in 1 .. m
    BY <1>1
  <2>2. QED BY <1>1, <2>1, FindFromIsFirst
<1>3. pieces = IF End(str, first) = m THEN <<str>> ELSE PiecesFcn(str)[first]
  BY SplitIsPieces, Zenon DEF End
<1> HIDE DEF pieces, first
<1>4. CASE End(str, first) = m
  <2>1. pieces = <<str>>
    BY <1>3, <1>4
  <2>2. pieces \in Seq(Strings) /\ Len(pieces) = 1 /\ pieces[1] = str
    BY <2>1
  <2>3. pieces[1] = SubSeq(str, 1, Len(str))
    BY <2>2, SubSeqFull DEF Strings
  <2>4. 1 \in 1 .. Len(str) + 1 /\ Len(str) \in 0 .. Len(str)
    BY <1>1
  <2>5. \A i \in 1 .. Len(str) : ~(i < 1)
    BY <1>1
  <2>6. \E lo \in 1 .. Len(str) + 1, hi \in 0 .. Len(str) :
                 /\ pieces[1] = SubSeq(str, lo, hi)
                 /\ \A i \in 1 .. Len(str) : i < lo => str[i] = Comma
                 /\ \/ lo = 1 /\ hi = Len(str)
                    \/ hi < Len(str) /\ str[hi + 1] = Comma
    BY <2>3, <2>4, <2>5
  <2>7. Len(pieces) >= 1
    BY <2>2
  <2>8. QED BY <2>2, <2>6, <2>7 DEF pieces
<1>5. CASE End(str, first) # m
  <2> DEFINE end == End(str, first)
             rest == PiecesFcn(str)[Following(str, first)]
  <2>1. end \in first .. m /\ end \in Delims(str) /\ Following(str, first) \in first + 1 .. m
    BY <1>2, <1>5, PiecesAdvance
  <2>2. pieces \in Seq(Strings) /\ pieces = Step(str, PiecesFcn(str), first)
    BY <1>2, <1>3, <1>5, PiecesTyped
  <2>3. pieces = <<SubSeq(str, first, end - 1)>> \o rest
    BY <1>5, <2>2 DEF Step
  <2>4. rest \in Seq(Strings)
    <3>1. Following(str, first) \in 1 .. m
      BY <1>1, <1>2, <2>1
    <3>2. QED BY <3>1, PiecesTyped
  <2>5. first \in 1 .. Len(str) + 1 /\ end - 1 \in 0 .. Len(str) /\ end - 1 < Len(str)
        /\ end \in 1 .. Len(str)
    BY <1>1, <1>2, <1>5, <2>1
  <2>6. SubSeq(str, first, end - 1) \in Strings
    BY <2>5, PartOfString
  <2> DEFINE one == <<SubSeq(str, first, end - 1)>>
  <2>7. one \in Seq(Strings) /\ Len(one) = 1 /\ one[1] = SubSeq(str, first, end - 1)
    BY <2>6, OneElement, Zenon
  <2> HIDE DEF one, rest
  <2>8. pieces = one \o rest
    BY <2>3 DEF one, rest
  <2>9. Len(pieces) = 1 + Len(rest) /\ Len(rest) \in Nat
        /\ \A i \in 1 .. 1 + Len(rest) : pieces[i] = IF i <= 1 THEN one[i] ELSE rest[i - 1]
    BY <2>4, <2>7, <2>8, ConcatProperties, LenProperties
  <2>10. Len(pieces) >= 1 /\ pieces[1] = SubSeq(str, first, end - 1)
    BY <2>7, <2>9
  <2>11. ASSUME NEW i \in 1 .. Len(str), i < first PROVE str[i] = Comma
    <3>1. i \in 1 .. first - 1
      BY <1>2, <2>11
    <3>2. i \in Delims(str)
      BY <1>1, <1>2, <3>1 DEF Others
    <3>3. QED BY <3>2 DEF Delims
  <2>12. end - 1 + 1 = end /\ str[end] = Comma
    BY <2>1, <2>5 DEF Delims
  <2> HIDE DEF end
  <2>13. QED BY <2>2, <2>5, <2>10, <2>11, <2>12 DEF pieces
<1>6. QED BY <1>4, <1>5

(* What is alone in the first piece of a list is an item of the list.      *)
LEMMA FirstPieceIsListed ==
    ASSUME NEW value \in Strings, NEW x, x # Blank,
           strip(split(strip(value), Comma)[1]) = <<x>>
    PROVE  Listed(x, value)
<1> DEFINE str == strip(value)
           piece == split(str, Comma)[1]
<1>1. str \in Strings /\ Len(str) \in Nat /\ Len(value) \in Nat /\ DOMAIN value = 1 .. Len(value)
  BY StripIsString, LenProperties DEF Strings
<1>2. PICK from \in 1 .. Len(value) + 1, to \in 0 .. Len(value) :
              /\ str = SubSeq(value, from, to)
              /\ \A i \in 1 .. Len(value) : i < from \/ to < i => value[i] = Blank
  BY StripIsPart
<1>3. /\ Len(str) = IF from <= to THEN to - from + 1 ELSE 0
      /\ \A i \in 1 .. to - from + 1 : str[i] = value[from + i - 1]
  BY <1>2, PartOfString
<1>4. PICK lo \in 1 .. Len(str) + 1, hi \in 0 .. Len(str) :
                 /\ piece = SubSeq(str, lo, hi)
                 /\ \A i \in 1 .. Len(str) : i < lo => str[i] = Comma
                 /\ \/ lo = 1 /\ hi = Len(str)
                    \/ hi < Len(str) /\ str[hi + 1] = Comma
  BY <1>1, FirstPiece
<1>5. /\ piece \in Strings
      /\ Len(piece) = IF lo <= hi THEN hi - lo + 1 ELSE 0
      /\ \A i \in 1 .. hi - lo + 1 : piece[i] = str[lo + i - 1]
  BY <1>1, <1>4, PartOfString
<1>6. strip(piece) = <<x>>
  OBVIOUS
<1> HIDE DEF str, piece
<1>7. PICK p \in 1 .. Len(piece) : piece[p] = x /\ \A i \in 1 .. Len(piece) : i # p => piece[i] = Blank
  BY <1>5, <1>6, StripIsSingle
<1>8. lo <= hi /\ Len(piece) = hi - lo + 1 /\ from <= to /\ Len(str) = to - from + 1
  BY <1>1, <1>3, <1>4, <1>5, <1>7
<1> DEFINE place == from + (lo + p - 1) - 1
<1>9. place \in 1 .. Len(value) /\ value[place] = x
  <2>1. lo + p - 1 \in 1 .. to - from + 1 /\ p \in 1 .. hi - lo + 1
    BY <1>1, <1>7, <1>8
  <2>2. value[place] = str[lo + p - 1] /\ str[lo + p - 1] = piece[p]
    BY <1>3, <1>5, <2>1
  <2>3. place \in 1 .. Len(value)
    BY <1>1, <1>8, <2>1
  <2> HIDE DEF place
  <2>4. QED BY <1>7, <2>2, <2>3
(* The value is a run of commas, the piece, and a comma or the end.        *)
<1>10. ASSUME NEW j \in 1 .. Len(value)
       PROVE  \/ value[j] = Blank
              \/ j < from + lo - 1 /\ value[j] = Comma
              \/ j = place
              \/ j > from + hi - 1
  <2>1. CASE j < from \/ to < j
    BY <1>2, <2>1
  <2>2. CASE from <= j /\ j <= to
    <3> DEFINE i == j - from + 1
    <3>1. i \in 1 .. to - from + 1 /\ from + i - 1 = j /\ i \in 1 .. Len(str)
      BY <1>1, <1>8, <2>2
    <3>2. value[j] = str[i]
      BY <1>3, <3>1
    <3>3. CASE i < lo
      BY <1>1, <1>4, <3>1, <3>2, <3>3
    <3>4. CASE lo <= i /\ i <= hi
      <4>1. i - lo + 1 \in 1 .. hi - lo + 1 /\ lo + (i - lo + 1) - 1 = i
        BY <1>1, <3>1, <3>4
      <4>2. piece[i - lo + 1] = str[i]
        BY <1>5, <4>1
      <4>3. i - lo + 1 = p => j = place
        BY <1>1, <1>7, <3>1
      <4>4. i - lo + 1 # p => piece[i - lo + 1] = Blank
        BY <1>7, <1>8, <4>1
      <4>5. QED BY <3>2, <4>2, <4>3, <4>4
    <3>5. CASE i > hi
      <4>1. j \in Int /\ from \in Int /\ hi \in Int
        BY <1>1
      <4>2. j - from + 1 > hi
        BY <3>5
      <4>3. j > from + hi - 1
        BY <4>1, <4>2
      <4>4. QED BY <4>3
    <3>6. QED BY <1>1, <3>1, <3>3, <3>4, <3>5
  <2>3. QED BY <1>1, <2>1, <2>2
<1> DEFINE stop == from + (hi + 1) - 1
<1>11. \/ lo = 1 /\ hi = Len(str) /\ \A j \in 1 .. Len(value) : j > from + hi - 1 => value[j] = Blank
       \/ stop \in 1 .. Len(value) /\ value[stop] = Comma
  <2>1. CASE lo = 1 /\ hi = Len(str)
    BY <1>1, <1>2, <1>8, <2>1
  <2>2. CASE hi < Len(str) /\ str[hi + 1] = Comma
    <3>1. hi + 1 \in 1 .. to - from + 1
      BY <1>1, <1>8, <2>2
    <3>2. value[stop] = str[hi + 1]
      BY <1>3, <3>1
    <3>3. QED BY <1>1, <1>8, <2>2, <3>1, <3>2
  <2>3. QED BY <1>4, <2>1, <2>2
<1>12. place < stop /\ from + lo - 1 <= place
  BY <1>1, <1>7, <1>8
<1> HIDE DEF place, stop
<1> DEFINE chars == {i \in 1 .. Len(value) : value[i] # Blank}
<1>13. place \in chars
  BY <1>9
<1>14. ASSUME NEW j \in chars, j < place PROVE value[j] = Comma
  <2>1. j \in 1 .. Len(value) /\ value[j] # Blank
    OBVIOUS
  <2>2. j <= from + hi - 1
    BY <1>1, <1>7, <1>8, <1>14, <2>1 DEF place
  <2>3. j # place /\ ~(j > from + hi - 1)
    BY <1>1, <1>9, <1>14, <2>1, <2>2
  <2>4. QED BY <1>10, <2>1, <2>3
<1>15. ASSUME NEW j \in chars, j > place, \A k \in chars : k <= place \/ k >= j
       PROVE  value[j] = Comma
  <2>1. j > from + hi - 1
    BY <1>1, <1>8, <1>9, <1>10, <1>12, <1>15
  <2>2. stop \in 1 .. Len(value) /\ value[stop] = Comma
    BY <1>11, <2>1
  <2>3. stop \in chars
    BY <2>2, Symbols
  <2>4. stop >= j
    BY <1>1, <1>9, <1>12, <1>15, <2>2, <2>3
  <2>5. stop = j
    BY <1>1, <1>8, <2>1, <2>4 DEF stop
  <2>6. QED BY <2>2, <2>5
<1>16. \E i \in chars :
        /\ value[i] = x
        /\ \A j \in chars : j < i /\ (\A k \in chars : k <= j \/ k >= i) => value[j] = Comma
        /\ \A j \in chars : j > i /\ (\A k \in chars : k <= i \/ k >= j) => value[j] = Comma
  BY <1>9, <1>13, <1>14, <1>15
<1>17. chars = {i \in DOMAIN value : value[i] # Blank}
  BY <1>1
<1> HIDE DEF chars
<1>18. QED BY <1>16, <1>17, Zenon DEF Listed, Blank, Comma

-----------------------------------------------------------------------------
(* The recursive function of FlattenSeq, one step of it, and what it is up *)
(* to the k-th sequence.                                                   *)
FlattenFcn(seqs) ==
    CHOOSE flatten : flatten =
        [i \in 1 .. Len(seqs) |-> IF i = 1 THEN seqs[i] ELSE flatten[i - 1] \o seqs[i]]

Joined(seqs, g, i) == IF i = 1 THEN seqs[i] ELSE g[i - 1] \o seqs[i]

LEMMA JoinedLater ==
    ASSUME NEW seqs, NEW g, NEW i, i # 1
    PROVE  Joined(seqs, g, i) = g[i - 1] \o seqs[i]
  BY DEF Joined

LEMMA FlattenIsFcn ==
    \A seqs : FlattenSeq(seqs) = IF Len(seqs) = 0 THEN seqs ELSE FlattenFcn(seqs)[Len(seqs)]
  BY DEF FlattenSeq, FlattenFcn

(* The recursive function of FlattenSeq is defined.                        *)
LEMMA FlattenExists ==
    ASSUME NEW seqs, Len(seqs) \in Nat
    PROVE  FlattenFcn(seqs) = [i \in 1 .. Len(seqs) |-> Joined(seqs, FlattenFcn(seqs), i)]
<1> DEFINE Solution(g, k) == g = [i \in 1 .. k |-> Joined(seqs, g, i)]
           S == {k \in Nat : \E g : Solution(g, k)}
<1>1. 0 \in S
  <2>1. Solution([i \in 1 .. 0 |-> <<>>], 0)
    OBVIOUS
  <2>2. QED BY <2>1
<1>2. ASSUME NEW k \in Nat, k \in S PROVE k + 1 \in S
  <2>1. PICK g : Solution(g, k)
    BY <1>2
  <2>2. \A i \in 1 .. k : g[i] = Joined(seqs, g, i)
    <3> DEFINE f == [i \in 1 .. k |-> Joined(seqs, g, i)]
    <3>1. \A i \in 1 .. k : f[i] = Joined(seqs, g, i)
      OBVIOUS
    <3>2. g = f
      BY <2>1, Zenon
    <3> HIDE DEF f
    <3>3. QED BY <3>1, <3>2
  <2> HIDE DEF Solution
  <2> DEFINE h == [i \in 1 .. k + 1 |-> Joined(seqs, g, i)]
  <2>3. ASSUME NEW i \in 1 .. k + 1 PROVE h[i] = Joined(seqs, h, i)
    <3>1. h[i] = Joined(seqs, g, i)
      OBVIOUS
    <3>2. CASE i = 1
      BY <3>1, <3>2 DEF Joined
    <3>3. CASE i # 1
      <4>1. i - 1 \in 1 .. k /\ i - 1 \in 1 .. k + 1
        BY <3>3
      <4>2. h[i - 1] = Joined(seqs, g, i - 1) /\ g[i - 1] = Joined(seqs, g, i - 1)
        BY <2>2, <4>1
      <4> HIDE DEF h
      <4>3. QED BY <3>1, <4>2 DEF Joined
    <3>4. QED BY <3>2, <3>3
  <2>4. h = [i \in 1 .. k + 1 |-> Joined(seqs, h, i)]
    <3> DEFINE f == [i \in 1 .. k + 1 |-> Joined(seqs, h, i)]
    <3>1. \A i \in 1 .. k + 1 : f[i] = h[i]
      <4> HIDE DEF h
      <4>1. QED BY <2>3
    <3>2. QED BY <3>1
  <2> HIDE DEF h
  <2>5. QED BY <2>4 DEF Solution
<1>3. \E g : Solution(g, Len(seqs))
  <2>1. Nat \subseteq S
    <3> HIDE DEF S
    <3>1. QED BY <1>1, <1>2, NatSetInduction
  <2>2. QED BY <2>1
<1>4. QED BY <1>3, Zenon DEF FlattenFcn, Joined

(* Where each of the sequences stands in their concatenation.              *)
Offsets(seqs, all, k, off) ==
    /\ off \in [0 .. k -> Nat]
    /\ off[0] = 0
    /\ Len(all) = off[k]
    /\ \A i \in 1 .. k :
          /\ off[i] = off[i - 1] + Len(seqs[i])
          /\ \A j \in 1 .. Len(seqs[i]) : all[off[i - 1] + j] = seqs[i][j]
          /\ off[i] <= off[k]

(* A place in a part is a place in the whole.                              *)
LEMMA PlaceInPart ==
    ASSUME NEW from \in Nat, NEW len \in Nat, NEW to \in Nat, NEW n \in Nat,
           NEW j \in 1 .. len, to = from + len, to <= n
    PROVE  from + j \in 1 .. n
  OBVIOUS

(* What a concatenation holds.                                             *)
LEMMA ConcatEarlier ==
    ASSUME NEW S, NEW s \in Seq(S), NEW t \in Seq(S), NEW i \in 1 .. Len(s)
    PROVE  (s \o t)[i] = s[i]
<1>1. Len(s) \in Nat /\ Len(t) \in Nat
  BY LenProperties
<1>2. i \in 1 .. Len(s) + Len(t) /\ i <= Len(s)
  BY <1>1
<1>3. QED BY <1>2, ConcatProperties

LEMMA ConcatLater ==
    ASSUME NEW S, NEW s \in Seq(S), NEW t \in Seq(S), NEW j \in 1 .. Len(t)
    PROVE  (s \o t)[Len(s) + j] = t[j]
<1>1. Len(s) \in Nat /\ Len(t) \in Nat
  BY LenProperties
<1>2. \A i \in 1 .. Len(s) + Len(t) : (s \o t)[i] = IF i <= Len(s) THEN s[i] ELSE t[i - Len(s)]
  BY ConcatProperties
<1>3. ASSUME NEW i, i = Len(s) + j PROVE (s \o t)[i] = t[j]
  <2>1. i \in 1 .. Len(s) + Len(t) /\ ~(i <= Len(s)) /\ i - Len(s) = j
    BY <1>1, <1>3
  <2>2. QED BY <1>2, <2>1
<1>4. QED BY <1>3

(* One more sequence is joined: those before stay where they are.          *)
LEMMA OffsetsAppend ==
    ASSUME NEW S, NEW seqs \in Seq(Seq(S)), NEW all \in Seq(S), NEW k \in Nat, k + 1 <= Len(seqs),
           NEW off, Offsets(seqs, all, k, off)
    PROVE  \E new : Offsets(seqs, all \o seqs[k + 1], k + 1, new)
<1> DEFINE last == seqs[k + 1]
           new == [i \in 0 .. k + 1 |-> IF i = k + 1 THEN off[k] + Len(last) ELSE off[i]]
           joined == all \o last
<1>1. k + 1 \in 1 .. Len(seqs)
  BY LenProperties
<1>2. last \in Seq(S)
  BY <1>1, ElementOfSeq
<1> HIDE DEF last
<1>3. /\ Len(joined) = Len(all) + Len(last)
      /\ \A i \in 1 .. Len(all) + Len(last) :
            joined[i] = IF i <= Len(all) THEN all[i] ELSE last[i - Len(all)]
  BY <1>2, ConcatProperties
<1> HIDE DEF joined
<1>4. /\ Len(all) = off[k] /\ Len(last) \in Nat /\ \A i \in 0 .. k : off[i] \in Nat
      /\ off[0] = 0
      /\ \A i \in 1 .. k :
          /\ off[i] = off[i - 1] + Len(seqs[i])
          /\ \A j \in 1 .. Len(seqs[i]) : all[off[i - 1] + j] = seqs[i][j]
          /\ off[i] <= off[k]
  BY <1>2, LenProperties DEF Offsets
<1>5. \A i \in 1 .. Len(seqs) : Len(seqs[i]) \in Nat
  BY ElementOfSeq, LenProperties
<1>6. new \in [0 .. k + 1 -> Nat]
  BY <1>4
<1>7. new[0] = 0 /\ new[k + 1] = off[k] + Len(last) /\ \A i \in 0 .. k : new[i] = off[i]
  BY <1>4
<1> HIDE DEF new
<1>8. ASSUME NEW i \in 1 .. k + 1
      PROVE  /\ new[i] = new[i - 1] + Len(seqs[i])
             /\ \A j \in 1 .. Len(seqs[i]) : joined[new[i - 1] + j] = seqs[i][j]
             /\ new[i] <= new[k + 1]
  <2>1. CASE i = k + 1
    <3>1. i - 1 = k /\ new[i - 1] = off[k] /\ seqs[i] = last
      BY <1>7, <2>1 DEF last
    <3>2. ASSUME NEW j \in 1 .. Len(last) PROVE joined[off[k] + j] = last[j]
      <4>1. joined[Len(all) + j] = last[j]
        BY <1>2, ConcatLater DEF joined
      <4>2. QED BY <1>4, <4>1
    <3>3. QED BY <1>4, <1>7, <2>1, <3>1, <3>2
  <2>2. CASE i # k + 1
    <3>1. i \in 1 .. k /\ i - 1 \in 0 .. k /\ i \in 0 .. k /\ k \in 0 .. k /\ i \in 1 .. Len(seqs)
      BY <1>1, <2>2
    <3>2. new[i] = off[i] /\ new[i - 1] = off[i - 1]
      BY <1>7, <3>1
    <3>3. ASSUME NEW j \in 1 .. Len(seqs[i]) PROVE joined[off[i - 1] + j] = seqs[i][j]
      <4>1. all[off[i - 1] + j] = seqs[i][j] /\ off[i] = off[i - 1] + Len(seqs[i])
            /\ off[i] <= off[k] /\ off[i - 1] \in Nat /\ Len(seqs[i]) \in Nat /\ off[k] \in Nat
        BY <1>4, <1>5, <3>1
      <4>2. Len(all) = off[k]
        BY <1>4
      <4>3. off[i - 1] + j \in 1 .. Len(all)
        BY <4>1, <4>2, PlaceInPart
      <4>4. joined[off[i - 1] + j] = all[off[i - 1] + j]
        BY <1>2, <4>3, ConcatEarlier DEF joined
      <4>5. QED BY <4>1, <4>4
    <3>4. off[i] = off[i - 1] + Len(seqs[i]) /\ off[i] <= off[k] /\ off[i] \in Nat /\ off[k] \in Nat
      BY <1>4, <3>1
    <3>5. QED BY <1>4, <1>7, <3>2, <3>3, <3>4
  <2>3. QED BY <2>1, <2>2
<1>9. Len(joined) = new[k + 1]
  BY <1>3, <1>4, <1>7
<1>10. Offsets(seqs, joined, k + 1, new)
  BY <1>6, <1>7, <1>8, <1>9 DEF Offsets
<1>11. QED BY <1>10 DEF joined, last

(* Each sequence has its place in what FlattenSeq joins.                   *)
LEMMA FlattenProperties ==
    ASSUME NEW S, NEW seqs \in Seq(Seq(S))
    PROVE  /\ FlattenSeq(seqs) \in Seq(S)
           /\ \E off : Offsets(seqs, FlattenSeq(seqs), Len(seqs), off)
<1> DEFINE f == FlattenFcn(seqs)
           F(k) == IF k = 0 THEN <<>> ELSE f[k]
           T == {k \in Nat : k <= Len(seqs) =>
                                F(k) \in Seq(S) /\ \E off : Offsets(seqs, F(k), k, off)}
<1>1. Len(seqs) \in Nat
  BY LenProperties
<1>2. \A i \in 1 .. Len(seqs) : f[i] = Joined(seqs, f, i)
  <2> DEFINE g == [i \in 1 .. Len(seqs) |-> Joined(seqs, f, i)]
  <2>1. \A i \in 1 .. Len(seqs) : g[i] = Joined(seqs, f, i)
    OBVIOUS
  <2>2. f = g
    BY <1>1, FlattenExists, Zenon
  <2> HIDE DEF f, g
  <2>3. QED BY <2>1, <2>2
<1> HIDE DEF f
<1>3. 0 \in T
  <2> DEFINE off == [i \in 0 .. 0 |-> 0]
  <2>1. Offsets(seqs, <<>>, 0, off)
    BY DEF Offsets
  <2>2. QED BY <2>1, EmptySeq
<1>4. ASSUME NEW k \in Nat, k \in T PROVE k + 1 \in T
  <2>1. SUFFICES ASSUME k + 1 <= Len(seqs)
                 PROVE  F(k + 1) \in Seq(S) /\ \E off : Offsets(seqs, F(k + 1), k + 1, off)
    OBVIOUS
  <2>2. F(k) \in Seq(S) /\ \E off : Offsets(seqs, F(k), k, off)
    BY <1>1, <1>4, <2>1
  <2>3. k + 1 \in 1 .. Len(seqs) /\ seqs[k + 1] \in Seq(S)
    BY <1>1, <2>1, ElementOfSeq
  <2>4. F(k + 1) = F(k) \o seqs[k + 1]
    <3>1. F(k + 1) = Joined(seqs, f, k + 1)
      BY <1>2, <2>3
    <3>2. CASE k = 0
      BY <2>3, <3>1, <3>2, ConcatEmptySeq DEF Joined
    <3>3. CASE k # 0
      <4>1. ASSUME NEW i, i = k + 1 PROVE Joined(seqs, f, i) = f[k] \o seqs[i]
        <5>1. i # 1 /\ i - 1 = k
          BY <3>3, <4>1
        <5>2. QED BY <5>1, JoinedLater
      <4>2. F(k) = f[k]
        BY <3>3
      <4>3. Joined(seqs, f, k + 1) = f[k] \o seqs[k + 1]
        BY <4>1
      <4> HIDE DEF F
      <4>4. QED BY <3>1, <4>2, <4>3
    <3>4. QED BY <3>2, <3>3
  <2> HIDE DEF F
  <2>5. F(k + 1) \in Seq(S)
    BY <2>2, <2>3, <2>4, ConcatProperties
  <2>6. QED BY <2>1, <2>2, <2>4, <2>5, OffsetsAppend
<1>5. Nat \subseteq T
  <2> HIDE DEF T
  <2>1. QED BY <1>3, <1>4, NatSetInduction
<1>6. FlattenSeq(seqs) = F(Len(seqs))
  <2>1. CASE Len(seqs) = 0
    <3>1. seqs = <<>>
      BY <2>1, EmptySeq
    <3>2. QED BY <2>1, <3>1, FlattenIsFcn
  <2>2. CASE Len(seqs) # 0
    BY <2>2, FlattenIsFcn DEF f
  <2>3. QED BY <2>1, <2>2
<1>7. QED BY <1>1, <1>5, <1>6

-----------------------------------------------------------------------------
(* The parts of a packet that parseHttpRequest looks at.                   *)
CrlfsOf(packet) == {i \in DOMAIN packet : packet[i] = CRLF}
LineEnd(packet) == FindFrom(packet, 1, CrlfsOf(packet))
TypeOf(packet) == parseStartLine(SubSeq(packet, 1, LineEnd(packet) - 1))
HeadersEnd(packet) ==
    FindFrom(packet, LineEnd(packet) + 1, {i \in CrlfsOf(packet) : i + 1 \in CrlfsOf(packet)})
HeadersOf(packet) == SubSeq(packet, LineEnd(packet) + 1, HeadersEnd(packet))
BodyOf(packet) == SubSeq(packet, HeadersEnd(packet) + 2, Len(packet))

Refused(packet) ==
    \/ LineEnd(packet) = npos(packet) \/ TypeOf(packet) = "UNKNOWN"
    \/ HeadersEnd(packet) = npos(packet) \/ BadHeaders(TypeOf(packet), HeadersOf(packet))

(* parseHttpRequest, by the parts of a packet.                             *)
LEMMA ParseParts ==
    \A packet : parseHttpRequest(packet) =
        IF Refused(packet) THEN BadRequest
        ELSE IF ~BodyComplete(TypeOf(packet), HeadersOf(packet), BodyOf(packet))
        THEN PartialPacket
        ELSE [error |-> "none",
              number |-> ValueOf(TypeOf(packet), packet),
              encodings |-> "Accept-Encoding" \in Keys(HeadersOf(packet)),
              mRequestSize |-> Len(packet)]
  BY DEF parseHttpRequest, Refused, TypeOf, HeadersOf, BodyOf, LineEnd, HeadersEnd, CrlfsOf

(* When a packet is accepted, and what of it is.                           *)
LEMMA Accepted ==
    ASSUME NEW packet
    PROVE  LET request == parseHttpRequest(packet) IN
           /\ request.error = "none" <=>
                 /\ ~Refused(packet)
                 /\ BodyComplete(TypeOf(packet), HeadersOf(packet), BodyOf(packet))
           /\ request.error = "none" =>
                 /\ request.number = ValueOf(TypeOf(packet), packet)
                 /\ request.mRequestSize = Len(packet)
<1>1. BadRequest.error # "none" /\ PartialPacket.error # "none"
  BY DEF BadRequest, PartialPacket
<1>2. QED BY <1>1, ParseParts

(* The value of the first token with that key.                             *)
LEMMA ValueOfFirst ==
    ASSUME NEW S, NEW tokens \in Seq(S), NEW key, key \in Keys(tokens)
    PROVE  \E i \in 1 .. Len(tokens) :
              /\ tokens[i].key = key
              /\ \A j \in 1 .. Len(tokens) : tokens[j].key = key => i <= j
              /\ ValueOf(key, tokens) = tokens[i].value
<1> DEFINE I == {i \in 1 .. Len(tokens) : tokens[i].key = key}
<1>1. Len(tokens) \in Nat /\ DOMAIN tokens = 1 .. Len(tokens)
  BY LenProperties
<1>2. I # {} /\ I \subseteq Nat
  BY <1>1 DEF Keys
<1>3. PICK x \in I : \A y \in I : x <= y
  <2> HIDE DEF I
  <2>1. QED BY <1>2, LeastExists
<1>4. Min(I) \in I /\ \A y \in I : Min(I) <= y
  <2> HIDE DEF I
  <2>1. QED BY <1>3 DEF Min
<1>5. SelectInSeq(tokens, LAMBDA t : t.key = key) = Min(I)
  BY <1>2 DEF SelectInSeq
<1>6. ValueOf(key, tokens) = tokens[Min(I)].value
  BY <1>5 DEF ValueOf
<1>7. QED BY <1>4, <1>6

-----------------------------------------------------------------------------
(* Types.                                                                  *)

(* Tokens of which those that start a request have the number of one.      *)
GoodToken(i) == {token \in Token : IsStart(token) => token.value \in DOMAIN i.requests}

(* What is encoded is encoded with the first item of the list.             *)
FirstEncoding ==
    \/ encoding \in {"none", "NO_ENCODING"}
    \/ LET encodings == AcceptEncodings(input.accept) IN
       /\ encodings # <<>>
       /\ encoding = IF encodings[1] = "GZIP" THEN "GZIP" ELSE "DEFLATE"
       /\ encodings[1] # "NO_ENCODING"

Types ==
    /\ input \in Inputs
    /\ mRequestHandle \in BOOLEAN
    /\ incoming \in Seq(GoodToken(input)) /\ mRecvBuffer \in Seq(GoodToken(input))
    /\ mState \in {"Connected", "HalfClosed"}
    /\ handled \in Seq(DOMAIN input.requests)
    /\ pipelined \in BOOLEAN
    /\ failure \in BOOLEAN
    /\ FirstEncoding

Request == [method : Methods, headers : Seq([key : HeaderKeys, value : Int]), body : Nat]

(* What a client sends.                                                    *)
LEMMA InputTypes ==
    ASSUME NEW i \in Inputs
    PROVE  /\ i.requests \in Seq(Request)
           /\ i.accept \in Strings
           /\ DOMAIN i.requests = 1 .. Len(i.requests) /\ Len(i.requests) \in Nat
<1>1. i.requests \in Seq(Request) /\ i.accept \in Strings
  BY HttpAssumption DEF Request, Strings
<1>2. QED BY <1>1, LenProperties

(* The tokens of the headers of a request.                                 *)
HeaderTokens(request) ==
    FlattenSeq([i \in DOMAIN request.headers |-> <<request.headers[i], CRLF>>])
BodyTokens(request) == [i \in 1 .. request.body |-> Byte]

(* The tokens of a request have the types of tokens, and its number.       *)
LEMMA TokensTyped ==
    ASSUME NEW i \in Inputs, NEW n \in DOMAIN i.requests
    PROVE  Tokens(i.requests[n], n) \in Seq(GoodToken(i))
<1> DEFINE r == i.requests[n]
           G == GoodToken(i)
           pairs == [k \in DOMAIN r.headers |-> <<r.headers[k], CRLF>>]
<1>1. r \in Request
  BY InputTypes, ElementOfSeq
<1> HIDE DEF r
<1>2. r.method \in Methods /\ r.headers \in Seq([key : HeaderKeys, value : Int]) /\ r.body \in Nat
  BY <1>1 DEF Request
<1>3. CRLF \in G /\ Byte \in G
  <2>1. CRLF \in Token /\ Byte \in Token
    BY DEF Token, CRLF, Byte, OtherKeys
  <2>2. ~IsStart(CRLF) /\ ~IsStart(Byte)
    BY DEF CRLF, Byte, IsStart, Methods
  <2>3. QED BY <2>1, <2>2 DEF GoodToken
<1>4. \A k \in DOMAIN r.headers : r.headers[k] \in G
  <2>1. ASSUME NEW h \in [key : HeaderKeys, value : Int] PROVE h \in G
    BY DEF GoodToken, Token, IsStart, HeaderKeys, OtherKeys
  <2>2. \A k \in DOMAIN r.headers : r.headers[k] \in [key : HeaderKeys, value : Int]
    BY <1>2, ElementOfSeq, LenProperties
  <2>3. QED BY <2>1, <2>2
<1>5. [key |-> r.method, value |-> n] \in G
  <2>1. n \in Int
    BY InputTypes
  <2>2. r.method \in OtherKeys
    BY <1>2 DEF OtherKeys
  <2>3. [key |-> r.method, value |-> n] \in Token
    BY <2>1, <2>2 DEF Token
  <2>4. QED BY <2>3 DEF GoodToken
<1> HIDE DEF G
<1>6. pairs \in Seq(Seq(G))
  <2>1. \A k \in DOMAIN r.headers : <<r.headers[k], CRLF>> \in Seq(G)
    BY <1>3, <1>4
  <2>2. DOMAIN r.headers = 1 .. Len(r.headers) /\ Len(r.headers) \in Nat
    BY <1>2, LenProperties
  <2>3. pairs \in [1 .. Len(r.headers) -> Seq(G)]
    BY <2>1, <2>2
  <2>4. QED BY <2>2, <2>3, SeqDef
<1>7. FlattenSeq(pairs) \in Seq(G)
  <2> HIDE DEF pairs
  <2>1. QED BY <1>6, FlattenProperties
<1>8. [k \in 1 .. r.body |-> Byte] \in Seq(G)
  <2>1. [k \in 1 .. r.body |-> Byte] \in [1 .. r.body -> G]
    BY <1>3
  <2>2. QED BY <1>2, <2>1, SeqDef
<1>9. <<[key |-> r.method, value |-> n], CRLF>> \in Seq(G) /\ <<CRLF>> \in Seq(G)
  BY <1>3, <1>5
<1>10. Tokens(r, n) = <<[key |-> r.method, value |-> n], CRLF>> \o FlattenSeq(pairs)
                         \o <<CRLF>> \o [k \in 1 .. r.body |-> Byte]
  BY DEF Tokens
<1> HIDE DEF pairs
<1>11. Tokens(r, n) \in Seq(G)
  BY <1>7, <1>8, <1>9, <1>10, ConcatProperties
<1>12. QED BY <1>11 DEF G, r

(* Functions and parts as sequences.                                       *)
LEMMA FunctionIsSeq ==
    ASSUME NEW S, NEW n \in Nat, NEW f \in [1 .. n -> S]
    PROVE  f \in Seq(S) /\ Len(f) = n
  BY SeqDef

LEMMA PartOfSeq ==
    ASSUME NEW S, NEW s \in Seq(S), NEW lo \in 1 .. Len(s) + 1, NEW hi \in 0 .. Len(s)
    PROVE  /\ SubSeq(s, lo, hi) \in Seq(S)
           /\ Len(SubSeq(s, lo, hi)) = IF lo <= hi THEN hi - lo + 1 ELSE 0
           /\ \A i \in 1 .. hi - lo + 1 : SubSeq(s, lo, hi)[i] = s[lo + i - 1]
           /\ Len(s) \in Nat
<1>1. Len(s) \in Nat /\ lo \in Int /\ hi \in Int
  BY LenProperties
<1>2. \A i \in lo .. hi : s[i] \in S
  BY <1>1, ElementOfSeq
<1>3. QED BY <1>1, <1>2, SubSeqProperties

(* An accepted packet has the number of a request.                         *)
LEMMA NumberTyped ==
    ASSUME NEW i \in Inputs, NEW packet \in Seq(GoodToken(i)), ~Refused(packet)
    PROVE  ValueOf(TypeOf(packet), packet) \in DOMAIN i.requests
<1> DEFINE type == TypeOf(packet)
           line == SubSeq(packet, 1, LineEnd(packet) - 1)
<1>1. Len(packet) \in Nat /\ DOMAIN packet = 1 .. Len(packet)
  BY LenProperties
<1>2. LineEnd(packet) \in 1 .. npos(packet)
  BY <1>1, FindFromIsFirst DEF LineEnd, npos
<1>3. /\ line \in Seq(GoodToken(i))
      /\ Len(line) = IF 1 <= LineEnd(packet) - 1 THEN LineEnd(packet) - 1 - 1 + 1 ELSE 0
      /\ \A k \in 1 .. LineEnd(packet) - 1 - 1 + 1 : line[k] = packet[1 + k - 1]
  <2>1. 1 \in 1 .. Len(packet) + 1 /\ LineEnd(packet) - 1 \in 0 .. Len(packet)
    BY <1>1, <1>2 DEF npos
  <2>2. QED BY <2>1, PartOfSeq
<1>4. DOMAIN line = 1 .. Len(line)
  BY <1>3, LenProperties
<1> HIDE DEF line
<1>5. Keys(line) \subseteq Keys(packet)
  <2>1. ASSUME NEW k \in DOMAIN line PROVE k \in DOMAIN packet /\ line[k] = packet[k]
    BY <1>1, <1>2, <1>3, <1>4 DEF npos
  <2>2. QED BY <2>1 DEF Keys
<1>6. type \in {"GET", "POST"} /\ type \in Keys(line)
  BY DEF Refused, TypeOf, parseStartLine, line
<1>7. type \in Keys(packet)
  BY <1>5, <1>6
<1>8. PICK k \in 1 .. Len(packet) : packet[k].key = type /\ ValueOf(type, packet) = packet[k].value
  BY <1>7, ValueOfFirst
<1>9. packet[k] \in GoodToken(i)
  BY ElementOfSeq
<1>10. QED BY <1>6, <1>8, <1>9 DEF GoodToken, IsStart, Methods

(* Types is an inductive invariant.                                        *)
LEMMA InitTypes == Init => Types
<1> SUFFICES ASSUME Init PROVE Types
  OBVIOUS
<1> DEFINE all == [i \in DOMAIN input.requests |-> Tokens(input.requests[i], i)]
           G == GoodToken(input)
<1>1. input \in Inputs
  BY DEF Init
<1>2. all \in Seq(Seq(G))
  <2>1. \A i \in DOMAIN input.requests : Tokens(input.requests[i], i) \in Seq(G)
    BY <1>1, TokensTyped
  <2>2. all \in [1 .. Len(input.requests) -> Seq(G)]
    BY <1>1, <2>1, InputTypes
  <2>3. Len(input.requests) \in Nat
    BY <1>1, InputTypes
  <2> HIDE DEF all, G
  <2>4. QED BY <2>2, <2>3, FunctionIsSeq
<1> HIDE DEF all
<1>3. FlattenSeq(all) \in Seq(G)
  BY <1>2, FlattenProperties
<1>4. incoming = FlattenSeq(all)
  BY DEF Init, all
<1>5. incoming \in Seq(G) /\ mRecvBuffer \in Seq(G) /\ handled \in Seq(DOMAIN input.requests)
  BY <1>3, <1>4, EmptySeq DEF Init
<1>6. FirstEncoding
  BY DEF Init, FirstEncoding
<1> HIDE DEF G
<1>7. QED BY <1>1, <1>5, <1>6 DEF Init, Types, G

(* What an encoded response is encoded with.                               *)
LEMMA EncodingOfResponse ==
    ASSUME NEW file, NEW encodings
    PROVE  LET e == ContentEncoding(file, encodings) IN
           \/ e = "NO_ENCODING"
           \/ /\ encodings # <<>>
              /\ e = IF encodings[1] = "GZIP" THEN "GZIP" ELSE "DEFLATE"
              /\ encodings[1] # "NO_ENCODING"
  BY DEF ContentEncoding, selectEncodeType

(* A response keeps the types; its encoding is the first of the list.      *)
LEMMA RespondTypes ==
    ASSUME Types, NEW request, request.number \in DOMAIN input.requests, Respond(request),
           input' = input
    PROVE  /\ mState' \in {"Connected", "HalfClosed"}
           /\ handled' = Append(handled, request.number)
           /\ handled' \in Seq(DOMAIN input.requests)
           /\ failure' \in BOOLEAN
           /\ FirstEncoding'
<1>1. handled' = Append(handled, request.number)
  BY DEF Respond
<1>2. handled' \in Seq(DOMAIN input.requests)
  BY <1>1, AppendProperties DEF Types
<1>3. PICK response :
          IF ~validateResponse(response)
          THEN failure' = TRUE /\ UNCHANGED <<mState, encoding>>
          ELSE /\ encoding' = ContentEncoding(response.file,
                                 IF request.encodings THEN AcceptEncodings(input.accept) ELSE <<>>)
               /\ mState' = IF response.mIsKeepAlive THEN mState ELSE "HalfClosed"
               /\ UNCHANGED failure
  BY Zenon DEF Respond
<1>4. mState' \in {"Connected", "HalfClosed"} /\ failure' \in BOOLEAN
  BY <1>3 DEF Types
<1>5. FirstEncoding'
  <2>1. CASE ~validateResponse(response)
    BY <1>3, <2>1 DEF Types, FirstEncoding
  <2>2. CASE validateResponse(response)
    <3> DEFINE encodings == IF request.encodings THEN AcceptEncodings(input.accept) ELSE <<>>
    <3>1. encoding' = ContentEncoding(response.file, encodings)
      BY <1>3, <2>2
    <3>2. encodings = AcceptEncodings(input.accept) \/ encodings = <<>>
      OBVIOUS
    <3> HIDE DEF encodings
    <3>3. QED BY <3>1, <3>2, EncodingOfResponse DEF FirstEncoding
  <2>3. QED BY <2>1, <2>2
<1>6. QED BY <1>1, <1>2, <1>4, <1>5

(* What onMessage does with a packet keeps the types.                      *)
LEMMA MessageTypes ==
    ASSUME Types, input' = input, NEW packet \in Seq(GoodToken(input)), onMessage(packet)
    PROVE  /\ mState' \in {"Connected", "HalfClosed"}
           /\ handled' \in Seq(DOMAIN input.requests)
           /\ failure' \in BOOLEAN
           /\ FirstEncoding'
           /\ mRecvBuffer' \in Seq(GoodToken(input))
<1> DEFINE G == GoodToken(input)
           request == parseHttpRequest(packet)
<1>1. input \in Inputs /\ packet \in Seq(G)
  BY DEF Types
<1> HIDE DEF G, request
<1>2. CASE request.error = "none"
  <2>1. Respond(request) /\ mRecvBuffer' = ExtractString(packet, request)
    BY <1>2 DEF onMessage, request
  <2>2. ~Refused(packet) /\ request.number = ValueOf(TypeOf(packet), packet)
        /\ request.mRequestSize = Len(packet)
    BY <1>2, Accepted DEF request
  <2>3. request.number \in DOMAIN input.requests
    BY <1>1, <2>2, NumberTyped DEF G
  <2>4. mRecvBuffer' = SubSeq(packet, Len(packet) + 1, Len(packet)) /\ Len(packet) \in Nat
    BY <1>1, <2>1, <2>2, LenProperties DEF ExtractString
  <2>5. mRecvBuffer' \in Seq(G)
    BY <2>4, SubSeqEmpty, EmptySeq
  <2>6. QED BY <2>1, <2>3, <2>5, RespondTypes DEF G
<1>3. CASE request.error # "none"
  <2>1. mRecvBuffer' = packet /\ UNCHANGED <<mState, handled, encoding, failure>>
    BY <1>3 DEF onMessage, request
  <2>2. QED BY <1>1, <2>1 DEF Types, FirstEncoding, G
<1>4. QED BY <1>2, <1>3

(* Of the tokens, what has arrived and what has not.                       *)
LEMMA PartsTyped ==
    ASSUME NEW S, NEW s \in Seq(S), NEW n \in DOMAIN s
    PROVE  /\ SubSeq(s, 1, n) \in Seq(S) /\ SubSeq(s, 1, n - 1) \in Seq(S)
           /\ SubSeq(s, n + 1, Len(s)) \in Seq(S)
<1>1. n \in 1 .. Len(s) /\ Len(s) \in Nat
  BY LenProperties
<1>2. /\ n + 1 \in 1 .. Len(s) + 1 /\ Len(s) \in 0 .. Len(s)
      /\ 1 \in 1 .. Len(s) + 1 /\ n \in 0 .. Len(s) /\ n - 1 \in 0 .. Len(s)
  BY <1>1
<1>3. QED BY <1>2, PartOfSeq

LEMMA StepTypes == Types /\ [Next]_vars => Types'
<1> SUFFICES ASSUME Types, [Next]_vars PROVE Types'
  OBVIOUS
<1> DEFINE G == GoodToken(input)
<1>1. input \in Inputs /\ incoming \in Seq(G) /\ mRecvBuffer \in Seq(G)
  BY DEF Types
<1>2. Byte \in G
  BY DEF GoodToken, Token, Byte, OtherKeys, IsStart, Methods
<1> HIDE DEF G
<1>3. CASE UNCHANGED vars
  BY <1>3 DEF vars, Types, FirstEncoding
<1>4. ASSUME input' = input, mRequestHandle' = mRequestHandle, pipelined' \in BOOLEAN,
             incoming' \in Seq(G), NEW packet \in Seq(G), onMessage(packet)
      PROVE  Types'
  <2>1. /\ mState' \in {"Connected", "HalfClosed"}
        /\ handled' \in Seq(DOMAIN input.requests)
        /\ failure' \in BOOLEAN
        /\ FirstEncoding'
        /\ mRecvBuffer' \in Seq(G)
    BY <1>4, MessageTypes DEF G
  <2>2. QED BY <1>4, <2>1 DEF Types, G
<1>5. CASE Receive
  <2>1. PICK n \in DOMAIN incoming :
          /\ incoming' = SubSeq(incoming, n + 1, Len(incoming))
          /\ pipelined' = (pipelined \/ \E i \in 2 .. n : IsStart(incoming[i]))
          /\ onMessage(mRecvBuffer \o SubSeq(incoming, 1, n))
    BY <1>5, Zenon DEF Receive
  <2>2. input' = input /\ mRequestHandle' = mRequestHandle
    BY <1>5 DEF Receive
  <2>3. incoming' \in Seq(G) /\ mRecvBuffer \o SubSeq(incoming, 1, n) \in Seq(G)
    BY <1>1, <2>1, PartsTyped, ConcatProperties
  <2>4. pipelined' \in BOOLEAN
    BY <2>1 DEF Types
  <2>5. QED BY <1>4, <2>1, <2>2, <2>3, <2>4
<1>6. CASE ReceiveTorn
  <2>1. PICK n \in DOMAIN incoming :
          /\ incoming' = <<Byte>> \o SubSeq(incoming, n + 1, Len(incoming))
          /\ pipelined' = (pipelined \/ \E i \in 2 .. n : IsStart(incoming[i]))
          /\ onMessage(Append(mRecvBuffer \o SubSeq(incoming, 1, n - 1), Byte))
    BY <1>6, Zenon DEF ReceiveTorn
  <2>2. input' = input /\ mRequestHandle' = mRequestHandle
    BY <1>6 DEF ReceiveTorn
  <2>3. <<Byte>> \in Seq(G)
    BY <1>2
  <2>4. incoming' \in Seq(G)
    BY <1>1, <2>1, <2>3, PartsTyped, ConcatProperties
  <2>5. mRecvBuffer \o SubSeq(incoming, 1, n - 1) \in Seq(G)
    BY <1>1, PartsTyped, ConcatProperties
  <2>6. Append(mRecvBuffer \o SubSeq(incoming, 1, n - 1), Byte) \in Seq(G)
    BY <1>2, <2>5, AppendProperties
  <2>7. pipelined' \in BOOLEAN
    BY <2>1 DEF Types
  <2>8. QED BY <1>4, <2>1, <2>2, <2>4, <2>6, <2>7
<1>7. QED BY <1>3, <1>5, <1>6 DEF Next

LEMMA AlwaysTypes == Spec => []Types
<1>1. QED BY InitTypes, StepTypes, PTL DEF Spec

(* Every variable of the connection keeps its type: what is handled is the *)
(* number of a request that was sent, for any requests in any fragments    *)
(* (HttpServer.cpp:43-75, HttpRequest.cpp:181-243).                        *)
THEOREM HttpTypeOK == Spec => []TypeOK
<1>1. Types => TypeOK
  <2> SUFFICES ASSUME Types PROVE TypeOK
    OBVIOUS
  <2>1. GoodToken(input) \subseteq Token
    BY DEF GoodToken
  <2>2. incoming \in Seq(Token) /\ mRecvBuffer \in Seq(Token)
    BY <2>1, SeqMonotonic DEF Types
  <2>3. encoding \in {"none", "NO_ENCODING", "GZIP", "DEFLATE"}
    BY DEF Types, FirstEncoding
  <2>4. QED BY <2>2, <2>3 DEF Types, TypeOK
<1>2. QED BY <1>1, AlwaysTypes, PTL

(* A response is encoded with what the client accepts, or with deflate for *)
(* br, whatever the list and however it is spaced (HttpResponse.cpp:74-86, *)
(* 190-199, HttpRequest.cpp:129-134, StringHelper.h:9-41).                 *)
THEOREM EncodingIsAccepted == Spec => []EncodingAccepted
<1>1. Types => EncodingAccepted
  <2> SUFFICES ASSUME Types PROVE EncodingAccepted
    OBVIOUS
  <2> DEFINE value == input.accept
             encodings == AcceptEncodings(value)
             list == split(strip(value), Comma)
             first == strip(list[1])
  <2>1. value \in Strings
    BY InputTypes DEF Types
  <2>2. encodings = [i \in DOMAIN list |-> to_encoding_type(strip(list[i]))]
    BY Zenon DEF AcceptEncodings, Comma
  <2>3. 1 \in DOMAIN list
    <3>1. strip(value) \in Strings
      BY <2>1, StripIsString
    <3>2. list \in Seq(Strings) /\ Len(list) >= 1
      BY <3>1, FirstPiece
    <3>3. DOMAIN list = 1 .. Len(list) /\ Len(list) \in Nat
      BY <3>2, LenProperties
    <3> HIDE DEF list
    <3>4. QED BY <3>2, <3>3
  <2>4. encodings[1] = to_encoding_type(first)
    <3> HIDE DEF list
    <3>1. QED BY <2>2, <2>3 DEF first
  <2>5. FirstEncoding => \/ encoding \in {"none", "NO_ENCODING"}
                         \/ encoding = "GZIP" /\ encodings[1] = "GZIP"
                         \/ encoding = "DEFLATE" /\ encodings[1] \notin {"GZIP", "NO_ENCODING"}
    BY DEF FirstEncoding
  <2>6. \A x : x # Blank /\ first = <<x>> => Listed(x, value)
    BY <2>1, FirstPieceIsListed
  <2> HIDE DEF value, encodings, list, first
  <2>7. /\ encodings[1] = "GZIP" => first = <<"gzip">>
        /\ encodings[1] \notin {"GZIP", "NO_ENCODING"} => first \in {<<"br">>, <<"deflate">>}
    BY <2>4 DEF to_encoding_type
  <2>8. /\ encoding = "GZIP" => Listed("gzip", value)
        /\ encoding = "DEFLATE" => Listed("deflate", value) \/ Listed("br", value)
    BY <2>5, <2>6, <2>7, Symbols DEF Types
  <2>9. QED BY <2>8 DEF EncodingAccepted, value
<1>2. QED BY <1>1, AlwaysTypes, PTL

-----------------------------------------------------------------------------
(* Where the tokens of a request stand.                                    *)
Header == [key : HeaderKeys, value : Int]
Start(r, n) == [key |-> r.method, value |-> n]
Layout(t, r, n) ==
    LET last == 2 * Len(r.headers) + 3 IN
    /\ Len(t) = last + r.body
    /\ t[1] = Start(r, n) /\ t[2] = CRLF
    /\ \A k \in 1 .. Len(r.headers) : t[2 * k + 1] = r.headers[k] /\ t[2 * k + 2] = CRLF
    /\ t[last] = CRLF
    /\ \A j \in 1 .. r.body : t[last + j] = Byte

(* Requests and their tokens.                                              *)
LEMMA RequestTypes ==
    ASSUME NEW r \in Request
    PROVE  /\ r.method \in Methods /\ r.headers \in Seq(Header) /\ r.body \in Nat
           /\ Len(r.headers) \in Nat /\ DOMAIN r.headers = 1 .. Len(r.headers)
           /\ \A k \in 1 .. Len(r.headers) : r.headers[k] \in Header
<1>1. r.method \in Methods /\ r.headers \in Seq(Header) /\ r.body \in Nat
  BY DEF Request, Header
<1>2. QED BY <1>1, LenProperties, ElementOfSeq

LEMMA TwoElements ==
    ASSUME NEW S, NEW x \in S, NEW y \in S
    PROVE  <<x, y>> \in Seq(S) /\ Len(<<x, y>>) = 2 /\ <<x, y>>[1] = x /\ <<x, y>>[2] = y
  OBVIOUS

LEMMA TokenKinds ==
    /\ CRLF \in Token /\ Byte \in Token /\ Header \subseteq Token
    /\ \A r \in Request, n \in Int : Start(r, n) \in Token
    /\ \A h \in Header : h # CRLF /\ ~IsStart(h) /\ h.key # "CRLF"
    /\ Byte # CRLF /\ ~IsStart(Byte) /\ ~IsStart(CRLF)
    /\ CRLF.key = "CRLF"
    /\ \A r \in Request, n \in Int : Start(r, n) # CRLF /\ IsStart(Start(r, n))
<1>1. CRLF \in Token /\ Byte \in Token /\ Header \subseteq Token
  BY DEF Token, CRLF, Byte, Header, OtherKeys
<1>2. \A r \in Request, n \in Int : Start(r, n) \in Token
  BY DEF Token, Start, Request, OtherKeys
<1>3. \A h \in Header : h.key \notin OtherKeys
  BY DEF Header, HeaderKeys
<1>4. CRLF.key = "CRLF" /\ Byte.key = "byte" /\ CRLF.key # Byte.key
  BY DEF CRLF, Byte
<1>5. "CRLF" \in OtherKeys /\ "CRLF" \notin Methods /\ "byte" \notin Methods /\ Methods \subseteq OtherKeys
  BY DEF OtherKeys, Methods
<1>6. \A r \in Request, n \in Int : Start(r, n).key \in Methods
  BY DEF Start, Request
<1>7. QED BY <1>1, <1>2, <1>3, <1>4, <1>5, <1>6 DEF IsStart

(* Where the tokens of the headers stand.                                  *)
LEMMA PairsLayout ==
    ASSUME NEW r \in Request
    PROVE  LET p == HeaderTokens(r) IN
           /\ p \in Seq(Token)
           /\ Len(p) = 2 * Len(r.headers)
           /\ \A k \in 1 .. Len(r.headers) : p[2 * k - 1] = r.headers[k] /\ p[2 * k] = CRLF
<1> DEFINE H == Len(r.headers)
           pairs == [k \in DOMAIN r.headers |-> <<r.headers[k], CRLF>>]
           p == HeaderTokens(r)
<1>1. H \in Nat /\ DOMAIN r.headers = 1 .. H /\ \A k \in 1 .. H : r.headers[k] \in Token
  BY RequestTypes, TokenKinds
<1>2. \A k \in 1 .. H : /\ <<r.headers[k], CRLF>> \in Seq(Token)
                        /\ Len(<<r.headers[k], CRLF>>) = 2
                        /\ <<r.headers[k], CRLF>>[1] = r.headers[k]
                        /\ <<r.headers[k], CRLF>>[2] = CRLF
  BY <1>1, TokenKinds, TwoElements
<1>3. \A k \in 1 .. H : pairs[k] = <<r.headers[k], CRLF>>
  BY <1>1
<1>4. pairs \in Seq(Seq(Token)) /\ Len(pairs) = H
  <2>1. pairs \in [1 .. H -> Seq(Token)]
    BY <1>1, <1>2
  <2> HIDE DEF pairs
  <2>2. QED BY <1>1, <2>1, FunctionIsSeq
<1>5. p = FlattenSeq(pairs)
  BY DEF HeaderTokens
<1> HIDE DEF pairs, p
<1>6. p \in Seq(Token)
  BY <1>4, <1>5, FlattenProperties
<1>7. PICK off : Offsets(pairs, p, H, off)
  BY <1>4, <1>5, FlattenProperties
<1>8. /\ off[0] = 0 /\ Len(p) = off[H] /\ \A k \in 0 .. H : off[k] \in Nat
      /\ \A k \in 1 .. H : /\ off[k] = off[k - 1] + 2
                           /\ p[off[k - 1] + 1] = r.headers[k]
                           /\ p[off[k - 1] + 2] = CRLF
  <2>1. \A k \in 1 .. H :
          /\ off[k] = off[k - 1] + Len(pairs[k])
          /\ \A j \in 1 .. Len(pairs[k]) : p[off[k - 1] + j] = pairs[k][j]
    BY <1>7 DEF Offsets
  <2>2. \A k \in 1 .. H : Len(pairs[k]) = 2 /\ pairs[k][1] = r.headers[k] /\ pairs[k][2] = CRLF
    BY <1>2, <1>3
  <2>3. 1 \in 1 .. 2 /\ 2 \in 1 .. 2
    OBVIOUS
  <2>4. \A k \in 1 .. H : /\ off[k] = off[k - 1] + 2
                          /\ \A j \in 1 .. 2 : p[off[k - 1] + j] = pairs[k][j]
    BY <2>1, <2>2
  <2>5. \A k \in 1 .. H : /\ off[k] = off[k - 1] + 2
                          /\ p[off[k - 1] + 1] = r.headers[k]
                          /\ p[off[k - 1] + 2] = CRLF
    BY <2>2, <2>3, <2>4
  <2>6. off[0] = 0 /\ Len(p) = off[H] /\ \A k \in 0 .. H : off[k] \in Nat
    BY <1>7 DEF Offsets
  <2>7. QED BY <2>5, <2>6
<1>9. \A k \in 0 .. H : off[k] = 2 * k
  <2> DEFINE S == {k \in Nat : k <= H => off[k] = 2 * k}
  <2>1. 0 \in S
    BY <1>8
  <2>2. ASSUME NEW k \in Nat, k \in S PROVE k + 1 \in S
    <3>1. ASSUME NEW i, i = k + 1, i <= H PROVE off[i] = 2 * i
      <4>1. i \in 1 .. H /\ i - 1 = k /\ off[k] = 2 * k
        BY <1>1, <2>2, <3>1
      <4>2. QED BY <1>8, <3>1, <4>1
    <3>2. QED BY <3>1
  <2> HIDE DEF S
  <2>3. Nat \subseteq S
    BY <2>1, <2>2, NatSetInduction
  <2>4. QED BY <1>1, <2>3 DEF S
<1>10. ASSUME NEW k \in 1 .. H PROVE p[2 * k - 1] = r.headers[k] /\ p[2 * k] = CRLF
  <2>1. k - 1 \in 0 .. H /\ 2 * (k - 1) + 1 = 2 * k - 1 /\ 2 * (k - 1) + 2 = 2 * k
    BY <1>1
  <2>2. off[k - 1] = 2 * (k - 1)
    BY <1>9, <2>1
  <2>3. off[k - 1] + 1 = 2 * k - 1 /\ off[k - 1] + 2 = 2 * k
    BY <2>1, <2>2
  <2>4. p[off[k - 1] + 1] = r.headers[k] /\ p[off[k - 1] + 2] = CRLF
    BY <1>8
  <2>5. QED BY <2>3, <2>4
<1>11. Len(p) = 2 * H
  BY <1>1, <1>8, <1>9
<1>12. QED BY <1>6, <1>10, <1>11 DEF p

(* Where the tokens of a request stand.                                    *)
LEMMA TokensLayout ==
    ASSUME NEW r \in Request, NEW n \in Nat
    PROVE  Tokens(r, n) \in Seq(Token) /\ Layout(Tokens(r, n), r, n)
<1> DEFINE H == Len(r.headers)
           a == <<Start(r, n), CRLF>>
           p == HeaderTokens(r)
           b == <<CRLF>>
           c == BodyTokens(r)
           t == Tokens(r, n)
<1>1. H \in Nat /\ r.body \in Nat
  BY RequestTypes
<1>2. a \in Seq(Token) /\ Len(a) = 2 /\ a[1] = Start(r, n) /\ a[2] = CRLF
  BY TokenKinds, TwoElements
<1>3. b \in Seq(Token) /\ Len(b) = 1 /\ b[1] = CRLF
  BY TokenKinds, OneElement
<1>4. c \in Seq(Token) /\ Len(c) = r.body /\ \A j \in 1 .. r.body : c[j] = Byte
  <2>1. c \in [1 .. r.body -> Token] /\ \A j \in 1 .. r.body : c[j] = Byte
    BY TokenKinds DEF BodyTokens
  <2> HIDE DEF c
  <2>2. QED BY <1>1, <2>1, FunctionIsSeq
<1>5. /\ p \in Seq(Token) /\ Len(p) = 2 * H
      /\ \A k \in 1 .. H : p[2 * k - 1] = r.headers[k] /\ p[2 * k] = CRLF
  BY PairsLayout
<1>6. t = ((a \o p) \o b) \o c
  BY Zenon DEF Tokens, Start, HeaderTokens, BodyTokens
<1> HIDE DEF a, p, b, c, t
<1> DEFINE ap == a \o p
           apb == ap \o b
<1>7. ap \in Seq(Token) /\ Len(ap) = 2 + 2 * H
  <2>1. ap \in Seq(Token) /\ Len(ap) = Len(a) + Len(p)
    BY <1>2, <1>5, ConcatProperties, Zenon
  <2>2. QED BY <1>2, <1>5, <2>1
<1>8. ap[1] = Start(r, n) /\ ap[2] = CRLF
  <2>1. 1 \in 1 .. Len(a) /\ 2 \in 1 .. Len(a)
    BY <1>2
  <2>2. \A i \in 1 .. Len(a) : ap[i] = a[i]
    BY <1>2, <1>5, ConcatEarlier, Zenon
  <2>3. QED BY <1>2, <2>1, <2>2
<1>9. ASSUME NEW k \in 1 .. H PROVE ap[2 * k + 1] = r.headers[k] /\ ap[2 * k + 2] = CRLF
  <2>1. 2 * k - 1 \in 1 .. Len(p) /\ 2 * k \in 1 .. Len(p)
    BY <1>1, <1>5
  <2>2. \A j \in 1 .. Len(p) : ap[Len(a) + j] = p[j]
    <3>1. a \in Seq(Token) /\ p \in Seq(Token)
      BY <1>2, <1>5
    <3>2. QED BY <3>1, ConcatLater
  <2>3. Len(a) + (2 * k - 1) = 2 * k + 1 /\ Len(a) + 2 * k = 2 * k + 2
    BY <1>2
  <2>4. ap[Len(a) + (2 * k - 1)] = p[2 * k - 1] /\ ap[Len(a) + 2 * k] = p[2 * k]
    BY <2>1, <2>2
  <2> HIDE DEF ap
  <2>5. QED BY <1>5, <2>3, <2>4
<1> HIDE DEF ap
<1>10. apb \in Seq(Token) /\ Len(apb) = 2 * H + 3
  <2>1. apb \in Seq(Token) /\ Len(apb) = Len(ap) + Len(b)
    BY <1>3, <1>7, ConcatProperties, Zenon
  <2>2. QED BY <1>1, <1>3, <1>7, <2>1
<1>11. \A i \in 1 .. 2 + 2 * H : apb[i] = ap[i]
  <2>1. \A i \in 1 .. Len(ap) : apb[i] = ap[i]
    BY <1>3, <1>7, ConcatEarlier, Zenon
  <2>2. QED BY <1>7, <2>1
<1>12. apb[2 * H + 3] = CRLF
  <2>1. 1 \in 1 .. Len(b)
    BY <1>3
  <2>2. \A j \in 1 .. Len(b) : apb[Len(ap) + j] = b[j]
    BY <1>3, <1>7, ConcatLater
  <2>3. apb[Len(ap) + 1] = b[1]
    BY <2>1, <2>2
  <2>4. Len(ap) + 1 = 2 * H + 3
    BY <1>1, <1>7
  <2>5. QED BY <1>3, <2>3, <2>4
<1> HIDE DEF apb
<1>13. t = apb \o c
  BY <1>6 DEF apb, ap
<1>14. t \in Seq(Token) /\ Len(t) = 2 * H + 3 + r.body
  <2>1. t \in Seq(Token) /\ Len(t) = Len(apb) + Len(c)
    BY <1>4, <1>10, <1>13, ConcatProperties, Zenon
  <2>2. QED BY <1>4, <1>10, <2>1
<1>15. \A i \in 1 .. 2 * H + 3 : t[i] = apb[i]
  <2>1. \A i \in 1 .. Len(apb) : t[i] = apb[i]
    BY <1>4, <1>10, <1>13, ConcatEarlier, Zenon
  <2>2. QED BY <1>10, <2>1
<1>16. \A j \in 1 .. r.body : t[2 * H + 3 + j] = Byte
  <2>1. \A j \in 1 .. Len(c) : t[Len(apb) + j] = c[j]
    BY <1>4, <1>10, <1>13, ConcatLater
  <2>2. QED BY <1>4, <1>10, <2>1
<1>17. t[1] = Start(r, n) /\ t[2] = CRLF
  BY <1>1, <1>8, <1>11, <1>15
<1>18. ASSUME NEW k \in 1 .. H PROVE t[2 * k + 1] = r.headers[k] /\ t[2 * k + 2] = CRLF
  <2>1. /\ 2 * k + 1 \in 1 .. 2 + 2 * H /\ 2 * k + 2 \in 1 .. 2 + 2 * H
        /\ 2 * k + 1 \in 1 .. 2 * H + 3 /\ 2 * k + 2 \in 1 .. 2 * H + 3
    BY <1>1
  <2>2. QED BY <1>9, <1>11, <1>15, <2>1
<1>19. t[2 * H + 3] = CRLF
  BY <1>1, <1>12, <1>15
<1>20. QED BY <1>14, <1>16, <1>17, <1>18, <1>19 DEF Layout, t

-----------------------------------------------------------------------------
(* What the parser finds in the first tokens of a request.                 *)
Prefix(packet, t) ==
    /\ Len(packet) >= 1 /\ Len(packet) <= Len(t)
    /\ \A j \in 1 .. Len(packet) : packet[j] = t[j]

LEMMA EvenOrOdd == \A i \in Nat : \E k \in Nat : i = 2 * k \/ i = 2 * k + 1
<1> DEFINE S == {i \in Nat : \E k \in Nat : i = 2 * k \/ i = 2 * k + 1}
<1>1. 0 \in S
  OBVIOUS
<1>2. ASSUME NEW i \in Nat, i \in S PROVE i + 1 \in S
  <2>1. PICK k \in Nat : i = 2 * k \/ i = 2 * k + 1
    BY <1>2
  <2>2. CASE i = 2 * k
    <3>1. i + 1 = 2 * k + 1
      BY <2>2
    <3>2. QED BY <3>1
  <2>3. CASE i = 2 * k + 1
    <3>1. PICK j \in Nat : j = k + 1
      OBVIOUS
    <3>2. i + 1 = 2 * j
      BY <2>3, <3>1
    <3>3. QED BY <3>2
  <2>4. QED BY <2>1, <2>2, <2>3
<1> HIDE DEF S
<1>3. Nat \subseteq S
  BY <1>1, <1>2, NatSetInduction
<1>4. QED BY <1>3 DEF S

(* The places between the request line and the blank line.                 *)
LEMMA HeaderPlaces ==
    ASSUME NEW h \in Nat, NEW i \in 3 .. 2 * h + 2
    PROVE  \E k \in 1 .. h : i = 2 * k + 1 \/ i = 2 * k + 2
<1>1. PICK a \in Nat : i = 2 * a \/ i = 2 * a + 1
  <2>1. i \in Nat
    OBVIOUS
  <2>2. QED BY <2>1, EvenOrOdd
<1>2. CASE i = 2 * a
  <2>1. a - 1 \in 1 .. h /\ i = 2 * (a - 1) + 2
    BY <1>2
  <2>2. QED BY <2>1
<1>3. CASE i = 2 * a + 1
  <2>1. a \in 1 .. h
    BY <1>3
  <2>2. QED BY <1>3, <2>1
<1>4. QED BY <1>1, <1>2, <1>3

(* The CRLF of a prefix stand behind its lines.                            *)
LEMMA CrlfPlaces ==
    ASSUME NEW r \in Request, NEW n \in Nat, NEW t, Layout(t, r, n),
           NEW packet \in Seq(Token), Prefix(packet, t)
    PROVE  LET H == Len(r.headers) IN
           /\ CrlfsOf(packet) \subseteq 1 .. Len(packet)
           /\ 1 \notin CrlfsOf(packet)
           /\ 2 <= Len(packet) => 2 \in CrlfsOf(packet)
           /\ \A i \in CrlfsOf(packet) : i >= 3 /\ i + 1 \in CrlfsOf(packet) => i = 2 * H + 2
           /\ 2 * H + 3 <= Len(packet) =>
                 2 * H + 2 \in CrlfsOf(packet) /\ 2 * H + 3 \in CrlfsOf(packet)
<1> DEFINE H == Len(r.headers)
           m == Len(packet)
           C == CrlfsOf(packet)
<1>1. /\ H \in Nat /\ r.body \in Nat /\ m \in Nat /\ DOMAIN packet = 1 .. m
      /\ \A k \in 1 .. H : r.headers[k] # CRLF
      /\ Byte # CRLF /\ Start(r, n) # CRLF
  BY RequestTypes, TokenKinds, LenProperties
<1>2. /\ m >= 1 /\ m <= 2 * H + 3 + r.body
      /\ \A j \in 1 .. m : j \in C <=> t[j] = CRLF
      /\ C \subseteq 1 .. m
  BY <1>1 DEF Prefix, Layout, CrlfsOf
<1>3. /\ t[1] = Start(r, n) /\ t[2] = CRLF
      /\ \A k \in 1 .. H : t[2 * k + 1] = r.headers[k] /\ t[2 * k + 2] = CRLF
      /\ t[2 * H + 3] = CRLF
      /\ \A j \in 1 .. r.body : t[2 * H + 3 + j] = Byte
  BY DEF Layout
<1> HIDE DEF H, m, C
<1>4. 1 \notin C
  BY <1>1, <1>2, <1>3
<1>5. 2 <= m => 2 \in C
  BY <1>1, <1>2, <1>3
<1>6. ASSUME NEW i \in 2 * H + 4 .. m PROVE i \notin C
  <2>1. i - (2 * H + 3) \in 1 .. r.body /\ 2 * H + 3 + (i - (2 * H + 3)) = i /\ i \in 1 .. m
    BY <1>1, <1>2
  <2>2. t[i] = Byte
    BY <1>3, <2>1
  <2>3. QED BY <1>1, <1>2, <2>1, <2>2
<1>7. ASSUME NEW k \in 1 .. H PROVE 2 * k + 1 \notin C
  <2>1. t[2 * k + 1] # CRLF
    BY <1>1, <1>3
  <2>2. QED BY <1>2, <2>1
<1>8. ASSUME NEW i \in C, i >= 3, i + 1 \in C PROVE i = 2 * H + 2
  <2>1. i \in 1 .. m /\ i + 1 \in 1 .. m
    BY <1>2, <1>8
  <2>2. i \notin 2 * H + 4 .. m /\ i + 1 \notin 2 * H + 4 .. m
    BY <1>6, <1>8
  <2>3. i \in 3 .. 2 * H + 2
    BY <1>1, <1>8, <2>1, <2>2
  <2>4. PICK k \in 1 .. H : i = 2 * k + 1 \/ i = 2 * k + 2
    BY <1>1, <2>3, HeaderPlaces
  <2>5. i = 2 * k + 2
    BY <1>7, <2>4
  <2>6. CASE k = H
    BY <2>5, <2>6
  <2>7. CASE k # H
    <3>1. k + 1 \in 1 .. H /\ i + 1 = 2 * (k + 1) + 1
      BY <1>1, <2>5, <2>7
    <3>2. 2 * (k + 1) + 1 \notin C
      BY <1>7, <3>1
    <3>3. QED BY <1>8, <3>1, <3>2
  <2>8. QED BY <2>6, <2>7
<1>9. ASSUME 2 * H + 3 <= m PROVE 2 * H + 2 \in C /\ 2 * H + 3 \in C
  <2>1. 2 * H + 2 \in 1 .. m /\ 2 * H + 3 \in 1 .. m
    BY <1>1, <1>9
  <2>2. t[2 * H + 2] = CRLF
    <3>1. CASE H = 0
      BY <1>3, <3>1
    <3>2. CASE H # 0
      <4>1. H \in 1 .. H
        BY <1>1, <3>2
      <4>2. QED BY <1>3, <4>1
    <3>3. QED BY <3>1, <3>2
  <2>3. QED BY <1>2, <1>3, <2>1, <2>2
<1>10. QED BY <1>2, <1>4, <1>5, <1>8, <1>9 DEF H, m, C

(* The request line of a prefix ends at its second token.                  *)
LEMMA LineEndOfPrefix ==
    ASSUME NEW r \in Request, NEW n \in Nat, NEW t, Layout(t, r, n),
           NEW packet \in Seq(Token), Prefix(packet, t)
    PROVE  LineEnd(packet) = 2
<1> DEFINE C == CrlfsOf(packet)
           e == LineEnd(packet)
<1>1. Len(packet) \in Nat /\ Len(packet) >= 1 /\ npos(packet) = Len(packet) + 1
  BY LenProperties DEF Prefix, npos
<1>2. e \in 1 .. npos(packet) /\ e \in C \cup {npos(packet)} /\ C \cap (1 .. e - 1) = {}
  <2>1. 1 \in 1 .. npos(packet)
    BY <1>1
  <2>2. QED BY <1>1, <2>1, FindFromIsFirst DEF LineEnd
<1>3. 1 \notin C /\ (2 <= Len(packet) => 2 \in C)
  BY CrlfPlaces
<1> HIDE DEF C, e
<1>4. e # 1
  BY <1>1, <1>2, <1>3
<1>5. e <= 2
  <2>1. CASE 2 <= Len(packet)
    <3>1. ~(2 \in 1 .. e - 1)
      BY <1>2, <1>3, <2>1
    <3>2. QED BY <1>1, <1>2, <3>1
  <2>2. CASE Len(packet) < 2
    BY <1>1, <1>2, <2>2
  <2>3. QED BY <1>1, <2>1, <2>2
<1>6. QED BY <1>1, <1>2, <1>4, <1>5 DEF e

(* The blank line of a prefix is found when its headers are complete, and  *)
(* not before.                                                             *)
LEMMA HeadersEndOfPrefix ==
    ASSUME NEW r \in Request, NEW n \in Nat, NEW t, Layout(t, r, n), Len(r.headers) >= 1,
           NEW packet \in Seq(Token), Prefix(packet, t), Len(packet) >= 2
    PROVE  HeadersEnd(packet) = IF 2 * Len(r.headers) + 3 <= Len(packet)
                                THEN 2 * Len(r.headers) + 2 ELSE npos(packet)
<1> DEFINE H == Len(r.headers)
           C == CrlfsOf(packet)
           B == {i \in C : i + 1 \in C}
           e == HeadersEnd(packet)
<1>1. /\ Len(packet) \in Nat /\ npos(packet) = Len(packet) + 1 /\ H \in Nat /\ H >= 1
      /\ Len(packet) >= 2
  BY LenProperties, RequestTypes DEF npos
<1>2. e \in 3 .. npos(packet) /\ e \in B \cup {npos(packet)} /\ B \cap (3 .. e - 1) = {}
  <2>1. 3 \in 1 .. npos(packet)
    BY <1>1
  <2>2. LineEnd(packet) + 1 = 3
    BY LineEndOfPrefix
  <2>3. e = FindFrom(packet, 3, B)
    BY <2>2, Zenon DEF HeadersEnd
  <2> HIDE DEF e, B
  <2>4. QED BY <1>1, <2>1, <2>3, FindFromIsFirst
<1>3. /\ C \subseteq 1 .. Len(packet)
      /\ \A i \in C : i >= 3 /\ i + 1 \in C => i = 2 * H + 2
      /\ 2 * H + 3 <= Len(packet) => 2 * H + 2 \in C /\ 2 * H + 3 \in C
  BY CrlfPlaces
<1> HIDE DEF C, e, H
<1>4. CASE 2 * H + 3 <= Len(packet)
  <2>1. 2 * H + 2 \in B
    BY <1>1, <1>3, <1>4
  <2>2. e <= 2 * H + 2
    <3>1. 2 * H + 2 \notin 3 .. e - 1
      BY <1>2, <2>1
    <3>2. e \in Int
      BY <1>1, <1>2
    <3> HIDE DEF B
    <3>3. QED BY <1>1, <3>1, <3>2
  <2>3. e \in B
    BY <1>1, <1>2, <1>4, <2>2
  <2>4. e = 2 * H + 2
    BY <1>1, <1>2, <1>3, <2>3
  <2>5. QED BY <1>4, <2>4 DEF e, H
<1>5. CASE ~(2 * H + 3 <= Len(packet))
  <2>1. e \notin B
    <3>1. SUFFICES ASSUME e \in B PROVE FALSE
      OBVIOUS
    <3>2. e = 2 * H + 2 /\ e + 1 \in 1 .. Len(packet)
      BY <1>1, <1>2, <1>3, <3>1
    <3>3. QED BY <1>1, <1>5, <3>2
  <2>2. QED BY <1>2, <1>5, <2>1 DEF e, H
<1>6. QED BY <1>4, <1>5

(* The same of a sequence of tokens.                                       *)
FirstAt(key, s, j) ==
    /\ s[j].key = key
    /\ \A l \in 1 .. Len(s) : s[l].key = key => j <= l
    /\ ValueOf(key, s) = s[j].value

LEMMA FirstOfTokens ==
    ASSUME NEW hs \in Seq(Token), NEW key, key \in Keys(hs)
    PROVE  \E j \in 1 .. Len(hs) : FirstAt(key, hs, j)
<1> HIDE DEF Token
<1>1. QED BY ValueOfFirst DEF FirstAt

(* A header has the same value among the headers of a packet as in the     *)
(* request.                                                                *)
LEMMA SameValue ==
    ASSUME NEW headers \in Seq(Header), NEW hs \in Seq(Token), Len(hs) = 2 * Len(headers),
           \A k \in 1 .. Len(headers) : hs[2 * k - 1] = headers[k] /\ hs[2 * k] = CRLF,
           NEW key \in Keys(headers), key # "CRLF"
    PROVE  key \in Keys(hs) /\ ValueOf(key, hs) = ValueOf(key, headers)
<1> DEFINE H == Len(headers)
<1>1. H \in Nat /\ DOMAIN headers = 1 .. H /\ DOMAIN hs = 1 .. 2 * H
  BY LenProperties
<1>2. PICK i \in 1 .. H :
          /\ headers[i].key = key
          /\ \A j \in 1 .. H : headers[j].key = key => i <= j
          /\ ValueOf(key, headers) = headers[i].value
  BY ValueOfFirst
<1>3. 2 * i - 1 \in 1 .. 2 * H /\ hs[2 * i - 1] = headers[i]
  BY <1>1
<1>4. key \in Keys(hs)
  <2>1. hs[2 * i - 1].key = key
    BY <1>2, <1>3
  <2>2. QED BY <1>1, <1>3, <2>1 DEF Keys
<1>5. PICK j \in 1 .. Len(hs) :
          /\ hs[j].key = key
          /\ \A l \in 1 .. Len(hs) : hs[l].key = key => j <= l
          /\ ValueOf(key, hs) = hs[j].value
  <2>1. PICK j \in 1 .. Len(hs) : FirstAt(key, hs, j)
    BY <1>4, FirstOfTokens
  <2>2. QED BY <2>1 DEF FirstAt
<1>6. j <= 2 * i - 1
  BY <1>2, <1>3, <1>5
<1>7. j = 2 * i - 1
  <2>1. j \in Nat
    BY <1>1
  <2>2. PICK a \in Nat : j = 2 * a \/ j = 2 * a + 1
    BY <2>1, EvenOrOdd
  <2>3. CASE j = 2 * a
    <3>1. a \in 1 .. H
      BY <1>1, <2>3
    <3>2. hs[j] = CRLF
      BY <2>3, <3>1
    <3>3. QED BY <1>5, <3>2, TokenKinds
  <2>4. CASE j = 2 * a + 1
    <3>1. PICK b \in 1 .. H : j = 2 * b - 1
      <4>1. a + 1 \in 1 .. H
        BY <1>1, <2>4
      <4>2. PICK b \in 1 .. H : b = a + 1
        BY <4>1
      <4>3. j = 2 * b - 1
        BY <2>4, <4>2
      <4>4. QED BY <4>3
    <3>2. hs[j] = headers[b]
      BY <3>1
    <3>3. i <= b
      BY <1>2, <1>5, <3>2
    <3>4. QED BY <1>1, <1>6, <3>1, <3>3
  <2>5. QED BY <2>2, <2>3, <2>4
<1>8. QED BY <1>2, <1>3, <1>4, <1>5, <1>7

(* The method and the number of a prefix are those of the request.         *)
LEMMA TypeOfPrefix ==
    ASSUME NEW r \in Request, NEW n \in Nat, NEW t, Layout(t, r, n), r.method \in {"GET", "POST"},
           NEW packet \in Seq(Token), Prefix(packet, t)
    PROVE  TypeOf(packet) = r.method /\ ValueOf(r.method, packet) = n
<1> DEFINE line == SubSeq(packet, 1, 1)
<1>1. Len(packet) \in Nat /\ Len(packet) >= 1 /\ packet[1] = Start(r, n)
      /\ DOMAIN packet = 1 .. Len(packet)
  BY LenProperties DEF Prefix, Layout
<1>2. Len(line) = 1 /\ line[1] = packet[1] /\ DOMAIN line = 1 .. 1
  <2>1. 1 \in 1 .. Len(packet) + 1 /\ 1 \in 0 .. Len(packet) /\ 1 \in 1 .. 1 - 1 + 1
    BY <1>1
  <2>2. /\ line \in Seq(Token)
        /\ Len(line) = IF 1 <= 1 THEN 1 - 1 + 1 ELSE 0
        /\ \A i \in 1 .. 1 - 1 + 1 : line[i] = packet[1 + i - 1]
    BY <2>1, PartOfSeq, Zenon
  <2> HIDE DEF line
  <2>3. QED BY <2>2, LenProperties
<1> HIDE DEF line
<1>3. Start(r, n).key = r.method /\ Start(r, n).value = n
  BY DEF Start
<1>4. Keys(line) = {r.method}
  BY <1>1, <1>2, <1>3 DEF Keys
<1>5. LineEnd(packet) - 1 = 1
  BY LineEndOfPrefix
<1>6. TypeOf(packet) = parseStartLine(line)
  BY <1>5, Zenon DEF TypeOf, line
<1>7. parseStartLine(line) = r.method
  BY <1>4 DEF parseStartLine
<1>8. 1 \in 1 .. Len(packet)
  BY <1>1
<1>9. r.method \in Keys(packet)
  BY <1>1, <1>3, <1>8 DEF Keys
<1>10. PICK i \in 1 .. Len(packet) :
              /\ \A j \in 1 .. Len(packet) : packet[j].key = r.method => i <= j
              /\ ValueOf(r.method, packet) = packet[i].value
  BY <1>9, ValueOfFirst
<1>11. i = 1
  BY <1>1, <1>3, <1>8, <1>10
<1>12. QED BY <1>1, <1>3, <1>6, <1>7, <1>10, <1>11

(* A well-formed request is accepted as soon as it is complete, and not    *)
(* before.                                                                 *)
LEMMA WellFormedParse ==
    ASSUME NEW r \in Request, NEW n \in Nat, NEW t, Layout(t, r, n), WellFormed(r),
           NEW packet \in Seq(Token), Prefix(packet, t)
    PROVE  LET request == parseHttpRequest(packet) IN
           /\ request.error = "none" <=> Len(packet) = Len(t)
           /\ request.error = "none" => request.number = n
<1> DEFINE H == Len(r.headers)
           m == Len(packet)
           hs == HeadersOf(packet)
<1>1. /\ H \in Nat /\ H >= 1 /\ r.body \in Nat /\ m \in Nat /\ m >= 1
      /\ Len(t) = 2 * H + 3 + r.body /\ m <= Len(t)
      /\ npos(packet) = m + 1
  <2>1. H \in Nat /\ r.body \in Nat /\ m \in Nat
    BY RequestTypes, LenProperties
  <2>2. H # 0
    BY RequestTypes, EmptySeq DEF WellFormed
  <2>3. QED BY <2>1, <2>2 DEF Layout, Prefix, npos
<1>2. r.method \in {"GET", "POST"}
  BY DEF WellFormed
<1>3. TypeOf(packet) = r.method /\ ValueOf(r.method, packet) = n
  BY <1>2, TypeOfPrefix
<1>4. LineEnd(packet) = 2
  BY LineEndOfPrefix
<1>5. CASE m < 2 * H + 3
  <2>1. Refused(packet)
    <3>1. CASE m = 1
      BY <1>1, <1>4, <3>1 DEF Refused
    <3>2. CASE m >= 2
      <4>1. HeadersEnd(packet) = npos(packet)
        BY <1>1, <1>5, <3>2, HeadersEndOfPrefix
      <4>2. QED BY <4>1 DEF Refused
    <3>3. m = 1 \/ m >= 2
      <4>1. m \in Nat /\ m >= 1
        BY <1>1
      <4> HIDE DEF m
      <4>2. QED BY <4>1
    <3>4. QED BY <3>1, <3>2, <3>3
  <2>2. m # Len(t)
    BY <1>1, <1>5
  <2>3. QED BY <2>1, <2>2, Accepted
<1>6. CASE m >= 2 * H + 3
  <2>1. HeadersEnd(packet) = 2 * H + 2
    BY <1>1, <1>6, HeadersEndOfPrefix
  <2>2. hs = SubSeq(packet, 3, 2 * H + 2)
    <3>1. LineEnd(packet) + 1 = 3
      BY <1>4
    <3>2. QED BY <2>1, <3>1, Zenon DEF HeadersOf
  <2> HIDE DEF hs
  <2>3. /\ hs \in Seq(Token)
        /\ Len(hs) = 2 * H
        /\ \A i \in 1 .. 2 * H : hs[i] = packet[i + 2]
    <3>1. 3 \in 1 .. Len(packet) + 1 /\ 2 * H + 2 \in 0 .. Len(packet)
      BY <1>1, <1>6
    <3>2. /\ hs \in Seq(Token)
          /\ Len(hs) = IF 3 <= 2 * H + 2 THEN 2 * H + 2 - 3 + 1 ELSE 0
          /\ \A i \in 1 .. 2 * H + 2 - 3 + 1 : hs[i] = packet[3 + i - 1]
      BY <2>2, <3>1, PartOfSeq
    <3>3. 2 * H + 2 - 3 + 1 = 2 * H /\ 3 <= 2 * H + 2 /\ \A i \in 1 .. 2 * H : 3 + i - 1 = i + 2
      BY <1>1
    <3>4. QED BY <3>2, <3>3
  <2>4. ASSUME NEW k \in 1 .. H PROVE hs[2 * k - 1] = r.headers[k] /\ hs[2 * k] = CRLF
    <3>1. /\ 2 * k - 1 \in 1 .. 2 * H /\ 2 * k \in 1 .. 2 * H
          /\ 2 * k - 1 + 2 = 2 * k + 1 /\ 2 * k + 1 \in 1 .. m /\ 2 * k + 2 \in 1 .. m
      BY <1>1, <1>6
    <3>2. hs[2 * k - 1] = packet[2 * k + 1] /\ hs[2 * k] = packet[2 * k + 2]
      BY <2>3, <3>1
    <3>3. packet[2 * k + 1] = t[2 * k + 1] /\ packet[2 * k + 2] = t[2 * k + 2]
      BY <3>1 DEF Prefix
    <3>4. t[2 * k + 1] = r.headers[k] /\ t[2 * k + 2] = CRLF
      BY DEF Layout
    <3>5. QED BY <3>2, <3>3, <3>4
  <2>5. Len(BodyOf(packet)) = m - (2 * H + 3)
    <3>1. HeadersEnd(packet) + 2 \in 1 .. Len(packet) + 1 /\ Len(packet) \in 0 .. Len(packet)
          /\ HeadersEnd(packet) + 2 = 2 * H + 4
      BY <1>1, <1>6, <2>1
    <3>2. Len(BodyOf(packet)) = IF HeadersEnd(packet) + 2 <= Len(packet)
                                THEN Len(packet) - (HeadersEnd(packet) + 2) + 1 ELSE 0
      BY <3>1, PartOfSeq DEF BodyOf
    <3>3. QED BY <1>1, <1>6, <3>1, <3>2
  <2>6. CASE r.method = "GET" /\ r.body = 0
    <3>1. ~BadHeaders(TypeOf(packet), hs) /\ BodyComplete(TypeOf(packet), hs, BodyOf(packet))
      BY <1>3, <2>6 DEF BadHeaders, BodyComplete
    <3>2. ~Refused(packet)
      BY <1>1, <1>3, <1>4, <1>6, <2>1, <2>6, <3>1 DEF Refused, hs
    <3>3. m = Len(t)
      BY <1>1, <1>6, <2>6
    <3>4. QED BY <1>3, <3>1, <3>2, <3>3, Accepted DEF hs
  <2>7. CASE /\ r.method = "POST"
             /\ {"Content-Type", "Content-Length"} \subseteq Keys(r.headers)
             /\ ValueOf("Content-Type", r.headers) = KnownType
             /\ ValueOf("Content-Length", r.headers) = r.body
    <3>1. \A key \in {"Content-Type", "Content-Length"} :
              key \in Keys(hs) /\ ValueOf(key, hs) = ValueOf(key, r.headers)
      BY <2>3, <2>4, <2>7, RequestTypes, SameValue
    <3>2. ContentLength(hs) = r.body
      BY <2>7, <3>1 DEF ContentLength
    <3>3. ~BadHeaders(TypeOf(packet), hs)
      <4>1. ValueOf("Content-Type", hs) # UnknownType
        BY <2>7, <3>1 DEF KnownType, UnknownType
      <4>2. ContentLength(hs) # NoNumber
        BY <1>1, <3>2 DEF NoNumber
      <4>3. QED BY <4>1, <4>2 DEF BadHeaders
    <3>4. BodyComplete(TypeOf(packet), hs, BodyOf(packet)) <=> m = Len(t)
      <4>1. BodyComplete(TypeOf(packet), hs, BodyOf(packet)) <=> Len(BodyOf(packet)) = r.body
        BY <1>3, <2>7, <3>2 DEF BodyComplete
      <4>2. Len(BodyOf(packet)) = r.body <=> m = Len(t)
        <5> HIDE DEF H, m
        <5>1. QED BY <1>1, <2>5
      <4>3. QED BY <4>1, <4>2
    <3>5. ~Refused(packet)
      BY <1>1, <1>3, <1>4, <1>6, <2>1, <2>7, <3>3 DEF Refused, hs
    <3>6. QED BY <1>3, <3>4, <3>5, Accepted DEF hs
  <2>8. QED BY <2>6, <2>7 DEF WellFormed
<1>7. QED BY <1>1, <1>5, <1>6

-----------------------------------------------------------------------------
(* All tokens that are sent, and where each request starts among them.     *)
Sent(i) == [n \in DOMAIN i.requests |-> Tokens(i.requests[n], n)]
All(i) == FlattenSeq(Sent(i))
Off(i) == CHOOSE off : Offsets(Sent(i), All(i), Len(i.requests), off)

(* Where each request starts among all tokens.                             *)
LEMMA SentLayout ==
    ASSUME NEW i \in Inputs
    PROVE  LET N == Len(i.requests)
               off == Off(i)
           IN  /\ N \in Nat /\ \A k \in 0 .. N : off[k] \in Nat
               /\ off[0] = 0 /\ Len(All(i)) = off[N]
               /\ \A k \in 1 .. N :
                     LET t == Tokens(i.requests[k], k) IN
                     /\ i.requests[k] \in Request
                     /\ t \in Seq(Token) /\ Layout(t, i.requests[k], k)
                     /\ Len(t) \in Nat /\ Len(t) >= 1 /\ IsStart(t[1])
                     /\ off[k] = off[k - 1] + Len(t)
                     /\ \A j \in 1 .. Len(t) : All(i)[off[k - 1] + j] = t[j]
                     /\ off[k] <= off[N]
<1> DEFINE N == Len(i.requests)
           off == Off(i)
           T(k) == Tokens(i.requests[k], k)
<1>1. N \in Nat /\ DOMAIN i.requests = 1 .. N
  BY InputTypes
<1>2. \A k \in 1 .. N : i.requests[k] \in Request
  BY InputTypes, ElementOfSeq
<1>3. ASSUME NEW k \in 1 .. N
      PROVE  /\ T(k) \in Seq(Token) /\ Layout(T(k), i.requests[k], k)
             /\ Len(T(k)) \in Nat /\ Len(T(k)) >= 1 /\ IsStart(T(k)[1])
  <2>1. T(k) \in Seq(Token) /\ Layout(T(k), i.requests[k], k)
    BY <1>1, <1>2, TokensLayout
  <2>2. Len(T(k)) = 2 * Len(i.requests[k].headers) + 3 + i.requests[k].body
        /\ T(k)[1] = Start(i.requests[k], k)
    BY <2>1 DEF Layout
  <2>3. Len(i.requests[k].headers) \in Nat /\ i.requests[k].body \in Nat
    BY <1>2, RequestTypes
  <2>4. IsStart(Start(i.requests[k], k))
    BY <1>2, TokenKinds
  <2> HIDE DEF T
  <2>5. QED BY <2>1, <2>2, <2>3, <2>4
<1>4. Sent(i) \in Seq(Seq(Token)) /\ Len(Sent(i)) = N
  <2>1. Sent(i) \in [1 .. N -> Seq(Token)]
    BY <1>1, <1>3 DEF Sent
  <2>2. QED BY <1>1, <2>1, FunctionIsSeq
<1>5. \A k \in 1 .. N : Sent(i)[k] = T(k)
  BY <1>1 DEF Sent
<1>6. Offsets(Sent(i), All(i), N, off)
  <2>1. \E o : Offsets(Sent(i), All(i), N, o)
    BY <1>4, FlattenProperties DEF All
  <2>2. QED BY <2>1, Zenon DEF Off
<1> HIDE DEF T, off
<1>7. /\ \A k \in 0 .. N : off[k] \in Nat
      /\ off[0] = 0 /\ Len(All(i)) = off[N]
      /\ \A k \in 1 .. N :
          /\ off[k] = off[k - 1] + Len(T(k))
          /\ \A j \in 1 .. Len(T(k)) : All(i)[off[k - 1] + j] = T(k)[j]
          /\ off[k] <= off[N]
  BY <1>5, <1>6 DEF Offsets
<1>8. QED BY <1>1, <1>2, <1>3, <1>7 DEF T, off

(* k requests have been handled and pos tokens received; what is in the    *)
(* buffer is the start of the next request.                                *)
At(k, pos) ==
    LET N == Len(input.requests)
        off == Off(input)
    IN  /\ k \in 0 .. N /\ pos \in Nat
        /\ handled = [n \in 1 .. k |-> n]
        /\ Len(incoming) = off[N] - pos
        /\ \A j \in 1 .. Len(incoming) : incoming[j] = All(input)[pos + j]
        /\ Len(mRecvBuffer) = pos - off[k]
        /\ \A j \in 1 .. Len(mRecvBuffer) : mRecvBuffer[j] = All(input)[off[k] + j]
        /\ off[k] <= pos /\ pos <= off[N]
        /\ k < N => pos < off[k + 1]

Undisturbed ==
    /\ ~pipelined /\ ~failure
    /\ \A i \in DOMAIN input.requests : WellFormed(input.requests[i])

HandledInOrder == Undisturbed => \E k, pos : At(k, pos)

(* A fragment without the start of a request after something else ends     *)
(* with the request that is being received at the latest.                  *)
LEMMA WithinRequest ==
    ASSUME Types, NEW k, NEW pos, At(k, pos), NEW n \in 1 .. Len(incoming),
           \A j \in 2 .. n : ~IsStart(incoming[j])
    PROVE  /\ k + 1 \in 1 .. Len(input.requests)
           /\ pos + n <= Off(input)[k + 1]
<1> DEFINE N == Len(input.requests)
           off == Off(input)
           T(i) == Tokens(input.requests[i], i)
<1>1. /\ N \in Nat /\ \A i \in 0 .. N : off[i] \in Nat
      /\ \A i \in 1 .. N : /\ off[i] = off[i - 1] + Len(T(i))
                           /\ \A j \in 1 .. Len(T(i)) : All(input)[off[i - 1] + j] = T(i)[j]
                           /\ Len(T(i)) \in Nat /\ Len(T(i)) >= 1 /\ IsStart(T(i)[1])
                           /\ off[i] <= off[N]
  BY SentLayout DEF Types
<1>2. /\ k \in 0 .. N /\ pos \in Nat
      /\ Len(incoming) = off[N] - pos
      /\ \A j \in 1 .. Len(incoming) : incoming[j] = All(input)[pos + j]
      /\ off[k] <= pos /\ pos <= off[N]
      /\ k < N => pos < off[k + 1]
  BY DEF At
<1> HIDE DEF N, off, T
<1>3. /\ off[N] \in Nat /\ pos \in Nat /\ n \in Nat /\ n >= 1 /\ pos + n <= off[N]
      /\ Len(incoming) \in Nat /\ n <= Len(incoming)
  BY <1>1, <1>2
<1>4. k < N
  <2>1. CASE k = N
    BY <1>2, <1>3, <2>1
  <2>2. QED BY <1>1, <1>2, <2>1
<1>5. PICK l \in 1 .. N : l = k + 1
  BY <1>1, <1>2, <1>4
<1>6. off[l] \in Nat /\ pos < off[l]
  BY <1>1, <1>2, <1>4, <1>5
<1>7. pos + n <= off[l]
  <2>1. SUFFICES ASSUME pos + n > off[l] PROVE FALSE
    BY <1>3, <1>6
  <2>2. l # N
    <3>1. off[l] # off[N]
      BY <1>3, <1>6, <2>1
    <3>2. QED BY <3>1
  <2>3. PICK q \in 1 .. N : q = l + 1
    BY <1>1, <1>5, <2>2
  <2>4. q - 1 = l /\ 1 \in 1 .. Len(T(q))
    BY <1>1, <2>3
  <2>5. All(input)[off[l] + 1] = T(q)[1] /\ IsStart(T(q)[1])
    BY <1>1, <2>3, <2>4
  <2>6. PICK j \in 2 .. n : j = off[l] + 1 - pos
    BY <1>2, <1>3, <1>6, <2>1
  <2>7. j \in 1 .. Len(incoming) /\ pos + j = off[l] + 1
    <3>1. j \in Int /\ 2 <= j /\ j <= n /\ j = off[l] + 1 - pos
      BY <1>3, <2>6
    <3>2. PICK o \in Nat : o = off[l]
      BY <1>6
    <3>3. j = o + 1 - pos /\ pos \in Nat /\ n \in Nat /\ n <= Len(incoming) /\ Len(incoming) \in Nat
      BY <1>3, <3>1, <3>2
    <3>4. pos + j = o + 1
      BY <3>1, <3>3
    <3>5. j \in 1 .. Len(incoming)
      BY <3>1, <3>3
    <3>6. QED BY <3>2, <3>4, <3>5
  <2>8. incoming[j] = All(input)[pos + j]
    BY <1>2, <2>7
  <2>9. IsStart(incoming[j])
    BY <2>5, <2>7, <2>8
  <2>10. QED BY <2>6, <2>9
<1>8. QED BY <1>5, <1>7 DEF N, off

(* What onMessage parses is the start of the next request, and all of it   *)
(* if the fragment ends where that one does.                               *)
LEMMA PacketIsPrefix ==
    ASSUME Types, NEW k, NEW pos, At(k, pos), NEW n \in 1 .. Len(incoming),
           k + 1 \in 1 .. Len(input.requests), pos + n <= Off(input)[k + 1]
    PROVE  LET packet == mRecvBuffer \o SubSeq(incoming, 1, n)
               off == Off(input)
               t == Tokens(input.requests[k + 1], k + 1)
           IN  /\ packet \in Seq(Token) /\ Len(packet) = pos + n - off[k]
               /\ \A j \in 1 .. Len(packet) : packet[j] = All(input)[off[k] + j]
               /\ Prefix(packet, t)
               /\ Len(packet) = Len(t) <=> pos + n = off[k + 1]
<1> DEFINE N == Len(input.requests)
           off == Off(input)
           part == SubSeq(incoming, 1, n)
           packet == mRecvBuffer \o part
           t == Tokens(input.requests[k + 1], k + 1)
<1>1. /\ k \in 0 .. N /\ pos \in Nat
      /\ Len(incoming) = off[N] - pos
      /\ \A j \in 1 .. Len(incoming) : incoming[j] = All(input)[pos + j]
      /\ Len(mRecvBuffer) = pos - off[k]
      /\ \A j \in 1 .. Len(mRecvBuffer) : mRecvBuffer[j] = All(input)[off[k] + j]
      /\ off[k] <= pos
  BY DEF At
<1>2. N \in Nat /\ \A i \in 0 .. N : off[i] \in Nat
  BY SentLayout DEF Types
<1>3. off[k] \in Nat /\ off[k + 1] \in Nat /\ pos + n <= off[k + 1]
  BY <1>1, <1>2
<1>4. /\ off[k + 1] = off[k] + Len(t) /\ Len(t) \in Nat
      /\ \A j \in 1 .. Len(t) : All(input)[off[k] + j] = t[j]
  <2>1. ASSUME NEW i \in 1 .. N
        PROVE  /\ off[i] = off[i - 1] + Len(Tokens(input.requests[i], i))
               /\ Len(Tokens(input.requests[i], i)) \in Nat
               /\ \A j \in 1 .. Len(Tokens(input.requests[i], i)) :
                     All(input)[off[i - 1] + j] = Tokens(input.requests[i], i)[j]
    BY SentLayout DEF Types
  <2>2. k \in Int
    BY <1>1, <1>2
  <2>3. PICK i \in 1 .. N : i = k + 1
    OBVIOUS
  <2>4. i - 1 = k
    <3> HIDE DEF N
    <3>1. i = k + 1
      BY <2>3
    <3>2. QED BY <2>2, <3>1
  <2>5. QED BY <2>1, <2>3, <2>4
<1>5. mRecvBuffer \in Seq(Token) /\ incoming \in Seq(Token) /\ Len(incoming) \in Nat
  <2>1. GoodToken(input) \subseteq Token
    BY DEF GoodToken
  <2>2. mRecvBuffer \in Seq(Token) /\ incoming \in Seq(Token)
    BY <2>1, SeqMonotonic DEF Types
  <2>3. QED BY <2>2, LenProperties
<1>6. part \in Seq(Token) /\ Len(part) = n /\ \A j \in 1 .. n : part[j] = incoming[j]
  <2>1. 1 \in 1 .. Len(incoming) + 1 /\ n \in 0 .. Len(incoming) /\ 1 <= n
    BY <1>5
  <2>2. /\ part \in Seq(Token)
        /\ Len(part) = IF 1 <= n THEN n - 1 + 1 ELSE 0
        /\ \A j \in 1 .. n - 1 + 1 : part[j] = incoming[1 + j - 1]
    BY <1>5, <2>1, PartOfSeq
  <2>3. n - 1 + 1 = n /\ \A j \in 1 .. n : 1 + j - 1 = j
    BY <1>5
  <2>4. QED BY <2>1, <2>2, <2>3
<1> HIDE DEF part, N, off, t
<1>7. packet \in Seq(Token) /\ Len(packet) = Len(mRecvBuffer) + Len(part)
  BY <1>5, <1>6, ConcatProperties, Zenon
<1>8. Len(packet) = pos + n - off[k]
  BY <1>1, <1>3, <1>6, <1>7
<1>9. ASSUME NEW j \in 1 .. Len(packet) PROVE packet[j] = All(input)[off[k] + j]
  <2>1. CASE j <= Len(mRecvBuffer)
    <3>1. j \in 1 .. Len(mRecvBuffer)
      BY <1>1, <1>3, <2>1
    <3>2. packet[j] = mRecvBuffer[j]
      BY <1>5, <1>6, <3>1, ConcatEarlier, Zenon
    <3> HIDE DEF packet
    <3>3. QED BY <1>1, <3>1, <3>2
  <2>2. CASE j > Len(mRecvBuffer)
    <3>1. PICK i \in 1 .. n : j = Len(mRecvBuffer) + i
      <4> HIDE DEF packet
      <4>1. Len(mRecvBuffer) \in Nat
        BY <1>5, LenProperties
      <4>2. j - Len(mRecvBuffer) \in 1 .. n
        BY <1>6, <1>7, <2>2, <4>1
      <4>3. PICK i \in 1 .. n : i = j - Len(mRecvBuffer)
        BY <4>2
      <4>4. j = Len(mRecvBuffer) + i
        BY <4>1, <4>3
      <4>5. QED BY <4>4
    <3>2. \A l \in 1 .. Len(part) : packet[Len(mRecvBuffer) + l] = part[l]
      BY <1>5, <1>6, ConcatLater
    <3> HIDE DEF packet
    <3>3. packet[j] = incoming[i]
      BY <1>6, <3>1, <3>2
    <3>4. incoming[i] = All(input)[pos + i]
      BY <1>1, <1>5
    <3>5. pos + i = off[k] + j
      <4>1. PICK o \in Nat : o = off[k]
        BY <1>3
      <4>2. j = Len(mRecvBuffer) + i /\ Len(mRecvBuffer) = pos - o /\ pos \in Nat
        BY <1>1, <3>1, <4>1
      <4>3. pos + i = o + j
        BY <4>2
      <4>4. QED BY <4>1, <4>3
    <3>6. QED BY <3>3, <3>4, <3>5
  <2>3. Len(mRecvBuffer) \in Nat
    BY <1>5, LenProperties
  <2> HIDE DEF packet
  <2>4. QED BY <2>1, <2>2, <2>3
<1> HIDE DEF packet
<1>10. Prefix(packet, t)
  <2>1. Len(packet) >= 1 /\ Len(packet) <= Len(t)
    <3>1. PICK a \in Nat, b \in Nat, len \in Nat : a = off[k] /\ b = off[k + 1] /\ len = Len(t)
      BY <1>3, <1>4
    <3>2. /\ b = a + len /\ Len(packet) = pos + n - a /\ pos + n <= b /\ a <= pos
          /\ pos \in Nat /\ n \in Nat /\ n >= 1
      BY <1>1, <1>3, <1>4, <1>5, <1>8, <3>1
    <3>3. Len(packet) >= 1 /\ Len(packet) <= len
      BY <3>2
    <3>4. QED BY <3>1, <3>3
  <2>2. \A j \in 1 .. Len(packet) : packet[j] = t[j]
    BY <1>4, <1>9, <2>1
  <2>3. QED BY <2>1, <2>2 DEF Prefix
<1>11. Len(packet) = Len(t) <=> pos + n = off[k + 1]
  BY <1>1, <1>3, <1>4, <1>8
<1>12. QED BY <1>7, <1>8, <1>9, <1>10, <1>11 DEF packet, part, off, t

(* A part of a token behind the start of a request is refused, unless all  *)
(* its headers are there: it completes no blank line.                      *)
LEMMA TornIsRefused ==
    ASSUME NEW r \in Request, NEW n \in Nat, NEW t, Layout(t, r, n),
           NEW packet \in Seq(Token), Prefix(packet, t), packet[Len(packet)] # Byte,
           NEW torn \in Seq(Token), Len(torn) = Len(packet), torn[Len(torn)] = Byte,
           \A j \in 1 .. Len(packet) - 1 : torn[j] = packet[j]
    PROVE  Refused(torn)
<1> DEFINE H == Len(r.headers)
           m == Len(packet)
           C == CrlfsOf(torn)
           B == {i \in C : i + 1 \in C}
           line == LineEnd(torn)
           blank == HeadersEnd(torn)
<1>1. /\ H \in Nat /\ r.body \in Nat /\ m \in Nat /\ m >= 1 /\ npos(torn) = m + 1
      /\ DOMAIN torn = 1 .. m /\ DOMAIN packet = 1 .. m
  BY RequestTypes, LenProperties DEF Prefix, npos
<1>2. m <= 2 * H + 3
  <2>1. SUFFICES ASSUME m > 2 * H + 3 PROVE FALSE
    BY <1>1
  <2>2. /\ m <= 2 * H + 3 + r.body /\ packet[m] = t[m] /\ packet[m] # Byte
        /\ \A j \in 1 .. r.body : t[2 * H + 3 + j] = Byte
    <3>1. /\ Len(t) = 2 * H + 3 + r.body
          /\ \A j \in 1 .. r.body : t[2 * H + 3 + j] = Byte
      BY DEF Layout
    <3>2. m <= Len(t) /\ \A j \in 1 .. m : packet[j] = t[j]
      BY DEF Prefix
    <3>3. packet[m] # Byte
      OBVIOUS
    <3> HIDE DEF m, H
    <3>4. m \in 1 .. m
      BY <1>1
    <3>5. QED BY <3>1, <3>2, <3>3, <3>4
  <2> HIDE DEF m, H
  <2>3. PICK h \in Nat, d \in Nat : h = 2 * H + 3 /\ d = r.body
    <3>1. 2 * H + 3 \in Nat /\ r.body \in Nat
      BY <1>1
    <3>2. QED BY <3>1, Zenon
  <2>4. m \in Nat /\ m > h /\ m <= h + d
    BY <1>1, <2>1, <2>2, <2>3
  <2>5. m - h \in 1 .. d /\ h + (m - h) = m
    BY <2>4
  <2>6. t[h + (m - h)] = Byte
    BY <2>2, <2>3, <2>5
  <2>7. QED BY <2>2, <2>5, <2>6
<1>3. C \subseteq CrlfsOf(packet) /\ C \subseteq 1 .. m - 1
  <2>1. ASSUME NEW i \in C PROVE i \in CrlfsOf(packet) /\ i \in 1 .. m - 1
    <3>1. i \in 1 .. m /\ torn[i] = CRLF
      BY <1>1 DEF CrlfsOf
    <3>2. i # m
      BY <3>1, TokenKinds, Zenon
    <3>3. i \in 1 .. m - 1
      <4> HIDE DEF m
      <4>1. QED BY <1>1, <3>1, <3>2
    <3>4. QED BY <1>1, <3>1, <3>3 DEF CrlfsOf
  <2>2. QED BY <2>1
<1>4. 1 \notin C /\ \A i \in B : ~(i >= 3)
  <2>1. /\ 1 \notin CrlfsOf(packet)
        /\ \A i \in CrlfsOf(packet) : i >= 3 /\ i + 1 \in CrlfsOf(packet) => i = 2 * H + 2
    BY CrlfPlaces
  <2>2. ASSUME NEW i \in B, i >= 3 PROVE FALSE
    <3>1. i \in C /\ i + 1 \in C
      OBVIOUS
    <3>2. i = 2 * H + 2 /\ i + 1 \in 1 .. m - 1
      BY <1>3, <2>1, <2>2, <3>1
    <3>3. QED BY <1>1, <1>2, <3>2
  <2>3. QED BY <1>3, <2>1, <2>2
<1>5. line \in 1 .. npos(torn) /\ line \in C \cup {npos(torn)}
  <2>1. 1 \in 1 .. npos(torn) /\ Len(torn) \in Nat
    BY <1>1
  <2>2. QED BY <2>1, FindFromIsFirst DEF LineEnd
<1>6. CASE line = npos(torn)
  BY <1>6 DEF Refused
<1>7. CASE line # npos(torn)
  <2>1. line \in C /\ line + 1 \in 1 .. npos(torn) /\ line + 1 >= 3
    <3> HIDE DEF C, line, B
    <3>1. line \in C /\ line # 1
      BY <1>4, <1>5, <1>7
    <3>2. QED BY <1>1, <1>5, <1>7, <3>1
  <2>2. blank = FindFrom(torn, line + 1, B)
    BY Zenon DEF HeadersEnd
  <2> HIDE DEF B, line, blank, C
  <2>3. blank \in line + 1 .. npos(torn) /\ blank \in B \cup {npos(torn)}
    BY <1>1, <2>1, <2>2, FindFromIsFirst
  <2>4. blank >= 3
    BY <1>1, <1>5, <2>1, <2>3
  <2>5. blank = npos(torn)
    BY <1>4, <2>3, <2>4
  <2>6. QED BY <2>5 DEF Refused, blank
<1>8. QED BY <1>6, <1>7

(* The packet of a fragment that ends within its last token.               *)
LEMMA TornPacket ==
    ASSUME NEW S, NEW b \in Seq(S), NEW s \in Seq(S), NEW n \in 1 .. Len(s), NEW x \in S
    PROVE  LET packet == b \o SubSeq(s, 1, n)
               torn == Append(b \o SubSeq(s, 1, n - 1), x)
           IN  /\ torn \in Seq(S) /\ Len(torn) = Len(packet) /\ torn[Len(torn)] = x
               /\ \A j \in 1 .. Len(packet) - 1 : torn[j] = packet[j]
               /\ packet[Len(packet)] = s[n]
<1> DEFINE whole == SubSeq(s, 1, n)
           part == SubSeq(s, 1, n - 1)
           packet == b \o whole
           before == b \o part
           torn == Append(before, x)
<1>1. n \in Nat /\ n >= 1 /\ n <= Len(s) /\ Len(s) \in Nat /\ Len(b) \in Nat
  BY LenProperties
<1>2. whole \in Seq(S) /\ Len(whole) = n /\ \A j \in 1 .. n : whole[j] = s[j]
  <2>1. 1 \in 1 .. Len(s) + 1 /\ n \in 0 .. Len(s) /\ 1 <= n
    BY <1>1
  <2>2. /\ whole \in Seq(S)
        /\ Len(whole) = IF 1 <= n THEN n - 1 + 1 ELSE 0
        /\ \A j \in 1 .. n - 1 + 1 : whole[j] = s[1 + j - 1]
    BY <2>1, PartOfSeq
  <2>3. n - 1 + 1 = n /\ \A j \in 1 .. n : 1 + j - 1 = j
    BY <1>1
  <2>4. QED BY <2>1, <2>2, <2>3
<1>3. part \in Seq(S) /\ Len(part) = n - 1 /\ \A j \in 1 .. n - 1 : part[j] = s[j]
  <2>1. PICK h \in 0 .. Len(s) : h = n - 1
    BY <1>1
  <2>2. 1 \in 1 .. Len(s) + 1
    BY <1>1
  <2>3. /\ SubSeq(s, 1, h) \in Seq(S)
        /\ Len(SubSeq(s, 1, h)) = IF 1 <= h THEN h - 1 + 1 ELSE 0
        /\ \A j \in 1 .. h - 1 + 1 : SubSeq(s, 1, h)[j] = s[1 + j - 1]
    BY <2>2, PartOfSeq
  <2>4. (IF 1 <= h THEN h - 1 + 1 ELSE 0) = h /\ h - 1 + 1 = h /\ \A j \in 1 .. h : 1 + j - 1 = j
    BY <1>1, <2>1
  <2>5. QED BY <2>1, <2>3, <2>4
<1> HIDE DEF whole, part
<1>4. packet \in Seq(S) /\ Len(packet) = Len(b) + n
  BY <1>2, ConcatProperties, Zenon
<1>5. before \in Seq(S) /\ Len(before) = Len(b) + (n - 1)
  BY <1>3, ConcatProperties, Zenon
<1>6. ASSUME NEW j \in 1 .. Len(b) PROVE packet[j] = b[j] /\ before[j] = b[j]
  BY <1>2, <1>3, ConcatEarlier, Zenon
<1>7. \A j \in 1 .. n : packet[Len(b) + j] = whole[j]
  BY <1>2, ConcatLater
<1>8. \A j \in 1 .. n - 1 : before[Len(b) + j] = part[j]
  BY <1>3, ConcatLater
<1> HIDE DEF packet, before
<1>9. /\ torn \in Seq(S) /\ Len(torn) = Len(before) + 1 /\ torn[Len(before) + 1] = x
      /\ \A j \in 1 .. Len(before) : torn[j] = before[j]
  BY <1>5, AppendProperties
<1> HIDE DEF torn
<1>10. Len(torn) = Len(packet) /\ torn[Len(torn)] = x
  BY <1>1, <1>4, <1>5, <1>9
<1>11. packet[Len(packet)] = s[n]
  BY <1>1, <1>2, <1>4, <1>7
<1>12. ASSUME NEW j \in 1 .. Len(packet) - 1 PROVE torn[j] = packet[j]
  <2>1. j \in 1 .. Len(before)
    BY <1>1, <1>4, <1>5
  <2>2. CASE j <= Len(b)
    BY <1>1, <1>6, <1>9, <2>1, <2>2
  <2>3. CASE j > Len(b)
    <3>1. PICK i \in 1 .. n - 1 : j = Len(b) + i
      <4>1. j - Len(b) \in 1 .. n - 1
        BY <1>1, <1>5, <2>1, <2>3
      <4>2. PICK i \in 1 .. n - 1 : i = j - Len(b)
        BY <4>1
      <4>3. QED BY <1>1, <4>2
    <3>2. i \in 1 .. n
      BY <1>1
    <3>3. before[j] = s[i] /\ packet[j] = s[i]
      BY <1>2, <1>3, <1>7, <1>8, <3>1, <3>2
    <3>4. QED BY <1>9, <2>1, <3>3
  <2>4. QED BY <1>1, <2>1, <2>2, <2>3
<1>13. QED BY <1>9, <1>10, <1>11, <1>12 DEF torn, packet, before, whole, part

(* HandledInOrder is inductive beside Types.                               *)
LEMMA InitHandledInOrder == Init => HandledInOrder
<1> SUFFICES ASSUME Init PROVE At(0, 0)
  BY DEF HandledInOrder
<1> DEFINE N == Len(input.requests)
           off == Off(input)
<1>1. /\ N \in Nat /\ off[0] = 0 /\ Len(All(input)) = off[N]
      /\ \A i \in 0 .. N : off[i] \in Nat
      /\ \A i \in 1 .. N : off[i] = off[i - 1] + Len(Tokens(input.requests[i], i))
                           /\ Len(Tokens(input.requests[i], i)) \in Nat
                           /\ Len(Tokens(input.requests[i], i)) >= 1
  BY SentLayout DEF Init
<1>2. incoming = All(input)
  BY DEF Init, All, Sent
<1>3. mRecvBuffer = <<>> /\ handled = <<>>
  BY DEF Init
<1>4. 0 < N => 0 < off[0 + 1]
  <2> SUFFICES ASSUME 0 < N PROVE 0 < off[1]
    OBVIOUS
  <2>1. 1 \in 1 .. N
    BY <1>1
  <2>2. off[1] = off[1 - 1] + Len(Tokens(input.requests[1], 1))
        /\ Len(Tokens(input.requests[1], 1)) \in Nat /\ Len(Tokens(input.requests[1], 1)) >= 1
    BY <1>1, <2>1
  <2>3. QED BY <1>1, <2>2
<1> HIDE DEF off, N
<1>5. handled = [n \in 1 .. 0 |-> n]
  BY <1>3
<1>6. off[N] \in Nat
  BY <1>1
<1>7. Len(mRecvBuffer) = 0 /\ Len(incoming) = off[N]
  BY <1>1, <1>2, <1>3
<1>8. QED BY <1>1, <1>2, <1>4, <1>5, <1>6, <1>7 DEF At, off, N

(* What follows the first n tokens.                                        *)
LEMMA RestOfIncoming ==
    ASSUME Types, NEW n \in 1 .. Len(incoming)
    PROVE  LET rest == SubSeq(incoming, n + 1, Len(incoming)) IN
           /\ Len(rest) = Len(incoming) - n
           /\ \A j \in 1 .. Len(rest) : rest[j] = incoming[n + j]
<1> DEFINE m == Len(incoming)
<1>1. incoming \in Seq(GoodToken(input)) /\ m \in Nat
  BY LenProperties DEF Types
<1>2. n + 1 \in 1 .. m + 1 /\ m \in 0 .. m
  BY <1>1
<1>3. PICK a \in 1 .. m + 1 : a = n + 1
  BY <1>2
<1>4. /\ Len(SubSeq(incoming, a, m)) = IF a <= m THEN m - a + 1 ELSE 0
      /\ \A j \in 1 .. m - a + 1 : SubSeq(incoming, a, m)[j] = incoming[a + j - 1]
  BY <1>1, <1>2, PartOfSeq
<1> HIDE DEF m
<1>5. Len(SubSeq(incoming, a, m)) = m - n
  BY <1>1, <1>3, <1>4
<1>6. ASSUME NEW j \in 1 .. m - n PROVE SubSeq(incoming, a, m)[j] = incoming[n + j]
  <2>1. j \in 1 .. m - a + 1 /\ a + j - 1 = n + j
    BY <1>1, <1>3
  <2>2. QED BY <1>4, <2>1
<1>7. QED BY <1>3, <1>5, <1>6 DEF m

(* What was handled, once more is.                                         *)
LEMMA NextHandled ==
    ASSUME NEW k \in Nat, NEW i, i = k + 1, NEW h, h = [n \in 1 .. k |-> n]
    PROVE  Append(h, i) = [n \in 1 .. i |-> n]
<1>1. h \in Seq(Nat) /\ Len(h) = k
  <2>1. h \in [1 .. k -> Nat]
    OBVIOUS
  <2>2. QED BY <2>1, FunctionIsSeq
<1>2. i \in Nat
  OBVIOUS
<1>3. /\ Append(h, i) \in Seq(Nat) /\ Len(Append(h, i)) = i
      /\ \A n \in 1 .. k : Append(h, i)[n] = h[n]
      /\ Append(h, i)[i] = i
  BY <1>1, <1>2, AppendProperties
<1>4. DOMAIN Append(h, i) = 1 .. i
  BY <1>3, LenProperties
<1>5. \A n \in 1 .. i : Append(h, i)[n] = n
  BY <1>2, <1>3
<1>6. Append(h, i) = [n \in DOMAIN Append(h, i) |-> Append(h, i)[n]]
  BY <1>3, FunctionIsSeq
<1>7. QED BY <1>4, <1>5, <1>6

(* What is undisturbed after a step was so before it.                      *)
LEMMA StaysUndisturbed == Types /\ [Next]_vars /\ Undisturbed' => Undisturbed
<1> SUFFICES ASSUME Types, [Next]_vars, Undisturbed' PROVE Undisturbed
  OBVIOUS
<1>1. CASE Next
  <2>1. ~failure /\ input' = input /\ (pipelined => pipelined')
    BY <1>1 DEF Next, Receive, ReceiveTorn
  <2>2. QED BY <2>1 DEF Undisturbed
<1>2. CASE UNCHANGED vars
  BY <1>2 DEF vars, Undisturbed
<1>3. QED BY <1>1, <1>2

(* Without a request behind another, no part of a token is taken.          *)
LEMMA NothingTorn ==
    ASSUME Types, Undisturbed, Undisturbed', NEW k, NEW pos, At(k, pos) PROVE ~ReceiveTorn
<1> SUFFICES ASSUME ReceiveTorn PROVE FALSE
  OBVIOUS
<1>1. PICK n \in DOMAIN incoming :
          /\ incoming[n] # Byte
          /\ parseHttpRequest(Append(mRecvBuffer \o SubSeq(incoming, 1, n - 1), Byte)).error = "none"
          /\ pipelined' = (pipelined \/ \E i \in 2 .. n : IsStart(incoming[i]))
  BY Zenon DEF ReceiveTorn
<1> DEFINE packet == mRecvBuffer \o SubSeq(incoming, 1, n)
           torn == Append(mRecvBuffer \o SubSeq(incoming, 1, n - 1), Byte)
           t == Tokens(input.requests[k + 1], k + 1)
<1>2. n \in 1 .. Len(incoming)
  BY LenProperties DEF Types
<1>3. \A i \in 2 .. n : ~IsStart(incoming[i])
  BY <1>1 DEF Undisturbed
<1>4. k + 1 \in 1 .. Len(input.requests) /\ pos + n <= Off(input)[k + 1]
  BY <1>2, <1>3, WithinRequest
<1>5. packet \in Seq(Token) /\ Prefix(packet, t)
  BY <1>2, <1>4, PacketIsPrefix
<1>6. /\ torn \in Seq(Token) /\ Len(torn) = Len(packet) /\ torn[Len(torn)] = Byte
      /\ \A j \in 1 .. Len(packet) - 1 : torn[j] = packet[j]
      /\ packet[Len(packet)] = incoming[n]
  <2>1. GoodToken(input) \subseteq Token
    BY DEF GoodToken
  <2>2. mRecvBuffer \in Seq(Token) /\ incoming \in Seq(Token)
    BY <2>1, SeqMonotonic DEF Types
  <2>3. Byte \in Token
    BY TokenKinds
  <2>4. \A b, s \in Seq(Token) : \A m \in 1 .. Len(s) :
            LET whole == b \o SubSeq(s, 1, m)
                part == Append(b \o SubSeq(s, 1, m - 1), Byte)
            IN  /\ part \in Seq(Token) /\ Len(part) = Len(whole) /\ part[Len(part)] = Byte
                /\ \A j \in 1 .. Len(whole) - 1 : part[j] = whole[j]
                /\ whole[Len(whole)] = s[m]
    BY <2>3, TornPacket
  <2>5. QED BY <1>2, <2>2, <2>4, Zenon
<1> HIDE DEF packet, torn, t
<1>7. PICK q \in 1 .. Len(input.requests) : q = k + 1
  BY <1>4
<1>8. /\ q \in Nat /\ input.requests[q] \in Request
      /\ t = Tokens(input.requests[q], q) /\ Layout(t, input.requests[q], q)
  BY <1>7, SentLayout DEF Types, t
<1>9. Refused(torn)
  BY <1>1, <1>5, <1>6, <1>8, TornIsRefused
<1>10. parseHttpRequest(torn).error = "none"
  BY <1>1 DEF torn
<1>11. QED BY <1>9, <1>10, Accepted

(* A fragment leaves the handled requests and adds to the buffer, or       *)
(* completes the next request and empties it.                              *)
LEMMA StepHandledInOrder == Types /\ HandledInOrder /\ [Next]_vars => HandledInOrder'
<1> SUFFICES ASSUME Types, HandledInOrder, [Next]_vars, Undisturbed'
             PROVE  \E k, pos : At(k, pos)'
  BY DEF HandledInOrder
<1> DEFINE N == Len(input.requests)
           off == Off(input)
<1>1. Undisturbed
  BY StaysUndisturbed
<1>2. PICK k, pos : At(k, pos)
  BY <1>1 DEF HandledInOrder
<1>3. CASE UNCHANGED vars
  BY <1>2, <1>3 DEF vars, At
<1>4. CASE Receive
  <2>1. PICK n \in DOMAIN incoming :
            /\ incoming' = SubSeq(incoming, n + 1, Len(incoming))
            /\ pipelined' = (pipelined \/ \E i \in 2 .. n : IsStart(incoming[i]))
            /\ onMessage(mRecvBuffer \o SubSeq(incoming, 1, n))
    BY <1>4 DEF Receive
  <2>2. input' = input
    BY <1>4 DEF Receive
  <2>3. n \in 1 .. Len(incoming)
    BY LenProperties DEF Types
  <2>4. \A i \in 2 .. n : ~IsStart(incoming[i])
    BY <2>1 DEF Undisturbed
  <2>5. k + 1 \in 1 .. N /\ pos + n <= off[k + 1]
    BY <1>2, <2>3, <2>4, WithinRequest
  <2> DEFINE packet == mRecvBuffer \o SubSeq(incoming, 1, n)
             t == Tokens(input.requests[k + 1], k + 1)
             request == parseHttpRequest(packet)
  <2>6. /\ packet \in Seq(Token) /\ Len(packet) = pos + n - off[k]
        /\ \A j \in 1 .. Len(packet) : packet[j] = All(input)[off[k] + j]
        /\ Prefix(packet, t)
        /\ Len(packet) = Len(t) <=> pos + n = off[k + 1]
    BY <1>2, <2>3, <2>5, PacketIsPrefix
  <2>7. onMessage(packet)
    BY <2>1
  <2>8. PICK q \in 1 .. N : q = k + 1
    BY <2>5
  <2> HIDE DEF packet
  <2>9. /\ N \in Nat /\ \A i \in 0 .. N : off[i] \in Nat
        /\ \A i \in 1 .. N : /\ off[i] <= off[N] /\ off[i] = off[i - 1] + Len(Tokens(input.requests[i], i))
                             /\ Len(Tokens(input.requests[i], i)) \in Nat
                             /\ Len(Tokens(input.requests[i], i)) >= 1
        /\ t = Tokens(input.requests[q], q) /\ input.requests[q] \in Request
        /\ Layout(t, input.requests[q], q)
    BY <2>8, SentLayout DEF Types
  <2>10. WellFormed(input.requests[q])
    BY <1>1, <2>8, InputTypes DEF Undisturbed, Types
  <2>11. q \in Nat
    BY <2>9
  <2>12. /\ request.error = "none" <=> Len(packet) = Len(t)
         /\ request.error = "none" => request.number = q
    BY <2>6, <2>9, <2>10, <2>11, WellFormedParse
  <2>13. /\ k \in 0 .. N /\ pos \in Nat
         /\ handled = [i \in 1 .. k |-> i]
         /\ Len(incoming) = off[N] - pos
         /\ \A j \in 1 .. Len(incoming) : incoming[j] = All(input)[pos + j]
         /\ off[k] <= pos /\ pos <= off[N]
    BY <1>2 DEF At
  <2>14. /\ Len(incoming') = Len(incoming) - n
         /\ \A j \in 1 .. Len(incoming') : incoming'[j] = incoming[n + j]
    BY <2>1, <2>3, RestOfIncoming
  <2> HIDE DEF N, off, t, request
  <2>15. /\ k \in Nat /\ off[k] \in Nat /\ off[q] \in Nat /\ off[N] \in Nat /\ off[q] <= off[N]
         /\ n \in Nat /\ n >= 1 /\ pos + n <= off[q]
    BY <2>3, <2>5, <2>8, <2>9, <2>13
  <2>16. PICK p \in Nat : p = pos + n
    BY <2>13, <2>15
  <2>17. /\ Len(incoming') = off[N] - p
         /\ \A j \in 1 .. Len(incoming') : incoming'[j] = All(input)[p + j]
    <3>1. Len(incoming') = off[N] - p
      BY <2>13, <2>14, <2>15, <2>16
    <3>2. ASSUME NEW j \in 1 .. Len(incoming') PROVE incoming'[j] = All(input)[p + j]
      <4>1. n + j \in 1 .. Len(incoming) /\ pos + (n + j) = p + j
        <5>1. PICK len \in Nat : len = Len(incoming)
          BY <2>3, <2>13, <2>15
        <5>2. n <= len /\ Len(incoming') = len - n
          BY <2>3, <2>14, <5>1
        <5>3. j \in 1 .. len - n
          BY <5>2
        <5>4. n + j \in 1 .. len /\ pos + (n + j) = p + j
          <6>1. n \in Nat /\ pos \in Nat /\ p = pos + n
            BY <2>13, <2>15, <2>16
          <6>2. j \in Nat /\ j >= 1 /\ j <= len - n
            BY <5>3
          <6>3. QED BY <5>1, <6>1, <6>2
        <5>5. QED BY <5>1, <5>4
      <4>2. incoming[n + j] = All(input)[pos + (n + j)]
        BY <2>13, <4>1
      <4>3. incoming'[j] = incoming[n + j]
        BY <2>14
      <4>4. QED BY <4>1, <4>2, <4>3
    <3>3. QED BY <3>1, <3>2
  <2>18. CASE request.error = "none"
    <3>1. p = off[q]
      BY <2>6, <2>8, <2>12, <2>16, <2>18
    <3>2. handled' = Append(handled, q) /\ mRecvBuffer' = ExtractString(packet, request)
      BY <2>7, <2>12, <2>18 DEF onMessage, Respond, request
    <3>3. handled' = [i \in 1 .. q |-> i]
      BY <2>8, <2>13, <2>15, <3>2, NextHandled
    <3>4. Len(mRecvBuffer') = 0
      <4>1. request.mRequestSize = Len(packet)
        BY <2>18, Accepted DEF request
      <4>2. Len(packet) \in Nat
        BY <2>6, LenProperties
      <4>3. mRecvBuffer' = SubSeq(packet, Len(packet) + 1, Len(packet))
        BY <3>2, <4>1 DEF ExtractString
      <4>4. mRecvBuffer' = << >>
        BY <2>6, <4>2, <4>3, SubSeqEmpty
      <4>5. QED BY <4>4
    <3>5. q < N => p < off[q + 1]
      <4> SUFFICES ASSUME q < N PROVE p < off[q + 1]
        OBVIOUS
      <4>1. q \in Int /\ N \in Nat
        BY <2>9, <2>11
      <4>2. PICK l \in 1 .. N : l = q + 1
        BY <4>1, <2>11
      <4>3. l - 1 = q
        BY <4>1, <4>2
      <4>4. off[l] = off[q] + Len(Tokens(input.requests[l], l))
            /\ Len(Tokens(input.requests[l], l)) \in Nat
            /\ Len(Tokens(input.requests[l], l)) >= 1
        BY <2>9, <4>3
      <4>5. QED BY <2>15, <3>1, <4>2, <4>4
    <3>6. q \in 0 .. N /\ Len(mRecvBuffer') = p - off[q] /\ off[q] <= p /\ p <= off[N]
      BY <2>9, <2>15, <3>1, <3>4
    <3>7. \A j \in 1 .. Len(mRecvBuffer') : mRecvBuffer'[j] = All(input)[off[q] + j]
      BY <3>4
    <3>8. At(q, p)'
      BY <2>2, <2>16, <2>17, <3>3, <3>5, <3>6, <3>7 DEF At, N, off
    <3>9. QED BY <3>8
  <2>19. CASE request.error # "none"
    <3>1. mRecvBuffer' = packet /\ handled' = handled
      BY <2>7, <2>19 DEF onMessage, request
    <3>2. p < off[q]
      BY <2>6, <2>8, <2>12, <2>15, <2>16, <2>19
    <3>3. k < N => p < off[k + 1]
      <4>1. off[k + 1] = off[q]
        BY <2>8, Zenon
      <4>2. QED BY <3>2, <4>1
    <3>4. Len(mRecvBuffer') = p - off[k] /\ off[k] <= p /\ p <= off[N]
      <4>1. Len(mRecvBuffer') = pos + n - off[k]
        BY <2>6, <3>1
      <4>2. off[k] \in Nat /\ off[q] \in Nat /\ off[N] \in Nat /\ pos \in Nat /\ n \in Nat
            /\ off[q] <= off[N] /\ off[k] <= pos
        BY <2>13, <2>15
      <4>3. QED BY <2>16, <3>2, <4>1, <4>2
    <3>5. \A j \in 1 .. Len(mRecvBuffer') : mRecvBuffer'[j] = All(input)[off[k] + j]
      BY <2>6, <3>1
    <3>6. At(k, p)'
      BY <2>2, <2>13, <2>16, <2>17, <3>1, <3>3, <3>4, <3>5 DEF At, N, off
    <3>7. QED BY <3>6
  <2>20. QED BY <2>18, <2>19
<1>5. QED BY <1>1, <1>2, <1>3, <1>4, NothingTorn DEF Next

(* When all was received, all was handled.                                 *)
LEMMA NothingLeft ==
    ASSUME Types, NEW k, NEW pos, At(k, pos), incoming = <<>>
    PROVE  handled = [n \in DOMAIN input.requests |-> n] /\ mRecvBuffer = <<>>
<1> DEFINE N == Len(input.requests)
           off == Off(input)
<1>1. /\ N \in Nat /\ DOMAIN input.requests = 1 .. N
      /\ \A i \in 0 .. N : off[i] \in Nat
      /\ \A i \in 1 .. N : off[i] <= off[N]
  BY SentLayout, InputTypes DEF Types
<1>2. /\ k \in 0 .. N /\ pos \in Nat
      /\ handled = [n \in 1 .. k |-> n]
      /\ Len(incoming) = off[N] - pos
      /\ Len(mRecvBuffer) = pos - off[k]
      /\ k < N => pos < off[k + 1]
  BY DEF At
<1> HIDE DEF N, off
<1>3. off[N] \in Nat /\ pos = off[N]
  <2>1. off[N] \in Nat /\ Len(incoming) = 0
    BY <1>1
  <2>2. QED BY <1>2, <2>1
<1>4. k = N
  <2>1. SUFFICES ASSUME k < N PROVE FALSE
    BY <1>1, <1>2
  <2>2. PICK l \in 1 .. N : l = k + 1
    BY <1>1, <1>2, <2>1
  <2>3. off[l] \in Nat /\ off[l] <= off[N]
    BY <1>1
  <2>4. off[k + 1] = off[l]
    BY <2>2, Zenon
  <2>5. pos < off[l]
    BY <1>2, <2>1, <2>4
  <2>6. QED BY <1>3, <2>3, <2>5
<1>5. Len(mRecvBuffer) = 0
  BY <1>2, <1>3, <1>4
<1>6. mRecvBuffer = <<>>
  BY <1>5, EmptySeq DEF Types
<1>7. QED BY <1>1, <1>2, <1>4, <1>6

(* Well-formed requests with some header, one at a time, are all handled,  *)
(* once and in order, and nothing is left of them, whatever the requests,  *)
(* their number and their fragments (HttpRequest.cpp:188-240,              *)
(* HttpServer.cpp:43-52,67-75).                                            *)
THEOREM WellFormedAreHandled == Spec => []WellFormedHandled
<1>1. Types /\ HandledInOrder => WellFormedHandled
  BY NothingLeft DEF HandledInOrder, Undisturbed, WellFormedHandled
<1>2. QED BY <1>1, AlwaysTypes, InitHandledInOrder, StepHandledInOrder, PTL DEF Spec
=============================================================================

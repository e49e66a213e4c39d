------------------------------- MODULE JsonProofs -------------------------------
(***************************************************************************)
(* Proofs about jsmn_parse of json.h, for a pool of any size and a text of *)
(* any length.                                                             *)
(***************************************************************************)
EXTENDS Json, SequenceTheorems, FiniteSetTheorems, WellFoundedInduction, TLAPS

(* The parser runs, or has accepted the text. *)
Good == result \in {"none", "ok"}

(* Every token is one of the text, begins where its lexeme stands and ends
   where its bracket was closed; only brackets are open. *)
Placed ==
  /\ Len(toks) <= Len(text)
  /\ \A i \in DOMAIN toks :
       /\ toks[i].start < Len(text) /\ toks[i].type = text[toks[i].start + 1]
       /\ toks[i].end = 0 => toks[i].type \in Opening
       /\ toks[i].end # 0 =>
            /\ toks[i].start < toks[i].end /\ toks[i].end <= Len(text)
            /\ toks[i].type \in Opening => toks[i].type = Closes(text[toks[i].end])
       /\ toks[i].size <= Len(toks) - i

(* Tokens stand in the order they were found, and what comes after a token that
   has its end comes after that end, or ended before it. *)
InOrder ==
  \A i, j \in DOMAIN toks : i < j =>
    /\ toks[i].start < toks[j].start
    /\ toks[i].end # 0 => \/ toks[i].end <= toks[j].start
                          \/ (toks[j].end # 0 /\ toks[j].end <= toks[i].end)

Counted == /\ Good => count = Len(toks)
           /\ result = "none" => B!Tokens(text) = Len(toks)
           /\ result = "ok" => LastOpen(toks) = 0

NestInv == JTypeOK /\ Placed /\ InOrder /\ Counted

(* The lexeme at p is in token i, as far as the text is read; in no smaller
   one; and so is the beginning of another token, or a colon. *)
In(p, i) == toks[i].start < p /\ (toks[i].end = 0 \/ p < toks[i].end)
Innermost(p, i) == In(p, i) /\ \A j \in DOMAIN toks : In(p, j) => toks[j].start <= toks[i].start
Kids(i) == {j \in DOMAIN toks : Innermost(toks[j].start, i)}
ColonIn(i) == \E p \in DOMAIN text : text[p] = "colon" /\ Innermost(p - 1, i)

(* What stands before a colon that comes next is the string read last. *)
KeyLast == result = "none" /\ text # << >> /\ Last(text) = "string" =>
             toks # << >> /\ toks[Len(toks)].type = "string"

(* The superior token is the innermost bracket open, or a key, and until a
   colon comes in it, it is the bracket. *)
Superior ==
  Good /\ KeysAreStrings =>
    /\ super = LastOpen(toks) \/ (super # 0 /\ toks[super].type \in Values)
    /\ \A i \in DOMAIN toks : toks[i].type \in Opening /\ ~ColonIn(i) =>
         /\ toks[i].size = Cardinality(Kids(i))
         /\ i = LastOpen(toks) => super = i

SizeInv == NestInv /\ KeyLast /\ Superior

--------------------------------------------------------------------------------
(* Operators. *)

(* A non-empty set of indices has a last one, which Max returns. *)
LEMMA LastIndex ==
  ASSUME NEW N \in Nat, NEW S, S \subseteq 1 .. N, S # {}
  PROVE  Max(S) \in S /\ \A x \in S : x <= Max(S)
<1> DEFINE R == {ss \in Nat \X Nat : ss[1] < ss[2]}
           D == {N - x : x \in S}
<1>1. D \subseteq Nat /\ D # {}
  <2>1. \A x \in S : N - x \in Nat
    OBVIOUS
  <2>2. PICK x : x \in S
    OBVIOUS
  <2>3. N - x \in D
    BY <2>2
  <2>4. QED BY <2>1, <2>3
<1>2. IsWellFoundedOn(R, Nat)
  <2>1. R = OpToRel(<, Nat)
    BY Zenon DEF OpToRel
  <2>2. QED BY <2>1, NatLessThanWellFounded, Zenon
<1>3. PICK d \in D : \A y \in D : <<y, d>> \notin R
  <2> HIDE DEF R, D
  <2>1. QED BY <1>1, <1>2, WFMin
<1>4. PICK x \in S : d = N - x
  OBVIOUS
<1>5. \A y \in S : y <= x
  <2> SUFFICES ASSUME NEW y \in S PROVE y <= x
    OBVIOUS
  <2>1. N - y \in D /\ N - y \in Nat /\ d \in Nat
    BY <1>1
  <2>2. ~ (N - y < d)
    BY <1>3, <2>1
  <2>3. QED BY <1>4, <2>1, <2>2
<1>6. QED BY <1>5 DEF Max

(* The loops that look for the last open token find it, or none is open. *)
LEMMA LastOpenIs ==
  ASSUME NEW T, NEW s \in Seq(T)
  PROVE  \/ LastOpen(s) = 0 /\ \A i \in DOMAIN s : s[i].end # 0
         \/ /\ LastOpen(s) \in DOMAIN s /\ s[LastOpen(s)].end = 0
            /\ \A j \in DOMAIN s : j > LastOpen(s) => s[j].end # 0
<1> DEFINE S == {i \in 1 .. Len(s) : IsOpen(s[i])}
<1>1. LastOpen(s) = IF S # {} THEN Max(S) ELSE 0
  BY DEF LastOpen, SelectLastInSeq
<1>2. DOMAIN s = 1 .. Len(s) /\ Len(s) \in Nat /\ S \subseteq 1 .. Len(s)
  OBVIOUS
<1>3. CASE S = {}
  BY <1>1, <1>2, <1>3 DEF IsOpen
<1>4. CASE S # {}
  <2>1. LastOpen(s) \in S /\ \A x \in S : x <= LastOpen(s)
    BY <1>1, <1>2, <1>4, LastIndex
  <2>2. QED BY <1>2, <2>1 DEF IsOpen
<1>5. QED BY <1>3, <1>4

(* There is only one such index. *)
LEMMA LastOpenOnly ==
  ASSUME NEW T, NEW s \in Seq(T), NEW k \in DOMAIN s, s[k].end = 0,
         \A j \in DOMAIN s : j > k => s[j].end # 0
  PROVE  LastOpen(s) = k
<1>1. DOMAIN s \subseteq Nat
  OBVIOUS
<1>2. QED BY <1>1, LastOpenIs

Tok == [type : Opening \cup Values, start : 0 .. MaxLen,
        end : 0 .. MaxLen, size : 0 .. MaxLen]

(* The types, in the form the proofs use them: token by token. *)
LEMMA TokTypes ==
  ASSUME JTypeOK
  PROVE  /\ Len(toks) \in Nat /\ DOMAIN toks = 1 .. Len(toks) /\ Len(text) \in Nat
         /\ DOMAIN text = 1 .. Len(text)
         /\ Len(text) <= MaxLen /\ Len(toks) <= NumTokens /\ NumTokens \in Nat
         /\ MaxLen \in Nat /\ super \in Nat
         /\ \A i \in DOMAIN toks : /\ toks[i].type \in Opening \cup Values
                                   /\ toks[i].start \in Nat /\ toks[i].end \in Nat
                                   /\ toks[i].size \in Nat
                                   /\ toks[i] \in Tok
<1>1. /\ Len(toks) \in Nat /\ DOMAIN toks = 1 .. Len(toks) /\ Len(text) \in Nat
      /\ DOMAIN text = 1 .. Len(text) /\ Len(text) <= MaxLen /\ Len(toks) <= NumTokens
  BY DEF JTypeOK
<1>2. super \in Nat /\ NumTokens \in Nat /\ MaxLen \in Nat
  BY <1>1, JsonSizes DEF JTypeOK
<1>3. ASSUME NEW i \in DOMAIN toks
      PROVE  toks[i] \in Tok
  <2>1. toks \in Seq(Tok)
    BY DEF JTypeOK, Tok
  <2>2. QED BY <1>1, <1>3, <2>1
<1>4. 0 .. MaxLen \subseteq Nat
  BY <1>2
<1>5. QED BY <1>1, <1>2, <1>3, <1>4 DEF Tok

(* A sequence of records is one of tokens when its sizes fit. *)
LEMMA TokSeq ==
  ASSUME NEW n \in Nat, NEW s, s = [i \in 1 .. n |-> s[i]],
         \A i \in 1 .. n : s[i] \in Tok
  PROVE  s \in Seq(Tok)
<1>1. s \in [1 .. n -> Tok]
  OBVIOUS
<1>2. QED BY <1>1, SeqDef

(* A token added has no size yet; that of the superior token grows. *)
LEMMA AddedIs ==
  ASSUME JTypeOK, NEW c, NEW e, NEW s, s = Added(c, e)
  PROVE  /\ Len(s) = Len(toks) + 1 /\ DOMAIN s = 1 .. Len(toks) + 1
         /\ s = [i \in 1 .. Len(toks) + 1 |-> s[i]]
         /\ s[Len(toks) + 1] = [type |-> c, start |-> Len(text), end |-> e, size |-> 0]
         /\ \A i \in DOMAIN toks :
              s[i] = IF i = super THEN [toks[i] EXCEPT !.size = @ + 1] ELSE toks[i]
<1> DEFINE g(i) == IF i = super THEN [toks[i] EXCEPT !.size = @ + 1] ELSE toks[i]
           old == [i \in DOMAIN toks |-> g(i)]
           new == [type |-> c, start |-> Len(text), end |-> e, size |-> 0]
           T == {g(i) : i \in DOMAIN toks} \cup {new}
<1>1. Len(toks) \in Nat /\ DOMAIN toks = 1 .. Len(toks)
  BY TokTypes
<1>2. old \in Seq(T) /\ Len(old) = Len(toks)
  BY <1>1, IsASeq
<1>3. s = Append(old, new) /\ new \in T
  BY DEF Added
<1>4. \A i \in DOMAIN toks : old[i] = g(i)
  OBVIOUS
<1> HIDE DEF old, new, g, T
<1>5. /\ Len(s) = Len(toks) + 1 /\ DOMAIN s = 1 .. Len(toks) + 1
      /\ s[Len(toks) + 1] = new
      /\ \A i \in 1 .. Len(toks) : s[i] = old[i]
      /\ s \in Seq(T)
  BY <1>1, <1>2, <1>3
<1>6. s = [i \in 1 .. Len(toks) + 1 |-> s[i]]
  BY <1>5, LenProperties
<1>7. \A i \in DOMAIN toks : s[i] = g(i)
  BY <1>1, <1>4, <1>5
<1>8. QED BY <1>5, <1>6, <1>7 DEF new, g

(* Field by field. *)
LEMMA AddedFields ==
  ASSUME JTypeOK, NEW c, NEW e, NEW s, s = Added(c, e)
  PROVE  /\ Len(s) = Len(toks) + 1 /\ DOMAIN s = 1 .. Len(toks) + 1
         /\ s[Len(toks) + 1].type = c /\ s[Len(toks) + 1].start = Len(text)
         /\ s[Len(toks) + 1].end = e /\ s[Len(toks) + 1].size = 0
         /\ \A i \in DOMAIN toks :
              /\ s[i].type = toks[i].type /\ s[i].start = toks[i].start
              /\ s[i].end = toks[i].end
              /\ s[i].size = IF i = super THEN toks[i].size + 1 ELSE toks[i].size
<1>1. /\ Len(s) = Len(toks) + 1 /\ DOMAIN s = 1 .. Len(toks) + 1
      /\ s[Len(toks) + 1] = [type |-> c, start |-> Len(text), end |-> e, size |-> 0]
      /\ \A i \in DOMAIN toks :
           s[i] = IF i = super THEN [toks[i] EXCEPT !.size = @ + 1] ELSE toks[i]
  BY AddedIs
<1> HIDE DEF Added
<1>2. ASSUME NEW i \in DOMAIN toks
      PROVE  /\ s[i].type = toks[i].type /\ s[i].start = toks[i].start
             /\ s[i].end = toks[i].end
             /\ s[i].size = IF i = super THEN toks[i].size + 1 ELSE toks[i].size
  <2>1. toks[i] = [type |-> toks[i].type, start |-> toks[i].start,
                   end |-> toks[i].end, size |-> toks[i].size]
    <3>1. toks[i] \in Tok
      BY <1>2, TokTypes
    <3>2. QED BY <3>1 DEF Tok
  <2>2. [toks[i] EXCEPT !.size = @ + 1] =
          [type |-> toks[i].type, start |-> toks[i].start,
           end |-> toks[i].end, size |-> toks[i].size + 1]
    BY <2>1
  <2>3. s[i] = IF i = super
               THEN [type |-> toks[i].type, start |-> toks[i].start,
                     end |-> toks[i].end, size |-> toks[i].size + 1]
               ELSE toks[i]
    BY <1>1, <1>2, <2>2
  <2>4. QED BY <2>3
<1>3. QED BY <1>1, <1>2

(* Closing gives a token its end and changes nothing else. *)
LEMMA ClosedIs ==
  ASSUME JTypeOK, NEW k \in DOMAIN toks, NEW e, NEW s,
         s = [toks EXCEPT ![k].end = e]
  PROVE  /\ Len(s) = Len(toks) /\ DOMAIN s = DOMAIN toks
         /\ s = [i \in 1 .. Len(toks) |-> s[i]]
         /\ \A i \in DOMAIN toks :
              /\ s[i].type = toks[i].type /\ s[i].start = toks[i].start
              /\ s[i].size = toks[i].size
              /\ s[i].end = IF i = k THEN e ELSE toks[i].end
              /\ s[i] = IF i = k THEN [toks[i] EXCEPT !.end = e] ELSE toks[i]
<1>1. Len(toks) \in Nat /\ DOMAIN toks = 1 .. Len(toks)
  BY TokTypes
<1>2. s = [i \in 1 .. Len(toks) |-> IF i = k THEN [toks[i] EXCEPT !.end = e] ELSE toks[i]]
  BY <1>1
<1>3. Len(s) = Len(toks) /\ DOMAIN s = DOMAIN toks
  BY <1>1, <1>2
<1>4. \A i \in DOMAIN toks : s[i] = IF i = k THEN [toks[i] EXCEPT !.end = e] ELSE toks[i]
  BY <1>1, <1>2
<1>5. s = [i \in 1 .. Len(toks) |-> s[i]]
  BY <1>2
<1>6. ASSUME NEW i \in DOMAIN toks
      PROVE  toks[i] = [type |-> toks[i].type, start |-> toks[i].start,
                        end |-> toks[i].end, size |-> toks[i].size]
  <2>1. toks[i] \in Tok
    BY <1>6, TokTypes
  <2>2. QED BY <2>1 DEF Tok
<1>7. ASSUME NEW i \in DOMAIN toks
      PROVE  /\ s[i].type = toks[i].type /\ s[i].start = toks[i].start
             /\ s[i].size = toks[i].size
             /\ s[i].end = IF i = k THEN e ELSE toks[i].end
  <2>1. CASE i # k
    BY <1>4, <2>1
  <2>2. CASE i = k
    <3>1. s[i] = [toks[i] EXCEPT !.end = e]
      BY <1>4, <2>2
    <3>2. [toks[i] EXCEPT !.end = e] =
            [type |-> toks[i].type, start |-> toks[i].start, end |-> e,
             size |-> toks[i].size]
      BY <1>6
    <3>3. QED BY <2>2, <3>1, <3>2
  <2>3. QED BY <2>1, <2>2
<1>8. QED BY <1>3, <1>4, <1>5, <1>7

(* The tokens of a text are counted as sets are. *)
LEMMA TokensAre ==
  ASSUME NEW t
  PROVE  B!Tokens(t) = Cardinality({p \in DOMAIN t : t[p] \in Opening \cup Values})
<1>1. \A S : B!Cardinality(S) = Cardinality(S)
  BY DEF B!Cardinality, Cardinality
<1>2. QED BY <1>1 DEF B!Tokens

(* A lexeme read is appended to the text, and counts if it is a token. *)
LEMMA ReadIs ==
  ASSUME JTypeOK, NEW c \in Lexemes, Read(c)
  PROVE  /\ text' \in Seq(Lexemes) /\ Len(text') = Len(text) + 1
         /\ Len(text') <= MaxLen /\ DOMAIN text' = 1 .. Len(text) + 1
         /\ text'[Len(text) + 1] = c
         /\ \A p \in 1 .. Len(text) : text'[p] = text[p]
         /\ B!Tokens(text) \in Nat
         /\ B!Tokens(text') =
              IF c \in Opening \cup Values THEN B!Tokens(text) + 1 ELSE B!Tokens(text)
<1>1. text \in Seq(Lexemes) /\ Len(text) < MaxLen /\ text' = Append(text, c)
  BY DEF JTypeOK, Read
<1>2. Len(text) \in Nat /\ DOMAIN text = 1 .. Len(text) /\ MaxLen \in Nat
  BY TokTypes
<1>3. /\ text' \in Seq(Lexemes) /\ Len(text') = Len(text) + 1
      /\ Len(text') <= MaxLen /\ DOMAIN text' = 1 .. Len(text) + 1
      /\ text'[Len(text) + 1] = c
      /\ \A p \in 1 .. Len(text) : text'[p] = text[p]
  BY <1>1, <1>2
<1> DEFINE S == {p \in DOMAIN text : text[p] \in Opening \cup Values}
           T == {p \in DOMAIN text' : text'[p] \in Opening \cup Values}
<1>4. IsFiniteSet(S) /\ Cardinality(S) \in Nat
  <2>1. IsFiniteSet(1 .. Len(text))
    BY <1>2, FS_Interval
  <2>2. S \subseteq 1 .. Len(text)
    BY <1>2
  <2> HIDE DEF S
  <2>3. QED BY <2>1, <2>2, FS_Subset, FS_CardinalityType
<1>5. Len(text) + 1 \notin S
  BY <1>2
<1>6. T = IF c \in Opening \cup Values THEN S \cup {Len(text) + 1} ELSE S
  <2>1. ASSUME NEW p \in DOMAIN text'
        PROVE  p \in T <=> \/ p \in S
                           \/ p = Len(text) + 1 /\ c \in Opening \cup Values
    <3>1. CASE p = Len(text) + 1
      BY <1>3, <1>5, <3>1
    <3>2. CASE p # Len(text) + 1
      BY <1>2, <1>3, <3>2
    <3>3. QED BY <3>1, <3>2
  <2>2. S \subseteq DOMAIN text' /\ T \subseteq DOMAIN text' /\ Len(text) + 1 \in DOMAIN text'
    BY <1>2, <1>3
  <2> HIDE DEF S, T
  <2>3. QED BY <2>1, <2>2
<1>7. Cardinality(T) = IF c \in Opening \cup Values THEN Cardinality(S) + 1 ELSE Cardinality(S)
  <2> HIDE DEF S, T
  <2>1. Cardinality(S \cup {Len(text) + 1}) = Cardinality(S) + 1
    BY <1>4, <1>5, FS_AddElement
  <2>2. QED BY <1>6, <2>1
<1>8. B!Tokens(text) = Cardinality(S) /\ B!Tokens(text') = Cardinality(T)
  BY TokensAre
<1>9. QED BY <1>3, <1>4, <1>7, <1>8

--------------------------------------------------------------------------------
(* The tokens nest. *)

(* Nothing is read, and nothing open, at the start. *)
LEMMA NestInit == Init => NestInv
<1> SUFFICES ASSUME Init PROVE NestInv
  OBVIOUS
<1>1. JTypeOK /\ Placed /\ InOrder
  BY JsonSizes DEF Init, JTypeOK, Placed, InOrder
<1>2. B!Tokens(text) = 0
  <2>1. {p \in DOMAIN text : text[p] \in Opening \cup Values} = {}
    BY DEF Init
  <2>2. QED BY <2>1, FS_EmptySet, TokensAre
<1>3. QED BY <1>1, <1>2 DEF Init, NestInv, Counted

(* A token is added behind all others, closed or the innermost one open. *)
LEMMA GrowNests ==
  ASSUME NestInv, NEW c \in Opening \cup Values, NEW e \in {0, Len(text) + 1},
         e = 0 <=> c \in Opening, Read(c), Len(toks) < NumTokens,
         toks' = Added(c, e), super' \in {super, Len(toks) + 1},
         count' = count + 1, UNCHANGED result
  PROVE  NestInv'
<1> DEFINE n == Len(toks)
           L == Len(text)
<1>0. JTypeOK /\ c \in Lexemes
  BY DEF NestInv, Lexemes
<1>1. /\ n \in Nat /\ DOMAIN toks = 1 .. n /\ L \in Nat /\ DOMAIN text = 1 .. L
      /\ NumTokens \in Nat /\ MaxLen \in Nat /\ super \in 0 .. n
      /\ \A i \in DOMAIN toks : /\ toks[i].type \in Opening \cup Values
                                /\ toks[i].start \in Nat /\ toks[i].end \in Nat
                                /\ toks[i].size \in Nat
  BY <1>0, TokTypes DEF JTypeOK
<1>2. /\ text' \in Seq(Lexemes) /\ Len(text') = L + 1
      /\ L + 1 <= MaxLen /\ DOMAIN text' = 1 .. L + 1
      /\ text'[L + 1] = c /\ \A p \in 1 .. L : text'[p] = text[p]
      /\ B!Tokens(text) \in Nat /\ B!Tokens(text') = B!Tokens(text) + 1
  BY <1>0, ReadIs
<1>3. /\ Len(toks') = n + 1 /\ DOMAIN toks' = 1 .. n + 1
      /\ toks'[n + 1].type = c /\ toks'[n + 1].start = L
      /\ toks'[n + 1].end = e /\ toks'[n + 1].size = 0
      /\ \A i \in 1 .. n :
           /\ toks'[i].type = toks[i].type /\ toks'[i].start = toks[i].start
           /\ toks'[i].end = toks[i].end
           /\ toks'[i].size = IF i = super THEN toks[i].size + 1 ELSE toks[i].size
  BY <1>0, <1>1, AddedFields, SMTT(30)
<1>3a. /\ toks' = [i \in 1 .. n + 1 |-> toks'[i]]
      /\ toks'[n + 1] = [type |-> c, start |-> L, end |-> e, size |-> 0]
      /\ \A i \in DOMAIN toks :
           toks'[i] = IF i = super THEN [toks[i] EXCEPT !.size = @ + 1] ELSE toks[i]
  BY <1>0, AddedIs
<1>4. Len(toks) <= L /\ result = "none" /\ count = n /\ B!Tokens(text) = n
  BY DEF NestInv, Placed, Counted, Read, Good
<1>5. c \in Opening => c \notin Values
  BY DEF Opening, Values
<1> HIDE DEF n, L
<1>6. Placed'
  <2> SUFFICES ASSUME NEW i \in 1 .. n + 1
               PROVE /\ toks'[i].start < L + 1 /\ toks'[i].type = text'[toks'[i].start + 1]
                     /\ toks'[i].end = 0 => toks'[i].type \in Opening
                     /\ toks'[i].end # 0 =>
                          /\ toks'[i].start < toks'[i].end /\ toks'[i].end <= L + 1
                          /\ toks'[i].type \in Opening =>
                               toks'[i].type = Closes(text'[toks'[i].end])
                     /\ toks'[i].size <= n + 1 - i
    BY <1>1, <1>2, <1>3, <1>4, SMTT(30) DEF Placed, n
  <2>1. CASE i = n + 1
    <3>1. /\ toks'[i].start = L /\ toks'[i].type = c /\ toks'[i].end = e /\ toks'[i].size = 0
          /\ text'[L + 1] = c /\ L \in Nat
      BY <1>1, <1>2, <1>3, <2>1 DEF L
    <3>2. L < L + 1 /\ L + 1 <= L + 1 /\ 0 <= n + 1 - i
      BY <1>1, <2>1, <3>1
    <3>3. QED BY <1>5, <3>1, <3>2 DEF L
  <2>2. CASE i # n + 1
    <3>1. i \in 1 .. n
      BY <1>1, <2>2
    <3>2. /\ toks[i].start < L /\ toks[i].type = text[toks[i].start + 1]
          /\ toks[i].end = 0 => toks[i].type \in Opening
          /\ toks[i].end # 0 =>
               /\ toks[i].start < toks[i].end /\ toks[i].end <= L
               /\ toks[i].type \in Opening => toks[i].type = Closes(text[toks[i].end])
          /\ toks[i].size <= n - i
      BY <1>1, <3>1 DEF NestInv, Placed, n, L
    <3>3. text'[toks[i].start + 1] = text[toks[i].start + 1]
      BY <1>1, <1>2, <3>1, <3>2, SMTT(30)
    <3>4. toks[i].end # 0 => text'[toks[i].end] = text[toks[i].end]
      BY <1>1, <1>2, <3>1, <3>2, SMTT(30)
    <3>5. toks'[i].size <= n + 1 - i
      BY <1>1, <1>3, <3>1, <3>2, SMTT(30)
    <3>6. toks'[i].type = toks[i].type /\ toks'[i].start = toks[i].start
          /\ toks'[i].end = toks[i].end
      BY <1>3, <3>1
    <3>7. toks[i].start < L + 1 /\ (toks[i].end <= L => toks[i].end <= L + 1)
      BY <1>1, <3>1, <3>2, SMTT(30)
    <3>8. QED BY <3>2, <3>3, <3>4, <3>5, <3>6, <3>7, Zenon
  <2>3. QED BY <2>1, <2>2
<1>7. InOrder'
  <2> SUFFICES ASSUME NEW i \in 1 .. n + 1, NEW j \in 1 .. n + 1, i < j
               PROVE  /\ toks'[i].start < toks'[j].start
                      /\ toks'[i].end # 0 =>
                           \/ toks'[i].end <= toks'[j].start
                           \/ toks'[j].end # 0 /\ toks'[j].end <= toks'[i].end
    BY <1>3 DEF InOrder
  <2>1. i \in 1 .. n
    BY <1>1
  <2>2. CASE j = n + 1
    BY <1>1, <1>3, <2>1, <2>2 DEF NestInv, Placed, L
  <2>3. CASE j # n + 1
    <3>1. j \in 1 .. n
      BY <1>1, <2>3
    <3>2. /\ toks[i].start < toks[j].start
          /\ toks[i].end # 0 => \/ toks[i].end <= toks[j].start
                                \/ toks[j].end # 0 /\ toks[j].end <= toks[i].end
      BY <1>1, <2>1, <3>1 DEF NestInv, InOrder
    <3>3. toks'[i].start = toks[i].start /\ toks'[i].end = toks[i].end
          /\ toks'[j].start = toks[j].start /\ toks'[j].end = toks[j].end
      BY <1>3, <2>1, <3>1
    <3>4. QED BY <3>2, <3>3, Zenon
  <2>4. QED BY <2>2, <2>3
<1>8. JTypeOK'
  <2>1. ASSUME NEW i \in 1 .. n + 1 PROVE toks'[i] \in Tok
    <3>1. toks'[i].size \in Nat /\ toks'[i].size <= MaxLen
      <4>1. toks'[i].size \in Nat
        <5>1. CASE i = n + 1
          BY <1>3, <5>1
        <5>2. CASE i \in 1 .. n
          BY <1>1, <1>3, <5>2, SMTT(30)
        <5>3. QED BY <1>1, <5>1, <5>2
      <4>2. toks'[i].size <= n + 1 - i
        BY <1>3, <1>6, SMTT(30) DEF Placed, n
      <4>3. n + 1 - i <= MaxLen
        BY <1>1, <1>2, <1>4 DEF n
      <4>4. QED BY <1>1, <4>1, <4>2, <4>3
    <3>2. CASE i = n + 1
      <4>1. toks'[i] = [type |-> c, start |-> L, end |-> e, size |-> 0]
        BY <1>3a, <3>2
      <4>2. L \in 0 .. MaxLen /\ e \in 0 .. MaxLen /\ 0 \in 0 .. MaxLen
        BY <1>1, <1>2 DEF L
      <4>3. QED BY <4>1, <4>2 DEF Tok
    <3>3. CASE i \in 1 .. n
      <4>1. toks[i] \in Tok
        BY <1>0, <1>1, <3>3, TokTypes
      <4>2. CASE i # super
        BY <1>1, <1>3a, <3>3, <4>1, <4>2
      <4>3. CASE i = super
        <5>1. toks'[i] = [toks[i] EXCEPT !.size = @ + 1]
          BY <1>1, <1>3a, <3>3, <4>3
        <5>2. toks[i].size + 1 \in 0 .. MaxLen
          BY <1>1, <1>3, <3>1, <3>3, <4>3
        <5>3. QED BY <4>1, <5>1, <5>2 DEF Tok
      <4>4. QED BY <4>2, <4>3
    <3>4. QED BY <1>1, <3>2, <3>3
  <2>2. toks' = [i \in 1 .. n + 1 |-> toks'[i]]
    BY <1>3a
  <2>3. toks' \in Seq(Tok)
    BY <1>1, <2>1, <2>2, TokSeq, SMTT(30)
  <2>4. super' \in 0 .. Len(toks') /\ count' \in 0 .. NumTokens + 1
        /\ Len(toks') <= NumTokens /\ result' = "none"
    BY <1>1, <1>3, <1>4 DEF n
  <2>5. QED BY <1>2, <2>3, <2>4 DEF JTypeOK, Tok
<1>9. Counted'
  <2>1. count' = Len(toks') /\ B!Tokens(text') = Len(toks') /\ result' = "none"
    BY <1>1, <1>2, <1>3, <1>4
  <2>2. QED BY <2>1 DEF Counted
<1>10. QED BY <1>6, <1>7, <1>8, <1>9 DEF NestInv

(* The innermost open bracket is closed: all that came after it is inside. *)
LEMMA CloseNests ==
  ASSUME NestInv, NEW c \in Closing, CloseBracket(c)
  PROVE  NestInv'
<1>0. JTypeOK /\ c \in Lexemes /\ Read(c)
  BY DEF NestInv, Lexemes, CloseBracket
<1>1. PICK n \in Nat, L \in Nat : n = Len(toks) /\ L = Len(text)
  BY <1>0, TokTypes, Zenon
<1>2. /\ DOMAIN toks = 1 .. n /\ DOMAIN text = 1 .. L
      /\ NumTokens \in Nat /\ MaxLen \in Nat /\ n <= NumTokens
      /\ \A i \in DOMAIN toks : /\ toks[i].type \in Opening \cup Values
                                /\ toks[i].start \in Nat /\ toks[i].end \in Nat
                                /\ toks[i].size \in Nat /\ toks[i] \in Tok
  BY <1>0, <1>1, TokTypes
<1>3. /\ text' \in Seq(Lexemes) /\ Len(text') = L + 1
      /\ L + 1 <= MaxLen /\ DOMAIN text' = 1 .. L + 1
      /\ text'[L + 1] = c /\ \A p \in 1 .. L : text'[p] = text[p]
      /\ B!Tokens(text') = B!Tokens(text)
  <2>1. c \notin Opening \cup Values
    BY DEF Closing, Opening, Values
  <2>2. QED BY <1>0, <1>1, <2>1, ReadIs
<1>4. PICK k : k = LastOpen(toks)
  OBVIOUS
<1>5. /\ k # 0 /\ toks[k].type = Closes(c)
      /\ toks' = [toks EXCEPT ![k].end = L + 1] /\ super' = LastOpen(toks')
      /\ UNCHANGED <<count, result>>
  BY <1>1, <1>4, Zenon DEF CloseBracket, Matches, CloseWith
<1>6. k \in 1 .. n /\ toks[k].end = 0 /\ \A j \in 1 .. n : j > k => toks[j].end # 0
  <2>1. toks \in Seq(Tok)
    BY <1>0 DEF JTypeOK, Tok
  <2>2. QED BY <1>2, <1>4, <1>5, <2>1, LastOpenIs
<1>7. /\ Len(toks') = n /\ DOMAIN toks' = 1 .. n
      /\ \A i \in 1 .. n :
           /\ toks'[i].type = toks[i].type /\ toks'[i].start = toks[i].start
           /\ toks'[i].size = toks[i].size
           /\ toks'[i].end = IF i = k THEN L + 1 ELSE toks[i].end
  BY <1>0, <1>1, <1>2, <1>5, <1>6, ClosedIs
<1>8. Placed'
  <2> SUFFICES ASSUME NEW i \in 1 .. n
               PROVE /\ toks'[i].start < L + 1 /\ toks'[i].type = text'[toks'[i].start + 1]
                     /\ toks'[i].end = 0 => toks'[i].type \in Opening
                     /\ toks'[i].end # 0 =>
                          /\ toks'[i].start < toks'[i].end /\ toks'[i].end <= L + 1
                          /\ toks'[i].type \in Opening =>
                               toks'[i].type = Closes(text'[toks'[i].end])
                     /\ toks'[i].size <= n - i
    <3>1. n <= L + 1
      BY <1>1 DEF NestInv, Placed
    <3>2. QED BY <1>3, <1>7, <3>1 DEF Placed
  <2>1. /\ toks[i].start < L /\ toks[i].type = text[toks[i].start + 1]
        /\ toks[i].end = 0 => toks[i].type \in Opening
        /\ toks[i].end # 0 =>
             /\ toks[i].start < toks[i].end /\ toks[i].end <= L
             /\ toks[i].type \in Opening => toks[i].type = Closes(text[toks[i].end])
        /\ toks[i].size <= n - i
    BY <1>1, <1>2 DEF NestInv, Placed
  <2>2. text'[toks[i].start + 1] = text[toks[i].start + 1]
    BY <1>2, <1>3, <2>1
  <2>3. CASE i # k
    <3>1. toks[i].end # 0 => text'[toks[i].end] = text[toks[i].end]
      BY <1>2, <1>3, <2>1
    <3>2. toks[i].start < L + 1 /\ (toks[i].end <= L => toks[i].end <= L + 1)
      BY <1>2, <2>1
    <3>3. /\ toks'[i].type = toks[i].type /\ toks'[i].start = toks[i].start
          /\ toks'[i].size = toks[i].size /\ toks'[i].end = toks[i].end
      BY <1>7, <2>3
    <3>4. QED BY <2>1, <2>2, <3>1, <3>2, <3>3, Zenon
  <2>4. CASE i = k
    <3>1. toks[i].start < L + 1 /\ L + 1 # 0 /\ L + 1 <= L + 1
      BY <1>2, <2>1
    <3>2. /\ toks'[i].type = toks[i].type /\ toks'[i].start = toks[i].start
          /\ toks'[i].size = toks[i].size /\ toks'[i].end = L + 1
      BY <1>7, <2>4
    <3>3. QED BY <1>3, <1>5, <2>1, <2>2, <2>4, <3>1, <3>2, Zenon
  <2>5. QED BY <2>3, <2>4
<1>9. InOrder'
  <2> SUFFICES ASSUME NEW i \in 1 .. n, NEW j \in 1 .. n, i < j
               PROVE  /\ toks'[i].start < toks'[j].start
                      /\ toks'[i].end # 0 =>
                           \/ toks'[i].end <= toks'[j].start
                           \/ toks'[j].end # 0 /\ toks'[j].end <= toks'[i].end
    BY <1>7 DEF InOrder
  <2>1. /\ toks[i].start < toks[j].start
        /\ toks[i].end # 0 => \/ toks[i].end <= toks[j].start
                              \/ toks[j].end # 0 /\ toks[j].end <= toks[i].end
    BY <1>2 DEF NestInv, InOrder
  <2>2. toks'[i].start = toks[i].start /\ toks'[j].start = toks[j].start
    BY <1>7
  <2>3. toks[j].end # 0 => toks[j].end <= L
    BY <1>1, <1>2 DEF NestInv, Placed
  <2>4. CASE i = k
    <3>1. toks[j].end # 0 /\ toks'[j].end = toks[j].end /\ toks'[i].end = L + 1
      BY <1>2, <1>6, <1>7, <2>4
    <3>2. toks[j].end <= L + 1
      BY <1>2, <2>3, <3>1
    <3>3. QED BY <2>1, <2>2, <3>1, <3>2, Zenon
  <2>5. CASE j = k
    <3>1. toks'[i].end = toks[i].end /\ toks[j].end = 0
      BY <1>6, <1>7, <2>5
    <3>2. QED BY <2>1, <2>2, <3>1
  <2>6. CASE i # k /\ j # k
    <3>1. toks'[i].end = toks[i].end /\ toks'[j].end = toks[j].end
      BY <1>7, <2>6
    <3>2. QED BY <2>1, <2>2, <3>1, Zenon
  <2>7. QED BY <2>4, <2>5, <2>6
<1>10. JTypeOK'
  <2>1. ASSUME NEW i \in 1 .. n PROVE toks'[i] \in Tok
    <3>1. toks'[i] = IF i = k THEN [toks[i] EXCEPT !.end = L + 1] ELSE toks[i]
      BY <1>0, <1>2, <1>5, <1>6, ClosedIs
    <3>2. L + 1 \in 0 .. MaxLen
      BY <1>3
    <3>3. QED BY <1>2, <3>1, <3>2 DEF Tok
  <2>2. toks' = [i \in 1 .. n |-> toks'[i]]
    BY <1>0, <1>1, <1>2, <1>5, <1>6, ClosedIs
  <2>3. toks' \in Seq(Tok)
    BY <2>1, <2>2, TokSeq
  <2>4. super' \in 0 .. n
    <3>1. LastOpen(toks') = 0 \/ LastOpen(toks') \in 1 .. n
      BY <1>7, <2>3, LastOpenIs
    <3>2. QED BY <1>1, <1>5, <3>1
  <2>5. count' \in 0 .. NumTokens + 1 /\ result' \in {"none", "ok", "inval", "part", "nomem"}
    BY <1>0, <1>5 DEF JTypeOK
  <2>6. QED BY <1>2, <1>3, <1>7, <2>3, <2>4, <2>5 DEF JTypeOK, Tok
<1>11. Counted'
  BY <1>0, <1>1, <1>3, <1>5, <1>7 DEF NestInv, Counted, Good, Read
<1>12. QED BY <1>8, <1>9, <1>10, <1>11 DEF NestInv

(* A lexeme that makes no token leaves the tokens where they are. *)
LEMMA ReadNests ==
  ASSUME NestInv, NEW c \in Lexemes, Read(c), UNCHANGED toks,
         super' \in 0 .. Len(toks),
         count' = count \/ (count' = count + 1 /\ result' # "none"),
         \/ UNCHANGED <<count, result>> /\ c \notin Opening \cup Values
         \/ result' \in {"inval", "part", "nomem"}
  PROVE  NestInv'
<1>0. JTypeOK
  BY DEF NestInv
<1>1. PICK n \in Nat, L \in Nat : n = Len(toks) /\ L = Len(text)
  BY <1>0, TokTypes, Zenon
<1>2. /\ DOMAIN toks = 1 .. n /\ DOMAIN text = 1 .. L
      /\ NumTokens \in Nat /\ MaxLen \in Nat /\ n <= NumTokens
      /\ \A i \in DOMAIN toks : toks[i].start \in Nat /\ toks[i].end \in Nat
  BY <1>0, <1>1, TokTypes
<1>3. /\ text' \in Seq(Lexemes) /\ Len(text') = L + 1 /\ L + 1 <= MaxLen
      /\ \A p \in 1 .. L : text'[p] = text[p]
      /\ c \notin Opening \cup Values => B!Tokens(text') = B!Tokens(text)
  BY <1>0, <1>1, ReadIs
<1>4. count = n /\ B!Tokens(text) = n /\ result = "none"
  BY <1>1 DEF NestInv, Counted, Good, Read
<1>5. Placed'
  <2> SUFFICES ASSUME NEW i \in 1 .. n
               PROVE /\ toks[i].start < L + 1 /\ toks[i].type = text'[toks[i].start + 1]
                     /\ toks[i].end = 0 => toks[i].type \in Opening
                     /\ toks[i].end # 0 =>
                          /\ toks[i].start < toks[i].end /\ toks[i].end <= L + 1
                          /\ toks[i].type \in Opening =>
                               toks[i].type = Closes(text'[toks[i].end])
                     /\ toks[i].size <= n - i
    <3>1. n <= L + 1
      BY <1>1 DEF NestInv, Placed
    <3>2. QED BY <1>1, <1>2, <1>3, <3>1 DEF Placed
  <2>1. /\ toks[i].start < L /\ toks[i].type = text[toks[i].start + 1]
        /\ toks[i].end = 0 => toks[i].type \in Opening
        /\ toks[i].end # 0 =>
             /\ toks[i].start < toks[i].end /\ toks[i].end <= L
             /\ toks[i].type \in Opening => toks[i].type = Closes(text[toks[i].end])
        /\ toks[i].size <= n - i
    BY <1>1, <1>2 DEF NestInv, Placed
  <2>2. text'[toks[i].start + 1] = text[toks[i].start + 1]
    BY <1>2, <1>3, <2>1, SMTT(30)
  <2>3. toks[i].end # 0 => text'[toks[i].end] = text[toks[i].end]
    BY <1>2, <1>3, <2>1, SMTT(30)
  <2>4. toks[i].start < L + 1 /\ (toks[i].end <= L => toks[i].end <= L + 1)
    BY <1>2, <2>1
  <2>5. QED BY <2>1, <2>2, <2>3, <2>4, Zenon
<1>6. InOrder'
  BY DEF NestInv, InOrder
<1>7. JTypeOK'
  <2>1. count' \in 0 .. NumTokens + 1
    BY <1>2, <1>4
  <2>2. QED BY <1>0, <1>1, <1>3, <2>1 DEF JTypeOK
<1>8. Counted'
  BY <1>1, <1>3, <1>4 DEF Counted, Good
<1>9. QED BY <1>5, <1>6, <1>7, <1>8 DEF NestInv

(* Every step keeps the tokens nested. *)
LEMMA NestStep == NestInv /\ [Next]_vars => NestInv'
<1> SUFFICES ASSUME NestInv, [Next]_vars PROVE NestInv'
  OBVIOUS
<1>0. JTypeOK
  BY DEF NestInv
<1>1. super \in 0 .. Len(toks) /\ Len(toks) \in 0 .. Len(toks) /\ Len(text) \in Nat
  BY <1>0, TokTypes DEF JTypeOK
<1>2. ASSUME NEW c \in Opening, OpenBracket(c) PROVE NestInv'
  BY <1>2, GrowNests DEF OpenBracket
<1>3. ASSUME NEW c \in Closing, CloseBracket(c) PROVE NestInv'
  BY <1>3, CloseNests
<1>4. ASSUME NEW c \in Closing, Unmatched(c) PROVE NestInv'
  BY <1>1, <1>4, ReadNests DEF Unmatched, Lexemes
<1>5. ASSUME NEW c \in Values, Value(c) PROVE NestInv'
  <2>0. c \notin Opening
    BY DEF Opening, Values
  <2>1. c \notin Opening /\ Len(text) + 1 # 0
    BY <1>1, <2>0
  <2>2. QED BY <1>5, <2>1, GrowNests DEF Value
<1>6. ASSUME NEW c \in Opening \cup Values, NoMem(c) PROVE NestInv'
  <2>1. c \in Lexemes /\ result' = "nomem" /\ (count' = count \/ count' = count + 1)
    BY <1>6 DEF NoMem, Lexemes
  <2>2. QED BY <1>1, <1>6, <2>1, ReadNests DEF NoMem
<1>7. ASSUME NEW c \in Blank, Separator(c) PROVE NestInv'
  <2>1. c \in Lexemes /\ c \notin Opening \cup Values
    BY DEF Lexemes, Blank, Opening, Values
  <2>2. super' \in 0 .. Len(toks)
    BY <1>1, <1>7 DEF Separator
  <2>3. QED BY <1>7, <2>1, <2>2, ReadNests DEF Separator
<1>8. ASSUME NEW c \in Broken, Break(c) PROVE NestInv'
  <2>1. c \in Lexemes /\ c \in {"inval", "part", "nomem"}
    BY DEF Lexemes, Broken
  <2>2. /\ Read(c) /\ result' = c /\ UNCHANGED <<toks, super, count>>
    BY <1>8 DEF Break
  <2> HIDE DEF Broken
  <2>3. QED BY <1>1, <2>1, <2>2, ReadNests
<1>9. ASSUME EndOfText PROVE NestInv'
  <2>1. /\ result = "none" /\ UNCHANGED <<text, toks, super, count>>
        /\ result' \in {"part", "ok"} /\ (result' = "ok" => LastOpen(toks) = 0)
    BY <1>9 DEF EndOfText
  <2>2. JTypeOK' /\ Placed' /\ InOrder'
    BY <2>1 DEF NestInv, JTypeOK, Placed, InOrder
  <2>3. Counted'
    BY <2>1 DEF NestInv, Counted, Good
  <2>4. QED BY <2>2, <2>3 DEF NestInv
<1>10. CASE UNCHANGED vars
  <2>1. UNCHANGED <<text, toks, super, count, result>>
    BY <1>10 DEF vars
  <2>2. QED BY <2>1 DEF NestInv, JTypeOK, Placed, InOrder, Counted, Good, B!Tokens
<1>11. QED
  BY <1>2, <1>3, <1>4, <1>5, <1>6, <1>7, <1>8, <1>9, <1>10 DEF Next

(* The parser never leaves its pool, nor its text, and no size outgrows it. *)
THEOREM JsonTypes == Spec => []JTypeOK
<1>1. NestInv => JTypeOK
  BY DEF NestInv
<1>2. QED BY NestInit, NestStep, <1>1, PTL DEF Spec

(* In a text that is accepted every token has its end, a bracket the right one,
   and any two are nested or apart: what json_viewer_ui copies is in the text. *)
THEOREM TokensAreNested == Spec => []TokensNest
<1>1. NestInv => TokensNest
  <2> SUFFICES ASSUME NestInv, result = "ok" PROVE
          /\ count = Len(toks)
          /\ \A i \in DOMAIN toks : /\ toks[i].start < toks[i].end
                                    /\ toks[i].type \in Opening =>
                                         toks[i].type = Closes(text[toks[i].end])
          /\ \A i, j \in DOMAIN toks : i < j => Apart(toks[i], toks[j]) \/ Nested(toks[i], toks[j])
    BY DEF TokensNest
  <2>1. count = Len(toks) /\ LastOpen(toks) = 0
    BY DEF NestInv, Counted, Good
  <2>2. toks \in Seq(Tok) /\ DOMAIN toks \subseteq Nat \ {0}
    BY SMTT(30) DEF NestInv, JTypeOK, Tok
  <2>3. \A i \in DOMAIN toks : toks[i].end # 0
    BY <2>1, <2>2, LastOpenIs
  <2>4. QED BY <2>1, <2>3 DEF NestInv, Placed, InOrder, Apart, Nested
<1>2. QED BY NestInit, NestStep, <1>1, PTL DEF Spec

--------------------------------------------------------------------------------
(* The parser is a parser with a stack of brackets. *)

(* The last open token is the innermost bracket. *)
LEMMA InnermostIs ==
  ASSUME NestInv
  PROVE  /\ LastOpen(toks) = 0 <=> OpenAt = {}
         /\ LastOpen(toks) # 0 => B!Max(OpenAt) = toks[LastOpen(toks)].start + 1
         /\ LastOpen(toks) # 0 =>
              text[toks[LastOpen(toks)].start + 1] = toks[LastOpen(toks)].type
<1>0. JTypeOK
  BY DEF NestInv
<1>1. PICK n \in Nat, L \in Nat : n = Len(toks) /\ L = Len(text)
  BY <1>0, TokTypes, Zenon
<1>2. /\ DOMAIN toks = 1 .. n
      /\ \A i \in 1 .. n : toks[i].start \in Nat /\ toks[i].start < L
                           /\ toks[i].type = text[toks[i].start + 1]
  BY <1>0, <1>1, TokTypes DEF NestInv, Placed
<1>3. PICK k : k = LastOpen(toks)
  OBVIOUS
<1>4. \/ k = 0 /\ \A i \in 1 .. n : toks[i].end # 0
      \/ k \in 1 .. n /\ toks[k].end = 0 /\ \A j \in 1 .. n : j > k => toks[j].end # 0
  <2>1. toks \in Seq(Tok)
    BY <1>0 DEF JTypeOK, Tok
  <2>2. QED BY <1>2, <1>3, <2>1, LastOpenIs
<1>5. OpenAt = {toks[i].start + 1 : i \in {j \in 1 .. n : toks[j].end = 0}}
  BY <1>2 DEF OpenAt, IsOpen
<1>6. CASE k = 0
  <2>1. {j \in 1 .. n : toks[j].end = 0} = {}
    BY <1>4, <1>6
  <2>2. QED BY <1>3, <1>5, <1>6, <2>1
<1>7. CASE k \in 1 .. n
  <2>1. toks[k].start + 1 \in OpenAt
    BY <1>4, <1>5, <1>7
  <2>2. OpenAt \subseteq 1 .. L
    BY <1>2, <1>5
  <2>3. Max(OpenAt) \in OpenAt /\ \A x \in OpenAt : x <= Max(OpenAt)
    BY <1>1, <2>1, <2>2, LastIndex
  <2>4. PICK i \in 1 .. n : toks[i].end = 0 /\ Max(OpenAt) = toks[i].start + 1
    BY <1>5, <2>3
  <2>5. i <= k
    BY <1>4, <1>7, <2>4
  <2>6. i < k => toks[i].start < toks[k].start
    BY <1>2, <1>7 DEF NestInv, InOrder
  <2>7. toks[k].start + 1 <= toks[i].start + 1
    BY <2>1, <2>3, <2>4
  <2>8. i = k
    BY <1>2, <1>7, <2>5, <2>6, <2>7
  <2>9. B!Max(OpenAt) = Max(OpenAt)
    BY DEF B!Max, Max
  <2>10. QED BY <1>2, <1>3, <1>7, <2>1, <2>4, <2>8, <2>9
<1>8. QED BY <1>4, <1>6, <1>7

(* A token added is open, or changes nothing of what is. *)
LEMMA OpenAtGrows ==
  ASSUME JTypeOK, NEW c, NEW e \in Nat, toks' = Added(c, e)
  PROVE  OpenAt' = IF e = 0 THEN OpenAt \cup {Len(text) + 1} ELSE OpenAt
<1>1. PICK n \in Nat : n = Len(toks) /\ DOMAIN toks = 1 .. n
  BY TokTypes, Zenon
<1>2. /\ DOMAIN toks' = 1 .. n + 1
      /\ toks'[n + 1].start = Len(text) /\ toks'[n + 1].end = e
      /\ \A i \in 1 .. n : toks'[i].start = toks[i].start /\ toks'[i].end = toks[i].end
  BY <1>1, AddedFields
<1>3. \A x : x \in OpenAt' <=> \E i \in 1 .. n + 1 : toks'[i].end = 0 /\ x = toks'[i].start + 1
  BY <1>2 DEF OpenAt, IsOpen
<1>4. \A x : x \in OpenAt <=> \E i \in 1 .. n : toks[i].end = 0 /\ x = toks[i].start + 1
  BY <1>1 DEF OpenAt, IsOpen
<1>5. 1 .. n + 1 = 1 .. n \cup {n + 1}
  OBVIOUS
<1>6. ASSUME NEW x
      PROVE  x \in OpenAt' <=> x \in OpenAt \/ (e = 0 /\ x = Len(text) + 1)
  <2>1. x \in OpenAt' <=> \/ \E i \in 1 .. n : toks'[i].end = 0 /\ x = toks'[i].start + 1
                          \/ toks'[n + 1].end = 0 /\ x = toks'[n + 1].start + 1
    BY <1>3, <1>5, Zenon
  <2>2. (\E i \in 1 .. n : toks'[i].end = 0 /\ x = toks'[i].start + 1)
           <=> \E i \in 1 .. n : toks[i].end = 0 /\ x = toks[i].start + 1
    BY <1>2, Zenon
  <2>3. toks'[n + 1].end = 0 /\ x = toks'[n + 1].start + 1 <=> e = 0 /\ x = Len(text) + 1
    BY <1>2, Zenon
  <2>4. QED BY <1>4, <2>1, <2>2, <2>3, Zenon
<1>7. QED BY <1>6

(* Each step is the step of that name, or accepts or refuses as it does. *)
LEMMA StepOfBrackets == NestInv /\ [Next]_vars => [B!Step(Closing, Blank)]_<<text, toks, result>>
<1> SUFFICES ASSUME NestInv, [Next]_vars
             PROVE  B!Step(Closing, Blank) \/ UNCHANGED <<text, toks, result>>
  OBVIOUS
<1>0. JTypeOK /\ NestInv'
  BY NestStep DEF NestInv
<1>1. Len(toks) \in Nat /\ Len(text) \in Nat /\ Len(toks) <= NumTokens /\ NumTokens \in Nat
  BY <1>0, TokTypes
<1>2. ASSUME NEW c \in Lexemes, Read(c)
      PROVE  /\ B!Read(c) /\ Len(text') = Len(text) + 1
             /\ c \notin Opening \cup Values => B!Fits
             /\ c \in Opening \cup Values => (B!Fits <=> Len(toks) < NumTokens)
  <2>1. B!Tokens(text) = Len(toks)
    BY <1>2 DEF NestInv, Counted, Read
  <2>2. /\ Len(text') = Len(text) + 1
        /\ c \notin Opening \cup Values => B!Tokens(text') = Len(toks)
        /\ c \in Opening \cup Values => B!Tokens(text') = Len(toks) + 1
    BY <1>0, <1>2, <2>1, ReadIs
  <2>3. B!Read(c)
    BY <1>2 DEF Read, B!Read
  <2>4. QED BY <1>1, <2>2, <2>3 DEF B!Fits
<1>3. UNCHANGED toks => UNCHANGED OpenAt
  BY DEF OpenAt
<1>4. ASSUME NEW c \in Closing PROVE B!Matches(c) <=> Matches(c)
  BY InnermostIs DEF Matches, B!Matches
<1>5. ASSUME NEW c \in Opening, OpenBracket(c) PROVE B!Open(c)
  <2>1. c \in Lexemes /\ Read(c) /\ Len(toks) < NumTokens /\ toks' = Added(c, 0) /\ UNCHANGED result
    BY <1>5 DEF OpenBracket, Lexemes
  <2>2. OpenAt' = OpenAt \cup {Len(text) + 1}
    BY <1>0, <2>1, OpenAtGrows
  <2>3. QED BY <1>2, <2>1, <2>2 DEF B!Open
<1>6. ASSUME NEW c \in Closing, CloseBracket(c) PROVE B!Close(c)
  <2>1. c \in Lexemes /\ Read(c) /\ Matches(c)
    BY <1>6 DEF CloseBracket, Lexemes
  <2>2. PICK k : k = LastOpen(toks)
    OBVIOUS
  <2>3. k # 0 /\ toks' = [toks EXCEPT ![k].end = Len(text) + 1] /\ UNCHANGED result
    BY <1>6, <2>2, Zenon DEF CloseBracket, Matches, CloseWith
  <2>4. PICK n \in Nat : n = Len(toks) /\ DOMAIN toks = 1 .. n
    BY <1>0, TokTypes, Zenon
  <2>5. k \in 1 .. n /\ toks[k].end = 0
    <3>1. toks \in Seq(Tok)
      BY <1>0 DEF JTypeOK, Tok
    <3>2. QED BY <2>2, <2>3, <2>4, <3>1, LastOpenIs
  <2>6. /\ DOMAIN toks' = 1 .. n
        /\ \A i \in 1 .. n : /\ toks'[i].start = toks[i].start
                             /\ toks'[i].end = IF i = k THEN Len(text) + 1 ELSE toks[i].end
    BY <1>0, <2>3, <2>4, <2>5, ClosedIs
  <2>7. \A i, j \in 1 .. n : /\ toks[i].start \in Nat
                             /\ toks[i].start = toks[j].start => i = j
    <3>1. \A i, j \in 1 .. n : i < j => toks[i].start < toks[j].start
      BY <2>4 DEF NestInv, InOrder
    <3>2. \A i \in 1 .. n : toks[i].start \in Nat
      BY <1>0, <2>4, TokTypes
    <3>3. QED BY <3>1, <3>2
  <2>8. OpenAt' = OpenAt \ {toks[k].start + 1}
    <3>1. OpenAt' = {toks'[i].start + 1 : i \in {j \in 1 .. n : toks'[j].end = 0}}
      BY <2>6 DEF OpenAt, IsOpen
    <3>2. OpenAt = {toks[i].start + 1 : i \in {j \in 1 .. n : toks[j].end = 0}}
      BY <2>4 DEF OpenAt, IsOpen
    <3>3. {j \in 1 .. n : toks'[j].end = 0} = {j \in 1 .. n : toks[j].end = 0} \ {k}
      BY <1>1, <2>6
    <3>4. OpenAt' = {toks[i].start + 1 : i \in {j \in 1 .. n : toks[j].end = 0} \ {k}}
      BY <2>6, <3>1, <3>3
    <3>5. QED BY <2>5, <2>7, <3>2, <3>4
  <2>9. B!Max(OpenAt) = toks[k].start + 1
    BY <2>2, <2>3, InnermostIs
  <2>10. QED BY <1>2, <1>4, <2>1, <2>3, <2>8, <2>9 DEF B!Close
<1>7. ASSUME NEW c \in Closing, Unmatched(c) PROVE B!Mismatch(c)
  <2>1. c \in Lexemes
    BY DEF Lexemes
  <2>2. QED BY <1>2, <1>3, <1>4, <1>7, <2>1 DEF Unmatched, B!Mismatch
<1>8. ASSUME NEW c \in Values, Value(c) PROVE B!Other(c)
  <2>1. c \in Lexemes /\ Read(c) /\ Len(toks) < NumTokens
        /\ toks' = Added(c, Len(text) + 1) /\ UNCHANGED result
    BY <1>8 DEF Value, Lexemes
  <2>2. OpenAt' = OpenAt
    BY <1>0, <1>1, <2>1, OpenAtGrows
  <2>3. QED BY <1>2, <2>1, <2>2 DEF B!Other
<1>9. ASSUME NEW c \in Opening \cup Values, NoMem(c) PROVE B!TooMany(c)
  <2>1. c \in Lexemes /\ Read(c) /\ Len(toks) = NumTokens /\ result' = "nomem" /\ UNCHANGED toks
    BY <1>9 DEF NoMem, Lexemes
  <2>2. ~B!Fits
    BY <1>1, <1>2, <2>1
  <2>3. QED BY <1>2, <1>3, <2>1, <2>2 DEF B!TooMany
<1>10. ASSUME NEW c \in Blank, Separator(c) PROVE B!Other(c)
  <2>1. c \in Lexemes /\ c \notin Opening \cup Values
    BY DEF Lexemes, Blank, Opening, Values
  <2>2. QED BY <1>2, <1>3, <1>10, <2>1 DEF Separator, B!Other
<1>11. ASSUME NEW c \in Broken, Break(c) PROVE B!Break(c)
  <2>1. c \in Lexemes
    BY DEF Lexemes
  <2>2. QED BY <1>2, <1>3, <1>11, <2>1 DEF Break, B!Break
<1>12. ASSUME EndOfText PROVE B!End
  BY <1>3, <1>12, InnermostIs DEF EndOfText, B!End
<1>13. QED
  BY <1>5, <1>6, <1>7, <1>8, <1>9, <1>10, <1>11, <1>12 DEF Next, vars, B!Step

(* jsmn_parse, which keeps no stack but looks back through its tokens for one
   without an end, accepts, refuses and runs out of tokens as a parser with a
   stack of brackets does. *)
THEOREM JsonIsAStackParser == Spec => ImplementsBrackets
<1>1. Init => B!Begin
  BY DEF Init, B!Begin, OpenAt
<1>2. QED BY <1>1, NestInit, NestStep, StepOfBrackets, PTL DEF Spec, ImplementsBrackets

--------------------------------------------------------------------------------
(* The sizes. *)

(* What a step does to where the tokens stand: one more token that begins where
   the text ended, or an end given to one that was open, or nothing. *)
Grown ==
  /\ Len(toks') \in {Len(toks), Len(toks) + 1} /\ DOMAIN toks' = 1 .. Len(toks')
  /\ \A i \in DOMAIN toks :
       /\ toks'[i].start = toks[i].start /\ toks'[i].type = toks[i].type
       /\ \/ toks'[i].end = toks[i].end
          \/ toks[i].end = 0 /\ toks'[i].end = Len(text) + 1
  /\ Len(toks') = Len(toks) + 1 =>
       /\ toks'[Len(toks')].start = Len(text)
       /\ toks'[Len(toks')].end \in {0, Len(text) + 1}

(* Where a lexeme already read belongs does not change. *)
LEMMA InnermostKept ==
  ASSUME NestInv, Grown, NEW n \in Nat, n = Len(toks), NEW p \in Nat, p <= Len(text)
  PROVE  /\ \A i \in DOMAIN toks : Innermost(p, i)' <=> Innermost(p, i)
         /\ Len(toks') = n + 1 => ~Innermost(p, n + 1)'
<1>1. PICK L \in Nat : n = Len(toks) /\ L = Len(text)
  BY TokTypes DEF NestInv
<1>2. /\ DOMAIN toks = 1 .. n
      /\ \A i \in DOMAIN toks : toks[i].start \in Nat /\ toks[i].end \in Nat
  BY <1>1, TokTypes DEF NestInv
<1>3. \A i \in 1 .. n : In(p, i)' <=> In(p, i)
  <2> SUFFICES ASSUME NEW i \in 1 .. n PROVE In(p, i)' <=> In(p, i)
    OBVIOUS
  <2>1. /\ toks'[i].start = toks[i].start
        /\ \/ toks'[i].end = toks[i].end
           \/ toks[i].end = 0 /\ toks'[i].end = L + 1
    BY Zenon, <1>1, <1>2 DEF Grown
  <2>2. p < L + 1 /\ L + 1 # 0
    BY <1>1
  <2>3. QED BY <2>1, <2>2 DEF In
<1>4. Len(toks') = n + 1 => ~In(p, n + 1)'
  BY <1>1 DEF Grown, In
<1>5. DOMAIN toks' = 1 .. n \/ (DOMAIN toks' = 1 .. n + 1 /\ Len(toks') = n + 1)
  BY Zenon, <1>1 DEF Grown
<1>6. \A i \in 1 .. n : toks'[i].start = toks[i].start
  BY Zenon, <1>2 DEF Grown
<1>7. 1 .. n + 1 = 1 .. n \cup {n + 1}
  BY <1>1
<1>8. ASSUME NEW i \in 1 .. n PROVE Innermost(p, i)' <=> Innermost(p, i)
  <2>1. CASE DOMAIN toks' = 1 .. n
    BY <1>2, <1>3, <1>6, <2>1 DEF Innermost
  <2>2. CASE DOMAIN toks' = 1 .. n + 1 /\ Len(toks') = n + 1
    BY <1>2, <1>3, <1>4, <1>6, <1>7, <2>2 DEF Innermost
  <2>3. QED BY <1>5, <2>1, <2>2
<1>9. Len(toks') = n + 1 => ~Innermost(p, n + 1)'
  BY <1>4 DEF Innermost
<1>10. QED BY <1>1, <1>2, <1>8, <1>9

(* What comes next belongs to the last open token. *)
LEMMA InnermostAtEnd ==
  ASSUME NestInv, NEW i \in DOMAIN toks
  PROVE  Innermost(Len(text), i) <=> i = LastOpen(toks)
<1>1. PICK n \in Nat, L \in Nat : n = Len(toks) /\ L = Len(text)
  BY TokTypes, Zenon DEF NestInv
<1>2. /\ DOMAIN toks = 1 .. n
      /\ \A j \in DOMAIN toks : toks[j].start \in Nat /\ toks[j].end \in Nat
  BY <1>1, TokTypes DEF NestInv
<1>3. \A j \in 1 .. n : In(L, j) <=> toks[j].end = 0
  BY <1>1, <1>2, SMTT(30) DEF NestInv, Placed, In
<1>4. \/ LastOpen(toks) = 0 /\ \A j \in 1 .. n : toks[j].end # 0
      \/ /\ LastOpen(toks) \in 1 .. n /\ toks[LastOpen(toks)].end = 0
         /\ \A j \in 1 .. n : j > LastOpen(toks) => toks[j].end # 0
  <2>1. toks \in Seq(Tok)
    BY DEF NestInv, JTypeOK, Tok
  <2>2. QED BY <1>2, <2>1, LastOpenIs
<1>5. \A j, k \in 1 .. n : j < k => toks[j].start < toks[k].start
  BY <1>2 DEF NestInv, InOrder
<1> HIDE DEF LastOpen
<1>6. PICK k : k = LastOpen(toks)
  OBVIOUS
<1>7. ASSUME Innermost(L, i) PROVE i = k
  <2>1. toks[i].end = 0 /\ k \in 1 .. n /\ toks[k].end = 0 /\ i <= k
    BY <1>2, <1>3, <1>4, <1>6, <1>7 DEF Innermost
  <2>2. toks[k].start <= toks[i].start
    BY <1>2, <1>3, <1>7, <2>1 DEF Innermost
  <2>3. QED BY <1>2, <1>5, <2>1, <2>2
<1>8. ASSUME i = k PROVE Innermost(L, i)
  <2>1. k \in 1 .. n /\ toks[k].end = 0 /\ \A j \in 1 .. n : j > k => toks[j].end # 0
    BY <1>2, <1>4, <1>6, <1>8
  <2>2. ASSUME NEW j \in 1 .. n, In(L, j) PROVE toks[j].start <= toks[k].start
    <3>1. j <= k
      BY <1>3, <2>1, <2>2
    <3>2. QED BY <1>2, <1>5, <2>1, <3>1
  <2>3. QED BY <1>2, <1>3, <1>8, <2>1, <2>2 DEF Innermost
<1>9. QED BY <1>1, <1>6, <1>7, <1>8

(* A colon comes in the last open token. *)
LEMMA ColonKept ==
  ASSUME NestInv, Grown, NEW n \in Nat, n = Len(toks), NEW c \in Lexemes, Read(c)
  PROVE  /\ \A i \in DOMAIN toks :
              ColonIn(i)' <=> ColonIn(i) \/ (c = "colon" /\ i = LastOpen(toks))
         /\ Len(toks') = n + 1 => ~ColonIn(n + 1)'
<1>0. JTypeOK
  BY DEF NestInv
<1>1. PICK L \in Nat : n = Len(toks) /\ L = Len(text)
  BY <1>0, TokTypes
<1>2. DOMAIN toks = 1 .. n /\ DOMAIN text = 1 .. L
  BY <1>0, <1>1, TokTypes
<1>3. /\ DOMAIN text' = 1 .. L + 1 /\ text'[L + 1] = c
      /\ \A p \in 1 .. L : text'[p] = text[p]
  BY <1>0, <1>1, ReadIs
<1>4. \A p \in 1 .. L + 1 : p - 1 \in Nat /\ p - 1 <= Len(text)
  BY <1>1
<1>5. ASSUME NEW i \in 1 .. n
      PROVE  ColonIn(i)' <=> ColonIn(i) \/ (c = "colon" /\ i = LastOpen(toks))
  <2>1. \A p \in 1 .. L + 1 : Innermost(p - 1, i)' <=> Innermost(p - 1, i)
    BY <1>2, <1>4, InnermostKept
  <2>2. ColonIn(i)' <=> \E p \in 1 .. L + 1 : text'[p] = "colon" /\ Innermost(p - 1, i)
    BY <1>3, <2>1 DEF ColonIn
  <2>3. Innermost(L + 1 - 1, i) <=> i = LastOpen(toks)
    <3>1. L + 1 - 1 = Len(text)
      BY <1>1
    <3>2. QED BY <1>2, <3>1, InnermostAtEnd
  <2>4. 1 .. L + 1 = 1 .. L \cup {L + 1}
    BY <1>1
  <2> HIDE DEF Innermost
  <2>5. (\E p \in 1 .. L + 1 : text'[p] = "colon" /\ Innermost(p - 1, i))
          <=> \/ \E p \in 1 .. L : text[p] = "colon" /\ Innermost(p - 1, i)
              \/ c = "colon" /\ Innermost(L + 1 - 1, i)
    BY <1>3, <2>4
  <2>6. QED BY <1>2, <2>2, <2>3, <2>5 DEF ColonIn
<1>6. ASSUME Len(toks') = n + 1 PROVE ~ColonIn(n + 1)'
  <2>1. \A p \in 1 .. L + 1 : ~Innermost(p - 1, n + 1)'
    BY <1>1, <1>4, <1>6, InnermostKept
  <2>2. QED BY <1>3, <2>1 DEF ColonIn
<1>7. QED BY <1>1, <1>2, <1>5, <1>6

(* A token added stands directly in the last open one. *)
LEMMA KidsKept ==
  ASSUME NestInv, Grown, NEW n \in Nat, n = Len(toks)
  PROVE  /\ \A i \in DOMAIN toks : Cardinality(Kids(i))' =
              IF Len(toks') = n + 1 /\ i = LastOpen(toks)
              THEN Cardinality(Kids(i)) + 1 ELSE Cardinality(Kids(i))
         /\ Len(toks') = n + 1 => Cardinality(Kids(n + 1))' = 0
         /\ \A i \in DOMAIN toks : Cardinality(Kids(i)) \in Nat
<1>0. JTypeOK
  BY DEF NestInv
<1>1. PICK L \in Nat : n = Len(toks) /\ L = Len(text)
  BY <1>0, TokTypes
<1>2. /\ DOMAIN toks = 1 .. n
      /\ \A j \in 1 .. n : toks[j].start \in Nat /\ toks[j].start <= L
                           /\ toks'[j].start = toks[j].start
  <2>1. DOMAIN toks = 1 .. n /\ \A j \in 1 .. n : toks[j].start \in Nat
    BY <1>0, <1>1, TokTypes
  <2>2. ASSUME NEW j \in 1 .. n
        PROVE  toks[j].start <= L /\ toks'[j].start = toks[j].start
    <3>1. toks[j].start < L /\ toks[j].start \in Nat
      BY <1>1, <2>1 DEF NestInv, Placed
    <3>2. toks'[j].start = toks[j].start
      BY Zenon, <2>1 DEF Grown
    <3>3. QED BY <1>1, <3>1, <3>2
  <2>3. QED BY <2>1, <2>2
<1>3. /\ DOMAIN toks' = 1 .. n \/ DOMAIN toks' = 1 .. n + 1
      /\ Len(toks') = n + 1 => DOMAIN toks' = 1 .. n + 1 /\ toks'[n + 1].start = L
  BY Zenon, <1>1 DEF Grown
<1>4. \A j \in DOMAIN toks' : toks'[j].start \in Nat /\ toks'[j].start <= Len(text)
  <2> SUFFICES ASSUME NEW j \in DOMAIN toks'
               PROVE  toks'[j].start \in Nat /\ toks'[j].start <= Len(text)
    OBVIOUS
  <2>1. CASE j \in 1 .. n
    BY <1>1, <1>2, <2>1
  <2>2. CASE j \notin 1 .. n
    <3>1. DOMAIN toks' = 1 .. n + 1 /\ Len(toks') = n + 1
      BY Zenon, <1>1, <1>3, <2>2 DEF Grown
    <3>2. j = n + 1
      BY <1>1, <2>2, <3>1
    <3>3. QED BY <1>1, <1>3, <3>1, <3>2
  <2>3. QED BY <2>1, <2>2
<1>5. ASSUME NEW i \in 1 .. n
      PROVE  /\ IsFiniteSet(Kids(i)) /\ n + 1 \notin Kids(i)
             /\ Kids(i)' = IF Len(toks') = n + 1 /\ i = LastOpen(toks)
                           THEN Kids(i) \cup {n + 1} ELSE Kids(i)
  <2>1. Kids(i) = {j \in 1 .. n : Innermost(toks[j].start, i)}
    BY <1>2 DEF Kids
  <2>2. IsFiniteSet(Kids(i)) /\ n + 1 \notin Kids(i)
    <3>1. Kids(i) \subseteq 1 .. n
      BY <2>1
    <3>2. IsFiniteSet(1 .. n)
      BY FS_Interval
    <3>3. n + 1 \notin 1 .. n
      BY <1>1
    <3> HIDE DEF Kids
    <3>4. QED BY <3>1, <3>2, <3>3, FS_Subset
  <2>3. ASSUME NEW p \in Nat, p <= Len(text)
        PROVE  Innermost(p, i)' <=> Innermost(p, i)
    BY <1>2, <2>3, InnermostKept
  <2>4. Kids(i)' = {j \in DOMAIN toks' : Innermost(toks'[j].start, i)}
    <3>1. Kids(i)' = {j \in DOMAIN toks' : \E p \in Nat : p = toks'[j].start /\ Innermost(p, i)'}
      BY <1>4 DEF Kids, Innermost, In
    <3> HIDE DEF Innermost
    <3>2. QED BY <1>4, <2>3, <3>1
  <2>5. Innermost(L, i) <=> i = LastOpen(toks)
    BY <1>1, <1>2, InnermostAtEnd
  <2>6. 1 .. n + 1 = 1 .. n \cup {n + 1}
    BY <1>1
  <2> HIDE DEF Innermost
  <2>7. CASE Len(toks') = n + 1
    <3>1. DOMAIN toks' = 1 .. n + 1 /\ toks'[n + 1].start = L
      BY <1>3, <2>7
    <3>2. \A j \in 1 .. n : toks'[j].start = toks[j].start
      BY <1>2
    <3>3. \A j : j \in Kids(i)' <=>
            \/ j \in 1 .. n /\ Innermost(toks[j].start, i)
            \/ j = n + 1 /\ Innermost(L, i)
      BY <1>1, <2>4, <2>6, <3>1, <3>2
    <3>4. \A j : j \in Kids(i) <=> j \in 1 .. n /\ Innermost(toks[j].start, i)
      BY <2>1
    <3> HIDE DEF Kids
    <3>5. CASE i = LastOpen(toks)
      <4>1. Kids(i)' = Kids(i) \cup {n + 1}
        BY <2>5, <3>3, <3>4, <3>5
      <4>2. QED BY <2>2, <2>7, <3>5, <4>1
    <3>6. CASE i # LastOpen(toks)
      <4>1. Kids(i)' = Kids(i)
        BY Zenon, <2>5, <3>3, <3>4, <3>6
      <4>2. QED BY <2>2, <3>6, <4>1
    <3>7. QED BY <2>2, <3>5, <3>6
  <2>8. CASE Len(toks') # n + 1
    <3>1. DOMAIN toks' = 1 .. n
      BY Zenon, <1>1, <2>8 DEF Grown
    <3>2. \A j : j \in Kids(i)' <=> j \in 1 .. n /\ Innermost(toks[j].start, i)
      BY <1>2, <2>4, <3>1
    <3>3. \A j : j \in Kids(i) <=> j \in 1 .. n /\ Innermost(toks[j].start, i)
      BY <2>1
    <3> HIDE DEF Kids
    <3>4. Kids(i)' = Kids(i)
      BY <3>2, <3>3
    <3>5. QED BY <2>2, <2>8, <3>4
  <2>9. QED BY <2>2, <2>7, <2>8
<1>6. ASSUME NEW i \in 1 .. n
      PROVE  /\ Cardinality(Kids(i)) \in Nat
             /\ Cardinality(Kids(i)') = IF Len(toks') = n + 1 /\ i = LastOpen(toks)
                                        THEN Cardinality(Kids(i)) + 1
                                        ELSE Cardinality(Kids(i))
  <2> HIDE DEF Kids
  <2>1. Cardinality(Kids(i)) \in Nat
    BY <1>5, FS_CardinalityType
  <2>2. Cardinality(Kids(i) \cup {n + 1}) = Cardinality(Kids(i)) + 1
    BY <1>5, FS_AddElement
  <2>3. QED BY <1>5, <2>1, <2>2
<1>7. ASSUME Len(toks') = n + 1 PROVE Cardinality(Kids(n + 1)') = 0
  <2>1. ASSUME NEW p \in Nat, p <= Len(text) PROVE ~Innermost(p, n + 1)'
    BY <1>1, <1>7, <2>1, InnermostKept
  <2>2. Kids(n + 1)' = {j \in DOMAIN toks' : \E p \in Nat : p = toks'[j].start /\ Innermost(p, n + 1)'}
    BY <1>4 DEF Kids, Innermost, In
  <2>3. Kids(n + 1)' = {}
    BY <1>4, <2>1, <2>2
  <2>4. QED BY <2>3, FS_EmptySet
<1>8. QED BY <1>1, <1>2, <1>6, <1>7

(* Text read later does not change what the keys are, and a colon comes after
   one. *)
LEMMA KeysKept ==
  ASSUME JTypeOK, NEW c \in Lexemes, Read(c), KeysAreStrings'
  PROVE  KeysAreStrings /\ (c = "colon" => text # << >> /\ Last(text) = "string")
<1>1. PICK L \in Nat : L = Len(text) /\ DOMAIN text = 1 .. L
  BY TokTypes
<1>2. /\ DOMAIN text' = 1 .. L + 1 /\ text'[L + 1] = c
      /\ \A p \in 1 .. L : text'[p] = text[p]
  BY <1>1, ReadIs
<1>3. \A p \in 1 .. L + 1 : text'[p] = "colon" => p > 1 /\ text'[p - 1] = "string"
  BY <1>2 DEF KeysAreStrings
<1>4. KeysAreStrings
  <2> SUFFICES ASSUME NEW p \in 1 .. L, text[p] = "colon"
               PROVE  p > 1 /\ text[p - 1] = "string"
    BY <1>1 DEF KeysAreStrings
  <2>1. p > 1 /\ text'[p - 1] = "string"
    BY <1>1, <1>2, <1>3
  <2>2. QED BY <1>1, <1>2, <2>1
<1>5. ASSUME c = "colon" PROVE text # << >> /\ Last(text) = "string"
  <2>1. L + 1 > 1 /\ text'[L + 1 - 1] = "string"
    BY <1>1, <1>2, <1>3, <1>5
  <2>2. L \in 1 .. L /\ L + 1 - 1 = L
    BY <1>1, <2>1
  <2>3. text[L] = "string" /\ L # 0
    BY <1>2, <2>1, <2>2
  <2>4. text # << >>
    BY <1>1, <2>3
  <2>5. QED BY <1>1, <2>3, <2>4 DEF Last
<1>6. QED BY <1>4, <1>5

(* The last lexeme of the text after one was read. *)
LEMMA LastRead ==
  ASSUME JTypeOK, NEW c \in Lexemes, Read(c)
  PROVE  Last(text') = c
BY ReadIs DEF Last

(* The superior token is counted up, and it is the one the new token stands in,
   unless a colon came there. *)
LEMMA GrowSized ==
  ASSUME SizeInv, NestInv', NEW c \in Opening \cup Values, NEW e \in {0, Len(text) + 1},
         e = 0 <=> c \in Opening, Read(c), toks' = Added(c, e),
         super' = IF e = 0 THEN Len(toks) + 1 ELSE super, UNCHANGED result
  PROVE  SizeInv'
<1>0. JTypeOK /\ JTypeOK' /\ NestInv /\ c \in Lexemes /\ c # "colon" /\ result = "none"
  BY Zenon DEF SizeInv, NestInv, Lexemes, Opening, Values, Read
<1>1. PICK n \in Nat : n = Len(toks) /\ DOMAIN toks = 1 .. n
  BY <1>0, TokTypes
<1>2. /\ Len(toks') = n + 1 /\ DOMAIN toks' = 1 .. n + 1
      /\ toks'[n + 1].type = c /\ toks'[n + 1].start = Len(text)
      /\ toks'[n + 1].end = e /\ toks'[n + 1].size = 0
      /\ \A i \in 1 .. n :
           /\ toks'[i].type = toks[i].type /\ toks'[i].start = toks[i].start
           /\ toks'[i].end = toks[i].end
           /\ toks'[i].size = IF i = super THEN toks[i].size + 1 ELSE toks[i].size
  BY <1>0, <1>1, AddedFields
<1>3. Grown
  BY <1>1, <1>2 DEF Grown
<1>4. KeyLast'
  <2>1. Last(text') = "string" => toks'[n + 1].type = "string"
    BY <1>0, <1>2, LastRead
  <2>2. toks' # << >>
    BY <1>1, <1>2
  <2>3. QED BY <1>2, <2>1, <2>2 DEF KeyLast
<1>5. PICK k : k = LastOpen(toks)
  OBVIOUS
<1>6. \/ k = 0 /\ \A i \in 1 .. n : toks[i].end # 0
      \/ k \in 1 .. n /\ toks[k].end = 0 /\ \A j \in 1 .. n : j > k => toks[j].end # 0
  <2>1. toks \in Seq(Tok)
    BY <1>0 DEF JTypeOK, Tok
  <2>2. QED BY <1>1, <1>5, <2>1, LastOpenIs
<1>7. LastOpen(toks') = IF e = 0 THEN n + 1 ELSE k
  <2>1. toks' \in Seq(Tok)
    BY <1>0 DEF JTypeOK, Tok
  <2>2. CASE e = 0
    <3>1. n + 1 \in DOMAIN toks' /\ \A j \in DOMAIN toks' : ~(j > n + 1)
      BY <1>1, <1>2
    <3>2. QED BY <1>2, <2>1, <2>2, <3>1, LastOpenOnly
  <2>3. CASE e # 0
    <3>1. CASE k = 0
      <4>1. \A i \in DOMAIN toks' : toks'[i].end # 0
        BY <1>1, <1>2, <1>6, <2>3, <3>1
      <4>2. QED BY <2>1, <2>3, <3>1, <4>1, LastOpenIs
    <3>2. CASE k \in 1 .. n
      <4>1. k \in DOMAIN toks' /\ toks'[k].end = 0
        BY <1>1, <1>2, <1>6, <3>2
      <4>2. ASSUME NEW j \in DOMAIN toks', j > k PROVE toks'[j].end # 0
        <5>1. CASE j = n + 1
          BY <1>2, <2>3, <5>1
        <5>2. CASE j \in 1 .. n
          BY <1>2, <1>6, <3>2, <4>2, <5>2
        <5>3. QED BY <1>1, <1>2, <5>1, <5>2
      <4>3. LastOpen(toks') = k
        BY <2>1, <4>1, <4>2, LastOpenOnly
      <4>4. QED BY <2>3, <4>3
    <3>3. QED BY <1>6, <3>1, <3>2
  <2>4. QED BY <2>2, <2>3
<1>8. Superior'
  <2> SUFFICES ASSUME KeysAreStrings'
               PROVE  /\ super' = LastOpen(toks') \/ (super' # 0 /\ toks'[super'].type \in Values)
                      /\ \A i \in 1 .. n + 1 : toks'[i].type \in Opening /\ ~ColonIn(i)' =>
                           /\ toks'[i].size = Cardinality(Kids(i))'
                           /\ i = LastOpen(toks') => super' = i
    BY <1>2 DEF Superior
  <2>1. /\ super = k \/ (super # 0 /\ toks[super].type \in Values)
        /\ \A i \in 1 .. n : toks[i].type \in Opening /\ ~ColonIn(i) =>
             /\ toks[i].size = Cardinality(Kids(i))
             /\ i = k => super = i
    BY <1>0, <1>1, <1>5, KeysKept DEF SizeInv, Superior, Good
  <2>2. super \in 0 .. n
    BY <1>0, <1>1 DEF JTypeOK
  <2>3. super' = LastOpen(toks') \/ (super' # 0 /\ toks'[super'].type \in Values)
    <3>1. CASE e = 0
      BY <1>1, <1>7, <3>1
    <3>2. CASE e # 0
      <4>1. super' = super /\ LastOpen(toks') = k
        BY <1>7, <3>2
      <4>2. super # 0 => toks'[super].type = toks[super].type
        BY <1>1, <1>2, <2>2
      <4>3. QED BY <2>1, <4>1, <4>2
    <3>3. QED BY <3>1, <3>2
  <2>4. ASSUME NEW i \in 1 .. n, toks'[i].type \in Opening, ~ColonIn(i)'
        PROVE  /\ toks'[i].size = Cardinality(Kids(i))'
               /\ i = LastOpen(toks') => super' = i
    <3>1. toks[i].type \in Opening /\ ~ColonIn(i)
      BY <1>0, <1>1, <1>2, <1>3, <2>4, ColonKept
    <3>2. toks[i].size = Cardinality(Kids(i)) /\ (i = k => super = i)
      BY <2>1, <3>1
    <3>3. i = super <=> i = k
      <4>1. toks[i].type \notin Values
        BY <3>1 DEF Opening, Values
      <4>2. QED BY <2>1, <3>2, <4>1
    <3>4. Cardinality(Kids(i))' = IF i = k THEN Cardinality(Kids(i)) + 1 ELSE Cardinality(Kids(i))
      BY <1>0, <1>1, <1>2, <1>3, <1>5, KidsKept
    <3>5. toks'[i].size = Cardinality(Kids(i))'
      BY <1>2, <3>2, <3>3, <3>4
    <3>6. i = LastOpen(toks') => super' = i
      <4>1. i # n + 1
        BY <1>1
      <4>2. CASE e = 0
        BY <1>7, <4>1, <4>2
      <4>3. CASE e # 0
        BY <1>7, <3>2, <4>3
      <4>4. QED BY <4>2, <4>3
    <3>7. QED BY <3>5, <3>6
  <2>5. ASSUME toks'[n + 1].type \in Opening
        PROVE  /\ toks'[n + 1].size = Cardinality(Kids(n + 1))'
               /\ super' = n + 1
    <3>1. e = 0
      BY <1>2, <2>5
    <3>2. Cardinality(Kids(n + 1))' = 0
      BY <1>0, <1>1, <1>2, <1>3, KidsKept
    <3>3. QED BY <1>1, <1>2, <3>1, <3>2
  <2>6. ASSUME NEW i \in 1 .. n + 1, toks'[i].type \in Opening, ~ColonIn(i)'
        PROVE  /\ toks'[i].size = Cardinality(Kids(i))'
               /\ i = LastOpen(toks') => super' = i
    <3>1. CASE i \in 1 .. n
      BY <2>4, <2>6, <3>1
    <3>2. CASE i = n + 1
      BY <2>5, <2>6, <3>2
    <3>3. QED BY <1>1, <3>1, <3>2
  <2>7. QED BY <2>3, <2>6
<1>9. QED BY <1>4, <1>8 DEF SizeInv

(* A bracket closed leaves the sizes alone, and its own is the superior again. *)
LEMMA CloseSized ==
  ASSUME SizeInv, NestInv', NEW c \in Closing, CloseBracket(c)
  PROVE  SizeInv'
<1>0. JTypeOK /\ NestInv /\ c \in Lexemes /\ Read(c) /\ c # "colon" /\ c # "string"
  BY Zenon DEF SizeInv, NestInv, Lexemes, Closing, CloseBracket
<1>1. PICK n \in Nat : n = Len(toks) /\ DOMAIN toks = 1 .. n
  BY <1>0, TokTypes
<1>2. PICK k : k = LastOpen(toks)
  OBVIOUS
<1>3. /\ k # 0 /\ toks' = [toks EXCEPT ![k].end = Len(text) + 1]
      /\ super' = LastOpen(toks') /\ UNCHANGED <<count, result>>
  BY <1>2, Zenon DEF CloseBracket, Matches, CloseWith
<1>4. k \in 1 .. n /\ toks[k].end = 0
  <2>1. toks \in Seq(Tok)
    BY <1>0 DEF JTypeOK, Tok
  <2>2. QED BY <1>1, <1>2, <1>3, <2>1, LastOpenIs
<1>5. /\ Len(toks') = n /\ DOMAIN toks' = 1 .. n
      /\ \A i \in 1 .. n :
           /\ toks'[i].type = toks[i].type /\ toks'[i].start = toks[i].start
           /\ toks'[i].size = toks[i].size
           /\ toks'[i].end = IF i = k THEN Len(text) + 1 ELSE toks[i].end
  BY <1>0, <1>1, <1>3, <1>4, ClosedIs
<1>6. Grown
  BY <1>1, <1>4, <1>5 DEF Grown
<1>7. KeyLast'
  BY <1>0, LastRead DEF KeyLast
<1>8. Superior'
  <2> SUFFICES ASSUME Good, KeysAreStrings', NEW i \in 1 .. n,
                      toks'[i].type \in Opening, ~ColonIn(i)'
               PROVE  toks'[i].size = Cardinality(Kids(i))'
    BY <1>3, <1>5, SMTT(60) DEF Superior, Good
  <2>1. toks[i].type \in Opening /\ ~ColonIn(i) /\ KeysAreStrings
    BY <1>0, <1>1, <1>5, <1>6, ColonKept, KeysKept
  <2>2. toks[i].size = Cardinality(Kids(i))
    BY <1>1, <2>1 DEF SizeInv, Superior
  <2>3. Cardinality(Kids(i))' = Cardinality(Kids(i))
    BY <1>0, <1>1, <1>5, <1>6, KidsKept, SMTT(30)
  <2>4. toks'[i].size = toks[i].size
    BY <1>5
  <2>5. QED BY <2>2, <2>3, <2>4
<1>9. QED BY <1>7, <1>8 DEF SizeInv

(* After a colon values are counted under the key before it. *)
LEMMA SeparatorSized ==
  ASSUME SizeInv, NestInv', NEW c \in Blank, Separator(c)
  PROVE  SizeInv'
<1>0. JTypeOK /\ NestInv /\ c \in Lexemes /\ Read(c) /\ c # "string" /\ result = "none"
  BY DEF SizeInv, NestInv, Lexemes, Blank, Separator, Read
<1>1. PICK n \in Nat : n = Len(toks) /\ DOMAIN toks = 1 .. n
  BY <1>0, TokTypes
<1>2. UNCHANGED <<toks, count, result>> /\ super' = IF c = "colon" THEN n ELSE super
  BY <1>1 DEF Separator
<1>3. Grown
  BY <1>1, <1>2 DEF Grown
<1>4. KeyLast'
  BY <1>0, LastRead DEF KeyLast
<1>5. Superior'
  <2> SUFFICES ASSUME KeysAreStrings'
               PROVE  /\ super' = LastOpen(toks) \/ (super' # 0 /\ toks[super'].type \in Values)
                      /\ \A i \in 1 .. n : toks[i].type \in Opening /\ ~ColonIn(i)' =>
                           /\ toks[i].size = Cardinality(Kids(i))'
                           /\ i = LastOpen(toks) => super' = i
    BY <1>1, <1>2 DEF Superior
  <2>1. KeysAreStrings /\ (c = "colon" => text # << >> /\ Last(text) = "string")
    BY <1>0, KeysKept
  <2>2. /\ super = LastOpen(toks) \/ (super # 0 /\ toks[super].type \in Values)
        /\ \A i \in 1 .. n : toks[i].type \in Opening /\ ~ColonIn(i) =>
             /\ toks[i].size = Cardinality(Kids(i))
             /\ i = LastOpen(toks) => super = i
    BY <1>0, <1>1, <2>1 DEF SizeInv, Superior, Good
  <2>3. super' = LastOpen(toks) \/ (super' # 0 /\ toks[super'].type \in Values)
    <3>1. CASE c = "colon"
      <4>1. toks # << >> /\ toks[n].type = "string"
        BY <1>0, <1>1, <2>1, <3>1 DEF SizeInv, KeyLast
      <4>2. n # 0
        BY <1>0, <1>1, <4>1 DEF JTypeOK
      <4>3. QED BY <1>2, <3>1, <4>1, <4>2 DEF Values
    <3>2. CASE c # "colon"
      BY <1>2, <2>2, <3>2
    <3>3. QED BY <3>1, <3>2
  <2>4. ASSUME NEW i \in 1 .. n, toks[i].type \in Opening, ~ColonIn(i)'
        PROVE  /\ toks[i].size = Cardinality(Kids(i))'
               /\ i = LastOpen(toks) => super' = i
    <3>1. ~ColonIn(i) /\ ~(c = "colon" /\ i = LastOpen(toks))
      BY <1>0, <1>1, <1>3, <2>4, ColonKept
    <3>2. Cardinality(Kids(i))' = Cardinality(Kids(i))
      <4>1. Len(toks') # n + 1
        BY <1>1, <1>2
      <4>2. QED BY <1>0, <1>1, <1>3, <4>1, KidsKept
    <3>3. QED BY <1>2, <2>2, <2>4, <3>1, <3>2
  <2>5. QED BY <2>3, <2>4
<1>6. QED BY <1>4, <1>5 DEF SizeInv

(* Every step keeps the sizes. *)
LEMMA SizeStep == SizeInv /\ [Next]_vars => SizeInv'
<1> SUFFICES ASSUME SizeInv, [Next]_vars PROVE SizeInv'
  OBVIOUS
<1>0. NestInv' /\ JTypeOK
  BY NestStep DEF SizeInv, NestInv
<1>1. Len(text) \in Nat
  BY <1>0, TokTypes
<1>2. ASSUME NEW c \in Opening, OpenBracket(c) PROVE SizeInv'
  BY <1>0, <1>2, GrowSized DEF OpenBracket
<1>3. ASSUME NEW c \in Closing, CloseBracket(c) PROVE SizeInv'
  BY <1>0, <1>3, CloseSized
<1>4. ASSUME NEW c \in Values, Value(c) PROVE SizeInv'
  <2>1. c \notin Opening
    BY DEF Opening, Values
  <2>2. Len(text) + 1 # 0
    BY <1>1
  <2>3. QED BY <1>0, <1>4, <2>1, <2>2, GrowSized DEF Value
<1>5. ASSUME NEW c \in Blank, Separator(c) PROVE SizeInv'
  BY <1>0, <1>5, SeparatorSized
<1>6. ASSUME result' \notin {"none", "ok"} PROVE SizeInv'
  BY <1>0, <1>6 DEF SizeInv, KeyLast, Superior, Good
<1>7. ASSUME NEW c \in Closing, Unmatched(c) PROVE SizeInv'
  BY <1>6, <1>7 DEF Unmatched
<1>8. ASSUME NEW c \in Opening \cup Values, NoMem(c) PROVE SizeInv'
  BY <1>6, <1>8 DEF NoMem
<1>9. ASSUME NEW c \in Broken, Break(c) PROVE SizeInv'
  BY <1>6, <1>9 DEF Break, Broken
<1>10. ASSUME EndOfText \/ UNCHANGED vars PROVE SizeInv'
  <2>1. UNCHANGED <<text, toks, super>>
    BY <1>10 DEF EndOfText, vars
  <2>2. (Good' => Good) /\ (result' = "none" => result = "none")
    BY <1>10 DEF EndOfText, vars, Good
  <2>3. KeyLast'
    BY <2>1, <2>2 DEF SizeInv, KeyLast
  <2>4. Superior'
    BY <2>1, <2>2 DEF SizeInv, Superior, KeysAreStrings, ColonIn, Kids, Innermost, In
  <2>5. QED BY <1>0, <2>3, <2>4 DEF SizeInv
<1>11. QED
  BY <1>2, <1>3, <1>4, <1>5, <1>7, <1>8, <1>9, <1>10 DEF Next

(* A bracket's size is the number of tokens directly in it, as long as its
   members have no keys. *)
THEOREM SizesAreRight == Spec => []SizesRight
<1>1. Init => SizeInv
  BY NestInit DEF Init, SizeInv, KeyLast, Superior, LastOpen, SelectLastInSeq
<1>2. SizeInv => SizesRight
  <2> SUFFICES ASSUME SizeInv, result = "ok", KeysAreStrings, NEW i \in DOMAIN toks,
                      toks[i].type \in Opening,
                      ~\E p \in DOMAIN text : text[p] = "colon" /\ Directly(p - 1, i)
               PROVE  toks[i].size = Cardinality({j \in DOMAIN toks : Directly(toks[j].start, i)})
    BY SMTT(60) DEF SizesRight
  <2>1. \A j \in DOMAIN toks : toks[j].end # 0
    <3>1. toks \in Seq(Tok) /\ DOMAIN toks \subseteq Nat \ {0}
      BY SMTT(30) DEF SizeInv, NestInv, JTypeOK, Tok
    <3>2. LastOpen(toks) = 0
      BY DEF SizeInv, NestInv, Counted
    <3>3. QED BY <3>1, <3>2, LastOpenIs
  <2>2. \A p : Directly(p, i) <=> Innermost(p, i)
    BY <2>1 DEF Directly, Within, Innermost, In
  <2>3. ~ColonIn(i)
    BY <2>2 DEF ColonIn
  <2>4. toks[i].size = Cardinality(Kids(i))
    BY <2>3 DEF SizeInv, Superior, Good
  <2>5. Kids(i) = {j \in DOMAIN toks : Directly(toks[j].start, i)}
    BY <2>2 DEF Kids
  <2>6. QED BY <2>4, <2>5
<1>3. QED BY <1>1, <1>2, SizeStep, PTL DEF Spec
================================================================================

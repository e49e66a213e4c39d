---------------------------------- MODULE Json ----------------------------------
(***************************************************************************)
(* jsmn_parse of json.h, as kernel.c compiles it: not strict, no parent    *)
(* links, with a pool of tokens (128 in json_viewer_ui).                   *)
(*                                                                         *)
(* The text is any sequence of lexemes, chosen one at a time: the parser   *)
(* keeps nothing but its tokens between two of them.  A position is the    *)
(* number of lexemes before it.  Tokens are numbered from 1, so that       *)
(* toksuper is 0 where the code has -1, and an end not yet known is 0.     *)
(***************************************************************************)
EXTENDS Naturals, SequencesExt

CONSTANTS NumTokens,  \* num_tokens
          MaxLen      \* bound: lexemes in a text

ASSUME JsonSizes == NumTokens \in Nat /\ MaxLen \in Nat

VARIABLES text,       \* js, up to pos
          toks,       \* tokens[0 .. toknext - 1]
          super,      \* toksuper
          count,      \* count
          result      \* "none" while the loop runs; then "ok" or the error

vars == <<text, toks, super, count, result>>

Opening == {"{", "["}
Closing == {"}", "]"}
Values == {"string", "primitive"}
Blank == {"colon", "gap"}       \* "gap": a comma or white space
Broken == {"inval", "part"}     \* a character or escape not allowed; a string without end
Lexemes == Opening \cup Closing \cup Values \cup Blank \cup Broken

Closes(c) == IF c = "}" THEN "{" ELSE "["

(* jsmn_init, and the start of jsmn_parse. *)
Init == /\ text = << >>
        /\ toks = << >>
        /\ super = 0
        /\ count = 0
        /\ result = "none"

(* A primitive runs to the next of : , ] } or white space, whatever is in
   between: nothing else can follow one. *)
Follows(c) == text # << >> /\ Last(text) = "primitive" => c \in Closing \cup Blank

Read(c) == /\ result = "none" /\ Len(text) < MaxLen /\ Follows(c)
           /\ text' = Append(text, c)

IsOpen(t) == t.end = 0
(* Fault: the first open token. *)
LastOpen_First(s) == SelectInSeq(s, IsOpen)
LastOpen(s) == SelectLastInSeq(s, IsOpen)

(* jsmn_alloc_token and jsmn_fill_token, after the size of the superior token
   was counted up. *)
Added(c, end) ==
  Append([i \in DOMAIN toks |-> IF i = super THEN [toks[i] EXCEPT !.size = @ + 1] ELSE toks[i]],
         [type |-> c, start |-> Len(text), end |-> end, size |-> 0])
OpenBracket(c) ==
  /\ Read(c)
  /\ Len(toks) < NumTokens
  /\ toks' = Added(c, 0)
  /\ super' = Len(toks) + 1
  /\ count' = count + 1
  /\ UNCHANGED result

(* Fault: the superior token stays. *)
CloseWith_KeepSuper(i) ==
  toks' = [toks EXCEPT ![i].end = Len(text) + 1] /\ UNCHANGED <<super, count, result>>
(* The last token still open is closed, and the one open before it, if any,
   becomes the superior. *)
CloseWith(i) ==
  /\ toks' = [toks EXCEPT ![i].end = Len(text) + 1]
  /\ super' = LastOpen(toks')
  /\ UNCHANGED <<count, result>>

(* Fault: the type is not compared. *)
Matches_AnyType(c) == LastOpen(toks) # 0
Matches(c) == LET i == LastOpen(toks) IN i # 0 /\ toks[i].type = Closes(c)
CloseBracket(c) == Read(c) /\ Matches(c) /\ CloseWith(LastOpen(toks))

Unmatched(c) ==
  /\ Read(c) /\ ~Matches(c)
  /\ result' = "inval"
  /\ UNCHANGED <<toks, super, count>>

(* jsmn_parse_string, jsmn_parse_primitive. *)
Value(c) ==
  /\ Read(c)
  /\ Len(toks) < NumTokens
  /\ toks' = Added(c, Len(text) + 1)
  /\ count' = count + 1
  /\ UNCHANGED <<super, result>>

(* A bracket is counted before the pool is found empty. *)
NoMem(c) ==
  /\ Read(c)
  /\ Len(toks) = NumTokens
  /\ count' = IF c \in Opening THEN count + 1 ELSE count
  /\ result' = "nomem"
  /\ UNCHANGED <<toks, super>>

(* What stands before a colon becomes the superior; a comma changes nothing. *)
Separator(c) ==
  /\ Read(c)
  /\ super' = IF c = "colon" THEN Len(toks) ELSE super
  /\ UNCHANGED <<toks, count, result>>

Break(c) ==
  /\ Read(c)
  /\ result' = c
  /\ UNCHANGED <<toks, super, count>>

EndOfText ==
  /\ result = "none"
  /\ result' = IF LastOpen(toks) # 0 THEN "part" ELSE "ok"
  /\ UNCHANGED <<text, toks, super, count>>

Next == \/ \E c \in Opening : OpenBracket(c)
        \/ \E c \in Closing : CloseBracket(c) \/ Unmatched(c)
        \/ \E c \in Values : Value(c)
        \/ \E c \in Opening \cup Values : NoMem(c)
        \/ \E c \in Blank : Separator(c)
        \/ \E c \in Broken : Break(c)
        \/ EndOfText

Spec == Init /\ [][Next]_vars

--------------------------------------------------------------------------------
(* Properties. *)

(* Types: the text read, its tokens, the enclosing one, and what is returned. *)
JTypeOK == /\ text \in Seq(Lexemes) /\ Len(text) <= MaxLen
           /\ toks \in Seq([type : Opening \cup Values, start : 0 .. MaxLen,
                            end : 0 .. MaxLen, size : 0 .. MaxLen])
           /\ Len(toks) <= NumTokens
           /\ super \in 0 .. Len(toks)
           /\ count \in 0 .. NumTokens + 1
           /\ result \in {"none", "ok", "inval", "part", "nomem"}

(* json_viewer_ui copies end - start bytes of each of the first `count' tokens
   (kernel.c:643 to 657): in a text that is accepted these are all tokens, each
   has its end, a bracket ends at one of its own kind, and any two are nested or
   apart. *)
Apart(s, t) == s.end <= t.start
Nested(s, t) == s.start < t.start /\ t.end <= s.end
TokensNest ==
  result = "ok" =>
    /\ count = Len(toks)
    /\ \A i \in DOMAIN toks : /\ toks[i].start < toks[i].end
                              /\ toks[i].type \in Opening =>
                                   toks[i].type = Closes(text[toks[i].end])
    /\ \A i, j \in DOMAIN toks : i < j => Apart(toks[i], toks[j]) \/ Nested(toks[i], toks[j])

(* `size' counts what stands directly in a bracket, as long as no colon does:
   after a colon, and up to the next bracket closed, values are counted under
   what stood before the colon, for a comma no longer goes back to the bracket.
   Keys are strings, as in JSON. *)
KeysAreStrings == \A p \in DOMAIN text : text[p] = "colon" => p > 1 /\ text[p - 1] = "string"
Within(p, t) == t.start < p /\ p < t.end
Directly(p, i) ==
  /\ Within(p, toks[i])
  /\ \A j \in DOMAIN toks : Within(p, toks[j]) => toks[j].start <= toks[i].start
SizesRight ==
  result = "ok" /\ KeysAreStrings =>
    \A i \in DOMAIN toks :
      (toks[i].type \in Opening /\ ~\E p \in DOMAIN text : text[p] = "colon" /\ Directly(p - 1, i))
        => toks[i].size = Cardinality({j \in DOMAIN toks : Directly(toks[j].start, i)})

(* The tokens that have no end are the brackets open: json.h accepts, refuses or
   runs out of tokens as a parser that keeps the open brackets on a stack does. *)
OpenAt == {toks[i].start + 1 : i \in {k \in DOMAIN toks : IsOpen(toks[k])}}
B == INSTANCE Brackets WITH open <- OpenAt, verdict <- result
ImplementsBrackets == B!Begin /\ [][B!Step(Closing, Blank)]_<<text, toks, result>>
================================================================================

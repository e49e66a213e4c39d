-------------------------------- MODULE Brackets --------------------------------
(***************************************************************************)
(* What a JSON parser with a pool of tokens promises about brackets: a     *)
(* text is accepted when each closing bracket matches the last one open,   *)
(* none is left open, and its tokens fit in the pool.                      *)
(***************************************************************************)
EXTENDS Naturals, Sequences, FiniteSetsExt

CONSTANTS NumTokens,  \* tokens in the pool
          Opening,    \* opening brackets
          Values,     \* strings and primitives
          Broken,     \* lexemes that end the parse, each with its verdict
          Closes(_)   \* the opening bracket that a closing one matches

VARIABLES text,       \* the lexemes read so far
          open,       \* where the brackets still open stand in it
          verdict     \* "none" while parsing

Begin == text = << >> /\ open = {} /\ verdict = "none"

Tokens(t) == Cardinality({p \in DOMAIN t : t[p] \in Opening \cup Values})
Fits == Tokens(text') <= NumTokens

Read(c) == verdict = "none" /\ text' = Append(text, c)

Open(c) == /\ Read(c) /\ Fits
           /\ open' = open \cup {Len(text')}
           /\ UNCHANGED verdict
(* The innermost bracket open is the one that stands last. *)
Matches(c) == open # {} /\ text[Max(open)] = Closes(c)
Close(c) == /\ Read(c) /\ Matches(c)
            /\ open' = open \ {Max(open)}
            /\ UNCHANGED verdict
Mismatch(c) == /\ Read(c) /\ ~Matches(c)
               /\ verdict' = "inval"
               /\ UNCHANGED open
TooMany(c) == /\ Read(c) /\ ~Fits
              /\ verdict' = "nomem"
              /\ UNCHANGED open
Other(c) == /\ Read(c) /\ Fits
            /\ UNCHANGED <<open, verdict>>
Break(c) == /\ Read(c)
            /\ verdict' = c
            /\ UNCHANGED open
End == /\ verdict = "none"
       /\ verdict' = IF open = {} THEN "ok" ELSE "part"
       /\ UNCHANGED <<text, open>>

Step(Closing, Blank) ==
  \/ \E c \in Opening : Open(c)
  \/ \E c \in Closing : Close(c) \/ Mismatch(c)
  \/ \E c \in Opening \cup Values : TooMany(c)
  \/ \E c \in Values \cup Blank : Other(c)
  \/ \E c \in Broken : Break(c)
  \/ End
================================================================================

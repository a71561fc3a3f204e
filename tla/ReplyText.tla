----------------------------- MODULE ReplyText ------------------------------
(***************************************************************************)
(* repair_json of llm/utils.py, which every agent takes the answer of a    *)
(* model through: what is between the first two fences, or else the value  *)
(* that the first bracket opens, with Python's literals and commas before  *)
(* a closing bracket mended.                                               *)
(***************************************************************************)
EXTENDS JsonText

CONSTANT JsonTexts   \* the texts json.loads takes

Empty == <<"{", "}">>

Least(S) == CHOOSE i \in S : \A j \in S : i <= j
Fences(t) == Places(t, {"fence"})

\* The text within the first two fences.
Fenced(t) ==
    LET first == Least(Fences(t)) IN SubSeq(t, first + 1, Least(Fences(t) \ {first}) - 1)

\* Fault variant: an escaped quote ends the string.
Escapes_Never(s, c) == FALSE

Escapes(s, c) == c = "escape" /\ s.inString

\* The walk from the bracket at `first` to the one that closes it, at position i.
Walked(s, t, first, i) ==
    IF i < first \/ s.end > 0 THEN s
    ELSE IF s.escaped THEN [s EXCEPT !.escaped = FALSE]
    ELSE IF Escapes(s, t[i]) THEN [s EXCEPT !.escaped = TRUE]
    ELSE IF t[i] = "quote" THEN [s EXCEPT !.inString = ~@]
    ELSE IF s.inString THEN s
    ELSE IF t[i] = t[first] THEN [s EXCEPT !.depth = @ + 1]
    ELSE IF t[i] = Closing(t[first])
    THEN [s EXCEPT !.depth = @ - 1, !.end = IF s.depth = 1 THEN i ELSE 0]
    ELSE s

\* What the walk has found after each position.
Scan(t, first) ==
    LET after[i \in 0..Len(t)] ==
            IF i = 0 THEN [depth |-> 0, inString |-> FALSE, escaped |-> FALSE, end |-> 0]
            ELSE Walked(after[i - 1], t, first, i)
    IN  after

Bracketed(t) ==
    IF Places(t, Opening) = {} THEN t
    ELSE LET first == Least(Places(t, Opening))
             last == Scan(t, first)[Len(t)].end
         IN  IF last > 0 THEN SubSeq(t, first, last) ELSE t

\* Both substitutions look at the text only, also within strings.
Trailing(t, i) == t[i] = "comma" /\ i < Len(t) /\ t[i + 1] \in {"}", "]"}
Literal(c) == IF c = "True" THEN "true" ELSE c

Mending(t) ==
    LET after[i \in 0..Len(t)] ==
            IF i = 0 THEN <<>>
            ELSE IF Trailing(t, i) THEN after[i - 1] ELSE Append(after[i - 1], Literal(t[i]))
    IN  after

Mended(t) == Mending(t)[Len(t)]

Checked(t) == IF t \in JsonTexts THEN t ELSE Empty

RepairJson(t) ==
    Checked(Mended(IF \E i, j \in Fences(t) : i < j THEN Fenced(t) ELSE Bracketed(t)))

-----------------------------------------------------------------------------
(* Properties of a value, as the model writes it, and what is around it *)

\* The value is found between a preamble without brackets and whatever follows, and also
\* between fences after a preamble without any, whatever brackets and quotes its strings
\* have, and comes out mended.
ValueIsFound(before, value, after) ==
    LET text == TextOf(value)
        bare == before \o text \o after
        fenced == before \o <<"fence">> \o text \o <<"fence">> \o after
    IN  Fences(text) = {} /\ Mended(text) \in JsonTexts =>
          /\ Fences(bare) = {} /\ Places(before, Opening) = {} =>
                RepairJson(bare) = Mended(text)
          /\ Fences(before) = {} => RepairJson(fenced) = Mended(text)

\* An answer that was cut off within the value is no value: nothing of it is taken.  A
\* quote in the preamble would make a string of the beginning of the value.
CutOffIsRefused(before, value) ==
    LET text == TextOf(value) IN
    \A n \in 1..(Len(text) - 1) :
        Fences(before \o text) = {} /\ Places(before, Opening \cup {"quote"}) = {} =>
            RepairJson(before \o SubSeq(text, 1, n)) = Empty
=============================================================================

------------------------------ MODULE JsonText ------------------------------
(***************************************************************************)
(* Objects and arrays of JSON, as sequences of lexemes, and how they are   *)
(* written: what llm/utils.py looks for in the answer of a model.          *)
(*                                                                         *)
(* A text is a sequence of tokens.  Anything else is a word, "True" is a   *)
(* literal of Python and "true" its counterpart; white space is left out.  *)
(***************************************************************************)
EXTENDS Integers, Sequences, SequencesExt

Tokens == {"{", "}", "[", "]", "quote", "escape", "fence", "comma", "True", "true", "word"}
Opening == {"{", "["}
Closing(c) == IF c = "{" THEN "}" ELSE "]"

Places(t, cs) == {i \in DOMAIN t : t[i] \in cs}

\* A lexeme is a string, of pieces that stand for a character each, or a mark by itself.
Marks == Tokens \ {"quote", "escape", "fence"}
Pieces == {<<c>> : c \in Tokens \ {"quote", "escape"}} \cup {<<"escape", c>> : c \in Tokens}
Lexemes == [token: Marks, body: {<<>>}] \cup [token: {"quote"}, body: Seq(Pieces)]

Spelled(lexeme) ==
    IF lexeme.token = "quote" THEN <<"quote">> \o FlattenSeq(lexeme.body) \o <<"quote">>
    ELSE <<lexeme.token>>

TextOf(value) == FlattenSeq([i \in 1..Len(value) |-> Spelled(value[i])])

\* The brackets like the first one that are open after each lexeme.
Depth(value) ==
    LET after[i \in 0..Len(value)] ==
            IF i = 0 THEN 0
            ELSE after[i - 1]
                   + (IF value[i].token = value[1].token THEN 1
                      ELSE IF value[i].token = Closing(value[1].token) THEN -1 ELSE 0)
    IN  after

\* An object or an array: its first bracket is closed by the last lexeme.
IsValue(value) ==
    /\ value \in Seq(Lexemes) /\ value # <<>> /\ value[1].token \in Opening
    /\ \A i \in 1..(Len(value) - 1) : Depth(value)[i] > 0
    /\ Depth(value)[Len(value)] = 0

\* A text of another kind has brackets in a string only.
IsScalar(t) ==
    /\ t \in Seq(Tokens)
    /\ \A i \in Places(t, Opening) : \E j \in 1..(i - 1) : t[j] = "quote"
=============================================================================

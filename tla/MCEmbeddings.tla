---------------------------- MODULE MCEmbeddings ----------------------------
(* Embeddings, and what is made of text, for TLC: documents cut into        *)
(* chunks, dictionaries and joins told in the prompt, replies of a model.   *)
(* A behaviour is one of Embeddings, or a text that stays as it is.         *)
EXTENDS Wording, SequencesExt, TLC

VARIABLE which

\* Values with a string of up to two pieces, one of them with a nested value, and as
\* Python writes them.
Bodies == BoundedSeq({<<"{">>, <<"}">>, <<"]">>, <<"escape", "quote">>, <<"word">>}, 2)
Mark(c) == [token |-> c, body |-> <<>>]
Each(cs) == [i \in 1..Len(cs) |-> Mark(cs[i])]
Value(body, nested, literal, trailing) ==
    <<Mark(nested[1]), [token |-> "quote", body |-> body], Mark("comma")>>
      \o Each(nested[2] \o <<literal>> \o trailing \o <<IF nested[1] = "{" THEN "}" ELSE "]">>)
Values(literals, trailings) ==
    {Value(body, nested, literal, trailing) : body \in Bodies,
       nested \in {"{", "["} \X {<<>>, <<"{", "}", "comma">>, <<"[", "]", "comma">>},
       literal \in literals, trailing \in trailings}
Answers == Values({"true", "True"}, {<<>>, <<"comma">>})

MCJsonValues == Values({"true"}, {<<>>}) \cup {Each(<<"{", "}">>)}
MCScalars == {<<"word">>, <<"quote", "{", "quote">>}

Json == INSTANCE JsonText
MCJsonTexts == {Json!TextOf(value) : value \in MCJsonValues} \cup MCScalars

\* Documents of up to five items: headings and dropped blocks, areas of all kinds, and a
\* page with a block and a content div.
Documents ==
    BoundedSeq(Document!Headings \cup {"word", "open", "close"}, 5)
      \cup BoundedSeq(Document!AreaTags \cup {"word"}, 5)
      \cup BoundedSeq({"h1", "word", "open", "close", "content", "enddiv"}, 5)

\* Dictionaries of up to three entries, and up to three declared relationships beside
\* one that is inferred; the values a model answers with, with a token around them.
Inputs(kind) ==
    CASE kind = "document" -> Documents
      [] kind = "entries" -> BoundedSeq(Prompt!Entry, 3)
      [] kind = "reply" -> BoundedSeq({"}", "quote", "{", "fence", "word"}, 1) \X Answers
                             \X BoundedSeq({"}", "quote", "{", "escape", "fence"}, 1)
      [] kind = "relations" -> BoundedSeq(Prompt!Join, 3) \X BoundedSeq(Prompt!Join, 1)

Symmetry == Permutations(Tasks) \cup Permutations(Texts)

SuiteInit ==
    /\ which \in {"embeddings", "document", "entries", "relations", "reply"}
    /\ Init
    /\ IF which = "document" THEN document \in Inputs(which) ELSE document = Null
    /\ IF which = "entries" THEN entries \in Inputs(which) ELSE entries = Null
    /\ IF which = "relations" THEN relations \in Inputs(which) ELSE relations = Null
    /\ IF which = "reply" THEN reply \in Inputs(which) ELSE reply = Null

SuiteNext == which = "embeddings" /\ Next /\ UNCHANGED <<which, texts>>

SuiteSpec == SuiteInit /\ [][SuiteNext]_<<which, texts, vars>>
=============================================================================

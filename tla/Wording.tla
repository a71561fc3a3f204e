------------------------------ MODULE Wording ------------------------------
(***************************************************************************)
(* Where the program makes text of rows, or rows of text: a document that  *)
(* is cut into chunks, to be embedded, the sections of a prompt, and the   *)
(* answer of a model.  These are inputs and stay as they are; what is made *)
(* of them is a function of them.                                          *)
(***************************************************************************)
EXTENDS Embeddings, Sequences

CONSTANTS
    MaxWords, Overlap,                           \* of KnowledgeText
    Tables, Columns, Raws, Displays, Unnamed,    \* of PromptText
    JsonTexts,     \* the texts json.loads takes, ...
    JsonValues     \* ... and the objects and arrays among them

ASSUME WordsAssumption == MaxWords \in Nat /\ Overlap \in Nat /\ Overlap < MaxWords

VARIABLES
    document,      \* what is imported, Null when nothing is
    entries,       \* the entries of a dictionary, Null ...
    relations,     \* the declared joins and those that are inferred, Null ...
    reply          \* what is before a value in an answer, the value, and what is after it

Document == INSTANCE KnowledgeText
Prompt == INSTANCE PromptText
Reply == INSTANCE ReplyText

ASSUME JsonAssumption ==
    \A t \in JsonTexts :
        \/ Reply!IsScalar(t)
        \/ \E value \in JsonValues : Reply!IsValue(value) /\ t = Reply!TextOf(value)

texts == <<document, entries, relations, reply>>

\* A text is there or not, and whatever is done with rows it stays what it is.
IsReply(answer) ==
    \E before, after \in Seq(Reply!Tokens), value \in Seq(Reply!Lexemes) :
        Reply!IsValue(value) /\ answer = <<before, value, after>>

TextsInit ==
    /\ document = Null \/ document \in Seq(Document!Items)
    /\ entries = Null \/ entries \in Seq(Prompt!Entry)
    /\ relations = Null \/ relations \in Seq(Prompt!Join) \X Seq(Prompt!Join)
    /\ reply = Null \/ IsReply(reply)

TextsSpec == TextsInit /\ [][UNCHANGED texts]_texts

-----------------------------------------------------------------------------
\* A document that is cut into chunks keeps its words, their order and their headings.
DocumentIsKept ==
    document # Null =>
        /\ Document!WindowsStayTogether(document)
        /\ Document!PathsAreAncestors(document) /\ Document!NothingLost(document)

\* What dictionaries and joins say reaches the prompt, and what a reply says is found in
\* it, unless it is cut off, which is noticed.
PromptAndReplyAreKept ==
    /\ entries # Null => Prompt!MappingsAreKept(entries)
    /\ relations # Null => Prompt!JoinsAreTold(relations[1], relations[2])
    /\ reply # Null => /\ Reply!ValueIsFound(reply[1], reply[2], reply[3])
                       /\ Reply!CutOffIsRefused(reply[1], reply[2])
=============================================================================

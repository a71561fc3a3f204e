--------------------------- MODULE KnowledgeText ----------------------------
(***************************************************************************)
(* What services/knowledge_service.py makes of the content of a document:  *)
(* the HTML is stripped of blocks nobody sees, narrowed to its main area,  *)
(* split at its headings, and cut into chunks of words that overlap.       *)
(*                                                                         *)
(* A document is a sequence of items, and an item is its position in it:   *)
(* a word, a heading (of one word), or a tag that opens or closes a block  *)
(* of the kinds that are dropped (script, style, nav, ...) or an area.     *)
(*                                                                         *)
(* A loop is a function of the number of its rounds: what its variables    *)
(* are after that many.                                                    *)
(***************************************************************************)
EXTENDS Integers, Sequences, SequencesExt

CONSTANTS
    MaxWords,     \* MAX_CHUNK_WORDS
    Overlap       \* OVERLAP_WORDS

Headings == {"h1", "h2", "h3"}

\* The areas a page may have, in the order they are looked for; "content" stands for
\* the divs with one of three ids or classes, and any </div> may close it.
Areas == <<[opening |-> "main", closing |-> "endmain"],
           [opening |-> "article", closing |-> "endarticle"],
           [opening |-> "content", closing |-> "enddiv"]>>
AreaTags == {"main", "endmain", "article", "endarticle", "content", "enddiv"}

Items == Headings \cup AreaTags \cup {"word", "open", "close"}
Level(item) == CASE item = "h1" -> 1 [] item = "h2" -> 2 [] item = "h3" -> 3

Separator == 0   \* the " > " of a section path counts as a word

Lesser(a, b) == IF a < b THEN a ELSE b

-----------------------------------------------------------------------------
\* Where a dropped block that starts at i ends: at the first closing tag.
Closings(doc, i) == {j \in i..Len(doc) : doc[j] = "close"}
FirstClosing(doc, i) == CHOOSE j \in Closings(doc, i) : \A k \in Closings(doc, i) : j <= k

\* Fault variant: the pattern is greedy, up to the last closing tag.
BlockEnd_Greedy(doc, i) == CHOOSE j \in Closings(doc, i) : \A k \in Closings(doc, i) : j >= k

BlockEnd(doc, i) == FirstClosing(doc, i)

\* _clean_html: the items that are left of the blocks, in order.
CleanedWith(s, doc, i) ==
    IF i <= s.until THEN s
    ELSE IF doc[i] = "open" /\ Closings(doc, i) # {}
    THEN [kept |-> s.kept, until |-> BlockEnd(doc, i)]
    ELSE [kept |-> Append(s.kept, i), until |-> s.until]

Cleaning(doc) ==
    LET after[n \in 0..Len(doc)] ==
            IF n = 0 THEN [kept |-> <<>>, until |-> 0] ELSE CleanedWith(after[n - 1], doc, n)
    IN  after

Stripped(doc) == Cleaning(doc)[Len(doc)].kept

\* _extract_main_content: an area is found by its tags, and as the pattern is greedy,
\* all between the first opening one and the last closing one is inside.
Found(doc, html, area) ==
    \E j \in 1..Len(html) : \E k \in (j + 1)..Len(html) :
        doc[html[j]] = area.opening /\ doc[html[k]] = area.closing

Inside(doc, html, area, i) ==
    \E j \in 1..(i - 1) : \E k \in (i + 1)..Len(html) :
        doc[html[j]] = area.opening /\ doc[html[k]] = area.closing

\* Of the first area that is found the inside is taken, or else all.  The tags of areas
\* have no text.
Taken(doc, html, i) ==
    /\ doc[html[i]] \notin AreaTags
    /\ \A n \in 1..Len(Areas) :
           Found(doc, html, Areas[n]) /\ (\A m \in 1..(n - 1) : ~Found(doc, html, Areas[m]))
             => Inside(doc, html, Areas[n], i)

Narrowing(doc, html) ==
    LET after[n \in 0..Len(html)] ==
            IF n = 0 THEN <<>>
            ELSE IF Taken(doc, html, n) THEN Append(after[n - 1], html[n]) ELSE after[n - 1]
    IN  after

MainContent(doc, html) == Narrowing(doc, html)[Len(html)]

CleanHtml(doc) == MainContent(doc, Stripped(doc))

\* _HTMLTextParser: the words of a fragment outside of the blocks still in it.
Handled(s, doc, i) ==
    IF doc[i] = "open" THEN [words |-> s.words, depth |-> s.depth + 1]
    ELSE IF doc[i] = "close"
    THEN [words |-> s.words, depth |-> IF s.depth > 0 THEN s.depth - 1 ELSE 0]
    ELSE IF s.depth > 0 THEN s
    ELSE [words |-> Append(s.words, i), depth |-> s.depth]

Parsing(doc, fragment) ==
    LET after[n \in 0..Len(fragment)] ==
            IF n = 0 THEN [words |-> <<>>, depth |-> 0]
            ELSE Handled(after[n - 1], doc, fragment[n])
    IN  after

HtmlToText(doc, fragment) == Parsing(doc, fragment)[Len(fragment)].words

\* while len(heading_stack) >= level: heading_stack.pop()
Trimmed(stack, level) == SubSeq(stack, 1, Lesser(Len(stack), level - 1))

\* Text that came to an end becomes a section, if there is any.
Flushed(doc, sections, fragment, stack) ==
    LET words == HtmlToText(doc, fragment) IN
    IF words = <<>> THEN sections
    ELSE Append(sections, [path |-> stack, words |-> words])

\* _split_sections
SplitWith(s, doc, i) ==
    IF doc[i] \in Headings
    THEN [sections |-> Flushed(doc, s.sections, s.fragment, s.stack), fragment |-> <<>>,
          stack |-> Append(Trimmed(s.stack, Level(doc[i])), i)]
    ELSE [sections |-> s.sections, fragment |-> Append(s.fragment, i), stack |-> s.stack]

Splitting(doc, html) ==
    LET after[n \in 0..Len(html)] ==
            IF n = 0 THEN [sections |-> <<>>, fragment |-> <<>>, stack |-> <<>>]
            ELSE SplitWith(after[n - 1], doc, html[n])
    IN  after

SplitSections(doc, html) ==
    LET last == Splitting(doc, html)[Len(html)]
        sections == Flushed(doc, last.sections, last.fragment, last.stack)
    IN  IF sections = <<>> THEN Flushed(doc, <<>>, html, <<>>) ELSE sections

NextStart(end) == IF end > Overlap THEN end - Overlap ELSE 0

\* _chunk_words, which is done after a round for each word at the latest.
ChunkedWith(s, words) ==
    LET end == Lesser(s.start + MaxWords, Len(words)) IN
    IF s.done THEN s
    ELSE [chunks |-> Append(s.chunks, SubSeq(words, s.start + 1, end)),
          start |-> NextStart(end), done |-> end = Len(words)]

Chunking(words) ==
    LET after[n \in 0..Len(words)] ==
            IF n = 0 THEN [chunks |-> <<>>, start |-> 0, done |-> words = <<>>]
            ELSE ChunkedWith(after[n - 1], words)
    IN  after

ChunkWords(words) == Chunking(words)[Len(words)].chunks

\* The section path in front of its text.
PathWords(path) ==
    IF path = <<>> THEN <<>>
    ELSE [i \in 1..(2 * Len(path) - 1) |-> IF i % 2 = 1 THEN path[(i + 1) \div 2] ELSE Separator]

Prefixed(section) == PathWords(section.path) \o section.words

\* The first half of import_document, for content with tags in it; without one
\* it is a single section with no path.
Sections(doc) == SplitSections(doc, CleanHtml(doc))
ChunkTexts(doc) == FlattenSeq([i \in 1..Len(Sections(doc)) |-> ChunkWords(Prefixed(Sections(doc)[i]))])

-----------------------------------------------------------------------------
(* Properties of a document *)

\* No chunk is longer than the limit, and whatever Overlap + 1 words stand next to
\* each other in a section stand next to each other in one of its chunks.
Occurs(part, whole) ==
    \E k \in 0..(Len(whole) - Len(part)) : SubSeq(whole, k + 1, k + Len(part)) = part

WindowsStayTogether(doc) ==
    \A i \in 1..Len(Sections(doc)) :
        LET words == Prefixed(Sections(doc)[i])
            chunks == ChunkWords(words)
        IN  /\ \A c \in 1..Len(chunks) : Len(chunks[c]) <= MaxWords
            /\ \A k \in 1..(Len(words) - Overlap) :
                   \E c \in 1..Len(chunks) : Occurs(SubSeq(words, k, k + Overlap), chunks[c])

\* The headings that position i stands under: those that no later heading of the
\* same or a higher rank has closed.
OpenHeadings(doc, i) ==
    {h \in 1..(i - 1) :
        /\ doc[h] \in Headings
        /\ \A g \in (h + 1)..(i - 1) : doc[g] \in Headings => Level(doc[g]) > Level(doc[h])}

\* No h3 directly under an h1, for one.
NoLevelSkipped(doc) ==
    \A h \in 1..Len(doc) : doc[h] \in Headings =>
        \A l \in 1..(Level(doc[h]) - 1) : \E g \in OpenHeadings(doc, h) : Level(doc[g]) = l

Flat(doc) ==
    \A i \in 1..Len(doc) :
        /\ doc[i] = "open" => \E j \in Closings(doc, i) : \A k \in (i + 1)..j : doc[k] # "open"
        /\ doc[i] = "close" =>
               \E j \in 1..(i - 1) : doc[j] = "open" /\ \A k \in (j + 1)..(i - 1) : doc[k] # "close"

Untagged(doc) == ToSet(doc) \subseteq Headings \cup {"word"}

\* Where no heading level is skipped, text is imported under the headings it stands
\* under, outermost first.
PathsAreAncestors(doc) ==
    NoLevelSkipped(doc) /\ Untagged(doc) /\ "word" \in ToSet(doc) =>
        \A i \in 1..Len(Sections(doc)) :
            LET section == Sections(doc)[i] IN
            /\ ToSet(section.path) = OpenHeadings(doc, section.words[1])
            /\ \A j, k \in 1..Len(section.path) : j < k => section.path[j] < section.path[k]

\* In a dropped block, and in the area that stands for the page.
Hidden(doc, i) == \E j \in 1..(i - 1) :
    doc[j] = "open" /\ \A k \in (j + 1)..(i - 1) : doc[k] # "close"

Shows(doc, i, tag) == doc[i] = tag /\ ~Hidden(doc, i)

HasArea(doc, area) ==
    \E j \in 1..Len(doc) : \E k \in (j + 1)..Len(doc) :
        Shows(doc, j, area.opening) /\ Shows(doc, k, area.closing)

Within(doc, area, i) ==
    \E j \in 1..(i - 1) : \E k \in (i + 1)..Len(doc) :
        Shows(doc, j, area.opening) /\ Shows(doc, k, area.closing)

InMain(doc, i) ==
    \A n \in 1..Len(Areas) :
        HasArea(doc, Areas[n]) /\ (\A m \in 1..(n - 1) : ~HasArea(doc, Areas[m]))
          => Within(doc, Areas[n], i)

\* Where the dropped blocks are not nested, exactly the words outside of them are
\* imported, and of a page with an area (main, article or a content div, whichever of
\* these comes first in this order) those within.
NothingLost(doc) ==
    Flat(doc) =>
        LET chunks == ChunkTexts(doc) IN
        {i \in 1..Len(doc) : doc[i] = "word" /\ ~Hidden(doc, i) /\ InMain(doc, i)}
            = {i \in UNION {ToSet(chunks[c]) : c \in 1..Len(chunks)} :
                   i # Separator /\ doc[i] = "word"}
=============================================================================

-------------------------- MODULE CatalogueProofs --------------------------
(***************************************************************************)
(* Proofs about Retrieval, part by part: the catalogue for any customer's  *)
(* tables, connector type, introspections, edits and changes in the        *)
(* customer's database; the vectors for any callers, texts, bounds and     *)
(* changes of the provider; the keys for any constraints, the rows for any *)
(* statement; the context for any question, foreign keys and limits.       *)
(***************************************************************************)
EXTENDS Retrieval, SequenceTheorems, FiniteSetTheorems, TLAPS

\* Introspection b is over, or never was.
Past(b) == b \in 0..batch /\ \A i \in Introspectors : Running(i) => intro[i].batch # b

\* The rows that one introspection inserts are its own, one for each table; what
\* it inserts beside refers to them.
DraftFits(r) ==
    /\ \A x \in r.draft : x.batch = r.batch
    /\ \A x, y \in r.draft : x.table = y.table => x = y
    /\ \A x \in r.draftRels : x.src \in r.draft /\ x.tgt \in r.draft
    /\ \A e \in r.draftEntries : e.row \in r.draft

\* Each label is there once, and what could be restored is, in the end.
RestoredFits(r) ==
    /\ r.pc # "commit" => r.draftRels = {} /\ r.draftEntries = {}
    /\ \A x, y \in r.draftRels : x.label = y.label /\ x.label # 0 => x = y
    /\ \A e, f \in r.draftEntries : e.label = f.label => e = f
    /\ r.pc = "commit" => /\ RestoredRels(r.draft, r.relsSeen) \subseteq r.draftRels
                          /\ RestoredEntries(r.draft, r.entriesSeen) \subseteq r.draftEntries

\* An introspection is one of those begun, and no other has its number.
NumberFits(i) ==
    IF Running(i)
    THEN /\ intro[i].batch \in 1..batch
         /\ \A j \in Introspectors : Running(j) /\ intro[j].batch = intro[i].batch => i = j
    ELSE intro[i] = NotRunning

IntrosFit == \A i \in Introspectors : NumberFits(i) /\ DraftFits(intro[i]) /\ RestoredFits(intro[i])

\* What was committed is of the past, and refers to tables that are there.
CommittedFits ==
    /\ \A r \in tables : Past(r.batch)
    /\ Past(last)
    /\ \A x \in rels : x.src \in tables /\ x.tgt \in tables
    /\ \A e \in entries : e.row \in tables

\* The columns that were read are those of the row, or none of a row that was
\* deleted and will not come back.
ColumnsFit(e) ==
    /\ e.key \in Row /\ Past(e.key.batch)
    /\ e.columns = {e.key.column} \/ (e.columns = {} /\ e.key \notin tables)

ReadFits ==
    /\ \A e \in columnCache : ColumnsFit(e)
    /\ reader # Null =>
         /\ \A r \in reader.rows : r \in Row /\ Past(r.batch)
         /\ reader.columns # Null => \A e \in reader.columns : ColumnsFit(e)

\* What is known of manual relationships and of entries, by their names.
NamedRel(x) == [src |-> x.src.table.name, tgt |-> x.tgt.table.name, label |-> x.label]
NamedEntry(e) == [name |-> e.row.table.name, column |-> e.row.column, label |-> e.label]

ToldRels ==
    {m \in RelSeen :
       \/ \E x \in rels : x.label # 0 /\ m = NamedRel(x)
       \/ \E i \in Introspectors : \/ m \in intro[i].relsSeen
                                   \/ \E x \in intro[i].draftRels : x.label # 0 /\ m = NamedRel(x)}
ToldEntries ==
    {m \in EntrySeen :
       \/ \E e \in entries : m = NamedEntry(e)
       \/ \E i \in Introspectors : \/ m \in intro[i].entriesSeen
                                   \/ \E e \in intro[i].draftEntries : m = NamedEntry(e)}

\* A label tells one relationship or entry; the one about to be inserted is new.
LabelsFit ==
    /\ \A m, n \in ToldRels : m.label = n.label => m = n
    /\ \A m, n \in ToldEntries : m.label = n.label => m = n
    /\ \A m \in ToldRels \cup ToldEntries : m.label <= edits
    /\ editor # Null => /\ editor.label \in 1..edits
                        /\ \A m \in ToldRels : m.label # editor.label

\* An introspection that was alone has deleted, or will delete, all there is.
AloneFits ==
    ~overlapped =>
        /\ \A i, j \in Introspectors : Running(i) /\ Running(j) => i = j
        /\ \A i \in Introspectors :
             /\ At(i, "wait") => intro[i].targets = tables
             /\ intro[i].pc \in {"scan", "relate", "commit"} => intro[i].doomed = tables

CatalogueInv ==
    TypeOK /\ IntrosFit /\ CommittedFits /\ ReadFits /\ LabelsFit /\ AloneFits /\ CachedOnce

-----------------------------------------------------------------------------
(* What the operators return *)

LEMMA NotRunningIs ==
    /\ NotRunning \in Work /\ NotRunning.pc = "idle"
    /\ NotRunning.relsSeen = {} /\ NotRunning.entriesSeen = {}
    /\ NotRunning.targets = {} /\ NotRunning.doomed = {} /\ NotRunning.draft = {}
    /\ NotRunning.draftRels = {} /\ NotRunning.draftEntries = {}
BY BoundsAssumption DEF NotRunning, Work, Batches

LEMMA RelIs ==
    ASSUME NEW s \in Row, NEW t \in Row, NEW label \in {0} \cup Labels
    PROVE  LET x == [src |-> s, tgt |-> t, label |-> label]
           IN  x \in Rel /\ x.src = s /\ x.tgt = t /\ x.label = label
BY DEF Rel

LEMMA NamedIs ==
    ASSUME NEW x \in Rel, x.label # 0
    PROVE  /\ NamedRel(x) \in RelSeen /\ NamedRel(x).label = x.label
           /\ NamedRel(x).src = x.src.table.name /\ NamedRel(x).tgt = x.tgt.table.name
<1>1. x.src.table \in Tables /\ x.tgt.table \in Tables /\ x.label \in Labels
  BY DEF Rel, Row
<1>2. x.src.table.name \in Names /\ x.tgt.table.name \in Names
  BY <1>1 DEF Names
<1> QED
  BY <1>1, <1>2 DEF NamedRel, RelSeen

LEMMA NamedEntryIs ==
    ASSUME NEW e \in DictEntry
    PROVE  /\ NamedEntry(e) \in EntrySeen /\ NamedEntry(e).label = e.label
           /\ NamedEntry(e).name = e.row.table.name /\ NamedEntry(e).column = e.row.column
<1>1. e.row \in Row /\ e.row.table \in Tables /\ e.row.column \in Columns /\ e.label \in Labels
  BY DEF DictEntry, Row
<1>2. e.row.table.name \in Names
  BY <1>1 DEF Names
<1> QED
  BY <1>1, <1>2 DEF NamedEntry, EntrySeen

LEMMA SeenAreNamed ==
    /\ \A m \in SeenRels : \E x \in rels : x.label # 0 /\ m = NamedRel(x)
    /\ \A m \in SeenEntries : \E e \in entries : m = NamedEntry(e)
BY DEF SeenRels, SeenEntries, NamedRel, NamedEntry

\* The rows found belong to the introspection and stand for one table each.
LEMMA ScannedIs ==
    ASSUME TypeOK, NEW b \in Batches
    PROVE  /\ Scanned(b) \in SUBSET Row
           /\ \A x \in Scanned(b) : x.batch = b
           /\ \A x, y \in Scanned(b) : x.table = y.table => x = y
<1>1. \A x \in Scanned(b) : \E t \in Tables : world[t] # Null /\ x = [batch |-> b, table |-> t, column |-> world[t]]
  BY DEF Scanned
<1>2. \A t \in Tables : world[t] # Null => world[t] \in Columns
  BY DEF TypeOK
<1> QED
  BY <1>1, <1>2 DEF Row

\* CHOOSE finds a row where there is one.
LEMMA FirstIs ==
    ASSUME NEW found, found # {}
    PROVE  First(found) \in found /\ Last(found) \in found
<1>1. \E r \in found : r.table.schema = Dbo \/ \A s \in found : s.table.schema # Dbo
  OBVIOUS
<1>2. \E r \in found : r.table.schema # Dbo \/ \A s \in found : s.table.schema = Dbo
  OBVIOUS
<1> QED
  BY <1>1, <1>2 DEF First, Last

\* What is restored goes by the names it was remembered by.
LEMMA RestoredRelsAre ==
    ASSUME NEW draft \in SUBSET Row, NEW seen \in SUBSET RelSeen
    PROVE  /\ \A x \in RestoredRels(draft, seen) :
                /\ x \in Rel /\ x.src \in draft /\ x.tgt \in draft /\ x.label \in Labels
                /\ NamedRel(x) \in seen
           /\ \A m \in seen : Has(draft, m.src) /\ Has(draft, m.tgt) =>
                \E x \in RestoredRels(draft, seen) : NamedRel(x) = m
<1> DEFINE made(m) == [src |-> First(Candidates(draft, m.src)), tgt |-> First(Candidates(draft, m.tgt)),
                       label |-> m.label]
<1>1. ASSUME NEW m \in seen, Candidates(draft, m.src) # {}, Candidates(draft, m.tgt) # {}
      PROVE  /\ made(m) \in Rel /\ made(m).src \in draft /\ made(m).tgt \in draft
             /\ made(m).label \in Labels /\ NamedRel(made(m)) = m
  <2> DEFINE s == First(Candidates(draft, m.src))
             t == First(Candidates(draft, m.tgt))
  <2>1. s \in Candidates(draft, m.src) /\ t \in Candidates(draft, m.tgt)
    BY <1>1, FirstIs
  <2>2. s \in draft /\ s.table.name = m.src /\ t \in draft /\ t.table.name = m.tgt
    BY <2>1 DEF Candidates, RowsNamed
  <2>3. m \in [src: Names, tgt: Names, label: Labels]
    BY DEF RelSeen
  <2>4. made(m) = [src |-> s, tgt |-> t, label |-> m.label]
    OBVIOUS
  <2> HIDE DEF s, t
  <2>5. NamedRel(made(m)) = [src |-> m.src, tgt |-> m.tgt, label |-> m.label]
    BY <2>2, <2>4 DEF NamedRel
  <2>6. m = [src |-> m.src, tgt |-> m.tgt, label |-> m.label]
    BY <2>3
  <2> QED
    BY <2>2, <2>3, <2>4, <2>5, <2>6 DEF Rel
<1>2. RestoredRels(draft, seen) =
        {made(m) : m \in {n \in seen : Candidates(draft, n.src) # {} /\ Candidates(draft, n.tgt) # {}}}
  BY DEF RestoredRels
<1> HIDE DEF made
<1> QED
  BY <1>1, <1>2 DEF Has, Candidates

LEMMA RestoredEntriesAre ==
    ASSUME NEW draft \in SUBSET Row, NEW seen \in SUBSET EntrySeen
    PROVE  /\ \A e \in RestoredEntries(draft, seen) :
                e \in DictEntry /\ e.row \in draft /\ NamedEntry(e) \in seen
           /\ \A m \in seen : (\E r \in draft : r.table.name = m.name /\ r.column = m.column) =>
                \E e \in RestoredEntries(draft, seen) : NamedEntry(e) = m
<1> DEFINE made(m) == [row |-> Last(ColumnRows(draft, m)), label |-> m.label]
<1>1. ASSUME NEW m \in seen, ColumnRows(draft, m) # {}
      PROVE  made(m) \in DictEntry /\ made(m).row \in draft /\ NamedEntry(made(m)) = m
  <2> DEFINE row == Last(ColumnRows(draft, m))
  <2>1. row \in ColumnRows(draft, m)
    BY <1>1, FirstIs
  <2>2. row \in draft /\ row.table.name = m.name /\ row.column = m.column
    BY <2>1 DEF ColumnRows, RowsNamed
  <2>3. m \in [name: Names, column: Columns, label: Labels]
    BY DEF EntrySeen
  <2>4. made(m) = [row |-> row, label |-> m.label]
    OBVIOUS
  <2> HIDE DEF row
  <2>5. NamedEntry(made(m)) = [name |-> m.name, column |-> m.column, label |-> m.label]
    BY <2>2, <2>4 DEF NamedEntry
  <2>6. m = [name |-> m.name, column |-> m.column, label |-> m.label]
    BY <2>3
  <2> QED
    BY <2>2, <2>3, <2>4, <2>5, <2>6 DEF DictEntry
<1>2. RestoredEntries(draft, seen) = {made(e) : e \in {f \in seen : ColumnRows(draft, f) # {}}}
  BY DEF RestoredEntries
<1>3. \A m \in seen : (\E r \in draft : r.table.name = m.name /\ r.column = m.column) =>
        ColumnRows(draft, m) # {}
  BY DEF ColumnRows, RowsNamed
<1> HIDE DEF made
<1> QED
  BY <1>1, <1>2, <1>3

LEMMA DeclaredRelsAre ==
    ASSUME NEW draft \in SUBSET Row, NEW now
    PROVE  \A x \in DeclaredRels(draft, now) :
             x \in Rel /\ x.src \in draft /\ x.tgt \in draft /\ x.label = 0
<1> SUFFICES ASSUME NEW x \in DeclaredRels(draft, now)
             PROVE  x \in Rel /\ x.src \in draft /\ x.tgt \in draft /\ x.label = 0
  OBVIOUS
<1>1. PICK p \in draft \X draft : x = [src |-> p[1], tgt |-> p[2], label |-> 0]
  BY DEF DeclaredRels
<1>2. p[1] \in draft /\ p[2] \in draft
  OBVIOUS
<1> QED
  BY <1>1, <1>2 DEF Rel

-----------------------------------------------------------------------------
(* What steps have in common *)

\* A cache that is read as before, or emptied, of a past that stays.
LEMMA ReadStays ==
    ASSUME CatalogueInv, UNCHANGED reader, columnCache' \subseteq columnCache,
           \A b : Past(b) => Past(b)', tables' \cap {r \in Row : Past(r.batch)} \subseteq tables
    PROVE  ReadFits'
<1>1. \A e : ColumnsFit(e) => ColumnsFit(e)'
  BY DEF ColumnsFit
<1> QED
  BY <1>1 DEF CatalogueInv, ReadFits

\* Nothing more is told than before.
LEMMA LabelsStay ==
    ASSUME CatalogueInv, ToldRels' \subseteq ToldRels, ToldEntries' \subseteq ToldEntries,
           UNCHANGED <<editor, edits>>
    PROVE  LabelsFit'
BY DEF CatalogueInv, LabelsFit

\* An introspection that is under way takes a step, or is rolled back.
LEMMA IntroStep ==
    ASSUME CatalogueInv, NEW i \in Introspectors, Running(i), NEW r \in Work,
           intro' = [intro EXCEPT ![i] = r],
           UNCHANGED <<catalogue, others, customer, batch, overlapped>>,
           columnCache' \subseteq columnCache,
           IF r.pc = "idle" THEN r = NotRunning ELSE r.batch = intro[i].batch,
           DraftFits(r), RestoredFits(r),
           \A m \in r.relsSeen : m \in ToldRels,
           \A x \in r.draftRels : x.label # 0 => NamedRel(x) \in ToldRels,
           \A m \in r.entriesSeen : m \in ToldEntries,
           \A e \in r.draftEntries : NamedEntry(e) \in ToldEntries,
           ~overlapped => /\ r.pc = "wait" => r.targets = tables
                          /\ r.pc \in {"scan", "relate", "commit"} => r.doomed = tables
    PROVE  CatalogueInv'
<1>1. /\ intro' \in [Introspectors -> Work] /\ intro'[i] = r
      /\ \A j \in Introspectors \ {i} : intro'[j] = intro[j]
  BY DEF CatalogueInv, TypeOK
<1>2. /\ UNCHANGED <<tables, rels, entries, last, editor, reader, edits, world, ddl, sqlserver,
                      batch, overlapped>>
      /\ intro[i].pc # "idle"
  BY DEF catalogue, others, customer, Running, At
<1>3. TypeOK'
  BY <1>1, <1>2 DEF CatalogueInv, TypeOK
<1>4. \A b : Past(b) => Past(b)'
  BY <1>1, <1>2 DEF Past, Running, At
<1>5. ASSUME NEW j \in Introspectors
      PROVE  (NumberFits(j) /\ DraftFits(intro[j]) /\ RestoredFits(intro[j]))'
  <2>1. NumberFits(j)'
    BY <1>1, <1>2 DEF CatalogueInv, IntrosFit, NumberFits, Running, At
  <2>2. DraftFits(intro'[j]) /\ RestoredFits(intro'[j])
    BY <1>1 DEF CatalogueInv, IntrosFit
  <2>3. DraftFits(intro[j])' /\ RestoredFits(intro[j])'
    BY <2>2 DEF DraftFits, RestoredFits
  <2> QED
    BY <2>1, <2>3
<1>6. IntrosFit'
  BY <1>5 DEF IntrosFit
<1>7. CommittedFits'
  BY <1>2, <1>4 DEF CatalogueInv, CommittedFits
<1>8. ReadFits'
  BY <1>2, <1>4, ReadStays
<1>9. ToldRels' \subseteq ToldRels /\ ToldEntries' \subseteq ToldEntries
  <2>1. ASSUME NEW m \in ToldRels' PROVE m \in ToldRels
    <3>1. CASE \E x \in rels : x.label # 0 /\ m = NamedRel(x)
      BY <3>1 DEF ToldRels
    <3>2. ASSUME NEW j \in Introspectors,
                 m \in intro'[j].relsSeen \/ \E x \in intro'[j].draftRels : x.label # 0 /\ m = NamedRel(x)
          PROVE  m \in ToldRels
      <4>1. CASE j = i
        BY <1>1, <3>2, <4>1
      <4>2. CASE j # i
        BY <1>1, <3>2, <4>2 DEF ToldRels
      <4> QED
        BY <4>1, <4>2
    <3> QED
      BY <1>2, <3>1, <3>2 DEF ToldRels, NamedRel
  <2>2. ASSUME NEW m \in ToldEntries' PROVE m \in ToldEntries
    <3>1. CASE \E e \in entries : m = NamedEntry(e)
      BY <3>1 DEF ToldEntries
    <3>2. ASSUME NEW j \in Introspectors,
                 m \in intro'[j].entriesSeen \/ \E e \in intro'[j].draftEntries : m = NamedEntry(e)
          PROVE  m \in ToldEntries
      <4>1. CASE j = i
        BY <1>1, <3>2, <4>1
      <4>2. CASE j # i
        BY <1>1, <3>2, <4>2 DEF ToldEntries
      <4> QED
        BY <4>1, <4>2
    <3> QED
      BY <1>2, <3>1, <3>2 DEF ToldEntries, NamedEntry
  <2> QED
    BY <2>1, <2>2
<1>10. LabelsFit'
  BY <1>2, <1>9, LabelsStay
<1>11. AloneFits' /\ CachedOnce'
  BY <1>1, <1>2 DEF CatalogueInv, AloneFits, CachedOnce, Running, At
<1> QED
  BY <1>3, <1>6, <1>7, <1>8, <1>10, <1>11 DEF CatalogueInv

\* What leaves the introspections and the tables, leaves what is known of them.
LEMMA IntrosStay ==
    ASSUME CatalogueInv, UNCHANGED <<intro, tables, last, batch, overlapped>>
    PROVE  /\ IntrosFit' /\ AloneFits' /\ \A b : Past(b)' <=> Past(b)
           /\ Past(last)' /\ \A r \in tables : Past(r.batch)'
<1>1. \A b : Past(b)' <=> Past(b)
  BY DEF Past, Running, At
<1>2. IntrosFit'
  BY DEF CatalogueInv, IntrosFit, NumberFits, DraftFits, RestoredFits, Running, At
<1>3. AloneFits'
  BY DEF CatalogueInv, AloneFits, Running, At
<1> QED
  BY <1>1, <1>2, <1>3 DEF CatalogueInv, CommittedFits

\* A step of the reader or of the customer.
LEMMA ReadStep ==
    ASSUME CatalogueInv, UNCHANGED <<intro, catalogue, batch, overlapped, editor, edits>>,
           TypeOK', ReadFits'
    PROVE  CatalogueInv'
<1>1. UNCHANGED <<tables, rels, entries, last>>
  BY DEF catalogue
<1>2. IntrosFit' /\ AloneFits' /\ CommittedFits'
  BY <1>1, IntrosStay DEF CatalogueInv, CommittedFits
<1>3. ToldRels' = ToldRels /\ ToldEntries' = ToldEntries
  BY <1>1 DEF ToldRels, ToldEntries, NamedRel, NamedEntry
<1>4. LabelsFit'
  BY <1>3, LabelsStay
<1>5. CachedOnce'
  BY <1>1 DEF CatalogueInv, CachedOnce
<1> QED
  BY <1>2, <1>4, <1>5 DEF CatalogueInv

\* A step of an editor.
LEMMA EditStep ==
    ASSUME CatalogueInv,
           UNCHANGED <<intro, tables, last, customer, columnCache, batch, overlapped, reader>>,
           TypeOK', LabelsFit', CachedOnce',
           \A x \in rels' : x.src \in tables /\ x.tgt \in tables,
           \A e \in entries' : e.row \in tables
    PROVE  CatalogueInv'
<1>1. /\ IntrosFit' /\ AloneFits' /\ Past(last)' /\ \A r \in tables : Past(r.batch)'
      /\ \A b : Past(b) => Past(b)'
  BY IntrosStay
<1>2. CommittedFits'
  BY <1>1 DEF CommittedFits
<1>3. ReadFits'
  BY <1>1, ReadStays
<1> QED
  BY <1>1, <1>2, <1>3 DEF CatalogueInv

-----------------------------------------------------------------------------
(* The steps of an introspection *)

LEMMA IntroFacts ==
    ASSUME CatalogueInv, NEW i \in Introspectors
    PROVE  /\ intro[i] \in Work /\ DraftFits(intro[i]) /\ RestoredFits(intro[i])
           /\ \A m \in intro[i].relsSeen : m \in ToldRels
           /\ \A m \in intro[i].entriesSeen : m \in ToldEntries
           /\ \A x \in intro[i].draftRels : x.label # 0 => NamedRel(x) \in ToldRels
           /\ \A e \in intro[i].draftEntries : NamedEntry(e) \in ToldEntries
<1>1. intro[i] \in Work /\ DraftFits(intro[i]) /\ RestoredFits(intro[i])
  BY DEF CatalogueInv, TypeOK, IntrosFit
<1>2. /\ intro[i].relsSeen \subseteq RelSeen /\ intro[i].entriesSeen \subseteq EntrySeen
      /\ intro[i].draftRels \subseteq Rel /\ intro[i].draftEntries \subseteq DictEntry
  BY <1>1 DEF Work
<1>3. \A m \in intro[i].relsSeen : m \in ToldRels
  BY <1>2 DEF ToldRels
<1>4. \A m \in intro[i].entriesSeen : m \in ToldEntries
  BY <1>2 DEF ToldEntries
<1>5. \A x \in intro[i].draftRels : x.label # 0 => NamedRel(x) \in ToldRels
  BY <1>2, NamedIs DEF ToldRels
<1>6. \A e \in intro[i].draftEntries : NamedEntry(e) \in ToldEntries
  BY <1>2, NamedEntryIs DEF ToldEntries
<1> QED
  BY <1>1, <1>3, <1>4, <1>5, <1>6

LEMMA CommittedAreTold ==
    ASSUME CatalogueInv
    PROVE  /\ \A x \in rels : x.label # 0 => NamedRel(x) \in ToldRels
           /\ \A e \in entries : NamedEntry(e) \in ToldEntries
<1>1. rels \subseteq Rel /\ entries \subseteq DictEntry
  BY DEF CatalogueInv, TypeOK
<1>2. \A x \in rels : x.label # 0 => NamedRel(x) \in ToldRels
  BY <1>1, NamedIs DEF ToldRels
<1>3. \A e \in entries : NamedEntry(e) \in ToldEntries
  BY <1>1, NamedEntryIs DEF ToldEntries
<1> QED
  BY <1>2, <1>3

LEMMA SeenAreTold ==
    ASSUME CatalogueInv
    PROVE  /\ SeenRels \in SUBSET RelSeen /\ \A m \in SeenRels : m \in ToldRels
           /\ SeenEntries \in SUBSET EntrySeen /\ \A m \in SeenEntries : m \in ToldEntries
<1>1. \A m \in SeenRels : m \in ToldRels
  BY SeenAreNamed, CommittedAreTold
<1>2. \A m \in SeenEntries : m \in ToldEntries
  BY SeenAreNamed, CommittedAreTold
<1>3. ToldRels \subseteq RelSeen /\ ToldEntries \subseteq EntrySeen
  BY DEF ToldRels, ToldEntries
<1> QED
  BY <1>1, <1>2, <1>3

LEMMA SnapshotsEntries ==
    ASSUME CatalogueInv, NEW i \in Introspectors, SnapshotEntries(i) PROVE CatalogueInv'
<1> DEFINE old == intro[i]
           r == [old EXCEPT !.pc = "delete", !.entriesSeen = SeenEntries]
<1>1. /\ old.pc = "dictionary" /\ intro' = [intro EXCEPT ![i] = r]
      /\ UNCHANGED <<catalogue, others, customer, columnCache, batch, overlapped>>
  BY DEF SnapshotEntries, Goes, At
<1>2. old \in Work /\ DraftFits(old) /\ RestoredFits(old) /\ Running(i)
  BY <1>1, IntroFacts DEF Running, At
<1>3. /\ r \in Work /\ r.pc = "delete" /\ r.batch = old.batch /\ r.relsSeen = old.relsSeen
      /\ r.entriesSeen = SeenEntries /\ r.draft = old.draft /\ r.draftRels = old.draftRels
      /\ r.draftEntries = old.draftEntries
  BY <1>2, SeenAreTold DEF Work
<1> HIDE DEF r
<1>4. DraftFits(r) /\ RestoredFits(r)
  BY <1>1, <1>2, <1>3 DEF DraftFits, RestoredFits
<1>5. /\ \A m \in r.relsSeen : m \in ToldRels
      /\ \A x \in r.draftRels : x.label # 0 => NamedRel(x) \in ToldRels
      /\ \A m \in r.entriesSeen : m \in ToldEntries
      /\ \A e \in r.draftEntries : NamedEntry(e) \in ToldEntries
  BY <1>3, IntroFacts, SeenAreTold
<1> QED
  BY <1>1, <1>2, <1>3, <1>4, <1>5, IntroStep

LEMMA StartsDelete ==
    ASSUME CatalogueInv, NEW i \in Introspectors, StartDelete(i) PROVE CatalogueInv'
<1> DEFINE old == intro[i]
           r == [old EXCEPT !.pc = "wait", !.targets = tables]
<1>1. /\ old.pc = "delete" /\ intro' = [intro EXCEPT ![i] = r]
      /\ UNCHANGED <<catalogue, others, customer, columnCache, batch, overlapped>>
  BY DEF StartDelete, Deleted, Goes, At
<1>2. old \in Work /\ DraftFits(old) /\ RestoredFits(old) /\ Running(i)
  BY <1>1, IntroFacts DEF Running, At
<1>3. tables \in SUBSET Row
  BY DEF CatalogueInv, TypeOK
<1>4. /\ r \in Work /\ r.pc = "wait" /\ r.batch = old.batch /\ r.relsSeen = old.relsSeen
      /\ r.entriesSeen = old.entriesSeen /\ r.draft = old.draft /\ r.draftRels = old.draftRels
      /\ r.draftEntries = old.draftEntries /\ r.targets = tables
  BY <1>2, <1>3 DEF Work
<1> HIDE DEF r
<1>5. DraftFits(r) /\ RestoredFits(r)
  BY <1>1, <1>2, <1>4 DEF DraftFits, RestoredFits
<1>6. /\ \A m \in r.relsSeen : m \in ToldRels
      /\ \A x \in r.draftRels : x.label # 0 => NamedRel(x) \in ToldRels
      /\ \A m \in r.entriesSeen : m \in ToldEntries
      /\ \A e \in r.draftEntries : NamedEntry(e) \in ToldEntries
  BY <1>4, IntroFacts
<1> QED
  BY <1>1, <1>2, <1>4, <1>5, <1>6, IntroStep

LEMMA FinishesDelete ==
    ASSUME CatalogueInv, NEW i \in Introspectors, FinishDelete(i) PROVE CatalogueInv'
<1> DEFINE old == intro[i]
           found == old.targets \cap tables
           r == [old EXCEPT !.pc = "scan", !.targets = {}, !.doomed = found]
<1>1. /\ old.pc = "wait" /\ intro' = [intro EXCEPT ![i] = r]
      /\ UNCHANGED <<catalogue, others, customer, columnCache, batch, overlapped>>
  BY DEF FinishDelete, Goes, At
<1>2. old \in Work /\ DraftFits(old) /\ RestoredFits(old) /\ Running(i)
  BY <1>1, IntroFacts DEF Running, At
<1>3. found \in SUBSET Row /\ (~overlapped => found = tables)
  BY <1>1 DEF CatalogueInv, TypeOK, AloneFits, At
<1> HIDE DEF found
<1>4. /\ r \in Work /\ r.pc = "scan" /\ r.batch = old.batch /\ r.relsSeen = old.relsSeen
      /\ r.entriesSeen = old.entriesSeen /\ r.draft = old.draft /\ r.draftRels = old.draftRels
      /\ r.draftEntries = old.draftEntries /\ r.doomed = found
  BY <1>2, <1>3 DEF Work
<1> HIDE DEF r
<1>5. DraftFits(r) /\ RestoredFits(r)
  BY <1>1, <1>2, <1>4 DEF DraftFits, RestoredFits
<1>6. /\ \A m \in r.relsSeen : m \in ToldRels
      /\ \A x \in r.draftRels : x.label # 0 => NamedRel(x) \in ToldRels
      /\ \A m \in r.entriesSeen : m \in ToldEntries
      /\ \A e \in r.draftEntries : NamedEntry(e) \in ToldEntries
  BY <1>4, IntroFacts
<1> QED
  BY <1>1, <1>2, <1>3, <1>4, <1>5, <1>6, IntroStep

LEMMA Scans ==
    ASSUME CatalogueInv, NEW i \in Introspectors, Scan(i) PROVE CatalogueInv'
<1> DEFINE old == intro[i]
           found == Scanned(old.batch)
           r == [old EXCEPT !.pc = "relate", !.draft = found]
<1>1. /\ old.pc = "scan" /\ intro' = [intro EXCEPT ![i] = r]
      /\ UNCHANGED <<catalogue, others, customer, columnCache, batch, overlapped>>
  BY DEF Scan, Goes, At
<1>2. old \in Work /\ DraftFits(old) /\ RestoredFits(old) /\ Running(i)
  BY <1>1, IntroFacts DEF Running, At
<1>3. /\ found \in SUBSET Row /\ \A x \in found : x.batch = old.batch
      /\ \A x, y \in found : x.table = y.table => x = y
  BY <1>2, ScannedIs DEF CatalogueInv, Work
<1> HIDE DEF found
<1>4. /\ r \in Work /\ r.pc = "relate" /\ r.batch = old.batch /\ r.relsSeen = old.relsSeen
      /\ r.entriesSeen = old.entriesSeen /\ r.draft = found /\ r.draftRels = old.draftRels
      /\ r.draftEntries = old.draftEntries /\ r.doomed = old.doomed
  BY <1>2, <1>3 DEF Work
<1> HIDE DEF r
<1>5. r.draftRels = {} /\ r.draftEntries = {}
  BY <1>1, <1>2, <1>4 DEF RestoredFits
<1>6. DraftFits(r) /\ RestoredFits(r)
  BY <1>3, <1>4, <1>5 DEF DraftFits, RestoredFits
<1>7. /\ \A m \in r.relsSeen : m \in ToldRels
      /\ \A m \in r.entriesSeen : m \in ToldEntries
  BY <1>4, IntroFacts
<1>8. ~overlapped => r.doomed = tables
  BY <1>1, <1>4 DEF CatalogueInv, AloneFits
<1> QED
  BY <1>1, <1>2, <1>4, <1>5, <1>6, <1>7, <1>8, IntroStep

LEMMA Relates ==
    ASSUME CatalogueInv, NEW i \in Introspectors, Relate(i) PROVE CatalogueInv'
<1> DEFINE old == intro[i]
           declared == DeclaredRels(old.draft, Scanned(old.batch))
           restored == RestoredRels(old.draft, old.relsSeen)
           noted == RestoredEntries(old.draft, old.entriesSeen)
           r == [old EXCEPT !.pc = "commit", !.draftRels = declared \cup restored,
                            !.draftEntries = noted]
<1>1. /\ old.pc = "relate" /\ intro' = [intro EXCEPT ![i] = r]
      /\ UNCHANGED <<catalogue, others, customer, batch, overlapped>> /\ columnCache' = {}
  BY DEF Relate, Goes, At
<1>2. old \in Work /\ DraftFits(old) /\ RestoredFits(old) /\ Running(i)
  BY <1>1, IntroFacts DEF Running, At
<1>3. /\ old.draft \in SUBSET Row /\ old.relsSeen \in SUBSET RelSeen
      /\ old.entriesSeen \in SUBSET EntrySeen
  BY <1>2 DEF Work
<1>4. \A x \in declared : x \in Rel /\ x.src \in old.draft /\ x.tgt \in old.draft /\ x.label = 0
  BY <1>3, DeclaredRelsAre
<1>5. \A x \in restored : /\ x \in Rel /\ x.src \in old.draft /\ x.tgt \in old.draft
                           /\ x.label \in Labels /\ NamedRel(x) \in old.relsSeen
  BY <1>3, RestoredRelsAre
<1>6. \A e \in noted : e \in DictEntry /\ e.row \in old.draft /\ NamedEntry(e) \in old.entriesSeen
  BY <1>3, RestoredEntriesAre
<1>7. \A x, y \in restored : x.label = y.label => x = y
  <2> SUFFICES ASSUME NEW x \in restored, NEW y \in restored, x.label = y.label PROVE x = y
    OBVIOUS
  <2>1. PICK m \in old.relsSeen : x = [src |-> First(Candidates(old.draft, m.src)),
                                       tgt |-> First(Candidates(old.draft, m.tgt)), label |-> m.label]
    BY DEF RestoredRels
  <2>2. PICK n \in old.relsSeen : y = [src |-> First(Candidates(old.draft, n.src)),
                                       tgt |-> First(Candidates(old.draft, n.tgt)), label |-> n.label]
    BY DEF RestoredRels
  <2>3. m.label = n.label /\ m \in ToldRels /\ n \in ToldRels
    BY <2>1, <2>2, IntroFacts
  <2>4. m = n
    BY <2>3 DEF CatalogueInv, LabelsFit
  <2> QED
    BY <2>1, <2>2, <2>4
<1>8. \A e, f \in noted : e.label = f.label => e = f
  <2> SUFFICES ASSUME NEW e \in noted, NEW f \in noted, e.label = f.label PROVE e = f
    OBVIOUS
  <2>1. PICK m \in old.entriesSeen : e = [row |-> Last(ColumnRows(old.draft, m)), label |-> m.label]
    BY DEF RestoredEntries
  <2>2. PICK n \in old.entriesSeen : f = [row |-> Last(ColumnRows(old.draft, n)), label |-> n.label]
    BY DEF RestoredEntries
  <2>3. m.label = n.label /\ m \in ToldEntries /\ n \in ToldEntries
    BY <2>1, <2>2, IntroFacts
  <2>4. m = n
    BY <2>3 DEF CatalogueInv, LabelsFit
  <2> QED
    BY <2>1, <2>2, <2>4
<1>9. \A l \in Labels : l # 0
  BY DEF Labels
<1> HIDE DEF declared, restored, noted
<1>10. declared \cup restored \in SUBSET Rel /\ noted \in SUBSET DictEntry
  BY <1>4, <1>5, <1>6
<1>11. /\ r \in Work /\ r.pc = "commit" /\ r.batch = old.batch /\ r.relsSeen = old.relsSeen
       /\ r.entriesSeen = old.entriesSeen /\ r.draft = old.draft
       /\ r.draftRels = declared \cup restored /\ r.draftEntries = noted /\ r.doomed = old.doomed
  BY <1>2, <1>10 DEF Work
<1> HIDE DEF r
<1>12. DraftFits(r)
  BY <1>2, <1>4, <1>5, <1>6, <1>11 DEF DraftFits
<1>13. RestoredFits(r)
  <2>1. \A x, y \in r.draftRels : x.label = y.label /\ x.label # 0 => x = y
    BY <1>4, <1>7, <1>11
  <2>2. /\ RestoredRels(r.draft, r.relsSeen) \subseteq r.draftRels
        /\ RestoredEntries(r.draft, r.entriesSeen) \subseteq r.draftEntries
    BY <1>11 DEF restored, noted
  <2> QED
    BY <1>8, <1>11, <2>1, <2>2 DEF RestoredFits
<1>14. /\ \A m \in r.relsSeen : m \in ToldRels
       /\ \A m \in r.entriesSeen : m \in ToldEntries
  BY <1>11, IntroFacts
<1>15. \A x \in r.draftRels : x.label # 0 => NamedRel(x) \in ToldRels
  BY <1>4, <1>5, <1>11, <1>14
<1>16. \A e \in r.draftEntries : NamedEntry(e) \in ToldEntries
  BY <1>6, <1>11, <1>14
<1>17. ~overlapped => r.doomed = tables
  BY <1>1, <1>11 DEF CatalogueInv, AloneFits
<1> QED
  BY <1>1, <1>2, <1>11, <1>12, <1>13, <1>14, <1>15, <1>16, <1>17, IntroStep

LEMMA RollsBack ==
    ASSUME CatalogueInv, NEW i \in Introspectors, Rollback(i) PROVE CatalogueInv'
<1>1. /\ Running(i) /\ intro' = [intro EXCEPT ![i] = NotRunning]
      /\ UNCHANGED <<catalogue, others, customer, columnCache, batch, overlapped>>
  BY DEF Rollback, Goes
<1>2. DraftFits(NotRunning) /\ RestoredFits(NotRunning)
  BY NotRunningIs DEF DraftFits, RestoredFits
<1> QED
  BY <1>1, <1>2, NotRunningIs, IntroStep

LEMMA Snapshots ==
    ASSUME CatalogueInv, NEW i \in Introspectors, SnapshotRels(i) PROVE CatalogueInv'
<1> DEFINE r == [NotRunning EXCEPT !.pc = "dictionary", !.batch = batch', !.relsSeen = SeenRels]
<1>1. /\ intro[i].pc = "idle" /\ batch < MaxBatches /\ batch' = batch + 1
      /\ overlapped' = (overlapped \/ \E j \in Introspectors : Running(j))
      /\ intro' = [intro EXCEPT ![i] = r]
      /\ UNCHANGED <<tables, rels, entries, last, editor, reader, edits, world, ddl, sqlserver,
                     columnCache>>
  BY DEF SnapshotRels, Goes, At, catalogue, others, customer
<1>2. batch \in 0..MaxBatches /\ batch' \in 0..MaxBatches
  BY <1>1, BoundsAssumption DEF CatalogueInv, TypeOK, Batches
<1>3. /\ r \in Work /\ r.pc = "dictionary" /\ r.batch = batch' /\ r.relsSeen = SeenRels
      /\ r.entriesSeen = {} /\ r.draft = {} /\ r.draftRels = {} /\ r.draftEntries = {}
  BY <1>2, NotRunningIs, SeenAreTold DEF Work, Batches
<1> HIDE DEF r
<1>4. /\ intro' \in [Introspectors -> Work] /\ intro'[i] = r
      /\ \A j \in Introspectors \ {i} : intro'[j] = intro[j]
  BY <1>1, <1>3 DEF CatalogueInv, TypeOK
<1>5. TypeOK'
  BY <1>1, <1>2, <1>4 DEF CatalogueInv, TypeOK, Batches
<1>6. \A b : Past(b) => Past(b)'
  BY <1>1, <1>2, <1>3, <1>4 DEF Past, Running, At
<1>7. ASSUME NEW j \in Introspectors
      PROVE  (NumberFits(j) /\ DraftFits(intro[j]) /\ RestoredFits(intro[j]))'
  <2>1. \A k \in Introspectors : Running(k) => intro[k].batch \in 1..batch
    BY DEF CatalogueInv, IntrosFit, NumberFits
  <2>2. NumberFits(j)'
    <3>1. CASE j = i
      <4>1. \A k \in Introspectors \ {i} : Running(k)' => intro'[k].batch # batch'
        BY <1>1, <1>2, <1>4, <2>1 DEF Running, At
      <4>2. batch' \in 1..batch'
        BY <1>1, <1>2
      <4> QED
        BY <1>3, <1>4, <3>1, <4>1, <4>2 DEF NumberFits, Running, At
    <3>2. CASE j # i
      <4>1. CASE Running(j)
        <5>1. intro[j].batch \in 1..batch' /\ intro[j].batch # batch'
          BY <1>1, <1>2, <2>1, <4>1
        <5>2. \A k \in Introspectors : Running(k)' /\ intro'[k].batch = intro[j].batch => j = k
          BY <1>3, <1>4, <4>1, <5>1 DEF CatalogueInv, IntrosFit, NumberFits, Running, At
        <5> QED
          BY <1>4, <3>2, <4>1, <5>1, <5>2 DEF NumberFits, Running, At
      <4>2. CASE ~Running(j)
        BY <1>4, <3>2, <4>2 DEF CatalogueInv, IntrosFit, NumberFits, Running, At
      <4> QED
        BY <4>1, <4>2
    <3> QED
      BY <3>1, <3>2
  <2>3. DraftFits(r) /\ RestoredFits(r)
    BY <1>3 DEF DraftFits, RestoredFits
  <2>4. DraftFits(intro'[j]) /\ RestoredFits(intro'[j])
    BY <1>4, <2>3 DEF CatalogueInv, IntrosFit
  <2>5. DraftFits(intro[j])' /\ RestoredFits(intro[j])'
    BY <2>4 DEF DraftFits, RestoredFits
  <2> QED
    BY <2>2, <2>5
<1>8. IntrosFit'
  BY <1>7 DEF IntrosFit
<1>9. CommittedFits'
  BY <1>1, <1>6 DEF CatalogueInv, CommittedFits
<1>10. ReadFits'
  BY <1>1, <1>6, ReadStays
<1>11. ToldRels' \subseteq ToldRels /\ ToldEntries' \subseteq ToldEntries
  <2>1. ASSUME NEW m \in ToldRels' PROVE m \in ToldRels
    <3>1. CASE \E x \in rels : x.label # 0 /\ m = NamedRel(x)
      BY <3>1 DEF ToldRels
    <3>2. ASSUME NEW j \in Introspectors,
                 m \in intro'[j].relsSeen \/ \E x \in intro'[j].draftRels : x.label # 0 /\ m = NamedRel(x)
          PROVE  m \in ToldRels
      <4>1. CASE j = i
        BY <1>3, <1>4, <3>2, <4>1, SeenAreTold
      <4>2. CASE j # i
        BY <1>4, <3>2, <4>2 DEF ToldRels
      <4> QED
        BY <4>1, <4>2
    <3> QED
      BY <1>1, <3>1, <3>2 DEF ToldRels, NamedRel
  <2>2. ASSUME NEW m \in ToldEntries' PROVE m \in ToldEntries
    <3>1. CASE \E e \in entries : m = NamedEntry(e)
      BY <3>1 DEF ToldEntries
    <3>2. ASSUME NEW j \in Introspectors,
                 m \in intro'[j].entriesSeen \/ \E e \in intro'[j].draftEntries : m = NamedEntry(e)
          PROVE  m \in ToldEntries
      <4>1. CASE j = i
        BY <1>3, <1>4, <3>2, <4>1
      <4>2. CASE j # i
        BY <1>4, <3>2, <4>2 DEF ToldEntries
      <4> QED
        BY <4>1, <4>2
    <3> QED
      BY <1>1, <3>1, <3>2 DEF ToldEntries, NamedEntry
  <2> QED
    BY <2>1, <2>2
<1>12. LabelsFit'
  BY <1>1, <1>11, LabelsStay
<1>13. AloneFits'
  <2> SUFFICES ASSUME ~overlapped' PROVE AloneFits'
    BY DEF AloneFits
  <2>1. \A j \in Introspectors : ~Running(j)
    BY <1>1
  <2>2. \A j \in Introspectors \ {i} : intro'[j].pc = "idle"
    BY <1>4, <2>1 DEF Running, At
  <2> QED
    BY <1>3, <1>4, <2>2 DEF AloneFits, Running, At
<1>14. CachedOnce'
  BY <1>1 DEF CatalogueInv, CachedOnce
<1> QED
  BY <1>5, <1>8, <1>9, <1>10, <1>12, <1>13, <1>14 DEF CatalogueInv

\* The commit of an introspection: its draft takes the place of what it deleted.
LEMMA DraftIsCommitted ==
    ASSUME CatalogueInv, NEW i \in Introspectors, Commit(i) PROVE CatalogueInv'
<1> DEFINE r == intro[i]
<1>1. /\ r.pc = "commit" /\ Running(i)
      /\ tables' = (tables \ r.doomed) \cup r.draft
      /\ rels' = {x \in rels : x.src \notin r.doomed /\ x.tgt \notin r.doomed} \cup r.draftRels
      /\ entries' = {e \in entries : e.row \notin r.doomed} \cup r.draftEntries
      /\ last' = r.batch /\ intro' = [intro EXCEPT ![i] = NotRunning]
      /\ UNCHANGED <<editor, reader, edits, world, ddl, sqlserver, columnCache, batch, overlapped>>
  BY DEF Commit, Goes, At, Running, others, customer
<1>2. /\ r \in Work /\ DraftFits(r) /\ RestoredFits(r)
      /\ r.batch \in 1..batch /\ batch \in Batches
      /\ \A j \in Introspectors : Running(j) /\ intro[j].batch = r.batch => i = j
  BY <1>1, IntroFacts DEF CatalogueInv, TypeOK, IntrosFit, NumberFits
<1>3. /\ r.batch \in Batches /\ r.draft \subseteq Row /\ r.draftRels \subseteq Rel
      /\ r.draftEntries \subseteq DictEntry
  BY <1>2 DEF Work
<1>4. /\ intro' \in [Introspectors -> Work] /\ intro'[i] = NotRunning
      /\ \A j \in Introspectors \ {i} : intro'[j] = intro[j]
  BY <1>1, NotRunningIs DEF CatalogueInv, TypeOK
<1> HIDE DEF r
<1>5. TypeOK'
  <2>1. tables' \subseteq Row /\ rels' \subseteq Rel /\ entries' \subseteq DictEntry /\ last' \in Batches
    BY <1>1, <1>3 DEF CatalogueInv, TypeOK
  <2> QED
    BY <1>1, <1>4, <2>1 DEF CatalogueInv, TypeOK
<1>6. \A b : b = r.batch \/ Past(b) => Past(b)'
  BY <1>1, <1>2, <1>4, NotRunningIs DEF Past, Running, At, Batches
<1>7. IntrosFit'
  <2> SUFFICES ASSUME NEW j \in Introspectors
               PROVE  (NumberFits(j) /\ DraftFits(intro[j]) /\ RestoredFits(intro[j]))'
    BY DEF IntrosFit
  <2>1. NumberFits(j)'
    BY <1>1, <1>4, NotRunningIs DEF CatalogueInv, IntrosFit, NumberFits, Running, At
  <2>2. DraftFits(NotRunning) /\ RestoredFits(NotRunning)
    BY NotRunningIs DEF DraftFits, RestoredFits
  <2>3. DraftFits(intro'[j]) /\ RestoredFits(intro'[j])
    BY <1>4, <2>2 DEF CatalogueInv, IntrosFit
  <2>4. DraftFits(intro[j])' /\ RestoredFits(intro[j])'
    BY <2>3 DEF DraftFits, RestoredFits
  <2> QED
    BY <2>1, <2>4
<1>8. CommittedFits'
  <2>1. \A x \in tables' : Past(x.batch)'
    BY <1>1, <1>2, <1>6 DEF CatalogueInv, CommittedFits, DraftFits
  <2>2. Past(last)'
    <3>1. \A b : b = last' => Past(b)'
      BY <1>1, <1>6
    <3> QED
      BY <3>1 DEF Past, Running, At
  <2>3. \A x \in rels' : x.src \in tables' /\ x.tgt \in tables'
    BY <1>1, <1>2 DEF CatalogueInv, CommittedFits, DraftFits
  <2>4. \A e \in entries' : e.row \in tables'
    BY <1>1, <1>2 DEF CatalogueInv, CommittedFits, DraftFits
  <2> QED
    BY <2>1, <2>2, <2>3, <2>4 DEF CommittedFits
<1>9. ReadFits'
  <2>1. \A x \in r.draft : ~Past(x.batch)
    BY <1>1, <1>2 DEF Past, DraftFits, r
  <2>2. tables' \cap {x \in Row : Past(x.batch)} \subseteq tables
    BY <1>1, <2>1
  <2> QED
    BY <1>1, <1>6, <2>2, ReadStays
<1>10. ToldRels' \subseteq ToldRels /\ ToldEntries' \subseteq ToldEntries
  <2>1. /\ \A x \in rels' : x.label # 0 => NamedRel(x) \in ToldRels
        /\ \A e \in entries' : NamedEntry(e) \in ToldEntries
    BY <1>1, IntroFacts, CommittedAreTold DEF r
  <2>2. ASSUME NEW j \in Introspectors
        PROVE  /\ intro'[j].relsSeen \subseteq intro[j].relsSeen
               /\ intro'[j].entriesSeen \subseteq intro[j].entriesSeen
               /\ intro'[j].draftRels \subseteq intro[j].draftRels
               /\ intro'[j].draftEntries \subseteq intro[j].draftEntries
    BY <1>4, NotRunningIs
  <2>3. ASSUME NEW m \in ToldRels' PROVE m \in ToldRels
    <3>1. \/ \E x \in rels' : x.label # 0 /\ m = NamedRel(x)
          \/ \E j \in Introspectors : \/ m \in intro'[j].relsSeen
                                      \/ \E x \in intro'[j].draftRels : x.label # 0 /\ m = NamedRel(x)
      BY DEF ToldRels, NamedRel
    <3> QED
      BY <2>1, <2>2, <3>1, IntroFacts
  <2>4. ASSUME NEW m \in ToldEntries' PROVE m \in ToldEntries
    <3>1. \/ \E e \in entries' : m = NamedEntry(e)
          \/ \E j \in Introspectors : \/ m \in intro'[j].entriesSeen
                                      \/ \E e \in intro'[j].draftEntries : m = NamedEntry(e)
      BY DEF ToldEntries, NamedEntry
    <3> QED
      BY <2>1, <2>2, <3>1, IntroFacts
  <2> QED
    BY <2>3, <2>4
<1>11. LabelsFit'
  BY <1>1, <1>10, LabelsStay
<1>12. AloneFits' /\ CachedOnce'
  <2>1. CASE overlapped
    BY <1>1, <2>1 DEF AloneFits, CachedOnce
  <2>2. CASE ~overlapped
    <3>1. \A j \in Introspectors : ~Running(j)'
      BY <1>1, <1>4, <2>2, NotRunningIs DEF CatalogueInv, AloneFits, Running, At
    <3>2. AloneFits'
      BY <3>1 DEF AloneFits, Running, At
    <3>3. r.doomed = tables
      BY <1>1, <2>2 DEF CatalogueInv, AloneFits, r
    <3>4. tables' = r.draft /\ rels' = r.draftRels /\ entries' = r.draftEntries
      BY <1>1, <3>3 DEF CatalogueInv, CommittedFits
    <3>5. CachedOnce'
      BY <1>2, <3>4 DEF CachedOnce, DraftFits, RestoredFits
    <3> QED
      BY <3>2, <3>5
  <2> QED
    BY <2>1, <2>2
<1> QED
  BY <1>5, <1>7, <1>8, <1>9, <1>11, <1>12 DEF CatalogueInv

-----------------------------------------------------------------------------
(* The steps of editors *)

LEMMA Declares == ASSUME CatalogueInv, Declare PROVE CatalogueInv'
<1>1. /\ editor = Null /\ edits < MaxEdits /\ edits' = edits + 1
      /\ UNCHANGED <<tables, rels, entries, last, world, ddl, sqlserver, columnCache, batch,
                     overlapped, intro, reader>>
  BY DEF Declare, catalogue, customer
<1>2. PICK s \in tables, t \in tables : editor' = [src |-> s, tgt |-> t, label |-> edits']
  BY DEF Declare
<1>3. edits \in 0..MaxEdits /\ edits' \in 1..MaxEdits /\ s \in Row /\ t \in Row
  BY <1>1, BoundsAssumption DEF CatalogueInv, TypeOK
<1>4. editor' \in Rel /\ editor'.label = edits'
  BY <1>2, <1>3, RelIs DEF Labels
<1>5. TypeOK'
  BY <1>1, <1>3, <1>4 DEF CatalogueInv, TypeOK
<1>6. ToldRels' = ToldRels /\ ToldEntries' = ToldEntries
  BY <1>1 DEF ToldRels, ToldEntries, NamedRel, NamedEntry
<1>7. \A m \in ToldRels \cup ToldEntries : m.label <= edits /\ m.label \in Int
  BY DEF CatalogueInv, LabelsFit, ToldRels, ToldEntries, RelSeen, EntrySeen, Labels
<1>8. \A m \in ToldRels \cup ToldEntries : m.label <= edits' /\ m.label # edits'
  BY <1>1, <1>3, <1>7
<1>9. editor'.label \in 1..edits'
  BY <1>3, <1>4
<1>10. LabelsFit'
  BY <1>4, <1>6, <1>8, <1>9 DEF CatalogueInv, LabelsFit
<1>11. CachedOnce'
  BY <1>1 DEF CatalogueInv, CachedOnce
<1> QED
  BY <1>1, <1>5, <1>10, <1>11, EditStep DEF customer, CatalogueInv, CommittedFits

LEMMA InsertsRel == ASSUME CatalogueInv, InsertRel PROVE CatalogueInv'
<1>1. /\ editor # Null /\ editor' = Null
      /\ rels' = (IF {editor.src, editor.tgt} \subseteq tables THEN rels \cup {editor} ELSE rels)
      /\ UNCHANGED <<tables, entries, last, world, ddl, sqlserver, columnCache, batch, overlapped,
                     intro, reader, edits>>
  BY DEF InsertRel, customer
<1>2. editor \in Rel /\ editor.label \in 1..edits /\ \A m \in ToldRels : m.label # editor.label
  BY <1>1 DEF CatalogueInv, TypeOK, LabelsFit
<1>3. TypeOK'
  BY <1>1, <1>2 DEF CatalogueInv, TypeOK
<1>4. editor.label # 0 /\ edits \in Int
  BY <1>2 DEF CatalogueInv, TypeOK
<1>5. NamedRel(editor) \in RelSeen /\ NamedRel(editor).label = editor.label
  BY <1>2, <1>4, NamedIs
<1>6. ToldRels' \subseteq ToldRels \cup {NamedRel(editor)} /\ ToldEntries' = ToldEntries
  <2>1. ToldEntries' = ToldEntries
    BY <1>1 DEF ToldEntries, NamedEntry
  <2>2. ASSUME NEW m \in ToldRels' PROVE m \in ToldRels \cup {NamedRel(editor)}
    <3>1. \/ \E x \in rels' : x.label # 0 /\ m = NamedRel(x)
          \/ \E j \in Introspectors : \/ m \in intro[j].relsSeen
                                      \/ \E x \in intro[j].draftRels : x.label # 0 /\ m = NamedRel(x)
      BY <1>1 DEF ToldRels, NamedRel
    <3> QED
      BY <1>1, <3>1, IntroFacts, CommittedAreTold
  <2> QED
    BY <2>1, <2>2
<1>7. NamedRel(editor).label <= edits
  BY <1>2, <1>4, <1>5
<1>8. LabelsFit'
  BY <1>1, <1>2, <1>5, <1>6, <1>7 DEF CatalogueInv, LabelsFit
<1>9. CachedOnce'
  <2>1. \A x \in rels : x.label # editor.label
    <3> SUFFICES ASSUME NEW x \in rels, x.label = editor.label PROVE FALSE
      OBVIOUS
    <3>1. x \in Rel /\ x.label # 0
      BY <1>4 DEF CatalogueInv, TypeOK
    <3>2. NamedRel(x) \in ToldRels /\ NamedRel(x).label = x.label
      BY <3>1, NamedIs, CommittedAreTold
    <3> QED
      BY <1>2, <3>2
  <2> QED
    BY <1>1, <2>1 DEF CatalogueInv, CachedOnce
<1>10. \A x \in rels' : x.src \in tables /\ x.tgt \in tables
  BY <1>1 DEF CatalogueInv, CommittedFits
<1> QED
  BY <1>1, <1>3, <1>8, <1>9, <1>10, EditStep DEF customer, CatalogueInv, CommittedFits

LEMMA DeletesRel == ASSUME CatalogueInv, DeleteRel PROVE CatalogueInv'
<1>1. /\ rels' \subseteq rels
      /\ UNCHANGED <<tables, entries, last, world, ddl, sqlserver, columnCache, batch, overlapped,
                     intro, editor, reader, edits>>
  BY DEF DeleteRel, customer
<1>2. TypeOK'
  BY <1>1 DEF CatalogueInv, TypeOK
<1>3. ToldRels' \subseteq ToldRels /\ ToldEntries' \subseteq ToldEntries
  BY <1>1 DEF ToldRels, ToldEntries, NamedRel, NamedEntry
<1>4. LabelsFit'
  BY <1>1, <1>3, LabelsStay
<1>5. CachedOnce'
  BY <1>1 DEF CatalogueInv, CachedOnce
<1> QED
  BY <1>1, <1>2, <1>4, <1>5, EditStep DEF customer, CatalogueInv, CommittedFits

LEMMA CreatesEntry == ASSUME CatalogueInv, CreateEntry PROVE CatalogueInv'
<1>1. /\ edits < MaxEdits /\ edits' = edits + 1
      /\ UNCHANGED <<tables, rels, last, world, ddl, sqlserver, columnCache, batch, overlapped,
                     intro, editor, reader>>
  BY DEF CreateEntry, customer
<1>2. PICK r \in tables : entries' = entries \cup {[row |-> r, label |-> edits']}
  BY DEF CreateEntry
<1> DEFINE new == [row |-> r, label |-> edits']
<1>3. edits \in 0..MaxEdits /\ edits' \in 1..MaxEdits /\ r \in Row
  BY <1>1, BoundsAssumption DEF CatalogueInv, TypeOK
<1>4. new \in DictEntry /\ new.row = r /\ new.label = edits'
  BY <1>3 DEF DictEntry, Labels
<1>5. entries' = entries \cup {new}
  BY <1>2
<1> HIDE DEF new
<1>6. TypeOK'
  BY <1>1, <1>3, <1>4, <1>5 DEF CatalogueInv, TypeOK
<1>7. NamedEntry(new) \in EntrySeen /\ NamedEntry(new).label = edits'
  BY <1>4, NamedEntryIs
<1>8. ToldRels' = ToldRels /\ ToldEntries' \subseteq ToldEntries \cup {NamedEntry(new)}
  <2>1. ToldRels' = ToldRels
    BY <1>1 DEF ToldRels, NamedRel
  <2>2. ASSUME NEW m \in ToldEntries' PROVE m \in ToldEntries \cup {NamedEntry(new)}
    <3>1. \/ \E e \in entries' : m = NamedEntry(e)
          \/ \E j \in Introspectors : \/ m \in intro[j].entriesSeen
                                      \/ \E e \in intro[j].draftEntries : m = NamedEntry(e)
      BY <1>1 DEF ToldEntries, NamedEntry
    <3> QED
      BY <1>5, <3>1, IntroFacts, CommittedAreTold
  <2> QED
    BY <2>1, <2>2
<1>9. \A m \in ToldRels \cup ToldEntries : m.label <= edits /\ m.label \in Int
  BY DEF CatalogueInv, LabelsFit, ToldRels, ToldEntries, RelSeen, EntrySeen, Labels
<1>10. \A m \in ToldRels \cup ToldEntries : m.label <= edits' /\ m.label # edits'
  BY <1>1, <1>3, <1>9
<1>11. LabelsFit'
  <2>1. \A m, n \in ToldEntries' : m.label = n.label => m = n
    BY <1>7, <1>8, <1>10 DEF CatalogueInv, LabelsFit
  <2>2. \A m \in ToldRels' \cup ToldEntries' : m.label <= edits'
    BY <1>3, <1>7, <1>8, <1>10
  <2>3. editor # Null => editor.label \in 1..edits'
    BY <1>1, <1>3 DEF CatalogueInv, LabelsFit
  <2> QED
    BY <1>1, <1>8, <2>1, <2>2, <2>3 DEF CatalogueInv, LabelsFit
<1>12. CachedOnce'
  <2>1. \A e \in entries : e.label # edits'
    <3>1. \A e \in entries : NamedEntry(e) \in ToldEntries /\ NamedEntry(e).label = e.label
      BY NamedEntryIs, CommittedAreTold DEF CatalogueInv, TypeOK
    <3> QED
      BY <1>10, <3>1
  <2> QED
    BY <1>1, <1>4, <1>5, <2>1 DEF CatalogueInv, CachedOnce
<1>13. \A e \in entries' : e.row \in tables
  BY <1>4, <1>5 DEF CatalogueInv, CommittedFits
<1> QED
  BY <1>1, <1>6, <1>11, <1>12, <1>13, EditStep DEF customer, CatalogueInv, CommittedFits

LEMMA DeletesEntry == ASSUME CatalogueInv, DeleteEntry PROVE CatalogueInv'
<1>1. /\ entries' \subseteq entries
      /\ UNCHANGED <<tables, rels, last, world, ddl, sqlserver, columnCache, batch, overlapped,
                     intro, editor, reader, edits>>
  BY DEF DeleteEntry, customer
<1>2. TypeOK'
  BY <1>1 DEF CatalogueInv, TypeOK
<1>3. ToldRels' \subseteq ToldRels /\ ToldEntries' \subseteq ToldEntries
  BY <1>1 DEF ToldRels, ToldEntries, NamedRel, NamedEntry
<1>4. LabelsFit'
  BY <1>1, <1>3, LabelsStay
<1>5. CachedOnce'
  BY <1>1 DEF CatalogueInv, CachedOnce
<1> QED
  BY <1>1, <1>2, <1>4, <1>5, EditStep DEF customer, CatalogueInv, CommittedFits

-----------------------------------------------------------------------------
(* The steps of the reader and of the customer *)

LEMMA Reads ==
    ASSUME CatalogueInv, Link \/ ReadColumns \/ StoreColumns \/ ColumnsExpire \/ Ddl
    PROVE  CatalogueInv'
<1>1. UNCHANGED <<intro, catalogue, batch, overlapped, editor, edits>>
  BY DEF Link, ReadColumns, StoreColumns, ColumnsExpire, Ddl, others
<1>2. UNCHANGED <<tables, rels, entries, last>>
  BY <1>1 DEF catalogue
<1>3. \A b : Past(b) => Past(b)'
  BY <1>1, <1>2, IntrosStay
<1>4. \A e : ColumnsFit(e) => ColumnsFit(e)'
  BY <1>2, <1>3 DEF ColumnsFit
<1>5. CASE Link
  <2> DEFINE missing == tables \ {r \in tables : \E e \in columnCache : e.key = ColumnKey(r)}
  <2>1. /\ reader' = [rows |-> missing, columns |-> Null]
        /\ UNCHANGED <<world, ddl, sqlserver, columnCache>>
    BY <1>5 DEF Link, customer
  <2>2. missing \subseteq tables
    OBVIOUS
  <2> HIDE DEF missing
  <2>3. reader'.rows = missing /\ reader'.columns = Null
    BY <2>1
  <2>4. \A r \in missing : r \in Row /\ Past(r.batch)
    BY <2>2 DEF CatalogueInv, TypeOK, CommittedFits
  <2>5. ReadFits'
    BY <1>3, <1>4, <2>1, <2>3, <2>4 DEF CatalogueInv, ReadFits
  <2>6. TypeOK'
    BY <1>1, <1>2, <2>1, <2>3, <2>4 DEF CatalogueInv, TypeOK
  <2> QED
    BY <1>1, <2>5, <2>6, ReadStep
<1>6. CASE ReadColumns
  <2> DEFINE read == {[key |-> ColumnKey(r), columns |-> IF r \in tables THEN {r.column} ELSE {}] :
                        r \in reader.rows}
  <2>1. /\ reader # Null /\ reader' = [rows |-> reader.rows, columns |-> read]
        /\ UNCHANGED <<world, ddl, sqlserver, columnCache>>
    BY <1>6 DEF ReadColumns, customer
  <2>2. \A r \in reader.rows : r \in Row /\ Past(r.batch)
    BY <2>1 DEF CatalogueInv, ReadFits
  <2>3. \A e \in read : ColumnsFit(e)
    BY <2>2 DEF ColumnsFit, ColumnKey
  <2> HIDE DEF read
  <2>4. reader'.rows = reader.rows /\ reader'.columns = read
    BY <2>1
  <2>5. ReadFits'
    BY <1>3, <1>4, <2>1, <2>2, <2>3, <2>4 DEF CatalogueInv, ReadFits
  <2>6. TypeOK'
    BY <1>1, <1>2, <2>1, <2>2, <2>4 DEF CatalogueInv, TypeOK
  <2> QED
    BY <1>1, <2>5, <2>6, ReadStep
<1>7. CASE StoreColumns
  <2>1. /\ reader # Null /\ reader.columns # Null /\ reader' = Null
        /\ columnCache' = columnCache \cup reader.columns
        /\ UNCHANGED <<world, ddl, sqlserver>>
    BY <1>7 DEF StoreColumns, customer
  <2>2. \A e \in columnCache' : ColumnsFit(e)
    BY <2>1 DEF CatalogueInv, ReadFits
  <2>3. ReadFits'
    BY <1>4, <2>1, <2>2 DEF ReadFits
  <2>4. \A e \in columnCache' : e.columns \subseteq Columns
    BY <2>2 DEF ColumnsFit, Row
  <2>5. TypeOK'
    BY <1>1, <1>2, <2>1, <2>4 DEF CatalogueInv, TypeOK
  <2> QED
    BY <1>1, <2>3, <2>5, ReadStep
<1>8. CASE ColumnsExpire
  <2>1. columnCache' = {} /\ UNCHANGED <<world, ddl, sqlserver, reader>>
    BY <1>8 DEF ColumnsExpire, customer
  <2>2. ReadFits'
    BY <1>3, <1>4, <2>1 DEF CatalogueInv, ReadFits
  <2>3. TypeOK'
    BY <1>1, <1>2, <2>1 DEF CatalogueInv, TypeOK
  <2> QED
    BY <1>1, <2>2, <2>3, ReadStep
<1>9. CASE Ddl
  <2>1. /\ ddl < MaxDdl /\ ddl' = ddl + 1 /\ UNCHANGED <<sqlserver, columnCache, reader>>
        /\ \E t \in Tables, c \in Columns \cup {Null} : world' = [world EXCEPT ![t] = c]
    BY <1>9 DEF Ddl, others
  <2>2. ReadFits'
    BY <1>3, <1>4, <2>1 DEF CatalogueInv, ReadFits
  <2>3. world' \in [Tables -> Columns \cup {Null}] /\ ddl' \in 0..MaxDdl
    BY <2>1, BoundsAssumption DEF CatalogueInv, TypeOK
  <2>4. TypeOK'
    BY <1>1, <1>2, <2>1, <2>3 DEF CatalogueInv, TypeOK
  <2> QED
    BY <1>1, <2>2, <2>4, ReadStep
<1> QED
  BY <1>5, <1>6, <1>7, <1>8, <1>9

-----------------------------------------------------------------------------
LEMMA InitCatalogue == ASSUME Init PROVE CatalogueInv
<1>1. /\ sqlserver \in BOOLEAN /\ world \in Worlds /\ tables = Scanned(0)
      /\ rels = {} /\ entries = {} /\ columnCache = {}
      /\ ddl = 0 /\ batch = 0 /\ last = 0 /\ edits = 0
      /\ intro = [i \in Introspectors |-> NotRunning]
      /\ editor = Null /\ reader = Null /\ overlapped = FALSE
  BY DEF Init
<1>2. \A i \in Introspectors : intro[i] = NotRunning /\ ~Running(i)
  BY <1>1, NotRunningIs DEF Running, At
<1>3. world \in [Tables -> Columns \cup {Null}] /\ 0 \in Batches
  BY <1>1, TablesAssumption, BoundsAssumption DEF Batches
<1>4. \A x \in Scanned(0) : \E t \in Tables : world[t] # Null /\ x = [batch |-> 0, table |-> t, column |-> world[t]]
  BY DEF Scanned
<1>5. /\ tables \subseteq Row /\ \A x \in tables : x.batch = 0
      /\ \A x, y \in tables : x.table = y.table => x = y
  BY <1>1, <1>3, <1>4 DEF Row
<1>6. intro \in [Introspectors -> Work]
  BY <1>1, NotRunningIs
<1>7. TypeOK
  <2>1. ddl \in 0..MaxDdl /\ edits \in 0..MaxEdits /\ batch \in Batches /\ last \in Batches
    BY <1>1, BoundsAssumption DEF Batches
  <2>2. rels \subseteq Rel /\ entries \subseteq DictEntry /\ \A e \in columnCache : e.columns \subseteq Columns
    BY <1>1
  <2> QED
    BY <1>1, <1>3, <1>5, <1>6, <2>1, <2>2 DEF TypeOK
<1>8. IntrosFit
  BY <1>2, NotRunningIs DEF IntrosFit, NumberFits, DraftFits, RestoredFits
<1>9. Past(0)
  BY <1>1, <1>2 DEF Past
<1>10. CommittedFits /\ ReadFits
  BY <1>1, <1>5, <1>9 DEF CommittedFits, ReadFits
<1>11. ToldRels = {} /\ ToldEntries = {}
  BY <1>1, <1>2, NotRunningIs DEF ToldRels, ToldEntries
<1>12. LabelsFit
  BY <1>1, <1>11 DEF LabelsFit
<1>13. AloneFits
  BY <1>2, NotRunningIs DEF AloneFits, At
<1>14. CachedOnce
  BY <1>1, <1>5 DEF CachedOnce
<1> QED
  BY <1>7, <1>8, <1>10, <1>12, <1>13, <1>14 DEF CatalogueInv

LEMMA CatalogueStep == ASSUME CatalogueInv, [Next]_vars PROVE CatalogueInv'
<1>1. CASE UNCHANGED vars
  <2>1. TypeOK' /\ UNCHANGED <<intro, catalogue, batch, overlapped, editor, edits>>
    BY <1>1 DEF vars, catalogue, CatalogueInv, TypeOK
  <2>2. \A b : Past(b) => Past(b)'
    BY <1>1 DEF vars, Past, Running, At
  <2>3. ReadFits'
    BY <1>1, <2>2, ReadStays DEF vars
  <2> QED
    BY <2>1, <2>3, ReadStep
<1>2. ASSUME NEW i \in Introspectors, Step(i) \/ Rollback(i) PROVE CatalogueInv'
  BY <1>2, Snapshots, SnapshotsEntries, StartsDelete, FinishesDelete, Scans, Relates,
     DraftIsCommitted, RollsBack DEF Step
<1>3. CASE Declare \/ InsertRel \/ DeleteRel \/ CreateEntry \/ DeleteEntry
  BY <1>3, Declares, InsertsRel, DeletesRel, CreatesEntry, DeletesEntry
<1>4. CASE Link \/ ReadColumns \/ StoreColumns \/ ColumnsExpire \/ Ddl
  BY <1>4, Reads
<1> QED
  BY <1>1, <1>2, <1>3, <1>4 DEF Next

\* In every reachable state: the drafts of introspections are their own and hold
\* each table and label once; what is committed refers to tables that are there;
\* what was read of columns is of rows of the past; a label tells one thing.
THEOREM CatalogueInvariant == Spec => []CatalogueInv
<1>1. Init => CatalogueInv
  BY InitCatalogue
<1>2. CatalogueInv /\ [Next]_vars => CatalogueInv'
  BY CatalogueStep
<1> QED
  BY <1>1, <1>2, PTL DEF Spec

\* Whatever is introspected, declared, read and changed by the customer: without
\* overlap the catalogue has each table, manual relationship and entry once, and
\* the column cache never shows a table another's columns.
THEOREM CatalogueStaysSound == Spec => []CatalogueIsSound
<1>1. CatalogueInv => CatalogueIsSound
  <2> SUFFICES ASSUME CatalogueInv PROVE CatalogueIsSound
    OBVIOUS
  <2>1. ColumnsAreTheirs
    BY DEF CatalogueInv, ReadFits, ColumnsFit, ColumnsAreTheirs, ColumnKey
  <2> QED
    BY <2>1 DEF CatalogueInv, CatalogueIsSound
<1> QED
  BY <1>1, CatalogueInvariant, PTL

\* An introspection that commits does so as Commit does.
LEMMA OnlyCommitCommits ==
    ASSUME CatalogueInv, [Next]_vars, NEW i \in Introspectors, Commits(i)
    PROVE  Commit(i)
<1>1. intro[i].pc = "commit" /\ last' = intro[i].batch /\ Running(i)
  BY DEF Commits, At, Running
<1>2. last # intro[i].batch
  BY <1>1 DEF CatalogueInv, CommittedFits, Past
<1>3. ASSUME NEW j \in Introspectors, Commit(j) PROVE i = j
  BY <1>1, <1>3 DEF Commit, Running, At, CatalogueInv, IntrosFit, NumberFits
<1>4. CASE \E j \in Introspectors : Commit(j)
  BY <1>3, <1>4
<1>5. CASE ~ \E j \in Introspectors : Commit(j)
  <2>1. last' = last
    BY <1>5 DEF Next, Step, vars, catalogue, SnapshotRels, SnapshotEntries, StartDelete, FinishDelete,
                Scan, Relate, Rollback, Declare, InsertRel, DeleteRel, CreateEntry, DeleteEntry,
                Link, ReadColumns, StoreColumns, ColumnsExpire, Ddl
  <2> QED
    BY <1>1, <1>2, <2>1
<1> QED
  BY <1>4, <1>5

\* A re-introspection loses no manual relationship and no dictionary entry it had
\* seen, unless a table or a column of the name is gone from the customer's database.
THEOREM ManualWorkIsKept == Spec => ManualWorkSurvives
<1> DEFINE RelsKept ==
             \A i \in Introspectors : Commits(i) =>
               \A r \in {s \in rels : s.label # 0} :
                 \/ \E s \in rels' : /\ s.label = r.label
                                     /\ s.src.table.name = r.src.table.name
                                     /\ s.tgt.table.name = r.tgt.table.name
                 \/ ~Has(intro[i].draft, r.src.table.name) \/ ~Has(intro[i].draft, r.tgt.table.name)
                 \/ \A m \in intro[i].relsSeen : m.label # r.label
           EntriesKept ==
             \A i \in Introspectors : Commits(i) =>
               \A e \in entries :
                 \/ \E f \in entries' : /\ f.label = e.label /\ f.row.column = e.row.column
                                        /\ f.row.table.name = e.row.table.name
                 \/ \A r \in intro[i].draft :
                      r.table.name # e.row.table.name \/ r.column # e.row.column
                 \/ \A m \in intro[i].entriesSeen : m.label # e.label
<1>1. CatalogueInv /\ [Next]_vars => RelsKept
  <2> SUFFICES ASSUME CatalogueInv, [Next]_vars, NEW i \in Introspectors, Commits(i),
                      NEW r \in rels, r.label # 0,
                      Has(intro[i].draft, r.src.table.name), Has(intro[i].draft, r.tgt.table.name),
                      NEW m \in intro[i].relsSeen, m.label = r.label
               PROVE  \E s \in rels' : /\ s.label = r.label
                                       /\ s.src.table.name = r.src.table.name
                                       /\ s.tgt.table.name = r.tgt.table.name
    OBVIOUS
  <2>1. Commit(i) /\ intro[i].pc = "commit"
    BY OnlyCommitCommits DEF Commits, At
  <2>2. r \in Rel /\ intro[i] \in Work /\ RestoredFits(intro[i])
    BY IntroFacts DEF CatalogueInv, TypeOK
  <2>3. m \in ToldRels /\ NamedRel(r) \in ToldRels /\ NamedRel(r).label = r.label
    BY <2>2, IntroFacts, CommittedAreTold, NamedIs
  <2>4. m = NamedRel(r)
    BY <2>3 DEF CatalogueInv, LabelsFit
  <2>5. m.src = r.src.table.name /\ m.tgt = r.tgt.table.name
    BY <2>2, <2>4, NamedIs
  <2>6. intro[i].draft \in SUBSET Row /\ intro[i].relsSeen \in SUBSET RelSeen
    BY <2>2 DEF Work
  <2>7. PICK s \in RestoredRels(intro[i].draft, intro[i].relsSeen) : NamedRel(s) = m
    BY <2>5, <2>6, RestoredRelsAre
  <2>8. s \in rels'
    BY <2>1, <2>2, <2>7 DEF RestoredFits, Commit
  <2>9. s \in Rel /\ s.label \in Labels
    BY <2>6, <2>7, RestoredRelsAre
  <2>10. NamedRel(s) = NamedRel(r) /\ s.label # 0
    BY <2>4, <2>7, <2>9 DEF Labels
  <2> QED
    BY <2>2, <2>8, <2>9, <2>10, NamedIs
<1>2. CatalogueInv /\ [Next]_vars => EntriesKept
  <2> SUFFICES ASSUME CatalogueInv, [Next]_vars, NEW i \in Introspectors, Commits(i),
                      NEW e \in entries,
                      NEW r \in intro[i].draft, r.table.name = e.row.table.name,
                      r.column = e.row.column,
                      NEW m \in intro[i].entriesSeen, m.label = e.label
               PROVE  \E f \in entries' : /\ f.label = e.label /\ f.row.column = e.row.column
                                          /\ f.row.table.name = e.row.table.name
    OBVIOUS
  <2>1. Commit(i) /\ intro[i].pc = "commit"
    BY OnlyCommitCommits DEF Commits, At
  <2>2. e \in DictEntry /\ intro[i] \in Work /\ RestoredFits(intro[i])
    BY IntroFacts DEF CatalogueInv, TypeOK
  <2>3. m \in ToldEntries /\ NamedEntry(e) \in ToldEntries /\ NamedEntry(e).label = e.label
    BY <2>2, IntroFacts, CommittedAreTold, NamedEntryIs
  <2>4. m = NamedEntry(e)
    BY <2>3 DEF CatalogueInv, LabelsFit
  <2>5. m.name = e.row.table.name /\ m.column = e.row.column
    BY <2>2, <2>4, NamedEntryIs
  <2>6. intro[i].draft \in SUBSET Row /\ intro[i].entriesSeen \in SUBSET EntrySeen
    BY <2>2 DEF Work
  <2>7. PICK f \in RestoredEntries(intro[i].draft, intro[i].entriesSeen) : NamedEntry(f) = m
    BY <2>5, <2>6, RestoredEntriesAre
  <2>8. f \in entries'
    BY <2>1, <2>2, <2>7 DEF RestoredFits, Commit
  <2>9. f \in DictEntry
    BY <2>6, <2>7, RestoredEntriesAre
  <2> QED
    BY <2>2, <2>4, <2>7, <2>8, <2>9, NamedEntryIs
<1>3. Spec => [][RelsKept]_vars /\ [][EntriesKept]_vars
  BY <1>1, <1>2, CatalogueInvariant, PTL DEF Spec
<1> QED
  BY <1>3 DEF ManualWorkSurvives, RelLostOnlyUnseen, EntryLostOnlyUnseen


-----------------------------------------------------------------------------
(* VectorCache *)

\* In Redis only entries older than the change of the provider are another's.
RedisIsOld ==
    \A t \in Texts : redis[t].age < Ttl /\ redis[t].vector # provider => redis[t].age >= since

\* Once all those have expired and the process has started again, nothing is left
\* of them in memory or in an answer; what is about to be stored was never one.
ProcessIsClean ==
    /\ late => since = Ttl
    /\ late => \A k \in 1..Len(memory) : memory[k].vector = provider
    /\ late => \A c \in Callers : call[c].answer \in {provider, Null}
    /\ \A c \in Callers : call[c].pc = "store" => call[c].answer = provider

\* A call under way has its text.
UnderWay == {"redis", "provider", "store"}
CallsHaveTexts == \A c \in Callers : call[c].pc \in UnderWay => call[c].text \in Texts

VectorInv ==
    /\ Vectors!TypeOK /\ Vectors!MemoryIsBounded
    /\ RedisIsOld /\ ProcessIsClean /\ CallsHaveTexts

\* A sequence has each text once.
Distinct(m) == \A i, j \in 1..Len(m) : m[i].text = m[j].text => i = j

\* A hit moves to the end.
LEMMA MovedIs ==
    ASSUME NEW S, NEW m \in Seq(S), NEW i \in 1..Len(m)
    PROVE  LET n == Append(Vectors!RemoveAt(m, i), m[i])
           IN  /\ n \in Seq(S) /\ Len(n) = Len(m)
               /\ \A k \in 1..Len(m) :
                    n[k] = IF k < i THEN m[k] ELSE IF k < Len(m) THEN m[k + 1] ELSE m[i]
<1> DEFINE a == SubSeq(m, 1, i - 1)
           b == SubSeq(m, i + 1, Len(m))
<1>1. Len(m) \in Nat /\ m[i] \in S
  BY LenProperties, ElementOfSeq
<1>2. a \in Seq(S) /\ Len(a) = i - 1 /\ \A k \in 1..(i - 1) : a[k] = m[k]
  BY <1>1
<1>3. b \in Seq(S) /\ Len(b) = Len(m) - i /\ \A k \in 1..(Len(m) - i) : b[k] = m[k + i]
  BY <1>1
<1> HIDE DEF a, b
<1>4. /\ a \o b \in Seq(S) /\ Len(a \o b) = Len(m) - 1
      /\ \A k \in 1..(Len(m) - 1) : (a \o b)[k] = IF k < i THEN m[k] ELSE m[k + 1]
  <2>1. a \o b \in Seq(S) /\ Len(a \o b) = Len(m) - 1
    <3>1. a \o b \in Seq(S) /\ Len(a \o b) = Len(a) + Len(b)
      BY <1>2, <1>3, ConcatProperties
    <3> DEFINE n == Len(a \o b)
    <3>2. n = (i - 1) + (Len(m) - i)
      BY <1>2, <1>3, <3>1
    <3> HIDE DEF n
    <3>3. n = Len(m) - 1
      BY <1>1, <3>2
    <3> QED
      BY <3>1, <3>3 DEF n
  <2>2. ASSUME NEW k \in 1..(Len(m) - 1)
        PROVE  (a \o b)[k] = IF k < i THEN m[k] ELSE m[k + 1]
    <3>1. CASE k < i
      BY <1>1, <1>2, <1>3, <3>1, ConcatProperties
    <3>2. CASE ~(k < i)
      <4>1. k > Len(a) /\ k - Len(a) \in 1..(Len(m) - i) /\ k - Len(a) + i = k + 1
        BY <1>1, <1>2, <3>2
      <4>2. (a \o b)[k] = b[k - Len(a)]
        <5>1. k \in 1..(Len(a) + Len(b)) /\ ~(k <= Len(a))
          BY <1>1, <1>2, <1>3, <4>1
        <5>2. (a \o b)[k] = IF k <= Len(a) THEN a[k] ELSE b[k - Len(a)]
          BY <1>2, <1>3, <5>1, ConcatProperties
        <5> QED BY <5>1, <5>2
      <4> QED
        BY <1>3, <3>2, <4>1, <4>2
    <3> QED
      BY <3>1, <3>2
  <2> QED
    BY <2>1, <2>2
<1>5. Vectors!RemoveAt(m, i) = a \o b
  BY DEF Vectors!RemoveAt, a, b
<1> DEFINE c == a \o b
<1>6. /\ c \in Seq(S) /\ Len(c) = Len(m) - 1
      /\ \A k \in 1..(Len(m) - 1) : c[k] = IF k < i THEN m[k] ELSE m[k + 1]
  BY <1>4
<1> HIDE DEF c
<1>7. /\ Append(c, m[i]) \in Seq(S) /\ Len(Append(c, m[i])) = Len(m)
      /\ \A k \in 1..(Len(m) - 1) : Append(c, m[i])[k] = c[k]
      /\ Append(c, m[i])[Len(m)] = m[i]
  BY <1>1, <1>6, AppendProperties
<1> DEFINE n == Append(c, m[i])
<1>8. ASSUME NEW k \in 1..Len(m)
      PROVE  n[k] = IF k < i THEN m[k] ELSE IF k < Len(m) THEN m[k + 1] ELSE m[i]
  <2>1. CASE k < Len(m)
    BY <1>1, <1>6, <1>7, <2>1
  <2>2. CASE k = Len(m)
    BY <1>1, <1>7, <2>2
  <2>3. k < Len(m) \/ k = Len(m)
    BY <1>1
  <2> HIDE DEF n
  <2> QED
    BY <2>1, <2>2, <2>3
<1> QED
  BY <1>5, <1>7, <1>8 DEF c

\* The first is dropped when there are too many.
LEMMA TrimmedIs ==
    ASSUME NEW S, NEW m \in Seq(S), MaxMemory \in Nat, Len(m) <= MaxMemory + 1
    PROVE  LET n == Vectors!Trimmed(m)
           IN  /\ n \in Seq(S) /\ Len(n) <= MaxMemory
               /\ \E d \in {0, 1} : /\ Len(n) = Len(m) - d
                                    /\ \A k \in 1..Len(n) : k + d \in 1..Len(m) /\ n[k] = m[k + d]
<1>1. Len(m) \in Nat
  BY LenProperties
<1>2. CASE Len(m) > MaxMemory
  <2>1. m # <<>>
    BY <1>2
  <2>2. /\ Tail(m) \in Seq(S) /\ Len(Tail(m)) = Len(m) - 1
        /\ \A k \in 1..(Len(m) - 1) : Tail(m)[k] = m[k + 1]
    BY <2>1, HeadTailProperties
  <2> DEFINE n == Tail(m)
  <2>3. Vectors!Trimmed(m) = n
    BY <1>2 DEF Vectors!Trimmed
  <2>4. n \in Seq(S) /\ Len(n) = Len(m) - 1 /\ \A k \in 1..(Len(m) - 1) : n[k] = m[k + 1]
    BY <2>2
  <2> HIDE DEF n
  <2>5. Len(n) <= MaxMemory
    BY <1>1, <2>4
  <2>6. \A k \in 1..Len(n) : k + 1 \in 1..Len(m) /\ n[k] = m[k + 1]
    BY <1>1, <2>4
  <2> QED
    BY <2>3, <2>4, <2>5, <2>6
<1>3. CASE ~(Len(m) > MaxMemory)
  BY <1>1, <1>3 DEF Vectors!Trimmed
<1> QED
  BY <1>2, <1>3

\* What the memory is after a vector is remembered.
LEMMA Remembers ==
    ASSUME VectorInv, NEW t \in Texts, NEW v \in Vectors!Vector, Vectors!Remember(t, v)
    PROVE  /\ memory' \in Seq(Vectors!Cached) /\ Len(memory') <= MaxMemory /\ Distinct(memory')
           /\ \A k \in 1..Len(memory') :
                memory'[k].vector = v \/ \E j \in 1..Len(memory) : memory'[k].vector = memory[j].vector
<1> DEFINE new == [text |-> t, vector |-> v]
           placed == Vectors!Placed(t, v)
<1>1. /\ memory \in Seq(Vectors!Cached) /\ Len(memory) \in Nat /\ Len(memory) <= MaxMemory
      /\ Distinct(memory) /\ \A k \in 1..Len(memory) : memory[k] \in Vectors!Cached
  BY LenProperties, ElementOfSeq DEF VectorInv, Vectors!TypeOK, Vectors!MemoryIsBounded, Distinct
<1>2. new \in Vectors!Cached /\ new.text = t /\ new.vector = v
  BY DEF Vectors!Cached
<1> HIDE DEF new
<1>3. /\ placed \in Seq(Vectors!Cached) /\ Len(placed) <= MaxMemory + 1 /\ Distinct(placed)
      /\ \A k \in 1..Len(placed) :
           placed[k].vector = v \/ \E j \in 1..Len(memory) : placed[k].vector = memory[j].vector
  <2>1. CASE Vectors!Positions(t) = {}
    <3>1. placed = Append(memory, new)
      BY <2>1 DEF Vectors!Placed, new
    <3>2. /\ Append(memory, new) \in Seq(Vectors!Cached)
          /\ Len(Append(memory, new)) = Len(memory) + 1
          /\ \A k \in 1..Len(memory) : Append(memory, new)[k] = memory[k]
          /\ Append(memory, new)[Len(memory) + 1] = new
      BY <1>1, <1>2, AppendProperties
    <3>3. \A k \in 1..Len(memory) : memory[k].text # t
      BY <2>1 DEF Vectors!Positions
    <3> HIDE DEF placed
    <3>4. Distinct(placed)
      BY <1>1, <1>2, <3>1, <3>2, <3>3 DEF Distinct
    <3>5. \A k \in 1..Len(placed) :
            placed[k].vector = v \/ \E j \in 1..Len(memory) : placed[k].vector = memory[j].vector
      BY <1>1, <1>2, <3>1, <3>2
    <3> QED
      BY <1>1, <3>1, <3>2, <3>4, <3>5, VectorsAssumption
  <2>2. CASE Vectors!Positions(t) # {}
    <3>1. placed = [i \in DOMAIN memory |-> IF i \in Vectors!Positions(t) THEN new ELSE memory[i]]
      BY <2>2 DEF Vectors!Placed, new
    <3>2. DOMAIN memory = 1..Len(memory)
      BY <1>1
    <3>3. placed \in [1..Len(memory) -> Vectors!Cached]
      BY <1>1, <1>2, <3>1, <3>2
    <3> HIDE DEF placed
    <3>4. placed \in Seq(Vectors!Cached) /\ Len(placed) = Len(memory)
      BY <1>1, <3>3, IsASeq, LenProperties
    <3>5. \A k \in 1..Len(memory) : /\ memory[k].text = t => placed[k] = new
                                    /\ memory[k].text # t => placed[k] = memory[k]
      BY <3>1, <3>2 DEF Vectors!Positions
    <3>6. Distinct(placed)
      BY <1>1, <1>2, <3>4, <3>5 DEF Distinct
    <3> QED
      BY <1>1, <1>2, <3>4, <3>5, <3>6, VectorsAssumption
  <2> QED
    BY <2>1, <2>2
<1> HIDE DEF placed
<1>4. /\ memory' \in Seq(Vectors!Cached) /\ Len(memory') <= MaxMemory
      /\ \E d \in {0, 1} : /\ Len(memory') = Len(placed) - d
                           /\ \A k \in 1..Len(memory') : k + d \in 1..Len(placed) /\ memory'[k] = placed[k + d]
  <2>1. memory' = Vectors!Trimmed(placed)
    BY DEF Vectors!Remember, placed
  <2> QED
    BY <1>3, <2>1, TrimmedIs, VectorsAssumption
<1>5. PICK d \in {0, 1} : \A k \in 1..Len(memory') : k + d \in 1..Len(placed) /\ memory'[k] = placed[k + d]
  BY <1>4
<1>6. Distinct(memory')
  BY <1>3, <1>5 DEF Distinct
<1> QED
  BY <1>3, <1>4, <1>5, <1>6

-----------------------------------------------------------------------------
(* The steps of callers *)

LEMMA NoCall ==
    /\ Vectors!Idle \in Vectors!Call /\ Vectors!Idle.pc = "idle" /\ Vectors!Idle.answer = Null
BY VectorsAssumption DEF Vectors!Idle, Vectors!Call

\* A caller whose step leaves Redis, and remembers what it may remember.
LEMMA CallerStep ==
    ASSUME VectorInv, NEW c \in Callers, NEW r \in Vectors!Call, call' = [call EXCEPT ![c] = r],
           UNCHANGED <<provider, since, late, redis>>,
           memory' \in Seq(Vectors!Cached), Vectors!MemoryIsBounded',
           late => \A k \in 1..Len(memory') : memory'[k].vector = provider,
           late => r.answer \in {provider, Null},
           r.pc = "store" => r.answer = provider,
           r.pc \in UnderWay => r.text \in Texts
    PROVE  VectorInv'
<1>1. /\ call' \in [Callers -> Vectors!Call] /\ call'[c] = r
      /\ \A d \in Callers \ {c} : call'[d] = call[d]
  BY DEF VectorInv, Vectors!TypeOK
<1>2. Vectors!TypeOK'
  BY <1>1 DEF VectorInv, Vectors!TypeOK
<1>3. RedisIsOld'
  BY DEF VectorInv, RedisIsOld
<1>4. ProcessIsClean'
  BY <1>1 DEF VectorInv, ProcessIsClean
<1>5. CallsHaveTexts'
  BY <1>1 DEF VectorInv, CallsHaveTexts
<1> QED
  BY <1>2, <1>3, <1>4, <1>5 DEF VectorInv

\* A memory that stays, or remembers the vector v.
LEMMA MemoryStays ==
    ASSUME VectorInv, UNCHANGED <<memory, provider, late>>
    PROVE  /\ memory' \in Seq(Vectors!Cached) /\ Vectors!MemoryIsBounded'
           /\ late => \A k \in 1..Len(memory') : memory'[k].vector = provider
BY DEF VectorInv, Vectors!TypeOK, Vectors!MemoryIsBounded, ProcessIsClean

LEMMA MemoryGrows ==
    ASSUME VectorInv, UNCHANGED <<provider, late>>, NEW t \in Texts, NEW v \in Vectors!Vector,
           Vectors!Remember(t, v), late => v = provider
    PROVE  /\ memory' \in Seq(Vectors!Cached) /\ Vectors!MemoryIsBounded'
           /\ late => \A k \in 1..Len(memory') : memory'[k].vector = provider
<1>1. /\ memory' \in Seq(Vectors!Cached) /\ Len(memory') <= MaxMemory /\ Distinct(memory')
      /\ \A k \in 1..Len(memory') :
           memory'[k].vector = v \/ \E j \in 1..Len(memory) : memory'[k].vector = memory[j].vector
  BY Remembers
<1>2. Vectors!MemoryIsBounded'
  BY <1>1 DEF Vectors!MemoryIsBounded, Distinct
<1> QED
  BY <1>1, <1>2 DEF VectorInv, ProcessIsClean

LEMMA Asks ==
    ASSUME VectorInv, NEW c \in Callers, NEW t \in Texts, Vectors!Ask(c, t) PROVE VectorInv'
<1>1. UNCHANGED <<provider, since, late, redis>>
  BY DEF Vectors!Ask
<1>2. ASSUME NEW i \in Vectors!Positions(t),
             memory' = Append(Vectors!RemoveAt(memory, i), memory[i]),
             Vectors!Goes(c, [Vectors!Idle EXCEPT !.pc = "done", !.text = t, !.answer = memory[i].vector])
      PROVE  VectorInv'
  <2> DEFINE r == [Vectors!Idle EXCEPT !.pc = "done", !.text = t, !.answer = memory[i].vector]
  <2>1. /\ i \in 1..Len(memory) /\ memory \in Seq(Vectors!Cached) /\ Len(memory) \in Nat
        /\ memory[i] \in Vectors!Cached
    BY LenProperties, ElementOfSeq DEF VectorInv, Vectors!TypeOK, Vectors!Positions
  <2>2. /\ memory' \in Seq(Vectors!Cached) /\ Len(memory') = Len(memory)
        /\ \A k \in 1..Len(memory) :
             memory'[k] = IF k < i THEN memory[k]
                          ELSE IF k < Len(memory) THEN memory[k + 1] ELSE memory[i]
    BY <1>2, <2>1, MovedIs
  <2>3. /\ r \in Vectors!Call /\ r.pc = "done" /\ r.answer = memory[i].vector /\ r.pc \notin UnderWay
    <3>1. memory[i].vector \in Vectors!Vector
      BY <2>1 DEF Vectors!Cached
    <3> QED
      BY <3>1, NoCall DEF Vectors!Call, UnderWay
  <2> HIDE DEF r
  <2>4. Vectors!MemoryIsBounded'
    <3>1. Distinct(memory) /\ Len(memory) <= MaxMemory
      BY DEF VectorInv, Vectors!MemoryIsBounded, Distinct
    <3> DEFINE n == memory'
               m == memory
    <3>2. \A k \in 1..Len(m) : n[k] = IF k < i THEN m[k] ELSE IF k < Len(m) THEN m[k + 1] ELSE m[i]
      BY <2>2
    <3>3. Len(n) = Len(m) /\ Len(m) \in Nat /\ i \in 1..Len(m)
      BY <2>1, <2>2
    <3>4. Distinct(m)
      BY <3>1
    <3> HIDE DEF n, m
    <3>5. Distinct(n)
      BY <3>2, <3>3, <3>4 DEF Distinct
    <3> QED
      BY <2>2, <3>1, <3>5 DEF Vectors!MemoryIsBounded, Distinct, n
  <2>5. late => \A k \in 1..Len(memory) : memory[k].vector = provider
    BY DEF VectorInv, ProcessIsClean
  <2>6. late => \A k \in 1..Len(memory') : memory'[k].vector = provider
    BY <2>1, <2>2, <2>5
  <2>7. late => r.answer \in {provider, Null}
    BY <2>1, <2>3, <2>5
  <2>8. call' = [call EXCEPT ![c] = r]
    BY <1>2 DEF Vectors!Goes, r
  <2> QED
    BY <1>1, <2>2, <2>3, <2>4, <2>6, <2>7, <2>8, CallerStep
<1>3. ASSUME UNCHANGED memory, Vectors!Goes(c, [Vectors!Idle EXCEPT !.pc = "redis", !.text = t])
      PROVE  VectorInv'
  <2> DEFINE r == [Vectors!Idle EXCEPT !.pc = "redis", !.text = t]
  <2>1. r \in Vectors!Call /\ r.pc = "redis" /\ r.answer = Null /\ r.text = t
    BY NoCall DEF Vectors!Call
  <2> HIDE DEF r
  <2>2. call' = [call EXCEPT ![c] = r]
    BY <1>3 DEF Vectors!Goes, r
  <2> QED
    BY <1>1, <1>3, <2>1, <2>2, MemoryStays, CallerStep
<1> QED
  BY <1>2, <1>3 DEF Vectors!Ask


LEMMA CallIs ==
    ASSUME VectorInv, NEW c \in Callers
    PROVE  /\ call[c] \in Vectors!Call /\ call[c].answer \in Vectors!Vector \cup {Null}
           /\ late => call[c].answer \in {provider, Null}
           /\ call[c].pc = "store" => call[c].answer = provider
           /\ call[c].pc \in UnderWay => call[c].text \in Texts
           /\ provider \in Vectors!Vector
BY DEF VectorInv, Vectors!TypeOK, Vectors!Call, Vectors!Vector, ProcessIsClean, CallsHaveTexts

LEMMA ReadsRedis ==
    ASSUME VectorInv, NEW c \in Callers, Vectors!ReadRedis(c) PROVE VectorInv'
<1> DEFINE t == call[c].text
           v == redis[t].vector
<1>1. UNCHANGED <<provider, since, late, redis>> /\ t \in Texts /\ call[c] \in Vectors!Call
  BY CallIs DEF Vectors!ReadRedis, Vectors!At, UnderWay
<1>2. ASSUME redis[t].age < Ttl, Vectors!Remember(t, v), Vectors!Answer(c, v)
      PROVE  VectorInv'
  <2>1. v \in Vectors!Vector /\ redis[t].age \in 0..Ttl
    BY <1>1 DEF VectorInv, Vectors!TypeOK
  <2>2. late => v = provider
    BY <1>1, <1>2, <2>1, VectorsAssumption DEF VectorInv, RedisIsOld, ProcessIsClean
  <2> DEFINE r == [call[c] EXCEPT !.pc = "done", !.answer = v]
  <2>3. r \in Vectors!Call /\ r.pc = "done" /\ r.answer = v /\ r.pc \notin UnderWay
    BY <1>1, <2>1 DEF Vectors!Call, UnderWay
  <2>4. call' = [call EXCEPT ![c] = r]
    BY <1>2 DEF Vectors!Answer, Vectors!Goes
  <2> HIDE DEF r, v
  <2> QED
    BY <1>1, <1>2, <2>1, <2>2, <2>3, <2>4, MemoryGrows, CallerStep
<1>3. ASSUME Vectors!Goes(c, [call[c] EXCEPT !.pc = "provider"]), UNCHANGED memory
      PROVE  VectorInv'
  <2> DEFINE r == [call[c] EXCEPT !.pc = "provider"]
  <2>1. r \in Vectors!Call /\ r.pc = "provider" /\ r.answer = call[c].answer /\ r.text = t
    BY <1>1 DEF Vectors!Call
  <2>2. call' = [call EXCEPT ![c] = r]
    BY <1>3 DEF Vectors!Goes
  <2> HIDE DEF r
  <2> QED
    BY <1>1, <1>3, <2>1, <2>2, CallIs, MemoryStays, CallerStep
<1> QED
  BY <1>2, <1>3 DEF Vectors!ReadRedis

LEMMA AsksProvider ==
    ASSUME VectorInv, NEW c \in Callers, Vectors!AskProvider(c) PROVE VectorInv'
<1> DEFINE t == call[c].text
<1>1. /\ UNCHANGED <<provider, since, late, redis>> /\ t \in Texts /\ call[c] \in Vectors!Call
      /\ provider \in Vectors!Vector /\ call[c].pc = "provider"
  BY CallIs DEF Vectors!AskProvider, Vectors!At, UnderWay
<1>2. ASSUME Vectors!Remember(t, provider),
             Vectors!Goes(c, [call[c] EXCEPT !.pc = "store", !.answer = provider])
      PROVE  VectorInv'
  <2> DEFINE r == [call[c] EXCEPT !.pc = "store", !.answer = provider]
  <2>1. r \in Vectors!Call /\ r.pc = "store" /\ r.answer = provider /\ r.text = t
    BY <1>1 DEF Vectors!Call
  <2>2. call' = [call EXCEPT ![c] = r]
    BY <1>2 DEF Vectors!Goes
  <2> HIDE DEF r
  <2> QED
    BY <1>1, <1>2, <2>1, <2>2, MemoryGrows, CallerStep
<1>3. ASSUME Vectors!MayRetry(c), Vectors!Goes(c, [call[c] EXCEPT !.tries = @ + 1]), UNCHANGED memory
      PROVE  VectorInv'
  <2> DEFINE r == [call[c] EXCEPT !.tries = @ + 1]
  <2>1. r \in Vectors!Call /\ r.pc = "provider" /\ r.answer = call[c].answer /\ r.text = t
    <3>1. call[c].tries + 1 \in 0..(Attempts - 1)
      BY <1>1, <1>3, VectorsAssumption DEF Vectors!MayRetry, Vectors!Call
    <3> QED
      BY <1>1, <3>1 DEF Vectors!Call
  <2>2. call' = [call EXCEPT ![c] = r]
    BY <1>3 DEF Vectors!Goes
  <2> HIDE DEF r
  <2> QED
    BY <1>1, <1>3, <2>1, <2>2, CallIs, MemoryStays, CallerStep
<1>4. ASSUME Vectors!Goes(c, [Vectors!Idle EXCEPT !.pc = "done"]), UNCHANGED memory
      PROVE  VectorInv'
  <2> DEFINE r == [Vectors!Idle EXCEPT !.pc = "done"]
  <2>1. r \in Vectors!Call /\ r.pc = "done" /\ r.answer = Null /\ r.pc \notin UnderWay
    BY NoCall DEF Vectors!Call, UnderWay
  <2>2. call' = [call EXCEPT ![c] = r]
    BY <1>4 DEF Vectors!Goes
  <2> HIDE DEF r
  <2> QED
    BY <1>1, <1>4, <2>1, <2>2, MemoryStays, CallerStep
<1> QED
  BY <1>2, <1>3, <1>4 DEF Vectors!AskProvider

\* A caller whose step may change Redis: what it stores is new, and the provider's.
LEMMA Stores ==
    ASSUME VectorInv, NEW c \in Callers, Vectors!Store(c) PROVE VectorInv'
<1> DEFINE t == call[c].text
           r == [call[c] EXCEPT !.pc = "done", !.answer = call[c].answer]
<1>1. /\ UNCHANGED <<provider, since, late, memory>> /\ t \in Texts /\ call[c] \in Vectors!Call
      /\ provider \in Vectors!Vector /\ call[c].answer = provider
  BY CallIs DEF Vectors!Store, Vectors!At, UnderWay
<1>2. r \in Vectors!Call /\ r.pc = "done" /\ r.answer = provider /\ r.pc \notin UnderWay
  BY <1>1 DEF Vectors!Call, UnderWay
<1>3. call' = [call EXCEPT ![c] = r]
  BY DEF Vectors!Store, Vectors!Answer, Vectors!Goes
<1> HIDE DEF r
<1>4. /\ call' \in [Callers -> Vectors!Call] /\ call'[c] = r
      /\ \A d \in Callers \ {c} : call'[d] = call[d]
  BY <1>2, <1>3 DEF VectorInv, Vectors!TypeOK
<1> DEFINE e == [vector |-> provider, age |-> 0]
<1>5. e \in [vector: Vectors!Vector, age: 0..Ttl] /\ e.vector = provider
  BY <1>1, VectorsAssumption
<1>6. redis' = redis \/ redis' = [redis EXCEPT ![t] = e]
  BY <1>1 DEF Vectors!Store
<1> HIDE DEF e
<1>7. redis' \in [Texts -> [vector: Vectors!Vector, age: 0..Ttl]] /\ RedisIsOld'
  <2>1. CASE redis' = redis
    BY <1>1, <2>1 DEF VectorInv, Vectors!TypeOK, RedisIsOld
  <2>2. CASE redis' = [redis EXCEPT ![t] = e]
    <3>1. /\ redis' \in [Texts -> [vector: Vectors!Vector, age: 0..Ttl]] /\ redis'[t] = e
          /\ \A u \in Texts \ {t} : redis'[u] = redis[u]
      BY <1>1, <1>5, <2>2 DEF VectorInv, Vectors!TypeOK
    <3> QED
      BY <1>1, <1>5, <3>1 DEF VectorInv, RedisIsOld
  <2> QED
    BY <1>6, <2>1, <2>2
<1>8. Vectors!TypeOK'
  BY <1>1, <1>4, <1>7 DEF VectorInv, Vectors!TypeOK
<1>9. Vectors!MemoryIsBounded'
  BY <1>1 DEF VectorInv, Vectors!MemoryIsBounded
<1>10. ProcessIsClean'
  BY <1>1, <1>2, <1>4 DEF VectorInv, ProcessIsClean
<1>11. CallsHaveTexts'
  BY <1>1, <1>2, <1>4 DEF VectorInv, CallsHaveTexts
<1> QED
  BY <1>7, <1>8, <1>9, <1>10, <1>11 DEF VectorInv

LEMMA Leaves ==
    ASSUME VectorInv, NEW c \in Callers, Vectors!Leave(c) PROVE VectorInv'
<1>1. UNCHANGED <<provider, since, late, memory, redis>>
  BY DEF Vectors!Leave
<1>2. call' = [call EXCEPT ![c] = Vectors!Idle]
  BY DEF Vectors!Leave, Vectors!Goes
<1>3. Vectors!Idle.pc \notin UnderWay
  BY NoCall DEF UnderWay
<1> QED
  BY <1>1, <1>2, <1>3, NoCall, MemoryStays, CallerStep

-----------------------------------------------------------------------------
(* The steps of the process and of time *)

LEMMA Restarts == ASSUME VectorInv, Vectors!Restart PROVE VectorInv'
<1>1. /\ memory' = <<>> /\ UNCHANGED redis /\ call' = [c \in Callers |-> Vectors!Idle]
  BY DEF Vectors!Restart, Vectors!Emptied
<1>2. \/ late' = (since = Ttl) /\ UNCHANGED <<provider, since>>
      \/ /\ provider < MaxSwitches /\ provider' = provider + 1
         /\ since' = 0 /\ late' = FALSE
  BY DEF Vectors!Restart
<1>3. memory' \in Seq(Vectors!Cached) /\ Len(memory') = 0
  BY <1>1
<1>4. \A c \in Callers : call'[c] = Vectors!Idle
  BY <1>1
<1>5. Vectors!TypeOK'
  <2>1. call' \in [Callers -> Vectors!Call]
    BY <1>1, NoCall
  <2>2. provider \in 0..MaxSwitches /\ since \in 0..Ttl
    BY DEF VectorInv, Vectors!TypeOK, Vectors!Providers
  <2>3. provider' \in Vectors!Providers /\ since' \in 0..Ttl
    BY <1>2, <2>2, VectorsAssumption DEF Vectors!Providers
  <2>4. late' \in BOOLEAN
    BY <1>2
  <2> QED
    BY <1>1, <1>3, <2>1, <2>3, <2>4 DEF VectorInv, Vectors!TypeOK
<1>6. Vectors!MemoryIsBounded'
  BY <1>3, VectorsAssumption DEF Vectors!MemoryIsBounded
<1>7. RedisIsOld'
  <2>1. \A t \in Texts : redis[t].age \in Nat
    BY VectorsAssumption DEF VectorInv, Vectors!TypeOK
  <2> QED
    BY <1>1, <1>2, <2>1 DEF VectorInv, RedisIsOld
<1>8. ProcessIsClean'
  <2>1. late' => since' = Ttl
    BY <1>2
  <2>2. \A k \in 1..Len(memory') : FALSE
    BY <1>3
  <2> QED
    BY <1>4, <2>1, <2>2, NoCall DEF ProcessIsClean
<1>9. CallsHaveTexts'
  BY <1>4, NoCall DEF CallsHaveTexts, UnderWay
<1> QED
  BY <1>5, <1>6, <1>7, <1>8, <1>9 DEF VectorInv

LEMMA Ticks == ASSUME VectorInv, Vectors!Tick PROVE VectorInv'
<1>1. /\ UNCHANGED <<provider, late, memory, call>>
      /\ since' = IF since < Ttl THEN since + 1 ELSE Ttl
  BY DEF Vectors!Tick
<1> DEFINE Old == [vector: Vectors!Vector, age: 0..Ttl]
<1>2. redis \in [Texts -> Old] /\ since \in 0..Ttl /\ since' \in 0..Ttl
  BY <1>1, VectorsAssumption DEF VectorInv, Vectors!TypeOK
<1>3. ASSUME NEW t \in Texts
      PROVE  /\ redis'[t] \in Old
             /\ redis'[t].age < Ttl => /\ redis'[t].vector = redis[t].vector
                                       /\ redis'[t].age = redis[t].age + 1
  <2>1. redis[t].age \in 0..Ttl /\ redis[t] \in Old
    BY <1>2
  <2>2. redis'[t] = IF redis[t].age + 1 < Ttl THEN [redis[t] EXCEPT !.age = @ + 1]
                                              ELSE Vectors!NoEntry
    BY DEF Vectors!Tick
  <2>3. CASE redis[t].age + 1 < Ttl
    BY <2>1, <2>2, <2>3, VectorsAssumption
  <2>4. CASE ~(redis[t].age + 1 < Ttl)
    BY <2>2, <2>4, VectorsAssumption DEF Vectors!NoEntry, Vectors!Vector, Vectors!Providers
  <2> QED
    BY <2>3, <2>4
<1>4. redis' = [t \in Texts |-> redis'[t]]
  BY DEF Vectors!Tick
<1>5. redis' \in [Texts -> Old]
  <2> DEFINE next == redis'
  <2>1. next = [t \in Texts |-> next[t]] /\ \A t \in Texts : next[t] \in Old
    BY <1>3, <1>4
  <2> HIDE DEF next
  <2>2. next \in [Texts -> Old]
    BY <2>1
  <2> QED
    BY <2>2 DEF next
<1>6. Vectors!TypeOK'
  BY <1>1, <1>2, <1>5 DEF VectorInv, Vectors!TypeOK
<1>7. Vectors!MemoryIsBounded'
  BY <1>1 DEF VectorInv, Vectors!MemoryIsBounded
<1>8. RedisIsOld'
  <2>1. ASSUME NEW t \in Texts, redis'[t].age < Ttl, redis'[t].vector # provider
        PROVE  redis'[t].age >= since'
    <3>1. redis'[t].vector = redis[t].vector /\ redis'[t].age = redis[t].age + 1
      BY <1>3, <2>1
    <3>2. redis[t].age \in 0..Ttl
      BY <1>2
    <3>3. redis[t].age >= since
      BY <2>1, <3>1, <3>2, VectorsAssumption DEF VectorInv, RedisIsOld
    <3> DEFINE x == redis[t].age
               y == redis'[t].age
    <3>4. x >= since /\ y = x + 1 /\ y < Ttl /\ x \in 0..Ttl
      BY <2>1, <3>1, <3>2, <3>3
    <3> HIDE DEF x, y
    <3>5. y >= since'
      BY <1>1, <1>2, <3>4, VectorsAssumption
    <3> QED
      BY <3>5 DEF y
  <2> QED
    BY <1>1, <2>1 DEF RedisIsOld
<1>9. ProcessIsClean'
  BY <1>1, <1>2, VectorsAssumption DEF VectorInv, ProcessIsClean
<1>10. CallsHaveTexts'
  BY <1>1 DEF VectorInv, CallsHaveTexts
<1> QED
  BY <1>6, <1>7, <1>8, <1>9, <1>10 DEF VectorInv

LEMMA InitVectors == ASSUME Vectors!Init PROVE VectorInv
<1>1. \A c \in Callers : call[c] = Vectors!Idle
  BY DEF Vectors!Init
<1>2. Vectors!TypeOK
  <2>1. call \in [Callers -> Vectors!Call]
    BY NoCall DEF Vectors!Init
  <2>2. Vectors!NoEntry \in [vector: Vectors!Vector, age: 0..Ttl]
    BY VectorsAssumption DEF Vectors!NoEntry, Vectors!Vector, Vectors!Providers
  <2>3. memory \in Seq(Vectors!Cached)
    BY DEF Vectors!Init
  <2> QED
    BY <2>1, <2>2, <2>3, VectorsAssumption DEF Vectors!Init, Vectors!TypeOK, Vectors!Providers
<1>3. Len(memory) = 0
  BY DEF Vectors!Init
<1>4. Vectors!MemoryIsBounded
  BY <1>3, VectorsAssumption DEF Vectors!MemoryIsBounded
<1>5. RedisIsOld
  BY VectorsAssumption DEF Vectors!Init, RedisIsOld, Vectors!NoEntry
<1>6. ProcessIsClean
  <2>1. since = Ttl /\ \A k \in 1..Len(memory) : FALSE
    BY <1>3 DEF Vectors!Init
  <2> QED
    BY <1>1, <2>1, NoCall DEF ProcessIsClean
<1>7. CallsHaveTexts
  BY <1>1, NoCall DEF CallsHaveTexts, UnderWay
<1> QED
  BY <1>2, <1>4, <1>5, <1>6, <1>7 DEF VectorInv

LEMMA VectorStep == ASSUME VectorInv, [Vectors!Next]_(Vectors!vars) PROVE VectorInv'
<1>1. ASSUME NEW c \in Callers, NEW t \in Texts, Vectors!Ask(c, t) PROVE VectorInv'
  BY <1>1, Asks
<1>2. ASSUME NEW c \in Callers, Vectors!ReadRedis(c) PROVE VectorInv'
  BY <1>2, ReadsRedis
<1>3. ASSUME NEW c \in Callers, Vectors!AskProvider(c) PROVE VectorInv'
  BY <1>3, AsksProvider
<1>4. ASSUME NEW c \in Callers, Vectors!Store(c) PROVE VectorInv'
  BY <1>4, Stores
<1>5. ASSUME NEW c \in Callers, Vectors!Leave(c) PROVE VectorInv'
  BY <1>5, Leaves
<1>6. CASE Vectors!Restart
  BY <1>6, Restarts
<1>7. CASE Vectors!Tick
  BY <1>7, Ticks
<1>8. CASE UNCHANGED Vectors!vars
  BY <1>8 DEF Vectors!vars, VectorInv, Vectors!TypeOK, Vectors!MemoryIsBounded, RedisIsOld,
              ProcessIsClean, CallsHaveTexts
<1> QED
  BY <1>1, <1>2, <1>3, <1>4, <1>5, <1>6, <1>7, <1>8 DEF Vectors!Next

\* Whatever the callers, restarts and failures do, the memory of vectors keeps its
\* bound and each text once, and one Ttl and one restart after a change of the provider
\* embed_text hands out the vectors of the configured one alone.
THEOREM OldVectorsDoRunOut == Vectors!Spec => []VectorsRunOut
<1>1. Vectors!Init => VectorInv
  BY InitVectors
<1>2. VectorInv /\ [Vectors!Next]_(Vectors!vars) => VectorInv'
  BY VectorStep
<1>3. VectorInv => VectorsRunOut
  BY DEF VectorInv, VectorsRunOut, ProcessIsClean, Vectors!OldVectorsRunOut
<1> QED
  BY <1>1, <1>2, <1>3, PTL DEF Vectors!Spec

-----------------------------------------------------------------------------
(* What a connector reports of the keys, and of the rows it left out         *)

\* A declared foreign key joins itself.
LEMMA DeclaredKeys ==
    ASSUME NEW db, Connectors!IsDatabase(db)
    PROVE  Connectors!DeclaredIsReported(db)
<1> SUFFICES ASSUME NEW k \in db.keys, Connectors!IsForeign(k),
                    db.dialect = "sqlserver" \/ k.refers.table.schema = Connectors!Schema(k),
                    NEW i \in DOMAIN k.columns
             PROVE  [name |-> k.name, column |-> k.columns[i], referred |-> k.refers.table,
                     referredColumn |-> k.refers.columns[i]] \in Connectors!Reported(db, k.table)
  BY DEF Connectors!DeclaredIsReported, Connectors!Declared
<1> DEFINE p == <<k, k, k>>
<1>1. p \in Connectors!Joined(db, k.table)
  BY DEF Connectors!Joined, Connectors!Alike, Connectors!OfTable, Connectors!Referred
<1>2. i \in DOMAIN k.refers.columns
  <2>1. Len(k.columns) = Len(k.refers.columns)
    BY DEF Connectors!IsDatabase
  <2>2. k \in Connectors!ForeignKey
    BY DEF Connectors!IsDatabase, Connectors!IsForeign, Connectors!PrimaryKey
  <2>3. k.columns \in Seq(KeyColumns) /\ k.refers.columns \in Seq(KeyColumns)
    BY <2>2 DEF Connectors!ForeignKey, Connectors!PrimaryKey, Connectors!Keys
  <2> QED BY <2>1, <2>3
<1>3. [name |-> k.name, column |-> k.columns[i], referred |-> k.refers.table,
       referredColumn |-> k.refers.columns[i]]
        \in [name: {p[1].name}, column: Connectors!ColumnsOf(p[2]), referred: {p[3].refers.table},
             referredColumn: Connectors!ColumnsOf(p[3].refers)]
  BY <1>2 DEF Connectors!ColumnsOf
<1> QED BY <1>1, <1>3 DEF Connectors!Reported

LEMMA OneColumn ==
    ASSUME NEW s \in Seq(KeyColumns), s # <<>>, ~(Len(s) > 1),
           NEW q \in Seq(KeyColumns), Len(s) = Len(q)
    PROVE  DOMAIN s = {1} /\ DOMAIN q = {1}
<1>1. Len(s) \in Nat /\ DOMAIN s = 1..Len(s) /\ DOMAIN q = 1..Len(q)
  OBVIOUS
<1>2. Len(s) # 0
  OBVIOUS
<1>3. Len(s) = 1 /\ Len(q) = 1
  BY <1>1, <1>2
<1> QED BY <1>1, <1>3

\* A name that only one constraint has cannot join two.
LEMMA ReportedKeys ==
    ASSUME NEW db, Connectors!IsDatabase(db)
    PROVE  Connectors!ReportedIsDeclared(db)
<1> SUFFICES ASSUME NEW t \in Tables, NEW r \in Connectors!Reported(db, t)
             PROVE  LET named == {k \in db.keys : k.name = r.name} IN
                    \/ \E k \in named : /\ k.table = t /\ Connectors!IsForeign(k)
                                        /\ r \in Connectors!Declared(k)
                    \/ \E k \in named : Len(k.columns) > 1
                    \/ \E k, l \in named : k # l
  BY DEF Connectors!ReportedIsDeclared
<1> DEFINE named == {k \in db.keys : k.name = r.name}
<1> SUFFICES ASSUME ~\E k \in named : Len(k.columns) > 1, ~\E k, l \in named : k # l
             PROVE  \E k \in named : /\ k.table = t /\ Connectors!IsForeign(k)
                                     /\ r \in Connectors!Declared(k)
  OBVIOUS
<1>1. PICK p \in Connectors!Joined(db, t) :
         r \in [name: {p[1].name}, column: Connectors!ColumnsOf(p[2]), referred: {p[3].refers.table},
                referredColumn: Connectors!ColumnsOf(p[3].refers)]
  BY DEF Connectors!Reported
<1>2. /\ p[1] \in named /\ p[2] \in named /\ p[3] \in named
      /\ Connectors!IsForeign(p[1]) /\ Connectors!OfTable(db, t, p[1], p[2])
  BY <1>1 DEF Connectors!Joined, Connectors!Alike, Connectors!Referred
<1>4. p[1] = p[2] /\ p[1] = p[3]
  BY <1>2
<1> DEFINE k == p[1]
<1>5. k \in db.keys /\ k.name = r.name /\ Connectors!IsForeign(k) /\ k.table = t
  BY <1>2, <1>4 DEF Connectors!OfTable
<1>6. r \in [name: {k.name}, column: Connectors!ColumnsOf(k), referred: {k.refers.table},
             referredColumn: Connectors!ColumnsOf(k.refers)]
  BY <1>1, <1>4
<1> HIDE DEF k
<1>7. k.columns \in Seq(KeyColumns) /\ k.refers.columns \in Seq(KeyColumns)
      /\ Len(k.columns) = Len(k.refers.columns) /\ k.columns # <<>>
  <2>1. k \in Connectors!ForeignKey
    BY <1>5 DEF Connectors!IsDatabase, Connectors!IsForeign, Connectors!PrimaryKey
  <2> QED BY <1>5, <2>1 DEF Connectors!IsDatabase, Connectors!ForeignKey, Connectors!PrimaryKey, Connectors!Keys
<1>8. DOMAIN k.columns = {1} /\ DOMAIN k.refers.columns = {1}
  <2>1. ~(Len(k.columns) > 1)
    BY <1>5
  <2> QED BY <1>7, <2>1, OneColumn
<1>9. r = [name |-> k.name, column |-> k.columns[1], referred |-> k.refers.table,
           referredColumn |-> k.refers.columns[1]]
  BY <1>6, <1>8 DEF Connectors!ColumnsOf
<1>10. r \in Connectors!Declared(k)
  BY <1>8, <1>9 DEF Connectors!Declared
<1> QED BY <1>5, <1>10

\* Two constraints that names do not tell apart: only PostgreSQL allows them, and
\* only one of them can be a primary key.
LEMMA PrimaryColumns ==
    ASSUME NEW db, Connectors!IsDatabase(db)
    PROVE  Connectors!PrimaryIsTrue(db)
<1> SUFFICES ASSUME NEW t \in Tables, NEW c \in KeyColumns
             PROVE  LET own == {k \in db.keys : k.table = t /\ ~Connectors!IsForeign(k)} IN
                    /\ (\E k \in own : c \in Connectors!ColumnsOf(k)) => Connectors!IsPrimary(db, t, c)
                    /\ Connectors!IsPrimary(db, t, c) =>
                         \/ \E k \in own : c \in Connectors!ColumnsOf(k)
                         \/ /\ db.dialect = "postgresql"
                            /\ \E k \in own, l \in db.keys : Connectors!IsForeign(l) /\ Connectors!Alike(k, l)
  BY DEF Connectors!PrimaryIsTrue
<1> DEFINE own == {k \in db.keys : k.table = t /\ ~Connectors!IsForeign(k)}
<1>1. ASSUME NEW k \in own, c \in Connectors!ColumnsOf(k)
      PROVE  Connectors!IsPrimary(db, t, c)
  BY <1>1 DEF Connectors!IsPrimary, Connectors!Alike
<1>2. ASSUME Connectors!IsPrimary(db, t, c)
      PROVE  \/ \E k \in own : c \in Connectors!ColumnsOf(k)
             \/ /\ db.dialect = "postgresql"
                /\ \E k \in own, l \in db.keys : Connectors!IsForeign(l) /\ Connectors!Alike(k, l)
  <2>1. PICK k \in db.keys, u \in db.keys :
          /\ ~Connectors!IsForeign(k) /\ Connectors!Alike(k, u) /\ c \in Connectors!ColumnsOf(u)
          /\ IF db.dialect = "sqlserver" THEN u.table = t ELSE k.table = t
    BY <1>2 DEF Connectors!IsPrimary
  <2>2. CASE k = u
    BY <2>1, <2>2
  <2>3. CASE k # u
    <3>1. db.dialect = "postgresql" /\ (Connectors!IsForeign(k) \/ Connectors!IsForeign(u))
      BY <2>1, <2>3 DEF Connectors!IsDatabase, Connectors!Alike
    <3> QED BY <2>1, <3>1
  <2> QED BY <2>2, <2>3
<1> QED BY <1>1, <1>2

\* Whatever the customer's tables, columns and constraints, the keys that a connector
\* reports are those declared, but for what names of constraints leave open
\* (connectors/postgresql, connectors/sqlserver: introspect_tables).
THEOREM ReportedKeysAreTrue == DatabaseSpec => []KeysAreTrue
<1>1. Connectors!IsDatabase(database) => KeysAreTrue
  BY DeclaredKeys, ReportedKeys, PrimaryColumns DEF KeysAreTrue
<1>2. KeysAreTrue /\ [FALSE]_database => KeysAreTrue'
  BY DEF KeysAreTrue
<1> QED BY <1>1, <1>2, PTL DEF DatabaseSpec

-----------------------------------------------------------------------------
\* Two numbers of rows that give the same answer: all of them, or max_rows and the mark.
Alike(x, y) == x = y \/ (x > MaxRows /\ y > MaxRows)

ACap(n) == n \in Nat /\ n = MaxRows + 1 /\ MaxRows \in Nat /\ Null \notin Nat

LEMMA AlikeIsHonest ==
    ASSUME NEW x \in Nat, NEW y \in Nat, Alike(x, y), MaxRows \in Nat
    PROVE  /\ Limits!Lesser(x, MaxRows) = Limits!Lesser(y, MaxRows)
           /\ x > MaxRows <=> y > MaxRows
BY DEF Alike, Limits!Lesser

\* Cutting, adding rows and lowering a limit to the cap keep two numbers alike.
LEMMA CutIsCounted ==
    ASSUME NEW x \in Nat, NEW limit, limit = Null \/ limit \in Nat
    PROVE  Limits!Cut(x, limit) \in Nat
BY DEF Limits!Cut, Limits!Lesser

LEMMA CutKeepsAlike ==
    ASSUME NEW x \in Nat, NEW y \in Nat, Alike(x, y), MaxRows \in Nat,
           NEW limit, limit = Null \/ limit \in Nat
    PROVE  Alike(Limits!Cut(x, limit), Limits!Cut(y, limit))
<1>1. CASE x = y \/ limit = Null
  BY <1>1 DEF Alike, Limits!Cut
<1>2. CASE x # y /\ limit # Null
  <2>1. limit \in Nat /\ x > MaxRows /\ y > MaxRows
    BY <1>2 DEF Alike
  <2>2. Limits!Cut(x, limit) = (IF x < limit THEN x ELSE limit)
        /\ Limits!Cut(y, limit) = (IF y < limit THEN y ELSE limit)
    BY <1>2 DEF Limits!Cut, Limits!Lesser
  <2> QED BY <2>1, <2>2 DEF Alike
<1> QED BY <1>1, <1>2

LEMMA SumKeepsAlike ==
    ASSUME NEW x \in Nat, NEW y \in Nat, NEW a \in Nat, Alike(x, y), MaxRows \in Nat
    PROVE  Alike(x + a, y + a) /\ Alike(a + x, a + y)
BY DEF Alike

LEMMA NewLimitIsAlike ==
    ASSUME NEW x \in Nat, NEW n, ACap(n)
    PROVE  Alike(Limits!Cut(x, n), Limits!Cut(x, Null))
BY DEF Alike, Limits!Cut, Limits!Lesser, ACap

LEMMA LoweredIsAlike ==
    ASSUME NEW x \in Nat, NEW n, ACap(n), NEW limit \in Nat
    PROVE  Alike(Limits!Cut(x, Limits!Capped(limit, n)), Limits!Cut(x, limit))
<1>1. limit # Null /\ Limits!Capped(limit, n) # Null /\ Limits!Capped(limit, n) \in Nat
  BY DEF Limits!Capped, ACap
<1>2. CASE limit <= n
  BY <1>2 DEF Limits!Capped, Alike
<1>3. CASE ~(limit <= n)
  <2>1. Limits!Capped(limit, n) = n /\ limit > n
    BY <1>3 DEF Limits!Capped, ACap
  <2>2. Limits!Cut(x, n) = (IF x < n THEN x ELSE n) /\ Limits!Cut(x, limit) = (IF x < limit THEN x ELSE limit)
    BY <1>1, <2>1 DEF Limits!Cut, Limits!Lesser
  <2> QED BY <2>1, <2>2 DEF Alike, ACap
<1> QED BY <1>2, <1>3

\* A limit that is left out or lowered, as Inject does to one of them.
IsInjected(old, new, n) ==
    \/ old = new
    \/ old = Null /\ new = n
    \/ old \in Nat /\ new = Limits!Capped(old, n)

LEMMA InjectedIsAlike ==
    ASSUME NEW x \in Nat, NEW n, ACap(n), NEW old, NEW new, IsInjected(old, new, n)
    PROVE  Alike(Limits!Cut(x, new), Limits!Cut(x, old))
<1>1. CASE old = new
  BY <1>1 DEF Alike
<1>2. CASE old = Null /\ new = n
  BY <1>2, NewLimitIsAlike
<1>3. CASE old \in Nat /\ new = Limits!Capped(old, n)
  BY <1>3, LoweredIsAlike
<1> QED BY <1>1, <1>2, <1>3 DEF IsInjected

LEMMA InjectedIsALimit ==
    ASSUME NEW n, ACap(n), NEW old, old = Null \/ old \in Nat, NEW new, IsInjected(old, new, n)
    PROVE  new = Null \/ new \in Nat
BY DEF IsInjected, Limits!Capped, ACap

-----------------------------------------------------------------------------
\* What the fields of a statement are.
IsCounted(s) ==
    /\ s.inner = Null \/ s.inner \in Nat
    /\ s.outer = Null \/ s.outer \in Nat
    /\ s.wrap = Null
    /\ s.size \in Nat /\ s.fan \in Nat /\ s.loses \in Nat /\ s.adds \in Nat

FormsAre(s) ==
    /\ s.dialect \in {"postgresql", "sqlserver"}
    /\ \/ s.form \in {"select", "with"} /\ s.loses = 0 /\ s.adds = 0
       \/ s.form \in {"set", "grouped"} /\ s.fan = 1

Fields(s) ==
    s = [dialect |-> s.dialect, form |-> s.form, outer |-> s.outer, inner |-> s.inner, wrap |-> s.wrap,
         mentions |-> s.mentions, size |-> s.size, fan |-> s.fan, loses |-> s.loses, adds |-> s.adds]

LEMMA StatementsAre ==
    ASSUME NEW s \in Limits!Statements
    PROVE  IsCounted(s) /\ FormsAre(s) /\ Fields(s)
<1>1. PICK forms, fans, losses, additions :
         /\ s \in Limits!Statement(forms, fans, losses, additions)
         /\ \/ forms = Limits!Selects /\ fans = Fans /\ losses = {0} /\ additions = {0}
            \/ forms = Limits!SetOperations /\ fans = {1} /\ losses = Limits!Sizes /\ additions = {0}
            \/ forms = Limits!SetOperations /\ fans = {1} /\ losses = {0} /\ additions = Limits!Sizes
  BY DEF Limits!Statements
<1>2. Fields(s)
  BY <1>1 DEF Limits!Statement, Fields
<1>3. /\ s.dialect \in Limits!Dialects /\ s.form \in forms /\ s.outer \in Limits!Limits
      /\ s.inner \in Limits!Limits /\ s.wrap = Null /\ s.size \in Limits!Sizes
      /\ s.fan \in fans /\ s.loses \in losses /\ s.adds \in additions
  BY <1>1 DEF Limits!Statement
<1>4. (\A l \in Limits!Limits : l = Null \/ l \in Nat) /\ Limits!Sizes \subseteq Nat /\ Fans \subseteq Nat
      /\ 0 \in Nat /\ 1 \in Nat
  BY LimitsAssumption DEF Limits!Limits, Limits!Sizes
<1>5. fans \subseteq Nat /\ losses \subseteq Nat /\ additions \subseteq Nat
  BY <1>1, <1>4
<1>6. IsCounted(s)
  BY <1>3, <1>4, <1>5 DEF IsCounted
<1>7. FormsAre(s)
  BY <1>1, <1>3 DEF FormsAre, Limits!Dialects, Limits!Selects, Limits!SetOperations
<1> QED BY <1>2, <1>6, <1>7

\* What Inject makes of a statement: one of its limits is another.
IsWith(t, s, outer, inner, wrap) ==
    /\ t.dialect = s.dialect /\ t.form = s.form /\ t.size = s.size /\ t.fan = s.fan
    /\ t.loses = s.loses /\ t.adds = s.adds
    /\ t.outer = outer /\ t.inner = inner /\ t.wrap = wrap

Injected(t, s, n) ==
    \/ IsWith(t, s, s.outer, s.inner, s.wrap)
    \/ /\ IsWith(t, s, n, s.inner, s.wrap) /\ s.outer = Null /\ ~Limits!HasBranchLimits(s)
    \/ /\ IsWith(t, s, s.outer, n, s.wrap) /\ ~Limits!HasLimit(s) /\ ~s.mentions
       /\ Limits!HasBranchLimits(s) /\ s.form = "set"
    \/ IsWith(t, s, s.outer, s.inner, n)
    \/ /\ IsWith(t, s, Limits!Capped(s.outer, n), s.inner, s.wrap)
       /\ s.outer # Null /\ Limits!First(s) = "outer"
    \/ /\ IsWith(t, s, s.outer, Limits!Capped(s.inner, n), s.wrap)
       /\ s.inner # Null /\ Limits!First(s) = "inner"

LEMMA OuterIsSet ==
    ASSUME NEW s, Fields(s), NEW m, NEW t, t = [s EXCEPT !.outer = m]
    PROVE  IsWith(t, s, m, s.inner, s.wrap)
BY DEF Fields, IsWith

LEMMA InnerIsSet ==
    ASSUME NEW s, Fields(s), NEW m, NEW t, t = [s EXCEPT !.inner = m]
    PROVE  IsWith(t, s, s.outer, m, s.wrap)
BY DEF Fields, IsWith

LEMMA WrapIsSet ==
    ASSUME NEW s, Fields(s), NEW m, NEW t, t = [s EXCEPT !.wrap = m]
    PROVE  IsWith(t, s, s.outer, s.inner, m)
BY DEF Fields, IsWith

LEMMA InjectDoes ==
    ASSUME NEW s, IsCounted(s), FormsAre(s), Fields(s), NEW n
    PROVE  Injected(Limits!Inject(s, n), s, n)
<1>0. PICK t : t = Limits!Inject(s, n)
  OBVIOUS
<1>4. SUFFICES Injected(t, s, n)
  BY <1>0
<1>1. CASE ~Limits!HasLimit(s)
  <2>1. t = Limits!WithNewLimit(s, n) /\ s.outer = Null /\ s.inner = Null
    BY <1>0, <1>1 DEF Limits!Inject, Limits!HasLimit
  <2>2. CASE s.dialect = "postgresql"
    <3>1. t = [s EXCEPT !.outer = n] /\ ~Limits!HasBranchLimits(s)
      BY <2>1, <2>2 DEF Limits!WithNewLimit, Limits!HasBranchLimits
    <3> QED BY <2>1, <3>1, OuterIsSet DEF Injected
  <2>3. CASE s.dialect = "sqlserver" /\ s.mentions
    <3>1. t = s
      BY <2>1, <2>3 DEF Limits!WithNewLimit
    <3> QED BY <3>1 DEF Injected, IsWith
  <2>4. CASE s.dialect = "sqlserver" /\ ~s.mentions /\ s.form = "select"
    <3>1. t = [s EXCEPT !.outer = n] /\ ~Limits!HasBranchLimits(s)
      BY <2>1, <2>4 DEF Limits!WithNewLimit, Limits!HasBranchLimits, Limits!SetOperations
    <3> QED BY <2>1, <3>1, OuterIsSet DEF Injected
  <2>5. CASE s.dialect = "sqlserver" /\ ~s.mentions /\ s.form = "set"
    <3>1. t = [s EXCEPT !.inner = n] /\ Limits!HasBranchLimits(s)
      BY <2>1, <2>5 DEF Limits!WithNewLimit, Limits!HasBranchLimits, Limits!SetOperations
    <3> QED BY <1>1, <2>5, <3>1, InnerIsSet DEF Injected
  <2>6. CASE s.dialect = "sqlserver" /\ ~s.mentions /\ s.form \notin {"select", "set"}
    <3>1. t = [s EXCEPT !.wrap = n]
      BY <2>1, <2>6 DEF Limits!WithNewLimit
    <3> QED BY <3>1, WrapIsSet DEF Injected
  <2>7. s.dialect = "postgresql" \/ s.dialect = "sqlserver"
    BY DEF FormsAre
  <2> QED BY <2>2, <2>3, <2>4, <2>5, <2>6, <2>7
<1>2. CASE Limits!HasLimit(s) /\ Limits!First(s) = "outer"
  <2>1. t = [s EXCEPT !.outer = Limits!Capped(s.outer, n)]
    BY <1>0, <1>2 DEF Limits!Inject
  <2>2. s.outer # Null
    BY <1>2 DEF Limits!HasLimit, Limits!First
  <2> QED BY <1>2, <2>1, <2>2, OuterIsSet DEF Injected
<1>3. CASE Limits!HasLimit(s) /\ Limits!First(s) # "outer"
  <2>1. t = [s EXCEPT !.inner = Limits!Capped(s.inner, n)]
    BY <1>0, <1>3 DEF Limits!Inject
  <2>2. s.inner # Null /\ Limits!First(s) = "inner"
    BY <1>3 DEF Limits!HasLimit, Limits!First
  <2> QED BY <2>1, <2>2, InnerIsSet DEF Injected
<1> QED BY <1>1, <1>2, <1>3

-----------------------------------------------------------------------------
\* The rows of the whole, for the two shapes of a statement.
LEMMA WholeLimits ==
    ASSUME NEW s, ~Limits!HasBranchLimits(s)
    PROVE  Limits!Combined(s)
             = Limits!Cut(s.fan * Limits!Monus(Limits!Cut(s.size, s.inner), s.loses) + s.adds, s.outer)
BY DEF Limits!Combined

LEMMA BranchLimits ==
    ASSUME NEW s, Limits!HasBranchLimits(s)
    PROVE  Limits!Combined(s)
             = Limits!Monus(Limits!Cut(s.size, s.inner), Limits!Cut(s.loses, s.outer))
                 + Limits!Cut(s.adds, s.outer)
BY DEF Limits!Combined

LEMMA MonusIsCounted ==
    ASSUME NEW a \in Nat, NEW b \in Nat
    PROVE  Limits!Monus(a, b) \in Nat /\ Limits!Monus(a, 0) = a
BY DEF Limits!Monus

LEMMA NothingCut ==
    ASSUME NEW limit, limit = Null \/ limit \in Nat
    PROVE  Limits!Cut(0, limit) = 0
BY DEF Limits!Cut, Limits!Lesser

\* The rows before the outer limit.
Body(s) == s.fan * Limits!Monus(Limits!Cut(s.size, s.inner), s.loses) + s.adds

LEMMA BodyIsCounted ==
    ASSUME NEW s, IsCounted(s)
    PROVE  Body(s) \in Nat
<1>1. Limits!Cut(s.size, s.inner) \in Nat
  BY CutIsCounted DEF IsCounted
<1>2. PICK k \in Nat : k = Limits!Monus(Limits!Cut(s.size, s.inner), s.loses)
  BY <1>1, MonusIsCounted DEF IsCounted
<1>3. s.fan * k + s.adds \in Nat
  BY DEF IsCounted
<1> QED BY <1>2, <1>3 DEF Body

LEMMA CombinedIsCounted ==
    ASSUME NEW s, IsCounted(s)
    PROVE  Limits!Combined(s) \in Nat
<1>1. CASE ~Limits!HasBranchLimits(s)
  BY <1>1, WholeLimits, BodyIsCounted, CutIsCounted DEF IsCounted, Body
<1>2. CASE Limits!HasBranchLimits(s)
  <2>1. Limits!Cut(s.size, s.inner) \in Nat /\ Limits!Cut(s.loses, s.outer) \in Nat
        /\ Limits!Cut(s.adds, s.outer) \in Nat
    BY CutIsCounted DEF IsCounted
  <2>2. Limits!Monus(Limits!Cut(s.size, s.inner), Limits!Cut(s.loses, s.outer)) \in Nat
    BY <2>1, MonusIsCounted
  <2> QED BY <1>2, <2>1, <2>2, BranchLimits
<1> QED BY <1>1, <1>2

\* A statement whose outer limit was set or lowered.
LEMMA OuterKeepsAlike ==
    ASSUME NEW s, IsCounted(s), NEW t, NEW n, ACap(n), IsWith(t, s, t.outer, s.inner, s.wrap),
           IsInjected(s.outer, t.outer, n), ~Limits!HasBranchLimits(s)
    PROVE  Alike(Limits!Combined(t), Limits!Combined(s))
<1>1. Body(t) = Body(s) /\ ~Limits!HasBranchLimits(t)
  BY DEF IsWith, Body, Limits!HasBranchLimits
<1>2. Limits!Combined(t) = Limits!Cut(Body(s), t.outer) /\ Limits!Combined(s) = Limits!Cut(Body(s), s.outer)
  BY <1>1, WholeLimits DEF Body
<1>3. Alike(Limits!Cut(Body(s), t.outer), Limits!Cut(Body(s), s.outer))
  BY BodyIsCounted, InjectedIsAlike
<1> QED BY <1>2, <1>3

\* The same of the limit of a branch, where the operation only adds rows.
LEMMA BranchesKeepAlike ==
    ASSUME NEW s, IsCounted(s), NEW t, NEW n, ACap(n), s.loses = 0,
           IsWith(t, s, t.outer, t.inner, s.wrap),
           IsInjected(s.outer, t.outer, n), IsInjected(s.inner, t.inner, n),
           t.outer = s.outer \/ t.inner = s.inner,
           Limits!HasBranchLimits(s)
    PROVE  Alike(Limits!Combined(t), Limits!Combined(s))
<1>1. Limits!HasBranchLimits(t) /\ t.size = s.size /\ t.adds = s.adds /\ t.loses = 0
  BY DEF IsWith, Limits!HasBranchLimits
<1>2. /\ s.inner = Null \/ s.inner \in Nat
      /\ s.outer = Null \/ s.outer \in Nat
      /\ s.size \in Nat /\ s.adds \in Nat
  BY DEF IsCounted
<1>3. (t.inner = Null \/ t.inner \in Nat) /\ (t.outer = Null \/ t.outer \in Nat)
  BY <1>2, InjectedIsALimit
<1> DEFINE first(u) == Limits!Cut(s.size, u.inner)
           second(u) == Limits!Cut(s.adds, u.outer)
<1>4. first(s) \in Nat /\ first(t) \in Nat /\ second(s) \in Nat /\ second(t) \in Nat
  BY <1>2, <1>3, CutIsCounted
<1>5. Limits!Combined(s) = first(s) + second(s)
  BY <1>2, <1>4, BranchLimits, NothingCut, MonusIsCounted
<1>6. Limits!Combined(t) = first(t) + second(t)
  BY <1>1, <1>3, <1>4, BranchLimits, NothingCut, MonusIsCounted
<1>7. Alike(first(t), first(s)) /\ Alike(second(t), second(s))
  BY <1>2, InjectedIsAlike
<1>8. first(t) = first(s) \/ second(t) = second(s)
  OBVIOUS
<1> HIDE DEF first, second
<1>9. MaxRows \in Nat
  BY DEF ACap
<1>10. CASE first(t) = first(s)
  BY <1>4, <1>5, <1>6, <1>7, <1>9, <1>10, SumKeepsAlike
<1>11. CASE second(t) = second(s)
  BY <1>4, <1>5, <1>6, <1>7, <1>9, <1>11, SumKeepsAlike
<1> QED BY <1>8, <1>10, <1>11

\* The same of the first branch where the whole has a limit of its own.
LEMMA FirstKeepsAlike ==
    ASSUME NEW s, IsCounted(s), NEW t, NEW n, ACap(n), s.loses = 0, s.fan = 1,
           IsWith(t, s, s.outer, t.inner, s.wrap), IsInjected(s.inner, t.inner, n),
           ~Limits!HasBranchLimits(s)
    PROVE  Alike(Limits!Combined(t), Limits!Combined(s))
<1>1. ~Limits!HasBranchLimits(t) /\ t.size = s.size /\ t.adds = s.adds /\ t.loses = 0 /\ t.fan = 1
      /\ t.outer = s.outer
  BY DEF IsWith, Limits!HasBranchLimits
<1>2. /\ s.inner = Null \/ s.inner \in Nat
      /\ s.outer = Null \/ s.outer \in Nat
      /\ s.size \in Nat /\ s.adds \in Nat /\ MaxRows \in Nat
  BY DEF IsCounted, ACap
<1>3. t.inner = Null \/ t.inner \in Nat
  BY <1>2, InjectedIsALimit
<1>4. PICK a \in Nat, b \in Nat : a = Limits!Cut(s.size, s.inner) /\ b = Limits!Cut(s.size, t.inner)
  BY <1>2, <1>3, CutIsCounted
<1>5. Body(s) = a + s.adds /\ Body(t) = b + s.adds
  <2>1. Limits!Monus(a, 0) = a /\ Limits!Monus(b, 0) = b
    BY MonusIsCounted
  <2>2. Body(s) = 1 * a + s.adds /\ Body(t) = 1 * b + s.adds
    BY <1>1, <1>4, <2>1 DEF Body
  <2> QED BY <1>2, <2>2
<1>6. Alike(b, a)
  BY <1>2, <1>4, InjectedIsAlike
<1>7. Alike(Body(t), Body(s)) /\ Body(t) \in Nat /\ Body(s) \in Nat
  <2>1. Alike(b + s.adds, a + s.adds)
    BY <1>2, <1>6, SumKeepsAlike
  <2>2. b + s.adds \in Nat /\ a + s.adds \in Nat
    BY <1>2
  <2> QED BY <1>5, <2>1, <2>2
<1>8. Limits!Combined(t) = Limits!Cut(Body(t), s.outer) /\ Limits!Combined(s) = Limits!Cut(Body(s), s.outer)
  BY <1>1, WholeLimits DEF Body
<1> QED BY <1>2, <1>7, <1>8, CutKeepsAlike

\* A limit that is within the cap is left as it is.
LEMMA SmallLimitStays ==
    ASSUME NEW s, NEW n, n = Limits!Asked(MaxRows), s.inner # Null, Limits!First(s) = "inner",
           ~Limits!IsLowered(s, "inner"), s.inner \in Nat, ACap(n)
    PROVE  Limits!Capped(s.inner, n) = s.inner
BY DEF Limits!IsLowered, Limits!Capped, ACap

LEMMA SmallBranchStays ==
    ASSUME NEW s, NEW n, n = Limits!Asked(MaxRows), s.outer # Null, Limits!First(s) = "outer",
           ~Limits!IsLowered(s, "outer"), s.outer \in Nat, ACap(n)
    PROVE  Limits!Capped(s.outer, n) = s.outer
BY DEF Limits!IsLowered, Limits!Capped, ACap

\* Before a wrapping query, what is fetched is alike, but for the parts that are cut.
LEMMA CombinedIsAlike ==
    ASSUME NEW s, IsCounted(s), FormsAre(s), NEW t, NEW n, n = Limits!Asked(MaxRows), ACap(n),
           Injected(t, s, n), ~Limits!SubqueryIsCut(s), ~Limits!BranchIsCut(s)
    PROVE  Alike(Limits!Combined(t), Limits!Combined(s))
<1>1. /\ s.inner = Null \/ s.inner \in Nat
      /\ s.outer = Null \/ s.outer \in Nat
      /\ s.loses \in Nat
  BY DEF IsCounted
<1>2. CASE t.outer = s.outer /\ t.inner = s.inner
  <2>1. Limits!Combined(t) = Limits!Combined(s)
    BY <1>2 DEF Injected, IsWith, Limits!Combined, Limits!HasBranchLimits
  <2> QED BY <2>1 DEF Alike
<1>3. CASE IsWith(t, s, n, s.inner, s.wrap) /\ s.outer = Null /\ ~Limits!HasBranchLimits(s)
  <2>1. IsWith(t, s, t.outer, s.inner, s.wrap) /\ IsInjected(s.outer, t.outer, n)
    BY <1>3 DEF IsWith, IsInjected
  <2> QED BY <1>3, <2>1, OuterKeepsAlike
<1>4. CASE /\ IsWith(t, s, s.outer, n, s.wrap) /\ ~Limits!HasLimit(s) /\ ~s.mentions
           /\ Limits!HasBranchLimits(s) /\ s.form = "set"
  <2>1. s.loses = 0
    BY <1>1, <1>4 DEF Limits!BranchIsCut, Limits!SetOperations
  <2>2. IsWith(t, s, t.outer, t.inner, s.wrap) /\ t.outer = s.outer
        /\ IsInjected(s.outer, t.outer, n) /\ IsInjected(s.inner, t.inner, n)
    BY <1>4 DEF IsWith, IsInjected, Limits!HasLimit
  <2> QED BY <1>4, <2>1, <2>2, BranchesKeepAlike
<1>5. CASE IsWith(t, s, s.outer, s.inner, n) \/ IsWith(t, s, s.outer, s.inner, s.wrap)
  BY <1>2, <1>5 DEF IsWith
<1>6. CASE /\ IsWith(t, s, Limits!Capped(s.outer, n), s.inner, s.wrap)
           /\ s.outer # Null /\ Limits!First(s) = "outer"
  <2>1. IsWith(t, s, t.outer, s.inner, s.wrap) /\ IsInjected(s.outer, t.outer, n)
        /\ t.outer = Limits!Capped(s.outer, n) /\ t.inner = s.inner
    BY <1>1, <1>6 DEF IsWith, IsInjected
  <2>2. CASE ~Limits!HasBranchLimits(s)
    BY <2>1, <2>2, OuterKeepsAlike
  <2>3. CASE Limits!HasBranchLimits(s) /\ s.loses = 0
    <3>1. IsInjected(s.inner, t.inner, n) /\ IsWith(t, s, t.outer, t.inner, s.wrap)
      BY <2>1 DEF IsInjected, IsWith
    <3> QED BY <2>1, <2>3, <3>1, BranchesKeepAlike
  <2>4. CASE Limits!HasBranchLimits(s) /\ s.loses # 0
    <3>1. ~Limits!IsLowered(s, "outer")
      BY <1>1, <2>4 DEF Limits!BranchIsCut, Limits!HasBranchLimits
    <3>2. t.outer = s.outer
      BY <1>1, <1>6, <2>1, <3>1, SmallBranchStays
    <3> QED BY <1>2, <2>1, <3>2
  <2> QED BY <2>2, <2>3, <2>4
<1>7. CASE /\ IsWith(t, s, s.outer, Limits!Capped(s.inner, n), s.wrap)
           /\ s.inner # Null /\ Limits!First(s) = "inner"
  <2>1. /\ IsWith(t, s, s.outer, t.inner, s.wrap) /\ IsWith(t, s, t.outer, t.inner, s.wrap)
        /\ IsInjected(s.inner, t.inner, n) /\ IsInjected(s.outer, t.outer, n)
        /\ t.inner = Limits!Capped(s.inner, n) /\ t.outer = s.outer
    BY <1>1, <1>7 DEF IsWith, IsInjected
  <2>2. CASE ~Limits!IsLowered(s, "inner")
    <3>1. t.inner = s.inner
      BY <1>1, <1>7, <2>1, <2>2, SmallLimitStays
    <3> QED BY <1>2, <2>1, <3>1
  <2>3. CASE Limits!IsLowered(s, "inner")
    <3>1. s.form \in {"set", "grouped"} /\ s.loses = 0 /\ s.fan = 1
      BY <1>1, <2>3 DEF FormsAre, Limits!SubqueryIsCut, Limits!BranchIsCut, Limits!Selects, Limits!SetOperations
    <3>2. CASE Limits!HasBranchLimits(s)
      BY <2>1, <3>1, <3>2, BranchesKeepAlike
    <3>3. CASE ~Limits!HasBranchLimits(s)
      BY <2>1, <3>1, <3>3, FirstKeepsAlike
    <3> QED BY <3>2, <3>3
  <2> QED BY <2>2, <2>3
<1> QED BY <1>3, <1>4, <1>5, <1>6, <1>7 DEF Injected

LEMMA Honest ==
    ASSUME NEW s \in Limits!Statements
    PROVE  Limits!AnswerIsHonest(s)
<1>1. PICK n : n = Limits!Asked(MaxRows)
  OBVIOUS
<1>2. ACap(n)
  BY <1>1, LimitsAssumption DEF ACap, Limits!Asked
<1>3. IsCounted(s) /\ FormsAre(s) /\ Fields(s)
  BY StatementsAre
<1>4. PICK t : t = Limits!Inject(s, n)
  OBVIOUS
<1>5. Injected(t, s, n)
  BY <1>3, <1>4, InjectDoes
<1>6. SUFFICES ASSUME ~Limits!SubqueryIsCut(s), ~Limits!BranchIsCut(s)
               PROVE  /\ Limits!Lesser(Limits!RowsOf(t), MaxRows) = Limits!Lesser(Limits!RowsOf(s), MaxRows)
                      /\ Limits!RowsOf(t) > MaxRows <=> Limits!RowsOf(s) > MaxRows
  BY <1>1, <1>4 DEF Limits!AnswerIsHonest, Limits!ExecuteQuery
<1>7. Alike(Limits!Combined(t), Limits!Combined(s))
  BY <1>1, <1>2, <1>3, <1>5, <1>6, CombinedIsAlike
<1>8. Limits!Combined(s) \in Nat
  BY <1>3, CombinedIsCounted
<1>9. Limits!RowsOf(s) = Limits!Combined(s) /\ s.wrap = Null
  BY <1>3 DEF Limits!RowsOf, IsCounted, Limits!Cut
<1>10. CASE t.wrap = s.wrap
  <2>1. IsCounted(t)
    <3>1. /\ t.inner = s.inner \/ t.inner = n \/ (s.inner \in Nat /\ t.inner = Limits!Capped(s.inner, n))
          /\ t.outer = s.outer \/ t.outer = n \/ (s.outer \in Nat /\ t.outer = Limits!Capped(s.outer, n))
          /\ t.size = s.size /\ t.fan = s.fan /\ t.loses = s.loses /\ t.adds = s.adds
      BY <1>3, <1>5 DEF Injected, IsWith, IsCounted
    <3> QED BY <1>2, <1>3, <1>9, <1>10, <3>1 DEF IsCounted, ACap, Limits!Capped
  <2>2. Limits!Combined(t) \in Nat /\ Limits!RowsOf(t) = Limits!Combined(t)
    BY <1>9, <1>10, <2>1, CombinedIsCounted DEF Limits!RowsOf, Limits!Cut
  <2> QED BY <1>2, <1>7, <1>8, <1>9, <2>2, AlikeIsHonest DEF ACap
<1>11. CASE t.wrap # s.wrap
  <2>1. IsWith(t, s, s.outer, s.inner, n)
    BY <1>5, <1>11 DEF Injected, IsWith
  <2>2. Limits!Combined(t) = Limits!Combined(s) /\ t.wrap = n
    BY <2>1 DEF IsWith, Limits!Combined, Limits!HasBranchLimits
  <2>3. Limits!RowsOf(t) = Limits!Cut(Limits!Combined(s), n)
    BY <2>2 DEF Limits!RowsOf
  <2>4. Limits!Cut(Limits!Combined(s), n) \in Nat
    BY <1>2, <1>8, CutIsCounted DEF ACap
  <2>5. Limits!RowsOf(s) = Limits!Cut(Limits!Combined(s), Null)
    BY <1>9 DEF Limits!RowsOf
  <2>6. Alike(Limits!RowsOf(t), Limits!RowsOf(s))
    BY <1>2, <1>8, <2>3, <2>5, NewLimitIsAlike
  <2> QED BY <1>2, <1>8, <1>9, <2>3, <2>4, <2>6, AlikeIsHonest DEF ACap
<1> QED BY <1>10, <1>11

\* Whatever a statement's limits and the rows it has, an answer that is not marked as
\* truncated is the whole answer, but where only a part of the statement was cut: the
\* limit of a subquery was lowered, or a branch of EXCEPT was limited
\* (connectors/postgresql: _inject_limit, connectors/sqlserver: _inject_top).
THEOREM AnswersAreHonest == StatementSpec => []AnswerIsHonest
<1>1. statement \in Limits!Statements => AnswerIsHonest
  BY Honest DEF AnswerIsHonest
<1>2. AnswerIsHonest /\ [FALSE]_statement => AnswerIsHonest'
  BY DEF AnswerIsHonest
<1> QED BY <1>1, <1>2, PTL DEF StatementSpec
-----------------------------------------------------------------------------
(* ContextAssembly *)

\* The instance has its own names for what FiniteSets defines.
LEMMA SameCardinality == \A S : Assembly!Cardinality(S) = Cardinality(S)
BY Zenon DEF Assembly!Cardinality, Cardinality

Stages == {"search", "load", "glossary", "expand", "samples", "relationships", "done"}

AssemblyTypes ==
    /\ question \in Assembly!Question
    /\ fks \in SUBSET (Linked \X Linked)
    /\ generation \in Assembly!Generations
    /\ stage \in Stages
    /\ context \in [Assembly!Ids -> Nat]

\* The search begins with an empty list.
NothingListed == stage = "search" => \A id \in Assembly!Ids : context[id] = 0

\* No table is listed under an id that the catalogue has not given it yet.
IdsWereGiven == \A id \in Assembly!Ids : context[id] > 0 => id[2] <= generation

\* From their stage on, the tables of the terms and of the samples are listed.
NamedAreListed ==
    /\ stage \in {"expand", "samples", "relationships", "done"}
            => {r.table : r \in question.terms} \subseteq Assembly!Names
    /\ stage \in {"relationships", "done"} => question.samples \subseteq Assembly!Names

\* What the stages up to this one may have listed.
Allowance(s) ==
    CASE s = "search" -> 0
      [] s \in {"load", "glossary"} -> MaxTables
      [] s = "expand" -> MaxTables + Cardinality(question.terms)
      [] s = "samples" -> MaxTables + Cardinality(question.terms) + MaxExtra
      [] OTHER -> MaxTables + Cardinality(question.terms) + MaxExtra + Cardinality(question.samples)

EntriesOf(list) == UNION {{id} \X (1..list[id]) : id \in Assembly!Ids}

Within(list, n) == IsFiniteSet(EntriesOf(list)) /\ Cardinality(EntriesOf(list)) <= n

AssemblyInv ==
    /\ AssemblyTypes /\ NothingListed /\ IdsWereGiven /\ NamedAreListed
    /\ Within(context, Allowance(stage))
    /\ Assembly!NoTableTwice /\ Assembly!JoinsCovered

\* An image is no larger than what it is the image of.
LEMMA ImageIsNoLarger ==
    ASSUME NEW S, IsFiniteSet(S), NEW f, NEW T, T = {f[x] : x \in S}
    PROVE  IsFiniteSet(T) /\ Cardinality(T) <= Cardinality(S)
<1> DEFINE g == [x \in S |-> f[x]]
<1>1. g \in Surjection(S, T)
  BY DEF Surjection
<1> QED BY <1>1, FS_Surjection

LEMMA QuestionIsFinite ==
    ASSUME question \in Assembly!Question
    PROVE  /\ IsFiniteSet(question.terms) /\ Cardinality(question.terms) \in Nat
           /\ IsFiniteSet(question.samples) /\ Cardinality(question.samples) \in Nat
<1>1. question.terms \subseteq Assembly!Reference /\ question.samples \subseteq Linked
  BY DEF Assembly!Question
<1> DEFINE pairs == Linked \X {0, 1}
           f == [p \in pairs |-> [table |-> p[1], exact |-> p[2] = 1]]
<1>3. IsFiniteSet(pairs)
  <2>1. IsFiniteSet({0} \cup {1})
    BY FS_Singleton, FS_AddElement, Zenon
  <2>2. {0, 1} = {0} \cup {1}
    OBVIOUS
  <2> QED BY <2>1, <2>2, AssemblyAssumption, FS_Product
<1>4. Assembly!Reference = {f[p] : p \in pairs}
  <2>1. ASSUME NEW r \in Assembly!Reference
        PROVE  \E p \in pairs : r = f[p]
    <3>1. r.table \in Linked /\ r.exact \in BOOLEAN /\ r = [table |-> r.table, exact |-> r.exact]
      BY DEF Assembly!Reference
    <3>2. CASE r.exact
      <4>1. f[<<r.table, 1>>] = [table |-> r.table, exact |-> TRUE] /\ <<r.table, 1>> \in pairs
        BY <3>1
      <4>2. r.exact = TRUE
        BY <3>1, <3>2
      <4> QED BY <3>1, <4>1, <4>2
    <3>3. CASE ~r.exact
      <4> DEFINE p == <<r.table, 0>>
      <4>1. p \in pairs /\ p[1] = r.table /\ (p[2] = 1) = FALSE
        BY <3>1
      <4>3. f[p] = [table |-> r.table, exact |-> FALSE]
        BY <4>1, Zenon
      <4>2. r.exact = FALSE
        BY <3>1, <3>3
      <4> QED BY <3>1, <4>1, <4>2, <4>3
    <3> QED BY <3>2, <3>3
  <2>2. ASSUME NEW p \in pairs PROVE f[p] \in Assembly!Reference
    BY DEF Assembly!Reference
  <2> HIDE DEF pairs, f
  <2>3. Assembly!Reference \subseteq {f[p] : p \in pairs}
    BY <2>1
  <2>4. {f[p] : p \in pairs} \subseteq Assembly!Reference
    BY <2>2
  <2> QED BY <2>3, <2>4
<1>5. IsFiniteSet(Assembly!Reference)
  <2> HIDE DEF pairs, f
  <2> QED BY <1>3, <1>4, ImageIsNoLarger
<1>6. IsFiniteSet(question.terms) /\ IsFiniteSet(question.samples)
  BY <1>1, <1>5, AssemblyAssumption, FS_Subset
<1> QED BY <1>6, FS_CardinalityType

LEMMA AllowanceFits ==
    ASSUME question \in Assembly!Question
    PROVE  /\ Allowance("search") = 0
           /\ Allowance("load") = MaxTables /\ Allowance("glossary") = MaxTables
           /\ Allowance("expand") = Allowance("glossary") + Cardinality(question.terms)
           /\ Allowance("samples") = Allowance("expand") + MaxExtra
           /\ Allowance("relationships") = Allowance("samples") + Cardinality(question.samples)
           /\ Allowance("done") = Allowance("relationships")
           /\ \A s \in Stages : Allowance(s) \in Nat
BY QuestionIsFinite, AssemblyAssumption DEF Allowance, Stages

\* Each id adds one entry.
LEMMA EntriesGrow ==
    ASSUME NEW list \in [Assembly!Ids -> Nat], NEW n \in Nat, Within(list, n),
           NEW ids \in SUBSET Assembly!Ids, IsFiniteSet(ids),
           NEW m \in Nat, Cardinality(ids) <= m,
           NEW longer, longer = [id \in Assembly!Ids |-> list[id] + (IF id \in ids THEN 1 ELSE 0)]
    PROVE  Within(longer, n + m)
<1> DEFINE f == [id \in ids |-> <<id, list[id] + 1>>]
           added == {f[id] : id \in ids}
<1>1. IsFiniteSet(added) /\ Cardinality(added) <= Cardinality(ids)
  <2> HIDE DEF f
  <2> QED BY ImageIsNoLarger
<1>2. EntriesOf(longer) \subseteq EntriesOf(list) \cup added
  <2>1. SUFFICES ASSUME NEW id \in Assembly!Ids, NEW k \in 1..longer[id],
                        <<id, k>> \notin EntriesOf(list)
                 PROVE  <<id, k>> \in added
    BY DEF EntriesOf
  <2>2. k \notin 1..list[id]
    BY <2>1 DEF EntriesOf
  <2>3. id \in ids /\ k = list[id] + 1
    BY <2>2
  <2> QED BY <2>3
<1>3. Cardinality(added) \in Nat /\ Cardinality(ids) \in Nat /\ Cardinality(EntriesOf(list)) \in Nat
  BY <1>1, FS_CardinalityType DEF Within
<1> DEFINE both == EntriesOf(list) \cup added
<1>4. IsFiniteSet(both) /\ Cardinality(both) <= Cardinality(EntriesOf(list)) + Cardinality(added)
  <2>1. Cardinality(EntriesOf(list) \cap added) \in Nat
    BY <1>1, FS_Intersection, FS_CardinalityType DEF Within
  <2>2. IsFiniteSet(both) /\ Cardinality(both)
            = Cardinality(EntriesOf(list)) + Cardinality(added) - Cardinality(EntriesOf(list) \cap added)
    BY <1>1, FS_Union DEF Within
  <2> HIDE DEF both, added
  <2> QED BY <1>3, <2>1, <2>2
<1>5. IsFiniteSet(EntriesOf(longer)) /\ Cardinality(EntriesOf(longer)) <= Cardinality(both)
  BY <1>2, <1>4, FS_Subset
<1>6. Cardinality(EntriesOf(longer)) \in Nat /\ Cardinality(both) \in Nat
  BY <1>4, <1>5, FS_CardinalityType
<1> HIDE DEF added, both
<1> QED BY <1>1, <1>3, <1>4, <1>5, <1>6 DEF Within

\* A cut keeps no more than its limit.
LEMMA TopIsSmall ==
    ASSUME NEW candidates, IsFiniteSet(candidates), NEW score, NEW n \in Nat,
           NEW top \in Assembly!TopSets(candidates, score, n)
    PROVE  top \subseteq candidates /\ IsFiniteSet(top) /\ Cardinality(top) <= n
<1>1. top \subseteq candidates
      /\ Cardinality(top) = (IF Cardinality(candidates) < n THEN Cardinality(candidates) ELSE n)
  BY SameCardinality DEF Assembly!TopSets, Assembly!kSubset
<1>2. Cardinality(candidates) \in Nat
  BY FS_CardinalityType
<1> QED BY <1>1, <1>2, FS_Subset

LEMMA IdsOfNow ==
    ASSUME AssemblyTypes, NEW ts \in SUBSET Linked
    PROVE  LET ids == Assembly!Now(ts) IN
           /\ ids \subseteq Assembly!Ids /\ IsFiniteSet(ids) /\ Cardinality(ids) <= Cardinality(ts)
           /\ \A id \in ids : id[1] \in ts /\ id[2] = generation
           /\ \A t \in ts : <<t, generation>> \in ids
<1> DEFINE f == [t \in ts |-> <<t, generation>>]
<1>1. Assembly!Now(ts) = {f[t] : t \in ts}
  BY DEF Assembly!Now
<1>2. IsFiniteSet(ts)
  BY AssemblyAssumption, FS_Subset
<1>3. IsFiniteSet(Assembly!Now(ts)) /\ Cardinality(Assembly!Now(ts)) <= Cardinality(ts)
  <2> HIDE DEF f
  <2> QED BY <1>1, <1>2, ImageIsNoLarger
<1>4. Assembly!Now(ts) \subseteq Assembly!Ids
  BY DEF Assembly!Now, Assembly!Ids, AssemblyTypes
<1> QED BY <1>3, <1>4 DEF Assembly!Now

\* A stage that lists more keeps what is listed.
LEMMA ListGrows ==
    ASSUME AssemblyTypes, IdsWereGiven, UNCHANGED <<question, fks, generation>>,
           NEW ids \in SUBSET Assembly!Ids, \A id \in ids : id[2] = generation,
           context' = Assembly!With(ids)
    PROVE  /\ context' \in [Assembly!Ids -> Nat] /\ IdsWereGiven'
           /\ \A id \in Assembly!Ids : context'[id] = context[id] + (IF id \in ids THEN 1 ELSE 0)
           /\ Assembly!Names \subseteq Assembly!Names'
           /\ \A id \in ids : id[1] \in Assembly!Names'
<1>1. context \in [Assembly!Ids -> Nat] /\ generation \in {0, 1}
  BY DEF AssemblyTypes, Assembly!Generations
<1>2. context' = [id \in Assembly!Ids |-> context[id] + (IF id \in ids THEN 1 ELSE 0)]
  BY DEF Assembly!With
<1>3. context' \in [Assembly!Ids -> Nat]
      /\ \A id \in Assembly!Ids : context'[id] = context[id] + (IF id \in ids THEN 1 ELSE 0)
  BY <1>1, <1>2
<1>4. \A id \in Assembly!Ids : (context[id] > 0 \/ id \in ids) => context'[id] > 0
  BY <1>1, <1>3
<1>5. \A id \in Assembly!Ids : context'[id] > 0 => context[id] > 0 \/ id \in ids
  BY <1>1, <1>3
<1>6. IdsWereGiven'
  <2>1. ASSUME NEW id \in Assembly!Ids, context'[id] > 0 PROVE id[2] <= generation
    BY <1>1, <1>5, <2>1 DEF IdsWereGiven
  <2> QED BY <2>1 DEF IdsWereGiven
<1>7. Assembly!Listed \subseteq Assembly!Listed' /\ ids \subseteq Assembly!Listed'
  BY <1>4 DEF Assembly!Listed
<1> QED BY <1>3, <1>6, <1>7 DEF Assembly!Names

LEMMA GrowsWithin ==
    ASSUME AssemblyTypes, NEW n \in Nat, Within(context, n),
           NEW ids \in SUBSET Assembly!Ids, IsFiniteSet(ids),
           NEW m \in Nat, Cardinality(ids) <= m, context' = Assembly!With(ids)
    PROVE  Within(context', n + m)
BY EntriesGrow DEF Assembly!With, AssemblyTypes

LEMMA AssemblyInit ==
    ASSUME question \in Assembly!Question, fks \in SUBSET (Linked \X Linked), Assembly!Init
    PROVE  AssemblyInv
<1>1. EntriesOf(context) = {}
  BY DEF Assembly!Init, EntriesOf
<1>2. Within(context, Allowance(stage))
  BY <1>1, AllowanceFits, FS_EmptySet DEF Within, Assembly!Init
<1>3. AssemblyTypes
  BY DEF AssemblyTypes, Assembly!Init, Assembly!Generations, Stages
<1>4. NothingListed /\ IdsWereGiven /\ NamedAreListed
  BY DEF NothingListed, IdsWereGiven, NamedAreListed, Assembly!Init
<1>5. Assembly!NoTableTwice /\ Assembly!JoinsCovered
  BY DEF Assembly!NoTableTwice, Assembly!JoinsCovered, Assembly!Init
<1> QED BY <1>2, <1>3, <1>4, <1>5 DEF AssemblyInv

LEMMA SearchFits ==
    ASSUME AssemblyInv, Assembly!Search
    PROVE  AssemblyInv'
<1>1. stage = "search" /\ stage' = "load" /\ UNCHANGED <<question, fks, generation>>
  BY DEF Assembly!Search, Assembly!Proceed
<1>2. AssemblyTypes /\ IdsWereGiven /\ \A id \in Assembly!Ids : context[id] = 0
  BY <1>1 DEF AssemblyInv, NothingListed
<1>3. PICK top \in SUBSET Linked : /\ Cardinality(top) <= MaxTables
                                   /\ context' = Assembly!With(Assembly!Now(top))
  <2>1. PICK similar \in {{}} \cup Assembly!TopSets(Assembly!Found, Assembly!Similarity, MaxVector) :
            LET scored == similar \cup {t \in Linked : Assembly!KeywordScore(t) > 0} IN
            \E boosting \in Assembly!TopSets(scored, Assembly!FinalScore(similar, {}), MaxBoosting) :
                LET related == Assembly!Neighbours(boosting) IN
                \E top \in Assembly!TopSets(scored \cup related,
                                            Assembly!FinalScore(similar, related), MaxTables) :
                    context' = Assembly!With(Assembly!Now(top))
    BY DEF Assembly!Search
  <2> DEFINE scored == similar \cup {t \in Linked : Assembly!KeywordScore(t) > 0}
  <2>2. PICK boosting \in Assembly!TopSets(scored, Assembly!FinalScore(similar, {}), MaxBoosting) :
            \E top \in Assembly!TopSets(scored \cup Assembly!Neighbours(boosting),
                            Assembly!FinalScore(similar, Assembly!Neighbours(boosting)), MaxTables) :
                context' = Assembly!With(Assembly!Now(top))
    BY <2>1
  <2> DEFINE related == Assembly!Neighbours(boosting)
             score == Assembly!FinalScore(similar, related)
  <2>3. PICK top \in Assembly!TopSets(scored \cup related, score, MaxTables) :
            context' = Assembly!With(Assembly!Now(top))
    BY <2>2
  <2>4. similar \subseteq Linked
    <3>1. Assembly!Found \subseteq Linked
      BY DEF Assembly!Found
    <3> QED BY <3>1 DEF Assembly!TopSets, Assembly!kSubset
  <2>5. related \subseteq Linked
    <3>1. fks \subseteq Linked \X Linked
      BY <1>2 DEF AssemblyTypes
    <3> QED BY <3>1 DEF Assembly!Neighbours
  <2> DEFINE candidates == scored \cup related
  <2>6. candidates \subseteq Linked
    BY <2>4, <2>5
  <2> HIDE DEF score, candidates
  <2>7. IsFiniteSet(candidates)
    BY <2>6, AssemblyAssumption, FS_Subset
  <2>8. top \in Assembly!TopSets(candidates, score, MaxTables)
    BY <2>3 DEF candidates
  <2>9. top \subseteq candidates /\ Cardinality(top) <= MaxTables
    BY <2>7, <2>8, TopIsSmall, AssemblyAssumption
  <2> QED BY <2>3, <2>6, <2>9
<1> DEFINE ids == Assembly!Now(top)
<1>4. ids \subseteq Assembly!Ids /\ IsFiniteSet(ids) /\ Cardinality(ids) <= MaxTables
      /\ \A id \in ids : id[2] = generation
  <2>1. Cardinality(top) \in Nat /\ Cardinality(ids) \in Nat
    BY <1>2, AssemblyAssumption, FS_Subset, FS_CardinalityType, IdsOfNow
  <2> QED BY <1>2, <1>3, <2>1, IdsOfNow, AssemblyAssumption
<1> HIDE DEF ids
<1>5. context' = Assembly!With(ids)
  BY <1>3 DEF ids
<1>6. context' \in [Assembly!Ids -> Nat] /\ IdsWereGiven'
      /\ \A id \in Assembly!Ids : context'[id] = context[id] + (IF id \in ids THEN 1 ELSE 0)
  BY <1>1, <1>2, <1>4, <1>5, ListGrows
<1>7. AssemblyTypes'
  BY <1>1, <1>2, <1>6 DEF AssemblyTypes, Stages, Assembly!Ids, Assembly!Question, Assembly!Generations
<1>8. Within(context', Allowance(stage)')
  <2>1. question \in Assembly!Question
    BY <1>2 DEF AssemblyTypes
  <2>2. Within(context, 0)
    BY <1>1, <2>1, AllowanceFits DEF AssemblyInv
  <2>3. Within(context', 0 + MaxTables)
    BY <1>2, <1>4, <1>5, <2>2, GrowsWithin, AssemblyAssumption
  <2>4. Allowance(stage)' = MaxTables
    BY <1>1 DEF Allowance
  <2> QED BY <2>3, <2>4, AssemblyAssumption
<1>9. Assembly!NoTableTwice'
  BY <1>2, <1>6 DEF Assembly!NoTableTwice
<1> QED BY <1>1, <1>6, <1>7, <1>8, <1>9
        DEF AssemblyInv, NothingListed, NamedAreListed, Assembly!JoinsCovered, Within

LEMMA LoadFits ==
    ASSUME AssemblyInv, Assembly!Load
    PROVE  AssemblyInv'
<1>1. stage = "load" /\ stage' = "glossary" /\ UNCHANGED <<question, fks, generation>>
  BY DEF Assembly!Load, Assembly!Proceed
<1>2. AssemblyTypes /\ IdsWereGiven
  BY DEF AssemblyInv
<1>3. context' = [id \in Assembly!Ids |-> IF id[2] = generation THEN context[id] ELSE 0]
  BY DEF Assembly!Load
<1>4. \A id \in Assembly!Ids : context[id] \in Nat /\ context'[id] \in {0, context[id]}
  BY <1>2, <1>3 DEF AssemblyTypes
<1>5. context' \in [Assembly!Ids -> Nat]
  BY <1>3, <1>4
<1>6. AssemblyTypes'
  BY <1>1, <1>2, <1>5 DEF AssemblyTypes, Stages, Assembly!Ids, Assembly!Question, Assembly!Generations
<1>7. IdsWereGiven'
  BY <1>1, <1>2, <1>4 DEF IdsWereGiven
<1>8. Within(context', Allowance(stage)')
  <2>1. EntriesOf(context') \subseteq EntriesOf(context)
    <3>1. \A id \in Assembly!Ids : (1..context'[id]) \subseteq (1..context[id])
      BY <1>4
    <3> QED BY <3>1 DEF EntriesOf
  <2>2. Within(context, MaxTables)
    BY <1>1 DEF AssemblyInv, Allowance
  <2>3. IsFiniteSet(EntriesOf(context)) /\ Cardinality(EntriesOf(context)) <= MaxTables
    BY <2>2 DEF Within
  <2>4. IsFiniteSet(EntriesOf(context')) /\ Cardinality(EntriesOf(context')) <= Cardinality(EntriesOf(context))
    BY <2>1, <2>3, FS_Subset
  <2>5. Cardinality(EntriesOf(context)) \in Nat /\ Cardinality(EntriesOf(context')) \in Nat
    BY <2>3, <2>4, FS_CardinalityType
  <2>6. Allowance(stage)' = MaxTables
    BY <1>1 DEF Allowance
  <2> QED BY <2>3, <2>4, <2>5, <2>6, AssemblyAssumption DEF Within
<1>9. Assembly!NoTableTwice'
  <2>1. Assembly!NoTableTwice
    BY DEF AssemblyInv
  <2> QED BY <1>1, <1>4, <2>1 DEF Assembly!NoTableTwice
<1> QED BY <1>1, <1>6, <1>7, <1>8, <1>9
        DEF AssemblyInv, NothingListed, NamedAreListed, Assembly!JoinsCovered, Within

LEMMA InjectTermsFits ==
    ASSUME AssemblyInv, Assembly!InjectTerms
    PROVE  AssemblyInv'
<1>1. /\ stage = "glossary" /\ stage' = "expand" /\ UNCHANGED <<question, fks, generation>>
      /\ context' = Assembly!With(Assembly!Now(Assembly!MissingTerms))
  BY DEF Assembly!InjectTerms, Assembly!Proceed
<1>2. AssemblyTypes /\ IdsWereGiven /\ question \in Assembly!Question
  BY DEF AssemblyInv, AssemblyTypes
<1> DEFINE missing == Assembly!MissingTerms
           asked == {q \in question.terms : ~q.exact \/ q.table \notin Assembly!Names}
           ids == Assembly!Now(missing)
<1>3. question.terms \subseteq Assembly!Reference
  BY <1>2 DEF Assembly!Question
<1>4. missing \subseteq Linked /\ missing = {r.table : r \in asked}
  BY <1>3 DEF Assembly!MissingTerms, Assembly!Reference
<1>5. Cardinality(missing) <= Cardinality(question.terms)
  <2>1. IsFiniteSet(asked) /\ Cardinality(asked) <= Cardinality(question.terms)
    BY <1>2, QuestionIsFinite, FS_Subset
  <2> DEFINE f == [r \in asked |-> r.table]
  <2>2. missing = {f[r] : r \in asked}
    BY <1>4
  <2>3. IsFiniteSet(missing) /\ Cardinality(missing) <= Cardinality(asked)
    <3> HIDE DEF missing, asked, f
    <3> QED BY <2>1, <2>2, ImageIsNoLarger
  <2>4. Cardinality(missing) \in Nat /\ Cardinality(asked) \in Nat /\ Cardinality(question.terms) \in Nat
    BY <1>2, <2>1, <2>3, QuestionIsFinite, FS_CardinalityType
  <2> HIDE DEF missing, asked
  <2> QED BY <2>1, <2>3, <2>4
<1>6. /\ ids \subseteq Assembly!Ids /\ IsFiniteSet(ids) /\ Cardinality(ids) <= Cardinality(missing)
      /\ \A id \in ids : id[1] \in missing /\ id[2] = generation
      /\ \A t \in missing : <<t, generation>> \in ids
  <2> HIDE DEF missing
  <2> QED BY <1>2, <1>4, IdsOfNow
<1>7. Cardinality(ids) <= Cardinality(question.terms) /\ Cardinality(question.terms) \in Nat
  <2>1. Cardinality(missing) \in Nat /\ Cardinality(ids) \in Nat /\ Cardinality(question.terms) \in Nat
    <3>1. IsFiniteSet(missing)
      BY <1>4, AssemblyAssumption, FS_Subset
    <3> HIDE DEF missing, ids
    <3> QED BY <1>2, <1>6, <3>1, QuestionIsFinite, FS_CardinalityType
  <2> HIDE DEF missing, ids
  <2> QED BY <1>5, <1>6, <2>1
<1>8. context' = Assembly!With(ids)
  BY <1>1
<1> HIDE DEF ids
<1>9. /\ context' \in [Assembly!Ids -> Nat] /\ IdsWereGiven'
      /\ \A id \in Assembly!Ids : context'[id] = context[id] + (IF id \in ids THEN 1 ELSE 0)
      /\ Assembly!Names \subseteq Assembly!Names'
      /\ \A id \in ids : id[1] \in Assembly!Names'
  BY <1>1, <1>2, <1>6, <1>8, ListGrows
<1>10. AssemblyTypes'
  BY <1>1, <1>2, <1>9 DEF AssemblyTypes, Stages, Assembly!Ids, Assembly!Question, Assembly!Generations
<1>11. Within(context', Allowance(stage)')
  <2>1. Within(context, Allowance("glossary")) /\ Allowance("glossary") \in Nat
    BY <1>1, <1>2, AllowanceFits DEF AssemblyInv, Stages
  <2>2. Within(context', Allowance("glossary") + Cardinality(question.terms))
    BY <1>2, <1>6, <1>7, <1>8, <2>1, GrowsWithin
  <2>3. Allowance(stage)' = Allowance("glossary") + Cardinality(question.terms)
    BY <1>1 DEF Allowance
  <2> QED BY <2>2, <2>3
<1>12. NamedAreListed'
  <2>1. {r.table : r \in question.terms} \subseteq Assembly!Names'
    <3>1. ASSUME NEW r \in question.terms PROVE r.table \in Assembly!Names'
      <4>1. CASE r.table \in Assembly!Names
        BY <1>9, <4>1
      <4>2. CASE r.table \notin Assembly!Names
        <5>1. r.table \in missing
          BY <1>4, <4>2
        <5>2. <<r.table, generation>> \in ids
          BY <1>6, <5>1
        <5> QED BY <1>9, <5>2
      <4> QED BY <4>1, <4>2
    <3> QED BY <3>1
  <2> QED BY <1>1, <2>1 DEF NamedAreListed
<1>13. Assembly!NoTableTwice'
  <2>1. ASSUME \A r \in question.terms : r.exact, question.samples \subseteq Lowercase, generation = 0,
               NEW id \in Assembly!Ids
        PROVE  context'[id] <= 1
    <3>1. context[id] \in Nat /\ context[id] <= 1
      BY <1>2, <2>1 DEF AssemblyInv, Assembly!NoTableTwice, AssemblyTypes
    <3>2. CASE id \in ids
      <4>1. id[1] \notin Assembly!Names
        BY <1>4, <1>6, <2>1, <3>2
      <4>2. context[id] = 0
        BY <3>1, <4>1 DEF Assembly!Names, Assembly!Listed
      <4> QED BY <1>9, <4>2
    <3>3. CASE id \notin ids
      BY <1>9, <3>1, <3>3
    <3> QED BY <3>2, <3>3
  <2> QED BY <1>1, <2>1 DEF Assembly!NoTableTwice
<1> QED BY <1>1, <1>9, <1>10, <1>11, <1>12, <1>13
        DEF AssemblyInv, NothingListed, Assembly!JoinsCovered, Within

LEMMA ExpandFits ==
    ASSUME AssemblyInv, Assembly!Expand
    PROVE  AssemblyInv'
<1>1. /\ stage = "expand" /\ stage' = "samples" /\ UNCHANGED <<question, fks, generation>>
  BY DEF Assembly!Expand, Assembly!Proceed
<1>2. AssemblyTypes /\ IdsWereGiven /\ question \in Assembly!Question
  BY DEF AssemblyInv, AssemblyTypes
<1> DEFINE known == {id[1] : id \in {i \in Assembly!Listed : i[2] = generation}}
           reached == UNION {Assembly!Neighbours({t}) : t \in known}
           neighbours == Assembly!Now(reached)
           candidates == {id \in neighbours \ Assembly!Listed : question.of[id[1]].name > 0}
           score == [id \in Assembly!Ids |-> question.of[id[1]].name]
<1>3. PICK extra \in Assembly!TopSets(candidates, score, MaxExtra) : context' = Assembly!With(extra)
  BY DEF Assembly!Expand, Assembly!Extras, Assembly!Unselected
<1>4. reached \subseteq Linked
  <2>1. fks \subseteq Linked \X Linked
    BY <1>2 DEF AssemblyTypes
  <2>2. \A ts : Assembly!Neighbours(ts) \subseteq Linked
    BY <2>1 DEF Assembly!Neighbours
  <2> QED BY <2>2
<1>5. /\ neighbours \subseteq Assembly!Ids /\ IsFiniteSet(neighbours)
      /\ \A id \in neighbours : id[2] = generation
  <2> HIDE DEF reached
  <2> QED BY <1>2, <1>4, IdsOfNow
<1>6. candidates \subseteq neighbours /\ candidates \cap Assembly!Listed = {}
  OBVIOUS
<1> HIDE DEF neighbours, candidates, score
<1>7. IsFiniteSet(candidates)
  BY <1>5, <1>6, FS_Subset
<1>8. extra \subseteq candidates /\ IsFiniteSet(extra) /\ Cardinality(extra) <= MaxExtra
  BY <1>3, <1>7, TopIsSmall, AssemblyAssumption
<1>9. extra \subseteq Assembly!Ids /\ \A id \in extra : id[2] = generation /\ id \notin Assembly!Listed
  BY <1>5, <1>6, <1>8
<1>10. /\ context' \in [Assembly!Ids -> Nat] /\ IdsWereGiven'
       /\ \A id \in Assembly!Ids : context'[id] = context[id] + (IF id \in extra THEN 1 ELSE 0)
       /\ Assembly!Names \subseteq Assembly!Names'
  BY <1>1, <1>2, <1>3, <1>9, ListGrows
<1>11. AssemblyTypes'
  BY <1>1, <1>2, <1>10 DEF AssemblyTypes, Stages, Assembly!Ids, Assembly!Question, Assembly!Generations
<1>12. Within(context', Allowance(stage)')
  <2>1. Within(context, Allowance("expand")) /\ Allowance("expand") \in Nat
    BY <1>1, <1>2, AllowanceFits DEF AssemblyInv, Stages
  <2>2. Within(context', Allowance("expand") + MaxExtra)
    BY <1>2, <1>3, <1>8, <1>9, <2>1, GrowsWithin, AssemblyAssumption
  <2>3. Allowance(stage)' = Allowance("expand") + MaxExtra
    BY <1>1 DEF Allowance
  <2> QED BY <2>2, <2>3
<1>13. NamedAreListed'
  BY <1>1, <1>10 DEF AssemblyInv, NamedAreListed
<1>14. Assembly!NoTableTwice'
  <2>1. ASSUME \A r \in question.terms : r.exact, question.samples \subseteq Lowercase, generation = 0,
               NEW id \in Assembly!Ids
        PROVE  context'[id] <= 1
    <3>1. context[id] \in Nat /\ context[id] <= 1
      BY <1>2, <2>1 DEF AssemblyInv, Assembly!NoTableTwice, AssemblyTypes
    <3>2. id \in extra => context[id] = 0
      BY <1>9, <3>1 DEF Assembly!Listed
    <3> QED BY <1>10, <3>1, <3>2
  <2> QED BY <1>1, <2>1 DEF Assembly!NoTableTwice
<1> QED BY <1>1, <1>10, <1>11, <1>12, <1>13, <1>14
        DEF AssemblyInv, NothingListed, Assembly!JoinsCovered, Within

LEMMA InjectSamplesFits ==
    ASSUME AssemblyInv, Assembly!InjectSamples
    PROVE  AssemblyInv'
<1>1. /\ stage = "samples" /\ stage' = "relationships" /\ UNCHANGED <<question, fks, generation>>
      /\ context' = Assembly!With(Assembly!Now(Assembly!MissingSamples))
  BY DEF Assembly!InjectSamples, Assembly!Proceed
<1>2. AssemblyTypes /\ IdsWereGiven /\ question \in Assembly!Question
  BY DEF AssemblyInv, AssemblyTypes
<1> DEFINE missing == Assembly!MissingSamples
           ids == Assembly!Now(missing)
<1>3. question.samples \subseteq Linked
  BY <1>2 DEF Assembly!Question
<1>4. /\ missing \subseteq question.samples
      /\ \A t \in question.samples : t \in missing <=> t \notin Assembly!Names \/ t \notin Lowercase
  BY DEF Assembly!MissingSamples
<1>5. IsFiniteSet(missing) /\ Cardinality(missing) <= Cardinality(question.samples)
  <2> HIDE DEF missing
  <2> QED BY <1>2, <1>4, QuestionIsFinite, FS_Subset
<1>6. /\ ids \subseteq Assembly!Ids /\ IsFiniteSet(ids) /\ Cardinality(ids) <= Cardinality(missing)
      /\ \A id \in ids : id[1] \in missing /\ id[2] = generation
      /\ \A t \in missing : <<t, generation>> \in ids
  <2>1. missing \subseteq Linked
    BY <1>3, <1>4
  <2> HIDE DEF missing
  <2> QED BY <1>2, <2>1, IdsOfNow
<1> HIDE DEF missing, ids
<1>7. Cardinality(ids) <= Cardinality(question.samples) /\ Cardinality(question.samples) \in Nat
  <2>1. Cardinality(missing) \in Nat /\ Cardinality(ids) \in Nat /\ Cardinality(question.samples) \in Nat
    BY <1>2, <1>5, <1>6, QuestionIsFinite, FS_CardinalityType
  <2> QED BY <1>5, <1>6, <2>1
<1>8. context' = Assembly!With(ids)
  BY <1>1 DEF ids, missing
<1>9. /\ context' \in [Assembly!Ids -> Nat] /\ IdsWereGiven'
      /\ \A id \in Assembly!Ids : context'[id] = context[id] + (IF id \in ids THEN 1 ELSE 0)
      /\ Assembly!Names \subseteq Assembly!Names'
      /\ \A id \in ids : id[1] \in Assembly!Names'
  BY <1>1, <1>2, <1>6, <1>8, ListGrows
<1>10. AssemblyTypes'
  BY <1>1, <1>2, <1>9 DEF AssemblyTypes, Stages, Assembly!Ids, Assembly!Question, Assembly!Generations
<1>11. Within(context', Allowance(stage)')
  <2>1. Within(context, Allowance("samples")) /\ Allowance("samples") \in Nat
    BY <1>1, <1>2, AllowanceFits DEF AssemblyInv, Stages
  <2>2. Within(context', Allowance("samples") + Cardinality(question.samples))
    BY <1>2, <1>6, <1>7, <1>8, <2>1, GrowsWithin
  <2>3. Allowance(stage)' = Allowance("samples") + Cardinality(question.samples)
    BY <1>1 DEF Allowance
  <2> QED BY <2>2, <2>3
<1>12. NamedAreListed'
  <2>1. question.samples \subseteq Assembly!Names'
    <3>1. ASSUME NEW t \in question.samples PROVE t \in Assembly!Names'
      <4>1. CASE t \in Assembly!Names
        BY <1>9, <4>1
      <4>2. CASE t \notin Assembly!Names
        <5>1. <<t, generation>> \in ids
          BY <1>4, <1>6, <4>2
        <5> QED BY <1>9, <5>1
      <4> QED BY <4>1, <4>2
    <3> QED BY <3>1
  <2> QED BY <1>1, <1>9, <2>1 DEF AssemblyInv, NamedAreListed
<1>13. Assembly!NoTableTwice'
  <2>1. ASSUME \A r \in question.terms : r.exact, question.samples \subseteq Lowercase, generation = 0,
               NEW id \in Assembly!Ids
        PROVE  context'[id] <= 1
    <3>1. context[id] \in Nat /\ context[id] <= 1
      BY <1>2, <2>1 DEF AssemblyInv, Assembly!NoTableTwice, AssemblyTypes
    <3>2. CASE id \in ids
      <4>1. id[1] \notin Assembly!Names
        BY <1>4, <1>6, <2>1, <3>2
      <4>2. context[id] = 0
        BY <3>1, <4>1 DEF Assembly!Names, Assembly!Listed
      <4> QED BY <1>9, <4>2
    <3>3. CASE id \notin ids
      BY <1>9, <3>1, <3>3
    <3> QED BY <3>2, <3>3
  <2> QED BY <1>1, <2>1 DEF Assembly!NoTableTwice
<1> QED BY <1>1, <1>9, <1>10, <1>11, <1>12, <1>13
        DEF AssemblyInv, NothingListed, Assembly!JoinsCovered, Within

\* In a catalogue that stayed, a listed name is listed under its only id.
LEMMA RelationshipsFit ==
    ASSUME AssemblyInv, Assembly!ResolveRelationships
    PROVE  AssemblyInv'
<1>1. stage = "relationships" /\ stage' = "done" /\ UNCHANGED <<question, fks, generation, context>>
  BY DEF Assembly!ResolveRelationships, Assembly!Proceed
<1>2. AssemblyTypes /\ IdsWereGiven /\ question \in Assembly!Question
  BY DEF AssemblyInv, AssemblyTypes
<1>3. AssemblyTypes' /\ IdsWereGiven'
  BY <1>1, <1>2 DEF AssemblyTypes, IdsWereGiven, Stages, Assembly!Ids, Assembly!Question,
                    Assembly!Generations
<1>4. Assembly!Names' = Assembly!Names
  BY <1>1 DEF Assembly!Names, Assembly!Listed
<1>5. NamedAreListed' /\ Assembly!NoTableTwice'
  BY <1>1, <1>4 DEF AssemblyInv, NamedAreListed, Assembly!NoTableTwice
<1>6. Within(context', Allowance(stage)')
  <2>1. Allowance(stage)' = Allowance("done") /\ Allowance("done") = Allowance("relationships")
    <3>1. Allowance(stage)' = Allowance("done")
      BY <1>1 DEF Allowance
    <3> QED BY <1>2, <3>1, AllowanceFits
  <2> QED BY <1>1, <2>1 DEF AssemblyInv
<1>7. Assembly!JoinsCovered'
  <2>0. Assembly!AreSeveral(Assembly!Listed)' <=> Assembly!AreSeveral(Assembly!Listed)
    BY <1>1 DEF Assembly!AreSeveral, Assembly!Listed
  <2>1. SUFFICES ASSUME generation = 0, NEW p \in fks, {p[1], p[2]} \subseteq Assembly!Names,
                        p[1] # p[2] \/ Assembly!AreSeveral(Assembly!Listed)
                 PROVE  <<<<p[1], 0>>, <<p[2], 0>>>> \in joins'
    BY <1>1, <1>4, <2>0 DEF Assembly!JoinsCovered
  <2>2. \A t \in Assembly!Names : <<t, 0>> \in Assembly!Listed
    <3>1. SUFFICES ASSUME NEW id \in Assembly!Listed PROVE id = <<id[1], 0>>
      BY DEF Assembly!Names
    <3>2. id \in Assembly!Ids /\ context[id] > 0
      BY DEF Assembly!Listed
    <3>3. id[2] \in {0, 1} /\ id[2] <= 0 /\ id = <<id[1], id[2]>>
      BY <1>2, <2>1, <3>2 DEF IdsWereGiven, Assembly!Ids, Assembly!Generations
    <3> QED BY <3>3
  <2>3. p \in Linked \X Linked /\ p = <<p[1], p[2]>>
    BY <1>2 DEF AssemblyTypes
  <2>4. <<p[1], 0>> \in Assembly!Now(Linked) /\ <<p[2], 0>> \in Assembly!Now(Linked)
    BY <2>1, <2>3 DEF Assembly!Now
  <2>5. <<p[1], 0>> \in Assembly!FinalIds /\ <<p[2], 0>> \in Assembly!FinalIds
    BY <2>1, <2>2 DEF Assembly!FinalIds
  <2>8. Assembly!AreSeveral(Assembly!FinalIds)
    <3>1. CASE p[1] # p[2]
      <4>1. <<p[1], 0>> # <<p[2], 0>>
        BY <3>1
      <4> QED BY <2>5, <4>1 DEF Assembly!AreSeveral
    <3>2. CASE p[1] = p[2]
      BY <2>1, <3>2 DEF Assembly!FinalIds
    <3> QED BY <3>1, <3>2
  <2> DEFINE q == <<<<p[1], 0>>, <<p[2], 0>>>>
  <2>6. q \in Assembly!Now(Linked) \X Assembly!Now(Linked) /\ <<q[1][1], q[2][1]>> = p
        /\ q[1] \in Assembly!FinalIds /\ q[2] \in Assembly!FinalIds
    BY <2>3, <2>4, <2>5
  <2> HIDE DEF q
  <2>7. q \in joins'
    BY <2>6, <2>8 DEF Assembly!ResolveRelationships
  <2> QED BY <2>7 DEF q
<1> QED BY <1>1, <1>3, <1>5, <1>6, <1>7 DEF AssemblyInv, NothingListed, Within

LEMMA ReintrospectFits ==
    ASSUME AssemblyInv, Assembly!Reintrospect
    PROVE  AssemblyInv'
<1>1. generation = 0 /\ generation' = 1 /\ UNCHANGED <<question, fks, stage, context, joins>>
  BY DEF Assembly!Reintrospect
<1>2. AssemblyTypes /\ IdsWereGiven
  BY DEF AssemblyInv
<1>3. AssemblyTypes'
  BY <1>1, <1>2 DEF AssemblyTypes, Stages, Assembly!Ids, Assembly!Question, Assembly!Generations
<1>4. IdsWereGiven'
  BY <1>1, <1>2 DEF IdsWereGiven, Assembly!Ids, Assembly!Generations
<1>5. Assembly!Names' = Assembly!Names
  BY <1>1 DEF Assembly!Names, Assembly!Listed
<1>6. NothingListed' /\ NamedAreListed'
  BY <1>1, <1>5 DEF AssemblyInv, NothingListed, NamedAreListed
<1>7. Within(context', Allowance(stage)')
  BY <1>1 DEF AssemblyInv, Allowance
<1>8. Assembly!NoTableTwice' /\ Assembly!JoinsCovered'
  BY <1>1 DEF Assembly!NoTableTwice, Assembly!JoinsCovered
<1> QED BY <1>3, <1>4, <1>6, <1>7, <1>8 DEF AssemblyInv, Within

LEMMA AssemblyStep == AssemblyInv /\ [Assembly!Next]_assemblyVars => AssemblyInv'
<1> SUFFICES ASSUME AssemblyInv, [Assembly!Next]_assemblyVars
             PROVE  AssemblyInv'
  OBVIOUS
<1>1. CASE UNCHANGED assemblyVars
  <2>1. UNCHANGED <<question, fks, generation, stage, context, joins>>
    BY <1>1 DEF assemblyVars
  <2>2. Assembly!Names' = Assembly!Names
    BY <2>1 DEF Assembly!Names, Assembly!Listed
  <2>3. AssemblyTypes' /\ NothingListed' /\ IdsWereGiven' /\ NamedAreListed'
    BY <2>1, <2>2 DEF AssemblyInv, AssemblyTypes, NothingListed, IdsWereGiven, NamedAreListed
  <2>4. Within(context', Allowance(stage)')
    BY <2>1 DEF AssemblyInv, Allowance
  <2>5. Assembly!AreSeveral(Assembly!Listed)' <=> Assembly!AreSeveral(Assembly!Listed)
    BY <2>1 DEF Assembly!AreSeveral, Assembly!Listed
  <2>6. Assembly!NoTableTwice'
    BY <2>1 DEF AssemblyInv, Assembly!NoTableTwice
  <2>7. Assembly!JoinsCovered'
    BY <2>1, <2>2, <2>5 DEF AssemblyInv, Assembly!JoinsCovered
  <2> QED BY <2>3, <2>4, <2>6, <2>7 DEF AssemblyInv, Within
<1> QED BY <1>1, SearchFits, LoadFits, InjectTermsFits, ExpandFits, InjectSamplesFits,
           RelationshipsFit, ReintrospectFits DEF Assembly!Next

LEMMA AssemblyInvIsComplete == AssemblyInv => ContextIsComplete
<1> SUFFICES ASSUME AssemblyInv PROVE ContextIsComplete
  OBVIOUS
<1>1. question \in Assembly!Question /\ stage \in Stages
  BY DEF AssemblyInv, AssemblyTypes
<1>2. Assembly!NamedTablesPresent
  BY DEF AssemblyInv, NamedAreListed, Assembly!NamedTablesPresent
<1>3. Assembly!SizeIsBounded
  <2>1. Assembly!Cardinality(Assembly!Entries) = Cardinality(EntriesOf(context))
        /\ Assembly!Cardinality(question.terms) = Cardinality(question.terms)
        /\ Assembly!Cardinality(question.samples) = Cardinality(question.samples)
    BY SameCardinality DEF EntriesOf, Assembly!Entries
  <2>2. Cardinality(question.terms) \in Nat /\ Cardinality(question.samples) \in Nat
    BY <1>1, QuestionIsFinite
  <2>3. Allowance(stage) \in Nat
        /\ Allowance(stage) <= MaxTables + MaxExtra + Cardinality(question.terms)
                                 + Cardinality(question.samples)
    <3>1. Allowance(stage) <= MaxTables + MaxExtra + Cardinality(question.terms)
                                 + Cardinality(question.samples)
      BY <2>2, AssemblyAssumption DEF Allowance
    <3> QED BY <1>1, <3>1, AllowanceFits
  <2>4. Cardinality(EntriesOf(context)) \in Nat /\ Cardinality(EntriesOf(context)) <= Allowance(stage)
    BY FS_CardinalityType DEF AssemblyInv, Within
  <2>5. Cardinality(EntriesOf(context)) <= MaxTables + MaxExtra + Cardinality(question.terms)
                                              + Cardinality(question.samples)
    BY <2>2, <2>3, <2>4, AssemblyAssumption
  <2> QED BY <2>1, <2>5 DEF Assembly!SizeIsBounded
<1> QED BY <1>2, <1>3 DEF AssemblyInv, ContextIsComplete

\* Whatever a question finds, however scores tie, and whenever the catalogue is read anew:
\* its context has no table twice, every table that its terms and samples name, no more than
\* the limits allow, and, where there are two tables or more, every join that their foreign
\* keys give (semantic/context_builder.py: build_context; semantic/schema_linker.py:
\* find_relevant_tables).
THEOREM ContextsAreComplete == AssemblySpec => []ContextIsComplete
<1>1. question \in Assembly!Question /\ fks \in SUBSET (Linked \X Linked) /\ Assembly!Init => AssemblyInv
  BY AssemblyInit
<1> QED BY <1>1, AssemblyStep, AssemblyInvIsComplete, PTL DEF AssemblySpec
=============================================================================

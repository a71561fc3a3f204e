-------------------------- MODULE EmbeddingsProofs --------------------------
(***************************************************************************)
(* Proofs about Embeddings: for any tasks, texts, rows and restarts; and   *)
(* about Wording: for any document, dictionary, joins and reply.           *)
(***************************************************************************)
EXTENDS Wording, FiniteSetTheorems, WellFoundedInduction, SequenceTheorems, TLAPS

\* The tasks that count in the record and are not done, ...
Working(r) == ~r.script /\ r.pc \in Phases \cup {"commit"}

\* ... those with the term still to count, and those with the table as well.
Once == {t \in Tasks : Working(task[t]) /\ task[t].pc \notin {"flushTerms", "commit"}}
Twice == {t \in Tasks : Working(task[t]) /\ task[t].pc \in {"tables", "embedTables"}}

\* However many tasks share the record, each of them counts each kind once.
RecordCounts ==
    progress # Null =>
        progress.completed + Cardinality(Once) + Cardinality(Twice) <= 2 * Cardinality(Tasks)

\* Who made the record say "completed" will commit, or else fail and say so.
SoonTrue ==
    progress # Null /\ progress.status = "completed" => done \/ \E t \in Tasks : Working(task[t])

\* The rows a task r has written are there, and locked: nobody replaces them.
Locked(r) ==
    \A w \in r.written :
        /\ rows[w.kind] # Null /\ rows[w.kind].id = w.id
        /\ w.kind = "term" => admin = Null
        /\ w.kind = "table" => introspection = "none"

\* What a task r holds of the term is of its present text.
Current(id, text) ==
    rows["term"] # Null /\ rows["term"].id = id => rows["term"].text = text
UpToDate(r) ==
    /\ \A l \in r.loaded : l.kind = "term" => Current(l.row.id, l.row.text)
    /\ \A w \in r.made \cup r.written : w.kind = "term" => Current(w.id, w.vector)

Fits(r) == Locked(r) /\ (excused \/ UpToDate(r))
TasksFit == \A t \in Tasks : Fits(task[t])

RowsAreTrue == rows["table"] # Null /\ StaleOnlyByRace /\ TasksFit
RecordIsTrue == RecordAddsUp /\ RecordCounts /\ SoonTrue

EmbeddingsInv == TypeOK /\ RecordIsTrue /\ RowsAreTrue

-----------------------------------------------------------------------------
(* Tasks and rows *)

LEMMA IdleIs ==
    /\ Idle \in Task /\ Idle.pc = "idle" /\ ~Idle.script
    /\ Idle.loaded = {} /\ Idle.made = {} /\ Idle.written = {}
BY DEF Idle, Task

LEMMA TaskGoes ==
    ASSUME NEW r \in Task, NEW next \in {"idle", "count", "commit"} \cup Phases
    PROVE  LET n == [r EXCEPT !.pc = next]
           IN  /\ n \in Task /\ n.pc = next /\ n.script = r.script
               /\ n.loaded = r.loaded /\ n.made = r.made /\ n.written = r.written
BY DEF Task

LEMMA TaskLoads ==
    ASSUME NEW r \in Task, NEW next \in Phases, NEW loaded \in SUBSET [kind: Kinds, row: Row]
    PROVE  LET n == [r EXCEPT !.pc = next, !.loaded = loaded]
           IN  /\ n \in Task /\ n.pc = next /\ n.script = r.script
               /\ n.loaded = loaded /\ n.made = r.made /\ n.written = r.written
BY DEF Task

LEMMA TaskMakes ==
    ASSUME NEW r \in Task, NEW next \in Phases, NEW made \in SUBSET Write
    PROVE  LET n == [r EXCEPT !.pc = next, !.loaded = {}, !.made = made]
           IN  /\ n \in Task /\ n.pc = next /\ n.script = r.script
               /\ n.loaded = {} /\ n.made = made /\ n.written = r.written
BY DEF Task

LEMMA TaskWrites ==
    ASSUME NEW r \in Task, NEW next \in Phases \cup {"commit"}, NEW written \in SUBSET Write
    PROVE  LET n == [r EXCEPT !.pc = next, !.made = {}, !.written = written]
           IN  /\ n \in Task /\ n.pc = next /\ n.script = r.script
               /\ n.loaded = r.loaded /\ n.made = {} /\ n.written = written
BY DEF Task

LEMMA IdleFits == Fits(Idle)
BY IdleIs DEF Fits, Locked, UpToDate

\* A row with another vector.
LEMMA RowIsEmbedded ==
    ASSUME NEW row \in Row, NEW vector \in AllTexts \cup {Null}
    PROVE  LET n == [row EXCEPT !.vector = vector]
           IN  n \in Row /\ n # Null /\ n.id = row.id /\ n.text = row.text /\ n.vector = vector
BY NullAssumption DEF Row

LEMMA NewRowIs ==
    ASSUME NEW text \in AllTexts, NEW id \in 1..MaxRows
    PROVE  NewRow(text, id) \in Row /\ NewRow(text, id) # Null /\ NewRow(text, id).vector = Null
BY NullAssumption DEF NewRow, Row

\* What a task has written is locked for the others, and what a request has is
\* locked for the tasks.
LEMMA TaskLocks ==
    ASSUME NEW o, NEW t \in Tasks, t # o, NEW w \in task[t].written
    PROVE  w.kind \in LockedFor(o)
<1>1. w.kind \in WrittenBy(t)
  BY DEF WrittenBy
<1>2. WrittenBy(t) \in {WrittenBy(u) : u \in Tasks \ {o}}
  OBVIOUS
<1>3. w.kind \in UNION {WrittenBy(u) : u \in Tasks \ {o}}
  BY <1>1, <1>2
<1> QED
  BY <1>3 DEF LockedFor

LEMMA RequestLocks ==
    ASSUME NEW t \in Tasks
    PROVE  /\ introspection # "none" => "table" \in LockedFor(t)
           /\ admin # Null => "term" \in LockedFor(t)
<1>1. t # "admin" /\ t # "introspection"
  BY TasksAssumption
<1> QED
  BY <1>1 DEF LockedFor

\* What is known of the record after a step that leaves it, while tasks only go on.
LEMMA RecordStays ==
    ASSUME EmbeddingsInv, task' \in [Tasks -> Task], UNCHANGED progress,
           Once' \subseteq Once, Twice' \subseteq Twice,
           done' \/ (done' = done /\ \A t \in Tasks : Working(task[t]) => Working(task'[t]))
    PROVE  RecordIsTrue' /\ (progress \in Progress \cup {Null})'
<1>1. IsFiniteSet(Once) /\ IsFiniteSet(Twice)
  BY TasksAssumption, FS_Subset DEF Once, Twice
<1>2. /\ Cardinality(Once') <= Cardinality(Once) /\ Cardinality(Twice') <= Cardinality(Twice)
      /\ Cardinality(Once) \in Nat /\ Cardinality(Twice) \in Nat
      /\ Cardinality(Once') \in Nat /\ Cardinality(Twice') \in Nat
  BY <1>1, FS_Subset, FS_CardinalityType
<1>3. Cardinality(Tasks) \in Nat
  BY TasksAssumption, FS_CardinalityType
<1>4. progress # Null => progress.completed \in Nat
  BY DEF EmbeddingsInv, TypeOK, Progress
<1>5. RecordCounts'
  BY <1>2, <1>3, <1>4 DEF EmbeddingsInv, RecordIsTrue, RecordCounts
<1>6. RecordAddsUp' /\ SoonTrue'
  BY DEF EmbeddingsInv, RecordIsTrue, RecordAddsUp, SoonTrue
<1> QED
  BY <1>5, <1>6 DEF EmbeddingsInv, TypeOK, RecordIsTrue

\* What is known of rows and tasks after a step of task t that leaves the rows.
LEMMA OneTask ==
    ASSUME EmbeddingsInv, NEW t \in Tasks, NEW r \in Task, task' = [task EXCEPT ![t] = r], Fits(r),
           UNCHANGED <<rows, admin, excused>>, introspection # "none" \/ UNCHANGED introspection
    PROVE  /\ task' \in [Tasks -> Task] /\ RowsAreTrue'
           /\ task'[t] = r /\ \A u \in Tasks \ {t} : task'[u] = task[u]
<1>1. /\ task' \in [Tasks -> Task]
      /\ task'[t] = r /\ \A u \in Tasks \ {t} : task'[u] = task[u]
  BY DEF EmbeddingsInv, TypeOK
<1>2. ASSUME NEW u \in Tasks
      PROVE  Fits(task[u])'
  <2>1. Fits(task'[u])
    BY <1>1 DEF EmbeddingsInv, RowsAreTrue, TasksFit
  <2>2. Locked(task[u])' /\ (UpToDate(task'[u]) => UpToDate(task[u])')
    BY <2>1 DEF Fits, Locked, UpToDate, Current
  <2> QED
    BY <2>1, <2>2 DEF Fits
<1>3. (rows["table"] # Null /\ StaleOnlyByRace)'
  BY DEF EmbeddingsInv, RowsAreTrue, StaleOnlyByRace
<1> QED
  BY <1>1, <1>2, <1>3 DEF RowsAreTrue, TasksFit

\* A step of one task, as far as tasks are counted.
LEMMA OneCounted ==
    ASSUME EmbeddingsInv, NEW t \in Tasks, NEW r \in Task, task' = [task EXCEPT ![t] = r],
           Working(r) => Working(task[t]),
           Working(r) /\ r.pc \notin {"flushTerms", "commit"} =>
             task[t].pc \notin {"flushTerms", "commit"},
           Working(r) /\ r.pc \in {"tables", "embedTables"} => task[t].pc \in {"tables", "embedTables"}
    PROVE  Once' \subseteq Once /\ Twice' \subseteq Twice
BY DEF EmbeddingsInv, TypeOK, Once, Twice

\* A step of one task that leaves all else, but for a catalogue that is being replaced.
LEMMA QuietTask ==
    ASSUME EmbeddingsInv, NEW t \in Tasks, NEW r \in Task, task' = [task EXCEPT ![t] = r], Fits(r),
           UNCHANGED <<rows, admin, progress, done, excused>>,
           introspection # "none" \/ UNCHANGED introspection,
           introspection' \in {"none", "deleted", "launched"},
           Working(r) <=> Working(task[t]),
           Working(r) /\ r.pc \notin {"flushTerms", "commit"} =>
             task[t].pc \notin {"flushTerms", "commit"},
           Working(r) /\ r.pc \in {"tables", "embedTables"} => task[t].pc \in {"tables", "embedTables"}
    PROVE  EmbeddingsInv'
<1>1. /\ task' \in [Tasks -> Task] /\ RowsAreTrue'
      /\ task'[t] = r /\ \A u \in Tasks \ {t} : task'[u] = task[u]
  BY OneTask
<1>2. Once' \subseteq Once /\ Twice' \subseteq Twice
  BY OneCounted
<1>3. \A u \in Tasks : Working(task[u]) => Working(task'[u])
  BY <1>1
<1>4. RecordIsTrue'
  BY <1>1, <1>2, <1>3, RecordStays
<1>5. TypeOK'
  BY <1>1 DEF EmbeddingsInv, TypeOK
<1> QED
  BY <1>1, <1>4, <1>5 DEF EmbeddingsInv

\* A step that leaves the tasks and the record.
LEMMA RecordUntouched ==
    ASSUME EmbeddingsInv, UNCHANGED <<task, progress, done>>
    PROVE  RecordIsTrue' /\ (progress \in Progress \cup {Null})' /\ task' \in [Tasks -> Task]
<1>1. task' \in [Tasks -> Task]
  BY DEF EmbeddingsInv, TypeOK
<1>2. Once' = Once /\ Twice' = Twice
  BY DEF Once, Twice
<1> QED
  BY <1>1, <1>2, RecordStays

-----------------------------------------------------------------------------
(* The steps of tasks *)

LEMMA StartsScript == ASSUME EmbeddingsInv, NEW t \in Tasks, StartScript(t) PROVE EmbeddingsInv'
<1> DEFINE r == [Idle EXCEPT !.pc = "tables", !.script = TRUE]
<1>1. /\ task' = [task EXCEPT ![t] = r] /\ task[t].pc = "idle"
      /\ UNCHANGED <<rows, admin, introspection, progress, done, excused>>
  BY DEF StartScript, Goto, At, history
<1>2. r \in Task /\ r.script /\ r.loaded = {} /\ r.made = {} /\ r.written = {}
  BY IdleIs DEF Task, Phases
<1> HIDE DEF r
<1>3. Fits(r)
  BY <1>2 DEF Fits, Locked, UpToDate
<1>4. introspection' \in {"none", "deleted", "launched"}
  BY <1>1 DEF EmbeddingsInv, TypeOK
<1>5. ~Working(r) /\ ~Working(task[t])
  BY <1>1, <1>2 DEF Working, Phases
<1> QED
  BY <1>1, <1>2, <1>3, <1>4, <1>5, QuietTask

LEMMA UnembeddedCount ==
    /\ Unembedded \subseteq Kinds
    /\ Cardinality(Unembedded) \in 0..2
<1>1. IsFiniteSet(Kinds) /\ Cardinality(Kinds) = 2
  <2>1. Kinds = {"table"} \cup {"term"} /\ "term" \notin {"table"}
    BY DEF Kinds
  <2>2. IsFiniteSet({"table"}) /\ Cardinality({"table"}) = 1
    BY FS_Singleton
  <2> QED
    BY <2>1, <2>2, FS_AddElement
<1>2. Unembedded \subseteq Kinds
  BY DEF Unembedded, Present
<1> QED
  BY <1>1, <1>2, FS_Subset, FS_CardinalityType

LEMMA Counts == ASSUME EmbeddingsInv, NEW t \in Tasks, Count(t) PROVE EmbeddingsInv'
<1>1. /\ task[t].pc = "count" /\ introspection' \in {"none", "deleted", "launched"}
      /\ UNCHANGED <<rows, admin, introspection, excused>>
  BY DEF Count, At, EmbeddingsInv, TypeOK
<1>2. ~Working(task[t])
  BY <1>1 DEF Working, Phases
<1>3. CASE Cardinality(Unembedded) = 0
  <2>1. task' = [task EXCEPT ![t] = Idle] /\ UNCHANGED <<progress, done>>
    BY <1>3 DEF Count, Goto
  <2>2. ~Working(Idle)
    BY IdleIs DEF Working, Phases
  <2> QED
    BY <1>1, <1>2, <2>1, <2>2, IdleIs, IdleFits, QuietTask
<1>4. CASE Cardinality(Unembedded) # 0
  <2> DEFINE r == [Idle EXCEPT !.pc = "tables"]
             total == Cardinality(Unembedded)
  <2>1. task' = [task EXCEPT ![t] = r] /\ progress' = Started(total) /\ done' = FALSE
    BY <1>4 DEF Count, Goto
  <2>2. r \in Task /\ r.loaded = {} /\ r.made = {} /\ r.written = {}
    BY IdleIs, TaskGoes DEF Phases
  <2>3. total \in 1..2
    BY <1>4, UnembeddedCount
  <2> HIDE DEF r, total
  <2>4. Fits(r)
    BY <2>2 DEF Fits, Locked, UpToDate
  <2>5. task' \in [Tasks -> Task] /\ RowsAreTrue'
    BY <1>1, <2>1, <2>2, <2>4, OneTask
  <2>6. Cardinality(Tasks) \in Nat
    BY TasksAssumption, FS_CardinalityType
  <2>7. /\ progress' \in Progress /\ progress'.completed = 0 /\ progress'.status = "running"
        /\ progress'.total = total
    BY <2>1, <2>3, <2>6 DEF Started, Progress
  <2>8. Cardinality(Once') + Cardinality(Twice') <= 2 * Cardinality(Tasks)
    <3>1. Once' \subseteq Tasks /\ Twice' \subseteq Tasks
      BY DEF Once, Twice
    <3>2. /\ Cardinality(Once') <= Cardinality(Tasks) /\ Cardinality(Twice') <= Cardinality(Tasks)
          /\ Cardinality(Once') \in Nat /\ Cardinality(Twice') \in Nat
      BY <3>1, TasksAssumption, FS_Subset, FS_CardinalityType
    <3> QED
      BY <2>6, <3>2
  <2>9. RecordIsTrue'
    <3>1. RecordCounts'
      <4>1. Cardinality(Once') \in Nat /\ Cardinality(Twice') \in Nat
        <5>1. Once' \subseteq Tasks /\ Twice' \subseteq Tasks
          BY DEF Once, Twice
        <5> QED
          BY <5>1, TasksAssumption, FS_Subset, FS_CardinalityType
      <4> QED
        BY <2>7, <2>8, <4>1 DEF RecordCounts
    <3>2. RecordAddsUp' /\ SoonTrue'
      BY <2>3, <2>7 DEF RecordAddsUp, SoonTrue
    <3> QED
      BY <3>1, <3>2 DEF RecordIsTrue
  <2>10. TypeOK'
    BY <1>1, <2>1, <2>5, <2>7 DEF EmbeddingsInv, TypeOK
  <2> QED
    BY <2>5, <2>9, <2>10 DEF EmbeddingsInv
<1> QED
  BY <1>3, <1>4

LEMMA Selects == ASSUME EmbeddingsInv, NEW t \in Tasks, Select(t) PROVE EmbeddingsInv'
<1>1. /\ UNCHANGED <<rows, admin, introspection, progress, done, excused>>
      /\ introspection' \in {"none", "deleted", "launched"} /\ task[t] \in Task
      /\ Fits(task[t])
  BY DEF Select, history, EmbeddingsInv, TypeOK, RowsAreTrue, TasksFit
<1>2. ASSUME NEW kind \in Kinds, NEW next \in {"embedTables", "embedTerms"},
             task' = [task EXCEPT ![t] = [task[t] EXCEPT !.pc = next, !.loaded = Loaded(kind)]],
             next = "embedTables" => task[t].pc = "tables",
             next = "embedTerms" => task[t].pc = "terms"
      PROVE  EmbeddingsInv'
  <2> DEFINE r == [task[t] EXCEPT !.pc = next, !.loaded = Loaded(kind)]
  <2>1. Loaded(kind) \in SUBSET [kind: Kinds, row: Row]
    BY DEF Loaded, Unembedded, Present, EmbeddingsInv, TypeOK
  <2>2. /\ r \in Task /\ r.pc = next /\ r.script = task[t].script
        /\ r.loaded = Loaded(kind) /\ r.made = task[t].made /\ r.written = task[t].written
    <3>1. next \in Phases
      BY DEF Phases
    <3> QED
      BY <1>1, <2>1, <3>1 DEF Task
  <2> HIDE DEF r
  <2>3. \A l \in Loaded(kind) : l.kind = "term" => l.row = rows["term"]
    BY DEF Loaded
  <2>4. Fits(r)
    BY <1>1, <2>2, <2>3 DEF Fits, Locked, UpToDate, Current
  <2>5. Working(r) <=> Working(task[t])
    BY <1>2, <2>2 DEF Working, Phases
  <2> QED
    BY <1>1, <1>2, <2>2, <2>4, <2>5, QuietTask DEF r
<1> QED
  BY <1>2 DEF Select, Goto, At, Kinds

\* What the rows are after a transaction that writes rows which are there.
LEMMA UpdatedIs ==
    ASSUME EmbeddingsInv, NEW written \in SUBSET Write, \A w \in written : Writable(w)
    PROVE  /\ Updated(written) \in [Kinds -> Row \cup {Null}]
           /\ \A k \in Kinds :
                /\ rows[k] = Null => Updated(written)[k] = Null
                /\ rows[k] # Null =>
                     /\ Updated(written)[k] # Null
                     /\ Updated(written)[k].id = rows[k].id
                     /\ Updated(written)[k].text = rows[k].text
                     /\ \/ Updated(written)[k].vector = rows[k].vector
                        \/ \E w \in written : w.kind = k /\ Updated(written)[k].vector = w.vector
<1> SUFFICES ASSUME NEW k \in Kinds
             PROVE  /\ Updated(written)[k] \in Row \cup {Null}
                    /\ rows[k] = Null => Updated(written)[k] = Null
                    /\ rows[k] # Null =>
                         /\ Updated(written)[k] # Null
                         /\ Updated(written)[k].id = rows[k].id
                         /\ Updated(written)[k].text = rows[k].text
                         /\ \/ Updated(written)[k].vector = rows[k].vector
                            \/ \E w \in written : w.kind = k /\ Updated(written)[k].vector = w.vector
  BY DEF Updated
<1>1. rows[k] \in Row \cup {Null}
  BY DEF EmbeddingsInv, TypeOK
<1>2. CASE \E w \in written : w.kind = k
  <2> DEFINE w == CHOOSE v \in written : v.kind = k
  <2>1. w \in written /\ w.kind = k
    BY <1>2
  <2>2. Updated(written)[k] = [rows[k] EXCEPT !.vector = w.vector]
    BY <1>2 DEF Updated
  <2> HIDE DEF w
  <2>3. rows[k] # Null /\ w.vector \in AllTexts \cup {Null}
    BY <2>1 DEF Writable, Write
  <2>4. rows[k] \in Row
    BY <1>1, <2>3
  <2> QED
    BY <2>1, <2>2, <2>3, <2>4, RowIsEmbedded
<1>3. CASE ~ \E w \in written : w.kind = k
  <2>1. Updated(written)[k] = rows[k]
    BY <1>3 DEF Updated
  <2> QED
    BY <1>1, <2>1
<1> QED
  BY <1>2, <1>3

\* A transaction that writes true rows, and is task t's, which goes on as r.
LEMMA RowsUpdated ==
    ASSUME EmbeddingsInv, NEW t \in Tasks, NEW r \in Task, task' = [task EXCEPT ![t] = r],
           NEW written \in SUBSET Write, \A w \in written : Writable(w),
           rows' = Updated(written), UNCHANGED <<admin, introspection, excused>>, Fits(r),
           excused \/ \A w \in written : w.kind = "term" => Current(w.id, w.vector)
    PROVE  /\ task' \in [Tasks -> Task] /\ RowsAreTrue' /\ rows' \in [Kinds -> Row \cup {Null}]
           /\ task'[t] = r /\ \A u \in Tasks \ {t} : task'[u] = task[u]
<1>1. /\ task' \in [Tasks -> Task]
      /\ task'[t] = r /\ \A u \in Tasks \ {t} : task'[u] = task[u]
  BY DEF EmbeddingsInv, TypeOK
<1>2. /\ rows' \in [Kinds -> Row \cup {Null}]
      /\ \A k \in Kinds :
           /\ rows[k] = Null => rows'[k] = Null
           /\ rows[k] # Null => /\ rows'[k] # Null
                               /\ rows'[k].id = rows[k].id /\ rows'[k].text = rows[k].text
                               /\ \/ rows'[k].vector = rows[k].vector
                                  \/ \E w \in written : w.kind = k /\ rows'[k].vector = w.vector
  BY UpdatedIs
<1>3. (rows["table"] # Null)'
  BY <1>2 DEF EmbeddingsInv, RowsAreTrue, Kinds
<1>4. StaleOnlyByRace'
  <2> SUFFICES ASSUME ~excused, rows'["term"] # Null, rows'["term"].vector # Null
               PROVE  rows'["term"].vector = rows'["term"].text
    BY DEF StaleOnlyByRace
  <2>1. "term" \in Kinds /\ rows["term"] # Null
    BY <1>2 DEF Kinds
  <2>2. CASE rows'["term"].vector = rows["term"].vector
    BY <1>2, <2>1, <2>2 DEF EmbeddingsInv, RowsAreTrue, StaleOnlyByRace
  <2>3. ASSUME NEW w \in written, w.kind = "term", rows'["term"].vector = w.vector
        PROVE  rows'["term"].vector = rows'["term"].text
    BY <1>2, <2>1, <2>3 DEF Writable, Current
  <2> QED
    BY <1>2, <2>1, <2>2, <2>3
<1>5. ASSUME NEW u \in Tasks
      PROVE  Fits(task[u])'
  <2>1. Fits(task'[u]) /\ task'[u] \in Task
    BY <1>1 DEF EmbeddingsInv, RowsAreTrue, TasksFit
  <2>2. Locked(task[u])'
    <3>1. \A w \in task'[u].written : w.kind \in Kinds
      BY <2>1 DEF Task, Write
    <3> QED
      BY <1>2, <2>1, <3>1 DEF Fits, Locked
  <2>3. UpToDate(task'[u]) => UpToDate(task[u])'
    <3>1. \A id, text : Current(id, text) => Current(id, text)'
      BY <1>2 DEF Current, Kinds
    <3> QED
      BY <3>1 DEF UpToDate
  <2> QED
    BY <2>1, <2>2, <2>3 DEF Fits
<1> QED
  BY <1>1, <1>2, <1>3, <1>4, <1>5 DEF RowsAreTrue, TasksFit

\* An item is counted.
LEMMA ItemCounted ==
    ASSUME NEW p \in Progress, p # Null, p.completed + 1 <= 2 * Cardinality(Tasks),
           p.status = "completed" => p.completed >= p.total
    PROVE  LET n == Incremented(p)
           IN  /\ n \in Progress /\ n.completed = p.completed + 1
               /\ n.status = "running" => n.completed < n.total
               /\ n.status = "completed" => n.completed >= n.total
<1> DEFINE n == Incremented(p)
<1>1. Cardinality(Tasks) \in Nat
  BY TasksAssumption, FS_CardinalityType
<1>2. n = [total |-> p.total, completed |-> p.completed + 1,
           status |-> IF p.completed + 1 >= p.total THEN "completed" ELSE p.status]
  BY DEF Incremented, Progress
<1>3. /\ p.total \in 1..2 /\ p.completed \in 0..(2 * Cardinality(Tasks))
      /\ p.status \in {"running", "completed", "failed"}
  BY DEF Progress
<1> HIDE DEF n
<1>4. p.completed + 1 \in 0..(2 * Cardinality(Tasks))
  BY <1>1, <1>3
<1>5. n \in Progress
  BY <1>2, <1>3, <1>4 DEF Progress
<1>6. n.completed = p.completed + 1 /\ n.total = p.total
  BY <1>2
<1>7. n.status = IF n.completed >= n.total THEN "completed" ELSE p.status
  BY <1>2
<1>8. n.completed \in Int /\ n.total \in Int /\ p.completed \in Int
  BY <1>3, <1>6
<1> QED
  BY <1>3, <1>5, <1>6, <1>7, <1>8 DEF n

LEMMA Embeds == ASSUME EmbeddingsInv, NEW t \in Tasks, Embed(t) PROVE EmbeddingsInv'
<1> DEFINE old == task[t]
           made == {[kind |-> l.kind, id |-> l.row.id, vector |-> l.row.text] : l \in old.loaded}
           r == [old EXCEPT !.pc = Flushing[@], !.loaded = {}, !.made = made]
<1>1. /\ old \in Task /\ old.pc \in {"embedTables", "embedTerms"} /\ Fits(old)
      /\ task' = [task EXCEPT ![t] = r]
      /\ progress' = (IF old.script \/ old.loaded = {} THEN progress ELSE Incremented(progress))
      /\ UNCHANGED <<rows, admin, introspection, done, excused>>
  BY DEF Embed, Goto, history, Flushing, EmbeddingsInv, TypeOK, RowsAreTrue, TasksFit
<1>2. made \in SUBSET Write
  <2> SUFFICES ASSUME NEW l \in old.loaded
               PROVE  [kind |-> l.kind, id |-> l.row.id, vector |-> l.row.text] \in Write
    OBVIOUS
  <2>1. l.kind \in Kinds /\ l.row \in Row
    BY <1>1 DEF Task
  <2> QED
    BY <2>1 DEF Row, Write
<1>3. \A w \in made : w.kind = "term" =>
        \E l \in old.loaded : l.kind = "term" /\ w.id = l.row.id /\ w.vector = l.row.text
  OBVIOUS
<1>4. Flushing[old.pc] = IF old.pc = "embedTables" THEN "flushTables" ELSE "flushTerms"
  BY <1>1 DEF Flushing
<1> HIDE DEF made
<1>5. /\ r \in Task /\ r.script = old.script /\ r.loaded = {} /\ r.made = made
      /\ r.written = old.written
      /\ r.pc = IF old.pc = "embedTables" THEN "flushTables" ELSE "flushTerms"
  BY <1>1, <1>2, <1>4 DEF Task, Phases
<1> HIDE DEF r
<1>6. Fits(r)
  <2>1. Locked(r)
    BY <1>1, <1>5 DEF Fits, Locked
  <2>2. UpToDate(old) => UpToDate(r)
    BY <1>3, <1>5 DEF UpToDate
  <2> QED
    BY <1>1, <2>1, <2>2 DEF Fits
<1>7. /\ task' \in [Tasks -> Task] /\ RowsAreTrue'
      /\ task'[t] = r /\ \A u \in Tasks \ {t} : task'[u] = task[u]
  BY <1>1, <1>5, <1>6, OneTask
<1>8. Working(r) <=> Working(old)
  BY <1>1, <1>5 DEF Working, Phases
<1>9. Once' \subseteq Once /\ Twice' \subseteq Twice
  BY <1>1, <1>5, <1>8, OneCounted
<1>10. \A u \in Tasks : Working(task[u]) => Working(task'[u])
  BY <1>7, <1>8
<1>11. CASE progress' = progress
  <2>1. RecordIsTrue' /\ (progress \in Progress \cup {Null})'
    BY <1>1, <1>7, <1>9, <1>10, <1>11, RecordStays
  <2> QED
    BY <1>1, <1>7, <2>1 DEF EmbeddingsInv, TypeOK
<1>12. CASE progress' # progress
  <2>1. progress # Null /\ progress \in Progress /\ progress' = Incremented(progress) /\ ~old.script
    BY <1>1, <1>12 DEF Incremented, EmbeddingsInv, TypeOK
  <2>2. Working(old)
    BY <1>1, <2>1 DEF Working, Phases
  <2>3. IsFiniteSet(Once) /\ IsFiniteSet(Twice)
    BY TasksAssumption, FS_Subset DEF Once, Twice
  <2>4. /\ Cardinality(Once) \in Nat /\ Cardinality(Twice) \in Nat
        /\ Cardinality(Once') \in Nat /\ Cardinality(Twice') \in Nat
        /\ Cardinality(Once') <= Cardinality(Once) /\ Cardinality(Twice') <= Cardinality(Twice)
        /\ Cardinality(Tasks) \in Nat
    BY <1>9, <2>3, TasksAssumption, FS_Subset, FS_CardinalityType
  <2>5. Cardinality(Once') + Cardinality(Twice') + 1 <= Cardinality(Once) + Cardinality(Twice)
    <3>1. CASE old.pc = "embedTables"
      <4>1. t \in Twice /\ t \notin Twice'
        BY <1>5, <1>7, <2>2, <3>1 DEF Twice
      <4>2. Twice' \subseteq Twice \ {t}
        BY <1>9, <4>1
      <4>3. Cardinality(Twice \ {t}) = Cardinality(Twice) - 1 /\ IsFiniteSet(Twice \ {t})
        BY <2>3, <4>1, FS_RemoveElement
      <4>4. Cardinality(Twice') <= Cardinality(Twice) - 1
        BY <4>2, <4>3, FS_Subset
      <4> QED
        BY <2>4, <4>4
    <3>2. CASE old.pc = "embedTerms"
      <4>1. t \in Once /\ t \notin Once'
        BY <1>5, <1>7, <2>2, <3>2 DEF Once
      <4>2. Once' \subseteq Once \ {t}
        BY <1>9, <4>1
      <4>3. Cardinality(Once \ {t}) = Cardinality(Once) - 1 /\ IsFiniteSet(Once \ {t})
        BY <2>3, <4>1, FS_RemoveElement
      <4>4. Cardinality(Once') <= Cardinality(Once) - 1
        BY <4>2, <4>3, FS_Subset
      <4> QED
        BY <2>4, <4>4
    <3> QED
      BY <1>1, <3>1, <3>2
  <2>6. progress.completed \in Nat
    BY <2>1 DEF Progress
  <2>7. progress.completed + Cardinality(Once) + Cardinality(Twice) <= 2 * Cardinality(Tasks)
    BY <2>1 DEF EmbeddingsInv, RecordIsTrue, RecordCounts
  <2>8. progress.completed + 1 + Cardinality(Once') + Cardinality(Twice') <= 2 * Cardinality(Tasks)
    BY <2>4, <2>5, <2>6, <2>7
  <2>9. progress.completed + 1 <= 2 * Cardinality(Tasks)
    BY <2>4, <2>6, <2>8
  <2>10. progress.status = "completed" => progress.completed >= progress.total
    BY <2>1 DEF EmbeddingsInv, RecordIsTrue, RecordAddsUp
  <2>11. /\ progress' \in Progress /\ progress'.completed = progress.completed + 1
         /\ progress'.status = "running" => progress'.completed < progress'.total
         /\ progress'.status = "completed" => progress'.completed >= progress'.total
    BY <2>1, <2>9, <2>10, ItemCounted
  <2>12. RecordCounts'
    BY <2>8, <2>11 DEF RecordCounts
  <2>13. RecordAddsUp' /\ SoonTrue'
    BY <1>10, <2>2, <2>11 DEF RecordAddsUp, SoonTrue
  <2> QED
    BY <1>1, <1>7, <2>11, <2>12, <2>13 DEF EmbeddingsInv, TypeOK, RecordIsTrue
<1> QED
  BY <1>11, <1>12

LEMMA Flushes == ASSUME EmbeddingsInv, NEW t \in Tasks, Flush(t) PROVE EmbeddingsInv'
<1> DEFINE old == task[t]
<1>1. /\ old \in Task /\ old.pc \in {"flushTables", "flushTerms"} /\ Fits(old)
      /\ old.made \in SUBSET Write /\ \A w \in old.made : Writable(w)
      /\ \A w \in old.made : w.kind \notin LockedFor(t)
      /\ UNCHANGED <<admin, introspection, progress, done, excused>>
      /\ introspection' \in {"none", "deleted", "launched"}
  BY DEF Flush, history, EmbeddingsInv, TypeOK, RowsAreTrue, TasksFit, Task
<1>2. excused \/ \A w \in old.made : w.kind = "term" => Current(w.id, w.vector)
  BY <1>1 DEF Fits, UpToDate
<1>3. CASE old.script
  <2> DEFINE next == [old EXCEPT !.pc = "terms", !.made = {}]
             r == IF old.pc = "flushTables" THEN next ELSE Idle
  <2>1. rows' = Updated(old.made) /\ task' = [task EXCEPT ![t] = r]
    BY <1>3 DEF Flush, Goto
  <2>2. /\ next \in Task /\ next.script /\ next.loaded = old.loaded
        /\ next.made = {} /\ next.written = old.written
    BY <1>1, <1>3 DEF Task, Phases
  <2> HIDE DEF next
  <2>3. Fits(next)
    BY <1>1, <2>2 DEF Fits, Locked, UpToDate
  <2>4. r \in Task /\ Fits(r) /\ ~Working(r)
    BY <2>2, <2>3, IdleIs, IdleFits DEF Working, Phases
  <2> HIDE DEF r
  <2>5. /\ task' \in [Tasks -> Task] /\ RowsAreTrue' /\ rows' \in [Kinds -> Row \cup {Null}]
        /\ task'[t] = r /\ \A u \in Tasks \ {t} : task'[u] = task[u]
    BY <1>1, <1>2, <2>1, <2>4, RowsUpdated
  <2>6. Once' \subseteq Once /\ Twice' \subseteq Twice
    BY <2>1, <2>4, OneCounted
  <2>7. \A u \in Tasks : Working(task[u]) => Working(task'[u])
    BY <1>3, <2>5 DEF Working
  <2>8. RecordIsTrue' /\ (progress \in Progress \cup {Null})'
    BY <1>1, <2>5, <2>6, <2>7, RecordStays
  <2> QED
    BY <1>1, <2>5, <2>8 DEF EmbeddingsInv, TypeOK
<1>4. CASE ~old.script
  <2> DEFINE next == IF old.pc = "flushTables" THEN "terms" ELSE "commit"
             r == [old EXCEPT !.pc = next, !.made = {}, !.written = @ \cup old.made]
  <2>1. UNCHANGED rows /\ task' = [task EXCEPT ![t] = r]
    BY <1>4 DEF Flush, Goto
  <2>2. /\ r \in Task /\ r.script = old.script /\ r.loaded = old.loaded /\ r.pc = next
        /\ r.made = {} /\ r.written = old.written \cup old.made
    BY <1>1 DEF Task, Phases
  <2> HIDE DEF r
  <2>3. Locked(r)
    <3> SUFFICES ASSUME NEW w \in old.made
                 PROVE  /\ rows[w.kind] # Null /\ rows[w.kind].id = w.id
                        /\ w.kind = "term" => admin = Null
                        /\ w.kind = "table" => introspection = "none"
      BY <1>1, <2>2 DEF Fits, Locked
    <3> QED
      BY <1>1, RequestLocks DEF Writable
  <2>4. Fits(r)
    BY <1>1, <2>2, <2>3 DEF Fits, UpToDate
  <2>5. Working(r) <=> Working(old)
    BY <1>1, <2>2 DEF Working, Phases
  <2>6. /\ Working(r) /\ r.pc \notin {"flushTerms", "commit"} =>
             old.pc \notin {"flushTerms", "commit"}
        /\ ~(Working(r) /\ r.pc \in {"tables", "embedTables"})
    BY <1>1, <2>2
  <2> QED
    BY <1>1, <2>1, <2>2, <2>4, <2>5, <2>6, QuietTask
<1> QED
  BY <1>3, <1>4

LEMMA Commits == ASSUME EmbeddingsInv, NEW t \in Tasks, Commit(t) PROVE EmbeddingsInv'
<1> DEFINE old == task[t]
<1>1. /\ old \in Task /\ Fits(old) /\ old.written \in SUBSET Write
      /\ rows' = Updated(old.written) /\ task' = [task EXCEPT ![t] = Idle] /\ done' = TRUE
      /\ UNCHANGED <<admin, introspection, progress, excused>>
  BY DEF Commit, Goto, EmbeddingsInv, TypeOK, RowsAreTrue, TasksFit, Task
<1>2. \A w \in old.written : Writable(w)
  BY <1>1 DEF Fits, Locked, Writable
<1>3. excused \/ \A w \in old.written : w.kind = "term" => Current(w.id, w.vector)
  BY <1>1 DEF Fits, UpToDate
<1>4. /\ task' \in [Tasks -> Task] /\ RowsAreTrue' /\ rows' \in [Kinds -> Row \cup {Null}]
  BY <1>1, <1>2, <1>3, IdleIs, IdleFits, RowsUpdated
<1>5. ~Working(Idle)
  BY IdleIs DEF Working, Phases
<1>6. Once' \subseteq Once /\ Twice' \subseteq Twice
  BY <1>1, <1>5, IdleIs, OneCounted
<1>7. RecordIsTrue' /\ (progress \in Progress \cup {Null})'
  BY <1>1, <1>4, <1>6, RecordStays
<1> QED
  BY <1>1, <1>4, <1>7 DEF EmbeddingsInv, TypeOK

LEMMA Fails == ASSUME EmbeddingsInv, NEW t \in Tasks, Fail(t) PROVE EmbeddingsInv'
<1>1. /\ task' = [task EXCEPT ![t] = Idle]
      /\ progress' = (IF task[t].script THEN progress ELSE Failed(progress))
      /\ UNCHANGED <<rows, admin, introspection, done, excused>>
  BY DEF Fail, Goto, history
<1>2. /\ task' \in [Tasks -> Task] /\ RowsAreTrue'
      /\ task'[t] = Idle /\ \A u \in Tasks \ {t} : task'[u] = task[u]
  BY <1>1, IdleIs, IdleFits, OneTask
<1>3. ~Working(Idle)
  BY IdleIs DEF Working, Phases
<1>4. Once' \subseteq Once /\ Twice' \subseteq Twice
  BY <1>1, <1>3, IdleIs, OneCounted
<1>5. CASE progress' = progress /\ task[t].script
  <2>1. \A u \in Tasks : Working(task[u]) => Working(task'[u])
    BY <1>2, <1>5 DEF Working
  <2>2. RecordIsTrue' /\ (progress \in Progress \cup {Null})'
    BY <1>1, <1>2, <1>4, <1>5, <2>1, RecordStays
  <2> QED
    BY <1>1, <1>2, <2>2 DEF EmbeddingsInv, TypeOK
<1>6. CASE progress = Null /\ progress' = Null
  BY <1>1, <1>2, <1>6 DEF EmbeddingsInv, TypeOK, RecordIsTrue, RecordAddsUp, RecordCounts, SoonTrue
<1>7. CASE progress # Null /\ progress' = [progress EXCEPT !.status = "failed"]
  <2>1. progress \in Progress
    BY <1>7 DEF EmbeddingsInv, TypeOK
  <2>2. /\ progress' \in Progress /\ progress'.status = "failed"
        /\ progress'.completed = progress.completed /\ progress.completed \in Nat
    BY <1>7, <2>1 DEF Progress
  <2>3. IsFiniteSet(Once) /\ IsFiniteSet(Twice)
    BY TasksAssumption, FS_Subset DEF Once, Twice
  <2>4. /\ Cardinality(Once) \in Nat /\ Cardinality(Twice) \in Nat
        /\ Cardinality(Once') \in Nat /\ Cardinality(Twice') \in Nat
        /\ Cardinality(Once') <= Cardinality(Once) /\ Cardinality(Twice') <= Cardinality(Twice)
        /\ Cardinality(Tasks) \in Nat
    BY <1>4, <2>3, TasksAssumption, FS_Subset, FS_CardinalityType
  <2>5. RecordCounts'
    BY <1>7, <2>2, <2>4 DEF EmbeddingsInv, RecordIsTrue, RecordCounts
  <2>6. RecordAddsUp' /\ SoonTrue'
    BY <2>2 DEF RecordAddsUp, SoonTrue
  <2> QED
    BY <1>1, <1>2, <2>2, <2>5, <2>6 DEF EmbeddingsInv, TypeOK, RecordIsTrue
<1> QED
  BY <1>1, <1>5, <1>6, <1>7 DEF Failed

-----------------------------------------------------------------------------
(* The request that saves or deletes the term *)

LEMMA Saves == ASSUME EmbeddingsInv, Save PROVE EmbeddingsInv'
<1>1. /\ "term" \notin LockedFor("admin")
      /\ UNCHANGED <<rows, task, introspection, progress, done, excused>>
  BY DEF Save, history
<1>2. admin' \in Saving
  BY DEF Save, Saving, EmbeddingsInv, TypeOK, Kinds, Row
<1>3. ASSUME NEW t \in Tasks
      PROVE  \A w \in task[t].written : w.kind # "term"
  BY <1>1, TasksAssumption, TaskLocks
<1>4. TasksFit'
  BY <1>1, <1>3 DEF EmbeddingsInv, RowsAreTrue, TasksFit, Fits, Locked, UpToDate, Current
<1>5. RowsAreTrue'
  BY <1>1, <1>4 DEF EmbeddingsInv, RowsAreTrue, StaleOnlyByRace
<1>6. RecordIsTrue' /\ (progress \in Progress \cup {Null})' /\ task' \in [Tasks -> Task]
  BY <1>1, RecordUntouched
<1> QED
  BY <1>1, <1>2, <1>5, <1>6 DEF EmbeddingsInv, TypeOK

\* While a request holds the term no task has written it.
LEMMA TermNotWritten ==
    ASSUME EmbeddingsInv, admin # Null, NEW t \in Tasks
    PROVE  \A w \in task[t].written : w.kind # "term"
BY DEF EmbeddingsInv, RowsAreTrue, TasksFit, Fits, Locked

\* Another term, or none: the table and what is written of it are as before.
LEMMA OtherTerm ==
    ASSUME EmbeddingsInv, NEW t \in Tasks, \A w \in task[t].written : w.kind # "term",
           UNCHANGED <<task, introspection>>, rows'["table"] = rows["table"]
    PROVE  Locked(task[t])'
<1>1. \A w \in task[t].written : w.kind = "table"
  BY DEF EmbeddingsInv, TypeOK, Task, Write, Kinds
<1>2. Locked(task[t])
  BY DEF EmbeddingsInv, RowsAreTrue, TasksFit, Fits
<1> QED
  BY <1>1, <1>2 DEF Locked

LEMMA CommitsSaved == ASSUME EmbeddingsInv, CommitSaved PROVE EmbeddingsInv'
<1> PICK vector \in {admin.text, Null} :
      /\ rows' = [rows EXCEPT !["term"] = Saved(vector)]
      /\ excused' = (\/ vector = Null /\ Kept \notin {Null, admin.text}
                    \/ \E t \in Tasks : Holds(t, admin.id))
  BY DEF CommitSaved
<1>1. /\ admin # Null /\ admin' = Null
      /\ UNCHANGED <<task, introspection, progress, done>>
  BY DEF CommitSaved
<1>2. admin.text \in Texts /\ admin.id \in 1..MaxRows
  BY <1>1 DEF EmbeddingsInv, TypeOK, Saving
<1>3. rows \in [Kinds -> Row \cup {Null}] /\ rows["term"] \in Row \cup {Null}
  BY DEF EmbeddingsInv, TypeOK, Kinds
<1>4. Kept \in AllTexts \cup {Null}
  BY <1>3 DEF Kept, Row
<1>5. /\ Saved(vector) \in Row /\ Saved(vector).text = admin.text /\ Saved(vector).id = admin.id
      /\ Saved(vector).vector = IF vector # Null THEN vector ELSE Kept
  BY <1>2, <1>4 DEF Saved, Row, AllTexts
<1>6. /\ rows' \in [Kinds -> Row \cup {Null}] /\ rows'["table"] = rows["table"]
      /\ rows'["term"] = Saved(vector)
  BY <1>3, <1>5 DEF Kinds
<1>7. StaleOnlyByRace'
  BY <1>5, <1>6 DEF StaleOnlyByRace
<1>8. ASSUME NEW t \in Tasks
      PROVE  Fits(task[t])'
  <2>1. Locked(task[t])'
    BY <1>1, <1>6, TermNotWritten, OtherTerm
  <2>2. ~Holds(t, admin.id) => UpToDate(task[t])'
    BY <1>1, <1>5, <1>6 DEF Holds, UpToDate, Current
  <2> QED
    BY <2>1, <2>2 DEF Fits
<1>9. RowsAreTrue'
  BY <1>6, <1>7, <1>8 DEF EmbeddingsInv, RowsAreTrue, TasksFit
<1>10. RecordIsTrue' /\ (progress \in Progress \cup {Null})' /\ task' \in [Tasks -> Task]
  BY <1>1, RecordUntouched
<1> QED
  BY <1>1, <1>6, <1>9, <1>10 DEF EmbeddingsInv, TypeOK

LEMMA AbortsSave == ASSUME EmbeddingsInv, AbortSave PROVE EmbeddingsInv'
<1>1. /\ admin' = Null
      /\ UNCHANGED <<rows, task, introspection, progress, done, excused>>
  BY DEF AbortSave, history
<1>2. RowsAreTrue'
  BY <1>1 DEF EmbeddingsInv, RowsAreTrue, TasksFit, Fits, Locked, UpToDate, Current, StaleOnlyByRace
<1>3. RecordIsTrue' /\ (progress \in Progress \cup {Null})' /\ task' \in [Tasks -> Task]
  BY <1>1, RecordUntouched
<1> QED
  BY <1>1, <1>2, <1>3 DEF EmbeddingsInv, TypeOK

LEMMA Deletes == ASSUME EmbeddingsInv, DeleteTerm PROVE EmbeddingsInv'
<1>1. /\ "term" \notin LockedFor("admin") /\ rows' = [rows EXCEPT !["term"] = Null]
      /\ excused' = FALSE /\ UNCHANGED <<task, admin, introspection, progress, done>>
  BY DEF DeleteTerm
<1>2. /\ rows' \in [Kinds -> Row \cup {Null}] /\ rows'["table"] = rows["table"]
      /\ rows'["term"] = Null
  BY <1>1 DEF EmbeddingsInv, TypeOK, Kinds
<1>3. ASSUME NEW t \in Tasks
      PROVE  Fits(task[t])'
  <2>1. \A w \in task[t].written : w.kind # "term"
    BY <1>1, TasksAssumption, TaskLocks
  <2>2. Locked(task[t])'
    BY <1>1, <1>2, <2>1, OtherTerm
  <2>3. UpToDate(task[t])'
    BY <1>2 DEF UpToDate, Current
  <2> QED
    BY <2>2, <2>3 DEF Fits
<1>4. RowsAreTrue'
  BY <1>2, <1>3 DEF EmbeddingsInv, RowsAreTrue, TasksFit, StaleOnlyByRace
<1>5. RecordIsTrue' /\ (progress \in Progress \cup {Null})' /\ task' \in [Tasks -> Task]
  BY <1>1, RecordUntouched
<1> QED
  BY <1>1, <1>2, <1>4, <1>5 DEF EmbeddingsInv, TypeOK

-----------------------------------------------------------------------------
(* Introspection, and restarts *)

LEMMA Introspects == ASSUME EmbeddingsInv, Introspect PROVE EmbeddingsInv'
<1>1. /\ "table" \notin LockedFor("introspection") /\ introspection' = "deleted"
      /\ UNCHANGED <<rows, task, admin, progress, done, excused>>
  BY DEF Introspect, history
<1>2. ASSUME NEW t \in Tasks
      PROVE  \A w \in task[t].written : w.kind # "table"
  BY <1>1, TasksAssumption, TaskLocks
<1>3. RowsAreTrue'
  BY <1>1, <1>2 DEF EmbeddingsInv, RowsAreTrue, TasksFit, Fits, Locked, UpToDate, Current,
                    StaleOnlyByRace
<1>4. RecordIsTrue' /\ (progress \in Progress \cup {Null})' /\ task' \in [Tasks -> Task]
  BY <1>1, RecordUntouched
<1> QED
  BY <1>1, <1>3, <1>4 DEF EmbeddingsInv, TypeOK

LEMMA Launches == ASSUME EmbeddingsInv, Launch PROVE EmbeddingsInv'
<1> DEFINE r == [Idle EXCEPT !.pc = "count"]
<1>1. PICK t \in Tasks : task[t].pc = "idle" /\ task' = [task EXCEPT ![t] = r]
  BY DEF Launch, At, Goto
<1>2. /\ introspection = "deleted" /\ introspection' = "launched"
      /\ UNCHANGED <<rows, admin, progress, done, excused>>
  BY DEF Launch, history
<1>3. /\ r \in Task /\ r.pc = "count" /\ r.loaded = {} /\ r.made = {} /\ r.written = {}
  BY IdleIs DEF Task
<1> HIDE DEF r
<1>4. Fits(r)
  BY <1>3 DEF Fits, Locked, UpToDate
<1>5. ~Working(r) /\ ~Working(task[t])
  BY <1>1, <1>3 DEF Working, Phases
<1> QED
  BY <1>1, <1>2, <1>3, <1>4, <1>5, QuietTask

LEMMA CommitsIntrospection ==
    ASSUME EmbeddingsInv, CommitIntrospection PROVE EmbeddingsInv'
<1>1. /\ introspection # "none" /\ introspection' = "none" /\ rows["table"].id < MaxRows
      /\ rows' = [k \in Kinds |-> IF k = "term" THEN rows[k] ELSE NewRow(k, rows[k].id + 1)]
      /\ UNCHANGED <<task, admin, progress, done, excused>>
  BY DEF CommitIntrospection, history
<1>2. rows["table"] \in Row /\ rows["table"].id + 1 \in 1..MaxRows
  BY <1>1, BoundsAssumption DEF EmbeddingsInv, TypeOK, RowsAreTrue, Kinds, Row
<1>3. NewRow("table", rows["table"].id + 1) \in Row /\ NewRow("table", rows["table"].id + 1) # Null
  BY <1>2, NewRowIs DEF AllTexts
<1>4. /\ rows' \in [Kinds -> Row \cup {Null}] /\ rows'["table"] # Null
      /\ rows'["term"] = rows["term"]
  <2>1. rows'["table"] = NewRow("table", rows["table"].id + 1) /\ rows'["term"] = rows["term"]
    BY <1>1 DEF Kinds
  <2>2. rows["term"] \in Row \cup {Null}
    BY DEF EmbeddingsInv, TypeOK, Kinds
  <2>3. rows' = [k \in Kinds |-> rows'[k]] /\ \A k \in Kinds : rows'[k] \in Row \cup {Null}
    BY <1>1, <1>3, <2>1, <2>2 DEF Kinds
  <2> QED
    BY <1>3, <2>1, <2>3
<1>5. ASSUME NEW t \in Tasks
      PROVE  Fits(task[t])'
  <2>1. Fits(task[t]) /\ \A w \in task[t].written : w.kind \in Kinds
    BY DEF EmbeddingsInv, TypeOK, RowsAreTrue, TasksFit, Task, Write
  <2>2. Locked(task[t])'
    BY <1>1, <1>4, <2>1 DEF Fits, Locked, Kinds
  <2>3. UpToDate(task[t]) => UpToDate(task[t])'
    BY <1>1, <1>4 DEF UpToDate, Current
  <2> QED
    BY <1>1, <2>1, <2>2, <2>3 DEF Fits
<1>6. RowsAreTrue'
  BY <1>1, <1>4, <1>5 DEF EmbeddingsInv, RowsAreTrue, TasksFit, StaleOnlyByRace
<1>7. RecordIsTrue' /\ (progress \in Progress \cup {Null})' /\ task' \in [Tasks -> Task]
  BY <1>1, RecordUntouched
<1> QED
  BY <1>1, <1>4, <1>6, <1>7 DEF EmbeddingsInv, TypeOK

LEMMA AbortsIntrospection ==
    ASSUME EmbeddingsInv, AbortIntrospection PROVE EmbeddingsInv'
<1>1. /\ introspection' = "none"
      /\ UNCHANGED <<rows, task, admin, progress, done, excused>>
  BY DEF AbortIntrospection, history
<1>2. RowsAreTrue'
  BY <1>1 DEF EmbeddingsInv, RowsAreTrue, TasksFit, Fits, Locked, UpToDate, Current, StaleOnlyByRace
<1>3. RecordIsTrue' /\ (progress \in Progress \cup {Null})' /\ task' \in [Tasks -> Task]
  BY <1>1, RecordUntouched
<1> QED
  BY <1>1, <1>2, <1>3 DEF EmbeddingsInv, TypeOK

LEMMA Restarts == ASSUME EmbeddingsInv, Restart PROVE EmbeddingsInv'
<1> DEFINE counting == [Idle EXCEPT !.pc = "count"]
<1>1. /\ \/ rows' = rows /\ excused' = excused
         \/ rows' = Cleared /\ excused' = FALSE
      /\ admin' = Null /\ introspection' = "none" /\ progress' = Null /\ UNCHANGED done
  BY DEF Restart
<1>2. PICK first \in {{}} \cup {{t} : t \in Tasks} :
        task' = [t \in Tasks |-> IF t \in first THEN counting ELSE Idle]
  BY DEF Restart
<1>3. /\ counting \in Task
      /\ counting.loaded = {} /\ counting.made = {} /\ counting.written = {}
  BY IdleIs DEF Task
<1> HIDE DEF counting
<1>4. \A t \in Tasks : /\ task'[t] \in Task /\ task'[t].loaded = {}
                        /\ task'[t].made = {} /\ task'[t].written = {}
  BY <1>2, <1>3, IdleIs
<1>5. task' \in [Tasks -> Task]
  BY <1>2, <1>3, IdleIs
<1>6. excused' \in BOOLEAN
  BY <1>1 DEF EmbeddingsInv, TypeOK
<1>7. /\ rows' \in [Kinds -> Row \cup {Null}] /\ rows'["table"] # Null
      /\ \/ rows'["term"] = rows["term"] /\ excused' = excused
         \/ rows'["term"] = Null
         \/ rows'["term"].vector = Null
  <2>1. /\ rows \in [Kinds -> Row \cup {Null}] /\ rows["table"] # Null
        /\ "table" \in Kinds /\ "term" \in Kinds
    BY DEF EmbeddingsInv, TypeOK, RowsAreTrue, Kinds
  <2>2. CASE rows' = rows /\ excused' = excused
    BY <2>1, <2>2
  <2>3. CASE rows' = Cleared /\ excused' = FALSE
    <3>1. ASSUME NEW k \in Kinds
          PROVE  /\ Cleared[k] \in Row \cup {Null}
                 /\ rows[k] = Null => Cleared[k] = Null
                 /\ rows[k] # Null => Cleared[k] # Null /\ Cleared[k].vector = Null
      <4>1. Cleared[k] = IF rows[k] = Null THEN Null ELSE [rows[k] EXCEPT !.vector = Null]
        BY DEF Cleared
      <4> QED
        BY <2>1, <4>1, RowIsEmbedded
    <3>2. Cleared = [k \in Kinds |-> Cleared[k]]
      BY DEF Cleared
    <3> QED
      BY <2>1, <2>3, <3>1, <3>2
  <2> QED
    BY <1>1, <2>2, <2>3
<1>8. RowsAreTrue'
  <2>1. TasksFit'
    BY <1>4 DEF TasksFit, Fits, Locked, UpToDate
  <2>2. StaleOnlyByRace'
    BY <1>1, <1>7 DEF EmbeddingsInv, RowsAreTrue, StaleOnlyByRace
  <2> QED
    BY <1>7, <2>1, <2>2 DEF RowsAreTrue
<1>9. RecordIsTrue'
  BY <1>1 DEF RecordIsTrue, RecordAddsUp, RecordCounts, SoonTrue
<1> QED
  BY <1>1, <1>5, <1>6, <1>7, <1>8, <1>9 DEF EmbeddingsInv, TypeOK

-----------------------------------------------------------------------------
LEMMA InitEmbeddings == ASSUME Init PROVE EmbeddingsInv
<1>1. PICK x \in Texts : rows = [k \in Kinds |-> NewRow(IF k = "term" THEN x ELSE k, 1)]
  BY DEF Init
<1>2. /\ task = [t \in Tasks |-> Idle] /\ admin = Null /\ introspection = "none"
      /\ progress = Null /\ done = FALSE /\ excused = FALSE
  BY DEF Init
<1>3. 1 \in 1..MaxRows
  BY BoundsAssumption
<1>4. \A k \in Kinds : rows[k] \in Row /\ rows[k] # Null /\ rows[k].vector = Null
  <2> TAKE k \in Kinds
  <2>1. (IF k = "term" THEN x ELSE k) \in AllTexts
    BY DEF Kinds, AllTexts
  <2>2. rows[k] = NewRow(IF k = "term" THEN x ELSE k, 1)
    BY <1>1
  <2> QED
    BY <1>3, <2>1, <2>2, NewRowIs
<1>5. rows \in [Kinds -> Row \cup {Null}]
  BY <1>1, <1>4
<1>6. RowsAreTrue
  <2>1. \A t \in Tasks : task[t] = Idle
    BY <1>2
  <2> QED
    BY <1>4, <2>1, IdleFits DEF RowsAreTrue, StaleOnlyByRace, TasksFit, Kinds
<1>7. TypeOK
  <2>1. task \in [Tasks -> Task]
    BY <1>2, IdleIs
  <2> QED
    BY <1>2, <1>5, <2>1 DEF TypeOK
<1> QED
  BY <1>2, <1>6, <1>7 DEF EmbeddingsInv, RecordIsTrue, RecordAddsUp, RecordCounts, SoonTrue

\* In every reachable state, whatever tasks run at once: each task that counts in
\* the shared record counts each kind once, a record that says "completed" has a
\* task that committed or is about to, the rows a task has written are locked
\* until it ends, and what it holds of the term is of its present text, unless the
\* last to save the term left it an older vector or saved it meanwhile.
THEOREM EmbeddingsInvariant == Spec => []EmbeddingsInv
<1>1. Init => EmbeddingsInv
  BY InitEmbeddings
<1>2. EmbeddingsInv /\ [Next]_vars => EmbeddingsInv'
  <2> SUFFICES ASSUME EmbeddingsInv, [Next]_vars PROVE EmbeddingsInv'
    OBVIOUS
  <2>1. CASE UNCHANGED vars
    BY <2>1 DEF vars, EmbeddingsInv, TypeOK, RecordIsTrue, RecordAddsUp, RecordCounts, SoonTrue,
                Once, Twice, RowsAreTrue, StaleOnlyByRace, TasksFit, Fits, Locked, UpToDate, Current
  <2>2. ASSUME NEW t \in Tasks,
               StartScript(t) \/ Count(t) \/ Select(t) \/ Embed(t) \/ Flush(t) \/ Commit(t) \/ Fail(t)
        PROVE  EmbeddingsInv'
    BY <2>2, StartsScript, Counts, Selects, Embeds, Flushes, Commits, Fails
  <2>3. CASE Save \/ CommitSaved \/ AbortSave \/ DeleteTerm
    BY <2>3, Saves, CommitsSaved, AbortsSave, Deletes
  <2>4. CASE Introspect \/ Launch \/ CommitIntrospection \/ AbortIntrospection
    BY <2>4, Introspects, Launches, CommitsIntrospection, AbortsIntrospection
  <2>5. CASE Restart
    BY <2>5, Restarts
  <2> QED
    BY <2>1, <2>2, <2>3, <2>4, <2>5 DEF Next
<1> QED
  BY <1>1, <1>2, PTL DEF Spec

\* For any number of tasks, texts, rows and restarts: the progress record says
\* "completed" only when the total is reached, and, once all tasks have ended,
\* only if one of them has committed; and the vector of a term is one of its
\* present text, but for the ways StaleOnlyByRace names.
THEOREM EmbeddingsStayTrue == Spec => []EmbeddingsAreTrue
<1>1. EmbeddingsInv => EmbeddingsAreTrue
  <2> SUFFICES ASSUME EmbeddingsInv PROVE EmbeddingsAreTrue
    OBVIOUS
  <2>1. CompletedIsTrue
    BY DEF EmbeddingsInv, RecordIsTrue, SoonTrue, CompletedIsTrue, At, Working, Phases
  <2> QED
    BY <2>1 DEF EmbeddingsInv, RecordIsTrue, RowsAreTrue, EmbeddingsAreTrue
<1> QED
  BY <1>1, EmbeddingsInvariant, PTL

-----------------------------------------------------------------------------
(* Induction.  A set of numbers with 0 and the successor of each has all of them; a    *)
(* loop, as a function of the number of its rounds, has a value after each.            *)

\* Of every set there is a least member: what stands in for induction over numbers.
LEMMA Minimal ==
    ASSUME NEW R, NEW S, NEW T, IsWellFoundedOn(R, S), T \subseteq S, T # {}
    PROVE  \E x \in T : \A y \in T : <<y, x>> \notin R
BY WFMin, Zenon

LEMMA LeastNumber ==
    ASSUME NEW T \in SUBSET Nat, T # {}
    PROVE  \E x \in T : \A y \in T : x <= y
<1> DEFINE U == {0..(n - 1) : n \in T}
           R == StrictSubsetOrdering(Nat)
<1>1. \A n \in Nat : IsFiniteSet(0..(n - 1))
  BY FS_Interval
<1>2. U \subseteq FiniteSubsetsOf(Nat)
  BY <1>1 DEF FiniteSubsetsOf
<1>3. IsWellFoundedOn(R, FiniteSubsetsOf(Nat))
  BY FS_StrictSubsetOrderingWellFounded
<1>4. U # {}
  OBVIOUS
<1>5. PICK u \in U : \A v \in U : <<v, u>> \notin R
  <2> HIDE DEF U, R
  <2> QED BY <1>2, <1>3, <1>4, Minimal
<1>6. PICK x \in T : u = 0..(x - 1)
  OBVIOUS
<1>7. ASSUME NEW y \in T, y < x PROVE FALSE
  <2> DEFINE v == 0..(y - 1)
  <2>1. v \subseteq u /\ y \in u /\ y \notin v
    BY <1>6, <1>7
  <2>2. v \in U /\ v \in SUBSET Nat /\ u \in SUBSET Nat
    BY <1>6
  <2> HIDE DEF v, U
  <2>3. <<v, u>> \in R
    BY <2>1, <2>2 DEF StrictSubsetOrdering
  <2> QED BY <2>2, <2>3, <1>5
<1> QED BY <1>7

\* A set with 0, and with the successor of each below n, has all of 0..n.
LEMMA Induction ==
    ASSUME NEW S, 0 \in S, NEW n \in Nat, \A m \in 0..n : m \in S /\ m < n => m + 1 \in S
    PROVE  \A m \in 0..n : m \in S
<1> DEFINE T == (0..n) \ S
<1>1. SUFFICES ASSUME T # {} PROVE FALSE
  OBVIOUS
<1>2. PICK x \in T : \A y \in T : x <= y
  <2>1. T \in SUBSET Nat
    OBVIOUS
  <2> HIDE DEF T
  <2> QED BY <1>1, <2>1, LeastNumber
<1>3. x \in 0..n /\ x # 0 /\ x - 1 \in 0..n /\ x - 1 < n
  BY <1>2
<1>4. x - 1 \in S
  BY <1>2, <1>3
<1> QED BY <1>2, <1>3, <1>4

\* A step of a loop, as a function of the round and of the state before it.
Loops(n, S) == [1..n -> [S -> S]]

\* g is what a loop makes of a.
IsLoop(g, n, S, a, step) ==
    g \in [0..n -> S] /\ g[0] = a /\ \A m \in 1..n : g[m] = step[m][g[m - 1]]

\* A loop, declared as a function of its rounds, is one.
LEMMA LoopExists ==
    ASSUME NEW n \in Nat, NEW S, NEW a \in S, NEW step \in Loops(n, S)
    PROVE  \E g : IsLoop(g, n, S, a, step)
<1> DEFINE I == {m \in 0..n : \E g : IsLoop(g, m, S, a, step)}
<1>1. 0 \in I
  <2> DEFINE g == [m \in 0..0 |-> a]
  <2>1. IsLoop(g, 0, S, a, step)
    BY DEF IsLoop
  <2> QED BY <2>1
<1>2. ASSUME NEW m \in 0..n, m \in I, m < n PROVE m + 1 \in I
  <2>1. PICK g : IsLoop(g, m, S, a, step)
    BY <1>2
  <2> DEFINE h == [k \in 0..(m + 1) |-> IF k <= m THEN g[k] ELSE step[k][g[m]]]
  <2>2. step[m + 1][g[m]] \in S
    <3>1. g[m] \in S /\ m + 1 \in 1..n
      BY <2>1, <1>2 DEF IsLoop
    <3>2. step[m + 1] \in [S -> S]
      BY <3>1 DEF Loops
    <3> QED BY <3>1, <3>2
  <2>3. h \in [0..(m + 1) -> S]
    <3>1. ASSUME NEW k \in 0..(m + 1) PROVE h[k] \in S
      <4>1. CASE k <= m
        BY <4>1, <2>1 DEF IsLoop
      <4>2. CASE k = m + 1
        BY <4>2, <2>2
      <4> QED BY <4>1, <4>2
    <3> QED BY <3>1
  <2>4. h[0] = a
    BY <2>1 DEF IsLoop
  <2>5. ASSUME NEW k \in 1..(m + 1) PROVE h[k] = step[k][h[k - 1]]
    <3>1. h[k - 1] = g[k - 1]
      OBVIOUS
    <3>2. CASE k <= m
      <4>1. h[k] = g[k]
        BY <3>2
      <4> QED BY <4>1, <3>1, <3>2, <2>1 DEF IsLoop
    <3>3. CASE k = m + 1
      <4>1. h[k] = step[k][g[m]] /\ k - 1 = m
        BY <3>3
      <4> QED BY <4>1, <3>1
    <3> QED BY <3>2, <3>3
  <2>6. IsLoop(h, m + 1, S, a, step)
    <3> HIDE DEF h
    <3> QED BY <2>3, <2>4, <2>5 DEF IsLoop
  <2>7. m + 1 \in 0..n
    BY <1>2
  <2> HIDE DEF h
  <2> QED BY <2>6, <2>7
<1>3. \A m \in 0..n : m \in I
  <2> HIDE DEF I
  <2> QED BY <1>1, <1>2, Induction
<1> QED BY <1>3

\* A set that each round stays in.
LEMMA LoopIn ==
    ASSUME NEW n \in Nat, NEW S, NEW w, w[0] \in S,
           \A m \in 1..n : w[m - 1] \in S => w[m] \in S
    PROVE  \A m \in 0..n : w[m] \in S
<1> DEFINE I == {m \in 0..n : w[m] \in S}
<1>1. 0 \in I
  OBVIOUS
<1>2. \A m \in 0..n : m \in I /\ m < n => m + 1 \in I
  <2> SUFFICES ASSUME NEW m \in 0..n, w[m] \in S, m < n PROVE w[m + 1] \in S
    OBVIOUS
  <2>1. m + 1 \in 1..n /\ (m + 1) - 1 = m
    OBVIOUS
  <2> QED BY <2>1
<1>3. \A m \in 0..n : m \in I
  <2> HIDE DEF I
  <2> QED BY <1>1, <1>2, Induction
<1> QED BY <1>3

-----------------------------------------------------------------------------
(* Sequences laid one after another. *)

\* w is what parts make, one part after another, and text what they make in the end.
Flattening(w, parts, text, D) ==
    /\ parts \in Seq(Seq(D)) /\ text = w[Len(parts)]
    /\ w \in [0..Len(parts) -> Seq(D)] /\ w[0] = <<>>
    /\ \A m \in 1..Len(parts) : w[m] = w[m - 1] \o parts[m]

LEMMA Concatenated ==
    ASSUME NEW D, NEW a \in Seq(D), NEW b \in Seq(D)
    PROVE  /\ a \o b \in Seq(D) /\ Len(a \o b) = Len(a) + Len(b)
           /\ Len(a) \in Nat /\ Len(b) \in Nat /\ <<>> \o a = a
           /\ \A j \in 1..Len(a) : (a \o b)[j] = a[j]
           /\ \A j \in 1..Len(b) : (a \o b)[Len(a) + j] = b[j]
OBVIOUS

LEMMA SeqOfLarger ==
    ASSUME NEW A, NEW B, A \subseteq B, NEW s \in Seq(A)
    PROVE  s \in Seq(B)
<1>1. \A i \in 1..Len(s) : s[i] \in B
  OBVIOUS
<1> QED BY <1>1

LEMMA Flattened ==
    ASSUME NEW D, NEW parts \in Seq(Seq(D))
    PROVE  \E w : Flattening(w, parts, Reply!FlattenSeq(parts), D)
<1> DEFINE n == Len(parts)
           S == Seq(D)
           step == [m \in 1..n |-> [s \in S |-> s \o parts[m]]]
           Body(f) == [i \in 1..n |-> IF i = 1 THEN parts[i] ELSE f[i - 1] \o parts[i]]
<1>1. n \in Nat /\ <<>> \in S /\ \A m \in 1..n : parts[m] \in S
  OBVIOUS
<1>2. \A m \in 1..n, s \in S : s \o parts[m] \in S
  BY <1>1
<1>3. PICK w : IsLoop(w, n, S, <<>>, step)
  <2>1. step \in Loops(n, S)
    <3> HIDE DEF n, S
    <3> QED BY <1>2 DEF Loops
  <2> HIDE DEF n, S, step
  <2> QED BY <1>1, <2>1, LoopExists
<1>4. w \in [0..n -> S] /\ w[0] = <<>> /\ \A m \in 1..n : w[m] = w[m - 1] \o parts[m]
  <2> HIDE DEF n, S
  <2>1. w \in [0..n -> S] /\ w[0] = <<>> /\ \A m \in 1..n : w[m] = step[m][w[m - 1]]
    BY <1>3 DEF IsLoop
  <2>2. \A m \in 1..n : w[m - 1] \in S
    BY <1>1, <2>1
  <2> QED BY <2>1, <2>2
<1>5. SUFFICES Reply!FlattenSeq(parts) = w[n]
  BY <1>4 DEF Flattening
<1>6. CASE n = 0
  <2>1. parts = <<>>
    BY <1>6
  <2> QED BY <1>4, <1>6, <2>1 DEF Reply!FlattenSeq
<1>7. CASE n # 0
  <2> SUFFICES ASSUME NEW f, f = CHOOSE g : g = Body(g) PROVE f[n] = w[n]
    <3>1. Reply!FlattenSeq(parts) = (CHOOSE g : g = Body(g))[n]
      BY <1>7 DEF Reply!FlattenSeq
    <3> QED BY <3>1
  <2> DEFINE r == [i \in 1..n |-> w[i]]
  <2>1. r = Body(r)
    <3> SUFFICES ASSUME NEW i \in 1..n PROVE r[i] = Body(r)[i]
      OBVIOUS
    <3> HIDE DEF n, S
    <3>1. CASE i = 1
      <4>1. parts[i] \in Seq(D)
        BY <1>1 DEF S
      <4>2. <<>> \o parts[i] = parts[i]
        BY <4>1, Concatenated
      <4>3. w[i] = w[i - 1] \o parts[i] /\ w[i - 1] = <<>>
        <5>1. i - 1 = 0
          BY <3>1
        <5> QED BY <1>4, <5>1
      <4> QED BY <3>1, <4>2, <4>3
    <3>2. CASE i # 1
      <4>1. i - 1 \in 1..n
        BY <1>1, <3>2
      <4> QED BY <1>4, <3>2, <4>1
    <3> QED BY <3>1, <3>2
  <2>2. f = Body(f)
    <3> HIDE DEF Body, r
    <3> QED BY <2>1
  <2> HIDE DEF Body, r
  <2> DEFINE Same(m) == m = 0 \/ f[m] = w[m]
             I == {m \in 0..n : Same(m)}
  <2> HIDE DEF n, S
  <2>3. 0 \in I
    <3>1. 0 \in 0..n /\ Same(0)
      BY <1>1
    <3> HIDE DEF Same
    <3> QED BY <3>1
  <2>4. \A m \in 0..n : m \in I /\ m < n => m + 1 \in I
    <3> SUFFICES ASSUME NEW m \in 0..n, Same(m), m < n PROVE Same(m + 1)
      <4> HIDE DEF Same
      <4> QED BY <1>1
    <3> HIDE DEF I
    <3> SUFFICES f[m + 1] = w[m + 1]
      OBVIOUS
    <3>1. m + 1 \in 1..n /\ (m + 1) - 1 = m
      BY <1>1
    <3>2. f[m + 1] = IF m = 0 THEN parts[m + 1] ELSE f[m] \o parts[m + 1]
      <4>1. f[m + 1] = Body(f)[m + 1]
        BY <2>2
      <4>2. Body(f)[m + 1] = IF m + 1 = 1 THEN parts[m + 1] ELSE f[(m + 1) - 1] \o parts[m + 1]
        BY <3>1 DEF Body
      <4>3. (m + 1 = 1) = (m = 0)
        BY <1>1
      <4> QED BY <3>1, <4>1, <4>2, <4>3
    <3>3. w[m + 1] = w[m] \o parts[m + 1] /\ parts[m + 1] \in Seq(D)
      BY <1>1, <1>4, <3>1 DEF S
    <3>4. CASE m = 0
      <4>1. <<>> \o parts[m + 1] = parts[m + 1]
        BY <3>3, Concatenated
      <4> QED BY <1>4, <3>2, <3>3, <3>4, <4>1
    <3>5. CASE m # 0
      <4>1. f[m + 1] = f[m] \o parts[m + 1] /\ f[m] = w[m]
        BY <3>2, <3>5
      <4> QED BY <3>3, <4>1
    <3> QED BY <3>4, <3>5
  <2>5. \A m \in 0..n : m \in I
    <3> HIDE DEF I
    <3> QED BY <1>1, <2>3, <2>4, Induction
  <2>6. n \in 0..n
    BY <1>1
  <2> QED BY <1>7, <2>5, <2>6
<1> QED BY <1>6, <1>7

\* Each part is where those before it end.
InPlace(w, parts, text, D) ==
    /\ Len(parts) \in Nat /\ w[0] = <<>> /\ text \in Seq(D)
    /\ \A m \in 1..Len(parts) : parts[m] \in Seq(D)
    /\ \A m \in 0..Len(parts) : w[m] \in Seq(D) /\ Len(w[m]) <= Len(text)
    /\ \A m \in 1..Len(parts) :
          /\ Len(w[m]) = Len(w[m - 1]) + Len(parts[m])
          /\ \A j \in 1..Len(parts[m]) : text[Len(w[m - 1]) + j] = parts[m][j]

LEMMA PartsAreInPlace ==
    ASSUME NEW D, NEW parts, NEW text, NEW w, Flattening(w, parts, text, D)
    PROVE  InPlace(w, parts, text, D)
<1> DEFINE n == Len(parts)
           Before(m, k) == Len(w[m]) <= Len(w[k]) /\ \A j \in 1..Len(w[m]) : w[k][j] = w[m][j]
           I == {k \in 0..n : \A m \in 0..k : Before(m, k)}
<1>1. n \in Nat /\ \A m \in 1..n : parts[m] \in Seq(D)
  <2> parts \in Seq(Seq(D))
    BY DEF Flattening
  <2> DEFINE S == Seq(D)
  <2> HIDE DEF S
  <2>1. n \in Nat /\ \A m \in 1..n : parts[m] \in S
    BY DEF S
  <2> QED BY <2>1 DEF S
<1>t. text = w[n]
  BY DEF Flattening
<1>z. w[0] = <<>>
  BY DEF Flattening
<1>a. /\ \A m \in 0..n : w[m] \in Seq(D)
      /\ \A m \in 1..n : w[m] = w[m - 1] \o parts[m]
  <2> DEFINE S == Seq(D)
  <2>1. w \in [0..n -> S] /\ \A m \in 1..n : w[m] = w[m - 1] \o parts[m]
    BY DEF Flattening
  <2> HIDE DEF S, n
  <2>2. \A m \in 0..n : w[m] \in S
    BY <2>1
  <2> QED BY <2>1, <2>2 DEF S
<1> HIDE DEF n
<1>2. ASSUME NEW m \in 1..n
      PROVE  /\ Len(w[m]) = Len(w[m - 1]) + Len(parts[m])
             /\ Len(w[m]) \in Nat /\ Len(w[m - 1]) \in Nat /\ Len(parts[m]) \in Nat
             /\ \A j \in 1..Len(w[m - 1]) : w[m][j] = w[m - 1][j]
             /\ \A j \in 1..Len(parts[m]) : w[m][Len(w[m - 1]) + j] = parts[m][j]
  <2>1. m - 1 \in 0..n /\ m \in 0..n
    BY <1>1
  <2>2. w[m - 1] \in Seq(D) /\ parts[m] \in Seq(D) /\ w[m] = w[m - 1] \o parts[m]
    BY <1>1, <1>a, <2>1
  <2>3. Len(w[m]) \in Nat
    BY <1>a, <2>1
  <2> DEFINE a == w[m - 1]
             b == parts[m]
             c == w[m]
  <2>4. a \in Seq(D) /\ b \in Seq(D) /\ c = a \o b /\ Len(c) \in Nat
    BY <2>2, <2>3
  <2>5. /\ Len(c) = Len(a) + Len(b) /\ Len(c) \in Nat /\ Len(a) \in Nat /\ Len(b) \in Nat
        /\ \A j \in 1..Len(a) : c[j] = a[j]
        /\ \A j \in 1..Len(b) : c[Len(a) + j] = b[j]
    <3> HIDE DEF a, b, c
    <3> QED BY <2>4, Concatenated
  <2> QED BY <2>5
<1>b. \A m \in 0..n : Len(w[m]) \in Nat
  BY <1>a
<1>3. 0 \in I
  BY <1>1
<1>4. \A k \in 0..n : k \in I /\ k < n => k + 1 \in I
  <2> SUFFICES ASSUME NEW k \in 0..n, \A m \in 0..k : Before(m, k), k < n, NEW m \in 0..(k + 1)
               PROVE  Before(m, k + 1)
    <3> HIDE DEF Before
    <3> SUFFICES ASSUME NEW k \in 0..n, k \in I, k < n PROVE k + 1 \in I
      OBVIOUS
    <3>1. k + 1 \in 0..n /\ \A m \in 0..k : Before(m, k)
      BY <1>1
    <3> QED BY <3>1
  <2>1. k + 1 \in 1..n /\ (k + 1) - 1 = k
    BY <1>1
  <2>2. Before(k, k + 1)
    <3> DEFINE m1 == k + 1
    <3>1. m1 \in 1..n /\ m1 - 1 = k
      BY <2>1
    <3>2. /\ Len(w[m1]) = Len(w[m1 - 1]) + Len(parts[m1])
          /\ Len(w[m1 - 1]) \in Nat /\ Len(parts[m1]) \in Nat
          /\ \A j \in 1..Len(w[m1 - 1]) : w[m1][j] = w[m1 - 1][j]
      <4> HIDE DEF m1
      <4> QED BY <1>2, <3>1
    <3>3. /\ Len(w[m1]) = Len(w[k]) + Len(parts[m1])
          /\ Len(w[k]) \in Nat /\ Len(parts[m1]) \in Nat
          /\ \A j \in 1..Len(w[k]) : w[m1][j] = w[k][j]
      BY <3>1, <3>2
    <3> HIDE DEF m1
    <3>4. Len(w[k]) <= Len(w[m1])
      <4> DEFINE a == Len(w[k])
                 b == Len(parts[m1])
                 c == Len(w[m1])
      <4>1. a \in Nat /\ b \in Nat /\ c = a + b
        BY <3>3
      <4> HIDE DEF a, b, c
      <4>2. a <= c
        BY <4>1
      <4> QED BY <4>2 DEF a, c
    <3> QED BY <3>3, <3>4 DEF m1
  <2>3. CASE m = k + 1
    <3>1. Len(w[k + 1]) \in Nat
      BY <1>2, <2>1
    <3> QED BY <2>3, <3>1
  <2>4. CASE m # k + 1
    <3>1. m \in 0..k /\ Before(m, k)
      BY <2>4
    <3>2. Len(w[m]) \in Nat /\ Len(w[k]) \in Nat /\ Len(w[k + 1]) \in Nat
      <4>1. m \in 0..n /\ k + 1 \in 0..n
        BY <1>1, <2>1, <3>1
      <4> QED BY <1>b, <4>1
    <3> QED BY <2>2, <3>1, <3>2
  <2> QED BY <2>3, <2>4
<1>5. \A k \in 0..n : k \in I
  <2> HIDE DEF I
  <2> QED BY <1>1, <1>3, <1>4, Induction
<1>6. \A m \in 0..n : Before(m, n)
  BY <1>1, <1>5
<1>7. ASSUME NEW m \in 1..n, NEW j \in 1..Len(parts[m])
      PROVE  w[n][Len(w[m - 1]) + j] = parts[m][j]
  <2>1. Len(w[m - 1]) \in Nat /\ Len(w[m]) = Len(w[m - 1]) + Len(parts[m]) /\ Len(parts[m]) \in Nat
    BY <1>2
  <2>2. Len(w[m - 1]) + j \in 1..Len(w[m])
    <3> DEFINE a == Len(w[m - 1])
               b == Len(parts[m])
               c == Len(w[m])
    <3>1. a \in Nat /\ b \in Nat /\ c = a + b /\ j \in 1..b
      BY <2>1
    <3> HIDE DEF a, b, c
    <3>2. a + j \in 1..c
      BY <3>1
    <3> QED BY <3>2 DEF a, c
  <2>3. m \in 0..n
    BY <1>1
  <2>4. w[n][Len(w[m - 1]) + j] = w[m][Len(w[m - 1]) + j]
    BY <1>6, <2>2, <2>3
  <2> QED BY <1>2, <2>4
<1>8. text \in Seq(D)
  <2>1. n \in 0..n
    BY <1>1
  <2> QED BY <1>a, <1>t, <2>1
<1>9. \A m \in 0..n : w[m] \in Seq(D) /\ Len(w[m]) <= Len(text)
  BY <1>a, <1>6, <1>t
<1>10. ASSUME NEW m \in 1..n
       PROVE  /\ Len(w[m]) = Len(w[m - 1]) + Len(parts[m])
              /\ \A j \in 1..Len(parts[m]) : text[Len(w[m - 1]) + j] = parts[m][j]
  BY <1>2, <1>7, <1>t
<1> HIDE DEF I
<1> QED BY <1>1, <1>z, <1>8, <1>9, <1>10 DEF n, InPlace

\* The same, from the end of one part to the next.
Follows(w, parts, text, D, m) ==
    /\ w[m] \in Seq(D) /\ w[m + 1] \in Seq(D) /\ parts[m + 1] \in Seq(D)
    /\ Len(w[m]) \in Nat /\ Len(parts[m + 1]) \in Nat
    /\ Len(w[m + 1]) = Len(w[m]) + Len(parts[m + 1])
    /\ Len(w[m]) + Len(parts[m + 1]) <= Len(text)
    /\ \A j \in 1..Len(parts[m + 1]) : text[Len(w[m]) + j] = parts[m + 1][j]

LEMMA PartsFollow ==
    ASSUME NEW D, NEW parts, NEW text, NEW w, Flattening(w, parts, text, D),
           NEW m \in 0..Len(parts), m < Len(parts)
    PROVE  Follows(w, parts, text, D, m)
<1> DEFINE n == Len(parts)
           k == m + 1
<1>0. InPlace(w, parts, text, D)
  BY PartsAreInPlace
<1>1. n \in Nat /\ k \in 1..n /\ k \in 0..n /\ m \in 0..n /\ k - 1 = m
  <2>1. n \in Nat
    BY <1>0 DEF InPlace
  <2> QED BY <2>1
<1> HIDE DEF k, n
<1>a. /\ \A i \in 1..n : parts[i] \in Seq(D)
      /\ \A i \in 0..n : w[i] \in Seq(D) /\ Len(w[i]) <= Len(text)
      /\ \A i \in 1..n :
              /\ Len(w[i]) = Len(w[i - 1]) + Len(parts[i])
              /\ \A j \in 1..Len(parts[i]) : text[Len(w[i - 1]) + j] = parts[i][j]
  BY <1>0, Zenon DEF InPlace, n
<1>2. parts[k] \in Seq(D)
  BY <1>1, <1>a
<1>3. /\ w[m] \in Seq(D) /\ w[k] \in Seq(D) /\ Len(w[k]) <= Len(text)
      /\ Len(w[k]) = Len(w[m]) + Len(parts[k])
      /\ \A j \in 1..Len(parts[k]) : text[Len(w[m]) + j] = parts[k][j]
  BY <1>1, <1>a, Zenon
<1>4. /\ w[m] \in Seq(D) /\ w[k] \in Seq(D) /\ parts[k] \in Seq(D)
      /\ Len(w[m]) \in Nat /\ Len(parts[k]) \in Nat
      /\ Len(w[k]) = Len(w[m]) + Len(parts[k])
      /\ Len(w[m]) + Len(parts[k]) <= Len(text)
      /\ \A j \in 1..Len(parts[k]) : text[Len(w[m]) + j] = parts[k][j]
  <2>1. Len(w[m]) \in Nat /\ Len(parts[k]) \in Nat
    BY <1>2, <1>3
  <2>2. Len(w[k]) = Len(w[m]) + Len(parts[k])
    BY <1>1, <1>3
  <2>3. Len(w[m]) + Len(parts[k]) <= Len(text)
    BY <2>2, <1>3
  <2> QED BY <2>1, <2>2, <2>3, <1>1, <1>2, <1>3
<1> QED BY <1>4 DEF k, Follows

-----------------------------------------------------------------------------
(* The chunks of a section. *)

\* Where a chunk ends, of n words, and where the next one starts.
EndsChunk(start, n, end) ==
    /\ end \in 0..n /\ end <= start + MaxWords
    /\ Document!NextStart(end) \in 0..end
    /\ start < n => start < end
    /\ end < n => Document!NextStart(end) > start /\ Document!NextStart(end) + Overlap = end

LEMMA EndOfChunk ==
    ASSUME NEW start \in Nat, NEW n \in Nat
    PROVE  EndsChunk(start, n, Document!Lesser(start + MaxWords, n))
BY WordsAssumption DEF Document!Lesser, Document!NextStart, EndsChunk

Chunks(D) == [chunks: Seq(Seq(D)), start: Nat, done: BOOLEAN]

LEMMA ChunkingIsLoop ==
    ASSUME NEW D, NEW words \in Seq(D),
           NEW w, w = Document!Chunking(words)
    PROVE  /\ w[0] = [chunks |-> <<>>, start |-> 0, done |-> words = <<>>]
           /\ \A m \in 1..Len(words) : w[m] = Document!ChunkedWith(w[m - 1], words)
           /\ \A m \in 0..Len(words) : w[m] \in Chunks(D)
<1> DEFINE n == Len(words)
           S == Chunks(D)
           a == [chunks |-> <<>>, start |-> 0, done |-> words = <<>>]
           Round(m, s) == Document!ChunkedWith(s, words)
           Body(f) == [m \in 0..n |-> IF m = 0 THEN a ELSE Round(m, f[m - 1])]
           step == [m \in 1..n |-> [s \in S |-> Round(m, s)]]
<1>1. w = CHOOSE f : f = Body(f)
  BY DEF Document!Chunking
<1>2. n \in Nat /\ a \in S
  BY DEF Chunks
<1>3. ASSUME NEW m \in 1..n, NEW s \in S PROVE Round(m, s) \in S
  <2> DEFINE end == Document!Lesser(s.start + MaxWords, n)
             piece == SubSeq(words, s.start + 1, end)
  <2>1. s \in [chunks: Seq(Seq(D)), start: Nat, done: BOOLEAN]
    BY DEF Chunks
  <2>2. end \in 0..n /\ Document!NextStart(end) \in Nat
    <3>1. EndsChunk(s.start, n, end)
      BY <1>2, <2>1, EndOfChunk
    <3> HIDE DEF end, n
    <3> QED BY <1>2, <3>1 DEF EndsChunk
  <2>3. piece \in Seq(D)
    <3> HIDE DEF end
    <3>1. s.start + 1 \in Int /\ end \in Int /\ \A i \in (s.start + 1)..end : words[i] \in D
      BY <2>1, <2>2
    <3> QED BY <3>1, SubSeqProperties
  <2>4. Round(m, s) = IF s.done THEN s ELSE [chunks |-> Append(s.chunks, piece),
                          start |-> Document!NextStart(end), done |-> end = n]
    BY DEF Document!ChunkedWith
  <2>5. Append(s.chunks, piece) \in Seq(Seq(D))
    <3> DEFINE T == Seq(D)
    <3> HIDE DEF T, piece
    <3>1. s.chunks \in Seq(T) /\ piece \in T
      BY <2>1, <2>3 DEF T
    <3> QED BY <3>1 DEF T
  <2> HIDE DEF end, piece, Round, n
  <2> QED BY <2>1, <2>2, <2>4, <2>5 DEF Chunks
<1>4. step \in Loops(n, S)
  <2> HIDE DEF n, S, Round
  <2> QED BY <1>3 DEF Loops
<1>5. PICK g : IsLoop(g, n, S, a, step)
  <2> HIDE DEF n, S, a, step
  <2> QED BY <1>2, <1>4, LoopExists
<1>6. g = Body(g)
  <2> HIDE DEF n, S, a, Round
  <2>1. g \in [0..n -> S] /\ g[0] = a /\ \A m \in 1..n : g[m] = step[m][g[m - 1]]
    BY <1>5 DEF IsLoop
  <2>2. \A m \in 1..n : g[m - 1] \in S
    BY <2>1, <1>2
  <2>3. \A m \in 1..n : g[m] = Round(m, g[m - 1])
    BY <2>1, <2>2
  <2> QED BY <2>1, <2>3, <1>2
<1>7. w = Body(w)
  <2> HIDE DEF Body
  <2> QED BY <1>1, <1>6
<1>8. w[0] = a /\ \A m \in 1..n : w[m] = Round(m, w[m - 1])
  <2> HIDE DEF a, n, Round
  <2> QED BY <1>2, <1>7
<1>9. \A m \in 0..n : w[m] \in S
  <2> HIDE DEF n, S, a, Round
  <2> QED BY <1>2, <1>3, <1>8, LoopIn
<1> QED BY <1>8, <1>9

\* A chunk is a part of the words, no longer than the limit, ...
PartOf(chunk, words, a, b) ==
    a \in 0..Len(words) /\ b \in a..Len(words) /\ chunk = SubSeq(words, a + 1, b)

AllParts(chunks, words) ==
    \A c \in 1..Len(chunks) : \E a, b \in Nat : PartOf(chunks[c], words, a, b) /\ b <= a + MaxWords

\* ... and has the words from i to j.
Covers(chunks, words, i, j) ==
    \E c \in 1..Len(chunks) : \E a, b \in Nat : PartOf(chunks[c], words, a, b) /\ a < i /\ j <= b

CoversFrom(chunks, words, k) == Covers(chunks, words, k, Document!Lesser(k + Overlap, Len(words)))

\* What the loop keeps: what is before its start is covered, with the words of the
\* overlap, and it is done before it runs out of rounds.
Chunked(s, words, m) ==
    /\ AllParts(s.chunks, words)
    /\ ~s.done => m <= s.start /\ s.start < Len(words)
    /\ \A k \in 1..Len(words) : s.done \/ k <= s.start => CoversFrom(s.chunks, words, k)

LEMMA MoreCovers ==
    ASSUME NEW D, NEW words \in Seq(D), NEW chunks \in Seq(Seq(D)), NEW piece \in Seq(D)
    PROVE  LET more == Append(chunks, piece) IN
           /\ \A k : CoversFrom(chunks, words, k) => CoversFrom(more, words, k)
           /\ \A a, b \in Nat : AllParts(chunks, words) /\ PartOf(piece, words, a, b)
                /\ b <= a + MaxWords => AllParts(more, words)
           /\ \A a, b, i, j \in Nat : PartOf(piece, words, a, b) /\ a < i /\ j <= b
                => Covers(more, words, i, j)
<1> DEFINE more == Append(chunks, piece)
           T == Seq(D)
<1>1. chunks \in Seq(T) /\ piece \in T
  OBVIOUS
<1> HIDE DEF T
<1>2. /\ Len(chunks) \in Nat /\ Len(more) = Len(chunks) + 1 /\ more[Len(chunks) + 1] = piece
      /\ \A c \in 1..Len(chunks) : more[c] = chunks[c] /\ c \in 1..Len(more)
      /\ Len(chunks) + 1 \in 1..Len(more)
  BY <1>1
<1> HIDE DEF more
<1>3. \A k : CoversFrom(chunks, words, k) => CoversFrom(more, words, k)
  BY <1>2, Zenon DEF CoversFrom, Covers
<1>4. ASSUME NEW a \in Nat, NEW b \in Nat, AllParts(chunks, words), PartOf(piece, words, a, b),
             b <= a + MaxWords
      PROVE  AllParts(more, words)
  <2> SUFFICES ASSUME NEW c \in 1..Len(more)
               PROVE  \E x, y \in Nat : PartOf(more[c], words, x, y) /\ y <= x + MaxWords
    BY DEF AllParts
  <2>1. CASE c = Len(chunks) + 1
    BY <1>2, <1>4, <2>1
  <2>2. CASE c # Len(chunks) + 1
    <3>1. c \in 1..Len(chunks) /\ more[c] = chunks[c]
      BY <1>2, <2>2
    <3> QED BY <1>4, <3>1 DEF AllParts
  <2> QED BY <2>1, <2>2
<1>5. \A a, b, i, j \in Nat : PartOf(piece, words, a, b) /\ a < i /\ j <= b => Covers(more, words, i, j)
  BY <1>2, Zenon DEF Covers
<1> QED BY <1>3, <1>4, <1>5 DEF more

LEMMA ChunkStep ==
    ASSUME NEW D, NEW words \in Seq(D), NEW s \in Chunks(D), NEW m \in Nat, Chunked(s, words, m)
    PROVE  Chunked(Document!ChunkedWith(s, words), words, m + 1)
<1> DEFINE n == Len(words)
           end == Document!Lesser(s.start + MaxWords, n)
           piece == SubSeq(words, s.start + 1, end)
           next == Document!NextStart(end)
           more == Append(s.chunks, piece)
           t == Document!ChunkedWith(s, words)
<1>0. s.chunks \in Seq(Seq(D)) /\ s.start \in Nat /\ s.done \in BOOLEAN /\ n \in Nat
  BY DEF Chunks
<1>1. CASE s.done
  <2>1. t = s
    BY <1>1 DEF Document!ChunkedWith
  <2> QED BY <1>1, <2>1 DEF Chunked
<1>2. CASE ~s.done
  <2>1. t.chunks = more /\ t.start = next /\ t.done = (end = n)
    BY <1>2 DEF Document!ChunkedWith
  <2>2. /\ end \in 0..n /\ end <= s.start + MaxWords
        /\ next \in 0..end
        /\ s.start < n => s.start < end
        /\ end < n => next > s.start /\ next + Overlap = end
    <3>1. EndsChunk(s.start, n, end)
      BY <1>0, EndOfChunk
    <3> HIDE DEF end, n
    <3> QED BY <3>1 DEF EndsChunk
  <2>3. m <= s.start /\ s.start < n
    BY <1>2 DEF Chunked
  <2> HIDE DEF n
  <2>4. PartOf(piece, words, s.start, end) /\ piece \in Seq(D)
    <3> HIDE DEF end
    <3>1. s.start \in 0..n /\ end \in s.start..n
      BY <1>0, <2>2, <2>3
    <3>2. s.start + 1 \in Int /\ end \in Int /\ \A i \in (s.start + 1)..end : words[i] \in D
      BY <1>0, <2>2 DEF n
    <3>3. SubSeq(words, s.start + 1, end) \in Seq(D)
      BY <3>2, SubSeqProperties
    <3> QED BY <3>1, <3>3 DEF PartOf, n
  <2> HIDE DEF end, piece, next, t
  <2>5. /\ \A k : CoversFrom(s.chunks, words, k) => CoversFrom(more, words, k)
        /\ \A a, b \in Nat : AllParts(s.chunks, words) /\ PartOf(piece, words, a, b)
             /\ b <= a + MaxWords => AllParts(more, words)
        /\ \A a, b, i, j \in Nat : PartOf(piece, words, a, b) /\ a < i /\ j <= b
             => Covers(more, words, i, j)
    BY <1>0, <2>4, MoreCovers
  <2> HIDE DEF more
  <2>6. end \in Nat /\ next \in Nat /\ Overlap \in Nat
    BY <1>0, <2>2, WordsAssumption
  <2>7. AllParts(more, words)
    BY <1>0, <2>2, <2>4, <2>5, <2>6 DEF Chunked
  <2>8. ASSUME ~t.done PROVE m + 1 <= t.start /\ t.start < n
    <3>1. end # n
      BY <2>1, <2>8
    <3>2. end < n
      BY <1>0, <2>2, <3>1
    <3> QED BY <1>0, <2>1, <2>2, <2>3, <2>6, <3>2
  <2>9. ASSUME NEW k \in 1..n, t.done \/ k <= t.start PROVE CoversFrom(more, words, k)
    <3>1. CASE k <= s.start
      BY <2>5, <3>1 DEF Chunked, n
    <3>2. CASE ~(k <= s.start)
      <4> DEFINE j == Document!Lesser(k + Overlap, n)
      <4>1. j \in Nat /\ j <= end
        <5>1. end = n \/ k <= next
          BY <2>1, <2>9
        <5>2. end = n \/ k + Overlap <= end
          BY <5>1, <1>0, <2>2, <2>6
        <5> QED BY <5>2, <1>0, <2>2, <2>6 DEF Document!Lesser
      <4>2. s.start < k /\ k \in Nat
        BY <1>0, <3>2
      <4> HIDE DEF j
      <4>3. Covers(more, words, k, j)
        BY <1>0, <2>4, <2>5, <2>6, <4>1, <4>2
      <4> QED BY <4>3 DEF CoversFrom, j, n
    <3> QED BY <3>1, <3>2
  <2> QED BY <2>1, <2>7, <2>8, <2>9 DEF Chunked, n, t
<1> QED BY <1>0, <1>1, <1>2

\* The chunks are parts of the words that together cover them.
WellChunked(chunks, words, D) ==
    /\ chunks \in Seq(Seq(D)) /\ AllParts(chunks, words)
    /\ \A k \in 1..Len(words) : CoversFrom(chunks, words, k)

LEMMA ChunksAreWell ==
    ASSUME NEW D, NEW words \in Seq(D)
    PROVE  WellChunked(Document!ChunkWords(words), words, D)
<1> DEFINE w == Document!Chunking(words)
           n == Len(words)
           I == {m \in 0..n : Chunked(w[m], words, m)}
<1>1. /\ w[0] = [chunks |-> <<>>, start |-> 0, done |-> words = <<>>]
      /\ \A m \in 1..n : w[m] = Document!ChunkedWith(w[m - 1], words)
      /\ \A m \in 0..n : w[m] \in Chunks(D)
  <2> SUFFICES ASSUME NEW v, v = w
               PROVE  /\ v[0] = [chunks |-> <<>>, start |-> 0, done |-> words = <<>>]
                      /\ \A m \in 1..n : v[m] = Document!ChunkedWith(v[m - 1], words)
                      /\ \A m \in 0..n : v[m] \in Chunks(D)
    BY Zenon
  <2> QED BY ChunkingIsLoop
<1>2. Document!ChunkWords(words) = w[n].chunks
  BY DEF Document!ChunkWords
<1> HIDE DEF w
<1>3. n \in Nat /\ (words = <<>> => n = 0) /\ (words # <<>> => n > 0)
  OBVIOUS
<1>4. 0 \in I
  <2>0. w[0].chunks = <<>> /\ w[0].start = 0 /\ w[0].done = (words = <<>>)
    BY <1>1
  <2>d. (w[0].done => words = <<>>) /\ (~w[0].done => words # <<>>)
    BY <2>0, Zenon
  <2> HIDE DEF n
  <2>a. AllParts(w[0].chunks, words)
    BY <2>0 DEF AllParts
  <2>b. ASSUME ~w[0].done PROVE 0 <= w[0].start /\ w[0].start < n
    BY <1>3, <2>0, <2>b, <2>d
  <2>c. ASSUME NEW k \in 1..n, w[0].done \/ k <= w[0].start PROVE FALSE
    <3>1. CASE w[0].done
      <4>1. n = 0
        BY <1>3, <2>d, <3>1
      <4> QED BY <2>c, <4>1
    <3>2. CASE k <= w[0].start
      BY <1>3, <2>0, <2>c, <3>2
    <3> QED BY <2>c, <3>1, <3>2
  <2>1. Chunked(w[0], words, 0)
    BY <2>a, <2>b, <2>c DEF Chunked, n
  <2> QED BY <1>3, <2>1
<1>5. \A m \in 0..n : m \in I /\ m < n => m + 1 \in I
  <2> SUFFICES ASSUME NEW m \in 0..n, m \in I, m < n PROVE m + 1 \in I
    OBVIOUS
  <2>1. m + 1 \in 1..n /\ (m + 1) - 1 = m /\ m \in Nat /\ m + 1 \in 0..n
    BY <1>3
  <2>2. w[m + 1] = Document!ChunkedWith(w[m], words) /\ w[m] \in Chunks(D)
    BY <1>1, <2>1
  <2>3. Chunked(w[m + 1], words, m + 1)
    BY <2>1, <2>2, ChunkStep
  <2> QED BY <2>1, <2>3
<1>6. Chunked(w[n], words, n)
  <2> HIDE DEF I, n
  <2>1. \A m \in 0..n : m \in I
    BY <1>3, <1>4, <1>5, Induction
  <2> QED BY <1>3, <2>1 DEF I
<1>7. w[n].chunks \in Seq(Seq(D)) /\ w[n].start \in Nat /\ w[n].done \in BOOLEAN
  BY <1>1, <1>3 DEF Chunks
<1>8. w[n].done
  BY <1>3, <1>6, <1>7 DEF Chunked
<1> QED BY <1>2, <1>6, <1>7, <1>8 DEF Chunked, WellChunked

\* What stands in a part of the words stands next to each other in the chunk.
LEMMA WindowInChunk ==
    ASSUME NEW D, NEW words \in Seq(D), NEW k \in 1..Len(words), k + Overlap <= Len(words),
           NEW chunk, NEW a \in Nat, NEW b \in Nat, PartOf(chunk, words, a, b), a < k, k + Overlap <= b
    PROVE  Document!Occurs(SubSeq(words, k, k + Overlap), chunk)
<1> DEFINE part == SubSeq(words, k, k + Overlap)
           j == k - 1 - a
           n == Len(words)
<1>0. /\ chunk = SubSeq(words, a + 1, b) /\ a \in 0..n /\ b \in a..n /\ Overlap \in Nat
      /\ n \in Nat /\ \A i \in 1..n : words[i] \in D
  BY WordsAssumption DEF PartOf
<1>1. Len(part) = Overlap + 1
  <2> DEFINE e == k + Overlap
  <2>1. k \in Int /\ e \in Int /\ k <= e /\ e - k + 1 = Overlap + 1 /\ \A i \in k..e : words[i] \in D
    BY <1>0
  <2> HIDE DEF e
  <2>2. Len(SubSeq(words, k, e)) = IF k <= e THEN e - k + 1 ELSE 0
    BY <2>1, SubSeqProperties
  <2> QED BY <2>1, <2>2 DEF e
<1>2. Len(chunk) = b - a
  <2>1. a + 1 \in Int /\ b \in Int /\ \A i \in (a + 1)..b : words[i] \in D
    BY <1>0
  <2>2. Len(chunk) = IF a + 1 <= b THEN b - (a + 1) + 1 ELSE 0
    BY <1>0, <2>1, SubSeqProperties
  <2> QED BY <1>0, <2>2
<1>3. j \in 0..(Len(chunk) - Len(part))
  <2> HIDE DEF part
  <2> QED BY <1>0, <1>1, <1>2
<1>4. SubSeq(chunk, j + 1, j + Len(part)) = part
  <2> DEFINE x == a + 1
             y == j + 1
             z == j + Len(part)
  <2>1. /\ x \in 1..n /\ b \in 1..n /\ y \in 1..(b - x + 1) /\ z \in 1..(b - x + 1)
        /\ x + y - 1 = k /\ x + z - 1 = k + Overlap
    <3> HIDE DEF part, n
    <3> QED BY <1>0, <1>1
  <2> HIDE DEF x, y, z
  <2>2. SubSeq(SubSeq(words, x, b), y, z) = SubSeq(words, x + y - 1, x + z - 1)
    <3>1. x \in 1..Len(words) /\ b \in 1..Len(words)
      BY <2>1
    <3> QED BY <2>1, <3>1, SubSeqOfSubSeq
  <2>3. chunk = SubSeq(words, x, b)
    BY <1>0 DEF x
  <2> QED BY <2>1, <2>2, <2>3 DEF y, z
<1> HIDE DEF j, part
<1>5. Document!Occurs(part, chunk)
  BY <1>3, <1>4, Zenon DEF Document!Occurs
<1> QED BY <1>5 DEF part

\* What WindowsStayTogether says of a section.
Together(words, chunks) ==
    /\ \A c \in 1..Len(chunks) : Len(chunks[c]) <= MaxWords
    /\ \A k \in 1..(Len(words) - Overlap) :
           \E c \in 1..Len(chunks) : Document!Occurs(SubSeq(words, k, k + Overlap), chunks[c])

LEMMA WordsStayTogether ==
    ASSUME NEW D, NEW words \in Seq(D)
    PROVE  Together(words, Document!ChunkWords(words))
<1> DEFINE n == Len(words)
<1> SUFFICES ASSUME NEW chunks, chunks = Document!ChunkWords(words) PROVE Together(words, chunks)
  OBVIOUS
<1>1. WellChunked(chunks, words, D)
  BY ChunksAreWell
<1>2. ASSUME NEW c \in 1..Len(chunks) PROVE Len(chunks[c]) <= MaxWords
  <2>1. PICK a \in Nat, b \in Nat : PartOf(chunks[c], words, a, b) /\ b <= a + MaxWords
    BY <1>1 DEF WellChunked, AllParts
  <2>2. a + 1 \in Int /\ b \in a..n /\ n \in Nat /\ \A i \in (a + 1)..b : words[i] \in D
    BY <2>1 DEF PartOf
  <2>3. Len(chunks[c]) = IF a + 1 <= b THEN b - (a + 1) + 1 ELSE 0
    BY <2>1, <2>2, SubSeqProperties DEF PartOf
  <2> HIDE DEF n
  <2> QED BY <2>1, <2>2, <2>3, WordsAssumption
<1>3. ASSUME NEW k \in 1..(n - Overlap)
      PROVE  \E c \in 1..Len(chunks) : Document!Occurs(SubSeq(words, k, k + Overlap), chunks[c])
  <2>1. k \in 1..n /\ k + Overlap <= n /\ Document!Lesser(k + Overlap, n) = k + Overlap
    BY WordsAssumption DEF Document!Lesser
  <2>2. Covers(chunks, words, k, k + Overlap)
    BY <1>1, <2>1 DEF WellChunked, CoversFrom
  <2>3. PICK c \in 1..Len(chunks) :
            \E a, b \in Nat : PartOf(chunks[c], words, a, b) /\ a < k /\ k + Overlap <= b
    BY <2>2 DEF Covers
  <2>4. PICK a \in Nat, b \in Nat : PartOf(chunks[c], words, a, b) /\ a < k /\ k + Overlap <= b
    BY <2>3
  <2>5. Document!Occurs(SubSeq(words, k, k + Overlap), chunks[c])
    BY <2>1, <2>4, WindowInChunk
  <2> QED BY <2>5
<1> QED BY <1>2, <1>3 DEF Together

\* The chunks have the words there are, and no others.
HaveWords(chunks, words) ==
    UNION {{chunks[c][j] : j \in 1..Len(chunks[c])} : c \in 1..Len(chunks)}
      = {words[k] : k \in 1..Len(words)}

\* The chunks of a section have its words and no others.
LEMMA ChunksHaveWords ==
    ASSUME NEW D, NEW words \in Seq(D), NEW chunks, chunks = Document!ChunkWords(words)
    PROVE  HaveWords(chunks, words)
<1> DEFINE n == Len(words)
           Within(chunk) == {chunk[j] : j \in 1..Len(chunk)}
<1>1. WellChunked(chunks, words, D) /\ n \in Nat /\ Overlap \in Nat
  BY ChunksAreWell, WordsAssumption
<1>2. ASSUME NEW chunk, NEW a \in Nat, NEW b \in Nat, PartOf(chunk, words, a, b)
      PROVE  Within(chunk) = {words[k] : k \in (a + 1)..b} /\ b <= n
  <2>1. a + 1 \in Int /\ b \in a..n /\ \A i \in (a + 1)..b : words[i] \in D
    BY <1>2 DEF PartOf
  <2>2. /\ Len(chunk) = IF a + 1 <= b THEN b - (a + 1) + 1 ELSE 0
        /\ \A i \in 1..(b - (a + 1) + 1) : chunk[i] = words[(a + 1) + i - 1]
    BY <1>2, <2>1, SubSeqProperties DEF PartOf
  <2> HIDE DEF n
  <2>3. Len(chunk) = b - a /\ b <= n
    BY <1>1, <2>1, <2>2
  <2>4. ASSUME NEW i \in 1..(b - a) PROVE chunk[i] = words[a + i] /\ a + i \in (a + 1)..b
    <3>1. i \in 1..(b - (a + 1) + 1) /\ (a + 1) + i - 1 = a + i /\ a + i \in (a + 1)..b
      BY <2>1
    <3>2. chunk[i] = words[(a + 1) + i - 1]
      BY <2>2, <3>1
    <3> QED BY <3>1, <3>2
  <2>5. ASSUME NEW k \in (a + 1)..b PROVE words[k] \in Within(chunk)
    <3> DEFINE i == k - a
    <3>1. i \in 1..(b - a) /\ a + i = k
      BY <2>1
    <3> HIDE DEF i
    <3>2. chunk[i] = words[k] /\ i \in 1..Len(chunk)
      BY <2>3, <2>4, <3>1
    <3> QED BY <3>2
  <2>6. ASSUME NEW x \in Within(chunk) PROVE x \in {words[k] : k \in (a + 1)..b}
    <3>1. PICK i \in 1..(b - a) : x = chunk[i]
      BY <2>3
    <3> QED BY <2>4, <3>1
  <2>7. Within(chunk) \subseteq {words[k] : k \in (a + 1)..b}
    <3> HIDE DEF Within
    <3> QED BY <2>6
  <2>8. {words[k] : k \in (a + 1)..b} \subseteq Within(chunk)
    <3> HIDE DEF Within
    <3> QED BY <2>5
  <2> HIDE DEF Within
  <2> QED BY <2>3, <2>7, <2>8
<1>3. ASSUME NEW c \in 1..Len(chunks), NEW x \in Within(chunks[c]) PROVE x \in {words[k] : k \in 1..n}
  <2>1. PICK a \in Nat, b \in Nat : PartOf(chunks[c], words, a, b)
    BY <1>1 DEF WellChunked, AllParts
  <2>2. x \in {words[k] : k \in (a + 1)..b} /\ b <= n
    <3> HIDE DEF Within
    <3> QED BY <1>2, <1>3, <2>1
  <2>3. \A k \in (a + 1)..b : k \in 1..n
    BY <1>1, <2>2
  <2> QED BY <2>2, <2>3
<1>4. ASSUME NEW k \in 1..n PROVE \E c \in 1..Len(chunks) : words[k] \in Within(chunks[c])
  <2> DEFINE j == Document!Lesser(k + Overlap, n)
  <2>1. j \in Nat /\ k <= j
    BY <1>1 DEF Document!Lesser
  <2>2. Covers(chunks, words, k, j)
    BY <1>1 DEF WellChunked, CoversFrom
  <2> HIDE DEF j
  <2>3. PICK c \in 1..Len(chunks) :
            \E a, b \in Nat : PartOf(chunks[c], words, a, b) /\ a < k /\ j <= b
    BY <2>2 DEF Covers
  <2>4. PICK a \in Nat, b \in Nat : PartOf(chunks[c], words, a, b) /\ a < k /\ j <= b
    BY <2>3
  <2>5. k \in (a + 1)..b
    BY <2>1, <2>4
  <2>6. Within(chunks[c]) = {words[i] : i \in (a + 1)..b}
    <3> HIDE DEF Within
    <3> QED BY <1>2, <2>4
  <2>7. words[k] \in {words[i] : i \in (a + 1)..b}
    BY <2>5
  <2> HIDE DEF Within
  <2> QED BY <2>6, <2>7
<1> DEFINE S == {Within(chunks[c]) : c \in 1..Len(chunks)}
           T == {words[k] : k \in 1..n}
<1>5. UNION S \subseteq T
  <2> HIDE DEF Within, T
  <2> QED BY <1>3 DEF T
<1>6. T \subseteq UNION S
  <2> HIDE DEF Within, S
  <2> QED BY <1>4 DEF S
<1>7. UNION S = T
  <2> HIDE DEF S, T
  <2> QED BY <1>5, <1>6
<1> QED BY <1>7 DEF HaveWords

-----------------------------------------------------------------------------
(* What is made of a document is sequences of its positions. *)

\* The block ends at the first closing tag from i on.
BlockEndsAt(doc, i, end) ==
    end \in Nat /\ end \in Document!Closings(doc, i) /\ \A k \in Document!Closings(doc, i) : end <= k

LEMMA BlockEnds ==
    ASSUME NEW doc, Len(doc) \in Nat, NEW i \in Nat, Document!Closings(doc, i) # {}
    PROVE  BlockEndsAt(doc, i, Document!BlockEnd(doc, i))
<1> DEFINE T == Document!Closings(doc, i)
           end == CHOOSE j \in T : \A k \in T : j <= k
<1>1. T \in SUBSET Nat
  BY DEF Document!Closings
<1>2. Document!BlockEnd(doc, i) = end
  BY DEF Document!BlockEnd, Document!FirstClosing
<1>3. end \in T /\ \A k \in T : end <= k
  <2>0. T # {}
    OBVIOUS
  <2> HIDE DEF T
  <2>1. \E x \in T : \A y \in T : x <= y
    BY <1>1, <2>0, LeastNumber
  <2> QED BY <2>1
<1> HIDE DEF end
<1> QED BY <1>1, <1>2, <1>3 DEF BlockEndsAt

Clean(doc) == [kept: Seq(1..Len(doc)), until: Nat]

LEMMA CleaningIsLoop ==
    ASSUME NEW doc \in Seq(Document!Items),
           NEW w, w = Document!Cleaning(doc)
    PROVE  /\ w[0] = [kept |-> <<>>, until |-> 0]
           /\ \A m \in 1..Len(doc) : w[m] = Document!CleanedWith(w[m - 1], doc, m)
           /\ \A m \in 0..Len(doc) : w[m] \in Clean(doc)
<1> DEFINE n == Len(doc)
           S == Clean(doc)
           a == [kept |-> <<>>, until |-> 0]
           Round(m, s) == Document!CleanedWith(s, doc, m)
           Body(f) == [m \in 0..n |-> IF m = 0 THEN a ELSE Round(m, f[m - 1])]
           step == [m \in 1..n |-> [s \in S |-> Round(m, s)]]
<1>1. w = CHOOSE f : f = Body(f)
  BY DEF Document!Cleaning
<1>2. n \in Nat /\ a \in S
  BY DEF Clean
<1>3. ASSUME NEW m \in 1..n, NEW s \in S PROVE Round(m, s) \in S
  <2>1. s \in [kept: Seq(1..n), until: Nat] /\ m \in 1..n /\ m \in Nat
    BY <1>2 DEF Clean
  <2>2. ASSUME Document!Closings(doc, m) # {} PROVE Document!BlockEnd(doc, m) \in Nat
    BY <1>2, <2>1, <2>2, BlockEnds DEF BlockEndsAt
  <2>3. CASE m <= s.until
    BY <2>3 DEF Document!CleanedWith
  <2>4. CASE ~(m <= s.until) /\ doc[m] = "open" /\ Document!Closings(doc, m) # {}
    <3>1. Round(m, s) = [kept |-> s.kept, until |-> Document!BlockEnd(doc, m)]
      BY <2>4, Zenon DEF Document!CleanedWith
    <3> HIDE DEF Round
    <3> QED BY <2>1, <2>2, <2>4, <3>1 DEF Clean
  <2>5. CASE ~(m <= s.until) /\ ~(doc[m] = "open" /\ Document!Closings(doc, m) # {})
    <3>1. Round(m, s) = [kept |-> Append(s.kept, m), until |-> s.until]
      BY <2>5, Zenon DEF Document!CleanedWith
    <3> HIDE DEF Round
    <3> QED BY <2>1, <3>1 DEF Clean
  <2> QED BY <2>3, <2>4, <2>5
<1>4. step \in Loops(n, S)
  <2> HIDE DEF n, S, Round
  <2> QED BY <1>3 DEF Loops
<1>5. PICK g : IsLoop(g, n, S, a, step)
  <2> HIDE DEF n, S, a, step
  <2> QED BY <1>2, <1>4, LoopExists
<1>6. g = Body(g)
  <2> HIDE DEF n, S, a, Round
  <2>1. g \in [0..n -> S] /\ g[0] = a /\ \A m \in 1..n : g[m] = step[m][g[m - 1]]
    BY <1>5 DEF IsLoop
  <2>2. \A m \in 1..n : g[m - 1] \in S
    BY <2>1, <1>2
  <2>3. \A m \in 1..n : g[m] = Round(m, g[m - 1])
    BY <2>1, <2>2
  <2> QED BY <2>1, <2>3, <1>2
<1>7. w = Body(w)
  <2> HIDE DEF Body
  <2> QED BY <1>1, <1>6
<1>8. w[0] = a /\ \A m \in 1..n : w[m] = Round(m, w[m - 1])
  <2> HIDE DEF a, n, Round
  <2> QED BY <1>2, <1>7
<1>9. \A m \in 0..n : w[m] \in S
  <2> HIDE DEF n, S, a, Round
  <2> QED BY <1>2, <1>3, <1>8, LoopIn
<1> QED BY <1>8, <1>9

Parsed(P) == [words: Seq(P), depth: Nat]

LEMMA ParsingIsLoop ==
    ASSUME NEW doc, NEW P, NEW fragment \in Seq(P),
           NEW w, w = Document!Parsing(doc, fragment)
    PROVE  /\ w[0] = [words |-> <<>>, depth |-> 0]
           /\ \A m \in 1..Len(fragment) : w[m] = Document!Handled(w[m - 1], doc, fragment[m])
           /\ \A m \in 0..Len(fragment) : w[m] \in Parsed(P)
<1> DEFINE n == Len(fragment)
           S == Parsed(P)
           a == [words |-> <<>>, depth |-> 0]
           Round(m, s) == Document!Handled(s, doc, fragment[m])
           Body(f) == [m \in 0..n |-> IF m = 0 THEN a ELSE Round(m, f[m - 1])]
           step == [m \in 1..n |-> [s \in S |-> Round(m, s)]]
<1>1. w = CHOOSE f : f = Body(f)
  BY DEF Document!Parsing
<1>2. n \in Nat /\ a \in S
  BY DEF Parsed
<1>3. ASSUME NEW m \in 1..n, NEW s \in S PROVE Round(m, s) \in S
  <2> DEFINE i == fragment[m]
  <2>1. s \in [words: Seq(P), depth: Nat] /\ i \in P
    BY DEF Parsed
  <2> HIDE DEF i
  <2>2. Document!Handled(s, doc, i) \in Parsed(P)
    BY <2>1 DEF Document!Handled, Parsed
  <2> QED BY <2>2 DEF i
<1>4. step \in Loops(n, S)
  <2> HIDE DEF n, S, Round
  <2> QED BY <1>3 DEF Loops
<1>5. PICK g : IsLoop(g, n, S, a, step)
  <2> HIDE DEF n, S, a, step
  <2> QED BY <1>2, <1>4, LoopExists
<1>6. g = Body(g)
  <2> HIDE DEF n, S, a, Round
  <2>1. g \in [0..n -> S] /\ g[0] = a /\ \A m \in 1..n : g[m] = step[m][g[m - 1]]
    BY <1>5 DEF IsLoop
  <2>2. \A m \in 1..n : g[m - 1] \in S
    BY <2>1, <1>2
  <2>3. \A m \in 1..n : g[m] = Round(m, g[m - 1])
    BY <2>1, <2>2
  <2> QED BY <2>1, <2>3, <1>2
<1>7. w = Body(w)
  <2> HIDE DEF Body
  <2> QED BY <1>1, <1>6
<1>8. w[0] = a /\ \A m \in 1..n : w[m] = Round(m, w[m - 1])
  <2> HIDE DEF a, n, Round
  <2> QED BY <1>2, <1>7
<1>9. \A m \in 0..n : w[m] \in S
  <2> HIDE DEF n, S, a, Round
  <2> QED BY <1>2, <1>3, <1>8, LoopIn
<1> QED BY <1>8, <1>9

LEMMA TextIsWords ==
    ASSUME NEW doc, NEW P, NEW fragment \in Seq(P)
    PROVE  Document!HtmlToText(doc, fragment) \in Seq(P)
<1> DEFINE w == Document!Parsing(doc, fragment)
           n == Len(fragment)
<1> SUFFICES ASSUME NEW v, v = w PROVE v[n].words \in Seq(P)
  BY DEF Document!HtmlToText
<1>1. \A m \in 0..n : v[m] \in Parsed(P)
  BY ParsingIsLoop
<1>2. n \in 0..n
  OBVIOUS
<1> QED BY <1>1, <1>2 DEF Parsed

LEMMA LevelIs ==
    ASSUME NEW item \in Document!Headings
    PROVE  Document!Level(item) \in 1..3
BY DEF Document!Headings, Document!Level

\* The first l - 1 of the stack, or all of it.
IsTrimmed(stack, l, rest, P) ==
    /\ rest \in Seq(P) /\ Len(rest) = Document!Lesser(Len(stack), l - 1)
    /\ Len(rest) \in Nat /\ Len(stack) \in Nat /\ Len(rest) <= Len(stack)
    /\ \A j \in 1..Len(rest) : rest[j] = stack[j]

LEMMA TrimmedIs ==
    ASSUME NEW P, NEW stack \in Seq(P), NEW l \in Nat, l > 0
    PROVE  IsTrimmed(stack, l, Document!Trimmed(stack, l), P)
<1> DEFINE b == Document!Lesser(Len(stack), l - 1)
           rest == SubSeq(stack, 1, b)
<1>1. Len(stack) \in Nat /\ b \in 0..Len(stack) /\ \A i \in 1..b : stack[i] \in P
  BY DEF Document!Lesser
<1> HIDE DEF b
<1>2. /\ rest \in Seq(P) /\ Len(rest) = (IF 1 <= b THEN b - 1 + 1 ELSE 0)
      /\ \A i \in 1..(b - 1 + 1) : rest[i] = stack[1 + i - 1]
  <2>1. 1 \in Int /\ b \in Int
    BY <1>1
  <2> QED BY <1>1, <2>1, SubSeqProperties
<1> HIDE DEF rest
<1>3. Len(rest) = b /\ b - 1 + 1 = b
  BY <1>1, <1>2
<1>4. \A i \in 1..b : rest[i] = stack[i]
  BY <1>1, <1>2, <1>3
<1>5. Document!Trimmed(stack, l) = rest
  BY DEF Document!Trimmed, rest, b
<1> QED BY <1>1, <1>2, <1>3, <1>4, <1>5 DEF IsTrimmed, b

Section(P) == [path: Seq(P), words: Seq(P)]

LEMMA FlushedSections ==
    ASSUME NEW doc, NEW P, NEW sections \in Seq(Section(P)), NEW fragment \in Seq(P), NEW stack \in Seq(P)
    PROVE  Document!Flushed(doc, sections, fragment, stack) \in Seq(Section(P))
<1> DEFINE words == Document!HtmlToText(doc, fragment)
           section == [path |-> stack, words |-> words]
           S == Section(P)
<1>1. words \in Seq(P)
  BY TextIsWords
<1> HIDE DEF words
<1>2. section \in S
  BY <1>1 DEF Section
<1>3. Document!Flushed(doc, sections, fragment, stack)
        = IF words = <<>> THEN sections ELSE Append(sections, section)
  BY DEF Document!Flushed, words
<1> HIDE DEF S, section
<1>4. sections \in Seq(S)
  BY DEF S
<1>5. Append(sections, section) \in Seq(S)
  BY <1>2, <1>4
<1> QED BY <1>3, <1>4, <1>5 DEF S

Split(P) == [sections: Seq(Section(P)), fragment: Seq(P), stack: Seq(P)]

LEMMA SplittingIsLoop ==
    ASSUME NEW doc, NEW P, NEW html \in Seq(P),
           NEW w, w = Document!Splitting(doc, html)
    PROVE  /\ w[0] = [sections |-> <<>>, fragment |-> <<>>, stack |-> <<>>]
           /\ \A m \in 1..Len(html) : w[m] = Document!SplitWith(w[m - 1], doc, html[m])
           /\ \A m \in 0..Len(html) : w[m] \in Split(P)
<1> DEFINE n == Len(html)
           S == Split(P)
           a == [sections |-> <<>>, fragment |-> <<>>, stack |-> <<>>]
           Round(m, s) == Document!SplitWith(s, doc, html[m])
           Body(f) == [m \in 0..n |-> IF m = 0 THEN a ELSE Round(m, f[m - 1])]
           step == [m \in 1..n |-> [s \in S |-> Round(m, s)]]
<1>1. w = CHOOSE f : f = Body(f)
  BY DEF Document!Splitting
<1>2. n \in Nat /\ a \in S
  BY DEF Split
<1>3. ASSUME NEW m \in 1..n, NEW s \in S PROVE Round(m, s) \in S
  <2> DEFINE i == html[m]
             rest == Document!Trimmed(s.stack, Document!Level(doc[i]))
             flushed == Document!Flushed(doc, s.sections, s.fragment, s.stack)
  <2>1. s.sections \in Seq(Section(P)) /\ s.fragment \in Seq(P) /\ s.stack \in Seq(P) /\ i \in P
    BY DEF Split
  <2> HIDE DEF i
  <2>2. CASE doc[i] \in Document!Headings
    <3>1. Document!Level(doc[i]) \in Nat /\ Document!Level(doc[i]) > 0
      BY <2>2, LevelIs
    <3>2. rest \in Seq(P)
      BY <2>1, <3>1, TrimmedIs DEF IsTrimmed
    <3>3. flushed \in Seq(Section(P))
      BY <2>1, FlushedSections
    <3>4. Document!SplitWith(s, doc, i) = [sections |-> flushed, fragment |-> <<>>, stack |-> Append(rest, i)]
      BY <2>2 DEF Document!SplitWith
    <3> HIDE DEF rest, flushed
    <3>5. Append(rest, i) \in Seq(P) /\ <<>> \in Seq(P)
      BY <2>1, <3>2
    <3>6. Document!SplitWith(s, doc, i) \in Split(P)
      BY <3>3, <3>4, <3>5 DEF Split
    <3> QED BY <3>6 DEF i
  <2>3. CASE doc[i] \notin Document!Headings
    <3>1. Document!SplitWith(s, doc, i)
            = [sections |-> s.sections, fragment |-> Append(s.fragment, i), stack |-> s.stack]
      BY <2>3 DEF Document!SplitWith
    <3>2. Append(s.fragment, i) \in Seq(P)
      BY <2>1
    <3>3. Document!SplitWith(s, doc, i) \in Split(P)
      BY <2>1, <3>1, <3>2 DEF Split
    <3> QED BY <3>3 DEF i
  <2> QED BY <2>2, <2>3
<1>4. step \in Loops(n, S)
  <2> HIDE DEF n, S, Round
  <2> QED BY <1>3 DEF Loops
<1>5. PICK g : IsLoop(g, n, S, a, step)
  <2> HIDE DEF n, S, a, step
  <2> QED BY <1>2, <1>4, LoopExists
<1>6. g = Body(g)
  <2> HIDE DEF n, S, a, Round
  <2>1. g \in [0..n -> S] /\ g[0] = a /\ \A m \in 1..n : g[m] = step[m][g[m - 1]]
    BY <1>5 DEF IsLoop
  <2>2. \A m \in 1..n : g[m - 1] \in S
    BY <2>1, <1>2
  <2>3. \A m \in 1..n : g[m] = Round(m, g[m - 1])
    BY <2>1, <2>2
  <2> QED BY <2>1, <2>3, <1>2
<1>7. w = Body(w)
  <2> HIDE DEF Body
  <2> QED BY <1>1, <1>6
<1>8. w[0] = a /\ \A m \in 1..n : w[m] = Round(m, w[m - 1])
  <2> HIDE DEF a, n, Round
  <2> QED BY <1>2, <1>7
<1>9. \A m \in 0..n : w[m] \in S
  <2> HIDE DEF n, S, a, Round
  <2> QED BY <1>2, <1>3, <1>8, LoopIn
<1> QED BY <1>8, <1>9

LEMMA StrippedIs ==
    ASSUME NEW doc \in Seq(Document!Items)
    PROVE  Document!Stripped(doc) \in Seq(1..Len(doc))
<1> DEFINE w == Document!Cleaning(doc)
           n == Len(doc)
<1> SUFFICES ASSUME NEW v, v = w PROVE v[n].kept \in Seq(1..n)
  BY DEF Document!Stripped
<1>1. \A m \in 0..n : v[m] \in Clean(doc)
  BY CleaningIsLoop
<1>2. n \in 0..n
  OBVIOUS
<1> QED BY <1>1, <1>2 DEF Clean

\* A round of the narrowing.
Narrowed(doc, html, m, q) == IF Document!Taken(doc, html, m) THEN Append(q, html[m]) ELSE q

LEMMA NarrowingIsLoop ==
    ASSUME NEW doc, NEW P, NEW html \in Seq(P),
           NEW w, w = Document!Narrowing(doc, html)
    PROVE  /\ w[0] = <<>>
           /\ \A m \in 1..Len(html) : w[m] = Narrowed(doc, html, m, w[m - 1])
           /\ \A m \in 0..Len(html) : w[m] \in Seq(P)
<1> DEFINE n == Len(html)
           S == Seq(P)
           a == <<>>
           Round(m, s) == Narrowed(doc, html, m, s)
           Body(f) == [m \in 0..n |-> IF m = 0 THEN a ELSE Round(m, f[m - 1])]
           step == [m \in 1..n |-> [s \in S |-> Round(m, s)]]
<1>1. w = CHOOSE f : f = Body(f)
  BY DEF Document!Narrowing, Narrowed
<1>2. n \in Nat /\ a \in S
  OBVIOUS
<1>3. ASSUME NEW m \in 1..n, NEW s \in S PROVE Round(m, s) \in S
  <2>1. html[m] \in P
    OBVIOUS
  <2>2. Append(s, html[m]) \in S
    BY <2>1
  <2> QED BY <2>2 DEF Narrowed
<1>4. step \in Loops(n, S)
  <2> HIDE DEF n, S, Round
  <2> QED BY <1>3 DEF Loops
<1>5. PICK g : IsLoop(g, n, S, a, step)
  <2> HIDE DEF n, S, a, step
  <2> QED BY <1>2, <1>4, LoopExists
<1>6. g = Body(g)
  <2> HIDE DEF n, S, a, Round
  <2>1. g \in [0..n -> S] /\ g[0] = a /\ \A m \in 1..n : g[m] = step[m][g[m - 1]]
    BY <1>5 DEF IsLoop
  <2>2. \A m \in 1..n : g[m - 1] \in S
    BY <2>1, <1>2
  <2>3. \A m \in 1..n : g[m] = Round(m, g[m - 1])
    BY <2>1, <2>2
  <2> QED BY <2>1, <2>3, <1>2
<1>7. w = Body(w)
  <2> HIDE DEF Body
  <2> QED BY <1>1, <1>6
<1>8. w[0] = a /\ \A m \in 1..n : w[m] = Round(m, w[m - 1])
  <2> HIDE DEF a, n, Round
  <2> QED BY <1>2, <1>7
<1>9. \A m \in 0..n : w[m] \in S
  <2> HIDE DEF n, S, a, Round
  <2> QED BY <1>2, <1>3, <1>8, LoopIn
<1> QED BY <1>8, <1>9

LEMMA ContentIs ==
    ASSUME NEW doc, NEW P, NEW html \in Seq(P)
    PROVE  Document!MainContent(doc, html) \in Seq(P)
<1> SUFFICES ASSUME NEW w, w = Document!Narrowing(doc, html) PROVE w[Len(html)] \in Seq(P)
  BY DEF Document!MainContent
<1>1. \A m \in 0..Len(html) : w[m] \in Seq(P)
  BY NarrowingIsLoop
<1>2. Len(html) \in 0..Len(html)
  OBVIOUS
<1> QED BY <1>1, <1>2

LEMMA HtmlIsClean ==
    ASSUME NEW doc \in Seq(Document!Items)
    PROVE  Document!CleanHtml(doc) \in Seq(1..Len(doc))
BY StrippedIs, ContentIs DEF Document!CleanHtml

LEMMA SectionsAre ==
    ASSUME NEW doc, NEW P, NEW html \in Seq(P)
    PROVE  Document!SplitSections(doc, html) \in Seq(Section(P))
<1> DEFINE w == Document!Splitting(doc, html)
           n == Len(html)
           last == w[n]
           sections == Document!Flushed(doc, last.sections, last.fragment, last.stack)
           whole == Document!Flushed(doc, <<>>, html, <<>>)
<1>1. last \in Split(P)
  <2> SUFFICES ASSUME NEW v, v = w PROVE v[n] \in Split(P)
    OBVIOUS
  <2>1. \A m \in 0..n : v[m] \in Split(P)
    BY SplittingIsLoop
  <2>2. n \in 0..n
    OBVIOUS
  <2> QED BY <2>1, <2>2
<1>2. Document!SplitSections(doc, html) = IF sections = <<>> THEN whole ELSE sections
  BY DEF Document!SplitSections
<1> HIDE DEF last
<1>3. sections \in Seq(Section(P))
  BY <1>1, FlushedSections DEF Split
<1>4. whole \in Seq(Section(P))
  <2>1. <<>> \in Seq(Section(P)) /\ <<>> \in Seq(P)
    OBVIOUS
  <2> QED BY <2>1, FlushedSections
<1> HIDE DEF sections, whole
<1> QED BY <1>2, <1>3, <1>4

\* The sections of a document.
LEMMA SectionsOfDocument ==
    ASSUME NEW doc \in Seq(Document!Items)
    PROVE  Document!Sections(doc) \in Seq(Section(1..Len(doc)))
BY HtmlIsClean, SectionsAre DEF Document!Sections

\* A section with its path in front: its words, and headings or separators.
PrefixedWith(section, words) ==
    /\ words \in Seq(Nat)
    /\ \A k \in 1..Len(words) :
          \/ words[k] = 0
          \/ \E i \in 1..Len(section.path) : words[k] = section.path[i]
          \/ \E i \in 1..Len(section.words) : words[k] = section.words[i]
    /\ \A i \in 1..Len(section.words) : \E k \in 1..Len(words) : words[k] = section.words[i]

\* The path as words.
PathIsIn(path, words) ==
    /\ words \in Seq(Nat)
    /\ \A k \in 1..Len(words) : words[k] = 0 \/ \E i \in 1..Len(path) : words[k] = path[i]

LEMMA PathIsWords ==
    ASSUME NEW n \in Nat, NEW path \in Seq(1..n)
    PROVE  PathIsIn(path, Document!PathWords(path))
<1>1. CASE path = <<>>
  <2>1. Document!PathWords(path) = <<>>
    BY <1>1 DEF Document!PathWords
  <2> QED BY <2>1 DEF PathIsIn
<1>2. CASE path # <<>>
  <2> DEFINE l == Len(path)
             L == 2 * l - 1
             word(i) == IF i % 2 = 1 THEN path[(i + 1) \div 2] ELSE 0
             words == [i \in 1..L |-> word(i)]
  <2>1. Document!PathWords(path) = words
    BY <1>2 DEF Document!PathWords, Document!Separator
  <2>2. l \in Nat /\ l > 0 /\ L \in Nat
    BY <1>2
  <2>3. ASSUME NEW i \in 1..L PROVE word(i) \in Nat /\ (word(i) = 0 \/ \E j \in 1..l : word(i) = path[j])
    <3>1. CASE i % 2 = 1
      <4> DEFINE j == (i + 1) \div 2
      <4>1. j \in 1..l
        <5> HIDE DEF l
        <5> QED BY <2>2, <3>1
      <4> HIDE DEF j
      <4>2. path[j] \in 1..n
        BY <4>1
      <4>3. word(i) = path[j]
        BY <3>1 DEF j
      <4> HIDE DEF word
      <4> QED BY <4>1, <4>2, <4>3
    <3>2. CASE i % 2 # 1
      BY <3>2
    <3> QED BY <3>1, <3>2
  <2> HIDE DEF word, L, l
  <2>4. words \in Seq(Nat) /\ Len(words) = L /\ \A k \in 1..L : words[k] = word(k)
    BY <2>2, <2>3
  <2> HIDE DEF words
  <2> QED BY <2>1, <2>3, <2>4 DEF PathIsIn, l
<1> QED BY <1>1, <1>2

LEMMA PrefixedIs ==
    ASSUME NEW n \in Nat, NEW section \in Section(1..n)
    PROVE  PrefixedWith(section, Document!Prefixed(section))
<1> DEFINE a == Document!PathWords(section.path)
           b == section.words
           c == a \o b
<1>1. section.path \in Seq(1..n) /\ section.words \in Seq(1..n)
  BY DEF Section
<1>2. PathIsIn(section.path, a)
  BY <1>1, PathIsWords
<1>3. b \in Seq(Nat)
  BY <1>1
<1>4. Document!Prefixed(section) = c
  BY DEF Document!Prefixed
<1> HIDE DEF a
<1>5. a \in Seq(Nat)
  BY <1>2 DEF PathIsIn
<1>6. /\ c \in Seq(Nat) /\ Len(c) = Len(a) + Len(b) /\ Len(a) \in Nat /\ Len(b) \in Nat
      /\ \A j \in 1..Len(a) : c[j] = a[j]
      /\ \A j \in 1..Len(b) : c[Len(a) + j] = b[j]
  BY <1>3, <1>5, Concatenated
<1> HIDE DEF c
<1>7. ASSUME NEW k \in 1..Len(c)
      PROVE  \/ c[k] = 0
             \/ \E i \in 1..Len(section.path) : c[k] = section.path[i]
             \/ \E i \in 1..Len(section.words) : c[k] = section.words[i]
  <2>1. CASE k <= Len(a)
    <3>1. k \in 1..Len(a) /\ c[k] = a[k]
      BY <1>6, <2>1
    <3> QED BY <1>2, <3>1 DEF PathIsIn
  <2>2. CASE ~(k <= Len(a))
    <3> DEFINE j == k - Len(a)
    <3>1. j \in 1..Len(b) /\ Len(a) + j = k
      BY <1>6, <2>2
    <3> HIDE DEF j, b
    <3>2. c[k] = b[j]
      BY <1>6, <3>1
    <3> QED BY <3>1, <3>2 DEF b
  <2> QED BY <2>1, <2>2
<1>8. ASSUME NEW i \in 1..Len(section.words)
      PROVE  \E k \in 1..Len(c) : c[k] = section.words[i]
  <2>1. i \in 1..Len(b) /\ Len(a) + i \in 1..Len(c)
    BY <1>6
  <2>2. c[Len(a) + i] = b[i]
    BY <1>6, <2>1
  <2> QED BY <2>1, <2>2
<1> HIDE DEF b
<1> QED BY <1>4, <1>6, <1>7, <1>8 DEF PrefixedWith

\* What overlap reaches is together in a chunk, and no chunk is longer than it may be:
\* each chunk but the first starts within the one before it and reaches further.
LEMMA AllStayTogether ==
    ASSUME NEW doc \in Seq(Document!Items)
    PROVE  Document!WindowsStayTogether(doc)
<1> DEFINE sections == Document!Sections(doc)
           n == Len(doc)
           S == Section(1..n)
<1>1. sections \in Seq(S) /\ n \in Nat
  BY SectionsOfDocument
<1>2. ASSUME NEW i \in 1..Len(sections)
      PROVE  Together(Document!Prefixed(sections[i]), Document!ChunkWords(Document!Prefixed(sections[i])))
  <2>1. sections[i] \in S
    <3> HIDE DEF sections, S
    <3> QED BY <1>1
  <2>2. Document!Prefixed(sections[i]) \in Seq(Nat)
    <3> DEFINE section == sections[i]
    <3> HIDE DEF section
    <3>1. section \in Section(1..n)
      BY <2>1 DEF section
    <3>2. PrefixedWith(section, Document!Prefixed(section))
      BY <1>1, <3>1, PrefixedIs
    <3> QED BY <3>2 DEF PrefixedWith, section
  <2> QED BY <2>2, WordsStayTogether
<1> QED BY <1>2 DEF Together, Document!WindowsStayTogether

-----------------------------------------------------------------------------
(* What is left of the HTML. *)

Tags == {"open", "close"}
Visible(doc, i) == doc[i] \notin Tags /\ ~Document!Hidden(doc, i)

\* Position m is in a block that ends at end.
InBlock(doc, m, end) ==
    /\ m < end /\ end <= Len(doc) /\ doc[end] = "close"
    /\ \E j \in 1..m : doc[j] = "open" /\ \A k \in (j + 1)..(end - 1) : doc[k] # "close"

LEMMA BlockIsHidden ==
    ASSUME NEW doc, NEW m \in Nat, NEW end \in Nat, InBlock(doc, m, end), NEW i \in (m + 1)..end
    PROVE  Document!Hidden(doc, i)
<1>1. PICK j \in 1..m : doc[j] = "open" /\ \A k \in (j + 1)..(end - 1) : doc[k] # "close"
  BY DEF InBlock
<1>2. j \in 1..(i - 1) /\ \A k \in (j + 1)..(i - 1) : k \in (j + 1)..(end - 1)
  OBVIOUS
<1>3. \A k \in (j + 1)..(i - 1) : doc[k] # "close"
  BY <1>1, <1>2
<1> QED BY <1>1, <1>2, <1>3 DEF Document!Hidden

LEMMA BlockIsOver ==
    ASSUME NEW doc, NEW i \in Nat, i > 0, doc[i] = "close"
    PROVE  ~Document!Hidden(doc, i + 1)
<1> SUFFICES ASSUME NEW j \in 1..i, doc[j] = "open", \A k \in (j + 1)..i : doc[k] # "close"
             PROVE  FALSE
  <2>1. (i + 1) - 1 = i
    OBVIOUS
  <2> QED BY <2>1 DEF Document!Hidden
<1>1. j # i
  <2>1. doc[j] # doc[i]
    OBVIOUS
  <2> QED BY <2>1
<1>2. i \in (j + 1)..i
  BY <1>1
<1> QED BY <1>2

LEMMA StaysVisible ==
    ASSUME NEW doc, NEW i \in Nat, ~Document!Hidden(doc, i), doc[i] # "open"
    PROVE  ~Document!Hidden(doc, i + 1)
<1> SUFFICES ASSUME NEW j \in 1..i, doc[j] = "open", \A k \in (j + 1)..i : doc[k] # "close"
             PROVE  FALSE
  <2>1. (i + 1) - 1 = i
    OBVIOUS
  <2> QED BY <2>1 DEF Document!Hidden
<1>1. j # i
  OBVIOUS
<1>2. j \in 1..(i - 1) /\ \A k \in (j + 1)..(i - 1) : k \in (j + 1)..i
  BY <1>1
<1>3. \A k \in (j + 1)..(i - 1) : doc[k] # "close"
  BY <1>2
<1> QED BY <1>2, <1>3 DEF Document!Hidden

InSeq(q, x) == \E k \in 1..Len(q) : q[k] = x

LEMMA InAppended ==
    ASSUME NEW D, NEW q \in Seq(D), NEW y \in D
    PROVE  \A x : InSeq(Append(q, y), x) <=> InSeq(q, x) \/ x = y
<1> DEFINE r == Append(q, y)
<1>1. /\ Len(q) \in Nat /\ Len(r) = Len(q) + 1 /\ r[Len(q) + 1] = y
      /\ \A k \in 1..Len(q) : r[k] = q[k]
  OBVIOUS
<1> HIDE DEF r
<1>2. ASSUME NEW x, InSeq(r, x) PROVE InSeq(q, x) \/ x = y
  <2>1. PICK k \in 1..Len(r) : r[k] = x
    BY <1>2 DEF InSeq
  <2>2. CASE k = Len(q) + 1
    BY <1>1, <2>1, <2>2
  <2>3. CASE k # Len(q) + 1
    <3>1. k \in 1..Len(q)
      BY <1>1, <2>3
    <3> QED BY <1>1, <2>1, <3>1 DEF InSeq
  <2> QED BY <2>2, <2>3
<1>3. ASSUME NEW x, InSeq(q, x) PROVE InSeq(r, x)
  <2>1. PICK k \in 1..Len(q) : q[k] = x
    BY <1>3 DEF InSeq
  <2>2. k \in 1..Len(r)
    BY <1>1
  <2> QED BY <1>1, <2>1, <2>2 DEF InSeq
<1>4. InSeq(r, y)
  <2>1. Len(q) + 1 \in 1..Len(r)
    BY <1>1
  <2> QED BY <1>1, <2>1 DEF InSeq
<1> QED BY <1>2, <1>3, <1>4 DEF r

\* What is kept of the first m items: those outside of the blocks.
CleanedTo(doc, s, m) ==
    /\ \A i : InSeq(s.kept, i) <=> i \in 1..m /\ Visible(doc, i)
    /\ m < s.until => InBlock(doc, m, s.until)
    /\ ~(m < s.until) => ~Document!Hidden(doc, m + 1)

LEMMA CleanStep ==
    ASSUME NEW doc \in Seq(Document!Items), Document!Flat(doc), NEW m \in Nat, m < Len(doc),
           NEW s \in Clean(doc), CleanedTo(doc, s, m)
    PROVE  CleanedTo(doc, Document!CleanedWith(s, doc, m + 1), m + 1)
<1> DEFINE n == Len(doc)
           i == m + 1
           t == Document!CleanedWith(s, doc, i)
<1>0. /\ n \in Nat /\ i \in 1..n /\ i \in Nat /\ i - 1 = m
      /\ s.kept \in Seq(1..n) /\ s.until \in Nat
  BY DEF Clean
<1> HIDE DEF n, i, t
<1>i. i = m + 1 /\ \A x : x \in 1..i <=> x \in 1..m \/ x = i
  BY <1>0 DEF i
<1>1. CASE i <= s.until
  <2>1. t = s
    BY <1>1 DEF Document!CleanedWith, t
  <2>2. InBlock(doc, m, s.until)
    BY <1>0, <1>1 DEF CleanedTo, i
  <2>3. Document!Hidden(doc, i)
    <3>1. i \in (m + 1)..s.until
      BY <1>0, <1>1 DEF i
    <3> QED BY <1>0, <2>2, <3>1, BlockIsHidden
  <2>4. \A x : InSeq(s.kept, x) <=> x \in 1..i /\ Visible(doc, x)
    <3>1. ~Visible(doc, i)
      BY <2>3 DEF Visible
    <3> QED BY <1>i, <3>1 DEF CleanedTo
  <2>5. ASSUME i < s.until PROVE InBlock(doc, i, s.until)
    <3>1. \A j \in 1..m : j \in 1..i
      BY <1>i
    <3> QED BY <2>2, <2>5, <3>1 DEF InBlock
  <2>6. ASSUME ~(i < s.until) PROVE ~Document!Hidden(doc, i + 1)
    <3>1. i = s.until /\ i > 0
      BY <1>0, <1>1, <2>6
    <3>2. doc[i] = "close"
      BY <2>2, <3>1 DEF InBlock
    <3> QED BY <1>0, <3>1, <3>2, BlockIsOver
  <2> QED BY <2>1, <2>4, <2>5, <2>6 DEF CleanedTo, t, i
<1>2. CASE ~(i <= s.until)
  <2>1. ~Document!Hidden(doc, i)
    <3>1. ~(m < s.until)
      BY <1>0, <1>2 DEF i
    <3> QED BY <3>1 DEF CleanedTo, i
  <2>2. doc[i] # "close"
    BY <1>0, <2>1, Zenon DEF Document!Flat, Document!Hidden, n
  <2>3. CASE doc[i] = "open"
    <3>1. Document!Closings(doc, i) # {}
      BY <1>0, <2>3 DEF Document!Flat, n
    <3> DEFINE e == Document!BlockEnd(doc, i)
    <3>2. BlockEndsAt(doc, i, e)
      BY <1>0, <3>1, BlockEnds DEF n
    <3>3. t.kept = s.kept /\ t.until = e
      BY <1>2, <2>3, <3>1 DEF Document!CleanedWith, t
    <3> HIDE DEF e
    <3>4. e \in i..n /\ doc[e] = "close" /\ \A k \in i..n : doc[k] = "close" => e <= k
      BY <3>2, Zenon DEF BlockEndsAt, Document!Closings, n
    <3>5. i < e
      <4>1. e # i
        BY <2>3, <3>4
      <4> QED BY <1>0, <3>4, <4>1
    <3>6. InBlock(doc, i, e)
      <4>1. ASSUME NEW k \in (i + 1)..(e - 1) PROVE doc[k] # "close"
        <5>1. k \in i..n /\ ~(e <= k)
          BY <1>0, <3>4
        <5> QED BY <3>4, <5>1
      <4>2. i \in 1..i /\ e <= n
        BY <1>0, <3>4
      <4> QED BY <2>3, <3>4, <3>5, <4>1, <4>2 DEF InBlock, n
    <3>7. \A x : InSeq(s.kept, x) <=> x \in 1..i /\ Visible(doc, x)
      <4>1. ~Visible(doc, i)
        BY <2>3 DEF Visible, Tags
      <4> QED BY <1>i, <4>1 DEF CleanedTo
    <3> QED BY <3>3, <3>5, <3>6, <3>7 DEF CleanedTo, t, i
  <2>4. CASE doc[i] # "open"
    <3>1. t.kept = Append(s.kept, i) /\ t.until = s.until
      BY <1>2, <2>4 DEF Document!CleanedWith, t
    <3>2. Visible(doc, i)
      BY <2>1, <2>2, <2>4 DEF Visible, Tags
    <3>3. \A x : InSeq(t.kept, x) <=> InSeq(s.kept, x) \/ x = i
      <4>1. \A x : InSeq(Append(s.kept, i), x) <=> InSeq(s.kept, x) \/ x = i
        BY <1>0, InAppended
      <4> QED BY <3>1, <4>1, Zenon
    <3>4. \A x : InSeq(t.kept, x) <=> x \in 1..i /\ Visible(doc, x)
      BY <1>i, <3>2, <3>3 DEF CleanedTo
    <3>5. ~Document!Hidden(doc, i + 1)
      BY <1>0, <2>1, <2>4, StaysVisible
    <3>6. ~(i < s.until)
      BY <1>0, <1>2
    <3> QED BY <3>1, <3>4, <3>5, <3>6 DEF CleanedTo, t, i
  <2> QED BY <2>3, <2>4
<1> QED BY <1>1, <1>2

LEMMA StrippedIsVisible ==
    ASSUME NEW doc \in Seq(Document!Items), Document!Flat(doc)
    PROVE  \A i : InSeq(Document!Stripped(doc), i) <=> i \in 1..Len(doc) /\ Visible(doc, i)
<1> DEFINE n == Len(doc)
<1> SUFFICES ASSUME NEW w, w = Document!Cleaning(doc)
             PROVE  \A i : InSeq(w[n].kept, i) <=> i \in 1..n /\ Visible(doc, i)
  BY DEF Document!Stripped
<1> DEFINE I == {m \in 0..n : CleanedTo(doc, w[m], m)}
<1>1. /\ w[0] = [kept |-> <<>>, until |-> 0]
      /\ \A m \in 1..n : w[m] = Document!CleanedWith(w[m - 1], doc, m)
      /\ \A m \in 0..n : w[m] \in Clean(doc)
  BY CleaningIsLoop
<1>2. n \in Nat
  OBVIOUS
<1>3. 0 \in I
  <2>1. w[0].kept = <<>> /\ w[0].until = 0
    BY <1>1
  <2>2. \A i : ~InSeq(w[0].kept, i)
    BY <2>1 DEF InSeq
  <2>3. ~Document!Hidden(doc, 0 + 1)
    BY DEF Document!Hidden
  <2>4. CleanedTo(doc, w[0], 0)
    BY <2>1, <2>2, <2>3 DEF CleanedTo
  <2> QED BY <1>2, <2>4
<1>4. \A m \in 0..n : m \in I /\ m < n => m + 1 \in I
  <2> SUFFICES ASSUME NEW m \in 0..n, m \in I, m < n PROVE m + 1 \in I
    OBVIOUS
  <2>1. m + 1 \in 1..n /\ (m + 1) - 1 = m /\ m \in Nat /\ m + 1 \in 0..n
    BY <1>2
  <2>2. w[m + 1] = Document!CleanedWith(w[m], doc, m + 1) /\ w[m] \in Clean(doc)
    BY <1>1, <2>1
  <2>3. CleanedTo(doc, w[m + 1], m + 1)
    BY <2>1, <2>2, CleanStep
  <2> QED BY <2>1, <2>3
<1>5. CleanedTo(doc, w[n], n)
  <2> HIDE DEF I, n
  <2>1. \A m \in 0..n : m \in I
    BY <1>2, <1>3, <1>4, Induction
  <2> QED BY <1>2, <2>1 DEF I
<1> QED BY <1>5 DEF CleanedTo

\* The items that are left keep their order.
Rising(q) == \A j, k \in 1..Len(q) : j < k => q[j] < q[k]
RisesTo(q, m) == Rising(q) /\ \A k \in 1..Len(q) : q[k] <= m

LEMMA RisesOn ==
    ASSUME NEW n \in Nat, NEW q \in Seq(1..n), NEW m \in Nat, RisesTo(q, m), NEW i \in 1..n, i = m + 1
    PROVE  RisesTo(q, i) /\ RisesTo(Append(q, i), i)
<1> DEFINE r == Append(q, i)
<1>1. /\ Len(q) \in Nat /\ Len(r) = Len(q) + 1 /\ r[Len(q) + 1] = i
      /\ \A k \in 1..Len(q) : r[k] = q[k] /\ q[k] \in 1..n
  OBVIOUS
<1> HIDE DEF r
<1>2. \A k \in 1..Len(q) : q[k] <= m /\ q[k] \in Nat
  BY <1>1 DEF RisesTo
<1>3. RisesTo(q, i)
  BY <1>2 DEF RisesTo
<1>4. ASSUME NEW j \in 1..Len(r), NEW k \in 1..Len(r), j < k PROVE r[j] < r[k]
  <2>1. j \in 1..Len(q) /\ r[j] = q[j] /\ q[j] <= m
    BY <1>1, <1>2, <1>4
  <2>2. CASE k = Len(q) + 1
    BY <1>1, <1>2, <2>1, <2>2
  <2>3. CASE k # Len(q) + 1
    <3>1. k \in 1..Len(q) /\ r[k] = q[k]
      BY <1>1, <2>3
    <3> QED BY <1>4, <2>1, <3>1 DEF RisesTo, Rising
  <2> QED BY <2>2, <2>3
<1>5. ASSUME NEW k \in 1..Len(r) PROVE r[k] <= i
  <2>1. CASE k = Len(q) + 1
    BY <1>1, <2>1
  <2>2. CASE k # Len(q) + 1
    <3>1. k \in 1..Len(q)
      BY <1>1, <2>2
    <3> QED BY <1>1, <1>2, <3>1
  <2> QED BY <2>1, <2>2
<1>6. RisesTo(r, i)
  BY <1>4, <1>5 DEF RisesTo, Rising
<1> QED BY <1>3, <1>6 DEF r

LEMMA StrippedRises ==
    ASSUME NEW doc \in Seq(Document!Items)
    PROVE  Rising(Document!Stripped(doc))
<1> DEFINE n == Len(doc)
<1> SUFFICES ASSUME NEW w, w = Document!Cleaning(doc) PROVE Rising(w[n].kept)
  BY DEF Document!Stripped
<1> DEFINE I == {m \in 0..n : RisesTo(w[m].kept, m)}
<1>1. /\ w[0] = [kept |-> <<>>, until |-> 0]
      /\ \A m \in 1..n : w[m] = Document!CleanedWith(w[m - 1], doc, m)
      /\ \A m \in 0..n : w[m] \in Clean(doc)
  BY CleaningIsLoop
<1>2. n \in Nat
  OBVIOUS
<1>3. 0 \in I
  <2>1. w[0].kept = <<>>
    BY <1>1
  <2> QED BY <1>2, <2>1 DEF RisesTo, Rising
<1>4. \A m \in 0..n : m \in I /\ m < n => m + 1 \in I
  <2> SUFFICES ASSUME NEW m \in 0..n, m \in I, m < n PROVE m + 1 \in I
    OBVIOUS
  <2> DEFINE i == m + 1
             s == w[m]
             t == w[i]
  <2>1. i \in 1..n /\ i - 1 = m /\ m \in Nat /\ i \in 0..n /\ i = m + 1
    BY <1>2
  <2>2. s.kept \in Seq(1..n) /\ RisesTo(s.kept, m)
    BY <1>1 DEF Clean
  <2> HIDE DEF i
  <2>3. t = Document!CleanedWith(s, doc, i)
    BY <1>1, <2>1
  <2> HIDE DEF s, t
  <2>4. t.kept = s.kept \/ t.kept = Append(s.kept, i)
    BY <2>3 DEF Document!CleanedWith
  <2>5. RisesTo(t.kept, i)
    BY <1>2, <2>1, <2>2, <2>4, RisesOn
  <2> QED BY <2>1, <2>5 DEF i, t
<1>5. n \in I
  <2> HIDE DEF I, n
  <2>1. \A m \in 0..n : m \in I
    BY <1>2, <1>3, <1>4, Induction
  <2> QED BY <1>2, <2>1
<1> QED BY <1>5 DEF RisesTo

-----------------------------------------------------------------------------
(* The main area of a page. *)

\* What is left of a document when its blocks are dropped.
IsStripped(doc, html) ==
    /\ html \in Seq(1..Len(doc)) /\ Rising(html)
    /\ \A i : InSeq(html, i) <=> i \in 1..Len(doc) /\ Visible(doc, i)

LEMMA AreaTagsStay ==
    ASSUME NEW n \in 1..Len(Document!Areas)
    PROVE  Document!Areas[n].opening \notin Tags /\ Document!Areas[n].closing \notin Tags
<1>1. n = 1 \/ n = 2 \/ n = 3
  BY DEF Document!Areas
<1>2. CASE n = 1
  BY <1>2 DEF Document!Areas, Tags
<1>3. CASE n = 2
  BY <1>3 DEF Document!Areas, Tags
<1>4. CASE n = 3
  BY <1>4 DEF Document!Areas, Tags
<1> QED BY <1>1, <1>2, <1>3, <1>4

\* A tag that shows is among what is left, and the other way round.
LEMMA ShownIsLeft ==
    ASSUME NEW doc, Len(doc) \in Nat, NEW html, IsStripped(doc, html), NEW tag, tag \notin Tags
    PROVE  /\ \A x \in 1..Len(doc) : Document!Shows(doc, x, tag) => \E k \in 1..Len(html) : html[k] = x
           /\ \A k \in 1..Len(html) : /\ html[k] \in 1..Len(doc)
                                      /\ Document!Shows(doc, html[k], tag) <=> doc[html[k]] = tag
<1>1. ASSUME NEW x \in 1..Len(doc), Document!Shows(doc, x, tag) PROVE InSeq(html, x)
  BY <1>1 DEF Document!Shows, Visible, IsStripped
<1>2. ASSUME NEW k \in 1..Len(html) PROVE InSeq(html, html[k])
  BY DEF InSeq
<1>3. ASSUME NEW k \in 1..Len(html), doc[html[k]] = tag PROVE Document!Shows(doc, html[k], tag)
  BY <1>2, <1>3 DEF IsStripped, Visible, Document!Shows
<1>4. \A k \in 1..Len(html) : html[k] \in 1..Len(doc)
  BY <1>2 DEF IsStripped
<1>5. \A k \in 1..Len(html) : Document!Shows(doc, html[k], tag) => doc[html[k]] = tag
  BY DEF Document!Shows
<1> QED BY <1>1, <1>3, <1>4, <1>5 DEF InSeq

LEMMA OrderIsKept ==
    ASSUME NEW n \in Nat, NEW html \in Seq(1..n), Rising(html)
    PROVE  \A j, k \in 1..Len(html) : j < k <=> html[j] < html[k]
<1> SUFFICES ASSUME NEW j \in 1..Len(html), NEW k \in 1..Len(html)
             PROVE  j < k <=> html[j] < html[k]
  OBVIOUS
<1>1. html[j] \in Nat /\ html[k] \in Nat /\ Len(html) \in Nat
  OBVIOUS
<1>2. j < k => html[j] < html[k]
  BY DEF Rising
<1>3. k < j => html[k] < html[j]
  BY DEF Rising
<1> QED BY <1>1, <1>2, <1>3

AreaStays(doc, html, area) ==
    /\ Document!Found(doc, html, area) <=> Document!HasArea(doc, area)
    /\ \A i \in 1..Len(html) : Document!Inside(doc, html, area, i) <=> Document!Within(doc, area, html[i])

\* What is left keeps its order, so tags stand around an item there if they do on the page.
LEMMA AreaIsLeft ==
    ASSUME NEW doc, Len(doc) \in Nat, NEW html, IsStripped(doc, html),
           NEW area, area.opening \notin Tags, area.closing \notin Tags
    PROVE  AreaStays(doc, html, area)
<1> DEFINE a == area.opening
           b == area.closing
           n == Len(doc)
           l == Len(html)
<1>1. /\ \A x \in 1..n : Document!Shows(doc, x, a) => \E k \in 1..l : html[k] = x
      /\ \A k \in 1..l : html[k] \in 1..n /\ (Document!Shows(doc, html[k], a) <=> doc[html[k]] = a)
  BY ShownIsLeft
<1>2. /\ \A x \in 1..n : Document!Shows(doc, x, b) => \E k \in 1..l : html[k] = x
      /\ \A k \in 1..l : html[k] \in 1..n /\ (Document!Shows(doc, html[k], b) <=> doc[html[k]] = b)
  BY ShownIsLeft
<1>3. \A j, k \in 1..l : j < k <=> html[j] < html[k]
  BY OrderIsKept DEF IsStripped
<1>4. n \in Nat /\ l \in Nat
  BY DEF IsStripped
<1>5. /\ Document!Found(doc, html, area)
           <=> \E j \in 1..l : \E k \in (j + 1)..l : doc[html[j]] = a /\ doc[html[k]] = b
      /\ Document!HasArea(doc, area)
           <=> \E j \in 1..n : \E k \in (j + 1)..n : Document!Shows(doc, j, a) /\ Document!Shows(doc, k, b)
  BY DEF Document!Found, Document!HasArea
<1>6. \A i \in 1..l :
        /\ Document!Inside(doc, html, area, i)
             <=> \E j \in 1..(i - 1) : \E k \in (i + 1)..l : doc[html[j]] = a /\ doc[html[k]] = b
        /\ Document!Within(doc, area, html[i])
             <=> \E j \in 1..(html[i] - 1) : \E k \in (html[i] + 1)..n :
                     Document!Shows(doc, j, a) /\ Document!Shows(doc, k, b)
  BY DEF Document!Inside, Document!Within
<1> HIDE DEF a, b, n, l
<1>7. ASSUME Document!Found(doc, html, area) PROVE Document!HasArea(doc, area)
  <2>0. PICK j \in 1..l : \E k \in (j + 1)..l : doc[html[j]] = a /\ doc[html[k]] = b
    BY <1>5, <1>7
  <2>1. PICK k \in (j + 1)..l : doc[html[j]] = a /\ doc[html[k]] = b
    BY <2>0
  <2>2. j \in 1..l /\ k \in 1..l /\ j < k
    BY <1>4
  <2>3. /\ html[j] \in 1..n /\ html[k] \in 1..n /\ html[j] < html[k]
        /\ Document!Shows(doc, html[j], a) /\ Document!Shows(doc, html[k], b)
    BY <1>1, <1>2, <1>3, <2>1, <2>2
  <2>4. html[k] \in (html[j] + 1)..n
    BY <1>4, <2>3
  <2> QED BY <1>5, <2>3, <2>4
<1>8. ASSUME Document!HasArea(doc, area) PROVE Document!Found(doc, html, area)
  <2>0. PICK x \in 1..n : \E y \in (x + 1)..n : Document!Shows(doc, x, a) /\ Document!Shows(doc, y, b)
    BY <1>5, <1>8
  <2>1. PICK y \in (x + 1)..n : Document!Shows(doc, x, a) /\ Document!Shows(doc, y, b)
    BY <2>0
  <2>2. x \in 1..n /\ y \in 1..n /\ x < y
    BY <1>4
  <2>3. PICK j \in 1..l : html[j] = x
    BY <1>1, <2>1
  <2>4. PICK k \in 1..l : html[k] = y
    BY <1>2, <2>1, <2>2
  <2>5. doc[html[j]] = a /\ doc[html[k]] = b
    BY <1>1, <1>2, <2>1, <2>3, <2>4
  <2>6. j < k
    BY <1>3, <2>2, <2>3, <2>4
  <2>7. k \in (j + 1)..l
    BY <1>4, <2>6
  <2> QED BY <1>5, <2>5, <2>7
<1>9. ASSUME NEW i \in 1..l, Document!Inside(doc, html, area, i) PROVE Document!Within(doc, area, html[i])
  <2>0. PICK j \in 1..(i - 1) : \E k \in (i + 1)..l : doc[html[j]] = a /\ doc[html[k]] = b
    BY <1>6, <1>9
  <2>1. PICK k \in (i + 1)..l : doc[html[j]] = a /\ doc[html[k]] = b
    BY <2>0
  <2>2. j \in 1..l /\ k \in 1..l /\ j < i /\ i < k
    BY <1>4
  <2>3. /\ html[j] \in 1..n /\ html[k] \in 1..n /\ html[i] \in 1..n
        /\ Document!Shows(doc, html[j], a) /\ Document!Shows(doc, html[k], b)
    BY <1>1, <1>2, <2>1, <2>2
  <2>4. html[j] < html[i] /\ html[i] < html[k]
    BY <1>3, <2>2
  <2>5. html[j] \in 1..(html[i] - 1) /\ html[k] \in (html[i] + 1)..n
    BY <1>4, <2>3, <2>4
  <2> QED BY <1>6, <2>3, <2>5
<1>10. ASSUME NEW i \in 1..l, Document!Within(doc, area, html[i]) PROVE Document!Inside(doc, html, area, i)
  <2>0. PICK x \in 1..(html[i] - 1) : \E y \in (html[i] + 1)..n : Document!Shows(doc, x, a) /\ Document!Shows(doc, y, b)
    BY <1>6, <1>10
  <2>1. PICK y \in (html[i] + 1)..n : Document!Shows(doc, x, a) /\ Document!Shows(doc, y, b)
    BY <2>0
  <2>2. html[i] \in 1..n
    BY <1>1
  <2>3. x \in 1..n /\ y \in 1..n /\ x < html[i] /\ html[i] < y
    BY <1>4, <2>2
  <2>4. PICK j \in 1..l : html[j] = x
    BY <1>1, <2>1, <2>3
  <2>5. PICK k \in 1..l : html[k] = y
    BY <1>2, <2>1, <2>3
  <2>6. doc[html[j]] = a /\ doc[html[k]] = b
    BY <1>1, <1>2, <2>1, <2>4, <2>5
  <2>7. j < i /\ i < k
    BY <1>3, <2>3, <2>4, <2>5
  <2>8. j \in 1..(i - 1) /\ k \in (i + 1)..l
    BY <1>4, <2>7
  <2> QED BY <1>6, <2>6, <2>8
<1>11. \A i \in 1..l : Document!Inside(doc, html, area, i) <=> Document!Within(doc, area, html[i])
  BY <1>9, <1>10, Zenon
<1> QED BY <1>7, <1>8, <1>11 DEF AreaStays, l

LEMMA TakenIsMain ==
    ASSUME NEW doc, Len(doc) \in Nat, NEW html, IsStripped(doc, html), NEW i \in 1..Len(html)
    PROVE  Document!Taken(doc, html, i) <=> doc[html[i]] \notin Document!AreaTags /\ Document!InMain(doc, html[i])
<1> DEFINE N == 1..Len(Document!Areas)
           area(n) == Document!Areas[n]
<1>1. ASSUME NEW n \in N PROVE AreaStays(doc, html, area(n))
  <2> DEFINE A == area(n)
  <2>1. A.opening \notin Tags /\ A.closing \notin Tags
    BY AreaTagsStay
  <2> HIDE DEF A
  <2>2. AreaStays(doc, html, A)
    BY <2>1, AreaIsLeft
  <2> QED BY <2>2 DEF A
<1>2. \A n \in N : \A m \in 1..(n - 1) : m \in N
  <2>1. Len(Document!Areas) = 3
    BY DEF Document!Areas
  <2> QED BY <2>1
<1>3. \A n \in N : Document!Found(doc, html, area(n)) <=> Document!HasArea(doc, area(n))
  BY <1>1 DEF AreaStays
<1>4. \A n \in N : Document!Inside(doc, html, area(n), i) <=> Document!Within(doc, area(n), html[i])
  BY <1>1 DEF AreaStays
<1>5. /\ Document!Taken(doc, html, i) <=>
            /\ doc[html[i]] \notin Document!AreaTags
            /\ \A n \in N : Document!Found(doc, html, area(n))
                             /\ (\A m \in 1..(n - 1) : ~Document!Found(doc, html, area(m)))
                               => Document!Inside(doc, html, area(n), i)
      /\ Document!InMain(doc, html[i]) <=>
            \A n \in N : Document!HasArea(doc, area(n)) /\ (\A m \in 1..(n - 1) : ~Document!HasArea(doc, area(m)))
                               => Document!Within(doc, area(n), html[i])
  BY Zenon DEF Document!Taken, Document!InMain
<1> HIDE DEF N, area
<1>6. ASSUME NEW n \in N
      PROVE  (Document!Found(doc, html, area(n)) /\ (\A m \in 1..(n - 1) : ~Document!Found(doc, html, area(m)))
                               => Document!Inside(doc, html, area(n), i))
             <=> (Document!HasArea(doc, area(n)) /\ (\A m \in 1..(n - 1) : ~Document!HasArea(doc, area(m)))
                               => Document!Within(doc, area(n), html[i]))
  <2>1. (\A m \in 1..(n - 1) : ~Document!Found(doc, html, area(m)))
          <=> (\A m \in 1..(n - 1) : ~Document!HasArea(doc, area(m)))
    BY <1>2, <1>3, Zenon
  <2> QED BY <1>3, <1>4, <2>1, Zenon
<1> QED BY <1>5, <1>6, Zenon

\* What is taken of the first m items that are left.
NarrowedTo(doc, html, q, m) ==
    \A x : InSeq(q, x) <=> \E j \in 1..m : html[j] = x /\ Document!Taken(doc, html, j)

LEMMA NarrowStep ==
    ASSUME NEW doc, NEW P, NEW html \in Seq(P), NEW m \in Nat, NEW i \in 1..Len(html), i = m + 1,
           NEW q \in Seq(P), NarrowedTo(doc, html, q, m)
    PROVE  NarrowedTo(doc, html, Narrowed(doc, html, i, q), i)
<1>1. html[i] \in P /\ \A j : j \in 1..i <=> j \in 1..m \/ j = i
  OBVIOUS
<1>2. CASE Document!Taken(doc, html, i)
  <2>1. \A x : InSeq(Append(q, html[i]), x) <=> InSeq(q, x) \/ x = html[i]
    BY <1>1, InAppended
  <2>2. Narrowed(doc, html, i, q) = Append(q, html[i])
    BY <1>2 DEF Narrowed
  <2> QED BY <1>1, <1>2, <2>1, <2>2, Zenon DEF NarrowedTo
<1>3. CASE ~Document!Taken(doc, html, i)
  <2>1. Narrowed(doc, html, i, q) = q
    BY <1>3 DEF Narrowed
  <2> QED BY <1>1, <1>3, <2>1, Zenon DEF NarrowedTo
<1> QED BY <1>2, <1>3

LEMMA ContentIsTaken ==
    ASSUME NEW doc, NEW P, NEW html \in Seq(P)
    PROVE  NarrowedTo(doc, html, Document!MainContent(doc, html), Len(html))
<1> DEFINE n == Len(html)
<1> SUFFICES ASSUME NEW w, w = Document!Narrowing(doc, html) PROVE NarrowedTo(doc, html, w[n], n)
  BY DEF Document!MainContent
<1> DEFINE I == {m \in 0..n : NarrowedTo(doc, html, w[m], m)}
<1>1. /\ w[0] = <<>>
      /\ \A m \in 1..n : w[m] = Narrowed(doc, html, m, w[m - 1])
      /\ \A m \in 0..n : w[m] \in Seq(P)
  BY NarrowingIsLoop
<1>2. n \in Nat
  OBVIOUS
<1>3. 0 \in I
  <2>1. NarrowedTo(doc, html, w[0], 0)
    BY <1>1 DEF NarrowedTo, InSeq
  <2> QED BY <1>2, <2>1
<1>4. \A m \in 0..n : m \in I /\ m < n => m + 1 \in I
  <2> SUFFICES ASSUME NEW m \in 0..n, m \in I, m < n PROVE m + 1 \in I
    OBVIOUS
  <2> DEFINE i == m + 1
  <2>1. i \in 1..n /\ i - 1 = m /\ m \in Nat /\ i \in 0..n /\ i = m + 1
    BY <1>2
  <2> HIDE DEF i
  <2>2. w[i] = Narrowed(doc, html, i, w[m]) /\ w[m] \in Seq(P)
    BY <1>1, <2>1
  <2>3. NarrowedTo(doc, html, w[i], i)
    BY <2>1, <2>2, NarrowStep
  <2> QED BY <2>1, <2>3 DEF i
<1>5. n \in I
  <2> HIDE DEF I, n
  <2>1. \A m \in 0..n : m \in I
    BY <1>2, <1>3, <1>4, Induction
  <2> QED BY <1>2, <2>1
<1> QED BY <1>5

\* What is left of a document: what shows in its main area.
IsTold(doc, i) == Visible(doc, i) /\ doc[i] \notin Document!AreaTags /\ Document!InMain(doc, i)

LEMMA CleanIsTold ==
    ASSUME NEW doc \in Seq(Document!Items), Document!Flat(doc)
    PROVE  \A i : InSeq(Document!CleanHtml(doc), i) <=> i \in 1..Len(doc) /\ IsTold(doc, i)
<1> DEFINE html == Document!Stripped(doc)
           n == Len(doc)
           P == 1..n
<1>1. IsStripped(doc, html)
  BY StrippedIs, StrippedIsVisible, StrippedRises DEF IsStripped
<1>2. Document!CleanHtml(doc) = Document!MainContent(doc, html)
  BY DEF Document!CleanHtml
<1>3. n \in Nat
  OBVIOUS
<1> HIDE DEF html
<1>4. html \in Seq(P)
  BY <1>1 DEF IsStripped
<1>5. NarrowedTo(doc, html, Document!MainContent(doc, html), Len(html))
  BY <1>4, ContentIsTaken
<1>6. \A k \in 1..Len(html) :
        Document!Taken(doc, html, k)
          <=> doc[html[k]] \notin Document!AreaTags /\ Document!InMain(doc, html[k])
  BY <1>1, <1>3, TakenIsMain
<1> SUFFICES ASSUME NEW i PROVE InSeq(Document!MainContent(doc, html), i) <=> i \in P /\ IsTold(doc, i)
  BY <1>2
<1> HIDE DEF P
<1>7. InSeq(Document!MainContent(doc, html), i)
        <=> \E k \in 1..Len(html) : html[k] = i /\ Document!Taken(doc, html, k)
  BY <1>5, Zenon DEF NarrowedTo
<1>8. InSeq(Document!MainContent(doc, html), i)
        <=> InSeq(html, i) /\ doc[i] \notin Document!AreaTags /\ Document!InMain(doc, i)
  BY <1>6, <1>7, Zenon DEF InSeq
<1>9. InSeq(html, i) <=> i \in P /\ Visible(doc, i)
  BY <1>1, Zenon DEF IsStripped, P
<1> QED BY <1>8, <1>9, Zenon DEF IsTold

-----------------------------------------------------------------------------
(* The sections have the words of the HTML. *)

\* No tags are left.
Plain(doc, fragment) == \A k \in 1..Len(fragment) : doc[fragment[k]] \notin Tags

LEMMA PlainIsText ==
    ASSUME NEW doc, NEW P, NEW fragment \in Seq(P), Plain(doc, fragment)
    PROVE  Document!HtmlToText(doc, fragment) = fragment
<1> DEFINE n == Len(fragment)
<1> SUFFICES ASSUME NEW w, w = Document!Parsing(doc, fragment) PROVE w[n].words = fragment
  BY DEF Document!HtmlToText
<1> DEFINE Same(s, m) == s.depth = 0 /\ Len(s.words) = m /\ \A k \in 1..m : s.words[k] = fragment[k]
           I == {m \in 0..n : Same(w[m], m)}
<1>1. /\ w[0] = [words |-> <<>>, depth |-> 0]
      /\ \A m \in 1..n : w[m] = Document!Handled(w[m - 1], doc, fragment[m])
      /\ \A m \in 0..n : w[m] \in Parsed(P)
  BY ParsingIsLoop
<1>2. n \in Nat
  OBVIOUS
<1>3. 0 \in I
  BY <1>1, <1>2
<1>4. \A m \in 0..n : m \in I /\ m < n => m + 1 \in I
  <2> HIDE DEF Same
  <2> SUFFICES ASSUME NEW m \in 0..n, m \in I, m < n PROVE m + 1 \in I
    OBVIOUS
  <2>1. m + 1 \in 1..n /\ (m + 1) - 1 = m /\ m \in Nat /\ m + 1 \in 0..n
    BY <1>2
  <2> DEFINE s == w[m]
             t == w[m + 1]
             i == fragment[m + 1]
  <2>2. t = Document!Handled(s, doc, i) /\ s \in Parsed(P) /\ Same(s, m)
    BY <1>1, <2>1
  <2>3. i \in P /\ doc[i] # "open" /\ doc[i] # "close"
    BY <2>1 DEF Plain, Tags
  <2>4. i = fragment[m + 1]
    OBVIOUS
  <2> HIDE DEF s, t, i
  <2>5. s.words \in Seq(P) /\ s.depth = 0 /\ Len(s.words) = m /\ \A k \in 1..m : s.words[k] = fragment[k]
    BY <2>2 DEF Parsed, Same
  <2>6. t.words = Append(s.words, i) /\ t.depth = 0
    <3>1. ~(s.depth > 0)
      BY <2>5
    <3> QED BY <2>2, <2>3, <2>5, <3>1 DEF Document!Handled
  <2>7. Len(t.words) = m + 1 /\ \A k \in 1..(m + 1) : t.words[k] = fragment[k]
    <3>1. Len(t.words) = m + 1 /\ t.words[m + 1] = i /\ \A k \in 1..m : t.words[k] = s.words[k]
      BY <2>3, <2>5, <2>6
    <3> QED BY <2>1, <2>4, <2>5, <3>1
  <2>8. Same(t, m + 1)
    BY <2>6, <2>7 DEF Same
  <2> QED BY <2>1, <2>8 DEF t
<1>5. Same(w[n], n)
  <2> HIDE DEF I, n, Same
  <2>1. \A m \in 0..n : m \in I
    BY <1>2, <1>3, <1>4, Induction
  <2> QED BY <1>2, <2>1 DEF I
<1>6. w[n].words \in Seq(P)
  BY <1>1, <1>2 DEF Parsed
<1> QED BY <1>5, <1>6

InSections(sections, x) == \E i \in 1..Len(sections) : InSeq(sections[i].words, x)

\* The items of a path are headings.
PathsAreHeadings(doc, sections) ==
    \A i \in 1..Len(sections) : \A k \in 1..Len(sections[i].path) :
        doc[sections[i].path[k]] \in Document!Headings

AllHeadings(doc, stack) == \A k \in 1..Len(stack) : doc[stack[k]] \in Document!Headings

\* What is flushed of a fragment without tags is a section of it, unless it is empty.
FlushedIs(sections, fragment, stack, flushed) ==
    flushed = IF fragment = <<>> THEN sections
              ELSE Append(sections, [path |-> stack, words |-> fragment])

LEMMA PlainIsFlushed ==
    ASSUME NEW doc, NEW P, NEW fragment \in Seq(P), Plain(doc, fragment), NEW sections, NEW stack
    PROVE  FlushedIs(sections, fragment, stack, Document!Flushed(doc, sections, fragment, stack))
<1>1. Document!HtmlToText(doc, fragment) = fragment
  BY PlainIsText
<1> QED BY <1>1, Zenon DEF Document!Flushed, FlushedIs

FlushedHas(doc, sections, fragment, flushed) ==
    /\ PathsAreHeadings(doc, flushed)
    /\ \A x : InSections(flushed, x) <=> InSections(sections, x) \/ InSeq(fragment, x)

LEMMA FlushStep ==
    ASSUME NEW doc, NEW P, NEW sections \in Seq(Section(P)), NEW fragment \in Seq(P), NEW stack \in Seq(P),
           NEW flushed, FlushedIs(sections, fragment, stack, flushed),
           PathsAreHeadings(doc, sections), AllHeadings(doc, stack)
    PROVE  FlushedHas(doc, sections, fragment, flushed)
<1> DEFINE section == [path |-> stack, words |-> fragment]
           S == Section(P)
<1>1. CASE fragment = <<>>
  <2>1. \A x : ~InSeq(fragment, x)
    BY <1>1 DEF InSeq
  <2>2. flushed = sections
    BY <1>1 DEF FlushedIs
  <2> QED BY <2>1, <2>2 DEF FlushedHas
<1>2. CASE fragment # <<>>
  <2>1. flushed = Append(sections, section)
    BY <1>2 DEF FlushedIs
  <2>2. section \in S /\ section.path = stack /\ section.words = fragment
    BY DEF Section
  <2> HIDE DEF S, section
  <2>3. sections \in Seq(S)
    BY DEF S
  <2>4. /\ Len(sections) \in Nat /\ Len(flushed) = Len(sections) + 1
        /\ flushed[Len(sections) + 1] = section
        /\ \A i \in 1..Len(sections) : flushed[i] = sections[i]
    BY <2>1, <2>2, <2>3
  <2>5. ASSUME NEW i \in 1..Len(flushed), NEW k \in 1..Len(flushed[i].path)
        PROVE  doc[flushed[i].path[k]] \in Document!Headings
    <3>1. CASE i = Len(sections) + 1
      BY <2>2, <2>4, <2>5, <3>1 DEF AllHeadings
    <3>2. CASE i # Len(sections) + 1
      <4>1. i \in 1..Len(sections) /\ flushed[i] = sections[i]
        BY <2>4, <3>2
      <4> QED BY <2>5, <4>1 DEF PathsAreHeadings
    <3> QED BY <3>1, <3>2
  <2>6. ASSUME NEW x, InSections(flushed, x) PROVE InSections(sections, x) \/ InSeq(fragment, x)
    <3>1. PICK i \in 1..Len(flushed) : InSeq(flushed[i].words, x)
      BY <2>6 DEF InSections
    <3>2. CASE i = Len(sections) + 1
      BY <2>2, <2>4, <3>1, <3>2
    <3>3. CASE i # Len(sections) + 1
      <4>1. i \in 1..Len(sections) /\ flushed[i] = sections[i]
        BY <2>4, <3>3
      <4> QED BY <3>1, <4>1 DEF InSections
    <3> QED BY <3>2, <3>3
  <2>7. ASSUME NEW x, InSections(sections, x) PROVE InSections(flushed, x)
    <3>1. PICK i \in 1..Len(sections) : InSeq(sections[i].words, x)
      BY <2>7 DEF InSections
    <3>2. i \in 1..Len(flushed) /\ flushed[i] = sections[i]
      BY <2>4
    <3> QED BY <3>1, <3>2 DEF InSections
  <2>8. ASSUME NEW x, InSeq(fragment, x) PROVE InSections(flushed, x)
    <3>1. Len(sections) + 1 \in 1..Len(flushed)
      BY <2>4
    <3>2. InSeq(flushed[Len(sections) + 1].words, x)
      BY <2>2, <2>4, <2>8
    <3> QED BY <3>1, <3>2 DEF InSections
  <2> QED BY <2>5, <2>6, <2>7, <2>8 DEF FlushedHas, PathsAreHeadings
<1> QED BY <1>1, <1>2

\* What is split of the first m items of html.
SplitTo(doc, html, s, m) ==
    /\ Plain(doc, s.fragment) /\ AllHeadings(doc, s.stack) /\ PathsAreHeadings(doc, s.sections)
    /\ \A x : InSections(s.sections, x) \/ InSeq(s.fragment, x)
                <=> \E j \in 1..m : html[j] = x /\ doc[x] \notin Document!Headings

LEMMA SplitStep ==
    ASSUME NEW doc, NEW P, NEW html \in Seq(P), Plain(doc, html), NEW m \in Nat, m < Len(html),
           NEW s \in Split(P), SplitTo(doc, html, s, m)
    PROVE  SplitTo(doc, html, Document!SplitWith(s, doc, html[m + 1]), m + 1)
<1> DEFINE i == html[m + 1]
           t == Document!SplitWith(s, doc, i)
           l == Document!Level(doc[i])
           rest == Document!Trimmed(s.stack, l)
           flushed == Document!Flushed(doc, s.sections, s.fragment, s.stack)
<1>0. s.sections \in Seq(Section(P)) /\ s.fragment \in Seq(P) /\ s.stack \in Seq(P)
  BY DEF Split
<1>1. i \in P /\ doc[i] \notin Tags
  BY DEF Plain
<1>2. i = html[m + 1]
  OBVIOUS
<1> HIDE DEF i, t
<1>3. \A x : (\E j \in 1..(m + 1) : html[j] = x /\ doc[x] \notin Document!Headings)
              <=> \/ \E j \in 1..m : html[j] = x /\ doc[x] \notin Document!Headings
                  \/ x = i /\ doc[i] \notin Document!Headings
  BY <1>2
<1>4. CASE doc[i] \in Document!Headings
  <2>1. t.sections = flushed /\ t.fragment = <<>> /\ t.stack = Append(rest, i)
    BY <1>4 DEF Document!SplitWith, t
  <2>2. l \in Nat /\ l > 0
    BY <1>4, LevelIs
  <2> HIDE DEF l
  <2>3. IsTrimmed(s.stack, l, rest, P)
    BY <1>0, <2>2, TrimmedIs
  <2>4. FlushedIs(s.sections, s.fragment, s.stack, flushed)
    BY <1>0, PlainIsFlushed DEF SplitTo
  <2> HIDE DEF rest, flushed
  <2>5. FlushedHas(doc, s.sections, s.fragment, flushed)
    BY <1>0, <2>4, FlushStep DEF SplitTo
  <2>6. AllHeadings(doc, t.stack)
    <3> SUFFICES ASSUME NEW k \in 1..Len(t.stack) PROVE doc[t.stack[k]] \in Document!Headings
      BY DEF AllHeadings
    <3>1. rest \in Seq(P) /\ Len(rest) \in Nat
      BY <2>3 DEF IsTrimmed
    <3>2. Len(t.stack) = Len(rest) + 1 /\ t.stack[Len(rest) + 1] = i
      BY <1>1, <2>1, <3>1
    <3>3. CASE k = Len(rest) + 1
      BY <1>4, <3>2, <3>3
    <3>4. CASE k # Len(rest) + 1
      <4>1. k \in 1..Len(rest) /\ t.stack[k] = rest[k]
        BY <1>1, <2>1, <3>1, <3>2, <3>4
      <4>2. rest[k] = s.stack[k] /\ k \in 1..Len(s.stack)
        BY <2>3, <4>1 DEF IsTrimmed
      <4> QED BY <4>1, <4>2 DEF SplitTo, AllHeadings
    <3> QED BY <3>3, <3>4
  <2>7. Plain(doc, t.fragment) /\ \A x : ~InSeq(t.fragment, x)
    BY <2>1 DEF Plain, InSeq
  <2>8. PathsAreHeadings(doc, t.sections)
    BY <2>1, <2>5 DEF FlushedHas
  <2>9. \A x : InSections(t.sections, x) \/ InSeq(t.fragment, x)
                <=> \E j \in 1..(m + 1) : html[j] = x /\ doc[x] \notin Document!Headings
    <3>1. \A x : InSections(t.sections, x) <=> InSections(s.sections, x) \/ InSeq(s.fragment, x)
      BY <2>1, <2>5 DEF FlushedHas
    <3>2. \A x : InSections(s.sections, x) \/ InSeq(s.fragment, x)
                <=> \E j \in 1..m : html[j] = x /\ doc[x] \notin Document!Headings
      BY DEF SplitTo
    <3> QED BY <1>3, <1>4, <2>7, <3>1, <3>2, Zenon
  <2> QED BY <2>6, <2>7, <2>8, <2>9 DEF SplitTo, t, i
<1>5. CASE doc[i] \notin Document!Headings
  <2>1. t.sections = s.sections /\ t.fragment = Append(s.fragment, i) /\ t.stack = s.stack
    BY <1>5 DEF Document!SplitWith, t
  <2>2. \A x : InSeq(t.fragment, x) <=> InSeq(s.fragment, x) \/ x = i
    BY <1>0, <1>1, <2>1, InAppended
  <2>3. Plain(doc, t.fragment)
    <3>1. \A k \in 1..Len(t.fragment) : InSeq(t.fragment, t.fragment[k])
      BY DEF InSeq
    <3>2. \A x : InSeq(s.fragment, x) => doc[x] \notin Tags
      BY DEF SplitTo, Plain, InSeq
    <3> QED BY <1>1, <2>2, <3>1, <3>2, Zenon DEF Plain
  <2>4. \A x : InSections(t.sections, x) \/ InSeq(t.fragment, x)
                <=> \E j \in 1..(m + 1) : html[j] = x /\ doc[x] \notin Document!Headings
    <3>2. \A x : InSections(s.sections, x) \/ InSeq(s.fragment, x)
                <=> \E j \in 1..m : html[j] = x /\ doc[x] \notin Document!Headings
      BY DEF SplitTo
    <3> QED BY <1>3, <1>5, <2>1, <2>2, <3>2, Zenon
  <2>5. AllHeadings(doc, t.stack) /\ PathsAreHeadings(doc, t.sections)
    BY <2>1 DEF SplitTo
  <2> QED BY <2>3, <2>4, <2>5 DEF SplitTo, t, i
<1> QED BY <1>4, <1>5

LEMMA SplitEnds ==
    ASSUME NEW doc, NEW P, NEW html \in Seq(P), Plain(doc, html),
           NEW w, w = Document!Splitting(doc, html)
    PROVE  w[Len(html)] \in Split(P) /\ SplitTo(doc, html, w[Len(html)], Len(html))
<1> DEFINE n == Len(html)
           I == {m \in 0..n : SplitTo(doc, html, w[m], m)}
<1>1. /\ w[0] = [sections |-> <<>>, fragment |-> <<>>, stack |-> <<>>]
      /\ \A m \in 1..n : w[m] = Document!SplitWith(w[m - 1], doc, html[m])
      /\ \A m \in 0..n : w[m] \in Split(P)
  BY SplittingIsLoop
<1>2. n \in Nat
  OBVIOUS
<1>3. 0 \in I
  <2>1. w[0].sections = <<>> /\ w[0].fragment = <<>> /\ w[0].stack = <<>>
    BY <1>1
  <2>2. SplitTo(doc, html, w[0], 0)
    BY <2>1 DEF SplitTo, Plain, AllHeadings, PathsAreHeadings, InSections, InSeq
  <2> QED BY <1>2, <2>2
<1>4. \A m \in 0..n : m \in I /\ m < n => m + 1 \in I
  <2> SUFFICES ASSUME NEW m \in 0..n, m \in I, m < n PROVE m + 1 \in I
    OBVIOUS
  <2>1. m + 1 \in 1..n /\ (m + 1) - 1 = m /\ m \in Nat /\ m + 1 \in 0..n
    BY <1>2
  <2>2. w[m + 1] = Document!SplitWith(w[m], doc, html[m + 1]) /\ w[m] \in Split(P)
    BY <1>1, <2>1
  <2>3. SplitTo(doc, html, w[m + 1], m + 1)
    BY <2>1, <2>2, SplitStep
  <2> QED BY <2>1, <2>3
<1>5. SplitTo(doc, html, w[n], n)
  <2> HIDE DEF I, n
  <2>1. \A m \in 0..n : m \in I
    BY <1>2, <1>3, <1>4, Induction
  <2> QED BY <1>2, <2>1 DEF I
<1> QED BY <1>1, <1>2, <1>5

\* The sections have the words of html, under headings.
SectionsHave(doc, html, sections) ==
    /\ PathsAreHeadings(doc, sections)
    /\ \A x : doc[x] = "word" => (InSections(sections, x) <=> InSeq(html, x))

LEMMA SectionsHaveWords ==
    ASSUME NEW doc, NEW P, NEW html \in Seq(P), Plain(doc, html)
    PROVE  SectionsHave(doc, html, Document!SplitSections(doc, html))
<1> DEFINE n == Len(html)
           last == Document!Splitting(doc, html)[n]
           sections == Document!Flushed(doc, last.sections, last.fragment, last.stack)
           whole == Document!Flushed(doc, <<>>, html, <<>>)
<1>1. last \in Split(P) /\ SplitTo(doc, html, last, n)
  <2> SUFFICES ASSUME NEW w, w = Document!Splitting(doc, html)
               PROVE  w[n] \in Split(P) /\ SplitTo(doc, html, w[n], n)
    OBVIOUS
  <2> QED BY SplitEnds
<1>2. Document!SplitSections(doc, html) = IF sections = <<>> THEN whole ELSE sections
  BY DEF Document!SplitSections
<1> HIDE DEF last
<1>3. last.sections \in Seq(Section(P)) /\ last.fragment \in Seq(P) /\ last.stack \in Seq(P)
  BY <1>1 DEF Split
<1>4. FlushedIs(last.sections, last.fragment, last.stack, sections)
  BY <1>1, <1>3, PlainIsFlushed DEF SplitTo
<1>5. FlushedIs(<<>>, html, <<>>, whole)
  BY PlainIsFlushed
<1> HIDE DEF sections, whole
<1>6. FlushedHas(doc, last.sections, last.fragment, sections)
  BY <1>1, <1>3, <1>4, FlushStep DEF SplitTo
<1>7. FlushedHas(doc, <<>>, html, whole)
  <2>1. <<>> \in Seq(Section(P)) /\ <<>> \in Seq(P)
    OBVIOUS
  <2>2. PathsAreHeadings(doc, <<>>) /\ AllHeadings(doc, <<>>)
    BY DEF PathsAreHeadings, AllHeadings
  <2> QED BY <1>5, <2>1, <2>2, FlushStep
<1>8. SectionsHave(doc, html, sections)
  <2>1. \A x : doc[x] = "word" => doc[x] \notin Document!Headings
    BY DEF Document!Headings
  <2>2. \A x : InSeq(html, x) <=> \E j \in 1..n : html[j] = x
    BY DEF InSeq
  <2> HIDE DEF n
  <2>3. \A x : InSections(sections, x)
                <=> \E j \in 1..n : html[j] = x /\ doc[x] \notin Document!Headings
    BY <1>1, <1>6 DEF FlushedHas, SplitTo
  <2>4. ASSUME NEW x, doc[x] = "word" PROVE InSections(sections, x) <=> InSeq(html, x)
    <3>1. doc[x] \notin Document!Headings
      BY <2>1, <2>4
    <3> QED BY <2>2, <2>3, <3>1, Zenon
  <2> QED BY <1>6, <2>4 DEF SectionsHave, FlushedHas
<1>9. SectionsHave(doc, html, whole)
  <2>1. \A x : ~InSections(<<>>, x)
    BY DEF InSections
  <2> QED BY <1>7, <2>1 DEF SectionsHave, FlushedHas
<1> QED BY <1>2, <1>8, <1>9

-----------------------------------------------------------------------------
(* The chunks of a document have the words it shows. *)

\* What is laid one after another is in one of the parts, and the other way round.
HasParts(parts, text) ==
    \A x : InSeq(text, x) <=> \E m \in 1..Len(parts) : InSeq(parts[m], x)

LEMMA InConcatenated ==
    ASSUME NEW D, NEW a \in Seq(D), NEW b \in Seq(D)
    PROVE  \A x : InSeq(a \o b, x) <=> InSeq(a, x) \/ InSeq(b, x)
<1> DEFINE c == a \o b
<1>1. /\ Len(c) = Len(a) + Len(b) /\ Len(a) \in Nat /\ Len(b) \in Nat
      /\ \A j \in 1..Len(a) : c[j] = a[j]
      /\ \A j \in 1..Len(b) : c[Len(a) + j] = b[j]
  BY Concatenated
<1> HIDE DEF c
<1>2. ASSUME NEW x, InSeq(c, x) PROVE InSeq(a, x) \/ InSeq(b, x)
  <2>1. PICK k \in 1..Len(c) : c[k] = x
    BY <1>2 DEF InSeq
  <2>2. CASE k <= Len(a)
    <3>1. k \in 1..Len(a) /\ a[k] = x
      BY <1>1, <2>1, <2>2
    <3> QED BY <3>1 DEF InSeq
  <2>3. CASE ~(k <= Len(a))
    <3> DEFINE j == k - Len(a)
    <3>1. j \in 1..Len(b) /\ Len(a) + j = k
      BY <1>1, <2>3
    <3> HIDE DEF j
    <3>2. b[j] = x
      BY <1>1, <2>1, <3>1
    <3> QED BY <3>1, <3>2 DEF InSeq
  <2> QED BY <2>2, <2>3
<1>3. ASSUME NEW x, InSeq(a, x) PROVE InSeq(c, x)
  <2>1. PICK k \in 1..Len(a) : a[k] = x
    BY <1>3 DEF InSeq
  <2>2. k \in 1..Len(c) /\ c[k] = x
    BY <1>1, <2>1
  <2> QED BY <2>2 DEF InSeq
<1>4. ASSUME NEW x, InSeq(b, x) PROVE InSeq(c, x)
  <2>1. PICK k \in 1..Len(b) : b[k] = x
    BY <1>4 DEF InSeq
  <2>2. Len(a) + k \in 1..Len(c)
    BY <1>1
  <2>3. c[Len(a) + k] = x
    BY <1>1, <2>1
  <2> QED BY <2>2, <2>3 DEF InSeq
<1> QED BY <1>2, <1>3, <1>4 DEF c

LEMMA FlattenedHasParts ==
    ASSUME NEW D, NEW parts, NEW text, NEW w, Flattening(w, parts, text, D)
    PROVE  HasParts(parts, text)
<1> DEFINE n == Len(parts)
           S == Seq(D)
           Has(m) == \A x : InSeq(w[m], x) <=> \E k \in 1..m : InSeq(parts[k], x)
           I == {m \in 0..n : Has(m)}
<1>1. parts \in Seq(S) /\ text = w[n] /\ w[0] = <<>> /\ w \in [0..n -> S]
      /\ \A m \in 1..n : w[m] = w[m - 1] \o parts[m]
  BY DEF Flattening
<1>2. n \in Nat /\ \A m \in 1..n : parts[m] \in S
  <2> HIDE DEF S
  <2> QED BY <1>1
<1>3. \A m \in 0..n : w[m] \in S
  <2> HIDE DEF S, n
  <2> QED BY <1>1
<1>4. 0 \in I
  <2>1. Has(0)
    BY <1>1 DEF InSeq
  <2> QED BY <1>2, <2>1
<1>5. \A m \in 0..n : m \in I /\ m < n => m + 1 \in I
  <2> HIDE DEF n, Has
  <2> SUFFICES ASSUME NEW m \in 0..n, m \in I, m < n PROVE m + 1 \in I
    OBVIOUS
  <2>1. m + 1 \in 1..n /\ (m + 1) - 1 = m /\ m \in Nat /\ m + 1 \in 0..n
    BY <1>2
  <2> DEFINE a == w[m]
             b == parts[m + 1]
             c == w[m + 1]
  <2>2. a \in Seq(D) /\ b \in Seq(D) /\ c = a \o b
    BY <1>1, <1>2, <1>3, <2>1
  <2>3. b = parts[m + 1]
    OBVIOUS
  <2>4. \A x : InSeq(a, x) <=> \E k \in 1..m : InSeq(parts[k], x)
    BY DEF Has
  <2> HIDE DEF a, b, c
  <2>5. \A x : InSeq(c, x) <=> InSeq(a, x) \/ InSeq(b, x)
    BY <2>2, InConcatenated
  <2>6. \A k : k \in 1..(m + 1) <=> k \in 1..m \/ k = m + 1
    BY <2>1
  <2>7. \A x : InSeq(c, x) <=> \E k \in 1..(m + 1) : InSeq(parts[k], x)
    BY <2>3, <2>4, <2>5, <2>6, Zenon
  <2>8. Has(m + 1)
    BY <2>7 DEF Has, c
  <2> QED BY <2>1, <2>8
<1>6. Has(n)
  <2> HIDE DEF I, n, Has
  <2>1. \A m \in 0..n : m \in I
    BY <1>2, <1>4, <1>5, Induction
  <2> QED BY <1>2, <2>1 DEF I
<1> QED BY <1>1, <1>6 DEF HasParts

\* The chunks of a document are those of its sections, one section after another.
MadeOf(sections, parts, chunks) ==
    /\ Len(sections) \in Nat /\ Len(parts) = Len(sections)
    /\ Len(chunks) \in Nat /\ \A c \in 1..Len(chunks) : chunks[c] \in Seq(Nat)
    /\ HasParts(parts, chunks)
    /\ \A i \in 1..Len(sections) :
          /\ PrefixedWith(sections[i], Document!Prefixed(sections[i]))
          /\ parts[i] = Document!ChunkWords(Document!Prefixed(sections[i]))

LEMMA ChunksAreMade ==
    ASSUME NEW doc \in Seq(Document!Items), NEW sections, sections = Document!Sections(doc),
           NEW chunks, chunks = Document!ChunkTexts(doc)
    PROVE  \E parts : MadeOf(sections, parts, chunks)
<1> DEFINE n == Len(doc)
           l == Len(sections)
           words(i) == Document!Prefixed(sections[i])
           parts == [i \in 1..l |-> Document!ChunkWords(words(i))]
           T == Seq(Nat)
<1>1. sections \in Seq(Section(1..n)) /\ n \in Nat
  BY SectionsOfDocument
<1>2. l \in Nat /\ \A i \in 1..l : sections[i] \in Section(1..n)
  <2> DEFINE S == Section(1..n)
  <2> HIDE DEF S
  <2>1. l \in Nat /\ \A i \in 1..l : sections[i] \in S
    BY <1>1 DEF S
  <2> QED BY <2>1 DEF S
<1>3. \A i \in 1..l : PrefixedWith(sections[i], words(i)) /\ words(i) \in Seq(Nat)
  <2> SUFFICES ASSUME NEW i \in 1..l PROVE PrefixedWith(sections[i], words(i)) /\ words(i) \in Seq(Nat)
    OBVIOUS
  <2> DEFINE section == sections[i]
  <2>1. section \in Section(1..n)
    BY <1>2
  <2> HIDE DEF section
  <2>2. PrefixedWith(section, Document!Prefixed(section))
    BY <1>1, <2>1, PrefixedIs
  <2> QED BY <2>2 DEF PrefixedWith, section
<1>4. \A i \in 1..l : Document!ChunkWords(words(i)) \in Seq(T)
  <2> SUFFICES ASSUME NEW i \in 1..l PROVE Document!ChunkWords(words(i)) \in Seq(T)
    OBVIOUS
  <2> DEFINE q == words(i)
  <2>1. q \in Seq(Nat)
    BY <1>3
  <2> HIDE DEF q
  <2>2. WellChunked(Document!ChunkWords(q), q, Nat)
    BY <2>1, ChunksAreWell
  <2> QED BY <2>2 DEF WellChunked, q
<1>5. parts \in Seq(Seq(T)) /\ Len(parts) = l /\ \A i \in 1..l : parts[i] = Document!ChunkWords(words(i))
  <2> HIDE DEF T, l, words
  <2> QED BY <1>2, <1>4
<1>6. chunks = Reply!FlattenSeq(parts)
  <2>1. chunks = Document!FlattenSeq(parts)
    BY DEF Document!ChunkTexts
  <2> HIDE DEF parts
  <2> QED BY <2>1, Zenon DEF Document!FlattenSeq, Reply!FlattenSeq
<1> HIDE DEF words, parts
<1>7. PICK w : Flattening(w, parts, Reply!FlattenSeq(parts), T)
  <2> HIDE DEF T
  <2> QED BY <1>5, Flattened
<1>8. HasParts(parts, chunks)
  <2> HIDE DEF T
  <2> QED BY <1>6, <1>7, FlattenedHasParts
<1>9. chunks \in Seq(T)
  <2> HIDE DEF T
  <2> QED BY <1>6, <1>7, PartsAreInPlace DEF InPlace
<1>10. Len(chunks) \in Nat /\ \A c \in 1..Len(chunks) : chunks[c] \in T
  <2> HIDE DEF T
  <2> QED BY <1>9
<1>11. MadeOf(sections, parts, chunks)
  BY <1>2, <1>3, <1>5, <1>8, <1>10 DEF MadeOf, words
<1> QED BY <1>11

\* x is a word of a chunk if it is one of a section.
LEMMA ChunksHave ==
    ASSUME NEW doc, NEW sections, NEW parts, NEW chunks, MadeOf(sections, parts, chunks),
           PathsAreHeadings(doc, sections), NEW x \in Nat, x # 0, doc[x] = "word"
    PROVE  (\E c \in 1..Len(chunks) : InSeq(chunks[c], x)) <=> InSections(sections, x)
<1> DEFINE l == Len(sections)
           words(i) == Document!Prefixed(sections[i])
<1>3. \A i \in 1..l : PrefixedWith(sections[i], words(i)) /\ words(i) \in Seq(Nat)
  BY DEF MadeOf, PrefixedWith
<1>5. Len(parts) = l /\ \A i \in 1..l : parts[i] = Document!ChunkWords(words(i))
  BY DEF MadeOf
<1>7. HasParts(parts, chunks)
  BY DEF MadeOf
<1> HIDE DEF words, l
<1>8. \A i \in 1..l : (\E c \in 1..Len(parts[i]) : InSeq(parts[i][c], x)) <=> InSeq(words(i), x)
  <2> SUFFICES ASSUME NEW i \in 1..l
               PROVE  (\E c \in 1..Len(parts[i]) : InSeq(parts[i][c], x)) <=> InSeq(words(i), x)
    OBVIOUS
  <2> DEFINE p == parts[i]
             q == words(i)
             Within(chunk) == {chunk[j] : j \in 1..Len(chunk)}
             U == UNION {Within(p[c]) : c \in 1..Len(p)}
             V == {q[k] : k \in 1..Len(q)}
  <2>1. p = Document!ChunkWords(q) /\ q \in Seq(Nat)
    BY <1>3, <1>5
  <2> HIDE DEF p, q
  <2>2. U = V
    <3>1. HaveWords(p, q)
      BY <2>1, ChunksHaveWords
    <3> QED BY <3>1 DEF HaveWords
  <2>3. x \in V <=> InSeq(q, x)
    BY DEF InSeq
  <2>4. \A chunk : x \in Within(chunk) <=> InSeq(chunk, x)
    BY DEF InSeq
  <2>5. x \in U <=> \E c \in 1..Len(p) : InSeq(p[c], x)
    <3> HIDE DEF Within
    <3> QED BY <2>4
  <2> HIDE DEF U, V
  <2>6. (\E c \in 1..Len(p) : InSeq(p[c], x)) <=> InSeq(q, x)
    BY <2>2, <2>3, <2>5
  <2> QED BY <2>6 DEF p, q
<1>9. \A i \in 1..l : InSeq(words(i), x) <=> InSeq(sections[i].words, x)
  <2> SUFFICES ASSUME NEW i \in 1..l PROVE InSeq(words(i), x) <=> InSeq(sections[i].words, x)
    OBVIOUS
  <2>1. PrefixedWith(sections[i], words(i))
    BY <1>3
  <2>2. ASSUME InSeq(words(i), x) PROVE InSeq(sections[i].words, x)
    <3>1. PICK k \in 1..Len(words(i)) : words(i)[k] = x
      BY <2>2 DEF InSeq
    <3>2. ASSUME NEW j \in 1..Len(sections[i].path), x = sections[i].path[j] PROVE FALSE
      <4>1. doc[x] \in Document!Headings
        BY <3>2 DEF PathsAreHeadings, l
      <4> QED BY <4>1 DEF Document!Headings
    <3> QED BY <2>1, <3>1, <3>2 DEF PrefixedWith, InSeq
  <2>3. ASSUME InSeq(sections[i].words, x) PROVE InSeq(words(i), x)
    BY <2>1, <2>3 DEF PrefixedWith, InSeq
  <2> QED BY <2>2, <2>3
<1>10. \A i \in 1..l : (\E c \in 1..Len(parts[i]) : InSeq(parts[i][c], x)) <=> InSeq(sections[i].words, x)
  BY <1>8, <1>9, Zenon
<1>11. ASSUME NEW c \in 1..Len(chunks), InSeq(chunks[c], x) PROVE InSections(sections, x)
  <2>1. InSeq(chunks, chunks[c])
    BY DEF InSeq
  <2>2. PICK i \in 1..l : InSeq(parts[i], chunks[c])
    BY <1>5, <1>7, <2>1 DEF HasParts
  <2>3. \E k \in 1..Len(parts[i]) : InSeq(parts[i][k], x)
    BY <1>11, <2>2 DEF InSeq
  <2> QED BY <1>10, <2>2, <2>3 DEF InSections, l
<1>12. ASSUME InSections(sections, x) PROVE \E c \in 1..Len(chunks) : InSeq(chunks[c], x)
  <2>1. PICK i \in 1..l : InSeq(sections[i].words, x)
    BY <1>12 DEF InSections, l
  <2>2. PICK k \in 1..Len(parts[i]) : InSeq(parts[i][k], x)
    BY <1>10, <2>1
  <2>3. InSeq(parts[i], parts[i][k])
    BY DEF InSeq
  <2>4. InSeq(chunks, parts[i][k])
    BY <1>5, <1>7, <2>3 DEF HasParts
  <2> QED BY <2>2, <2>4 DEF InSeq
<1> QED BY <1>11, <1>12

\* A word is in a chunk if it is in a section, in a section if cleaning leaves it, and
\* cleaning leaves it if no block hides it and it is in the main area.
LEMMA NothingIsLost ==
    ASSUME NEW doc \in Seq(Document!Items)
    PROVE  Document!NothingLost(doc)
<1> DEFINE n == Len(doc)
           html == Document!CleanHtml(doc)
           sections == Document!Sections(doc)
           chunks == Document!ChunkTexts(doc)
           L == {i \in 1..n : doc[i] = "word" /\ ~Document!Hidden(doc, i) /\ Document!InMain(doc, i)}
           U == UNION {Document!ToSet(chunks[c]) : c \in 1..Len(chunks)}
           R == {i \in U : i # 0 /\ doc[i] = "word"}
<1> SUFFICES ASSUME Document!Flat(doc) PROVE L = R
  BY DEF Document!NothingLost, Document!Separator
<1>1. html \in Seq(1..n) /\ n \in Nat
  BY HtmlIsClean
<1>2. \A i : InSeq(html, i) <=> i \in 1..n /\ IsTold(doc, i)
  BY CleanIsTold
<1>3. sections = Document!SplitSections(doc, html)
  BY DEF Document!Sections
<1> HIDE DEF html
<1>4. Plain(doc, html)
  <2>1. \A k \in 1..Len(html) : InSeq(html, html[k])
    BY DEF InSeq
  <2> QED BY <1>2, <2>1 DEF Plain, IsTold, Visible
<1>5. SectionsHave(doc, html, sections)
  BY <1>1, <1>3, <1>4, SectionsHaveWords
<1>6. PICK parts : MadeOf(sections, parts, chunks)
  BY ChunksAreMade
<1> HIDE DEF sections, chunks
<1>7. \A x \in Nat : x # 0 /\ doc[x] = "word" =>
          ((\E c \in 1..Len(chunks) : InSeq(chunks[c], x)) <=> InSections(sections, x))
  BY <1>5, <1>6, ChunksHave DEF SectionsHave
<1>8. \A c \in 1..Len(chunks) : \A x : x \in Document!ToSet(chunks[c]) <=> InSeq(chunks[c], x)
  <2> SUFFICES ASSUME NEW c \in 1..Len(chunks), NEW x
               PROVE  x \in Document!ToSet(chunks[c]) <=> InSeq(chunks[c], x)
    OBVIOUS
  <2>1. chunks[c] \in Seq(Nat)
    BY <1>6 DEF MadeOf
  <2> DEFINE q == chunks[c]
  <2> HIDE DEF q
  <2>2. q \in Seq(Nat)
    BY <2>1 DEF q
  <2>3. DOMAIN q = 1..Len(q)
    BY <2>2
  <2>4. x \in Document!ToSet(q) <=> InSeq(q, x)
    BY <2>3, Zenon DEF Document!ToSet, InSeq
  <2> QED BY <2>4 DEF q
<1>9. \A x \in U : x \in Nat
  <2> SUFFICES ASSUME NEW c \in 1..Len(chunks), NEW x \in Document!ToSet(chunks[c]) PROVE x \in Nat
    OBVIOUS
  <2>1. chunks[c] \in Seq(Nat) /\ InSeq(chunks[c], x)
    BY <1>6, <1>8 DEF MadeOf
  <2> QED BY <2>1 DEF InSeq
<1>10. \A x : x \in U <=> \E c \in 1..Len(chunks) : InSeq(chunks[c], x)
  BY <1>8
<1> HIDE DEF U
<1>11. ASSUME NEW x \in L PROVE x \in R
  <2>1. x \in Nat /\ x # 0 /\ doc[x] = "word"
    BY <1>1, <1>11
  <2>2. IsTold(doc, x)
    BY <1>11 DEF IsTold, Visible, Tags, Document!AreaTags
  <2>3. InSections(sections, x)
    BY <1>2, <1>5, <1>11, <2>1, <2>2 DEF SectionsHave
  <2> QED BY <1>7, <1>10, <2>1, <2>3
<1>12. ASSUME NEW x \in R PROVE x \in L
  <2>1. x \in Nat /\ x # 0 /\ doc[x] = "word" /\ x \in U
    BY <1>9, <1>12
  <2>2. InSections(sections, x)
    BY <1>7, <1>10, <2>1
  <2>3. x \in 1..n /\ IsTold(doc, x)
    BY <1>2, <1>5, <2>1, <2>2 DEF SectionsHave
  <2> QED BY <2>1, <2>3 DEF IsTold, Visible
<1> HIDE DEF L, R
<1> QED BY <1>11, <1>12

-----------------------------------------------------------------------------
(* The paths of the sections. *)

LEMMA UntaggedItems ==
    ASSUME NEW doc \in Seq(Document!Items), Document!Untagged(doc)
    PROVE  \A i \in 1..Len(doc) : doc[i] \notin Tags /\ doc[i] \notin Document!AreaTags
<1> SUFFICES ASSUME NEW i \in 1..Len(doc)
             PROVE  doc[i] \notin Tags /\ doc[i] \notin Document!AreaTags
  OBVIOUS
<1>1. doc[i] \in Document!ToSet(doc)
  <2>1. i \in DOMAIN doc
    OBVIOUS
  <2> QED BY <2>1 DEF Document!ToSet
<1>2. doc[i] \in Document!Headings \cup {"word"}
  BY <1>1 DEF Document!Untagged
<1> QED BY <1>2 DEF Document!Headings, Tags, Document!AreaTags

\* All items are kept.
KeptUpTo(kept, m) == Len(kept) = m /\ \A k \in 1..m : kept[k] = k

LEMMA UntaggedStays ==
    ASSUME NEW doc \in Seq(Document!Items), Document!Untagged(doc)
    PROVE  KeptUpTo(Document!Stripped(doc), Len(doc))
<1> DEFINE n == Len(doc)
<1> SUFFICES ASSUME NEW w, w = Document!Cleaning(doc) PROVE KeptUpTo(w[n].kept, n)
  BY DEF Document!Stripped
<1> DEFINE I == {m \in 0..n : w[m].until = 0 /\ KeptUpTo(w[m].kept, m)}
<1>1. /\ w[0] = [kept |-> <<>>, until |-> 0]
      /\ \A m \in 1..n : w[m] = Document!CleanedWith(w[m - 1], doc, m)
      /\ \A m \in 0..n : w[m] \in Clean(doc)
  BY CleaningIsLoop
<1>2. n \in Nat
  OBVIOUS
<1>3. 0 \in I
  BY <1>1, <1>2 DEF KeptUpTo
<1>4. \A m \in 0..n : m \in I /\ m < n => m + 1 \in I
  <2> SUFFICES ASSUME NEW m \in 0..n, m \in I, m < n PROVE m + 1 \in I
    OBVIOUS
  <2> DEFINE i == m + 1
             s == w[m]
             t == w[i]
  <2>1. i \in 1..n /\ i - 1 = m /\ m \in Nat /\ i \in 0..n /\ i = m + 1
    BY <1>2
  <2>2. s \in Clean(doc) /\ s.until = 0 /\ KeptUpTo(s.kept, m)
    BY <1>1
  <2> HIDE DEF i
  <2>3. t = Document!CleanedWith(s, doc, i)
    BY <1>1, <2>1
  <2>4. doc[i] # "open"
    BY <2>1, UntaggedItems DEF Tags
  <2> HIDE DEF s, t
  <2>5. t.kept = Append(s.kept, i) /\ t.until = 0
    <3>1. ~(i <= s.until)
      BY <2>1, <2>2
    <3> QED BY <2>2, <2>3, <2>4, <3>1 DEF Document!CleanedWith
  <2>6. KeptUpTo(t.kept, i)
    <3>1. s.kept \in Seq(1..n) /\ Len(s.kept) = m /\ \A k \in 1..m : s.kept[k] = k
      BY <2>2 DEF Clean, KeptUpTo
    <3>2. Len(t.kept) = m + 1 /\ t.kept[m + 1] = i /\ \A k \in 1..m : t.kept[k] = s.kept[k]
      BY <2>1, <2>5, <3>1
    <3>3. \A k \in 1..i : k \in 1..m \/ k = m + 1
      BY <2>1
    <3> QED BY <2>1, <3>1, <3>2, <3>3 DEF KeptUpTo
  <2> QED BY <2>1, <2>5, <2>6 DEF i, t
<1>5. n \in I
  <2> HIDE DEF I, n
  <2>1. \A m \in 0..n : m \in I
    BY <1>2, <1>3, <1>4, Induction
  <2> QED BY <1>2, <2>1
<1> QED BY <1>5

LEMMA UntaggedIsTaken ==
    ASSUME NEW doc \in Seq(Document!Items), Document!Untagged(doc),
           NEW html \in Seq(1..Len(doc)), KeptUpTo(html, Len(doc))
    PROVE  \A i \in 1..Len(doc) : Document!Taken(doc, html, i)
<1>1. Len(html) = Len(doc) /\ \A k \in 1..Len(doc) : html[k] = k /\ doc[html[k]] \notin Document!AreaTags
  BY UntaggedItems DEF KeptUpTo
<1>2. ASSUME NEW n \in 1..Len(Document!Areas) PROVE Document!Areas[n].opening \in Document!AreaTags
  <2>1. n = 1 \/ n = 2 \/ n = 3
    BY DEF Document!Areas
  <2>2. CASE n = 1
    BY <2>2 DEF Document!Areas, Document!AreaTags
  <2>3. CASE n = 2
    BY <2>3 DEF Document!Areas, Document!AreaTags
  <2>4. CASE n = 3
    BY <2>4 DEF Document!Areas, Document!AreaTags
  <2> QED BY <2>1, <2>2, <2>3, <2>4
<1>3. ASSUME NEW n \in 1..Len(Document!Areas) PROVE ~Document!Found(doc, html, Document!Areas[n])
  <2> DEFINE a == Document!Areas[n].opening
  <2>1. a \in Document!AreaTags
    BY <1>2
  <2>2. \A k \in 1..Len(html) : doc[html[k]] # a
    BY <1>1, <2>1
  <2> QED BY <2>2, Zenon DEF Document!Found
<1> QED BY <1>1, <1>3, Zenon DEF Document!Taken

LEMMA UntaggedIsKept ==
    ASSUME NEW doc \in Seq(Document!Items), Document!Untagged(doc)
    PROVE  KeptUpTo(Document!CleanHtml(doc), Len(doc))
<1> DEFINE html == Document!Stripped(doc)
           n == Len(doc)
           P == 1..n
<1>1. html \in Seq(P) /\ KeptUpTo(html, n) /\ n \in Nat
  BY StrippedIs, UntaggedStays
<1>2. \A i \in P : Document!Taken(doc, html, i)
  BY <1>1, UntaggedIsTaken
<1>3. Document!CleanHtml(doc) = Document!MainContent(doc, html)
  BY DEF Document!CleanHtml
<1> HIDE DEF html
<1> SUFFICES ASSUME NEW w, w = Document!Narrowing(doc, html) PROVE KeptUpTo(w[n], n)
  BY <1>1, <1>3 DEF Document!MainContent, KeptUpTo
<1> DEFINE I == {m \in 0..n : KeptUpTo(w[m], m)}
<1>4. /\ w[0] = <<>>
      /\ \A m \in P : w[m] = Narrowed(doc, html, m, w[m - 1])
      /\ \A m \in 0..n : w[m] \in Seq(P)
  <2>1. Len(html) = n
    BY <1>1 DEF KeptUpTo
  <2>2. /\ w[0] = <<>>
        /\ \A m \in 1..Len(html) : w[m] = Narrowed(doc, html, m, w[m - 1])
        /\ \A m \in 0..Len(html) : w[m] \in Seq(P)
    BY <1>1, NarrowingIsLoop
  <2> QED BY <2>1, <2>2
<1>5. 0 \in I
  BY <1>1, <1>4 DEF KeptUpTo
<1>6. \A m \in 0..n : m \in I /\ m < n => m + 1 \in I
  <2> SUFFICES ASSUME NEW m \in 0..n, m \in I, m < n PROVE m + 1 \in I
    OBVIOUS
  <2> DEFINE i == m + 1
             q == w[m]
             r == w[i]
  <2>1. i \in P /\ i - 1 = m /\ m \in Nat /\ i \in 0..n /\ i = m + 1
    BY <1>1
  <2> HIDE DEF i
  <2>2. q \in Seq(P) /\ KeptUpTo(q, m) /\ html[i] = i
    BY <1>1, <1>4, <2>1 DEF KeptUpTo
  <2>3. r = Append(q, i)
    BY <1>2, <1>4, <2>1, <2>2 DEF Narrowed
  <2> HIDE DEF q, r
  <2>4. Len(r) = m + 1 /\ r[m + 1] = i /\ \A k \in 1..m : r[k] = q[k] /\ q[k] = k
    BY <2>1, <2>2, <2>3 DEF KeptUpTo
  <2>5. \A k \in 1..i : k \in 1..m \/ k = m + 1
    BY <2>1
  <2>6. KeptUpTo(r, i)
    BY <2>1, <2>4, <2>5 DEF KeptUpTo
  <2> QED BY <2>1, <2>6 DEF i, r
<1>7. n \in I
  <2> HIDE DEF I, n
  <2>1. \A m \in 0..n : m \in I
    BY <1>1, <1>5, <1>6, Induction
  <2> QED BY <1>1, <2>1
<1> QED BY <1>7

LEMMA OpenHeadingsStay ==
    ASSUME NEW doc, NEW i \in Nat, i > 0, doc[i] \notin Document!Headings
    PROVE  \A h : h \in Document!OpenHeadings(doc, i + 1) <=> h \in Document!OpenHeadings(doc, i)
<1>1. (i + 1) - 1 = i
  OBVIOUS
<1>2. ASSUME NEW h \in Document!OpenHeadings(doc, i + 1) PROVE h \in Document!OpenHeadings(doc, i)
  <2>1. /\ h \in 1..i /\ doc[h] \in Document!Headings
        /\ \A g \in (h + 1)..i : doc[g] \in Document!Headings =>
               Document!Level(doc[g]) > Document!Level(doc[h])
    BY <1>1, <1>2 DEF Document!OpenHeadings
  <2>2. h \in 1..(i - 1) /\ \A g \in (h + 1)..(i - 1) : g \in (h + 1)..i
    BY <2>1
  <2> QED BY <2>1, <2>2 DEF Document!OpenHeadings
<1>3. ASSUME NEW h \in Document!OpenHeadings(doc, i) PROVE h \in Document!OpenHeadings(doc, i + 1)
  <2>1. /\ h \in 1..(i - 1) /\ doc[h] \in Document!Headings
        /\ \A g \in (h + 1)..(i - 1) : doc[g] \in Document!Headings =>
               Document!Level(doc[g]) > Document!Level(doc[h])
    BY <1>3 DEF Document!OpenHeadings
  <2>2. h \in 1..i /\ \A g \in (h + 1)..i : g \in (h + 1)..(i - 1) \/ g = i
    BY <2>1
  <2>3. \A g \in (h + 1)..i : doc[g] \in Document!Headings =>
               Document!Level(doc[g]) > Document!Level(doc[h])
    BY <2>1, <2>2
  <2> QED BY <1>1, <2>1, <2>2, <2>3 DEF Document!OpenHeadings
<1> QED BY <1>2, <1>3

Opens(doc, i) ==
    \A h : h \in Document!OpenHeadings(doc, i + 1) <=>
               \/ h = i
               \/ /\ h \in Document!OpenHeadings(doc, i)
                  /\ Document!Level(doc[h]) < Document!Level(doc[i])

LEMMA HeadingOpens ==
    ASSUME NEW doc, NEW i \in Nat, i > 0, doc[i] \in Document!Headings
    PROVE  Opens(doc, i)
<1>1. (i + 1) - 1 = i
  OBVIOUS
<1>2. ASSUME NEW h \in Document!OpenHeadings(doc, i + 1), h # i
      PROVE  h \in Document!OpenHeadings(doc, i) /\ Document!Level(doc[h]) < Document!Level(doc[i])
  <2>1. /\ h \in 1..i /\ doc[h] \in Document!Headings
        /\ \A g \in (h + 1)..i : doc[g] \in Document!Headings =>
               Document!Level(doc[g]) > Document!Level(doc[h])
    BY <1>1, <1>2 DEF Document!OpenHeadings
  <2>2. h \in 1..(i - 1) /\ i \in (h + 1)..i /\ \A g \in (h + 1)..(i - 1) : g \in (h + 1)..i
    BY <1>2, <2>1
  <2>3. Document!Level(doc[i]) \in 1..3 /\ Document!Level(doc[h]) \in 1..3
    BY <2>1, LevelIs
  <2>4. Document!Level(doc[h]) < Document!Level(doc[i])
    BY <2>1, <2>2, <2>3
  <2> QED BY <2>1, <2>2, <2>4 DEF Document!OpenHeadings
<1>3. ASSUME NEW h \in Document!OpenHeadings(doc, i), Document!Level(doc[h]) < Document!Level(doc[i])
      PROVE  h \in Document!OpenHeadings(doc, i + 1)
  <2>1. /\ h \in 1..(i - 1) /\ doc[h] \in Document!Headings
        /\ \A g \in (h + 1)..(i - 1) : doc[g] \in Document!Headings =>
               Document!Level(doc[g]) > Document!Level(doc[h])
    BY <1>3 DEF Document!OpenHeadings
  <2>2. h \in 1..i /\ \A g \in (h + 1)..i : g \in (h + 1)..(i - 1) \/ g = i
    BY <2>1
  <2>3. Document!Level(doc[i]) \in 1..3 /\ Document!Level(doc[h]) \in 1..3
    BY <2>1, LevelIs
  <2>4. Document!Level(doc[i]) > Document!Level(doc[h])
    BY <1>3, <2>3
  <2>5. \A g \in (h + 1)..i : doc[g] \in Document!Headings =>
               Document!Level(doc[g]) > Document!Level(doc[h])
    BY <2>1, <2>2, <2>4
  <2> QED BY <1>1, <2>1, <2>2, <2>5 DEF Document!OpenHeadings
<1>4. i \in Document!OpenHeadings(doc, i + 1)
  <2>1. i \in 1..i /\ \A g \in (i + 1)..i : FALSE
    OBVIOUS
  <2> QED BY <1>1, <2>1 DEF Document!OpenHeadings
<1> QED BY <1>2, <1>3, <1>4, Zenon DEF Opens

\* The path holds the headings over position i, outermost first.
Above(doc, path, i) ==
    /\ \A x : x \in Document!OpenHeadings(doc, i) <=> InSeq(path, x)
    /\ \A j, k \in 1..Len(path) : j < k => path[j] < path[k]

\* The k-th heading of the stack has level k.
Levels(doc, stack) ==
    \A k \in 1..Len(stack) : doc[stack[k]] \in Document!Headings /\ Document!Level(doc[stack[k]]) = k

LEMMA StackIsDeep ==
    ASSUME NEW doc, NEW n \in Nat, Len(doc) = n, Document!NoLevelSkipped(doc), NEW i \in 1..n,
           doc[i] \in Document!Headings, NEW stack \in Seq(1..n), Above(doc, stack, i), Levels(doc, stack)
    PROVE  Document!Level(doc[i]) - 1 <= Len(stack)
<1> DEFINE l == Document!Level(doc[i])
<1>1. l \in 1..3
  BY LevelIs
<1>2. CASE l = 1
  BY <1>2
<1>3. CASE l # 1
  <2>1. i \in 1..Len(doc) /\ l - 1 \in 1..(l - 1)
    BY <1>1, <1>3
  <2>2. PICK g \in Document!OpenHeadings(doc, i) : Document!Level(doc[g]) = l - 1
    BY <2>1 DEF Document!NoLevelSkipped
  <2>3. PICK k \in 1..Len(stack) : stack[k] = g
    BY <2>2 DEF Above, InSeq
  <2>4. k = l - 1
    BY <2>2, <2>3 DEF Levels
  <2> HIDE DEF l
  <2>5. l - 1 <= Len(stack)
    BY <2>3, <2>4
  <2> QED BY <2>5 DEF l
<1> QED BY <1>2, <1>3

LEMMA HeadingStep ==
    ASSUME NEW doc, NEW n \in Nat, Len(doc) = n, Document!NoLevelSkipped(doc), NEW i \in 1..n,
           doc[i] \in Document!Headings, NEW stack \in Seq(1..n), Above(doc, stack, i), Levels(doc, stack),
           NEW next, next = Append(Document!Trimmed(stack, Document!Level(doc[i])), i)
    PROVE  Above(doc, next, i + 1) /\ Levels(doc, next)
<1> DEFINE l == Document!Level(doc[i])
           P == 1..n
<1>1. l \in Nat /\ l > 0 /\ l - 1 <= Len(stack) /\ i \in Nat /\ i > 0 /\ i \in P
  BY StackIsDeep, LevelIs
<1>l. l = Document!Level(doc[i])
  OBVIOUS
<1>2. PICK rest : IsTrimmed(stack, l, rest, P) /\ next = Append(rest, i)
  BY <1>1, TrimmedIs
<1> HIDE DEF l
<1>3. /\ rest \in Seq(P) /\ Len(rest) = l - 1 /\ Len(stack) \in Nat
      /\ \A k \in 1..(l - 1) : rest[k] = stack[k] /\ k \in 1..Len(stack)
  <2>1. Len(stack) \in Nat
    OBVIOUS
  <2>2. Document!Lesser(Len(stack), l - 1) = l - 1
    BY <1>1, <2>1 DEF Document!Lesser
  <2>3. \A k \in 1..(l - 1) : k \in 1..Len(stack)
    BY <1>1, <2>1
  <2> QED BY <1>2, <2>1, <2>2, <2>3 DEF IsTrimmed
<1>4. /\ Len(next) = l /\ next[l] = i /\ \A k \in 1..(l - 1) : next[k] = stack[k]
      /\ next \in Seq(P)
  <2>1. Len(rest) + 1 = l
    BY <1>1, <1>3
  <2>2. /\ Len(next) = Len(rest) + 1 /\ next[Len(rest) + 1] = i /\ next \in Seq(P)
        /\ \A k \in 1..Len(rest) : next[k] = rest[k]
    <3> HIDE DEF P
    <3> QED BY <1>1, <1>2, <1>3
  <2> QED BY <1>3, <2>1, <2>2
<1>5. \A k \in 1..l : k \in 1..(l - 1) \/ k = l
  BY <1>1
<1>6. Levels(doc, next)
  <2> SUFFICES ASSUME NEW k \in 1..l
               PROVE  doc[next[k]] \in Document!Headings /\ Document!Level(doc[next[k]]) = k
    BY <1>4 DEF Levels
  <2>1. CASE k = l
    BY <1>4, <1>l, <2>1
  <2>2. CASE k # l
    <3>1. k \in 1..(l - 1)
      BY <1>5, <2>2
    <3> QED BY <1>3, <1>4, <3>1 DEF Levels
  <2> QED BY <2>1, <2>2
<1>7. \A x : InSeq(stack, x) => x \in 1..(i - 1)
  BY DEF Above, Document!OpenHeadings
<1>8. ASSUME NEW j \in 1..Len(next), NEW k \in 1..Len(next), j < k PROVE next[j] < next[k]
  <2>1. j \in 1..(l - 1) /\ next[j] = stack[j]
    BY <1>1, <1>4, <1>8
  <2>2. CASE k = l
    <3>1. InSeq(stack, stack[j])
      BY <1>3, <2>1 DEF InSeq
    <3>2. stack[j] \in 1..(i - 1)
      BY <1>7, <3>1
    <3> QED BY <1>1, <1>4, <2>1, <2>2, <3>2
  <2>3. CASE k # l
    <3>1. k \in 1..(l - 1) /\ next[k] = stack[k]
      BY <1>4, <1>5, <2>3
    <3> QED BY <1>3, <1>8, <2>1, <3>1 DEF Above
  <2> QED BY <2>2, <2>3
<1> DEFINE Lower(x) == Document!Level(doc[x]) < l
<1> HIDE DEF Lower
<1>9. \A x : InSeq(next, x) <=> x = i \/ (InSeq(stack, x) /\ Lower(x))
  <2>1. ASSUME NEW x, InSeq(next, x), x # i PROVE InSeq(stack, x) /\ Lower(x)
    <3>1. PICK k \in 1..l : next[k] = x
      BY <1>4, <2>1 DEF InSeq
    <3>2. k \in 1..(l - 1) /\ stack[k] = x
      BY <1>4, <1>5, <2>1, <3>1
    <3>3. k \in 1..Len(stack)
      BY <1>3, <3>2
    <3>4. Document!Level(doc[x]) = k
      BY <3>2, <3>3 DEF Levels
    <3>5. Document!Level(doc[x]) < l
      BY <1>1, <3>2, <3>4
    <3> QED BY <3>2, <3>3, <3>5 DEF InSeq, Lower
  <2>2. ASSUME NEW x, InSeq(stack, x), Lower(x) PROVE InSeq(next, x)
    <3>1. PICK k \in 1..Len(stack) : stack[k] = x
      BY <2>2 DEF InSeq
    <3>2. Document!Level(doc[x]) = k
      BY <3>1 DEF Levels
    <3>3. k \in 1..(l - 1) /\ k \in 1..Len(next)
      BY <1>1, <1>3, <1>4, <2>2, <3>2 DEF Lower
    <3> QED BY <1>4, <3>1, <3>3 DEF InSeq
  <2>3. InSeq(next, i)
    <3>1. l \in 1..Len(next)
      BY <1>1, <1>4
    <3> QED BY <1>4, <3>1 DEF InSeq
  <2> QED BY <2>1, <2>2, <2>3
<1>10. \A x : x \in Document!OpenHeadings(doc, i + 1) <=>
               \/ x = i
               \/ x \in Document!OpenHeadings(doc, i) /\ Lower(x)
  <2>1. Opens(doc, i)
    BY <1>1, HeadingOpens
  <2> QED BY <2>1, Zenon DEF Opens, Lower, l
<1>11. \A x : x \in Document!OpenHeadings(doc, i + 1) <=> InSeq(next, x)
  <2> SUFFICES ASSUME NEW x PROVE x \in Document!OpenHeadings(doc, i + 1) <=> InSeq(next, x)
    OBVIOUS
  <2>1. x \in Document!OpenHeadings(doc, i) <=> InSeq(stack, x)
    BY DEF Above
  <2>2. InSeq(next, x) <=> x = i \/ (InSeq(stack, x) /\ Lower(x))
    BY <1>9
  <2>3. x \in Document!OpenHeadings(doc, i + 1) <=>
               x = i \/ (x \in Document!OpenHeadings(doc, i) /\ Lower(x))
    BY <1>10, Zenon
  <2> QED BY <2>1, <2>2, <2>3, Zenon
<1> QED BY <1>6, <1>8, <1>11 DEF Above

-----------------------------------------------------------------------------
(* The sections stand under the headings of their paths. *)

\* A section with the headings over its first word.
IsUnder(doc, section) == Above(doc, section.path, section.words[1])
AllUnder(doc, sections) == \A k \in 1..Len(sections) : IsUnder(doc, sections[k])

LEMMA FlushUnder ==
    ASSUME NEW doc, NEW P, NEW sections \in Seq(Section(P)), NEW fragment \in Seq(P), NEW stack \in Seq(P),
           NEW flushed, FlushedIs(sections, fragment, stack, flushed), AllUnder(doc, sections),
           fragment # <<>> => Above(doc, stack, fragment[1])
    PROVE  AllUnder(doc, flushed)
<1> DEFINE section == [path |-> stack, words |-> fragment]
           S == Section(P)
<1>1. CASE fragment = <<>>
  BY <1>1 DEF FlushedIs
<1>2. CASE fragment # <<>>
  <2>1. flushed = Append(sections, section)
    BY <1>2 DEF FlushedIs
  <2>2. section \in S /\ section.path = stack /\ section.words = fragment
    BY DEF Section
  <2> HIDE DEF S, section
  <2>3. sections \in Seq(S)
    BY DEF S
  <2>4. /\ Len(sections) \in Nat /\ Len(flushed) = Len(sections) + 1
        /\ flushed[Len(sections) + 1] = section
        /\ \A i \in 1..Len(sections) : flushed[i] = sections[i]
    BY <2>1, <2>2, <2>3
  <2> SUFFICES ASSUME NEW k \in 1..Len(flushed) PROVE IsUnder(doc, flushed[k])
    BY DEF AllUnder
  <2>5. CASE k = Len(sections) + 1
    <3>1. IsUnder(doc, section)
      BY <1>2, <2>2 DEF IsUnder
    <3> QED BY <2>4, <2>5, <3>1
  <2>6. CASE k # Len(sections) + 1
    <3>1. k \in 1..Len(sections) /\ flushed[k] = sections[k]
      BY <2>4, <2>6
    <3> QED BY <3>1 DEF AllUnder
  <2> QED BY <2>5, <2>6
<1> QED BY <1>1, <1>2

\* What is split of the first m items stands under its headings, and so will the next one.
SplitUnder(doc, s, m) ==
    /\ Above(doc, s.stack, m + 1) /\ Levels(doc, s.stack)
    /\ AllUnder(doc, s.sections)
    /\ s.fragment # <<>> => Above(doc, s.stack, s.fragment[1])

LEMMA UnderStep ==
    ASSUME NEW doc, NEW n \in Nat, Len(doc) = n, Document!NoLevelSkipped(doc), NEW m \in Nat, m < n,
           NEW s \in Split(1..n), Plain(doc, s.fragment), SplitUnder(doc, s, m)
    PROVE  SplitUnder(doc, Document!SplitWith(s, doc, m + 1), m + 1)
<1> DEFINE P == 1..n
           i == m + 1
           t == Document!SplitWith(s, doc, i)
           next == Append(Document!Trimmed(s.stack, Document!Level(doc[i])), i)
           flushed == Document!Flushed(doc, s.sections, s.fragment, s.stack)
<1>0. /\ s.sections \in Seq(Section(P)) /\ s.fragment \in Seq(P) /\ s.stack \in Seq(P)
      /\ i \in 1..n /\ i \in Nat /\ i > 0
  BY DEF Split
<1>1. /\ Above(doc, s.stack, i) /\ Levels(doc, s.stack) /\ AllUnder(doc, s.sections)
      /\ s.fragment # <<>> => Above(doc, s.stack, s.fragment[1])
  BY DEF SplitUnder
<1> HIDE DEF i, t, next, flushed
<1>2. CASE doc[i] \in Document!Headings
  <2>1. t.sections = flushed /\ t.fragment = <<>> /\ t.stack = next
    BY <1>2 DEF Document!SplitWith, t, flushed, next
  <2>2. Above(doc, next, i + 1) /\ Levels(doc, next)
    BY <1>0, <1>1, <1>2, HeadingStep DEF next
  <2>3. AllUnder(doc, flushed)
    <3>1. FlushedIs(s.sections, s.fragment, s.stack, flushed)
      BY <1>0, PlainIsFlushed DEF flushed
    <3> QED BY <1>0, <1>1, <3>1, FlushUnder
  <2> QED BY <2>1, <2>2, <2>3 DEF SplitUnder, t, i
<1>3. CASE doc[i] \notin Document!Headings
  <2>1. t.sections = s.sections /\ t.fragment = Append(s.fragment, i) /\ t.stack = s.stack
    BY <1>3 DEF Document!SplitWith, t
  <2>2. Above(doc, s.stack, i + 1)
    <3>1. \A h : h \in Document!OpenHeadings(doc, i + 1) <=> h \in Document!OpenHeadings(doc, i)
      BY <1>0, <1>3, OpenHeadingsStay
    <3> QED BY <1>1, <3>1, Zenon DEF Above
  <2>3. Above(doc, s.stack, t.fragment[1])
    <3>1. CASE s.fragment = <<>>
      <4>1. t.fragment[1] = i
        BY <2>1, <3>1
      <4> QED BY <1>1, <4>1
    <3>2. CASE s.fragment # <<>>
      <4> DEFINE q == s.fragment
      <4>1. q \in Seq(P) /\ i \in P /\ q # <<>> /\ t.fragment = Append(q, i)
        BY <1>0, <2>1, <3>2
      <4> HIDE DEF q, P
      <4>2. t.fragment[1] = q[1]
        BY <4>1
      <4> QED BY <1>1, <3>2, <4>2 DEF q
    <3> QED BY <3>1, <3>2
  <2> QED BY <1>1, <2>1, <2>2, <2>3 DEF SplitUnder, t, i
<1> QED BY <1>2, <1>3

LEMMA AllAreUnder ==
    ASSUME NEW doc \in Seq(Document!Items), NEW n, n = Len(doc), Document!NoLevelSkipped(doc),
           NEW html \in Seq(1..n), KeptUpTo(html, n), Plain(doc, html),
           NEW w, w = Document!Splitting(doc, html)
    PROVE  SplitUnder(doc, w[n], n)
<1> DEFINE I == {m \in 0..n : SplitUnder(doc, w[m], m) /\ SplitTo(doc, html, w[m], m)}
<1>0. n \in Nat /\ Len(html) = n /\ \A m \in 1..n : html[m] = m
  BY DEF KeptUpTo
<1>1. /\ w[0] = [sections |-> <<>>, fragment |-> <<>>, stack |-> <<>>]
      /\ \A m \in 1..Len(html) : w[m] = Document!SplitWith(w[m - 1], doc, html[m])
      /\ \A m \in 0..Len(html) : w[m] \in Split(1..n)
  BY SplittingIsLoop
<1>3. 0 \in I
  <2>1. w[0].sections = <<>> /\ w[0].fragment = <<>> /\ w[0].stack = <<>>
    BY <1>1
  <2>2. SplitTo(doc, html, w[0], 0)
    BY <2>1 DEF SplitTo, Plain, AllHeadings, PathsAreHeadings, InSections, InSeq
  <2>3. \A x : x \notin Document!OpenHeadings(doc, 0 + 1)
    BY DEF Document!OpenHeadings
  <2>4. \A x : ~InSeq(<<>>, x)
    BY DEF InSeq
  <2>5. Above(doc, <<>>, 0 + 1)
    BY <2>3, <2>4 DEF Above
  <2>6. SplitUnder(doc, w[0], 0)
    BY <2>1, <2>5 DEF SplitUnder, Levels, AllUnder
  <2> QED BY <1>0, <2>2, <2>6
<1>4. \A m \in 0..n : m \in I /\ m < n => m + 1 \in I
  <2> SUFFICES ASSUME NEW m \in 0..n, m \in I, m < n PROVE m + 1 \in I
    OBVIOUS
  <2>1. /\ m + 1 \in 1..n /\ (m + 1) - 1 = m /\ m \in Nat /\ m + 1 \in 0..n /\ m < Len(html)
        /\ html[m + 1] = m + 1
    BY <1>0
  <2>2. w[m + 1] = Document!SplitWith(w[m], doc, html[m + 1]) /\ w[m] \in Split(1..n)
    BY <1>0, <1>1, <2>1
  <2>3. SplitTo(doc, html, w[m + 1], m + 1)
    BY <2>1, <2>2, SplitStep
  <2>4. Plain(doc, w[m].fragment)
    BY DEF SplitTo
  <2>5. SplitUnder(doc, w[m + 1], m + 1)
    BY <1>0, <2>1, <2>2, <2>4, UnderStep
  <2> QED BY <2>1, <2>3, <2>5
<1>5. n \in I
  <2> HIDE DEF I
  <2>1. \A m \in 0..n : m \in I
    BY <1>0, <1>3, <1>4, Induction
  <2> QED BY <1>0, <2>1
<1> QED BY <1>5

\* While no level is skipped, the stack has the open headings, one for each level.
LEMMA PathsAreAbove ==
    ASSUME NEW doc \in Seq(Document!Items)
    PROVE  Document!PathsAreAncestors(doc)
<1> DEFINE n == Len(doc)
           html == Document!CleanHtml(doc)
           all == Document!Sections(doc)
<1> SUFFICES ASSUME Document!NoLevelSkipped(doc), Document!Untagged(doc), "word" \in Document!ToSet(doc)
             PROVE  \A k \in 1..Len(all) :
                        /\ Document!ToSet(all[k].path) = Document!OpenHeadings(doc, all[k].words[1])
                        /\ \A i, j \in 1..Len(all[k].path) : i < j => all[k].path[i] < all[k].path[j]
  BY DEF Document!PathsAreAncestors
<1>1. html \in Seq(1..n) /\ n \in Nat
  BY HtmlIsClean
<1>2. KeptUpTo(html, n)
  BY UntaggedIsKept
<1>a. Document!Sections(doc) = Document!SplitSections(doc, html)
  BY DEF Document!Sections
<1> HIDE DEF html
<1>3. Len(html) = n /\ \A k \in 1..n : html[k] = k
  BY <1>2 DEF KeptUpTo
<1>4. Plain(doc, html)
  BY <1>3, UntaggedItems DEF Plain
<1> DEFINE last == Document!Splitting(doc, html)[n]
           sections == Document!Flushed(doc, last.sections, last.fragment, last.stack)
           whole == Document!Flushed(doc, <<>>, html, <<>>)
<1>5. last \in Split(1..n) /\ SplitTo(doc, html, last, n)
  <2> SUFFICES ASSUME NEW w, w = Document!Splitting(doc, html)
               PROVE  w[n] \in Split(1..n) /\ SplitTo(doc, html, w[n], n)
    OBVIOUS
  <2> QED BY <1>1, <1>3, <1>4, SplitEnds
<1>6. SplitUnder(doc, last, n)
  <2> SUFFICES ASSUME NEW w, w = Document!Splitting(doc, html) PROVE SplitUnder(doc, w[n], n)
    OBVIOUS
  <2> QED BY <1>1, <1>2, <1>4, AllAreUnder
<1>7. Document!SplitSections(doc, html) = IF sections = <<>> THEN whole ELSE sections
  BY <1>3 DEF Document!SplitSections
<1> HIDE DEF last
<1>8. last.sections \in Seq(Section(1..n)) /\ last.fragment \in Seq(1..n) /\ last.stack \in Seq(1..n)
  BY <1>5 DEF Split
<1>9. FlushedIs(last.sections, last.fragment, last.stack, sections)
  BY <1>5, <1>8, PlainIsFlushed DEF SplitTo
<1>s. sections \in Seq(Section(1..n))
  BY <1>8, FlushedSections
<1> HIDE DEF sections, whole
<1>10. FlushedHas(doc, last.sections, last.fragment, sections)
  BY <1>5, <1>8, <1>9, FlushStep DEF SplitTo
<1>11. AllUnder(doc, sections)
  BY <1>6, <1>8, <1>9, FlushUnder DEF SplitUnder
<1>12. sections # <<>>
  <2>1. PICK x \in 1..n : doc[x] = "word"
    <3>1. DOMAIN doc = 1..n
      OBVIOUS
    <3> QED BY <3>1, Zenon DEF Document!ToSet
  <2>2. html[x] = x /\ doc[x] \notin Document!Headings
    BY <1>3, <2>1 DEF Document!Headings
  <2>3. InSections(last.sections, x) \/ InSeq(last.fragment, x)
    BY <1>5, <2>2 DEF SplitTo
  <2>4. InSections(sections, x)
    BY <1>10, <2>3 DEF FlushedHas
  <2> QED BY <2>4 DEF InSections
<1>13. all = sections
  BY <1>a, <1>7, <1>12
<1> HIDE DEF all
<1>14. ASSUME NEW k \in 1..Len(all)
       PROVE  /\ Document!ToSet(all[k].path) = Document!OpenHeadings(doc, all[k].words[1])
              /\ \A i, j \in 1..Len(all[k].path) : i < j => all[k].path[i] < all[k].path[j]
  <2> DEFINE path == all[k].path
             first == all[k].words[1]
             S == Section(1..n)
  <2>1. Above(doc, path, first)
    BY <1>11, <1>13 DEF AllUnder, IsUnder
  <2>2. path \in Seq(1..n)
    <3>1. all \in Seq(S)
      BY <1>s, <1>13
    <3> HIDE DEF S
    <3>2. all[k] \in S
      BY <3>1
    <3> QED BY <3>2 DEF S, Section
  <2> HIDE DEF path, first
  <2>3. DOMAIN path = 1..Len(path)
    BY <2>2
  <2>4. \A x : x \in Document!ToSet(path) <=> InSeq(path, x)
    BY <2>3, Zenon DEF Document!ToSet, InSeq
  <2>5. Document!ToSet(path) = Document!OpenHeadings(doc, first)
    BY <2>1, <2>4 DEF Above
  <2>6. \A i, j \in 1..Len(path) : i < j => path[i] < path[j]
    BY <2>1 DEF Above
  <2> QED BY <2>5, <2>6 DEF path, first
<1> QED BY <1>14

-----------------------------------------------------------------------------
(* The relationships of a prompt. *)

LEMMA ToldIsLoop ==
    ASSUME NEW D, NEW declared \in Seq(D), NEW inferred,
           NEW w, w = Prompt!Unrepeated(declared, inferred)
    PROVE  /\ w[0] = [list |-> <<>>, seen |-> {}]
           /\ \A m \in 1..Len(declared) : w[m] = Prompt!Told(w[m - 1], declared[m], inferred)
           /\ \A m \in 0..Len(declared) : w[m] \in [list: Seq(D), seen: SUBSET D]
<1> DEFINE n == Len(declared)
           S == [list: Seq(D), seen: SUBSET D]
           a == [list |-> <<>>, seen |-> {}]
           Round(m, s) == Prompt!Told(s, declared[m], inferred)
           Body(f) == [m \in 0..n |-> IF m = 0 THEN a ELSE Round(m, f[m - 1])]
           step == [m \in 1..n |-> [s \in S |-> Round(m, s)]]
<1>1. w = CHOOSE f : f = Body(f)
  BY DEF Prompt!Unrepeated
<1>2. n \in Nat /\ a \in S
  OBVIOUS
<1>3. ASSUME NEW m \in 1..n, NEW s \in S PROVE Round(m, s) \in S
  BY DEF Prompt!Told, Prompt!SeenWith
<1>4. step \in Loops(n, S)
  <2> HIDE DEF n, S, Round
  <2> QED BY <1>3 DEF Loops
<1>5. PICK g : IsLoop(g, n, S, a, step)
  <2> HIDE DEF n, S, a, step
  <2> QED BY <1>2, <1>4, LoopExists
<1>6. g = Body(g)
  <2> HIDE DEF n, S, a, Round
  <2>1. g \in [0..n -> S] /\ g[0] = a /\ \A m \in 1..n : g[m] = step[m][g[m - 1]]
    BY <1>5 DEF IsLoop
  <2>2. \A m \in 1..n : g[m - 1] \in S
    BY <2>1, <1>2
  <2>3. \A m \in 1..n : g[m] = Round(m, g[m - 1])
    BY <2>1, <2>2
  <2> QED BY <2>1, <2>3, <1>2
<1>7. w = Body(w)
  <2> HIDE DEF Body
  <2> QED BY <1>1, <1>6
<1>8. w[0] = a /\ \A m \in 1..n : w[m] = Round(m, w[m - 1])
  <2> HIDE DEF a, n, Round
  <2> QED BY <1>2, <1>7
<1>9. \A m \in 0..n : w[m] \in S
  <2> HIDE DEF n, S, a, Round
  <2> QED BY <1>2, <1>3, <1>8, LoopIn
<1> QED BY <1>8, <1>9

\* What the loop keeps: the joins it told, once each.
ToldOnce(s) ==
    /\ s.seen = {s.list[i] : i \in 1..Len(s.list)}
    /\ \A i, j \in 1..Len(s.list) : s.list[i] = s.list[j] => i = j

LEMMA ToldStep ==
    ASSUME NEW D, NEW s \in [list: Seq(D), seen: SUBSET D], NEW join \in D, NEW inferred,
           ToldOnce(s)
    PROVE  LET t == Prompt!Told(s, join, inferred) IN
           /\ ToldOnce(t)
           /\ s.seen \subseteq t.seen
           /\ {join, Prompt!Reverse(join)} \cap (t.seen \cup Prompt!ToSet(inferred)) # {}
<1> DEFINE t == Prompt!Told(s, join, inferred)
<1>1. CASE join \in Prompt!ToSet(inferred) \cup s.seen
             \/ Prompt!Reverse(join) \in Prompt!ToSet(inferred)
  <2>1. t = s
    BY <1>1 DEF Prompt!Told
  <2> QED BY <1>1, <2>1
<1>2. CASE ~(join \in Prompt!ToSet(inferred) \cup s.seen
               \/ Prompt!Reverse(join) \in Prompt!ToSet(inferred))
  <2>1. t.list = Append(s.list, join) /\ t.seen = s.seen \cup {join}
    BY <1>2 DEF Prompt!Told, Prompt!SeenWith
  <2>2. Len(t.list) = Len(s.list) + 1 /\ t.list[Len(s.list) + 1] = join
    BY <2>1
  <2>3. \A i \in 1..Len(s.list) : t.list[i] = s.list[i] /\ t.list[i] # join
    BY <2>1, <1>2 DEF ToldOnce
  <2> HIDE DEF t
  <2>4. t.seen = {t.list[i] : i \in 1..Len(t.list)}
    <3>1. \A x \in t.seen : \E i \in 1..Len(t.list) : x = t.list[i]
      BY <2>1, <2>2, <2>3 DEF ToldOnce
    <3>2. \A i \in 1..Len(t.list) : t.list[i] \in t.seen
      BY <2>1, <2>2, <2>3 DEF ToldOnce
    <3> QED BY <3>1, <3>2
  <2>5. \A i, j \in 1..Len(t.list) : t.list[i] = t.list[j] => i = j
    BY <2>2, <2>3 DEF ToldOnce
  <2>6. /\ ToldOnce(t) /\ s.seen \subseteq t.seen
        /\ {join, Prompt!Reverse(join)} \cap (t.seen \cup Prompt!ToSet(inferred)) # {}
    BY <2>1, <2>4, <2>5 DEF ToldOnce
  <2> QED BY <2>6 DEF t
<1> QED BY <1>1, <1>2

\* Each round adds what it looks at to what is told, unless it is already.
LEMMA AllAreTold ==
    ASSUME NEW D, NEW declared \in Seq(D), NEW inferred \in Seq(D)
    PROVE  Prompt!JoinsAreTold(declared, inferred)
<1> DEFINE w == Prompt!Unrepeated(declared, inferred)
           S == [list: Seq(D), seen: SUBSET D]
           n == Len(declared)
           Told(j, s) == {declared[j], Prompt!Reverse(declared[j])}
                           \cap (s.seen \cup Prompt!ToSet(inferred)) # {}
           I == {m \in 0..n : ToldOnce(w[m]) /\ \A j \in 1..m : Told(j, w[m])}
<1>1. /\ w[0] = [list |-> <<>>, seen |-> {}]
      /\ \A m \in 1..n : w[m] = Prompt!Told(w[m - 1], declared[m], inferred)
      /\ \A m \in 0..n : w[m] \in S
  <2> HIDE DEF w
  <2> SUFFICES ASSUME NEW v, v = Prompt!Unrepeated(declared, inferred)
               PROVE  /\ v[0] = [list |-> <<>>, seen |-> {}]
                      /\ \A m \in 1..n : v[m] = Prompt!Told(v[m - 1], declared[m], inferred)
                      /\ \A m \in 0..n : v[m] \in S
    BY DEF w
  <2> QED BY ToldIsLoop
<1> HIDE DEF w
<1>2. 0 \in I
  BY <1>1 DEF ToldOnce
<1>3. \A m \in 0..n : m \in I /\ m < n => m + 1 \in I
  <2> SUFFICES ASSUME NEW m \in 0..n, m \in I, m < n PROVE m + 1 \in I
    OBVIOUS
  <2>1. m + 1 \in 1..n /\ (m + 1) - 1 = m /\ declared[m + 1] \in D
    OBVIOUS
  <2>2. w[m] \in S /\ w[m + 1] = Prompt!Told(w[m], declared[m + 1], inferred)
    BY <1>1, <2>1
  <2>3. /\ ToldOnce(w[m + 1]) /\ w[m].seen \subseteq w[m + 1].seen
        /\ Told(m + 1, w[m + 1])
    BY <2>1, <2>2, ToldStep
  <2>4. \A j \in 1..(m + 1) : Told(j, w[m + 1])
    BY <2>3
  <2> QED BY <2>1, <2>3, <2>4
<1>4. n \in I
  <2>1. n \in Nat
    OBVIOUS
  <2> HIDE DEF I, n
  <2>2. \A m \in 0..n : m \in I
    BY <1>2, <1>3, <2>1, Induction
  <2> QED BY <2>1, <2>2
<1>5. w[n].list \in Seq(D) /\ Prompt!UniqueRelationships(declared, inferred) = w[n].list
  BY <1>1 DEF Prompt!UniqueRelationships, w
<1>6. w[n].seen = Prompt!ToSet(w[n].list)
  BY <1>4, <1>5 DEF ToldOnce, Prompt!ToSet
<1> QED BY <1>4, <1>5, <1>6 DEF Prompt!JoinsAreTold, ToldOnce

-----------------------------------------------------------------------------
(* The dictionary of a prompt. *)

LEMMA FirstsIsLoop ==
    ASSUME NEW list \in Seq(Prompt!Entry),
           NEW w, w = Prompt!Firsts(list)
    PROVE  /\ w[0] = <<>>
           /\ \A m \in 1..Len(list) : w[m] = Prompt!Grouped(w[m - 1], <<list[m].table, list[m].column>>)
           /\ \A m \in 0..Len(list) : w[m] \in Seq(Tables \X Columns)
<1> DEFINE n == Len(list)
           S == Seq(Tables \X Columns)
           a == <<>>
           Round(m, s) == Prompt!Grouped(s, <<list[m].table, list[m].column>>)
           Body(f) == [m \in 0..n |-> IF m = 0 THEN a ELSE Round(m, f[m - 1])]
           step == [m \in 1..n |-> [s \in S |-> Round(m, s)]]
<1>1. w = CHOOSE f : f = Body(f)
  BY DEF Prompt!Firsts
<1>2. n \in Nat /\ a \in S
  OBVIOUS
<1>3. ASSUME NEW m \in 1..n, NEW s \in S PROVE Round(m, s) \in S
  <2>1. list[m] \in Prompt!Entry
    OBVIOUS
  <2>2. <<list[m].table, list[m].column>> \in Tables \X Columns
    BY <2>1 DEF Prompt!Entry
  <2> QED BY <2>2 DEF Prompt!Grouped
<1>4. step \in Loops(n, S)
  <2> HIDE DEF n, S, Round
  <2> QED BY <1>3 DEF Loops
<1>5. PICK g : IsLoop(g, n, S, a, step)
  <2> HIDE DEF n, S, a, step
  <2> QED BY <1>2, <1>4, LoopExists
<1>6. g = Body(g)
  <2> HIDE DEF n, S, a, Round
  <2>1. g \in [0..n -> S] /\ g[0] = a /\ \A m \in 1..n : g[m] = step[m][g[m - 1]]
    BY <1>5 DEF IsLoop
  <2>2. \A m \in 1..n : g[m - 1] \in S
    BY <2>1, <1>2
  <2>3. \A m \in 1..n : g[m] = Round(m, g[m - 1])
    BY <2>1, <2>2
  <2> QED BY <2>1, <2>3, <1>2
<1>7. w = Body(w)
  <2> HIDE DEF Body
  <2> QED BY <1>1, <1>6
<1>8. w[0] = a /\ \A m \in 1..n : w[m] = Round(m, w[m - 1])
  <2> HIDE DEF a, n, Round
  <2> QED BY <1>2, <1>7
<1>9. \A m \in 0..n : w[m] \in S
  <2> HIDE DEF n, S, a, Round
  <2> QED BY <1>2, <1>3, <1>8, LoopIn
<1> QED BY <1>8, <1>9

\* Dictionaries and lines, over sets of names and mappings.
Dictionary(T, C, M) == [table: T, column: C, mapping: M]
Lines(T, C, M) == [tables: Seq(T), column: C, mapping: M]

\* The mapping of a dictionary is in a line for its column.
InLine(d, list) ==
    \E n \in 1..Len(list) : list[n].column = d.column /\ list[n].mapping = d.mapping
IsKept(d, s) == InLine(d, s.lines) \/ InLine(d, s.merged)

LEMMA Appended ==
    ASSUME NEW L, NEW list \in Seq(L), NEW line \in L, NEW d
    PROVE  /\ InLine(d, list) => InLine(d, Append(list, line))
           /\ line.column = d.column /\ line.mapping = d.mapping => InLine(d, Append(list, line))
<1> DEFINE longer == Append(list, line)
<1>1. /\ Len(longer) = Len(list) + 1 /\ longer[Len(list) + 1] = line
      /\ \A n \in 1..Len(list) : longer[n] = list[n]
  OBVIOUS
<1> HIDE DEF longer
<1>2. InLine(d, list) => InLine(d, longer)
  BY <1>1 DEF InLine
<1>3. line.column = d.column /\ line.mapping = d.mapping => InLine(d, longer)
  BY <1>1 DEF InLine
<1> QED BY <1>2, <1>3 DEF longer

LEMMA AlsoOfLine ==
    ASSUME NEW T, NEW C, NEW M, NEW line \in Lines(T, C, M), NEW t \in T
    PROVE  LET also == Prompt!AlsoOf(line, t) IN
           also \in Lines(T, C, M) /\ also.column = line.column /\ also.mapping = line.mapping
BY DEF Prompt!AlsoOf, Lines

LEMMA MergedStep ==
    ASSUME NEW T, NEW C, NEW M, NEW d \in Dictionary(T, C, M),
           NEW s \in [lines: Seq(Lines(T, C, M)), merged: Seq(Lines(T, C, M))]
    PROVE  /\ Prompt!MergedWith(s, d) \in [lines: Seq(Lines(T, C, M)), merged: Seq(Lines(T, C, M))]
           /\ IsKept(d, Prompt!MergedWith(s, d))
           /\ \A e : IsKept(e, s) => IsKept(e, Prompt!MergedWith(s, d))
<1> DEFINE L == Lines(T, C, M)
           own == Prompt!Named(s.merged, d.column)
           i == CHOOSE i \in own : TRUE
           t == Prompt!MergedWith(s, d)
           line == Prompt!Line(d)
<1>1. s.lines \in Seq(L) /\ s.merged \in Seq(L) /\ line \in L
      /\ line.column = d.column /\ line.mapping = d.mapping
  <2>1. line = [tables |-> <<d.table>>, column |-> d.column, mapping |-> d.mapping]
    BY DEF Prompt!Line
  <2>2. d.table \in T /\ d.column \in C /\ d.mapping \in M
    BY DEF Dictionary
  <2>3. line \in L
    BY <2>1, <2>2 DEF Lines
  <2> QED BY <2>1, <2>3
<1>2. CASE own = {}
  <2>1. t = [lines |-> s.lines, merged |-> Append(s.merged, line)]
    BY <1>2 DEF Prompt!MergedWith
  <2> HIDE DEF L, t, line
  <2>2. Append(s.merged, line) \in Seq(L)
    BY <1>1
  <2>3. t \in [lines: Seq(L), merged: Seq(L)]
    BY <1>1, <2>1, <2>2
  <2>4. IsKept(d, t) /\ \A e : IsKept(e, s) => IsKept(e, t)
    BY <1>1, <2>1, Appended DEF IsKept
  <2> QED BY <2>3, <2>4 DEF t, L
<1>3. CASE own # {} /\ s.merged[i].mapping = d.mapping
  <2> DEFINE also == Prompt!AlsoOf(s.merged[i], d.table)
             merged == [s.merged EXCEPT ![i] = also]
  <2>1. t = [lines |-> s.lines, merged |-> merged]
    BY <1>3 DEF Prompt!MergedWith
  <2>2. i \in 1..Len(s.merged) /\ s.merged[i].column = d.column
    BY <1>3 DEF Prompt!Named
  <2>3. s.merged[i] \in L /\ d.table \in T
    <3> HIDE DEF i, L
    <3> QED BY <1>1, <2>2 DEF Dictionary
  <2>4. also \in L /\ also.column = s.merged[i].column /\ also.mapping = s.merged[i].mapping
    <3> HIDE DEF i, L
    <3> QED BY <2>3, AlsoOfLine DEF L
  <2>5. merged \in Seq(L) /\ Len(merged) = Len(s.merged) /\ merged[i] = also
        /\ \A k \in 1..Len(merged) : k # i => merged[k] = s.merged[k]
    <3> HIDE DEF i, L, also
    <3> QED BY <1>1, <2>2, <2>4
  <2> HIDE DEF i, L, t, also, merged
  <2>6. t \in [lines: Seq(L), merged: Seq(L)]
    BY <1>1, <2>1, <2>5
  <2>7. IsKept(d, t)
    BY <1>3, <2>1, <2>2, <2>4, <2>5 DEF IsKept, InLine
  <2>8. ASSUME NEW e, IsKept(e, s) PROVE IsKept(e, t)
    <3>1. InLine(e, s.merged) => InLine(e, merged)
      BY <2>2, <2>4, <2>5 DEF InLine
    <3> QED BY <2>1, <2>8, <3>1 DEF IsKept
  <2> QED BY <2>6, <2>7, <2>8 DEF t, L
<1>4. CASE own # {} /\ s.merged[i].mapping # d.mapping
  <2>1. t = [lines |-> Append(s.lines, line), merged |-> s.merged]
    BY <1>4 DEF Prompt!MergedWith, Prompt!Disambiguated
  <2> HIDE DEF L, t, line
  <2>2. Append(s.lines, line) \in Seq(L)
    BY <1>1
  <2>3. t \in [lines: Seq(L), merged: Seq(L)]
    BY <1>1, <2>1, <2>2
  <2>4. IsKept(d, t) /\ \A e : IsKept(e, s) => IsKept(e, t)
    BY <1>1, <2>1, Appended DEF IsKept
  <2> QED BY <2>3, <2>4 DEF t, L
<1> QED BY <1>2, <1>3, <1>4

LEMMA MergedIsLoop ==
    ASSUME NEW T, NEW C, NEW M,
           NEW dictionaries \in Seq(Dictionary(T, C, M)),
           NEW w, w = Prompt!Merged(dictionaries)
    PROVE  /\ w[0] = [lines |-> <<>>, merged |-> <<>>]
           /\ \A m \in 1..Len(dictionaries) : w[m] = Prompt!MergedWith(w[m - 1], dictionaries[m])
           /\ \A m \in 0..Len(dictionaries) : w[m] \in [lines: Seq(Lines(T, C, M)), merged: Seq(Lines(T, C, M))]
<1> DEFINE n == Len(dictionaries)
           S == [lines: Seq(Lines(T, C, M)), merged: Seq(Lines(T, C, M))]
           a == [lines |-> <<>>, merged |-> <<>>]
           Round(m, s) == Prompt!MergedWith(s, dictionaries[m])
           Body(f) == [m \in 0..n |-> IF m = 0 THEN a ELSE Round(m, f[m - 1])]
           step == [m \in 1..n |-> [s \in S |-> Round(m, s)]]
<1>1. w = CHOOSE f : f = Body(f)
  BY DEF Prompt!Merged
<1>2. n \in Nat /\ a \in S
  OBVIOUS
<1>3. ASSUME NEW m \in 1..n, NEW s \in S PROVE Round(m, s) \in S
  BY MergedStep
<1>4. step \in Loops(n, S)
  <2> HIDE DEF n, S, Round
  <2> QED BY <1>3 DEF Loops
<1>5. PICK g : IsLoop(g, n, S, a, step)
  <2> HIDE DEF n, S, a, step
  <2> QED BY <1>2, <1>4, LoopExists
<1>6. g = Body(g)
  <2> HIDE DEF n, S, a, Round
  <2>1. g \in [0..n -> S] /\ g[0] = a /\ \A m \in 1..n : g[m] = step[m][g[m - 1]]
    BY <1>5 DEF IsLoop
  <2>2. \A m \in 1..n : g[m - 1] \in S
    BY <2>1, <1>2
  <2>3. \A m \in 1..n : g[m] = Round(m, g[m - 1])
    BY <2>1, <2>2
  <2> QED BY <2>1, <2>3, <1>2
<1>7. w = Body(w)
  <2> HIDE DEF Body
  <2> QED BY <1>1, <1>6
<1>8. w[0] = a /\ \A m \in 1..n : w[m] = Round(m, w[m - 1])
  <2> HIDE DEF a, n, Round
  <2> QED BY <1>2, <1>7
<1>9. \A m \in 0..n : w[m] \in S
  <2> HIDE DEF n, S, a, Round
  <2> QED BY <1>2, <1>3, <1>8, LoopIn
<1> QED BY <1>8, <1>9

\* Each entry has its column among the first ones.
LEMMA ColumnsAreGrouped ==
    ASSUME NEW list \in Seq(Prompt!Entry)
    PROVE  LET ids == Prompt!Firsts(list)[Len(list)] IN
           /\ ids \in Seq(Tables \X Columns)
           /\ \A j \in 1..Len(list) : \E k \in 1..Len(ids) :
                  ids[k] = <<list[j].table, list[j].column>>
<1> DEFINE n == Len(list)
           id(j) == <<list[j].table, list[j].column>>
           Has(ids, j) == \E k \in 1..Len(ids) : ids[k] = id(j)
<1> SUFFICES ASSUME NEW w, w = Prompt!Firsts(list)
             PROVE  w[n] \in Seq(Tables \X Columns) /\ \A j \in 1..n : Has(w[n], j)
  OBVIOUS
<1>1. /\ w[0] = <<>>
      /\ \A m \in 1..n : w[m] = Prompt!Grouped(w[m - 1], id(m))
      /\ \A m \in 0..n : w[m] \in Seq(Tables \X Columns)
  BY FirstsIsLoop
<1>4. n \in Nat
  OBVIOUS
<1> DEFINE I == {m \in 0..n : \A j \in 1..m : Has(w[m], j)}
<1>2. 0 \in I
  OBVIOUS
<1>3. \A m \in 0..n : m \in I /\ m < n => m + 1 \in I
  <2> SUFFICES ASSUME NEW m \in 0..n, m < n, \A j \in 1..m : Has(w[m], j)
               PROVE  \A j \in 1..(m + 1) : Has(w[m + 1], j)
    <3> HIDE DEF Has, n
    <3> QED BY <1>4
  <2>1. m + 1 \in 1..n /\ (m + 1) - 1 = m
    OBVIOUS
  <2>2. w[m] \in Seq(Tables \X Columns) /\ w[m + 1] = Prompt!Grouped(w[m], id(m + 1))
    BY <1>1, <2>1
  <2> HIDE DEF id
  <2>3. CASE id(m + 1) \in Prompt!ToSet(w[m])
    <3>1. w[m + 1] = w[m]
      BY <2>2, <2>3 DEF Prompt!Grouped
    <3>2. DOMAIN w[m] = 1..Len(w[m])
      BY <2>2
    <3>3. \E k \in DOMAIN w[m] : w[m][k] = id(m + 1)
      BY <2>3, Zenon DEF Prompt!ToSet
    <3>4. Has(w[m + 1], m + 1)
      BY <3>1, <3>2, <3>3, Zenon
    <3>5. \A j \in 1..m : Has(w[m + 1], j)
      BY <3>1, Zenon
    <3>6. \A j \in 1..(m + 1) : j \in 1..m \/ j = m + 1
      OBVIOUS
    <3> QED BY <3>4, <3>5, <3>6, Zenon
  <2>4. CASE id(m + 1) \notin Prompt!ToSet(w[m])
    <3>1. w[m + 1] = Append(w[m], id(m + 1))
      BY <2>2, <2>4 DEF Prompt!Grouped
    <3>2. /\ Len(w[m + 1]) = Len(w[m]) + 1 /\ w[m + 1][Len(w[m]) + 1] = id(m + 1)
          /\ \A k \in 1..Len(w[m]) : w[m + 1][k] = w[m][k] /\ k \in 1..Len(w[m + 1])
          /\ Len(w[m]) + 1 \in 1..Len(w[m + 1])
      BY <2>2, <3>1
    <3>3. ASSUME NEW j \in 1..m PROVE Has(w[m + 1], j)
      <4>1. PICK k \in 1..Len(w[m]) : w[m][k] = id(j)
        OBVIOUS
      <4> QED BY <3>2, <4>1
    <3>4. Has(w[m + 1], m + 1)
      BY <3>2
    <3> QED BY <3>3, <3>4
  <2> QED BY <2>3, <2>4
<1>5. \A m \in 0..n : m \in I
  <2> HIDE DEF I, n
  <2> QED BY <1>2, <1>3, <1>4, Induction
<1> HIDE DEF Has
<1> QED BY <1>1, <1>4, <1>5

LEMMA AllAreMerged ==
    ASSUME NEW T, NEW C, NEW M, NEW dictionaries \in Seq(Dictionary(T, C, M)),
           NEW k \in 1..Len(dictionaries)
    PROVE  InLine(dictionaries[k], Prompt!DictionaryLines(dictionaries))
<1> DEFINE n == Len(dictionaries)
           S == [lines: Seq(Lines(T, C, M)), merged: Seq(Lines(T, C, M))]
<1> SUFFICES ASSUME NEW w, w = Prompt!Merged(dictionaries)
             PROVE  InLine(dictionaries[k], w[n].lines \o w[n].merged)
  BY DEF Prompt!DictionaryLines
<1>1. /\ w[0] = [lines |-> <<>>, merged |-> <<>>]
      /\ \A m \in 1..n : w[m] = Prompt!MergedWith(w[m - 1], dictionaries[m])
      /\ \A m \in 0..n : w[m] \in S
  BY MergedIsLoop
<1> DEFINE I == {m \in 0..n : k <= m => IsKept(dictionaries[k], w[m])}
<1>2. 0 \in I
  OBVIOUS
<1>3. \A m \in 0..n : m \in I /\ m < n => m + 1 \in I
  <2> SUFFICES ASSUME NEW m \in 0..n, m \in I, m < n, k <= m + 1
               PROVE  IsKept(dictionaries[k], w[m + 1])
    OBVIOUS
  <2>1. m + 1 \in 1..n /\ (m + 1) - 1 = m /\ dictionaries[m + 1] \in Dictionary(T, C, M)
    OBVIOUS
  <2>2. w[m] \in S /\ w[m + 1] = Prompt!MergedWith(w[m], dictionaries[m + 1])
    BY <1>1, <2>1
  <2>3. CASE k <= m
    BY <2>1, <2>2, <2>3, MergedStep
  <2>4. CASE k = m + 1
    BY <2>1, <2>2, <2>4, MergedStep
  <2> QED BY <2>3, <2>4
<1>4. n \in Nat /\ k <= n
  OBVIOUS
<1>5. \A m \in 0..n : m \in I
  <2> HIDE DEF I, n
  <2> QED BY <1>2, <1>3, <1>4, Induction
<1>6. IsKept(dictionaries[k], w[n])
  BY <1>4, <1>5
<1> DEFINE a == w[n].lines
           b == w[n].merged
<1>7. a \in Seq(Lines(T, C, M)) /\ b \in Seq(Lines(T, C, M))
  BY <1>1, <1>4
<1>8. /\ Len(a \o b) = Len(a) + Len(b)
      /\ \A i \in 1..Len(a) : (a \o b)[i] = a[i] /\ i \in 1..Len(a \o b)
      /\ \A i \in 1..Len(b) : (a \o b)[Len(a) + i] = b[i] /\ Len(a) + i \in 1..Len(a \o b)
  <2> HIDE DEF a, b
  <2> QED BY <1>7
<1> HIDE DEF a, b
<1>9. InLine(dictionaries[k], a) => InLine(dictionaries[k], a \o b)
  BY <1>8 DEF InLine
<1>10. ASSUME InLine(dictionaries[k], b) PROVE InLine(dictionaries[k], a \o b)
  <2>1. PICK i \in 1..Len(b) : b[i].column = dictionaries[k].column
                                /\ b[i].mapping = dictionaries[k].mapping
    BY <1>10 DEF InLine
  <2>2. Len(a) + i \in 1..Len(a \o b) /\ (a \o b)[Len(a) + i] = b[i]
    BY <1>8
  <2> QED BY <2>1, <2>2 DEF InLine
<1> QED BY <1>6, <1>9, <1>10 DEF IsKept, a, b

\* Each column has a dictionary, and each round of the merge keeps one in a line.
LEMMA AllIsMapped ==
    ASSUME NEW list \in Seq(Prompt!Entry)
    PROVE  Prompt!MappingsAreKept(list)
<1> DEFINE ids == Prompt!Firsts(list)[Len(list)]
           mapping(t, c) == Prompt!MappingOf(list, t, c)
           M == {mapping(x[1], x[2]) : x \in Tables \X Columns}
           dictionaries == [i \in 1..Len(ids) |->
                               [table |-> Unnamed, column |-> ids[i][2],
                                mapping |-> mapping(ids[i][1], ids[i][2])]]
<1>1. dictionaries = Prompt!ResolveDictionary(list)
  BY DEF Prompt!ResolveDictionary
<1>2. /\ ids \in Seq(Tables \X Columns)
      /\ \A j \in 1..Len(list) : \E k \in 1..Len(ids) :
             ids[k] = <<list[j].table, list[j].column>>
  BY ColumnsAreGrouped
<1>3. dictionaries \in Seq(Dictionary({Unnamed}, Columns, M))
  <2> HIDE DEF ids
  <2>1. ASSUME NEW i \in 1..Len(ids)
        PROVE  dictionaries[i] \in Dictionary({Unnamed}, Columns, M)
    <3>1. ids[i] \in Tables \X Columns
      BY <1>2
    <3>2. mapping(ids[i][1], ids[i][2]) \in M
      BY <3>1
    <3> HIDE DEF M, mapping
    <3> QED BY <3>1, <3>2 DEF Dictionary
  <2>2. Len(ids) \in Nat
    BY <1>2
  <2> DEFINE D == Dictionary({Unnamed}, Columns, M)
  <2> SUFFICES dictionaries \in Seq(D)
    OBVIOUS
  <2> HIDE DEF D
  <2>3. dictionaries \in [1..Len(ids) -> D]
    BY <2>1 DEF D
  <2> HIDE DEF dictionaries
  <2> QED BY <2>2, <2>3
<1> SUFFICES ASSUME NEW j \in 1..Len(list)
             PROVE  InLine([column |-> list[j].column,
                            mapping |-> mapping(list[j].table, list[j].column)],
                           Prompt!DictionaryLines(dictionaries))
  BY <1>1 DEF Prompt!MappingsAreKept, InLine
<1>4. PICK k \in 1..Len(ids) : ids[k] = <<list[j].table, list[j].column>>
  BY <1>2
<1>5. /\ k \in 1..Len(dictionaries) /\ dictionaries[k].column = list[j].column
      /\ dictionaries[k].mapping = mapping(list[j].table, list[j].column)
  <2> HIDE DEF ids, mapping
  <2> QED BY <1>2, <1>4
<1> HIDE DEF dictionaries, mapping, M
<1>6. InLine(dictionaries[k], Prompt!DictionaryLines(dictionaries))
  BY <1>3, <1>5, AllAreMerged
<1> QED BY <1>5, <1>6 DEF InLine

-----------------------------------------------------------------------------
(* The walk through a reply. *)

\* Outside of a string, in one, and after an escape in one, with d brackets open.
Walk == [depth: Int, inString: BOOLEAN, escaped: BOOLEAN, end: Nat]
Out(d) == [depth |-> d, inString |-> FALSE, escaped |-> FALSE, end |-> 0]
In(d) == [depth |-> d, inString |-> TRUE, escaped |-> FALSE, end |-> 0]
Escaped(d) == [depth |-> d, inString |-> TRUE, escaped |-> TRUE, end |-> 0]

LEMMA WalkTyped ==
    ASSUME NEW s \in Walk, NEW t, NEW first, NEW i \in Nat
    PROVE  Reply!Walked(s, t, first, i) \in Walk
<1> DEFINE r == Reply!Walked(s, t, first, i)
<1>1. CASE i < first \/ s.end > 0
  BY <1>1 DEF Reply!Walked
<1>2. CASE ~(i < first \/ s.end > 0) /\ s.escaped
  <2>1. r = [s EXCEPT !.escaped = FALSE]
    BY <1>2 DEF Reply!Walked
  <2> QED BY <2>1 DEF Walk
<1>3. CASE ~(i < first \/ s.end > 0) /\ ~s.escaped /\ Reply!Escapes(s, t[i])
  <2>1. r = [s EXCEPT !.escaped = TRUE]
    BY <1>3 DEF Reply!Walked
  <2> QED BY <2>1 DEF Walk
<1>4. CASE ~(i < first \/ s.end > 0) /\ ~s.escaped /\ ~Reply!Escapes(s, t[i])
  <2>1. CASE t[i] = "quote"
    <3>1. r = [s EXCEPT !.inString = ~s.inString]
      BY <1>4, <2>1 DEF Reply!Walked
    <3> QED BY <3>1 DEF Walk
  <2>2. CASE t[i] # "quote" /\ s.inString
    BY <1>4, <2>2 DEF Reply!Walked
  <2>3. CASE t[i] # "quote" /\ ~s.inString /\ t[i] = t[first]
    <3>1. r = [s EXCEPT !.depth = s.depth + 1]
      BY <1>4, <2>3 DEF Reply!Walked
    <3> QED BY <3>1 DEF Walk
  <2>4. CASE t[i] # "quote" /\ ~s.inString /\ t[i] # t[first] /\ t[i] = Reply!Closing(t[first])
    <3>1. r = [s EXCEPT !.depth = s.depth - 1, !.end = IF s.depth = 1 THEN i ELSE 0]
      BY <1>4, <2>4 DEF Reply!Walked
    <3> DEFINE e == IF s.depth = 1 THEN i ELSE 0
    <3>2. e \in Nat /\ s.depth - 1 \in Int /\ r = [s EXCEPT !.depth = s.depth - 1, !.end = e]
      BY <3>1 DEF Walk
    <3> DEFINE u == [s EXCEPT !.depth = s.depth - 1]
    <3>3. u \in Walk
      BY DEF Walk
    <3>4. r = [u EXCEPT !.end = e]
      BY <3>2 DEF Walk
    <3> HIDE DEF e, r, u
    <3>5. r \in Walk
      BY <3>2, <3>3, <3>4 DEF Walk
    <3> QED BY <3>5 DEF r
  <2>5. CASE t[i] # "quote" /\ ~s.inString /\ t[i] # t[first] /\ t[i] # Reply!Closing(t[first])
    BY <1>4, <2>5 DEF Reply!Walked
  <2> QED BY <2>1, <2>2, <2>3, <2>4, <2>5
<1> QED BY <1>1, <1>2, <1>3, <1>4

LEMMA ScanIsLoop ==
    ASSUME NEW t \in Seq(Reply!Tokens), NEW first,
           NEW w, w = Reply!Scan(t, first)
    PROVE  /\ w[0] = Out(0)
           /\ \A m \in 1..Len(t) : w[m] = Reply!Walked(w[m - 1], t, first, m)
           /\ \A m \in 0..Len(t) : w[m] \in Walk
<1> DEFINE n == Len(t)
           S == Walk
           a == Out(0)
           Round(m, s) == Reply!Walked(s, t, first, m)
           Body(f) == [m \in 0..n |-> IF m = 0 THEN a ELSE Round(m, f[m - 1])]
           step == [m \in 1..n |-> [s \in S |-> Round(m, s)]]
<1>1. w = CHOOSE f : f = Body(f)
  BY DEF Reply!Scan, Out
<1>2. n \in Nat /\ a \in S
  BY DEF Out, Walk
<1>3. ASSUME NEW m \in 1..n, NEW s \in S PROVE Round(m, s) \in S
  BY WalkTyped
<1>4. step \in Loops(n, S)
  <2> HIDE DEF n, S, Round
  <2> QED BY <1>3 DEF Loops
<1>5. PICK g : IsLoop(g, n, S, a, step)
  <2> HIDE DEF n, S, a, step
  <2> QED BY <1>2, <1>4, LoopExists
<1>6. g = Body(g)
  <2> HIDE DEF n, S, a, Round
  <2>1. g \in [0..n -> S] /\ g[0] = a /\ \A m \in 1..n : g[m] = step[m][g[m - 1]]
    BY <1>5 DEF IsLoop
  <2>2. \A m \in 1..n : g[m - 1] \in S
    BY <2>1, <1>2
  <2>3. \A m \in 1..n : g[m] = Round(m, g[m - 1])
    BY <2>1, <2>2
  <2> QED BY <2>1, <2>3, <1>2
<1>7. w = Body(w)
  <2> HIDE DEF Body
  <2> QED BY <1>1, <1>6
<1>8. w[0] = a /\ \A m \in 1..n : w[m] = Round(m, w[m - 1])
  <2> HIDE DEF a, n, Round
  <2> QED BY <1>2, <1>7
<1>9. \A m \in 0..n : w[m] \in S
  <2> HIDE DEF n, S, a, Round
  <2> QED BY <1>2, <1>3, <1>8, LoopIn
<1> QED BY <1>8, <1>9

\* One step, within the text from its first bracket on.
LEMMA WalkOut ==
    ASSUME NEW t, NEW first, NEW i, NEW d \in Int, ~(i < first), t[first] \in Reply!Opening
    PROVE  LET next == Reply!Walked(Out(d), t, first, i)
               k == t[first]
           IN  /\ t[i] = k => next = Out(d + 1)
               /\ t[i] = Reply!Closing(k) /\ d = 1 => next.end = i
               /\ t[i] = Reply!Closing(k) /\ d # 1 => next = Out(d - 1)
               /\ t[i] = "quote" => next = In(d)
               /\ t[i] \notin {k, Reply!Closing(k), "quote"} => next = Out(d)
<1> DEFINE next == Reply!Walked(Out(d), t, first, i)
           k == t[first]
<1>1. k # Reply!Closing(k) /\ k # "quote" /\ Reply!Closing(k) # "quote"
  BY DEF Reply!Opening, Reply!Closing
<1>2. ~Reply!Escapes(Out(d), t[i])
  BY DEF Reply!Escapes, Out
<1>3. Out(d).end = 0 /\ Out(d).escaped = FALSE /\ Out(d).inString = FALSE /\ Out(d).depth = d
  BY DEF Out
<1>4. t[i] = k => next = Out(d + 1)
  <2> SUFFICES ASSUME t[i] = k PROVE next = Out(d + 1)
    OBVIOUS
  <2>1. next = [Out(d) EXCEPT !.depth = Out(d).depth + 1]
    BY <1>1, <1>2, <1>3 DEF Reply!Walked
  <2> QED BY <2>1 DEF Out
<1>5. t[i] = Reply!Closing(k) => next = [Out(d) EXCEPT !.depth = d - 1, !.end = IF d = 1 THEN i ELSE 0]
  BY <1>1, <1>2, <1>3 DEF Reply!Walked
<1>6. t[i] = Reply!Closing(k) /\ d = 1 => next.end = i
  BY <1>5 DEF Out
<1>7. t[i] = Reply!Closing(k) /\ d # 1 => next = Out(d - 1)
  BY <1>5 DEF Out
<1>8. t[i] = "quote" => next = In(d)
  <2> SUFFICES ASSUME t[i] = "quote" PROVE next = In(d)
    OBVIOUS
  <2>1. next = [Out(d) EXCEPT !.inString = ~Out(d).inString]
    BY <1>1, <1>2, <1>3 DEF Reply!Walked
  <2> QED BY <1>3, <2>1 DEF Out, In
<1>9. t[i] \notin {k, Reply!Closing(k), "quote"} => next = Out(d)
  BY <1>1, <1>2, <1>3 DEF Reply!Walked
<1> QED BY <1>4, <1>6, <1>7, <1>8, <1>9

LEMMA WalkIn ==
    ASSUME NEW t, NEW first, NEW i, NEW d \in Int, ~(i < first)
    PROVE  LET next == Reply!Walked(In(d), t, first, i)
           IN  /\ t[i] = "escape" => next = Escaped(d)
               /\ t[i] = "quote" => next = Out(d)
               /\ t[i] \notin {"escape", "quote"} => next = In(d)
<1> DEFINE next == Reply!Walked(In(d), t, first, i)
<1>1. In(d).end = 0 /\ In(d).escaped = FALSE /\ In(d).inString = TRUE /\ In(d).depth = d
  BY DEF In
<1>2. Reply!Escapes(In(d), t[i]) = (t[i] = "escape")
  BY <1>1 DEF Reply!Escapes
<1>3. t[i] = "escape" => next = Escaped(d)
  <2> SUFFICES ASSUME t[i] = "escape" PROVE next = Escaped(d)
    OBVIOUS
  <2>1. Reply!Escapes(In(d), t[i])
    BY <1>2
  <2>2. next = [In(d) EXCEPT !.escaped = TRUE]
    BY <1>1, <2>1 DEF Reply!Walked
  <2> QED BY <2>2 DEF In, Escaped
<1>4. t[i] = "quote" => next = Out(d)
  <2> SUFFICES ASSUME t[i] = "quote" PROVE next = Out(d)
    OBVIOUS
  <2>2. ~Reply!Escapes(In(d), t[i])
    BY <1>2
  <2>1. next = [In(d) EXCEPT !.inString = ~In(d).inString]
    BY <1>1, <2>2 DEF Reply!Walked
  <2> QED BY <1>1, <2>1 DEF In, Out
<1>5. t[i] \notin {"escape", "quote"} => next = In(d)
  BY <1>1, <1>2 DEF Reply!Walked
<1> QED BY <1>3, <1>4, <1>5

LEMMA WalkEscaped ==
    ASSUME NEW t, NEW first, NEW i, NEW d \in Int, ~(i < first)
    PROVE  Reply!Walked(Escaped(d), t, first, i) = In(d)
<1>1. Escaped(d).end = 0 /\ Escaped(d).escaped = TRUE
  BY DEF Escaped
<1>2. Reply!Walked(Escaped(d), t, first, i) = [Escaped(d) EXCEPT !.escaped = FALSE]
  BY <1>1 DEF Reply!Walked
<1> QED BY <1>2 DEF Escaped, In

\* w is what the walk through t from its bracket at first finds.
Reads(w, t, first) ==
    /\ t \in Seq(Reply!Tokens) /\ first \in 1..Len(t) /\ t[first] \in Reply!Opening
    /\ w = Reply!Scan(t, first)

LEMMA ReadsStep ==
    ASSUME NEW w, NEW t, NEW first, Reads(w, t, first), NEW p \in Nat, first <= p + 1, p + 1 <= Len(t)
    PROVE  w[p + 1] = Reply!Walked(w[p], t, first, p + 1) /\ ~(p + 1 < first) /\ p + 1 \in Nat
<1>1. /\ t \in Seq(Reply!Tokens) /\ first \in 1..Len(t) /\ Len(t) \in Nat
      /\ w = Reply!Scan(t, first)
  BY DEF Reads
<1>2. p + 1 \in 1..Len(t) /\ (p + 1) - 1 = p /\ ~(p + 1 < first)
  BY <1>1
<1>3. \A m \in 1..Len(t) : w[m] = Reply!Walked(w[m - 1], t, first, m)
  BY <1>1, ScanIsLoop
<1> QED BY <1>2, <1>3

LEMMA StepOut ==
    ASSUME NEW w, NEW t, NEW first, Reads(w, t, first), NEW p \in Nat, first <= p + 1,
           p + 1 <= Len(t), NEW d \in Int, w[p] = Out(d)
    PROVE  LET k == t[first]
               c == t[p + 1]
           IN  /\ c = k => w[p + 1] = Out(d + 1)
               /\ c = Reply!Closing(k) /\ d = 1 => w[p + 1].end = p + 1
               /\ c = Reply!Closing(k) /\ d # 1 => w[p + 1] = Out(d - 1)
               /\ c = "quote" => w[p + 1] = In(d)
               /\ c \notin {k, Reply!Closing(k), "quote"} => w[p + 1] = Out(d)
<1> DEFINE q == p + 1
<1>1. w[q] = Reply!Walked(w[p], t, first, q) /\ ~(q < first) /\ t[first] \in Reply!Opening
  BY ReadsStep DEF Reads
<1> HIDE DEF q
<1>2. w[q] = Reply!Walked(Out(d), t, first, q)
  BY <1>1
<1>3. LET k == t[first]
          c == t[q]
      IN  /\ c = k => w[q] = Out(d + 1)
          /\ c = Reply!Closing(k) /\ d = 1 => w[q].end = q
          /\ c = Reply!Closing(k) /\ d # 1 => w[q] = Out(d - 1)
          /\ c = "quote" => w[q] = In(d)
          /\ c \notin {k, Reply!Closing(k), "quote"} => w[q] = Out(d)
  BY <1>1, <1>2, WalkOut
<1> QED BY <1>3 DEF q

LEMMA StepIn ==
    ASSUME NEW w, NEW t, NEW first, Reads(w, t, first), NEW p \in Nat, first <= p + 1,
           p + 1 <= Len(t), NEW d \in Int, w[p] = In(d)
    PROVE  LET c == t[p + 1]
           IN  /\ c = "escape" => w[p + 1] = Escaped(d)
               /\ c = "quote" => w[p + 1] = Out(d)
               /\ c \notin {"escape", "quote"} => w[p + 1] = In(d)
<1> DEFINE q == p + 1
<1>1. w[q] = Reply!Walked(w[p], t, first, q) /\ ~(q < first)
  BY ReadsStep
<1> HIDE DEF q
<1>2. w[q] = Reply!Walked(In(d), t, first, q)
  BY <1>1
<1>3. LET c == t[q]
      IN  /\ c = "escape" => w[q] = Escaped(d)
          /\ c = "quote" => w[q] = Out(d)
          /\ c \notin {"escape", "quote"} => w[q] = In(d)
  BY <1>1, <1>2, WalkIn
<1> QED BY <1>3 DEF q

LEMMA StepEscaped ==
    ASSUME NEW w, NEW t, NEW first, Reads(w, t, first), NEW p \in Nat, first <= p + 1,
           p + 1 <= Len(t), NEW d \in Int, w[p] = Escaped(d)
    PROVE  w[p + 1] = In(d)
<1> DEFINE q == p + 1
<1>1. w[q] = Reply!Walked(w[p], t, first, q) /\ ~(q < first)
  BY ReadsStep
<1> HIDE DEF q
<1> QED BY <1>1, WalkEscaped DEF q

\* x stands in t behind position p.
StandsAt(t, p, x) ==
    p + Len(x) <= Len(t) /\ \A j \in 1..Len(x) : t[p + j] = x[j]

LEMMA PiecesAreTexts == Reply!Pieces \subseteq Seq(Reply!Tokens)
<1>1. "escape" \in Reply!Tokens
  BY DEF Reply!Tokens
<1>2. ASSUME NEW c \in Reply!Tokens PROVE <<c>> \in Seq(Reply!Tokens)
  OBVIOUS
<1>3. ASSUME NEW c \in Reply!Tokens PROVE <<"escape", c>> \in Seq(Reply!Tokens)
  BY <1>1
<1> QED BY <1>2, <1>3 DEF Reply!Pieces

LEMMA PieceAt ==
    ASSUME NEW w, NEW t, NEW first, Reads(w, t, first), NEW p \in Nat, first <= p,
           NEW x \in Reply!Pieces, StandsAt(t, p, x), NEW d \in Int, w[p] = In(d)
    PROVE  w[p + Len(x)] = In(d)
<1>0. Len(t) \in Nat /\ first \in Nat
  BY DEF Reads
<1>1. CASE \E c \in Reply!Tokens \ {"quote", "escape"} : x = <<c>>
  <2>1. PICK c \in Reply!Tokens \ {"quote", "escape"} : x = <<c>>
    BY <1>1
  <2>2. Len(x) = 1 /\ x[1] = c /\ 1 \in 1..Len(x)
    BY <2>1
  <2>3. t[p + 1] = c /\ p + 1 <= Len(t) /\ first <= p + 1
    BY <2>2, <1>0 DEF StandsAt
  <2>4. w[p + 1] = In(d)
    BY <2>1, <2>3, StepIn
  <2> QED BY <2>2, <2>4
<1>2. CASE \E c \in Reply!Tokens : x = <<"escape", c>>
  <2>1. PICK c \in Reply!Tokens : x = <<"escape", c>>
    BY <1>2
  <2>2. Len(x) = 2 /\ x[1] = "escape" /\ 1 \in 1..Len(x)
    BY <2>1
  <2>3. t[p + 1] = "escape" /\ p + 2 <= Len(t) /\ p + 1 <= Len(t) /\ first <= p + 1
    BY <2>2, <1>0 DEF StandsAt
  <2>4. w[p + 1] = Escaped(d)
    BY <2>3, StepIn
  <2> DEFINE q == p + 1
  <2>5. q \in Nat /\ q + 1 = p + 2 /\ first <= q + 1 /\ q + 1 <= Len(t) /\ w[q] = Escaped(d)
    BY <2>3, <2>4, <1>0
  <2> HIDE DEF q
  <2>6. w[q + 1] = In(d)
    BY <2>5, StepEscaped
  <2> QED BY <2>2, <2>5, <2>6
<1> QED BY <1>1, <1>2 DEF Reply!Pieces

LEMMA StringAt ==
    ASSUME NEW w, NEW t, NEW first, Reads(w, t, first), NEW p \in Nat, first <= p,
           NEW body \in Seq(Reply!Pieces), NEW text, text = Reply!FlattenSeq(body),
           text \in Seq(Reply!Tokens), p + 2 + Len(text) <= Len(t),
           t[p + 1] = "quote", t[p + 2 + Len(text)] = "quote", StandsAt(t, p + 1, text),
           NEW d \in Int, w[p] = Out(d)
    PROVE  w[p + 2 + Len(text)] = Out(d)
<1>0. Len(t) \in Nat /\ first \in Nat /\ Len(text) \in Nat /\ t[first] \in Reply!Opening
  BY DEF Reads
<1>1. w[p + 1] = In(d)
  <2>1. first <= p + 1 /\ p + 1 <= Len(t)
    BY <1>0
  <2> QED BY <2>1, StepOut
<1>2. body \in Seq(Seq(Reply!Tokens))
  BY PiecesAreTexts, SeqOfLarger
<1>3. PICK v : Flattening(v, body, text, Reply!Tokens)
  BY <1>2, Flattened
<1> DEFINE n == Len(body)
<1>4. n \in Nat /\ v[0] = <<>> /\ text = v[n]
  BY <1>3 DEF Flattening
<1> DEFINE I == {m \in 0..n : w[p + 1 + Len(v[m])] = In(d)}
<1>6. 0 \in I
  <2>1. Len(v[0]) = 0
    BY <1>4
  <2>2. p + 1 + Len(v[0]) = p + 1
    BY <2>1
  <2>3. w[p + 1 + Len(v[0])] = In(d)
    BY <1>1, <2>2
  <2>4. 0 \in 0..n
    BY <1>4
  <2> QED BY <2>3, <2>4
<1>7. ASSUME NEW m \in 0..n, m \in I, m < n PROVE m + 1 \in I
  <2> DEFINE a == Len(v[m])
             x == body[m + 1]
             q == p + 1 + a
  <2>1. m + 1 \in 1..n /\ (m + 1) - 1 = m /\ m + 1 \in 0..n /\ m \in 0..n
    BY <1>4, <1>7
  <2>2. x \in Reply!Pieces /\ x \in Seq(Reply!Tokens)
    BY <2>1, <1>2
  <2>p. Follows(v, body, text, Reply!Tokens, m)
    <3>1. m \in 0..Len(body) /\ m < Len(body)
      BY <1>7
    <3> HIDE DEF I, n, a, x, q
    <3> QED BY <3>1, <1>3, PartsFollow
  <2>3. a \in Nat /\ Len(x) \in Nat /\ Len(v[m + 1]) = a + Len(x) /\ a + Len(x) <= Len(text)
    BY <2>p DEF Follows
  <2>4. \A j \in 1..Len(x) : text[a + j] = x[j]
    BY <2>p DEF Follows
  <2>5. w[q] = In(d)
    BY <1>7
  <2> HIDE DEF a, x, n
  <2>6. q \in Nat /\ first <= q
    BY <2>3, <1>0
  <2>7. StandsAt(t, q, x)
    <3>1. q + Len(x) <= Len(t)
      BY <2>3, <1>0
    <3>2. ASSUME NEW j \in 1..Len(x) PROVE t[q + j] = x[j]
      <4>1. a + j \in 1..Len(text) /\ q + j = (p + 1) + (a + j)
        BY <2>3, <1>0
      <4> QED BY <4>1, <2>4 DEF StandsAt
    <3> QED BY <3>1, <3>2 DEF StandsAt
  <2>8. w[q + Len(x)] = In(d)
    <3> HIDE DEF q
    <3> QED BY <2>2, <2>5, <2>6, <2>7, PieceAt
  <2>9. q + Len(x) = p + 1 + Len(v[m + 1])
    BY <2>3
  <2> QED BY <2>1, <2>8, <2>9
<1>8. \A m \in 0..n : m \in I
  <2> HIDE DEF I, n
  <2> QED BY <1>4, <1>6, <1>7, Induction
<1>9. w[p + 1 + Len(text)] = In(d)
  <2>1. n \in 0..n
    BY <1>4
  <2> QED BY <1>4, <1>8, <2>1
<1>10. t[p + 1 + Len(text) + 1] = "quote" /\ p + 1 + Len(text) + 1 = p + 2 + Len(text)
  BY <1>0
<1> DEFINE q == p + 1 + Len(text)
<1>11. q \in Nat /\ first <= q + 1 /\ q + 1 <= Len(t) /\ w[q] = In(d) /\ t[q + 1] = "quote"
       /\ q + 1 = p + 2 + Len(text)
  BY <1>0, <1>9, <1>10
<1> HIDE DEF q
<1>12. w[q + 1] = Out(d)
  BY <1>11, StepIn
<1> QED BY <1>11, <1>12

\* What a lexeme makes of the number of brackets like k that are open.
Change(k, c) == IF c = k THEN 1 ELSE IF c = Reply!Closing(k) THEN -1 ELSE 0

LEMMA DepthIsLoop ==
    ASSUME NEW D, NEW value \in Seq(D),
           NEW w, w = Reply!Depth(value)
    PROVE  /\ w[0] = 0
           /\ \A m \in 1..Len(value) : w[m] = w[m - 1] + Change(value[1].token, value[m].token)
           /\ \A m \in 0..Len(value) : w[m] \in Int
<1> DEFINE n == Len(value)
           S == Int
           a == 0
           Round(m, s) == s + Change(value[1].token, value[m].token)
           Body(f) == [m \in 0..n |-> IF m = 0 THEN a ELSE Round(m, f[m - 1])]
           step == [m \in 1..n |-> [s \in S |-> Round(m, s)]]
<1>1. w = CHOOSE f : f = Body(f)
  BY DEF Reply!Depth, Change
<1>2. n \in Nat /\ a \in S
  OBVIOUS
<1>3. ASSUME NEW m \in 1..n, NEW s \in S PROVE Round(m, s) \in S
  BY DEF Change
<1>4. step \in Loops(n, S)
  <2> HIDE DEF n, S, Round
  <2> QED BY <1>3 DEF Loops
<1>5. PICK g : IsLoop(g, n, S, a, step)
  <2> HIDE DEF n, S, a, step
  <2> QED BY <1>2, <1>4, LoopExists
<1>6. g = Body(g)
  <2> HIDE DEF n, S, a, Round
  <2>1. g \in [0..n -> S] /\ g[0] = a /\ \A m \in 1..n : g[m] = step[m][g[m - 1]]
    BY <1>5 DEF IsLoop
  <2>2. \A m \in 1..n : g[m - 1] \in S
    BY <2>1, <1>2
  <2>3. \A m \in 1..n : g[m] = Round(m, g[m - 1])
    BY <2>1, <2>2
  <2> QED BY <2>1, <2>3, <1>2
<1>7. w = Body(w)
  <2> HIDE DEF Body
  <2> QED BY <1>1, <1>6
<1>8. w[0] = a /\ \A m \in 1..n : w[m] = Round(m, w[m - 1])
  <2> HIDE DEF a, n, Round
  <2> QED BY <1>2, <1>7
<1>9. \A m \in 0..n : w[m] \in S
  <2> HIDE DEF n, S, a, Round
  <2> QED BY <1>2, <1>3, <1>8, LoopIn
<1> QED BY <1>8, <1>9


LEMMA SpelledText ==
    ASSUME NEW l \in Reply!Lexemes
    PROVE  /\ Reply!Spelled(l) \in Seq(Reply!Tokens)
           /\ l.token # "quote" => Reply!Spelled(l) = <<l.token>> /\ l.token \in Reply!Tokens
           /\ l.token = "quote" =>
                 /\ l.body \in Seq(Reply!Pieces) /\ Reply!FlattenSeq(l.body) \in Seq(Reply!Tokens)
                 /\ Reply!Spelled(l) = <<"quote">> \o Reply!FlattenSeq(l.body) \o <<"quote">>
<1>1. CASE l \in [token: Reply!Marks, body: {<<>>}]
  <2>1. l.token \in Reply!Tokens \ {"quote", "escape", "fence"}
    BY <1>1 DEF Reply!Marks
  <2>2. Reply!Spelled(l) = <<l.token>>
    BY <2>1 DEF Reply!Spelled
  <2> QED BY <2>1, <2>2
<1>2. CASE l \in [token: {"quote"}, body: Seq(Reply!Pieces)]
  <2>1. l.token = "quote" /\ l.body \in Seq(Reply!Pieces)
    BY <1>2
  <2>2. l.body \in Seq(Seq(Reply!Tokens))
    BY <2>1, PiecesAreTexts, SeqOfLarger
  <2> DEFINE text == Reply!FlattenSeq(l.body)
  <2>3. PICK v : Flattening(v, l.body, text, Reply!Tokens)
    BY <2>2, Flattened
  <2>4. text \in Seq(Reply!Tokens)
    <3> HIDE DEF text
    <3>1. InPlace(v, l.body, text, Reply!Tokens)
      BY <2>3, PartsAreInPlace
    <3> QED BY <3>1 DEF InPlace
  <2>5. Reply!Spelled(l) = <<"quote">> \o text \o <<"quote">>
    BY <2>1 DEF Reply!Spelled
  <2>6. "quote" \in Reply!Tokens
    BY DEF Reply!Tokens
  <2>7. <<"quote">> \o text \o <<"quote">> \in Seq(Reply!Tokens)
    <3> HIDE DEF text
    <3> QED BY <2>4, <2>6
  <2> QED BY <2>1, <2>4, <2>5, <2>7
<1> QED BY <1>1, <1>2 DEF Reply!Lexemes

LEMMA SpelledLength ==
    ASSUME NEW l \in Reply!Lexemes
    PROVE  Len(Reply!Spelled(l)) \in Nat /\ Len(Reply!Spelled(l)) >= 1
<1>1. CASE l.token # "quote"
  <2>1. Reply!Spelled(l) = <<l.token>>
    BY <1>1, SpelledText
  <2> QED BY <2>1
<1>2. CASE l.token = "quote"
  <2> DEFINE text == Reply!FlattenSeq(l.body)
  <2>1. text \in Seq(Reply!Tokens) /\ Reply!Spelled(l) = <<"quote">> \o text \o <<"quote">>
    BY <1>2, SpelledText
  <2>2. "quote" \in Reply!Tokens
    BY DEF Reply!Tokens
  <2> HIDE DEF text
  <2>3. Len(<<"quote">> \o text) = 1 + Len(text) /\ Len(text) \in Nat
        /\ <<"quote">> \o text \in Seq(Reply!Tokens)
    BY <2>1, <2>2
  <2>4. Len(<<"quote">> \o text \o <<"quote">>) = Len(<<"quote">> \o text) + 1
    BY <2>2, <2>3
  <2> QED BY <2>1, <2>3, <2>4
<1> QED BY <1>1, <1>2

\* After a lexeme that stands outside of a string.
AfterLexeme(w, k, p, l, x, d) ==
    /\ d = 1 /\ Change(k, l.token) = -1 => Len(x) = 1 /\ w[p + 1].end = p + 1
    /\ ~(d = 1 /\ Change(k, l.token) = -1) => w[p + Len(x)] = Out(d + Change(k, l.token))

LEMMA LexemeAt ==
    ASSUME NEW w, NEW t, NEW first, Reads(w, t, first), NEW p \in Nat, first <= p + 1,
           NEW l \in Reply!Lexemes, first <= p \/ l.token # "quote",
           NEW x, x = Reply!Spelled(l), StandsAt(t, p, x), NEW d \in Int, w[p] = Out(d)
    PROVE  AfterLexeme(w, t[first], p, l, x, d)
<1> DEFINE k == t[first]
           c == l.token
<1>0. Len(t) \in Nat /\ first \in Nat /\ k \in Reply!Opening
  BY DEF Reads
<1>k. k # "quote" /\ k # Reply!Closing(k) /\ Reply!Closing(k) # "quote"
  BY <1>0 DEF Reply!Opening, Reply!Closing
<1>1. CASE c # "quote"
  <2>1. x = <<c>>
    BY <1>1, SpelledText
  <2>2. Len(x) = 1 /\ x[1] = c /\ 1 \in 1..Len(x)
    BY <2>1
  <2>3. t[p + 1] = c /\ p + 1 <= Len(t)
    BY <2>2 DEF StandsAt
  <2>4. /\ c = k => w[p + 1] = Out(d + 1)
        /\ c = Reply!Closing(k) /\ d = 1 => w[p + 1].end = p + 1
        /\ c = Reply!Closing(k) /\ d # 1 => w[p + 1] = Out(d - 1)
        /\ c \notin {k, Reply!Closing(k), "quote"} => w[p + 1] = Out(d)
    BY <2>3, StepOut
  <2> HIDE DEF k, c
  <2>5. CASE c = k
    <3>1. Change(k, c) = 1
      BY <2>5 DEF Change
    <3> QED BY <2>2, <2>4, <2>5, <3>1 DEF AfterLexeme, k, c
  <2>6. CASE c = Reply!Closing(k)
    <3>1. Change(k, c) = -1 /\ d + (-1) = d - 1
      BY <2>6, <1>k DEF Change
    <3> QED BY <2>2, <2>4, <2>6, <3>1 DEF AfterLexeme, k, c
  <2>7. CASE c # k /\ c # Reply!Closing(k)
    <3>1. Change(k, c) = 0 /\ d + 0 = d
      BY <2>7 DEF Change
    <3>2. w[p + 1] = Out(d)
      BY <2>4, <2>7, <1>1 DEF c
    <3> QED BY <2>2, <3>1, <3>2 DEF AfterLexeme, k, c
  <2> QED BY <2>5, <2>6, <2>7
<1>2. CASE c = "quote"
  <2> DEFINE text == Reply!FlattenSeq(l.body)
  <2>1. l.body \in Seq(Reply!Pieces) /\ text \in Seq(Reply!Tokens)
        /\ x = <<"quote">> \o text \o <<"quote">>
    BY <1>2, SpelledText
  <2> DEFINE y == <<"quote">> \o text
             body == l.body
  <2>b. body \in Seq(Reply!Pieces) /\ text = Reply!FlattenSeq(body)
    BY <2>1
  <2> HIDE DEF text, body
  <2>2. /\ Len(text) \in Nat /\ Len(x) = Len(text) + 2
        /\ x[1] = "quote" /\ x[Len(text) + 2] = "quote"
        /\ \A j \in 1..Len(text) : x[1 + j] = text[j]
    <3>1. Len(text) \in Nat /\ text \in Seq(Reply!Tokens) /\ "quote" \in Reply!Tokens
      <4>1. "quote" \in Reply!Tokens
        BY DEF Reply!Tokens
      <4> QED BY <2>1, <4>1
    <3>2. /\ y \in Seq(Reply!Tokens) /\ Len(y) = 1 + Len(text) /\ y[1] = "quote"
          /\ \A j \in 1..Len(text) : y[1 + j] = text[j]
      BY <3>1
    <3>3. x = y \o <<"quote">>
      BY <2>1
    <3> HIDE DEF y
    <3>4. Len(x) = Len(text) + 2
      BY <3>1, <3>2, <3>3
    <3>5. x[Len(text) + 2] = "quote"
      BY <3>1, <3>2, <3>3
    <3>6. \A j \in 1..Len(y) : x[j] = y[j]
      BY <3>1, <3>2, <3>3
    <3>7. x[1] = "quote"
      BY <3>1, <3>2, <3>6
    <3>8. \A j \in 1..Len(text) : x[1 + j] = text[j]
      BY <3>1, <3>2, <3>6
    <3> QED BY <3>1, <3>4, <3>5, <3>7, <3>8
  <2> HIDE DEF y
  <2> DEFINE n == Len(text)
  <2>n. n \in Nat
    BY <2>2
  <2>3. p + (n + 2) <= Len(t) /\ \A j \in 1..(n + 2) : t[p + j] = x[j]
    BY <2>2 DEF StandsAt
  <2>4. t[p + 1] = "quote"
    <3>1. 1 \in 1..(n + 2)
      BY <2>n
    <3> HIDE DEF n
    <3> QED BY <2>2, <2>3, <3>1
  <2>5. t[p + 2 + n] = "quote"
    <3>1. n + 2 \in 1..(n + 2) /\ p + (n + 2) = p + 2 + n
      BY <2>n
    <3> QED BY <2>2, <2>3, <3>1
  <2>6. StandsAt(t, p + 1, text)
    <3>1. (p + 1) + n <= Len(t)
      BY <2>3, <2>n, <1>0
    <3>2. ASSUME NEW j \in 1..n PROVE t[(p + 1) + j] = text[j]
      <4>1. 1 + j \in 1..(n + 2) /\ p + (1 + j) = (p + 1) + j
        BY <2>n
      <4>2. t[p + (1 + j)] = x[1 + j]
        BY <4>1, <2>3
      <4>3. x[1 + j] = text[j]
        BY <2>2
      <4> QED BY <4>1, <4>2, <4>3
    <3> QED BY <3>1, <3>2 DEF StandsAt
  <2>7. p + 2 + n <= Len(t)
    BY <2>3, <2>n, <1>0
  <2>8. first <= p
    BY <1>2
  <2>9. w[p + 2 + n] = Out(d)
    BY <2>b, <2>1, <2>4, <2>5, <2>6, <2>7, <2>8, StringAt
  <2>10. Change(k, c) = 0 /\ d + 0 = d
    BY <1>2, <1>k DEF Change
  <2>11. p + Len(x) = p + 2 + n
    BY <2>2
  <2> HIDE DEF n, k, c
  <2>12. w[p + Len(x)] = Out(d + Change(k, c)) /\ Change(k, c) # -1
    BY <2>9, <2>10, <2>11
  <2> QED BY <2>12 DEF AfterLexeme, k, c
<1> HIDE DEF k, c
<1>3. AfterLexeme(w, k, p, l, x, d)
  BY <1>1, <1>2 DEF k
<1> QED BY <1>3 DEF k

-----------------------------------------------------------------------------
(* The text of a value, and the walk through it. *)

\* The parts of the text of a value are its lexemes.
Spellings(value) == [i \in 1..Len(value) |-> Reply!Spelled(value[i])]

LEMMA ValueIsText ==
    ASSUME NEW value, Reply!IsValue(value)
    PROVE  /\ Spellings(value) \in Seq(Seq(Reply!Tokens)) /\ Len(Spellings(value)) = Len(value)
           /\ Reply!TextOf(value) = Reply!FlattenSeq(Spellings(value))
           /\ Reply!TextOf(value) \in Seq(Reply!Tokens)
           /\ Len(value) \in Nat /\ Len(value) >= 1
           /\ Reply!TextOf(value) # <<>> /\ Reply!TextOf(value)[1] = value[1].token
           /\ value[1].token \in Reply!Opening
<1> DEFINE n == Len(value)
           text == Reply!TextOf(value)
           parts == Spellings(value)
<1>1. value \in Seq(Reply!Lexemes) /\ value # <<>> /\ value[1].token \in Reply!Opening
  BY DEF Reply!IsValue
<1>2. n \in Nat /\ n >= 1 /\ \A i \in 1..n : value[i] \in Reply!Lexemes
  BY <1>1
<1>3. parts \in Seq(Seq(Reply!Tokens)) /\ Len(parts) = n
  <2> DEFINE S == Seq(Reply!Tokens)
  <2>1. \A i \in 1..n : Reply!Spelled(value[i]) \in S
    BY <1>2, SpelledText
  <2> HIDE DEF S
  <2>2. parts = [i \in 1..n |-> Reply!Spelled(value[i])]
    BY DEF Spellings
  <2> HIDE DEF parts, n
  <2>3. parts \in Seq(S) /\ Len(parts) = n
    BY <1>2, <2>1, <2>2
  <2> QED BY <2>3 DEF S, n
<1>4. text = Reply!FlattenSeq(parts)
  BY DEF Reply!TextOf, Spellings
<1>5. PICK v : Flattening(v, parts, text, Reply!Tokens)
  <2> HIDE DEF parts, text
  <2> QED BY <1>3, <1>4, Flattened
<1>6. InPlace(v, parts, text, Reply!Tokens)
  <2> HIDE DEF parts, text
  <2> QED BY <1>5, PartsAreInPlace
<1>7. text \in Seq(Reply!Tokens)
  BY <1>6 DEF InPlace
<1>8. Follows(v, parts, text, Reply!Tokens, 0)
  <2>1. 0 \in 0..Len(parts) /\ 0 < Len(parts)
    BY <1>2, <1>3
  <2> HIDE DEF parts, text
  <2> QED BY <1>5, <2>1, PartsFollow
<1>9. parts[1] = <<value[1].token>>
  <2>a. value[1].token # "quote"
    BY <1>1 DEF Reply!Opening
  <2>b. 1 \in 1..n
    BY <1>2
  <2>1. value[1] \in Reply!Lexemes /\ value[1].token # "quote" /\ 1 \in 1..n
    BY <1>2, <2>a, <2>b
  <2>2. parts[1] = Reply!Spelled(value[1])
    BY <2>1 DEF Spellings
  <2> QED BY <2>1, <2>2, SpelledText
<1>10. v[0] = <<>>
  BY <1>6 DEF InPlace
<1>11. text # <<>> /\ text[1] = value[1].token
  <2> HIDE DEF parts, text
  <2>1. /\ Len(v[0]) + Len(parts[0 + 1]) <= Len(text)
        /\ \A j \in 1..Len(parts[0 + 1]) : text[Len(v[0]) + j] = parts[0 + 1][j]
    BY <1>8 DEF Follows
  <2>2. Len(v[0]) = 0 /\ parts[0 + 1] = <<value[1].token>> /\ Len(parts[0 + 1]) = 1
    <3>1. Len(v[0]) = 0
      BY <1>10
    <3>2. 0 + 1 = 1
      OBVIOUS
    <3>3. parts[0 + 1] = <<value[1].token>>
      BY <1>9, <3>2, Zenon
    <3>4. Len(<<value[1].token>>) = 1
      OBVIOUS
    <3> QED BY <3>1, <3>3, <3>4, Zenon
  <2>3. 1 <= Len(text) /\ text[1] = value[1].token
    BY <2>1, <2>2
  <2> QED BY <1>7, <2>3
<1> HIDE DEF text, parts, n
<1> QED BY <1>1, <1>2, <1>3, <1>4, <1>7, <1>11 DEF text, parts, n

\* The walk ends where a value does.
LEMMA ValueAt ==
    ASSUME NEW w, NEW t, NEW p \in Nat, Reads(w, t, p + 1), w[p] = Out(0),
           NEW value, Reply!IsValue(value),
           NEW text, text = Reply!TextOf(value), StandsAt(t, p, text)
    PROVE  w[p + Len(text)].end = p + Len(text)
<1> DEFINE n == Len(value)
           parts == Spellings(value)
           depth == Reply!Depth(value)
           k == value[1].token
<1>1. /\ n \in Nat /\ n >= 1 /\ parts \in Seq(Seq(Reply!Tokens)) /\ Len(parts) = n
      /\ text = Reply!FlattenSeq(parts) /\ text \in Seq(Reply!Tokens)
      /\ text # <<>> /\ text[1] = k /\ k \in Reply!Opening
  BY ValueIsText
<1>2. /\ value \in Seq(Reply!Lexemes)
      /\ \A i \in 1..(n - 1) : depth[i] > 0
      /\ depth[n] = 0
  BY DEF Reply!IsValue
<1>3. \A i \in 1..n : value[i] \in Reply!Lexemes
  BY <1>2
<1>4. /\ depth[0] = 0
      /\ \A m \in 1..n : depth[m] = depth[m - 1] + Change(k, value[m].token)
      /\ \A m \in 0..n : depth[m] \in Int
  <2> DEFINE w1 == depth
  <2>1. w1 = Reply!Depth(value)
    OBVIOUS
  <2> HIDE DEF w1
  <2>2. /\ w1[0] = 0
        /\ \A m \in 1..n : w1[m] = w1[m - 1] + Change(k, value[m].token)
        /\ \A m \in 0..n : w1[m] \in Int
    BY <1>2, <2>1, DepthIsLoop
  <2> QED BY <2>2 DEF w1
<1>5. PICK v : Flattening(v, parts, text, Reply!Tokens)
  <2> HIDE DEF parts
  <2> QED BY <1>1, Flattened
<1>6. InPlace(v, parts, text, Reply!Tokens)
  <2> HIDE DEF parts
  <2> QED BY <1>5, PartsAreInPlace
<1>7. v[0] = <<>> /\ text = v[n]
  <2>1. v[0] = <<>>
    BY <1>6 DEF InPlace
  <2>2. text = v[Len(parts)]
    <3> HIDE DEF parts
    <3> QED BY <1>5 DEF Flattening
  <2> QED BY <1>1, <2>1, <2>2
<1>8. t[p + 1] = k /\ Len(text) \in Nat /\ p + Len(text) <= Len(t) /\ Len(t) \in Nat
  <2>1. 1 \in 1..Len(text) /\ Len(text) \in Nat
    BY <1>1
  <2>2. t[p + 1] = text[1] /\ p + Len(text) <= Len(t)
    BY <2>1 DEF StandsAt
  <2>3. Len(t) \in Nat
    BY DEF Reads
  <2> QED BY <1>1, <2>1, <2>2, <2>3
\* What a lexeme does to the walk.
<1>9. ASSUME NEW m \in 0..n, m < n, w[p + Len(v[m])] = Out(depth[m])
      PROVE  /\ Len(v[m]) \in Nat
             /\ m + 1 < n => w[p + Len(v[m + 1])] = Out(depth[m + 1])
             /\ m + 1 = n => w[p + Len(v[m + 1])].end = p + Len(v[m + 1])
  <2> DEFINE l == value[m + 1]
             x == parts[m + 1]
             d == depth[m]
             q == p + Len(v[m])
             c == Change(k, l.token)
  <2>1. m + 1 \in 1..n /\ (m + 1) - 1 = m /\ m \in 0..n
    BY <1>1, <1>9
  <2>2. l \in Reply!Lexemes
    BY <1>3, <2>1
  <2>3. x = Reply!Spelled(l)
    BY <2>1 DEF Spellings
  <2>4. d \in Int /\ depth[m + 1] = d + c
    BY <1>4, <2>1
  <2>5. Follows(v, parts, text, Reply!Tokens, m)
    <3>1. m \in 0..Len(parts) /\ m < Len(parts)
      BY <1>1, <1>9
    <3> HIDE DEF parts, l, x, d, q, c, depth, k, n
    <3> QED BY <1>5, <3>1, PartsFollow
  <2>6. /\ Len(v[m]) \in Nat /\ Len(x) \in Nat /\ Len(v[m + 1]) = Len(v[m]) + Len(x)
        /\ Len(v[m]) + Len(x) <= Len(text)
        /\ \A j \in 1..Len(x) : text[Len(v[m]) + j] = x[j]
    <3> HIDE DEF parts
    <3> QED BY <2>5 DEF Follows
  <2> HIDE DEF x
  <2>7. q \in Nat /\ p + 1 <= q + 1
    BY <2>6
  <2>8. StandsAt(t, q, x)
    <3>1. q + Len(x) <= Len(t)
      BY <2>6, <1>8
    <3>2. ASSUME NEW j \in 1..Len(x) PROVE t[q + j] = x[j]
      <4>1. Len(v[m]) + j \in 1..Len(text) /\ q + j = p + (Len(v[m]) + j)
        BY <2>6, <1>8
      <4>2. t[p + (Len(v[m]) + j)] = text[Len(v[m]) + j]
        BY <4>1 DEF StandsAt
      <4> QED BY <4>1, <4>2, <2>6
    <3> QED BY <3>1, <3>2 DEF StandsAt
  <2>9. p + 1 <= q \/ l.token # "quote"
    <3>1. CASE m = 0
      <4>1. l.token = k
        BY <3>1
      <4> QED BY <4>1, <1>1 DEF Reply!Opening
    <3>2. CASE m # 0
      <4>1. m \in 1..n /\ m - 1 \in 0..Len(parts) /\ m - 1 < Len(parts) /\ (m - 1) + 1 = m
        BY <1>1, <3>2, <2>1
      <4> HIDE DEF parts, l, d, q, c, depth, k, n
      <4>2. Follows(v, parts, text, Reply!Tokens, m - 1)
        BY <4>1, <1>5, PartsFollow
      <4>3. Len(v[m - 1]) \in Nat /\ Len(v[m]) = Len(v[m - 1]) + Len(parts[m]) /\ Len(parts[m]) \in Nat
        BY <4>1, <4>2, Zenon DEF Follows
      <4>4. Len(parts[m]) >= 1
        <5>1. parts[m] = Reply!Spelled(value[m]) /\ value[m] \in Reply!Lexemes
          BY <4>1, <1>3 DEF parts, Spellings, n
        <5> QED BY <5>1, SpelledLength
      <4> DEFINE e == Len(v[m])
                 f == Len(v[m - 1])
                 g == Len(parts[m])
      <4>5. e = f + g /\ f \in Nat /\ g \in Nat /\ g >= 1
        BY <4>3, <4>4
      <4> HIDE DEF e, f, g
      <4>6. e \in Nat /\ e >= 1
        BY <4>5
      <4>7. p + 1 <= p + e
        BY <4>6
      <4> QED BY <4>7 DEF q, e
    <3> QED BY <3>1, <3>2
  <2>10. w[q] = Out(d)
    BY <1>9
  <2>11. /\ d = 1 /\ c = -1 => Len(x) = 1 /\ w[q + 1].end = q + 1
         /\ ~(d = 1 /\ c = -1) => w[q + Len(x)] = Out(d + c)
    <3>1. t[p + 1] = k
      BY <1>8
    <3> HIDE DEF q, d, l, k
    <3>2. AfterLexeme(w, t[p + 1], q, l, x, d)
      <4>1. p + 1 \in Nat /\ x = Reply!Spelled(l)
        BY <2>3
      <4> DEFINE first == p + 1
      <4>2. Reads(w, t, first) /\ first <= q + 1 /\ (first <= q \/ l.token # "quote")
        BY <2>7, <2>9
      <4> HIDE DEF first
      <4>3. AfterLexeme(w, t[first], q, l, x, d)
        BY <2>2, <2>4, <2>7, <2>8, <2>10, <4>1, <4>2, LexemeAt
      <4> QED BY <4>3 DEF first
    <3> QED BY <3>1, <3>2 DEF AfterLexeme
  <2>12. q + Len(x) = p + Len(v[m + 1])
    BY <2>6
  <2>13. c \in {-1, 0, 1}
    BY DEF Change
  <2> HIDE DEF q, c, d, depth, n
  <2>14. ASSUME m + 1 < n PROVE w[p + Len(v[m + 1])] = Out(depth[m + 1])
    <3>1. depth[m + 1] > 0
      <4>1. m + 1 \in 1..(n - 1)
        BY <1>1, <2>14
      <4> QED BY <1>2, <4>1
    <3>2. ~(d = 1 /\ c = -1)
      BY <2>4, <3>1
    <3> QED BY <2>4, <2>11, <2>12, <3>2
  <2>15. ASSUME m + 1 = n PROVE w[p + Len(v[m + 1])].end = p + Len(v[m + 1])
    <3>1. d + c = 0
      BY <1>2, <2>4, <2>15
    <3>2. CASE m = 0
      <4>1. l.token = k
        BY <3>2
      <4>2. c = 1
        BY <4>1 DEF c, Change
      <4>3. d = 0
        BY <1>4, <3>2 DEF d
      <4> QED BY <3>1, <4>2, <4>3
    <3>3. CASE m # 0
      <4>1. m \in 1..(n - 1)
        BY <1>1, <2>15, <3>3
      <4>2. d > 0
        BY <1>2, <4>1 DEF d
      <4>3. d = 1 /\ c = -1
        BY <2>4, <2>13, <3>1, <4>2
      <4>4. Len(x) = 1 /\ w[q + 1].end = q + 1
        BY <2>11, <4>3
      <4> QED BY <2>12, <4>4
    <3> QED BY <3>2, <3>3
  <2> QED BY <2>6, <2>14, <2>15
<1> DEFINE I == {m \in 0..(n - 1) : w[p + Len(v[m])] = Out(depth[m])}
<1>10. \A m \in 0..(n - 1) : m \in I
  <2>1. n - 1 \in Nat
    BY <1>1
  <2>2. 0 \in I
    <3>1. p + Len(v[0]) = p
      BY <1>7
    <3> QED BY <2>1, <1>4, <3>1
  <2>3. ASSUME NEW m \in 0..(n - 1), m \in I, m < n - 1 PROVE m + 1 \in I
    <3>1. m \in 0..n /\ m < n /\ m + 1 < n /\ m + 1 \in 0..(n - 1)
      BY <1>1, <2>3
    <3>2. w[p + Len(v[m])] = Out(depth[m])
      BY <2>3
    <3> HIDE DEF depth, n
    <3> QED BY <1>9, <3>1, <3>2
  <2> HIDE DEF I, n
  <2> QED BY <2>1, <2>2, <2>3, Induction
<1> DEFINE m1 == n - 1
<1>11. m1 \in 0..n /\ m1 < n /\ m1 + 1 = n /\ m1 \in 0..(n - 1)
  BY <1>1
<1>12. w[p + Len(v[m1])] = Out(depth[m1])
  BY <1>10, <1>11
<1> HIDE DEF m1, depth, n
<1>13. w[p + Len(v[m1 + 1])].end = p + Len(v[m1 + 1])
  BY <1>9, <1>11, <1>12
<1> QED BY <1>7, <1>11, <1>13

-----------------------------------------------------------------------------
(* The first bracket, and what is taken of a text. *)

LEMMA LeastIs ==
    ASSUME NEW S \in SUBSET Nat, NEW x \in S, \A j \in S : x <= j
    PROVE  Reply!Least(S) = x
<1> DEFINE y == CHOOSE i \in S : \A j \in S : i <= j
<1>1. y \in S /\ \A j \in S : y <= j
  OBVIOUS
<1>2. y = Reply!Least(S)
  BY DEF Reply!Least
<1> HIDE DEF y
<1>3. x <= y /\ y <= x /\ x \in Nat /\ y \in Nat
  BY <1>1
<1> QED BY <1>2, <1>3

\* What stands in a sequence is what a subsequence of it is.
LEMMA StandingIsSubSeq ==
    ASSUME NEW D, NEW t \in Seq(D), NEW p \in Nat, NEW x \in Seq(D), StandsAt(t, p, x)
    PROVE  SubSeq(t, p + 1, p + Len(x)) = x
<1> DEFINE n == Len(x)
           a == p + 1
           b == p + n
           s == SubSeq(t, a, b)
<1>1. n \in Nat /\ Len(t) \in Nat /\ b <= Len(t) /\ a \in Int /\ b \in Int
  BY DEF StandsAt
<1>2. \A i \in a..b : t[i] \in D
  <2>1. \A i \in a..b : i \in 1..Len(t)
    BY <1>1
  <2> HIDE DEF a, b
  <2> QED BY <2>1
<1>3. /\ s \in Seq(D) /\ Len(s) = IF a <= b THEN b - a + 1 ELSE 0
      /\ \A i \in 1..(b - a + 1) : s[i] = t[a + i - 1]
  <2> HIDE DEF a, b
  <2> QED BY <1>1, <1>2, SubSeqProperties
<1>4. Len(s) = n
  <2>1. (IF a <= b THEN b - a + 1 ELSE 0) = n
    BY <1>1
  <2> HIDE DEF s, a, b, n
  <2> QED BY <1>3, <2>1
<1>5. ASSUME NEW i \in 1..n PROVE s[i] = x[i]
  <2>1. i \in 1..(b - a + 1) /\ a + i - 1 = p + i
    BY <1>1
  <2>2. s[i] = t[a + i - 1]
    <3> HIDE DEF s, a, b, n
    <3> QED BY <1>3, <2>1
  <2>3. t[p + i] = x[i]
    BY DEF StandsAt
  <2> HIDE DEF s
  <2> QED BY <2>1, <2>2, <2>3
<1> HIDE DEF s
<1>6. s = x
  BY <1>3, <1>4, <1>5, SeqEqual
<1> QED BY <1>6 DEF s

\* Once the walk has an end it keeps it, and it is no later than the walk.
LEMMA WalkEnds ==
    ASSUME NEW s \in Walk, NEW t, NEW first, NEW i \in Nat
    PROVE  LET r == Reply!Walked(s, t, first, i)
           IN  /\ s.end > 0 => r.end = s.end
               /\ s.end = 0 => r.end = 0 \/ r.end = i
               /\ s.end \in Nat
<1> DEFINE r == Reply!Walked(s, t, first, i)
<1>0. s.end \in Nat /\ s.depth \in Int
  BY DEF Walk
<1>1. CASE i < first \/ s.end > 0
  <2>1. r = s
    BY <1>1 DEF Reply!Walked
  <2> HIDE DEF r
  <2>2. r.end = s.end
    BY <2>1
  <2> QED BY <1>0, <1>1, <2>2 DEF r
<1>2. CASE ~(i < first \/ s.end > 0) /\ s.escaped
  <2>1. r = [s EXCEPT !.escaped = FALSE]
    BY <1>2 DEF Reply!Walked
  <2>2. r.end = s.end
    BY <2>1 DEF Walk
  <2> HIDE DEF r
  <2> QED BY <1>0, <1>2, <2>2 DEF r
<1>3. CASE ~(i < first \/ s.end > 0) /\ ~s.escaped /\ Reply!Escapes(s, t[i])
  <2>1. r = [s EXCEPT !.escaped = TRUE]
    BY <1>3 DEF Reply!Walked
  <2>2. r.end = s.end
    BY <2>1 DEF Walk
  <2> HIDE DEF r
  <2> QED BY <1>0, <1>3, <2>2 DEF r
<1>4. CASE ~(i < first \/ s.end > 0) /\ ~s.escaped /\ ~Reply!Escapes(s, t[i])
  <2> SUFFICES r.end = 0 \/ r.end = i
    <3> HIDE DEF r
    <3> SUFFICES ASSUME r.end = 0 \/ r.end = i
                 PROVE  /\ s.end > 0 => r.end = s.end
                        /\ s.end = 0 => r.end = 0 \/ r.end = i
                        /\ s.end \in Nat
      BY DEF r
    <3> QED BY <1>0, <1>4
  <2>0. s.end = 0
    BY <1>0, <1>4
  <2>1. CASE t[i] = "quote"
    <3>1. r = [s EXCEPT !.inString = ~s.inString]
      BY <1>4, <2>1 DEF Reply!Walked
    <3> QED BY <3>1, <2>0 DEF Walk
  <2>2. CASE t[i] # "quote" /\ s.inString
    <3>1. r = s
      BY <1>4, <2>2 DEF Reply!Walked
    <3> QED BY <3>1, <2>0
  <2>3. CASE t[i] # "quote" /\ ~s.inString /\ t[i] = t[first]
    <3>1. r = [s EXCEPT !.depth = s.depth + 1]
      BY <1>4, <2>3 DEF Reply!Walked
    <3> QED BY <3>1, <2>0 DEF Walk
  <2>4. CASE t[i] # "quote" /\ ~s.inString /\ t[i] # t[first] /\ t[i] = Reply!Closing(t[first])
    <3>1. r = [s EXCEPT !.depth = s.depth - 1, !.end = IF s.depth = 1 THEN i ELSE 0]
      BY <1>4, <2>4 DEF Reply!Walked
    <3>2. r.end = IF s.depth = 1 THEN i ELSE 0
      BY <3>1 DEF Walk
    <3> HIDE DEF r
    <3> QED BY <3>2
  <2>5. CASE t[i] # "quote" /\ ~s.inString /\ t[i] # t[first] /\ t[i] # Reply!Closing(t[first])
    <3>1. r = s
      BY <1>4, <2>5 DEF Reply!Walked
    <3> QED BY <3>1, <2>0
  <2> QED BY <2>1, <2>2, <2>3, <2>4, <2>5
<1> QED BY <1>1, <1>2, <1>3, <1>4

\* So an end at position e is none before it, and is the end after it.
LEMMA EndIsOne ==
    ASSUME NEW t \in Seq(Reply!Tokens), NEW first, NEW w, w = Reply!Scan(t, first),
           NEW e \in 1..Len(t), w[e].end = e
    PROVE  /\ \A m \in 0..(e - 1) : w[m].end = 0
           /\ w[Len(t)].end = e
<1> DEFINE n == Len(t)
           f == [m \in 0..n |-> w[m].end]
<1>1. /\ n \in Nat /\ w[0] = Out(0)
      /\ \A m \in 1..n : w[m] = Reply!Walked(w[m - 1], t, first, m)
      /\ \A m \in 0..n : w[m] \in Walk
  BY ScanIsLoop
<1>2. ASSUME NEW m \in 1..n
      PROVE  /\ f[m - 1] > 0 => f[m] = f[m - 1]
             /\ f[m - 1] = 0 => f[m] = 0 \/ f[m] = m
             /\ f[m - 1] \in Nat
  <2>1. m - 1 \in 0..n /\ m \in 0..n /\ m \in Nat
    BY <1>1
  <2>2. w[m - 1] \in Walk /\ w[m] = Reply!Walked(w[m - 1], t, first, m)
    BY <1>1, <2>1
  <2> HIDE DEF n
  <2>3. /\ w[m - 1].end > 0 => w[m].end = w[m - 1].end
        /\ w[m - 1].end = 0 => w[m].end = 0 \/ w[m].end = m
        /\ w[m - 1].end \in Nat
    BY <2>1, <2>2, WalkEnds
  <2>4. f[m] = w[m].end /\ f[m - 1] = w[m - 1].end
    BY <2>1
  <2> QED BY <2>3, <2>4
<1>3. f[0] = 0 /\ e \in 1..n /\ f[e] = e
  BY <1>1 DEF Out
<1> HIDE DEF f, n
\* After each position: the end is not later, and e is the end from e on.
<1> DEFINE Fine(m) == f[m] \in Nat /\ f[m] <= m /\ (m >= e => f[m] = e)
           I == {m \in 0..n : Fine(m)}
<1>4. ASSUME NEW m \in 0..n, Fine(m), m < n PROVE Fine(m + 1)
  <2> DEFINE k == m + 1
  <2>1. k \in 1..n /\ k - 1 = m
    BY <1>1, <1>4
  <2>2. /\ f[m] > 0 => f[k] = f[m]
        /\ f[m] = 0 => f[k] = 0 \/ f[k] = k
        /\ f[m] \in Nat /\ f[m] <= m /\ (m >= e => f[m] = e)
    BY <1>2, <1>4, <2>1
  <2>3. k = m + 1 /\ m \in Nat /\ e \in Nat /\ e >= 1
    BY <1>1, <1>3
  <2> HIDE DEF k
  <2> SUFFICES Fine(k)
    BY DEF k
  <2>4. f[k] \in Nat /\ f[k] <= k
    BY <2>2, <2>3
  <2>5. CASE m >= e
    BY <2>2, <2>3, <2>4, <2>5
  <2>6. CASE k = e
    BY <1>3, <2>3, <2>4, <2>6
  <2>7. CASE k < e
    BY <2>3, <2>4, <2>7
  <2> QED BY <2>3, <2>5, <2>6, <2>7
<1>5. \A m \in 0..n : m \in I
  <2>1. 0 \in I
    BY <1>1, <1>3
  <2>2. \A m \in 0..n : m \in I /\ m < n => m + 1 \in I
    <3> SUFFICES ASSUME NEW m \in 0..n, m \in I, m < n PROVE m + 1 \in I
      OBVIOUS
    <3>1. m + 1 \in 0..n /\ Fine(m)
      BY <1>1
    <3> HIDE DEF Fine
    <3> QED BY <3>1, <1>4
  <2> HIDE DEF I
  <2> QED BY <1>1, <2>1, <2>2, Induction
<1>6. ASSUME NEW m \in 0..(e - 1), f[m] # 0 PROVE FALSE
  <2> DEFINE c == f[m]
             J == {k \in 0..n : k >= m => f[k] = c}
  <2>1. m \in 0..n /\ m < e
    BY <1>1, <1>3
  <2>2. c \in Nat /\ c > 0 /\ c <= m
    BY <2>1, <1>5, <1>6
  <2> HIDE DEF c
  <2>3. 0 \in J
    BY <1>1, <2>1 DEF c
  <2>4. \A k \in 0..n : k \in J /\ k < n => k + 1 \in J
    <3> SUFFICES ASSUME NEW k \in 0..n, k >= m => f[k] = c, k < n, k + 1 >= m PROVE f[k + 1] = c
      BY <1>1
    <3> DEFINE k1 == k + 1
    <3>1. k1 \in 1..n /\ k1 - 1 = k
      BY <1>1
    <3>2. f[k] > 0 => f[k1] = f[k]
      <4> HIDE DEF k1
      <4> QED BY <1>2, <3>1
    <3>3. CASE k >= m
      BY <2>2, <3>2, <3>3
    <3>4. CASE k1 = m
      BY <3>4 DEF c
    <3> QED BY <3>3, <3>4, <2>1, <1>1
  <2>5. \A k \in 0..n : k \in J
    <3> HIDE DEF J
    <3> QED BY <1>1, <2>3, <2>4, Induction
  <2>6. e \in 0..n /\ e >= m
    BY <1>1, <1>3, <2>1
  <2>7. f[e] = c
    BY <2>5, <2>6
  <2> QED BY <1>3, <2>1, <2>2, <2>7
<1>7. \A m \in 0..(e - 1) : f[m] = 0
  BY <1>6
<1>8. \A m \in 0..(e - 1) : m \in 0..n
  BY <1>1, <1>3
<1>9. n \in 0..n /\ n >= e
  BY <1>1, <1>3
<1>10. f[n] = e
  BY <1>5, <1>9
<1> QED BY <1>7, <1>8, <1>9, <1>10 DEF f, n

\* Before its bracket the walk finds nothing.
LEMMA IdleBefore ==
    ASSUME NEW t \in Seq(Reply!Tokens), NEW p \in Nat, p < Len(t), NEW w, w = Reply!Scan(t, p + 1)
    PROVE  \A m \in 0..p : w[m] = Out(0)
<1> DEFINE first == p + 1
           I == {m \in 0..p : w[m] = Out(0)}
<1>1. Len(t) \in Nat
  OBVIOUS
<1>2. w[0] = Out(0) /\ \A m \in 1..Len(t) : w[m] = Reply!Walked(w[m - 1], t, first, m)
  <2> HIDE DEF first
  <2>1. w = Reply!Scan(t, first)
    BY DEF first
  <2> QED BY <2>1, ScanIsLoop
<1>3. 0 \in I
  BY <1>2
<1>4. \A m \in 0..p : m \in I /\ m < p => m + 1 \in I
  <2> SUFFICES ASSUME NEW m \in 0..p, w[m] = Out(0), m < p PROVE w[m + 1] = Out(0)
    OBVIOUS
  <2> DEFINE k == m + 1
  <2>1. k \in 1..Len(t) /\ k - 1 = m /\ k < first
    BY <1>1
  <2>2. w[k] = Reply!Walked(w[m], t, first, k)
    <3> HIDE DEF k, first
    <3> QED BY <1>2, <2>1
  <2>3. Reply!Walked(w[m], t, first, k) = w[m]
    <3> HIDE DEF k, first
    <3> QED BY <2>1 DEF Reply!Walked
  <2> HIDE DEF k
  <2>4. w[k] = Out(0)
    BY <2>2, <2>3
  <2> QED BY <2>4 DEF k
<1>5. \A m \in 0..p : m \in I
  <2> HIDE DEF I
  <2> QED BY <1>3, <1>4, Induction
<1> QED BY <1>5

\* Two texts that begin alike are walked through alike.
LEMMA WalksAlike ==
    ASSUME NEW t \in Seq(Reply!Tokens), NEW u \in Seq(Reply!Tokens), NEW n \in Nat,
           n <= Len(t), n <= Len(u), \A i \in 1..n : t[i] = u[i], NEW first \in 1..n
    PROVE  \A m \in 0..n : Reply!Scan(t, first)[m] = Reply!Scan(u, first)[m]
<1> DEFINE v == Reply!Scan(t, first)
           w == Reply!Scan(u, first)
           I == {m \in 0..n : v[m] = w[m]}
<1>1. v[0] = Out(0) /\ \A m \in 1..Len(t) : v[m] = Reply!Walked(v[m - 1], t, first, m)
  <2> HIDE DEF v
  <2>1. v = Reply!Scan(t, first)
    BY DEF v
  <2> QED BY <2>1, ScanIsLoop
<1>2. w[0] = Out(0) /\ \A m \in 1..Len(u) : w[m] = Reply!Walked(w[m - 1], u, first, m)
  <2> HIDE DEF w
  <2>1. w = Reply!Scan(u, first)
    BY DEF w
  <2> QED BY <2>1, ScanIsLoop
<1> HIDE DEF v, w
<1>3. 0 \in I
  BY <1>1, <1>2
<1>4. \A m \in 0..n : m \in I /\ m < n => m + 1 \in I
  <2> SUFFICES ASSUME NEW m \in 0..n, v[m] = w[m], m < n PROVE v[m + 1] = w[m + 1]
    OBVIOUS
  <2> DEFINE k == m + 1
  <2>1. k \in 1..n /\ k - 1 = m /\ k \in 1..Len(t) /\ k \in 1..Len(u)
    OBVIOUS
  <2> HIDE DEF k
  <2>2. v[k] = Reply!Walked(v[m], t, first, k) /\ w[k] = Reply!Walked(w[m], u, first, k)
    BY <1>1, <1>2, <2>1
  <2>3. t[k] = u[k] /\ t[first] = u[first]
    BY <2>1
  <2>4. Reply!Walked(v[m], t, first, k) = Reply!Walked(v[m], u, first, k)
    BY <2>3, Zenon DEF Reply!Walked
  <2>5. v[k] = w[k]
    BY <2>2, <2>4
  <2> QED BY <2>5 DEF k
<1>5. \A m \in 0..n : m \in I
  <2> HIDE DEF I
  <2> QED BY <1>3, <1>4, Induction
<1> QED BY <1>5 DEF v, w

LEMMA FirstBracket ==
    ASSUME NEW t \in Seq(Reply!Tokens), NEW p \in Nat, \A i \in 1..p : t[i] \notin Reply!Opening,
           p + 1 \in 1..Len(t), t[p + 1] \in Reply!Opening
    PROVE  /\ Reply!Places(t, Reply!Opening) # {}
           /\ Reply!Least(Reply!Places(t, Reply!Opening)) = p + 1
<1> DEFINE first == p + 1
           places == Reply!Places(t, Reply!Opening)
<1>1. Len(t) \in Nat
  OBVIOUS
<1>5. places \in SUBSET Nat /\ first \in places /\ \A j \in places : first <= j
  <2>1. places = {i \in 1..Len(t) : t[i] \in Reply!Opening}
    BY DEF Reply!Places
  <2>2. \A j \in places : j \in Nat /\ j >= 1
    BY <2>1
  <2>3. first \in places
    <3>1. first \in 1..Len(t) /\ t[first] \in Reply!Opening
      OBVIOUS
    <3> HIDE DEF first
    <3> QED BY <2>1, <3>1
  <2> HIDE DEF first
  <2>4. ASSUME NEW j \in places PROVE first <= j
    <3>1. t[j] \in Reply!Opening /\ j \in 1..Len(t)
      BY <2>1
    <3>2. j \notin 1..p
      BY <3>1
    <3> QED BY <3>1, <3>2, <1>1 DEF first
  <2> QED BY <2>2, <2>3, <2>4
<1>6. Reply!Least(places) = first
  <2> HIDE DEF places, first
  <2> QED BY <1>5, LeastIs
<1> QED BY <1>5, <1>6

\* The first bracket and what the walk from it finds, where a value stands.
Found(t, p, text) ==
    /\ Reply!Places(t, Reply!Opening) # {}
    /\ Reply!Least(Reply!Places(t, Reply!Opening)) = p + 1
    /\ p + Len(text) \in 1..Len(t) /\ Len(text) \in Nat /\ Len(text) >= 1
    /\ Reply!Scan(t, p + 1)[p + Len(text)].end = p + Len(text)

LEMMA ValueWalked ==
    ASSUME NEW t \in Seq(Reply!Tokens), NEW p \in Nat, \A i \in 1..p : t[i] \notin Reply!Opening,
           NEW value, Reply!IsValue(value), NEW text, text = Reply!TextOf(value),
           StandsAt(t, p, text)
    PROVE  Found(t, p, text)
<1> DEFINE first == p + 1
           e == p + Len(text)
           w == Reply!Scan(t, first)
           places == Reply!Places(t, Reply!Opening)
<1>1. text \in Seq(Reply!Tokens) /\ text # <<>> /\ text[1] \in Reply!Opening
  BY ValueIsText
<1>2. Len(text) \in Nat /\ Len(text) >= 1 /\ Len(t) \in Nat
  BY <1>1
<1>3. e \in 1..Len(t) /\ first \in 1..Len(t) /\ p < Len(t)
  BY <1>2 DEF StandsAt
<1>4. t[first] \in Reply!Opening
  <2>1. 1 \in 1..Len(text)
    BY <1>2
  <2> QED BY <1>1, <2>1 DEF StandsAt
<1>6. places # {} /\ Reply!Least(places) = first
  BY <1>3, <1>4, FirstBracket
<1>7. w[p] = Out(0)
  <2>1. p \in 0..p
    OBVIOUS
  <2>2. w = Reply!Scan(t, p + 1)
    OBVIOUS
  <2> HIDE DEF w
  <2> QED BY <1>3, <2>1, <2>2, IdleBefore
<1>8. Reads(w, t, first)
  BY <1>3, <1>4 DEF Reads
<1>9. w[e].end = e
  <2> HIDE DEF w
  <2> QED BY <1>7, <1>8, ValueAt
<1> QED BY <1>2, <1>3, <1>6, <1>9 DEF Found

\* A value after whatever has no bracket is what is taken of a text.
LEMMA ValueIsBracketed ==
    ASSUME NEW t \in Seq(Reply!Tokens), NEW p \in Nat, \A i \in 1..p : t[i] \notin Reply!Opening,
           NEW value, Reply!IsValue(value), NEW text, text = Reply!TextOf(value),
           StandsAt(t, p, text)
    PROVE  Reply!Bracketed(t) = text
<1> DEFINE first == p + 1
           e == p + Len(text)
           w == Reply!Scan(t, first)
<1>1. /\ Reply!Places(t, Reply!Opening) # {}
      /\ Reply!Least(Reply!Places(t, Reply!Opening)) = first
      /\ e \in 1..Len(t) /\ Len(text) \in Nat
      /\ w[e].end = e
  <2>1. Found(t, p, text)
    BY ValueWalked
  <2> QED BY <2>1 DEF Found
<1>2. w[Len(t)].end = e
  <2>1. w = Reply!Scan(t, first)
    OBVIOUS
  <2> HIDE DEF w, first, e
  <2> QED BY <1>1, <2>1, EndIsOne
<1>3. SubSeq(t, first, e) = text
  <2>1. text \in Seq(Reply!Tokens)
    BY ValueIsText
  <2> QED BY <2>1, StandingIsSubSeq
<1>4. e > 0
  BY <1>1
<1> HIDE DEF w, e, first
<1>5. Reply!Bracketed(t) = IF w[Len(t)].end > 0 THEN SubSeq(t, first, w[Len(t)].end) ELSE t
  BY <1>1 DEF Reply!Bracketed, w
<1> QED BY <1>2, <1>3, <1>4, <1>5

\* c is a followed by b.
Joined(c, a, b, D) ==
    /\ c \in Seq(D) /\ Len(c) = Len(a) + Len(b) /\ Len(a) \in Nat /\ Len(b) \in Nat
    /\ \A i \in 1..Len(a) : c[i] = a[i]
    /\ \A i \in 1..Len(b) : c[Len(a) + i] = b[i]

LEMMA JoinedUp ==
    ASSUME NEW D, NEW a \in Seq(D), NEW b \in Seq(D), NEW c, c = a \o b
    PROVE  Joined(c, a, b, D)
<1>1. /\ a \o b \in Seq(D) /\ Len(a \o b) = Len(a) + Len(b)
      /\ Len(a) \in Nat /\ Len(b) \in Nat
      /\ \A i \in 1..Len(a) : (a \o b)[i] = a[i]
      /\ \A i \in 1..Len(b) : (a \o b)[Len(a) + i] = b[i]
  BY Concatenated
<1> QED BY <1>1 DEF Joined

\* The same of three.
Between(t, a, x, b, D) ==
    /\ t \in Seq(D) /\ Len(t) = Len(a) + Len(x) + Len(b)
    /\ Len(a) \in Nat /\ Len(x) \in Nat /\ Len(b) \in Nat
    /\ StandsAt(t, Len(a), x) /\ \A i \in 1..Len(a) : t[i] = a[i]
    /\ \A i \in 1..Len(b) : t[Len(a) + Len(x) + i] = b[i]

LEMMA PutTogether ==
    ASSUME NEW D, NEW a \in Seq(D), NEW x \in Seq(D), NEW b \in Seq(D),
           NEW t, t = a \o x \o b
    PROVE  Between(t, a, x, b, D)
<1> DEFINE y == a \o x
<1>1. Joined(y, a, x, D)
  <2>1. y = a \o x
    OBVIOUS
  <2> HIDE DEF y
  <2> QED BY <2>1, JoinedUp
<1>2. t = y \o b /\ y \in Seq(D)
  BY <1>1 DEF Joined
<1> HIDE DEF y
<1>3. Joined(t, y, b, D)
  BY <1>2, JoinedUp
<1>a. /\ Len(y) = Len(a) + Len(x) /\ Len(a) \in Nat /\ Len(x) \in Nat
      /\ \A i \in 1..Len(a) : y[i] = a[i]
      /\ \A i \in 1..Len(x) : y[Len(a) + i] = x[i]
  BY <1>1 DEF Joined
<1>b. /\ t \in Seq(D) /\ Len(t) = Len(y) + Len(b) /\ Len(b) \in Nat /\ Len(y) \in Nat
      /\ \A i \in 1..Len(y) : t[i] = y[i]
      /\ \A i \in 1..Len(b) : t[Len(y) + i] = b[i]
  BY <1>3 DEF Joined
<1>4. ASSUME NEW i \in 1..Len(a) PROVE t[i] = a[i]
  <2>1. i \in 1..Len(y)
    BY <1>a
  <2> QED BY <1>a, <1>b, <2>1
<1>5. ASSUME NEW i \in 1..Len(x) PROVE t[Len(a) + i] = x[i]
  <2>1. Len(a) + i \in 1..Len(y)
    BY <1>a
  <2> QED BY <1>a, <1>b, <2>1
<1>6. Len(a) + Len(x) <= Len(t)
  BY <1>a, <1>b
<1>7. \A i \in 1..Len(b) : t[Len(a) + Len(x) + i] = b[i]
  BY <1>a, <1>b
<1> QED BY <1>a, <1>b, <1>4, <1>5, <1>6, <1>7 DEF StandsAt, Between

LEMMA NoFence ==
    ASSUME NEW t \in Seq(Reply!Tokens), Reply!Fences(t) = {}
    PROVE  /\ \A i \in 1..Len(t) : t[i] # "fence"
           /\ Reply!RepairJson(t) = Reply!Checked(Reply!Mended(Reply!Bracketed(t)))
<1>1. \A i \in 1..Len(t) : t[i] # "fence"
  BY DEF Reply!Fences, Reply!Places
<1>2. ~\E i, j \in Reply!Fences(t) : i < j
  OBVIOUS
<1>3. Reply!RepairJson(t) = Reply!Checked(Reply!Mended(Reply!Bracketed(t)))
  BY <1>2 DEF Reply!RepairJson
<1> QED BY <1>1, <1>3

\* The text within the first two fences.
LEMMA FencedIsTaken ==
    ASSUME NEW before \in Seq(Reply!Tokens), NEW text \in Seq(Reply!Tokens),
           NEW after \in Seq(Reply!Tokens), Reply!Fences(before) = {}, Reply!Fences(text) = {},
           NEW t, t = before \o <<"fence">> \o text \o <<"fence">> \o after
    PROVE  Reply!RepairJson(t) = Reply!Checked(Reply!Mended(text))
<1> DEFINE D == Reply!Tokens
           a == before \o <<"fence">>
           y == a \o text \o <<"fence">>
           p == Len(before)
           n == Len(text)
           fences == Reply!Fences(t)
           i1 == p + 1
           i2 == p + n + 2
<1>1. <<"fence">> \in Seq(D)
  <2>1. "fence" \in Reply!Tokens
    BY DEF Reply!Tokens
  <2> QED BY <2>1
<1>2. /\ a \in Seq(D) /\ Len(a) = p + 1 /\ p \in Nat /\ a[p + 1] = "fence"
      /\ \A i \in 1..p : a[i] = before[i]
  <2> HIDE DEF D
  <2>1. Len(<<"fence">>) = 1 /\ <<"fence">>[1] = "fence" /\ 1 \in 1..1
    OBVIOUS
  <2> DEFINE f == <<"fence">>
  <2>2. f \in Seq(D) /\ Len(f) = 1 /\ f[1] = "fence" /\ before \in Seq(D)
    BY <1>1, <2>1 DEF D
  <2> HIDE DEF f
  <2>d. a = before \o f
    BY DEF f
  <2> HIDE DEF a
  <2>3. Joined(a, before, f, D)
    BY <2>2, <2>d, JoinedUp
  <2>4. /\ a \in Seq(D) /\ Len(a) = p + 1 /\ p \in Nat
        /\ \A i \in 1..p : a[i] = before[i]
        /\ \A i \in 1..1 : a[p + i] = f[i]
    BY <2>2, <2>3 DEF Joined
  <2> QED BY <2>1, <2>2, <2>4
<1> DEFINE f == <<"fence">>
<1>3. f \in Seq(D) /\ Len(f) = 1 /\ f[1] = "fence"
  BY <1>1
<1>4. t = y \o after /\ y = a \o text \o f
  OBVIOUS
<1> HIDE DEF a, y, f
<1>5. /\ y \in Seq(D) /\ Len(y) = p + n + 2 /\ n \in Nat
      /\ StandsAt(y, p + 1, text) /\ \A i \in 1..(p + 1) : y[i] = a[i] /\ y[p + n + 2] = "fence"
  <2>1. text \in Seq(D)
    OBVIOUS
  <2> HIDE DEF D
  <2>2. Between(y, a, text, f, D)
    BY <1>2, <1>3, <1>4, <2>1, PutTogether
  <2>3. /\ y \in Seq(D) /\ Len(y) = Len(a) + n + Len(f) /\ n \in Nat
        /\ StandsAt(y, Len(a), text) /\ \A i \in 1..Len(a) : y[i] = a[i]
        /\ \A i \in 1..Len(f) : y[Len(a) + n + i] = f[i]
    BY <2>2 DEF Between
  <2>4. Len(a) = p + 1 /\ Len(f) = 1 /\ 1 \in 1..1 /\ p \in Nat
    BY <1>2, <1>3
  <2> HIDE DEF n, p
  <2>5. Len(y) = p + n + 2 /\ (p + 1) + n + 1 = p + n + 2
    BY <2>3, <2>4
  <2>6. y[(p + 1) + n + 1] = f[1]
    BY <2>3, <2>4
  <2>7. StandsAt(y, p + 1, text) /\ \A i \in 1..(p + 1) : y[i] = a[i]
    BY <2>3, <2>4
  <2> QED BY <1>3, <2>3, <2>5, <2>6, <2>7
<1>e. /\ t \in Seq(D) /\ Len(t) \in Nat /\ Len(t) >= i2 /\ \A i \in 1..i2 : t[i] = y[i]
  <2>1. after \in Seq(D)
    OBVIOUS
  <2> HIDE DEF D
  <2>2. Joined(t, y, after, D)
    BY <1>4, <1>5, <2>1, JoinedUp
  <2>3. /\ t \in Seq(D) /\ Len(t) = Len(y) + Len(after) /\ Len(after) \in Nat
        /\ \A i \in 1..Len(y) : t[i] = y[i]
    BY <2>2 DEF Joined
  <2>4. Len(y) = i2 /\ i2 \in Nat
    BY <1>2, <1>5
  <2> HIDE DEF i2
  <2> QED BY <2>3, <2>4
<1>6. i1 < i2 /\ i1 \in 1..Len(t) /\ i2 \in 1..Len(t) /\ i1 \in 1..i2
  BY <1>2, <1>5, <1>e
<1>7. fences = {i \in 1..Len(t) : t[i] = "fence"}
  <2>1. DOMAIN t = 1..Len(t)
    BY <1>e
  <2> HIDE DEF D
  <2> QED BY <2>1 DEF Reply!Fences, Reply!Places
<1>8. ASSUME NEW i \in 1..p PROVE t[i] # "fence"
  <2>1. i \in 1..(p + 1) /\ i \in 1..i2
    BY <1>2, <1>5
  <2>2. before[i] # "fence"
    BY NoFence
  <2> QED BY <1>2, <1>5, <1>e, <2>1, <2>2
<1>9. t[i1] = "fence"
  <2>1. i1 \in 1..(p + 1)
    BY <1>2
  <2> QED BY <1>2, <1>5, <1>e, <1>6, <2>1
<1>10. t[i2] = "fence"
  <2>1. i2 \in 1..i2
    BY <1>6
  <2>2. t[i2] = y[i2]
    BY <1>e, <2>1
  <2> QED BY <1>5, <2>2
<1>11. ASSUME NEW i \in (i1 + 1)..(i2 - 1) PROVE t[i] # "fence"
  <2> DEFINE j == i - i1
  <2>1. j \in 1..n /\ i = (p + 1) + j /\ i \in 1..i2
    BY <1>2, <1>5
  <2>2. y[(p + 1) + j] = text[j]
    BY <1>5, <2>1 DEF StandsAt
  <2>3. text[j] # "fence"
    BY <2>1, NoFence
  <2>4. t[i] = y[i]
    BY <1>e, <2>1
  <2> HIDE DEF j
  <2> QED BY <2>1, <2>2, <2>3, <2>4
<1> HIDE DEF fences, n
<1>12. \A j \in fences : j \in Nat /\ (j = i1 \/ j >= i2)
  <2> SUFFICES ASSUME NEW j \in fences PROVE j \in Nat /\ (j = i1 \/ j >= i2)
    OBVIOUS
  <2>1. j \in 1..Len(t) /\ t[j] = "fence"
    BY <1>7
  <2>2. j \notin 1..p /\ j \notin (i1 + 1)..(i2 - 1)
    BY <1>8, <1>11, <2>1
  <2>3. p \in Nat /\ n \in Nat
    BY <1>2, <1>5
  <2> QED BY <2>1, <2>2, <2>3
<1>13. i1 \in fences /\ i2 \in fences /\ i1 \in Nat /\ i2 \in Nat
  <2>1. i1 \in Nat /\ i2 \in Nat
    BY <1>6
  <2> HIDE DEF i1, i2
  <2> QED BY <1>6, <1>7, <1>9, <1>10, <2>1
<1>14. Reply!Least(fences) = i1
  <2>1. fences \in SUBSET Nat /\ \A j \in fences : i1 <= j
    <3>1. \A j \in fences : j \in Nat
      BY <1>12
    <3>2. ASSUME NEW j \in fences PROVE i1 <= j
      <4>1. j \in Nat /\ (j = i1 \/ j >= i2) /\ i1 \in Nat /\ i2 \in Nat /\ i1 < i2
        BY <1>6, <1>12, <1>13
      <4> HIDE DEF i1, i2
      <4> QED BY <4>1
    <3> QED BY <3>1, <3>2
  <2> HIDE DEF i1, i2
  <2> QED BY <1>13, <2>1, LeastIs
<1>15. Reply!Least(fences \ {i1}) = i2
  <2> DEFINE S == fences \ {i1}
  <2>1. S \in SUBSET Nat /\ i2 \in S /\ \A j \in S : i2 <= j
    BY <1>6, <1>12, <1>13
  <2> HIDE DEF S, i2, i1
  <2>2. Reply!Least(S) = i2
    BY <2>1, LeastIs
  <2> QED BY <2>2 DEF S
<1>16. Reply!Fenced(t) = SubSeq(t, i1 + 1, i2 - 1)
  <2> HIDE DEF i1, i2
  <2> QED BY <1>14, <1>15 DEF Reply!Fenced, fences
<1>17. SubSeq(t, i1 + 1, i2 - 1) = text
  <2>1. i1 \in Nat /\ i2 - 1 = i1 + n /\ n \in Nat
    BY <1>2, <1>5
  <2>2. StandsAt(t, i1, text)
    <3>1. i1 + n <= Len(t)
      BY <1>5, <1>e, <1>6, <2>1
    <3>2. ASSUME NEW j \in 1..n PROVE t[i1 + j] = text[j]
      <4>1. i1 + j \in 1..i2
        BY <1>6, <2>1
      <4>2. t[i1 + j] = y[i1 + j]
        BY <1>e, <4>1
      <4>3. y[(p + 1) + j] = text[j]
        BY <1>5 DEF StandsAt, n
      <4> QED BY <4>2, <4>3
    <3> QED BY <3>1, <3>2 DEF StandsAt, n
  <2> HIDE DEF i1, i2
  <2>3. SubSeq(t, i1 + 1, i1 + Len(text)) = text
    BY <1>e, <2>1, <2>2, StandingIsSubSeq
  <2> QED BY <2>1, <2>3 DEF n
<1>18. \E i, j \in Reply!Fences(t) : i < j
  BY <1>6, <1>13 DEF fences
<1> QED BY <1>16, <1>17, <1>18 DEF Reply!RepairJson

\* The walk through a value ends with it, and the first fences are those around it.
LEMMA AllIsFound ==
    ASSUME NEW before \in Seq(Reply!Tokens), NEW after \in Seq(Reply!Tokens),
           NEW value, Reply!IsValue(value)
    PROVE  Reply!ValueIsFound(before, value, after)
<1> DEFINE text == Reply!TextOf(value)
           bare == before \o text \o after
           fenced == before \o <<"fence">> \o text \o <<"fence">> \o after
<1>1. text \in Seq(Reply!Tokens)
  BY ValueIsText
<1>2. ASSUME Reply!Mended(text) \in JsonTexts
      PROVE  Reply!Checked(Reply!Mended(text)) = Reply!Mended(text)
  BY <1>2 DEF Reply!Checked
<1>3. ASSUME Reply!Fences(bare) = {}, Reply!Places(before, Reply!Opening) = {}
      PROVE  Reply!RepairJson(bare) = Reply!Checked(Reply!Mended(text))
  <2> DEFINE t == bare
             x == text
             p == Len(before)
  <2>0. t = before \o x \o after /\ x \in Seq(Reply!Tokens) /\ x = Reply!TextOf(value)
    BY <1>1
  <2> HIDE DEF t, x
  <2>1. /\ t \in Seq(Reply!Tokens) /\ p \in Nat /\ StandsAt(t, p, x)
        /\ \A i \in 1..p : t[i] = before[i]
    <3> HIDE DEF p
    <3>1. Between(t, before, x, after, Reply!Tokens)
      BY <2>0, PutTogether
    <3> QED BY <3>1 DEF Between, p
  <2>2. \A i \in 1..p : before[i] \notin Reply!Opening
    BY <1>3 DEF Reply!Places
  <2>3. \A i \in 1..p : t[i] \notin Reply!Opening
    BY <2>1, <2>2
  <2>4. Reply!Bracketed(t) = x
    BY <2>0, <2>1, <2>3, ValueIsBracketed
  <2>5. Reply!RepairJson(t) = Reply!Checked(Reply!Mended(Reply!Bracketed(t)))
    <3>1. Reply!Fences(t) = {}
      BY <1>3 DEF t
    <3> QED BY <2>1, <3>1, NoFence
  <2> QED BY <2>4, <2>5 DEF t, x
<1>4. ASSUME Reply!Fences(text) = {}, Reply!Fences(before) = {}
      PROVE  Reply!RepairJson(fenced) = Reply!Checked(Reply!Mended(text))
  <2> DEFINE t == fenced
             x == text
  <2>0. t = before \o <<"fence">> \o x \o <<"fence">> \o after /\ x \in Seq(Reply!Tokens)
        /\ Reply!Fences(x) = {}
    BY <1>1, <1>4
  <2> HIDE DEF t, x
  <2>1. Reply!RepairJson(t) = Reply!Checked(Reply!Mended(x))
    BY <1>4, <2>0, FencedIsTaken
  <2> QED BY <2>1 DEF t, x
<1> QED BY <1>2, <1>3, <1>4 DEF Reply!ValueIsFound

-----------------------------------------------------------------------------
(* What is mended. *)

LEMMA LiteralToken ==
    ASSUME NEW c \in Reply!Tokens
    PROVE  /\ Reply!Literal(c) \in Reply!Tokens
           /\ \A x \in {"{", "}", "[", "]", "quote", "escape"} : (Reply!Literal(c) = x) = (c = x)
<1>1. "true" \in Reply!Tokens
  BY DEF Reply!Tokens
<1>2. CASE c = "True"
  BY <1>1, <1>2 DEF Reply!Literal
<1>3. CASE c # "True"
  BY <1>3 DEF Reply!Literal
<1> QED BY <1>2, <1>3

LEMMA MendingIsLoop ==
    ASSUME NEW t \in Seq(Reply!Tokens),
           NEW w, w = Reply!Mending(t)
    PROVE  /\ w[0] = <<>>
           /\ \A m \in 1..Len(t) : w[m] = IF Reply!Trailing(t, m) THEN w[m - 1] ELSE Append(w[m - 1], Reply!Literal(t[m]))
           /\ w \in [0..Len(t) -> Seq(Reply!Tokens)]
<1> DEFINE n == Len(t)
           S == Seq(Reply!Tokens)
           a == <<>>
           Round(m, s) == IF Reply!Trailing(t, m) THEN s ELSE Append(s, Reply!Literal(t[m]))
           Body(f) == [m \in 0..n |-> IF m = 0 THEN a ELSE Round(m, f[m - 1])]
           step == [m \in 1..n |-> [s \in S |-> Round(m, s)]]
<1>1. w = CHOOSE f : f = Body(f)
  BY DEF Reply!Mending
<1>2. n \in Nat /\ a \in S
  OBVIOUS
<1>3. ASSUME NEW m \in 1..n, NEW s \in S PROVE Round(m, s) \in S
  <2>1. Reply!Literal(t[m]) \in Reply!Tokens
    <3>1. t[m] \in Reply!Tokens
      OBVIOUS
    <3> QED BY <3>1, LiteralToken
  <2> QED BY <2>1
<1>4. step \in Loops(n, S)
  <2> HIDE DEF n, S, Round
  <2> QED BY <1>3 DEF Loops
<1>5. PICK g : IsLoop(g, n, S, a, step)
  <2> HIDE DEF n, S, a, step
  <2> QED BY <1>2, <1>4, LoopExists
<1>6. g = Body(g)
  <2> HIDE DEF n, S, a, Round
  <2>1. g \in [0..n -> S] /\ g[0] = a /\ \A m \in 1..n : g[m] = step[m][g[m - 1]]
    BY <1>5 DEF IsLoop
  <2>2. \A m \in 1..n : g[m - 1] \in S
    BY <2>1, <1>2
  <2>3. \A m \in 1..n : g[m] = Round(m, g[m - 1])
    BY <2>1, <2>2
  <2> QED BY <2>1, <2>3, <1>2
<1>7. w = Body(w)
  <2> HIDE DEF Body
  <2> QED BY <1>1, <1>6
<1>8. w[0] = a /\ \A m \in 1..n : w[m] = Round(m, w[m - 1])
  <2> HIDE DEF a, n, Round
  <2> QED BY <1>2, <1>7
<1>9. \A m \in 0..n : w[m] \in S
  <2> HIDE DEF n, S, a, Round
  <2> QED BY <1>2, <1>3, <1>8, LoopIn
<1>10. w \in [0..n -> S]
  <2> HIDE DEF n, S, a, Round
  <2> QED BY <1>7, <1>9
<1> QED BY <1>8, <1>9, <1>10

\* What is kept of a token.
MendedParts(t) == [m \in 1..Len(t) |-> IF Reply!Trailing(t, m) THEN <<>> ELSE <<Reply!Literal(t[m])>>]

LEMMA MendedIsKept ==
    ASSUME NEW t \in Seq(Reply!Tokens), NEW g, g = Reply!Mending(t), NEW u, u = Reply!Mended(t)
    PROVE  Flattening(g, MendedParts(t), u, Reply!Tokens) /\ Len(MendedParts(t)) = Len(t)
<1> DEFINE n == Len(t)
           parts == MendedParts(t)
           S == Seq(Reply!Tokens)
<1>1. n \in Nat /\ \A m \in 1..n : t[m] \in Reply!Tokens
  OBVIOUS
<1>2. \A m \in 1..n : parts[m] = IF Reply!Trailing(t, m) THEN <<>> ELSE <<Reply!Literal(t[m])>>
  BY DEF MendedParts
<1>3. \A m \in 1..n : parts[m] \in S
  <2> SUFFICES ASSUME NEW m \in 1..n PROVE parts[m] \in S
    OBVIOUS
  <2>1. Reply!Literal(t[m]) \in Reply!Tokens
    BY <1>1, LiteralToken
  <2>2. <<>> \in S /\ <<Reply!Literal(t[m])>> \in S
    BY <2>1
  <2> HIDE DEF parts, S
  <2> QED BY <1>2, <2>2
<1>4. parts \in Seq(S) /\ Len(parts) = n
  <2>1. parts = [m \in 1..n |-> IF Reply!Trailing(t, m) THEN <<>> ELSE <<Reply!Literal(t[m])>>]
    BY DEF MendedParts
  <2> HIDE DEF parts, S, n
  <2>2. DOMAIN parts = 1..n /\ parts \in [1..n -> S]
    BY <1>3, <2>1
  <2> QED BY <1>1, <2>2
<1>5. /\ g[0] = <<>>
      /\ \A m \in 1..n : g[m] = IF Reply!Trailing(t, m) THEN g[m - 1]
                                 ELSE Append(g[m - 1], Reply!Literal(t[m]))
      /\ g \in [0..n -> S]
  BY MendingIsLoop
<1>6. ASSUME NEW m \in 1..n PROVE g[m] = g[m - 1] \o parts[m]
  <2>1. m - 1 \in 0..n /\ g[m - 1] \in S
    <3>1. m - 1 \in 0..n
      BY <1>1
    <3> HIDE DEF S, n
    <3> QED BY <1>5, <3>1
  <2>2. Reply!Literal(t[m]) \in Reply!Tokens
    BY <1>1, LiteralToken
  <2> DEFINE a == g[m - 1]
             c == Reply!Literal(t[m])
  <2>3. a \in Seq(Reply!Tokens) /\ c \in Reply!Tokens
    BY <2>1, <2>2
  <2> HIDE DEF a, c
  <2>4. a \o <<>> = a /\ a \o <<c>> = Append(a, c)
    BY <2>3
  <2> HIDE DEF S, n, parts
  <2>5. CASE Reply!Trailing(t, m)
    BY <1>2, <1>5, <2>4, <2>5 DEF a
  <2>6. CASE ~Reply!Trailing(t, m)
    BY <1>2, <1>5, <2>4, <2>6 DEF a, c
  <2> QED BY <2>5, <2>6
<1>8. u = g[n]
  BY DEF Reply!Mended
<1> HIDE DEF parts, n, S
<1> QED BY <1>1, <1>4, <1>5, <1>6, <1>8 DEF Flattening, S, n, parts

\* One token further: it is dropped, or its literal is what comes next.
Mends(g, t, u, m) ==
    /\ Len(g[m]) \in Nat /\ Len(g[m + 1]) \in Nat /\ Len(g[m + 1]) <= Len(u)
    /\ Reply!Trailing(t, m + 1) => Len(g[m + 1]) = Len(g[m])
    /\ ~Reply!Trailing(t, m + 1) =>
          Len(g[m + 1]) = Len(g[m]) + 1 /\ u[Len(g[m]) + 1] = Reply!Literal(t[m + 1])

LEMMA MendedStep ==
    ASSUME NEW t \in Seq(Reply!Tokens), NEW g, g = Reply!Mending(t), NEW u, u = Reply!Mended(t),
           NEW m \in 0..Len(t), m < Len(t)
    PROVE  Mends(g, t, u, m)
<1> DEFINE parts == MendedParts(t)
           x == parts[m + 1]
<1>1. Flattening(g, parts, u, Reply!Tokens) /\ Len(parts) = Len(t)
  BY MendedIsKept
<1> HIDE DEF parts
<1>2. Follows(g, parts, u, Reply!Tokens, m)
  <2>1. m \in 0..Len(parts) /\ m < Len(parts)
    BY <1>1
  <2> QED BY <1>1, <2>1, PartsFollow
<1>3. /\ Len(g[m]) \in Nat /\ Len(x) \in Nat /\ Len(g[m + 1]) = Len(g[m]) + Len(x)
      /\ Len(g[m]) + Len(x) <= Len(u)
      /\ \A j \in 1..Len(x) : u[Len(g[m]) + j] = x[j]
  BY <1>2 DEF Follows
<1>4. x = IF Reply!Trailing(t, m + 1) THEN <<>> ELSE <<Reply!Literal(t[m + 1])>>
  <2> DEFINE k == m + 1
  <2>1. k \in 1..Len(t)
    OBVIOUS
  <2> HIDE DEF k
  <2>2. parts[k] = IF Reply!Trailing(t, k) THEN <<>> ELSE <<Reply!Literal(t[k])>>
    BY <2>1 DEF parts, MendedParts
  <2> QED BY <2>2 DEF k
<1> HIDE DEF x
<1>5. CASE Reply!Trailing(t, m + 1)
  <2>1. Len(x) = 0
    BY <1>4, <1>5
  <2> QED BY <1>3, <1>5, <2>1 DEF Mends
<1>6. CASE ~Reply!Trailing(t, m + 1)
  <2> DEFINE c == Reply!Literal(t[m + 1])
  <2>1. x = <<c>>
    BY <1>4, <1>6
  <2> HIDE DEF c
  <2>2. Len(x) = 1 /\ x[1] = c /\ 1 \in 1..Len(x)
    BY <2>1
  <2>3. u[Len(g[m]) + 1] = c
    BY <1>3, <2>2
  <2> QED BY <1>3, <1>6, <2>2, <2>3 DEF Mends, c
<1> QED BY <1>5, <1>6

\* Nothing else has become a mark than was one.
Special == {"{", "}", "[", "]", "quote", "escape"}

LEMMA MendedPreamble ==
    ASSUME NEW t \in Seq(Reply!Tokens), NEW g, g = Reply!Mending(t), NEW u, u = Reply!Mended(t),
           NEW p \in Nat, p < Len(t), NEW bad \in SUBSET Special, \A i \in 1..p : t[i] \notin bad
    PROVE  /\ Len(g[p]) \in Nat /\ Len(g[0]) = 0
           /\ \A j \in 1..Len(g[p]) : u[j] \notin bad
<1> DEFINE n == p
           I == {m \in 0..p : Len(g[m]) \in Nat /\ \A j \in 1..Len(g[m]) : u[j] \notin bad}
<1>0. Len(t) \in Nat
  OBVIOUS
<1>1. Len(g[0]) = 0
  <2>1. g[0] = <<>>
    BY MendingIsLoop
  <2> QED BY <2>1
<1>2. 0 \in I
  BY <1>1
<1>3. \A m \in 0..p : m \in I /\ m < p => m + 1 \in I
  <2> SUFFICES ASSUME NEW m \in 0..p, m \in I, m < p PROVE m + 1 \in I
    OBVIOUS
  <2> DEFINE a == Len(g[m])
             b == Len(g[m + 1])
  <2>1. m \in 0..Len(t) /\ m < Len(t) /\ m + 1 \in 1..p /\ m + 1 \in 1..Len(t) /\ m + 1 \in 0..p
    BY <1>0
  <2>2. Mends(g, t, u, m)
    BY <2>1, MendedStep
  <2>3. /\ a \in Nat /\ b \in Nat
        /\ Reply!Trailing(t, m + 1) => b = a
        /\ ~Reply!Trailing(t, m + 1) => b = a + 1 /\ u[a + 1] = Reply!Literal(t[m + 1])
    BY <2>2 DEF Mends
  <2>4. \A j \in 1..a : u[j] \notin bad
    OBVIOUS
  <2>5. Reply!Literal(t[m + 1]) \notin bad
    <3> DEFINE c == t[m + 1]
    <3>1. c \in Reply!Tokens /\ c \notin bad
      BY <2>1
    <3> HIDE DEF c
    <3>2. \A x \in Special : (Reply!Literal(c) = x) = (c = x)
      BY <3>1, LiteralToken DEF Special
    <3>3. Reply!Literal(c) \notin bad
      BY <3>1, <3>2
    <3> QED BY <3>3 DEF c
  <2> HIDE DEF a, b
  <2>6. ASSUME NEW j \in 1..b PROVE u[j] \notin bad
    <3>1. j \in 1..a \/ (j = a + 1 /\ ~Reply!Trailing(t, m + 1))
      BY <2>3
    <3> QED BY <2>3, <2>4, <2>5, <3>1
  <2> QED BY <2>1, <2>3, <2>6 DEF b
<1>4. \A m \in 0..p : m \in I
  <2> HIDE DEF I
  <2> QED BY <1>2, <1>3, Induction
<1>5. p \in 0..p
  OBVIOUS
<1> QED BY <1>1, <1>4, <1>5

\* The walk through a text that is not at its end, s, and through what is made of it, z: the
\* same, but for an escape whose comma was dropped.
Alike(s, z, dropped) ==
    \E d \in Int :
        \/ s = z /\ s \in {Out(d), In(d), Escaped(d)}
        \/ dropped /\ s = In(d) /\ z = Escaped(d)

\* One step of both.
LEMMA BothStep ==
    ASSUME NEW v, NEW t, NEW first, Reads(v, t, first), NEW i \in Nat, first <= i + 1, i + 1 <= Len(t),
           NEW z, NEW u, Reads(z, u, 1), NEW q \in Nat, q + 1 <= Len(u), u[1] = t[first],
           u[q + 1] = Reply!Literal(t[i + 1]), v[i + 1].end = 0,
           NEW d \in Int, v[i] = z[q], v[i] \in {Out(d), In(d), Escaped(d)}
    PROVE  Alike(v[i + 1], z[q + 1], FALSE)
<1> DEFINE k == t[first]
           c == t[i + 1]
           c1 == u[q + 1]
           s1 == v[i + 1]
           z1 == z[q + 1]
<1>1. c \in Reply!Tokens /\ k \in Reply!Opening
  <2>1. t \in Seq(Reply!Tokens) /\ k \in Reply!Opening
    BY DEF Reads
  <2>2. i + 1 \in 1..Len(t)
    OBVIOUS
  <2> QED BY <2>1, <2>2
<1>2. /\ (c1 = k) = (c = k) /\ (c1 = Reply!Closing(k)) = (c = Reply!Closing(k))
      /\ (c1 = "quote") = (c = "quote") /\ (c1 = "escape") = (c = "escape")
  <2>1. \A x \in Special : (Reply!Literal(c) = x) = (c = x)
    <3> HIDE DEF c, k
    <3> QED BY <1>1, LiteralToken DEF Special
  <2>2. c1 = Reply!Literal(c)
    OBVIOUS
  <2> HIDE DEF c, c1, k
  <2>3. \A x \in Special : (c1 = x) = (c = x)
    BY <2>1, <2>2
  <2>4. k \in Special /\ Reply!Closing(k) \in Special /\ "quote" \in Special /\ "escape" \in Special
    BY <1>1 DEF Reply!Opening, Reply!Closing, Special
  <2> QED BY <2>3, <2>4
<1>n. 1 <= q + 1 /\ first \in Nat
  BY DEF Reads
<1>o. d + 1 \in Int /\ d - 1 \in Int
  OBVIOUS
<1>3. CASE v[i] = Out(d)
  <2>1. /\ c = k => s1 = Out(d + 1)
        /\ c = Reply!Closing(k) /\ d = 1 => s1.end = i + 1
        /\ c = Reply!Closing(k) /\ d # 1 => s1 = Out(d - 1)
        /\ c = "quote" => s1 = In(d)
        /\ c \notin {k, Reply!Closing(k), "quote"} => s1 = Out(d)
    BY <1>3, StepOut
  <2>2. /\ c1 = k => z1 = Out(d + 1)
        /\ c1 = Reply!Closing(k) /\ d # 1 => z1 = Out(d - 1)
        /\ c1 = "quote" => z1 = In(d)
        /\ c1 \notin {k, Reply!Closing(k), "quote"} => z1 = Out(d)
    <3>1. z[q] = Out(d) /\ 1 \in Nat
      BY <1>3
    <3>2. LET k1 == u[1]
          IN  /\ c1 = k1 => z1 = Out(d + 1)
              /\ c1 = Reply!Closing(k1) /\ d = 1 => z1.end = q + 1
              /\ c1 = Reply!Closing(k1) /\ d # 1 => z1 = Out(d - 1)
              /\ c1 = "quote" => z1 = In(d)
              /\ c1 \notin {k1, Reply!Closing(k1), "quote"} => z1 = Out(d)
      BY <1>n, <3>1, StepOut
    <3> QED BY <3>2
  <2>3. ~(c = Reply!Closing(k) /\ d = 1)
    <3> SUFFICES ASSUME c = Reply!Closing(k), d = 1 PROVE FALSE
      OBVIOUS
    <3>1. s1.end = i + 1 /\ s1.end = 0
      BY <2>1
    <3> QED BY <3>1
  <2> HIDE DEF s1, z1, c, c1, k
  <2>4. CASE c = k
    <3>1. s1 = Out(d + 1) /\ z1 = Out(d + 1)
      BY <1>2, <2>1, <2>2, <2>4
    <3> QED BY <1>o, <3>1 DEF Alike, s1, z1
  <2>5. CASE c = Reply!Closing(k)
    <3>1. s1 = Out(d - 1) /\ z1 = Out(d - 1)
      BY <1>2, <2>1, <2>2, <2>3, <2>5
    <3> QED BY <1>o, <3>1 DEF Alike, s1, z1
  <2>6. CASE c = "quote"
    <3>1. s1 = In(d) /\ z1 = In(d)
      BY <1>2, <2>1, <2>2, <2>6
    <3> QED BY <3>1 DEF Alike, s1, z1
  <2>7. CASE c \notin {k, Reply!Closing(k), "quote"}
    <3>1. s1 = Out(d) /\ z1 = Out(d)
      BY <1>2, <2>1, <2>2, <2>7
    <3> QED BY <3>1 DEF Alike, s1, z1
  <2> QED BY <2>4, <2>5, <2>6, <2>7
<1>4. CASE v[i] = In(d)
  <2>1. /\ c = "escape" => s1 = Escaped(d)
        /\ c = "quote" => s1 = Out(d)
        /\ c \notin {"escape", "quote"} => s1 = In(d)
    BY <1>4, StepIn
  <2>2. /\ c1 = "escape" => z1 = Escaped(d)
        /\ c1 = "quote" => z1 = Out(d)
        /\ c1 \notin {"escape", "quote"} => z1 = In(d)
    <3>1. z[q] = In(d) /\ 1 \in Nat
      BY <1>4
    <3> QED BY <1>n, <3>1, StepIn
  <2> HIDE DEF s1, z1, c, c1, k
  <2>4. CASE c = "escape"
    <3>1. s1 = Escaped(d) /\ z1 = Escaped(d)
      BY <1>2, <2>1, <2>2, <2>4
    <3> QED BY <3>1 DEF Alike, s1, z1
  <2>6. CASE c = "quote"
    <3>1. s1 = Out(d) /\ z1 = Out(d)
      BY <1>2, <2>1, <2>2, <2>6
    <3> QED BY <3>1 DEF Alike, s1, z1
  <2>7. CASE c \notin {"escape", "quote"}
    <3>1. s1 = In(d) /\ z1 = In(d)
      BY <1>2, <2>1, <2>2, <2>7
    <3> QED BY <3>1 DEF Alike, s1, z1
  <2> QED BY <2>4, <2>6, <2>7
<1>5. CASE v[i] = Escaped(d)
  <2>1. s1 = In(d)
    BY <1>5, StepEscaped
  <2>2. z1 = In(d)
    <3>1. z[q] = Escaped(d) /\ 1 \in Nat
      BY <1>5
    <3> QED BY <1>n, <3>1, StepEscaped
  <2> HIDE DEF s1, z1, c, c1, k
  <2> QED BY <2>1, <2>2 DEF Alike, s1, z1
<1> QED BY <1>3, <1>4, <1>5

\* One token further, whether it is kept or dropped.
LEMMA AlikeStep ==
    ASSUME NEW v, NEW t, NEW first, Reads(v, t, first), NEW g, g = Reply!Mending(t),
           NEW z, NEW u, u = Reply!Mended(t), Reads(z, u, 1), u[1] = t[first],
           NEW i \in Nat, first <= i + 1, i < Len(t), v[i + 1].end = 0,
           Alike(v[i], z[Len(g[i])], Reply!Trailing(t, i))
    PROVE  Alike(v[i + 1], z[Len(g[i + 1])], Reply!Trailing(t, i + 1))
<1> DEFINE k == t[first]
           c == t[i + 1]
           q == Len(g[i])
           j == i + 1
<1>0. /\ t \in Seq(Reply!Tokens) /\ Len(t) \in Nat /\ k \in Reply!Opening
      /\ i \in 0..Len(t) /\ j \in 1..Len(t) /\ c \in Reply!Tokens /\ first <= j /\ j <= Len(t)
  <2>1. t \in Seq(Reply!Tokens) /\ k \in Reply!Opening
    BY DEF Reads
  <2>2. Len(t) \in Nat
    BY <2>1
  <2>3. i \in 0..Len(t) /\ j \in 1..Len(t) /\ j <= Len(t)
    BY <2>2
  <2> QED BY <2>1, <2>2, <2>3
<1>1. Mends(g, t, u, i)
  BY <1>0, MendedStep
<1>2. /\ q \in Nat /\ Len(g[j]) \in Nat /\ Len(g[j]) <= Len(u)
      /\ Reply!Trailing(t, j) => Len(g[j]) = q
      /\ ~Reply!Trailing(t, j) => Len(g[j]) = q + 1 /\ u[q + 1] = Reply!Literal(c)
  BY <1>1 DEF Mends
<1>3. PICK d \in Int : \/ v[i] = z[q] /\ v[i] \in {Out(d), In(d), Escaped(d)}
                       \/ Reply!Trailing(t, i) /\ v[i] = In(d) /\ z[q] = Escaped(d)
  BY DEF Alike
\* After a comma that was dropped comes a bracket.
<1>4. Reply!Trailing(t, i) => c \in {"}", "]"}
  BY DEF Reply!Trailing
<1>5. CASE Reply!Trailing(t, j)
  <2>1. c = "comma"
    BY <1>5 DEF Reply!Trailing
  <2>2. ~Reply!Trailing(t, i)
    BY <1>4, <2>1
  <2>3. v[i] = z[q] /\ v[i] \in {Out(d), In(d), Escaped(d)}
    BY <1>3, <2>2
  <2>4. c \notin {k, Reply!Closing(k), "quote", "escape"}
    BY <1>0, <2>1 DEF Reply!Opening, Reply!Closing
  <2>5. z[Len(g[j])] = z[q]
    BY <1>2, <1>5
  <2>6. CASE v[i] = Out(d)
    <3>1. c \notin {k, Reply!Closing(k), "quote"} => v[j] = Out(d)
      BY <1>0, <2>6, StepOut
    <3>2. v[j] = Out(d)
      BY <2>4, <3>1
    <3> HIDE DEF j, q
    <3> QED BY <2>3, <2>5, <2>6, <3>2 DEF Alike, j
  <2>7. CASE v[i] = In(d)
    <3>1. c \notin {"escape", "quote"} => v[j] = In(d)
      BY <1>0, <2>7, StepIn
    <3>2. v[j] = In(d)
      BY <2>4, <3>1
    <3> HIDE DEF j, q
    <3> QED BY <2>3, <2>5, <2>7, <3>2 DEF Alike, j
  <2>8. CASE v[i] = Escaped(d)
    <3>1. v[j] = In(d)
      BY <1>0, <2>8, StepEscaped
    <3>2. z[Len(g[j])] = Escaped(d)
      BY <2>3, <2>5, <2>8
    <3> HIDE DEF j, q
    <3> QED BY <1>5, <3>1, <3>2 DEF Alike, j
  <2> QED BY <2>3, <2>6, <2>7, <2>8
<1>6. CASE ~Reply!Trailing(t, j)
  <2>1. Len(g[j]) = q + 1 /\ u[q + 1] = Reply!Literal(c) /\ q + 1 <= Len(u)
    BY <1>2, <1>6
  <2>2. CASE v[i] = z[q] /\ v[i] \in {Out(d), In(d), Escaped(d)}
    <3>1. Alike(v[i + 1], z[q + 1], FALSE)
      <4> HIDE DEF q
      <4>1. q \in Nat /\ q + 1 <= Len(u) /\ u[q + 1] = Reply!Literal(t[i + 1]) /\ i + 1 <= Len(t)
            /\ v[i] = z[q] /\ v[i] \in {Out(d), In(d), Escaped(d)}
        BY <1>0, <1>2, <2>1, <2>2
      <4> HIDE DEF c, k, j
      <4> QED BY <4>1, BothStep
    <3>3. Alike(v[j], z[q + 1], Reply!Trailing(t, j))
      <4> HIDE DEF q
      <4> QED BY <3>1, <1>6 DEF Alike
    <3> HIDE DEF q, j
    <3> QED BY <2>1, <3>3 DEF j
  <2>3. CASE Reply!Trailing(t, i) /\ v[i] = In(d) /\ z[q] = Escaped(d)
    <3>1. c \notin {"escape", "quote"}
      BY <1>4, <2>3
    <3>2. v[j] = In(d)
      <4>1. c \notin {"escape", "quote"} => v[j] = In(d)
        BY <1>0, <2>3, StepIn
      <4> QED BY <3>1, <4>1
    <3>3. z[q + 1] = In(d)
      <4>1. z[q] = Escaped(d) /\ q \in Nat /\ q + 1 <= Len(u) /\ 1 <= q + 1
        BY <1>2, <2>1, <2>3
      <4> HIDE DEF q
      <4> QED BY <4>1, StepEscaped
    <3> HIDE DEF q, j
    <3>4. z[Len(g[j])] = In(d)
      BY <2>1, <3>3
    <3> QED BY <3>2, <3>4 DEF Alike, j
  <2> QED BY <1>3, <2>2, <2>3
<1> QED BY <1>5, <1>6

\* So a text that the walk finds no end of is no value when it is mended.
LEMMA NoValueIsMended ==
    ASSUME NEW t \in Seq(Reply!Tokens), NEW p \in Nat, p < Len(t),
           \A i \in 1..p : t[i] \notin Reply!Opening \cup {"quote"}, t[p + 1] \in Reply!Opening,
           \A i \in 0..Len(t) : Reply!Scan(t, p + 1)[i].end = 0
    PROVE  Reply!Mended(t) \notin JsonTexts
<1> DEFINE n == Len(t)
           first == p + 1
           v == Reply!Scan(t, first)
           g == Reply!Mending(t)
           u == Reply!Mended(t)
           z == Reply!Scan(u, 1)
           q == Len(g[p])
<1>0. n \in Nat /\ first \in 1..n /\ p \in 0..n /\ t[first] \in Reply!Opening
  OBVIOUS
<1>d. v = Reply!Scan(t, first) /\ g = Reply!Mending(t) /\ u = Reply!Mended(t) /\ z = Reply!Scan(u, 1)
      /\ u = g[n]
  BY DEF Reply!Mended
<1>e. \A i \in 0..n : v[i].end = 0
  OBVIOUS
<1> HIDE DEF v, g, u, z
<1>1. u \in Seq(Reply!Tokens)
  <2>1. Flattening(g, MendedParts(t), u, Reply!Tokens)
    BY <1>d, MendedIsKept
  <2>2. InPlace(g, MendedParts(t), u, Reply!Tokens)
    BY <2>1, PartsAreInPlace
  <2> QED BY <2>2 DEF InPlace
<1>2. q \in Nat /\ Len(g[0]) = 0 /\ \A j \in 1..q : u[j] \notin Reply!Opening \cup {"quote"}
  <2> DEFINE bad == Reply!Opening \cup {"quote"}
  <2>1. bad \in SUBSET Special
    BY DEF Special, Reply!Opening
  <2>2. \A i \in 1..p : t[i] \notin bad
    OBVIOUS
  <2> HIDE DEF bad
  <2>3. Len(g[p]) \in Nat /\ Len(g[0]) = 0 /\ \A j \in 1..Len(g[p]) : u[j] \notin bad
    BY <1>d, <2>1, <2>2, MendedPreamble
  <2> QED BY <2>3 DEF bad
<1>3. ~Reply!Trailing(t, first)
  <2>1. t[first] # "comma"
    BY <1>0 DEF Reply!Opening
  <2> QED BY <2>1 DEF Reply!Trailing
<1>4. q + 1 <= Len(u) /\ u[q + 1] = t[first] /\ Len(u) \in Nat
  <2>1. Mends(g, t, u, p)
    BY <1>0, <1>d, MendedStep
  <2>2. Len(g[p + 1]) = q + 1 /\ u[q + 1] = Reply!Literal(t[p + 1]) /\ Len(g[p + 1]) <= Len(u)
    BY <1>3, <2>1 DEF Mends
  <2>3. Reply!Literal(t[first]) = t[first]
    BY <1>0 DEF Reply!Literal, Reply!Opening
  <2> QED BY <1>1, <2>2, <2>3
<1>5. ASSUME Reply!IsScalar(u) PROVE FALSE
  <2>1. q + 1 \in Reply!Places(u, Reply!Opening)
    <3>1. q + 1 \in 1..Len(u) /\ u[q + 1] \in Reply!Opening
      BY <1>0, <1>2, <1>4
    <3> QED BY <1>1, <3>1 DEF Reply!Places
  <2>2. \E j \in 1..((q + 1) - 1) : u[j] = "quote"
    BY <1>5, <2>1 DEF Reply!IsScalar
  <2>3. (q + 1) - 1 = q
    BY <1>2
  <2> QED BY <1>2, <2>2, <2>3
<1>6. ASSUME NEW value, Reply!IsValue(value), u = Reply!TextOf(value) PROVE FALSE
  <2>1. u # <<>> /\ u[1] \in Reply!Opening
    BY <1>6, ValueIsText
  <2>2. q = 0
    <3>1. q # 0 => 1 \in 1..q
      BY <1>2
    <3> QED BY <1>2, <2>1, <3>1
  <2>3. u[1] = t[first] /\ 1 <= Len(u)
    BY <1>4, <2>2
  <2>4. Reads(v, t, first) /\ Reads(z, u, 1)
    <3>1. 1 \in 1..Len(u)
      BY <1>4, <2>3
    <3> QED BY <1>0, <1>1, <1>d, <2>1, <3>1 DEF Reads
  <2>5. z[0] = Out(0)
    BY <1>1, <1>d, ScanIsLoop
  <2>6. v[p] = Out(0)
    <3>1. p \in 0..p
      OBVIOUS
    <3> QED BY <1>d, <3>1, IdleBefore
  <2> DEFINE I == {m \in 0..(n - p) : Alike(v[p + m], z[Len(g[p + m])], Reply!Trailing(t, p + m))}
  <2>7. 0 \in I
    <3>1. p + 0 = p /\ 0 \in 0..(n - p)
      BY <1>0
    <3>2. z[Len(g[p])] = Out(0)
      BY <2>2, <2>5
    <3>3. Alike(v[p], z[Len(g[p])], Reply!Trailing(t, p))
      BY <2>6, <3>2 DEF Alike
    <3>4. Alike(v[p + 0], z[Len(g[p + 0])], Reply!Trailing(t, p + 0))
      BY <3>1, <3>3, Zenon
    <3> QED BY <3>1, <3>4
  <2>8. \A m \in 0..(n - p) : m \in I /\ m < n - p => m + 1 \in I
    <3> SUFFICES ASSUME NEW m \in 0..(n - p), m \in I, m < n - p PROVE m + 1 \in I
      OBVIOUS
    <3> DEFINE i == p + m
    <3>1. i \in Nat /\ i + 1 = p + (m + 1) /\ first <= i + 1 /\ i < n /\ m + 1 \in 0..(n - p)
          /\ i + 1 \in 0..n
      BY <1>0
    <3>2. Alike(v[i], z[Len(g[i])], Reply!Trailing(t, i))
      OBVIOUS
    <3> HIDE DEF i
    <3>3. v[i + 1].end = 0
      BY <1>e, <3>1
    <3>4. Alike(v[i + 1], z[Len(g[i + 1])], Reply!Trailing(t, i + 1))
      BY <1>d, <2>3, <2>4, <3>1, <3>2, <3>3, AlikeStep
    <3>5. Alike(v[p + (m + 1)], z[Len(g[p + (m + 1)])], Reply!Trailing(t, p + (m + 1)))
      BY <3>1, <3>4, Zenon
    <3> QED BY <3>1, <3>5
  <2>9. \A m \in 0..(n - p) : m \in I
    <3>1. n - p \in Nat
      BY <1>0
    <3> HIDE DEF I, n
    <3> QED BY <2>7, <2>8, <3>1, Induction
  <2>10. Alike(v[n], z[Len(g[n])], Reply!Trailing(t, n))
    <3> DEFINE m == n - p
    <3>1. m \in 0..(n - p) /\ p + m = n
      BY <1>0
    <3> HIDE DEF m
    <3>2. Alike(v[p + m], z[Len(g[p + m])], Reply!Trailing(t, p + m))
      BY <2>9, <3>1
    <3> QED BY <3>1, <3>2, Zenon
  <2>11. ~Reply!Trailing(t, n)
    <3>1. ~(n < n)
      BY <1>0
    <3> QED BY <3>1 DEF Reply!Trailing
  <2>12. z[Len(u)].end = 0
    <3>1. z[Len(g[n])] = v[n]
      BY <2>10, <2>11 DEF Alike
    <3>2. n \in 0..n
      BY <1>0
    <3> QED BY <1>d, <1>e, <3>1, <3>2
  <2>13. z[Len(u)].end = Len(u)
    <3>1. StandsAt(u, 0, u)
      BY <1>4 DEF StandsAt
    <3>2. \A i \in 1..0 : u[i] \notin Reply!Opening
      OBVIOUS
    <3> DEFINE zero == 0
    <3>3. zero \in Nat /\ StandsAt(u, zero, u) /\ \A i \in 1..zero : u[i] \notin Reply!Opening
      BY <3>1, <3>2
    <3>4. zero + 1 = 1 /\ zero + Len(u) = Len(u)
      BY <1>4
    <3> HIDE DEF zero
    <3>5. Found(u, zero, u)
      BY <1>1, <1>6, <3>3, ValueWalked
    <3>6. Reply!Scan(u, zero + 1)[zero + Len(u)].end = zero + Len(u)
      BY <3>5 DEF Found
    <3> QED BY <1>d, <3>4, <3>6
  <2> QED BY <1>4, <2>3, <2>12, <2>13
<1>7. u \notin JsonTexts
  BY <1>5, <1>6, JsonAssumption
<1> QED BY <1>7 DEF u

\* In a part of a value the walk does not come to an end.
LEMMA AllAreRefused ==
    ASSUME NEW before \in Seq(Reply!Tokens), NEW value, Reply!IsValue(value)
    PROVE  Reply!CutOffIsRefused(before, value)
<1> DEFINE text == Reply!TextOf(value)
           full == before \o text
           p == Len(before)
           e == p + Len(text)
<1>1. text \in Seq(Reply!Tokens) /\ text # <<>> /\ text[1] \in Reply!Opening
  BY ValueIsText
<1> SUFFICES ASSUME NEW n \in 1..(Len(text) - 1), Reply!Fences(full) = {},
                    Reply!Places(before, Reply!Opening \cup {"quote"}) = {}
             PROVE  Reply!RepairJson(before \o SubSeq(text, 1, n)) = Reply!Empty
  BY DEF Reply!CutOffIsRefused
<1>d. text = Reply!TextOf(value) /\ full = before \o text
  OBVIOUS
<1> HIDE DEF text, full
<1>2. /\ full \in Seq(Reply!Tokens) /\ Len(full) = e /\ p \in Nat /\ Len(text) \in Nat
      /\ \A i \in 1..p : full[i] = before[i]
      /\ \A i \in 1..Len(text) : full[p + i] = text[i]
  <2>1. Joined(full, before, text, Reply!Tokens)
    BY <1>1, <1>d, JoinedUp
  <2> QED BY <2>1 DEF Joined
<1>3. n \in Nat /\ n >= 1 /\ n < Len(text) /\ e \in Nat
  BY <1>2
<1> DEFINE x == SubSeq(text, 1, n)
           t == before \o x
<1>4. x \in Seq(Reply!Tokens) /\ Len(x) = n /\ \A i \in 1..n : x[i] = text[i]
  <2>1. \A i \in 1..n : text[i] \in Reply!Tokens
    BY <1>1, <1>3
  <2>2. /\ x \in Seq(Reply!Tokens) /\ Len(x) = IF 1 <= n THEN n - 1 + 1 ELSE 0
        /\ \A i \in 1..(n - 1 + 1) : x[i] = text[1 + i - 1]
    <3> HIDE DEF x
    <3>1. x = SubSeq(text, 1, n) /\ 1 \in Int /\ n \in Int
      BY <1>3 DEF x
    <3> QED BY <2>1, <3>1, SubSeqProperties
  <2>3. n - 1 + 1 = n /\ \A i \in 1..n : 1 + i - 1 = i
    BY <1>3
  <2> HIDE DEF x
  <2>4. Len(x) = n
    BY <1>3, <2>2, <2>3
  <2>5. \A i \in 1..n : x[i] = text[i]
    BY <2>2, <2>3
  <2> QED BY <2>2, <2>4, <2>5
<1>5. t = before \o x
  OBVIOUS
<1> HIDE DEF x, t
<1>6. /\ t \in Seq(Reply!Tokens) /\ Len(t) = p + n
      /\ \A i \in 1..p : t[i] = before[i]
      /\ \A i \in 1..n : t[p + i] = text[i]
  <2>1. Joined(t, before, x, Reply!Tokens)
    BY <1>4, <1>5, JoinedUp
  <2>2. /\ t \in Seq(Reply!Tokens) /\ Len(t) = Len(before) + Len(x)
        /\ \A i \in 1..Len(before) : t[i] = before[i]
        /\ \A i \in 1..Len(x) : t[Len(before) + i] = x[i]
    BY <2>1 DEF Joined
  <2>3. \A i \in 1..n : t[p + i] = text[i]
    BY <1>4, <2>2
  <2> QED BY <1>4, <2>2, <2>3
<1> DEFINE l == Len(t)
           first == p + 1
<1>7. l \in Nat /\ l = p + n /\ l < e /\ p < l /\ first \in 1..l
  BY <1>2, <1>3, <1>6
<1>8. ASSUME NEW i \in 1..l PROVE t[i] = full[i]
  <2>1. CASE i <= p
    <3>1. i \in 1..p
      BY <2>1
    <3> QED BY <1>2, <1>6, <3>1
  <2>2. CASE ~(i <= p)
    <3> DEFINE j == i - p
    <3>1. j \in 1..n /\ j \in 1..Len(text) /\ i = p + j
      BY <1>2, <1>3, <1>7, <2>2
    <3> HIDE DEF j, l
    <3>2. t[p + j] = text[j] /\ full[p + j] = text[j]
      BY <1>2, <1>6, <3>1
    <3> QED BY <3>1, <3>2
  <2> QED BY <2>1, <2>2
<1>9. \A i \in 1..p : before[i] \notin Reply!Opening \cup {"quote"}
  BY DEF Reply!Places
<1>10. Reply!Fences(t) = {}
  <2>1. \A i \in 1..Len(full) : full[i] # "fence"
    BY <1>2, NoFence
  <2>2. \A i \in 1..l : i \in 1..Len(full)
    BY <1>2, <1>7
  <2>3. \A i \in 1..l : t[i] # "fence"
    BY <1>8, <2>1, <2>2
  <2> QED BY <1>6, <2>3 DEF Reply!Fences, Reply!Places
<1>11. \A i \in 1..p : t[i] \notin Reply!Opening \cup {"quote"}
  BY <1>6, <1>9
<1>12. t[first] \in Reply!Opening
  <2>1. 1 \in 1..n
    BY <1>3
  <2> QED BY <1>1, <1>6, <2>1
<1>13. Reply!Places(t, Reply!Opening) # {} /\ Reply!Least(Reply!Places(t, Reply!Opening)) = first
  BY <1>6, <1>7, <1>11, <1>12, <1>2, FirstBracket
<1>14. Reply!Scan(full, first)[e].end = e /\ e \in 1..Len(full)
  <2>1. StandsAt(full, p, text)
    BY <1>2, <1>3 DEF StandsAt
  <2>2. \A i \in 1..p : full[i] \notin Reply!Opening
    BY <1>2, <1>9
  <2>3. p + Len(text) \in 1..Len(full) /\ Reply!Scan(full, p + 1)[p + Len(text)].end = p + Len(text)
    <3> HIDE DEF p
    <3>1. Found(full, p, text)
      BY <1>2, <1>d, <2>1, <2>2, ValueWalked
    <3> QED BY <3>1 DEF Found
  <2> QED BY <2>3
<1>15. \A m \in 0..(e - 1) : Reply!Scan(full, first)[m].end = 0
  <2> HIDE DEF e, first
  <2> DEFINE w == Reply!Scan(full, first)
  <2>1. w = Reply!Scan(full, first) /\ w[e].end = e
    BY <1>14
  <2> HIDE DEF w
  <2>2. \A m \in 0..(e - 1) : w[m].end = 0
    BY <1>2, <1>14, <2>1, EndIsOne
  <2> QED BY <2>1, <2>2
<1>16. \A m \in 0..l : Reply!Scan(t, first)[m] = Reply!Scan(full, first)[m]
  <2>1. l <= Len(t) /\ l <= Len(full)
    BY <1>2, <1>7
  <2>2. t \in Seq(Reply!Tokens) /\ full \in Seq(Reply!Tokens)
    BY <1>2, <1>6
  <2>3. l \in Nat /\ first \in 1..l /\ \A i \in 1..l : t[i] = full[i]
    BY <1>7, <1>8
  <2> HIDE DEF l, first, p, e
  <2> QED BY <2>1, <2>2, <2>3, WalksAlike
<1>17. \A m \in 0..l : Reply!Scan(t, first)[m].end = 0
  <2>1. \A m \in 0..l : m \in 0..(e - 1)
    BY <1>3, <1>7
  <2> HIDE DEF l, first, e
  <2> QED BY <1>15, <1>16, <2>1
<1>18. Reply!Bracketed(t) = t
  <2>1. Reply!Scan(t, first)[Len(t)].end = 0
    <3>1. l \in 0..l
      BY <1>7
    <3> QED BY <1>17, <3>1
  <2> HIDE DEF first
  <2> QED BY <1>13, <2>1 DEF Reply!Bracketed
<1>19. Reply!Mended(t) \notin JsonTexts
  BY <1>2, <1>6, <1>7, <1>11, <1>12, <1>17, NoValueIsMended
<1>20. Reply!RepairJson(t) = Reply!Checked(Reply!Mended(t))
  BY <1>6, <1>10, <1>18, NoFence
<1>21. Reply!RepairJson(t) = Reply!Empty
  BY <1>19, <1>20 DEF Reply!Checked
<1> QED BY <1>21 DEF t, x

-----------------------------------------------------------------------------
(* What is made of a text is what was in it. *)

\* For any dictionary, joins and reply, however long: what they say is told in the
\* prompt, and a value is found in a reply unless it is cut off, which is noticed.
THEOREM PromptAndReplyStayKept == TextsSpec => []PromptAndReplyAreKept
<1> DEFINE Inv == /\ entries = Null \/ entries \in Seq(Prompt!Entry)
                  /\ relations = Null \/ relations \in Seq(Prompt!Join) \X Seq(Prompt!Join)
                  /\ reply = Null \/ IsReply(reply)
<1>1. TextsInit => Inv
  BY DEF TextsInit
<1>2. Inv /\ [UNCHANGED texts]_texts => Inv'
  BY DEF texts, IsReply
<1>3. Inv => PromptAndReplyAreKept
  <2> SUFFICES ASSUME Inv PROVE PromptAndReplyAreKept
    OBVIOUS
  <2>1. entries # Null => Prompt!MappingsAreKept(entries)
    BY AllIsMapped
  <2>2. ASSUME relations # Null PROVE Prompt!JoinsAreTold(relations[1], relations[2])
    <3> DEFINE S == Seq(Prompt!Join)
    <3>1. relations \in S \X S
      BY <2>2
    <3> HIDE DEF S
    <3>2. relations[1] \in S /\ relations[2] \in S
      BY <3>1
    <3> QED
      BY <3>2, AllAreTold DEF S
  <2>3. ASSUME reply # Null
        PROVE  /\ Reply!ValueIsFound(reply[1], reply[2], reply[3])
               /\ Reply!CutOffIsRefused(reply[1], reply[2])
    <3>1. PICK before \in Seq(Reply!Tokens), after \in Seq(Reply!Tokens), value \in Seq(Reply!Lexemes) :
              Reply!IsValue(value) /\ reply = <<before, value, after>>
      BY <2>3 DEF IsReply
    <3>2. Reply!ValueIsFound(before, value, after) /\ Reply!CutOffIsRefused(before, value)
      BY <3>1, AllIsFound, AllAreRefused
    <3>3. reply[1] = before /\ reply[2] = value /\ reply[3] = after
      BY <3>1
    <3> QED
      BY <3>2, <3>3
  <2> QED
    BY <2>1, <2>2, <2>3 DEF PromptAndReplyAreKept
<1> HIDE DEF Inv
<1> QED
  BY <1>1, <1>2, <1>3, PTL DEF TextsSpec

\* For any document, however long, and any limits of a chunk: the words of a section
\* that overlap reaches stay together in a chunk, a section stands under the headings of
\* its path, and no word is lost that shows in the main area of the page.
THEOREM DocumentStaysKept == TextsSpec => []DocumentIsKept
<1> DEFINE Inv == document = Null \/ document \in Seq(Document!Items)
<1>1. TextsInit => Inv
  BY DEF TextsInit
<1>2. Inv /\ [UNCHANGED texts]_texts => Inv'
  BY DEF texts
<1>3. Inv => DocumentIsKept
  BY AllStayTogether, PathsAreAbove, NothingIsLost DEF DocumentIsKept
<1> HIDE DEF Inv
<1> QED
  BY <1>1, <1>2, <1>3, PTL DEF TextsSpec

=============================================================================

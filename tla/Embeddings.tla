----------------------------- MODULE Embeddings -----------------------------
(***************************************************************************)
(* Who writes embeddings: background tasks (setup_service), the script     *)
(* reembed_connection.py, and the endpoints that embed the term they save; *)
(* who saves terms without embedding them (seed_sqlserver_metadata.py);    *)
(* what replaces the rows meanwhile (re-introspection, deletion); and the  *)
(* progress record that the tasks of a connection share                    *)
(* (embedding_progress).  One connection with one table, whose columns     *)
(* are embedded with it, and one glossary term, which stands for metrics,  *)
(* sample queries and knowledge chunks.                                    *)
(*                                                                         *)
(* A transaction writes when the session flushes: it waits for the rows    *)
(* another one has written, fails when a row is gone, and keeps its rows   *)
(* locked until it ends.  Sessions flush before their next select.         *)
(***************************************************************************)
EXTENDS Integers, FiniteSets

CONSTANTS
    Tasks,        \* background tasks and runs of the script
    Texts,        \* the texts the term may have
    Null,
    MaxRows       \* bound: rows ever inserted for the term, and for the table

ASSUME TasksAssumption == IsFiniteSet(Tasks) /\ {"admin", "introspection"} \cap Tasks = {}
ASSUME BoundsAssumption == MaxRows \in Nat \ {0}

VARIABLES
    rows,       \* committed rows of the two kinds, Null if there is none
    task,       \* tasks and runs of the script
    admin,      \* a request that creates or updates the term, or a run of the seed script
    introspection,
    progress,   \* _progress of the connection
    done,       \* history: a task has committed since the record was made
    excused     \* history: the last update of the term left the vector of another text,
                \* or was made while a task held the term

vars == <<rows, task, admin, introspection, progress, done, excused>>

Kinds == {"table", "term"}
AllTexts == Texts \cup {"table"}

\* A vector is told by the text it was made of.
Row == [id: 1..MaxRows, text: AllTexts, vector: AllTexts \cup {Null}]
ASSUME NullAssumption == Null \notin Texts /\ Null \notin Row
Write == [kind: Kinds, id: 1..MaxRows, vector: AllTexts]

\* The phases of a task; the session flushes after each of the embedding ones.
Phases == {"tables", "embedTables", "flushTables", "terms", "embedTerms", "flushTerms"}
Task == [pc: {"idle", "count", "commit"} \cup Phases, script: BOOLEAN,
         loaded: SUBSET [kind: Kinds, row: Row], made: SUBSET Write, written: SUBSET Write]

Idle == [pc |-> "idle", script |-> FALSE, loaded |-> {}, made |-> {}, written |-> {}]

Progress == [total: 1..2, completed: 0..(2 * Cardinality(Tasks)),
             status: {"running", "completed", "failed"}]

Saving == [text: Texts, id: 1..MaxRows, seed: BOOLEAN]

TypeOK ==
    /\ rows \in [Kinds -> Row \cup {Null}]
    /\ task \in [Tasks -> Task]
    /\ admin \in Saving \cup {Null}
    /\ introspection \in {"none", "deleted", "launched"}
    /\ progress \in Progress \cup {Null}
    /\ done \in BOOLEAN /\ excused \in BOOLEAN

NewRow(text, id) == [id |-> id, text |-> text, vector |-> Null]

\* The table was introspected, a term exists; nothing is embedded.
Init ==
    /\ \E x \in Texts : rows = [k \in Kinds |-> NewRow(IF k = "term" THEN x ELSE k, 1)]
    /\ task = [t \in Tasks |-> Idle]
    /\ admin = Null /\ introspection = "none" /\ progress = Null
    /\ done = FALSE /\ excused = FALSE

At(t, pc) == task[t].pc = pc
Present == {k \in Kinds : rows[k] # Null}
Unembedded == {k \in Present : rows[k].vector = Null}
history == <<done, excused>>

\* The kinds whose row a transaction other than o's has written or deleted.
WrittenBy(t) == {w.kind : w \in task[t].written}
LockedFor(o) ==
    (UNION {WrittenBy(t) : t \in Tasks \ {o}})
      \cup (IF introspection # "none" /\ o # "introspection" THEN {"table"} ELSE {})
      \cup (IF admin # Null /\ o # "admin" THEN {"term"} ELSE {})

-----------------------------------------------------------------------------
\* The progress record: start_tracking, increment, mark_failed.

Started(total) == [total |-> total, completed |-> 0, status |-> "running"]

Incremented(p) ==
    IF p = Null THEN p
    ELSE [p EXCEPT !.completed = @ + 1,
                   !.status = IF p.completed + 1 >= p.total THEN "completed" ELSE @]

Failed(p) == IF p = Null THEN p ELSE [p EXCEPT !.status = "failed"]

Goto(t, r) == task' = [task EXCEPT ![t] = r]

\* The script is started by hand.
StartScript(t) ==
    /\ At(t, "idle")
    /\ Goto(t, [Idle EXCEPT !.pc = "tables", !.script = TRUE])
    /\ UNCHANGED <<rows, admin, introspection, progress, history>>

\* count_items_needing_embeddings; with nothing to do the task leaves no trace.
Count(t) ==
    LET total == Cardinality(Unembedded) IN
    /\ At(t, "count")
    /\ IF total = 0
       THEN /\ Goto(t, Idle)
            /\ UNCHANGED <<progress, done>>
       ELSE /\ Goto(t, [Idle EXCEPT !.pc = "tables"])
            /\ progress' = Started(total)
            /\ done' = FALSE
    /\ UNCHANGED <<rows, admin, introspection, excused>>

\* The select of a phase takes the rows without a vector.
Loaded(kind) == {[kind |-> k, row |-> rows[k]] : k \in Unembedded \cap {kind}}

Select(t) ==
    /\ \/ At(t, "tables") /\ Goto(t, [task[t] EXCEPT !.pc = "embedTables", !.loaded = Loaded("table")])
       \/ At(t, "terms") /\ Goto(t, [task[t] EXCEPT !.pc = "embedTerms", !.loaded = Loaded("term")])
    /\ UNCHANGED <<rows, admin, introspection, progress, history>>

Flushing == [embedTables |-> "flushTables", embedTerms |-> "flushTerms"]

\* The row is embedded and counted.  (A longer list would be gone through row
\* by row; with one row of a kind there is nothing in between.)
Embed(t) ==
    LET r == task[t] IN
    /\ r.pc \in DOMAIN Flushing
    /\ progress' = IF r.script \/ r.loaded = {} THEN progress ELSE Incremented(progress)
    /\ Goto(t, [r EXCEPT !.pc = Flushing[@], !.loaded = {},
         !.made = {[kind |-> l.kind, id |-> l.row.id, vector |-> l.row.text] : l \in r.loaded}])
    /\ UNCHANGED <<rows, admin, introspection, history>>

\* What the rows are after transaction t.
Updated(written) ==
    [k \in Kinds |->
       IF \E w \in written : w.kind = k
       THEN [rows[k] EXCEPT !.vector = (CHOOSE w \in written : w.kind = k).vector]
       ELSE rows[k]]

Writable(w) == rows[w.kind] # Null /\ rows[w.kind].id = w.id

\* The rows are updated.  The script commits after each phase.
Flush(t) ==
    LET r == task[t] IN
    /\ r.pc \in {"flushTables", "flushTerms"}
    /\ {w.kind : w \in r.made} \cap LockedFor(t) = {}
    /\ \A w \in r.made : Writable(w)
    /\ IF r.script
       THEN /\ rows' = Updated(r.made)
            /\ Goto(t, IF r.pc = "flushTables" THEN [r EXCEPT !.pc = "terms", !.made = {}] ELSE Idle)
       ELSE /\ Goto(t, [r EXCEPT !.pc = IF r.pc = "flushTables" THEN "terms" ELSE "commit",
                                 !.made = {}, !.written = @ \cup r.made])
            /\ UNCHANGED rows
    /\ UNCHANGED <<admin, introspection, progress, history>>

Commit(t) ==
    /\ At(t, "commit")
    /\ rows' = Updated(task[t].written)
    /\ Goto(t, Idle)
    /\ done' = TRUE
    /\ UNCHANGED <<admin, introspection, progress, excused>>

\* The provider or the database fails, or a row to update is gone or of another
\* dimension: the transaction is rolled back and the record says so.
Fail(t) ==
    /\ ~At(t, "idle")
    /\ Goto(t, Idle)
    /\ progress' = IF task[t].script THEN progress ELSE Failed(progress)
    /\ UNCHANGED <<rows, admin, introspection, history>>

-----------------------------------------------------------------------------
\* A task has read or embedded the row of the term with this id.
Holds(t, id) ==
    \/ \E x \in task[t].loaded : x.kind = "term" /\ x.row.id = id
    \/ \E x \in task[t].made \cup task[t].written : x.kind = "term" /\ x.id = id

\* An id that no task knows, as ids are never given twice.
Fresh(id) ==
    /\ rows["term"] # Null => id # rows["term"].id
    /\ \A t \in Tasks : /\ \A w \in task[t].made : w.id # id
                       /\ \A l \in task[t].loaded : l.row.id # id

\* create_glossary_term and update_glossary_term flush the text, and then await its
\* embedding.  The seed script inserts the term or updates it (ON CONFLICT); with
\* --purge it has deleted the row before.
Save ==
    /\ admin = Null /\ "term" \notin LockedFor("admin")
    /\ \E x \in Texts, seed \in BOOLEAN :
         \/ /\ rows["term"] # Null /\ x # rows["term"].text
            /\ admin' = [text |-> x, id |-> rows["term"].id, seed |-> seed]
         \/ /\ rows["term"] = Null \/ seed
            /\ \E id \in 1..MaxRows :
                 Fresh(id) /\ admin' = [text |-> x, id |-> id, seed |-> seed]
    /\ UNCHANGED <<rows, task, introspection, progress, history>>

\* The vector of the row that is updated.
Kept == IF rows["term"] # Null /\ rows["term"].id = admin.id THEN rows["term"].vector ELSE Null

\* Fault variant: the new embedding is not stored.
Saved_TextOnly(vector) == [id |-> admin.id, text |-> admin.text, vector |-> Kept]

\* Without a new embedding the old one stays.
Saved(vector) == [id |-> admin.id, text |-> admin.text,
                  vector |-> IF vector # Null THEN vector ELSE Kept]

\* The endpoint embeds the text, or a failure to do so is logged; get_db commits.  The
\* seed script embeds nothing, and clears nothing.
CommitSaved ==
    /\ admin # Null /\ admin' = Null
    /\ \E vector \in {Null} \cup (IF admin.seed THEN {} ELSE {admin.text}) :
         /\ rows' = [rows EXCEPT !["term"] = Saved(vector)]
         /\ excused' = (\/ vector = Null /\ Kept \notin {Null, admin.text}
                       \/ \E t \in Tasks : Holds(t, admin.id))
    /\ UNCHANGED <<task, introspection, progress, done>>

\* The request fails, or the script ends.
AbortSave ==
    /\ admin # Null /\ admin' = Null
    /\ UNCHANGED <<rows, task, introspection, progress, history>>

DeleteTerm ==
    /\ admin = Null /\ rows["term"] # Null /\ "term" \notin LockedFor("admin")
    /\ rows' = [rows EXCEPT !["term"] = Null] /\ excused' = FALSE
    /\ UNCHANGED <<task, admin, introspection, progress, done>>

-----------------------------------------------------------------------------
\* introspect_connection: the catalogue is deleted and made anew, the task is
\* launched, and then get_db commits.
Introspect ==
    /\ introspection = "none" /\ "table" \notin LockedFor("introspection")
    /\ introspection' = "deleted"
    /\ UNCHANGED <<rows, task, admin, progress, history>>

Launch ==
    /\ introspection = "deleted" /\ introspection' = "launched"
    /\ \E t \in Tasks : At(t, "idle") /\ Goto(t, [Idle EXCEPT !.pc = "count"])
    /\ UNCHANGED <<rows, admin, progress, history>>

CommitIntrospection ==
    /\ introspection = "launched" /\ introspection' = "none"
    /\ rows["table"].id < MaxRows
    /\ rows' = [k \in Kinds |-> IF k = "term" THEN rows[k] ELSE NewRow(k, rows[k].id + 1)]
    /\ UNCHANGED <<task, admin, progress, history>>

AbortIntrospection ==
    /\ introspection # "none" /\ introspection' = "none"
    /\ UNCHANGED <<rows, task, admin, progress, history>>

-----------------------------------------------------------------------------
\* The server restarts: everything in memory is gone.  If it is configured for
\* another model, ensure_embedding_dimensions clears all vectors; if this is the
\* sample connection, auto_setup_sample_db launches a task.
Cleared == [k \in Kinds |-> IF rows[k] = Null THEN Null ELSE [rows[k] EXCEPT !.vector = Null]]

Restart ==
    /\ \A t \in Tasks : ~At(t, "idle") => ~task[t].script
    /\ admin # Null => ~admin.seed
    /\ \/ UNCHANGED <<rows, excused>>
       \/ rows' = Cleared /\ excused' = FALSE
    /\ admin' = Null /\ introspection' = "none" /\ progress' = Null
    /\ \E first \in {{}} \cup {{t} : t \in Tasks} :
         task' = [t \in Tasks |-> IF t \in first THEN [Idle EXCEPT !.pc = "count"] ELSE Idle]
    /\ UNCHANGED done

Next ==
    \/ \E t \in Tasks :
         StartScript(t) \/ Count(t) \/ Select(t) \/ Embed(t) \/ Flush(t) \/ Commit(t) \/ Fail(t)
    \/ Save \/ CommitSaved \/ AbortSave \/ DeleteTerm
    \/ Introspect \/ Launch \/ CommitIntrospection \/ AbortIntrospection
    \/ Restart

Spec == Init /\ [][Next]_vars

-----------------------------------------------------------------------------
\* The record says "running" only while items are missing and "completed" only
\* when the total is reached, although several tasks count in it.
RecordAddsUp ==
    progress # Null =>
        /\ progress.status = "running" => progress.completed < progress.total
        /\ progress.status = "completed" => progress.completed >= progress.total

\* increment says "completed" before anything is committed.  Once all tasks of
\* the connection have ended, a record that says so is true: one of them has
\* committed since it was made.
CompletedIsTrue ==
    progress # Null /\ progress.status = "completed" /\ (\A t \in Tasks : At(t, "idle")) => done

\* The vector of a term is one of its present text, unless the last to save the term
\* left the vector of an older text, for embedding the new one failed or the seed
\* script saved it, or saved it while a task held the term.
StaleOnlyByRace ==
    rows["term"] # Null /\ rows["term"].vector # Null =>
        rows["term"].vector = rows["term"].text \/ excused

\* The progress record and the vectors tell the truth about what was embedded.
EmbeddingsAreTrue == TypeOK /\ RecordAddsUp /\ CompletedIsTrue /\ StaleOnlyByRace
=============================================================================

-------------------------- MODULE KnowledgeImport ---------------------------
(***************************************************************************)
(* The documents of one source URL: concurrent imports of it               *)
(* (services/knowledge_service.py import_document), each one a request and *)
(* a transaction, and the endpoint that deletes one.  Which chunks a       *)
(* content is cut into is the subject of KnowledgeText.                    *)
(***************************************************************************)
EXTENDS Naturals

CONSTANTS
    Importers,    \* concurrent requests
    MaxDocs,      \* bound: documents ever inserted
    MaxChunks     \* bound: chunks of a document

VARIABLES
    docs,      \* committed documents of the URL, by the number of their insert
    inserted,  \* how many were ever inserted
    job,       \* the request of each importer
    later      \* history: of each importer, what others committed since its select

vars == <<docs, inserted, job, later>>

\* chunks: how many are written, and how many of those have a vector.
Doc == [id: 1..MaxDocs, chunks: 0..MaxChunks, embedded: 0..MaxChunks]

Idle == [pc |-> "idle", found |-> {}, id |-> 0, total |-> 0, chunks |-> 0, embedded |-> 0]

Job == [pc: {"idle", "delete", "insert", "chunk", "commit"}, found: SUBSET (1..MaxDocs),
        id: 0..MaxDocs, total: 0..MaxChunks, chunks: 0..MaxChunks, embedded: 0..MaxChunks]

TypeOK ==
    /\ docs \subseteq Doc
    /\ inserted \in 0..MaxDocs
    /\ job \in [Importers -> Job]
    /\ later \in [Importers -> SUBSET (1..MaxDocs)]

Init ==
    /\ docs = {} /\ inserted = 0
    /\ job = [i \in Importers |-> Idle]
    /\ later = [i \in Importers |-> {}]

Ids == {d.id : d \in docs}
Without(ids) == {d \in docs : d.id \notin ids}

\* Rows that a transaction has deleted and not yet committed.
Locked == UNION {job[i].found : i \in {j \in Importers : job[j].pc \in {"insert", "chunk", "commit"}}}

\* Fault variant: one document of the URL is looked for.
Existing_First == {id \in Ids : \A other \in Ids : id <= other}

\* select ... where source_url == source_url
Existing == Ids

Select(i, total) ==
    /\ job[i].pc = "idle" /\ inserted < MaxDocs
    /\ job' = [job EXCEPT ![i] = [Idle EXCEPT !.pc = "delete", !.found = Existing, !.total = total]]
    /\ later' = [later EXCEPT ![i] = {}]
    /\ UNCHANGED <<docs, inserted>>

\* db.delete and flush wait for another transaction that deletes the same rows; a
\* row that is gone by then only makes the ORM warn.
Delete(i) ==
    /\ job[i].pc = "delete"
    /\ job[i].found \cap Locked = {}
    /\ job' = [job EXCEPT ![i].pc = "insert"]
    /\ UNCHANGED <<docs, inserted, later>>

Insert(i) ==
    /\ job[i].pc = "insert" /\ inserted < MaxDocs
    /\ inserted' = inserted + 1
    /\ job' = [job EXCEPT ![i].id = inserted + 1,
                          ![i].pc = IF job[i].total = 0 THEN "commit" ELSE "chunk"]
    /\ UNCHANGED <<docs, later>>

LastChunk(i) == job[i].chunks + 1 = job[i].total

\* A chunk is flushed and embedded; an embedding that fails is only logged.
Chunk(i) ==
    /\ job[i].pc = "chunk"
    /\ \E ok \in {0, 1} :
         job' = [job EXCEPT ![i].chunks = @ + 1, ![i].embedded = @ + ok,
                            ![i].pc = IF LastChunk(i) THEN "commit" ELSE "chunk"]
    /\ UNCHANGED <<docs, inserted, later>>

\* What has become of the documents when the transaction of importer i commits.
Replaced(i) ==
    Without(job[i].found)
        \cup {[id |-> job[i].id, chunks |-> job[i].chunks, embedded |-> job[i].embedded]}

Commit(i) ==
    /\ job[i].pc = "commit"
    /\ docs' = Replaced(i)
    /\ job' = [job EXCEPT ![i] = Idle]
    /\ later' = [j \in Importers |-> IF j = i \/ job[j].pc = "idle" THEN {}
                                     ELSE later[j] \cup {job[i].id}]
    /\ UNCHANGED inserted

\* A database error or a client that leaves: get_db rolls back.
Abort(i) ==
    /\ job[i].pc # "idle"
    /\ job' = [job EXCEPT ![i] = Idle]
    /\ later' = [later EXCEPT ![i] = {}]
    /\ UNCHANGED <<docs, inserted>>

\* delete_knowledge_document, which waits like Delete.
DeleteDocument(id) ==
    /\ id \in Ids \ Locked
    /\ docs' = Without({id})
    /\ UNCHANGED <<inserted, job, later>>

Next ==
    \/ \E i \in Importers :
         \/ \E total \in 0..MaxChunks : Select(i, total)
         \/ Delete(i) \/ Insert(i) \/ Chunk(i) \/ Commit(i) \/ Abort(i)
    \/ \E id \in 1..MaxDocs : DeleteDocument(id)

Spec == Init /\ [][Next]_vars

-----------------------------------------------------------------------------
(* Properties *)

\* Re-importing a URL replaces: whatever imports and deletes ran before and in
\* between, one that commits leaves its document and no other one, except those
\* that were committed while it ran.
ImportReplaces ==
    [][\A i \in Importers : job[i].pc = "commit" /\ job'[i].pc = "idle" /\ docs' # docs =>
         {d.id : d \in docs'} \subseteq {job[i].id} \cup later[i]]_vars
=============================================================================

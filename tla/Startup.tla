------------------------------ MODULE Startup -------------------------------
(***************************************************************************)
(* What the server does before it takes requests (main.py lifespan): the   *)
(* dimension of the vector columns and the sample connection with its      *)
(* seeds (services/setup_service.py).  The process may stop at any point,  *)
(* which discards the open transaction, and starts again, possibly with    *)
(* another embedding provider configured.  Once it serves, administrators  *)
(* add, delete and introspect; nothing else runs before that.              *)
(***************************************************************************)
EXTENDS Naturals, Sequences, Functions

CONSTANTS
    Columns,      \* EMBEDDING_COLUMNS
    Proxy,        \* the one whose dimension stands for all
    Dimensions,   \* settings.embedding_dimension of the providers
    MaxRetries,   \* MAX_RETRIES
    MaxStops      \* bound: how often the process stops

VARIABLES
    dim,      \* committed dimension of each column
    resized,  \* dimension of each column in the open transaction
    store,    \* committed sample connection and what belongs to it
    seeded,   \* seeds inserted in the open transaction
    target,   \* settings.embedding_dimension
    pc, attempt, stops

vars == <<dim, resized, store, seeded, target, pc, attempt, stops>>

\* The four kinds in the order they are seeded.
Order == <<"glossary", "metrics", "dictionary", "knowledge">>
Kinds == Range(Order)
Seeding == Kinds \cup {"commit"}

\* Of each kind: how often it was seeded, whether an administrator's own entries
\* are there, and (a history) whether an administrator has ever changed it.
Content == [seeds: 0..2, own: BOOLEAN, touched: BOOLEAN]
Empty == [seeds |-> 0, own |-> FALSE, touched |-> FALSE]
NoConnection == [exists |-> FALSE, introspected |-> FALSE, found |-> FALSE,
                 of |-> [k \in Kinds |-> Empty]]

\* The connection of that name: whether the catalogue has any of the columns that the
\* dictionary's seeds are for is decided by each introspection.
Stores == [exists: BOOLEAN, introspected: BOOLEAN, found: BOOLEAN, of: [Kinds -> Content]]

TypeOK ==
    /\ dim \in [Columns -> Dimensions] /\ resized \in [Columns -> Dimensions]
    /\ store \in Stores
    /\ seeded \subseteq Kinds
    /\ target \in Dimensions
    /\ pc \in {"down", "dimension", "resize", "connection", "introspect", "serving"}
                 \cup Seeding
    /\ attempt \in 1..MaxRetries
    /\ stops \in 0..MaxStops

\* The first start after the migrations.
Init ==
    /\ \E d \in Dimensions : dim = [c \in Columns |-> d]
    /\ resized = dim
    /\ store = NoConnection /\ seeded = {}
    /\ target \in Dimensions
    /\ pc = "down" /\ attempt = 1 /\ stops = 0

Goto(label) == pc' = label

Start ==
    /\ pc = "down"
    /\ target' \in Dimensions
    /\ Goto("dimension")
    /\ attempt' = 1
    /\ UNCHANGED <<dim, resized, store, seeded, stops>>

-----------------------------------------------------------------------------
(* ensure_embedding_dimensions *)

\* One column is looked at; a database that cannot be reached is only logged.
CheckDimension ==
    /\ pc = "dimension"
    /\ \/ Goto("connection")
       \/ dim[Proxy] # target /\ Goto("resize")
    /\ UNCHANGED <<dim, resized, store, seeded, target, attempt, stops>>

\* Columns are altered one after the other in one transaction.
Committed(before, altered) ==
    IF \A c \in Columns : altered[c] = target THEN altered ELSE before

Resize(c) ==
    /\ pc = "resize"
    /\ resized[c] # target
    /\ resized' = [resized EXCEPT ![c] = target]
    /\ dim' = Committed(dim, resized')
    /\ Goto(IF \A d \in Columns : resized'[d] = target THEN "connection" ELSE "resize")
    /\ UNCHANGED <<store, seeded, target, attempt, stops>>

\* A statement fails: rolled back, logged, and the start goes on.
ResizeFails ==
    /\ pc = "resize"
    /\ resized' = dim
    /\ Goto("connection")
    /\ UNCHANGED <<dim, store, seeded, target, attempt, stops>>

-----------------------------------------------------------------------------
(* auto_setup_sample_db *)

\* _ensure_connection finds a connection of that name.  Without one it reads a setting
\* that Settings does not declare, and the attempt fails: nothing is created.
EnsureConnection ==
    /\ pc = "connection" /\ store.exists
    /\ Goto("introspect")
    /\ UNCHANGED <<dim, resized, store, seeded, target, attempt, stops>>

\* Only if it never happened, and committed by itself.
IntrospectOnce ==
    /\ pc = "introspect"
    /\ \E found \in BOOLEAN :
          store' = IF store.introspected THEN store
                   ELSE [store EXCEPT !.introspected = TRUE, !.found = found]
    /\ Goto(Order[1])
    /\ UNCHANGED <<dim, resized, seeded, target, attempt, stops>>

\* _seed_glossary, _seed_metrics, _seed_dictionary and _seed_knowledge add their
\* rows if the connection has none of the kind; entries of the dictionary are skipped
\* where their column is not in the catalogue.
IsMissing(content) == content.seeds = 0 /\ ~content.own

HasRows(kind) == kind = "dictionary" => store.found

Adds(kind) == IsMissing(store.of[kind]) /\ HasRows(kind)

Seed(i) ==
    /\ pc = Order[i]
    /\ seeded' = IF Adds(Order[i]) THEN seeded \cup {Order[i]} ELSE seeded
    /\ Goto(Append(Order, "commit")[i + 1])
    /\ UNCHANGED <<dim, resized, store, target, attempt, stops>>

WithSeeds(of) == [k \in Kinds |-> IF k \in seeded THEN [of[k] EXCEPT !.seeds = @ + 1] ELSE of[k]]

\* The four are committed together; the embedding task is launched.
CommitSeeds ==
    /\ pc = "commit"
    /\ store' = [store EXCEPT !.of = WithSeeds(@)]
    /\ seeded' = {}
    /\ Goto("serving")
    /\ UNCHANGED <<dim, resized, target, attempt, stops>>

SettingUp == pc \in {"connection", "introspect"} \cup Seeding

\* except: await db.rollback().
AfterFailure_Commits(of) == WithSeeds(of)
AfterFailure(of) == of

\* Any of these fails, as while the sample database is still starting.
Tried_Same(n) == n
Tried(n) == n + 1

\* for attempt in range(1, MAX_RETRIES + 1)
MayTryAgain == attempt < MaxRetries

AttemptFails ==
    /\ SettingUp
    /\ seeded' = {}
    /\ IF MayTryAgain
       THEN Goto("connection") /\ attempt' = Tried(attempt)
       ELSE Goto("serving") /\ UNCHANGED attempt
    /\ store' = [store EXCEPT !.of = AfterFailure(@)]
    /\ UNCHANGED <<dim, resized, target, stops>>

-----------------------------------------------------------------------------
(* Serving, and stopping *)

\* Administrators: the connection made, own entries added, a kind emptied, the
\* connection introspected (which drops the entries of columns that have gone) or
\* deleted with all that belongs to it.
Touched(content) == [content EXCEPT !.touched = TRUE]
Touch(k, content) == store' = [store EXCEPT !.of[k] = Touched(content)]

Introspected(found, entries) ==
    [store EXCEPT !.introspected = TRUE, !.found = found,
                  !.of["dictionary"] = Touched(entries)]

Serve ==
    /\ pc = "serving"
    /\ \/ ~store.exists /\ store' = [NoConnection EXCEPT !.exists = TRUE]
       \/ /\ store.exists
          /\ \/ \E k \in Kinds :
                   /\ k = "dictionary" => store.introspected
                   /\ Touch(k, [store.of[k] EXCEPT !.own = TRUE])
             \/ \E k \in Kinds : Touch(k, Empty)
             \/ \E found \in BOOLEAN, entries \in {store.of["dictionary"], Empty} :
                   store' = Introspected(found, entries)
             \/ store' = NoConnection
    /\ UNCHANGED <<dim, resized, seeded, target, pc, attempt, stops>>

Stop ==
    /\ pc # "down" /\ stops < MaxStops
    /\ stops' = stops + 1
    /\ Goto("down")
    /\ resized' = dim /\ seeded' = {}
    /\ UNCHANGED <<dim, store, target, attempt>>

StartupStep ==
    \/ Start \/ CheckDimension \/ ResizeFails \/ EnsureConnection \/ IntrospectOnce
    \/ \E c \in Columns : Resize(c)
    \/ \E i \in 1..Len(Order) : Seed(i)
    \/ CommitSeeds \/ AttemptFails

Next == StartupStep \/ Serve \/ Stop

Spec == Init /\ [][Next]_vars

-----------------------------------------------------------------------------
(* Properties *)

\* Wherever the process stops or a statement fails, the columns agree, so that the
\* one column the next start looks at tells what all the others are.
DimensionsAgree == \A c \in Columns : dim[c] = dim[Proxy]

\* Restarts and retries never seed a kind twice.
SeededOnce == \A k \in Kinds : store.of[k].seeds <= 1

\* The seeds arrive together: where one kind is seeded the others are, unless an
\* administrator has had a hand in them, and but for the dictionary of a catalogue that
\* has none of its columns.
SeededTogether ==
    \A j, k \in Kinds : store.of[j].seeds > 0 =>
        store.of[k].seeds > 0 \/ store.of[k].touched \/ ~HasRows(k)

\* What a start leaves behind, wherever it stops: columns of one dimension, and seeds
\* that are there once and together.
StartupIsSound == TypeOK /\ DimensionsAgree /\ SeededOnce /\ SeededTogether
=============================================================================

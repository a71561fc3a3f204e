---------------------------- MODULE ContextCache ----------------------------
(***************************************************************************)
(* How concurrent turns share what the context builder made: the caches    *)
(* and locks of semantic/context_builder.py, the term caches of            *)
(* semantic/glossary_resolver.py with the endpoints that empty them, and   *)
(* rebuild_context, which extends a cached object in place.                *)
(*                                                                         *)
(* A key of the context cache is a connection and a question; the dialect  *)
(* is the connection's.  What is in a context is reduced to the versions   *)
(* of the metadata its tables and its terms (glossary, metrics) were      *)
(* read from, whether an embedding was at hand, and how often the one      *)
(* table a rebuild asks for was appended.  Times are ages in ticks, cut    *)
(* off where no comparison tells them apart.                               *)
(***************************************************************************)
EXTENDS Naturals, Sequences, FiniteSetsExt

CONSTANTS
    Turns,        \* concurrent turns
    Connections,
    Questions,    \* lowercased and stripped
    Null,
    MaxEntries,   \* _CONTEXT_CACHE_MAX_SIZE
    ContextTtl,   \* _CONTEXT_CACHE_TTL_SECONDS, also the one of embeddings
    TermTtl,      \* _GLOSSARY_TTL and _METRICS_TTL
    MaxEdits      \* bound: edits of the terms and of the catalogue

ASSUME TurnsAssumption == IsFiniteSet(Turns) /\ Null \notin Turns /\ Null \notin Nat
ASSUME TtlAssumption == ContextTtl \in Nat \ {0} /\ TermTtl \in Nat \ {0}
ASSUME BoundsAssumption == MaxEntries \in Nat \ {0} /\ MaxEdits \in Nat

VARIABLES
    turn,       \* what each turn is doing inside build_context
    cache,      \* _CONTEXT_CACHE
    lock,       \* _CONTEXT_LOCKS: who holds the lock of a key
    embedded,   \* _EMBEDDING_CACHE: age of the entry of a question
    embLock,    \* _EMBEDDING_LOCKS
    termCache,  \* _glossary_cache and _metrics_cache
    copies,     \* of each BuiltContext alive: copies of the table rebuilds append
    db,         \* per connection: the age of each commit to its metadata
    editing,    \* an edit of terms is flushed and not yet committed
    lastFail    \* history variable: age of the last embedding failure

vars == <<turn, cache, lock, embedded, embLock, termCache, copies, db, editing, lastFail>>

Keys == Connections \X Questions
Objects == 1..(MaxEntries + Cardinality(Turns))
Versions == Nat

\* The oldest terms a cached context may rest on.
Bound == (ContextTtl - 1) + (TermTtl - 1)

Older(age, limit) == IF age < limit THEN age + 1 ELSE limit

Content == [cat: Versions, terms: Versions, degraded: BOOLEAN]
Blank == [cat |-> 0, terms |-> 0, degraded |-> FALSE]

Entry == [object: Objects, age: 0..ContextTtl, content: Content]

\* An entry that is absent and one that is expired are the same to every reader
\* of the term caches; in the context cache an expired one still takes its place.
TermEntry == [age: 0..TermTtl, terms: Versions]
NoTerms == [age |-> TermTtl, terms |-> 0]

Turn == [pc: {"idle", "lock", "embLock", "embed", "gather", "readTerms", "finish",
              "fetch"},
         key: Keys \cup {Null},
         since: 0..ContextTtl,     \* age of `now`, the time stamp of the new entry
         termsSince: 0..TermTtl,   \* age of `now` in _get_all_glossary_terms
         content: Content, object: Objects \cup {Null}]

Idle == [pc |-> "idle", key |-> Null, since |-> 0,
         termsSince |-> 0, content |-> Blank, object |-> Null]

\* The commits to the metadata of a connection, by their ages: the first made
\* version 1.
Db == Seq(0..(Bound + 1))

TypeOK ==
    /\ turn \in [Turns -> Turn]
    /\ cache \in [Keys -> Entry \cup {Null}]
    /\ lock \in [Keys -> Turns \cup {Null}]
    /\ embedded \in [Questions -> 0..ContextTtl]
    /\ embLock \in [Questions -> Turns \cup {Null}]
    /\ termCache \in [Connections -> TermEntry]
    /\ copies \in [Objects -> 0..2]
    /\ db \in [Connections -> Db]
    /\ editing \in [Connections -> BOOLEAN]
    /\ lastFail \in [Questions -> 0..ContextTtl]

Init ==
    /\ turn = [t \in Turns |-> Idle]
    /\ cache = [k \in Keys |-> Null]
    /\ lock = [k \in Keys |-> Null]
    /\ embedded = [q \in Questions |-> ContextTtl]
    /\ embLock = [q \in Questions |-> Null]
    /\ termCache = [c \in Connections |-> NoTerms]
    /\ copies = [o \in Objects |-> 0]
    /\ db = [c \in Connections |-> <<>>]
    /\ editing = [c \in Connections |-> FALSE]
    /\ lastFail = [q \in Questions |-> ContextTtl]

At(t, pc) == turn[t].pc = pc
Conn(t) == turn[t].key[1]
Question(t) == turn[t].key[2]
Goto(t, r) == turn' = [turn EXCEPT ![t] = r]

FreshContext(k) == cache[k] # Null /\ cache[k].age < ContextTtl
FreshEmbedding(q) == embedded[q] < ContextTtl
FreshTerms(c) == termCache[c].age < TermTtl
Version(c) == Len(db[c])

\* The context is in hand: build_context_node is done with it, rebuild_context
\* has a table to add.  Which of them called matters only from here on.
Handed(k, o) == {Idle, [Idle EXCEPT !.pc = "fetch", !.key = k, !.object = o]}
FromCache(k) == Handed(k, cache[k].object)

-----------------------------------------------------------------------------
\* build_context, called by build_context_node or by rebuild_context.
Ask(t) ==
    /\ At(t, "idle")
    /\ \E k \in Keys :
         \E r \in IF FreshContext(k) THEN FromCache(k)
                  ELSE {[Idle EXCEPT !.key = k, !.pc = "lock"]} : Goto(t, r)
    /\ UNCHANGED <<cache, lock, embedded, embLock, termCache, copies, db, editing, lastFail>>

\* Fault variant: the cache is not looked at again inside the lock.
FoundInLock_NoRecheck(k) == FALSE

\* The second look, after the wait for the lock.
FoundInLock(k) == FreshContext(k)

\* _build_context_locked gets the lock.
EnterLock(t) ==
    LET k == turn[t].key IN
    /\ At(t, "lock") /\ lock[k] = Null
    /\ \/ /\ FoundInLock(k)
          /\ \E r \in FromCache(k) : Goto(t, r)
          /\ UNCHANGED lock
       \/ /\ ~FoundInLock(k)
          /\ lock' = [lock EXCEPT ![k] = t]
          /\ Goto(t, [turn[t] EXCEPT !.since = 0,
                        !.pc = IF FreshEmbedding(Question(t)) THEN "gather" ELSE "embLock"])
    /\ UNCHANGED <<cache, embedded, embLock, termCache, copies, db, editing, lastFail>>

\* The lock of the question, which turns of several connections may share.
EnterEmbLock(t) ==
    LET q == Question(t) IN
    /\ At(t, "embLock") /\ embLock[q] = Null
    /\ \/ /\ FreshEmbedding(q)
          /\ Goto(t, [turn[t] EXCEPT !.pc = "gather", !.since = 0])
          /\ UNCHANGED embLock
       \/ /\ ~FreshEmbedding(q)
          /\ Goto(t, [turn[t] EXCEPT !.pc = "embed", !.since = 0])
          /\ embLock' = [embLock EXCEPT ![q] = t]
    /\ UNCHANGED <<cache, lock, embedded, termCache, copies, db, editing, lastFail>>

\* embed_text returns within its three seconds, or fails, or does not: then
\* the context is built from keywords alone.
Embed(t) ==
    LET q == Question(t) IN
    /\ At(t, "embed")
    /\ embLock' = [embLock EXCEPT ![q] = Null]
    /\ \/ /\ embedded' = [embedded EXCEPT ![q] = turn[t].since]
          /\ Goto(t, [turn[t] EXCEPT !.pc = "gather"])
          /\ UNCHANGED lastFail
       \/ /\ lastFail' = [lastFail EXCEPT ![q] = 0]
          /\ Goto(t, [turn[t] EXCEPT !.pc = "gather", !.content.degraded = TRUE])
          /\ UNCHANGED embedded
    /\ UNCHANGED <<cache, lock, termCache, copies, db, editing>>

\* The resolvers run: the catalogue is read, the terms are cached or read.
Gather(t) ==
    LET c == Conn(t)
        linked == [turn[t] EXCEPT !.content.cat = Version(c)]
    IN
    /\ At(t, "gather")
    /\ Goto(t, IF FreshTerms(c)
               THEN [linked EXCEPT !.pc = "finish", !.content.terms = termCache[c].terms]
               ELSE [linked EXCEPT !.pc = "readTerms", !.content.terms = Version(c)])
    /\ UNCHANGED <<cache, lock, embedded, embLock, termCache, copies, db, editing, lastFail>>

\* Fault variant: the entry is stamped when the rows are back.
TermStamp_Late(r) == 0

\* The time before the select.
TermStamp(r) == r.termsSince

\* The rows are back: _get_all_glossary_terms stores what it read, whatever
\* has been invalidated since.
StoreTerms(t) ==
    /\ At(t, "readTerms")
    /\ termCache' = [termCache EXCEPT ![Conn(t)] = [age |-> TermStamp(turn[t]),
                                                    terms |-> turn[t].content.terms]]
    /\ Goto(t, [turn[t] EXCEPT !.pc = "finish", !.termsSince = 0])
    /\ UNCHANGED <<cache, lock, embedded, embLock, copies, db, editing, lastFail>>

-----------------------------------------------------------------------------
Occupied == {k \in Keys : cache[k] # Null}

\* The keys with the smallest time stamp.
Oldest == {k \in Occupied : \A l \in Occupied : cache[k].age >= cache[l].age}

Full == Cardinality(Occupied) >= MaxEntries

\* The cache without the entry that has to leave.
Trimmed ==
    IF Full THEN {[cache EXCEPT ![k] = Null] : k \in Oldest} ELSE {cache}

\* A BuiltContext that nobody refers to stands for the next one made.
Referenced == {cache[k].object : k \in Occupied} \cup {turn[t].object : t \in Turns}
NewObject == CHOOSE o \in Objects : o \notin Referenced
Collected == copies' = [o \in Objects |-> IF o \in Referenced' THEN copies[o] ELSE 0]

\* Fault variant: the entry is stamped when it is stored.
ContextStamp_Late(r) == 0

\* `now` as the embedding step left it.
ContextStamp(r) == r.since

\* The end of _do_build_context: evict, store, return, release the lock.
Finish(t) ==
    LET r == turn[t]
        new == [object |-> NewObject, age |-> ContextStamp(r), content |-> r.content]
    IN
    /\ At(t, "finish")
    /\ \E trimmed \in Trimmed : cache' = [trimmed EXCEPT ![r.key] = new]
    /\ lock' = [lock EXCEPT ![r.key] = Null]
    /\ \E handed \in Handed(r.key, NewObject) : Goto(t, handed)
    /\ Collected
    /\ UNCHANGED <<embedded, embLock, termCache, db, editing, lastFail>>

\* Fault variant: the names already there are not compared.
Appended_Unchecked(n) == IF n < 2 THEN n + 1 ELSE n

\* The missing table joins the list unless its name is there.
Appended(n) == IF n = 0 THEN 1 ELSE n

\* rebuild_context: the missing tables are fetched and appended to the list
\* inside the object, which the cache and other turns hold too.
AppendMissing(t) ==
    /\ At(t, "fetch")
    /\ Goto(t, Idle)
    /\ UNCHANGED <<cache, lock, embedded, embLock, termCache, db, editing, lastFail>>
    /\ copies' = [o \in Objects |->
                    IF o \notin Referenced' THEN 0
                    ELSE IF o = turn[t].object THEN Appended(copies[o]) ELSE copies[o]]

\* async with: leaving it in any way releases the lock.
Released(locks, t) == [k \in DOMAIN locks |-> IF locks[k] = t THEN Null ELSE locks[k]]

\* A database error, a table that is not found, the 45 s of the turn, or a
\* client that is gone.
Abort(t) ==
    /\ ~At(t, "idle")
    /\ Goto(t, Idle)
    /\ lock' = Released(lock, t)
    /\ embLock' = Released(embLock, t)
    /\ UNCHANGED <<cache, embedded, termCache, db, editing, lastFail>>
    /\ Collected

-----------------------------------------------------------------------------
Edits == MapThenSumSet(LAMBDA c : Version(c) + (IF editing[c] THEN 1 ELSE 0), Connections)
Committed(c) == [db EXCEPT ![c] = Append(@, 0)]

\* A term or metric is created, updated or deleted: the rows are flushed and
\* the cached list is dropped, then get_db commits or the commit fails.
EditTerms(c) ==
    /\ ~editing[c] /\ Edits < MaxEdits
    /\ editing' = [editing EXCEPT ![c] = TRUE]
    /\ termCache' = [termCache EXCEPT ![c] = NoTerms]
    /\ UNCHANGED <<turn, cache, lock, embedded, embLock, copies, db, lastFail>>

CommitTerms(c) ==
    /\ editing[c]
    /\ editing' = [editing EXCEPT ![c] = FALSE]
    /\ \/ db' = Committed(c)
       \/ UNCHANGED db
    /\ UNCHANGED <<turn, cache, lock, embedded, embLock, termCache, copies, lastFail>>

\* Re-introspection commits; it drops neither contexts nor terms.
Introspect(c) ==
    /\ Edits < MaxEdits
    /\ db' = Committed(c)
    /\ UNCHANGED <<turn, cache, lock, embedded, embLock, termCache, copies, editing, lastFail>>

\* What an expired entry holds is never read again.
Aged(e) ==
    IF e.age + 1 < ContextTtl THEN [e EXCEPT !.age = @ + 1]
    ELSE [e EXCEPT !.age = ContextTtl, !.content = Blank]

\* The turn has taken its time stamp and not yet used it.
Stamped(t) == turn[t].pc \in {"embed", "gather", "readTerms", "finish"}

\* Time passes for everything that carries a time stamp.
Tick ==
    /\ cache' = [k \in Keys |-> IF cache[k] = Null THEN Null ELSE Aged(cache[k])]
    /\ embedded' = [q \in Questions |-> Older(embedded[q], ContextTtl)]
    /\ termCache' = [c \in Connections |->
         IF termCache[c].age + 1 < TermTtl THEN [termCache[c] EXCEPT !.age = @ + 1] ELSE NoTerms]
    /\ turn' = [t \in Turns |->
         [turn[t] EXCEPT
            !.since = IF Stamped(t) THEN Older(@, ContextTtl) ELSE 0,
            !.termsSince = IF At(t, "readTerms") THEN Older(@, TermTtl) ELSE 0]]
    /\ db' = [c \in Connections |->
         [v \in DOMAIN db[c] |-> Older(db[c][v], Bound + 1)]]
    /\ lastFail' = [q \in Questions |-> Older(lastFail[q], ContextTtl)]
    /\ UNCHANGED <<lock, embLock, copies, editing>>

Next ==
    \/ \E t \in Turns :
         \/ Ask(t) \/ EnterLock(t) \/ EnterEmbLock(t) \/ Embed(t) \/ Gather(t)
         \/ StoreTerms(t) \/ Finish(t) \/ AppendMissing(t) \/ Abort(t)
    \/ \E c \in Connections : EditTerms(c) \/ CommitTerms(c) \/ Introspect(c)
    \/ Tick

Spec == Init /\ [][Next]_vars

-----------------------------------------------------------------------------
\* _CONTEXT_CACHE never holds more than its maximum, although several keys are
\* built at the same time and each builder makes room for itself only.
CacheIsBounded == Cardinality(Occupied) <= MaxEntries

\* However many turns rebuild the context they share (rebuild_context), the
\* table they miss is in its list at most once.
AppendedOnce == \A o \in Objects : copies[o] <= 1

\* build_context returns to turn t what is cached for its key.  (To its other
\* caller it would return the same.)
Hit(t) == (At(t, "idle") \/ At(t, "lock")) /\ turn'[t].pc = "fetch"
Given(t) == cache[turn'[t].key].content

\* If version v of connection c was superseded, then at most age ticks ago.
LastedTo(c, v, age) == v < Version(c) => db[c][v + 1] <= age

\* A context served from the cache was linked against a catalogue that was
\* superseded less than one ContextTtl ago, and rests on terms superseded less
\* than two such times ago: those of the context and of the term cache add up,
\* and invalidating before the commit does not shorten it.
HitIsRecent ==
    [][\A t \in Turns : Hit(t) =>
         LET c == turn'[t].key[1] IN
         /\ LastedTo(c, Given(t).cat, ContextTtl - 1)
         /\ LastedTo(c, Given(t).terms, Bound)]_vars

\* A context without an embedding is served from the cache only while a
\* failure of the embedding service is less than ContextTtl old: one failure
\* does not outlive the entry made from it.
DegradedOnlyAfterFailure ==
    [][\A t \in Turns : Hit(t) /\ Given(t).degraded =>
         lastFail[turn'[t].key[2]] < ContextTtl]_vars

\* The locks keep turns from doing work twice: a turn starts to build a context
\* only when no other builds it and no fresh one is cached.
NoRedundantBuild ==
    [][\A t \in Turns : At(t, "lock") /\ turn'[t].pc \in {"gather", "embLock"} =>
         /\ ~FreshContext(turn[t].key)
         /\ \A u \in Turns \ {t} : turn[u].key = turn[t].key =>
              turn[u].pc \in {"idle", "lock", "fetch"}]_vars

\* A lock is never left behind: whoever holds one is still building the context
\* of that key, or embedding that question under the lock of its own key.
LocksAreHeld ==
    /\ \A k \in Keys : lock[k] # Null =>
         /\ turn[lock[k]].key = k
         /\ turn[lock[k]].pc \in {"embLock", "embed", "gather", "readTerms", "finish"}
    /\ \A q \in Questions : embLock[q] # Null =>
         /\ At(embLock[q], "embed") /\ Question(embLock[q]) = q
         /\ lock[turn[embLock[q]].key] = embLock[q]

\* The caches between any two steps of turns that share them: bounded, with no table
\* twice in a context and no lock left behind.
CachesAreSound == TypeOK /\ CacheIsBounded /\ AppendedOnce /\ LocksAreHeld
=============================================================================

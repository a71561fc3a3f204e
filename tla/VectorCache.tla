---------------------------- MODULE VectorCache -----------------------------
(***************************************************************************)
(* embed_text of services/embedding_service.py: the vector of a text comes *)
(* from the memory of the process, from Redis, or from the provider, which *)
(* is asked twice.  Concurrent callers, Redis and provider failures,       *)
(* restarts of the process, also with another provider configured.  Redis  *)
(* outlives the process; its keys do not name the provider.                *)
(***************************************************************************)
EXTENDS Naturals, Sequences, SequencesExt

CONSTANTS
    Callers,       \* concurrent calls
    Texts,
    None,
    MaxMemory,     \* _EMBEDDING_CACHE_MAX_SIZE
    Ttl,           \* _EMBEDDING_REDIS_TTL
    Attempts,      \* range(2)
    MaxSwitches    \* bound: provider changes

VARIABLES
    provider,      \* the configured one, numbered by the changes
    since,         \* age of the last change
    late,          \* history: the process started longer than Ttl after that change
    memory,        \* _EMBEDDING_CACHE: texts with their vectors, most recent last
    redis,         \* per text the vector and the age of the entry
    call           \* what each caller is doing

vars == <<provider, since, late, memory, redis, call>>

Providers == 0..MaxSwitches
Vector == Providers          \* a vector is the provider that made it
Cached == [text: Texts, vector: Vector]
NoEntry == [vector |-> 0, age |-> Ttl]

Idle == [pc |-> "idle", text |-> None, tries |-> 0, answer |-> None]

Call == [pc: {"idle", "redis", "provider", "store", "done"}, text: Texts \cup {None},
         tries: 0..(Attempts - 1), answer: Vector \cup {None}]

TypeOK ==
    /\ provider \in Providers /\ since \in 0..Ttl /\ late \in BOOLEAN
    /\ memory \in Seq(Cached)
    /\ redis \in [Texts -> [vector: Vector, age: 0..Ttl]]
    /\ call \in [Callers -> Call]

Init ==
    /\ provider = 0 /\ since = Ttl /\ late = TRUE
    /\ memory = <<>>
    /\ redis = [t \in Texts |-> NoEntry]
    /\ call = [c \in Callers |-> Idle]

At(c, pc) == call[c].pc = pc
Positions(t) == {i \in 1..Len(memory) : memory[i].text = t}

\* A key that is set again keeps its place in the OrderedDict.
Placed(t, v) ==
    IF Positions(t) = {} THEN Append(memory, [text |-> t, vector |-> v])
    ELSE [i \in DOMAIN memory |-> IF i \in Positions(t) THEN [text |-> t, vector |-> v]
                                                       ELSE memory[i]]

Trimmed(m) == IF Len(m) > MaxMemory THEN Tail(m) ELSE m
Remember(t, v) == memory' = Trimmed(Placed(t, v))

Goes(c, r) == call' = [call EXCEPT ![c] = r]
Answer(c, v) == Goes(c, [call[c] EXCEPT !.pc = "done", !.answer = v])

\* embed_text, up to its first await: a hit moves to the end.
Ask(c, t) ==
    /\ At(c, "idle")
    /\ \/ \E i \in Positions(t) :
            /\ memory' = Append(RemoveAt(memory, i), memory[i])
            /\ Goes(c, [Idle EXCEPT !.pc = "done", !.text = t, !.answer = memory[i].vector])
       \/ /\ Positions(t) = {}
          /\ Goes(c, [Idle EXCEPT !.pc = "redis", !.text = t])
          /\ UNCHANGED memory
    /\ UNCHANGED <<provider, since, late, redis>>

\* _get_redis_embedding; a Redis that fails has nothing.
ReadRedis(c) ==
    LET t == call[c].text IN
    /\ At(c, "redis")
    /\ \/ /\ redis[t].age < Ttl
          /\ Remember(t, redis[t].vector)
          /\ Answer(c, redis[t].vector)
       \/ /\ Goes(c, [call[c] EXCEPT !.pc = "provider"])
          /\ UNCHANGED memory
    /\ UNCHANGED <<provider, since, late, redis>>

MayRetry(c) == call[c].tries + 1 < Attempts

\* _embed_with_retry: an answer, or a failure or 1.5 seconds, and EmbeddingError in
\* the end.
AskProvider(c) ==
    /\ At(c, "provider")
    /\ \/ /\ Remember(call[c].text, provider)
          /\ Goes(c, [call[c] EXCEPT !.pc = "store", !.answer = provider])
       \/ /\ Goes(c, IF MayRetry(c) THEN [call[c] EXCEPT !.tries = @ + 1]
                     ELSE [Idle EXCEPT !.pc = "done"])
          /\ UNCHANGED memory
    /\ UNCHANGED <<provider, since, late, redis>>

\* _set_redis_embedding
Store(c) ==
    /\ At(c, "store")
    /\ Answer(c, call[c].answer)
    /\ \/ redis' = [redis EXCEPT ![call[c].text] = [vector |-> call[c].answer, age |-> 0]]
       \/ UNCHANGED redis
    /\ UNCHANGED <<provider, since, late, memory>>

\* The caller goes on, or was cancelled on the way.
Leave(c) ==
    /\ ~At(c, "idle")
    /\ Goes(c, Idle)
    /\ UNCHANGED <<provider, since, late, memory, redis>>

\* Fault variant: the memory is kept, as by a reload inside the process.
Emptied_Not == memory

Emptied == <<>>

\* The process stops and starts, also with a provider whose vectors have another
\* dimension (EMBEDDING_PROVIDER).
Restart ==
    /\ memory' = Emptied
    /\ call' = [c \in Callers |-> Idle]
    /\ \/ /\ late' = (since = Ttl)
          /\ UNCHANGED <<provider, since>>
       \/ /\ provider < MaxSwitches
          /\ provider' = provider + 1
          /\ since' = 0 /\ late' = FALSE
    /\ UNCHANGED redis

Tick ==
    /\ since' = IF since < Ttl THEN since + 1 ELSE Ttl
    /\ redis' = [t \in Texts |-> IF redis[t].age + 1 < Ttl THEN [redis[t] EXCEPT !.age = @ + 1]
                                                          ELSE NoEntry]
    /\ UNCHANGED <<provider, late, memory, call>>

Next ==
    \/ \E c \in Callers :
         \/ \E t \in Texts : Ask(c, t)
         \/ ReadRedis(c) \/ AskProvider(c) \/ Store(c) \/ Leave(c)
    \/ Restart \/ Tick

Spec == Init /\ [][Next]_vars

-----------------------------------------------------------------------------
(* Properties *)

\* Concurrent calls, each making room for itself, keep the memory within its bound
\* and a text in it once.
MemoryIsBounded ==
    /\ Len(memory) <= MaxMemory
    /\ \A i, j \in 1..Len(memory) : memory[i].text = memory[j].text => i = j

\* A change of the provider is over one Ttl and one restart later: from then on
\* every vector handed out is one of the configured provider.
OldVectorsRunOut ==
    \A c \in Callers : late /\ At(c, "done") =>
        call[c].answer \in {provider, None}
=============================================================================

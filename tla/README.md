# QueryWise: a TLA+ model

QueryWise answers questions in natural language about a customer's database: a FastAPI backend
runs a LangGraph pipeline that turns the question into SQL with an LLM, checks and executes it, and
keeps the conversation, the customer's schema and its caches in PostgreSQL and Redis. This directory
models the parts of the backend (`backend/app`), of its scripts and of the chat client where control
flow, interleaving and failure decide whether the system is right.

## Inventory

Paths are relative to `backend/app`. The full list, with the parts left out and why, is
`PROJECT.json` ("components"); the hazards, each at its line, are there too ("hazards").

| Component | State | Operations | What is hard | What must hold |
|---|---|---|---|---|
| Pipeline of one turn (`llm/graph`) | `GraphState`: a dict that nodes extend key by key | 13 nodes, 8 routers | three nested cycles (compose, rebuild, correct); keys left over from an earlier pass; a timeout at any node | bounded statements, only vetted SQL runs, the ending agrees with the last statement, the turn ends |
| Query service (`services/query_service.py`) | none of its own; Redis and history rows | `execute_nl_query`, raw SQL | caching decision, mapping of final states to replies | an error is never an answer |
| Coalescing and SQL cache (`core/query_cache.py`) | three Redis keys with expiry | lock, publish, poll, get, set, delete | a leader that dies or outlives its lock; Redis errors; stale SQL | every request ends, followers wait no longer than the window, dead SQL leaves the cache |
| Connector registry (`connectors/connector_registry.py`, `services/connection_service.py`) | two dictionaries, the pools | get or create, evict, clean up, remove, update a connection | awaits between test and use of an entry | no mix-up of connections, bounded registry, no leaked pool, current connection string |
| Connectors (`connectors/postgresql`, `connectors/sqlserver`) | a pool | execute with a row limit, introspect keys | limits in a text that has some; constraint names that are not unique | an answer is cut off only when it says so; what is declared is reported |
| Context builder (`semantic`) | TTL caches, per-key locks, a session per resolver | search, gather, assemble, rebuild | a cached object shared by turns; one pool for nested sessions; failing resolvers | one build per key, recent metadata, every source searched, all sessions released, no table twice or missing |
| Catalogue (`services/schema_service.py`) | `CachedTable` and what refers to it | snapshot, delete, insert, restore; edits | readers and editors during the rewrite, restore by name | manual work survives |
| Embeddings (`services/embedding_*.py`, `setup_service.py`) | progress records, two caches, vectors | background generation, saving a term, the seed script's upserts, reset | a background task racing the request that started it | the record is honest, vectors are of the present text and provider |
| Start-up (`main.py`, `services/setup_service.py`) | vector columns, sample connection, seeds | resize, set up with retries | a stop at any point, a database that is away, a catalogue without the columns the seeds are for | dimensions agree, seeds are there once and together, the server serves |
| Chat (`api/v1/endpoints/query.py`, history nodes, `chat.service.ts`) | messages, event queues, `QueryExecution` rows | send, stream, cancel, reset, load, append | two end conditions read at different times; turns that overlap | every event and at most one reply, history in order, a follow-up finds the answer it refers to |
| Users and tokens (`api/v1/endpoints/auth.py`, `users.py`, `api/deps.py`) | users, tokens in clients | login, refresh, hand on, change a user | rights that live on in tokens; overlapping administrators | rights that were taken fade; no single request removes the last administrator |
| Knowledge (`services/knowledge_service.py`) | documents, chunks | strip, narrow to the main area, split, chunk, import, delete | boundaries; overlapping imports | no word of the main area is lost, an import replaces |
| Seed script (`backend/scripts/seed_sqlserver_metadata.py`) | one transaction | upsert six lists | a failing row refuses the rows after it, rolls back those before it, or is merely missed | what is reported is there |
| LLM providers, other CRUD, React client | | | I/O or single statements | see `PROJECT.json` |

The client's send becomes a request with an event stream; its task runs the query service, which asks
Redis and then the pipeline; `build_context` goes through the context caches to the catalogue and
the vectors, which introspection and the background tasks rewrite meanwhile; `execute_sql` asks the
registry for a connector; `write_history` leaves the row the next turn starts from.

## Modules

| Module | Models | Run |
|---|---|---|
| `QueryPipeline` | one turn through `llm/graph`, and `execute_nl_query` after it | `pipeline`, `pipeline_ends` |
| `TurnContract` | what a turn promises its caller; `QueryPipeline` implements it | property `ImplementsContract` |
| `QueryPipelineClaims` | a sentence of a docstring that the code refutes | `claim_schema` |
| `QueryCache` | coalescing and SQL cache around the pipeline | `coalescing`, `cache_liveness` |
| `ConnectorRegistry` | the registry under asyncio, and `update_connection` | `registry`, `server` |
| `RowLimits` | the limits the connectors put into statements | `catalogue` |
| `ContextCache` | context, embedding and term caches with their locks, and rebuilds | `context` |
| `ContextSessions` | the sessions of turns that build contexts, and one pool | `server` |
| `ContextAssembly` | which tables a context gets, stage by stage | `catalogue` |
| `Catalogue` | `introspect_and_cache` with editors, a reader and a second introspection | `catalogue` |
| `Introspection` | what the connectors report of primary and foreign keys | `catalogue` |
| `VectorCache` | `embed_text`: memory, Redis, provider | `catalogue` |
| `Retrieval` | these last four and `RowLimits` side by side, stated for every value of their constants | `catalogue` |
| `Embeddings` | background embedding, the progress record, saved terms, restarts | `embeddings` |
| `KnowledgeText`, `PromptText`, `ReplyText` | chunks of a document, merged sections of the prompt, the JSON of a reply | `embeddings` |
| `JsonText` | JSON values and how they are written, as far as `ReplyText` looks at them | `embeddings` |
| `Wording` | these texts beside `Embeddings`, stated for every value of their constants | `embeddings` |
| `Startup` | `lifespan`: dimensions, sample connection, seeds | `server` |
| `ChatStream` | client, event stream, task and history rows | `chat` |
| `ChatContract` | what a user sees of a chat; `ChatStream` implements it | property `KeepsChatContract` |
| `Access` | users, tokens, administrators' requests | `administration` |
| `SeedScript` | the seed script beside the server | `administration` |
| `KnowledgeImport` | overlapping imports of one URL, deletion | `administration` |
| `Server` | the suite of `Startup`, `ConnectorRegistry` and `ContextSessions`, with their liveness | `server` |
| `Administration` | the suite of `Access`, `SeedScript` and `KnowledgeImport`, stated for every value of their constants | `administration` |
| `QueryPipelineProofs`, `QueryCacheProofs`, `ChatStreamProofs`, `ServerProofs`, `ContextCacheProofs`, `AdministrationProofs`, `EmbeddingsProofs`, `CatalogueProofs` | theorems about the module of that name (`EmbeddingsProofs` also about `Wording`, `CatalogueProofs` about `Retrieval`) | |
| `MC...` | instances for TLC, symmetry, suites | |

Definitions whose name has a suffix after an underscore (`AutoFixed_Uncounted`) are fault variants: what
the definition without the suffix would be after a plausible mistake. Nothing uses them; each shows
that some property notices that mistake. `PROJECT.json` ("map") gives the source lines of every
definition that models code.

A suite (`Server`, `MCCatalogue`, `MCEmbeddings`, `Administration`) checks
several independent modules in one run: `which` names the one a behaviour is of, the variables of
the others keep their initial values, and each property speaks of its own module only. That loses
nothing, because the modules share no variable. Pure algorithms take part as initial states that stay
as they are, one for each bounded input. In every suite and every module, an action is the code between
two awaits that really suspend; for the scripts, between two statements.

Where several invariants say one thing of a component together, the run checks their conjunction:

| Checked | Parts |
|---|---|
| `PipelineInv` | `RetryBudget`, `VettedBeforeExecution`, `ClarificationEndsTurn`, `ErrorEndsAsClarification`, `ReportedAnswerIsCurrent` and what their proofs need |
| `CoalescingIsSound` | types, `ResultOutlivesLock` |
| `RegistryIsSound` | types, `RegisteredForItsId`, `EvictionReachesAll` |
| `SoundAlone` | as long as no two requests overlapped: `CapacityRespected`, `SameKeys`, `NoLeakedPool`, `SavedStringInUse` |
| `StartupIsSound` | types, `DimensionsAgree`, `SeededOnce`, `SeededTogether` |
| `CachesAreSound` | types, `CacheIsBounded`, `AppendedOnce`, `LocksAreHeld` |
| `CatalogueIsSound`, `ManualWorkSurvives` | types, `CachedOnce`, `ColumnsAreTheirs`; `RelLostOnlyUnseen`, `EntryLostOnlyUnseen` |
| `ContextIsComplete` | `NoTableTwice`, `NamedTablesPresent`, `SizeIsBounded`, `JoinsCovered` |
| `VectorsRunOut` | types, `MemoryIsBounded`, `OldVectorsRunOut` |
| `KeysAreTrue` | `DeclaredIsReported`, `ReportedIsDeclared`, `PrimaryIsTrue` |
| `EmbeddingsAreTrue` | types, `RecordAddsUp`, `CompletedIsTrue`, `StaleOnlyByRace` |
| `DocumentIsKept` | `WindowsStayTogether`, `PathsAreAncestors`, `NothingLost` |
| `PromptAndReplyAreKept` | `MappingsAreKept`, `JoinsAreTold`; `ValueIsFound`, `CutOffIsRefused` |
| `RightsFade` | types, `DeactivatedFadesOut`, `StaleAdminFades` |
| `ScriptIsSound` | types, `KeyedTogether`, `CleanRunIsComplete` |
| `ChatIsSound` | types, `EventsBeforeResult`, `HistoryInOrder` |

The sections below speak of the parts.

### QueryPipeline

`pc` is the node to run next, `st` is `GraphState`, `row` the saved `QueryExecution`, `reply` what the
caller gets, `stored` the SQL given to the SQL cache; `dbRuns`, which no action reads, counts executions. One
action per node; the router that follows it is the operator `RouteAfter...`, and the action assigns `pc`
by it. A node changes exactly the keys its code returns, so stale keys stay stale, as in LangGraph. A SQL
text is a set of table names and a form: clean, malformed (unknown column, not parsable), blocked
(safety patterns, not a SELECT). A key that `GraphState` does not declare is dropped by LangGraph, which
is why `TargetNodeRead` is constant: `_target_node` never reaches the router. A route that the path map
lacks raises (`FollowResolveEdge`). `NodeRaises` is an exception nobody catches, `PipelineTimeout` the
45 s limit. The branch of `compose_sql` for too many attempts is modelled although the limits in the
source never let it be taken.

Bounds: `pipeline` has a name in the catalogue and one outside it, the two cases the validator tells
apart, and the retry limits of the source (3, 2, 3); `MaxRelinks` = 1, because the cached context lives
300 s and a turn 45 s. There a rebuild never repairs a non-empty schema, so `pipeline_ends` has two names,
both in the catalogue, and limits of one retry each. It leaves the outside name out on purpose: with one,
`validate_sql` and `rebuild_context` hand it to each other until the timeout. Fairness (`Terminates`): a
node that is ready runs, as every await returns or fails.

### QueryCache

The requests that share one coalescing key and one SQL cache key. `lock` and `published` are the
seconds the two coalescing keys still live, `sql` the SQL cache entry, `version` the customer's schema,
`req[r]` where request slot `r` is in `execute_nl_query`. A `Tick` is a second: keys age, sleeping
followers wake. An answer or a cached SQL is reduced to its `Basis`: the schema version it ran on and
whether prior turns of a session went into it. Without Redis everybody is a leader without a result key,
as in the code. The pipeline is one step here: it is cached, answers, or raises; by
`ErrorEndsAsClarification` the branch that publishes an error is never taken, so it has no step.
`Disconnect` is the cancellation by the streaming endpoint.

Bounds: two slots, each reused without limit, so a leader, a follower and the rounds after them occur;
`Window` is 3 polls (10 in the source) so that a follower polls first, in between and last; one schema
change; one fault. The liveness run has no fault: a leader that raises has the same effect as one that
is cancelled, and the fault would only double the states. Its window is 1: a longer one repeats the
same wait, and `FollowerWaitsFirst` is checked with 3. Fairness: time passes and awaited calls return
(Redis and the pipeline have timeouts). New requests are not owed: `StaleSqlIsThrownOut` assumes that
requests keep being served from the cache.

### ConnectorRegistry and RowLimits

`active` and `lru` are the two dictionaries, the second as a sequence ordered by access time; `pool`
and `made` describe the connector objects; `saved` the committed version of each connection string;
`task[t]` where a request is; `overlapped`, a history variable, whether one ever began while another was under
way. An await of `test_connection` or `disconnect` on a connector without pool
does not suspend. `Objs` names the objects somebody refers to, a name is reused when nobody does; tasks
plus ids are enough. Which call is the hundredth, and which entries are older than an hour, is left open:
any call may sweep, and what it sweeps is some number of the oldest entries.

In every interleaving: `RegisteredForItsId`, `EvictionReachesAll`, `EveryCallReturns`. As long as requests come one
after the other (`~overlapped`): `CapacityRespected`, `SameKeys`, `NoLeakedPool`, `SavedStringInUse`. The second list fails once
two requests overlap: the capacity is tested before the await of `connect()` and the entry added after it;
`remove_connector` deletes whatever is registered after the await of `disconnect()`, perhaps another
connector with its pool open; and an update is invalidated before its commit. `RowLimits` is about the
texts: a statement is a SELECT over a subquery or a common table expression, or a set operation (UNION ALL,
EXCEPT) that may start with a parenthesis, with a limit of the whole and one of the part. Which limit the
pattern finds first depends on the dialect: a TOP stands before what it limits, a LIMIT behind it; where there
is none, PostgreSQL gets a LIMIT behind the whole, SQL Server a TOP behind the first SELECT, which in a set
operation is that of its first branch, or one around what starts otherwise, and a text with LIMIT in it is left alone
(`mentions`). `AnswerIsHonest` says that an answer
that is not marked as cut off has every row the statement has, unless the database refuses it (a WITH that was
wrapped) or only a part was cut: a greater limit of a subquery was lowered, or a branch of an operation that
takes rows away was limited.

Bounds of `registry`: two tasks, two ids and capacity one, so that the second connection evicts the first
(larger ones are covered by the theorems). Bounds of the statements, in `catalogue`: 3 rows asked for, so 4
fetched; written limits up to 5 and tables of up to 6 rows, on both sides of that; up to two rows for each of
the subquery's. In
`server` both tasks meet on one id. Fairness: a started request goes on, as every call to a database
returns or fails.

### ContextCache, ContextSessions, ContextAssembly

`ContextCache` has turns inside `build_context` and `rebuild_context`, the three caches, the two kinds of
locks and the edits that invalidate. What is in a context is reduced to the version of the catalogue and of
the terms it was made from, whether it had an embedding, and how often the one table that a rebuild asks for
was appended. Times are ages, cut off where no comparison tells them apart; every commit to a connection's metadata has its own, so
that it is known when each version was superseded. `HitIsRecent` bounds how old the
terms in a cached context may be by the sum of the two time limits; that an invalidation precedes its
commit, and that contexts are not invalidated by edits, is why the bound is not smaller.
`DegradedOnlyAfterFailure`: a context without embedding is only handed out within one time limit of a
failure. Bounds: two turns, two connections and one question (so two keys), room for one entry, limits of 1
and 2 ticks, one edit: enough for an entry to expire, to be evicted and to be rebuilt from terms about to
expire.

`ContextSessions` has the connections: the request's own, which authentication opens, that of
`build_context`, and one for each resolver of `asyncio.gather`. A statement takes a connection or waits; a
wait ends after 30 s (`WaitEnds`), otherwise two turns that hold connections and wait for more would wait for
ever: `SessionsAreReleased`. A resolver whose statement fails retries in the aborted transaction, where every
retry is refused, and then falls back; `SourcesAreSearched` says that whatever fails, a context is assembled
only from sources that were searched. Resolvers that a failed turn leaves behind go on by themselves. Bounds:
two turns over a pool of three, each of which needs up to five, one retry, one fault. Fairness: a statement
returns or raises, and waits end.

`ContextAssembly` follows a list of tables through the search, the scores and the five stages that append to
it, while the catalogue may be re-introspected (all ids change). `NoTableTwice` is stated where names can be
compared (the code lowers some and not others, `context_builder.py:290`) and the catalogue stays.
`JoinsCovered` is about lists of at least two tables: for a single one no relationship is looked up
(`AreSeveral`), so that a key which refers to its own table gives no join there. Bounds:
three tables, one of them with a capital letter, foreign keys between them and of a table to itself, scores on
both sides of each threshold, limits of one or two tables, so that every cut occurs and contexts of one table
do; the theorem has no bounds. A catalogue is replaced at most once while a
context is assembled.

### Catalogue, Introspection, VectorCache

`Catalogue` is one connection's catalogue at READ COMMITTED: each statement of `introspect_and_cache` sees
what is committed when it begins, a delete waits for rows that another transaction deletes, an insert for
the rows its foreign keys name. `intro[i]` holds what an introspection has seen and drafted. Bounds: two
names, one of them in two schemas, one column of two names, two introspections, one edit, one change of
the customer's database. `RelLostOnlyUnseen` and `EntryLostOnlyUnseen` say what an introspection may lose:
what was added after its snapshot, and what the customer's database no longer has. `CachedOnce` excludes
overlapping introspections, which leave the rows of both behind.

`Introspection` compares the keys reported with those declared, for every database of three tables with three
primary keys and two foreign keys, in both dialects; the theorem is about any number of them, of any length. What it may not say is in its statements: pairs of
columns of a composite key are all reported, and constraints of one name are mixed.

`VectorCache`: two callers, three texts, a memory of two, a time limit of two ticks, one change of provider.
`OldVectorsRunOut`: Redis outlives the process and its keys do not name the provider, so vectors of the old
one are handed out until the time limit after a change and a restart after that.

### Embeddings and what is made of text

`Embeddings` has two tasks of one connection (background tasks or the script), one who saves a term (an
endpoint, which embeds it, or the seed script, which does not), an introspection, resets and restarts. A
transaction locks what it flushes and fails when a row is gone. `RecordAddsUp`, `CompletedIsTrue`, and
`StaleOnlyByRace`: the vector of a term is one of its present text unless it is `excused`, a history variable:
the last to save the term left the vector of an older text in the row (its embedding failed, or it was the seed
script, whose ON CONFLICT updates the text only; what re-embeds takes rows without a vector), or saved it
while a task held the term. Bounds: two rows ever for each kind, two texts; tasks, saves and restarts are not
counted.

`KnowledgeText`, `PromptText` and `ReplyText` are pure algorithms. A loop of the code is a function of the
number of its rounds (`Cleaning`, `Splitting`, `Chunking`, `Merged`, `Scan`, ...), which gives its variables
after that many, and a helper (`CleanedWith`, `ChunkedWith`, ...) is one round. `Wording` has their inputs as
variables that nothing changes.

`KnowledgeText` strips and cuts documents of up to five items with a window of three words and an overlap of
one; the items are words and, in three sets of documents, the headings and dropped blocks, the tags of all
areas, and a heading with a block and a content div. Stripping drops the blocks (`Stripped`), then narrows to
the first kind of area found, main, article or content div in this order (`MainContent`); the patterns are
greedy, so what is taken is all between the first opening tag and the last closing one, and what is outside of
it is discarded. Of what is left nothing visible is lost (`NothingLost`: the words that `Hidden` and `InMain`
name, read off the page and not off the stripped text), any words that stand next to each other and are one more than
the overlap are next to each other in a chunk too, and where no heading level is skipped the path of a section
names the headings it stands under. An item is its position, so that words are told apart. `PromptText` merges
up to three entries of two tables and columns, and up to three joins beside an inferred one. `ReplyText` finds
the value in a reply around which the model wrote something, for values with strings that hold brackets and
escapes, bare or between fences, and refuses one that is cut off. A preamble with a quote in it is left out of
the last statement: with the first quote of the value it would make a string, which `json.loads` takes.
Bounds: values of one string of up to two pieces, a nested value and a literal, with up to one token before
and after them, so that each branch of the walk is taken; the theorems have no bounds.

### Startup

The server checks one column's dimension, resizes all in one transaction, and sets up the sample connection
in up to `MAX_RETRIES` attempts with two commits each; it may stop anywhere and come back with another
provider, and administrators act while it serves. They are also who makes the connection of that name: where
there is none, `_ensure_connection` reads a setting that `Settings` does not declare, and the attempt fails.
The dictionary's seeds are for columns; those the catalogue lacks are skipped, so an introspection decides
whether the kind gets rows (`found`). `DimensionsAgree`, `SeededOnce`; `SeededTogether`: where one kind is
seeded the others are, but for what administrators have touched and the dictionary of a catalogue with none of
its columns; and `StartEnds`: it serves in the end, whatever is away. Bounds: three columns, two dimensions, two attempts (the
first and the last), two stops. Fairness: the start goes on, as each of its statements returns or fails.

### ChatStream

From the browser to the history and back. The client is atomic between two events of the user or the
network; the stream and the task are processes of the server that share a queue. A turn comes to an answer, an
explanation of the last one (which leaves a row that the loader skips), a question back or an error; what the
user sees become of it (`outcome`) may also be a withdrawal or silence: a result the client cannot parse (a NaN
in its rows) is skipped, and the loading ends with no bubble. `EventsBeforeResult`,
`HistoryInOrder`, `FollowUpContext` (a follow-up finds the last answer the user was given in this session,
unless it is too far back, its load failed, which counts as an empty history, or a turn that was given up or
passed over in silence came after it), `LoadingEnds`, and the refinement `KeepsChatContract`: a question stands
open until it is answered, passed over in silence, withdrawn, or the chat is cleared, and nothing else appears.
Bounds: two turns after a stored session with an answer and one row more, two sessions,
one event in a queue, one fault, two rows loaded. Fairness: the client reads, the server runs; nobody has
to click.

### Access, SeedScript, KnowledgeImport

`Access`: a request reads its actor, then its user, and commits; others run between. `DeactivatedFadesOut` and
`StaleAdminFades` bound how long rights live on in tokens that are refreshed and handed on;
`LastAdminGoesOnlyByRace` says that only a request whose actor has lost the right meanwhile removes the last
administrator. Two users, clients and requests, tokens of two ticks; a tick is longer than a request that
issues a token.

`SeedScript`: one transaction; a failing dictionary entry or relationship rolls it back and goes on in a new
one, one whose columns or tables the catalogue lacks is skipped (`RowSkipped`). A row of the four lists with keys
fails in two ways that the same `except` reports: the database refuses it, and with it all that comes after
(`Refused`), or it fails before it is sent, for it lacks a field, and the run goes on without it (`Missed`).
`KeyedTogether`: the lists are at one edition unless the run that wrote them missed a row (`partial`, a history
variable); `CleanRunIsComplete`. Bounds: two rows, two editions of the lists, two catalogues.
`KnowledgeImport`: two importers of one URL, and deletion. `ImportReplaces` is about what an import saw; two
that overlap leave two documents.

## Proofs

Eight modules hold theorems, for every value of the constants under the assumptions the modules name. A
safety property is proved through an inductive invariant, a conjunction that the theorems take their parts
from.

- `QueryPipelineProofs`: `TypeCorrect`, `PipelineSafe`, `BudgetHolds`, `OnlyVettedSqlRuns`, `EndingsAgree`,
  and `KeepsContract` (the refinement). `RetryBudget` needs to know that a statement is paid for one node
  before it runs (`RunsArePaidFor`), which needs that nothing ran or failed before a SQL exists
  (`FreshBeforeSql`); `ReportedAnswerIsCurrent` needs that no result exists before the turn is over
  (`NoResultBeforeEnd`), and `ClarificationEndsTurn` that `handle_follow_up` is reached with one action only.
  Their conjunction, `PipelineInv`, is checked by TLC too. `EarlyStep`, `ProgressStep` and `VettedStep` prove
  the step; `ContractStep` maps each node to a contract step or a stutter. Three more invariants are about
  what a turn carries from one pass to the next. `ScopeIsKept`: no prompt of a scoped user, first or repeated,
  is made of a context that was not scoped (`PromptIsScoped`: `build_context_node` picks the prompt before the
  composer is reached). `OnlyVettedSqlIsCached`: a query that runs, or has run and has a result, was composed
  and passed the validator or is a sample (`QueriesAreVetted`), and nothing is stored before the end
  (`StoredAtEnd`). `RebuildsAreCurrent`: the flags that ask for a rebuild are spent by the node that follows
  them (`FlagsAreSpent`), so none is left for the tables of an earlier SQL. `EveryNodeCounts` is what the end
  of a turn rests on: `NodesLeft`, the nodes that may run before the end or the next retry and five for each
  retry that is left, is at most 13 + 5 * (`MaxRetries` + `MaxComposeRetries` + `MaxRelinks`), and each node
  lowers it, except a rebuild that is asked for a table the catalogue does not have, the one cycle of the
  graph that no counter bounds. With the fairness that a ready node runs, which is TLC's part, a turn ends by
  itself.
- `QueryCacheProofs`: `CoalescingStaysSound`, `FollowersWait`. `CacheInv` says for each request where it stands and
  what it holds (`GoodRequests`): a follower that computes has waited through the window or met a fault
  that is counted, and one that polls or sleeps has some of the window left.
- `ChatStreamProofs`: `ChatInvariant`, `ChatStaysSound`, `FollowUps`, `KeepsChat`. `ChatInv` has what makes the four
  accounts of a turn one: the question that waits is the last one sent (`OpenIsLast`); every message shown was sent,
  two for each turn at most (`ShownIsSent`); task, stream, queue and outcome of a turn agree (`TurnsAgree`); a turn
  with a row has told, or will tell, the user what its row says (`RowsAgree`); and the rows a session can hope
  for come in the order of the replies (`HopedInOrder`). `FollowUps` rests on one argument: the turn that loads,
  unless it was given up, is the one that is open, so the turn of the row it starts from is settled, and its row
  agrees with what the user saw. `KeepsChat` is the refinement: the client's read of an ending and its broken
  stream are the contract's answer or, if it shows nothing, its silence; cancelling withdraws, sending asks, and what the server does is a
  stutter. A load that fails gives no base and is counted as a fault, which is the case `FollowUps` names.
- `ContextCacheProofs`: `LocksComeBack`, `CacheStaysBounded`, `NothingAppendedTwice`, `OneBuilder`, `CachesStaySound`,
  `HitsAreRecent`, `DegradedHitsAreRecent`. `LockInv` adds to
  `LocksAreHeld` its converse: whoever is at the work of a lock holds it. Two turns at the work of one key would
  both hold its lock, which gives `OneBuilder`; `Sizes` counts entries and copies. `Types` is part of the invariant:
  a new context needs an object nobody refers to, and `ObjectIsFree` finds one by counting, the entry and the other
  turns referring to fewer objects than there are. Versions are natural numbers there; the runs bound the edits.
  `Recent` says the same of everything that carries a time stamp, a cached entry or a turn on its way: what it read was
  superseded, and its question last failed, no longer ago than the stamp is old, because the stamp is taken first. Terms that
  came from their cache add that cache's age, which is where the bound of `HitIsRecent` is a sum. A step lets all ages
  grow by one (`Tick`) or none (`Ages`), and a commit supersedes one version at age zero.
- `ServerProofs`, part by part. Of `ConnectorRegistry`: `RegistryTypeCorrect`, `NeverMixedUp`, `NothingOutOfReach`, together
  `RegistryStaysSound`. `RegistryInv` adds what a task carries over its awaits: who tests or connects a connector holds
  one made for its id. It is stated over a registry about to be written, because `get_or_create_connector` drops,
  evicts and starts to connect in one step. `SoundOneByOne`: until two requests overlap at most one is under way (`AloneInv`),
  its registry is `Tidy` (the access list names each entry once and no other, what is open is cached, what is cached is of
  the saved string), and what it knew before an await is still so after it (`Steady`): the entry it tests or removes is still
  the one it looked up, and there is room for the one it connects. Of `ContextSessions`: `SessionsTypeCorrect`, `NoSourceIsSkipped`; `Sound` relates
  where a resolver stands to where its turn is: one that is done has read its source, and after the gathering all
  are done. Of `Startup`: `StartupTypeCorrect`, `ProxyTells`, `NoSecondSeeding`, `SeedsAreWhole`, together
  `StartupStaysSound`; what is committed is compared with what the open transaction holds, step by step of the start:
  a kind that was passed is held, committed or changed by an administrator, and `found` does not change
  while the seeds are open.
- `AdministrationProofs`, about the suite `Administration`, hence about its three modules. Of `Access`:
  `AccessTypeCorrect`, `DeactivationIsFinal`, `StaleRoleEnds`, together `RightsDoFade`; `LastAdminNeedsARace`. A token's
  remaining life and the time since the right was lost add up to at most one lifetime. Of `SeedScript`:
  `TheScriptIsSound`. `ScriptInv` adds to `KeyedTogether` what the open transaction holds of the lists done so far:
  unless it has missed a row, they are there at the edition of this run as long as no row failed since
  (`ListsMove`), a failed or missed row is reported, and a run it breaks ends before it inserts what has no key
  (`FailuresShow`); each run adds
  at most one copy of a relationship (`CopiesCount`). Of `KnowledgeImport`: `ImportTypeCorrect`, `ImportsReplace`. Between its delete and its commit, an
  import knows every document of the URL: deleted, its own, or committed later.
- `EmbeddingsProofs`: `EmbeddingsInvariant`, `EmbeddingsStayTrue`. Several tasks count in one record, which a
  new task may have replaced meanwhile: `RecordCounts` bounds what it may still reach by the kinds that the
  tasks under way have left to count (`Once`, `Twice`), and `SoonTrue` says that who made it "completed" will
  commit, or fail and say so. For the vectors, the rows a task has written are locked until it ends
  (`Locked`), and what it holds of the term is of the present text unless it is excused (`UpToDate`): who saves
  the term while a task holds it, or leaves a vector of another text in it, is the one who sets `excused`, and a
  row without a vector is no exception.
- `EmbeddingsProofs`, of `Wording`: `DocumentStaysKept`, `PromptAndReplyStayKept`, for texts of any length.
  The induction theorems of the library cannot be used here, so `Induction` is proved from the
  well-foundedness of strict inclusion between finite sets: a set with 0 and the successor of each has every
  number. `LoopExists` and `LoopIn` give from it that a loop has a value after each round, and that a set each
  round stays in has them all. Then each loop has its invariant. Chunks: what is before `start` is covered,
  and the next chunk starts further on, by the overlap before its end; for this `WordsAssumption` (`Overlap` <
  `MaxWords`, 80 and 450 in the source) is needed, without which the loop would not advance. Nothing lost: the
  HTML that is left is what no block hides (`CleanStep`: `until` is the end of a block that is open), and what
  the narrowing takes of it is what the page's main area has (`CleanIsTold`): as what is left keeps its order, a
  pair of tags stands around an item there exactly if it does in the page (`AreaStays`, `TakenIsMain`). The
  sections have its words (`SplitTo`), the chunks those of the sections (`HasParts`). Paths: the stack has the
  open headings in order, one of each level (`Above`, `Levels`), as long as no level is skipped. Prompt: once
  kept in a line, a mapping stays (`IsKept`), and what is told is told once (`ToldOnce`). Reply: the walk is
  outside of strings after each lexeme, at the depth of the brackets (`LexemeAt`, `ValueAt`), so it ends where
  the value does; in a part of a value it finds no end. The rest is that such a text is not valid when it is
  mended: the walk through the mended text goes along with the walk through the text (`Alike`: they differ by
  a comma that is dropped), so it finds no end either, while in a text that `json.loads` takes it would. That
  a text it takes is a value, or has no bracket outside of a string, is `JsonAssumption`: the grammar of JSON.
- `CatalogueProofs`, of `Catalogue`: `CatalogueInvariant`, `CatalogueStaysSound`, `ManualWorkIsKept`. Rows are told apart by the
  number of the introspection that made them, and a number is used once: `Past` numbers are those no running introspection
  has, and what is committed or was ever read is of those, so a row that was deleted does not come back
  (`ColumnsFit`: why the column cache may be stale but never shows another table's columns). `DraftFits` and
  `RestoredFits` say what an introspection holds before it commits, `AloneFits` that one which met no other deletes all there is,
  which gives `CachedOnce`. `ManualWorkIsKept` needs that a label stands for the same names in the committed rows and in
  all that introspections have seen and drafted (`LabelsFit`). Of `VectorCache`: `OldVectorsDoRunOut`. `RedisIsOld`: an
  entry in Redis of another provider is older than the change; once that is a lifetime ago there is none, and a process that starts
  then never reads one (`ProcessIsClean`). What a call stores is the configured provider's, because a change needs a
  restart, which ends all calls. Of `Introspection`: `ReportedKeysAreTrue`; what is reported and
  not declared needs a composite key, or two constraints of one name. Of `RowLimits`: `AnswersAreHonest`; fetching one row
  more than the limit tells a result that was cut off from one that just fits. What it needs is that the
  statement's rows and those of the text with the limit are `Alike`: equal, or both more than the limit. That is
  so for a limit of the whole, and goes through a UNION ALL or a product from a branch or a subquery that gets a
  new limit; an operation that takes rows away does not keep it, which are the cases the property leaves out.
  Of `ContextAssembly`: `ContextsAreComplete`. `Allowance` says how many tables each stage may have listed: a cut keeps no more
  than its limit (`TopIsSmall`), and each id appended adds one entry (`EntriesGrow`). `IdsWereGiven` (no id of a
  catalogue yet to come) makes the id of a listed name the present one as long as the catalogue stays, which
  `JoinsCovered` needs; `NothingListed` says that the search starts empty.

Every invariant, action property and refinement the passing runs check is the property of a theorem. Only model-checked is
liveness (`Terminates`, `EveryRequestEnds`, `StaleSqlIsThrownOut`, `EveryCallReturns`, `StartEnds`, `SessionsAreReleased`,
`LoadingEnds`): the prover has no fairness and no ENABLED. TLC also finds the one violation that is expected, of `claim_schema`.

## Findings

`claim_schema`: a schema question raises, its route is missing in the path map of `resolve_turn`.
`PROJECT.json` quotes the sentence it refutes. The models also contain, without a run of their own:

- Pipeline: a rebuild that cannot add a table outside the catalogue is entered again; the follow-up heuristic
  overrides the feature flag (`resolve_turn.py:285`); a reused answer is sent to the database again
  (`handle_follow_up.py:325`); a SQL corrected after a database error goes to the validator, because
  `_target_node` is no key of `GraphState` (`handle_error.py:210`).
- Coalescing: the key leaves out `skip_cache` and `clear_context`, so such a request may be handed an earlier
  answer; followers wait for a leader that died.
- Row limits: SQL Server's TOP goes behind the first SELECT, so in EXCEPT or INTERSECT it limits the first
  branch, and rows are lost in an answer that is not marked as truncated (`sqlserver/connector.py:461`); a
  statement that starts with WITH and has no TOP is put inside a query, which T-SQL refuses (line 467).
- Registry: a connector of the old string stays cached after an update (`connection_service.py:97`).
- Sessions: `_retry_db` retries without a rollback in an aborted transaction, so no retry can succeed
  (`glossary_resolver.py:24`; `find_relevant_tables` rolls back); `gather` leaves the other resolvers running.
- Context: forced anchor tables do not survive the cut (`schema_linker.py:216` onwards); the limit of a
  subquery is lowered too (`postgresql/connector.py:287`); mappings that differ are merged under a line
  without table name (`prompt_assembler.py:212`); a context of one table gets no join of the table with itself
  (`context_builder.py:394`).
- Catalogue: overlapping introspections leave every row twice; entries and relationships restored by bare
  name may move to another schema; `delete_manual_relationship` deletes declared ones too; PostgreSQL foreign
  keys to another schema are dropped; composite keys are reported as all pairs of their columns.
- Embeddings: a record may say "completed" before the commit, or "running" for ever after a failure to
  commit; a task launched before the commit may count nothing; Redis hands out vectors of the old provider. The
  seed script updates the text of a term or metric and keeps the vector of the old one
  (`seed_sqlserver_metadata.py:2346`, `2388`), and what embeds takes rows without a vector only.
- Start-up: only the sample connection regenerates its vectors after a resize; an own entry made before the
  seeding keeps its kind from being seeded; where some of the dictionary's columns are missing, their entries
  are skipped and never seeded later, as the others count. The sample connection itself is never created: `setup_service.py:759` reads
  `settings.sample_db_connection_string`, which `config.py` does not declare, although the README (line 113:
  "Seeds the sample environment on startup") and `docs/04-operations-behavior-and-limitations.md:45` say that
  start-up seeds it.
- Chat: a cancelled turn may still be recorded; after a reset the old session stays current until the new
  one is created; a turn answered from the SQL cache leaves a row without context, a coalesced one no row. A
  result the client cannot parse ends the loading without a word (`chat.service.ts:174`, `195`); a history
  that cannot be loaded is an empty one, so a follow-up silently loses what it refers to (`load_history.py:108`).
- Users: the row of a failed login is rolled back with the error (`auth.py:71`), and so is the row of a
  failed raw statement (`query_service.py:518`).
- Seed script: each run adds another copy of a relationship (its docstring, line 33, calls it safe to run
  again); a failing row rolls back those before it. A row that fails before it reaches the database leaves its
  list short of it while the rest is committed, and the run prints "All data committed".
- Knowledge: what a page says outside of its first kind of area, as in an article beside `<main>`, is not
  imported (`knowledge_service.py:116`); overlapping imports of a URL leave several documents; only the first chunk names the path;
  skipped heading levels nest siblings; `repair_json` mends literals inside strings too (`llm/utils.py:72`), and
  returns a string for a reply cut off at a quote that follows a quote of the preamble.

## Not modelled

LLM providers and their retries (what they answer is a choice); the text of prompts, and scores; LangGraph's
step limit; the SQL Server `test_connection`, which reconnects in place; `delete_connection` in the registry;
CSRF, rate limits and passwords; the race of two turns for a session's title; the React client; endpoints
of one statement in one transaction; backup and restore; logging, metrics and tracing; the nodes no edge
reaches. `relationship_inference` has an empty list of rules and nothing fills `services/schema_cache.py`, so
neither has behaviour to model.

## Plan

1. The SQL Server connector's reconnect in `test_connection` under two requests, as part of `ConnectorRegistry`.
2. `generate_sql_only` and `execute_raw_sql` with their rows, beside `QueryPipeline`.

# Verification of antwort

antwort is a gateway that serves the OpenAI Responses API on top of inference
backends: it translates requests, streams answers as server-sent events, runs
an agentic loop with server-side tools, stores responses, and processes
requests in the background. This directory holds TLA+ models of its core, the
TLC configurations that check them, and proofs checked by TLAPS. Paths below
are relative to `src/`.

## 1. Inventory

| Component | State | Operations | Interacts with |
|---|---|---|---|
| Status machine (`pkg/api/state.go`) | the status of a response | `ValidateResponseTransition` | memory store |
| Background gateway (`pkg/engine/engine.go` `handleBackground`, `pkg/transport/http/adapter.go` `handleDeleteResponse`) | the handler goroutines of POST and DELETE | save response, save request, reply; get, cancel or soft-delete, signal | store, worker's cancel registry |
| Background worker (`pkg/engine/background.go`) | poll loop, cancel registry, one goroutine and one heartbeat per job | `pollOnce`, `processRequest`, `heartbeat`, `detectStale`, `cleanupExpired`, `CancelRequest`, `Stop`, `markInFlightAsFailed` | store, engine, other workers through the database |
| Response stores (`pkg/storage/memory`, `pkg/storage/postgres`) | entries or rows, eviction list, deletion marks, heartbeats | save, get, update, delete, claim, clean up, find stale | everything above |
| Circuit breaker and retries (`pkg/provider/resilience`) | `state`, `failures`, `lastFailureTime`, all atomics | `Allow`, `RecordSuccess`, `RecordFailure`, `handleError`, `Classify` | all request goroutines |
| Streaming engine (`pkg/engine/engine.go`, `events.go`, `loop.go`) | `streamState`, the accumulated items, the turn | `handleStreaming`, `runAgenticLoopStreaming`, `consumeStreamTurn`, the `map*` functions | provider channel, SSE writer, tool goroutines |
| Provider stream reader (`pkg/provider/openaicompat`) | buffered tool calls, a channel of 16 | `ParseSSEStream`, `TranslateChunk`, `FlushToolCalls` | backend, engine |
| SSE writer and in-flight registry (`pkg/transport/http/sse.go`, `pkg/transport/inflight.go`) | `writerState`, the registered cancel functions | `WriteEvent`, `WriteResponse`, `Register`, `Cancel`, `Remove` | engine, tools, DELETE |
| Non-streaming agentic loop (`pkg/engine/loop.go`) | messages, items, usage | `runAgenticLoop`, `executeTools` | provider, executors |
| Conversation history, conversations (`pkg/engine/history.go`, `pkg/storage/memory/conversations.go`) | chains of `previous_response_id`; conversations and their item lists | `loadConversationHistory`; create, delete, add items, list | response and conversation stores |
| Store scoping and listing (`pkg/storage`, `pkg/authz`) | owner, tenant and permissions of an entry | `ownerAllowed`, `canAccessResource`, `ListResponses`, `GetInputItems` | auth context |
| Files (`pkg/files`) | contents, metadata, records of files in stores, batches, ingestion goroutines with a semaphore | upload, delete, add, remove, batch; `Ingest`, `updateStatus`, `Chunk` | vector stores, embedding and extraction services |
| Vector stores (`pkg/vectorstore`, `pkg/tools/builtins/filesearch`) | metadata, collections of points, embedding dimensions | create, delete, upsert, delete by file, search | files, agentic loop |
| Tools (`pkg/tools`) | discovered tools and their servers, OAuth token, claims of sandboxes | `ensureDiscovered`, `Execute`, `GetHeaders`, `Acquire` | agentic loop, MCP servers, cluster |
| Sandbox server (`cmd/sandbox-server`) | the count of requests | `handleExecute` | code interpreter |
| Auth (`pkg/auth`) | cached key set, expanded roles | `Authenticate`, `getKey`, scope check | identity provider, all handlers |
| Rate limiter (`pkg/auth/ratelimit.go`) | counters per subject and tier | `Allow` | nothing: the server installs none |
| Providers for Responses, vLLM, LiteLLM; translation, validation, profiles, configuration, audit, metrics | none or read-only | conversions | |

What is hard here, and what the properties are about: two store calls of a
handler with a worker polling in between; objects shared by pointer between the
memory store and its callers; a worker presumed dead that answers late; a
shutdown whose drain timeout races the jobs; crashes between any two steps;
lock-free transitions of the breaker; outcomes recorded in a later period than
they were admitted in; a cancellation that arrives in any phase of a stream;
tool goroutines that share a counter and a writer; a reader that blocks on a
channel nobody drains; streams that break off inside an item; histories and
lists that are read call by call while entries come and go; files, stores and
records that are deleted and added again under a running ingestion; caches of
keys, tokens and tools that many requests renew under one lock; claims of
sandboxes that must be given back on every path. `PROJECT.json` lists each one
at its line.

## 2. Modules

| Module | Models |
|---|---|
| `ResponseStatus` | the transition table |
| `ResponseLifecycle` | abstract specification: what a polling client sees of a response's status |
| `ResponseStore` | the store operations of the background mode, for both stores (`Backend`) |
| `Background` | gateway and workers over `ResponseStore`; properties; refinement of `ResponseLifecycle` |
| `BackgroundProofs` | type invariant, exclusive claims, contents, cancellation, deletion, capacity and the refinement, proved |
| `CircuitBreaker` | every atomic operation of the breaker, the retry loop around it |
| `CircuitBreakerProofs` | type invariant and `NeverStranded`, proved |
| `StreamEvents` | the pure mapping of provider events to response events |
| `ProviderStream` | the reader goroutine and its bounded channel, one per turn |
| `SSEWriter` | the writer's state machine over a connection that may break |
| `EventStream` | one streamed response: handler, engine, tools, DELETE, disconnection; composes the three above |
| `EventStreamProofs` | type invariant and the seven safety properties of a stream, proved |
| `Filtering`, `SequenceLemmas` | the loops that keep a part of a list; facts about lists the proofs share |
| `Paging`, `Threads` | pages cut out of a list; chains and lists that are read while others write |
| `ThreadsProofs` | type invariant and the four properties of chains and lists, proved |
| `VectorStores` | metadata and collections of vector stores, both backends (`Qdrant`) |
| `FileIngestion` | the Files API, vector store files and batches, and the ingestion pipeline, over `VectorStores` |
| `FileIngestionProofs` | type invariant and the four safety properties of the files, and the progress and order of the chunker, proved |
| `Chunker` | the chunker as a pure function |
| `AccessControl` | votes, roles, scopes, the endpoint table and permissions, as pure functions |
| `Access` | requests through authentication, key cache and scope check, over `AccessControl` |
| `AccessProofs` | type invariant, the key cache keeps and misses no key, the conditions of `Visibility` agree, proved |
| `Visibility` | which resources a caller sees, in every store and handler that reads |
| `ToolServers` | tool calls: MCP discovery, OAuth token, routing, sandboxes and their claims |
| `ToolServersProofs` | type invariant and the five safety properties of tool calls, proved |
| `MC...` | constants for TLC, and the checks of pure functions over all small inputs |

Definitions named "Variant with a bug" in a module are plausible mistakes of the
definition that follows them. They are not part of any specification; replacing
the definition by its variant must violate the property `PROJECT.json` names,
which shows that the property depends on that code.

### Background responses

State and code correspond as follows. `store[i]` is the entry or row of a
response: its status, deletion mark, background flag, whether the request,
a result and an error have been written, the age of its heartbeat (null, fresh,
expired) and its `created_at` second. `lru` is `lruList`; `cutoff` is the age
limit of `CleanupExpired`. `create[i]` and `del[i]` are the positions of the
POST and DELETE handlers, `job[i]` the `processRequest` goroutine with its
context, `poll[w]`, `wstate[w]` and `drain[w]` the poll loop, the life of the
worker process and the ids `markInFlightAsFailed` copied. Each store method is
atomic, as the mutex or the single SQL statement makes it; everything between
two store calls interleaves.

The two stores differ in ways that matter, and the model keeps the differences:
the memory store validates transitions and ignores the deletion mark on
updates, PostgreSQL does the opposite; the memory store marks a response as
background when it is saved, PostgreSQL when its request is saved; the memory
store hands out pointers (the `"raced"` position of DELETE stands for a status
read while a claim writes it), and PostgreSQL does not load the background
column at all.

With PostgreSQL the gateway and the workers are processes that crash and
restart; a crash takes its handlers or goroutines with it. `Fault` bounds
shutdowns, crashes, lost calls and stalls by `MaxFaults`.

While a worker replays a request, the direct engine path saves its own copy of
the result under a new identifier. Only its place in a bounded store matters
(`SaveCopy`).

### Circuit breaker

A process is a request goroutine in `Complete` or `Stream`. Loads, stores, adds
and compare-and-swaps are separate steps; `probe` is a history variable naming
the goroutine that won the last open to half-open swap. `provider` is the kind of
provider that is wrapped, chosen at the start: errors of the Responses provider wrap
their cause (`KeepsCause`), those of `MapNetworkError` (vLLM, LiteLLM) do not, and
the client those two use for `Stream` has no timeout (`Timed`; `Streams` are the
goroutines that stream). The lengths of timeouts are abstracted to `elapsed`;
`failures` is unbounded in the model and stays small in the run because the circuit
opens.

### Streamed responses

`req` is the request the instance serves, drawn from `Requests` at the start:
whether it runs in the agentic loop, for how many turns (`max_tool_calls`), with
`parallel_tool_calls` or not, which calls have no executor and which are not in
`allowed_tools`. One run therefore covers several shapes of request.

An event is its type, its item and its output index; the client's view is
`wire`. The reader reads chunks of every kind `TranslateChunk` distinguishes
(role, reasoning, text, both, tool call, finish, usage) and sends their events
over a channel of capacity `Cap`. The engine's loops over the channel are the
`Recv` actions; events that one goroutine writes in a row are written in one
step, except those of tool goroutines, which race: `nextSeq` is a load and a
store, and the write comes later. A write over a broken connection fails or is
lost without an error. Text and arguments, annotation events and usage are left
out. In the agentic loop a `tool_choice` of none cannot occur, because
`CreateResponse` sends it down the direct path.

### Reading while others write (`Threads`)

A store call holds the store's lock and is one step. `walk[c]` is a request in
`loadConversationHistory`, one `GetResponseForChain` per step; `lister` is a
client that reads a list page by page with `after`. `entry` and `lru` are the
response store, or the conversations, or the files: they differ in what they
do with an unknown cursor and with entries of the same second, and a behaviour
reads one of them (`reader`). Saves, soft deletes and evictions happen between
any two calls. `Foreign` are entries of another owner. An evicted entry keeps
its data in the model so that properties can speak of it.

Items are kept in the order they were added. For a list downwards, which is the
default, `ListItems` gives `sort.Slice` a comparison of indexes that does not look
at the items and is no order. What comes out depends on how `sort.Slice` works: up to
`Inserted` elements (12 in Go) it sorts by insertion, and the comparison turns the
list around; a longer list becomes some permutation that depends on its length
alone. `Shuffle` gives that permutation for each longer length, any will do, and the
theorems hold for all of them.

### Files and vector stores (`FileIngestion`, `VectorStores`)

`req[c]` is a handler between two store calls, `job[j]` an ingestion goroutine:
waiting for the semaphore of `slots` places, in `updateStatus` ("update" is the read and the write
through the shared pointer, "save" the `Save` that follows), reading the content,
extracting, chunking and embedding (one step that may fail), indexing. `record`
points to an `object`, because the record store hands out pointers and
`updateStatus` writes through them after the record may have left the store. A
failed call of the remote backend may have been carried out. Stores create and
delete their metadata and their collection in two calls. What the model leaves
out of a file is its name, size and text; the chunker is a function of its own
over the positions of white space. `overlapped` and `raced` are history
variables that name the exceptions of the properties.

### Authentication and visibility (`Access`, `AccessControl`, `Visibility`)

A credential says what the authenticators can tell apart: no header, an API key,
a bearer token that is neither, a JWT with its key identifier and whether
signature and claims pass. `cached`, `fresh` and `writer` are `jwksCache` with its
lock; the reply of a fetch is on its way while the provider publishes and
withdraws keys. A fetch holds the write lock and need not end: its HTTP client has
no timeout. The server passes no rate limiter to the middleware, so there is none
here. `ResolveRole` is the depth-first
expansion with its cache, compared with the closure it should compute in every
order a map may be iterated in. `Visibility` states, for every store, the
condition of each handler that reads, as the code writes it; that they agree is a
theorem. It promises nothing about writes: the handlers of a vector store's files
ask for no owner of the store.

### Tool calls (`ToolServers`)

`call[c]` is a tool call of the agentic loop. `discovered`, `route` and `writer` are
the MCP executor with its lock, `token` and `renewing` the OAuth credentials with
theirs; `claim[c]` is a `SandboxClaim`, `load` and `exec` the sandbox server that calls
share in static mode. The order in which servers are asked is that of a map: any.
A crash ends the calls in flight and empties the memory of the gateway, and
claims stay. `MaxFaults` bounds crashes, lost replies to a create and failed
deletes; `excused` are the calls they hit.

## 3. Runs

Passing runs, about three minutes each at most:

| Run | Instance | Shows |
|---|---|---|
| `BgMemory` | memory store without limits, 2 responses, 1 worker, DELETE of one, 1 fault | `Attended`, `ResultConsistent`, `CancelSticks`, `LifecycleRefinement` |
| `BgMemoryEviction` | memory store of capacity 2, 2 responses and their copies, TTL, fair | `CapacityKept`, `QueuedEventuallySettled` |
| `BgPostgres` | PostgreSQL, 1 response, 2 workers, DELETE, TTL, 2 faults, fair | `ClaimCarriesRequest`, `ClaimedOnce`, `DeletedFrozen`, `ClaimedEventuallySettled` |
| `Breaker` | vLLM or LiteLLM, or the Responses provider; 2 goroutines, one of them streaming, threshold 2, 2 attempts, fair and busy | `NeverStranded`, `CircuitRecovers` |
| `Stream` | the direct path, and one turn of the loop with a call for the client; 2 chunks of all kinds, 2 calls, channel of 1, backend errors, fair | `TypeOK`, `StreamAnswered`, `RegistryClean`, `SequenceIncreasing`, `TruncationReported`, `ItemsClosed`, `CancelEnds` |
| `StreamLoop` | the loop with two calls in sequence, in parallel, and over two turns with a rejected one | `ToolCallsAnswered`, `ToolEventsOrdered` |
| `Files` | remote backend, 1 file, 1 store, 1 batch, 2 ingestions, 1 slot or 2, one handler at a time, fair | `Attended`, `ContentForMetadata`, `IndexAgrees`, `BatchHonest`, `IngestionEnds`; the chunker over all texts up to 7 runes |
| `Access` | every chain of authenticators, 2 requests, 2 keys, fair | `NoOverdueKey`, `KnownKeyAccepted`, `Answered`; role expansion, endpoint table, permissions and visibility over all small inputs |
| `Threads` | 4 identifiers, 2 writers, a store of 3, pages of 1, conversations of 4 items of which 3 are sorted by insertion | `HistoryWhole`, `DeleteKeepsChain`, `ListedOnce`, `ItemsInOrder` |
| `Tools` | 2 calls, 2 MCP servers that both offer a tool, one with OAuth, claimed and shared sandboxes, 1 fault, fair | `AskedOnce`, `ClaimsReleased`, `CapacityHeld`, `ProviderKept`, `TokenAlive`, `CallsAnswered` |

Every bound is a constant: `Ids`, `Workers`, `Deletable` and `MaxFaults` for the
background mode, `MaxSize`, `MaxSecond` and `CleanupBatch` for the store, `Procs`,
`Threshold`, `MaxAttempts`, `Providers` and `Streams` for the breaker, `MaxTurns`, `Cap`, `MaxChunks` and
`Calls` for a stream, `Files`, `Stores`, `Batches`, `Clients`, `Jobs` and `SlotCounts` for the
files, `Requests` and `Keys` for the authentication, `Ids`, `MaxSize`,
`MaxSecond`, `MaxItems`, `Inserted`, `MaxSeen` and `Limit` for threads, `Calls`, `Lifetime`, `FetchTime`,
`MaxClock` and `MaxFaults` for tools.

Why the bounds are enough: the races of the background mode involve one
response and at most two workers, and a second response gives the claim order
and the eviction list something to choose from; with a capacity of two, two
responses and their copies make four keys, so every entry can be evicted by any
other. All responses have the same `created_at` second (`MaxSecond` is 0), so a
claim may take any of them, which includes the order of their ages. Two faults allow a stall followed by a crash, or a crash of both workers.
Two goroutines are the probe and a request left over from an earlier period of
the breaker; that no number of goroutines strands it is proved. Two chunks
reach every ordered pair of kinds before the finish chunk, a channel of one is
full most of the time, and two turns are the first and a later one. The races of
the files are about one key, and two ingestions of it are enough for a removal
and a second addition under the first; two handlers at a time mostly produce
operations that overlap on the key, which `IndexAgrees` and `BatchHonest` except,
and `ContentForMetadata` is proved for any number. Two requests are one that holds
the key cache's lock and one that waits for it; two keys are one that stays and
one that changes. A chain of three responses has a first, a middle and a last,
and the fourth identifier is the one that evicts or belongs to another. Four items
with `Inserted` at 3 give lists that are turned around and one that is not, and the
page by page reading of a list that grows from the one into the other. Deadlock is
not checked where the instance runs out of requests and may stop; the breaker
never does.

### Fairness

Goroutines, handlers and poll loops are scheduled; a stopped or crashed worker
process is started again by its supervisor; time passes. A waiter of a mutex, a
read-write lock or the semaphore gets its turn, as Go's locks and channels serve
waiters in order: hence strong fairness for `Acquire`, `Serve` and the steps of a
tool call.

A call to another service ends where the code gives it a timeout: `Complete` of the
providers, `Stream` of the Responses provider, the token fetch (10 s), the execution
in a sandbox, the extraction service. Many calls have none, and the models owe them
no fairness:

| Call without a timeout | In the model | Property that says what it stops |
|---|---|---|
| `Stream` of vLLM and LiteLLM, also before the headers (`pkg/provider/openaicompat/client.go:205`) | `Return` of a goroutine that is not `Timed`; `Connect`, unless the context is cancelled | `CircuitRecovers` assumes `CallsReturn`; `CancelEnds` assumes nothing |
| an open stream | `BackendStep` | `CancelEnds` assumes nothing |
| a tool inside a replayed request | the end of `running` of a job | `QueuedEventuallySettled` and `ClaimedEventuallySettled` speak of jobs that leave the engine (`EngineAnswers`) |
| embedding service and Qdrant, under `context.Background()` (`pkg/files/pipeline.go:75`) | `Embed`, `Index` | `IngestionEnds`: an ingestion ends unless its own call, or as many calls as there are slots, are never answered |
| the fetch of the key set, under the cache's write lock (`pkg/auth/jwt/jwt.go:334`) | `FetchKeys` | `Answered` assumes that every fetch ends |
| the discovery of MCP tools, under the executor's write lock and `context.Background()` (`pkg/tools/mcp/executor.go:126`) | `ListArrives`, `ListFails` | `CallsAnswered` assumes that every discovery ends |
| an MCP call; the calls that create, watch and delete a sandbox claim | `CallReturns`, `CreateClaim`, `SandboxReady`, `Release` | `CallsAnswered` speaks of calls whose own requests end |

Each of these conditions has the form "again and again, not inside the call", and is
stated of as few calls as the code allows: of a call's own requests where nothing
else waits for it, of every call where a lock is held. That
the conditions are needed was checked by leaving each of them out.

Clients owe nothing, except that one who made a batch polls it, and except in
`BusySpec`, where requests keep coming so that there is someone to probe the
backend. `CircuitRecovers` also says what clients can do to a circuit whose provider
hides the cause of its errors: it closes for good once they stop leaving during
their calls (`ClientsStay`). `LiveBackendSpec` adds that the backend goes on sending;
it is used only to show that the reader's fate does not depend on it.

### Disagreements between the code and its documents

Two have a run that expects a violation, and an entry under `findings` in
`PROJECT.json` with the quoted line: terminal statuses overwritten in PostgreSQL
(`BgPostgresTerminal`) and a reader blocked for ever (`StreamReader`; its channel
holds one event, the code's channel of 16 needs a longer stream for the same
outcome).

The other divergences met while modelling have no run. Each is behaviour that
the models contain, so no property above excludes it:

| Code | What it does | What is said of it |
|---|---|---|
| `pkg/engine/engine.go:215` | the reply serialises the object the memory store holds, which a claim may have changed (a `Claim` between the two saves) | `specs/044-async-responses/spec.md:108`: the reply has status `queued` |
| `pkg/engine/engine.go:188` | with the memory store a worker can claim between the save of a response and the save of its request, and fails it for want of a request (`SaveResponse` marks it as background at once) | `pkg/transport/handler.go:92`: a claim returns the original serialized request |
| `pkg/engine/background.go:153` | between `Claim` and `StartJob` a cancellation finds no cancel function and is acknowledged; the engine runs to its end | 044, line 116: DELETE cancels the context of in-flight processing |
| `pkg/engine/background.go:187` | `Stop` cancels running jobs, which are then marked cancelled | 044, lines 90 and 127: a shutdown waits for them; `cancelled` means by the client |
| `pkg/transport/http/adapter.go:335` | the PostgreSQL store does not load `background`, so `DeleteGet` goes on to a soft delete of a queued response | 044, line 59: it is cancelled |
| `pkg/engine/engine.go:200` | after `SaveBackgroundRequestFails` the client is told queued and no worker ever claims the row | 044, line 43: a worker picks it up |
| `pkg/storage/postgres/background.go:154` | `SaveBackgroundRequest` has no condition on `deleted_at` and marks a row as background that was deleted between the two saves (`SaveRequest`; `DeletedFrozen` is about claims, heartbeats, marks and cancellations) | the other statements (`pkg/storage/postgres/postgres.go:305`) ask for a row that is not deleted |
| `pkg/provider/resilience/resilience.go:130` | a streaming probe of vLLM or LiteLLM whose backend accepts the request and stays silent keeps the circuit half-open, and all other requests refused (`CallsReturn`) | `specs/047-backend-resilience/spec.md:107`: the probe's outcome ends it |
| `pkg/provider/openaicompat/errors.go:69` | `MapNetworkError` drops the cause of an error and sets no HTTP status: with vLLM and LiteLLM a client that leaves counts as a failure, and such clients open the circuit of a healthy backend, or reopen it (`Classify`, `KeepsCause`; `ClientsStay` in `CircuitRecovers`) | `pkg/provider/resilience/classify.go:34`: "Context cancelled -> NonRetryable" |
| `pkg/provider/resilience/circuit.go:91` | `SuccessSwap` and `FailReopen` end a half-open period whichever request reports | `specs/047-backend-resilience/spec.md:107`: the probe's outcome ends it |
| `pkg/provider/resilience/resilience.go:214` | a probe its own caller cancelled closes the circuit | the comment there: the backend is reachable |
| `pkg/transport/http/adapter.go:503` | in the loop a provider error ends in a `response.failed` numbered 0 (`Report`) | `specs/001-core-protocol/spec.md:178`: monotonically increasing numbers |
| `pkg/provider/openaicompat/stream.go:97` | a chunk with usage alone ends the stream, also before or without a finish chunk (`stream.go:66` skips one it cannot parse): the response is `completed` and its buffered tool calls are not closed (`ReadUsage`, `usage = "early"` in `TruncationReported` and `ItemsClosed`) | `specs/022-terminal-events/spec.md:73`, `specs/003-core-engine/spec.md:166` |
| `pkg/engine/events.go:36` | parallel tools race on `nextSeq` (`ToolLoadSeq`, `ToolStoreSeq`) | `specs/023-tool-lifecycle-events/spec.md:85`: increasing numbers |
| `pkg/engine/loop.go:433` | a loop cancelled inside a turn ends with `response.failed` | `specs/004-agentic-loop/spec.md:116`: `response.cancelled` |
| `pkg/engine/loop.go:450` | the loop ignores the finish reason of a turn | `specs/022-terminal-events/spec.md:73`: `response.incomplete` |
| `pkg/engine/loop.go:543` | the loop takes a stream that broke off for the end of a turn, and leaves items open | `specs/003-core-engine/spec.md:166`: `output_item.done` for every item |
| `pkg/engine/events.go:45` | `MapReasoningDone` and `MapToolCallDelta` move the index under an open message | 001, line 179: deltas carry the index of their item |
| `pkg/engine/engine.go:482` | reasoning without an answer is never closed | `specs/021-reasoning-streaming/spec.md:64`: the done event is emitted |
| `pkg/files/pipeline.go:200` | a record that is removed and added again while two ingestions of it hold slots is saved back by the first one: it can show `processing` for good, and its batch with it (`raced` in `Attended` and `IngestionEnds`) | `specs/034-files-api/data-model.md:33`, `:81`: `processing` means that the pipeline is running |
| `pkg/files/api.go:213` | a file deleted while it is ingested leaves its points in the index (`overlapped` in `IndexAgrees`) | `specs/034-files-api/spec.md:44`, `:116`: no orphaned chunks |
| `pkg/files/pipeline.go:72` | a slot is held during calls without a timeout and without a context that ends: silent services use up the slots, and every later file shows `processing` for ever (`Calling` in `IngestionEnds`) | `specs/034-files-api/data-model.md:33`: `processing` means that the pipeline is running |
| `pkg/files/vsfiles_api.go:199` | a batch takes a file its caller may not see for a missing one and stores a failed record, which may take the place of a live one (`BatchNextFile`; `pkg/files/metadata.go:81`) | `specs/034-files-api/data-model.md:81` |
| `pkg/files/vsfiles_api.go:49` | adding and removing files of a vector store, and batches, ask for neither owner nor tenant of the store (lines 49, 164 and 281; `VSLookup` in `cmd/server/main.go:351`): `Visibility` promises nothing about writes | `docs/modules/tutorial/pages/authorization.adoc:127`: only the owner can modify it |
| `cmd/server/main.go:522` | with both authenticators, a JWT is refused by the API key authenticator's No vote before the JWT authenticator is asked (`Chain`, `APIKeyVote`) | the comment at `main.go:523`: "authenticated if either method succeeds"; `specs/007-auth/spec.md:71`: the API key authenticator abstains on a valid JWT |
| `pkg/auth/jwt/jwt.go:334` | a key set that cannot be fetched answers 401 (`FetchKeys`) | `specs/007-auth/spec.md:127`: a server error |
| `cmd/server/main.go:215` | the server installs no rate limiter: it passes nil to the authentication middleware | `docs/modules/operations/pages/security.adoc:425`: rate limiting is applied per authenticated identity |
| `pkg/auth/jwt/jwt.go:334` | the fetch holds the write lock and has no timeout: a silent identity provider stops every request with a token, and waiters on the lock cannot give up (`FetchKeys`, the condition of `Answered`) | nothing; the JWT client is a plain `http.Client` |
| `pkg/storage/memory/memory.go:335` | `before` cuts its page from the start of the list, and an unknown cursor yields an empty page (`ResponsePage`) | `specs/028-list-endpoints/spec.md:26`, `:65`: the page before the cursor; status 400 |
| `pkg/storage/memory/conversations.go:150` | lists of conversations and files start again when their cursor was deleted, and entries of one second come in any order (`RestartingPage`, `SecondOrder`) | the same paragraphs; `ListedOnce` excepts both |
| `pkg/storage/memory/conversations.go:255` | beyond twelve items a list downwards, the default of `pkg/transport/http/adapter.go:477`, comes in an arbitrary order, and pages of it repeat and miss items when one is added meanwhile (`Shuffle`, `Inserted` in `ItemsInOrder`) | the comment there: "reverse" |
| `pkg/transport/http/conversations.go:188` | an item added to a conversation that is deleted meanwhile answers 500 (`AddItems`) | 404 for a conversation that is gone |
| `pkg/tools/mcp/executor.go:127` | which of two servers provides a tool both list depends on a map's order (`AskServer`) | `specs/011-mcp-client/spec.md:86`: the first configured |
| `pkg/tools/mcp/executor.go:126` | one server that stays silent during the discovery holds the executor's lock, and with it every tool call, for ever (`Listing` in `CallsAnswered`) | 011, line 21: resilient to servers that are down |
| `pkg/tools/mcp/executor.go:130` | a server whose discovery failed is not asked again (`ListFails`, `Discovered`), and one that cannot connect stops the program | 011, line 21: resilient to servers that are down at startup |
| `pkg/tools/builtins/codeinterpreter/kubernetes/acquirer.go:72` | the claim stays when the reply to its creation is lost, its deletion fails or the gateway crashes (`excused` in `ClaimsReleased`) | `specs/025-code-interpreter/spec.md:125` (FR-012: the claim must be deleted after execution) and `:147` (SC-003: no claim leaks) |
| `cmd/sandbox-server/main.go:146` | refused requests count while they are refused, so others may be refused below capacity (`Enter`, `Leave`) | a limit on concurrent executions |

## 4. Proofs

TLAPS proves, for every value of the constants allowed by the named assumptions
of the modules (`StoreAssumption`, `WorkerAssumption`, `BreakerAssumption`,
`ProviderAssumption`, `FilesAssumption`, `BackendAssumption`, `AccessAssumption`,
`CredentialsAssumption`, `ThreadsAssumption`, and `ToolAssumption` of `EventStream` and `ToolServers`). They type the
constants and keep the model values apart; what a theorem assumes beyond them
(a store, a token that lives at all) it says itself.

* `BackgroundProofs!TypeCorrect`: `Spec => []TypeOK`. `TypeOK` is inductive;
  lemmas say what each store operation does to the type of `store`, and the
  step proof has one case per action.
* `BackgroundProofs!OneClaim`: `Spec => ClaimedOnce`. A claim needs a response
  that is present, queued and not deleted. The inductive invariant
  `UnclaimedHasNoJob` says that a response still queued, or not yet saved, has
  never had a job. The lemma `QuietSteps` collects the actions that neither
  start a job nor put a response into the queue; `Claim`, `ClaimLost` and
  `QueueResponse` are left.
* The stored responses in `BackgroundProofs` rest on `StoreMoves`: a step leaves a stored response
  alone but for its heartbeat, request and deletion mark (`Still`), gives it a final
  status that `UpdateResponse` accepts (`Ended`), queues it, or claims it. With
  `KnownWhenSaved` (nothing is known of a response before it is saved) follow, for
  the memory store, `ContentsAgree` (`ResultConsistent`), `CancelStays`
  (`CancelSticks`, with `ConfirmedCancelled`: a DELETE that is about to signal has
  cancelled) and `Refines`, the refinement of `ResponseLifecycle`; and for
  PostgreSQL `DeletedStays` (`DeletedFrozen`) and `ClaimsCarryRequest`
  (`ClaimCarriesRequest`, with `RequestWithFlag`: a row is claimable only with its
  request). `AlwaysAttended` (`Attended`, memory store) needs the jobs as well:
  `JobChanges` says that in the only process of that store a job works until its
  mark. Each is stated for the store that promises it; the runs that expect a
  violation, and the divergences above, show what the other one does.
* `BackgroundProofs!CapacityAlwaysKept`: `Spec => []CapacityKept`. The invariant
  `EvictionList` adds that the engine's copy of a response is listed only after the
  engine has answered its job, so that no copy is saved twice. `ForwardSteps` says
  that no job returns to a point before that answer; `ListSteps` leaves the three
  operations that touch list or map, and `InsertedList` and `KeptDistinct` say what a
  save at capacity and the clean-up's filter make of a list without repetition.
* `CircuitBreakerProofs!TypeCorrect`, which includes the bound on attempts.
* `CircuitBreakerProofs!NotStranded`: `Spec => []NeverStranded`. The invariant
  is inductive with `TypeOK`: the winner of the swap becomes the probe in a
  pending position, a pending goroutine leaves the pending positions only by an
  action that makes the state differ from half-open or finds it so, and no
  other goroutine moves it.
* `EventStreamProofs` proves every safety property of a streamed response, for any
  number of turns, tools and chunks and any capacity of the channel. Each theorem
  has an inductive invariant of its own over the shared `Typed`, `ToolsAwaited` (tool
  goroutines run only while the handler waits for them) and the lemma
  `HandlerEmits`, which reduces the steps of the handler to one shape: it writes a
  list of events in which a terminal event can only be the last (`Emission`). The
  reader goroutine needs two lemmas more: reading puts the end of the stream last
  (`ReadMoves`), and sending and receiving only move the boundary between outbox and
  channel (`Pending` is both in a row).
  - `AlwaysAnswered` (`StreamAnswered`) and `RegistryAlwaysClean` (`RegistryClean`)
    follow from where the handler is and what the writer's state then is.
  - `AlwaysIncreasing` (`SequenceIncreasing`): as long as something can be written
    the counter equals the number of events on the wire (`NumberedSoFar`).
  - `ToolsAlwaysOrdered` (`ToolEventsOrdered`): results on the wire are of past turns
    (`ResultsPast`), and tools that run one by one hold numbers above all others
    (`OneByOne`).
  - `AlwaysTruthful` (`TruncationReported`): the first end of the stream that is
    pending carries the status of the finishing chunk, or is a usage chunk's that came
    before it (`FinishAhead`).
  - `AlwaysClosed` (`ItemsClosed`): an item that was added is closed, or its end is
    pending before the end of the stream, or the reader still buffers the call
    (`WillClose`).
  - `AlwaysAnsweringTools` (`ToolCallsAnswered`): a call that was finished on the wire
    has its result there or is in the list of the current turn (`Accounted`); the
    filter of allowed tools loses none (`KeptElements`).
* `ThreadsProofs` proves the four properties of `Threads` and its type invariant, for
  any identifiers, clients, contents, capacity and page size, and for conversations of
  any length. `ThreadsAssumption` says of `Shuffle` only that it gives permutations. `EntriesMove` says what a step does to
  the entries: a saved one stays saved, keeps its second and its previous response and
  loses no item, and at most one new entry is linked to an older one.
  - `HistoryAlwaysWhole` (`HistoryWhole`) and `DeleteAlwaysKeepsChain`
    (`DeleteKeepsChain`): there are ranks that fall along every chain
    (`ChainsFinite`), so that a chain has no cycle (`ChainRises`) and `Lineage`, a
    recursive function over the entries, is defined (`LineageRule`); a walk holds the
    responses from the one it began with back to where it is (`OnChain`).
  - `ItemsAlwaysInOrder` (`ItemsInOrder`): upwards the n-th item given is item n
    (`ReadUp`); downwards, while the list is short enough, the items count down from how
    many there were for the first page (`ReadDown`); and as long as none is added, what was
    given is the beginning of one permutation of the items, whatever it is
    (`ReadWhole`; `Placed` is the item at each of its places).
  - `AlwaysListedOnce` (`ListedOnce`): what was given is strictly ordered (`Sorted`),
    and an entry that was there all the time is given or stands behind all that was
    (`Complete`). `PageCut` and `PageBegins` say where a page begins, for both families
    of stores.
* `SequenceLemmas`: what the filter loops of the code keep of a list. The function
  behind `Kept` is determined by its recursion (`KeptIsFilter`) by `SetInduction`,
  induction over a set of numbers.
* `FileIngestionProofs!TypeCorrect`: `Spec => []TypeOK`. The inductive invariant
  `Typed` adds that a handler or a goroutine at work has the key it works on;
  lemmas say what each call of the backend and each move of a handler or a
  goroutine does to its type.
* `FileIngestionProofs!UploadsKept`: `Spec => []ContentForMetadata`. The invariant
  `ContentSafe` says why no deletion takes content away from an upload: only
  files with metadata are deleted, and a file being uploaded has a fresh
  identifier and no metadata yet. Most actions touch no file and are settled by
  `ContentUntouched`.
* `FileIngestionProofs!ProcessingAttended`: `Spec => []Attended`. The lemma
  `StepKinds` reduces the steps to four: most leave records and goroutines alone or
  take a record away (`Quiet`), a batch makes a failed record (`Missing`), a file
  that is added gets a record and a goroutine (`Added`), or an ingestion moves. The
  invariant says that a record belongs to one key from when it is made (`Unshared`),
  which is what makes writing through a shared pointer harmless; that two goroutines
  with slots for one key have raced (`OneHolder`), so that the record one of them
  holds shows what it wrote (`HeldWritten`); and that a file in `processing` has a
  goroutine with another status to write (`FilesInWork`). With one slot there is no
  race (`OneSlotNeverRaces`).
* `FileIngestionProofs!IndexAlwaysAgrees`: `Spec => []IndexAgrees`. The steps are
  sorted once more, by what they do to a key (`ClientKind`, `JobKind`): a handler
  starts on keys and notes those somebody works on, clears points, forgets a record,
  enters a goroutine, and so on. The invariant `IndexInv` is about the keys that are
  not in `overlapped`:
  - at most one handler or goroutine works on such a key (`Exclusive`), so its record
    is the one its goroutine was started with and shows what this goroutine wrote
    (`JobRecords`); a handler about to add the file sees no record (`AddedRecords`),
    and a record that no goroutine has is a failed one (`MissingRecords`);
  - in a listed store the points follow the record (`PointsKept`): without a record
    there are none, a goroutine that has yet to store its points finds none, and a
    completed file whose collection exists has the points of one goroutine;
  - a store whose collection is still to be made has no points and nothing completed
    (`CollectionsMade`), so that making it takes nothing from a file.
* `FileIngestionProofs!BatchesAlwaysHonest`: `Spec => []BatchHonest`. Besides `IndexInv`
  it needs `BatchQueued`: as long as the batch of a record is not saved, the request
  that makes the batch knows that it has queued a file. A file of a saved batch is
  never new in `processing` on an undisturbed key (`InProgressBefore`), since the
  records of a batch are all made before it is saved.
* `AccessProofs`: `OverdueRefused` and `SteadyAccepted` say that the key cache
  neither keeps a key too long nor misses one. `OverdueGone` says that no overdue key
  is in a reply on its way, nor in the cache while the cache counts as fresh;
  `SteadyKnown` says that a reply on its way has the key of its request's token if
  that key has been published since the request arrived. `TypeCorrect` adds the rest of
  the state.
* `ToolServersProofs`: `TypeCorrect`, `CapacityRespected` (`CapacityHeld`, from
  `LoadExact`: the counter of the sandbox is the number of requests in it),
  `DiscoveredOnce` (`AskedOnce`, from `LockHeld`: who discovers has the executor's
  lock), `ProviderStays` (`ProviderKept`), `TokensAlive` (`TokenAlive`, from
  `MutexHeld`, for tokens that live longer than no time) and `ClaimsGone`
  (`ClaimsReleased`, from `ClaimOwned`: a claim belongs to a call that will delete it,
  or was excused).
* `AccessProofs`, of `Visibility`: `ResponsesSeenAlike` and `StoresSeenAlike` (the separately
  written conditions of get, list, search and SQL agree for every caller and
  resource), and `LettersGranted` (the permissions a client
  asks for are the permissions parsed back on every access).
* `FileIngestionProofs`, of `Chunker`: `ForwardWithoutGap` and `EndsInOrder`, for every text, chunk size
  and overlap; `GreatestExists` proves that the break at white space is well
  defined.

Only model-checked: all liveness properties (fairness and `ENABLED` are beyond
the prover), and what a recursive computation yields as a whole, where it is more than
a filter or a sum: the chunker's loop and the reference definitions of the `MC`
modules. Every invariant and every action property of the passing runs is a theorem.

## 5. Not modelled

See `components` in `PROJECT.json` for the list with reasons. In short:

* request translation, validation, profile merging, configuration: conversions
  without state, read once or per request;
* the non-streaming agentic loop takes the decisions of the streaming one, which
  is modelled because it interleaves with a client;
* the parser of the Responses provider has the shape of `ProviderStream` with
  other event names; vLLM and LiteLLM wrap the client that is modelled;
* annotations are string matching over one finished text;
* audit, metrics and debug output, on which nothing depends;
* scores of a similarity search and what code in a sandbox does, which no
  property is about; signatures and the decoding of JWT claims are one flag;
* panics of a provider or of an MCP tool's goroutine;
* the mock backend, the demo and the test server, which are test aids.

## 6. Plan

1. Done: background mode, stores, breaker, streaming; files and vector stores,
   authentication and visibility, histories and lists, tool servers.
2. Next modules: the parser of the Responses provider as a second reader of
   `ProviderStream`; the non-streaming loop with its usage totals; registration
   conflicts of the tool registry.
3. Pure algorithms against a reference definition: annotations, the backoff,
   profile merging.
4. Abstract specifications: a stream with exactly one terminal event that
   `EventStream` implements; a paginated list whose pages are cut from one
   snapshot.
5. Proofs: an abstract stream and its refinement by `EventStream` (4).

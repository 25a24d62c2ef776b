# Semantic search service: specification, model checking and proofs

This directory specifies the semantic search service in TLA+: the asynchronous
write path (ingest → Postgres → SQS → embed workers), the batching of embedding
calls, the embedding client, the worker pod and its shutdown, the cached read
path, and the way of a request through the gateway. TLC checks small instances;
TLAPS proves the safety properties for every value of the constants.

    tlc -config IngestFaults.cfg MCIngestPipeline     # one run
    tlapm IngestPipeline_proofs.tla                   # one proof module

## 1. The system

| Component | Source | State | Operations | Talks to |
|---|---|---|---|---|
| gateway | `cmd/gateway` | requests in progress | authenticate, forward the token, translate HTTP to gRPC, shut down | ingest, search |
| authentication | `internal/auth` | none | verify a token, put its tenant in the context | every service |
| ingest service | `cmd/ingest` | handlers in progress | IngestDocument (upsert, then publish), GetDocument, DeleteDocument | table, queue |
| documents table | `internal/db` | rows: tenant, text, status, vector, model | upsert, set embedding, delete, get, similarity query | ingest, worker, search, backfill |
| job queue | `internal/queue`, SQS FIFO | messages, leases, deduplication window | Publish, Receive, Delete | ingest, backfill, worker |
| embed worker | `cmd/worker` | semaphore, goroutines, context | Run (poll, dispatch, drain), process (fetch, embed, write, ACK) | queue, table, batcher |
| batcher | `internal/embed/batcher.go` | bucket, timer, private mailboxes | Add, flush | worker goroutines, client |
| embedding client | `internal/embed/client.go` | rate limiter | EmbedBatch with retries and backoff | batcher, search |
| search service | `cmd/search` | none of its own | Search | client, cache, table |
| result cache | `internal/cache`, Redis | results by tenant and vector, with a TTL | GetResults, SetResults, InvalidateTenant | search |
| backfill | `scripts/backfill` | the page it reads | publish a job for each old pending row | table, queue |

Processes share two stores, the table and the queue, and no transaction spans them.
Every difficulty of the write path comes from there: a post is two steps, a job is
delivered at least once and possibly to two pods, the text embedded was read some
time before its vector is written, and the deduplication window of the queue does
not know what happened to the job it stands for. Inside a worker pod goroutines
share the batcher and the rate limiter; its lock is released around every call, what
becomes of a request becomes of every text in it, whichever tenants they are of, and
a response with too few vectors ends the pod with every call in it. The read path
has a cache nothing invalidates. Document ids are chosen by clients and are the
primary key for all tenants: two that use one id share a row. A request lives in two
processes, which are stopped in different ways: a service waits for its handlers
(GracefulStop), the gateway does not, since ListenAndServe returns as soon as
Shutdown begins; and the context of a handler ends with the connection of the
client. `PROJECT.json` lists the hazards one by one with the line where each bites.

What makes each component right:

* gateway and services: an answer of success after all the calls of a request, a
  refusal before any, each for the tenant of the token; half of a request only
  for a named cause; a service that is told to stop does;
* write path: no row is left without the vector of its text and without a job
  that will compute it; finally every row has it, unless a text that the API
  rejects stays in the queue; the jobs of a tenant are in one pod at a time;
* batcher: a call of Add gets one answer, its own, and returns;
* client: the same for EmbedBatch, each vector at the place of its text, within
  the rate that its process is given;
* worker pod: no slot leaks, the drain waits for everybody, the pod stops, and
  a shutdown does not lose jobs;
* read path: only ids that the tenant uses, answers that were right as a whole at
  some moment, and stale ones that do not survive the TTL.

**The committed code does not build** (`Worker` lacks its `batcher` field,
`sqsMessage` its `GetReceiptHandle`, `cacheKey` shifts floats, `buildResponse`
misses the package of `SearchResult`). The modules model what these lines
evidently mean: the worker calls the batcher of `main`, and `cacheKey` hashes
the vector.

## 2. Modules

| Module | Models | Builds on |
|---|---|---|
| `Documents` | the table's statements, as operators on a table | |
| `JobQueue` | the FIFO queue as the code uses it | `Documents` |
| `WritePath` | abstract: what the write path does to the table, as the read path sees it | `Documents` |
| `IngestPipeline` | ingest handlers, backfill, `process` in several pods, and what the queue does by itself | `JobQueue`; implements `WritePath` |
| `Requests` | abstract: what the HTTP API promises of a request | |
| `Gateway` | a request from its arrival to its answer, in the gateway and in a service, and the shutdown of both | implements `Requests` |
| `EmbedCalls` | abstract: one answer per call, one that its text may get, and the call returns unless the process dies | |
| `Vectors` | what EmbedBatch may return for a list of texts | |
| `Batcher` | Add and flush at the grain of the critical sections | `Vectors`; implements `EmbedCalls` |
| `EmbedClient` | EmbedBatch over the shared limiter | `Vectors`; implements `EmbedCalls` |
| `Delivery` | abstract: what a pod promises to the queue and to Kubernetes | |
| `WorkerPool` | one pod: Run, semaphore, goroutines, SIGTERM | implements `Delivery` |
| `Search` | Search, the cache and the similarity query beside a changing table | `WritePath` |
| `MC*` | instances for TLC: uploads, pods, batches, tokens, symmetry; `Batcher` and `WorkerPool` need none | |
| `*_proofs` | theorems | |

`EmbedCalls` is the joint between three of them. `IngestPipeline` takes an
embedding call for one step that yields the vector of its text or an error, its
own (`Abandon`) or that of all the calls in a request (`EmbedRejected`), or
never ends because the pod does (`WorkerCrash`). `Batcher` shows that this is
what Add does if EmbedBatch fails or returns one of the lists of `VectorsOf`,
and `EmbedClient` shows that EmbedBatch returns nothing else, whatever part of
a batch the API lists. `VectorsOf` is the same definition in both.
`WritePath` is the joint of the two halves. Documents are posted and removed by
whole statements, and a worker writes the vector of a text that it read some time
before, to the document it read it from, once. That is all `Search` assumes, and
`IngestPipeline` is shown to do nothing else, whatever is retried, lapses or dies.
So a vector of an earlier text, written over a newer one (`slow_retry`), is
among what the read path has to live with. `Delivery` is the pod
seen from the queue: what it takes it deletes or leaves, after SIGTERM it takes
and deletes nothing more, and it stops.

`IngestPipeline` and `Search` are the handlers whose calls `Gateway` counts: the
two of a post, whose second may never be made, are `IngestUpsert` and
`IngestPublish` there, and a request that ends between them is its `IngestAbort`.

### How state and actions correspond to the code

*Documents.* `table[d]` is the row of the id `d`, or `NULL`. A vector is identified
with the text it was computed from: what matters is whether a row's vector is that
of its own text. `UpsertDocument` keeps tenant and model of an existing row, as `ON
CONFLICT DO UPDATE` does, so that a post under an id that another tenant has used
changes the text of that tenant's row. What clients may post is the constant
`Uploads`: texts, under ids, for tenants, in any combination. An id is `Private`
when only one tenant posts under it. GetDocument changes nothing; as a request it is
in `Gateway`.

*JobQueue.* A message has an id (the order of sending), a document (`NULL` for
a body that does not parse) and its group, the tenant. `Receivable` is the FIFO
rule: nothing of a group that has an invisible message, and otherwise its
oldest messages. Time is abstract: the deduplication window and a visibility
timeout may end at any moment.

*IngestPipeline.* `handler[h]` is the job, a document and a tenant, that
IngestDocument has upserted and not yet published; `page` holds those that the
backfill has read and not yet published;
`slot[s]` the progress of `process` on one received message, a place in the
batch that Run is still dispatching included. `current` says that the lease
under which the slot received its message has not lapsed; the receipt of a
lapsed one deletes nothing. `suspect[d]` is a ghost variable that records why
the job of `d` may have been lost since the last one was enqueued: `dedup` (a
publication swallowed by the window), `unpublished` (crash or failure before
it), `fetch_error` (a database error taken for a deleted document),
`retention`, `late_write` (the write of a process() that outlived its lease),
`shared_id` (the write of a process() beside a post of another tenant under the
same id, whose job is in another message group and need not come later).
A cause is recorded only if no other job of the document waits in the queue.

`EmbedRejected` is the one step in which slots of a pod move together: the API
refuses a request for one of its texts (`client.go:148-149`), and Batcher hands
that error to every call it had put into the request (`batcher.go:83-91`),
whatever their tenants. Which calls share a request is any set of those of one
pod that wait; how Batcher forms its batches is in `Batcher`. None of the
messages is acknowledged, so they come back, perhaps together again.

The page of the backfill is any part of the pending rows: its cutoff, tenant and
page size choose one, and so does a connection that is lost while the page is
read, for `rows.Err()` is never looked at.

*Gateway.* `edge[r]` is where the HTTP handler of a request is, `rpc[r]` where
its RPC is, `wire[r]` the token in the metadata. A service handler is seen as
its calls on the stores: `issued[r]` counts those it has made, `effects[r]`
those that were executed, each with the tenant it was executed for; a call that
was given up may be executed later. `cancelled` holds the requests whose context
is done: their client has left, or the gateway has ended and its connection to
the service with it. `failed` holds those with a call that failed or whose pod
was killed. What ParseToken says of a signed token may change between the two
checks: it expires. `GatewayTerm` and `GatewayExit` are two steps because the
listener is closed before main returns; in between, handlers still run. One pod
stands for each service and is started anew.

*Batcher.* The two critical sections are one step each; the unlocked read of
`b.timer` is a data race and may find the timer that the caller created or saw
under the lock or any later one. Timers are numbered; one may fire while it is
being stopped. flush runs in the goroutine of a caller or of a timer, and so
each has a `batch` of its own. `Absent` is what `vectors[i]` finds past the end;
delivering it is a panic, which nothing recovers from, and `Panic` starts the
process anew.

*EmbedClient.* `waiting` holds the reservations of the limiter in order, `tokens`
its tokens. `golang.org/x/time/rate` gives the tokens of a cancelled reservation
back only as far as no later one was made, so a call that gives up leaves its turn
behind as `NULL`, and `Waste` lets it pass; only the last reservation can be
withdrawn, if its turn has not come. `ahead` is a ghost: requests sent beyond those
that the refills allowed for. `spent` counts the time of a call from its first
request, the jitter of its delays (`Delays`) included. The answer of the API lists
any items of a batch in any order, each with its index; the vectors go into a list
as long as that of the answer, so that an index past its end is dropped and a place
may stay nil.

*WritePath.* `reading[w]` is what a worker has fetched and not yet written;
`IngestPipeline` fills it in with the slots that are embedding. A failed call, a
rejected text and the end of a pod all empty hands (`Forget`), and everything
the queue, the handlers and the backfill do beside the table is no step here.

*WorkerPool.* A message is identified with its document. `job[m]` is where
`process` is with it, or where it is in the queue. `sem` counts the tokens in
the semaphore, `drained` those that the drain has put there. With a cancelled
context every call that takes one fails, in particular GetDocumentText, which
process then takes for a deleted document; the same happens when the database
fails by itself, which the ghost `misread` records. For `Delivery` the pod holds what it
has dispatched or is about to, and has deleted what its DeleteMessage removed.

*Search.* A query is identified with its vector, a cache key with tenant and
query, since `cacheKey` leaves the limit out. The repository calls the similarity query
approximate (`db.go:55-58,159`, `cmd/search/main.go:40,78-79`, `README.md:18`):
its HNSW index proposes neighbours, the filter on the tenant is applied to them,
and the nearest rows may be missed or fewer found than there are. `Nearest` is
therefore any set of indexed rows of the tenant within the limit, and nothing is
claimed about distances. Lookup, query and store are
separate steps; the write path changes the table between them. `past` is a ghost:
the indexed rows at every moment so far, by which an answer is judged. `Crash` ends the
pod, of which `vecs[0]` on an empty answer is one reason.

## 3. Runs

The sizes are distinct states. `CHECK_DEADLOCK FALSE` stands where the bounds
let the system come to rest (no request or call is left) or where it stops by
design (the pod exits).

| Run | Checks | States |
|---|---|---|
| `ingest_faults` | `TypeOK`, `Leases`, `OutdatedIsFollowed`, `NoSilentLoss` | 743k |
| `pipeline_live` | `OnePodPerTenant`, `NoSilentLoss`, `EventuallyCurrent`, `ImplementsWritePath` | 80k |
| `gateway` | `TypeOK`, `AllOrNothing`, `ImplementsRequests`, `ServicesStop` | 156k |
| `batcher` | `TypeOK`, `NoStrandedItem`, `BoundedOvershoot`, `OnePlace`, `Ownership`, `ImplementsEmbedCalls` | 147k |
| `embed_client` | `TypeOK`, `RateBound`, `DurationBound`, `ImplementsEmbedCalls` | 72k |
| `search` | `TypeOK`, `TenantIsolation`, `OnceRight`, `EventuallyFresh` | 311k |
| `worker_pool` | `TypeOK`, `SemaphoreCounts`, `CleanStop`, `ShutdownLosesNothing`, `ImplementsDelivery` | 228k |

What they show, in the same order: no job of the write path is lost but for six
named causes; documents whose job was not put at risk finally have the vector of
their text, unless a text that the API rejects is in the queue for ever, no tenant's
jobs are in two pods under current leases, and the table changes as `WritePath`
says; a request is answered as `Requests` promises, is done completely or not at all
unless its context ended, a call failed or its service was killed, and a service
that drains does stop; a call of Add gets its own answer and returns, whichever
timer the racy read stops, unless the process dies; EmbedBatch does, within the rate
of its process and its time; nobody is shown an id that only others use, every
answer is one that was right for its tenant as a whole, never a mixture of two
moments or a row that waits for its vector, and stale answers end with their TTL;
the pod leaks no slot, its drain waits for all, it keeps the promises of `Delivery`,
and it deletes a job without need only when the database fails at its lookup:
stopping loses none.

A rejected text deserves a word. Its message is never acknowledged and comes back
for ever. It holds up what its tenant posts later, which waits in the same group,
and each time it may fail the jobs that share its request, other tenants' too;
those come back with it, when the leases of one request end together. So
`EventuallyCurrent` says nothing while such a message stays (`Blocked`): nothing
better is true of the code. It does say that once the text has been
replaced or deleted, or the queue has dropped the message, everybody recovers.

**Bounds.** The state spaces are finite because requests (`MaxRequests`),
faults (`MaxFaults`), calls of Add (`MaxAdds`), statements of the write path
(`MaxChanges`) and attempts are bounded; everything else ranges freely.

* `ingest_faults` has two documents of one tenant, which share a message group,
  two slots, three requests and two faults; any text may be posted under any id.
  Two requests make a re-post, a third a delete or a backfill beside it; two slots
  make a redelivery meet the process() it was taken from; two faults make one
  cause hide another. With fewer, `OutdatedIsFollowed` cannot be threatened at all.
* `pipeline_live` has two tenants and two ids: one is the first tenant's own, and
  may have the text that the API rejects; under the other both post, each a text of
  its own. Two of three slots are in one pod, so that jobs of both tenants can
  share a request, and the third is in another, so that a group can move.
  It lets clients re-post within the window, so that the rejected text can
  also be replaced. Two requests make each pair of posts, or a post and a delete;
  the fault is a crash, a failed call or a lapsed lease. A second fault or a third
  request is met in `ingest_faults`.
* `gateway` has two requests: a post, beside a post or a delete of another
  tenant, or a request without a token. Two are enough for a request in progress
  when the other side stops, for tokens to be confused, and for a pod that drains
  to be asked again. It serves the ingest service; with a search beside it the
  run takes too long, and a search is to this module a request of one call.
* `Batcher` runs with a bucket of two and three callers, so that a bucket can be
  full, overshoot, and be taken by a timer between fill and flush, and the timer
  stopped can be that of a later bucket. There are three calls of Add, by three
  callers or by one that comes back, so that a batch can be answered, cut short,
  or fail while the next one fills.
* `embed_client` has two calls for a burst of one, so that calls queue up, three
  attempts, so that a failure can follow a failure and delays grow, and a call that
  may be cancelled at every point. Time is in units of 200 ms: a base delay of 5, a
  timeout of 150, a jitter of 0 or 1. `DurationBound` is stated in the constants;
  with those of the code (5 attempts, 1 s, 200 ms, 30 s) it is 182 seconds.
* `search` has two ids, of which the second is used by both tenants, and limits of
  one (none asked for) and of two (too many asked for), so that the limit can
  exclude a document. One worker is enough for a vector to be written after its
  text was replaced. Three statements of the write path are enough for a document to
  be posted, indexed and then removed or posted again, by the other tenant too,
  while a search is between two steps.
* `worker_pool` has more messages than slots, so that Dispatch blocks, and one
  message that does not parse.

**Symmetry** is used in `ingest_faults` only, where no liveness is checked and the
instance tells no two of the permuted values apart.

**Fairness.** Only steps the code or its platform takes by itself are fair:
goroutines run, timers expire, requests end with the HTTP timeout, delays pass,
visibility timeouts and TTLs end, a call on a store returns or fails, a process
that was told to stop ends when it may. Clients, operators, faults, the deduplication
window and SIGTERM owe nothing, no pod need be started again, and no store has
to execute a call that was given up. Two assumptions deserve a word. The group of
each tenant is received under strong fairness (`ReceiveFrom`): the workers poll
for ever, but a group in front of which a rejected text is redelivered is only
receivable again and again, not continuously; that SQS serves every such group
is an assumption about SQS. The steps of one `process` are weakly fair together,
for a goroutine stops only with its pod, which is a fault. Faults are bounded,
hence eventually over; without that no document would ever have to be indexed.

### What the code does against its own words

Each of these runs checks one property that a comment or a document of the
repository states, and finds it violated.

| Run | The repository says | The run shows |
|---|---|---|
| `repost_dropped` | re-posting is safe (`README.md:96`) | post, publish, embed, ACK, post again within five minutes: the job is swallowed as a duplicate, the row has lost its vector and stays pending |
| `slow_retry` | retries are safe (`cmd/worker/main.go:101`) | a process() that outlived its lease writes the vector of the old text over the new one |
| `crashed_repost` | the document sits in pending (`cmd/ingest/main.go:37,75`) | a job in progress marks it as indexed with the old vector, and the backfill does not look there |
| `search_leak` | cross-tenant leakage is impossible (`internal/db/db.go:161`, `cmd/search/main.go:80`) | one tenant posts under an id, another tenant posts under the same id: the row keeps its tenant and gets the other's text, which searches of the first then show |
| `worker_pool_drain` | Run drains before it returns (`cmd/worker/main.go:25`) | SIGTERM in the long poll makes Run return at once |

`NoSilentLoss` and `EventuallyCurrent` are the other side of the first three:
they show that these causes, a lookup error taken for a deleted document, and
the retention of the queue are all there are, beside the sharing of ids.
`TenantIsolation` and `OnlySharedIdsLeak` are the other side of `search_leak`: an id
that one tenant uses is shown to nobody else. The integration test of the repository
posts `doc-1`, `doc-2` and `doc-3` for a new tenant in every run
(`test/integration_test.go:41-55`), so on a database that persists it meets rows
of an earlier tenant.

Further disagreements were met while modelling. They follow from a single line
or from a property above, and have no run of their own:

* any error of GetDocumentText deletes the job, not only that of a missing
  document (`cmd/worker/main.go:118-122`): the cause `fetch_error`;
* SetFailed, "after all retries are exhausted" (`internal/db/db.go:137`), and
  InvalidateTenant, "called when documents are deleted"
  (`internal/cache/cache.go:65`), have no caller;
* GetDocument scans `model`, NULL until a row is embedded, into a Go string
  (`internal/db/db.go:98`), which pgx refuses: a pending document is an error;
* `cacheKey` leaves the limit out (`internal/cache/cache.go:89`): a hit answers
  with as many results as an earlier search asked for, while the limit is "default
  10, max 100" (`proto/service.proto:54`) and the cache is for "identical queries"
  (`cmd/search/main.go:42`); it takes a gRPC client, the gateway always asks for ten;
* "3000 RPM = OpenAI tier-1 default" (`cmd/worker/main.go:192`) is the limit of an
  API key, and every process makes a limiter of its own with it
  (`internal/embed/client.go:51`, `cmd/worker/main.go:193`, `cmd/search/main.go:146`):
  up to twenty worker pods and twenty search pods (`k8s/base/worker.yaml:116`,
  `k8s/base/search.yaml:130`) share the key. `RateBound` is about one of them;
* a batch can exceed the "max batch size" (`cmd/worker/main.go:201`) by the
  callers that append before the flush: `BoundedOvershoot` says how far;
* the grace period of 60 s "must be longer than" the visibility timeout and an
  embedding call together (`k8s/base/worker.yaml:25`), and a call may last 182 s,
  the delay after the last attempt included: `DurationBound`.

## 4. Proofs

The theorems hold for every value of the constants under the named assumptions
of the modules (`NullIsNoValue`, `WritePathConstants`, `PipelineConstants`,
`BatcherConstants`, `ClientConstants`, `PoolConstants`, `SearchConstants`,
`GatewayConstants`): constants have their types, sets that are counted are finite,
and `NULL` and `Error` are no values. TLC evaluates them in every run.

* **`IngestPipeline_proofs`: `NothingIsLost`, `RepostsAreFollowed`,
  `LeasesHold`, `OnePodAtATime`, `ImplementsPath`, `RowsStayCoherent`,
  `TypeCorrect`.** `NoSilentLoss` is not inductive by itself. A job
  in the queue counts for a row only if the process() that holds it under its
  present lease will write, or may still write, the vector of the row's text. When
  a row is re-posted during an embedding call, that job stops counting; when the
  call writes its vector, the row is dirty and nothing may be left. The
  strengthening is `OutdatedIsFollowed`: in that situation a second job waits
  behind the first or is about to be published. It survives only because a FIFO
  group with an invisible message delivers nothing else, which is what `Leases`
  records: a current lease hides its message, and ids are those of messages sent.
  The jobs of an id that two tenants use are in two groups, and there it does not
  hold: it is stated for private ids, whose jobs are in one group (`PrivateGroup`),
  and the write concerned is the cause `shared_id`.
  `IInv` is the conjunction of the four. `ingest_faults` checks each of its
  parts as an invariant of its own. `OnePodPerTenant` follows from `Leases` step by
  step: whatever is held under a current lease is in flight, and a Receive takes
  nothing of a group that has something in flight. `ImplementsPath` is the whole
  refinement, for `WritePath` states no fairness: a post, a delete, a fetch and a
  write map to their counterparts, every other step empties hands (`ForgetLemma`)
  or is a stutter. `RowsStayCoherent` brings `WritePath`'s theorem back through it.
* **`WritePath_proofs`: `RowsStayCoherent`.** A row has a tenant and a
  text that are posted under its id, not always by the same client, and is marked
  indexed exactly when it has a vector: inductive, given what each
  statement returns (`Documents_proofs`, which `IngestPipeline_proofs` uses too).
* **`Gateway_proofs`: `ImplementsAPI`, `DoneOrNot`, `TypeCorrect`.** The
  strengthening, `Coherent`, follows one request: nothing is issued before the
  service has verified the token that the edge took from the request; a handler
  between two calls has none in flight and one left to make; one that ended
  without its context or a call failing has made all or none. The steps of other
  requests and the comings and goings of the processes leave it alone, so one
  request at a time is enough. The refinement computes the tenant of a request
  from its own token (`Asked`), and every step of the system is one of
  `Requests` or changes nothing there.
* **`Batcher_proofs`: `NeverStranded`, `OvershootIsBounded`, `ItemsAreOwned`,
  `CallsInOnePlace`, `ImplementsCalls`, `TypeCorrect`.** `NeverStranded` rests on
  the range of the racy read: the timer stopped is that of the caller's bucket or a
  later one, and if it is a later one then the stopping caller itself is still going
  to flush. The refinement needs `Ownership` (every item is one of a call without an
  answer, and every answer is that of the item at its position) and `SingleItem` (no
  two items belong to one call). `CallsInOnePlace` adds that no call is lost: a
  bucket is only taken by a flusher with nothing in its batch, and an item leaves a
  batch with an answer. An answer too short is covered: `OutcomesLemma` says what
  each place of it can hold.
* **`EmbedClient_proofs`: `DurationIsBounded`, `RateIsBounded`, `ImplementsCalls`,
  `TypeCorrect`.** The bound on the rate, of the requests of one client, is
  inductive with the types of tokens and turns. The refinement needs that whatever
  items a response lists, what EmbedBatch makes of it is one of the lists of
  `VectorsOf` (`PlacedLemma`). The time of a call grows with doubling delays, and
  facts about powers of two seem to need induction over the attempts, which is out
  of the prover's reach; `PowerLemma` takes 2^n for the number of subsets of 1..n
  instead, which the library counts. `Clock` then says what a call may have spent at
  each of its steps, the jitter of each delay at its most.
* **`WorkerPool_proofs`: `TypeCorrect`, `SlotsAreCounted`, `DrainIsComplete`,
  `NothingLostAtShutdown`, `ImplementsPod`.** The semaphore holds one token per
  goroutine and per turn of the drain, so a drain that has filled it leaves no
  goroutine. `NothingLostAtShutdown`: a message is in `discard` only if it does not
  parse, its document is gone, its lookup failed under a live context (`misread`),
  or the context is cancelled, and then its Delete fails. `ImplementsPod` is the
  safety part of `Delivery`: what a pod has received and not yet dispatched is in
  its batch, whole (`Hands`), Run ends only when it has been told to, and no
  DeleteMessage succeeds after that.
* **`Search_proofs`: `AnswersWereRight`, `TenantsAreIsolated`, `OnlySharedIdsLeak`,
  `TypeCorrect`.** `AnswerIsRight` says that the similarity query returns, of one
  table, indexed rows of the tenant with the texts they have, within the limit. The
  invariant keeps that for every searcher and for every cache entry, since moments
  are only added to `past` (`Sound`). Of the table it needs what `WritePath_proofs`
  shows for each step of the write path. `OnlySharedIdsLeak` has one more
  assumption, that no id is posted for two tenants; then what `search_leak` refutes
  holds.

**Only model-checked.** Liveness (`EventuallyCurrent`, `EventuallyFresh`,
`ServicesStop`, the liveness halves of `ImplementsRequests`, of
`ImplementsDelivery` and of both `ImplementsEmbedCalls`): the prover has no
fairness and no ENABLED. Every invariant of the passing runs is a theorem.

## 5. Not modelled

* Configuration is read once, and its values are constants of the modules. The
  token generator and the build files have no state. Health checks and logging
  change nothing.
* Which rows are nearest, and how well the index approximates them. No property
  says that a search finds a row.
* Negative indices in a response of the API, on which `vecs[d.Index]` panics as
  well, and items listed twice; an empty batch, which EmbedBatch answers at once.
* Durations other than those of `DurationBound`, the waits for the
  limiter, the order of search results, metadata, timestamps (the backfill's
  cutoff is any), dry runs and start-up.
* `ShutdownTimeout` and the like: how long a stop takes is
  any time, and a kill may come at any moment.
* A process that dies in `Batcher` starts anew at once and its callers are free
  again; the messages they worked on are in `IngestPipeline`, where `WorkerCrash`
  leaves them to the visibility timeout.
* `process` discards a message whose body does not parse and, in the same way,
  one whose document is missing; in `IngestPipeline` both wait for their
  DeleteMessage like an embedded one, whose failure has the same effect.
* `Batcher` and `EmbedClient` are joined by the definitions they share, not by a
  composition that TLC runs: together they exceed what it can do, and so would
  `WorkerPool` as a part of `IngestPipeline`. Their interfaces are the sets
  `VectorsOf` and `Replies`, and the pod that ends.

# Formal model of the music instrument RAG assistant

This directory specifies the services of the repository in TLA+, checks them
with TLC on small instances, and proves the main safety properties with TLAPS
for all instances. Paths below are relative to the repository root.

## 1. Inventory

| component | source | state | operations |
|---|---|---|---|
| api worker | `src/workers/api_worker.py` | none of its own | `POST task_submit`: publish to `REQUEST_QUEUE`, then insert the row; `GET task_status`: read the row |
| broker worker | `src/workers/broker_worker.py` | registry `available_workers`, list `pending_requests`, both in memory | consumer of `REQUEST_QUEUE`, consumer of `RESPONSE_QUEUE`, drain of the pending list, requeue on exit |
| llm worker | `src/workers/llm_worker.py` | a private exclusive queue, one message in hand | consumer of that queue, heartbeat every 30 s, `shutdown` message |
| callback worker | `src/workers/callback_worker.py` | up to ten delivery tasks | check of the URL, POST with retries and backoff, shutdown |
| tasks table | `src/db/service.py` (`TaskService`), `src/db/db.py` | one row per task | insert, get, update; one transaction each |
| RabbitMQ | `docker-compose.yml` | durable queues, a direct exchange, private queues | external |
| connection manager | `src/modules/mq_connection_manager.py` | connection, channel | connect with retries, get_channel, close |
| retrieval | `src/services/llm_service.py`, `src/modules/reciprocal_rank_fusion.py` | BM25 index, loaded once | vector search, keyword search, rank fusion, rerank, generate |
| ingest | `src/services/data_ingest_service.py`, `ProductService` | products table, index directory | describe, embed, insert in batches, rebuild the index |
| scraper | `src/data/products_scraper/product_scraper_thomann.py` | product file, link cache | collect links, scrape, append |
| api schemas, exception handlers | `src/models`, `src/modules/exception_handlers.py` | none | validation, HTTP errors |
| visualisation | `src/utils/visualize_embeddings.py` | none | draws a plot |

How they interact: the api publishes a request; the broker takes it, and either
publishes it on the exchange or keeps it in memory when no worker is
registered; every llm worker has its own queue bound with the *same* routing
key, so a publish reaches all of them; a worker answers on `RESPONSE_QUEUE`,
on which it also announces itself (heartbeat) and its departure (shutdown); the
broker writes the row, forwards a callback and drains its pending list. The
workers are restarted by docker (`restart: unless-stopped`); the api has no
restart policy, but its server (`uvicorn --workers 2`) replaces a process that
died. In each api process all requests share one `RabbitMQManager`.

Offline, the scraper appends products to a file, and the ingest service reads
that file into the database and builds a keyword index on disk. Both are run by
hand and run again after they failed. An llm worker loads that index when it
starts and searches it beside the database.

What is hard about it:

* the broker's two handlers and its shutdown run on one event loop and
  interleave at every `await`, sharing the registry and the pending list;
* acknowledged and unacknowledged messages differ after a crash, and the
  pending list exists only in memory;
* messages are redelivered, answered twice (two workers), or arrive before the
  row they belong to;
* several exceptions are swallowed, each at another point of a handler, and an
  operation that raises may have taken effect all the same (a commit or a
  publish whose answer was lost);
* two workers answer the same request differently, and the later answer
  overwrites the row of the earlier one;
* a client's URL is a plain string that nobody looks at before the answer is to
  be delivered to it;
* the callback worker shuts its HTTP client before its consumer;
* connections come back by themselves (`connect_robust`): the server redelivers
  while the tasks of the first delivery still run, and acknowledge in vain;
* the api's calls of `get_channel` and `connect` interleave at every `await`
  over two attributes without a lock, and a retry assigns over a connection
  that may be open;
* the two offline scripts share a file without a lock, can be killed in the
  middle of a write or between an insert and the index, and have nothing but
  the file and the rows to go by when they are run again;
* what a page lacks, or a reviews page that failed, is found out by another
  script on another day, after the record has been written for good;
* a loaded index is older than the database that is searched beside it.

Every hazard is listed at its line in `PROJECT.json`, with the property that
would catch it going wrong, or a note why there is none.

What makes each component correct:

* api: an accepted task has a row, and a row only ever belongs to a request that
  was accepted or whose client was told that it failed;
* broker: it neither loses a request nor hands it out twice, except at the
  points where the code knowingly drops one;
* llm worker: it reports what it computed, for the request it was given;
* tasks table: rows only move forward; a ready row stays ready, shows an answer
  to its request, and is not overwritten before its client was called back;
* callback worker: bounded retries, no usable message dropped without cause, no
  message held for ever;
* connection manager: a call ends with a channel or an error, and closing
  leaves no connection behind;
* scraper: a kill spoils no more than what was being written, and what a run
  that met no failure was shown can be read from the file;
* ingest: one row per product that says what the shop showed, nothing
  forgotten by a run that ends well, an index that agrees with the rows;
* retrieval: the ranking is the one the fusion promises, the LLM sees the best
  of it, and what it picks is shown.

## 2. Modules

| module | what it models |
|---|---|
| `Environment` | clients, disruptions (a stop, crash, stall or failing operation), and the record `lost` of what was given up where |
| `RabbitMQ` | the server as the services use it (external) |
| `TaskService` | the tasks table and its operations |
| `ApiWorker`, `BrokerWorker`, `LLMWorker` | one module per process |
| `TaskSystem` | their composition, the properties, and the fairness |
| `TaskLifecycle` | the abstract specification: what the task service promises about one task |
| `MCTaskSystem` | instances of `TaskSystem` for TLC |
| `CallbackWorker` | the callback worker and the queue it reads |
| `RabbitMQManager` | the connection manager as the requests of one api process share it |
| `ProductPage` | pages, records and rows of products: what the scraper takes over, what validation accepts, how a price is read |
| `ProductFile` | the product file: records, and which of them a reader can parse |
| `Scraper`, `Ingest` | the two offline scripts, one module each |
| `Catalog`, `MCCatalog` | their composition over one file, its properties, its instance for TLC |
| `CatalogLifecycle` | the abstract specification: what the two scripts promise about a product |
| `RankFusion` | `reciprocal_rank_fusion` as operators |
| `Retrieval` | one inference of an llm worker, step by step, and its properties |
| `TaskSystemProofs` | proofs: types and provenance of the task pipeline |
| `TaskDeliveryProofs` | proofs: what becomes of a request and of its callback, whatever fails (extends `TaskSystemProofs`) |
| `TaskRefinementProofs` | proofs: the pipeline's rows, and that it implements `TaskLifecycle` (extends `TaskDeliveryProofs`) |
| `TaskCalmProofs` | proofs: what the pipeline promises while nothing is disrupted (extends `TaskDeliveryProofs`) |
| `CallbackWorkerProofs`, `RabbitMQManagerProofs`, `RetrievalProofs` | proofs about these modules |
| `CatalogProofs` | proofs: the catalog's invariants, the completeness of a scrape, and that the scripts implement `CatalogLifecycle` |

**Granularity.** A step is the code between two awaits that can really suspend.
`handle_api_request` runs without suspending up to the publish
(`ReceiveRequest`), then publishes (`DispatchRequest`), then acknowledges
(`AckRequest`); `reqH` and `rspH` are the program counters of the two handlers,
each of which handles one message at a time (`prefetch_count=1`).
`process_pending_requests` takes one element of the list per step over the
*live* list, because Python's iteration sees appends, and `DrainEnds` assigns
what remains. `requeue_pending_on_exit` iterates the list object it started
with: when a drain assigns a new list meanwhile, `exitH` remembers the old one.

**Crash and redelivery.** A handler that has not ended has not acknowledged its
message, so `Exit` puts it back at the head of its queue (`Redelivered`). What
was only in memory is gone.

**Operations that raise.** An exception of a publish or a commit does not say
whether it took effect. Where the two cases differ for anybody else, the action
has both: `SubmitPublishFails` (the client gets a 500, the request may be
queued), `InsertTaskFails` (a 500, the row may be there), `UpdateTaskFails` (the
row may be ready, no callback follows), `PublishCallbackFails`, `DrainFails`.
Where the code goes on as if the publish had been good (`DispatchFails`,
`ReportFails`), the case that it took effect is the good action.

**Answers.** An inference may answer with any text of `Texts`, and the next one
about the same request with another. The text goes through the response queue
into the row, where it replaces the one before (`Written`), and into the
callback. Under `llmVars`, `answered` is history: the texts a request has been
answered with.

**Loss points.** The code drops requests knowingly: it logs an exception and
goes on. Each such place is a member of `LossPoints`, and the action records
the request in `lost`. No service reads `lost`. The properties say that nothing
disappears anywhere else.

| loss point | where |
|---|---|
| `broker_memory` | the broker's process dies with a pending list (`broker_worker.py:101`) |
| `broker_publish` | the dispatch publish raises (`broker_worker.py:142`) |
| `requeue_publish` | the requeue publish raises (`broker_worker.py:223`) |
| `no_binding` | published while no private queue is bound (`broker_worker.py:106`) |
| `worker_queue` | an llm worker goes with its queue and its task (`llm_worker.py:42`) |
| `inference` | inference raises (`llm_worker.py:103`) |
| `report_publish` | `send_status` swallows an exception (`llm_worker.py:67`) |
| `no_row` | a result finds no row (`service.py:221`) |
| `db_update`, `callback_publish` | an exception in the response handler (`broker_worker.py:204`) |

**Heartbeats.** They would fill the response queue without bound. A worker
sends one only while no message that would register it is in the queue: a
second one would only renew that registration. The 300 seconds
of `check_available_workers` are the action `MissHeartbeats`, free for a worker
that is gone and a disruption (`stall`) for one that lives.

**Callbacks.** The queue between broker and callback worker is, per request, a
count of copies and the set of their texts in `TaskSystem`; `CallbackWorker`
takes each copy as a message of its own. Of a URL it matters whether it can be
posted to (`Usable`), is none of the forms the worker knows (`Relative`, skipped
with an error in the log), or passes that test and is refused by httpx
(`Malformed`: `InvalidURL` is not an `httpx.RequestError`, so it is not retried,
and the message is acknowledged). A request post that is under way when the HTTP client is
closed fails with an httpx error; a new post on the closed client raises a
`RuntimeError`, which the retry loop does not catch.

A message has one task per delivery. When a connection is lost under a process
that lives on (`DropConnection`), the server takes the message back and delivers
it again, and the tasks of the earlier deliveries post on; only the task of the
current delivery can still acknowledge (`Current`). An acknowledgement that was
sent reaches the server in a step of its own, so that it can be lost too.

**Connection manager.** Every connection and channel ever made is an entry of
`connections` and `channels`, so that one that `self.connection` no longer
refers to stays visible. A call is at one of its awaits; the delay before a
retry is part of the next attempt. A lost channel may be restored by aio_pika at
any time (`RestoreChannel`). `retried` and `overlapped` are history: they record
the two ways in which `connect` assigns over a connection that is open.
`close` closes the one the manager knows, whatever its docstring ("Gracefully
closes connections during shutdown") suggests, so `NoStrayConnection` states
when that is all there are: it delimits the two hazards, it does not deny them.
`get_channel` tests `is_closed` before it awaits `connect` and not after
(`EnsuresLiveChannel`, violated).

**Pages, records and rows.** Of a product only what validation or a row depends
on is kept: whether there is a name, a stock note and a category; the price, as
an amount and the form it is written in; and per review which of title and text
are there and whether it has the facts `ProductReview` demands. `Scraped` says
what may become of a page: itself, itself without reviews when the reviews page
failed, or a blank record when it answered 403 three times. Amounts are in
thousandths, so that "1,299" read as 1.299 is a number too. A price that is an
empty string is accepted like any other string and raises only in `float`
(`"other"`). Of `get_product_category` only whether there is a category is
modelled; that it joins the letters of the first breadcrumb with blanks
(`filtered[0]` is a string) changes what the category says and nothing else.

**The product file.** A record on its way to disk is `torn`, then `unended`
(all but its newline), then `whole`; a kill leaves it as it is, and the ingest
may read it at any of these points. A record after one that is not whole is on
the same line with it, and neither parses then (`Readable`). The scraper's own
loader (`json.loads`, unguarded) refuses such a file, `FileUtils` passes over
the line; `LoadScraped` and `Fresh` differ in just that. A record torn inside a
character of several bytes is beyond `FileUtils` too (`UnicodeDecodeError`), so
`LoadFile` may raise on a torn line.

**Scraper.** `Pages` is the shop; a page read is the page, or nothing when it
was blocked or failed, which ends the category either way. So does a page with
fewer links than `PageSize`, also one in the middle, where a tile without a link
was passed over. `Shop` says what a product's page may show when it is read.

**Ingest.** `todo`, `batch`, `loaded` and `skipped` are sets of line numbers of
the file, taken in order; `idx` is the loop's counter, which runs on over
skipped products. `stored` is what the rows of a product say. An insert may be
committed although the call raises. The
index directory is `partial` while `BM25.save` replaces its files; what a worker
that starts then would load is not modelled beyond that it finds files
(`LoadsRetriever`). Failures of
building or saving it are swallowed, as in the code, and leave the run
`unindexed`.

**Rank fusion.** Scores are exact fractions, compared by cross-multiplication.
Sums of floats can differ in the last bit where the fractions are equal; the
properties are about products whose fractions differ, or equal scores whose
terms are the same two numbers, which floats add to the same.

**Retrieval.** Normalising, embedding, searching, reranking, generating and
fetching are steps that may fail; the database may grow between any two. The
rankings are arbitrary: nothing is assumed of embeddings or keywords. bm25s
returns as many results as it is asked for, or raises, so that the branch for
an empty result (`llm_service.py:251`) is never reached, and with fewer than 50
indexed products every query fails.

**Definitions marked "Mutant"** are the code with a plausible bug. They stand
before the definition they would replace; with one of them in its place TLC
finds the property violated that `PROJECT.json` pairs it with.

## 3. Runs

| run | instance | question | outcome |
|---|---|---|---|
| `task_system` | 1 request with callback, 2 workers, 2 texts, all kinds of disruption, one of them | does the request disappear, is anything made up, what does a row show when it is answered twice and differently, is its client called back, does the pipeline implement `TaskLifecycle`? | pass |
| `task_drain` | 3 requests, 1 worker; a SIGTERM or a crash of the broker, a failing publish or a stalling worker | do drain, dispatch, append and requeue share the list safely? | pass |
| `task_system_live` | 2 requests, 1 worker, one of: worker stop, broker stop, broker crash | does everything come to rest, are callbacks queued? | pass |
| `callback_worker` | 3 callbacks (one usable, one relative, one malformed), 1 at a time, 3 tries, 1 exit, 1 lost connection | retries, outcomes, shutdown, redelivery beside a running task | pass |
| `connection_manager` | the lifespan and 2 requests, 2 attempts, 2 losses | what stays open, does every call end? | pass |
| `channel_not_alive` | the same | is the channel `get_channel` returns alive? | violated |
| `failure_unreported` | 1 request, one failing inference | does a failure reach the row? | violated |
| `pending_starves` | 1 request, no disruption | is a pending request served once there is a worker? | violated |
| `catalog` | 4 products in 2 categories, pages of 2, one of them short before the last, batches of 2, 2 kills | is anything damaged, doubled, forgotten or misread over kills and reruns; do the scripts implement `CatalogLifecycle`? | pass |
| `index_path` | the same without kills | does a worker find the index an ingest saved? | violated |
| `retrieval` | 4 products, rankings of 3, a context of 2, with and without reranker | is the best shown to the LLM, and what it picks to the user? | pass |
| `rerank_fallback` | the same | does a failed reranking fall back on the ranking before it? | violated |

The five violated runs are disagreements between the code and what the
repository says of it; `PROJECT.json` quotes both sides under `findings`. Two
more were met that need no model checker: polling a task that still waits is
answered with a 500, because `TaskStatusResponse.result_text` is a `str` and the
row has none yet (`task_status`); and a `callback_url` that is a relative path
is skipped (`callback_worker.py:86`), whatever the comment of line 73 says.

**Bounds.** One request shows what redelivery, duplicate answers and disruptions
do to a row and its callback: two workers answer it twice, a crash makes four
answers of it, and two texts are enough for an answer to differ from the one
before it. Two requests are the least for one to be drained by the other's
response. An append to the list while it is being drained takes three, and a
worker that stalls (as long as one is registered nothing is appended): that is
`task_drain`, with one worker. `MaxDisruptions` counts what goes wrong in a run.
It is one, but for a requeue that fails, which takes a SIGTERM and a failing
publish (`Scope` in `MCTaskSystem`). `NothingVanishes`, `DispatchedOnce` and
`Provenance` were also checked with two requests, one worker and any two
disruptions (8.5 million states), which is too long for every day.
A restarted llm worker draws a new `WORKER_ID`, so it is a new member of
`Workers` and a `gone` one does not come back. In `callback_worker` there is a
callback of each kind of URL; the prefetch window is one of ten, so that the
others have to wait; three tries are the code's number; one lost connection and
one exit give up to three deliveries of a message, two of them at work together.
In `connection_manager` two requests and the lifespan are enough for two calls
to connect at the same time, for a third to reopen meanwhile, and for a startup
that fails half-way; two losses can take a connection and what replaced it.

In `catalog` a full page of two with the empty page behind it, and a short page
with another page behind it, are the ways a category ends (a short last page is
the second without the rest); the product on that other page is never listed.
With batches of two, every second product is on a boundary, kept or skipped; the
second kill shows a rerun of a rerun. The first product has a grouped price, a
review that is kept and one that is dropped; the second a price in cents; the
third a page that changes: without a category and with a review that is fatal to
the run, or with a price that is no number. That one is read, rejected, skipped
and retried, but gets no row. In `retrieval` K is 2, so that rankings of three
are the longest that `AgreementWins` allows (`TopK < K + 2`; the code's 50 <
62).

**Symmetry** is used for safety only: workers in `task_system`, whose temporal
properties are safety properties without fairness, and requests in
`task_drain`.

**Deadlock** checking is off: when all requests are through and no disruption
is left, the system rightly stops. So is a connection manager that was closed.
In `catalog` and `retrieval` it is on.

**Fairness** (`FairSpec`): weak fairness of each handler, of the broker's and
the workers' start, shutdown and inference, of heartbeats, and of time passing
for a silent worker. The code justifies it: an event loop runs every ready task,
RabbitMQ delivers to a live consumer, docker restarts every worker, the
heartbeat loop has no exit but cancellation. No fairness on submissions, on
disruptions, or on success: the callback worker's `Handle` may fail every time.
In `RabbitMQManager` every await of a call ends, well or with an exception;
nothing has to be asked, and nothing has to succeed. In `ComesToRest` the
pending list counts as rest, because `pending_starves` shows that the code does
not promise more.

## 4. Properties

* `NothingVanishes`: every published request is in a queue, in a handler, in
  the broker's list, settled in its row, or recorded at a loss point.
* `UndisturbedLosesNothing`: without disruption the only loss is a result that
  overtakes its own row.
* `DispatchedOnce`: without disruption a request is never both dispatched and
  waiting to be dispatched.
* `ReadyIsCalledBack`: the answer a ready row shows has its callback queued, or
  given up on an exception, or its response is in the handler, or next. The last
  is the point: after a crash the response comes again before another worker's
  answer can replace the text.
* `ExitEmptiesMemory`: nothing is left in memory when the requeue is over.
* `ForwardOnly`: rows never regress and a ready row stays ready. Its text may be
  replaced (`service.py:225-229`), by another answer to the same request only,
  and only after the callback for it was sent or given up.
* `Provenance`: nothing is made up, although publishes and commits may raise
  after they took effect: `task_status` knows every accepted request, and no
  row belongs to any but those and the ones whose client was told of a failure;
  and no row is ever `failed`.
* `ImplementsLifecycle`: refinement of `TaskLifecycle`, with `published`,
  `computed`, `row`, `missed` and `notified` mapped to submissions, answers,
  rows, updates that found no row, and callbacks with their texts. It promises
  no final text: a callback says what the row says when it is issued, unless an
  update for that request found no row, in which case the callback is issued
  although the row waits, perhaps for ever.
* `ComesToRest`, `CallbackFollows`: progress.
* `OutcomeIsEarned`, `BoundedPosts`, `EveryCallbackFinishes`: the callback
  worker.
* `NothingDroppedSilently`: a message with a URL that can be posted to is
  forgotten only after a received POST, its retries, or the closing of the HTTP
  client. One with another URL is forgotten untried.
* `NoStrayConnection`: the manager leaves an open connection behind only when
  two calls connect at the same time or an attempt fails after it connected.
* `EveryCallEnds`: requests and the startup end, with a channel or an error.
* `DamageIsConfined`: kills of the scraper spoil the last record and at most
  one inside the file. This rests on the scraper refusing a damaged file, which
  also means that somebody has to repair it.
* `NoDuplicateRows`: one row per product, although `products.url` is not unique.
* `FinishedRunIsComplete`: an ingest that ends well has every product it loaded
  in the database, or skipped it.
* `IndexMatchesRows`: a loadable index never names a product without a row.
* `RowsShowTheShop`: a row says what the shop showed. The exceptions are spelled
  out: a grouped price is a thousandth of what it was, and reviews whose page
  was not read are missing for ever.
* `ImplementsLifecycle` (of `Catalog`): refinement of `CatalogLifecycle`; the
  index that is saved holds all rows there are at that moment.
* `ScrapeIsComplete`: after a run that was not handed cached links and lost no
  category page, the ingest can *read* a record of every product listed, but for
  pages that could not be fetched, and, after a kill, the two records on the
  line that was left without its newline. Listed are the products up to the
  first short page of each category. A run that starts from cached links, or
  loses a category page, ends in the same way and promises nothing.
* `AgreementWins`, `OrderIsKept`: what the fusion promises of any two rankings.
* `ContextIsBest`, `PickedIsShown`: what the LLM sees, and what the user sees.

## 5. Proofs

For all requests, workers, callbacks, shops, batch intervals and bounds, under
the named assumptions on the constants only:

| theorem | statement | argument |
|---|---|---|
| `TypeCorrect` | `Spec => []TypeOK` | `TypeOK` is inductive; one lemma per process |
| `ProvenanceCorrect` | `Spec => []Provenance` | `TypeOK /\ Provenance` is inductive: every queue holds only issued requests or computed results, and each handler copies from one to another; what raised after it took effect leaves the client refused |
| `ExitLeavesNothing` | `Spec => []ExitEmptiesMemory` | `BrokerInv`: the request consumer is cancelled before the requeue, so the list can only shrink; only the requeue has a list of its own (`exitH`); and `DrainInRange`: the drain's index stays inside the list until it is cleared |
| `NoRequestVanishes` | `Spec => []NothingVanishes` | `DeliveryInv`, see below |
| `DispatchedForGood` | a request that is `Dispatched` (with a worker, on its way back, or settled) stays so | one lemma per process: a worker's step hands on, reports or gives up on record what it holds; a response is put back when the broker dies; a loss is never taken back |
| `ReadyRowsAreCalledBack` | `Spec => []ReadyIsCalledBack` | inductive with `Provenance`: the handler is acknowledged only behind the callback publish or a recorded loss, an unacknowledged response is a success, and it is put back at the head, where no other answer can overtake it |
| `RowsMoveForward` | `Spec => ForwardOnly` | `Provenance` gives that an insert finds no row and that a response is a success with an answer to its request; that the text replaced was called back is `ReadyIsCalledBack` in a state whose handler holds another answer |
| `PipelineImplementsLifecycle` | `Spec => ImplementsLifecycle` | `LifecycleInv`: a handler about to publish a callback holds what the row says, or its request has missed a row; each process has a lemma saying which of its steps show in `TaskLifecycle` and as what |
| `CalmRunsLoseNothing` | `Spec => []UndisturbedLosesNothing` | `CalmInv`, see below |
| `NoneIsHandedOutTwice` | `Spec => []DispatchedOnce` | `OnceInv`, see below |
| `CallbacksAreBounded` | if there are finitely many workers, `callbackQ[r]` is at most their number while nothing is disrupted | `ServedInv`, see below |
| `UndisturbedPipelineDelivers` | undisturbed and with all queues empty and all handlers idle, every published request is ready, or a result came before its row; and every callback that is due was issued | from `NothingVanishes`, `UndisturbedLosesNothing`, `ReadyIsCalledBack` and `Provenance` |
| `CallbackTypeCorrect`, `OutcomesAreEarned`, `NoCallbackDroppedSilently`, `PostsAreBounded` | invariants of `CallbackWorker` | `IInv`: ties the failures, posts and outcome of a task to the step it is at and the kind of its URL, a message that is acknowledged to the end of its last task, and the number of deliveries to the exits and drops |
| `ManagerTypeCorrect`, `NoConnectionStrays` | invariants of `RabbitMQManager` | while nothing was retried or overlapped, at most one call is connecting and it does so while nothing is open; a call that reopens does it on the connection the manager refers to |
| `CatalogTypeCorrect`, `ScraperConfinesDamage`, `ProductsHaveOneRow`, `FinishedRunsAreComplete`, `IndexFollowsRows` | invariants of `Catalog` | `IInv`: one line per url in the file; a scraper past its loader has at most one unended record; what an ingest still has to insert has no row, and what it loaded is in `todo`, `batch`, `skipped` or the rows. The scraper's steps concern the ingest only in that the file grows (`FileGrows`) |
| `StoredRowsAreShown` | `RowsShowTheShop` | `ContentInv`: every record is blank or something the shop showed; what is to be processed was accepted; what is in the batch has a price that is a number and a category |
| `ScrapesAreComplete` | `ScrapeIsComplete` | `CompleteInv`: a listed product of a page already read is among the links (no page behind a short one is read), and a link already taken has a record or was missed; `TextInv`: a finished run leaves no torn record, and without a kill only the record being written is not whole. `DamageIsConfined` then leaves one line that cannot be read, with two records |
| `RetrievalTypeCorrect`, `AgreementAlwaysWins`, `FusionKeepsOrder`, `ContextsAreBest`, `PicksAreShown` | invariants of `Retrieval` | `Higher` orders scores like numbers, so `Ahead` is a strict total order; the number of products ahead of one is then an injection into `0..n-1`, hence a bijection, and is its position in `Fuse`. Two terms of at least `1/(2k+1)` beat one of at most `1/(k+1)`. `IInv` adds that the searches return rankings of at most `TopK` products and that `ranked` is their fusion |
| `ScriptsImplementLifecycle` | `Catalog` implements `CatalogLifecycle` | each script's steps map to one abstract step or none; rows come from records (`RowsHaveRecords`) |

`ForwardOnly` needs more than it seems: that a ready row stays ready depends on
responses being successes, which depends on what workers put into the queue,
which depends on what they were handed (`Provenance`); and that its text is not
replaced too early depends on where the response that wrote it is
(`ReadyIsCalledBack`), so it is proved after the delivery properties.

The invariants of the pipeline are not inductive as they stand:

* `NothingVanishes` says too little in two places. A request that is only being
  acknowledged counts for it as being handled; a step later it does not, so
  `Accounted` asks that it be somewhere else already. And `DrainEnds` drops what
  the drain has passed, so `DrainedIsDispatched` relates `rspH.idx` to what has
  been dispatched, which is kept because of `DispatchedForGood`. A drain that
  replaces the list of a shutdown leaves `RequeueList` unchanged, since `exitH`
  has the old one.
* `UndisturbedLosesNothing` fails where a message is published while nothing is
  bound. `CalmInv` shows that this takes a disruption: while nothing has been
  disrupted a worker that is registered, or whose message is in the response
  queue, is bound, and a request is about to be published only if one is.
  `BoundInv` ties bindings to processes: a worker that does not consume has no
  binding and an empty queue. `StaysCalm` shows which steps are left while
  nothing is disrupted (`CalmNext`); the next two arguments are about these.
* `DispatchedOnce` needs to know that no request is waiting twice. `OneCopy`:
  the request queue has no duplicates, nor has the part of the list that the
  drain has yet to reach (`Line`), and they and the request about to be
  published are disjoint. Then what a step hands out (`HandedOut`) is no longer
  waiting, and only that becomes `Handled`.
* `OneCallbackPerWorker` needs a witness. `ServedOnce`: at every worker a
  request is in one place at most (its queue, its hand, the response queue, the
  response handler), once. `CausedByAWorkerEach`: there is a set of workers that
  are through with the request, at least as large as the number of callbacks;
  a callback adds the worker whose answer it was.

TLC checked the inductive invariants on the instances of the runs before they
were proved.

Only model-checked: liveness (`ComesToRest`, `CallbackFollows`,
`EveryCallbackFinishes`, `EveryCallEnds`), because fairness and ENABLED are out
of the prover's reach. Every other property of a passing run is stated by a
theorem. The properties of the violated runs have none.

## 6. Not modelled

Contents of queries, results, prompts and descriptions; logging; HTTP
validation and the exception handlers of the api, which hold no state;
`_print_stats`; the visualisation and the migrations, which run by themselves;
the operations of `ProductService` that no service calls; reconnection of a
live broker or llm worker (the callback worker's is modelled); a RabbitMQ server
that loses durable messages; a disk that fails under the scraper's append (the
loop would go on after a torn record); a kill in the middle of rewriting the
link cache; what a half-written index answers; two ingests or two scrapers at once; what a category says.

## 7. Plan

Done: the task pipeline with its abstract specification, the callback worker,
the connection manager, the catalog with its abstract specification and what
its rows say, and retrieval, all modelled, checked, and proved as above. Left:

1. Proofs: what a disruption can cost at most, that is, `lost` related to the
   kind of disruption that happened; and how many callbacks a redelivered
   response can cause.
2. Reconnection of a live broker, with the redelivery of a request or response
   whose handler still runs: `TaskSystem` would need a handler per delivery.

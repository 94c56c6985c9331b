# Lakewing in TLA+

Lakewing (the Go program of this repository) builds immutable geospatial
snapshots - a DuckLake catalog, Parquet files and a sidecar with a spatial
file index - and serves one pinned snapshot over OGC API Features and Arrow
Flight. This directory holds TLA+ specifications translated from its source,
model-checked with TLC, and theorems about them checked with TLAPS.

Paths such as `store.go:671` are below `src/internal/<package>/`, `main.go` is
`src/cmd/lakewing/main.go`. `PROJECT.json` maps every definition to its lines.

## 1. Inventory

| Component | State it keeps | Operations | What is hard about it |
|---|---|---|---|
| Admission control (`store.go`) | free list `pool` (mutex), permits `sem` (channel), bulk lane `bulk` (channel), counter `queued` (atomic) | `acquire`, the `release` closure, `Query`, `Close` | four kinds of synchronisation for one decision; five ways out of `acquire`; clients that stall or leave; `Close` at any time |
| Build and publication (`materialize.go`) | the published tree: data files, catalog, manifest, `.serving.json` | `Run`, `publishTree`, `GenerateIndex`, the `index` command | no locks and no fsync: races of processes, crashes between and inside writes, retries over what a dead build left |
| Opening a snapshot (`store.go`) | pinned snapshot number, frozen file list, serving index | `Open`, `resolveFiles`, index validation | the catalog path is attached twice; the sidecar may be of another build |
| Serving index (`index.go`, `filter.go`) | per-file boxes, grid of cells | `BuildIndex`, `PartitionFiles`, `PruneFiles`, `ReadSource`, the predicates | three separate treatments of the antimeridian must agree; floating-point edges |
| Items and paging (`ogc.go`, `plan.go`) | none on the server: all of a walk is in the `next` link | `itemsHandler`, `PageParts`, `CanonicalQS`, `filter.Sources` | pages of one walk come from replicas on different snapshots, with different headers |
| Arrow Flight (`server.go`, `flight.go`) | per call: the record builder, the rows written, `wrote` | `DoGet`, `GetFlightInfo`, `GetSchema`, `ListFlights` | backpressure of a client inside the query function; failures after part of the answer is out |
| OGC metadata, tiles, conditional responses (`ogc.go`, `tiles.go`, `store.go:127-150`) | none on the server; caches keep its answers | the other handlers, ETag/gzip/304, `Vary`, `Cache-Control` | a cache relates the answers of replicas on different snapshots to clients with different headers |
| Schema resolution (`store.go:245-363`) | the frozen file list | `resolveFiles`, its use in `Open` | other clients commit deletes, inlined rows, schema changes, before and during the look-up |
| Process life cycle (`main.go`) | listeners, the signal context | `serveCmd`, `flight.Serve` | `Close` and exit while Flight handlers still run |
| Writer job and read pools (`charts/`) | the volume of a pod, the object store, `refs/latest` | the CronJob's two containers, the init container of readers | a container that is started again over what a killed one left; keys that are never overwritten |
| Content addressing (`materialize.go:413-524`) | the staged files and catalog | `contentAddressData` | row by row and file by file; files with equal contents become one |
| DuckDB helpers (`dbutil.go`), DuckDB and DuckLake themselves | - | - | third party, or without state of their own |
| Local stack, benchmarks, docs (`justfile`, `scripts/`, `docs/`) | - | - | developer tooling |

How they interact. The handlers of OGC and of Flight all call `Store.Query`
(shared state: the pool), with SQL whose `FROM` comes from `ReadSource` (the
index that `Open` accepted) and whose `WHERE` comes from `filter` and `plan`.
`Open` reads what `build`, `index` and the writer job published: the file
system is the only channel between them. Clients talk to replicas behind one
Service, so the only thing that ties the pages of a walk together is the link.

What makes each part correct:

- **Pool**: a connection has one holder; permits, tokens, connections and the
  counter balance on every path; the interactive reserve is never used by bulk
  callers; an admitted caller finds a connection; interactive callers always
  return, whatever Flight clients do.
- **Publication**: a visible catalog refers to whole files; a path never
  changes its snapshot; published files never change; a build that reports success
  has its own catalog, manifest and index in place, over whole files.
- **Open**: the server pins the last snapshot of the catalog it serves, once the
  builds of its path are through, and prunes only with an index of exactly the files of that snapshot.
- **Index**: pruning plus the SQL shortcuts return the rows that intersect the
  request, but for those it meets only where the grid rounds its extent away.
- **Pages**: ids ascend across a walk, nothing lasting is missed, links never
  widen the sources, and following links ends.
- **Resolution**: the frozen files are the table of the pinned snapshot whenever
  they are used, and are used whenever nothing speaks against them.
- **Responses**: whatever caches are in between, a client is shown what a replica
  would send to it; errors stay out of caches, and caches catch up.
- **Writer job**: rows name the files with their contents, a catalog in the bucket
  has its files and is kept, `refs/latest` comes last, and the next job repairs.
- **Flight**: an answer that ends well is the whole page, with the schema announced
  for it; a
  refusal precedes every row; server and client both come to an end.

## 2. Modules

| Module | Role |
|---|---|
| `Pool` | admission control: state, one action per step of a caller, `Close` |
| `PoolProperties` | its type invariant, safety, refinement mapping and liveness |
| `Leases` | the abstract specification of the pool: callers ask, and are granted exclusive connections within the bulk limit, or refused |
| `PoolProofs` | theorems about `Pool`, and that it implements `Leases` |
| `SnapshotStore` | the abstract specification of publication: a path is empty, then holds one snapshot for good; implemented by `Publish` and by the bucket of `WriterJob` |
| `Publish`, `PublishProperties`, `PublishProofs`, `MCPublish` | publication and opening |
| `ServingIndex`, `ServingIndexProofs`, `MCServingIndex` | spatial pruning, end to end |
| `Pages`, `PagesProofs`, `MCPages` | a client's walk through pages |
| `Flight`, `FlightProofs`, `MCFlight` | a Flight call from ticket to status, in a process that may stop |
| `Catalog`, `CatalogProperties`, `CatalogProofs`, `MCCatalog` | when files may stand for a table that others change |
| `Responses`, `ResponsesProofs`, `MCResponses` | the HTTP handlers through a shared cache |
| `ContentAddress` | `contentAddressData` over a staging directory |
| `WriterJob`, `WriterJobProofs`, `MCWriterJob` | the CronJob around it, with its volume and the bucket |

Operators named `<Action>_<Change>` (for instance `Pop_KeepsSlot`) are variants
of an action with a plausible mistake in it. Nothing uses them: each shows, put
in place of the action, that a property notices the mistake.

### Pool and Leases

A caller of `Store.Query` is an element of `Interactive`, `Heavy` or `Streams`;
`pc[r]` is where its goroutine is. `sem` and `lane` are the numbers of items in
the two channels, `pool` is the slice of free connections, `queued` the atomic
counter. Each statement that other goroutines can come between is one action:

| Code | Action |
|---|---|
| `store.go:664-669` send/receive on `bulk`, or `ctx.Done()` | `Call`, `TakeLane`, `CancelLane` |
| `store.go:671-683` `queued.Add(1)` and the test of its result | `Count` |
| `store.go:686-688`, `712-714` permit, then `queued.Add(-1)`; or the timer | `TakePermit`, `Dequeue`, `Timeout` |
| `store.go:689-703` pop under the mutex; "pool exhausted" | `Pop`, `Exhausted`, `ExhaustedLane` |
| `store.go:673-678` the deferred undo | `UndoCount`, `UndoLane` |
| `store.go:703-711` the release closure | `Release`, `ReturnPermit`, `ReturnLane` |
| `server.go:246-291` a blocked write to a Flight client | `Stall`, `Resume` |
| `store.go:748-756` | `Close` |

Goroutines blocked on one Go channel are served first come, first served
(`ahead`). The cancellation of a waiting call by its client and the timer are
one action (`Timeout`): the code treats them alike.

`Leases` knows only `asking`, `lease` and `closed`. The mapping (`Abs` in
`PoolProperties`) takes the callers in the queues for those that ask, so all
the permits, tokens and counters are hidden: `Pop` is a grant, `Release` gives
back, a refusal is a caller that stops asking.

### Publish

Every `build`, `index` and `serve` is a process with its own `pc`. A file name
stands for its content (both UUID names and content hashes make that true). A
write by `os.WriteFile` is two steps, so that a file may be found `torn`;
`os.Rename` is one. `Fail` stops a job between any two steps: a returned error
and a crash differ in nothing that stays. A catalog is the build that made it:
`Last` is its last snapshot, `Inserted` the one that holds its rows (a sorted
build commits once more), `Files` its live files in `file_order`. `After` says
which builds a build waits for, which makes both racing and sequential builds
instances of one specification.

All of a build below its private staging directory (`os.MkdirTemp`: import,
sort, repoint, verify, content-address) is the single step `Stage`, because no
other process can see it (`ContentAddress` has the last of these in detail).
`Tree` is what `publishTree` copies, in its order; `Files` are the live files of
the table `features`. They differ by the file of `collections`, whose footer
`GenerateIndex` does not read (`ReadFooters`) and which `Open` needs in the end
(`ReadCollections`, `store.go:562`). So `Whole` is said of the tree and `Readable` of the
files of features, and `SuccessIsComplete` says of each what is true: the former
may lack what was taken for published though it was not (`Unnoticed`: a failing
`os.Stat`, a torn leftover), the latter nothing.

`Open` reads the snapshot number in one attachment of the path (`ReadLast`) and
serves from a second one (`Attach`). Between the two a racing build may replace
the catalog, since its check was long ago; the number of the one is then pinned in the
other. `PinsLast` says when this is over: from the moment at which the path has a catalog
and no build is left that had found it free (`Settled`), whoever starts pins the
last snapshot, whatever builds begin afterwards.

`SnapshotStore` knows snapshots and paths only. The mapping (`Store` in
`PublishProperties`) takes the builds whose files of features are all whole for the `complete`
snapshots, a sidecar that parses for `listed`, and a reader with an accepted index
for one that is `pruning`; torn files, staging, retries and everybody's place in
the code are hidden. That a catalog appears only over complete data (`DataFirst`)
is asked for unique names and an `os.Stat` that does not fail; with shared
hashes a retry may publish over a torn file and only then notice it.
`Store!Promise` is what a client of a server has from it.

### ServingIndex

Coordinates are integers: what matters of a float64 here is its order, and that
`lo + k*step` rounds. `Edge` therefore gets a rounding error for the last edge
of the grid, from the constant `Roundings`, downward as well as upward. A row stands for its box, so
`ST_Intersects` is intersection of boxes. `Footers` is `fileBboxes`, `Build` is
`BuildIndex` and the start of a server with it, and `Query` computes `FROM`
(`ReadSource`) and `WHERE` (`Predicate`, with both bounding-box shortcuts) of a
request. NaN and malformed boxes, which both ends reject, are left out.
`OnlyTheRimIsLost` is the whole contract in one property: no row too many, none lost
without a sidecar, and with one only rows whose points in common with the request all lie
past the last edge of the very grid that the sidecar was built with (`Covered`).

### Pages

A snapshot maps ids to the source of the row or to nothing; ids are compared by
their order only. `Answer` is one run of `itemsHandler` at some replica, with
whatever header the client's proxy adds; `NextLink` is `CanonicalQS`; `Roll`
restarts a replica on a later snapshot. No constraint keeps `features.id` unique
(`materialize.go` copies the ids it selects); the model has one row per id, and
what two rows of one id do to a cursor is outside it. Rows outside the collection or the bbox
are left out of the snapshots, because each link repeats both unchanged.

### Flight

Rows of a call are counted, since they are sent in order: `fetched` from DuckDB,
`built` into the record builder, `written` to the stream, `got` by the client.
`total`, the number of rows that match, is any number up to `MaxRows`;
`PageRows` is what LIMIT and OFFSET leave of it.

| Code | Action |
|---|---|
| `server.go:94-98` and `149-152`, the default columns, twice | `PlannedColumns`, `InfoColumns` |
| `server.go:192-222` `GetFlightInfo`, `GetSchema` (and `ListFlights`) | `Info` |
| `server.go:227-246` ticket, `plannedTicket`, schema, SQL | `DoGet` |
| `server.go:247-251` `Store.Query` and `QueryContext` | `Admit`, `Reject` |
| `server.go:263-282` a row; a failing row; a batch | `Scan`, `Break`, `Flush`, `WriteFails` |
| `server.go:283-291` `rows.Err`, the last flush | `Break`, `Finish`, `Flush` |
| `server.go:427-430` `GracefulStop` | `Lose` of calls not begun |
| `main.go:151`, `175-183` signal, `Close`, exit | `Interrupt`, `Close`, `Exit` |

The transport is external: `Window` bounds how far the server is ahead, order
is kept, and what is on its way is lost with the process (`Lose`). Admission is
taken as what `Pool` shows of it. Values of rows, the encoding of tickets
and the filter by sources are left out; a ticket says whether its collection
exists and its bbox is well-formed.

### Catalog

A row of a metadata table is a record `of` something that is live from `begin`
until `end`, so that "at snapshot s" is one operator (`At`). A commit of another
client is one action that moves `last`: `Insert`, `InsertInlined`, `DeleteFrom`
(delete file or inlined), `Rewrite`, `Alter`, `Rename`, `DropTable`,
`CreateTable`. A server pins (`ReadLast`, `store.go:418`) and later decides
(`Freeze`, `store.go:424-482`) from the metadata it then finds, some of it
asked for at the snapshot and some not. `TableRows` is what DuckLake itself
returns, `FileRows` what a plain `read_parquet` of the list returns; a row
carries whether its `name` is the stored value or NULL, since DuckLake finds
columns by id and `read_parquet` by name.

### Responses

`Handle` is a handler: refusals in the order of the code, then body, coding,
ETag and the 304. `Success` is `success` of `ogc.go:214-246`. The cache is
external and does what RFC 9111 says with the headers it is given: `store`
keeps an answer under the request headers that `Vary` names for one `Tick` and
revalidates with the ETags of all it has for the URL. An ETag is its coding and
body, since it is a hash of the bytes. `Roll` restarts a replica on a later
snapshot, `Evict` makes the cache forget.

### ContentAddress and WriterJob

`ContentAddress` has the loop of `contentAddressData`: one file per step, with
its rows (`stored`), its name in the staging directory (`dir`) and the names no
file was found for (`unmatched`). A content stands for bytes and hash.

`WriterJob` goes through the lines of the two containers:

| Code | Action |
|---|---|
| `writer.yaml:17-18` schedule, `Forbid` | `Schedule` |
| `writer.yaml:23` `OnFailure`; a kill, a lost node | `ContainerFails`, `Crash`, `LosePod` |
| `writer.yaml:40-49` name, `lakewing build` | `Name`, `AddressFile`, `AddressedAll` |
| `materialize.go:526-551` `publishTree`, a file in two steps | `Create`, `Fill` |
| `materialize.go:211`, `226-233` | `RenameCatalog`, `Index` |
| `writer.yaml:62-65` the list and its `grep` | `Check` |
| `writer.yaml:69-72` the four uploads | `Upload`, `UploadedAll`, `UploadCatalog`, `UploadIndex`, `MoveRef` |

Catalogs are named after minutes; `Tick` lets minutes pass inside a job.
`Again` lets a build that is repeated select other rows, as `--limit` without an
order may. Two variables only record what happened: `blind` (a list of the
bucket failed) and `drifted` (a repeated build gave other files in one pod).
`Calm` is the moment from which nothing fails, is killed or is lost. `Unread` are the
contents that no footer check looks at: the file of the table `collections`.

`BucketIsStore` maps the bucket to a `SnapshotStore` (with data first, and without
readers): a snapshot is the set of files a catalog names, `listed` those with an
index. It asks this of every step after which neither `drifted` nor `blind` holds.

## 3. What the runs check

Sizes are distinct states. `CHECK_DEADLOCK FALSE` is set only for `Publish`,
`Flight` and `WriterJob`, whose processes all end.

| Run | States | Question |
|---|---|---|
| `pool_safety` | 137 676 | in every interleaving of two interactive, two heavy and one streaming caller over two connections and a lane of one: are leases exclusive, the accounts balanced, the bounds kept, do callers never all wait for each other, is the pool an implementation of `Leases`, and does every bulk call return if Flight clients let their queries end? |
| `pool_open` | 20 571 | with the default flags (no lane) and clients that may never read again, does every interactive call return? |
| `publish_race` | 1 134 620 | two builds for one path, one for another, an `index` run and a reader, each of which may die at any point: does the catalog come last, is a served index right, and does a server that starts on a settled path pin its last snapshot? |
| `publish_retry` | 292 888 | builds one after another over shared content hashes, with crashes and failing `os.Stat`: are success and index what they claim, are published files left alone, and is it all a `SnapshotStore`? |
| `index_prune` | 1 882 238 | for pairs of files and every request on a small sphere, under every rounding of the grid: does an answer have no row too many, and lack only rows on the rim that is rounded away? |
| `catalog_freeze` | 417 823 | while other clients insert, delete, rewrite, alter, rename and drop, are the frozen files the table whenever they are used, and used whenever they may be? |
| `responses` | 542 371 | with two clients behind one cache and two replicas that roll, is what each is shown its own, readable, live if an error, and up to date in the end? |
| `writer_job` | 917 212 | with containers killed and started again, and pods lost, is what two jobs publish whole, named by content and kept, is the bucket a `SnapshotStore`, and does the next job repair? |
| `doc_torn_collections` | violated | is what `refs/latest` names all there? |
| `pages_walk` | 258 018 | are pages ascending, complete and never wider, and does a walk end, while replicas roll and headers change? |
| `doc_next_link` | violated | can every `next` link be followed? |
| `flight_stream` | 5 654 | is a Flight answer that ends well whole and of the schema announced, does a refusal precede all rows, and do both ends finish, whatever fails, leaves or stops? |

Bounds, by name, and why they are enough:

- *Pool*. Two connections and a lane of one are the least that have both a
  lane and a reserve; two callers of a class contend with each other and with
  the other class. `MaxWaiters` 2 lies below the five callers, so refusals
  happen. A caller calls again and again; nothing counts up.
- *Publish*. Two files of features and one of `collections` before them give a
  first, a last and an "in between"; one racing build has none (a bbox without
  features). In `publish_retry` the three builds share the file of
  `collections` and `os.Stat` may fail on a file of features that two of them share. Each process runs once:
  a retry is another build with the same path and files.
- *ServingIndex*. `Antimeridian` = 2 leaves five longitudes, so that an extent
  has a last cell with points in it, on its rim and beside it, and can end before the
  antimeridian; `Pole` = 1 leaves three latitudes. `N` = 2 makes a grid of 2 x 2. `MCRowSets`
  has files of one wide row, and of one or two points in the northern half. Of the orders of
  requests only "with bbox after without" is explored (guard of `Query`):
  a request leaves no state behind. `Roundings` {-1, 0, 1}: the last edge of
  either axis falls short, is exact, or reaches too far.
- *Pages*. Three ids and `MaxLimit` 2 give walks of up to three pages with a
  page limit of 1 and `limit` 0 and 3 as the refused neighbours of the range;
  `Width` 4 with offset 5 makes the 32-bit cut happen; two snapshots are an
  earlier and a later one for any pair of pages. The two replicas roll
  independently.
- *Flight*. Batches of 2 and pages of up to 4 out of up to 5 rows give the empty
  page, a rest, one batch and a rest, and whole batches only. `Window` 1 makes a
  batch wait for the client. Limits just outside the range and each malformed
  ticket are among `MCTickets`. One call is enough: calls share only the life of
  the process (their contention for connections is the subject of `Pool`).
- *Catalog*. A build's snapshot and four commits give each kind of commit before,
  between and after pin and decision, and pairs that undo each other (a delete and
  its rewrite, a rename and its reverse). Two table ids and two column ids are an
  original and a replacement; three rows are one each to keep, delete and add.
- *Responses*. Two clients of different headers are enough for one to be shown what
  was kept or revalidated for the other; the five headers differ in each of the
  three that `Vary` names. Two snapshots have an item that goes and one that changes.
  The ten URLs reach each refusal and each kind of answer.
- *WriterJob*. At least a minute lies between two jobs (`Schedule`): so it does with
  the default schedule, which is a value of the chart; `Forbid` alone would let a
  job start in the minute in which the last one ended. Two jobs are one that leaves a mess and one that finds it; `Tries` 1
  lets each be killed twice (once to start again, once to fail), which the
  shortest counterexample of every mutant needs at most. (2 tries were run as well:
  4 101 700 states, no error, too long to keep.) `Minutes` 3 lets one minute pass
  inside a job, so that a repeated build may find its own name or a new one. The two
  builds share a feature file, one has a content twice, and both have the one of
  `collections`.

### Where documentation and code differ

1. `doc_torn_collections` - README: "Publication is atomic ...: data files publish
   first ..., then the catalog that references them". `os.WriteFile` is not
   atomic, and `publishTree` takes whatever exists for published
   (`materialize.go:541`). With `--content-address`, the retry of a killed
   build skips the torn file. If it is one of `features`, the catalog is renamed
   over it and `GenerateIndex` fails after the fact (`SuccessIsComplete` of
   `Publish`: the exit code tells). If it is the file of `collections`, no
   step reads it: the build succeeds (the case that `Unnoticed` leaves open in
   `SuccessIsComplete`), the job uploads it and moves
   `refs/latest`, and `Open` fails on it (`store.go:562`).
2. `doc_next_link` - README: pages include `next` links and every valid datetime
   matches. `CanonicalQS` writes the datetime unescaped; a `+` zone comes back
   as a space and is refused.

Seen while modelling, without a run of their own.

*Pool.* README: requests "queue for `--max-wait-ms`"; the wait for the bulk lane
(`store.go:665`) ends only with a token or the client's own cancellation, so
that behind a stalled Flight client it has no bound.

*Pruning.* `PruneFiles` says of itself "file indices whose bbox may intersect
bounds" (`index.go:102`). The code does not keep it: the last grid edge is
`w + float64(nx)*((e-w)/nx)` (`index.go:138`) and may round below the extent. With two
cells on an axis, `w` = -1.64 and `e` = 0.66 give 0.6599999999999999; so do about 0.4 %
of the extents with two decimals. A request that touches the extent only there, for
instance at the very point that made `e`, matches no cell, and its row is missing
from an answer that would have it without a sidecar. `OnlyTheRimIsLost` therefore
claims all the rest and no more, with such roundings among its instances: that
nothing else can be lost is also the theorem `AnswersLackOnlyTheRim`.

*Resolution.* "Fail closed to the catalog table on any doubt" (`store.go:453`) has
two gaps, which `ServesPinned` excepts and without whose exceptions it is
violated: the table id is looked up by name, without a snapshot or an order
(`store.go:249`), so that after a table was renamed or dropped and another took
the name `features`, the files may be those of the wrong one; and the schema is
compared by name and type, so that a column dropped and added again reads old values
where DuckLake gives NULL.

*Responses.* "Every response carries an ETag with `Cache-Control`" (README): a 204,
the collections and the static documents carry no ETag, and the JSON documents that
huma writes carry neither.

*Writer job.* "Additive only: never delete data another snapshot references"
(`writer.yaml:66`): a build that is killed while it writes a file and selects other
rows when it is repeated in the pod leaves a torn file that belongs to no
catalog of its own; `rclone copy` uploads it over the whole one that an older
catalog refers to (`CatalogsComplete` without its `drifted`). "Catalog keys are
never overwritten" (`writer.yaml:7`): the errors of the list are thrown away, and
one that fails lets the upload go on (`CatalogsAreKept` without its `blind`). A
publish container that dies between catalog and reference is refused by its own
key until the job has failed; the next job publishes under another name. Readers
wait for the catalog's key alone (`readpool.yaml:38`) and may start before the
index is there, without which they open every file.

*Others.* Publication "refuses to
overwrite an existing catalog" (README) only as long as builds for one path do not
race: the check (`materialize.go:167`) and the `os.Rename` (`:211`) are minutes
apart (`NeverOverwritten` needs one writer at a time: it is a part of
`ImplementsStore`, run `publish_retry`, and the theorem `OneWriterNeverOverwrites`). A server
that starts while such builds are at work may pin the number of the catalog that was
there first in the one that replaces it; `PinsLast` is about servers that start later. The lane's queue has no bound,
`--max-waiters` counts only those past it, and it refuses callers also when
permits are free (`store.go:681` counts before it looks; 0 refuses everyone).
A stalled Flight client outlives `--query-timeout-ms`, because the write
(`server.go:259`) does not watch the query context. After `Close` a late release
appends to the drained list (`store.go:703-706`), and a caller that finds the
list empty sends its lane token back twice and subtracts itself from `queued`
twice (`:688`/`:675`, `:698`/`:677`); in `Pool` those sends may then block, and the
accounts are claimed only until `Close`. The rewrite of a manifest or sidecar is not atomic. Two concurrent
builds may truncate a published content-addressed file while they both write it
(`AdditiveOnly` is checked and proved for builds that share files one after another).
Flight ignores a malformed `x-source-ids` where OGC answers 400. An `offset`
of 2^32 or more is cut, though the OpenAPI document names a maximum. The
`BBoxContained` shortcut never saves `ST_Intersects`, since `Predicate` also
requires it. `--flight-stream-mb` and `--flight-total-mb` do not exist.

### Fairness

- `Pool!FairSpec`: weak fairness of `Step(r)` for each caller. Go runs runnable
  goroutines, timers fire, and a query function that is not blocked on a client
  returns, since its driver calls carry the deadline. Nothing is assumed of
  clients: `Call`, `CancelLane`, `Stall` and `Resume` have no fairness, so a
  Flight client may hold its connection for ever. `BulkReturns` states its
  assumption on Flight clients in its premise. First-come order on a channel is in
  the model (`ahead`), so no strong fairness is needed.
- `Pages!Spec`: weak fairness of `Follow`: a client that has begun a walk
  goes on. `Start` has none.
- `Flight!Spec`: weak fairness of the handler, of the client's reading, and of the
  end of a process that is stopping (`Shutdown` is limited to 5 s). The client's
  part is an assumption, which `StreamsEnd` needs: a client that neither reads nor
  leaves holds its handler for ever (see `Pool`, where nothing is assumed of
  it). Nobody has to call, to leave or to stop the process.
- `Responses!FairSpec`: clients go on asking, requests are answered, answers arrive,
  and time passes (without which nothing in a cache grows old). No replica has to
  roll, and `Evict` has no fairness.
- `WriterJob!FairSpec`: weak fairness of the schedule and of the steps of each
  container, which is what Kubernetes does with a job that is due and a container
  that runs. Kills, losses and `Calm` have none: `NextJobRepairs` speaks of a job
  that begins when they are over.
- `Publish`, `ServingIndex` and `Catalog` have safety properties only.

## 4. What is proved

All theorems hold for every value of the constants that meets the named
assumption of the module, which TLC evaluates on the runs.
Each module's type invariant, `TypeOK`, is among them (`TypeCorrect`), so the runs
leave it out.

**PoolProofs** (under `PoolAssumption`: finitely many callers, at least one
connection, `BulkLimit` in `1..Connections`, as `Open` checks; any
`MaxWaiters`). The invariant is `TypeOK /\ LeaseExclusive /\ Accounting`. None
of the other properties is inductive: that a permit finds a connection needs
that the list is as long as the permits are many plus the callers between
permit and pop; hence `Books`, four equations between a container and the
set of callers that owe it something. The proof that a step keeps them
(`BooksStep`) reduces every action to the change of the sets of callers by one
element (`Moves`, `Shift`). `Exhausted` would break them, and `Books` itself shows
that it is not enabled before `Close`. Theorems: `TypeCorrect`, `LeasesExclusive`
(also after `Close`), `AccountsBalance`, `NeverExhausted`, `ReleasesNeverBlock`,
`QueueIsBounded`, `ReserveIsKept`, `NothingIsLost`, and
`PoolImplementsLeases`: `Init` maps to `Init`, and each action to a step of
`Leases` or a stutter; only the grant needs the invariant (free and held
connections are disjoint, and bulk holders are bounded by lane tokens).

`CallersNeverStandOff` is about a deadlock that the two channels could have: who
waits for a permit already holds a lane token, others wait for that token, and who
gives up needs room to give things back. It adds the invariant `Queues`: whoever is
ahead of a caller waits on the same channel, `ahead` is a strict partial order (so
somebody is first: the caller with the fewest ahead, `SomeoneIsFirst`), and only
Flight clients stall. A caller that is first and cannot go on finds its channel
empty; by `Books` others then hold all of it (`PermitsAreHeld`), and a holder that is
not stalled can run, since what it gives back has room (`RoomHolds`). With a lane,
stalled clients hold fewer than all the permits, so that the permit queue moves
whatever they do.

**PublishProofs** (under `PublishAssumption`). Which theorem needs what of the
builds:

| Theorem | Assumes |
|---|---|
| `TypeCorrect`, `ServedIndexIsRight`, `SettledPathsPinLast` | nothing: the path check of `Open` works whoever replaces what, and a settled path keeps its catalog |
| `CatalogComesLast` | `Unshared` names and no failing `os.Stat` |
| `OneWriterNeverOverwrites` | `Serial`: builds for one path run one after another |
| `OnlyAdds`, `IndexComesLast` | `Ordered`: builds with a file in common run one after another (true of unique names) |
| `RetriesSucceedWhole`, `PublishImplementsStore`, `ReadersArePromised` | `Serial` and `Ordered` |
| `SuccessMeansComplete` | `Serial`, `Unshared` and no failing `os.Stat` |

`TypeInv` adds to the types where a copying build is in its list and that whoever is
past an attachment has one. Without torn files from others (second row), `Copied` (files before the current one are
whole, later ones absent) and `CatalogLast` (whoever is visible has no file left to
copy) are invariant. `SettledPathsPinLast` needs two invariants from the moment of its
premise on: the path stays settled, since whoever checks it finds a catalog, and a reader
past its first attachment has the number of that catalog. The third row goes through `PathIsFree`: between its check and its
rename, a build's path stays empty. Retries over torn files break `Copied`, so that
the fourth and fifth row argue otherwise: only the build that writes a file may see it torn
and change it, a file once whole is skipped by everybody else (`OnlyAdds`), and the index is written after all
footers have been read, so what it lists is whole and stays so. `RetriesSucceedWhole`
(`SuccessIsComplete`) puts both together: the path a build renamed onto is still its own
when it has read the footers, what it read is its own list, and nobody else writes
manifest or index there but an `index` run, which writes the same (`Beside`). Of the rest of the tree,
whatever a build has passed is whole, or `os.Stat` failed on it, or a build that it waited
for died and left it torn. `SuccessMeansComplete` rules both out: with names of its own
and a working `os.Stat`, a build that reports success has all of its tree, the
file of `collections` with it, under its own catalog, manifest and index. `PublishImplementsStore` maps each action to a
step of `SnapshotStore` or a stutter, under `StoreInv` (`PathIsFree`, an index of the
path's own whole snapshot, a reader with the path's own snapshot, a pruning reader
with a whole one). `ReadersArePromised` is `Store!Promise`, from the same invariant.

**ServingIndexProofs** (under `IndexAssumption`). `TypeCorrect` and
`AnswersLackOnlyTheRim`, for any files, any grid and any rounding of its last edges. The
argument is geometric: if a row meets the request, they share a point of the sphere; if the
grid covers that point, it lies in some cell, because the edges of an axis ascend
from the low end to where the last edge comes (`EdgesCover`; the least edge above the point
exists, without induction); that cell overlaps both the request and the box of the row's file, so
the file is found (`PruneFindsCovered`). The other half is `PredicateIsWanted`: the SQL predicates,
shortcuts and antimeridian included, select what shares a point with the request. An exact
grid is the case in which all points of the extent are covered.

**PagesProofs** (under `PagesAssumption`). `TypeCorrect`, `WalksAscend`,
`WalksMissNothing`, `LinksNeverWiden`. The invariant adds `Continues` (the cursor
is the greatest id found, and the link's sources are within those of every
page so far) and `NoneMissedYet` (of what lies below the cursor, all that lasted is
found). The lemmas about `Take` give what `ORDER BY id LIMIT n` promises.

Three theorems are the safety half of `WalkEnds`. `EveryWalkAdvances`: each page that
leads to another leaves fewer ids ahead of its link than of the request, by the measure
`Cardinality(Ahead(ask))`, so links cannot go on for ever. `ValidWalksStayValid`: a
request that was valid and has no `+` in its datetime gets links that are valid too.
`ValidRequestsAreAnswered`: where there is a next page there is a last id for its link.
What is left to TLC is that a client that goes on gets there.

**FlightProofs** (under `FlightAssumption`; any tickets, batch size, window and
numbers of rows). The invariant has three parts beside the types: `Rows` (what is
fetched is written or in the builder; the handler is before the last row of the
page, or at it), `Ends` (there is a trailer exactly when the handler has ended, status and trailer agree, and
"OK" means that all was written) and `Schemas` (what is announced and what is
sent are both the columns of `plannedTicket`; that those of `infoFor` are the same is the lemma
`FillInsAgree`). `NeverTruncated` is not inductive without the first: that
an "OK" covers the page rests on `Finish` leaving nothing in the builder. Theorems:
`TypeCorrect`, `StreamsAreWhole`, `RefusalsSendNothing`, and the safety half
of `StreamsEnd`: `EveryCallRunsDown` (each step either passes a call by or lowers its
measure `Left`, the steps the server has left for it plus those of the client) and
`NoCallIsStuck` (until a call is over, the server or the client can take such a step,
or the process is gone). Backpressure is what makes the second worth a proof: with a full
window the server waits for the client, who then has something to read.

**CatalogProofs** (under `CatalogAssumption`: any ids, rows, columns, builds and
number of commits). The invariant is `Sound /\ ServesPinned /\ CleanIsFrozen`
over types and metadata facts (an inlined row has its table listed, a deleted row was
there). What makes it inductive is that history is never rewritten: every commit
is `Grown` (what is live at a past snapshot stays so, lemmas `RowIsNew` and
`EndIsLater`), so that the rows at the pinned snapshot, once right, stay right.
Theorems: `TypeCorrect`, `FrozenFilesAreTheTable`, `FallbackNeedsDoubt`.

**ResponsesProofs** (under `ResponsesAssumption`; any clients, headers, URLs and
snapshots). The invariant is about the cache: whatever it has is the full answer of
its snapshot for any client with the same key (`CacheOK`, by `VaryIsComplete`:
`Vary` names all that `Handle` reads), and a 304 on its way names the full answer of
its snapshot (`AnswersOK`), so that revalidation with another client's ETag is
right. Theorems: `TypeCorrect`, `OwnAnswers`, `ReadableAnswers`, `LiveErrors`.

**WriterJobProofs** (under `InputsAssumption` and `JobAssumption`; any contents,
builds, jobs, tries and minutes). Three parts beside the types, in the order of the
work: `Addressing` (rows and directory are the images of the build under "renamed
before `todo`, not yet from it on"), `Volume` (the catalog refers to what was
written; the feature files of it are whole once `Index` has passed; without drift,
nothing else is on the volume) and `Bucket`. `CatalogsComplete` needs all three:
that an upload never tears a file rests on what the volume may hold. Theorems:
`TypeCorrect`, `AddressedByContent`, `PublishesWhole`, `CatalogsStayComplete`,
`RefComplete`, `KeepsCatalogs`, and `BucketImplementsStore`, the refinement of
`SnapshotStore` (an index in the bucket has its catalog, and both go with whole data).
`FirstTryIsNotRefused` is the safety half of `NextJobRepairs`: whatever earlier jobs left,
a job whose containers are not started again passes the check for an existing
catalog, reads all footers and does not find its name in the bucket.

Only model-checked are the liveness properties (`InteractiveReturns`, `BulkReturns`,
`WalkEnds`, `StreamsEnd`, `AnswersCatchUp`, `NextJobRepairs`), which need fairness and
`ENABLED`; of `BulkReturns`, `WalkEnds`, `StreamsEnd` and `NextJobRepairs` the theorems above give a
part that needs neither. Some of these parts are stated in a property of
their own that no run repeats (`CallsRunDown`, `NeverStuck`, `LinksAdvance`, `LinksStayValid`,
`LinksHaveACursor`, `FirstTryRunsThrough`); TLC found no error in
any of them on the instances of the runs before they were proved.
Fairness, `ENABLED`, and induction over data are beyond the proof system's
backends; no module has a `RECURSIVE` operator. Every invariant and every step property of a
run has a theorem; some of them need the assumption named above, which the run's
instance meets (`publish_race`: unique names; `publish_retry`: one build after another).

## 5. What is not modelled, and the plan

Not modelled, or left out of a model (`PROJECT.json` gives the reasons by component):

- DuckDB, DuckLake, rclone, Kubernetes and caches beyond what their use here asks of
  them. Snapshots are immutable, SQL does what it says, an S3 upload of one object is
  atomic, a cache follows RFC 9111.
- *Catalog*: the flush of inlined data by others, merged and partial files, deletes of
  inlined rows and rewriting after a replaced column; path segments and absolute URLs,
  which fail or fall back; an empty `data_path`.
- *Responses*: the landing page and the static documents, which never change; `*` in
  `If-None-Match` and conditional requests of clients themselves; HEAD; a gzip
  writer that fails; the geometry of tiles.
- *WriterJob*: a torn catalog or sidecar on the volume (the build fails after either, or
  is repeated under another name), a container that exits after the last upload, two
  writers of one bucket, and the readers' init container.
- *Pages, ServingIndex, Flight*: values of rows, encodings of tickets, NaN.
- The HTTP side of `Shutdown`; `dbutil`, which keeps no state; developer tooling.

Order of work, most important behaviour first:

1. `Pool`, `Leases` and their theorems (done).
2. `Publish` and its theorems (done).
3. `ServingIndex`, `Pages` and `Flight` and their theorems (done).
4. `ContentAddress` and `WriterJob`: the CronJob's containers with restarts against
   the object store and `refs/latest`, and their theorems (done). Left: the readers.
5. `Catalog`: the frozen file list equals the table at the pinned snapshot whenever it
   is used, for any history of snapshots; its theorems (done). Left: composed with
   `Publish` and `ServingIndex`, so that the rows of an answer are those of the build.
6. `Responses`: conditional requests through caches; its theorems (done).
7. `Shutdown`: `Pool` under `serveCmd`, both listeners, the signal and the
   deferred `Close`, with the calls of `Flight` as its bulk callers.
8. `SnapshotStore`, an abstract specification (a path is empty, then holds one
   snapshot for good) that `Publish` implements under `Serial` and `Ordered`, and the
   bucket of `WriterJob` while builds do not drift; both refinements as theorems (done).

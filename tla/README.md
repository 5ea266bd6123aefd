# caddy-surrealdb in TLA+

A verification development of the `surrealdb` middleware for Caddy: TLA+ modules
translated from `src/*.go`, TLC configurations that check them on small
instances, and TLAPS proofs of their safety for all instances.

Run TLC on `<module>.tla` with the `.cfg` the table of runs names, and `tlapm` on the
modules whose names end in `Proofs`.

## The system

One middleware instance owns one `Manager` (connection), one `QueryRegistry`, one
`liveHub` and, when a log table is configured, one `BatchWriter`. The parser fills the
instance's exported fields once, before anything of it runs.

| Component | Source | State | Operations |
|---|---|---|---|
| Connection manager | `connection.go` | `conn`, `token`, `tokenExp`, the `ready` channel, the context; the supervisor's frame (backoff, failures, copied handles) | `Start`, `Stop`, `AwaitReady`, `Get`; the goroutine `run` → `dial` (connect, sign in, use) → `supervise` (`maybeRefresh`, `heartbeat`) |
| Request log writer | `writer.go` | channel, buffer, the batch of a flush, `stopCh`, the wait group | `Write` (drop or block), `Close`; the goroutine `run` with `drain` and `flush` |
| Live hub | `live.go` | `subs` with `refs` under `mu`; per request an output channel | `subscribe`, `unsubscribe`, `serveSSE`; one fan-out goroutine per request |
| Middleware life cycle | `module.go` | pointers to the above, routes | `Provision`, `applySchema`, `Validate`, `ServeHTTP`, `serveAPI`, `Cleanup` |
| Query registry | `query_registry.go` | `queries`, the buckets of the rate limiter | `Register`, `Execute`, parameters and coercion, output shape, `checkRateLimit` |
| Handler utilities | `handler.go` | the recorded status of a response | route matching, output formats, `responseRecorder` |
| Caddyfile parser | `caddyfile.go` | the fields read so far | `UnmarshalCaddyfile` with its blocks, `parseAuth`, `splitSurrealQL` |

How they interact: everybody reaches the database through `Manager.Get`, which blocks
until the first connect, and uses the handle it returned without any lock while
the supervisor may withdraw and close it. `ServeHTTP` runs in one goroutine per
request and calls the hub, the registry or the writer. `Cleanup` closes the
writer and then stops the manager; Caddy has cancelled the context before, unless
setting the instance up failed. The hub holds its mutex through remote calls.

### What is hard, and what makes each part correct

- *Manager*: a handle is used after it was read under the lock; steps of `dial`
  fail one by one; cancellation, `Stop`, refresh, heartbeat and reconnect race.
  Correct when nothing leaks, callers only get finished sessions, the ready
  channel is closed once, Stop leaves nothing behind, misses and backoff are
  counted right, and it always recovers.
- *Writer*: requests write while the goroutine drains for the last time; flushes
  fail; the channel is full. Correct when each accepted record is in one place,
  order is kept, batches are bounded, and `Close` returns and is final.
- *Hub*: subscribe and unsubscribe of different requests interleave around remote
  calls; a kill follows the unlock; connections go while queries run. Correct
  when the count is the number of users, nothing in use is killed, the lock is
  never left held, and every handler returns.
- *Life cycle*: the database may come late or never, set-up may fail half way, and
  shutdown meets requests and flushes in flight. Correct when set-up and
  clean-up end and clean-up is complete.
- *Registry*: the window's boundary; ints that pass through `float64` between their
  bounds; a map that is changed while it is ranged over. Correct when a span of one
  window admits a bounded number and no refusal is undue, when a statement runs
  with values its bindings allow, and when the answer is what the output block says.
- *Parser, routes, recorder*: directives repeated and in any order, several lists
  that must agree on a name, patterns that overlap, a handler that writes and fails.
  Correct when the configuration is what the file means, a route finds the query
  it was validated with, a request is served by the first route it meets, and the
  log has the status that was sent.

The complete list, each at its line, is `hazards` in `PROJECT.json`.

## Modules

```
ConnectionService  <--implements--  Manager <- ManagerHistory <- ManagerProofs
      ^   ^   ^
      |   |   |
      |   |   +---- Middleware <- MiddlewareProofs
      |   +-------- LiveHub <- LiveHubHistory, MCLiveHub, LiveHubProofs
      +------------ BatchWriter <- MCBatchWriter, BatchWriterProofs
                       +--implements--> RequestLog

RateLimiter, Coercion <- Registry <- MCRegistry
     ^                      ^
RateLimiterProofs <- RegistryProofs

Caddyfile <- Gateway <- MCGateway
    ^           ^
CaddyfileProofs <- GatewayProofs
```

**ConnectionService** is what the manager promises: a connection published and
withdrawn over and over, a ready signal given once, an end, and callers of `Get`
that are answered when they can be. The three modules that need a connection
instantiate it (`Service == INSTANCE ConnectionService`), so their checks hold over
the real manager because `Manager` implements it.

**Manager** inlines `run`, `dial`, `supervise`, `maybeRefresh` and `heartbeat` into one
process. `sup` names the code the supervisor is about to run: `top` (197), `connect`,
`signin`, `use` (`dial`), `backoff` (205), `install` (217), `signal` (232), `select`
(349), `refresh` (398), `ping` (411), `upsert` (425), `teardown` (235), `close` (243),
`done`. A critical section of `m.mu` is a step; a remote call is a step together
with the assignments up to the next call or lock. `local` is the handle in the
running function's frame. Environment: `ServerChange` (up, rejecting sign-ins, down),
`Break` (a socket dies), `Age` (a token comes within the refresh threshold).
A JWT is identified with the handle whose sign-in issued it and its expiry is one of
zero, later, due. **ManagerHistory** adds two counters the code does not have.

**BatchWriter** has one action per branch of `Write`, `run`, `drain`, `flush`, `Close`. A
receive from the full channel lets the longest blocked sender in, in the same
step, as Go's runtime does. An INSERT may have been stored though its answer
is lost; the code cannot tell, so `InsertStored` covers it. **RequestLog** is the queue it
implements with `pending <- batch \o buf \o ch`.

**LiveHub** has the control points of `serveSSE` with `subscribe` and `unsubscribe` inlined:
`lock` (91), `get` (96), `live` (100), `notif` (105), `streaming` (208), `leaving` (155),
`killget` (169), `kill` (171). `holder` is the owner of `h.mu`. A stream is a LIVE SELECT
with its server-side state and notification channel; whether the driver
closes the channel when the connection goes is left open (both happen).
**LiveHubHistory** records who was attached when a notification was sent.

**Middleware** is Caddy's goroutine (`phase`: `await`, `schemaget`, `schema`, `register`,
`validate`, `serving`, `failed`, `close`, `stop`, `cleaned`), the requests and a coarse writer.

**RateLimiter** is `checkRateLimit` with a discrete clock and a history of admissions.
**Coercion** is the pure part of `resolveParams`: where a binding reads, and what `coerce`
makes of the text, which is abstracted to its form, its number and whether it fits
the binding's pattern. Numbers are counted in halves; `IntLimit` and `Significand` give `int64`
and `float64` their limits, so that rounding and overflow are there. **Registry**
is a query route from the limiter to the response: `get` (211), `bind` (215, one binding a
step), `shape` (248) and `answered`. In `shape` the loop over a row's map is a step for each key, in any order; a key
inserted meanwhile may be visited or not, as Go has it. A cell of the answer is known
by its column, so a wrong column shows as a wrong value.

**Caddyfile** follows the parser token by token while an author writes lines. Each block's
directives and how each reads its arguments are tables (`Grammar`, `Taken`,
`Parses`, `Value`); what is left of a line becomes the next directive, as with
`NextBlock`. Within a schema braces nest (`Nested`): the Dispenser counts them, so a statement
may have blocks of its own, which become text. `splitSurrealQL` is a scan over characters. The second half of the module
is the reference: what a file means, from its lines as a whole. **Gateway** takes the parsed
configuration through `applyDefaults`, `Register` and `Validate`, and serves requests: live routes, query routes,
the management API, and the handler behind with `responseRecorder` between.

The operators whose comment begins "Faulty variant" are not part of the models:
each is a plausible bug of the operator it precedes, put in its place to see that
a property notices (`mutants` in `PROJECT.json`).

## Runs

| Run | Module, cfg | Instance | Shows |
|---|---|---|---|
| manager | ManagerHistory, Manager.cfg | 3 handles, 2 callers | the safety of the supervisor, its inductive invariant `IInv`, recovery and termination, the refinement of ConnectionService with its fairness |
| ping_starved | Manager, ManagerPing.cfg | 2 handles, tokens due at once | *violation*: the heartbeat never fires |
| writer | MCBatchWriter, Writer.cfg | 4 requests, channel 1, batch 2, both overflow modes | no record lost or doubled, order, ends of `Close` and of blocked writes, the refinement of RequestLog |
| writer_close | MCBatchWriter, WriterClose.cfg | 2 requests | *violation*: a record accepted during Close stays in the channel |
| hub_safety | MCLiveHub, HubSafety.cfg | 2 requests, 2 handles, 2 streams, channel 2, 3 notifications | lock, count, registry, kills, orphans, order |
| hub_liveness | MCLiveHub, HubLiveness.cfg | 2 requests, 2 streams | handlers return, subscribers are answered |
| hub_fan_out | LiveHubHistory, HubFanOut.cfg | 2 requests, 1 notification | *violation*: one of two clients gets it |
| hub_reuse | MCLiveHub, HubReuse.cfg | 2 requests | *violation*: a new client is attached to an ended query |
| middleware | Middleware, Middleware.cfg | 2 requests, 1 statement, 2 handles | set-up ends, clean-up is complete and ends, requests end |
| schema_skipped | Middleware, MiddlewareSchema.cfg | a late database | *violation*: the schema is never applied |
| registry | MCRegistry, Registry.cfg | 2 clients, one of them by 2 paths of the route, limit 2, window 1; int64 of 4 bits; rows of 2 columns | bounds on admissions, parameters within their bindings, the shape of the answer in every order of the map |
| gateway | MCGateway, Gateway.cfg | 15 menus of lines, 3 calls of the handler behind | the file's meaning, its schema and credentials, refusals with a reason, names that are found, routes, the logged status |

The five violations are the findings of `PROJECT.json`: in each the code does
something else than the comment, message or document quoted there.

### What is checked

- *manager*: `IInv`; `NoLeak` (no open handle is forgotten), `OnlyScopedHandles` (callers get
  finished sessions), `StoppedClean`, `GivenUpAfterThreeMisses`,
  `BackoffFollowsSchedule`; `Reconnects` (once the server stays up there is a live connection again and
  again, and it stays unless the server goes on refusing status rows), `StopReturns` wherever the
  supervisor is, `GetAnswered`, `DueTokenRenewed`; `ImplementsService`. Against it: `PingKeepsFiring`.
- *writer*: `EveryRecordOnce`, `QuietAfterClose` (after Close has returned the
  writer touches neither the table nor the connection), `RecordsSettle` (each accepted record is stored or lost in the end, also those
  that fill no batch), `CloseReturns`, `BlockedWritesReturn`, `ImplementsRequestLog`. Against it:
  `CloseDrains`.
- *hub*: `RefsExact`, `AttachedRegistered`, `KillsOnlyUnused`, `OrphansOnlyByFailure` (a live
  query nobody uses is left on the server only by a failed call), `ShownInOrder`; `HandlersReturn`,
  `SubscribersAnswered`. Against it: `FanOut`, `SharesRunningQuery`.
- *middleware*: `CleanupComplete`; `SetUpAndCleanUpEnd`, `RequestsAnswered`,
  `GoneRequestsEnd`. Against it: `SchemaAppliedOnReconnect`.
- *registry*: `ClientSpanBounded` (in a span of one window a client has fewer than twice the limit of requests let
  through for each path it names), `RefusedOnlyWhenFull`, `ParamsHonoured`, `ShapeFollowsConfig`.
- *gateway*: `ConfigMeansFile` (the configuration of a regular file, of which every line has just what its
  directive wants, is block by block what the file means as a whole), `SchemaMeansFile` (its schema has
  the statements the author wrote), `CredentialsNeverMix` (its credentials are
  those of one line, the last that has any), `RefusedForReason` (a file is refused only for a line
  that is wrong by itself), `DefinitionFound` (what a route names, checked
  against the list of queries, is found in the registry when it is served, and so is what the API is asked for), `RoutesExact` (the
  first route that matches serves, with its parameters), `LoggedIsSent` (the log's status is the client's, but
  for an early flush or an informational status).

### Bounds

- *Handles* (`Conns`): one more than the callers that can keep an old one, so that the
  manager never runs out; the driver never hands out the same handle twice, and a
  handle nobody holds can stand for a new one.
- *Callers, requests*: two, where a property relates one to the others (the third
  party is the supervisor or the registry); four for the writer, which is one more than
  channel, sender and a full batch need to overlap. Handles and requests are alike,
  and runs without liveness use that as symmetry.
- *MaxNotes* (3) is one more than `OutCapacity` (2), so a slow client loses one.
- *Streams* (2): a request starts a second query while the first is being killed. When
  the ids are used up `Live` only fails.
- *MaxTime* (3) spans two windows of 1, which hold two moments each since a window's end belongs to it, so that a
  span straddles them; two keys of a client and one of another tell a bucket from a route and from a client. `Statements` is 1: the
  loop over statements has no other state than its index.
- *Counters*: `failures` and `backoff` of the manager are bounded by the code itself;
  `MaxMisses` (4) and `MaxStreak` (7) bound the history counters of ManagerHistory, one beyond
  the last value the properties tell apart.
- *Numbers*: `IntLimit` 8 and `Significand` 4 are the smallest at which an int rounds to a
  neighbour, rounds out of range and is truncated; every int with its neighbours
  comes, against bounds at, between and beyond the ints.
- *Rows*: two columns, aliases into each other, to themselves, to a third name, to an omitted one, in up
  to three rows of which `MaxRows` (2) are kept.
- *Files*: for each kind of block a menu of its lines, right and wrong, and up to two
  to six of them after a common beginning, which is enough for a repeated directive or block
  with another in between; the routing menus put two routes of every pair together.
- *MaxCalls* (3): a flush, an informational status and a final one in every order.

Deadlock is checked where the system cannot stop (manager, and the counterexample
writer_close); the other instances end when all requests are served, the instance is
cleaned up or the file was refused.

### Fairness

- Every goroutine is scheduled and its remote calls return: weak fairness of its
  steps. The plugin sets no timeout on most calls; that the driver's do not hang for ever
  is an assumption.
- `select` chooses at random among what is ready, so a closed channel is not passed over
  for ever: strong fairness of `SuperviseCancelled` and `StopSeen`.
- `h.mu` is a `sync.Mutex`, whose starvation mode admits a waiter after finitely many
  others: strong fairness of `Subscribe` and `Unsubscribe`.
- The manager, as seen by others: what `ConnectionService!Fairness` states, which
  `Manager` is shown to implement (`ImplementsService`).
- Nothing is assumed of the server, the network, the clock, clients or `Stop`: also a server that is up and
  answers pings may refuse a status row at any time, for its permissions, its schema or an expired session. Where a
  property needs the server to stay up in the end, or the manager to have connected
  or been cancelled, that is its premise (`ManagerAnswers` and the left sides in `Manager`).
- Caddy calls `Cleanup` of an instance it gives up.
- Registry and Gateway state safety only: their requests do not wait for each other.

## Proofs

Each rests on the named assumption about the constants in its module and nothing else.

**ManagerProofs**: `Spec => []IInv`, and from it `TypeOK`, `NoLeak`, `OnlyScopedHandles`,
`CopyIsCurrent`, `TokenFollowsConn`, `ReadyClosedOnce`, `StoppedClean`, and `Spec => Service!Safety` (initial states and steps map to
ConnectionService). The safety properties are not inductive: that nothing leaks
from `UseFailed`, say, needs to know that `local` is the handle that was opened two steps
earlier and that `conn` is nil meanwhile. `IInv` states for each control point what
`local` and `conn` are and in which state their sessions are (`LocalStage`, `ConnStage`),
that every other handle is closed (`OthersClosed`), what callers may hold (`HeldScoped`), and
what is known of the ready channel, the failure count and Stop. A consequence worth
noting: `StoppedClean`'s proof shows `conn` to be nil whenever `run` has returned, so Stop's
own closing of a connection (150-153) never finds one.

Of the histories, `GivenUpAfterThreeMisses` and `BackoffFollowsSchedule`. They
are tied to the code's counters (`MissesCounted`, `BackoffCounted`): while a connection is
supervised `failures` is the number of misses in a row, and `backoff` is always the wait due
after the next failed dial, so its doubling with a cap walks the schedule. The lemma `Events`
tells the four counted events from all other steps by the control points they join.

**BatchWriterProofs**: `IInv` (with the bounds of channel and batch), `EveryRecordOnce`, `QuietAfterClose` and the refinement of RequestLog.
What the writer does to `stored`, `lost`, `batch`, `buf` and `ch` is always one of a few moves of
a queue in several parts (`QueueMoves`): a record joins at the end, or the front part is moved, stored
or lost as a whole. That every record is in one place and in order follows from the moves alone
(lemmas `Moved`, `Grown`, `Extended`, `Shortened`, `TakenOut` on sequences without repetition), and so does the refinement.

**LiveHubProofs**: `IInv`, `RefsExact`, `AttachedRegistered`, `KillsOnlyUnused`, `ShownInOrder`, for any
number of requests, live queries, streams, handles and notifications. None is inductive. That the
count is exact after a `Reuse` needs that what is registered is not being killed at that moment;
that the Kill of the last unsubscribe, sent without the lock, hits nobody needs that a stream
being killed is in no registry entry and is not the one another request is
about to register. `IInv` says so: registered streams are distinct and started
(`RegisteredApart`), one that is being started or killed is not registered
(`UnregisteredApart`), the one being started is fresh, uncounted and not being killed
(`StartingApart`), and whoever is between the calls of `subscribe` holds the lock
(`LockHeldInside`). For the order, `NotesInOrder` says that what was shown, what waits in a client's channel and
what its goroutine holds ascend and are older than what waits in the stream. `OrphansOnlyByFailure`,
that a live query nobody uses is left behind only by a failed call, is proved over the owners:
a running live query is registered, being started or being killed, and lemma
`NextOwns` goes through the steps that take one of them away.

**MiddlewareProofs**: `CleanupComplete`, from what each request has of the manager at its control point
(`ClientStage`) and what each phase of set-up and clean-up leaves of writer and manager
(`CleanupStage`), however set-up failed.

**RateLimiterProofs**: `Spaced` and `RefusedOnlyWhenFull` for every limit and window. Neither
is inductive: a bucket only knows its last window. `IInv` says that it counts the
requests of its window, which its first one opened (`WindowCounted`), that whatever lies `Limit`
places before that one is more than a window older (`WindowsApart`), and so that
two requests `2 * Limit - 1` places apart are too (`Spaced`), so that those of a span fit into
`2 * Limit - 1` places in a row (`SpanFits`). The induction goes key by key (`KeyInv`).

**RegistryProofs**: serving is a behaviour of the limiter (`ServeImplementsLimiter`), which carries `RefusedOnlyWhenFull` over to
the routes, and `ClientSpanBounded`: the requests of a client in a span go one to one into the places that each of its
keys has. There is no such theorem of a route with a parameter as a whole, since the number of keys is the client's
choice (see *Limiter* below); and `ShapeFollowsConfig` for every output block and answer, in every order
Go may choose. `RowInv` says of a row under way what it may still hold of omitted columns (only under their own name, and
only if the loop has yet to visit them), and, if no alias collides with another column, that it
consists of the columns not yet visited and of the targets of the others. `ServeAssumption` says that the
answers are rows of named columns and that the keys of limited routes are the limiter's, finitely many.
`ParamsHonoured` rests on `ParamInv`: after k bindings the variables are those of the first k, each with
what the last binding of its name makes of its own text. What `ApplyNumericBounds` makes of it is a
matter of the lemmas on rounding (`RoundParts`, `RoundInt`, `IntHonoured`, `FloatHonoured`), for every range
of the ints that is a power of two and every significand; that a float rounds to the nearest
enters as the floor of a division and its rest. Proving it showed the earlier
form of the property to be true only of the instance: a cap below all of int64, or a float's
`min` above its cap, breaks it, and the code lets an author write both. `CapReached` and `Sound` say so now.

**CaddyfileProofs** and **GatewayProofs**: `RefusedForReason`, `CredentialsNeverMix` and `ConfigMeansFile` for
every menu, so for every Caddyfile. What a line is meant to be (`KindOf`) is defined by recursion over the file, by the
block it is in; that such a function exists and does not change as lines are added
(`KindsExist`, `KindsKept`) is shown with the least line for which it would not. `FollowInv` ties the parser to it: its stack of
blocks is the author's up to what is within a schema (`Aligned`), between lines nothing is left over
(`Rested`), in a line it reads the words of that line in the block the author is in (`Reading`), and what
it holds of credentials are those of the last line read that has any (`Credited`). None of the parts can be
missed: that a line is taken to its last word needs that it was read in the right block, and that
needs that the lines before were taken to their last words. `CaddyfileAssumption` says
that lines are sequences of words and that only a closing brace has none.

For `ConfigMeansFile` the two sides are computed in opposite ways: the parser adds to the block it is in and
copies it into the one around it when it ends, while `Meaning` collects for each block the lines that name it. `MeaningInv`
compares them at every line of a regular file. `Nest` has the author's open blocks in order, each in the one before, with all
later lines in the last of them; and `Gathered` says that each of the parser's open blocks,
together with the fields its own line gave, agrees with what the lines heard so far mean for it
(`Contents(Heard)`), where the lines of the open blocks and the line under way are not heard yet, since the parser
has nothing of them (`Unread`), and an `output` or `log` still open counts for the inner block and not for the outer (`Untold`).
A step then makes one line heard, at its own place. Which values that changes (`Adds`, `AddsAlike`, `Untouched`), and that they
become what `Value` or `Ended` makes of them (`Gained`, `AgreedHere`, `OpenedHere`, `RefilledGathered`), is
shown directive by directive. Three facts about data carry it. `Contents` is a fixpoint of `Filling`, because nothing nests deeper
than a parameter or an output in a query. A line added to the lists of a block goes to their end, because
no later line has the same place (`NoneLater`). And the flattening of a sequence of sequences grows with it: `FlattenSeq` is a fold, and the
library's induction is out of the prover's reach, so `UpTo` has the induction for a set of numbers in the place of a predicate.

GatewayProofs has the rest of the way to the answer. `LoggedIsSent` for any number of calls of the handler behind, with
`LogInv` on what recorder and wire have at each time. `DefinitionFound` and `RoutesExact` rest on `GatewayInv`: the parser's
stack begins with the site and no other frame is one, the lists of the configuration are sequences and the routes
in them have paths, the registry has the last query of each name of the list, which is why a name that `Validate` found in
the list is one that `Execute` finds in the registry, and an answer is that of the first route that matches. From there `RoutesExact` is about
matching alone: that trimming slashes, splitting and comparing part by part
(`MatchesMeets`, `MeetsMatches`, `ParamsFill`) meets just the paths that the pattern with its
parameters filled in makes, up to slashes at the ends. `GatewayAssumption` says that the
paths in menus and requests are paths, that no parameter is the empty part, and that names with different parts
differ.

Model-checked only: liveness and the fairness part of the refinements, which are
beyond the prover; and `SchemaMeansFile`. That is not true of every menu, since `splitSurrealQL` and an author
differ over comments, braces and escaped backslashes (below): it holds of authors who mark their statements as
the scanner sees them, as those of the run's menus do, and a theorem would have to assume of the
menus, character by character, what it concludes.

## What the models show beside the findings

These are consequences of the code that are not findings of a run of their own, most of them since no doc, comment
or test denies them clearly; the properties state what the code does, or except them by name:

- *Parameters*: with a `min` alone the largest ints are rounded out of int64 and come back as
  whatever the processor makes of them; NaN passes the bounds of a float; a cap loses its
  fraction with an int (`query_registry.go:341-345`, `409-420`). A binding of an unknown source reads the body
  only if another binding names `body` (258). An explicit pattern replaces the check of
  `uuid` and `record` and is ignored for numbers (383-404).
- *Output*: an alias to its own column deletes it; aliases into each other depend on
  the order of the map (453-461); CSV has the columns of the first row only (`handler.go`).
- *Names*: of two queries of a name `Execute` runs the last and `outputFor` shows by the first
  (`module.go:368`); of two live queries the hub and `liveFormat` differ likewise.
- *Defaults*: `max_rows 0` becomes 10000; `log` without `table` logs nothing; a negative `heartbeat` reaches
  `time.NewTicker` and an output status outside 100..999 reaches `WriteHeader`, and both panic.
- *Recorder*: after an informational status the final one is swallowed (`handler.go:212`), and
  after an early `Flush` the logged status is not the one sent.
- *Parser*: a word left on a line is the next directive; `splitSurrealQL` takes an
  escaped backslash before a quote for an escaped quote and knows neither comments nor braces, so that a semicolon
  within the braces of a function splits it, and Caddy's lexer has
  removed quotes before it sees them (`caddyfile.go:264`).
- *Limiter*: the key of a bucket has the path of the request (`module.go:314`), so on a route with a path parameter a
  client has a limit for each value of it and none over the route: of a limit of two, the instance of run registry lets four
  requests of one client through in one moment, by two paths. The docs say otherwise: "RateLimit caps per-IP requests
  per window" and "The bucket is per-(route|IP)" (`query_registry.go:74`, `469`), "per-IP rate limiting" (`README.md:17`).
  `ClientSpanBounded` therefore counts the paths a client has named. Two routes of one path that differ in the
  headers they require share their buckets, and no bucket is ever removed (`query_registry.go:479`).
- *Refused parameters*: a text that is no bool, like any refused parameter, comes out of `Execute` as an
  error among others and is answered with 500 (`module.go:325`, `ParamRefused`); `docs/99-examples.md:190` says of a bool
  from the query "Other values return a 400 error".
- *Heartbeat*: a refused status row counts as a missed heartbeat, so a server that answers every ping and refuses every
  row has a good connection given up at each third tick (`connection.go:361`, `449-471`); `Reconnects` names it.

## Not modelled

- Inside the modelled files: the encoding of notifications and of rows, SSE
  keep-alives, log messages, the fields of a record and the INSERT text, excluded paths,
  the field `connected` (never read), the statements of `heartbeatSchema` and `schemaOnce`, whose
  results the code ignores, CORS headers, replacement of placeholders at Provision, the
  conversion of record ids to text, and `ValidateAll`, which does nothing.
- Tests, build and documents: no behaviour of the plugin.
- External: the SurrealDB server and driver, Caddy with its lexer and Dispenser, net/http,
  `strconv`, `time` and `regexp`, from how the code uses them. Assumed of them: calls return;
  handles are not reused; `Close` closes the session; `Version()` needs no authentication; a
  context cancelled by Caddy precedes `Cleanup` except after a failed set-up.

## Plan

1. (done) Manager, ConnectionService, writer, hub, life cycle, limiter; their proofs.
2. (done) The registry's parameters and output shape, the parser, routing, the API and the
   recorder.
3. (done) Proofs of the writer, the middleware, the limiter, the histories and the output shape.
4. (done) Proofs of the orphans of the hub, the parameters with their rounding, the routes, the
   recorder, the names, and of the parser's refusals and credentials.
5. (done) Proof that the configuration is what the file means.
6. Left: live and query routes of one Gateway served concurrently by LiveHub and Registry, should a
   property ever relate them.

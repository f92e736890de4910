# TLA+ verification of dsv-tracking-mcp-server

The server answers MCP tool calls about DSV shipments. There is no public API:
each answer comes from a page that a headless Chrome opens, whose own XHR is
intercepted. Two in-memory caches with request coalescing stand between the
tools and the browser. These modules model the parts where calls, goroutines,
timers, contexts and the clock interleave, and the conversions an answer goes
through; TLC checks them on small instances and TLAPS proves the central
properties for every instance.

## 1. Inventory

| component | code | state | operations | interacts with |
|---|---|---|---|---|
| TTL cache | `internal/cache/cache.go` | `items` under `mu`, the singleflight group, one goroutine per flight | `Fetch`, `SetWithTTL`, `Invalidate` | calls the fetcher it is given; the handlers call it |
| Browser | `internal/upstream/dsv/browser` | per call: a tab, the tracked request and status, readers, a channel of one | `New`, `FetchJSON`, `Close` | chromedp events and body requests; implements `dsv.Fetcher` |
| DSV client | `upstream/dsv/client.go` | none | `Search`, `Detail`, `ReferenceTypes` | calls `Fetcher.FetchJSON`, decodes |
| Mapper, DTOs | `upstream/dsv/mapper.go`, `dto.go` | none | `MapShipmentDetail`, `MapShipmentSummaries` | client to domain |
| Domain | `internal/domain` | none | parse codes, sort events, project views, sentinel errors | mapper, handlers |
| MCP tools | `internal/mcp/tools.go`, `errors.go` | the handler of each call | `track_shipment`, `get_shipment_details`, `list_reference_types` | both caches, the adapter, the views |
| Process | `cmd/dsv-tracking-mcp/main.go` | the main goroutine, the signal context, the Chrome process | configuration, launch, `Run`, shutdown; the adapter | everything |
| Verify command lines | `cmd/dsv-verify`, `cmd/dsv-verify-all` | the item of the loop, the rows | one tool call after the other, in one process with the server | the tools, the browser |
| MCP server | `mcp/server.go` | none | `Run`, middleware | the SDK; wraps every call |
| Observability | `internal/obs` | counters, the metrics server | scrape, shutdown, logger, request ids | main starts and stops the metrics server |
| Reference data | `internal/data` | none | a static list | `list_reference_types`, validation |

Hard behaviours, and what makes each part correct:

* **Cache.** Calls miss, join, give up and are answered in any order; the clock is
  read outside the lock; the fetch runs with the context of one of the calls that
  wait for it. Correct: one fetch per key at a time, every waiter is answered,
  data never gets older, expired data only when the upstream fails and only
  inside the window.
* **Browser.** Events, body readers, two timers and the caller's context race.
  Correct: the body returned belongs to the status it is judged by, the call ends
  exactly once and always, no reader blocks for ever.
* **Tools.** A call may use two caches, each of whose fetches may belong to
  somebody else, while DSV changes its mind. Correct: an outage, a timeout, a
  typo and a missing shipment are told apart; a delivered shipment stays
  delivered; only what cannot change is kept for a day; every call is answered.
* **Mapper and views.** The upstream orders events as it likes, adds codes, and
  leaves lists out or null. Correct: histories are complete and in order, no code
  is lost, no cached list is nil, "delivered" means the same to the cache, the upstream
  and the reader.
* **Process.** Signals come at any moment, Chrome crashes, the client leaves, the
  goroutine of the metrics server is late, and `os.Exit` skips the deferred calls.
  Correct: a program that ends by itself leaves no Chrome behind, it does end when
  it is asked to, and a driver reports each item of its work.

`PROJECT.json` lists the hazards at their lines, with the properties that cover them.

## 2. Modules

```
ReadThrough  <----refines----  TTLCacheRefinement --extends--> TTLCache
    ^   ^                               ^                         ^
    |   ReadThroughProofs        TTLCacheSimulation ------> TTLCacheProofs
    |           ^                                                 ^
    |           | two INSTANCEs (DP, SP)                  TTLCacheMonotonic
    |       ToolsProofs
    |           |
    | two       v
    | INSTANCEs (D, S)
  Tools
                Fetcher <--refines-- Browser <-- BrowserProofs
Mapping <-- MappingProofs            Lifecycle <-- LifecycleProofs
```

**TTLCache** models `cache.go` at the granularity of its clock readings, critical
sections and channel operations. `Begin` is `time.Now` of `Fetch`; `LookupHit` and
`LookupMiss` are the fast path; `JoinFlight` and `StartFlight` the two sides of
`DoChan`; `FetcherReturns`, `FetcherFails` and `FetcherAborts` the end of the
fetcher (with the clock read after it), `Store`, `ServeStale` and `ServeError` the
rest of the closure, `Deliver` singleflight's delivery under its mutex; `Receive`
and `ReturnCtxErr` are the two cases of the `select`. `SetStamp`/`SetStore` are the
two halves of `SetWithTTL`. A goroutine is named by the call that started it. The
variables `high` and the field `floor` are history for `MonotonicReads`. A call
that returns from a select keeps its channel: what is delivered to it later is
never read. The lookup of a fresh entry and its return are one action, since
nothing between them can be observed.

**ReadThrough** is what the comments of `Fetch` and `SetWithTTL` promise, without
goroutines, leaders or separate readings of the clock: per key at most one open
round, one outcome for everybody in it. **TTLCacheRefinement** maps a registered
flight to a round (`ImplementsReadThrough`, `ImplementsFairReadThrough`).

**Browser** models one `FetchJSON` call: `ResponseReceived` and `LoadingFinished`
are the listener, `BodyRead`, `BodyMissing` and `Send` the reader goroutine,
`NavigationEnds`, `NavFails`, `TakeResult`, `GiveUp` and `CloseTab` the calling
goroutine. Calls have a tab each and share nothing modelled, so that one call is
enough. They do share the browser, whose context may be done before or during the
call (`alive`, `BrowserGone`: Chrome has crashed or is being closed). No event comes
then, and the navigation ends without an error, because its own context is done too:
the call goes on to wait for a result that cannot come, until its timer.
Whether events still come after the navigation deadline is left open.
The page's responses are fixed in the initial state, in any combination.
**Fetcher** is the contract of the interface in `client.go`: one outcome, and
which one each response stands for (`mapErrorResponse`).

**Tools** models both handlers as control points between cache calls, over two
instances of ReadThrough (detail and search) that share the clock and the
contexts. `MissDetail`/`EnterDetail` split the look-up from `DoChan`, as the code
does; `DetailReturns` is the error switch of `get_shipment_details`, `Resolve` and
`Verdict` its disambiguation, `Upgrade` the day's entry. DSV is a process of its
own: it registers and delivers shipments at any moment (`Register`, `Deliver`) and
answers the page (`AnswerDetail`, `AnswerSearch`), so that an answer may be out of
date before it is stored. A fetch may fail whatever DSV has answered. A search may
list another shipment with the same number before the one that was meant (`Shared`,
`Namesake`). `AnswerAtOnce` is what needs neither cache: the three rejections and
`list_reference_types`. An error is named by what `errFromUpstream` sees of it:
`browser_fetch` is the one that FetchJSON returns when its own timer fires or its
context is done, which wraps ErrUpstreamUnavailable. Handlers take the contract rather than TTLCache itself: the
refinement, proved in TTLCacheSimulation, is what justifies it. The contract is a little wider than the cache
(a round may abort if any of its members was cancelled, the code: its leader).

**Mapping** models the conversions of one response body as operators, from the
decoding to the view, and the two steps that apply them (fetch, then view). The
record sets say what a body may hold (`dto.go`: any list or date may be nil), what
the mapper makes of it (`shipment.go`: no list is) and what a tool returns (`view.go`:
of its lists only the dimensions of the goods may be nil, and they are whenever there
are none, because `mapGoodsView` only appends to them: `MapDimensionsView`). Fields that are copied and that nothing depends on are left out. A time is a number of
half seconds, which RFC3339 formatting truncates to seconds, so that two events may
be shown with the same time and still have an order.

**Lifecycle** models the three programs from start to exit, as the control points of
their main goroutines: `LoadConfig`, `NotifyContext`, `StartChrome` and its three
outcomes (`browser.New`), `RunReturns`, `Shutdown`, `Drained`, then the deferred calls in
their order, `Close` before `Stop`. Beside them run Chrome (`ChromeEnds`), the metrics
server's goroutine (`Listen`, `Scrape`, `ScrapeEnds`), whoever sends signals and the
client. `Close` and the failed launch wait for Chrome, because chromedp's cancel
functions do. The drivers add `Connect`, `CallTool`, and `Track` and `Details`, which
make a row each way the loop of dsv-verify-all does. What a tool call answers is left
open: an answer, or any failure; Tools says which.

`MCTTLCache`, `MCBrowser`, `MCTools`, `MCMapping` and `MCLifecycle` hold the sets and symmetries for
TLC. Definitions marked `fault:` are plausible bugs; each property of a passing run
is violated when one of them replaces the definition that follows it.

## 3. Runs

| run | shows | bounds |
|---|---|---|
| CacheSafety | types, `OneFetchPerKey`, `NoOrphanWaiter`, `MonotonicReads` | 3 calls, 1 key, clock 0..2, no setter, symmetric |
| CacheLive | `EveryCallReturns`, `ImplementsReadThrough`, `ImplementsFairReadThrough` | 2 calls that may set, 1 value, clock 0..3, fair |
| CacheLeaderCancel | finding: cancelling the leader fails those that joined | 2 calls, reliable upstream |
| CacheRefetch | finding: a fetch although the entry is fresh | 2 calls at one instant |
| Browser | types, `OwnStatus`, `HandedOverKept`, the Fetcher contract with and without fairness, `ReadersNeverBlock` | 2 requests, statuses 200, 400, 404, a browser that may go, fair |
| BrowserFirstMatch | finding: the second match may answer | 2 requests, two statuses |
| ToolsSafety | types, `DeliveredIsFinal`, `OldStatusIsFinal`, `LeaderTimesOutAlone`, `KnownNeverDenied` | 2 calls, 1 shipment and a namesake, clock 0..2, all rejected inputs and `list_reference_types` |
| ToolsLive | `EveryCallAnswered` | 2 calls with shortened, mistyped and typed inputs, one instant, fair |
| ToolsErrorCodes | two findings in one state: a refusal is reported as not found, and the browser's deadline as unavailability | 2 calls, one instant, nobody cancels |
| ToolsKeepDelivered | finding: a day's entry is lost | 2 calls, clock 0..2 |
| Mapping | `HistoryInOrder`, `DeliveredAlike`, `CodesAccountedFor`, types: known codes, no cached list nil | all histories of up to 3 events of 2 codes at 3 times, 2 parcels, all stages, null lists |
| Lifecycle | types, `ChromeReaped`, `SignalLeavesNoChrome`, `NothingListensAfterShutdown`, `EveryItemReported`, `EndsWhenAsked` | 3 programs, 2 references, any signals, one crash, one client that leaves, fair |

Why the bounds are enough. Everything in the cache is per key, so one key shows what
a key can do. Three calls are the least with a leader, a joiner and one that comes
between two flights; the third only repeats these roles in the other runs. TTL = 1
and StaleWindow = 2 give a clock of 0..2 or 0..3 that reaches a fresh entry, the instant of
expiry, which is neither fresh nor usable, and a usable one; with a clock of 0..3 the
end of the window is reached too. Two requests are the least that overtake one
another. `DayTTL` outlives the clock of the Tools runs, as a day outlives the rest.
ToolsLive stays at one instant: time adds only staleness, which ToolsSafety has, and
no action of the handlers waits for the clock. Histories of three events have every
order of two with a tie between them. One value is enough for the refinement: the
entries of two fetches differ by their dates, and no step of the cache looks at a
value. In Lifecycle nothing is bounded but the list of references: two show that a
row is made for the first and for a later item, and the theorem covers any list.
`Shared` makes the searches of ToolsSafety and ToolsLive answer with two shipments;
more of them are no different to a handler that looks at the first. No run has a zero
or a negative duration: for those there are only the theorems, which take any integer.

`CatalogHoldsOnce` is a disjunction of two entries of the catalog, so that the state
which violates it is a counterexample to each: of its two calls, one has met a refusal
and the other the browser's deadline, and neither was cancelled.

The models stop when every call has been made and the clock is at its bound, hence
`CHECK_DEADLOCK FALSE`; that calls do not hang is stated by the liveness properties.

Fairness. Calls, goroutines and delivery are weakly fair: the Go scheduler runs what
is runnable. A fetch ends, because `FetchJSON` bounds both of its waits with timers;
that is `ImplementsFairFetcher`, checked by the Browser run under fairness of the
calling goroutine and of the readers' sends alone. Nothing external is fair: nobody
has to call, cancel or invalidate, DSV need not answer, bodies need not come, and
time need not pass. In Lifecycle the main goroutine runs, and a Chrome whose context
is done dies, since chromedp kills it; a step of the main goroutine that waits for a
tool call, a launch or a shutdown is fair because each of those has a deadline in the
code (`EveryCallAnswered`, chromedp's launch deadline, the five seconds of
`main.go:103`). Nobody has to send a signal, leave, or finish a scrape, and the
metrics server's goroutine need never run.

## 4. Proofs

| module | theorem | of |
|---|---|---|
| TTLCacheProofs | `Invariance`, `TypeCorrect`, `Coalesced`, `NobodyOrphaned` | TTLCache |
| TTLCacheMonotonic | `AnswersMonotonic` | TTLCache, `Setters = {}` |
| TTLCacheSimulation | `Simulable`, `Implements`, `KeepsContract` | TTLCache, ReadThrough |
| ReadThroughProofs | `ContractInvariance` | ReadThrough, `Sound` |
| ToolsProofs | `Invariance`, `TypesKept`, `LeaderTimesOut`, `DeliveryIsFinal`, `OldStatusesAreFinal`, `NeverDenied` | Tools |
| BrowserProofs | `Invariance`, `TypeCorrect`, `StatusIsOwn`, `HandOverIsFinal`, `Implements` | Browser, Fetcher |
| MappingProofs | `Invariance`, `TypesKept`, `HistoryIsInOrder`, `CodesAreAccountedFor`, `DeliveredAgrees` | Mapping |
| LifecycleProofs | `Invariance`, `TypeCorrect`, `Reaped`, `SignalSafe`, `NoLateListener`, `Reported` | Lifecycle |

With these every invariant, action property and refinement without fairness that a run
checks is a theorem, for every number of calls, keys, requests, values, bodies and
references, for lists of any length and for every duration. The assumptions are the
named ones of the modules:

* durations are integers, zero and negative ones included, because `mustDuration` takes
  whatever parses (`main.go:164`); the clock is bounded by a natural number;
* statuses are natural numbers; setters are callers; the references are a list;
* a body is a DTO or does not parse (`BodiesAssumption`): `encoding/json` fills a typed
  struct or fails;
* a fetch may fail with the errors the code has, and always by a deadline
  (`ErrorAssumption`); the reference type may be omitted, and the second segment of an id
  can be searched for, as `tools.go:178-180` does (`InputAssumption`);
* `None` is none of the values it is told apart from (`NoneAssumption`; `Sound` for the
  contract, which ToolsProofs shows to hold for both of its instances);
* a literal is a string (`LiteralAssumption` of Mapping), which tlapm does not know.

TLC evaluates each of them in the runs.

*Coalescing and orphans.* `OneFetchPerKey` alone is not inductive: a second flight for
a key is impossible only because singleflight's map names every running goroutine,
and the map is right only because a call that has not reached `DoChan` leads nothing.
The invariant `IInv` of TTLCacheProofs has those facts (`Registered`, `NotYetLeading`),
what a goroutine and a call hold at each stage, and `NoOrphanWaiter`. One lemma per
action shows that it is kept.

*Monotonic answers.* The date of an entry is read before the lock is taken, so that
entries are not stored in the order of their dates by construction. What orders them
is that a key has one goroutine at a time: while it holds a value dated t, nothing
answered for the key, waiting in a channel, or stored is newer (`FetchedNewest`,
`SettledNewest`, `EntryNewest`). `SetWithTTL` is outside that order and may store an
earlier date over a later one, so the theorem assumes that nobody calls it, which is
how the search cache is used. For the detail cache `DeliveredIsFinal` says what is
needed of the order.

*The cache implements the contract.* A round of the contract is a registered flight, its
members the flight's waiters, its outcome what the flight has settled on. `IInv` does not
say enough for the steps to be steps of the contract: `SInv` adds that nothing is dated
later than now and no flight was dated before its leader's call (`Clock`, `Ended`,
`Answers`), which is what lets the contract decide a round at one instant between the
two; that an aborted fetch has a leader whose context is done (`Ended`); that a goroutine
has its leader's channel from its start (`Rounds`); and that a call which writes is one
that may (`Stamps`). The reading of the clock, the check of the context and the delivery
to one channel after the other are stutters, or the step that the critical section after
them makes visible. The refinement holds with `SetWithTTL` and with cancelled leaders.
With it, what is proved of the contract below holds of the cache (`KeepsContract`).

*What the handlers rely on.* `RInv` is the invariant of the contract itself: who is in a
round, what an answer may look like, how it is dated. ToolsProofs takes it over for each
of its two caches (`DP`, `SP`) and proves of the handlers only what the caches cannot know:
`CallOK` says where the caches find a handler at each of its points (`Placed`), that a
finished call was answered by them (`Told`), that only a call whose own context is done
reports a timeout (`TimedOut`, hence `LeaderTimesOutAlone`; that a deadline of the browser
gives no timeout is the other side of it, see section 5), and on what a shipment was denied (`Judged`).

*A delivery is final.* `DeliveredIsFinal` speaks of those who have been told. Inductive is
what holds from DSV on (`Final`): a delivery in the cache, or on its way, was one for
every shipment the id finds; a round that ends with one has stored it before anybody is
told; and once it is stored, nothing on the wire or in the round says otherwise, because
DSV does not take a delivery back and a key has one round at a time, whose wire is
emptied when the delivery lands: no older answer is still under way. `Dated` rests
on `Final`: only a delivery gets the day's entry, because `Upgrade` writes what the call
has been told, over an entry that is a delivery already.

*A known shipment is not denied.* Every place an answer passes is free of a denial of a
shipment that has been known from the start: the wire, the rounds, the offers, the
replies, and the entries of the search cache, whose lists contain it (`Known`). With
`Judged` this leaves the two exceptions of `KnownNeverDenied`: a cache has answered
ErrInvalidReference, or the search lists another shipment first.

*FetchJSON implements Fetcher.* What the listener tracks is a response that matched,
with its own status (`TargetOwn`); a reader holds the status of its own response
(`ReadersOwn`), hence so does the channel (`OwnStatus`), hence `TakeResult` is the
answer of the contract, for the body or for the error. There is a result exactly when
the call has returned (`Returned`), hence one outcome. `HandedOverKept` needs no
invariant: it is a fact about each step.

*The programs see Chrome out.* `ChromeReaped` speaks of the end, so what is inductive is
where main is when Chrome may run: not before the launch and not after `Close` has
waited for it (`ChromeWhile`). A signal can kill the server only where it is not caught,
which is before `NotifyContext` or after the deferred `stop()`, hence outside that
stretch (`CaughtWhile`); swapping the two deferred calls would break exactly this part.
`RowsSoFar` says that the rows are those of the items before the current one, from which
`EveryItemReported` follows when the loop is over.

*From the body to the caller.* The mapped value is the image of a body that has parsed
and the view the image of that (`Followed`), so that the properties of Mapping are facts
about its operators. Sorting is by rank, and what is proved of it needs no induction:
of two elements that differ one comes first and the order is transitive
(`BeforeIsOrder`), so that an earlier element has fewer before it and a smaller rank
(`RankMonotonic`) and no two share one (`RankInjective`); by the pigeonhole principle
every place is somebody's (`RankSurjective`). Hence a sorted list has each element at its
rank, its ranks are the places at which `HistoryInOrder` looks, and the type of a list
survives the sort (`SortedType`). Among the stages, and among whatever else the upstream
may send, only one string is parsed to the stage of delivery and only that stage has its
label (`OneLabel`); a label is "Unknown" only for a code outside the catalog
(`UnknownLabel`). All this holds for strings outside the catalogs too.

Only model-checked: liveness, which is out of the prover's reach
(`EveryCallReturns`, `ImplementsFairReadThrough`, `ImplementsFairFetcher`,
`ReadersNeverBlock`, `EveryCallAnswered`, `EndsWhenAsked`). The invariants of the proofs
themselves (`SInv`, `RInv`, `IInv`, `Final`, `Dated`, `Known`) were found with TLC on the
instances of the runs before they were proved, and need no run now. `Verdict` of Tools is
written with IF where the code has a switch and early returns: the order of the tests
is part of its meaning, and a CASE whose guards overlap would leave it open.

## 5. Where code and documentation differ

Five runs end in counterexamples to six things the repository says of itself;
`PROJECT.json` quotes the lines. In short: (1) a fetch does not survive the
cancellation of the call that started it; (2) concurrent calls may fetch a key
twice; (3) the second matching XHR may answer instead of the first; (4) a 403 is
reported as SHIPMENT_NOT_FOUND (`NotFoundIsConfirmed`); (5) a delivered shipment does
not always keep its day's entry; (6) a fetch that runs into the browser's deadline is
reported as UPSTREAM_UNAVAILABLE, where the catalog has UPSTREAM_TIMEOUT
(`DeadlineIsTimeout`). (4) and (6) are shown by one run, ToolsErrorCodes. Read, but not
checked by a run:

* `browser.go:97-98` says 400 is ErrShipmentNotFound; it is ErrInvalidReference (263-264).
* `ErrUnsupportedTransportMode` is never returned, and `Client.Detail` looks for
  `/shipments/land/` whatever the mode of the id (`client.go:83-85`, 94).
* `ErrInvalidReference` is said to precede any contact with the upstream
  (`domain/errors.go:15-16`); only responses produce it.
* The mapper's comment says raw upstream strings are preserved; modes and stages
  are not (`mapper.go:11-12`, 72, 106).
* The failed search of `get_shipment_details` is said to mean that DSV is unreachable
  (`tools.go:175`); a stale empty result yields SHIPMENT_NOT_FOUND instead.
* `os.Exit(1)` in `main.go:98` skips the deferred `br.Close`, which `browser.go:56` requires;
  so does the one of the drivers when the client cannot connect. Lifecycle has both
  (`outcome` "run" and "connect"), and `ChromeReaped` excepts them. The drivers do not catch
  signals either. Whether a Chrome that is left behind dies with its parent depends on
  the platform and on chromedp: `ChromeEnds` may happen after the end, and need not.
* `README.md:146` says that an empty `METRICS_ADDR` disables the metrics server; `envOr`
  takes an empty value for an absent one, so that nothing disables it (`LoadConfig`).
* `errors.go:32-33` says INTERNAL_ERROR is returned for "mapper panics"; nothing recovers.
* The middleware records a tool call that ends with a `ToolError` as a success, since
  the SDK turns it into a result (`server.go:85-102`).
* `main.go:96` compares the error of `Run` with `!=`: a wrapped `context.Canceled` would be
  taken for a failure of the transport. The model takes the SDK to return it bare.
* `tools.go:196-199` speaks of the STT's shipment; a search by a number may list several,
  of which only the first is compared (`ListedSecond` in `KnownNeverDenied`).
* `client.go:88-90` says that the colons of ids must stay raw and refers to UPSTREAM.md, which
  says at line 53 that they must.
* `mapPlaceView` leaves out a place of which only the country's name is known
  (`view_mapper.go:128`).
* dsv-verify-all notes "goods block absent" when the view has no goods; `mapGoodsView`
  always returns some, so that the note cannot occur with this server. Lifecycle, which
  leaves answers open, allows it.

## 6. Not modelled

* What is external: chromedp and the allocator's options, Cap.js, the MCP SDK, the Go
  runtime, modelled only by what the code relies on. Whether a body request on a closed
  tab returns is left open, so that a reader may stay for ever.
* The middleware, metrics, logging and request ids: nothing reads them back. A client
  chooses the tool names that become metric labels (`server.go:102`), which are bounded
  by nothing.
* `Client.ReferenceTypes` and `Party`: no program calls them.
* Eviction: there is none. The sets of keys are finite in the model.
* Case folding of keys: a reference stands for all of its spellings, as `tools.go:128`
  assumes that they do.
* The escaping of URLs. A raw reference that the page escapes is never matched; Tools
  has that case as a DSV that never answers.
* A 200 body that is no search result decodes to an empty list (`client.go:77`). In Tools
  a body that is sent answers what was asked.
* Dates of delivery and references end at the mapper: no view shows them.
* A bound on how old the search is that denies a shipment registered later: the fetch
  it comes from may itself have taken any time, so that the age of the entry, which
  `OldStatusIsFinal` bounds for details, does not bound the age of DSV's answer.

## 7. Plan

Done: TTLCache, ReadThrough, the refinement and its proof; the cache's safety proofs;
Fetcher, Browser with a browser that goes away, and its refinement proof; Tools with
searches of several results, and the proofs of its safety over the two contracts;
Mapping with nullable bodies and its proofs; Lifecycle and its proofs. What is left, in
order of importance:

1. An order of answers for the detail cache, where `SetWithTTL` is called:
   `AnswersMonotonic` assumes that it is not. What exactly is left of the order then has
   to be found with TLC first.
2. The handlers over TTLCache itself, in place of its contract: `Implements` and the
   theorems of ToolsProofs composed in one module, where two instances of TTLCache share
   the clock and the contexts.

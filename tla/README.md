# A TLA+ model of apod-server

apod-server mirrors NASA's Astronomy Picture of the Day: it answers
`/v1/apod[?date=]` from a memory cache, from Redis, from the NASA API or from
NASA Science, keeps the pictures in a directory, and limits callers without a
key. This directory holds TLA+ modules of its stateful parts, the TLC
configurations that check them on small instances, and TLAPS proofs of the
main properties for every instance.

## The system

| component | source (`src/internal/…`) | state | operations | module |
|---|---|---|---|---|
| fetch orchestration | `fetch/service.go` | singleflight group, flights | `GetAPOD`, `realFetchLogic` | `Fetch`, to callers `Service` |
| memory cache | `store/memory.go` | date → item, lastAccess, TTL | `Get`, `Set`, `GetLast`, `Cleanup`, `evictLocked` | `MemoryCache`, contract `Cache` |
| Redis store | `store/redis.go` | circuit breaker; Redis itself | `Get`, `Set`, `GetLast`, `Ready` | `RedisStore` |
| image cache | `image/service.go` | directory, semaphore, singleflight | `Ensure`, `Cleanup`, `ServeCached` | `ImageCache`, to readers `PictureStore` |
| demo key limiter | `server/cron/cron.go`, `server/api/middleware.go` | IP → count and window | `Allow`, `Rollback`, cleanup, middleware | `DemoLimiter`, meaning `Ledger` |
| scheduled jobs | `server/cron/cron.go` | attempt, timers | prefetch with retries; cleanups | `Lifecycle`; cleanups with the data they clean |
| HTTP middleware | `server/api/middleware.go` | none of its own | keys, demo charge and refund | `Access`, `DemoLimiter` |
| HTTP handlers | `server/api/handler.go` | none of their own | record, redirect, picture | `Api` |
| HTTP server, `main.go` | `server/api/server.go` | listener, handlers running | run, shutdown, exit | `Lifecycle` |
| NASA and Science clients | `fetch/nasa.go`, `science*.go` | rate limiter, deadlines | `fetchFromNASA`, `fetchFromWeb`, choice of the record | `Upstreams`; outcome in `Fetch` |
| client address, base URL | `httputil` | trusted proxies | `RealIP`, `BaseURL`, `BuildETag` | `Access`, `Api` |
| presentation, model | `fetch/present.go`, `model` | none | URL rewriting | `Api` |
| assembly, configuration | `app`, `config` | none | start-up, checks of production | `Access`, `Lifecycle` |
| logging, deployment | `log`, `deployments` | none | | not modelled |

How they interact. A handler or a cron job calls `GetAPOD`, which calls the
memory cache and the Redis store and, under the singleflight key of the date,
the upstreams; the flight writes both caches and starts `Ensure` in a goroutine
of its own. A flight waits for the rate limiter, asks the NASA API and, when that
gives nothing, searches NASA Science, each under a deadline of its own.
Handlers of `/static/apod/` only read the directory. The demo key limiter is
called by the middleware before and after the handler. Tickers call the
cleanups of the memory cache, the directory and the limiter while all this goes
on. `NewApp` starts the prefetch jobs before `Run` starts the server; `main`
exits when `Run` returns, whatever still runs. What is answered carries
`Cache-Control` and a tag, so that the reader's cache, or a shared one, answers
for the service for up to an hour or a day. Everything but Redis, the
directory and the upstreams is in one process, and only Redis and the directory
survive it.

What is hard: callers share flights (with the first one's context and
permissions); the memory cache and the limiter read the clock, and the memory
cache even an entry, before they take the lock under which they act; calls
that were admitted before the circuit opened report while it is open; Redis
executes commands whose caller has given up; directory listings are stale when
they are used; the process may end between any two steps, the server's own
shutdown among them; midnight in New York decides what is permanent and what is
hot; what a header says depends on who wrote it.

## The modules

**`Fetch`** follows one call of `GetAPOD` per member of `Requests` through the
caches (`pc`: memory, redis, refill, join, waiting, done), and the flight that a
call leads through `realFetchLogic` (`fpc`: start, nasa, web, store, ensure,
fallback, kvlast, kvfill, return, finished). Days are numbers and a record is
the date it carries. `sf` is the singleflight group; `joined` says whose flight
a call waits for, and the flight looks at `canceled` and `asked` of its
*leader*, as the closure in `service.go` does. The caches are seen from outside:
entries disappear at any time (`ForgetInMemory`, `ExpireInRedis`), Redis may
fail at every call, or execute a `Set` late or twice (`StoreAgain`, which is
what `RedisStore` allows it). Nothing in the code keeps a call from naming a day
to come, nor an upstream from having it (it publishes early, or this server's
clock is behind): `ahead` is history and remembers the days whose record was got
before they came, those among them that Redis holds at the start. `NASAFails`
and `WebFails` stand for all the ways an upstream fails; `Upstreams` looks
inside. **`Service`** is what is left when caches, upstreams and flights are
taken away: each call is for one date and is answered once, with the record of
its date, with one of another day, or with an error. Two facts of the sharing
remain, because callers can tell: another day's record needs a call for the date
that names none, and a cancellation needs a call for the date that is gone. No
answer is of a day that has neither come nor been published before it came
(`Publish`). `ImplementsService` maps a call to idle, pending or done, and hides
what it has read before it returns.

**`Upstreams`** is the part of `realFetchLogic` that `Fetch` leaves out. A
flight, named by its date, reserves a token (`Begin`: at once, for later, or
refused because its 10 s would not suffice), waits (`Grant`, `GiveUpWaiting`),
asks the NASA API (`NASAAnswers`, `NASAFails`) and searches Science in one or two
forms of the date under one deadline (`SearchAgain`, `WebAnswers`,
`NothingFound`, `WebFails`). `tokens` and `lastEvent` are the state of
`rate.Limiter`, modelled from its version in `go.mod`: tokens below zero are
promised to waiters, and a canceled reservation gives back what later ones have
not built on. An answer of an upstream is a sequence of items or articles whose
dates, links and texts may disagree; markup is abstracted to whether a text or
a link is there. `sent` is history: the requests that went to the NASA API.
`Failed("failed")` is where `Fetch` goes on to fall back. The prefetch's own
deadline of 20 s cannot cut the 10 s of the limiter short, since at most two
lookups of 2 s come before; when it does pass later, it is a `Cancel`.

**`MemoryCache`** gives `Get` its two lock sections, with the clock that was
read before the first (`BeginGet`, `Read`, `Expire`, `Touch`), `GetLast` its
clock and its section; `Set` and `Cleanup` are one step each, with the eviction
that ends them. Entries have a TTL or are permanent, and the `used` time on
which the eviction sorts. **`Cache`** is the contract: a table that may forget
anything at any time, in which a lookup finds what was stored last or nothing,
the last record is the newest that is left, and a lookup that has its answer
(`Found`) may still forget but stores nothing. `ImplementsCache` maps the items
to their values and a lookup to the step that takes the copy; what `Get` does
under its second lock is the contract's `Close`.

**`RedisStore`** separates admission (`Call`), the execution in Redis
(`Execute`), and the report (`Succeed`, `Fail`), so that calls overlap with the
circuit. `GetLast` is admitted twice (`GetOfLast`). Redis may execute a
transaction after its caller has given up (`ExecuteLate`) and the client
library may send a command again (`Resend`). `openUntil` is a countdown, so
that the state is finite without a bound on time.

**`ImageCache`** models files with date, extension, temporary owner,
completeness and modification day; `Ensure` by its steps from the singleflight
to the rename, each with its error path; `Cleanup` by listing, removal by age,
second listing, removal by count, one file per step; and a crash that ends all
calls, frees the semaphore and leaves the directory as it is. The end of a
graceful shutdown is such a crash too: it waits for handlers, not for
downloads. **`PictureStore`** is what a reader of the directory sees of this: a
shelf on which whole pictures appear and from which cold ones disappear, one
at a time, one of a date, none ever replaced. `ImplementsPictureStore` maps the
shelf to the files that are not temporary (`Shelf`); downloads, errors and
crashes are steps that do not show.

**`DemoLimiter`** models the requests without a key through the middleware and
`Allow`/`Rollback`, each as reading the clock and acting under the mutex, and
the hourly sweep. `window`, `charged` and `crossed` are history: they say which
window a request was charged to and which window a refund was taken off.
**`Ledger`** says what the count stands for: an address has a page with the
requests that hold a charge in its window and the number of late refunds, and
who is let in or denied is decided by the page. `ImplementsLedger` maps a record
to the page that the history variables give it (`Page`): nothing is lost by
keeping a number, nor by forgetting a record at zero or a window that is over.

**`Lifecycle`** follows `main` (starting, launching, serving, draining, and the
three ways out: returned, fatal, killed), the listener, the requests being
handled, and the two prefetch jobs with their attempts, pauses and deadlines.
`Terminate` is a SIGINT or SIGTERM that `Run` has asked for; `ShutdownSucceeds` and
`ShutdownFails` are what comes of `Shutdown`; `Exit` is what ends everything: the
goroutines are cut off where they are. `Kill` is a signal that came too early or
cannot be caught, `Restart` whoever starts the service again. The schedule fires
in its slot (00:30) on a day on which it is up, and a process that starts in
that very slot may or may not be in time. `tried`, `begun` and `cut` are history.
An attempt of a job is a call of `Fetch` whose outcome is left open. The job that
cleans the directory at 03:20 is a `Cleanup` of `ImageCache`; cutting it off is a
`Crash` there. There is one daily prefetch in the model and a new goroutine a
day in the code; `PrefetchesDoNotOverlap` says that this is no difference.

**`Access`** has no variables: it defines, over the environment the process was
started with and a request, what `NewApp` accepts (`Starts`), whom `RealIP` and
`BaseURL` believe, and what the two key checks let in. An address is what
`net.ParseIP` makes of a text; a header is the choice of what the code tells
apart in it, and of `X-Forwarded-For` the first line, the only one `Header.Get`
reads: a proxy is taken to append to that line, not to add one. One branch of
the code is left out because nothing reaches it: "Bearer token is required"
(middleware.go:156), as the header is trimmed before it is split. **`Api`**
extends it with the three handlers and `PresentAPOD`, and puts an HTTP cache in
front of them, which is not part of the repository and does what the headers it
is given ask of it (RFC 9111). `GetAPOD` may give another record each time.
`lag` is history: how long ago the service last gave, or would have given, the
answer the cache holds.

Each module contains, before the definition concerned, mutated forms of some
definitions (`\* Mutated form: …`). They are used by no specification; they
are the plausible bugs against which the properties were tried.

## The runs

`MC*.tla` extend the modules with symmetry and value definitions.

| run | instance | what it shows |
|---|---|---|
| `Fetch_days` | 2 calls, 2 days | `OneFlightPerDate`, `CanceledHasACause`: what sharing a flight may and may not do to a call. `CachesNotPoisoned`: records are filed under their own date, although fallbacks bring other days' records into a flight. `TodayExpires`: across midnight, today's entry has a TTL, unless it was got ahead of its day. `SubstituteOnlyByJoining`: whoever names a date gets another day's record only by sharing a flight. `ImagesFollow`: whoever is told of an image, by a cache too, has its download begun or about to begin. `ImplementsService` |
| `Fetch_live` | 2 calls, 1 day | `EveryCallReturns` if flights end, `LeaversReturn` even if they hang |
| `Fetch_substitute` | as `Fetch_days` | **violated**: `ExplicitDateNeverSubstituted`, README.md:72 |
| `MemoryCache` | 3 days, 2 fit, 2 versions, 2 lookups | `SizeBounded`, `LiveEntryKept`, `StoredIsKept`, `ImplementsCache` |
| `RedisStore` | 3 calls, 1 date, circuit opens at 2 | `OpensOnStreak`, `NobodyAdmittedWhileOpen`, `LastDateHasRecord`, `Recovers`: the circuit closes for good once Redis is back for good |
| `ImageCache` | 2 downloads, 2 cleanups, 1 slot, 1 file, 3 days | `PicturesWhole`, `OnePictureEach`, `NoLitter`, `SlotsAccounted`, `HotPicturesKept`, `CleanupSuffices`, `ImplementsPictureStore` |
| `DemoLimiter_safety` | 4 requests, 2 IPs, limit 2, window 2 | `ChargesAccounted`, `ServedWithinLimit`, `DeniedOnlyWhenSpent`, `LiveWindowKept`, `ImplementsLedger` |
| `Upstreams` | 3 dates, one of one digit, burst 1, deadlines 2 and 1 | `RateKept`: waiting, giving up and beginning anew never exceed the rate; `QueueBounded`, `FetchBounded`, `PictureOfTheDay` |
| `DemoLimiter_24h` | 5 requests, 1 IP | **violated**: `AtMostLimitPer24h`, README.md:342 |
| `Api` | 180 environments, 4 addresses, chains of up to 3, 6 records | `StaleAtMostMaxAge`: neither a 304 nor a kept error makes an answer older than its `max-age` says. `FarHopsDoNotMatter`: nothing before the nearest untrusted hop changes whom a demo request is charged to. `ProductionKeepsApart`: keys, demo access and proxies in production |
| `Lifecycle` | 2 requests, a day of 7 slots, 1 retry | `DayTried`: however the process is killed and restarted, the record of the day is asked for on the day. `PrefetchesDoNotOverlap`: the retries of one day are over before the prefetch of the next. `GracefulToRequests`, `SignalEndsProcess`: a shutdown cuts off no request before its deadline, and ends |
| `Lifecycle_jobs` | as `Lifecycle` | **violated**: `JobsExitSmoothly`, README.md:16 |

Bounds. Two calls suffice for every two-party race of `Fetch` (leader and
follower, flight and cache hit); the second day gives midnight, another day's
record and a day to come. The pictures of records that Redis holds at the start
are left to the process that stored them, in `downloads`. In `MemoryCache` the
whole table but one entry goes at once (`EvictPct` 100), the tightest case; a
day has two ticks so that an entry can expire on its day and after it. In
`RedisStore` three callers allow an opening by one and two reports by
stragglers; with a second date the states are too many for a run, so that a late
`Set` of one date behind a newer one of another is left to the proof.
`ImageCache` keeps a single file, so that hot files alone exceed the limit, and
begins on day 2 so that a picture may be cold from the start; three days let it
age. `DemoLimiter` has enough requests to spend a window and begin the next;
`PurgeAt` 1 (1024 in the code) makes `Allow` purge with two addresses. `Lag`
bounds how long a request takes, in both halves, as the upstreams' deadlines do;
the window is longer than that. In `Upstreams` a tick is a second: 2 and 1 stand
for the 10 s and 8 s, and with a burst of one (2 in the code) a date that has
been sent and begins anew waits behind the two others, which is one waiter more
than the deadline allows; no flight begins after `LastBegin`, so that all have
ended by `LastTick`. The clock waits for what is due (`Due`): timers and the
scheduler are assumed to be prompt compared with a second. In `Lifecycle` the
day is the shortest in which a daily prefetch with its retry ends before the
next is due, as the assumption asks; every deadline is at least one tick, and
the shutdown's outlasts an attempt's, so that a signal meets a job in each of
its states. `Api` has an address for each role (proxy, client, other, none),
every subset of the settings `NewApp` looks at, and records that differ in the
day, in the link, or in neither. `CHECK_DEADLOCK FALSE` is set where requests
are made once and the clock stops at its bound.

Fairness. `Fetch`: the goroutines of callers are scheduled (`CallersRun`), and
for `EveryCallReturns` flights run too (`FlightsRun`), because the rate limiter,
the NASA request (10 s) and the science search (8 s) have deadlines:
`FetchBounded` of `Upstreams` says a flight is over within their sum. Nothing
obliges a client to leave, a day to pass or an upstream to answer well.
`RedisStore`: time passes, and a call ends within its 2 s. `Lifecycle`: time
passes, jobs go on, and `Shutdown` returns when it can or must; requests need not
ever end, because the server sets no timeouts and a client may read slowly, and
nobody need send a signal.

## What the checks found

1. *A date shares its flight with no date* (`service.go:149`). The singleflight
   key is the date alone, but whether a flight may fall back on another day is
   the leader's. In `Fetch_substitute` a call with today's date joins the flight
   of a call without one, both upstreams fail, and it is answered with another
   day's record. (The other way round, a call without a date fails with a flight
   that may not look for a fallback.)
2. *A refund names an IP, not a window* (`cron.go:185`). In `DemoLimiter_24h` a
   request charged at the end of a window is refunded after the next has begun,
   which then answers one request more than the limit. `ServedWithinLimit`
   states, and the proof shows, the limit the code does keep: plus one for each
   such refund.
3. *Scheduled jobs are not waited for* (`app.go:145`). `Stop` of a schedule
   returns a context that ends with its running jobs; `cronStop` drops it. In
   `Lifecycle_jobs` the signal comes first, the daily prefetch begins while the
   server drains, and `main` returns in the middle of the attempt; a prefetch that
   had begun before the signal is cut off in the same way. The restarted
   process asks once more, at start-up, but does not repeat the attempt if that
   fails: `DayTried` holds, the retries are lost.
4. *A record got ahead of its day never expires in memory* (`memory.go:83`).
   Whether an entry has a TTL is decided when it is stored, and a day to come is
   "not today" just as a day gone by. If a call names tomorrow and Redis or an
   upstream has it, the entry is permanent, and is today's after midnight;
   README.md:395 says that today's data has a TTL in memory, three hours by default
   ("APOD 今日数据：内存使用 TTL（默认 3 小时）"). `TodayExpires` names this exception
   (`day \in ahead`) and shows that there is no other; without the exception TLC
   finds the behaviour just told in `Fetch_days`. It needs an upstream that
   publishes early or a clock that is behind, so it has no run of its own.

## The proofs

There is a `*Proofs` module for each of the eight modules with a state
(`ApiProofs` is also that of `Access`). It proves, for all values of the
constants that satisfy the module's named `ASSUME` (finite sets of requests or
keys where something is counted, positive limits, `None` different from
everything else), that an inductive invariant (`IndInv`, in `UpstreamsProofs`
two of them) holds and what follows from it. All safety properties of the
passing runs are proved; tlapm checks the proofs to the last leaf.

*`FetchProofs`.* `IndInv` strengthens the properties by what they rely on:
`CallersInv` (where a call is determines what it has joined and holds),
`FlightsInv` (a flight that runs holds its key in the group: this gives
`OneFlightPerDate`), `GroupInv` (whoever holds a key of the group is a flight
for that key), `ResultsInv` (what a flight may carry as its result, and that
only a flight whose leader names no date gets to the fallback), `CachesInv`
(records are under their own date, and neither cache holds a record that is not
out, of a day that has come or is in `ahead`: so what is permanent at midnight
is of a day that is over or was got ahead), `OutcomesInv` (a flight that ends
has a result, and what it carries is out; a `Set` that Redis executes late needs
this, long after the flight), `ImagesInv` (the download of every record in a
cache or in a flight's hands is on its way, which gives `ImagesFollow`) and
`AnswersInv` (what an answer may be, depending on the flight it came from).
There is one lemma for each part and, in it, one step per action that can
disturb the part. `Implements`, that `Fetch` implements `Service`, is then a
matter of the steps with which a call returns (`CallerAsService`):
`ResultAllowed` shows that what a flight delivers may be answered to each call
that waits for it, whoever led it; the steps of flights, caches and Redis do not
show.

*`DemoLimiterProofs`.* The difficulty is counting: `ChargesAccounted` equates a
counter with the difference of two cardinalities, and each action moves at most
one request into or out of one set (`OneMore`, `OneLess`). `IndInv` adds that
charges and crossings name windows that have begun (`RequestsInv`), that a
record belongs to one (`RecordsInv`), and that clocks read in advance are not
ahead of the clock. `ServedWithinLimit` is proved from `WindowsInv`, the same
bound for every charge of the window and not only for the answers 200, which
holds of windows that have ended too: their holders only become fewer.
For `Implements`, that the counters implement `Ledger`, `PageOf` reads a record as
its page, `DroppedPages` shows that a purge or a sweep with an old reading of the
clock throws away pages that are over and no others, and `AllowAsBook` and
`RollbackAsBook` go through the branches of the two functions. Where a refund of
an earlier window meets a record, the page gets one more in `late`; it is the only
branch in which page and number could have gone different ways.

*`RedisStoreProofs`.* `TypeOK` needs to know that `GetLast` goes on only with a
date (`CallsInv`), `OpensOnStreak` that `failCount` is what its name says, the
failures since the last success or opening (`StreakInv`).
`NobodyAdmittedWhileOpen` and `LastDateHasRecord` are inductive as they stand.

*`MemoryCacheProofs`.* First the arithmetic of `evictLocked`
(`RemoveCountSuffices`, `RemoveCountLeavesOne`) and what it does to a table
(`EvictionFits`); from `SizeBounded` follows that only `Set` ever evicts what has
not expired. `ImplementsCache` has one lemma per operation: `BeginAsks`,
`ReadReplies`, `EndCloses`, `GetLastReplies`, `SetStores`, `CleanupForgets`.
`EvictPct` is assumed to be at most 100 (`app.go:69` passes 10): with more, a
single eviction could empty the table.

*`ImageCacheProofs`.* `IndInv` says that a flight holds the key of its date
(`CallsInv`), that files have names of their own (`NamesInv`), that a temporary
file is of the date its call wants and complete when it is renamed (`TempsInv`),
that a call that has looked for a picture stays right that there is none
(`PicturesInv`, which gives `OnePictureEach`), and that what a Cleanup is going
to remove after its second listing was cold then, and so is cold now
(`CleanersInv`, which gives `HotPicturesKept`). `ExcessSuffices` is the
arithmetic of the second listing, more hot files than the limit included.
For `Implements`, that the directory implements `PictureStore`, a removal is a
discard (`RemoveDiscards`, `CleanupDiscards`), the rename of a complete temporary
file publishes (`RenamePublishes`), and every other step leaves the shelf as it is
(`UnseenFiles`); `DatesInv` keeps dates and modification days within the days that
have come.

*`UpstreamsProofs`.* `RateKept` speaks of the past only and is far from inductive.
`QueueInv` gives each waiter a second of its own, not passed, not behind the
tokens promised, with `lastEvent` the last: so a reservation that is canceled
gives its token back only when it was the last (`KeptByGivingUp`).
`PromiseInv` extends the bound to every second to come, counting those promised
a second up to it as sent; `BucketInv` says that the tokens left are what the
rate leaves beside both. There is a lemma for each way a step moves the
limiter: `KeptByToken`, `KeptByPromise`, `KeptByGrant`, `KeptByGivingUp`,
`KeptByTick`, `KeptUntouched`. `QueueBounded` follows from `QueueInv` by counting
seconds (`OneSecondEach`), `FetchBounded` from `DeadlineInv`: the clock does not
pass a deadline, and a deadline is no further from the beginning of the flight
than the two together.

*`ApiProofs`.* `StaleAtMostMaxAge` needs to know that a copy with a tag is an
answer 200 of which the tag was made (`CopyInv`): then a 304 can only come when
the service's answer has the same day and link (`RevalidatedCopy`), and an error,
which has no tag, is never renewed. `SpecFarHopsDoNotMatter` rests on
`NearestStrangerDecides`, about chains of any length: leaving out a prefix moves
the positions of the strangers that are left and nothing else, and the last one
exists because positions are well-founded (`GreatestExists`).
`SpecProductionKeepsApart` follows from the environment being one that `NewApp`
accepted.

*`LifecycleProofs`.* `DayTried` needs two facts beside the types: the pause of
the prefetch at start-up is the only one before a first attempt
(`FirstAttemptPauses`), and a prefetch that had its turn on a day on which
nobody started the process was made (`FiredMeansTried`). The slot of the daily
prefetch does not pass before it had its turn, so the day on which the process
was already up is covered by it, and any other day by the prefetch at start-up
(`DayAfterTick`). `GracefulToRequests` goes through the actions that end the
process. `PrefetchesDoNotOverlap` follows from a timetable (`PrefetchInv`): the
slots since the prefetch was due and those its attempt may still take are at
most the rounds, each an attempt and a pause, up to that attempt. All rounds fit
in a day (`RoundsFit`), by the assumption about the length of the day, which the
code's four attempts in about a quarter of an hour meet with ease.
`SpecDrainingEnds` is the half of `SignalEndsProcess` that is in reach: while
`Shutdown` drains, its time becomes less with every tick and is never set again.

The type invariants are part of each `IndInv`, proved, and not repeated in the
runs: what matters in them is said by the other properties. Only model-checked: liveness
(`EveryCallReturns`, `LeaversReturn`, `Recovers`, `SignalEndsProcess`), which is
out of reach of the prover.

## What is left

1. The readiness probe as a third user of the directory in `ImageCache`: a
   `Cleanup` may remove its file, and the service reports not ready.
2. The composition of `Fetch` and `ImageCache`. An answer from a cache may link to
   a picture that was never downloaded or is gone; the code promises no more
   than a 404 there, so it is left as a hazard without a property, like the
   choice of the last date in Redis.
3. The record a call without a date gets when it fails with a flight that may
   not fall back (first finding).

## Not modelled

Wording, logs, metrics, trace ids, the HTML of titles, texts and articles, the
JSON format, the character level of headers, dates and addresses, compression,
and `/healthz`, which has no state. The rate limit of the API is a single call
of `rate.Limiter` that never waits. A picture's `Last-Modified`, with which a
cache may also ask anew, is left to the file server. In Redis a value that is
not valid JSON reads as a miss, which `Fetch` allows at every lookup. The memory
cache's `GetLast` compares the dates the records carry, `MemoryCache` the keys:
`CachesNotPoisoned` says they are the same. `image.Service.Serve` is called by
no handler. File system errors are modelled in `Ensure`, where they have a
branch of their own, and for the second listing of `Cleanup`; a removal is taken
to succeed unless the file is gone.

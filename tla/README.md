# Sashfold: its shared state, modelled and proved

Sashfold is a browser written from nothing in C++: network stack, HTML, CSS,
JavaScript engine, layout, paint and shell. Almost all of it runs on the
window's thread. What does not is where an order nobody tested can hang a page,
lose an answer, send a request twice or keep half of a transaction: the threads
that fetch, share connections and read HTTP/2, the cache they share and its
files, and the databases that pages and workers share. This directory models
those parts in TLA+, checks them with TLC and proves part of them with TLAPS.

Line numbers below are those of `src/` in the repository at the commit modelled.

## Inventory

| Component | State | Operations | Meets others by | Hard parts | What makes it correct | Here |
|---|---|---|---|---|---|---|
| Fetch threads (`net/FetchPool`) | job queue, threads, `m_waiting`, `m_outstanding`, tickets | `submit`, `run`, `take`, `wait_for`, destructor | the loader's thread submits and takes; `m_wake` wakes its loop | notify after unlock, spurious wake-ups, destruction while threads run | every ticket ends once and is given once; no job waits behind another's work while a thread could start; no count drifts | `FetchPool`, `Tickets`, `FetchPoolProofs`, `FetchPoolCountProofs` |
| Shell loader (`ui/ShellLoader`) | `m_ahead` | `prefetch`, `load_subresource`, `fetch_in_background` | submits to the pool, and claims tickets on the pool's own threads | one ticket, several claimants; waiting on a pool thread for the pool | a ticket has one claimant, who gets its result | `ShellLoader`, `ShellLoaderProofs` |
| Connection pool (`net/Connections`) | `m_sessions`, `m_connecting`, `m_http1_only`, `m_idle` | `find_session`, `settle`, `note_http1_only`, `take`, `give`, `clear` | called by every fetch; sessions close themselves | claims and waits across unlocks, errors shared with waiters | counts of claims and waiters exact; no sleeper without a waker; one opens first | `ConnectionPool`, `ConnectionPoolProofs`, `Fetch` (idle list) |
| Fetch loop (`net/Http`) | a fetch's own: hop, URL, method, body, validators, retry flags | `fetch_hops`, `preconnect` | cache, pool, session, cookies, HSTS | redirects, conditional requests over a shared cache, bounded retries | ends; keeps what it got under the right URL; turns methods rightly | `Fetch`, `FetchProofs`, `ConnectionPool` |
| HTTP cache (`net/Cache`) | entries, `m_bytes`, `m_disk_bytes`, two files for each entry | `lookup`, `refresh`, `store`, `clear`, both evictions, `set_directory` | every fetch | an entry changes between lookup and 304; a file operation fails; the browser dies between two of them | a URL answers with one whole response stored for it, never with one replaced or forgotten, whatever files were left; sums and caps hold | `HttpCache`, `CacheStore`, `HttpCacheProofs`; variants in `Fetch` |
| HTTP/2 session (`net/Http2Session`) | streams, windows, `m_open`, ids, `m_output`, two locks | `exchange`, `run`, each frame handler, `close` | fetches share it; a thread reads it; the server | write lock held across waits, frames left to its holder, windows, GOAWAY | slots and windows as the peer counts them; every exchange ends; nothing acted on is sent again | `Http2Session`, `Http2SessionProofs` |
| HTTP/2 framing, HPACK, URL, IDNA, TLS, crypto, formats, Unicode | none shared | pure functions, sequential codecs | | numeric and textual | conformance vectors | not modelled |
| Cookies, HSTS, CSP, filters | one map under one lock | get, store | the fetch loop | rules about text | nothing interleaves inside a call | not modelled |
| WebSocket (`net/WebSocket`) | close flags, socket | `send`, `close`, reader | page thread and reader thread | both ends close at once | one close frame, nothing after it | planned |
| Spelling service (`ui/SpellService`) | dictionary, verdict cache, generation | `load`, `check`, `use_dictionary` | loader thread, checkers | a slow load of an older choice comes last | the last choice wins; no stale verdict | planned |
| IndexedDB (`storage/IndexedDb`, `bindings/IndexedDb`) | one database: state, file, queue of open requests, close watchers, connections, schedule of transactions; each realm: its transactions' requests, undo logs | open, delete, upgrade, transaction, request, commit, abort, close, end of a realm | realms on several threads share the storage and post each other tasks | overlapping transactions, upgrades that wait for others to close, undo, a realm that ends in the middle | transactions are isolated, all or nothing; an upgrade is alone; nobody waits for ever on who has gone | `IndexedDb`, `AtomicDatabase`, `IndexedDbProofs` |
| Event loop (`bindings/Realm`, agents) | tasks of this turn, of the next, other threads' | `run_pending`, post | pages, workers, IndexedDB | what is posted during a turn waits for the next | order | `IndexedDb` (the turn) |
| Workers, streams, XHR | queues | post, run | scripts on one thread | order | order of the specifications | candidates |
| Page images, picture decodes, compositor, media threads | caches, a second thread each | request, finish | window's thread | late answers | a late answer does not replace a newer one | candidates |
| JavaScript engine, HTML, DOM, CSS, layout, paint, SVG, PDF, media codecs | very large | sequential | | size of data | conformance suites | not modelled |
| Shell, platform layer, build, tools, tests | | | | input and output | | not modelled |

`PROJECT.json` lists the same parts with their sources and, under "hazards",
every place where the modelled code could go wrong in a way a test would hardly
reach, with the properties that would catch it.

## Modules

    Tickets <--implements-- FetchPool <--EXTENDS-- ShellLoader, FetchPoolProofs
    FetchPoolProofs <--EXTENDS-- FetchPoolCountProofs
    ShellLoader, FetchPoolCountProofs <--EXTENDS-- ShellLoaderProofs
    ConnectionPool <--EXTENDS-- ConnectionPoolProofs
    Http2Session <--EXTENDS-- Http2SessionProofs
    Fetch <--EXTENDS-- FetchProofs
    CacheStore <--implements-- HttpCache <--EXTENDS-- HttpCacheProofs
    AtomicDatabase <--implements-- IndexedDb <--EXTENDS-- IndexedDbProofs
    MC<module>: the instance TLC checks

In the models of threads a step is what a thread does while it holds a lock, or between
two waits; a `notify` made after the lock is let go is a step of its own, since
other threads run in between. Locals that no later step reads are reset when
the code leaves their scope. Where a definition has a neighbour marked
`\* slip:`, that is the mistake a run is shown to detect: it takes the place of
its neighbour, and TLC then finds the property violated.

**FetchPool** has `m_queue`, `m_waiting`, `m_outstanding`, `m_stopping` and the
thread vector as its state, each thread's place in `run()` as `pc`, each ticket
as `done` and `result`. `Submit` is the lock section of `submit()` (56-70) and
`NotifyOne` the notification after it (71); `Arrive` and `LookAgain` are the
two ways into the wait's predicate (88), `Answer`, `NotifyTicket`, `Discount`,
`CallWake` the end of a job in the order of 95-108; `Stop`, `NotifyAll`,
`AnswerDropped`, `Join` the destructor. `Take` and `TakeAgain` are
`FetchTicket::take`. **Tickets** is what the pool promises: asked, ended, given
once, and ended in the end; `KeepsPromise` is the refinement.

**ShellLoader** adds `m_ahead` and the loader's three users of the pool. It
extends the pool's actions rather than abstracting them, because its one
deadlock is made of the pool's own threads.

**ConnectionPool** follows the attempts of `fetch_hops` (669-802) and of
`preconnect` against one origin. `Look` is one pass of `find_session`'s loop
with its six ways out; `Wait` goes to sleep in it; `Open`, `Note`,
`NoteNotify`, `Settle`, `SettleNotify`, `StartExchange`, `EndExchange`, `Http1`
are the attempt after it. What the network and server do is chosen freely.
Other origins share only the condition variable (a wake-up of theirs is a
spurious one here) and the limit of `m_http1_only` (`Forget`).

**Http2Session** is one connection: request threads in `exchange()`, the reader
in `run()`, and `close()`. `m_mutex` sections are steps; `m_write_mutex` is
state (`writer`), with what its holder is about to send in `buffer` and what
the reader owes in `output`. `Flush`, `FlushSend`, `FlushLook` are
`flush_output`. Each frame handler that changes shared state is an action. The
server is a correct peer: `peer` is what has reached it and what it knows
acknowledged, `acted` what it did, `forsworn` what it has said it never will.
Receive windows, header blocks, trailers and statistics are abstracted; a
response comes in at most two parts.

**Fetch** is the loop of `fetch_hops` around the exchange: `Lookup` and
`FreshCopy` are `HttpCache::lookup` and what the loop makes of it; `Connect`
and `Receive` are `take` and `give` of the idle list, whose `expire` is inside
them; `Again` is the retry on a fresh connection (785-795); `Refresh`,
`RefreshGone`, `Follow`, `RefuseHop`, `Store`, `Hand` are what comes of an
answer (812-871). `Stale` and `Drop` are the entry's time running out and its
being evicted, cleared or unreadable. Callers' own validators, HEAD, cookies
and HSTS are left out, and a resource does not change.

**HttpCache** is `HttpCache` with its directory. A call holds `m_mutex` to its
end, so `Lookup`, `Refresh`, `Store` and `Clear` are one action each, with the
evictions they make; but the file operations they ask for (`work`) are steps of
their own, in the code's order, and no other call begins before they are done.
A body may be cut short, seen or not (`WriteFileBody`: what `ofstream` still
holds is written only as the file is closed, after 492-495 have looked), or not
be opened at all, a text may not be written (`MetaNotWritten`), a file may not be
removed (`FileStays`: `remove_files` looks at neither error, 533-534), and the browser
may die between any two operations (`Stop`); `Start` is `set_directory`: read the pairs,
remove what is not one, if it can (`LoneStays`). A response is known by the number of the store that
brought it, so an answer with the headers of one and the body of another shows.
Entries of the same second are evicted in any order, as a hash map leaves it.
**CacheStore** is what the cache promises: for each URL the last response stored,
whole, or nothing, and none that was replaced or forgotten ever again. Through
the refinement a URL in the course of being replaced is what its files say it
is, since that is what a restart would find. The code keeps no note of a file that
should have gone and is still there, so of such a URL it can promise nothing:
`spoilt`, a history variable, remembers which those are (a text that could not be
removed, a body that could not be opened over an older one), and the refinement
counts them as not held. What becomes of those is among the disagreements; the properties
say that the others are none the worse for it.

**IndexedDb** is one database, the storage every thread shares and the realms
that use it. A task of a realm's event loop is an action (`RunOpen`,
`RunDelete`, `WhenOthersClosed`, `Recheck`, `UpgradeDone`, `Start`, `Process`,
`Commit`, `Aborted`), `RunPending` the turn of the loop that takes what was
posted since, and what a page may do from any script of its own is another
(`FactoryOpen`, `Transact`, `Close`, `Abort`); `EndRealm` is `~IdbRealm`. What
an action posts joins its own thread's next turn or another's remote tasks
(`IdbLink::post`), so tasks of two threads interleave freely and those of one
keep their order. A listener is a script: operations placed, then a commit, an
abort or nothing. What a store holds is which transaction wrote it last, and
which of its writes. Left out: the versionchange event (it only informs, and a
page may close at any time here), the creation and deletion of single stores
and indexes within an upgrade, keys, indexes and cursors, `databases()`, failing
file writes, other databases (they share nothing but the mutex).
**AtomicDatabase** is what IndexedDB promises: a transaction changes what no
other is changing; its changes are in the database all at once when its page is
told it is complete, or never.

## Runs

All with two workers, each within three minutes.

| Run | Instance | Shows |
|---|---|---|
| `FetchPool` | 2 jobs, at most 2 threads, 2 takers | `GoneMeansAnswered`, `TakenOnce`, `WokenAfterAnswer`: each ticket's one answer, also through the destructor, and the loop woken since. `KeepsPromise`: the pool implements Tickets, liveness included. `EverybodyReturns`: takers, and the destructor |
| `ShellLoader` | 2 addresses, each prefetched and fetched in the background, 2 threads | `LoaderTypeOK`: the pool's two counters are exactly what they count, and a claimed ticket has its result. `WorkIsSpread`, `NobodySleepsOverWork`: no job waits behind another's work while a thread may start, or over a sleeper. `NoJobLost`, `OneClaimant` |
| `ShellLoaderBlocked` | the same | violated: see the disagreements |
| `ConnectionPool` | 2 fetches, a hint, 4 sessions | `ClaimsAreCounted`, `SleeperIsAwaited`, `ToldOfHttp1`, `OneOpensFirst`, `FailureIsFresh` |
| `ConnectionPoolLive` | 2 fetches, 3 sessions, origins forgotten | `EveryFetchEnds` |
| `Http2Session` | 2 requests, neither idempotent, a limit of one stream that rises; resets, GOAWAYs, bad frames, errors, lost connection | `IdsRiseOnTheWire`, `NothingStranded`, `ReplayIsSafe`, `SlotsAreCounted`, `DeadHasNoStreams`, `PeerNeverCountsTooMany` |
| `Http2SessionUpload` | an upload of 2 units and a request, SETTINGS that shut the limit or widen the window, `close` | `NeverOverrun`: DATA within both windows. `ExchangeEnds` |
| `Fetch` | 2 fetches (GET or POST), 2 URLs and a refused one, 1 redirect, 1 idle connection | `KeptUnderItsUrl`, `RoundsAreCounted`, `BodyGoesWithMethod` |
| `FetchVariants` | 2 GETs of one URL, 2 variants | violated: see the disagreements |
| `HttpCache` | 2 URLs, 3 stores of 2 kinds of response, a clock of 2 seconds, caps of one body and a half; bodies written short, seen or unseen, or not opened, texts not written, files not removed; deaths and restarts at any moment | `SumsAreExact`: nothing leaks from the two sums. `OverCapForOneOnly`: memory keeps to its cap. `RoomOnDiskFirst`: a store makes its room on disk. `FilesFollowEntries`: what a restart would read. `KeepsPromise`: it implements CacheStore, across restarts. The last two but for the URLs of files that stayed when they should not have |
| `IndexedDb` | a page and a worker on two threads; of an open, an upgrading open and a delete, 2 are made; a transaction each | `NobodyIsPassedBy`: an upgrade is alone, no connection in use is older than the database. `Isolated`: no transaction sees its stores change by another's hand. `KeepsPromise`: it implements AtomicDatabase. `EverybodyGoesOn`: nobody waits for ever, whichever realm has ended |
| `IndexedDbFile` | one page, two writers that share no store | violated: see the disagreements |

**Bounds, and why they are enough.** Two jobs on two threads are the least for
a notified thread to be counted as waiting by the next submit; the loader's four
make jobs queue behind two that run. With two fetches a hint adds a third
claimant, so a waiter can meet a second claim after its first came to nothing; a
session that nobody uses may stand for a new one, so one more than there are
threads is enough. Two requests under a limit of one stream are the least for a
slot to be waited for. `MaxId`, `MaxSettings`, `MaxFrames` and `Events` of
`Http2Session` bound what the server does in an instance; two uploads that share
the connection's window are beyond the instances (the window is the same
variable for one). `MaxRedirects = 1` leaves `Fetch` a hop taken, a hop refused
for being too many, and a round lost to a 304 at each. Caps of one body and a
half make every second store of `HttpCache` evict; three stores let a URL be
replaced and the other evict it or be evicted, before and after a restart; with
`MaxNow = 2` an entry can be older than another, be renewed and outlive its
freshness. `Failures` of `HttpCache` names how the operations on files may fail in
the instance, which has all four: bodies cut short, seen ("short") or not ("lost"),
bodies not opened ("unopened") and files not removed ("stays"); texts may always
fail to be written. A failed removal needs a store and the one that replaces it,
and the third is for the other URL. In `IndexedDb`, `MaxRequests` and `MaxOps` bound what the pages
ask for: two transactions of two operations are the least for one to be undone
across two steps while another waits. Symmetry is used only for invariants and
one action property or refinement without liveness, over threads, URLs, jobs and
sessions that nothing tells apart.

**Fairness.** A thread that can run does (`WF` of each thread's steps), and so
do the notifications it has yet to make. A fetch ends because its sockets have
timeouts; a stall timeout therefore comes if its wait goes on. The server owes
nothing. In `Http2Session`, once the connection is shut down or gone, what it
had still delivered runs out and the reader learns of it (`SF` of `Lost`).
Nothing is assumed of other origins' notifications. In `IndexedDb` the event
loops run as long as something is due (weak fairness of each loop, written out
by its effect on the loop's tasks); pages need do nothing, so a request may wait
for a connection its page keeps, and `EverybodyGoesOn` says only that it waits
for nothing else. `Fetch` and `HttpCache` claim no liveness: `RoundsAreCounted`
says more of the one, and calls of the other are finite sequences of steps.

Deadlock is checked in every run but the two of IndexedDb, where what pages ask for is
bounded and they need do nothing more; elsewhere, where everything has ended, the
model stutters by an action (`Over`, `AllOver`) that is enabled only then.

## Proofs

Each theorem holds for every value of the constants that satisfies the
assumptions their module names. These say what the code's own types give: sets
of threads, requests and URLs are finite, sizes and limits are numbers, one
thread at least may be started (`FetchPool.h`), and values that stand for
nothing (`None`) are nobody's. Where a theorem has a hypothesis of its own, it is
given with it below, with the reason.

**`FetchPoolProofs`**, for any number of jobs, threads and takers. That a result
is given once rests on a job being answered once, and that on its being in one
place: `Core` says that queue, destructor's list and working threads hold each
submitted and unanswered job once and nothing else (`Places`), which threads can
have been started (`Unstarted`), and what the destructor has emptied when
(`Phases`); `Takings` that a ticket that is done and empty has been taken by one
taker. They are apart because the loader's own takers keep `Core` and not
`Takings`. Whence

- `GoneAnswered`, `GivenOnce`, `NothingLost`: properties of the runs;
- `WokenSinceAnswer`: the action property, from what each thread carries
  (`Carrying`, inductive on top of the invariant);
- `TicketsSafe`: the initial states of the pool are those of Tickets and each of
  its steps is one of Tickets' or none. That every ticket ends stays with TLC.

**`FetchPoolCountProofs`** is about `m_waiting` and `m_outstanding`. `submit()`
compares the first with the length of the queue to decide whether to start a
thread (67-68), so a count that drifted by one would leave a job waiting behind
another's. `Tally`, inductive on top of `Core`, says that both numbers are the
sizes of sets of threads and jobs (`CountsAreExact`), that the jobs queued are no
more than the threads without work unless all are started (`WorkIsSpread`), and
that no job waits over a sleeper with nobody about to wake one
(`NobodySleepsOverWork`). The three need each other: the spread is kept because
the count is exact, the wake-up because a notification is owed for each job
submitted. Whence `CountersExact`, `WorkSpread`, `NobodySleeps`.

**`ShellLoaderProofs`**, for any addresses and jobs over any pool. `LInv` is
`Core` and `Tally`, which every step of the loader keeps (its own steps are the
pool's, or leave the pool's state alone), with `Claims`: a ticket nobody claimed
is in `m_ahead` or on its way into it, and in neither twice; a claimed one has
one claimant, and until it has taken the result nobody has. Whence
`LoaderTypesHold`, `ClaimedByOne`, `LoaderSpreadsWork`, `LoaderLosesNothing`, and
`LoaderTicketsSafe`: with the loader's claims in place of plain takers the pool
still takes only steps that Tickets allows.

**`ConnectionPoolProofs`**, for any number of fetches, hints and sessions. The
claims and waiters of an origin are counts kept across unlocks, so what must be
shown is that they are the counts of something: `ClaimsAreCounted` says of
which sets. That alone is not inductive. A sleeper must still have somebody to
wake it (`SleeperIsAwaited`), whoever holds a claim must be on the way to settle
it (`ClaimIsOpening`), and of those who hold one at most one took it without
having waited in vain (`FirstIsAlone`). The invariant

    IInv == TypeOK /\ ClaimsAreCounted /\ ClaimIsOpening /\ SleeperIsAwaited /\ FirstIsAlone

is preserved by every step (`StepKeeps`, one lemma for each family of steps;
`QuietKeeps` covers those that change neither claims nor waiters), whence

- `TypesHold`, `ClaimsCounted`, `SleepersAwaited`, `OneFirst`: the properties the
  run checks, for every instance;
- `FailuresFresh`: with the history of failures as a second invariant on top of
  the first (`FInv`), an error is only given to a fetch that was there when it
  happened;
- `ToldClaimNothing` (hypothesis: `~Forgets`): who was told that the origin speaks
  only HTTP/1.1 claims no HTTP/2 connection to it (`TInv`: whoever found that out
  has noted it before it settles its claim). `m_http1_only` is emptied when it
  is full, and an origin forgotten is asked again, as it should be; the run that
  checks `ToldOfHttp1` has none forgotten either.

**`Http2SessionProofs`**, for any requests, settings, limits and sizes, whatever
the server sends. `SInv`, with `WInv` on top of it, and on that `RInv` and
`QInv`, the latter below `Rooms` and `Crowd`:

- `SInv`: where each thread may be and what it holds there (`Stages`, `Holding`);
  `m_streams` are the requests with an id and no outcome (`Streams`), none in a
  session that died (`Dead`); `m_open` counts those and the requests that took a
  slot and have no stream yet (`Slots`). `NothingStranded` is inductive with
  these. Whence `SlotsCounted`, `DeadIsEmpty`, `NothingIsStranded`.
- `WInv`: ids are given in order under the write lock (`Ids`), every frame on its
  way is of a request with an id, and while the connection is up the one stream
  the server has not seen is the one whose HEADERS the lock's holder is about to
  write (`Wire`). What the server makes of a row of frames is a recursive
  function (`upto`); what is needed of it is shown of every prefix of the row, by
  looking at the shortest one of which it would not hold. Whence `IdsRise`, `SessionTypes`.
- `RInv`: the server keeps its word (`Word`), and each request let go to be sent
  again has its excuse (`Told`): doing it twice does no harm, the server has said
  it never will, it was never sent, or the connection never got to HTTP/2. Whence
  `ReplaySafe` (hypothesis: `IdsSuffice`, ids for all requests; for the reason see
  the disagreements).
- `QInv`: who has which frames in hand, a thread's own always behind what the
  reader owed (`Queues`), and that what is in hand and then what is owed bring the
  settings the server knows acknowledged to those last received (`Heard`). Every
  step leaves both alone, takes what is owed, or writes (`StepKinds`);
  `WriteTells` says what a write makes of the server.
- `Rooms`: what the server grants covers this side's windows and what a thread
  has reserved from them. Of a stream that is measured in the settings last
  received, of a chunk in its thread's hands in those it will find acknowledged
  when it arrives (`RoomAhead`). The chunks of all uploads are counted together as
  a set of units (`UnitsOf`). Whence `NeverOverruns`.
- `Crowd`: a stream the server counts is open here or its reset is in hand or
  queued (`Accounted`), and who has registered, or has its HEADERS in hand, has its
  slot once what goes ahead has arrived (`SlotAhead`, `SlotOnWire`). Whence
  `PeerNeverCrowded`.

Both of these have hypotheses on the server, which are behaviours and not constants:
`WindowsNeverShrink` for the first; `LimitNeverFalls` and `Patient` (no response
ends before the whole request has reached the server) for the second. Without them
the code does what the disagreements below describe. The servers of the two runs
satisfy them; what else they do (the other settings, resets, GOAWAYs, refusals,
errors, silence, a lost connection) is left free.

**`HttpCacheProofs`**, for any URLs, responses, caps and clock. `m_bytes` and
`m_disk_bytes` are sums over the entries, kept by adding and subtracting at a
dozen places. The sums of the model are folds over a set; that putting in one element
adds its size is shown of the smallest set of which it would not hold, with the
library's theorem that numbers are well-founded. On it rests

    CInv == Types /\ SumsAreExact /\ Capped /\ Apart /\ Ordered /\ Suits /\ TextsOf

where `Ordered` and `Suits` say which file operations can be ahead and in which
order (a removal is of a URL without an entry, a text follows its own body),
`TextsOf` what the texts will be once they are done, but for those that have stayed
when they were to go, and `Apart` that no
two URLs know the same response. The evictions are loops: what is
used of them is only that they let go of entries and queue the removal of their
files (`Shrunk`). Whence `SumsHold`, `CapHolds`, `RoomFirst`,
`FilesFollow`. With `BInv`, which says that each text has the body it names unless
its URL is `spoilt`,

- `CacheKeepsPromise`: the cache implements CacheStore, through calls, evictions,
  file operations that fail in any of the ways modelled, deaths between two of
  them and restarts. None of them is assumed away; a URL in `spoilt` counts as not
  held, and all others keep the promise whatever becomes of those.
  Each step is shown to change what a lookup would find of each other URL (`Seen`)
  only as CacheStore allows (`Change`), and to hand out no more than that
  (`HandsOut`).

**`FetchProofs`**, for any number of fetches, URLs and redirects (assumed: what is
asked is a GET or POST of a URL that may be fetched). The rounds begun are the
hops, the one that runs, and at most one lost to a copy that went (`RoundsFit`):
after it the fetch asks plainly, and a plain request gets no 304. That needs an
answer to fit the request still as it was sent (`ReplyFits`), which is also why
what is stored is of the URL the chain had come to. Whence `TypesHold`,
`KeptUnderUrl`, `RoundsCounted`, `BodyWithMethod`.

**`IndexedDbProofs`**, for any pages, threads, requests, plans and stores, with
upgrades, deletions, aborts and realms that end in the middle. A task or a call
is a chain of operations on the whole as it stands (a world), so the invariant
is one of worlds, `Good(w, x, M, P)`: `x` is the transaction being made or
taken out, `M` what belongs to an ending realm, `P` the tasks due. It says how the
schedule and the realms' transactions match, who runs (`ScheduleRight`), what a
transaction's undo log and saved database may hold (`TxRight`), how a connection's
count and the schedule match (`CountsRight`), that an upgrade's request is in front
and its connection the only one open (`QueueRight`, `DoorsRight`), and that each task
waiting is still good for something, those that act once only once (`TasksRight`);
the last is why it is needed: without it a `commit` or `done` could come for a
transaction long gone. Each operation has a lemma of what it does to a world
(`FinishRight`, `AbortRight`, `RunScriptRight`, ...), each loop over a sequence is followed by
`Climb` (its steps, one by one), the end of a realm by `Guided`, and `StepStays`
puts actions together. Whence `Inductive`, `TypesHold`, `NobodyPassedBy`;
and `IsolationHolds`, with what each step may do to a store (`Stepped`): an undo log
names only stores of its transaction's scope (`UndoIsItsOwn`), and of two started
transactions with a store in common neither may write it (`StartedApart`).

- `DatabaseKeepsPromise`: IndexedDb implements AtomicDatabase. `CommittedIs` says what
  is committed of a world without choosing anyone: an upgrade's saved database, or
  each store as the one undo log that names it has it first (there is one:
  `SoundChanged`). Each kind of step is an action of AtomicDatabase or leaves its
  state (`SteppedMoved`); aborts, ends of realms and transactions that have done
  nothing are one lemma (`UndidMoved`). It takes one invariant more, `Marked`: nothing
  in the database or committed is of a transaction not yet made, nothing committed
  of an upgrade under way. Otherwise an upgrade could write back what was
  there and seem to have changed nothing.

The names of the stores are assumed not to be `"version"`, the name AtomicDatabase's
`Parts` has for the version.

The inductive invariants were checked by TLC on the instances of the runs before
they were proved.

Every safety property of a passing run is proved, some under the
hypotheses named above. Only model-checked: all liveness
(TLAPS has no rule for fairness here), the liveness of Tickets with it.

## Where the code and its words differ

Three runs end in a counterexample that the code has too.

- `ShellLoaderBlocked`: `fetch_in_background` waits, on a pool thread, for a
  prefetched ticket that may still be queued behind it (`ShellLoader.cpp:562`,
  `655-656`). With all threads so, no fetch ends, though `FetchPool.h:51` says
  each ends "with its sockets' timeouts at the latest".
- `FetchVariants`: a 304 renews whatever variant the URL has by then
  (`Cache.cpp:285-290`), which `lookup` takes care to avoid (`Cache.cpp:270-271`).
- `IndexedDbFile`: a commit writes the whole database as it stands, with what
  transactions over other stores have written so far; when one of those aborts,
  it is undone in memory only, and the file keeps half of it until the next
  commit (`bindings/IndexedDb.cpp:1067`, `1122-1133`; `storage/IndexedDb.cpp:845-866`),
  though a transaction "commits [...] or aborts, undoing what it did"
  (`bindings/IndexedDb.cpp:11-12`).

Others were met while modelling. They show on small instances outside those of
the runs above (most are hazards of `PROJECT.json`):

- `remove_files` looks at neither of its errors (`Cache.cpp:533-534`). When both
  files of an entry stay, `clear()` has forgotten it in memory only, and the next
  start reads it back; `Cache.h:97` has `clear()` forget "everything, the directory's
  files included". (The property "what is held is of no store before the last
  `clear()` that returned" fails with "stays" among the `Failures`.)
- When a store cannot remove the old text, writes its body, and the browser dies
  before the new text, the old text names the new body, and the next start serves
  it with the old headers if it is long enough (546). `Cache.cpp:479-481` has a write
  cut short leave "a body no text names". There is a second way, with two failures in
  a row: a body stays without its text, its URL is stored again, the new body cannot
  be opened (489), and a later 304 writes the text for the old one. (`KeepsPromise`
  fails in both ways if `spoilt` is kept empty.)
- An entry that could not be written is in memory only. A 304 writes its text
  (`Cache.cpp:324-325`) and counts it as on disk (521-523), but only a store makes
  room there: until the next one the files may be over the "cap of their own" of
  `Cache.h:16-19`. (`diskBytes <= MaxDisk` fails between calls with two stores and
  memory for both.)
- `.meta.tmp`, the text written aside, is not removed by `clear()` when the
  browser died before its renaming.
- `bindings/IndexedDb.cpp:1366` has a request told it is blocked only after the
  others have seen versionchange; a realm on another thread may see it later.

- `Http2Session.cpp:331-333` promises that whoever lets go of the write lock
  looks for queued frames; the refused request at 789-796 does not, and an
  acknowledgement may stay while a connection going away still has streams.
- `Http2Session.cpp:808-810` has the RST_STREAM that frees a slot go first; after
  an early answer to an upload the slot is free (in `end_stream`) before the
  RST_STREAM is queued (877-885).
- The comment there would have the peer never count "one stream too many". A
  request that has its slot (780) when SETTINGS lower the limit does not look at
  the limit again (789): its HEADERS follow the acknowledgement of a limit that
  has no room for it. (With a limit of two that falls to one,
  `PeerNeverCountsTooMany` fails.)
- `Http2Session.h:12-14`: DATA "within the peer's windows"; a chunk reserved at
  850-853 is written behind the acknowledgement of a smaller initial window.
- `Http2.h:105-106`: as many CONTINUATION frames as the peer's frame size calls
  for; the size is read at `Http2Session.cpp:806`, ahead of an acknowledgement.
- `Http2Session.h:90-93`: Retry only for what was never processed; when ids run
  out (793) `m_goaway_last` is still 0, and the next GOAWAY (709) names every
  open stream. (With `MaxId = 1`, two requests and a limit of two, `ReplayIsSafe`
  fails; hence the hypothesis of `ReplaySafe`.)
- `Http2Session.cpp:287-288`: nothing sent before the server's SETTINGS was read
  as HTTP/2; the SETTINGS may only not have arrived when the connection was lost.
- `Connections.h:14-15`: "GET is the only method sent, so that is safe"; the retry
  at `Http.cpp:785-795` is made for every method.

## Not modelled, and why

In `HttpCache`, a text cut short only as its file is closed and renamed in place
all the same (`Cache.cpp:513-518`): the text is written whole or not at all. Nor a
directory that cannot be listed, or a pair of files that is there and cannot be read.

Some steps of the code are one step of a model where it has two, or are narrowed:

- `ConnectionPool`: an expired session found by `Look` or `Wait` is closed in that step;
  the code closes it after the unlock (`Connections.cpp:203-206`).
- `FetchPool`: a pool always has its `m_wake`; the null one is left out of `CallWake`.
- `ShellLoader`: claiming the prefetched ticket and beginning to take it are one step
  (`ShellLoader.cpp:556-562`).
- `Http2Session`: `close()` is one step where it has a `try_lock`, a section of
  `m_mutex` and the taking of the output (`Http2Session.cpp:172-193`); the reader handles
  one frame in each section, and the code all that have arrived before it notifies,
  flushes and looks whether the session goes away (366-382); the RST_STREAM for a
  stream no longer live is left out (405); the settings of one frame come into force
  together, where the code goes through them in turn (672-700).
- `IndexedDb`: every operation is made as soon as its turn comes; a cursor's steps are
  not (`bindings/IndexedDb.cpp:1003`).
- `ExchangeEnds` shows that a session out of ids ends. That the first GOAWAY is then
  compared with an `m_goaway_last` of 0 is among the disagreements above and in no
  run: `ReplayIsSafe` is checked and proved with ids for all requests.

Statistics, text of requests and messages, times (a timeout may come whenever
its wait is on), receive windows, header parsing and table sizes of HTTP/2,
windows beyond 2^31 - 1, what `IndexedDb` leaves out (above), and the components
the inventory marks so: pure functions over bytes are better served by the
vectors the tests already have. Layout, style, the JavaScript engine, parsers,
tables and the shell make up most of the source; they are sequential algorithms
over large data, whose correctness is a matter of what they compute and not of
orders of steps. WebSocket and the spelling service are not modelled yet.

## Plan

Done, in order: `FetchPool` and `Tickets`; `ShellLoader`; `ConnectionPool`
and its proofs; `Http2Session`; `Fetch`; `HttpCache` and `CacheStore`;
`IndexedDb` and `AtomicDatabase`; `FetchProofs`; `FetchPoolProofs` and
`FetchPoolCountProofs`; `ShellLoaderProofs`; `Http2SessionProofs`;
`HttpCacheProofs`; `IndexedDbProofs`. Next:

1. `SpellService`: the generation checked under the lock and the dictionary put
   in place after it (`SpellService.cpp:126`), the verdict cached after a change
   (206), settings saved meanwhile. Two loads, two checks. Property: in the end
   the last choice is in place and no verdict outlives its dictionary.
2. `WebSocket`: page thread and reader closing at once (`WebSocket.cpp:467-519`).
   Properties: one close frame, nothing after it, both threads end.
3. In `Fetch`: callers' own validators, resources that change, and the variants
   as an abstract cache that `HttpCache` implements.
4. In `IndexedDb`: the creation and deletion of stores within an upgrade, file
   writes that fail, cursors.

To check a run: `tlc -config <run>.cfg <MC module>`; to check the proofs:
`tlapm <module>Proofs.tla`.

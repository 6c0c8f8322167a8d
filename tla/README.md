# Verification of substate-admin

TLA+ models of the concurrent core of substate-admin, checked by TLC on small
instances, with theorems proved by TLAPS for every value of the constants.
`PROJECT.json` holds the index: which definition models which lines, which run
checks which property, which fault of the code each property would catch.

## The system

One uvicorn worker runs a FastAPI application on one asyncio event loop, over
PostgreSQL at READ COMMITTED. Beside it there are short-lived processes (the
`cli.py` commands run by a deploy or a timer) and one browser tab per person (a
Vue application). An external library, the `substate` engine, runs the
subscriptions of a *world*; worlds live in the memory of the process, what they
emit lives in the database.

| Component | State | Operations | Talks to |
|---|---|---|---|
| Refresh tokens (`security/refresh.py`, `routers/auth.py`) | `refresh_tokens`, `users.is_active` | login, refresh, logout, prune | database; each request its own transaction, the pruning command its own process |
| World registry (`worlds/registry.py`) | `_worlds`, `_unpurged`, expiry and ceiling of each world, its sink, its lock | create, extend, drop, purged | called by the door, the resolver, the reaper |
| Sandboxes (`demo/sandboxes.py`, `routers/demo.py`, `deps.py`) | a world in memory and its rows: operators, journal, projection, audit | open, extend, use, reap | registry, database, access tokens |
| Ticker (`worlds/ticker.py`, `main.py`) | one task: sleep, collect every other round, tick every world, record | `run_ticker`, `collector`, `recorder` | registry, sink, database |
| Base world and sweep (`worlds/bootstrap.py`, `worlds/journal.py`) | `base_world_status`, rows of worlds that no longer exist | build, repair, `purge_orphans` | registry, database |
| Journal and audit (`worlds/journal.py`, `audit.py`) | `event_journal`, `audit_log`, `subscriber_view` | `perform`, `flush_world`, `rewrite_projection` | sink, database |
| Clock (`routers/clock.py`, `worlds/clock.py`) | the world's offset, the projection | `advance` | `world.lock`, engine, sink, database |
| Permissions (`deps.py`, `routers/roles.py`, `cli.py`) | `role_permissions`, `_cache`, `_generation` | load, create, replace, delete, sync | database; other processes cannot invalidate |
| Access tokens (`security/tokens.py`) | none | encode, decode | |
| Rate limiter (`security/ratelimit.py`) | a table of deques of times, one for each rule and key | hit, reset, sweep, evict | login, refresh, the demonstration's door |
| The desk (`routers/subscribers.py`, `subscribers/`, `routers/audit.py`, `routers/users.py`) | the engine's records, references filed, `event_journal`, `audit_log`, `users` | subscribe, cancel, change-plan, redeem, payment, referral-program; list, detail, feed, audit | engine, sink, `audit.perform`, database |
| Seeder (`seed/run.py`, `seed/activity.py`) | a population: who was asked about a renewal, last activity, who is quiet | seed a history, carry on, take stock | engine, world clock, projection |
| Analytics (`analytics/movements.py`, `analytics/standing.py`) | none | funnel, flow, revenue, states, quiet | journal, engine's records |
| Session client (`frontend/src/api/client.ts`, `stores/auth.ts`, `session.ts`, `main.ts`, the login, demo-ended and frame views) | token, demo flag, kept pass, exchanges under way, who is signed in, the screen | bootstrap, request, refresh, renew, sign in, try the demo, sign out | the routes of `auth.py` and `demo.py`, every guarded route |

What makes it hard:

- *Interleaving at every await.* Between two awaits the loop runs other requests
  and the ticker; memory (registry, sink, clock, cache) is shared by all.
- *Memory is not transactional.* A rollback undoes rows, not the engine, not the
  registry, not a drained sink.
- *READ COMMITTED.* A statement sees what is committed when it starts; an UPDATE
  waits for locks and looks again at the rows it chose, never at new ones.
- *Failures.* Every statement and every commit can raise; a commit may have
  happened although its answer was lost; the process restarts and every sandbox
  is gone while its rows are not.
- *Other processes.* Pruning and `sync-permissions` share the database alone.
- *A browser that hears half of it.* Answers are lost, given up with the screen that
  asked, or come after a deadline stopped waiting, while several requests share one
  exchange of a credential that must not be spent twice.

## The modules

| Module | Models | Proofs |
|---|---|---|
| `TokenLedger` | *abstract*: what the token table promises | |
| `RefreshTokens` | the token table, transaction by transaction | `RefreshTokens_proofs` |
| `Sandboxes` | worlds, their rows, the door, the ticker, restarts | `Sandboxes_proofs` |
| `EventLog` | *abstract*: what a world's journal promises | |
| `Journal` | one world's sink, journal, audit, lock and winding | `Journal_proofs` |
| `Permissions` | role edits and the cached snapshot | `Permissions_proofs` |
| `SlidingWindow` | *abstract*: what a rate limiter promises | |
| `RateLimiter` | the table of counters and the routes that ask it | `RateLimiter_proofs` |
| `Engine` | the subscription engine, an external library | |
| `SubscriberTable` | the list query and the standing figures, as operators | |
| `Desk` | operators at one world, the ticker, somebody paging | `Desk_proofs` |
| `Analytics` | the figures counted from the journal, as operators | |
| `Seeder` | a world's history and its windings, day by day | `Seeder_proofs` |
| `SessionClient` | one tab of the panel and the service's answers | `SessionClient_proofs` |
| `MC_*` | the small instances TLC runs | |

In the modules of the service a *request slot* carries a program counter that names the
statement the handler is about to run, and the locals it has read. One action is
what runs between two waits; all database writes of a transaction become visible
in its commit. Definitions marked *Fault* are bugs the code could plausibly
have; no specification uses them, they exist to show that each property would
notice.

**RefreshTokens.** `row[t]` is the committed row of token `t`; what a request
has written and not committed is `req[r].consumed` and `req[r].replayed`, which
are also its row locks. `Load`, `Consume`, `Reread`, `MarkReplayed`,
`SelectRows` and `Revoke`/`Exchange` follow `rotate` statement by statement. An
UPDATE is split into choosing rows (`SelectRows`) and, once the locks are free,
asking its WHERE again and committing. `parent` and `by_grace` are history
variables inside the row. The grace window, expiries and retention are parameters.

`TokenLedger` says what all this amounts to, without statements, locks or snapshots: a ledger
of tokens, each live, spent (since when), replaced, named as replayed or ended, and seven
operations, each one step. The table implements it through `Entry`, which reads a row's columns
as one entry. A request's transaction is then one operation at its commit, or none if it rolls
back, as of the moment at which it read the clock. Two instances say two things. `ImplementsLedger` holds
however requests overlap: a revocation may miss tokens that an overlapping exchange has not
committed (`Reach`), and a retry that began before its session ended may finish after; but no
token is exchanged twice as fresh, none is spent without its successor, and every ceiling is
its login's. `ImplementsSessions` holds while exchanges do not overlap: every operation finds all the tokens it is
about, and a token whose session was ended opens nothing.

**Sandboxes.** `standing` and `unpurged` are the two dictionaries of the
registry, `rows[w]` what is committed of a world by table, `pass[w]` the expiry
of the newest pass. `loop` is the ticker with the pass it is in. The repair's
sweep is one transaction of several DELETEs, each with its own snapshot
(`SweepUsers`, `SweepJournal`, `SweepRest`). An audit row references its actor,
so an operation that commits after its world was purged is refused by the
foreign key: `Commit` is guarded by that. The base world is only
`seeded`, the status that decides whether a repair is owed.

**Journal.** Events are numbered as the engine emits them. Each is in the sink,
in an open transaction, in the journal, or lost with a rollback. `queue` is
`world.lock`, first in first out. `projection` counts committed rewrites, so that
a COPY after a foreign commit is a duplicate key. `EventLog` says the same of the events without
requests, ticker or lock: they leave in batches, a batch is all that was waiting, is written whole
with the audit of what operators asked for in it, or is lost whole, and what an operator asked
for never waits. `ImplementsLog` maps the sink to what waits and the open transactions to the batches.

**Permissions.** `version` counts commits that changed what roles grant; a read
is the version it saw. `doomed` is what the DELETE of an edit in progress will
remove, kept up to date while other edits commit.

**RateLimiter and SlidingWindow.** `hits` is `_hits`, a deque of times for each
counter held; a counter is a rule and a key. `Hit` is one call of `hit`: sweep, cut to
the window, decide, make room, record. `Login` counts the machine and `CountEmail` the
address, and nobody runs between them (`busy`); then the login waits for the lookup and
the password, and others run. `ClientIp` is `client_ip` with every way a request comes in
(through the proxy or past it, with any header, in either spelling of an address).
`SlidingWindow` says the same without deques: it knows at every instant exactly which
events are inside each window, and may forget a counter only by a reset, a restart or an
eviction of the least recently touched. `ImplementsWindow` is the refinement, with
`live <- LiveNow` (what a cut of the deque would leave now) and `touched <- TouchedNow`.

**Engine, SubscriberTable, Desk.** `Engine` gives for each call what becomes of a
record, what is emitted and whether it was refused; `SubscriberTable` turns the records
and the projection into rows, filters, orders and cuts them. `Desk` runs the six
operations through `_operate`: `Ask` opens the transaction with the lookup of the
operator, `Operate` runs the engine and drains the sink in one step, `Commit` or `Fail`
ends the transaction, `Show` rebuilds the card for the answer. `Fail` is a 500 of any kind:
rolled back, committed although the call raised, or committed and then without a card. Journal and audit number
their rows from one sequence (`seq`). Beside them `Tick`, `Record`, `Elapse` and `Hire`
run, and one reader opens a feed, the audit or the list of operators on some page and
goes on to the end, with the count and the page as separate statements where the code has
two. What one tick brings down comes in any order of the subscribers. A page is what stands
at its ranks, newest first, `seq` within an instant (`Rank`, `Pages`): the order is total, so a
statement has one answer. `Booked` says what of a request stands in the journal.

**Analytics, Seeder.** `Analytics` extends the table with the figures. `Seeder` lives a
history: `OneDay` is `_one_day` (who comes; `Spend`, what everybody decides, and the tick),
`TakeStock` is `_take_stock`, `CarryOn` a winding, `Elapse` and `Tick` what happens between.
Whatever the code draws from its random streams is a choice. `rolls`, `arrived` and `lives`
are history variables: the decisions about renewals, the moments of arrival, and who came,
went and paid, told by the records and not by the events, so that the figures are compared
with something they are not computed from.

**SessionClient.** `tab` holds the variables of the client and the store and the
screen, `call` what each caller is about (the opening exchange, the screens' reads and
writes, the form, the demonstration's button, sign-out), `shared` the exchanges under
way. JavaScript runs to its next await, so a step is an answer (or its loss, or a press)
and *everything* a settled promise resumes: each function of the code is an operator from
what the tab holds to what it holds next, and the handler of an answer is their
composition (`Answered`, `Renew`, `Concluded`, `Settled`, `Granted`, `Rejected`). All who
wait for an exchange hear its end in the same step: who waits for a session sends its request
again or is refused (`Again`, `Denied`), each changing its own call alone, and the start
goes on last (`Settled`). An exchange is named by who began it and where, because the signal
of who began it is what can cut it. `history` notes what exchanges spent and were
heard of. The service is reduced to tokens that are minted, run out and end
(`RefreshReplies`, `DoorReplies`, `ReadAnswers`); their table is `RefreshTokens`' and
`Sandboxes`' matter.

### Assumptions on what is not in this repository

- The engine and its in-memory storage never suspend, so an engine call is one
  step; it emits any events or none (`Journal`) or the ones of `Engine` (`Desk`,
  `Seeder`). `Engine`'s rules are read off what this repository uses, tests and explains
  of them. An exception of the engine that is not a refusal is not modelled.
- PostgreSQL behaves as documented at READ COMMITTED: statement snapshots, row
  locks until the end of the transaction, the WHERE asked again after a wait.
- Random identifiers do not repeat.
- `Sandboxes`: no request is in flight for a sandbox's whole hour.
- `RateLimiter`: the wall clock never steps back. Caddy replaces `X-Forwarded-For` by
  the address of its peer (`deploy/Caddyfile:108-117`); that uvicorn's `--proxy-headers` may have
  put the same address in place of the peer already is left out.
- `SessionClient`: one thread; `fetch` rejects a request whose signal is aborted; the
  query library aborts the signals of reads when its cache is cleared or their screen goes,
  and has none for writes.

### Abstractions worth knowing

- `Sandboxes`: the order in which the reaper purges worlds is any order; the code's is
  that of random ids. The door reads its instant before `_standing`'s await, the model in
  that step.
- `RefreshTokens`: `Logout` finds the family and starts the UPDATE in one step: a token's
  family never changes. Row locks are taken when the statement is done, not one by one;
  the module's comment says why this loses nothing.
- A commit whose answer was lost is decided by then: it does not take effect later.
- `Desk`: no promotion code with a subscription, a discount does not change the price of
  later payments, an audit row is its action, target, outcome and code. `PagesAreCut` is
  looked at when every request has been answered, for each order and each filter.
- `Seeder`, `Analytics`: users are independent of one another, so one shows what a day can
  do; referrals, partners and names are left out; a plan's grace is longer than a day and the
  real time that goes by (`GraceAssumption`; the catalogue's shortest is five days). Time is UTC, and the calendar does not
  end.
- `SessionClient`: a call carries the bearer and the cookie of the moment it was sent and
  is served when its answer comes or is lost; what is given up first was not served. An
  error that says nothing about the session is a loss to an ordinary call; only for an
  exchange is it told apart from silence, as in the code. Retries of a 5xx by the query
  library are further reads. A reload of the page is a new initial state. What the tab no
  longer holds may end unseen.

## The runs

| Run | Instance | Shows |
|---|---|---|
| `refresh_race` | 3 tokens, 2 requests, 1 family, grace 0, clock to 2 | five properties under all interleavings of two requests, and the refinement of `TokenLedger` |
| `refresh_serial` | 4 tokens, 1 request, 2 families, pruning, clock to 3 | the promises that need requests not to overlap, and the refinement of `TokenLedger` with `Serial` |
| `sandboxes_race` | 2 worlds, 2 requests, 1 slot, clock to 3 | slots, orphan rows, reachability, expiry |
| `sandboxes_life` | 1 world, 1 request, 1 restart, clock to 4 | collection at the ceiling, rows gone in the end |
| `journal` | 3 requests, 2 events, 2 days | events, projection, liveness, and the refinement of `EventLog` |
| `journal_wind` | 3 requests, 2 days | *violated*: the winding bound |
| `permissions` | 2 requests, 1 role, 1 code, 3 edits, clock to 2 | an answered edit holds, staleness is bounded |
| `limiter` | 2 machines, 2 logins, 1 address, a table of 2, two ticks a second, clock to 3 | the table's bound, honest waits, who is charged, and the refinement of `SlidingWindow` |
| `desk` | 3 subscribers, 2 requests out of 10, 5 walks of a reader, pages of 1, clock 10 to 11 | answers and books agree, money counts once, pagers skip nothing, pages are cut |
| `living` | 1 subscriber, a history of 3 days and windings to 5, 2 ticks of real time | renewals are ruled once, activity never un-happens, figures add up (with one subscriber a count of people is 0 or 1) |
| `tab` | a read and a write, 3 tokens, 1 press | nothing is spent twice, each session renews at its door, silence ends nothing, the page comes up |
| `tab_swap` | a read, 2 tokens | *violated*: a demonstration is one world to its end |

Why the bounds are enough to be interesting. A double submit, its
grace rotation and a replay need three tokens and two instants. One slot and two
worlds make every build compete, and a clock that reaches the ceiling makes
renewals collide with collection. Three requests are needed for one winding to
run and two to wait on it. A table of two counters is full with the first login, so that
every further key evicts; two ticks a second make the rounding of a wait visible. The desk's
menu has every operation, a reference sent twice and to two people, a spent code, a
subscriber nobody knows, and a period that ends on the second tick; any two of them, or one
and a reader, run together, and the reader starts also past the end and with a filter. Three
days reach a renewal, two more a winding over it. A read and a write in one tab expire
together, and one of them can be given up; three tokens are a kept session and two
exchanges. The clocks, `MaxEvents`, `MaxVersion`, `MaxRestarts`, `MaxActors`, `MaxUsers`,
`MaxDays`, `MaxWall`, `MaxTokens` and `MaxPresses` are the only bounds, each a guard of one
action.

Three properties that a refinement implies are proved and not looked at by a run of their own:
`OneCeilingPerFamily` (a ledger's token is issued under the ceiling its login set), `PrunedTokensAreSpent`
(the ledger forgets only what is past its expiry) and `AuditedTogether` (a batch is written with its audit).

Deadlock is checked in the runs of the tokens, sandboxes, journal, permissions and limiter. It
is not in `desk` and `living`, where every behaviour ends when its bounds are used up,
nor in `tab` and `tab_swap`: a tab on the sign-in screen whose presses are spent rests.

Liveness is checked without symmetry. `CeilingComes` is stated for worlds that
reach their ceiling within the clock's bound, and the clock itself is not fair.

### Fairness, and why the code justifies it

- Weak fairness of a request's steps: the loop resumes a coroutine whose
  statement was answered, and a statement is answered or raises.
- Weak fairness of the ticker: `run_ticker` loops for ever and every failure
  inside it is caught (`ticker.py:62`, `ticker.py:115`).
- Strong fairness of `PurgeWorld` and `SweepRest` (`Sandboxes`) and of `Connect`
  (`Journal`): the database is not unreachable for ever. Without it a failing
  purge may be retried without end, and nothing is promised.
- In the tab, weak fairness of `Deadline` (a timer fires) and of the answer or the failure of
  what the start asks after it. The opening exchange itself may hang for ever: that is what
  the deadline is for. `me()` has no deadline of its own (`auth.ts:87`, `auth.ts:108`), so
  that a request on a live connection is answered or fails is assumed, not
  shown.

Nobody is assumed to press anything: `Refresh`, `Login`, `Resolve`, `Perform`
and the like carry no fairness.

## What was found

Two statements of the repository are shown not to hold of the code, each by a *violation* run
with a trace; `PROJECT.json` quotes them.

- `journal_wind`: presses that queue on a world's lock have all read the allowance before
  it, and wind past it one after the other.
- `tab_swap`: a demonstration used to its ceiling. Its pass runs out no later than the world
  (it is cut to whole seconds), and an expired pass is answered with `TOKEN_EXPIRED` before
  anybody looks for the world; the panel renews with it, the door takes it for no
  pass, and the visitor is in another world, with the ended screen never shown.

Further statements do not hold either, of which the models have the behaviour and no run of its
own:

- Two overlapping grace rotations fork a family: each supersedes the leaves it can see
  (`refresh.py:527`). `OneLiveTokenPerFamily` is therefore checked with one request.
- A token superseded just before a logout is judged by its own reason and rotates in a family
  that "stops working" (`refresh.py:337-341`). `EndedFamilyStaysDead` is about families in
  which no token's recorded reason is still `superseded`.
- A sandbox opened while a repair sweeps loses the rows it has committed by the time each
  DELETE runs (`bootstrap.py:81`, `journal.py:79`).
- A pass may run out up to a second before its world's ceiling (`tokens.py:98` against
  `routers/demo.py:15-17`).
- Two overlapping edits of one role may leave the union of what they sent (`roles.py:93`).
- Read from the code and not modelled: while a repair waits for its connection its new world is
  already the registered one. A request that drains its sink (`audit.py:135`) and commits before
  the repair's DELETE (`bootstrap.py:80`) takes the history with it: the repair then drains
  nothing and reports `seeded` over an empty journal, which `bootstrap.py:77-79` sets out to
  prevent.
- "Try the demo" pressed with a run-out pass in the tab (its welcome was lost) builds a world,
  and a request answered `TOKEN_EXPIRED` at the same time renews with the same pass and builds
  another (`client.ts:234`, `LoginView.vue:123`). `SpentOnce` is about exchanges: whoever presses
  the button asks for a world.
- In the tab, a late refusal of the opening exchange drops the token of the demonstration that
  has taken over meanwhile (`client.ts:203`), and an error of the proxy during a
  restart is a refusal to the client (`client.ts:201-205`) although `client.spec.ts:264-266`
  means a restart not to sign anybody out.

## Proofs

The theorems hold for every number of requests, tokens, families, worlds, machines, roles
and codes, subscribers, operations, pages, presses and days, every length of a period, and without
using the bounds on clocks and counters, but for one that *Seeder* below names. They are safety theorems about the same `Spec` the runs check. Each
proofs module has the shape: what a helper returns, one lemma per action that the
inductive invariant survives it, `Inductive`, and the theorems drawn from it.

| Module | Theorem | Property |
|---|---|---|
| `RefreshTokens_proofs` | `TypeCorrect` | `TypeOK` |
| | `Inductive` | the inductive invariant `IInv` |
| | `EvidenceIsFinal` | `HistoryIsFinal` (an action property) |
| | `NoFalseAlarm` | `AlarmNeedsEvidence` |
| | `GraceBounded` | `GraceIsBounded` |
| | `ExchangedFreshOnce` | `FreshOnce` |
| | `PruningIsHarmless` | `PrunedTokensAreSpent` |
| | `CeilingNeverMoves` | `OneCeilingPerFamily` |
| | `TableImplementsLedger` | `ImplementsLedger` (`TokenLedger` is implemented) |
| | `SessionsSurvive` | `FamilyKeepsALeaf` |
| | `OneLiveTokenSerially` | `OneLiveTokenPerFamily`, with one request slot |
| | `EndedStaysDeadSerially` | `EndedFamilyStaysDead`, with one request slot |
| | `TableImplementsSessions` | `ImplementsSessions`, with one request slot |
| `Journal_proofs` | `TypeCorrect`, `Inductive` | `TypeOK`, `IInv` |
| | `NothingLostTwice` | `EveryEventOnce` |
| | `JournalIsExplained` | `AuditedTogether` |
| | `OneWindingAtATime` | `NoDuplicateKey` |
| | `JournalImplementsLog` | `ImplementsLog` (`EventLog` is implemented) |
| `Permissions_proofs` | `TypeCorrect`, `Inductive` | `TypeOK`, `IInv` |
| | `EditsAreSeen` | `AnsweredEditsHold` |
| | `StalenessIsBounded` | `StaleAtMostTTL` |
| `Sandboxes_proofs` | `TypeCorrect` | `TypeOK` |
| | `SlotsNeverExceeded` | `SlotsBounded` |
| | `NoRowsAreOrphaned` | `NoOrphanRows` |
| | `SlotsAreReachable` | `StandingIsReachable` |
| | `CeilingNeverPassed` | `CeilingHolds` |
| | `CollectedOnTime` | `CollectedWhenDue` (an action property) |
| `RateLimiter_proofs` | `TableStaysBounded` | `TableBounded` |
| | `EveryoneIsChargedAlone` | `ChargedToItsSender` |
| | `Typed` | `TypeOK` |
| | `EveryWaitIsHonest` | `WaitIsHonest` |
| | `EveryAttemptIsCounted` | `AttemptsAreCounted` |
| | `TableKeepsThePromise` | `ImplementsWindow` (`SlidingWindow` is implemented) |
| `Desk_proofs` | `TypeCorrect` | `Typed`: records, events and numbers are well formed |
| | `AnswersMatch` | `AnswersMatchTheBooks` |
| | `PaymentsCount` | `PaymentsCountOnce` |
| | `PagersSkip` | `PagersSkipNothing` |
| `SessionClient_proofs` | `CredentialsAreSpentOnce` | `SpentOnce` |
| | `DoorsMatch` | `EachRenewsItsOwn` |
| | `SilenceIsHarmless` | `SilenceEndsNothing` (an action property) |
| | `WaitersAreTold` | the safety half of `EverybodyGoesOn` |
| `Seeder_proofs` | `Invariance` | the inductive invariant `IInv` |
| | `RenewalsRuledOnce` | `RenewalsAreRuledOnce` (an action property) |
| | `HonestMarks` | `MarksAreHonest` (an action property) |

**RefreshTokens.** Assumed: every family has an owner (`OwnerAssumption`), the null
values are no tokens and no families (`NullAssumption`), periods are naturals and
the two lives positive (`PeriodAssumption`). No property is inductive, because a
request acts on what an earlier statement of its own told it while others commit in
between. `IInv` therefore says, for each stage a request can be in, which of the
things it read still hold: either it holds the row's lock (`LocksOK`: at most one
request does), or the fact is about a column that never changes again (`RowOK`). That
no column changes twice is itself a lemma about every step (`RowsAdvance`), and
`EvidenceIsFinal` is its public form. Given `IInv`, `FreshOnce` and `FamilyKeepsALeaf`
are kept by every step as they stand. Two theorems need more: that what is pruned was past
its expiry (`PrunedExpired`), and that a login's family is new while the login is under way
(`LoginsMintNewFamilies`, in `CeilingInv`).

`TableImplementsLedger` needs what `IInv` does not say: that at its commit a request's operation is
still justified, although it judged the row some statements ago. `KnowsOK` is that knowledge: its
token was not past its expiry at the request's moment; who is about to retry knows a spending at most one
window old (`SpentWithin`), who is about to raise the alarm one that is older or already named
(`SpentBefore`), and who revokes without naming the token knows it is closed. `SpentIsFinal` keeps it
through the steps of others, because the time a token was spent never changes again. Then
each commit is shown to be its operation (`LedgerCommit`), by comparing the entries
of the row it writes; every other step leaves all entries as they were. Without `KnowsOK` the
refinement cannot be proved: `IInv` allows a request to retry on a verdict of any age.

Three theorems are about exchanges that do not overlap, and say so: they assume `OneSlot`, that
there is one request slot. Without it both statements are false (see *What was found*); with it
the rows an UPDATE chose are still all the rows its WHERE matches when it commits, which is the
first half of `SerialReq`. The second is that whoever is about to supersede or exchange found
its family alive: not ended, or shortened by a rotation whose window may still be open.
`DeadStaysRevoked` closes the circle: in a family that is not alive every stored token
is revoked. `TableImplementsSessions` adds `SerialKnows`: nobody has ended the session between a verdict
and its commit.

**Journal.** Assumed: `JournalAssumption`, the two limits are naturals and the clock
may be wound at all. `IInv` has three parts. `Events`: each emitted event is in the
sink, in one open transaction, in the recorder's hands, in the journal or lost, and in
one of them only; a request that has not drained holds none. `Audit`: of what operators
asked for, a request holds only what it emitted itself, and the sink and the recorder hold
none - because the engine does not suspend, an operator's events never wait
in the sink. `Lock`: the queue of `world.lock` lists each waiting request once, who is
under way stands at its head, and a COPY sees the projection its DELETE saw. Without
the first clause of `Lock` a request could be handed the lock twice; without the last
`NoDuplicateKey` is not inductive. `JournalImplementsLog` needs one fact more (`OwnTaken`): what a
request produced itself is in what it drained. With `Audit` it makes the audit row of a
transaction cover just the events of its batch that operators asked for; that no two transactions
hold the same batch (`BatchEnds`) is `Events`.

**Permissions.** Assumed: `PermissionAssumption`, the TTL is positive. What a request is
answered from is decided when the table is read, so the invariant is about reads still
under way. `Owed`: a read whose generation is still current has seen every answered edit,
and whatever a read missed was committed after its request began. `Kept`: the
snapshot inherits both when it is installed, the second as "committed less than a TTL
before the snapshot expires". `EditsAreSeen` is the first, `StalenessIsBounded` the
second with a count of the versions that are older than a TTL.

**Sandboxes.** Assumed: `SandboxAssumption`; its least obvious clause,
`2 * SECOND <= SANDBOX_CEILING`, makes sure that a pass cut to whole seconds still has an
expiry. `IInv` has, besides the types: `Timed`, a world's expiry lies between its last use's
hour and its ceiling; `Young`, a request is younger than a TTL (the assumption above, a guard of
`Tick`), so that the world it is building is alive and in the registry; `Alone`, no two
requests build one world, so that a failed build drops only its own; `Rounds`, what the ticker
has on its list is held, and what a sweep has doomed covers every row of a world that is
not; `Slots`, the count itself. `NoOrphanRows` leans on all but the last: a commit that comes
late finds its world held or is refused.

**RateLimiter.** Assumed: `LimiterAssumption`. `IInv` has the bound of the table (`Held`),
kept by `_make_room` because a batch is never empty and eviction is only skipped when there
is room; that what was charged is the sender, by the lemma `KeyIsSender` over every spelling
and every way in; and `Sound`: every deque held is in order of time, not empty, no longer than
its limit, and its last event is not in the future. From that, `KeptIs` and the lemmas
after it say what popping from the left leaves: the events inside the window, in their
order, and cutting twice is cutting once at the later instant. `HitIs` sums a whole call
of `hit` up in terms of what is live, and all that follows rests on it:
`EveryWaitIsHonest`, because the oldest live event is what `retry_after` is measured
from; the refinement, because a counter that `_sweep` or an eviction drops is empty or the
least recently touched; `EveryAttemptIsCounted`, whose invariant `CountInv` gives each login
under way an event of its own in its address's deque (an injection, so that two logins of one
instant count as two).

**Desk.** Assumed: `TermsAssumption`, periods, trials, grace and prices are naturals;
`DeskAssumption`, whatever tables there are to begin with are finite and well formed, the
rows in them are nobody's who is about to ask, and a page has at least one row. First each
operation of `Engine` is shown to leave a well-formed record and events
(`OutcomeType`), and which of them can record a payment. Then three invariants.
`BooksOK` follows a request from the engine to its answer: what it drained ends with what it
produced itself, after what the ticker left (`OwnLast`); its draft holds just its own and the
ticker's rows, numbered without a gap (`Draft`); once committed (`CommittedBooks`) journal and
audit agree with what it answers, or would have (`Audited`, `Booked`), so that a 500 has left all
of it or nothing. `MoneyOK` is about `filed`, the engine's guard: it knows
every filing handed in, and of the requests with one filing exactly one was recorded as
money; that nobody else's step changes it is `SameMoney`. `WalkOK` is why offsets are safe
here: whatever was there at the start and was not yet shown ranks at or below the page reached,
since rows only come, so ranks only grow (`RankGrows`), and a page takes all ranks of its
window. It fails for the list of operators when somebody is hired between two
statements, which `PagersSkipNothing` excepts.

**SessionClient.** Assumed: `ClientAssumption`, the names of callers are distinct and `None` names
nothing. The invariant speaks of the tab as one record, `Here`, so that it can be said of
the intermediate states of one JavaScript task too: each function of the client has a lemma that it
keeps `Sound`, and a step is the composition of them. `Sound` says that what the tab and the
exchanges under way hold is a token of the kind it is taken for and spent by nobody
(`TabOK`, `SharedOK`); that there is one exchange at a door at a time (the two promises
of `client.ts`); that while the start goes on nobody else is about anything (`Starting`): the page
is not mounted; and that a token kept for a reload is the one held (`KeptOK`), once the start has
decided what it is. `SoundGrows` lets the service mint meanwhile. Without "spent by nobody", said
of the cookie in the jar too, `SpentOnce` is not inductive; without one exchange at a door the answer
of one would find another still carrying the same credential. `WaitersAreTold` needs a second
invariant (`Waits`): in the middle of a task callers may wait for an exchange just ended,
the set `D`, and at its end for none of them.

**Seeder.** Assumed: `SeederAssumption`, the windows are pairs of naturals in their order;
`TermsAssumption`, `CalendarAssumption`, as in the run; and `GraceAssumption`: a plan's grace
is no shorter than a day and the real time that goes by, `MaxWall`. That one is about the
second half of `RenewalsAreRuledOnce`: were grace shorter, somebody whose period ended behind
a day could have lost access before they cancelled on it, and their cancelling would be
nothing. `IInv` says of everybody who has come: their record is one the engine leaves, in
which nothing but the next boundary lies ahead (`Lasting`); the renewals they were asked about
come one after the other, the last no later than the period they have (`Asked`), because a
paid period only grows (`Extends`); `ruled_on` holds that last one (`Remembered`); whoever is
active has a period beyond the last day run or tick (`Ahead`), so that it ends on a day that
asks; and they have lived no longer than since they arrived (`LivesOK`). From `Asked` and
`Remembered` no renewal is asked about twice, though only the last is kept: the one
asked about next is another, so it is later. `Makes` sums up what a day may make of a record;
`OneOfThem` draws both halves from it. `HonestMarks` rests on `SeenWhen`, what clipping a window
to a life and then to `FRESHEST` leaves of it.

**Induction.** The library's induction theorems take an operator as a parameter and cannot be used
here. `Least` (a set of naturals with a member has a least one) stands in for them in
`RateLimiter_proofs` and `Desk_proofs`, a proof by the smallest counterexample. With it, what
`FlattenSeq` returns (`FlattenType`), and that a finite set of naturals has a greatest member
(`MaxType`).

Out of the prover's reach and left to TLC: liveness under fairness and `ENABLED`.

## Model-checked only

- Liveness, which needs fairness: `CeilingComes`, `GoneLeavesNothing`, `EventuallyRecorded`,
  `PressesAnswered`, and that the page comes up in `EverybodyGoesOn`.
- `PagesAreCut` of `Desk`: it compares the list query's sorting and slicing with its
  definition, for the tables at hand; the sort is `TLC`'s `SortSeq`, whose definition
  the provers do not see.
- `FiguresAddUp` of `Seeder`: it counts over a history with folds, so it is about data.
- Everything found violated.

## Not modelled, and why

Rendering, charts and texts of the panel; configuration, logging, error envelopes,
request schemas, password hashing; migrations, provisioning and repository scripts: no
shared state or pure I/O. The engine itself: another repository, modelled only as it is
used here. Cookies and hashes of tokens: a token is its identity. Referrals, partners and
the names of invented people. The catalogue and the health report, which are answered from
constants. The size of the connection pool, and the base world replaced under a request by a
repair: the one hazard of `PROJECT.json` without a property (`bootstrap.py:63`).

## Plan

Done, in the order of what a fault would cost: tokens, sandboxes, journal, permissions and their
theorems; then the rate limiter with the abstract window it implements, the desk, the figures
and the seeder, and the tab; then the abstract ledger of tokens and log of events, and the proofs
that the table and the journal implement them. Next:

1. The base world's life: its generations, the sink of each, and requests that hold the old
   object or drain the new one while a repair waits; and waiting for pooled connections.
2. Overlapping exchanges: a bound on how many live tokens a forked family can come to, as a
   refinement of a ledger that says how many a revocation may miss.
3. Proofs: `PagesAreCut`, which needs a sort whose definition the provers can expand, and
   `FiguresAddUp`, which needs induction over a history.

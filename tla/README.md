# PortfoliFLOW: a verification project

TLA+ models of PortfoliFLOW, checked with TLC on small instances and, where it
matters most, proved with TLAPS for every instance. PortfoliFLOW is a
portfolio-management application: a FastAPI/htmx web process over PostgreSQL,
with background ticks, a Telegram bot and an assistant ("Irene").

Its core is the **book**: investments, their unit ledger, NAVs and cashflows,
and the **trade ticket** (ADR-0128) that writes into all four at once and can
take it all back. Around the book stand what values it, the ticks that work for
every tenant in the background, the watch desk that reports on it, the cases
people work, and the assistant they talk to. There is one module for each, about
one tenant (or, for the ticks and the assistant's turn lock, one process).

## 1. Inventory

Paths are below `src/`. "Hard" names what makes the part hard to test.

| Component | State | Operations | Talks to | Hard | What makes it correct | Status |
|---|---|---|---|---|---|---|
| Trade tickets (`services/transactions`, `core/repositories/trade_ticket_repository.py`) | `trade_tickets`, `trade_ticket_effects` | create and update a draft, propose, book (six flows), cancel, reverse | ledger, cashflow, NAV and investment write seams; audit log | long sequences of gestures, edits of emitted rows, clean-up of created investments | effects enumerate the emission, a reversal removes exactly it, no cancelled ticket leaves rows | **modelled, partly** |
| Position ledger and holdings (`services/investments/holdings.py`) | `position_transactions` | add, update, delete; holdings as of a date | tickets, CRUD, ingest | backdated rows, order within a day | no short prefix except for cash | **modelled, partly** |
| Investment, NAV, cashflow CRUD (`services/investments/investment_service.py`, `web/routes/investments.py`) | `investments`, `investment_navs`, `investment_cashflows` | add, update, delete, activate, retype | tickets, materialisation | upserts on a date a ticket wrote | no dangling names, no edit lost to a reversal | **modelled, partly** |
| Overlapping ticket requests (`web/routes/transactions.py`, `core/repositories/_session.py`) | one transaction per request | begin, statements, commit, roll back | PostgreSQL at READ COMMITTED | check-then-act between two requests | emitted once, cancelled is final, every request ends | **modelled, partly** |
| NAV materialisation and the plan path (`nav_materialisation.py`, `cash_plan_materialisation.py`) | system and live NAVs, plan NAVs, instrument prices | recompute from a date, flip to unitised, ingest live prices, re-flow | ledger and cashflow writes, import | the right day to recompute from, order of the import's passes, overlap with hand-entered NAVs | computed NAVs are holdings times price, foreign NAVs are spared | **modelled, partly** |
| Market data and live schedule (`live_refresh.py`, `live_schedule.py`) | schedule row per tenant | find due, refresh, mark | providers, tick | two runners, a failing provider, a change of the clock | a slot runs once | **partly**: the schedule and the ingest |
| Tick runner and loop (`services/scheduler/tick_runner.py`, `web/tick_scheduler.py`, `cli/irene_tick.py`) | the running tick, advisory locks | walk the domains, claim, work, mark, skip, fail, shut down | every scheduled service | overlap, a broken tenant first in the list, a death between claim and mark | no claim leaks, no tenant starves | **modelled, partly** |
| Heartbeat (`services/irene/beat.py`, `services/analytics/irene_delta.py`, `irene_floor.py`) | watch state, findings | deltas, case lines, press, synthesis, commit | watch desk, cases, model | a step that raises and commits, mute against acknowledgement | a breach is offered before it counts as seen; falls reach the cases; beats fall silent | **modelled, partly** |
| Watch desk (`services/watch_desk`, `web/routes/watch_desk.py`) | calibration, overlays, watchpoints | calibrate, mute, switch off, retire, resolve a finding, open a case | beat | edits while a beat runs | a limit's breach cannot be muted | **modelled, partly** |
| Cases (`core/repositories/case_repository.py`, `services/cases`) | case rows, append-only record | create, wait, resume, hand over, close, lines, wake-up | tick, tickets, beat | overlapping gestures, instants older than the write, number collisions, deadlocks with the tick | the record accounts for the row, waits end once | **modelled, partly**: not the working file |
| Assistant turns (`services/ai_service_core.py`, `services/tool_registry.py`, `web/routes/chat.py`) | turn lock, tool context, session histories, charts | post, stream, tool call, finish, hang up, new chat | model, tools, thread pool | hang-ups, eviction during a turn, tools and clean-ups that outlive their turn | turns run alone and enter the history whole | **modelled, partly** |
| Voice calls (`services/voice_call`, `web/static/js/call_panel.js`) | jobs, relay cursor | start, ask, relay, cancel, end | assistant turns | retried and overtaken relays, cancel against answer | a line is kept once, a job ends | **modelled, partly** |
| Data import (`web/routes/data_import.py`, `investment_service.py`) | the book | import a workbook | book, materialisation | one step of several changes what the next reads | as for materialisation | **partly**: what it does to the book |
| Telegram bot and pairing (`bot/telegram_bot.py`, `services/telegram_pairing.py`) | pairing codes | issue, consume, expire | web, assistant | expiry against consumption | a code pairs once | not modelled |
| Brief stash (`web/brief_stash.py`) | bounded LRU | put, take, evict | chat | entries of rows that are gone | bounded, newest kept | not modelled |
| Credential vault, provider channel and directory | secrets, key ring, cache | rotate, refresh | providers | rollback of a directory | version never goes back | candidate |
| Authentication, tenants, row-level security | sessions, policies | log in, switch tenant | everything | — | isolation lies with PostgreSQL's policies | not modelled |
| FX, limits, SAA, planning desk, analytics | configurations | compute | book | numeric | — | not modelled |
| Charts, scraper, research, CLI, migrations | — | render, fetch | book | I/O | — | not modelled |

How they interact: a web request opens one
database transaction (`tenant_context`), builds the services on its session,
and commits when the handler's block ends or rolls back when an exception
leaves it. The ticket service never writes a table of the book itself: it goes
through `InvestmentService`, the same seam the CRUD screens and the assistant's
tools use. What a booking did is known afterwards only from
`trade_ticket_effects`, and what happened to those rows since only from
`audit_log`, which a trigger writes. Every ledger and cashflow write ends in a
recompute of the NAVs or of the plan path behind it, in the same transaction. The
tick loop of the web process and the command-line ticks give each due tenant a
transaction of its own, opened by an advisory lock, and do a heartbeat, a refresh
or the wake-up of cases in it. The heartbeat writes findings, and lines into the
cases people opened from earlier findings. The chat works on stores in the
process's memory only; what overlaps there are coroutines of one event loop and
the threads of its pool.

The hazards of this code, each at its line and with the properties that would
catch it, are listed under "hazards" in `PROJECT.json`.

## 2. Modules

| Module | Role |
|---|---|
| `TicketLifecycle` | the abstract promise: stations of a ticket, and whether it has rows in the book |
| `TradeTickets` | tickets, effects, ledger, cashflows, NAVs, investments and the CRUD beside them; one action per request |
| `TicketRaces` | the same gestures cut into the statements of overlapping transactions |
| `Valuation` | computed NAVs, the plan path, the import; transactions that overlap |
| `TickScheduler` | the tick loop, command-line ticks, schedules and claims of all tenants |
| `WatchBeat` | the heartbeat of one tenant and the watch desk |
| `CaseFile` | the cases of one tenant, statement by statement |
| `ChatTurns` | turns of the assistant, their lock, the pool, the histories, the voice call |
| `MC…` | instances for TLC |
| `TradeTicketsProofs` | theorems about `TradeTickets`: types, emissions, holdings |
| `TicketReversalProofs` | theorems about stations, dangling names, reversals and what they restore, sums of units, and the refinement of `TicketLifecycle` |
| `TicketRacesProofs` | theorems about `TicketRaces`: one emission, cancelled is final |
| `ValuationProofs` | theorems about `Valuation`: types, computed NAVs, the plan path, foreign NAVs |
| `TickSchedulerProofs` | theorems about `TickScheduler`: types, claims, slots |
| `WatchBeatProofs` | theorems about `WatchBeat`: grounding, breaches, falls |
| `CaseFileProofs` | theorems about `CaseFile`: types, the row and the newest entries of its record, waits, lines, what follows a close, numbers |
| `ChatTurnsProofs` | theorems about `ChatTurns`: turns alone and whole, charts, the call's lines |

### TradeTickets

| Variable | Code |
|---|---|
| `tickets` | `trade_tickets`: status, the composer's form, proposer, approver, booker, whether there is a cancel reason |
| `effects` | `trade_ticket_effects`, with the before-image of an updated investment |
| `ledger`, `flows`, `navs` | `position_transactions`; actual `investment_cashflows`; actual `investment_navs` |
| `investments` | `investments`: present, active, cash or not, valuation mode, name, and `rev` for all other columns |
| `modified` | what the audit probe of a reversal would find: ticket and row, for an UPDATE later than the ticket's effects |
| `edited` | a history variable: rows a CRUD operation changed; no action reads it |

| Action | Code |
|---|---|
| `CreateDraft`, `UpdateDraft`, `Propose`, `Cancel` | the methods of `TicketService` and the repository statements under them |
| `Book` with `EmitOrder`, `EmitNewOrder`, `EmitCommitment`, `EmitSecondarySell`, `EmitSecondaryBuy` | `TicketService.book`: the blocks again, the emission, the effects, the walk through the stations (`Walked`) |
| `ReverseOrder`, `ReverseAndDelete`, `ReverseAndRetire` | `TicketService.reverse`, by the three ends of `cleanup_new_investment_shell` |
| `AddTxn` … `DeleteInvestment` | the CRUD operations of `InvestmentService` |

A request that is refused writes nothing: `post_reverse` lets the refusal leave
the transaction's block, and `_advance` wraps the transition in a savepoint. So
a refusal is a disabled action, and the order of checks and writes inside one
request does not show, except where a check reads what the request has just
written. Those orders are kept: the full-disposal gate asks the ledger with the
sell in it, and the clean-up of a created investment looks after the booking's
own rows have gone.

What is abstracted, and why it may be: amounts are small integers and only
their sign and their being zero matter to the cash leg; prices, taxes and
currencies only change amounts and refuse forms; warnings never refuse; the
case link carries no state of the book; identifiers and analytics children of
a created investment come and go with it. System NAVs are left out because
every reader here excludes them. The identifier of a row a booking inserts is
the ticket and the leg, which a ticket can use only once. `created_at` is
kept, since the canonical order of a ledger is date, then `created_at`;
`UpdateTxn` keeps it, and the sign, as the type of a row cannot be changed.
NAV writes are upserts (`NavWritten`): a NAV that stands on the date keeps its
id.

The statuses `sent`, `acknowledged` and `executed` exist in the vocabulary and
are reached by no code; `approved` is passed through in the walk only.

### TicketRaces

Each request is one transaction at READ COMMITTED and advances a statement at a
time: `step` names the last one executed. Nothing in the code locks explicitly
or compares versions, so what orders two requests is the row lock an UPDATE or
DELETE holds until its transaction ends (`HoldsTicket`, `HoldsRow`) and the
predicate such a statement re-reads when the lock is granted (`SaveDraft`:
`WHERE status = 'draft'`). A transaction's `NOW()` is its start, and that is
the timestamp of both its effects and its audit rows. `Abort` rolls back from any statement.
The data is the least that can race: every ticket sells one unit of the same
fund.

### TicketLifecycle

Two variables, `status` and `emitted`. `TradeTickets` refines it with the
mapping "a ticket is emitted while a row it inserted stands".

### Valuation

| Variable | Code |
|---|---|
| `book` | the committed `position_transactions`, plan `investment_cashflows`, valuation mode, active flag, `instrument_prices` and NAVs with their `ingest_origin` |
| `tx` | the transactions in flight: the book each read and the one it writes |
| `stale`, `cleared`, `moved` | history: a commit on a book that had moved on; NAV rows taken away and not recomputed; the plan's anchor moved since its last projection. No action reads them |

`Materialised` is `NavMaterialisationService.materialise`, `Projected` the plan
path, and each operation says from which day it recomputes (`Since` is the
earlier of where a row was and where it goes). `Imported` keeps the order of
the import's passes: replace, openings, statements, plan path. A transaction
reads the book when it begins; `Merged` lays its writes on the book it meets at
commit, where the upsert's `WHERE ingest_origin` (`Yields`) decides against the
row that stands there by then. A commit that would leave an investment two
openings is refused by the partial unique index (`OneOpening`). A fund may start
reported, unitised, or reported without an opening (`Unopened`, whose import is
the first to open it). A NAV's amount is one number, and rows that agree in every
column modelled are one.

### TickScheduler

| Variable | Code |
|---|---|
| `sched` | `irene_schedules` and `market_data_schedules`: enabled, cadence, timezone, `next_due_at`, last run |
| `lock` | PostgreSQL's transaction-level advisory locks, by domain and tenant |
| `run` | where the tick of each process stands: domains left, its clock, the due rows it read, the tenant it works for |
| `settled`, `asked` | history: schedules nobody has edited under their last run; requests for a run not yet answered |

`ReadDue`, `Claim`, `SkipClaimed`, `Succeed`, `Fail` are the loop of
`run_irene_tick`, `run_market_data_tick` and `run_case_wake_tick`, one tenant after
the other; `FailDomain` is an error of the
due read, which the web loop contains and a command line does not; `CutOff` is
the death of the process or the end of a shutdown's grace period. A tick never
reads a schedule again after `ReadDue`, so the mark is computed from what the
due read said; the model keeps that.

A cadence is a grid on the clock of the schedule's timezone, as in
`compute_next_due_at`: the instant is read as wall-clock time (`Wall`), stepped
(`NextWall`), and turned back into an instant (`Localised`). Each timezone changes
its offset once, at `Turn`, back or forward. Back, the hour passes twice, and a time in
it is always taken for the first pass (`fold=0`); forward, a time that does not exist
is read with the offset before the gap. The anchor hour is the grid's origin and is
left out.

### WatchBeat

| Variable | Code |
|---|---|
| `mag` | what limits and watchpoints measure now |
| `desk` | the calibration in force |
| `acked` | `irene_watch_state`, the magnitude last acknowledged |
| `findings`, `cases` | `irene_findings` with band and resolution; the cases opened from them, with or without the line of a fall |
| `beat` | the transaction under way: the calibration it resolved, what it will acknowledge, offer, write |

`Resolve`, `EvaluateLimits`, `EvaluateSignals`, `WriteLines`, `EvaluatePress`,
`Synthesise` and `Commit` are the steps of `run_beat` in order. `FailBeat` is an error
in any of them that the beat catches itself (`beat.py:722`): its caller commits what the
steps before wrote, and of the failing step any part: some of the subjects compared,
some of the clusters read, some of the findings appended. The lines have savepoints of
their own and the briefing never raises. `RollBack` is an error that costs the
transaction. A re-trigger delta may be zero (`DeltasMayBeZero`), for a family or for one
subject, as `calibration.py:239-245` accepts it. The
model's answer is any subset of subjects at the least or the greatest urgency.
`TickScheduler` shows that two beats of a tenant never overlap, which is why
there is one `beat` here.

### CaseFile

`rows` and `record` are the committed case row and its append-only entries, in the
order they were written; `tx[p]` is a transaction with what it read (`saw`, `seen`),
what it has written, and the instant (`stamp`) all its entries carry as `created_at`.
The code orders a record by these instants (`_RECORD_ORDER`, here `ListedBefore`), and
the caller takes them before its reads and its lock waits: the routes with `_now()`,
the beat and the tick with their clock (`clock`, `Now`, `NowOfTick`). A close that lifts
a wait first takes a second one.

A gesture's route reads the case (`Start…`), the repository reads it again (`Check`),
then it updates by id (`Write`); a lift updates only `WHERE state = 'waiting'`
(`Lift`); creation reads `MAX + 1`, inserts under the unique index and tries again
once. `Wake` and `FindCases` open the tick's one transaction over all due cases, which
it takes by date, then number, as `list_due_for_wake` sorts them (`Before`). A system
line is a read, a check for its dedup subject, an insert
and, where the case was read as waiting, a lift. `BreakDeadlock` is PostgreSQL
ending one of a set of transactions each of which waits for another of the set.

### ChatTurns

| Variable | Code |
|---|---|
| `step`, `result`, `rounds`, `tool`, `pending`, `home` | a turn: its coroutine and, for `waiting`, `ghost` and a `tool`, the pool thread under it |
| `job` | `CallJob.state` |
| `lock`, `context`, `locked` | `_TURN_LOCK`; the process-wide tool context; the classes a fetch has locked, by the turn whose fetch it was |
| `cleanup` | whether the clean-up of a generator a turn's consumer has left is due or begun |
| `chat`, `recent`, `charts` | the histories and their LRU order; the chart sidecar |
| `homeless` | turns whose conversation has left the store: they append to an object nobody reads |
| `call`, `relayed`, `cursor` | the voice call and its relay |

`Park` and `StartTool` are the two `asyncio.to_thread` calls, which need a free
worker. A turn ends in one of two ways. An exception inside its generator (`Break`, a
cancelled await of the provider or of a tool) passes through the inner generator first
and through the lock last (`Unwind`). A consumer that stops at an event - at the
answer, at an error, at a heeded cancel - closes only `stream_response`, which iterates
the inner generator with a plain `async for`: the lock is released (`Release`), and the
inner `finally` is run by the event loop later, beside the next turn (`EndTurn`, then,
after the client's close has been awaited, `ClearContext`). `HangUp` is the
cancellation of a typed turn's stream: a wait whose
thread already runs becomes a `ghost`, a wait the pool has not started never
runs, any other turn ends in one of those two ways. A call job is never cancelled as a task:
`CancelJob` sets the flag and the job reads it at the next event
(`HeedCancel`). `Relay` and `Ask` may carry any contiguous lines from one the
browser does not know taken, again or late.

## 3. Runs

| Run | Question | Bounds |
|---|---|---|
| `flows` | Does a reversal undo exactly what each of the six flows did, and leave of a created investment only what a ticket still names? | three tickets, one user, every flow against known and created investments, no CRUD but the retyping of the cash position |
| `book_edits` | Do the guarantees survive, and is nothing left naming what was deleted, while the CRUD works on every row the tickets emit and on the investments they create, trade or dispose of? Does a reversal move back exactly the units its booking moved? Does the whole implement the lifecycle? | two tickets, one row of each kind entered by hand (a sale, in the ledger), two dates, one edit per investment row |
| `overlap` | What do the row locks alone guarantee? | any three requests of six kinds, one ticket |
| `valuation` | Do computed NAVs and the plan path follow the book, and are reported and hand-entered NAVs spared, whatever overlaps? | two transactions in flight, two operations, three days, three workbooks, a fund that starts reported, unitised, or without an opening |
| `ticks` | Does no claim leak, no slot run twice, no tenant starve? | the web loop over three domains beside a command-line market refresh, one healthy and one broken tenant, clocks set back and forward by two units, one fault, one edit, three instants |
| `watch` | Can a breach be muted away, a finding be made up, or a fall miss its cases? Is a breach acknowledged in the end, and do the beats fall silent? | one limit, one signal, one press cluster, deltas of zero and of two, two moves of the book, one act of a person, one fault, one finding |
| `cases` | Does the append-only record account for every row, is every wait lifted once, is a closed case left alone, are cases numbered without a gap or a repeat? | two cases, both waiting, one of them, or none yet; two requests in flight, the wake-up tick, two events, two days, no faults |
| `wakes` | Does every wait end whose date has come? | two waiting cases, one request in flight at a time, two in all, the wake-up tick, one fault |
| `chat` | Do turns run alone, enter their history whole and keep their charts, are lines kept once, and does every turn end? | a typed turn and a call job, two sessions of which one is kept, one line, a history of four messages, two workers |

Bounds, by name. `TradeTickets`: `Stamps` limits how many rows one investment
ever gets, `MaxRev` how often an investment row is edited, `UserRows` the rows
entered by hand, `TxnUnits` the units they state, `Days` the dates. Two tickets
are what it takes for one booking to build on another's investment; the third in
`flows` allows a chain in which the middle ticket is already at its end. Two
dates allow a backdated row. `TicketRaces`: each of `Requests` is sent once;
three are the longest chain a race here needs (book, reverse, and the edit
between). `Valuation`: two operations (`MaxOps`) are the least that overlap, and
three days put an edit before, on and after another's. `TickScheduler`: `MaxNow`
2 crosses two slot boundaries and the `Turn` at 1, so a run can fall into the second
pass of a repeated hour and be followed by another; `MaxFaults`
and `MaxEdits` are spent anywhere. `WatchBeat`: two moves take a limit into
breach and back; one act lets a person open a case from a finding, calibrate, or mute, between any two
steps of a beat, and one failed savepoint is enough to cost one of two falls its line.
`CaseFile`: two requests beside the tick form every cycle of
waits there is, and two that open a case take the same number. A failed
transaction of `CaseFile` leaves nothing behind, so `cases` has no faults; where progress
depends on who failed, in `wakes`, there is one. The requests
of `cases` are interchangeable and its properties speak of single states and steps, so it
is checked up to their permutations (`MCAlike`). That a creation is refused only behind two
others takes three requests, and is left to the theorem.
`ChatTurns`: `HistoriesLimit` 1 makes any other session an eviction,
`HistoryMax` 4 is less than the question, one tool round and answer of one turn
and a line of the call together. One line is enough for a relay that is late or sent
again; the order of several is proved (`LinesOnce`, for any number), since an instance
with two has too many states for the liveness of turns.

People may stop at any time, and the bounded ones do, so deadlock is not checked;
that no request, wait or turn hangs is stated as liveness instead.

`NeverUnrestorable` confirms what the code only asserts: the cause
`unrestorable` cannot occur behind the audit probe.
`EffectsAreOwn` is why `refuse_nav_collision` exists: without it a reversal
could delete a valuation somebody else entered.

**Fairness.** Nothing is assumed of people or of faults.

* `TicketRaces`: weak fairness of each request's next statement. The server
  awaits each statement of a running handler, and PostgreSQL grants a lock once
  its holder has ended.
* `TickScheduler`: weak fairness of starting the next tick for the sources that
  loop (`Isolating`: the web loop, never a command line), and of the steps of a
  tick under way: the work of a tenant is bounded by the timeouts of its calls. Weak
  fairness of the clock: a tenant that is due on every tick of a repeated hour is one
  only as long as the hour lasts.
* `WatchBeat`: weak fairness of the beat's next step, a new beat included; that
  the tick comes round is `TickScheduler`'s `HealthyServed`.
* `CaseFile`: weak fairness of each transaction's next statement and of the
  wake-up tick.
* `ChatTurns`: weak fairness of whatever the server does of itself for each
  turn: the event loop runs a runnable task, the pool runs a job it has a thread
  for, a provider answers or its client times out, a tool returns.
* `TradeTickets` and `Valuation` assume none and state no liveness.

### Runs that end in a counterexample

Each shows a disagreement between the code and a sentence of its own
documentation; `PROJECT.json` quotes the sentence.

| Run | What happens |
|---|---|
| `cancel_race` | Cancel reads `draft`, a booking commits, and the update by id alone overwrites `booked`: the emitted rows stay under a cancelled ticket. The same window lets a proposal be discarded without a reason, and lets two reversals both succeed. |
| `emptied_account` | A workbook states a balance of zero; a NAV is written only where holdings are positive, so the previous balance is carried forward. |
| `hung_up_turn` | The client of a typed turn goes away while the turn waits for the turn lock: the await is cancelled, the thread goes on waiting, takes the lock and nobody releases it. No turn of the process runs again. |

### Observed while modelling, without a run

In the book:

* Two sells each read the ledger before the other's row is in it; the holding
  goes below zero (`investment_service.py:879`).
* An edit commits between the reversal's check of a row and its delete; the
  delete waits for the lock, then removes the edited row (`emission.py:1769`).
* An edit whose transaction began before the booking's but which updates the
  emitted row after it committed carries the older timestamp; the probe never
  sees it (`audit_log_repository.py:88-93`).
* Book now saves the form first, and only a draft can be saved: a proposed
  ticket can never be booked from the screen, although the gesture is offered
  (`web/routes/transactions.py:3176`).
* The full-disposal gate asks the holdings on the trade date, so a disposal
  dated before a later purchase retires an investment that still holds units
  (`emission.py:918`).
* Changing a cash position's type reads no ledger: a position below zero becomes
  a fund with negative units (`investment_service.py:1824`).
* A booking that retires an investment is an UPDATE of it, so the reversal of
  another ticket that touched the same investment is refused as `modified`
  although nobody edited anything.
* The import of a workbook that names a fund already flipped replaces all its
  NAVs, computed ones included, and recomputes them only when its opening moved
  (`Replaced`, `Reopened`; the exception `cleared` in `NavsFollowBook`).

In the background:

* The advisory lock excludes two ticks at the same time, not one after the
  other: a tick that read the tenant as due before another ran it runs it again
  (`tick_runner.py:433`). `OncePerSlot` therefore asks for one source per domain.
  The clock is read before the feeds are harvested and the due read asks the
  database's, so they differ by more than the milliseconds the comment at
  `tick_runner.py:393-397` allows; this is the second exception of `OncePerSlot`, and
  the repeated hour the third (`BegunBefore`).
* A beat in the second pass of the hour a clock is set back over gets a next instant in
  the first pass, which is past: until the last slot of that hour every tick runs a
  sub-hourly schedule again (`scheduling.py:221-231`, against *"strictly after"* at
  162-163 and *"the repeated hour beats once, not twice"* at 181-182). A 15-minute
  cadence in Berlin, computed at 01:02Z on 25 October 2026, is next due at 00:15Z.
* A re-trigger delta of zero is accepted (`calibration.py:239-245`), and a breach that has
  not moved has moved by zero: every beat offers it to the model again
  (`irene_delta.py:326`). `BeatsFallSilent` excepts such subjects.
* A run requested while a tick is at the tenant is swallowed by that tick's
  mark (`asked` leaves it out).
* A beat that fails while comparing, in the feed clustering or at the model call commits
  the acknowledged edges it has not shown to the model (`beat.py:722-729`,
  `rss_clustering.py:322`): nobody is told of them unless they move again.
* The limit deltas reset a fallen subject, the signal deltas raise, and the beat commits
  (`beat.py:561-562`, 722): no later beat sees a fall, and the case never gets its line.
  This is the exception of `FallsReachCases` for a beat that failed while comparing.
* A wait, a hand-over or a second close that read the case before a close committed writes
  the closed case, and may set it waiting (`case_repository.py:1093`, against *"closed
  cases are immutable"* at 1128). `RefusedOnceClosed` proves that nothing else does.
* A hand-over takes its instant after a close has taken its own, but gets the row's lock
  first. The newest snapshot of the closed case is then the hand-over's, and that is what
  the page renders as *At close* (`case_repository.py:974-990`).
* A record in listed order need not lead to its case's row: a wait set and lifted, say,
  may be listed lift first. `RowFollowsRecord` excepts what was written late under an
  older instant (`Overtaken`), kind by kind, and nothing else.
* Two first saves of a schedule at once both insert a row for the tenant.
* Saving a decision of a case's working file reads it and writes it whole: an
  overlapping save is lost (`case_working_file_repository.py:1328-1362`).
* `resolve_finding` overwrites a resolution, `opened_case` included; such a case
  gets no further lines (`CasesOn`).

In the chat:

* With as many waiting turns as the pool has threads, the holder's next tool
  never starts and nobody moves: `Wedged` is the exception of `TurnsEnd`, and an
  instance with three jobs and two workers reaches it. The module docstring's
  "holding it is fine" (`ai_service_core.py:54-56`) leaves the pool out.
* A turn's consumer stops at the answer, the lock is released, the next turn sets its
  context, and the first turn's clean-up clears it: the next turn's tools run without a
  context (`ai_service_core.py:681-692`, 986-991, against *"no surface can race another on
  the shared module-level context"* at 608-611). `KeepsItsContext` asks for a turn with
  nothing left to clean up.
* A turn whose conversation was dropped by POST /chat/new or evicted binds its
  charts to the session's new sidecar all the same: they belong to a message
  nobody has (`homeless` in `ChartsFollowAnswers`).
* A fetch that outlives a hung-up turn locks classes in the turn that runs by
  then (the exception of `TurnsRunAlone`). Every tool registered today reads, so
  nothing is refused for it.
* The end of a call drops the cursor, so a relay sent again after it is appended
  again; a closing tab sends the last relay and the end without waiting
  (`call_panel.js:1006-1013`). `LinesRelayedOnce` speaks of the time before.
* A turn that reaches the tool cap stores an answer that still carries the calls
  of its last round (`ai_service_core.py:932-965`); their results stand before
  it, and none follows.

## 4. Proofs

For any sets of tickets, users, investments, dates and forms,
`TradeTicketsProofs` proves:

* `TypeCorrect`: `Spec => []TypeOK`, with the attribution constraints of
  migration b034.
* `EffectsEnumerateTheEmission`: `Spec => []EmissionsEnumerated`.
* `NoRowOrphaned`: `Spec => []NoOrphanEmission`.
* `NoShortHolding`: `Spec => []HoldingsNeverNegative`, provided `"retype"` is
  not among the CRUD operations: retyping a cash position that is overdrawn is
  the one way to a short holding.

`TicketReversalProofs` builds on it and proves:

* `StationsNeverReturn`: the action property `StationsKept`.
* `NothingDangles`: `[]NothingNamesTheDeleted`, and `TouchedStand`:
  `[]TouchedInvestmentsStand`.
* `EffectsOwned`: `[]EffectsAreOwn`, and `ReversalIsExact`: the action property
  `ReversalSparesEdits`.
* `AlwaysRestorable`: `[]NeverUnrestorable`.
* `TicketsRefineLifecycle`: `Spec => ImplementsLifecycle`.
* `CancellingRestoresTheBook`: `[]BookRestored`, provided the CRUD does nothing but
  retype: any other edit is meant to stay.
* `ReversalReturnsTheUnits`: the action property `UnitsReturn`, with any CRUD.
* `NoDateShort`: what is held of any investment but cash is never below zero as of
  any date, provided nothing is retyped, as in `NoShortHolding`.

`TickSchedulerProofs` proves, for any tenants, sources, routes, cadences and
bounds:

* `TypeCorrect`: `Spec => []TypeOK`.
* `ClaimsExclude`: `[]ClaimsAreExclusive`.
* `SkipsAreDuplicates`: the action property `SkipsOnlyDuplicates`.
* `SlotsRunOnce`: the action property `OncePerSlot`, with its three exceptions.

The theorems of the other five modules follow with their arguments below.

Assumptions: `IdsAssumption` (ids of different kinds differ, and `None` is
neither an id nor a before-image), `BoundsAssumption` (dates, stamps and units
are integers, the CRUD reaches investments only), `DraftsAssumption` (a form
has the shape of the table) and `OpeningAssumption` (the book starts with finitely
many rows of known investments and nothing short). TLC evaluates all of them in every
run of `MCTradeTickets`. `TickScheduler` assumes `RoutesAreOfSources` (routes are
sequences of domains, `Nobody` is no source), `CadencesArePositive`, `ZonesAreShifts`,
`FormsAreForms` and `BoundsAreNumbers`; `ticks` evaluates them.

**Emissions.** `NoOrphanEmission` alone is not inductive: nothing in it
stops a reversal from leaving a row behind, because what a reversal deletes is
what the *effects* name. The strengthening `EmissionsEnumerated` says that a
row of a booking still in the book is among its ticket's effects, under the
type of its own table, and that the ticket is booked. A booking establishes it
for the rows it inserts, a reversal removes all rows the effects name and so
leaves none of its own, every CRUD operation adds rows under other ids or
removes some, and a restatement keeps the id. `IdsAssumption` is what keeps
rows entered by hand out of `EmittedBy`.

**Holdings.** `HoldingsNeverNegative` needs `CashFixed`: which investments are
cash positions never changes. Bookings check the instrument leg and exempt the
cash leg, so a step is safe when every other investment's rows are the same
afterwards or were checked; `CashFixed` says the exempted investment is still a
cash position. The proof treats the sum `Units` as opaque: it rests on the code
re-checking each changed ledger, not on arithmetic over the sum. `NoDateShort`
goes from the guard to the reader: `first_negative_holding_date` looks at the prefixes
of the canonical order, `holdings_as_of` sums up to a date. A finite ledger
(`LedgerFinite`) has a last row up to any date (`LastRow`), and the prefix that ends
there is the sum (`PrefixesDecide`).

**Units.** `UnitsReturn` says that a reversal moves back what the booking moved, for
rows that anybody may have restated, deleted or entered meanwhile. Two things have to
be known. First, which rows stand when a reversal goes through: `LegsKept` says that a
standing row of a booked ticket is as the ticket's form states it (`AsBooked`) or the
audit log shows its edit, that the effects name every leg the form states, and that
no two rows share an id. The probe refuses an edited row and a missing one, so
what is deleted is exactly the legs of the form (`ReversedLegs`). Second, what that
does to a sum. `Units` folds over a set in an order the model leaves open;
`UnitsUnfold` takes out the row the fold takes first, and `UnitsRemove`, by the
smallest set for which it fails, any other. So a holding moves by the units of the
row added (`HoldAdd`, `HoldLegs`).

**The book restored.** `BookRestored` speaks only of a book in which nothing is
booked; the invariant `Restoring` says what each booking holds meanwhile. The opening
rows stand (`OpeningStands`); every before-image shows an active investment
(`ImagesActive`), since a block refuses to trade a retired one; a known investment
is as at the start unless a booked ticket retired it (`KnownKept`); an investment a
booking created is among that ticket's effects while it is booked and, if it stands
afterwards, retired and still named by that ticket (`ShellsKept`); and who retires such an
investment touches its creation for the audit probe, so the ticket that created it
cannot be reversed first (`ShellsHeld`). With nothing booked, no row of a booking
stands (`EmissionsEnumerated`) and no retirement is outstanding.

**Names.** `NothingNamesTheDeleted` is the first two parts of `Structure`
(`RowsPresent`, `NamesPresent`), which need the third: `ShellOfItsBooking`, the
investment a booking creates stands only from its own booking on, is the only
one its effects mark as created, and never settles its own ticket. It is what
lets `ReverseAndDelete` drop that investment: no row stands on it, no other
ticket names it, and the ticket itself is unlinked. `BookEmits` collects in one
formula, `Emission`, what the rest of the system sees of the six flows, so each
later proof treats booking once.

**Reversals.** That a reversal removes exactly its booking follows from two
inclusions: `EffectsAreOwn` (what is deleted was inserted by the ticket) and
`EmissionsEnumerated` (what was inserted is deleted). That it removes no edited
row needs `EditsCounted`, which ties the history of edits to what the audit
probe can see. `ImagesCurrent` does the same for before-images: a row is at the
recorded revision or an UPDATE of it shows. It needs `UpdatesNamed` (the
investment a booking's effects name is the one its ticket names, so it cannot
be deleted while the ticket is booked).

**Refinement.** The mapping sends a ticket to its status and to whether it has
rows in the book. The abstract lifecycle moves one ticket at a time, so no step
may add or remove the rows of two. Reversals and bookings touch their own rows
only; the delete of an investment cascades to all its rows, and `NamedEmission`
(a standing row of a booking belongs to an investment its ticket names) shows
that an investment with such a row cannot be deleted, since the ticket's
foreign key restricts it.

**Claims.** `ClaimsAreExclusive` is not inductive: it says that a working
source holds *some* lock. `HeldByWorkers` says which: a lock is held by a source
exactly when that source is working for that tenant in that domain. Every end
of a transaction, `Succeed`, `Fail` and `CutOff` alike, releases all locks of its
source and leaves `working` in the same step; `Claim` takes a free one. The skip
property follows at once: `SkipClaimed` requires a holder, and the holder is at
that tenant.

**Slots.** A run is marked with the tick's clock and made due at the instant of the next
time of its grid. That time is later than the wall clock of the run (`NextWallLater`), and
its instant begins a slot and lies after the run, unless the slot began in the first pass
of an hour that is gone through again (`NextDueLater`, `BegunBefore`). `Slots`
carries the rest: no row's last run is after the present (`Clocked`), what a
tick kept of a due row still tells whether the row was edited since
(`KnownRows`), a schedule its last mark saw unedited is due at the grid's next
instant after its last run (`SettledRows`), the clock of a domain's only visitor
is not before the runs recorded (`NotAhead`), and a tick has only domains of its
own route before it (`OnRoute`). So wherever one source alone visits the domain, a
slot begins between a run and the next, but for the three exceptions `OncePerSlot` names.

### Overlapping requests: `TicketRacesProofs`

`EmitsOnce` proves `[]EmittedAtMostOnce` and `CancelledStays` the action property
`CancelledIsFinal`, for any tickets, requests and opening. `EmittedAtMostOnce`
counts committed sells only, so it says nothing of two bookings about to commit.
`RaceInv` does: a request past its save holds the ticket's row, nobody else does,
and the committed status is still `draft` (`HeldAreDrafts`); so when it commits,
no other booking of the ticket can be past its save, and none has been emitted
before: a ticket with effects is no draft, and all its effects are of one row
(`OneEmission`). `CancelledIsFinal` follows: what takes a ticket elsewhere
holds a draft.

### The book and its values: `ValuationProofs`

For any investments, days, workbooks, starts and writers:

* `TypesHold`: `[]TypeOK`. `NavsFollowTheBook`: `[]NavsFollowBook`.
  `PathFollowsTheFlows`: `[]PathFollowsFlows`.
* `ForeignNavsAreSpared`: the action property `ForeignNavsSpared`.

None of them is inductive by itself, because an operation computes its book when
it begins and commits it later, on another. `BookInv` adds what is known of each
transaction in flight (`Sound`): the book it read and the one it makes are well
formed; outside what an import replaces it changes only rows that would yield to
it (`Spares`); it writes no live NAV, and takes the live ones away where it makes a
fund unitised (`LiveGoes`); and had the book it read followed the rules, the book
it makes would (`Restores`). At commit either the book is still the one that was
read and `Restores` carries the rules over, or `stale` becomes true and the
properties no longer promise anything, while types and foreign NAVs still hold.
`Restores` rests on two lemmas about the algorithms: a recompute from the first
day an operation touched makes all computed NAVs follow (`RecomputeFollows`), and
a projection of the whole path makes the path follow (`ProjectFollows`). Sums of
units and of flows stay opaque: what is proved is that they are taken over the
same rows, never what they amount to.

Assumed: the series of the book differ (`SeriesAreApart`), workbooks have the shape
of the sheets read (`WorkbooksAreSheets`), the book starts with its values computed
(`StartsAreValued`), and bounds and amounts are numbers.

### The watch: `WatchBeatProofs`

* `FindingsAreGrounded`: `[]FindingsGrounded`.
* `BreachesAreOffered`: the action property `BreachIsOffered`.
* `FallsReachTheirCases`: the action property `FallsReachCases`.

`DeskInv` says what a beat carries at each of its stages. A finding not yet
committed is about an offered subject at a floored urgency (`FoundIsGrounded`), a
case stands on a committed finding that is neither an all-clear nor about the press
(`CasesAreFounded`, `PressIsInformational`), what the beat would forget is a falling edge
it offers or one a mute has hidden (`ForgottenFalls`), and past the lines
every case then open on a fallen subject has its line or the subject is among
those lost (`Written`); `Stages` says what each step has yet to fill. A step that raises
commits what a part of it would have left, so the invariant is shown for that beat first
and for the commit once (`CommitKeeps`, `FailuresCommit`). The last theorem needs
`ForgottenFalls` and `Written`: a beat that forgot a level committed, and one that
committed after the comparisons had passed the lines. It says nothing of the
beat that failed while it compared.

Assumed: subjects of different kinds differ and are finitely many
(`SubjectsAreApart`), every book measures all of them (`BooksAreMeasured`),
magnitudes and thresholds are natural numbers (`MagnitudesAreCounts`), and so are
re-trigger deltas, zero included (`DeltasMayBeZero`).

### Cases: `CaseFileProofs`

* `TypesHold`: `[]TypeOK`. `RowsFollowRecords`: `[]RowFollowsRecord`.
* `LiftsEndWaitsHolds`: `[]LiftsEndWaits`. `ClosedRefuses`: `[]RefusedOnceClosed`.
  `LinesWake`: `[]LinesWakeOnce`.
* `NumbersFollowOn`: the action property `CreationsAreNumbered`.

The entries in the order they were written are folded into the states they pass through
(`Course`), a recursive function over positions; the last is the row. To
keep that under commits of overlapping transactions, `Inv` has for each
transaction: what it read of a case is what the record said after the entries it
had seen (`Reads`); the entries it is about to append lead from the row as it
stands to the row it leaves (`Pending`), which holds although others commit
meanwhile, because a row it has written is locked to it; and no two transactions
write one case (`Apart`). For the committed record it has for each entry what the
other three theorems ask (`RecordHolds`), with the entries its writer had seen as the
only excuse. A gesture that read a case before it was closed does write the closed case;
`ClosedRefuses` proves that nothing else does.

`RowFollowsRecord` is about the record as it is listed, by instants. Each column of the row
is what the last entry written of the kinds that say it says (`ColumnsSaid`, and by the
least counterexample along `Course`); there is such an entry, since the first opens the case
(`FirstOpened`). The newest listed (`NewestExists`) is that entry, or another of
these kinds was written after it under an older instant, which is `Overtaken`.

`NumInv` adds the numbers: those of the cases there are one to how many they are
(`Numbered`; of the cases the model begins with that is `Ranked`, by induction). A
number taken by `MAX + 1` is the next one when it is read, and can be overtaken until it
is inserted; one inserted is the next one until it is committed, since the unique
index lets no second of it in (`OneOpens`). Each collision is a case opened since
the creation began, and there are two attempts, so a refusal needs two
(`RefusedForTwo`).

Assumed: cases are finitely many and numbered from one (`CasesAreNumbers`), every
event touches known cases (`EventsTouchCases`), the tick is no worker
(`TheTickIsNoWorker`), and days and bounds are numbers.

### Turns: `ChatTurnsProofs`

* `RunAlone`: `TurnsRunAlone`, an invariant and an action property. `TurnsWhole`: `[]TurnsEnterWhole`.
* `ChartsFollow`: `[]ChartsFollowAnswers`. `LinesOnce`: `[]LinesRelayedOnce`.

`TurnsRunAlone` speaks of contexts; the invariant is about the lock: whoever is
past `Acquire` and not yet closed holds it, and the context is that turn's or none (`Alone`).
A late clean-up clears and sets nothing, so it never puts a turn under another's context;
and a turn that has its context while no clean-up is outstanding keeps it, because a
clean-up becomes due only where a turn ends, and no other turn runs
(`StepKeepsContext`). The histories
are harder, since `Store` appends to one, trims it at a boundary of turns, and
may evict another in the same step. `Whole` says of each turn that its messages
are one block of a history, complete and in the order `Collected` gives, or are
not there; `Bound` the same of its charts, except for turns whose conversation is
gone. Trimming drops whole blocks from the front, so both survive. `CallInv` says
that the lines in the caller's history are in order and end at the cursor, and
that the cursor is what was relayed; a batch that comes late or twice is cut to
what lies past the cursor, which is the arithmetic of `BatchIsLines`.

Assumed: typed turns, jobs and lines are different things, `Caller` is a session
(`TurnsAssumption`), and limits are positive (`BoundsAssumption`).

### Beyond these proofs

What only TLC has checked is liveness under fairness (`EveryRequestEnds`,
`HealthyServed`, `RequestsAnswered`, `BeatsFallSilent`, `BreachIsSeen`,
`DueWaitsEnd`, `TurnsEnd`), which is out of the prover's reach. Every invariant and
action property of a passing run is proved; `CancellingRestoresTheBook`, `NoShortHolding` and
`NoDateShort` name the CRUD operations they exclude.

Induction over what a recursive function computes is done where a proof needs it
by the least counterexample (lemma `Least`, from the well-foundedness of `<` on
the natural numbers): the library's induction theorems take an operator as
parameter and cannot be instantiated by the provers at hand. Sums over finite sets
of ledger rows are unfolded the same way, by the smallest set; in `Valuation`
they stay opaque, so no theorem says what a balance or a projected value is.

## 5. What is not modelled

* Of the book: the allocation of ticket numbers (the scheme is `CaseFile`'s
  numbering), analytics children, several currencies, average cost,
  identifiers, limit sets and benchmarks of an import, the read-only pages.
* Of the background: the providers' answers and windows, dividends, the harvest
  and clustering of feeds, briefing texts and frozen anchors, presets.
* Of the cases: the working file with its threads, kept items, figures and
  decisions, and the contents of snapshots.
* Of the chat: prompts, attachments, the stores of pending turns, jobs and cursors
  and their limit of 100, the tool data cache, several tools in one round, the allowlist, the call's
  start and end lines, the provisioning of the voice agent, and the turns of the
  Telegram bot, which take the same lock.
* The components marked candidate or not modelled in the inventory: rendering,
  parsing, numeric analytics and calls to external services carry no state that
  interleaves, and the isolation of tenants lies with PostgreSQL's policies.

## 6. Plan

1. Sums in `Valuation`, with the lemmas of `TicketReversalProofs`: that a computed
   NAV moves with an edit by exactly its units times the price.
2. The working file of a case: its overlapping saves and the kept items that
   outlive what they were kept from.
3. `TelegramPairing` and the bot's turns on the lock of `ChatTurns`.
4. The directory's rollback rule and the key ring.

# TLA+ models of tv-paper-bot

tv-paper-bot trades Indian equities and options. One Python process (`main.py`, about
37,000 lines, served by FastAPI on Render) scans a watch list, keeps *paper* positions for
every signal, and mirrors some of them with *real* orders at the broker Kotak. The disk is
wiped by every restart and deploy, restarts are frequent, Kotak's calls time out, and the
same order book is touched by several threads. These modules model the part of the program
in which a mistake costs money: the real orders, the stops that protect them, and the tables
that survive a restart.

Contents: [the system](#the-system) · [the modules](#the-modules) · [the runs](#the-runs) ·
[what is proved](#what-is-proved) · [what the code does differently from what it
says](#where-the-code-departs-from-its-own-texts) · [not modelled](#not-modelled) ·
[plan](#plan)

## The system

### Components

| component | where | state it keeps | operations |
|---|---|---|---|
| Resting stop placement | `kotak_real_orders.py` | `_SL_SYMBOL_LOCKS`, `_RECENT_SL_PLACED` (20 s), Kotak's order book | `ensure_resting_sl`, `place_real_stop_loss`, `cancel_real_order`, `cancel_all_open_sells` |
| Real intraday long | `main.py` 16879–18763 | `real_positions`, `real_t1_restricted` | entry, partial exit, exit, trailing sync, reroute, quantity reconcile |
| Swing long engine | `main.py` 25150–26660, 29451, 34299 | `real_positions_swing`, `signal_state_swing` | daily scan, real entry and exit, breach exit, stop sync, heal, open-protect |
| Swing shorts, intraday shorts | same regions, `_short` names | `real_positions_short` and their paper tables | the mirror images, with buy-side stops |
| F&O legs | `main.py` 19111–19670, `kotak_real_fo_orders.py` | `real_fo_positions`, `_fo_sl_unprotected_since` | entry of one or two legs, trailing stop sync, 180 s risk cut, close |
| Paper engine | `main.py` 10642, 12140, 12619–13804 | `signal_state`, outcome log | `_auto_signal_core`, partial exits, `_split_exit_legs` |
| Durable mirror | `main.py` 150–541, 22268–22550, 22879–23230 | Upstash keys, journal files in git, `_SWING_MIRROR_HYDRATED` | push, hydrate, journal fallback, generic chunked table mirror |
| Reconciliation | `main.py` 35806–36740 | all real tables | adopt, clear and back-fill rows from `positions()` and `holdings()` |
| Scheduler, rotation | `main.py` 24951, 29539, 30000–30960 | `_SCAN_DECISION_LOCK`, `_TICK_WANTS_SCAN`, `_SCAN_LAST_DONE`, `_BAR_SWEEP_STATS`, `_scheduler_rr_cursor`, daily flags | tick loop, bar sweep, scan of a symbol, startup order |
| Switches and caps | `main.py` 15311, 15933–16060, 20862, 21041, 22401 | `trading_control`, settings, `real_trades` | pause, resume, kill, daily loss cap, daily spend cap |
| Watchdog, open-protect | `main.py` 34929–35513 | heartbeats | restart on a stuck loop, protect positions at 09:15 |
| F&O candle universe | `kotak_fo_candle_feed.py` 192–463, 672–846 | `_universe_cache`, `_bg_resolve`, `_stock_resolve_offset`, `_resolve_continuation` | cold start, background rounds, reconnects |
| Feeds and candles | `kotak_live_feed.py`, the rest of `kotak_fo_candle_feed.py`, `nse_fo_chain.py` | last ticks, bars in progress | fold ticks into bars, store them |
| Session | `kotak_neo.py` | cached login | login, token refresh, `positions`, `holdings` |
| Strategies, pricing, reports, dashboard, research scripts, workflows | the rest | none of their own, or read-only | formulas, views, offline backtests, scheduled dispatches |

### How they interact

- The scheduler thread takes `_SCAN_DECISION_LOCK` and calls the paper engine for one symbol;
  every paper move calls a `_maybe_*_real*` function in the same thread, which talks to Kotak
  and writes the SQLite row.
- Commits that matter are followed by a push of the whole table to Upstash. Startup restores
  the tables in one thread per key before the loops start, under a deadline.
- The swing stop of one symbol is wanted by the scan, the SL-sync loop, the reconcile job,
  the healer and the open-protect pass: they meet in `ensure_resting_sl`, under one lock
  per symbol.
- Kotak acts by itself: it refuses orders late, fills stops, expires them at 15:15, and shows
  an order in its book some time after it acknowledged it.

### What is hard, and what correctness means

| component | hard because | correct when |
|---|---|---|
| Resting stop placement | scan-then-act on a late order book, cancel before place, lost acknowledgements | shares are reserved once; a stop is only replaced by a higher one; a failed replacement does not leave the holding naked; a stop comes back in the end |
| Real intraday long | a stop or target may fill between any two calls, answers get lost, the process dies | no position is forgotten while Kotak holds it; stops do not pile up; no target without a stop; naked positions are protected or sold; ghosts go away |
| Durable mirror | wiped disk, several pushing threads, partial restores | a push never drops an open position; a restore is complete; a closed position stays closed |
| Reconciliation | second actor on the same rows, `positions()` covers one day only | every Kotak position is owned by exactly one engine |
| Swing engine | scan, tick and reconcile work on one row without a lock; `positions()` and `holdings()` are different days | shares that lost their row get one again, shares without a stop get one or are sold, a wrong quantity is set right |
| Caps and switches | check-then-act over several engines | three buying threads spend at most three caps; a kill sells what it found or says that it did not; an OFF survives restarts |
| F&O | `positions()` lags a buy, a stop is refused until it shows it, the clock of the risk cut dies with the process | no row goes while its lot is held; a naked leg is stopped or sold; a ghost row and an orphan stop go away |
| F&O candle universe | a resolve takes longer than its ten minutes and its thread cannot be stopped; loop and background task share the universe, the offset and the report | resolves take turns, a cycle of rounds reaches every stock, expired contracts drop out, the feed comes back onto its newest universe |
| Scheduler, rotation | tick, bar sweep and swing trail share one lock, held over network calls; each of tick and sweep leaves symbols to the other | the tick is hardly held up; what is held is scanned for ever, and so is every other symbol; a sweep ends |
| Paper engine | legs of 1, 2 or 3 shares, ratcheting stop | legs add up; the stop never loosens |

`PROJECT.json` lists the hazards at their lines and, for each, the properties that cover it or
why none does yet.

## The modules

| module | models | lines of code it stands for |
|---|---|---|
| `RestingStop` | one symbol's protective stop, several callers | `kotak_real_orders.py` 333–376, 646–673, 869–1451, 1617–1637 |
| `RestingStopProofs` | proofs about it | |
| `RealLong` | the life of one real intraday long | `main.py` 10703–10807, 12101–12137, 16879–18763 |
| `RealLongProofs` | proofs about it | |
| `DurableMirror` | the three tables of real equity positions and their mirrors | `main.py` 150–436, 22471–22507, 30746–30960 |
| `DurableMirrorProofs` | proofs about it | |
| `TableMirror` | one table of the generic mirror, by the example of the real option legs | `main.py` 19308–19320, 19438–19461, 22814–22902, 23031–23197, 30843–30850 |
| `TableMirrorProofs` | proofs about it | |
| `OwnedPosition` | abstract: what an engine promises about the position it bought; refined by `RealLong` and `FoLeg` | |
| `FoLeg` | one bought option leg | `main.py` 19184–19664, `kotak_real_fo_orders.py` 140–336 |
| `FoLegProofs` | proofs about it | |
| `SwingLong` | one symbol of the swing engine, with the reconcile beside it | `main.py` 18364–18411, 25162–25852, 29369–29510, 34233–34373, 34553–34718, 35894–36646 |
| `TradingSwitch` | the switch over all trading, the spend cap, the kill, the copies of the switch | `main.py` 15311–15321, 15738–15746, 15956–15969, 16879–17197, 20870–20967, 21041–21105, 22401–22429, 23045–23201 |
| `TradingSwitchProofs` | proofs about it | |
| `FoUniverse` | which contracts the candle feed resolves and streams | `kotak_fo_candle_feed.py` 195–289, 325–463, 679–846 |
| `FoUniverseProofs` | proofs about it | |
| `ScanTurns` | which of tick and bar sweep scans which symbol, under the scan lock | `main.py` 24968–24975, 29539–29542, 30000–30317, 30445–30594, 30681–30687, 30885–30899 |
| `ScanTurnsProofs` | proofs about it | |
| `MCRestingStop`, `MCRealLong`, `MCDurableMirror`, `MCTableMirror`, `MCFoLeg`, `MCSwingLong`, `MCTradingSwitch`, `MCFoUniverse`, `MCScanTurns` | constants and symmetry for TLC | |

### RestingStop

One action is the code between two network calls of `ensure_resting_sl`; the program counter
of a caller is `pass[t].at`.

| state | code |
|---|---|
| `lock` | `_sl_symbol_lock(symbol)` |
| `recent` | `_RECENT_SL_PLACED[symbol]` within its 20 s window; `RecentExpires` ends the window |
| `pass[t]` | the locals of one call: wanted level and quantity, cancels still to do, mode, the order just sent, and whether the entry-day floor was above the market when it was sent (`breached`, `entry_floor_breached`) |
| `orders` | the day's SELL SL orders at Kotak: `sent`, then `resting` or `rejected`, then `filled`, `cancelled`, `swept` or `expired`; `shown` once `order_report` has them |
| `stop`, `held`, `session`, `bandFloor` | the strategy's stop, the holding, the trading session, Kotak's price band |

Abstractions: prices are levels (properties only compare them); the holding is one symbol;
`order_report` returns either every shown order or an error; the price `apply_entry_day_floor` reads before it sends
is any level or none (`NoPrice`), so the entry-day floor is raised to, passed over for the market, or left; a call that is retried inside
one helper (`_read_order_rows_with_retry`, four reads of `_confirm_order_status`) is one
action that succeeds or fails as a whole. Faults are bounded by `MaxFaults` and chosen by
`Faults`: an unreadable book, a lost acknowledgement, a failed cancel, a refused order, a
book slower than the 20 s memory, a racing exit, a restart.

### RealLong

Each `_maybe_*` function is a chain of actions: one Kotak call, or the commit and push that
follow its answer. `op.at` is the place in the function, and `"idle"` means the scan thread is
between two functions. The functions run under `_SCAN_DECISION_LOCK`, so there is one `op`.

| actions | code |
|---|---|
| `EnterOnPaperOnly`, `Enter`, `Entry*`, `TargetOk`, `End` | the paper entry of `_auto_signal_core` and `_maybe_place_real_entry`; the caps, gates and filters that return before the buy leave a paper entry only |
| `BookPaperLeg`, `Leg*` | `_maybe_place_real_partial_exit` |
| `PaperExit`, `Exit*` | `_maybe_place_real_exit` |
| `Tick`, `Sync*` | `_maybe_sync_real_stop_loss` with `_reroute_orphan_intraday_to_swing`, `_ensure_signal_state_for_real_position`, `_reconcile_real_qty`, `_real_sl_order_is_live` |
| `ClockRuns` | `protection_degraded_since` passes its tolerance |
| `Fill` | a resting order executes at Kotak |
| `Restart` | the process dies; `hydrate_real_positions_from_external` brings the row back without its strategy |

`row` is the SQLite row, `mirror` what Upstash has of it, so a restart loses exactly what was
committed but not pushed. `adrift` is nothing in the code: it remembers that shares may be held of
which no row speaks, because Kotak took a buy of which no row was ever written (its answer was lost, or
the process died in between) or because an order was counted as executed that was not; the reconcile job of
`SwingLong` finds them. The paper engine is an input: it may enter, raise its stop, book the
next leg or exit at any idle moment. The owner may hold `Manual` shares of the same symbol,
which a second sell would sell.

`place_real_entry` and `place_real_exit` answer ok for every order with an id whose status is not a
rejection (kotak_real_orders.py:333–375, 576–591), open, executed in part or unknown, and the row is written or
deleted all the same: that is the fault `unfilled` of `Enter` and `Sell`.

Abstractions: what Kotak executes of an order after its answer is left out, and a buy confirmed in part whose row
says just that part; the retries of
`_place_real_stop_loss_with_retry` are one call; stop prices are levels.

### DurableMirror

A row is its symbol; each symbol belongs to one engine (long, short, swing), and each engine
has a table and an Upstash key. A push is two actions, the read of the rows and the POST. The
hydrate jobs are threads named for their engine. Only the swing key is guarded: a push before
this process has restored it first tries to restore it, and is skipped when that fails.
`StartupRestores` is the deadline of `_start_scheduler` and the journal fallback of the long
table; nothing else runs before it.

Abstractions: a buy and the commit of its row are one action (a crash between them belongs to
`RealLong`), a POST takes effect as a whole or is lost, and a held symbol is not bought again.

### TableMirror

The other tables share one mirror. A table is pushed as a whole, in chunks and a meta key that
counts them, when its content differs from the content of the last push that succeeded; it is not
pushed before it was restored, and restored only while it is empty.

| state | code |
|---|---|
| `table`, `chunk`, `meta` | the local rows; the keys `c0`, `c1`, ... and `meta` at Upstash |
| `pushed` | `_generic_mirror_last_hash[table]`: the content itself stands for its hash |
| `hydrated` | the table is in `_generic_mirror_hydrated` |
| `thread[t]` | the place of a thread in `_generic_hydrate_table` (`meta`, `read`) or in the push (`write`, `record`), with the rows or chunks it carries |
| `up` | the startup handler has gone on to start the loops |

The option legs are pushed by the tick alone, so `Pushers` has one thread; the restore of the startup
handler is a second one once its deadline passed (`Timeout`). A SET that raises may have been
executed. The row of a leg does not change while it is open (its peak price does in the code, which
only makes pushes more frequent), and rows are not split between chunks: only whether the chunks
parse together is kept of the text.

### OwnedPosition

Three steps over three facts (what Kotak holds, whether the engine tracks it, whether another engine
owns it): an engine buys only what it does not track yet (`Buy`; a restart that brings back a row is such a
step too), and stops tracking only what is gone or was
handed over; a buy it never learns of, or what is left after a sell it wrongly counted, is left to the engine that
adopts what no table knows (`Lose`, `Missell`).
`RealLong` implements it with `tracked` = there is a row or a call that will decide about one, and
`handed` = the reroute gave the row to the swing engine, or shares went adrift; `FoLeg` with
`tracked` = there is a row or a buy about to get one, and `handed` = lots went adrift.
The property is `KeepsPromise` in both modules.

### FoLeg

| actions | code |
|---|---|
| `Enter`, `Book` and the placing loop | `_real_fo_buy_contract` 19184–19394: the buy, its INSERT, the first stop, its retries and the unwind |
| `Tick`, `SyncRead` … `SyncRecord` | `_sync_real_fo_option_sl` 19531–19640 and `ensure_option_trailing_sl` of `kotak_real_fo_orders.py`: adopt, raise, restore, the unprotected clock |
| `CloseCheck` … `CloseDrop`, `CloseUnsold` | `_close_real_fo_option_leg` 19438–19483 |
| `Fill`, `CatchUp`, `BookCatchesUp`, `Age`, `TimerEnds` | a stop executes; `positions()` and `order_report()` show what is true; the 120 s grace and the 180 s clock end |
| `Push`, `Restart` | the end of a tick pushes the row (30645–30650); the disk is wiped, and the row comes back as it was last pushed, with its older trigger and stop, or not at all |

A leg is one lot, a stop price a level. An order whose id came back counts as executed, here even without a read
of its status (kotak_real_fo_orders.py:157–160): `unfilled` is the fault that it is not. The answer of the buy may be
lost, and a crash may come between buy and INSERT. A new stop may be missing from `order_report` for a while
(`late_book`, `hidden`; kotak_real_orders.py:1197–1202 says so of the same call, and options have no memory of
what was just placed). History variables, nothing in the code: `adrift` (lots that no row stands for), `met` (a call began
while the other thread was in one) and `heard` (which faults happened that can hide a stop). Each entry has a number, so that a call that reads one row and writes later can meet
the row of another entry. The grace of 120 s is taken to be longer than the lag of `positions()` (guard of
`Age`), and a leg carried overnight is taken to be shown. The F&O switch, the caps and two-leg straddles
are left out. `Overlap` says whether scan and tick may be in the leg at once; the code has no lock there.

### SwingLong

Three threads: `scan` (the daily pass and its exits), `tick` (retry of entries and exits, stop sync,
heal, breach sweep, trail) and `reconcile`.

| state | code |
|---|---|
| `carried`, `bought`, `sold`, `stop` | Kotak: shares of the morning, fills of the day, the live SELL stop |
| `row`, `mirror` | `real_positions_swing` and its Upstash key |
| `union`, `intra` | `tracked_union`; a `real_positions` row the reconcile adopted, without a strategy |
| `paper`, `done` | `signal_state_swing`, `swing_done_today` |
| `dusk`; `Night` | end of the session; settlement, day orders gone, a new day |
| `op` | per thread the function in progress, with what it has read: the reconcile keeps its snapshot of `positions()`, `holdings()` and the order book until its end |

Abstractions: the clock is the session only; an entry is one share; `ensure_resting_sl` is one action
(its own interleavings are `RestingStop`); the INSERT of an adopted row counts as committed at once; the
real switch, gates and caps are "an entry may be refused"; the option leg beside the shares and the
restores of paper state are left out; when `positions()` fails the round is taken as not begun.
`IntraProtect` and `IntraSell` stand for what `RealLong` does with an adopted row.

### TradingSwitch

The intraday engine is one thread; the swing engine buys from two, its pass that the tick starts and does
not wait for (main.py:30388) and the tick's retry of what has no real row yet (30428). A kill runs in the
thread of its HTTP call. A symbol belongs to one engine. An entry is five actions (`Size`, `Check`, `Buy`, `Book`, and the stop), an exit three, a kill
reads a table, then cancels and sells row by row, and turns the switch off at its very end. The switch has
three copies: the row, the generic mirror (pushed by the tick, restored at the start or by a later tick),
the journal file of the 15-minute workflow. Three variables are nothing in the code: `command` and its
number are the user's last word; `unlogged` says that the log has missed a buy, or that a restart brought
back another total (`Restored`: what was mirrored of the log, and the journal's total on top when it is
higher); `strays` are the symbols bought without a row or twice, or of which an order was open when its call
was answered. `place_real_entry` and `place_real_exit` answer ok for every order with an id that is not
rejected yet, so `Buy` and `SellOk` may be answered with less executed than was ordered, and the row is
written or deleted all the same; what such an order executes later is left out. Left out: the separate switches for real orders, the other gates of an entry, shorts
and option legs in the kill, the daily loss cap; the stop stands for the target too, and the tables of
the positions survive a restart here (`DurableMirror` is about when they do not).

### FoUniverse

The feed's loop (`phase`) and its background task share one event loop, so every stretch between two
awaits is one action; the resolve itself runs in a thread (`thread[owner]`), which `asyncio.wait_for`
abandons but cannot stop (`orphans`).

| state | code |
|---|---|
| `stocks`, `index`, `partial`, `age` | `_universe_cache`: the legs of each stock and of the indices, `partial`, the time since `resolved_at` |
| `current` | the universe the loop subscribed to is the cached one |
| `thread`, `orphans`, `report` | the call an owner awaits; calls nobody awaits; the stocks named `deadline_exceeded` in `_feed_status["unresolved_legs"]`, which every call overwrites at its end |
| `task`, `swapped`, `cooling` | `_bg_resolve` |
| `offset`, `due`, `counted` | `_stock_resolve_offset`, `_resolve_continuation` |
| `tried`, `mixed` | nothing in the code: the stocks really tried in this cycle, and whether one of its rounds counted from the report of an orphan |

| actions | code |
|---|---|
| `Return`, `OrphanEnds` | the end of `resolve_fo_universe` |
| `FullLands`, `BackgroundLands` (both `Land`), `ResolveTimesOut`, `BackgroundFails` | `_resolve_full_universe` after its await, or given up |
| `ColdStart` … `Retry` | `run_fo_candle_feed` |
| `Collect`, `BackgroundStarts` | `background_resolve_step` at a wake of the stream |
| `Settles`, `FourHours`, `Midnight` | time; contracts expire at the turn of a day |

Abstractions: a stock is its place in the list, the five index underlyings are one, and the legs of one
underlying are one leg; prices answer for all stocks of a round or for none; the 30 s between rounds, the
backoff and `_heavy_startup_resolve_lock` only delay and are left out. A restart is a new `Init`. The ticks
and the bars folded from them are not modelled. Faults: prices are missing, a round reaches no stock, a
resolve outlives its `wait_for`, the socket ends, the login fails.

### ScanTurns

| state | code |
|---|---|
| `longs`, `reals`, `shorts` | the symbols with a row in `signal_state`, `real_positions`, `signal_state_short` |
| `lock` | `_SCAN_DECISION_LOCK` and who holds it |
| `tick` | `_scheduler_tick`: before its visits, waiting for the lock, in a scan, at the swing trail; `todo` is the rest of `symbols_this_tick` |
| `sweep` | `_bar_sweep_once`: before its settings, between two symbols (`picks`), waiting, in a scan; `todo` is the rest of its list, `fresh` those the tick scanned after the list was drawn up, `late` that its deadline has passed |
| `done`, `due`, `last` | `_SCAN_LAST_DONE` against the last bar; a bar closed for which no sweep started; the status of the last sweep |
| `cursor` | `_scheduler_rr_cursor` |
| `overtaken` | nothing in the code: scans of the sweep since the visits of this tick began |

| actions | code |
|---|---|
| `TickReads`, `TickStarts`, `TickLocks`, `TickScans`, `TrailLocks`, `TrailEnds`, `TickCrashes` | `_scheduler_loop` and `_scheduler_tick` |
| `SweepWakes` … `SweepEnds`, `SweepFails` | `_bar_sweep_loop`, `_bar_sweep_once`, `_bar_sweep_scan` |
| `Scan` (part of `TickScans` and `SweepScans`) | `_scan_equity_symbol_sync` |
| `BarCloses` | the clock passes a five-minute boundary |

Abstractions: what the engines decide in a scan is nondeterministic within their own gates (session, switch,
what is open); the downloads before the scans are part of the action before them; the status of a sweep is
fine, out of its bar or an error; a cursor restored after a restart is the old one or 0. A tick may crash
before its visits only, because a visit catches its own exceptions, and a sweep fails before its scans only.
The option underlyings, the options overlay and the other blocks of a tick are left out.

## The runs

| run | instance | states | shows |
|---|---|---|---|
| `stop_quiet` | 2 callers, 2 levels, an entry-day stop at the higher, any market, up to 2 shares, a racing exit, 2 orders | 5,874,167 | `OneScanAtATime`, `NoDoubleReservation`, `ReplacementNeverLoosens`, `TypeOK` while Kotak answers |
| `stop_faulty` | 2 callers, 2 levels, an entry-day stop at the higher, 2 bands, 1 share, 1 fault of 6 kinds | 9,826,145 | `SingleFaultKeepsAStop` |
| `stop_live` | 2 callers, 1 level, also the entry-day stop, 1 share, 1 fault of 7 kinds | 152,474 | `EventuallyProtected` under fairness |
| `long_restart` | 3 shares beside 1 of the owner, 1 fault of 4 kinds, 10 orders | 1,224,948 | `AtMostOneStop`, `TargetOnlyBehindStop` |
| `long_live` | 3 shares, 1 entry, 2 levels, 2 faults of all 7 kinds, 11 orders | 1,267,443 | `NeverForgets`, `KeepsPromise` (the refinement), and under fairness `GhostIsCleared`, `NeverNakedForever` |
| `mirror_safe` | 3 positions of 2 engines, 1 writer, 3 faults | 57,954 | `OpenStaysMirrored`, `ClosedStaysClosed`, `MirroredIsTracked` |
| `table_mirror` | 3 legs in one chunk, 1 pusher, 3 faults of 4 kinds | 299,433 | `OpenStaysMirrored`, `OpenReachesMirror` under fairness, `TypeOK` |
| `fo_turns` | 1 entry, 4 stop slots, 2 levels, 2 faults of all 9 kinds, threads take turns | 834,013 | `NeverForgets`, `NoOrphanStop`, `KeepsPromise`, `TriggerNeverLowers`, and under fairness `NakedLegEnds`, `GhostRowEnds` |
| `swing_mends` | reconcile beside scan and tick, 2 events out of buys and 6 kinds of fault | 436,252 | `HeldIsTracked`, `StopCoversHeld`, `RowAgrees` under fairness |
| `switch_kill` | 1 intraday symbol, 1 swing symbol, 3 threads that buy, a cap of 1, 3 events out of buys, commands and 9 kinds of fault | 3,635,255 | `OverspendBounded`, `KillAccounts`, `MirroredOffKept`, and under fairness `MirroredOffReturns` |
| `universe_serves` | 3 stocks, 2 faults of all 5 kinds, days without bound | 308,777 | `OneResolve`, `CycleComplete`, and under fairness `ExpiredDropOut`, `ServesAgain` |
| `scan_fair` | 1 equity, 1 evidenced index, 2 indices in rotation, a batch of 1, 1 entry or exit, 1 command, session turn, crash or restart, bars without bound | 248,164 | `TickFirst`, and under fairness `HeldScanned`, `Covers`, `SweepReturns` |

**Why the bounds are enough.** Two callers are the smallest number that can race, and a
third only repeats the race with one of them. Two price levels tell "higher" from "lower"; two
bands make the band retry move once and then stop. Three shares are the smallest quantity with
two staged legs and a trailing rest, two the smallest with one; one share never stages.
`MaxOrders` is larger than the number of orders
these histories place, so that no run ends because of it: deadlock is checked in all
runs of `RealLong`, `DurableMirror`, `FoLeg`, `SwingLong`, `FoUniverse` and `ScanTurns`, and a call that waits for an order id
would show.
`RestingStop` really may stop (a holding of zero at the end of the faults), so its runs
do not check deadlock; nor do those of `TableMirror`, where every leg may be closed or lost and the
table stay as it was pushed, and of `TradingSwitch`, where the switch may be off and nothing held. One chunk is what the code makes of any table below 600,000 characters.
With two faults `AtMostOneStop` fails (a restart loses the id of one
stop, and a leg then places its fresh stop without a sweep of the book), which is why
`long_restart` has one; with `Manual` = 0 it holds with three faults of all kinds and two entries too.
Two shares are the smallest holding that can outgrow its stop, which `ReplacementNeverLoosens` needs to
say anything about its exception. All properties of `long_live` were checked once with two entries as well, where an
old row may meet a new position (one fault of all kinds, 501,557 states); there `GhostIsCleared` needs its
exception, see the double ownership below.
`TypeOK` is an invariant of a run where it is not proved, and of `stop_quiet`.

`fo_turns` has one entry and threads that take turns; its safety properties were checked once with three faults
(3,492,520 states). Overlapping threads do not finish in the time of a run; of them the proofs speak.
`swing_mends` lets the reconcile overlap anything, since it works for minutes on a snapshot; all three
threads at once with one event and no fault hold as well (213,160 states), and with two buys
`RowAgrees` still holds when the threads take turns (116,492 states). In `switch_kill` a cap of one share
makes every buy spend a whole cap, three events let each of the three threads buy once, and the swing symbol
is the one two of them meet at.
`universe_serves` has the smallest number of stocks with which a turn that was cut off wraps around the
end of the list and still leaves one out. One fault is not enough for either dead end of the feed
(below), two are. `scan_fair` has more symbols in rotation than the batch takes, so that the rotation needs several ticks, an
equity that the two scanners hand to each other, which makes the rotated list longer and shorter, and a symbol only
the tick ever visits. That is the smallest instance in which a list that never settles starves a symbol: without
`FlatSettles` in its premise `Covers` fails there. With two equities, one of them evidenced, and two indices the
properties were checked once (810,450 states).

**Fairness.** `RestingStop`: the periodic loops keep calling, so `Call` of the current level
and `Acquire` are strongly fair (the lock is free only now and then), every network call
returns (weak fairness of the steps of a pass), and Kotak decides on and shows every order.
`RealLong`: strong fairness of `Tick`, because the scheduler keeps visiting a symbol with an
open row and not every visit enters or exits on paper; weak fairness of `Step`, because every
call has a timeout; weak fairness of `ClockRuns`, because time passes. No fairness is assumed
of fills, faults, the paper side or restarts. `TableMirror`: weak fairness of `Sync` and of the steps
of a push or restore, because every tick ends with a sync and every request has a timeout; none of
faults, entries and exits. `FoLeg`: `positions()` catches up, rows grow old and the 180 s pass (weak
fairness), calls return (weak fairness of `Step`), and the 30 s tick comes back (strong fairness of
`Tick`: the other thread holds the leg now and then, and no sync runs while the session is closed). Its
liveness is therefore conditional on a session that stays open and on the F&O switch. `SwingLong`: calls
return; the reconcile is scheduled every 5 minutes (strong fairness, it starts only in the session); days
and nights pass. No fairness of fills, faults, paper decisions or exits. `TradingSwitch`: weak fairness
of `Mirror`, with which every tick ends, and of `Close`, because the calls of a kill have timeouts; none
of the engines, the workflow or the user. `FoUniverse`: weak fairness of the loop, of the wakes of an open
socket, of the background task and of every call that is still awaited, which all have timeouts; the retry
pause and the five minutes pass. None of faults, orphans, four hours or midnights. `ScanTurns`: weak fairness of
tick and sweep, because every call of a scan has a timeout and both loops catch what is raised; bars close; strong
fairness of the two that may find the lock taken again and again, the sweep and the trail. The tick's own
wait needs weak fairness only, because the sweep gives way. None of scans that trade, commands, session turns,
crashes or restarts; a call that never returns is outside the model, and would stop both scanners. Nothing in `DurableMirror` is about liveness: a
lost push is never repeated by the code, so there is none to state.

## What is proved

Proofs are by induction on the steps of the specification and hold for every value of the
constants that satisfies the assumptions named in the modules.

| theorem | says | argument |
|---|---|---|
| `RestingStopProofs!TypeCorrect` | `TypeOK` always | one case per action; `Finish` and `Placed` are lemmas of their own |
| `RestingStopProofs!LockExcludes` | `OneScanAtATime` always | inductive together with `TypeOK`: a pass leaves `idle`/`lock` only when it takes the free lock, and a pass that gives the lock up becomes idle in the same step |
| `RestingStopProofs!NeverReservesTwice` | `NoDoubleReservation` always, any number of callers, levels and shares, if `Faults` holds no more than exits and refusals (`KotakAnswers`) | `BookInv`: one order at most lives (`OneLive`); it is shown, remembered or about to be confirmed by its pass (`Accounted`); a pass that sends has cancelled it (`Cleared`). Then nothing is reserved when Kotak decides on an order. The hypothesis is needed: an acknowledgement that is lost, a cancel that fails, a book that is late beyond 20 s, or a restart leaves a live stop of which the next pass does not know |
| `RestingStopProofs!StopRatchetsUp` | `ReplacementNeverLoosens` always, all faults | `RaisesInv`: what a pass that replaces is going to send, or has sent, is at least the level asked for, and at least the entry-day stop unless the market was below that when it was sent; and it is at least the best stop it cancelled unless that one covers too few shares, which the scan found and the order still says. What a restore sends is at least the stop it puts back. Orders keep their trigger and quantity (`OrdersKeep`) |
| `RestingStopProofs!FailedReplaceRestores` | `SingleFaultKeepsAStop` always, with any kinds of fault, if `MaxFaults <= 1` | `SavesInv`: a pass asks for no more shares than are held (`Fits`); a pass that restores has another stop resting or the fault is used up, and one that knows of no stop from its last attempt has another one resting unless that attempt was the replacement and met the fault (`Sheltered`). A refusal is then for shares another stop reserves, for the price band, where a next band exists, or it is the fault. The property asks that the level wanted and the stop cancelled lie in the band (`InBand`): more shares let a lower level replace a higher stop, and if the band then refuses that level one fault is enough for the restore to be refused as well. The hypothesis is the one the property names: with two (TLC: the acknowledgement of the replacement and that of the restore are lost) the restore fails too |
| `RealLongProofs!TypeCorrect` | `TypeOK` always, for any number of faults and entries | needs more than types: a call past the commit of its row works on a row with shares (`HasRow`), or its stop would be placed for zero shares; and the order id a call carries is one of the book (`OpKnown`), or it could not be written into the row |
| `RealLongProofs!TargetBehindStop` | `TargetOnlyBehindStop` always | `IInv`: the ids in the row and in its mirror are orders of their kind (`IdsKnown`), so that cancelling the target can never cancel the stop; on the way from an accepted stop to a target that stop is the row's and is not cancelled (`BehindStop`). The steps are one lemma each; a handful of lemmas say what a cancel, a sweep, a placement and a sell do to the book. A second group shows that only `EntryTargetCall` and `LegNextTarget` append a target (`StepTargets`) |
| `RealLongProofs!RowOutlivesShares` | `NeverForgets`, if the account holds no other shares of the symbol (`OnlyOurs`: `Manual` = 0), any quantity, number of entries and faults of all kinds | `Settled`: while the position is the bot's and no share is adrift, what is held is never more than the row says (`RowCovers`, with what a call has sold and not yet booked said at its place) nor more than its mirror says (`MirrorCovers`); no target ever rests (`NoTarget`), because from an accepted stop to the target behind it that stop covers all that is held (`StopCovers`) and Kotak has no room beside it. So no refused cancel of a target is taken for a fill, and no leg is subtracted twice. The hypothesis is needed: with one share of the owner's the row is lost without any fault |
| `RealLongProofs!Implements` | `KeepsPromise`: the long implements `OwnedPosition`, if `OnlyOurs` | the same invariant; a restart restores the mirror, which covers what is held, and every other step leaves the position tracked, sells, counts a sell that was none, or gives the row up after `Net` is 0 or adrift |
| `RealLongProofs!OneStopOfOurs` | `AtMostOneStop` until the swing engine takes over or shares go adrift, if `OnlyOurs`, all faults, restarts too | `Bears`: every stop that rests covers all that is held, so Kotak has no room for a second one, whatever ids the row has lost; `Born`: nothing is at Kotak before the first buy |
| `RealLongProofs!OneStopAlive` | `AtMostOneStop` until shares go adrift, if the process is not restarted (`NoRestart`), whatever the owner holds, all other faults | `Kept`: where a call is about to place a stop none rests (`Bare`); after an accepted one the call knows it, and elsewhere the row does; a row that went with a stop left behind went after a sell, and no entry follows a sell. With the owner's shares and a restart both missing hypotheses matter: a refused stop and a restart leave two stops |
| `DurableMirrorProofs!TypeCorrect` | `TypeOK` always | one case per action |
| `DurableMirrorProofs!MirroredTracked` | `MirroredIsTracked` always, any number of writers, any faults | `GInv`: what a push carries is still in the table or no longer open (`SentIsTracked`), and a hydrate between read and insert carries or has all open mirrored rows of its engine (`InsertCovers`). Both are needed, since the mirror may grow while a hydrate is under way |
| `DurableMirrorProofs!GuardedPushKeepsOpen` | `OpenStaysMirrored`, when at most one thread writes and no hydrate job outlives the startup deadline | `IInv`: hydrate jobs, startup handler and writer work one after the other (`InTurn`), past the guard the key is restored (`PastGuard`), nothing mirrored is missing from a restored table (`NothingMissing`), so a snapshot is complete (`SnapshotComplete`). The assumption is necessary: two writers can post their snapshots in the other order |
| `DurableMirrorProofs!ClosedNotRevived` | `ClosedStaysClosed`, under the same condition (`OneWriter`) | what a hydrate job read from Upstash is still there when it inserts (`StillMirrored`), because whoever could push is waiting for it; only a job that read the journal inserts more |
| `TableMirrorProofs!TypeCorrect` | `TypeOK` always, any chunk size, any number of pushers, all faults | `IType`: no content, wherever it is kept (table, chunk, rows of a push, chunks of a restore), holds a position twice (`Contents`) nor one that was never opened (`Apart`); the second half is why `Open` never makes a second row of one that is already there. Needs what cutting, joining, appending and removing do to sequences without repetitions |
| `TableMirrorProofs!PushKeepsOpen` | `OpenStaysMirrored`, under `OneTick`: one pusher, tables of one chunk, nothing opened before the restore | `IMirror`: a restored table has every open position of the mirror (`Served`), one that was not restored is empty (`Unserved`); a push under way carries every open position of the mirror and only open ones that are still in the table, and the chunk it has written is its own (`Sending`); what an unfinished restore has read is still there (`Reading`). All are needed together: the push is safe because the table was complete, the table because nobody pushed while it was read |
| `TableMirrorProofs!RestoreIsComplete` | `RestoredHasOpen`: a table that counts as restored has every open position that is mirrored, under `OneTick` | follows from `Served` |
| `FoLegProofs!TypeCorrect` | `TypeOK` always, overlapping threads too | one lemma per kind of call |
| `FoLegProofs!RowOutlivesLot` | `NeverForgets` always, however the threads overlap, any number of entries, slots, retries and faults | `IInv`: until lots go adrift at most one is held (`OneLot`); when the last entry is not young, `positions()` shows no less than is held (`SeenWhenOld`); the row of an older entry than the last has no lot (`OldEntry`), nor has the last entry when a call is about to delete its row (`SoldBeforeDrop`), whatever the other thread does meanwhile; between a buy and its INSERT there is no row and none at Upstash (`BoughtLast`); numbers of entries are never ahead (`LegsKnown`) |
| `FoLegProofs!Implements` | `KeepsPromise`: the leg implements `OwnedPosition`, however the threads overlap | the same invariant; every step but the buy, the delete, a sell and a restart leaves held and tracked as they are; a row that a restart brings back is a buy of nothing, a deleted row was sold or is adrift |
| `FoLegProofs!StopsGoWithRow` | `NoOrphanStop` always | `BookInv`: what is hidden was heard of (`HiddenHeard`); until two calls meet only one is in progress (`Alone`), and for it (`Fits`) a sync has its row, the stops a call read are all that rest, and a close past its sweep has left none, unless one of the faults happened that `NoOrphanStop` excepts. Two calls that meet are excepted because they do leave a stop behind: a sync places one after the other thread's close |
| `FoLegProofs!TriggerClimbs` | `TriggerNeverLowers` always | `TrigInv`: while the lot is held and nothing excepted has happened (`Clean`), a stop at the level of the row rests or is about to (`Backs`), what a call works with is at least that level (`Climbs`), and Upstash has no higher one for the same entry (`OlderBelow`). The exceptions are needed: with three faults a cancel that fails twice lowers it, see below |
| `TradingSwitchProofs!TypeCorrect` | `TypeOK` always | one lemma per actor |
| `TradingSwitchProofs!Overspend` | `OverspendBounded` always, any cap, any number of symbols and faults | `Within`: what a thread is about to buy fits the cap by itself, and what is logged with what all three are about to buy is at most three caps, as long as the log has every buy; the bound on `spent` alone is not inductive, because a sized entry logs later |
| `TradingSwitchProofs!OffKept` | `MirroredOffKept` always | `Copies`: every copy of the switch is the last command or an earlier one; a push in flight carries the row as it is or an overtaken command; a restore in flight carries what is at Upstash; once an OFF is mirrored, whatever was read back or is being pushed is an OFF |
| `TradingSwitchProofs!KillAnswers` | `KillAccounts` always, no hypothesis | `Accounts`: of a symbol that is no stray, what is held has a row that covers it, unless some thread is about to book it, and a thread deletes a row only when nothing is held (`Written`); what the kill still has to sell is at least what is held, and of what it has passed something is held only if it is listed or, in the swing table, before the list is made (`Closing`). `Gives` says once what a step of any call may do to such a symbol; two threads never have it in hand for a buy, because the second buy makes it a stray |
| `FoUniverseProofs!TypeCorrect` | `TypeOK` always, for any number of stocks | one case per action; that `offset` stays a place of the list is modular arithmetic |
| `FoUniverseProofs!Sequential` | `OneResolve` always | `Exclusive`: the loop awaits a call only in its two resolving phases, and the task only while it is running; a foreground resolve starts only without a task, and a task only from the streaming phase |
| `FoUniverseProofs!CyclesCover` | `CycleComplete` for any number of stocks | `Rotated`: until a round read a wrong report, the stocks tried in the open cycle are the turn of `counted` places that ends at `offset`, and a call starts there; two turns of which one begins where the other ends are one turn, and a turn of at least `N` places is all stocks (lemmas on `%`) |
| `ScanTurnsProofs!TypeCorrect` | `TypeOK` always, for any watchlist and batch | one case per action; the cursor stays a number because the list of flat symbols is finite |
| `ScanTurnsProofs!OneDecides` | never two of tick, sweep and trail in a scan at once | `Held`: the lock names the thread that is inside, and is free only when none is |
| `ScanTurnsProofs!TickGoesFirst` | `TickFirst` always, any number of visits | `First`: while the tick wants the lock, the scans that have overtaken it and the one still on its way to the lock are one together; the sweep picks no other |

Every invariant was first checked by TLC, on the instance of the run or a smaller one, before its steps
were proved; the hypotheses are what those runs showed to be necessary, and each of them is a value of
`Faults` or `Manual` that the runs use or leave out. `FoLegProofs` has no hypotheses. `AtMostOneStop` is also checked where neither of
its theorems applies: `long_restart` has a share of the owner's and a restart.

The hypotheses of `OneTick` are what the code does for the option legs: the tick alone pushes them
(main.py:30645–30650), a table below 600,000 characters is one chunk (23188), and an entry comes after the
restore unless the startup read failed. Each is needed, as TLC shows on two or three positions: with two
pushers the older content may arrive last; with several chunks a push that stops half-way leaves chunks that
do not parse together; a row written before the restore makes the table count as restored (see below).

Two kinds of recursion meet the proofs: the shares that resting orders reserve together are a fold over a
finite set, and chunks are joined and rows inserted by folds over sequences. The library's induction
theorems cannot be used with these provers, so the equations of a fold are proved by the least
counterexample: a set of numbers that is not empty has a smallest one (`LeastNumber`), and the smallest
size at which the equation fails contradicts the step. `RestingStopProofs`, `RealLongProofs` and
`TableMirrorProofs` hold these lemmas (`SumsExist`, `SumsBound`; `CutRows`, `JoinRows` and their
neighbours), and no property hangs on an unproved fact about sums or sequences.

Only model-checked: `NeverForgets` and `AtMostOneStop` of `RealLong` where the hypotheses of their theorems
fail (both are false for some values of the constants: a leg subtracted twice, below, violates the first,
and two faults the second); everything about `SwingLong`, whose `TypeOK` is the one invariant of a
run that no theorem states; and all liveness (`OpenReachesMirror`, `ExpiredDropOut`, `ServesAgain` and the others),
which is out of the proof system's reach.

## Where the code departs from its own texts

These were found with smaller instances of the modules, or when a property failed and had to be stated
with its exception; they are not kept as runs.

- **Bought twice** (`SwingLong`, scan and tick at once, no fault): the scan pass commits the paper position and then needs several
  calls before its own buy and INSERT; the tick's retry sees a paper position of today without a real
  row and buys too (main.py:25811, against "never buy more than the paper signal called for", 25517).
- **A leg subtracted twice** (`RealLong`, 2 shares, no fault): when the owner holds more shares of the symbol (otherwise
  Kotak has no room for the target beside the stop, which is what `RowOutlivesShares` rests on), a resting target fills, `_reconcile_real_qty`
  lowers the quantity to what Kotak holds, and the partial exit, which takes the refused cancel of
  that target for a fill, subtracts the same leg again. With two shares the row is deleted
  and its last share left without a stop.
- **Two pushes out of order** (`DurableMirror`, two writers): the older of two snapshots may reach Upstash last
  and drop an open swing position.
- **A written table counts as restored** (`TableMirror`, a row written after an unreadable start): when the startup restore of a table fails
  and an entry writes a row before the retry, the retry finds the table not empty, marks it restored
  (main.py:23053) and the next push replaces the remote copy.
- **A leg sold although its stop has sold it** (`FoLeg`): within 120 s of an entry a close does not
  believe a flat `positions()` and sells, also when the stop has fired meanwhile (main.py:19444, against
  the comment at 19439).
- **Sold on the order id alone** (`FoLeg` and `RealLong`, one order that does not execute): the row of an option leg is deleted when its
  sell has an id (kotak_real_fo_orders.py:157–160, main.py:19458–19459; no status is read), that of an intraday long
  for every status but a rejection (kotak_real_orders.py:576–591, main.py:17959–17960). If the order then does not execute, lots are
  held without row, stop or risk cut. `NeverForgets` excepts them as `adrift`.
- **A row from before the raise** (`FoLeg`, one restart): the table is pushed at the end of a tick only, so a restart after a raise
  brings back the row with the older, lower trigger; the next sync adopts the stop that really rests. A restart
  between the entry and the first push leaves a lot without a row.
- **The trigger of an option stop is lowered** (`FoLeg`, three faults): a sync may be refused the cancel of the old stop
  twice, so that two stops rest; when the row was rolled back by a restart or a refused sell, a later sweep cancels
  the higher of them and the next sync adopts the lower (against main.py:19595, "the trigger never lowers").
- **A stop replaced by a lower one** (`RestingStop`, 2 shares, no fault): the holding grows, so the stop that rests covers too few shares;
  a caller that read its level before a later raise, or retries with the one stored at entry, cancels it and places
  its own level (kotak_real_orders.py:1410–1430, against "a stop is never lowered here", 1350 ff.).
  `ReplacementNeverLoosens` excepts exactly this.
- **A kill with shares that were never written down** (`TradingSwitch`, one restart): a buy whose process dies before the INSERT
  leaves shares without a row; the kill walks the rows and neither sells nor lists them, and with a second entry of the
  symbol it sells a part of what is held. `KillAccounts` excepts those
  symbols (`strays`).
- **A kill that guesses closed** (`TradingSwitch`, no fault but an order that stays open or executes in part): the kill must
  "never guess closed" (main.py:20940), but its sell counts as done for every status except a rejection
  (kotak_real_orders.py:576–591), the row is deleted (20898) and the symbol is not listed. The exits and the close
  button take the same answer. `strays` has these symbols too.
- **Three caps in a day** (`TradingSwitch`, no fault): the scans' lock is there "so the daily-loss / position caps cannot
  race" (main.py:22546), but the intraday entry, the swing pass and the tick's retry read what was spent before any of
  them logs its buy, and a restart in between may find less of the log. `OverspendBounded` is what is left of the cap.
- **A feed that stops for good** (`FoUniverse`, two faults): the loop is to "run forever … on any failure
  wait … before starting over" (kotak_fo_candle_feed.py:748–752), but it waits for nothing when the universe
  is empty and the loop may not resolve. First way: the cold start finds no index price, so the value is `{}`
  and partial, and the full resolve that follows times out; the foreground resolve needs `partial` to be
  false (line 774), the background one runs only while a socket streams. Second way: a background resolve
  ends while the socket is down and leaves an empty universe; the finished task is collected only while
  streaming (731–737), and the loop resolves only without a task (774). `ServesAgain` excepts exactly these
  two states (`DeadEnd`).
- **Two owners, and a ghost for ever** (`RealLong`, 2 entries, one restart): the reroute hands a restored row to the swing
  engine, and the intraday entry, which looks at its own table only (main.py:16900), buys the same symbol again.
  When that position is closed by its stop and target, the exit that should remove its row refuses
  a symbol the swing engine owns (17871–17877), so the row stays. `GhostIsCleared` excepts such a symbol.
- **An open short nobody visits** (`ScanTurns`, a pause or a holiday): "Open positions are NEVER gated by this" (main.py:30500),
  but `symbols_this_tick` is made of paper longs, real longs and option underlyings (30568); a symbol that is only
  short is visited by rotation, evidence or the sweep, and a pause stops all three.
- **The tail of the list** (`ScanTurns`): the sweep is to scan "every flat NSE equity once per bar" (30539), but starts at the head of
  the watchlist after every bar (30292), and the tick leaves those symbols to it. While sweeps run out of their bar
  the tail is never scanned; `Covers` excepts that.
- **The symbol the cursor always passes** (`ScanTurns`, sweeps that fail every other bar): "the round-robin must cycle through
  all 2661 watchlist symbols" (main.py:30507), but its cursor is an index into a list made anew at every tick (30545), and a sweep that failed
  gives the flat NSE equities back to the rotation until the next one succeeds. While the list changes between
  two ticks the cursor may land past the same symbol every time; `Covers` asks for a list that settles.

Seen while modelling, intraday and mirrors: the hydrate INSERT of the intraday table
(main.py:244) omits the strategy, so a position restored before its stop id was pushed looks like
an adopted holding and is handed to the swing engine; the long and short tables of `DurableMirror`
are pushed whether or not this process has restored them (main.py:188), so after an unreadable
startup the first push overwrites the remote copy; when the SET of the meta key was executed but
raised and the table then returns to the content pushed before, the hash matches and the closed leg
stays in the generic mirror until the next change (main.py:23186); tables of the generic mirror
that are pushed from two threads (`sl_order_snapshot`, `tracked_union`) may be left with the older
content and the newer hash; a stop that fires between the
`positions()` check and the market sell of an exit is sold a second time from shares the owner
holds (main.py:17886–17958); after a leg whose fresh stop was refused the next sync does not
retry, because `sl_trigger_price` is kept (main.py:18592, against the comment at 17748); a leg
that was not sold is not retried although its message says so (main.py:17654); the 20 s memory
may adopt a stop Kotak has rejected meanwhile, which the next pass repairs; a symbol the swing engine
owns can get an intraday row, because the entry looks at its own table only (main.py:16900).

Swing: `positions()` overrides `holdings()`, so a carried share with an add-on of today counts too small
against the maximum at 34660; a carried share with a buy and a sale of today nets to zero in `holdings()`
(34615) and its row is deleted until the next morning; the heal subtracts today's sales twice (34316); a
stop for fewer shares than are held is not enlarged before the night; the breach exit ignores the shares
bought today (34255); the reconcile writes from snapshots that are minutes old, and with an unbounded
number of buys a day a row could be lost again and again.

Options: an unreadable Kotak at the close leaves the stop resting while the row goes (against 19405);
`_fo_sl_unprotected_since` survives paper exits, so the next entry of the same key may be cut at once;
with overlapping threads a DELETE by `leg_key` may take a newer row (`adrift`), and a stale sync may place a stop
after another thread's close (`met`); the trigger may be lowered on a row whose position is gone.

Scanning: a scan that began before a bar closed and ended after counts as a scan of the new bar (30206,
30237); the round-robin cursor is an index into a list that changes from tick to tick (30545), so a symbol may
be passed over or visited twice; `TickWants` protects the visits of a tick, not its swing trail, which the
sweep may overtake any number of times (29541); the short engine looks for a paper long of the same symbol, the long one
not for a short (14604).

Candle feed: an abandoned resolve overwrites the report from which a later one counts the stocks it tried
(697–702), so a cycle may end early or the offset skip a stock; a round that reaches no stock ends the
cycle (707, against "until every stock has had an attempt", 218); a stock that was not reached carries its
expired legs on, so right after a background resolve the universe is stale again (283–286) and a socket
that drops then goes dark for a foreground resolve, which B-1388 (196–197) was to avoid.

Switch: a database that cannot be read lets a real entry pass (15741–15746, while 15317 says the
real-order gate "fails closed separately"); `set_trading_control` commits but does not push, so a restart
before the next tick undoes a pause ("MUST survive a Render redeploy", 22402); a kill turns the switch
off only when everything is closed (21059–21066), so entries go on beside it and a restart during it
leaves trading on; after an unreadable start there is no row and trading is on until the retry, which
then overwrites a command given meanwhile (23053, 23070); an OFF in the journal overrides a newer ON
(22417); the cap counts logged buys only, not those whose answer was lost or whose INSERT failed; the
kill's intraday loop sells the quantity it read at its start and does not ask Kotak first.

## Not modelled

Marked in `PROJECT.json` component by component. Formulas on prices (strategies, indicators,
option pricing, sentiment, ROC), read-only endpoints and the dashboard, downloads and caches,
offline research scripts and the workflow files hold no state whose order of steps matters.
The remaining components are in the plan.

In `RealLong`, the other writers of a row are missing: the reconcile job, the close button, the
kill switch and the morning alignment. A buy whose answer was lost stays untracked there;
`SwingLong` has the reconcile that adopts it, and `TradingSwitch` the kill beside both engines.
`ScanTurns` has what decides who scans, and none of the other blocks of a tick.

## Plan

Order of work, most important behaviour first. A run of a new module takes the place of one of the
less telling ones, whose findings stay documented above.

1. `RestingStop`, `RealLong`, `DurableMirror`, `TableMirror` with runs and proofs (done).
2. `RealLongProofs`, `FoLeg` with its proofs, `OwnedPosition` with both refinements, `SwingLong` (swing
   engine and reconcile), `TradingSwitch`, `FoUniverse` and `ScanTurns` with their proofs (done).
3. The safety properties of all modules with proofs as theorems (done). Left of the proofs: type
   correctness of `SwingLong`, whose other properties are liveness.
4. The close button and the kill switch beside `RealLong`'s scan thread; two-leg option entries.
5. `PaperLong` and the fixed-leg and price-band arithmetic as operators checked against their
   definitions; the blocks of a tick around its visits and the watchdog; `CandleFeed` for the
   bars folded from ticks; the intraday and swing shorts.

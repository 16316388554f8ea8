----------------------------- MODULE ScanTurns -----------------------------
(***************************************************************************)
(* Who scans which symbol when (main.py).  The scheduler tick visits what  *)
(* is held and, in rotation, a batch of the rest; the bar sweep, a task of *)
(* its own, scans every NSE equity once after each five-minute bar.  Both  *)
(* run the same scan of one symbol in a worker thread under one lock, and  *)
(* the swing trail takes that lock as well.  The sweep gives way to the    *)
(* tick and stops at the end of its bar.                                   *)
(*                                                                         *)
(* A scan does to the books whatever the engines may do.  Option           *)
(* underlyings and the options overlay are left out, and so is what the    *)
(* tick does before it reads the books and after its visits, except for    *)
(* the trail.                                                              *)
(***************************************************************************)
EXTENDS Integers, Sequences, FiniteSets

CONSTANTS
    Watchlist, \* the symbols, in the order of WATCHLIST
    Nse,       \* the NSE equities among them
    Evidenced, \* EVIDENCED_SYMBOLS
    Batch,     \* entry_scan_batch_size
    MaxDeals,  \* bound: scans that enter or exit
    MaxUpsets  \* bound: commands, openings and closings, crashes and restarts, together

Symbols == {Watchlist[i] : i \in DOMAIN Watchlist}
Before(s, t) == \E i, j \in DOMAIN Watchlist : i < j /\ Watchlist[i] = s /\ Watchlist[j] = t

ASSUME WatchlistAssumption == Watchlist \in Seq(Symbols)
ASSUME SetsAssumption == Nse \subseteq Symbols /\ Evidenced \subseteq Symbols
ASSUME BoundsAssumption == Batch \in Nat \ {0} /\ MaxDeals \in Nat /\ MaxUpsets \in Nat

VARIABLES
    longs,     \* signal_state: symbols long on paper
    reals,     \* real_positions: symbols with a real long
    shorts,    \* signal_state_short: symbols short on paper
    paused,    \* trading_control: off
    session,   \* NSE: "open", "closed" or "holiday"
    lock,      \* _SCAN_DECISION_LOCK: who holds it, or "free"
    tick,      \* the tick: where it is, symbols_this_tick still to visit, the one in hand
    sweep,     \* the sweep: where it is, symbols to go, the one in hand, those scanned meanwhile, past its deadline?
    overtaken, \* scans of the sweep since the visits of this tick began
    done,      \* _SCAN_LAST_DONE: symbols scanned since the last bar closed
    due,       \* _bar_sweep_loop: a bar has closed for which no sweep was started
    last,      \* _BAR_SWEEP_STATS["last"]: status
    cursor,    \* _scheduler_rr_cursor
    deals,     \* scans so far that entered or exited
    upsets     \* commands, openings and closings, crashes and restarts so far

books == <<longs, reals, shorts>>
world == <<paused, session>>
bars == <<done, due, last>>
events == <<deals, upsets>>
vars == <<books, world, lock, tick, sweep, overtaken, bars, cursor, events>>

NoSymbol == "none"
Resting == [at |-> "rest", todo |-> {}, sym |-> NoSymbol]
Asleep == [at |-> "asleep", todo |-> {}, sym |-> NoSymbol, fresh |-> {}, late |-> FALSE]
Statuses == {"fine", "ran_out_of_bar", "error"}

Upset == upsets < MaxUpsets /\ upsets' = upsets + 1 /\ UNCHANGED deals
Deal == deals < MaxDeals /\ deals' = deals + 1

\* _TICK_WANTS_SCAN: it falls to 0 and rises again between two visits without an await, so the
\* sweep sees it above 0 from the first visit to the last.
TickWants == tick.at \in {"waits", "scans"}

Scanning(s) == \/ tick.at = "scans" /\ tick.sym = s
               \/ sweep.at = "scans" /\ sweep.sym = s

(***************************************************************************)
(* One scan: the long engine and its real mirror, then the short engine.   *)
(***************************************************************************)
\* Neither engine does anything with an NSE equity outside its session.
Trades(s) == s \in Nse => session = "open"

LongEngine(s) ==
    \/ UNCHANGED <<longs, reals>>
    \/ /\ Trades(s) /\ s \notin longs /\ ~paused
       /\ longs' = longs \cup {s} /\ reals' \in {reals, reals \cup ({s} \cap Nse)}
    \/ /\ Trades(s) /\ s \in longs
       /\ longs' = longs \ {s} /\ reals' \in {reals, reals \ {s}}
    \/ s \in reals \ longs /\ longs' = longs \cup {s} /\ UNCHANGED reals

\* It asks for a long on paper, not for the switch.
ShortEngine(s) ==
    \/ UNCHANGED shorts
    \/ Trades(s) /\ s \notin shorts \cup longs' /\ shorts' = shorts \cup {s}
    \/ Trades(s) /\ s \in shorts /\ shorts' = shorts \ {s}

Scan(s) ==
    /\ LongEngine(s) /\ ShortEngine(s)
    /\ IF books' = books THEN UNCHANGED deals ELSE Deal
    /\ UNCHANGED upsets
    /\ done' = done \cup ({s} \cap Nse)
    /\ lock' = "free"

(***************************************************************************)
(* The tick.                                                               *)
(***************************************************************************)
SweepOwns == session = "open" /\ last # "error"

Flat == IF paused THEN {}
        ELSE {s \in Symbols \ (longs \cup reals \cup Evidenced) :
                 s \in Nse => session # "holiday" /\ ~SweepOwns}

Preferred == IF paused THEN {}
             ELSE (Evidenced \ longs) \ (IF session = "holiday" THEN Nse ELSE {})

\* The batch: as many as fit from the cursor on, around the end of the list of the flat symbols.
InFlat(s) == Cardinality({t \in Flat : Before(t, s)})
RrBatch == {s \in Flat : (InFlat(s) - cursor) % Cardinality(Flat) < Batch}
\* Mutant: the cursor stays.
AdvanceNot == IF Flat = {} THEN UNCHANGED cursor ELSE UNCHANGED cursor
Advance ==
    IF Flat = {} THEN UNCHANGED cursor
    ELSE LET n == Cardinality(Flat) IN
         cursor' = (cursor + (IF Batch < n THEN Batch ELSE n)) % n

\* Mutant: nothing is visited while trading is off.
VisitsWhenOn == IF paused THEN {} ELSE longs \cup reals \cup Preferred \cup RrBatch
\* symbols_this_tick: the switch empties the batch and the preferred ones, not the held ones.
ToVisit == longs \cup reals \cup Preferred \cup RrBatch

\* The books are read, a real row without a paper one gets it back unless Kotak shows no shares.
TickReads ==
    /\ tick.at = "rest"
    /\ tick' = [Resting EXCEPT !.at = "fetches", !.todo = ToVisit]
    /\ Advance
    /\ \E ghosts \in SUBSET (reals \ longs) :
          /\ reals' = reals \ ghosts
          /\ longs' = longs \cup (reals \ ghosts)
    /\ UNCHANGED <<shorts, world, lock, sweep, overtaken, bars, events>>

\* The visits in any order: symbols_this_tick is a set.
NextVisit(todo) ==
    IF todo = {} THEN tick' \in {Resting, [Resting EXCEPT !.at = "trail"]} /\ overtaken' = 0
    ELSE /\ \E s \in todo : tick' = [at |-> "waits", todo |-> todo \ {s}, sym |-> s]
         /\ UNCHANGED overtaken

TickStarts ==
    /\ tick.at = "fetches"
    /\ NextVisit(tick.todo)
    /\ UNCHANGED <<books, world, lock, sweep, bars, cursor, events>>

TickLocks ==
    /\ tick.at = "waits" /\ lock = "free"
    /\ lock' = "tick" /\ tick' = [tick EXCEPT !.at = "scans"]
    /\ UNCHANGED <<books, world, sweep, overtaken, bars, cursor, events>>

SweepSees(s) ==
    sweep' = CASE sweep.at = "settings" -> [sweep EXCEPT !.fresh = @ \cup ({s} \cap Nse)]
               [] s \in sweep.todo -> [sweep EXCEPT !.fresh = @ \cup {s}]
               [] OTHER -> sweep

TickScans ==
    /\ tick.at = "scans"
    /\ Scan(tick.sym) /\ SweepSees(tick.sym)
    /\ NextVisit(tick.todo)
    /\ UNCHANGED <<world, due, last, cursor>>

TrailLocks ==
    /\ tick.at = "trail" /\ lock = "free"
    /\ lock' = "trail" /\ tick' = [tick EXCEPT !.at = "trails"]
    /\ UNCHANGED <<books, world, sweep, overtaken, bars, cursor, events>>

TrailEnds ==
    /\ tick.at = "trails"
    /\ lock' = "free" /\ tick' = Resting
    /\ UNCHANGED <<books, world, sweep, overtaken, bars, cursor, events>>

\* _scheduler_loop: "the loop resumes on the very next iteration".
TickCrashes ==
    /\ tick.at = "fetches" /\ Upset
    /\ tick' = Resting
    /\ UNCHANGED <<books, world, lock, sweep, overtaken, bars, cursor>>

(***************************************************************************)
(* The sweep.                                                              *)
(***************************************************************************)
Stops(status) ==
    /\ sweep' = Asleep /\ last' = status
    /\ due' \in {FALSE, sweep.late}

SweepWakes ==
    /\ sweep.at = "asleep" /\ due
    /\ IF session = "open"
       THEN sweep' = [Asleep EXCEPT !.at = "settings", !.fresh = done] /\ due' = FALSE /\ UNCHANGED last
       ELSE Stops("fine")
    /\ UNCHANGED <<books, world, lock, tick, overtaken, done, cursor, events>>

SweepReads ==
    /\ sweep.at = "settings"
    /\ IF paused THEN Stops("fine")
       ELSE /\ sweep' = [sweep EXCEPT !.at = "picks", !.todo = Nse \ sweep.fresh, !.fresh = {}]
            /\ UNCHANGED <<due, last>>
    /\ UNCHANGED <<books, world, lock, tick, overtaken, done, cursor, events>>

SweepFails ==
    /\ sweep.at = "settings"
    /\ Stops("error")
    /\ UNCHANGED <<books, world, lock, tick, overtaken, done, cursor, events>>

\* Mutant: it does not look whether the tick waits.
PicksUnasked ==
    /\ sweep.at = "picks" /\ ~sweep.late
    /\ \E s \in sweep.todo :
          /\ \A t \in sweep.todo : ~Before(t, s)
          /\ sweep' = IF s \in sweep.fresh
                      THEN [sweep EXCEPT !.todo = @ \ {s}, !.fresh = @ \ {s}]
                      ELSE [sweep EXCEPT !.todo = @ \ {s}, !.at = "waits", !.sym = s]
    /\ UNCHANGED <<books, world, lock, tick, overtaken, bars, cursor, events>>
\* "Tick (open positions) first"; one the tick has scanned meanwhile is passed over.
SweepPicks ==
    /\ sweep.at = "picks" /\ ~sweep.late /\ ~TickWants
    /\ \E s \in sweep.todo :
          /\ \A t \in sweep.todo : ~Before(t, s)
          /\ sweep' = IF s \in sweep.fresh
                      THEN [sweep EXCEPT !.todo = @ \ {s}, !.fresh = @ \ {s}]
                      ELSE [sweep EXCEPT !.todo = @ \ {s}, !.at = "waits", !.sym = s]
    /\ UNCHANGED <<books, world, lock, tick, overtaken, bars, cursor, events>>

SweepLocks ==
    /\ sweep.at = "waits" /\ lock = "free"
    /\ lock' = "sweep" /\ sweep' = [sweep EXCEPT !.at = "scans"]
    /\ overtaken' = IF TickWants THEN overtaken + 1 ELSE overtaken
    /\ UNCHANGED <<books, world, tick, bars, cursor, events>>

SweepScans ==
    /\ sweep.at = "scans"
    /\ Scan(sweep.sym)
    /\ sweep' = [sweep EXCEPT !.at = "picks", !.sym = NoSymbol]
    /\ UNCHANGED <<world, tick, overtaken, due, last, cursor>>

\* Mutant: it has no deadline.
EndsWhenThrough ==
    /\ sweep.at = "picks" /\ sweep.todo = {}
    /\ Stops("fine")
    /\ UNCHANGED <<books, world, lock, tick, overtaken, done, cursor, events>>
\* At the end of its bar, or through with its list.
SweepEnds ==
    /\ sweep.at = "picks" /\ (sweep.late \/ sweep.todo = {})
    /\ Stops(IF sweep.todo \subseteq sweep.fresh THEN "fine" ELSE "ran_out_of_bar")
    /\ UNCHANGED <<books, world, lock, tick, overtaken, done, cursor, events>>

(***************************************************************************)
(* The world.                                                              *)
(***************************************************************************)
BarCloses ==
    /\ done' = {}
    /\ IF sweep.at = "asleep" THEN due' = TRUE /\ UNCHANGED sweep
       ELSE sweep' = [sweep EXCEPT !.late = TRUE] /\ UNCHANGED due
    /\ UNCHANGED <<books, world, lock, tick, overtaken, last, cursor, events>>

Switches ==
    /\ Upset /\ paused' = ~paused
    /\ UNCHANGED <<books, session, lock, tick, sweep, overtaken, bars, cursor>>

SessionTurns ==
    /\ Upset /\ session' \in {"open", "closed", "holiday"} \ {session}
    /\ UNCHANGED <<books, paused, lock, tick, sweep, overtaken, bars, cursor>>

\* The paper books come back from the journal as far as they had reached it.
Restart ==
    /\ Upset
    /\ longs' \in SUBSET longs /\ shorts' \in SUBSET shorts /\ UNCHANGED reals
    /\ lock' = "free" /\ tick' = Resting /\ sweep' = Asleep /\ overtaken' = 0
    /\ done' = {} /\ due' = FALSE /\ last' = "fine" /\ cursor' \in {0, cursor}
    /\ UNCHANGED world

Init ==
    /\ longs = {} /\ reals = {} /\ shorts = {}
    /\ paused = FALSE /\ session \in {"open", "closed", "holiday"}
    /\ lock = "free" /\ tick = Resting /\ sweep = Asleep /\ overtaken = 0
    /\ done = {} /\ due = FALSE /\ last = "fine" /\ cursor = 0 /\ deals = 0 /\ upsets = 0

Tick == TickReads \/ TickStarts \/ TickLocks \/ TickScans \/ TrailEnds
Sweep == SweepWakes \/ SweepReads \/ SweepPicks \/ SweepScans \/ SweepEnds
Next == Tick \/ TrailLocks \/ TickCrashes \/ Sweep \/ SweepFails \/ SweepLocks
        \/ BarCloses \/ Switches \/ SessionTurns \/ Restart

Spec == Init /\ [][Next]_vars

\* Every call returns and bars keep closing.  A thread that waits for the lock gets it in the
\* end; for the scans of the tick that follows from the sweep giving way.
Fairness == /\ WF_vars(Tick) /\ SF_vars(TrailLocks)
            /\ WF_vars(Sweep) /\ SF_vars(SweepLocks)
            /\ WF_vars(BarCloses)
FairSpec == Spec /\ Fairness

-----------------------------------------------------------------------------
TypeOK ==
    /\ longs \subseteq Symbols /\ reals \subseteq Symbols /\ shorts \subseteq Symbols
    /\ paused \in BOOLEAN /\ session \in {"open", "closed", "holiday"}
    /\ lock \in {"free", "tick", "trail", "sweep"}
    /\ tick \in [at : {"rest", "fetches", "waits", "scans", "trail", "trails"},
                 todo : SUBSET Symbols, sym : Symbols \cup {NoSymbol}]
    /\ sweep \in [at : {"asleep", "settings", "picks", "waits", "scans"}, todo : SUBSET Symbols,
                  sym : Symbols \cup {NoSymbol}, fresh : SUBSET Symbols, late : BOOLEAN]
    /\ TickWants => tick.sym \in Symbols
    /\ sweep.at \in {"waits", "scans"} => sweep.sym \in Symbols
    /\ overtaken \in Nat /\ done \subseteq Symbols /\ due \in BOOLEAN /\ last \in Statuses
    /\ cursor \in Nat /\ deals \in Nat /\ upsets \in Nat

\* "Tick (open positions) first" (B-1419): however many symbols the tick visits, at most one
\* scan of the sweep comes in between, the one that was already on its way to the lock.
TickFirst == overtaken <= 1

\* "Open positions are NEVER gated by this - they still get checked every tick": a symbol held
\* long, on paper or really, is scanned again and again, with trading off, out of hours, on a
\* holiday, beside any sweep, after a crash of the tick and after a restart that lost its paper row.
HeldScanned == \A s \in Symbols : []<>(s \notin longs \cup reals \/ Scanning(s))

\* The cursor is an index into a list that is made anew at every tick: it keeps its place only as
\* long as the list does.
FlatSettles == <>[][UNCHANGED Flat]_vars

\* "The round-robin must cycle through all", "the 5m-bar sweep scans every flat NSE equity once per
\* bar": every symbol is scanned again and again, whichever of the two has it at the time, once
\* trading stays on, the holidays are over, the sweeps do not run out of their bars and the rotated
\* list settles.  While it does not, as when every other sweep fails and the NSE equities come and
\* go, the cursor may pass the same symbol over for ever.
Covers ==
    (/\ <>[](~paused /\ session # "holiday")
     /\ <>[](last # "ran_out_of_bar")
     /\ FlatSettles) => \A s \in Symbols : []<>Scanning(s)

\* "Stops at the next bar boundary": the sweep returns to its loop although the tick goes on
\* asking for the lock.
SweepReturns == []<>(sweep.at = "asleep")

=============================================================================

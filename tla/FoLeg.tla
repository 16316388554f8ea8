------------------------------- MODULE FoLeg -------------------------------
(***************************************************************************)
(* One real single-strike option leg: the market buy, the trailing stop    *)
(* that every tick adopts, raises or restores, the risk cut of a leg that  *)
(* has none, and the exits (main.py, _real_fo_buy_contract, _sync_real_fo_ *)
(* option_sl, _close_real_fo_option_leg; kotak_real_fo_orders.py).         *)
(*                                                                         *)
(* One action is one call to Kotak, or one commit.  A leg is one lot; a    *)
(* stop price is a level.  An order with an id is taken for executed, and  *)
(* may not be; an order whose answer is lost may be.                       *)
(***************************************************************************)
EXTENDS Integers, FiniteSets, FiniteSetsExt

CONSTANTS
    Threads,    \* "scan" enters and exits, "tick" syncs
    Overlap,    \* whether the threads work on the leg at once (the code has no lock)
    Slots,      \* bound: stops that rest at once
    MaxShort,   \* bound: lots sold short are counted up to this many
    MaxLevel,   \* bound: stop levels
    MaxBuys,    \* bound: entries
    Retries,    \* bound: attempts of an entry to place its first stop
    Faults,     \* which faults may happen, out of FaultKinds
    MaxFaults   \* bound: how many of them

FaultKinds == {"unreadable", "late_book", "refused", "unfilled", "lost_buy", "lost_stop", "lost_sell",
               "cancel_failed", "restart"}

ASSUME ThreadsAssumption == Threads \subseteq {"scan", "tick"} /\ Overlap \in BOOLEAN
ASSUME SlotsAssumption == IsFiniteSet(Slots) /\ Slots \subseteq Nat
ASSUME BoundsAssumption == {MaxShort, MaxLevel, MaxBuys, Retries, MaxFaults} \subseteq Nat
ASSUME FaultsAssumption == Faults \subseteq FaultKinds

VARIABLES
    net,      \* lots Kotak really holds
    shown,    \* lots positions() reports, some time later
    stops,    \* live SELL stops at Kotak: the level of each slot, 0 when free
    hidden,   \* those that order_report() does not show yet
    row,      \* real_fo_positions: the entry it stands for (0: no row), its stop known?, its trigger
    mirror,   \* the row as the last tick pushed it: what a restart brings back
    buys,     \* entries so far: each entry has its number
    young,    \* the last entry is less than 120 s old
    peak,     \* stop level of the highest premium since entry
    timer,    \* _fo_sl_unprotected_since: none, running, or over its 180 s
    closing,  \* closing session or night
    op,       \* per thread: the call in progress
    adrift,   \* history: lots may be held that no row stands for (see the actions that set it)
    met,      \* history: a call began while the other thread was in one
    heard,    \* history: which of the faults that may hide a stop from an exit have happened
    faults    \* how many faults happened (bounded by MaxFaults)

vars == <<net, shown, stops, hidden, row, mirror, buys, young, peak, timer, closing, op, adrift, met, heard, faults>>
book == <<stops, hidden>>
kotak == <<net, shown, book>>
outside == <<mirror, buys, young, peak, closing>>
history == <<adrift, met>>
mishaps == <<heard, faults>>

NoRow == [leg |-> 0, sl |-> FALSE, trigger |-> 0]
\* job: what the call belongs to; leg: the row it read; live: the stops it read, best:
\* their highest level; level: the trigger it wants; swept: it cancelled a stop; pop: it forgets the timer at its end;
\* restoring: _fo_restoring_sl; tries: attempts left.
Idle == [at |-> "idle", job |-> "none", leg |-> 0, live |-> {}, best |-> 0, level |-> 0,
         swept |-> FALSE, pop |-> FALSE, restoring |-> FALSE, tries |-> 0]

\* A call of _close_real_fo_option_leg.
CallClose(leg) == [Idle EXCEPT !.at = "check", !.job = "close", !.leg = leg]

Sold == Max({net - 1, -MaxShort})
Live == {s \in Slots : stops[s] > 0}
\* fetch_kotak_option_state (live_sls).
Shown == Live \ hidden
\* A slot that a call still means to cancel is not used again.
Taken == Live \cup UNION {op[t].live : t \in Threads}
\* Mutant: no row is old enough to be cleared.
YoungAlways(leg) == TRUE
Young(leg) == young /\ leg = buys
At(t, pc) == op[t].at = pc
\* A call needs what it has read only up to its own placements and cancels.
Reading == {"decide", "cancel", "place", "restore", "placed", "restored", "unplaced", "clear"}
Moved(call, pc) ==
    IF pc \in Reading THEN [call EXCEPT !.at = pc]
    ELSE [call EXCEPT !.at = pc, !.live = {}, !.best = 0, !.level = 0]
Go(t, pc) == op' = [op EXCEPT ![t] = Moved(@, pc)]
\* A call begins: nothing keeps the other thread out.
Busy == \E t \in Threads : ~At(t, "idle")
Begin(t) == At(t, "idle") /\ (Overlap \/ ~Busy) /\ met' = (met \/ Busy)

Hiding == {"unreadable", "late_book", "cancel_failed"}
Fault(kind) ==
    /\ kind \in Faults
    /\ faults < MaxFaults /\ faults' = faults + 1
    /\ heard' = heard \cup ({kind} \cap Hiding)
NoFault == UNCHANGED mishaps

(***************************************************************************)
(* Kotak, the market and the clock.                                        *)
(***************************************************************************)
Fill(s) ==
    /\ stops[s] > 0 /\ ~closing
    /\ stops' = [stops EXCEPT ![s] = 0] /\ hidden' = hidden \ {s} /\ net' = Sold
    /\ UNCHANGED <<shown, row, outside, timer, op, history, mishaps>>

CatchUp ==
    /\ shown # net /\ shown' = net
    /\ UNCHANGED <<net, book, row, outside, timer, op, history, mishaps>>

BookCatchesUp ==
    /\ hidden # {} /\ hidden' = {}
    /\ UNCHANGED <<net, shown, stops, row, outside, timer, op, history, mishaps>>

\* The code counts on positions() to show an entry before its row is 120 s old.
Age ==
    /\ young /\ shown = net /\ (\A t \in Threads : ~At(t, "bought")) /\ young' = FALSE
    /\ UNCHANGED <<kotak, row, mirror, buys, peak, closing, timer, op, history, mishaps>>

Rally ==
    /\ row.leg > 0 /\ peak < MaxLevel /\ peak' = peak + 1
    /\ UNCHANGED <<kotak, row, mirror, buys, young, closing, timer, op, history, mishaps>>

TimerEnds ==
    /\ timer = "running" /\ timer' = "over"
    /\ UNCHANGED <<kotak, row, outside, op, history, mishaps>>

\* Stops are valid for the day.
Session ==
    /\ closing' = ~closing
    /\ stops' = (IF closing THEN stops ELSE [s \in Slots |-> 0])
    /\ hidden' = (IF closing THEN hidden ELSE {})
    /\ UNCHANGED <<net, shown, row, mirror, buys, young, peak, timer, op, history, mishaps>>

(***************************************************************************)
(* Calls to Kotak.                                                         *)
(***************************************************************************)
\* cancel_real_order of each: its answer is not looked at.
Cancel(S) ==
    \E refused \in SUBSET (S \cap Live) :
        /\ IF refused = {} THEN NoFault ELSE Fault("cancel_failed")
        /\ stops' = [s \in Slots |-> IF s \in S \ refused THEN 0 ELSE stops[s]]
        /\ hidden' = hidden \ (S \ refused)

\* place_real_fo_stop_loss: accepted, refused, or resting although the call failed; the order
\* book may show the new stop late.
Place(t, level, ok, failed) ==
    \/ \E s \in Slots \ Taken :
        /\ \A u \in Slots \ Taken : s <= u
        /\ \/ NoFault /\ Go(t, ok) /\ UNCHANGED hidden
           \/ Fault("lost_stop") /\ Go(t, failed) /\ UNCHANGED hidden
           \/ Fault("late_book") /\ (Go(t, ok) \/ Go(t, failed)) /\ hidden' = hidden \cup {s}
        /\ stops' = [stops EXCEPT ![s] = level]
    \/ Fault("refused") /\ Go(t, failed) /\ UNCHANGED book

\* UPDATE real_fo_positions by leg_key: nothing when the row is gone.
Record(level) ==
    row' = IF row = NoRow THEN NoRow ELSE [row EXCEPT !.sl = TRUE, !.trigger = level]

\* The end of a call.  An entry whose attempt failed, or found no position yet, goes on.
End(t) ==
    /\ op[t].at \in IF op[t].job = "entry" THEN {"end"} ELSE {"end", "fail", "await"}
    /\ timer' = IF op[t].pop THEN "none" ELSE timer
    /\ op' = [op EXCEPT ![t] = Idle]
    /\ UNCHANGED <<kotak, row, outside, history, mishaps>>

\* The tick ends by pushing the tables that changed (TableMirror is about what becomes of a push).
Push(t) ==
    /\ t = "tick" /\ At(t, "idle") /\ mirror' = row
    /\ UNCHANGED <<kotak, row, buys, young, peak, closing, timer, op, history, mishaps>>

(***************************************************************************)
(* _real_fo_buy_contract: buy, row, first stop, retries, unwind.           *)
(***************************************************************************)
\* Mutant: a leg that has a row is bought again.
EnterAgain(t) ==
    /\ t = "scan" /\ Begin(t) /\ ~closing /\ buys <= MaxBuys
    /\ buys' = buys + 1 /\ young' = TRUE /\ peak' = 1
    /\ net' = net + 1 /\ NoFault /\ UNCHANGED adrift
    /\ op' = [op EXCEPT ![t] = [Idle EXCEPT !.at = "bought", !.job = "entry", !.leg = buys + 1]]
    /\ UNCHANGED <<shown, book, row, mirror, timer, closing>>
\* place_real_fo_entry: an order with an id, which executes or not; or one whose answer is lost,
\* that nobody books.
Enter(t) ==
    /\ t = "scan" /\ Begin(t) /\ ~closing /\ row = NoRow /\ buys < MaxBuys
    /\ buys' = buys + 1 /\ young' = TRUE /\ peak' = 1
    /\ \/ /\ \/ net' = net + 1 /\ NoFault
             \/ UNCHANGED net /\ Fault("unfilled")
          /\ op' = [op EXCEPT ![t] = [Idle EXCEPT !.at = "bought", !.job = "entry", !.leg = buys + 1]]
          /\ UNCHANGED adrift
       \/ net' = net + 1 /\ Fault("lost_buy") /\ adrift' = TRUE /\ UNCHANGED op
    /\ UNCHANGED <<shown, book, row, mirror, timer, closing>>

\* INSERT INTO real_fo_positions.
Book(t) ==
    /\ At(t, "bought")
    /\ row' = [NoRow EXCEPT !.leg = op[t].leg]
    /\ op' = [op EXCEPT ![t] = [Idle EXCEPT !.at = "read", !.job = "entry", !.tries = Retries]]
    /\ UNCHANGED <<kotak, outside, timer, history, mishaps>>

\* _fo_entry_sl_failed decides between another attempt, the unwind, and leaving it to the tick;
\* the attempts end by their number (4) or by the clock (60 s).
Retry(t) ==
    /\ At(t, "await") \/ At(t, "fail")
    /\ op[t].job = "entry" /\ op[t].tries > 0
    /\ op' = [op EXCEPT ![t] = [Idle EXCEPT !.at = "read", !.job = "entry", !.tries = op[t].tries - 1]]
    /\ UNCHANGED <<kotak, row, outside, timer, history, mishaps>>

Unwind(t) ==
    /\ op[t].job = "entry"
    /\ \/ /\ At(t, "fail") /\ row # NoRow
          /\ op' = [op EXCEPT ![t] = CallClose(row.leg)]
       \/ /\ At(t, "await") \/ (At(t, "fail") /\ row = NoRow)
          /\ op' = [op EXCEPT ![t] = Idle]
    /\ UNCHANGED <<kotak, row, outside, timer, history, mishaps>>

(***************************************************************************)
(* _sync_real_fo_option_sl.                                                *)
(***************************************************************************)
Tick(t) ==
    /\ t = "tick" /\ Begin(t) /\ row # NoRow
    /\ op' = [op EXCEPT ![t] = [Idle EXCEPT !.at = "read", !.job = "sync"]]
    /\ UNCHANGED <<kotak, row, outside, timer, adrift, mishaps>>

\* The leg has no stop: its timer starts, or is over and the risk is cut.
\* Mutant: the timer is never looked at.
NakedForgiven(t, call) ==
    timer' = (IF timer = "none" THEN "running" ELSE timer) /\ op' = [op EXCEPT ![t] = Moved(call, "fail")]
Naked(t, call) ==
    IF timer = "over"
    THEN UNCHANGED timer /\ op' = [op EXCEPT ![t] = [Moved(call, "check") EXCEPT !.job = "close", !.pop = TRUE]]
    ELSE timer' = "running" /\ op' = [op EXCEPT ![t] = Moved(call, "fail")]

\* The row, positions() and order_report().
SyncRead(t) ==
    /\ At(t, "read")
    /\ UNCHANGED <<kotak, row, outside, history>>
    /\ LET read == [op[t] EXCEPT !.leg = row.leg]
       IN  \/ row = NoRow /\ NoFault /\ UNCHANGED timer /\ Go(t, "end")
           \/ row.sl /\ Fault("unreadable") /\ UNCHANGED timer /\ Go(t, "fail")
           \/ row # NoRow /\ ~row.sl /\ Fault("unreadable") /\ Naked(t, read)
           \/ /\ row # NoRow /\ NoFault /\ UNCHANGED timer
              /\ \E best \in {stops[s] : s \in Shown} \cup {0} :
                    /\ \A s \in Shown : stops[s] <= best
                    /\ op' = [op EXCEPT ![t] =
                          [read EXCEPT !.live = Shown, !.best = best, !.level = row.trigger,
                                       !.at = CASE shown > 0 -> "decide"
                                                [] shown <= 0 /\ Young(row.leg) -> "await"
                                                [] OTHER -> "clear"]]

\* The leg is due to be closed (expiry, hold window) or the premium is at or under the stop; a
\* closing session; a live stop is kept, high enough or not to be raised at this premium; none
\* rests and none can; or one is wanted, for the part of the peak that quote and feed showed.
\* Mutant: the trigger follows what this pass has seen.
WantedFromPeak(t, seen) == seen
Wanted(t, seen) == Max({op[t].level, seen})

SyncDecide(t) ==
    /\ At(t, "decide")
    /\ UNCHANGED <<kotak, outside, history, mishaps>>
    /\ \/ /\ \E breached \in BOOLEAN :
                op' = [op EXCEPT ![t] = [Moved(@, "check") EXCEPT !.job = "close", !.pop = @ \/ breached]]
          /\ UNCHANGED <<row, timer>>
       \/ closing /\ Go(t, "end") /\ UNCHANGED <<row, timer>>
       \/ ~closing /\ op[t].live # {} /\ Record(op[t].best) /\ timer' = "none" /\ Go(t, "end")
       \/ ~closing /\ op[t].live = {} /\ Naked(t, op[t]) /\ UNCHANGED row
       \/ \E seen \in 1..peak :
             /\ ~closing /\ op[t].best < Wanted(t, seen) /\ UNCHANGED <<row, timer>>
             /\ op' = [op EXCEPT ![t].level = Wanted(t, seen),
                                 ![t].at = IF op[t].live = {} THEN "place" ELSE "cancel"]

\* ensure_option_trailing_sl, and what the sync makes of its answer.
SyncCancel(t) ==
    /\ At(t, "cancel")
    /\ Cancel(op[t].live) /\ Go(t, "place")
    /\ UNCHANGED <<net, shown, row, outside, timer, history>>

SyncPlace(t) ==
    /\ At(t, "place")
    /\ Place(t, op[t].level, "placed", IF op[t].live = {} THEN "unplaced" ELSE "restore")
    /\ UNCHANGED <<net, shown, row, outside, timer, history>>

SyncRestore(t) ==
    /\ At(t, "restore")
    /\ Place(t, op[t].best, "restored", "unplaced")
    /\ UNCHANGED <<net, shown, row, outside, timer, history>>

SyncRecord(t) ==
    /\ UNCHANGED <<kotak, outside, history, mishaps>>
    /\ \/ At(t, "placed") /\ Record(op[t].level) /\ timer' = "none" /\ Go(t, "end")
       \/ At(t, "restored") /\ Record(op[t].best) /\ UNCHANGED timer /\ Go(t, "end")
       \/ At(t, "unplaced") /\ Naked(t, op[t]) /\ UNCHANGED row

(***************************************************************************)
(* _close_real_fo_option_leg, called with a row by the paper exit, the     *)
(* kill switch, the unwind and the sync.                                   *)
(***************************************************************************)
Exit(t) ==
    /\ t = "scan" /\ Begin(t) /\ row # NoRow
    /\ op' = [op EXCEPT ![t] = CallClose(row.leg)]
    /\ UNCHANGED <<kotak, row, outside, timer, adrift, mishaps>>

\* Kotak shows the leg closed, or it does not, or the leg is too young to tell.
CloseCheck(t) ==
    /\ At(t, "check")
    /\ \/ /\ NoFault
          /\ IF shown <= 0 /\ ~Young(op[t].leg)
             THEN op' = [op EXCEPT ![t].at = "clear", ![t].live = Shown] ELSE Go(t, "sweep")
       \/ Fault("unreadable") /\ Go(t, "sweep")
    /\ UNCHANGED <<kotak, row, outside, timer, history>>

\* No open quantity, here or in the sync: what still rests is cancelled, then the row goes.
\* Mutant: the stops that still rest are left alone.
ClearRowOnly(t) ==
    /\ At(t, "clear")
    /\ op' = [op EXCEPT ![t] = [Moved(@, "drop") EXCEPT !.pop = @ \/ op[t].job # "close", !.job = "close"]]
    /\ UNCHANGED <<kotak, row, outside, timer, history, mishaps>>
Clear(t) ==
    /\ At(t, "clear")
    /\ Cancel(op[t].live)
    /\ op' = [op EXCEPT ![t] = [Moved(@, "drop") EXCEPT !.pop = @ \/ op[t].job # "close", !.job = "close"]]
    /\ UNCHANGED <<net, shown, row, outside, timer, history>>

\* Reads the book again; an unreadable one has no stops to cancel.
CloseSweep(t) ==
    /\ At(t, "sweep")
    /\ \/ Cancel(Shown) /\ op' = [op EXCEPT ![t].at = "sell", ![t].swept = Shown # {}]
       \/ Fault("unreadable") /\ op' = [op EXCEPT ![t].at = "sell", ![t].swept = FALSE] /\ UNCHANGED book
    /\ UNCHANGED <<net, shown, row, outside, timer, history>>

\* place_real_fo_exit: an order with an id counts as sold, its status is not read; refused, or
\* sold although the call failed.
CloseSell(t) ==
    /\ At(t, "sell")
    /\ \/ net' = Sold /\ NoFault /\ Go(t, "drop") /\ UNCHANGED adrift
       \/ UNCHANGED net /\ Fault("unfilled") /\ Go(t, "drop") /\ adrift' = TRUE
       \/ net' = Sold /\ Fault("lost_sell") /\ Go(t, "unsold") /\ UNCHANGED adrift
       \/ UNCHANGED net /\ Fault("refused") /\ Go(t, "unsold") /\ UNCHANGED adrift
    /\ UNCHANGED <<shown, book, row, outside, timer, met>>

\* The row goes by its key, whichever entry it stands for.
CloseDrop(t) ==
    /\ At(t, "drop")
    /\ row' = NoRow /\ Go(t, "end")
    /\ adrift' = (adrift \/ row.leg \notin {0, op[t].leg})
    /\ UNCHANGED <<kotak, outside, timer, met, mishaps>>

\* B-1324: the stop is restored by a sync, unless one is already doing that.
\* Mutant: a leg that was not sold is taken for sold.
UnsoldForgets(t) ==
    /\ At(t, "unsold") /\ Go(t, "drop")
    /\ UNCHANGED <<kotak, row, outside, timer, history, mishaps>>
CloseUnsold(t) ==
    /\ At(t, "unsold")
    /\ op' = [op EXCEPT ![t] =
                 IF @.swept /\ \A u \in Threads : ~op[u].restoring
                 THEN [Idle EXCEPT !.at = "read", !.job = "close", !.pop = op[t].pop, !.restoring = TRUE]
                 ELSE [@ EXCEPT !.at = "end"]]
    /\ UNCHANGED <<kotak, row, outside, timer, history, mishaps>>

(***************************************************************************)
(* The process dies and its disk with it.  The row comes back as it was    *)
(* last pushed (TableMirror is about when it does not); calls in progress  *)
(* and the timer are lost, and with them a buy without a row or an entry   *)
(* that no push has seen.                                                  *)
(***************************************************************************)
Restart ==
    /\ Fault("restart")
    /\ op' = [t \in Threads |-> Idle] /\ timer' = "none" /\ row' = mirror
    /\ adrift' = (\/ adrift \/ row.leg \notin {0, mirror.leg}
                  \/ \E t \in Threads : At(t, "bought"))
    /\ UNCHANGED <<kotak, outside, met>>

Init ==
    /\ net = 0 /\ shown = 0 /\ stops = [s \in Slots |-> 0] /\ hidden = {}
    /\ row = NoRow /\ mirror = NoRow /\ adrift = FALSE /\ met = FALSE
    /\ buys = 0 /\ young = FALSE /\ peak = 0 /\ timer = "none" /\ closing = FALSE
    /\ op = [t \in Threads |-> Idle] /\ heard = {} /\ faults = 0

Step(t) ==
    \/ Book(t) \/ Retry(t) \/ Unwind(t) \/ SyncRead(t) \/ SyncDecide(t) \/ SyncCancel(t) \/ SyncPlace(t)
    \/ SyncRestore(t) \/ SyncRecord(t) \/ CloseCheck(t) \/ Clear(t) \/ CloseSweep(t)
    \/ CloseSell(t) \/ CloseDrop(t) \/ CloseUnsold(t) \/ End(t)

Next ==
    \/ \E s \in Slots : Fill(s)
    \/ CatchUp \/ BookCatchesUp \/ Age \/ Rally \/ TimerEnds \/ Session \/ Restart
    \/ \E t \in Threads : Enter(t) \/ Exit(t) \/ Tick(t) \/ Push(t) \/ Step(t)

Spec == Init /\ [][Next]_vars

FairSpec ==
    /\ Spec
    /\ WF_vars(CatchUp) /\ WF_vars(BookCatchesUp) /\ WF_vars(Age) /\ WF_vars(TimerEnds)
    /\ SF_vars(\E t \in Threads : Tick(t))
    /\ \A t \in Threads : WF_vars(Step(t))

-----------------------------------------------------------------------------
Pcs == {"idle", "bought", "read", "decide", "cancel", "place", "restore", "placed", "restored", "unplaced",
        "await", "fail", "end", "check", "clear", "sweep", "sell", "drop", "unsold"}

TypeOK ==
    /\ net \in Int /\ shown \in Int /\ stops \in [Slots -> Nat] /\ hidden \subseteq Slots
    /\ buys \in Nat /\ young \in BOOLEAN /\ peak \in Nat
    /\ {row, mirror} \subseteq [leg : Nat, sl : BOOLEAN, trigger : Nat]
    /\ (row.leg = 0 => row = NoRow) /\ (mirror.leg = 0 => mirror = NoRow)
    /\ timer \in {"none", "running", "over"} /\ closing \in BOOLEAN
    /\ op \in [Threads -> [at : Pcs, job : {"none", "entry", "sync", "close"}, leg : Nat,
                            live : SUBSET Slots, best : Nat, level : Nat, swept : BOOLEAN,
                            pop : BOOLEAN, restoring : BOOLEAN, tries : Nat]]
    /\ adrift \in BOOLEAN /\ met \in BOOLEAN /\ heard \subseteq Hiding /\ faults \in Nat

\* The leg has a row, or is about to get one.
Tracked == row # NoRow \/ \E t \in Threads : At(t, "bought")

\* No row is dropped while Kotak still holds its lot, whatever positions() showed, whichever
\* answers were lost and however the threads overlap, unless the lots went adrift: a buy that was
\* never booked, a sell taken for executed that was not, a row deleted for another entry, or an
\* entry that no push had seen at a restart.
NeverForgets == ~Tracked /\ ~adrift => net <= 0

\* The leg's row and its lots keep the promise every engine makes about a position: nothing is
\* bought while the row exists, and the row goes only when the lots are gone or adrift.
Owned == INSTANCE OwnedPosition WITH held <- net, tracked <- Tracked, handed <- adrift
KeepsPromise == Owned!Spec

\* "A resting SELL SL left behind a closed long option could later SELL SHORT, so exits always
\* clear them" (19405): no stop outlives the row of its leg, unless Kotak could not be read, showed
\* the stop late or did not cancel it, a restart lost the row, or the threads had overlapped.
NoOrphanStop == ~Tracked /\ heard = {} /\ ~adrift /\ ~met => Live = {}

\* "the trigger never lowers" (19595): while Kotak holds the lot neither a failed raise nor a stop
\* adopted or restored lowers the trigger of its row, unless a stop was shown late or not
\* cancelled or the threads had overlapped; a restart may bring back an older row.
TriggerNeverLowers ==
    [][row'.leg = row.leg /\ net > 0 /\ ~adrift /\ ~met
          /\ heard \subseteq {"unreadable"}
       => row'.trigger >= row.trigger \/ Restart]_vars

\* A leg without a stop gets one or is sold, once the market stays open (and the ticks sync it).
Unprotected == row # NoRow /\ net > 0 /\ Live = {}
NakedLegEnds == <>[]~closing => (Unprotected ~> ~Unprotected)

\* The row of a leg that Kotak no longer holds goes away.
Ghost == row # NoRow /\ net <= 0
GhostRowEnds == <>[]~closing => (Ghost ~> ~Ghost)
=============================================================================

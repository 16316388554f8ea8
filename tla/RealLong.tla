------------------------------ MODULE RealLong ------------------------------
(***************************************************************************)
(* One real intraday long of one symbol, from the buy to the last sell:    *)
(* the real_positions row, its Upstash mirror, the paper position that     *)
(* drives it and the orders it leaves at Kotak (main.py, the _maybe_*_real *)
(* functions the scan thread calls under _SCAN_DECISION_LOCK).             *)
(*                                                                         *)
(* One action is one Kotak call, or the commit and push that follow its    *)
(* answer, so a restart or a fill may come between any two.  Stop prices   *)
(* are levels 1..MaxLevel, 0 is NULL.  The account may hold Manual more    *)
(* shares of the symbol, bought by the owner on an earlier day.            *)
(***************************************************************************)
EXTENDS Integers, FiniteSets, Sequences, FiniteSetsExt

CONSTANTS
    Qty,        \* shares of the real entry
    Manual,     \* shares of the same symbol the owner holds already
    MaxLevel,   \* highest stop level
    Faults,     \* which faults may happen, out of FaultKinds
    MaxFaults,  \* bound: how many of them
    MaxEntries, \* bound: real entries in the life of the model
    MaxOrders   \* bound: resting orders placed in the life of the position

FaultKinds == {"refused", "unfilled", "lost_buy", "lost_sell", "cancel_fails", "unreadable", "restart"}

ASSUME SizesAssumption ==
    /\ Qty \in Nat \ {0} /\ Manual \in Nat /\ MaxLevel \in Nat \ {0}
    /\ MaxFaults \in Nat /\ MaxEntries \in Nat \ {0} /\ MaxOrders \in Nat
ASSUME FaultsAssumption == Faults \subseteq FaultKinds

VARIABLES
    bought, sold, \* flBuyQty and flSellQty of the symbol at Kotak today
    adrift,       \* history: a buy was never written to real_positions, or an order was counted
                  \* as executed that was not, or only in part
    book,         \* the resting sell orders placed, in order; the index is the order id
    row,          \* real_positions, qty 0 when there is none
    mirror,       \* the row as last pushed to Upstash
    paper,        \* signal_state: the paper position whose moves are mirrored
    swing,        \* the swing engine owns the symbol: a position was handed to it
    t1,           \* the symbol is in real_t1_restricted
    op,           \* the real-order function the scan thread is in
    faults        \* faults so far (bounded by MaxFaults)

kotak == <<bought, adrift, sold, book>>
vars == <<bought, adrift, sold, book, row, mirror, paper, swing, t1, op, faults>>

NoOrder == 0
NoLevel == 0
EntryStop == 1
Levels == 1..MaxLevel

(***************************************************************************)
(* _split_exit_legs: fixed legs of equal size, the rest trails.            *)
(***************************************************************************)
FixedLegs == CASE Qty = 1 -> 0 [] Qty = 2 -> 1 [] Qty = 3 -> 2 [] OTHER -> 3
LegQty == Qty \div (FixedLegs + 1)
TargetQty == IF FixedLegs = 0 THEN Qty ELSE LegQty

NoRow == [qty |-> 0, sl |-> NoOrder, level |-> NoLevel, target |-> NoOrder,
          legs |-> {}, tagged |-> FALSE, clock |-> "off"]
NewRow == [NoRow EXCEPT !.qty = Qty, !.legs = 1..FixedLegs, !.tagged = TRUE]
Flat == [long |-> FALSE, stop |-> EntryStop, legs |-> {}]
Idle == [at |-> "idle", leg |-> 0, order |-> NoOrder, why |-> "none",
         chan |-> FALSE, inferred |-> FALSE, slGone |-> FALSE, slOk |-> FALSE]

(***************************************************************************)
(* Kotak's side.                                                           *)
(***************************************************************************)
Net == bought - sold
Ids == 1..Len(book)
Live(o) == o \in Ids /\ book[o].status = "resting"
Resting(kind) == {o \in Ids : Live(o) /\ book[o].kind = kind}
Reserved == MapThenSumSet(LAMBDA o : book[o].qty, Resting("sl") \cup Resting("target"))
\* Kotak accepts a sell only for shares no resting sell has reserved.
Room(q) == Reserved + q <= Manual + Net

\* _kotak_symbol_still_open: flBuyQty > 0 and flBuyQty # flSellQty.
StillOpen == bought > 0 /\ bought # sold

Fault(kind) == kind \in Faults /\ faults < MaxFaults /\ faults' = faults + 1
NoFault == UNCHANGED faults

At(pc) == op.at = pc
Go(pc) == op' = [op EXCEPT !.at = pc]
Done == op' = Idle

\* A positions() or order_report() call whose answer decides between yes and no, or
\* that fails: unknown.
Read(truth, yes, no, unknown) ==
    \/ truth /\ yes /\ NoFault
    \/ ~truth /\ no /\ NoFault
    \/ Fault("unreadable") /\ unknown

\* cancel_real_order: refused for an order that no longer rests.
Cancel(o, ok, failed) ==
    \/ Live(o) /\ book' = [book EXCEPT ![o].status = "cancelled"] /\ ok /\ NoFault
    \/ ~Live(o) /\ UNCHANGED book /\ failed /\ NoFault
    \/ Live(o) /\ UNCHANGED book /\ failed /\ Fault("cancel_fails")

\* cancel_existing_resting_sl, _target: fail-open sweeps of the order book.
Sweep(kind) ==
    \/ book' = [o \in Ids |-> IF o \in Resting(kind)
                              THEN [book[o] EXCEPT !.status = "cancelled"] ELSE book[o]]
       /\ NoFault
    \/ Resting(kind) # {} /\ UNCHANGED book /\ (Fault("unreadable") \/ Fault("cancel_fails"))

\* A stop or a target is accepted and rests, or is rejected for a reason that matters.
Rest(kind, q, level, ok, failed) ==
    \/ /\ Room(q) /\ Len(book) < MaxOrders /\ NoFault
       /\ book' = Append(book, [kind |-> kind, qty |-> q, level |-> level, status |-> "resting"])
       /\ op' = [op EXCEPT !.at = ok, !.order = Len(book) + 1]
    \/ /\ ~Room(q) /\ NoFault /\ UNCHANGED book
       /\ op' = [op EXCEPT !.at = failed, !.why = "short"]
    \/ /\ Fault("refused") /\ UNCHANGED book
       /\ \E why \in {"other", "cas", "t1"} : op' = [op EXCEPT !.at = failed, !.why = why]

\* place_real_exit: a market sell.  Any status but "rejected" counts as sold: open, executed in
\* part, or unknown, which may hide a rejection.  (What Kotak executes of such an order after its
\* answer is left out.)  The answer may also be lost after Kotak took the order.
Sell(q, ok, failed) ==
    \/ Room(q) /\ NoFault /\ sold' = sold + q /\ UNCHANGED adrift /\ op' = [op EXCEPT !.at = ok]
    \/ /\ Fault("unfilled") /\ adrift' = TRUE /\ op' = [op EXCEPT !.at = ok]
       /\ \E k \in 0..(q - 1) : (k > 0 => Room(q)) /\ sold' = sold + k
    \/ /\ ~Room(q) /\ NoFault /\ UNCHANGED <<sold, adrift>>
       /\ op' = [op EXCEPT !.at = failed, !.why = "short"]
    \/ /\ Fault("refused") /\ UNCHANGED <<sold, adrift>>
       /\ \E why \in {"other", "t1"} : op' = [op EXCEPT !.at = failed, !.why = why]
    \/ /\ Room(q) /\ Fault("lost_sell") /\ sold' = sold + q /\ UNCHANGED adrift
       /\ op' = [op EXCEPT !.at = failed, !.why = "other"]

\* A resting stop triggers, or a resting target is reached, without the bot.
Fill(o) ==
    /\ Live(o)
    /\ book' = [book EXCEPT ![o].status = "filled"]
    /\ sold' = sold + book[o].qty
    /\ UNCHANGED <<bought, adrift, row, mirror, paper, swing, t1, op, faults>>

(***************************************************************************)
(* Local writes.  Commit changes the row alone, Push also the mirror.      *)
(***************************************************************************)
Commit(r) == row' = r /\ UNCHANGED mirror
Push(r) == row' = r /\ mirror' = r
FlagT1 == t1' = (t1 \/ op.why = "t1")

\* _mark_protection_degraded never restarts a running clock.
Degraded(r) == IF r.clock = "off" THEN [r EXCEPT !.clock = "running"] ELSE r
NoStop(r) == [r EXCEPT !.sl = NoOrder]
WithStop(r, level) == [r EXCEPT !.sl = op.order, !.level = level, !.clock = "off"]

\* protection_degraded_since gets older than the tolerance.
ClockRuns ==
    /\ row.clock = "running"
    /\ row' = [row EXCEPT !.clock = "over"]
    /\ UNCHANGED <<kotak, mirror, paper, swing, t1, op, faults>>

(***************************************************************************)
(* _maybe_place_real_entry.  The paper side may enter again on the same    *)
(* day; the real one does not while it has a row or after a sell at Kotak. *)
(* A chan_* entry has no target and is unwound when its stop fails.        *)
(***************************************************************************)
MaxBought == MaxEntries * Qty

PaperEnters ==
    /\ At("idle") /\ ~paper.long
    /\ paper' = [long |-> TRUE, stop |-> EntryStop, legs |-> 1..FixedLegs]
    /\ UNCHANGED <<sold, book, row, mirror, swing, t1>>

\* No live tick, a cap, a strategy that is not viable, ...
EnterOnPaperOnly == PaperEnters /\ UNCHANGED <<bought, adrift, op, faults>>

\* Mutant: it does not look for a row.
EnterUnasked ==
    /\ PaperEnters
    /\ sold = 0 /\ ~t1 /\ bought + Qty <= MaxBought
    /\ \/ /\ \/ bought' = bought + Qty /\ UNCHANGED adrift /\ NoFault
             \/ /\ \E k \in 0..(Qty - 1) : bought' = bought + k
                /\ adrift' = TRUE /\ Fault("unfilled")
          /\ \E c \in BOOLEAN : op' = [op EXCEPT !.at = "entry_book", !.chan = c]
       \/ bought' = bought + Qty /\ adrift' = TRUE /\ UNCHANGED op /\ Fault("lost_buy")
       \/ UNCHANGED <<bought, adrift, op>> /\ Fault("refused")
Enter ==
    /\ PaperEnters
    /\ row.qty = 0 /\ sold = 0 /\ ~t1 /\ bought + Qty <= MaxBought
    /\ \/ /\ \/ bought' = bought + Qty /\ UNCHANGED adrift /\ NoFault
             \/ /\ \E k \in 0..(Qty - 1) : bought' = bought + k
                /\ adrift' = TRUE /\ Fault("unfilled")
          /\ \E c \in BOOLEAN : op' = [op EXCEPT !.at = "entry_book", !.chan = c]
       \/ bought' = bought + Qty /\ adrift' = TRUE /\ UNCHANGED op /\ Fault("lost_buy")
       \/ UNCHANGED <<bought, adrift, op>> /\ Fault("refused")

EntryBook ==
    /\ At("entry_book")
    /\ Push(NewRow) /\ Go("entry_stop")
    /\ UNCHANGED <<kotak, paper, swing, t1, faults>>

EntryStopCall ==
    /\ At("entry_stop")
    /\ Rest("sl", Qty, paper.stop, "entry_stop_ok", "entry_stop_failed")
    /\ UNCHANGED <<bought, adrift, sold, row, mirror, paper, swing, t1>>

EntryStopOk ==
    /\ At("entry_stop_ok")
    /\ Push(WithStop(row, paper.stop)) /\ Go("entry_target")
    /\ UNCHANGED <<kotak, paper, swing, t1, faults>>

\* _maybe_place_real_exit refuses a symbol the swing engine owns.
ToExit == IF swing THEN Done ELSE Go("exit_check")

\* No stop, no target; after a CAS rejection straight to a market exit.
EntryStopFailed ==
    /\ At("entry_stop_failed")
    /\ FlagT1
    /\ IF op.why = "cas" \/ op.chan
       THEN ToExit /\ UNCHANGED <<row, mirror>>
       ELSE Done /\ Commit(Degraded(row))
    /\ UNCHANGED <<kotak, paper, swing, faults>>

EntryTargetCall ==
    /\ At("entry_target")
    /\ IF op.chan THEN Done /\ UNCHANGED <<book, faults>>
                  ELSE Rest("target", TargetQty, NoLevel, "target_ok", "end")
    /\ UNCHANGED <<bought, adrift, sold, row, mirror, paper, swing, t1>>

TargetOk ==
    /\ At("target_ok")
    /\ Push([row EXCEPT !.target = op.order]) /\ Done
    /\ UNCHANGED <<kotak, paper, swing, t1, faults>>

End ==
    /\ At("end") /\ Done
    /\ UNCHANGED <<kotak, row, mirror, paper, swing, t1, faults>>

(***************************************************************************)
(* _maybe_place_real_partial_exit: the paper side has booked its next leg. *)
(***************************************************************************)
BookPaperLeg ==
    /\ At("idle") /\ paper.long /\ paper.legs # {}
    /\ LET k == Min(paper.legs) IN
          /\ paper' = [paper EXCEPT !.legs = @ \ {k}]
          /\ IF row.qty > 0 /\ ~swing /\ k \in row.legs
             THEN op' = [Idle EXCEPT !.at = "leg_target", !.leg = k]
             ELSE UNCHANGED op
    /\ UNCHANGED <<kotak, row, mirror, swing, t1, faults>>

\* A target that cannot be cancelled is taken as filled.
LegTarget ==
    /\ At("leg_target")
    /\ IF row.target = NoOrder
       THEN Go("leg_stop") /\ UNCHANGED <<book, faults>>
       ELSE Cancel(row.target, Go("leg_stop"),
                   op' = [op EXCEPT !.at = "leg_stop", !.inferred = TRUE])
    /\ UNCHANGED <<bought, adrift, sold, row, mirror, paper, swing, t1>>

AfterStop(gone) ==
    op' = [op EXCEPT !.at = IF op.inferred THEN "leg_book" ELSE "leg_sell", !.slGone = gone]

\* The stop reserves the shares: it goes first.  When it cannot be cancelled the leg
\* is deferred.
LegStop ==
    /\ At("leg_stop")
    /\ IF row.sl = NoOrder
       THEN AfterStop(FALSE) /\ UNCHANGED <<book, row, faults>>
       ELSE Cancel(row.sl, AfterStop(TRUE) /\ row' = Degraded(row), Done /\ UNCHANGED row)
    /\ UNCHANGED <<bought, adrift, sold, mirror, paper, swing, t1>>

SoldNow == Min({LegQty, row.qty})

LegSell ==
    /\ At("leg_sell")
    /\ Sell(SoldNow, "leg_book", "leg_unsold")
    /\ UNCHANGED <<bought, book, row, mirror, paper, swing, t1>>

\* Nothing sold: the stop that was cancelled for the leg is placed again.
LegUnsold ==
    /\ At("leg_unsold")
    /\ FlagT1
    /\ IF op.slGone
       THEN Rest("sl", row.qty, row.level, "leg_restored", "leg_unrestored")
       ELSE Done /\ UNCHANGED <<book, faults>>
    /\ UNCHANGED <<bought, adrift, sold, row, mirror, paper, swing>>

LegRestored ==
    /\ At("leg_restored")
    /\ Commit(WithStop(row, row.level)) /\ Done
    /\ UNCHANGED <<kotak, paper, swing, t1, faults>>

LegUnrestored ==
    /\ At("leg_unrestored")
    /\ Commit(NoStop(row)) /\ FlagT1 /\ Done
    /\ UNCHANGED <<kotak, paper, swing, faults>>

LegBook ==
    /\ At("leg_book")
    /\ IF row.qty <= SoldNow
       THEN Push(NoRow) /\ Done
       ELSE /\ Push([row EXCEPT !.qty = @ - SoldNow, !.legs = @ \ {op.leg}])
            /\ Go(IF row.level # NoLevel THEN "leg_newstop" ELSE "leg_sweep")
    /\ UNCHANGED <<kotak, paper, swing, t1, faults>>

LegNewStop ==
    /\ At("leg_newstop")
    /\ Rest("sl", row.qty, row.level, "leg_newstop_ok", "leg_newstop_failed")
    /\ UNCHANGED <<bought, adrift, sold, row, mirror, paper, swing, t1>>

LegNewStopOk ==
    /\ At("leg_newstop_ok")
    /\ Commit(WithStop(row, row.level))
    /\ op' = [op EXCEPT !.at = "leg_sweep", !.slOk = TRUE]
    /\ UNCHANGED <<kotak, paper, swing, t1, faults>>

LegNewStopFailed ==
    /\ At("leg_newstop_failed")
    /\ Commit(Degraded(NoStop(row))) /\ FlagT1 /\ Go("leg_sweep")
    /\ UNCHANGED <<kotak, paper, swing, faults>>

\* Mutant: the next target is placed whether or not the stop is confirmed.
AfterSweepUngated == IF row.legs # {} THEN "leg_nexttarget" ELSE "leg_end"
\* The next target only behind a confirmed stop.
AfterSweep == IF op.slOk /\ row.legs # {} THEN "leg_nexttarget" ELSE "leg_end"

LegSweep ==
    /\ At("leg_sweep")
    /\ IF row.target # NoOrder
       THEN Cancel(row.target, Go(AfterSweep), Go(AfterSweep))
       ELSE Sweep("target") /\ Go(AfterSweep)
    /\ UNCHANGED <<bought, adrift, sold, row, mirror, paper, swing, t1>>

LegNextTarget ==
    /\ At("leg_nexttarget")
    /\ Rest("target", LegQty, NoLevel, "target_ok", "leg_end")
    /\ UNCHANGED <<bought, adrift, sold, row, mirror, paper, swing, t1>>

\* The row is pushed without its target; when no leg is left that UPDATE is not
\* committed and the row keeps the id.
LegEnd ==
    /\ At("leg_end")
    /\ mirror' = [row EXCEPT !.target = NoOrder]
    /\ row' = IF row.legs = {} THEN row ELSE mirror'
    /\ Done
    /\ UNCHANGED <<kotak, paper, swing, t1, faults>>

(***************************************************************************)
(* _maybe_place_real_exit.                                                 *)
(***************************************************************************)
PaperExit ==
    /\ At("idle") /\ paper.long
    /\ paper' = Flat
    /\ IF row.qty > 0 THEN ToExit ELSE UNCHANGED op
    /\ UNCHANGED <<kotak, row, mirror, swing, t1, faults>>

\* Mutant: sells without asking Kotak first.
ExitCheckBlind ==
    /\ At("exit_check")
    /\ Go("exit_stop")
    /\ UNCHANGED <<kotak, row, mirror, paper, swing, t1, faults>>
ExitCheck ==
    /\ At("exit_check")
    /\ Read(StillOpen, Go("exit_stop") /\ UNCHANGED <<row, mirror>>, Push(NoRow) /\ Done,
            Go("exit_stop") /\ UNCHANGED <<row, mirror>>)
    /\ UNCHANGED <<kotak, paper, swing, t1>>

ExitStop ==
    /\ At("exit_stop")
    /\ IF row.sl = NoOrder THEN Go("exit_target") /\ UNCHANGED <<book, faults>>
                           ELSE Cancel(row.sl, Go("exit_target"), Go("exit_target"))
    /\ UNCHANGED <<bought, adrift, sold, row, mirror, paper, swing, t1>>

ExitTarget ==
    /\ At("exit_target")
    /\ IF row.target = NoOrder THEN Go("exit_sell") /\ UNCHANGED <<book, faults>>
                               ELSE Cancel(row.target, Go("exit_sell"), Go("exit_sell"))
    /\ UNCHANGED <<bought, adrift, sold, row, mirror, paper, swing, t1>>

ExitSell ==
    /\ At("exit_sell")
    /\ Sell(row.qty, "exit_book", "exit_failed")
    /\ UNCHANGED <<bought, book, row, mirror, paper, swing, t1>>

ExitBook ==
    /\ At("exit_book")
    /\ Push(NoRow) /\ Done
    /\ UNCHANGED <<kotak, paper, swing, t1, faults>>

\* Mutant: a failed exit is taken for a closed position.
ExitFailedForgets ==
    /\ At("exit_failed")
    /\ FlagT1 /\ Done /\ Push(NoRow)
    /\ UNCHANGED <<kotak, paper, swing, faults>>
\* Never guessed closed: the row stays for the next attempt.
ExitFailed ==
    /\ At("exit_failed")
    /\ FlagT1 /\ Done
    /\ UNCHANGED <<kotak, row, mirror, paper, swing, faults>>

(***************************************************************************)
(* _maybe_sync_real_stop_loss, on every other tick: the paper stop may     *)
(* have been raised just before.                                           *)
(***************************************************************************)
Orphan(r) == ~r.tagged /\ r.sl = NoOrder /\ r.target = NoOrder

Tick ==
    /\ At("idle") /\ row.qty > 0
    /\ \E s \in paper.stop..MaxLevel :
          paper' = IF paper.long THEN [paper EXCEPT !.stop = s] ELSE paper
    /\ IF Orphan(row)
       THEN Push(NoRow) /\ swing' = TRUE /\ UNCHANGED op
       ELSE Go(IF paper.long THEN "sync_qty" ELSE "sync_paper") /\ UNCHANGED <<row, mirror, swing>>
    /\ UNCHANGED <<kotak, t1, faults>>

\* _ensure_signal_state_for_real_position: a ghost row is removed, otherwise the paper
\* position comes back at its initial stop and without legs.
SyncPaper ==
    LET restored == Go("sync_qty") /\ paper' = [Flat EXCEPT !.long = TRUE] /\ UNCHANGED <<row, mirror>>
    IN  /\ At("sync_paper")
        /\ Read(StillOpen, restored, Push(NoRow) /\ Done /\ UNCHANGED paper, restored)
        /\ UNCHANGED <<kotak, swing, t1>>

AfterQty == Go(IF row.sl = NoOrder THEN "sync_clock" ELSE "sync_live")

\* _reconcile_real_qty: committed, not pushed.
SyncQty ==
    /\ At("sync_qty")
    /\ Read(bought > 0 /\ Net > 0, Commit([row EXCEPT !.qty = Net]),
            UNCHANGED <<row, mirror>>, UNCHANGED <<row, mirror>>)
    /\ AfterQty
    /\ UNCHANGED <<kotak, paper, swing, t1>>

\* _real_sl_order_is_live.  A dead stop leaves neither its id nor its price.
SyncLive ==
    /\ At("sync_live")
    /\ Read(Live(row.sl), UNCHANGED <<row, mirror>>,
            Commit([NoStop(row) EXCEPT !.level = NoLevel]), UNCHANGED <<row, mirror>>)
    /\ Go("sync_clock")
    /\ UNCHANGED <<kotak, paper, swing, t1>>

\* Mutant: a symbol that refuses stops never escalates.
SyncClockPatient ==
    /\ At("sync_clock")
    /\ row' = IF row.sl = NoOrder \/ (t1 /\ row.level < paper.stop) THEN Degraded(row) ELSE row
    /\ IF paper.stop <= row.level \/ t1 THEN Done ELSE Go("sync_open")
    /\ UNCHANGED <<kotak, mirror, paper, swing, t1, faults>>
\* The clock of a row without a stop, then the decision to move the stop.
SyncClock ==
    /\ At("sync_clock")
    /\ IF row.sl = NoOrder /\ row.clock = "over"
       THEN ToExit /\ UNCHANGED row
       ELSE /\ row' = IF row.sl = NoOrder \/ (t1 /\ row.level < paper.stop)
                      THEN Degraded(row) ELSE row
            /\ IF paper.stop <= row.level \/ t1 THEN Done ELSE Go("sync_open")
    /\ UNCHANGED <<kotak, mirror, paper, swing, t1, faults>>

SyncOpen ==
    /\ At("sync_open")
    /\ Read(StillOpen, Go("sync_cancel"), Done, Go("sync_cancel"))
    /\ UNCHANGED <<kotak, row, mirror, paper, swing, t1>>

\* Mutant: no sweep of the order book when the row knows no stop.
SyncCancelKnownOnly ==
    /\ At("sync_cancel")
    /\ IF row.sl # NoOrder THEN Cancel(row.sl, Go("sync_place"), Done)
                           ELSE UNCHANGED <<book, faults>> /\ Go("sync_place")
    /\ UNCHANGED <<bought, adrift, sold, row, mirror, paper, swing, t1>>
SyncCancel ==
    /\ At("sync_cancel")
    /\ IF row.sl # NoOrder THEN Cancel(row.sl, Go("sync_place"), Done)
                           ELSE Sweep("sl") /\ Go("sync_place")
    /\ UNCHANGED <<bought, adrift, sold, row, mirror, paper, swing, t1>>

SyncPlace ==
    /\ At("sync_place")
    /\ Rest("sl", row.qty, paper.stop, "sync_ok", "sync_failed")
    /\ UNCHANGED <<bought, adrift, sold, row, mirror, paper, swing, t1>>

SyncOk ==
    /\ At("sync_ok")
    /\ Push(WithStop(row, paper.stop)) /\ Done
    /\ UNCHANGED <<kotak, paper, swing, t1, faults>>

SyncFailed ==
    /\ At("sync_failed")
    /\ Push(Degraded(NoStop(row))) /\ FlagT1
    /\ IF op.why = "cas" THEN ToExit ELSE Done
    /\ UNCHANGED <<kotak, paper, swing, faults>>

(***************************************************************************)
(* The process dies; the disk is wiped.  hydrate_real_positions_from_      *)
(* external restores the row without its strategy, and the paper position  *)
(* comes back only when its own snapshot was fresh.                        *)
(***************************************************************************)
Restart ==
    /\ Fault("restart")
    /\ row' = [mirror EXCEPT !.tagged = FALSE]
    /\ paper' \in {paper, Flat}
    /\ op' = Idle
    /\ adrift' = (adrift \/ At("entry_book"))
    /\ UNCHANGED <<bought, sold, book, mirror, swing, t1>>

Init ==
    /\ bought = 0 /\ sold = 0 /\ adrift = FALSE /\ book = <<>>
    /\ row = NoRow /\ mirror = NoRow /\ paper = Flat
    /\ swing = FALSE /\ t1 = FALSE /\ op = Idle /\ faults = 0

Entry == EntryBook \/ EntryStopCall \/ EntryStopOk \/ EntryStopFailed \/ EntryTargetCall
            \/ TargetOk \/ End
Leg == \/ LegTarget \/ LegStop \/ LegSell \/ LegUnsold \/ LegRestored \/ LegUnrestored \/ LegBook
       \/ LegNewStop \/ LegNewStopOk \/ LegNewStopFailed \/ LegSweep \/ LegNextTarget \/ LegEnd
Exit == ExitCheck \/ ExitStop \/ ExitTarget \/ ExitSell \/ ExitBook \/ ExitFailed
Sync == SyncPaper \/ SyncQty \/ SyncLive \/ SyncClock \/ SyncOpen \/ SyncCancel \/ SyncPlace
            \/ SyncOk \/ SyncFailed
Step == Entry \/ Leg \/ Exit \/ Sync

Next == \/ Enter \/ EnterOnPaperOnly \/ BookPaperLeg \/ PaperExit \/ Tick \/ Step \/ ClockRuns \/ Restart
        \/ \E o \in Ids : Fill(o)

Spec == Init /\ [][Next]_vars

\* The scheduler keeps visiting a symbol with an open row and not every visit enters or
\* exits on paper; every call returns; time passes.
FairSpec == Spec /\ SF_vars(Tick) /\ WF_vars(Step) /\ WF_vars(ClockRuns)

-----------------------------------------------------------------------------
Order == [kind : {"sl", "target"}, qty : 1..MaxBought, level : 0..MaxLevel,
          status : {"resting", "filled", "cancelled"}]
Places == {"idle", "entry_book", "entry_stop", "entry_stop_ok", "entry_stop_failed",
           "entry_target", "target_ok", "end",
           "leg_target", "leg_stop", "leg_sell", "leg_unsold", "leg_restored",
           "leg_unrestored", "leg_book", "leg_newstop", "leg_newstop_ok",
           "leg_newstop_failed", "leg_sweep", "leg_nexttarget", "leg_end",
           "exit_check", "exit_stop", "exit_target", "exit_sell", "exit_book", "exit_failed",
           "sync_paper", "sync_qty", "sync_live", "sync_clock", "sync_open", "sync_cancel",
           "sync_place", "sync_ok", "sync_failed"}
Row == [qty : 0..MaxBought, sl : 0..MaxOrders, level : 0..MaxLevel, target : 0..MaxOrders,
        legs : SUBSET (1..3), tagged : BOOLEAN, clock : {"off", "running", "over"}]
Paper == [long : BOOLEAN, stop : Levels, legs : SUBSET (1..3)]
Op == [at : Places, leg : 0..3, order : 0..MaxOrders,
       why : {"none", "short", "other", "cas", "t1"},
       chan : BOOLEAN, inferred : BOOLEAN, slGone : BOOLEAN, slOk : BOOLEAN]

TypeOK ==
    /\ bought \in 0..MaxBought /\ sold \in Nat /\ adrift \in BOOLEAN
    /\ book \in Seq(Order)
    /\ row \in Row /\ mirror \in Row
    /\ paper \in Paper
    /\ swing \in BOOLEAN /\ t1 \in BOOLEAN /\ faults \in 0..MaxFaults
    /\ op \in Op

\* cancel_existing_resting_sl: "a duplicate can never accumulate again regardless of why
\* this app's own tracking went stale": at most one stop of the position rests at Kotak
\* (after one fault; two, a lost id before a leg, can leave two).
AtMostOneStop == Cardinality(Resting("sl")) <= 1

\* 2026-09-21 incident, "no naked target": a target is placed only when the stop the row
\* names was accepted and the bot has not cancelled it since.
TargetOnlyBehindStop ==
    [][\A o \in DOMAIN book' \ Ids :
          book'[o].kind = "target" =>
             row.sl \in Ids /\ book[row.sl].kind = "sl" /\ book[row.sl].status # "cancelled"]_vars

\* The partial exit works "without closing the position", a failed exit is never guessed
\* closed: between two ticks a row is gone only when the position is closed at Kotak or
\* handed to the swing engine, or the shares had gone adrift: the buy was never booked, or an order
\* id was taken for an execution.
NeverForgets == At("idle") /\ row.qty = 0 /\ ~swing /\ ~adrift => Net <= 0

\* Row and shares keep the promise every engine makes about a position: nothing is bought
\* while the row exists, and between two ticks it goes only when the shares are gone or handed
\* to the swing engine, however many calls that took.  Shares that went adrift are left to the
\* reconcile job, which makes them a swing position.
Owned == INSTANCE OwnedPosition
             WITH held <- Net, tracked <- row.qty > 0 \/ ~At("idle"), handed <- swing \/ adrift
KeepsPromise == Owned!Spec

\* A row that outlived its position, after a fill the bot did not see, an order whose answer was
\* lost or wrong or a restart before the DELETE, is removed in the end, unless the symbol was
\* handed to the swing engine and then entered again: the exit refuses it.
GhostIsCleared == (row.qty > 0 /\ Net <= 0) ~> (row.qty = 0 \/ swing)

\* A tracked position without a stop at Kotak gets one or is sold: the degraded clock
\* escalates also when the symbol refuses stops.  A sell that was counted and not executed ends
\* it, the shares are then left without row and stop.
NeverNakedForever ==
    (row.qty > 0 /\ Net > 0 /\ Resting("sl") = {})
        ~> (Resting("sl") # {} \/ Net <= 0 \/ swing \/ (adrift /\ row.qty = 0))

=============================================================================

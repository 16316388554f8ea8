------------------------------ MODULE SwingLong ------------------------------
(***************************************************************************)
(* One symbol of the swing engine: the paper position, the real buy and    *)
(* sell that mirror it, the real_positions_swing row, and the 5-minute     *)
(* reconcile that sets the row right from what Kotak shows (main.py,       *)
(* _maybe_place_real_swing_entry, _maybe_place_real_swing_exit,            *)
(* _retry_pending_real_swing_orders, _reconcile_real_positions_core).      *)
(*                                                                         *)
(* Three threads work without a lock: the scan pass that decides, the tick *)
(* that retries, and the reconcile.  One action is one answer of Kotak or  *)
(* one commit with its push.  An entry is one share.  positions() has the  *)
(* fills of the day, holdings() the shares carried into it.  The model's   *)
(* clock is the market session; a night is one step.                       *)
(***************************************************************************)
EXTENDS Integers, FiniteSetsExt

CONSTANTS
    Overlap,   \* the threads that work whatever the others do (in the code: all); the others take turns
    Faults,    \* which faults may happen, out of FaultKinds
    MaxEvents  \* bound: shares bought and faults, together; the caps refuse the next share

Threads == {"scan", "tick", "reconcile"}
FaultKinds == {"refused", "lost_buy", "lost_sell", "cancel_fails", "unreadable", "restart"}

ASSUME OverlapAssumption == Overlap \subseteq Threads
ASSUME BoundsAssumption == MaxEvents \in Nat
ASSUME FaultsAssumption == Faults \subseteq FaultKinds

VARIABLES
    carried, bought, sold, \* Kotak: shares held at the open, bought and sold since
    stop,     \* Kotak: quantity of the live SELL stop, 0 when there is none
    row,      \* real_positions_swing
    mirror,   \* the row as last pushed to Upstash
    union,    \* tracked_union: "open" or "ended" when it has the symbol as swing's
    intra,    \* quantity of a real_positions row the reconcile made, without a strategy
    paper,    \* signal_state_swing: "fresh" on its entry day, "old" after it
    done,     \* swing_done_today: paper entered or left today
    dusk,     \* the session is over for new calls
    op,       \* per thread: the call in progress
    events    \* shares bought and faults so far (bounded by MaxEvents)

kotak == <<carried, bought, sold, stop>>
tables == <<row, mirror, union, intra, paper>>
clock == <<done, dusk>>
vars == <<carried, bought, sold, stop, row, mirror, union, intra, paper, done, dusk, op, events>>

\* sl: the stop order the row names is "live" or "dead" at Kotak.
\* ended: a paper SELL is on record since the row was opened.
NoRow == [qty |-> 0, sl |-> "none", ended |-> FALSE]
Opened(q) == [NoRow EXCEPT !.qty = q]
Unknown == -1
\* job: what the stop is for; qty, sl: as read; pos, hold: the reconcile's snapshot, seen: its
\* order book ("unknown" when empty or unreadable).
Idle == [at |-> "idle", job |-> "none", qty |-> 0, sl |-> "none",
         pos |-> 0, hold |-> Unknown, seen |-> "unknown"]

At(t, pc) == op[t].at = pc
Go(t, pc) == op' = [op EXCEPT ![t].at = pc]
Done(t) == op' = [op EXCEPT ![t] = Idle]
Free(t) == At(t, "idle") /\ ~dusk /\ (t \in Overlap \/ \A u \in Threads \ Overlap : At(u, "idle"))

Happens == events < MaxEvents /\ events' = events + 1
Fault(kind) == kind \in Faults /\ Happens
NoFault == UNCHANGED events

(***************************************************************************)
(* Kotak.                                                                  *)
(***************************************************************************)
Held == carried + bought - sold
\* positions(): a sale of carried shares is not a short position.
Positions == Max({bought - sold, 0})
\* holdings() less what was sold today.
Holdings == Max({carried - sold, 0})
\* _kotak_swing_symbol_still_held, positions() first.
StillHeld == (bought > 0 /\ bought # sold) \/ Holdings > 0

\* An order that is gone is named in vain, wherever its id was written down.
Dead(sl) == IF sl = "live" THEN "dead" ELSE sl
DeadOp == [t \in Threads |-> [op[t] EXCEPT !.sl = Dead(@), !.seen = Dead(@)]]
DeadRows ==
    /\ row' = [row EXCEPT !.sl = Dead(@)]
    /\ mirror' = [mirror EXCEPT !.sl = Dead(@)]

Fill ==
    /\ stop > 0
    /\ sold' = sold + stop /\ stop' = 0
    /\ DeadRows /\ op' = DeadOp
    /\ UNCHANGED <<carried, bought, union, intra, paper, clock, events>>

\* The live stop is cancelled (q = 0), or gives way to one of q shares.
Replace(q, t, next) ==
    /\ stop' = q
    /\ DeadRows
    /\ op' = [DeadOp EXCEPT ![t] = next]

(***************************************************************************)
(* Entries: _run_swing_scan decides, _retry_pending_real_swing_orders      *)
(* tries again what is not there yet.                                      *)
(***************************************************************************)
PaperEnter ==
    /\ Free("scan") /\ paper = "none" /\ ~done
    /\ paper' = "fresh" /\ done' = TRUE
    /\ Go("scan", "gate")
    /\ UNCHANGED <<kotak, row, mirror, union, intra, dusk, events>>

Retry ==
    /\ Free("tick") /\ paper = "fresh" /\ row.qty = 0
    /\ Go("tick", "gate")
    /\ UNCHANGED <<kotak, tables, clock, events>>

\* No row, and no sale today (not known when the order book cannot be read).
Gate(t) ==
    /\ At(t, "gate")
    /\ \/ /\ row.qty = 0
          /\ IF sold = 0 THEN NoFault ELSE Fault("unreadable")
          /\ Go(t, "buy")
       \/ (row.qty > 0 \/ sold > 0) /\ NoFault /\ Done(t)
    /\ UNCHANGED <<kotak, tables, clock>>

\* place_real_entry: bought, refused, or bought although the call failed.
Buy(t) ==
    /\ At(t, "buy")
    /\ \/ bought' = bought + 1 /\ Happens /\ Go(t, "book")
       \/ bought' = bought + 1 /\ Fault("lost_buy") /\ Done(t)
       \/ UNCHANGED bought /\ (IF events = MaxEvents THEN NoFault ELSE Fault("refused")) /\ Done(t)
    /\ UNCHANGED <<carried, sold, stop, tables, clock>>

\* A plain INSERT: it fails when another thread has made the row meanwhile.
Book(t) ==
    /\ At(t, "book")
    /\ \/ /\ row.qty = 0
          /\ row' = Opened(1)
          /\ op' = [op EXCEPT ![t] = [Idle EXCEPT !.at = "stop", !.job = "entry", !.qty = 1]]
       \/ row.qty > 0 /\ UNCHANGED row /\ Done(t)
    /\ UNCHANGED <<kotak, mirror, union, intra, paper, clock, events>>

(***************************************************************************)
(* ensure_resting_sl (module RestingStop has its steps): adopts a stop     *)
(* that covers q shares, or puts one of q shares in the place of a smaller *)
(* one.                                                                    *)
(***************************************************************************)
Stop(t) ==
    /\ At(t, "stop")
    /\ \/ /\ op[t].qty <= stop /\ NoFault
          /\ op' = [op EXCEPT ![t].at = "link", ![t].sl = "live"]
          /\ UNCHANGED <<stop, row, mirror>>
       \/ /\ stop < op[t].qty /\ op[t].qty <= Held /\ NoFault
          /\ Replace(op[t].qty, t, [op[t] EXCEPT !.at = "link", !.sl = "live"])
       \/ /\ stop < op[t].qty
          /\ IF op[t].qty > Held THEN NoFault ELSE Fault("refused")
          /\ Go(t, "unstopped")
          /\ UNCHANGED <<stop, row, mirror>>
    /\ UNCHANGED <<carried, bought, sold, union, intra, paper, clock>>

\* UPDATE by symbol: nothing when the row is gone.
Linked(r, sl) == IF r.qty = 0 THEN r ELSE [r EXCEPT !.sl = sl]

\* The backfill of the reconcile commits and pushes with the rest of the round.
After(t) ==
    op' = [op EXCEPT ![t] = IF @.job = "backfill"
                            THEN [Idle EXCEPT !.at = "push", !.pos = op[t].pos, !.hold = op[t].hold]
                            ELSE Idle]

Link(t) ==
    /\ At(t, "link")
    /\ row' = Linked(row, op[t].sl)
    /\ mirror' = IF op[t].job = "backfill" THEN mirror ELSE row'
    /\ After(t)
    /\ UNCHANGED <<kotak, union, intra, paper, clock, events>>

\* No trade without a stop: an entry is sold again.  Everybody else tries again later.
Unstopped(t) ==
    /\ At(t, "unstopped")
    /\ mirror' = IF op[t].job \in {"entry", "heal"} THEN row ELSE mirror
    /\ IF op[t].job = "entry" THEN op' = [op EXCEPT ![t] = [Idle EXCEPT !.at = "check"]] ELSE After(t)
    /\ UNCHANGED <<kotak, row, union, intra, paper, clock, events>>

\* _maybe_sync_real_swing_stop_loss: the row names no stop.
SyncStop ==
    /\ Free("tick") /\ row.qty > 0 /\ row.sl = "none"
    /\ op' = [op EXCEPT !["tick"] = [Idle EXCEPT !.at = "stop", !.job = "sync", !.qty = row.qty]]
    /\ UNCHANGED <<kotak, tables, clock, events>>

\* _sync_swing_resting_sl_to_strategy: the rule of the paper position raises the stop.
TrailStop ==
    /\ Free("tick") /\ row.qty > stop /\ row.sl # "none" /\ paper # "none"
    /\ op' = [op EXCEPT !["tick"] = [Idle EXCEPT !.at = "stop", !.job = "sync", !.qty = row.qty]]
    /\ UNCHANGED <<kotak, tables, clock, events>>

(***************************************************************************)
(* Exits: decided on paper, tried again by the tick while the paper SELL   *)
(* is on record, or forced when the market is through the stop.            *)
(***************************************************************************)
Ended(r) == IF r.qty = 0 THEN r ELSE [r EXCEPT !.ended = TRUE]

PaperExit ==
    /\ Free("scan") /\ paper # "none"
    /\ paper' = "none" /\ done' = TRUE
    /\ row' = Ended(row) /\ mirror' = Ended(mirror)
    /\ union' = IF union = "open" THEN "ended" ELSE union
    /\ Go("scan", "check")
    /\ UNCHANGED <<kotak, intra, dusk, events>>

\* NYKAA, 2026-10-07: a missing paper row alone is no reason to sell.
RetryExit ==
    /\ Free("tick") /\ row.qty > 0 /\ paper = "none" /\ row.ended
    /\ Go("tick", "check")
    /\ UNCHANGED <<kotak, tables, clock, events>>

Check(t) ==
    /\ At(t, "check")
    /\ \/ row.qty = 0 /\ NoFault /\ Done(t)
       \/ /\ row.qty > 0
          /\ \/ NoFault /\ op' = [op EXCEPT ![t].at = IF StillHeld THEN "cancel" ELSE "drop",
                                              ![t].qty = row.qty, ![t].sl = row.sl]
             \/ /\ Fault("unreadable")
                /\ op' = [op EXCEPT ![t].at = "cancel", ![t].qty = row.qty, ![t].sl = row.sl]
    /\ UNCHANGED <<kotak, tables, clock>>

\* The sell goes out whether or not the stop could be cancelled.
Cancel(t) ==
    /\ At(t, "cancel")
    /\ \/ /\ op[t].sl = "live" /\ NoFault
          /\ Replace(0, t, [op[t] EXCEPT !.at = "sell", !.sl = "none"])
       \/ /\ IF op[t].sl = "live" THEN Fault("cancel_fails") ELSE NoFault
          /\ op' = [op EXCEPT ![t].at = "sell", ![t].sl = "none"]
          /\ UNCHANGED <<stop, row, mirror>>
    /\ UNCHANGED <<carried, bought, sold, union, intra, paper, clock>>

\* Kotak sells only shares that no stop has reserved.
Sell(t) ==
    /\ At(t, "sell")
    /\ \/ op[t].qty + stop <= Held /\ sold' = sold + op[t].qty /\ NoFault
          /\ op' = [op EXCEPT ![t] = [Idle EXCEPT !.at = "drop"]]
       \/ op[t].qty + stop <= Held /\ sold' = sold + op[t].qty /\ Fault("lost_sell") /\ Done(t)
       \/ op[t].qty + stop > Held /\ UNCHANGED sold /\ NoFault /\ Done(t)
       \/ UNCHANGED sold /\ Fault("refused") /\ Done(t)
    /\ UNCHANGED <<carried, bought, stop, tables, clock>>

\* Mutant: the row keeps the id of its stop.
DropQty(t) ==
    /\ At(t, "drop")
    /\ row' = [row EXCEPT !.qty = 0] /\ mirror' = row'
    /\ Done(t)
    /\ UNCHANGED <<kotak, union, intra, paper, clock, events>>
Drop(t) ==
    /\ At(t, "drop")
    /\ row' = NoRow /\ mirror' = NoRow
    /\ Done(t)
    /\ UNCHANGED <<kotak, union, intra, paper, clock, events>>

\* _swing_stop_breached_exit: Kotak's holdings first, every open sell cancelled next.  It defers
\* when either fails, and does not see a share bought today.
Breach(t) ==
    /\ \/ t = "tick" /\ Free(t)
       \/ At(t, "stop") /\ op[t].job = "heal"
    /\ row.qty > 0 /\ Holdings > 0
    /\ Replace(0, t, [Idle EXCEPT !.at = "breach", !.qty = Holdings])
    /\ UNCHANGED <<carried, bought, sold, union, intra, paper, clock, events>>

BreachBook(t) ==
    /\ At(t, "breach")
    /\ row' = IF row.qty = 0 THEN row ELSE [row EXCEPT !.qty = op[t].qty, !.sl = "none"]
    /\ op' = [op EXCEPT ![t] = [Idle EXCEPT !.at = "check"]]
    /\ UNCHANGED <<kotak, mirror, union, intra, paper, clock, events>>

(***************************************************************************)
(* _reconcile_real_positions_core: Kotak first, then the tables.           *)
(***************************************************************************)
Reconcile ==
    /\ Free("reconcile")
    /\ op' = [op EXCEPT !["reconcile"] = [Idle EXCEPT !.at = "holdings", !.pos = Positions]]
    /\ UNCHANGED <<kotak, tables, clock, events>>

\* The order book of a day without orders is empty, and an empty one proves nothing.
OrderBook == IF stop > 0 THEN "live" ELSE IF bought + sold > 0 THEN "none" ELSE "unknown"
ReadHoldings(t) ==
    /\ At(t, "holdings")
    /\ \E seen \in {"unknown", OrderBook}, hold \in {Unknown, Holdings} :
          /\ IF seen = OrderBook /\ hold = Holdings THEN NoFault ELSE Fault("unreadable")
          /\ op' = [op EXCEPT ![t].at = "tables", ![t].hold = hold, ![t].seen = seen]
    /\ UNCHANGED <<kotak, tables, clock>>

\* What the snapshot makes of the row: positions() decides before holdings().
\* Mutant: holdings() only tell that a row is over, not how many shares it has.
CorrectedGone(t) ==
    CASE row.qty > 0 /\ op[t].pos > 0                     -> [row EXCEPT !.qty = op[t].pos]
      [] row.qty > 0 /\ op[t].pos = 0 /\ op[t].hold = 0 -> NoRow
      [] OTHER                                            -> row
Corrected(t) ==
    LET pos == op[t].pos  hold == op[t].hold IN
    CASE row.qty = 0 -> NoRow
      [] pos > 0     -> [row EXCEPT !.qty = pos]
      [] hold > 0    -> [row EXCEPT !.qty = hold]
      [] hold = 0    -> NoRow
      [] OTHER       -> row

\* _tracked_union_persist: the symbol stays swing's while Kotak shows it and no other engine has it.
UnionAfter(t, r, i) ==
    CASE op[t].pos > 0 \/ op[t].hold > 0 ->
            IF r.qty > 0 THEN (IF r.ended THEN "ended" ELSE "open")
            ELSE IF i > 0 THEN "none" ELSE union
      [] op[t].hold = 0 -> "none"
      [] OTHER -> union

\* A swing row that was lost comes back from the union.
Restored(t, r, i) ==
    IF r.qty = 0 /\ i = 0 /\ union # "none" /\ Max({op[t].pos, op[t].hold}) > 0
    THEN [Opened(Max({op[t].pos, op[t].hold})) EXCEPT !.ended = union = "ended"]
    ELSE r

Tables(t) ==
    /\ At(t, "tables")
    /\ intra' = IF intra = 0 THEN 0 ELSE op[t].pos
    /\ union' = UnionAfter(t, Corrected(t), intra')
    /\ row' = Restored(t, Corrected(t), intra')
    /\ Go(t, IF op[t].pos > 0 /\ row.qty = 0 /\ intra = 0 /\ row'.qty = 0 THEN "adopt" ELSE "align")
    /\ UNCHANGED <<kotak, mirror, paper, clock, events>>

\* A position no table has is swing's while its paper position is open, else intraday's.
Adopt(t) ==
    /\ At(t, "adopt")
    /\ \/ /\ paper # "none"
          /\ row' = IF row.qty = 0 THEN Opened(op[t].pos) ELSE row
          /\ mirror' = row'
          /\ UNCHANGED intra
       \/ /\ paper = "none"
          /\ intra' = IF intra = 0 THEN op[t].pos ELSE intra
          /\ UNCHANGED <<row, mirror>>
    /\ Go(t, "align")
    /\ UNCHANGED <<kotak, union, paper, clock, events>>

\* The row names the stop the order book shows; a row that names none gets one.
Aligned(t) == CASE row.qty = 0               -> NoRow
                [] op[t].seen = "unknown"    -> row
                [] OTHER                     -> [row EXCEPT !.sl = op[t].seen]
Align(t) ==
    /\ At(t, "align")
    /\ row' = Aligned(t)
    /\ mirror' = IF row' = row THEN mirror ELSE row'
    /\ op' = [op EXCEPT ![t] =
                 IF row'.qty > 0 /\ row'.sl = "none"
                 THEN [@ EXCEPT !.at = "stop", !.job = "backfill", !.qty = row'.qty, !.seen = "unknown"]
                 ELSE [@ EXCEPT !.at = "push", !.seen = "unknown"]]
    /\ UNCHANGED <<kotak, union, intra, paper, clock, events>>

Push(t) ==
    /\ At(t, "push")
    /\ mirror' = row
    /\ Go(t, "heal")
    /\ UNCHANGED <<kotak, row, union, intra, paper, clock, events>>

\* _heal_swing_holding_core: carried shares without a live stop, unless today's sales cover them.
\* Mutants: it gives no row, or trusts the stop the row names.
HealRowed(t) ==
    /\ At(t, "heal")
    /\ \/ /\ op[t].hold > sold /\ op[t].pos = 0 /\ stop = 0 /\ row.qty > 0
          /\ op' = [op EXCEPT ![t] = [Idle EXCEPT !.at = "stop", !.job = "heal", !.qty = op[t].hold]]
       \/ (op[t].hold <= sold \/ op[t].pos > 0 \/ stop > 0 \/ row.qty = 0) /\ Done(t)
    /\ UNCHANGED <<kotak, tables, clock, events>>
HealUnnamed(t) ==
    /\ At(t, "heal")
    /\ \/ /\ op[t].hold > sold /\ op[t].pos = 0 /\ row.sl = "none"
          /\ row' = IF row.qty = 0 THEN Opened(op[t].hold) ELSE row
          /\ op' = [op EXCEPT ![t] = [Idle EXCEPT !.at = "stop", !.job = "heal", !.qty = op[t].hold]]
       \/ (op[t].hold <= sold \/ op[t].pos > 0 \/ row.sl # "none") /\ UNCHANGED row /\ Done(t)
    /\ UNCHANGED <<kotak, mirror, union, intra, paper, clock, events>>
Heal(t) ==
    /\ At(t, "heal")
    /\ \/ /\ op[t].hold > sold /\ op[t].pos = 0 /\ stop = 0
          /\ row' = IF row.qty = 0 THEN Opened(op[t].hold) ELSE row
          /\ op' = [op EXCEPT ![t] = [Idle EXCEPT !.at = "stop", !.job = "heal", !.qty = op[t].hold]]
       \/ (op[t].hold <= sold \/ op[t].pos > 0 \/ stop > 0) /\ UNCHANGED row /\ Done(t)
    /\ UNCHANGED <<kotak, mirror, union, intra, paper, clock, events>>

(***************************************************************************)
(* A position adopted into real_positions is the intraday engine's (module *)
(* RealLong): it protects it, sells it, or gives it to swing.              *)
(***************************************************************************)
IntraProtect ==
    /\ intra > 0 /\ stop = 0 /\ intra <= Held
    /\ stop' = intra /\ DeadRows /\ op' = DeadOp
    /\ UNCHANGED <<carried, bought, sold, union, intra, paper, clock, events>>

IntraSell ==
    /\ intra > 0 /\ intra <= Held
    /\ sold' = sold + intra /\ intra' = 0
    /\ stop' = 0 /\ DeadRows /\ op' = DeadOp
    /\ UNCHANGED <<carried, bought, union, paper, clock, events>>

\* _reroute_orphan_intraday_to_swing: no strategy, no stop, no target.
Reroute ==
    /\ Free("tick") /\ intra > 0 /\ stop = 0
    /\ row' = IF row.qty = 0 THEN Opened(intra) ELSE row
    /\ mirror' = row' /\ intra' = 0
    /\ paper' = IF paper = "none" THEN "old" ELSE paper
    /\ UNCHANGED <<kotak, union, clock, op, events>>

(***************************************************************************)
(* The end of the day, and of the process.                                 *)
(***************************************************************************)
Dusk ==
    /\ ~dusk /\ dusk' = TRUE
    /\ UNCHANGED <<kotak, tables, done, op, events>>

\* Stops are valid for the day, fills are settled into holdings().
Night ==
    /\ dusk /\ \A t \in Threads : At(t, "idle")
    /\ carried' = Held /\ bought' = 0 /\ sold' = 0 /\ stop' = 0
    /\ DeadRows
    /\ paper' = IF paper = "none" THEN "none" ELSE "old"
    /\ done' = FALSE /\ dusk' = FALSE
    /\ UNCHANGED <<union, intra, op, events>>

\* The disk is wiped.  The row comes back as last pushed (module DurableMirror); the paper row
\* and the union may be lost.
Restart ==
    /\ Fault("restart")
    /\ row' = mirror
    /\ union' \in {union, "none"} /\ paper' \in {paper, "none"}
    /\ op' = [t \in Threads |-> Idle]
    /\ UNCHANGED <<kotak, mirror, intra, clock>>

Init ==
    /\ carried = 0 /\ bought = 0 /\ sold = 0 /\ stop = 0
    /\ row = NoRow /\ mirror = NoRow /\ union = "none" /\ intra = 0 /\ paper = "none"
    /\ done = FALSE /\ dusk = FALSE
    /\ op = [t \in Threads |-> Idle] /\ events = 0

Step(t) ==
    \/ Gate(t) \/ Buy(t) \/ Book(t) \/ Stop(t) \/ Link(t) \/ Unstopped(t)
    \/ Check(t) \/ Cancel(t) \/ Sell(t) \/ Drop(t) \/ BreachBook(t)
    \/ ReadHoldings(t) \/ Tables(t) \/ Adopt(t) \/ Align(t) \/ Push(t) \/ Heal(t)

Next ==
    \/ PaperEnter \/ Retry \/ SyncStop \/ TrailStop \/ PaperExit \/ RetryExit \/ Reconcile
    \/ \E t \in Threads : Step(t) \/ Breach(t)
    \/ Fill \/ IntraProtect \/ IntraSell \/ Reroute \/ Dusk \/ Night \/ Restart

Spec == Init /\ [][Next]_vars

\* Calls return, the reconcile runs every five minutes, and days pass.
FairSpec ==
    /\ Spec
    /\ \A t \in Threads : WF_vars(Step(t))
    /\ SF_vars(Reconcile) /\ WF_vars(Dusk) /\ WF_vars(Night)

-----------------------------------------------------------------------------
Pcs == {"idle", "gate", "buy", "book", "stop", "link", "unstopped", "check", "cancel", "sell",
        "drop", "breach", "holdings", "tables", "adopt", "align", "push", "heal"}
Rows == [qty : Nat, sl : {"none", "live", "dead"}, ended : BOOLEAN]

TypeOK ==
    /\ {carried, bought, sold, stop, intra, events} \subseteq Nat
    /\ {row, mirror} \subseteq Rows
    /\ row.qty = 0 => row = NoRow
    /\ union \in {"none", "open", "ended"} /\ paper \in {"none", "fresh", "old"}
    /\ {done, dusk} \subseteq BOOLEAN
    /\ op \in [Threads -> [at : Pcs, job : {"none", "entry", "sync", "backfill", "heal"}, qty : Nat,
                            sl : {"none", "live", "dead"}, pos : Nat, hold : Nat \cup {Unknown},
                            seen : {"unknown", "none", "live", "dead"}]]

\* Shares that Kotak shows for the account, however they came to lose their row (a buy whose
\* answer was lost, a row the restart did not bring back, a stale snapshot that deleted it), get
\* a row again, of the swing engine or of the intraday one: otherwise nothing sells them.
HeldIsTracked == Held > 0 ~> (Held = 0 \/ row.qty > 0 \/ intra > 0)
\* Shares without a stop get one or are sold.  Stops end with the day, the row goes on naming
\* the one of yesterday, and every repair reads a Kotak that may have changed since.
StopCoversHeld == Held > stop ~> Held <= stop
\* A row of another quantity than the account's is set right: after a stop was hit, after a
\* second buy, after an exit whose answer was lost.
RowAgrees == row.qty \notin {0, Held} ~> row.qty \in {0, Held}
=============================================================================

---------------------------- MODULE RestingStop ----------------------------
(***************************************************************************)
(* The protective SELL stop of one real swing holding: several threads of  *)
(* the bot call ensure_resting_sl (kotak_real_orders.py) for the same      *)
(* symbol while Kotak admits, rejects, fires and expires orders and shows  *)
(* them in its order book with a delay.                                    *)
(*                                                                         *)
(* Prices are levels 1..MaxTrigger: the properties only compare them.  One *)
(* action of a pass is the code between two network calls; what happens    *)
(* inside one call at Kotak is a Broker action.                            *)
(***************************************************************************)
EXTENDS Integers, FiniteSets, Sequences, FiniteSetsExt

CONSTANTS
    Threads,     \* the callers: protect pass, reconcile, trail, SL sync, ...
    NoThread,    \* nobody holds the symbol's lock
    MaxTrigger,  \* highest price level
    MaxQty,      \* most shares ever held
    EntryFloor,  \* the position's entry-day stop, 0 when none is registered
    BandLevels,  \* the 10/5/2 % band floors of the day
    WidestBand,  \* the lowest of them (10 %)
    Faults,      \* which faults may happen, out of FaultKinds
    MaxFaults,   \* bound: how many of them
    MaxOrders    \* bound: orders of one trading day

FaultKinds == {"unreadable", "lost_ack", "cancel_fails", "refused",
               "slow_book", "exit", "restart"}

ASSUME ThreadsAssumption == NoThread \notin Threads /\ IsFiniteSet(Threads)
ASSUME NumbersAssumption ==
    /\ MaxTrigger \in Nat \ {0} /\ MaxQty \in Nat \ {0}
    /\ MaxFaults \in Nat /\ MaxOrders \in Nat
    /\ EntryFloor \in 0..MaxTrigger
    /\ BandLevels \subseteq 1..MaxTrigger
    /\ WidestBand \in BandLevels /\ \A b \in BandLevels : WidestBand <= b
ASSUME FaultsAssumption == Faults \subseteq FaultKinds

VARIABLES
    session,    \* "pre" before 09:15, "open", "closing" from 15:15 IST
    bandFloor,  \* Kotak refuses a trigger below it today
    held,       \* shares of the holding at Kotak
    stop,       \* the stop level on the bot's books: it only ratchets up
    orders,     \* today's SELL SL orders at Kotak, in the order they arrived
    exiting,    \* an exit has cleared the symbol's sells and is about to sell
    faults,     \* faults so far (bounded by MaxFaults)
    lock,       \* holder of _sl_symbol_lock(symbol)
    recent,     \* _RECENT_SL_PLACED[symbol] inside its 20 s window, or NoOrder
    pass        \* per thread: where its ensure_resting_sl call is

broker == <<session, bandFloor, held, orders, exiting>>
process == <<lock, recent, pass>>
vars == <<session, bandFloor, held, stop, orders, exiting, faults, lock, recent, pass>>

NoOrder == 0
EntryStop == 1  \* real_positions_swing.stop_loss
Triggers == 1..MaxTrigger
OrderIds == 1..MaxOrders

(***************************************************************************)
(* Kotak's side.                                                           *)
(***************************************************************************)
Statuses == {"sent", "resting", "filled", "rejected", "cancelled", "swept", "expired"}
Terminal == Statuses \ {"sent", "resting"}

Order == [trigger : Triggers, qty : 1..MaxQty, status : Statuses,
          shown : BOOLEAN, why : {"none", "session", "band", "short", "reserved", "other"}]

Ids == 1..Len(orders)
With(status) == {o \in Ids : orders[o].status = status}
Live == {o \in Ids : orders[o].status \notin Terminal}
QtyOf(O) == MapThenSumSet(LAMBDA o : orders[o].qty, O)
Reserved == QtyOf(With("resting"))

Larger(a, b) == IF a >= b THEN a ELSE b

Idle == [at |-> "idle", want |-> 1, qty |-> 1, blindOk |-> FALSE, mode |-> "none",
         price |-> 1, breached |-> FALSE, best |-> 1, order |-> NoOrder, todo |-> {},
         ok |-> FALSE, action |-> "none", sure |-> FALSE]

Fault(kind) == kind \in Faults /\ faults < MaxFaults /\ faults' = faults + 1

SetStatus(o, s) == orders' = [orders EXCEPT ![o].status = s]

\* Kotak's risk system decides on an order it has acknowledged: "short" when the
\* account no longer holds the shares, "reserved" when another stop uses them.
Verdict(o) ==
    IF session # "open" THEN "session"
    ELSE IF orders[o].trigger < bandFloor THEN "band"
    ELSE IF orders[o].qty > held THEN "short"
    ELSE IF Reserved + orders[o].qty > held THEN "reserved"
    ELSE "none"

Admit(o) ==
    /\ orders[o].status = "sent"
    /\ orders' = [orders EXCEPT ![o].why = Verdict(o), ![o].status =
                     IF Verdict(o) = "none" THEN "resting" ELSE "rejected"]
    /\ UNCHANGED <<session, bandFloor, held, stop, exiting, faults, process>>

\* Any other refusal (margin, surveillance, an unrecognised reason).
Refuse(o) ==
    /\ orders[o].status = "sent"
    /\ Fault("refused")
    /\ orders' = [orders EXCEPT ![o].status = "rejected", ![o].why = "other"]
    /\ UNCHANGED <<session, bandFloor, held, stop, exiting, process>>

\* The order becomes visible in order_report.
Show(o) ==
    /\ ~orders[o].shown
    /\ orders' = [orders EXCEPT ![o].shown = TRUE]
    /\ UNCHANGED <<session, bandFloor, held, stop, exiting, faults, process>>

\* The market trades through the trigger and the stop sells its shares.
Fire(o) ==
    /\ session = "open" /\ orders[o].status = "resting"
    /\ SetStatus(o, "filled")
    /\ held' = held - orders[o].qty
    /\ UNCHANGED <<session, bandFloor, stop, exiting, faults, process>>

\* More shares of the same holding (an add-on buy).
Grow ==
    /\ held \in 1..(MaxQty - 1)
    /\ held' = held + 1
    /\ UNCHANGED <<session, bandFloor, stop, orders, exiting, faults, process>>

\* The strategy ratchets its stop.
RaiseStop ==
    /\ stop < MaxTrigger
    /\ stop' = stop + 1
    /\ UNCHANGED <<broker, faults, process>>

Opens ==
    /\ session = "pre"
    /\ session' = "open"
    /\ UNCHANGED <<bandFloor, held, stop, orders, exiting, faults, process>>

\* 15:15 IST: the exchange cancels every resting stop.
Closes ==
    /\ session = "open"
    /\ session' = "closing"
    /\ orders' = [o \in Ids |-> IF orders[o].status = "resting"
                                THEN [orders[o] EXCEPT !.status = "expired"] ELSE orders[o]]
    /\ UNCHANGED <<bandFloor, held, stop, exiting, faults, process>>

\* The next trading day starts with an empty order book; no call spans the night.
NextDay ==
    /\ session = "closing" /\ ~exiting
    /\ \A t \in Threads : pass[t].at = "idle"
    /\ session' = "pre" /\ orders' = <<>> /\ recent' = NoOrder
    /\ bandFloor' \in BandLevels
    /\ UNCHANGED <<held, stop, exiting, faults, lock, pass>>

(***************************************************************************)
(* An exit outside the lock: _swing_stop_breached_exit cancels every open  *)
(* sell it can see, then sells at market.                                  *)
(***************************************************************************)
ExitSweep ==
    /\ session = "open" /\ held > 0 /\ ~exiting
    /\ Fault("exit")
    /\ exiting' = TRUE
    /\ orders' = [o \in Ids |-> IF orders[o].shown /\ orders[o].status \notin Terminal
                                THEN [orders[o] EXCEPT !.status = "swept"] ELSE orders[o]]
    /\ UNCHANGED <<session, bandFloor, held, stop, process>>

\* The market sell is rejected when a stop has reserved the shares meanwhile.
ExitSell ==
    /\ exiting
    /\ exiting' = FALSE
    /\ held' = IF session = "open" /\ Reserved = 0 THEN 0 ELSE held
    /\ UNCHANGED <<session, bandFloor, stop, orders, faults, process>>

(***************************************************************************)
(* ensure_resting_sl.                                                      *)
(***************************************************************************)
Finish(t, ok, action, o, sure) ==
    /\ pass' = [pass EXCEPT ![t] = [Idle EXCEPT !.ok = ok, !.action = action,
                                                !.order = o, !.sure = sure]]
    /\ lock' = NoThread

\* What a read of the reference prices may say of the market: the level of 0.995 x last,
\* or nothing.  It moves between any two reads.
NoPrice == MaxTrigger + 2
Markets == 0..NoPrice
Under(level, market) == market # NoPrice /\ level < market

\* apply_entry_day_floor: at least the entry-day stop.  When that is at or above the
\* market, as close under it as can rest, and never under what was asked for.
FloorBreached(p, market) == p < EntryFloor /\ market # NoPrice /\ EntryFloor >= market
FlooredNever(p, market) == p  \* mutant: the code before B-1440
Floored(p, market) ==
    IF FloorBreached(p, market) THEN Larger(p, market) ELSE Larger(p, EntryFloor)

\* _preclamp_long_stop.
Clamped(p, market) == IF Under(WidestBand, market) THEN Larger(p, WidestBand) ELSE p

\* Mutant: a level too high.
SendPriceOffByOne(mode, p, market) == Clamped(p, market) + 1
\* What the chokepoint sends; the restore bypasses the floor.
SendPrice(mode, p, market) ==
    Clamped(IF mode = "restore" THEN p ELSE Floored(p, market), market)

Sending(t, mode, p, market) ==
    [pass[t] EXCEPT !.at = "send", !.mode = mode, !.price = SendPrice(mode, p, market),
                    !.breached = mode # "restore" /\ FloorBreached(p, market), !.todo = {}]

StartPlacing(t, mode, p) ==
    IF session = "pre"
    THEN Finish(t, FALSE, IF mode \in {"replaced", "restore"} THEN "replace_failed" ELSE mode,
                NoOrder, FALSE)
    ELSE /\ \E market \in Markets : pass' = [pass EXCEPT ![t] = Sending(t, mode, p, market)]
         /\ UNCHANGED lock

\* Mutant: the stop that was cancelled is not placed again.
PlaceFailedNaked(t) == Finish(t, FALSE, "replace_failed", NoOrder, FALSE)
PlaceFailed(t) ==
    IF pass[t].mode = "replaced"
    THEN StartPlacing(t, "restore", pass[t].best)
    ELSE Finish(t, FALSE, IF pass[t].mode = "restore" THEN "replace_failed" ELSE pass[t].mode,
                NoOrder, FALSE)

Placed(t, o, sure) ==
    /\ recent' = o
    /\ IF pass[t].mode = "restore"
       THEN Finish(t, FALSE, "replace_failed", o, sure)
       ELSE Finish(t, TRUE, pass[t].mode, o, sure)

\* A caller reads the stop it wants before it waits for the lock: the trail passes
\* want the current level, the retry passes the level stored at entry.
Call(t, want) ==
    /\ pass[t].at = "idle" /\ held > 0
    /\ \E blindOk \in BOOLEAN :
          pass' = [pass EXCEPT ![t] = [Idle EXCEPT !.at = "lock", !.want = want,
                                                   !.qty = held, !.blindOk = blindOk]]
    /\ UNCHANGED <<broker, stop, faults, lock, recent>>

\* Mutant: the scan starts without the symbol's lock.
AcquireUnlocked(t) ==
    /\ pass[t].at = "lock"
    /\ lock' = t
    /\ pass' = [pass EXCEPT ![t].at = "scan"]
    /\ UNCHANGED <<broker, stop, faults, recent>>

Acquire(t) ==
    /\ pass[t].at = "lock" /\ lock = NoThread
    /\ lock' = t
    /\ pass' = [pass EXCEPT ![t].at = "scan"]
    /\ UNCHANGED <<broker, stop, faults, recent>>

\* Three reads of the order book failed.
ScanUnreadable(t) ==
    /\ pass[t].at = "scan"
    /\ Fault("unreadable")
    /\ CASE ~pass[t].blindOk ->
              Finish(t, FALSE, "skipped_unreadable_book", NoOrder, FALSE)
         [] pass[t].blindOk /\ session = "closing" ->
              Finish(t, FALSE, "skipped_closing_session", NoOrder, FALSE)
         [] OTHER -> StartPlacing(t, "placed_unchecked", pass[t].want)
    /\ UNCHANGED <<broker, stop, recent>>

\* Mutants: only the book counts (the code before B-1379); terminal rows count too.
CountedBookOnly == {o \in Live : orders[o].shown}
CountedAnyStatus == {o \in Ids : orders[o].shown \/ o = recent}

\* The live stops this pass counts: the book's, and the one this process placed
\* seconds ago when the book has no row for it yet.
Counted == {o \in Live : orders[o].shown}
             \cup {o \in Ids : o = recent /\ ~orders[o].shown}
Best(O) == {o \in O : \A p \in O : orders[o].trigger >= orders[p].trigger}
Suffices(t, desired, O) ==
    (\E o \in O : orders[o].trigger >= desired) /\ QtyOf(O) >= pass[t].qty
\* The level the pass wants, compared and placed against the floored stop.
Desired(t) == {Floored(pass[t].want, market) : market \in Markets}

ScanAdopt(t) ==
    /\ pass[t].at = "scan"
    /\ \E desired \in Desired(t) : Suffices(t, desired, Counted)
    /\ \E o \in Best(Counted) : Finish(t, TRUE, "adopted_existing", o, FALSE)
    /\ UNCHANGED <<broker, stop, faults, recent>>

ScanClosing(t) ==
    /\ pass[t].at = "scan" /\ session = "closing"
    /\ \E desired \in Desired(t) : ~Suffices(t, desired, Counted)
    /\ \E o \in IF Counted = {} THEN {NoOrder} ELSE Best(Counted) :
          Finish(t, FALSE, "skipped_closing_session", o, FALSE)
    /\ UNCHANGED <<broker, stop, faults, recent>>

Replacing(t, desired, o) ==
    [pass[t] EXCEPT !.at = "cancel", !.todo = Counted, !.want = desired,
                    !.best = orders[o].trigger]
ScanReplace(t) ==
    /\ pass[t].at = "scan" /\ session # "closing" /\ Counted # {}
    /\ \E desired \in Desired(t), o \in Best(Counted) :
          /\ ~Suffices(t, desired, Counted)
          /\ pass' = [pass EXCEPT ![t] = Replacing(t, desired, o)]
    /\ UNCHANGED <<broker, stop, faults, lock, recent>>

ScanFresh(t) ==
    /\ pass[t].at = "scan" /\ session # "closing" /\ Counted = {}
    /\ \E desired \in Desired(t) : StartPlacing(t, "placed", desired)
    /\ UNCHANGED <<broker, stop, faults, recent>>

\* One cancel_real_order; its answer is ignored.
CancelOne(t) ==
    /\ pass[t].at = "cancel"
    /\ \E o \in pass[t].todo :
          /\ pass' = [pass EXCEPT ![t].todo = @ \ {o}]
          /\ \/ /\ orders' = IF orders[o].status \in Terminal THEN orders
                             ELSE [orders EXCEPT ![o].status = "cancelled"]
                /\ UNCHANGED faults
             \/ /\ orders[o].status \notin Terminal
                /\ Fault("cancel_fails")
                /\ UNCHANGED orders
    /\ UNCHANGED <<session, bandFloor, held, stop, exiting, lock, recent>>

CancelsDone(t) ==
    /\ pass[t].at = "cancel" /\ pass[t].todo = {}
    /\ StartPlacing(t, "replaced", pass[t].want)
    /\ UNCHANGED <<broker, stop, faults, recent>>

NewOrder(t) == [trigger |-> pass[t].price, qty |-> pass[t].qty, status |-> "sent",
                shown |-> FALSE, why |-> "none"]

\* place_order is acknowledged with an order id.
Send(t) ==
    /\ pass[t].at = "send" /\ Len(orders) < MaxOrders
    /\ orders' = Append(orders, NewOrder(t))
    /\ pass' = [pass EXCEPT ![t].at = "confirm", ![t].order = Len(orders) + 1]
    /\ UNCHANGED <<session, bandFloor, held, stop, exiting, faults, lock, recent>>

\* The call times out: Kotak may or may not have taken the order.
SendLostAck(t) ==
    /\ pass[t].at = "send" /\ Len(orders) < MaxOrders
    /\ Fault("lost_ack")
    /\ orders' \in {orders, Append(orders, NewOrder(t))}
    /\ pass' = [pass EXCEPT ![t].at = "reread"]
    /\ UNCHANGED <<session, bandFloor, held, stop, exiting, lock, recent>>

\* _adopt_sl_after_lost_ack: up to three re-reads of the book.
Adoptable(t) == {o \in Live : orders[o].shown /\ orders[o].trigger = pass[t].price}
RereadAdopts(t) ==
    /\ pass[t].at = "reread"
    /\ \E o \in Adoptable(t) : Placed(t, o, TRUE)
    /\ UNCHANGED <<broker, stop, faults>>
RereadFindsNothing(t) ==
    /\ pass[t].at = "reread" /\ Adoptable(t) = {}
    /\ PlaceFailed(t)
    /\ UNCHANGED <<broker, stop, faults, recent>>

\* The book says the order rests (or has already filled).
ConfirmResting(t) ==
    /\ pass[t].at = "confirm"
    /\ orders[pass[t].order].shown /\ orders[pass[t].order].status \in {"resting", "filled"}
    /\ Placed(t, pass[t].order, TRUE)
    /\ UNCHANGED <<broker, stop, faults>>

\* Four reads ended without a verdict: taken as placed, unconfirmed.
ConfirmUnknown(t) ==
    /\ pass[t].at = "confirm"
    /\ IF orders[pass[t].order].shown
            /\ orders[pass[t].order].status \in {"resting", "filled", "rejected"}
       THEN Fault("unreadable")
       ELSE UNCHANGED faults
    /\ Placed(t, pass[t].order, FALSE)
    /\ UNCHANGED <<broker, stop>>

\* Rejected: out of the price band means the next band floor under the market is tried.
Retrying(t, b) == [pass[t] EXCEPT !.at = "send", !.price = b, !.order = NoOrder]
NextBands(t, market) == {b \in BandLevels : b > pass[t].price /\ Under(b, market)}
ConfirmRejected(t) ==
    /\ pass[t].at = "confirm"
    /\ orders[pass[t].order].shown /\ orders[pass[t].order].status = "rejected"
    /\ \E market \in Markets :
          IF orders[pass[t].order].why = "band" /\ NextBands(t, market) # {}
          THEN /\ \E b \in NextBands(t, market) :
                     /\ \A c \in NextBands(t, market) : b <= c
                     /\ pass' = [pass EXCEPT ![t] = Retrying(t, b)]
               /\ UNCHANGED lock
          ELSE PlaceFailed(t)
    /\ UNCHANGED <<broker, stop, faults, recent>>

\* The 20 s window of _RECENT_SL_PLACED ends; Kotak normally shows the order by then.
RecentExpires ==
    /\ recent # NoOrder
    /\ IF orders[recent].shown THEN UNCHANGED faults ELSE Fault("slow_book")
    /\ recent' = NoOrder
    /\ UNCHANGED <<broker, stop, lock, pass>>

\* The process dies and comes back with neither its locks nor its memory.
Restart ==
    /\ Fault("restart")
    /\ lock' = NoThread /\ recent' = NoOrder
    /\ pass' = [t \in Threads |-> Idle]
    /\ exiting' = FALSE
    /\ UNCHANGED <<session, bandFloor, held, stop, orders>>

Init ==
    /\ session = "pre" /\ bandFloor \in BandLevels
    /\ held = 1 /\ stop = EntryStop /\ orders = <<>> /\ exiting = FALSE /\ faults = 0
    /\ lock = NoThread /\ recent = NoOrder /\ pass = [t \in Threads |-> Idle]

Scan(t) == ScanUnreadable(t) \/ ScanAdopt(t) \/ ScanClosing(t) \/ ScanReplace(t) \/ ScanFresh(t)
Place(t) == \/ Send(t) \/ SendLostAck(t) \/ RereadAdopts(t) \/ RereadFindsNothing(t)
            \/ ConfirmResting(t) \/ ConfirmUnknown(t) \/ ConfirmRejected(t)
Step(t) == Acquire(t) \/ Scan(t) \/ CancelOne(t) \/ CancelsDone(t) \/ Place(t)

Broker == \/ \E o \in Ids : Admit(o) \/ Refuse(o) \/ Show(o) \/ Fire(o)
          \/ Grow \/ RaiseStop \/ Opens \/ Closes \/ NextDay
Exit == ExitSweep \/ ExitSell

Next ==
    \/ Broker \/ Exit \/ RecentExpires \/ Restart
    \/ \E t \in Threads : Call(t, EntryStop) \/ Call(t, stop) \/ Step(t)

Spec == Init /\ [][Next]_vars

(***************************************************************************)
(* Fairness: the periodic loops keep calling, Kotak answers every request  *)
(* and shows every order.  The lock is free only now and then: SF.         *)
(***************************************************************************)
Fairness ==
    /\ \A t \in Threads :
          /\ SF_vars(Call(t, stop)) /\ SF_vars(Acquire(t))
          /\ WF_vars(Scan(t)) /\ WF_vars(CancelOne(t) \/ CancelsDone(t))
          /\ WF_vars(Place(t))
    /\ \A o \in OrderIds : WF_vars(o \in Ids /\ Admit(o)) /\ WF_vars(o \in Ids /\ Show(o))
    /\ WF_vars(RecentExpires) /\ WF_vars(ExitSell)

FairSpec == Spec /\ Fairness

-----------------------------------------------------------------------------
Pass == [at : {"idle", "lock", "scan", "cancel", "send", "confirm", "reread"},
         want : Triggers, qty : 1..MaxQty, blindOk : BOOLEAN,
         mode : {"none", "placed", "placed_unchecked", "replaced", "restore"},
         price : Triggers, breached : BOOLEAN, best : Triggers, order : Nat,
         todo : SUBSET Nat, ok : BOOLEAN,
         action : {"none", "placed", "placed_unchecked", "replaced", "replace_failed",
                   "adopted_existing", "skipped_unreadable_book", "skipped_closing_session"},
         sure : BOOLEAN]

TypeOK ==
    /\ session \in {"pre", "open", "closing"} /\ bandFloor \in BandLevels
    /\ held \in Int /\ held <= MaxQty /\ stop \in Triggers /\ exiting \in BOOLEAN /\ faults \in Nat
    /\ orders \in Seq(Order)
    /\ lock \in Threads \cup {NoThread}
    /\ recent \in Nat
    /\ pass \in [Threads -> Pass]

\* B-1379: one lock per symbol makes scan-then-act atomic inside the process; at
\* most one caller is past the lock.
OneScanAtATime == \A t \in Threads : pass[t].at \notin {"idle", "lock"} => lock = t

\* B-1379: no protect pass ever sends a stop for shares another live stop of this
\* process already reserves, although the order book shows new orders late.
NoDoubleReservation == \A o \in Ids : orders[o].why # "reserved"

Ends(t) == pass[t].at # "idle" /\ pass'[t].at = "idle"

\* "Replaced by a higher stop (the stop only ratchets up)": a stop that replaces others
\* is never under the level asked for; it is at least the entry-day stop unless that was
\* at or above the market when it was sent (entry_floor_breached); and it is under the
\* highest stop it replaces only when that one covers too few shares: then the caller's
\* level counts, also one stored at entry or read before a later raise.
ReplacementNeverLoosens ==
    [][\A t \in Threads :
          (Ends(t) /\ pass'[t].action = "replaced")
             => LET new == orders[pass'[t].order] IN
                /\ new.trigger >= pass[t].want
                /\ new.trigger >= EntryFloor \/ pass[t].breached
                /\ \/ new.trigger >= pass[t].best
                   \/ \E o \in Ids : orders[o].trigger = pass[t].best
                                       /\ orders[o].qty < pass[t].qty]_vars

\* Cancelling the old stop before the new one is placed is made good by the restore:
\* after one fault of any kind a pass whose level and whose cancelled stop lie inside the
\* price band, and which has a verdict on what it placed, ends with a stop at Kotak (unless
\* the session, a fill or an exit ended it).
SingleFaultKeepsAStop ==
    [][\A t \in Threads :
          (/\ Ends(t) /\ pass'[t].action \in {"replaced", "replace_failed"}
           /\ pass'[t].sure \/ pass'[t].order = NoOrder
           /\ pass[t].want >= bandFloor /\ pass[t].best >= bandFloor
           /\ session' = "open" /\ held > 0 /\ With("filled") \cup With("swept") = {})
             => Live' # {}]_vars

\* While the market is open an open holding always gets a stop at the current level
\* for all its shares again, whatever a fault, a restart or a racing exit left behind;
\* unless that level lies under the price band, where a stop needs the reference price.
Protected == \E o \in With("resting") : orders[o].trigger >= stop /\ orders[o].qty >= held
EventuallyProtected ==
    (session = "open" /\ held > 0)
        ~> (session # "open" \/ held = 0 \/ stop < bandFloor \/ Protected)

=============================================================================

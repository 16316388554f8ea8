------------------------- MODULE RestingStopProofs -------------------------
(***************************************************************************)
(* For every set of callers, every number of price levels and whatever     *)
(* faults happen: the state keeps its type, the symbol's lock lets one     *)
(* pass at a time scan the order book and act on it, and a replacement is  *)
(* lower than what it replaces only to cover more shares. While Kotak      *)
(* answers, no stop is sent for shares another live stop reserves.         *)
(***************************************************************************)
EXTENDS RestingStop, FiniteSetTheorems, WellFoundedInduction, TLAPS

\* Every order number the process works with is one of today's orders.
OrdersKnown ==
    /\ recent \in 0..Len(orders)
    /\ \A t \in Threads :
          /\ pass[t].at = "cancel" => pass[t].todo \subseteq Ids
          /\ pass[t].at = "confirm" => pass[t].order \in Ids

IInv == TypeOK /\ OneScanAtATime /\ OrdersKnown

LEMMA TriggersFacts == EntryStop \in Triggers /\ WidestBand \in Triggers /\ 1 \in 1..MaxQty
BY NumbersAssumption DEF EntryStop, Triggers

LEMMA IdlePass == Idle \in Pass
BY TriggersFacts DEF Idle, Pass, NoOrder, EntryStop

LEMMA FlooredType ==
    ASSUME NEW p \in Triggers, NEW market \in Markets PROVE Floored(p, market) \in Triggers
BY NumbersAssumption DEF Floored, FloorBreached, Larger, Triggers, Markets, NoPrice

LEMMA DesiredType ==
    ASSUME NEW t \in Threads, pass[t].want \in Triggers, NEW desired \in Desired(t)
    PROVE  desired \in Triggers
BY FlooredType DEF Desired

LEMMA SendPriceType ==
    ASSUME NEW mode, NEW p \in Triggers, NEW market \in Markets
    PROVE  SendPrice(mode, p, market) \in Triggers
<1> DEFINE q == IF mode = "restore" THEN p ELSE Floored(p, market)
<1>1. q \in Triggers
  BY FlooredType
<1>2. Clamped(q, market) \in Triggers
  BY <1>1, NumbersAssumption, TriggersFacts DEF Clamped, Larger, Triggers
<1> QED BY <1>2 DEF SendPrice

LEMMA InitIInv == Init => IInv
<1> SUFFICES ASSUME Init PROVE IInv
  OBVIOUS
<1>1. TypeOK
  <2>1. orders \in Seq(Order)
    BY DEF Init
  <2>2. exiting \in BOOLEAN
    BY DEF Init
  <2>3. pass \in [Threads -> Pass]
    BY IdlePass DEF Init
  <2>4. /\ session \in {"pre", "open", "closing"} /\ bandFloor \in BandLevels
        /\ held \in Int /\ held <= MaxQty /\ stop \in Triggers /\ faults \in Nat
        /\ lock \in Threads \cup {NoThread} /\ recent \in Nat
    BY TriggersFacts, NumbersAssumption DEF Init, NoOrder
  <2> QED BY <2>1, <2>2, <2>3, <2>4 DEF TypeOK
<1>2. OneScanAtATime
  BY DEF Init, OneScanAtATime, Idle
<1>3. OrdersKnown
  BY DEF Init, OrdersKnown, Idle, NoOrder
<1> QED BY <1>1, <1>2, <1>3 DEF IInv

-----------------------------------------------------------------------------
(* What one step of a thread may do to the passes and the lock.            *)

Outside == {"idle", "lock"}

\* The variables other than the passes and the lock keep their types.
RestOK ==
    /\ session \in {"pre", "open", "closing"} /\ bandFloor \in BandLevels
    /\ held \in Int /\ held <= MaxQty /\ stop \in Triggers /\ exiting \in BOOLEAN /\ faults \in Nat
    /\ orders \in Seq(Order) /\ recent \in 0..Len(orders)

\* Thread t moved inside the lock, or took it, or released it.
LockStep(t) ==
    \/ lock' = lock /\ (pass[t].at \notin Outside \/ pass'[t].at \in Outside)
    \/ lock = NoThread /\ lock' = t
    \/ lock' = NoThread /\ pass[t].at \notin Outside /\ pass'[t].at \in Outside

Moved(t) ==
    /\ pass' \in [Threads -> Pass]
    /\ \A u \in Threads \ {t} : pass'[u] = pass[u]
    /\ pass'[t].at = "cancel" => pass'[t].todo \subseteq Ids'
    /\ pass'[t].at = "confirm" => pass'[t].order \in Ids'
    /\ LockStep(t)

LEMMA MovedKeepsIInv ==
    ASSUME IInv, NEW t \in Threads, Moved(t), RestOK', Len(orders) <= Len(orders')
    PROVE  IInv'
<1>0. Len(orders) \in Nat /\ Len(orders') \in Nat /\ Ids \subseteq Ids'
  BY DEF IInv, TypeOK, RestOK, Ids
<1>1. lock' \in Threads \cup {NoThread}
  BY DEF Moved, LockStep, IInv, TypeOK
<1>2. TypeOK'
  BY <1>0, <1>1 DEF Moved, RestOK, TypeOK
<1>3. OneScanAtATime'
  BY ThreadsAssumption DEF Moved, LockStep, Outside, IInv, OneScanAtATime
<1>4. OrdersKnown'
  BY <1>0 DEF Moved, RestOK, IInv, OrdersKnown
<1> QED BY <1>2, <1>3, <1>4 DEF IInv

\* A step that leaves the passes and the lock alone.
LEMMA OthersKeepIInv ==
    ASSUME IInv, RestOK', Len(orders) <= Len(orders'), UNCHANGED <<lock, pass>>
    PROVE  IInv'
<1>0. Len(orders) \in Nat /\ Len(orders') \in Nat /\ Ids \subseteq Ids'
  BY DEF IInv, TypeOK, RestOK, Ids
<1>2. TypeOK'
  BY <1>0 DEF RestOK, IInv, TypeOK
<1>3. OneScanAtATime'
  BY DEF IInv, OneScanAtATime
<1>4. OrdersKnown'
  BY <1>0 DEF RestOK, IInv, OrdersKnown
<1> QED BY <1>2, <1>3, <1>4 DEF IInv

LEMMA IInvRestOK == IInv => RestOK
BY DEF IInv, TypeOK, OrdersKnown, RestOK

Actions == {"none", "placed", "placed_unchecked", "replaced", "replace_failed",
            "adopted_existing", "skipped_unreadable_book", "skipped_closing_session"}

LEMMA FinishMoves ==
    ASSUME IInv, NEW t \in Threads, pass[t].at \notin Outside,
           NEW ok \in BOOLEAN, NEW action \in Actions, NEW o \in Nat, NEW sure \in BOOLEAN,
           Finish(t, ok, action, o, sure)
    PROVE  Moved(t)
<1> DEFINE new == [Idle EXCEPT !.ok = ok, !.action = action, !.order = o, !.sure = sure]
<1>1. new \in Pass /\ new.at = "idle" /\ new.todo = {}
  BY IdlePass DEF Idle, Pass, Actions
<1>2. pass \in [Threads -> Pass] /\ pass' = [pass EXCEPT ![t] = new]
  BY DEF Finish, IInv, TypeOK
<1>3. pass' \in [Threads -> Pass] /\ pass'[t] = new /\ \A u \in Threads \ {t} : pass'[u] = pass[u]
  BY <1>1, <1>2
<1>4. LockStep(t)
  BY <1>1, <1>3 DEF Finish, LockStep, Outside
<1> QED BY <1>1, <1>3, <1>4 DEF Moved

PlaceModes == {"placed", "placed_unchecked", "replaced", "restore"}

\* What a pass that starts to place is about to send.
LEMMA SendingIs ==
    ASSUME NEW t \in Threads, pass[t] \in Pass, NEW mode \in PlaceModes, NEW p \in Triggers,
           NEW market \in Markets
    PROVE  LET new == Sending(t, mode, p, market) IN
           /\ new \in Pass /\ new.at = "send" /\ new.mode = mode /\ new.todo = {}
           /\ new.want = pass[t].want /\ new.best = pass[t].best /\ new.qty = pass[t].qty
           /\ new.price = SendPrice(mode, p, market)
           /\ new.breached = (mode # "restore" /\ FloorBreached(p, market))
<1> DEFINE b == mode # "restore" /\ FloorBreached(p, market)
<1>1. SendPrice(mode, p, market) \in Triggers
  BY SendPriceType
<1>2. b \in BOOLEAN
  OBVIOUS
<1>3. Sending(t, mode, p, market) =
        [pass[t] EXCEPT !.at = "send", !.mode = mode, !.price = SendPrice(mode, p, market),
                        !.breached = b, !.todo = {}]
  BY DEF Sending
<1> HIDE DEF b
<1>4. LET new == Sending(t, mode, p, market) IN
           /\ new \in Pass /\ new.at = "send" /\ new.mode = mode /\ new.todo = {}
           /\ new.want = pass[t].want /\ new.best = pass[t].best /\ new.qty = pass[t].qty
           /\ new.price = SendPrice(mode, p, market) /\ new.breached = b
  BY <1>1, <1>2, <1>3 DEF Pass, PlaceModes
<1> QED BY <1>4 DEF b

LEMMA StartPlacingMoves ==
    ASSUME IInv, NEW t \in Threads, pass[t].at \notin Outside,
           NEW mode \in PlaceModes, NEW p \in Triggers, StartPlacing(t, mode, p)
    PROVE  Moved(t)
<1> DEFINE act == IF mode \in {"replaced", "restore"} THEN "replace_failed" ELSE mode
           new(market) == Sending(t, mode, p, market)
<1>1. CASE session = "pre"
  <2>1. act \in Actions /\ NoOrder \in Nat
    BY DEF PlaceModes, Actions, NoOrder
  <2>2. Finish(t, FALSE, act, NoOrder, FALSE)
    BY <1>1 DEF StartPlacing
  <2> QED BY <2>1, <2>2, FinishMoves
<1>2. CASE session # "pre"
  <2>1. pass \in [Threads -> Pass] /\ pass[t] \in Pass
    BY DEF IInv, TypeOK
  <2>2. PICK market \in Markets : pass' = [pass EXCEPT ![t] = new(market)]
    BY <1>2 DEF StartPlacing
  <2>3. /\ new(market) \in Pass /\ new(market).at = "send" /\ new(market).mode = mode
        /\ new(market).todo = {}
    BY <2>1, SendingIs
  <2>4. pass' = [pass EXCEPT ![t] = new(market)] /\ lock' = lock
    BY <1>2, <2>2 DEF StartPlacing
  <2>5. pass' \in [Threads -> Pass] /\ pass'[t] = new(market) /\ \A u \in Threads \ {t} : pass'[u] = pass[u]
    BY <2>1, <2>3, <2>4
  <2> QED BY <2>3, <2>4, <2>5 DEF Moved, LockStep
<1> QED BY <1>1, <1>2

LEMMA PlaceFailedMoves ==
    ASSUME IInv, NEW t \in Threads, pass[t].at \notin Outside, PlaceFailed(t)
    PROVE  Moved(t)
<1>0. pass[t].best \in Triggers /\ pass[t].mode \in PlaceModes \cup {"none"}
  BY DEF IInv, TypeOK, Pass, PlaceModes
<1>1. CASE pass[t].mode = "replaced"
  <2>1. StartPlacing(t, "restore", pass[t].best)
    BY <1>1 DEF PlaceFailed
  <2> QED BY <1>0, <2>1, StartPlacingMoves DEF PlaceModes
<1>2. CASE pass[t].mode # "replaced"
  <2> DEFINE act == IF pass[t].mode = "restore" THEN "replace_failed" ELSE pass[t].mode
  <2>1. act \in Actions /\ NoOrder \in Nat
    BY <1>0, <1>2 DEF PlaceModes, Actions, NoOrder
  <2>2. Finish(t, FALSE, act, NoOrder, FALSE)
    BY <1>2 DEF PlaceFailed
  <2> QED BY <2>1, <2>2, FinishMoves
<1> QED BY <1>1, <1>2

LEMMA PlacedMoves ==
    ASSUME IInv, NEW t \in Threads, pass[t].at \notin Outside,
           NEW o \in Ids, NEW sure \in BOOLEAN, Placed(t, o, sure)
    PROVE  Moved(t) /\ recent' = o
<1>0. pass[t].mode \in PlaceModes \cup {"none"} /\ o \in Nat
  BY DEF IInv, TypeOK, Pass, PlaceModes, Ids
<1>1. CASE pass[t].mode = "restore"
  <2>1. Finish(t, FALSE, "replace_failed", o, sure)
    BY <1>1 DEF Placed
  <2>2. "replace_failed" \in Actions
    BY DEF Actions
  <2>3. Moved(t)
    BY <1>0, <2>1, <2>2, FinishMoves
  <2> QED BY <2>3 DEF Placed
<1>2. CASE pass[t].mode # "restore"
  <2>1. Finish(t, TRUE, pass[t].mode, o, sure)
    BY <1>2 DEF Placed
  <2>2. pass[t].mode \in Actions
    BY <1>0, <1>2 DEF PlaceModes, Actions
  <2>3. Moved(t)
    BY <1>0, <2>1, <2>2, FinishMoves
  <2> QED BY <2>3 DEF Placed
<1> QED BY <1>1, <1>2

-----------------------------------------------------------------------------
(* Kotak's steps and the exit.                                             *)

LEMMA OrderUpdate ==
    ASSUME orders \in Seq(Order), NEW o \in Ids, NEW new \in Order,
           orders' = [orders EXCEPT ![o] = new]
    PROVE  orders' \in Seq(Order) /\ Len(orders') = Len(orders)
BY DEF Ids

LEMMA MappedOrders ==
    ASSUME orders \in Seq(Order), NEW new, new = [o \in Ids |-> new[o]],
           \A o \in Ids : new[o] \in Order, orders' = new
    PROVE  orders' \in Seq(Order) /\ Len(orders') = Len(orders)
BY DEF Ids

LEMMA BrokerKeepsIInv == ASSUME IInv, Broker \/ Exit PROVE IInv'
<1>0. RestOK /\ orders \in Seq(Order) /\ Len(orders) \in Nat
  BY IInvRestOK DEF RestOK
<1>1. ASSUME NEW o \in Ids, Admit(o) PROVE IInv'
  <2> DEFINE new == [orders[o] EXCEPT !.why = Verdict(o), !.status =
                       IF Verdict(o) = "none" THEN "resting" ELSE "rejected"]
  <2>1. Verdict(o) \in {"none", "session", "band", "short", "reserved"}
    BY DEF Verdict
  <2>2. orders[o] \in Order
    BY <1>0 DEF Ids
  <2>3. new \in Order
    BY <2>1, <2>2 DEF Order, Statuses
  <2>4. orders' = [orders EXCEPT ![o] = new]
    BY <1>0, <1>1, <2>2 DEF Admit, Order
  <2>5. orders' \in Seq(Order) /\ Len(orders') = Len(orders)
    BY <1>0, <2>3, <2>4, OrderUpdate
  <2>6. UNCHANGED <<lock, pass, recent, session, bandFloor, held, stop, exiting, faults>>
    BY <1>1 DEF Admit, process
  <2>7. RestOK'
    BY <1>0, <2>5, <2>6 DEF RestOK
  <2> QED BY <1>0, <2>5, <2>6, <2>7, OthersKeepIInv
<1>2. ASSUME NEW o \in Ids, Refuse(o) PROVE IInv'
  <2> DEFINE new == [orders[o] EXCEPT !.status = "rejected", !.why = "other"]
  <2>2. orders[o] \in Order
    BY <1>0 DEF Ids
  <2>3. new \in Order
    BY <2>2 DEF Order, Statuses
  <2>4. orders' = [orders EXCEPT ![o] = new]
    BY <1>0, <1>2, <2>2 DEF Refuse, Order
  <2>5. orders' \in Seq(Order) /\ Len(orders') = Len(orders)
    BY <1>0, <2>3, <2>4, OrderUpdate
  <2>6. UNCHANGED <<lock, pass, recent, session, bandFloor, held, stop, exiting>> /\ faults' = faults + 1
    BY <1>2 DEF Refuse, process, Fault
  <2>7. RestOK'
    BY <1>0, <2>5, <2>6 DEF RestOK
  <2> QED BY <1>0, <2>5, <2>6, <2>7, OthersKeepIInv
<1>3. ASSUME NEW o \in Ids, Show(o) PROVE IInv'
  <2> DEFINE new == [orders[o] EXCEPT !.shown = TRUE]
  <2>2. orders[o] \in Order
    BY <1>0 DEF Ids
  <2>3. new \in Order
    BY <2>2 DEF Order
  <2>4. orders' = [orders EXCEPT ![o] = new]
    BY <1>0, <1>3, <2>2 DEF Show, Order
  <2>5. orders' \in Seq(Order) /\ Len(orders') = Len(orders)
    BY <1>0, <2>3, <2>4, OrderUpdate
  <2>6. UNCHANGED <<lock, pass, recent, session, bandFloor, held, stop, exiting, faults>>
    BY <1>3 DEF Show, process
  <2>7. RestOK'
    BY <1>0, <2>5, <2>6 DEF RestOK
  <2> QED BY <1>0, <2>5, <2>6, <2>7, OthersKeepIInv
<1>4. ASSUME NEW o \in Ids, Fire(o) PROVE IInv'
  <2> DEFINE new == [orders[o] EXCEPT !.status = "filled"]
  <2>2. orders[o] \in Order
    BY <1>0 DEF Ids
  <2>3. new \in Order
    BY <2>2 DEF Order, Statuses
  <2>4. orders' = [orders EXCEPT ![o] = new]
    BY <1>0, <1>4, <2>2 DEF Fire, SetStatus, Order
  <2>5. orders' \in Seq(Order) /\ Len(orders') = Len(orders)
    BY <1>0, <2>3, <2>4, OrderUpdate
  <2>6. UNCHANGED <<lock, pass, recent, session, bandFloor, stop, exiting, faults>>
        /\ held' = held - orders[o].qty
    BY <1>4 DEF Fire, process
  <2>7. held' \in Int /\ held' <= MaxQty
    BY <1>0, <2>2, <2>6, NumbersAssumption DEF Order, RestOK
  <2>8. RestOK'
    BY <1>0, <2>5, <2>6, <2>7 DEF RestOK
  <2> QED BY <1>0, <2>5, <2>6, <2>8, OthersKeepIInv
<1>5. ASSUME Grow \/ RaiseStop \/ Opens PROVE IInv'
  <2>1. UNCHANGED <<lock, pass, recent, orders>>
    BY <1>5 DEF Grow, RaiseStop, Opens, broker, process
  <2>2. RestOK'
    BY <1>0, <1>5, <2>1, NumbersAssumption DEF Grow, RaiseStop, Opens, broker, process, RestOK, Triggers
  <2> QED BY <1>0, <2>1, <2>2, OthersKeepIInv
<1>6. ASSUME Closes \/ ExitSweep PROVE IInv'
  <2>0. \A o \in Ids, s \in Statuses : [orders[o] EXCEPT !.status = s] \in Order
    <3> SUFFICES ASSUME NEW o \in Ids, NEW s \in Statuses
                 PROVE  [orders[o] EXCEPT !.status = s] \in Order
      OBVIOUS
    <3>1. orders[o] \in Order
      BY <1>0 DEF Ids
    <3> QED BY <3>1 DEF Order
  <2>1. orders' \in Seq(Order) /\ Len(orders') = Len(orders)
    <3>1. CASE Closes
      <4> DEFINE new == [o \in Ids |-> IF orders[o].status = "resting"
                           THEN [orders[o] EXCEPT !.status = "expired"] ELSE orders[o]]
      <4>1. orders' = new /\ "expired" \in Statuses
        BY <3>1 DEF Closes, Statuses
      <4>2. \A o \in Ids : new[o] \in Order
        BY <1>0, <2>0, <4>1 DEF Ids
      <4> QED BY <1>0, <4>1, <4>2, MappedOrders
    <3>2. CASE ExitSweep
      <4> DEFINE new == [o \in Ids |-> IF orders[o].shown /\ orders[o].status \notin Terminal
                           THEN [orders[o] EXCEPT !.status = "swept"] ELSE orders[o]]
      <4>1. orders' = new /\ "swept" \in Statuses
        BY <3>2 DEF ExitSweep, Statuses
      <4>2. \A o \in Ids : new[o] \in Order
        BY <1>0, <2>0, <4>1 DEF Ids
      <4> QED BY <1>0, <4>1, <4>2, MappedOrders
    <3> QED BY <1>6, <3>1, <3>2
  <2>2. UNCHANGED <<lock, pass, recent, bandFloor, held, stop>>
    BY <1>6 DEF Closes, ExitSweep, process
  <2>3. session' \in {"pre", "open", "closing"}
    BY <1>0, <1>6 DEF Closes, ExitSweep, RestOK
  <2>4. exiting' \in BOOLEAN
    <3>1. exiting' = TRUE \/ exiting' = exiting
      BY <1>6 DEF Closes, ExitSweep
    <3> QED BY <1>0, <3>1 DEF RestOK
  <2>5. faults' \in Nat
    <3>1. faults' = faults + 1 \/ faults' = faults
      BY <1>6 DEF Closes, ExitSweep, Fault
    <3> QED BY <1>0, <3>1 DEF RestOK
  <2>6. RestOK'
    BY <1>0, <2>1, <2>2, <2>3, <2>4, <2>5 DEF RestOK
  <2> QED BY <1>0, <2>1, <2>2, <2>6, OthersKeepIInv
<1>7. ASSUME NextDay PROVE IInv'
  <2>1. /\ orders' = <<>> /\ recent' = 0 /\ session' = "pre" /\ bandFloor' \in BandLevels
        /\ UNCHANGED <<held, stop, exiting, faults, lock, pass>>
        /\ \A t \in Threads : pass[t].at = "idle"
    BY <1>7 DEF NextDay, NoOrder
  <2>2. TypeOK'
    BY <1>0, <2>1 DEF IInv, TypeOK, RestOK
  <2>3. OneScanAtATime'
    BY <2>1 DEF OneScanAtATime
  <2>4. OrdersKnown'
    BY <2>1 DEF OrdersKnown
  <2> QED BY <2>2, <2>3, <2>4 DEF IInv
<1>8. ASSUME ExitSell PROVE IInv'
  <2>1. UNCHANGED <<lock, pass, recent, orders, session, bandFloor, stop, faults>>
        /\ exiting' = FALSE /\ held' \in {0, held}
    BY <1>8 DEF ExitSell, process
  <2>2. held' \in Int /\ held' <= MaxQty
    BY <1>0, <2>1, NumbersAssumption DEF RestOK
  <2>3. exiting' \in BOOLEAN
    BY <2>1
  <2>4. RestOK'
    BY <1>0, <2>1, <2>2, <2>3 DEF RestOK
  <2> QED BY <1>0, <2>1, <2>4, OthersKeepIInv
<1> QED BY <1>1, <1>2, <1>3, <1>4, <1>5, <1>6, <1>7, <1>8 DEF Broker, Exit

-----------------------------------------------------------------------------
(* The steps of a pass.                                                    *)

LEMMA ScanKeepsIInv == ASSUME IInv, NEW t \in Threads, Scan(t) PROVE IInv'
<1>0. /\ RestOK /\ orders \in Seq(Order) /\ Len(orders) \in Nat
      /\ pass \in [Threads -> Pass] /\ pass[t] \in Pass /\ pass[t].want \in Triggers
  BY IInvRestOK DEF RestOK, IInv, TypeOK, Pass
<1>1. pass[t].at = "scan" /\ pass[t].at \notin Outside
  BY DEF Scan, ScanUnreadable, ScanAdopt, ScanClosing, ScanReplace, ScanFresh, Outside
<1>2. Counted \subseteq Ids /\ Ids \subseteq Nat
  BY DEF Counted, Live, Ids
<1>3. /\ UNCHANGED <<session, bandFloor, held, stop, orders, exiting, recent>>
      /\ faults' \in {faults, faults + 1}
  <2>1. CASE ScanUnreadable(t)
    BY <2>1 DEF ScanUnreadable, broker, Fault
  <2>2. CASE ScanAdopt(t) \/ ScanClosing(t) \/ ScanReplace(t) \/ ScanFresh(t)
    BY <2>2 DEF ScanAdopt, ScanClosing, ScanReplace, ScanFresh, broker
  <2> QED BY <2>1, <2>2 DEF Scan
<1>4. RestOK' /\ Len(orders) <= Len(orders')
  BY <1>0, <1>3 DEF RestOK
<1>5. ASSUME ScanUnreadable(t) PROVE Moved(t)
  <2>1. \/ Finish(t, FALSE, "skipped_unreadable_book", NoOrder, FALSE)
        \/ Finish(t, FALSE, "skipped_closing_session", NoOrder, FALSE)
        \/ StartPlacing(t, "placed_unchecked", pass[t].want)
    BY <1>5 DEF ScanUnreadable
  <2> QED BY <1>0, <1>1, <2>1, FinishMoves, StartPlacingMoves DEF Actions, PlaceModes, NoOrder
<1>6. ASSUME ScanAdopt(t) PROVE Moved(t)
  <2>1. PICK o \in Best(Counted) : Finish(t, TRUE, "adopted_existing", o, FALSE)
    BY <1>6 DEF ScanAdopt
  <2>2. o \in Nat
    BY <1>2, <2>1 DEF Best
  <2> QED BY <1>1, <2>1, <2>2, FinishMoves DEF Actions
<1>7. ASSUME ScanClosing(t) PROVE Moved(t)
  <2>1. PICK o \in IF Counted = {} THEN {NoOrder} ELSE Best(Counted) :
               Finish(t, FALSE, "skipped_closing_session", o, FALSE)
    BY <1>7 DEF ScanClosing
  <2>2. o \in Nat
    <3>1. CASE Counted = {}
      BY <2>1, <3>1 DEF NoOrder
    <3>2. CASE Counted # {}
      BY <1>2, <2>1, <3>2 DEF Best
    <3> QED BY <3>1, <3>2
  <2> QED BY <1>1, <2>1, <2>2, FinishMoves DEF Actions
<1>8. ASSUME ScanReplace(t) PROVE Moved(t)
  <2>1. PICK desired \in Desired(t), o \in Best(Counted) :
          pass' = [pass EXCEPT ![t] = Replacing(t, desired, o)]
    BY <1>8 DEF ScanReplace
  <2> DEFINE new == Replacing(t, desired, o)
  <2>2. orders[o] \in Order /\ Counted \in SUBSET Nat /\ desired \in Triggers
    BY <1>0, <1>2, <2>1, DesiredType DEF Best, Ids
  <2>3. new \in Pass /\ new.at = "cancel" /\ new.todo = Counted
    BY <1>0, <2>2 DEF Pass, Order, Replacing
  <2>4. pass' = [pass EXCEPT ![t] = new] /\ lock' = lock
    BY <1>8, <2>1 DEF ScanReplace
  <2>5. pass' \in [Threads -> Pass] /\ pass'[t] = new /\ \A u \in Threads \ {t} : pass'[u] = pass[u]
    BY <1>0, <2>3, <2>4
  <2>6. Ids' = Ids
    BY <1>3 DEF Ids
  <2> QED BY <1>1, <1>2, <2>3, <2>4, <2>5, <2>6 DEF Moved, LockStep
<1>9. ASSUME ScanFresh(t) PROVE Moved(t)
  <2>1. PICK desired \in Desired(t) : StartPlacing(t, "placed", desired)
    BY <1>9 DEF ScanFresh
  <2>2. desired \in Triggers
    BY <1>0, <2>1, DesiredType
  <2> QED BY <1>1, <2>1, <2>2, StartPlacingMoves DEF PlaceModes
<1>10. Moved(t)
  BY <1>5, <1>6, <1>7, <1>8, <1>9 DEF Scan
<1> QED BY <1>4, <1>10, MovedKeepsIInv

LEMMA CancelKeepsIInv ==
    ASSUME IInv, NEW t \in Threads, CancelOne(t) \/ CancelsDone(t) PROVE IInv'
<1>0. /\ RestOK /\ orders \in Seq(Order) /\ Len(orders) \in Nat
      /\ pass \in [Threads -> Pass] /\ pass[t] \in Pass /\ pass[t].want \in Triggers
  BY IInvRestOK DEF RestOK, IInv, TypeOK, Pass
<1>1. pass[t].at = "cancel" /\ pass[t].at \notin Outside /\ pass[t].todo \subseteq Ids
  BY DEF CancelOne, CancelsDone, Outside, IInv, OrdersKnown
<1>2. ASSUME CancelOne(t) PROVE IInv'
  <2>1. PICK o \in pass[t].todo :
          /\ pass' = [pass EXCEPT ![t].todo = @ \ {o}]
          /\ \/ /\ orders' = IF orders[o].status \in Terminal THEN orders
                             ELSE [orders EXCEPT ![o].status = "cancelled"]
                /\ UNCHANGED faults
             \/ Fault("cancel_fails") /\ UNCHANGED orders
    BY <1>2 DEF CancelOne
  <2> DEFINE new == [pass[t] EXCEPT !.todo = @ \ {o}]
  <2>2. new \in Pass /\ new.at = "cancel" /\ new.todo \subseteq Ids
    BY <1>0, <1>1 DEF Pass
  <2>3. pass' = [pass EXCEPT ![t] = new] /\ UNCHANGED <<lock, session, bandFloor, held, stop, exiting, recent>>
    BY <1>0, <1>2, <2>1 DEF CancelOne
  <2>4. pass' \in [Threads -> Pass] /\ pass'[t] = new /\ \A u \in Threads \ {t} : pass'[u] = pass[u]
    BY <1>0, <2>2, <2>3
  <2>5. orders' \in Seq(Order) /\ Len(orders') = Len(orders)
    <3> DEFINE gone == [orders[o] EXCEPT !.status = "cancelled"]
    <3>1. o \in Ids /\ orders[o] \in Order
      BY <1>0, <1>1 DEF Ids
    <3>2. gone \in Order
      BY <3>1 DEF Order, Statuses
    <3>3. orders' = orders \/ orders' = [orders EXCEPT ![o].status = "cancelled"]
      BY <2>1
    <3>4. CASE orders' = orders
      BY <1>0, <3>4
    <3>5. CASE orders' = [orders EXCEPT ![o].status = "cancelled"]
      <4>1. orders' = [orders EXCEPT ![o] = gone]
        BY <1>0, <3>1, <3>5 DEF Order
      <4> QED BY <1>0, <3>1, <3>2, <4>1, OrderUpdate
    <3> QED BY <3>3, <3>4, <3>5
  <2>6. faults' \in Nat
    <3>1. faults' \in {faults, faults + 1}
      BY <2>1 DEF Fault
    <3> QED BY <1>0, <3>1 DEF RestOK
  <2>7. RestOK' /\ Len(orders) <= Len(orders')
    BY <1>0, <2>3, <2>5, <2>6 DEF RestOK
  <2>8. Ids' = Ids
    BY <2>5 DEF Ids
  <2>9. Moved(t)
    BY <1>1, <2>2, <2>3, <2>4, <2>8 DEF Moved, LockStep
  <2> QED BY <2>7, <2>9, MovedKeepsIInv
<1>3. ASSUME CancelsDone(t) PROVE IInv'
  <2>1. StartPlacing(t, "replaced", pass[t].want) /\ UNCHANGED <<broker, stop, faults, recent>>
    BY <1>3 DEF CancelsDone
  <2>3. Moved(t)
    BY <1>0, <1>1, <2>1, StartPlacingMoves DEF PlaceModes
  <2>4. RestOK' /\ Len(orders) <= Len(orders')
    BY <1>0, <2>1 DEF RestOK, broker
  <2> QED BY <2>3, <2>4, MovedKeepsIInv
<1> QED BY <1>2, <1>3

LEMMA SendKeepsIInv ==
    ASSUME IInv, NEW t \in Threads, Send(t) \/ SendLostAck(t) PROVE IInv'
<1>0. /\ RestOK /\ orders \in Seq(Order) /\ Len(orders) \in Nat
      /\ pass \in [Threads -> Pass] /\ pass[t] \in Pass
  BY IInvRestOK DEF RestOK, IInv, TypeOK
<1>1. pass[t].at = "send" /\ pass[t].at \notin Outside
  BY DEF Send, SendLostAck, Outside
<1>2. NewOrder(t) \in Order
  BY <1>0 DEF NewOrder, Order, Pass, Statuses
<1>3. UNCHANGED <<lock, session, bandFloor, held, stop, exiting, recent>>
  BY DEF Send, SendLostAck
<1>4. faults' \in Nat
  <2>1. faults' \in {faults, faults + 1}
    BY DEF Send, SendLostAck, Fault
  <2> QED BY <1>0, <2>1 DEF RestOK
<1>5. orders' \in {orders, Append(orders, NewOrder(t))}
  BY DEF Send, SendLostAck
<1>6. orders' \in Seq(Order) /\ Len(orders) <= Len(orders')
  BY <1>0, <1>2, <1>5
<1>7. RestOK'
  BY <1>0, <1>3, <1>4, <1>6 DEF RestOK
<1>8. CASE Send(t)
  <2>0. PICK n \in Nat : n = Len(orders) + 1
    BY <1>0
  <2> DEFINE new == [pass[t] EXCEPT !.at = "confirm", !.order = n]
  <2>1. new \in Pass /\ new.at = "confirm" /\ new.order = n
    BY <1>0 DEF Pass
  <2>2. pass' = [pass EXCEPT ![t] = new]
    BY <1>0, <1>8, <2>0 DEF Send
  <2>3. pass' \in [Threads -> Pass] /\ pass'[t] = new /\ \A u \in Threads \ {t} : pass'[u] = pass[u]
    BY <1>0, <2>1, <2>2
  <2>4. Len(orders') = Len(orders) + 1
    BY <1>0, <1>2, <1>8 DEF Send
  <2>5. new.order \in Ids'
    BY <1>0, <2>0, <2>1, <2>4 DEF Ids
  <2>6. Moved(t)
    BY <1>1, <1>3, <2>1, <2>3, <2>5 DEF Moved, LockStep
  <2> QED BY <1>6, <1>7, <2>6, MovedKeepsIInv
<1>9. CASE SendLostAck(t)
  <2> DEFINE new == [pass[t] EXCEPT !.at = "reread"]
  <2>1. new \in Pass /\ new.at = "reread"
    BY <1>0 DEF Pass
  <2>2. pass' = [pass EXCEPT ![t] = new]
    BY <1>0, <1>9 DEF SendLostAck
  <2>3. pass' \in [Threads -> Pass] /\ pass'[t] = new /\ \A u \in Threads \ {t} : pass'[u] = pass[u]
    BY <1>0, <2>1, <2>2
  <2>4. Moved(t)
    BY <1>1, <1>3, <2>1, <2>3 DEF Moved, LockStep
  <2> QED BY <1>6, <1>7, <2>4, MovedKeepsIInv
<1> QED BY <1>8, <1>9

LEMMA PlacedKeepsIInv ==
    ASSUME IInv, NEW t \in Threads,
           RereadAdopts(t) \/ ConfirmResting(t) \/ ConfirmUnknown(t)
    PROVE  IInv'
<1>0. RestOK /\ orders \in Seq(Order) /\ Len(orders) \in Nat
  BY IInvRestOK DEF RestOK
<1>1. pass[t].at \in {"reread", "confirm"} /\ pass[t].at \notin Outside
  BY DEF RereadAdopts, ConfirmResting, ConfirmUnknown, Outside
<1>2. \E o \in Ids, sure \in BOOLEAN : Placed(t, o, sure)
  <2>1. CASE RereadAdopts(t)
    BY <2>1 DEF RereadAdopts, Adoptable, Live
  <2>2. CASE ConfirmResting(t) \/ ConfirmUnknown(t)
    <3>1. pass[t].order \in Ids
      BY <2>2 DEF ConfirmResting, ConfirmUnknown, IInv, OrdersKnown
    <3>2. Placed(t, pass[t].order, TRUE) \/ Placed(t, pass[t].order, FALSE)
      BY <2>2 DEF ConfirmResting, ConfirmUnknown
    <3> QED BY <3>1, <3>2
  <2> QED BY <2>1, <2>2
<1>3. Moved(t) /\ recent' \in Ids
  BY <1>1, <1>2, PlacedMoves
<1>4. UNCHANGED <<broker, stop>>
  BY DEF RereadAdopts, ConfirmResting, ConfirmUnknown
<1>5. faults' \in Nat
  <2>1. faults' \in {faults, faults + 1}
    BY DEF RereadAdopts, ConfirmResting, ConfirmUnknown, Fault
  <2> QED BY <1>0, <2>1 DEF RestOK
<1>6. RestOK' /\ Len(orders) <= Len(orders')
  BY <1>0, <1>3, <1>4, <1>5 DEF RestOK, broker, Ids
<1> QED BY <1>3, <1>6, MovedKeepsIInv

LEMMA RefusedKeepsIInv ==
    ASSUME IInv, NEW t \in Threads, RereadFindsNothing(t) \/ ConfirmRejected(t)
    PROVE  IInv'
<1>0. /\ RestOK /\ orders \in Seq(Order) /\ Len(orders) \in Nat
      /\ pass \in [Threads -> Pass] /\ pass[t] \in Pass
  BY IInvRestOK DEF RestOK, IInv, TypeOK
<1>1. pass[t].at \in {"reread", "confirm"} /\ pass[t].at \notin Outside
  BY DEF RereadFindsNothing, ConfirmRejected, Outside
<1>2. UNCHANGED <<broker, stop, faults, recent>>
  BY DEF RereadFindsNothing, ConfirmRejected
<1>3. RestOK' /\ Len(orders) <= Len(orders')
  BY <1>0, <1>2 DEF RestOK, broker
<1>4. CASE PlaceFailed(t)
  BY <1>1, <1>3, <1>4, PlaceFailedMoves, MovedKeepsIInv
<1>5. CASE ~PlaceFailed(t)
  <2>1. PICK market \in Markets : \E b \in NextBands(t, market) :
          pass' = [pass EXCEPT ![t] = Retrying(t, b)]
    BY <1>5 DEF RereadFindsNothing, ConfirmRejected
  <2>8. PICK b \in NextBands(t, market) :
          pass' = [pass EXCEPT ![t] = Retrying(t, b)]
    BY <2>1
  <2>2. lock' = lock
    BY <1>5 DEF RereadFindsNothing, ConfirmRejected
  <2> DEFINE new == Retrying(t, b)
  <2>3. b \in Triggers
    BY <2>8, NumbersAssumption DEF NextBands, Triggers
  <2>4. new \in Pass /\ new.at = "send"
    BY <1>0, <2>3 DEF Pass, NoOrder, Retrying
  <2>5. pass' = [pass EXCEPT ![t] = new]
    BY <1>0, <2>8
  <2>6. pass' \in [Threads -> Pass] /\ pass'[t] = new /\ \A u \in Threads \ {t} : pass'[u] = pass[u]
    BY <1>0, <2>4, <2>5
  <2>7. Moved(t)
    BY <1>1, <2>2, <2>4, <2>6 DEF Moved, LockStep
  <2> QED BY <1>3, <2>7, MovedKeepsIInv
<1> QED BY <1>4, <1>5

LEMMA CallKeepsIInv ==
    ASSUME IInv, NEW t \in Threads, NEW want \in Triggers, Call(t, want)
    PROVE  IInv'
<1>0. /\ RestOK /\ held \in 1..MaxQty
      /\ pass \in [Threads -> Pass] /\ pass[t].at = "idle"
  BY IInvRestOK, NumbersAssumption DEF RestOK, IInv, TypeOK, Call
<1>1. PICK blindOk \in BOOLEAN :
         pass' = [pass EXCEPT ![t] = [Idle EXCEPT !.at = "lock", !.want = want,
                                                  !.qty = held, !.blindOk = blindOk]]
  BY DEF Call
<1> DEFINE new == [Idle EXCEPT !.at = "lock", !.want = want, !.qty = held, !.blindOk = blindOk]
<1>2. new \in Pass /\ new.at = "lock"
  BY <1>0, IdlePass DEF Idle, Pass
<1>3. pass' \in [Threads -> Pass] /\ pass'[t] = new /\ \A u \in Threads \ {t} : pass'[u] = pass[u]
  BY <1>0, <1>1, <1>2
<1>4. UNCHANGED <<broker, stop, faults, lock, recent>>
  BY DEF Call
<1>5. Moved(t)
  BY <1>2, <1>3, <1>4 DEF Moved, LockStep, Outside
<1>6. RestOK' /\ Len(orders) <= Len(orders')
  BY <1>0, <1>4 DEF RestOK, broker
<1> QED BY <1>5, <1>6, MovedKeepsIInv

LEMMA AcquireKeepsIInv == ASSUME IInv, NEW t \in Threads, Acquire(t) PROVE IInv'
<1>0. RestOK /\ pass \in [Threads -> Pass] /\ pass[t] \in Pass
  BY IInvRestOK DEF IInv, TypeOK
<1> DEFINE new == [pass[t] EXCEPT !.at = "scan"]
<1>1. new \in Pass /\ new.at = "scan"
  BY <1>0 DEF Pass
<1>2. pass' = [pass EXCEPT ![t] = new] /\ lock = NoThread /\ lock' = t
  BY <1>0 DEF Acquire
<1>3. pass' \in [Threads -> Pass] /\ pass'[t] = new /\ \A u \in Threads \ {t} : pass'[u] = pass[u]
  BY <1>0, <1>1, <1>2
<1>4. Moved(t)
  BY <1>1, <1>2, <1>3 DEF Moved, LockStep
<1>5. RestOK' /\ Len(orders) <= Len(orders')
  BY <1>0 DEF Acquire, RestOK, broker
<1> QED BY <1>4, <1>5, MovedKeepsIInv

LEMMA ProcessKeepsIInv == ASSUME IInv, RecentExpires \/ Restart PROVE IInv'
<1>0. RestOK /\ Len(orders) \in Nat
  BY IInvRestOK DEF RestOK
<1>1. faults' \in Nat
  <2>1. faults' \in {faults, faults + 1}
    BY DEF RecentExpires, Restart, Fault
  <2> QED BY <1>0, <2>1 DEF RestOK
<1>2. UNCHANGED <<session, bandFloor, held, stop, orders>> /\ recent' = 0
  BY DEF RecentExpires, Restart, broker, NoOrder
<1>3. exiting' \in BOOLEAN
  <2>1. exiting' \in {exiting, FALSE}
    BY DEF RecentExpires, Restart, broker
  <2> QED BY <1>0, <2>1 DEF RestOK
<1>4. RestOK' /\ Len(orders) <= Len(orders')
  BY <1>0, <1>1, <1>2, <1>3 DEF RestOK
<1>5. CASE RecentExpires
  BY <1>4, <1>5, OthersKeepIInv DEF RecentExpires
<1>6. CASE Restart
  <2>1. lock' = NoThread /\ pass' = [t \in Threads |-> Idle]
    BY <1>6 DEF Restart
  <2>2. TypeOK'
    BY <1>2, <1>4, <2>1, IdlePass DEF RestOK, TypeOK
  <2>3. OneScanAtATime' /\ OrdersKnown'
    BY <1>4, <2>1 DEF OneScanAtATime, OrdersKnown, Idle, RestOK
  <2> QED BY <2>2, <2>3 DEF IInv
<1> QED BY <1>5, <1>6

-----------------------------------------------------------------------------
LEMMA NextKeepsIInv == IInv /\ [Next]_vars => IInv'
<1> SUFFICES ASSUME IInv, [Next]_vars PROVE IInv'
  OBVIOUS
<1>1. CASE Broker \/ Exit
  BY <1>1, BrokerKeepsIInv
<1>2. CASE RecentExpires \/ Restart
  BY <1>2, ProcessKeepsIInv
<1>3. ASSUME NEW t \in Threads, Call(t, EntryStop) \/ Call(t, stop) PROVE IInv'
  BY <1>3, CallKeepsIInv, TriggersFacts DEF IInv, TypeOK
<1>4. ASSUME NEW t \in Threads, Step(t) PROVE IInv'
  BY <1>4, AcquireKeepsIInv, ScanKeepsIInv, CancelKeepsIInv, SendKeepsIInv, PlacedKeepsIInv,
     RefusedKeepsIInv DEF Step, Place
<1>5. CASE UNCHANGED vars
  BY <1>5 DEF vars, IInv, TypeOK, OneScanAtATime, OrdersKnown, Ids
<1> QED BY <1>1, <1>2, <1>3, <1>4, <1>5 DEF Next

LEMMA SpecIInv == Spec => []IInv
BY InitIInv, NextKeepsIInv, PTL DEF Spec

\* The state of the holding, Kotak's order book and every pass keep their types in every
\* behaviour of ensure_resting_sl, so every order number a pass acts on is a number.
THEOREM TypeCorrect == Spec => []TypeOK
BY SpecIInv, PTL DEF IInv

\* _sl_symbol_lock: in every behaviour, with any number of callers, at most one pass is
\* between its scan of the order book and the end of its placement.
THEOREM LockExcludes == Spec => []OneScanAtATime
BY SpecIInv, PTL DEF IInv

-----------------------------------------------------------------------------
(* No stop is sent for shares another live stop reserves.                  *)
(* While Kotak answers every call, cancels what it is asked to cancel and  *)
(* lists an order within the 20 s window, and the process lives, at most   *)
(* one stop is live, and the pass that scans sees it.                      *)

\* The faults that remain: exits race the passes and Kotak refuses orders.
KotakAnswers == Faults \subseteq {"exit", "refused"}

\* A pass waits for the verdict on o.
Unconfirmed(o) == \E t \in Threads : pass[t].at = "confirm" /\ pass[t].order = o

OneLive == \A o, p \in Live : o = p

\* The scan of the next pass counts every live stop.
Accounted == \A o \in Live : orders[o].shown \/ o = recent \/ Unconfirmed(o)

\* A pass that cancels has every live stop on its list, and sends when none is left.
Cleared ==
    \A t \in Threads :
       /\ pass[t].at = "cancel" => Live \subseteq pass[t].todo
       /\ pass[t].at = "send" => Live = {}
       /\ pass[t].at = "confirm" => Live \subseteq {pass[t].order}
       /\ pass[t].at # "reread"

BookInv == OneLive /\ Accounted /\ Cleared /\ NoDoubleReservation

LEMMA NoSum == QtyOf({}) = 0
<1> DEFINE g == [s \in SUBSET {} |-> 0]
    P(f) == f = [s \in SUBSET {} |->
                   IF s = {} THEN 0
                   ELSE orders[CHOOSE x \in s : TRUE].qty + f[s \ {CHOOSE x \in s : TRUE}]]
<1>1. \A s \in SUBSET {} : s = {}
  OBVIOUS
<1>2. P(g)
  BY <1>1
<1>3. P(CHOOSE f : P(f))
  BY <1>2
<1>4. QtyOf({}) = (CHOOSE f : P(f))[{}]
  BY DEF QtyOf, MapThenSumSet, MapThenFoldSet
<1> QED BY <1>3, <1>4

LEMMA InitBookInv == Init => BookInv
BY DEF Init, BookInv, OneLive, Accounted, Cleared, NoDoubleReservation, Live, Ids, Idle

\* The passes rest, stops only stop being live or appear in the book.
LEMMA BrokerKeepsBook ==
    ASSUME BookInv, UNCHANGED <<pass, recent>>, Live' \subseteq Live,
           \A o \in Live' : orders[o].shown => orders'[o].shown,
           NoDoubleReservation'
    PROVE  BookInv'
<1>1. OneLive'
  BY DEF BookInv, OneLive
<1>2. Accounted'
  <2> SUFFICES ASSUME NEW o \in Live'
               PROVE  orders'[o].shown \/ o = recent' \/ Unconfirmed(o)'
    BY DEF Accounted
  <2>1. orders[o].shown \/ o = recent \/ Unconfirmed(o)
    BY DEF BookInv, Accounted
  <2> QED BY <2>1 DEF Unconfirmed
<1>3. Cleared'
  BY DEF BookInv, Cleared
<1> QED BY <1>1, <1>2, <1>3 DEF BookInv

\* One pass inside the lock moves.
LEMMA PassKeepsBook ==
    ASSUME IInv, NEW t \in Threads, pass[t].at \notin Outside,
           \A u \in Threads \ {t} : pass'[u] = pass[u],
           OneLive', NoDoubleReservation',
           \A o \in Live' : \/ orders'[o].shown \/ o = recent'
                            \/ pass'[t].at = "confirm" /\ pass'[t].order = o,
           pass'[t].at = "cancel" => Live' \subseteq pass'[t].todo,
           pass'[t].at = "send" => Live' = {},
           pass'[t].at = "confirm" => Live' \subseteq {pass'[t].order},
           pass'[t].at # "reread"
    PROVE  BookInv'
<1>1. \A u \in Threads \ {t} : pass'[u].at \in Outside
  BY DEF IInv, OneScanAtATime, Outside
<1>2. Accounted'
  BY DEF Accounted, Unconfirmed
<1>3. Cleared'
  BY <1>1 DEF Cleared, Outside
<1> QED BY <1>2, <1>3 DEF BookInv

\* A pass outside the lock starts to wait or takes the lock.
LEMMA EntryKeepsBook ==
    ASSUME BookInv, NEW t \in Threads, pass[t].at \in Outside,
           \A u \in Threads \ {t} : pass'[u] = pass[u],
           pass'[t].at \in {"lock", "scan"}, UNCHANGED <<orders, recent>>
    PROVE  BookInv'
<1>1. Live' = Live /\ Ids' = Ids
  BY DEF Live, Ids
<1>2. Accounted'
  <2> SUFFICES ASSUME NEW o \in Live
               PROVE  orders[o].shown \/ o = recent \/ Unconfirmed(o)'
    BY <1>1 DEF Accounted
  <2>1. orders[o].shown \/ o = recent \/ Unconfirmed(o)
    BY DEF BookInv, Accounted
  <2>2. Unconfirmed(o) => Unconfirmed(o)'
    BY DEF Unconfirmed, Outside
  <2> QED BY <2>1, <2>2
<1>3. Cleared'
  BY <1>1 DEF BookInv, Cleared
<1>4. OneLive' /\ NoDoubleReservation'
  BY <1>1 DEF BookInv, OneLive, NoDoubleReservation
<1> QED BY <1>2, <1>3, <1>4 DEF BookInv

\* With no fault of the book, a scan counts every live stop.
LEMMA ScanSeesAll ==
    ASSUME IInv, BookInv, NEW t \in Threads, pass[t].at = "scan"
    PROVE  Live \subseteq Counted
<1>1. \A u \in Threads : pass[u].at # "confirm"
  BY DEF IInv, OneScanAtATime
<1>2. \A o \in Live : o \in Ids /\ (orders[o].shown \/ o = recent)
  BY <1>1 DEF BookInv, Accounted, Unconfirmed, Live
<1> QED BY <1>2 DEF Counted

LEMMA FinishEnds ==
    ASSUME IInv, NEW t \in Threads, NEW ok, NEW action, NEW o, NEW sure,
           Finish(t, ok, action, o, sure)
    PROVE  pass'[t].at = "idle" /\ \A u \in Threads \ {t} : pass'[u] = pass[u]
BY DEF Finish, Idle, IInv, TypeOK

LEMMA StartPlacingGoes ==
    ASSUME IInv, NEW t \in Threads, NEW mode, NEW p, StartPlacing(t, mode, p)
    PROVE  pass'[t].at \in {"idle", "send"} /\ \A u \in Threads \ {t} : pass'[u] = pass[u]
<1>1. CASE session = "pre"
  <2>1. PICK a : Finish(t, FALSE, a, NoOrder, FALSE)
    BY <1>1 DEF StartPlacing
  <2> QED BY <2>1, FinishEnds
<1>2. CASE session # "pre"
  <2>1. PICK market \in Markets : pass' = [pass EXCEPT ![t] = Sending(t, mode, p, market)]
    BY <1>2 DEF StartPlacing
  <2>2. pass \in [Threads -> Pass] /\ pass[t] \in Pass
    BY DEF IInv, TypeOK
  <2>3. Sending(t, mode, p, market).at = "send"
    BY <2>2 DEF Sending, Pass
  <2> QED BY <2>1, <2>2, <2>3
<1> QED BY <1>1, <1>2

LEMMA PlaceFailedGoes ==
    ASSUME IInv, NEW t \in Threads, PlaceFailed(t)
    PROVE  pass'[t].at \in {"idle", "send"} /\ \A u \in Threads \ {t} : pass'[u] = pass[u]
<1>1. \/ StartPlacing(t, "restore", pass[t].best)
      \/ \E a : Finish(t, FALSE, a, NoOrder, FALSE)
  BY DEF PlaceFailed
<1> QED BY <1>1, StartPlacingGoes, FinishEnds

LEMMA PlacedEnds ==
    ASSUME IInv, NEW t \in Threads, NEW o, NEW sure, Placed(t, o, sure)
    PROVE  /\ pass'[t].at = "idle" /\ recent' = o
           /\ \A u \in Threads \ {t} : pass'[u] = pass[u]
<1>1. (\E ok, a : Finish(t, ok, a, o, sure)) /\ recent' = o
  BY DEF Placed
<1> QED BY <1>1, FinishEnds

LEMMA BrokerBook ==
    ASSUME KotakAnswers, IInv, BookInv, Broker \/ Exit, IInv'
    PROVE  BookInv'
<1>0. /\ orders \in Seq(Order) /\ Len(orders) \in Nat /\ held \in Int
      /\ \A o \in Ids : orders[o] \in Order
  BY DEF IInv, TypeOK, Ids
<1>t. "resting" \notin Terminal /\ "sent" \notin Terminal
      /\ {"rejected", "filled", "expired", "swept"} \subseteq Terminal
  BY DEF Terminal, Statuses
<1>1. ASSUME NEW o \in Ids, Admit(o) PROVE BookInv'
  <2>1. Verdict(o) # "reserved"
    <3>1. With("resting") \subseteq Live /\ o \in Live /\ o \notin With("resting")
      BY <1>1, <1>t DEF With, Live, Admit
    <3>2. With("resting") = {}
      BY <3>1 DEF BookInv, OneLive
    <3>3. Reserved = 0
      BY <3>2, NoSum DEF Reserved
    <3>4. orders[o].qty \in Int
      BY <1>0 DEF Order
    <3> QED BY <1>0, <3>3, <3>4 DEF Verdict
  <2>2. /\ UNCHANGED <<pass, recent>> /\ Len(orders') = Len(orders)
        /\ orders'[o].status \in {"resting", "rejected"} /\ orders'[o].why = Verdict(o)
        /\ orders'[o].shown = orders[o].shown /\ orders[o].status = "sent"
        /\ \A p \in Ids \ {o} : orders'[p] = orders[p]
    BY <1>0, <1>1 DEF Admit, process, Ids, Order
  <2>3. Ids' = Ids
    BY <2>2 DEF Ids
  <2>4. Live' \subseteq Live /\ \A p \in Live' : orders[p].shown => orders'[p].shown
    BY <1>t, <2>2, <2>3 DEF Live
  <2>5. NoDoubleReservation'
    BY <2>1, <2>2, <2>3 DEF BookInv, NoDoubleReservation
  <2> QED BY <2>2, <2>4, <2>5, BrokerKeepsBook
<1>2. ASSUME NEW o \in Ids, Refuse(o) \/ Show(o) \/ Fire(o) PROVE BookInv'
  <2>1. /\ UNCHANGED <<pass, recent>> /\ Len(orders') = Len(orders)
        /\ orders'[o].status \in {"rejected", "filled", orders[o].status}
        /\ orders'[o].why \in {"other", orders[o].why}
        /\ orders[o].shown => orders'[o].shown
        /\ \A p \in Ids \ {o} : orders'[p] = orders[p]
    <3>1. CASE Refuse(o)
      BY <1>0, <3>1 DEF Refuse, process, Ids, Order
    <3>2. CASE Show(o)
      BY <1>0, <3>2 DEF Show, process, Ids, Order
    <3>3. CASE Fire(o)
      BY <1>0, <3>3 DEF Fire, SetStatus, process, Ids, Order
    <3> QED BY <1>2, <3>1, <3>2, <3>3
  <2>3. Ids' = Ids
    BY <2>1 DEF Ids
  <2>4. Live' \subseteq Live /\ \A p \in Live' : orders[p].shown => orders'[p].shown
    BY <1>t, <2>1, <2>3 DEF Live
  <2>5. NoDoubleReservation'
    BY <2>1, <2>3 DEF BookInv, NoDoubleReservation
  <2> QED BY <2>1, <2>4, <2>5, BrokerKeepsBook
<1>3. ASSUME Grow \/ RaiseStop \/ Opens \/ ExitSell PROVE BookInv'
  <2>1. UNCHANGED <<pass, recent, orders>>
    BY <1>3 DEF Grow, RaiseStop, Opens, ExitSell, broker, process
  <2>2. Live' = Live /\ NoDoubleReservation'
    BY <2>1 DEF Live, Ids, NoDoubleReservation, BookInv
  <2> QED BY <2>1, <2>2, BrokerKeepsBook
<1>4. ASSUME Closes \/ ExitSweep PROVE BookInv'
  <2>1. /\ UNCHANGED <<pass, recent>>
        /\ \E s \in {"expired", "swept"} : \E O \in SUBSET Ids :
             orders' = [o \in Ids |-> IF o \in O THEN [orders[o] EXCEPT !.status = s] ELSE orders[o]]
    <3>1. CASE Closes
      <4> DEFINE O == {o \in Ids : orders[o].status = "resting"}
      <4>1. orders' = [o \in Ids |-> IF o \in O THEN [orders[o] EXCEPT !.status = "expired"]
                                              ELSE orders[o]]
        BY <3>1 DEF Closes
      <4> QED BY <3>1, <4>1 DEF Closes, process
    <3>2. CASE ExitSweep
      <4> DEFINE O == {o \in Ids : orders[o].shown /\ orders[o].status \notin Terminal}
      <4>1. orders' = [o \in Ids |-> IF o \in O THEN [orders[o] EXCEPT !.status = "swept"]
                                              ELSE orders[o]]
        BY <3>2 DEF ExitSweep
      <4> QED BY <3>2, <4>1 DEF ExitSweep, process
    <3> QED BY <1>4, <3>1, <3>2
  <2>2. PICK s \in {"expired", "swept"}, O \in SUBSET Ids :
          orders' = [o \in Ids |-> IF o \in O THEN [orders[o] EXCEPT !.status = s] ELSE orders[o]]
    BY <2>1
  <2>3. orders' \in Seq(Order) /\ Ids' = Ids
    <3>1. orders' \in Seq(Order)
      BY DEF IInv, TypeOK
    <3>2. DOMAIN orders' = Ids /\ DOMAIN orders' = 1..Len(orders') /\ Len(orders') \in Nat
      BY <2>2, <3>1
    <3> QED BY <3>1, <3>2 DEF Ids
  <2>4. \A o \in Ids : /\ orders'[o].why = orders[o].why /\ orders'[o].shown = orders[o].shown
                       /\ orders'[o].status \in {s, orders[o].status}
    BY <1>0, <2>2 DEF Order
  <2>5. Live' \subseteq Live
    BY <1>t, <2>2, <2>3, <2>4 DEF Live
  <2>6. NoDoubleReservation' /\ \A o \in Live' : orders[o].shown => orders'[o].shown
    BY <2>3, <2>4, <2>5 DEF BookInv, NoDoubleReservation, Live
  <2> QED BY <2>1, <2>5, <2>6, BrokerKeepsBook
<1>5. ASSUME NextDay PROVE BookInv'
  <2>1. orders' = <<>> /\ pass' = pass /\ \A t \in Threads : pass[t].at = "idle"
    BY <1>5 DEF NextDay
  <2>2. Live' = {} /\ Ids' = {}
    BY <2>1 DEF Live, Ids
  <2> QED BY <2>1, <2>2 DEF BookInv, OneLive, Accounted, Cleared, NoDoubleReservation
<1> QED BY <1>1, <1>2, <1>3, <1>4, <1>5 DEF Broker, Exit

LEMMA ScanBook ==
    ASSUME KotakAnswers, IInv, BookInv, NEW t \in Threads, Scan(t)
    PROVE  BookInv'
<1>1. pass[t].at = "scan" /\ pass[t].at \notin Outside /\ ~ScanUnreadable(t)
  BY DEF Scan, ScanUnreadable, ScanAdopt, ScanClosing, ScanReplace, ScanFresh, Outside, Fault,
     KotakAnswers
<1>2. UNCHANGED <<orders, recent>>
  BY <1>1 DEF Scan, ScanAdopt, ScanClosing, ScanReplace, ScanFresh, broker
<1>3. Live' = Live /\ Ids' = Ids /\ OneLive' /\ NoDoubleReservation'
  BY <1>2 DEF Live, Ids, BookInv, OneLive, NoDoubleReservation
<1>4. Live \subseteq Counted /\ \A o \in Live : orders[o].shown \/ o = recent
  <2>1. \A u \in Threads : pass[u].at # "confirm"
    BY <1>1 DEF IInv, OneScanAtATime
  <2> QED BY <1>1, <2>1, ScanSeesAll DEF BookInv, Accounted, Unconfirmed
<1>5. /\ \A u \in Threads \ {t} : pass'[u] = pass[u]
      /\ \/ pass'[t].at = "idle"
         \/ pass'[t].at = "send" /\ Counted = {}
         \/ pass'[t].at = "cancel" /\ pass'[t].todo = Counted
  <2>1. CASE ScanAdopt(t)
    <3>1. \E o : Finish(t, TRUE, "adopted_existing", o, FALSE)
      BY <2>1 DEF ScanAdopt
    <3> QED BY <3>1, FinishEnds
  <2>2. CASE ScanClosing(t)
    <3>1. \E o : Finish(t, FALSE, "skipped_closing_session", o, FALSE)
      BY <2>2 DEF ScanClosing
    <3> QED BY <3>1, FinishEnds
  <2>3. CASE ScanReplace(t)
    <3>1. PICK desired, o : pass' = [pass EXCEPT ![t] = Replacing(t, desired, o)]
      BY <2>3 DEF ScanReplace
    <3> QED BY <3>1 DEF Replacing, IInv, TypeOK, Pass
  <2>4. CASE ScanFresh(t)
    <3>1. PICK desired \in Desired(t) : StartPlacing(t, "placed", desired) /\ Counted = {}
      BY <2>4 DEF ScanFresh
    <3> QED BY <3>1, StartPlacingGoes
  <2> QED BY <1>1, <2>1, <2>2, <2>3, <2>4 DEF Scan
<1> QED BY <1>1, <1>2, <1>3, <1>4, <1>5, PassKeepsBook

LEMMA CancelBook ==
    ASSUME KotakAnswers, IInv, BookInv, NEW t \in Threads, CancelOne(t) \/ CancelsDone(t)
    PROVE  BookInv'
<1>0. /\ orders \in Seq(Order) /\ \A o \in Ids : orders[o] \in Order
      /\ pass[t].at = "cancel" /\ pass[t].at \notin Outside
      /\ pass[t].todo \subseteq Ids /\ Live \subseteq pass[t].todo
      /\ recent' = recent /\ \A u \in Threads : pass[u].at = "confirm" => u = t
  BY DEF IInv, TypeOK, OneScanAtATime, OrdersKnown, BookInv, Cleared, CancelOne, CancelsDone, Ids,
     Outside
<1>1. \A o \in Live : orders[o].shown \/ o = recent
  BY <1>0 DEF BookInv, Accounted, Unconfirmed
<1>2. CASE CancelOne(t)
  <2>1. PICK o \in pass[t].todo :
          /\ pass' = [pass EXCEPT ![t].todo = @ \ {o}]
          /\ orders' = IF orders[o].status \in Terminal THEN orders
                       ELSE [orders EXCEPT ![o].status = "cancelled"]
    BY <1>2 DEF CancelOne, Fault, KotakAnswers
  <2>2. /\ pass'[t].at = "cancel" /\ pass'[t].todo = pass[t].todo \ {o}
        /\ \A u \in Threads \ {t} : pass'[u] = pass[u]
    BY <1>0, <2>1 DEF IInv, TypeOK, Pass
  <2>3. /\ Ids' = Ids /\ orders'[o].status \in Terminal
        /\ \A p \in Ids : orders'[p].shown = orders[p].shown /\ orders'[p].why = orders[p].why
        /\ \A p \in Ids \ {o} : orders'[p] = orders[p]
    BY <1>0, <2>1 DEF Ids, Order, Terminal, Statuses
  <2>4. Live' \subseteq Live \ {o}
    BY <2>3 DEF Live
  <2>5. OneLive' /\ NoDoubleReservation'
    BY <2>3, <2>4 DEF BookInv, OneLive, NoDoubleReservation
  <2>6. \A p \in Live' : orders'[p].shown \/ p = recent'
    BY <1>0, <1>1, <2>3, <2>4 DEF Live
  <2> QED BY <1>0, <2>2, <2>4, <2>5, <2>6, PassKeepsBook
<1>3. CASE CancelsDone(t)
  <2>1. /\ pass'[t].at \in {"idle", "send"} /\ \A u \in Threads \ {t} : pass'[u] = pass[u]
        /\ Live = {} /\ orders' = orders
    BY <1>0, <1>3, StartPlacingGoes DEF CancelsDone, broker
  <2>2. Live' = {} /\ Ids' = Ids
    BY <2>1 DEF Live, Ids
  <2>3. OneLive' /\ NoDoubleReservation'
    BY <2>1, <2>2 DEF BookInv, OneLive, NoDoubleReservation
  <2> QED BY <1>0, <2>1, <2>2, <2>3, PassKeepsBook
<1> QED BY <1>2, <1>3

LEMMA SendBook ==
    ASSUME KotakAnswers, IInv, BookInv, NEW t \in Threads, Send(t)
    PROVE  BookInv'
<1>1. /\ orders \in Seq(Order) /\ Len(orders) \in Nat /\ NewOrder(t) \in Order
      /\ pass[t].at = "send" /\ pass[t].at \notin Outside /\ Live = {}
  BY DEF Send, IInv, TypeOK, Pass, NewOrder, Order, Statuses, Outside, BookInv, Cleared
<1>2. PICK n \in Nat : n = Len(orders) + 1
  BY <1>1
<1>3. /\ Ids' = Ids \cup {n} /\ orders'[n] = NewOrder(t) /\ \A o \in Ids : orders'[o] = orders[o]
  BY <1>1, <1>2 DEF Send, Ids
<1>4. /\ pass'[t].at = "confirm" /\ pass'[t].order = n
      /\ \A u \in Threads \ {t} : pass'[u] = pass[u]
  BY <1>1, <1>2 DEF Send, IInv, TypeOK, Pass
<1>5. Live' \subseteq {n}
  BY <1>1, <1>3 DEF Live
<1>6. OneLive' /\ NoDoubleReservation'
  BY <1>3, <1>5 DEF BookInv, OneLive, NoDoubleReservation, NewOrder
<1> QED BY <1>1, <1>4, <1>5, <1>6, PassKeepsBook

LEMMA ConfirmBook ==
    ASSUME KotakAnswers, IInv, BookInv, NEW t \in Threads,
           ConfirmResting(t) \/ ConfirmUnknown(t) \/ ConfirmRejected(t)
    PROVE  BookInv'
<1>1. /\ pass[t].at = "confirm" /\ pass[t].at \notin Outside /\ Live \subseteq {pass[t].order}
      /\ orders' = orders
  BY DEF ConfirmResting, ConfirmUnknown, ConfirmRejected, Outside, BookInv, Cleared, broker
<1>2. Live' = Live /\ OneLive' /\ NoDoubleReservation'
  BY <1>1 DEF Live, Ids, BookInv, OneLive, NoDoubleReservation
<1>3. CASE ConfirmResting(t) \/ ConfirmUnknown(t)
  <2>1. \E sure : Placed(t, pass[t].order, sure)
    BY <1>3 DEF ConfirmResting, ConfirmUnknown
  <2>2. /\ pass'[t].at = "idle" /\ recent' = pass[t].order
        /\ \A u \in Threads \ {t} : pass'[u] = pass[u]
    BY <2>1, PlacedEnds
  <2> QED BY <1>1, <1>2, <2>2, PassKeepsBook
<1>4. CASE ConfirmRejected(t)
  <2>1. Live = {}
    BY <1>1, <1>4 DEF ConfirmRejected, Live, Terminal, Statuses
  <2>2. pass'[t].at \in {"idle", "send"} /\ \A u \in Threads \ {t} : pass'[u] = pass[u]
    <3>1. CASE PlaceFailed(t)
      BY <3>1, PlaceFailedGoes
    <3>2. CASE ~PlaceFailed(t)
      <4>1. PICK b : pass' = [pass EXCEPT ![t] = Retrying(t, b)]
        BY <1>4, <3>2 DEF ConfirmRejected
      <4> QED BY <4>1 DEF Retrying, IInv, TypeOK, Pass
    <3> QED BY <3>1, <3>2
  <2> QED BY <1>1, <1>2, <2>1, <2>2, PassKeepsBook
<1> QED BY <1>3, <1>4

LEMMA NextKeepsBook == KotakAnswers /\ IInv /\ BookInv /\ [Next]_vars => BookInv'
<1> SUFFICES ASSUME KotakAnswers, IInv, BookInv, [Next]_vars PROVE BookInv'
  OBVIOUS
<1>0. IInv'
  BY NextKeepsIInv
<1>1. CASE Broker \/ Exit
  BY <1>0, <1>1, BrokerBook
<1>2. CASE RecentExpires
  <2>1. /\ UNCHANGED <<orders, pass>> /\ recent' = NoOrder /\ recent # NoOrder
        /\ orders[recent].shown
    BY <1>2 DEF RecentExpires, broker, Fault, KotakAnswers
  <2>2. Live' = Live /\ OneLive' /\ NoDoubleReservation' /\ Cleared'
    BY <2>1 DEF Live, Ids, BookInv, OneLive, NoDoubleReservation, Cleared
  <2>3. Accounted'
    BY <2>1, <2>2 DEF BookInv, Accounted, Unconfirmed
  <2> QED BY <2>2, <2>3 DEF BookInv
<1>3. ~Restart
  BY DEF Restart, Fault, KotakAnswers
<1>4. ASSUME NEW t \in Threads, NEW want, Call(t, want) PROVE BookInv'
  <2>1. pass[t].at \in Outside /\ UNCHANGED <<orders, recent>>
    BY <1>4 DEF Call, Outside, broker
  <2>2. pass'[t].at = "lock" /\ \A u \in Threads \ {t} : pass'[u] = pass[u]
    BY <1>4 DEF Call, Idle, IInv, TypeOK
  <2> QED BY <2>1, <2>2, EntryKeepsBook
<1>5. ASSUME NEW t \in Threads, Step(t) PROVE BookInv'
  <2>1. CASE Acquire(t)
    <3>1. pass[t].at \in Outside /\ UNCHANGED <<orders, recent>>
      BY <2>1 DEF Acquire, Outside, broker
    <3>2. pass'[t].at = "scan" /\ \A u \in Threads \ {t} : pass'[u] = pass[u]
      BY <2>1 DEF Acquire, IInv, TypeOK, Pass
    <3> QED BY <3>1, <3>2, EntryKeepsBook
  <2>2. CASE Scan(t)
    BY <2>2, ScanBook
  <2>3. CASE CancelOne(t) \/ CancelsDone(t)
    BY <2>3, CancelBook
  <2>4. CASE Send(t)
    BY <2>4, SendBook
  <2>5. CASE ConfirmResting(t) \/ ConfirmUnknown(t) \/ ConfirmRejected(t)
    BY <2>5, ConfirmBook
  <2>6. ~SendLostAck(t) /\ ~RereadAdopts(t) /\ ~RereadFindsNothing(t)
    BY DEF SendLostAck, Fault, KotakAnswers, RereadAdopts, RereadFindsNothing, BookInv, Cleared
  <2> QED BY <1>5, <2>1, <2>2, <2>3, <2>4, <2>5, <2>6 DEF Step, Place
<1>6. CASE UNCHANGED vars
  BY <1>6 DEF vars, BookInv, OneLive, Accounted, Cleared, NoDoubleReservation, Live, Ids,
     Unconfirmed
<1> QED BY <1>1, <1>2, <1>3, <1>4, <1>5, <1>6 DEF Next

\* B-1379 for any number of callers, price levels and shares: while Kotak answers every
\* call and the process lives, no stop is sent for shares another live stop reserves,
\* however late the order book lists new orders and however exits race the passes.
THEOREM NeverReservesTwice == ASSUME KotakAnswers PROVE Spec => []NoDoubleReservation
<1>1. Init => BookInv
  BY InitBookInv
<1>2. IInv /\ BookInv /\ [Next]_vars => BookInv'
  BY NextKeepsBook
<1>3. BookInv => NoDoubleReservation
  BY DEF BookInv
<1> QED BY <1>1, <1>2, <1>3, SpecIInv, PTL DEF Spec

-----------------------------------------------------------------------------
(* The sum of a function over a finite set: the recursion MapThenSumSet is *)
(* defined by has a solution, a sum of naturals is a natural, and it is at *)
(* least each of its terms. The arguments are by least counterexample,     *)
(* which stands in for induction on the size of the set.                   *)

\* Every non-empty set of natural numbers has a least element.
LEMMA LeastNumber == ASSUME NEW T \in SUBSET Nat, T # {} PROVE \E m \in T : \A k \in T : m <= k
<1>1. PICK R : IsWellFoundedOn(R, Nat) /\ \A x, y \in Nat : <<y, x>> \in R <=> y < x
  <2>1. IsWellFoundedOn(OpToRel(<, Nat), Nat)
    BY NatLessThanWellFounded
  <2>2. \A x, y \in Nat : <<y, x>> \in OpToRel(<, Nat) <=> y < x
    BY DEF OpToRel
  <2> QED BY <2>1, <2>2, Zenon
<1>2. PICK m \in T : \A k \in T : ~(<<k, m>> \in R)
  BY <1>1, WFMin
<1>3. \A k \in T : m \in Nat /\ k \in Nat /\ ~(k < m)
  BY <1>1, <1>2
<1>4. ASSUME NEW k \in T PROVE m <= k
  <2>1. m \in Nat /\ k \in Nat /\ ~(k < m)
    BY <1>3
  <2> QED BY <2>1
<1> QED BY <1>4

\* f[s] is the sum of w over s, for every subset s of S.
AnyOf(s) == CHOOSE x \in s : TRUE
Sums(f, w, S) ==
    f = [s \in SUBSET S |-> IF s = {} THEN 0 ELSE w[AnyOf(s)] + f[s \ {AnyOf(s)}]]

\* Such a function exists whenever S is finite.
LEMMA SumsExist == ASSUME NEW S, IsFiniteSet(S), NEW w PROVE \E f : Sums(f, w, S)
<1> DEFINE body(f, s) == IF s = {} THEN 0 ELSE w[AnyOf(s)] + f[s \ {AnyOf(s)}]
           UpTo(f, k) == /\ f = [s \in SUBSET S |-> f[s]]
                         /\ \A s \in SUBSET S : Cardinality(s) <= k => f[s] = body(f, s)
           T == {k \in Nat : ~\E f : UpTo(f, k)}
<1>0. \A s \in SUBSET S : /\ IsFiniteSet(s) /\ Cardinality(s) \in Nat
                          /\ Cardinality(s) <= Cardinality(S)
  BY FS_Subset, FS_CardinalityType
<1>1. T = {}
  <2> SUFFICES ASSUME T # {} PROVE FALSE
    OBVIOUS
  <2>1. PICK m \in T : \A k \in T : m <= k
    <3> T \in SUBSET Nat
      OBVIOUS
    <3> HIDE DEF T
    <3> QED BY LeastNumber
  <2>2. CASE m = 0
    <3> DEFINE g == [s \in SUBSET S |-> 0]
    <3>1. \A s \in SUBSET S : Cardinality(s) <= 0 => s = {}
      BY <1>0, FS_EmptySet
    <3>2. UpTo(g, 0)
      BY <3>1
    <3> QED BY <2>1, <2>2, <3>2
  <2>3. CASE m # 0
    <3>0. m \in Nat
      OBVIOUS
    <3>1. m \in Nat /\ m - 1 \in Nat /\ m - 1 \notin T
      <4> HIDE DEF T
      <4>1. m - 1 \in Nat /\ ~(m <= m - 1)
        BY <2>3, <3>0
      <4> QED BY <2>1, <3>0, <4>1
    <3>2. PICK f : UpTo(f, m - 1)
      BY <3>1
    <3> DEFINE g == [s \in SUBSET S |-> IF Cardinality(s) <= m - 1 THEN f[s] ELSE body(f, s)]
    <3>3. ASSUME NEW s \in SUBSET S, Cardinality(s) <= m PROVE g[s] = body(g, s)
      <4>1. CASE s = {}
        <5>1. Cardinality(s) = 0
          BY <4>1, FS_EmptySet
        <5> QED BY <3>1, <3>2, <4>1, <5>1
      <4>2. CASE s # {}
        <5>1. AnyOf(s) \in s
          BY <4>2 DEF AnyOf
        <5> DEFINE r == s \ {AnyOf(s)}
        <5>2. r \in SUBSET S /\ Cardinality(r) = Cardinality(s) - 1
          BY <1>0, <5>1, FS_RemoveElement
        <5>3. Cardinality(s) \in Nat /\ Cardinality(r) <= m - 1
          BY <1>0, <3>1, <3>3, <5>2
        <5>4. g[r] = f[r]
          BY <5>2, <5>3
        <5>5. g[s] = body(f, s)
          BY <3>2
        <5> QED BY <4>2, <5>4, <5>5
      <4> QED BY <4>1, <4>2
    <3>4. UpTo(g, m)
      BY <3>3
    <3> QED BY <2>1, <3>4
  <2> QED BY <2>2, <2>3
<1>2. PICK f : UpTo(f, Cardinality(S))
  <2>1. Cardinality(S) \in Nat
    BY FS_CardinalityType
  <2> QED BY <1>1, <2>1
<1>3. \A s \in SUBSET S : f[s] = body(f, s)
  BY <1>0, <1>2
<1>4. f = [s \in SUBSET S |-> body(f, s)]
  BY <1>2, <1>3
<1> QED BY <1>4 DEF Sums

\* Sums of naturals are naturals, at least each of their terms.
LEMMA SumsBound ==
    ASSUME NEW S, IsFiniteSet(S), NEW w, \A x \in S : w[x] \in Nat, NEW f, Sums(f, w, S)
    PROVE  \A s \in SUBSET S : f[s] \in Nat /\ \A x \in s : w[x] <= f[s]
<1> DEFINE Good(s) == f[s] \in Nat /\ \A x \in s : w[x] <= f[s]
           T == {k \in Nat : \E s \in SUBSET S : Cardinality(s) = k /\ ~Good(s)}
<1>0. \A s \in SUBSET S : IsFiniteSet(s) /\ Cardinality(s) \in Nat
  BY FS_Subset, FS_CardinalityType
<1>1. T = {}
  <2> SUFFICES ASSUME T # {} PROVE FALSE
    OBVIOUS
  <2>1. PICK m \in T : \A k \in T : m <= k
    <3> T \in SUBSET Nat
      OBVIOUS
    <3> HIDE DEF T
    <3> QED BY LeastNumber
  <2>2. PICK s \in SUBSET S : Cardinality(s) = m /\ ~Good(s)
    BY <2>1
  <2>3. s # {}
    BY <2>2 DEF Sums
  <2>4. AnyOf(s) \in s
    BY <2>3 DEF AnyOf
  <2> DEFINE r == s \ {AnyOf(s)}
  <2>5. r \in SUBSET S /\ Cardinality(r) = Cardinality(s) - 1 /\ Cardinality(r) \in Nat
    BY <1>0, <2>4, FS_RemoveElement
  <2>6. Cardinality(r) \notin T
    <3> HIDE DEF T
    <3>1. Cardinality(s) \in Nat /\ ~(m <= Cardinality(r))
      BY <1>0, <2>2, <2>5
    <3> QED BY <2>1, <3>1
  <2>7. Good(r)
    BY <2>5, <2>6
  <2>8. f[s] = w[AnyOf(s)] + f[r]
    BY <2>3 DEF Sums
  <2>9. \A x \in s : w[x] \in Nat /\ (x = AnyOf(s) \/ x \in r)
    OBVIOUS
  <2>10. f[s] \in Nat
    BY <2>4, <2>7, <2>8, <2>9
  <2>11. ASSUME NEW x \in s PROVE w[x] <= f[s]
    <3>1. w[AnyOf(s)] \in Nat /\ f[r] \in Nat
      BY <2>4, <2>7, <2>9
    <3>2. CASE x = AnyOf(s)
      BY <2>8, <3>1, <3>2
    <3>3. CASE x \in r
      <4>1. w[x] \in Nat /\ w[x] <= f[r]
        BY <2>7, <2>9, <3>3
      <4> QED BY <2>8, <3>1, <4>1
    <3> QED BY <2>9, <3>2, <3>3
  <2> QED BY <2>2, <2>10, <2>11
<1> QED BY <1>0, <1>1

-----------------------------------------------------------------------------
(* A replacement is lower only to cover more shares.                       *)
(* What a pass counted follows it to its end: the highest stop it counted  *)
(* lay at or under the level it asks for, or covered too few shares. The   *)
(* second half of Suffices is a sum over a set, hence the facts above.     *)

\* What a set of orders covers together is at least what each of them covers.
LEMMA PartOfSum ==
    ASSUME orders \in Seq(Order), NEW O \in SUBSET Ids
    PROVE  QtyOf(O) \in Nat /\ \A o \in O : orders[o].qty <= QtyOf(O)
<1> DEFINE w == [o \in Ids |-> orders[o].qty]
           P(f) == f = [s \in SUBSET O |->
                          IF s = {} THEN 0
                          ELSE orders[CHOOSE x \in s : TRUE].qty + f[s \ {CHOOSE x \in s : TRUE}]]
<1>1. IsFiniteSet(O)
  <2>1. IsFiniteSet(Ids)
    BY FS_Interval DEF Ids
  <2> QED BY <2>1, FS_Subset
<1>2. \A o \in O : w[o] = orders[o].qty /\ orders[o].qty \in Nat
  <2>1. \A o \in Ids : orders[o] \in Order
    BY DEF Ids
  <2> QED BY <2>1 DEF Order
<1>3. \A f : Sums(f, w, O) <=> P(f)
  <2> TAKE f
  <2>1. \A s \in SUBSET O : s # {} => w[AnyOf(s)] = orders[CHOOSE x \in s : TRUE].qty
    BY <1>2 DEF AnyOf
  <2>2. [s \in SUBSET O |-> IF s = {} THEN 0 ELSE w[AnyOf(s)] + f[s \ {AnyOf(s)}]]
        = [s \in SUBSET O |->
             IF s = {} THEN 0
             ELSE orders[CHOOSE x \in s : TRUE].qty + f[s \ {CHOOSE x \in s : TRUE}]]
    <3> HIDE DEF w
    <3> QED BY <2>1 DEF AnyOf
  <2> QED BY <2>2 DEF Sums
<1>4. \E f : P(f)
  <2>1. PICK f : Sums(f, w, O)
    <3> HIDE DEF w
    <3> QED BY <1>1, SumsExist
  <2> HIDE DEF w, P
  <2> QED BY <1>3, <2>1
<1>5. P(CHOOSE f : P(f))
  BY <1>4
<1>6. QtyOf(O) = (CHOOSE f : P(f))[O]
  BY DEF QtyOf, MapThenSumSet, MapThenFoldSet
<1>7. PICK f : Sums(f, w, O) /\ QtyOf(O) = f[O]
  <2> HIDE DEF P
  <2> QED BY <1>3, <1>5, <1>6
<1>8. \A x \in O : w[x] \in Nat
  BY <1>2
<1>9. f[O] \in Nat /\ \A x \in O : w[x] <= f[O]
  <2> HIDE DEF w
  <2> QED BY <1>1, <1>7, <1>8, SumsBound
<1> QED BY <1>2, <1>7, <1>9

Placing == {"send", "confirm", "reread"}

\* A pass may replace: the highest stop it counted is not above the level it asks for,
\* or a stop at that level covers fewer shares than it asks for.
Justified(t) ==
    \/ pass[t].best <= pass[t].want
    \/ \E o \in Ids : orders[o].trigger = pass[t].best /\ orders[o].qty < pass[t].qty

RaisesOf(t) ==
    /\ pass[t].at = "cancel" => Justified(t)
    /\ (pass[t].at \in Placing /\ pass[t].mode = "replaced")
          => /\ Justified(t) /\ pass[t].price >= pass[t].want
             /\ pass[t].price >= EntryFloor \/ pass[t].breached
    /\ (pass[t].at \in Placing /\ pass[t].mode = "restore") => pass[t].price >= pass[t].best
    /\ pass[t].at = "confirm" => orders[pass[t].order].trigger = pass[t].price

RaisesInv == \A t \in Threads : RaisesOf(t)

\* Kotak never changes what an order asks for.
OrdersKeep ==
    /\ Ids \subseteq Ids'
    /\ \A o \in Ids : orders'[o].trigger = orders[o].trigger /\ orders'[o].qty = orders[o].qty

LEMMA InitRaises == Init => RaisesInv
BY DEF Init, RaisesInv, RaisesOf, Idle, Placing

LEMMA JustifiedKeeps ==
    ASSUME NEW t \in Threads, Justified(t), OrdersKeep, pass'[t].best = pass[t].best,
           pass'[t].want = pass[t].want, pass'[t].qty = pass[t].qty
    PROVE  Justified(t)'
BY DEF Justified, OrdersKeep

\* A thread that rests stays as it is.
LEMMA RestedKeepsRaises ==
    ASSUME IInv, NEW t \in Threads, RaisesOf(t), OrdersKeep, pass'[t] = pass[t]
    PROVE  RaisesOf(t)'
<1>1. Justified(t) => Justified(t)'
  BY JustifiedKeeps
<1>3. pass[t].at = "confirm" => pass[t].order \in Ids
  BY DEF IInv, OrdersKnown
<1> QED BY <1>1, <1>3 DEF RaisesOf, OrdersKeep

\* One thread moves.
LEMMA PassKeepsRaises ==
    ASSUME IInv, RaisesInv, NEW t \in Threads, \A u \in Threads \ {t} : pass'[u] = pass[u],
           OrdersKeep, RaisesOf(t)'
    PROVE  RaisesInv'
<1>1. \A u \in Threads \ {t} : RaisesOf(u)'
  BY RestedKeepsRaises DEF RaisesInv
<1> QED BY <1>1 DEF RaisesInv

LEMMA SameOrdersKeep == orders' = orders => OrdersKeep
BY DEF OrdersKeep, Ids

LEMMA BrokerKeepsOrders ==
    ASSUME IInv, Broker \/ Exit, ~NextDay PROVE pass' = pass /\ OrdersKeep
<1>0. /\ orders \in Seq(Order) /\ Len(orders) \in Nat
      /\ \A o \in Ids : orders[o] \in Order
  BY DEF IInv, TypeOK, Ids
<1>1. pass' = pass
  BY DEF Broker, Exit, Admit, Refuse, Show, Fire, Grow, RaiseStop, Opens, Closes,
     ExitSweep, ExitSell, process
<1>2. OrdersKeep
  <2>1. ASSUME NEW o \in Ids, Admit(o) \/ Refuse(o) \/ Show(o) \/ Fire(o) PROVE OrdersKeep
    <3>1. /\ Len(orders') = Len(orders)
          /\ \A p \in Ids : orders'[p].trigger = orders[p].trigger /\ orders'[p].qty = orders[p].qty
      <4>1. CASE Admit(o)
        BY <1>0, <4>1 DEF Admit, Ids, Order
      <4>2. CASE Refuse(o)
        BY <1>0, <4>2 DEF Refuse, Ids, Order
      <4>3. CASE Show(o)
        BY <1>0, <4>3 DEF Show, Ids, Order
      <4>4. CASE Fire(o)
        BY <1>0, <4>4 DEF Fire, SetStatus, Ids, Order
      <4> QED BY <2>1, <4>1, <4>2, <4>3, <4>4
    <3> QED BY <3>1 DEF OrdersKeep, Ids
  <2>2. ASSUME Grow \/ RaiseStop \/ Opens \/ ExitSell PROVE OrdersKeep
    BY <2>2, SameOrdersKeep DEF Grow, RaiseStop, Opens, ExitSell, broker
  <2>3. ASSUME Closes \/ ExitSweep PROVE OrdersKeep
    <3>1. /\ orders' = [o \in Ids |-> orders'[o]]
          /\ \A p \in Ids : orders'[p].trigger = orders[p].trigger /\ orders'[p].qty = orders[p].qty
      <4>1. CASE Closes
        BY <1>0, <4>1 DEF Closes, Order
      <4>2. CASE ExitSweep
        BY <1>0, <4>2 DEF ExitSweep, Order
      <4> QED BY <2>3, <4>1, <4>2
    <3>2. Ids' = Ids
      <4>1. orders' \in Seq(Order)
        BY NextKeepsIInv DEF IInv, TypeOK, Next
      <4>2. DOMAIN orders' = Ids /\ DOMAIN orders' = 1..Len(orders') /\ Len(orders') \in Nat
        BY <3>1, <4>1
      <4> QED BY <4>2 DEF Ids
    <3> QED BY <3>1, <3>2 DEF OrdersKeep
  <2> QED BY <2>1, <2>2, <2>3 DEF Broker, Exit
<1> QED BY <1>1, <1>2

LEMMA BrokerRaises == ASSUME IInv, RaisesInv, Broker \/ Exit PROVE RaisesInv'
<1>1. CASE NextDay
  <2>1. pass' = pass /\ \A t \in Threads : pass[t].at = "idle"
    BY <1>1 DEF NextDay
  <2> QED BY <2>1 DEF RaisesInv, RaisesOf, Placing
<1>2. CASE ~NextDay
  BY <1>2, BrokerKeepsOrders, RestedKeepsRaises DEF RaisesInv
<1> QED BY <1>1, <1>2

\* apply_entry_day_floor and the band clamp only raise what was asked for, and at least to
\* the entry-day stop unless the market is under that.
LEMMA SentAtLeast ==
    ASSUME NEW p \in Triggers, NEW market \in Markets, NEW mode, mode # "restore"
    PROVE  /\ SendPrice(mode, p, market) >= p
           /\ SendPrice(mode, p, market) >= EntryFloor \/ FloorBreached(p, market)
<1> DEFINE q == Floored(p, market)
<1>1. p \in Int /\ EntryFloor \in Int /\ WidestBand \in Int
  BY NumbersAssumption, TriggersFacts DEF Triggers
<1>2. q \in Int /\ q >= p /\ (q >= EntryFloor \/ FloorBreached(p, market))
  <2>1. q \in Triggers
    BY FlooredType
  <2>2. CASE FloorBreached(p, market)
    <3>1. market \in Int
      BY NumbersAssumption DEF Markets, NoPrice
    <3> QED BY <1>1, <2>1, <2>2, <3>1 DEF Floored, Larger, Triggers
  <2>3. CASE ~FloorBreached(p, market)
    BY <1>1, <2>1, <2>3 DEF Floored, Larger, Triggers
  <2> QED BY <2>2, <2>3
<1> HIDE DEF q
<1>3. Clamped(q, market) \in Int /\ Clamped(q, market) >= q
  BY <1>1, <1>2 DEF Clamped, Larger
<1>4. SendPrice(mode, p, market) = Clamped(q, market)
  BY DEF SendPrice, q
<1> QED BY <1>1, <1>2, <1>3, <1>4

LEMMA RestoredAtLeast ==
    ASSUME NEW p \in Triggers, NEW market PROVE SendPrice("restore", p, market) >= p
<1>1. p \in Int /\ WidestBand \in Int
  BY NumbersAssumption, TriggersFacts DEF Triggers
<1> QED BY <1>1 DEF SendPrice, Clamped, Larger

\* A pass starts to place at p, or ends.
LEMMA StartPlacingRaises ==
    ASSUME IInv, RaisesInv, NEW t \in Threads, NEW mode \in PlaceModes, NEW p \in Triggers,
           StartPlacing(t, mode, p), orders' = orders,
           mode = "replaced" => (Justified(t) /\ p = pass[t].want),
           mode = "restore" => p = pass[t].best
    PROVE  RaisesInv'
<1>0. OrdersKeep
  BY SameOrdersKeep
<1>1. CASE session = "pre"
  <2>1. PICK a : Finish(t, FALSE, a, NoOrder, FALSE)
    BY <1>1 DEF StartPlacing
  <2>2. pass'[t].at = "idle" /\ \A u \in Threads \ {t} : pass'[u] = pass[u]
    BY <2>1, FinishEnds
  <2>3. RaisesOf(t)'
    BY <2>2 DEF RaisesOf, Placing
  <2> QED BY <1>0, <2>2, <2>3, PassKeepsRaises
<1>2. CASE session # "pre"
  <2>0. PICK market \in Markets : pass' = [pass EXCEPT ![t] = Sending(t, mode, p, market)]
    BY <1>2 DEF StartPlacing
  <2>1. /\ pass'[t].at = "send" /\ pass'[t].mode = mode
        /\ pass'[t].price = SendPrice(mode, p, market)
        /\ pass'[t].breached = (mode # "restore" /\ FloorBreached(p, market))
        /\ pass'[t].best = pass[t].best /\ pass'[t].want = pass[t].want
        /\ pass'[t].qty = pass[t].qty /\ \A u \in Threads \ {t} : pass'[u] = pass[u]
    BY <2>0, SendingIs DEF IInv, TypeOK
  <2>3. mode = "replaced" => Justified(t)'
    BY <1>0, <2>1, JustifiedKeeps
  <2>4. mode = "replaced" => /\ SendPrice(mode, p, market) >= p
                             /\ \/ SendPrice(mode, p, market) >= EntryFloor
                                \/ FloorBreached(p, market)
    BY SentAtLeast
  <2>6. mode = "restore" => SendPrice(mode, p, market) >= p
    BY RestoredAtLeast
  <2>5. RaisesOf(t)'
    BY <2>1, <2>3, <2>4, <2>6 DEF RaisesOf
  <2> QED BY <1>0, <2>1, <2>5, PassKeepsRaises
<1> QED BY <1>1, <1>2

\* A pass ends.
LEMMA EndRaises ==
    ASSUME IInv, RaisesInv, NEW t \in Threads, orders' = orders,
           \E ok, a, o, sure : Finish(t, ok, a, o, sure)
    PROVE  RaisesInv'
<1>1. pass'[t].at = "idle" /\ \A u \in Threads \ {t} : pass'[u] = pass[u]
  BY FinishEnds
<1>2. RaisesOf(t)'
  BY <1>1 DEF RaisesOf, Placing
<1> QED BY <1>1, <1>2, SameOrdersKeep, PassKeepsRaises

\* The highest counted stop falls short when all of them together do.
LEMMA ShortIsJustified ==
    ASSUME IInv, NEW t \in Threads, NEW desired \in Triggers, ~Suffices(t, desired, Counted),
           NEW o \in Best(Counted)
    PROVE  orders[o].trigger <= desired \/ orders[o].qty < pass[t].qty
<1>1. orders \in Seq(Order) /\ Counted \in SUBSET Ids /\ o \in Counted /\ o \in Ids
  BY DEF IInv, TypeOK, Counted, Live, Best
<1>2. orders[o] \in Order /\ pass[t] \in Pass
  BY <1>1 DEF Ids, IInv, TypeOK
<1>3. /\ orders[o].trigger \in Int /\ orders[o].qty \in Int /\ pass[t].qty \in Int
      /\ desired \in Int
  BY <1>2 DEF Order, Pass, Triggers
<1>4. QtyOf(Counted) \in Int /\ orders[o].qty <= QtyOf(Counted)
  BY <1>1, PartOfSum
<1>5. \/ ~(orders[o].trigger >= desired)
      \/ ~(QtyOf(Counted) >= pass[t].qty)
  BY <1>1 DEF Suffices
<1> QED BY <1>3, <1>4, <1>5

LEMMA ScanRaises == ASSUME IInv, RaisesInv, NEW t \in Threads, Scan(t) PROVE RaisesInv'
<1>0. orders' = orders /\ pass[t] \in Pass /\ pass[t].want \in Triggers
  BY DEF Scan, ScanUnreadable, ScanAdopt, ScanClosing, ScanReplace, ScanFresh, broker, IInv,
     TypeOK, Pass
<1>1. CASE ScanUnreadable(t)
  <2>1. \/ \E a : Finish(t, FALSE, a, NoOrder, FALSE)
        \/ StartPlacing(t, "placed_unchecked", pass[t].want)
    BY <1>1 DEF ScanUnreadable
  <2> QED BY <1>0, <2>1, EndRaises, StartPlacingRaises DEF PlaceModes
<1>2. CASE ScanAdopt(t) \/ ScanClosing(t)
  <2>1. \E ok, a, o : Finish(t, ok, a, o, FALSE)
    BY <1>2 DEF ScanAdopt, ScanClosing
  <2> QED BY <1>0, <2>1, EndRaises
<1>3. CASE ScanReplace(t)
  <2>1. PICK desired \in Desired(t), o \in Best(Counted) :
          /\ ~Suffices(t, desired, Counted)
          /\ pass' = [pass EXCEPT ![t] = Replacing(t, desired, o)]
    BY <1>3 DEF ScanReplace
  <2>2. /\ pass'[t].at = "cancel" /\ pass'[t].best = orders[o].trigger
        /\ pass'[t].want = desired /\ pass'[t].qty = pass[t].qty
        /\ \A u \in Threads \ {t} : pass'[u] = pass[u]
    BY <2>1 DEF Replacing, IInv, TypeOK, Pass
  <2>3. Ids' = Ids /\ o \in Ids /\ desired \in Triggers
    BY <1>0, <2>1, DesiredType DEF Ids, Best, Counted, Live
  <2>4. orders[o].trigger <= desired \/ orders[o].qty < pass[t].qty
    BY <2>1, <2>3, ShortIsJustified
  <2>5. Justified(t)'
    BY <1>0, <2>2, <2>3, <2>4 DEF Justified
  <2>6. RaisesOf(t)'
    BY <2>2, <2>5 DEF RaisesOf, Placing
  <2> QED BY <1>0, <2>2, <2>6, SameOrdersKeep, PassKeepsRaises
<1>4. CASE ScanFresh(t)
  <2>1. PICK desired \in Desired(t) : StartPlacing(t, "placed", desired)
    BY <1>4 DEF ScanFresh
  <2>2. desired \in Triggers
    BY <1>0, <2>1, DesiredType
  <2> QED BY <1>0, <2>1, <2>2, StartPlacingRaises DEF PlaceModes
<1> QED BY <1>1, <1>2, <1>3, <1>4 DEF Scan

LEMMA CancelOneGoes ==
    ASSUME IInv, NEW t \in Threads, CancelOne(t)
    PROVE  /\ pass'[t].at = "cancel" /\ pass'[t].best = pass[t].best
           /\ pass'[t].want = pass[t].want /\ pass'[t].qty = pass[t].qty
           /\ \A u \in Threads \ {t} : pass'[u] = pass[u]
           /\ OrdersKeep
           /\ \A q \in Ids : \/ orders'[q] = orders[q]
                             \/ orders'[q].status = "cancelled" /\ orders[q].status \notin Terminal
<1>0. /\ orders \in Seq(Order) /\ \A o \in Ids : orders[o] \in Order
      /\ pass[t] \in Pass /\ pass[t].at = "cancel" /\ pass[t].todo \subseteq Ids
  BY DEF IInv, TypeOK, Ids, CancelOne, OrdersKnown
<1>1. PICK o \in pass[t].todo :
        /\ pass' = [pass EXCEPT ![t].todo = @ \ {o}]
        /\ \/ orders' = orders
           \/ orders[o].status \notin Terminal /\ orders' = [orders EXCEPT ![o].status = "cancelled"]
  BY DEF CancelOne
<1>2. /\ pass'[t].at = "cancel" /\ pass'[t].best = pass[t].best
      /\ pass'[t].want = pass[t].want /\ pass'[t].qty = pass[t].qty
      /\ \A u \in Threads \ {t} : pass'[u] = pass[u]
  BY <1>0, <1>1 DEF IInv, TypeOK, Pass
<1>3. CASE orders' = orders
  BY <1>2, <1>3, SameOrdersKeep
<1>4. CASE orders[o].status \notin Terminal /\ orders' = [orders EXCEPT ![o].status = "cancelled"]
  <2>1. /\ Len(orders') = Len(orders)
        /\ \A q \in Ids : orders'[q].trigger = orders[q].trigger /\ orders'[q].qty = orders[q].qty
        /\ orders'[o].status = "cancelled" /\ \A q \in Ids \ {o} : orders'[q] = orders[q]
    BY <1>0, <1>4 DEF Ids, Order
  <2> QED BY <1>2, <1>4, <2>1 DEF OrdersKeep, Ids
<1> QED BY <1>1, <1>3, <1>4

LEMMA CancelRaises ==
    ASSUME IInv, RaisesInv, NEW t \in Threads, CancelOne(t) \/ CancelsDone(t)
    PROVE  RaisesInv'
<1>0. pass[t] \in Pass /\ pass[t].want \in Triggers /\ Justified(t)
  BY DEF IInv, TypeOK, Pass, CancelOne, CancelsDone, RaisesInv, RaisesOf
<1>1. CASE CancelOne(t)
  <2>1. Justified(t)' /\ pass'[t].at = "cancel"
    BY <1>0, <1>1, CancelOneGoes, JustifiedKeeps
  <2>2. RaisesOf(t)'
    BY <2>1 DEF RaisesOf, Placing
  <2> QED BY <1>1, <2>2, CancelOneGoes, PassKeepsRaises
<1>2. CASE CancelsDone(t)
  <2>1. StartPlacing(t, "replaced", pass[t].want) /\ orders' = orders
    BY <1>2 DEF CancelsDone, broker
  <2> QED BY <1>0, <2>1, StartPlacingRaises DEF PlaceModes
<1> QED BY <1>1, <1>2

LEMMA SendGoes ==
    ASSUME IInv, NEW t \in Threads, Send(t) \/ SendLostAck(t)
    PROVE  /\ pass[t].at = "send" /\ pass'[t].at \in {"confirm", "reread"}
           /\ pass'[t].best = pass[t].best /\ pass'[t].mode = pass[t].mode
           /\ pass'[t].want = pass[t].want /\ pass'[t].qty = pass[t].qty
           /\ pass'[t].price = pass[t].price /\ pass'[t].breached = pass[t].breached
           /\ \A u \in Threads \ {t} : pass'[u] = pass[u]
           /\ OrdersKeep
           /\ orders' = orders \/ orders' = Append(orders, NewOrder(t))
           /\ pass'[t].at = "confirm" => orders'[pass'[t].order] = NewOrder(t)
           /\ pass'[t].at = "reread" => Fault("lost_ack")
<1>0. /\ orders \in Seq(Order) /\ Len(orders) \in Nat /\ NewOrder(t) \in Order
      /\ pass[t] \in Pass /\ pass[t].at = "send"
  BY DEF IInv, TypeOK, Pass, Send, SendLostAck, NewOrder, Order, Statuses
<1>1. /\ pass'[t].at \in {"confirm", "reread"}
      /\ pass'[t].best = pass[t].best /\ pass'[t].mode = pass[t].mode
      /\ pass'[t].want = pass[t].want /\ pass'[t].qty = pass[t].qty
      /\ pass'[t].price = pass[t].price /\ pass'[t].breached = pass[t].breached
      /\ \A u \in Threads \ {t} : pass'[u] = pass[u]
  <2>1. CASE Send(t)
    BY <1>0, <2>1 DEF Send, IInv, TypeOK, Pass
  <2>2. CASE SendLostAck(t)
    BY <1>0, <2>2 DEF SendLostAck, IInv, TypeOK, Pass
  <2> QED BY <2>1, <2>2
<1>2. orders' = orders \/ orders' = Append(orders, NewOrder(t))
  BY DEF Send, SendLostAck
<1>3. OrdersKeep
  <2>1. CASE orders' = Append(orders, NewOrder(t))
    BY <1>0, <2>1 DEF OrdersKeep, Ids
  <2> QED BY <1>2, <2>1, SameOrdersKeep
<1>4. pass'[t].at = "confirm" => orders'[pass'[t].order] = NewOrder(t)
  <2>1. CASE Send(t)
    <3>1. PICK n \in Nat : n = Len(orders) + 1
      BY <1>0
    <3>2. orders'[n] = NewOrder(t) /\ pass'[t].order = n
      BY <1>0, <2>1, <3>1 DEF Send, IInv, TypeOK, Pass
    <3> QED BY <3>2
  <2>2. CASE SendLostAck(t)
    <3>1. pass'[t].at = "reread"
      BY <1>0, <2>2 DEF SendLostAck, IInv, TypeOK, Pass
    <3> QED BY <3>1
  <2> QED BY <2>1, <2>2
<1>5. pass'[t].at = "reread" => Fault("lost_ack")
  <2>1. CASE Send(t)
    <3>1. pass'[t].at = "confirm"
      BY <1>0, <2>1 DEF Send, IInv, TypeOK, Pass
    <3> QED BY <3>1
  <2>2. CASE SendLostAck(t)
    BY <2>2 DEF SendLostAck
  <2> QED BY <2>1, <2>2
<1> QED BY <1>0, <1>1, <1>2, <1>3, <1>4, <1>5

LEMMA NewOrderAsks ==
    ASSUME NEW t
    PROVE  /\ NewOrder(t).trigger = pass[t].price /\ NewOrder(t).qty = pass[t].qty
           /\ NewOrder(t).status = "sent"
BY DEF NewOrder

LEMMA SendRaises ==
    ASSUME IInv, RaisesInv, NEW t \in Threads, Send(t) \/ SendLostAck(t)
    PROVE  RaisesInv'
<1>1. pass'[t].at = "confirm" => orders'[pass'[t].order].trigger = pass'[t].price
  BY SendGoes, NewOrderAsks
<1>2. pass[t].mode = "replaced" => Justified(t)'
  BY SendGoes, JustifiedKeeps DEF RaisesInv, RaisesOf, Placing
<1>4. RaisesOf(t)'
  BY <1>1, <1>2, SendGoes DEF RaisesInv, RaisesOf, Placing
<1> QED BY <1>4, SendGoes, PassKeepsRaises

LEMMA VerdictRaises ==
    ASSUME IInv, RaisesInv, NEW t \in Threads,
           \/ RereadAdopts(t) \/ RereadFindsNothing(t)
           \/ ConfirmResting(t) \/ ConfirmUnknown(t) \/ ConfirmRejected(t)
    PROVE  RaisesInv'
<1>0. orders' = orders /\ pass[t] \in Pass
  BY DEF RereadAdopts, RereadFindsNothing, ConfirmResting, ConfirmUnknown, ConfirmRejected,
     broker, IInv, TypeOK
<1>1. CASE \E o, sure : Placed(t, o, sure)
  <2>1. \E ok, a, o, sure : Finish(t, ok, a, o, sure)
    BY <1>1 DEF Placed
  <2> QED BY <1>0, <2>1, EndRaises
<1>2. CASE PlaceFailed(t)
  <2>1. pass[t].best \in Triggers
    BY <1>0 DEF Pass
  <2>2. \/ StartPlacing(t, "restore", pass[t].best)
        \/ \E a : Finish(t, FALSE, a, NoOrder, FALSE)
    BY <1>2 DEF PlaceFailed
  <2> QED BY <1>0, <2>1, <2>2, StartPlacingRaises, EndRaises DEF PlaceModes
<1>3. CASE ~PlaceFailed(t) /\ ConfirmRejected(t)
  <2>0. PICK market \in Markets : \E b \in NextBands(t, market) :
          pass' = [pass EXCEPT ![t] = Retrying(t, b)]
    BY <1>3 DEF ConfirmRejected
  <2>1. PICK b \in NextBands(t, market) :
          pass' = [pass EXCEPT ![t] = Retrying(t, b)]
    BY <2>0
  <2>2. /\ pass'[t].at = "send" /\ pass'[t].best = pass[t].best /\ pass'[t].mode = pass[t].mode
        /\ pass'[t].want = pass[t].want /\ pass'[t].qty = pass[t].qty /\ pass'[t].price = b
        /\ pass'[t].breached = pass[t].breached
        /\ \A u \in Threads \ {t} : pass'[u] = pass[u]
    BY <1>0, <2>1 DEF Retrying, IInv, TypeOK, Pass
  <2>3. pass[t].at = "confirm"
    BY <1>3 DEF ConfirmRejected
  <2>4. pass[t].mode = "replaced"
          => (Justified(t)' /\ b >= pass[t].want /\ (b >= EntryFloor \/ pass[t].breached))
    <3> SUFFICES ASSUME pass[t].mode = "replaced"
                 PROVE  Justified(t)' /\ b >= pass[t].want /\ (b >= EntryFloor \/ pass[t].breached)
      OBVIOUS
    <3>1. /\ Justified(t) /\ pass[t].price >= pass[t].want
          /\ pass[t].price >= EntryFloor \/ pass[t].breached
      BY <2>3 DEF RaisesInv, RaisesOf, Placing
    <3>2. b \in Int /\ b > pass[t].price /\ pass[t].price \in Int /\ pass[t].want \in Int
          /\ EntryFloor \in Int
      BY <1>0, <2>1, NumbersAssumption DEF NextBands, Pass, Triggers
    <3> QED BY <1>0, <2>2, <3>1, <3>2, SameOrdersKeep, JustifiedKeeps
  <2>6. pass[t].mode = "restore" => b >= pass[t].best
    <3>1. b \in Int /\ b > pass[t].price /\ pass[t].price \in Int /\ pass[t].best \in Int
      BY <1>0, <2>1, NumbersAssumption DEF NextBands, Pass, Triggers
    <3> QED BY <2>3, <3>1 DEF RaisesInv, RaisesOf, Placing
  <2>5. RaisesOf(t)'
    BY <2>2, <2>3, <2>4, <2>6 DEF RaisesOf, Placing
  <2> QED BY <1>0, <2>2, <2>5, SameOrdersKeep, PassKeepsRaises
<1>4. \/ \E o, sure : Placed(t, o, sure)
      \/ PlaceFailed(t)
      \/ ~PlaceFailed(t) /\ ConfirmRejected(t)
  BY DEF RereadAdopts, RereadFindsNothing, ConfirmResting, ConfirmUnknown
<1> QED BY <1>1, <1>2, <1>3, <1>4

LEMMA NextKeepsRaises == IInv /\ RaisesInv /\ [Next]_vars => RaisesInv'
<1> SUFFICES ASSUME IInv, RaisesInv, [Next]_vars PROVE RaisesInv'
  OBVIOUS
<1>1. CASE Broker \/ Exit
  BY <1>1, BrokerRaises
<1>2. CASE RecentExpires \/ UNCHANGED vars
  <2>1. pass' = pass /\ orders' = orders
    BY <1>2 DEF RecentExpires, broker, vars
  <2> QED BY <2>1, SameOrdersKeep, RestedKeepsRaises DEF RaisesInv
<1>3. CASE Restart
  BY <1>3 DEF Restart, RaisesInv, RaisesOf, Idle, Placing
<1>4. ASSUME NEW t \in Threads, NEW want, Call(t, want) \/ Acquire(t) PROVE RaisesInv'
  <2>1. /\ pass'[t].at \in {"lock", "scan"} /\ \A u \in Threads \ {t} : pass'[u] = pass[u]
        /\ orders' = orders
    BY <1>4, ZenonT(30) DEF Call, Acquire, Idle, IInv, TypeOK, Pass, broker
  <2>2. RaisesOf(t)'
    BY <2>1 DEF RaisesOf, Placing
  <2> QED BY <2>1, <2>2, SameOrdersKeep, PassKeepsRaises
<1>5. ASSUME NEW t \in Threads, Step(t) PROVE RaisesInv'
  BY <1>4, <1>5, ScanRaises, CancelRaises, SendRaises, VerdictRaises DEF Step, Place
<1> QED BY <1>1, <1>2, <1>3, <1>4, <1>5 DEF Next

Attempts == {"replaced", "replace_failed"}

\* Which steps end a pass that cancelled, and which of them a pass reports as a success.
LEMMA EndedBy ==
    ASSUME IInv, [Next]_vars, NEW t \in Threads, Ends(t), pass'[t].action \in Attempts
    PROVE  \/ RereadAdopts(t) \/ ConfirmResting(t) \/ ConfirmUnknown(t)
           \/ /\ pass'[t].action = "replace_failed"
              /\ \/ session' = "pre"
                 \/ /\ pass[t].mode = "restore" /\ PlaceFailed(t)
                    /\ RereadFindsNothing(t) \/ ConfirmRejected(t)
<1>0. pass \in [Threads -> Pass] /\ pass[t] \in Pass /\ pass'[t] # pass[t] /\ pass' # pass
      /\ pass'[t].at = "idle"
  BY DEF Ends, IInv, TypeOK
<1>1. ~Broker /\ ~Exit /\ ~RecentExpires
  BY <1>0 DEF Broker, Exit, Admit, Refuse, Show, Fire, Grow, RaiseStop, Opens, Closes, NextDay,
     ExitSweep, ExitSell, RecentExpires, process
<1>2. ~Restart /\ vars' # vars
  BY <1>0 DEF Restart, Idle, vars, Attempts
<1>3. PICK u \in Threads : Call(u, EntryStop) \/ Call(u, stop) \/ Step(u)
  BY <1>1, <1>2 DEF Next
<1>4. ASSUME NEW ok, NEW a, NEW o, NEW sure, Finish(u, ok, a, o, sure)
      PROVE  u = t /\ a = pass'[t].action /\ a \in Attempts
  BY <1>0, <1>4 DEF Finish, Idle
<1>5. ASSUME NEW mode \in PlaceModes, NEW p, StartPlacing(u, mode, p)
      PROVE  u = t /\ session = "pre" /\ pass'[t].action = "replace_failed"
  <2>1. CASE session = "pre"
    <3>1. PICK a \in {"placed", "placed_unchecked", "replace_failed"} :
            Finish(u, FALSE, a, NoOrder, FALSE)
      BY <1>5, <2>1 DEF StartPlacing, PlaceModes
    <3>2. u = t /\ a = pass'[t].action /\ a \in Attempts
      BY <1>4, <3>1
    <3> QED BY <2>1, <3>2 DEF Attempts
  <2>2. CASE session # "pre"
    <3>1. PICK market \in Markets : pass' = [pass EXCEPT ![u] = Sending(u, mode, p, market)]
      BY <1>5, <2>2 DEF StartPlacing
    <3>2. Sending(u, mode, p, market).at = "send"
      BY <1>0 DEF Sending, Pass
    <3> QED BY <1>0, <3>1, <3>2
  <2> QED BY <2>1, <2>2
<1>6. ~Call(u, EntryStop) /\ ~Call(u, stop) /\ ~Acquire(u)
  <2>1. \A want : ~Call(u, want)
    <3> SUFFICES ASSUME NEW want, Call(u, want) PROVE FALSE
      OBVIOUS
    <3>1. PICK blindOk \in BOOLEAN :
             pass' = [pass EXCEPT ![u] = [Idle EXCEPT !.at = "lock", !.want = want,
                                                      !.qty = held, !.blindOk = blindOk]]
      BY DEF Call
    <3> DEFINE r == [Idle EXCEPT !.at = "lock", !.want = want, !.qty = held,
                                 !.blindOk = blindOk]
    <3>2. r.at = "lock" /\ pass' = [pass EXCEPT ![u] = r]
      BY <3>1 DEF Idle
    <3> HIDE DEF r
    <3> QED BY <1>0, <3>2
  <2>2. ~Acquire(u)
    BY <1>0 DEF Acquire, Pass
  <2> QED BY <2>1, <2>2
<1>7. ~Scan(u)
  <2>1. \A ok, a, o, sure : a \notin Attempts => ~Finish(u, ok, a, o, sure)
    BY <1>4
  <2>2. ~ScanReplace(u)
    <3> SUFFICES ASSUME ScanReplace(u) PROVE FALSE
      OBVIOUS
    <3>1. PICK desired, o : pass' = [pass EXCEPT ![u] = Replacing(u, desired, o)]
      BY DEF ScanReplace
    <3>2. Replacing(u, desired, o).at = "cancel"
      BY <1>0 DEF Replacing, Pass
    <3> QED BY <1>0, <3>1, <3>2
  <2>3. ~ScanAdopt(u) /\ ~ScanClosing(u)
    BY <2>1 DEF ScanAdopt, ScanClosing, Attempts
  <2>4. ASSUME NEW mode \in {"placed", "placed_unchecked"}, NEW p, StartPlacing(u, mode, p)
        PROVE  FALSE
    <3>1. session = "pre"
      BY <1>5, <2>4 DEF PlaceModes
    <3>2. Finish(u, FALSE, mode, NoOrder, FALSE)
      BY <2>4, <3>1 DEF StartPlacing
    <3> QED BY <2>1, <3>2 DEF Attempts
  <2>5. ~ScanFresh(u) /\ ~ScanUnreadable(u)
    BY <2>1, <2>4 DEF ScanFresh, ScanUnreadable, Attempts
  <2> QED BY <2>2, <2>3, <2>5 DEF Scan
<1>8. ~CancelOne(u) /\ ~Send(u) /\ ~SendLostAck(u)
  BY <1>0 DEF CancelOne, Send, SendLostAck, Pass
<1>9. CASE CancelsDone(u)
  <2>1. StartPlacing(u, "replaced", pass[u].want) /\ session' = session
    BY <1>9 DEF CancelsDone, broker
  <2> QED BY <1>5, <2>1 DEF PlaceModes
<1>10. CASE RereadAdopts(u) \/ ConfirmResting(u) \/ ConfirmUnknown(u)
  <2>1. PICK o, sure : Placed(u, o, sure)
    BY <1>10 DEF RereadAdopts, ConfirmResting, ConfirmUnknown
  <2>2. u = t
    BY <1>4, <2>1 DEF Placed
  <2> QED BY <1>10, <2>2
<1>11. CASE RereadFindsNothing(u) \/ ConfirmRejected(u)
  <2>1. session' = session
    BY <1>11 DEF RereadFindsNothing, ConfirmRejected, broker
  <2>2. PlaceFailed(u)
    <3> SUFFICES ASSUME ConfirmRejected(u), ~PlaceFailed(u) PROVE FALSE
      BY <1>11 DEF RereadFindsNothing
    <3>1. PICK b : pass' = [pass EXCEPT ![u] = Retrying(u, b)]
      BY DEF ConfirmRejected
    <3>2. pass[u] \in Pass
      BY <1>0
    <3>3. pass'[u].at = "send" /\ (u # t => pass'[t] = pass[t])
      BY <1>0, <3>1, <3>2 DEF Retrying, Pass
    <3> QED BY <1>0, <3>3
  <2>3. CASE pass[u].mode = "replaced"
    <3>1. StartPlacing(u, "restore", pass[u].best)
      BY <2>2, <2>3 DEF PlaceFailed
    <3> QED BY <1>5, <2>1, <3>1 DEF PlaceModes
  <2>4. CASE pass[u].mode # "replaced"
    <3> DEFINE a == IF pass[u].mode = "restore" THEN "replace_failed" ELSE pass[u].mode
    <3>1. Finish(u, FALSE, a, NoOrder, FALSE)
      BY <2>2, <2>4 DEF PlaceFailed
    <3>2. u = t /\ a = pass'[t].action /\ a \in Attempts
      <4> HIDE DEF a
      <4> QED BY <1>4, <3>1
    <3>3. pass[u].mode = "restore"
      BY <1>0, <2>4, <3>2 DEF Attempts, Pass
    <3> QED BY <1>11, <2>2, <3>2, <3>3
  <2> QED BY <2>3, <2>4
<1> QED BY <1>3, <1>6, <1>7, <1>8, <1>9, <1>10, <1>11 DEF Step, Place

\* Which step ends a pass as "replaced", and with which order.
LEMMA ReplacedBy ==
    ASSUME IInv, RaisesInv, [Next]_vars, NEW t \in Threads, Ends(t),
           pass'[t].action = "replaced"
    PROVE  /\ pass[t].at \in Placing /\ pass[t].mode = "replaced"
           /\ orders' = orders /\ orders[pass'[t].order].trigger = pass[t].price
<1>1. RereadAdopts(t) \/ ConfirmResting(t) \/ ConfirmUnknown(t)
  BY EndedBy DEF Attempts
<1>2. ASSUME NEW o, NEW sure, Placed(t, o, sure)
      PROVE  pass[t].mode = "replaced" /\ o = pass'[t].order
  BY <1>2 DEF Placed, Finish, Idle, IInv, TypeOK
<1>3. CASE RereadAdopts(t)
  <2>1. PICK o \in Adoptable(t) : Placed(t, o, TRUE)
    BY <1>3 DEF RereadAdopts
  <2> QED BY <1>2, <1>3, <2>1 DEF RereadAdopts, Adoptable, Placing, broker
<1>4. CASE ConfirmResting(t) \/ ConfirmUnknown(t)
  <2>1. PICK sure : Placed(t, pass[t].order, sure)
    BY <1>4 DEF ConfirmResting, ConfirmUnknown
  <2>2. pass[t].at = "confirm" /\ orders' = orders
    BY <1>4 DEF ConfirmResting, ConfirmUnknown, broker
  <2> QED BY <1>2, <2>1, <2>2 DEF Placing, RaisesInv, RaisesOf
<1> QED BY <1>1, <1>3, <1>4

\* "The stop only ratchets up", for any number of callers and whatever Kotak and the
\* process do: the stop a pass reports as the replacement is at least the level asked for;
\* it is at least the entry-day stop unless that was at or above the market when the stop
\* was sent; and it is under the highest stop it replaced only when that one covers fewer
\* shares than asked for.
THEOREM StopRatchetsUp == Spec => ReplacementNeverLoosens
<1>1. IInv /\ RaisesInv /\ [Next]_vars
        => [\A t \in Threads :
              (Ends(t) /\ pass'[t].action = "replaced")
                 => LET new == orders[pass'[t].order] IN
                    /\ new.trigger >= pass[t].want
                    /\ new.trigger >= EntryFloor \/ pass[t].breached
                    /\ \/ new.trigger >= pass[t].best
                       \/ \E o \in Ids : orders[o].trigger = pass[t].best
                                           /\ orders[o].qty < pass[t].qty]_vars
  <2> SUFFICES ASSUME IInv, RaisesInv, [Next]_vars, NEW t \in Threads, Ends(t),
                      pass'[t].action = "replaced"
               PROVE  LET new == orders[pass'[t].order] IN
                      /\ new.trigger >= pass[t].want
                      /\ new.trigger >= EntryFloor \/ pass[t].breached
                      /\ \/ new.trigger >= pass[t].best
                         \/ \E o \in Ids : orders[o].trigger = pass[t].best
                                             /\ orders[o].qty < pass[t].qty
    OBVIOUS
  <2>1. /\ pass[t].at \in Placing /\ pass[t].mode = "replaced"
        /\ orders[pass'[t].order].trigger = pass[t].price
    BY ReplacedBy
  <2>2. /\ Justified(t) /\ pass[t].price >= pass[t].want
        /\ pass[t].price >= EntryFloor \/ pass[t].breached
    BY <2>1 DEF RaisesInv, RaisesOf
  <2>3. pass[t].price \in Int /\ pass[t].best \in Int /\ pass[t].want \in Int
    BY DEF IInv, TypeOK, Pass, Triggers
  <2> QED BY <2>1, <2>2, <2>3 DEF Justified
<1> QED BY <1>1, InitRaises, NextKeepsRaises, SpecIInv, PTL DEF Spec, ReplacementNeverLoosens

-----------------------------------------------------------------------------
(* A pass that cancelled leaves a stop at Kotak.                           *)
(* A refused replacement either used up the one fault or left another      *)
(* stop resting, so the restore that follows it meets no further fault.    *)

\* The holding is open for trading and neither a stop nor an exit sold any of it today.
Quiet == session = "open" /\ held > 0 /\ With("filled") \cup With("swept") = {}

Kept == With("resting") # {}

\* A pass that cancelled: the level it wants and the stop it cancelled are in the band.
InBand(t) ==
    /\ pass[t].mode \in {"replaced", "restore"}
    /\ pass[t].want >= bandFloor /\ pass[t].best >= bandFloor

\* The pass knows of no stop that came of its last attempt.
Unplaced(t) ==
    \/ pass[t].at = "reread"
    \/ pass[t].at = "confirm" /\ orders[pass[t].order].status = "rejected"

\* The pass asks for no more shares than are held, and places in the session only.
Fits(t) ==
    /\ (pass[t].at # "idle" /\ held > 0 /\ With("filled") = {}) => pass[t].qty <= held
    /\ pass[t].at = "confirm" => orders[pass[t].order].qty = pass[t].qty
    /\ pass[t].at \in Placing => session # "pre"

\* What the pass cannot place itself is at Kotak already, or the fault has been used up.
Sheltered(t) ==
    (Quiet /\ InBand(t))
       => /\ (pass[t].at \in Placing /\ pass[t].mode = "restore") => (Kept \/ faults >= 1)
          /\ Unplaced(t) => (Kept \/ (faults >= 1 /\ pass[t].mode # "restore"))

SavesInv == \A t \in Threads : Fits(t) /\ Sheltered(t)

LEMMA InitSaves == Init => SavesInv
BY DEF Init, SavesInv, Fits, Sheltered, Unplaced, Idle, Placing

\* A quiet session was quiet before, and its shares are still there.
Calm ==
    /\ OrdersKeep /\ faults <= faults' /\ bandFloor' = bandFloor
    /\ session' = "pre" => session = "pre"
    /\ (held' > 0 /\ With("filled")' = {}) => (held > 0 /\ With("filled") = {} /\ held <= held')
    /\ Quiet' => (Quiet \/ session = "pre")

\* Thread t loses neither the stop it relies on nor, without a fault, its own.
Spared(t) ==
    (Quiet' /\ InBand(t))
       => /\ Kept => Kept'
          /\ (pass[t].at = "confirm" /\ Unplaced(t)')
                => (Unplaced(t) \/ Kept' \/ (faults = 0 /\ faults' = 1))

LEMMA RestedKeepsSaves ==
    ASSUME IInv, IInv', NEW t \in Threads, Fits(t), Sheltered(t), Calm, pass'[t] = pass[t],
           (pass[t].at \in Placing /\ session # "pre") => Spared(t)
    PROVE  Fits(t)' /\ Sheltered(t)'
<1>0. /\ faults \in Nat /\ faults' \in Nat /\ held \in Int /\ held' \in Int
      /\ pass[t].qty \in Int
      /\ pass[t].at = "confirm" => pass[t].order \in Ids
  <2>1. pass[t] \in Pass /\ faults \in Nat /\ faults' \in Nat /\ held \in Int /\ held' \in Int
    BY DEF IInv, TypeOK
  <2>2. pass[t].qty \in Int
    BY <2>1, NumbersAssumption DEF Pass
  <2>3. pass[t].at = "confirm" => pass[t].order \in Ids
    BY DEF IInv, OrdersKnown
  <2> QED BY <2>1, <2>2, <2>3
<1>1. Fits(t)'
  BY <1>0 DEF Fits, Calm, OrdersKeep
<1>2. Sheltered(t)'
  <2> SUFFICES ASSUME Quiet', InBand(t)', pass[t].at \in Placing
               PROVE  /\ pass[t].mode = "restore" => (Kept' \/ faults' >= 1)
                      /\ Unplaced(t)' => (Kept' \/ (faults' >= 1 /\ pass[t].mode # "restore"))
    BY DEF Sheltered, Unplaced, Placing
  <2>1. Spared(t) /\ Quiet /\ InBand(t)
    BY DEF Fits, Calm, InBand
  <2>2. pass[t].mode = "restore" => (Kept' \/ faults >= 1)
    BY <2>1 DEF Sheltered, Spared
  <2>3. Unplaced(t)' => (Unplaced(t) \/ Kept' \/ (faults = 0 /\ faults' = 1))
    BY <2>1 DEF Spared, Unplaced
  <2>4. Unplaced(t) => (Kept' \/ (faults >= 1 /\ pass[t].mode # "restore"))
    BY <2>1 DEF Sheltered, Spared
  <2> QED BY <1>0, <2>2, <2>3, <2>4 DEF Calm
<1> QED BY <1>1, <1>2

\* One thread moves.
LEMMA PassKeepsSaves ==
    ASSUME IInv, IInv', SavesInv, NEW t \in Threads, Calm,
           \A u \in Threads \ {t} :
              pass'[u] = pass[u] /\ (pass[u].at \in Placing => Spared(u)),
           Fits(t)', Sheltered(t)'
    PROVE  SavesInv'
BY RestedKeepsSaves DEF SavesInv

\* The step changes nothing at Kotak.
LEMMA SameBook ==
    ASSUME IInv, UNCHANGED <<session, bandFloor, held, orders>>, faults <= faults'
    PROVE  /\ Calm /\ Kept' = Kept /\ Quiet' = Quiet
           /\ \A t \in Threads : pass'[t] = pass[t] => Spared(t)
<1>1. (\A s : With(s)' = With(s)) /\ held <= held'
  BY DEF With, Ids, IInv, TypeOK
<1>2. Kept' = Kept /\ Quiet' = Quiet
  BY <1>1 DEF Kept, Quiet
<1>3. Calm
  BY <1>1, <1>2, SameOrdersKeep DEF Calm
<1>4. ASSUME NEW t \in Threads, pass'[t] = pass[t] PROVE Spared(t)
  BY <1>1, <1>2, <1>4 DEF Spared, Unplaced
<1> QED BY <1>2, <1>3, <1>4

LEMMA EndSaves ==
    ASSUME IInv, IInv', SavesInv, NEW t \in Threads, \E ok, a, o, sure : Finish(t, ok, a, o, sure),
           UNCHANGED <<session, bandFloor, held, orders>>, faults <= faults'
    PROVE  SavesInv'
<1>1. pass'[t].at = "idle" /\ \A u \in Threads \ {t} : pass'[u] = pass[u]
  BY FinishEnds
<1>2. Fits(t)' /\ Sheltered(t)'
  BY <1>1 DEF Fits, Sheltered, Unplaced, Placing
<1> QED BY <1>1, <1>2, SameBook, PassKeepsSaves

LEMMA StartPlacingSaves ==
    ASSUME IInv, IInv', SavesInv, NEW t \in Threads, NEW mode, NEW p,
           StartPlacing(t, mode, p), pass[t].at # "idle",
           UNCHANGED <<session, bandFloor, held, orders>>, faults <= faults',
           mode = "restore" => /\ pass[t].mode = "replaced"
                               /\ (Quiet /\ InBand(t)) => (Kept \/ faults >= 1)
    PROVE  SavesInv'
<1>1. CASE session = "pre"
  <2>1. PICK a : Finish(t, FALSE, a, NoOrder, FALSE)
    BY <1>1 DEF StartPlacing
  <2> QED BY <2>1, EndSaves
<1>2. CASE session # "pre"
  <2>0. PICK market \in Markets : pass' = [pass EXCEPT ![t] = Sending(t, mode, p, market)]
    BY <1>2 DEF StartPlacing
  <2>1. /\ pass'[t].at = "send" /\ pass'[t].mode = mode /\ pass'[t].qty = pass[t].qty
        /\ pass'[t].want = pass[t].want /\ pass'[t].best = pass[t].best
        /\ \A u \in Threads \ {t} : pass'[u] = pass[u]
    <3>1. pass \in [Threads -> Pass] /\ pass[t] \in Pass
      BY DEF IInv, TypeOK
    <3> DEFINE new == Sending(t, mode, p, market)
    <3>2. /\ new.at = "send" /\ new.mode = mode /\ new.qty = pass[t].qty
          /\ new.want = pass[t].want /\ new.best = pass[t].best
      BY <3>1 DEF Sending, Pass
    <3> HIDE DEF new
    <3> QED BY <2>0, <3>1, <3>2 DEF new
  <2>2. Calm /\ Kept' = Kept /\ Quiet' = Quiet /\ With("filled")' = With("filled")
    BY SameBook DEF With, Ids
  <2>3. Fits(t)
    BY DEF SavesInv
  <2>4. Fits(t)'
    BY <1>2, <2>1, <2>2, <2>3 DEF Fits
  <2>5. faults \in Nat /\ faults' \in Nat
    BY DEF IInv, TypeOK
  <2>7. (InBand(t)' /\ mode = "restore") => InBand(t)
    BY <2>1 DEF InBand
  <2>6. Sheltered(t)'
    BY <2>1, <2>2, <2>5, <2>7 DEF Sheltered, Unplaced
  <2> QED BY <2>1, <2>4, <2>6, SameBook, PassKeepsSaves
<1> QED BY <1>1, <1>2

\* Every pass stays where it is.
LEMMA EnvironmentKeepsSaves ==
    ASSUME IInv, IInv', SavesInv, pass' = pass, Calm,
           \A t \in Threads : (pass[t].at \in Placing /\ session # "pre" /\ Fits(t)) => Spared(t)
    PROVE  SavesInv'
BY RestedKeepsSaves DEF SavesInv

\* Kotak decides on an order: against the account it can only be another resting stop.
LEMMA AdmitSaves ==
    ASSUME IInv, IInv', RaisesInv, SavesInv, NEW o \in Ids, Admit(o) PROVE SavesInv'
<1>0. orders \in Seq(Order) /\ Len(orders) \in Nat /\ held \in Int /\ orders[o] \in Order
  BY DEF IInv, TypeOK, Ids
<1>1. /\ pass' = pass /\ OrdersKeep
      /\ UNCHANGED <<session, bandFloor, held, faults>>
  BY BrokerKeepsOrders DEF Admit, Broker, NextDay, process, IInv, TypeOK
<1>2. /\ orders[o].status = "sent" /\ orders'[o].why = Verdict(o)
      /\ orders'[o].status = IF Verdict(o) = "none" THEN "resting" ELSE "rejected"
      /\ orders'[o].trigger = orders[o].trigger
      /\ \A p \in Ids \ {o} : orders'[p] = orders[p]
      /\ Ids' = Ids
  BY <1>0 DEF Admit, Ids, Order
<1>3. With("filled")' = With("filled") /\ With("swept")' = With("swept")
      /\ With("resting") \subseteq With("resting")'
  BY <1>2 DEF With
<1>4. Quiet' = Quiet /\ (Kept => Kept') /\ Calm
  BY <1>0, <1>1, <1>3 DEF Quiet, Kept, Calm, IInv, TypeOK
<1>5. ASSUME NEW t \in Threads, Quiet', InBand(t), pass[t].at = "confirm", Unplaced(t)',
             ~Unplaced(t)
      PROVE  Kept'
  <2>1. pass[t].order \in Ids /\ orders'[pass[t].order].status = "rejected"
    BY <1>1, <1>5 DEF Unplaced, IInv, OrdersKnown
  <2>2. pass[t].order = o
    BY <1>1, <1>2, <1>5, <2>1 DEF Unplaced
  <2>3. Quiet /\ orders[o].qty = pass[t].qty /\ pass[t].qty <= held
    BY <1>4, <1>5, <2>2 DEF SavesInv, Fits, Quiet
  <2>9. ~(orders[o].trigger < bandFloor)
    <3>1. orders[o].trigger >= pass[t].want \/ orders[o].trigger >= pass[t].best
      BY <1>5, <2>2 DEF RaisesInv, RaisesOf, InBand, Placing
    <3>4. pass[t].want \in 1..MaxTrigger /\ pass[t].best \in 1..MaxTrigger
      BY DEF IInv, TypeOK, Pass, Triggers
    <3>2. pass[t].want \in Int /\ pass[t].best \in Int
      BY <3>4
    <3>3. bandFloor \in Int /\ orders[o].trigger \in Int
      BY <1>0, NumbersAssumption DEF IInv, TypeOK, Order, Triggers
    <3> QED BY <1>5, <3>1, <3>2, <3>3 DEF InBand
  <2>4. Verdict(o) # "none" /\ Verdict(o) # "band" /\ Verdict(o) # "session"
    BY <1>1, <1>2, <2>1, <2>2, <2>3, <2>9 DEF Verdict, Quiet
  <2>5. orders[o].qty \in Int /\ orders[o].qty <= held
    BY <1>0, <2>3 DEF Order
  <2>6. Reserved + orders[o].qty > held
    BY <1>0, <2>4, <2>5 DEF Verdict
  <2>7. Reserved # 0
    BY <1>0, <2>5, <2>6
  <2>8. Kept
    BY <2>7, NoSum DEF Reserved, Kept
  <2> QED BY <1>4, <2>8
<1>6. \A t \in Threads : Spared(t)
  BY <1>4, <1>5 DEF Spared
<1> QED BY <1>1, <1>4, <1>6, EnvironmentKeepsSaves

\* A refusal for any other reason is the one fault.
LEMMA RefuseSaves ==
    ASSUME MaxFaults <= 1, IInv, IInv', SavesInv, NEW o \in Ids, Refuse(o) PROVE SavesInv'
<1>0. orders \in Seq(Order) /\ Len(orders) \in Nat /\ orders[o] \in Order
  BY DEF IInv, TypeOK, Ids
<1>1. /\ pass' = pass /\ OrdersKeep /\ UNCHANGED <<session, bandFloor, held>>
      /\ faults = 0 /\ faults' = 1
  <2>1. faults < MaxFaults /\ faults' = faults + 1 /\ faults \in Nat
    BY DEF Refuse, Fault, IInv, TypeOK
  <2>2. faults = 0
    BY <2>1, NumbersAssumption
  <2>3. Broker /\ UNCHANGED <<session, bandFloor, held, pass>>
    BY DEF Refuse, Broker, process
  <2>4. ~NextDay
    BY <2>1 DEF NextDay
  <2> QED BY <2>1, <2>2, <2>3, <2>4, BrokerKeepsOrders
<1>2. /\ orders[o].status = "sent" /\ orders'[o].status = "rejected"
      /\ \A p \in Ids \ {o} : orders'[p] = orders[p]
      /\ Ids' = Ids
  BY <1>0 DEF Refuse, Ids, Order
<1>3. With("filled")' = With("filled") /\ With("swept")' = With("swept")
      /\ With("resting")' = With("resting")
  BY <1>2 DEF With
<1>4. Quiet' = Quiet /\ (Kept => Kept') /\ Calm
  BY <1>1, <1>3 DEF Quiet, Kept, Calm, IInv, TypeOK
<1>5. \A t \in Threads : Spared(t)
  BY <1>1, <1>4 DEF Spared
<1> QED BY <1>1, <1>4, <1>5, EnvironmentKeepsSaves

\* An order shows up or fires.
LEMMA ShowFireSaves ==
    ASSUME IInv, IInv', SavesInv, NEW o \in Ids, Show(o) \/ Fire(o) PROVE SavesInv'
<1>0. orders \in Seq(Order) /\ Len(orders) \in Nat /\ orders[o] \in Order
  BY DEF IInv, TypeOK, Ids
<1>1. pass' = pass /\ OrdersKeep /\ UNCHANGED <<session, bandFloor, faults>>
  BY BrokerKeepsOrders DEF Show, Fire, Broker, NextDay, process, IInv, TypeOK
<1>2. CASE Show(o)
  <2>1. /\ held' = held /\ Ids' = Ids
        /\ \A p \in Ids : /\ orders'[p].status = orders[p].status
    BY <1>0, <1>2 DEF Show, Ids, Order
  <2>2. \A s : With(s)' = With(s)
    BY <2>1 DEF With
  <2>3. Quiet' = Quiet /\ Kept' = Kept /\ Calm
    BY <1>1, <2>1, <2>2 DEF Quiet, Kept, Calm, IInv, TypeOK
  <2>4. ASSUME NEW t \in Threads, pass[t].at = "confirm", Unplaced(t)' PROVE Unplaced(t)
    <3>1. pass[t].order \in Ids
      BY <2>4 DEF IInv, OrdersKnown
    <3> QED BY <1>1, <2>1, <2>4, <3>1 DEF Unplaced
  <2>5. \A t \in Threads : Spared(t)
    BY <2>3, <2>4 DEF Spared
  <2> QED BY <1>1, <2>3, <2>5, EnvironmentKeepsSaves
<1>3. CASE Fire(o)
  <2>1. Ids' = Ids /\ orders'[o].status = "filled"
    BY <1>0, <1>3 DEF Fire, SetStatus, Ids, Order
  <2>2. With("filled")' # {}
    BY <2>1 DEF With
  <2>3. ~Quiet' /\ Calm
    BY <1>1, <2>2 DEF Quiet, Calm, IInv, TypeOK
  <2>4. \A t \in Threads : Spared(t)
    BY <2>3 DEF Spared
  <2> QED BY <1>1, <2>3, <2>4, EnvironmentKeepsSaves
<1> QED BY <1>2, <1>3

\* The session, the holding and the exit outside the lock.
LEMMA SessionSaves ==
    ASSUME IInv, IInv', SavesInv,
           Grow \/ RaiseStop \/ Opens \/ Closes \/ NextDay \/ ExitSweep \/ ExitSell
    PROVE  SavesInv'
<1>0. /\ orders \in Seq(Order) /\ Len(orders) \in Nat /\ held \in Int /\ faults \in Nat
      /\ orders' \in Seq(Order) /\ faults' \in Nat /\ held' \in Int
      /\ \A p \in Ids : orders[p] \in Order
  BY DEF IInv, TypeOK, Ids
<1>1. CASE NextDay
  <2>1. \A t \in Threads : pass'[t].at = "idle"
    BY <1>1 DEF NextDay
  <2> QED BY <2>1 DEF SavesInv, Fits, Sheltered, Unplaced, Placing
<1>2. CASE ~NextDay
  <2>1. pass' = pass /\ OrdersKeep /\ bandFloor' = bandFloor /\ faults <= faults'
    <3>1. pass' = pass /\ OrdersKeep
      BY <1>2, BrokerKeepsOrders DEF Broker, Exit
    <3>2. bandFloor' = bandFloor /\ faults' \in {faults, faults + 1}
      BY <1>2 DEF Grow, RaiseStop, Opens, Closes, ExitSweep, ExitSell, broker, Fault
    <3> QED BY <1>0, <3>1, <3>2
  <2>2. CASE Grow \/ RaiseStop \/ Opens \/ ExitSell
    <3>1. /\ orders' = orders /\ held' \in {0, held, held + 1}
          /\ session' = "pre" => session = "pre"
          /\ session' = session \/ session = "pre"
          /\ held' > 0 => held > 0
      BY <2>2, <1>0 DEF Grow, RaiseStop, Opens, ExitSell, broker
    <3>2. \A s : With(s)' = With(s)
      BY <3>1 DEF With, Ids
    <3>3. Calm /\ Kept' = Kept
      BY <1>0, <2>1, <3>1, <3>2 DEF Calm, Quiet, Kept
    <3>4. \A t \in Threads : Unplaced(t)' => Unplaced(t)
      BY <2>1, <3>1 DEF Unplaced
    <3>5. \A t \in Threads : Spared(t)
      BY <3>3, <3>4 DEF Spared
    <3> QED BY <2>1, <3>3, <3>5, EnvironmentKeepsSaves
  <2>3. CASE Closes
    <3>1. /\ session' = "closing" /\ held' = held
          /\ \A p \in Ids : orders[p].status = "filled" => orders'[p].status = "filled"
      BY <1>0, <2>3 DEF Closes, Order
    <3>2. With("filled")' = {} => With("filled") = {}
      BY <2>1, <3>1 DEF With, OrdersKeep
    <3>3. ~Quiet' /\ Calm
      BY <1>0, <2>1, <3>1, <3>2 DEF Calm, Quiet
    <3>4. \A t \in Threads : Spared(t)
      BY <3>3 DEF Spared
    <3> QED BY <2>1, <3>3, <3>4, EnvironmentKeepsSaves
  <2>4. CASE ExitSweep
    <3>1. /\ session' = session /\ held' = held
          /\ orders' = [p \in Ids |-> orders'[p]]
          /\ \A p \in Ids : \/ orders'[p] = orders[p]
                            \/ orders'[p].status = "swept" /\ orders[p].status \notin Terminal
      BY <1>0, <2>4 DEF ExitSweep, Order
    <3>2. Ids \subseteq Ids' /\ "filled" \in Terminal
      BY <2>1 DEF OrdersKeep, Terminal, Statuses
    <3>3. With("filled")' = {} => With("filled") = {}
      BY <3>1, <3>2 DEF With
    <3>4. ASSUME Quiet' PROVE orders' = orders
      <4>1. \A p \in Ids : orders'[p].status # "swept"
        BY <3>2, <3>4 DEF Quiet, With
      <4>2. \A p \in Ids : orders'[p] = orders[p]
        BY <3>1, <4>1
      <4> QED BY <1>0, <3>1, <4>2 DEF Ids
    <3>5. Quiet' => \A s : With(s)' = With(s)
      BY <3>4 DEF With, Ids
    <3>6. Calm
      BY <1>0, <2>1, <3>1, <3>3, <3>5 DEF Calm, Quiet
    <3>7. \A t \in Threads : Spared(t)
      BY <2>1, <3>4, <3>5 DEF Spared, Kept, Unplaced
    <3> QED BY <2>1, <3>6, <3>7, EnvironmentKeepsSaves
  <2> QED BY <1>2, <2>2, <2>3, <2>4
<1> QED BY <1>1, <1>2

\* The passes' own steps: entering, scanning and cancelling.
LEMMA EntrySaves ==
    ASSUME IInv, IInv', SavesInv, NEW t \in Threads, NEW want,
           Call(t, want) \/ Acquire(t) \/ ScanReplace(t)
    PROVE  SavesInv'
<1>0. pass \in [Threads -> Pass] /\ pass[t] \in Pass /\ held \in Int /\ faults \in Nat
  BY DEF IInv, TypeOK
<1>1. UNCHANGED <<session, bandFloor, held, orders, faults>> /\ faults <= faults'
  <2>1. UNCHANGED <<session, bandFloor, held, orders, faults>>
    <3>1. CASE Call(t, want)
      BY <3>1, Zenon DEF Call, broker
    <3>2. CASE Acquire(t) \/ ScanReplace(t)
      BY <3>2 DEF Acquire, ScanReplace, broker
    <3> QED BY <3>1, <3>2
  <2> QED BY <1>0, <2>1
<1>2. /\ pass'[t].at \in {"lock", "scan", "cancel"}
      /\ pass'[t].qty = held \/ (pass[t].at # "idle" /\ pass'[t].qty = pass[t].qty)
      /\ \A u \in Threads \ {t} : pass'[u] = pass[u]
  <2>1. CASE Call(t, want)
    <3>1. PICK blindOk \in BOOLEAN :
            pass' = [pass EXCEPT ![t] = [Idle EXCEPT !.at = "lock", !.want = want,
                                                     !.qty = held, !.blindOk = blindOk]]
      BY <2>1, Zenon DEF Call
    <3> DEFINE new == [Idle EXCEPT !.at = "lock", !.want = want, !.qty = held,
                                   !.blindOk = blindOk]
    <3>2. new.at = "lock" /\ new.qty = held /\ pass' = [pass EXCEPT ![t] = new]
      BY <3>1, Zenon DEF Idle
    <3> HIDE DEF new
    <3> QED BY <1>0, <3>2
  <2>2. CASE Acquire(t)
    BY <1>0, <2>2 DEF Acquire, Pass
  <2>3. CASE ScanReplace(t)
    <3>1. PICK desired, o : pass' = [pass EXCEPT ![t] = Replacing(t, desired, o)]
      BY <2>3 DEF ScanReplace
    <3>2. pass[t].at # "idle"
      BY <2>3 DEF ScanReplace
    <3> QED BY <1>0, <3>1, <3>2 DEF Replacing, Pass
  <2> QED BY <2>1, <2>2, <2>3
<1>3. With("filled")' = With("filled")
  BY <1>1 DEF With, Ids
<1>4. Fits(t)'
  BY <1>0, <1>1, <1>2, <1>3 DEF Fits, Placing, SavesInv
<1>5. Sheltered(t)'
  BY <1>2 DEF Sheltered, Unplaced, Placing
<1> QED BY <1>1, <1>2, <1>4, <1>5, SameBook, PassKeepsSaves

LEMMA ScanSaves == ASSUME IInv, IInv', SavesInv, NEW t \in Threads, Scan(t) PROVE SavesInv'
<1>0. /\ UNCHANGED <<session, bandFloor, held, orders>> /\ pass[t].at = "scan"
      /\ faults <= faults'
  <2>1. /\ UNCHANGED <<session, bandFloor, held, orders>> /\ pass[t].at = "scan"
        /\ faults' \in {faults, faults + 1}
    BY DEF Scan, ScanUnreadable, ScanAdopt, ScanClosing, ScanReplace, ScanFresh, broker, Fault
  <2> QED BY <2>1 DEF IInv, TypeOK
<1>1. CASE ScanReplace(t)
  BY <1>1, EntrySaves
<1>2. CASE ~ScanReplace(t)
  <2>1. \/ \E ok, a, o : Finish(t, ok, a, o, FALSE)
        \/ \E mode \in {"placed", "placed_unchecked"} : \E p : StartPlacing(t, mode, p)
    <3>1. CASE ScanUnreadable(t)
      BY <3>1 DEF ScanUnreadable
    <3>2. CASE ScanAdopt(t) \/ ScanClosing(t)
      BY <3>2 DEF ScanAdopt, ScanClosing
    <3>3. CASE ScanFresh(t)
      BY <3>3 DEF ScanFresh
    <3> QED BY <1>2, <3>1, <3>2, <3>3 DEF Scan
  <2> QED BY <1>0, <2>1, EndSaves, StartPlacingSaves
<1> QED BY <1>1, <1>2

LEMMA CancelSaves ==
    ASSUME IInv, IInv', SavesInv, NEW t \in Threads, CancelOne(t) \/ CancelsDone(t)
    PROVE  SavesInv'
<1>1. CASE CancelOne(t)
  <2>1. /\ UNCHANGED <<session, bandFloor, held>> /\ pass[t].at = "cancel"
        /\ faults <= faults'
    <3>1. /\ UNCHANGED <<session, bandFloor, held>> /\ pass[t].at = "cancel"
          /\ faults' \in {faults, faults + 1}
      BY <1>1 DEF CancelOne, Fault
    <3> QED BY <3>1 DEF IInv, TypeOK
  <2>2. "filled" \in Terminal /\ "swept" \in Terminal
    BY DEF Terminal, Statuses
  <2>3. \A s \in {"filled", "swept"} : With(s) \subseteq With(s)'
    BY <1>1, <2>2, CancelOneGoes DEF With, OrdersKeep
  <2>4. Calm
    BY <1>1, <2>1, <2>3, CancelOneGoes DEF Calm, Quiet, IInv, TypeOK
  <2>5. \A u \in Threads \ {t} : pass[u].at \notin Placing
    BY <2>1 DEF IInv, OneScanAtATime, Placing
  <2>6. Fits(t)'
    BY <1>1, <2>1, <2>4, CancelOneGoes DEF Fits, Calm, SavesInv, Placing, IInv, TypeOK
  <2>7. Sheltered(t)'
    BY <1>1, CancelOneGoes DEF Sheltered, Unplaced, Placing
  <2> QED BY <1>1, <2>4, <2>5, <2>6, <2>7, CancelOneGoes, PassKeepsSaves
<1>2. CASE CancelsDone(t)
  <2>1. /\ StartPlacing(t, "replaced", pass[t].want) /\ pass[t].at = "cancel"
        /\ UNCHANGED <<session, bandFloor, held, orders, faults>>
    BY <1>2 DEF CancelsDone, broker
  <2>2. faults <= faults'
    BY <2>1 DEF IInv, TypeOK
  <2> QED BY <2>1, <2>2, StartPlacingSaves
<1> QED BY <1>1, <1>2

\* Only the fault leaves an answer open, so a restore that has none began with a stop.
LEMMA SendSaves ==
    ASSUME MaxFaults <= 1, IInv, IInv', SavesInv, NEW t \in Threads, Send(t) \/ SendLostAck(t)
    PROVE  SavesInv'
<1>0. /\ orders \in Seq(Order) /\ Len(orders) \in Nat /\ NewOrder(t).status = "sent"
      /\ faults \in Nat /\ held \in Int
  BY NewOrderAsks DEF IInv, TypeOK
<1>1. UNCHANGED <<session, bandFloor, held>> /\ faults <= faults'
  <2>1. UNCHANGED <<session, bandFloor, held>> /\ faults' \in {faults, faults + 1}
    BY DEF Send, SendLostAck, Fault
  <2> QED BY <1>0, <2>1
<1>2. /\ Ids \subseteq Ids' /\ \A p \in Ids : orders'[p] = orders[p]
      /\ \A p \in Ids' : p \in Ids \/ orders'[p].status = "sent"
  BY <1>0, SendGoes DEF Ids
<1>3. With("filled")' = With("filled") /\ With("swept")' = With("swept")
      /\ With("resting")' = With("resting")
  BY <1>2 DEF With
<1>4. Calm /\ Quiet' = Quiet /\ Kept' = Kept
  BY <1>0, <1>1, <1>3, SendGoes DEF Calm, Quiet, Kept
<1>5. ASSUME NEW u \in Threads \ {t} PROVE Spared(u)
  <2>1. pass[u].at = "confirm" => pass[u].order \in Ids
    BY DEF IInv, OrdersKnown
  <2> QED BY <1>1, <1>2, <1>4, <2>1, SendGoes DEF Spared, Unplaced
<1>6. Fits(t)'
  <2>1. Fits(t) /\ pass[t].at = "send"
    BY SendGoes DEF SavesInv
  <2>2. pass'[t].at = "confirm" => orders'[pass'[t].order].qty = pass'[t].qty
    BY SendGoes, NewOrderAsks
  <2> QED BY <1>1, <1>3, <2>1, <2>2, SendGoes DEF Fits, Placing
<1>7. Sheltered(t)'
  <2> SUFFICES ASSUME Quiet', InBand(t)'
               PROVE  /\ pass[t].mode = "restore" => (Kept \/ faults' >= 1)
                      /\ Unplaced(t)' => (Kept \/ (faults' >= 1 /\ pass[t].mode # "restore"))
    BY <1>4, SendGoes DEF Sheltered
  <2>0. InBand(t)
    BY <1>4, SendGoes DEF InBand, Calm
  <2>1. pass[t].mode = "restore" => (Kept \/ faults >= 1)
    BY <1>4, <2>0, SendGoes DEF SavesInv, Sheltered, Placing
  <2>2. Unplaced(t)' => pass'[t].at = "reread"
    <3> SUFFICES ASSUME pass'[t].at = "confirm" PROVE ~Unplaced(t)'
      BY DEF Unplaced
    <3>1. orders'[pass'[t].order].status = "sent"
      BY SendGoes, NewOrderAsks
    <3> QED BY <3>1 DEF Unplaced
  <2>3. pass'[t].at = "reread" => (faults = 0 /\ faults' = 1)
    <3>1. Fault("lost_ack") => (faults < MaxFaults /\ faults' = faults + 1)
      BY DEF Fault
    <3> QED BY <1>0, <3>1, SendGoes, NumbersAssumption
  <2> QED BY <1>0, <1>1, <2>1, <2>2, <2>3 DEF IInv, TypeOK
<1> QED BY <1>4, <1>5, <1>6, <1>7, SendGoes, PassKeepsSaves

\* A pass that cannot try a further band knows of no stop that came of its attempt.
LEMMA FailedIsUnplaced ==
    ASSUME NEW t \in Threads, PlaceFailed(t), RereadFindsNothing(t) \/ ConfirmRejected(t)
    PROVE  Unplaced(t) /\ pass[t].at \in Placing
BY DEF RereadFindsNothing, ConfirmRejected, Unplaced, Placing

LEMMA VerdictSaves ==
    ASSUME IInv, IInv', RaisesInv, SavesInv, NEW t \in Threads,
           \/ RereadAdopts(t) \/ RereadFindsNothing(t)
           \/ ConfirmResting(t) \/ ConfirmUnknown(t) \/ ConfirmRejected(t)
    PROVE  SavesInv'
<1>0. /\ UNCHANGED <<session, bandFloor, held, orders>> /\ faults <= faults'
      /\ pass[t] \in Pass /\ pass[t].at \in Placing
  <2>1. /\ UNCHANGED <<session, bandFloor, held, orders>> /\ faults' \in {faults, faults + 1}
        /\ pass[t].at \in Placing
    BY DEF RereadAdopts, RereadFindsNothing, ConfirmResting, ConfirmUnknown, ConfirmRejected,
       broker, Fault, Placing
  <2> QED BY <2>1 DEF IInv, TypeOK
<1>1. CASE \E o, sure : Placed(t, o, sure)
  <2>1. \E ok, a, o, sure : Finish(t, ok, a, o, sure)
    BY <1>1 DEF Placed
  <2> QED BY <1>0, <2>1, EndSaves
<1>2. CASE PlaceFailed(t) /\ Unplaced(t)
  <2>1. CASE pass[t].mode = "replaced"
    <3>1. StartPlacing(t, "restore", pass[t].best)
      BY <1>2, <2>1 DEF PlaceFailed
    <3>2. (Quiet /\ InBand(t)) => (Kept \/ faults >= 1)
      BY <1>2 DEF SavesInv, Sheltered
    <3> QED BY <1>0, <2>1, <3>1, <3>2, StartPlacingSaves DEF Placing
  <2>2. CASE pass[t].mode # "replaced"
    <3>1. \E a : Finish(t, FALSE, a, NoOrder, FALSE)
      BY <1>2, <2>2 DEF PlaceFailed
    <3> QED BY <1>0, <3>1, EndSaves
  <2> QED BY <2>1, <2>2
<1>3. CASE ConfirmRejected(t) /\ ~PlaceFailed(t)
  <2>1. PICK market \in Markets : \E b \in NextBands(t, market) :
          pass' = [pass EXCEPT ![t] = Retrying(t, b)]
    BY <1>3 DEF ConfirmRejected
  <2>2. /\ pass'[t].at = "send" /\ pass'[t].mode = pass[t].mode /\ pass'[t].qty = pass[t].qty
        /\ pass'[t].want = pass[t].want /\ pass'[t].best = pass[t].best
        /\ \A u \in Threads \ {t} : pass'[u] = pass[u]
    <3>1. PICK b : pass' = [pass EXCEPT ![t] = Retrying(t, b)]
      BY <2>1
    <3> QED BY <1>0, <3>1 DEF Retrying, IInv, TypeOK, Pass
  <2>3. Calm /\ Kept' = Kept /\ Quiet' = Quiet /\ With("filled")' = With("filled")
    BY <1>0, SameBook DEF With, Ids
  <2>4. Fits(t)'
    BY <1>0, <2>2, <2>3 DEF SavesInv, Fits, Placing
  <2>6. InBand(t)' => InBand(t)
    BY <1>0, <2>2 DEF InBand
  <2>5. Sheltered(t)'
    BY <1>0, <2>2, <2>3, <2>6 DEF SavesInv, Sheltered, Unplaced, Placing, IInv, TypeOK
  <2> QED BY <1>0, <2>2, <2>4, <2>5, SameBook, PassKeepsSaves
<1>4. \/ \E o, sure : Placed(t, o, sure)
      \/ PlaceFailed(t) /\ Unplaced(t)
      \/ ConfirmRejected(t) /\ ~PlaceFailed(t)
  <2>1. CASE RereadAdopts(t) \/ ConfirmResting(t) \/ ConfirmUnknown(t)
    BY <2>1 DEF RereadAdopts, ConfirmResting, ConfirmUnknown
  <2>2. CASE RereadFindsNothing(t)
    BY <2>2, FailedIsUnplaced DEF RereadFindsNothing
  <2>3. CASE ConfirmRejected(t)
    BY <2>3, FailedIsUnplaced
  <2> QED BY <2>1, <2>2, <2>3
<1> QED BY <1>1, <1>2, <1>3, <1>4

LEMMA NextKeepsSaves ==
    ASSUME MaxFaults <= 1 PROVE IInv /\ RaisesInv /\ SavesInv /\ [Next]_vars => SavesInv'
<1> SUFFICES ASSUME IInv, RaisesInv, SavesInv, [Next]_vars PROVE SavesInv'
  OBVIOUS
<1>0. IInv' /\ faults \in Nat
  BY NextKeepsIInv DEF IInv, TypeOK
<1>1. CASE Broker \/ Exit
  BY <1>0, <1>1, AdmitSaves, RefuseSaves, ShowFireSaves, SessionSaves DEF Broker, Exit
<1>2. CASE RecentExpires \/ UNCHANGED vars
  <2>1. /\ UNCHANGED <<session, bandFloor, held, orders, pass>>
        /\ faults' \in {faults, faults + 1}
    BY <1>2 DEF RecentExpires, broker, vars, Fault
  <2>2. faults <= faults'
    BY <1>0, <2>1
  <2>3. Calm /\ \A t \in Threads : Spared(t)
    BY <2>1, <2>2, SameBook
  <2> QED BY <1>0, <2>1, <2>3, EnvironmentKeepsSaves
<1>3. CASE Restart
  BY <1>3 DEF Restart, SavesInv, Fits, Sheltered, Unplaced, Idle, Placing
<1>4. ASSUME NEW t \in Threads, NEW want, Call(t, want) PROVE SavesInv'
  BY <1>0, <1>4, EntrySaves
<1>5. ASSUME NEW t \in Threads, Step(t) PROVE SavesInv'
  <2>1. CASE Acquire(t)
    BY <1>0, <2>1, EntrySaves
  <2> QED BY <1>0, <1>5, <2>1, ScanSaves, CancelSaves, SendSaves, VerdictSaves DEF Step, Place
<1> QED BY <1>1, <1>2, <1>3, <1>4, <1>5 DEF Next

\* "Cancel, then place, and restore when the new stop is refused" is safe against one fault
\* of any kind, whatever the number of callers, prices, bands and orders: a pass that
\* cancelled, whose level and whose cancelled stop lie inside the price band and which has a
\* verdict on what it placed leaves a live stop at Kotak while the session is open, the
\* shares are held and nothing has sold any of them that day.
THEOREM FailedReplaceRestores == ASSUME MaxFaults <= 1 PROVE Spec => SingleFaultKeepsAStop
<1>1. IInv /\ RaisesInv /\ SavesInv /\ [Next]_vars
        => [\A t \in Threads :
              (/\ Ends(t) /\ pass'[t].action \in {"replaced", "replace_failed"}
               /\ pass'[t].sure \/ pass'[t].order = NoOrder
               /\ pass[t].want >= bandFloor /\ pass[t].best >= bandFloor
               /\ session' = "open" /\ held > 0 /\ With("filled") \cup With("swept") = {})
                 => Live' # {}]_vars
  <2> SUFFICES ASSUME IInv, RaisesInv, SavesInv, [Next]_vars, NEW t \in Threads, Ends(t),
                      pass'[t].action \in Attempts,
                      pass'[t].sure \/ pass'[t].order = NoOrder, session' = "open",
                      pass[t].want >= bandFloor, pass[t].best >= bandFloor,
                      held > 0, With("filled") \cup With("swept") = {}
               PROVE  Live' # {}
    BY DEF Attempts
  <2>1. With("resting") \subseteq Live
    BY DEF With, Live, Terminal, Statuses
  <2>2. CASE RereadAdopts(t)
    <3>1. Live # {} /\ orders' = orders
      BY <2>2 DEF RereadAdopts, Adoptable, broker
    <3> QED BY <3>1 DEF Live, Ids
  <2>3. CASE ConfirmResting(t)
    <3>1. pass[t].order \in Ids /\ orders[pass[t].order].status \in {"resting", "filled"}
          /\ orders' = orders
      BY <2>3 DEF ConfirmResting, IInv, OrdersKnown, broker
    <3>2. pass[t].order \in With("resting")
      BY <3>1 DEF With
    <3> QED BY <2>1, <3>1, <3>2 DEF Live, Ids
  <2>4. CASE ConfirmUnknown(t)
    <3>1. pass[t].order \in Ids /\ Placed(t, pass[t].order, FALSE)
      BY <2>4 DEF ConfirmUnknown, IInv, OrdersKnown
    <3>2. pass'[t].sure = FALSE /\ pass'[t].order = pass[t].order
      BY <3>1 DEF Placed, Finish, Idle, IInv, TypeOK
    <3> QED BY <3>1, <3>2 DEF Ids, NoOrder
  <2>5. CASE /\ pass[t].mode = "restore" /\ PlaceFailed(t)
             /\ RereadFindsNothing(t) \/ ConfirmRejected(t)
    <3>1. UNCHANGED <<session, orders>>
      BY <2>5 DEF RereadFindsNothing, ConfirmRejected, broker
    <3>3. Unplaced(t) /\ Quiet /\ InBand(t)
      BY <2>5, <3>1, FailedIsUnplaced DEF Quiet, InBand
    <3>4. Kept
      BY <2>5, <3>3 DEF SavesInv, Sheltered
    <3> QED BY <2>1, <3>1, <3>4 DEF Kept, Live, Ids
  <2> QED BY <2>2, <2>3, <2>4, <2>5, EndedBy
<1>2. Init => RaisesInv /\ SavesInv
  BY InitRaises, InitSaves
<1>3. IInv /\ RaisesInv /\ SavesInv /\ [Next]_vars => (RaisesInv /\ SavesInv)'
  BY NextKeepsRaises, NextKeepsSaves
<1> QED BY <1>1, <1>2, <1>3, SpecIInv, PTL DEF Spec, SingleFaultKeepsAStop

=============================================================================

------------------------ MODULE TradingSwitchProofs ------------------------
(***************************************************************************)
(* Proofs about TradingSwitch, for every number of symbols and every cap:  *)
(* type correctness, the bound on what the engines' threads spend          *)
(* together, that the mirror keeps a mirrored OFF, and what the kill       *)
(* switch accounts for.                                                    *)
(***************************************************************************)
EXTENDS TradingSwitch, TLAPS

USE SymbolsAssumption, BoundsAssumption, FaultsAssumption

RowState == [qty : Nat, sl : BOOLEAN]
Pcs == {"idle", "check", "buy", "book", "stop", "link", "exit", "cancel", "sell", "drop"}
Places == {"take", "cancel", "sell", "drop", "off"}
\* A position in hand, with a symbol.
Hand == {c \in Positions : c.sym \in Symbols}

\* What TypeOK says of Kotak, of one call, and of the kill, in parts.
KotakOK ==
    /\ held \in [Symbols -> Nat] /\ stops \in [Symbols -> Nat] /\ sold \subseteq Symbols
    /\ \A s \in Symbols : stops[s] <= held[s]
OpOK ==
    /\ op \in [Threads -> Positions]
    /\ \A t \in Threads : op[t].at # "idle" => op[t].sym \in Symbols
KillOK == kill \in Kills /\ (kill.at \in {"cancel", "sell", "drop"} => kill.now.sym \in Symbols)
CopiesOK ==
    /\ {switch, command, remote, pushed, journal} \subseteq Contents /\ hydrated \in BOOLEAN
    /\ tick \in [at : {"idle", "restore", "push"}, content : Contents]
BooksOK ==
    /\ row \in [Symbols -> RowState] /\ spent \in Nat /\ unlogged \in BOOLEAN /\ strays \subseteq Symbols

LEMMA TypeParts ==
    /\ TypeOK <=> KotakOK /\ OpOK /\ KillOK /\ CopiesOK /\ BooksOK /\ events \in Nat
    /\ TypeOK' <=> KotakOK' /\ OpOK' /\ KillOK' /\ CopiesOK' /\ BooksOK' /\ events' \in Nat
BY DEF TypeOK, KotakOK, OpOK, KillOK, CopiesOK, BooksOK, RowState, At

LEMMA Constants ==
    /\ Idle \in Positions /\ NoKill \in Kills /\ NoRow \in RowState
    /\ DefaultOn \in Contents /\ Never \in Contents
    /\ Quiet \in [at : {"idle", "restore", "push"}, content : Contents]
    /\ Idle.at = "idle" /\ NoKill.at = "idle" /\ Quiet.at = "idle"
BY DEF Idle, NoKill, NoRow, DefaultOn, Never, Quiet, Positions, Kills, RowState, Contents, Engines, NoSymbol

LEMMA OpenTyped == ASSUME BooksOK, NEW e \in Engines PROVE Open(e) \subseteq Hand
<1> SUFFICES ASSUME NEW s \in Table(e), row[s].qty > 0
             PROVE  [Idle EXCEPT !.sym = s, !.qty = row[s].qty, !.sl = row[s].sl] \in Hand
  BY DEF Open
<1>1. s \in Symbols BY DEF Table
<1>2. row[s] \in RowState BY <1>1 DEF BooksOK
<1>3. row[s].qty \in Nat /\ row[s].sl \in BOOLEAN BY <1>2 DEF RowState
<1> QED BY <1>1, <1>3 DEF Hand, Positions, Idle

LEMMA EventsTyped ==
    ASSUME events \in Nat
    PROVE  /\ Happens => events' \in Nat
           /\ NoFault => events' \in Nat
           /\ \A kind \in FaultKinds : Fault(kind) => events' \in Nat
BY DEF Happens, NoFault, Fault

\* A call moves to another place, or ends.
LEMMA GoTyped ==
    ASSUME OpOK, NEW t \in Threads, NEW pc \in Pcs, Go(t, pc), op[t].at # "idle" PROVE OpOK'
BY DEF OpOK, Go, Positions, Pcs

LEMMA DoneTyped == ASSUME OpOK, NEW t \in Threads, Done(t) PROVE OpOK'
BY Constants DEF OpOK, Done

LEMMA CancelTyped ==
    ASSUME KotakOK, events \in Nat, NEW c \in Hand, CancelStop(c), UNCHANGED <<held, sold>>
    PROVE  KotakOK' /\ events' \in Nat
<1>1. c.sym \in Symbols BY DEF Hand
<1>2. CASE c.sl /\ stops' = [stops EXCEPT ![c.sym] = 0] /\ NoFault BY <1>1, <1>2 DEF KotakOK, NoFault
<1>3. CASE /\ IF c.sl /\ stops[c.sym] > 0 THEN Fault("cancel_fails") ELSE NoFault
           /\ UNCHANGED stops
  <2>1. events' \in Nat BY <1>3, EventsTyped DEF FaultKinds
  <2> QED BY <1>3, <2>1 DEF KotakOK
<1> QED BY <1>2, <1>3 DEF CancelStop

LEMMA SellTyped ==
    ASSUME KotakOK, events \in Nat, strays \subseteq Symbols, NEW c \in Hand, SellOk(c) \/ SellFails(c),
           UNCHANGED stops
    PROVE  KotakOK' /\ events' \in Nat /\ strays' \subseteq Symbols
<1>1. c.sym \in Symbols /\ c.qty \in Nat BY DEF Hand, Positions
<1>2. ASSUME Sellable(c), Sells(c) PROVE KotakOK' BY <1>1, <1>2 DEF KotakOK, Sellable, Sells
<1>3. ASSUME NEW k \in 0..(c.qty - 1), Sellable(c), held' = [held EXCEPT ![c.sym] = @ - k], sold' = sold
      PROVE  KotakOK'
  <2>1. k \in Nat /\ k <= c.qty BY <1>1, <1>3
  <2>2. stops[c.sym] \in Nat /\ held[c.sym] \in Nat /\ k + stops[c.sym] <= held[c.sym]
    BY <1>1, <1>3, <2>1 DEF KotakOK, Sellable
  <2> QED BY <1>1, <1>3, <2>1, <2>2 DEF KotakOK
<1>4. KotakOK'
  <2>1. CASE SellOk(c) BY <1>2, <1>3, <2>1 DEF SellOk
  <2>2. CASE SellFails(c) BY <1>2, <2>2 DEF SellFails, KotakOK
  <2> QED BY <2>1, <2>2
<1>5. events' \in Nat BY EventsTyped DEF SellOk, SellFails, FaultKinds
<1>6. strays' \subseteq Symbols BY <1>1 DEF SellOk, SellFails
<1> QED BY <1>4, <1>5, <1>6

LEMMA ServesTyped == ASSUME NEW t \in Threads PROVE Serves(t) \in Engines
BY DEF Serves, Engines

\* An open row that is taken in hand.
LEMMA TakeTyped ==
    ASSUME OpOK, BooksOK, NEW t \in Threads, NEW pc \in Pcs, NEW c \in Open(Serves(t)),
           op' = [op EXCEPT ![t] = [c EXCEPT !.at = pc]]
    PROVE  OpOK'
<1>1. [c EXCEPT !.at = pc] \in Hand BY OpenTyped, ServesTyped DEF Hand, Positions, Pcs
<1> QED BY <1>1 DEF OpOK, Hand

LEMMA EntryTyped == ASSUME TypeOK, NEW t \in Threads, Entry(t) PROVE TypeOK'
<1>0. KotakOK /\ OpOK /\ KillOK /\ CopiesOK /\ BooksOK /\ events \in Nat BY TypeParts
<1> DEFINE Rest == KotakOK' /\ KillOK' /\ CopiesOK' /\ BooksOK' /\ events' \in Nat
<1>P. {"check", "buy", "book", "stop", "link", "exit"} \subseteq Pcs BY DEF Pcs
<1>1. CASE Size(t)
  <2>1. PICK s \in Table(Serves(t)) \ sold, q \in 1..(Cap - spent) :
            op' = [op EXCEPT ![t] = [Idle EXCEPT !.at = "check", !.sym = s, !.qty = q]]
    BY <1>1 DEF Size
  <2>2. [Idle EXCEPT !.at = "check", !.sym = s, !.qty = q] \in Hand
    <3>1. s \in Symbols /\ q \in Nat BY <1>0 DEF Table, BooksOK
    <3> QED BY <3>1 DEF Idle, Positions, Hand
  <2>3. OpOK' BY <2>1, <2>2, <1>0 DEF OpOK, Hand
  <2>4. events' \in Nat BY <1>0, <1>1, EventsTyped DEF Size, FaultKinds
  <2>5. Rest BY <1>0, <1>1, <2>4 DEF Size, kotak, money, orders, copies, KotakOK, KillOK, CopiesOK, BooksOK
  <2> QED BY <2>3, <2>5, TypeParts
<1>2. CASE Check(t)
  <2>1. OpOK' BY <1>0, <1>2, <1>P, GoTyped, DoneTyped DEF Check, At
  <2>2. events' \in Nat BY <1>0, <1>2, EventsTyped DEF Check, FaultKinds
  <2>3. Rest BY <1>0, <1>2, <2>2 DEF Check, kotak, money, orders, copies, KotakOK, KillOK, CopiesOK, BooksOK
  <2> QED BY <2>1, <2>3, TypeParts
<1>3. CASE Buy(t)
  <2> DEFINE y == op[t].sym
             n == op[t].qty
  <2>1. op[t].at = "buy" /\ y \in Symbols /\ n \in Nat BY <1>0, <1>3 DEF Buy, At, OpOK, Positions
  <2>2. events' \in Nat BY <1>0, <1>3, EventsTyped DEF Buy, FaultKinds
  <2>3. PICK m \in Nat : held' = [held EXCEPT ![y] = @ + m] \/ held' = held
    BY <1>3, <2>1 DEF Buy
  <2>4. KotakOK' BY <1>0, <1>3, <2>1, <2>3 DEF Buy, KotakOK
  <2>5. BooksOK'
    <3>1. strays' \subseteq Symbols /\ unlogged' \in BOOLEAN BY <1>0, <1>3, <2>1 DEF Buy, BooksOK
    <3> QED BY <1>0, <1>3, <3>1 DEF Buy, BooksOK
  <2>6. OpOK'
    <3>1. CASE \E k \in 0..(n - 1) : op' = [op EXCEPT ![t].at = "book", ![t].qty = k]
      <4>1. PICK k \in 0..(n - 1) : op' = [op EXCEPT ![t].at = "book", ![t].qty = k] BY <3>1
      <4>2. k \in Nat BY <2>1
      <4> QED BY <1>0, <2>1, <4>1, <4>2 DEF OpOK, Positions
    <3>2. CASE Go(t, "book") BY <1>0, <1>P, <2>1, <3>2, GoTyped
    <3>3. CASE Done(t) BY <1>0, <3>3, DoneTyped
    <3> QED BY <1>3, <3>1, <3>2, <3>3 DEF Buy
  <2>7. KillOK' /\ CopiesOK' BY <1>0, <1>3 DEF Buy, orders, copies, KillOK, CopiesOK
  <2> QED BY <2>2, <2>4, <2>5, <2>6, <2>7, TypeParts
<1>4. CASE Book(t)
  <2>1. OpOK' BY <1>0, <1>4, <1>P, GoTyped, DoneTyped DEF Book, At
  <2>2. events' \in Nat BY <1>0, <1>4, EventsTyped DEF Book, FaultKinds
  <2>3. op[t].sym \in Symbols /\ op[t].qty \in Nat BY <1>0, <1>4 DEF Book, At, OpOK, Positions
  <2>4. BooksOK'
    <3>1. spent' \in Nat /\ strays' \subseteq Symbols /\ unlogged' \in BOOLEAN
      <4>1. CASE UNCHANGED <<strays, unlogged>> /\ spent' = spent + op[t].qty
        BY <1>0, <2>3, <4>1 DEF BooksOK
      <4>2. CASE strays' = strays \cup {op[t].sym} /\ unlogged' = TRUE /\ spent' = spent
        BY <1>0, <2>3, <4>2 DEF BooksOK
      <4> QED BY <1>4, <4>1, <4>2 DEF Book
    <3>2. [qty |-> op[t].qty, sl |-> FALSE] \in RowState BY <2>3 DEF RowState
    <3>3. row' \in [Symbols -> RowState] BY <1>0, <1>4, <2>3, <3>2 DEF Book, BooksOK
    <3> QED BY <3>1, <3>3 DEF BooksOK
  <2>5. KotakOK' /\ KillOK' /\ CopiesOK'
    BY <1>0, <1>4 DEF Book, kotak, orders, copies, KotakOK, KillOK, CopiesOK
  <2> QED BY <2>1, <2>2, <2>4, <2>5, TypeParts
<1>5. CASE Stop(t)
  <2>1. OpOK' BY <1>0, <1>5, <1>P, GoTyped, DoneTyped DEF Stop, At
  <2>2. events' \in Nat BY <1>0, <1>5, EventsTyped DEF Stop, FaultKinds
  <2>3. op[t].sym \in Symbols /\ op[t].qty \in Nat BY <1>0, <1>5 DEF Stop, At, OpOK, Positions
  <2>4. KotakOK' BY <1>0, <1>5, <2>3 DEF Stop, KotakOK
  <2>5. BooksOK' /\ KillOK' /\ CopiesOK' BY <1>0, <1>5 DEF Stop, money, orders, copies, BooksOK, KillOK, CopiesOK
  <2> QED BY <2>1, <2>2, <2>4, <2>5, TypeParts
<1>6. CASE Link(t)
  <2>1. OpOK' BY <1>0, <1>6, DoneTyped DEF Link
  <2>2. BooksOK' BY <1>0, <1>6 DEF Link, money, BooksOK, RowState
  <2>3. KotakOK' /\ KillOK' /\ CopiesOK' /\ events' \in Nat
    BY <1>0, <1>6 DEF Link, kotak, orders, copies, KotakOK, KillOK, CopiesOK
  <2> QED BY <2>1, <2>2, <2>3, TypeParts
<1>7. CASE Sync(t)
  <2>3. OpOK' BY <1>0, <1>7, <1>P, TakeTyped DEF Sync
  <2>4. Rest BY <1>0, <1>7 DEF Sync, kotak, money, orders, copies, KotakOK, KillOK, CopiesOK, BooksOK
  <2> QED BY <2>3, <2>4, TypeParts
<1> QED BY <1>1, <1>2, <1>3, <1>4, <1>5, <1>6, <1>7 DEF Entry

LEMMA LeaveTyped == ASSUME TypeOK, NEW t \in Threads, Leave(t) PROVE TypeOK'
<1>0. KotakOK /\ OpOK /\ KillOK /\ CopiesOK /\ BooksOK /\ events \in Nat BY TypeParts
<1>P. {"cancel", "sell", "drop", "exit"} \subseteq Pcs BY DEF Pcs
<1>H. ASSUME op[t].at # "idle" PROVE op[t] \in Hand BY <1>0, <1>H DEF OpOK, Hand
<1>1. CASE Exit(t)
  <2>1. OpOK'
    <3>1. CASE Done(t) BY <1>0, <3>1, DoneTyped
    <3>2. CASE \E c \in Open(Serves(t)) :
                  op' = [op EXCEPT ![t] = [c EXCEPT !.at = IF held[c.sym] > 0 THEN "cancel" ELSE "drop"]]
      <4>1. PICK c \in Open(Serves(t)) :
                    op' = [op EXCEPT ![t] = [c EXCEPT !.at = IF held[c.sym] > 0 THEN "cancel" ELSE "drop"]]
        BY <3>2
      <4> QED BY <1>0, <1>P, <4>1, TakeTyped
    <3> QED BY <1>1, <3>1, <3>2 DEF Exit
  <2>2. KotakOK' /\ KillOK' /\ CopiesOK' /\ BooksOK' /\ events' \in Nat
    BY <1>0, <1>1 DEF Exit, kotak, money, orders, copies, KotakOK, KillOK, CopiesOK, BooksOK
  <2> QED BY <2>1, <2>2, TypeParts
<1>2. CASE Cancel(t)
  <2>1. OpOK' BY <1>0, <1>2, <1>P, GoTyped DEF Cancel, At
  <2>2. KotakOK' /\ events' \in Nat BY <1>0, <1>2, <1>H, CancelTyped DEF Cancel, At
  <2>3. KillOK' /\ CopiesOK' /\ BooksOK'
    BY <1>0, <1>2 DEF Cancel, money, orders, copies, KillOK, CopiesOK, BooksOK
  <2> QED BY <2>1, <2>2, <2>3, TypeParts
<1>3. CASE Sell(t)
  <2>1. OpOK' BY <1>0, <1>3, <1>P, GoTyped, DoneTyped DEF Sell, At
  <2>2. KotakOK' /\ events' \in Nat /\ strays' \subseteq Symbols
    BY <1>0, <1>3, <1>H, SellTyped DEF Sell, At, BooksOK
  <2>3. KillOK' /\ CopiesOK' /\ BooksOK'
    BY <1>0, <1>3, <2>2 DEF Sell, orders, copies, KillOK, CopiesOK, BooksOK
  <2> QED BY <2>1, <2>2, <2>3, TypeParts
<1>4. CASE Drop(t)
  <2>1. OpOK' BY <1>0, <1>4, DoneTyped DEF Drop
  <2>2. BooksOK' BY <1>0, <1>4, Constants DEF Drop, money, BooksOK
  <2>3. KotakOK' /\ KillOK' /\ CopiesOK' /\ events' \in Nat
    BY <1>0, <1>4 DEF Drop, kotak, orders, copies, KotakOK, KillOK, CopiesOK
  <2> QED BY <2>1, <2>2, <2>3, TypeParts
<1> QED BY <1>1, <1>2, <1>3, <1>4 DEF Leave

LEMMA CloseTyped == ASSUME TypeOK, Kill \/ Close PROVE TypeOK'
<1>0. KotakOK /\ OpOK /\ KillOK /\ CopiesOK /\ BooksOK /\ events \in Nat BY TypeParts
<1>R. ASSUME NEW k \in Kills, NEW e \in Engines PROVE Reading(k, e) \in Kills /\ Reading(k, e).at = "take"
  <2>1. Open(e) \subseteq Hand BY <1>0, OpenTyped
  <2>2. {c.sym : c \in Open(e)} \subseteq Symbols BY <2>1 DEF Hand
  <2> QED BY <2>1, <2>2 DEF Reading, Kills, Hand
<1>E. "intraday" \in Engines /\ "swing" \in Engines BY DEF Engines
<1>H. ASSUME kill.at \in {"cancel", "sell", "drop"} PROVE kill.now \in Hand
  BY <1>0, <1>H DEF KillOK, Kills, Hand
<1>1. CASE Kill
  <2>1. KillOK' BY <1>1, <1>R, <1>E, Constants DEF Kill, KillOK
  <2>2. events' \in Nat BY <1>0, <1>1, EventsTyped DEF Kill
  <2>3. KotakOK' /\ OpOK' /\ CopiesOK' /\ BooksOK'
    BY <1>0, <1>1 DEF Kill, kotak, money, orders, copies, KotakOK, OpOK, CopiesOK, BooksOK
  <2> QED BY <2>1, <2>2, <2>3, TypeParts
<1>2. CASE KillTake
  <2>1. PICK c \in kill.todo :
            LET s == c.sym
                k == [kill EXCEPT !.todo = @ \ {c}]
            IN  kill' = CASE kill.table = "intraday" -> [k EXCEPT !.at = "cancel", !.now = c]
                          [] kill.table = "swing" /\ row[s].qty = 0 -> k
                          [] kill.table = "swing" /\ row[s].qty > 0 ->
                                [k EXCEPT !.at = IF held[s] > 0 THEN "cancel" ELSE "drop",
                                          !.now = [c EXCEPT !.qty = row[s].qty, !.sl = row[s].sl]]
    BY <1>2 DEF KillTake
  <2>2. c \in Positions /\ c.sym \in Symbols BY <1>0 DEF KillOK, Kills
  <2>3. row[c.sym].qty \in Nat /\ row[c.sym].sl \in BOOLEAN BY <1>0, <2>2 DEF BooksOK, RowState
  <2> DEFINE k == [kill EXCEPT !.todo = @ \ {c}]
             seen == [c EXCEPT !.qty = row[c.sym].qty, !.sl = row[c.sym].sl]
  <2>4. k \in Kills /\ k.at = "take" BY <1>0, <1>2 DEF KillTake, KillOK, Kills
  <2>5. seen \in Positions /\ seen.sym = c.sym BY <2>2, <2>3 DEF Positions
  <2>9. KillOK'
    <3>1. kill.table \in {"intraday", "swing"} BY <1>0 DEF KillOK, Kills, Engines
    <3>2. CASE kill.table = "intraday"
      <4>1. kill' = [k EXCEPT !.at = "cancel", !.now = c] BY <2>1, <3>2
      <4> QED BY <2>2, <2>4, <4>1 DEF KillOK, Kills
    <3>3. CASE kill.table = "swing" /\ row[c.sym].qty = 0
      <4>1. kill' = k BY <2>1, <3>3
      <4> QED BY <2>4, <4>1 DEF KillOK
    <3>4. CASE kill.table = "swing" /\ row[c.sym].qty > 0
      <4>1. kill' = [k EXCEPT !.at = IF held[c.sym] > 0 THEN "cancel" ELSE "drop", !.now = seen]
        BY <2>1, <3>4, <2>3
      <4> QED BY <2>2, <2>4, <2>5, <4>1 DEF KillOK, Kills
    <3> QED BY <2>3, <3>1, <3>2, <3>3, <3>4
  <2>10. KotakOK' /\ OpOK' /\ CopiesOK' /\ BooksOK' /\ events' \in Nat
    BY <1>0, <1>2 DEF KillTake, kotak, money, orders, copies, KotakOK, OpOK, CopiesOK, BooksOK
  <2> QED BY <2>9, <2>10, TypeParts
<1>3. CASE KillCancel
  <2>1. KillOK' BY <1>0, <1>3 DEF KillCancel, KillOK, Kills
  <2>2. KotakOK' /\ events' \in Nat BY <1>0, <1>3, <1>H, CancelTyped DEF KillCancel
  <2>3. OpOK' /\ CopiesOK' /\ BooksOK'
    BY <1>0, <1>3 DEF KillCancel, money, orders, copies, OpOK, CopiesOK, BooksOK
  <2> QED BY <2>1, <2>2, <2>3, TypeParts
<1>4. CASE KillSell
  <2>1. KillOK'
    <3>1. kill \in Kills /\ kill.now.sym \in Symbols BY <1>0, <1>4 DEF KillSell, KillOK
    <3>2. CASE kill' = [kill EXCEPT !.at = "drop"] BY <3>1, <3>2 DEF KillOK, Kills
    <3>3. ASSUME NEW more \in SUBSET Symbols,
                 kill' = [kill EXCEPT !.at = "take", !.now = Idle, !.listed = more]
          PROVE  KillOK'
      BY <3>1, <3>3, Constants DEF KillOK, Kills
    <3>4. kill.listed \in SUBSET Symbols /\ kill.listed \cup {kill.now.sym} \in SUBSET Symbols
      BY <3>1 DEF Kills
    <3> QED BY <1>4, <3>2, <3>3, <3>4 DEF KillSell
  <2>2. KotakOK' /\ events' \in Nat /\ strays' \subseteq Symbols
    BY <1>0, <1>4, <1>H, SellTyped DEF KillSell, BooksOK
  <2>3. OpOK' /\ CopiesOK' /\ BooksOK'
    BY <1>0, <1>4, <2>2 DEF KillSell, orders, copies, OpOK, CopiesOK, BooksOK
  <2> QED BY <2>1, <2>2, <2>3, TypeParts
<1>5. CASE KillDrop
  <2>1. KillOK' BY <1>0, <1>5, Constants DEF KillDrop, KillOK, Kills
  <2>2. BooksOK' BY <1>0, <1>5, Constants DEF KillDrop, money, BooksOK
  <2>3. KotakOK' /\ OpOK' /\ CopiesOK' /\ events' \in Nat
    BY <1>0, <1>5 DEF KillDrop, kotak, orders, copies, KotakOK, OpOK, CopiesOK
  <2> QED BY <2>1, <2>2, <2>3, TypeParts
<1>6. CASE KillNext
  <2>1. KillOK'
    <3>1. CASE kill.table = "intraday" BY <1>0, <1>6, <1>R, <1>E, <3>1 DEF KillNext, KillOK
    <3>2. CASE kill.table # "intraday"
      <4> DEFINE more == kill.listed \cup {c.sym : c \in Open("swing")}
      <4>1. more \subseteq Symbols BY <1>0, <1>E, OpenTyped DEF Hand, KillOK, Kills
      <4>2. kill' = [kill EXCEPT !.at = "off", !.listed = more] BY <1>6, <3>2 DEF KillNext
      <4> HIDE DEF more
      <4> QED BY <1>0, <4>1, <4>2 DEF KillOK, Kills
    <3> QED BY <3>1, <3>2
  <2>3. KotakOK' /\ OpOK' /\ CopiesOK' /\ BooksOK' /\ events' \in Nat
    BY <1>0, <1>6 DEF KillNext, kotak, money, orders, copies, KotakOK, OpOK, CopiesOK, BooksOK
  <2> QED BY <2>1, <2>3, TypeParts
<1>7. CASE KillOff
  <2>1. KillOK' BY <1>7, Constants DEF KillOff, KillOK
  <2>2. CopiesOK' BY <1>0, <1>7 DEF KillOff, Obey, copies, CopiesOK, Contents
  <2>3. KotakOK' /\ OpOK' /\ BooksOK' /\ events' \in Nat
    BY <1>0, <1>7 DEF KillOff, kotak, money, KotakOK, OpOK, BooksOK
  <2> QED BY <2>1, <2>2, <2>3, TypeParts
<1> QED BY <1>1, <1>2, <1>3, <1>4, <1>5, <1>6, <1>7 DEF Close

LEMMA CopyTyped == ASSUME TypeOK, (\E on \in BOOLEAN : Command(on)) \/ Mirror \/ Journal PROVE TypeOK'
<1>0. KotakOK /\ OpOK /\ KillOK /\ CopiesOK /\ BooksOK /\ events \in Nat BY TypeParts
<1>1. ASSUME NEW on \in BOOLEAN, Command(on) PROVE TypeOK'
  <2>1. CopiesOK' BY <1>0, <1>1 DEF Command, Obey, copies, CopiesOK, Contents
  <2>2. events' \in Nat BY <1>0, <1>1, EventsTyped DEF Command
  <2>3. KotakOK' /\ OpOK' /\ KillOK' /\ BooksOK'
    BY <1>0, <1>1 DEF Command, kotak, money, KotakOK, OpOK, KillOK, BooksOK
  <2> QED BY <2>1, <2>2, <2>3, TypeParts
<1>2. CASE Mirror
  <2>1. CopiesOK'
    <3>1. CASE TickRead BY <1>0, <3>1 DEF TickRead, orders, CopiesOK
    <3>2. CASE TickRestore BY <1>0, <3>2, Constants DEF TickRestore, CopiesOK
    <3>3. CASE TickPush BY <1>0, <3>3, Constants DEF TickPush, orders, CopiesOK
    <3> QED BY <1>2, <3>1, <3>2, <3>3 DEF Mirror
  <2>2. events' \in Nat
    BY <1>0, <1>2, EventsTyped DEF Mirror, TickRead, TickRestore, TickPush, FaultKinds
  <2>3. KotakOK' /\ OpOK' /\ KillOK' /\ BooksOK'
    BY <1>0, <1>2 DEF Mirror, TickRead, TickRestore, TickPush, kotak, money, KotakOK, OpOK, KillOK, BooksOK
  <2> QED BY <2>1, <2>2, <2>3, TypeParts
<1>3. CASE Journal
  BY <1>0, <1>3, TypeParts DEF Journal, kotak, money, orders, KotakOK, OpOK, KillOK, BooksOK, CopiesOK
<1> QED BY <1>1, <1>2, <1>3

LEMMA OtherTyped == ASSUME TypeOK, (\E s \in Symbols : Fill(s) \/ Adopt(s)) \/ Restart PROVE TypeOK'
<1>0. KotakOK /\ OpOK /\ KillOK /\ CopiesOK /\ BooksOK /\ events \in Nat BY TypeParts
<1>1. ASSUME NEW s \in Symbols, Fill(s) PROVE TypeOK'
  <2>1. KotakOK' BY <1>0, <1>1 DEF Fill, KotakOK
  <2>2. OpOK' /\ KillOK' /\ CopiesOK' /\ BooksOK' /\ events' \in Nat
    BY <1>0, <1>1 DEF Fill, money, orders, copies, OpOK, KillOK, CopiesOK, BooksOK
  <2> QED BY <2>1, <2>2, TypeParts
<1>2. ASSUME NEW s \in Symbols, Adopt(s) PROVE TypeOK'
  <2>1. BooksOK' BY <1>0, <1>2 DEF Adopt, money, KotakOK, BooksOK, RowState
  <2>2. KotakOK' /\ OpOK' /\ KillOK' /\ CopiesOK' /\ events' \in Nat
    BY <1>0, <1>2 DEF Adopt, kotak, orders, copies, KotakOK, OpOK, KillOK, CopiesOK
  <2> QED BY <2>1, <2>2, TypeParts
<1>3. CASE Restart
  <2>1. OpOK' /\ KillOK' BY <1>3, Constants DEF Restart, OpOK, KillOK
  <2>2. CopiesOK' BY <1>0, <1>3, Constants DEF Restart, CopiesOK
  <2>3. events' \in Nat BY <1>0, <1>3, EventsTyped DEF Restart, FaultKinds
  <2> DEFINE unwritten == {op[t].sym : t \in {x \in Threads : At(x, "book")}}
  <2>4. unwritten \subseteq Symbols BY <1>0 DEF OpOK, At
  <2>5. Restored \subseteq Nat BY DEF Restored
  <2>6. strays' \subseteq Symbols /\ spent' \in Nat /\ unlogged' \in BOOLEAN /\ UNCHANGED <<kotak, row>>
    BY <1>0, <1>3, <2>4, <2>5 DEF Restart, BooksOK
  <2>7. KotakOK' /\ BooksOK' BY <1>0, <2>6 DEF kotak, KotakOK, BooksOK
  <2> QED BY <2>1, <2>2, <2>3, <2>7, TypeParts
<1> QED BY <1>1, <1>2, <1>3

\* Every variable keeps its type, and Kotak never reserves more than is held.
THEOREM TypeCorrect == Spec => []TypeOK
<1>1. Init => TypeOK
  <2> SUFFICES ASSUME Init PROVE TypeOK OBVIOUS
  <2>1. KotakOK /\ events \in Nat BY DEF Init, KotakOK
  <2>2. OpOK /\ KillOK BY Constants DEF Init, OpOK, KillOK
  <2>3. CopiesOK BY Constants DEF Init, CopiesOK
  <2>4. BooksOK BY Constants DEF Init, BooksOK
  <2> QED BY <2>1, <2>2, <2>3, <2>4, TypeParts
<1>2. TypeOK /\ [Next]_vars => TypeOK'
  <2> SUFFICES ASSUME TypeOK, [Next]_vars PROVE TypeOK' OBVIOUS
  <2>1. CASE UNCHANGED vars
    BY <2>1, TypeParts DEF vars, KotakOK, OpOK, KillOK, CopiesOK, BooksOK
  <2>2. CASE Next BY <2>2, EntryTyped, LeaveTyped, CloseTyped, CopyTyped, OtherTyped DEF Next
  <2> QED BY <2>1, <2>2
<1> QED BY <1>1, <1>2, PTL DEF Spec
(***************************************************************************)
(* What the three threads spend together: what one of them is about to buy *)
(* fits under the cap by itself, and what is logged with what all of them  *)
(* are about to buy is at most three caps.                                 *)
(***************************************************************************)
Pending(t) == IF op[t].at \in {"check", "buy", "book"} THEN op[t].qty ELSE 0
Within ==
    /\ \A t \in Threads : Pending(t) <= Cap
    /\ unlogged \/ spent + Pending("intraday") + Pending("scan") + Pending("retry") <= 3 * Cap

LEMMA PendingTyped ==
    /\ TypeOK => \A t \in Threads : Pending(t) \in Nat
    /\ TypeOK' => \A t \in Threads : Pending(t)' \in Nat
BY DEF TypeOK, Pending, Positions

\* The sum of three numbers, one of which changes.
LEMMA OneOfThree ==
    ASSUME TypeOK, TypeOK', NEW t \in Threads, \A d \in Threads \ {t} : Pending(d)' = Pending(d),
           NEW x \in Int, x = spent' + Pending(t)' - spent - Pending(t)
    PROVE  spent' + Pending("intraday")' + Pending("scan")' + Pending("retry")'
             = spent + Pending("intraday") + Pending("scan") + Pending("retry") + x
<1>1. {"intraday", "scan", "retry"} = Threads BY DEF Threads
<1>2. /\ Pending("intraday") \in Nat /\ Pending("scan") \in Nat /\ Pending("retry") \in Nat
      /\ Pending("intraday")' \in Nat /\ Pending("scan")' \in Nat /\ Pending("retry")' \in Nat
  BY <1>1, PendingTyped
<1>3. spent \in Nat /\ spent' \in Nat BY DEF TypeOK
<1>4. CASE t = "intraday"
  <2>1. Pending("scan")' = Pending("scan") /\ Pending("retry")' = Pending("retry") BY <1>1, <1>4
  <2> QED BY <1>2, <1>3, <1>4, <2>1
<1>5. CASE t = "scan"
  <2>1. Pending("intraday")' = Pending("intraday") /\ Pending("retry")' = Pending("retry") BY <1>1, <1>5
  <2> QED BY <1>2, <1>3, <1>5, <2>1
<1>6. CASE t = "retry"
  <2>1. Pending("intraday")' = Pending("intraday") /\ Pending("scan")' = Pending("scan") BY <1>1, <1>6
  <2> QED BY <1>2, <1>3, <1>6, <2>1
<1> QED BY <1>1, <1>4, <1>5, <1>6

\* A step of one call that does not make it more expensive, and logs at most what it drops.
LEMMA StepWithin ==
    ASSUME TypeOK, TypeOK', Within, NEW t \in Threads, NEW call, op' = [op EXCEPT ![t] = call],
           Pending(t)' <= Pending(t), unlogged => unlogged',
           unlogged' \/ spent' + Pending(t)' <= spent + Pending(t)
    PROVE  Within'
<1>1. \A d \in Threads : Pending(d) \in Nat /\ Pending(d)' \in Nat BY PendingTyped
<1>2. \A d \in Threads \ {t} : Pending(d)' = Pending(d) BY DEF Pending, TypeOK
<1>3. spent \in Nat /\ spent' \in Nat /\ Cap \in Nat BY BoundsAssumption DEF TypeOK
<1>4. \A d \in Threads : Pending(d)' <= Cap BY <1>1, <1>2, <1>3 DEF Within
<1>5. ASSUME ~unlogged'
      PROVE  spent' + Pending("intraday")' + Pending("scan")' + Pending("retry")' <= 3 * Cap
  <2>1. PICK x \in Int : x = spent' + Pending(t)' - spent - Pending(t) BY <1>1, <1>3
  <2>2. x <= 0 BY <1>1, <1>3, <1>5, <2>1
  <2>3. spent + Pending("intraday") + Pending("scan") + Pending("retry") <= 3 * Cap BY <1>5 DEF Within
  <2>4. spent' + Pending("intraday")' + Pending("scan")' + Pending("retry")'
          = spent + Pending("intraday") + Pending("scan") + Pending("retry") + x
    BY <1>2, <2>1, OneOfThree
  <2>5. Pending("intraday") \in Nat /\ Pending("scan") \in Nat /\ Pending("retry") \in Nat
    BY <1>1 DEF Threads
  <2> QED BY <1>3, <2>2, <2>3, <2>4, <2>5
<1> QED BY <1>4, <1>5 DEF Within

\* A purchase fits beside the log, and each of the other two under the cap.
LEMMA SizeWithin == ASSUME TypeOK, TypeOK', Within, NEW t \in Threads, Size(t) PROVE Within'
<1>1. PICK s \in Table(Serves(t)) \ sold, q \in 1..(Cap - spent) :
          op' = [op EXCEPT ![t] = [Idle EXCEPT !.at = "check", !.sym = s, !.qty = q]]
  BY DEF Size
<1>2. spent \in Nat /\ spent' = spent /\ Cap \in Nat /\ op \in [Threads -> Positions] /\ q \in Nat
  BY BoundsAssumption DEF TypeOK, Size, money
<1>3. Pending(t)' = q BY <1>1, <1>2 DEF Pending, Idle
<1>4. \A d \in Threads \ {t} : Pending(d)' = Pending(d) BY <1>1, <1>2 DEF Pending
<1>5. \A d \in Threads : Pending(d) \in Nat /\ Pending(d) <= Cap BY PendingTyped DEF Within
<1>6. q <= Cap /\ spent + q <= Cap BY <1>2
<1>7. \A d \in Threads : Pending(d)' <= Cap BY <1>3, <1>4, <1>5, <1>6
<1>8. \A d \in Threads : Pending(d)' \in Nat BY PendingTyped
<1>9. CASE t = "intraday"
  <2>1. /\ Pending("scan")' \in Nat /\ Pending("retry")' \in Nat
        /\ Pending("scan")' <= Cap /\ Pending("retry")' <= Cap
    BY <1>7, <1>8 DEF Threads
  <2> QED BY <1>2, <1>3, <1>6, <1>7, <1>9, <2>1 DEF Within
<1>10. CASE t = "scan"
  <2>1. /\ Pending("intraday")' \in Nat /\ Pending("retry")' \in Nat
        /\ Pending("intraday")' <= Cap /\ Pending("retry")' <= Cap
    BY <1>7, <1>8 DEF Threads
  <2> QED BY <1>2, <1>3, <1>6, <1>7, <1>10, <2>1 DEF Within
<1>11. CASE t = "retry"
  <2>1. /\ Pending("intraday")' \in Nat /\ Pending("scan")' \in Nat
        /\ Pending("intraday")' <= Cap /\ Pending("scan")' <= Cap
    BY <1>7, <1>8 DEF Threads
  <2> QED BY <1>2, <1>3, <1>6, <1>7, <1>11, <2>1 DEF Within
<1> QED BY <1>9, <1>10, <1>11 DEF Threads

\* A call that is not before its log line any more, with nothing logged or unlogged by it.
LEMMA OverWithin ==
    ASSUME TypeOK, TypeOK', Within, NEW t \in Threads, NEW call, op' = [op EXCEPT ![t] = call],
           call.at \notin {"check", "buy", "book"}, spent' = spent, unlogged => unlogged'
    PROVE  Within'
<1>0. op \in [Threads -> Positions] /\ spent \in Nat BY DEF TypeOK
<1>1. Pending(t)' = 0 BY <1>0 DEF Pending
<1>2. Pending(t) \in Nat BY PendingTyped
<1>3. Pending(t)' <= Pending(t) /\ spent' + Pending(t)' <= spent + Pending(t) BY <1>0, <1>1, <1>2
<1> QED BY <1>3, StepWithin

LEMMA MovesWithin ==
    ASSUME TypeOK, TypeOK', Within, NEW t \in Threads, spent' = spent, unlogged => unlogged',
           \/ Done(t)
           \/ \E pc \in {"stop", "link", "exit", "cancel", "sell", "drop"} : Go(t, pc)
    PROVE  Within'
<1>1. CASE Done(t) BY <1>1, OverWithin, Constants DEF Done
<1>2. ASSUME NEW pc \in {"stop", "link", "exit", "cancel", "sell", "drop"}, Go(t, pc) PROVE Within'
  <2>1. op \in [Threads -> Positions] BY DEF TypeOK
  <2>2. op' = [op EXCEPT ![t] = [op[t] EXCEPT !.at = pc]] BY <1>2, <2>1 DEF Go, Positions
  <2>3. [op[t] EXCEPT !.at = pc].at = pc BY <2>1 DEF Positions
  <2> QED BY <2>2, <2>3, OverWithin
<1> QED BY <1>1, <1>2

LEMMA EntryWithin == ASSUME TypeOK, TypeOK', Within, NEW t \in Threads, Entry(t) PROVE Within'
<1>0. op \in [Threads -> Positions] /\ spent \in Nat /\ op[t].qty \in Nat BY DEF TypeOK, Positions
<1>P. Pending(t) \in Nat BY PendingTyped
\* The call stays before its log line.
<1>G. ASSUME NEW pc \in {"buy", "book"}, NEW k \in 0..op[t].qty, op[t].at \in {"check", "buy"},
             op' = [op EXCEPT ![t] = [op[t] EXCEPT !.at = pc, !.qty = k]],
             spent' = spent, unlogged => unlogged'
      PROVE  Within'
  <2>1. Pending(t)' = k BY <1>0, <1>G DEF Pending, Positions
  <2>2. Pending(t) = op[t].qty BY <1>G DEF Pending
  <2>3. k \in Nat /\ k <= op[t].qty BY <1>0
  <2>4. Pending(t)' <= Pending(t) /\ spent' + Pending(t)' <= spent + Pending(t)
    BY <1>0, <1>G, <2>1, <2>2, <2>3
  <2> QED BY <1>G, <2>4, StepWithin
<1>K. ASSUME NEW pc \in {"buy", "book"}, Go(t, pc)
      PROVE  op' = [op EXCEPT ![t] = [op[t] EXCEPT !.at = pc, !.qty = op[t].qty]] /\ op[t].qty \in 0..op[t].qty
  <2>1. op' = [op EXCEPT ![t] = [op[t] EXCEPT !.at = pc]] BY <1>0, <1>K DEF Go, Positions
  <2>2. op[t] \in Positions BY <1>0
  <2>3. [op[t] EXCEPT !.at = pc] = [op[t] EXCEPT !.at = pc, !.qty = op[t].qty] BY <2>2 DEF Positions
  <2>4. op' = [op EXCEPT ![t] = [op[t] EXCEPT !.at = pc, !.qty = op[t].qty]] BY <2>1, <2>3
  <2> QED BY <1>0, <2>4
<1>1. CASE Size(t) BY <1>1, SizeWithin
<1>2. CASE Check(t)
  <2>1. spent' = spent /\ unlogged' = unlogged /\ op[t].at = "check" BY <1>2 DEF Check, At, money
  <2>2. Go(t, "buy") \/ Done(t) BY <1>2 DEF Check
  <2> QED BY <1>G, <1>K, <2>1, <2>2, MovesWithin
<1>3. CASE Buy(t)
  <2>1. spent' = spent /\ op[t].at = "buy" BY <1>3 DEF Buy, At
  <2>4. unlogged => unlogged' BY <1>3 DEF Buy
  <2>2. CASE \E k \in 0..(op[t].qty - 1) : op' = [op EXCEPT ![t].at = "book", ![t].qty = k]
    <3>1. PICK k \in 0..(op[t].qty - 1) : op' = [op EXCEPT ![t].at = "book", ![t].qty = k] BY <2>2
    <3>2. op' = [op EXCEPT ![t] = [op[t] EXCEPT !.at = "book", !.qty = k]] BY <1>0, <3>1 DEF Positions
    <3>3. k \in 0..op[t].qty BY <1>0
    <3> QED BY <1>G, <2>1, <2>4, <3>2, <3>3
  <2>3. CASE Go(t, "book") \/ Done(t) BY <1>G, <1>K, <2>1, <2>3, <2>4, MovesWithin
  <2> QED BY <1>3, <2>2, <2>3 DEF Buy
<1>4. CASE Book(t)
  <2>1. Pending(t) = op[t].qty BY <1>4 DEF Book, At, Pending
  <2>2. CASE Go(t, "stop") /\ spent' = spent + op[t].qty /\ unlogged' = unlogged
    <3>1. op' = [op EXCEPT ![t] = [op[t] EXCEPT !.at = "stop"]] BY <1>0, <2>2 DEF Go, Positions
    <3>2. Pending(t)' = 0 BY <1>0, <3>1 DEF Pending, Positions
    <3>3. Pending(t)' <= Pending(t) /\ spent' + Pending(t)' <= spent + Pending(t)
      BY <1>0, <1>P, <2>1, <2>2, <3>2
    <3> QED BY <2>2, <3>1, <3>3, StepWithin
  <2>3. CASE Done(t) /\ spent' = spent /\ unlogged' = TRUE BY <2>3, MovesWithin
  <2> QED BY <1>4, <2>2, <2>3 DEF Book
<1>5. CASE Stop(t)
  <2>1. spent' = spent /\ unlogged' = unlogged /\ (Go(t, "link") \/ Go(t, "exit") \/ Done(t))
    BY <1>5 DEF Stop, money
  <2> QED BY <2>1, MovesWithin
<1>6. CASE Link(t) BY <1>6, MovesWithin DEF Link, money
<1>7. CASE Sync(t)
  <2>1. PICK c \in Open(Serves(t)) : op' = [op EXCEPT ![t] = [c EXCEPT !.at = "stop"]] BY <1>7 DEF Sync
  <2>2. c \in Hand /\ spent' = spent /\ unlogged' = unlogged
    BY <1>7, TypeParts, OpenTyped, ServesTyped DEF Sync, money
  <2>3. [c EXCEPT !.at = "stop"].at = "stop" BY <2>2 DEF Hand, Positions
  <2> QED BY <2>1, <2>2, <2>3, OverWithin
<1> QED BY <1>1, <1>2, <1>3, <1>4, <1>5, <1>6, <1>7 DEF Entry

LEMMA LeaveWithin == ASSUME TypeOK, TypeOK', Within, NEW t \in Threads, Leave(t) PROVE Within'
<1>1. spent' = spent /\ unlogged' = unlogged BY DEF Leave, Exit, Cancel, Sell, Drop, money
<1>2. CASE Exit(t)
  <2>1. CASE \E c \in Open(Serves(t)) :
                op' = [op EXCEPT ![t] = [c EXCEPT !.at = IF held[c.sym] > 0 THEN "cancel" ELSE "drop"]]
    <3>1. PICK c \in Open(Serves(t)) :
                  op' = [op EXCEPT ![t] = [c EXCEPT !.at = IF held[c.sym] > 0 THEN "cancel" ELSE "drop"]]
      BY <2>1
    <3>2. c \in Positions BY TypeParts, OpenTyped, ServesTyped DEF Hand
    <3>3. [c EXCEPT !.at = IF held[c.sym] > 0 THEN "cancel" ELSE "drop"].at \in {"cancel", "drop"}
      BY <3>2 DEF Positions
    <3> QED BY <1>1, <3>1, <3>3, OverWithin
  <2>2. CASE Done(t) BY <1>1, <2>2, MovesWithin
  <2> QED BY <1>2, <2>1, <2>2 DEF Exit
<1>3. CASE Cancel(t) \/ Sell(t) \/ Drop(t) BY <1>1, <1>3, MovesWithin DEF Cancel, Sell, Drop
<1> QED BY <1>2, <1>3 DEF Leave

\* "so the daily-loss / position caps cannot race": the entries of the three threads may, and together
\* they log no more than three times the cap, unless the log has missed a buy before or a restart has
\* brought back another total.
THEOREM Overspend == Spec => []OverspendBounded
<1>1. Init => Within BY BoundsAssumption DEF Init, Within, Pending, Threads, Idle
<1>2. TypeOK /\ TypeOK' /\ Within /\ [Next]_vars => Within'
  <2> SUFFICES ASSUME TypeOK, TypeOK', Within, [Next]_vars PROVE Within' OBVIOUS
  <2>1. CASE UNCHANGED <<op, spent, unlogged>> BY <2>1 DEF Within, Pending
  <2>2. CASE Restart
    <3>1. \A t \in Threads : Pending(t)' = 0 BY <2>2 DEF Restart, Pending, Idle
    <3>2. unlogged' \/ (spent' = spent /\ ~unlogged) BY <2>2 DEF Restart
    <3>3. \A t \in Threads : Pending(t) \in Nat BY PendingTyped
    <3>4. spent \in Nat /\ Cap \in Nat BY BoundsAssumption DEF TypeOK
    <3> QED BY <3>1, <3>2, <3>3, <3>4 DEF Within, Threads
  <2>3. CASE \E t \in Threads : Entry(t) \/ Leave(t) BY <2>3, EntryWithin, LeaveWithin
  <2>4. CASE \/ \E s \in Symbols : Fill(s) \/ Adopt(s)
             \/ \E on \in BOOLEAN : Command(on)
             \/ Kill \/ Close \/ Mirror \/ Journal
    <3>1. UNCHANGED <<op, spent, unlogged>>
      BY <2>4 DEF Fill, Adopt, Command, Kill, Close, KillTake, KillCancel, KillSell, KillDrop, KillNext,
                  KillOff, Mirror, TickRead, TickRestore, TickPush, Journal, money
    <3> QED BY <2>1, <3>1
  <2>5. CASE UNCHANGED vars BY <2>1, <2>5 DEF vars
  <2> QED BY <2>2, <2>3, <2>4, <2>5 DEF Next
<1>3. TypeOK /\ Within => OverspendBounded
  <2> SUFFICES ASSUME TypeOK, Within PROVE OverspendBounded OBVIOUS
  <2>1. Pending("intraday") \in Nat /\ Pending("scan") \in Nat /\ Pending("retry") \in Nat
    BY PendingTyped DEF Threads
  <2> QED BY <2>1, BoundsAssumption DEF Within, OverspendBounded, TypeOK
<1> QED BY TypeCorrect, <1>1, <1>2, <1>3, PTL DEF Spec

(***************************************************************************)
(* The mirror keeps an OFF.  Every copy of the switch is the last command  *)
(* or an earlier one; a push in flight carries the switch as it is, or a   *)
(* switch that the command has overtaken; and once the OFF is mirrored,    *)
(* whatever the process has read back or is about to push is an OFF.       *)
(***************************************************************************)
Earlier(c) == c = command \/ c.n < command.n
Copies ==
    /\ command.n = 0 => command.on
    /\ Earlier(switch) /\ Earlier(remote) /\ Earlier(journal) /\ Earlier(tick.content)
    /\ tick.at = "restore" => ~hydrated /\ tick.content = remote
    /\ tick.at = "push" => hydrated /\ (tick.content = command => switch = command)
    /\ Mirrored /\ hydrated => ~switch.on
    /\ Mirrored /\ tick.at = "push" => ~tick.content.on

\* A new command is later than every copy.
LEMMA ObeyCopies ==
    ASSUME TypeOK, Copies, NEW on \in BOOLEAN, Obey(on), UNCHANGED copies PROVE Copies'
<1>0. {switch, command, remote, journal, tick.content} \subseteq Contents BY DEF TypeOK
<1>1. command' = [on |-> on, n |-> command.n + 1] /\ switch' = command' /\ command'.n = command.n + 1
  BY DEF Obey
<1>2. \A c \in Contents : Earlier(c) => c.n < command'.n BY <1>0, <1>1 DEF Earlier, Contents
<1>3. remote.n < command'.n /\ journal.n < command'.n /\ tick.content.n < command'.n
  BY <1>0, <1>2 DEF Copies
<1>4. remote' = remote /\ journal' = journal /\ tick' = tick /\ hydrated' = hydrated BY DEF copies
<1>5. ~Mirrored'
  <2>1. remote.n \in Nat /\ command'.n \in Nat BY <1>0, <1>1 DEF Contents
  <2> QED BY <1>3, <1>4, <2>1 DEF Mirrored
<1>6. tick'.content # command'
  <2>1. tick.content.n \in Nat BY <1>0 DEF Contents
  <2> QED BY <1>3, <1>4, <2>1
<1>7. command'.n # 0 BY <1>0, <1>1 DEF Contents
<1>8. Earlier(switch)' /\ Earlier(remote)' /\ Earlier(journal)' /\ Earlier(tick.content)'
  BY <1>1, <1>3, <1>4 DEF Earlier
<1> QED BY <1>1, <1>4, <1>5, <1>6, <1>7, <1>8 DEF Copies

LEMMA MirrorCopies == ASSUME TypeOK, Copies, Mirror PROVE Copies'
<1>0. {switch, command, remote, journal, tick.content} \subseteq Contents /\ command' = command
      /\ journal' = journal
  BY DEF TypeOK, Mirror, TickRead, TickRestore, TickPush, orders
<1>1. CASE TickRead
  <2>1. switch' = switch /\ remote' = remote /\ hydrated' = hydrated BY <1>1 DEF TickRead, orders
  <2>2. CASE ~hydrated /\ tick' = [at |-> "restore", content |-> remote]
    BY <1>0, <2>1, <2>2 DEF Copies, Earlier, Mirrored
  <2>3. CASE hydrated /\ tick' = [at |-> "push", content |-> switch]
    BY <1>0, <2>1, <2>3 DEF Copies, Earlier, Mirrored
  <2> QED BY <1>1, <2>2, <2>3 DEF TickRead
<1>2. CASE TickRestore
  <2>1. remote' = remote /\ hydrated' = TRUE /\ tick' = Quiet BY <1>2 DEF TickRestore
  <2>2. tick.content = remote /\ switch' = IF remote.n > 0 THEN remote ELSE switch
    BY <1>2 DEF TickRestore, Copies
  <2>3. Mirrored => ~switch'.on BY <1>0, <2>2 DEF Copies, Mirrored, Contents
  <2>4. Earlier(Quiet.content)
    <3>1. command = DefaultOn \/ 0 < command.n BY <1>0 DEF Copies, Contents, DefaultOn
    <3> QED BY <3>1 DEF Earlier, Quiet, DefaultOn
  <2> QED BY <1>0, <2>1, <2>2, <2>3, <2>4, Constants DEF Copies, Earlier, Mirrored
<1>3. CASE TickPush
  <2>1. switch' = switch /\ hydrated' = hydrated /\ tick' = Quiet /\ remote' \in {remote, tick.content}
    BY <1>3 DEF TickPush, orders
  <2>2. tick.at = "push" /\ hydrated BY <1>3 DEF TickPush, Copies
  <2>3. Earlier(Quiet.content)
    <3>1. command = DefaultOn \/ 0 < command.n BY <1>0 DEF Copies, Contents, DefaultOn
    <3> QED BY <3>1 DEF Earlier, Quiet, DefaultOn
  <2>4. Mirrored' => ~switch.on BY <1>0, <2>1, <2>2 DEF Copies, Mirrored
  <2> QED BY <1>0, <2>1, <2>2, <2>3, <2>4, Constants DEF Copies, Earlier
<1> QED BY <1>1, <1>2, <1>3 DEF Mirror

LEMMA RestartCopies == ASSUME TypeOK, Copies, Restart PROVE Copies'
<1>0. {switch, command, remote, journal, tick.content} \subseteq Contents BY DEF TypeOK
<1>1. /\ command' = command /\ remote' = remote /\ journal' = journal /\ tick' = Quiet
      /\ switch' = IF ~journal.on THEN journal ELSE IF hydrated' THEN remote ELSE DefaultOn
  BY DEF Restart
<1>2. Earlier(DefaultOn)
  <2>1. command = DefaultOn \/ 0 < command.n BY <1>0 DEF Copies, Contents, DefaultOn
  <2> QED BY <2>1 DEF Earlier, DefaultOn
<1>3. Earlier(switch)' /\ Earlier(tick.content)' BY <1>1, <1>2 DEF Copies, Earlier, Quiet
<1>4. Mirrored /\ hydrated' => ~switch'.on BY <1>1 DEF Mirrored
<1> QED BY <1>1, <1>3, <1>4, Constants DEF Copies, Earlier, Mirrored

LEMMA CopiesNext == TypeOK /\ Copies /\ [Next]_vars => Copies'
<1> SUFFICES ASSUME TypeOK, Copies, [Next]_vars PROVE Copies' OBVIOUS
<1>1. CASE UNCHANGED <<orders, copies>> BY <1>1 DEF orders, copies, Copies, Earlier, Mirrored
<1>2. ASSUME NEW on \in BOOLEAN, Command(on) PROVE Copies' BY <1>2, ObeyCopies DEF Command
<1>3. CASE KillOff BY <1>3, ObeyCopies DEF KillOff
<1>4. CASE Journal
  <2>1. switch' = switch /\ command' = command /\ remote' = remote /\ hydrated' = hydrated
        /\ tick' = tick /\ journal' = switch
    BY <1>4 DEF Journal, orders
  <2> QED BY <2>1 DEF Copies, Earlier, Mirrored
<1>5. CASE \/ \E s \in Symbols : Fill(s) \/ Adopt(s)
           \/ \E t \in Threads : Entry(t) \/ Leave(t)
           \/ Kill \/ KillTake \/ KillCancel \/ KillSell \/ KillDrop \/ KillNext
  <2>1. UNCHANGED <<orders, copies>>
    BY <1>5 DEF Fill, Adopt, Entry, Size, Check, Buy, Book, Stop, Link, Sync, Leave, Exit, Cancel, Sell, Drop,
                Kill, KillTake, KillCancel, KillSell, KillDrop, KillNext
  <2> QED BY <1>1, <2>1
<1>6. CASE UNCHANGED vars BY <1>1, <1>6 DEF vars, orders, copies
<1> QED BY <1>2, <1>3, <1>4, <1>5, <1>6, MirrorCopies, RestartCopies DEF Next, Close

\* "A paused/killed state MUST survive a Render redeploy" (22402), as far as the mirror goes: an
\* OFF that has reached it is never overwritten while it is the user's last word.
THEOREM OffKept == Spec => MirroredOffKept
<1>1. Init => Copies
  BY DEF Init, Copies, Earlier, Mirrored, DefaultOn, Quiet
<1>2. TypeOK /\ Copies /\ [Next]_vars => [Mirrored /\ command' = command => ~remote'.on]_vars
  <2> SUFFICES ASSUME TypeOK, Copies, [Next]_vars, Mirrored, command' = command PROVE ~remote'.on
    OBVIOUS
  <2>1. CASE remote' = remote BY <2>1 DEF Mirrored
  <2>2. CASE TickPush BY <2>2 DEF TickPush, Copies, Mirrored
  <2>3. CASE Next /\ ~TickPush
    <3>1. remote' = remote
      BY <2>3 DEF Next, Fill, Adopt, Entry, Size, Check, Buy, Book, Stop, Link, Sync, Leave, Exit, Cancel, Sell,
                  Drop, Command, Kill, Close, KillTake, KillCancel, KillSell, KillDrop, KillNext, KillOff,
                  Mirror, TickRead, TickRestore, Journal, Restart, copies
    <3> QED BY <2>1, <3>1
  <2>4. CASE UNCHANGED vars BY <2>1, <2>4 DEF vars
  <2> QED BY <2>2, <2>3, <2>4
<1> QED BY TypeCorrect, CopiesNext, <1>1, <1>2, PTL DEF Spec, MirroredOffKept

(***************************************************************************)
(* What the kill switch accounts for.  A symbol that is no stray has been  *)
(* bought once at most, before anything of it was sold, and every order of *)
(* it was through when it was answered: from then on what is held only     *)
(* falls, so every quantity read of a row covers it, whichever thread      *)
(* reads it and whenever; and the row stays until nothing is held.  So a   *)
(* sell of the kill sells everything, and a swing row that is gone stands  *)
(* for a position that is gone.                                            *)
(***************************************************************************)
Bought(s) == held[s] > 0 \/ s \in sold
In(t, s, places) == op[t].sym = s /\ op[t].at \in places
After == {"book", "stop", "link", "exit", "cancel", "sell"}

Written(s) ==
    /\ row[s].qty > 0 \/ s \in kill.seen => Bought(s)
    /\ row[s].qty > 0 => held[s] <= row[s].qty
    /\ row[s].qty = 0 /\ held[s] > 0 => \E t \in Threads : In(t, s, {"book"})
    /\ \A t \in Threads :
         /\ In(t, s, {"check", "buy"}) => op[t].qty > 0
         /\ In(t, s, After) => Bought(s) /\ held[s] <= op[t].qty
         /\ In(t, s, {"drop"}) => Bought(s) /\ held[s] = 0
Closing(s) ==
    /\ s \in kill.seen => held[s] = 0 \/ row[s].qty > 0
    /\ \A c \in kill.todo : c.sym = s => held[s] <= c.qty
    /\ kill.now.sym = s /\ kill.at \in {"cancel", "sell"} => held[s] <= kill.now.qty
    /\ kill.now.sym = s /\ kill.at = "drop" => held[s] = 0
    /\ s \in kill.seen \ (Swing \cup kill.listed) /\ held[s] > 0 =>
         /\ kill.table = "intraday"
         /\ \/ \E c \in kill.todo : c.sym = s
            \/ kill.now.sym = s /\ kill.at \in {"cancel", "sell"}
    /\ kill.at = "off" /\ s \in kill.seen \cap Swing => held[s] = 0 \/ s \in kill.listed
Hands ==
    /\ \A c \in kill.todo : c.sym \in kill.seen
    /\ kill.at \in {"cancel", "sell", "drop"} => kill.now.sym \in kill.seen
    /\ kill.at = "off" => kill.table # "intraday"
Accounts == Hands /\ \A s \in Symbols \ strays : Written(s) /\ Closing(s)

LEMMA Numbers ==
    ASSUME TypeOK, NEW s \in Symbols
    PROVE  /\ held[s] \in Nat /\ stops[s] \in Nat /\ row[s].qty \in Nat
           /\ kill.now.qty \in Nat
           /\ \A t \in Threads : op[t].qty \in Nat
           /\ \A c \in kill.todo : c.qty \in Nat
BY DEF TypeOK, Positions, Kills

\* What a step of one call does to the calls.
OnlyCall(t) == \A d \in Threads \ {t} : op'[d] = op[d]
LEMMA GoStep ==
    ASSUME TypeOK, NEW t \in Threads, NEW pc, Go(t, pc)
    PROVE  op'[t].sym = op[t].sym /\ op'[t].at = pc /\ op'[t].qty = op[t].qty /\ OnlyCall(t)
<1>1. op \in [Threads -> Positions] BY DEF TypeOK
<1> QED BY <1>1 DEF Go, Positions, OnlyCall

LEMMA DoneStep ==
    ASSUME TypeOK, NEW t \in Threads, Done(t) PROVE op'[t].at = "idle" /\ OnlyCall(t)
<1>1. op \in [Threads -> Positions] BY DEF TypeOK
<1> QED BY <1>1 DEF Done, Idle, OnlyCall

LEMMA NewCall ==
    ASSUME TypeOK, NEW t \in Threads, NEW call, op' = [op EXCEPT ![t] = call]
    PROVE  op'[t] = call /\ OnlyCall(t)
<1>1. op \in [Threads -> Positions] BY DEF TypeOK
<1> QED BY <1>1 DEF OnlyCall

LEMMA OpenRows ==
    ASSUME BooksOK, NEW e \in Engines
    PROVE  /\ \A c \in Open(e) : /\ c.sym \in Table(e) /\ row[c.sym].qty > 0
                                 /\ c.qty = row[c.sym].qty /\ c.sl = row[c.sym].sl
           /\ \A s \in Table(e) : row[s].qty > 0 => \E c \in Open(e) : c.sym = s
<1>1. \A s \in Table(e) : LET c == [Idle EXCEPT !.sym = s, !.qty = row[s].qty, !.sl = row[s].sl]
                          IN  c.sym = s /\ c.qty = row[s].qty /\ c.sl = row[s].sl
  BY DEF Idle
<1>2. ASSUME NEW c \in Open(e)
      PROVE  c.sym \in Table(e) /\ row[c.sym].qty > 0 /\ c.qty = row[c.sym].qty /\ c.sl = row[c.sym].sl
  <2>1. PICK s \in Table(e) : /\ row[s].qty > 0
                             /\ c = [Idle EXCEPT !.sym = s, !.qty = row[s].qty, !.sl = row[s].sl]
    BY DEF Open
  <2> QED BY <1>1, <2>1
<1>3. ASSUME NEW s \in Table(e), row[s].qty > 0 PROVE \E c \in Open(e) : c.sym = s
  <2>1. [Idle EXCEPT !.sym = s, !.qty = row[s].qty, !.sl = row[s].sl] \in Open(e) BY <1>3 DEF Open
  <2> QED BY <1>1, <2>1
<1> QED BY <1>2, <1>3

\* An open row that a thread takes in hand.
LEMMA TakeStep ==
    ASSUME TypeOK, NEW t \in Threads, NEW pc, NEW c \in Open(Serves(t)),
           op' = [op EXCEPT ![t] = [c EXCEPT !.at = pc]]
    PROVE  /\ op'[t].at = pc /\ op'[t].sym = c.sym /\ op'[t].qty = row[c.sym].qty /\ OnlyCall(t)
           /\ c.sym \in Symbols /\ row[c.sym].qty > 0
<1>1. c \in Hand /\ row[c.sym].qty > 0 /\ c.qty = row[c.sym].qty
  BY TypeParts, OpenTyped, OpenRows, ServesTyped
<1>2. op'[t] = [c EXCEPT !.at = pc] /\ OnlyCall(t) BY NewCall
<1> QED BY <1>1, <1>2 DEF Hand, Positions

\* What is held falls, and the row stays as long as something is held.
LEMMA LessHeld ==
    ASSUME TypeOK, NEW s \in Symbols, Closing(s), kill' = kill,
           held'[s] \in Nat, held'[s] <= held[s],
           held'[s] = 0 \/ row'[s].qty > 0 \/ row'[s] = row[s]
    PROVE  Closing(s)'
BY Numbers DEF Closing

LEMMA Unseen == ASSUME Hands', NEW s, s \notin kill'.seen PROVE Closing(s)'
BY DEF Hands, Closing

\* What the step of a call may do to a symbol that is no stray.
Gives(t, s) ==
    /\ held'[s] <= held[s] /\ (Bought(s) => held'[s] > 0 \/ s \in sold')
    /\ held'[s] = 0 \/ row'[s].qty > 0 \/ (row'[s] = row[s] /\ ~In(t, s, {"book"}))
    /\ row'[s].qty > 0 => Bought(s) /\ held'[s] <= row'[s].qty
    /\ op'[t].sym = s /\ op'[t].at \in {"check", "buy"} => op'[t].qty > 0
    /\ op'[t].sym = s /\ op'[t].at \in After => Bought(s) /\ held'[s] <= op'[t].qty
    /\ op'[t].sym = s /\ op'[t].at = "drop" => Bought(s) /\ held'[s] = 0

LEMMA GivesKeeps ==
    ASSUME TypeOK, TypeOK', NEW t \in Threads, NEW s \in Symbols, Written(s), Closing(s), kill' = kill,
           OnlyCall(t), Gives(t, s)
    PROVE  Written(s)' /\ Closing(s)'
<1>1. held[s] \in Nat /\ held'[s] \in Nat /\ row'[s].qty \in Nat BY DEF TypeOK
<1>2. Closing(s)' BY <1>1, LessHeld DEF Gives
<1>3. Bought(s) => Bought(s)' BY DEF Gives, Bought
<1>4. (row[s].qty > 0 \/ s \in kill.seen => Bought(s))' BY <1>3 DEF Gives, Written
<1>5. (row[s].qty > 0 => held[s] <= row[s].qty)' BY DEF Gives
<1>6. (row[s].qty = 0 /\ held[s] > 0 => \E u \in Threads : In(u, s, {"book"}))'
  <2> SUFFICES ASSUME row'[s].qty = 0, held'[s] > 0 PROVE \E u \in Threads : In(u, s, {"book"})'
    OBVIOUS
  <2>1. row'[s] = row[s] /\ ~In(t, s, {"book"}) BY <1>1 DEF Gives
  <2>2. held[s] > 0 BY <1>1 DEF Gives
  <2>3. PICK u \in Threads : In(u, s, {"book"}) BY <2>1, <2>2 DEF Written
  <2>4. u # t BY <2>1, <2>3
  <2>5. op'[u] = op[u] BY <2>4 DEF OnlyCall
  <2> QED BY <2>3, <2>5 DEF In
<1>7. ASSUME NEW u \in Threads
      PROVE  /\ In(u, s, {"check", "buy"})' => op'[u].qty > 0
             /\ In(u, s, After)' => Bought(s)' /\ held'[s] <= op'[u].qty
             /\ In(u, s, {"drop"})' => Bought(s)' /\ held'[s] = 0
  <2>1. CASE u = t BY <1>3, <2>1 DEF Gives, In, After
  <2>2. CASE u # t
    <3>1. op'[u] = op[u] /\ op[u].qty \in Nat BY <2>2, Numbers DEF OnlyCall
    <3>2. held'[s] <= held[s] BY DEF Gives
    <3> QED BY <1>1, <1>3, <3>1, <3>2 DEF Written, In, After
  <2> QED BY <2>1, <2>2
<1> QED BY <1>2, <1>4, <1>5, <1>6, <1>7 DEF Written

\* Of a symbol that the call is not about, nothing changes.
LEMMA GivesAside ==
    ASSUME TypeOK, NEW t \in Threads, NEW s \in Symbols, Written(s),
           held'[s] = held[s], row'[s] = row[s], s \in sold => s \in sold', ~In(t, s, {"book"}),
           op'[t].at = "idle" \/ op'[t].sym # s
    PROVE  Gives(t, s)
<1>1. held[s] \in Nat /\ row[s].qty \in Nat BY Numbers
<1> QED BY <1>1 DEF Gives, Written, Bought, After

\* The same for the symbol of the call, when it keeps what it covers.
LEMMA GivesOn ==
    ASSUME TypeOK, NEW t \in Threads, NEW s \in Symbols, Written(s), In(t, s, After \ {"book"}),
           held'[s] = held[s], row'[s] = row[s], sold' = sold,
           \/ op'[t].at = "idle"
           \/ op'[t].at \in After /\ op'[t].qty = op[t].qty
    PROVE  Gives(t, s)
<1>1. held[s] \in Nat /\ row[s].qty \in Nat BY Numbers
<1>2. Bought(s) /\ held[s] <= op[t].qty BY DEF Written, In, After
<1> QED BY <1>1, <1>2 DEF Gives, Written, Bought, After, In

LEMMA EntryAccounts == ASSUME TypeOK, TypeOK', Accounts, NEW t \in Threads, Entry(t) PROVE Accounts'
<1>C. kill' = kill
  <2>1. Size(t) \/ Check(t) \/ Buy(t) \/ Book(t) => kill' = kill BY DEF Size, Check, Buy, Book
  <2>2. Stop(t) \/ Link(t) \/ Sync(t) => kill' = kill BY DEF Stop, Link, Sync
  <2> QED BY <2>1, <2>2 DEF Entry
<1>H. Hands' BY <1>C DEF Accounts, Hands
<1>B. ASSUME NEW s \in Symbols \ strays
      PROVE  Written(s) /\ Closing(s) /\ held[s] \in Nat /\ row[s].qty \in Nat /\ op[t].qty \in Nat
  BY <1>B, Numbers DEF Accounts
\* It is enough to look at each symbol that is no stray afterwards.
<1>G. ASSUME OnlyCall(t), strays \subseteq strays',
             \A s \in Symbols \ strays' : Gives(t, s) \/ (Written(s)' /\ Closing(s)')
      PROVE  Accounts'
  <2>1. ASSUME NEW s \in Symbols \ strays' PROVE Written(s)' /\ Closing(s)'
    BY <1>B, <1>C, <1>G, <2>1, GivesKeeps
  <2> QED BY <1>H, <2>1 DEF Accounts
<1>1. CASE Size(t)
  <2>1. PICK y \in Table(Serves(t)) \ sold, q \in 1..(Cap - spent) :
            row[y].qty = 0 /\ op' = [op EXCEPT ![t] = [Idle EXCEPT !.at = "check", !.sym = y, !.qty = q]]
    BY <1>1 DEF Size
  <2>2. op'[t].at = "check" /\ op'[t].qty > 0 /\ OnlyCall(t)
    <3>1. op'[t] = [Idle EXCEPT !.at = "check", !.sym = y, !.qty = q] /\ OnlyCall(t) BY <2>1, NewCall
    <3>2. spent \in Nat /\ Cap \in Nat BY BoundsAssumption DEF TypeOK
    <3> QED BY <3>1, <3>2 DEF Idle
  <2>3. UNCHANGED <<held, sold, row, strays>> /\ op[t].at = "idle" BY <1>1 DEF Size, kotak, money, At
  <2>4. ASSUME NEW s \in Symbols \ strays' PROVE Gives(t, s)
    BY <1>B, <2>2, <2>3 DEF Gives, Written, Bought, After, In
  <2> QED BY <1>G, <2>2, <2>3, <2>4
<1>2. CASE Check(t)
  <2>1. UNCHANGED <<held, sold, row, strays>> /\ op[t].at = "check" BY <1>2 DEF Check, kotak, money, At
  <2>2. Go(t, "buy") \/ Done(t) BY <1>2 DEF Check
  <2>3. /\ op'[t].at = "idle" \/ (op'[t].at = "buy" /\ op'[t].sym = op[t].sym /\ op'[t].qty = op[t].qty)
        /\ OnlyCall(t)
    <3>1. CASE Go(t, "buy") BY <3>1, GoStep
    <3>2. CASE Done(t) BY <3>2, DoneStep
    <3> QED BY <2>2, <3>1, <3>2
  <2>4. ASSUME NEW s \in Symbols \ strays' PROVE Gives(t, s)
    BY <1>B, <2>1, <2>3 DEF Gives, Written, Bought, After, In
  <2> QED BY <1>G, <2>1, <2>3, <2>4
<1>3. CASE Buy(t)
  <2> DEFINE y == op[t].sym
             q == op[t].qty
             twice == IF held[y] > 0 \/ y \in sold THEN {y} ELSE {}
  <2>1. /\ UNCHANGED <<sold, row>> /\ op[t].at = "buy" /\ y \in Symbols /\ held \in [Symbols -> Nat]
        /\ q \in Nat
    BY <1>3 DEF Buy, At, TypeOK, Positions
  \* Nothing is bought, or of a stray.
  <2>2. ASSUME op'[t].at \in {"idle", "book"}, OnlyCall(t), strays \subseteq strays',
               (held' = held /\ op'[t].at = "idle") \/ (y \in strays' /\ op'[t].sym = y),
               \A s \in Symbols \ {y} : held'[s] = held[s]
        PROVE  Accounts'
    <3>1. ASSUME NEW s \in Symbols \ strays' PROVE Gives(t, s)
      <4>1. held'[s] = held[s] /\ (op'[t].at = "idle" \/ op'[t].sym # s) BY <2>2
      <4> QED BY <1>B, <2>1, <2>2, <4>1, GivesAside DEF In
    <3> QED BY <1>G, <2>2, <3>1
  <2>3. CASE held' = [held EXCEPT ![y] = @ + q] /\ Go(t, "book") /\ strays' = strays \cup twice
    <3>1. op'[t].at = "book" /\ op'[t].sym = y /\ op'[t].qty = q /\ OnlyCall(t) BY <2>3, GoStep
    <3>2. held'[y] = held[y] + q /\ \A s \in Symbols \ {y} : held'[s] = held[s] BY <2>1, <2>3
    <3>3. CASE y \in strays' BY <2>2, <2>3, <3>1, <3>2, <3>3
    <3>4. CASE y \notin strays'
      <4>1. held[y] = 0 /\ y \notin sold /\ ~Bought(y) /\ y \notin strays
        BY <2>1, <2>3, <3>4 DEF Bought
      <4>2. Written(y) BY <1>B, <2>1, <4>1
      <4>3. q > 0 BY <2>1, <4>2 DEF Written, In
      <4>4. row[y].qty = 0 /\ y \notin kill.seen BY <1>B, <2>1, <4>1, <4>2 DEF Written
      <4>5. \A u \in Threads : ~In(u, y, After \cup {"drop"}) BY <4>1, <4>2 DEF Written, In, After
      <4>6. held'[y] = q /\ held'[y] > 0 BY <2>1, <3>2, <4>1, <4>3
      <4>7. ASSUME NEW s, s = y PROVE Closing(s)' BY <1>C, <1>H, <4>4, <4>7, Unseen
      <4>8. ASSUME NEW s, s = y PROVE Written(s)'
        <5>1. (\E u \in Threads : In(u, s, {"book"}))' BY <3>1, <4>8 DEF In
        <5>2. ASSUME NEW u \in Threads
              PROVE  /\ In(u, s, {"check", "buy"})' => op'[u].qty > 0
                     /\ In(u, s, After)' => Bought(s)' /\ held'[s] <= op'[u].qty
                     /\ In(u, s, {"drop"})' => Bought(s)' /\ held'[s] = 0
          <6>1. CASE u = t BY <2>1, <3>1, <4>6, <4>8, <6>1 DEF In, Bought
          <6>2. CASE u # t
            <7>1. op'[u] = op[u] BY <3>1, <6>2 DEF OnlyCall
            <7> QED BY <4>2, <4>5, <4>8, <7>1 DEF Written, In
          <6> QED BY <6>1, <6>2
        <5>3. Bought(s)' /\ row'[s].qty = 0 /\ s \notin kill'.seen
          BY <1>C, <2>1, <4>4, <4>6, <4>8 DEF Bought
        <5> QED BY <5>1, <5>2, <5>3 DEF Written
      <4>9. ASSUME NEW s \in Symbols \ strays', s # y PROVE Gives(t, s)
        BY <1>B, <2>1, <2>3, <3>1, <3>2, <4>9, GivesAside DEF In
      <4>10. ASSUME NEW s \in Symbols \ strays' PROVE Gives(t, s) \/ (Written(s)' /\ Closing(s)')
        BY <4>7, <4>8, <4>9
      <4> QED BY <1>G, <2>3, <3>1, <4>10
    <3> QED BY <3>3, <3>4
  <2>4. CASE /\ \E k \in 0..(q - 1) :
                   /\ held' = [held EXCEPT ![y] = @ + k]
                   /\ Go(t, "book") \/ op' = [op EXCEPT ![t].at = "book", ![t].qty = k]
             /\ strays' = strays \cup {y}
    <3>1. PICK k \in 0..(q - 1) :
                   /\ held' = [held EXCEPT ![y] = @ + k]
                   /\ Go(t, "book") \/ op' = [op EXCEPT ![t].at = "book", ![t].qty = k]
      BY <2>4
    <3>2. op'[t].at = "book" /\ op'[t].sym = y /\ OnlyCall(t)
      <4>1. CASE op' = [op EXCEPT ![t].at = "book", ![t].qty = k] BY <4>1 DEF TypeOK, Positions, OnlyCall
      <4> QED BY <3>1, <4>1, GoStep
    <3>3. \A s \in Symbols \ {y} : held'[s] = held[s] BY <2>1, <3>1
    <3> QED BY <2>2, <2>4, <3>2, <3>3
  <2>5. CASE held' = [held EXCEPT ![y] = @ + q] /\ Done(t) /\ strays' = strays \cup {y}
    <3>1. ASSUME NEW s \in Symbols \ strays' PROVE Gives(t, s)
      <4>1. s # y /\ held'[s] = held[s] BY <2>1, <2>5
      <4> QED BY <1>B, <2>1, <2>5, <4>1, DoneStep, GivesAside DEF In
    <3> QED BY <1>G, <2>5, <3>1, DoneStep
  <2>6. CASE Done(t) /\ UNCHANGED <<held, strays>>
    <3>1. op'[t].at = "idle" /\ OnlyCall(t) BY <2>6, DoneStep
    <3> QED BY <2>2, <2>6, <3>1
  <2> QED BY <1>3, <2>3, <2>4, <2>5, <2>6 DEF Buy
<1>4. CASE Book(t)
  <2> DEFINE y == op[t].sym
  <2>1. UNCHANGED <<held, sold>> /\ op[t].at = "book" /\ y \in Symbols BY <1>4 DEF Book, kotak, At, TypeOK
  <2>2. CASE /\ row[y].qty = 0 /\ row' = [row EXCEPT ![y] = [qty |-> op[t].qty, sl |-> FALSE]]
             /\ Go(t, "stop") /\ strays' = strays
    <3>1. op'[t].at = "stop" /\ op'[t].sym = y /\ op'[t].qty = op[t].qty /\ OnlyCall(t) BY <2>2, GoStep
    <3>2. row'[y].qty = op[t].qty /\ \A s \in Symbols \ {y} : row'[s] = row[s] BY <2>1, <2>2 DEF TypeOK
    <3>3. ASSUME NEW s \in Symbols \ strays', s # y PROVE Gives(t, s)
      BY <1>B, <2>1, <2>2, <3>1, <3>2, <3>3, GivesAside DEF In
    <3>4. ASSUME y \notin strays' PROVE Gives(t, y)
      <4>1. Bought(y) /\ held[y] <= op[t].qty BY <1>B, <2>1, <2>2, <3>4 DEF Written, In, After
      <4> QED BY <1>B, <2>1, <2>2, <3>1, <3>2, <3>4, <4>1 DEF Gives, Bought, After
    <3> QED BY <1>G, <2>2, <3>1, <3>3, <3>4
  <2>3. CASE Done(t) /\ row' = row /\ strays' = strays \cup {y}
    <3>1. ASSUME NEW s \in Symbols \ strays' PROVE Gives(t, s)
      BY <1>B, <2>1, <2>3, DoneStep, GivesAside DEF In
    <3> QED BY <1>G, <2>3, <3>1, DoneStep
  <2> QED BY <1>4, <2>2, <2>3 DEF Book
<1>5. CASE Stop(t)
  <2>1. UNCHANGED <<held, sold, row, strays>> /\ op[t].at = "stop" BY <1>5 DEF Stop, money, At
  <2>2. /\ \/ op'[t].at = "idle"
           \/ op'[t].at \in {"link", "exit"} /\ op'[t].sym = op[t].sym /\ op'[t].qty = op[t].qty
        /\ OnlyCall(t)
    <3>1. Go(t, "link") \/ Go(t, "exit") \/ Done(t) BY <1>5 DEF Stop
    <3> QED BY <3>1, GoStep, DoneStep
  <2>3. ASSUME NEW s \in Symbols \ strays' PROVE Gives(t, s)
    <3>1. CASE s = op[t].sym BY <1>B, <2>1, <2>2, <3>1, GivesOn DEF In, After
    <3>2. CASE s # op[t].sym BY <1>B, <2>1, <2>2, <3>2, GivesAside DEF In
    <3> QED BY <3>1, <3>2
  <2> QED BY <1>G, <2>1, <2>2, <2>3
<1>6. CASE Link(t)
  <2>1. UNCHANGED <<held, sold, strays>> /\ op[t].at = "link" BY <1>6 DEF Link, kotak, money, At
  <2>2. op'[t].at = "idle" /\ OnlyCall(t) BY <1>6, DoneStep DEF Link
  <2>3. op[t].sym \in Symbols BY <2>1 DEF TypeOK, At
  <2>4. ASSUME NEW s \in Symbols \ strays' PROVE Gives(t, s)
    <3>1. row'[s].qty = row[s].qty BY <1>6, <2>3 DEF Link, TypeOK
    <3>2. row'[s] = row[s] \/ row'[s].qty > 0 BY <1>6, <2>3, <3>1 DEF Link, TypeOK
    <3> QED BY <1>B, <2>1, <2>2, <3>1, <3>2 DEF Gives, Written, Bought, After, In
  <2> QED BY <1>G, <2>1, <2>2, <2>4
<1>7. CASE Sync(t)
  <2>1. PICK c \in Open(Serves(t)) : op' = [op EXCEPT ![t] = [c EXCEPT !.at = "stop"]] BY <1>7 DEF Sync
  <2>2. /\ op'[t].at = "stop" /\ op'[t].sym = c.sym /\ op'[t].qty = row[c.sym].qty /\ OnlyCall(t)
        /\ c.sym \in Symbols /\ row[c.sym].qty > 0
    BY <2>1, TakeStep
  <2>3. UNCHANGED <<held, sold, row, strays>> /\ op[t].at = "idle" BY <1>7 DEF Sync, kotak, money, At
  <2>4. ASSUME NEW s \in Symbols \ strays' PROVE Gives(t, s)
    BY <1>B, <2>2, <2>3 DEF Gives, Written, Bought, After, In
  <2> QED BY <1>G, <2>2, <2>3, <2>4
<1> QED BY <1>1, <1>2, <1>3, <1>4, <1>5, <1>6, <1>7 DEF Entry

LEMMA LeaveAccounts == ASSUME TypeOK, TypeOK', Accounts, NEW t \in Threads, Leave(t) PROVE Accounts'
<1>C. kill' = kill BY DEF Leave, Exit, Cancel, Sell, Drop
<1>H. Hands' BY <1>C DEF Accounts, Hands
<1>B. ASSUME NEW s \in Symbols \ strays
      PROVE  /\ Written(s) /\ Closing(s) /\ held[s] \in Nat /\ stops[s] \in Nat /\ row[s].qty \in Nat
             /\ op[t].qty \in Nat
  BY <1>B, Numbers DEF Accounts
<1>G. ASSUME OnlyCall(t), strays \subseteq strays', \A s \in Symbols \ strays' : Gives(t, s) PROVE Accounts'
  <2>1. ASSUME NEW s \in Symbols \ strays' PROVE Written(s)' /\ Closing(s)'
    BY <1>B, <1>C, <1>G, <2>1, GivesKeeps
  <2> QED BY <1>H, <2>1 DEF Accounts
<1>1. CASE Exit(t)
  <2>1. UNCHANGED <<held, sold, row, strays>> /\ op[t].at # "book" BY <1>1 DEF Exit, kotak, money, At
  <2>2. CASE \E c \in Open(Serves(t)) :
                op' = [op EXCEPT ![t] = [c EXCEPT !.at = IF held[c.sym] > 0 THEN "cancel" ELSE "drop"]]
    <3>1. PICK c \in Open(Serves(t)) :
                  op' = [op EXCEPT ![t] = [c EXCEPT !.at = IF held[c.sym] > 0 THEN "cancel" ELSE "drop"]]
      BY <2>2
    <3> DEFINE pc == IF held[c.sym] > 0 THEN "cancel" ELSE "drop"
    <3>4. op' = [op EXCEPT ![t] = [c EXCEPT !.at = pc]] BY <3>1
    <3> HIDE DEF pc
    <3>5. /\ op'[t].at = pc /\ op'[t].sym = c.sym /\ op'[t].qty = row[c.sym].qty /\ OnlyCall(t)
          /\ c.sym \in Symbols /\ row[c.sym].qty > 0
      BY <3>4, TakeStep
    <3>2. op'[t].at = IF held[c.sym] > 0 THEN "cancel" ELSE "drop" BY <3>5 DEF pc
    <3>3. ASSUME NEW s \in Symbols \ strays' PROVE Gives(t, s)
      <4>1. CASE s = c.sym
        <5>1. held[s] \in Nat /\ Bought(s) /\ held[s] <= row[s].qty BY <1>B, <2>1, <3>5, <4>1 DEF Written
        <5> QED BY <2>1, <3>2, <3>5, <4>1, <5>1 DEF Gives, Bought, After
      <4>2. CASE s # c.sym BY <1>B, <2>1, <3>5, <4>2, GivesAside DEF In
      <4> QED BY <4>1, <4>2
    <3> QED BY <1>G, <2>1, <3>3, <3>5
  <2>3. CASE Done(t)
    <3>1. ASSUME NEW s \in Symbols \ strays' PROVE Gives(t, s)
      BY <1>B, <2>1, <2>3, DoneStep, GivesAside DEF In
    <3> QED BY <1>G, <2>1, <2>3, <3>1, DoneStep
  <2> QED BY <1>1, <2>2, <2>3 DEF Exit
<1>2. CASE Cancel(t)
  <2>1. UNCHANGED <<held, sold, row, strays>> /\ op[t].at = "cancel" /\ Go(t, "sell")
    BY <1>2 DEF Cancel, money, At
  <2>2. op'[t].sym = op[t].sym /\ op'[t].at = "sell" /\ op'[t].qty = op[t].qty /\ OnlyCall(t)
    BY <2>1, GoStep
  <2>3. ASSUME NEW s \in Symbols \ strays' PROVE Gives(t, s)
    <3>1. CASE s = op[t].sym BY <1>B, <2>1, <2>2, <3>1, GivesOn DEF In, After
    <3>2. CASE s # op[t].sym BY <1>B, <2>1, <2>2, <3>2, GivesAside DEF In
    <3> QED BY <3>1, <3>2
  <2> QED BY <1>G, <2>1, <2>2, <2>3
<1>3. CASE Sell(t)
  <2> DEFINE y == op[t].sym
  <2>1. row' = row /\ op[t].at = "sell" /\ y \in Symbols BY <1>3 DEF Sell, At, TypeOK
  <2>2. /\ \/ op'[t].at = "idle"
           \/ op'[t].at = "drop" /\ op'[t].sym = y /\ SellOk(op[t])
        /\ OnlyCall(t)
    <3>1. CASE Go(t, "drop") /\ SellOk(op[t]) BY <3>1, GoStep
    <3>2. CASE Done(t) BY <3>2, DoneStep
    <3> QED BY <1>3, <3>1, <3>2 DEF Sell
  <2>3. CASE SellOk(op[t]) /\ y \in strays' /\ strays \subseteq strays'
    <3>1. ASSUME NEW s \in Symbols \ strays' PROVE Gives(t, s)
      <4>1. s # y BY <2>3
      <4>2. held'[s] = held[s] /\ (s \in sold => s \in sold')
        BY <2>1, <2>3, <4>1 DEF SellOk, Sells, TypeOK
      <4> QED BY <1>B, <2>1, <2>2, <2>3, <4>1, <4>2, GivesAside DEF In
    <3> QED BY <1>G, <2>2, <2>3, <3>1
  <2>4. CASE Sellable(op[t]) /\ Sells(op[t]) /\ strays' = strays
    <3>1. /\ held'[y] = held[y] - op[t].qty /\ sold' = sold \cup {y}
          /\ \A s \in Symbols \ {y} : held'[s] = held[s]
      BY <2>1, <2>4 DEF Sells, TypeOK
    <3>2. ASSUME NEW s \in Symbols \ strays' PROVE Gives(t, s)
      <4>1. CASE s = y
        <5>1. Bought(s) /\ held[s] <= op[t].qty BY <1>B, <2>1, <2>4, <4>1 DEF Written, In, After
        <5>2. op[t].qty <= held[s] BY <1>B, <2>4, <4>1 DEF Sellable
        <5>3. held'[s] = 0 /\ s \in sold' BY <1>B, <2>4, <3>1, <4>1, <5>1, <5>2
        <5> QED BY <1>B, <2>1, <2>2, <2>4, <5>1, <5>3 DEF Gives, Written, After
      <4>2. CASE s # y BY <1>B, <2>1, <2>2, <2>4, <3>1, <4>2, GivesAside DEF In
      <4> QED BY <4>1, <4>2
    <3> QED BY <1>G, <2>2, <2>4, <3>2
  <2>5. CASE Done(t) /\ UNCHANGED <<held, sold, strays>>
    <3>1. ASSUME NEW s \in Symbols \ strays' PROVE Gives(t, s)
      <4>1. op'[t].at = "idle" BY <2>5, DoneStep
      <4> QED BY <1>B, <2>1, <2>5, <4>1, GivesAside DEF In
    <3> QED BY <1>G, <2>2, <2>5, <3>1
  <2> QED BY <1>3, <2>3, <2>4, <2>5 DEF Sell, SellOk, SellFails
<1>4. CASE Drop(t)
  <2> DEFINE y == op[t].sym
  <2>1. UNCHANGED <<held, sold, strays>> /\ op[t].at = "drop" /\ y \in Symbols
    BY <1>4 DEF Drop, kotak, money, At, TypeOK
  <2>2. op'[t].at = "idle" /\ OnlyCall(t) BY <1>4, DoneStep DEF Drop
  <2>3. row'[y].qty = 0 /\ \A s \in Symbols \ {y} : row'[s] = row[s]
    BY <1>4, <2>1 DEF Drop, TypeOK, NoRow
  <2>4. ASSUME NEW s \in Symbols \ strays' PROVE Gives(t, s)
    <3>1. CASE s = y
      <4>1. held[s] = 0 BY <1>B, <2>1, <3>1 DEF Written, In
      <4> QED BY <1>B, <2>1, <2>2, <2>3, <3>1, <4>1 DEF Gives, Bought, After
    <3>2. CASE s # y BY <1>B, <2>1, <2>2, <2>3, <3>2, GivesAside DEF In
    <3> QED BY <3>1, <3>2
  <2> QED BY <1>G, <2>1, <2>2, <2>4
<1> QED BY <1>1, <1>2, <1>3, <1>4 DEF Leave

LEMMA KotakAccounts ==
    ASSUME TypeOK, TypeOK', Accounts, NEW t \in Symbols, Fill(t) \/ Adopt(t) PROVE Accounts'
<1>1. op' = op /\ kill' = kill /\ strays' = strays BY DEF Fill, Adopt, money
<1>2. Hands' BY <1>1 DEF Accounts, Hands
<1>B. ASSUME NEW s \in Symbols \ strays
      PROVE  /\ Written(s) /\ Closing(s) /\ held[s] \in Nat /\ held'[s] \in Nat
             /\ row[s].qty \in Nat /\ stops[s] \in Nat
  BY <1>B, Numbers DEF Accounts, TypeOK
<1>3. CASE Fill(t)
  <2>1. /\ row' = row /\ stops[t] > 0 /\ held'[t] = held[t] - stops[t] /\ sold' = sold \cup {t}
        /\ \A s \in Symbols \ {t} : held'[s] = held[s]
    BY <1>3 DEF Fill, TypeOK
  <2>2. ASSUME NEW s \in Symbols \ strays PROVE Written(s)' /\ Closing(s)'
    <3>1. CASE s = t
      <4>1. held'[s] <= held[s] /\ held[s] > 0 BY <1>B, <2>1, <3>1
      <4>2. Closing(s)' BY <1>1, <1>B, <2>1, <4>1, LessHeld
      <4>3. \A u \in Threads : op[u].qty \in Nat BY Numbers
      <4> QED BY <1>1, <1>B, <2>1, <3>1, <4>1, <4>2, <4>3 DEF Written, In, Bought, After
    <3>2. CASE s # t
      <4>1. Closing(s)' BY <1>1, <1>B, <2>1, <3>2, LessHeld
      <4> QED BY <1>1, <1>B, <2>1, <3>2, <4>1 DEF Written, In, Bought, After
    <3> QED BY <3>1, <3>2
  <2> QED BY <1>1, <1>2, <2>2 DEF Accounts
<1>4. CASE Adopt(t)
  <2>1. /\ UNCHANGED <<held, sold>> /\ row[t].qty = 0 /\ held[t] > 0 /\ row'[t].qty = held[t]
        /\ \A s \in Symbols \ {t} : row'[s] = row[s]
    BY <1>4 DEF Adopt, kotak, TypeOK
  <2>2. ASSUME NEW s \in Symbols \ strays PROVE Written(s)' /\ Closing(s)'
    <3>1. CASE s = t
      <4>1. Closing(s)' BY <1>1, <1>B, <2>1, <3>1, LessHeld
      <4> QED BY <1>1, <1>B, <2>1, <3>1, <4>1 DEF Written, In, Bought, After
    <3>2. CASE s # t
      <4>1. Closing(s)' BY <1>1, <1>B, <2>1, <3>2, LessHeld
      <4> QED BY <1>1, <1>B, <2>1, <3>2, <4>1 DEF Written, In, Bought, After
    <3> QED BY <3>1, <3>2
  <2> QED BY <1>1, <1>2, <2>2 DEF Accounts
<1> QED BY <1>3, <1>4

\* A restart ends every call; what was bought and not written down is a stray.
LEMMA RestartAccounts == ASSUME TypeOK, TypeOK', Accounts, Restart PROVE Accounts'
<1>1. /\ op' = [t \in Threads |-> Idle] /\ kill' = NoKill /\ UNCHANGED <<held, sold, row>>
      /\ strays' = strays \cup {op[t].sym : t \in {x \in Threads : At(x, "book")}}
  BY DEF Restart, kotak
<1>2. kill'.seen = {} /\ kill'.todo = {} /\ kill'.at = "idle" BY <1>1 DEF NoKill
<1>3. \A t \in Threads : op'[t].at = "idle" BY <1>1 DEF Idle
<1>4. Hands' BY <1>2, <1>3 DEF Hands
<1>5. ASSUME NEW s \in Symbols \ strays' PROVE Written(s)' /\ Closing(s)'
  <2>1. Written(s) BY <1>1 DEF Accounts
  <2>2. \A t \in Threads : ~In(t, s, {"book"}) BY <1>1 DEF In, At
  <2>3. Closing(s)' BY <1>2, <1>4, Unseen
  <2> QED BY <1>1, <1>2, <1>3, <2>1, <2>2, <2>3 DEF Written, In, Bought, After
<1> QED BY <1>4, <1>5 DEF Accounts

\* What a step of the kill leaves alone outside the kill.
LEMMA KillOnly ==
    ASSUME TypeOK, NEW s \in Symbols, Written(s), UNCHANGED <<held, row, sold, op>>,
           s \in kill'.seen => Bought(s)
    PROVE  Written(s)'
BY DEF Written, In, Bought, After

LEMMA ReadingAccounts ==
    ASSUME TypeOK, Accounts, NEW k \in Kills, NEW e \in Engines, kill' = Reading(k, e),
           UNCHANGED <<held, row, sold, op, strays>>,
           \/ k = NoKill /\ e = "intraday"
           \/ k = kill /\ e = "swing" /\ kill.at = "take" /\ kill.todo = {}
    PROVE  Accounts'
<1>1. /\ kill'.at = "take" /\ kill'.table = e /\ kill'.todo = Open(e) /\ kill'.listed = k.listed
      /\ kill'.seen = k.seen \cup {c.sym : c \in Open(e)} /\ kill'.now = k.now
  BY DEF Reading, Kills
<1>2. BooksOK BY TypeParts
<1>3. \A s \in Symbols : s \in {c.sym : c \in Open(e)} <=> (s \in Table(e) /\ row[s].qty > 0)
  BY <1>2, OpenRows
<1>4. Hands' BY <1>1 DEF Accounts, Hands
<1>5. k.seen \subseteq kill.seen BY DEF NoKill
<1>6. ASSUME NEW s \in Symbols \ strays PROVE Written(s)' /\ Closing(s)'
  <2>1. Written(s) /\ Closing(s) /\ held[s] \in Nat /\ row[s].qty \in Nat BY Numbers DEF Accounts
  <2>2. s \in kill'.seen => Bought(s) BY <1>1, <1>3, <1>5, <2>1 DEF Written
  <2>3. Written(s)' BY <2>1, <2>2, KillOnly
  <2>4. s \in kill'.seen => held[s] = 0 \/ row[s].qty > 0 BY <1>1, <1>3, <1>5, <2>1 DEF Closing
  <2>5. \A c \in Open(e) : c.sym = s => held[s] <= c.qty
    <3> SUFFICES ASSUME NEW c \in Open(e), c.sym = s PROVE held[s] <= c.qty OBVIOUS
    <3>1. row[s].qty > 0 /\ c.qty = row[s].qty BY <1>2, OpenRows
    <3> QED BY <2>1, <3>1 DEF Written
  <2>6. ASSUME s \in kill'.seen \ (Swing \cup kill'.listed), held[s] > 0
        PROVE  e = "intraday" /\ \E c \in Open(e) : c.sym = s
    <3>1. CASE k = NoKill /\ e = "intraday"
      <4>1. s \in {c.sym : c \in Open(e)} BY <1>1, <2>6, <3>1 DEF NoKill
      <4> QED BY <3>1, <4>1
    <3>2. CASE k = kill /\ e = "swing" /\ kill.at = "take" /\ kill.todo = {}
      <4>1. s \notin Table("swing") BY <2>6 DEF Table, EngineOf
      <4>2. s \in kill.seen \ (Swing \cup kill.listed) BY <1>1, <1>3, <2>6, <3>2, <4>1
      <4> QED BY <2>1, <2>6, <3>2, <4>2 DEF Closing
    <3> QED BY <3>1, <3>2
  <2>7. Closing(s)' BY <1>1, <2>4, <2>5, <2>6 DEF Closing
  <2> QED BY <2>3, <2>7
<1> QED BY <1>4, <1>6 DEF Accounts

LEMMA CloseAccounts == ASSUME TypeOK, TypeOK', Accounts, Kill \/ Close PROVE Accounts'
<1>0. Hands BY DEF Accounts
<1>K. kill \in Kills BY DEF TypeOK
<1>C. op' = op /\ strays \subseteq strays' /\ (strays' = strays \/ KillSell)
  <2>1. Kill \/ KillTake \/ KillCancel => op' = op /\ strays' = strays BY DEF Kill, KillTake, KillCancel, money
  <2>2. KillDrop \/ KillNext \/ KillOff => op' = op /\ strays' = strays BY DEF KillDrop, KillNext, KillOff, money
  <2>3. KillSell => op' = op /\ strays \subseteq strays' BY DEF KillSell, SellOk, SellFails
  <2> QED BY <2>1, <2>2, <2>3 DEF Close
<1>B. ASSUME NEW s \in Symbols \ strays
      PROVE  /\ Written(s) /\ Closing(s) /\ held[s] \in Nat /\ held'[s] \in Nat
             /\ row[s].qty \in Nat /\ stops[s] \in Nat /\ kill.now.qty \in Nat
  BY <1>B, Numbers DEF Accounts, TypeOK
<1>1. CASE Kill
  <2>1. UNCHANGED <<held, row, sold>> BY <1>1 DEF Kill, kotak
  <2>2. kill' = Reading(NoKill, "intraday") BY <1>1 DEF Kill
  <2>3. strays' = strays BY <1>1 DEF Kill, money
  <2> QED BY <1>C, <2>1, <2>2, <2>3, ReadingAccounts, Constants DEF Engines
<1>2. CASE KillTake
  <2>1. PICK c \in kill.todo :
            LET s == c.sym
                k == [kill EXCEPT !.todo = @ \ {c}]
            IN  kill' = CASE kill.table = "intraday" -> [k EXCEPT !.at = "cancel", !.now = c]
                          [] kill.table = "swing" /\ row[s].qty = 0 -> k
                          [] kill.table = "swing" /\ row[s].qty > 0 ->
                                [k EXCEPT !.at = IF held[s] > 0 THEN "cancel" ELSE "drop",
                                          !.now = [c EXCEPT !.qty = row[s].qty, !.sl = row[s].sl]]
    BY <1>2 DEF KillTake
  <2> DEFINE t == c.sym
             now == [c EXCEPT !.qty = row[t].qty, !.sl = row[t].sl]
  <2>2. c \in Positions /\ t \in Symbols /\ t \in kill.seen BY <1>K, <1>0, <2>1 DEF Kills, Hands
  <2>3. row[t].qty \in Nat /\ held[t] \in Nat BY <2>2, Numbers
  <2>4. now.qty = row[t].qty /\ now.sym = t BY <2>2 DEF Positions
  <2>5. UNCHANGED <<held, row, sold>> /\ kill.at = "take" BY <1>2 DEF KillTake, kotak
  <2>6. /\ kill'.seen = kill.seen /\ kill'.listed = kill.listed /\ kill'.table = kill.table
        /\ kill'.todo = kill.todo \ {c}
        /\ \/ kill.table = "intraday" /\ kill'.at = "cancel" /\ kill'.now = c
           \/ kill.table = "swing" /\ row[t].qty = 0 /\ kill'.at = "take"
           \/ /\ kill.table = "swing" /\ row[t].qty > 0 /\ kill'.now = now
              /\ \/ kill'.at = "cancel"
                 \/ kill'.at = "drop" /\ held[t] = 0
    <3>1. kill.table \in {"intraday", "swing"} BY <1>K DEF Kills, Engines
    <3>2. CASE kill.table = "intraday"
      <4>1. kill' = [kill EXCEPT !.todo = @ \ {c}, !.at = "cancel", !.now = c] BY <1>K, <2>1, <3>2 DEF Kills
      <4> QED BY <1>K, <3>2, <4>1 DEF Kills
    <3>3. CASE kill.table = "swing" /\ row[t].qty = 0
      <4>1. kill' = [kill EXCEPT !.todo = @ \ {c}] BY <2>1, <3>3
      <4> QED BY <1>K, <2>5, <3>3, <4>1 DEF Kills
    <3>4. CASE kill.table = "swing" /\ row[t].qty > 0
      <4> HIDE DEF now
      <4>1. kill' = [[kill EXCEPT !.todo = @ \ {c}] EXCEPT !.at = IF held[t] > 0 THEN "cancel" ELSE "drop",
                                                           !.now = now]
        BY <2>1, <2>3, <3>4 DEF now
      <4>2. /\ kill'.seen = kill.seen /\ kill'.listed = kill.listed /\ kill'.table = kill.table
            /\ kill'.todo = kill.todo \ {c} /\ kill'.now = now
            /\ kill'.at = IF held[t] > 0 THEN "cancel" ELSE "drop"
        BY <1>K, <4>1 DEF Kills
      <4> QED BY <2>3, <3>4, <4>2
    <3> QED BY <2>3, <3>1, <3>2, <3>3, <3>4
  <2> HIDE DEF now
  <2>7. Hands' BY <1>0, <1>C, <2>2, <2>4, <2>6 DEF Hands
  <2>8. ASSUME NEW s \in Symbols \ strays PROVE Written(s)' /\ Closing(s)'
    <3>1. Written(s)' BY <1>B, <1>C, <2>5, <2>6, KillOnly DEF Written
    <3>2. s = t => held[s] <= c.qty BY <1>B, <2>1 DEF Closing
    <3>3. s = t /\ row[t].qty > 0 => held[s] <= row[t].qty BY <1>B DEF Written
    <3>4. s = t /\ row[t].qty = 0 => held[s] = 0 BY <1>B, <2>2, <2>3 DEF Closing
    <3>5. s \in kill'.seen => held'[s] = 0 \/ row'[s].qty > 0 BY <1>B, <2>5, <2>6 DEF Closing
    <3>6. \A d \in kill'.todo : d.sym = s => held'[s] <= d.qty BY <1>B, <2>5, <2>6 DEF Closing
    <3>7. kill'.now.sym = s /\ kill'.at \in {"cancel", "sell"} => held'[s] <= kill'.now.qty
      BY <2>4, <2>5, <2>6, <3>2, <3>3
    <3>8. kill'.now.sym = s /\ kill'.at = "drop" => held'[s] = 0 BY <2>4, <2>5, <2>6
    <3>9. ASSUME s \in kill'.seen \ (Swing \cup kill'.listed), held'[s] > 0
          PROVE  /\ kill'.table = "intraday"
                 /\ \/ \E d \in kill'.todo : d.sym = s
                    \/ kill'.now.sym = s /\ kill'.at \in {"cancel", "sell"}
      <4>1. kill.table = "intraday" /\ \E d \in kill.todo : d.sym = s
        BY <1>B, <2>5, <2>6, <3>9 DEF Closing
      <4>2. kill'.at = "cancel" /\ kill'.now = c /\ kill'.table = "intraday" BY <2>6, <4>1
      <4> QED BY <2>6, <4>1, <4>2
    <3>10. kill'.at # "off" BY <2>6
    <3> QED BY <3>1, <3>5, <3>6, <3>7, <3>8, <3>9, <3>10 DEF Closing
  <2> QED BY <1>C, <2>7, <2>8 DEF Accounts
<1>3. CASE KillCancel
  <2>1. UNCHANGED <<held, row, sold>> /\ kill.at = "cancel" /\ kill' = [kill EXCEPT !.at = "sell"]
    BY <1>3 DEF KillCancel
  <2>2. /\ kill'.at = "sell" /\ kill'.seen = kill.seen /\ kill'.listed = kill.listed /\ kill'.now = kill.now
        /\ kill'.table = kill.table /\ kill'.todo = kill.todo
    BY <1>K, <2>1 DEF Kills
  <2>3. Hands' BY <1>0, <1>C, <2>1, <2>2 DEF Hands
  <2>4. ASSUME NEW s \in Symbols \ strays PROVE Written(s)' /\ Closing(s)'
    <3>1. Written(s)' BY <1>B, <1>C, <2>1, <2>2, KillOnly DEF Written
    <3>2. Closing(s)' BY <1>B, <2>1, <2>2 DEF Closing
    <3> QED BY <3>1, <3>2
  <2> QED BY <1>C, <2>3, <2>4 DEF Accounts
<1>4. CASE KillSell
  <2> DEFINE t == kill.now.sym
  <2>1. row' = row /\ kill.at = "sell" /\ t \in Symbols /\ t \in kill.seen
    BY <1>4, <1>0 DEF KillSell, TypeOK, Hands
  <2>2. /\ kill'.seen = kill.seen /\ kill'.table = kill.table /\ kill'.todo = kill.todo
        /\ \/ SellOk(kill.now) /\ kill'.at = "drop" /\ kill'.listed = kill.listed /\ kill'.now = kill.now
           \/ /\ SellFails(kill.now) /\ kill'.at = "take"
              /\ kill'.listed = IF kill.table = "swing" THEN kill.listed ELSE kill.listed \cup {t}
    BY <1>K, <1>4 DEF KillSell, Kills
  <2>3. Hands' BY <1>0, <1>C, <2>1, <2>2 DEF Hands
  <2>4. /\ t \in sold => t \in sold'
        /\ \A s \in Symbols \ {t} : held'[s] = held[s] /\ (s \in sold' <=> s \in sold)
    BY <2>1, <2>2 DEF SellOk, SellFails, Sells, TypeOK
  <2>5. \/ UNCHANGED <<held, sold>> /\ kill'.at = "take"
        \/ Sellable(kill.now) /\ held'[t] = held[t] - kill.now.qty /\ t \in sold'
        \/ t \in strays'
    BY <2>1, <2>2 DEF SellOk, SellFails, Sells, TypeOK
  <2>6. ASSUME NEW s \in Symbols \ strays' PROVE Written(s)' /\ Closing(s)'
    <3>1. s # t => held'[s] = held[s] BY <2>4
    <3>2. s = t => held'[s] = 0 \/ (held'[s] = held[s] /\ kill'.at = "take" /\ (s \in sold' <=> s \in sold))
      <4> SUFFICES ASSUME s = t
                   PROVE  held'[s] = 0 \/ (held'[s] = held[s] /\ kill'.at = "take" /\ (s \in sold' <=> s \in sold))
        OBVIOUS
      <4>1. held[s] <= kill.now.qty BY <1>B, <1>C, <2>1 DEF Closing
      <4>2. Sellable(kill.now) => kill.now.qty <= held[s] BY <1>B, <1>C DEF Sellable
      <4> QED BY <1>B, <1>C, <2>5, <2>6, <4>1, <4>2
    <3>3. Bought(s) => Bought(s)'
      <4>1. s # t \/ t \in sold' \/ UNCHANGED <<held, sold>> BY <2>5, <2>6
      <4> QED BY <2>4, <4>1 DEF Bought
    <3>4. Bought(s)' => Bought(s)
      <4>1. s = t => Bought(s) BY <1>B, <1>C, <2>1 DEF Written
      <4> QED BY <2>4, <4>1 DEF Bought
    <3>5. held'[s] <= held[s] BY <1>B, <1>C, <3>1, <3>2
    <3>6. \A u \in Threads : op[u].qty \in Nat BY Numbers
    <3>7. Written(s)' BY <1>B, <1>C, <2>1, <2>2, <3>3, <3>4, <3>5, <3>6 DEF Written, In, After
    <3>8. s \in kill'.seen => held'[s] = 0 \/ row'[s].qty > 0 BY <1>B, <1>C, <2>1, <2>2, <3>1, <3>2 DEF Closing
    <3>9. \A c \in kill'.todo : c.sym = s => held'[s] <= c.qty
      <4>1. \A c \in kill.todo : c.sym = s => held[s] <= c.qty /\ c.qty \in Nat BY <1>B, <1>C, Numbers DEF Closing
      <4> QED BY <1>B, <1>C, <2>2, <3>5, <4>1
    <3>10. kill'.now.sym = s /\ kill'.at = "drop" => held'[s] = 0 BY <2>2, <3>2
    <3>11. kill'.at \notin {"cancel", "sell", "off"} BY <2>2
    <3>12. ASSUME s \in kill'.seen \ (Swing \cup kill'.listed), held'[s] > 0
           PROVE  kill'.table = "intraday" /\ \E c \in kill'.todo : c.sym = s
      <4>1. /\ kill.table = "intraday"
            /\ (\E c \in kill.todo : c.sym = s) \/ s = t
        BY <1>B, <1>C, <2>2, <3>5, <3>12 DEF Closing
      <4>2. s # t BY <2>2, <3>2, <3>12, <4>1
      <4> QED BY <2>2, <4>1, <4>2
    <3> QED BY <3>7, <3>8, <3>9, <3>10, <3>11, <3>12 DEF Closing
  <2> QED BY <1>C, <2>3, <2>6 DEF Accounts
<1>5. CASE KillDrop
  <2> DEFINE t == kill.now.sym
  <2>1. /\ UNCHANGED <<held, sold>> /\ kill.at = "drop" /\ t \in Symbols /\ t \in kill.seen
        /\ row' = [row EXCEPT ![t] = NoRow] /\ kill' = [kill EXCEPT !.at = "take", !.now = Idle]
    BY <1>5, <1>0 DEF KillDrop, kotak, TypeOK, Hands
  <2>2. /\ kill'.seen = kill.seen /\ kill'.listed = kill.listed
        /\ kill'.table = kill.table /\ kill'.todo = kill.todo /\ kill'.at = "take"
    BY <1>K, <2>1 DEF Kills
  <2>3. row'[t].qty = 0 /\ \A s \in Symbols \ {t} : row'[s] = row[s] BY <2>1 DEF TypeOK, NoRow
  <2>4. Hands' BY <1>0, <1>C, <2>1, <2>2 DEF Hands
  <2>5. ASSUME NEW s \in Symbols \ strays PROVE Written(s)' /\ Closing(s)'
    <3>1. s = t => held[s] = 0 BY <1>B, <2>1 DEF Closing
    <3>2. Bought(s)' <=> Bought(s) BY <2>1 DEF Bought
    <3>3. Written(s)'
      <4>1. CASE s = t BY <1>B, <1>C, <2>1, <2>2, <2>3, <3>1, <3>2, <4>1 DEF Written, In, After
      <4>2. CASE s # t BY <1>B, <1>C, <2>1, <2>2, <2>3, <3>2, <4>2 DEF Written, In, After
      <4> QED BY <4>1, <4>2
    <3>4. Closing(s)'
      <4>1. CASE s = t BY <1>B, <2>1, <2>2, <3>1, <4>1, Numbers DEF Closing
      <4>2. CASE s # t BY <1>B, <2>1, <2>2, <2>3, <4>2 DEF Closing
      <4> QED BY <4>1, <4>2
    <3> QED BY <3>3, <3>4
  <2> QED BY <1>C, <2>4, <2>5 DEF Accounts
<1>6. CASE KillNext
  <2>1. UNCHANGED <<held, row, sold, strays>> /\ kill.at = "take" /\ kill.todo = {}
    BY <1>6 DEF KillNext, kotak, money
  <2>2. CASE kill.table = "intraday"
    <3>1. kill' = Reading(kill, "swing") BY <1>6, <2>2 DEF KillNext
    <3> QED BY <1>C, <1>K, <2>1, <3>1, ReadingAccounts DEF Engines
  <2>3. CASE kill.table # "intraday"
    <3> DEFINE left == {c.sym : c \in Open("swing")}
    <3>1. kill' = [kill EXCEPT !.at = "off", !.listed = @ \cup left] BY <1>6, <2>3 DEF KillNext
    <3>2. \A s \in Symbols : s \in Table("swing") /\ row[s].qty > 0 => s \in left
      BY TypeParts, OpenRows DEF Engines
    <3> HIDE DEF left
    <3>3. /\ kill'.at = "off" /\ kill'.seen = kill.seen /\ kill'.listed = kill.listed \cup left
          /\ kill'.now = kill.now /\ kill'.table = kill.table /\ kill'.todo = {}
      BY <1>K, <2>1, <3>1 DEF Kills
    <3>4. Hands' BY <1>0, <1>C, <2>3, <3>3 DEF Hands
    <3>5. ASSUME NEW s \in Symbols \ strays PROVE Written(s)' /\ Closing(s)'
      <4>1. Written(s)' BY <1>B, <1>C, <2>1, <3>3, KillOnly DEF Written
      <4>2. s \in kill.seen \ (Swing \cup kill.listed) => held[s] = 0 BY <1>B, <2>1, <2>3 DEF Closing
      <4>3. s \in kill.seen \cap Swing => held[s] = 0 \/ s \in left
        <5>1. s \in Swing => s \in Table("swing") BY DEF Table, EngineOf
        <5> QED BY <1>B, <3>2, <5>1 DEF Closing
      <4>4. s \in kill'.seen => held'[s] = 0 \/ row'[s].qty > 0 BY <1>B, <2>1, <3>3 DEF Closing
      <4>5. Closing(s)' BY <2>1, <3>3, <4>2, <4>3, <4>4 DEF Closing
      <4> QED BY <4>1, <4>5
    <3> QED BY <1>C, <3>4, <3>5 DEF Accounts
  <2> QED BY <2>2, <2>3
<1>7. CASE KillOff
  <2>1. UNCHANGED <<held, row, sold>> /\ kill'.seen = {} /\ kill'.todo = {} /\ kill'.at = "idle"
    BY <1>7 DEF KillOff, kotak, NoKill
  <2>2. Hands' BY <1>0, <1>C, <2>1 DEF Hands
  <2>3. ASSUME NEW s \in Symbols \ strays PROVE Written(s)' /\ Closing(s)'
    BY <1>B, <1>C, <2>1, <2>2, KillOnly, Unseen
  <2> QED BY <1>C, <2>2, <2>3 DEF Accounts
<1> QED BY <1>1, <1>2, <1>3, <1>4, <1>5, <1>6, <1>7 DEF Close

LEMMA AccountsNext == TypeOK /\ TypeOK' /\ Accounts /\ [Next]_vars => Accounts'
<1> SUFFICES ASSUME TypeOK, TypeOK', Accounts, [Next]_vars PROVE Accounts' OBVIOUS
<1>1. CASE UNCHANGED <<held, sold, row, op, kill, strays>>
  BY <1>1 DEF Accounts, Hands, Written, Closing, In, Bought
<1>2. CASE (\E on \in BOOLEAN : Command(on)) \/ Mirror \/ Journal
  BY <1>1, <1>2 DEF Command, Mirror, TickRead, TickRestore, TickPush, Journal, kotak, money
<1>3. CASE UNCHANGED vars BY <1>1, <1>3 DEF vars
<1> QED BY <1>2, <1>3, EntryAccounts, LeaveAccounts, KotakAccounts, RestartAccounts, CloseAccounts DEF Next

\* "close the live trades, all the positions": when the kill switch answers, of what it found in the
\* tables nothing is held that it does not list, however the three threads' own entries, stops and
\* exits, the reconcile, Kotak's fills and its failures were mixed with its steps.  The strays are
\* named: what was bought without a row or twice, and what had an order open when it was answered.
THEOREM KillAnswers == Spec => KillAccounts
<1>1. Init => Accounts
  BY DEF Init, Accounts, Hands, Written, Closing, In, Bought, After, NoKill, NoRow, Idle, EngineOf, Engines
<1>2. TypeOK /\ Accounts /\ [Next]_vars =>
         [kill.at = "off" /\ kill' = NoKill /\ command' # command =>
             \A s \in kill.seen \ strays : held[s] = 0 \/ s \in kill.listed]_vars
  <2> SUFFICES ASSUME TypeOK, Accounts, kill.at = "off", NEW s \in kill.seen \ strays, held[s] # 0
               PROVE  s \in kill.listed
    OBVIOUS
  <2>1. s \in Symbols BY DEF TypeOK, Kills
  <2>2. Closing(s) /\ held[s] > 0 BY <2>1, Numbers DEF Accounts
  <2>3. CASE s \in Swing BY <2>2, <2>3 DEF Closing
  <2>4. CASE s \notin Swing
    <3>1. kill.table # "intraday" BY DEF Accounts, Hands
    <3> QED BY <2>2, <2>4, <3>1 DEF Closing
  <2> QED BY <2>3, <2>4
<1> QED BY TypeCorrect, AccountsNext, <1>1, <1>2, PTL DEF Spec, KillAccounts
=============================================================================

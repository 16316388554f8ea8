---------------------------- MODULE TradingSwitch ----------------------------
(***************************************************************************)
(* The switch over all trading and what passes it: the entries of the      *)
(* long engines with the daily spend cap they share, the kill switch that  *)
(* sells what they hold while they go on working, and the copies of the    *)
(* switch that bring an OFF back after a restart (main.py,                 *)
(* set_trading_control, _force_close_all_positions, _viability_verdict,    *)
(* _real_today_spent_inr, reconcile_trading_control_from_journal).         *)
(*                                                                         *)
(* The intraday engine is one thread, the swing engine two: a pass over    *)
(* the market that nobody waits for, and the tick's retry of what it left. *)
(* The kill switch runs in the thread of its HTTP call, beside them.  A    *)
(* share costs one unit.  The cap is the one the user saved.  The day is   *)
(* one day.  The stop stands for the target too; the other gates of an     *)
(* entry, shorts and option legs are left out.                             *)
(***************************************************************************)
EXTENDS Integers, FiniteSets

CONSTANTS
    Symbols,   \* what may be bought
    Swing,     \* the symbols the swing engine trades; the intraday engine has the others
    Cap,       \* real_daily_cap_inr
    Faults,    \* which faults may happen, out of FaultKinds
    MaxEvents  \* bound: buys, commands of the user, and faults, together

Engines == {"intraday", "swing"}
Threads == {"intraday", "scan", "retry"}
FaultKinds == {"refused", "lost_buy", "lost_sell", "unfilled", "cancel_fails", "locked", "unset", "late_set",
               "restart"}

ASSUME SymbolsAssumption == IsFiniteSet(Symbols) /\ Swing \subseteq Symbols
ASSUME BoundsAssumption == Cap \in Nat /\ MaxEvents \in Nat
ASSUME FaultsAssumption == Faults \subseteq FaultKinds

VARIABLES
    held,      \* Kotak: shares of each symbol
    stops,     \* Kotak: shares that a resting stop has reserved
    sold,      \* symbols with a completed sell today
    row,       \* real_positions, real_positions_swing: quantity (0: no row), stop known?
    spent,     \* real_trades: confirmed buys of today
    unlogged,  \* the log misses a buy of today, or a restart has brought back another total
    strays,    \* symbols bought without a row, or twice, or of which an order was open when it was answered
    op,        \* per thread: the call in progress
    kill,      \* the kill in progress
    switch,    \* trading_control: on?, and the command it was written by (0: no row)
    command,   \* the last command of the user that was answered
    remote,    \* trading_control at Upstash
    pushed,    \* the content of the last push that succeeded
    hydrated,  \* trading_control is in _generic_mirror_hydrated
    tick,      \* the mirror part of the scheduler tick
    journal,   \* state/trading_control.json
    events     \* buys, commands and faults so far

kotak == <<held, stops, sold>>
money == <<spent, unlogged, strays>>
orders == <<switch, command>>
copies == <<remote, pushed, hydrated, tick, journal>>
vars == <<held, stops, sold, row, spent, unlogged, strays, op, kill, switch, command,
          remote, pushed, hydrated, tick, journal, events>>

NoRow == [qty |-> 0, sl |-> FALSE]
NoSymbol == "none"
Idle == [at |-> "idle", sym |-> NoSymbol, qty |-> 0, sl |-> FALSE]
\* table: the one in hand; todo: what it has read of it and not closed yet; seen: the symbols it
\* has read so far; listed: real_close_failed; now: the position in hand.
NoKill == [at |-> "idle", table |-> "intraday", todo |-> {}, seen |-> {}, listed |-> {}, now |-> Idle]
\* No row of trading_control counts as on.  Nothing pushed has the content Never.
DefaultOn == [on |-> TRUE, n |-> 0]
Never == [on |-> FALSE, n |-> 0]
Quiet == [at |-> "idle", content |-> DefaultOn]

EngineOf(s) == IF s \in Swing THEN "swing" ELSE "intraday"
Serves(t) == IF t = "intraday" THEN "intraday" ELSE "swing"
Table(e) == {s \in Symbols : EngineOf(s) = e}
Open(e) == {[Idle EXCEPT !.sym = s, !.qty = row[s].qty, !.sl = row[s].sl] :
               s \in {u \in Table(e) : row[u].qty > 0}}

Happens == events < MaxEvents /\ events' = events + 1
Fault(kind) == kind \in Faults /\ Happens
NoFault == UNCHANGED events
At(t, pc) == op[t].at = pc
Go(t, pc) == op' = [op EXCEPT ![t].at = pc]
Done(t) == op' = [op EXCEPT ![t] = Idle]

(***************************************************************************)
(* Kotak.                                                                  *)
(***************************************************************************)
Fill(s) ==
    /\ stops[s] > 0
    /\ held' = [held EXCEPT ![s] = @ - stops[s]] /\ stops' = [stops EXCEPT ![s] = 0]
    /\ sold' = sold \cup {s}
    /\ UNCHANGED <<row, money, op, kill, orders, copies, events>>

\* cancel_real_order of the stop that a row names; what it answers is only logged.
CancelStop(c) ==
    \/ c.sl /\ stops' = [stops EXCEPT ![c.sym] = 0] /\ NoFault
    \/ /\ IF c.sl /\ stops[c.sym] > 0 THEN Fault("cancel_fails") ELSE NoFault
       /\ UNCHANGED stops

\* place_real_exit: Kotak sells only what nothing has reserved.  It answers ok for every order that has
\* an id and is not rejected yet: executed, executed in part, or open.
\* What is executed of it after the answer is left out: the properties set the symbol aside.
Sellable(c) == c.qty + stops[c.sym] <= held[c.sym]
Sells(c) == held' = [held EXCEPT ![c.sym] = @ - c.qty] /\ sold' = sold \cup {c.sym}
SellOk(c) ==
    \/ Sellable(c) /\ Sells(c) /\ NoFault /\ UNCHANGED strays
    \/ /\ Sellable(c) /\ Fault("unfilled")
       /\ \E k \in 0..(c.qty - 1) : held' = [held EXCEPT ![c.sym] = @ - k]
       /\ strays' = strays \cup {c.sym} /\ UNCHANGED sold
SellFails(c) ==
    /\ \/ Sellable(c) /\ Sells(c) /\ Fault("lost_sell")
       \/ Sellable(c) /\ UNCHANGED <<held, sold>> /\ Fault("refused")
       \/ ~Sellable(c) /\ UNCHANGED <<held, sold>> /\ NoFault
    /\ UNCHANGED strays

(***************************************************************************)
(* An entry: sized by what the cap leaves, checked against the switch once *)
(* more, bought, written down and logged, protected.                       *)
(***************************************************************************)
\* Mutant: the number of shares is rounded up.
SizeUp(t) ==
    /\ At(t, "idle") /\ (IF switch.on THEN NoFault ELSE Fault("locked"))
    /\ \E s \in Table(Serves(t)) \ sold, q \in 1..(Cap + 1 - spent) :
          /\ row[s].qty = 0
          /\ op' = [op EXCEPT ![t] = [Idle EXCEPT !.at = "check", !.sym = s, !.qty = q]]
    /\ UNCHANGED <<kotak, row, money, kill, orders, copies>>
\* No row, no sale today, the switch on, and room under the cap.  Here and in Check a database that
\* cannot be read lets the entry pass.
Size(t) ==
    /\ At(t, "idle") /\ (IF switch.on THEN NoFault ELSE Fault("locked"))
    /\ \E s \in Table(Serves(t)) \ sold, q \in 1..(Cap - spent) :
          /\ row[s].qty = 0
          /\ op' = [op EXCEPT ![t] = [Idle EXCEPT !.at = "check", !.sym = s, !.qty = q]]
    /\ UNCHANGED <<kotak, row, money, kill, orders, copies>>

\* The real entry's own look at the switch.
Check(t) ==
    /\ At(t, "check")
    /\ \/ switch.on /\ NoFault /\ Go(t, "buy")
       \/ ~switch.on /\ NoFault /\ Done(t)
       \/ ~switch.on /\ Fault("locked") /\ Go(t, "buy")
    /\ UNCHANGED <<kotak, row, money, kill, orders, copies>>

\* place_real_entry: executed; accepted and open, or executed in part, when it is answered, with what
\* was ordered or what was executed as the quantity; lost although accepted; refused.
Buy(t) ==
    /\ At(t, "buy")
    /\ LET s == op[t].sym
           q == op[t].qty
           twice == IF held[s] > 0 \/ s \in sold THEN {s} ELSE {}
       IN
       \/ /\ held' = [held EXCEPT ![s] = @ + q] /\ Happens /\ Go(t, "book")
          /\ strays' = strays \cup twice /\ UNCHANGED unlogged
       \/ /\ Fault("unfilled")
          /\ \E k \in 0..(q - 1) :
                /\ held' = [held EXCEPT ![s] = @ + k]
                /\ \/ Go(t, "book") /\ UNCHANGED unlogged
                   \/ k > 0 /\ op' = [op EXCEPT ![t].at = "book", ![t].qty = k] /\ unlogged' = TRUE
          /\ strays' = strays \cup {s}
       \/ /\ held' = [held EXCEPT ![s] = @ + q] /\ Fault("lost_buy") /\ Done(t)
          /\ strays' = strays \cup {s} /\ unlogged' = TRUE
       \/ Done(t) /\ NoFault /\ UNCHANGED <<held, unlogged, strays>>
    /\ UNCHANGED <<stops, sold, row, spent, kill, orders, copies>>

\* INSERT and log line are one commit.  It fails when another thread or the reconcile has made the row
\* meanwhile, or while another connection keeps the database locked.
Book(t) ==
    /\ At(t, "book")
    /\ LET s == op[t].sym IN
       \/ /\ row[s].qty = 0 /\ NoFault
          /\ row' = [row EXCEPT ![s] = [qty |-> op[t].qty, sl |-> FALSE]]
          /\ spent' = spent + op[t].qty
          /\ Go(t, "stop")
          /\ UNCHANGED <<strays, unlogged>>
       \/ /\ IF row[s].qty > 0 THEN NoFault ELSE Fault("locked")
          /\ strays' = strays \cup {s} /\ unlogged' = TRUE /\ Done(t)
          /\ UNCHANGED <<row, spent>>
    /\ UNCHANGED <<kotak, kill, orders, copies>>

\* A refused first stop: the swing engine sells again, the intraday engine tries again later.
Stop(t) ==
    /\ At(t, "stop")
    /\ LET s == op[t].sym IN
       \/ stops[s] > 0 /\ Go(t, "link") /\ UNCHANGED stops /\ NoFault
       \/ /\ stops[s] = 0 /\ op[t].qty <= held[s] /\ NoFault
          /\ stops' = [stops EXCEPT ![s] = op[t].qty] /\ Go(t, "link")
       \/ /\ stops[s] = 0 /\ UNCHANGED stops
          /\ IF op[t].qty > held[s] THEN NoFault ELSE Fault("refused")
          /\ IF s \in Swing THEN Go(t, "exit") ELSE Done(t)
    /\ UNCHANGED <<held, sold, row, money, kill, orders, copies>>

\* UPDATE by symbol: nothing when the row is gone.
Link(t) ==
    /\ At(t, "link")
    /\ row' = [row EXCEPT ![op[t].sym] = IF @.qty > 0 THEN [@ EXCEPT !.sl = TRUE] ELSE @]
    /\ Done(t)
    /\ UNCHANGED <<kotak, money, kill, orders, copies, events>>

\* The sync of a position without a live stop.
Sync(t) ==
    /\ At(t, "idle")
    /\ \E c \in Open(Serves(t)) : stops[c.sym] = 0 /\ op' = [op EXCEPT ![t] = [c EXCEPT !.at = "stop"]]
    /\ UNCHANGED <<kotak, row, money, kill, orders, copies, events>>

(***************************************************************************)
(* An exit of the engine.                                                  *)
(***************************************************************************)
Exit(t) ==
    /\ \/ /\ At(t, "idle") \/ At(t, "exit")
          /\ \E c \in Open(Serves(t)) :
                /\ At(t, "exit") => c.sym = op[t].sym
                /\ op' = [op EXCEPT ![t] = [c EXCEPT !.at = IF held[c.sym] > 0 THEN "cancel" ELSE "drop"]]
       \/ At(t, "exit") /\ row[op[t].sym].qty = 0 /\ Done(t)
    /\ UNCHANGED <<kotak, row, money, kill, orders, copies, events>>

Cancel(t) ==
    /\ At(t, "cancel") /\ CancelStop(op[t]) /\ Go(t, "sell")
    /\ UNCHANGED <<held, sold, row, money, kill, orders, copies>>

Sell(t) ==
    /\ At(t, "sell")
    /\ (SellOk(op[t]) /\ Go(t, "drop")) \/ (SellFails(op[t]) /\ Done(t))
    /\ UNCHANGED <<stops, row, spent, unlogged, kill, orders, copies>>

Drop(t) ==
    /\ At(t, "drop")
    /\ row' = [row EXCEPT ![op[t].sym] = NoRow] /\ Done(t)
    /\ UNCHANGED <<kotak, money, kill, orders, copies, events>>

\* The reconcile gives shares without a row one (module SwingLong has its steps).
Adopt(s) ==
    /\ row[s].qty = 0 /\ held[s] > 0
    /\ row' = [row EXCEPT ![s] = [qty |-> held[s], sl |-> FALSE]]
    /\ UNCHANGED <<kotak, money, op, kill, orders, copies, events>>

(***************************************************************************)
(* The user's commands.  A kill closes the intraday table, then the swing  *)
(* table, and turns the switch off at its end.                             *)
(***************************************************************************)
Obey(on) ==
    /\ command' = [on |-> on, n |-> command.n + 1]
    /\ switch' = command'

\* Resuming runs the reconcile first (Adopt).  The user's button offers the other position only.
Command(on) ==
    /\ on # switch.on /\ kill.at = "idle" /\ Happens
    /\ Obey(on)
    /\ UNCHANGED <<kotak, row, money, op, kill, copies>>

\* The rows of a table, all at once.
Reading(k, e) == [k EXCEPT !.at = "take", !.table = e, !.todo = Open(e),
                           !.seen = @ \cup {c.sym : c \in Open(e)}]

Kill ==
    /\ kill.at = "idle" /\ Happens
    /\ kill' = Reading(NoKill, "intraday")
    /\ UNCHANGED <<kotak, row, money, op, orders, copies>>

\* The intraday rows are closed as they were read; a swing row is read again and compared with
\* what Kotak holds (_maybe_place_real_swing_exit).
KillTake ==
    /\ kill.at = "take"
    /\ \E c \in kill.todo :
          LET s == c.sym
              k == [kill EXCEPT !.todo = @ \ {c}]
          IN  kill' = CASE kill.table = "intraday" -> [k EXCEPT !.at = "cancel", !.now = c]
                        [] kill.table = "swing" /\ row[s].qty = 0 -> k
                        [] kill.table = "swing" /\ row[s].qty > 0 ->
                              [k EXCEPT !.at = IF held[s] > 0 THEN "cancel" ELSE "drop",
                                        !.now = [c EXCEPT !.qty = row[s].qty, !.sl = row[s].sl]]
    /\ UNCHANGED <<kotak, row, money, op, orders, copies, events>>

KillCancel ==
    /\ kill.at = "cancel" /\ CancelStop(kill.now)
    /\ kill' = [kill EXCEPT !.at = "sell"]
    /\ UNCHANGED <<held, sold, row, money, op, orders, copies>>

\* Mutant: a sell that failed is not listed.
KillSellUnlisted ==
    /\ kill.at = "sell"
    /\ \/ SellOk(kill.now) /\ kill' = [kill EXCEPT !.at = "drop"]
       \/ SellFails(kill.now) /\ kill' = [kill EXCEPT !.at = "take", !.now = Idle]
    /\ UNCHANGED <<stops, row, spent, unlogged, op, orders, copies>>
KillSell ==
    /\ kill.at = "sell"
    /\ \/ SellOk(kill.now) /\ kill' = [kill EXCEPT !.at = "drop"]
       \/ /\ SellFails(kill.now)
          /\ kill' = [kill EXCEPT !.at = "take", !.now = Idle,
                                  !.listed = IF kill.table = "swing" THEN @ ELSE @ \cup {kill.now.sym}]
    /\ UNCHANGED <<stops, row, spent, unlogged, op, orders, copies>>

KillDrop ==
    /\ kill.at = "drop"
    /\ row' = [row EXCEPT ![kill.now.sym] = NoRow]
    /\ kill' = [kill EXCEPT !.at = "take", !.now = Idle]
    /\ UNCHANGED <<kotak, money, op, orders, copies, events>>

\* After the swing table its rows are read once more: what is still there is listed.
KillNext ==
    /\ kill.at = "take" /\ kill.todo = {}
    /\ kill' = IF kill.table = "intraday" THEN Reading(kill, "swing")
               ELSE [kill EXCEPT !.at = "off", !.listed = @ \cup {c.sym : c \in Open("swing")}]
    /\ UNCHANGED <<kotak, row, money, op, orders, copies, events>>

KillOff ==
    /\ kill.at = "off"
    /\ Obey(FALSE) /\ kill' = NoKill
    /\ UNCHANGED <<kotak, row, money, op, copies, events>>

(***************************************************************************)
(* The copies of the switch: the generic mirror, pushed and restored by    *)
(* the tick (module TableMirror), and the journal file.                    *)
(***************************************************************************)
\* Mutant: what is here is pushed before the mirror has been read.
TickReadUnread ==
    /\ tick.at = "idle"
    /\ \/ ~hydrated /\ tick' = [at |-> "restore", content |-> remote]
       \/ pushed # switch /\ tick' = [at |-> "push", content |-> switch]
    /\ UNCHANGED <<kotak, row, money, op, kill, orders, remote, pushed, hydrated, journal, events>>
TickRead ==
    /\ tick.at = "idle"
    /\ \/ ~hydrated /\ tick' = [at |-> "restore", content |-> remote]
       \/ hydrated /\ pushed # switch /\ tick' = [at |-> "push", content |-> switch]
    /\ UNCHANGED <<kotak, row, money, op, kill, orders, remote, pushed, hydrated, journal, events>>

\* Mutant: a start that could not read counts as one that found nothing.
TickRestoreNothing ==
    /\ tick.at = "restore"
    /\ hydrated' = TRUE /\ tick' = Quiet
    /\ UNCHANGED <<kotak, row, money, op, kill, orders, remote, pushed, journal, events>>
\* INSERT OR REPLACE, whatever the table has by now.
TickRestore ==
    /\ tick.at = "restore"
    /\ switch' = IF tick.content.n > 0 THEN tick.content ELSE switch
    /\ hydrated' = TRUE /\ tick' = Quiet
    /\ UNCHANGED <<kotak, row, money, op, kill, command, remote, pushed, journal, events>>

\* A SET that raises may have been executed.
TickPush ==
    /\ tick.at = "push" /\ tick' = Quiet
    /\ \/ remote' = tick.content /\ pushed' = tick.content /\ NoFault
       \/ remote' = tick.content /\ UNCHANGED pushed /\ Fault("late_set")
       \/ UNCHANGED <<remote, pushed>> /\ Fault("unset")
    /\ UNCHANGED <<kotak, row, money, op, kill, orders, hydrated, journal>>

\* journal-sync.yml commits what GET /trading-control answers.
Journal ==
    /\ journal # switch /\ journal' = switch
    /\ UNCHANGED <<kotak, row, money, op, kill, orders, remote, pushed, hydrated, tick, events>>

\* What a restart finds of the log: what was mirrored of it, and if the journal has a higher total,
\* that total on top.
Restored == {IF y > x THEN x + y ELSE x : x \in 0..spent, y \in 0..spent}

\* The process dies and starts again: the mirror is read, or cannot be; an OFF of the journal
\* overrides it.  The tables of the positions come back (module DurableMirror is about when they do
\* not).
Restart ==
    /\ Fault("restart")
    /\ op' = [t \in Threads |-> Idle] /\ kill' = NoKill /\ tick' = Quiet
    /\ pushed' = Never /\ hydrated' \in BOOLEAN
    /\ switch' = IF ~journal.on THEN journal ELSE IF hydrated' THEN remote ELSE DefaultOn
    /\ LET unwritten == {op[t].sym : t \in {x \in Threads : At(x, "book")}}
       IN  /\ strays' = strays \cup unwritten
           /\ spent' \in Restored /\ unlogged' = (unlogged \/ unwritten # {} \/ spent' # spent)
    /\ UNCHANGED <<kotak, row, command, remote, journal>>

Init ==
    /\ held = [s \in Symbols |-> 0] /\ stops = [s \in Symbols |-> 0] /\ sold = {}
    /\ row = [s \in Symbols |-> NoRow] /\ spent = 0 /\ unlogged = FALSE /\ strays = {}
    /\ op = [t \in Threads |-> Idle] /\ kill = NoKill
    /\ switch = DefaultOn /\ command = DefaultOn
    /\ remote = DefaultOn /\ pushed = DefaultOn /\ hydrated = TRUE /\ tick = Quiet /\ journal = DefaultOn
    /\ events = 0

Entry(t) == Size(t) \/ Check(t) \/ Buy(t) \/ Book(t) \/ Stop(t) \/ Link(t) \/ Sync(t)
Leave(t) == Exit(t) \/ Cancel(t) \/ Sell(t) \/ Drop(t)
Close == KillTake \/ KillCancel \/ KillSell \/ KillDrop \/ KillNext \/ KillOff
Mirror == TickRead \/ TickRestore \/ TickPush

Next ==
    \/ \E s \in Symbols : Fill(s) \/ Adopt(s)
    \/ \E t \in Threads : Entry(t) \/ Leave(t)
    \/ \E on \in BOOLEAN : Command(on)
    \/ Kill \/ Close \/ Mirror \/ Journal \/ Restart

Spec == Init /\ [][Next]_vars

\* Every tick ends with the mirror, and the calls of a kill return.
FairSpec == Spec /\ WF_vars(Mirror) /\ WF_vars(Close)

-----------------------------------------------------------------------------
Positions == [at : {"idle", "check", "buy", "book", "stop", "link", "exit", "cancel", "sell", "drop"},
              sym : Symbols \cup {NoSymbol}, qty : Nat, sl : BOOLEAN]
Kills == [at : {"idle", "take", "cancel", "sell", "drop", "off"}, table : Engines,
          todo : SUBSET {c \in Positions : c.sym \in Symbols}, seen : SUBSET Symbols,
          listed : SUBSET Symbols, now : Positions]
Contents == [on : BOOLEAN, n : Nat]

TypeOK ==
    /\ held \in [Symbols -> Nat] /\ stops \in [Symbols -> Nat] /\ sold \subseteq Symbols
    /\ \A s \in Symbols : stops[s] <= held[s]
    /\ row \in [Symbols -> [qty : Nat, sl : BOOLEAN]]
    /\ spent \in Nat /\ unlogged \in BOOLEAN
    /\ strays \subseteq Symbols /\ events \in Nat
    /\ op \in [Threads -> Positions] /\ kill \in Kills
    /\ \A t \in Threads : ~At(t, "idle") => op[t].sym \in Symbols
    /\ kill.at \in {"cancel", "sell", "drop"} => kill.now.sym \in Symbols
    /\ {switch, command, remote, pushed, journal} \subseteq Contents /\ hydrated \in BOOLEAN
    /\ tick \in [at : {"idle", "restore", "push"}, content : Contents]

\* "so the daily-loss / position caps cannot race" (22546) is true of the symbols of one pass only: the
\* intraday engine, the swing pass and the retry of swing entries all read what was spent before any of
\* them logs its buy.  As long as the log has every buy, they spend three caps together at most.
OverspendBounded == unlogged \/ spent <= 3 * Cap

\* "close the live trades, all the positions": what the kill switch found in the tables it has sold
\* when it answers, or lists as still open, whatever the engines did to the same rows meanwhile.  Not
\* of shares that have no row, or that came with a second buy; and not of a symbol with an order
\* that was open when its call was answered: the row of such a sell is deleted all the same.
KillAccounts ==
    [][kill.at = "off" /\ kill' = NoKill /\ command' # command =>
         \A s \in kill.seen \ strays : held[s] = 0 \/ s \in kill.listed]_vars

\* "A paused/killed state MUST survive a Render redeploy" (22402): an OFF that has reached the
\* mirror stays there, and the switch is off again after any restart, until the user turns it on.
Mirrored == ~command.on /\ remote = command
MirroredOffKept == [][Mirrored /\ command' = command => ~remote'.on]_vars
MirroredOffReturns == Mirrored ~> command.on \/ ~switch.on
=============================================================================

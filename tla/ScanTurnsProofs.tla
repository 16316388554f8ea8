-------------------------- MODULE ScanTurnsProofs --------------------------
(***************************************************************************)
(* Proofs about ScanTurns, for every watchlist, batch and bound: type      *)
(* correctness, that one scan decides at a time, and that the tick is      *)
(* overtaken at most once.                                                 *)
(***************************************************************************)
EXTENDS ScanTurns, FunctionTheorems, FiniteSetTheorems, TLAPS

-----------------------------------------------------------------------------
(***************************************************************************)
(* The rotation stays within the list.                                     *)
(***************************************************************************)
LEMMA FiniteSymbols == IsFiniteSet(Symbols)
<1>1. Watchlist \in Surjection(DOMAIN Watchlist, Symbols)
  <2>1. Watchlist \in [DOMAIN Watchlist -> Symbols] BY WatchlistAssumption DEF Symbols
  <2>2. \A s \in Symbols : \E i \in DOMAIN Watchlist : Watchlist[i] = s BY DEF Symbols
  <2> QED BY <2>1, <2>2 DEF Surjection
<1>2. IsFiniteSet(DOMAIN Watchlist)
  <2>1. DOMAIN Watchlist = 1..Len(Watchlist) /\ Len(Watchlist) \in Nat BY WatchlistAssumption
  <2> QED BY <2>1, FS_Interval
<1> QED BY <1>1, <1>2, FS_Surjection

LEMMA CursorTyped == ASSUME cursor \in Nat, Advance PROVE cursor' \in Nat
<1>1. CASE Flat = {} BY <1>1 DEF Advance
<1>2. CASE Flat # {}
  <2> DEFINE n == Cardinality(Flat)
  <2>1. Flat \subseteq Symbols BY DEF Flat
  <2>2. IsFiniteSet(Flat) BY <2>1, FiniteSymbols, FS_Subset
  <2>3. n \in Nat \ {0} BY <1>2, <2>2, FS_CardinalityType, FS_EmptySet
  <2>4. cursor' = (cursor + (IF Batch < n THEN Batch ELSE n)) % n BY <1>2 DEF Advance
  <2>5. ASSUME NEW k \in Nat PROVE k % n \in Nat BY <2>3
  <2> HIDE DEF n
  <2>6. cursor + (IF Batch < n THEN Batch ELSE n) \in Nat BY <2>3, BoundsAssumption
  <2> QED BY <2>4, <2>5, <2>6
<1> QED BY <1>1, <1>2

LEMMA VisitTyped == TypeOK => ToVisit \subseteq Symbols
BY SetsAssumption DEF TypeOK, ToVisit, Preferred, RrBatch, Flat

-----------------------------------------------------------------------------
(***************************************************************************)
(* Types.                                                                  *)
(***************************************************************************)
LEMMA ScanTyped ==
    ASSUME TypeOK, NEW s \in Symbols, Scan(s)
    PROVE  /\ longs' \subseteq Symbols /\ reals' \subseteq Symbols /\ shorts' \subseteq Symbols
           /\ done' \subseteq Symbols /\ lock' = "free"
           /\ deals' \in Nat /\ upsets' \in Nat
<1>1. longs' \subseteq Symbols /\ reals' \subseteq Symbols BY SetsAssumption DEF TypeOK, Scan, LongEngine
<1>2. shorts' \subseteq Symbols BY DEF TypeOK, Scan, ShortEngine
<1>3. done' \subseteq Symbols /\ lock' = "free" BY DEF TypeOK, Scan
<1>4. deals' \in Nat /\ upsets' \in Nat BY DEF TypeOK, Scan, Deal
<1> QED BY <1>1, <1>2, <1>3, <1>4

Ticks == [at : {"rest", "fetches", "waits", "scans", "trail", "trails"},
          todo : SUBSET Symbols, sym : Symbols \cup {NoSymbol}]
Sweeps == [at : {"asleep", "settings", "picks", "waits", "scans"}, todo : SUBSET Symbols,
           sym : Symbols \cup {NoSymbol}, fresh : SUBSET Symbols, late : BOOLEAN]

Visiting == tick.at \in {"waits", "scans"} => tick.sym \in Symbols
Picked == sweep.at \in {"waits", "scans"} => sweep.sym \in Symbols

LEMMA Constants == Resting \in Ticks /\ Asleep \in Sweeps
BY DEF Resting, Asleep, Ticks, Sweeps

LEMMA Types ==
    TypeOK <=> /\ longs \subseteq Symbols /\ reals \subseteq Symbols /\ shorts \subseteq Symbols
               /\ paused \in BOOLEAN /\ session \in {"open", "closed", "holiday"}
               /\ lock \in {"free", "tick", "trail", "sweep"}
               /\ tick \in Ticks /\ Visiting /\ sweep \in Sweeps /\ Picked
               /\ overtaken \in Nat /\ done \subseteq Symbols /\ due \in BOOLEAN /\ last \in Statuses
               /\ cursor \in Nat /\ deals \in Nat /\ upsets \in Nat
BY DEF TypeOK, Ticks, Sweeps, Visiting, Picked, TickWants

LEMMA TypesAfter ==
    TypeOK' <=> /\ longs' \subseteq Symbols /\ reals' \subseteq Symbols /\ shorts' \subseteq Symbols
                /\ paused' \in BOOLEAN /\ session' \in {"open", "closed", "holiday"}
                /\ lock' \in {"free", "tick", "trail", "sweep"}
                /\ tick' \in Ticks /\ Visiting' /\ sweep' \in Sweeps /\ Picked'
                /\ overtaken' \in Nat /\ done' \subseteq Symbols /\ due' \in BOOLEAN /\ last' \in Statuses
                /\ cursor' \in Nat /\ deals' \in Nat /\ upsets' \in Nat
BY DEF TypeOK, Ticks, Sweeps, Visiting, Picked, TickWants

LEMMA NextVisitTyped ==
    ASSUME TypeOK, NEW todo \in SUBSET Symbols, NextVisit(todo)
    PROVE  tick' \in Ticks /\ Visiting' /\ overtaken' \in Nat
BY DEF TypeOK, NextVisit, Ticks, Resting, Visiting

LEMMA TypeTick == ASSUME TypeOK, Tick \/ TrailLocks \/ TickCrashes PROVE TypeOK'
<1> USE Types, TypesAfter DEF books, world, bars, events
<1>1. CASE TickReads
  <2>1. tick' \in Ticks /\ Visiting' BY <1>1, VisitTyped DEF TickReads, Resting, Ticks, Visiting
  <2>2. cursor' \in Nat BY <1>1, CursorTyped DEF TickReads
  <2>3. longs' \subseteq Symbols /\ reals' \subseteq Symbols BY <1>1 DEF TickReads
  <2> QED BY <1>1, <2>1, <2>2, <2>3 DEF TickReads, Picked
<1>2. CASE TickStarts
  <2>1. tick' \in Ticks /\ Visiting' /\ overtaken' \in Nat BY <1>2, NextVisitTyped DEF TickStarts, Ticks
  <2> QED BY <1>2, <2>1 DEF TickStarts, Picked
<1>3. CASE TickLocks \/ TrailLocks
  <2>1. tick' \in Ticks /\ Visiting' BY <1>3 DEF TickLocks, TrailLocks, Ticks, Visiting
  <2>2. lock' \in {"tick", "trail"} BY <1>3 DEF TickLocks, TrailLocks
  <2> QED BY <1>3, <2>1, <2>2 DEF TickLocks, TrailLocks, Picked
<1>4. CASE TickScans
  <2>1. tick' \in Ticks /\ Visiting' /\ overtaken' \in Nat BY <1>4, NextVisitTyped DEF TickScans, Ticks
  <2>2. tick.sym \in Symbols BY <1>4 DEF TickScans, Visiting
  <2>3. sweep' \in Sweeps BY <1>4, <2>2 DEF TickScans, SweepSees, Sweeps
  <2>4. Picked' BY <1>4 DEF TickScans, SweepSees, Sweeps, Picked
  <2>5. Scan(tick.sym) BY <1>4 DEF TickScans
  <2> QED BY <1>4, <2>1, <2>2, <2>3, <2>4, <2>5, ScanTyped DEF TickScans
<1>5. CASE TrailEnds \/ TickCrashes
  <2>1. tick' = Resting /\ Visiting' BY <1>5 DEF TrailEnds, TickCrashes, Resting, Visiting
  <2>2. lock' \in {lock, "free"} /\ deals' \in Nat /\ upsets' \in Nat
    BY <1>5 DEF TrailEnds, TickCrashes, Upset
  <2> QED BY <1>5, <2>1, <2>2, Constants DEF TrailEnds, TickCrashes, Picked
<1> QED BY <1>1, <1>2, <1>3, <1>4, <1>5 DEF Tick

LEMMA StopsTyped ==
    ASSUME TypeOK, NEW status \in Statuses, Stops(status)
    PROVE  sweep' \in Sweeps /\ Picked' /\ last' \in Statuses /\ due' \in BOOLEAN
<1>1. sweep.late \in BOOLEAN BY Types DEF Sweeps
<1> QED BY <1>1, Constants DEF Stops, Picked, Asleep

LEMMA ReadsSweep ==
    ASSUME sweep \in Sweeps, SweepReads
    PROVE  \/ Stops("fine")
           \/ /\ sweep' \in Sweeps /\ sweep'.at = "picks"
              /\ due' = due /\ last' = last
<1>1. CASE paused BY <1>1 DEF SweepReads
<1>2. CASE ~paused
  <2>1. sweep' = [sweep EXCEPT !.at = "picks", !.todo = Nse \ sweep.fresh, !.fresh = {}]
    BY <1>2 DEF SweepReads
  <2>2. sweep' = [at |-> "picks", todo |-> Nse \ sweep.fresh, sym |-> sweep.sym, fresh |-> {},
                  late |-> sweep.late]
    BY <2>1 DEF Sweeps
  <2>3. Nse \ sweep.fresh \subseteq Symbols BY SetsAssumption
  <2> QED BY <1>2, <2>2, <2>3 DEF SweepReads, Sweeps
<1> QED BY <1>1, <1>2

LEMMA PicksSweep ==
    ASSUME sweep \in Sweeps, SweepPicks
    PROVE  sweep' \in Sweeps /\ sweep'.at \in {"picks", "waits"} /\ Picked'
<1>1. PICK s \in sweep.todo :
         sweep' = IF s \in sweep.fresh
                  THEN [sweep EXCEPT !.todo = @ \ {s}, !.fresh = @ \ {s}]
                  ELSE [sweep EXCEPT !.todo = @ \ {s}, !.at = "waits", !.sym = s]
  BY DEF SweepPicks
<1>2. s \in Symbols /\ sweep.todo \ {s} \subseteq Symbols /\ sweep.fresh \ {s} \subseteq Symbols
      /\ sweep.at = "picks"
  BY DEF Sweeps, SweepPicks
<1>3. CASE s \in sweep.fresh
  <2>1. sweep' = [at |-> sweep.at, todo |-> sweep.todo \ {s}, sym |-> sweep.sym,
                  fresh |-> sweep.fresh \ {s}, late |-> sweep.late]
    BY <1>1, <1>3 DEF Sweeps
  <2> QED BY <1>2, <2>1 DEF Sweeps, Picked
<1>4. CASE s \notin sweep.fresh
  <2>1. sweep' = [at |-> "waits", todo |-> sweep.todo \ {s}, sym |-> s,
                  fresh |-> sweep.fresh, late |-> sweep.late]
    BY <1>1, <1>4 DEF Sweeps
  <2> QED BY <1>2, <2>1 DEF Sweeps, Picked
<1> QED BY <1>3, <1>4

LEMMA StepsSweep ==
    ASSUME sweep \in Sweeps
    PROVE  /\ \A status : Stops(status) => sweep'.at = "asleep"
           /\ SweepWakes \/ SweepReads \/ SweepFails \/ SweepEnds
                => sweep'.at \in {"asleep", "settings", "picks"}
<1>1. ASSUME NEW status, Stops(status) PROVE sweep'.at = "asleep" BY <1>1 DEF Stops, Asleep
<1>2. CASE SweepWakes
  <2>1. Stops("fine") \/ sweep' = [Asleep EXCEPT !.at = "settings", !.fresh = done] BY <1>2 DEF SweepWakes
  <2>2. [Asleep EXCEPT !.at = "settings", !.fresh = done].at = "settings" BY DEF Asleep
  <2> QED BY <1>1, <2>1, <2>2
<1>3. CASE SweepReads BY <1>1, <1>3, ReadsSweep
<1>4. CASE SweepFails \/ SweepEnds BY <1>1, <1>4 DEF SweepFails, SweepEnds
<1> QED BY <1>1, <1>2, <1>3, <1>4

LEMMA TypeSweep == ASSUME TypeOK, Sweep \/ SweepFails \/ SweepLocks PROVE TypeOK'
<1> USE Types, TypesAfter DEF books, world, bars, events
<1>0. \A s \in Statuses : Stops(s) => sweep' \in Sweeps /\ Picked' /\ last' \in Statuses /\ due' \in BOOLEAN
  BY StopsTyped
<1>1. CASE SweepWakes
  <2>1. sweep' \in Sweeps /\ Picked' /\ last' \in Statuses /\ due' \in BOOLEAN
    BY <1>0, <1>1, Constants DEF SweepWakes, Sweeps, Picked, Asleep, Statuses
  <2> QED BY <1>1, <2>1 DEF SweepWakes, Visiting
<1>2. CASE SweepReads
  <2>1. sweep' \in Sweeps /\ Picked' /\ last' \in Statuses /\ due' \in BOOLEAN
    BY <1>0, <1>2, ReadsSweep DEF Picked, Statuses
  <2> QED BY <1>2, <2>1 DEF SweepReads, Visiting
<1>3. CASE SweepPicks
  <2>1. sweep' \in Sweeps /\ Picked' BY <1>3, PicksSweep
  <2> QED BY <1>3, <2>1 DEF SweepPicks, Visiting
<1>4. CASE SweepScans
  <2>1. sweep.sym \in Symbols /\ Scan(sweep.sym) BY <1>4 DEF SweepScans, Picked
  <2>2. sweep' \in Sweeps /\ Picked' BY <1>4 DEF SweepScans, Sweeps, Picked
  <2> QED BY <1>4, <2>1, <2>2, ScanTyped DEF SweepScans, Visiting
<1>5. CASE SweepEnds \/ SweepFails
  <2>1. sweep' \in Sweeps /\ Picked' /\ last' \in Statuses /\ due' \in BOOLEAN
    BY <1>0, <1>5 DEF SweepEnds, SweepFails, Statuses
  <2> QED BY <1>5, <2>1 DEF SweepEnds, SweepFails, Visiting
<1>6. CASE SweepLocks
  <2>1. sweep' \in Sweeps /\ Picked' BY <1>6 DEF SweepLocks, Sweeps, Picked
  <2> QED BY <1>6, <2>1 DEF SweepLocks, Visiting
<1> QED BY <1>1, <1>2, <1>3, <1>4, <1>5, <1>6 DEF Sweep

LEMMA TypeWorld == ASSUME TypeOK, BarCloses \/ Switches \/ SessionTurns \/ Restart PROVE TypeOK'
<1> USE Types, TypesAfter DEF books, world, bars, events
<1>1. CASE BarCloses
  <2>1. sweep' \in Sweeps /\ Picked' /\ due' \in BOOLEAN BY <1>1 DEF BarCloses, Sweeps, Picked
  <2> QED BY <1>1, <2>1 DEF BarCloses, Visiting
<1>2. CASE Switches \/ SessionTurns
  <2>1. deals' \in Nat /\ upsets' \in Nat BY <1>2 DEF Switches, SessionTurns, Upset
  <2>2. paused' \in BOOLEAN /\ session' \in {"open", "closed", "holiday"}
    BY <1>2 DEF Switches, SessionTurns
  <2> QED BY <1>2, <2>1, <2>2 DEF Switches, SessionTurns, Visiting, Picked
<1>3. CASE Restart
  <2>1. deals' \in Nat /\ upsets' \in Nat /\ cursor' \in Nat BY <1>3 DEF Restart, Upset
  <2>2. tick' \in Ticks /\ Visiting' /\ sweep' \in Sweeps /\ Picked'
    BY <1>3, Constants DEF Restart, Resting, Asleep, Visiting, Picked
  <2> QED BY <1>3, <2>1, <2>2 DEF Restart, Statuses
<1> QED BY <1>1, <1>2, <1>3

LEMMA TypeInit == Init => TypeOK
<1> SUFFICES ASSUME Init PROVE TypeOK OBVIOUS
<1>1. tick \in Ticks /\ Visiting /\ sweep \in Sweeps /\ Picked
  BY Constants DEF Init, Resting, Asleep, Visiting, Picked
<1> QED BY <1>1, Types DEF Init, Statuses

LEMMA TypeNext == TypeOK /\ [Next]_vars => TypeOK'
<1> SUFFICES ASSUME TypeOK, [Next]_vars PROVE TypeOK' OBVIOUS
<1>1. CASE UNCHANGED vars
  BY <1>1, Types, TypesAfter DEF vars, books, world, bars, events, Visiting, Picked
<1> QED BY <1>1, TypeTick, TypeSweep, TypeWorld DEF Next

\* Books, lock, tick, sweep and cursor keep their types, and whoever waits for the lock or scans
\* has a symbol of the watchlist in hand.
THEOREM TypeCorrect == Spec => []TypeOK
BY TypeInit, TypeNext, PTL DEF Spec

-----------------------------------------------------------------------------
(***************************************************************************)
(* The lock.                                                               *)
(***************************************************************************)
\* _SCAN_DECISION_LOCK is held by the one that is at work under it.
Held ==
    /\ tick.at = "scans" <=> lock = "tick"
    /\ tick.at = "trails" <=> lock = "trail"
    /\ sweep.at = "scans" <=> lock = "sweep"

LEMMA HeldNext == TypeOK /\ Held /\ [Next]_vars => Held'
<1> SUFFICES ASSUME TypeOK, Held, [Next]_vars PROVE Held' OBVIOUS
<1> USE Types DEF Held
<1>1. CASE TickReads \/ TickStarts \/ TickCrashes
  <2>1. lock' = lock /\ sweep' = sweep /\ tick.at \in {"rest", "fetches"}
    BY <1>1 DEF TickReads, TickStarts, TickCrashes
  <2>2. tick'.at \in {"rest", "fetches", "waits", "trail"}
    <3>1. CASE TickReads BY <3>1 DEF TickReads, Resting
    <3>2. CASE TickStarts BY <3>2 DEF TickStarts, NextVisit, Resting
    <3>3. CASE TickCrashes BY <3>3 DEF TickCrashes, Resting
    <3> QED BY <1>1, <3>1, <3>2, <3>3
  <2> QED BY <2>1, <2>2
<1>2. CASE TickLocks \/ TrailLocks \/ TrailEnds
  BY <1>2 DEF TickLocks, TrailLocks, TrailEnds, Resting, Ticks
<1>3. CASE TickScans
  <2>1. lock' = "free" /\ lock = "tick" BY <1>3 DEF TickScans, Scan
  <2>2. tick'.at \in {"rest", "trail", "waits"} BY <1>3 DEF TickScans, NextVisit, Resting
  <2>3. sweep'.at = sweep.at BY <1>3 DEF TickScans, SweepSees, Sweeps
  <2> QED BY <2>1, <2>2, <2>3
<1>4. CASE SweepWakes \/ SweepReads \/ SweepFails \/ SweepPicks \/ SweepEnds
  <2>1. lock' = lock /\ tick' = tick
    BY <1>4 DEF SweepWakes, SweepReads, SweepFails, SweepPicks, SweepEnds
  <2>2. sweep.at # "scans"
    BY <1>4 DEF SweepWakes, SweepReads, SweepFails, SweepPicks, SweepEnds
  <2>3. sweep'.at # "scans"
    BY <1>4, StepsSweep, PicksSweep
  <2> QED BY <2>1, <2>2, <2>3
<1>5. CASE SweepLocks BY <1>5 DEF SweepLocks, Sweeps
<1>6. CASE SweepScans BY <1>6 DEF SweepScans, Scan, Sweeps
<1>7. CASE BarCloses BY <1>7 DEF BarCloses, Sweeps
<1>8. CASE Switches \/ SessionTurns \/ Restart
  BY <1>8 DEF Switches, SessionTurns, Restart, Resting, Asleep
<1>9. CASE UNCHANGED vars BY <1>9 DEF vars
<1> QED BY <1>1, <1>2, <1>3, <1>4, <1>5, <1>6, <1>7, <1>8, <1>9 DEF Next, Tick, Sweep

\* "Orders and caps stay one-at-a-time": tick, sweep and trail never decide at once.
THEOREM OneDecides ==
    Spec => [](/\ ~(tick.at = "scans" /\ sweep.at = "scans")
               /\ ~(tick.at = "trails" /\ sweep.at = "scans"))
<1>1. Init => Held BY DEF Init, Held, Resting, Asleep
<1>2. Held => /\ ~(tick.at = "scans" /\ sweep.at = "scans")
              /\ ~(tick.at = "trails" /\ sweep.at = "scans")
  BY DEF Held
<1> QED BY <1>1, <1>2, TypeCorrect, HeldNext, PTL DEF Spec

-----------------------------------------------------------------------------
(***************************************************************************)
(* The tick goes first.                                                    *)
(***************************************************************************)
\* Once the visits have begun the sweep sends no scan to the lock, so the scans that have overtaken
\* the tick and the one that may still do so are one together.
OnItsWay == IF sweep.at = "waits" THEN 1 ELSE 0
First == IF TickWants THEN overtaken + OnItsWay <= 1 ELSE overtaken = 0

LEMMA FirstNext == TypeOK /\ First /\ [Next]_vars => First'
<1> SUFFICES ASSUME TypeOK, First, [Next]_vars PROVE First' OBVIOUS
<1> USE Types DEF First, OnItsWay, TickWants
<1>1. CASE TickReads \/ TickCrashes
  BY <1>1 DEF TickReads, TickCrashes, Resting
<1>2. CASE TickStarts
  BY <1>2 DEF TickStarts, NextVisit, Resting
<1>3. CASE TickLocks \/ TrailLocks \/ TrailEnds
  BY <1>3 DEF TickLocks, TrailLocks, TrailEnds, Resting, Ticks
<1>4. CASE TickScans
  <2>1. sweep'.at = sweep.at BY <1>4 DEF TickScans, SweepSees, Sweeps
  <2>2. \/ tick'.at \in {"rest", "trail"} /\ overtaken' = 0
        \/ tick'.at = "waits" /\ overtaken' = overtaken
    BY <1>4 DEF TickScans, NextVisit, Resting
  <2> QED BY <1>4, <2>1, <2>2 DEF TickScans
<1>5. CASE SweepWakes \/ SweepReads \/ SweepFails \/ SweepEnds \/ SweepScans
  <2>1. overtaken' = overtaken /\ tick' = tick
    BY <1>5 DEF SweepWakes, SweepReads, SweepFails, SweepEnds, SweepScans
  <2>2. sweep'.at # "waits"
    <3>1. SweepScans => sweep'.at = "picks" BY DEF SweepScans, Sweeps
    <3> QED BY <1>5, <3>1, StepsSweep
  <2> QED BY <2>1, <2>2
<1>6. CASE SweepPicks BY <1>6 DEF SweepPicks
<1>7. CASE SweepLocks
  <2>1. sweep.at = "waits" /\ sweep'.at = "scans" /\ tick' = tick BY <1>7 DEF SweepLocks, Sweeps
  <2> QED BY <1>7, <2>1 DEF SweepLocks
<1>8. CASE BarCloses BY <1>8 DEF BarCloses, Sweeps
<1>9. CASE Switches \/ SessionTurns \/ Restart
  BY <1>9 DEF Switches, SessionTurns, Restart, Resting
<1>10. CASE UNCHANGED vars BY <1>10 DEF vars
<1> QED BY <1>1, <1>2, <1>3, <1>4, <1>5, <1>6, <1>7, <1>8, <1>9, <1>10 DEF Next, Tick, Sweep

\* "Tick (open positions) first", for every watchlist: at most one scan of the sweep comes between
\* the first visit of a tick and its last.
THEOREM TickGoesFirst == Spec => []TickFirst
<1>1. Init => First BY DEF Init, First, TickWants, Resting
<1>2. TypeOK /\ First => TickFirst BY DEF TypeOK, First, OnItsWay, TickFirst
<1> QED BY <1>1, <1>2, TypeCorrect, FirstNext, PTL DEF Spec
=============================================================================

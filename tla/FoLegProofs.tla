---------------------------- MODULE FoLegProofs ----------------------------
(***************************************************************************)
(* Proofs about FoLeg, for every schedule of the threads: the row outlives *)
(* the lot; and until two calls have met on the leg no stop outlives the   *)
(* row and no sync lowers the trigger.                                     *)
(***************************************************************************)
EXTENDS FoLeg, TLAPS

USE SlotsAssumption, BoundsAssumption

CallState ==
    [at : Pcs, job : {"none", "entry", "sync", "close"}, leg : Nat, live : SUBSET Slots,
     best : Nat, level : Nat, swept : BOOLEAN, pop : BOOLEAN, restoring : BOOLEAN, tries : Nat]
RowState == [leg : Nat, sl : BOOLEAN, trigger : Nat]

LEMMA MaxPair ==
    ASSUME NEW a \in Int, NEW b \in Int
    PROVE  Max({a, b}) = IF a >= b THEN a ELSE b
<1>1. CASE a >= b BY <1>1 DEF Max
<1>2. CASE ~(a >= b) BY <1>2 DEF Max
<1> QED BY <1>1, <1>2

LEMMA SoldTyped == ASSUME net \in Int PROVE Sold \in Int /\ (net <= 1 => Sold <= 0) /\ (net <= 0 => Sold <= 0)
<1>1. MaxShort \in Nat OBVIOUS
<1>2. Sold = IF net - 1 >= -MaxShort THEN net - 1 ELSE -MaxShort BY <1>1, MaxPair DEF Sold
<1> QED BY <1>1, <1>2

LEMMA WantedTyped ==
    ASSUME TypeOK, NEW t \in Threads, NEW seen \in Nat PROVE Wanted(t, seen) \in Nat
<1>1. op[t].level \in Nat BY DEF TypeOK
<1> QED BY <1>1, MaxPair DEF Wanted

Mishap == faults' \in Nat /\ heard' \subseteq Hiding /\ heard \subseteq heard'

LEMMA FaultTyped ==
    ASSUME TypeOK, NEW k, Fault(k) \/ NoFault \/ UNCHANGED mishaps
    PROVE  Mishap /\ (Fault(k) /\ k \in Hiding => k \in heard')
BY DEF TypeOK, Fault, NoFault, mishaps, Mishap

\* A fault that is not heard was none, or hides no stop.
LEMMA Unheard ==
    ASSUME TypeOK, NEW k \in Hiding, Fault(k), k \notin heard' PROVE FALSE
BY DEF Fault

LEMMA LiveTyped == Live \subseteq Slots /\ Shown \subseteq Live
BY DEF Live, Shown

LEMMA IdleTyped ==
    /\ Idle \in CallState /\ NoRow \in RowState
    /\ \A leg \in Nat : CallClose(leg) \in CallState
<1>1. Retries \in Nat OBVIOUS
<1> QED BY <1>1 DEF Idle, NoRow, CallClose, CallState, RowState, Pcs

LEMMA MovedTyped ==
    ASSUME NEW call \in CallState, NEW pc \in Pcs
    PROVE  /\ Moved(call, pc) \in CallState
           /\ Moved(call, pc).at = pc /\ Moved(call, pc).leg = call.leg
           /\ Moved(call, pc).pop = call.pop /\ Moved(call, pc).job = call.job
           /\ pc \in Reading => Moved(call, pc) = [call EXCEPT !.at = pc]
BY DEF Moved, CallState

LEMMA CancelTyped ==
    ASSUME TypeOK, NEW S, Cancel(S)
    PROVE  stops' \in [Slots -> Nat] /\ hidden' \subseteq Slots /\ Mishap
<1>1. PICK refused \in SUBSET (S \cap Live) :
          /\ IF refused = {} THEN NoFault ELSE Fault("cancel_failed")
          /\ stops' = [s \in Slots |-> IF s \in S \ refused THEN 0 ELSE stops[s]]
          /\ hidden' = hidden \ (S \ refused)
  BY DEF Cancel
<1>2. stops' \in [Slots -> Nat] /\ hidden' \subseteq Slots BY <1>1 DEF TypeOK
<1> QED BY <1>1, <1>2, FaultTyped

\* A thread moves to another place of its call.
LEMMA GoTyped ==
    ASSUME TypeOK, NEW t \in Threads, NEW pc \in Pcs, Go(t, pc)
    PROVE  op' \in [Threads -> CallState]
<1>1. op \in [Threads -> CallState] BY DEF TypeOK, CallState
<1>2. Moved(op[t], pc) \in CallState BY <1>1, MovedTyped
<1> QED BY <1>1, <1>2 DEF Go

LEMMA PlaceTyped ==
    ASSUME TypeOK, NEW t \in Threads, NEW level \in Nat, NEW ok \in Pcs, NEW failed \in Pcs,
           Place(t, level, ok, failed)
    PROVE  /\ stops' \in [Slots -> Nat] /\ hidden' \subseteq Slots /\ Mishap
           /\ Go(t, ok) \/ Go(t, failed)
<1>1. Mishap BY FaultTyped DEF Place
<1>2. CASE Fault("refused") /\ Go(t, failed) /\ UNCHANGED book BY <1>1, <1>2 DEF TypeOK, book
<1>3. ASSUME NEW s \in Slots \ Taken, stops' = [stops EXCEPT ![s] = level],
             hidden' \in {hidden, hidden \cup {s}}, Go(t, ok) \/ Go(t, failed)
      PROVE  stops' \in [Slots -> Nat] /\ hidden' \subseteq Slots
  BY <1>3 DEF TypeOK
<1> QED BY <1>1, <1>2, <1>3 DEF Place

LEMMA RecordTyped ==
    ASSUME TypeOK, NEW level \in Nat, Record(level)
    PROVE  row' \in RowState /\ row'.leg = row.leg /\ (row'.leg = 0 => row' = NoRow)
BY DEF TypeOK, Record, NoRow, RowState

LEMMA NakedTyped ==
    ASSUME TypeOK, NEW t \in Threads, NEW call \in CallState, Naked(t, call)
    PROVE  op' \in [Threads -> CallState] /\ timer' \in {"none", "running", "over"}
<1>0. op \in [Threads -> CallState] /\ timer \in {"none", "running", "over"} BY DEF TypeOK, CallState
<1>1. CASE timer = "over"
  <2>1. PICK moved \in CallState : moved = Moved(call, "check") BY MovedTyped DEF Pcs
  <2>2. [moved EXCEPT !.job = "close", !.pop = TRUE] \in CallState BY DEF CallState
  <2>3. op' = [op EXCEPT ![t] = [moved EXCEPT !.job = "close", !.pop = TRUE]] /\ timer' = timer
    BY <1>1, <2>1 DEF Naked
  <2> QED BY <1>0, <2>2, <2>3
<1>2. CASE timer # "over"
  <2>1. Moved(call, "fail") \in CallState BY MovedTyped DEF Pcs
  <2>2. op' = [op EXCEPT ![t] = Moved(call, "fail")] /\ timer' = "running" BY <1>2 DEF Naked
  <2> QED BY <1>0, <2>1, <2>2
<1> QED BY <1>1, <1>2

LEMMA TypeInit == Init => TypeOK
<1> SUFFICES ASSUME Init PROVE TypeOK
  OBVIOUS
<1>1. op \in [Threads -> CallState] BY IdleTyped DEF Init
<1>2. row \in RowState /\ row = NoRow /\ mirror = NoRow BY IdleTyped DEF Init
<1>3. op \in [Threads -> [at : Pcs, job : {"none", "entry", "sync", "close"}, leg : Nat,
                            live : SUBSET Slots, best : Nat, level : Nat, swept : BOOLEAN,
                            pop : BOOLEAN, restoring : BOOLEAN, tries : Nat]]
  BY <1>1 DEF CallState
<1>4. {row, mirror} \subseteq [leg : Nat, sl : BOOLEAN, trigger : Nat] BY <1>2 DEF RowState
<1>5. stops \in [Slots -> Nat] /\ hidden \subseteq Slots BY DEF Init
<1>6. net \in Int /\ shown \in Int /\ buys \in Nat /\ peak \in Nat BY DEF Init
<1>7. heard \subseteq Hiding /\ faults \in Nat /\ adrift \in BOOLEAN /\ met \in BOOLEAN BY DEF Init
<1>8. young \in BOOLEAN /\ closing \in BOOLEAN BY DEF Init
<1>9. timer \in {"none", "running", "over"} BY DEF Init
<1> QED BY <1>2, <1>3, <1>4, <1>5, <1>6, <1>7, <1>8, <1>9 DEF TypeOK

LEMMA TypeNext == TypeOK /\ [Next]_vars => TypeOK'
<1> SUFFICES ASSUME TypeOK, [Next]_vars PROVE TypeOK'
  OBVIOUS
<1>T. /\ net \in Int /\ shown \in Int /\ stops \in [Slots -> Nat] /\ hidden \subseteq Slots
      /\ row \in RowState /\ (row.leg = 0 => row = NoRow)
      /\ mirror \in RowState /\ (mirror.leg = 0 => mirror = NoRow)
      /\ buys \in Nat /\ young \in BOOLEAN /\ peak \in Nat
      /\ timer \in {"none", "running", "over"} /\ closing \in BOOLEAN
      /\ op \in [Threads -> CallState] /\ adrift \in BOOLEAN /\ met \in BOOLEAN
  BY DEF TypeOK, CallState, RowState
<1>G. ASSUME /\ net' \in Int /\ shown' \in Int /\ stops' \in [Slots -> Nat] /\ hidden' \subseteq Slots
             /\ row' \in RowState /\ (row'.leg = 0 => row' = NoRow)
             /\ mirror' \in RowState /\ (mirror'.leg = 0 => mirror' = NoRow)
             /\ buys' \in Nat /\ young' \in BOOLEAN /\ peak' \in Nat
             /\ timer' \in {"none", "running", "over"} /\ closing' \in BOOLEAN
             /\ op' \in [Threads -> CallState] /\ adrift' \in BOOLEAN /\ met' \in BOOLEAN
             /\ Mishap
      PROVE  TypeOK'
  BY <1>G DEF TypeOK, CallState, RowState, Mishap
<1>F. \A k : Fault(k) \/ NoFault \/ UNCHANGED mishaps => Mishap BY FaultTyped
<1>N. NoRow \in RowState /\ NoRow.leg = 0 BY IdleTyped DEF NoRow
<1> USE <1>T, <1>F DEF kotak, book, outside, history
<1>1. ASSUME NEW s \in Slots, Fill(s) PROVE TypeOK'
  BY <1>1, <1>G, SoldTyped DEF Fill
<1>2. CASE CatchUp \/ BookCatchesUp BY <1>2, <1>G DEF CatchUp, BookCatchesUp
<1>3. CASE Age BY <1>3, <1>G DEF Age
<1>4. CASE Rally BY <1>4, <1>G DEF Rally
<1>5. CASE TimerEnds BY <1>5, <1>G DEF TimerEnds
<1>6. CASE Session BY <1>6, <1>G DEF Session
<1>7. CASE Restart
  <2>1. op' = [u \in Threads |-> Idle] /\ row' = mirror /\ timer' = "none" BY <1>7 DEF Restart
  <2>2. op' \in [Threads -> CallState] BY <2>1, IdleTyped
  <2>3. adrift' \in BOOLEAN /\ Mishap BY <1>7 DEF Restart
  <2>4. UNCHANGED <<kotak, outside, met>> BY <1>7 DEF Restart
  <2> QED BY <2>1, <2>2, <2>3, <2>4, <1>G
<1>8. ASSUME NEW t \in Threads, Enter(t) PROVE TypeOK'
  <2>1. \/ op' = [op EXCEPT ![t] = [Idle EXCEPT !.at = "bought", !.job = "entry", !.leg = buys + 1]]
        \/ op' = op
    BY <1>8 DEF Enter
  <2>2. [Idle EXCEPT !.at = "bought", !.job = "entry", !.leg = buys + 1] \in CallState
    <3>1. buys + 1 \in Nat /\ "bought" \in Pcs /\ Idle \in CallState BY IdleTyped DEF Pcs
    <3> QED BY <3>1 DEF CallState
  <2>3. op' \in [Threads -> CallState] BY <2>1, <2>2
  <2>4. net' \in {net, net + 1} /\ adrift' \in {adrift, TRUE} BY <1>8 DEF Enter
  <2>5. Mishap
    <3>1. NoFault \/ Fault("unfilled") \/ Fault("lost_buy") BY <1>8 DEF Enter
    <3> QED BY <3>1
  <2>6. met' \in BOOLEAN /\ buys' = buys + 1 /\ young' = TRUE /\ peak' = 1
        /\ UNCHANGED <<shown, book, row, mirror, timer, closing>>
    BY <1>8 DEF Enter, Begin
  <2>7. net' \in Int /\ buys' \in Nat BY <2>4, <2>6
  <2>8. adrift' \in BOOLEAN BY <2>4
  <2> QED BY <2>3, <2>5, <2>6, <2>7, <2>8, <1>G
<1>27. ASSUME NEW t \in Threads, Book(t) PROVE TypeOK'
  <2>1. op' \in [Threads -> CallState] BY <1>27, IdleTyped DEF Book, CallState, Pcs
  <2>2. op[t].leg \in Nat BY DEF CallState
  <2>3. row' \in RowState /\ row'.leg = op[t].leg BY <1>27, <1>N, <2>2 DEF Book, RowState
  <2>4. op[t].leg = 0 => row' = NoRow BY <1>27, <1>N DEF Book, RowState, NoRow
  <2> QED BY <1>27, <2>1, <2>3, <2>4, <1>G DEF Book
<1>28. ASSUME NEW t \in Threads, Push(t) PROVE TypeOK'
  BY <1>28, <1>G DEF Push
<1>9. ASSUME NEW t \in Threads, Exit(t) PROVE TypeOK'
  <2>1. row.leg \in Nat BY DEF RowState
  <2>2. op' \in [Threads -> CallState] BY <1>9, <2>1, IdleTyped DEF Exit
  <2> QED BY <1>9, <2>2, <1>G DEF Exit, Begin
<1>10. ASSUME NEW t \in Threads, Tick(t) PROVE TypeOK'
  <2>1. op' \in [Threads -> CallState] BY <1>10, IdleTyped DEF Tick, CallState, Pcs
  <2> QED BY <1>10, <2>1, <1>G DEF Tick, Begin
<1>11. ASSUME NEW t \in Threads, Retry(t) PROVE TypeOK'
  <2>1. op[t].tries - 1 \in Nat BY <1>11 DEF Retry, CallState
  <2>2. [Idle EXCEPT !.at = "read", !.job = "entry", !.tries = op[t].tries - 1] \in CallState
    BY <2>1, IdleTyped DEF CallState, Pcs
  <2>3. op' \in [Threads -> CallState] BY <1>11, <2>2 DEF Retry
  <2> QED BY <1>11, <2>3, <1>G DEF Retry
<1>12. ASSUME NEW t \in Threads, Unwind(t) PROVE TypeOK'
  <2>1. row.leg \in Nat BY DEF RowState
  <2>2. op' \in [Threads -> CallState] BY <1>12, <2>1, IdleTyped DEF Unwind
  <2> QED BY <1>12, <2>2, <1>G DEF Unwind
<1>13. ASSUME NEW t \in Threads, SyncRead(t) PROVE TypeOK'
  <2> DEFINE read == [op[t] EXCEPT !.leg = row.leg]
  <2>1. read \in CallState BY DEF CallState, RowState
  <2>2. op' \in [Threads -> CallState] /\ timer' \in {"none", "running", "over"}
        /\ Mishap
    <3>1. CASE NoFault /\ UNCHANGED timer /\ Go(t, "end") BY <3>1, GoTyped DEF Pcs
    <3>2. CASE Fault("unreadable") /\ UNCHANGED timer /\ Go(t, "fail") BY <3>2, GoTyped DEF Pcs
    <3>3. CASE Fault("unreadable") /\ Naked(t, read) BY <3>3, <2>1, NakedTyped
    <3>4. ASSUME NoFault, UNCHANGED timer, NEW best \in {stops[s] : s \in Shown} \cup {0},
                 NEW pc \in {"decide", "await", "clear"},
                 op' = [op EXCEPT ![t] = [read EXCEPT !.live = Shown, !.best = best, !.level = row.trigger, !.at = pc]]
          PROVE  op' \in [Threads -> CallState] /\ timer' \in {"none", "running", "over"}
                 /\ Mishap
      <4>1. best \in Nat
        <5>1. \A s \in Shown : s \in Slots BY LiveTyped
        <5>2. \A s \in Shown : stops[s] \in Nat BY <5>1
        <5> QED BY <5>2
      <4>2. row.trigger \in Nat BY DEF RowState
      <4>3. [read EXCEPT !.live = Shown, !.best = best, !.level = row.trigger, !.at = pc] \in CallState
        BY <2>1, <4>1, <4>2, LiveTyped DEF CallState, Pcs
      <4> QED BY <3>4, <4>3 DEF NoFault
    <3> QED BY <1>13, <3>1, <3>2, <3>3, <3>4 DEF SyncRead
  <2> QED BY <1>13, <2>2, <1>G DEF SyncRead
<1>14. ASSUME NEW t \in Threads, SyncDecide(t) PROVE TypeOK'
  <2>0. op[t] \in CallState OBVIOUS
  <2>1. ASSUME NEW breached \in BOOLEAN,
               op' = [op EXCEPT ![t] = [Moved(@, "check") EXCEPT !.job = "close", !.pop = @ \/ breached]],
               UNCHANGED <<row, timer>>
        PROVE  TypeOK'
    <3>0. PICK moved \in CallState : moved = Moved(op[t], "check") BY <2>0, MovedTyped DEF Pcs
    <3>1. op' \in [Threads -> CallState] BY <2>1, <3>0 DEF CallState
    <3> QED BY <1>14, <2>1, <3>1, <1>G DEF SyncDecide
  <2>2. ASSUME Go(t, "end"), UNCHANGED <<row, timer>> PROVE TypeOK'
    BY <1>14, <2>2, <1>G, GoTyped DEF SyncDecide, Pcs
  <2>3. ASSUME Record(op[t].best), timer' = "none", Go(t, "end") PROVE TypeOK'
    <3>1. op[t].best \in Nat BY DEF CallState
    <3>2. op' \in [Threads -> CallState] BY <2>3, GoTyped DEF Pcs
    <3> QED BY <1>14, <2>3, <3>1, <3>2, <1>G, RecordTyped DEF SyncDecide
  <2>4. ASSUME Naked(t, op[t]), UNCHANGED row PROVE TypeOK'
    BY <1>14, <2>4, <2>0, NakedTyped, <1>G DEF SyncDecide
  <2>5. ASSUME NEW seen \in 1..peak, NEW pc \in {"place", "cancel"}, UNCHANGED <<row, timer>>,
               op' = [op EXCEPT ![t].level = Wanted(t, seen), ![t].at = pc]
        PROVE  TypeOK'
    <3>1. Wanted(t, seen) \in Nat BY WantedTyped
    <3>2. op' \in [Threads -> CallState] BY <2>5, <3>1, <2>0 DEF CallState, Pcs
    <3> QED BY <1>14, <2>5, <3>2, <1>G DEF SyncDecide
  <2> QED BY <1>14, <2>1, <2>2, <2>3, <2>4, <2>5 DEF SyncDecide
<1>15. ASSUME NEW t \in Threads, SyncCancel(t) PROVE TypeOK'
  BY <1>15, <1>G, CancelTyped, GoTyped DEF SyncCancel, Pcs
<1>16. ASSUME NEW t \in Threads, SyncPlace(t) PROVE TypeOK'
  <2> DEFINE failed == IF op[t].live = {} THEN "unplaced" ELSE "restore"
  <2>1. op[t].level \in Nat BY DEF CallState
  <2>2. {"placed", failed} \subseteq Pcs BY DEF Pcs
  <2>3. Place(t, op[t].level, "placed", failed) BY <1>16 DEF SyncPlace
  <2>4. /\ stops' \in [Slots -> Nat] /\ hidden' \subseteq Slots /\ Mishap
        /\ Go(t, "placed") \/ Go(t, failed)
    BY <2>1, <2>2, <2>3, PlaceTyped
  <2>5. op' \in [Threads -> CallState] BY <2>2, <2>4, GoTyped
  <2> QED BY <1>16, <2>4, <2>5, <1>G DEF SyncPlace
<1>17. ASSUME NEW t \in Threads, SyncRestore(t) PROVE TypeOK'
  <2>1. op[t].best \in Nat BY DEF CallState
  <2>2. {"restored", "unplaced"} \subseteq Pcs BY DEF Pcs
  <2>3. Place(t, op[t].best, "restored", "unplaced") BY <1>17 DEF SyncRestore
  <2>4. /\ stops' \in [Slots -> Nat] /\ hidden' \subseteq Slots /\ Mishap
        /\ Go(t, "restored") \/ Go(t, "unplaced")
    BY <2>1, <2>2, <2>3, PlaceTyped
  <2>5. op' \in [Threads -> CallState] BY <2>2, <2>4, GoTyped
  <2> QED BY <1>17, <2>4, <2>5, <1>G DEF SyncRestore
<1>18. ASSUME NEW t \in Threads, SyncRecord(t) PROVE TypeOK'
  <2>0. op[t] \in CallState /\ op[t].level \in Nat /\ op[t].best \in Nat BY DEF CallState
  <2>1. ASSUME NEW level \in {op[t].level, op[t].best}, Record(level),
               timer' \in {"none", timer}, Go(t, "end")
        PROVE  TypeOK'
    <3>1. op' \in [Threads -> CallState] BY <2>1, GoTyped DEF Pcs
    <3> QED BY <1>18, <2>0, <2>1, <3>1, <1>G, RecordTyped DEF SyncRecord
  <2>2. ASSUME Naked(t, op[t]), UNCHANGED row PROVE TypeOK'
    BY <1>18, <2>0, <2>2, NakedTyped, <1>G DEF SyncRecord
  <2> QED BY <1>18, <2>1, <2>2 DEF SyncRecord
<1>19. ASSUME NEW t \in Threads, CloseCheck(t) PROVE TypeOK'
  <2>1. op' \in [Threads -> CallState]
    <3>1. CASE op' = [op EXCEPT ![t].at = "clear", ![t].live = Shown]
      <4>1. PICK S \in SUBSET Slots : S = Shown BY LiveTyped
      <4>2. op' = [op EXCEPT ![t].at = "clear", ![t].live = S] BY <3>1, <4>1
      <4>3. [op[t] EXCEPT !.at = "clear", !.live = S] \in CallState BY DEF CallState, Pcs
      <4>4. op' = [op EXCEPT ![t] = [op[t] EXCEPT !.at = "clear", !.live = S]] BY <4>2
      <4> QED BY <4>3, <4>4
    <3>2. CASE Go(t, "sweep") BY <3>2, GoTyped DEF Pcs
    <3> QED BY <1>19, <3>1, <3>2 DEF CloseCheck
  <2> QED BY <1>19, <2>1, <1>G DEF CloseCheck
<1>20. ASSUME NEW t \in Threads, Clear(t) PROVE TypeOK'
  <2>0. op[t] \in CallState OBVIOUS
  <2>1. PICK late \in BOOLEAN :
            op' = [op EXCEPT ![t] = [Moved(@, "drop") EXCEPT !.pop = @ \/ late, !.job = "close"]]
    BY <1>20 DEF Clear
  <2>3. PICK moved \in CallState : moved = Moved(op[t], "drop") BY <2>0, MovedTyped DEF Pcs
  <2>2. op' \in [Threads -> CallState] BY <2>1, <2>3 DEF CallState
  <2> QED BY <1>20, <2>2, <1>G, CancelTyped DEF Clear
<1>21. ASSUME NEW t \in Threads, CloseSweep(t) PROVE TypeOK'
  <2>1. op' \in [Threads -> CallState] BY <1>21 DEF CloseSweep, CallState, Pcs
  <2>2. stops' \in [Slots -> Nat] /\ hidden' \subseteq Slots /\ Mishap
    BY <1>21, CancelTyped DEF CloseSweep
  <2> QED BY <1>21, <2>1, <2>2, <1>G DEF CloseSweep
<1>22. ASSUME NEW t \in Threads, CloseSell(t) PROVE TypeOK'
  <2>1. op' \in [Threads -> CallState] BY <1>22, GoTyped DEF CloseSell, Pcs
  <2> QED BY <1>22, <2>1, <1>G, SoldTyped DEF CloseSell
<1>23. ASSUME NEW t \in Threads, CloseDrop(t) PROVE TypeOK'
  <2>1. op' \in [Threads -> CallState] BY <1>23, GoTyped DEF CloseDrop, Pcs
  <2> QED BY <1>23, <2>1, <1>N, <1>G DEF CloseDrop
<1>24. ASSUME NEW t \in Threads, CloseUnsold(t) PROVE TypeOK'
  <2>0. op[t] \in CallState /\ op[t].pop \in BOOLEAN BY DEF CallState
  <2>1. [Idle EXCEPT !.at = "read", !.job = "close", !.pop = op[t].pop, !.restoring = TRUE] \in CallState
    BY <2>0, IdleTyped DEF CallState, Pcs
  <2>2. [op[t] EXCEPT !.at = "end"] \in CallState BY <2>0 DEF CallState, Pcs
  <2>3. op' \in [Threads -> CallState] BY <1>24, <2>1, <2>2 DEF CloseUnsold
  <2> QED BY <1>24, <2>3, <1>G DEF CloseUnsold
<1>25. ASSUME NEW t \in Threads, End(t) PROVE TypeOK'
  <2>1. op' \in [Threads -> CallState] BY <1>25, IdleTyped DEF End
  <2> QED BY <1>25, <2>1, <1>G DEF End
<1>26. CASE UNCHANGED vars BY <1>26, <1>G DEF vars, mishaps, TypeOK, Mishap
<1> QED
  BY <1>1, <1>2, <1>3, <1>4, <1>5, <1>6, <1>7, <1>8, <1>9, <1>10, <1>11, <1>12, <1>13, <1>14, <1>15,
     <1>16, <1>17, <1>18, <1>19, <1>20, <1>21, <1>22, <1>23, <1>24, <1>25, <1>26, <1>27, <1>28
  DEF Next, Step

\* Position, book, row and the calls of both threads keep their types, for every number of
\* entries, stops and faults, whether or not the threads of main.py work on the leg at once.
THEOREM TypeCorrect == Spec => []TypeOK
BY TypeInit, TypeNext, PTL DEF Spec

(***************************************************************************)
(* NeverForgets.  A row is dropped after a sell or because Kotak shows no  *)
(* lots.  Unless the lots went adrift that is no accident, because a leg   *)
(* is one lot, positions() shows a buy before the buy is 120 s old, and a  *)
(* call that drops the row of another entry than it read leaves lots       *)
(* adrift.  A row of an older entry than the last one (a restart brings it *)
(* back) stands for nothing.                                               *)
(***************************************************************************)
LegsKnown == row.leg <= buys /\ mirror.leg <= buys /\ \A t \in Threads : op[t].leg <= buys
OneLot == net >= -MaxShort /\ (~adrift => net <= 1)
SeenWhenOld == young \/ shown >= net
OldEntry == row.leg \notin {0, buys} /\ ~adrift => net <= 0
SoldBeforeDrop ==
    \A t \in Threads : op[t].at \in {"drop", "clear"} /\ op[t].leg = buys /\ ~adrift => net <= 0
BoughtLast ==
    \A t \in Threads : op[t].at = "bought" =>
        t = "scan" /\ op[t].leg = buys /\ buys > 0 /\ row = NoRow /\ mirror.leg # buys
IInv == LegsKnown /\ OneLot /\ SeenWhenOld /\ OldEntry /\ SoldBeforeDrop /\ BoughtLast /\ NeverForgets

Others(t) == \A u \in Threads : u # t => op'[u] = op[u]

LEMMA SoldLower ==
    ASSUME TypeOK, IInv
    PROVE  Sold \in Int /\ Sold <= net /\ (~adrift => Sold <= 0) /\ Sold >= -MaxShort
<1>1. net \in Int /\ net >= -MaxShort /\ (~adrift => net <= 1) /\ MaxShort \in Nat BY DEF TypeOK, IInv, OneLot
<1>2. Sold = IF net - 1 >= -MaxShort THEN net - 1 ELSE -MaxShort BY <1>1, MaxPair DEF Sold
<1>3. \A n, m \in Int : n >= -m /\ m \in Nat =>
         LET s == IF n - 1 >= -m THEN n - 1 ELSE -m IN s \in Int /\ s <= n /\ s >= -m /\ (n <= 1 => s <= 0)
  OBVIOUS
<1> QED BY <1>1, <1>2, <1>3

LEMMA RowOrLeg == ASSUME TypeOK PROVE (row = NoRow) = (row.leg = 0)
BY DEF TypeOK, NoRow

\* What a step of one thread has to show.
LEMMA ThreadStep ==
    ASSUME TypeOK, TypeOK', IInv, NEW t \in Threads, Others(t), UNCHANGED <<shown, buys, young>>,
           net' \in {net, Sold}, mirror' \in {mirror, row}, row'.leg = row.leg, adrift' \in {adrift, TRUE},
           op[t].at # "bought", op'[t].at # "bought", op'[t].leg <= buys,
           op'[t].at \in {"drop", "clear"} /\ op'[t].leg = buys /\ ~adrift' => net' <= 0
    PROVE  IInv'
<1>0. net \in Int /\ shown \in Int /\ net' \in Int /\ net' <= net /\ net' >= -MaxShort
  BY SoldLower DEF TypeOK, IInv, OneLot
<1>1. ~adrift' => ~adrift BY DEF TypeOK
<1>N. (row = NoRow) = (row.leg = 0) /\ (row' = NoRow) = (row'.leg = 0)
  <2>1. (row' = NoRow) = (row'.leg = 0) BY DEF TypeOK, NoRow
  <2> QED BY <2>1, RowOrLeg
<1>2. LegsKnown'
  <2>1. \A u \in Threads : op'[u].leg <= buys BY DEF IInv, LegsKnown, Others
  <2> QED BY <2>1 DEF IInv, LegsKnown
<1>3. OneLot'
  <2>1. ~adrift' => net <= 1 BY <1>1 DEF IInv, OneLot
  <2>2. \A a, b \in Int : a <= b /\ b <= 1 => a <= 1 OBVIOUS
  <2> QED BY <1>0, <2>1, <2>2 DEF OneLot
<1>Z. \A a, b \in Int : a <= b /\ b <= 0 => a <= 0 OBVIOUS
<1>4. SeenWhenOld'
  <2>1. \A a, b, c \in Int : a <= b /\ c >= b => c >= a OBVIOUS
  <2> QED BY <1>0, <2>1 DEF IInv, SeenWhenOld
<1>5. OldEntry'
  <2>1. row'.leg \notin {0, buys} /\ ~adrift' => net <= 0 BY <1>1 DEF IInv, OldEntry
  <2> QED BY <1>0, <1>Z, <2>1 DEF OldEntry
<1>6. SoldBeforeDrop'
  <2> SUFFICES ASSUME NEW u \in Threads, op'[u].at \in {"drop", "clear"}, op'[u].leg = buys, ~adrift'
               PROVE  net' <= 0
    BY DEF SoldBeforeDrop
  <2>1. CASE u = t BY <2>1
  <2>2. CASE u # t
    <3>1. net <= 0 BY <1>1, <2>2 DEF IInv, SoldBeforeDrop, Others
    <3> QED BY <1>0, <1>Z, <3>1
  <2> QED BY <2>1, <2>2
<1>7. BoughtLast'
  <2>1. row = NoRow /\ buys > 0 => row.leg # buys BY <1>N
  <2> QED BY <1>N, <2>1 DEF IInv, BoughtLast, Others
<1>8. NeverForgets'
  <2> SUFFICES ASSUME ~Tracked', ~adrift' PROVE net' <= 0
    BY DEF NeverForgets
  <2>1. ~Tracked BY <1>N DEF Tracked, At, Others
  <2>2. net <= 0 BY <1>1, <2>1 DEF IInv, NeverForgets
  <2> QED BY <1>0, <1>Z, <2>2
<1> QED BY <1>2, <1>3, <1>4, <1>5, <1>6, <1>7, <1>8 DEF IInv

\* A step of Kotak, the market or the clock.
LEMMA OutsideStep ==
    ASSUME TypeOK, IInv, UNCHANGED <<op, buys, row, mirror, adrift>>, net' \in {net, Sold}, SeenWhenOld'
    PROVE  IInv'
<1>1. net \in Int /\ net' \in Int /\ net' <= net /\ net' >= -MaxShort
  BY SoldLower DEF TypeOK, IInv, OneLot
<1>2. Tracked' = Tracked BY DEF Tracked, At
<1>3. \A a, b \in Int : a <= b => (b <= 1 => a <= 1) /\ (b <= 0 => a <= 0) OBVIOUS
<1>4. (net <= 1 => net' <= 1) /\ (net <= 0 => net' <= 0) BY <1>1, <1>3
<1> QED
  BY <1>1, <1>2, <1>4 DEF IInv, LegsKnown, OneLot, OldEntry, SoldBeforeDrop, BoughtLast, NeverForgets

LEMMA GoMoves ==
    ASSUME TypeOK, NEW t \in Threads, NEW pc \in Pcs, Go(t, pc)
    PROVE  /\ Others(t) /\ op'[t].at = pc /\ op'[t].leg = op[t].leg
           /\ pc \in Reading => op' = [op EXCEPT ![t] = [@ EXCEPT !.at = pc]]
<1>1. op \in [Threads -> CallState] BY DEF TypeOK, CallState
<1>2. /\ Moved(op[t], pc).at = pc /\ Moved(op[t], pc).leg = op[t].leg
      /\ pc \in Reading => Moved(op[t], pc) = [op[t] EXCEPT !.at = pc]
  BY <1>1, MovedTyped
<1>3. op' = [op EXCEPT ![t] = Moved(op[t], pc)] BY DEF Go
<1> QED BY <1>1, <1>2, <1>3 DEF Others

LEMMA NakedMoves ==
    ASSUME TypeOK, NEW t \in Threads, NEW call \in CallState, Naked(t, call)
    PROVE  Others(t) /\ op'[t].at \in {"check", "fail"} /\ op'[t].leg = call.leg
<1>1. op \in [Threads -> CallState] BY DEF TypeOK, CallState
<1>2. CASE timer = "over"
  <2>1. PICK moved \in CallState : moved = Moved(call, "check") /\ moved.at = "check" /\ moved.leg = call.leg
    BY MovedTyped DEF Pcs
  <2>2. op' = [op EXCEPT ![t] = [moved EXCEPT !.job = "close", !.pop = TRUE]] BY <1>2, <2>1 DEF Naked
  <2> QED BY <1>1, <2>1, <2>2 DEF Others, CallState
<1>3. CASE timer # "over"
  <2>1. PICK moved \in CallState : moved = Moved(call, "fail") /\ moved.at = "fail" /\ moved.leg = call.leg
    BY MovedTyped DEF Pcs
  <2>2. op' = [op EXCEPT ![t] = moved] BY <1>3, <2>1 DEF Naked
  <2> QED BY <1>1, <2>1, <2>2 DEF Others
<1> QED BY <1>2, <1>3

LEMMA PlaceMoves ==
    ASSUME TypeOK, NEW t \in Threads, NEW level \in Nat, NEW ok \in Pcs, NEW failed \in Pcs,
           Place(t, level, ok, failed)
    PROVE  Others(t) /\ op'[t].at \in {ok, failed} /\ op'[t].leg = op[t].leg
BY PlaceTyped, GoMoves

\* positions() shows no lots and the entry, if it is the last, is old: there are none.
LEMMA NothingHeld ==
    ASSUME TypeOK, IInv, NEW leg, shown <= 0, ~Young(leg) PROVE leg = buys => net <= 0
<1>1. net \in Int /\ shown \in Int BY DEF TypeOK
<1>2. \A a, b \in Int : a >= b /\ a <= 0 => b <= 0 OBVIOUS
<1> QED BY <1>1, <1>2 DEF IInv, SeenWhenOld, Young

LEMMA InvInit == Init => IInv
<1> SUFFICES ASSUME Init PROVE IInv
  OBVIOUS
<1>1. \A t \in Threads : op[t].at = "idle" /\ op[t].leg = 0 BY DEF Init, Idle
<1>2. net = 0 /\ shown = 0 /\ MaxShort \in Nat BY DEF Init
<1>3. row.leg = 0 /\ mirror.leg = 0 /\ buys = 0 BY DEF Init, NoRow
<1>4. SoldBeforeDrop /\ BoughtLast BY <1>1 DEF SoldBeforeDrop, BoughtLast
<1> QED BY <1>1, <1>2, <1>3, <1>4 DEF IInv, LegsKnown, OneLot, OldEntry, NeverForgets, SeenWhenOld

LEMMA InvNext == TypeOK /\ TypeOK' /\ IInv /\ [Next]_vars => IInv'
<1> SUFFICES ASSUME TypeOK, TypeOK', IInv, [Next]_vars PROVE IInv'
  OBVIOUS
<1>T. /\ net \in Int /\ shown \in Int /\ buys \in Nat /\ row \in RowState /\ mirror \in RowState
      /\ op \in [Threads -> CallState]
  BY DEF TypeOK, RowState, CallState
<1>R. row.leg <= buys /\ mirror.leg <= buys /\ (\A t \in Threads : op[t].leg <= buys)
  BY DEF IInv, LegsKnown
<1>S. Sold \in Int /\ Sold <= net /\ (~adrift => Sold <= 0) BY SoldLower
<1> USE <1>T DEF kotak, outside, history
<1>1. ASSUME NEW s \in Slots, Fill(s) PROVE IInv'
  <2>1. \A a, b, c \in Int : a <= b /\ c >= b => c >= a OBVIOUS
  <2>2. net' = Sold /\ young' = young /\ shown' = shown BY <1>1 DEF Fill
  <2>3. SeenWhenOld' BY <1>S, <2>1, <2>2 DEF SeenWhenOld, IInv
  <2> QED BY <1>1, <2>3, OutsideStep DEF Fill
<1>2. CASE CatchUp
  <2>1. SeenWhenOld' BY <1>2 DEF CatchUp, SeenWhenOld
  <2> QED BY <1>2, <2>1, OutsideStep DEF CatchUp
<1>3. CASE Age
  <2>1. SeenWhenOld' BY <1>3 DEF Age, SeenWhenOld
  <2> QED BY <1>3, <2>1, OutsideStep DEF Age
<1>4. CASE Rally
  <2>1. SeenWhenOld' BY <1>4 DEF Rally, SeenWhenOld, IInv
  <2> QED BY <1>4, <2>1, OutsideStep DEF Rally
<1>5. CASE TimerEnds \/ BookCatchesUp
  <2>1. SeenWhenOld' BY <1>5 DEF TimerEnds, BookCatchesUp, SeenWhenOld, IInv
  <2> QED BY <1>5, <2>1, OutsideStep DEF TimerEnds, BookCatchesUp
<1>6. CASE Session
  <2>1. SeenWhenOld' BY <1>6 DEF Session, SeenWhenOld, IInv
  <2> QED BY <1>6, <2>1, OutsideStep DEF Session
\* What the restart loses is adrift; what it brings back is the row, or one that stands for nothing.
<1>7. CASE Restart
  <2>1. /\ op' = [u \in Threads |-> Idle] /\ row' = mirror
        /\ adrift' = (\/ adrift \/ row.leg \notin {0, mirror.leg} \/ \E t \in Threads : At(t, "bought"))
        /\ UNCHANGED <<net, shown, young, buys, mirror>>
    BY <1>7 DEF Restart
  <2>2. \A t \in Threads : op'[t].at = "idle" /\ op'[t].leg = 0 BY <2>1 DEF Idle
  <2>3. SoldBeforeDrop' /\ BoughtLast' BY <2>2 DEF SoldBeforeDrop, BoughtLast
  <2>4. LegsKnown' BY <1>R, <2>1, <2>2 DEF LegsKnown
  <2>5. OneLot' /\ SeenWhenOld' BY <2>1 DEF IInv, OneLot, SeenWhenOld
  <2>6. ~adrift' => ~adrift /\ row.leg \in {0, mirror.leg} /\ \A t \in Threads : ~At(t, "bought")
    BY <2>1 DEF TypeOK
  <2>7. row.leg = 0 /\ ~adrift' => net <= 0
    BY <2>6, RowOrLeg DEF Tracked, IInv, NeverForgets
  <2>8. OldEntry'
    <3>1. row.leg = mirror.leg /\ ~adrift' /\ row'.leg \notin {0, buys} => net <= 0
      BY <2>1, <2>6 DEF IInv, OldEntry
    <3> QED BY <2>1, <2>6, <2>7, <3>1 DEF OldEntry
  <2>9. NeverForgets'
    <3>1. ~Tracked' => mirror.leg = 0 BY <2>1 DEF Tracked, NoRow
    <3> QED BY <2>1, <2>6, <2>7, <3>1 DEF NeverForgets
  <2> QED BY <2>3, <2>4, <2>5, <2>8, <2>9 DEF IInv
\* A buy, by the only thread that buys, when there is no row.
<1>8. ASSUME NEW t \in Threads, Enter(t) PROVE IInv'
  <2>0. /\ t = "scan" /\ op[t].at = "idle" /\ row = NoRow /\ row.leg = 0 /\ buys' = buys + 1 /\ young' = TRUE
        /\ UNCHANGED <<row, mirror>> /\ net' \in {net, net + 1} /\ Others(t)
    BY <1>8 DEF Enter, Begin, At, NoRow, Others
  <2>1. ~adrift => net <= 0 /\ net >= -MaxShort
    <3>1. \A u \in Threads : op[u].at # "bought" BY <2>0 DEF IInv, BoughtLast
    <3>2. ~Tracked BY <2>0, <3>1 DEF Tracked, At
    <3> QED BY <3>2 DEF IInv, NeverForgets, OneLot
  <2>2. \/ op'[t].at = "bought" /\ op'[t].leg = buys + 1 /\ adrift' = adrift
        \/ op' = op /\ adrift' = TRUE
    BY <1>8 DEF Enter, Idle
  <2>3. LegsKnown'
    <3>1. \A n \in Nat : n <= buys => n <= buys + 1 OBVIOUS
    <3>2. \A u \in Threads : op[u].leg \in Nat BY DEF CallState
    <3>3. row.leg \in Nat /\ mirror.leg \in Nat BY DEF RowState
    <3>4. \A u \in Threads : op'[u].leg <= buys + 1 BY <1>R, <2>0, <2>2, <3>1, <3>2 DEF Others
    <3> QED BY <1>R, <2>0, <3>1, <3>3, <3>4 DEF LegsKnown
  <2>4. OneLot'
    <3>1. net >= -MaxShort /\ MaxShort \in Nat BY DEF IInv, OneLot
    <3>2. \A n \in Int : n + 1 >= n /\ (n <= 0 => n + 1 <= 1 /\ n <= 1) OBVIOUS
    <3>3. \A n, m \in Int : n >= -m => n + 1 >= -m OBVIOUS
    <3>4. net' >= -MaxShort BY <2>0, <3>1, <3>3
    <3>5. ~adrift' => net' <= 1 BY <2>0, <2>1, <2>2, <3>2 DEF TypeOK
    <3> QED BY <3>4, <3>5 DEF OneLot
  <2>5. SeenWhenOld' BY <2>0 DEF SeenWhenOld
  <2>6. OldEntry' BY <2>0 DEF OldEntry
  <2>7. SoldBeforeDrop'
    <3>1. \A n \in Nat : n <= buys => n # buys + 1 OBVIOUS
    <3>2. \A u \in Threads : op[u].leg \in Nat /\ op[u].leg # buys + 1 BY <1>R, <3>1 DEF CallState
    <3>3. \A u \in Threads : op'[u].at \in {"drop", "clear"} => op'[u].leg # buys'
      BY <2>0, <2>2, <3>2 DEF Others
    <3> QED BY <3>3 DEF SoldBeforeDrop
  <2>8. BoughtLast'
    <3>1. buys + 1 > 0 OBVIOUS
    <3>2. \A u \in Threads : op[u].at # "bought" BY <2>0 DEF IInv, BoughtLast
    <3>3. mirror.leg # buys + 1
      <4>1. \A n \in Nat : n <= buys => n # buys + 1 OBVIOUS
      <4> QED BY <1>R, <4>1 DEF RowState
    <3> QED BY <2>0, <2>2, <3>1, <3>2, <3>3 DEF BoughtLast, Others
  <2>9. NeverForgets' BY <2>2 DEF NeverForgets, Tracked, At
  <2> QED BY <2>3, <2>4, <2>5, <2>6, <2>7, <2>8, <2>9 DEF IInv
<1>26. ASSUME NEW t \in Threads, Book(t) PROVE IInv'
  <2>0. /\ op[t].at = "bought" /\ op[t].leg = buys /\ buys > 0 /\ t = "scan" /\ row = NoRow
        /\ \A u \in Threads : op[u].at = "bought" => u = t
    BY <1>26 DEF Book, At, IInv, BoughtLast
  <2>1. /\ row' = [NoRow EXCEPT !.leg = op[t].leg] /\ Others(t)
        /\ op'[t].at = "read" /\ op'[t].leg = 0 /\ UNCHANGED <<net, shown, buys, young, mirror, adrift>>
    BY <1>26 DEF Book, Others, Idle
  <2>2. row'.leg = buys /\ row' # NoRow BY <2>0, <2>1 DEF NoRow
  <2>3. LegsKnown' BY <1>R, <2>1, <2>2 DEF LegsKnown, Others
  <2>4. OneLot' /\ SeenWhenOld' /\ OldEntry' BY <2>1, <2>2 DEF IInv, OneLot, SeenWhenOld, OldEntry
  <2>5. SoldBeforeDrop' BY <2>1 DEF IInv, SoldBeforeDrop, Others
  <2>6. BoughtLast' BY <2>0, <2>1 DEF BoughtLast, Others
  <2>7. NeverForgets' BY <2>2 DEF NeverForgets, Tracked
  <2> QED BY <2>3, <2>4, <2>5, <2>6, <2>7 DEF IInv
<1>27. ASSUME NEW t \in Threads, Push(t) PROVE IInv'
  <2>1. Others(t) /\ op[t].at = "idle" /\ op' = op BY <1>27 DEF Push, At, Others
  <2> QED BY <1>27, <1>R, <2>1, ThreadStep DEF Push
<1>9. ASSUME NEW t \in Threads, Exit(t) PROVE IInv'
  <2>1. Others(t) /\ op[t].at = "idle" /\ op'[t].at = "check" /\ op'[t].leg = row.leg
    BY <1>9 DEF Exit, Begin, At, Others, CallClose, Idle
  <2> QED BY <1>9, <1>R, <2>1, ThreadStep DEF Exit
<1>10. ASSUME NEW t \in Threads, Tick(t) PROVE IInv'
  <2>1. Others(t) /\ op[t].at = "idle" /\ op'[t].at = "read" /\ op'[t].leg = 0
    BY <1>10 DEF Tick, Begin, At, Others, Idle
  <2> QED BY <1>10, <2>1, ThreadStep DEF Tick
<1>11. ASSUME NEW t \in Threads, Retry(t) PROVE IInv'
  <2>1. Others(t) /\ op[t].at \in {"await", "fail"} /\ op'[t].at = "read" /\ op'[t].leg = 0
    BY <1>11 DEF Retry, At, Others, Idle
  <2> QED BY <1>11, <2>1, ThreadStep DEF Retry
<1>12. ASSUME NEW t \in Threads, Unwind(t) PROVE IInv'
  <2>0. op[t].at \in {"await", "fail"} BY <1>12 DEF Unwind, At
  <2>1. CASE op' = [op EXCEPT ![t] = CallClose(row.leg)]
    <3>1. Others(t) /\ op'[t].at = "check" /\ op'[t].leg = row.leg BY <2>1 DEF Others, CallClose, Idle
    <3> QED BY <1>12, <1>R, <2>0, <3>1, ThreadStep DEF Unwind
  <2>2. CASE op' = [op EXCEPT ![t] = Idle]
    <3>1. Others(t) /\ op'[t].at = "idle" /\ op'[t].leg = 0 BY <2>2 DEF Others, Idle
    <3> QED BY <1>12, <2>0, <3>1, ThreadStep DEF Unwind
  <2> QED BY <1>12, <2>1, <2>2 DEF Unwind
<1>13. ASSUME NEW t \in Threads, SyncRead(t) PROVE IInv'
  <2> DEFINE read == [op[t] EXCEPT !.leg = row.leg]
  <2>1. read \in CallState /\ read.leg = row.leg BY DEF CallState, RowState
  <2>2. op[t].at = "read" /\ UNCHANGED <<kotak, row, outside, history>> BY <1>13 DEF SyncRead, At
  <2>3. ASSUME NEW pc \in {"end", "fail"}, Go(t, pc) PROVE IInv'
    <3>1. Others(t) /\ op'[t].at = pc /\ op'[t].leg = op[t].leg BY <2>3, GoMoves DEF Pcs
    <3> QED BY <1>R, <2>2, <3>1, ThreadStep
  <2>4. CASE Naked(t, read)
    <3>1. Others(t) /\ op'[t].at \in {"check", "fail"} /\ op'[t].leg = row.leg BY <2>1, <2>4, NakedMoves
    <3> QED BY <1>R, <2>2, <3>1, ThreadStep
  <2>5. ASSUME NEW best, NEW pc,
               pc = CASE shown > 0 -> "decide"
                      [] shown <= 0 /\ Young(row.leg) -> "await"
                      [] OTHER -> "clear",
               op' = [op EXCEPT ![t] = [read EXCEPT !.live = Shown, !.best = best, !.level = row.trigger, !.at = pc]]
        PROVE  IInv'
    <3>1. Others(t) /\ op'[t].at = pc /\ op'[t].leg = row.leg
      BY <2>1, <2>5 DEF Others, CallState
    <3>2. pc \in {"decide", "await", "clear"} /\ (pc = "clear" => shown <= 0 /\ ~Young(row.leg)) BY <2>5
    <3>3. pc \in {"drop", "clear"} /\ row.leg = buys => net <= 0 BY <3>2, NothingHeld
    <3> QED BY <1>R, <2>2, <3>1, <3>2, <3>3, ThreadStep
  <2> QED BY <1>13, <2>3, <2>4, <2>5 DEF SyncRead
<1>14. ASSUME NEW t \in Threads, SyncDecide(t) PROVE IInv'
  <2>0. op[t] \in CallState /\ op[t].at = "decide" BY <1>14 DEF SyncDecide, At
  <2>1. UNCHANGED <<kotak, outside, history>> BY <1>14 DEF SyncDecide
  <2>2. row'.leg = row.leg
    <3>1. row' = row \/ Record(op[t].best) BY <1>14 DEF SyncDecide
    <3> QED BY <2>0, <3>1, RecordTyped DEF CallState
  <2>3. ASSUME NEW pc \in {"check", "fail", "end", "place", "cancel"}, Others(t), op'[t].at = pc,
               op'[t].leg = op[t].leg
        PROVE  IInv'
    BY <1>R, <2>0, <2>1, <2>2, <2>3, ThreadStep
  <2>4. ASSUME Naked(t, op[t]) PROVE IInv'
    <3>1. Others(t) /\ op'[t].at \in {"check", "fail"} /\ op'[t].leg = op[t].leg BY <2>0, <2>4, NakedMoves
    <3> QED BY <2>3, <3>1
  <2>5. ASSUME Go(t, "end") PROVE IInv'
    <3>1. Others(t) /\ op'[t].at = "end" /\ op'[t].leg = op[t].leg BY <2>5, GoMoves DEF Pcs
    <3> QED BY <2>3, <3>1
  <2>6. ASSUME NEW breached \in BOOLEAN,
               op' = [op EXCEPT ![t] = [Moved(@, "check") EXCEPT !.job = "close", !.pop = @ \/ breached]]
        PROVE  IInv'
    <3>1. PICK moved \in CallState : moved = Moved(op[t], "check") /\ moved.at = "check" /\ moved.leg = op[t].leg
      BY <2>0, MovedTyped DEF Pcs
    <3>2. Others(t) /\ op'[t].at = "check" /\ op'[t].leg = op[t].leg BY <2>6, <3>1 DEF Others, CallState
    <3> QED BY <2>3, <3>2
  <2>7. ASSUME NEW level, NEW pc \in {"place", "cancel"},
               op' = [op EXCEPT ![t].level = level, ![t].at = pc]
        PROVE  IInv'
    <3>1. Others(t) /\ op'[t].at = pc /\ op'[t].leg = op[t].leg BY <2>0, <2>7 DEF Others, CallState
    <3> QED BY <2>3, <3>1
  <2> QED BY <1>14, <2>4, <2>5, <2>6, <2>7 DEF SyncDecide
<1>15. ASSUME NEW t \in Threads, SyncCancel(t) PROVE IInv'
  <2>1. op[t].at = "cancel" /\ Others(t) /\ op'[t].at = "place" /\ op'[t].leg = op[t].leg
    BY <1>15, GoMoves DEF SyncCancel, At, Pcs
  <2> QED BY <1>15, <1>R, <2>1, ThreadStep DEF SyncCancel
<1>16. ASSUME NEW t \in Threads, SyncPlace(t) PROVE IInv'
  <2>1. op[t].at = "place" /\ op[t].level \in Nat BY <1>16 DEF SyncPlace, At, CallState
  <2>2. ASSUME NEW failed \in {"unplaced", "restore"}, Place(t, op[t].level, "placed", failed) PROVE IInv'
    <3>1. Others(t) /\ op'[t].at \in {"placed", failed} /\ op'[t].leg = op[t].leg
      BY <2>1, <2>2, PlaceMoves DEF Pcs
    <3> QED BY <1>16, <1>R, <2>1, <3>1, ThreadStep DEF SyncPlace
  <2> QED BY <1>16, <2>2 DEF SyncPlace
<1>17. ASSUME NEW t \in Threads, SyncRestore(t) PROVE IInv'
  <2>1. op[t].at = "restore" /\ op[t].best \in Nat BY <1>17 DEF SyncRestore, At, CallState
  <2>2. Others(t) /\ op'[t].at \in {"restored", "unplaced"} /\ op'[t].leg = op[t].leg
    BY <1>17, <2>1, PlaceMoves DEF SyncRestore, Pcs
  <2> QED BY <1>17, <1>R, <2>1, <2>2, ThreadStep DEF SyncRestore
<1>18. ASSUME NEW t \in Threads, SyncRecord(t) PROVE IInv'
  <2>0. op[t] \in CallState /\ op[t].at \in {"placed", "restored", "unplaced"} BY <1>18 DEF SyncRecord, At
  <2>1. UNCHANGED <<kotak, outside, history>> BY <1>18 DEF SyncRecord
  <2>2. row'.leg = row.leg
    <3>1. \/ row' = row \/ Record(op[t].best) \/ Record(op[t].level) BY <1>18 DEF SyncRecord
    <3> QED BY <2>0, <3>1, RecordTyped DEF CallState
  <2>3. Others(t) /\ op'[t].at \in {"end", "check", "fail"} /\ op'[t].leg = op[t].leg
    <3>1. "end" \in Pcs BY DEF Pcs
    <3> QED BY <1>18, <2>0, <3>1, GoMoves, NakedMoves DEF SyncRecord
  <2> QED BY <1>R, <2>0, <2>1, <2>2, <2>3, ThreadStep
<1>19. ASSUME NEW t \in Threads, CloseCheck(t) PROVE IInv'
  <2>1. op[t] \in CallState /\ op[t].at = "check" BY <1>19 DEF CloseCheck, At
  <2>2. Others(t) /\ op'[t].leg = op[t].leg /\ op'[t].at \in {"clear", "sweep"}
        /\ (op'[t].at = "clear" => shown <= 0 /\ ~Young(op[t].leg))
    <3>1. CASE Go(t, "sweep") BY <3>1, GoMoves DEF Pcs
    <3>2. CASE shown <= 0 /\ ~Young(op[t].leg) /\ op' = [op EXCEPT ![t].at = "clear", ![t].live = Shown]
      BY <2>1, <3>2 DEF Others, CallState
    <3> QED BY <1>19, <3>1, <3>2 DEF CloseCheck
  <2>3. op'[t].at = "clear" /\ op[t].leg = buys => net <= 0 BY <2>2, NothingHeld
  <2> QED BY <1>19, <1>R, <2>1, <2>2, <2>3, ThreadStep DEF CloseCheck
<1>20. ASSUME NEW t \in Threads, Clear(t) PROVE IInv'
  <2>0. op[t] \in CallState /\ op[t].at = "clear" BY <1>20 DEF Clear, At
  <2>1. op[t].leg = buys /\ ~adrift => net <= 0 BY <2>0 DEF IInv, SoldBeforeDrop
  <2>2. Others(t) /\ op'[t].at = "drop" /\ op'[t].leg = op[t].leg
    <3>1. PICK moved \in CallState : moved = Moved(op[t], "drop") /\ moved.at = "drop" /\ moved.leg = op[t].leg
      BY <2>0, MovedTyped DEF Pcs
    <3>2. PICK pop : op' = [op EXCEPT ![t] = [moved EXCEPT !.pop = pop, !.job = "close"]]
      BY <1>20, <3>1 DEF Clear
    <3> QED BY <3>1, <3>2 DEF Others, CallState
  <2> QED BY <1>20, <1>R, <2>0, <2>1, <2>2, ThreadStep DEF Clear
<1>21. ASSUME NEW t \in Threads, CloseSweep(t) PROVE IInv'
  <2>1. op[t].at = "sweep" /\ Others(t) /\ op'[t].at = "sell" /\ op'[t].leg = op[t].leg
    BY <1>21 DEF CloseSweep, At, Others, CallState
  <2> QED BY <1>21, <1>R, <2>1, ThreadStep DEF CloseSweep
<1>22. ASSUME NEW t \in Threads, CloseSell(t) PROVE IInv'
  <2>1. /\ op[t].at = "sell" /\ row' = row /\ UNCHANGED <<shown, buys, young, mirror>>
        /\ net' \in {net, Sold} /\ adrift' \in {adrift, TRUE}
    BY <1>22 DEF CloseSell, At
  <2>2. CASE Go(t, "drop") /\ ((net' = Sold /\ adrift' = adrift) \/ adrift' = TRUE)
    <3>1. Others(t) /\ op'[t].at = "drop" /\ op'[t].leg = op[t].leg BY <2>2, GoMoves DEF Pcs
    <3>2. ~adrift' => net' <= 0 BY <2>2, <1>S
    <3> QED BY <1>R, <2>1, <3>1, <3>2, ThreadStep
  <2>3. CASE Go(t, "unsold")
    <3>1. Others(t) /\ op'[t].at = "unsold" /\ op'[t].leg = op[t].leg BY <2>3, GoMoves DEF Pcs
    <3> QED BY <1>R, <2>1, <3>1, ThreadStep
  <2> QED BY <1>22, <2>2, <2>3 DEF CloseSell
\* The row that goes is of the entry the call was made for, or of none, or its lots go adrift.
<1>23. ASSUME NEW t \in Threads, CloseDrop(t) PROVE IInv'
  <2>0. /\ op[t].at = "drop" /\ Others(t) /\ op'[t].at = "end" /\ op'[t].leg = op[t].leg
        /\ row' = NoRow /\ UNCHANGED <<net, shown, buys, young, mirror>>
        /\ adrift' = (adrift \/ row.leg \notin {0, op[t].leg})
    BY <1>23, GoMoves DEF CloseDrop, At, Pcs
  <2>1. ~adrift' => ~adrift BY <2>0
  <2>2. LegsKnown' BY <1>R, <2>0 DEF LegsKnown, NoRow, Others
  <2>3. OneLot' /\ SeenWhenOld' /\ OldEntry' BY <2>0, <2>1 DEF IInv, OneLot, SeenWhenOld, OldEntry, NoRow
  <2>4. SoldBeforeDrop' BY <2>0, <2>1 DEF IInv, SoldBeforeDrop, Others
  <2>5. BoughtLast' BY <2>0 DEF IInv, BoughtLast, Others
  <2>6. NeverForgets'
    <3> SUFFICES ASSUME ~Tracked', ~adrift' PROVE net <= 0
      BY <2>0 DEF NeverForgets
    <3>1. \A u \in Threads : op[u].at # "bought" BY <2>0 DEF Tracked, At, Others
    <3>2. CASE row = NoRow BY <2>1, <3>1, <3>2 DEF Tracked, At, IInv, NeverForgets
    <3>3. CASE row # NoRow
      <4>1. row.leg = op[t].leg /\ row.leg # 0 BY <2>0, <3>3, RowOrLeg
      <4>2. CASE row.leg = buys BY <2>0, <2>1, <4>1, <4>2 DEF IInv, SoldBeforeDrop
      <4>3. CASE row.leg # buys BY <2>1, <4>1, <4>3 DEF IInv, OldEntry
      <4> QED BY <4>2, <4>3
    <3> QED BY <3>2, <3>3
  <2> QED BY <2>2, <2>3, <2>4, <2>5, <2>6 DEF IInv
<1>24. ASSUME NEW t \in Threads, CloseUnsold(t) PROVE IInv'
  <2>1. op[t].at = "unsold" /\ Others(t) /\ op'[t].at \in {"read", "end"} /\ op'[t].leg \in {0, op[t].leg}
    BY <1>24 DEF CloseUnsold, At, Others, CallState, Idle
  <2> QED BY <1>24, <1>R, <2>1, ThreadStep DEF CloseUnsold
<1>25. ASSUME NEW t \in Threads, End(t) PROVE IInv'
  <2>1. op[t].at # "bought" /\ Others(t) /\ op'[t].at = "idle" /\ op'[t].leg = 0
    BY <1>25 DEF End, Others, Idle
  <2> QED BY <1>25, <2>1, ThreadStep DEF End
<1>28. CASE UNCHANGED vars
  <2>1. SeenWhenOld' BY <1>28 DEF vars, SeenWhenOld, IInv
  <2> QED BY <1>28, <2>1, OutsideStep DEF vars
<1> QED
  BY <1>1, <1>2, <1>3, <1>4, <1>5, <1>6, <1>7, <1>8, <1>9, <1>10, <1>11, <1>12, <1>13, <1>14, <1>15,
     <1>16, <1>17, <1>18, <1>19, <1>20, <1>21, <1>22, <1>23, <1>24, <1>25, <1>26, <1>27, <1>28
  DEF Next, Step

\* No row is dropped while Kotak holds its lot, whatever positions() shows late, whichever answers
\* are lost, refused or unreadable, however often the process dies and however the threads
\* overlap, until lots go adrift: in a buy that was not booked, an order taken for executed, a row
\* deleted for another entry or a row that no push had seen.
THEOREM RowOutlivesLot == Spec => []NeverForgets
<1>1. IInv => NeverForgets BY DEF IInv
<1> QED BY TypeCorrect, InvInit, InvNext, <1>1, PTL DEF Spec

(***************************************************************************)
(* The refinement.  Only an entry, an INSERT, a drop and a restart change  *)
(* whether the leg is tracked; an exit may leave its lots adrift; every    *)
(* other step sells or stutters.                                           *)
(***************************************************************************)
Promise == [Owned!Next]_<<net, Tracked, adrift>>
Plain == row'.leg = row.leg /\ net' \in {net, Sold} /\ adrift' = adrift
         /\ (\A t \in Threads : (op[t].at # "bought" /\ op'[t].at # "bought") \/ op'[t] = op[t])

\* A thread moves, and neither buys nor books.
LEMMA PlainStep ==
    ASSUME TypeOK, NEW t \in Threads, Others(t), op[t].at # "bought", op'[t].at # "bought",
           row'.leg = row.leg, net' \in {net, Sold}, adrift' = adrift
    PROVE  Plain
BY DEF Plain, Others

LEMMA OtherSteps ==
    ASSUME TypeOK, Next, ~Restart,
           \A t \in Threads : ~Enter(t) /\ ~Book(t) /\ ~CloseDrop(t) /\ ~CloseSell(t)
    PROVE  Plain
<1>T. op \in [Threads -> CallState] BY DEF TypeOK, CallState
<1> USE DEF kotak, outside, history
<1>1. ASSUME UNCHANGED <<op, row, adrift>>, net' \in {net, Sold} PROVE Plain BY <1>1 DEF Plain
<1>2. ASSUME NEW s \in Slots, Fill(s) PROVE Plain BY <1>1, <1>2 DEF Fill
<1>3. CASE CatchUp \/ BookCatchesUp \/ Age \/ Rally \/ TimerEnds \/ Session
  BY <1>1, <1>3 DEF CatchUp, BookCatchesUp, Age, Rally, TimerEnds, Session
<1>4. ASSUME NEW t \in Threads, Push(t) PROVE Plain BY <1>1, <1>4 DEF Push
<1>5. ASSUME NEW t \in Threads, Exit(t) PROVE Plain
  <2>1. Others(t) /\ op[t].at = "idle" /\ op'[t].at = "check"
    BY <1>T, <1>5 DEF Exit, Begin, At, Others, CallClose, Idle
  <2> QED BY <1>5, <2>1, PlainStep DEF Exit
<1>6. ASSUME NEW t \in Threads, Tick(t) PROVE Plain
  <2>1. Others(t) /\ op[t].at = "idle" /\ op'[t].at = "read" BY <1>T, <1>6 DEF Tick, Begin, At, Others, Idle
  <2> QED BY <1>6, <2>1, PlainStep DEF Tick
<1>7. ASSUME NEW t \in Threads, Retry(t) PROVE Plain
  <2>1. Others(t) /\ op[t].at \in {"await", "fail"} /\ op'[t].at = "read"
    BY <1>T, <1>7 DEF Retry, At, Others, Idle
  <2> QED BY <1>7, <2>1, PlainStep DEF Retry
<1>8. ASSUME NEW t \in Threads, Unwind(t) PROVE Plain
  <2>1. op[t].at \in {"await", "fail"} BY <1>8 DEF Unwind, At
  <2>2. PICK call \in {CallClose(row.leg), Idle} : op' = [op EXCEPT ![t] = call] BY <1>8 DEF Unwind
  <2>3. CallClose(row.leg).at = "check" /\ Idle.at = "idle" BY DEF CallClose, Idle
  <2>4. Others(t) /\ op'[t].at \in {"check", "idle"} BY <1>T, <2>2, <2>3 DEF Others
  <2> QED BY <1>8, <2>1, <2>4, PlainStep DEF Unwind
<1>9. ASSUME NEW t \in Threads, SyncRead(t) PROVE Plain
  <2> DEFINE read == [op[t] EXCEPT !.leg = row.leg]
  <2>1. op[t].at = "read" /\ UNCHANGED <<net, row, adrift>> BY <1>9 DEF SyncRead, At
  <2>2. read \in CallState
    <3>1. row.leg \in Nat BY DEF TypeOK
    <3> QED BY <1>T, <3>1 DEF CallState
  <2>3. Others(t) /\ op'[t].at # "bought"
    <3>1. ASSUME NEW pc \in {"end", "fail"}, Go(t, pc) PROVE Others(t) /\ op'[t].at # "bought"
      BY <3>1, GoMoves DEF Pcs
    <3>2. CASE Naked(t, read) BY <2>2, <3>2, NakedMoves
    <3>3. ASSUME NEW best, NEW pc, pc \in {"decide", "await", "clear"},
                 op' = [op EXCEPT ![t] = [read EXCEPT !.live = Shown, !.best = best, !.level = row.trigger, !.at = pc]]
          PROVE  Others(t) /\ op'[t].at # "bought"
      BY <1>T, <2>2, <3>3 DEF Others, CallState
    <3> QED BY <1>9, <3>1, <3>2, <3>3 DEF SyncRead
  <2> QED BY <2>1, <2>3, PlainStep
<1>10. ASSUME NEW t \in Threads, SyncDecide(t) PROVE Plain
  <2>0. op[t] \in CallState /\ op[t].at = "decide" /\ UNCHANGED <<net, adrift>> BY <1>T, <1>10 DEF SyncDecide, At
  <2>1. row'.leg = row.leg
    <3>1. row' = row \/ Record(op[t].best) BY <1>10 DEF SyncDecide
    <3> QED BY <2>0, <3>1, RecordTyped DEF CallState
  <2>2. Others(t) /\ op'[t].at # "bought"
    <3>1. CASE Naked(t, op[t]) BY <2>0, <3>1, NakedMoves
    <3>2. CASE Go(t, "end") BY <3>2, GoMoves DEF Pcs
    <3>3. ASSUME NEW breached \in BOOLEAN,
                 op' = [op EXCEPT ![t] = [Moved(@, "check") EXCEPT !.job = "close", !.pop = @ \/ breached]]
          PROVE  Others(t) /\ op'[t].at # "bought"
      <4>1. PICK moved \in CallState : moved = Moved(op[t], "check") /\ moved.at = "check"
        BY <2>0, MovedTyped DEF Pcs
      <4> QED BY <1>T, <3>3, <4>1 DEF Others, CallState
    <3>4. ASSUME NEW level, NEW pc \in {"place", "cancel"}, op' = [op EXCEPT ![t].level = level, ![t].at = pc]
          PROVE  Others(t) /\ op'[t].at # "bought"
      BY <1>T, <2>0, <3>4 DEF Others, CallState
    <3> QED BY <1>10, <3>1, <3>2, <3>3, <3>4 DEF SyncDecide
  <2> QED BY <2>0, <2>1, <2>2, PlainStep
<1>11. ASSUME NEW t \in Threads, SyncCancel(t) PROVE Plain
  <2>1. op[t].at = "cancel" /\ Others(t) /\ op'[t].at = "place" BY <1>11, GoMoves DEF SyncCancel, At, Pcs
  <2> QED BY <1>11, <2>1, PlainStep DEF SyncCancel
<1>12. ASSUME NEW t \in Threads, SyncPlace(t) \/ SyncRestore(t) PROVE Plain
  <2>1. op[t].level \in Nat /\ op[t].best \in Nat BY <1>T DEF CallState
  <2>2. ASSUME NEW level \in Nat, NEW ok \in {"placed", "restored"}, NEW failed \in {"unplaced", "restore"},
               Place(t, level, ok, failed)
        PROVE  Others(t) /\ op'[t].at # "bought"
    BY <2>2, PlaceMoves DEF Pcs
  <2>3. Others(t) /\ op'[t].at # "bought" /\ op[t].at # "bought" /\ UNCHANGED <<net, row, adrift>>
    BY <1>12, <2>1, <2>2 DEF SyncPlace, SyncRestore, At
  <2> QED BY <2>3, PlainStep
<1>13. ASSUME NEW t \in Threads, SyncRecord(t) PROVE Plain
  <2>0. op[t] \in CallState /\ op[t].at # "bought" /\ UNCHANGED <<net, adrift>> BY <1>T, <1>13 DEF SyncRecord, At
  <2>1. row'.leg = row.leg
    <3>1. row' = row \/ Record(op[t].best) \/ Record(op[t].level) BY <1>13 DEF SyncRecord
    <3> QED BY <2>0, <3>1, RecordTyped DEF CallState
  <2>2. Others(t) /\ op'[t].at # "bought"
    <3>1. "end" \in Pcs BY DEF Pcs
    <3> QED BY <1>13, <2>0, <3>1, GoMoves, NakedMoves DEF SyncRecord
  <2> QED BY <2>0, <2>1, <2>2, PlainStep
<1>14. ASSUME NEW t \in Threads, CloseCheck(t) PROVE Plain
  <2>1. op[t].at = "check" /\ UNCHANGED <<net, row, adrift>> BY <1>14 DEF CloseCheck, At
  <2>2. Others(t) /\ op'[t].at # "bought"
    <3>1. CASE Go(t, "sweep") BY <3>1, GoMoves DEF Pcs
    <3>2. CASE op' = [op EXCEPT ![t].at = "clear", ![t].live = Shown] BY <1>T, <3>2 DEF Others, CallState
    <3> QED BY <1>14, <3>1, <3>2 DEF CloseCheck
  <2> QED BY <2>1, <2>2, PlainStep
<1>15. ASSUME NEW t \in Threads, Clear(t) PROVE Plain
  <2>1. op[t].at = "clear" /\ UNCHANGED <<net, row, adrift>> BY <1>15 DEF Clear, At
  <2>2. PICK moved \in CallState : moved = Moved(op[t], "drop") /\ moved.at = "drop"
    BY <1>T, MovedTyped DEF Pcs
  <2>3. PICK pop : op' = [op EXCEPT ![t] = [moved EXCEPT !.pop = pop, !.job = "close"]]
    BY <1>15, <2>2 DEF Clear
  <2>4. Others(t) /\ op'[t].at = "drop" BY <1>T, <2>2, <2>3 DEF Others, CallState
  <2> QED BY <2>1, <2>4, PlainStep
<1>16. ASSUME NEW t \in Threads, CloseSweep(t) PROVE Plain
  <2>1. op[t].at = "sweep" /\ Others(t) /\ op'[t].at = "sell"
    BY <1>T, <1>16 DEF CloseSweep, At, Others, CallState
  <2> QED BY <1>16, <2>1, PlainStep DEF CloseSweep
<1>17. ASSUME NEW t \in Threads, CloseUnsold(t) PROVE Plain
  <2>1. op[t].at = "unsold" /\ Others(t) /\ op'[t].at \in {"read", "end"}
    BY <1>T, <1>17 DEF CloseUnsold, At, Others, CallState, Idle
  <2> QED BY <1>17, <2>1, PlainStep DEF CloseUnsold
<1>18. ASSUME NEW t \in Threads, End(t) PROVE Plain
  <2>1. op[t].at # "bought" /\ Others(t) /\ op'[t].at = "idle" BY <1>T, <1>18 DEF End, Others, Idle
  <2> QED BY <1>18, <2>1, PlainStep DEF End
<1> QED
  BY <1>2, <1>3, <1>4, <1>5, <1>6, <1>7, <1>8, <1>9, <1>10, <1>11, <1>12, <1>13, <1>14, <1>15, <1>16,
     <1>17, <1>18 DEF Next, Step

LEMMA StepKeepsPromise ==
    ASSUME TypeOK, TypeOK', IInv, IInv', [Next]_vars
    PROVE  Promise
<1>T. /\ net \in Int /\ net' \in Int /\ adrift \in BOOLEAN /\ adrift' \in BOOLEAN /\ buys \in Nat
      /\ Tracked \in BOOLEAN /\ Tracked' \in BOOLEAN /\ op \in [Threads -> CallState]
  BY DEF TypeOK, Tracked, CallState
<1>N. (row = NoRow) = (row.leg = 0) /\ (row' = NoRow) = (row'.leg = 0) BY DEF TypeOK, NoRow
<1>G. ~Tracked' /\ ~adrift' => net' <= 0 BY DEF IInv, NeverForgets
<1>Z. \A n \in Int : n >= n /\ n <= n /\ n + 1 >= n OBVIOUS
<1> USE <1>T DEF kotak, outside, history
<1>0. ASSUME net' = net, Tracked' = Tracked, adrift' = adrift PROVE Promise BY <1>0 DEF Promise
<1>1. CASE UNCHANGED vars
  <2>1. Tracked' = Tracked BY <1>1 DEF vars, Tracked, At
  <2> QED BY <1>0, <1>1, <2>1 DEF vars
<1>2. ASSUME NEW t \in Threads, Enter(t) PROVE Promise
  <2>1. /\ t = "scan" /\ op[t].at = "idle" /\ row = NoRow /\ net' \in {net, net + 1}
        /\ \/ op' = [op EXCEPT ![t] = [Idle EXCEPT !.at = "bought", !.job = "entry", !.leg = buys + 1]]
              /\ adrift' = adrift
           \/ op' = op /\ adrift' = TRUE /\ row' = row
    BY <1>2 DEF Enter, Begin, At
  <2>2. ~Tracked
    <3>1. \A u \in Threads : op[u].at # "bought" BY <2>1 DEF IInv, BoughtLast
    <3> QED BY <2>1, <3>1 DEF Tracked, At
  <2>3. net' >= net BY <1>Z, <2>1
  <2>4. CASE adrift' = adrift /\ op' = [op EXCEPT ![t] = [Idle EXCEPT !.at = "bought", !.job = "entry", !.leg = buys + 1]]
    <3>1. op'[t].at = "bought" BY <2>4 DEF Idle
    <3>2. Tracked' BY <3>1 DEF Tracked, At
    <3>3. Owned!Buy BY <2>2, <2>3, <2>4, <3>2 DEF Owned!Buy
    <3> QED BY <3>3 DEF Promise, Owned!Next
  <2>5. CASE op' = op /\ adrift' = TRUE /\ row' = row
    <3>1. ~Tracked' BY <2>2, <2>5 DEF Tracked, At
    <3>2. Owned!Lose BY <2>3, <2>5, <3>1 DEF Owned!Lose
    <3> QED BY <3>2 DEF Promise, Owned!Next
  <2> QED BY <2>1, <2>4, <2>5
<1>3. ASSUME NEW t \in Threads, Book(t) PROVE Promise
  <2>1. At(t, "bought") /\ row' = [NoRow EXCEPT !.leg = op[t].leg] /\ net' = net /\ adrift' = adrift
    BY <1>3 DEF Book
  <2>2. row'.leg # 0 BY <2>1 DEF At, IInv, BoughtLast, NoRow
  <2>3. Tracked /\ Tracked' BY <1>N, <2>1, <2>2 DEF Tracked
  <2> QED BY <1>0, <2>1, <2>3
<1>4. ASSUME NEW t \in Threads, CloseDrop(t) PROVE Promise
  <2>1. /\ op[t].at = "drop" /\ op'[t].at = "end" /\ Others(t) /\ net' = net /\ row' = NoRow
        /\ adrift' = (adrift \/ row.leg \notin {0, op[t].leg})
    BY <1>4, GoMoves DEF CloseDrop, At, Pcs
  <2>2. (\E u \in Threads : op'[u].at = "bought") = (\E u \in Threads : op[u].at = "bought")
    BY <2>1 DEF Others
  <2>3. CASE row = NoRow
    <3>1. Tracked' = Tracked BY <2>1, <2>2, <2>3 DEF Tracked, At
    <3>2. adrift' = adrift BY <1>N, <2>1, <2>3
    <3> QED BY <1>0, <2>1, <3>1, <3>2
  <2>4. CASE row # NoRow
    <3>1. Tracked /\ ~Tracked' BY <2>1, <2>2, <2>4 DEF Tracked, At, IInv, BoughtLast
    <3>2. net <= 0 \/ adrift' BY <1>G, <2>1, <3>1
    <3>3. Owned!Forget BY <2>1, <3>1, <3>2 DEF Owned!Forget
    <3> QED BY <3>3 DEF Promise, Owned!Next
  <2> QED BY <2>3, <2>4
<1>5. ASSUME Plain PROVE Promise
  <2>1. Tracked' = Tracked BY <1>5, <1>N DEF Plain, Tracked, At
  <2>2. CASE net' = net BY <1>0, <1>5, <2>1, <2>2 DEF Plain
  <2>3. CASE net' # net
    <3>1. net' = Sold /\ Sold <= net BY <1>5, <2>3, SoldLower DEF Plain
    <3>2. \A a, b \in Int : a <= b /\ a # b => a < b OBVIOUS
    <3>3. net' < net BY <2>3, <3>1, <3>2
    <3>4. Owned!Sell BY <1>5, <2>1, <3>3 DEF Owned!Sell, Plain
    <3> QED BY <3>4 DEF Promise, Owned!Next
  <2> QED BY <2>2, <2>3
<1>6. ASSUME NEW t \in Threads, CloseSell(t) PROVE Promise
  <2>1. PICK pc \in {"drop", "unsold"} : Go(t, pc) BY <1>6 DEF CloseSell
  <2>2. Others(t) /\ op[t].at = "sell" /\ op'[t].at # "bought" /\ row' = row
    BY <1>6, <2>1, GoMoves DEF CloseSell, At, Pcs
  <2>3. CASE adrift' = adrift /\ net' \in {net, Sold} BY <1>5, <2>2, <2>3, PlainStep
  <2>4. CASE adrift' = TRUE /\ net' = net
    <3>1. Tracked' = Tracked BY <2>2 DEF Tracked, At, Others
    <3>2. CASE Tracked
      <4>1. Owned!Missell BY <1>Z, <2>4, <3>1, <3>2 DEF Owned!Missell
      <4> QED BY <4>1 DEF Promise, Owned!Next
    <3>3. CASE ~Tracked
      <4>1. Owned!Lose BY <1>Z, <2>4, <3>1, <3>3 DEF Owned!Lose
      <4> QED BY <4>1 DEF Promise, Owned!Next
    <3> QED BY <3>2, <3>3
  <2> QED BY <1>6, <2>3, <2>4 DEF CloseSell
<1>7. CASE Restart
  <2>1. /\ op' = [u \in Threads |-> Idle] /\ row' = mirror /\ net' = net
        /\ adrift' = (\/ adrift \/ row.leg \notin {0, mirror.leg} \/ \E t \in Threads : At(t, "bought"))
    BY <1>7 DEF Restart
  <2>2. Tracked' = (row' # NoRow) BY <2>1 DEF Tracked, At, Idle
  <2>3. CASE Tracked /\ Tracked'
    <3>1. CASE adrift' = adrift BY <1>0, <2>1, <2>3, <3>1
    <3>2. CASE adrift' = TRUE
      <4>1. Owned!Missell BY <1>Z, <2>1, <2>3, <3>2 DEF Owned!Missell
      <4> QED BY <4>1 DEF Promise, Owned!Next
    <3> QED BY <2>1, <3>1, <3>2
  <2>4. CASE Tracked /\ ~Tracked'
    <3>1. net <= 0 \/ adrift' BY <1>G, <2>1, <2>4
    <3>2. Owned!Forget BY <2>1, <2>4, <3>1 DEF Owned!Forget
    <3> QED BY <3>2 DEF Promise, Owned!Next
  <2>5. CASE ~Tracked
    <3>1. adrift' = adrift BY <1>N, <2>1, <2>5 DEF Tracked
    <3>2. CASE Tracked'
      <4>1. Owned!Buy BY <1>Z, <2>1, <2>5, <3>1, <3>2 DEF Owned!Buy
      <4> QED BY <4>1 DEF Promise, Owned!Next
    <3>3. CASE ~Tracked' BY <1>0, <2>1, <2>5, <3>1, <3>3
    <3> QED BY <3>2, <3>3
  <2> QED BY <2>3, <2>4, <2>5
<1>8. CASE Next /\ ~Restart /\ \A t \in Threads : ~Enter(t) /\ ~Book(t) /\ ~CloseDrop(t) /\ ~CloseSell(t)
  BY <1>5, <1>8, OtherSteps
<1> QED BY <1>1, <1>2, <1>3, <1>4, <1>6, <1>7, <1>8

\* The leg implements OwnedPosition: nothing is bought while there is a row, and the row goes
\* only when the lots are gone or adrift, however the threads overlap.
THEOREM Implements == Spec => KeepsPromise
<1>1. Init => Owned!Init
  <2>1. Init => ~Tracked BY DEF Init, Tracked, At, Idle
  <2> QED BY <2>1 DEF Init, Owned!Init
<1>2. TypeOK /\ TypeOK' /\ IInv /\ IInv' /\ [Next]_vars => [Owned!Next]_<<net, Tracked, adrift>>
  BY StepKeepsPromise DEF Promise
<1> QED BY TypeCorrect, InvInit, InvNext, <1>1, <1>2, PTL DEF Spec, KeepsPromise, Owned!Spec

(***************************************************************************)
(* NoOrphanStop, until two calls have met.  A row goes from two places:    *)
(* after a sell, where the sweep before it has emptied the book, and after *)
(* a clear, which cancels what its call has read; no stop is placed in     *)
(* between, because a stop is placed only by a sync of an existing row.    *)
(* A stop that the book does not show yet was placed when "late_book" was  *)
(* heard.                                                                  *)
(***************************************************************************)
Syncing == {"decide", "cancel", "place", "restore", "placed", "restored", "unplaced"}
Alone == \A t, u \in Threads : t = u \/ op[t].at = "idle" \/ op[u].at = "idle"
HiddenHeard == hidden # {} => "late_book" \in heard
Fits(t) ==
    /\ op[t].at \in Syncing => row # NoRow
    /\ op[t].at \in {"decide", "cancel", "clear"} /\ "late_book" \notin heard => Live \subseteq op[t].live
    /\ op[t].at \in {"sell", "drop"} /\ heard = {} => Live = {}
BookInv == HiddenHeard /\ NoOrphanStop /\ (~met => Alone /\ \A t \in Threads : Fits(t))

\* Only t has a call in progress.
Acts(t) == \A u \in Threads : u # t => op[u].at = "idle"

\* A cancel that Kotak took leaves nothing of S.
LEMMA CancelEmpties ==
    ASSUME TypeOK, NEW S, Cancel(S)
    PROVE  /\ Live' \subseteq Live /\ \A s \in Live' : stops'[s] = stops[s]
           /\ heard \subseteq heard' /\ hidden' \subseteq hidden
           /\ "cancel_failed" \notin heard' => Live' \cap S = {}
<1>1. PICK refused \in SUBSET (S \cap Live) :
          /\ IF refused = {} THEN NoFault ELSE Fault("cancel_failed")
          /\ stops' = [s \in Slots |-> IF s \in S \ refused THEN 0 ELSE stops[s]]
          /\ hidden' = hidden \ (S \ refused)
  BY DEF Cancel
<1>2. Live' \subseteq Live /\ \A s \in Live' : stops'[s] = stops[s] BY <1>1 DEF Live
<1>3. heard \subseteq heard' BY <1>1, FaultTyped DEF Mishap
<1>4. "cancel_failed" \notin heard' => refused = {} BY <1>1, FaultTyped DEF Hiding
<1>5. refused = {} => Live' \cap S = {} BY <1>1 DEF Live
<1> QED BY <1>1, <1>2, <1>3, <1>4, <1>5

\* A placement adds at most one stop, at its level; a stop it hides is heard of.
LEMMA PlaceAdds ==
    ASSUME TypeOK, NEW t \in Threads, NEW level \in Nat, NEW ok \in Pcs, NEW failed \in Pcs,
           Place(t, level, ok, failed)
    PROVE  /\ heard \subseteq heard' /\ ("late_book" \notin heard' => hidden' = hidden)
           /\ \A s \in Live : s \in Live' /\ stops'[s] = stops[s]
           /\ \A s \in Live' : s \in Live \/ stops'[s] = level
           /\ \E pc \in {ok, failed} :
                 Go(t, pc) /\ (pc = ok /\ ok # failed => level = 0 \/ \E s \in Live' : stops'[s] = level)
<1>S. stops \in [Slots -> Nat] BY DEF TypeOK
<1>M. heard \subseteq heard' BY FaultTyped DEF Place, Mishap
<1>1. CASE Fault("refused") /\ Go(t, failed) /\ UNCHANGED book BY <1>1, <1>M DEF Live, book
<1>2. ASSUME NEW s \in Slots \ Taken, stops' = [stops EXCEPT ![s] = level],
             NEW pc \in {ok, failed}, Go(t, pc), "late_book" \notin heard' => hidden' = hidden
      PROVE  /\ heard \subseteq heard' /\ ("late_book" \notin heard' => hidden' = hidden)
             /\ \A u \in Live : u \in Live' /\ stops'[u] = stops[u]
             /\ \A u \in Live' : u \in Live \/ stops'[u] = level
             /\ \E p \in {ok, failed} :
                   Go(t, p) /\ (p = ok /\ ok # failed => level = 0 \/ \E u \in Live' : stops'[u] = level)
  <2>1. s \notin Live BY DEF Taken
  <2>2. stops'[s] = level /\ \A u \in Slots : u # s => stops'[u] = stops[u] BY <1>S, <1>2
  <2>3. /\ \A u \in Live : u \in Live' /\ stops'[u] = stops[u]
        /\ \A u \in Live' : u \in Live \/ stops'[u] = level
        /\ level = 0 \/ \E u \in Live' : stops'[u] = level
    BY <1>S, <2>1, <2>2 DEF Live
  <2> QED BY <1>2, <1>M, <2>3
<1>3. Fault("late_book") => "late_book" \in heard' BY FaultTyped DEF Hiding
<1>4. CASE \E s \in Slots \ Taken :
            /\ \/ NoFault /\ Go(t, ok) /\ UNCHANGED hidden
               \/ Fault("lost_stop") /\ Go(t, failed) /\ UNCHANGED hidden
               \/ Fault("late_book") /\ (Go(t, ok) \/ Go(t, failed)) /\ hidden' = hidden \cup {s}
            /\ stops' = [stops EXCEPT ![s] = level]
  <2>1. PICK s \in Slots \ Taken :
            /\ \/ NoFault /\ Go(t, ok) /\ UNCHANGED hidden
               \/ Fault("lost_stop") /\ Go(t, failed) /\ UNCHANGED hidden
               \/ Fault("late_book") /\ (Go(t, ok) \/ Go(t, failed)) /\ hidden' = hidden \cup {s}
            /\ stops' = [stops EXCEPT ![s] = level]
    BY <1>4
  <2>2. PICK pc \in {ok, failed} : Go(t, pc) BY <2>1
  <2>3. "late_book" \notin heard' => hidden' = hidden BY <1>3, <2>1
  <2> QED BY <1>2, <2>1, <2>2, <2>3
<1> QED BY <1>1, <1>4 DEF Place

LEMMA BeginMet == ASSUME TypeOK, NEW t \in Threads, Begin(t) PROVE op[t].at = "idle" /\ met' = (met \/ Busy)
BY Zenon DEF Begin, At

LEMMA MetGrows == ASSUME TypeOK, NEW t \in Threads, Begin(t) PROVE met => met'
BY BeginMet, Zenon

\* What is heard of stays heard of, and what hides a stop is heard of.
LEMMA HearNext ==
    ASSUME TypeOK, Next
    PROVE  /\ heard \subseteq heard' /\ (hidden' \subseteq hidden \/ "late_book" \in heard')
           /\ (adrift => adrift') /\ (met => met')
<1>T. op \in [Threads -> CallState] /\ adrift \in BOOLEAN /\ met \in BOOLEAN BY DEF TypeOK, CallState
<1>F. \A k : Fault(k) \/ NoFault \/ UNCHANGED mishaps => heard \subseteq heard' BY FaultTyped DEF Mishap
<1> DEFINE Good == /\ heard \subseteq heard' /\ (hidden' \subseteq hidden \/ "late_book" \in heard')
                   /\ (adrift => adrift') /\ (met => met')
<1> USE <1>F DEF kotak, book, outside, history
<1>1. ASSUME NEW s \in Slots, Fill(s) PROVE Good BY <1>1 DEF Fill
<1>2. CASE CatchUp \/ BookCatchesUp \/ Age \/ Rally \/ TimerEnds
  BY <1>2 DEF CatchUp, BookCatchesUp, Age, Rally, TimerEnds
<1>3. CASE Session BY <1>3 DEF Session
<1>4. CASE Restart BY <1>4 DEF Restart
<1>5. ASSUME NEW t \in Threads, Enter(t) PROVE Good
  <2>1. NoFault \/ Fault("unfilled") \/ Fault("lost_buy") BY <1>5 DEF Enter
  <2>2. heard \subseteq heard' BY <2>1
  <2>3. adrift' \in {adrift, TRUE} /\ hidden' = hidden /\ Begin(t) BY <1>5 DEF Enter
  <2>4. adrift' = adrift \/ adrift' = TRUE BY <2>3
  <2>5. adrift => adrift' BY <2>4, Zenon
  <2>6. met => met' BY <2>3, MetGrows
  <2> QED BY <2>2, <2>3, <2>5, <2>6
<1>6. ASSUME NEW t \in Threads, Push(t) \/ Book(t) \/ Retry(t) \/ Unwind(t) PROVE Good
  <2>1. UNCHANGED <<book, history, mishaps>> BY <1>6 DEF Push, Book, Retry, Unwind
  <2> QED BY <2>1
<1>13. ASSUME NEW t \in Threads, Exit(t) \/ Tick(t) PROVE Good
  <2>1. Begin(t) /\ UNCHANGED <<book, adrift, mishaps>> BY <1>13 DEF Exit, Tick
  <2> QED BY <2>1, MetGrows
<1>7. ASSUME NEW t \in Threads, SyncRead(t) \/ SyncDecide(t) \/ SyncRecord(t) \/ CloseCheck(t) PROVE Good
  <2>1. UNCHANGED <<hidden, adrift, met>> BY <1>7 DEF SyncRead, SyncDecide, SyncRecord, CloseCheck
  <2>2. UNCHANGED mishaps \/ NoFault \/ Fault("unreadable")
    BY <1>7 DEF SyncRead, SyncDecide, SyncRecord, CloseCheck
  <2> QED BY <2>1, <2>2
<1>8. ASSUME NEW t \in Threads, SyncCancel(t) \/ Clear(t) PROVE Good
  BY <1>8, CancelEmpties DEF SyncCancel, Clear
<1>9. ASSUME NEW t \in Threads, SyncPlace(t) \/ SyncRestore(t) PROVE Good
  <2>1. op[t].level \in Nat /\ op[t].best \in Nat BY <1>T DEF CallState
  <2>2. ASSUME NEW level \in Nat, NEW ok \in {"placed", "restored"}, NEW failed \in {"unplaced", "restore"},
               Place(t, level, ok, failed)
        PROVE  heard \subseteq heard' /\ (hidden' \subseteq hidden \/ "late_book" \in heard')
    BY <2>2, PlaceAdds DEF Pcs
  <2> QED BY <1>9, <2>1, <2>2 DEF SyncPlace, SyncRestore
<1>10. ASSUME NEW t \in Threads, CloseSweep(t) PROVE Good
  BY <1>10, CancelEmpties DEF CloseSweep
<1>11. ASSUME NEW t \in Threads, CloseSell(t) PROVE Good
  <2>1. NoFault \/ Fault("unfilled") \/ Fault("lost_sell") \/ Fault("refused") BY <1>11 DEF CloseSell
  <2>2. heard \subseteq heard' BY <2>1
  <2> QED BY <1>11, <2>2 DEF CloseSell
<1>12. ASSUME NEW t \in Threads, CloseDrop(t) \/ CloseUnsold(t) \/ End(t) PROVE Good
  <2>1. UNCHANGED <<book, met, mishaps>> BY <1>12 DEF CloseDrop, CloseUnsold, End
  <2>2. adrift' = (adrift \/ row.leg \notin {0, op[t].leg}) \/ adrift' = adrift
    BY <1>12 DEF CloseDrop, CloseUnsold, End
  <2>3. adrift => adrift' BY <2>2, Zenon
  <2> QED BY <2>1, <2>3
<1> QED
  BY <1>1, <1>2, <1>3, <1>4, <1>5, <1>6, <1>7, <1>8, <1>9, <1>10, <1>11, <1>12, <1>13
  DEF Next, Step

\* What a step of one thread has to show, when no other has a call.
LEMMA BookStep ==
    ASSUME TypeOK, TypeOK', NEW t \in Threads, Acts(t), Others(t), HiddenHeard', Fits(t)',
           heard' = {} /\ ~Tracked' /\ ~adrift' => Live' = {}
    PROVE  BookInv'
<1>1. \A u \in Threads : u # t => op'[u].at = "idle" BY DEF Acts, Others
<1>2. Alone' BY <1>1 DEF Alone
<1>3. \A u \in Threads : Fits(u)'
  <2>1. ASSUME NEW u \in Threads, u # t PROVE Fits(u)' BY <1>1, <2>1 DEF Fits, Syncing
  <2> QED BY <2>1
<1>4. NoOrphanStop' BY DEF NoOrphanStop
<1> QED BY <1>2, <1>3, <1>4 DEF BookInv

\* Stops can only go.
LEMMA BookShrinks ==
    ASSUME BookInv, HiddenHeard', UNCHANGED <<op, row, adrift, met>>, heard \subseteq heard', Live' \subseteq Live
    PROVE  BookInv'
<1>1. ~met => \A t \in Threads : Fits(t)' BY DEF BookInv, Fits
<1>2. ~met => Alone' BY DEF BookInv, Alone
<1>3. Tracked' = Tracked BY DEF Tracked, At
<1>4. NoOrphanStop' BY <1>3 DEF BookInv, NoOrphanStop
<1> QED BY <1>1, <1>2, <1>4 DEF BookInv

LEMMA Turns ==
    ASSUME TypeOK, BookInv, NEW t \in Threads, ~met', Begin(t) \/ (op[t].at # "idle" /\ met' = met)
    PROVE  Acts(t) /\ ~met /\ \A u \in Threads : Fits(u)
<1>1. CASE Begin(t)
  <2>1. ~met /\ ~Busy BY <1>1, BeginMet, Zenon
  <2> QED BY <2>1 DEF BookInv, Acts, Busy, At
<1>2. CASE op[t].at # "idle" /\ met' = met BY <1>2 DEF BookInv, Alone, Acts
<1> QED BY <1>1, <1>2

LEMMA BookInit == Init => BookInv
<1> SUFFICES ASSUME Init PROVE BookInv
  OBVIOUS
<1>1. \A t \in Threads : op[t].at = "idle" BY DEF Init, Idle
<1>2. Live = {} /\ hidden = {} BY DEF Init, Live
<1> QED BY <1>1, <1>2 DEF BookInv, HiddenHeard, Alone, Fits, Syncing, NoOrphanStop

LEMMA BookNext == TypeOK /\ TypeOK' /\ IInv /\ BookInv /\ [Next]_vars => BookInv'
<1> SUFFICES ASSUME TypeOK, TypeOK', IInv, BookInv, Next PROVE BookInv'
  <2>1. CASE UNCHANGED vars
    BY <2>1 DEF vars, BookInv, HiddenHeard, NoOrphanStop, Alone, Fits, Tracked, At, Live
  <2> QED BY <2>1
<1>T. op \in [Threads -> CallState] /\ stops \in [Slots -> Nat] BY DEF TypeOK, CallState
<1>H. heard \subseteq heard' /\ (adrift => adrift') /\ (met => met') /\ HiddenHeard'
  BY HearNext DEF BookInv, HiddenHeard
<1>M. CASE met' BY <1>H, <1>M DEF BookInv, NoOrphanStop
<1> SUFFICES ASSUME ~met' PROVE BookInv'
  BY <1>M
<1>O. heard' = {} /\ ~Tracked /\ ~adrift' => Live = {}
  BY <1>H DEF BookInv, NoOrphanStop
<1>L. UNCHANGED stops => Live' = Live BY DEF Live
<1> USE <1>T DEF kotak, book, outside, history
\* A step that leaves the book and the row alone and moves t to a place that asks nothing of them.
<1>E. ASSUME NEW t \in Threads, Acts(t), Others(t), UNCHANGED <<stops, row>>,
             op[t].at # "bought" \/ op'[t].at = "bought",
             op'[t].at \in {"idle", "bought", "read", "await", "fail", "end", "check", "sweep", "unsold"}
      PROVE  BookInv'
  <2>1. Fits(t)' BY <1>E DEF Fits, Syncing
  <2>2. ~Tracked' => ~Tracked BY <1>E DEF Tracked, At, Others
  <2> QED BY <1>E, <1>H, <1>O, <1>L, <2>1, <2>2, BookStep
<1>1. ASSUME NEW s \in Slots, Fill(s) PROVE BookInv'
  <2>1. Live' \subseteq Live BY <1>1 DEF Fill, Live
  <2> QED BY <1>1, <1>H, <2>1, BookShrinks DEF Fill
<1>2. CASE CatchUp \/ BookCatchesUp \/ Age \/ Rally \/ TimerEnds \/ \E t \in Threads : Push(t)
  BY <1>2, <1>H, <1>L, BookShrinks DEF CatchUp, BookCatchesUp, Age, Rally, TimerEnds, Push
<1>3. CASE Session
  <2>1. Live' \subseteq Live BY <1>3 DEF Session, Live
  <2> QED BY <1>3, <1>H, <2>1, BookShrinks DEF Session
<1>4. CASE Restart
  <2>1. \A t \in Threads : op'[t].at = "idle" BY <1>4 DEF Restart, Idle
  <2>2. ~Tracked' /\ ~adrift' => ~Tracked
    <3>1. /\ row' = mirror
          /\ adrift' = (\/ adrift \/ row.leg \notin {0, mirror.leg} \/ \E t \in Threads : At(t, "bought"))
      BY <1>4 DEF Restart
    <3>2. ~Tracked' => mirror.leg = 0 BY <3>1 DEF Tracked, NoRow
    <3> QED BY <3>1, <3>2, RowOrLeg DEF Tracked
  <2>3. Live' = Live BY <1>4, <1>L DEF Restart
  <2>4. NoOrphanStop' BY <1>O, <2>2, <2>3 DEF NoOrphanStop
  <2>5. Alone' /\ \A t \in Threads : Fits(t)' BY <2>1 DEF Alone, Fits, Syncing
  <2> QED BY <1>H, <2>4, <2>5 DEF BookInv
<1>5. ASSUME NEW t \in Threads, Enter(t) PROVE BookInv'
  <2>1. Acts(t) /\ Others(t) /\ op'[t].at \in {"bought", "idle"} /\ op[t].at = "idle"
    BY <1>5, Turns DEF Enter, Begin, At, Others, Idle
  <2> QED BY <1>5, <1>E, <2>1 DEF Enter
<1>23. ASSUME NEW t \in Threads, Book(t) PROVE BookInv'
  <2>1. Acts(t) /\ Others(t) /\ op'[t].at = "read" BY <1>23, Turns DEF Book, At, Others, Idle
  <2>2. op[t].at = "bought" /\ row' = [NoRow EXCEPT !.leg = op[t].leg] BY <1>23 DEF Book, At
  <2>3. Fits(t)' BY <2>1 DEF Fits, Syncing
  <2>4. op[t].leg # 0 BY <2>2 DEF IInv, BoughtLast
  <2>5. Tracked' BY <2>2, <2>4 DEF Tracked, NoRow
  <2> QED BY <1>H, <2>1, <2>3, <2>5, BookStep
<1>6. ASSUME NEW t \in Threads, Exit(t) PROVE BookInv'
  <2>1. Acts(t) /\ Others(t) /\ op[t].at = "idle" /\ op'[t].at = "check"
    BY <1>6, Turns DEF Exit, Begin, At, Others, CallClose, Idle
  <2> QED BY <1>6, <1>E, <2>1 DEF Exit
<1>7. ASSUME NEW t \in Threads, Tick(t) PROVE BookInv'
  <2>1. Acts(t) /\ Others(t) /\ op[t].at = "idle" /\ op'[t].at = "read"
    BY <1>7, Turns DEF Tick, Begin, At, Others, Idle
  <2> QED BY <1>7, <1>E, <2>1 DEF Tick
<1>8. ASSUME NEW t \in Threads, Retry(t) PROVE BookInv'
  <2>1. Acts(t) /\ Others(t) /\ op[t].at # "bought" /\ op'[t].at = "read"
    BY <1>8, Turns DEF Retry, At, Others, Idle
  <2> QED BY <1>8, <1>E, <2>1 DEF Retry
<1>9. ASSUME NEW t \in Threads, Unwind(t) PROVE BookInv'
  <2>1. Acts(t) /\ op[t].at # "bought" BY <1>9, Turns DEF Unwind, At
  <2>2. PICK call \in {CallClose(row.leg), Idle} : op' = [op EXCEPT ![t] = call] BY <1>9 DEF Unwind
  <2>3. CallClose(row.leg).at = "check" /\ Idle.at = "idle" BY DEF CallClose, Idle
  <2>4. Others(t) /\ op'[t].at \in {"check", "idle"} BY <2>2, <2>3 DEF Others
  <2> QED BY <1>9, <1>E, <2>1, <2>4 DEF Unwind
<1>10. ASSUME NEW t \in Threads, SyncRead(t) PROVE BookInv'
  <2> DEFINE read == [op[t] EXCEPT !.leg = row.leg]
  <2>0. read \in CallState /\ Acts(t) /\ op[t].at = "read" /\ UNCHANGED <<stops, hidden, row>>
    <3>1. row.leg \in Nat BY DEF TypeOK
    <3>2. read \in CallState BY <3>1 DEF CallState
    <3> QED BY <1>10, <3>2, Turns DEF SyncRead, At
  <2>1. ASSUME NEW pc \in {"end", "fail"}, Go(t, pc) PROVE BookInv'
    <3>1. Others(t) /\ op'[t].at = pc BY <2>1, GoMoves DEF Pcs
    <3> QED BY <2>0, <3>1, <1>E
  <2>2. CASE Naked(t, read)
    <3>1. Others(t) /\ op'[t].at \in {"check", "fail"} BY <2>0, <2>2, NakedMoves
    <3> QED BY <2>0, <3>1, <1>E
  <2>3. ASSUME row # NoRow, NEW best, NEW pc, pc \in {"decide", "await", "clear"},
               op' = [op EXCEPT ![t] = [read EXCEPT !.live = Shown, !.best = best, !.level = row.trigger, !.at = pc]]
        PROVE  BookInv'
    <3>1. Others(t) /\ op'[t].at = pc /\ op'[t].live = Shown BY <2>0, <2>3 DEF Others, CallState
    <3>2. "late_book" \notin heard' => Live' \subseteq Shown
      BY <1>H, <1>L, <2>0 DEF HiddenHeard, Shown
    <3>3. Fits(t)' BY <2>0, <2>3, <3>1, <3>2 DEF Fits
    <3>4. Tracked' BY <2>0, <2>3 DEF Tracked
    <3> QED BY <1>H, <2>0, <3>1, <3>3, <3>4, BookStep
  <2> QED BY <1>10, <2>1, <2>2, <2>3 DEF SyncRead
<1>11. ASSUME NEW t \in Threads, SyncDecide(t) PROVE BookInv'
  <2>0. /\ op[t] \in CallState /\ Acts(t) /\ UNCHANGED stops /\ op[t].at = "decide"
        /\ row # NoRow /\ ("late_book" \notin heard => Live \subseteq op[t].live)
    BY <1>11, Turns DEF SyncDecide, At, Fits, Syncing
  <2>1. row' # NoRow
    <3>1. row' = row \/ Record(op[t].best) BY <1>11 DEF SyncDecide
    <3>2. row'.leg = row.leg BY <2>0, <3>1, RecordTyped DEF CallState
    <3>3. NoRow.leg = 0 BY DEF NoRow
    <3> QED BY <2>0, <3>2, <3>3, RowOrLeg
  <2>T. Tracked' BY <2>1 DEF Tracked
  <2>2. ASSUME Others(t), op'[t].at \in {"place"} \cup {"check", "end", "fail"} PROVE BookInv'
    <3>1. Fits(t)' BY <2>1, <2>2 DEF Fits
    <3> QED BY <1>H, <2>0, <2>T, <2>2, <3>1, BookStep
  <2>3. CASE Naked(t, op[t])
    <3>1. Others(t) /\ op'[t].at \in {"check", "fail"} BY <2>0, <2>3, NakedMoves
    <3> QED BY <2>2, <3>1
  <2>4. CASE Go(t, "end")
    <3>1. Others(t) /\ op'[t].at = "end" BY <2>4, GoMoves DEF Pcs
    <3> QED BY <2>2, <3>1
  <2>5. ASSUME NEW breached \in BOOLEAN,
               op' = [op EXCEPT ![t] = [Moved(@, "check") EXCEPT !.job = "close", !.pop = @ \/ breached]]
        PROVE  BookInv'
    <3>1. PICK moved \in CallState : moved = Moved(op[t], "check") /\ moved.at = "check"
      BY <2>0, MovedTyped DEF Pcs
    <3>2. Others(t) /\ op'[t].at = "check" BY <2>5, <3>1 DEF Others, CallState
    <3> QED BY <2>2, <3>2
  <2>6. ASSUME NEW level, NEW pc \in {"place", "cancel"},
               op' = [op EXCEPT ![t].level = level, ![t].at = pc]
        PROVE  BookInv'
    <3>1. Others(t) /\ op'[t].at = pc /\ op'[t].live = op[t].live BY <2>0, <2>6 DEF Others, CallState
    <3>2. "late_book" \notin heard' => Live' \subseteq op[t].live BY <1>H, <1>L, <2>0
    <3>3. Fits(t)' BY <2>1, <3>1, <3>2 DEF Fits
    <3> QED BY <1>H, <2>0, <2>T, <3>1, <3>3, BookStep
  <2> QED BY <1>11, <2>3, <2>4, <2>5, <2>6 DEF SyncDecide
<1>12. ASSUME NEW t \in Threads, SyncCancel(t) PROVE BookInv'
  <2>1. Acts(t) /\ row # NoRow /\ row' = row BY <1>12, Turns DEF SyncCancel, At, Fits, Syncing
  <2>2. Others(t) /\ op'[t].at = "place" BY <1>12, GoMoves DEF SyncCancel, Pcs
  <2>3. Fits(t)' /\ Tracked' BY <2>1, <2>2 DEF Fits, Tracked
  <2> QED BY <1>H, <2>1, <2>2, <2>3, BookStep
<1>13. ASSUME NEW t \in Threads, SyncPlace(t) \/ SyncRestore(t) PROVE BookInv'
  <2>1. Acts(t) /\ row # NoRow /\ row' = row
    BY <1>13, Turns DEF SyncPlace, SyncRestore, At, Fits, Syncing
  <2>2. Others(t) /\ op'[t].at \in {"placed", "restore", "unplaced", "restored"}
    <3>1. op[t].level \in Nat /\ op[t].best \in Nat BY DEF CallState
    <3>2. ASSUME NEW level \in Nat, NEW ok \in {"placed", "restored"}, NEW failed \in {"unplaced", "restore"},
                 Place(t, level, ok, failed)
          PROVE  Others(t) /\ op'[t].at \in {"placed", "restore", "unplaced", "restored"}
      BY <3>2, PlaceMoves DEF Pcs
    <3> QED BY <1>13, <3>1, <3>2 DEF SyncPlace, SyncRestore
  <2>3. Fits(t)' /\ Tracked' BY <2>1, <2>2 DEF Fits, Tracked
  <2> QED BY <1>H, <2>1, <2>2, <2>3, BookStep
<1>14. ASSUME NEW t \in Threads, SyncRecord(t) PROVE BookInv'
  <2>0. op[t] \in CallState /\ Acts(t) /\ row # NoRow
    BY <1>14, Turns DEF SyncRecord, At, Fits, Syncing
  <2>1. row' # NoRow
    <3>1. row' = row \/ Record(op[t].best) \/ Record(op[t].level) BY <1>14 DEF SyncRecord
    <3>2. row'.leg = row.leg BY <2>0, <3>1, RecordTyped DEF CallState
    <3>3. NoRow.leg = 0 BY DEF NoRow
    <3> QED BY <2>0, <3>2, <3>3, RowOrLeg
  <2>2. Others(t) /\ op'[t].at \in {"end", "check", "fail"}
    <3>1. "end" \in Pcs BY DEF Pcs
    <3> QED BY <1>14, <2>0, <3>1, GoMoves, NakedMoves DEF SyncRecord
  <2>3. Fits(t)' /\ Tracked' BY <2>1, <2>2 DEF Fits, Syncing, Tracked
  <2> QED BY <1>H, <2>0, <2>2, <2>3, BookStep
<1>15. ASSUME NEW t \in Threads, CloseCheck(t) PROVE BookInv'
  <2>0. op[t] \in CallState /\ Acts(t) /\ op[t].at = "check" /\ UNCHANGED <<stops, hidden, row>>
    BY <1>15, Turns DEF CloseCheck, At
  <2>1. /\ Others(t) /\ op'[t].at \in {"clear", "sweep"}
        /\ op'[t].at = "clear" => op'[t].live = Shown
    <3>1. CASE Go(t, "sweep") BY <3>1, GoMoves DEF Pcs
    <3>2. CASE op' = [op EXCEPT ![t].at = "clear", ![t].live = Shown] BY <2>0, <3>2 DEF Others, CallState
    <3> QED BY <1>15, <3>1, <3>2 DEF CloseCheck
  <2>2. "late_book" \notin heard' => Live' \subseteq Shown BY <1>H, <1>L, <2>0 DEF HiddenHeard, Shown
  <2>3. Fits(t)' BY <2>1, <2>2 DEF Fits, Syncing
  <2>4. ~Tracked' => ~Tracked BY <2>0, <2>1 DEF Tracked, At, Others
  <2> QED BY <1>H, <1>O, <1>L, <2>0, <2>1, <2>3, <2>4, BookStep
<1>16. ASSUME NEW t \in Threads, Clear(t) PROVE BookInv'
  <2>1. Acts(t) /\ op[t].at = "clear" /\ ("late_book" \notin heard => Live \subseteq op[t].live)
    BY <1>16, Turns DEF Clear, At, Fits
  <2>2. Others(t) /\ op'[t].at = "drop"
    <3>1. PICK moved \in CallState : moved = Moved(op[t], "drop") /\ moved.at = "drop" BY MovedTyped DEF Pcs
    <3>2. PICK pop : op' = [op EXCEPT ![t] = [moved EXCEPT !.pop = pop, !.job = "close"]]
      BY <1>16, <3>1 DEF Clear
    <3> QED BY <3>1, <3>2 DEF Others, CallState
  <2>3. heard' = {} => Live' = {} BY <1>16, <1>H, <2>1, CancelEmpties DEF Clear
  <2>4. Fits(t)' BY <2>2, <2>3 DEF Fits, Syncing
  <2> QED BY <1>H, <2>1, <2>2, <2>3, <2>4, BookStep
<1>17. ASSUME NEW t \in Threads, CloseSweep(t) PROVE BookInv'
  <2>1. Acts(t) BY <1>17, Turns DEF CloseSweep, At
  <2>2. Others(t) /\ op'[t].at = "sell" BY <1>17 DEF CloseSweep, Others, CallState
  <2>3. heard' = {} => Live' = {}
    <3>1. CASE Cancel(Shown)
      <4>1. heard' = {} => Shown = Live BY <1>H DEF BookInv, HiddenHeard, Shown
      <4> QED BY <3>1, <4>1, CancelEmpties
    <3>2. CASE Fault("unreadable") BY <3>2, FaultTyped DEF Hiding
    <3> QED BY <1>17, <3>1, <3>2 DEF CloseSweep
  <2>4. Fits(t)' BY <2>2, <2>3 DEF Fits, Syncing
  <2> QED BY <1>H, <2>1, <2>2, <2>3, <2>4, BookStep
<1>18. ASSUME NEW t \in Threads, CloseSell(t) PROVE BookInv'
  <2>1. Acts(t) /\ (heard = {} => Live = {}) BY <1>18, Turns DEF CloseSell, At, Fits
  <2>2. Others(t) /\ op'[t].at \in {"drop", "unsold"}
    <3>1. {"drop", "unsold"} \subseteq Pcs BY DEF Pcs
    <3> QED BY <1>18, <3>1, GoMoves DEF CloseSell
  <2>3. heard' = {} => Live' = {} BY <1>18, <1>L, <1>H, <2>1 DEF CloseSell
  <2>4. Fits(t)' BY <2>2, <2>3 DEF Fits, Syncing
  <2> QED BY <1>H, <2>1, <2>2, <2>3, <2>4, BookStep
<1>19. ASSUME NEW t \in Threads, CloseDrop(t) PROVE BookInv'
  <2>1. Acts(t) /\ (heard = {} => Live = {}) BY <1>19, Turns DEF CloseDrop, At, Fits
  <2>2. Others(t) /\ op'[t].at = "end" BY <1>19, GoMoves DEF CloseDrop, Pcs
  <2>3. heard' = {} => Live' = {} BY <1>19, <1>L, <1>H, <2>1 DEF CloseDrop
  <2>4. Fits(t)' BY <2>2 DEF Fits, Syncing
  <2> QED BY <1>H, <2>1, <2>2, <2>3, <2>4, BookStep
<1>20. ASSUME NEW t \in Threads, CloseUnsold(t) PROVE BookInv'
  <2>1. Acts(t) /\ Others(t) /\ op[t].at = "unsold" /\ op'[t].at \in {"read", "end"}
    BY <1>20, Turns DEF CloseUnsold, At, Others, CallState, Idle
  <2> QED BY <1>20, <1>E, <2>1 DEF CloseUnsold
<1>21. ASSUME NEW t \in Threads, End(t) PROVE BookInv'
  <2>0. op[t].at \in {"end", "fail", "await"} BY <1>21 DEF End
  <2>1. Acts(t) /\ Others(t) /\ op'[t].at = "idle" BY <1>21, <2>0, Turns DEF End, Others, Idle
  <2> QED BY <1>21, <1>E, <2>0, <2>1 DEF End
<1> QED
  BY <1>1, <1>2, <1>3, <1>4, <1>5, <1>6, <1>7, <1>8, <1>9, <1>10, <1>11, <1>12, <1>13, <1>14, <1>15,
     <1>16, <1>17, <1>18, <1>19, <1>20, <1>21, <1>23 DEF Next, Step

\* No stop outlives the row of its leg while Kotak can be read, shows every stop at once and
\* cancels what it is asked to, for any number of entries, slots and other faults (refused, lost
\* and unexecuted orders, restarts), until lots go adrift or a call begins while the other thread
\* is in one.
THEOREM StopsGoWithRow == Spec => []NoOrphanStop
<1>1. BookInv => NoOrphanStop BY DEF BookInv
<1> QED BY TypeCorrect, InvInit, InvNext, BookInit, BookNext, <1>1, PTL DEF Spec

(***************************************************************************)
(* TriggerNeverLowers, until two calls have met, while stops are shown at  *)
(* once and cancelled when asked.  A sync adopts the highest stop it       *)
(* reads, which is no lower than the trigger of the row unless the stop at *)
(* the trigger has gone alone: when it fires, the lot is sold; the night   *)
(* and a cancel take every stop with it.  (One refused cancel leaves a     *)
(* lower stop resting, and a second one leaves it alone: then the next     *)
(* sync lowers the trigger.)  What a restart brings back is an older row   *)
(* of the same entry, with a lower trigger.                                *)
(***************************************************************************)
Clean == ~adrift /\ ~met /\ heard \subseteq {"unreadable"}
Backs(level) == Live = {} \/ \E s \in Live : stops[s] >= level
Climbs(t) ==
    /\ op[t].at \in {"decide", "cancel", "place", "placed"} => op[t].level >= row.trigger
    /\ op[t].at \in {"decide", "cancel", "place"} /\ op[t].live # {} => op[t].best >= row.trigger
    /\ op[t].at \in {"restore", "restored"} => op[t].best >= row.trigger
    /\ op[t].at \in {"decide", "restored"} => Backs(op[t].best)
    /\ op[t].at = "placed" => Backs(op[t].level)
Climbing == {"decide", "cancel", "place", "placed", "restore", "restored"}
OlderBelow == mirror.leg = row.leg => mirror.trigger <= row.trigger
TrigInv == net > 0 /\ Clean => Backs(row.trigger) /\ OlderBelow /\ \A t \in Threads : Climbs(t)

\* The step formula of TriggerNeverLowers.
NotLower ==
    row'.leg = row.leg /\ net > 0 /\ ~adrift /\ ~met /\ heard \subseteq {"unreadable"}
    => row'.trigger >= row.trigger \/ Restart

LEMMA TrigStep ==
    ASSUME TypeOK, TypeOK', TrigInv, NEW t \in Threads, Acts(t), Others(t), net' = net \/ net' <= 0,
           Clean' => Clean, net > 0 /\ Clean /\ Clean' => Backs(row.trigger)' /\ Climbs(t)' /\ OlderBelow'
    PROVE  TrigInv'
<1> SUFFICES ASSUME net' > 0, Clean'
             PROVE  Backs(row.trigger)' /\ OlderBelow' /\ \A u \in Threads : Climbs(u)'
  BY DEF TrigInv
<1>1. net > 0
  <2>1. \A n \in Int : n > 0 => ~(n <= 0) OBVIOUS
  <2>2. net' \in Int BY DEF TypeOK
  <2> QED BY <2>1, <2>2
<1>2. \A u \in Threads : u # t => op'[u].at = "idle" BY DEF Acts, Others
<1>3. ASSUME NEW u \in Threads, u # t PROVE Climbs(u)' BY <1>2, <1>3 DEF Climbs
<1> QED BY <1>1, <1>3

\* Stops that go all at once, or none; or the lot is sold.
LEMMA TrigOutside ==
    ASSUME TypeOK, TypeOK', TrigInv, UNCHANGED <<op, row>>, mirror' \in {mirror, row}, Clean' => Clean,
           Clean' => net' <= 0 \/ (net' = net /\ (stops' = stops \/ Live' = {}))
    PROVE  TrigInv'
<1> SUFFICES ASSUME net' > 0, Clean'
             PROVE  Backs(row.trigger)' /\ OlderBelow' /\ \A u \in Threads : Climbs(u)'
  BY DEF TrigInv
<1>0. net' \in Int /\ \A n \in Int : n > 0 => ~(n <= 0) BY DEF TypeOK
<1>1. net > 0 /\ (stops' = stops \/ Live' = {}) BY <1>0
<1>2. \A level : Backs(level) => Backs(level)' BY <1>1 DEF Backs, Live
<1>3. Backs(row.trigger) /\ OlderBelow /\ \A u \in Threads : Climbs(u) BY <1>1 DEF TrigInv
<1>4. Backs(row.trigger)' BY <1>2, <1>3
<1>5. ASSUME NEW u \in Threads PROVE Climbs(u)'
  <2>1. Climbs(u) BY <1>3
  <2> QED BY <1>2, <2>1 DEF Climbs
<1>6. OlderBelow'
  <2>1. row.trigger \in Nat BY DEF TypeOK
  <2> QED BY <1>3, <2>1 DEF OlderBelow
<1> QED BY <1>4, <1>5, <1>6

\* The highest of the stops is one that backs the trigger.
LEMMA BestBacks ==
    ASSUME TypeOK, NEW best \in {stops[s] : s \in Live} \cup {0}, \A s \in Live : stops[s] <= best,
           NEW level \in Nat, Backs(level)
    PROVE  Backs(best) /\ (Live # {} => best >= level)
<1>1. \A s \in Live : stops[s] \in Nat /\ stops[s] > 0 BY DEF TypeOK, Live
<1>2. CASE Live = {} BY <1>2 DEF Backs
<1>3. CASE Live # {}
  <2>1. PICK s \in Live : stops[s] >= level BY <1>3 DEF Backs
  <2>2. best \in Nat BY <1>1
  <2>3. best >= level BY <1>1, <2>1, <2>2
  <2>4. best # 0 BY <1>1, <2>1, <2>2
  <2>5. PICK u \in Live : best = stops[u] BY <2>4
  <2> QED BY <2>2, <2>3, <2>5 DEF Backs
<1> QED BY <1>2, <1>3

LEMMA TrigNext ==
    ASSUME TypeOK, TypeOK', IInv, IInv', BookInv, BookInv', TrigInv, [Next]_vars
    PROVE  TrigInv' /\ NotLower
<1>U. CASE UNCHANGED vars
  <2>1. UNCHANGED <<op, row, mirror, net, stops, heard, adrift, met>> BY <1>U DEF vars
  <2>2. TrigInv' BY <2>1 DEF TrigInv, Clean, Backs, Live, OlderBelow, Climbs
  <2>3. row.trigger \in Nat BY DEF TypeOK
  <2> QED BY <2>1, <2>2, <2>3 DEF NotLower
<1> SUFFICES ASSUME Next PROVE TrigInv' /\ NotLower
  BY <1>U
<1>T. /\ op \in [Threads -> CallState] /\ stops \in [Slots -> Nat] /\ row \in RowState
      /\ net \in Int /\ net' \in Int /\ buys \in Nat /\ row' \in RowState
  BY DEF TypeOK, CallState, RowState
<1>H. heard \subseteq heard' /\ (adrift => adrift') /\ (met => met') BY HearNext
<1>K. Clean' => Clean BY <1>H DEF Clean
<1>C. net > 0 /\ Clean => Backs(row.trigger) /\ OlderBelow /\ \A t \in Threads : Climbs(t) BY DEF TrigInv
<1>S. Sold \in Int /\ (~adrift => Sold <= 0) BY SoldLower
<1>L. stops' = stops => \A level : Backs(level) => Backs(level)' BY DEF Backs, Live
<1>R. row' = row => NotLower BY <1>T DEF NotLower, RowState
<1>M. UNCHANGED <<row, mirror>> => (OlderBelow => OlderBelow') BY DEF OlderBelow
<1>Q. CASE ~Clean'
  <2>1. TrigInv' BY <1>Q DEF TrigInv
  <2>2. ASSUME row' # row, Clean PROVE row'.leg = row.leg /\ net > 0 => row'.trigger >= row.trigger \/ Restart
    <3>1. \/ Restart
          \/ \E t \in Threads : Book(t) \/ CloseDrop(t) \/ SyncDecide(t) \/ SyncRecord(t)
      <4>1. ASSUME NEW s \in Slots, Fill(s) PROVE row' = row BY <4>1 DEF Fill
      <4>2. ASSUME CatchUp \/ BookCatchesUp \/ Age \/ Rally \/ TimerEnds \/ Session PROVE row' = row
        <5>1. CatchUp \/ BookCatchesUp \/ Age => row' = row BY DEF CatchUp, BookCatchesUp, Age
        <5>2. Rally \/ TimerEnds \/ Session => row' = row BY DEF Rally, TimerEnds, Session
        <5> QED BY <4>2, <5>1, <5>2
      <4>3. ASSUME NEW t \in Threads, Enter(t) \/ Exit(t) \/ Tick(t) \/ Push(t) \/ Retry(t) \/ Unwind(t) PROVE row' = row
        <5>1. Enter(t) => row' = row BY DEF Enter
        <5>2. Exit(t) \/ Tick(t) \/ Push(t) => row' = row BY DEF Exit, Tick, Push
        <5>3. Retry(t) \/ Unwind(t) => row' = row BY DEF Retry, Unwind
        <5> QED BY <4>3, <5>1, <5>2, <5>3
      <4>4. ASSUME NEW t \in Threads, SyncRead(t) \/ SyncCancel(t) \/ SyncPlace(t) \/ SyncRestore(t) PROVE row' = row
        BY <4>4 DEF SyncRead, SyncCancel, SyncPlace, SyncRestore
      <4>5. ASSUME NEW t \in Threads,
                   CloseCheck(t) \/ Clear(t) \/ CloseSweep(t) \/ CloseSell(t) \/ CloseUnsold(t) \/ End(t)
            PROVE  row' = row
        BY <4>5 DEF CloseCheck, Clear, CloseSweep, CloseSell, CloseUnsold, End
      <4> QED BY <2>2, <4>1, <4>2, <4>3, <4>4, <4>5 DEF Next, Step
    <3>2. ASSUME NEW t \in Threads, SyncDecide(t) \/ SyncRecord(t) PROVE Clean'
      <4>1. UNCHANGED <<history, mishaps>> BY <3>2 DEF SyncDecide, SyncRecord
      <4> QED BY <2>2, <4>1 DEF history, mishaps, Clean
    <3>3. ASSUME NEW t \in Threads, Book(t) PROVE Clean'
      BY <2>2, <3>3 DEF Book, history, mishaps, Clean
    <3>4. ASSUME NEW t \in Threads, CloseDrop(t) PROVE row'.leg # row.leg
      <4>1. row' = NoRow /\ NoRow.leg = 0 BY <3>4 DEF CloseDrop, NoRow
      <4> QED BY <2>2, <4>1, RowOrLeg
    <3> QED BY <1>Q, <3>1, <3>2, <3>3, <3>4
  <2>3. NotLower BY <1>R, <2>2 DEF NotLower, Clean
  <2> QED BY <2>1, <2>3
<1> SUFFICES ASSUME Clean' PROVE TrigInv' /\ NotLower
  BY <1>Q
<1>F. Clean /\ ~adrift /\ ~met' /\ "late_book" \notin heard' /\ "cancel_failed" \notin heard' /\ hidden = {}
  BY <1>H, <1>K DEF Clean, BookInv, HiddenHeard
<1>W. Shown = Live BY <1>F DEF Shown
<1> USE <1>T, <1>F, <1>K DEF kotak, book, outside, history
\* A step that leaves stops and row alone and moves t to a place that asks nothing of them.
<1>E. ASSUME NEW t \in Threads, Acts(t), Others(t), UNCHANGED <<stops, row, mirror>>, net' = net \/ net' <= 0,
             op'[t].at \notin Climbing
      PROVE  TrigInv' /\ NotLower
  <2>1. Climbs(t)' BY <1>E DEF Climbs, Climbing
  <2>2. net > 0 => Backs(row.trigger)' /\ OlderBelow' BY <1>E, <1>C, <1>L, <1>M
  <2> QED BY <1>E, <1>R, <2>1, <2>2, TrigStep
<1>1. ASSUME NEW s \in Slots, Fill(s) PROVE TrigInv' /\ NotLower
  BY <1>1, <1>S, <1>R, TrigOutside DEF Fill
<1>2. CASE CatchUp \/ BookCatchesUp \/ Age \/ Rally \/ TimerEnds \/ \E t \in Threads : Push(t)
  BY <1>2, <1>R, TrigOutside DEF CatchUp, BookCatchesUp, Age, Rally, TimerEnds, Push
<1>3. CASE Session
  <2>1. stops' = stops \/ Live' = {} BY <1>3 DEF Session, Live
  <2> QED BY <1>3, <2>1, <1>R, TrigOutside DEF Session
<1>4. CASE Restart
  <2>0. /\ op' = [u \in Threads |-> Idle] /\ row' = mirror /\ mirror' = mirror /\ net' = net /\ stops' = stops
        /\ adrift' = (\/ adrift \/ row.leg \notin {0, mirror.leg} \/ \E t \in Threads : At(t, "bought"))
    BY <1>4 DEF Restart
  <2>1. \A t \in Threads : op'[t].at = "idle" BY <2>0 DEF Idle
  <2>2. \A t \in Threads : Climbs(t)' BY <2>1 DEF Climbs
  <2>3. OlderBelow'
    <3>1. row'.trigger \in Nat BY DEF RowState
    <3> QED BY <2>0, <3>1 DEF OlderBelow
  <2>4. ASSUME net > 0 PROVE Backs(row.trigger)'
    <3>1. ~adrift' BY DEF Clean
    <3>2. row.leg \in {0, mirror.leg} /\ \A t \in Threads : ~At(t, "bought") BY <2>0, <3>1
    <3>3. \A n \in Int : n > 0 => ~(n <= 0) OBVIOUS
    <3>4. row # NoRow BY <2>4, <3>2, <3>3 DEF Tracked, IInv, NeverForgets
    <3>5. mirror.leg = row.leg BY <3>2, <3>4, RowOrLeg
    <3>6. Backs(row.trigger) /\ mirror.trigger <= row.trigger BY <1>C, <2>4, <3>5 DEF OlderBelow
    <3>7. mirror.trigger \in Nat /\ row.trigger \in Nat /\ \A s \in Live : stops[s] \in Nat BY DEF TypeOK, Live
    <3>8. \A a, b, c \in Nat : a >= b /\ c <= b => a >= c OBVIOUS
    <3>9. Backs(mirror.trigger) BY <3>6, <3>7, <3>8 DEF Backs
    <3> QED BY <1>L, <2>0, <3>9
  <2>5. TrigInv' BY <2>0, <2>2, <2>3, <2>4 DEF TrigInv
  <2> QED BY <1>4, <2>5 DEF NotLower
\* A lot whose row is not written yet: every stop is above the level of no row.
<1>5. ASSUME NEW t \in Threads, Enter(t) PROVE TrigInv' /\ NotLower
  <2>1. Acts(t) /\ Others(t) /\ op'[t].at \in {"bought", "idle"}
    BY <1>5, Turns DEF Enter, Begin, At, Others, Idle
  <2>2. row = NoRow /\ row' = row /\ mirror' = mirror /\ row.trigger = 0 /\ row.leg = 0
    BY <1>5 DEF Enter, NoRow
  <2>3. Backs(row.trigger)'
    <3>1. \A s \in Live' : stops'[s] \in Nat BY DEF Live, TypeOK
    <3>2. \A n \in Nat : n >= 0 OBVIOUS
    <3> QED BY <2>2, <3>1, <3>2 DEF Backs
  <2>4. \A u \in Threads : Climbs(u)'
    <3>1. \A u \in Threads : op'[u].at \in {"bought", "idle"} BY <2>1 DEF Acts, Others
    <3> QED BY <3>1 DEF Climbs
  <2>5. OlderBelow'
    <3>1. mirror.leg = 0 => mirror = NoRow BY DEF TypeOK
    <3> QED BY <2>2, <3>1 DEF OlderBelow, NoRow
  <2> QED BY <1>R, <2>2, <2>3, <2>4, <2>5 DEF TrigInv
<1>25. ASSUME NEW t \in Threads, Book(t) PROVE TrigInv' /\ NotLower
  <2>0. op[t].at = "bought" /\ op[t].leg = buys /\ buys > 0 /\ row = NoRow /\ row.leg = 0 /\ mirror.leg # buys
    BY <1>25 DEF Book, At, IInv, BoughtLast, NoRow
  <2>1. /\ Acts(t) /\ Others(t) /\ op'[t].at = "read" /\ mirror' = mirror
        /\ row' = [NoRow EXCEPT !.leg = buys]
    BY <1>25, <2>0, Turns DEF Book, At, Others, Idle
  <2>2. row'.leg = buys /\ row'.trigger = 0 BY <2>1 DEF NoRow
  <2>3. Backs(row.trigger)'
    <3>1. \A s \in Live' : stops'[s] \in Nat BY DEF Live, TypeOK
    <3>2. \A n \in Nat : n >= 0 OBVIOUS
    <3> QED BY <2>2, <3>1, <3>2 DEF Backs
  <2>4. \A u \in Threads : Climbs(u)'
    <3>1. \A u \in Threads : op'[u].at \in {"read", "idle"} BY <2>1 DEF Acts, Others
    <3> QED BY <3>1 DEF Climbs
  <2>5. OlderBelow' BY <2>0, <2>1, <2>2 DEF OlderBelow
  <2> QED BY <2>0, <2>2, <2>3, <2>4, <2>5 DEF TrigInv, NotLower
<1>6. ASSUME NEW t \in Threads, Exit(t) PROVE TrigInv' /\ NotLower
  <2>1. Acts(t) /\ Others(t) /\ op'[t].at = "check" BY <1>6, Turns DEF Exit, Others, CallClose, Idle
  <2> QED BY <1>6, <1>E, <2>1 DEF Exit, Climbing
<1>7. ASSUME NEW t \in Threads, Tick(t) PROVE TrigInv' /\ NotLower
  <2>1. Acts(t) /\ Others(t) /\ op'[t].at = "read" BY <1>7, Turns DEF Tick, Others, Idle
  <2> QED BY <1>7, <1>E, <2>1 DEF Tick, Climbing
<1>8. ASSUME NEW t \in Threads, Retry(t) PROVE TrigInv' /\ NotLower
  <2>1. Acts(t) /\ Others(t) /\ op'[t].at = "read" BY <1>8, Turns DEF Retry, At, Others, Idle
  <2> QED BY <1>8, <1>E, <2>1 DEF Retry, Climbing
<1>9. ASSUME NEW t \in Threads, Unwind(t) PROVE TrigInv' /\ NotLower
  <2>1. Acts(t) BY <1>9, Turns DEF Unwind, At
  <2>2. PICK call \in {CallClose(row.leg), Idle} : op' = [op EXCEPT ![t] = call] BY <1>9 DEF Unwind
  <2>3. CallClose(row.leg).at = "check" /\ Idle.at = "idle" BY DEF CallClose, Idle
  <2>4. Others(t) /\ op'[t].at \in {"check", "idle"} BY <2>2, <2>3 DEF Others
  <2> QED BY <1>9, <1>E, <2>1, <2>4 DEF Unwind, Climbing
<1>10. ASSUME NEW t \in Threads, SyncRead(t) PROVE TrigInv' /\ NotLower
  <2> DEFINE read == [op[t] EXCEPT !.leg = row.leg]
  <2>0. read \in CallState /\ Acts(t) /\ UNCHANGED <<net, stops, row, mirror>>
    <3>1. read \in CallState BY DEF CallState, RowState
    <3> QED BY <1>10, <3>1, Turns DEF SyncRead, At
  <2>1. ASSUME NEW pc \in {"end", "fail"}, Go(t, pc) PROVE TrigInv' /\ NotLower
    <3>1. Others(t) /\ op'[t].at = pc BY <2>1, GoMoves DEF Pcs
    <3> QED BY <2>0, <3>1, <1>E DEF Climbing
  <2>2. CASE Naked(t, read) BY <2>0, <2>2, <1>E, NakedMoves DEF Climbing
  <2>3. ASSUME NEW best \in {stops[s] : s \in Live} \cup {0}, \A s \in Live : stops[s] <= best,
               NEW pc \in {"decide", "await", "clear"},
               op' = [op EXCEPT ![t] = [read EXCEPT !.live = Live, !.best = best, !.level = row.trigger, !.at = pc]]
        PROVE  TrigInv' /\ NotLower
    <3>1. /\ Others(t) /\ op'[t].at = pc /\ op'[t].live = Live
          /\ op'[t].best = best /\ op'[t].level = row.trigger
      BY <2>0, <2>3 DEF Others, CallState
    <3>2. row.trigger \in Nat BY DEF RowState
    <3>3. ASSUME net > 0 PROVE Backs(row.trigger)' /\ OlderBelow' /\ Climbs(t)'
      <4>1. Backs(row.trigger) /\ Backs(best) /\ (Live # {} => best >= row.trigger)
        BY <1>C, <2>3, <3>2, <3>3, BestBacks
      <4>2. Backs(row.trigger)' /\ Backs(op[t].best)' BY <1>L, <2>0, <3>1, <4>1
      <4> QED BY <1>C, <1>M, <2>0, <2>3, <3>1, <3>2, <3>3, <4>1, <4>2 DEF Climbs
    <3> QED BY <2>0, <1>R, <3>1, <3>3, TrigStep
  <2>4. ASSUME NEW best \in {stops[s] : s \in Shown} \cup {0}, \A s \in Shown : stops[s] <= best,
               op' = [op EXCEPT ![t] =
                         [read EXCEPT !.live = Shown, !.best = best, !.level = row.trigger,
                                      !.at = CASE shown > 0 -> "decide"
                                               [] shown <= 0 /\ Young(row.leg) -> "await"
                                               [] OTHER -> "clear"]]
        PROVE  TrigInv' /\ NotLower
    <3>1. (CASE shown > 0 -> "decide" [] shown <= 0 /\ Young(row.leg) -> "await" [] OTHER -> "clear")
          \in {"decide", "await", "clear"}
      OBVIOUS
    <3> QED BY <1>W, <2>3, <2>4, <3>1
  <2> QED BY <1>10, <2>1, <2>2, <2>4 DEF SyncRead
<1>11. ASSUME NEW t \in Threads, SyncDecide(t) PROVE TrigInv' /\ NotLower
  <2>0. /\ op[t] \in CallState /\ Acts(t) /\ UNCHANGED <<stops, net, mirror>> /\ op[t].at = "decide"
        /\ row # NoRow /\ Live \subseteq op[t].live
    BY <1>11, <1>H, Turns DEF SyncDecide, At, Fits, Syncing
  <2>1. net > 0 => /\ Backs(op[t].best) /\ op[t].level >= row.trigger
                   /\ op[t].live # {} => op[t].best >= row.trigger
    BY <1>C, <2>0 DEF Climbs
  <2>2. CASE op[t].live # {} /\ Record(op[t].best) /\ Go(t, "end")
    <3>1. row'.trigger = op[t].best /\ row'.leg = row.leg BY <2>0, <2>2 DEF Record, RowState
    <3>2. Others(t) /\ op'[t].at = "end" BY <2>2, GoMoves DEF Pcs
    <3>3. Climbs(t)' BY <3>2 DEF Climbs
    <3>4. net > 0 => Backs(row.trigger)' BY <1>L, <2>0, <2>1, <3>1
    <3>5. net > 0 => OlderBelow'
      <4>1. row.trigger \in Nat /\ mirror.trigger \in Nat /\ op[t].best \in Nat BY <2>0 DEF TypeOK, CallState
      <4>2. \A a, b, c \in Nat : a <= b /\ c >= b => a <= c OBVIOUS
      <4> QED BY <1>C, <2>0, <2>1, <2>2, <3>1, <4>1, <4>2 DEF OlderBelow
    <3> QED BY <2>0, <2>1, <2>2, <3>1, <3>2, <3>3, <3>4, <3>5, TrigStep DEF NotLower
  <2>3. CASE row' = row /\ (Naked(t, op[t]) \/ Go(t, "end"))
    <3>0. "end" \in Pcs BY DEF Pcs
    <3>1. Others(t) /\ op'[t].at \in {"check", "fail", "end"} BY <2>0, <2>3, <3>0, NakedMoves, GoMoves
    <3> QED BY <1>E, <2>0, <2>3, <3>1 DEF Climbing
  <2>4. ASSUME NEW breached \in BOOLEAN, row' = row,
               op' = [op EXCEPT ![t] = [Moved(@, "check") EXCEPT !.job = "close", !.pop = @ \/ breached]]
        PROVE  TrigInv' /\ NotLower
    <3>0. PICK moved \in CallState : moved = Moved(op[t], "check") /\ moved.at = "check"
      BY <2>0, MovedTyped DEF Pcs
    <3>1. Others(t) /\ op'[t].at = "check" BY <2>4, <3>0 DEF Others, CallState
    <3> QED BY <1>E, <2>0, <2>4, <3>1 DEF Climbing
  <2>5. ASSUME NEW seen \in 1..peak, row' = row, NEW pc \in {"place", "cancel"},
               op' = [op EXCEPT ![t].level = Wanted(t, seen), ![t].at = pc]
        PROVE  TrigInv' /\ NotLower
    <3>1. /\ Others(t) /\ op'[t].at = pc /\ op'[t].live = op[t].live
          /\ op'[t].best = op[t].best /\ op'[t].level = Wanted(t, seen)
      BY <2>0, <2>5 DEF Others, CallState
    <3>2. op[t].level \in Nat /\ row.trigger \in Nat /\ seen \in Nat BY <2>0 DEF CallState, RowState
    <3>3. Wanted(t, seen) \in Nat /\ Wanted(t, seen) >= op[t].level BY <3>2, MaxPair DEF Wanted
    <3>4. net > 0 => op'[t].level >= row'.trigger BY <2>1, <2>5, <3>1, <3>2, <3>3
    <3>5. net > 0 => Climbs(t)' BY <2>1, <2>5, <3>1, <3>4 DEF Climbs
    <3>6. net > 0 => Backs(row.trigger)' /\ OlderBelow' BY <1>C, <1>L, <1>M, <2>0, <2>5
    <3> QED BY <2>0, <2>5, <1>R, <3>1, <3>5, <3>6, TrigStep
  <2> QED BY <1>11, <2>2, <2>3, <2>4, <2>5 DEF SyncDecide
<1>12. ASSUME NEW t \in Threads, SyncCancel(t) PROVE TrigInv' /\ NotLower
  <2>1. /\ Acts(t) /\ op[t].at = "cancel" /\ Live \subseteq op[t].live
        /\ row' = row /\ net' = net /\ mirror' = mirror
    BY <1>12, <1>H, Turns DEF SyncCancel, At, Fits
  <2>2. Others(t) /\ op' = [op EXCEPT ![t] = [@ EXCEPT !.at = "place"]]
    BY <1>12, GoMoves DEF SyncCancel, Pcs, Reading
  <2>3. /\ op'[t].at = "place" /\ op'[t].live = op[t].live
        /\ op'[t].best = op[t].best /\ op'[t].level = op[t].level
    BY <2>2 DEF CallState
  <2>4. Live' = {} BY <1>12, <2>1, CancelEmpties DEF SyncCancel
  <2>5. net > 0 => Climbs(t) /\ OlderBelow BY <1>C
  <2>6. net > 0 => Climbs(t)' BY <2>1, <2>3, <2>5 DEF Climbs
  <2>7. Backs(row.trigger)' BY <2>4 DEF Backs
  <2> QED BY <1>R, <1>M, <2>1, <2>2, <2>5, <2>6, <2>7, TrigStep
\* A new stop is no lower than the trigger, and what rests beside it is left alone.
<1>13. ASSUME NEW t \in Threads, NEW level \in Nat, NEW ok \in {"placed", "restored"},
              NEW failed \in {"unplaced", "restore"}, Place(t, level, ok, failed),
              Acts(t), UNCHANGED <<net, row, mirror>>, net > 0 => level >= row.trigger,
              net > 0 /\ failed = "restore" => op[t].best >= row.trigger,
              level = IF ok = "placed" THEN op[t].level ELSE op[t].best
      PROVE  TrigInv' /\ NotLower
  <2>1. /\ \A s \in Live : s \in Live' /\ stops'[s] = stops[s]
        /\ \A s \in Live' : s \in Live \/ stops'[s] = level
        /\ \E pc \in {ok, failed} :
              Go(t, pc) /\ (pc = ok /\ ok # failed => level = 0 \/ \E s \in Live' : stops'[s] = level)
    BY <1>13, PlaceAdds DEF Pcs
  <2>2. PICK pc \in {ok, failed} :
           Go(t, pc) /\ (pc = ok /\ ok # failed => level = 0 \/ \E s \in Live' : stops'[s] = level)
    BY <2>1
  <2>3. /\ Others(t) /\ op'[t].at = pc /\ op'[t].best = op[t].best /\ op'[t].level = op[t].level
    <3>1. pc \in Pcs /\ pc \in Reading BY DEF Pcs, Reading
    <3>2. Others(t) /\ op' = [op EXCEPT ![t] = [@ EXCEPT !.at = pc]] BY <2>2, <3>1, GoMoves
    <3> QED BY <3>2 DEF CallState
  <2>4. \A s \in Slots : stops[s] \in Nat /\ stops'[s] \in Nat BY DEF TypeOK
  <2>5. Live' \subseteq Slots /\ Live \subseteq Slots BY DEF Live
  <2>6. row.trigger \in Nat BY DEF RowState
  <2>7. net > 0 => Backs(row.trigger)'
    <3>1. CASE \E s \in Live : stops[s] >= row.trigger BY <1>13, <2>1, <3>1 DEF Backs
    <3>2. CASE Live = {} BY <1>13, <2>1, <3>2 DEF Backs
    <3> QED BY <1>C, <3>1, <3>2 DEF Backs
  <2>8. pc = ok => Backs(level)'
    <3>1. level = 0 => Backs(level)' BY <2>4, <2>5 DEF Backs
    <3>2. (\E s \in Live' : stops'[s] = level) => Backs(level)' BY <2>4, <2>5 DEF Backs
    <3>3. ok # failed OBVIOUS
    <3> QED BY <2>2, <3>1, <3>2, <3>3
  <2>9. net > 0 => Climbs(t)' BY <1>13, <2>3, <2>8 DEF Climbs
  <2>10. net > 0 => OlderBelow' BY <1>C, <1>M, <1>13
  <2> QED BY <1>13, <1>R, <2>3, <2>7, <2>9, <2>10, TrigStep
<1>14. ASSUME NEW t \in Threads, SyncPlace(t) PROVE TrigInv' /\ NotLower
  <2>1. Acts(t) /\ op[t].at = "place" /\ UNCHANGED <<net, row, mirror>> /\ op[t].level \in Nat
    BY <1>14, Turns DEF SyncPlace, At, CallState
  <2>2. net > 0 => op[t].level >= row.trigger /\ (op[t].live # {} => op[t].best >= row.trigger)
    BY <1>C, <2>1 DEF Climbs
  <2> QED BY <1>13, <1>14, <2>1, <2>2 DEF SyncPlace
<1>15. ASSUME NEW t \in Threads, SyncRestore(t) PROVE TrigInv' /\ NotLower
  <2>1. Acts(t) /\ op[t].at = "restore" /\ UNCHANGED <<net, row, mirror>> /\ op[t].best \in Nat
    BY <1>15, Turns DEF SyncRestore, At, CallState
  <2>2. net > 0 => op[t].best >= row.trigger BY <1>C, <2>1 DEF Climbs
  <2> QED BY <1>13, <1>15, <2>1, <2>2 DEF SyncRestore
<1>16. ASSUME NEW t \in Threads, SyncRecord(t) PROVE TrigInv' /\ NotLower
  <2>0. op[t] \in CallState /\ Acts(t) /\ UNCHANGED <<stops, net, mirror>> /\ row # NoRow
    BY <1>16, Turns DEF SyncRecord, At, Fits, Syncing
  <2>1. ASSUME NEW level \in Nat, Record(level), Go(t, "end"),
               net > 0 => level >= row.trigger /\ Backs(level)
        PROVE  TrigInv' /\ NotLower
    <3>1. row'.trigger = level /\ row'.leg = row.leg BY <2>0, <2>1 DEF Record, RowState
    <3>2. Others(t) /\ op'[t].at = "end" BY <2>1, GoMoves DEF Pcs
    <3>3. Climbs(t)' BY <3>2 DEF Climbs
    <3>4. net > 0 => Backs(row.trigger)' BY <1>L, <2>0, <2>1, <3>1
    <3>5. net > 0 => OlderBelow'
      <4>1. row.trigger \in Nat /\ mirror.trigger \in Nat BY DEF TypeOK
      <4>2. \A a, b, c \in Nat : a <= b /\ c >= b => a <= c OBVIOUS
      <4> QED BY <1>C, <2>0, <2>1, <3>1, <4>1, <4>2 DEF OlderBelow
    <3> QED BY <2>0, <2>1, <3>1, <3>2, <3>3, <3>4, <3>5, TrigStep DEF NotLower
  <2>2. CASE At(t, "placed") /\ Record(op[t].level) /\ Go(t, "end")
    <3>1. net > 0 => op[t].level >= row.trigger /\ Backs(op[t].level) BY <1>C, <2>2 DEF Climbs, At
    <3> QED BY <2>0, <2>1, <2>2, <3>1 DEF CallState
  <2>3. CASE At(t, "restored") /\ Record(op[t].best) /\ Go(t, "end")
    <3>1. net > 0 => op[t].best >= row.trigger /\ Backs(op[t].best) BY <1>C, <2>3 DEF Climbs, At
    <3> QED BY <2>0, <2>1, <2>3, <3>1 DEF CallState
  <2>4. CASE Naked(t, op[t]) /\ row' = row BY <1>E, <2>0, <2>4, NakedMoves DEF Climbing
  <2> QED BY <1>16, <2>2, <2>3, <2>4 DEF SyncRecord
<1>17. ASSUME NEW t \in Threads, CloseCheck(t) PROVE TrigInv' /\ NotLower
  <2>1. Acts(t) BY <1>17, Turns DEF CloseCheck, At
  <2>2. Others(t) /\ op'[t].at \in {"clear", "sweep"}
    <3>1. CASE Go(t, "sweep") BY <3>1, GoMoves DEF Pcs
    <3>2. CASE op' = [op EXCEPT ![t].at = "clear", ![t].live = Shown] BY <3>2 DEF Others, CallState
    <3> QED BY <1>17, <3>1, <3>2 DEF CloseCheck
  <2> QED BY <1>17, <1>E, <2>1, <2>2 DEF CloseCheck, Climbing
\* A cancel that Kotak takes leaves no stop below the trigger, because it leaves none.
<1>18. ASSUME NEW t \in Threads, UNCHANGED <<net, row, mirror>>, Acts(t), Others(t),
              op'[t].at \in {"drop", "sell"}, Live' = {}
       PROVE  TrigInv' /\ NotLower
  <2>1. Backs(row.trigger)' /\ Climbs(t)' BY <1>18 DEF Backs, Climbs
  <2>2. net > 0 => OlderBelow' BY <1>C, <1>M, <1>18
  <2> QED BY <1>R, <1>18, <2>1, <2>2, TrigStep
<1>26. ASSUME NEW t \in Threads, Clear(t) PROVE TrigInv' /\ NotLower
  <2>1. Acts(t) /\ op[t].at = "clear" /\ Live \subseteq op[t].live
    BY <1>26, <1>H, Turns DEF Clear, At, Fits
  <2>2. Others(t) /\ op'[t].at = "drop"
    <3>1. PICK moved \in CallState : moved = Moved(op[t], "drop") /\ moved.at = "drop" BY MovedTyped DEF Pcs
    <3>2. PICK pop : op' = [op EXCEPT ![t] = [moved EXCEPT !.pop = pop, !.job = "close"]]
      BY <1>26, <3>1 DEF Clear
    <3> QED BY <3>1, <3>2 DEF Others, CallState
  <2>3. Live' = {} BY <1>26, <2>1, CancelEmpties DEF Clear
  <2> QED BY <1>18, <1>26, <2>1, <2>2, <2>3 DEF Clear
<1>19. ASSUME NEW t \in Threads, CloseSweep(t) PROVE TrigInv' /\ NotLower
  <2>1. Acts(t) /\ net' = net /\ row' = row /\ mirror' = mirror BY <1>19, Turns DEF CloseSweep, At
  <2>2. Others(t) /\ op'[t].at = "sell" BY <1>19 DEF CloseSweep, Others, CallState
  <2>3. CASE stops' = stops BY <1>E, <2>1, <2>2, <2>3 DEF Climbing
  <2>4. CASE Cancel(Shown)
    <3>1. Live' = {} BY <1>W, <2>4, CancelEmpties
    <3> QED BY <1>18, <2>1, <2>2, <3>1
  <2> QED BY <1>19, <2>3, <2>4 DEF CloseSweep
<1>20. ASSUME NEW t \in Threads, CloseSell(t) PROVE TrigInv' /\ NotLower
  <2>1. Acts(t) /\ UNCHANGED <<stops, row, mirror>> BY <1>20, Turns DEF CloseSell, At
  <2>2. Others(t) /\ op'[t].at \in {"drop", "unsold"}
    <3>1. {"drop", "unsold"} \subseteq Pcs BY DEF Pcs
    <3> QED BY <1>20, <3>1, GoMoves DEF CloseSell
  <2>3. net' = net \/ net' <= 0 BY <1>20, <1>S DEF CloseSell
  <2> QED BY <1>E, <2>1, <2>2, <2>3 DEF Climbing
\* The row goes with its lots.
<1>21. ASSUME NEW t \in Threads, CloseDrop(t) PROVE TrigInv' /\ NotLower
  <2>1. Acts(t) /\ op[t].at = "drop" /\ row' = NoRow /\ net' = net BY <1>21, Turns DEF CloseDrop, At
  <2>2. Others(t) /\ op'[t].at = "end" BY <1>21, GoMoves DEF CloseDrop, Pcs
  <2>3. ~Tracked' BY <2>1, <2>2 DEF Tracked, At, Acts, Others
  <2>4. ~adrift' BY DEF Clean
  <2>5. net <= 0 BY <2>1, <2>3, <2>4 DEF IInv, NeverForgets
  <2>6. \A n \in Int : n <= 0 => ~(n > 0) OBVIOUS
  <2> QED BY <2>1, <2>5, <2>6 DEF TrigInv, NotLower
<1>22. ASSUME NEW t \in Threads, CloseUnsold(t) PROVE TrigInv' /\ NotLower
  <2>1. Acts(t) /\ Others(t) /\ op'[t].at \in {"read", "end"}
    BY <1>22, Turns DEF CloseUnsold, At, Others, CallState, Idle
  <2> QED BY <1>22, <1>E, <2>1 DEF CloseUnsold, Climbing
<1>23. ASSUME NEW t \in Threads, End(t) PROVE TrigInv' /\ NotLower
  <2>0. op[t].at \in {"end", "fail", "await"} BY <1>23 DEF End
  <2>1. Acts(t) /\ Others(t) /\ op'[t].at = "idle" BY <1>23, <2>0, Turns DEF End, Others, Idle
  <2> QED BY <1>23, <1>E, <2>1 DEF End, Climbing
<1> QED
  BY <1>1, <1>2, <1>3, <1>4, <1>5, <1>6, <1>7, <1>8, <1>9, <1>10, <1>11, <1>12, <1>14, <1>15, <1>16,
     <1>17, <1>19, <1>20, <1>21, <1>22, <1>23, <1>25, <1>26 DEF Next, Step

\* While Kotak holds the lot no sync lowers the trigger of its row, for any number of entries,
\* stops, levels and faults, until a stop is shown late, a cancel fails, lots go adrift or two
\* calls meet on the leg; a restart may bring back the row as it was last pushed.
THEOREM TriggerClimbs == Spec => TriggerNeverLowers
<1>1. Init => TrigInv BY DEF Init, TrigInv
<1>2. TypeOK /\ TypeOK' /\ IInv /\ IInv' /\ BookInv /\ BookInv' /\ TrigInv /\ [Next]_vars => TrigInv' /\ NotLower
  BY TrigNext
<1>3. NotLower =>
        [row'.leg = row.leg /\ net > 0 /\ ~adrift /\ ~met /\ heard \subseteq {"unreadable"}
         => row'.trigger >= row.trigger \/ Restart]_vars
  BY DEF NotLower
<1> QED BY TypeCorrect, InvInit, InvNext, BookInit, BookNext, <1>1, <1>2, <1>3, PTL DEF Spec, TriggerNeverLowers
=============================================================================

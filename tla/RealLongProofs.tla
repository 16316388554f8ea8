---------------------------- MODULE RealLongProofs ----------------------------
(***************************************************************************)
(* For every quantity, stop ladder and fault set, and any number of faults *)
(* and entries: the state of RealLong keeps its type, and no target is     *)
(* placed that a confirmed stop does not stand behind.  When the account   *)
(* holds no other shares of the symbol (OnlyOurs), the row outlives its    *)
(* shares, every step keeps the promise of OwnedPosition, and one stop at  *)
(* most rests until the swing engine takes over.  Without a restart        *)
(* (NoRestart) one stop at most rests whatever the account holds.          *)
(***************************************************************************)
EXTENDS RealLong, FiniteSetTheorems, WellFoundedInduction, TLAPS

-----------------------------------------------------------------------------
(* The sum of a function over a finite set: the recursion MapThenSumSet is *)
(* defined by has a solution, a sum of naturals is a natural, and it is at *)
(* least each of its terms. The arguments are by least counterexample,     *)
(* which stands in for induction on the size of the set.                   *)

\* Every non-empty set of natural numbers has a least element.
LEMMA LeastNumber == ASSUME NEW T \in SUBSET Nat, T # {} PROVE \E m \in T : \A k \in T : m <= k
<1>1. PICK R : IsWellFoundedOn(R, Nat) /\ \A x, y \in Nat : <<y, x>> \in R <=> y < x
  <2>1. IsWellFoundedOn(OpToRel(<, Nat), Nat)
    BY NatLessThanWellFounded
  <2>2. \A x, y \in Nat : <<y, x>> \in OpToRel(<, Nat) <=> y < x
    BY DEF OpToRel
  <2> QED BY <2>1, <2>2, Zenon
<1>2. PICK m \in T : \A k \in T : ~(<<k, m>> \in R)
  BY <1>1, WFMin
<1>3. \A k \in T : m \in Nat /\ k \in Nat /\ ~(k < m)
  BY <1>1, <1>2
<1>4. ASSUME NEW k \in T PROVE m <= k
  <2>1. m \in Nat /\ k \in Nat /\ ~(k < m)
    BY <1>3
  <2> QED BY <2>1
<1> QED BY <1>4

\* f[s] is the sum of w over s, for every subset s of S.
AnyOf(s) == CHOOSE x \in s : TRUE
Sums(f, w, S) ==
    f = [s \in SUBSET S |-> IF s = {} THEN 0 ELSE w[AnyOf(s)] + f[s \ {AnyOf(s)}]]

\* Such a function exists whenever S is finite.
LEMMA SumsExist == ASSUME NEW S, IsFiniteSet(S), NEW w PROVE \E f : Sums(f, w, S)
<1> DEFINE body(f, s) == IF s = {} THEN 0 ELSE w[AnyOf(s)] + f[s \ {AnyOf(s)}]
           UpTo(f, k) == /\ f = [s \in SUBSET S |-> f[s]]
                         /\ \A s \in SUBSET S : Cardinality(s) <= k => f[s] = body(f, s)
           T == {k \in Nat : ~\E f : UpTo(f, k)}
<1>0. \A s \in SUBSET S : /\ IsFiniteSet(s) /\ Cardinality(s) \in Nat
                          /\ Cardinality(s) <= Cardinality(S)
  BY FS_Subset, FS_CardinalityType
<1>1. T = {}
  <2> SUFFICES ASSUME T # {} PROVE FALSE
    OBVIOUS
  <2>1. PICK m \in T : \A k \in T : m <= k
    <3> T \in SUBSET Nat
      OBVIOUS
    <3> HIDE DEF T
    <3> QED BY LeastNumber
  <2>2. CASE m = 0
    <3> DEFINE g == [s \in SUBSET S |-> 0]
    <3>1. \A s \in SUBSET S : Cardinality(s) <= 0 => s = {}
      BY <1>0, FS_EmptySet
    <3>2. UpTo(g, 0)
      BY <3>1
    <3> QED BY <2>1, <2>2, <3>2
  <2>3. CASE m # 0
    <3>0. m \in Nat
      OBVIOUS
    <3>1. m \in Nat /\ m - 1 \in Nat /\ m - 1 \notin T
      <4> HIDE DEF T
      <4>1. m - 1 \in Nat /\ ~(m <= m - 1)
        BY <2>3, <3>0
      <4> QED BY <2>1, <3>0, <4>1
    <3>2. PICK f : UpTo(f, m - 1)
      BY <3>1
    <3> DEFINE g == [s \in SUBSET S |-> IF Cardinality(s) <= m - 1 THEN f[s] ELSE body(f, s)]
    <3>3. ASSUME NEW s \in SUBSET S, Cardinality(s) <= m PROVE g[s] = body(g, s)
      <4>1. CASE s = {}
        <5>1. Cardinality(s) = 0
          BY <4>1, FS_EmptySet
        <5> QED BY <3>1, <3>2, <4>1, <5>1
      <4>2. CASE s # {}
        <5>1. AnyOf(s) \in s
          BY <4>2 DEF AnyOf
        <5> DEFINE r == s \ {AnyOf(s)}
        <5>2. r \in SUBSET S /\ Cardinality(r) = Cardinality(s) - 1
          BY <1>0, <5>1, FS_RemoveElement
        <5>3. Cardinality(s) \in Nat /\ Cardinality(r) <= m - 1
          BY <1>0, <3>1, <3>3, <5>2
        <5>4. g[r] = f[r]
          BY <5>2, <5>3
        <5>5. g[s] = body(f, s)
          BY <3>2
        <5> QED BY <4>2, <5>4, <5>5
      <4> QED BY <4>1, <4>2
    <3>4. UpTo(g, m)
      BY <3>3
    <3> QED BY <2>1, <3>4
  <2> QED BY <2>2, <2>3
<1>2. PICK f : UpTo(f, Cardinality(S))
  <2>1. Cardinality(S) \in Nat
    BY FS_CardinalityType
  <2> QED BY <1>1, <2>1
<1>3. \A s \in SUBSET S : f[s] = body(f, s)
  BY <1>0, <1>2
<1>4. f = [s \in SUBSET S |-> body(f, s)]
  BY <1>2, <1>3
<1> QED BY <1>4 DEF Sums

\* Sums of naturals are naturals, at least each of their terms.
LEMMA SumsBound ==
    ASSUME NEW S, IsFiniteSet(S), NEW w, \A x \in S : w[x] \in Nat, NEW f, Sums(f, w, S)
    PROVE  \A s \in SUBSET S : f[s] \in Nat /\ \A x \in s : w[x] <= f[s]
<1> DEFINE Good(s) == f[s] \in Nat /\ \A x \in s : w[x] <= f[s]
           T == {k \in Nat : \E s \in SUBSET S : Cardinality(s) = k /\ ~Good(s)}
<1>0. \A s \in SUBSET S : IsFiniteSet(s) /\ Cardinality(s) \in Nat
  BY FS_Subset, FS_CardinalityType
<1>1. T = {}
  <2> SUFFICES ASSUME T # {} PROVE FALSE
    OBVIOUS
  <2>1. PICK m \in T : \A k \in T : m <= k
    <3> T \in SUBSET Nat
      OBVIOUS
    <3> HIDE DEF T
    <3> QED BY LeastNumber
  <2>2. PICK s \in SUBSET S : Cardinality(s) = m /\ ~Good(s)
    BY <2>1
  <2>3. s # {}
    BY <2>2 DEF Sums
  <2>4. AnyOf(s) \in s
    BY <2>3 DEF AnyOf
  <2> DEFINE r == s \ {AnyOf(s)}
  <2>5. r \in SUBSET S /\ Cardinality(r) = Cardinality(s) - 1 /\ Cardinality(r) \in Nat
    BY <1>0, <2>4, FS_RemoveElement
  <2>6. Cardinality(r) \notin T
    <3> HIDE DEF T
    <3>1. Cardinality(s) \in Nat /\ ~(m <= Cardinality(r))
      BY <1>0, <2>2, <2>5
    <3> QED BY <2>1, <3>1
  <2>7. Good(r)
    BY <2>5, <2>6
  <2>8. f[s] = w[AnyOf(s)] + f[r]
    BY <2>3 DEF Sums
  <2>9. \A x \in s : w[x] \in Nat /\ (x = AnyOf(s) \/ x \in r)
    OBVIOUS
  <2>10. f[s] \in Nat
    BY <2>4, <2>7, <2>8, <2>9
  <2>11. ASSUME NEW x \in s PROVE w[x] <= f[s]
    <3>1. w[AnyOf(s)] \in Nat /\ f[r] \in Nat
      BY <2>4, <2>7, <2>9
    <3>2. CASE x = AnyOf(s)
      BY <2>8, <3>1, <3>2
    <3>3. CASE x \in r
      <4>1. w[x] \in Nat /\ w[x] <= f[r]
        BY <2>7, <2>9, <3>3
      <4> QED BY <2>8, <3>1, <4>1
    <3> QED BY <2>9, <3>2, <3>3
  <2> QED BY <2>2, <2>10, <2>11
<1> QED BY <1>0, <1>1

-----------------------------------------------------------------------------

USE SizesAssumption, FaultsAssumption

\* Past the commit of its row a call works on a row with shares.
HasRow == op.at \notin {"idle", "entry_book"} => row.qty > 0

Known(o, kind) == o \in Ids /\ book[o].kind = kind

\* The ids in a row are orders at Kotak, each of its kind.
IdsKnown(r) ==
    /\ r.sl # NoOrder => Known(r.sl, "sl")
    /\ r.target # NoOrder => Known(r.target, "target")

\* So is the order a call has just placed.
StopPlaced == {"entry_stop_ok", "leg_restored", "leg_newstop_ok", "sync_ok"}
OpKnown ==
    /\ op.at \in StopPlaced => Known(op.order, "sl")
    /\ op.at = "target_ok" => Known(op.order, "target")

\* A stop of this call's that Kotak accepted and the bot has not cancelled.
Confirmed(o) == Known(o, "sl") /\ book[o].status # "cancelled"

\* On the two ways to a new target.
BehindStop ==
    /\ op.at \in {"entry_stop_ok", "leg_newstop_ok"} => Confirmed(op.order)
    /\ op.at \in {"entry_target", "leg_nexttarget"} => Confirmed(row.sl)
    /\ op.at = "leg_sweep" /\ op.slOk => Confirmed(row.sl)
    /\ op.slOk => op.at \in {"leg_sweep", "leg_nexttarget", "target_ok", "leg_end"}

IInv == TypeOK /\ HasRow /\ IdsKnown(row) /\ IdsKnown(mirror) /\ OpKnown /\ BehindStop

-----------------------------------------------------------------------------
(* Numbers and records. *)

LEMMA Numbers ==
    /\ Qty \in 1..MaxBought /\ MaxBought \in Nat
    /\ FixedLegs \in 0..3 /\ LegQty \in 1..MaxBought /\ TargetQty \in 1..MaxBought
<1>1. MaxBought \in Nat /\ Qty <= MaxBought
  <2>1. MaxBought = MaxEntries * Qty BY DEF MaxBought
  <2>2. \A m \in Nat \ {0}, q \in Nat : m * q \in Nat /\ q <= m * q
    <3> SUFFICES ASSUME NEW m \in Nat \ {0}, NEW q \in Nat PROVE m * q \in Nat /\ q <= m * q
      OBVIOUS
    <3>1. m - 1 \in Nat /\ (m - 1) * q \in Nat /\ m * q = (m - 1) * q + q OBVIOUS
    <3> QED BY <3>1
  <2> QED BY <2>1, <2>2
<1>2. FixedLegs \in 0..3 BY DEF FixedLegs
<1>3. LegQty \in 1..Qty
  <2>1. CASE Qty \in {1, 2, 3} BY <2>1 DEF LegQty, FixedLegs
  <2>2. CASE Qty > 3
    <3>1. LegQty = Qty \div 4 BY <2>2 DEF LegQty, FixedLegs
    <3> QED BY <2>2, <3>1
  <2> QED BY <2>1, <2>2
<1> QED BY <1>1, <1>2, <1>3 DEF TargetQty

LEMMA Records ==
    /\ NoRow \in Row /\ NewRow \in Row /\ Flat \in Paper /\ Idle \in Op
    /\ NoRow.qty = 0 /\ NoRow.sl = NoOrder /\ NoRow.target = NoOrder
    /\ NewRow.qty = Qty /\ NewRow.sl = NoOrder /\ NewRow.target = NoOrder
    /\ Idle.at = "idle"
<1>1. NoRow \in Row /\ NoRow.qty = 0 /\ NoRow.sl = NoOrder /\ NoRow.target = NoOrder
  BY Numbers DEF NoRow, Row, NoOrder, NoLevel
<1>2. NewRow \in Row /\ NewRow.qty = Qty /\ NewRow.sl = NoOrder /\ NewRow.target = NoOrder
  <2>1. NewRow = [NoRow EXCEPT !.qty = Qty, !.legs = 1..FixedLegs, !.tagged = TRUE]
    BY DEF NewRow
  <2>2. 1..FixedLegs \in SUBSET (1..3) /\ Qty \in 0..MaxBought BY Numbers
  <2> QED BY <1>1, <2>1, <2>2 DEF Row
<1>3. Flat \in Paper BY DEF Flat, Paper, Levels, EntryStop
<1>4. Idle \in Op /\ Idle.at = "idle" BY DEF Idle, Op, Places, NoOrder
<1> QED BY <1>1, <1>2, <1>3, <1>4

LEMMA RowFacts ==
    ASSUME NEW r \in Row
    PROVE  /\ Degraded(r) \in Row /\ NoStop(r) \in Row
           /\ Degraded(r).qty = r.qty /\ Degraded(r).sl = r.sl /\ Degraded(r).target = r.target
           /\ NoStop(r).qty = r.qty /\ NoStop(r).sl = NoOrder /\ NoStop(r).target = r.target
           /\ \A l \in 0..MaxLevel : TypeOK =>
                 /\ WithStop(r, l) \in Row /\ WithStop(r, l).qty = r.qty
                 /\ WithStop(r, l).sl = op.order /\ WithStop(r, l).target = r.target
<1>1. /\ Degraded(r) \in Row /\ Degraded(r).qty = r.qty
      /\ Degraded(r).sl = r.sl /\ Degraded(r).target = r.target
  BY DEF Degraded, Row
<1>2. NoStop(r) \in Row /\ NoStop(r).qty = r.qty /\ NoStop(r).sl = NoOrder
      /\ NoStop(r).target = r.target
  BY DEF NoStop, Row, NoOrder
<1>3. ASSUME NEW l \in 0..MaxLevel, TypeOK
      PROVE  /\ WithStop(r, l) \in Row /\ WithStop(r, l).qty = r.qty
             /\ WithStop(r, l).sl = op.order /\ WithStop(r, l).target = r.target
  BY <1>3 DEF WithStop, Row, TypeOK, Op
<1> QED BY <1>1, <1>2, <1>3

-----------------------------------------------------------------------------
(* What a step may do to the order book. *)

BookKeeps ==
    /\ book' \in Seq(Order) /\ Len(book) <= Len(book')
    /\ \A o \in Ids : book'[o].kind = book[o].kind
StopsStand ==
    \A o \in Ids : book[o].kind = "sl" /\ book[o].status # "cancelled"
                      => book'[o].status # "cancelled"

LEMMA BookUnchanged == ASSUME TypeOK, UNCHANGED book PROVE BookKeeps /\ StopsStand
BY DEF BookKeeps, StopsStand, TypeOK, Ids

LEMMA StatusKeeps ==
    ASSUME TypeOK, NEW o \in Ids, NEW s \in {"filled", "cancelled"},
           book' = [book EXCEPT ![o].status = s]
    PROVE  /\ BookKeeps /\ Len(book') = Len(book)
           /\ s = "filled" \/ book[o].kind = "target" => StopsStand
<1>1. book \in Seq(Order) /\ o \in 1..Len(book) BY DEF TypeOK, Ids
<1>2. book[o] \in Order BY <1>1
<1>3. [book[o] EXCEPT !.status = s] \in Order BY <1>2 DEF Order
<1>4. book' = [book EXCEPT ![o] = [book[o] EXCEPT !.status = s]] OBVIOUS
<1>5. book' \in Seq(Order) /\ Len(book') = Len(book) BY <1>1, <1>3, <1>4
<1>6. \A p \in Ids : book'[p] = IF p = o THEN [book[o] EXCEPT !.status = s] ELSE book[p]
  BY <1>1, <1>4 DEF Ids
<1>7. \A p \in Ids : book'[p].kind = book[p].kind BY <1>2, <1>6 DEF Order
<1>8. s = "filled" \/ book[o].kind = "target" => StopsStand
  BY <1>2, <1>6 DEF StopsStand, Order
<1> QED BY <1>1, <1>5, <1>7, <1>8 DEF BookKeeps

LEMMA SweepKeeps ==
    ASSUME TypeOK, NEW kind, Sweep(kind)
    PROVE  BookKeeps /\ (kind = "target" => StopsStand)
<1>1. CASE UNCHANGED book BY <1>1, BookUnchanged
<1>2. CASE book' = [o \in Ids |-> IF o \in Resting(kind)
                                  THEN [book[o] EXCEPT !.status = "cancelled"] ELSE book[o]]
  <2>1. book \in Seq(Order) /\ Len(book) \in Nat BY DEF TypeOK
  <2>2. \A o \in Ids : book[o] \in Order BY <2>1 DEF Ids
  <2>3. \A o \in Ids : /\ book'[o] \in Order /\ book'[o].kind = book[o].kind
                       /\ book'[o] # book[o] => book[o].kind = kind
    BY <1>2, <2>2 DEF Order, Resting
  <2>4. book' \in Seq(Order) /\ Len(book') = Len(book)
    BY <1>2, <2>1, <2>3 DEF Ids
  <2>5. kind = "target" => StopsStand BY <2>3 DEF StopsStand
  <2> QED BY <2>1, <2>3, <2>4, <2>5 DEF BookKeeps
<1> QED BY <1>1, <1>2 DEF Sweep

\* An accepted order is the last of the book.
LEMMA AppendKeeps ==
    ASSUME TypeOK, NEW kind \in {"sl", "target"}, NEW q \in 1..MaxBought, NEW level \in 0..MaxLevel,
           book' = Append(book, [kind |-> kind, qty |-> q, level |-> level, status |-> "resting"])
    PROVE  /\ BookKeeps /\ StopsStand /\ Len(book') = Len(book) + 1
           /\ book'[Len(book) + 1].kind = kind /\ book'[Len(book) + 1].status = "resting"
<1> DEFINE new == [kind |-> kind, qty |-> q, level |-> level, status |-> "resting"]
<1>1. book \in Seq(Order) /\ Len(book) \in Nat BY DEF TypeOK
<1>2. new \in Order BY DEF Order
<1>3. /\ book' \in Seq(Order) /\ Len(book') = Len(book) + 1
      /\ book'[Len(book) + 1] = new /\ \A o \in Ids : book'[o] = book[o]
  BY <1>1, <1>2 DEF Ids
<1>4. new.kind = kind /\ new.status = "resting" OBVIOUS
<1>5. BookKeeps
  <2>1. Len(book) <= Len(book') BY <1>1, <1>3
  <2>2. \A o \in Ids : book'[o].kind = book[o].kind BY <1>3
  <2> QED BY <1>3, <2>1, <2>2 DEF BookKeeps
<1>6. StopsStand
  <2> SUFFICES ASSUME NEW o \in Ids, book[o].status # "cancelled" PROVE book'[o].status # "cancelled"
    BY DEF StopsStand
  <2>1. book'[o] = book[o] BY <1>3
  <2> QED BY <2>1
<1> HIDE DEF new
<1> QED BY <1>3, <1>4, <1>5, <1>6

\* What is known stays known.
LEMMA KnownStays ==
    ASSUME TypeOK, BookKeeps
    PROVE  /\ \A o, kind : Known(o, kind) => Known(o, kind)'
           /\ StopsStand => \A o : Confirmed(o) => Confirmed(o)'
<1>1. Ids \subseteq Ids' BY DEF BookKeeps, TypeOK, Ids
<1>2. ASSUME NEW o, NEW kind, Known(o, kind) PROVE Known(o, kind)'
  BY <1>1, <1>2 DEF Known, BookKeeps
<1>3. ASSUME StopsStand, NEW o, Confirmed(o) PROVE Confirmed(o)'
  BY <1>2, <1>3 DEF Confirmed, StopsStand, Known
<1> QED BY <1>2, <1>3

-----------------------------------------------------------------------------
(* The shape of a step. *)

Scalars ==
    /\ bought \in 0..MaxBought /\ sold \in Nat /\ adrift \in BOOLEAN /\ paper \in Paper
    /\ swing \in BOOLEAN /\ t1 \in BOOLEAN /\ faults \in 0..MaxFaults

RowKnown(r) == r \in Row /\ IdsKnown(r)

LEMMA Rows ==
    ASSUME IInv
    PROVE  /\ RowKnown(row) /\ RowKnown(mirror) /\ RowKnown(NoRow) /\ RowKnown(NewRow)
           /\ \A r : RowKnown(r) =>
                 /\ RowKnown(Degraded(r)) /\ Degraded(r).qty = r.qty
                 /\ RowKnown(NoStop(r)) /\ NoStop(r).qty = r.qty
<1>1. RowKnown(row) /\ RowKnown(mirror) BY DEF IInv, TypeOK, RowKnown
<1>2. RowKnown(NoRow) /\ RowKnown(NewRow) BY Records DEF RowKnown, IdsKnown
<1>3. ASSUME NEW r, RowKnown(r)
      PROVE  /\ RowKnown(Degraded(r)) /\ Degraded(r).qty = r.qty
             /\ RowKnown(NoStop(r)) /\ NoStop(r).qty = r.qty
  BY <1>3, RowFacts DEF RowKnown, IdsKnown
<1> QED BY <1>1, <1>2, <1>3

\* A row gets the stop just placed.
LEMMA RowWithStop ==
    ASSUME IInv, op.at \in StopPlaced, NEW l \in 0..MaxLevel
    PROVE  /\ RowKnown(WithStop(row, l)) /\ WithStop(row, l).qty = row.qty
           /\ WithStop(row, l).sl = op.order
<1>1. row \in Row /\ TypeOK /\ IdsKnown(row) /\ Known(op.order, "sl")
  BY DEF IInv, TypeOK, OpKnown
<1> QED BY <1>1, RowFacts DEF RowKnown, IdsKnown

\* The places where nothing is claimed of the order book.
Quiet == Places \ (StopPlaced \cup {"target_ok", "entry_target", "leg_nexttarget", "leg_sweep"})

LEMMA Step0 ==
    ASSUME IInv, Scalars', BookKeeps, op' \in Op, RowKnown(row'), RowKnown(mirror'),
           op'.at \in {"idle", "entry_book"} \/ row'.qty > 0,
           OpKnown', BehindStop'
    PROVE  IInv'
<1>1. TypeOK'
  BY DEF TypeOK, Scalars, BookKeeps, RowKnown
<1>2. IdsKnown(row)' /\ IdsKnown(mirror)'
  <2>1. TypeOK BY DEF IInv
  <2>2. \A o, kind : Known(o, kind) => Known(o, kind)' BY <2>1, KnownStays
  <2> QED BY <2>2 DEF RowKnown, IdsKnown
<1>3. HasRow' BY DEF HasRow
<1> QED BY <1>1, <1>2, <1>3 DEF IInv

LEMMA QuietStep ==
    ASSUME IInv, Scalars', BookKeeps, op' \in Op, RowKnown(row'), RowKnown(mirror'),
           op'.at \in Quiet, op'.slOk => op'.at = "leg_end",
           op'.at \in {"idle", "entry_book"} \/ row'.qty > 0
    PROVE  IInv'
<1>1. OpKnown' BY DEF OpKnown, Quiet
<1>2. BehindStop' BY DEF BehindStop, Quiet, StopPlaced
<1> QED BY <1>1, <1>2, Step0

LEMMA OpGo ==
    ASSUME IInv, NEW pc \in Places, Go(pc)
    PROVE  /\ op' \in Op /\ op'.at = pc /\ op'.order = op.order /\ op'.slOk = op.slOk
           /\ op'.leg = op.leg
BY DEF IInv, TypeOK, Go, Op

LEMMA OpDone == ASSUME Done PROVE op' \in Op /\ op'.at = "idle" /\ op'.slOk = FALSE
BY Records DEF Done, Idle

LEMMA DoneStep ==
    ASSUME IInv, Scalars', BookKeeps, Done, RowKnown(row'), RowKnown(mirror')
    PROVE  IInv'
<1>1. "idle" \in Quiet BY DEF Quiet, Places, StopPlaced
<1> QED BY <1>1, OpDone, QuietStep

LEMMA GoStep ==
    ASSUME IInv, Scalars', BookKeeps, NEW pc \in Quiet, Go(pc), RowKnown(row'), RowKnown(mirror'),
           row'.qty > 0, op.slOk => pc = "leg_end"
    PROVE  IInv'
<1>1. pc \in Places BY DEF Quiet
<1> QED BY <1>1, OpGo, QuietStep

LEMMA FaultType == ASSUME IInv, NEW kind, Fault(kind) \/ NoFault PROVE faults' \in 0..MaxFaults
BY DEF IInv, TypeOK, Fault, NoFault

LEMMA T1Type == ASSUME IInv, FlagT1 \/ UNCHANGED t1 PROVE t1' \in BOOLEAN
BY DEF IInv, TypeOK, FlagT1

\* A call that leaves the paper side, the swing engine and Kotak's counters alone.
LEMMA ScalarsOf ==
    ASSUME IInv, UNCHANGED <<bought, adrift, sold, paper, swing>>, FlagT1 \/ UNCHANGED t1,
           faults' \in 0..MaxFaults
    PROVE  Scalars'
BY T1Type DEF IInv, TypeOK, Scalars

LEMMA NotSlOk ==
    ASSUME IInv, op.at \notin {"leg_sweep", "leg_nexttarget", "target_ok", "leg_end"}
    PROVE  op.slOk = FALSE
BY DEF IInv, BehindStop, TypeOK, Op

\* cancel_real_order.
LEMMA CancelKeeps ==
    ASSUME IInv, NEW o, Cancel(o, TRUE, TRUE)
    PROVE  /\ BookKeeps /\ faults' \in 0..MaxFaults
           /\ o = NoOrder \/ Known(o, "target") => StopsStand
<1>1. faults' \in 0..MaxFaults BY FaultType DEF Cancel
<1>2. CASE UNCHANGED book BY <1>1, <1>2, BookUnchanged DEF IInv
<1>3. CASE Live(o) /\ book' = [book EXCEPT ![o].status = "cancelled"]
  <2>1. o \in Ids /\ TypeOK BY <1>3 DEF Live, IInv
  <2>2. o # NoOrder BY <2>1 DEF Ids, NoOrder
  <2> QED BY <1>1, <1>3, <2>1, <2>2, StatusKeeps DEF Known
<1> QED BY <1>2, <1>3 DEF Cancel

\* place_real_stop_loss, place_real_target.
LEMMA RestKeeps ==
    ASSUME IInv, NEW kind \in {"sl", "target"}, NEW q \in 1..MaxBought, NEW level \in 0..MaxLevel,
           NEW ok \in Places, NEW failed \in Places, Rest(kind, q, level, ok, failed)
    PROVE  /\ BookKeeps /\ StopsStand /\ faults' \in 0..MaxFaults
           /\ op' \in Op /\ op'.slOk = op.slOk
           /\ \/ /\ op'.at = ok /\ Known(op.order, kind)'
                 /\ kind = "sl" => Confirmed(op.order)'
              \/ op'.at = failed
<1>0. TypeOK BY DEF IInv
<1>1. faults' \in 0..MaxFaults BY FaultType DEF Rest
<1>2. CASE /\ book' = Append(book, [kind |-> kind, qty |-> q, level |-> level, status |-> "resting"])
           /\ op' = [op EXCEPT !.at = ok, !.order = Len(book) + 1] /\ Len(book) < MaxOrders
  <2>1. /\ BookKeeps /\ StopsStand /\ Len(book') = Len(book) + 1
        /\ book'[Len(book) + 1].kind = kind /\ book'[Len(book) + 1].status = "resting"
    BY <1>0, <1>2, AppendKeeps
  <2>2. Len(book) \in Nat /\ Len(book) + 1 \in 0..MaxOrders BY <1>0, <1>2 DEF TypeOK
  <2>3. op' \in Op /\ op'.at = ok /\ op'.order = Len(book) + 1 /\ op'.slOk = op.slOk
    BY <1>0, <1>2, <2>2 DEF TypeOK, Op
  <2>4. op'.order \in Ids' BY <2>1, <2>2, <2>3 DEF Ids
  <2>5. Known(op.order, kind)' BY <2>1, <2>3, <2>4 DEF Known
  <2>6. kind = "sl" => Confirmed(op.order)' BY <2>1, <2>3, <2>5 DEF Confirmed
  <2> QED BY <1>1, <2>1, <2>3, <2>5, <2>6
<1>3. CASE /\ UNCHANGED book
           /\ \E why \in {"short", "other", "cas", "t1"} : op' = [op EXCEPT !.at = failed, !.why = why]
  <2>1. op' \in Op /\ op'.at = failed /\ op'.slOk = op.slOk BY <1>0, <1>3 DEF TypeOK, Op
  <2> QED BY <1>0, <1>1, <1>3, <2>1, BookUnchanged
<1> QED BY <1>2, <1>3 DEF Rest

-----------------------------------------------------------------------------
(* The entry. *)

LEMMA PaperEntersFacts ==
    ASSUME IInv, PaperEnters
    PROVE  /\ UNCHANGED <<sold, book, row, mirror, swing, t1>> /\ op.at = "idle" /\ op.slOk = FALSE
           /\ BookKeeps /\ RowKnown(row') /\ RowKnown(mirror') /\ paper' \in Paper
<1>1. UNCHANGED <<sold, book, row, mirror, swing, t1>> /\ op.at = "idle" BY DEF PaperEnters, At
<1>2. paper' = [long |-> TRUE, stop |-> EntryStop, legs |-> 1..FixedLegs] BY DEF PaperEnters
<1>3. paper' \in Paper BY <1>2, Numbers DEF Paper, Levels, EntryStop
<1>4. BookKeeps /\ RowKnown(row') /\ RowKnown(mirror') BY <1>1, BookUnchanged, Rows DEF IInv
<1> QED BY <1>1, <1>3, <1>4, NotSlOk

LEMMA EnterKeeps == ASSUME IInv, Enter \/ EnterOnPaperOnly PROVE IInv'
<1> USE PaperEntersFacts
<1>1. PaperEnters BY DEF Enter, EnterOnPaperOnly
<1>2. /\ bought' = bought \/ (bought + Qty <= MaxBought /\ \E k \in 0..Qty : bought' = bought + k)
      /\ faults' \in 0..MaxFaults /\ adrift' \in BOOLEAN
  <2>1. CASE Enter
    <3>1. Qty \in 0..Qty /\ 0..(Qty - 1) \subseteq 0..Qty
      BY Numbers
    <3> QED BY <2>1, <3>1, FaultType DEF Enter, IInv, TypeOK
  <2>2. CASE EnterOnPaperOnly BY <2>2 DEF EnterOnPaperOnly, IInv, TypeOK
  <2> QED BY <2>1, <2>2
<1>3. bought \in 0..MaxBought /\ bought' \in 0..MaxBought
  <2>1. CASE bought' = bought BY <2>1 DEF IInv, TypeOK
  <2>2. CASE bought + Qty <= MaxBought /\ \E k \in 0..Qty : bought' = bought + k
    <3>1. PICK k \in 0..Qty : bought' = bought + k BY <2>2
    <3> QED BY <2>2, <3>1, Numbers DEF IInv, TypeOK
  <2> QED BY <1>2, <2>1, <2>2
<1>4. Scalars' BY <1>1, <1>2, <1>3 DEF IInv, TypeOK, Scalars
<1>5. op' \in Op /\ op'.at \in {"idle", "entry_book"} /\ op'.slOk = FALSE
  <2>1. CASE op' = op BY <1>1, <2>1 DEF IInv, TypeOK
  <2>2. CASE \E c \in BOOLEAN : op' = [op EXCEPT !.at = "entry_book", !.chan = c]
    BY <1>1, <2>2 DEF IInv, TypeOK, Op, Places
  <2> QED BY <2>1, <2>2 DEF Enter, EnterOnPaperOnly
<1>6. {"idle", "entry_book"} \subseteq Quiet BY DEF Quiet, Places, StopPlaced
<1> QED BY <1>1, <1>4, <1>5, <1>6, QuietStep

LEMMA EntryBookKeeps == ASSUME IInv, EntryBook PROVE IInv'
<1>1. /\ UNCHANGED <<bought, adrift, sold, book, paper, swing, t1, faults>> /\ op.at = "entry_book"
      /\ row' = NewRow /\ mirror' = NewRow /\ Go("entry_stop")
  BY DEF EntryBook, kotak, Push, At
<1>2. Scalars' /\ BookKeeps BY <1>1, ScalarsOf, BookUnchanged DEF IInv, TypeOK
<1>3. RowKnown(row') /\ RowKnown(mirror') /\ row'.qty > 0 BY <1>1, Rows, Records, Numbers
<1>4. "entry_stop" \in Quiet /\ op.slOk = FALSE
  BY <1>1, NotSlOk DEF Quiet, Places, StopPlaced
<1> QED BY <1>1, <1>2, <1>3, <1>4, GoStep

\* A call that places a stop or a target and goes on to a place where it is recorded.
LEMMA RestStep ==
    ASSUME IInv, NEW kind \in {"sl", "target"}, NEW q \in 1..MaxBought, NEW level \in 0..MaxLevel,
           NEW ok \in Places, NEW failed \in Quiet, Rest(kind, q, level, ok, failed),
           UNCHANGED <<bought, adrift, sold, row, mirror, paper, swing>>, FlagT1 \/ UNCHANGED t1,
           op.at \notin {"idle", "entry_book", "leg_sweep", "target_ok", "leg_end"},
           IF kind = "sl" THEN ok \in StopPlaced ELSE ok = "target_ok",
           kind = "sl" => op.at # "leg_nexttarget",
           op.slOk => failed = "leg_end"
    PROVE  IInv'
<1>1. failed \in Places BY DEF Quiet
<1>2. /\ BookKeeps /\ faults' \in 0..MaxFaults /\ op' \in Op /\ op'.slOk = op.slOk
      /\ \/ /\ op'.at = ok /\ Known(op.order, kind)'
            /\ kind = "sl" => Confirmed(op.order)'
         \/ op'.at = failed
  BY <1>1, RestKeeps
<1>3. Scalars' BY <1>2, ScalarsOf
<1>4. RowKnown(row') /\ RowKnown(mirror') /\ row'.qty > 0 BY Rows DEF IInv, HasRow
<1>5. CASE op'.at = failed BY <1>2, <1>3, <1>4, <1>5, QuietStep
<1>6. CASE /\ op'.at = ok /\ Known(op.order, kind)'
           /\ kind = "sl" => Confirmed(op.order)'
  <2>1. OpKnown' BY <1>6 DEF OpKnown, StopPlaced
  <2>2. op.slOk => op.at = "leg_nexttarget" BY DEF IInv, BehindStop
  <2>3. BehindStop' BY <1>2, <1>6, <2>2 DEF BehindStop, StopPlaced
  <2> QED BY <1>2, <1>3, <1>4, <2>1, <2>3, Step0
<1> QED BY <1>2, <1>5, <1>6

LEMMA EntryStopCallKeeps == ASSUME IInv, EntryStopCall PROVE IInv'
<1>1. op.at = "entry_stop" /\ op.slOk = FALSE BY NotSlOk DEF EntryStopCall, At
<1>2. paper.stop \in 0..MaxLevel BY DEF IInv, TypeOK, Paper, Levels
<1>3. "entry_stop_ok" \in Places /\ "entry_stop_ok" \in StopPlaced /\ "entry_stop_failed" \in Quiet
  BY DEF Places, StopPlaced, Quiet
<1> QED BY <1>1, <1>2, <1>3, Numbers, RestStep DEF EntryStopCall

LEMMA EntryStopOkKeeps == ASSUME IInv, EntryStopOk PROVE IInv'
<1>1. /\ UNCHANGED <<bought, adrift, sold, book, paper, swing, t1, faults>> /\ op.at = "entry_stop_ok"
      /\ row' = WithStop(row, paper.stop) /\ mirror' = row' /\ Go("entry_target")
  BY DEF EntryStopOk, kotak, Push, At
<1>2. Scalars' /\ BookKeeps BY <1>1, ScalarsOf, BookUnchanged DEF IInv, TypeOK
<1>3. paper.stop \in 0..MaxLevel BY DEF IInv, TypeOK, Paper, Levels
<1>4. RowKnown(row') /\ row'.qty = row.qty /\ row'.sl = op.order
  BY <1>1, <1>3, RowWithStop DEF StopPlaced
<1>5. row.qty > 0 /\ Confirmed(op.order) /\ op.slOk = FALSE
  BY <1>1, NotSlOk DEF IInv, HasRow, BehindStop
<1>6. op' \in Op /\ op'.at = "entry_target" /\ op'.slOk = FALSE
  BY <1>1, <1>5, OpGo DEF Places
<1>7. Confirmed(row.sl)' BY <1>1, <1>4, <1>5 DEF Confirmed, Known, Ids
<1>8. OpKnown' BY <1>6 DEF OpKnown, StopPlaced
<1>9. BehindStop' BY <1>6, <1>7 DEF BehindStop
<1> QED BY <1>1, <1>2, <1>4, <1>5, <1>6, <1>8, <1>9, Step0

\* ToExit, and a call that ends, from a place with a row.
LEMMA LeaveStep ==
    ASSUME IInv, Scalars', BookKeeps, ToExit \/ Done, RowKnown(row'), RowKnown(mirror'),
           row'.qty > 0, op.slOk = FALSE
    PROVE  IInv'
<1>1. "exit_check" \in Quiet BY DEF Quiet, Places, StopPlaced
<1> QED BY <1>1, GoStep, DoneStep DEF ToExit

LEMMA EntryStopFailedKeeps == ASSUME IInv, EntryStopFailed PROVE IInv'
<1>1. UNCHANGED <<bought, adrift, sold, book, paper, swing, faults>> /\ FlagT1 /\ op.at = "entry_stop_failed"
  BY DEF EntryStopFailed, kotak, At
<1>2. Scalars' /\ BookKeeps BY <1>1, ScalarsOf, BookUnchanged DEF IInv, TypeOK
<1>3. (ToExit \/ Done) /\ mirror' = mirror /\ row' \in {row, Degraded(row)}
  BY DEF EntryStopFailed, Commit
<1>4. RowKnown(row') /\ RowKnown(mirror') /\ row'.qty > 0
  BY <1>1, <1>3, Rows DEF IInv, HasRow
<1> QED BY <1>1, <1>2, <1>3, <1>4, NotSlOk, LeaveStep

LEMMA EntryTargetCallKeeps == ASSUME IInv, EntryTargetCall PROVE IInv'
<1>1. op.at = "entry_target" /\ op.slOk = FALSE BY NotSlOk DEF EntryTargetCall, At
<1>2. UNCHANGED <<bought, adrift, sold, row, mirror, paper, swing, t1>> BY DEF EntryTargetCall
<1>3. CASE Rest("target", TargetQty, NoLevel, "target_ok", "end")
  <2>1. "target_ok" \in Places /\ "end" \in Quiet /\ NoLevel \in 0..MaxLevel
    BY DEF Places, StopPlaced, Quiet, NoLevel
  <2> QED BY <1>1, <1>2, <1>3, <2>1, Numbers, RestStep
<1>4. CASE Done /\ UNCHANGED <<book, faults>>
  <2>1. Scalars' /\ BookKeeps BY <1>2, <1>4, ScalarsOf, BookUnchanged DEF IInv, TypeOK
  <2> QED BY <1>2, <1>4, <2>1, Rows, DoneStep
<1> QED BY <1>3, <1>4 DEF EntryTargetCall

LEMMA TargetOkKeeps == ASSUME IInv, TargetOk PROVE IInv'
<1>1. /\ UNCHANGED <<bought, adrift, sold, book, paper, swing, t1, faults>> /\ op.at = "target_ok"
      /\ row' = [row EXCEPT !.target = op.order] /\ mirror' = row' /\ Done
  BY DEF TargetOk, kotak, Push, At
<1>2. Scalars' /\ BookKeeps BY <1>1, ScalarsOf, BookUnchanged DEF IInv, TypeOK
<1>3. Known(op.order, "target") BY <1>1 DEF IInv, OpKnown
<1>4. row \in Row /\ op.order \in 0..MaxOrders /\ IdsKnown(row) BY DEF IInv, TypeOK, Op
<1>5. row' \in Row /\ row'.sl = row.sl /\ row'.target = op.order BY <1>1, <1>4 DEF Row
<1>6. RowKnown(row') BY <1>3, <1>4, <1>5 DEF RowKnown, IdsKnown
<1> QED BY <1>1, <1>2, <1>6, DoneStep

LEMMA EndKeeps == ASSUME IInv, End PROVE IInv'
<1>1. UNCHANGED <<bought, adrift, sold, book, row, mirror, paper, swing, t1, faults>> /\ Done
  BY DEF End, kotak
<1>2. Scalars' /\ BookKeeps BY <1>1, ScalarsOf, BookUnchanged DEF IInv, TypeOK
<1> QED BY <1>1, <1>2, Rows, DoneStep

LEMMA EntryKeeps == ASSUME IInv, Entry PROVE IInv'
BY EntryBookKeeps, EntryStopCallKeeps, EntryStopOkKeeps, EntryStopFailedKeeps,
   EntryTargetCallKeeps, TargetOkKeeps, EndKeeps DEF Entry

-----------------------------------------------------------------------------
(* The partial exit. *)

\* A call to Kotak from a place with a row, to a place where nothing is claimed.
LEMMA CallStep ==
    ASSUME IInv, BookKeeps, faults' \in 0..MaxFaults,
           UNCHANGED <<bought, adrift, sold, paper, swing, mirror>>, FlagT1 \/ UNCHANGED t1,
           row' \in {row, Degraded(row)}, op.at \notin {"idle", "entry_book"},
           op' \in Op, op'.at \in Quiet, op'.slOk => op'.at = "leg_end"
    PROVE  IInv'
<1>1. Scalars' BY ScalarsOf
<1>2. row.qty > 0 BY DEF IInv, HasRow
<1>3. RowKnown(row') /\ RowKnown(mirror') /\ row'.qty > 0 BY <1>2, Rows
<1> QED BY <1>1, <1>3, QuietStep

\* The same for a step that leaves the book alone as well.
LEMMA StillStep ==
    ASSUME IInv, UNCHANGED <<bought, adrift, sold, book, paper, swing, mirror, faults>>,
           FlagT1 \/ UNCHANGED t1,
           row' \in {row, Degraded(row)}, op.at \notin {"idle", "entry_book"},
           op' \in Op, op'.at \in Quiet, op'.slOk => op'.at = "leg_end"
    PROVE  IInv'
<1>1. BookKeeps /\ faults' \in 0..MaxFaults BY BookUnchanged DEF IInv, TypeOK
<1> QED BY <1>1, CallStep

LEMMA BookPaperLegKeeps == ASSUME IInv, BookPaperLeg PROVE IInv'
<1> DEFINE k == Min(paper.legs)
<1>1. /\ UNCHANGED <<bought, adrift, sold, book, row, mirror, swing, t1, faults>> /\ op.at = "idle"
      /\ paper' = [paper EXCEPT !.legs = @ \ {k}] /\ paper.legs # {}
  BY DEF BookPaperLeg, At, kotak
<1>2. paper \in Paper /\ paper.legs \subseteq 1..3 BY DEF IInv, TypeOK, Paper
<1>3. k \in 1..3
  <2>1. \E x \in paper.legs : \A y \in paper.legs : x <= y
    <3>1. CASE 1 \in paper.legs BY <1>2, <3>1
    <3>2. CASE 1 \notin paper.legs /\ 2 \in paper.legs BY <1>2, <3>2
    <3>3. CASE 1 \notin paper.legs /\ 2 \notin paper.legs BY <1>1, <1>2, <3>3
    <3> QED BY <3>1, <3>2, <3>3
  <2>2. k \in paper.legs BY <2>1 DEF Min
  <2> QED BY <1>2, <2>2
<1> HIDE DEF k
<1>4. paper' \in Paper BY <1>1, <1>2 DEF Paper
<1>5. Scalars' BY <1>1, <1>4 DEF IInv, TypeOK, Scalars
<1>6. BookKeeps /\ RowKnown(row') /\ RowKnown(mirror') BY <1>1, BookUnchanged, Rows DEF IInv
<1>7. CASE UNCHANGED op
  <2>1. op' \in Op /\ op'.slOk = FALSE /\ op'.at \in Quiet
    BY <1>1, <1>7, NotSlOk DEF IInv, TypeOK, Quiet, Places, StopPlaced
  <2> QED BY <1>1, <1>5, <1>6, <1>7, <2>1, QuietStep
<1>8. CASE row.qty > 0 /\ op' = [Idle EXCEPT !.at = "leg_target", !.leg = k]
  <2>1. op' \in Op /\ op'.slOk = FALSE /\ op'.at = "leg_target"
    <3>1. Idle \in Op /\ Idle.slOk = FALSE BY Records DEF Idle
    <3>2. k \in 0..3 BY <1>3
    <3> QED BY <1>8, <3>1, <3>2 DEF Op, Places
  <2>2. "leg_target" \in Quiet BY DEF Quiet, Places, StopPlaced
  <2> QED BY <1>1, <1>5, <1>6, <1>8, <2>1, <2>2, QuietStep
<1> QED BY <1>7, <1>8 DEF BookPaperLeg, k

LEMMA LegTargetKeeps == ASSUME IInv, LegTarget PROVE IInv'
<1>1. UNCHANGED <<bought, adrift, sold, row, mirror, paper, swing, t1>> /\ op.at = "leg_target"
  BY DEF LegTarget, At
<1>2. Go("leg_stop") \/ op' = [op EXCEPT !.at = "leg_stop", !.inferred = TRUE]
  BY DEF LegTarget, Cancel
<1>3. op.slOk = FALSE BY <1>1, NotSlOk
<1>4. op' \in Op /\ op'.at = "leg_stop" /\ op'.slOk = FALSE
  BY <1>2, <1>3, OpGo, ZenonT(30) DEF IInv, TypeOK, Op, Places
<1>5. BookKeeps /\ faults' \in 0..MaxFaults
  <2>1. CASE UNCHANGED <<book, faults>> BY <2>1, BookUnchanged DEF IInv, TypeOK
  <2>2. CASE Cancel(row.target, TRUE, TRUE) BY <2>2, CancelKeeps
  <2> QED BY <2>1, <2>2 DEF LegTarget, Cancel
<1>6. "leg_stop" \in Quiet BY DEF Quiet, Places, StopPlaced
<1> QED BY <1>1, <1>4, <1>5, <1>6, CallStep

LEMMA LegStopKeeps == ASSUME IInv, LegStop PROVE IInv'
<1>1. UNCHANGED <<bought, adrift, sold, mirror, paper, swing, t1>> /\ op.at = "leg_stop"
  BY DEF LegStop, At
<1>2. AfterStop(TRUE) \/ AfterStop(FALSE) \/ Done BY DEF LegStop, Cancel
<1>3. op.slOk = FALSE BY <1>1, NotSlOk
<1>4. op' \in Op /\ op'.at \in {"leg_book", "leg_sell", "idle"} /\ op'.slOk = FALSE
  <2>1. ASSUME NEW b \in BOOLEAN, AfterStop(b)
        PROVE  op' \in Op /\ op'.at \in {"leg_book", "leg_sell"} /\ op'.slOk = FALSE
    BY <1>3, <2>1 DEF AfterStop, IInv, TypeOK, Op, Places
  <2> QED BY <1>2, <2>1, OpDone
<1>5. row' \in {row, Degraded(row)} BY DEF LegStop, Cancel
<1>6. BookKeeps /\ faults' \in 0..MaxFaults
  <2>1. CASE UNCHANGED <<book, faults>> BY <2>1, BookUnchanged DEF IInv, TypeOK
  <2>2. CASE Cancel(row.sl, TRUE, TRUE) BY <2>2, CancelKeeps
  <2> QED BY <2>1, <2>2 DEF LegStop, Cancel
<1>7. {"leg_book", "leg_sell", "idle"} \subseteq Quiet BY DEF Quiet, Places, StopPlaced
<1> QED BY <1>1, <1>4, <1>5, <1>6, <1>7, CallStep

LEMMA SoldNowType == ASSUME IInv PROVE SoldNow \in Nat /\ (SoldNow > 0 \/ row.qty = 0)
<1>1. LegQty \in Nat /\ LegQty > 0 /\ row.qty \in Nat BY Numbers DEF IInv, TypeOK, Row
<1>2. \E x \in {LegQty, row.qty} : \A y \in {LegQty, row.qty} : x <= y BY <1>1
<1>3. SoldNow \in {LegQty, row.qty} BY <1>2 DEF SoldNow, Min
<1> QED BY <1>1, <1>3

\* place_real_exit.
LEMMA SellStep ==
    ASSUME IInv, NEW q \in Nat, NEW ok \in Quiet, NEW failed \in Quiet, Sell(q, ok, failed),
           UNCHANGED <<bought, book, row, mirror, paper, swing, t1>>,
           op.at \notin {"idle", "entry_book"}, op.slOk = FALSE
    PROVE  IInv'
<1>1. faults' \in 0..MaxFaults BY FaultType DEF Sell
<1>2. sold' \in Nat /\ adrift' \in BOOLEAN
  <2>1. \/ sold' = sold \/ sold' = sold + q
        \/ \E k \in 0..(q - 1) : sold' = sold + k
    BY DEF Sell
  <2>2. sold \in Nat /\ adrift \in BOOLEAN
    BY DEF IInv, TypeOK
  <2>3. UNCHANGED adrift \/ adrift' = TRUE
    BY DEF Sell
  <2>4. sold' \in Nat
    BY <2>1, <2>2
  <2> QED BY <2>2, <2>3, <2>4
<1>3. Scalars' BY <1>1, <1>2 DEF IInv, TypeOK, Scalars
<1>4. BookKeeps /\ RowKnown(row') /\ RowKnown(mirror') /\ row'.qty > 0
  BY BookUnchanged, Rows DEF IInv, HasRow
<1>5. \/ op' = [op EXCEPT !.at = ok]
      \/ \E why \in {"short", "other", "t1"} : op' = [op EXCEPT !.at = failed, !.why = why]
  BY DEF Sell
<1>6. op' \in Op /\ op'.at \in {ok, failed} /\ op'.slOk = FALSE
  <2>1. op \in Op /\ ok \in Places /\ failed \in Places BY DEF IInv, TypeOK, Quiet
  <2> QED BY <1>5, <2>1 DEF Op
<1> QED BY <1>3, <1>4, <1>6, QuietStep

LEMMA LegSellKeeps == ASSUME IInv, LegSell PROVE IInv'
<1>1. op.at = "leg_sell" /\ op.slOk = FALSE BY NotSlOk DEF LegSell, At
<1>2. "leg_book" \in Quiet /\ "leg_unsold" \in Quiet BY DEF Quiet, Places, StopPlaced
<1>3. row.qty > 0 BY <1>1 DEF IInv, HasRow
<1>4. SoldNow \in Nat BY <1>3, SoldNowType DEF IInv, TypeOK, Row
<1> QED BY <1>1, <1>2, <1>4, SellStep DEF LegSell

LEMMA LegUnsoldKeeps == ASSUME IInv, LegUnsold PROVE IInv'
<1>1. op.at = "leg_unsold" /\ op.slOk = FALSE BY NotSlOk DEF LegUnsold, At
<1>2. UNCHANGED <<bought, adrift, sold, row, mirror, paper, swing>> /\ FlagT1 BY DEF LegUnsold
<1>3. row.qty \in 1..MaxBought /\ row.level \in 0..MaxLevel
  BY <1>1 DEF IInv, HasRow, TypeOK, Row
<1>4. CASE Rest("sl", row.qty, row.level, "leg_restored", "leg_unrestored")
  <2>1. "leg_restored" \in Places /\ "leg_restored" \in StopPlaced /\ "leg_unrestored" \in Quiet
    BY DEF Places, StopPlaced, Quiet
  <2> QED BY <1>1, <1>2, <1>3, <1>4, <2>1, RestStep
<1>5. CASE Done /\ UNCHANGED <<book, faults>>
  <2>1. "idle" \in Quiet BY DEF Quiet, Places, StopPlaced
  <2> QED BY <1>1, <1>2, <1>5, <2>1, OpDone, StillStep
<1> QED BY <1>4, <1>5 DEF LegUnsold

LEMMA LegRestoredKeeps == ASSUME IInv, LegRestored PROVE IInv'
<1>1. /\ UNCHANGED <<bought, adrift, sold, book, mirror, paper, swing, t1, faults>> /\ op.at = "leg_restored"
      /\ row' = WithStop(row, row.level) /\ Done
  BY DEF LegRestored, kotak, Commit, At
<1>2. row.level \in 0..MaxLevel BY DEF IInv, TypeOK, Row
<1>3. RowKnown(row') BY <1>1, <1>2, RowWithStop DEF StopPlaced
<1>4. Scalars' /\ BookKeeps BY <1>1, ScalarsOf, BookUnchanged DEF IInv, TypeOK
<1> QED BY <1>1, <1>3, <1>4, Rows, DoneStep

LEMMA LegUnrestoredKeeps == ASSUME IInv, LegUnrestored PROVE IInv'
<1>1. /\ UNCHANGED <<bought, adrift, sold, book, mirror, paper, swing, faults>> /\ FlagT1
      /\ row' = NoStop(row) /\ Done
  BY DEF LegUnrestored, kotak, Commit
<1>2. Scalars' /\ BookKeeps BY <1>1, ScalarsOf, BookUnchanged DEF IInv, TypeOK
<1> QED BY <1>1, <1>2, Rows, DoneStep

LEMMA LegBookKeeps == ASSUME IInv, LegBook PROVE IInv'
<1>1. UNCHANGED <<bought, adrift, sold, book, paper, swing, t1, faults>> /\ op.at = "leg_book"
  BY DEF LegBook, kotak, At
<1>2. Scalars' /\ BookKeeps BY <1>1, ScalarsOf, BookUnchanged DEF IInv, TypeOK
<1>3. row.qty > 0 /\ SoldNow \in Nat /\ op.slOk = FALSE
  BY <1>1, SoldNowType, NotSlOk DEF IInv, HasRow, TypeOK, Row
<1>4. CASE row.qty <= SoldNow
  <2>1. row' = NoRow /\ mirror' = NoRow /\ Done BY <1>4 DEF LegBook, Push
  <2> QED BY <1>2, <2>1, Rows, DoneStep
<1>5. CASE row.qty > SoldNow
  <2>1. /\ row' = [row EXCEPT !.qty = row.qty - SoldNow, !.legs = row.legs \ {op.leg}]
        /\ mirror' = row' /\ (Go("leg_newstop") \/ Go("leg_sweep"))
    BY <1>3, <1>5, SMTT(30) DEF LegBook, Push, IInv, TypeOK, Row
  <2>2. row \in Row /\ IdsKnown(row) BY DEF IInv, TypeOK
  <2>3. row' \in Row /\ row'.qty > 0 /\ row'.sl = row.sl /\ row'.target = row.target
    <3>1. row.qty \in 0..MaxBought /\ row.legs \in SUBSET (1..3) BY <2>2 DEF Row
    <3>2. row.qty - SoldNow \in 0..MaxBought /\ row.qty - SoldNow > 0 BY <1>3, <1>5, <3>1, Numbers
    <3>3. row.legs \ {op.leg} \in SUBSET (1..3) BY <3>1
    <3> QED BY <2>1, <2>2, <3>2, <3>3 DEF Row
  <2>4. RowKnown(row') /\ RowKnown(mirror') BY <2>1, <2>2, <2>3 DEF RowKnown, IdsKnown
  <2>5. op' \in Op /\ op'.at \in {"leg_newstop", "leg_sweep"} /\ op'.slOk = FALSE
    BY <1>3, <2>1, OpGo DEF Places
  <2>6. OpKnown' BY <2>5 DEF OpKnown, StopPlaced
  <2>7. BehindStop' BY <2>5 DEF BehindStop
  <2> QED BY <1>2, <2>3, <2>4, <2>5, <2>6, <2>7, Step0
<1>6. row.qty \in Nat BY DEF IInv, TypeOK, Row
<1> QED BY <1>3, <1>4, <1>5, <1>6

LEMMA LegNewStopKeeps == ASSUME IInv, LegNewStop PROVE IInv'
<1>1. op.at = "leg_newstop" /\ op.slOk = FALSE BY NotSlOk DEF LegNewStop, At
<1>2. row.qty \in 1..MaxBought /\ row.level \in 0..MaxLevel
  BY <1>1 DEF IInv, HasRow, TypeOK, Row
<1>3. "leg_newstop_ok" \in Places /\ "leg_newstop_ok" \in StopPlaced /\ "leg_newstop_failed" \in Quiet
  BY DEF Places, StopPlaced, Quiet
<1> QED BY <1>1, <1>2, <1>3, RestStep DEF LegNewStop

LEMMA LegNewStopOkKeeps == ASSUME IInv, LegNewStopOk PROVE IInv'
<1>1. /\ UNCHANGED <<bought, adrift, sold, book, mirror, paper, swing, t1, faults>>
      /\ op.at = "leg_newstop_ok" /\ row' = WithStop(row, row.level)
      /\ op' = [op EXCEPT !.at = "leg_sweep", !.slOk = TRUE]
  BY DEF LegNewStopOk, kotak, Commit, At
<1>2. Scalars' /\ BookKeeps BY <1>1, ScalarsOf, BookUnchanged DEF IInv, TypeOK
<1>3. row.level \in 0..MaxLevel /\ row.qty > 0 BY <1>1 DEF IInv, HasRow, TypeOK, Row
<1>4. RowKnown(row') /\ row'.qty = row.qty /\ row'.sl = op.order
  BY <1>1, <1>3, RowWithStop DEF StopPlaced
<1>5. op' \in Op /\ op'.at = "leg_sweep" BY <1>1 DEF IInv, TypeOK, Op, Places
<1>6. Confirmed(op.order) BY <1>1 DEF IInv, BehindStop
<1>7. Confirmed(row.sl)' BY <1>1, <1>4, <1>6 DEF Confirmed, Known, Ids
<1>8. OpKnown' BY <1>5 DEF OpKnown, StopPlaced
<1>9. BehindStop' BY <1>5, <1>7 DEF BehindStop
<1> QED BY <1>1, <1>2, <1>3, <1>4, <1>5, <1>8, <1>9, Rows, Step0

LEMMA LegNewStopFailedKeeps == ASSUME IInv, LegNewStopFailed PROVE IInv'
<1>1. /\ UNCHANGED <<bought, adrift, sold, book, mirror, paper, swing, faults>> /\ FlagT1
      /\ op.at = "leg_newstop_failed" /\ row' = Degraded(NoStop(row)) /\ Go("leg_sweep")
  BY DEF LegNewStopFailed, kotak, Commit, At
<1>2. Scalars' /\ BookKeeps BY <1>1, ScalarsOf, BookUnchanged DEF IInv, TypeOK
<1>3. row.qty > 0 /\ op.slOk = FALSE BY <1>1, NotSlOk DEF IInv, HasRow
<1>4. RowKnown(row') /\ RowKnown(mirror') /\ row'.qty > 0 BY <1>1, <1>3, Rows
<1>5. op' \in Op /\ op'.at = "leg_sweep" /\ op'.slOk = FALSE BY <1>1, <1>3, OpGo DEF Places
<1>6. OpKnown' BY <1>5 DEF OpKnown, StopPlaced
<1>7. BehindStop' BY <1>5 DEF BehindStop
<1> QED BY <1>2, <1>4, <1>5, <1>6, <1>7, Step0

\* Only targets are cancelled here: the stop of the leg stands.
LEMMA LegSweepKeeps == ASSUME IInv, LegSweep PROVE IInv'
<1>1. UNCHANGED <<bought, adrift, sold, row, mirror, paper, swing, t1>> /\ op.at = "leg_sweep"
  BY DEF LegSweep, At
<1>2. Go(AfterSweep) BY DEF LegSweep, Cancel
<1>3. BookKeeps /\ StopsStand /\ faults' \in 0..MaxFaults
  <2>1. CASE row.target # NoOrder
    <3>1. Cancel(row.target, TRUE, TRUE) BY <2>1 DEF LegSweep, Cancel
    <3>2. Known(row.target, "target") BY <2>1 DEF IInv, IdsKnown
    <3> QED BY <3>1, <3>2, CancelKeeps
  <2>2. CASE row.target = NoOrder
    <3>1. Sweep("target") BY <2>2 DEF LegSweep
    <3>2. BookKeeps /\ StopsStand BY <3>1, SweepKeeps DEF IInv
    <3>3. faults' \in 0..MaxFaults BY <3>1, FaultType DEF Sweep
    <3> QED BY <3>2, <3>3
  <2> QED BY <2>1, <2>2
<1>4. Scalars' BY <1>1, <1>3, ScalarsOf
<1>5. RowKnown(row') /\ RowKnown(mirror') /\ row'.qty > 0 BY <1>1, Rows DEF IInv, HasRow
<1>6. CASE op.slOk /\ AfterSweep = "leg_nexttarget"
  <2>1. op' \in Op /\ op'.at = "leg_nexttarget" BY <1>2, <1>6, OpGo DEF Places
  <2>2. Confirmed(row.sl) BY <1>1, <1>6 DEF IInv, BehindStop
  <2>3. Confirmed(row.sl)'
    <3>1. TypeOK BY DEF IInv
    <3>2. \A o : Confirmed(o) => Confirmed(o)' BY <1>3, <3>1, KnownStays
    <3> QED BY <1>1, <2>2, <3>2 DEF Confirmed, Known
  <2>4. OpKnown' BY <2>1 DEF OpKnown, StopPlaced
  <2>5. BehindStop' BY <2>1, <2>3 DEF BehindStop
  <2> QED BY <1>3, <1>4, <1>5, <2>1, <2>4, <2>5, Step0
<1>7. CASE AfterSweep = "leg_end"
  <2>1. "leg_end" \in Quiet BY DEF Quiet, Places, StopPlaced
  <2> QED BY <1>2, <1>3, <1>4, <1>5, <1>7, <2>1, GoStep
<1> QED BY <1>6, <1>7 DEF AfterSweep

LEMMA LegNextTargetKeeps == ASSUME IInv, LegNextTarget PROVE IInv'
<1>1. op.at = "leg_nexttarget" BY DEF LegNextTarget, At
<1>2. "target_ok" \in Places /\ "leg_end" \in Quiet /\ NoLevel \in 0..MaxLevel
  BY DEF Places, StopPlaced, Quiet, NoLevel
<1> QED BY <1>1, <1>2, Numbers, RestStep DEF LegNextTarget

LEMMA LegEndKeeps == ASSUME IInv, LegEnd PROVE IInv'
<1>1. /\ UNCHANGED <<bought, adrift, sold, book, paper, swing, t1, faults>> /\ Done
      /\ mirror' = [row EXCEPT !.target = NoOrder] /\ row' \in {row, mirror'}
  BY DEF LegEnd, kotak
<1>2. Scalars' /\ BookKeeps BY <1>1, ScalarsOf, BookUnchanged DEF IInv, TypeOK
<1>3. row \in Row /\ IdsKnown(row) BY DEF IInv, TypeOK
<1>4. mirror' \in Row /\ mirror'.sl = row.sl /\ mirror'.target = NoOrder
  BY <1>1, <1>3 DEF Row, NoOrder
<1>5. RowKnown(mirror') BY <1>3, <1>4 DEF RowKnown, IdsKnown
<1> QED BY <1>1, <1>2, <1>5, Rows, DoneStep

LEMMA LegKeeps == ASSUME IInv, Leg PROVE IInv'
BY LegTargetKeeps, LegStopKeeps, LegSellKeeps, LegUnsoldKeeps, LegRestoredKeeps,
   LegUnrestoredKeeps, LegBookKeeps, LegNewStopKeeps, LegNewStopOkKeeps,
   LegNewStopFailedKeeps, LegSweepKeeps, LegNextTargetKeeps, LegEndKeeps DEF Leg

-----------------------------------------------------------------------------
(* The exit. *)

LEMMA PaperExitKeeps == ASSUME IInv, PaperExit PROVE IInv'
<1>1. /\ UNCHANGED <<bought, adrift, sold, book, row, mirror, swing, t1, faults>> /\ op.at = "idle"
      /\ paper' = Flat
  BY DEF PaperExit, At, kotak
<1>2. op.slOk = FALSE BY <1>1, NotSlOk
<1>3. Scalars' BY <1>1, Records DEF IInv, TypeOK, Scalars
<1>4. BookKeeps /\ RowKnown(row') /\ RowKnown(mirror') BY <1>1, BookUnchanged, Rows DEF IInv
<1>5. CASE row.qty > 0 /\ ToExit BY <1>1, <1>2, <1>3, <1>4, <1>5, LeaveStep
<1>6. CASE UNCHANGED op
  <2>1. op' \in Op /\ op'.at \in Quiet
    BY <1>1, <1>6 DEF IInv, TypeOK, Quiet, Places, StopPlaced
  <2> QED BY <1>1, <1>2, <1>3, <1>4, <1>6, <2>1, QuietStep
<1> QED BY <1>5, <1>6 DEF PaperExit

LEMMA ExitCheckKeeps == ASSUME IInv, ExitCheck PROVE IInv'
<1>1. UNCHANGED <<bought, adrift, sold, book, paper, swing, t1>> /\ op.at = "exit_check"
  BY DEF ExitCheck, At, kotak
<1>2. faults' \in 0..MaxFaults BY FaultType DEF ExitCheck, Read
<1>3. Scalars' /\ BookKeeps BY <1>1, <1>2, ScalarsOf, BookUnchanged DEF IInv
<1>4. CASE Go("exit_stop") /\ UNCHANGED <<row, mirror>>
  <2>1. "exit_stop" \in Quiet /\ op.slOk = FALSE
    BY <1>1, NotSlOk DEF Quiet, Places, StopPlaced
  <2>2. RowKnown(row') /\ RowKnown(mirror') /\ row'.qty > 0
    BY <1>1, <1>4, Rows DEF IInv, HasRow
  <2> QED BY <1>3, <1>4, <2>1, <2>2, GoStep
<1>5. CASE Push(NoRow) /\ Done BY <1>3, <1>5, Rows, DoneStep DEF Push
<1> QED BY <1>4, <1>5 DEF ExitCheck, Read

\* exit_stop and exit_target: cancel an order of the row, whatever the answer.
LEMMA ExitCancel ==
    ASSUME IInv, NEW o, NEW pc \in Quiet,
           (Go(pc) /\ UNCHANGED <<book, faults>>) \/ (Cancel(o, TRUE, TRUE) /\ Go(pc)),
           UNCHANGED <<bought, adrift, sold, row, mirror, paper, swing, t1>>,
           op.at \notin {"idle", "entry_book"}, op.slOk = FALSE
    PROVE  IInv'
<1>1. BookKeeps /\ faults' \in 0..MaxFaults
  <2>1. CASE UNCHANGED <<book, faults>> BY <2>1, BookUnchanged DEF IInv, TypeOK
  <2>2. CASE Cancel(o, TRUE, TRUE) BY <2>2, CancelKeeps
  <2> QED BY <2>1, <2>2
<1>2. op' \in Op /\ op'.at = pc /\ op'.slOk = FALSE BY OpGo DEF Quiet
<1> QED BY <1>1, <1>2, CallStep

LEMMA ExitStopKeeps == ASSUME IInv, ExitStop PROVE IInv'
<1>1. op.at = "exit_stop" /\ op.slOk = FALSE BY NotSlOk DEF ExitStop, At
<1>2. "exit_target" \in Quiet BY DEF Quiet, Places, StopPlaced
<1>3. \/ Go("exit_target") /\ UNCHANGED <<book, faults>>
      \/ Cancel(row.sl, TRUE, TRUE) /\ Go("exit_target")
  BY DEF ExitStop, Cancel
<1> QED BY <1>1, <1>2, <1>3, ExitCancel DEF ExitStop

LEMMA ExitTargetKeeps == ASSUME IInv, ExitTarget PROVE IInv'
<1>1. op.at = "exit_target" /\ op.slOk = FALSE BY NotSlOk DEF ExitTarget, At
<1>2. "exit_sell" \in Quiet BY DEF Quiet, Places, StopPlaced
<1>3. \/ Go("exit_sell") /\ UNCHANGED <<book, faults>>
      \/ Cancel(row.target, TRUE, TRUE) /\ Go("exit_sell")
  BY DEF ExitTarget, Cancel
<1> QED BY <1>1, <1>2, <1>3, ExitCancel DEF ExitTarget

LEMMA ExitSellKeeps == ASSUME IInv, ExitSell PROVE IInv'
<1>1. op.at = "exit_sell" /\ op.slOk = FALSE BY NotSlOk DEF ExitSell, At
<1>2. "exit_book" \in Quiet /\ "exit_failed" \in Quiet BY DEF Quiet, Places, StopPlaced
<1>3. row.qty \in Nat BY Numbers DEF IInv, TypeOK, Row
<1> QED BY <1>1, <1>2, <1>3, SellStep DEF ExitSell

LEMMA ExitBookKeeps == ASSUME IInv, ExitBook PROVE IInv'
<1>1. /\ UNCHANGED <<bought, adrift, sold, book, paper, swing, t1, faults>>
      /\ row' = NoRow /\ mirror' = NoRow /\ Done
  BY DEF ExitBook, kotak, Push
<1>2. Scalars' /\ BookKeeps BY <1>1, ScalarsOf, BookUnchanged DEF IInv, TypeOK
<1> QED BY <1>1, <1>2, Rows, DoneStep

LEMMA ExitFailedKeeps == ASSUME IInv, ExitFailed PROVE IInv'
<1>1. UNCHANGED <<bought, adrift, sold, book, row, mirror, paper, swing, faults>> /\ FlagT1 /\ Done
  BY DEF ExitFailed, kotak
<1>2. Scalars' /\ BookKeeps BY <1>1, ScalarsOf, BookUnchanged DEF IInv, TypeOK
<1> QED BY <1>1, <1>2, Rows, DoneStep

LEMMA ExitKeeps == ASSUME IInv, Exit PROVE IInv'
BY ExitCheckKeeps, ExitStopKeeps, ExitTargetKeeps, ExitSellKeeps, ExitBookKeeps,
   ExitFailedKeeps DEF Exit

-----------------------------------------------------------------------------
(* The sync of a tick. *)

LEMMA TickKeeps == ASSUME IInv, Tick PROVE IInv'
<1>1. /\ UNCHANGED <<bought, adrift, sold, book, t1, faults>> /\ op.at = "idle" /\ row.qty > 0
      /\ \E s \in paper.stop..MaxLevel : paper' \in {paper, [paper EXCEPT !.stop = s]}
  BY DEF Tick, At, kotak
<1>2. paper \in Paper BY DEF IInv, TypeOK
<1>3. paper' \in Paper
  <2>1. ASSUME NEW s \in paper.stop..MaxLevel PROVE [paper EXCEPT !.stop = s] \in Paper
    <3>1. s \in Levels BY <1>2 DEF Paper, Levels
    <3> QED BY <1>2, <3>1 DEF Paper
  <2> QED BY <1>1, <1>2, <2>1
<1>4. BookKeeps /\ op.slOk = FALSE BY <1>1, BookUnchanged, NotSlOk DEF IInv
<1>5. CASE Push(NoRow) /\ swing' = TRUE /\ UNCHANGED op
  <2>1. Scalars' BY <1>1, <1>3, <1>5 DEF IInv, TypeOK, Scalars
  <2>2. op' \in Op /\ op'.at \in Quiet
    BY <1>1, <1>5 DEF IInv, TypeOK, Quiet, Places, StopPlaced
  <2>3. RowKnown(row') /\ RowKnown(mirror') BY <1>5, Rows DEF Push
  <2> QED BY <1>1, <1>4, <1>5, <2>1, <2>2, <2>3, QuietStep
<1>6. CASE (Go("sync_qty") \/ Go("sync_paper")) /\ UNCHANGED <<row, mirror, swing>>
  <2>1. Scalars' BY <1>1, <1>3, <1>6 DEF IInv, TypeOK, Scalars
  <2>2. "sync_qty" \in Quiet /\ "sync_paper" \in Quiet BY DEF Quiet, Places, StopPlaced
  <2>3. RowKnown(row') /\ RowKnown(mirror') /\ row'.qty > 0 BY <1>1, <1>6, Rows
  <2> QED BY <1>4, <1>6, <2>1, <2>2, <2>3, GoStep
<1> QED BY <1>5, <1>6 DEF Tick

LEMMA SyncPaperKeeps == ASSUME IInv, SyncPaper PROVE IInv'
<1>1. /\ UNCHANGED <<bought, adrift, sold, book, swing, t1>> /\ op.at = "sync_paper"
      /\ paper' \in {paper, [Flat EXCEPT !.long = TRUE]} /\ faults' \in 0..MaxFaults
  BY FaultType DEF SyncPaper, At, kotak, Read
<1>2. paper' \in Paper
  <2>1. [Flat EXCEPT !.long = TRUE] \in Paper BY Records DEF Paper
  <2> QED BY <1>1, <2>1 DEF IInv, TypeOK
<1>3. Scalars' /\ BookKeeps BY <1>1, <1>2, BookUnchanged DEF IInv, TypeOK, Scalars
<1>4. CASE Push(NoRow) /\ Done BY <1>3, <1>4, Rows, DoneStep DEF Push
<1>5. CASE Go("sync_qty") /\ UNCHANGED <<row, mirror>>
  <2>1. "sync_qty" \in Quiet /\ op.slOk = FALSE
    BY <1>1, NotSlOk DEF Quiet, Places, StopPlaced
  <2>2. RowKnown(row') /\ RowKnown(mirror') /\ row'.qty > 0
    BY <1>1, <1>5, Rows DEF IInv, HasRow
  <2> QED BY <1>3, <1>5, <2>1, <2>2, GoStep
<1> QED BY <1>4, <1>5 DEF SyncPaper, Read

LEMMA SyncQtyKeeps == ASSUME IInv, SyncQty PROVE IInv'
<1>1. /\ UNCHANGED <<bought, adrift, sold, book, paper, swing, t1, mirror>> /\ op.at = "sync_qty"
      /\ row' = row \/ (row' = [row EXCEPT !.qty = Net] /\ bought > 0 /\ Net > 0)
      /\ Go("sync_clock") \/ Go("sync_live")
      /\ faults' \in 0..MaxFaults
  BY FaultType DEF SyncQty, At, kotak, Read, Commit, AfterQty
<1>2. Scalars' /\ BookKeeps BY <1>1, ScalarsOf, BookUnchanged DEF IInv
<1>3. row \in Row /\ IdsKnown(row) /\ row.qty > 0 BY <1>1 DEF IInv, TypeOK, HasRow
<1>4. RowKnown(row') /\ row'.qty > 0
  <2>1. CASE row' = row BY <1>3, <2>1 DEF RowKnown
  <2>2. CASE row' = [row EXCEPT !.qty = Net] /\ Net > 0
    <3>1. bought \in 0..MaxBought /\ sold \in Nat /\ MaxBought \in Nat
      BY Numbers DEF IInv, TypeOK
    <3>2. Net \in 0..MaxBought BY <2>2, <3>1 DEF Net
    <3>3. row' \in Row /\ row'.qty > 0 /\ row'.sl = row.sl /\ row'.target = row.target
      BY <1>3, <2>2, <3>2 DEF Row
    <3> QED BY <1>3, <3>3 DEF RowKnown, IdsKnown
  <2> QED BY <1>1, <2>1, <2>2
<1>5. "sync_clock" \in Quiet /\ "sync_live" \in Quiet /\ op.slOk = FALSE
  BY <1>1, NotSlOk DEF Quiet, Places, StopPlaced
<1>6. RowKnown(mirror') BY <1>1, Rows
<1> QED BY <1>1, <1>2, <1>4, <1>5, <1>6, GoStep

LEMMA SyncLiveKeeps == ASSUME IInv, SyncLive PROVE IInv'
<1>1. /\ UNCHANGED <<bought, adrift, sold, book, paper, swing, t1, mirror>> /\ op.at = "sync_live"
      /\ row' \in {row, [NoStop(row) EXCEPT !.level = NoLevel]} /\ Go("sync_clock")
      /\ faults' \in 0..MaxFaults
  BY FaultType DEF SyncLive, At, kotak, Read, Commit
<1>2. Scalars' /\ BookKeeps BY <1>1, ScalarsOf, BookUnchanged DEF IInv
<1>3. row \in Row /\ IdsKnown(row) /\ row.qty > 0 BY <1>1 DEF IInv, TypeOK, HasRow
<1>4. RowKnown(NoStop(row)) /\ NoStop(row).qty = row.qty BY Rows
<1>5. RowKnown([NoStop(row) EXCEPT !.level = NoLevel])
      /\ [NoStop(row) EXCEPT !.level = NoLevel].qty = row.qty
  <2> DEFINE n == NoStop(row)
  <2>1. n \in Row /\ IdsKnown(n) /\ n.qty = row.qty BY <1>4 DEF RowKnown
  <2> HIDE DEF n
  <2>2. /\ [n EXCEPT !.level = NoLevel] \in Row /\ [n EXCEPT !.level = NoLevel].qty = row.qty
        /\ [n EXCEPT !.level = NoLevel].sl = n.sl /\ [n EXCEPT !.level = NoLevel].target = n.target
    BY <2>1 DEF Row, NoLevel
  <2>3. RowKnown([n EXCEPT !.level = NoLevel]) BY <2>1, <2>2 DEF RowKnown, IdsKnown
  <2> QED BY <2>2, <2>3 DEF n
<1>6. RowKnown(row') /\ row'.qty > 0 BY <1>1, <1>3, <1>5 DEF RowKnown
<1>7. "sync_clock" \in Quiet /\ op.slOk = FALSE
  BY <1>1, NotSlOk DEF Quiet, Places, StopPlaced
<1>8. RowKnown(mirror') BY <1>1, Rows
<1> QED BY <1>1, <1>2, <1>6, <1>7, <1>8, GoStep

LEMMA SyncClockKeeps == ASSUME IInv, SyncClock PROVE IInv'
<1>1. /\ UNCHANGED <<bought, adrift, sold, book, paper, swing, t1, faults, mirror>> /\ op.at = "sync_clock"
      /\ row' \in {row, Degraded(row)} /\ (ToExit \/ Done \/ Go("sync_open"))
  BY DEF SyncClock, At, kotak
<1>2. Scalars' /\ BookKeeps BY <1>1, ScalarsOf, BookUnchanged DEF IInv, TypeOK
<1>3. RowKnown(row') /\ RowKnown(mirror') /\ row'.qty > 0
  BY <1>1, Rows DEF IInv, HasRow
<1>4. "sync_open" \in Quiet /\ op.slOk = FALSE BY <1>1, NotSlOk DEF Quiet, Places, StopPlaced
<1> QED BY <1>1, <1>2, <1>3, <1>4, GoStep, LeaveStep

LEMMA SyncOpenKeeps == ASSUME IInv, SyncOpen PROVE IInv'
<1>1. /\ UNCHANGED <<bought, adrift, sold, book, row, paper, swing, t1, mirror>> /\ op.at = "sync_open"
      /\ (Done \/ Go("sync_cancel")) /\ faults' \in 0..MaxFaults
  BY FaultType DEF SyncOpen, At, kotak, Read
<1>2. Scalars' /\ BookKeeps BY <1>1, ScalarsOf, BookUnchanged DEF IInv
<1>3. RowKnown(row') /\ RowKnown(mirror') /\ row'.qty > 0
  BY <1>1, Rows DEF IInv, HasRow
<1>4. "sync_cancel" \in Quiet /\ op.slOk = FALSE BY <1>1, NotSlOk DEF Quiet, Places, StopPlaced
<1> QED BY <1>1, <1>2, <1>3, <1>4, GoStep, DoneStep

LEMMA SyncCancelKeeps == ASSUME IInv, SyncCancel PROVE IInv'
<1>1. /\ UNCHANGED <<bought, adrift, sold, row, paper, swing, t1, mirror>> /\ op.at = "sync_cancel"
      /\ (Done \/ Go("sync_place"))
  BY DEF SyncCancel, At, Cancel
<1>2. BookKeeps /\ faults' \in 0..MaxFaults
  <2>1. CASE Cancel(row.sl, TRUE, TRUE) BY <2>1, CancelKeeps
  <2>2. CASE Sweep("sl") BY <2>2, SweepKeeps, FaultType DEF Sweep, IInv
  <2> QED BY <2>1, <2>2 DEF SyncCancel, Cancel
<1>3. Scalars' BY <1>1, <1>2, ScalarsOf
<1>4. RowKnown(row') /\ RowKnown(mirror') /\ row'.qty > 0
  BY <1>1, Rows DEF IInv, HasRow
<1>5. "sync_place" \in Quiet /\ op.slOk = FALSE BY <1>1, NotSlOk DEF Quiet, Places, StopPlaced
<1> QED BY <1>1, <1>2, <1>3, <1>4, <1>5, GoStep, DoneStep

LEMMA SyncPlaceKeeps == ASSUME IInv, SyncPlace PROVE IInv'
<1>1. op.at = "sync_place" /\ op.slOk = FALSE BY NotSlOk DEF SyncPlace, At
<1>2. row.qty \in 1..MaxBought /\ paper.stop \in 0..MaxLevel
  BY <1>1 DEF IInv, HasRow, TypeOK, Row, Paper, Levels
<1>3. "sync_ok" \in Places /\ "sync_ok" \in StopPlaced /\ "sync_failed" \in Quiet
  BY DEF Places, StopPlaced, Quiet
<1> QED BY <1>1, <1>2, <1>3, RestStep DEF SyncPlace

LEMMA SyncOkKeeps == ASSUME IInv, SyncOk PROVE IInv'
<1>1. /\ UNCHANGED <<bought, adrift, sold, book, paper, swing, t1, faults>> /\ op.at = "sync_ok"
      /\ row' = WithStop(row, paper.stop) /\ mirror' = row' /\ Done
  BY DEF SyncOk, kotak, Push, At
<1>2. paper.stop \in 0..MaxLevel BY DEF IInv, TypeOK, Paper, Levels
<1>3. RowKnown(row') BY <1>1, <1>2, RowWithStop DEF StopPlaced
<1>4. Scalars' /\ BookKeeps BY <1>1, ScalarsOf, BookUnchanged DEF IInv, TypeOK
<1> QED BY <1>1, <1>3, <1>4, DoneStep

LEMMA SyncFailedKeeps == ASSUME IInv, SyncFailed PROVE IInv'
<1>1. /\ UNCHANGED <<bought, adrift, sold, book, paper, swing, faults>> /\ FlagT1 /\ op.at = "sync_failed"
      /\ row' = Degraded(NoStop(row)) /\ mirror' = row' /\ (ToExit \/ Done)
  BY DEF SyncFailed, kotak, Push, At
<1>2. Scalars' /\ BookKeeps BY <1>1, ScalarsOf, BookUnchanged DEF IInv, TypeOK
<1>3. RowKnown(row') /\ row'.qty > 0 BY <1>1, Rows DEF IInv, HasRow
<1>4. op.slOk = FALSE BY <1>1, NotSlOk
<1> QED BY <1>1, <1>2, <1>3, <1>4, LeaveStep

LEMMA SyncKeeps == ASSUME IInv, Sync PROVE IInv'
BY SyncPaperKeeps, SyncQtyKeeps, SyncLiveKeeps, SyncClockKeeps, SyncOpenKeeps,
   SyncCancelKeeps, SyncPlaceKeeps, SyncOkKeeps, SyncFailedKeeps DEF Sync

-----------------------------------------------------------------------------
(* Fills, the clock and a restart. *)

LEMMA FillKeeps == ASSUME IInv, NEW o \in Ids, Fill(o) PROVE IInv'
<1>0. TypeOK BY DEF IInv
<1>1. /\ UNCHANGED <<bought, adrift, row, mirror, paper, swing, t1, op, faults>>
      /\ book' = [book EXCEPT ![o].status = "filled"] /\ sold' = sold + book[o].qty
  BY DEF Fill
<1>2. BookKeeps /\ StopsStand BY <1>0, <1>1, StatusKeeps
<1>3. book[o].qty \in Nat
  <2>1. book[o] \in Order BY <1>0 DEF TypeOK, Ids
  <2> QED BY <2>1, Numbers DEF Order
<1>4. Scalars' BY <1>0, <1>1, <1>3 DEF TypeOK, Scalars
<1>5. RowKnown(row') /\ RowKnown(mirror') BY <1>1, Rows
<1>6. /\ \A p, kind : Known(p, kind) => Known(p, kind)'
      /\ \A p : Confirmed(p) => Confirmed(p)'
  BY <1>0, <1>2, KnownStays
<1>7. OpKnown'
  <2>1. OpKnown BY DEF IInv
  <2>2. Known(op.order, "sl") => Known(op.order, "sl")' BY <1>1, <1>6 DEF Known
  <2>3. Known(op.order, "target") => Known(op.order, "target")' BY <1>1, <1>6 DEF Known
  <2> QED BY <1>1, <2>1, <2>2, <2>3 DEF OpKnown
<1>8. BehindStop'
  <2>1. BehindStop BY DEF IInv
  <2>2. Confirmed(op.order) => Confirmed(op.order)' BY <1>1, <1>6 DEF Confirmed, Known
  <2>3. Confirmed(row.sl) => Confirmed(row.sl)' BY <1>1, <1>6 DEF Confirmed, Known
  <2> QED BY <1>1, <2>1, <2>2, <2>3 DEF BehindStop
<1>9. op' \in Op /\ (op'.at \in {"idle", "entry_book"} \/ row'.qty > 0)
  BY <1>0, <1>1 DEF TypeOK, IInv, HasRow
<1> QED BY <1>2, <1>4, <1>5, <1>7, <1>8, <1>9, Step0

LEMMA ClockRunsKeeps == ASSUME IInv, ClockRuns PROVE IInv'
<1>1. /\ UNCHANGED <<bought, adrift, sold, book, mirror, paper, swing, t1, op, faults>>
      /\ row' = [row EXCEPT !.clock = "over"]
  BY DEF ClockRuns, kotak
<1>2. row \in Row BY DEF IInv, TypeOK
<1>3. /\ row' \in Row /\ row'.qty = row.qty /\ row'.sl = row.sl /\ row'.target = row.target
  BY <1>1, <1>2 DEF Row
<1>4. TypeOK' BY <1>1, <1>3 DEF IInv, TypeOK
<1>5. HasRow' BY <1>1, <1>3 DEF IInv, HasRow
<1>6. IdsKnown(row)' /\ IdsKnown(mirror)' BY <1>1, <1>3 DEF IInv, IdsKnown, Known, Ids
<1>7. OpKnown' BY <1>1 DEF IInv, OpKnown, Known, Ids
<1>8. BehindStop' BY <1>1, <1>3 DEF IInv, BehindStop, Confirmed, Known, Ids
<1> QED BY <1>4, <1>5, <1>6, <1>7, <1>8 DEF IInv

LEMMA RestartKeeps == ASSUME IInv, Restart PROVE IInv'
<1>1. /\ UNCHANGED <<bought, sold, book, mirror, swing, t1>> /\ Done
      /\ row' = [mirror EXCEPT !.tagged = FALSE] /\ paper' \in {paper, Flat}
      /\ faults' \in 0..MaxFaults /\ adrift' \in BOOLEAN
  BY FaultType DEF Restart, Done, IInv, TypeOK
<1>2. Scalars' /\ BookKeeps BY <1>1, Records, BookUnchanged DEF IInv, TypeOK, Scalars
<1>3. RowKnown(mirror) /\ mirror \in Row BY Rows DEF RowKnown
<1>4. row' \in Row /\ row'.sl = mirror.sl /\ row'.target = mirror.target BY <1>1, <1>3 DEF Row
<1>5. RowKnown(row') /\ RowKnown(mirror') BY <1>1, <1>3, <1>4 DEF RowKnown, IdsKnown
<1> QED BY <1>1, <1>2, <1>5, DoneStep

-----------------------------------------------------------------------------
(* The invariant and the theorems. *)

LEMMA InitIInv == Init => IInv
<1> SUFFICES ASSUME Init PROVE IInv OBVIOUS
<1>1. TypeOK
  <2>1. book \in Seq(Order) /\ 0 \in 0..MaxBought /\ 0 \in 0..MaxFaults BY Numbers DEF Init
  <2> QED BY <2>1, Records DEF Init, TypeOK
<1>2. IdsKnown(row) /\ IdsKnown(mirror) BY Records DEF Init, IdsKnown
<1>3. op.at = "idle" /\ op.slOk = FALSE BY DEF Init, Idle
<1>4. HasRow /\ OpKnown /\ BehindStop BY <1>3 DEF HasRow, OpKnown, BehindStop, StopPlaced
<1> QED BY <1>1, <1>2, <1>4 DEF IInv

LEMMA StutterKeeps == ASSUME IInv, UNCHANGED vars PROVE IInv'
<1>1. UNCHANGED <<bought, adrift, sold, book, row, mirror, paper, swing, t1, op, faults>> BY DEF vars
<1>2. TypeOK' BY <1>1 DEF IInv, TypeOK
<1>3. HasRow' BY <1>1 DEF IInv, HasRow
<1>4. IdsKnown(row)' /\ IdsKnown(mirror)' BY <1>1 DEF IInv, IdsKnown, Known, Ids
<1>5. OpKnown' BY <1>1 DEF IInv, OpKnown, Known, Ids
<1>6. BehindStop' BY <1>1 DEF IInv, BehindStop, Confirmed, Known, Ids
<1> QED BY <1>2, <1>3, <1>4, <1>5, <1>6 DEF IInv

LEMMA NextKeeps == IInv /\ [Next]_vars => IInv'
<1> SUFFICES ASSUME IInv, [Next]_vars PROVE IInv' OBVIOUS
<1>1. CASE Enter \/ EnterOnPaperOnly BY <1>1, EnterKeeps
<1>2. CASE BookPaperLeg BY <1>2, BookPaperLegKeeps
<1>3. CASE PaperExit BY <1>3, PaperExitKeeps
<1>4. CASE Tick BY <1>4, TickKeeps
<1>5. CASE Step BY <1>5, EntryKeeps, LegKeeps, ExitKeeps, SyncKeeps DEF Step
<1>6. CASE ClockRuns BY <1>6, ClockRunsKeeps
<1>7. CASE Restart BY <1>7, RestartKeeps
<1>8. CASE \E o \in Ids : Fill(o) BY <1>8, FillKeeps
<1>9. CASE UNCHANGED vars BY <1>9, StutterKeeps
<1> QED BY <1>1, <1>2, <1>3, <1>4, <1>5, <1>6, <1>7, <1>8, <1>9 DEF Next

\* The row, its mirror, the order book and the call in progress keep their types, in
\* every order of calls, fills, faults and restarts.
THEOREM TypeCorrect == Spec => []TypeOK
<1>1. IInv => TypeOK BY DEF IInv
<1> QED BY <1>1, InitIInv, NextKeeps, PTL DEF Spec

\* Only two calls place a target.
NoNewTarget == \A o \in DOMAIN book' \ Ids : book'[o].kind # "target"

LEMMA CancelNoTarget ==
    ASSUME TypeOK, NEW o, UNCHANGED book \/ Cancel(o, TRUE, TRUE) PROVE NoNewTarget
<1>1. DOMAIN book' = DOMAIN book BY DEF Cancel
<1>2. DOMAIN book = Ids BY DEF TypeOK, Ids
<1> QED BY <1>1, <1>2 DEF NoNewTarget

LEMMA SweepNoTarget == ASSUME TypeOK, NEW kind, Sweep(kind) PROVE NoNewTarget
<1>1. DOMAIN book' = DOMAIN book \/ DOMAIN book' = Ids BY DEF Sweep
<1>2. DOMAIN book = Ids BY DEF TypeOK, Ids
<1> QED BY <1>1, <1>2 DEF NoNewTarget

LEMMA StopNoTarget ==
    ASSUME TypeOK, NEW q, NEW level, NEW ok, NEW failed, Rest("sl", q, level, ok, failed)
    PROVE  NoNewTarget
<1>1. CASE UNCHANGED book BY <1>1, CancelNoTarget
<1>2. CASE book' = Append(book, [kind |-> "sl", qty |-> q, level |-> level, status |-> "resting"])
  <2>1. Len(book) \in Nat /\ DOMAIN book' = 1..(Len(book) + 1)
        /\ book'[Len(book) + 1].kind = "sl"
    BY <1>2 DEF TypeOK
  <2> QED BY <2>1 DEF NoNewTarget, Ids
<1> QED BY <1>1, <1>2 DEF Rest

LEMMA StepTargets ==
    ASSUME TypeOK, Next PROVE NoNewTarget \/ EntryTargetCall \/ LegNextTarget
<1>1. CASE Enter \/ EnterOnPaperOnly \/ BookPaperLeg \/ PaperExit \/ Tick \/ ClockRuns \/ Restart
  <2>1. UNCHANGED book
    BY <1>1 DEF Enter, EnterOnPaperOnly, PaperEnters, BookPaperLeg, PaperExit, Tick, ClockRuns,
                Restart, kotak
  <2> QED BY <2>1, CancelNoTarget
<1>2. CASE Entry
  <2>1. CASE EntryStopCall BY <2>1, StopNoTarget DEF EntryStopCall
  <2>2. CASE EntryBook \/ EntryStopOk \/ EntryStopFailed \/ TargetOk \/ End
    <3>1. UNCHANGED book
      BY <2>2 DEF EntryBook, EntryStopOk, EntryStopFailed, TargetOk, End, kotak
    <3> QED BY <3>1, CancelNoTarget
  <2> QED BY <1>2, <2>1, <2>2 DEF Entry
<1>3. CASE Leg
  <2>1. CASE LegTarget \/ LegStop
    <3>1. UNCHANGED book \/ Cancel(row.target, TRUE, TRUE) \/ Cancel(row.sl, TRUE, TRUE)
      BY <2>1 DEF LegTarget, LegStop, Cancel
    <3> QED BY <3>1, CancelNoTarget
  <2>2. CASE LegUnsold \/ LegNewStop
    <3>1. UNCHANGED book \/ (\E ok, failed : Rest("sl", row.qty, row.level, ok, failed))
      BY <2>2 DEF LegUnsold, LegNewStop
    <3> QED BY <3>1, CancelNoTarget, StopNoTarget
  <2>3. CASE LegSweep
    <3>1. Sweep("target") \/ Cancel(row.target, TRUE, TRUE) BY <2>3 DEF LegSweep, Cancel
    <3> QED BY <3>1, CancelNoTarget, SweepNoTarget
  <2>4. CASE LegSell \/ LegRestored \/ LegUnrestored \/ LegBook \/ LegNewStopOk
             \/ LegNewStopFailed \/ LegEnd
    <3>1. UNCHANGED book
      BY <2>4 DEF LegSell, LegRestored, LegUnrestored, LegBook, LegNewStopOk, LegNewStopFailed,
                  LegEnd, kotak
    <3> QED BY <3>1, CancelNoTarget
  <2> QED BY <1>3, <2>1, <2>2, <2>3, <2>4 DEF Leg
<1>4. CASE Exit
  <2>1. UNCHANGED book \/ Cancel(row.target, TRUE, TRUE) \/ Cancel(row.sl, TRUE, TRUE)
    BY <1>4 DEF Exit, ExitCheck, ExitStop, ExitTarget, ExitSell, ExitBook, ExitFailed, Cancel, kotak
  <2> QED BY <2>1, CancelNoTarget
<1>5. CASE Sync
  <2>1. CASE SyncPlace BY <2>1, StopNoTarget DEF SyncPlace
  <2>2. CASE SyncCancel
    <3>1. Cancel(row.sl, TRUE, TRUE) \/ Sweep("sl") BY <2>2 DEF SyncCancel, Cancel
    <3> QED BY <3>1, CancelNoTarget, SweepNoTarget
  <2>3. CASE SyncPaper \/ SyncQty \/ SyncLive \/ SyncClock \/ SyncOpen \/ SyncOk \/ SyncFailed
    <3>1. UNCHANGED book
      BY <2>3 DEF SyncPaper, SyncQty, SyncLive, SyncClock, SyncOpen, SyncOk, SyncFailed, kotak
    <3> QED BY <3>1, CancelNoTarget
  <2> QED BY <1>5, <2>1, <2>2, <2>3 DEF Sync
<1>6. CASE \E o \in Ids : Fill(o)
  <2>1. DOMAIN book' = DOMAIN book BY <1>6 DEF Fill
  <2>2. DOMAIN book = Ids BY DEF TypeOK, Ids
  <2> QED BY <2>1, <2>2 DEF NoNewTarget
<1> QED BY <1>1, <1>2, <1>3, <1>4, <1>5, <1>6 DEF Next, Step

\* No naked target: both calls that place one come after the commit of a stop that Kotak
\* accepted for the row and that the bot has not cancelled since.
THEOREM TargetBehindStop == Spec => TargetOnlyBehindStop
<1> DEFINE Behind == \A o \in DOMAIN book' \ Ids :
                        book'[o].kind = "target" =>
                           row.sl \in Ids /\ book[row.sl].kind = "sl" /\ book[row.sl].status # "cancelled"
<1>1. IInv /\ [Next]_vars => [Behind]_vars
  <2> SUFFICES ASSUME IInv, Next PROVE Behind OBVIOUS
  <2>1. CASE NoNewTarget BY <2>1 DEF NoNewTarget
  <2>2. CASE EntryTargetCall \/ LegNextTarget
    <3>1. Confirmed(row.sl) BY <2>2 DEF EntryTargetCall, LegNextTarget, At, IInv, BehindStop
    <3> QED BY <3>1 DEF Confirmed, Known
  <2> QED BY <2>1, <2>2, StepTargets DEF IInv
<1> QED BY <1>1, InitIInv, NextKeeps, PTL DEF Spec, TargetOnlyBehindStop

-----------------------------------------------------------------------------
(* The row outlives its shares when the account holds no others.           *)
(* A stop reserves its shares, so with nothing else in the account Kotak   *)
(* refuses every target beside a stop that covers the row: no leg is ever  *)
(* taken for filled without a sell, and what the row and its mirror say is *)
(* never less than what is held. What a call has done and not yet written  *)
(* is said at the place where it has.                                      *)

\* Nobody else's shares of the symbol are in the account.
OnlyOurs == Manual = 0

Ours == ~swing /\ ~adrift

\* A stop at Kotak for all that is held, as long as something is.
Covers(o) == (Live(o) /\ Net <= book[o].qty) \/ Net <= 0

RowCovers ==
    /\ op.at \notin {"entry_book", "exit_book"} => Net <= row.qty
    /\ op.at \in {"entry_book", "entry_stop"} => Net <= Qty
    /\ op.at = "leg_book" => Net <= row.qty - SoldNow
    /\ op.at = "exit_book" => Net <= 0
MirrorCovers == op.at # "entry_book" => Net <= mirror.qty
NoTarget ==
    /\ row.target = NoOrder /\ mirror.target = NoOrder
    /\ ~op.inferred /\ op.at # "target_ok"
StopCovers ==
    /\ op.at \in StopPlaced => Covers(op.order)
    /\ op.at \in {"entry_target", "leg_nexttarget"} => Covers(row.sl)
    /\ op.at = "leg_sweep" /\ op.slOk => Covers(row.sl)

\* No row before the entry is booked; and no row, no mirror of one.
NoneLeft == (row.qty = 0 => mirror.qty = 0) /\ (op.at = "entry_book" => row.qty = 0)

Settled ==
    /\ NoneLeft
    /\ Ours => RowCovers /\ MirrorCovers /\ NoTarget /\ StopCovers

\* Where nothing is claimed beyond what the row and its mirror say.
Calm == Places \ (StopPlaced \cup {"entry_book", "entry_stop", "target_ok", "entry_target",
                                   "leg_nexttarget", "leg_sweep", "leg_book", "exit_book"})

LEMMA NetInt ==
    ASSUME IInv PROVE Net \in Int /\ Net <= MaxBought /\ row.qty \in Nat /\ mirror.qty \in Nat
BY Numbers DEF IInv, TypeOK, Net, Row

\* What resting orders reserve together is at least what each of them does.
LEMMA ReservedBound ==
    ASSUME IInv
    PROVE  Reserved \in Nat /\ \A o \in Ids : Live(o) => book[o].qty <= Reserved
<1> DEFINE O == Resting("sl") \cup Resting("target")
           w == [o \in Ids |-> book[o].qty]
           P(f) == f = [s \in SUBSET O |->
                          IF s = {} THEN 0
                          ELSE book[CHOOSE x \in s : TRUE].qty + f[s \ {CHOOSE x \in s : TRUE}]]
<1>0. \A o \in Ids : book[o] \in Order
  BY DEF IInv, TypeOK, Ids
<1>1. IsFiniteSet(O)
  <2>1. IsFiniteSet(Ids) /\ O \subseteq Ids
    BY FS_Interval DEF Ids, Resting, IInv, TypeOK
  <2> QED BY <2>1, FS_Subset
<1>2. \A o \in O : w[o] = book[o].qty /\ book[o].qty \in Nat
  <2>1. \A o \in O : o \in Ids BY DEF Resting
  <2> QED BY <1>0, <2>1, Numbers DEF Order
<1>3. \A o \in Ids : Live(o) => o \in O
  BY <1>0 DEF Resting, Order
<1> HIDE DEF O
<1>4. \A f : Sums(f, w, O) <=> P(f)
  <2> TAKE f
  <2>1. \A s \in SUBSET O : s # {} => w[AnyOf(s)] = book[CHOOSE x \in s : TRUE].qty
    BY <1>2 DEF AnyOf
  <2>2. [s \in SUBSET O |-> IF s = {} THEN 0 ELSE w[AnyOf(s)] + f[s \ {AnyOf(s)}]]
        = [s \in SUBSET O |->
             IF s = {} THEN 0
             ELSE book[CHOOSE x \in s : TRUE].qty + f[s \ {CHOOSE x \in s : TRUE}]]
    <3> HIDE DEF w
    <3> QED BY <2>1 DEF AnyOf
  <2> QED BY <2>2 DEF Sums
<1>5. \E f : P(f)
  <2>1. PICK f : Sums(f, w, O)
    <3> HIDE DEF w
    <3> QED BY <1>1, SumsExist
  <2> HIDE DEF w, P
  <2> QED BY <1>4, <2>1
<1>6. P(CHOOSE f : P(f))
  BY <1>5
<1>7. Reserved = (CHOOSE f : P(f))[O]
  BY DEF Reserved, MapThenSumSet, MapThenFoldSet, O
<1>8. PICK f : Sums(f, w, O) /\ Reserved = f[O]
  <2> HIDE DEF P
  <2> QED BY <1>4, <1>6, <1>7
<1>9. \A x \in O : w[x] \in Nat
  BY <1>2
<1>10. f[O] \in Nat /\ \A x \in O : w[x] <= f[O]
  <2> HIDE DEF w
  <2> QED BY <1>1, <1>8, <1>9, SumsBound
<1> QED BY <1>2, <1>3, <1>8, <1>10

\* Beside a stop that covers what is held there is no room for another sell.
LEMMA NoRoomBeside ==
    ASSUME IInv, OnlyOurs, NEW o, Covers(o), NEW q \in 1..MaxBought PROVE ~Room(q)
<1>1. Net \in Int /\ Reserved \in Nat /\ q \in Nat /\ q > 0
  BY NetInt, ReservedBound, Numbers
<1>2. CASE Net <= 0
  BY <1>1, <1>2 DEF Room, OnlyOurs
<1>3. CASE Live(o) /\ Net <= book[o].qty
  <2>1. book[o].qty <= Reserved /\ book[o].qty \in Int
    <3>1. o \in Ids /\ book[o] \in Order
      BY <1>3 DEF Live, IInv, TypeOK, Ids
    <3>2. book[o].qty \in 1..MaxBought
      BY <3>1 DEF Order
    <3> QED BY <1>3, <3>1, <3>2, ReservedBound, Numbers
  <2> QED BY <1>1, <1>3, <2>1 DEF Room, OnlyOurs
<1> QED BY <1>2, <1>3 DEF Covers

LEMMA GoOp ==
    ASSUME IInv, NEW pc, Go(pc)
    PROVE  /\ op'.at = pc /\ op'.order = op.order /\ op'.slOk = op.slOk
           /\ op'.inferred = op.inferred
BY DEF IInv, TypeOK, Go, Op

LEMMA DoneOp == ASSUME Done PROVE op'.at = "idle" /\ op'.slOk = FALSE /\ op'.inferred = FALSE
BY DEF Done, Idle

\* A call that leaves the shares alone and ends where nothing more is claimed.
LEMMA CalmStep ==
    ASSUME IInv, Settled, UNCHANGED <<bought, sold, adrift, swing>>,
           row'.qty = row.qty, row'.target \in {row.target, NoOrder},
           mirror'.qty \in {mirror.qty, row.qty}, mirror'.target \in {mirror.target, row.target, NoOrder},
           op.at \notin {"entry_book", "exit_book"},
           op'.at \in Calm \/ (op'.at = "leg_sweep" /\ op'.slOk = FALSE),
           op'.inferred => op.inferred \/ row.target # NoOrder
    PROVE  Settled'
<1>1. Net' = Net /\ (Ours' <=> Ours)
  BY DEF Net, Ours
<1>2. op'.at \notin StopPlaced \cup {"entry_book", "entry_stop", "target_ok", "entry_target",
                                    "leg_nexttarget", "leg_book", "exit_book"}
  BY DEF Calm, StopPlaced
<1>3. NoneLeft'
  BY <1>2 DEF Settled, NoneLeft
<1>4. ASSUME Ours PROVE RowCovers' /\ MirrorCovers' /\ NoTarget' /\ StopCovers'
  <2>1. Net <= row.qty /\ Net <= mirror.qty /\ NoTarget
    BY <1>4 DEF Settled, RowCovers, MirrorCovers
  <2>2. RowCovers' /\ MirrorCovers'
    BY <1>1, <1>2, <2>1 DEF RowCovers, MirrorCovers
  <2>3. NoTarget'
    BY <1>2, <2>1 DEF NoTarget
  <2>4. StopCovers'
    BY <1>2 DEF StopCovers, Calm
  <2> QED BY <2>2, <2>3, <2>4
<1> QED BY <1>1, <1>3, <1>4 DEF Settled

\* The row is dropped.
LEMMA DropStep ==
    ASSUME IInv, row' = NoRow, mirror' = NoRow, op'.at = "idle", op'.inferred = FALSE,
           Ours' => Net' <= 0
    PROVE  Settled'
<1>1. RowCovers' /\ MirrorCovers' <=> Net' <= 0
  BY Records DEF RowCovers, MirrorCovers
<1>2. NoTarget' /\ StopCovers'
  BY Records DEF NoTarget, StopCovers, StopPlaced
<1> QED BY <1>1, <1>2, Records DEF Settled, NoneLeft

\* An accepted stop covers what is held when it was asked for as many shares.
LEMMA PlaceStep ==
    ASSUME IInv, Settled, NEW q \in 1..MaxBought, NEW level, NEW ok \in StopPlaced, NEW failed \in Calm,
           Rest("sl", q, level, ok, failed), Ours => Net <= q,
           UNCHANGED <<bought, adrift, sold, row, mirror, swing>>,
           op.at \notin {"entry_book", "exit_book"}
    PROVE  Settled'
<1>1. CASE \E why \in {"short", "other", "cas", "t1"} : op' = [op EXCEPT !.at = failed, !.why = why]
  <2>1. op'.at = failed /\ op'.inferred = op.inferred
    BY <1>1 DEF IInv, TypeOK, Op
  <2> QED BY <2>1, CalmStep
<1>2. CASE /\ book' = Append(book, [kind |-> "sl", qty |-> q, level |-> level, status |-> "resting"])
           /\ op' = [op EXCEPT !.at = ok, !.order = Len(book) + 1]
  <2>1. op'.at = ok /\ op'.order = Len(book) + 1 /\ op'.inferred = op.inferred /\ op'.slOk = op.slOk
    BY <1>2 DEF IInv, TypeOK, Op
  <2>2. /\ Len(book') = Len(book) + 1 /\ Len(book) \in Nat
        /\ book'[Len(book) + 1].qty = q /\ book'[Len(book) + 1].status = "resting"
    BY <1>2 DEF IInv, TypeOK
  <2>3. Net' = Net /\ (Ours' <=> Ours)
    BY DEF Net, Ours
  <2>4. ASSUME Ours PROVE RowCovers' /\ MirrorCovers' /\ NoTarget' /\ StopCovers'
    <3>1. Net <= row.qty /\ Net <= mirror.qty /\ NoTarget
      BY <2>4 DEF Settled, RowCovers, MirrorCovers
    <3>2. RowCovers' /\ MirrorCovers' /\ NoTarget'
      BY <2>1, <2>3, <3>1 DEF RowCovers, MirrorCovers, NoTarget, StopPlaced
    <3>3. Covers(op.order)'
      <4>1. op'.order \in Ids' BY <2>1, <2>2 DEF Ids
      <4>2. Live(op.order)' BY <2>1, <2>2, <4>1 DEF Live
      <4> QED BY <2>1, <2>2, <2>3, <2>4, <4>2 DEF Covers
    <3>4. StopCovers'
      BY <2>1, <3>3 DEF StopCovers, StopPlaced
    <3> QED BY <3>2, <3>3, <3>4
  <2>5. NoneLeft'
    BY <2>1 DEF Settled, NoneLeft, StopPlaced
  <2> QED BY <2>3, <2>4, <2>5 DEF Settled
<1> QED BY <1>1, <1>2 DEF Rest

\* The entry.
LEMMA EnterSettled == ASSUME IInv, IInv', Settled, Enter \/ EnterOnPaperOnly PROVE Settled'
<1>1. PaperEnters
  BY DEF Enter, EnterOnPaperOnly
<1>2. UNCHANGED <<sold, row, mirror, swing>> /\ op.at = "idle" /\ "idle" \in Calm
  BY <1>1 DEF PaperEnters, At, Calm, Places, StopPlaced
<1>3. CASE UNCHANGED <<bought, adrift, op>>
  BY <1>2, <1>3, CalmStep
<1>4. CASE UNCHANGED op /\ adrift' = TRUE
  BY <1>2, <1>4 DEF Settled, NoneLeft, Ours
<1>6. CASE /\ adrift' = TRUE /\ row.qty = 0
           /\ \E c \in BOOLEAN : op' = [op EXCEPT !.at = "entry_book", !.chan = c]
  BY <1>2, <1>6 DEF Settled, NoneLeft, Ours
<1>5. CASE /\ bought' = bought + Qty /\ UNCHANGED adrift /\ row.qty = 0
           /\ \E c \in BOOLEAN : op' = [op EXCEPT !.at = "entry_book", !.chan = c]
  <2>1. op'.at = "entry_book" /\ op'.inferred = op.inferred
    BY <1>5 DEF IInv, TypeOK, Op
  <2>2. (Ours' <=> Ours) /\ Net' = Net + Qty /\ Net \in Int
    <3>1. Ours' <=> Ours
      BY <1>2, <1>5 DEF Ours
    <3>2. bought \in Int /\ sold \in Int
      BY Numbers DEF IInv, TypeOK
    <3> QED BY <1>2, <1>5, <3>1, <3>2 DEF Net
  <2>3. ASSUME Ours PROVE RowCovers' /\ MirrorCovers' /\ NoTarget' /\ StopCovers'
    <3>1. Net <= 0 /\ NoTarget
      BY <1>2, <1>5, <2>3 DEF Settled, RowCovers
    <3>2. Net' <= Qty
      BY <2>2, <3>1
    <3>3. RowCovers' /\ MirrorCovers'
      BY <2>1, <3>2 DEF RowCovers, MirrorCovers
    <3> QED BY <1>2, <2>1, <3>1, <3>3 DEF NoTarget, StopCovers, StopPlaced
  <2> QED BY <1>2, <1>5, <2>2, <2>3 DEF Settled, NoneLeft
<1> QED BY <1>3, <1>4, <1>5, <1>6 DEF Enter, EnterOnPaperOnly

LEMMA EntrySettled == ASSUME IInv, IInv', Settled, OnlyOurs, Entry PROVE Settled'
<1>1. CASE EntryBook
  <2>1. /\ UNCHANGED <<bought, adrift, sold, swing>> /\ op.at = "entry_book" /\ Go("entry_stop")
        /\ row' = NewRow /\ mirror' = NewRow
    BY <1>1 DEF EntryBook, At, Push, kotak
  <2>2. op'.at = "entry_stop" /\ op'.inferred = op.inferred
    BY <2>1, GoOp
  <2>3. (Ours' <=> Ours) /\ Net' = Net
    BY <2>1 DEF Ours, Net
  <2>4. ASSUME Ours PROVE RowCovers' /\ MirrorCovers' /\ NoTarget' /\ StopCovers'
    <3>1. Net <= Qty /\ NoTarget
      BY <2>1, <2>4 DEF Settled, RowCovers
    <3>2. RowCovers' /\ MirrorCovers'
      BY <2>1, <2>2, <2>3, <3>1, Records DEF RowCovers, MirrorCovers
    <3>3. NoTarget' /\ StopCovers'
      BY <2>1, <2>2, <3>1, Records DEF NoTarget, StopCovers, StopPlaced
    <3> QED BY <3>2, <3>3
  <2> QED BY <2>1, <2>2, <2>3, <2>4 DEF Settled, NoneLeft
<1>2. CASE EntryStopCall
  <2>1. op.at = "entry_stop" /\ UNCHANGED <<bought, adrift, sold, row, mirror, swing>>
    BY <1>2 DEF EntryStopCall, At
  <2>2. Ours => Net <= Qty
    BY <2>1 DEF Settled, RowCovers
  <2>3. "entry_stop_ok" \in StopPlaced /\ "entry_stop_failed" \in Calm
    BY DEF Calm, Places, StopPlaced
  <2> QED BY <1>2, <2>1, <2>2, <2>3, Numbers, PlaceStep DEF EntryStopCall
<1>3. CASE EntryStopOk
  <2>1. /\ UNCHANGED <<bought, adrift, sold, book, swing>> /\ op.at = "entry_stop_ok" /\ Go("entry_target")
        /\ row' = WithStop(row, paper.stop) /\ mirror' = row'
    BY <1>3 DEF EntryStopOk, At, Push, kotak
  <2>2. op'.at = "entry_target" /\ op'.inferred = op.inferred
    BY <2>1, GoOp
  <2>3. row'.qty = row.qty /\ row'.sl = op.order /\ row'.target = row.target
    <3>1. paper.stop \in 0..MaxLevel BY DEF IInv, TypeOK, Paper, Levels
    <3> QED BY <2>1, <3>1, RowFacts DEF IInv, TypeOK
  <2>4. (Ours' <=> Ours) /\ Net' = Net
    BY <2>1 DEF Ours, Net
  <2>5. ASSUME Ours PROVE RowCovers' /\ MirrorCovers' /\ NoTarget' /\ StopCovers'
    <3>1. Net <= row.qty /\ NoTarget /\ Covers(op.order)
      BY <2>1, <2>5 DEF Settled, RowCovers, StopCovers, StopPlaced
    <3>2. RowCovers' /\ MirrorCovers' /\ NoTarget'
      BY <2>1, <2>2, <2>3, <2>4, <3>1 DEF RowCovers, MirrorCovers, NoTarget
    <3>3. Covers(row.sl)'
      BY <2>1, <2>3, <2>4, <3>1 DEF Covers, Live, Ids
    <3> QED BY <2>2, <3>2, <3>3 DEF StopCovers, StopPlaced
  <2> QED BY <2>1, <2>2, <2>3, <2>4, <2>5 DEF Settled, NoneLeft
<1>4. CASE EntryStopFailed
  <2>1. /\ UNCHANGED <<bought, adrift, sold, mirror, swing>> /\ op.at = "entry_stop_failed"
        /\ row' \in {row, Degraded(row)} /\ (Go("exit_check") \/ Done)
    BY <1>4 DEF EntryStopFailed, At, Commit, kotak, ToExit
  <2>2. row'.qty = row.qty /\ row'.target = row.target
    BY <2>1, RowFacts DEF IInv, TypeOK
  <2>3. op'.at \in {"exit_check", "idle"} /\ (op'.inferred => op.inferred)
    BY <2>1, GoOp, DoneOp
  <2>4. {"exit_check", "idle"} \subseteq Calm
    BY DEF Calm, Places, StopPlaced
  <2> QED BY <2>1, <2>2, <2>3, <2>4, CalmStep
<1>5. CASE EntryTargetCall
  <2>1. op.at = "entry_target" /\ UNCHANGED <<bought, adrift, sold, row, mirror, swing>>
    BY <1>5 DEF EntryTargetCall, At
  <2>2. {"end", "idle"} \subseteq Calm
    BY DEF Calm, Places, StopPlaced
  <2>3. CASE Done
    BY <2>1, <2>2, <2>3, DoneOp, CalmStep
  <2>4. CASE \E why \in {"short", "other", "cas", "t1"} : op' = [op EXCEPT !.at = "end", !.why = why]
    <3>1. op'.at = "end" /\ op'.inferred = op.inferred
      BY <2>4 DEF IInv, TypeOK, Op
    <3> QED BY <2>1, <2>2, <3>1, CalmStep
  <2>5. CASE Room(TargetQty) /\ op' = [op EXCEPT !.at = "target_ok", !.order = Len(book) + 1]
    <3>1. ~Ours
      <4> SUFFICES ASSUME Ours PROVE FALSE
        OBVIOUS
      <4>1. Covers(row.sl)
        BY <2>1 DEF Settled, StopCovers
      <4> QED BY <2>5, <4>1, Numbers, NoRoomBeside
    <3>2. ~Ours'
      BY <2>1, <3>1 DEF Ours
    <3>3. op'.at = "target_ok"
      BY <2>5 DEF IInv, TypeOK, Op
    <3> QED BY <2>1, <3>2, <3>3 DEF Settled, NoneLeft
  <2> QED BY <1>5, <2>3, <2>4, <2>5 DEF EntryTargetCall, Rest
<1>6. CASE TargetOk
  <2>1. /\ UNCHANGED <<bought, adrift, sold, swing>> /\ op.at = "target_ok" /\ Done
        /\ row' = [row EXCEPT !.target = op.order] /\ mirror' = row'
    BY <1>6 DEF TargetOk, At, Push, kotak
  <2>2. ~Ours'
    BY <2>1 DEF Settled, NoTarget, Ours
  <2>3. mirror'.qty = row'.qty
    BY <2>1
  <2> QED BY <2>1, <2>2, <2>3, DoneOp DEF Settled, NoneLeft
<1>7. CASE End
  <2>1. UNCHANGED <<bought, adrift, sold, row, mirror, swing>> /\ op.at = "end" /\ Done
    BY <1>7 DEF End, At, kotak
  <2>2. "idle" \in Calm
    BY DEF Calm, Places, StopPlaced
  <2> QED BY <2>1, <2>2, DoneOp, CalmStep
<1> QED BY <1>1, <1>2, <1>3, <1>4, <1>5, <1>6, <1>7 DEF Entry

\* The partial exit.
LEMMA LegSellSettled == ASSUME IInv, IInv', Settled, LegSell PROVE Settled'
<1>1. op.at = "leg_sell" /\ UNCHANGED <<bought, book, row, mirror, swing>>
  BY DEF LegSell, At
<1>2. SoldNow \in Nat /\ Net \in Int /\ row.qty \in Nat
  BY SoldNowType, NetInt
<1>3. UNCHANGED adrift => (Ours' <=> Ours)
  BY <1>1 DEF Ours
<1>4. CASE UNCHANGED adrift /\ sold' = sold + SoldNow /\ op' = [op EXCEPT !.at = "leg_book"]
  <2>1. op'.at = "leg_book" /\ op'.inferred = op.inferred
    BY <1>4 DEF IInv, TypeOK, Op
  <2>2. Net' = Net - SoldNow /\ SoldNow' = SoldNow
    <3>1. bought \in Int /\ sold \in Int BY Numbers DEF IInv, TypeOK
    <3> QED BY <1>1, <1>2, <1>4, <3>1 DEF Net, SoldNow
  <2>3. ASSUME Ours PROVE RowCovers' /\ MirrorCovers' /\ NoTarget' /\ StopCovers'
    <3>1. Net <= row.qty /\ Net <= mirror.qty /\ NoTarget
      BY <1>1, <2>3 DEF Settled, RowCovers, MirrorCovers
    <3>2. Net' <= row.qty - SoldNow /\ Net' <= row.qty /\ Net' <= mirror.qty
      BY <1>2, <2>2, <3>1, NetInt
    <3>3. RowCovers' /\ MirrorCovers'
      BY <1>1, <2>1, <2>2, <3>2 DEF RowCovers, MirrorCovers
    <3> QED BY <1>1, <2>1, <3>1, <3>3 DEF NoTarget, StopCovers, StopPlaced
  <2> QED BY <1>1, <1>3, <1>4, <2>1, <2>3 DEF Settled, NoneLeft
<1>5. CASE /\ UNCHANGED adrift /\ sold' \in {sold, sold + SoldNow}
           /\ \E why \in {"short", "other", "t1"} : op' = [op EXCEPT !.at = "leg_unsold", !.why = why]
  <2>1. op'.at = "leg_unsold" /\ op'.inferred = op.inferred
    BY <1>5 DEF IInv, TypeOK, Op
  <2>2. Net' <= Net /\ Net' \in Int
    <3>1. bought \in Int /\ sold \in Int BY Numbers DEF IInv, TypeOK
    <3> QED BY <1>1, <1>2, <1>5, <3>1 DEF Net
  <2>3. ASSUME Ours PROVE RowCovers' /\ MirrorCovers' /\ NoTarget' /\ StopCovers'
    <3>1. Net <= row.qty /\ Net <= mirror.qty /\ NoTarget
      BY <1>1, <2>3 DEF Settled, RowCovers, MirrorCovers
    <3>2. Net' <= row.qty /\ Net' <= mirror.qty
      BY <1>2, <2>2, <3>1, NetInt
    <3>3. RowCovers' /\ MirrorCovers'
      BY <1>1, <2>1, <3>2 DEF RowCovers, MirrorCovers
    <3> QED BY <1>1, <2>1, <3>1, <3>3 DEF NoTarget, StopCovers, StopPlaced
  <2> QED BY <1>1, <1>3, <1>5, <2>1, <2>3 DEF Settled, NoneLeft
<1>6. CASE adrift' = TRUE /\ op' = [op EXCEPT !.at = "leg_book"]
  BY <1>1, <1>6 DEF Settled, NoneLeft, Ours, IInv, TypeOK, Op
<1> QED BY <1>4, <1>5, <1>6 DEF LegSell, Sell

LEMMA LegBookSettled == ASSUME IInv, IInv', Settled, LegBook PROVE Settled'
<1>1. op.at = "leg_book" /\ UNCHANGED <<bought, adrift, sold, book, swing>>
  BY DEF LegBook, At, kotak
<1>2. (Ours' <=> Ours) /\ Net' = Net /\ Net \in Int /\ row.qty \in Nat /\ SoldNow \in Nat
  BY <1>1, NetInt, SoldNowType DEF Ours, Net
<1>3. Ours => Net <= row.qty - SoldNow /\ NoTarget
  BY <1>1 DEF Settled, RowCovers
<1>4. CASE row.qty <= SoldNow
  <2>1. row' = NoRow /\ mirror' = NoRow /\ Done
    BY <1>4 DEF LegBook, Push
  <2>2. Ours' => Net' <= 0
    BY <1>2, <1>3, <1>4
  <2> QED BY <2>1, <2>2, DoneOp, DropStep
<1>5. CASE ~(row.qty <= SoldNow)
  <2>1. /\ row' = [row EXCEPT !.qty = row.qty - SoldNow, !.legs = row.legs \ {op.leg}]
        /\ mirror' = row' /\ (Go("leg_newstop") \/ Go("leg_sweep"))
    BY <1>5 DEF LegBook, Push, IInv, TypeOK, Row
  <2>2. row'.qty = row.qty - SoldNow /\ row'.target = row.target
    BY <2>1 DEF IInv, TypeOK, Row
  <2>3. op'.at \in {"leg_newstop", "leg_sweep"} /\ op'.inferred = op.inferred /\ op'.slOk = FALSE
    BY <1>1, <2>1, GoOp, NotSlOk
  <2>4. ASSUME Ours PROVE RowCovers' /\ MirrorCovers' /\ NoTarget' /\ StopCovers'
    <3>1. RowCovers' /\ MirrorCovers'
      BY <1>2, <1>3, <2>1, <2>2, <2>3, <2>4 DEF RowCovers, MirrorCovers
    <3> QED BY <1>3, <2>1, <2>2, <2>3, <2>4, <3>1 DEF NoTarget, StopCovers, StopPlaced
  <2> QED BY <1>2, <2>1, <2>3, <2>4 DEF Settled, NoneLeft
<1> QED BY <1>4, <1>5

LEMMA LegSweepSettled == ASSUME IInv, IInv', Settled, LegSweep PROVE Settled'
<1>1. op.at = "leg_sweep" /\ UNCHANGED <<bought, adrift, sold, row, mirror, swing>> /\ Go(AfterSweep)
  BY DEF LegSweep, At, Cancel
<1>2. op'.at = AfterSweep /\ op'.slOk = op.slOk /\ op'.inferred = op.inferred
  BY <1>1, GoOp
<1>3. CASE AfterSweep = "leg_end"
  <2>1. "leg_end" \in Calm
    BY DEF Calm, Places, StopPlaced
  <2> QED BY <1>1, <1>2, <1>3, <2>1, CalmStep
<1>4. CASE op.slOk /\ AfterSweep = "leg_nexttarget"
  <2>1. (Ours' <=> Ours) /\ Net' = Net
    BY <1>1 DEF Ours, Net
  <2>2. ASSUME Ours PROVE RowCovers' /\ MirrorCovers' /\ NoTarget' /\ StopCovers'
    <3>1. Net <= row.qty /\ Net <= mirror.qty /\ NoTarget /\ Covers(row.sl)
      BY <1>1, <1>4, <2>2 DEF Settled, RowCovers, MirrorCovers, StopCovers
    <3>2. Sweep("target")
      BY <3>1 DEF LegSweep, NoTarget
    <3>3. ASSUME Live(row.sl) PROVE Live(row.sl)' /\ book'[row.sl].qty = book[row.sl].qty
      <4>1. row.sl \in Ids /\ row.sl # NoOrder
        BY <3>3 DEF Live, Ids, NoOrder
      <4>2. book[row.sl].kind = "sl"
        BY <4>1 DEF IInv, IdsKnown, Known
      <4>3. CASE UNCHANGED book
        BY <1>1, <3>3, <4>3 DEF Live, Ids
      <4>4. CASE book' = [o \in Ids |-> IF o \in Resting("target")
                                        THEN [book[o] EXCEPT !.status = "cancelled"] ELSE book[o]]
        <5>1. row.sl \notin Resting("target")
          BY <4>2 DEF Resting
        <5>2. book'[row.sl] = book[row.sl]
          BY <4>1, <4>4, <5>1
        <5>3. Len(book') = Len(book)
          <6>1. DOMAIN book' = 1..Len(book) /\ Len(book) \in Nat
            BY <4>4 DEF Ids, IInv, TypeOK
          <6>2. book' \in Seq(Order)
            BY DEF IInv, TypeOK
          <6> QED BY <6>1, <6>2
        <5> QED BY <1>1, <3>3, <4>1, <5>2, <5>3 DEF Live, Ids
      <4> QED BY <3>2, <4>3, <4>4 DEF Sweep
    <3>4. Covers(row.sl)'
      BY <1>1, <2>1, <3>1, <3>3 DEF Covers
    <3>5. RowCovers' /\ MirrorCovers' /\ NoTarget'
      BY <1>1, <1>2, <1>4, <2>1, <3>1 DEF RowCovers, MirrorCovers, NoTarget
    <3> QED BY <1>2, <1>4, <3>4, <3>5 DEF StopCovers, StopPlaced
  <2> QED BY <1>1, <1>2, <1>4, <2>1, <2>2 DEF Settled, NoneLeft
<1> QED BY <1>3, <1>4 DEF AfterSweep

LEMMA LegNewStopOkSettled == ASSUME IInv, IInv', Settled, LegNewStopOk PROVE Settled'
<1>1. /\ op.at = "leg_newstop_ok" /\ UNCHANGED <<bought, adrift, sold, book, mirror, swing>>
      /\ row' = WithStop(row, row.level) /\ op' = [op EXCEPT !.at = "leg_sweep", !.slOk = TRUE]
  BY DEF LegNewStopOk, At, Commit, kotak
<1>2. op'.at = "leg_sweep" /\ op'.inferred = op.inferred
  BY <1>1 DEF IInv, TypeOK, Op
<1>3. row'.qty = row.qty /\ row'.sl = op.order /\ row'.target = row.target
  <2>1. row.level \in 0..MaxLevel BY DEF IInv, TypeOK, Row
  <2> QED BY <1>1, <2>1, RowFacts DEF IInv, TypeOK
<1>4. (Ours' <=> Ours) /\ Net' = Net
  BY <1>1 DEF Ours, Net
<1>5. ASSUME Ours PROVE RowCovers' /\ MirrorCovers' /\ NoTarget' /\ StopCovers'
  <2>1. Net <= row.qty /\ Net <= mirror.qty /\ NoTarget /\ Covers(op.order)
    BY <1>1, <1>5 DEF Settled, RowCovers, MirrorCovers, StopCovers, StopPlaced
  <2>2. Covers(row.sl)'
    BY <1>1, <1>3, <1>4, <2>1 DEF Covers, Live, Ids
  <2>3. RowCovers' /\ MirrorCovers' /\ NoTarget'
    BY <1>1, <1>2, <1>3, <1>4, <2>1 DEF RowCovers, MirrorCovers, NoTarget
  <2> QED BY <1>2, <2>2, <2>3 DEF StopCovers, StopPlaced
<1> QED BY <1>1, <1>3, <1>4, <1>5 DEF Settled, NoneLeft

LEMMA LegSettled == ASSUME IInv, IInv', Settled, OnlyOurs, Leg PROVE Settled'
<1> DEFINE quiet == {"idle", "leg_stop", "leg_sell", "leg_end"}
<1>0. quiet \subseteq Calm /\ "leg_unrestored" \in Calm /\ "leg_newstop_failed" \in Calm
  BY DEF Calm, Places, StopPlaced
<1> HIDE DEF quiet
<1>1. CASE LegTarget
  <2>1. op.at = "leg_target" /\ UNCHANGED <<bought, adrift, sold, row, mirror, swing>>
    BY <1>1 DEF LegTarget, At
  <2>2. Go("leg_stop") \/ (row.target # NoOrder /\ op' = [op EXCEPT !.at = "leg_stop", !.inferred = TRUE])
    BY <1>1 DEF LegTarget, Cancel
  <2>3. op'.at = "leg_stop" /\ (op'.inferred => op.inferred \/ row.target # NoOrder)
    BY <2>2, GoOp DEF IInv, TypeOK, Op
  <2> QED BY <1>0, <2>1, <2>3, CalmStep DEF quiet
<1>2. CASE LegStop
  <2>1. /\ op.at = "leg_stop" /\ UNCHANGED <<bought, adrift, sold, mirror, swing>>
        /\ row' \in {row, Degraded(row)} /\ (AfterStop(TRUE) \/ AfterStop(FALSE) \/ Done)
    BY <1>2 DEF LegStop, At, Cancel
  <2>2. row'.qty = row.qty /\ row'.target = row.target
    BY <2>1, RowFacts DEF IInv, TypeOK
  <2>3. CASE Done
    BY <1>0, <2>1, <2>2, <2>3, DoneOp, CalmStep DEF quiet
  <2>4. CASE AfterStop(TRUE) \/ AfterStop(FALSE)
    <3>1. op'.inferred = op.inferred /\ op'.at = IF op.inferred THEN "leg_book" ELSE "leg_sell"
      BY <2>4 DEF AfterStop, IInv, TypeOK, Op
    <3>2. CASE ~op.inferred
      BY <1>0, <2>1, <2>2, <3>1, <3>2, CalmStep DEF quiet
    <3>3. CASE op.inferred
      <4>1. ~Ours'
        BY <2>1, <3>3 DEF Settled, NoTarget, Ours
      <4> QED BY <2>1, <2>2, <3>1, <4>1 DEF Settled, NoneLeft
    <3> QED BY <3>2, <3>3
  <2> QED BY <2>1, <2>3, <2>4
<1>3. CASE LegUnsold
  <2>1. op.at = "leg_unsold" /\ UNCHANGED <<bought, adrift, sold, row, mirror, swing>>
    BY <1>3 DEF LegUnsold, At
  <2>2. CASE Done
    BY <1>0, <2>1, <2>2, DoneOp, CalmStep DEF quiet
  <2>3. CASE Rest("sl", row.qty, row.level, "leg_restored", "leg_unrestored")
    <3>1. row.qty \in 1..MaxBought /\ (Ours => Net <= row.qty)
      BY <2>1 DEF IInv, HasRow, TypeOK, Row, Settled, RowCovers
    <3>2. "leg_restored" \in StopPlaced
      BY DEF StopPlaced
    <3> QED BY <1>0, <2>1, <2>3, <3>1, <3>2, PlaceStep
  <2> QED BY <1>3, <2>2, <2>3 DEF LegUnsold
<1>4. CASE LegRestored
  <2>1. /\ op.at = "leg_restored" /\ UNCHANGED <<bought, adrift, sold, mirror, swing>> /\ Done
        /\ row' = WithStop(row, row.level)
    BY <1>4 DEF LegRestored, At, Commit, kotak
  <2>2. row'.qty = row.qty /\ row'.target = row.target
    <3>1. row.level \in 0..MaxLevel BY DEF IInv, TypeOK, Row
    <3> QED BY <2>1, <3>1, RowFacts DEF IInv, TypeOK
  <2> QED BY <1>0, <2>1, <2>2, DoneOp, CalmStep DEF quiet
<1>5. CASE LegUnrestored
  <2>1. /\ op.at = "leg_unrestored" /\ UNCHANGED <<bought, adrift, sold, mirror, swing>> /\ Done
        /\ row' = NoStop(row)
    BY <1>5 DEF LegUnrestored, At, Commit, kotak
  <2>2. row'.qty = row.qty /\ row'.target = row.target
    BY <2>1, RowFacts DEF IInv, TypeOK
  <2> QED BY <1>0, <2>1, <2>2, DoneOp, CalmStep DEF quiet
<1>6. CASE LegNewStop
  <2>1. op.at = "leg_newstop" /\ UNCHANGED <<bought, adrift, sold, row, mirror, swing>>
    BY <1>6 DEF LegNewStop, At
  <2>2. row.qty \in 1..MaxBought /\ (Ours => Net <= row.qty)
    BY <2>1 DEF IInv, HasRow, TypeOK, Row, Settled, RowCovers
  <2>3. "leg_newstop_ok" \in StopPlaced
    BY DEF StopPlaced
  <2> QED BY <1>0, <1>6, <2>1, <2>2, <2>3, PlaceStep DEF LegNewStop
<1>7. CASE LegNewStopFailed
  <2>1. /\ op.at = "leg_newstop_failed" /\ UNCHANGED <<bought, adrift, sold, mirror, swing>>
        /\ row' = Degraded(NoStop(row)) /\ Go("leg_sweep")
    BY <1>7 DEF LegNewStopFailed, At, Commit, kotak
  <2>2. row'.qty = row.qty /\ row'.target = row.target
    BY <2>1, RowFacts DEF IInv, TypeOK
  <2>3. op'.at = "leg_sweep" /\ op'.slOk = FALSE /\ op'.inferred = op.inferred
    BY <2>1, GoOp, NotSlOk
  <2> QED BY <2>1, <2>2, <2>3, CalmStep
<1>8. CASE LegNextTarget
  <2>1. op.at = "leg_nexttarget" /\ UNCHANGED <<bought, adrift, sold, row, mirror, swing>>
    BY <1>8 DEF LegNextTarget, At
  <2>2. CASE \E why \in {"short", "other", "cas", "t1"} : op' = [op EXCEPT !.at = "leg_end", !.why = why]
    <3>1. op'.at = "leg_end" /\ op'.inferred = op.inferred
      BY <2>2 DEF IInv, TypeOK, Op
    <3> QED BY <1>0, <2>1, <3>1, CalmStep DEF quiet
  <2>3. CASE Room(LegQty) /\ op' = [op EXCEPT !.at = "target_ok", !.order = Len(book) + 1]
    <3>1. ~Ours
      <4> SUFFICES ASSUME Ours PROVE FALSE
        OBVIOUS
      <4>1. Covers(row.sl)
        BY <2>1 DEF Settled, StopCovers
      <4> QED BY <2>3, <4>1, Numbers, NoRoomBeside
    <3>2. ~Ours'
      BY <2>1, <3>1 DEF Ours
    <3>3. op'.at = "target_ok"
      BY <2>3 DEF IInv, TypeOK, Op
    <3> QED BY <2>1, <3>2, <3>3 DEF Settled, NoneLeft
  <2> QED BY <1>8, <2>2, <2>3 DEF LegNextTarget, Rest
<1>9. CASE LegEnd
  <2>1. /\ op.at = "leg_end" /\ UNCHANGED <<bought, adrift, sold, swing>> /\ Done
        /\ mirror' = [row EXCEPT !.target = NoOrder] /\ row' \in {row, mirror'}
    BY <1>9 DEF LegEnd, At, kotak
  <2>2. mirror'.qty = row.qty /\ mirror'.target = NoOrder
    BY <2>1 DEF IInv, TypeOK, Row
  <2>3. row'.qty = row.qty /\ row'.target \in {row.target, NoOrder}
    BY <2>1, <2>2
  <2> QED BY <1>0, <2>1, <2>2, <2>3, DoneOp, CalmStep DEF quiet
<1> QED BY <1>1, <1>2, <1>3, <1>4, <1>5, <1>6, <1>7, <1>8, <1>9, LegSellSettled, LegBookSettled,
           LegSweepSettled, LegNewStopOkSettled DEF Leg

\* The exit.
LEMMA PaperSettled == ASSUME IInv, IInv', Settled, BookPaperLeg \/ PaperExit PROVE Settled'
<1>1. op.at = "idle" /\ UNCHANGED <<bought, adrift, sold, row, mirror, swing>>
  BY DEF BookPaperLeg, PaperExit, At, kotak
<1>2. \/ UNCHANGED op \/ Done \/ Go("exit_check")
      \/ \E k : op' = [Idle EXCEPT !.at = "leg_target", !.leg = k]
  BY DEF BookPaperLeg, PaperExit, ToExit
<1>3. op'.at \in {"idle", "exit_check", "leg_target"} /\ (op'.inferred => op.inferred)
  BY <1>1, <1>2, GoOp, DoneOp DEF Idle
<1>4. {"idle", "exit_check", "leg_target"} \subseteq Calm
  BY DEF Calm, Places, StopPlaced
<1> QED BY <1>1, <1>3, <1>4, CalmStep

LEMMA ExitSellSettled == ASSUME IInv, IInv', Settled, ExitSell PROVE Settled'
<1>1. op.at = "exit_sell" /\ UNCHANGED <<bought, book, row, mirror, swing>>
  BY DEF ExitSell, At
<1>7. CASE adrift' = TRUE /\ op' = [op EXCEPT !.at = "exit_book"]
  BY <1>1, <1>7 DEF Settled, NoneLeft, Ours, IInv, TypeOK, Op
<1> SUFFICES ASSUME UNCHANGED adrift, ~(adrift' = TRUE /\ op' = [op EXCEPT !.at = "exit_book"])
             PROVE  Settled'
  BY <1>7 DEF ExitSell, Sell
<1>2. Net \in Int /\ row.qty \in Nat /\ mirror.qty \in Nat
  BY NetInt
<1>3. Ours' <=> Ours
  BY <1>1 DEF Ours
<1>4. sold' \in {sold, sold + row.qty} /\ op'.inferred = op.inferred
      /\ (op'.at = "exit_failed" \/ (op'.at = "exit_book" /\ sold' = sold + row.qty))
  BY DEF ExitSell, Sell, IInv, TypeOK, Op
<1>5. Net' <= Net /\ Net' \in Int /\ (sold' = sold + row.qty => Net' = Net - row.qty)
  <2>1. bought \in Int /\ sold \in Int BY Numbers DEF IInv, TypeOK
  <2>2. Net = bought - sold /\ Net' = bought - sold'
    BY <1>1 DEF Net
  <2>3. sold' = sold \/ sold' = sold + row.qty
    BY <1>4
  <2>4. CASE sold' = sold
    BY <1>2, <2>1, <2>2, <2>4
  <2>5. CASE sold' = sold + row.qty
    BY <1>2, <2>1, <2>2, <2>5
  <2> QED BY <2>3, <2>4, <2>5
<1>6. ASSUME Ours PROVE RowCovers' /\ MirrorCovers' /\ NoTarget' /\ StopCovers'
  <2>1. Net <= row.qty /\ Net <= mirror.qty /\ NoTarget
    BY <1>1, <1>6 DEF Settled, RowCovers, MirrorCovers
  <2>2. Net' <= row.qty /\ Net' <= mirror.qty /\ (op'.at = "exit_book" => Net' <= 0)
    BY <1>2, <1>4, <1>5, <2>1
  <2>3. RowCovers' /\ MirrorCovers'
    BY <1>1, <1>4, <2>2 DEF RowCovers, MirrorCovers
  <2> QED BY <1>1, <1>4, <2>1, <2>3 DEF NoTarget, StopCovers, StopPlaced
<1> QED BY <1>1, <1>3, <1>4, <1>6 DEF Settled, NoneLeft

\* exit_check and sync_paper: Kotak says that the position is closed.
LEMMA ClosedAtKotak == ASSUME IInv, ~StillOpen PROVE Net <= 0
<1>1. bought \in Nat /\ sold \in Nat
  BY Numbers DEF IInv, TypeOK
<1> QED BY <1>1 DEF StillOpen, Net

LEMMA ClosedDrops ==
    ASSUME IInv, UNCHANGED <<bought, sold>>, ~StillOpen, Push(NoRow), Done PROVE Settled'
<1>1. Net' <= 0
  BY ClosedAtKotak DEF Net
<1> QED BY <1>1, DoneOp, DropStep DEF Push

LEMMA ExitSettled == ASSUME IInv, IInv', Settled, Exit PROVE Settled'
<1> DEFINE quiet == {"idle", "exit_stop", "exit_target", "exit_sell"}
<1>0. quiet \subseteq Calm
  BY DEF Calm, Places, StopPlaced
<1> HIDE DEF quiet
<1>1. CASE ExitCheck
  <2>1. op.at = "exit_check" /\ UNCHANGED <<bought, adrift, sold, swing>>
    BY <1>1 DEF ExitCheck, At, kotak
  <2>2. CASE Go("exit_stop") /\ UNCHANGED <<row, mirror>>
    BY <1>0, <2>1, <2>2, GoOp, CalmStep DEF quiet
  <2>3. CASE ~StillOpen /\ Push(NoRow) /\ Done
    BY <2>1, <2>3, ClosedDrops
  <2> QED BY <1>1, <2>2, <2>3 DEF ExitCheck, Read
<1>2. CASE ExitStop \/ ExitTarget
  <2>1. /\ op.at \in {"exit_stop", "exit_target"}
        /\ UNCHANGED <<bought, adrift, sold, row, mirror, swing>>
        /\ (Go("exit_target") \/ Go("exit_sell"))
    BY <1>2 DEF ExitStop, ExitTarget, At, Cancel
  <2>2. op'.at \in {"exit_target", "exit_sell"} /\ op'.inferred = op.inferred
    BY <2>1, GoOp
  <2> QED BY <1>0, <2>1, <2>2, CalmStep DEF quiet
<1>3. CASE ExitBook
  <2>1. /\ op.at = "exit_book" /\ UNCHANGED <<bought, adrift, sold, swing>> /\ Done
        /\ row' = NoRow /\ mirror' = NoRow
    BY <1>3 DEF ExitBook, At, Push, kotak
  <2>2. Ours' => Net' <= 0
    BY <2>1 DEF Settled, RowCovers, Ours, Net
  <2> QED BY <2>1, <2>2, DoneOp, DropStep
<1>4. CASE ExitFailed
  <2>1. op.at = "exit_failed" /\ UNCHANGED <<bought, adrift, sold, row, mirror, swing>> /\ Done
    BY <1>4 DEF ExitFailed, At, kotak
  <2> QED BY <1>0, <2>1, DoneOp, CalmStep DEF quiet
<1> QED BY <1>1, <1>2, <1>3, <1>4, ExitSellSettled DEF Exit

\* The sync of a tick.
LEMMA TickSettled == ASSUME IInv, IInv', Settled, Tick PROVE Settled'
<1>1. op.at = "idle" /\ UNCHANGED <<bought, adrift, sold>>
  BY DEF Tick, At, kotak
<1>2. CASE Push(NoRow) /\ swing' = TRUE
  BY <1>1, <1>2, Records DEF Push, Settled, NoneLeft, Ours
<1>3. CASE (Go("sync_qty") \/ Go("sync_paper")) /\ UNCHANGED <<row, mirror, swing>>
  <2>1. op'.at \in {"sync_qty", "sync_paper"} /\ op'.inferred = op.inferred
    BY <1>3, GoOp
  <2>2. {"sync_qty", "sync_paper"} \subseteq Calm
    BY DEF Calm, Places, StopPlaced
  <2> QED BY <1>1, <1>3, <2>1, <2>2, CalmStep
<1> QED BY <1>2, <1>3 DEF Tick

LEMMA SyncQtySettled == ASSUME IInv, IInv', Settled, SyncQty PROVE Settled'
<1>1. op.at = "sync_qty" /\ UNCHANGED <<bought, adrift, sold, mirror, swing>>
      /\ (Go("sync_clock") \/ Go("sync_live"))
  BY DEF SyncQty, At, Read, Commit, kotak, AfterQty
<1>2. op'.at \in {"sync_clock", "sync_live"} /\ op'.inferred = op.inferred
  BY <1>1, GoOp
<1>3. {"sync_clock", "sync_live"} \subseteq Calm
  BY DEF Calm, Places, StopPlaced
<1>4. CASE row' = row
  BY <1>1, <1>2, <1>3, <1>4, CalmStep
<1>5. CASE row' = [row EXCEPT !.qty = Net] /\ Net > 0
  <2>1. row'.qty = Net /\ row'.target = row.target
    BY <1>5 DEF IInv, TypeOK, Row
  <2>2. (Ours' <=> Ours) /\ Net' = Net /\ Net \in Int
    BY <1>1, NetInt DEF Ours, Net
  <2>3. op'.at \notin StopPlaced \cup {"entry_book", "entry_stop", "target_ok", "entry_target",
                                      "leg_nexttarget", "leg_sweep", "leg_book", "exit_book"}
    BY <1>2 DEF StopPlaced
  <2>4. ASSUME Ours PROVE RowCovers' /\ MirrorCovers' /\ NoTarget' /\ StopCovers'
    <3>1. Net <= mirror.qty /\ NoTarget
      BY <1>1, <2>4 DEF Settled, MirrorCovers
    <3>2. RowCovers' /\ MirrorCovers'
      BY <1>1, <2>1, <2>2, <2>3, <3>1 DEF RowCovers, MirrorCovers
    <3> QED BY <1>1, <1>2, <2>1, <2>3, <3>1, <3>2 DEF NoTarget, StopCovers
  <2>5. row'.qty # 0
    BY <1>5, <2>1, <2>2
  <2> QED BY <1>2, <2>2, <2>4, <2>5 DEF Settled, NoneLeft
<1> QED BY <1>4, <1>5 DEF SyncQty, Read, Commit

LEMMA SyncSettled == ASSUME IInv, IInv', Settled, Sync PROVE Settled'
<1> DEFINE quiet == {"idle", "exit_check", "sync_qty", "sync_clock", "sync_open", "sync_cancel",
                     "sync_place", "sync_failed"}
<1>0. quiet \subseteq Calm
  BY DEF Calm, Places, StopPlaced
<1> HIDE DEF quiet
<1>1. CASE SyncPaper
  <2>1. op.at = "sync_paper" /\ UNCHANGED <<bought, adrift, sold, swing>>
    BY <1>1 DEF SyncPaper, At, kotak
  <2>2. CASE Go("sync_qty") /\ UNCHANGED <<row, mirror>>
    BY <1>0, <2>1, <2>2, GoOp, CalmStep DEF quiet
  <2>3. CASE ~StillOpen /\ Push(NoRow) /\ Done
    BY <2>1, <2>3, ClosedDrops
  <2> QED BY <1>1, <2>2, <2>3 DEF SyncPaper, Read
<1>2. CASE SyncLive
  <2>1. /\ op.at = "sync_live" /\ UNCHANGED <<bought, adrift, sold, mirror, swing>> /\ Go("sync_clock")
        /\ row' \in {row, [NoStop(row) EXCEPT !.level = NoLevel]}
    BY <1>2 DEF SyncLive, At, Read, Commit, kotak
  <2>2. row'.qty = row.qty /\ row'.target = row.target
    <3>1. NoStop(row) \in Row /\ NoStop(row).qty = row.qty /\ NoStop(row).target = row.target
      BY RowFacts DEF IInv, TypeOK
    <3>2. \A r \in Row : [r EXCEPT !.level = NoLevel].qty = r.qty
                         /\ [r EXCEPT !.level = NoLevel].target = r.target
      BY DEF Row
    <3> QED BY <2>1, <3>1, <3>2
  <2> QED BY <1>0, <2>1, <2>2, GoOp, CalmStep DEF quiet
<1>3. CASE SyncClock
  <2>1. /\ op.at = "sync_clock" /\ UNCHANGED <<bought, adrift, sold, mirror, swing>>
        /\ row' \in {row, Degraded(row)} /\ (Done \/ Go("exit_check") \/ Go("sync_open"))
    BY <1>3 DEF SyncClock, At, ToExit, kotak
  <2>2. row'.qty = row.qty /\ row'.target = row.target
    BY <2>1, RowFacts DEF IInv, TypeOK
  <2>3. op'.at \in {"idle", "exit_check", "sync_open"} /\ (op'.inferred => op.inferred)
    BY <2>1, GoOp, DoneOp
  <2> QED BY <1>0, <2>1, <2>2, <2>3, CalmStep DEF quiet
<1>4. CASE SyncOpen \/ SyncCancel
  <2>1. /\ op.at \in {"sync_open", "sync_cancel"} /\ UNCHANGED <<bought, adrift, sold, row, mirror, swing>>
        /\ (Done \/ Go("sync_cancel") \/ Go("sync_place"))
    BY <1>4 DEF SyncOpen, SyncCancel, At, Read, Cancel, kotak
  <2>2. op'.at \in {"idle", "sync_cancel", "sync_place"} /\ (op'.inferred => op.inferred)
    BY <2>1, GoOp, DoneOp
  <2> QED BY <1>0, <2>1, <2>2, CalmStep DEF quiet
<1>5. CASE SyncPlace
  <2>1. op.at = "sync_place" /\ UNCHANGED <<bought, adrift, sold, row, mirror, swing>>
    BY <1>5 DEF SyncPlace, At
  <2>2. row.qty \in 1..MaxBought /\ (Ours => Net <= row.qty)
    BY <2>1 DEF IInv, HasRow, TypeOK, Row, Settled, RowCovers
  <2>3. "sync_ok" \in StopPlaced
    BY DEF StopPlaced
  <2> QED BY <1>0, <1>5, <2>1, <2>2, <2>3, PlaceStep DEF SyncPlace, quiet
<1>6. CASE SyncOk
  <2>1. /\ op.at = "sync_ok" /\ UNCHANGED <<bought, adrift, sold, swing>> /\ Done
        /\ row' = WithStop(row, paper.stop) /\ mirror' = row'
    BY <1>6 DEF SyncOk, At, Push, kotak
  <2>2. row'.qty = row.qty /\ row'.target = row.target
    <3>1. paper.stop \in 0..MaxLevel BY DEF IInv, TypeOK, Paper, Levels
    <3> QED BY <2>1, <3>1, RowFacts DEF IInv, TypeOK
  <2> QED BY <1>0, <2>1, <2>2, DoneOp, CalmStep DEF quiet
<1>7. CASE SyncFailed
  <2>1. /\ op.at = "sync_failed" /\ UNCHANGED <<bought, adrift, sold, swing>>
        /\ row' = Degraded(NoStop(row)) /\ mirror' = row' /\ (Done \/ Go("exit_check"))
    BY <1>7 DEF SyncFailed, At, Push, ToExit, kotak
  <2>2. row'.qty = row.qty /\ row'.target = row.target
    BY <2>1, RowFacts DEF IInv, TypeOK
  <2>3. op'.at \in {"idle", "exit_check"} /\ (op'.inferred => op.inferred)
    BY <2>1, GoOp, DoneOp
  <2> QED BY <1>0, <2>1, <2>2, <2>3, CalmStep DEF quiet
<1> QED BY <1>1, <1>2, <1>3, <1>4, <1>5, <1>6, <1>7, SyncQtySettled DEF Sync

\* Fills, the clock and a restart.
LEMMA FillSettled == ASSUME IInv, IInv', Settled, NEW o \in Ids, Fill(o) PROVE Settled'
<1>1. /\ UNCHANGED <<bought, adrift, row, mirror, swing, op>> /\ Live(o)
      /\ book' = [book EXCEPT ![o].status = "filled"] /\ sold' = sold + book[o].qty
  BY DEF Fill
<1>2. book \in Seq(Order) /\ book[o].qty \in Nat /\ book[o].qty > 0
  <2>1. book \in Seq(Order) /\ book[o] \in Order BY DEF IInv, TypeOK, Ids
  <2> QED BY <2>1, Numbers DEF Order
<1>3. (Ours' <=> Ours) /\ Net' = Net - book[o].qty /\ Net \in Int
  <2>1. bought \in Int /\ sold \in Int BY Numbers DEF IInv, TypeOK
  <2> QED BY <1>1, <1>2, <2>1 DEF Ours, Net
<1>4. Net' <= Net /\ Net' \in Int
  BY <1>2, <1>3
<1>5. ASSUME NEW p, Covers(p) PROVE (Live(p)' /\ Net' <= book'[p].qty) \/ Net' <= 0
  <2>1. CASE Net <= 0
    BY <1>3, <1>4, <2>1
  <2>2. CASE p = o /\ Net <= book[o].qty
    BY <1>2, <1>3, <2>2
  <2>3. CASE p # o /\ Live(p) /\ Net <= book[p].qty
    <3>1. p \in Ids /\ book'[p] = book[p] /\ Len(book') = Len(book)
      BY <1>1, <1>2, <2>3 DEF Live, Ids
    <3>2. book[p].qty \in Int
      <4>1. book[p] \in Order BY <3>1 DEF IInv, TypeOK, Ids
      <4> QED BY <4>1, Numbers DEF Order
    <3>3. Net' <= book'[p].qty
      BY <1>3, <1>4, <2>3, <3>1, <3>2
    <3>4. Live(p)'
      BY <2>3, <3>1 DEF Live, Ids
    <3> QED BY <3>3, <3>4
  <2> QED BY <1>5, <2>1, <2>2, <2>3 DEF Covers
<1>6. ASSUME Ours PROVE RowCovers' /\ MirrorCovers' /\ NoTarget' /\ StopCovers'
  <2>1. RowCovers /\ MirrorCovers /\ NoTarget /\ StopCovers
    BY <1>6 DEF Settled
  <2>2. \A n \in Int : Net <= n => Net' <= n
    BY <1>3, <1>4
  <2>3. row.qty \in Int /\ mirror.qty \in Int /\ Qty \in Int /\ SoldNow \in Int /\ row.qty - SoldNow \in Int
    BY NetInt, SoldNowType
  <2>4. SoldNow' = SoldNow
    BY <1>1 DEF SoldNow
  <2>5. RowCovers' /\ MirrorCovers'
    BY <1>1, <2>1, <2>2, <2>3, <2>4 DEF RowCovers, MirrorCovers
  <2>6. StopCovers'
    BY <1>1, <1>5, <2>1 DEF StopCovers, Covers
  <2> QED BY <1>1, <2>1, <2>5, <2>6 DEF NoTarget
<1> QED BY <1>1, <1>3, <1>6 DEF Settled, NoneLeft

LEMMA StillSettled ==
    ASSUME IInv, Settled, UNCHANGED <<bought, adrift, sold, book, mirror, swing, op>>,
           row'.qty = row.qty, row'.sl = row.sl, row'.target = row.target
    PROVE  Settled'
<1>1. Net' = Net /\ (Ours' <=> Ours) /\ SoldNow' = SoldNow
  BY DEF Net, Ours, SoldNow
<1>2. \A o : Covers(o)' <=> ((Live(o) /\ Net <= book[o].qty) \/ Net <= 0)
  BY <1>1 DEF Covers, Live, Ids
<1>3. ASSUME Ours PROVE RowCovers' /\ MirrorCovers' /\ NoTarget' /\ StopCovers'
  <2>1. RowCovers /\ MirrorCovers /\ NoTarget /\ StopCovers
    BY <1>3 DEF Settled
  <2>2. RowCovers' /\ MirrorCovers' /\ NoTarget'
    BY <1>1, <2>1 DEF RowCovers, MirrorCovers, NoTarget
  <2>3. StopCovers'
    BY <1>1, <2>1 DEF StopCovers, Covers, Live, Ids
  <2> QED BY <2>2, <2>3
<1> QED BY <1>1, <1>3 DEF Settled, NoneLeft

LEMMA RestartSettled == ASSUME IInv, IInv', Settled, Restart PROVE Settled'
<1>1. /\ UNCHANGED <<bought, sold, mirror, swing>> /\ Done
      /\ row' = [mirror EXCEPT !.tagged = FALSE] /\ adrift' = (adrift \/ op.at = "entry_book")
  BY DEF Restart, Done, At
<1>2. row'.qty = mirror.qty /\ row'.target = mirror.target
  BY <1>1 DEF IInv, TypeOK, Row
<1>3. Net' = Net /\ (Ours' => Ours /\ op.at # "entry_book")
  BY <1>1 DEF Net, Ours
<1>4. op'.at = "idle" /\ op'.inferred = FALSE
  BY <1>1, DoneOp
<1>5. ASSUME Ours, op.at # "entry_book" PROVE RowCovers' /\ MirrorCovers' /\ NoTarget' /\ StopCovers'
  <2>1. Net <= mirror.qty /\ NoTarget
    BY <1>5 DEF Settled, MirrorCovers
  <2>2. RowCovers' /\ MirrorCovers'
    BY <1>1, <1>2, <1>3, <1>4, <2>1 DEF RowCovers, MirrorCovers
  <2> QED BY <1>1, <1>2, <1>4, <2>1, <2>2 DEF NoTarget, StopCovers, StopPlaced
<1> QED BY <1>1, <1>2, <1>3, <1>4, <1>5 DEF Settled, NoneLeft

LEMMA InitSettled == Init => Settled
<1> SUFFICES ASSUME Init PROVE Settled
  OBVIOUS
<1>1. Net = 0 /\ op.at = "idle" /\ ~op.inferred /\ row = NoRow /\ mirror = NoRow
  BY DEF Init, Net, Idle
<1> QED BY <1>1, Records DEF Settled, NoneLeft, RowCovers, MirrorCovers, NoTarget, StopCovers, StopPlaced

LEMMA NextSettled ==
    ASSUME OnlyOurs PROVE IInv /\ IInv' /\ Settled /\ [Next]_vars => Settled'
<1> SUFFICES ASSUME IInv, IInv', Settled, [Next]_vars PROVE Settled'
  OBVIOUS
<1>1. CASE Enter \/ EnterOnPaperOnly BY <1>1, EnterSettled
<1>2. CASE BookPaperLeg \/ PaperExit BY <1>2, PaperSettled
<1>3. CASE Tick BY <1>3, TickSettled
<1>4. CASE Step BY <1>4, EntrySettled, LegSettled, ExitSettled, SyncSettled DEF Step
<1>5. CASE ClockRuns
  <2>1. /\ UNCHANGED <<bought, adrift, sold, book, mirror, swing, op>>
        /\ row' = [row EXCEPT !.clock = "over"]
    BY <1>5 DEF ClockRuns, kotak
  <2>2. row'.qty = row.qty /\ row'.sl = row.sl /\ row'.target = row.target
    BY <2>1 DEF IInv, TypeOK, Row
  <2> QED BY <2>1, <2>2, StillSettled
<1>6. CASE Restart BY <1>6, RestartSettled
<1>7. CASE \E o \in Ids : Fill(o) BY <1>7, FillSettled
<1>8. CASE UNCHANGED vars BY <1>8, StillSettled DEF vars
<1> QED BY <1>1, <1>2, <1>3, <1>4, <1>5, <1>6, <1>7, <1>8 DEF Next

LEMMA SpecSettled == ASSUME OnlyOurs PROVE Spec => []IInv /\ []Settled
BY InitIInv, NextKeeps, InitSettled, NextSettled, PTL DEF Spec

\* When the account holds no other shares of the symbol, and whatever Kotak refuses,
\* loses or leaves unread and whenever the process dies: between two ticks the row is
\* gone only when the shares are, or when the swing engine owns the symbol or the buy was
\* never booked.
THEOREM RowOutlivesShares == ASSUME OnlyOurs PROVE Spec => []NeverForgets
<1>1. Settled => NeverForgets
  BY DEF Settled, NeverForgets, RowCovers, Ours, At
<1> QED BY <1>1, SpecSettled, PTL

-----------------------------------------------------------------------------
(* The real long implements OwnedPosition.                                 *)

Tracked == row.qty > 0 \/ ~At("idle")
Handed == swing \/ adrift

\* A step of a tracked position that moves no shares: the row stays, or it goes and then
\* Settled says that the shares are gone or handed over.
LEMMA NoShareMoves ==
    ASSUME IInv, IInv', Settled', UNCHANGED <<bought, sold>>, Tracked,
           Handed' = Handed \/ ~Tracked'
    PROVE  [Owned!Next]_<<Net, row.qty > 0 \/ ~At("idle"), swing \/ adrift>>
<1>1. Net' = Net /\ Net \in Int /\ (row.qty > 0 \/ ~At("idle")) = TRUE
  BY NetInt DEF Net, Tracked
<1>2. CASE Tracked'
  <2>1. (row.qty > 0 \/ ~At("idle"))' = TRUE
    BY <1>2 DEF Tracked
  <2>2. (swing \/ adrift)' = (swing \/ adrift)
    BY <1>2 DEF Handed
  <2> QED BY <1>1, <2>1, <2>2
<1>3. CASE ~Tracked'
  <2>1. op'.at = "idle" /\ row'.qty \in Nat /\ ~(row'.qty > 0)
    BY <1>3, SMTT(30) DEF Tracked, At, IInv, TypeOK, Row
  <2>2. (swing \/ adrift)' \/ Net <= 0
    <3>1. Ours' => Net' <= row'.qty
      BY <2>1 DEF Settled, RowCovers
    <3>2. row'.qty = 0
      BY <2>1
    <3> QED BY <1>1, <3>1, <3>2 DEF Ours
  <2>3. (row.qty > 0 \/ ~At("idle"))' = FALSE
    BY <1>3 DEF Tracked
  <2>4. (swing \/ adrift)' \in BOOLEAN
    OBVIOUS
  <2>5. Owned!Forget
    BY <1>1, <2>2, <2>3, <2>4 DEF Owned!Forget
  <2> QED BY <2>5 DEF Owned!Next
<1> QED BY <1>2, <1>3

\* Nothing the abstract specification sees.
LEMMA Unseen ==
    ASSUME UNCHANGED <<bought, sold, adrift, swing, op>>, row'.qty = row.qty
    PROVE  UNCHANGED <<Net, row.qty > 0 \/ ~At("idle"), swing \/ adrift>>
BY DEF Net, At

\* Shares leave a tracked position, which stays tracked.
LEMMA SharesLeave ==
    ASSUME Net' < Net, Tracked, Tracked', UNCHANGED <<swing, adrift>> PROVE Owned!Sell
<1>1. (row.qty > 0 \/ ~At("idle")) = TRUE /\ (row.qty > 0 \/ ~At("idle"))' = TRUE
  BY DEF Tracked
<1> QED BY <1>1 DEF Owned!Sell

LEMMA EnterPromise ==
    ASSUME IInv, Enter \/ EnterOnPaperOnly
    PROVE  [Owned!Next]_<<Net, row.qty > 0 \/ ~At("idle"), swing \/ adrift>>
<1>1. UNCHANGED <<sold, row, swing>> /\ op.at = "idle"
  BY DEF Enter, EnterOnPaperOnly, PaperEnters, At
<1>2. CASE UNCHANGED <<bought, adrift, op>>
  BY <1>1, <1>2, Unseen
<1>3. CASE Enter /\ \E k \in 0..Qty : bought' = bought + k
  <2>1. Net' >= Net
    <3>1. bought \in Int /\ sold \in Int /\ Qty \in Nat BY Numbers DEF IInv, TypeOK
    <3>2. PICK k \in 0..Qty : bought' = bought + k BY <1>3
    <3> QED BY <1>1, <3>1, <3>2 DEF Net
  <2>2. (row.qty > 0 \/ ~At("idle")) = FALSE
    <3>1. row.qty = 0
      BY <1>3 DEF Enter
    <3>2. ~(row.qty > 0) /\ At("idle")
      BY <1>1, <3>1 DEF At
    <3> QED BY <3>2
  <2>3. CASE adrift' = TRUE /\ UNCHANGED op
    <3>1. (row.qty > 0 \/ ~At("idle"))' = FALSE /\ (swing \/ adrift)' = TRUE
      BY <1>1, <2>2, <2>3 DEF At
    <3>2. Owned!Lose
      BY <2>1, <3>1 DEF Owned!Lose
    <3> QED BY <3>2 DEF Owned!Next
  <2>4. CASE /\ UNCHANGED adrift \/ adrift' = TRUE
             /\ \E c \in BOOLEAN : op' = [op EXCEPT !.at = "entry_book", !.chan = c]
    <3>1. op'.at = "entry_book"
      BY <2>4 DEF IInv, TypeOK, Op
    <3>2. (row.qty > 0 \/ ~At("idle"))' = TRUE
      BY <3>1 DEF At
    <3>4. (swing \/ adrift)' = (swing \/ adrift) \/ (swing \/ adrift)' = TRUE
      <4>1. CASE UNCHANGED adrift BY <1>1, <4>1
      <4>2. CASE adrift' = TRUE BY <4>2
      <4> QED BY <2>4, <4>1, <4>2
    <3>3. Owned!Buy
      BY <2>1, <2>2, <3>2, <3>4 DEF Owned!Buy
    <3> QED BY <3>3 DEF Owned!Next
  <2>5. \/ UNCHANGED <<bought, adrift, op>>
        \/ adrift' = TRUE /\ UNCHANGED op
        \/ /\ UNCHANGED adrift \/ adrift' = TRUE
           /\ \E c \in BOOLEAN : op' = [op EXCEPT !.at = "entry_book", !.chan = c]
    BY <1>3 DEF Enter
  <2> QED BY <2>3, <2>4, <2>5, <1>2
<1>4. Enter => UNCHANGED <<bought, adrift, op>> \/ \E k \in 0..Qty : bought' = bought + k
  <2>1. Qty \in 0..Qty /\ 0..(Qty - 1) \subseteq 0..Qty BY Numbers
  <2> QED BY <2>1 DEF Enter
<1> QED BY <1>2, <1>3, <1>4 DEF EnterOnPaperOnly

\* No call of the scan thread buys, and a market sell is one of its calls.
LEMMA StepShares ==
    ASSUME IInv, Step
    PROVE  /\ UNCHANGED <<bought, swing>> /\ op.at # "idle"
           /\ UNCHANGED <<sold, adrift>> \/ LegSell \/ ExitSell
<1>1. CASE Entry
  BY <1>1 DEF Entry, EntryBook, EntryStopCall, EntryStopOk, EntryStopFailed, EntryTargetCall,
              TargetOk, End, At, kotak
<1>2. CASE Leg
  BY <1>2 DEF Leg, LegTarget, LegStop, LegSell, LegUnsold, LegRestored, LegUnrestored, LegBook,
              LegNewStop, LegNewStopOk, LegNewStopFailed, LegSweep, LegNextTarget, LegEnd, At, kotak
<1>3. CASE Exit
  BY <1>3 DEF Exit, ExitCheck, ExitStop, ExitTarget, ExitSell, ExitBook, ExitFailed, At, kotak
<1>4. CASE Sync
  BY <1>4 DEF Sync, SyncPaper, SyncQty, SyncLive, SyncClock, SyncOpen, SyncCancel, SyncPlace,
              SyncOk, SyncFailed, At, kotak
<1> QED BY <1>1, <1>2, <1>3, <1>4 DEF Step

\* What the two market sells do to the counts.
LEMMA SellShares ==
    ASSUME IInv, LegSell \/ ExitSell
    PROVE  /\ sold' \in Nat /\ sold' >= sold
           /\ UNCHANGED adrift \/ adrift' = TRUE
<1>1. SoldNow \in Nat /\ row.qty \in Nat /\ sold \in Nat
  BY SoldNowType, NetInt DEF IInv, TypeOK
<1>2. PICK q \in Nat : \E ok, failed : Sell(q, ok, failed)
  BY <1>1 DEF LegSell, ExitSell
<1>3. /\ sold' = sold \/ \E k \in 0..q : sold' = sold + k
      /\ UNCHANGED adrift \/ adrift' = TRUE
  <2>1. q \in 0..q /\ 0..(q - 1) \subseteq 0..q
    OBVIOUS
  <2> QED BY <1>2, <2>1 DEF Sell
<1> QED BY <1>1, <1>3

LEMMA StepPromise ==
    ASSUME IInv, IInv', Settled', Step
    PROVE  [Owned!Next]_<<Net, row.qty > 0 \/ ~At("idle"), swing \/ adrift>>
<1>1. UNCHANGED <<bought, swing>> /\ op.at # "idle" /\ Tracked
  BY StepShares DEF Tracked, At
<1>2. CASE UNCHANGED <<sold, adrift>>
  <2>1. Handed' = Handed
    BY <1>1, <1>2 DEF Handed
  <2> QED BY <1>1, <1>2, <2>1, NoShareMoves
<1>3. CASE LegSell \/ ExitSell
  <2>1. op.at \in {"leg_sell", "exit_sell"} /\ row' = row
    BY <1>3 DEF LegSell, ExitSell, At
  <2>2. row.qty > 0
    BY <2>1 DEF IInv, HasRow
  <2>3. Tracked'
    BY <2>1, <2>2 DEF Tracked
  <2>4. Net' <= Net /\ Net \in Int /\ Net' \in Int /\ (Net' = Net => UNCHANGED sold)
    <3>1. bought \in Int /\ sold \in Int BY Numbers DEF IInv, TypeOK
    <3>2. sold' \in Nat /\ sold' >= sold BY <1>3, SellShares
    <3>3. Net = bought - sold /\ Net' = bought - sold' BY <1>1 DEF Net
    <3>4. \A b, n, m \in Int : n <= m => b - m <= b - n /\ (b - m = b - n => n = m)
      OBVIOUS
    <3>5. sold \in Int /\ sold' \in Int /\ sold <= sold' BY <3>1, <3>2
    <3>6. Net \in Int /\ Net' \in Int BY <3>1, <3>3, <3>5
    <3>7. Net' <= Net /\ (Net' = Net => sold' = sold) BY <3>1, <3>3, <3>4, <3>5
    <3> QED BY <3>6, <3>7
  <2>5. CASE UNCHANGED adrift
    <3>1. CASE UNCHANGED sold
      BY <1>2, <2>5, <3>1
    <3>2. CASE ~UNCHANGED sold
      <4>1. Net' < Net
        BY <2>4, <3>2
      <4>2. Owned!Sell
        BY <1>1, <2>3, <2>5, <4>1, SharesLeave
      <4> QED BY <4>2 DEF Owned!Next
    <3> QED BY <3>1, <3>2
  <2>6. CASE adrift' = TRUE
    <3>1. (row.qty > 0 \/ ~At("idle")) = TRUE /\ (row.qty > 0 \/ ~At("idle"))' = TRUE
      BY <1>1, <2>3 DEF Tracked
    <3>2. Owned!Missell
      BY <2>4, <2>6, <3>1 DEF Owned!Missell
    <3> QED BY <3>2 DEF Owned!Next
  <2> QED BY <1>3, <2>5, <2>6, SellShares
<1> QED BY <1>2, <1>3, StepShares

LEMMA FillPromise ==
    ASSUME IInv, NEW o \in Ids, Fill(o) PROVE Owned!Sell
<1>1. UNCHANGED <<bought, adrift, swing, row, op>> /\ sold' = sold + book[o].qty
  BY DEF Fill
<1>2. book[o].qty \in Nat /\ book[o].qty > 0 /\ bought \in Int /\ sold \in Int
  <2>1. book[o] \in Order BY DEF IInv, TypeOK, Ids
  <2> QED BY <2>1, Numbers DEF Order, IInv, TypeOK
<1>3. Net' < Net
  BY <1>1, <1>2 DEF Net
<1> QED BY <1>1, <1>3 DEF Owned!Sell, At

LEMMA RestartPromise ==
    ASSUME IInv, IInv', Settled, Settled', Restart
    PROVE  [Owned!Next]_<<Net, row.qty > 0 \/ ~At("idle"), swing \/ adrift>>
<1>1. /\ UNCHANGED <<bought, sold, swing>> /\ op'.at = "idle"
      /\ row' = [mirror EXCEPT !.tagged = FALSE] /\ adrift' = (adrift \/ op.at = "entry_book")
  BY DoneOp DEF Restart, Done, At
<1>2. row'.qty = mirror.qty
  BY <1>1 DEF IInv, TypeOK, Row
<1>3. CASE Tracked
  <2>1. Handed' = Handed \/ ~Tracked'
    <3>1. CASE op.at = "entry_book"
      <4>1. row'.qty = 0
        BY <1>2, <3>1 DEF Settled, NoneLeft
      <4> QED BY <1>1, <4>1 DEF Tracked, At
    <3>2. CASE op.at # "entry_book"
      BY <1>1, <3>2 DEF Handed, IInv, TypeOK
    <3> QED BY <3>1, <3>2
  <2> QED BY <1>1, <1>3, <2>1, NoShareMoves
<1>4. CASE ~Tracked
  <2>1. op.at = "idle" /\ row.qty = 0
    BY <1>4, NetInt DEF Tracked, At
  <2>2. row'.qty = 0 /\ adrift' = adrift
    BY <1>1, <1>2, <2>1 DEF Settled, NoneLeft, IInv, TypeOK
  <2> QED BY <1>1, <2>1, <2>2 DEF Net, At
<1> QED BY <1>3, <1>4

LEMMA NextPromise ==
    IInv /\ IInv' /\ Settled /\ Settled' /\ [Next]_vars
        => [Owned!Next]_<<Net, row.qty > 0 \/ ~At("idle"), swing \/ adrift>>
<1> SUFFICES ASSUME IInv, IInv', Settled, Settled', [Next]_vars
             PROVE  [Owned!Next]_<<Net, row.qty > 0 \/ ~At("idle"), swing \/ adrift>>
  OBVIOUS
<1>1. CASE Enter \/ EnterOnPaperOnly BY <1>1, EnterPromise
<1>2. CASE BookPaperLeg \/ PaperExit
  <2>1. UNCHANGED <<bought, sold, adrift, swing, row>>
    BY <1>2 DEF BookPaperLeg, PaperExit, kotak
  <2>2. CASE Tracked
    BY <2>1, <2>2, NoShareMoves DEF Handed
  <2>3. CASE ~Tracked
    <3>1. UNCHANGED op
      BY <1>2, <2>3 DEF Tracked, BookPaperLeg, PaperExit
    <3> QED BY <2>1, <3>1, Unseen
  <2> QED BY <2>2, <2>3
<1>3. CASE Tick
  <2>1. UNCHANGED <<bought, sold, adrift>> /\ Tracked
    BY <1>3 DEF Tick, Tracked, kotak
  <2>2. Handed' = Handed \/ ~Tracked'
    <3>1. CASE UNCHANGED swing
      BY <2>1, <3>1 DEF Handed
    <3>2. CASE Push(NoRow) /\ UNCHANGED op
      BY <1>3, <3>2, Records DEF Tick, Push, Tracked, At
    <3> QED BY <1>3, <3>1, <3>2 DEF Tick
  <2> QED BY <2>1, <2>2, NoShareMoves
<1>4. CASE Step BY <1>4, StepPromise
<1>5. CASE ClockRuns
  <2>1. UNCHANGED <<bought, sold, adrift, swing, op>> /\ row' = [row EXCEPT !.clock = "over"]
    BY <1>5 DEF ClockRuns, kotak
  <2>2. row'.qty = row.qty
    BY <2>1 DEF IInv, TypeOK, Row
  <2> QED BY <2>1, <2>2, Unseen
<1>6. CASE Restart BY <1>6, RestartPromise
<1>7. CASE \E o \in Ids : Fill(o) BY <1>7, FillPromise DEF Owned!Next
<1>8. CASE UNCHANGED vars BY <1>8, Unseen DEF vars
<1> QED BY <1>1, <1>2, <1>3, <1>4, <1>5, <1>6, <1>7, <1>8 DEF Next

\* Under the same condition the long implements OwnedPosition: nothing is bought while the
\* position is tracked, and it is given up only when its shares are gone or handed over.
THEOREM Implements == ASSUME OnlyOurs PROVE Spec => KeepsPromise
<1>1. Init => Owned!Init
  BY Records DEF Init, Owned!Init, Net, At, Idle
<1> QED BY <1>1, SpecSettled, NextPromise, PTL DEF Spec, KeepsPromise, Owned!Spec

-----------------------------------------------------------------------------
(* At most one stop rests. Two arguments: Kotak has no room for a second   *)
(* stop as long as the account holds no other shares; and without a        *)
(* restart the row never loses the id of a stop that rests.                *)

\* No stop is added, and those that still rest are what they were.
Shrinks == /\ Resting("sl")' \subseteq Resting("sl")
           /\ \A o \in Resting("sl")' : book'[o].qty = book[o].qty

\* A stop is added for which there was room.
Adds(q) == /\ Room(q) /\ Resting("sl")' \subseteq Resting("sl") \cup {Len(book) + 1}
           /\ Len(book) + 1 \notin Ids /\ book'[Len(book) + 1].qty = q
           /\ \A o \in Ids : book'[o] = book[o]
           /\ op'.order = Len(book) + 1

LEMMA SameBook == ASSUME UNCHANGED book PROVE Shrinks
BY DEF Shrinks, Resting, Live, Ids

LEMMA StatusShrinks ==
    ASSUME IInv, NEW o \in Ids, NEW s \in {"filled", "cancelled"},
           book' = [book EXCEPT ![o].status = s]
    PROVE  Shrinks /\ o \notin Resting("sl")'
<1>1. book \in Seq(Order) /\ \A p \in Ids : book[p] \in Order
  BY DEF IInv, TypeOK, Ids
<1>2. book' = [book EXCEPT ![o] = [book[o] EXCEPT !.status = s]] /\ [book[o] EXCEPT !.status = s] \in Order
  BY <1>1 DEF Order
<1>3. Len(book') = Len(book) /\ \A p \in Ids : book'[p] = IF p = o THEN [book[o] EXCEPT !.status = s] ELSE book[p]
  BY <1>1, <1>2 DEF Ids
<1>4. book'[o].status = s /\ s # "resting"
  BY <1>1, <1>3 DEF Order
<1>5. o \notin Resting("sl")'
  BY <1>4 DEF Resting, Live
<1>6. ASSUME NEW p \in Resting("sl")' PROVE p \in Resting("sl") /\ book'[p] = book[p]
  <2>1. p \in Ids /\ p # o
    BY <1>3, <1>5, <1>6 DEF Resting, Ids
  <2> QED BY <1>3, <1>6, <2>1 DEF Resting, Live
<1> QED BY <1>5, <1>6 DEF Shrinks

\* cancel_real_order: when it succeeds the order no longer rests.
LEMMA CancelShrinks ==
    ASSUME IInv, NEW o, Cancel(o, TRUE, TRUE) PROVE Shrinks
<1>1. CASE UNCHANGED book BY <1>1, SameBook
<1>2. CASE Live(o) /\ book' = [book EXCEPT ![o].status = "cancelled"]
  BY <1>2, StatusShrinks DEF Live
<1> QED BY <1>1, <1>2 DEF Cancel

LEMMA SweepShrinks == ASSUME IInv, NEW kind, Sweep(kind) PROVE Shrinks
<1>1. CASE UNCHANGED book BY <1>1, SameBook
<1>2. CASE book' = [o \in Ids |-> IF o \in Resting(kind)
                                  THEN [book[o] EXCEPT !.status = "cancelled"] ELSE book[o]]
  <2>1. book \in Seq(Order) /\ Len(book) \in Nat /\ \A o \in Ids : book[o] \in Order
    BY DEF IInv, TypeOK, Ids
  <2>2. Len(book') = Len(book)
    <3>1. book' \in Seq(Order)
      <4>1. \A o \in Ids : [book[o] EXCEPT !.status = "cancelled"] \in Order
        BY <2>1 DEF Order
      <4> QED BY <1>2, <2>1, <4>1 DEF Ids
    <3>2. DOMAIN book' = 1..Len(book)
      BY <1>2 DEF Ids
    <3> QED BY <2>1, <3>1, <3>2
  <2>3. ASSUME NEW p \in Resting("sl")' PROVE p \in Resting("sl") /\ book'[p].qty = book[p].qty
    <3>1. p \in Ids /\ book'[p].status = "resting" /\ book'[p].kind = "sl"
      BY <2>2 DEF Resting, Live, Ids
    <3>2. book'[p] = book[p]
      BY <1>2, <2>1, <3>1 DEF Order
    <3> QED BY <3>1, <3>2 DEF Resting, Live
  <2> QED BY <2>3 DEF Shrinks
<1> QED BY <1>1, <1>2 DEF Sweep

\* An order is placed or not.
LEMMA RestShrinksOrAdds ==
    ASSUME IInv, NEW kind \in {"sl", "target"}, NEW q, NEW level, NEW ok, NEW failed,
           Rest(kind, q, level, ok, failed)
    PROVE  /\ Shrinks \/ (kind = "sl" /\ Adds(q) /\ op'.at = ok)
           /\ op'.at \in {ok, failed}
           /\ op'.at = failed \/ op'.order = Len(book) + 1
<1>1. CASE UNCHANGED book /\ \E why \in {"short", "other", "cas", "t1"} : op' = [op EXCEPT !.at = failed, !.why = why]
  <2>1. op'.at = failed
    BY <1>1 DEF IInv, TypeOK, Op
  <2> QED BY <1>1, <2>1, SameBook
<1>2. CASE /\ book' = Append(book, [kind |-> kind, qty |-> q, level |-> level, status |-> "resting"])
           /\ op' = [op EXCEPT !.at = ok, !.order = Len(book) + 1] /\ Room(q)
  <2>1. op'.at = ok /\ op'.order = Len(book) + 1
    BY <1>2 DEF IInv, TypeOK, Op
  <2>2. /\ Len(book) \in Nat /\ Len(book') = Len(book) + 1
        /\ \A o \in Ids : book'[o] = book[o]
        /\ book'[Len(book) + 1] = [kind |-> kind, qty |-> q, level |-> level, status |-> "resting"]
    BY <1>2 DEF Ids, IInv, TypeOK
  <2>3. Ids' = Ids \cup {Len(book) + 1} /\ Len(book) + 1 \notin Ids
    BY <2>2 DEF Ids
  <2>4. ASSUME NEW p \in Resting("sl")', p \in Ids PROVE p \in Resting("sl") /\ book'[p] = book[p]
    BY <2>2, <2>4 DEF Resting, Live
  <2>5. CASE kind = "sl"
    <3>1. Resting("sl")' \subseteq Resting("sl") \cup {Len(book) + 1}
      BY <2>3, <2>4 DEF Resting
    <3>2. book'[Len(book) + 1].qty = q
      BY <2>2
    <3> QED BY <1>2, <2>1, <2>2, <2>3, <2>5, <3>1, <3>2 DEF Adds
  <2>6. CASE kind = "target"
    <3>1. Len(book) + 1 \notin Resting("sl")'
      BY <2>2, <2>6 DEF Resting
    <3>2. Resting("sl")' \subseteq Ids
      BY <2>3, <3>1 DEF Resting
    <3> QED BY <2>1, <2>4, <3>2 DEF Shrinks
  <2> QED BY <2>1, <2>5, <2>6
<1> QED BY <1>1, <1>2 DEF Rest

\* Only four calls place a stop.
LEMMA StepStops ==
    ASSUME IInv, Next PROVE Shrinks \/ EntryStopCall \/ LegUnsold \/ LegNewStop \/ SyncPlace
<1>1. CASE Enter \/ EnterOnPaperOnly \/ BookPaperLeg \/ PaperExit \/ Tick \/ ClockRuns \/ Restart
  <2>1. UNCHANGED book
    BY <1>1 DEF Enter, EnterOnPaperOnly, PaperEnters, BookPaperLeg, PaperExit, Tick, ClockRuns,
                Restart, kotak
  <2> QED BY <2>1, SameBook
<1>2. CASE Entry
  <2>1. CASE EntryTargetCall
    <3>1. UNCHANGED book \/ Rest("target", TargetQty, NoLevel, "target_ok", "end")
      BY <2>1 DEF EntryTargetCall
    <3> QED BY <3>1, SameBook, RestShrinksOrAdds
  <2>2. CASE EntryBook \/ EntryStopOk \/ EntryStopFailed \/ TargetOk \/ End
    <3>1. UNCHANGED book
      BY <2>2 DEF EntryBook, EntryStopOk, EntryStopFailed, TargetOk, End, kotak
    <3> QED BY <3>1, SameBook
  <2> QED BY <1>2, <2>1, <2>2 DEF Entry
<1>3. CASE Leg
  <2>1. CASE LegTarget \/ LegStop
    <3>1. UNCHANGED book \/ Cancel(row.target, TRUE, TRUE) \/ Cancel(row.sl, TRUE, TRUE)
      BY <2>1 DEF LegTarget, LegStop, Cancel
    <3> QED BY <3>1, SameBook, CancelShrinks
  <2>2. CASE LegNextTarget
    BY <2>2, RestShrinksOrAdds DEF LegNextTarget
  <2>3. CASE LegSweep
    <3>1. Sweep("target") \/ Cancel(row.target, TRUE, TRUE) BY <2>3 DEF LegSweep, Cancel
    <3> QED BY <3>1, CancelShrinks, SweepShrinks
  <2>4. CASE LegSell \/ LegRestored \/ LegUnrestored \/ LegBook \/ LegNewStopOk
             \/ LegNewStopFailed \/ LegEnd
    <3>1. UNCHANGED book
      BY <2>4 DEF LegSell, LegRestored, LegUnrestored, LegBook, LegNewStopOk, LegNewStopFailed,
                  LegEnd, kotak
    <3> QED BY <3>1, SameBook
  <2> QED BY <1>3, <2>1, <2>2, <2>3, <2>4 DEF Leg
<1>4. CASE Exit
  <2>1. UNCHANGED book \/ Cancel(row.target, TRUE, TRUE) \/ Cancel(row.sl, TRUE, TRUE)
    BY <1>4 DEF Exit, ExitCheck, ExitStop, ExitTarget, ExitSell, ExitBook, ExitFailed, Cancel, kotak
  <2> QED BY <2>1, SameBook, CancelShrinks
<1>5. CASE Sync
  <2>1. CASE SyncCancel
    <3>1. Cancel(row.sl, TRUE, TRUE) \/ Sweep("sl") BY <2>1 DEF SyncCancel, Cancel
    <3> QED BY <3>1, CancelShrinks, SweepShrinks
  <2>2. CASE SyncPaper \/ SyncQty \/ SyncLive \/ SyncClock \/ SyncOpen \/ SyncOk \/ SyncFailed
    <3>1. UNCHANGED book
      BY <2>2 DEF SyncPaper, SyncQty, SyncLive, SyncClock, SyncOpen, SyncOk, SyncFailed, kotak
    <3> QED BY <3>1, SameBook
  <2> QED BY <1>5, <2>1, <2>2 DEF Sync
<1>6. CASE \E o \in Ids : Fill(o)
  BY <1>6, StatusShrinks DEF Fill
<1> QED BY <1>1, <1>2, <1>3, <1>4, <1>5, <1>6 DEF Next, Step

LEMMA OneAtMost ==
    ASSUME NEW S, \A o, p \in S : o = p PROVE Cardinality(S) <= 1
<1>1. CASE S = {} BY <1>1, FS_EmptySet
<1>2. CASE S # {}
  <2>1. PICK o \in S : TRUE BY <1>2
  <2>2. S = {o} BY <2>1
  <2>3. Cardinality({o}) = 1 BY FS_Singleton
  <2> QED BY <2>2, <2>3
<1> QED BY <1>1, <1>2

\* Nothing is done before the first buy, unless an order was taken for one.
Born == (bought = 0 /\ ~adrift) => row.qty = 0 /\ mirror.qty = 0 /\ op.at = "idle" /\ book = <<>>

\* What has gone adrift stays so.
LEMMA AdriftStays == ASSUME IInv, [Next]_vars, ~adrift' PROVE ~adrift
<1>1. CASE Step BY <1>1, StepShares, SellShares
<1>2. CASE ~Step
  BY <1>2 DEF Next, Enter, EnterOnPaperOnly, PaperEnters, BookPaperLeg, PaperExit, Tick, ClockRuns,
              Restart, Fill, kotak, vars, IInv, TypeOK
<1> QED BY <1>1, <1>2

LEMMA NextBorn == ASSUME IInv, Born, [Next]_vars PROVE Born'
<1> SUFFICES ASSUME bought' = 0, ~adrift'
             PROVE  row'.qty = 0 /\ mirror'.qty = 0 /\ op'.at = "idle" /\ book' = <<>>
  BY DEF Born
<1>0. Qty > 0 /\ Qty \in Nat /\ bought \in Nat
  BY Numbers DEF IInv, TypeOK
<1>1. bought = 0 /\ ~adrift
  <2>1. bought' = bought \/ bought' = bought + Qty \/ adrift' = TRUE
    <3>1. CASE Step BY <3>1, StepShares
    <3> QED BY <3>1 DEF Next, Enter, EnterOnPaperOnly, BookPaperLeg, PaperExit, Tick, ClockRuns,
                        Restart, Fill, kotak, vars
  <2> QED BY <1>0, <2>1, AdriftStays
<1>2. row.qty = 0 /\ mirror.qty = 0 /\ op.at = "idle" /\ book = <<>>
  BY <1>1 DEF Born
<1>3. CASE Enter
  <2>1. bought + Qty # 0
    BY <1>0
  <2>2. UNCHANGED <<row, mirror, book, op>>
    BY <1>0, <1>1, <1>3, <2>1 DEF Enter, PaperEnters
  <2> QED BY <1>2, <2>2
<1>4. CASE EnterOnPaperOnly \/ BookPaperLeg \/ PaperExit
  <2>1. UNCHANGED <<row, mirror, book, op>>
    BY <1>2, <1>4 DEF EnterOnPaperOnly, PaperEnters, BookPaperLeg, PaperExit, kotak
  <2> QED BY <1>2, <2>1
<1>5. ~Tick /\ ~Step
  BY <1>2, StepShares DEF Tick
<1>6. CASE ClockRuns
  BY <1>2, <1>6 DEF ClockRuns, kotak, IInv, TypeOK, Row
<1>7. CASE Restart
  <2>1. op'.at = "idle"
    BY <1>7, DoneOp DEF Restart, Done
  <2> QED BY <1>2, <1>7, <2>1 DEF Restart, IInv, TypeOK, Row
<1>8. CASE \E o \in Ids : Fill(o)
  BY <1>2, <1>8 DEF Ids
<1>9. CASE UNCHANGED vars
  BY <1>2, <1>9 DEF vars
<1> QED BY <1>3, <1>4, <1>5, <1>6, <1>7, <1>8, <1>9 DEF Next

\* No step but an entry raises what Kotak holds.
LEMMA NetFalls ==
    ASSUME IInv, [Next]_vars, ~Enter PROVE bought' = bought /\ sold' \in Nat /\ sold' >= sold
<1>0. sold \in Nat /\ bought \in Nat
  BY Numbers DEF IInv, TypeOK
<1>1. CASE UNCHANGED <<bought, sold>>
  BY <1>0, <1>1
<1>2. CASE Step
  <2>1. bought' = bought /\ (UNCHANGED sold \/ LegSell \/ ExitSell)
    BY <1>2, StepShares
  <2>2. CASE UNCHANGED sold BY <1>0, <2>1, <2>2
  <2> QED BY <2>1, <2>2, SellShares
<1>3. CASE \E o \in Ids : Fill(o)
  <2>1. PICK o \in Ids : Fill(o) BY <1>3
  <2>2. book[o] \in Order BY DEF IInv, TypeOK, Ids
  <2>3. book[o].qty \in Nat BY <2>2, Numbers DEF Order
  <2> QED BY <1>0, <2>1, <2>3 DEF Fill
<1>4. CASE EnterOnPaperOnly \/ BookPaperLeg \/ PaperExit \/ Tick \/ ClockRuns \/ Restart \/ UNCHANGED vars
  BY <1>1, <1>4 DEF EnterOnPaperOnly, PaperEnters, BookPaperLeg, PaperExit, Tick, ClockRuns, Restart,
                    kotak, vars
<1> QED BY <1>2, <1>3, <1>4 DEF Next

\* What another engine owns stays with it.
LEMMA OursBefore == ASSUME IInv, [Next]_vars, Ours' PROVE Ours
<1>1. CASE Step BY <1>1, StepShares, AdriftStays DEF Ours
<1>2. CASE ~Step
  BY <1>2 DEF Next, Enter, EnterOnPaperOnly, PaperEnters, BookPaperLeg, PaperExit, Tick, ClockRuns,
              Restart, Fill, kotak, vars, Ours, IInv, TypeOK
<1> QED BY <1>1, <1>2

\* Every stop at Kotak is for all that is held, and there is one at most.
Bears == Ours => /\ \A o \in Resting("sl") : Covers(o)
                 /\ \A o, p \in Resting("sl") : o = p

\* The four calls that place a stop ask for all that is held.
LEMMA StopsAskedFor ==
    ASSUME IInv, Settled, EntryStopCall \/ LegUnsold \/ LegNewStop \/ SyncPlace
    PROVE  /\ UNCHANGED <<bought, sold, adrift, swing>>
           /\ Shrinks \/ \E q \in 1..MaxBought : Adds(q) /\ (Ours => Net <= q)
<1>1. /\ op.at \in {"entry_stop", "leg_unsold", "leg_newstop", "sync_place"}
      /\ UNCHANGED <<bought, sold, adrift, swing>>
  BY DEF EntryStopCall, LegUnsold, LegNewStop, SyncPlace, At
<1>2. Ours => Net <= row.qty /\ (op.at = "entry_stop" => Net <= Qty)
  BY <1>1 DEF Settled, RowCovers
<1>3. row.qty \in 1..MaxBought /\ Qty \in 1..MaxBought
  BY <1>1, Numbers DEF IInv, HasRow, TypeOK, Row
<1>4. CASE EntryStopCall
  <2>1. Rest("sl", Qty, paper.stop, "entry_stop_ok", "entry_stop_failed") /\ op.at = "entry_stop"
    BY <1>4 DEF EntryStopCall, At
  <2> QED BY <1>1, <1>2, <1>3, <2>1, RestShrinksOrAdds
<1>5. CASE LegUnsold \/ LegNewStop \/ SyncPlace
  <2>1. UNCHANGED book \/ \E level, ok, failed : Rest("sl", row.qty, level, ok, failed)
    BY <1>5 DEF LegUnsold, LegNewStop, SyncPlace
  <2> QED BY <1>1, <1>2, <1>3, <2>1, SameBook, RestShrinksOrAdds
<1> QED BY <1>4, <1>5

LEMMA NextBears ==
    ASSUME OnlyOurs PROVE IInv /\ Settled /\ Born /\ Bears /\ [Next]_vars => Bears'
<1> SUFFICES ASSUME IInv, Settled, Born, Bears, [Next]_vars, Ours'
             PROVE  /\ \A o \in Resting("sl")' : Covers(o)'
                    /\ \A o, p \in Resting("sl")' : o = p
  BY DEF Bears
<1>0. bought \in Nat /\ sold \in Nat /\ Net = bought - sold /\ Net \in Int
  BY Numbers DEF IInv, TypeOK, Net
<1>1. Ours
  BY OursBefore
<1>2. /\ \A o \in Resting("sl") : Covers(o)
      /\ \A o, p \in Resting("sl") : o = p
  BY <1>1 DEF Bears
<1>3. CASE Enter
  <2>1. Shrinks
    <3>1. UNCHANGED book BY <1>3 DEF Enter, PaperEnters
    <3> QED BY <3>1, SameBook
  <2>2. Resting("sl") = {}
    <3>1. Net <= 0 /\ sold = 0
      <4>1. row.qty = 0 /\ sold = 0 /\ op.at = "idle"
        BY <1>3 DEF Enter, PaperEnters, At
      <4> QED BY <1>1, <4>1 DEF Settled, RowCovers
    <3>2. bought = 0
      BY <1>0, <3>1
    <3> QED BY <1>1, <3>2 DEF Born, Ours, Resting, Live, Ids
  <2> QED BY <2>1, <2>2 DEF Shrinks
<1>4. ASSUME ~Enter PROVE Net' <= Net /\ Net' \in Int
  <2>1. Net' = bought' - sold' BY DEF Net
  <2> QED BY <1>0, <1>4, <2>1, NetFalls
<1>5. CASE Shrinks /\ ~Enter
  <2>1. ASSUME NEW o \in Resting("sl")' PROVE Covers(o)'
    <3>1. o \in Resting("sl") /\ book'[o].qty = book[o].qty /\ Covers(o)
      BY <1>2, <1>5 DEF Shrinks
    <3>2. Live(o)' /\ book[o].qty \in Int
      <4>1. book[o] \in Order BY <3>1 DEF IInv, TypeOK, Resting, Ids
      <4> QED BY <4>1, Numbers DEF Resting, Order
    <3>3. Net' <= book'[o].qty \/ Net' <= 0
      BY <1>0, <1>4, <1>5, <3>1, <3>2 DEF Covers
    <3> QED BY <3>2, <3>3 DEF Covers
  <2> QED BY <1>2, <1>5, <2>1 DEF Shrinks
<1>6. CASE (EntryStopCall \/ LegUnsold \/ LegNewStop \/ SyncPlace) /\ ~Shrinks
  <2>1. PICK q \in 1..MaxBought : Adds(q) /\ Net <= q
    BY <1>1, <1>6, StopsAskedFor
  <2>2. Net' = Net
    BY <1>6, StopsAskedFor DEF Net
  <2>3. Resting("sl") = {}
    <3> SUFFICES ASSUME NEW o \in Resting("sl") PROVE FALSE
      OBVIOUS
    <3>1. ~Room(q)
      BY <1>2, NoRoomBeside
    <3> QED BY <2>1, <3>1 DEF Adds
  <2>4. Resting("sl")' \subseteq {Len(book) + 1}
    BY <2>1, <2>3 DEF Adds
  <2>5. ASSUME NEW o \in Resting("sl")' PROVE Covers(o)'
    <3>1. o = Len(book) + 1 /\ Live(o)'
      BY <2>4 DEF Resting
    <3> QED BY <2>1, <2>2, <3>1 DEF Covers, Adds
  <2> QED BY <2>4, <2>5
<1>7. UNCHANGED vars => Shrinks
  BY SameBook DEF vars
<1> QED BY <1>3, <1>5, <1>6, <1>7, StepStops

\* When the account holds no other shares of the symbol, at most one stop of the position
\* rests at Kotak, whatever was refused, lost, unread or cut off, until the symbol is left
\* to the swing engine.
THEOREM OneStopOfOurs == ASSUME OnlyOurs PROVE Spec => [](Ours => AtMostOneStop)
<1>1. Init => Born /\ Bears
  <2> SUFFICES ASSUME Init PROVE Born /\ Bears
    OBVIOUS
  <2>1. Born
    BY Records DEF Init, Born, Idle
  <2>2. Resting("sl") = {}
    BY DEF Init, Resting, Live, Ids
  <2> QED BY <2>1, <2>2 DEF Bears
<1>2. Bears => (Ours => AtMostOneStop)
  BY OneAtMost DEF Bears, AtMostOneStop
<1> QED BY <1>1, <1>2, SpecSettled, NextBorn, NextBears, PTL DEF Spec

\* Without a restart: where no stop rests, where the call knows the one that does, and
\* elsewhere the row does; a row that went with a stop left behind went after a sell.
NoRestart == "restart" \notin Faults

Bare == {"entry_book", "entry_stop", "leg_sell", "leg_unsold", "leg_unrestored", "leg_book",
         "leg_newstop", "leg_newstop_failed", "sync_place", "sync_failed"}

Kept ==
    /\ op.at \in Bare => Resting("sl") = {}
    /\ op.at \in StopPlaced => Resting("sl") \subseteq {op.order}
    /\ op.at \notin StopPlaced /\ row.qty > 0 => Resting("sl") \subseteq {row.sl}
    /\ row.qty = 0 => sold > 0 \/ Resting("sl") = {}
    /\ op.at = "exit_book" => sold > 0
    /\ \A o, p \in Resting("sl") : o = p

\* No stop rests afterwards.
LEMMA BareKept ==
    ASSUME Resting("sl")' = {}, op'.at # "exit_book" PROVE Kept'
BY DEF Kept

\* A stop is placed where none rests.
LEMMA AddKept ==
    ASSUME IInv, Kept, op.at \in Bare \ {"entry_book"}, UNCHANGED row, NEW q, Adds(q), op'.at \in StopPlaced
    PROVE  Kept'
<1>1. Resting("sl")' \subseteq {op'.order}
  BY DEF Kept, Adds
<1>2. row'.qty > 0 /\ op'.at \notin Bare \cup {"exit_book"} /\ row'.qty # 0
  BY NetInt DEF IInv, HasRow, Bare, StopPlaced
<1> QED BY <1>1, <1>2 DEF Kept

\* A row keeps or gets the id of the stop that rests.
LEMMA RowKept ==
    ASSUME IInv, Kept, Shrinks, row.qty > 0, row'.qty > 0,
           op'.at \notin Bare \cup StopPlaced, op'.at = "exit_book" => sold' > 0,
           op.at \in StopPlaced => row'.sl = op.order,
           op.at \notin StopPlaced => row'.sl = row.sl \/ ~Live(row.sl)
    PROVE  Kept'
<1>1. Resting("sl")' \subseteq {row'.sl}
  <2>1. CASE op.at \in StopPlaced
    BY <2>1 DEF Kept, Shrinks
  <2>2. CASE op.at \notin StopPlaced
    BY <2>2 DEF Kept, Shrinks, Resting
  <2> QED BY <2>1, <2>2
<1>2. ~(row'.qty = 0)
  OBVIOUS
<1> QED BY <1>1, <1>2 DEF Kept

\* A row goes after a sell.
LEMMA DropKept ==
    ASSUME Kept, Shrinks, row' = NoRow, op'.at = "idle", sold' > 0 PROVE Kept'
<1>1. "idle" \notin Bare \cup StopPlaced
  BY DEF Bare, StopPlaced
<1>2. \A o, p \in Resting("sl")' : o = p
  BY DEF Kept, Shrinks
<1>3. row'.qty = 0 /\ ~(row'.qty > 0)
  BY Records
<1> QED BY <1>1, <1>2, <1>3 DEF Kept

\* Nothing but fills and time.
LEMMA StillKept ==
    ASSUME IInv, Kept, Shrinks, UNCHANGED op, row'.qty = row.qty, row'.sl = row.sl,
           sold' \in Nat, sold' >= sold
    PROVE  Kept'
<1>1. sold > 0 => sold' > 0
  BY Numbers DEF IInv, TypeOK
<1> QED BY <1>1 DEF Kept, Shrinks

\* A row without a stop's id has no stop at Kotak.
LEMMA NoneKnown ==
    ASSUME IInv, Kept, row.qty > 0, op.at \notin StopPlaced, ~Live(row.sl)
    PROVE  Resting("sl") = {}
BY DEF Kept, Resting

LEMMA NoOrderRests == ASSUME IInv PROVE ~Live(NoOrder)
BY DEF Live, Ids, NoOrder, IInv, TypeOK

\* A cancel that succeeds.
LEMMA CancelledIsGone ==
    ASSUME IInv, NEW o, NEW ok, NEW failed, Cancel(o, ok, failed)
    PROVE  Shrinks /\ (o \notin Resting("sl")' \/ failed)
<1>1. CASE UNCHANGED book /\ failed
  BY <1>1, SameBook
<1>2. CASE Live(o) /\ book' = [book EXCEPT ![o].status = "cancelled"]
  BY <1>2, StatusShrinks DEF Live
<1> QED BY <1>1, <1>2 DEF Cancel

LEMMA EntryKept == ASSUME IInv, Kept, Entry PROVE Kept'
<1>0. {"idle", "exit_check", "entry_target", "target_ok", "end"}
         \cap (Bare \cup StopPlaced \cup {"exit_book"}) = {}
  BY DEF Bare, StopPlaced
<1>1. CASE EntryBook
  <2>1. UNCHANGED book /\ Go("entry_stop") /\ op.at = "entry_book"
    BY <1>1 DEF EntryBook, At, kotak
  <2>2. Resting("sl")' = {}
    BY <2>1, SameBook DEF Kept, Bare, Shrinks
  <2> QED BY <2>1, <2>2, GoOp, BareKept
<1>2. CASE EntryStopCall
  <2>1. /\ Rest("sl", Qty, paper.stop, "entry_stop_ok", "entry_stop_failed")
        /\ op.at = "entry_stop" /\ UNCHANGED row
    BY <1>2 DEF EntryStopCall, At
  <2>2. Resting("sl") = {} /\ op.at \in Bare \ {"entry_book"}
    BY <2>1 DEF Kept, Bare
  <2>3. CASE Shrinks
    BY <2>1, <2>2, <2>3, RestShrinksOrAdds, BareKept DEF Shrinks
  <2>4. CASE Adds(Qty) /\ op'.at = "entry_stop_ok"
    BY <2>1, <2>2, <2>4, AddKept DEF StopPlaced
  <2> QED BY <2>1, <2>3, <2>4, RestShrinksOrAdds
<1>3. CASE EntryStopOk \/ EntryStopFailed \/ EntryTargetCall \/ TargetOk \/ End
  <2>1. op.at \in {"entry_stop_ok", "entry_stop_failed", "entry_target", "target_ok", "end"}
    BY <1>3 DEF EntryStopOk, EntryStopFailed, EntryTargetCall, TargetOk, End, At
  <2>2. row.qty > 0 /\ row \in Row /\ op \in Op /\ TypeOK
    BY <2>1 DEF IInv, HasRow, TypeOK
  <2>3. /\ row'.qty = row.qty
        /\ row'.sl = IF op.at = "entry_stop_ok" THEN op.order ELSE row.sl
    <3>1. CASE EntryStopOk
      <4>1. paper.stop \in 0..MaxLevel BY DEF IInv, TypeOK, Paper, Levels
      <4> QED BY <3>1, <2>2, <4>1, RowFacts DEF EntryStopOk, Push, At
    <3>2. CASE EntryStopFailed
      BY <3>2, <2>2, RowFacts DEF EntryStopFailed, Commit, At
    <3>3. CASE EntryTargetCall \/ End
      BY <3>3 DEF EntryTargetCall, End, At
    <3>4. CASE TargetOk
      BY <3>4, <2>2 DEF TargetOk, Push, At, Row
    <3> QED BY <1>3, <3>1, <3>2, <3>3, <3>4
  <2>4. op'.at \in {"idle", "exit_check", "entry_target", "target_ok", "end"}
    <3>1. CASE Rest("target", TargetQty, NoLevel, "target_ok", "end")
      BY <3>1, RestShrinksOrAdds
    <3>2. CASE Done \/ Go("entry_target") \/ Go("exit_check")
      BY <3>2, DoneOp, GoOp
    <3> QED BY <1>3, <3>1, <3>2 DEF EntryStopOk, EntryStopFailed, EntryTargetCall, TargetOk, End, ToExit
  <2>5. Shrinks
    <3>1. CASE Rest("target", TargetQty, NoLevel, "target_ok", "end")
      BY <3>1, RestShrinksOrAdds
    <3>2. CASE UNCHANGED book BY <3>2, SameBook
    <3> QED BY <1>3, <3>1, <3>2 DEF EntryStopOk, EntryStopFailed, EntryTargetCall, TargetOk, End, kotak
  <2>6. op.at \in StopPlaced => op.at = "entry_stop_ok"
    BY <2>1 DEF StopPlaced
  <2>7. op.at = "entry_stop_ok" => op.at \in StopPlaced
    BY DEF StopPlaced
  <2>8. op'.at \notin Bare \cup StopPlaced /\ op'.at # "exit_book"
    BY <1>0, <2>4
  <2> QED BY <2>2, <2>3, <2>5, <2>6, <2>7, <2>8, RowKept
<1> QED BY <1>1, <1>2, <1>3 DEF Entry

LEMMA LegKept == ASSUME IInv, Kept, Leg PROVE Kept'
<1>0. {"idle", "leg_stop", "leg_sweep", "leg_nexttarget", "leg_end", "target_ok"}
         \cap (Bare \cup StopPlaced \cup {"exit_book"}) = {}
  BY DEF Bare, StopPlaced
<1>1. CASE LegStop
  <2>1. op.at = "leg_stop" /\ row.qty > 0 /\ op.at \notin StopPlaced
    BY <1>1 DEF LegStop, At, IInv, HasRow, StopPlaced
  <2>2. CASE row.sl = NoOrder
    <3>1. UNCHANGED book /\ AfterStop(FALSE)
      BY <1>1, <2>2 DEF LegStop
    <3>2. Resting("sl")' = {}
      BY <2>1, <2>2, <3>1, NoneKnown, NoOrderRests, SameBook DEF Shrinks
    <3>3. op'.at \in {"leg_book", "leg_sell"}
      BY <3>1 DEF AfterStop, IInv, TypeOK, Op
    <3> QED BY <3>2, <3>3, BareKept
  <2>3. CASE row.sl # NoOrder
    <3>1. Cancel(row.sl, AfterStop(TRUE) /\ row' = Degraded(row), Done /\ UNCHANGED row)
      BY <1>1, <2>3 DEF LegStop
    <3>2. CASE Done /\ UNCHANGED row
      <4>1. Shrinks
        BY <3>1, CancelledIsGone
      <4> QED BY <1>0, <2>1, <3>2, <4>1, DoneOp, RowKept
    <3>3. CASE AfterStop(TRUE)
      <4>1. op'.at \in {"leg_book", "leg_sell"}
        BY <3>3 DEF AfterStop, IInv, TypeOK, Op
      <4>2. Shrinks /\ row.sl \notin Resting("sl")'
        BY <3>1, <4>1, DoneOp, CancelledIsGone
      <4>3. Resting("sl")' = {}
        BY <2>1, <4>2 DEF Kept, Shrinks
      <4> QED BY <4>1, <4>3, BareKept
    <3> QED BY <3>1, <3>2, <3>3 DEF Cancel
  <2> QED BY <2>2, <2>3
<1>2. CASE LegSell \/ LegUnrestored \/ LegBook \/ LegNewStopFailed
  <2>1. op.at \in Bare /\ UNCHANGED book
    BY <1>2 DEF LegSell, LegUnrestored, LegBook, LegNewStopFailed, At, Bare, kotak
  <2>2. Resting("sl")' = {}
    BY <2>1, SameBook DEF Kept, Shrinks
  <2>3. op'.at # "exit_book"
    <3>1. CASE LegSell
      BY <3>1 DEF LegSell, Sell, IInv, TypeOK, Op
    <3>2. CASE Done \/ Go("leg_newstop") \/ Go("leg_sweep")
      <4>1. op'.at \in {"idle", "leg_newstop", "leg_sweep"}
        BY <3>2, DoneOp, GoOp
      <4> QED BY <4>1
    <3> QED BY <1>2, <3>1, <3>2 DEF LegUnrestored, LegBook, LegNewStopFailed
  <2> QED BY <2>2, <2>3, BareKept
<1>3. CASE LegUnsold \/ LegNewStop
  <2>1. op.at \in Bare \ {"entry_book"} /\ UNCHANGED row
    BY <1>3 DEF LegUnsold, LegNewStop, At, Bare
  <2>2. Resting("sl") = {}
    BY <2>1 DEF Kept
  <2>3. CASE Done /\ UNCHANGED book
    BY <2>2, <2>3, DoneOp, SameBook, BareKept DEF Shrinks
  <2>4. ASSUME NEW ok \in StopPlaced, NEW failed \in {"leg_unrestored", "leg_newstop_failed"},
               Rest("sl", row.qty, row.level, ok, failed)
        PROVE  Kept'
    <3>1. "exit_book" \notin StopPlaced
      BY DEF StopPlaced
    <3>2. CASE Shrinks
      BY <2>2, <2>4, <3>1, <3>2, RestShrinksOrAdds, BareKept DEF Shrinks
    <3>3. CASE Adds(row.qty) /\ op'.at = ok
      BY <2>1, <3>3, AddKept
    <3> QED BY <2>4, <3>2, <3>3, RestShrinksOrAdds
  <2>5. {"leg_restored", "leg_newstop_ok"} \subseteq StopPlaced
    BY DEF StopPlaced
  <2> QED BY <1>3, <2>3, <2>4, <2>5 DEF LegUnsold, LegNewStop
<1>4. CASE LegTarget \/ LegRestored \/ LegNewStopOk \/ LegSweep \/ LegNextTarget \/ LegEnd
  <2>1. op.at \in {"leg_target", "leg_restored", "leg_newstop_ok", "leg_sweep", "leg_nexttarget", "leg_end"}
    BY <1>4 DEF LegTarget, LegRestored, LegNewStopOk, LegSweep, LegNextTarget, LegEnd, At
  <2>2. row.qty > 0 /\ row \in Row /\ TypeOK /\ row.level \in 0..MaxLevel
    BY <2>1 DEF IInv, HasRow, TypeOK, Row
  <2>3. /\ row'.qty = row.qty
        /\ row'.sl = IF op.at \in {"leg_restored", "leg_newstop_ok"} THEN op.order ELSE row.sl
    <3>1. CASE LegRestored \/ LegNewStopOk
      <4>1. row' = WithStop(row, row.level) /\ op.at \in {"leg_restored", "leg_newstop_ok"}
        BY <3>1 DEF LegRestored, LegNewStopOk, Commit, At
      <4>2. WithStop(row, row.level).qty = row.qty /\ WithStop(row, row.level).sl = op.order
        BY <2>2, RowFacts
      <4> QED BY <4>1, <4>2
    <3>2. CASE LegTarget \/ LegSweep \/ LegNextTarget
      BY <3>2 DEF LegTarget, LegSweep, LegNextTarget, At
    <3>3. CASE LegEnd
      BY <3>3, <2>2 DEF LegEnd, At, Row
    <3> QED BY <1>4, <3>1, <3>2, <3>3
  <2>4. op'.at \in {"idle", "leg_stop", "leg_sweep", "leg_nexttarget", "leg_end", "target_ok"}
    <3>1. CASE LegTarget \/ LegNewStopOk
      BY <3>1 DEF LegTarget, LegNewStopOk, Cancel, Go, IInv, TypeOK, Op
    <3>2. CASE LegNextTarget
      BY <3>2, RestShrinksOrAdds DEF LegNextTarget
    <3>3. CASE LegSweep
      <4>1. Go(AfterSweep) /\ AfterSweep \in {"leg_nexttarget", "leg_end"}
        BY <3>3 DEF LegSweep, Cancel, AfterSweep
      <4> QED BY <4>1, GoOp
    <3>4. CASE LegRestored \/ LegEnd
      BY <3>4, DoneOp DEF LegRestored, LegEnd
    <3> QED BY <1>4, <3>1, <3>2, <3>3, <3>4
  <2>5. Shrinks
    <3>1. CASE LegTarget \/ LegSweep
      <4>1. UNCHANGED book \/ Cancel(row.target, TRUE, TRUE) \/ Sweep("target")
        BY <3>1 DEF LegTarget, LegSweep, Cancel
      <4> QED BY <4>1, SameBook, CancelShrinks, SweepShrinks
    <3>2. CASE LegNextTarget
      BY <3>2, RestShrinksOrAdds DEF LegNextTarget
    <3>3. CASE LegRestored \/ LegNewStopOk \/ LegEnd
      BY <3>3, SameBook DEF LegRestored, LegNewStopOk, LegEnd, kotak
    <3> QED BY <1>4, <3>1, <3>2, <3>3
  <2>6. op.at \in StopPlaced <=> op.at \in {"leg_restored", "leg_newstop_ok"}
    BY <2>1 DEF StopPlaced
  <2>7. op'.at \notin Bare \cup StopPlaced /\ op'.at # "exit_book"
    BY <1>0, <2>4
  <2> QED BY <2>2, <2>3, <2>5, <2>6, <2>7, RowKept
<1> QED BY <1>1, <1>2, <1>3, <1>4 DEF Leg

\* Kotak says that a position is closed only after a sell.
LEMMA ClosedWasSold ==
    ASSUME IInv, Born, ~adrift, row.qty > 0, ~StillOpen PROVE sold > 0
<1>1. bought \in Nat /\ sold \in Nat /\ bought # 0
  BY Numbers DEF IInv, TypeOK, Born
<1> QED BY <1>1 DEF StillOpen

LEMMA ExitKept == ASSUME IInv, Born, Kept, Exit, ~adrift, ~adrift' PROVE Kept'
<1>0. {"idle", "exit_stop", "exit_target", "exit_sell", "exit_failed"}
         \cap (Bare \cup StopPlaced \cup {"exit_book"}) = {}
      /\ "exit_book" \notin Bare \cup StopPlaced
  BY DEF Bare, StopPlaced
<1>1. /\ op.at \in {"exit_check", "exit_stop", "exit_target", "exit_sell", "exit_book", "exit_failed"}
      /\ row.qty > 0 /\ op.at \notin StopPlaced
  BY DEF Exit, ExitCheck, ExitStop, ExitTarget, ExitSell, ExitBook, ExitFailed, At, IInv, HasRow,
         StopPlaced
<1>2. Shrinks
  <2>1. UNCHANGED book \/ Cancel(row.target, TRUE, TRUE) \/ Cancel(row.sl, TRUE, TRUE)
    BY DEF Exit, ExitCheck, ExitStop, ExitTarget, ExitSell, ExitBook, ExitFailed, Cancel, kotak
  <2> QED BY <2>1, SameBook, CancelShrinks
<1>3. CASE ExitCheck
  <2>1. CASE Go("exit_stop") /\ UNCHANGED row
    BY <1>0, <1>1, <1>2, <2>1, GoOp, RowKept
  <2>2. CASE ~StillOpen /\ Push(NoRow) /\ Done
    <3>1. UNCHANGED sold
      BY <1>3 DEF ExitCheck, kotak
    <3> QED BY <1>1, <1>2, <2>2, <3>1, ClosedWasSold, DoneOp, DropKept DEF Push
  <2> QED BY <1>3, <2>1, <2>2 DEF ExitCheck, Read
<1>4. CASE ExitStop \/ ExitTarget
  <2>1. UNCHANGED row /\ (Go("exit_target") \/ Go("exit_sell"))
    BY <1>4 DEF ExitStop, ExitTarget, Cancel
  <2>2. op'.at \in {"exit_target", "exit_sell"}
    BY <2>1, GoOp
  <2> QED BY <1>0, <1>1, <1>2, <2>1, <2>2, RowKept
<1>5. CASE ExitSell
  <2>1. /\ UNCHANGED row
        /\ op'.at = "exit_failed" \/ (op'.at = "exit_book" /\ sold' = sold + row.qty)
    BY <1>5 DEF ExitSell, Sell, IInv, TypeOK, Op
  <2>2. op'.at = "exit_book" => sold' > 0
    BY <1>1, <2>1, NetInt DEF IInv, TypeOK
  <2>3. op'.at \notin Bare \cup StopPlaced
    BY <1>0, <2>1
  <2> QED BY <1>1, <1>2, <2>1, <2>2, <2>3, RowKept
<1>6. CASE ExitBook
  <2>1. row' = NoRow /\ Done /\ UNCHANGED sold /\ op.at = "exit_book"
    BY <1>6 DEF ExitBook, Push, At, kotak
  <2>2. sold' > 0
    BY <2>1 DEF Kept
  <2> QED BY <1>2, <2>1, <2>2, DoneOp, DropKept
<1>7. CASE ExitFailed
  <2>1. UNCHANGED row /\ Done
    BY <1>7 DEF ExitFailed
  <2> QED BY <1>0, <1>1, <1>2, <2>1, DoneOp, RowKept
<1> QED BY <1>3, <1>4, <1>5, <1>6, <1>7 DEF Exit

LEMMA SyncKept == ASSUME IInv, Born, Kept, Sync, ~adrift PROVE Kept'
<1>0. {"idle", "exit_check", "sync_qty", "sync_live", "sync_clock", "sync_open", "sync_cancel"}
         \cap (Bare \cup StopPlaced \cup {"exit_book"}) = {}
  BY DEF Bare, StopPlaced
<1>1. /\ op.at \in {"sync_paper", "sync_qty", "sync_live", "sync_clock", "sync_open", "sync_cancel",
                    "sync_place", "sync_ok", "sync_failed"}
      /\ row.qty > 0 /\ row \in Row /\ TypeOK
  BY DEF Sync, SyncPaper, SyncQty, SyncLive, SyncClock, SyncOpen, SyncCancel, SyncPlace, SyncOk,
         SyncFailed, At, IInv, HasRow, TypeOK
<1>2. op.at # "sync_ok" => op.at \notin StopPlaced
  BY <1>1 DEF StopPlaced
<1>3. CASE SyncPaper
  <2>1. op.at = "sync_paper" /\ Shrinks /\ UNCHANGED sold
    BY <1>3, SameBook DEF SyncPaper, At, kotak
  <2>2. CASE Go("sync_qty") /\ UNCHANGED row
    BY <1>0, <1>1, <1>2, <2>1, <2>2, GoOp, RowKept
  <2>3. CASE ~StillOpen /\ Push(NoRow) /\ Done
    BY <1>1, <2>1, <2>3, ClosedWasSold, DoneOp, DropKept DEF Push
  <2> QED BY <1>3, <2>2, <2>3 DEF SyncPaper, Read
<1>4. CASE SyncQty
  <2>1. op.at = "sync_qty" /\ Shrinks /\ (Go("sync_clock") \/ Go("sync_live"))
    BY <1>4, SameBook DEF SyncQty, AfterQty, At, kotak
  <2>2. row'.qty > 0 /\ row'.sl = row.sl
    <3>1. row' = row \/ (row' = [row EXCEPT !.qty = Net] /\ Net > 0)
      BY <1>4 DEF SyncQty, Read, Commit
    <3> QED BY <1>1, <3>1 DEF Row
  <2>3. op'.at \in {"sync_clock", "sync_live"}
    BY <2>1, GoOp
  <2> QED BY <1>0, <1>1, <1>2, <2>1, <2>2, <2>3, RowKept
<1>5. CASE SyncLive
  <2>1. op.at = "sync_live" /\ Shrinks /\ Go("sync_clock")
    BY <1>5, SameBook DEF SyncLive, At, kotak
  <2>2. row'.qty > 0 /\ (row'.sl = row.sl \/ ~Live(row.sl))
    <3>1. CASE row' = row
      BY <1>1, <3>1
    <3>2. CASE ~Live(row.sl) /\ row' = [NoStop(row) EXCEPT !.level = NoLevel]
      <4>1. NoStop(row) \in Row /\ NoStop(row).qty = row.qty
        BY <1>1, RowFacts
      <4>2. \A r \in Row : [r EXCEPT !.level = NoLevel].qty = r.qty
        BY DEF Row
      <4> QED BY <1>1, <3>2, <4>1, <4>2
    <3> QED BY <1>5, <3>1, <3>2 DEF SyncLive, Read, Commit
  <2> QED BY <1>0, <1>1, <1>2, <2>1, <2>2, GoOp, RowKept
<1>6. CASE SyncClock \/ SyncOpen
  <2>1. /\ op.at \in {"sync_clock", "sync_open"} /\ Shrinks /\ row' \in {row, Degraded(row)}
        /\ (Done \/ Go("exit_check") \/ Go("sync_open") \/ Go("sync_cancel"))
    BY <1>6, SameBook DEF SyncClock, SyncOpen, ToExit, Read, At, kotak
  <2>2. row'.qty = row.qty /\ row'.sl = row.sl
    BY <1>1, <2>1, RowFacts
  <2>3. op'.at \in {"idle", "exit_check", "sync_open", "sync_cancel"}
    BY <2>1, GoOp, DoneOp
  <2> QED BY <1>0, <1>1, <1>2, <2>1, <2>2, <2>3, RowKept
<1>7. CASE SyncCancel
  <2>1. op.at = "sync_cancel" /\ UNCHANGED row
    BY <1>7 DEF SyncCancel, At
  <2>2. CASE row.sl # NoOrder
    <3>1. Cancel(row.sl, Go("sync_place"), Done)
      BY <1>7, <2>2 DEF SyncCancel
    <3>2. Shrinks
      BY <3>1, CancelledIsGone
    <3>3. CASE Done
      BY <1>0, <1>1, <1>2, <2>1, <3>2, <3>3, DoneOp, RowKept
    <3>4. CASE Go("sync_place") /\ ~Done
      <4>1. row.sl \notin Resting("sl")'
        BY <3>1, <3>4, CancelledIsGone
      <4>2. Resting("sl")' = {}
        BY <1>1, <1>2, <2>1, <3>2, <4>1 DEF Kept, Shrinks
      <4> QED BY <3>4, <4>2, GoOp, BareKept
    <3> QED BY <3>1, <3>3, <3>4 DEF Cancel
  <2>3. CASE row.sl = NoOrder
    <3>1. Sweep("sl") /\ Go("sync_place")
      BY <1>7, <2>3 DEF SyncCancel
    <3>2. Resting("sl")' = {}
      BY <1>1, <1>2, <2>1, <2>3, <3>1, NoneKnown, NoOrderRests, SweepShrinks DEF Shrinks
    <3> QED BY <3>1, <3>2, GoOp, BareKept
  <2> QED BY <2>2, <2>3
<1>8. CASE SyncPlace
  <2>1. /\ op.at \in Bare \ {"entry_book"} /\ UNCHANGED row
        /\ Rest("sl", row.qty, paper.stop, "sync_ok", "sync_failed")
    BY <1>8 DEF SyncPlace, At, Bare
  <2>2. Resting("sl") = {} /\ "sync_ok" \in StopPlaced
    BY <2>1 DEF Kept, StopPlaced
  <2>3. CASE Shrinks
    BY <2>1, <2>2, <2>3, RestShrinksOrAdds, BareKept DEF Shrinks
  <2>4. CASE Adds(row.qty) /\ op'.at = "sync_ok"
    BY <2>1, <2>2, <2>4, AddKept
  <2> QED BY <2>1, <2>3, <2>4, RestShrinksOrAdds
<1>9. CASE SyncOk
  <2>1. /\ op.at = "sync_ok" /\ Shrinks /\ Done /\ row' = WithStop(row, paper.stop)
    BY <1>9, SameBook DEF SyncOk, Push, At, kotak
  <2>2. row'.qty = row.qty /\ row'.sl = op.order
    <3>1. paper.stop \in 0..MaxLevel BY DEF IInv, TypeOK, Paper, Levels
    <3> QED BY <1>1, <2>1, <3>1, RowFacts
  <2>3. op.at \in StopPlaced
    BY <2>1 DEF StopPlaced
  <2> QED BY <1>0, <1>1, <2>1, <2>2, <2>3, DoneOp, RowKept
<1>10. CASE SyncFailed
  <2>1. op.at \in Bare /\ UNCHANGED book /\ (Done \/ Go("exit_check"))
    BY <1>10 DEF SyncFailed, ToExit, At, Bare, kotak
  <2>2. Resting("sl")' = {}
    BY <2>1, SameBook DEF Kept, Shrinks
  <2>3. op'.at \in {"idle", "exit_check"}
    BY <2>1, DoneOp, GoOp
  <2> QED BY <2>2, <2>3, BareKept
<1> QED BY <1>3, <1>4, <1>5, <1>6, <1>7, <1>8, <1>9, <1>10 DEF Sync

LEMMA NextKept ==
    ASSUME NoRestart PROVE IInv /\ Born /\ (~adrift => Kept) /\ [Next]_vars => (~adrift => Kept)'
<1> SUFFICES ASSUME IInv, Born, ~adrift, ~adrift', Kept, [Next]_vars PROVE Kept'
  BY AdriftStays
<1>0. {"idle", "leg_target", "exit_check", "sync_qty", "sync_paper"}
         \cap (Bare \cup StopPlaced \cup {"exit_book"}) = {}
  BY DEF Bare, StopPlaced
<1>1. bought \in Nat /\ sold \in Nat /\ sold \in Int
  BY Numbers DEF IInv, TypeOK
<1>2. CASE Step
  BY <1>2, EntryKept, LegKept, ExitKept, SyncKept DEF Step
<1>3. CASE Enter
  <2>1. op.at = "idle" /\ row.qty = 0 /\ sold = 0 /\ UNCHANGED book
    BY <1>3 DEF Enter, PaperEnters, At
  <2>2. Resting("sl")' = {}
    <3>1. Resting("sl") = {}
      BY <2>1 DEF Kept
    <3> QED BY <2>1, <3>1, SameBook DEF Shrinks
  <2>3. op'.at # "exit_book"
    BY <1>3, <2>1 DEF Enter, IInv, TypeOK, Op
  <2> QED BY <2>2, <2>3, BareKept
<1>4. CASE EnterOnPaperOnly \/ BookPaperLeg \/ PaperExit
  <2>1. UNCHANGED <<row, sold>> /\ Shrinks /\ op.at = "idle"
    BY <1>4, SameBook DEF EnterOnPaperOnly, PaperEnters, BookPaperLeg, PaperExit, At, kotak
  <2>2. CASE UNCHANGED op
    BY <1>1, <2>1, <2>2, StillKept
  <2>3. CASE row.qty > 0 /\ op'.at \in {"leg_target", "exit_check", "idle"}
    BY <1>0, <2>1, <2>3, RowKept
  <2>4. UNCHANGED op \/ (row.qty > 0 /\ op'.at \in {"leg_target", "exit_check", "idle"})
    <3>1. CASE EnterOnPaperOnly BY <3>1 DEF EnterOnPaperOnly
    <3>2. CASE BookPaperLeg
      BY <3>2 DEF BookPaperLeg, Idle
    <3>3. CASE PaperExit
      <4>1. UNCHANGED op \/ (row.qty > 0 /\ (Done \/ Go("exit_check")))
        BY <3>3 DEF PaperExit, ToExit
      <4> QED BY <4>1, DoneOp, GoOp
    <3> QED BY <1>4, <3>1, <3>2, <3>3
  <2> QED BY <2>2, <2>3, <2>4
<1>5. CASE Tick
  <2>1. op.at = "idle" /\ row.qty > 0 /\ UNCHANGED sold /\ Shrinks
    BY <1>5, SameBook DEF Tick, At, kotak
  <2>2. CASE Orphan(row)
    <3>1. UNCHANGED op /\ ~Live(row.sl)
      BY <1>5, <2>2, NoOrderRests DEF Tick, Orphan
    <3>2. Resting("sl")' = {}
      <4>1. op.at \notin StopPlaced
        BY <2>1 DEF StopPlaced
      <4> QED BY <2>1, <3>1, <4>1, NoneKnown DEF Shrinks
    <3>3. op'.at # "exit_book"
      BY <2>1, <3>1
    <3> QED BY <3>2, <3>3, BareKept
  <2>3. CASE ~Orphan(row)
    <3>1. UNCHANGED row /\ (Go("sync_qty") \/ Go("sync_paper"))
      BY <1>5, <2>3 DEF Tick
    <3>2. op'.at \in {"sync_qty", "sync_paper"}
      BY <3>1, GoOp
    <3> QED BY <1>0, <2>1, <3>1, <3>2, RowKept
  <2> QED BY <2>2, <2>3
<1>6. CASE ClockRuns
  <2>1. Shrinks /\ UNCHANGED <<op, sold>> /\ row' = [row EXCEPT !.clock = "over"]
    BY <1>6, SameBook DEF ClockRuns, kotak
  <2>2. row'.qty = row.qty /\ row'.sl = row.sl
    BY <2>1 DEF IInv, TypeOK, Row
  <2> QED BY <1>1, <2>1, <2>2, StillKept
<1>7. ASSUME NEW o \in Ids, Fill(o) PROVE Kept'
  <2>1. Shrinks /\ UNCHANGED <<row, op>>
    BY <1>7, StatusShrinks DEF Fill
  <2>2. book[o].qty \in Nat
    <3>1. book[o] \in Order BY DEF IInv, TypeOK, Ids
    <3> QED BY <3>1, Numbers DEF Order
  <2>3. sold' \in Nat /\ sold' >= sold
    BY <1>1, <1>7, <2>2 DEF Fill
  <2> QED BY <2>1, <2>3, StillKept
<1>8. CASE UNCHANGED vars
  <2>1. Shrinks /\ UNCHANGED <<row, op, sold>>
    BY <1>8, SameBook DEF vars
  <2> QED BY <1>1, <2>1, StillKept
<1>9. ~Restart
  BY DEF NoRestart, Restart, Fault
<1> QED BY <1>2, <1>3, <1>4, <1>5, <1>6, <1>7, <1>8, <1>9 DEF Next

\* As long as the process is not restarted, at most one stop of the position rests at
\* Kotak, whatever else the account holds and whatever was refused, lost or unread, until a buy
\* goes unbooked or an order id is taken for an execution.
THEOREM OneStopAlive == ASSUME NoRestart PROVE Spec => [](~adrift => AtMostOneStop)
<1>1. Init => Born /\ Kept
  <2> SUFFICES ASSUME Init PROVE Born /\ Kept
    OBVIOUS
  <2>1. Born
    BY Records DEF Init, Born, Idle
  <2>2. Resting("sl") = {} /\ op.at = "idle"
    BY DEF Init, Resting, Live, Ids, Idle
  <2> QED BY <2>1, <2>2 DEF Kept
<1>2. Kept => AtMostOneStop
  BY OneAtMost DEF Kept, AtMostOneStop
<1> QED BY <1>1, <1>2, InitIInv, NextKeeps, NextBorn, NextKept, PTL DEF Spec
=============================================================================

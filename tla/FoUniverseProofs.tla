-------------------------- MODULE FoUniverseProofs --------------------------
(***************************************************************************)
(* Proofs about FoUniverse, for any number of stocks and any faults: type  *)
(* correctness, OneResolve and CycleComplete.                              *)
(***************************************************************************)
EXTENDS FoUniverse, TLAPS

USE NAssumption, FaultsAssumption

-----------------------------------------------------------------------------
(***************************************************************************)
(* Rotated turns: arithmetic modulo N.                                     *)
(***************************************************************************)
LEMMA ModRange == ASSUME NEW x \in Nat PROVE x % N \in Stocks
BY SMT DEF Stocks
LEMMA ModUnder == ASSUME NEW x \in 0..(N - 1) PROVE x % N = x
BY SMT
LEMMA ModOnce == ASSUME NEW x \in N..(2 * N - 1) PROVE x % N = x - N
BY SMT
LEMMA ModTwice == ASSUME NEW x \in (2 * N)..(3 * N - 1) PROVE x % N = x - 2 * N
BY SMT

\* Two turns one after the other are one turn.
LEMMA ModAdds ==
    ASSUME NEW x \in 0..(2 * N - 2), NEW y \in 0..N
    PROVE  ((x % N) + y) % N = (x + y) % N
<1>1. CASE x < N BY <1>1, ModUnder
<1>2. CASE x >= N
  <2>1. x % N = x - N BY <1>2, ModOnce
  <2>2. CASE x - N + y < N
    <3>1. ((x % N) + y) % N = x - N + y BY <1>2, <2>1, <2>2, ModUnder
    <3>2. (x + y) % N = x + y - N BY <1>2, <2>2, ModOnce
    <3> QED BY <3>1, <3>2
  <2>3. CASE x - N + y >= N
    <3>1. ((x % N) + y) % N = x - N + y - N BY <1>2, <2>1, <2>3, ModOnce
    <3>2. (x + y) % N = x + y - 2 * N BY <1>2, <2>3, ModTwice
    <3> QED BY <3>1, <3>2
  <2> QED BY <2>2, <2>3
<1> QED BY <1>1, <1>2

LEMMA TurnTyped == ASSUME NEW f \in Stocks, NEW k \in Nat PROVE Turn(f, k) \subseteq Stocks
<1>1. \A i \in 0..(k - 1) : (f + i) % N \in Stocks
  <2> TAKE i \in 0..(k - 1)
  <2>1. f + i \in Nat BY DEF Stocks
  <2> QED BY <2>1, ModRange
<1> QED BY <1>1 DEF Turn

\* A turn of N stocks or more reaches all.
LEMMA TurnCovers == ASSUME NEW f \in Stocks, NEW k \in Nat, k >= N PROVE Turn(f, k) = Stocks
<1>1. ASSUME NEW s \in Stocks PROVE s \in Turn(f, k)
  <2>1. CASE s >= f
    <3>1. (f + (s - f)) % N = s BY ModUnder DEF Stocks
    <3>2. s - f \in 0..(k - 1) BY <2>1 DEF Stocks
    <3> QED BY <3>1, <3>2 DEF Turn
  <2>2. CASE s < f
    <3>1. (f + (s - f + N)) % N = s
      <4>1. f + (s - f + N) = s + N /\ s + N \in N..(2 * N - 1) BY DEF Stocks
      <4> QED BY <4>1, ModOnce DEF Stocks
    <3>2. s - f + N \in 0..(k - 1) BY <2>2 DEF Stocks
    <3> QED BY <3>1, <3>2 DEF Turn
  <2> QED BY <2>1, <2>2 DEF Stocks
<1> QED BY <1>1, TurnTyped

\* A second turn begins where the first one ended.
LEMMA TurnAdds ==
    ASSUME NEW f \in Stocks, NEW a \in 0..(N - 1), NEW b \in 0..N
    PROVE  /\ Turn(f, a) \cup Turn((f + a) % N, b) = Turn(f, a + b)
           /\ (((f + a) % N) + b) % N = (f + (a + b)) % N
<1>1. ASSUME NEW y \in 0..N PROVE (((f + a) % N) + y) % N = (f + (a + y)) % N
  <2>1. f + a \in 0..(2 * N - 2) /\ (f + a) + y = f + (a + y) BY DEF Stocks
  <2> QED BY <2>1, ModAdds
<1>2. ASSUME NEW s PROVE s \in Turn((f + a) % N, b) <=> \E j \in a..(a + b - 1) : s = (f + j) % N
  <2>1. ASSUME NEW i \in 0..(b - 1), s = (((f + a) % N) + i) % N
        PROVE  \E j \in a..(a + b - 1) : s = (f + j) % N
    <3>1. a + i \in a..(a + b - 1) /\ i \in 0..N OBVIOUS
    <3> QED BY <1>1, <2>1, <3>1
  <2>2. ASSUME NEW j \in a..(a + b - 1), s = (f + j) % N
        PROVE  \E i \in 0..(b - 1) : s = (((f + a) % N) + i) % N
    <3>1. j - a \in 0..(b - 1) /\ j - a \in 0..N /\ a + (j - a) = j OBVIOUS
    <3> QED BY <1>1, <2>2, <3>1
  <2> QED BY <2>1, <2>2 DEF Turn
<1>3. 0..(a + b - 1) = (0..(a - 1)) \cup (a..(a + b - 1)) OBVIOUS
<1>4. Turn(f, a) \cup Turn((f + a) % N, b) = Turn(f, a + b)
  <2>1. ASSUME NEW s
        PROVE  s \in Turn(f, a + b) <=> s \in Turn(f, a) \/ s \in Turn((f + a) % N, b)
    <3>1. s \in Turn(f, a + b) <=> \E j \in 0..(a + b - 1) : s = (f + j) % N BY DEF Turn
    <3>2. s \in Turn(f, a) <=> \E j \in 0..(a - 1) : s = (f + j) % N BY DEF Turn
    <3> QED BY <1>2, <1>3, <3>1, <3>2, Zenon
  <2> QED BY <2>1
<1> QED BY <1>1, <1>4

-----------------------------------------------------------------------------
(***************************************************************************)
(* Type correctness.                                                       *)
(***************************************************************************)
ThreadState == [Owners -> Thread]

LEMMA FaultTyped == ASSUME TypeOK, NEW k, Fault(k) PROVE faults' \in Nat
BY DEF TypeOK, Fault

LEMMA StartTyped ==
    ASSUME TypeOK, NEW o \in Owners, NEW scope \in {"index", "full"}, Start(o, scope)
    PROVE  thread' \in ThreadState
<1>1. offset \in Stocks BY DEF TypeOK
<1>2. [at |-> "running", scope |-> scope, from |-> offset, tries |-> 0, gets |-> {}] \in Thread
  BY <1>1 DEF Thread
<1> QED BY <1>2 DEF Start, TypeOK, ThreadState

LEMMA IdleTyped == NoThread \in Thread
BY DEF NoThread, Thread, Stocks

LEMMA AbandonTyped ==
    ASSUME TypeOK, NEW o \in Owners, Abandon(o)
    PROVE  thread' \in ThreadState /\ orphans' \in Nat /\ faults' \in Nat
BY IdleTyped, FaultTyped DEF Abandon, TypeOK, ThreadState

LEMMA ReturnTyped == ASSUME TypeOK, NEW o \in Owners, Return(o) PROVE TypeOK'
<1>1. PICK k \in IF thread[o].scope = "index" THEN {0} ELSE 0..N, gets \in SUBSET {"index", "stocks"} :
          /\ thread' = [thread EXCEPT ![o].at = "returned", ![o].tries = k, ![o].gets = gets]
          /\ report' = IF thread[o].scope = "index" THEN 0 ELSE N - k
          /\ faults' = faults \/ Fault("starved") \/ Fault("no_price")
  BY DEF Return, Asked
<1>2. k \in 0..N BY <1>1
<1>3. [thread[o] EXCEPT !.at = "returned", !.tries = k, !.gets = gets] \in Thread
  BY <1>2 DEF TypeOK, Thread
<1>4. thread' \in ThreadState BY <1>1, <1>3 DEF TypeOK, ThreadState
<1>5. report' \in 0..N BY <1>1, <1>2
<1>6. faults' \in Nat BY <1>1, FaultTyped DEF TypeOK
<1> QED BY <1>4, <1>5, <1>6 DEF Return, TypeOK, ThreadState, cache, back, rounds

LEMMA FoundTyped == ASSUME NEW t, NEW kind PROVE Found(t, kind) \in {"live", "none"}
BY DEF Found

LEMMA LandTyped ==
    ASSUME TypeOK, NEW o \in Owners, Land(o)
    PROVE  /\ stocks' \in [Stocks -> Legs] /\ index' \in Legs
           /\ partial' \in BOOLEAN /\ age' \in {"new", "settled", "old"}
           /\ offset' \in Stocks /\ due' \in BOOLEAN /\ counted' \in 0..N
           /\ (due' => counted' < N)
           /\ tried' \in SUBSET Stocks /\ mixed' \in BOOLEAN /\ thread' \in ThreadState
<1> DEFINE t == thread[o]
<1>0. t \in Thread /\ t.from \in Stocks /\ t.tries \in 0..N BY DEF TypeOK, Thread
<1>1. stocks' \in [Stocks -> Legs] /\ index' \in Legs
  BY FoundTyped DEF Land, Resolved, TypeOK, Legs
<1>2. Attempted \in 0..N /\ Cumulative \in Nat BY DEF TypeOK, Attempted, Cumulative
<1>3. offset' \in Stocks
  <2>1. t.from + Attempted \in Nat BY <1>0, <1>2 DEF Stocks
  <2> QED BY <2>1, ModRange DEF Land, NextOffset
<1>4. due' \in BOOLEAN /\ counted' \in 0..N /\ (due' => counted' < N)
  BY <1>2 DEF Land, More
<1>5. tried' \in SUBSET Stocks BY <1>0, TurnTyped DEF Land, TypeOK
<1>6. mixed' \in BOOLEAN /\ thread' \in ThreadState BY IdleTyped DEF Land, TypeOK, ThreadState
<1> QED BY <1>1, <1>3, <1>4, <1>5, <1>6 DEF Land

LEMMA TypeInit == Init => TypeOK
<1> SUFFICES ASSUME Init PROVE TypeOK OBVIOUS
<1>1. thread \in ThreadState BY IdleTyped DEF Init, ThreadState
<1>2. stocks \in [Stocks -> Legs] /\ index \in Legs \cup {"unresolved"} BY DEF Init, Legs
<1>3. offset \in Stocks /\ counted \in 0..N /\ report \in 0..N BY DEF Init, Stocks
<1> QED BY <1>1, <1>2, <1>3 DEF Init, TypeOK, ThreadState

LEMMA TypeNext == TypeOK /\ [Next]_vars => TypeOK'
<1> SUFFICES ASSUME TypeOK, [Next]_vars PROVE TypeOK' OBVIOUS
<1> USE DEF cache, back, rounds, ThreadState
<1>1. CASE ColdStart BY <1>1, StartTyped DEF ColdStart, TypeOK, Owners
<1>2. CASE ResolveFirst BY <1>2, StartTyped DEF ResolveFirst, TypeOK, Owners
<1>3. CASE UseCached BY <1>3 DEF UseCached, TypeOK
<1>4. CASE IndexLands
  <2>1. index' \in Legs BY <1>4, FoundTyped DEF IndexLands, Legs
  <2>2. thread' \in ThreadState BY <1>4, StartTyped, IdleTyped DEF IndexLands, TypeOK, Owners
  <2> QED BY <1>4, <2>1, <2>2 DEF IndexLands, TypeOK
<1>5. CASE FullLands
  <2>1. Land("main") /\ "main" \in Owners BY <1>5 DEF FullLands, Owners
  <2> QED BY <1>5, <2>1, LandTyped DEF FullLands, TypeOK
<1>6. CASE ResolveTimesOut BY <1>6, AbandonTyped DEF ResolveTimesOut, TypeOK, Owners
<1>7. CASE Connect BY <1>7, FaultTyped DEF Connect, TypeOK
<1>8. CASE Drop BY <1>8, FaultTyped DEF Drop, TypeOK
<1>9. CASE Retry BY <1>9 DEF Retry, TypeOK
<1>10. CASE Collect BY <1>10 DEF Collect, TypeOK, AfterSwap
<1>11. CASE BackgroundStarts BY <1>11, StartTyped DEF BackgroundStarts, TypeOK, Owners
<1>12. CASE BackgroundLands
  <2>1. Land("background") /\ "background" \in Owners BY <1>12 DEF BackgroundLands, Owners
  <2> QED BY <1>12, <2>1, LandTyped DEF BackgroundLands, TypeOK
<1>13. CASE BackgroundFails BY <1>13, AbandonTyped DEF BackgroundFails, TypeOK, Owners
<1>14. CASE \E o \in Owners : Return(o) BY <1>14, ReturnTyped
<1>15. CASE OrphanEnds BY <1>15 DEF OrphanEnds, TypeOK
<1>16. CASE RetryDue BY <1>16, ZenonT(30) DEF RetryDue, TypeOK
<1>19. CASE Settles \/ FourHours BY <1>19 DEF Settles, FourHours, TypeOK
<1>17. CASE Midnight
  <2>1. index' \in Legs \cup {"unresolved"} BY <1>17 DEF Midnight, TypeOK, Legs
  <2>2. stocks' \in [Stocks -> Legs] BY <1>17 DEF Midnight, TypeOK, Legs
  <2> QED BY <1>17, <2>1, <2>2 DEF Midnight, TypeOK
<1>18. CASE UNCHANGED vars BY <1>18 DEF vars, TypeOK
<1> QED BY <1>1, <1>2, <1>3, <1>4, <1>5, <1>6, <1>7, <1>8, <1>9, <1>10, <1>11, <1>12, <1>13,
           <1>14, <1>15, <1>16, <1>17, <1>18, <1>19 DEF Next, Main, Wake, Background

\* The type invariant, for any number of stocks and any faults.
THEOREM TypeCorrect == Spec => []TypeOK
BY TypeInit, TypeNext, PTL DEF Spec

-----------------------------------------------------------------------------
(***************************************************************************)
(* The inductive invariant: who resolves when, and where the turns are.    *)
(***************************************************************************)
Resolving == {"resolve_index", "resolve_full"}

Exclusive ==
    /\ thread["main"].at # "idle" => phase \in Resolving
    /\ thread["background"].at # "idle" => task = "running"
    /\ phase \in Resolving => task # "running"
    /\ index = "unresolved" => task # "running" /\ phase \notin {"login", "streaming"}
    /\ phase = "resolve_index" => thread["main"].scope = "index"

StartedHere == \A o \in Owners : thread[o].at # "idle" => thread[o].from = offset

\* The stocks tried in this cycle are the turn that ends where the next round starts.
Rotated ==
    due /\ ~mixed => /\ counted < N
                     /\ \E f \in Stocks : tried = Turn(f, counted) /\ offset = (f + counted) % N

IInv == Exclusive /\ StartedHere /\ Rotated

Covered(o) == ~due' /\ thread[o].tries > 0 /\ ~mixed' => tried' = Stocks

\* A round continues the turn of its cycle and ends the cycle only when all had theirs.
LEMMA LandKeepsRotated ==
    ASSUME TypeOK, IInv, NEW o \in Owners, Land(o) PROVE Rotated' /\ Covered(o)
<1> DEFINE t == thread[o]
<1>0. /\ t.from = offset /\ t.tries \in 0..N /\ offset \in Stocks /\ report \in 0..N
      /\ counted \in 0..N /\ due \in BOOLEAN /\ mixed \in BOOLEAN
  BY DEF Land, IInv, StartedHere, TypeOK, Thread
<1>1. CASE mixed'
  BY <1>1 DEF Rotated, Covered
<1>2. CASE ~mixed'
  <2>1. report = N - t.tries /\ ~(due /\ mixed) BY <1>2 DEF Land
  <2>2. Attempted = t.tries BY <1>0, <2>1 DEF Attempted
  <2>3. PICK f \in Stocks, c \in 0..(N - 1) :
            /\ (IF due THEN tried ELSE {}) = Turn(f, c) /\ offset = (f + c) % N
            /\ c = (IF due THEN counted ELSE 0)
    <3>1. CASE due BY <1>0, <2>1, <3>1 DEF IInv, Rotated
    <3>2. CASE ~due
      <4>1. Turn(offset, 0) = {} BY DEF Turn
      <4>2. (offset + 0) % N = offset BY <1>0, ModUnder DEF Stocks
      <4> QED BY <1>0, <3>2, <4>1, <4>2
    <3> QED BY <3>1, <3>2
  <2>4. Cumulative = c + t.tries BY <2>2, <2>3 DEF Cumulative
  <2>5. tried' = Turn(f, c + t.tries) /\ offset' = (f + (c + t.tries)) % N
    <3>1. tried' = Turn(f, c) \cup Turn((f + c) % N, t.tries) BY <1>0, <2>3 DEF Land
    <3>2. offset' = (((f + c) % N) + t.tries) % N BY <1>0, <2>2, <2>3 DEF Land, NextOffset
    <3> QED BY <1>0, <3>1, <3>2, TurnAdds
  <2>6. CASE More
    <3>1. due' /\ counted' = c + t.tries /\ counted' < N BY <2>4, <2>6 DEF Land, More
    <3> QED BY <2>5, <3>1 DEF Rotated, Covered
  <2>7. CASE ~More
    <3>1. ~due' BY <2>7 DEF Land
    <3>2. ASSUME t.tries > 0 PROVE tried' = Stocks
      <4>1. report > 0 => c + t.tries >= N
        BY <1>0, <2>2, <2>3, <2>4, <2>7, <3>2 DEF More
      <4>2. report = 0 => t.tries = N BY <1>0, <2>1
      <4>3. c + t.tries \in Nat /\ c + t.tries >= N BY <1>0, <4>1, <4>2
      <4> QED BY <2>5, <4>3, TurnCovers
    <3> QED BY <3>1, <3>2 DEF Rotated, Covered
  <2> QED BY <2>6, <2>7
<1> QED BY <1>1, <1>2 DEF Land

LEMMA InvInit == Init => IInv
BY DEF Init, IInv, Exclusive, StartedHere, Rotated, NoThread, Resolving, Owners

LEMMA InvNext == TypeOK /\ IInv /\ [Next]_vars => IInv'
<1> SUFFICES ASSUME TypeOK, IInv, [Next]_vars PROVE IInv' OBVIOUS
<1> USE DEF IInv, cache, back, rounds, Owners
<1>T. thread \in [Owners -> Thread] BY DEF TypeOK
<1>0. ASSUME UNCHANGED rounds PROVE Rotated' BY <1>0 DEF Rotated
<1> DEFINE Steps == Exclusive' /\ StartedHere'
<1>1. CASE ColdStart
  <2>1. Steps BY <1>1, <1>T DEF ColdStart, Start, Exclusive, StartedHere, Resolving
  <2> QED BY <1>0, <1>1, <2>1 DEF ColdStart
<1>2. CASE ResolveFirst
  <2>1. Steps BY <1>2, <1>T DEF ResolveFirst, TopResolves, Start, Exclusive, StartedHere, Resolving
  <2> QED BY <1>0, <1>2, <2>1 DEF ResolveFirst
<1>3. CASE UseCached
  <2>1. Steps BY <1>3, <1>T DEF UseCached, Exclusive, StartedHere, Resolving
  <2> QED BY <1>0, <1>3, <2>1 DEF UseCached
<1>4. CASE IndexLands
  <2>1. index' # "unresolved" BY <1>4, FoundTyped DEF IndexLands
  <2>2. Steps BY <1>4, <1>T, <2>1 DEF IndexLands, Start, NoThread, Exclusive, StartedHere, Resolving
  <2> QED BY <1>0, <1>4, <2>2 DEF IndexLands
<1>5. CASE FullLands
  <2>1. Land("main") BY <1>5 DEF FullLands
  <2>2. index' # "unresolved" BY <2>1, FoundTyped DEF Land
  <2>3. Steps BY <1>5, <1>T, <2>1, <2>2 DEF FullLands, Land, NoThread, Exclusive, StartedHere, Resolving
  <2> QED BY <2>1, <2>3, LandKeepsRotated
<1>6. CASE ResolveTimesOut
  <2>1. Steps
    BY <1>6, <1>T DEF ResolveTimesOut, Abandon, NoThread, Exclusive, StartedHere, Resolving
  <2> QED BY <1>0, <1>6, <2>1 DEF ResolveTimesOut
<1>7. CASE Connect \/ Drop \/ Retry
  <2>1. Steps BY <1>7 DEF Connect, Drop, Retry, Exclusive, StartedHere, Resolving
  <2> QED BY <1>0, <1>7, <2>1 DEF Connect, Drop, Retry
<1>8. CASE Collect
  <2>1. Steps BY <1>8 DEF Collect, AfterSwap, Exclusive, StartedHere, Resolving
  <2> QED BY <1>0, <1>8, <2>1 DEF Collect
<1>9. CASE BackgroundStarts
  <2>1. Steps BY <1>9, <1>T DEF BackgroundStarts, Start, Exclusive, StartedHere, Resolving
  <2> QED BY <1>0, <1>9, <2>1 DEF BackgroundStarts
<1>10. CASE BackgroundLands
  <2>1. Land("background") BY <1>10 DEF BackgroundLands
  <2>2. index' # "unresolved" BY <2>1, FoundTyped DEF Land
  <2>3. Steps
    BY <1>10, <1>T, <2>1, <2>2 DEF BackgroundLands, Land, NoThread, Exclusive, StartedHere, Resolving
  <2> QED BY <2>1, <2>3, LandKeepsRotated
<1>11. CASE BackgroundFails
  <2>1. Steps
    BY <1>11, <1>T DEF BackgroundFails, Abandon, NoThread, Exclusive, StartedHere, Resolving
  <2> QED BY <1>0, <1>11, <2>1 DEF BackgroundFails
<1>12. CASE \E o \in Owners : Return(o)
  <2>1. PICK o \in Owners : Return(o) BY <1>12
  <2>2. UNCHANGED <<phase, cache, back, rounds>> /\ thread[o].at = "running" BY <2>1 DEF Return
  <2>3. PICK k \in IF thread[o].scope = "index" THEN {0} ELSE 0..N, gets \in SUBSET {"index", "stocks"} :
            thread' = [thread EXCEPT ![o].at = "returned", ![o].tries = k, ![o].gets = gets]
    BY <2>1 DEF Return, Asked
  <2>4. Steps BY <1>T, <2>2, <2>3 DEF Exclusive, StartedHere, Thread
  <2> QED BY <1>0, <2>2, <2>4
<1>13. CASE OrphanEnds \/ RetryDue \/ Settles \/ FourHours
  <2>1. Steps BY <1>13 DEF OrphanEnds, RetryDue, Settles, FourHours, Exclusive, StartedHere
  <2> QED BY <1>0, <1>13, <2>1 DEF OrphanEnds, RetryDue, Settles, FourHours
<1>14. CASE Midnight
  <2>1. index' = "unresolved" => index = "unresolved" BY <1>14 DEF Midnight
  <2>2. Steps BY <1>14, <2>1 DEF Midnight, Exclusive, StartedHere
  <2> QED BY <1>0, <1>14, <2>2 DEF Midnight
<1>15. CASE UNCHANGED vars
  <2>1. Steps BY <1>15 DEF vars, Exclusive, StartedHere
  <2> QED BY <1>0, <1>15, <2>1 DEF vars
<1> QED BY <1>1, <1>2, <1>3, <1>4, <1>5, <1>6, <1>7, <1>8, <1>9, <1>10, <1>11, <1>12, <1>13,
           <1>14, <1>15 DEF Next, Main, Wake, Background

LEMMA InvHolds == Spec => [](TypeOK /\ IInv)
BY TypeCorrect, InvInit, InvNext, PTL DEF Spec

\* The loop and the background task never await a resolve at once.
THEOREM Sequential == Spec => []OneResolve
<1>1. IInv => OneResolve BY DEF IInv, Exclusive, OneResolve
<1> QED BY InvHolds, <1>1, PTL

\* Only a landing takes a full result off its thread.
LEMMA OnlyLandTakes ==
    ASSUME TypeOK, IInv, [Next]_vars, NEW o \in Owners,
           thread[o].at = "returned", thread[o].scope = "full", thread'[o].at # "returned"
    PROVE  Land(o)
<1> USE DEF IInv, Exclusive, Owners, Resolving
<1>T. thread \in [Owners -> Thread] BY DEF TypeOK
<1>1. CASE FullLands
  <2>1. o = "main" BY <1>1, <1>T DEF FullLands, Land
  <2> QED BY <1>1, <2>1 DEF FullLands
<1>2. CASE BackgroundLands
  <2>1. o = "background" BY <1>2, <1>T DEF BackgroundLands, Land
  <2> QED BY <1>2, <2>1 DEF BackgroundLands
<1>3. CASE ColdStart \/ ResolveFirst
  BY <1>3, <1>T DEF ColdStart, ResolveFirst, Start
<1>4. CASE IndexLands BY <1>4, <1>T DEF IndexLands, Start, NoThread
<1>5. CASE ResolveTimesOut \/ BackgroundFails
  BY <1>5, <1>T DEF ResolveTimesOut, BackgroundFails, Abandon
<1>6. CASE BackgroundStarts BY <1>6, <1>T DEF BackgroundStarts, Start
<1>7. CASE \E p \in Owners : Return(p)
  <2>1. PICK p \in Owners, k \in 0..N, gets \in SUBSET {"index", "stocks"} :
            /\ thread[p].at = "running"
            /\ thread' = [thread EXCEPT ![p].at = "returned", ![p].tries = k, ![p].gets = gets]
    BY <1>7 DEF Return, Asked
  <2> QED BY <1>T, <2>1
<1>8. CASE UNCHANGED thread BY <1>8
<1> QED BY <1>1, <1>2, <1>3, <1>4, <1>5, <1>6, <1>7, <1>8
        DEF Next, Main, Wake, Background, UseCached, Connect, Retry, Collect, Drop, OrphanEnds,
            RetryDue, Settles, FourHours, Midnight, vars

\* A cycle of rounds ends only when its turns have covered every stock.
THEOREM CyclesCover == Spec => CycleComplete
<1>1. ASSUME TypeOK, IInv, [Next]_vars, NEW o \in Owners,
             thread[o].at = "returned", thread[o].scope = "full", thread'[o].at # "returned"
      PROVE  Covered(o)
  BY <1>1, OnlyLandTakes, LandKeepsRotated
<1>2. TypeOK /\ IInv /\ [Next]_vars =>
        [\A o \in Owners :
          (/\ thread[o].at = "returned" /\ thread[o].scope = "full" /\ thread'[o].at # "returned"
           /\ ~due' /\ thread[o].tries > 0 /\ ~mixed')
             => tried' = Stocks]_vars
  BY <1>1 DEF Covered
<1> QED BY InvHolds, <1>2, PTL DEF Spec, CycleComplete
=============================================================================

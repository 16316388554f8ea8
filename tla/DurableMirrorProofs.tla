------------------------ MODULE DurableMirrorProofs ------------------------
(***************************************************************************)
(* Proofs about DurableMirror.  A restored engine governs its positions    *)
(* for any number of threads.  The promise of B-1364 holds when one thread *)
(* pushes and no hydrate job outlives the startup deadline; otherwise the  *)
(* older of two snapshots may be the last to arrive.  The same premise     *)
(* keeps the rows of closed positions from coming back.                    *)
(***************************************************************************)
EXTENDS DurableMirror, TLAPS

USE SymbolsAssumption, ThreadsAssumption, FaultsAssumption

ThreadState == [at : Pcs, engine : Engines, rows : SUBSET Symbols]

LEMMA PushTyped == ASSUME TypeOK, NEW e \in Engines PROVE Push(e) \in ThreadState
BY DEF Push, ThreadState, Pcs

LEMMA BootTyped == Boot \in [Threads -> ThreadState]
<1> SUFFICES ASSUME NEW t \in Threads
             PROVE  [at |-> CASE t \in Engines -> "hydrate" [] t = Startup -> "wait"
                                [] OTHER -> "idle",
                     engine |-> IF t \in Engines THEN t ELSE "long", rows |-> {}] \in ThreadState
  BY DEF Boot
<1>1. CASE t \in Engines BY <1>1 DEF ThreadState, Pcs
<1>2. CASE t \notin Engines /\ t = Startup BY <1>2 DEF ThreadState, Pcs, Engines
<1>3. CASE t \notin Engines /\ t # Startup BY <1>3 DEF ThreadState, Pcs, Engines
<1> QED BY <1>1, <1>2, <1>3

LEMMA TypeInit == Init => TypeOK
BY BootTyped DEF Init, TypeOK, ThreadState

LEMMA TypeNext == TypeOK /\ [Next]_vars => TypeOK'
<1> SUFFICES ASSUME TypeOK, [Next]_vars PROVE TypeOK'
  OBVIOUS
<1> USE DEF TypeOK
<1>1. ASSUME NEW s \in Symbols, ClosedAtKotak(s) PROVE TypeOK'
  BY <1>1 DEF ClosedAtKotak
<1>2. ASSUME NEW t \in Writers, NEW s \in Symbols, Enter(t, s) PROVE TypeOK'
  <2>1. EngineOf[s] \in Engines OBVIOUS
  <2>2. Push(EngineOf[s]) \in ThreadState BY <2>1, PushTyped
  <2>3. thread' \in [Threads -> ThreadState] BY <1>2, <2>2 DEF Enter, Threads, ThreadState
  <2> QED BY <1>2, <2>3 DEF Enter, ThreadState
<1>3. ASSUME NEW t \in Writers, NEW s \in Symbols, Leave(t, s) PROVE TypeOK'
  <2>1. EngineOf[s] \in Engines OBVIOUS
  <2>2. Push(EngineOf[s]) \in ThreadState BY <2>1, PushTyped
  <2>3. thread' \in [Threads -> ThreadState] BY <1>3, <2>2 DEF Leave, Threads, ThreadState
  <2> QED BY <1>3, <2>3 DEF Leave, ThreadState
<1>4. ASSUME NEW t \in Threads, ReadRows(t) PROVE TypeOK'
  BY <1>4 DEF ReadRows, Carrying, Pcs
<1>5. ASSUME NEW t \in Threads, Post(t) PROVE TypeOK'
  <2>1. thread' \in [Threads -> ThreadState] BY <1>5 DEF Post, Carrying, Pcs, ThreadState
  <2>2. mirror' \subseteq Symbols
    <3>1. thread[t].rows \subseteq Symbols OBVIOUS
    <3> QED BY <1>5, <3>1 DEF Post
  <2>3. faults' \in Nat BY <1>5 DEF Post, Fault, NoFault
  <2> QED BY <1>5, <2>1, <2>2, <2>3 DEF Post, ThreadState
<1>6. ASSUME NEW t \in Threads, Hydrate(t) PROVE TypeOK'
  BY <1>6 DEF Hydrate, Carrying, Go, Mark, Pcs, Fault, NoFault
<1>7. ASSUME NEW t \in Threads, Insert(t) PROVE TypeOK'
  BY <1>7 DEF Insert, Carrying, Pcs
<1>8. CASE JournalSync BY <1>8 DEF JournalSync
<1>9. CASE StartupRestores
  <2>1. Push("long") \in ThreadState BY PushTyped DEF Engines
  <2>2. [thread[Startup] EXCEPT !.at = "idle"] \in ThreadState BY DEF Threads, ThreadState, Pcs
  <2>3. thread' \in [Threads -> ThreadState]
    BY <1>9, <2>1, <2>2 DEF StartupRestores, Threads, ThreadState
  <2>4. table' \subseteq Symbols BY <1>9 DEF StartupRestores
  <2>5. faults' \in Nat BY <1>9 DEF StartupRestores, Fault, NoFault
  <2> QED BY <1>9, <2>3, <2>4, <2>5 DEF StartupRestores, ThreadState
<1>10. CASE Restart BY <1>10, BootTyped DEF Restart, ThreadState, Fault
<1>11. CASE UNCHANGED vars BY <1>11 DEF vars
<1> QED BY <1>1, <1>2, <1>3, <1>4, <1>5, <1>6, <1>7, <1>8, <1>9, <1>10, <1>11 DEF Next

\* Rows, mirror and journal hold symbols only and every thread is at a known place, for
\* every set of positions, engines and writers.
THEOREM TypeCorrect == Spec => []TypeOK
BY TypeInit, TypeNext, PTL DEF Spec
Engine(t) == thread[t].engine

\* A process that starts, for the first time or after a restart.
Fresh == thread = Boot /\ hydrated = {}

(***************************************************************************)
(* Any number of writers: what is restored is governed.                    *)
(***************************************************************************)
JobsKeepEngine == \A e \in Engines : Engine(e) = e

\* Nothing open that a push is about to send is missing from the table: rows leave the
\* table only with their position.
SentIsTracked == \A t \in Threads : At(t, "post") => held \cap thread[t].rows \subseteq table

\* A hydrate between its read and its insert still covers the mirror of its engine.
InsertCovers ==
    \A t \in Threads : At(t, "insert") =>
        held \cap mirror \cap Of(Engine(t)) \subseteq table \cup thread[t].rows

GInv == JobsKeepEngine /\ SentIsTracked /\ InsertCovers /\ MirroredIsTracked

LEMMA FreshGoverned == TypeOK /\ Fresh => GInv
<1> SUFFICES ASSUME TypeOK, Fresh PROVE GInv
  OBVIOUS
<1>1. \A e \in Engines : At(e, "hydrate") /\ Engine(e) = e
  BY DEF Fresh, Boot, Threads, Engine, At
<1>2. \A t \in Threads : thread[t].at \in {"hydrate", "wait", "idle"}
  <2> SUFFICES ASSUME NEW t \in Threads PROVE thread[t].at \in {"hydrate", "wait", "idle"}
    OBVIOUS
  <2>1. CASE t \in Engines BY <2>1, <1>1 DEF At
  <2>2. CASE t \notin Engines /\ t = Startup BY <2>2 DEF Fresh, Boot
  <2>3. CASE t \notin Engines /\ t # Startup BY <2>3 DEF Fresh, Boot
  <2> QED BY <2>1, <2>2, <2>3
<1>3. MirroredIsTracked
  BY <1>1 DEF MirroredIsTracked, Restored, At, Fresh, TypeOK
<1> QED BY <1>1, <1>2, <1>3 DEF GInv, JobsKeepEngine, SentIsTracked, InsertCovers, At

\* A step that restores no engine and loses no row of an open position.
LEMMA NoLoss ==
    ASSUME TypeOK, GInv, held' \ table' \subseteq held \ table,
           \A s \in mirror' \ mirror : s \in held => s \in table,
           \A e \in Engines : Restored(e)' => Restored(e)
    PROVE  MirroredIsTracked'
<1> SUFFICES ASSUME NEW s \in held' \cap mirror', Restored(EngineOf[s])', s \notin table' PROVE FALSE
  BY DEF MirroredIsTracked
<1>1. s \in held /\ s \notin table OBVIOUS
<1>2. s \in Symbols /\ s \in mirror BY <1>1 DEF TypeOK
<1> QED BY <1>1, <1>2 DEF GInv, MirroredIsTracked

LEMMA ReadRowsGoverned == ASSUME TypeOK, GInv, NEW t \in Threads, ReadRows(t) PROVE GInv'
<1>1. /\ thread[t].at = "read" /\ thread'[t].at = "post" /\ thread'[t].engine = thread[t].engine
      /\ thread'[t].rows = table \cap Of(thread[t].engine)
      /\ \A u \in Threads : u # t => thread'[u] = thread[u]
  BY DEF ReadRows, At, Carrying, TypeOK
<1>2. UNCHANGED <<held, table, mirror, hydrated>> BY DEF ReadRows
<1>3. JobsKeepEngine' BY <1>1 DEF GInv, JobsKeepEngine, Engine, Threads
<1>4. SentIsTracked' BY <1>1, <1>2 DEF GInv, SentIsTracked, At
<1>5. InsertCovers' BY <1>1, <1>2 DEF GInv, InsertCovers, At, Engine
<1>6. \A e \in Engines : Restored(e)' => Restored(e)
  BY <1>1, <1>2 DEF Restored, At, Threads
<1>7. MirroredIsTracked' BY <1>2, <1>6, NoLoss
<1> QED BY <1>3, <1>4, <1>5, <1>7 DEF GInv

LEMMA PostGoverned == ASSUME TypeOK, GInv, NEW t \in Threads, Post(t) PROVE GInv'
<1>1. /\ thread[t].at = "post" /\ thread'[t].at = "idle" /\ thread'[t].engine = thread[t].engine
      /\ \A u \in Threads : u # t => thread'[u] = thread[u]
  BY DEF Post, At, Carrying, TypeOK
<1>2. UNCHANGED <<held, table, hydrated>> BY DEF Post
<1>3. \A s \in mirror' \ mirror : s \in held => s \in table
  BY <1>1 DEF Post, GInv, SentIsTracked, At
<1>4. JobsKeepEngine' BY <1>1 DEF GInv, JobsKeepEngine, Engine, Threads
<1>5. SentIsTracked' BY <1>1, <1>2 DEF GInv, SentIsTracked, At
<1>6. InsertCovers' BY <1>1, <1>2, <1>3 DEF GInv, InsertCovers, At, Engine
<1>7. \A e \in Engines : Restored(e)' => Restored(e)
  BY <1>1, <1>2 DEF Restored, At, Threads
<1>8. MirroredIsTracked' BY <1>2, <1>3, <1>7, NoLoss
<1> QED BY <1>4, <1>5, <1>6, <1>8 DEF GInv

LEMMA HydrateGoverned == ASSUME TypeOK, GInv, NEW t \in Threads, Hydrate(t) PROVE GInv'
<1>1. /\ thread[t].at = "hydrate" /\ thread'[t].engine = thread[t].engine
      /\ \A u \in Threads : u # t => thread'[u] = thread[u]
  BY DEF Hydrate, At, Carrying, Go, TypeOK
<1>2. UNCHANGED <<held, table, mirror>> BY DEF Hydrate
<1>3. \/ /\ thread'[t].at = "insert" /\ thread'[t].rows = mirror \cap Of(thread[t].engine)
         /\ hydrated' \subseteq hydrated \cup {thread[t].engine}
      \/ thread'[t].at \in {"failed", "idle"} /\ hydrated' = hydrated
  BY DEF Hydrate, Carrying, Go, Mark, TypeOK
<1>4. JobsKeepEngine' BY <1>1 DEF GInv, JobsKeepEngine, Engine, Threads
<1>5. SentIsTracked' BY <1>1, <1>2, <1>3 DEF GInv, SentIsTracked, At
<1>6. InsertCovers' BY <1>1, <1>2, <1>3 DEF GInv, InsertCovers, At, Engine
<1>7. ASSUME NEW e \in Engines, Restored(e)' PROVE Restored(e)
  <2>1. ~(thread'[t].at = "insert" /\ thread[t].engine = e) BY <1>1, <1>7 DEF Restored, At
  <2>2. thread'[t].at \notin {"done"} BY <1>3
  <2>3. e \in Threads BY DEF Threads
  <2> QED BY <1>1, <1>3, <1>7, <2>1, <2>2, <2>3 DEF Restored, At
<1>8. MirroredIsTracked' BY <1>2, <1>7, NoLoss
<1> QED BY <1>4, <1>5, <1>6, <1>8 DEF GInv

LEMMA InsertGoverned == ASSUME TypeOK, GInv, NEW t \in Threads, Insert(t) PROVE GInv'
<1>1. /\ thread[t].at = "insert" /\ thread'[t].engine = thread[t].engine
      /\ thread'[t].at \in {"done", "read"}
      /\ \A u \in Threads : u # t => thread'[u] = thread[u]
      /\ table' = table \cup thread[t].rows
  BY DEF Insert, At, Carrying, TypeOK
<1>2. UNCHANGED <<held, mirror, hydrated>> BY DEF Insert
<1>3. JobsKeepEngine' BY <1>1 DEF GInv, JobsKeepEngine, Engine, Threads
<1>4. SentIsTracked' BY <1>1, <1>2 DEF GInv, SentIsTracked, At
<1>5. InsertCovers' BY <1>1, <1>2 DEF GInv, InsertCovers, At, Engine
<1>6. MirroredIsTracked'
  <2> SUFFICES ASSUME NEW s \in held \cap mirror, Restored(EngineOf[s])' PROVE s \in table'
    BY <1>2 DEF MirroredIsTracked
  <2> DEFINE e == EngineOf[s]
  <2>1. s \in Symbols /\ e \in Engines /\ e \in Threads BY DEF TypeOK, Threads
  <2>2. CASE e = thread[t].engine
    <3>1. s \in held \cap mirror \cap Of(Engine(t)) BY <2>1, <2>2 DEF Of, Engine
    <3> QED BY <1>1, <3>1 DEF GInv, InsertCovers, At
  <2>3. CASE e # thread[t].engine
    <3>1. e # t BY <2>1, <2>3 DEF GInv, JobsKeepEngine, Engine
    <3>2. Restored(e) BY <1>1, <1>2, <2>1, <2>3, <3>1 DEF Restored, At
    <3> QED BY <1>1, <3>2 DEF GInv, MirroredIsTracked
  <2> QED BY <2>2, <2>3
<1> QED BY <1>3, <1>4, <1>5, <1>6 DEF GInv

LEMMA StartupGoverned == ASSUME TypeOK, GInv, StartupRestores PROVE GInv'
<1>1. UNCHANGED <<held, mirror, hydrated>> /\ table \subseteq table'
  BY DEF StartupRestores
<1>2. /\ \A u \in Threads : u # Startup => thread'[u] = thread[u]
      /\ thread[Startup].at = "wait" /\ thread'[Startup].at \in {"idle", "read"}
  <2>1. Push("long") = [at |-> "read", engine |-> "long", rows |-> {}] BY DEF Push, Guarded
  <2>2. Startup \in Threads BY DEF Threads
  <2>3. thread' = [thread EXCEPT ![Startup] = [thread[Startup] EXCEPT !.at = "idle"]]
        \/ thread' = [thread EXCEPT ![Startup] = Push("long")]
    BY DEF StartupRestores
  <2>4. thread[Startup].at = "wait" BY DEF StartupRestores, At
  <2> QED BY <2>1, <2>2, <2>3, <2>4 DEF TypeOK
<1>3. JobsKeepEngine' BY <1>2 DEF GInv, JobsKeepEngine, Engine, Threads
<1>4. SentIsTracked' BY <1>1, <1>2 DEF GInv, SentIsTracked, At
<1>5. InsertCovers' BY <1>1, <1>2 DEF GInv, InsertCovers, At, Engine
<1>6. \A e \in Engines : Restored(e)' => Restored(e)
  BY <1>1, <1>2 DEF Restored, At, Threads
<1>7. MirroredIsTracked' BY <1>1, <1>6, NoLoss
<1> QED BY <1>3, <1>4, <1>5, <1>7 DEF GInv

LEMMA WriterGoverned ==
    ASSUME TypeOK, GInv, NEW t \in Writers, NEW s \in Symbols, Enter(t, s) \/ Leave(t, s)
    PROVE  GInv'
<1>1. UNCHANGED <<mirror, hydrated>> BY DEF Enter, Leave
<1>2. held' \ table' \subseteq held \ table BY DEF Enter, Leave
<1>3. /\ t \in Threads /\ thread[t].at = "idle" /\ thread'[t].at \in {"hydrate", "read"}
      /\ \A u \in Threads : u # t => thread'[u] = thread[u]
  BY DEF Enter, Leave, Push, At, TypeOK, Threads
<1>4. t \notin Engines OBVIOUS
<1>5. JobsKeepEngine' BY <1>3, <1>4 DEF GInv, JobsKeepEngine, Engine, Threads
<1>6. SentIsTracked'
  <2> SUFFICES ASSUME NEW u \in Threads, thread'[u].at = "post"
               PROVE  held' \cap thread'[u].rows \subseteq table'
    BY DEF SentIsTracked, At
  <2>1. thread'[u] = thread[u] BY <1>3
  <2>2. held \cap thread[u].rows \subseteq table BY <2>1 DEF GInv, SentIsTracked, At
  <2> QED BY <1>2, <2>1, <2>2
<1>7. InsertCovers'
  <2> SUFFICES ASSUME NEW u \in Threads, thread'[u].at = "insert"
               PROVE  held' \cap mirror \cap Of(thread'[u].engine) \subseteq table' \cup thread'[u].rows
    BY <1>1 DEF InsertCovers, At, Engine
  <2>1. thread'[u] = thread[u] BY <1>3
  <2>2. held \cap mirror \cap Of(thread[u].engine) \subseteq table \cup thread[u].rows
    BY <2>1 DEF GInv, InsertCovers, At, Engine
  <2> QED BY <1>2, <2>1, <2>2
<1>8. \A e \in Engines : Restored(e)' => Restored(e)
  BY <1>1, <1>3, <1>4 DEF Restored, At, Threads
<1>9. MirroredIsTracked' BY <1>1, <1>2, <1>8, NoLoss
<1> QED BY <1>5, <1>6, <1>7, <1>9 DEF GInv

LEMMA GovernedNext == TypeOK /\ GInv /\ [Next]_vars => GInv'
<1> SUFFICES ASSUME TypeOK, GInv, [Next]_vars PROVE GInv'
  OBVIOUS
<1>1. ASSUME UNCHANGED <<thread, table, mirror, hydrated>>, held' \subseteq held PROVE GInv'
  <2>1. JobsKeepEngine' BY <1>1 DEF GInv, JobsKeepEngine, Engine
  <2>2. SentIsTracked' BY <1>1 DEF GInv, SentIsTracked, At
  <2>3. InsertCovers' BY <1>1 DEF GInv, InsertCovers, At, Engine
  <2>4. MirroredIsTracked' BY <1>1 DEF GInv, MirroredIsTracked, Restored, At
  <2> QED BY <2>1, <2>2, <2>3, <2>4 DEF GInv
<1>2. ASSUME NEW s \in Symbols, ClosedAtKotak(s) PROVE GInv'
  BY <1>1, <1>2 DEF ClosedAtKotak
<1>3. CASE JournalSync BY <1>1, <1>3 DEF JournalSync
<1>4. CASE UNCHANGED vars BY <1>1, <1>4 DEF vars
<1>5. CASE Restart
  <2>1. TypeOK' BY TypeNext
  <2>2. Fresh' BY <1>5 DEF Restart, Fresh, Boot
  <2> QED BY <2>1, <2>2, FreshGoverned, PTL
<1>6. ASSUME NEW t \in Threads, ReadRows(t) \/ Post(t) \/ Hydrate(t) \/ Insert(t) PROVE GInv'
  BY <1>6, ReadRowsGoverned, PostGoverned, HydrateGoverned, InsertGoverned
<1>7. ASSUME NEW t \in Writers, NEW s \in Symbols, Enter(t, s) \/ Leave(t, s) PROVE GInv'
  BY <1>7, WriterGoverned
<1>8. CASE StartupRestores BY <1>8, StartupGoverned
<1> QED BY <1>2, <1>3, <1>4, <1>5, <1>6, <1>7, <1>8 DEF Next

\* A restored engine governs every position that is open and mirrored, for any number of
\* threads that push and hydrate at the same time and whatever fails.
THEOREM MirroredTracked == Spec => []MirroredIsTracked
<1>1. Init => TypeOK /\ GInv
  <2>1. Init => Fresh BY DEF Init, Fresh
  <2> QED BY <2>1, TypeInit, FreshGoverned
<1>2. TypeOK /\ GInv /\ [Next]_vars => (TypeOK /\ GInv)' BY TypeNext, GovernedNext
<1>3. GInv => MirroredIsTracked BY DEF GInv
<1> QED BY <1>1, <1>2, <1>3, PTL DEF Spec

(***************************************************************************)
(* One writer, no late hydrate job: the inductive invariant of the push.   *)
(***************************************************************************)
OneWriter == (\A t, u \in Writers : t = u) /\ "slow" \notin Faults

Busy(t) == thread[t].at \in {"hydrate", "insert", "read", "post"}

\* The hydrate jobs end before the startup handler goes on, and that before the writers.
InTurn ==
    /\ \A e \in Engines : /\ Engine(e) = e
                          /\ thread[e].at \in {"hydrate", "insert", "done", "failed"}
                          /\ Busy(e) => At(Startup, "wait")
    /\ thread[Startup].at \in {"wait", "read", "post", "idle"} /\ Engine(Startup) = "long"
    /\ \A w \in Writers : /\ Busy(w) \/ At(w, "idle")
                          /\ Busy(w) => Up
                          /\ At(w, "hydrate") => Engine(w) \in Guarded

\* Past the guard the process has restored the key.
PastGuard ==
    \A t \in Threads :
        thread[t].at \in {"insert", "read", "post"} /\ Engine(t) \in Guarded => Engine(t) \in hydrated

OwnRows == \A t \in Threads : thread[t].rows \subseteq Of(Engine(t))

\* Once the mirror was read, an open mirrored position is in the table or about to be.
Reached(e) == e \in hydrated \/ thread[e].at \in {"insert", "done"}
NothingMissing ==
    \A s \in held \cap mirror :
        Reached(EngineOf[s]) => s \in table \/ \E t \in Threads : At(t, "insert") /\ s \in thread[t].rows

\* What a push is about to send: every open mirrored position, and nothing open that
\* the table has lost.
SnapshotComplete ==
    \A t \in Threads : At(t, "post") =>
        /\ Engine(t) \in Guarded => held \cap mirror \cap Of(Engine(t)) \subseteq thread[t].rows
        /\ held \cap thread[t].rows \subseteq table

IInv == InTurn /\ PastGuard /\ OwnRows /\ NothingMissing /\ SnapshotComplete

\* Two threads at work are hydrate jobs of two engines.
LEMMA OneAtWork ==
    ASSUME OneWriter, TypeOK, InTurn,
           NEW t \in Threads, NEW u \in Threads, t # u, Busy(t), Busy(u)
    PROVE  t \in Engines /\ u \in Engines /\ Engine(t) # Engine(u)
<1>1. ASSUME NEW x \in Threads, Busy(x), x \in Writers \/ x = Startup
      PROVE  \A e \in Engines : ~Busy(e)
  <2>1. ~At(Startup, "wait") BY <1>1 DEF InTurn, Busy, At, Up
  <2> QED BY <2>1 DEF InTurn
<1>2. t \notin Writers \/ u \notin Writers BY DEF OneWriter
<1>3. ~(t \in Writers /\ u = Startup) /\ ~(u \in Writers /\ t = Startup)
  BY DEF InTurn, Up, At, Busy
<1>4. t \in Engines /\ u \in Engines BY <1>1, <1>2, <1>3 DEF Threads
<1> QED BY <1>4 DEF InTurn

LEMMA FreshInv == TypeOK /\ Fresh => IInv
<1> SUFFICES ASSUME TypeOK, Fresh PROVE IInv
  OBVIOUS
<1>1. ASSUME NEW e \in Engines
      PROVE  thread[e].at = "hydrate" /\ Engine(e) = e /\ thread[e].rows = {}
  BY DEF Fresh, Boot, Threads, Engine
<1>2. thread[Startup].at = "wait" /\ Engine(Startup) = "long" /\ thread[Startup].rows = {}
  BY DEF Fresh, Boot, Threads, Engine
<1>3. ASSUME NEW w \in Writers
      PROVE  thread[w].at = "idle" /\ Engine(w) = "long" /\ thread[w].rows = {}
  BY DEF Fresh, Boot, Threads, Engine
<1>4. (\A e \in Engines : At(e, "hydrate") /\ Engine(e) = e)
      /\ At(Startup, "wait") /\ Engine(Startup) = "long" /\ (\A w \in Writers : At(w, "idle"))
  BY <1>1, <1>2, <1>3 DEF At
<1>5. \A t \in Threads : thread[t].rows = {}
  BY <1>1, <1>2, <1>3 DEF Threads
<1>6. \A t \in Threads : thread[t].at \in {"hydrate", "wait", "idle"}
  BY <1>4 DEF At, Threads
<1>7. InTurn BY <1>4 DEF InTurn, Busy, At, Up
<1>8. PastGuard BY <1>6 DEF PastGuard
<1>9. OwnRows BY <1>5 DEF OwnRows
<1>10. NothingMissing
  <2>1. \A e \in Engines : ~Reached(e) BY <1>4 DEF Reached, At, Fresh
  <2> QED BY <2>1 DEF NothingMissing, TypeOK
<1>11. SnapshotComplete BY <1>6 DEF SnapshotComplete, At
<1> QED BY <1>7, <1>8, <1>9, <1>10, <1>11 DEF IInv

LEMMA ReadRowsKeeps ==
    ASSUME OneWriter, TypeOK, IInv, NEW t \in Threads, ReadRows(t) PROVE IInv'
<1> USE DEF IInv
<1>1. /\ thread[t].at = "read" /\ thread'[t].at = "post" /\ Engine(t)' = Engine(t)
      /\ thread'[t].rows = table \cap Of(Engine(t))
      /\ \A u \in Threads : u # t => thread'[u] = thread[u]
  BY DEF ReadRows, At, Carrying, TypeOK, Engine
<1>2. UNCHANGED <<held, table, mirror, journal, hydrated>>
  BY DEF ReadRows
<1>3. t \notin Engines BY <1>1 DEF InTurn
<1>4. \A u \in Threads : u # t /\ Busy(u) => Engine(u) # Engine(t)
  BY <1>1, OneAtWork DEF Busy
<1>5. InTurn' BY <1>1, <1>2, <1>3 DEF InTurn, Busy, At, Up, Engine, Threads
<1>6. PastGuard' BY <1>1, <1>2 DEF PastGuard, Engine
<1>7. OwnRows' BY <1>1, <1>2 DEF OwnRows, Engine
<1>8. NothingMissing'
  <2>1. \A e \in Engines : Reached(e)' => Reached(e)
    BY <1>1, <1>2, <1>3 DEF Reached, Threads
  <2> QED BY <1>1, <1>2, <2>1 DEF NothingMissing, At, TypeOK
<1>9. ASSUME Engine(t) \in Guarded, NEW s \in held \cap mirror \cap Of(Engine(t))
      PROVE  s \in table
  <2>1. EngineOf[s] = Engine(t) BY DEF Of
  <2>2. Reached(EngineOf[s]) BY <1>1, <1>9, <2>1 DEF PastGuard, Reached
  <2>3. ASSUME NEW u \in Threads, At(u, "insert"), s \in thread[u].rows PROVE FALSE
    <3>1. Engine(u) = EngineOf[s] BY <2>3 DEF OwnRows, Of
    <3>2. u # t /\ Busy(u) BY <2>3, <1>1 DEF At, Busy
    <3> QED BY <3>1, <3>2, <2>1, <1>4
  <2> QED BY <2>2, <2>3 DEF NothingMissing
<1>10. SnapshotComplete'
  <2>1. ASSUME NEW u \in Threads, thread'[u].at = "post", u # t
        PROVE  /\ Engine(u) \in Guarded => held \cap mirror \cap Of(Engine(u)) \subseteq thread[u].rows
               /\ held \cap thread[u].rows \subseteq table
    BY <1>1, <2>1 DEF SnapshotComplete, At
  <2> QED BY <1>1, <1>2, <1>9, <2>1 DEF SnapshotComplete, At, Engine
<1> QED BY <1>5, <1>6, <1>7, <1>8, <1>10

LEMMA PostKeeps ==
    ASSUME OneWriter, TypeOK, IInv, NEW t \in Threads, Post(t) PROVE IInv'
<1> USE DEF IInv
<1>1. /\ thread[t].at = "post" /\ thread'[t].at = "idle" /\ Engine(t)' = Engine(t)
      /\ thread'[t].rows = {}
      /\ \A u \in Threads : u # t => thread'[u] = thread[u]
  BY DEF Post, At, Carrying, TypeOK, Engine
<1>2. UNCHANGED <<held, table, journal, hydrated>>
  BY DEF Post
<1>3. mirror' = mirror \/ mirror' = (mirror \ Of(Engine(t))) \cup thread[t].rows
  BY DEF Post, Engine
<1>4. t \notin Engines BY <1>1 DEF InTurn
<1>5. \A u \in Threads : u # t /\ Busy(u) => Engine(u) # Engine(t)
  BY <1>1, OneAtWork DEF Busy
<1>6. InTurn' BY <1>1, <1>2, <1>4 DEF InTurn, Busy, At, Up, Engine, Threads
<1>7. PastGuard' BY <1>1, <1>2 DEF PastGuard, Engine
<1>8. OwnRows' BY <1>1, <1>2 DEF OwnRows, Engine
<1>9. NothingMissing'
  <2>1. \A e \in Engines : Reached(e)' => Reached(e)
    BY <1>1, <1>2, <1>4 DEF Reached, Threads
  <2>2. held \cap mirror' \subseteq (held \cap mirror) \cup table
    BY <1>1, <1>3 DEF SnapshotComplete, At
  <2> QED BY <1>1, <1>2, <2>1, <2>2 DEF NothingMissing, At, TypeOK
<1>10. SnapshotComplete'
  <2>1. ASSUME NEW u \in Threads, thread'[u].at = "post"
        PROVE  /\ Engine(u) \in Guarded => held \cap mirror' \cap Of(Engine(u)) \subseteq thread[u].rows
               /\ held \cap thread[u].rows \subseteq table
               /\ u # t
    <3>1. u # t /\ thread[u].at = "post" BY <1>1, <2>1
    <3>2. Engine(u) # Engine(t) BY <1>5, <3>1 DEF Busy
    <3>3. mirror' \cap Of(Engine(u)) \subseteq mirror
      BY <1>3, <3>2 DEF OwnRows, Of
    <3> QED BY <3>1, <3>3 DEF SnapshotComplete, At
  <2> QED BY <1>1, <1>2, <2>1 DEF SnapshotComplete, At, Engine
<1> QED BY <1>6, <1>7, <1>8, <1>9, <1>10

LEMMA HydrateKeeps ==
    ASSUME OneWriter, TypeOK, IInv, NEW t \in Threads, Hydrate(t) PROVE IInv'
<1> USE DEF IInv
<1>1. /\ thread[t].at = "hydrate" /\ Engine(t)' = Engine(t)
      /\ \A u \in Threads : u # t => thread'[u] = thread[u]
  BY DEF Hydrate, At, Carrying, Go, TypeOK, Engine
<1>2. UNCHANGED <<held, table, mirror, journal>>
  BY DEF Hydrate
<1>3. \/ /\ thread'[t].at = "insert" /\ thread'[t].rows = mirror \cap Of(Engine(t))
         /\ hydrated' = hydrated \cup ({Engine(t)} \cap Guarded)
      \/ /\ thread'[t].at = (IF t \in Engines THEN "failed" ELSE "idle")
         /\ thread'[t].rows = thread[t].rows /\ hydrated' = hydrated
  BY DEF Hydrate, Carrying, Go, Mark, TypeOK, Engine
<1>4. t # Startup BY <1>1 DEF InTurn
<1>5. t \in Writers => Engine(t) \in Guarded /\ Up BY <1>1 DEF InTurn, At, Busy
<1>6. InTurn'
  <2>1. \A e \in Engines : /\ Engine(e)' = e
                           /\ thread'[e].at \in {"hydrate", "insert", "done", "failed"}
                           /\ Busy(e)' => At(Startup, "wait")'
    BY <1>1, <1>3, <1>4 DEF InTurn, Busy, At, Engine, Threads
  <2>2. thread'[Startup].at \in {"wait", "read", "post", "idle"} /\ Engine(Startup)' = "long"
    BY <1>1, <1>4 DEF InTurn, Engine, Threads
  <2>3. \A w \in Writers : /\ Busy(w)' \/ At(w, "idle")'
                           /\ Busy(w)' => Up'
                           /\ At(w, "hydrate")' => Engine(w)' \in Guarded
    BY <1>1, <1>3, <1>4, <1>5 DEF InTurn, Busy, At, Up, Engine, Threads
  <2> QED BY <2>1, <2>2, <2>3 DEF InTurn
<1>7. PastGuard' BY <1>1, <1>3 DEF PastGuard, Engine
<1>8. OwnRows' BY <1>1, <1>3 DEF OwnRows, Engine
<1>9. NothingMissing'
  <2> SUFFICES ASSUME NEW s \in held \cap mirror, Reached(EngineOf[s])', s \notin table
               PROVE  \E u \in Threads : thread'[u].at = "insert" /\ s \in thread'[u].rows
    BY <1>2 DEF NothingMissing, At
  <2> DEFINE e == EngineOf[s]
  <2>1. e \in Engines /\ s \in Symbols BY DEF TypeOK
  <2>2. CASE Reached(e)
    <3>1. PICK u \in Threads : At(u, "insert") /\ s \in thread[u].rows
      BY <2>2 DEF NothingMissing
    <3> QED BY <3>1, <1>1 DEF At
  <2>3. CASE ~Reached(e)
    <3>1. thread'[t].at = "insert" /\ thread'[t].rows = mirror \cap Of(Engine(t)) /\ e = Engine(t)
      <4>1. e \notin hydrated /\ thread[e].at \notin {"insert", "done"} BY <2>3 DEF Reached
      <4>2. e \in hydrated' \/ thread'[e].at \in {"insert", "done"} BY DEF Reached
      <4>3. t \in Engines => Engine(t) = t BY DEF InTurn
      <4> QED BY <4>1, <4>2, <4>3, <1>1, <1>3, <2>1 DEF Threads
    <3>2. s \in mirror \cap Of(Engine(t)) BY <3>1, <2>1 DEF Of
    <3> QED BY <3>1, <3>2
  <2> QED BY <2>2, <2>3
<1>10. SnapshotComplete' BY <1>1, <1>2, <1>3 DEF SnapshotComplete, At, Engine
<1> QED BY <1>6, <1>7, <1>8, <1>9, <1>10

LEMMA InsertKeeps ==
    ASSUME OneWriter, TypeOK, IInv, NEW t \in Threads, Insert(t) PROVE IInv'
<1> USE DEF IInv
<1>1. /\ thread[t].at = "insert" /\ Engine(t)' = Engine(t) /\ thread'[t].rows = {}
      /\ thread'[t].at = (IF t \in Engines THEN "done" ELSE "read")
      /\ \A u \in Threads : u # t => thread'[u] = thread[u]
      /\ table' = table \cup thread[t].rows
  BY DEF Insert, At, Carrying, TypeOK, Engine
<1>2. UNCHANGED <<held, mirror, journal, hydrated>>
  BY DEF Insert
<1>3. t # Startup BY <1>1 DEF InTurn
<1>4. InTurn'
  <2>1. \A e \in Engines : /\ Engine(e)' = e
                           /\ thread'[e].at \in {"hydrate", "insert", "done", "failed"}
                           /\ Busy(e)' => At(Startup, "wait")'
    BY <1>1, <1>3 DEF InTurn, Busy, At, Engine, Threads
  <2>2. thread'[Startup].at \in {"wait", "read", "post", "idle"} /\ Engine(Startup)' = "long"
    BY <1>1, <1>3 DEF InTurn, Engine, Threads
  <2>3. \A w \in Writers : /\ Busy(w)' \/ At(w, "idle")'
                           /\ Busy(w)' => Up'
                           /\ At(w, "hydrate")' => Engine(w)' \in Guarded
    BY <1>1, <1>3 DEF InTurn, Busy, At, Up, Engine, Threads
  <2> QED BY <2>1, <2>2, <2>3 DEF InTurn
<1>5. PastGuard' BY <1>1, <1>2 DEF PastGuard, Engine
<1>6. OwnRows' BY <1>1 DEF OwnRows, Engine
<1>7. NothingMissing'
  <2>1. \A e \in Engines : Reached(e)' => Reached(e)
    BY <1>1, <1>2 DEF Reached, Threads
  <2> QED BY <1>1, <1>2, <2>1 DEF NothingMissing, At, TypeOK
<1>8. SnapshotComplete' BY <1>1, <1>2 DEF SnapshotComplete, At, Engine
<1> QED BY <1>4, <1>5, <1>6, <1>7, <1>8

LEMMA StartupKeeps ==
    ASSUME OneWriter, TypeOK, IInv, StartupRestores PROVE IInv'
<1> USE DEF IInv
<1>1. /\ thread[Startup].at = "wait" /\ \A e \in Engines : thread[e].at \in {"done", "failed"}
      /\ table \subseteq table'
  BY DEF StartupRestores, At, OneWriter, Fault
<1>2. UNCHANGED <<held, mirror, journal, hydrated>>
  BY DEF StartupRestores
<1>3. /\ \A u \in Threads : u # Startup => thread'[u] = thread[u]
      /\ thread'[Startup].at \in {"idle", "read"} /\ Engine(Startup)' = "long"
      /\ thread'[Startup].rows \in {thread[Startup].rows, {}}
  <2>1. Push("long") = [at |-> "read", engine |-> "long", rows |-> {}]
    BY DEF Push, Guarded
  <2>2. Startup \in Threads /\ Engine(Startup) = "long" BY DEF Threads, InTurn
  <2>3. thread' = [thread EXCEPT ![Startup] = [thread[Startup] EXCEPT !.at = "idle"]]
        \/ thread' = [thread EXCEPT ![Startup] = Push("long")]
    BY DEF StartupRestores
  <2> QED BY <2>1, <2>2, <2>3 DEF TypeOK, Engine
<1>4. \A w \in Writers : At(w, "idle") BY <1>1 DEF InTurn, Up, At
<1>5. InTurn'
  BY <1>1, <1>3, <1>4 DEF InTurn, Busy, At, Up, Engine, Threads
<1>6. PastGuard' BY <1>1, <1>2, <1>3 DEF PastGuard, Engine, Guarded
<1>7. OwnRows' BY <1>1, <1>3 DEF OwnRows, Engine, InTurn
<1>8. NothingMissing'
  <2>1. \A e \in Engines : Reached(e)' => Reached(e)
    BY <1>2, <1>3 DEF Reached, Threads
  <2> QED BY <1>1, <1>2, <1>3, <2>1 DEF NothingMissing, At, TypeOK
<1>9. SnapshotComplete' BY <1>1, <1>2, <1>3 DEF SnapshotComplete, At, Engine
<1> QED BY <1>5, <1>6, <1>7, <1>8, <1>9

\* A writer opens or closes a position only when no other thread is at work.
LEMMA WriterKeeps ==
    ASSUME OneWriter, TypeOK, IInv, NEW t \in Writers, NEW s \in Symbols,
           Enter(t, s) \/ Leave(t, s)
    PROVE  IInv'
<1> USE DEF IInv
<1> DEFINE e == EngineOf[s]
<1>1. Up /\ thread[t].at = "idle" BY DEF Enter, Leave, At
<1>2. UNCHANGED <<mirror, journal, hydrated>> BY DEF Enter, Leave
<1>3. held' \ table' \subseteq held \ table
  BY DEF Enter, Leave
<1>4. /\ Engine(t)' = e /\ thread'[t].rows = {}
      /\ thread'[t].at = (IF e \in Guarded \ hydrated THEN "hydrate" ELSE "read")
      /\ \A u \in Threads : u # t => thread'[u] = thread[u]
  BY DEF Enter, Leave, Push, TypeOK, Engine, Threads
<1>5. \A u \in Threads : ~Busy(u)
  <2>1. ASSUME NEW u \in Engines PROVE ~Busy(u) BY <1>1, <2>1 DEF InTurn, Up, At
  <2>2. ~Busy(Startup) BY <1>1 DEF Up, At, Busy
  <2>3. ASSUME NEW u \in Writers PROVE ~Busy(u) BY <1>1, <2>3 DEF OneWriter, Busy
  <2> QED BY <2>1, <2>2, <2>3 DEF Threads
<1>6. t \notin Engines /\ t # Startup OBVIOUS
<1>7. InTurn'
  BY <1>1, <1>4, <1>5, <1>6 DEF InTurn, Busy, At, Up, Engine, Threads
<1>8. PastGuard' BY <1>2, <1>4, <1>5 DEF PastGuard, Engine, Busy
<1>9. OwnRows' BY <1>4 DEF OwnRows, Engine
<1>10. NothingMissing'
  <2>1. \A x \in Engines : Reached(x)' => Reached(x)
    BY <1>2, <1>4, <1>6 DEF Reached, Threads
  <2>2. \A x \in held \cap mirror : Reached(EngineOf[x]) => x \in table
    BY <1>5 DEF NothingMissing, Busy, At
  <2>3. ASSUME NEW x \in held' \cap mirror', Reached(EngineOf[x])' PROVE x \in table'
    <3>1. x \in mirror /\ x \in Symbols BY <1>2, <2>3 DEF TypeOK
    <3>2. Reached(EngineOf[x]) BY <2>1, <2>3, <3>1
    <3> QED BY <1>3, <2>2, <2>3, <3>1, <3>2
  <2> QED BY <2>3 DEF NothingMissing
<1>11. SnapshotComplete' BY <1>4, <1>5 DEF SnapshotComplete, At, Busy
<1> QED BY <1>7, <1>8, <1>9, <1>10, <1>11

LEMMA InvNext == ASSUME OneWriter PROVE TypeOK /\ IInv /\ [Next]_vars => IInv'
<1> SUFFICES ASSUME TypeOK, IInv, [Next]_vars PROVE IInv'
  OBVIOUS
<1>1. ASSUME UNCHANGED thread, UNCHANGED table, UNCHANGED mirror, UNCHANGED hydrated,
             held' \subseteq held
      PROVE  IInv'
  <2> USE <1>1 DEF IInv
  <2>1. InTurn' BY DEF InTurn, Busy, At, Up, Engine
  <2>2. PastGuard' BY DEF PastGuard, Engine
  <2>3. OwnRows' BY DEF OwnRows, Engine
  <2>4. NothingMissing' BY DEF NothingMissing, Reached, At
  <2>5. SnapshotComplete' BY DEF SnapshotComplete, At, Engine
  <2> QED BY <2>1, <2>2, <2>3, <2>4, <2>5
<1>2. ASSUME NEW s \in Symbols, ClosedAtKotak(s) PROVE IInv'
  BY <1>1, <1>2 DEF ClosedAtKotak
<1>3. CASE JournalSync BY <1>1, <1>3 DEF JournalSync
<1>4. CASE UNCHANGED vars BY <1>1, <1>4 DEF vars
<1>5. CASE Restart
  <2>1. TypeOK' BY TypeNext
  <2>2. Fresh' BY <1>5 DEF Restart, Fresh, Boot
  <2> QED BY <2>1, <2>2, FreshInv, PTL
<1>6. ASSUME NEW t \in Threads, ReadRows(t) \/ Post(t) \/ Hydrate(t) \/ Insert(t)
      PROVE  IInv'
  BY <1>6, ReadRowsKeeps, PostKeeps, HydrateKeeps, InsertKeeps
<1>7. ASSUME NEW t \in Writers, NEW s \in Symbols, Enter(t, s) \/ Leave(t, s) PROVE IInv'
  BY <1>7, WriterKeeps
<1>8. CASE StartupRestores BY <1>8, StartupKeeps
<1> QED BY <1>2, <1>3, <1>4, <1>5, <1>6, <1>7, <1>8 DEF Next

LEMMA Inductive == ASSUME OneWriter PROVE Spec => [](TypeOK /\ IInv)
<1>1. Init => TypeOK /\ IInv
  <2>1. Init => Fresh BY DEF Init, Fresh
  <2> QED BY <2>1, TypeInit, FreshInv
<1>2. TypeOK /\ IInv /\ [Next]_vars => (TypeOK /\ IInv)'
  BY TypeNext, InvNext
<1> QED BY <1>1, <1>2, PTL DEF Spec

\* B-1364 with one pushing thread and no hydrate job outliving the startup deadline: no
\* push drops an open swing position from its mirror, whatever reads, pushes and restarts
\* fail.
THEOREM GuardedPushKeepsOpen == ASSUME OneWriter PROVE Spec => OpenStaysMirrored
<1>1. TypeOK /\ IInv /\ [Next]_vars =>
          [\A s \in mirror \ mirror' : EngineOf[s] \in Guarded => s \notin held]_vars
  <2> SUFFICES ASSUME TypeOK, IInv, Next, NEW s \in mirror \ mirror', EngineOf[s] \in Guarded
               PROVE  s \notin held
    OBVIOUS
  <2>1. PICK t \in Threads : Post(t)
    BY DEF Next, ClosedAtKotak, Enter, Leave, ReadRows, Hydrate, Insert, JournalSync,
           StartupRestores, Restart
  <2>2. thread[t].at = "post" /\ s \in Of(Engine(t)) /\ s \notin thread[t].rows
    BY <2>1 DEF Post, At, Engine
  <2>3. Engine(t) \in Guarded BY <2>2 DEF Of
  <2> QED BY <2>2, <2>3 DEF IInv, SnapshotComplete, At
<1> QED BY <1>1, Inductive, PTL DEF Spec, OpenStaysMirrored

(***************************************************************************)
(* What a hydrate job read at Upstash is still there when it inserts it.   *)
(***************************************************************************)
StillMirrored == \A t \in Threads : At(t, "insert") => thread[t].rows \subseteq mirror

LEMMA StillMirroredNext ==
    ASSUME OneWriter PROVE TypeOK /\ IInv /\ StillMirrored /\ [Next]_vars => StillMirrored'
<1> SUFFICES ASSUME TypeOK, IInv, StillMirrored, [Next]_vars, NEW u \in Threads,
                    thread'[u].at = "insert"
             PROVE  thread'[u].rows \subseteq mirror'
  BY DEF StillMirrored, At
<1>1. ASSUME thread'[u] = thread[u], UNCHANGED mirror PROVE thread'[u].rows \subseteq mirror'
  BY <1>1 DEF StillMirrored, At
<1>2. ASSUME NEW t \in Threads, Post(t) PROVE thread'[u].rows \subseteq mirror'
  <2>1. /\ thread[t].at = "post" /\ thread'[t].at = "idle"
        /\ \A v \in Threads : v # t => thread'[v] = thread[v]
        /\ mirror \ Of(Engine(t)) \subseteq mirror'
    BY <1>2 DEF Post, At, Carrying, TypeOK, Engine
  <2>2. u # t /\ thread'[u] = thread[u] /\ thread[u].at = "insert"
    BY <2>1
  <2>3. Engine(u) # Engine(t)
    BY <2>1, <2>2, OneAtWork DEF Busy, IInv
  <2>4. thread[u].rows \subseteq mirror /\ thread[u].rows \subseteq Of(Engine(u))
    BY <2>2 DEF StillMirrored, At, IInv, OwnRows
  <2> QED BY <2>1, <2>2, <2>3, <2>4 DEF Of
<1>3. ASSUME NEW t \in Threads, Hydrate(t) PROVE thread'[u].rows \subseteq mirror'
  <2>1. \/ u = t /\ thread'[u].rows = mirror \cap Of(thread[t].engine)
        \/ thread'[u] = thread[u]
    BY <1>3 DEF Hydrate, Carrying, Go, TypeOK
  <2>2. mirror' = mirror
    BY <1>3 DEF Hydrate
  <2> QED BY <1>1, <2>1, <2>2
<1>4. ASSUME NEW t \in Threads, ReadRows(t) \/ Insert(t) PROVE thread'[u].rows \subseteq mirror'
  <2>1. thread'[t].at # "insert" /\ \A v \in Threads : v # t => thread'[v] = thread[v]
    BY <1>4 DEF ReadRows, Insert, Carrying, TypeOK
  <2> QED BY <1>1, <1>4, <2>1 DEF ReadRows, Insert
<1>5. ASSUME NEW t \in Writers, NEW s \in Symbols, Enter(t, s) \/ Leave(t, s)
      PROVE  thread'[u].rows \subseteq mirror'
  <2>1. t \in Threads /\ thread' = [thread EXCEPT ![t] = Push(EngineOf[s])]
    BY <1>5 DEF Enter, Leave, Threads
  <2>2. thread'[t].at # "insert" /\ \A v \in Threads : v # t => thread'[v] = thread[v]
    BY <2>1 DEF Push, TypeOK
  <2> QED BY <1>1, <1>5, <2>2 DEF Enter, Leave
<1>6. CASE StartupRestores
  <2>1. /\ thread[Startup].at = "wait" /\ Startup \in Threads
        /\ \/ thread' = [thread EXCEPT ![Startup] = [thread[Startup] EXCEPT !.at = "idle"]]
           \/ thread' = [thread EXCEPT ![Startup] = Push("long")]
    BY <1>6 DEF StartupRestores, At, Threads
  <2>2. thread'[Startup].at # "insert" /\ \A v \in Threads : v # Startup => thread'[v] = thread[v]
    BY <2>1 DEF Push, TypeOK
  <2> QED BY <1>1, <1>6, <2>2 DEF StartupRestores
<1>7. ~Restart
  <2>1. CASE Restart
    <3>1. Boot[u].at \in {"hydrate", "wait", "idle"}
      BY DEF Boot
    <3> QED BY <2>1, <3>1 DEF Restart
  <2> QED BY <2>1
<1>8. ASSUME UNCHANGED <<thread, mirror>> PROVE thread'[u].rows \subseteq mirror'
  BY <1>1, <1>8
<1> QED BY <1>2, <1>3, <1>4, <1>5, <1>6, <1>7, <1>8
        DEF Next, ClosedAtKotak, JournalSync, vars

\* 2026-09-08, with one pushing thread and no hydrate job outliving the startup deadline:
\* a row comes back only for a position that is open or that Upstash still lists, or from
\* the journal after the long table's read of Upstash failed; an empty answer is believed.
THEOREM ClosedNotRevived == ASSUME OneWriter PROVE Spec => ClosedStaysClosed
<1>1. Init => StillMirrored
  <2> SUFFICES ASSUME Init, NEW t \in Threads PROVE thread[t].at # "insert"
    BY DEF StillMirrored, At
  <2>1. Boot[t].at \in {"hydrate", "wait", "idle"}
    BY DEF Boot
  <2> QED BY <2>1 DEF Init
<1>2. TypeOK /\ IInv /\ StillMirrored /\ [Next]_vars =>
          [\A s \in table' \ table : s \in held' \/ s \in mirror \/ At("long", "failed")]_vars
  <2> SUFFICES ASSUME TypeOK, IInv, StillMirrored, Next, NEW s \in table' \ table
               PROVE  s \in held' \/ s \in mirror \/ At("long", "failed")
    OBVIOUS
  <2>1. ASSUME NEW t \in Threads, Insert(t) PROVE s \in mirror
    BY <2>1 DEF Insert, StillMirrored
  <2>2. ASSUME NEW t \in Writers, NEW r \in Symbols, Enter(t, r) PROVE s \in held'
    BY <2>2 DEF Enter
  <2>3. CASE StartupRestores
    <3>1. \A e \in Engines : thread[e].at \in {"done", "failed"}
      BY <2>3 DEF StartupRestores, OneWriter, Fault
    <3>2. UseJournal(\A e \in Engines : thread[e].at \in {"done", "failed"})
      BY <2>3 DEF StartupRestores
    <3>3. ~At("long", "done")
      BY <3>1, <3>2 DEF UseJournal
    <3> QED BY <3>1, <3>3 DEF At, Engines
  <2>4. ASSUME UNCHANGED table \/ table' \subseteq table PROVE FALSE
    BY <2>4
  <2> QED BY <2>1, <2>2, <2>3, <2>4
          DEF Next, ClosedAtKotak, Leave, ReadRows, Post, Hydrate, JournalSync, Restart
<1> QED BY <1>1, <1>2, StillMirroredNext, Inductive, PTL DEF Spec, ClosedStaysClosed

=============================================================================

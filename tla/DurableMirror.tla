--------------------------- MODULE DurableMirror ---------------------------
(***************************************************************************)
(* The tables of real open positions and their mirrors at Upstash: the     *)
(* disk is wiped by every restart, each table is pushed as a whole         *)
(* snapshot after every commit and restored at startup (main.py, _sync_    *)
(* real_positions*_external and hydrate_real_positions*_from_external).    *)
(*                                                                         *)
(* A row is its symbol; each symbol belongs to one engine, and each engine *)
(* has a table and an Upstash key of its own.  One action is one network   *)
(* call, one commit, or the read of the rows a push will send.             *)
(***************************************************************************)
EXTENDS Naturals, FiniteSets

CONSTANTS
    Symbols,
    EngineOf,   \* the engine that owns a symbol
    Writers,    \* threads that open, close and clean up positions
    Startup,    \* the thread of the startup handler
    Faults,     \* which faults may happen, out of FaultKinds
    MaxFaults   \* bound: how many of them

Engines == {"long", "short", "swing"}
Guarded == {"swing"}   \* B-1364: pushed only after this process restored the key
Journaled == {"long"}  \* state/open_real_positions.json, the older second layer
FaultKinds == {"unreadable", "push_lost", "slow", "restart"}

\* The hydrate job of an engine runs in a thread of its own, named for the engine.
Threads == Writers \cup {Startup} \cup Engines

ASSUME SymbolsAssumption == EngineOf \in [Symbols -> Engines]
ASSUME ThreadsAssumption ==
    Startup \notin Writers /\ Startup \notin Engines /\ Writers \cap Engines = {}
ASSUME FaultsAssumption == Faults \subseteq FaultKinds /\ MaxFaults \in Nat

VARIABLES
    held,      \* positions open at Kotak
    table,     \* rows of the three tables on the local disk
    mirror,    \* rows of the three keys at Upstash
    journal,   \* rows of the journal file in git
    hydrated,  \* _SWING_MIRROR_HYDRATED
    thread,    \* per thread: what it is doing, for which engine, with which rows
    faults     \* faults so far (bounded by MaxFaults)

vars == <<held, table, mirror, journal, hydrated, thread, faults>>

Of(e) == {s \in Symbols : EngineOf[s] = e}
At(t, pc) == thread[t].at = pc
Go(t, pc) == thread' = [thread EXCEPT ![t].at = pc]
Carrying(t, pc, rows) == thread' = [thread EXCEPT ![t].at = pc, ![t].rows = rows]
Up == At(Startup, "idle")

Fault(kind) == kind \in Faults /\ faults < MaxFaults /\ faults' = faults + 1
NoFault == UNCHANGED faults

(***************************************************************************)
(* Kotak and the journal workflow.                                         *)
(***************************************************************************)
\* A stop or a target fills, or the owner sells by hand.
ClosedAtKotak(s) ==
    /\ s \in held
    /\ held' = held \ {s}
    /\ UNCHANGED <<table, mirror, journal, hydrated, thread, faults>>

\* journal-sync commits what the running bot reports.
JournalSync ==
    /\ Up
    /\ journal' = {s \in table : EngineOf[s] \in Journaled}
    /\ UNCHANGED <<held, table, mirror, hydrated, thread, faults>>

(***************************************************************************)
(* _sync_real_positions_external, _short_external, _swing_external.        *)
(***************************************************************************)
\* Mutant: the push before B-1364.
PushUnguarded(e) == [at |-> "read", engine |-> e, rows |-> {}]
Push(e) ==
    [at |-> IF e \in Guarded \ hydrated THEN "hydrate" ELSE "read", engine |-> e, rows |-> {}]

ReadRows(t) ==
    /\ At(t, "read")
    /\ Carrying(t, "post", table \cap Of(thread[t].engine))
    /\ UNCHANGED <<held, table, mirror, journal, hydrated, faults>>

\* A failed push is printed and forgotten.
Post(t) ==
    /\ At(t, "post")
    /\ \/ mirror' = (mirror \ Of(thread[t].engine)) \cup thread[t].rows /\ NoFault
       \/ UNCHANGED mirror /\ Fault("push_lost")
    /\ Carrying(t, "idle", {})
    /\ UNCHANGED <<held, table, journal, hydrated>>

(***************************************************************************)
(* hydrate_real_positions_from_external and its short and swing forms, by  *)
(* the startup job of the engine or by a guarded push.                     *)
(***************************************************************************)
Mark(e) == {e} \cap Guarded

Hydrate(t) ==
    /\ At(t, "hydrate")
    /\ \/ /\ NoFault
          /\ Carrying(t, "insert", mirror \cap Of(thread[t].engine))
          /\ hydrated' = hydrated \cup Mark(thread[t].engine)
       \/ /\ Fault("unreadable")
          /\ Go(t, IF t \in Engines THEN "failed" ELSE "idle")
          /\ UNCHANGED hydrated
    /\ UNCHANGED <<held, table, mirror, journal>>

\* Mutant: restores only into an empty table.
InsertIntoEmpty(t) ==
    /\ At(t, "insert")
    /\ table' = IF table \cap Of(thread[t].engine) = {} THEN table \cup thread[t].rows ELSE table
    /\ Carrying(t, IF t \in Engines THEN "done" ELSE "read", {})
    /\ UNCHANGED <<held, mirror, journal, hydrated, faults>>
\* Rows the table has already are skipped.
Insert(t) ==
    /\ At(t, "insert")
    /\ table' = table \cup thread[t].rows
    /\ Carrying(t, IF t \in Engines THEN "done" ELSE "read", {})
    /\ UNCHANGED <<held, mirror, journal, hydrated, faults>>

(***************************************************************************)
(* _start_scheduler: the hydrate jobs run at once under one deadline; when *)
(* it passes they go on in the background.  Nothing else runs before the   *)
(* handler returns.                                                        *)
(***************************************************************************)
\* Mutant: the journal is read whatever Upstash answered (before 2026-09-08).
UseJournalAlways(inTime) == TRUE
UseJournal(inTime) == ~(inTime /\ At("long", "done"))

StartupRestores ==
    /\ At(Startup, "wait")
    /\ LET finished == \A e \in Engines : thread[e].at \in {"done", "failed"}
           missing == IF UseJournal(finished) THEN journal \ table ELSE {}
       IN  /\ IF finished THEN NoFault ELSE Fault("slow")
           /\ table' = table \cup missing
           /\ thread' = [thread EXCEPT ![Startup] =
                            IF missing = {} THEN [@ EXCEPT !.at = "idle"] ELSE Push("long")]
    /\ UNCHANGED <<held, mirror, journal, hydrated>>

(***************************************************************************)
(* The callers: a real entry, a real exit, the cleanup of a row whose      *)
(* position Kotak shows closed.  Each commits, then pushes its table.      *)
(***************************************************************************)
Enter(t, s) ==
    /\ Up /\ At(t, "idle") /\ s \notin held \cup table
    /\ held' = held \cup {s} /\ table' = table \cup {s}
    /\ thread' = [thread EXCEPT ![t] = Push(EngineOf[s])]
    /\ UNCHANGED <<mirror, journal, hydrated, faults>>

Leave(t, s) ==
    /\ Up /\ At(t, "idle") /\ s \in table
    /\ held' = held \ {s} /\ table' = table \ {s}
    /\ thread' = [thread EXCEPT ![t] = Push(EngineOf[s])]
    /\ UNCHANGED <<mirror, journal, hydrated, faults>>

(***************************************************************************)
(* The process dies; the disk is empty when it comes back.                 *)
(***************************************************************************)
Boot == [t \in Threads |->
            [at |-> CASE t \in Engines -> "hydrate" [] t = Startup -> "wait" [] OTHER -> "idle",
             engine |-> IF t \in Engines THEN t ELSE "long", rows |-> {}]]

Restart ==
    /\ Fault("restart")
    /\ table' = {} /\ hydrated' = {} /\ thread' = Boot
    /\ UNCHANGED <<held, mirror, journal>>

Init ==
    /\ held = {} /\ table = {} /\ mirror = {} /\ journal = {} /\ hydrated = {}
    /\ thread = Boot /\ faults = 0

Next ==
    \/ \E s \in Symbols : ClosedAtKotak(s)
    \/ \E t \in Writers, s \in Symbols : Enter(t, s) \/ Leave(t, s)
    \/ \E t \in Threads : ReadRows(t) \/ Post(t) \/ Hydrate(t) \/ Insert(t)
    \/ JournalSync \/ StartupRestores \/ Restart

Spec == Init /\ [][Next]_vars

-----------------------------------------------------------------------------
Pcs == {"idle", "wait", "hydrate", "insert", "read", "post", "done", "failed"}

TypeOK ==
    /\ held \subseteq Symbols /\ table \subseteq Symbols /\ mirror \subseteq Symbols
    /\ journal \subseteq Symbols /\ hydrated \subseteq Guarded
    /\ thread \in [Threads -> [at : Pcs, engine : Engines, rows : SUBSET Symbols]]
    /\ faults \in Nat

\* B-1364: "never push before this process restored the remote copy": no push drops an
\* open swing position from its mirror, from which alone a restart can restore it.
OpenStaysMirrored ==
    [][\A s \in mirror \ mirror' : EngineOf[s] \in Guarded => s \notin held]_vars

\* Once an engine's mirror was restored, by the startup job or by the first push after a
\* failed one, every position that is open and mirrored has its row: it is governed again.
Restored(e) ==
    /\ At(e, "done") \/ e \in hydrated
    /\ \A t \in Threads : thread[t].engine = e => ~At(t, "insert")
MirroredIsTracked == \A s \in held \cap mirror : Restored(EngineOf[s]) => s \in table

\* 2026-09-08: an answer of Upstash, "an EMPTY-but-successful read" too, is authoritative:
\* then the journal brings back no row of a closed position.
ClosedStaysClosed ==
    [][\A s \in table' \ table : s \in held' \/ s \in mirror \/ At("long", "failed")]_vars
=============================================================================

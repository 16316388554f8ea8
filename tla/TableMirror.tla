---------------------------- MODULE TableMirror ----------------------------
(***************************************************************************)
(* The generic mirror of one table, by the example of the real option legs *)
(* (real_fo_positions): the whole table is cut into chunks and pushed to   *)
(* Upstash whenever its content differs from what was pushed last, and     *)
(* restored after a restart (main.py, sync_generic_tables_external and     *)
(* hydrate_generic_tables_from_external).                                  *)
(*                                                                         *)
(* A row is the position it stands for, a content the sequence of rows in  *)
(* rowid order.  One action is one GET or SET, or the local steps between  *)
(* two of them.                                                            *)
(***************************************************************************)
EXTENDS Naturals, FiniteSets, SequencesExt

CONSTANTS
    Positions,
    ChunkRows,  \* rows that fit into one chunk
    Pushers,    \* threads that sync the table: for the option legs only the tick
    Startup,    \* the thread of the startup restore
    Faults,     \* which faults may happen, out of FaultKinds
    MaxFaults   \* bound: how many of them

\* A failed GET; a SET that raises; a crash; a startup past its deadline; a position
\* opened before the table was restored.
FaultKinds == {"unreachable", "push_lost", "restart", "slow", "early_write"}
Threads == Pushers \cup {Startup}

ASSUME PositionsAssumption == IsFiniteSet(Positions) /\ ChunkRows \in Nat \ {0}
ASSUME ThreadsAssumption == Startup \notin Pushers
ASSUME FaultsAssumption == Faults \subseteq FaultKinds /\ MaxFaults \in Nat

VARIABLES
    status,    \* of each position: new, open, closed
    table,     \* the rows on the local disk
    chunk,     \* the chunks at Upstash
    meta,      \* how many of them the meta key names
    hydrated,  \* the table is in _generic_mirror_hydrated
    pushed,    \* _generic_mirror_last_hash: the content whose push was the last to succeed
    thread,    \* per thread: where it is in a restore or a push
    up,        \* the startup handler has gone on to start the loops
    faults     \* faults so far (bounded by MaxFaults)

remote == <<chunk, meta>>
vars == <<status, table, remote, hydrated, pushed, thread, up, faults>>

Fault(kind) == kind \in Faults /\ faults < MaxFaults /\ faults' = faults + 1
NoFault == UNCHANGED faults

NoChunk == [rows |-> <<>>, last |-> FALSE, stored |-> FALSE]
NoMeta == Cardinality(Positions) + 1
NotPushed == <<"none">>
Ids == 1..Cardinality(Positions)

(***************************************************************************)
(* A content as text.  Only the last chunk of a text closes its bracket,   *)
(* so chunks of two texts may not parse together.                          *)
(***************************************************************************)
Cut(content) ==
    LET n == (Len(content) + ChunkRows - 1) \div ChunkRows
        upto(i) == IF i = n THEN Len(content) ELSE i * ChunkRows
    IN  [i \in 1..n |-> [rows |-> SubSeq(content, (i - 1) * ChunkRows + 1, upto(i)),
                         last |-> i = n, stored |-> TRUE]]
Parses(parts) == \A i \in DOMAIN parts : parts[i].last <=> i = Len(parts)
Join(parts) == FlattenSeq([i \in DOMAIN parts |-> parts[i].rows])

Idle == [at |-> "idle", rows |-> <<>>, parts |-> <<>>, n |-> 0]
At(t, pc) == thread[t].at = pc
Go(t, pc) == thread' = [thread EXCEPT ![t].at = pc]
\* The call of t ends; the startup handler waits for its own.
Done(t) == thread' = [thread EXCEPT ![t] = Idle] /\ up' = (up \/ t = Startup)

(***************************************************************************)
(* The program opens and closes positions.                                 *)
(***************************************************************************)
Open(p) ==
    /\ up /\ status[p] = "new"
    /\ status' = [status EXCEPT ![p] = "open"]
    /\ table' = Append(table, p)
    /\ IF hydrated THEN NoFault ELSE Fault("early_write")
    /\ UNCHANGED <<remote, hydrated, pushed, thread, up>>

Close(p) ==
    /\ up /\ p \in Range(table)
    /\ status' = [status EXCEPT ![p] = "closed"]
    /\ table' = RemoveFirst(table, p)
    /\ UNCHANGED <<remote, hydrated, pushed, thread, up, faults>>

(***************************************************************************)
(* _generic_hydrate_table.                                                 *)
(***************************************************************************)
\* Nothing remote, or rows already in the local table: restored.
ReadMeta(t) ==
    /\ At(t, "meta")
    /\ \/ /\ NoFault
          /\ IF meta = NoMeta \/ table # <<>>
             THEN hydrated' = TRUE /\ Done(t)
             ELSE /\ thread' = [thread EXCEPT ![t].at = "read", ![t].n = meta]
                  /\ UNCHANGED <<hydrated, up>>
       \/ Fault("unreachable") /\ Done(t) /\ UNCHANGED hydrated
    /\ UNCHANGED <<status, table, remote, pushed>>

\* A missing chunk ends the restore.
ReadChunk(t) ==
    LET i == Len(thread[t].parts) + 1 IN
    /\ At(t, "read") /\ i <= thread[t].n
    /\ \/ /\ NoFault
          /\ IF chunk[i].stored
             THEN thread' = [thread EXCEPT ![t].parts = Append(@, chunk[i])] /\ UNCHANGED up
             ELSE Done(t)
       \/ Fault("unreachable") /\ Done(t)
    /\ UNCHANGED <<status, table, remote, hydrated, pushed>>

\* INSERT OR REPLACE of every row; chunks that do not parse together are an exception.
InsertBeside(rows, row) == Append(rows, row)  \* mutant: keeps the row that is there
Insert(rows, row) == Append(RemoveFirst(rows, row), row)
Restore(t) ==
    /\ At(t, "read") /\ Len(thread[t].parts) = thread[t].n
    /\ IF Parses(thread[t].parts)
       THEN table' = FoldLeft(Insert, table, Join(thread[t].parts)) /\ hydrated' = TRUE
       ELSE UNCHANGED <<table, hydrated>>
    /\ Done(t)
    /\ UNCHANGED <<status, remote, pushed, faults>>

(***************************************************************************)
(* sync_generic_tables_external.                                           *)
(***************************************************************************)
\* Mutant: pushes whether or not the table was restored.
SyncUnguarded(t) ==
    /\ up /\ At(t, "idle") /\ table # pushed
    /\ thread' = [thread EXCEPT ![t].at = "write", ![t].rows = table]
    /\ UNCHANGED <<status, table, remote, hydrated, pushed, up, faults>>
\* A table that was not restored is restored first.
Sync(t) ==
    /\ up /\ At(t, "idle")
    /\ \/ ~hydrated /\ Go(t, "meta")
       \/ /\ hydrated /\ table # pushed
          /\ thread' = [thread EXCEPT ![t].at = "write", ![t].rows = table]
    /\ UNCHANGED <<status, table, remote, hydrated, pushed, up, faults>>

\* Mutant: goes on after a SET that failed.
SetUnchecked(t, apply, next) ==
    \/ apply /\ next /\ NoFault /\ UNCHANGED up
    \/ (apply \/ UNCHANGED remote) /\ next /\ UNCHANGED up /\ Fault("push_lost")
\* A SET that raises may have been executed or not; the exception ends the push.
Set(t, apply, next) ==
    \/ apply /\ next /\ NoFault /\ UNCHANGED up
    \/ (apply \/ UNCHANGED remote) /\ Done(t) /\ Fault("push_lost")

WriteChunk(t) ==
    LET text == Cut(thread[t].rows)
        i == thread[t].n + 1
    IN  /\ At(t, "write") /\ i <= Len(text)
        /\ Set(t, chunk' = [chunk EXCEPT ![i] = text[i]] /\ UNCHANGED meta,
                  thread' = [thread EXCEPT ![t].n = i])
        /\ UNCHANGED <<status, table, hydrated, pushed>>

WriteMeta(t) ==
    LET text == Cut(thread[t].rows) IN
    /\ At(t, "write") /\ thread[t].n = Len(text)
    /\ Set(t, meta' = Len(text) /\ UNCHANGED chunk, Go(t, "record"))
    /\ UNCHANGED <<status, table, hydrated, pushed>>

Record(t) ==
    /\ At(t, "record")
    /\ pushed' = thread[t].rows
    /\ Done(t)
    /\ UNCHANGED <<status, table, remote, hydrated, faults>>

(***************************************************************************)
(* Startup and restart.                                                    *)
(***************************************************************************)
\* STARTUP_HYDRATION_TIMEOUT_SECONDS: the loops start, the restore runs on.
Timeout ==
    /\ ~up /\ Fault("slow")
    /\ up' = TRUE
    /\ UNCHANGED <<status, table, remote, hydrated, pushed, thread>>

Boot == [t \in Threads |-> IF t = Startup THEN [Idle EXCEPT !.at = "meta"] ELSE Idle]

Restart ==
    /\ Fault("restart")
    /\ table' = <<>> /\ hydrated' = FALSE /\ pushed' = NotPushed
    /\ thread' = Boot /\ up' = FALSE
    /\ UNCHANGED <<status, remote>>

Init ==
    /\ status = [p \in Positions |-> "new"]
    /\ table = <<>> /\ chunk = [i \in Ids |-> NoChunk] /\ meta = NoMeta
    /\ hydrated = FALSE /\ pushed = NotPushed
    /\ thread = Boot /\ up = FALSE /\ faults = 0

Call(t) == ReadMeta(t) \/ ReadChunk(t) \/ Restore(t) \/ WriteChunk(t) \/ WriteMeta(t) \/ Record(t)
Next ==
    \/ \E p \in Positions : Open(p) \/ Close(p)
    \/ \E t \in Pushers : Sync(t)
    \/ \E t \in Threads : Call(t)
    \/ Timeout \/ Restart

Spec == Init /\ [][Next]_vars

\* Every tick syncs, every call returns.
FairSpec ==
    Spec /\ \A t \in Threads : WF_vars(Call(t)) /\ (t \in Pushers => WF_vars(Sync(t)))

-----------------------------------------------------------------------------
Contents == {c \in SeqOf(Positions, Cardinality(Positions)) : IsInjective(c)}
Chunk == [rows : SeqOf(Positions, ChunkRows), last : BOOLEAN, stored : BOOLEAN]

TypeOK ==
    /\ status \in [Positions -> {"new", "open", "closed"}]
    /\ table \in Contents /\ pushed \in Contents \cup {NotPushed}
    /\ chunk \in [Ids -> Chunk] /\ meta \in 0..NoMeta
    /\ hydrated \in BOOLEAN /\ up \in BOOLEAN /\ faults \in 0..MaxFaults
    /\ \A t \in Threads :
          /\ thread[t].at \in {"idle", "meta", "read", "write", "record"}
          /\ thread[t].rows \in Contents /\ thread[t].n \in 0..Cardinality(Positions)
          /\ Len(thread[t].parts) <= thread[t].n

\* What a restart would restore.
Remote == IF meta = NoMeta THEN <<>> ELSE SubSeq(chunk, 1, meta)
Mirrored(p) == Parses(Remote) /\ p \in Range(Join(Remote))

\* "A transient startup outage can't overwrite a good remote copy": a position the mirror
\* holds is in it for as long as it is open.
OpenStaysMirrored ==
    [][\A p \in Positions : Mirrored(p) /\ status'[p] = "open" => Mirrored(p)']_vars

\* "Mirrors every hydrated table whose content changed since its last push": a position that
\* stays open in its table reaches the mirror, whatever pushes were lost on the way.
OpenReachesMirror ==
    \A p \in Positions : []<>(status[p] # "open" \/ p \notin Range(table) \/ Mirrored(p))

=============================================================================

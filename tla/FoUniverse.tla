----------------------------- MODULE FoUniverse -----------------------------
(***************************************************************************)
(* Which F&O contracts the candle feed streams (kotak_fo_candle_feed.py).  *)
(* The main loop resolves the index legs, connects, and resolves the stock *)
(* legs in the background while it streams; a resolve that runs out of its *)
(* ten minutes leaves the remaining stocks to another round.  The resolve  *)
(* runs in a thread that asyncio.wait_for abandons but cannot stop.        *)
(*                                                                         *)
(* Stocks are their places 0..N-1 in STOCK_FO_UNDERLYINGS; the five index  *)
(* underlyings are one.  All legs of an underlying are one leg.            *)
(***************************************************************************)
EXTENDS Integers

CONSTANTS
    N,        \* stocks in STOCK_FO_UNDERLYINGS
    Faults,   \* which faults may happen, out of FaultKinds
    MaxFaults \* bound: how many of them

FaultKinds == {"no_price", "starved", "timeout", "drop", "login"}

ASSUME NAssumption == N \in Nat \ {0}
ASSUME FaultsAssumption == Faults \subseteq FaultKinds /\ MaxFaults \in Nat

VARIABLES
    phase,    \* where run_fo_candle_feed is
    stocks,   \* _universe_cache["value"]: per stock "none", "live" or "expired"
    index,    \* the index legs of it, or "unresolved" while the value is None
    partial,  \* _universe_cache["partial"]: index legs only
    age,      \* since resolved_at: "new" under 5 min, "settled" under 4 h, "old"
    current,  \* the universe the loop works with is the cached one
    thread,   \* per owner: the resolve_fo_universe call it awaits
    orphans,  \* calls nobody awaits any more
    report,   \* stocks named deadline_exceeded in _feed_status["unresolved_legs"]
    task,     \* _bg_resolve["task"]
    swapped,  \* _bg_resolve["swapped"]
    cooling,  \* less than BG_RESOLVE_RETRY_SECONDS since failed_at
    offset,   \* _stock_resolve_offset
    due,      \* _resolve_continuation["due"]
    counted,  \* _resolve_continuation["attempted"]
    tried,    \* stocks really attempted in the rounds of this cycle
    mixed,    \* a round of this cycle read the report of an orphan
    faults    \* faults so far (bounded by MaxFaults)

cache == <<stocks, index, partial, age>>
rounds == <<offset, due, counted, tried, mixed>>
back == <<task, swapped, cooling>>
vars == <<phase, cache, current, thread, orphans, report, back, rounds, faults>>

Stocks == 0..(N - 1)
Owners == {"main", "background"}
Legs == {"none", "live", "expired"}

NoThread == [at |-> "idle", scope |-> "index", from |-> 0, tries |-> 0, gets |-> {}]
Thread == [at : {"idle", "running", "returned"}, scope : {"index", "full"},
           from : Stocks, tries : 0..N, gets : SUBSET {"index", "stocks"}]

Fault(kind) == kind \in Faults /\ faults < MaxFaults /\ faults' = faults + 1

\* The k stocks a round that starts at from gets to.
Turn(from, k) == {(from + i) % N : i \in 0..(k - 1)}

Empty == index \in {"none", "unresolved"} /\ \A s \in Stocks : stocks[s] = "none"
Expired == index = "expired" \/ \E s \in Stocks : stocks[s] = "expired"

\* universe_refresh_due, for a universe that is not None.
RefreshDue == \/ age = "old" \/ Expired
              \/ age # "new" /\ index = "none"

Start(owner, scope) ==
    thread' = [thread EXCEPT ![owner] = [at |-> "running", scope |-> scope, from |-> offset,
                                         tries |-> 0, gets |-> {}]]

(***************************************************************************)
(* resolve_fo_universe, in its thread.                                     *)
(***************************************************************************)
\* It stops itself at the deadline: so many stocks were tried, and the prices it asked
\* for were there or not.  A full round normally reaches a stock.
Asked(k) == IF k = 0 THEN {"index"} ELSE {"index", "stocks"}
Return(owner) ==
    LET t == thread[owner] IN
    /\ t.at = "running"
    /\ \E k \in IF t.scope = "index" THEN {0} ELSE 0..N : \E gets \in SUBSET Asked(k) :
          /\ thread' = [thread EXCEPT ![owner].at = "returned", ![owner].tries = k,
                                      ![owner].gets = gets]
          /\ report' = IF t.scope = "index" THEN 0 ELSE N - k
          /\ CASE k = 0 /\ t.scope = "full" -> Fault("starved")
               [] gets # Asked(k) -> Fault("no_price")
               [] OTHER -> UNCHANGED faults
    /\ UNCHANGED <<phase, cache, current, orphans, back, rounds>>

\* A call that outlived its wait_for ends at last and writes its report over whatever
\* is there: nothing for an index call, what the deadline cut off for a full one.
OrphanEnds ==
    /\ orphans > 0
    /\ orphans' = orphans - 1
    /\ report' \in 0..N
    /\ UNCHANGED <<phase, cache, current, thread, back, rounds, faults>>

\* The legs a call returns: the tried stocks' own, the others' from the previous universe.
Found(t, kind) == IF kind \in t.gets THEN "live" ELSE "none"
\* Mutant: the previous universe is carried forward for every stock.
ResolvedCarriesAll(t) ==
    [s \in Stocks |-> IF stocks[s] # "none" THEN stocks[s]
                      ELSE IF s \in Turn(t.from, t.tries) THEN Found(t, "stocks") ELSE "none"]
Resolved(t) ==
    [s \in Stocks |-> IF s \in Turn(t.from, t.tries) THEN Found(t, "stocks") ELSE stocks[s]]

(***************************************************************************)
(* The second half of _resolve_full_universe: what is counted comes from   *)
(* the shared report, not from the call's own result.                      *)
(***************************************************************************)
Attempted == N - report
Cumulative == (IF due THEN counted ELSE 0) + Attempted
More == report > 0 /\ Attempted > 0 /\ Cumulative < N

\* Mutant: the next round starts where this one did.
NextOffsetStays(t) == t.from
NextOffset(t) == (t.from + Attempted) % N

Land(owner) ==
    LET t == thread[owner] IN
    /\ t.at = "returned" /\ t.scope = "full"
    /\ stocks' = Resolved(t) /\ index' = Found(t, "index")
    /\ partial' = FALSE /\ age' = "new"
    /\ offset' = NextOffset(t)
    /\ due' = More /\ counted' = (IF More THEN Cumulative ELSE 0)
    /\ tried' = (IF due THEN tried ELSE {}) \cup Turn(t.from, t.tries)
    /\ mixed' = (report # N - t.tries \/ (due /\ mixed))
    /\ thread' = [thread EXCEPT ![owner] = NoThread]

\* asyncio.wait_for gives up; the thread goes on.
Abandon(owner) ==
    /\ thread[owner].at = "running"
    /\ Fault("timeout")
    /\ thread' = [thread EXCEPT ![owner] = NoThread]
    /\ orphans' = orphans + 1

(***************************************************************************)
(* run_fo_candle_feed.                                                     *)
(***************************************************************************)
ColdStart ==
    /\ phase = "top" /\ index = "unresolved"
    /\ phase' = "resolve_index"
    /\ Start("main", "index")
    /\ UNCHANGED <<cache, current, orphans, report, back, rounds, faults>>

\* Mutant: a running background resolve does not stop the loop from resolving too.
TopResolvesAlways == RefreshDue /\ ~partial
TopResolves == task = "none" /\ RefreshDue /\ ~partial

\* Not streaming and the universe is stale: resolved before connecting.
ResolveFirst ==
    /\ phase = "top" /\ index # "unresolved" /\ TopResolves
    /\ phase' = "resolve_full"
    /\ Start("main", "full")
    /\ UNCHANGED <<cache, current, orphans, report, back, rounds, faults>>

\* An empty universe is not subscribed to.
UseCached ==
    /\ phase = "top" /\ index # "unresolved" /\ ~TopResolves
    /\ phase' = IF Empty THEN "down" ELSE "login"
    /\ current' = TRUE
    /\ UNCHANGED <<cache, thread, orphans, report, back, rounds, faults>>

\* The index legs connect at once; without any, the full resolve comes first.
IndexLands ==
    LET t == thread["main"] IN
    /\ phase = "resolve_index" /\ t.at = "returned"
    /\ index' = Found(t, "index") /\ partial' = TRUE /\ age' = "new"
    /\ current' = TRUE
    /\ IF index' = "none"
       THEN phase' = "resolve_full" /\ Start("main", "full")
       ELSE phase' = "login" /\ thread' = [thread EXCEPT !["main"] = NoThread]
    /\ UNCHANGED <<stocks, orphans, report, back, rounds, faults>>

FullLands ==
    /\ phase = "resolve_full" /\ Land("main")
    /\ current' = TRUE
    /\ phase' = IF Empty' THEN "down" ELSE "login"
    /\ UNCHANGED <<orphans, report, back, faults>>

ResolveTimesOut ==
    /\ phase \in {"resolve_index", "resolve_full"} /\ Abandon("main")
    /\ phase' = "down"
    /\ UNCHANGED <<cache, current, report, back, rounds>>

Connect ==
    /\ phase = "login"
    /\ \/ phase' = "streaming" /\ UNCHANGED faults
       \/ phase' = "down" /\ Fault("login")
    /\ UNCHANGED <<cache, current, thread, orphans, report, back, rounds>>

\* The socket ends without an error or raises.
Drop ==
    /\ phase = "streaming" /\ Fault("drop")
    /\ phase' = "down"
    /\ UNCHANGED <<cache, current, thread, orphans, report, back, rounds>>

\* After the backoff.
Retry ==
    /\ phase = "down"
    /\ phase' = "top"
    /\ UNCHANGED <<cache, current, thread, orphans, report, back, rounds, faults>>

(***************************************************************************)
(* background_resolve_step, at every tick or after five idle seconds, and  *)
(* _background_full_resolve.                                               *)
(***************************************************************************)
\* Mutant: the stream goes on with the universe it subscribed to.
AfterSwapStays == "streaming"
AfterSwap == IF swapped THEN "top" ELSE "streaming"

\* A finished task is collected; one that swapped the universe makes the stream reconnect.
Collect ==
    /\ phase = "streaming" /\ task = "done"
    /\ task' = "none" /\ swapped' = FALSE
    /\ phase' = AfterSwap
    /\ UNCHANGED <<cache, current, thread, orphans, report, cooling, rounds, faults>>

\* Another round waits CONTINUATION_GAP_SECONDS, which is no more than the time this takes.
BackgroundStarts ==
    /\ phase = "streaming" /\ task = "none" /\ ~cooling
    /\ partial \/ due \/ RefreshDue
    /\ task' = "running"
    /\ Start("background", "full")
    /\ UNCHANGED <<phase, cache, current, orphans, report, swapped, cooling, rounds, faults>>

BackgroundLands ==
    /\ Land("background")
    /\ task' = "done" /\ swapped' = TRUE
    /\ current' = FALSE
    /\ UNCHANGED <<phase, orphans, report, cooling, faults>>

BackgroundFails ==
    /\ Abandon("background")
    /\ task' = "done" /\ cooling' = TRUE
    /\ UNCHANGED <<phase, cache, current, report, swapped, rounds>>

(***************************************************************************)
(* Time.                                                                   *)
(***************************************************************************)
RetryDue ==
    /\ cooling /\ cooling' = FALSE
    /\ UNCHANGED <<phase, cache, current, thread, orphans, report, task, swapped, rounds, faults>>

Settles ==
    /\ index # "unresolved" /\ age = "new" /\ age' = "settled"
    /\ UNCHANGED <<phase, stocks, index, partial, current, thread, orphans, report, back, rounds, faults>>

FourHours ==
    /\ age = "settled" /\ age' = "old"
    /\ UNCHANGED <<phase, stocks, index, partial, current, thread, orphans, report, back, rounds, faults>>

\* A new IST day: weekly index legs, or the monthly ones of all, may have expired.  An
\* empty universe knows no day.
Midnight ==
    /\ ~Empty
    /\ age' = "old"
    /\ \/ UNCHANGED <<stocks, index>>
       \/ /\ index' = (IF index = "live" THEN "expired" ELSE index)
          /\ \/ UNCHANGED stocks
             \/ stocks' = [s \in Stocks |-> IF stocks[s] = "live" THEN "expired" ELSE stocks[s]]
    /\ UNCHANGED <<phase, partial, current, thread, orphans, report, back, rounds, faults>>

Init ==
    /\ phase = "top"
    /\ stocks = [s \in Stocks |-> "none"] /\ index = "unresolved"
    /\ partial = FALSE /\ age = "new" /\ current = FALSE
    /\ thread = [o \in Owners |-> NoThread] /\ orphans = 0 /\ report = 0
    /\ task = "none" /\ swapped = FALSE /\ cooling = FALSE
    /\ offset = 0 /\ due = FALSE /\ counted = 0
    /\ tried = {} /\ mixed = FALSE /\ faults = 0

Main == \/ ColdStart \/ ResolveFirst \/ UseCached \/ IndexLands \/ FullLands \/ ResolveTimesOut
        \/ Connect \/ Retry
Wake == Collect \/ BackgroundStarts
Background == BackgroundLands \/ BackgroundFails
Next == Main \/ Wake \/ Background \/ Drop \/ OrphanEnds
        \/ (\E o \in Owners : Return(o))
        \/ RetryDue \/ Settles \/ FourHours \/ Midnight

Spec == Init /\ [][Next]_vars

\* The loop goes on after every await, a call returns or is abandoned, a socket that
\* stays up is woken every five seconds, time passes.
Fairness ==
    /\ WF_vars(Main) /\ WF_vars(Wake) /\ WF_vars(Background)
    /\ \A o \in Owners : WF_vars(Return(o))
    /\ WF_vars(RetryDue) /\ WF_vars(Settles)

FairSpec == Spec /\ Fairness

-----------------------------------------------------------------------------
TypeOK ==
    /\ phase \in {"top", "resolve_index", "resolve_full", "login", "streaming", "down"}
    /\ stocks \in [Stocks -> Legs] /\ index \in Legs \cup {"unresolved"}
    /\ partial \in BOOLEAN /\ age \in {"new", "settled", "old"} /\ current \in BOOLEAN
    /\ thread \in [Owners -> Thread] /\ orphans \in Nat /\ report \in 0..N
    /\ task \in {"none", "running", "done"} /\ swapped \in BOOLEAN /\ cooling \in BOOLEAN
    /\ offset \in Stocks /\ due \in BOOLEAN /\ counted \in 0..N
    /\ tried \in SUBSET Stocks /\ mixed \in BOOLEAN /\ faults \in Nat

\* "Still one sequential resolve at a time" (B-1433): the loop and the background task
\* never await a resolve at once, through every reconnect, time-out and failure, so that
\* each works on the universe and the offset it started from.
OneResolve == thread["main"].at = "idle" \/ thread["background"].at = "idle"

\* "Until every stock has had an attempt this cycle" (B-1433): the rounds of a cycle end
\* only when their rotated turns have covered all stocks (a round that reached none ends
\* it too, and a report overwritten by an abandoned call can).
CycleComplete ==
    [][\A o \in Owners :
          (/\ thread[o].at = "returned" /\ thread[o].scope = "full" /\ thread'[o].at # "returned"
           /\ ~due' /\ thread[o].tries > 0 /\ ~mixed')
             => tried' = Stocks]_vars

\* "Expired ones drop out" (universe_needs_expiry_roll): a contract past its expiry is
\* not kept for ever by the rounds that carry untried stocks forward.
ExpiredDropOut ==
    /\ \A s \in Stocks : (stocks[s] = "expired") ~> (stocks[s] # "expired")
    /\ (index = "expired") ~> (index # "expired")

\* "On any failure wait before starting over": a feed that is down, or that streams an
\* older universe than the one it has resolved, streams the newest again.  It does not when
\* the universe is empty and either still marked partial (no index leg at the cold start and
\* the full resolve abandoned) or left by a background task that ended while the socket was
\* down: then the loop neither resolves nor streams, and nothing else does.
DeadEnd == phase = "down" /\ Empty /\ (partial \/ task = "done")
Serves == phase = "streaming" /\ current
ServesAgain == TRUE ~> (Serves \/ DeadEnd)

=============================================================================

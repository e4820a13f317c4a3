---------------------------- MODULE Speculation ----------------------------
(***************************************************************************)
(* The speculation runtime of zero-kernel (speculation.rs) and the permits  *)
(* and ledger of its contract (zero-abi speculation.rs).  Threads call      *)
(* admit, claim and end_turn on one runtime; every admission starts a       *)
(* worker thread.  An entry is one admission: it outlives its key in the    *)
(* table, because its worker and any waiting claim hold it too.             *)
(*                                                                          *)
(* A step is what happens under one lock.  admit holds the lock of the      *)
(* table until its worker is registered, and end_turn holds the lock of the *)
(* worker list until every worker in it has been joined.                    *)
(***************************************************************************)
EXTENDS Naturals, Sequences, FiniteSets, Functions

CONSTANTS Threads, Permits, Limit, MaxAdmissions

ASSUME LimitAssumption == Limit \in Nat

VARIABLES entry,      \* sequence of all admissions
          table,      \* claim key -> admission
          workers,    \* admissions whose handle is in the worker list
          inflight,
          ledger,
          thread,     \* thread -> the call it is in
          given       \* history: admissions whose result a claim returned

specVars == <<entry, table, workers, inflight, ledger, thread, given>>

NotCalling == [in |-> "nothing"]

\* SpeculationPermit::validate with the proof it carries.
ValidPermit(p) == p.unconditional /\ p.pure /\ p.cancellable /\ p.budget > 0

\* compile_finalized_speculation_plan: what is not eligible stays ordinary.
Plan(candidates) ==
    [speculative |-> {c \in candidates : ValidPermit(c)},
     ordinary    |-> {c \in candidates : ~ ValidPermit(c)}]

\* The claim key digests the whole permit.
ClaimKey(p) == p

SpeculationLedger ==
    [ordinary : Nat, dispatched : Nat, hits : Nat, cancelled : Nat, failed : Nat, wasted : Nat]

TableLocked == \E t \in Threads : thread[t].in = "register"

\* A plausible slip: the guard of the list lives until the table is cleared.
ListHeldThroughClear == \E t \in Threads : thread[t].in \in {"join", "clear"}

ListLocked == \E t \in Threads : thread[t].in = "join"

-----------------------------------------------------------------------------
\* admit, under the table's lock: an invalid permit, one that does not match
\* the prepared cell and a duplicate key are refused, a full runtime leaves the
\* call ordinary, any other permit gets an entry and a worker.
Admit(t, p, matches) ==
    /\ thread[t] = NotCalling /\ ~ TableLocked
    /\ p \in Plan(Permits).speculative /\ matches
    /\ ClaimKey(p) \notin DOMAIN table
    /\ IF inflight < Limit
       THEN /\ Len(entry) < MaxAdmissions
            /\ entry' = Append(entry, [permit |-> p, state |-> "pending", result |-> "none",
                                       cancelled |-> FALSE, worker |-> "spawned"])
            /\ table' = [k \in DOMAIN table \cup {ClaimKey(p)} |->
                           IF k = ClaimKey(p) THEN Len(entry') ELSE table[k]]
            /\ inflight' = inflight + 1
            /\ ledger' = [ledger EXCEPT !.dispatched = @ + 1]
            /\ thread' = [thread EXCEPT ![t] = [in |-> "register", entry |-> Len(entry')]]
       ELSE /\ ledger.ordinary < MaxAdmissions
            /\ ledger' = [ledger EXCEPT !.ordinary = @ + 1]
            /\ UNCHANGED <<entry, table, inflight, thread>>
    /\ UNCHANGED <<workers, given>>

\* The worker's handle is pushed to the list and the table's lock released.
Register(t) ==
    /\ thread[t].in = "register" /\ ~ ListLocked
    /\ workers' = workers \cup {thread[t].entry}
    /\ thread' = [thread EXCEPT ![t] = NotCalling]
    /\ UNCHANGED <<entry, table, inflight, ledger, given>>

WorkerRuns(e) ==
    /\ entry[e].worker = "spawned"
    /\ entry' = [entry EXCEPT ![e].worker = "working", ![e].state = "running"]
    /\ UNCHANGED <<table, workers, inflight, ledger, thread, given>>

\* A plausible slip: the result is stored without looking at the flag again.
WorkerKeepsResult(e) ==
    /\ entry[e].worker = "working"
    /\ \E result \in {"value", "error"} :
          entry' = [entry EXCEPT ![e].worker = "leaving", ![e].result = result,
                                 ![e].state = IF result = "value" THEN "ready" ELSE "failed"]
    /\ UNCHANGED <<table, workers, inflight, ledger, thread, given>>

\* The work returns, fails or panics; the flag decides under the entry's lock.
WorkerEnds(e) ==
    /\ entry[e].worker = "working"
    /\ \E result \in {"value", "error"} :
          IF entry[e].cancelled
          THEN /\ entry' = [entry EXCEPT ![e].worker = "leaving", ![e].state = "cancelled"]
               /\ ledger' = [ledger EXCEPT !.cancelled = @ + 1]
          ELSE /\ entry' = [entry EXCEPT ![e].worker = "leaving", ![e].result = result,
                                 ![e].state = IF result = "value" THEN "ready" ELSE "failed"]
               /\ ledger' = [ledger EXCEPT !.failed = @ + (IF result = "error" THEN 1 ELSE 0)]
    /\ UNCHANGED <<table, workers, inflight, thread, given>>

WorkerLeaves(e) ==
    /\ entry[e].worker = "leaving"
    /\ entry' = [entry EXCEPT ![e].worker = "gone"]
    /\ inflight' = inflight - 1
    /\ UNCHANGED <<table, workers, ledger, thread, given>>

-----------------------------------------------------------------------------
\* claim finds the entry of its key; a key that is not there is an invariant
\* failure and runs nothing.
ClaimBegins(t, p) ==
    /\ thread[t] = NotCalling /\ ~ TableLocked /\ ClaimKey(p) \in DOMAIN table
    /\ thread' = [thread EXCEPT ![t] = [in |-> "claim", entry |-> table[ClaimKey(p)]]]
    /\ UNCHANGED <<entry, table, workers, inflight, ledger, given>>

\* The bounded wait passes while the worker is still at it: the entry is flagged
\* and the worker left to end_turn.
ClaimTimesOut(t) ==
    /\ thread[t].in = "claim"
    /\ entry[thread[t].entry].state \in {"pending", "running"}
    /\ entry' = [entry EXCEPT ![thread[t].entry].cancelled = TRUE]
    /\ thread' = [thread EXCEPT ![t] = NotCalling]
    /\ UNCHANGED <<table, workers, inflight, ledger, given>>

\* The entry is settled: the first claim takes its result, any other claim, and
\* a claim of a cancelled entry, gets an error.
ClaimSettles(t) ==
    /\ thread[t].in = "claim"
    /\ LET e == thread[t].entry
       IN  /\ entry[e].state \notin {"pending", "running"} \/ entry[e].cancelled
           /\ IF entry[e].state \in {"ready", "failed"}
              THEN /\ entry' = [entry EXCEPT ![e].state = "claimed", ![e].result = "none"]
                   /\ given' = Append(given, e)
                   /\ ledger' = [ledger EXCEPT
                                   !.hits = @ + (IF entry[e].state = "ready" THEN 1 ELSE 0)]
              ELSE UNCHANGED <<entry, given, ledger>>
    /\ thread' = [thread EXCEPT ![t] = NotCalling]
    /\ UNCHANGED <<table, workers, inflight>>

-----------------------------------------------------------------------------
\* end_turn takes the entries of the table.
TurnBegins(t) ==
    /\ thread[t] = NotCalling /\ ~ TableLocked
    /\ thread' = [thread EXCEPT ![t] = [in |-> "cancel", left |-> Range(table),
                                        registered |-> workers]]
    /\ UNCHANGED <<entry, table, workers, inflight, ledger, given>>

\* One entry, under its lock: unfinished work is flagged, an unclaimed value is
\* thrown away and counted.
TurnCancels(t) ==
    /\ thread[t].in = "cancel"
    /\ \E e \in thread[t].left :
          /\ entry' = [entry EXCEPT
                 ![e].cancelled = (@ \/ entry[e].state \in {"pending", "running", "ready"}),
                 ![e].state = IF @ = "ready" THEN "cancelled" ELSE @,
                 ![e].result = IF entry[e].state = "ready" THEN "none" ELSE @]
          /\ ledger' = IF entry[e].state = "ready"
                       THEN [ledger EXCEPT !.cancelled = @ + 1, !.wasted = @ + 1] ELSE ledger
          /\ thread' = [thread EXCEPT ![t].left = @ \ {e}]
    /\ UNCHANGED <<table, workers, inflight, given>>

\* The worker list is locked and drained.
TurnDrains(t) ==
    /\ thread[t].in = "cancel" /\ thread[t].left = {} /\ ~ ListLocked
    /\ thread' = [thread EXCEPT ![t] = [in |-> "join", left |-> workers,
                                        registered |-> @.registered]]
    /\ workers' = {}
    /\ UNCHANGED <<entry, table, inflight, ledger, given>>

TurnJoins(t) ==
    /\ thread[t].in = "join"
    /\ \E e \in thread[t].left :
          /\ entry[e].worker = "gone"
          /\ thread' = [thread EXCEPT ![t].left = @ \ {e}]
    /\ UNCHANGED <<entry, table, workers, inflight, ledger, given>>

TurnJoined(t) ==
    /\ thread[t].in = "join" /\ thread[t].left = {}
    /\ thread' = [thread EXCEPT ![t] = [in |-> "clear", registered |-> @.registered]]
    /\ UNCHANGED <<entry, table, workers, inflight, ledger, given>>

\* The table is cleared under its lock, and end_turn returns the ledger.
TurnEnds(t) ==
    /\ thread[t].in = "clear" /\ ~ TableLocked
    /\ table' = << >>
    /\ thread' = [thread EXCEPT ![t] = NotCalling]
    /\ UNCHANGED <<entry, workers, inflight, ledger, given>>

SpeculationInit ==
    /\ entry = << >> /\ table = << >> /\ workers = {} /\ inflight = 0 /\ given = << >>
    /\ ledger = [ordinary |-> 0, dispatched |-> 0, hits |-> 0, cancelled |-> 0,
                 failed |-> 0, wasted |-> 0]
    /\ thread = [t \in Threads |-> NotCalling]

\* The steps that need no new call.
Progress ==
    \/ \E e \in DOMAIN entry : WorkerRuns(e) \/ WorkerEnds(e) \/ WorkerLeaves(e)
    \/ \E t \in Threads : \/ Register(t) \/ ClaimTimesOut(t) \/ ClaimSettles(t)
                          \/ TurnCancels(t) \/ TurnDrains(t) \/ TurnJoins(t)
                          \/ TurnJoined(t) \/ TurnEnds(t)

SpeculationNext ==
    \/ \E t \in Threads, p \in Permits, matches \in BOOLEAN : Admit(t, p, matches)
    \/ \E t \in Threads, p \in Permits : ClaimBegins(t, p)
    \/ \E t \in Threads : TurnBegins(t)
    \/ Progress

SpeculationSpec == SpeculationInit /\ [][SpeculationNext]_specVars

-----------------------------------------------------------------------------
\* Every admission is settled once: its result goes to at most one claim, the
\* ledger's hits, cancellations and failures count each admission at most once
\* and exactly the settled ones, and the workers that still run never exceed the
\* limit, whatever claims, timeouts and ends of turn interleave.  end_turn joins
\* every worker that was registered when it was called before it clears the
\* table, so no claim key of the turn outlives its worker.
SettledOnce ==
    /\ IsInjective(given)
    /\ ledger \in SpeculationLedger
    /\ LET In(states) == {e \in DOMAIN entry : entry[e].state \in states}
       IN  /\ ledger.dispatched = Len(entry)
           /\ ledger.hits + ledger.cancelled + ledger.failed
                = Cardinality(In({"claimed", "cancelled", "failed"}))
    /\ Cardinality({e \in DOMAIN entry : entry[e].worker # "gone"}) <= Limit
    /\ \A t \in Threads : thread[t].in = "clear" =>
           \A e \in thread[t].registered :
               \/ entry[e].worker = "gone"
               \/ \E u \in Threads \ {t} : thread[u].in = "join" /\ e \in thread[u].left

\* No wait is circular: as long as a thread is in a call or a worker has not
\* left, some step is possible without a new call.
NoCircularWait ==
    (\E t \in Threads : thread[t] # NotCalling) \/ (\E e \in DOMAIN entry : entry[e].worker # "gone")
        => ENABLED Progress
=============================================================================

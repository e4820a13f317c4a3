-------------------------------- MODULE Cell --------------------------------
(***************************************************************************)
(* The life of a cell in the zero-kernel host                              *)
(* (crates/zerostack/zero-kernel/src/host.rs, runtime.rs, state.rs and     *)
(* zero-store/src/event_log.rs), composed with the transaction coordinator *)
(* of module Transaction.                                                  *)
(*                                                                         *)
(* A cell loads the session's state root, reconciles the session's         *)
(* journals, runs its guest (z.edit, z.apply, z.state) and settles: finish *)
(* publishes the state root, the transaction and the terminal event, in    *)
(* that order, and undoes the earlier ones when a later one fails.         *)
(***************************************************************************)
EXTENDS Transaction

CONSTANTS
    Roots,          \* state roots: handles of state objects, content-addressed
    EmptyRoot       \* no pointer file: the state of a new session

ASSUME RootsAssumption == EmptyRoot \in Roots

VARIABLES
    phase,      \* where each cell is in begin_from_request, the guest, finish or fail
    root,       \* the state pointer of each session
    seen,       \* the root the cell loaded
    want,       \* the root of the values the cell would publish
    failure,    \* the kind of the error a failing cell reports
    events,     \* the terminal event of the cell in the session's log
    outcome,    \* what the caller got: a response, or "err" for a HostError
    advanced,   \* history: the cell moved the root, alone or with staged effects
    tainted     \* history: cells one of whose own restores failed

hostVars == <<phase, root, seen, want, failure, events, outcome, advanced, tainted>>

cellVars == <<vars, hostVars>>

settlement == <<events, outcome>>

GoTo(c, p) == phase' = [phase EXCEPT ![c] = p]

Session(c) == SessionOf[c]

Returned(c) == pc[c] \in {"idle", "open"}

-----------------------------------------------------------------------------
(* begin_from_request: load the state, then reconcile under the lease.      *)

Load(c) ==
    /\ phase[c] = "new" /\ GoTo(c, "loaded")
    /\ seen' = [seen EXCEPT ![c] = root[Session(c)]]
    /\ want' = [want EXCEPT ![c] = root[Session(c)]]
    /\ UNCHANGED <<vars, root, failure, settlement, advanced, tainted>>

(* Mutant: the cell starts without reconciling. *)
ReconcileSkipped(c) ==
    /\ phase[c] = "loaded" /\ GoTo(c, "running")
    /\ UNCHANGED <<vars, root, seen, want, failure, settlement, advanced, tainted>>

(* The lease is refused to a cancelled cell and after LOCK_DEADLINE.        *)
Reconcile(c) ==
    /\ phase[c] = "loaded"
    /\ \/ ReconcileStart(c) /\ GoTo(c, "recovering") /\ UNCHANGED settlement
       \/ /\ c \in cancelled \/ lease # NoCell
          /\ GoTo(c, "done") /\ outcome' = [outcome EXCEPT ![c] = "refused"]
          /\ UNCHANGED <<vars, events>>
    /\ UNCHANGED <<root, seen, want, failure, advanced, tainted>>

(* Reconcile may fail; so may, after it, the checks of a sealed cell and    *)
(* the publication of the capsule.  No cell exists then.                    *)
Recovered(c) ==
    /\ phase[c] = "recovering" /\ pc[c] = "idle"
    /\ \/ reply[c] = "ok" /\ GoTo(c, "running") /\ UNCHANGED settlement
       \/ /\ GoTo(c, "done") /\ outcome' = [outcome EXCEPT ![c] = "refused"]
          /\ UNCHANGED events
    /\ UNCHANGED <<vars, root, seen, want, failure, advanced, tainted>>

-----------------------------------------------------------------------------
(* The guest.                                                               *)

(* z.edit: open a transaction if there is none, apply one effect.  Its      *)
(* errors go to the guest, which may catch them and go on; a begin or apply *)
(* that is refused leaves everything as it was.                             *)
Edit(c) ==
    /\ phase[c] = "running"
    /\ \/ BeginFresh(c) \/ BeginAdopt(c)
       \/ \E q \in Requests : ApplyPrepare(c, q)
    /\ UNCHANGED hostVars

(* z.apply: refused when a transaction is open; a failing effect rolls the  *)
(* transaction back and the error goes to the guest.                        *)
EffectBegin(c) ==
    /\ phase[c] = "running"
    /\ BeginFresh(c) \/ BeginAdopt(c)
    /\ IF reply'[c] = "ok" THEN GoTo(c, "applying") ELSE UNCHANGED phase
    /\ UNCHANGED <<root, seen, want, failure, settlement, advanced, tainted>>

EffectApply(c) ==
    /\ phase[c] = "applying" /\ reply[c] = "ok"
    /\ ApplyRefused(c) \/ \E q \in Requests : ApplyPrepare(c, q)
    /\ UNCHANGED hostVars

EffectEnd(c) ==
    /\ phase[c] = "applying" /\ pc[c] = "open" /\ reply[c] = "ok"
    /\ GoTo(c, "running")
    /\ UNCHANGED <<vars, root, seen, want, failure, settlement, advanced, tainted>>

(* Mutant: only an unsettled transaction is rolled back. *)
EffectFailedUnsettled(c) ==
    /\ phase[c] = "applying" /\ reply[c] # "ok" /\ ~settled[c]
    /\ Rollback(c) /\ GoTo(c, "running")
    /\ UNCHANGED <<root, seen, want, failure, settlement, advanced, tainted>>

EffectFailed(c) ==
    /\ phase[c] = "applying" /\ reply[c] # "ok"
    /\ Rollback(c) /\ GoTo(c, "running")
    /\ UNCHANGED <<root, seen, want, failure, settlement, advanced, tainted>>

(* The interpreter fails, times out, is cancelled or does not quiesce; the  *)
(* cell's siblings are cancelled and the cell fails.                        *)
GuestFails(c) ==
    /\ phase[c] = "running" /\ Returned(c) /\ GoTo(c, "failing")
    /\ \E k \in {"Failed"} \cup (IF c \in cancelled THEN {"Cancelled"} ELSE {}) :
         failure' = [failure EXCEPT ![c] = k]
    /\ cancelled' = cancelled \cup {c}
    /\ UNCHANGED <<files, journal, poisoned, lease, pc, rec, settled, undo, reply,
                   budgets, history, root, seen, want, settlement, advanced, tainted>>

-----------------------------------------------------------------------------
(* Cell::finish.                                                            *)

(* validate_staged_receipts: the receipts of one path form a chain, and the *)
(* last one is what the file holds.                                         *)
ReceiptsHold(es, fs) ==
    LET staged == {i \in DOMAIN es : es[i].receipt}
        samePath(i, j) == i < j /\ es[i].path = es[j].path
        last(i) == ~ \E j \in staged : samePath(i, j) IN
    \A i \in staged :
        /\ last(i) => fs[es[i].path] = es[i].after
        /\ \A j \in staged :
             samePath(i, j) /\ (~ \E k \in staged : samePath(i, k) /\ samePath(k, j))
                => es[j].before = es[i].after

StagedValid(c) == ReceiptsHold(rec[c].effects, files)

(* replace_state and the checks before anything durable: cancellation, then *)
(* receipts.  The values the guest leaves are the ones to publish; the ones *)
(* it loaded, left as they were, are not dirty and publish nothing.  The    *)
(* drift check compares the loaded root with the binding sealed when it was *)
(* loaded: the two are always equal.                                        *)
Finish(c) ==
    /\ phase[c] = "running" /\ Returned(c)
    /\ \/ /\ c \in cancelled
          /\ GoTo(c, "failing") /\ failure' = [failure EXCEPT ![c] = "Cancelled"]
          /\ UNCHANGED want
       \/ /\ c \notin cancelled /\ ~StagedValid(c)
          /\ GoTo(c, "failing") /\ failure' = [failure EXCEPT ![c] = "Failed"]
          /\ UNCHANGED want
       \/ /\ c \notin cancelled /\ StagedValid(c)
          /\ \E r \in Roots :
               /\ want' = [want EXCEPT ![c] = r]
               /\ GoTo(c, IF r = seen[c] THEN "committing" ELSE "stating")
          /\ UNCHANGED failure
    /\ UNCHANGED <<vars, root, seen, settlement, advanced, tainted>>

(* StateStore::commit: compare with the loaded root and move the pointer,   *)
(* both under the exclusive store lock.                                     *)
StateCommit(c) ==
    /\ phase[c] = "stating"
    /\ \/ /\ root[Session(c)] = seen[c]
          /\ root' = [root EXCEPT ![Session(c)] = want[c]]
          /\ advanced' = [advanced EXCEPT ![c] = IF rec[c].effects = <<>> THEN "alone" ELSE "staged"]
          /\ GoTo(c, "committing") /\ UNCHANGED <<failure, faults>>
       \/ /\ root[Session(c)] # seen[c]
          /\ GoTo(c, "failing") /\ failure' = [failure EXCEPT ![c] = "Failed"]
          /\ UNCHANGED <<root, advanced, faults>>
       \/ /\ faults < MaxFaults /\ faults' = faults + 1
          /\ GoTo(c, "failing") /\ failure' = [failure EXCEPT ![c] = "Failed"]
          /\ UNCHANGED <<root, advanced>>
    /\ UNCHANGED <<files, journal, poisoned, lease, pc, rec, settled, undo, reply,
                   cancelled, crashes, externals, history, seen, want, settlement, tainted>>

Commit(c) ==
    /\ phase[c] = "committing"
    /\ \/ pc[c] = "idle" /\ GoTo(c, "publishing") /\ UNCHANGED vars
       \/ CommitCancelled(c) /\ GoTo(c, "reverting")
       \/ /\ CommitPublish(c) \/ CommitRefused(c)
          /\ GoTo(c, IF reply'[c] = "ok" THEN "publishing" ELSE "reverting")
    /\ UNCHANGED <<root, seen, want, failure, settlement, advanced, tainted>>

(* compare_and_set_root(after, before). *)
RootBack(c) ==
    /\ root[Session(c)] = want[c]
    /\ root' = [root EXCEPT ![Session(c)] = seen[c]]
    /\ advanced' = [advanced EXCEPT ![c] = "none"]

RootBackFails(c) ==
    /\ \/ root[Session(c)] # want[c] /\ UNCHANGED faults
       \/ faults < MaxFaults /\ faults' = faults + 1
    /\ UNCHANGED <<root, advanced>>

(* Mutant: the cell fails without taking the root back. *)
RevertForgotten(c) ==
    /\ phase[c] = "reverting" /\ pc[c] = "open" /\ GoTo(c, "failing")
    /\ failure' = [failure EXCEPT ![c] = "Failed"]
    /\ UNCHANGED <<vars, root, seen, want, settlement, advanced, tainted>>

(* The transaction did not commit: take the root back and fail.  When the   *)
(* root cannot be taken back, finish returns at once and the cell is        *)
(* dropped.                                                                 *)
Revert(c) ==
    /\ phase[c] = "reverting" /\ pc[c] = "open"
    /\ failure' = [failure EXCEPT ![c] = "Failed"]
    /\ \/ /\ advanced[c] = "none" /\ GoTo(c, "failing")
          /\ UNCHANGED <<root, advanced, faults, outcome>>
       \/ /\ advanced[c] # "none" /\ RootBack(c) /\ GoTo(c, "failing")
          /\ UNCHANGED <<faults, outcome>>
       \/ /\ advanced[c] # "none" /\ RootBackFails(c) /\ GoTo(c, "closing")
          /\ outcome' = [outcome EXCEPT ![c] = "err"]
    /\ UNCHANGED <<files, journal, poisoned, lease, pc, rec, settled, undo, reply,
                   cancelled, crashes, externals, history, seen, want, events, tainted>>

(* EventLog::publish appends and syncs: it can fail with the record in the  *)
(* log or without.                                                          *)
Publish(c, o) ==
    /\ \/ events' = [events EXCEPT ![c] = o] /\ UNCHANGED faults
       \/ faults < MaxFaults /\ faults' = faults + 1 /\ UNCHANGED events
       \/ faults < MaxFaults /\ faults' = faults + 1 /\ events' = [events EXCEPT ![c] = o]
    /\ UNCHANGED <<files, journal, poisoned, lease, pc, rec, settled, undo, reply,
                   cancelled, crashes, externals, history>>

PublishCompleted(c) ==
    /\ phase[c] = "publishing"
    /\ Publish(c, "Completed")
    /\ IF faults' = faults
       THEN GoTo(c, "closing") /\ outcome' = [outcome EXCEPT ![c] = "Completed"]
       ELSE GoTo(c, "compensating") /\ UNCHANGED outcome
    /\ UNCHANGED <<root, seen, want, failure, advanced, tainted>>

(* No terminal event: undo the committed effects, then the root.            *)
CompensateEffects(c) ==
    /\ phase[c] = "compensating" /\ GoTo(c, "unstating")
    /\ Compensate(c) \/ (pc[c] = "idle" /\ UNCHANGED vars)
    /\ UNCHANGED <<root, seen, want, failure, settlement, advanced, tainted>>

CompensateState(c) ==
    /\ phase[c] = "unstating" /\ Returned(c) /\ GoTo(c, "closing")
    /\ outcome' = [outcome EXCEPT ![c] = "err"]
    /\ \/ advanced[c] = "none" /\ UNCHANGED <<root, advanced, faults>>
       \/ advanced[c] # "none" /\ RootBack(c) /\ UNCHANGED faults
       \/ advanced[c] # "none" /\ RootBackFails(c)
    /\ UNCHANGED <<files, journal, poisoned, lease, pc, rec, settled, undo, reply,
                   cancelled, crashes, externals, history, seen, want, failure, events, tainted>>

(* The end of finish drops the cell and with it the transaction. *)
Close(c) ==
    /\ phase[c] = "closing"
    /\ \/ Drop(c) /\ UNCHANGED phase
       \/ pc[c] = "idle" /\ GoTo(c, "done") /\ UNCHANGED vars
    /\ UNCHANGED <<root, seen, want, failure, settlement, advanced, tainted>>

-----------------------------------------------------------------------------
(* Cell::fail: roll back, then record the terminal event.                   *)

FailRollback(c) ==
    /\ phase[c] = "failing"
    /\ \/ Rollback(c) /\ GoTo(c, "settling")
       \/ pc[c] = "idle" /\ GoTo(c, "logging") /\ UNCHANGED vars
    /\ UNCHANGED <<root, seen, want, failure, settlement, advanced, tainted>>

(* A rollback that fails makes the error Corrupt.                           *)
FailSettled(c) ==
    /\ phase[c] = "settling" /\ pc[c] = "idle" /\ GoTo(c, "logging")
    /\ failure' = [failure EXCEPT ![c] = IF reply[c] = "ok" THEN @ ELSE "Failed"]
    /\ UNCHANGED <<vars, root, seen, want, settlement, advanced, tainted>>

LogFailure(c) ==
    /\ phase[c] = "logging" /\ GoTo(c, "done")
    /\ Publish(c, failure[c])
    /\ outcome' = [outcome EXCEPT ![c] = IF faults' = faults THEN failure[c] ELSE "err"]
    /\ UNCHANGED <<root, seen, want, failure, advanced, tainted>>

-----------------------------------------------------------------------------
(* The calls of Transaction run to their end; a failed restore of the       *)
(* cell's own record is remembered.                                         *)
Call(c) ==
    /\ CallStep(c)
    /\ tainted' = IF undo'[c].bad /\ undo'[c].of = c THEN tainted \cup {c} ELSE tainted
    /\ UNCHANGED <<phase, root, seen, want, failure, settlement, advanced>>

CellCancel(c) ==
    /\ phase[c] \notin {"new", "done", "crashed"} /\ Cancel(c)
    /\ UNCHANGED hostVars

CellCrash(c) ==
    /\ phase[c] \notin {"new", "done", "crashed"} /\ Die(c) /\ GoTo(c, "crashed")
    /\ UNCHANGED <<root, seen, want, failure, settlement, advanced, tainted>>

CellInit ==
    /\ Init
    /\ phase = [c \in Cells |-> "new"]
    /\ root = [s \in Sessions |-> EmptyRoot]
    /\ seen = [c \in Cells |-> EmptyRoot] /\ want = seen
    /\ failure = [c \in Cells |-> "none"]
    /\ events = [c \in Cells |-> "none"] /\ outcome = events
    /\ advanced = [c \in Cells |-> "none"]
    /\ tainted = {}

HostStep(c) ==
    \/ Reconcile(c) \/ Recovered(c)
    \/ EffectEnd(c) \/ EffectFailed(c) \/ GuestFails(c) \/ Finish(c)
    \/ StateCommit(c) \/ Commit(c) \/ Revert(c) \/ PublishCompleted(c)
    \/ CompensateEffects(c) \/ CompensateState(c) \/ Close(c)
    \/ FailRollback(c) \/ FailSettled(c) \/ LogFailure(c) \/ Call(c)

CellNext ==
    \/ \E c \in Cells :
         \/ Load(c) \/ Edit(c) \/ EffectBegin(c) \/ EffectApply(c)
         \/ HostStep(c) \/ CellCancel(c) \/ CellCrash(c)
    \/ \E p \in Paths : ExternalEdit(p) /\ UNCHANGED hostVars

(* The host thread of a loaded cell keeps running, and a guest that keeps   *)
(* making calls is ended by its wall-clock deadline.                        *)
CellFairness ==
    \A c \in Cells : WF_cellVars(HostStep(c)) /\ SF_cellVars(GuestFails(c))

CellSpec == CellInit /\ [][CellNext]_cellVars

FairCellSpec == CellSpec /\ CellFairness
-----------------------------------------------------------------------------
(* Properties.                                                              *)

Outcomes == {"none", "Completed", "Failed", "Cancelled"}

Phases == {"new", "loaded", "recovering", "running", "applying", "stating", "committing",
           "reverting", "publishing", "compensating", "unstating", "closing", "failing",
           "settling", "logging", "done", "crashed"}

(* The host's variables keep their types; Transaction's have theirs.        *)
HostTypeOK ==
    /\ phase \in [Cells -> Phases]
    /\ root \in [Sessions -> Roots] /\ seen \in [Cells -> Roots] /\ want \in [Cells -> Roots]
    /\ failure \in [Cells -> {"none", "Failed", "Cancelled"}]
    /\ events \in [Cells -> Outcomes]
    /\ outcome \in [Cells -> Outcomes \cup {"err", "refused"}]
    /\ advanced \in [Cells -> {"none", "alone", "staged"}]
    /\ tainted \subseteq Cells

(* A Failed or Cancelled response is true: neither a committed transaction  *)
(* nor a moved state root of the cell is left.  docs/components.md:         *)
(* "Published durable work is never reported as cancelled."                 *)
FailureLeavesNothing ==
    \A c \in Cells :
        phase[c] = "done" /\ outcome[c] \in {"Failed", "Cancelled"} =>
            journal[c].state \notin {"Committed", "Compensating"} /\ advanced[c] = "none"

(* As long as nothing but cancellation and crashes goes wrong, a root that  *)
(* finish has moved can be taken back: a cell that could build on it waits  *)
(* in reconcile for the lease the failing cell holds.  README.md: "Any      *)
(* failure or cancellation [...] keeps the prior state root."  True of two  *)
(* cells of a session; a third one can move the root back to the handle     *)
(* that the second loaded, and the compare-and-set does not tell.           *)
FailureKeepsRoot ==
    \A c \in Cells : phase[c] = "done" /\ outcome[c] = "err" => advanced[c] = "none"

(* A Completed response is true.  The cell is in the log; the transaction   *)
(* it still holds is Committed on disk, and one that z.apply rolled back    *)
(* inside the cell stays RolledBack; when the event is published, every     *)
(* receipt is what the file still holds.                                    *)
CompletionIsTrue ==
    \A c \in Cells :
        /\ outcome[c] = "Completed" =>
              /\ events[c] = "Completed"
              /\ journal[c].state \in {"none", "Committed", "RolledBack"}
              /\ pc[c] = "open" => journal[c] = rec[c] /\ rec[c].state = "Committed"
        /\ phase[c] = "publishing" /\ externals = 0 => StagedValid(c)

(* docs/files/filesystem-contract.md: "A rollback failure is a corrupt      *)
(* outcome, never success or cancellation."                                 *)
RollbackFailureIsCorrupt ==
    \A c \in tainted : outcome[c] \notin {"Completed", "Cancelled"}

(* README.md: "A completed cell publishes effects and a successor state     *)
(* root together."  A crash must not separate them either.                  *)
RootNeedsEffects ==
    \A c \in Cells :
        phase[c] = "crashed" /\ advanced[c] = "staged" => journal[c].state # "RolledBack"

(* README.md: on failure the host "records one terminal event": the log     *)
(* does not call a cell completed that failed.                              *)
EventTellsOutcome ==
    \A c \in Cells :
        phase[c] = "done" /\ events[c] = "Completed" => outcome[c] = "Completed"

(* host.rs, finish: "Reject binding drift before commit: the effective      *)
(* state root and contract coordinate must still match the sealed binding." *)
DriftRejected ==
    [][\A c \in Cells : phase[c] = "running" /\ phase'[c] = "committing" =>
                            root[Session(c)] = seen[c]]_cellVars

(* Every cell that was begun gets to its end.                               *)
CellEnds == \A c \in Cells : phase[c] = "loaded" ~> phase[c] \in {"done", "crashed"}
=============================================================================

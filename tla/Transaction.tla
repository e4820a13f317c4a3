---------------------------- MODULE Transaction ----------------------------
(***************************************************************************)
(* The cell transaction coordinator of zero-kernel                         *)
(* (crates/zerostack/zero-kernel/src/transaction.rs) over the zero-fs file *)
(* engine (crates/zerostack/zero-fs/src/lib.rs).                           *)
(*                                                                         *)
(* A cell owns at most one transaction.  The transaction keeps an undo     *)
(* journal on disk: before a file is changed, the record naming the file   *)
(* and its preimage is published; after the change, the receipt is added.  *)
(* While a handle is alive it holds the workspace-wide file lease.  A cell *)
(* may crash between any two durable writes; the next cell of the session  *)
(* reconciles, undoing every journal that is not Committed or RolledBack.  *)
(***************************************************************************)
EXTENDS Naturals, Sequences, FiniteSets

CONSTANTS
    Cells,          \* cells: each one is one invocation with its own journal path
    Sessions,       \* sessions, each with its own transactions directory
    SessionOf,      \* the session a cell runs in
    Paths,          \* file paths
    Contents,       \* file contents, by content handle
    Absent,         \* the file does not exist (a preimage or postimage of None)
    Unpinned,       \* a request without expected_preimage
    NoCell,         \* the lease is free
    MaxEffects,     \* bound: effects of each cell's transaction
    MaxFaults,      \* bound: failing writes, syncs, engine calls and restores
    MaxCrashes,     \* bound: crashes
    MaxExternal     \* bound: edits made by a program that ignores the lease

ASSUME ConstantsAssumption ==
    /\ SessionOf \in [Cells -> Sessions]
    /\ Absent \notin Contents
    /\ Unpinned \notin Contents \cup {Absent}
    /\ NoCell \notin Cells
    /\ MaxEffects \in [Cells -> Nat] /\ MaxFaults \in Nat
    /\ MaxCrashes \in Nat /\ MaxExternal \in Nat

VARIABLES
    files,      \* the workspace: [Paths -> Image]
    journal,    \* the record published on disk for each cell
    poisoned,   \* the quarantined record of each cell (.poisoned.json)
    lease,      \* the holder of the exclusive transaction lease
    pc,         \* where each cell is in the calls of this module
    rec,        \* the record in memory (of the cell, or the one it reconciles)
    settled,    \* Transaction.settled
    undo,       \* progress of rollback_record
    reply,      \* the result of the cell's last call
    cancelled,  \* cells whose cancellation flag is set
    faults, crashes, externals,
    base,       \* history: the files when the cell's handle was opened
    mutated,    \* history: <<path, preimage>> of every file change a cell made
    leaked      \* history: the changes whose preimage the journal does not keep

vars == <<files, journal, poisoned, lease, pc, rec, settled, undo, reply,
          cancelled, faults, crashes, externals, base, mutated, leaked>>

budgets == <<faults, crashes, externals>>
history == <<base, mutated, leaked>>

-----------------------------------------------------------------------------
(* Records and their states.                                               *)

Image == Contents \cup {Absent}

States == {"Prepared", "Applying", "Committed", "Compensating",
           "RolledBack", "RecoveryRequired"}

Kinds == {"create", "write", "remove"}

Effect == [path : Paths, kind : Kinds, before : Image, after : Image,
           receipt : BOOLEAN, restored : BOOLEAN]

Record == [state : States \cup {"none"}, effects : Seq(Effect)]

NoRecord == [state |-> "none", effects |-> <<>>]

is_terminal(s) == s \in {"Committed", "RolledBack", "RecoveryRequired"}

(* Mutant: a committed transaction may be declared rolled back. *)
transition_allowed_from_committed(from, to) ==
    \/ from \in {"Prepared", "Applying"} /\ to \in States \ {"Prepared", "Compensating"}
    \/ from = "Committed" /\ to \in {"Committed", "Compensating", "RolledBack"}
    \/ from = "Compensating" /\ to \in {"Compensating", "RolledBack", "RecoveryRequired"}
    \/ from \in {"RolledBack", "RecoveryRequired"} /\ to = from

transition_allowed(from, to) ==
    \/ from = "Prepared"     /\ to \in {"Applying", "Committed", "RolledBack", "RecoveryRequired"}
    \/ from = "Applying"     /\ to \in {"Applying", "Committed", "RolledBack", "RecoveryRequired"}
    \/ from = "Committed"    /\ to \in {"Committed", "Compensating"}
    \/ from = "Compensating" /\ to \in {"Compensating", "RolledBack", "RecoveryRequired"}
    \/ from \in {"RolledBack", "RecoveryRequired"} /\ to = from

(* The state rollback_record leaves a record in. *)
rollback_state(from, bad) ==
    LET target == IF bad THEN "RecoveryRequired" ELSE "RolledBack"
    IN  IF transition_allowed(from, target) THEN target ELSE "RecoveryRequired"

Popped(s) == SubSeq(s, 1, Len(s) - 1)

Preimages(effects) == {<<effects[i].path, effects[i].before>> : i \in DOMAIN effects}

LastPreimage(effects) == <<effects[Len(effects)].path, effects[Len(effects)].before>>

(* A file effect request.  A create (Write with expect_absent) is never     *)
(* pinned; a write (Write or Edit with the whole postimage) takes an absent *)
(* or a present file; a remove has no content.                              *)
Requests ==
    { q \in [path : Paths, kind : Kinds, after : Image, pin : Contents \cup {Unpinned}] :
        /\ (q.after = Absent) <=> (q.kind = "remove")
        /\ q.kind = "create" => q.pin = Unpinned }

-----------------------------------------------------------------------------
(* persist_record: write and sync a temporary, rename it over the record,  *)
(* sync the directory.  A failure before the rename leaves the old record  *)
(* ("store"); a failed directory sync reports RecoveryRequired although    *)
(* the new record is visible ("ambiguous").                                *)

PersistOutcomes == {"ok"} \cup (IF faults < MaxFaults THEN {"store", "ambiguous"} ELSE {})

persist_record(d, r, out) ==
    /\ journal' = IF out = "store" THEN journal ELSE [journal EXCEPT ![d] = r]
    /\ faults' = IF out = "ok" THEN faults ELSE faults + 1
    /\ UNCHANGED <<crashes, externals>>

Reply(c, r) == reply' = [reply EXCEPT ![c] = r]

NoUndo == [by |-> "none", of |-> NoCell, cursor |-> 0, bad |-> FALSE]

StartUndo(c, by, of, r) ==
    /\ rec' = [rec EXCEPT ![c] = r]
    /\ undo' = [undo EXCEPT ![c] = [by |-> by, of |-> of,
                                    cursor |-> Len(r.effects), bad |-> FALSE]]
    /\ pc' = [pc EXCEPT ![c] = "undoing"]

EndUndo(c) == undo' = [undo EXCEPT ![c] = NoUndo]

Idle(c) ==
    /\ pc' = [pc EXCEPT ![c] = "idle"]
    /\ rec' = [rec EXCEPT ![c] = NoRecord]
    /\ settled' = [settled EXCEPT ![c] = FALSE]
    /\ lease' = NoCell

-----------------------------------------------------------------------------
(* TransactionCoordinator::begin.  The journal of an earlier begin of the  *)
(* same cell is adopted while it is Prepared or Applying.  A cancelled cell,*)
(* a settled journal and a lease not free within LOCK_DEADLINE are refused, *)
(* with nothing changed.                                                    *)

(* Mutant: the lease is not exclusive. *)
BeginFreshUnleased(c) ==
    /\ pc[c] = "idle" /\ c \notin cancelled /\ journal[c].state = "none"
    /\ \E out \in PersistOutcomes :
         LET r == [state |-> "Prepared", effects |-> <<>>] IN
         /\ persist_record(c, r, out)
         /\ IF out = "ok"
            THEN /\ pc' = [pc EXCEPT ![c] = "open"]
                 /\ rec' = [rec EXCEPT ![c] = r]
                 /\ base' = [base EXCEPT ![c] = files]
                 /\ lease' = c /\ Reply(c, "ok")
            ELSE Reply(c, "err") /\ UNCHANGED <<pc, rec, lease, base>>
    /\ UNCHANGED <<files, poisoned, settled, undo, cancelled, mutated, leaked>>

BeginFresh(c) ==
    /\ pc[c] = "idle" /\ lease = NoCell /\ c \notin cancelled
    /\ journal[c].state = "none"
    /\ \E out \in PersistOutcomes :
         LET r == [state |-> "Prepared", effects |-> <<>>] IN
         /\ persist_record(c, r, out)
         /\ IF out = "ok"
            THEN /\ pc' = [pc EXCEPT ![c] = "open"]
                 /\ rec' = [rec EXCEPT ![c] = r]
                 /\ base' = [base EXCEPT ![c] = files]
                 /\ lease' = c /\ Reply(c, "ok")
            ELSE Reply(c, "err") /\ UNCHANGED <<pc, rec, lease, base>>
    /\ UNCHANGED <<files, poisoned, settled, undo, cancelled, mutated, leaked>>

BeginAdopt(c) ==
    /\ pc[c] = "idle" /\ lease = NoCell /\ c \notin cancelled
    /\ journal[c].state \in {"Prepared", "Applying"}
    /\ pc' = [pc EXCEPT ![c] = "open"]
    /\ rec' = [rec EXCEPT ![c] = journal[c]]
    /\ base' = IF journal[c].effects = <<>> THEN [base EXCEPT ![c] = files] ELSE base
    /\ lease' = c /\ Reply(c, "ok")
    /\ UNCHANGED <<files, journal, poisoned, settled, undo, cancelled, budgets,
                   mutated, leaked>>

-----------------------------------------------------------------------------
(* Transaction::apply.                                                      *)

(* Every return before the preparation is pushed: settled, terminal,        *)
(* cancelled, unreadable target, stale pin, preparation not stored.         *)
ApplyRefused(c) ==
    /\ pc[c] = "open"
    /\ Reply(c, IF c \in cancelled THEN "cancelled" ELSE "err")
    /\ UNCHANGED <<files, journal, poisoned, lease, pc, rec, settled, undo,
                   cancelled, budgets, history>>

(* Mutant: the effect is dispatched although its preparation was not        *)
(* published.                                                               *)
ApplyPrepareUnjournaled(c, q) ==
    /\ pc[c] = "open" /\ ~settled[c] /\ ~is_terminal(rec[c].state) /\ c \notin cancelled
    /\ transition_allowed(rec[c].state, "Applying")
    /\ q.pin \in {Unpinned, files[q.path]}
    /\ Len(rec[c].effects) < MaxEffects[c]
    /\ \E out \in PersistOutcomes :
         LET e == [path |-> q.path, kind |-> q.kind, before |-> files[q.path],
                   after |-> q.after, receipt |-> FALSE, restored |-> FALSE]
             r == [state |-> "Applying", effects |-> Append(rec[c].effects, e)] IN
         persist_record(c, r, out) /\ rec' = [rec EXCEPT ![c] = r]
    /\ pc' = [pc EXCEPT ![c] = "dispatch"]
    /\ UNCHANGED <<files, poisoned, lease, settled, undo, reply, cancelled, history>>

(* Observe the preimage, push the preparation, publish it.                  *)
ApplyPrepare(c, q) ==
    /\ pc[c] = "open" /\ ~settled[c] /\ ~is_terminal(rec[c].state) /\ c \notin cancelled
    /\ transition_allowed(rec[c].state, "Applying")
    /\ q.pin \in {Unpinned, files[q.path]}
    /\ Len(rec[c].effects) < MaxEffects[c]
    /\ \E out \in PersistOutcomes :
         LET e == [path |-> q.path, kind |-> q.kind, before |-> files[q.path],
                   after |-> q.after, receipt |-> FALSE, restored |-> FALSE]
             r == [state |-> "Applying", effects |-> Append(rec[c].effects, e)] IN
         /\ persist_record(c, r, out)
         /\ rec' = [rec EXCEPT ![c] = r]
         /\ IF out = "ok"
            THEN pc' = [pc EXCEPT ![c] = "dispatch"] /\ UNCHANGED reply
            ELSE Reply(c, "err") /\ UNCHANGED pc
    /\ UNCHANGED <<files, poisoned, lease, settled, undo, cancelled, history>>

(* Drop the last preparation and publish the shorter record. *)
PopAndPersist(c, r) ==
    /\ \E out \in PersistOutcomes :
         LET es == Popped(rec[c].effects)
             short == [state |-> IF es = <<>> THEN "Prepared" ELSE rec[c].state,
                       effects |-> es] IN
         /\ persist_record(c, short, out)
         /\ rec' = [rec EXCEPT ![c] = short]
         /\ Reply(c, IF out = "ok" THEN r ELSE "err")
    /\ pc' = [pc EXCEPT ![c] = "open"]
    /\ UNCHANGED <<files, poisoned, lease, settled, undo, cancelled>>

ApplyCancelled(c) ==
    /\ pc[c] = "dispatch" /\ c \in cancelled
    /\ PopAndPersist(c, "cancelled")
    /\ UNCHANGED history

(* FileEngine::apply.  The engine checks presence and the preimage again,   *)
(* then replaces or removes the file; verification, the postimage put and   *)
(* the engine journal put may still fail after the file has changed.        *)
EngineAccepts(e) ==
    /\ files[e.path] = e.before
    /\ e.kind = "create" => e.before = Absent
    /\ e.kind = "remove" => e.before # Absent

(* A write or remove prepared while the file was absent carries no pin, so  *)
(* the engine takes whatever file has appeared since.                       *)
EngineUnguarded(e) ==
    e.kind # "create" /\ e.before = Absent /\ files[e.path] # Absent

Mutate(c, e) ==
    /\ files' = [files EXCEPT ![e.path] = e.after]
    /\ mutated' = [mutated EXCEPT ![c] = @ \cup {<<e.path, files[e.path]>>}]

EngineApply(c) ==
    LET n == Len(rec[c].effects)
        e == rec[c].effects[n]
        returns(p) == pc' = [pc EXCEPT ![c] = p] IN
    /\ pc[c] = "dispatch" /\ c \notin cancelled
    /\ \/ /\ ~EngineAccepts(e) /\ ~EngineUnguarded(e) /\ returns("rejected")
          /\ UNCHANGED <<files, rec, budgets, history>>
       \/ /\ EngineAccepts(e) /\ Mutate(c, e) /\ returns("applied")
          /\ UNCHANGED <<rec, budgets, base, leaked>>
       \/ /\ EngineUnguarded(e) /\ Mutate(c, e) /\ returns("mismatched")
          /\ rec' = [rec EXCEPT ![c].effects[n].before = files[e.path]]
          /\ leaked' = [leaked EXCEPT ![c] = @ \cup {<<e.path, files[e.path]>>}]
          /\ UNCHANGED <<budgets, base>>
       \/ /\ EngineAccepts(e) /\ faults < MaxFaults
          /\ Mutate(c, e) /\ (returns("mismatched") \/ returns("halfdone"))
          /\ faults' = faults + 1
          /\ UNCHANGED <<rec, crashes, externals, base, leaked>>
       \/ /\ returns("errored")                         \* nothing changed yet
          /\ UNCHANGED <<files, rec, budgets, history>>
    /\ UNCHANGED <<journal, poisoned, lease, settled, undo, reply, cancelled>>

WithReceipt(r) == [r EXCEPT !.effects[Len(r.effects)].receipt = TRUE]

(* Mutant: cancellation after the effect drops it instead of undoing it. *)
ApplyAcceptedDropped(c) ==
    /\ pc[c] = "applied"
    /\ \/ /\ c \in cancelled /\ PopAndPersist(c, "cancelled") /\ UNCHANGED history
       \/ /\ c \notin cancelled
          /\ \E out \in PersistOutcomes :
               /\ persist_record(c, WithReceipt(rec[c]), out)
               /\ Reply(c, IF out = "ok" THEN "ok" ELSE "err")
          /\ rec' = [rec EXCEPT ![c] = WithReceipt(rec[c])]
          /\ pc' = [pc EXCEPT ![c] = "open"]
          /\ UNCHANGED <<files, poisoned, lease, settled, undo, cancelled, history>>

ApplyAccepted(c) ==
    LET r == WithReceipt(rec[c]) IN
    /\ pc[c] = "applied"
    /\ \/ /\ c \in cancelled
          /\ StartUndo(c, "apply", c, r)
          /\ UNCHANGED <<journal, reply, budgets>>
       \/ /\ c \notin cancelled
          /\ \E out \in PersistOutcomes :
               persist_record(c, r, out) /\ Reply(c, IF out = "ok" THEN "ok" ELSE "err")
          /\ rec' = [rec EXCEPT ![c] = r]
          /\ pc' = [pc EXCEPT ![c] = "open"]
          /\ UNCHANGED undo
    /\ UNCHANGED <<files, poisoned, lease, settled, cancelled, history>>

(* The receipt names another path or preimage than the preparation.         *)
ApplyMismatch(c) ==
    /\ pc[c] = "mismatched"
    /\ StartUndo(c, "mismatch", c, WithReceipt(rec[c]))
    /\ UNCHANGED <<files, journal, poisoned, lease, settled, reply, cancelled,
                   budgets, history>>

ApplyRejected(c) ==
    /\ pc[c] = "rejected"
    /\ PopAndPersist(c, "err")
    /\ UNCHANGED history

(* Any other engine error: a cancelled cell drops the preparation without   *)
(* restoring it; otherwise the whole record is rolled back and settled.     *)
ApplyErrored(c) ==
    /\ pc[c] \in {"errored", "halfdone"}
    /\ \/ /\ c \in cancelled
          /\ PopAndPersist(c, "cancelled")
          /\ leaked' = IF pc[c] = "errored" THEN leaked
                       ELSE [leaked EXCEPT ![c] = @ \cup {LastPreimage(rec[c].effects)}]
          /\ UNCHANGED <<base, mutated>>
       \/ /\ c \notin cancelled
          /\ StartUndo(c, "engine", c, rec[c])
          /\ UNCHANGED <<files, journal, poisoned, lease, settled, reply,
                         cancelled, budgets, history>>

-----------------------------------------------------------------------------
(* rollback_record: restore unrestored effects, last first, whatever the    *)
(* files hold now.  A failing restore is remembered and the rest go on.     *)

RestoreStep(c) ==
    LET u == undo[c]
        e == rec[c].effects[u.cursor] IN
    /\ pc[c] = "undoing" /\ u.cursor > 0
    /\ \/ /\ e.restored
          /\ undo' = [undo EXCEPT ![c].cursor = @ - 1]
          /\ UNCHANGED <<files, rec, faults>>
       \/ /\ ~e.restored
          /\ files' = [files EXCEPT ![e.path] = e.before]
          /\ rec' = [rec EXCEPT ![c].effects[u.cursor].restored = TRUE]
          /\ undo' = [undo EXCEPT ![c].cursor = @ - 1]
          /\ UNCHANGED faults
       \/ /\ ~e.restored /\ faults < MaxFaults
          /\ undo' = [undo EXCEPT ![c].cursor = @ - 1, ![c].bad = TRUE]
          /\ faults' = faults + 1
          /\ UNCHANGED <<files, rec>>
    /\ UNCHANGED <<journal, poisoned, lease, pc, settled, reply, cancelled,
                   crashes, externals, history>>

Undone(c) == pc[c] = "undoing" /\ undo[c].cursor = 0

RolledBackRecord(c) ==
    [rec[c] EXCEPT !.state = rollback_state(rec[c].state, undo[c].bad)]

(* The rollbacks inside apply, commit and compensate_committed: publish the *)
(* outcome and return an error.  All but those after a receipt settle.      *)
UndoneInCall(c) ==
    LET by == undo[c].by IN
    /\ Undone(c) /\ by \in {"apply", "mismatch", "engine", "commit", "compensate"}
    /\ \E out \in PersistOutcomes :
         /\ persist_record(c, RolledBackRecord(c), out)
         /\ Reply(c, IF out # "ok" \/ RolledBackRecord(c).state = "RecoveryRequired" THEN "err"
                     ELSE IF by = "compensate" THEN "ok"
                     ELSE IF by \in {"apply", "commit"} THEN "cancelled" ELSE "err")
    /\ rec' = [rec EXCEPT ![c] = RolledBackRecord(c)]
    /\ settled' = [settled EXCEPT ![c] = by \notin {"apply", "mismatch"}]
    /\ pc' = [pc EXCEPT ![c] = "open"]
    /\ EndUndo(c)
    /\ UNCHANGED <<files, poisoned, lease, cancelled, history>>

(* Transaction::rollback consumes the handle.  When its record cannot be    *)
(* published the handle is dropped unsettled and Drop rolls back again.     *)
UndoneInRollback(c) ==
    /\ Undone(c) /\ undo[c].by = "rollback"
    /\ \E out \in PersistOutcomes :
         /\ persist_record(c, RolledBackRecord(c), out)
         /\ IF out = "ok"
            THEN /\ Reply(c, IF RolledBackRecord(c).state = "RolledBack" THEN "ok" ELSE "err")
                 /\ Idle(c) /\ EndUndo(c)
            ELSE /\ Reply(c, "err")
                 /\ StartUndo(c, "drop", c, RolledBackRecord(c))
                 /\ UNCHANGED <<settled, lease>>
    /\ UNCHANGED <<files, poisoned, cancelled, history>>

UndoneInDrop(c) ==
    /\ Undone(c) /\ undo[c].by = "drop"
    /\ \E out \in PersistOutcomes : persist_record(c, RolledBackRecord(c), out)
    /\ Idle(c) /\ EndUndo(c)
    /\ UNCHANGED <<files, poisoned, reply, cancelled, history>>

-----------------------------------------------------------------------------
(* Transaction::rollback, Drop, commit and compensate_committed.            *)

Rollback(c) ==
    LET s == rec[c].state IN
    /\ pc[c] = "open"
    /\ \/ /\ s \in {"RolledBack", "RecoveryRequired"} \/ settled[c]
          /\ Reply(c, IF s = "RolledBack" THEN "ok" ELSE "err")
          /\ Idle(c) /\ UNCHANGED undo
       \/ /\ s = "Committed" /\ ~settled[c]             \* refused, then dropped
          /\ Reply(c, "err")
          /\ StartUndo(c, "drop", c, rec[c]) /\ UNCHANGED <<settled, lease>>
       \/ /\ s \in {"Prepared", "Applying", "Compensating"} /\ ~settled[c]
          /\ StartUndo(c, "rollback", c, rec[c])
          /\ UNCHANGED <<reply, settled, lease>>
    /\ UNCHANGED <<files, journal, poisoned, cancelled, budgets, history>>

Drop(c) ==
    /\ pc[c] = "open"
    /\ \/ settled[c] /\ Idle(c) /\ UNCHANGED undo
       \/ ~settled[c] /\ StartUndo(c, "drop", c, rec[c]) /\ UNCHANGED <<settled, lease>>
    /\ UNCHANGED <<files, journal, poisoned, reply, cancelled, budgets, history>>

(* Mutant: receipts are not looked for. *)
AllReceiptedUnchecked(r) == TRUE

AllReceipted(r) == \A i \in DOMAIN r.effects : r.effects[i].receipt

CommitRefused(c) ==
    /\ pc[c] = "open"
    /\ \/ settled[c]
       \/ c \notin cancelled /\ rec[c].state \in {"RolledBack", "RecoveryRequired"}
       \/ c \notin cancelled /\ ~AllReceipted(rec[c])
    /\ Reply(c, "err")
    /\ UNCHANGED <<files, journal, poisoned, lease, pc, rec, settled, undo,
                   cancelled, budgets, history>>

CommitCancelled(c) ==
    /\ pc[c] = "open" /\ ~settled[c] /\ c \in cancelled
    /\ StartUndo(c, "commit", c, rec[c])
    /\ UNCHANGED <<files, journal, poisoned, lease, settled, reply, cancelled,
                   budgets, history>>

(* A record already Committed in memory is acknowledged without a write.    *)
CommitAgain(c) ==
    /\ pc[c] = "open" /\ ~settled[c] /\ c \notin cancelled
    /\ rec[c].state = "Committed" /\ AllReceipted(rec[c])
    /\ settled' = [settled EXCEPT ![c] = TRUE]
    /\ Reply(c, "ok")
    /\ UNCHANGED <<files, journal, poisoned, lease, pc, rec, undo, cancelled,
                   budgets, history>>

CommitPublish(c) ==
    LET r == [rec[c] EXCEPT !.state = "Committed"] IN
    /\ pc[c] = "open" /\ ~settled[c] /\ c \notin cancelled
    /\ rec[c].state \in {"Prepared", "Applying"} /\ AllReceipted(rec[c])
    /\ \E out \in PersistOutcomes :
         /\ persist_record(c, r, out)
         /\ settled' = [settled EXCEPT ![c] = out = "ok"]
         /\ Reply(c, IF out = "ok" THEN "ok" ELSE "err")
    /\ rec' = [rec EXCEPT ![c] = r]
    /\ UNCHANGED <<files, poisoned, lease, pc, undo, cancelled, history>>

(* The intent is published before any byte is restored.                     *)
Compensate(c) ==
    LET r == [rec[c] EXCEPT !.state = "Compensating"] IN
    /\ pc[c] = "open" /\ settled[c] /\ rec[c].state = "Committed"
    /\ \E out \in PersistOutcomes :
         /\ persist_record(c, r, out)
         /\ IF out = "ok"
            THEN /\ StartUndo(c, "compensate", c, r)
                 /\ settled' = [settled EXCEPT ![c] = FALSE] /\ UNCHANGED reply
            ELSE Reply(c, "err") /\ UNCHANGED <<rec, undo, pc, settled>>
    /\ UNCHANGED <<files, poisoned, lease, cancelled, history>>

-----------------------------------------------------------------------------
(* TransactionCoordinator::reconcile, run by a cell before it has a journal.*)

ReconcileStart(c) ==
    /\ pc[c] = "idle" /\ lease = NoCell /\ c \notin cancelled
    /\ journal[c].state = "none"
    /\ pc' = [pc EXCEPT ![c] = "reconciling"]
    /\ lease' = c /\ Reply(c, "ok")
    /\ UNCHANGED <<files, journal, poisoned, rec, settled, undo, cancelled,
                   budgets, history>>

Pending(c) ==
    { d \in Cells : /\ SessionOf[d] = SessionOf[c]
                    /\ journal[d].state \notin {"none", "Committed", "RolledBack"} }

ReconcileNext(c) ==
    /\ pc[c] = "reconciling"
    /\ \E d \in Pending(c) : StartUndo(c, "reconcile", d, journal[d])
    /\ UNCHANGED <<files, journal, poisoned, lease, settled, reply, cancelled,
                   budgets, history>>

(* Rename a journal holding record r to .poisoned.json, replacing the one   *)
(* quarantined before.                                                      *)
Quarantine(d, r) ==
    /\ poisoned' = [poisoned EXCEPT ![d] = r]
    /\ journal' = [journal EXCEPT ![d] = NoRecord]
    /\ leaked' = [leaked EXCEPT ![d] = @ \cup Preimages(poisoned[d].effects)]

(* RecoveryRequired keeps the original journal and renames it away; an      *)
(* ambiguous write renames the new one away if it can; other failures end   *)
(* the pass.                                                                *)
UndoneInReconcile(c) ==
    LET d == undo[c].of
        r == RolledBackRecord(c)
        next == /\ pc' = [pc EXCEPT ![c] = "reconciling"]
                /\ rec' = [rec EXCEPT ![c] = NoRecord] /\ UNCHANGED <<settled, lease>> IN
    /\ Undone(c) /\ undo[c].by = "reconcile"
    /\ \/ /\ r.state = "RecoveryRequired"
          /\ Quarantine(d, journal[d]) /\ Reply(c, "err") /\ next
          /\ UNCHANGED faults
       \/ /\ r.state = "RecoveryRequired" /\ faults < MaxFaults
          /\ faults' = faults + 1
          /\ Idle(c) /\ Reply(c, "err") /\ UNCHANGED <<journal, poisoned, leaked>>
       \/ /\ r.state = "RolledBack"
          /\ \E out \in PersistOutcomes :
               /\ persist_record(d, r, out)
               /\ IF out = "store" THEN Idle(c) ELSE next
               /\ IF out = "ok" THEN UNCHANGED reply ELSE Reply(c, "err")
          /\ UNCHANGED <<poisoned, leaked>>
       \/ /\ r.state = "RolledBack" /\ faults < MaxFaults
          /\ faults' = faults + 1
          /\ Quarantine(d, r) /\ Reply(c, "err") /\ next
    /\ EndUndo(c)
    /\ UNCHANGED <<files, cancelled, crashes, externals, base, mutated>>

ReconcileEnd(c) ==
    /\ pc[c] = "reconciling" /\ Pending(c) = {}
    /\ Idle(c)
    /\ UNCHANGED <<files, journal, poisoned, undo, reply, cancelled, budgets, history>>

-----------------------------------------------------------------------------
(* The environment.                                                         *)

Cancel(c) ==
    /\ c \notin cancelled /\ pc[c] # "crashed"
    /\ cancelled' = cancelled \cup {c}
    /\ UNCHANGED <<files, journal, poisoned, lease, pc, rec, settled, undo, reply,
                   budgets, history>>

(* The process of a cell dies; its advisory lock dies with it.              *)
Die(c) ==
    /\ crashes < MaxCrashes
    /\ crashes' = crashes + 1 /\ UNCHANGED <<faults, externals>>
    /\ pc' = [pc EXCEPT ![c] = "crashed"]
    /\ rec' = [rec EXCEPT ![c] = NoRecord]
    /\ settled' = [settled EXCEPT ![c] = FALSE]
    /\ lease' = IF lease = c THEN NoCell ELSE lease
    /\ EndUndo(c) /\ Reply(c, "none") /\ cancelled' = cancelled \ {c}
    /\ UNCHANGED <<files, journal, poisoned, history>>

Crash(c) == pc[c] \notin {"idle", "crashed"} /\ Die(c)

(* A program that does not take the lease writes or deletes a file.         *)
ExternalEdit(p) ==
    /\ externals < MaxExternal
    /\ externals' = externals + 1 /\ UNCHANGED <<faults, crashes>>
    /\ \E v \in Image \ {files[p]} : files' = [files EXCEPT ![p] = v]
    /\ UNCHANGED <<journal, poisoned, lease, pc, rec, settled, undo, reply,
                   cancelled, history>>

-----------------------------------------------------------------------------
Init ==
    /\ files \in [Paths -> Image]
    /\ journal = [c \in Cells |-> NoRecord]
    /\ poisoned = [c \in Cells |-> NoRecord]
    /\ lease = NoCell /\ cancelled = {}
    /\ pc = [c \in Cells |-> "idle"]
    /\ rec = [c \in Cells |-> NoRecord]
    /\ settled = [c \in Cells |-> FALSE]
    /\ undo = [c \in Cells |-> NoUndo]
    /\ reply = [c \in Cells |-> "none"]
    /\ faults = 0 /\ crashes = 0 /\ externals = 0
    /\ base = [c \in Cells |-> files]
    /\ mutated = [c \in Cells |-> {}]
    /\ leaked = [c \in Cells |-> {}]

(* The steps a call takes by itself once it has been made. *)
CallStep(c) ==
    \/ ApplyCancelled(c) \/ EngineApply(c) \/ ApplyAccepted(c) \/ ApplyMismatch(c)
    \/ ApplyRejected(c) \/ ApplyErrored(c)
    \/ RestoreStep(c) \/ UndoneInCall(c) \/ UndoneInRollback(c) \/ UndoneInDrop(c)
    \/ UndoneInReconcile(c) \/ ReconcileNext(c) \/ ReconcileEnd(c)

(* Refused calls change nothing but the reply, so they are steps of the     *)
(* modules that read it.                                                    *)
Next ==
    \/ \E c \in Cells :
         \/ ReconcileStart(c) \/ BeginFresh(c) \/ BeginAdopt(c)
         \/ \E q \in Requests : ApplyPrepare(c, q)
         \/ CommitCancelled(c) \/ CommitAgain(c) \/ CommitPublish(c)
         \/ Compensate(c) \/ Rollback(c) \/ Drop(c) \/ CallStep(c)
         \/ Cancel(c) \/ Crash(c)
    \/ \E p \in Paths : ExternalEdit(p)

Spec == Init /\ [][Next]_vars
-----------------------------------------------------------------------------
(* Properties.                                                              *)

Callers == {"none", "apply", "mismatch", "engine", "commit", "compensate", "rollback",
            "drop", "reconcile"}

Places == {"idle", "open", "dispatch", "applied", "mismatched", "rejected", "errored",
           "halfdone", "undoing", "reconciling", "crashed"}

Replies == {"none", "ok", "err", "cancelled"}

UndoProgress == [by : Callers, of : Cells \cup {NoCell}, cursor : Nat, bad : BOOLEAN]

(* The variables keep their types: records hold well-formed effects, the    *)
(* rollback cursor stays inside the record being undone.                    *)
TypeOK ==
    /\ files \in [Paths -> Image]
    /\ journal \in [Cells -> Record]
    /\ poisoned \in [Cells -> Record]
    /\ cancelled \subseteq Cells
    /\ lease \in Cells \cup {NoCell}
    /\ pc \in [Cells -> Places]
    /\ rec \in [Cells -> Record]
    /\ settled \in [Cells -> BOOLEAN]
    /\ undo \in [Cells -> UndoProgress]
    /\ \A c \in Cells : pc[c] = "undoing" => undo[c].cursor \in 0..Len(rec[c].effects)
    /\ reply \in [Cells -> Replies]
    /\ faults \in Nat /\ crashes \in Nat /\ externals \in Nat
    /\ base \in [Cells -> [Paths -> Image]]
    /\ mutated \in [Cells -> SUBSET (Paths \X Image)]
    /\ leaked \in [Cells -> SUBSET (Paths \X Image)]

(* Write-ahead: the preimage of every byte a cell has changed is in the     *)
(* cell's journal on disk, or in its quarantined journal, through crashes,  *)
(* cancellation, failed writes and dropped preparations.  The exceptions    *)
(* are recorded in `leaked`: a cancelled cell dropping a preparation whose  *)
(* engine call failed after the write (apply), an unpinned write to a file  *)
(* that appeared meanwhile, and a second quarantine of one cell's journal.  *)
WriteAhead ==
    \A c \in Cells :
        mutated[c] \ leaked[c] \subseteq
            Preimages(journal[c].effects) \cup Preimages(poisoned[c].effects)

(* A published outcome is true of every effect: a record published as       *)
(* Committed proves each by a receipt and none of them was undone, and one  *)
(* published as RolledBack has restored each.  commit never publishes a     *)
(* half-undone record, rollback never a half-restored one.                  *)
OutcomesAreComplete ==
    \A c \in Cells : \A i \in DOMAIN journal[c].effects :
        /\ journal[c].state = "Committed" =>
              journal[c].effects[i].receipt /\ ~journal[c].effects[i].restored
        /\ journal[c].state = "RolledBack" => journal[c].effects[i].restored

(* When a cell has undone its own record, the files are the ones it found   *)
(* when it opened the handle.  README.md: "Any failure or cancellation      *)
(* restores receipts in reverse order".  (A failing restore and edits by    *)
(* programs that ignore the lease are excluded.)                            *)
RollbackRestoresBase ==
    \A c \in Cells :
        Undone(c) /\ undo[c].of = c /\ ~undo[c].bad /\ externals = 0 => files = base[c]

(* A restore that c takes now, and whether it overwrites only what the      *)
(* record says was left in the file.                                        *)
Restores(c) == pc[c] = "undoing" /\ undo[c].cursor > 0 /\ undo'[c] # undo[c] /\ files' # files

Guarded(c) == LET e == rec[c].effects[undo[c].cursor] IN files[e.path] = e.after

(* A cell undoing its own record overwrites only what the record says it    *)
(* left in the file: rollback runs in reverse and under the lease.          *)
OwnUndoGuarded ==
    [][\A c \in Cells : Restores(c) /\ undo[c].of = c /\ ~undo[c].bad => Guarded(c)]_vars

(* The same for every undo, reconcile's included: docs/files/               *)
(* filesystem-contract.md "Undo is a guarded compensating mutation".        *)
UndoGuarded == [][\A c \in Cells : Restores(c) /\ ~undo[c].bad => Guarded(c)]_vars

(* The published outcome of a transaction never goes back: RolledBack and   *)
(* RecoveryRequired are final, Committed is left only to be compensated or  *)
(* for recovery, and a journal leaves its place only for quarantine, with   *)
(* the preimages it had.                                                    *)
JournalMonotone ==
    [][\A c \in Cells :
         LET s == journal[c].state  t == journal'[c].state IN
         /\ s = "RolledBack" => t = s
         /\ s = "RecoveryRequired" => t \in {s, "none"}
         /\ s = "Committed" => t \in {s, "Compensating", "RecoveryRequired"}
         /\ s = "Compensating" => t \in {s, "RolledBack", "RecoveryRequired", "none"}
         /\ s # "none" /\ t = "none" =>
                Preimages(journal[c].effects) = Preimages(poisoned'[c].effects)]_vars

=============================================================================

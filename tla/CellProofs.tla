----------------------------- MODULE CellProofs -----------------------------
(*****************************************************************************)
(* The host over the coordinator, for any cells, sessions, paths, contents,  *)
(* roots and bounds: what is proved of Transaction holds of every cell the   *)
(* host runs, and the answers of finish and fail are true.                   *)
(*****************************************************************************)
EXTENDS Cell, TransactionProofs

(* A leaf is for Zenon unless it names SMT. *)
USE ZenonT(60)

-----------------------------------------------------------------------------
(* The host drives the coordinator through its calls only.  Its own steps   *)
(* leave the coordinator alone but for the answer a refused call gets, the  *)
(* cancellation flags and the failures it meets.                            *)

Beside ==
    /\ UNCHANGED <<files, journal, poisoned, lease, pc, rec, settled, undo, history>>
    /\ reply' \in [Cells -> Replies] /\ cancelled' \subseteq Cells
    /\ faults' \in Nat /\ crashes' \in Nat /\ externals' = externals

CoordInv == TypeInv /\ WriteAheadInv /\ OutcomeInv

(* A step of the host that is no call of the coordinator keeps all that is  *)
(* known of it.                                                             *)
LEMMA BesideKeeps ==
    ASSUME CoordInv, Beside
    PROVE  CoordInv' /\ \A c \in Cells : Monotone(c)
<1>1. UNCHANGED <<files, journal, poisoned, lease, pc, rec, settled, undo, base, mutated, leaked>>
  BY DEF Beside, history
<1>2. TypeInv'
  BY <1>1 DEF CoordInv, Beside, TypeInv, DiskOK, CellOK
<1>3. WriteAheadInv'
  BY <1>1 DEF CoordInv, WriteAheadInv, LeaseInv, DiskInv, MemoryInv, InCall, Covered
<1>4. OutcomeInv'
  BY <1>1 DEF CoordInv, OutcomeInv, Honest, HandleInv, UndoInv, InCall, Whole
<1> QED BY <1>1, <1>2, <1>3, <1>4, Stays DEF CoordInv

(* So does the death of a cell, inside a call or between two.               *)
LEMMA DieKeeps ==
    ASSUME CoordInv, NEW c \in Cells, Die(c)
    PROVE  CoordInv' /\ \A d \in Cells : Monotone(d)
<1>1. /\ UNCHANGED <<files, journal, poisoned, base, mutated, leaked>>
      /\ pc'[c] = "crashed" /\ \A d \in Cells \ {c} : pc'[d] = pc[d]
      /\ \A d \in Cells \ {c} : rec'[d] = rec[d] /\ undo'[d] = undo[d]
      /\ lease' = IF lease = c THEN NoCell ELSE lease
  BY DEF Die, EndUndo, history, CoordInv, TypeInv, CellOK
<1>2. TypeInv'
  <2>1. NoRecord \in Record /\ NoUndo \in UndoProgress /\ NoUndo.by # "reconcile"
    BY Constructors DEF NoUndo
  <2>2. DiskOK'
    BY SMTT(60) DEF Die, CoordInv, TypeInv, DiskOK, history
  <2>3. CellOK'
    BY <2>1 DEF Die, EndUndo, Reply, Replies, CoordInv, TypeInv, CellOK, Calling, Places
  <2> QED BY <2>2, <2>3 DEF TypeInv
<1>3. WriteAheadInv'
  <2> SUFFICES ASSUME NEW d \in Cells PROVE LeaseInv(d)' /\ DiskInv(d)' /\ MemoryInv(d)'
    BY DEF WriteAheadInv
  <2>1. LeaseInv(d) /\ DiskInv(d) /\ MemoryInv(d)
    BY DEF CoordInv, WriteAheadInv
  <2>2. DiskInv(d)'
    BY <1>1, <2>1 DEF DiskInv, Covered
  <2>3. CASE d = c
    BY <1>1, <2>2, <2>3 DEF LeaseInv, MemoryInv, InCall, Calling
  <2>4. CASE d # c
    BY <1>1, <2>1, <2>2, <2>4 DEF LeaseInv, MemoryInv, InCall, Covered
  <2> QED BY <2>3, <2>4
<1>4. OutcomeInv'
  <2> SUFFICES ASSUME NEW d \in Cells PROVE Honest(d)'
    BY DEF OutcomeInv
  <2>1. Honest(d)
    BY DEF CoordInv, OutcomeInv
  <2>2. CASE d = c
    BY <1>1, <2>1, <2>2, OutsideHonest DEF Honest, Whole
  <2>3. CASE d # c
    BY <1>1, <2>1, <2>3 DEF Honest, HandleInv, UndoInv, InCall, Whole
  <2> QED BY <2>2, <2>3
<1> QED BY <1>1, <1>2, <1>3, <1>4, Stays DEF CoordInv

(* Every other step of the coordinator.                                     *)
LEMMA NextKeeps ==
    ASSUME CoordInv, [Next]_vars
    PROVE  CoordInv' /\ \A c \in Cells : Monotone(c)
<1>1. TypeInv'
  BY NextType DEF CoordInv
<1>2. WriteAheadInv'
  BY <1>1, NextWriteAhead DEF CoordInv
<1>3. Sound
  BY NextOutcome DEF CoordInv
<1> QED BY <1>1, <1>2, <1>3 DEF CoordInv, Sound

(* A step of the host is a call of the coordinator, or beside it.           *)
LEMMA HostCalls ==
    ASSUME CoordInv, [CellNext]_cellVars
    PROVE  [Next]_vars \/ Beside \/ \E c \in Cells : Die(c)
<1>0. /\ reply \in [Cells -> Replies] /\ cancelled \subseteq Cells
      /\ faults \in Nat /\ crashes \in Nat /\ externals \in Nat
  BY DEF CoordInv, TypeInv, DiskOK, CellOK
<1>1. CASE UNCHANGED cellVars
  BY <1>1 DEF cellVars, vars
<1>2. ASSUME NEW c \in Cells, Load(c) \/ Recovered(c) \/ EffectEnd(c) \/ Finish(c) \/ FailSettled(c)
      PROVE  UNCHANGED vars
  BY <1>2 DEF Load, Recovered, EffectEnd, Finish, FailSettled
<1>3. ASSUME NEW c \in Cells, Reconcile(c) PROVE [Next]_vars
  BY <1>3 DEF Reconcile, Next
<1>4. ASSUME NEW c \in Cells, Edit(c) \/ EffectBegin(c) \/ EffectFailed(c) PROVE [Next]_vars
  BY <1>4 DEF Edit, EffectBegin, EffectFailed, Next
<1>5. ASSUME NEW c \in Cells, ApplyRefused(c) \/ CommitRefused(c) PROVE Beside
  <2>1. \E r \in Replies : Reply(c, r)
    BY <1>5 DEF ApplyRefused, CommitRefused, Replies
  <2>2. reply' \in [Cells -> Replies]
    BY <1>0, <2>1 DEF Reply
  <2> QED BY <1>0, <1>5, <2>2 DEF ApplyRefused, CommitRefused, Beside, budgets
<1>6. ASSUME NEW c \in Cells, EffectApply(c) PROVE [Next]_vars \/ Beside
  BY <1>5, <1>6 DEF EffectApply, Next
<1>7. ASSUME NEW c \in Cells, GuestFails(c) PROVE Beside
  BY <1>0, <1>7 DEF GuestFails, Beside, budgets
<1>8. ASSUME UNCHANGED <<files, journal, poisoned, lease, pc, rec, settled, undo, reply,
                         cancelled, crashes, externals, history>>,
             faults' = faults \/ faults' = faults + 1
      PROVE  Beside
  <2>1. faults' \in Nat
    BY SMTT(60), <1>0, <1>8
  <2> QED BY <1>0, <1>8, <2>1 DEF Beside
<1>9. ASSUME NEW c \in Cells, StateCommit(c) \/ Revert(c) \/ CompensateState(c) PROVE Beside
  BY <1>8, <1>9 DEF StateCommit, Revert, CompensateState, RootBackFails
<1>10. ASSUME NEW c \in Cells, PublishCompleted(c) \/ LogFailure(c) PROVE Beside
  BY <1>8, <1>10 DEF PublishCompleted, LogFailure, Publish
<1>11. ASSUME NEW c \in Cells, Commit(c) PROVE [Next]_vars \/ Beside
  BY <1>5, <1>11 DEF Commit, Next
<1>12. ASSUME NEW c \in Cells, CompensateEffects(c) \/ Close(c) \/ FailRollback(c)
       PROVE  [Next]_vars
  BY <1>12 DEF CompensateEffects, Close, FailRollback, Next
<1>13. ASSUME NEW c \in Cells, Call(c) \/ CellCancel(c) PROVE [Next]_vars
  BY <1>13 DEF Call, CellCancel, Next
<1>14. ASSUME NEW c \in Cells, CellCrash(c) PROVE Die(c)
  BY <1>14 DEF CellCrash
<1>15. ASSUME NEW p \in Paths, ExternalEdit(p) PROVE [Next]_vars
  BY <1>15 DEF Next
<1> QED BY <1>1, <1>2, <1>3, <1>4, <1>6, <1>7, <1>9, <1>10, <1>11, <1>12, <1>13, <1>14, <1>15
        DEF CellNext, HostStep

(* All that is known of the coordinator is known of it under the host.      *)
LEMMA CoordKeeps == CoordInv /\ [CellNext]_cellVars => CoordInv' /\ \A c \in Cells : Monotone(c)
BY HostCalls, NextKeeps, BesideKeeps, DieKeeps

(* And it holds when the host starts.                                       *)
LEMMA CoordInit == CellInit => CoordInv
BY InitType, InitWriteAhead, InitOutcome DEF CellInit, CoordInv

(* Whatever the cells of the host do, and wherever they fail, are cancelled *)
(* or crash, the preimage of every changed byte is on disk, and a published *)
(* outcome is true of every effect: host.rs reaches the journal through the *)
(* coordinator only.                                                        *)
THEOREM HostKeepsJournals == CellSpec => [](WriteAhead /\ OutcomesAreComplete)
<1>1. CoordInv => WriteAhead /\ OutcomesAreComplete
  BY DEF CoordInv, WriteAheadInv, DiskInv, Covered, WriteAhead, OutcomeInv, Honest, Whole,
         OutcomesAreComplete
<1> QED BY <1>1, CoordInit, CoordKeeps, PTL DEF CellSpec

(* The same of the base a handle leads back to.                             *)
LEMMA HostKeepsBase ==
    ASSUME MaxFaults = 0, CoordInv, BaseInv, [CellNext]_cellVars
    PROVE  BaseInv'
<1>1. Spent /\ TypeInv /\ WriteAheadInv /\ OutcomeInv
  BY SMTT(60) DEF CoordInv, TypeInv, DiskOK, Spent
<1>2. CASE [Next]_vars
  BY <1>1, <1>2, NextBase
<1>3. CASE Beside
  <2>1. UNCHANGED <<files, journal, pc, rec, settled, undo, base, externals>>
    BY <1>3 DEF Beside, history
  <2> QED BY <2>1 DEF BaseInv, InStep, Restorable, OpenBase, UndoBase
<1>4. ASSUME NEW c \in Cells, Die(c) PROVE BaseInv'
  <2>1. /\ UNCHANGED <<files, journal, base, externals>>
        /\ pc'[c] = "crashed" /\ \A d \in Cells \ {c} : pc'[d] = pc[d]
        /\ \A d \in Cells \ {c} :
             rec'[d] = rec[d] /\ undo'[d] = undo[d] /\ settled'[d] = settled[d]
    BY <1>1, <1>4 DEF Die, EndUndo, history, TypeInv, CellOK
  <2> SUFFICES ASSUME NEW d \in Cells PROVE InStep(d)' /\ Restorable(d)'
    BY DEF BaseInv
  <2>2. CASE d = c
    BY <2>1, <2>2, OutsideBase
  <2>3. CASE d # c
    <3>1. InStep(d) /\ Restorable(d)
      BY DEF BaseInv
    <3> QED BY <2>1, <2>3, <3>1 DEF InStep, Restorable, OpenBase, UndoBase
  <2> QED BY <2>2, <2>3
<1> QED BY <1>2, <1>3, <1>4, HostCalls

(* However the host ends a cell (finish, fail, Drop, a compensation after a *)
(* failed state commit), when the undo of its own record is through the     *)
(* files are the ones it found, if nothing failed and no program ignored    *)
(* the lease.                                                               *)
THEOREM HostRestoresBase ==
    ASSUME MaxFaults = 0
    PROVE  CellSpec => []RollbackRestoresBase
<1>1. CellInit => BaseInv
  BY InitBase DEF CellInit
<1>2. CoordInv /\ BaseInv /\ [CellNext]_cellVars => BaseInv'
  BY HostKeepsBase
<1>3. CoordInv /\ BaseInv => RollbackRestoresBase
  BY BaseRestored DEF CoordInv
<1> QED BY <1>1, <1>2, <1>3, CoordInit, CoordKeeps, PTL DEF CellSpec

-----------------------------------------------------------------------------
(* What a step of a call may do, seen from the host: where the handle is    *)
(* afterwards, what state its record is in, and what was published.         *)

Unfinished == {"Prepared", "Applying", "Compensating", "RecoveryRequired"}

(* A step of c leaves the handles of the other cells alone, and their       *)
(* journals too unless it reconciles them: then the cell is outside every   *)
(* call and its journal was not settled.                                    *)
Elsewhere(c) ==
    \A d \in Cells \ {c} :
        /\ pc'[d] = pc[d] /\ rec'[d] = rec[d] /\ settled'[d] = settled[d] /\ undo'[d] = undo[d]
        /\ \/ journal'[d] = journal[d]
           \/ /\ pc[d] \in {"idle", "crashed"} /\ journal[d].state \in Unfinished
              /\ journal'[d].state \in {"none", "RolledBack"}

(* Record r was published for c; if not, the write failed.                  *)
Puts(c, r) == journal'[c] = r \/ (faults < MaxFaults /\ journal'[c] = journal[c])

InApply(c) ==
    /\ pc[c] \in Calling /\ settled'[c] = settled[c]
    /\ \/ pc'[c] \in Calling /\ journal'[c] = journal[c] /\ undo'[c] = undo[c]
          /\ rec'[c].state = rec[c].state
       \/ pc'[c] = "open" /\ Puts(c, rec'[c]) /\ undo'[c] = undo[c]
          /\ rec'[c].state \in {"Prepared", "Applying"}
       \/ pc'[c] = "undoing" /\ journal'[c] = journal[c] /\ ~undo'[c].bad
          /\ rec'[c].state = rec[c].state /\ undo'[c].by \in {"apply", "mismatch", "engine"}

InUndo(c) ==
    /\ pc[c] = "undoing"
    /\ \/ /\ pc'[c] = "undoing" /\ journal'[c] = journal[c] /\ settled'[c] = settled[c]
          /\ rec'[c].state = rec[c].state /\ undo'[c].by = undo[c].by
          /\ undo'[c].bad => undo[c].bad \/ faults < MaxFaults
       \/ /\ undo[c].by \in {"apply", "mismatch", "engine", "commit", "compensate"}
          /\ pc'[c] = "open" /\ rec'[c] = RolledBackRecord(c) /\ Puts(c, rec'[c])
          /\ ~undo'[c].bad
       \/ /\ undo[c].by = "rollback" /\ faults < MaxFaults /\ settled'[c] = settled[c]
          /\ pc'[c] = "undoing" /\ rec'[c] = RolledBackRecord(c) /\ Puts(c, rec'[c])
          /\ undo'[c].by = "drop" /\ ~undo'[c].bad
       \/ /\ undo[c].by = "rollback" /\ pc'[c] = "idle" /\ journal'[c] = RolledBackRecord(c)
          /\ ~undo'[c].bad
       \/ /\ undo[c].by = "drop" /\ pc'[c] = "idle" /\ Puts(c, RolledBackRecord(c))
          /\ ~undo'[c].bad
       \/ /\ undo[c].by = "reconcile" /\ pc'[c] \in {"idle", "reconciling"} /\ ~undo'[c].bad
          /\ rec'[c] = NoRecord
          /\ \/ journal'[c] = journal[c]
             \/ undo[c].of = c /\ journal'[c].state \in {"none", "RolledBack"}

InReconcile(c) ==
    /\ pc[c] = "reconciling" /\ journal'[c] = journal[c]
    /\ \/ pc'[c] = "undoing" /\ undo'[c].by = "reconcile" /\ ~undo'[c].bad
       \/ pc'[c] = "idle" /\ undo'[c] = undo[c]

GivenUp(c) == pc'[c] = "idle" => rec'[c] = NoRecord /\ ~settled'[c]

CallShape(c) ==
    /\ InApply(c) \/ InUndo(c) \/ InReconcile(c)
    /\ GivenUp(c) /\ Elsewhere(c)

(* persist_record publishes its record unless the write fails, and touches  *)
(* no other journal.                                                        *)
LEMMA PersistPuts ==
    ASSUME TypeInv, NEW c \in Cells, NEW r, NEW out \in PersistOutcomes, persist_record(c, r, out)
    PROVE  /\ Puts(c, r) /\ (out = "ok" => journal'[c] = r)
           /\ \A d \in Cells \ {c} : journal'[d] = journal[d]
           /\ out # "ok" => faults < MaxFaults
           /\ journal'[c] \in {r, journal[c]}
<1>1. /\ \A d \in Cells \ {c} : journal'[d] = journal[d]
      /\ out # "store" => journal'[c] = r
      /\ out = "store" => journal'[c] = journal[c]
  BY DEF persist_record, TypeInv, DiskOK
<1>2. out # "ok" => faults < MaxFaults
  BY DEF PersistOutcomes
<1> QED BY <1>1, <1>2 DEF Puts

(* Giving the handle up, and starting an undo, change one cell.             *)
LEMMA IdleShape ==
    ASSUME TypeInv, NEW c \in Cells, Idle(c)
    PROVE  /\ pc'[c] = "idle" /\ rec'[c] = NoRecord /\ settled'[c] = FALSE
           /\ \A d \in Cells \ {c} : pc'[d] = pc[d] /\ rec'[d] = rec[d] /\ settled'[d] = settled[d]
BY DEF Idle, TypeInv, CellOK

(* StartUndo puts the record that rollback_record works on in memory, with  *)
(* no restore failed yet.                                                   *)
LEMMA StartUndoShape ==
    ASSUME TypeInv, NEW c \in Cells, NEW by, NEW of, NEW r, StartUndo(c, by, of, r)
    PROVE  /\ pc'[c] = "undoing" /\ rec'[c] = r /\ undo'[c].by = by /\ ~undo'[c].bad
           /\ \A d \in Cells \ {c} : pc'[d] = pc[d] /\ rec'[d] = rec[d] /\ undo'[d] = undo[d]
BY DEF StartUndo, TypeInv, CellOK

(* The end of an undo clears its progress.                                  *)
LEMMA EndUndoShape ==
    ASSUME TypeInv, NEW c \in Cells, EndUndo(c)
    PROVE  ~undo'[c].bad /\ \A d \in Cells \ {c} : undo'[d] = undo[d]
BY DEF EndUndo, NoUndo, TypeInv, CellOK

(* apply: dispatch, the engine, and what follows its answer.                *)
LEMMA PopShape ==
    ASSUME TypeInv, NEW c \in Cells, pc[c] \in Calling, rec[c].state = "Applying", NEW x,
           PopAndPersist(c, x)
    PROVE  CallShape(c)
<1> DEFINE es == Popped(rec[c].effects)
           short == [state |-> IF es = <<>> THEN "Prepared" ELSE rec[c].state, effects |-> es]
<1>1. PICK out \in PersistOutcomes : persist_record(c, short, out) /\ rec' = [rec EXCEPT ![c] = short]
  BY DEF PopAndPersist
<1>2. short.state \in {"Prepared", "Applying"}
  OBVIOUS
<1>3. pc' = [pc EXCEPT ![c] = "open"] /\ UNCHANGED <<settled, undo>>
  BY DEF PopAndPersist
<1> HIDE DEF short
<1>4. /\ pc'[c] = "open" /\ rec'[c] = short
      /\ \A d \in Cells \ {c} : pc'[d] = pc[d] /\ rec'[d] = rec[d]
  BY <1>1, <1>3 DEF TypeInv, CellOK
<1>5. Puts(c, short) /\ \A d \in Cells \ {c} : journal'[d] = journal[d]
  BY <1>1, PersistPuts
<1> QED BY <1>2, <1>3, <1>4, <1>5 DEF CallShape, InApply, GivenUp, Elsewhere

(* FileEngine::apply leaves the journal alone; at most it completes the     *)
(* preimage of the effect in memory.                                        *)
LEMMA EngineShape ==
    ASSUME TypeInv, TypeInv', NEW c \in Cells, EngineApply(c)
    PROVE  CallShape(c)
<1> DEFINE n == Len(rec[c].effects)
           e == rec[c].effects[n]
           r == [rec[c] EXCEPT !.effects[n].before = files[e.path]]
<1>1. /\ pc[c] = "dispatch" /\ UNCHANGED <<journal, settled, undo>>
      /\ \E q \in Calling : pc' = [pc EXCEPT ![c] = q]
      /\ rec' = rec \/ rec' = [rec EXCEPT ![c] = r]
  BY DEF EngineApply, Calling, TypeInv, CellOK
<1>2. r.state = rec[c].state
  BY DEF TypeInv, CellOK, Record
<1>3. rec'[c].state = rec[c].state /\ \A d \in Cells \ {c} : rec'[d] = rec[d]
  <2> HIDE DEF r
  <2> QED BY <1>1, <1>2 DEF TypeInv, CellOK
<1>4. pc'[c] \in Calling /\ \A d \in Cells \ {c} : pc'[d] = pc[d]
  BY <1>1 DEF TypeInv, CellOK
<1>5. pc[c] \in Calling /\ pc'[c] # "idle"
  BY <1>1, <1>4 DEF Calling
<1> QED BY <1>1, <1>3, <1>4, <1>5 DEF CallShape, InApply, GivenUp, Elsewhere

(* What apply does with the answer of the engine: keep the effect, drop its *)
(* preparation, or undo.                                                    *)
LEMMA ApplyEndShape ==
    ASSUME CoordInv, NEW c \in Cells,
           \/ ApplyCancelled(c) \/ ApplyAccepted(c) \/ ApplyMismatch(c)
           \/ ApplyRejected(c) \/ ApplyErrored(c)
    PROVE  CallShape(c)
<1>1. pc[c] \in Calling
  BY DEF ApplyCancelled, ApplyAccepted, ApplyMismatch, ApplyRejected, ApplyErrored, Calling
<1>2. /\ TypeInv /\ rec[c] \in Record /\ rec[c].state = "Applying" /\ rec[c].effects # <<>>
  BY <1>1 DEF CoordInv, TypeInv, CellOK, OutcomeInv, Honest, HandleInv
<1>3. ASSUME NEW x, PopAndPersist(c, x) PROVE CallShape(c)
  BY <1>1, <1>2, <1>3, PopShape
<1>4. WithReceipt(rec[c]).state = "Applying"
  BY <1>2, ReceiptRecord
<1>5. ASSUME NEW r, r.state = "Applying", NEW by \in {"apply", "mismatch", "engine"},
             StartUndo(c, by, c, r), UNCHANGED <<journal, settled>>
      PROVE  CallShape(c)
  <2>1. /\ pc'[c] = "undoing" /\ rec'[c] = r /\ undo'[c].by = by /\ ~undo'[c].bad
        /\ \A d \in Cells \ {c} : pc'[d] = pc[d] /\ rec'[d] = rec[d] /\ undo'[d] = undo[d]
    BY <1>2, <1>5, StartUndoShape
  <2>2. InApply(c)
    BY <1>1, <1>2, <1>5, <2>1 DEF InApply
  <2>3. GivenUp(c) /\ Elsewhere(c)
    BY <1>5, <2>1 DEF GivenUp, Elsewhere
  <2> QED BY <2>2, <2>3 DEF CallShape
<1>6. CASE ApplyCancelled(c) \/ ApplyRejected(c)
  BY <1>3, <1>6 DEF ApplyCancelled, ApplyRejected
<1>7. CASE ApplyMismatch(c)
  BY <1>4, <1>5, <1>7 DEF ApplyMismatch
<1>8. CASE ApplyErrored(c)
  BY <1>2, <1>3, <1>5, <1>8 DEF ApplyErrored
<1>9. CASE ApplyAccepted(c)
  <2> DEFINE r == WithReceipt(rec[c])
  <2>1. CASE c \in cancelled
    BY <1>4, <1>5, <1>9, <2>1 DEF ApplyAccepted
  <2>2. CASE c \notin cancelled
    <3>1. /\ rec' = [rec EXCEPT ![c] = r] /\ pc' = [pc EXCEPT ![c] = "open"]
          /\ UNCHANGED <<undo, settled>>
          /\ \E out \in PersistOutcomes : persist_record(c, r, out)
      BY <1>9, <2>2 DEF ApplyAccepted
    <3> HIDE DEF r
    <3>2. /\ pc'[c] = "open" /\ rec'[c] = r
          /\ \A d \in Cells \ {c} : pc'[d] = pc[d] /\ rec'[d] = rec[d]
      BY <1>2, <3>1 DEF TypeInv, CellOK
    <3>3. Puts(c, r) /\ \A d \in Cells \ {c} : journal'[d] = journal[d]
      BY <1>2, <3>1, PersistPuts
    <3>4. r.state = "Applying"
      BY <1>4 DEF r
    <3> QED BY <1>1, <3>1, <3>2, <3>3, <3>4 DEF CallShape, InApply, GivenUp, Elsewhere
  <2> QED BY <2>1, <2>2
<1> QED BY <1>6, <1>7, <1>8, <1>9

(* rollback_record: one restore.                                            *)
LEMMA RestoreShape ==
    ASSUME TypeInv, NEW c \in Cells, RestoreStep(c)
    PROVE  CallShape(c)
<1> DEFINE i == undo[c].cursor
           e == rec[c].effects[i]
           r == [rec[c] EXCEPT !.effects[i].restored = TRUE]
           kept == [undo[c] EXCEPT !.cursor = @ - 1]
           failed == [undo[c] EXCEPT !.cursor = @ - 1, !.bad = TRUE]
<1>1. /\ pc[c] = "undoing" /\ UNCHANGED <<journal, pc, settled>>
      /\ rec' = rec \/ rec' = [rec EXCEPT ![c] = r]
      /\ \/ undo' = [undo EXCEPT ![c] = kept]
         \/ undo' = [undo EXCEPT ![c] = failed] /\ faults < MaxFaults
  BY DEF RestoreStep
<1>2. /\ r.state = rec[c].state
      /\ kept.by = undo[c].by /\ kept.bad = undo[c].bad /\ failed.by = undo[c].by
  BY DEF TypeInv, CellOK, Record, UndoProgress
<1> HIDE DEF r, kept, failed
<1>3. /\ rec'[c].state = rec[c].state /\ undo'[c].by = undo[c].by
      /\ undo'[c].bad => undo[c].bad \/ faults < MaxFaults
      /\ \A d \in Cells \ {c} : rec'[d] = rec[d] /\ undo'[d] = undo[d]
  BY <1>1, <1>2 DEF TypeInv, CellOK
<1> QED BY <1>1, <1>3 DEF CallShape, InUndo, GivenUp, Elsewhere

(* The end of an undo inside a call, in rollback and in Drop.               *)
LEMMA UndoneShape ==
    ASSUME TypeInv, NEW c \in Cells,
           UndoneInCall(c) \/ UndoneInRollback(c) \/ UndoneInDrop(c)
    PROVE  CallShape(c)
<1> DEFINE r == RolledBackRecord(c)
<1>0. pc[c] = "undoing"
  BY DEF UndoneInCall, UndoneInRollback, UndoneInDrop, Undone
<1>1. CASE UndoneInCall(c)
  <2>1. /\ undo[c].by \in {"apply", "mismatch", "engine", "commit", "compensate"}
        /\ rec' = [rec EXCEPT ![c] = r] /\ pc' = [pc EXCEPT ![c] = "open"] /\ EndUndo(c)
        /\ \E out \in PersistOutcomes : persist_record(c, r, out)
        /\ \A d \in Cells \ {c} : settled'[d] = settled[d]
    BY <1>1 DEF UndoneInCall, TypeInv, CellOK
  <2>2. /\ rec'[c] = r /\ pc'[c] = "open"
        /\ \A d \in Cells \ {c} : pc'[d] = pc[d] /\ rec'[d] = rec[d]
    BY <2>1 DEF TypeInv, CellOK
  <2>3. Puts(c, r) /\ \A d \in Cells \ {c} : journal'[d] = journal[d]
    BY <2>1, PersistPuts
  <2>4. ~undo'[c].bad /\ \A d \in Cells \ {c} : undo'[d] = undo[d]
    BY <2>1, EndUndoShape
  <2> QED BY <1>0, <2>1, <2>2, <2>3, <2>4 DEF CallShape, InUndo, GivenUp, Elsewhere
<1>2. CASE UndoneInRollback(c)
  <2>1. PICK out \in PersistOutcomes :
          /\ persist_record(c, r, out)
          /\ \/ out = "ok" /\ Idle(c) /\ EndUndo(c)
             \/ out # "ok" /\ StartUndo(c, "drop", c, r) /\ UNCHANGED <<settled, lease>>
    BY <1>2 DEF UndoneInRollback
  <2>2. /\ Puts(c, r) /\ (out = "ok" => journal'[c] = r) /\ (out # "ok" => faults < MaxFaults)
        /\ \A d \in Cells \ {c} : journal'[d] = journal[d]
    BY <2>1, PersistPuts
  <2>3. undo[c].by = "rollback"
    BY <1>2 DEF UndoneInRollback
  <2>4. CASE out = "ok" /\ Idle(c) /\ EndUndo(c)
    BY <1>0, <2>2, <2>3, <2>4, IdleShape, EndUndoShape DEF CallShape, InUndo, GivenUp, Elsewhere
  <2>5. CASE out # "ok" /\ StartUndo(c, "drop", c, r) /\ UNCHANGED <<settled, lease>>
    <3>1. /\ pc'[c] = "undoing" /\ rec'[c] = r /\ undo'[c].by = "drop" /\ ~undo'[c].bad
          /\ \A d \in Cells \ {c} : pc'[d] = pc[d] /\ rec'[d] = rec[d] /\ undo'[d] = undo[d]
      BY <2>5, StartUndoShape
    <3> QED BY <1>0, <2>2, <2>3, <2>5, <3>1 DEF CallShape, InUndo, GivenUp, Elsewhere
  <2> QED BY <2>1, <2>4, <2>5
<1>3. CASE UndoneInDrop(c)
  <2>1. /\ undo[c].by = "drop" /\ Idle(c) /\ EndUndo(c)
        /\ \E out \in PersistOutcomes : persist_record(c, r, out)
    BY <1>3 DEF UndoneInDrop
  <2>2. Puts(c, r) /\ \A d \in Cells \ {c} : journal'[d] = journal[d]
    BY <2>1, PersistPuts
  <2> QED BY <1>0, <2>1, <2>2, IdleShape, EndUndoShape DEF CallShape, InUndo, GivenUp, Elsewhere
<1> QED BY <1>1, <1>2, <1>3

(* reconcile, which works on the journals of cells that are outside every   *)
(* call.                                                                    *)
LEMMA ReconcileShape ==
    ASSUME CoordInv, NEW c \in Cells,
           ReconcileNext(c) \/ UndoneInReconcile(c) \/ ReconcileEnd(c)
    PROVE  CallShape(c)
<1>0. TypeInv
  BY DEF CoordInv
<1>1. CASE ReconcileNext(c)
  <2>1. PICK d \in Cells : StartUndo(c, "reconcile", d, journal[d])
    BY <1>1 DEF ReconcileNext, Pending
  <2>2. pc[c] = "reconciling" /\ UNCHANGED <<journal, settled>>
    BY <1>1 DEF ReconcileNext
  <2>3. /\ pc'[c] = "undoing" /\ undo'[c].by = "reconcile" /\ ~undo'[c].bad
        /\ \A b \in Cells \ {c} : pc'[b] = pc[b] /\ rec'[b] = rec[b] /\ undo'[b] = undo[b]
    BY <1>0, <2>1, StartUndoShape
  <2> QED BY <2>2, <2>3 DEF CallShape, InReconcile, GivenUp, Elsewhere
<1>2. CASE ReconcileEnd(c)
  <2>1. pc[c] = "reconciling" /\ Idle(c) /\ UNCHANGED <<journal, undo>>
    BY <1>2 DEF ReconcileEnd
  <2> QED BY <1>0, <2>1, IdleShape DEF CallShape, InReconcile, GivenUp, Elsewhere
<1>3. CASE UndoneInReconcile(c)
  <2> DEFINE o == undo[c].of
             r == RolledBackRecord(c)
  <2>1. /\ pc[c] = "undoing" /\ undo[c].by = "reconcile" /\ EndUndo(c) /\ o \in Cells
    BY <1>0, <1>3 DEF UndoneInReconcile, Undone, TypeInv, CellOK
  <2>2. /\ ~undo'[c].bad /\ \A d \in Cells \ {c} : undo'[d] = undo[d]
    BY <1>0, <2>1, EndUndoShape
  <2>3. /\ pc'[c] \in {"idle", "reconciling"} /\ rec'[c] = NoRecord /\ GivenUp(c)
        /\ \A d \in Cells \ {c} : pc'[d] = pc[d] /\ rec'[d] = rec[d] /\ settled'[d] = settled[d]
    <3>1. CASE Idle(c)
      BY <1>0, <3>1, IdleShape DEF GivenUp
    <3>2. CASE /\ pc' = [pc EXCEPT ![c] = "reconciling"]
               /\ rec' = [rec EXCEPT ![c] = NoRecord] /\ UNCHANGED <<settled, lease>>
      BY <1>0, <3>2 DEF TypeInv, CellOK, GivenUp
    <3> QED BY <1>3, <3>1, <3>2 DEF UndoneInReconcile
  <2>4. \/ UNCHANGED journal
        \/ r.state = "RolledBack" /\ \E out \in PersistOutcomes : persist_record(o, r, out)
        \/ journal' = [journal EXCEPT ![o] = NoRecord]
    BY <1>3 DEF UndoneInReconcile, Quarantine
  <2>5. /\ \A d \in Cells \ {o} : journal'[d] = journal[d]
        /\ journal'[o] = journal[o] \/ journal'[o].state \in {"none", "RolledBack"}
    <3>1. CASE UNCHANGED journal
      BY <3>1
    <3>2. CASE r.state = "RolledBack" /\ \E out \in PersistOutcomes : persist_record(o, r, out)
      <4> HIDE DEF o, r
      <4> QED BY <1>0, <2>1, <3>2, PersistPuts
    <3>3. CASE journal' = [journal EXCEPT ![o] = NoRecord]
      BY <1>0, <2>1, <3>3 DEF TypeInv, DiskOK, NoRecord
    <3> QED BY <2>4, <3>1, <3>2, <3>3
  <2>6. journal[o].state \in Unfinished
    BY <2>1 DEF CoordInv, OutcomeInv, Honest, UndoInv, Unfinished
  <2>7. \A d \in Cells \ {c} : pc[d] \in {"idle", "crashed"}
    BY <2>1, ConstantsAssumption DEF CoordInv, WriteAheadInv, LeaseInv
  <2>8. Elsewhere(c)
    BY <2>2, <2>3, <2>5, <2>6, <2>7 DEF Elsewhere
  <2>9. InUndo(c)
    BY <2>1, <2>2, <2>3, <2>5 DEF InUndo
  <2> QED BY <2>3, <2>8, <2>9 DEF CallShape
<1> QED BY <1>1, <1>2, <1>3

(* Every step of a call.                                                    *)
LEMMA CallShapes ==
    ASSUME CoordInv, CoordInv', NEW c \in Cells, CallStep(c)
    PROVE  CallShape(c)
<1>1. TypeInv /\ TypeInv'
  BY DEF CoordInv
<1> QED BY <1>1, EngineShape, ApplyEndShape, RestoreShape, UndoneShape, ReconcileShape DEF CallStep

-----------------------------------------------------------------------------
(* What the calls that the host makes do at once.                           *)

(* The handle stays where it is.                                            *)
HandleKept(c) == pc'[c] = pc[c] /\ rec'[c] = rec[c] /\ settled'[c] = settled[c]

(* An undo of the handle's own record begins.                               *)
UndoBegins(c, by) ==
    /\ pc'[c] = "undoing" /\ undo'[c].by = by /\ ~undo'[c].bad
    /\ rec'[c] = rec[c] /\ settled'[c] = settled[c]

(* The handle is given up.                                                  *)
HandleGone(c) == pc'[c] = "idle" /\ GivenUp(c) /\ undo'[c] = undo[c]

BeginShape(c) ==
    /\ pc[c] = "idle" /\ UNCHANGED <<files, settled, undo>>
    /\ \/ /\ pc'[c] = "open" /\ journal'[c] = rec'[c] /\ rec'[c].state \in {"Prepared", "Applying"}
       \/ /\ HandleKept(c) /\ faults < MaxFaults
          /\ journal'[c].state \in {"none", "Prepared"}

PrepareShape(c) ==
    /\ pc[c] = "open" /\ ~settled[c] /\ UNCHANGED <<files, settled, undo>>
    /\ rec[c].state \in {"Prepared", "Applying"} /\ rec'[c].state = "Applying"
    /\ Puts(c, rec'[c])
    /\ pc'[c] = "dispatch" \/ (pc'[c] = "open" /\ faults < MaxFaults)

RollbackShape(c) ==
    /\ pc[c] = "open" /\ UNCHANGED <<files, journal>>
    /\ \/ (rec[c].state \in {"RolledBack", "RecoveryRequired"} \/ settled[c]) /\ HandleGone(c)
       \/ rec[c].state = "Committed" /\ ~settled[c] /\ UndoBegins(c, "drop")
       \/ /\ rec[c].state \in {"Prepared", "Applying", "Compensating"} /\ ~settled[c]
          /\ UndoBegins(c, "rollback")

DropShape(c) ==
    /\ pc[c] = "open" /\ UNCHANGED <<files, journal>>
    /\ \/ settled[c] /\ HandleGone(c)
       \/ ~settled[c] /\ UndoBegins(c, "drop")

CommitShape(c) ==
    /\ pc[c] = "open" /\ pc'[c] = "open" /\ ~settled[c] /\ UNCHANGED <<files, undo>>
    /\ rec[c].state \in {"Prepared", "Applying"} /\ rec'[c].state = "Committed"
    /\ rec'[c].effects = rec[c].effects
    /\ \/ reply'[c] = "ok" /\ settled'[c] /\ journal'[c] = rec'[c]
       \/ /\ reply'[c] # "ok" /\ ~settled'[c] /\ faults < MaxFaults /\ faults' = faults + 1
          /\ journal'[c] \in {journal[c], rec'[c]}

(* begin opens a handle on the journal it published or adopted; when the    *)
(* write fails there is no handle.                                          *)
LEMMA BeginIs ==
    ASSUME TypeInv, NEW c \in Cells, BeginFresh(c) \/ BeginAdopt(c)
    PROVE  BeginShape(c) /\ Elsewhere(c)
<1>1. CASE BeginAdopt(c)
  <2>1. /\ pc[c] = "idle" /\ UNCHANGED <<files, journal, settled, undo>>
        /\ pc' = [pc EXCEPT ![c] = "open"] /\ rec' = [rec EXCEPT ![c] = journal[c]]
        /\ journal[c].state \in {"Prepared", "Applying"}
    BY <1>1 DEF BeginAdopt
  <2> QED BY <2>1 DEF BeginShape, Elsewhere, TypeInv, CellOK
<1>2. CASE BeginFresh(c)
  <2> DEFINE r == [state |-> "Prepared", effects |-> <<>>]
  <2>1. PICK out \in PersistOutcomes :
          /\ persist_record(c, r, out)
          /\ IF out = "ok" THEN pc' = [pc EXCEPT ![c] = "open"] /\ rec' = [rec EXCEPT ![c] = r]
                           ELSE UNCHANGED <<pc, rec>>
    BY <1>2 DEF BeginFresh
  <2>2. r.state = "Prepared" /\ pc[c] = "idle" /\ journal[c].state = "none" /\ UNCHANGED <<files, settled, undo>>
    BY <1>2 DEF BeginFresh
  <2> HIDE DEF r
  <2>3. /\ out = "ok" => journal'[c] = r
        /\ out # "ok" => faults < MaxFaults
        /\ journal'[c] \in {r, journal[c]}
        /\ \A d \in Cells \ {c} : journal'[d] = journal[d]
    BY <2>1, PersistPuts
  <2>4. CASE out = "ok"
    BY <2>1, <2>2, <2>3, <2>4 DEF BeginShape, Elsewhere, TypeInv, CellOK
  <2>5. CASE out # "ok"
    BY <2>1, <2>2, <2>3, <2>5 DEF BeginShape, HandleKept, Elsewhere
  <2> QED BY <2>4, <2>5
<1> QED BY <1>1, <1>2

(* apply, up to the publication of the preparation.                         *)
LEMMA PrepareIs ==
    ASSUME TypeInv, NEW c \in Cells, NEW q \in Requests, ApplyPrepare(c, q)
    PROVE  PrepareShape(c) /\ Elsewhere(c)
<1> DEFINE e == [path |-> q.path, kind |-> q.kind, before |-> files[q.path],
                 after |-> q.after, receipt |-> FALSE, restored |-> FALSE]
           r == [state |-> "Applying", effects |-> Append(rec[c].effects, e)]
<1>1. PICK out \in PersistOutcomes :
        /\ persist_record(c, r, out) /\ rec' = [rec EXCEPT ![c] = r]
        /\ IF out = "ok" THEN pc' = [pc EXCEPT ![c] = "dispatch"] ELSE UNCHANGED pc
  BY DEF ApplyPrepare
<1>2. /\ pc[c] = "open" /\ ~settled[c] /\ UNCHANGED <<files, settled, undo>> /\ r.state = "Applying"
      /\ transition_allowed(rec[c].state, "Applying")
  BY DEF ApplyPrepare
<1>3. rec[c].state \in {"Prepared", "Applying"}
  BY <1>2 DEF transition_allowed
<1> HIDE DEF r
<1>4. /\ Puts(c, r) /\ (out # "ok" => faults < MaxFaults)
      /\ \A d \in Cells \ {c} : journal'[d] = journal[d]
  BY <1>1, PersistPuts
<1>5. rec'[c] = r /\ \A d \in Cells \ {c} : rec'[d] = rec[d]
  BY <1>1 DEF TypeInv, CellOK
<1>6. /\ pc'[c] = "dispatch" \/ (pc'[c] = "open" /\ faults < MaxFaults)
      /\ \A d \in Cells \ {c} : pc'[d] = pc[d]
  BY <1>1, <1>2, <1>4 DEF TypeInv, CellOK
<1> QED BY <1>2, <1>3, <1>4, <1>5, <1>6 DEF PrepareShape, Elsewhere

(* An undo of the own record, started with nothing else changed.            *)
LEMMA UndoIs ==
    ASSUME TypeInv, NEW c \in Cells, NEW by, StartUndo(c, by, c, rec[c]), UNCHANGED <<journal, settled>>
    PROVE  UndoBegins(c, by) /\ Elsewhere(c)
BY StartUndoShape DEF UndoBegins, Elsewhere

(* A handle given up with nothing written.                                  *)
LEMMA IdleIs ==
    ASSUME TypeInv, NEW c \in Cells, Idle(c), UNCHANGED <<journal, undo>>
    PROVE  HandleGone(c) /\ Elsewhere(c)
BY IdleShape DEF HandleGone, GivenUp, Elsewhere

(* rollback: settled and final records are given up, a Committed one is left*)
(* to Drop, the others are undone.                                          *)
LEMMA RollbackIs ==
    ASSUME TypeInv, NEW c \in Cells, Rollback(c)
    PROVE  RollbackShape(c) /\ Elsewhere(c)
BY UndoIs, IdleIs DEF Rollback, RollbackShape

(* Drop undoes what is not settled, Committed or not.                       *)
LEMMA DropIs ==
    ASSUME TypeInv, NEW c \in Cells, Drop(c)
    PROVE  DropShape(c) /\ Elsewhere(c)
BY UndoIs, IdleIs DEF Drop, DropShape

(* commit answers ok with the record on disk; when the write fails it answers*)
(* an error, and the record may be on disk or not.                          *)
LEMMA CommitIs ==
    ASSUME TypeInv, NEW c \in Cells, CommitPublish(c)
    PROVE  CommitShape(c) /\ Elsewhere(c)
<1> DEFINE r == [rec[c] EXCEPT !.state = "Committed"]
<1>1. PICK out \in PersistOutcomes :
        /\ persist_record(c, r, out) /\ settled' = [settled EXCEPT ![c] = out = "ok"]
        /\ Reply(c, IF out = "ok" THEN "ok" ELSE "err")
  BY DEF CommitPublish
<1>2. /\ pc[c] = "open" /\ ~settled[c] /\ UNCHANGED <<files, pc, undo>>
      /\ rec[c].state \in {"Prepared", "Applying"} /\ rec' = [rec EXCEPT ![c] = r]
  BY DEF CommitPublish
<1>3. r.state = "Committed" /\ r.effects = rec[c].effects
  BY DEF TypeInv, CellOK, Record
<1> HIDE DEF r
<1>4. rec'[c] = r /\ \A d \in Cells \ {c} : rec'[d] = rec[d] /\ settled'[d] = settled[d]
  BY <1>1, <1>2 DEF TypeInv, CellOK
<1>5. /\ out = "ok" => journal'[c] = r
      /\ out # "ok" => faults < MaxFaults /\ faults' = faults + 1
      /\ journal'[c] \in {r, journal[c]}
      /\ \A d \in Cells \ {c} : journal'[d] = journal[d]
  BY <1>1, PersistPuts DEF persist_record
<1>6. /\ out = "ok" => reply'[c] = "ok" /\ settled'[c]
      /\ out # "ok" => reply'[c] # "ok" /\ ~settled'[c]
  BY <1>1 DEF Reply, TypeInv, CellOK
<1> QED BY <1>2, <1>3, <1>4, <1>5, <1>6 DEF CommitShape, Elsewhere

-----------------------------------------------------------------------------
(* The steps of one cell, and what they leave alone.                        *)

CellStep(c) ==
    \/ Load(c) \/ Edit(c) \/ EffectBegin(c) \/ EffectApply(c)
    \/ HostStep(c) \/ CellCancel(c) \/ CellCrash(c)

HostFrame(c) ==
    \A d \in Cells \ {c} :
        /\ phase'[d] = phase[d] /\ outcome'[d] = outcome[d] /\ events'[d] = events[d]
        /\ advanced'[d] = advanced[d]

(* The host's variables keep their types under every step of a cell.        *)
LEMMA HostTypes ==
    ASSUME HostTypeOK, NEW c \in Cells, CellStep(c)
    PROVE  HostTypeOK' /\ HostFrame(c)
<1>0. /\ Session(c) \in Sessions /\ root[Session(c)] \in Roots /\ seen[c] \in Roots /\ want[c] \in Roots
      /\ failure[c] \in {"none", "Failed", "Cancelled"}
  BY ConstantsAssumption DEF Session, HostTypeOK
<1>1. phase' \in [Cells -> Phases] /\ \A d \in Cells \ {c} : phase'[d] = phase[d]
  <2>1. UNCHANGED phase \/ \E p \in Phases : GoTo(c, p)
    <3>1. CASE Load(c) \/ Edit(c) \/ EffectBegin(c) \/ EffectApply(c) \/ CellCancel(c) \/ CellCrash(c)
      BY <3>1 DEF Load, Edit, EffectBegin, EffectApply, CellCancel, CellCrash, hostVars, Phases
    <3>2. CASE \/ Reconcile(c) \/ Recovered(c) \/ EffectEnd(c) \/ EffectFailed(c) \/ GuestFails(c)
               \/ StateCommit(c) \/ Revert(c) \/ CompensateEffects(c) \/ CompensateState(c) \/ Close(c)
      BY <3>2 DEF Reconcile, Recovered, EffectEnd, EffectFailed, GuestFails, StateCommit,
                  Revert, CompensateEffects, CompensateState, Close, Phases
    <3>3. CASE FailRollback(c) \/ FailSettled(c) \/ LogFailure(c) \/ Call(c)
      BY <3>3 DEF FailRollback, FailSettled, LogFailure, Call, Phases
    <3>4. CASE Finish(c)
      <4>1. {"failing", "committing", "stating"} \subseteq Phases
        BY DEF Phases
      <4> QED BY <3>4, <4>1 DEF Finish
    <3>5. CASE Commit(c)
      <4>1. {"publishing", "reverting"} \subseteq Phases
        BY DEF Phases
      <4> QED BY <3>5, <4>1 DEF Commit
    <3>6. CASE PublishCompleted(c)
      BY <3>6 DEF PublishCompleted, Phases
    <3> QED BY <3>1, <3>2, <3>3, <3>4, <3>5, <3>6 DEF CellStep, HostStep
  <2> QED BY <2>1 DEF GoTo, HostTypeOK
<1>2. outcome' \in [Cells -> Outcomes \cup {"err", "refused"}] /\ \A d \in Cells \ {c} : outcome'[d] = outcome[d]
  <2>1. UNCHANGED outcome \/ \E o \in Outcomes \cup {"err", "refused"} : outcome' = [outcome EXCEPT ![c] = o]
    <3>1. CASE Load(c) \/ Edit(c) \/ EffectBegin(c) \/ EffectApply(c) \/ CellCancel(c) \/ CellCrash(c)
      BY <3>1 DEF Load, Edit, EffectBegin, EffectApply, CellCancel, CellCrash, hostVars, settlement
    <3>2. CASE \/ Reconcile(c) \/ Recovered(c) \/ EffectEnd(c) \/ EffectFailed(c) \/ GuestFails(c)
               \/ StateCommit(c) \/ Revert(c) \/ CompensateEffects(c) \/ CompensateState(c) \/ Close(c)
      BY <3>2 DEF Reconcile, Recovered, EffectEnd, EffectFailed, GuestFails, StateCommit,
                  Revert, CompensateEffects, CompensateState, Close, settlement
    <3>3. CASE FailRollback(c) \/ FailSettled(c) \/ Call(c) \/ Finish(c) \/ Commit(c)
      BY <3>3 DEF FailRollback, FailSettled, Call, Finish, Commit, settlement
    <3>4. CASE PublishCompleted(c) \/ LogFailure(c)
      <4>1. "Completed" \in Outcomes /\ failure[c] \in Outcomes
        BY <1>0 DEF Outcomes
      <4> QED BY <3>4, <4>1 DEF PublishCompleted, LogFailure
    <3> QED BY <3>1, <3>2, <3>3, <3>4 DEF CellStep, HostStep
  <2> QED BY <2>1 DEF HostTypeOK
<1>3. events' \in [Cells -> Outcomes] /\ \A d \in Cells \ {c} : events'[d] = events[d]
  <2>1. UNCHANGED events \/ \E o \in Outcomes : events' = [events EXCEPT ![c] = o]
    <3>1. CASE Load(c) \/ Edit(c) \/ EffectBegin(c) \/ EffectApply(c) \/ CellCancel(c) \/ CellCrash(c)
      BY <3>1 DEF Load, Edit, EffectBegin, EffectApply, CellCancel, CellCrash, hostVars, settlement
    <3>2. CASE \/ Reconcile(c) \/ Recovered(c) \/ EffectEnd(c) \/ EffectFailed(c) \/ GuestFails(c)
               \/ StateCommit(c) \/ Revert(c) \/ CompensateEffects(c) \/ CompensateState(c) \/ Close(c)
      BY <3>2 DEF Reconcile, Recovered, EffectEnd, EffectFailed, GuestFails, StateCommit,
                  Revert, CompensateEffects, CompensateState, Close, settlement
    <3>3. CASE FailRollback(c) \/ FailSettled(c) \/ Call(c) \/ Finish(c) \/ Commit(c)
      BY <3>3 DEF FailRollback, FailSettled, Call, Finish, Commit, settlement
    <3>4. CASE PublishCompleted(c) \/ LogFailure(c)
      <4>1. "Completed" \in Outcomes /\ failure[c] \in Outcomes
        BY <1>0 DEF Outcomes
      <4> QED BY <3>4, <4>1 DEF PublishCompleted, LogFailure, Publish
    <3> QED BY <3>1, <3>2, <3>3, <3>4 DEF CellStep, HostStep
  <2> QED BY <2>1 DEF HostTypeOK
<1>4. /\ advanced' \in [Cells -> {"none", "alone", "staged"}] /\ \A d \in Cells \ {c} : advanced'[d] = advanced[d]
      /\ root' \in [Sessions -> Roots]
  <2>1. /\ UNCHANGED advanced \/ \E o \in {"none", "alone", "staged"} : advanced' = [advanced EXCEPT ![c] = o]
        /\ UNCHANGED root \/ \E r \in Roots : root' = [root EXCEPT ![Session(c)] = r]
    <3>1. CASE Load(c) \/ Edit(c) \/ EffectBegin(c) \/ EffectApply(c) \/ CellCancel(c) \/ CellCrash(c)
      BY <3>1 DEF Load, Edit, EffectBegin, EffectApply, CellCancel, CellCrash, hostVars
    <3>2. CASE \/ Reconcile(c) \/ Recovered(c) \/ EffectEnd(c) \/ EffectFailed(c) \/ GuestFails(c)
               \/ CompensateEffects(c) \/ Close(c)
      BY <3>2 DEF Reconcile, Recovered, EffectEnd, EffectFailed, GuestFails, CompensateEffects, Close
    <3>3. CASE FailRollback(c) \/ FailSettled(c) \/ Call(c) \/ Finish(c) \/ Commit(c)
               \/ PublishCompleted(c) \/ LogFailure(c)
      BY <3>3 DEF FailRollback, FailSettled, Call, Finish, Commit, PublishCompleted, LogFailure
    <3>4. CASE StateCommit(c)
      BY <1>0, <3>4 DEF StateCommit
    <3>5. CASE Revert(c) \/ CompensateState(c)
      BY <1>0, <3>5 DEF Revert, CompensateState, RootBack, RootBackFails
    <3> QED BY <3>1, <3>2, <3>3, <3>4, <3>5 DEF CellStep, HostStep
  <2> QED BY <1>0, <2>1 DEF HostTypeOK
<1>5. /\ seen' \in [Cells -> Roots] /\ want' \in [Cells -> Roots]
      /\ failure' \in [Cells -> {"none", "Failed", "Cancelled"}]
  <2>1. /\ UNCHANGED seen \/ \E r \in Roots : seen' = [seen EXCEPT ![c] = r]
        /\ UNCHANGED want \/ \E r \in Roots : want' = [want EXCEPT ![c] = r]
        /\ UNCHANGED failure
             \/ \E k \in {"none", "Failed", "Cancelled"} : failure' = [failure EXCEPT ![c] = k]
    <3>1. CASE Load(c) \/ Edit(c) \/ EffectBegin(c) \/ EffectApply(c) \/ CellCancel(c) \/ CellCrash(c)
      BY <1>0, <3>1 DEF Load, Edit, EffectBegin, EffectApply, CellCancel, CellCrash, hostVars
    <3>2. CASE \/ Reconcile(c) \/ Recovered(c) \/ EffectEnd(c) \/ EffectFailed(c) \/ GuestFails(c)
               \/ CompensateEffects(c) \/ CompensateState(c) \/ Close(c) \/ StateCommit(c) \/ Revert(c)
      BY <3>2 DEF Reconcile, Recovered, EffectEnd, EffectFailed, GuestFails, CompensateEffects,
                  CompensateState, Close, StateCommit, Revert
    <3>3. CASE FailRollback(c) \/ Call(c) \/ Finish(c) \/ Commit(c) \/ PublishCompleted(c) \/ LogFailure(c)
      BY <3>3 DEF FailRollback, Call, Finish, Commit, PublishCompleted, LogFailure
    <3>4. CASE FailSettled(c)
      BY <1>0, <3>4 DEF FailSettled
    <3> QED BY <3>1, <3>2, <3>3, <3>4 DEF CellStep, HostStep
  <2>2. seen' \in [Cells -> Roots]
    BY <2>1 DEF HostTypeOK
  <2>3. want' \in [Cells -> Roots]
    BY <2>1 DEF HostTypeOK
  <2>4. failure' \in [Cells -> {"none", "Failed", "Cancelled"}]
    BY <2>1 DEF HostTypeOK
  <2> QED BY <2>2, <2>3, <2>4
<1>6. tainted' \subseteq Cells
  <2>1. UNCHANGED tainted \/ tainted' = tainted \cup {c}
    <3>1. CASE Load(c) \/ Edit(c) \/ EffectBegin(c) \/ EffectApply(c) \/ CellCancel(c) \/ CellCrash(c)
      BY <3>1 DEF Load, Edit, EffectBegin, EffectApply, CellCancel, CellCrash, hostVars
    <3>2. CASE \/ Reconcile(c) \/ Recovered(c) \/ EffectEnd(c) \/ EffectFailed(c) \/ GuestFails(c)
               \/ CompensateEffects(c) \/ CompensateState(c) \/ Close(c) \/ StateCommit(c) \/ Revert(c)
      BY <3>2 DEF Reconcile, Recovered, EffectEnd, EffectFailed, GuestFails, CompensateEffects,
                  CompensateState, Close, StateCommit, Revert
    <3>3. CASE FailRollback(c) \/ FailSettled(c) \/ Call(c) \/ Finish(c) \/ Commit(c)
               \/ PublishCompleted(c) \/ LogFailure(c)
      BY <3>3 DEF FailRollback, FailSettled, Call, Finish, Commit, PublishCompleted, LogFailure
    <3> QED BY <3>1, <3>2, <3>3 DEF CellStep, HostStep
  <2> QED BY <2>1 DEF HostTypeOK
<1> QED BY <1>1, <1>2, <1>3, <1>4, <1>5, <1>6 DEF HostTypeOK, HostFrame

(* A step meets at most one failure, and edits nothing from outside.        *)
OneFault ==
    /\ externals' = externals
    /\ faults' = faults \/ (faults < MaxFaults /\ faults' = faults + 1)

(* persist_record fails once or not at all.                                 *)
LEMMA PersistFault ==
    ASSUME NEW d, NEW r, NEW out \in PersistOutcomes, persist_record(d, r, out)
    PROVE  OneFault
BY DEF persist_record, PersistOutcomes, OneFault

(* Every step of a cell meets at most one failure.                          *)
LEMMA StepFaults ==
    ASSUME NEW c \in Cells, CellStep(c)
    PROVE  OneFault
<1>1. ASSUME UNCHANGED vars \/ UNCHANGED budgets PROVE OneFault
  BY <1>1 DEF OneFault, vars, budgets
<1>2. ASSUME BeginFresh(c) \/ BeginAdopt(c) \/ (\E q \in Requests : ApplyPrepare(c, q)) PROVE OneFault
  BY <1>1, <1>2, PersistFault DEF BeginFresh, BeginAdopt, ApplyPrepare
<1>3. ASSUME \/ Rollback(c) \/ Drop(c) \/ ReconcileStart(c) \/ Cancel(c) \/ ApplyRefused(c)
             \/ CommitRefused(c) \/ CommitCancelled(c)
      PROVE  OneFault
  BY <1>1, <1>3 DEF Rollback, Drop, ReconcileStart, Cancel, ApplyRefused, CommitRefused, CommitCancelled
<1>4. ASSUME CommitPublish(c) \/ Compensate(c) PROVE OneFault
  BY <1>4, PersistFault DEF CommitPublish, Compensate
<1>5. ASSUME CallStep(c) PROVE OneFault
  <2>1. ASSUME NEW x, PopAndPersist(c, x) PROVE OneFault
    BY <2>1, PersistFault DEF PopAndPersist
  <2>2. CASE ApplyCancelled(c) \/ ApplyRejected(c) \/ ApplyErrored(c) \/ ApplyMismatch(c) \/ ApplyAccepted(c)
    BY <1>1, <2>1, <2>2, PersistFault
       DEF ApplyCancelled, ApplyRejected, ApplyErrored, ApplyMismatch, ApplyAccepted
  <2>3. CASE EngineApply(c) \/ RestoreStep(c)
    BY <2>3 DEF EngineApply, RestoreStep, budgets, OneFault
  <2>4. CASE UndoneInCall(c) \/ UndoneInRollback(c) \/ UndoneInDrop(c)
    BY <2>4, PersistFault DEF UndoneInCall, UndoneInRollback, UndoneInDrop
  <2>5. CASE ReconcileNext(c) \/ ReconcileEnd(c)
    BY <1>1, <2>5 DEF ReconcileNext, ReconcileEnd
  <2>6. CASE UndoneInReconcile(c)
    <3>1. CASE \E r : \E out \in PersistOutcomes : persist_record(undo[c].of, r, out)
      BY <3>1, PersistFault
    <3>2. CASE faults' = faults \/ (faults < MaxFaults /\ faults' = faults + 1)
      BY <2>6, <3>2 DEF UndoneInReconcile, OneFault
    <3> QED BY <2>6, <3>1, <3>2 DEF UndoneInReconcile
  <2> QED BY <1>5, <2>2, <2>3, <2>4, <2>5, <2>6 DEF CallStep
<1>6. CASE Load(c) \/ Edit(c) \/ EffectBegin(c) \/ EffectApply(c) \/ CellCancel(c)
  BY <1>1, <1>2, <1>3, <1>6 DEF Load, Edit, EffectBegin, EffectApply, CellCancel
<1>7. CASE CellCrash(c)
  BY <1>7 DEF CellCrash, Die, OneFault
<1>8. CASE \/ Reconcile(c) \/ Recovered(c) \/ EffectEnd(c) \/ EffectFailed(c) \/ GuestFails(c)
           \/ Finish(c) \/ Close(c) \/ FailRollback(c) \/ FailSettled(c) \/ Call(c)
  BY <1>1, <1>3, <1>5, <1>8 DEF Reconcile, Recovered, EffectEnd, EffectFailed, GuestFails, Finish, Close,
                                FailRollback, FailSettled, Call
<1>9. CASE Commit(c) \/ CompensateEffects(c)
  BY <1>1, <1>3, <1>4, <1>9 DEF Commit, CompensateEffects
<1>10. CASE StateCommit(c) \/ Revert(c) \/ CompensateState(c) \/ PublishCompleted(c) \/ LogFailure(c)
  BY <1>10 DEF StateCommit, Revert, CompensateState, PublishCompleted, LogFailure, Publish,
               RootBackFails, OneFault
<1> QED BY <1>6, <1>7, <1>8, <1>9, <1>10 DEF CellStep, HostStep

(* Only the steps inside a call change a file, and a step of a cell leaves  *)
(* the handles of the other cells alone.                                    *)
LEMMA StepElsewhere ==
    ASSUME CoordInv, CoordInv', NEW c \in Cells, CellStep(c)
    PROVE  Elsewhere(c) /\ (UNCHANGED files \/ CallStep(c))
<1>0. TypeInv
  BY DEF CoordInv
<1>1. ASSUME UNCHANGED vars \/ UNCHANGED <<files, journal, pc, rec, settled, undo>>
      PROVE  Elsewhere(c) /\ UNCHANGED files
  BY <1>1 DEF Elsewhere, vars
<1>2. ASSUME BeginFresh(c) \/ BeginAdopt(c) \/ (\E q \in Requests : ApplyPrepare(c, q))
      PROVE  Elsewhere(c) /\ UNCHANGED files
  BY <1>0, <1>2, BeginIs, PrepareIs DEF BeginShape, PrepareShape
<1>3. ASSUME Rollback(c) \/ Drop(c) \/ CommitPublish(c) PROVE Elsewhere(c) /\ UNCHANGED files
  BY <1>0, <1>3, RollbackIs, DropIs, CommitIs DEF RollbackShape, DropShape, CommitShape
<1>4. ASSUME Cancel(c) \/ ApplyRefused(c) \/ CommitRefused(c)
      PROVE  Elsewhere(c) /\ UNCHANGED files
  BY <1>1, <1>4 DEF Cancel, ApplyRefused, CommitRefused
<1>5. ASSUME CommitCancelled(c) PROVE Elsewhere(c) /\ UNCHANGED files
  BY <1>0, <1>5, UndoIs DEF CommitCancelled
<1>6. ASSUME ReconcileStart(c) PROVE Elsewhere(c) /\ UNCHANGED files
  BY <1>0, <1>6 DEF ReconcileStart, Elsewhere, TypeInv, CellOK
<1>7. ASSUME Compensate(c) PROVE Elsewhere(c) /\ UNCHANGED files
  <2> DEFINE r == [rec[c] EXCEPT !.state = "Compensating"]
  <2>1. PICK out \in PersistOutcomes :
          /\ persist_record(c, r, out)
          /\ \/ StartUndo(c, "compensate", c, r) /\ settled' = [settled EXCEPT ![c] = FALSE]
             \/ UNCHANGED <<rec, undo, pc, settled>>
    BY <1>7 DEF Compensate
  <2> HIDE DEF r
  <2>2. \A d \in Cells \ {c} : journal'[d] = journal[d]
    BY <1>0, <2>1, PersistPuts
  <2>3. CASE UNCHANGED <<rec, undo, pc, settled>>
    BY <1>7, <2>2, <2>3 DEF Compensate, Elsewhere
  <2>4. CASE StartUndo(c, "compensate", c, r) /\ settled' = [settled EXCEPT ![c] = FALSE]
    <3>1. \A d \in Cells \ {c} : pc'[d] = pc[d] /\ rec'[d] = rec[d] /\ undo'[d] = undo[d]
      BY <1>0, <2>4, StartUndoShape
    <3>2. \A d \in Cells \ {c} : settled'[d] = settled[d]
      BY <1>0, <2>4 DEF TypeInv, CellOK
    <3> QED BY <1>7, <2>2, <3>1, <3>2 DEF Compensate, Elsewhere
  <2> QED BY <2>1, <2>3, <2>4
<1>8. ASSUME CallStep(c) PROVE Elsewhere(c)
  BY <1>8, CallShapes DEF CallShape
<1>9. CASE Load(c) \/ Edit(c) \/ EffectBegin(c) \/ EffectApply(c) \/ CellCancel(c)
  BY <1>1, <1>2, <1>4, <1>9 DEF Load, Edit, EffectBegin, EffectApply, CellCancel
<1>10. CASE CellCrash(c)
  BY <1>0, <1>10 DEF CellCrash, Die, EndUndo, Elsewhere, TypeInv, CellOK
<1>11. CASE \/ Reconcile(c) \/ Recovered(c) \/ EffectEnd(c) \/ EffectFailed(c) \/ GuestFails(c)
            \/ Finish(c) \/ Close(c) \/ FailRollback(c) \/ FailSettled(c) \/ Call(c)
  BY <1>1, <1>3, <1>6, <1>8, <1>11 DEF Reconcile, Recovered, EffectEnd, EffectFailed, GuestFails,
                                Finish, Close, FailRollback, FailSettled, Call
<1>12. CASE Commit(c) \/ CompensateEffects(c)
  BY <1>1, <1>3, <1>4, <1>5, <1>7, <1>12 DEF Commit, CompensateEffects
<1>13. CASE StateCommit(c) \/ Revert(c) \/ CompensateState(c) \/ PublishCompleted(c) \/ LogFailure(c)
  BY <1>1, <1>13 DEF StateCommit, Revert, CompensateState, PublishCompleted, LogFailure, Publish
<1> QED BY <1>9, <1>10, <1>11, <1>12, <1>13 DEF CellStep, HostStep

-----------------------------------------------------------------------------
(* The steps of the host seen from the cell that takes them: the phase it   *)
(* leaves and enters, and the shape of the call it makes, if any.           *)

Same(c) == UNCHANGED <<files, journal>> /\ HandleKept(c) /\ undo'[c] = undo[c]

(* Neither the caller, the log nor the root is touched.                     *)
Quiet(c) == outcome'[c] = outcome[c] /\ events'[c] = events[c] /\ advanced'[c] = advanced[c]

Answers(c, o) == outcome'[c] = o /\ advanced'[c] = advanced[c]

Goes(c, p, q) == phase[c] = p /\ phase'[c] = q

MoveIn(c) ==
    \/ Goes(c, "new", "loaded") /\ Same(c) /\ Quiet(c)
    \/ /\ Goes(c, "loaded", "recovering") /\ UNCHANGED <<files, journal>> /\ Quiet(c)
       /\ journal[c].state = "none" /\ pc'[c] = "reconciling" /\ rec'[c] = rec[c]
       /\ settled'[c] = settled[c] /\ undo'[c] = undo[c]
    \/ Goes(c, "loaded", "done") /\ Same(c) /\ Answers(c, "refused")
    \/ Goes(c, "recovering", "running") /\ pc[c] = "idle" /\ Same(c) /\ Quiet(c)
    \/ Goes(c, "recovering", "done") /\ pc[c] = "idle" /\ Same(c) /\ Answers(c, "refused")

MoveGuest(c) ==
    /\ Quiet(c)
    /\ \/ Goes(c, "running", "running") /\ (BeginShape(c) \/ PrepareShape(c))
       \/ Goes(c, "running", "applying") /\ BeginShape(c)
       \/ Goes(c, "applying", "applying") /\ (Same(c) \/ PrepareShape(c))
       \/ Goes(c, "applying", "running") /\ pc[c] = "open" /\ (Same(c) \/ RollbackShape(c))

MoveFinish(c) ==
    \/ Goes(c, "running", "failing") /\ Returned(c) /\ Same(c) /\ Quiet(c)
    \/ /\ phase[c] = "running" /\ phase'[c] \in {"stating", "committing"}
       /\ Returned(c) /\ StagedValid(c) /\ Same(c) /\ Quiet(c)
    \/ Goes(c, "stating", "committing") /\ Same(c) /\ outcome'[c] = outcome[c]
    \/ Goes(c, "stating", "failing") /\ Same(c) /\ Quiet(c)
    \/ Goes(c, "committing", "publishing") /\ pc[c] = "idle" /\ Same(c) /\ Quiet(c)
    \/ Goes(c, "committing", "reverting") /\ pc[c] = "open" /\ Same(c) /\ Quiet(c)
    \/ /\ Goes(c, "committing", "reverting") /\ pc[c] = "open" /\ UNCHANGED <<files, journal>>
       /\ UndoBegins(c, "commit") /\ Quiet(c)
    \/ /\ phase[c] = "committing" /\ CommitShape(c) /\ Quiet(c)
       /\ reply'[c] = "ok" => phase'[c] = "publishing"
       /\ reply'[c] # "ok" => phase'[c] = "reverting"

MoveUnwind(c) ==
    \/ /\ Goes(c, "reverting", "failing") /\ pc[c] = "open" /\ Same(c)
       /\ outcome'[c] = outcome[c] /\ advanced'[c] = "none"
    \/ Goes(c, "reverting", "closing") /\ pc[c] = "open" /\ Same(c) /\ outcome'[c] = "err"
    \/ /\ Goes(c, "publishing", "closing") /\ Same(c)
       /\ Answers(c, "Completed") /\ events'[c] = "Completed"
    \/ Goes(c, "publishing", "compensating") /\ Same(c) /\ outcome'[c] = outcome[c]
    \/ Goes(c, "compensating", "unstating") /\ Quiet(c) /\ pc[c] = "idle" /\ Same(c)
    \/ /\ Goes(c, "compensating", "unstating") /\ Quiet(c) /\ pc[c] = "open"
       /\ \/ pc'[c] = "undoing" /\ undo'[c].by = "compensate" /\ ~undo'[c].bad
          \/ HandleKept(c) /\ undo'[c] = undo[c]
    \/ Goes(c, "unstating", "closing") /\ Returned(c) /\ Same(c) /\ outcome'[c] = "err"

MoveOut(c) ==
    \/ Goes(c, "closing", "closing") /\ DropShape(c) /\ Quiet(c)
    \/ Goes(c, "closing", "done") /\ pc[c] = "idle" /\ Same(c) /\ Quiet(c)
    \/ Goes(c, "failing", "settling") /\ RollbackShape(c) /\ Quiet(c)
    \/ Goes(c, "failing", "logging") /\ pc[c] = "idle" /\ Same(c) /\ Quiet(c)
    \/ Goes(c, "settling", "logging") /\ pc[c] = "idle" /\ Same(c) /\ Quiet(c)
    \/ /\ Goes(c, "logging", "done") /\ Same(c) /\ advanced'[c] = advanced[c]
       /\ outcome'[c] # "Completed"

MoveAway(c) ==
    /\ phase[c] \notin {"new", "done", "crashed"} /\ phase'[c] = "crashed" /\ pc'[c] = "crashed"
    /\ UNCHANGED <<files, journal>> /\ ~undo'[c].bad /\ Quiet(c)

Waits(c) == phase'[c] = phase[c] /\ Same(c) /\ Quiet(c)

Moves(c) ==
    \/ MoveIn(c) \/ MoveGuest(c) \/ MoveFinish(c) \/ MoveUnwind(c) \/ MoveOut(c)
    \/ MoveAway(c) \/ Waits(c)
    \/ CallStep(c) /\ phase'[c] = phase[c] /\ Quiet(c)

(* Every step of a cell is one of these.                                    *)
LEMMA StepMoves ==
    ASSUME TypeInv, HostTypeOK, NEW c \in Cells, CellStep(c)
    PROVE  Moves(c)
<1>1. ASSUME UNCHANGED vars \/ UNCHANGED <<files, journal, pc, rec, settled, undo>> PROVE Same(c)
  BY <1>1 DEF Same, HandleKept, vars
<1>2. ASSUME UNCHANGED hostVars \/ UNCHANGED <<settlement, advanced>> PROVE Quiet(c)
  BY <1>2 DEF Quiet, hostVars, settlement
<1>3. ASSUME NEW p, GoTo(c, p) PROVE phase'[c] = p
  BY <1>3 DEF GoTo, HostTypeOK
<1>4. ASSUME NEW o, outcome' = [outcome EXCEPT ![c] = o] PROVE outcome'[c] = o
  BY <1>4 DEF HostTypeOK
<1>5. CASE Load(c)
  BY <1>1, <1>2, <1>3, <1>5 DEF Load, Moves, MoveIn, Goes
<1>6. CASE Reconcile(c)
  <2>1. CASE ReconcileStart(c) /\ GoTo(c, "recovering") /\ UNCHANGED settlement
    BY <1>2, <1>3, <1>6, <2>1 DEF Reconcile, ReconcileStart, Moves, MoveIn, Goes, TypeInv, CellOK
  <2>2. CASE GoTo(c, "done") /\ outcome' = [outcome EXCEPT ![c] = "refused"] /\ UNCHANGED vars
    BY <1>1, <1>3, <1>4, <1>6, <2>2 DEF Reconcile, Moves, MoveIn, Goes, Answers
  <2> QED BY <1>6, <2>1, <2>2 DEF Reconcile
<1>7. CASE Recovered(c)
  BY <1>1, <1>2, <1>3, <1>4, <1>7 DEF Recovered, Moves, MoveIn, Goes, Answers
<1>8. CASE Edit(c)
  BY <1>2, <1>8, BeginIs, PrepareIs DEF Edit, Moves, MoveGuest, Goes, hostVars
<1>9. CASE EffectBegin(c)
  <2>1. BeginShape(c) /\ Quiet(c)
    BY <1>2, <1>9, BeginIs DEF EffectBegin
  <2>2. phase'[c] \in {"running", "applying"} /\ phase[c] = "running"
    BY <1>3, <1>9 DEF EffectBegin
  <2> QED BY <2>1, <2>2 DEF Moves, MoveGuest, Goes
<1>10. CASE EffectApply(c)
  BY <1>1, <1>2, <1>10, PrepareIs DEF EffectApply, ApplyRefused, Moves, MoveGuest, Goes, hostVars
<1>11. CASE EffectEnd(c)
  BY <1>1, <1>2, <1>3, <1>11 DEF EffectEnd, Moves, MoveGuest, Goes
<1>12. CASE EffectFailed(c)
  BY <1>2, <1>3, <1>12, RollbackIs DEF EffectFailed, RollbackShape, Moves, MoveGuest, Goes
<1>13. CASE GuestFails(c)
  BY <1>1, <1>2, <1>3, <1>13 DEF GuestFails, Moves, MoveFinish, Goes
<1>14. CASE Finish(c)
  <2>1. /\ phase[c] = "running" /\ Returned(c) /\ Same(c) /\ Quiet(c)
        /\ \/ phase'[c] = "failing"
           \/ phase'[c] \in {"stating", "committing"} /\ StagedValid(c)
    BY <1>1, <1>2, <1>3, <1>14 DEF Finish
  <2> QED BY <2>1 DEF Moves, MoveFinish, Goes
<1>15. CASE StateCommit(c)
  <2>1. /\ phase[c] = "stating" /\ Same(c) /\ outcome'[c] = outcome[c] /\ events'[c] = events[c]
        /\ phase'[c] = "committing" \/ (phase'[c] = "failing" /\ UNCHANGED advanced)
    BY <1>1, <1>3, <1>15 DEF StateCommit, settlement
  <2> QED BY <2>1 DEF Moves, MoveFinish, Goes, Quiet
<1>16. CASE Commit(c)
  <2>1. phase[c] = "committing" /\ Quiet(c)
    BY <1>2, <1>16 DEF Commit
  <2>2. CASE pc[c] = "idle" /\ GoTo(c, "publishing") /\ UNCHANGED vars
    BY <1>1, <1>3, <2>1, <2>2 DEF Moves, MoveFinish, Goes
  <2>3. CASE CommitCancelled(c) /\ GoTo(c, "reverting")
    BY <1>3, <2>1, <2>3, UndoIs DEF CommitCancelled, Moves, MoveFinish, Goes
  <2>4. CASE CommitPublish(c) /\ GoTo(c, IF reply'[c] = "ok" THEN "publishing" ELSE "reverting")
    BY <1>3, <2>1, <2>4, CommitIs DEF Moves, MoveFinish
  <2>5. CASE CommitRefused(c) /\ GoTo(c, IF reply'[c] = "ok" THEN "publishing" ELSE "reverting")
    <3>1. reply'[c] = "err" /\ pc[c] = "open" /\ Same(c)
      BY <1>1, <2>5 DEF CommitRefused, Reply, TypeInv, CellOK
    <3>2. phase'[c] = "reverting"
      BY <1>3, <2>5, <3>1
    <3> QED BY <2>1, <3>1, <3>2 DEF Moves, MoveFinish, Goes
  <2> QED BY <1>16, <2>2, <2>3, <2>4, <2>5 DEF Commit
<1>17. CASE Revert(c)
  <2>1. phase[c] = "reverting" /\ pc[c] = "open" /\ Same(c)
    BY <1>1, <1>17 DEF Revert
  <2>2. \/ phase'[c] = "failing" /\ UNCHANGED outcome /\ advanced'[c] = "none"
        \/ phase'[c] = "closing" /\ outcome'[c] = "err"
    BY <1>3, <1>4, <1>17 DEF Revert, RootBack, HostTypeOK
  <2> QED BY <2>1, <2>2 DEF Moves, MoveUnwind, Goes
<1>18. CASE PublishCompleted(c)
  <2>1. phase[c] = "publishing" /\ Same(c) /\ UNCHANGED advanced
    BY <1>1, <1>18 DEF PublishCompleted, Publish
  <2>2. CASE faults' = faults
    <3>1. phase'[c] = "closing" /\ outcome'[c] = "Completed"
      BY <1>3, <1>4, <1>18, <2>2 DEF PublishCompleted
    <3>2. faults + 1 # faults
      BY SMTT(60) DEF TypeInv, DiskOK
    <3>3. events'[c] = "Completed"
      BY <1>18, <2>2, <3>2 DEF PublishCompleted, Publish, HostTypeOK
    <3> QED BY <2>1, <3>1, <3>3 DEF Moves, MoveUnwind, Goes, Answers
  <2>3. CASE faults' # faults
    <3>1. phase'[c] = "compensating" /\ UNCHANGED outcome
      BY <1>3, <1>18, <2>3 DEF PublishCompleted
    <3> QED BY <2>1, <3>1 DEF Moves, MoveUnwind, Goes
  <2> QED BY <2>2, <2>3
<1>19. CASE CompensateEffects(c)
  <2>1. Goes(c, "compensating", "unstating") /\ Quiet(c)
    BY <1>2, <1>3, <1>19 DEF CompensateEffects, Goes
  <2>2. CASE pc[c] = "idle" /\ UNCHANGED vars
    BY <1>1, <2>1, <2>2 DEF Moves, MoveUnwind
  <2>3. CASE Compensate(c)
    <3>1. /\ pc[c] = "open"
          /\ \/ \E r : StartUndo(c, "compensate", c, r)
             \/ UNCHANGED <<rec, undo, pc, settled>>
      BY <2>3 DEF Compensate
    <3>2. CASE \E r : StartUndo(c, "compensate", c, r)
      BY <2>1, <3>1, <3>2, StartUndoShape DEF Moves, MoveUnwind
    <3>3. CASE UNCHANGED <<rec, undo, pc, settled>>
      BY <2>1, <3>1, <3>3 DEF Moves, MoveUnwind, HandleKept
    <3> QED BY <3>1, <3>2, <3>3
  <2> QED BY <1>19, <2>2, <2>3 DEF CompensateEffects
<1>20. CASE CompensateState(c)
  BY <1>1, <1>3, <1>4, <1>20 DEF CompensateState, Moves, MoveUnwind, Goes
<1>21. CASE Close(c)
  BY <1>1, <1>2, <1>3, <1>21, DropIs DEF Close, Moves, MoveOut, Goes
<1>22. CASE FailRollback(c)
  BY <1>1, <1>2, <1>3, <1>22, RollbackIs DEF FailRollback, Moves, MoveOut, Goes
<1>23. CASE FailSettled(c)
  BY <1>1, <1>2, <1>3, <1>23 DEF FailSettled, Moves, MoveOut, Goes
<1>24. CASE LogFailure(c)
  <2>1. Goes(c, "logging", "done") /\ Same(c) /\ UNCHANGED advanced
    BY <1>1, <1>3, <1>24 DEF LogFailure, Publish, Goes
  <2>2. outcome'[c] \in {failure[c], "err"}
    BY <1>4, <1>24 DEF LogFailure
  <2>3. failure[c] \in {"none", "Failed", "Cancelled"}
    BY DEF HostTypeOK
  <2> QED BY <2>1, <2>2, <2>3 DEF Moves, MoveOut
<1>25. CASE Call(c)
  BY <1>2, <1>25 DEF Call, Moves
<1>26. CASE CellCancel(c)
  BY <1>1, <1>2, <1>26 DEF CellCancel, Cancel, Moves, Waits, hostVars
<1>27. CASE CellCrash(c)
  BY <1>2, <1>3, <1>27, EndUndoShape DEF CellCrash, Die, Moves, MoveAway, TypeInv, CellOK
<1> QED BY <1>5, <1>6, <1>7, <1>8, <1>9, <1>10, <1>11, <1>12, <1>13, <1>14, <1>15, <1>16, <1>17,
           <1>18, <1>19, <1>20, <1>21, <1>22, <1>23, <1>24, <1>25, <1>26, <1>27 DEF CellStep, HostStep

-----------------------------------------------------------------------------
(* The host's own invariants, one cell at a time.                           *)

(* In phase p a cell is at place q of the coordinator; an undo runs for the *)
(* call `by`.                                                               *)
InPlace(p, q, by) ==
    \/ p \in {"new", "loaded", "logging", "done"} /\ q = "idle"
    \/ p = "crashed" /\ q = "crashed"
    \/ p = "recovering" /\ (q \in {"idle", "reconciling"} \/ (q = "undoing" /\ by = "reconcile"))
    \/ p \in {"running", "applying"} /\ (q \in {"idle", "open"} \/ q \in Calling)
    \/ p \in {"running", "applying"} /\ q = "undoing" /\ by \in {"apply", "mismatch", "engine"}
    \/ p = "running" /\ q = "undoing" /\ by \in {"rollback", "drop"}
    \/ p \in {"stating", "committing", "publishing", "compensating", "failing"}
         /\ q \in {"idle", "open"}
    \/ p = "reverting" /\ (q = "open" \/ (q = "undoing" /\ by = "commit"))
    \/ p = "unstating" /\ (q \in {"idle", "open"} \/ (q = "undoing" /\ by = "compensate"))
    \/ p = "closing" /\ (q \in {"idle", "open"} \/ (q = "undoing" /\ by = "drop"))
    \/ p = "settling" /\ (q = "idle" \/ (q = "undoing" /\ by \in {"rollback", "drop"}))

(* finish has validated the receipts and has not published its event.       *)
Validated == {"stating", "committing", "publishing"}

PlaceInv(c) ==
    /\ InPlace(phase[c], pc[c], undo[c].by)
    /\ pc[c] = "idle" => rec[c] = NoRecord /\ ~settled[c]
    /\ phase[c] \notin {"closing", "done", "crashed"} => outcome[c] = "none"
    /\ phase[c] \in Validated /\ externals = 0 => StagedValid(c)

(* Receipts stay valid while the files and the effects stay as they are.    *)
LEMMA StagedKept ==
    ASSUME NEW c \in Cells, UNCHANGED files, rec'[c].effects = rec[c].effects, StagedValid(c)
    PROVE  StagedValid(c)'
BY DEF StagedValid

(* validate_staged_receipts accepts a cell without effects.                 *)
LEMMA StagedNothing == \A fs : ReceiptsHold(NoRecord.effects, fs)
<1>1. NoRecord.effects = <<>> /\ DOMAIN <<>> = {}
  BY SMTT(60) DEF NoRecord
<1> QED BY <1>1 DEF ReceiptsHold

(* A step of another cell.                                                  *)
LEMMA PlaceOther ==
    ASSUME CoordInv, CoordInv', HostTypeOK, NEW c \in Cells, CellStep(c), NEW d \in Cells \ {c}, PlaceInv(d)
    PROVE  PlaceInv(d)'
<1>1. /\ phase'[d] = phase[d] /\ outcome'[d] = outcome[d] /\ pc'[d] = pc[d] /\ rec'[d] = rec[d]
      /\ settled'[d] = settled[d] /\ undo'[d] = undo[d] /\ externals' = externals
  BY HostTypes, StepElsewhere, StepFaults DEF HostFrame, Elsewhere, OneFault
<1>2. ASSUME phase[d] \in Validated, externals = 0 PROVE StagedValid(d)'
  <2>1. CASE UNCHANGED files
    BY <1>1, <1>2, <2>1, StagedKept DEF PlaceInv
  <2>2. CASE CallStep(c)
    <3>1. pc[c] \notin {"idle", "crashed"}
      BY <2>2, CallShapes DEF CallShape, InApply, InUndo, InReconcile, Calling
    <3>2. pc[d] # "open"
      BY <3>1, ConstantsAssumption DEF CoordInv, WriteAheadInv, LeaseInv
    <3>3. pc[d] = "idle"
      BY <1>2, <3>2 DEF PlaceInv, InPlace, Validated
    <3> QED BY <1>1, <3>3, StagedNothing DEF PlaceInv, StagedValid
  <2> QED BY <2>1, <2>2, StepElsewhere
<1> QED BY <1>1, <1>2 DEF PlaceInv

(* A step inside a call leaves the cell at a place its phase allows.        *)
LEMMA PlaceCall ==
    ASSUME CoordInv, CoordInv', NEW c \in Cells, PlaceInv(c), CallStep(c), phase'[c] = phase[c], outcome'[c] = outcome[c]
    PROVE  PlaceInv(c)'
<1>1. (InApply(c) \/ InUndo(c) \/ InReconcile(c)) /\ GivenUp(c)
  BY CallShapes DEF CallShape
<1>2. InPlace(phase[c], pc[c], undo[c].by)
  BY DEF PlaceInv
<1>3. CASE InApply(c)
  <2>1. phase[c] \in {"running", "applying"}
    BY <1>2, <1>3 DEF InPlace, InApply, Calling
  <2>2. \/ pc'[c] = "open" \/ pc'[c] \in Calling
        \/ pc'[c] = "undoing" /\ undo'[c].by \in {"apply", "mismatch", "engine"}
    BY <1>3 DEF InApply
  <2>3. InPlace(phase'[c], pc'[c], undo'[c].by)
    BY <2>1, <2>2 DEF InPlace
  <2> QED BY <1>1, <2>1, <2>3 DEF PlaceInv, GivenUp, Validated
<1>4. CASE InUndo(c)
  <2>1. /\ pc[c] = "undoing" /\ phase[c] \notin Validated
        /\ \/ phase[c] = "recovering" /\ undo[c].by = "reconcile"
           \/ phase[c] \in {"running", "applying"} /\ undo[c].by \in {"apply", "mismatch", "engine"}
           \/ phase[c] = "running" /\ undo[c].by \in {"rollback", "drop"}
           \/ phase[c] = "reverting" /\ undo[c].by = "commit"
           \/ phase[c] = "unstating" /\ undo[c].by = "compensate"
           \/ phase[c] = "closing" /\ undo[c].by = "drop"
           \/ phase[c] = "settling" /\ undo[c].by \in {"rollback", "drop"}
    BY <1>2, <1>4 DEF InPlace, InUndo, Calling, Validated
  <2>2. \/ pc'[c] = "undoing" /\ undo'[c].by = undo[c].by
        \/ pc'[c] = "open" /\ undo[c].by \in {"apply", "mismatch", "engine", "commit", "compensate"}
        \/ pc'[c] = "undoing" /\ undo[c].by = "rollback" /\ undo'[c].by = "drop"
        \/ pc'[c] = "idle" /\ undo[c].by \in {"rollback", "drop", "reconcile"}
        \/ pc'[c] = "reconciling" /\ undo[c].by = "reconcile"
    BY <1>4 DEF InUndo
  <2>3. InPlace(phase'[c], pc'[c], undo'[c].by)
    BY <2>1, <2>2 DEF InPlace
  <2> QED BY <1>1, <2>1, <2>3 DEF PlaceInv, GivenUp
<1>5. CASE InReconcile(c)
  <2>1. phase[c] = "recovering"
    BY <1>2, <1>5 DEF InPlace, InReconcile, Calling
  <2>2. InPlace(phase'[c], pc'[c], undo'[c].by)
    BY <1>5, <2>1 DEF InPlace, InReconcile
  <2> QED BY <1>1, <2>1, <2>2 DEF PlaceInv, GivenUp, Validated
<1> QED BY <1>1, <1>3, <1>4, <1>5

(* The steps of the cell itself.                                            *)
LEMMA PlaceOwn ==
    ASSUME CoordInv, CoordInv', NEW c \in Cells, PlaceInv(c), Moves(c), externals' = externals
    PROVE  PlaceInv(c)'
<1>0. /\ InPlace(phase[c], pc[c], undo[c].by)
      /\ pc[c] = "idle" => rec[c] = NoRecord /\ ~settled[c]
      /\ phase[c] \notin {"closing", "done", "crashed"} => outcome[c] = "none"
  BY DEF PlaceInv
<1>1. ASSUME Same(c)
      PROVE  /\ pc'[c] = pc[c] /\ undo'[c] = undo[c] /\ (pc'[c] = "idle" => rec'[c] = NoRecord /\ ~settled'[c])
             /\ StagedValid(c) => StagedValid(c)'
  BY <1>0, <1>1, StagedKept DEF Same, HandleKept
<1>2. CASE MoveIn(c)
  <2>1. phase[c] \in {"new", "loaded"} => pc[c] = "idle"
    BY <1>0 DEF InPlace
  <2> QED BY <1>0, <1>1, <1>2, <2>1 DEF MoveIn, Goes, Quiet, Answers, PlaceInv, InPlace, Validated
<1>3. CASE MoveGuest(c)
  <2>1. phase[c] \in {"running", "applying"} /\ phase'[c] \in {"running", "applying"} /\ outcome'[c] = "none"
    BY <1>0, <1>3 DEF MoveGuest, Goes, Quiet
  <2>2. CASE BeginShape(c)
    BY <1>0, <2>1, <2>2 DEF BeginShape, HandleKept, PlaceInv, InPlace, Validated
  <2>3. CASE PrepareShape(c)
    BY <1>0, <2>1, <2>3 DEF PrepareShape, PlaceInv, InPlace, Validated, Calling
  <2>4. CASE Goes(c, "applying", "running") /\ RollbackShape(c)
    <3>1. /\ pc'[c] = "idle" \/ (pc'[c] = "undoing" /\ undo'[c].by \in {"rollback", "drop"})
          /\ pc'[c] = "idle" => rec'[c] = NoRecord /\ ~settled'[c]
      BY <2>4 DEF RollbackShape, HandleGone, UndoBegins, GivenUp
    <3> QED BY <2>1, <2>4, <3>1 DEF Goes, PlaceInv, InPlace, Validated
  <2>5. CASE Same(c) /\ (phase'[c] = phase[c] \/ pc[c] = "open")
    BY <1>0, <1>1, <2>1, <2>5 DEF PlaceInv, InPlace, Validated
  <2> QED BY <1>3, <2>2, <2>3, <2>4, <2>5 DEF MoveGuest, Goes
<1>4. CASE MoveFinish(c)
  <2>1. phase[c] \in {"running", "stating", "committing"} /\ outcome'[c] = "none"
    BY <1>0, <1>4 DEF MoveFinish, Goes, Quiet
  <2>2. phase[c] \in {"stating", "committing"} => pc[c] \in {"idle", "open"}
    BY <1>0 DEF InPlace, Calling
  <2>3. /\ phase'[c] \in Validated \cup {"failing", "reverting"}
        /\ pc'[c] \in {"idle", "open"} \/ (pc'[c] = "undoing" /\ undo'[c].by = "commit" /\ phase'[c] = "reverting")
        /\ phase'[c] = "reverting" => pc'[c] # "idle"
        /\ pc'[c] = "idle" => rec'[c] = NoRecord /\ ~settled'[c]
    BY <1>1, <1>4, <2>2 DEF MoveFinish, Goes, Returned, Validated, UndoBegins, CommitShape
  <2>4. ASSUME phase'[c] \in Validated, externals = 0 PROVE StagedValid(c)'
    <3>1. CASE phase[c] = "running"
      BY <1>1, <1>4, <2>4, <3>1 DEF MoveFinish, Goes, Validated
    <3>2. CASE phase[c] \in Validated
      <4>1. StagedValid(c)
        BY <2>4, <3>2 DEF PlaceInv
      <4>2. Same(c) \/ CommitShape(c)
        BY <1>4, <2>4 DEF MoveFinish, Goes, Validated
      <4> QED BY <1>1, <4>1, <4>2, StagedKept DEF CommitShape
    <3> QED BY <2>1, <3>1, <3>2 DEF Validated
  <2>5. InPlace(phase'[c], pc'[c], undo'[c].by)
    BY <2>3 DEF InPlace, Validated
  <2> QED BY <2>1, <2>3, <2>4, <2>5 DEF PlaceInv
<1>5. CASE MoveUnwind(c)
  <2>1. phase[c] = "publishing" => pc[c] \in {"idle", "open"}
    BY <1>0 DEF InPlace, Calling
  <2>2. /\ pc'[c] \in {"idle", "open"} \/ (pc'[c] = "undoing" /\ undo'[c].by = "compensate" /\ phase'[c] = "unstating")
        /\ phase'[c] \in {"failing", "closing", "compensating", "unstating"}
        /\ phase'[c] # "closing" => outcome'[c] = "none"
        /\ pc'[c] = "idle" => rec'[c] = NoRecord /\ ~settled'[c]
    BY <1>0, <1>1, <1>5, <2>1 DEF MoveUnwind, Goes, Quiet, Returned, HandleKept
  <2>3. InPlace(phase'[c], pc'[c], undo'[c].by)
    BY <2>2 DEF InPlace
  <2> QED BY <2>2, <2>3 DEF PlaceInv, Validated
<1>6. CASE MoveOut(c)
  <2>1. phase[c] = "logging" => pc[c] = "idle"
    BY <1>0 DEF InPlace
  <2>2. /\ \/ pc'[c] = "idle"
           \/ pc'[c] = "undoing" /\ undo'[c].by = "drop" /\ phase'[c] \in {"closing", "settling"}
           \/ pc'[c] = "undoing" /\ undo'[c].by = "rollback" /\ phase'[c] = "settling"
        /\ phase'[c] \in {"closing", "done", "settling", "logging"}
        /\ phase'[c] \in {"settling", "logging"} => outcome'[c] = "none"
        /\ pc'[c] = "idle" => rec'[c] = NoRecord /\ ~settled'[c]
    BY <1>0, <1>1, <1>6, <2>1 DEF MoveOut, Goes, Quiet, DropShape, RollbackShape, HandleGone, GivenUp, UndoBegins
  <2>3. InPlace(phase'[c], pc'[c], undo'[c].by)
    BY <2>2 DEF InPlace
  <2> QED BY <2>2, <2>3 DEF PlaceInv, Validated
<1>7. CASE MoveAway(c)
  BY <1>7 DEF MoveAway, PlaceInv, InPlace, Validated
<1>8. CASE Waits(c)
  BY <1>0, <1>1, <1>8 DEF Waits, Quiet, PlaceInv
<1>9. CASE CallStep(c) /\ phase'[c] = phase[c] /\ Quiet(c)
  BY <1>9, PlaceCall DEF Quiet
<1> QED BY <1>2, <1>3, <1>4, <1>5, <1>6, <1>7, <1>8, <1>9 DEF Moves

HostInv == CoordInv /\ HostTypeOK /\ \A c \in Cells : PlaceInv(c)

(* A new host.                                                              *)
LEMMA HostInit == CellInit => HostInv
<1> SUFFICES ASSUME CellInit PROVE HostInv
  OBVIOUS
<1>1. HostTypeOK
  BY RootsAssumption DEF CellInit, HostTypeOK, Phases, Outcomes
<1>2. ASSUME NEW c \in Cells PROVE PlaceInv(c)
  BY <1>2 DEF CellInit, Init, PlaceInv, InPlace, Validated
<1> QED BY <1>1, <1>2, CoordInit DEF HostInv

(* Every step of the host is a step of a cell, an edit from outside, or     *)
(* none.                                                                    *)
LEMMA HostSteps ==
    ASSUME [CellNext]_cellVars
    PROVE  \/ \E c \in Cells : CellStep(c)
           \/ /\ UNCHANGED <<journal, pc, rec, settled, undo, faults, hostVars>>
              /\ UNCHANGED <<files, externals>> \/ externals' = externals + 1
BY DEF CellNext, CellStep, ExternalEdit, cellVars, vars

(* Every step of the host keeps the invariant.                              *)
LEMMA HostKeeps == HostInv /\ [CellNext]_cellVars => HostInv'
<1> SUFFICES ASSUME HostInv, [CellNext]_cellVars PROVE HostInv'
  OBVIOUS
<1>1. CoordInv /\ CoordInv' /\ TypeInv /\ HostTypeOK
  BY CoordKeeps DEF HostInv, CoordInv
<1>2. ASSUME NEW c \in Cells, CellStep(c) PROVE HostTypeOK' /\ \A d \in Cells : PlaceInv(d)'
  <2>1. Moves(c) /\ externals' = externals
    BY <1>1, <1>2, StepMoves, StepFaults DEF OneFault
  <2>2. ASSUME NEW d \in Cells PROVE PlaceInv(d)'
    BY <1>1, <1>2, <2>1, PlaceOwn, PlaceOther DEF HostInv
  <2> QED BY <1>1, <1>2, <2>2, HostTypes
<1>3. CASE /\ UNCHANGED <<journal, pc, rec, settled, undo, faults, hostVars>>
           /\ UNCHANGED <<files, externals>> \/ externals' = externals + 1
  <2>1. externals' # 0 \/ UNCHANGED <<files, externals>>
    <3>1. externals + 1 # 0
      BY SMTT(60), <1>1 DEF TypeInv, DiskOK
    <3> QED BY <1>3, <3>1
  <2>2. HostTypeOK'
    BY <1>1, <1>3 DEF HostTypeOK, hostVars
  <2>3. ASSUME NEW d \in Cells PROVE PlaceInv(d)'
    BY <1>3, <2>1 DEF HostInv, PlaceInv, hostVars, StagedValid
  <2> QED BY <1>1, <2>2, <2>3 DEF HostInv
<1> QED BY <1>1, <1>2, <1>3, HostSteps DEF HostInv

-----------------------------------------------------------------------------
(* Failed and Cancelled.                                                    *)

(* A record that reconcile leaves alone although its effects are in place,  *)
(* and one whose effects were.                                              *)
Lasting(s) == s \in {"Committed", "Compensating"}

Early == {"new", "loaded", "recovering", "running", "applying", "stating", "committing"}

(* Why a Failed or Cancelled answer is true: a record gets Committed in     *)
(* commit only, and when that write fails with the record on disk, the undo *)
(* that Drop owes it can no longer fail.                                    *)
NothingInv(c) ==
    LET j == journal[c].state  p == phase[c] IN
    /\ p \in Early => ~Lasting(j)
    /\ p \in Early \ {"recovering"} => ~Lasting(rec[c].state)
    /\ p \in {"reverting", "failing"} /\ Lasting(j) =>
          Spent /\ pc[c] = "open" /\ rec[c].state = "Committed" /\ ~settled[c]
    /\ p = "settling" /\ Lasting(j) => Spent /\ pc[c] = "undoing" /\ undo[c].by = "drop"
    /\ p = "logging" => ~Lasting(j)
    /\ p \in (Early \ {"committing"}) \cup {"failing", "settling", "logging"} => advanced[c] = "none"
    /\ p = "closing" => outcome[c] \in {"Completed", "err"}
    /\ p = "done" /\ outcome[c] \in {"Failed", "Cancelled"} => ~Lasting(j) /\ advanced[c] = "none"

(* With at most one failure, the one that is met is the last.               *)
LEMMA FaultsSpend ==
    ASSUME MaxFaults \in Nat, MaxFaults <= 1, TypeInv, OneFault
    PROVE  (Spent => Spent') /\ (faults' # faults => Spent')
BY SMTT(60) DEF TypeInv, DiskOK, OneFault, Spent

(* The record a rollback publishes is not lasting.                          *)
LEMMA RolledBackIs ==
    ASSUME TypeInv, NEW c \in Cells
    PROVE  /\ RolledBackRecord(c).state \in {"RolledBack", "RecoveryRequired"}
           /\ ~Lasting(RolledBackRecord(c).state)
           /\ rec[c].state \in {"Prepared", "Applying"} /\ ~undo[c].bad =>
                 RolledBackRecord(c).state = "RolledBack"
<1>1. RolledBackRecord(c).state = rollback_state(rec[c].state, undo[c].bad)
  BY DEF RolledBackRecord, TypeInv, CellOK, Record
<1>2. rollback_state(rec[c].state, undo[c].bad) \in {"RolledBack", "RecoveryRequired"}
  BY DEF rollback_state
<1>3. rec[c].state \in {"Prepared", "Applying"} /\ ~undo[c].bad =>
        rollback_state(rec[c].state, undo[c].bad) = "RolledBack"
  BY DEF rollback_state, transition_allowed
<1> QED BY <1>1, <1>2, <1>3 DEF Lasting

(* A step of another cell: reconcile can only end the journal of this one.  *)
LEMMA NothingOther ==
    ASSUME CoordInv, CoordInv', HostTypeOK, NEW c \in Cells, CellStep(c), NEW d \in Cells \ {c},
           NothingInv(d), Spent => Spent'
    PROVE  NothingInv(d)'
<1>1. /\ phase'[d] = phase[d] /\ outcome'[d] = outcome[d] /\ advanced'[d] = advanced[d]
      /\ pc'[d] = pc[d] /\ rec'[d] = rec[d] /\ settled'[d] = settled[d] /\ undo'[d] = undo[d]
      /\ journal'[d] = journal[d] \/ journal'[d].state \in {"none", "RolledBack"}
  BY HostTypes, StepElsewhere DEF HostFrame, Elsewhere
<1>2. Lasting(journal'[d].state) => Lasting(journal[d].state)
  BY <1>1 DEF Lasting
<1> QED BY <1>1, <1>2 DEF NothingInv

(* A step inside a call.                                                    *)
LEMMA NothingCall ==
    ASSUME CoordInv, CoordInv', NEW c \in Cells, PlaceInv(c), NothingInv(c), CallStep(c),
           phase'[c] = phase[c], Quiet(c), Spent => Spent'
    PROVE  NothingInv(c)'
<1>0. /\ TypeInv /\ InPlace(phase[c], pc[c], undo[c].by) /\ outcome'[c] = outcome[c] /\ advanced'[c] = advanced[c]
  BY DEF CoordInv, PlaceInv, Quiet
<1>1. (InApply(c) \/ InUndo(c) \/ InReconcile(c)) /\ GivenUp(c)
  BY CallShapes DEF CallShape
<1>2. CASE InApply(c)
  <2>1. phase[c] \in {"running", "applying"}
    BY <1>0, <1>2 DEF InPlace, InApply, Calling
  <2>2. ~Lasting(journal[c].state) /\ ~Lasting(rec[c].state) /\ advanced[c] = "none"
    BY <2>1 DEF NothingInv, Early
  <2>3. rec'[c].state = rec[c].state \/ rec'[c].state \in {"Prepared", "Applying"}
    BY <1>2 DEF InApply
  <2>4. ~Lasting(rec'[c].state)
    BY <2>2, <2>3 DEF Lasting
  <2>5. journal'[c] = journal[c] \/ journal'[c] = rec'[c]
    BY <1>2 DEF InApply, Puts
  <2>6. ~Lasting(journal'[c].state)
    BY <2>2, <2>4, <2>5
  <2> QED BY <1>0, <2>1, <2>2, <2>4, <2>6 DEF NothingInv, Early
<1>3. CASE InReconcile(c)
  <2>1. phase[c] = "recovering" /\ journal'[c] = journal[c]
    BY <1>0, <1>3 DEF InPlace, InReconcile, Calling
  <2> QED BY <1>0, <2>1 DEF NothingInv, Early
<1>4. CASE InUndo(c)
  <2>1. /\ pc[c] = "undoing"
        /\ \/ phase[c] = "recovering" /\ undo[c].by = "reconcile"
           \/ phase[c] \in {"running", "applying"}
                /\ undo[c].by \in {"apply", "mismatch", "engine", "rollback", "drop"}
           \/ phase[c] = "reverting" /\ undo[c].by = "commit"
           \/ phase[c] \in {"unstating", "closing"} /\ undo[c].by # "reconcile"
           \/ phase[c] = "settling" /\ undo[c].by \in {"rollback", "drop"}
    BY <1>0, <1>4 DEF InPlace, InUndo, Calling
  <2>2. /\ \/ journal'[c] = journal[c]
           \/ journal'[c] = RolledBackRecord(c)
           \/ journal'[c].state \in {"none", "RolledBack"}
        /\ \/ rec'[c].state = rec[c].state
           \/ rec'[c] = RolledBackRecord(c)
           \/ rec'[c] = NoRecord
    BY <1>1, <1>4 DEF InUndo, Puts, GivenUp
  <2>3. ~Lasting(RolledBackRecord(c).state) /\ ~Lasting(NoRecord.state)
    BY <1>0, RolledBackIs DEF NoRecord, Lasting
  <2>4. /\ Lasting(journal'[c].state) => journal'[c] = journal[c] /\ Lasting(journal[c].state)
        /\ Lasting(rec'[c].state) => Lasting(rec[c].state)
    BY <2>2, <2>3 DEF Lasting
  <2>5. CASE phase[c] \in {"recovering", "running", "applying", "unstating", "closing"}
    BY <1>0, <2>4, <2>5 DEF NothingInv, Early
  <2>6. CASE phase[c] = "reverting"
    <3>1. ~Lasting(journal'[c].state)
      BY <2>1, <2>4, <2>6 DEF NothingInv
    <3> QED BY <1>0, <2>6, <3>1 DEF NothingInv, Early
  <2>7. CASE phase[c] = "settling"
    <3>1. ASSUME Lasting(journal'[c].state) PROVE Spent' /\ pc'[c] = "undoing" /\ undo'[c].by = "drop"
      <4>1. Spent /\ undo[c].by = "drop" /\ journal'[c] # RolledBackRecord(c)
        BY <2>3, <2>4, <2>7, <3>1 DEF NothingInv
      <4>2. ~Puts(c, RolledBackRecord(c))
        BY <4>1 DEF Puts, Spent
      <4> QED BY <1>4, <4>1, <4>2 DEF InUndo
    <3> QED BY <1>0, <2>7, <3>1 DEF NothingInv, Early
  <2> QED BY <2>1, <2>5, <2>6, <2>7
<1> QED BY <1>1, <1>2, <1>3, <1>4

(* The steps of the cell itself.                                            *)
LEMMA NothingOwn ==
    ASSUME CoordInv, CoordInv', NEW c \in Cells, PlaceInv(c), NothingInv(c), Moves(c),
           Spent => Spent', faults' # faults => Spent'
    PROVE  NothingInv(c)'
<1>0. /\ TypeInv /\ InPlace(phase[c], pc[c], undo[c].by)
      /\ pc[c] = "idle" => rec[c] = NoRecord
      /\ ~Lasting(NoRecord.state)
  BY DEF CoordInv, PlaceInv, Lasting, NoRecord
<1>1. ASSUME Same(c)
      PROVE  /\ pc'[c] = pc[c] /\ undo'[c] = undo[c] /\ rec'[c] = rec[c] /\ settled'[c] = settled[c]
             /\ journal' = journal
  BY <1>1 DEF Same, HandleKept
<1>2. CASE MoveIn(c)
  <2>1. ~Lasting(journal[c].state) /\ journal' = journal /\ rec'[c] = rec[c] /\ advanced[c] = "none"
    BY <1>1, <1>2 DEF MoveIn, Goes, NothingInv, Early
  <2>2. phase'[c] \in {"loaded", "running"} => ~Lasting(rec[c].state)
    BY <1>0, <1>2 DEF MoveIn, Goes, NothingInv, Early
  <2>3. /\ phase'[c] \in {"loaded", "recovering", "running", "done"}
        /\ advanced'[c] = "none" /\ (phase'[c] = "done" => outcome'[c] = "refused")
    BY <1>2, <2>1 DEF MoveIn, Goes, Quiet, Answers
  <2> QED BY <2>1, <2>2, <2>3 DEF NothingInv, Early
<1>3. CASE MoveGuest(c)
  <2>1. /\ phase[c] \in {"running", "applying"} /\ phase'[c] \in {"running", "applying"}
        /\ advanced'[c] = advanced[c]
    BY <1>3 DEF MoveGuest, Goes, Quiet
  <2>2. ~Lasting(journal[c].state) /\ ~Lasting(rec[c].state) /\ advanced[c] = "none"
    BY <2>1 DEF NothingInv, Early
  <2>3. ~Lasting(journal'[c].state) /\ ~Lasting(rec'[c].state)
    <3>1. CASE BeginShape(c)
      BY <2>2, <3>1 DEF BeginShape, HandleKept, Lasting
    <3>2. CASE PrepareShape(c)
      BY <2>2, <3>2 DEF PrepareShape, Puts, Lasting
    <3>3. CASE RollbackShape(c)
      BY <1>0, <2>2, <3>3 DEF RollbackShape, HandleGone, GivenUp, UndoBegins
    <3>4. CASE Same(c)
      BY <1>1, <2>2, <3>4
    <3> QED BY <1>3, <3>1, <3>2, <3>3, <3>4 DEF MoveGuest
  <2> QED BY <2>1, <2>2, <2>3 DEF NothingInv, Early
<1>4. CASE MoveFinish(c)
  <2>1. phase[c] \in {"running", "stating", "committing"}
    BY <1>4 DEF MoveFinish, Goes
  <2>2. ~Lasting(journal[c].state) /\ ~Lasting(rec[c].state) /\ (phase[c] # "committing" => advanced[c] = "none")
    BY <2>1 DEF NothingInv, Early
  <2>3. CASE CommitShape(c) /\ phase[c] = "committing" /\ reply'[c] = "ok" /\ phase'[c] = "publishing"
    BY <2>3 DEF NothingInv, Early
  <2>4. CASE CommitShape(c) /\ phase[c] = "committing" /\ reply'[c] # "ok" /\ phase'[c] = "reverting"
    <3>1. faults + 1 # faults
      BY SMTT(60), <1>0 DEF TypeInv, DiskOK
    <3>2. Spent' /\ pc'[c] = "open" /\ rec'[c].state = "Committed" /\ ~settled'[c]
      BY <2>4, <3>1 DEF CommitShape
    <3> QED BY <2>4, <3>2 DEF NothingInv, Early
  <2>5. CASE Goes(c, "committing", "reverting") /\ UNCHANGED journal
    BY <2>2, <2>5 DEF Goes, NothingInv, Early
  <2>6. CASE Goes(c, "committing", "publishing")
    BY <2>6 DEF Goes, NothingInv, Early
  <2>7. CASE phase[c] = "running" /\ phase'[c] \in {"failing", "stating", "committing"} /\ Same(c) /\ Quiet(c)
    BY <1>1, <2>2, <2>7 DEF Quiet, NothingInv, Early
  <2>8. CASE Goes(c, "stating", "committing") /\ Same(c)
    BY <1>1, <2>2, <2>8 DEF Goes, NothingInv, Early
  <2>9. CASE Goes(c, "stating", "failing") /\ Same(c) /\ Quiet(c)
    BY <1>1, <2>2, <2>9 DEF Goes, Quiet, NothingInv, Early
  <2> QED BY <1>1, <1>4, <2>3, <2>4, <2>5, <2>6, <2>7, <2>8, <2>9 DEF MoveFinish, Goes
<1>5. CASE MoveUnwind(c)
  <2>1. CASE Goes(c, "reverting", "failing") /\ Same(c) /\ advanced'[c] = "none"
    BY <1>1, <2>1 DEF Goes, NothingInv, Early
  <2>2. CASE phase'[c] = "closing" /\ outcome'[c] \in {"Completed", "err"}
    BY <2>2 DEF NothingInv, Early
  <2>3. CASE phase'[c] \in {"compensating", "unstating"}
    BY <2>3 DEF NothingInv, Early
  <2> QED BY <1>5, <2>1, <2>2, <2>3 DEF MoveUnwind, Goes, Answers
<1>6. CASE MoveOut(c)
  <2>1. CASE phase[c] = "closing" /\ phase'[c] \in {"closing", "done"} /\ Quiet(c)
    BY <2>1 DEF Quiet, NothingInv, Early
  <2>2. CASE Goes(c, "failing", "settling") /\ RollbackShape(c) /\ Quiet(c)
    <3>1. journal' = journal /\ advanced'[c] = "none"
      BY <2>2 DEF RollbackShape, Goes, Quiet, NothingInv
    <3>2. ASSUME Lasting(journal[c].state) PROVE Spent' /\ pc'[c] = "undoing" /\ undo'[c].by = "drop"
      BY <2>2, <3>2 DEF NothingInv, Goes, RollbackShape, UndoBegins
    <3> QED BY <2>2, <3>1, <3>2 DEF Goes, NothingInv, Early
  <2>3. CASE phase[c] \in {"failing", "settling"} /\ phase'[c] = "logging" /\ pc[c] = "idle" /\ Same(c) /\ Quiet(c)
    BY <1>1, <2>3 DEF Quiet, NothingInv, Early
  <2>4. CASE Goes(c, "logging", "done") /\ Same(c) /\ advanced'[c] = advanced[c]
    BY <1>1, <2>4 DEF Goes, NothingInv, Early
  <2> QED BY <1>6, <2>1, <2>2, <2>3, <2>4 DEF MoveOut, Goes
<1>7. CASE MoveAway(c)
  BY <1>7 DEF MoveAway, NothingInv, Early
<1>8. CASE Waits(c)
  BY <1>1, <1>8 DEF Waits, Quiet, NothingInv
<1>9. CASE CallStep(c) /\ phase'[c] = phase[c] /\ Quiet(c)
  BY <1>9, NothingCall
<1> QED BY <1>2, <1>3, <1>4, <1>5, <1>6, <1>7, <1>8, <1>9 DEF Moves

(* When at most one write, sync, restore or engine call of the run fails, a *)
(* Failed or Cancelled response is true: no committed transaction and no    *)
(* moved root of the cell is left.  With two the commit record and the undo *)
(* that Drop owes it can both fail, and the answer is not true any more.    *)
THEOREM FailureLeavesNothingHolds ==
    ASSUME MaxFaults \in Nat, MaxFaults <= 1
    PROVE  CellSpec => []FailureLeavesNothing
<1> DEFINE Inv == HostInv /\ \A c \in Cells : NothingInv(c)
<1>1. CellInit => Inv
  <2>1. ASSUME CellInit, NEW c \in Cells PROVE NothingInv(c)
    BY <2>1 DEF CellInit, Init, NothingInv, Lasting, NoRecord
  <2> QED BY <2>1, HostInit
<1>2. Inv /\ [CellNext]_cellVars => Inv'
  <2> SUFFICES ASSUME Inv, [CellNext]_cellVars PROVE \A d \in Cells : NothingInv(d)'
    BY HostKeeps
  <2>1. CoordInv /\ CoordInv' /\ TypeInv /\ HostTypeOK
    BY CoordKeeps DEF HostInv, CoordInv
  <2>2. ASSUME NEW c \in Cells, CellStep(c), NEW d \in Cells PROVE NothingInv(d)'
    <3>1. Moves(c) /\ OneFault
      BY <2>1, <2>2, StepMoves, StepFaults
    <3>2. (Spent => Spent') /\ (faults' # faults => Spent')
      BY <2>1, <3>1, FaultsSpend
    <3>3. PlaceInv(c) /\ NothingInv(c) /\ NothingInv(d)
      BY DEF HostInv
    <3>4. CASE d = c
      BY <2>1, <3>1, <3>2, <3>3, <3>4, NothingOwn
    <3>5. CASE d # c
      BY <2>1, <2>2, <3>2, <3>3, <3>5, NothingOther
    <3> QED BY <3>4, <3>5
  <2>3. CASE UNCHANGED <<journal, pc, rec, settled, undo, faults, hostVars>>
    BY <2>3 DEF NothingInv, Spent, hostVars
  <2> QED BY <2>2, <2>3, HostSteps
<1>3. Inv => FailureLeavesNothing
  BY DEF NothingInv, Lasting, FailureLeavesNothing
<1> HIDE DEF Inv
<1> QED BY <1>1, <1>2, <1>3, PTL DEF CellSpec

-----------------------------------------------------------------------------
(* Completed.                                                               *)

(* The handle is of a transaction that commit has published.                *)
Kept(c) == pc[c] = "open" => journal[c] = rec[c] /\ rec[c].state = "Committed" /\ settled[c]

(* Why a Completed answer is true when nothing fails: the handle and its    *)
(* journal agree between two calls, and a handle given up before commit was *)
(* rolled back.                                                             *)
TruthInv(c) ==
    LET j == journal[c].state  s == rec[c].state  p == phase[c]  q == pc[c] IN
    /\ ~undo[c].bad
    /\ p \in {"new", "loaded", "recovering"} => j = "none"
    /\ p \in {"running", "applying", "stating", "committing"} =>
         /\ q = "idle" => j \in {"none", "RolledBack"}
         /\ q = "open" => journal[c] = rec[c] /\ s \in {"Prepared", "Applying", "RolledBack"}
         /\ q = "undoing" => s \in {"Prepared", "Applying"} /\ undo[c].by # "drop"
         /\ settled[c] => q = "open" /\ s = "RolledBack"
    /\ p = "publishing" => Kept(c) /\ (q = "idle" => j \in {"none", "RolledBack"})
    /\ outcome[c] = "Completed" =>
         /\ p \in {"closing", "done", "crashed"} /\ q \in {"open", "idle", "crashed"}
         /\ events[c] = "Completed" /\ Kept(c)
         /\ j \in {"none", "Committed", "RolledBack"}

(* A step of another cell: reconcile leaves settled journals alone.         *)
LEMMA TruthOther ==
    ASSUME CoordInv, CoordInv', HostTypeOK, NEW c \in Cells, CellStep(c), NEW d \in Cells \ {c}, TruthInv(d)
    PROVE  TruthInv(d)'
<1>1. /\ phase'[d] = phase[d] /\ outcome'[d] = outcome[d] /\ events'[d] = events[d]
      /\ pc'[d] = pc[d] /\ rec'[d] = rec[d] /\ settled'[d] = settled[d] /\ undo'[d] = undo[d]
      /\ \/ journal'[d] = journal[d]
         \/ /\ pc[d] \in {"idle", "crashed"} /\ journal[d].state \notin {"none", "Committed", "RolledBack"}
            /\ journal'[d].state \in {"none", "RolledBack"}
  BY HostTypes, StepElsewhere DEF HostFrame, Elsewhere, Unfinished
<1>2. CASE journal'[d] = journal[d]
  BY <1>1, <1>2 DEF TruthInv, Kept
<1>3. CASE /\ pc[d] \in {"idle", "crashed"} /\ journal[d].state \notin {"none", "Committed", "RolledBack"}
           /\ journal'[d].state \in {"none", "RolledBack"}
  BY <1>1, <1>3 DEF TruthInv, Kept
<1> QED BY <1>1, <1>2, <1>3

(* A step inside a call.                                                    *)
LEMMA TruthCall ==
    ASSUME CoordInv, CoordInv', NEW c \in Cells, PlaceInv(c), TruthInv(c), CallStep(c),
           phase'[c] = phase[c], Quiet(c), Spent
    PROVE  TruthInv(c)'
<1>0. /\ TypeInv /\ InPlace(phase[c], pc[c], undo[c].by) /\ outcome'[c] = outcome[c]
      /\ phase[c] \notin {"closing", "done", "crashed"} => outcome[c] = "none"
      /\ ~undo[c].bad
  BY DEF CoordInv, PlaceInv, Quiet, TruthInv
<1>1. (InApply(c) \/ InUndo(c) \/ InReconcile(c)) /\ GivenUp(c)
  BY CallShapes DEF CallShape
<1>2. \A r : Puts(c, r) => journal'[c] = r
  BY DEF Puts, Spent
<1>3. CASE InApply(c)
  <2>1. phase[c] \in {"running", "applying"} /\ pc[c] \in Calling
    BY <1>0, <1>3 DEF InPlace, InApply, Calling
  <2>2. rec[c].state = "Applying" /\ ~settled[c] /\ outcome[c] = "none"
    BY <1>0, <2>1 DEF CoordInv, OutcomeInv, Honest, HandleInv, TruthInv, Calling
  <2>3. /\ ~undo'[c].bad /\ ~settled'[c]
        /\ pc'[c] # "idle"
        /\ pc'[c] = "open" => journal'[c] = rec'[c] /\ rec'[c].state \in {"Prepared", "Applying"}
        /\ pc'[c] = "undoing" => rec'[c].state = "Applying" /\ undo'[c].by # "drop"
    BY <1>0, <1>2, <1>3, <2>2 DEF InApply, Calling
  <2> QED BY <1>0, <2>1, <2>2, <2>3 DEF TruthInv
<1>4. CASE InReconcile(c)
  <2>1. phase[c] = "recovering" /\ journal'[c] = journal[c] /\ ~undo'[c].bad
    BY <1>0, <1>4 DEF InPlace, InReconcile, Calling
  <2> QED BY <1>0, <2>1 DEF TruthInv
<1>5. CASE InUndo(c)
  <2>1. ~undo'[c].bad
    BY <1>0, <1>5 DEF InUndo, Spent
  <2>2. CASE phase[c] = "recovering"
    <3>1. pc[c] = "undoing" /\ undo[c].by = "reconcile" /\ journal[c].state = "none"
      BY <1>0, <1>5, <2>2 DEF InUndo, InPlace, TruthInv
    <3>2. undo[c].of # c
      BY <3>1 DEF CoordInv, OutcomeInv, Honest, UndoInv
    <3>3. journal'[c].state = "none"
      BY <1>5, <3>1, <3>2 DEF InUndo
    <3> QED BY <1>0, <2>1, <2>2, <3>3 DEF TruthInv
  <2>3. CASE phase[c] \in {"running", "applying"}
    <3>1. /\ pc[c] = "undoing" /\ rec[c].state \in {"Prepared", "Applying"} /\ ~settled[c]
          /\ undo[c].by \in {"apply", "mismatch", "engine", "rollback"} /\ outcome[c] = "none"
      BY <1>0, <1>5, <2>3 DEF InUndo, InPlace, TruthInv, Calling
    <3>2. RolledBackRecord(c).state = "RolledBack"
      BY <1>0, <3>1, RolledBackIs
    <3>3. \/ pc'[c] = "undoing" /\ rec'[c].state = rec[c].state /\ undo'[c].by = undo[c].by /\ settled'[c] = settled[c]
          \/ pc'[c] = "open" /\ rec'[c] = RolledBackRecord(c) /\ Puts(c, rec'[c])
          \/ pc'[c] = "idle" /\ journal'[c] = RolledBackRecord(c)
      BY <1>5, <3>1 DEF InUndo, Spent
    <3>4. CASE pc'[c] = "undoing" /\ rec'[c].state = rec[c].state /\ undo'[c].by = undo[c].by /\ settled'[c] = settled[c]
      BY <1>0, <2>1, <2>3, <3>1, <3>4 DEF TruthInv
    <3>5. CASE pc'[c] = "open" /\ rec'[c] = RolledBackRecord(c) /\ Puts(c, rec'[c])
      BY <1>0, <1>2, <2>1, <2>3, <3>1, <3>2, <3>5 DEF TruthInv
    <3>6. CASE pc'[c] = "idle" /\ journal'[c] = RolledBackRecord(c)
      BY <1>0, <1>1, <2>1, <2>3, <3>1, <3>2, <3>6 DEF TruthInv, GivenUp
    <3> QED BY <3>3, <3>4, <3>5, <3>6
  <2>4. CASE phase[c] \in {"reverting", "unstating", "closing", "settling"}
    <3>1. outcome[c] # "Completed"
      BY <1>0, <1>5, <2>4 DEF InUndo, TruthInv
    <3> QED BY <1>0, <2>1, <2>4, <3>1 DEF TruthInv
  <2>5. phase[c] \in {"recovering", "running", "applying", "reverting", "unstating", "closing", "settling"}
    BY <1>0, <1>5 DEF InUndo, InPlace, Calling
  <2> QED BY <2>2, <2>3, <2>4, <2>5
<1> QED BY <1>1, <1>3, <1>4, <1>5

(* The steps of the cell itself.                                            *)
LEMMA TruthOwn ==
    ASSUME CoordInv, CoordInv', NEW c \in Cells, PlaceInv(c), TruthInv(c), Moves(c), Spent
    PROVE  TruthInv(c)'
<1>0. /\ InPlace(phase[c], pc[c], undo[c].by) /\ ~undo[c].bad
      /\ pc[c] = "idle" => ~settled[c]
      /\ phase[c] \notin {"closing", "done", "crashed"} => outcome[c] = "none"
  BY DEF PlaceInv, TruthInv
<1>1. ASSUME Same(c)
      PROVE  /\ pc'[c] = pc[c] /\ undo'[c] = undo[c] /\ rec'[c] = rec[c] /\ settled'[c] = settled[c]
             /\ journal' = journal
  BY <1>1 DEF Same, HandleKept
<1>2. CASE MoveIn(c)
  <2>1. /\ journal'[c].state = "none" /\ ~undo'[c].bad /\ outcome'[c] # "Completed"
        /\ phase'[c] \in {"loaded", "recovering", "running", "done"}
        /\ phase'[c] = "running" => pc'[c] = "idle" /\ ~settled'[c]
    BY <1>0, <1>1, <1>2 DEF MoveIn, Goes, Quiet, Answers, TruthInv
  <2> QED BY <2>1 DEF TruthInv
<1>3. CASE MoveGuest(c)
  <2>1. /\ phase[c] \in {"running", "applying"} /\ phase'[c] \in {"running", "applying"}
        /\ outcome'[c] = "none"
    BY <1>0, <1>3 DEF MoveGuest, Goes, Quiet
  <2>2. CASE BeginShape(c)
    <3>1. /\ pc'[c] = "open" /\ journal'[c] = rec'[c] /\ rec'[c].state \in {"Prepared", "Applying"}
          /\ ~settled'[c] /\ ~undo'[c].bad
      BY <1>0, <2>2 DEF BeginShape, Spent
    <3> QED BY <2>1, <3>1 DEF TruthInv
  <2>3. CASE PrepareShape(c)
    <3>1. pc'[c] = "dispatch" /\ ~settled'[c] /\ ~undo'[c].bad
      BY <1>0, <2>3 DEF PrepareShape, Spent
    <3> QED BY <2>1, <3>1 DEF TruthInv
  <2>4. CASE RollbackShape(c)
    <3>1. /\ pc[c] = "open" /\ journal[c] = rec[c] /\ rec[c].state \in {"Prepared", "Applying", "RolledBack"}
          /\ settled[c] => rec[c].state = "RolledBack"
      BY <2>1, <2>4 DEF RollbackShape, TruthInv
    <3>2. \/ pc'[c] = "idle" /\ ~settled'[c] /\ journal'[c].state = "RolledBack" /\ ~undo'[c].bad
          \/ /\ pc'[c] = "undoing" /\ undo'[c].by = "rollback" /\ ~undo'[c].bad /\ ~settled'[c]
             /\ rec'[c].state \in {"Prepared", "Applying"}
      BY <1>0, <2>4, <3>1 DEF RollbackShape, HandleGone, GivenUp, UndoBegins
    <3> QED BY <2>1, <3>2 DEF TruthInv
  <2>5. CASE Same(c)
    BY <1>1, <2>1, <2>5 DEF TruthInv
  <2> QED BY <1>3, <2>2, <2>3, <2>4, <2>5 DEF MoveGuest
<1>4. CASE MoveFinish(c)
  <2>1. phase[c] \in {"running", "stating", "committing"} /\ outcome'[c] = "none"
    BY <1>0, <1>4 DEF MoveFinish, Goes, Quiet
  <2>2. CASE CommitShape(c) /\ (reply'[c] = "ok" => phase'[c] = "publishing")
    <3>1. /\ pc'[c] = "open" /\ journal'[c] = rec'[c] /\ rec'[c].state = "Committed" /\ settled'[c]
          /\ phase'[c] = "publishing" /\ ~undo'[c].bad
      BY <1>0, <2>2 DEF CommitShape, Spent
    <3> QED BY <2>1, <3>1 DEF TruthInv, Kept
  <2>3. CASE Goes(c, "committing", "reverting") /\ UndoBegins(c, "commit")
    BY <2>1, <2>3 DEF Goes, UndoBegins, TruthInv
  <2>4. CASE Same(c) /\ phase'[c] \in {"failing", "reverting", "stating", "committing"}
    BY <1>1, <2>1, <2>4 DEF TruthInv
  <2>5. CASE Goes(c, "committing", "publishing") /\ pc[c] = "idle" /\ Same(c)
    BY <1>1, <2>1, <2>5 DEF Goes, TruthInv, Kept
  <2> QED BY <1>4, <2>2, <2>3, <2>4, <2>5 DEF MoveFinish, Goes
<1>5. CASE MoveUnwind(c)
  <2>1. CASE /\ Goes(c, "publishing", "closing") /\ Same(c)
             /\ Answers(c, "Completed") /\ events'[c] = "Completed"
    <3>1. pc[c] \in {"idle", "open"}
      BY <1>0, <2>1 DEF Goes, InPlace, Calling
    <3>2. Kept(c) /\ (pc[c] = "idle" => journal[c].state \in {"none", "RolledBack"})
      BY <2>1 DEF Goes, TruthInv
    <3>3. journal[c].state \in {"none", "Committed", "RolledBack"}
      BY <3>1, <3>2 DEF Kept
    <3> QED BY <1>0, <1>1, <2>1, <3>1, <3>2, <3>3 DEF Goes, TruthInv, Kept
  <2>2. ASSUME ~undo'[c].bad, outcome'[c] # "Completed",
               phase'[c] \in {"failing", "closing", "compensating", "unstating"}
        PROVE  TruthInv(c)'
    BY <2>2 DEF TruthInv
  <2>3. phase[c] \in {"reverting", "publishing", "compensating", "unstating"} => outcome[c] # "Completed"
    BY <1>0
  <2> QED BY <1>0, <1>1, <1>5, <2>1, <2>2, <2>3 DEF MoveUnwind, Goes, Quiet
<1>6. CASE MoveOut(c)
  <2>1. CASE Goes(c, "closing", "closing") /\ DropShape(c) /\ Quiet(c)
    <3>1. ~undo'[c].bad
      BY <1>0, <2>1 DEF DropShape, HandleGone, UndoBegins
    <3>2. ASSUME outcome[c] = "Completed" PROVE pc'[c] = "idle" /\ journal' = journal
      BY <2>1, <3>2 DEF DropShape, HandleGone, TruthInv, Kept
    <3> QED BY <2>1, <3>1, <3>2 DEF Goes, Quiet, TruthInv, Kept
  <2>2. CASE Goes(c, "closing", "done") /\ Same(c) /\ Quiet(c)
    BY <1>1, <2>2 DEF Goes, Quiet, TruthInv, Kept
  <2>3. CASE Goes(c, "failing", "settling") /\ RollbackShape(c) /\ Quiet(c)
    BY <1>0, <2>3 DEF Goes, Quiet, RollbackShape, HandleGone, UndoBegins, TruthInv
  <2>4. CASE phase[c] \in {"failing", "settling"} /\ phase'[c] = "logging" /\ Same(c) /\ Quiet(c)
    BY <1>0, <1>1, <2>4 DEF Quiet, TruthInv
  <2>5. CASE Goes(c, "logging", "done") /\ Same(c) /\ outcome'[c] # "Completed"
    BY <1>0, <1>1, <2>5 DEF Goes, TruthInv
  <2> QED BY <1>6, <2>1, <2>2, <2>3, <2>4, <2>5 DEF MoveOut, Goes
<1>7. CASE MoveAway(c)
  BY <1>7 DEF MoveAway, Quiet, TruthInv, Kept
<1>8. CASE Waits(c)
  BY <1>1, <1>8 DEF Waits, Quiet, TruthInv, Kept
<1>9. CASE CallStep(c) /\ phase'[c] = phase[c] /\ Quiet(c)
  BY <1>9, TruthCall
<1> QED BY <1>2, <1>3, <1>4, <1>5, <1>6, <1>7, <1>8, <1>9 DEF Moves

(* Whatever is cancelled or crashes, as long as no write fails, a Completed *)
(* response is true: it is in the log, the transaction the cell still holds *)
(* is Committed on disk, one that z.apply undid is RolledBack, and without  *)
(* an edit from outside every receipt is what its file holds when finish    *)
(* publishes the event.  One failing begin is enough to leave an empty      *)
(* Prepared journal behind a completed cell.                                *)
THEOREM CompletionIsTrueHolds ==
    ASSUME MaxFaults = 0
    PROVE  CellSpec => []CompletionIsTrue
<1> DEFINE Inv == HostInv /\ \A c \in Cells : TruthInv(c)
<1>1. CellInit => Inv
  <2>1. ASSUME CellInit, NEW c \in Cells PROVE TruthInv(c)
    BY <2>1 DEF CellInit, Init, TruthInv, NoRecord, NoUndo
  <2> QED BY <2>1, HostInit
<1>2. Inv /\ [CellNext]_cellVars => Inv'
  <2> SUFFICES ASSUME Inv, [CellNext]_cellVars PROVE \A d \in Cells : TruthInv(d)'
    BY HostKeeps
  <2>1. CoordInv /\ CoordInv' /\ TypeInv /\ HostTypeOK
    BY CoordKeeps DEF HostInv, CoordInv
  <2>2. Spent
    BY SMTT(60), <2>1 DEF TypeInv, DiskOK, Spent
  <2>3. ASSUME NEW c \in Cells, CellStep(c), NEW d \in Cells PROVE TruthInv(d)'
    <3>1. Moves(c) /\ PlaceInv(c) /\ TruthInv(c) /\ TruthInv(d)
      BY <2>1, <2>3, StepMoves DEF HostInv
    <3>2. CASE d = c
      BY <2>1, <2>2, <3>1, <3>2, TruthOwn
    <3>3. CASE d # c
      BY <2>1, <2>3, <3>1, <3>3, TruthOther
    <3> QED BY <3>2, <3>3
  <2>4. CASE UNCHANGED <<journal, pc, rec, settled, undo, faults, hostVars>>
    BY <2>4 DEF TruthInv, Kept, hostVars
  <2> QED BY <2>3, <2>4, HostSteps
<1>3. Inv => CompletionIsTrue
  <2> SUFFICES ASSUME Inv, NEW c \in Cells
               PROVE  /\ outcome[c] = "Completed" =>
                            /\ events[c] = "Completed"
                            /\ journal[c].state \in {"none", "Committed", "RolledBack"}
                            /\ pc[c] = "open" => journal[c] = rec[c] /\ rec[c].state = "Committed"
                      /\ phase[c] = "publishing" /\ externals = 0 => StagedValid(c)
    BY DEF CompletionIsTrue
  <2>1. TruthInv(c) /\ PlaceInv(c)
    BY DEF HostInv
  <2> QED BY <2>1 DEF TruthInv, Kept, PlaceInv, Validated
<1> HIDE DEF Inv
<1> QED BY <1>1, <1>2, <1>3, PTL DEF CellSpec
=============================================================================

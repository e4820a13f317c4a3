-------------------------- MODULE TransactionProofs --------------------------
(*****************************************************************************)
(* The type invariant of Transaction, for any cells, sessions, paths,        *)
(* contents and bounds, and the lemmas about records it rests on: the        *)
(* updates the coordinator makes keep a record well formed and keep, or      *)
(* extend, its preimages.  Then write-ahead: the preimage of every byte a    *)
(* cell has changed is in its journal.  What a published record says is true *)
(* of its effects, and the published outcome never goes back.  Last, what a  *)
(* rollback leaves in the files.                                             *)
(*****************************************************************************)
EXTENDS Transaction, TLAPS

(* A leaf is for SMT unless it names Zenon. *)
USE SMTT(60)

-----------------------------------------------------------------------------
(* A list of effects is indexed from 1 to its length.                       *)
LEMMA DomainLen ==
    ASSUME NEW s \in Seq(Effect)
    PROVE  DOMAIN s = 1..Len(s) /\ Len(s) \in Nat
BY SMTT(60)

(* The empty list of effects is a list; any other has an effect.            *)
LEMMA EmptyEffects ==
    /\ <<>> \in Seq(Effect) /\ Len(<<>>) = 0
    /\ \A s \in Seq(Effect) : s # <<>> => Len(s) \in Nat \ {0}
BY SMTT(60)

(* Every position of a list of effects holds an effect.                     *)
LEMMA EffectAt ==
    ASSUME NEW s \in Seq(Effect), NEW i \in 1..Len(s)
    PROVE  s[i] \in Effect
BY SMTT(60)

(* Pushing an effect puts it after the others.                              *)
LEMMA PushedEffect ==
    ASSUME NEW s \in Seq(Effect), NEW e \in Effect
    PROVE  /\ Append(s, e) \in Seq(Effect) /\ Append(s, e) # <<>>
           /\ Len(Append(s, e)) = Len(s) + 1
           /\ \A i \in 1..Len(s) : Append(s, e)[i] = s[i]
           /\ Append(s, e)[Len(s)+1] = e
BY SMTT(60)

(* Replacing an effect keeps the length and the other effects.              *)
LEMMA ReplacedEffect ==
    ASSUME NEW s \in Seq(Effect), NEW i \in 1..Len(s), NEW e \in Effect
    PROVE  /\ [s EXCEPT ![i] = e] \in Seq(Effect)
           /\ Len([s EXCEPT ![i] = e]) = Len(s)
           /\ \A j \in 1..Len(s) : [s EXCEPT ![i] = e][j] = IF j = i THEN e ELSE s[j]
BY SMTT(60)

(* Lists that agree on paths and preimages hold the same preimages.         *)
LEMMA SamePreimages ==
    ASSUME NEW s \in Seq(Effect), NEW t \in Seq(Effect), Len(s) = Len(t),
           \A i \in 1..Len(s) : s[i].path = t[i].path /\ s[i].before = t[i].before
    PROVE  Preimages(s) = Preimages(t)
BY ZenonT(60), DomainLen DEF Preimages

(* Dropping the last preparation loses at most its own preimage.            *)
LEMMA FrontOfEffects ==
    ASSUME NEW s \in Seq(Effect), s # <<>>
    PROVE  /\ Popped(s) \in Seq(Effect) /\ Len(Popped(s)) = Len(s) - 1
           /\ \A j \in 1..Len(s)-1 : Popped(s)[j] = s[j]
           /\ Preimages(s) \subseteq Preimages(Popped(s)) \cup {LastPreimage(s)}
<1>1. Len(s) \in Nat /\ Len(s) > 0 /\ \A j \in 1..Len(s) : s[j] \in Effect
  BY EmptyEffects, EffectAt
<1>2. /\ Popped(s) \in Seq(Effect) /\ Len(Popped(s)) = Len(s) - 1
      /\ \A j \in 1..Len(s)-1 : Popped(s)[j] = s[j]
  <2>1. ASSUME NEW n \in Nat, n < Len(s)
        PROVE  /\ SubSeq(s, 1, n) \in Seq(Effect) /\ Len(SubSeq(s, 1, n)) = n
               /\ \A j \in 1..n : SubSeq(s, 1, n)[j] = s[j]
    BY <2>1
  <2>2. Len(s) - 1 \in Nat /\ Len(s) - 1 < Len(s)
    BY <1>1
  <2> QED BY ZenonT(60), <2>1, <2>2 DEF Popped
<1>3. DOMAIN s = 1..Len(s) /\ DOMAIN Popped(s) = 1..Len(s)-1
  BY <1>2, DomainLen
<1>4. Preimages(s) \subseteq Preimages(Popped(s)) \cup {LastPreimage(s)}
  BY <1>1, <1>2, <1>3 DEF Preimages, LastPreimage
<1> QED BY <1>2, <1>4

(* Pushing a preparation keeps the preimages and adds its own.              *)
LEMMA AppendEffect ==
    ASSUME NEW s \in Seq(Effect), NEW e \in Effect
    PROVE  /\ Append(s, e) \in Seq(Effect) /\ Append(s, e) # <<>>
           /\ Len(Append(s, e)) = Len(s) + 1
           /\ Preimages(s) \subseteq Preimages(Append(s, e))
           /\ Preimages(Popped(Append(s, e))) = Preimages(s)
           /\ LastPreimage(Append(s, e)) = <<e.path, e.before>>
<1> DEFINE t == Append(s, e)
<1>1. /\ t \in Seq(Effect) /\ t # <<>> /\ Len(t) = Len(s) + 1 /\ Len(s) \in Nat
      /\ \A i \in 1..Len(s) : t[i] = s[i]
      /\ t[Len(s)+1] = e
  BY PushedEffect
<1> HIDE DEF t
<1>2. /\ Popped(t) \in Seq(Effect) /\ Len(Popped(t)) = Len(s)
      /\ \A j \in 1..Len(s) : Popped(t)[j] = s[j]
  BY <1>1, FrontOfEffects
<1>3. Preimages(Popped(t)) = Preimages(s)
  BY <1>1, <1>2, SamePreimages
<1>4. Preimages(s) \subseteq Preimages(t)
  BY <1>1, DomainLen DEF Preimages
<1>5. LastPreimage(t) = <<e.path, e.before>>
  BY <1>1 DEF LastPreimage
<1> QED BY <1>1, <1>3, <1>4, <1>5 DEF t

(* Two effects that change the same file in the same way.                   *)
SameChange(e, g) == e.path = g.path /\ e.before = g.before /\ e.after = g.after

(* Marking an effect restored keeps every preimage and the other effects.   *)
LEMMA RestoredRecord ==
    ASSUME NEW r \in Record, NEW i \in 1..Len(r.effects)
    PROVE  LET q == [r EXCEPT !.effects[i].restored = TRUE] IN
           /\ q \in Record /\ q.state = r.state /\ Len(q.effects) = Len(r.effects)
           /\ Preimages(q.effects) = Preimages(r.effects)
           /\ q.effects[i].restored
           /\ \A j \in 1..Len(r.effects) : j # i => q.effects[j] = r.effects[j]
           /\ \A j \in 1..Len(r.effects) : SameChange(q.effects[j], r.effects[j])
<1> DEFINE e == [r.effects[i] EXCEPT !.restored = TRUE]
           t == [r.effects EXCEPT ![i] = e]
           q == [r EXCEPT !.effects[i].restored = TRUE]
<1>1. r.effects \in Seq(Effect) /\ r.effects[i] \in Effect
  BY EffectAt DEF Record
<1>2. /\ e \in Effect /\ e.path = r.effects[i].path /\ e.before = r.effects[i].before
      /\ e.restored /\ SameChange(e, r.effects[i])
  BY ZenonT(60), <1>1 DEF Effect, SameChange
<1>3. /\ t \in Seq(Effect) /\ Len(t) = Len(r.effects)
      /\ \A j \in 1..Len(r.effects) : t[j] = IF j = i THEN e ELSE r.effects[j]
  <2> HIDE DEF e
  <2> QED BY <1>1, <1>2, ReplacedEffect
<1>4. Preimages(t) = Preimages(r.effects)
  <2> HIDE DEF e, t
  <2> QED BY <1>1, <1>2, <1>3, SamePreimages
<1>5. q = [r EXCEPT !.effects = t]
  BY <1>1 DEF Record
<1>6. q \in Record /\ q.state = r.state /\ q.effects = t
  <2> HIDE DEF t
  <2> QED BY <1>3, <1>5 DEF Record
<1> HIDE DEF e, t, q
<1>7. t[i].restored /\ \A j \in 1..Len(r.effects) : j # i => t[j] = r.effects[j]
  BY <1>2, <1>3
<1>8. \A j \in 1..Len(r.effects) : SameChange(t[j], r.effects[j])
  BY <1>2, <1>3 DEF SameChange
<1> QED BY ZenonT(60), <1>3, <1>4, <1>6, <1>7, <1>8 DEF q

(* Adding the receipt of the last effect keeps every preimage, and what is  *)
(* restored.                                                                *)
LEMMA ReceiptRecord ==
    ASSUME NEW r \in Record, r.effects # <<>>
    PROVE  /\ WithReceipt(r) \in Record /\ WithReceipt(r).state = r.state
           /\ Len(WithReceipt(r).effects) = Len(r.effects)
           /\ WithReceipt(r).effects # <<>>
           /\ Preimages(WithReceipt(r).effects) = Preimages(r.effects)
           /\ \A j \in 1..Len(r.effects) :
                /\ WithReceipt(r).effects[j].restored = r.effects[j].restored
                /\ SameChange(WithReceipt(r).effects[j], r.effects[j])
<1> DEFINE i == Len(r.effects)
           e == [r.effects[i] EXCEPT !.receipt = TRUE]
           t == [r.effects EXCEPT ![i] = e]
           q == WithReceipt(r)
<1>0. i \in 1..Len(r.effects)
  BY EmptyEffects DEF Record
<1>1. r.effects \in Seq(Effect) /\ r.effects[i] \in Effect
  BY <1>0, EffectAt DEF Record
<1>2. /\ e \in Effect /\ e.path = r.effects[i].path /\ e.before = r.effects[i].before
      /\ e.restored = r.effects[i].restored /\ SameChange(e, r.effects[i])
  BY ZenonT(60), <1>1 DEF Effect, SameChange
<1>3. /\ t \in Seq(Effect) /\ Len(t) = Len(r.effects)
      /\ \A j \in 1..Len(r.effects) : t[j] = IF j = i THEN e ELSE r.effects[j]
  <2> HIDE DEF e, i
  <2> QED BY <1>0, <1>1, <1>2, ReplacedEffect
<1>4. Preimages(t) = Preimages(r.effects)
  <2> HIDE DEF e, t, i
  <2> QED BY <1>1, <1>2, <1>3, SamePreimages
<1>5. q = [r EXCEPT !.effects = t]
  BY <1>1 DEF Record, WithReceipt
<1>6. q \in Record /\ q.state = r.state /\ q.effects = t
  <2> HIDE DEF t, q
  <2> QED BY <1>3, <1>5 DEF Record
<1>7. t # <<>>
  <2> HIDE DEF t
  <2> QED BY <1>0, <1>3, EmptyEffects
<1>8. \A j \in 1..Len(r.effects) : t[j].restored = r.effects[j].restored
                                 /\ SameChange(t[j], r.effects[j])
  <2> HIDE DEF e, t, i
  <2> QED BY <1>2, <1>3 DEF SameChange
<1> QED BY ZenonT(60), <1>3, <1>4, <1>6, <1>7, <1>8

(* Rewriting the preimage of the last effect keeps all the others, and what *)
(* is restored.                                                             *)
LEMMA BeforeRecord ==
    ASSUME NEW r \in Record, r.effects # <<>>, NEW v \in Image
    PROVE  LET q == [r EXCEPT !.effects[Len(r.effects)].before = v] IN
           /\ q \in Record /\ q.state = r.state /\ q.effects # <<>>
           /\ Len(q.effects) = Len(r.effects)
           /\ \A j \in 1..Len(r.effects) : q.effects[j].restored = r.effects[j].restored
           /\ Preimages(Popped(r.effects)) \subseteq Preimages(q.effects)
<1> DEFINE i == Len(r.effects)
           e == [r.effects[i] EXCEPT !.before = v]
           t == [r.effects EXCEPT ![i] = e]
           q == [r EXCEPT !.effects[Len(r.effects)].before = v]
<1>1. r.effects \in Seq(Effect) /\ i \in 1..Len(r.effects) /\ r.effects[i] \in Effect
  BY EmptyEffects, EffectAt DEF Record
<1>2. e \in Effect /\ e.restored = r.effects[i].restored
  BY <1>1 DEF Effect
<1>3. /\ t \in Seq(Effect) /\ Len(t) = Len(r.effects)
      /\ \A j \in 1..Len(r.effects) : t[j] = IF j = i THEN e ELSE r.effects[j]
  <2> HIDE DEF e, i
  <2> QED BY <1>1, <1>2, ReplacedEffect
<1>4. q = [r EXCEPT !.effects = t]
  BY <1>1 DEF Record
<1>5. q \in Record /\ q.state = r.state /\ q.effects = t /\ t # <<>>
  <2> HIDE DEF t, q
  <2> QED BY ZenonT(60), <1>1, <1>3, <1>4, EmptyEffects DEF Record
<1>6. Preimages(Popped(r.effects)) \subseteq Preimages(t)
  <2>1. /\ Len(Popped(r.effects)) = i - 1 /\ Popped(r.effects) \in Seq(Effect)
        /\ \A j \in 1..i-1 : Popped(r.effects)[j] = r.effects[j]
    BY <1>1, FrontOfEffects
  <2>2. \A j \in 1..i-1 : j \in DOMAIN t /\ t[j] = Popped(r.effects)[j]
    <3>1. DOMAIN t = 1..Len(r.effects)
      <4> HIDE DEF t
      <4> QED BY <1>3, DomainLen
    <3> HIDE DEF t, e
    <3> QED BY <1>1, <1>3, <2>1, <3>1
  <2>3. DOMAIN Popped(r.effects) = 1..i-1
    BY <2>1, DomainLen
  <2> HIDE DEF t, i
  <2> QED BY <2>2, <2>3 DEF Preimages
<1>7. \A j \in 1..Len(r.effects) : t[j].restored = r.effects[j].restored
  <2> HIDE DEF e, t, i
  <2> QED BY <1>2, <1>3
<1> QED BY ZenonT(60), <1>3, <1>5, <1>6, <1>7

-----------------------------------------------------------------------------
(* A leaf is for Zenon unless it names SMT. *)
USE ZenonT(60)

-----------------------------------------------------------------------------
(* The type invariant, with what it needs to be inductive: a cell between   *)
(* ApplyPrepare and the end of apply has a last effect.                     *)

Calling == {"dispatch", "applied", "mismatched", "rejected", "errored", "halfdone"}

DiskOK ==
    /\ files \in [Paths -> Image]
    /\ journal \in [Cells -> Record] /\ poisoned \in [Cells -> Record]
    /\ lease \in Cells \cup {NoCell} /\ cancelled \subseteq Cells
    /\ faults \in Nat /\ crashes \in Nat /\ externals \in Nat
    /\ base \in [Cells -> [Paths -> Image]]
    /\ mutated \in [Cells -> SUBSET (Paths \X Image)]
    /\ leaked \in [Cells -> SUBSET (Paths \X Image)]

CellOK ==
    /\ pc \in [Cells -> Places]
    /\ rec \in [Cells -> Record]
    /\ settled \in [Cells -> BOOLEAN]
    /\ undo \in [Cells -> UndoProgress]
    /\ reply \in [Cells -> Replies]
    /\ \A c \in Cells :
         /\ pc[c] = "undoing" => undo[c].cursor \in 0..Len(rec[c].effects)
         /\ pc[c] \in Calling => rec[c].effects # <<>>
         /\ undo[c].by = "reconcile" => undo[c].of \in Cells

TypeInv == DiskOK /\ CellOK

(* The records and undo states that the coordinator builds have their types.*)
LEMMA Constructors ==
    /\ NoRecord \in Record /\ [state |-> "Prepared", effects |-> <<>>] \in Record
    /\ NoUndo \in UndoProgress
    /\ \A r \in Record : \A s \in States : [r EXCEPT !.state = s] \in Record
    /\ \A from, bad : rollback_state(from, bad) \in {"RolledBack", "RecoveryRequired"}
<1>1. NoRecord \in Record /\ [state |-> "Prepared", effects |-> <<>>] \in Record
  BY EmptyEffects DEF NoRecord, Record, States
<1>2. NoUndo \in UndoProgress
  BY DEF NoUndo, UndoProgress, Callers
<1>3. ASSUME NEW r \in Record, NEW s \in States PROVE [r EXCEPT !.state = s] \in Record
  BY DEF Record
<1>4. \A from, bad : rollback_state(from, bad) \in {"RolledBack", "RecoveryRequired"}
  BY DEF rollback_state
<1> QED BY <1>1, <1>2, <1>3, <1>4

(* persist_record leaves well-formed journals.                              *)
LEMMA PersistType ==
    ASSUME TypeInv, NEW d \in Cells, NEW r \in Record, NEW out \in PersistOutcomes,
           persist_record(d, r, out)
    PROVE  /\ journal' \in [Cells -> Record]
           /\ faults' \in Nat /\ crashes' \in Nat /\ externals' \in Nat
BY SMTT(60) DEF TypeInv, DiskOK, persist_record

(* Giving the handle up leaves the memory of every cell well formed.        *)
LEMMA IdleType ==
    ASSUME TypeInv, NEW c \in Cells, Idle(c), EndUndo(c) \/ UNCHANGED undo,
           reply' \in [Cells -> Replies]
    PROVE  CellOK' /\ lease' \in Cells \cup {NoCell}
<1>1. NoRecord \in Record /\ NoUndo \in UndoProgress /\ NoUndo.by # "reconcile"
  BY Constructors DEF NoUndo
<1>2. CASE EndUndo(c)
  BY <1>1, <1>2 DEF TypeInv, CellOK, Idle, EndUndo, Calling, Places
<1>3. CASE UNCHANGED undo
  BY <1>1, <1>3 DEF TypeInv, CellOK, Idle, Calling, Places
<1> QED BY <1>2, <1>3

(* rollback_record starts with its cursor inside the record.                *)
LEMMA StartUndoType ==
    ASSUME TypeInv, NEW c \in Cells, NEW by \in Callers, NEW of \in Cells, NEW r \in Record,
           StartUndo(c, by, of, r),
           settled' \in [Cells -> BOOLEAN], reply' \in [Cells -> Replies]
    PROVE  CellOK'
<1>1. Len(r.effects) \in Nat
  BY DomainLen DEF Record
<1> DEFINE u == [by |-> by, of |-> of, cursor |-> Len(r.effects), bad |-> FALSE]
<1>2. u \in UndoProgress /\ u.cursor = Len(r.effects) /\ u.of \in Cells
  BY <1>1 DEF UndoProgress
<1>3. undo' = [undo EXCEPT ![c] = u] /\ rec' = [rec EXCEPT ![c] = r]
      /\ pc' = [pc EXCEPT ![c] = "undoing"]
  BY DEF StartUndo
<1> HIDE DEF u
<1> QED BY SMTT(60), <1>1, <1>2, <1>3 DEF TypeInv, CellOK, Calling, Places

(* Dropping a preparation and publishing the rest keeps the types.          *)
LEMMA PopType ==
    ASSUME TypeInv, NEW c \in Cells, rec[c].effects # <<>>, NEW r \in Replies,
           PopAndPersist(c, r)
    PROVE  /\ CellOK' /\ journal' \in [Cells -> Record]
           /\ faults' \in Nat /\ crashes' \in Nat /\ externals' \in Nat
<1> DEFINE es == Popped(rec[c].effects)
           short == [state |-> IF es = <<>> THEN "Prepared" ELSE rec[c].state, effects |-> es]
<1>1. short \in Record
  <2>1. es \in Seq(Effect)
    BY FrontOfEffects DEF TypeInv, CellOK, Record
  <2> HIDE DEF es
  <2> QED BY <2>1 DEF TypeInv, CellOK, Record, States
<1>2. PICK out \in PersistOutcomes :
        /\ persist_record(c, short, out) /\ rec' = [rec EXCEPT ![c] = short]
        /\ Reply(c, IF out = "ok" THEN r ELSE "err")
  BY DEF PopAndPersist
<1>3. pc' = [pc EXCEPT ![c] = "open"] /\ UNCHANGED <<settled, undo>>
  BY DEF PopAndPersist
<1> HIDE DEF short
<1>4. reply' \in [Cells -> Replies]
  BY <1>2 DEF TypeInv, CellOK, Reply, Replies
<1> QED BY <1>1, <1>2, <1>3, <1>4, PersistType DEF TypeInv, CellOK, Calling, Places

(* The initial state satisfies the inductive type invariant.                *)
LEMMA InitType == Init => TypeInv
<1> SUFFICES ASSUME Init PROVE TypeInv
  OBVIOUS
<1>1. NoUndo.by # "reconcile"
  BY DEF NoUndo
<1> QED BY <1>1, Constructors DEF Init, TypeInv, DiskOK, CellOK, Places, Replies, Calling

(* One lemma per kind of step.                                              *)

(* begin keeps the type invariant.                                          *)
LEMMA BeginType ==
    ASSUME TypeInv, NEW c \in Cells,
           BeginFresh(c) \/ BeginAdopt(c) \/ ReconcileStart(c)
    PROVE  TypeInv'
<1>1. CASE BeginFresh(c)
  <2> DEFINE r == [state |-> "Prepared", effects |-> <<>>]
  <2>1. PICK out \in PersistOutcomes :
          /\ persist_record(c, r, out)
          /\ IF out = "ok"
             THEN /\ pc' = [pc EXCEPT ![c] = "open"] /\ rec' = [rec EXCEPT ![c] = r]
                  /\ base' = [base EXCEPT ![c] = files] /\ lease' = c /\ Reply(c, "ok")
             ELSE Reply(c, "err") /\ UNCHANGED <<pc, rec, lease, base>>
    BY <1>1 DEF BeginFresh
  <2>2. UNCHANGED <<files, poisoned, settled, undo, cancelled, mutated, leaked>>
    BY <1>1 DEF BeginFresh
  <2>3. r \in Record
    BY Constructors
  <2> HIDE DEF r
  <2>4. CASE out = "ok"
    <3>1. DiskOK'
      BY <2>1, <2>2, <2>3, <2>4, PersistType DEF TypeInv, DiskOK
    <3>2. CellOK'
      BY SMTT(60), <2>1, <2>2, <2>3, <2>4 DEF TypeInv, CellOK, Reply, Replies, Calling, Places
    <3> QED BY <3>1, <3>2 DEF TypeInv
  <2>5. CASE out # "ok"
    BY <2>1, <2>2, <2>3, <2>5, PersistType
    DEF TypeInv, DiskOK, CellOK, Reply, Replies, Calling, Places
  <2> QED BY <2>4, <2>5
<1>2. CASE BeginAdopt(c)
  BY <1>2 DEF BeginAdopt, TypeInv, DiskOK, CellOK, Reply, Replies, Calling, Places, budgets
<1>3. CASE ReconcileStart(c)
  BY <1>3 DEF ReconcileStart, TypeInv, DiskOK, CellOK, Reply, Replies, Calling, Places,
              budgets, history
<1> QED BY <1>1, <1>2, <1>3

(* Publishing a preparation keeps the type invariant.                       *)
LEMMA PrepareType ==
    ASSUME TypeInv, NEW c \in Cells, NEW q \in Requests, ApplyPrepare(c, q)
    PROVE  TypeInv'
<1> DEFINE e == [path |-> q.path, kind |-> q.kind, before |-> files[q.path],
                 after |-> q.after, receipt |-> FALSE, restored |-> FALSE]
           r == [state |-> "Applying", effects |-> Append(rec[c].effects, e)]
<1>1. e \in Effect
  BY DEF Requests, Effect, TypeInv, DiskOK
<1>2. r \in Record /\ r.effects # <<>>
  <2> HIDE DEF e
  <2> QED BY <1>1, AppendEffect DEF TypeInv, CellOK, Record, States
<1>3. PICK out \in PersistOutcomes :
        /\ persist_record(c, r, out) /\ rec' = [rec EXCEPT ![c] = r]
        /\ IF out = "ok" THEN pc' = [pc EXCEPT ![c] = "dispatch"] /\ UNCHANGED reply
                         ELSE Reply(c, "err") /\ UNCHANGED pc
  BY DEF ApplyPrepare
<1>4. pc[c] = "open" /\ UNCHANGED <<files, poisoned, lease, settled, undo, cancelled, history>>
  BY DEF ApplyPrepare
<1> HIDE DEF r
<1> QED BY <1>2, <1>3, <1>4, PersistType
        DEF TypeInv, DiskOK, CellOK, Reply, Replies, Calling, Places, history

(* FileEngine::apply keeps the type invariant.                              *)
LEMMA EngineType ==
    ASSUME TypeInv, NEW c \in Cells, EngineApply(c)
    PROVE  TypeInv'
<1> DEFINE n == Len(rec[c].effects)
           e == rec[c].effects[n]
           r == [rec[c] EXCEPT !.effects[Len(rec[c].effects)].before = files[e.path]]
<1>1. pc[c] = "dispatch" /\ rec[c] \in Record /\ rec[c].effects # <<>>
      /\ UNCHANGED <<journal, poisoned, lease, settled, undo, reply, cancelled>>
  BY DEF EngineApply, TypeInv, CellOK, Calling
<1>2. e \in Effect
  BY SMTT(60), <1>1, EmptyEffects, EffectAt DEF Record
<1>3. e.path \in Paths /\ files[e.path] \in Image /\ e.after \in Image
  BY <1>2 DEF Effect, TypeInv, DiskOK
<1>4. r \in Record /\ r.effects # <<>>
  BY <1>1, <1>3, BeforeRecord
<1>5. /\ \/ UNCHANGED <<files, mutated>>
         \/ /\ files' = [files EXCEPT ![e.path] = e.after]
            /\ mutated' = [mutated EXCEPT ![c] = @ \cup {<<e.path, files[e.path]>>}]
      /\ \/ UNCHANGED leaked
         \/ leaked' = [leaked EXCEPT ![c] = @ \cup {<<e.path, files[e.path]>>}]
      /\ \/ UNCHANGED rec
         \/ rec' = [rec EXCEPT ![c] = r]
      /\ \/ UNCHANGED faults
         \/ faults' = faults + 1
      /\ UNCHANGED <<crashes, externals, base>>
      /\ \E p \in Calling : pc' = [pc EXCEPT ![c] = p]
  BY DEF EngineApply, Mutate, Calling, budgets, history
<1> HIDE DEF r, e
<1>6. DiskOK'
  <2>1. \A S \in SUBSET (Paths \X Image) :
          S \cup {<<e.path, files[e.path]>>} \in SUBSET (Paths \X Image)
    BY SMTT(60), <1>3
  <2>2. mutated' \in [Cells -> SUBSET (Paths \X Image)]
    BY SMTT(60), <1>5, <2>1 DEF TypeInv, DiskOK
  <2>3. leaked' \in [Cells -> SUBSET (Paths \X Image)]
    BY SMTT(60), <1>5, <2>1 DEF TypeInv, DiskOK
  <2>4. files' \in [Paths -> Image] /\ faults' \in Nat
    BY SMTT(60), <1>3, <1>5 DEF TypeInv, DiskOK
  <2> QED BY <1>1, <1>5, <2>2, <2>3, <2>4 DEF TypeInv, DiskOK
<1>7. CellOK'
  BY SMTT(60), <1>1, <1>4, <1>5 DEF TypeInv, CellOK, Calling, Places
<1> QED BY <1>6, <1>7 DEF TypeInv

(* The five ends of apply keep the type invariant.                          *)
LEMMA ApplyEndType ==
    ASSUME TypeInv, NEW c \in Cells,
           \/ ApplyCancelled(c) \/ ApplyAccepted(c) \/ ApplyMismatch(c)
           \/ ApplyRejected(c) \/ ApplyErrored(c)
    PROVE  TypeInv'
<1>1. /\ pc[c] \in Calling /\ rec[c].effects # <<>> /\ rec[c] \in Record
      /\ WithReceipt(rec[c]) \in Record
  <2>1. pc[c] \in Calling
    BY DEF ApplyCancelled, ApplyAccepted, ApplyMismatch, ApplyRejected, ApplyErrored, Calling
  <2> QED BY <2>1, ReceiptRecord DEF TypeInv, CellOK
<1>2. {"apply", "mismatch", "engine"} \subseteq Callers /\ {"ok", "err", "cancelled"} \subseteq Replies
  BY DEF Callers, Replies
<1>3. CASE ApplyCancelled(c)
  BY <1>1, <1>2, <1>3, PopType DEF ApplyCancelled, PopAndPersist, TypeInv, DiskOK, history
<1>4. CASE ApplyRejected(c)
  BY <1>1, <1>2, <1>4, PopType DEF ApplyRejected, PopAndPersist, TypeInv, DiskOK, history
<1>5. CASE ApplyMismatch(c)
  <2>1. CellOK'
    BY <1>1, <1>2, <1>5, StartUndoType DEF ApplyMismatch, TypeInv, CellOK
  <2> QED BY <1>5, <2>1 DEF ApplyMismatch, TypeInv, DiskOK, history, budgets
<1>6. CASE ApplyAccepted(c)
  <2> DEFINE r == WithReceipt(rec[c])
  <2>1. UNCHANGED <<files, poisoned, lease, settled, cancelled, history>>
    BY <1>6 DEF ApplyAccepted
  <2>2. CASE StartUndo(c, "apply", c, r) /\ UNCHANGED <<journal, reply, budgets>>
    <3>1. CellOK'
      BY <1>1, <1>2, <2>1, <2>2, StartUndoType DEF TypeInv, CellOK
    <3> QED BY <2>1, <2>2, <3>1 DEF TypeInv, DiskOK, history, budgets
  <2>3. CASE /\ \E out \in PersistOutcomes :
                  persist_record(c, r, out) /\ Reply(c, IF out = "ok" THEN "ok" ELSE "err")
             /\ rec' = [rec EXCEPT ![c] = r]
             /\ pc' = [pc EXCEPT ![c] = "open"]
             /\ UNCHANGED undo
    <3>1. PICK out \in PersistOutcomes :
            persist_record(c, r, out) /\ Reply(c, IF out = "ok" THEN "ok" ELSE "err")
      BY <2>3
    <3>2. DiskOK'
      BY <1>1, <2>1, <3>1, PersistType DEF TypeInv, DiskOK, history
    <3>3. CellOK'
      BY <1>1, <2>1, <2>3, <3>1 DEF TypeInv, CellOK, Reply, Replies, Calling, Places
    <3> QED BY <3>2, <3>3 DEF TypeInv
  <2> QED BY <1>6, <2>2, <2>3 DEF ApplyAccepted
<1>7. CASE ApplyErrored(c)
  <2>1. CASE /\ PopAndPersist(c, "cancelled")
             /\ leaked' = IF pc[c] = "errored" THEN leaked
                          ELSE [leaked EXCEPT ![c] = @ \cup {LastPreimage(rec[c].effects)}]
             /\ UNCHANGED <<base, mutated>>
    <3>1. LastPreimage(rec[c].effects) \in Paths \X Image
      <4>1. rec[c].effects[Len(rec[c].effects)] \in Effect
        BY SMTT(60), <1>1, EmptyEffects, EffectAt DEF Record
      <4> QED BY <4>1 DEF LastPreimage, Effect
    <3>2. leaked' \in [Cells -> SUBSET (Paths \X Image)]
      BY <2>1, <3>1 DEF TypeInv, DiskOK
    <3>3. UNCHANGED <<files, poisoned, lease, cancelled>>
      BY <2>1 DEF PopAndPersist
    <3> QED BY <1>1, <1>2, <2>1, <3>2, <3>3, PopType DEF TypeInv, DiskOK
  <2>2. CASE /\ StartUndo(c, "engine", c, rec[c])
             /\ UNCHANGED <<files, journal, poisoned, lease, settled, reply,
                            cancelled, budgets, history>>
    <3>1. CellOK'
      BY <1>1, <1>2, <2>2, StartUndoType DEF TypeInv, CellOK
    <3> QED BY <2>2, <3>1 DEF TypeInv, DiskOK, history, budgets
  <2> QED BY <1>7, <2>1, <2>2 DEF ApplyErrored
<1> QED BY <1>3, <1>4, <1>5, <1>6, <1>7

(* One restore of rollback_record keeps the type invariant.                 *)
LEMMA RestoreType ==
    ASSUME TypeInv, NEW c \in Cells, RestoreStep(c)
    PROVE  TypeInv'
<1> DEFINE i == undo[c].cursor
           e == rec[c].effects[i]
           r == [rec[c] EXCEPT !.effects[i].restored = TRUE]
<1>1. /\ pc[c] = "undoing" /\ rec[c] \in Record /\ i \in 1..Len(rec[c].effects)
      /\ UNCHANGED <<journal, poisoned, lease, pc, settled, reply, cancelled,
                     crashes, externals, history>>
  <2>1. rec[c] \in Record /\ rec[c].effects \in Seq(Effect) /\ undo[c] \in UndoProgress
    BY DEF TypeInv, CellOK, Record
  <2>2. pc[c] = "undoing" /\ undo[c].cursor > 0 /\ undo[c].cursor \in 0..Len(rec[c].effects)
    BY DEF RestoreStep, TypeInv, CellOK
  <2>3. i \in 1..Len(rec[c].effects)
    BY SMTT(60), <2>1, <2>2, DomainLen
  <2> QED BY <2>1, <2>2, <2>3 DEF RestoreStep
<1>2. e \in Effect
  BY <1>1, EffectAt DEF Record
<1>3. r \in Record /\ Len(r.effects) = Len(rec[c].effects)
  BY <1>1, RestoredRecord
<1>4. /\ \/ UNCHANGED files
         \/ files' = [files EXCEPT ![e.path] = e.before]
      /\ \/ UNCHANGED rec
         \/ rec' = [rec EXCEPT ![c] = r]
      /\ \/ UNCHANGED faults
         \/ faults' = faults + 1
      /\ \/ undo' = [undo EXCEPT ![c].cursor = i - 1]
         \/ undo' = [undo EXCEPT ![c].cursor = i - 1, ![c].bad = TRUE]
  BY DEF RestoreStep
<1> HIDE DEF r, e
<1>5. DiskOK'
  <2>1. files \in [Paths -> Image] /\ faults \in Nat
    BY DEF TypeInv, DiskOK
  <2>2. e.before \in Image
    BY <1>2 DEF Effect
  <2>3. files' \in [Paths -> Image]
    BY ZenonT(60), <1>4, <2>1, <2>2
  <2>4. faults' \in Nat
    BY SMTT(60), <1>4, <2>1
  <2> QED BY ZenonT(60), <1>1, <2>3, <2>4 DEF TypeInv, DiskOK, history
<1>6. /\ undo' \in [Cells -> UndoProgress] /\ undo'[c].cursor = i - 1
      /\ undo'[c].of = undo[c].of /\ undo'[c].by = undo[c].by
      /\ \A d \in Cells \ {c} : undo'[d] = undo[d]
  <2> DEFINE u == [undo[c] EXCEPT !.cursor = i - 1]
             v == [undo[c] EXCEPT !.cursor = i - 1, !.bad = TRUE]
  <2>1. undo[c] \in UndoProgress /\ i - 1 \in Nat
    BY SMTT(60), <1>1, DomainLen DEF TypeInv, CellOK, Record
  <2>2. /\ u \in UndoProgress /\ u.cursor = i - 1 /\ u.of = undo[c].of /\ u.by = undo[c].by
        /\ v \in UndoProgress /\ v.cursor = i - 1 /\ v.of = undo[c].of /\ v.by = undo[c].by
    BY <2>1 DEF UndoProgress
  <2>3. undo' = [undo EXCEPT ![c] = u] \/ undo' = [undo EXCEPT ![c] = v]
    BY <1>4 DEF TypeInv, CellOK
  <2> HIDE DEF u, v
  <2> QED BY <2>2, <2>3 DEF TypeInv, CellOK
<1>7. CellOK'
  BY SMTT(60), <1>1, <1>3, <1>4, <1>6 DEF TypeInv, CellOK, Calling
<1> QED BY <1>5, <1>7 DEF TypeInv

(* The record rollback_record leaves is a record.                           *)
LEMMA RolledBackType ==
    ASSUME TypeInv, NEW c \in Cells
    PROVE  /\ RolledBackRecord(c) \in Record
           /\ RolledBackRecord(c).effects = rec[c].effects
           /\ RolledBackRecord(c).state \in {"RolledBack", "RecoveryRequired"}
<1>1. rec[c] \in Record
  BY DEF TypeInv, CellOK
<1>2. rollback_state(rec[c].state, undo[c].bad) \in {"RolledBack", "RecoveryRequired"}
  BY Constructors
<1> QED BY <1>1, <1>2 DEF RolledBackRecord, Record, States

(* The ends of a rollback keep the type invariant.                          *)
LEMMA UndoneType ==
    ASSUME TypeInv, NEW c \in Cells,
           UndoneInCall(c) \/ UndoneInRollback(c) \/ UndoneInDrop(c)
    PROVE  TypeInv'
<1> DEFINE r == RolledBackRecord(c)
<1>1. r \in Record
  BY RolledBackType
<1>2. NoUndo \in UndoProgress /\ NoUndo.by # "reconcile"
  BY Constructors DEF NoUndo
<1> HIDE DEF r
<1>3. CASE UndoneInCall(c)
  <2>1. PICK out \in PersistOutcomes : persist_record(c, r, out) /\ \E x \in Replies : Reply(c, x)
    BY <1>3 DEF UndoneInCall, Replies, r
  <2>2. /\ rec' = [rec EXCEPT ![c] = r] /\ pc' = [pc EXCEPT ![c] = "open"] /\ EndUndo(c)
        /\ UNCHANGED <<files, poisoned, lease, cancelled, history>>
    BY <1>3 DEF UndoneInCall, r
  <2>3. settled' \in [Cells -> BOOLEAN]
    BY <1>3 DEF UndoneInCall, TypeInv, CellOK
  <2>4. DiskOK'
    BY <1>1, <2>1, <2>2, PersistType DEF TypeInv, DiskOK, history
  <2>5. CellOK'
    <3>1. reply' \in [Cells -> Replies]
      BY <2>1 DEF TypeInv, CellOK, Reply
    <3>2. undo' = [undo EXCEPT ![c] = NoUndo]
      BY <2>2 DEF EndUndo
    <3> QED BY <1>1, <1>2, <2>2, <2>3, <3>1, <3>2 DEF TypeInv, CellOK, Calling, Places
  <2> QED BY <2>4, <2>5 DEF TypeInv
<1>4. CASE UndoneInRollback(c)
  <2>1. PICK out \in PersistOutcomes :
          /\ persist_record(c, r, out)
          /\ \E x \in Replies : Reply(c, x)
          /\ \/ Idle(c) /\ EndUndo(c)
             \/ StartUndo(c, "drop", c, r) /\ UNCHANGED <<settled, lease>>
    BY <1>4 DEF UndoneInRollback, Replies, r
  <2>2. UNCHANGED <<files, poisoned, cancelled, history>>
    BY <1>4 DEF UndoneInRollback
  <2>3. reply' \in [Cells -> Replies]
    BY <2>1 DEF TypeInv, CellOK, Reply
  <2>4. CellOK' /\ lease' \in Cells \cup {NoCell}
    <3>1. CASE Idle(c) /\ EndUndo(c)
      BY <2>3, <3>1, IdleType
    <3>2. CASE StartUndo(c, "drop", c, r) /\ UNCHANGED <<settled, lease>>
      BY <1>1, <2>3, <3>2, StartUndoType DEF Callers, TypeInv, CellOK, DiskOK
    <3> QED BY <2>1, <3>1, <3>2
  <2> QED BY <1>1, <2>1, <2>2, <2>4, PersistType DEF TypeInv, DiskOK, history
<1>5. CASE UndoneInDrop(c)
  <2>1. PICK out \in PersistOutcomes : persist_record(c, r, out)
    BY <1>5 DEF UndoneInDrop, r
  <2>2. Idle(c) /\ EndUndo(c) /\ UNCHANGED <<files, poisoned, reply, cancelled, history>>
    BY <1>5 DEF UndoneInDrop
  <2>3. CellOK' /\ lease' \in Cells \cup {NoCell}
    BY <2>2, IdleType DEF TypeInv, CellOK
  <2> QED BY <1>1, <2>1, <2>2, <2>3, PersistType DEF TypeInv, DiskOK, history
<1> QED BY <1>3, <1>4, <1>5

(* rollback and Drop keep the type invariant.                               *)
LEMMA EndHandleType ==
    ASSUME TypeInv, NEW c \in Cells, Rollback(c) \/ Drop(c) \/ CommitCancelled(c)
    PROVE  TypeInv'
<1>1. /\ UNCHANGED <<files, journal, poisoned, cancelled, budgets, history>>
      /\ UNCHANGED reply \/ \E x \in Replies : Reply(c, x)
      /\ \/ Idle(c) /\ UNCHANGED undo
         \/ /\ \E by \in Callers : StartUndo(c, by, c, rec[c])
            /\ UNCHANGED <<settled, lease>>
  BY DEF Rollback, Drop, CommitCancelled, Callers, Replies
<1>2. reply' \in [Cells -> Replies]
  BY <1>1 DEF TypeInv, CellOK, Reply
<1>3. CellOK' /\ lease' \in Cells \cup {NoCell}
  <2>1. CASE Idle(c) /\ UNCHANGED undo
    BY <1>2, <2>1, IdleType
  <2>2. CASE (\E by \in Callers : StartUndo(c, by, c, rec[c])) /\ UNCHANGED <<settled, lease>>
    <3>1. rec[c] \in Record /\ settled' \in [Cells -> BOOLEAN] /\ lease' \in Cells \cup {NoCell}
      BY <2>2 DEF TypeInv, CellOK, DiskOK
    <3> QED BY <1>2, <2>2, <3>1, StartUndoType
  <2> QED BY <1>1, <2>1, <2>2
<1> QED BY <1>1, <1>3 DEF TypeInv, DiskOK, budgets, history

(* commit and compensate_committed keep the type invariant.                 *)
LEMMA CommitType ==
    ASSUME TypeInv, NEW c \in Cells, CommitAgain(c) \/ CommitPublish(c) \/ Compensate(c)
    PROVE  TypeInv'
<1>1. rec[c] \in Record /\ {"ok", "err"} \subseteq Replies /\ pc[c] = "open"
  BY DEF TypeInv, CellOK, Replies, CommitAgain, CommitPublish, Compensate
<1>2. CASE CommitAgain(c)
  BY <1>1, <1>2 DEF CommitAgain, TypeInv, DiskOK, CellOK, Reply, Calling, budgets, history
<1>3. CASE CommitPublish(c)
  <2> DEFINE r == [rec[c] EXCEPT !.state = "Committed"]
  <2>1. r \in Record
    BY <1>1, Constructors DEF States
  <2>2. PICK out \in PersistOutcomes :
          /\ persist_record(c, r, out)
          /\ settled' = [settled EXCEPT ![c] = out = "ok"]
          /\ Reply(c, IF out = "ok" THEN "ok" ELSE "err")
    BY <1>3 DEF CommitPublish
  <2>3. rec' = [rec EXCEPT ![c] = r]
        /\ UNCHANGED <<files, poisoned, lease, pc, undo, cancelled, history>>
    BY <1>3 DEF CommitPublish
  <2> HIDE DEF r
  <2>4. settled' \in [Cells -> BOOLEAN] /\ reply' \in [Cells -> Replies]
    BY <1>1, <2>2 DEF TypeInv, CellOK, Reply
  <2>5. DiskOK'
    BY <2>1, <2>2, <2>3, PersistType DEF TypeInv, DiskOK, history
  <2>6. CellOK'
    BY <1>1, <2>1, <2>3, <2>4 DEF TypeInv, CellOK, Calling
  <2> QED BY <2>5, <2>6 DEF TypeInv
<1>4. CASE Compensate(c)
  <2> DEFINE r == [rec[c] EXCEPT !.state = "Compensating"]
  <2>1. r \in Record
    BY <1>1, Constructors DEF States
  <2>2. PICK out \in PersistOutcomes :
          /\ persist_record(c, r, out)
          /\ \/ /\ StartUndo(c, "compensate", c, r)
                /\ settled' = [settled EXCEPT ![c] = FALSE] /\ UNCHANGED reply
             \/ Reply(c, "err") /\ UNCHANGED <<rec, undo, pc, settled>>
    BY <1>4 DEF Compensate
  <2>3. UNCHANGED <<files, poisoned, lease, cancelled, history>>
    BY <1>4 DEF Compensate
  <2> HIDE DEF r
  <2>4. DiskOK'
    BY <2>1, <2>2, <2>3, PersistType DEF TypeInv, DiskOK, history
  <2>5. CASE StartUndo(c, "compensate", c, r)
             /\ settled' = [settled EXCEPT ![c] = FALSE] /\ UNCHANGED reply
    <3>1. settled' \in [Cells -> BOOLEAN] /\ reply' \in [Cells -> Replies]
      BY <2>5 DEF TypeInv, CellOK
    <3> QED BY <2>1, <2>4, <2>5, <3>1, StartUndoType DEF Callers, TypeInv
  <2>6. CASE Reply(c, "err") /\ UNCHANGED <<rec, undo, pc, settled>>
    BY <1>1, <2>4, <2>6 DEF TypeInv, CellOK, Reply
  <2> QED BY <2>2, <2>5, <2>6
<1> QED BY <1>2, <1>3, <1>4

(* reconcile keeps the type invariant.                                      *)
LEMMA ReconcileType ==
    ASSUME TypeInv, NEW c \in Cells,
           ReconcileNext(c) \/ UndoneInReconcile(c) \/ ReconcileEnd(c)
    PROVE  TypeInv'
<1>1. CASE ReconcileNext(c)
  <2>1. PICK d \in Cells : StartUndo(c, "reconcile", d, journal[d])
    BY <1>1 DEF ReconcileNext, Pending
  <2>2. UNCHANGED <<files, journal, poisoned, lease, settled, reply, cancelled, budgets, history>>
    BY <1>1 DEF ReconcileNext
  <2>3. CellOK'
    BY <2>1, <2>2, StartUndoType DEF Callers, TypeInv, CellOK, DiskOK
  <2> QED BY <2>2, <2>3 DEF TypeInv, DiskOK, budgets, history
<1>2. CASE UndoneInReconcile(c)
  <2> DEFINE d == undo[c].of
             r == RolledBackRecord(c)
  <2>1. d \in Cells /\ r \in Record /\ journal[d] \in Record
    BY <1>2, RolledBackType DEF UndoneInReconcile, TypeInv, CellOK, DiskOK
  <2>2. NoRecord \in Record /\ NoUndo \in UndoProgress /\ NoUndo.by # "reconcile"
    BY Constructors DEF NoUndo
  <2> HIDE DEF d, r
  <2>3. EndUndo(c) /\ UNCHANGED <<files, cancelled, crashes, externals, base, mutated>>
    BY <1>2 DEF UndoneInReconcile
  <2>4. /\ UNCHANGED reply \/ Reply(c, "err")
        /\ \/ Idle(c)
           \/ /\ pc' = [pc EXCEPT ![c] = "reconciling"]
              /\ rec' = [rec EXCEPT ![c] = NoRecord] /\ UNCHANGED <<settled, lease>>
    BY <1>2 DEF UndoneInReconcile
  <2>5. \/ \E x \in Record : Quarantine(d, x)
        \/ UNCHANGED <<journal, poisoned, leaked>>
        \/ (\E out \in PersistOutcomes : persist_record(d, r, out)) /\ UNCHANGED <<poisoned, leaked>>
    BY <1>2, <2>1 DEF UndoneInReconcile, d, r
  <2>6. faults' \in Nat
    BY SMTT(60), <1>2 DEF UndoneInReconcile, persist_record, TypeInv, DiskOK
  <2>7. /\ journal' \in [Cells -> Record] /\ poisoned' \in [Cells -> Record]
        /\ leaked' \in [Cells -> SUBSET (Paths \X Image)]
    <3>1. CASE \E x \in Record : Quarantine(d, x)
      <4>1. Preimages(poisoned[d].effects) \subseteq Paths \X Image
        <5>1. poisoned[d].effects \in Seq(Effect)
          BY <2>1 DEF TypeInv, DiskOK, Record
        <5>2. \A i \in DOMAIN poisoned[d].effects : poisoned[d].effects[i] \in Effect
          BY <5>1, DomainLen, EffectAt
        <5> QED BY SMTT(60), <5>2 DEF Preimages, Effect
      <4>2. leaked' \in [Cells -> SUBSET (Paths \X Image)]
        BY SMTT(60), <2>1, <3>1, <4>1 DEF Quarantine, TypeInv, DiskOK
      <4>3. journal' \in [Cells -> Record] /\ poisoned' \in [Cells -> Record]
        <5>1. PICK x \in Record : Quarantine(d, x)
          BY <3>1
        <5> QED BY SMTT(60), <2>1, <2>2, <5>1, Constructors DEF Quarantine, TypeInv, DiskOK
      <4> QED BY <4>2, <4>3
    <3>2. CASE UNCHANGED <<journal, poisoned, leaked>>
      BY <3>2 DEF TypeInv, DiskOK
    <3>3. CASE (\E out \in PersistOutcomes : persist_record(d, r, out)) /\ UNCHANGED <<poisoned, leaked>>
      BY <2>1, <3>3, PersistType DEF TypeInv, DiskOK
    <3> QED BY <2>5, <3>1, <3>2, <3>3
  <2>8. reply' \in [Cells -> Replies]
    BY <2>4 DEF Reply, Replies, TypeInv, CellOK
  <2>9. CellOK' /\ lease' \in Cells \cup {NoCell}
    <3>1. CASE Idle(c)
      BY <2>3, <2>8, <3>1, IdleType
    <3>2. CASE pc' = [pc EXCEPT ![c] = "reconciling"]
               /\ rec' = [rec EXCEPT ![c] = NoRecord] /\ UNCHANGED <<settled, lease>>
      BY <2>2, <2>3, <2>8, <3>2 DEF EndUndo, TypeInv, CellOK, DiskOK, Calling, Places
    <3> QED BY <2>4, <3>1, <3>2
  <2> QED BY <2>3, <2>6, <2>7, <2>9 DEF TypeInv, DiskOK
<1>3. CASE ReconcileEnd(c)
  <2>1. Idle(c) /\ UNCHANGED <<files, journal, poisoned, undo, reply, cancelled, budgets, history>>
    BY <1>3 DEF ReconcileEnd
  <2>2. CellOK' /\ lease' \in Cells \cup {NoCell}
    BY <2>1, IdleType DEF TypeInv, CellOK
  <2> QED BY <2>1, <2>2 DEF TypeInv, DiskOK, budgets, history
<1> QED BY <1>1, <1>2, <1>3

(* Cancellation, crashes and foreign edits keep the type invariant.         *)
LEMMA EnvironmentType ==
    ASSUME TypeInv,
           \/ \E c \in Cells : Cancel(c) \/ Crash(c)
           \/ \E p \in Paths : ExternalEdit(p)
           \/ UNCHANGED vars
    PROVE  TypeInv'
<1>1. ASSUME NEW c \in Cells, Cancel(c) PROVE TypeInv'
  BY <1>1 DEF Cancel, TypeInv, DiskOK, CellOK, budgets, history
<1>2. ASSUME NEW c \in Cells, Crash(c) PROVE TypeInv'
  <2>1. NoRecord \in Record /\ NoUndo \in UndoProgress /\ NoUndo.by # "reconcile"
    BY Constructors DEF NoUndo
  <2>2. DiskOK'
    BY SMTT(60), <1>2 DEF Crash, Die, TypeInv, DiskOK, history
  <2>3. CellOK'
    BY <1>2, <2>1 DEF Crash, Die, EndUndo, Reply, Replies, TypeInv, CellOK, Calling, Places
  <2> QED BY <2>2, <2>3 DEF TypeInv
<1>3. ASSUME NEW p \in Paths, ExternalEdit(p) PROVE TypeInv'
  BY SMTT(60), <1>3 DEF ExternalEdit, TypeInv, DiskOK, CellOK, history
<1>4. CASE UNCHANGED vars
  BY <1>4 DEF vars, TypeInv, DiskOK, CellOK
<1> QED BY <1>1, <1>2, <1>3, <1>4

(* The type invariant is inductive.                                         *)
LEMMA NextType == TypeInv /\ [Next]_vars => TypeInv'
<1> SUFFICES ASSUME TypeInv, [Next]_vars PROVE TypeInv'
  OBVIOUS
<1>1. ASSUME NEW c \in Cells, NEW q \in Requests, ApplyPrepare(c, q) PROVE TypeInv'
  BY <1>1, PrepareType
<1>2. ASSUME NEW c \in Cells, CallStep(c) PROVE TypeInv'
  BY <1>2, EngineType, ApplyEndType, RestoreType, UndoneType, ReconcileType DEF CallStep
<1> QED BY <1>1, <1>2, BeginType, CommitType, EndHandleType, EnvironmentType DEF Next

(* The variables keep their types in every reachable state: records stay    *)
(* well formed through every persist, pop, restore and quarantine, and the  *)
(* rollback cursor stays inside the record being undone.                    *)
THEOREM TypeCorrect == Spec => []TypeOK
<1>1. TypeInv => TypeOK
  BY DEF TypeInv, DiskOK, CellOK, TypeOK
<1> QED BY <1>1, InitType, NextType, PTL DEF Spec

-----------------------------------------------------------------------------
(* Write-ahead.  WriteAhead is not inductive: whether a later persist keeps *)
(* it depends on the record in memory, on the effect in flight and on who   *)
(* may write the journal.  The invariant adds that                          *)
(*   - only the holder of the lease is inside a call (so two cells never    *)
(*     write one journal);                                                  *)
(*   - the record of an open handle covers what the cell changed, so that   *)
(*     publishing it loses nothing;                                         *)
(*   - while the file is not changed yet, the record without its last       *)
(*     preparation covers it too, so that dropping the preparation is safe; *)
(*   - a prepared effect is on disk before the engine runs;                 *)
(*   - the record reconcile works on has the preimages of the journal it    *)
(*     was read from.                                                       *)

Covered(c, es) ==
    mutated[c] \ leaked[c] \subseteq Preimages(es) \cup Preimages(poisoned[c].effects)

LeaseInv(c) == pc[c] \notin {"idle", "crashed"} => lease = c

DiskInv(c) ==
    /\ journal[c].state = "none" => journal[c].effects = <<>>
    /\ Covered(c, journal[c].effects)

InCall(c) == pc[c] \in {"open"} \cup Calling

MemoryInv(c) ==
    /\ InCall(c) => rec[c].state # "none" /\ Covered(c, rec[c].effects)
    /\ pc[c] = "dispatch" => journal[c] = rec[c]
    /\ pc[c] \in {"dispatch", "rejected", "errored"} => Covered(c, Popped(rec[c].effects))
    /\ pc[c] = "undoing" /\ undo[c].by # "reconcile" => Covered(c, rec[c].effects)
    /\ pc[c] = "undoing" /\ undo[c].by = "reconcile" =>
         Preimages(journal[undo[c].of].effects) = Preimages(rec[c].effects)

WriteAheadInv == \A c \in Cells : LeaseInv(c) /\ DiskInv(c) /\ MemoryInv(c)

(* An empty record holds no preimage.                                       *)
LEMMA NoPreimages == Preimages(<<>>) = {}
BY SMTT(60), EmptyEffects DEF Preimages

(* A step of c, the only cell inside a call, that leaves the other cells'   *)
(* places, journals and histories alone.                                    *)
LEMMA OwnStep ==
    ASSUME TypeInv, TypeInv', WriteAheadInv, NEW c \in Cells, lease \in {c, NoCell},
           \A d \in Cells \ {c} :
               /\ pc'[d] = pc[d] /\ journal'[d] = journal[d] /\ poisoned'[d] = poisoned[d]
               /\ mutated'[d] = mutated[d] /\ leaked'[d] = leaked[d],
           LeaseInv(c)', DiskInv(c)', MemoryInv(c)'
    PROVE  WriteAheadInv'
<1> SUFFICES ASSUME NEW d \in Cells PROVE LeaseInv(d)' /\ DiskInv(d)' /\ MemoryInv(d)'
  BY DEF WriteAheadInv
<1>1. CASE d = c
  BY <1>1
<1>2. CASE d # c
  <2>1. pc[d] \in {"idle", "crashed"} /\ NoCell \notin Cells
    BY <1>2, ConstantsAssumption DEF WriteAheadInv, LeaseInv
  <2>2. LeaseInv(d)'
    BY <1>2, <2>1 DEF LeaseInv
  <2>3. DiskInv(d)'
    BY <1>2 DEF WriteAheadInv, DiskInv, Covered
  <2>4. MemoryInv(d)'
    BY <1>2, <2>1 DEF MemoryInv, InCall, Calling
  <2> QED BY <2>2, <2>3, <2>4
<1> QED BY <1>1, <1>2

(* What a step that persists record r, a record covering what the cell      *)
(* changed, does to the disk, whatever the outcome of the write.            *)
LEMMA PersistDisk ==
    ASSUME TypeInv, NEW c \in Cells, DiskInv(c), NEW r \in Record, r.state # "none",
           NEW out, persist_record(c, r, out),
           UNCHANGED <<poisoned, mutated>>, leaked[c] \subseteq leaked'[c],
           mutated[c] \ leaked'[c] \subseteq Preimages(r.effects) \cup Preimages(poisoned[c].effects)
    PROVE  /\ DiskInv(c)'
           /\ \A d \in Cells \ {c} : journal'[d] = journal[d]
<1>1. \A d \in Cells \ {c} : journal'[d] = journal[d]
  BY DEF persist_record, TypeInv, DiskOK
<1>2. journal'[c] = journal[c] \/ journal'[c] = r
  BY DEF persist_record, TypeInv, DiskOK
<1>3. CASE journal'[c] = journal[c]
  BY <1>1, <1>3 DEF DiskInv, Covered
<1>4. CASE journal'[c] = r
  BY <1>1, <1>4 DEF DiskInv, Covered
<1> QED BY <1>1, <1>2, <1>3, <1>4

(* begin keeps the write-ahead invariant.                                   *)
LEMMA BeginInv ==
    ASSUME TypeInv, TypeInv', WriteAheadInv, NEW c \in Cells,
           BeginFresh(c) \/ BeginAdopt(c) \/ ReconcileStart(c)
    PROVE  WriteAheadInv'
<1>1. DiskInv(c) /\ MemoryInv(c) /\ lease = NoCell /\ pc[c] = "idle"
  BY DEF WriteAheadInv, BeginFresh, BeginAdopt, ReconcileStart
<1>2. CASE BeginFresh(c)
  <2> DEFINE r == [state |-> "Prepared", effects |-> <<>>]
  <2>1. PICK out \in PersistOutcomes :
          /\ persist_record(c, r, out)
          /\ IF out = "ok"
             THEN /\ pc' = [pc EXCEPT ![c] = "open"] /\ rec' = [rec EXCEPT ![c] = r]
                  /\ base' = [base EXCEPT ![c] = files] /\ lease' = c /\ Reply(c, "ok")
             ELSE Reply(c, "err") /\ UNCHANGED <<pc, rec, lease, base>>
    BY <1>2 DEF BeginFresh
  <2>2. UNCHANGED <<poisoned, undo, mutated, leaked>> /\ journal[c].state = "none"
    BY <1>2 DEF BeginFresh
  <2>3. r \in Record /\ r.state = "Prepared" /\ r.effects = <<>>
    BY Constructors
  <2> HIDE DEF r
  <2>4. Covered(c, <<>>)
    BY <1>1, <2>2 DEF DiskInv
  <2>5. DiskInv(c)' /\ \A d \in Cells \ {c} : journal'[d] = journal[d]
    BY <1>1, <2>1, <2>2, <2>3, <2>4, PersistDisk DEF Covered
  <2>6. /\ \A d \in Cells \ {c} : pc'[d] = pc[d]
        /\ \/ pc'[c] = "open" /\ rec'[c] = r /\ lease' = c
           \/ pc'[c] = "idle"
    BY <1>1, <2>1 DEF TypeInv, CellOK
  <2>7. LeaseInv(c)' /\ MemoryInv(c)'
    BY <2>2, <2>3, <2>4, <2>6 DEF LeaseInv, MemoryInv, InCall, Calling, Covered
  <2> QED BY <1>1, <2>2, <2>5, <2>6, <2>7, OwnStep
<1>3. CASE BeginAdopt(c)
  <2>1. /\ \A d \in Cells \ {c} : pc'[d] = pc[d]
        /\ pc'[c] = "open" /\ rec'[c] = journal[c] /\ lease' = c /\ journal[c].state # "none"
        /\ UNCHANGED <<journal, poisoned, undo, mutated, leaked>>
    BY SMTT(60), <1>3 DEF BeginAdopt, TypeInv, CellOK
  <2>2. LeaseInv(c)' /\ MemoryInv(c)' /\ DiskInv(c)'
    BY <1>1, <2>1 DEF LeaseInv, MemoryInv, DiskInv, InCall, Calling, Covered
  <2> QED BY <1>1, <2>1, <2>2, OwnStep
<1>4. CASE ReconcileStart(c)
  <2>1. /\ \A d \in Cells \ {c} : pc'[d] = pc[d]
        /\ pc'[c] = "reconciling" /\ lease' = c
        /\ UNCHANGED <<journal, poisoned, undo, mutated, leaked>>
    BY <1>4 DEF ReconcileStart, TypeInv, CellOK, history
  <2>2. LeaseInv(c)' /\ MemoryInv(c)' /\ DiskInv(c)'
    BY <1>1, <2>1 DEF LeaseInv, MemoryInv, DiskInv, InCall, Calling, Covered
  <2> QED BY <1>1, <2>1, <2>2, OwnStep
<1> QED BY <1>2, <1>3, <1>4

(* Publishing a preparation, or failing to, keeps the write-ahead invariant.*)
LEMMA PrepareInv ==
    ASSUME TypeInv, TypeInv', WriteAheadInv, NEW c \in Cells, NEW q \in Requests,
           ApplyPrepare(c, q)
    PROVE  WriteAheadInv'
<1> DEFINE e == [path |-> q.path, kind |-> q.kind, before |-> files[q.path],
                 after |-> q.after, receipt |-> FALSE, restored |-> FALSE]
           r == [state |-> "Applying", effects |-> Append(rec[c].effects, e)]
<1>1. /\ DiskInv(c) /\ MemoryInv(c) /\ pc[c] = "open" /\ lease = c
      /\ Covered(c, rec[c].effects)
  BY DEF WriteAheadInv, LeaseInv, MemoryInv, InCall, ApplyPrepare
<1>2. e \in Effect /\ rec[c].effects \in Seq(Effect)
  BY DEF Requests, Effect, TypeInv, DiskOK, CellOK, Record
<1>3. /\ r \in Record /\ r.state = "Applying"
      /\ Preimages(rec[c].effects) \subseteq Preimages(r.effects)
      /\ Preimages(Popped(r.effects)) = Preimages(rec[c].effects)
  <2> HIDE DEF e
  <2> QED BY <1>2, AppendEffect DEF Record, States
<1>4. PICK out \in PersistOutcomes :
        /\ persist_record(c, r, out) /\ rec' = [rec EXCEPT ![c] = r]
        /\ IF out = "ok" THEN pc' = [pc EXCEPT ![c] = "dispatch"] /\ UNCHANGED reply
                         ELSE Reply(c, "err") /\ UNCHANGED pc
  BY DEF ApplyPrepare
<1>5. UNCHANGED <<poisoned, lease, undo, mutated, leaked>>
  BY DEF ApplyPrepare, history
<1> HIDE DEF r, e
<1>6. DiskInv(c)' /\ \A d \in Cells \ {c} : journal'[d] = journal[d]
  BY <1>1, <1>3, <1>4, <1>5, PersistDisk DEF Covered
<1>7. /\ \A d \in Cells \ {c} : pc'[d] = pc[d]
      /\ rec'[c] = r /\ pc'[c] \in {"open", "dispatch"}
      /\ pc'[c] = "dispatch" => journal'[c] = r
  BY SMTT(60), <1>1, <1>4 DEF TypeInv, CellOK, DiskOK, persist_record
<1>8. LeaseInv(c)' /\ MemoryInv(c)'
  BY <1>1, <1>3, <1>5, <1>7 DEF LeaseInv, MemoryInv, InCall, Calling, Covered
<1> QED BY <1>1, <1>5, <1>6, <1>7, <1>8, OwnStep

(* The engine changes only files whose preimage is on disk, or leaks it.    *)
LEMMA EngineInv ==
    ASSUME TypeInv, TypeInv', WriteAheadInv, NEW c \in Cells, EngineApply(c)
    PROVE  WriteAheadInv'
<1> DEFINE es == rec[c].effects
           n == Len(es)
           e == es[n]
           r == [rec[c] EXCEPT !.effects[Len(rec[c].effects)].before = files[e.path]]
<1>1. /\ pc[c] = "dispatch" /\ lease = c /\ DiskInv(c) /\ journal[c] = rec[c]
      /\ rec[c].state # "none" /\ Covered(c, es) /\ Covered(c, Popped(es))
      /\ rec[c] \in Record /\ es \in Seq(Effect) /\ es # <<>>
  BY DEF EngineApply, WriteAheadInv, LeaseInv, MemoryInv, InCall, Calling, TypeInv, CellOK, Record
<1>2. UNCHANGED <<journal, poisoned, lease, undo>>
  BY DEF EngineApply
<1>3. <<e.path, e.before>> \in Preimages(es)
  <2>1. n \in DOMAIN es
    BY SMTT(60), <1>1, EmptyEffects, DomainLen
  <2> QED BY <2>1 DEF Preimages
<1>4. PICK p \in Calling : pc' = [pc EXCEPT ![c] = p]
  BY DEF EngineApply, Calling
<1>5. pc'[c] = p /\ \A d \in Cells \ {c} : pc'[d] = pc[d]
  BY <1>4 DEF TypeInv, CellOK
<1>6. CASE UNCHANGED <<rec, mutated, leaked>>
  <2>1. DiskInv(c)' /\ LeaseInv(c)' /\ MemoryInv(c)'
    BY <1>1, <1>2, <1>5, <1>6 DEF DiskInv, LeaseInv, MemoryInv, InCall, Calling, Covered
  <2> QED BY <1>1, <1>2, <1>5, <1>6, <2>1, OwnStep
<1>7. CASE /\ EngineAccepts(e) /\ Mutate(c, e) /\ UNCHANGED <<rec, leaked>>
           /\ p \in {"applied", "mismatched", "halfdone"}
  <2>1. mutated' = [mutated EXCEPT ![c] = @ \cup {<<e.path, e.before>>}]
    BY <1>7 DEF EngineAccepts, Mutate
  <2>2. /\ mutated'[c] = mutated[c] \cup {<<e.path, e.before>>}
        /\ \A d \in Cells \ {c} : mutated'[d] = mutated[d]
    BY <2>1 DEF TypeInv, DiskOK
  <2>3. Covered(c, es)'
    BY <1>1, <1>2, <1>3, <1>7, <2>2 DEF Covered
  <2>4. DiskInv(c)' /\ LeaseInv(c)' /\ MemoryInv(c)'
    BY <1>1, <1>2, <1>5, <1>7, <2>3 DEF DiskInv, LeaseInv, MemoryInv, InCall, Calling
  <2> QED BY <1>1, <1>2, <1>5, <1>7, <2>2, <2>4, OwnStep
<1>8. CASE /\ Mutate(c, e) /\ p = "mismatched" /\ rec' = [rec EXCEPT ![c] = r]
           /\ leaked' = [leaked EXCEPT ![c] = @ \cup {<<e.path, files[e.path]>>}]
  <2>1. files[e.path] \in Image
    <3>1. n \in 1..Len(es)
      BY SMTT(60), <1>1, EmptyEffects, DomainLen
    <3>2. e \in Effect
      BY <1>1, <3>1, EffectAt
    <3> QED BY <3>2 DEF Effect, TypeInv, DiskOK
  <2>2. r.state = rec[c].state /\ Preimages(Popped(es)) \subseteq Preimages(r.effects)
    BY <1>1, <2>1, BeforeRecord
  <2>3. /\ mutated'[c] = mutated[c] \cup {<<e.path, files[e.path]>>}
        /\ leaked'[c] = leaked[c] \cup {<<e.path, files[e.path]>>}
        /\ \A d \in Cells \ {c} : mutated'[d] = mutated[d] /\ leaked'[d] = leaked[d]
        /\ rec'[c] = r
    <3> HIDE DEF r, e
    <3>1. mutated' = [mutated EXCEPT ![c] = @ \cup {<<e.path, files[e.path]>>}]
      BY <1>8 DEF Mutate
    <3> QED BY SMTT(60), <1>8, <3>1 DEF TypeInv, DiskOK, CellOK
  <2> HIDE DEF r
  <2>4. DiskInv(c)'
    BY <1>1, <1>2, <2>3 DEF DiskInv, Covered
  <2>5. LeaseInv(c)' /\ MemoryInv(c)'
    BY <1>1, <1>2, <1>5, <1>8, <2>2, <2>3 DEF LeaseInv, MemoryInv, InCall, Calling, Covered
  <2> QED BY <1>1, <1>2, <1>5, <2>3, <2>4, <2>5, OwnStep
<1> QED
  <2>1. ASSUME NEW a, NEW b, pc' = [pc EXCEPT ![c] = a], pc' = [pc EXCEPT ![c] = b] PROVE a = b
    BY SMTT(60), <2>1 DEF TypeInv, CellOK
  <2>2. \/ UNCHANGED <<rec, mutated, leaked>>
        \/ /\ EngineAccepts(e) /\ Mutate(c, e) /\ UNCHANGED <<rec, leaked>>
           /\ \E a \in {"applied", "mismatched", "halfdone"} : pc' = [pc EXCEPT ![c] = a]
        \/ /\ Mutate(c, e) /\ pc' = [pc EXCEPT ![c] = "mismatched"]
           /\ rec' = [rec EXCEPT ![c] = r]
           /\ leaked' = [leaked EXCEPT ![c] = @ \cup {<<e.path, files[e.path]>>}]
    BY DEF EngineApply, history
  <2> QED BY <1>4, <1>6, <1>7, <1>8, <2>1, <2>2

(* Starting an undo of a covering record, and ending a handle.              *)
LEMMA StartUndoInv ==
    ASSUME TypeInv, NEW c \in Cells, lease' = c, NEW by \in Callers \ {"reconcile"},
           NEW r \in Record, StartUndo(c, by, c, r), Covered(c, r.effects),
           UNCHANGED <<poisoned, mutated, leaked>>
    PROVE  LeaseInv(c)' /\ MemoryInv(c)' /\ \A d \in Cells \ {c} : pc'[d] = pc[d]
<1>1. /\ pc'[c] = "undoing" /\ rec'[c] = r /\ undo'[c].by = by
      /\ \A d \in Cells \ {c} : pc'[d] = pc[d]
  BY DEF StartUndo, TypeInv, CellOK
<1> QED BY <1>1 DEF LeaseInv, MemoryInv, InCall, Calling, Covered

(* Giving the handle up keeps the write-ahead invariant.                    *)
LEMMA IdleInv ==
    ASSUME TypeInv, NEW c \in Cells, Idle(c)
    PROVE  LeaseInv(c)' /\ MemoryInv(c)' /\ \A d \in Cells \ {c} : pc'[d] = pc[d]
<1>1. pc'[c] = "idle" /\ \A d \in Cells \ {c} : pc'[d] = pc[d]
  BY DEF Idle, TypeInv, CellOK
<1> QED BY <1>1 DEF LeaseInv, MemoryInv, InCall, Calling

(* Dropping the last preparation, when the rest still covers the changes.   *)
LEMMA PopInv ==
    ASSUME TypeInv, TypeInv', WriteAheadInv, NEW c \in Cells, pc[c] \in Calling, NEW x,
           PopAndPersist(c, x), UNCHANGED mutated, leaked[c] \subseteq leaked'[c],
           \A d \in Cells \ {c} : leaked'[d] = leaked[d],
           mutated[c] \ leaked'[c] \subseteq
               Preimages(Popped(rec[c].effects)) \cup Preimages(poisoned[c].effects)
    PROVE  WriteAheadInv'
<1> DEFINE es == Popped(rec[c].effects)
           r == [state |-> IF es = <<>> THEN "Prepared" ELSE rec[c].state, effects |-> es]
<1>1. /\ lease = c /\ DiskInv(c) /\ rec[c].state # "none"
      /\ rec[c] \in Record /\ rec[c].effects # <<>>
  BY DEF WriteAheadInv, LeaseInv, MemoryInv, InCall, Calling, TypeInv, CellOK
<1>2. r \in Record /\ r.state # "none" /\ r.effects = es
  <2>1. es \in Seq(Effect)
    BY <1>1, FrontOfEffects DEF Record
  <2> HIDE DEF es
  <2> QED BY <1>1, <2>1 DEF Record, States
<1>3. PICK out \in PersistOutcomes : persist_record(c, r, out) /\ rec' = [rec EXCEPT ![c] = r]
  BY DEF PopAndPersist
<1>4. pc' = [pc EXCEPT ![c] = "open"] /\ UNCHANGED <<poisoned, lease, undo>>
  BY DEF PopAndPersist
<1> HIDE DEF r, es
<1>5. DiskInv(c)' /\ \A d \in Cells \ {c} : journal'[d] = journal[d]
  BY <1>1, <1>2, <1>3, <1>4, PersistDisk DEF es
<1>6. pc'[c] = "open" /\ rec'[c] = r /\ \A d \in Cells \ {c} : pc'[d] = pc[d]
  BY SMTT(60), <1>3, <1>4 DEF TypeInv, CellOK
<1>7. LeaseInv(c)' /\ MemoryInv(c)'
  BY <1>1, <1>2, <1>4, <1>6 DEF LeaseInv, MemoryInv, InCall, Calling, Covered, es
<1> QED BY <1>1, <1>4, <1>5, <1>6, <1>7, OwnStep

(* The ends of apply drop no preimage of a changed file, unless they leak it.*)
LEMMA ApplyEndInv ==
    ASSUME TypeInv, TypeInv', WriteAheadInv, NEW c \in Cells,
           \/ ApplyCancelled(c) \/ ApplyAccepted(c) \/ ApplyMismatch(c)
           \/ ApplyRejected(c) \/ ApplyErrored(c)
    PROVE  WriteAheadInv'
<1>1. pc[c] \in Calling
  BY DEF ApplyCancelled, ApplyAccepted, ApplyMismatch, ApplyRejected, ApplyErrored, Calling
<1>2. /\ rec[c] \in Record /\ rec[c].effects # <<>> /\ rec[c].state # "none"
      /\ lease = c /\ DiskInv(c) /\ MemoryInv(c) /\ Covered(c, rec[c].effects)
  BY <1>1 DEF WriteAheadInv, LeaseInv, MemoryInv, InCall, Calling, TypeInv, CellOK
<1> DEFINE r == WithReceipt(rec[c])
<1>3. r \in Record /\ r.state = rec[c].state /\ Preimages(r.effects) = Preimages(rec[c].effects)
  BY <1>2, ReceiptRecord
<1>4. Covered(c, r.effects)
  BY <1>2, <1>3 DEF Covered
<1> HIDE DEF r
<1>5. CASE ApplyCancelled(c) \/ ApplyRejected(c)
  <2>1. pc[c] \in {"dispatch", "rejected"} /\ UNCHANGED <<mutated, leaked>>
        /\ \E x : PopAndPersist(c, x)
    BY <1>5 DEF ApplyCancelled, ApplyRejected, history
  <2>2. Covered(c, Popped(rec[c].effects))
    BY <1>2, <2>1 DEF MemoryInv
  <2> QED BY <1>1, <2>1, <2>2, PopInv DEF Covered
<1>6. CASE ApplyMismatch(c)
  <2>1. /\ StartUndo(c, "mismatch", c, r)
        /\ UNCHANGED <<journal, poisoned, lease, mutated, leaked>>
    BY <1>6 DEF ApplyMismatch, history, r
  <2>2. LeaseInv(c)' /\ MemoryInv(c)' /\ \A d \in Cells \ {c} : pc'[d] = pc[d]
    BY <1>2, <1>3, <1>4, <2>1, StartUndoInv DEF Callers
  <2>3. DiskInv(c)'
    BY <1>2, <2>1 DEF DiskInv, Covered
  <2> QED BY <1>2, <2>1, <2>2, <2>3, OwnStep
<1>7. CASE ApplyAccepted(c)
  <2>1. UNCHANGED <<poisoned, lease, mutated, leaked>>
    BY <1>7 DEF ApplyAccepted, history
  <2>2. CASE StartUndo(c, "apply", c, r) /\ UNCHANGED journal
    <3>1. LeaseInv(c)' /\ MemoryInv(c)' /\ \A d \in Cells \ {c} : pc'[d] = pc[d]
      BY <1>2, <1>3, <1>4, <2>1, <2>2, StartUndoInv DEF Callers
    <3>2. DiskInv(c)'
      BY <1>2, <2>1, <2>2 DEF DiskInv, Covered
    <3> QED BY <1>2, <2>1, <2>2, <3>1, <3>2, OwnStep
  <2>3. CASE /\ \E out \in PersistOutcomes : persist_record(c, r, out)
             /\ rec' = [rec EXCEPT ![c] = r] /\ pc' = [pc EXCEPT ![c] = "open"]
    <3>1. DiskInv(c)' /\ \A d \in Cells \ {c} : journal'[d] = journal[d]
      BY <1>2, <1>3, <1>4, <2>1, <2>3, PersistDisk DEF Covered
    <3>2. pc'[c] = "open" /\ rec'[c] = r /\ \A d \in Cells \ {c} : pc'[d] = pc[d]
      BY SMTT(60), <2>3 DEF TypeInv, CellOK
    <3>3. LeaseInv(c)' /\ MemoryInv(c)'
      BY <1>2, <1>3, <1>4, <2>1, <3>2 DEF LeaseInv, MemoryInv, InCall, Calling, Covered
    <3> QED BY <1>2, <2>1, <3>1, <3>2, <3>3, OwnStep
  <2> QED BY <1>7, <2>2, <2>3 DEF ApplyAccepted, r
<1>8. CASE ApplyErrored(c)
  <2>1. CASE /\ PopAndPersist(c, "cancelled") /\ UNCHANGED mutated
             /\ leaked' = IF pc[c] = "errored" THEN leaked
                          ELSE [leaked EXCEPT ![c] = @ \cup {LastPreimage(rec[c].effects)}]
    <3>1. CASE pc[c] = "errored"
      <4>1. Covered(c, Popped(rec[c].effects)) /\ leaked' = leaked
        BY <1>2, <2>1, <3>1 DEF MemoryInv
      <4> QED BY <1>1, <2>1, <4>1, PopInv DEF Covered
    <3>2. CASE pc[c] # "errored"
      <4>1. /\ leaked'[c] = leaked[c] \cup {LastPreimage(rec[c].effects)}
            /\ \A d \in Cells \ {c} : leaked'[d] = leaked[d]
        BY <2>1, <3>2 DEF TypeInv, DiskOK
      <4>2. Preimages(rec[c].effects) \subseteq
              Preimages(Popped(rec[c].effects)) \cup {LastPreimage(rec[c].effects)}
        BY <1>2, FrontOfEffects DEF Record
      <4>3. mutated[c] \ leaked'[c] \subseteq
              Preimages(Popped(rec[c].effects)) \cup Preimages(poisoned[c].effects)
        BY <1>2, <4>1, <4>2 DEF Covered
      <4> QED BY <1>1, <2>1, <4>1, <4>3, PopInv
    <3> QED BY <3>1, <3>2
  <2>2. CASE /\ StartUndo(c, "engine", c, rec[c])
             /\ UNCHANGED <<journal, poisoned, lease, mutated, leaked>>
    <3>1. LeaseInv(c)' /\ MemoryInv(c)' /\ \A d \in Cells \ {c} : pc'[d] = pc[d]
      BY <1>2, <2>2, StartUndoInv DEF Callers
    <3>2. DiskInv(c)'
      BY <1>2, <2>2 DEF DiskInv, Covered
    <3> QED BY <1>2, <2>2, <3>1, <3>2, OwnStep
  <2> QED BY <1>8, <2>1, <2>2 DEF ApplyErrored, history
<1> QED BY <1>5, <1>6, <1>7, <1>8

(* A restore keeps the preimages.                                           *)
LEMMA RestoreInv ==
    ASSUME TypeInv, TypeInv', WriteAheadInv, NEW c \in Cells, RestoreStep(c)
    PROVE  WriteAheadInv'
<1> DEFINE i == undo[c].cursor
           r == [rec[c] EXCEPT !.effects[i].restored = TRUE]
<1>1. /\ pc[c] = "undoing" /\ lease = c /\ DiskInv(c) /\ MemoryInv(c)
      /\ UNCHANGED <<journal, poisoned, lease, pc, mutated, leaked>>
  BY DEF RestoreStep, WriteAheadInv, LeaseInv, history
<1>2. rec[c] \in Record /\ i \in 1..Len(rec[c].effects)
  <2>1. rec[c] \in Record /\ rec[c].effects \in Seq(Effect)
    BY DEF TypeInv, CellOK, Record
  <2>2. i > 0 /\ i \in 0..Len(rec[c].effects)
    BY <1>1 DEF RestoreStep, TypeInv, CellOK
  <2> QED BY SMTT(60), <2>1, <2>2, DomainLen
<1>3. Preimages(r.effects) = Preimages(rec[c].effects)
  BY <1>2, RestoredRecord
<1>4. Preimages(rec'[c].effects) = Preimages(rec[c].effects)
  <2>1. UNCHANGED rec \/ rec' = [rec EXCEPT ![c] = r]
    BY DEF RestoreStep
  <2> HIDE DEF r
  <2> QED BY <1>3, <2>1 DEF TypeInv, CellOK
<1>5. undo'[c].by = undo[c].by /\ undo'[c].of = undo[c].of
  <2>1. \/ undo' = [undo EXCEPT ![c].cursor = i - 1]
        \/ undo' = [undo EXCEPT ![c].cursor = i - 1, ![c].bad = TRUE]
    BY DEF RestoreStep
  <2>2. undo[c] \in UndoProgress
    BY DEF TypeInv, CellOK
  <2> QED BY SMTT(60), <2>1, <2>2 DEF TypeInv, CellOK, UndoProgress
<1>6. DiskInv(c)' /\ LeaseInv(c)' /\ MemoryInv(c)'
  BY <1>1, <1>4, <1>5 DEF DiskInv, LeaseInv, MemoryInv, InCall, Calling, Covered
<1> QED BY <1>1, <1>6, OwnStep

(* Publishing the outcome of a rollback keeps the preimages.                *)
LEMMA UndoneInv ==
    ASSUME TypeInv, TypeInv', WriteAheadInv, NEW c \in Cells,
           UndoneInCall(c) \/ UndoneInRollback(c) \/ UndoneInDrop(c)
    PROVE  WriteAheadInv'
<1> DEFINE r == RolledBackRecord(c)
<1>1. /\ pc[c] = "undoing" /\ undo[c].by # "reconcile"
      /\ UNCHANGED <<poisoned, mutated, leaked>>
  BY DEF UndoneInCall, UndoneInRollback, UndoneInDrop, Undone, history
<1>2. lease = c /\ DiskInv(c) /\ Covered(c, rec[c].effects)
  BY <1>1 DEF WriteAheadInv, LeaseInv, MemoryInv
<1>3. r \in Record /\ r.state # "none" /\ Covered(c, r.effects)
  BY <1>2, RolledBackType
<1> HIDE DEF r
<1>4. PICK out \in PersistOutcomes : persist_record(c, r, out)
  BY DEF UndoneInCall, UndoneInRollback, UndoneInDrop, r
<1>5. DiskInv(c)' /\ \A d \in Cells \ {c} : journal'[d] = journal[d]
  BY <1>1, <1>2, <1>3, <1>4, PersistDisk DEF Covered
<1>6. LeaseInv(c)' /\ MemoryInv(c)' /\ \A d \in Cells \ {c} : pc'[d] = pc[d]
  <2>1. CASE UndoneInCall(c)
    <3>1. /\ rec' = [rec EXCEPT ![c] = r] /\ pc' = [pc EXCEPT ![c] = "open"]
          /\ UNCHANGED lease
      BY <2>1 DEF UndoneInCall, r
    <3>2. pc'[c] = "open" /\ rec'[c] = r /\ \A d \in Cells \ {c} : pc'[d] = pc[d]
      BY SMTT(60), <3>1 DEF TypeInv, CellOK
    <3> QED BY <1>1, <1>2, <1>3, <3>1, <3>2 DEF LeaseInv, MemoryInv, InCall, Calling, Covered
  <2>2. CASE Idle(c)
    BY <2>2, IdleInv
  <2>3. CASE StartUndo(c, "drop", c, r) /\ UNCHANGED lease
    BY <1>1, <1>2, <1>3, <2>3, StartUndoInv DEF Callers
  <2> QED BY <2>1, <2>2, <2>3 DEF UndoneInRollback, UndoneInDrop, r
<1> QED BY <1>1, <1>2, <1>5, <1>6, OwnStep

(* rollback and Drop keep the write-ahead invariant.                        *)
LEMMA EndHandleInv ==
    ASSUME TypeInv, TypeInv', WriteAheadInv, NEW c \in Cells,
           Rollback(c) \/ Drop(c) \/ CommitCancelled(c)
    PROVE  WriteAheadInv'
<1>1. /\ pc[c] = "open" /\ UNCHANGED <<journal, poisoned, mutated, leaked>>
      /\ \/ Idle(c)
         \/ /\ \E by \in Callers \ {"reconcile"} : StartUndo(c, by, c, rec[c])
            /\ UNCHANGED lease
  BY DEF Rollback, Drop, CommitCancelled, Callers, history
<1>2. lease = c /\ DiskInv(c) /\ Covered(c, rec[c].effects) /\ rec[c] \in Record
  BY <1>1 DEF WriteAheadInv, LeaseInv, MemoryInv, InCall, TypeInv, CellOK
<1>3. LeaseInv(c)' /\ MemoryInv(c)' /\ \A d \in Cells \ {c} : pc'[d] = pc[d]
  BY <1>1, <1>2, IdleInv, StartUndoInv
<1>4. DiskInv(c)'
  BY <1>1, <1>2 DEF DiskInv, Covered
<1> QED BY <1>1, <1>2, <1>3, <1>4, OwnStep

(* commit and compensate_committed publish all preimages again.             *)
LEMMA CommitInv ==
    ASSUME TypeInv, TypeInv', WriteAheadInv, NEW c \in Cells,
           CommitAgain(c) \/ CommitPublish(c) \/ Compensate(c)
    PROVE  WriteAheadInv'
<1>1. pc[c] = "open" /\ UNCHANGED <<poisoned, lease, mutated, leaked>>
  BY DEF CommitAgain, CommitPublish, Compensate, history
<1>2. /\ lease = c /\ DiskInv(c) /\ MemoryInv(c) /\ Covered(c, rec[c].effects)
      /\ rec[c] \in Record
  BY <1>1 DEF WriteAheadInv, LeaseInv, MemoryInv, InCall, TypeInv, CellOK
<1>3. CASE CommitAgain(c)
  <2>1. UNCHANGED <<journal, pc, rec, undo>>
    BY <1>3 DEF CommitAgain
  <2>2. LeaseInv(c)' /\ MemoryInv(c)' /\ DiskInv(c)'
    BY <1>1, <1>2, <2>1 DEF LeaseInv, MemoryInv, DiskInv, InCall, Calling, Covered
  <2> QED BY <1>1, <1>2, <2>1, <2>2, OwnStep
<1>4. CASE CommitPublish(c)
  <2> DEFINE r == [rec[c] EXCEPT !.state = "Committed"]
  <2>1. r \in Record /\ r.state = "Committed" /\ r.effects = rec[c].effects
    BY <1>2 DEF Record, States
  <2>2. /\ \E out \in PersistOutcomes : persist_record(c, r, out)
        /\ rec' = [rec EXCEPT ![c] = r] /\ UNCHANGED pc
    BY <1>4 DEF CommitPublish
  <2> HIDE DEF r
  <2>3. DiskInv(c)' /\ \A d \in Cells \ {c} : journal'[d] = journal[d]
    BY <1>1, <1>2, <2>1, <2>2, PersistDisk DEF Covered
  <2>4. rec'[c] = r
    BY <2>2 DEF TypeInv, CellOK
  <2>5. LeaseInv(c)' /\ MemoryInv(c)'
    BY <1>1, <1>2, <2>1, <2>2, <2>4 DEF LeaseInv, MemoryInv, InCall, Calling, Covered
  <2> QED BY <1>1, <1>2, <2>2, <2>3, <2>5, OwnStep
<1>5. CASE Compensate(c)
  <2> DEFINE r == [rec[c] EXCEPT !.state = "Compensating"]
  <2>1. r \in Record /\ r.state = "Compensating" /\ r.effects = rec[c].effects
    BY <1>2 DEF Record, States
  <2>2. /\ \E out \in PersistOutcomes : persist_record(c, r, out)
        /\ StartUndo(c, "compensate", c, r) \/ UNCHANGED <<rec, undo, pc>>
    BY <1>5 DEF Compensate
  <2> HIDE DEF r
  <2>3. DiskInv(c)' /\ \A d \in Cells \ {c} : journal'[d] = journal[d]
    BY <1>1, <1>2, <2>1, <2>2, PersistDisk DEF Covered
  <2>4. LeaseInv(c)' /\ MemoryInv(c)' /\ \A d \in Cells \ {c} : pc'[d] = pc[d]
    <3>1. CASE StartUndo(c, "compensate", c, r)
      <4>1. Covered(c, r.effects)
        BY <1>2, <2>1
      <4> QED BY <1>1, <1>2, <2>1, <3>1, <4>1, StartUndoInv DEF Callers
    <3>2. CASE UNCHANGED <<rec, undo, pc>>
      BY <1>1, <1>2, <3>2 DEF LeaseInv, MemoryInv, InCall, Calling, Covered
    <3> QED BY <2>2, <3>1, <3>2
  <2> QED BY <1>1, <1>2, <2>3, <2>4, OwnStep
<1> QED BY <1>3, <1>4, <1>5

(* Reconcile writes other cells' journals.  They are not inside a call: the *)
(* reconciling cell holds the lease.                                        *)
LEMMA ReconcileInv ==
    ASSUME TypeInv, TypeInv', WriteAheadInv, NEW c \in Cells,
           ReconcileNext(c) \/ UndoneInReconcile(c) \/ ReconcileEnd(c)
    PROVE  WriteAheadInv'
<1>1. lease = c /\ DiskInv(c) /\ pc[c] \in {"undoing", "reconciling"}
  BY DEF ReconcileNext, UndoneInReconcile, ReconcileEnd, Undone, WriteAheadInv, LeaseInv
<1>2. CASE ReconcileNext(c)
  <2>1. PICK d \in Cells : StartUndo(c, "reconcile", d, journal[d])
    BY <1>2 DEF ReconcileNext, Pending
  <2>2. UNCHANGED <<journal, poisoned, lease, mutated, leaked>>
    BY <1>2 DEF ReconcileNext, history
  <2>3. /\ pc'[c] = "undoing" /\ rec'[c] = journal[d]
        /\ undo'[c].by = "reconcile" /\ undo'[c].of = d
        /\ \A x \in Cells \ {c} : pc'[x] = pc[x]
    BY SMTT(60), <2>1 DEF StartUndo, TypeInv, CellOK
  <2>4. LeaseInv(c)' /\ MemoryInv(c)' /\ DiskInv(c)'
    BY <1>1, <2>2, <2>3 DEF LeaseInv, MemoryInv, DiskInv, InCall, Calling, Covered
  <2> QED BY <1>1, <2>2, <2>3, <2>4, OwnStep
<1>3. CASE ReconcileEnd(c)
  <2>1. Idle(c) /\ UNCHANGED <<journal, poisoned, mutated, leaked>>
    BY <1>3 DEF ReconcileEnd, history
  <2>2. DiskInv(c)'
    BY <1>1, <2>1 DEF DiskInv, Covered
  <2> QED BY <1>1, <2>1, <2>2, IdleInv, OwnStep
<1>4. CASE UndoneInReconcile(c)
  <2> DEFINE r == RolledBackRecord(c)
  <2>0. PICK d \in Cells : d = undo[c].of
    BY <1>4 DEF UndoneInReconcile, TypeInv, CellOK
  <2>1. pc[c] = "undoing" /\ undo[c].by = "reconcile" /\ UNCHANGED mutated
    BY <1>4 DEF UndoneInReconcile, Undone
  <2>2. /\ r \in Record /\ r.state # "none"
        /\ Preimages(r.effects) = Preimages(journal[d].effects)
    <3>1. Preimages(journal[d].effects) = Preimages(rec[c].effects)
      BY <2>0, <2>1 DEF WriteAheadInv, MemoryInv
    <3> QED BY <3>1, RolledBackType
  <2> HIDE DEF r
  <2>3. /\ pc'[c] \in {"idle", "reconciling"} /\ (pc'[c] = "reconciling" => lease' = lease)
        /\ \A x \in Cells \ {c} : pc'[x] = pc[x]
    BY <1>4 DEF UndoneInReconcile, Idle, TypeInv, CellOK
  <2>4. \/ Quarantine(d, journal[d]) \/ Quarantine(d, r)
        \/ UNCHANGED <<journal, poisoned, leaked>>
        \/ (\E out \in PersistOutcomes : persist_record(d, r, out)) /\ UNCHANGED <<poisoned, leaked>>
    BY <1>4, <2>0 DEF UndoneInReconcile, r
  <2>5. DiskInv(d) /\ Covered(d, r.effects)
    BY <2>1, <2>2 DEF WriteAheadInv, DiskInv, Covered
  <2>6. /\ DiskInv(d)'
        /\ \A x \in Cells \ {d} : /\ journal'[x] = journal[x] /\ poisoned'[x] = poisoned[x]
                                  /\ leaked'[x] = leaked[x]
    <3>1. CASE Quarantine(d, journal[d]) \/ Quarantine(d, r)
      <4>1. /\ journal'[d] = NoRecord
            /\ Preimages(poisoned'[d].effects) = Preimages(journal[d].effects)
            /\ leaked'[d] = leaked[d] \cup Preimages(poisoned[d].effects)
            /\ \A x \in Cells \ {d} : /\ journal'[x] = journal[x] /\ poisoned'[x] = poisoned[x]
                                      /\ leaked'[x] = leaked[x]
        BY <2>1, <2>2, <3>1 DEF Quarantine, TypeInv, DiskOK
      <4>2. NoRecord.state = "none" /\ NoRecord.effects = <<>>
        BY DEF NoRecord
      <4>3. DiskInv(d)'
        BY <2>1, <2>5, <4>1, <4>2, NoPreimages DEF DiskInv, Covered
      <4> QED BY <4>1, <4>3
    <3>2. CASE UNCHANGED <<journal, poisoned, leaked>>
      BY <2>1, <2>5, <3>2 DEF DiskInv, Covered
    <3>3. CASE (\E out \in PersistOutcomes : persist_record(d, r, out)) /\ UNCHANGED <<poisoned, leaked>>
      BY <2>1, <2>2, <2>5, <3>3, PersistDisk DEF Covered
    <3> QED BY <2>4, <3>1, <3>2, <3>3
  <2>7. ASSUME NEW x \in Cells PROVE LeaseInv(x)' /\ DiskInv(x)' /\ MemoryInv(x)'
    <3>1. pc'[x] \in {"idle", "crashed"} \/ (x = c /\ pc'[x] = "reconciling" /\ lease' = c)
      BY <1>1, <2>3, ConstantsAssumption DEF WriteAheadInv, LeaseInv
    <3>2. LeaseInv(x)' /\ MemoryInv(x)'
      BY <3>1 DEF LeaseInv, MemoryInv, InCall, Calling
    <3>3. DiskInv(x)'
      BY <2>1, <2>6 DEF WriteAheadInv, DiskInv, Covered
    <3> QED BY <3>2, <3>3
  <2> QED BY <2>7 DEF WriteAheadInv
<1> QED BY <1>2, <1>3, <1>4

(* Cancellation, crashes and foreign edits keep the write-ahead invariant.  *)
LEMMA EnvironmentInv ==
    ASSUME TypeInv, TypeInv', WriteAheadInv,
           \/ \E c \in Cells : Cancel(c) \/ Crash(c)
           \/ \E p \in Paths : ExternalEdit(p)
           \/ UNCHANGED vars
    PROVE  WriteAheadInv'
<1>1. ASSUME NEW c \in Cells, Crash(c) PROVE WriteAheadInv'
  <2>1. /\ pc'[c] = "crashed" /\ \A d \in Cells \ {c} : pc'[d] = pc[d]
        /\ UNCHANGED <<journal, poisoned, mutated, leaked>>
        /\ pc[c] \notin {"idle", "crashed"}
    BY SMTT(60), <1>1 DEF Crash, Die, TypeInv, CellOK, history
  <2>2. lease = c /\ DiskInv(c)
    BY <2>1 DEF WriteAheadInv, LeaseInv
  <2>3. LeaseInv(c)' /\ MemoryInv(c)' /\ DiskInv(c)'
    BY <2>1, <2>2 DEF LeaseInv, MemoryInv, DiskInv, InCall, Calling, Covered
  <2> QED BY <2>1, <2>2, <2>3, OwnStep
<1>2. CASE UNCHANGED <<journal, poisoned, lease, pc, rec, undo, mutated, leaked>>
  BY <1>2 DEF WriteAheadInv, LeaseInv, MemoryInv, DiskInv, InCall, Calling, Covered
<1> QED BY <1>1, <1>2 DEF Cancel, ExternalEdit, vars, history

(* The write-ahead invariant holds at first.                                *)
LEMMA InitWriteAhead == Init => WriteAheadInv
BY SMTT(60), NoPreimages DEF Init, WriteAheadInv, LeaseInv, MemoryInv, DiskInv, InCall, Calling,
                   Covered, NoRecord

(* Every step keeps the write-ahead invariant.                              *)
LEMMA NextWriteAhead == TypeInv /\ TypeInv' /\ WriteAheadInv /\ [Next]_vars => WriteAheadInv'
<1> SUFFICES ASSUME TypeInv, TypeInv', WriteAheadInv, [Next]_vars PROVE WriteAheadInv'
  OBVIOUS
<1>1. ASSUME NEW c \in Cells, NEW q \in Requests, ApplyPrepare(c, q) PROVE WriteAheadInv'
  BY <1>1, PrepareInv
<1>2. ASSUME NEW c \in Cells, CallStep(c) PROVE WriteAheadInv'
  BY <1>2, EngineInv, ApplyEndInv, RestoreInv, UndoneInv, ReconcileInv DEF CallStep
<1> QED BY <1>1, <1>2, BeginInv, CommitInv, EndHandleInv, EnvironmentInv DEF Next

(* The preimage of every byte a cell has changed is on disk, in its journal *)
(* or its quarantined journal, in every reachable state, except for the     *)
(* changes `leaked` names: apply publishes the preparation before the       *)
(* engine runs, and no pop, persist, crash or quarantine loses it.          *)
THEOREM WriteAheadHolds == Spec => []WriteAhead
<1>1. WriteAheadInv => WriteAhead
  BY DEF WriteAheadInv, DiskInv, Covered, WriteAhead
<1> QED BY <1>1, InitType, NextType, InitWriteAhead, NextWriteAhead, PTL DEF Spec

(* From here on a leaf is for Zenon unless it names SMT. *)
USE ZenonT(60)

-----------------------------------------------------------------------------
(* OutcomesAreComplete is not inductive: what the next persist publishes is *)
(* the record in memory, so the invariant says the same of that record, and *)
(*   - how far the record in memory may be ahead of the journal (a failed   *)
(*     write leaves the old one in place);                                  *)
(*   - that an effect whose preparation may still be dropped is one of an   *)
(*     Applying record;                                                     *)
(*   - that rollback_record has restored every effect behind its cursor, or *)
(*     remembers that it failed to;                                         *)
(*   - that reconcile still has the record of a journal that is not final.  *)

(* The state of a record is true of its effects.                            *)
Whole(r) ==
    \A i \in DOMAIN r.effects :
        /\ r.state = "Committed" => r.effects[i].receipt /\ ~r.effects[i].restored
        /\ r.state = "RolledBack" => r.effects[i].restored
        /\ r.state \in {"Prepared", "Applying"} => ~r.effects[i].restored

(* A handle whose record is in state s may find its journal in state j.     *)
Follows(s, j) ==
    \/ s \in {"Prepared", "Applying"} /\ j \in {"Prepared", "Applying"}
    \/ s = "Committed" /\ j \in {"Prepared", "Applying", "Committed", "Compensating"}
    \/ s = "Compensating" /\ j = "Compensating"
    \/ s = "RolledBack" /\ j \in {"Prepared", "Applying", "Compensating", "RolledBack"}
    \/ s = "RecoveryRequired" /\ j \in States \ {"RolledBack"}

HandleInv(c) ==
    /\ InCall(c) => Whole(rec[c]) /\ Follows(rec[c].state, journal[c].state)
    /\ pc[c] \in Calling => rec[c].state = "Applying"

UndoInv(c) ==
    pc[c] = "undoing" =>
        /\ \A i \in DOMAIN rec[c].effects :
             /\ i > undo[c].cursor => rec[c].effects[i].restored \/ undo[c].bad
             /\ rec[c].state = "RolledBack" => rec[c].effects[i].restored
        /\ rec[c].state = "RolledBack" => ~undo[c].bad
        /\ undo[c].by # "reconcile" => Follows(rec[c].state, journal[c].state)
        /\ undo[c].by = "reconcile" =>
             /\ rec[c].state = journal[undo[c].of].state
             /\ rec[c].state \in {"Prepared", "Applying", "Compensating", "RecoveryRequired"}

Honest(c) == Whole(journal[c]) /\ HandleInv(c) /\ UndoInv(c)

OutcomeInv == \A c \in Cells : Honest(c)

(* What JournalMonotone asks of a step for the journal of one cell, and of  *)
(* a write that leaves a journal in its place.                              *)
Monotone(c) ==
    LET s == journal[c].state  t == journal'[c].state IN
    /\ s = "RolledBack" => t = s
    /\ s = "RecoveryRequired" => t \in {s, "none"}
    /\ s = "Committed" => t \in {s, "Compensating", "RecoveryRequired"}
    /\ s = "Compensating" => t \in {s, "RolledBack", "RecoveryRequired", "none"}
    /\ s # "none" /\ t = "none" =>
           Preimages(journal[c].effects) = Preimages(poisoned'[c].effects)

Forward(s, t) ==
    /\ t # "none"
    /\ s \in {"RolledBack", "RecoveryRequired"} => t = s
    /\ s = "Committed" => t \in {s, "Compensating", "RecoveryRequired"}
    /\ s = "Compensating" => t \in {s, "RolledBack", "RecoveryRequired"}

Sound == OutcomeInv' /\ \A c \in Cells : Monotone(c)

-----------------------------------------------------------------------------
(* The states of a handle and of its journal.                               *)

(* Ending a rollback moves the journal forward, whether or not the write    *)
(* succeeds: rollback_state goes through the transition table.              *)
LEMMA RollbackForward ==
    ASSUME NEW s, NEW j, NEW bad \in BOOLEAN, Follows(s, j), s = "RolledBack" => ~bad
    PROVE  LET t == rollback_state(s, bad) IN Forward(j, t) /\ Follows(t, j) /\ Follows(t, t)
<1> DEFINE t == rollback_state(s, bad)
<1>1. t \in {"RolledBack", "RecoveryRequired"}
  BY Constructors
<1>2. s = "RolledBack" => t = "RolledBack"
  BY DEF rollback_state, transition_allowed
<1>3. s \in {"Committed", "RecoveryRequired"} => t = "RecoveryRequired"
  BY SMTT(60) DEF rollback_state, transition_allowed
<1> HIDE DEF t
<1>4. Forward(j, t) /\ Follows(t, j) /\ Follows(t, t)
  BY SMTT(60), <1>1, <1>2, <1>3 DEF Follows, Forward, States
<1> QED BY <1>4 DEF t

(* A live handle may publish itself as any state up to Committed, and a     *)
(* committed one as Compensating.                                           *)
LEMMA HandleForward ==
    ASSUME NEW s, NEW j, Follows(s, j)
    PROVE  /\ s # "none" /\ j # "none"
           /\ s \in {"Prepared", "Applying"} =>
                \A t \in {"Prepared", "Applying", "Committed"} :
                    Forward(j, t) /\ Follows(t, j) /\ Follows(t, t)
           /\ s = "Committed" =>
                /\ Forward(j, "Compensating") /\ Follows(s, "Compensating")
                /\ Follows("Compensating", "Compensating")
BY SMTT(60) DEF Follows, Forward, States

(* A journal that does not change is monotone.                              *)
LEMMA Stays ==
    ASSUME NEW c, journal'[c] = journal[c]
    PROVE  Monotone(c)
BY DEF Monotone

(* Writing a true record that is a step forward, whatever the outcome.      *)
LEMMA Published ==
    ASSUME TypeInv, NEW c \in Cells, Whole(journal[c]), NEW r \in Record, Whole(r),
           Forward(journal[c].state, r.state), NEW out, persist_record(c, r, out)
    PROVE  /\ Whole(journal'[c]) /\ journal'[c].state \in {journal[c].state, r.state}
           /\ out # "store" => journal'[c] = r
           /\ \A d \in Cells \ {c} : journal'[d] = journal[d]
           /\ \A d \in Cells : Monotone(d)
<1>1. /\ journal'[c] = journal[c] \/ journal'[c] = r
      /\ out # "store" => journal'[c] = r
      /\ \A d \in Cells \ {c} : journal'[d] = journal[d]
  BY DEF persist_record, TypeInv, DiskOK
<1>2. Monotone(c)
  <2>1. CASE journal'[c] = journal[c]
    BY <2>1, Stays
  <2>2. CASE journal'[c] = r
    BY <2>2 DEF Monotone, Forward
  <2> QED BY <1>1, <2>1, <2>2
<1> QED BY <1>1, <1>2, Stays

(* A step of c, the only cell inside a call, that leaves the other cells'   *)
(* places and journals alone.                                               *)
LEMMA OwnOutcome ==
    ASSUME WriteAheadInv, OutcomeInv, NEW c \in Cells, lease \in {c, NoCell},
           \A d \in Cells \ {c} : pc'[d] = pc[d] /\ journal'[d] = journal[d],
           Honest(c)', Monotone(c)
    PROVE  Sound
<1> SUFFICES ASSUME NEW d \in Cells, d # c PROVE Honest(d)' /\ Monotone(d)
  BY DEF OutcomeInv, Sound
<1>1. pc[d] \in {"idle", "crashed"}
  BY ConstantsAssumption DEF WriteAheadInv, LeaseInv
<1>2. Whole(journal[d])
  BY DEF OutcomeInv, Honest
<1>3. pc'[d] \in {"idle", "crashed"} /\ journal'[d] = journal[d]
  BY <1>1
<1>4. HandleInv(d)' /\ UndoInv(d)'
  BY <1>3 DEF HandleInv, UndoInv, InCall, Calling
<1>5. Whole(journal'[d])
  BY <1>2, <1>3
<1> QED BY <1>3, <1>4, <1>5, Stays DEF Honest

(* Starting rollback_record on a true record of a handle.                   *)
LEMMA StartUndoHonest ==
    ASSUME TypeInv, NEW c \in Cells, NEW by \in Callers \ {"reconcile"}, NEW r \in Record,
           StartUndo(c, by, c, r), Whole(r), Whole(journal'[c]),
           Follows(r.state, journal'[c].state)
    PROVE  Honest(c)' /\ \A d \in Cells \ {c} : pc'[d] = pc[d]
<1>1. /\ rec'[c] = r /\ undo'[c].by = by /\ undo'[c].cursor = Len(r.effects)
      /\ ~undo'[c].bad /\ pc'[c] = "undoing" /\ \A d \in Cells \ {c} : pc'[d] = pc[d]
  BY SMTT(60) DEF StartUndo, TypeInv, CellOK
<1>2. DOMAIN r.effects = 1..Len(r.effects) /\ Len(r.effects) \in Nat
  BY DomainLen DEF Record
<1>3. \A i \in DOMAIN r.effects : ~(i > Len(r.effects))
  BY SMTT(60), <1>2
<1>4. UndoInv(c)'
  BY <1>1, <1>3 DEF UndoInv, Whole
<1>5. HandleInv(c)'
  BY <1>1 DEF HandleInv, InCall, Calling
<1> QED BY <1>1, <1>4, <1>5 DEF Honest

(* A cell that holds no handle has nothing to be true of.                   *)
LEMMA OutsideHonest ==
    ASSUME NEW c \in Cells, Whole(journal'[c]), pc'[c] \in {"idle", "crashed", "reconciling"}
    PROVE  Honest(c)'
BY DEF Honest, HandleInv, UndoInv, InCall, Calling

(* A handle between two calls.                                              *)
LEMMA OpenHonest ==
    ASSUME NEW c \in Cells, Whole(journal'[c]), pc'[c] = "open",
           Whole(rec'[c]), Follows(rec'[c].state, journal'[c].state)
    PROVE  Honest(c)'
BY DEF Honest, HandleInv, UndoInv, InCall, Calling

(* The record rollback_record leaves is true: it is RolledBack only when    *)
(* every effect was restored.                                               *)
LEMMA UndoneWhole ==
    ASSUME TypeInv, NEW c \in Cells, Undone(c), UndoInv(c)
    PROVE  Whole(RolledBackRecord(c))
<1> DEFINE r == RolledBackRecord(c)
<1>1. r.effects = rec[c].effects /\ r.state \in {"RolledBack", "RecoveryRequired"}
  BY RolledBackType
<1>2. r.state = rollback_state(rec[c].state, undo[c].bad)
  BY DEF RolledBackRecord, TypeInv, CellOK, Record
<1>3. undo[c].bad => r.state = "RecoveryRequired"
  BY <1>2 DEF rollback_state
<1>4. \A i \in DOMAIN rec[c].effects : i > undo[c].cursor
  <2>1. rec[c].effects \in Seq(Effect) /\ undo[c].cursor = 0
    BY DEF TypeInv, CellOK, Record, Undone
  <2> QED BY SMTT(60), <2>1, DomainLen
<1>5. \A i \in DOMAIN rec[c].effects : rec[c].effects[i].restored \/ undo[c].bad
  BY <1>4 DEF UndoInv, Undone
<1> HIDE DEF r
<1>6. Whole(r)
  BY <1>1, <1>3, <1>5 DEF Whole
<1> QED BY <1>6 DEF r

-----------------------------------------------------------------------------
(* One lemma per kind of step.                                              *)

(* begin opens an empty handle or one with the record of its journal.       *)
LEMMA BeginOutcome ==
    ASSUME TypeInv, WriteAheadInv, OutcomeInv, NEW c \in Cells,
           BeginFresh(c) \/ BeginAdopt(c) \/ ReconcileStart(c)
    PROVE  Sound
<1>1. Whole(journal[c]) /\ lease = NoCell /\ pc[c] = "idle"
  BY DEF OutcomeInv, Honest, BeginFresh, BeginAdopt, ReconcileStart
<1>2. CASE BeginFresh(c)
  <2> DEFINE r == [state |-> "Prepared", effects |-> <<>>]
  <2>1. PICK out \in PersistOutcomes :
          /\ persist_record(c, r, out)
          /\ IF out = "ok"
             THEN pc' = [pc EXCEPT ![c] = "open"] /\ rec' = [rec EXCEPT ![c] = r]
             ELSE UNCHANGED pc
    BY <1>2 DEF BeginFresh
  <2>2. r \in Record /\ r.state = "Prepared" /\ r.effects = <<>> /\ journal[c].state = "none"
    BY <1>2, Constructors DEF BeginFresh
  <2> HIDE DEF r
  <2>3. Whole(r)
    BY SMTT(60), <2>2 DEF Whole
  <2>4. Forward(journal[c].state, r.state) /\ Follows(r.state, r.state)
    BY <2>2 DEF Forward, Follows
  <2>5. /\ Whole(journal'[c]) /\ (out # "store" => journal'[c] = r) /\ Monotone(c)
        /\ \A d \in Cells \ {c} : journal'[d] = journal[d]
    <3>1. persist_record(c, r, out)
      BY <2>1
    <3> QED BY SMTT(60), <1>1, <2>2, <2>3, <2>4, <3>1, Published
  <2>6. /\ \A d \in Cells \ {c} : pc'[d] = pc[d]
        /\ \/ pc'[c] = "open" /\ rec'[c] = r /\ journal'[c] = r
           \/ pc'[c] = "idle"
    <3>1. CASE out = "ok"
      BY <2>1, <2>5, <3>1 DEF TypeInv, CellOK
    <3>2. CASE out # "ok"
      BY <1>1, <2>1, <3>2
    <3> QED BY <3>1, <3>2
  <2>7. Honest(c)'
    BY <2>3, <2>4, <2>5, <2>6, OpenHonest, OutsideHonest
  <2> QED BY <1>1, <2>5, <2>6, <2>7, OwnOutcome
<1>3. CASE BeginAdopt(c)
  <2>1. /\ \A d \in Cells \ {c} : pc'[d] = pc[d]
        /\ pc'[c] = "open" /\ rec'[c] = journal[c] /\ journal' = journal
        /\ journal[c].state \in {"Prepared", "Applying"}
    BY SMTT(60), <1>3 DEF BeginAdopt, TypeInv, CellOK
  <2>2. Follows(rec'[c].state, journal'[c].state)
    BY <2>1 DEF Follows
  <2>3. Honest(c)'
    BY <1>1, <2>1, <2>2, OpenHonest
  <2> QED BY <1>1, <2>1, <2>3, OwnOutcome, Stays
<1>4. CASE ReconcileStart(c)
  <2>1. /\ \A d \in Cells \ {c} : pc'[d] = pc[d]
        /\ pc'[c] = "reconciling" /\ journal' = journal
    BY SMTT(60), <1>4 DEF ReconcileStart, TypeInv, CellOK
  <2>2. Honest(c)'
    BY <1>1, <2>1, OutsideHonest
  <2> QED BY <1>1, <2>1, <2>2, OwnOutcome, Stays
<1> QED BY <1>2, <1>3, <1>4

(* Publishing a preparation.                                                *)
LEMMA PrepareOutcome ==
    ASSUME TypeInv, WriteAheadInv, OutcomeInv, NEW c \in Cells, NEW q \in Requests,
           ApplyPrepare(c, q)
    PROVE  Sound
<1> DEFINE e == [path |-> q.path, kind |-> q.kind, before |-> files[q.path],
                 after |-> q.after, receipt |-> FALSE, restored |-> FALSE]
           r == [state |-> "Applying", effects |-> Append(rec[c].effects, e)]
<1>1. e \in Effect /\ ~e.restored
  BY DEF Requests, Effect, TypeInv, DiskOK
<1>2. /\ pc[c] = "open" /\ lease = c /\ Whole(journal[c]) /\ Whole(rec[c])
      /\ Follows(rec[c].state, journal[c].state) /\ rec[c].state \in {"Prepared", "Applying"}
      /\ rec[c].effects \in Seq(Effect)
  <2>1. pc[c] = "open" /\ transition_allowed(rec[c].state, "Applying")
    BY DEF ApplyPrepare
  <2>2. rec[c].state \in {"Prepared", "Applying"}
    BY <2>1 DEF transition_allowed
  <2> QED BY <2>1, <2>2
          DEF WriteAheadInv, LeaseInv, OutcomeInv, Honest, HandleInv, InCall, TypeInv, CellOK, Record
<1>3. r \in Record /\ r.state = "Applying" /\ r.effects = Append(rec[c].effects, e)
  <2> HIDE DEF e
  <2> QED BY <1>1, <1>2, AppendEffect DEF Record, States
<1>4. PICK out \in PersistOutcomes :
        /\ persist_record(c, r, out) /\ rec' = [rec EXCEPT ![c] = r]
        /\ IF out = "ok" THEN pc' = [pc EXCEPT ![c] = "dispatch"] ELSE UNCHANGED pc
  BY DEF ApplyPrepare
<1> HIDE DEF r, e
<1>5. Whole(r)
  <2> DEFINE s == rec[c].effects
             n == Len(s)
  <2>1. /\ r.effects \in Seq(Effect) /\ Len(r.effects) = n + 1
        /\ (\A i \in 1..n : r.effects[i] = s[i]) /\ r.effects[n+1] = e
    <3>1. s \in Seq(Effect) /\ r.effects = Append(s, e)
      BY <1>2, <1>3
    <3> HIDE DEF s
    <3>2. /\ Append(s, e) \in Seq(Effect) /\ Len(Append(s, e)) = n + 1
          /\ (\A i \in 1..n : Append(s, e)[i] = s[i]) /\ Append(s, e)[n+1] = e
      BY <1>1, <3>1, PushedEffect
    <3> QED BY <3>1, <3>2
  <2>2. \A i \in 1..n : ~s[i].restored
    BY <1>2, DomainLen DEF Whole
  <2>3. n \in Nat /\ DOMAIN r.effects = 1..n+1
    BY <1>2, <2>1, DomainLen
  <2> HIDE DEF s, n
  <2>4. \A i \in 1..n+1 : i \in 1..n \/ i = n+1
    BY SMTT(60), <2>3
  <2>5. \A i \in DOMAIN r.effects : ~r.effects[i].restored
    BY <1>1, <2>1, <2>2, <2>3, <2>4
  <2> QED BY <1>3, <2>5 DEF Whole
<1>6. /\ Forward(journal[c].state, r.state) /\ Follows(r.state, journal[c].state)
      /\ Follows(r.state, r.state)
  BY <1>2, <1>3, HandleForward
<1>7. /\ Whole(journal'[c]) /\ journal'[c].state \in {journal[c].state, r.state} /\ Monotone(c)
      /\ \A d \in Cells \ {c} : journal'[d] = journal[d]
  BY <1>2, <1>3, <1>4, <1>5, <1>6, Published
<1>8. /\ rec'[c] = r /\ pc'[c] \in {"open", "dispatch"}
      /\ \A d \in Cells \ {c} : pc'[d] = pc[d]
  BY <1>2, <1>4 DEF TypeInv, CellOK
<1>9. Honest(c)'
  <2>1. Follows(rec'[c].state, journal'[c].state) /\ Whole(rec'[c]) /\ rec'[c].state = "Applying"
    BY <1>3, <1>5, <1>6, <1>7, <1>8
  <2> QED BY <1>7, <1>8, <2>1 DEF Honest, HandleInv, UndoInv
<1> QED BY <1>2, <1>7, <1>8, <1>9, OwnOutcome

(* FileEngine::apply does not touch the journal, and changes at most the    *)
(* preimage of the effect in flight.                                        *)
LEMMA EngineOutcome ==
    ASSUME TypeInv, WriteAheadInv, OutcomeInv, NEW c \in Cells, EngineApply(c)
    PROVE  Sound
<1> DEFINE e == rec[c].effects[Len(rec[c].effects)]
           r == [rec[c] EXCEPT !.effects[Len(rec[c].effects)].before = files[e.path]]
<1>1. /\ pc[c] = "dispatch" /\ rec[c] \in Record /\ rec[c].effects # <<>> /\ journal' = journal
      /\ lease = c /\ Whole(journal[c]) /\ Whole(rec[c]) /\ rec[c].state = "Applying"
      /\ Follows(rec[c].state, journal[c].state)
  <2>1. pc[c] = "dispatch" /\ journal' = journal
    BY DEF EngineApply
  <2> QED BY <2>1 DEF TypeInv, CellOK, Calling, WriteAheadInv, LeaseInv, OutcomeInv, Honest,
                      HandleInv, InCall
<1>2. e \in Effect
  BY SMTT(60), <1>1, EmptyEffects, EffectAt DEF Record
<1>3. files[e.path] \in Image
  BY <1>2 DEF Effect, TypeInv, DiskOK
<1>4. /\ UNCHANGED rec \/ rec' = [rec EXCEPT ![c] = r]
      /\ \E p \in Calling : pc' = [pc EXCEPT ![c] = p]
  BY DEF EngineApply, Calling
<1>5. /\ r \in Record /\ r.state = rec[c].state /\ Len(r.effects) = Len(rec[c].effects)
      /\ \A j \in 1..Len(rec[c].effects) : r.effects[j].restored = rec[c].effects[j].restored
  BY <1>1, <1>3, BeforeRecord
<1> HIDE DEF r, e
<1>6. Whole(r)
  <2>1. DOMAIN r.effects = 1..Len(rec[c].effects) /\ DOMAIN rec[c].effects = 1..Len(rec[c].effects)
    BY <1>1, <1>5, DomainLen DEF Record
  <2> QED BY <1>1, <1>5, <2>1 DEF Whole
<1>7. /\ rec'[c] = rec[c] \/ rec'[c] = r
      /\ pc'[c] \in Calling /\ \A d \in Cells \ {c} : pc'[d] = pc[d]
  BY <1>4 DEF TypeInv, CellOK
<1>8. Whole(rec'[c]) /\ rec'[c].state = "Applying"
  BY <1>1, <1>5, <1>6, <1>7
<1>9. Honest(c)'
  BY <1>1, <1>7, <1>8 DEF Honest, HandleInv, UndoInv, Calling
<1> QED BY <1>1, <1>7, <1>9, OwnOutcome, Stays

(* Dropping the last preparation of an Applying record.                     *)
LEMMA PopOutcome ==
    ASSUME TypeInv, NEW c \in Cells, Honest(c), pc[c] \in Calling, NEW x, PopAndPersist(c, x)
    PROVE  /\ Honest(c)' /\ Monotone(c)
           /\ \A d \in Cells \ {c} : pc'[d] = pc[d] /\ journal'[d] = journal[d]
<1> DEFINE es == Popped(rec[c].effects)
           r == [state |-> IF es = <<>> THEN "Prepared" ELSE rec[c].state, effects |-> es]
<1>1. /\ rec[c].effects \in Seq(Effect) /\ rec[c].effects # <<>> /\ Whole(journal[c])
      /\ Whole(rec[c]) /\ rec[c].state = "Applying" /\ Follows(rec[c].state, journal[c].state)
  BY DEF TypeInv, CellOK, Record, Honest, HandleInv, InCall, Calling
<1>2. /\ es \in Seq(Effect) /\ Len(es) = Len(rec[c].effects) - 1
      /\ \A j \in 1..Len(rec[c].effects)-1 : es[j] = rec[c].effects[j]
  BY <1>1, FrontOfEffects
<1>3. PICK out \in PersistOutcomes : persist_record(c, r, out) /\ rec' = [rec EXCEPT ![c] = r]
  BY DEF PopAndPersist
<1> HIDE DEF es
<1>4. r \in Record /\ r.state \in {"Prepared", "Applying"} /\ r.effects = es
  BY <1>1, <1>2 DEF Record, States
<1> HIDE DEF r
<1>5. Whole(r)
  <2>1. \A j \in DOMAIN es : j \in DOMAIN rec[c].effects /\ es[j] = rec[c].effects[j]
    BY SMTT(60), <1>1, <1>2, DomainLen
  <2>2. \A j \in DOMAIN rec[c].effects : ~rec[c].effects[j].restored
    BY <1>1 DEF Whole
  <2> QED BY <1>4, <2>1, <2>2 DEF Whole
<1>6. /\ Forward(journal[c].state, r.state) /\ Follows(r.state, journal[c].state)
      /\ Follows(r.state, r.state)
  BY <1>1, <1>4, HandleForward
<1>7. /\ Whole(journal'[c]) /\ journal'[c].state \in {journal[c].state, r.state} /\ Monotone(c)
      /\ \A d \in Cells \ {c} : journal'[d] = journal[d]
  BY <1>1, <1>3, <1>4, <1>5, <1>6, Published
<1>8. rec'[c] = r /\ pc'[c] = "open" /\ \A d \in Cells \ {c} : pc'[d] = pc[d]
  BY <1>3 DEF PopAndPersist, TypeInv, CellOK
<1>9. Honest(c)'
  BY <1>5, <1>6, <1>7, <1>8, OpenHonest
<1> QED BY <1>7, <1>8, <1>9

(* Adding the receipt keeps an Applying record true.                        *)
LEMMA ReceiptWhole ==
    ASSUME NEW r \in Record, r.effects # <<>>, r.state = "Applying", Whole(r)
    PROVE  /\ WithReceipt(r) \in Record /\ WithReceipt(r).state = "Applying"
           /\ Whole(WithReceipt(r))
<1>1. /\ WithReceipt(r) \in Record /\ WithReceipt(r).state = "Applying"
      /\ Len(WithReceipt(r).effects) = Len(r.effects)
      /\ \A j \in 1..Len(r.effects) : WithReceipt(r).effects[j].restored = r.effects[j].restored
  BY ReceiptRecord
<1>2. DOMAIN r.effects = DOMAIN WithReceipt(r).effects /\ DOMAIN r.effects = 1..Len(r.effects)
  BY <1>1, DomainLen DEF Record
<1> QED BY <1>1, <1>2 DEF Whole

(* The five ends of apply.                                                  *)
LEMMA ApplyEndOutcome ==
    ASSUME TypeInv, WriteAheadInv, OutcomeInv, NEW c \in Cells,
           \/ ApplyCancelled(c) \/ ApplyAccepted(c) \/ ApplyMismatch(c)
           \/ ApplyRejected(c) \/ ApplyErrored(c)
    PROVE  Sound
<1>1. pc[c] \in Calling
  BY DEF ApplyCancelled, ApplyAccepted, ApplyMismatch, ApplyRejected, ApplyErrored, Calling
<1>2. /\ lease = c /\ Honest(c) /\ Whole(journal[c]) /\ rec[c] \in Record /\ Whole(rec[c])
      /\ rec[c].effects # <<>> /\ rec[c].state = "Applying"
      /\ Follows("Applying", journal[c].state)
  BY <1>1 DEF WriteAheadInv, LeaseInv, OutcomeInv, Honest, HandleInv, InCall, Calling, TypeInv, CellOK
<1> DEFINE r == WithReceipt(rec[c])
<1>3. r \in Record /\ r.state = "Applying" /\ Whole(r)
  BY <1>2, ReceiptWhole
<1> HIDE DEF r
<1>4. CASE \E x : PopAndPersist(c, x)
  BY <1>1, <1>2, <1>4, PopOutcome, OwnOutcome
<1>5. CASE /\ \E by \in {"apply", "mismatch"} : StartUndo(c, by, c, r)
           /\ journal' = journal
  <2>1. Honest(c)' /\ \A d \in Cells \ {c} : pc'[d] = pc[d]
    BY <1>2, <1>3, <1>5, StartUndoHonest DEF Callers
  <2> QED BY <1>2, <1>5, <2>1, OwnOutcome, Stays
<1>6. CASE StartUndo(c, "engine", c, rec[c]) /\ journal' = journal
  <2>1. Honest(c)' /\ \A d \in Cells \ {c} : pc'[d] = pc[d]
    BY <1>2, <1>6, StartUndoHonest DEF Callers
  <2> QED BY <1>2, <1>6, <2>1, OwnOutcome, Stays
<1>7. CASE /\ \E out \in PersistOutcomes : persist_record(c, r, out)
           /\ rec' = [rec EXCEPT ![c] = r] /\ pc' = [pc EXCEPT ![c] = "open"]
  <2>1. /\ Forward(journal[c].state, r.state) /\ Follows(r.state, journal[c].state)
        /\ Follows(r.state, r.state)
    BY <1>2, <1>3, HandleForward
  <2>2. /\ Whole(journal'[c]) /\ journal'[c].state \in {journal[c].state, r.state} /\ Monotone(c)
        /\ \A d \in Cells \ {c} : journal'[d] = journal[d]
    BY <1>2, <1>3, <1>7, <2>1, Published
  <2>3. rec'[c] = r /\ pc'[c] = "open" /\ \A d \in Cells \ {c} : pc'[d] = pc[d]
    BY <1>7 DEF TypeInv, CellOK
  <2>4. Honest(c)'
    BY <1>3, <2>1, <2>2, <2>3, OpenHonest
  <2> QED BY <1>2, <2>2, <2>3, <2>4, OwnOutcome
<1>8. CASE ApplyAccepted(c)
  BY <1>5, <1>7, <1>8 DEF ApplyAccepted, r
<1>9. CASE ApplyMismatch(c)
  BY <1>5, <1>9 DEF ApplyMismatch, r
<1> QED BY <1>4, <1>6, <1>8, <1>9 DEF ApplyCancelled, ApplyRejected, ApplyErrored

(* One restore of rollback_record: behind the cursor every effect is        *)
(* restored, or the failure is remembered.                                  *)
LEMMA RestoreOutcome ==
    ASSUME TypeInv, WriteAheadInv, OutcomeInv, NEW c \in Cells, RestoreStep(c)
    PROVE  Sound
<1> DEFINE i == undo[c].cursor
           r == [rec[c] EXCEPT !.effects[i].restored = TRUE]
           u == [undo[c] EXCEPT !.cursor = i - 1]
           v == [undo[c] EXCEPT !.cursor = i - 1, !.bad = TRUE]
<1>1. /\ pc[c] = "undoing" /\ rec[c] \in Record /\ undo[c] \in UndoProgress
      /\ i \in 0..Len(rec[c].effects) /\ i > 0 /\ Len(rec[c].effects) \in Nat
      /\ DOMAIN rec[c].effects = 1..Len(rec[c].effects)
      /\ UNCHANGED <<journal, pc>>
  BY DomainLen DEF RestoreStep, TypeInv, CellOK, Record
<1>2. i \in 1..Len(rec[c].effects)
  BY SMTT(60), <1>1
<1>3. /\ r \in Record /\ r.state = rec[c].state /\ Len(r.effects) = Len(rec[c].effects)
      /\ r.effects[i].restored
      /\ \A j \in 1..Len(rec[c].effects) : j # i => r.effects[j] = rec[c].effects[j]
  BY <1>1, <1>2, RestoredRecord
<1>4. /\ u.cursor = i - 1 /\ u.by = undo[c].by /\ u.of = undo[c].of /\ u.bad = undo[c].bad
      /\ v.cursor = i - 1 /\ v.by = undo[c].by /\ v.of = undo[c].of /\ v.bad = TRUE
  BY <1>1 DEF UndoProgress
<1>5. \/ rec[c].effects[i].restored /\ rec' = rec /\ undo' = [undo EXCEPT ![c].cursor = i - 1]
      \/ rec' = [rec EXCEPT ![c] = r] /\ undo' = [undo EXCEPT ![c].cursor = i - 1]
      \/ /\ ~rec[c].effects[i].restored /\ rec' = rec
         /\ undo' = [undo EXCEPT ![c].cursor = i - 1, ![c].bad = TRUE]
  BY DEF RestoreStep
<1>6. \/ rec[c].effects[i].restored /\ rec'[c] = rec[c] /\ undo'[c] = u
      \/ rec'[c] = r /\ undo'[c] = u
      \/ ~rec[c].effects[i].restored /\ rec'[c] = rec[c] /\ undo'[c] = v
  BY <1>5 DEF TypeInv, CellOK
<1>7. \A j \in 1..Len(rec[c].effects) : j > i - 1 => j = i \/ j > i
  BY SMTT(60), <1>1, <1>2
<1>8. DOMAIN r.effects = 1..Len(rec[c].effects)
  BY <1>3, DomainLen DEF Record
<1> HIDE DEF i, r, u, v
<1>9. /\ lease = c /\ Whole(journal[c])
      /\ \A j \in 1..Len(rec[c].effects) :
           /\ j > i => rec[c].effects[j].restored \/ undo[c].bad
           /\ rec[c].state = "RolledBack" => rec[c].effects[j].restored
      /\ rec[c].state = "RolledBack" => ~undo[c].bad
      /\ undo[c].by # "reconcile" => Follows(rec[c].state, journal[c].state)
      /\ undo[c].by = "reconcile" =>
           /\ rec[c].state = journal[undo[c].of].state
           /\ rec[c].state \in {"Prepared", "Applying", "Compensating", "RecoveryRequired"}
  BY <1>1 DEF WriteAheadInv, LeaseInv, OutcomeInv, Honest, UndoInv, i
<1>10. /\ rec'[c].state = rec[c].state /\ DOMAIN rec'[c].effects = 1..Len(rec[c].effects)
       /\ undo'[c].cursor = i - 1 /\ undo'[c].by = undo[c].by /\ undo'[c].of = undo[c].of
  BY <1>1, <1>3, <1>4, <1>6, <1>8
<1>11. \A j \in 1..Len(rec[c].effects) :
          rec[c].effects[j].restored => rec'[c].effects[j].restored
  BY <1>3, <1>6
<1>12. (undo[c].bad => undo'[c].bad) /\ (rec'[c].effects[i].restored \/ undo'[c].bad)
  BY <1>3, <1>4, <1>6
<1>13. rec[c].state = "RolledBack" => ~undo'[c].bad
  BY <1>2, <1>4, <1>6, <1>9
<1>14. UndoInv(c)'
  <2>1. ASSUME NEW j \in DOMAIN rec'[c].effects
        PROVE  /\ j > undo'[c].cursor => rec'[c].effects[j].restored \/ undo'[c].bad
               /\ rec'[c].state = "RolledBack" => rec'[c].effects[j].restored
    BY <1>7, <1>9, <1>10, <1>11, <1>12, <2>1
  <2> QED BY <1>1, <1>9, <1>10, <1>13, <2>1 DEF UndoInv
<1>15. Honest(c)'
  BY <1>1, <1>9, <1>14 DEF Honest, HandleInv, InCall, Calling
<1> QED BY <1>1, <1>9, <1>15, OwnOutcome, Stays

(* Publishing the outcome of a rollback.                                    *)
LEMMA UndoneOutcome ==
    ASSUME TypeInv, WriteAheadInv, OutcomeInv, NEW c \in Cells,
           UndoneInCall(c) \/ UndoneInRollback(c) \/ UndoneInDrop(c)
    PROVE  Sound
<1> DEFINE r == RolledBackRecord(c)
<1>1. Undone(c) /\ pc[c] = "undoing" /\ undo[c].by # "reconcile"
  BY DEF UndoneInCall, UndoneInRollback, UndoneInDrop, Undone
<1>2. lease = c /\ Whole(journal[c]) /\ UndoInv(c)
  BY <1>1 DEF WriteAheadInv, LeaseInv, OutcomeInv, Honest
<1>3. r \in Record /\ r.state = rollback_state(rec[c].state, undo[c].bad) /\ Whole(r)
  BY <1>1, <1>2, RolledBackType, UndoneWhole DEF RolledBackRecord, TypeInv, CellOK, Record
<1>4. /\ Forward(journal[c].state, r.state) /\ Follows(r.state, journal[c].state)
      /\ Follows(r.state, r.state)
  <2>1. /\ undo[c].bad \in BOOLEAN /\ Follows(rec[c].state, journal[c].state)
        /\ rec[c].state = "RolledBack" => ~undo[c].bad
    BY <1>1, <1>2 DEF UndoInv, TypeInv, CellOK, UndoProgress
  <2> QED BY <1>3, <2>1, RollbackForward
<1> HIDE DEF r
<1>5. \E out \in PersistOutcomes : persist_record(c, r, out)
  BY DEF UndoneInCall, UndoneInRollback, UndoneInDrop, r
<1>6. /\ Whole(journal'[c]) /\ journal'[c].state \in {journal[c].state, r.state} /\ Monotone(c)
      /\ \A d \in Cells \ {c} : journal'[d] = journal[d]
  BY <1>2, <1>3, <1>4, <1>5, Published
<1>7. Follows(r.state, journal'[c].state)
  BY <1>4, <1>6
<1>8. Honest(c)' /\ \A d \in Cells \ {c} : pc'[d] = pc[d]
  <2>1. CASE rec' = [rec EXCEPT ![c] = r] /\ pc' = [pc EXCEPT ![c] = "open"]
    <3>1. rec'[c] = r /\ pc'[c] = "open" /\ \A d \in Cells \ {c} : pc'[d] = pc[d]
      BY <2>1 DEF TypeInv, CellOK
    <3> QED BY <1>3, <1>6, <1>7, <3>1, OpenHonest
  <2>2. CASE Idle(c)
    <3>1. pc'[c] = "idle" /\ \A d \in Cells \ {c} : pc'[d] = pc[d]
      BY <2>2 DEF Idle, TypeInv, CellOK
    <3> QED BY <1>6, <3>1, OutsideHonest
  <2>3. CASE StartUndo(c, "drop", c, r)
    BY <1>3, <1>6, <1>7, <2>3, StartUndoHonest DEF Callers
  <2> QED BY <2>1, <2>2, <2>3 DEF UndoneInCall, UndoneInRollback, UndoneInDrop, r
<1> QED BY <1>2, <1>6, <1>8, OwnOutcome

(* rollback and Drop start from the record in memory.                       *)
LEMMA EndHandleOutcome ==
    ASSUME TypeInv, WriteAheadInv, OutcomeInv, NEW c \in Cells,
           Rollback(c) \/ Drop(c) \/ CommitCancelled(c)
    PROVE  Sound
<1>1. /\ pc[c] = "open" /\ journal' = journal
      /\ \/ Idle(c)
         \/ \E by \in Callers \ {"reconcile"} : StartUndo(c, by, c, rec[c])
  BY DEF Rollback, Drop, CommitCancelled, Callers
<1>2. /\ lease = c /\ Whole(journal[c]) /\ rec[c] \in Record /\ Whole(rec[c])
      /\ Follows(rec[c].state, journal[c].state)
  BY <1>1 DEF WriteAheadInv, LeaseInv, OutcomeInv, Honest, HandleInv, InCall, TypeInv, CellOK
<1>3. Honest(c)' /\ \A d \in Cells \ {c} : pc'[d] = pc[d]
  <2>1. CASE Idle(c)
    <3>1. pc'[c] = "idle" /\ \A d \in Cells \ {c} : pc'[d] = pc[d]
      BY <2>1 DEF Idle, TypeInv, CellOK
    <3> QED BY <1>1, <1>2, <3>1, OutsideHonest
  <2>2. CASE \E by \in Callers \ {"reconcile"} : StartUndo(c, by, c, rec[c])
    BY <1>1, <1>2, <2>2, StartUndoHonest
  <2> QED BY <1>1, <2>1, <2>2
<1> QED BY <1>1, <1>2, <1>3, OwnOutcome, Stays

(* commit publishes only records whose effects all have a receipt;          *)
(* compensate_committed only ones that are committed.                       *)
LEMMA CommitOutcome ==
    ASSUME TypeInv, WriteAheadInv, OutcomeInv, NEW c \in Cells,
           CommitAgain(c) \/ CommitPublish(c) \/ Compensate(c)
    PROVE  Sound
<1>1. pc[c] = "open"
  BY DEF CommitAgain, CommitPublish, Compensate
<1>2. /\ lease = c /\ Whole(journal[c]) /\ rec[c] \in Record /\ Whole(rec[c])
      /\ Follows(rec[c].state, journal[c].state)
  BY <1>1 DEF WriteAheadInv, LeaseInv, OutcomeInv, Honest, HandleInv, InCall, TypeInv, CellOK
<1>3. CASE CommitAgain(c)
  <2>1. UNCHANGED <<journal, pc, rec>>
    BY <1>3 DEF CommitAgain
  <2>2. Honest(c)'
    BY <1>1, <1>2, <2>1, OpenHonest
  <2> QED BY <1>2, <2>1, <2>2, OwnOutcome, Stays
<1>4. CASE CommitPublish(c)
  <2> DEFINE r == [rec[c] EXCEPT !.state = "Committed"]
  <2>1. r \in Record /\ r.state = "Committed" /\ r.effects = rec[c].effects
    BY <1>2 DEF Record, States
  <2>2. /\ \E out \in PersistOutcomes : persist_record(c, r, out)
        /\ rec' = [rec EXCEPT ![c] = r] /\ UNCHANGED pc
        /\ rec[c].state \in {"Prepared", "Applying"} /\ AllReceipted(rec[c])
    BY <1>4 DEF CommitPublish
  <2> HIDE DEF r
  <2>3. Whole(r)
    BY <1>2, <2>1, <2>2 DEF Whole, AllReceipted
  <2>4. /\ Forward(journal[c].state, r.state) /\ Follows(r.state, journal[c].state)
        /\ Follows(r.state, r.state)
    BY <1>2, <2>1, <2>2, HandleForward
  <2>5. /\ Whole(journal'[c]) /\ journal'[c].state \in {journal[c].state, r.state} /\ Monotone(c)
        /\ \A d \in Cells \ {c} : journal'[d] = journal[d]
    BY <1>2, <2>1, <2>2, <2>3, <2>4, Published
  <2>6. rec'[c] = r
    BY <2>2 DEF TypeInv, CellOK
  <2>7. Honest(c)'
    BY <1>1, <2>2, <2>3, <2>4, <2>5, <2>6, OpenHonest
  <2> QED BY <1>2, <2>2, <2>5, <2>7, OwnOutcome
<1>5. CASE Compensate(c)
  <2> DEFINE r == [rec[c] EXCEPT !.state = "Compensating"]
  <2>1. r \in Record /\ r.state = "Compensating" /\ r.effects = rec[c].effects
    BY <1>2 DEF Record, States
  <2>2. PICK out \in PersistOutcomes :
          /\ persist_record(c, r, out)
          /\ IF out = "ok" THEN StartUndo(c, "compensate", c, r) ELSE UNCHANGED <<rec, pc>>
    BY <1>5 DEF Compensate
  <2>3. rec[c].state = "Committed"
    BY <1>5 DEF Compensate
  <2> HIDE DEF r
  <2>4. Whole(r)
    BY <2>1 DEF Whole
  <2>5. /\ Forward(journal[c].state, r.state) /\ Follows(rec[c].state, r.state)
        /\ Follows(r.state, r.state)
    BY <1>2, <2>1, <2>3, HandleForward
  <2>6. /\ Whole(journal'[c]) /\ journal'[c].state \in {journal[c].state, r.state} /\ Monotone(c)
        /\ out # "store" => journal'[c] = r
        /\ \A d \in Cells \ {c} : journal'[d] = journal[d]
    <3>1. persist_record(c, r, out)
      BY <2>2
    <3> QED BY SMTT(60), <1>2, <2>1, <2>4, <2>5, <3>1, Published
  <2>7. Honest(c)' /\ \A d \in Cells \ {c} : pc'[d] = pc[d]
    <3>1. CASE out = "ok"
      <4>1. journal'[c] = r /\ StartUndo(c, "compensate", c, r)
        BY <2>2, <2>6, <3>1
      <4> QED BY <2>1, <2>4, <2>5, <2>6, <4>1, StartUndoHonest DEF Callers
    <3>2. CASE out # "ok"
      <4>1. rec'[c] = rec[c] /\ pc' = pc
        BY <2>2, <3>2
      <4>2. Follows(rec[c].state, journal'[c].state)
        BY <1>2, <2>5, <2>6
      <4> QED BY <1>1, <1>2, <2>6, <4>1, <4>2, OpenHonest
    <3> QED BY <3>1, <3>2
  <2> QED BY <1>2, <2>6, <2>7, OwnOutcome
<1> QED BY <1>3, <1>4, <1>5

(* reconcile takes a journal that is not final, and publishes it rolled     *)
(* back or quarantines it with its preimages.                               *)
LEMMA ReconcileOutcome ==
    ASSUME TypeInv, WriteAheadInv, OutcomeInv, NEW c \in Cells,
           ReconcileNext(c) \/ UndoneInReconcile(c) \/ ReconcileEnd(c)
    PROVE  Sound
<1>1. lease = c /\ Honest(c) /\ Whole(journal[c]) /\ pc[c] \in {"undoing", "reconciling"}
  BY DEF ReconcileNext, UndoneInReconcile, ReconcileEnd, Undone, WriteAheadInv, LeaseInv,
         OutcomeInv, Honest
<1>2. CASE ReconcileNext(c)
  <2>1. PICK d \in Cells : /\ StartUndo(c, "reconcile", d, journal[d])
                           /\ journal[d].state \notin {"none", "Committed", "RolledBack"}
    BY <1>2 DEF ReconcileNext, Pending
  <2>2. /\ rec'[c] = journal[d] /\ undo'[c].by = "reconcile" /\ undo'[c].of = d
        /\ undo'[c].cursor = Len(journal[d].effects) /\ ~undo'[c].bad
        /\ pc'[c] = "undoing" /\ \A x \in Cells \ {c} : pc'[x] = pc[x]
    BY SMTT(60), <2>1 DEF StartUndo, TypeInv, CellOK
  <2>3. journal' = journal /\ journal[d] \in Record
    BY <1>2 DEF ReconcileNext, TypeInv, DiskOK
  <2>4. \A i \in DOMAIN journal[d].effects : ~(i > Len(journal[d].effects))
    <3>1. journal[d].effects \in Seq(Effect)
      BY <2>3 DEF Record
    <3> QED BY SMTT(60), <3>1, DomainLen
  <2>5. journal[d].state \in {"Prepared", "Applying", "Compensating", "RecoveryRequired"}
    BY <2>1, <2>3 DEF Record, States
  <2>6. UndoInv(c)'
    BY <2>2, <2>3, <2>4, <2>5 DEF UndoInv
  <2>7. Honest(c)'
    BY <1>1, <2>2, <2>3, <2>6 DEF Honest, HandleInv, InCall, Calling
  <2> QED BY <1>1, <2>2, <2>3, <2>7, OwnOutcome, Stays
<1>3. CASE ReconcileEnd(c)
  <2>1. /\ pc'[c] = "idle" /\ journal' = journal
        /\ \A d \in Cells \ {c} : pc'[d] = pc[d]
    BY <1>3 DEF ReconcileEnd, Idle, TypeInv, CellOK
  <2>2. Honest(c)'
    BY <1>1, <2>1, OutsideHonest
  <2> QED BY <1>1, <2>1, <2>2, OwnOutcome, Stays
<1>4. CASE UndoneInReconcile(c)
  <2> DEFINE r == RolledBackRecord(c)
  <2>1. PICK d \in Cells : d = undo[c].of
    BY <1>4 DEF UndoneInReconcile, TypeInv, CellOK
  <2>2. Undone(c) /\ pc[c] = "undoing" /\ undo[c].by = "reconcile"
    BY <1>4 DEF UndoneInReconcile, Undone
  <2>3. /\ rec[c].state = journal[d].state
        /\ rec[c].state \in {"Prepared", "Applying", "Compensating", "RecoveryRequired"}
        /\ Preimages(journal[d].effects) = Preimages(rec[c].effects)
    BY <1>1, <2>1, <2>2 DEF Honest, UndoInv, WriteAheadInv, MemoryInv
  <2>4. /\ r \in Record /\ r.state = rollback_state(rec[c].state, undo[c].bad) /\ Whole(r)
        /\ Preimages(r.effects) = Preimages(journal[d].effects)
    BY <1>1, <2>2, <2>3, RolledBackType, UndoneWhole
    DEF Honest, RolledBackRecord, TypeInv, CellOK, Record
  <2>5. Whole(journal[d])
    BY DEF OutcomeInv, Honest
  <2>6. r.state = "RolledBack" => Forward(journal[d].state, r.state)
    <3>1. r.state = "RolledBack" => rec[c].state # "RecoveryRequired"
      BY <2>4 DEF rollback_state, transition_allowed
    <3> QED BY <2>3, <3>1 DEF Forward
  <2> HIDE DEF r
  <2>7. /\ pc'[c] \in {"idle", "reconciling"} /\ \A x \in Cells \ {c} : pc'[x] = pc[x]
    BY <1>4 DEF UndoneInReconcile, Idle, TypeInv, CellOK
  <2>8. \/ Quarantine(d, journal[d]) \/ Quarantine(d, r) \/ journal' = journal
        \/ r.state = "RolledBack" /\ \E out \in PersistOutcomes : persist_record(d, r, out)
    BY <1>4, <2>1 DEF UndoneInReconcile, r
  <2>9. /\ Whole(journal'[d]) /\ Monotone(d)
        /\ \A x \in Cells \ {d} : journal'[x] = journal[x]
    <3>1. CASE Quarantine(d, journal[d]) \/ Quarantine(d, r)
      <4>1. /\ journal'[d] = NoRecord
            /\ Preimages(poisoned'[d].effects) = Preimages(journal[d].effects)
            /\ \A x \in Cells \ {d} : journal'[x] = journal[x]
        BY <2>4, <3>1 DEF Quarantine, TypeInv, DiskOK
      <4>2. NoRecord.state = "none" /\ NoRecord.effects = <<>>
        BY DEF NoRecord
      <4>3. Whole(journal'[d])
        BY SMTT(60), <4>1, <4>2 DEF Whole
      <4>4. Monotone(d)
        BY <2>3, <4>1, <4>2 DEF Monotone
      <4> QED BY <4>1, <4>3, <4>4
    <3>2. CASE journal' = journal
      BY <2>5, <3>2, Stays
    <3>3. CASE r.state = "RolledBack" /\ \E out \in PersistOutcomes : persist_record(d, r, out)
      BY <2>4, <2>5, <2>6, <3>3, Published
    <3> QED BY <2>8, <3>1, <3>2, <3>3
  <2>10. ASSUME NEW x \in Cells PROVE Honest(x)' /\ Monotone(x)
    <3>1. pc'[x] \in {"idle", "crashed", "reconciling"}
      BY <1>1, <2>7, ConstantsAssumption DEF WriteAheadInv, LeaseInv
    <3>2. Whole(journal'[x])
      BY <2>9 DEF OutcomeInv, Honest
    <3>3. Monotone(x)
      BY <2>9, Stays
    <3> QED BY <3>1, <3>2, <3>3, OutsideHonest
  <2> QED BY <2>10 DEF Sound, OutcomeInv
<1> QED BY <1>2, <1>3, <1>4

(* Cancellation, crashes and foreign edits leave the journals alone.        *)
LEMMA EnvironmentOutcome ==
    ASSUME TypeInv, WriteAheadInv, OutcomeInv,
           \/ \E c \in Cells : Cancel(c) \/ Crash(c)
           \/ \E p \in Paths : ExternalEdit(p)
           \/ UNCHANGED vars
    PROVE  Sound
<1>1. ASSUME NEW c \in Cells, Crash(c) PROVE Sound
  <2>1. /\ pc'[c] = "crashed" /\ \A d \in Cells \ {c} : pc'[d] = pc[d]
        /\ journal' = journal /\ pc[c] \notin {"idle", "crashed"}
    BY SMTT(60), <1>1 DEF Crash, Die, TypeInv, CellOK
  <2>2. lease = c /\ Whole(journal[c])
    BY <2>1 DEF WriteAheadInv, LeaseInv, OutcomeInv, Honest
  <2>3. Honest(c)'
    BY <2>1, <2>2, OutsideHonest
  <2> QED BY <2>1, <2>2, <2>3, OwnOutcome, Stays
<1>2. CASE UNCHANGED <<journal, pc, rec, undo>>
  <2>1. OutcomeInv'
    BY <1>2 DEF OutcomeInv, Honest, HandleInv, UndoInv, InCall, Whole
  <2> QED BY <1>2, <2>1, Stays DEF Sound
<1> QED BY <1>1, <1>2 DEF Cancel, ExternalEdit, vars

-----------------------------------------------------------------------------
(* The invariant holds at first.                                            *)
LEMMA InitOutcome == Init => OutcomeInv
BY SMTT(60) DEF Init, OutcomeInv, Honest, HandleInv, UndoInv, Whole, InCall, Calling, NoRecord

(* Every step keeps the invariant and moves every journal forward.          *)
LEMMA NextOutcome ==
    ASSUME TypeInv, WriteAheadInv, OutcomeInv, [Next]_vars
    PROVE  Sound
<1>1. ASSUME NEW c \in Cells, NEW q \in Requests, ApplyPrepare(c, q) PROVE Sound
  BY <1>1, PrepareOutcome
<1>2. ASSUME NEW c \in Cells, CallStep(c) PROVE Sound
  BY <1>2, EngineOutcome, ApplyEndOutcome, RestoreOutcome, UndoneOutcome, ReconcileOutcome
  DEF CallStep
<1> QED BY <1>1, <1>2, BeginOutcome, CommitOutcome, EndHandleOutcome, EnvironmentOutcome DEF Next

(* A published outcome is true of every effect, in every reachable state:   *)
(* commit publishes Committed only over receipts and never over a restored  *)
(* effect, rollback_record reports RolledBack only when each effect was     *)
(* restored, whatever failed, crashed or was cancelled on the way.          *)
THEOREM OutcomesAreCompleteHolds == Spec => []OutcomesAreComplete
<1>1. TypeInv /\ WriteAheadInv /\ OutcomeInv /\ [Next]_vars => OutcomeInv'
  BY NextOutcome DEF Sound
<1>2. OutcomeInv => OutcomesAreComplete
  BY DEF OutcomeInv, Honest, Whole, OutcomesAreComplete
<1> QED BY <1>1, <1>2, InitType, NextType, InitWriteAhead, NextWriteAhead, InitOutcome, PTL
        DEF Spec

(* The published outcome of a transaction never goes back: every persist    *)
(* follows the transition table from the state on disk, although the record *)
(* in memory may be ahead of it, and a journal leaves its place only for    *)
(* quarantine with the preimages it had.                                    *)
THEOREM JournalMonotoneHolds == Spec => JournalMonotone
<1>1. TypeInv /\ WriteAheadInv /\ OutcomeInv /\ [Next]_vars => OutcomeInv'
  BY NextOutcome DEF Sound
<1>2. TypeInv /\ WriteAheadInv /\ OutcomeInv /\ [Next]_vars => [\A c \in Cells : Monotone(c)]_vars
  BY NextOutcome DEF Sound
<1>3. JournalMonotone <=> [][\A c \in Cells : Monotone(c)]_vars
  BY DEF JournalMonotone, Monotone
<1> QED BY <1>1, <1>2, <1>3, InitType, NextType, InitWriteAhead, NextWriteAhead, InitOutcome, PTL
        DEF Spec

-----------------------------------------------------------------------------
(* Undoing restores the base.  RollbackRestoresBase is not inductive: it    *)
(* says nothing before the last restore.  The invariant says at every step  *)
(* of a handle that undoing the first k effects of its record, last first,  *)
(* leads from the files to the base, and that each restore on the way finds *)
(* what the record says was left in the file.  It is stated without         *)
(* recursion, by the first effect, the last effect and the neighbouring     *)
(* effects on one path.                                                     *)

(* The first k of the effects es lead from the files b to the files f.      *)
Untouched(es, k, f, b) ==
    \A p \in Paths : (\A i \in 1..k : es[i].path # p) => f[p] = b[p]

FirstFromBase(es, k, b) ==
    \A i \in 1..k :
        (\A j \in 1..k : j < i => es[j].path # es[i].path) => es[i].before = b[es[i].path]

LastInFiles(es, k, f) ==
    \A i \in 1..k :
        (\A j \in 1..k : i < j => es[j].path # es[i].path) => f[es[i].path] = es[i].after

Linked(es, k) ==
    \A i, j \in 1..k :
        /\ i < j /\ es[i].path = es[j].path
        /\ \A m \in 1..k : i < m /\ m < j => es[m].path # es[i].path
        => es[j].before = es[i].after

Chained(es, k, f, b) ==
    Untouched(es, k, f, b) /\ FirstFromBase(es, k, b) /\ LastInFiles(es, k, f) /\ Linked(es, k)

(* The last of them may not have been made.                                 *)
InFlight(es, k, f, b) ==
    k > 0 /\ Chained(es, k - 1, f, b) /\ es[k].before = f[es[k].path]

Undoable(es, k, f, b) == Chained(es, k, f, b) \/ InFlight(es, k, f, b)

(* No effect leads from the base to itself, and only there.                 *)
LEMMA ChainedNone ==
    ASSUME NEW es, NEW f \in [Paths -> Image], NEW b \in [Paths -> Image]
    PROVE  Chained(es, 0, f, b) <=> f = b
<1>1. 1..0 = {}
  BY SMTT(60)
<1>2. Chained(es, 0, f, b) <=> \A p \in Paths : f[p] = b[p]
  BY <1>1 DEF Chained, Untouched, FirstFromBase, LastInFiles, Linked
<1> QED BY SMTT(60), <1>2

(* A chain is about the changes the effects make, not their receipts.       *)
LEMMA ChainedSame ==
    ASSUME NEW es, NEW t, NEW k, \A i \in 1..k : SameChange(t[i], es[i]),
           NEW f, NEW b, Chained(es, k, f, b)
    PROVE  Chained(t, k, f, b)
<1>1. Untouched(t, k, f, b)
  BY DEF Chained, Untouched, SameChange
<1>2. FirstFromBase(t, k, b)
  <2> SUFFICES ASSUME NEW i \in 1..k, \A j \in 1..k : j < i => t[j].path # t[i].path
               PROVE  t[i].before = b[t[i].path]
    BY DEF FirstFromBase
  <2> QED BY DEF Chained, FirstFromBase, SameChange
<1>3. LastInFiles(t, k, f)
  <2> SUFFICES ASSUME NEW i \in 1..k, \A j \in 1..k : i < j => t[j].path # t[i].path
               PROVE  f[t[i].path] = t[i].after
    BY DEF LastInFiles
  <2> QED BY DEF Chained, LastInFiles, SameChange
<1>4. Linked(t, k)
  <2> SUFFICES ASSUME NEW i \in 1..k, NEW j \in 1..k, i < j, t[i].path = t[j].path,
                      \A m \in 1..k : i < m /\ m < j => t[m].path # t[i].path
               PROVE  t[j].before = t[i].after
    BY DEF Linked
  <2>1. es[i].path = es[j].path /\ \A m \in 1..k : i < m /\ m < j => es[m].path # es[i].path
    BY DEF SameChange
  <2>2. es[j].before = es[i].after
    BY <2>1 DEF Chained, Linked
  <2> QED BY <2>2 DEF SameChange
<1> QED BY <1>1, <1>2, <1>3, <1>4 DEF Chained

(* An effect that finds its preimage extends the chain.                     *)
LEMMA ChainedApply ==
    ASSUME NEW es \in Seq(Effect), NEW k \in Nat, k + 1 \in 1..Len(es),
           NEW f \in [Paths -> Image], NEW b \in [Paths -> Image], Chained(es, k, f, b),
           es[k+1].before = f[es[k+1].path],
           NEW g, g = [f EXCEPT ![es[k+1].path] = es[k+1].after]
    PROVE  Chained(es, k + 1, g, b)
<1> DEFINE e == es[k+1]
<1>1. e \in Effect /\ e.path \in Paths
  BY EffectAt DEF Effect
<1>2. \A i \in 1..k+1 : i \in 1..k \/ i = k + 1
  BY SMTT(60)
<1>3. \A i \in 1..k : i \in 1..k+1 /\ i < k + 1 /\ ~(k + 1 < i)
  BY SMTT(60)
<1>4. k + 1 \in 1..k+1 /\ ~(k + 1 < k + 1)
  BY SMTT(60)
<1>5. g[e.path] = e.after /\ \A p \in Paths : p # e.path => g[p] = f[p]
  BY <1>1
<1>6. \A i \in 1..k : es[i].path \in Paths
  <2>1. \A i \in 1..k : i \in 1..Len(es)
    BY SMTT(60), DomainLen
  <2> QED BY <2>1, EffectAt DEF Effect
<1> HIDE DEF e
<1>7. Untouched(es, k + 1, g, b)
  BY <1>2, <1>3, <1>4, <1>5 DEF Chained, Untouched, e
<1>8. FirstFromBase(es, k + 1, b)
  <2> SUFFICES ASSUME NEW i \in 1..k+1,
                      \A j \in 1..k+1 : j < i => es[j].path # es[i].path
               PROVE  es[i].before = b[es[i].path]
    BY DEF FirstFromBase
  <2>1. CASE i \in 1..k
    BY <1>3, <2>1 DEF Chained, FirstFromBase
  <2>2. CASE i = k + 1
    <3>1. \A j \in 1..k : es[j].path # e.path
      BY <1>3, <2>2 DEF e
    <3>2. f[e.path] = b[e.path]
      BY <1>1, <3>1 DEF Chained, Untouched
    <3> QED BY <2>2, <3>2 DEF e
  <2> QED BY <1>2, <2>1, <2>2
<1>9. LastInFiles(es, k + 1, g)
  <2> SUFFICES ASSUME NEW i \in 1..k+1,
                      \A j \in 1..k+1 : i < j => es[j].path # es[i].path
               PROVE  g[es[i].path] = es[i].after
    BY DEF LastInFiles
  <2>1. CASE i \in 1..k
    <3>1. e.path # es[i].path
      BY <1>3, <1>4, <2>1 DEF e
    <3>2. f[es[i].path] = es[i].after
      BY <1>3, <2>1 DEF Chained, LastInFiles
    <3> QED BY <1>5, <1>6, <2>1, <3>1, <3>2
  <2>2. CASE i = k + 1
    BY <1>5, <2>2 DEF e
  <2> QED BY <1>2, <2>1, <2>2
<1>10. Linked(es, k + 1)
  <2> SUFFICES ASSUME NEW i \in 1..k+1, NEW j \in 1..k+1, i < j, es[i].path = es[j].path,
                      \A m \in 1..k+1 : i < m /\ m < j => es[m].path # es[i].path
               PROVE  es[j].before = es[i].after
    BY DEF Linked
  <2>1. i \in 1..k
    BY SMTT(60)
  <2>2. CASE j \in 1..k
    BY <1>3, <2>1, <2>2 DEF Chained, Linked
  <2>3. CASE j = k + 1
    <3>1. \A m \in 1..k : i < m => es[m].path # es[i].path
      BY <1>3, <2>3
    <3>2. f[es[i].path] = es[i].after
      BY <2>1, <3>1 DEF Chained, LastInFiles
    <3> QED BY <2>3, <3>2
  <2> QED BY <1>2, <2>2, <2>3
<1> QED BY <1>7, <1>8, <1>9, <1>10 DEF Chained

(* Restoring the preimage of the last effect shortens the chain.            *)
LEMMA ChainedRestore ==
    ASSUME NEW es \in Seq(Effect), NEW k \in Nat, k + 1 \in 1..Len(es),
           NEW f \in [Paths -> Image], NEW b \in [Paths -> Image], Chained(es, k + 1, f, b),
           NEW g, g = [f EXCEPT ![es[k+1].path] = es[k+1].before]
    PROVE  Chained(es, k, g, b) /\ f[es[k+1].path] = es[k+1].after
<1> DEFINE e == es[k+1]
<1>1. e \in Effect /\ e.path \in Paths
  BY EffectAt DEF Effect
<1>2. \A i \in 1..k+1 : i \in 1..k \/ i = k + 1
  BY SMTT(60)
<1>3. \A i \in 1..k : i \in 1..k+1 /\ i < k + 1 /\ ~(k + 1 < i)
  BY SMTT(60)
<1>4. k + 1 \in 1..k+1 /\ \A i \in 1..k+1 : ~(k + 1 < i)
  BY SMTT(60)
<1>5. g[e.path] = e.before /\ \A p \in Paths : p # e.path => g[p] = f[p]
  BY <1>1
<1>6. \A i \in 1..k : es[i].path \in Paths
  <2>1. \A i \in 1..k : i \in 1..Len(es)
    BY SMTT(60), DomainLen
  <2> QED BY <2>1, EffectAt DEF Effect
<1> HIDE DEF e
<1>7. f[e.path] = e.after
  BY <1>4 DEF Chained, LastInFiles, e
<1>8. FirstFromBase(es, k, b)
  BY <1>2, <1>3 DEF Chained, FirstFromBase
<1>9. Linked(es, k)
  <2> SUFFICES ASSUME NEW i \in 1..k, NEW j \in 1..k, i < j, es[i].path = es[j].path,
                      \A m \in 1..k : i < m /\ m < j => es[m].path # es[i].path
               PROVE  es[j].before = es[i].after
    BY DEF Linked
  <2>1. \A m \in 1..k+1 : i < m /\ m < j => es[m].path # es[i].path
    BY <1>2, <1>3
  <2> QED BY <1>3, <2>1 DEF Chained, Linked
<1>10. Untouched(es, k, g, b)
  <2> SUFFICES ASSUME NEW p \in Paths, \A i \in 1..k : es[i].path # p PROVE g[p] = b[p]
    BY DEF Untouched
  <2>1. CASE p = e.path
    <3>1. \A j \in 1..k+1 : j < k + 1 => es[j].path # e.path
      BY <1>2, <1>4, <2>1
    <3>2. e.before = b[e.path]
      BY <1>4, <3>1 DEF Chained, FirstFromBase, e
    <3> QED BY <1>5, <2>1, <3>2
  <2>2. CASE p # e.path
    <3>1. f[p] = b[p]
      BY <1>2, <2>2 DEF Chained, Untouched, e
    <3> QED BY <1>5, <2>2, <3>1
  <2> QED BY <2>1, <2>2
<1>11. LastInFiles(es, k, g)
  <2> SUFFICES ASSUME NEW i \in 1..k, \A j \in 1..k : i < j => es[j].path # es[i].path
               PROVE  g[es[i].path] = es[i].after
    BY DEF LastInFiles
  <2>1. CASE es[i].path = e.path
    <3>1. \A m \in 1..k+1 : i < m /\ m < k + 1 => es[m].path # es[i].path
      BY <1>2, <1>4
    <3>2. e.before = es[i].after
      BY <1>3, <1>4, <2>1, <3>1 DEF Chained, Linked, e
    <3> QED BY <1>5, <2>1, <3>2
  <2>2. CASE es[i].path # e.path
    <3>1. \A j \in 1..k+1 : i < j => es[j].path # es[i].path
      BY <1>2, <2>2 DEF e
    <3>2. f[es[i].path] = es[i].after
      BY <1>3, <3>1 DEF Chained, LastInFiles
    <3> QED BY <1>5, <1>6, <2>2, <3>2
  <2> QED BY <2>1, <2>2
<1> QED BY <1>7, <1>8, <1>9, <1>10, <1>11 DEF Chained, e

-----------------------------------------------------------------------------
(* Where no write, sync, engine call or restore may fail any more.          *)
Spent == ~(faults < MaxFaults)

Midway == {"dispatch", "applied", "mismatched", "rejected", "errored"}

(* Without failures a journal says what its handle says: a cell outside its *)
(* handle has left no journal that begin would adopt, and a cell that       *)
(* reconciles has none, so the record it undoes is not its own.             *)
InStep(c) ==
    /\ pc[c] = "idle" => journal[c].state \notin {"Prepared", "Applying"} /\ ~settled[c]
    /\ pc[c] = "reconciling" => journal[c].state = "none"
    /\ pc[c] = "open" =>
         /\ journal[c].state = rec[c].state
         /\ rec[c].state \in {"Prepared", "Applying", "Committed", "RolledBack"}
         /\ rec[c].state \in {"Prepared", "Applying"} => ~settled[c]
         /\ rec[c].state = "Committed" => settled[c]
    /\ pc[c] \in Midway => ~settled[c]
    /\ pc[c] # "halfdone"
    /\ pc[c] = "undoing" =>
         /\ ~undo[c].bad
         /\ undo[c].by = "reconcile" => journal[c].state = "none"
         /\ undo[c].by # "reconcile" =>
              rec[c].state \in {"Prepared", "Applying", "Compensating", "RolledBack"}

(* What separates the files from the base of a handle, while no program     *)
(* has ignored the lease.                                                   *)
OpenBase(c) ==
    IF rec[c].state = "RolledBack" THEN files = base[c]
    ELSE Chained(rec[c].effects, Len(rec[c].effects), files, base[c])

UndoBase(c) ==
    IF rec[c].state = "RolledBack" THEN files = base[c]
    ELSE /\ Undoable(rec[c].effects, undo[c].cursor, files, base[c])
         /\ \A i \in 1..undo[c].cursor : ~rec[c].effects[i].restored

Restorable(c) ==
    externals = 0 =>
        /\ pc[c] \in {"open", "applied"} => OpenBase(c)
        /\ pc[c] \in {"dispatch", "rejected", "errored"} =>
             InFlight(rec[c].effects, Len(rec[c].effects), files, base[c])
        /\ pc[c] # "mismatched"
        /\ pc[c] = "undoing" /\ undo[c].by # "reconcile" => UndoBase(c)

BaseInv == \A c \in Cells : InStep(c) /\ Restorable(c)

(* Without failures persist_record publishes the record.                    *)
LEMMA SpentPersist ==
    ASSUME TypeInv, Spent, NEW c \in Cells, NEW r, NEW out \in PersistOutcomes,
           persist_record(c, r, out)
    PROVE  /\ out = "ok" /\ journal'[c] = r /\ externals' = externals
           /\ \A d \in Cells \ {c} : journal'[d] = journal[d]
<1>1. out = "ok"
  BY DEF Spent, PersistOutcomes
<1>2. journal' = [journal EXCEPT ![c] = r] /\ externals' = externals
  BY <1>1 DEF persist_record
<1> QED BY <1>1, <1>2 DEF TypeInv, DiskOK

(* A step of c, the only cell inside a call, that leaves the other cells'   *)
(* places alone, and their journals unless it reconciles them.              *)
LEMMA OwnBase ==
    ASSUME WriteAheadInv, BaseInv, NEW c \in Cells, lease \in {c, NoCell},
           \A d \in Cells \ {c} :
               /\ pc'[d] = pc[d] /\ settled'[d] = settled[d]
               /\ journal'[d] = journal[d] \/ journal'[d].state \in {"none", "RolledBack"},
           InStep(c)', Restorable(c)'
    PROVE  BaseInv'
<1> SUFFICES ASSUME NEW d \in Cells, d # c PROVE InStep(d)' /\ Restorable(d)'
  BY DEF BaseInv
<1>1. pc[d] \in {"idle", "crashed"}
  BY ConstantsAssumption DEF WriteAheadInv, LeaseInv
<1>2. /\ pc'[d] \in {"idle", "crashed"}
      /\ pc'[d] = "idle" => journal'[d].state \notin {"Prepared", "Applying"} /\ ~settled'[d]
  BY <1>1 DEF BaseInv, InStep
<1> QED BY <1>2 DEF InStep, Restorable, Midway

(* A cell outside its handle.                                               *)
LEMMA OutsideBase ==
    ASSUME NEW c \in Cells,
           \/ pc'[c] = "crashed"
           \/ pc'[c] = "idle" /\ ~settled'[c] /\ journal'[c].state \notin {"Prepared", "Applying"}
           \/ pc'[c] = "reconciling" /\ journal'[c].state = "none"
    PROVE  InStep(c)' /\ Restorable(c)'
BY DEF InStep, Restorable, Midway

(* A handle between two calls, in the states it may be in.                  *)
LEMMA OpenBaseInv ==
    ASSUME NEW c \in Cells, pc'[c] = "open", journal'[c].state = rec'[c].state,
           rec'[c].state \in {"Prepared", "Applying", "Committed", "RolledBack"},
           rec'[c].state \in {"Prepared", "Applying"} => ~settled'[c],
           rec'[c].state = "Committed" => settled'[c],
           externals' = 0 => OpenBase(c)'
    PROVE  InStep(c)' /\ Restorable(c)'
BY DEF InStep, Restorable, Midway

(* rollback_record starts on a record of the handle.                        *)
LEMMA StartUndoBase ==
    ASSUME TypeInv, NEW c \in Cells, NEW by \in Callers \ {"reconcile"}, NEW r \in Record,
           StartUndo(c, by, c, r),
           r.state \in {"Prepared", "Applying", "Compensating", "RolledBack"},
           externals' = 0 =>
               IF r.state = "RolledBack" THEN files' = base'[c]
               ELSE /\ Undoable(r.effects, Len(r.effects), files', base'[c])
                    /\ \A i \in 1..Len(r.effects) : ~r.effects[i].restored
    PROVE  /\ InStep(c)' /\ Restorable(c)'
           /\ \A d \in Cells \ {c} : pc'[d] = pc[d]
<1>1. /\ rec'[c] = r /\ undo'[c].by = by /\ undo'[c].cursor = Len(r.effects)
      /\ ~undo'[c].bad /\ pc'[c] = "undoing" /\ \A d \in Cells \ {c} : pc'[d] = pc[d]
  BY SMTT(60) DEF StartUndo, TypeInv, CellOK
<1>2. by # "reconcile"
  OBVIOUS
<1>3. InStep(c)'
  BY <1>1, <1>2 DEF InStep, Midway
<1>4. externals' = 0 => UndoBase(c)'
  BY <1>1 DEF UndoBase
<1>5. Restorable(c)'
  BY <1>1, <1>4 DEF Restorable
<1> QED BY <1>1, <1>3, <1>5

(* The effects of an unfinished record are not restored.                    *)
LEMMA NoneRestored ==
    ASSUME NEW r \in Record, Whole(r), r.state \in {"Prepared", "Applying", "Committed"}
    PROVE  \A i \in 1..Len(r.effects) : ~r.effects[i].restored
<1>1. DOMAIN r.effects = 1..Len(r.effects)
  BY DomainLen DEF Record
<1> QED BY <1>1 DEF Whole

-----------------------------------------------------------------------------
(* begin opens an empty handle over the files it finds.                     *)
LEMMA BeginBase ==
    ASSUME TypeInv, WriteAheadInv, BaseInv, Spent, NEW c \in Cells,
           BeginFresh(c) \/ BeginAdopt(c) \/ ReconcileStart(c)
    PROVE  BaseInv'
<1>1. lease = NoCell /\ pc[c] = "idle" /\ InStep(c)
  BY DEF BaseInv, BeginFresh, BeginAdopt, ReconcileStart
<1>2. CASE BeginFresh(c)
  <2> DEFINE r == [state |-> "Prepared", effects |-> <<>>]
  <2>1. PICK out \in PersistOutcomes :
          /\ persist_record(c, r, out)
          /\ out = "ok" => /\ pc' = [pc EXCEPT ![c] = "open"] /\ rec' = [rec EXCEPT ![c] = r]
                           /\ base' = [base EXCEPT ![c] = files]
    BY <1>2 DEF BeginFresh
  <2>2. r.state = "Prepared" /\ r.effects = <<>> /\ files' = files /\ settled' = settled
    BY <1>2 DEF BeginFresh
  <2> HIDE DEF r
  <2>3. /\ out = "ok" /\ journal'[c] = r
        /\ \A d \in Cells \ {c} : journal'[d] = journal[d]
    <3>1. persist_record(c, r, out)
      BY <2>1
    <3> QED BY <3>1, SpentPersist
  <2>4. /\ pc'[c] = "open" /\ rec'[c] = r /\ base'[c] = files
        /\ \A d \in Cells \ {c} : pc'[d] = pc[d]
    BY <2>1, <2>3 DEF TypeInv, CellOK, DiskOK
  <2>5. Chained(<<>>, Len(<<>>), files, files)
    <3>1. files \in [Paths -> Image] /\ Len(<<>>) = 0
      BY EmptyEffects DEF TypeInv, DiskOK
    <3> QED BY <3>1, ChainedNone
  <2>6. OpenBase(c)'
    BY <2>2, <2>4, <2>5 DEF OpenBase
  <2>7. InStep(c)' /\ Restorable(c)'
    BY <1>1, <2>2, <2>3, <2>4, <2>6, OpenBaseInv DEF InStep
  <2> QED BY <1>1, <2>2, <2>3, <2>4, <2>7, OwnBase
<1>3. CASE BeginAdopt(c)
  BY <1>1, <1>3 DEF InStep, BeginAdopt
<1>4. CASE ReconcileStart(c)
  <2>1. /\ \A d \in Cells \ {c} : pc'[d] = pc[d]
        /\ pc'[c] = "reconciling" /\ journal' = journal /\ settled' = settled
        /\ journal[c].state = "none"
    BY SMTT(60), <1>4 DEF ReconcileStart, TypeInv, CellOK
  <2>2. InStep(c)' /\ Restorable(c)'
    BY <2>1, OutsideBase
  <2> QED BY <1>1, <2>1, <2>2, OwnBase
<1> QED BY <1>2, <1>3, <1>4

(* A preparation names the file as it is.                                   *)
LEMMA PrepareBase ==
    ASSUME TypeInv, WriteAheadInv, BaseInv, Spent, NEW c \in Cells, NEW q \in Requests,
           ApplyPrepare(c, q)
    PROVE  BaseInv'
<1> DEFINE e == [path |-> q.path, kind |-> q.kind, before |-> files[q.path],
                 after |-> q.after, receipt |-> FALSE, restored |-> FALSE]
           r == [state |-> "Applying", effects |-> Append(rec[c].effects, e)]
           n == Len(rec[c].effects)
<1>1. e \in Effect /\ e.before = files[e.path]
  BY DEF Requests, Effect, TypeInv, DiskOK
<1>2. /\ pc[c] = "open" /\ ~settled[c] /\ lease = c /\ rec[c].effects \in Seq(Effect)
      /\ rec[c].state \in {"Prepared", "Applying"} /\ Restorable(c)
      /\ UNCHANGED <<files, settled, base>>
  <2>1. /\ pc[c] = "open" /\ ~settled[c] /\ transition_allowed(rec[c].state, "Applying")
        /\ UNCHANGED <<files, settled, base>>
    BY DEF ApplyPrepare, history
  <2>2. rec[c].state \in {"Prepared", "Applying"}
    BY <2>1 DEF transition_allowed
  <2> QED BY <2>1, <2>2 DEF WriteAheadInv, LeaseInv, BaseInv, TypeInv, CellOK, Record
<1>3. PICK out \in PersistOutcomes :
        /\ persist_record(c, r, out) /\ rec' = [rec EXCEPT ![c] = r]
        /\ out = "ok" => pc' = [pc EXCEPT ![c] = "dispatch"]
  BY DEF ApplyPrepare
<1>4. r.effects = Append(rec[c].effects, e)
  OBVIOUS
<1> HIDE DEF r, e
<1>5. /\ Len(r.effects) = n + 1 /\ (\A i \in 1..n : r.effects[i] = rec[c].effects[i])
      /\ r.effects[n+1] = e
  <2> DEFINE s == rec[c].effects
  <2>1. s \in Seq(Effect) /\ e \in Effect /\ r.effects = Append(s, e) /\ n = Len(s)
    BY <1>1, <1>2, <1>4
  <2> HIDE DEF s, n
  <2>2. /\ Len(Append(s, e)) = n + 1 /\ (\A i \in 1..n : Append(s, e)[i] = s[i])
        /\ Append(s, e)[n+1] = e
    BY <2>1, PushedEffect
  <2> QED BY <2>1, <2>2 DEF s
<1>6. /\ out = "ok" /\ externals' = externals
      /\ \A d \in Cells \ {c} : journal'[d] = journal[d]
  <2>1. persist_record(c, r, out)
    BY <1>3
  <2> QED BY <2>1, SpentPersist
<1>7. rec'[c] = r /\ pc'[c] = "dispatch" /\ \A d \in Cells \ {c} : pc'[d] = pc[d]
  BY <1>3, <1>6 DEF TypeInv, CellOK
<1>8. externals' = 0 => InFlight(r.effects, Len(r.effects), files', base'[c])
  <2> SUFFICES ASSUME externals = 0 PROVE InFlight(r.effects, n + 1, files, base[c])
    BY <1>2, <1>5, <1>6
  <2>1. Chained(rec[c].effects, n, files, base[c])
    BY <1>2 DEF Restorable, OpenBase
  <2>2. Chained(r.effects, n, files, base[c])
    BY <1>5, <2>1, ChainedSame DEF SameChange
  <2>3. n + 1 > 0 /\ (n + 1) - 1 = n
    BY SMTT(60), <1>2, DomainLen
  <2> QED BY <1>1, <1>5, <2>2, <2>3 DEF InFlight
<1>9. InStep(c)' /\ Restorable(c)'
  BY <1>2, <1>7, <1>8 DEF InStep, Restorable, Midway
<1> QED BY <1>2, <1>6, <1>7, <1>9, OwnBase

(* FileEngine::apply makes the change it was asked for, or none.            *)
LEMMA EngineBase ==
    ASSUME TypeInv, WriteAheadInv, OutcomeInv, BaseInv, Spent, NEW c \in Cells, EngineApply(c)
    PROVE  BaseInv'
<1> DEFINE es == rec[c].effects
           n == Len(es)
           e == es[n]
<1>1. /\ pc[c] = "dispatch" /\ es \in Seq(Effect) /\ es # <<>> /\ lease = c
      /\ ~settled[c] /\ Restorable(c) /\ rec[c].state = "Applying"
      /\ UNCHANGED <<journal, settled>> /\ base[c] \in [Paths -> Image]
      /\ files \in [Paths -> Image]
  <2>1. pc[c] = "dispatch" /\ UNCHANGED <<journal, settled>>
    BY DEF EngineApply
  <2> QED BY <2>1 DEF TypeInv, CellOK, DiskOK, Record, Calling, WriteAheadInv, LeaseInv, BaseInv,
                      InStep, Midway, OutcomeInv, Honest, HandleInv
<1>2. /\ base' = base /\ externals' = externals
      /\ \E p \in Calling : pc' = [pc EXCEPT ![c] = p]
      /\ \/ /\ UNCHANGED <<files, rec>>
            /\ pc' = [pc EXCEPT ![c] = "rejected"] \/ pc' = [pc EXCEPT ![c] = "errored"]
         \/ /\ EngineAccepts(e) /\ files' = [files EXCEPT ![e.path] = e.after] /\ rec' = rec
            /\ pc' = [pc EXCEPT ![c] = "applied"]
         \/ EngineUnguarded(e) /\ pc' = [pc EXCEPT ![c] = "mismatched"]
  BY DEF EngineApply, Mutate, Spent, Calling, budgets, history
<1>3. /\ \A d \in Cells \ {c} : pc'[d] = pc[d]
      /\ \/ /\ UNCHANGED <<files, rec>> /\ pc'[c] \in {"rejected", "errored"}
         \/ /\ files' = [files EXCEPT ![e.path] = e.after] /\ rec' = rec
            /\ pc'[c] = "applied"
         \/ EngineUnguarded(e) /\ pc'[c] = "mismatched"
  BY <1>2 DEF TypeInv, CellOK
<1>4. n \in Nat /\ n > 0 /\ n \in 1..n /\ n - 1 \in Nat /\ (n - 1) + 1 = n
  BY SMTT(60), <1>1, EmptyEffects
<1>5. InStep(c)'
  BY <1>1, <1>3 DEF InStep, Midway
<1>6. Restorable(c)'
  <2> SUFFICES ASSUME externals = 0 PROVE Restorable(c)'
    BY <1>2 DEF Restorable
  <2>1. InFlight(es, n, files, base[c])
    BY <1>1 DEF Restorable
  <2>2. Chained(es, n - 1, files, base[c]) /\ e.before = files[e.path]
    BY <2>1 DEF InFlight
  <2>3. CASE UNCHANGED <<files, rec>> /\ pc'[c] \in {"rejected", "errored"}
    BY <1>2, <2>1, <2>3 DEF Restorable
  <2>4. CASE /\ files' = [files EXCEPT ![e.path] = e.after] /\ rec' = rec
             /\ pc'[c] = "applied"
    <3> HIDE DEF n
    <3>1. Chained(es, (n - 1) + 1, files', base[c])
      <4> DEFINE k == n - 1
      <4>1. k \in Nat /\ k + 1 = n
        BY <1>4
      <4> HIDE DEF k
      <4>2. /\ k + 1 \in 1..Len(es) /\ Chained(es, k, files, base[c])
            /\ es[k+1].before = files[es[k+1].path]
            /\ files' = [files EXCEPT ![es[k+1].path] = es[k+1].after]
        BY <1>4, <2>2, <2>4, <4>1 DEF k, n
      <4>3. Chained(es, k + 1, files', base[c])
        BY <1>1, <4>1, <4>2, ChainedApply
      <4> QED BY <4>3 DEF k
    <3> QED BY <1>1, <1>2, <1>4, <2>4, <3>1 DEF Restorable, OpenBase, n
  <2>5. CASE EngineUnguarded(e)
    BY <2>2, <2>5 DEF EngineUnguarded
  <2> QED BY <1>3, <2>3, <2>4, <2>5
<1> QED BY <1>1, <1>3, <1>5, <1>6, OwnBase

(* Dropping a preparation whose change was not made.                        *)
LEMMA PopBase ==
    ASSUME TypeInv, WriteAheadInv, OutcomeInv, BaseInv, Spent, NEW c \in Cells,
           pc[c] \in {"dispatch", "rejected", "errored"}, UNCHANGED base,
           NEW x, PopAndPersist(c, x)
    PROVE  BaseInv'
<1> DEFINE es == Popped(rec[c].effects)
           r == [state |-> IF es = <<>> THEN "Prepared" ELSE rec[c].state, effects |-> es]
           n == Len(rec[c].effects)
<1>1. /\ rec[c].effects \in Seq(Effect) /\ rec[c].effects # <<>> /\ lease = c
      /\ rec[c].state = "Applying" /\ ~settled[c] /\ Restorable(c)
  BY DEF TypeInv, CellOK, Record, WriteAheadInv, LeaseInv, OutcomeInv, Honest, HandleInv, Calling,
         BaseInv, InStep, Midway
<1>2. Len(es) = n - 1 /\ \A j \in 1..n-1 : es[j] = rec[c].effects[j]
  BY <1>1, FrontOfEffects
<1>3. PICK out \in PersistOutcomes : persist_record(c, r, out) /\ rec' = [rec EXCEPT ![c] = r]
  BY DEF PopAndPersist
<1>4. r.state \in {"Prepared", "Applying"} /\ r.effects = es
  BY <1>1
<1> HIDE DEF r, es
<1>5. /\ journal'[c] = r /\ externals' = externals
      /\ \A d \in Cells \ {c} : journal'[d] = journal[d]
  <2>1. persist_record(c, r, out)
    BY <1>3
  <2> QED BY <2>1, SpentPersist
<1>6. /\ rec'[c] = r /\ pc'[c] = "open" /\ \A d \in Cells \ {c} : pc'[d] = pc[d]
      /\ UNCHANGED <<files, settled>>
  BY <1>3 DEF PopAndPersist, TypeInv, CellOK
<1>7. externals' = 0 => OpenBase(c)'
  <2> SUFFICES ASSUME externals = 0 PROVE Chained(es, n - 1, files, base[c])
    BY <1>2, <1>4, <1>5, <1>6 DEF OpenBase
  <2>1. Chained(rec[c].effects, n - 1, files, base[c])
    BY <1>1 DEF Restorable, InFlight
  <2> QED BY <1>2, <2>1, ChainedSame DEF SameChange
<1>8. InStep(c)' /\ Restorable(c)'
  BY <1>1, <1>4, <1>5, <1>6, <1>7, OpenBaseInv
<1> QED BY <1>1, <1>5, <1>6, <1>8, OwnBase

(* The five ends of apply.                                                  *)
LEMMA ApplyEndBase ==
    ASSUME TypeInv, WriteAheadInv, OutcomeInv, BaseInv, Spent, NEW c \in Cells,
           \/ ApplyCancelled(c) \/ ApplyAccepted(c) \/ ApplyMismatch(c)
           \/ ApplyRejected(c) \/ ApplyErrored(c)
    PROVE  BaseInv'
<1>1. pc[c] \in Calling /\ UNCHANGED base
  BY DEF ApplyCancelled, ApplyAccepted, ApplyMismatch, ApplyRejected, ApplyErrored, Calling, history
<1>2. /\ lease = c /\ rec[c] \in Record /\ Whole(rec[c]) /\ rec[c].effects # <<>>
      /\ rec[c].state = "Applying" /\ ~settled[c] /\ Restorable(c) /\ pc[c] # "halfdone"
  BY <1>1 DEF WriteAheadInv, LeaseInv, OutcomeInv, Honest, HandleInv, InCall, Calling, TypeInv,
              CellOK, BaseInv, InStep, Midway
<1> DEFINE r == WithReceipt(rec[c])
           n == Len(rec[c].effects)
<1>3. /\ r \in Record /\ r.state = "Applying" /\ Whole(r) /\ Len(r.effects) = n
      /\ \A j \in 1..n : SameChange(r.effects[j], rec[c].effects[j])
  BY <1>2, ReceiptWhole, ReceiptRecord
<1> HIDE DEF r
<1>4. \A i \in 1..Len(r.effects) : ~r.effects[i].restored
  BY <1>3, NoneRestored
<1>5. pc[c] = "applied" /\ externals = 0 => Chained(r.effects, Len(r.effects), files, base[c])
  <2> SUFFICES ASSUME pc[c] = "applied", externals = 0 PROVE Chained(r.effects, n, files, base[c])
    BY <1>3
  <2>1. Chained(rec[c].effects, n, files, base[c])
    BY <1>2 DEF Restorable, OpenBase
  <2> QED BY <1>3, <2>1, ChainedSame
<1>6. CASE \E x : pc[c] # "applied" /\ pc[c] # "mismatched" /\ PopAndPersist(c, x)
  BY <1>1, <1>2, <1>6, PopBase DEF Calling
<1>7. CASE /\ \E by \in {"apply", "mismatch"} : StartUndo(c, by, c, r)
           /\ UNCHANGED <<files, journal, settled, externals>>
           /\ pc[c] \in {"applied", "mismatched"}
  <2>1. externals' = 0 => Undoable(r.effects, Len(r.effects), files', base'[c])
    BY <1>1, <1>2, <1>5, <1>7 DEF Restorable, Undoable
  <2>2. PICK by \in {"apply", "mismatch"} : StartUndo(c, by, c, r)
    BY <1>7
  <2>3. by \in Callers \ {"reconcile"}
    BY DEF Callers
  <2>4. InStep(c)' /\ Restorable(c)' /\ \A d \in Cells \ {c} : pc'[d] = pc[d]
    BY <1>3, <1>4, <2>1, <2>2, <2>3, StartUndoBase
  <2> QED BY <1>2, <1>7, <2>4, OwnBase
<1>8. CASE /\ StartUndo(c, "engine", c, rec[c]) /\ pc[c] = "errored"
           /\ UNCHANGED <<files, journal, settled, externals>>
  <2>1. externals' = 0 => Undoable(rec[c].effects, n, files', base'[c])
    BY <1>1, <1>2, <1>8 DEF Restorable, Undoable
  <2>2. \A i \in 1..n : ~rec[c].effects[i].restored
    BY <1>2, NoneRestored
  <2>3. "engine" \in Callers \ {"reconcile"}
    BY DEF Callers
  <2>4. InStep(c)' /\ Restorable(c)' /\ \A d \in Cells \ {c} : pc'[d] = pc[d]
    BY <1>2, <1>8, <2>1, <2>2, <2>3, StartUndoBase
  <2> QED BY <1>2, <1>8, <2>4, OwnBase
<1>9. CASE /\ \E out \in PersistOutcomes : persist_record(c, r, out)
           /\ rec' = [rec EXCEPT ![c] = r] /\ pc' = [pc EXCEPT ![c] = "open"]
           /\ UNCHANGED <<files, settled>> /\ pc[c] = "applied"
  <2>1. /\ journal'[c] = r /\ externals' = externals
        /\ \A d \in Cells \ {c} : journal'[d] = journal[d]
    BY <1>9, SpentPersist
  <2>2. rec'[c] = r /\ pc'[c] = "open" /\ \A d \in Cells \ {c} : pc'[d] = pc[d]
    BY <1>9 DEF TypeInv, CellOK
  <2>3. externals' = 0 => OpenBase(c)'
    BY <1>1, <1>3, <1>5, <1>9, <2>1, <2>2 DEF OpenBase
  <2>4. InStep(c)' /\ Restorable(c)'
    BY <1>2, <1>3, <1>9, <2>1, <2>2, <2>3, OpenBaseInv
  <2> QED BY <1>2, <1>9, <2>1, <2>2, <2>4, OwnBase
<1>10. CASE ApplyAccepted(c)
  BY <1>7, <1>9, <1>10 DEF ApplyAccepted, r, budgets
<1>11. CASE ApplyMismatch(c)
  BY <1>7, <1>11 DEF ApplyMismatch, r, budgets
<1>12. CASE ApplyErrored(c)
  BY <1>2, <1>6, <1>8, <1>12 DEF ApplyErrored, budgets
<1> QED BY <1>6, <1>10, <1>11, <1>12 DEF ApplyCancelled, ApplyRejected

(* One restore, and that it finds what the record says was left there.      *)
LEMMA RestoreBase ==
    ASSUME TypeInv, WriteAheadInv, OutcomeInv, BaseInv, Spent, NEW c \in Cells, RestoreStep(c)
    PROVE  /\ BaseInv'
           /\ undo[c].by # "reconcile" /\ externals = 0 /\ files' # files => Guarded(c)
<1> DEFINE i == undo[c].cursor
           es == rec[c].effects
           e == es[i]
           r == [rec[c] EXCEPT !.effects[i].restored = TRUE]
           u == [undo[c] EXCEPT !.cursor = i - 1]
           f == [files EXCEPT ![e.path] = e.before]
<1>1. /\ pc[c] = "undoing" /\ rec[c] \in Record /\ undo[c] \in UndoProgress
      /\ i \in 0..Len(es) /\ i > 0 /\ Len(es) \in Nat /\ es \in Seq(Effect)
      /\ files \in [Paths -> Image] /\ base[c] \in [Paths -> Image]
      /\ DOMAIN es = 1..Len(es) /\ lease = c /\ InStep(c) /\ Restorable(c)
      /\ UNCHANGED <<journal, pc, settled, externals, base>>
  BY DomainLen
  DEF RestoreStep, TypeInv, CellOK, DiskOK, Record, WriteAheadInv, LeaseInv, BaseInv, history
<1>2. i \in 1..Len(es) /\ i - 1 \in Nat /\ (i - 1) + 1 = i /\ \A j \in 1..i-1 : j \in 1..i /\ j # i
  BY SMTT(60), <1>1
<1>3. /\ r.state = rec[c].state
      /\ \A j \in 1..Len(es) : j # i => r.effects[j] = es[j]
      /\ \A j \in 1..Len(es) : SameChange(r.effects[j], es[j])
  BY <1>1, <1>2, RestoredRecord
<1>4. u.cursor = i - 1 /\ u.by = undo[c].by /\ u.bad = undo[c].bad
  BY <1>1 DEF UndoProgress
<1>5. /\ undo' = [undo EXCEPT ![c].cursor = i - 1]
      /\ \/ e.restored /\ rec' = rec /\ files' = files
         \/ ~e.restored /\ rec' = [rec EXCEPT ![c] = r] /\ files' = f
  BY DEF RestoreStep, Spent
<1>6. /\ undo'[c] = u
      /\ \/ e.restored /\ rec'[c] = rec[c] /\ files' = files
         \/ ~e.restored /\ rec'[c] = r /\ files' = f
  BY <1>5 DEF TypeInv, CellOK
<1> HIDE DEF r, u, f
<1>7. InStep(c)'
  BY <1>1, <1>3, <1>4, <1>6 DEF InStep, Midway
<1>8. rec[c].state = "RolledBack" => e.restored
  BY <1>1, <1>2 DEF OutcomeInv, Honest, UndoInv
<1>9. ASSUME externals = 0, undo[c].by # "reconcile", rec[c].state # "RolledBack"
      PROVE  UndoBase(c)' /\ (files' # files => Guarded(c))
  <2>1. /\ Undoable(es, i, files, base[c]) /\ \A j \in 1..i : ~es[j].restored
        /\ rec[c].state # "RolledBack"
    BY <1>1, <1>9 DEF Restorable, UndoBase
  <2>2. i \in 1..i
    BY SMTT(60), <1>1
  <2>3. rec'[c] = r /\ files' = f
    BY <1>6, <2>1, <2>2
  <2> DEFINE k == i - 1
  <2>4. k \in Nat /\ k + 1 = i
    BY <1>2
  <2>5. /\ k + 1 \in 1..Len(es) /\ f = [files EXCEPT ![es[k+1].path] = es[k+1].before]
        /\ (Chained(es, k + 1, files, base[c])
            \/ (Chained(es, k, files, base[c]) /\ es[k+1].before = files[es[k+1].path]))
    BY <1>2, <2>1, <2>4 DEF Undoable, InFlight, f
  <2>6. Chained(es, k, f, base[c]) /\ (f # files => files[es[k+1].path] = es[k+1].after)
    <3> HIDE DEF k, i, es
    <3>1. CASE Chained(es, k + 1, files, base[c])
      BY <1>1, <2>4, <2>5, <3>1, ChainedRestore
    <3>2. CASE Chained(es, k, files, base[c]) /\ es[k+1].before = files[es[k+1].path]
      <4>1. f = files
        BY <1>1, <2>5, <3>2
      <4> QED BY <3>2, <4>1
    <3> QED BY <2>5, <3>1, <3>2
  <2>7. \A j \in 1..k : j \in 1..Len(es) /\ j \in 1..i /\ j # i
    BY SMTT(60), <1>1, <1>2
  <2>8. Chained(r.effects, k, f, base[c])
    <3>1. \A j \in 1..k : SameChange(r.effects[j], es[j])
      BY <1>3, <2>7
    <3> HIDE DEF k, es
    <3> QED BY <2>6, <3>1, ChainedSame
  <2>9. \A j \in 1..k : ~r.effects[j].restored
    BY <1>3, <2>1, <2>7
  <2>10. UndoBase(c)'
    BY <1>1, <1>3, <1>4, <1>6, <2>1, <2>3, <2>8, <2>9 DEF UndoBase, Undoable
  <2>11. files' # files => Guarded(c)
    BY <2>3, <2>4, <2>6 DEF Guarded
  <2> QED BY <2>10, <2>11
<1>10. ASSUME externals = 0, undo[c].by # "reconcile", rec[c].state = "RolledBack"
       PROVE  UndoBase(c)' /\ files' = files
  <2>1. files = base[c] /\ files' = files /\ rec'[c] = rec[c]
    BY <1>1, <1>6, <1>8, <1>10 DEF Restorable, UndoBase
  <2> QED BY <1>1, <1>10, <2>1 DEF UndoBase
<1>11. Restorable(c)'
  BY <1>1, <1>4, <1>6, <1>9, <1>10 DEF Restorable
<1>12. BaseInv'
  BY <1>1, <1>7, <1>11, OwnBase
<1> QED BY <1>9, <1>10, <1>12

(* A rollback that has gone through its record has restored the base.       *)
LEMMA UndoneBase ==
    ASSUME TypeInv, BaseInv, NEW c \in Cells, Undone(c), undo[c].by # "reconcile", externals = 0
    PROVE  files = base[c]
<1>1. /\ UndoBase(c) /\ undo[c].cursor = 0
      /\ files \in [Paths -> Image] /\ base[c] \in [Paths -> Image]
  BY DEF Undone, BaseInv, Restorable, TypeInv, DiskOK
<1>2. CASE rec[c].state = "RolledBack"
  BY <1>1, <1>2 DEF UndoBase
<1>3. CASE rec[c].state # "RolledBack"
  <2>1. ~(0 > 0)
    BY SMTT(60)
  <2>2. Chained(rec[c].effects, 0, files, base[c])
    BY <1>1, <1>3, <2>1 DEF UndoBase, Undoable, InFlight
  <2> QED BY <1>1, <2>2, ChainedNone
<1> QED BY <1>2, <1>3

(* Publishing the outcome of a rollback.                                    *)
LEMMA UndoneKeepsBase ==
    ASSUME TypeInv, WriteAheadInv, BaseInv, Spent, NEW c \in Cells,
           UndoneInCall(c) \/ UndoneInRollback(c) \/ UndoneInDrop(c)
    PROVE  BaseInv'
<1> DEFINE r == RolledBackRecord(c)
<1>1. Undone(c) /\ pc[c] = "undoing" /\ undo[c].by # "reconcile" /\ UNCHANGED <<files, base>>
  BY DEF UndoneInCall, UndoneInRollback, UndoneInDrop, Undone, history
<1>2. lease = c /\ InStep(c)
  BY <1>1 DEF WriteAheadInv, LeaseInv, BaseInv
<1>3. r.state = "RolledBack"
  <2>1. r.state = rollback_state(rec[c].state, undo[c].bad)
    BY DEF RolledBackRecord, TypeInv, CellOK, Record
  <2>2. ~undo[c].bad /\ rec[c].state \in {"Prepared", "Applying", "Compensating", "RolledBack"}
    BY <1>1, <1>2 DEF InStep
  <2> QED BY <2>1, <2>2 DEF rollback_state, transition_allowed
<1> HIDE DEF r
<1>4. PICK out \in PersistOutcomes :
        /\ persist_record(c, r, out)
        /\ \/ rec' = [rec EXCEPT ![c] = r] /\ pc' = [pc EXCEPT ![c] = "open"]
              /\ \E b : settled' = [settled EXCEPT ![c] = b]
           \/ Idle(c)
           \/ out # "ok"
  BY DEF UndoneInCall, UndoneInRollback, UndoneInDrop, r
<1>5. /\ out = "ok" /\ journal'[c] = r /\ externals' = externals
      /\ \A d \in Cells \ {c} : journal'[d] = journal[d]
  <2>1. persist_record(c, r, out)
    BY <1>4
  <2> QED BY <2>1, SpentPersist
<1>6. externals' = 0 => files' = base'[c]
  BY <1>1, <1>5, UndoneBase
<1>7. /\ InStep(c)' /\ Restorable(c)'
      /\ \A d \in Cells \ {c} : pc'[d] = pc[d] /\ settled'[d] = settled[d]
  <2>1. CASE /\ rec' = [rec EXCEPT ![c] = r] /\ pc' = [pc EXCEPT ![c] = "open"]
             /\ \E b : settled' = [settled EXCEPT ![c] = b]
    <3>1. /\ rec'[c] = r /\ pc'[c] = "open"
          /\ \A d \in Cells \ {c} : pc'[d] = pc[d] /\ settled'[d] = settled[d]
      BY <2>1 DEF TypeInv, CellOK
    <3>2. externals' = 0 => OpenBase(c)'
      BY <1>3, <1>6, <3>1 DEF OpenBase
    <3> QED BY <1>3, <1>5, <3>1, <3>2, OpenBaseInv
  <2>2. CASE Idle(c)
    <3>1. /\ pc'[c] = "idle" /\ ~settled'[c]
          /\ \A d \in Cells \ {c} : pc'[d] = pc[d] /\ settled'[d] = settled[d]
      BY <2>2 DEF Idle, TypeInv, CellOK
    <3> QED BY <1>3, <1>5, <3>1, OutsideBase
  <2> QED BY <1>4, <1>5, <2>1, <2>2
<1> QED BY <1>2, <1>5, <1>7, OwnBase

(* rollback, Drop and a cancelled commit start from the record in memory.   *)
LEMMA EndHandleBase ==
    ASSUME TypeInv, WriteAheadInv, OutcomeInv, BaseInv, NEW c \in Cells,
           Rollback(c) \/ Drop(c) \/ CommitCancelled(c)
    PROVE  BaseInv'
<1>1. /\ pc[c] = "open" /\ UNCHANGED <<files, journal, externals, base>>
      /\ \/ Idle(c) /\ (settled[c] \/ rec[c].state \in {"RolledBack", "RecoveryRequired"})
         \/ /\ \E by \in Callers \ {"reconcile"} : StartUndo(c, by, c, rec[c])
            /\ ~settled[c] /\ settled' = settled
  BY DEF Rollback, Drop, CommitCancelled, Callers, budgets, history
<1>2. /\ lease = c /\ rec[c] \in Record /\ Whole(rec[c]) /\ InStep(c) /\ Restorable(c)
  BY <1>1 DEF WriteAheadInv, LeaseInv, OutcomeInv, Honest, HandleInv, InCall, TypeInv, CellOK, BaseInv
<1>3. /\ InStep(c)' /\ Restorable(c)'
      /\ \A d \in Cells \ {c} : pc'[d] = pc[d] /\ settled'[d] = settled[d]
  <2>1. CASE Idle(c) /\ (settled[c] \/ rec[c].state \in {"RolledBack", "RecoveryRequired"})
    <3>1. /\ pc'[c] = "idle" /\ ~settled'[c]
          /\ \A d \in Cells \ {c} : pc'[d] = pc[d] /\ settled'[d] = settled[d]
      BY <2>1 DEF Idle, TypeInv, CellOK
    <3>2. journal'[c].state \notin {"Prepared", "Applying"}
      BY <1>1, <1>2, <2>1 DEF InStep
    <3> QED BY <3>1, <3>2, OutsideBase
  <2>2. CASE /\ \E by \in Callers \ {"reconcile"} : StartUndo(c, by, c, rec[c])
             /\ ~settled[c] /\ settled' = settled
    <3>1. rec[c].state \in {"Prepared", "Applying", "RolledBack"}
      BY <1>1, <1>2, <2>2 DEF InStep
    <3>2. rec[c].state # "RolledBack" =>
            \A i \in 1..Len(rec[c].effects) : ~rec[c].effects[i].restored
      BY <1>2, <3>1, NoneRestored
    <3>3. externals' = 0 =>
            IF rec[c].state = "RolledBack" THEN files' = base'[c]
            ELSE /\ Undoable(rec[c].effects, Len(rec[c].effects), files', base'[c])
                 /\ \A i \in 1..Len(rec[c].effects) : ~rec[c].effects[i].restored
      BY <1>1, <1>2, <3>2 DEF Restorable, OpenBase, Undoable
    <3> QED BY <1>2, <2>2, <3>1, <3>3, StartUndoBase
  <2> QED BY <1>1, <2>1, <2>2
<1> QED BY <1>1, <1>2, <1>3, OwnBase

(* commit leaves the files alone; compensate_committed starts from what it  *)
(* committed.                                                               *)
LEMMA CommitBase ==
    ASSUME TypeInv, WriteAheadInv, OutcomeInv, BaseInv, Spent, NEW c \in Cells,
           CommitAgain(c) \/ CommitPublish(c) \/ Compensate(c)
    PROVE  BaseInv'
<1>1. pc[c] = "open"
  BY DEF CommitAgain, CommitPublish, Compensate
<1>2. /\ lease = c /\ rec[c] \in Record /\ Whole(rec[c]) /\ InStep(c) /\ Restorable(c)
  BY <1>1 DEF WriteAheadInv, LeaseInv, OutcomeInv, Honest, HandleInv, InCall, TypeInv, CellOK, BaseInv
<1>3. CASE CommitAgain(c)
  BY <1>1, <1>2, <1>3 DEF CommitAgain, InStep
<1>4. CASE CommitPublish(c)
  <2> DEFINE r == [rec[c] EXCEPT !.state = "Committed"]
  <2>1. r.state = "Committed" /\ r.effects = rec[c].effects
    BY <1>2 DEF Record
  <2>2. PICK out \in PersistOutcomes :
          persist_record(c, r, out) /\ settled' = [settled EXCEPT ![c] = out = "ok"]
    BY <1>4 DEF CommitPublish
  <2>3. /\ rec' = [rec EXCEPT ![c] = r] /\ UNCHANGED <<pc, files, base>>
        /\ rec[c].state \in {"Prepared", "Applying"}
    BY <1>4 DEF CommitPublish, history
  <2> HIDE DEF r
  <2>4. /\ out = "ok" /\ journal'[c] = r /\ externals' = externals
        /\ \A d \in Cells \ {c} : journal'[d] = journal[d]
    <3>1. persist_record(c, r, out)
      BY <2>2
    <3> QED BY <3>1, SpentPersist
  <2>5. /\ rec'[c] = r /\ settled'[c] /\ \A d \in Cells \ {c} : settled'[d] = settled[d]
    BY <2>2, <2>3, <2>4 DEF TypeInv, CellOK
  <2>6. externals' = 0 => OpenBase(c)'
    BY <1>1, <1>2, <2>1, <2>3, <2>4, <2>5 DEF Restorable, OpenBase
  <2>7. InStep(c)' /\ Restorable(c)'
    BY <1>1, <2>1, <2>3, <2>4, <2>5, <2>6, OpenBaseInv
  <2> QED BY <1>2, <2>3, <2>4, <2>5, <2>7, OwnBase
<1>5. CASE Compensate(c)
  <2> DEFINE r == [rec[c] EXCEPT !.state = "Compensating"]
  <2>1. r \in Record /\ r.state = "Compensating" /\ r.effects = rec[c].effects
    BY <1>2 DEF Record, States
  <2>2. PICK out \in PersistOutcomes :
          /\ persist_record(c, r, out)
          /\ out = "ok" => /\ StartUndo(c, "compensate", c, r)
                           /\ settled' = [settled EXCEPT ![c] = FALSE]
    BY <1>5 DEF Compensate
  <2>3. rec[c].state = "Committed" /\ UNCHANGED <<files, base>>
    BY <1>5 DEF Compensate, history
  <2> HIDE DEF r
  <2>4. /\ out = "ok" /\ externals' = externals
        /\ \A d \in Cells \ {c} : journal'[d] = journal[d]
    <3>1. persist_record(c, r, out)
      BY <2>2
    <3> QED BY <3>1, SpentPersist
  <2>5. \A i \in 1..Len(rec[c].effects) : ~rec[c].effects[i].restored
    BY <1>2, <2>3, NoneRestored
  <2>6. externals' = 0 => /\ Undoable(r.effects, Len(r.effects), files', base'[c])
                          /\ \A i \in 1..Len(r.effects) : ~r.effects[i].restored
    BY <1>1, <1>2, <2>1, <2>3, <2>4, <2>5 DEF Restorable, OpenBase, Undoable
  <2>7. InStep(c)' /\ Restorable(c)' /\ \A d \in Cells \ {c} : pc'[d] = pc[d]
    <3>1. "compensate" \in Callers \ {"reconcile"}
      BY DEF Callers
    <3> QED BY <2>1, <2>2, <2>4, <2>6, <3>1, StartUndoBase
  <2>8. \A d \in Cells \ {c} : settled'[d] = settled[d]
    BY <2>2, <2>4 DEF TypeInv, CellOK
  <2> QED BY <1>2, <2>4, <2>7, <2>8, OwnBase
<1> QED BY <1>3, <1>4, <1>5

(* reconcile undoes the records of other cells, for a cell with no journal. *)
LEMMA ReconcileBase ==
    ASSUME TypeInv, WriteAheadInv, OutcomeInv, BaseInv, NEW c \in Cells,
           ReconcileNext(c) \/ UndoneInReconcile(c) \/ ReconcileEnd(c)
    PROVE  BaseInv'
<1>1. lease = c /\ Honest(c) /\ InStep(c)
  BY DEF ReconcileNext, UndoneInReconcile, ReconcileEnd, Undone, WriteAheadInv, LeaseInv,
         OutcomeInv, BaseInv
<1>2. CASE ReconcileNext(c)
  <2>1. PICK d \in Cells : StartUndo(c, "reconcile", d, journal[d])
    BY <1>2 DEF ReconcileNext, Pending
  <2>2. /\ undo'[c].by = "reconcile" /\ ~undo'[c].bad
        /\ pc'[c] = "undoing" /\ \A x \in Cells \ {c} : pc'[x] = pc[x]
    BY SMTT(60), <2>1 DEF StartUndo, TypeInv, CellOK
  <2>3. journal' = journal /\ settled' = settled /\ journal[c].state = "none"
    BY <1>1, <1>2 DEF ReconcileNext, InStep
  <2>4. InStep(c)' /\ Restorable(c)'
    BY <2>2, <2>3 DEF InStep, Restorable, Midway
  <2> QED BY <1>1, <2>2, <2>3, <2>4, OwnBase
<1>3. CASE ReconcileEnd(c)
  <2>1. /\ pc'[c] = "idle" /\ ~settled'[c] /\ journal' = journal /\ journal[c].state = "none"
        /\ \A d \in Cells \ {c} : pc'[d] = pc[d] /\ settled'[d] = settled[d]
    BY <1>1, <1>3 DEF ReconcileEnd, Idle, TypeInv, CellOK, InStep
  <2>2. InStep(c)' /\ Restorable(c)'
    BY <2>1, OutsideBase
  <2> QED BY <1>1, <2>1, <2>2, OwnBase
<1>4. CASE UndoneInReconcile(c)
  <2> DEFINE r == RolledBackRecord(c)
  <2>1. PICK d \in Cells : d = undo[c].of
    BY <1>4 DEF UndoneInReconcile, TypeInv, CellOK
  <2>2. pc[c] = "undoing" /\ undo[c].by = "reconcile"
    BY <1>4 DEF UndoneInReconcile, Undone
  <2>3. journal[d].state # "none" /\ journal[c].state = "none"
    BY <1>1, <2>1, <2>2 DEF Honest, UndoInv, InStep
  <2>4. /\ \/ pc' = [pc EXCEPT ![c] = "reconciling"] /\ settled' = settled
           \/ Idle(c)
        /\ \/ Quarantine(d, journal[d]) \/ Quarantine(d, r) \/ journal' = journal
           \/ r.state = "RolledBack" /\ \E out \in PersistOutcomes : persist_record(d, r, out)
    BY <1>4, <2>1 DEF UndoneInReconcile
  <2> HIDE DEF r
  <2>5. /\ pc'[c] = "reconciling" \/ (pc'[c] = "idle" /\ ~settled'[c])
        /\ \A x \in Cells \ {c} : pc'[x] = pc[x] /\ settled'[x] = settled[x]
    BY <2>4 DEF Idle, TypeInv, CellOK
  <2>6. /\ journal'[d] = journal[d] \/ journal'[d].state \in {"none", "RolledBack"}
        /\ \A x \in Cells \ {d} : journal'[x] = journal[x]
    <3>1. NoRecord.state = "none"
      BY DEF NoRecord
    <3> QED BY <2>4, <3>1 DEF Quarantine, persist_record, TypeInv, DiskOK
  <2>7. InStep(c)' /\ Restorable(c)'
    BY <2>3, <2>5, <2>6, OutsideBase
  <2> QED BY <1>1, <2>5, <2>6, <2>7, OwnBase
<1> QED BY <1>2, <1>3, <1>4

(* Cancellation and crashes leave the files alone; after a foreign edit     *)
(* nothing is said of them.                                                 *)
LEMMA EnvironmentBase ==
    ASSUME TypeInv, WriteAheadInv, BaseInv,
           \/ \E c \in Cells : Cancel(c) \/ Crash(c)
           \/ \E p \in Paths : ExternalEdit(p)
           \/ UNCHANGED vars
    PROVE  BaseInv'
<1>1. ASSUME NEW c \in Cells, Crash(c) PROVE BaseInv'
  <2>1. /\ pc'[c] = "crashed" /\ pc[c] \notin {"idle", "crashed"} /\ journal' = journal
        /\ \A d \in Cells \ {c} : pc'[d] = pc[d] /\ settled'[d] = settled[d]
    BY SMTT(60), <1>1 DEF Crash, Die, TypeInv, CellOK
  <2>2. lease = c
    BY <2>1 DEF WriteAheadInv, LeaseInv
  <2>3. InStep(c)' /\ Restorable(c)'
    BY <2>1, OutsideBase
  <2> QED BY <2>1, <2>2, <2>3, OwnBase
<1>2. CASE UNCHANGED <<journal, pc, rec, undo, settled, base, files, externals>>
  BY <1>2 DEF BaseInv, InStep, Restorable, OpenBase, UndoBase
<1>3. CASE UNCHANGED <<journal, pc, rec, undo, settled>> /\ externals' = externals + 1
  <2>1. externals' # 0
    BY SMTT(60), <1>3 DEF TypeInv, DiskOK
  <2> QED BY <1>3, <2>1 DEF BaseInv, InStep, Restorable
<1> QED BY <1>1, <1>2, <1>3 DEF Cancel, ExternalEdit, vars, budgets, history

(* At first every cell is outside its handle, with no journal.              *)
LEMMA InitBase == Init => BaseInv
<1> SUFFICES ASSUME Init, NEW c \in Cells PROVE InStep(c) /\ Restorable(c)
  BY DEF BaseInv
<1>1. pc[c] = "idle" /\ ~settled[c] /\ journal[c].state = "none"
  BY SMTT(60) DEF Init, NoRecord
<1> QED BY <1>1 DEF InStep, Restorable, Midway

(* A restore of a cell's own record finds what the record says was left.    *)
OwnRestore(c) == Restores(c) /\ undo[c].of = c /\ ~undo[c].bad => Guarded(c)

(* Every step keeps the invariant, and every restore of a cell's own record *)
(* finds what the record says was left in the file.                         *)
LEMMA NextBase ==
    ASSUME TypeInv, WriteAheadInv, OutcomeInv, BaseInv, Spent, [Next]_vars
    PROVE  /\ BaseInv'
           /\ externals = 0 => \A c \in Cells : OwnRestore(c)
<1>1. ASSUME NEW c \in Cells, NEW q \in Requests, ApplyPrepare(c, q) PROVE BaseInv'
  BY <1>1, PrepareBase
<1>2. ASSUME NEW c \in Cells, CallStep(c) PROVE BaseInv'
  BY <1>2, EngineBase, ApplyEndBase, RestoreBase, UndoneKeepsBase, ReconcileBase DEF CallStep
<1>3. BaseInv'
  BY <1>1, <1>2, BeginBase, CommitBase, EndHandleBase, EnvironmentBase DEF Next
<1>4. files' # files /\ undo' # undo => \E d \in Cells : RestoreStep(d)
  <2>1. ASSUME NEW d \in Cells, CallStep(d), ~RestoreStep(d)
        PROVE  files' = files \/ undo' = undo
    <3>1. ApplyCancelled(d) \/ ApplyAccepted(d) \/ ApplyMismatch(d) \/ ApplyRejected(d)
            \/ ApplyErrored(d) => files' = files
      BY DEF ApplyCancelled, ApplyAccepted, ApplyMismatch, ApplyRejected, ApplyErrored, PopAndPersist
    <3>2. EngineApply(d) => undo' = undo
      BY DEF EngineApply
    <3>3. UndoneInCall(d) \/ UndoneInRollback(d) \/ UndoneInDrop(d) \/ UndoneInReconcile(d)
            \/ ReconcileNext(d) \/ ReconcileEnd(d) => files' = files
      BY DEF UndoneInCall, UndoneInRollback, UndoneInDrop, UndoneInReconcile, ReconcileNext,
             ReconcileEnd
    <3> QED BY <2>1, <3>1, <3>2, <3>3 DEF CallStep
  <2>2. ASSUME NEW d \in Cells,
               \/ ReconcileStart(d) \/ BeginFresh(d) \/ BeginAdopt(d)
               \/ \E q \in Requests : ApplyPrepare(d, q)
               \/ CommitCancelled(d) \/ CommitAgain(d) \/ CommitPublish(d)
               \/ Compensate(d) \/ Rollback(d) \/ Drop(d) \/ Cancel(d) \/ Crash(d)
        PROVE  files' = files
    BY <2>2 DEF ReconcileStart, BeginFresh, BeginAdopt, ApplyPrepare, CommitCancelled, CommitAgain,
                CommitPublish, Compensate, Rollback, Drop, Cancel, Crash, Die
  <2>3. (\E p \in Paths : ExternalEdit(p)) \/ UNCHANGED vars => undo' = undo
    BY DEF ExternalEdit, vars
  <2> QED BY <2>1, <2>2, <2>3 DEF Next
<1>5. ASSUME externals = 0, NEW c \in Cells, Restores(c), undo[c].of = c PROVE Guarded(c)
  <2>1. PICK d \in Cells : RestoreStep(d)
    BY <1>4, <1>5 DEF Restores
  <2>2. pc[c] = "undoing" /\ pc[d] = "undoing" /\ files' # files
    BY <1>5, <2>1 DEF Restores, RestoreStep
  <2>3. c = d
    BY <2>2 DEF WriteAheadInv, LeaseInv
  <2>4. undo[c].by # "reconcile"
    <3>1. Honest(c) /\ InStep(c)
      BY DEF OutcomeInv, BaseInv
    <3> QED BY <1>5, <2>2, <3>1 DEF Honest, UndoInv, InStep
  <2> QED BY <1>5, <2>1, <2>2, <2>3, <2>4, RestoreBase
<1> QED BY <1>3, <1>5 DEF OwnRestore

NoEdits == externals = 0

(* No step of a cell is an edit by a foreign program.                       *)
LEMMA NoEditsKept ==
    ASSUME MaxExternal = 0, TypeInv, NoEdits, [Next]_vars
    PROVE  NoEdits'
<1>1. ASSUME NEW c \in Cells, CallStep(c) PROVE externals' = externals
  <2>1. ApplyCancelled(c) \/ EngineApply(c) \/ ApplyAccepted(c) \/ ApplyMismatch(c)
          \/ ApplyRejected(c) \/ ApplyErrored(c) => externals' = externals
    BY DEF ApplyCancelled, EngineApply, ApplyAccepted, ApplyMismatch, ApplyRejected, ApplyErrored,
           PopAndPersist, persist_record, budgets
  <2>2. RestoreStep(c) \/ UndoneInCall(c) \/ UndoneInRollback(c) \/ UndoneInDrop(c)
          => externals' = externals
    BY DEF RestoreStep, UndoneInCall, UndoneInRollback, UndoneInDrop, persist_record
  <2>3. UndoneInReconcile(c) \/ ReconcileNext(c) \/ ReconcileEnd(c) => externals' = externals
    BY DEF UndoneInReconcile, ReconcileNext, ReconcileEnd, budgets
  <2> QED BY <1>1, <2>1, <2>2, <2>3 DEF CallStep
<1>2. ASSUME NEW c \in Cells,
             \/ ReconcileStart(c) \/ BeginFresh(c) \/ BeginAdopt(c)
             \/ \E q \in Requests : ApplyPrepare(c, q)
             \/ CommitCancelled(c) \/ CommitAgain(c) \/ CommitPublish(c)
             \/ Compensate(c) \/ Rollback(c) \/ Drop(c) \/ Cancel(c) \/ Crash(c)
      PROVE  externals' = externals
  BY <1>2 DEF ReconcileStart, BeginFresh, BeginAdopt, ApplyPrepare, CommitCancelled, CommitAgain,
              CommitPublish, Compensate, Rollback, Drop, Cancel, Crash, Die, persist_record, budgets
<1>3. ~\E p \in Paths : ExternalEdit(p)
  BY SMTT(60) DEF ExternalEdit, NoEdits
<1>4. UNCHANGED vars => externals' = externals
  BY DEF vars
<1> QED BY <1>1, <1>2, <1>3, <1>4 DEF Next, NoEdits

(* The invariant says what the property does: a cell that reconciles has no *)
(* record of its own.                                                       *)
LEMMA BaseRestored ==
    ASSUME TypeInv, OutcomeInv, BaseInv
    PROVE  RollbackRestoresBase
<1> SUFFICES ASSUME NEW c \in Cells, Undone(c), undo[c].of = c, externals = 0
             PROVE  files = base[c]
  BY DEF RollbackRestoresBase
<1>1. Honest(c) /\ InStep(c) /\ pc[c] = "undoing"
  BY DEF OutcomeInv, BaseInv, Undone
<1>2. undo[c].by # "reconcile"
  BY <1>1 DEF Honest, UndoInv, InStep
<1> QED BY <1>2, UndoneBase

(* When a cell has undone its own record the files are the ones it found,   *)
(* as long as no write, engine call or restore has failed and no program    *)
(* has ignored the lease: rollback_record restores the effects in reverse,  *)
(* whatever the cell changed and however often it changed one file, after a *)
(* cancellation, an engine error, a rollback, a Drop or a compensation.     *)
THEOREM RollbackRestoresBaseHolds ==
    ASSUME MaxFaults = 0
    PROVE  Spec => []RollbackRestoresBase
<1>1. TypeInv => Spent
  BY SMTT(60) DEF TypeInv, DiskOK, Spent
<1>2. TypeInv /\ WriteAheadInv /\ OutcomeInv /\ BaseInv /\ [Next]_vars => BaseInv'
  BY <1>1, NextBase
<1>3. TypeInv /\ OutcomeInv /\ BaseInv => RollbackRestoresBase
  BY BaseRestored
<1>4. TypeInv /\ WriteAheadInv /\ OutcomeInv /\ [Next]_vars => OutcomeInv'
  BY NextOutcome DEF Sound
<1> QED BY <1>2, <1>3, <1>4, InitType, NextType, InitWriteAhead, NextWriteAhead, InitOutcome,
           InitBase, PTL
        DEF Spec

(* A cell undoing its own record overwrites only what the record says it    *)
(* left in the file, under the same conditions: under the lease nothing     *)
(* else changes the file between the effect and its restore.                *)
THEOREM OwnUndoGuardedHolds ==
    ASSUME MaxFaults = 0, MaxExternal = 0
    PROVE  Spec => OwnUndoGuarded
<1>1. TypeInv => Spent
  BY SMTT(60) DEF TypeInv, DiskOK, Spent
<1>2. TypeInv /\ WriteAheadInv /\ OutcomeInv /\ BaseInv /\ [Next]_vars => BaseInv'
  BY <1>1, NextBase
<1>3. TypeInv /\ WriteAheadInv /\ OutcomeInv /\ BaseInv /\ NoEdits /\ [Next]_vars =>
        [\A c \in Cells : OwnRestore(c)]_vars
  BY <1>1, NextBase DEF NoEdits
<1>4. TypeInv /\ WriteAheadInv /\ OutcomeInv /\ [Next]_vars => OutcomeInv'
  BY NextOutcome DEF Sound
<1>5. TypeInv /\ NoEdits /\ [Next]_vars => NoEdits'
  BY NoEditsKept
<1>6. Init => NoEdits
  BY DEF Init, NoEdits
<1>7. OwnUndoGuarded <=> [][\A c \in Cells : OwnRestore(c)]_vars
  BY DEF OwnUndoGuarded, OwnRestore
<1> QED BY <1>2, <1>3, <1>4, <1>5, <1>6, <1>7, InitType, NextType, InitWriteAhead, NextWriteAhead,
           InitOutcome, InitBase, PTL
        DEF Spec

=============================================================================

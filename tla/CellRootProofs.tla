--------------------------- MODULE CellRootProofs ---------------------------
(* A cell that does not commit takes its state root back: what the host's      *)
(* compare-and-set of the session's root needs, beside what CellProofs says of *)
(* the transactions.                                                           *)
EXTENDS CellProofs

(* A leaf is for Zenon unless it names SMT. *)
USE ZenonT(60)

(* No three cells share a session.                                          *)
AtMostTwo ==
    \A c, d, e \in Cells :
        Session(c) = Session(d) /\ Session(d) = Session(e) => c = d \/ d = e \/ c = e

(* The cell has not moved the root yet.                                     *)
Unmoved == {"new", "loaded", "recovering", "running", "applying", "stating"}

Peers(c, d) == c # d /\ Session(c) = Session(d)

(* finish has moved the root and still has to commit the transaction.       *)
Exposed(c) == advanced[c] # "none" /\ phase[c] \in {"committing", "reverting"} /\ pc[c] # "idle"

(* Why the root can be taken back: nobody moves it on while the cell that   *)
(* moved it holds the lease.                                                *)
RootInv(c) ==
    /\ phase[c] \notin {"compensating", "unstating"} /\ outcome[c] # "err"
    /\ phase[c] \in Unmoved => advanced[c] = "none"
    /\ phase[c] = "stating" => want[c] # seen[c]
    /\ Exposed(c) => root[Session(c)] = want[c]

(* Of two cells of a session: what the one loaded is the root until one of  *)
(* the two moves it, and while the other may have to take its root back,    *)
(* that root is not what the first would compare with.                      *)
PeerInv(c, d) ==
    /\ phase[c] \in Unmoved /\ phase[d] \in Unmoved \ {"new"} => root[Session(d)] = seen[d]
    /\ Exposed(c) /\ phase[d] \in Unmoved \ {"new", "loaded"} => seen[d] # want[c]

RootsInv ==
    /\ \A c \in Cells : RootInv(c)
    /\ \A c, d \in Cells : Peers(c, d) => PeerInv(c, d)

(* The steps of a cell seen from the root.                                  *)
RootStays(c) ==
    /\ UNCHANGED <<root, seen, want, advanced>>
    /\ phase'[c] \in Unmoved => phase[c] \in Unmoved
    /\ phase'[c] \in Unmoved \ {"new"} => phase[c] # "new"
    /\ phase'[c] \in Unmoved \ {"new", "loaded"} => phase[c] # "loaded" \/ lease = NoCell
    /\ phase'[c] = "stating" => phase[c] = "stating"
    /\ phase'[c] \in {"committing", "reverting"} /\ pc'[c] # "idle" =>
          phase[c] \in {"committing", "reverting"} /\ pc[c] # "idle"
    /\ phase'[c] \notin {"compensating", "unstating"} /\ outcome'[c] # "err"

RootRead(c) ==
    /\ Goes(c, "new", "loaded") /\ UNCHANGED <<root, advanced, outcome>>
    /\ seen'[c] = root[Session(c)]
    /\ \A d \in Cells \ {c} : seen'[d] = seen[d] /\ want'[d] = want[d]

RootChosen(c) ==
    /\ phase[c] = "running" /\ phase'[c] \in {"committing", "stating", "failing"}
    /\ UNCHANGED <<root, seen, advanced, outcome>>
    /\ \A d \in Cells \ {c} : want'[d] = want[d]
    /\ phase'[c] = "stating" => want'[c] # seen[c]

RootMoved(c) ==
    /\ Goes(c, "stating", "committing") /\ UNCHANGED <<seen, want, outcome>>
    /\ root[Session(c)] = seen[c] /\ root'[Session(c)] = want[c]
    /\ \A d \in Cells : Session(d) # Session(c) => root'[Session(d)] = root[Session(d)]

RootTaken(c) ==
    /\ Goes(c, "reverting", "failing") /\ pc[c] = "open" /\ UNCHANGED <<seen, want, outcome>>
    /\ \A d \in Cells : Session(d) # Session(c) => root'[Session(d)] = root[Session(d)]

(* When nothing fails, every step of a cell is one of these: Revert finds   *)
(* the root it moved.                                                       *)
LEMMA RootSteps ==
    ASSUME HostInv, NEW c \in Cells, CellStep(c), RootInv(c), Spent
    PROVE  RootStays(c) \/ RootRead(c) \/ RootChosen(c) \/ RootMoved(c) \/ RootTaken(c)
<1>0. /\ TypeInv /\ HostTypeOK /\ CoordInv /\ CoordInv' /\ PlaceInv(c) /\ outcome[c] # "err"
      /\ Session(c) \in Sessions /\ \A d \in Cells : Session(d) \in Sessions
      /\ phase[c] \notin {"compensating", "unstating"}
  <2>1. [CellNext]_cellVars
    BY DEF CellStep, CellNext
  <2> QED BY <2>1, CoordKeeps, ConstantsAssumption DEF HostInv, CoordInv, RootInv, Session
<1>1. ASSUME NEW p, GoTo(c, p) PROVE phase'[c] = p
  BY <1>0, <1>1 DEF GoTo, HostTypeOK
<1>2. ASSUME NEW o, outcome' = [outcome EXCEPT ![c] = o] PROVE outcome'[c] = o
  BY <1>0, <1>2 DEF HostTypeOK
<1>3. CASE Load(c)
  BY <1>0, <1>1, <1>3 DEF Load, RootRead, Goes, settlement, HostTypeOK
<1>4. CASE Finish(c)
  <2>1. /\ phase[c] = "running" /\ UNCHANGED <<root, seen, advanced, outcome>>
        /\ \/ phase'[c] = "failing" /\ UNCHANGED want
           \/ \E r \in Roots : /\ want' = [want EXCEPT ![c] = r]
                               /\ phase'[c] = IF r = seen[c] THEN "committing" ELSE "stating"
    BY <1>1, <1>4 DEF Finish, settlement
  <2> QED BY <1>0, <2>1 DEF RootChosen, HostTypeOK
<1>5. CASE StateCommit(c)
  <2>1. phase[c] = "stating" /\ UNCHANGED <<seen, want, outcome>>
    BY <1>5 DEF StateCommit, settlement
  <2>2. \/ /\ root[Session(c)] = seen[c] /\ root' = [root EXCEPT ![Session(c)] = want[c]]
           /\ phase'[c] = "committing"
        \/ phase'[c] = "failing" /\ UNCHANGED <<root, advanced>>
    BY <1>1, <1>5 DEF StateCommit, Spent
  <2>3. CASE phase'[c] = "failing" /\ UNCHANGED <<root, advanced>>
    BY <1>0, <2>1, <2>3 DEF RootStays, Unmoved
  <2>4. CASE /\ root[Session(c)] = seen[c] /\ root' = [root EXCEPT ![Session(c)] = want[c]]
             /\ phase'[c] = "committing"
    BY <1>0, <2>1, <2>4 DEF RootMoved, Goes, HostTypeOK
  <2> QED BY <2>2, <2>3, <2>4
<1>6. CASE Revert(c)
  <2>1. phase[c] = "reverting" /\ pc[c] = "open" /\ UNCHANGED <<seen, want>>
    BY <1>6 DEF Revert
  <2>2. CASE advanced[c] = "none"
    <3>1. phase'[c] = "failing" /\ UNCHANGED <<root, advanced, outcome>>
      BY <1>1, <1>6, <2>2 DEF Revert
    <3> QED BY <1>0, <2>1, <3>1 DEF RootStays, Unmoved
  <2>3. CASE advanced[c] # "none"
    <3>1. root[Session(c)] = want[c]
      BY <2>1, <2>3 DEF RootInv, Exposed
    <3>2. phase'[c] = "failing" /\ UNCHANGED outcome /\ root' = [root EXCEPT ![Session(c)] = seen[c]]
      BY <1>1, <1>6, <2>3, <3>1 DEF Revert, RootBack, RootBackFails, Spent
    <3> QED BY <1>0, <2>1, <3>2 DEF RootTaken, Goes, HostTypeOK
  <2> QED BY <2>2, <2>3
<1>7. CASE Edit(c) \/ EffectBegin(c) \/ EffectApply(c) \/ EffectEnd(c) \/ EffectFailed(c)
  <2>1. /\ phase[c] \in {"running", "applying"} /\ phase'[c] \in {"running", "applying"}
        /\ UNCHANGED <<root, seen, want, advanced, outcome>>
    BY <1>1, <1>7 DEF Edit, EffectBegin, EffectApply, EffectEnd, EffectFailed, hostVars, settlement
  <2> QED BY <1>0, <2>1 DEF RootStays, Unmoved
<1>8. CASE Reconcile(c)
  <2>1. /\ phase[c] = "loaded" /\ UNCHANGED <<root, seen, want, advanced>>
        /\ \/ phase'[c] = "recovering" /\ lease = NoCell /\ UNCHANGED outcome
           \/ phase'[c] = "done" /\ outcome'[c] = "refused"
    BY <1>1, <1>2, <1>8 DEF Reconcile, ReconcileStart, settlement
  <2> QED BY <1>0, <2>1 DEF RootStays, Unmoved
<1>9. CASE Recovered(c)
  <2>1. /\ phase[c] = "recovering" /\ UNCHANGED <<root, seen, want, advanced>>
        /\ \/ phase'[c] = "running" /\ UNCHANGED outcome
           \/ phase'[c] = "done" /\ outcome'[c] = "refused"
    BY <1>1, <1>2, <1>9 DEF Recovered, settlement
  <2> QED BY <1>0, <2>1 DEF RootStays, Unmoved
<1>10. CASE GuestFails(c) \/ Close(c) \/ FailRollback(c) \/ FailSettled(c) \/ CellCrash(c)
  <2>1. /\ phase'[c] \in {"failing", "closing", "done", "settling", "logging", "crashed"}
        /\ UNCHANGED <<root, seen, want, advanced, outcome>>
    BY <1>1, <1>10 DEF GuestFails, Close, FailRollback, FailSettled, CellCrash, settlement
  <2> QED BY <1>0, <2>1 DEF RootStays, Unmoved
<1>11. CASE LogFailure(c) \/ PublishCompleted(c)
  <2>1. faults' = faults /\ UNCHANGED <<root, seen, want, advanced>>
    BY <1>11 DEF LogFailure, PublishCompleted, Publish, Spent
  <2>2. failure[c] # "err"
    BY <1>0 DEF HostTypeOK
  <2>3. phase'[c] \in {"done", "closing"} /\ outcome'[c] # "err"
    BY <1>1, <1>2, <1>11, <2>1, <2>2 DEF LogFailure, PublishCompleted
  <2> QED BY <2>1, <2>3 DEF RootStays, Unmoved
<1>12. CASE Commit(c)
  <2>1. /\ phase[c] = "committing" /\ UNCHANGED <<root, seen, want, advanced, outcome>>
        /\ phase'[c] = "publishing" \/ (phase'[c] = "reverting" /\ pc[c] = "open")
    BY <1>1, <1>12 DEF Commit, CommitCancelled, CommitPublish, CommitRefused, settlement
  <2> QED BY <1>0, <2>1 DEF RootStays, Unmoved
<1>13. CASE Call(c) \/ CellCancel(c)
  <2>1. UNCHANGED <<phase, root, seen, want, advanced, outcome>>
    BY <1>13 DEF Call, CellCancel, hostVars, settlement
  <2>2. pc[c] = "idle" => pc'[c] = "idle"
    BY <1>0, <1>13, CallShapes DEF Call, CellCancel, Cancel, CallShape, InApply, InUndo, InReconcile, Calling
  <2>3. phase[c] # "loaded" \/ phase'[c] \notin Unmoved \ {"new", "loaded"}
    BY <2>1
  <2> QED BY <1>0, <2>1, <2>2, <2>3 DEF RootStays
<1>14. ~CompensateEffects(c) /\ ~CompensateState(c)
  BY <1>0 DEF CompensateEffects, CompensateState
<1> QED BY <1>3, <1>4, <1>5, <1>6, <1>7, <1>8, <1>9, <1>10, <1>11, <1>12, <1>13, <1>14
        DEF CellStep, HostStep

(* A cell that may have to take its root back holds the lease.              *)
LEMMA ExposedHolds ==
    ASSUME HostInv, NEW c \in Cells, Exposed(c)
    PROVE  lease = c /\ lease # NoCell
<1>1. pc[c] \notin {"idle", "crashed"}
  BY DEF HostInv, PlaceInv, InPlace, Exposed
<1> QED BY <1>1, ConstantsAssumption DEF HostInv, CoordInv, WriteAheadInv, LeaseInv

(* Every step of a cell keeps the invariant of the roots.                   *)
LEMMA RootsKept ==
    ASSUME AtMostTwo, HostInv, RootsInv, NEW x \in Cells, CellStep(x), Spent
    PROVE  RootsInv'
<1>0. \A d \in Cells \ {x} :
        phase'[d] = phase[d] /\ outcome'[d] = outcome[d] /\ advanced'[d] = advanced[d] /\ pc'[d] = pc[d]
  <2>1. [CellNext]_cellVars
    BY DEF CellStep, CellNext
  <2> QED BY <2>1, CoordKeeps, HostTypes, StepElsewhere DEF HostInv, HostFrame, Elsewhere
<1>1. /\ \A c \in Cells : RootInv(c)
      /\ \A c, d \in Cells : Peers(c, d) => PeerInv(c, d)
  BY DEF RootsInv
<1>2. \A d \in Cells : d # x => (Exposed(d)' <=> Exposed(d))
  BY <1>0 DEF Exposed
<1>3. SUFFICES /\ \A c \in Cells : RootInv(c)'
               /\ \A c, d \in Cells : Peers(c, d) => PeerInv(c, d)'
  BY DEF RootsInv, Peers, Session
<1>4. CASE RootStays(x)
  <2>1. \A d \in Cells : /\ Exposed(d)' => Exposed(d)
                         /\ phase'[d] \in Unmoved => phase[d] \in Unmoved
                         /\ phase'[d] \in Unmoved \ {"new"} => phase[d] # "new"
                         /\ phase'[d] = "stating" => phase[d] = "stating"
    <3>1. Exposed(x)' => Exposed(x)
      BY <1>4 DEF RootStays, Exposed
    <3> QED BY <1>0, <1>2, <1>4, <3>1 DEF RootStays
  <2>2. ASSUME NEW c \in Cells PROVE RootInv(c)'
    BY <1>0, <1>1, <1>4, <2>1 DEF RootStays, RootInv, Session
  <2>3. ASSUME NEW c \in Cells, NEW d \in Cells, Peers(c, d) PROVE PeerInv(c, d)'
    <3>1. PeerInv(c, d) /\ UNCHANGED <<root, seen, want>>
      BY <1>1, <1>4, <2>3 DEF RootStays
    <3>2. phase'[c] \in Unmoved /\ phase'[d] \in Unmoved \ {"new"} => root'[Session(d)] = seen'[d]
      BY <2>1, <3>1 DEF PeerInv
    <3>3. ASSUME Exposed(c)', phase'[d] \in Unmoved \ {"new", "loaded"} PROVE seen'[d] # want'[c]
      <4>1. Exposed(c) /\ lease # NoCell
        BY <2>1, <3>3, ExposedHolds
      <4>2. phase[d] # "loaded"
        BY <1>0, <1>4, <3>3, <4>1 DEF RootStays
      <4> QED BY <2>1, <3>1, <3>3, <4>1, <4>2 DEF PeerInv
    <3> QED BY <3>2, <3>3 DEF PeerInv, Session
  <2> QED BY <2>2, <2>3
<1>5. CASE RootRead(x)
  <2>1. ~Exposed(x) /\ ~Exposed(x)' /\ phase[x] = "new" /\ phase'[x] = "loaded" /\ outcome'[x] # "err"
        /\ advanced'[x] = "none"
    BY <1>1, <1>5 DEF RootRead, Goes, Exposed, RootInv, Unmoved
  <2>2. ASSUME NEW c \in Cells PROVE RootInv(c)'
    <3>1. CASE c = x
      BY <2>1, <3>1 DEF RootInv
    <3>2. CASE c # x
      BY <1>0, <1>1, <1>2, <1>5, <3>2 DEF RootRead, RootInv, Session
    <3> QED BY <3>1, <3>2
  <2>3. ASSUME NEW c \in Cells, NEW d \in Cells, Peers(c, d) PROVE PeerInv(c, d)'
    <3>0. PeerInv(c, d) /\ c # d
      BY <1>1, <2>3 DEF Peers
    <3>1. CASE d = x
      BY <1>5, <2>1, <3>1 DEF RootRead, PeerInv, Session
    <3>2. CASE c = x
      <4>1. root' = root /\ seen'[d] = seen[d] /\ phase'[d] = phase[d] /\ phase[c] \in Unmoved
        BY <1>0, <1>5, <2>1, <3>0, <3>2 DEF RootRead, Unmoved
      <4> QED BY <2>1, <3>0, <3>2, <4>1 DEF PeerInv, Session
    <3>3. CASE c # x /\ d # x
      BY <1>0, <1>2, <1>5, <3>0, <3>3 DEF RootRead, PeerInv, Session
    <3> QED BY <3>1, <3>2, <3>3
  <2> QED BY <2>2, <2>3
<1>6. CASE RootChosen(x)
  <2>1. /\ advanced[x] = "none" /\ ~Exposed(x)' /\ outcome'[x] # "err" /\ advanced'[x] = "none"
        /\ phase[x] \in Unmoved \ {"new", "loaded"}
    BY <1>1, <1>6 DEF RootChosen, Exposed, RootInv, Unmoved
  <2>2. ASSUME NEW c \in Cells PROVE RootInv(c)'
    <3>1. CASE c = x
      BY <1>6, <2>1, <3>1 DEF RootChosen, RootInv
    <3>2. CASE c # x
      BY <1>0, <1>1, <1>2, <1>6, <3>2 DEF RootChosen, RootInv, Session
    <3> QED BY <3>1, <3>2
  <2>3. ASSUME NEW c \in Cells, NEW d \in Cells, Peers(c, d) PROVE PeerInv(c, d)'
    <3>0. PeerInv(c, d) /\ c # d /\ root' = root /\ seen' = seen
      BY <1>1, <1>6, <2>3 DEF Peers, RootChosen
    <3>1. CASE d = x
      <4>1. phase'[c] = phase[c] /\ want'[c] = want[c] /\ (Exposed(c)' <=> Exposed(c))
        BY <1>0, <1>2, <1>6, <3>0, <3>1 DEF RootChosen
      <4> QED BY <2>1, <3>0, <3>1, <4>1 DEF PeerInv, Session
    <3>2. CASE c = x
      BY <1>0, <2>1, <3>0, <3>2 DEF PeerInv, Session
    <3>3. CASE c # x /\ d # x
      BY <1>0, <1>2, <1>6, <3>0, <3>3 DEF RootChosen, PeerInv, Session
    <3> QED BY <3>1, <3>2, <3>3
  <2> QED BY <2>2, <2>3
<1>7. CASE RootMoved(x)
  <2>1. /\ phase[x] \in Unmoved \ {"new", "loaded"} /\ phase'[x] = "committing" /\ want[x] # seen[x]
        /\ outcome'[x] # "err" /\ phase'[x] \notin Unmoved
    BY <1>1, <1>7 DEF RootMoved, Goes, RootInv, Unmoved
  <2>2. ASSUME NEW c \in Cells PROVE RootInv(c)'
    <3>1. CASE c = x
      BY <1>7, <2>1, <3>1 DEF RootMoved, RootInv, Session
    <3>2. CASE c # x /\ Session(c) = Session(x)
      <4>1. PeerInv(c, x) /\ RootInv(c)
        BY <1>1, <3>2 DEF Peers
      <4>2. ~Exposed(c)
        BY <1>7, <2>1, <3>2, <4>1 DEF RootMoved, PeerInv, RootInv
      <4> QED BY <1>0, <1>2, <1>7, <3>2, <4>1, <4>2 DEF RootMoved, RootInv
    <3>3. CASE Session(c) # Session(x)
      BY <1>0, <1>1, <1>2, <1>7, <3>3 DEF RootMoved, RootInv, Session
    <3> QED BY <3>1, <3>2, <3>3
  <2>3. ASSUME NEW c \in Cells, NEW d \in Cells, Peers(c, d) PROVE PeerInv(c, d)'
    <3>0. PeerInv(c, d) /\ c # d /\ seen' = seen /\ want' = want /\ Session(c) = Session(d)
      BY <1>1, <1>7, <2>3 DEF Peers, RootMoved
    <3>1. CASE d = x
      BY <2>1, <3>1 DEF PeerInv
    <3>2. CASE c = x
      <4>1. phase'[d] = phase[d]
        BY <1>0, <3>0, <3>2
      <4>2. phase[d] \in Unmoved \ {"new", "loaded"} => seen[d] # want[c]
        BY <1>7, <2>1, <3>0, <3>2 DEF PeerInv, RootMoved
      <4> QED BY <2>1, <3>0, <3>2, <4>1, <4>2 DEF PeerInv
    <3>3. CASE c # x /\ d # x
      <4>1. Session(d) # Session(x)
        BY <3>0, <3>3 DEF AtMostTwo
      <4> QED BY <1>0, <1>2, <1>7, <3>0, <3>3, <4>1 DEF RootMoved, PeerInv, Session
    <3> QED BY <3>1, <3>2, <3>3
  <2> QED BY <2>2, <2>3
<1>8. CASE RootTaken(x)
  <2>1. phase'[x] = "failing" /\ phase'[x] \notin Unmoved /\ ~Exposed(x)' /\ outcome'[x] # "err"
    BY <1>1, <1>8 DEF RootTaken, Goes, RootInv, Unmoved, Exposed
  <2>2. \A c \in Cells : c # x => ~Exposed(c)
    <3>1. lease = x
      BY <1>8 DEF RootTaken, HostInv, CoordInv, WriteAheadInv, LeaseInv
    <3> QED BY <3>1, ExposedHolds
  <2>3. ASSUME NEW c \in Cells PROVE RootInv(c)'
    <3>1. CASE c = x
      BY <2>1, <3>1 DEF RootInv
    <3>2. CASE c # x
      BY <1>0, <1>1, <1>2, <1>8, <2>2, <3>2 DEF RootTaken, RootInv
    <3> QED BY <3>1, <3>2
  <2>4. ASSUME NEW c \in Cells, NEW d \in Cells, Peers(c, d) PROVE PeerInv(c, d)'
    <3>0. PeerInv(c, d) /\ c # d /\ seen' = seen /\ want' = want /\ Session(c) = Session(d)
      BY <1>1, <1>8, <2>4 DEF Peers, RootTaken
    <3>1. CASE c = x \/ d = x
      BY <2>1, <3>1 DEF PeerInv
    <3>2. CASE c # x /\ d # x
      <4>1. Session(d) # Session(x)
        BY <3>0, <3>2 DEF AtMostTwo
      <4> QED BY <1>0, <1>2, <1>8, <3>0, <3>2, <4>1 DEF RootTaken, PeerInv, Session
    <3> QED BY <3>1, <3>2
  <2> QED BY <2>3, <2>4
<1> QED BY <1>1, <1>4, <1>5, <1>6, <1>7, <1>8, RootSteps

(* As long as nothing but cancellation, crashes and edits from outside goes *)
(* wrong, and no three cells share a session, a cell of finish that cannot  *)
(* commit its transaction takes its root back: README.md's "keeps the prior *)
(* state root".  compare_and_set_root finds what the cell published,        *)
(* because a cell that loaded that root waits in reconcile for the lease,   *)
(* and one that loaded an earlier root is refused by its own comparison.    *)
(* With a third cell the root can come back to an earlier handle.           *)
THEOREM FailureKeepsRootHolds ==
    ASSUME MaxFaults = 0, AtMostTwo
    PROVE  CellSpec => []FailureKeepsRoot
<1> DEFINE Inv == HostInv /\ RootsInv
<1>1. CellInit => Inv
  <2>1. ASSUME CellInit PROVE RootsInv
    BY <2>1 DEF CellInit, RootsInv, RootInv, PeerInv, Exposed
  <2> QED BY <2>1, HostInit
<1>2. Inv /\ [CellNext]_cellVars => Inv'
  <2> SUFFICES ASSUME Inv, [CellNext]_cellVars PROVE RootsInv'
    BY HostKeeps
  <2>1. Spent
    BY SMTT(60) DEF HostInv, CoordInv, TypeInv, DiskOK, Spent
  <2>2. CASE \E c \in Cells : CellStep(c)
    BY <2>1, <2>2, RootsKept
  <2>3. CASE UNCHANGED <<journal, pc, rec, settled, undo, faults, hostVars>>
    BY <2>3 DEF RootsInv, RootInv, PeerInv, Peers, Exposed, Session, hostVars
  <2> QED BY <2>2, <2>3, HostSteps
<1>3. Inv => FailureKeepsRoot
  BY DEF RootsInv, RootInv, FailureKeepsRoot
<1> HIDE DEF Inv
<1> QED BY <1>1, <1>2, <1>3, PTL DEF CellSpec
=============================================================================

---------------------------- MODULE SharedProofs ----------------------------
(***************************************************************************)
(* Three things that processes share, each under its own specification: a   *)
(* child process that several threads may revoke (ProcessTree), the objects *)
(* that FSZero evicts when another replica holds them (BlobStore), and the  *)
(* store that the collector sweeps (Gc).                                    *)
(***************************************************************************)
EXTENDS ProcessTree, BlobStore, Gc, FiniteSetTheorems, TLAPS

(* A leaf is for Zenon unless it names SMT. *)
USE ZenonT(60)

-----------------------------------------------------------------------------
(* ProcessTree: the pin.                                                    *)

LockedSteps == {"probe", "term", "grace", "kill", "reap", "gone"}

OwnerSteps == LockedSteps \cup {"idle", "lock", "open", "verify", "pidfd", "dropped"}

TreeTypeOK ==
    /\ grouped \in BOOLEAN /\ doomed \in BOOLEAN /\ stranger \in BOOLEAN /\ slot \in BOOLEAN
    /\ settled \in BOOLEAN /\ revoked \in BOOLEAN /\ struck \in BOOLEAN
    /\ root \in {"running", "zombie", "reaped"} /\ kids \in Nat
    /\ owner \in [Owners -> OwnerSteps]
    /\ fd \in [Owners -> {"none", "own", "stranger"}]

\* What makes the signals of a tree's owners exact.  The child's mutex has one
\* holder; the number is recycled only after the reap and the last descendant;
\* a holder between its look at the root and its reap sees an unreaped root; a
\* pidfd that passed the second identity check is the child's own; and a tree is
\* settled, hence revoked, only when it is gone for good.
PinInv ==
    /\ \A o, p \in Owners : owner[o] \in LockedSteps /\ owner[p] \in LockedSteps => o = p
    /\ stranger => root = "reaped" /\ kids = 0
    /\ \A o \in Owners : owner[o] \in {"term", "grace", "kill"} /\ grouped => root # "reaped"
    /\ \A o \in Owners : owner[o] = "gone" => root = "reaped"
    /\ \A o \in Owners : fd[o] = "stranger" => root = "reaped" /\ owner[o] # "pidfd"
    /\ settled => root = "reaped" /\ kids = 0
    /\ grouped /\ revoked => settled
    /\ grouped => ~ struck

TreeInv == TreeTypeOK /\ PinInv

\* The kernel, the processes and the last drop keep the pin: the number is free
\* only when the root has been reaped and its group is empty (child.rs, Drop).
LEMMA PinKernel ==
  ASSUME TreeInv, UNCHANGED grouped,
         \/ RootExits \/ Forks \/ KidExits \/ Recycled \/ Abandon
  PROVE  TreeInv'
<1> USE DEF TreeInv, TreeTypeOK, PinInv, LockedSteps, OwnerSteps
<1>1. CASE RootExits
  BY <1>1 DEF RootExits
<1>2. CASE Forks
  BY SMTT(60), <1>2 DEF Forks
<1>3. CASE KidExits
  BY SMTT(60), <1>3 DEF KidExits
<1>4. CASE Recycled
  BY <1>4 DEF Recycled
<1>5. CASE Abandon
  BY <1>5 DEF Abandon, Strikes
<1> QED BY <1>1, <1>2, <1>3, <1>4, <1>5

\* A signalling call of an owner keeps the pin, from its precondition check to
\* the group's end (child.rs, signal_graceful_for and terminate_tree_child).
LEMMA PinSignal ==
  ASSUME TreeInv, UNCHANGED grouped, NEW o \in Owners,
         \/ Preconditions(o) \/ LockChild(o) \/ Probe(o) \/ SendTerm(o) \/ Grace(o)
         \/ SendKill(o) \/ Reap(o) \/ GroupGone(o)
  PROVE  TreeInv'
<1> USE DEF TreeInv, TreeTypeOK, PinInv, LockedSteps, OwnerSteps, Goto, TryWait
<1>1. CASE Preconditions(o)
  <2>1. CASE grouped
    BY SMTT(60), <1>1, <2>1 DEF Preconditions, Locked
  <2>2. CASE ~ grouped
    BY SMTT(60), <1>1, <2>2 DEF Preconditions, Locked
  <2> QED BY <2>1, <2>2
<1>2. CASE LockChild(o)
  BY <1>2 DEF LockChild, Locked
<1>3. CASE Probe(o)
  BY SMTT(60), <1>3 DEF Probe
<1>4. CASE SendTerm(o)
  BY SMTT(60), <1>4 DEF SendTerm, Strikes
<1>5. CASE Grace(o)
  BY SMTT(60), <1>5 DEF Grace
<1>6. CASE SendKill(o)
  BY <1>6 DEF SendKill, Strikes
<1>7. CASE Reap(o)
  <2>1. root' = "reaped" \/ (root' = root /\ owner'[o] = "idle")
    BY <1>7 DEF Reap
  <2>2. TreeTypeOK'
    BY <1>7 DEF Reap
  <2>3. \A p \in Owners : owner[p] \in LockedSteps => p = o
    BY <1>7 DEF Reap
  <2>4. PinInv'
    BY SMTT(60), <1>7, <2>1, <2>2, <2>3 DEF Reap
  <2> QED BY <2>2, <2>4
<1>8. CASE GroupGone(o)
  <2>1. TreeTypeOK'
    BY <1>8 DEF GroupGone
  <2>2. settled' => root = "reaped" /\ kids = 0
    BY <1>8 DEF GroupGone
  <2>3. PinInv'
    BY SMTT(60), <1>8, <2>1, <2>2 DEF GroupGone
  <2> QED BY <2>1, <2>3
<1> QED BY <1>1, <1>2, <1>3, <1>4, <1>5, <1>6, <1>7, <1>8

\* Revocation, polling and the detached escalation keep the pin (child.rs,
\* revoke, poll_exited and escalate_detached).
LEMMA PinOther ==
  ASSUME TreeInv, UNCHANGED grouped, NEW o \in Owners,
         \/ Revoke(o) \/ PollExited(o)
         \/ DetachedCheck(o) \/ DetachedOpen(o) \/ DetachedVerify(o) \/ DetachedSignal(o)
  PROVE  TreeInv'
<1> USE DEF TreeInv, TreeTypeOK, PinInv, LockedSteps, OwnerSteps, Goto, TryWait
<1>1. CASE Revoke(o)
  BY <1>1 DEF Revoke, Locked
<1>2. CASE PollExited(o)
  BY <1>2 DEF PollExited, Locked
<1>3. CASE DetachedCheck(o)
  BY SMTT(60), <1>3 DEF DetachedCheck
<1>4. CASE DetachedOpen(o)
  BY SMTT(60), <1>4 DEF DetachedOpen
<1>5. CASE DetachedVerify(o)
  BY SMTT(60), <1>5 DEF DetachedVerify
<1>6. CASE DetachedSignal(o)
  BY <1>6 DEF DetachedSignal
<1> QED BY <1>1, <1>2, <1>3, <1>4, <1>5, <1>6

\* No signal of a tree's owners reaches a stranger, and a revoked tree is gone,
\* for any number of threads and descendants (child.rs, VerifiedChild).
THEOREM RevocationIsExactHolds == TreeSpec => []RevocationIsExact
<1>1. TreeInit => TreeInv
  <2> SUFFICES ASSUME TreeInit PROVE TreeInv
    OBVIOUS
  <2>1. TreeTypeOK
    BY DEF TreeInit, TreeTypeOK, OwnerSteps
  <2>2. \A o \in Owners : owner[o] = "idle" /\ fd[o] = "none"
    BY DEF TreeInit
  <2>3. PinInv
    BY <2>2 DEF TreeInit, PinInv, LockedSteps
  <2> QED BY <2>1, <2>3 DEF TreeInv
<1>2. TreeInv /\ [TreeNext]_treeVars => TreeInv'
  <2> SUFFICES ASSUME TreeInv, [TreeNext]_treeVars PROVE TreeInv'
    OBVIOUS
  <2>1. CASE UNCHANGED treeVars
    BY <2>1 DEF treeVars, TreeInv, TreeTypeOK, PinInv
  <2>2. CASE TreeNext
    BY <2>2, PinKernel, PinSignal, PinOther DEF TreeNext
  <2> QED BY <2>1, <2>2
<1>3. TreeInv => RevocationIsExact
  BY DEF TreeInv, PinInv, RevocationIsExact, OnlyOwnProcess, RevokedIsSwept
<1> QED BY <1>1, <1>2, <1>3, PTL DEF TreeSpec

-----------------------------------------------------------------------------
(* Eviction.                                                                *)

\* A blob's bytes are as many as its size (cas.rs, measure_resident_mass).
LEMMA BlobBytes ==
  ASSUME NEW b \in Blobs
  PROVE  /\ IsFiniteSet({b} \X (1..Size[b]))
         /\ Cardinality({b} \X (1..Size[b])) = Size[b]
<1>1. Size[b] \in Nat
  BY BlobAssumption
<1>2. IsFiniteSet(1..Size[b]) /\ Cardinality(1..Size[b]) = Size[b]
  <2>1. /\ IsFiniteSet(1..Size[b])
        /\ Cardinality(1..Size[b]) = IF 1 > Size[b] THEN 0 ELSE Size[b] - 1 + 1
    BY <1>1, FS_Interval, SMTT(60)
  <2> QED BY SMTT(60), <1>1, <2>1
<1>3. IsFiniteSet({b}) /\ Cardinality({b}) = 1
  BY FS_Singleton
<1>4. /\ IsFiniteSet({b} \X (1..Size[b]))
      /\ Cardinality({b} \X (1..Size[b])) = Cardinality({b}) * Cardinality(1..Size[b])
  BY <1>2, <1>3, FS_Product
<1> QED BY SMTT(60), <1>1, <1>2, <1>3, <1>4

\* The bytes of any blobs are finitely many (cas.rs, measure_resident_mass).
LEMMA BytesFinite ==
  ASSUME NEW S \in SUBSET Blobs
  PROVE  IsFiniteSet(BytesOf(S)) /\ Mass(S) \in Nat
<1> DEFINE T == {{b} \X (1..Size[b]) : b \in S}
           f == [b \in S |-> {b} \X (1..Size[b])]
<1>1. IsFiniteSet(S)
  BY BlobAssumption, FS_Subset
<1>2. f \in Surjection(S, T)
  BY DEF Surjection
<1>3. IsFiniteSet(T)
  <2> HIDE DEF f, T
  <2> QED BY <1>1, <1>2, FS_Surjection
<1>4. \A t \in T : IsFiniteSet(t)
  BY BlobBytes
<1>5. IsFiniteSet(UNION T)
  <2> HIDE DEF f, T
  <2> QED BY <1>3, <1>4, FS_UNION
<1>6. IsFiniteSet(BytesOf(S))
  BY <1>5 DEF BytesOf
<1> QED BY <1>6, FS_CardinalityType DEF Mass

\* Removing a blob takes at most its size (cas.rs, gc_with_demand).
LEMMA MassDrop ==
  ASSUME NEW S \in SUBSET Blobs, NEW b \in Blobs
  PROVE  Mass(S \ {b}) >= Mass(S) - Size[b]
<1> DEFINE X == {b} \X (1..Size[b])
<1>1. BytesOf(S \ {b}) = BytesOf(S) \ X
  BY SMTT(60) DEF BytesOf
<1>2. IsFiniteSet(BytesOf(S)) /\ Mass(S) \in Nat
  BY BytesFinite
<1>3. IsFiniteSet(X) /\ Cardinality(X) = Size[b]
  BY BlobBytes
<1> HIDE DEF X
<1>4. Cardinality(BytesOf(S) \ X) = Cardinality(BytesOf(S)) - Cardinality(BytesOf(S) \cap X)
  BY <1>2, FS_Difference
<1>5. /\ IsFiniteSet(BytesOf(S) \cap X)
      /\ Cardinality(BytesOf(S) \cap X) <= Cardinality(X)
  BY <1>3, FS_Intersection
<1>6. Cardinality(BytesOf(S) \cap X) \in Nat
  BY <1>5, FS_CardinalityType
<1>7. Size[b] \in Nat
  BY BlobAssumption
<1>8. Mass(S \ {b}) = Cardinality(BytesOf(S) \ X)
  BY <1>1 DEF Mass
<1>9. Mass(S \ {b}) = Mass(S) - Cardinality(BytesOf(S) \cap X)
  BY <1>4, <1>8 DEF Mass
<1> QED BY SMTT(60), <1>2, <1>3, <1>5, <1>6, <1>7, <1>9

\* More blobs hold at least as many bytes (cas.rs, measure_resident_mass).
LEMMA MassGrows ==
  ASSUME NEW S \in SUBSET Blobs, NEW T \in SUBSET Blobs, S \subseteq T
  PROVE  Mass(S) <= Mass(T)
<1>1. BytesOf(S) \subseteq BytesOf(T)
  BY DEF BytesOf
<1>2. IsFiniteSet(BytesOf(T))
  BY BytesFinite
<1> QED BY <1>1, <1>2, FS_Subset DEF Mass

\* The least of two integers.
LEMMA MinOfTwo ==
  ASSUME NEW x \in Int, NEW y \in Int
  PROVE  Min({x, y}) = IF x <= y THEN x ELSE y
<1>1. \E m \in {x, y} : \A z \in {x, y} : m <= z
  BY SMTT(60)
<1>2. Min({x, y}) \in {x, y} /\ \A z \in {x, y} : Min({x, y}) <= z
  BY <1>1 DEF Min
<1> QED BY SMTT(60), <1>2

BlobOrNone == Blobs \cup {NoBlob}

Sweep == [step : {"scan", "mark", "remove"}, live : SUBSET Rootable, todo : SUBSET Blobs,
          resident : Nat, floor : Int, evicted : Nat, blob : BlobOrNone]

BlobTypeOK ==
    /\ resident \in SUBSET Blobs /\ DOMAIN validity \in SUBSET Blobs
    /\ held \in [Replicas -> SUBSET Blobs] /\ liveRoots \in SUBSET Rootable
    /\ putting \in [Putters -> BlobOrNone] /\ mending \in BlobOrNone
    /\ sweep \in {NoSweep} \cup Sweep

Replicated(b) == \A t \in Replicas : b \in held[t]

\* What makes eviction safe.  A blob that has, or is about to get, a validity
\* record is resident or on every replica; nobody puts while the sweep runs;
\* the blob under eviction is on every replica; and a sweep has taken no more
\* than it counted, which leaves the floor or is nothing.
EvictionInv ==
    /\ \A b \in DOMAIN validity : b \in resident \/ Replicated(b)
    /\ \A w \in Putters : putting[w] # NoBlob => sweep = NoSweep /\ putting[w] \in resident
    /\ mending # NoBlob => mending \in resident \/ Replicated(mending)
    /\ sweep # NoSweep =>
         /\ Mass(resident) + sweep.evicted >= sweep.resident
         /\ sweep.evicted = 0 \/ sweep.resident - sweep.evicted >= sweep.floor
         /\ sweep.step \in {"mark", "remove"} =>
              /\ sweep.blob \in Blobs /\ Replicated(sweep.blob)
              /\ sweep.resident - (sweep.evicted + Size[sweep.blob]) >= sweep.floor

BlobInv == BlobTypeOK /\ EvictionInv

\* A running sweep is not the record of none.
LEMMA SweepRuns ==
  ASSUME NEW s \in Sweep
  PROVE  s # NoSweep
BY SMTT(60) DEF Sweep, NoSweep

\* The record of none is at no step of a sweep.
LEMMA NotSweeping ==
  NoSweep.step \notin {"scan", "mark", "remove"}
BY DEF NoSweep

\* A put keeps eviction safe: its object is there before its record (cas.rs,
\* put_prehashed).
LEMMA EvictionPut ==
  ASSUME BlobInv, NEW w \in Putters, NEW b \in Blobs,
         PutObject(w, b) \/ PublishValidity(w)
  PROVE  BlobInv'
<1>1. CASE PutObject(w, b)
  <2>1. resident' = resident \cup {b} /\ sweep = NoSweep /\ sweep' = NoSweep
    BY <1>1 DEF PutObject
  <2>2. putting' = [putting EXCEPT ![w] = b] /\ UNCHANGED <<validity, held, liveRoots, mending>>
    BY <1>1 DEF PutObject
  <2>3. BlobTypeOK'
    BY <2>1, <2>2 DEF BlobInv, BlobTypeOK, BlobOrNone
  <2>4. EvictionInv'
    BY <2>1, <2>2 DEF BlobInv, BlobTypeOK, EvictionInv, Replicated
  <2> QED BY <2>3, <2>4 DEF BlobInv
<1>2. CASE PublishValidity(w)
  <2>1. putting[w] \in resident /\ putting[w] \in Blobs /\ sweep = NoSweep
    BY <1>2 DEF BlobInv, BlobTypeOK, EvictionInv, BlobOrNone, PublishValidity
  <2>2. putting' = [putting EXCEPT ![w] = NoBlob]
    BY <1>2 DEF PublishValidity
  <2>3. DOMAIN validity' = DOMAIN validity \cup {putting[w]}
    BY <1>2 DEF PublishValidity, Record
  <2>4. UNCHANGED <<resident, held, liveRoots, mending, sweep>>
    BY <1>2 DEF PublishValidity
  <2>5. BlobTypeOK'
    BY <2>1, <2>2, <2>3, <2>4 DEF BlobInv, BlobTypeOK, BlobOrNone
  <2>6. EvictionInv'
    BY <2>1, <2>2, <2>3, <2>4 DEF BlobInv, BlobTypeOK, EvictionInv, Replicated
  <2> QED BY <2>5, <2>6 DEF BlobInv
<1> QED BY <1>1, <1>2

\* Reads, root snapshots, repair and kills keep eviction safe: repair runs beside
\* the sweep and takes no lock (cas.rs, repair_from_replicas).
LEMMA EvictionAside ==
  ASSUME BlobInv,
         \/ \E b \in Blobs : BlobGet(b) \/ Ages(b) \/ RepairFetch(b)
         \/ \E S \in SUBSET Rootable : PublishGcRoots(S)
         \/ RepairPublish \/ BlobKill
         \/ UNCHANGED blobVars
  PROVE  BlobInv'
<1>1. CASE UNCHANGED <<resident, validity, held, putting, sweep, mending>> /\ liveRoots' \in SUBSET Rootable
  BY <1>1 DEF BlobInv, BlobTypeOK, EvictionInv, BlobOrNone, Replicated
<1>2. ASSUME NEW b \in Blobs, RepairFetch(b) PROVE BlobInv'
  <2>1. resident' = resident \cup {b} /\ mending' = b
    BY <1>2 DEF RepairFetch
  <2>2. UNCHANGED <<validity, held, liveRoots, putting, sweep>>
    BY <1>2 DEF RepairFetch
  <2>3. BlobTypeOK'
    BY <2>1, <2>2 DEF BlobInv, BlobTypeOK, BlobOrNone
  <2>4. Mass(resident') >= Mass(resident) /\ Mass(resident') \in Nat /\ Mass(resident) \in Nat
    BY <2>1, <2>3, MassGrows, BytesFinite DEF BlobInv, BlobTypeOK, EvictionInv, BlobOrNone
  <2>5. EvictionInv'
    BY SMTT(60), <2>1, <2>2, <2>4 DEF BlobInv, BlobTypeOK, EvictionInv, Replicated, Sweep
  <2> QED BY <2>3, <2>5 DEF BlobInv
<1>3. CASE RepairPublish
  <2>1. mending # NoBlob /\ mending' = NoBlob /\ mending \in Blobs
    BY <1>3 DEF BlobInv, BlobTypeOK, EvictionInv, BlobOrNone, RepairPublish
  <2>2. DOMAIN validity' = DOMAIN validity \cup {mending}
    BY <1>3 DEF RepairPublish, Record
  <2>3. UNCHANGED <<resident, held, liveRoots, putting, sweep>>
    BY <1>3 DEF RepairPublish
  <2> QED BY <2>1, <2>2, <2>3 DEF BlobInv, BlobTypeOK, EvictionInv, BlobOrNone, Replicated
<1>4. CASE BlobKill
  <2>1. putting' = [w \in Putters |-> NoBlob] /\ sweep' = NoSweep /\ mending' = NoBlob
    BY <1>4 DEF BlobKill
  <2>2. UNCHANGED <<resident, validity, held, liveRoots>>
    BY <1>4 DEF BlobKill
  <2> QED BY <2>1, <2>2
    DEF BlobInv, BlobTypeOK, EvictionInv, BlobOrNone, Replicated
<1> QED BY <1>1, <1>2, <1>3, <1>4
  DEF BlobInv, BlobTypeOK, EvictionInv, BlobOrNone, BlobGet, Ages, PublishGcRoots, blobVars

\* A sweep begins with nobody putting, and ends (cas.rs, gc_with_demand).
LEMMA EvictionRun ==
  ASSUME BlobInv, GcBegin \/ GcEnd
  PROVE  BlobInv'
<1>1. CASE GcBegin
  <2> DEFINE demanded == liveRoots \cap (resident \cup DOMAIN validity)
  <2>1. Mass(resident) \in Nat /\ Mass(demanded) \in Nat
    BY BytesFinite DEF BlobInv, BlobTypeOK, EvictionInv, BlobOrNone
  <2>2. Floor(MeasureDemanded(liveRoots)) \in Int
    BY SMTT(60), <2>1 DEF Floor, MeasureDemanded
  <2>3. sweep' = [step |-> "scan", live |-> liveRoots, todo |-> resident,
                  resident |-> Mass(resident), floor |-> Floor(MeasureDemanded(liveRoots)),
                  evicted |-> 0, blob |-> NoBlob]
    BY <1>1 DEF GcBegin
  <2>4. sweep' \in Sweep
    BY <2>1, <2>2, <2>3 DEF BlobInv, BlobTypeOK, EvictionInv, BlobOrNone, Sweep
  <2>5. UNCHANGED <<resident, validity, held, liveRoots, putting, mending>>
    BY <1>1 DEF GcBegin
  <2>6. \A w \in Putters : putting[w] = NoBlob
    BY <1>1 DEF GcBegin
  <2>7. BlobTypeOK'
    BY <2>4, <2>5 DEF BlobInv, BlobTypeOK, BlobOrNone
  <2>8. EvictionInv'
    BY SMTT(60), <2>1, <2>3, <2>5, <2>6 DEF BlobInv, BlobTypeOK, EvictionInv, Replicated
  <2> QED BY <2>7, <2>8 DEF BlobInv
<1>2. CASE GcEnd
  <2>1. sweep' = NoSweep /\ liveRoots' \in SUBSET Rootable
    BY <1>2 DEF BlobInv, BlobTypeOK, EvictionInv, BlobOrNone, GcEnd
  <2>2. UNCHANGED <<resident, validity, held, putting, mending>>
    BY <1>2 DEF GcEnd
  <2> QED BY <2>1, <2>2 DEF BlobInv, BlobTypeOK, EvictionInv, BlobOrNone, Replicated
<1> QED BY <1>1, <1>2

\* A blob is passed over, or replicated and marked for eviction only under the
\* guard and with every replica holding it (replication.rs, replicate_before_evict).
LEMMA EvictionScan ==
  ASSUME BlobInv, NEW b \in Blobs, Passed(b) \/ ReplicateBeforeEvict(b)
  PROVE  BlobInv'
<1>1. sweep \in Sweep
  <2>1. sweep.step = "scan"
    BY DEF Passed, ReplicateBeforeEvict
  <2>2. sweep \in {NoSweep} \cup Sweep
    BY DEF BlobInv, BlobTypeOK
  <2> QED BY <2>1, <2>2, NotSweeping
<1>2. sweep.step = "scan" /\ sweep.todo \in SUBSET Blobs
  <2>1. sweep.step = "scan"
    BY DEF Passed, ReplicateBeforeEvict
  <2> QED BY <1>1, <2>1 DEF Sweep
<1>3. UNCHANGED <<resident, validity, liveRoots, putting, mending>>
  BY DEF Passed, ReplicateBeforeEvict
<1>4. \A w \in Putters : putting[w] = NoBlob
  BY <1>1, SweepRuns DEF BlobInv, EvictionInv
<1>5. CASE Passed(b)
  <2>1. sweep' = [sweep EXCEPT !.todo = sweep.todo \ {b}]
    BY <1>5 DEF Passed
  <2>2. sweep' \in Sweep /\ sweep'.step = "scan"
    BY <1>1, <1>2, <2>1 DEF Sweep
  <2>3. UNCHANGED <<sweep.evicted, sweep.resident, sweep.floor>>
    BY <1>1, <2>1 DEF Sweep
  <2>4. UNCHANGED held
    BY <1>5 DEF Passed
  <2>5. BlobTypeOK'
    BY <1>3, <2>2, <2>4 DEF BlobInv, BlobTypeOK, BlobOrNone
  <2>6. EvictionInv'
    BY <1>1, <1>3, <1>4, <2>2, <2>3, <2>4, SweepRuns DEF BlobInv, EvictionInv, Replicated
  <2> QED BY <2>5, <2>6 DEF BlobInv
<1>6. CASE ReplicateBeforeEvict(b)
  <2>1. PICK reached \in SUBSET Replicas :
          /\ held' = [t \in Replicas |-> IF t \in reached THEN held[t] \cup {b} ELSE held[t]]
          /\ sweep' = [sweep EXCEPT !.todo = sweep.todo \ {b}, !.blob = b,
                          !.step = IF \A t \in Replicas : b \in held'[t] THEN "mark" ELSE "scan"]
    BY <1>6 DEF ReplicateBeforeEvict
  <2>2. held' \in [Replicas -> SUBSET Blobs] /\ \A t \in Replicas : held[t] \subseteq held'[t]
    <3>1. held \in [Replicas -> SUBSET Blobs]
      BY DEF BlobInv, BlobTypeOK
    <3>2. held' = [t \in Replicas |-> IF t \in reached THEN held[t] \cup {b} ELSE held[t]]
      BY <2>1
    <3> QED BY <3>1, <3>2
  <2>3. \A c : Replicated(c) => Replicated(c)'
    BY <2>2 DEF Replicated
  <2>4. /\ sweep' \in Sweep /\ sweep'.blob = b
        /\ sweep'.step = IF Replicated(b)' THEN "mark" ELSE "scan"
    BY <1>1, <1>2, <2>1 DEF BlobOrNone, Sweep, Replicated
  <2>5. UNCHANGED <<sweep.evicted, sweep.resident, sweep.floor>>
    BY <1>1, <2>1 DEF Sweep
  <2>6. sweep.resident - (sweep.evicted + Size[b]) >= sweep.floor
    BY <1>6 DEF ReplicateBeforeEvict, Retained, GuardEviction
  <2>7. BlobTypeOK'
    BY <1>3, <2>2, <2>4 DEF BlobInv, BlobTypeOK, BlobOrNone
  <2>8. \A c \in DOMAIN validity' : c \in resident' \/ Replicated(c)'
    BY <1>3, <2>3 DEF BlobInv, EvictionInv
  <2>9. mending' # NoBlob => mending' \in resident' \/ Replicated(mending)'
    BY <1>3, <2>3 DEF BlobInv, EvictionInv
  <2>10. EvictionInv'
    BY <1>1, <1>3, <1>4, <2>4, <2>5, <2>6, <2>8, <2>9, SweepRuns
      DEF BlobInv, BlobTypeOK, EvictionInv
  <2> QED BY <2>7, <2>10 DEF BlobInv
<1> QED BY <1>5, <1>6

\* The marked blob is recorded cold and then unlinked: its bytes are on every
\* replica, and the run has counted them (validity.rs, mark_l3_cold; cas.rs,
\* gc_with_demand).
LEMMA EvictionMark ==
  ASSUME BlobInv, MarkCold \/ RemoveObject
  PROVE  BlobInv'
<1> DEFINE b == sweep.blob
<1>1. sweep.step \in {"mark", "remove"}
  BY DEF MarkCold, RemoveObject
<1>2. sweep \in Sweep
  BY <1>1, NotSweeping DEF BlobInv, BlobTypeOK
<1>3. /\ b \in Blobs /\ Replicated(b)
      /\ sweep.resident - (sweep.evicted + Size[b]) >= sweep.floor
      /\ Mass(resident) + sweep.evicted >= sweep.resident
      /\ \A w \in Putters : putting[w] = NoBlob
  BY <1>1, <1>2, SweepRuns DEF BlobInv, EvictionInv
<1>4. UNCHANGED <<held, liveRoots, putting, mending>>
  BY DEF MarkCold, RemoveObject
<1>5. \A c : Replicated(c)' = Replicated(c)
  BY <1>4 DEF Replicated
<1>6. /\ Mass(resident) \in Nat /\ Size[b] \in Nat
      /\ sweep.evicted \in Nat /\ sweep.resident \in Nat /\ sweep.floor \in Int
  BY <1>2, <1>3, BytesFinite, BlobAssumption DEF BlobInv, BlobTypeOK, EvictionInv, BlobOrNone, Sweep
<1>7. CASE MarkCold
  <2>1. sweep' = [sweep EXCEPT !.step = "remove"] /\ UNCHANGED resident
    BY <1>7 DEF MarkCold
  <2>2. DOMAIN validity' = DOMAIN validity \cup {b}
    BY <1>7 DEF MarkCold, Record
  <2>3. /\ sweep' \in Sweep /\ UNCHANGED <<sweep.evicted, sweep.resident, sweep.floor, sweep.blob>>
    BY <1>2, <2>1 DEF Sweep
  <2>4. BlobTypeOK'
    BY <1>3, <1>4, <2>1, <2>2, <2>3 DEF BlobInv, BlobTypeOK, BlobOrNone
  <2> HIDE DEF b
  <2>5. \A c \in DOMAIN validity' : c \in resident' \/ Replicated(c)'
    BY <1>3, <1>5, <2>1, <2>2 DEF BlobInv, EvictionInv
  <2>6. mending' # NoBlob => mending' \in resident' \/ Replicated(mending)'
    BY <1>4, <1>5, <2>1 DEF BlobInv, EvictionInv
  <2> USE DEF b
  <2>7. EvictionInv'
    BY <1>2, <1>3, <1>4, <1>5, <2>1, <2>3, <2>5, <2>6, SweepRuns DEF BlobInv, BlobTypeOK, EvictionInv
  <2> QED BY <2>4, <2>7 DEF BlobInv
<1>8. CASE RemoveObject
  <2>1. UNCHANGED validity
    BY <1>8 DEF RemoveObject
  <2>2. \/ /\ resident' = resident \ {b}
           /\ sweep' = [sweep EXCEPT !.step = "scan", !.evicted = sweep.evicted + Size[b]]
        \/ /\ sweep' = [sweep EXCEPT !.step = "scan"]
           /\ UNCHANGED resident
    BY <1>8 DEF RemoveObject
  <2>3. /\ sweep' \in Sweep /\ sweep'.step = "scan"
        /\ UNCHANGED <<sweep.resident, sweep.floor>>
        /\ \/ sweep'.evicted = sweep.evicted + Size[b] /\ resident' = resident \ {b}
           \/ sweep'.evicted = sweep.evicted /\ resident' = resident
    <3> DEFINE n == sweep.evicted + Size[b]
    <3>1. n \in Nat
      BY SMTT(60), <1>6
    <3> HIDE DEF n
    <3>2. CASE sweep' = [sweep EXCEPT !.step = "scan", !.evicted = n] /\ resident' = resident \ {b}
      BY <1>2, <3>1, <3>2 DEF Sweep, n
    <3>3. CASE sweep' = [sweep EXCEPT !.step = "scan"] /\ UNCHANGED resident
      BY <1>2, <3>3 DEF Sweep
    <3> QED BY <2>2, <3>2, <3>3 DEF n
  <2>5. BlobTypeOK'
    BY <1>4, <2>1, <2>2, <2>3 DEF BlobInv, BlobTypeOK, BlobOrNone
  <2>6. Mass(resident \ {b}) >= Mass(resident) - Size[b] /\ Mass(resident \ {b}) \in Nat
    BY <1>3, MassDrop, BytesFinite
      DEF BlobInv, BlobTypeOK, EvictionInv, BlobOrNone
  <2>8. /\ Mass(resident') + sweep'.evicted >= sweep.resident
        /\ sweep'.evicted = 0 \/ sweep.resident - sweep'.evicted >= sweep.floor
    <3> HIDE DEF BlobInv
    <3>1. sweep.evicted = 0 \/ sweep.resident - sweep.evicted >= sweep.floor
      BY <1>2, SweepRuns
        DEF BlobInv, BlobTypeOK, EvictionInv, BlobOrNone, BlobInv
    <3>2. CASE sweep'.evicted = sweep.evicted + Size[b] /\ resident' = resident \ {b}
      BY SMTT(60), <1>3, <1>6, <2>6, <3>2
    <3>3. CASE sweep'.evicted = sweep.evicted /\ resident' = resident
      BY <1>3, <3>1, <3>3
    <3> QED BY <2>3, <3>2, <3>3
  <2>9. \A c : c \in resident => c \in resident' \/ Replicated(c)'
    BY <1>3, <1>5, <2>2
  <2>10. EvictionInv'
    BY <1>3, <1>4, <1>5, <2>1, <2>3, <2>8, <2>9
      DEF BlobInv, BlobTypeOK, EvictionInv
  <2> QED BY <2>5, <2>10 DEF BlobInv
<1> QED BY <1>7, <1>8

\* Eviction never takes the last copy of a recorded blob, and the evictions of a
\* run together leave the floor of the slack guard, for any number of blobs,
\* sizes, replicas and writers (cas.rs, gc_with_demand; replication.rs).
THEOREM EvictionIsSafeHolds == BlobSpec => []EvictionIsSafe
<1>1. BlobInit => BlobInv
  BY SMTT(60) DEF BlobInit, BlobInv, BlobTypeOK, EvictionInv, BlobOrNone, Replicated
<1>2. BlobInv /\ [BlobNext]_blobVars => BlobInv'
  <2> SUFFICES ASSUME BlobInv, [BlobNext]_blobVars PROVE BlobInv'
    OBVIOUS
  <2>1. CASE UNCHANGED blobVars
    BY <2>1, EvictionAside
  <2>2. ASSUME NEW w \in Putters, PublishValidity(w) PROVE BlobInv'
    <3>1. putting[w] \in Blobs
      BY <2>2 DEF BlobInv, BlobTypeOK, BlobOrNone, PublishValidity
    <3> QED BY <2>2, <3>1, EvictionPut
  <2>3. CASE BlobNext
    BY <2>2, <2>3, EvictionPut, EvictionAside, EvictionRun, EvictionScan, EvictionMark DEF BlobNext
  <2> QED BY <2>1, <2>3
<1>3. BlobInv => EvictionIsSafe
  <2> SUFFICES ASSUME BlobInv PROVE EvictedBlobsAreElsewhere /\ SlackFloorHolds
    BY DEF EvictionIsSafe
  <2>1. EvictedBlobsAreElsewhere
    BY DEF BlobInv, EvictionInv, Replicated, EvictedBlobsAreElsewhere
  <2>2. ASSUME sweep # NoSweep PROVE Mass(resident) >= Min({sweep.floor, sweep.resident})
    <3>1. sweep \in Sweep
      BY <2>2 DEF BlobInv, BlobTypeOK
    <3>2. /\ sweep.floor \in Int /\ sweep.resident \in Nat /\ sweep.evicted \in Nat
          /\ Mass(resident) \in Nat
      BY <3>1, BytesFinite DEF Sweep, BlobInv, BlobTypeOK
    <3>3. Min({sweep.floor, sweep.resident})
            = IF sweep.floor <= sweep.resident THEN sweep.floor ELSE sweep.resident
      BY SMTT(60), <3>2, MinOfTwo
    <3>4. /\ Mass(resident) + sweep.evicted >= sweep.resident
          /\ sweep.evicted = 0 \/ sweep.resident - sweep.evicted >= sweep.floor
      BY <2>2 DEF BlobInv, EvictionInv
    <3> QED BY SMTT(60), <3>2, <3>3, <3>4
  <2> QED BY <2>1, <2>2 DEF SlackFloorHolds
<1> QED BY <1>1, <1>2, <1>3, PTL DEF BlobSpec

-----------------------------------------------------------------------------
(* Gc: evidence the collector verified stays true of the store, and a sweep *)
(* takes no object that a root or a lease covers.                           *)

\* A nonempty plan has a least digest (gc.rs: the plan is sorted).
LEMMA LeastDigest ==
  ASSUME NEW S \in SUBSET Hashes, S # {}
  PROVE  Min(S) \in S
<1> DEFINE R == OpToRel(<, Nat)
<1>1. IsWellFoundedOn(R, Nat)
  BY NatLessThanWellFounded
<1>2. \A x, y \in Nat : x < y => <<x, y>> \in R
  BY DEF OpToRel
<1>3. S \subseteq Nat
  BY HashesAreNaturals
<1>4. \E x \in S : \A y \in S : <<y, x>> \notin R
  <2> HIDE DEF R
  <2> QED BY <1>1, <1>3, WFMin
<1>5. \E x \in S : \A y \in S : x <= y
  <2> HIDE DEF R
  <2>1. PICK x \in S : \A y \in S : <<y, x>> \notin R
    BY <1>4
  <2>2. ASSUME NEW y \in S PROVE x <= y
    <3>1. ~ (y < x)
      BY <1>2, <1>3, <2>1
    <3> QED BY SMTT(60), <1>3, <3>1
  <2> QED BY <2>2
<1> QED BY <1>5 DEF Min

SweepRecord == [id : {"run", "measured"}, plan : SUBSET Hashes, deleted : SUBSET Hashes]

SweepCall == [op : {"sweep"}, id : {"run", "measured"}, plan : SUBSET Hashes,
              deleted : SUBSET Hashes, todo : SUBSET Hashes, unsaved : BOOLEAN]

OtherCall == [op : {"repair", "lease"}, hash : Hashes]

Driver == [step : {"idle", "measure", "apply", "applied", "outcome"},
           named : SUBSET Hashes, planned : SUBSET Hashes, deleted : SUBSET Hashes]

GcTypeOK ==
    /\ objects \in [DOMAIN objects -> {"good", "bad"}] /\ DOMAIN objects \subseteq Hashes
    /\ \A p \in DOMAIN roots : roots[p].hashes \subseteq Hashes
    /\ progress \subseteq SweepRecord
    /\ gcall \in {NoCall} \cup OtherCall \cup SweepCall
    /\ closed \in BOOLEAN /\ driver \in Driver

\* Every producer's snapshot is valid and, with the lifecycle closed, final.
Verified ==
    closed /\ \A p \in Producers : p \in DOMAIN roots /\ roots[p].schema = "current"

Rooted == UNION {roots[p].hashes : p \in Producers}

\* What makes the evidence of a measured collection sound.  From the moment the
\* driver has verified the snapshots they are final; neither its sweep, nor the
\* progress record of one that died, lists a rooted object as deleted.
MeasuredInv ==
    /\ driver.step # "idle" => Verified /\ driver.named = Rooted
    /\ \A r \in progress : r.id = "measured" => Verified /\ r.deleted \cap Rooted = {}
    /\ gcall.op = "sweep" /\ gcall.id = "measured" => Verified /\ gcall.deleted \cap Rooted = {}
    /\ driver.step \in {"applied", "outcome"} => driver.deleted \cap driver.named = {}
    /\ driver.step = "outcome" => driver.deleted \subseteq driver.planned

GcInv == GcTypeOK /\ MeasuredInv

\* The call records are told apart by their op.
LEMMA CallKinds ==
  /\ NoCall.op = "none"
  /\ \A g \in OtherCall : g.op \in {"repair", "lease"} /\ g.hash \in Hashes
  /\ \A g \in SweepCall : g.op = "sweep"
BY DEF NoCall, OtherCall, SweepCall

\* A put keeps the store's types (cas.rs, put).
LEMMA StoredType ==
  ASSUME GcTypeOK, NEW h \in Hashes, Stored(h)
  PROVE  /\ objects' \in [DOMAIN objects' -> {"good", "bad"}] /\ DOMAIN objects' \subseteq Hashes
         /\ DOMAIN objects \subseteq DOMAIN objects'
BY DEF GcTypeOK, Stored, With

\* Quarantine only takes objects out (scrub.rs, quarantine_object).
LEMMA QuarantinedType ==
  ASSUME GcTypeOK, NEW hs, Quarantined(hs)
  PROVE  /\ objects' \in [DOMAIN objects' -> {"good", "bad"}] /\ DOMAIN objects' \subseteq Hashes
         /\ DOMAIN objects' = DOMAIN objects \ hs
BY DEF GcTypeOK, Quarantined, Restrict

\* A step that touches neither driver, progress, sweep nor roots.
LEMMA GcAside ==
  ASSUME GcInv, UNCHANGED <<roots, progress, driver>>, closed' = closed \/ closed' = TRUE,
         objects' \in [DOMAIN objects' -> {"good", "bad"}], DOMAIN objects' \subseteq Hashes,
         gcall' = gcall \/ gcall' \in {NoCall} \cup OtherCall
  PROVE  GcInv'
<1>1. GcTypeOK'
  BY DEF GcInv, GcTypeOK
<1>2. Rooted' = Rooted /\ (Verified => Verified')
  BY SMTT(60) DEF Rooted, Verified
<1>3. MeasuredInv'
  BY <1>2, CallKinds DEF GcInv, MeasuredInv
<1> QED BY <1>1, <1>3 DEF GcInv

\* Puts, decay, scrub, repair, pins and leases leave the evidence alone (cas.rs,
\* scrub.rs and the record publishers of gc.rs).
LEMMA GcObjects ==
  ASSUME GcInv,
         \/ \E h \in Hashes : Put(h) \/ Rot(h) \/ Age(h) \/ RepairStart(h)
         \/ \E h \in Pinnable : PublishPin(h) \/ RemovePin(h) \/ PinExpires(h)
         \/ \E idle_only \in BOOLEAN : Scrub(idle_only)
         \/ RepairPut
         \/ \E o \in Ops : \/ RemoveLease(o) \/ LeaseAges(o)
                           \/ \E e \in 1..MaxEpoch, h \in Leasable : PutLeased(o, e, h)
         \/ PutLeasedObject \/ CloseLifecycle
         \/ UNCHANGED gcVars
  PROVE  GcInv'
<1>1. GcTypeOK
  BY DEF GcInv
<1>2. objects \in [DOMAIN objects -> {"good", "bad"}] /\ DOMAIN objects \subseteq Hashes
  BY <1>1 DEF GcTypeOK
<1>3. ASSUME NEW h \in Hashes, Put(h) PROVE GcInv'
  <2>1. UNCHANGED <<roots, progress, driver, closed, gcall>> /\ Stored(h)
    BY <1>3 DEF Put, gcRecords
  <2> QED BY <1>1, <2>1, StoredType, GcAside
<1>4. ASSUME NEW h \in Hashes, Rot(h) PROVE GcInv'
  <2>1. UNCHANGED <<roots, progress, driver, closed, gcall>> /\ objects' = [objects EXCEPT ![h] = "bad"]
    BY <1>4 DEF Rot, gcRecords
  <2>2. objects' \in [DOMAIN objects' -> {"good", "bad"}] /\ DOMAIN objects' \subseteq Hashes
    BY <1>2, <2>1
  <2> QED BY <2>1, <2>2, GcAside
<1>5. ASSUME NEW h \in Hashes, RepairStart(h) PROVE GcInv'
  <2>1. UNCHANGED <<roots, progress, driver, closed>> /\ gcall' = [op |-> "repair", hash |-> h]
    BY <1>5 DEF RepairStart, gcRecords
  <2>2. gcall' \in OtherCall
    BY <2>1 DEF OtherCall
  <2>3. Quarantined({h}) \/ UNCHANGED objects
    BY <1>5 DEF RepairStart
  <2>4. objects' \in [DOMAIN objects' -> {"good", "bad"}] /\ DOMAIN objects' \subseteq Hashes
    BY <1>1, <1>2, <2>3, QuarantinedType
  <2> QED BY <2>1, <2>2, <2>4, GcAside
<1>6. ASSUME NEW idle_only \in BOOLEAN, Scrub(idle_only) PROVE GcInv'
  <2>1. UNCHANGED <<roots, progress, driver, closed, gcall>> /\ \E hs : Quarantined(hs)
    BY <1>6 DEF Scrub, gcRecords
  <2> QED BY <1>1, <2>1, QuarantinedType, GcAside
<1>7. ASSUME RepairPut \/ PutLeasedObject PROVE GcInv'
  <2>1. UNCHANGED <<roots, progress, driver, closed>> /\ gcall' = NoCall
    BY <1>7 DEF RepairPut, PutLeasedObject, gcRecords
  <2>2. gcall.op \in {"repair", "lease"} /\ (Stored(gcall.hash) \/ UNCHANGED objects)
    BY <1>7 DEF RepairPut, PutLeasedObject
  <2>3. gcall.hash \in Hashes
    BY <1>1, <2>2, CallKinds DEF GcTypeOK
  <2>4. objects' \in [DOMAIN objects' -> {"good", "bad"}] /\ DOMAIN objects' \subseteq Hashes
    BY <1>1, <1>2, <2>2, <2>3, StoredType
  <2> QED BY <2>1, <2>4, GcAside
<1>8. ASSUME NEW o \in Ops, NEW e \in 1..MaxEpoch, NEW h \in Leasable, PutLeased(o, e, h)
      PROVE  GcInv'
  <2>1. UNCHANGED <<roots, progress, driver, closed, objects>> /\ gcall' = [op |-> "lease", hash |-> h]
    BY <1>8 DEF PutLeased, gcStore
  <2>2. gcall' \in OtherCall
    BY <2>1, LeasesNameHashes DEF OtherCall
  <2> QED BY <1>2, <2>1, <2>2, GcAside
<1>9. ASSUME UNCHANGED <<objects, roots, progress, driver, gcall>>, closed' = closed \/ closed' = TRUE
      PROVE  GcInv'
  BY <1>2, <1>9, GcAside
<1>10. CASE CloseLifecycle
  BY <1>9, <1>10 DEF CloseLifecycle, gcStore, gcRecords
<1>11. CASE UNCHANGED gcVars
  BY <1>9, <1>11 DEF gcVars
<1>12. ASSUME NEW h \in Hashes, Age(h) PROVE GcInv'
  BY <1>9, <1>12 DEF Age, gcRecords
<1>13. ASSUME NEW h \in Pinnable, PublishPin(h) \/ RemovePin(h) \/ PinExpires(h) PROVE GcInv'
  BY <1>9, <1>13 DEF PublishPin, RemovePin, PinExpires, gcStore
<1>14. ASSUME NEW o \in Ops, RemoveLease(o) \/ LeaseAges(o) PROVE GcInv'
  BY <1>9, <1>14 DEF RemoveLease, LeaseAges, gcStore
<1> QED BY <1>3, <1>4, <1>5, <1>6, <1>7, <1>8, <1>10, <1>11, <1>12, <1>13, <1>14

\* A snapshot is published only while the lifecycle is open, when there is no
\* measured collection (gc.rs, publish_reachability_snapshot; gc_roots.rs).
LEMMA GcRoots ==
  ASSUME GcInv, NEW p \in Producers,
         \/ PublishLiveRoots(p)
         \/ \E e \in 1..MaxEpoch, hs \in SUBSET Hashes : PublishRoots(p, e, hs)
  PROVE  GcInv'
<1>1. ~ closed /\ UNCHANGED <<objects, progress, gcall, closed, driver>>
  BY DEF PublishLiveRoots, PublishRoots, gcStore
<1>2. ~ Verified
  BY <1>1 DEF Verified
<1>3. PICK s : roots' = With(roots, p, s) /\ s.hashes \subseteq Hashes
  <2>1. CASE PublishLiveRoots(p)
    <3>1. DOMAIN objects \subseteq Hashes
      BY DEF GcInv, GcTypeOK
    <3>2. PICK e : roots' = With(roots, p, [epoch |-> e, hashes |-> DOMAIN objects,
                                            schema |-> "legacy"])
      BY <2>1 DEF PublishLiveRoots
    <3>3. [epoch |-> e, hashes |-> DOMAIN objects, schema |-> "legacy"].hashes
            \subseteq Hashes
      BY <3>1
    <3> QED BY <3>2, <3>3
  <2>2. CASE \E e \in 1..MaxEpoch, hs \in SUBSET Hashes : PublishRoots(p, e, hs)
    <3>1. PICK e \in 1..MaxEpoch, hs \in SUBSET Hashes : PublishRoots(p, e, hs)
      BY <2>2
    <3>2. roots' = With(roots, p, [epoch |-> e, hashes |-> hs, schema |-> "current"])
      BY <3>1 DEF PublishRoots
    <3>3. [epoch |-> e, hashes |-> hs, schema |-> "current"].hashes \subseteq Hashes
      OBVIOUS
    <3> QED BY <3>2, <3>3
  <2> QED BY <2>1, <2>2
<1>4. \A q \in DOMAIN roots' : roots'[q].hashes \subseteq Hashes
  BY <1>3 DEF With, GcInv, GcTypeOK
<1>5. GcTypeOK'
  BY <1>1, <1>4 DEF GcInv, GcTypeOK
<1>6. MeasuredInv'
  BY <1>1, <1>2 DEF GcInv, MeasuredInv
<1> QED BY <1>5, <1>6 DEF GcInv

\* The producers' snapshots do not change under a sweep or the driver.
LEMMA GcFinal ==
  ASSUME UNCHANGED <<roots, closed>>
  PROVE  Rooted' = Rooted /\ Verified' = Verified
BY DEF Rooted, Verified

\* What a verified snapshot roots is live (gc.rs, load_reachability_roots).
LEMMA RootedIsLive ==
  ASSUME Verified
  PROVE  Rooted \subseteq Live
BY DEF Verified, Rooted, Live, Seeds

\* A sweep starts: what it takes over from a dead run of the same id is still
\* absent and was not rooted then (gc.rs, run_gc).
LEMMA GcSweepStart ==
  ASSUME GcInv, NEW id \in SweepIds, SweepStart(id)
  PROVE  GcInv'
<1> DEFINE prior == {r \in progress : r.id = id}
           plan == IF prior = {} THEN Collectable ELSE (CHOOSE r \in prior : TRUE).plan
           done == UNION {DeletedBefore(r) : r \in prior}
           record == [id |-> id, plan |-> plan, deleted |-> done]
           call == [op |-> "sweep", id |-> id, plan |-> plan, deleted |-> done,
                    todo |-> plan \ done, unsaved |-> FALSE]
<1>1. UNCHANGED <<objects, roots, closed, driver>>
  BY DEF SweepStart, gcStore, gcRecords
<1>2. progress' = (progress \ prior) \cup {record} /\ gcall' = call
  BY DEF SweepStart
<1>3. id \in {"run", "measured"} /\ (id = "measured" => driver.step = "apply")
  BY DEF SweepIds
<1>4. plan \in SUBSET Hashes
  <2>1. Collectable \in SUBSET Hashes
    BY DEF Collectable, GcInv, GcTypeOK
  <2>2. CASE prior # {}
    <3>1. (CHOOSE r \in prior : TRUE) \in prior
      BY <2>2
    <3>2. \A r \in prior : r.plan \in SUBSET Hashes
      BY DEF GcInv, GcTypeOK, SweepRecord
    <3> QED BY <2>2, <3>1, <3>2
  <2> QED BY <2>1, <2>2
<1>5. done \in SUBSET Hashes /\ done \subseteq UNION {r.deleted : r \in prior}
  BY SMTT(60) DEF DeletedBefore, GcInv, GcTypeOK, SweepRecord
<1>6. id = "measured" => Verified /\ done \cap Rooted = {}
  <2>1. id = "measured" => Verified
    BY <1>3 DEF GcInv, MeasuredInv
  <2>2. id = "measured" => \A r \in prior : r.deleted \cap Rooted = {}
    BY DEF GcInv, MeasuredInv
  <2> QED BY SMTT(60), <1>5, <2>1, <2>2
<1> HIDE DEF plan, done
<1>7. record \in SweepRecord /\ call \in SweepCall
  BY <1>3, <1>4, <1>5 DEF SweepRecord, SweepCall
<1>8. /\ record.id = id /\ record.deleted = done
      /\ call.op = "sweep" /\ call.id = id /\ call.deleted = done
  OBVIOUS
<1> HIDE DEF record, call
<1>9. GcTypeOK'
  BY <1>1, <1>2, <1>7 DEF GcInv, GcTypeOK
<1>10. MeasuredInv'
  BY <1>1, <1>2, <1>6, <1>8, GcFinal DEF GcInv, MeasuredInv
<1> QED BY <1>9, <1>10 DEF GcInv

\* One object of the plan: what is deleted is not live, hence not rooted, when
\* the mark is taken again (gc.rs, run_gc).
LEMMA GcSweepObject ==
  ASSUME GcInv, SweepObject
  PROVE  GcInv'
<1> DEFINE h == Min(gcall.todo)
<1>1. gcall \in SweepCall /\ gcall.todo # {}
  BY CallKinds DEF SweepObject, Sweeping, GcInv, GcTypeOK
<1>2. h \in gcall.todo /\ h \in Hashes
  BY <1>1, LeastDigest DEF SweepCall
<1>3. UNCHANGED <<roots, progress, closed, driver>>
  BY DEF SweepObject, gcRecords
<1>4. \/ gcall' = [gcall EXCEPT !.todo = gcall.todo \ {h}] /\ UNCHANGED objects
      \/ /\ gcall' = [gcall EXCEPT !.todo = gcall.todo \ {h}, !.deleted = gcall.deleted \cup {h},
                                   !.unsaved = TRUE]
         /\ objects' = Without(objects, h) /\ h \notin Live
  BY DEF SweepObject
<1>5. objects' \in [DOMAIN objects' -> {"good", "bad"}] /\ DOMAIN objects' \subseteq Hashes
  BY <1>4 DEF GcInv, GcTypeOK, Without, Restrict
<1> HIDE DEF h
<1>6. /\ gcall' \in SweepCall /\ gcall'.id = gcall.id
      /\ gcall'.deleted = gcall.deleted \/ (gcall'.deleted = gcall.deleted \cup {h} /\ h \notin Live)
  <2>1. CASE gcall' = [gcall EXCEPT !.todo = gcall.todo \ {h}]
    BY <1>1, <2>1 DEF SweepCall
  <2>2. CASE /\ gcall' = [gcall EXCEPT !.todo = gcall.todo \ {h}, !.deleted = gcall.deleted \cup {h},
                                       !.unsaved = TRUE]
             /\ h \notin Live
    BY <1>1, <1>2, <2>2 DEF SweepCall
  <2> QED BY <1>4, <2>1, <2>2
<1>7. GcTypeOK'
  BY <1>3, <1>5, <1>6 DEF GcInv, GcTypeOK
<1>8. gcall'.id = "measured" => Verified /\ gcall'.deleted \cap Rooted = {}
  <2>1. gcall.id = "measured" => Verified /\ gcall.deleted \cap Rooted = {}
    BY <1>1, CallKinds DEF GcInv, MeasuredInv
  <2> QED BY <1>6, <2>1, RootedIsLive
<1>9. MeasuredInv'
  BY <1>3, <1>8, GcFinal DEF GcInv, MeasuredInv
<1> QED BY <1>7, <1>9 DEF GcInv

\* The progress record follows the unlink, and the report replaces it (gc.rs,
\* persist and the end of run_gc); a process that dies leaves the record as it is.
LEMMA GcSweepRest ==
  ASSUME GcInv, SweepPersist \/ SweepFinish \/ CallCrashes
  PROVE  GcInv'
<1>1. UNCHANGED <<objects, roots, closed>>
  BY DEF SweepPersist, SweepFinish, CallCrashes, gcStore, gcRecords
<1>2. Rooted' = Rooted /\ Verified' = Verified
  BY <1>1, GcFinal
<1>3. CASE SweepPersist
  <2>1. gcall \in SweepCall
    BY <1>3, CallKinds DEF SweepPersist, GcInv, GcTypeOK
  <2>2. gcall' = [gcall EXCEPT !.unsaved = FALSE] /\ UNCHANGED driver
    BY <1>3 DEF SweepPersist
  <2>3. /\ gcall' \in SweepCall /\ gcall'.id = gcall.id /\ gcall'.deleted = gcall.deleted
        /\ gcall.deleted \in SUBSET Hashes /\ gcall.op = "sweep"
    BY <2>1, <2>2 DEF SweepCall
  <2>4. progress' = {IF r.id = gcall.id THEN [r EXCEPT !.deleted = gcall.deleted] ELSE r : r \in progress}
    BY <1>3 DEF SweepPersist
  <2>5. ASSUME NEW r \in SweepRecord
        PROVE  /\ [r EXCEPT !.deleted = gcall.deleted] \in SweepRecord
               /\ [r EXCEPT !.deleted = gcall.deleted].id = r.id
               /\ [r EXCEPT !.deleted = gcall.deleted].deleted = gcall.deleted
    BY <2>3 DEF SweepRecord
  <2>6. ASSUME NEW q \in progress'
        PROVE  /\ q \in SweepRecord
               /\ q \in progress \/ (q.id = gcall.id /\ q.deleted = gcall.deleted)
    <3>1. PICK r \in progress : q = IF r.id = gcall.id THEN [r EXCEPT !.deleted = gcall.deleted] ELSE r
      BY <2>4
    <3>2. r \in SweepRecord
      BY DEF GcInv, GcTypeOK
    <3> QED BY <2>5, <3>1, <3>2
  <2>7. GcTypeOK'
    BY <1>1, <2>2, <2>3, <2>6 DEF GcInv, GcTypeOK
  <2>8. \A q \in progress' : q.id = "measured" => Verified /\ q.deleted \cap Rooted = {}
    BY <2>3, <2>6 DEF GcInv, MeasuredInv
  <2>9. MeasuredInv'
    BY <1>2, <2>2, <2>3, <2>8 DEF GcInv, MeasuredInv
  <2> QED BY <2>7, <2>9 DEF GcInv
<1>4. CASE SweepFinish
  <2>1. gcall \in SweepCall
    BY <1>4, CallKinds DEF SweepFinish, Sweeping, GcInv, GcTypeOK
  <2>2. progress' \subseteq progress /\ gcall' = NoCall
    BY <1>4 DEF SweepFinish
  <2>3. \/ UNCHANGED driver
        \/ /\ driver' = [driver EXCEPT !.step = "applied", !.deleted = gcall.deleted]
           /\ driver.step = "apply" /\ gcall.id = "measured"
    BY <1>4 DEF SweepFinish
  <2>4. driver \in Driver /\ gcall.deleted \in SUBSET Hashes /\ gcall.op = "sweep"
    BY <2>1 DEF GcInv, GcTypeOK, SweepCall
  <2>5. CASE UNCHANGED driver
    BY <1>1, <1>2, <2>2, <2>5, CallKinds DEF GcInv, GcTypeOK, MeasuredInv
  <2>6. CASE /\ driver' = [driver EXCEPT !.step = "applied", !.deleted = gcall.deleted]
             /\ driver.step = "apply" /\ gcall.id = "measured"
    <3>1. /\ driver' \in Driver /\ driver'.step = "applied" /\ driver'.deleted = gcall.deleted
          /\ driver'.named = driver.named
      BY <2>4, <2>6 DEF Driver
    <3>2. Verified /\ gcall.deleted \cap Rooted = {} /\ driver.named = Rooted
      BY <2>4, <2>6 DEF GcInv, MeasuredInv
    <3>3. GcTypeOK'
      BY <1>1, <2>2, <3>1 DEF GcInv, GcTypeOK
    <3>4. MeasuredInv'
      BY <1>2, <2>2, <3>1, <3>2, CallKinds DEF GcInv, MeasuredInv
    <3> QED BY <3>3, <3>4 DEF GcInv
  <2> QED BY <2>3, <2>5, <2>6
<1>5. CASE CallCrashes
  <2>1. gcall' = NoCall /\ UNCHANGED progress /\ (driver' = NoDriver \/ UNCHANGED driver)
    BY <1>5 DEF CallCrashes
  <2>2. NoDriver \in Driver /\ NoDriver.step = "idle"
    BY DEF NoDriver, Driver
  <2>3. GcTypeOK'
    BY <1>1, <2>1, <2>2 DEF GcInv, GcTypeOK
  <2>4. MeasuredInv'
    BY <1>2, <2>1, <2>2, CallKinds DEF GcInv, MeasuredInv
  <2> QED BY <2>3, <2>4 DEF GcInv
<1> QED BY <1>3, <1>4, <1>5

\* The driver verifies, measures and compares (real_gc.rs).
LEMMA GcDriver ==
  ASSUME GcInv, DriverVerify \/ DriverMeasure \/ DriverEnd
  PROVE  GcInv'
<1>1. UNCHANGED <<objects, roots, progress, gcall, closed>>
  BY DEF DriverVerify, DriverMeasure, DriverEnd, gcStore, gcRecords
<1>2. Rooted' = Rooted /\ Verified' = Verified
  BY <1>1, GcFinal
<1>3. NoDriver \in Driver /\ NoDriver.step = "idle" /\ driver \in Driver
  BY DEF NoDriver, Driver, GcInv, GcTypeOK
<1>4. SUFFICES /\ driver' \in Driver
               /\ driver'.step # "idle" => Verified /\ driver'.named = Rooted
               /\ driver'.step \in {"applied", "outcome"} => driver'.deleted \cap driver'.named = {}
               /\ driver'.step = "outcome" => driver'.deleted \subseteq driver'.planned
  <2>1. GcTypeOK'
    BY <1>1, <1>4 DEF GcInv, GcTypeOK
  <2>2. MeasuredInv'
    BY <1>1, <1>2, <1>4 DEF GcInv, MeasuredInv
  <2> QED BY <2>1, <2>2 DEF GcInv
<1>5. CASE DriverVerify
  <2>1. Verified /\ driver' = [NoDriver EXCEPT !.step = "measure", !.named = Rooted]
    BY <1>5 DEF DriverVerify, Verified, Rooted
  <2>2. Rooted \in SUBSET Hashes
    BY <2>1 DEF Verified, Rooted, GcInv, GcTypeOK
  <2>3. driver' \in Driver /\ driver'.step = "measure" /\ driver'.named = Rooted
    BY <1>3, <2>1, <2>2 DEF Driver
  <2> QED BY <2>1, <2>3
<1>6. CASE DriverMeasure
  <2>1. Collectable \in SUBSET Hashes
    BY DEF Collectable, GcInv, GcTypeOK
  <2>2. /\ driver.step = "measure"
        /\ driver' = NoDriver \/ driver' = [driver EXCEPT !.step = "apply", !.planned = Collectable]
    BY <1>6 DEF DriverMeasure
  <2>3. Verified /\ driver.named = Rooted
    BY <2>2 DEF GcInv, MeasuredInv
  <2>4. CASE driver' = [driver EXCEPT !.step = "apply", !.planned = Collectable]
    <3>1. driver' \in Driver /\ driver'.step = "apply" /\ driver'.named = driver.named
      BY <1>3, <2>1, <2>4 DEF Driver
    <3> QED BY <2>3, <3>1
  <2> QED BY <1>3, <2>2, <2>4
<1>7. CASE DriverEnd
  <2>1. /\ driver.step = "applied"
        /\ \/ driver' = NoDriver
           \/ driver' = [driver EXCEPT !.step = "outcome"] /\ driver.deleted \subseteq driver.planned
    BY <1>7 DEF DriverEnd
  <2>2. Verified /\ driver.named = Rooted /\ driver.deleted \cap driver.named = {}
    BY <2>1 DEF GcInv, MeasuredInv
  <2>3. CASE driver' = [driver EXCEPT !.step = "outcome"] /\ driver.deleted \subseteq driver.planned
    <3>1. /\ driver' \in Driver /\ driver'.step = "outcome" /\ driver'.named = driver.named
          /\ driver'.deleted = driver.deleted /\ driver'.planned = driver.planned
      BY <1>3, <2>3 DEF Driver
    <3> QED BY <2>2, <2>3, <3>1
  <2> QED BY <1>3, <2>1, <2>3
<1> QED BY <1>5, <1>6, <1>7

\* The collector's invariant holds of every behaviour (gc.rs, real_gc.rs).
LEMMA GcInvHolds == GcSpec => []GcInv
<1>1. GcInit => GcInv
  <2> SUFFICES ASSUME GcInit PROVE GcTypeOK /\ MeasuredInv
    BY DEF GcInv
  <2>1. NoDriver \in Driver /\ NoDriver.step = "idle"
    BY DEF NoDriver, Driver
  <2>2. EmptyMap \in [DOMAIN EmptyMap -> {"good", "bad"}] /\ DOMAIN EmptyMap = {}
    BY DEF EmptyMap
  <2>3. GcTypeOK
    BY <2>1, <2>2 DEF GcInit, GcTypeOK
  <2>4. MeasuredInv
    BY <2>1, CallKinds DEF GcInit, MeasuredInv
  <2> QED BY <2>3, <2>4
<1>2. GcInv /\ [GcNext]_gcVars => GcInv'
  <2> SUFFICES ASSUME GcInv, [GcNext]_gcVars PROVE GcInv'
    OBVIOUS
  <2>1. CASE GcNext
    BY <2>1, GcObjects, GcRoots, GcSweepStart, GcSweepObject, GcSweepRest, GcDriver DEF GcNext
  <2> QED BY <2>1, GcObjects
<1> QED BY <1>1, <1>2, PTL DEF GcSpec

\* The evidence of a measured collection never lists a rooted object as deleted,
\* nor one it had not measured, for any objects, engines, leases and faults
\* (real_gc.rs).
THEOREM EvidenceIsSoundHolds == GcSpec => []EvidenceIsSound
<1>1. GcInv => EvidenceIsSound
  BY DEF GcInv, MeasuredInv, EvidenceIsSound
<1> QED BY <1>1, GcInvHolds, PTL

\* No step takes a covered sound object out of the store, for any objects,
\* engines, leases and faults (gc.rs, run_gc; scrub.rs).
THEOREM CoveredObjectsStayHolds == GcSpec => CoveredObjectsStay
<1> DEFINE Kept == \A h \in Good : h \notin DOMAIN objects' => ~ Covered(h)
<1>1. ASSUME GcInv, GcNext PROVE Kept
  <2>1. objects \in [DOMAIN objects -> {"good", "bad"}] /\ GcTypeOK /\ Good \subseteq DOMAIN objects
    BY <1>1 DEF GcInv, GcTypeOK, Good
  <2>2. ASSUME DOMAIN objects \subseteq DOMAIN objects' PROVE Kept
    BY <2>1, <2>2
  <2>3. ASSUME NEW hs, hs \subseteq Bad, Quarantined(hs) PROVE Kept
    <3>1. DOMAIN objects' = DOMAIN objects \ hs
      BY <2>1, <2>3, QuarantinedType
    <3> QED BY <2>1, <2>3, <3>1 DEF Bad
  <2>4. ASSUME NEW h \in Hashes, Put(h) \/ Rot(h) \/ Age(h) \/ RepairStart(h) PROVE Kept
    <3>1. CASE Put(h)
      BY <2>1, <2>2, <3>1, StoredType DEF Put
    <3>2. CASE Rot(h)
      BY <2>1, <2>2, <3>2 DEF Rot
    <3>3. CASE Age(h)
      BY <2>2, <3>3 DEF Age
    <3>4. CASE RepairStart(h)
      BY <2>2, <2>3, <3>4 DEF RepairStart
    <3> QED BY <2>4, <3>1, <3>2, <3>3, <3>4
  <2>5. ASSUME NEW idle_only \in BOOLEAN, Scrub(idle_only) PROVE Kept
    BY <2>3, <2>5 DEF Scrub
  <2>6. ASSUME RepairPut \/ PutLeasedObject PROVE Kept
    <3>1. gcall.op \in {"repair", "lease"} /\ (Stored(gcall.hash) \/ UNCHANGED objects)
      BY <2>6 DEF RepairPut, PutLeasedObject
    <3>2. gcall.hash \in Hashes
      BY <2>1, <3>1, CallKinds DEF GcTypeOK
    <3> QED BY <2>1, <2>2, <3>1, <3>2, StoredType
  <2>7. ASSUME SweepObject PROVE Kept
    <3>1. CASE UNCHANGED objects
      BY <2>2, <3>1
    <3>2. CASE /\ objects' = Without(objects, Min(gcall.todo))
               /\ Min(gcall.todo) \notin Live /\ ~ Uncertain
      <4>1. \A p \in DOMAIN roots : roots[p].schema = "current"
        BY <3>2 DEF Uncertain
      <4>2. ASSUME NEW s,
                   \/ \E p \in DOMAIN roots : s \in roots[p].hashes
                   \/ s \in DOMAIN pins /\ pins[s] = "live"
                   \/ \E o \in DOMAIN leases : leases[o].hash = s
            PROVE  s \in Seeds
        BY <4>1, <4>2 DEF Seeds
      <4>3. \A h : Covered(h) => h \in Live
        BY <4>2 DEF Covered, Live
      <4>4. DOMAIN objects' = DOMAIN objects \ {Min(gcall.todo)}
        BY <3>2 DEF Without, Restrict
      <4> QED BY <2>1, <3>2, <4>3, <4>4
    <3> QED BY <2>7, <3>1, <3>2 DEF SweepObject
  <2>8. ASSUME UNCHANGED gcStore PROVE Kept
    BY <2>2, <2>8 DEF gcStore
  <2>9. ASSUME NEW h \in Pinnable, PublishPin(h) \/ RemovePin(h) \/ PinExpires(h) PROVE Kept
    BY <2>8, <2>9 DEF PublishPin, RemovePin, PinExpires
  <2>10. ASSUME NEW p \in Producers,
                \/ PublishLiveRoots(p)
                \/ \E e \in 1..MaxEpoch, hs \in SUBSET Hashes : PublishRoots(p, e, hs)
         PROVE Kept
    BY <2>8, <2>10 DEF PublishLiveRoots, PublishRoots
  <2>11. ASSUME NEW o \in Ops,
                \/ RemoveLease(o) \/ LeaseAges(o)
                \/ \E e \in 1..MaxEpoch, h \in Leasable : PutLeased(o, e, h)
         PROVE Kept
    BY <2>8, <2>11 DEF RemoveLease, LeaseAges, PutLeased
  <2>12. ASSUME \/ \E id \in SweepIds : SweepStart(id)
                \/ SweepPersist \/ SweepFinish \/ CallCrashes
         PROVE Kept
    BY <2>8, <2>12 DEF SweepStart, SweepPersist, SweepFinish, CallCrashes
  <2>13. ASSUME CloseLifecycle \/ DriverVerify \/ DriverMeasure \/ DriverEnd PROVE Kept
    BY <2>8, <2>13 DEF CloseLifecycle, DriverVerify, DriverMeasure, DriverEnd
  <2> HIDE DEF Kept
  <2> QED
    BY <1>1, <2>4, <2>5, <2>6, <2>7, <2>9, <2>10, <2>11, <2>12, <2>13 DEF GcNext
<1>2. GcInv /\ [GcNext]_gcVars => [Kept]_gcVars
  BY <1>1
<1> QED BY <1>2, GcInvHolds, PTL DEF GcSpec, CoveredObjectsStay
=============================================================================

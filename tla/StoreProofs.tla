---------------------------- MODULE StoreProofs ----------------------------
(*****************************************************************************)
(* Opening and keeping the stores: the migration of zero-store's format,     *)
(* GraphZero's snapshots and delta log, and FSZero's payload pack, for any   *)
(* number of processes, kills and power failures.                            *)
(*****************************************************************************)
EXTENDS StoreOpen, GraphStore, PackStore, FiniteSetTheorems, WellFoundedInduction, TLAPS

(* A leaf is for Zenon unless it names SMT. *)
USE ZenonT(60)

-----------------------------------------------------------------------------
(* run_store_migrations.                                                    *)

Applied(n) == \E i \in 1..Len(shape) : shape[i] = n

AppliedBelow(n) == \A k \in 1..(n - 1) : Applied(k)

MigratorOK ==
    [at : {"rest", "step", "mark"}, target : Nat \ {0}, current : Nat \ {0}, step : Nat]

FormatTypes ==
    /\ format \in Nat /\ markers \subseteq Nat /\ shape \in Seq(Nat)
    /\ migrator \in [Migrators -> MigratorOK]

(* Each transform was first applied after the one before it.                *)
InOrder ==
    \A i \in 1..Len(shape) : \A n \in 1..(shape[i] - 1) : \E j \in 1..(i - 1) : shape[j] = n

(* The version record and the markers stand for transforms that were        *)
(* applied.                                                                 *)
RecordsTrue ==
    /\ AppliedBelow(Detected)
    /\ \A n \in markers : n > 0 /\ Applied(n - 1)

(* A migrator is past the steps whose transforms were applied.              *)
Ahead(m) ==
    migrator[m].at # "rest" =>
        /\ migrator[m].step > 0
        /\ AppliedBelow(migrator[m].current) /\ AppliedBelow(migrator[m].step)
        /\ migrator[m].at = "mark" => Applied(migrator[m].step)

FormatInv == FormatTypes /\ InOrder /\ RecordsTrue /\ \A m \in Migrators : Ahead(m)

(* What was applied stays applied when a transform is added.                *)
LEMMA AppliedStays ==
    ASSUME shape \in Seq(Nat), NEW s \in Nat, shape' = Append(shape, s)
    PROVE  /\ Applied(s)'
           /\ \A n : Applied(n) => Applied(n)'
           /\ \A n : AppliedBelow(n) => AppliedBelow(n)'
<1>1. Len(shape') = Len(shape) + 1 /\ Len(shape) \in Nat
  BY SMTT(60)
<1>2. shape'[Len(shape) + 1] = s /\ \A i \in 1..Len(shape) : shape'[i] = shape[i]
  BY SMTT(60)
<1>3. Applied(s)'
  BY SMTT(60), <1>1, <1>2 DEF Applied
<1>4. \A n : Applied(n) => Applied(n)'
  BY SMTT(60), <1>1, <1>2 DEF Applied
<1> QED BY <1>3, <1>4 DEF AppliedBelow

(* One migrator moves on, and the others stay where they are.               *)
LEMMA MigratorMoves ==
    ASSUME FormatTypes, NEW m \in Migrators, NEW r \in MigratorOK,
           migrator' = [migrator EXCEPT ![m] = r]
    PROVE  /\ migrator' \in [Migrators -> MigratorOK] /\ migrator'[m] = r
           /\ \A k \in Migrators \ {m} : migrator'[k] = migrator[k]
BY DEF FormatTypes

(* The migrators that do not move stay where they were allowed to be.       *)
LEMMA OthersAhead ==
    ASSUME FormatInv, NEW m \in Migrators, FormatTypes', InOrder', RecordsTrue', Ahead(m)',
           \A k \in Migrators \ {m} : migrator'[k] = migrator[k],
           \A n : Applied(n) => Applied(n)'
    PROVE  FormatInv'
<1> SUFFICES ASSUME NEW k \in Migrators, k # m PROVE Ahead(k)'
  BY DEF FormatInv
<1>1. \A n : AppliedBelow(n) => AppliedBelow(n)'
  BY DEF AppliedBelow
<1>2. Ahead(k) /\ migrator'[k] = migrator[k]
  BY DEF FormatInv
<1> QED BY <1>1, <1>2 DEF Ahead

(* Every step of a migration keeps the invariant.                           *)
LEMMA FormatKeeps == FormatInv /\ [OpenStore \/ MigrateNext]_openVars => FormatInv'
<1> SUFFICES ASSUME FormatInv, [OpenStore \/ MigrateNext]_openVars PROVE FormatInv'
  OBVIOUS
<1>0. /\ FormatTypes /\ InOrder /\ RecordsTrue /\ Detected \in Nat \ {0}
      /\ \A m \in Migrators : migrator[m] \in MigratorOK /\ Ahead(m)
  BY SMTT(60) DEF FormatInv, FormatTypes, Detected
<1>1. ASSUME UNCHANGED shape
      PROVE  InOrder' /\ (\A n : Applied(n) => Applied(n)') /\ (\A n : AppliedBelow(n) => AppliedBelow(n)')
  BY <1>0, <1>1 DEF InOrder, Applied, AppliedBelow
<1>2. ASSUME UNCHANGED <<shape, format, markers>> PROVE RecordsTrue'
  BY <1>0, <1>1, <1>2 DEF RecordsTrue, Detected
<1>3. CASE OpenStore \/ UNCHANGED openVars
  <2>1. UNCHANGED formatVars
    BY <1>3 DEF OpenStore, openVars
  <2>2. UNCHANGED <<shape, format, markers, migrator>>
    BY <2>1 DEF formatVars
  <2> QED BY <1>0, <1>1, <1>2, <2>2 DEF FormatInv, FormatTypes, Ahead
<1>4. CASE StartMigration
  <2>1. PICK m \in Migrators, target \in Targets :
          /\ migrator' = [migrator EXCEPT ![m] = [at |-> "step", target |-> target,
                                                   current |-> Detected, step |-> 1]]
          /\ UNCHANGED <<format, markers, shape>>
    BY <1>4 DEF StartMigration
  <2> DEFINE r == [at |-> "step", target |-> target, current |-> Detected, step |-> 1]
  <2>2. r \in MigratorOK
    BY SMTT(60), <1>0 DEF MigratorOK, Targets
  <2>3. AppliedBelow(1)
    BY SMTT(60) DEF AppliedBelow
  <2>4. r.at = "step" /\ r.current = Detected /\ r.step = 1
    OBVIOUS
  <2> HIDE DEF r
  <2>5. /\ migrator' \in [Migrators -> MigratorOK] /\ migrator'[m] = r
        /\ \A k \in Migrators \ {m} : migrator'[k] = migrator[k]
    BY <1>0, <2>1, <2>2, MigratorMoves DEF r
  <2>6. Ahead(m)'
    BY SMTT(60), <1>0, <1>1, <2>1, <2>3, <2>4, <2>5 DEF Ahead, RecordsTrue
  <2> QED BY <1>0, <1>1, <1>2, <2>1, <2>5, <2>6, OthersAhead DEF FormatTypes
<1>5. CASE RunStep
  <2>1. PICK m \in Migrators :
          /\ migrator[m].at = "step" /\ migrator[m].step < migrator[m].target
          /\ IF migrator[m].step + 1 <= migrator[m].current \/ migrator[m].step + 1 \in markers
             THEN migrator' = [migrator EXCEPT ![m].step = @ + 1] /\ UNCHANGED shape
             ELSE /\ shape' = Append(shape, migrator[m].step)
                  /\ migrator' = [migrator EXCEPT ![m].at = "mark"]
          /\ UNCHANGED <<format, markers>>
    BY <1>5 DEF RunStep
  <2>2. /\ migrator[m] \in MigratorOK /\ migrator[m].step > 0 /\ AppliedBelow(migrator[m].current)
        /\ AppliedBelow(migrator[m].step)
    BY <1>0, <2>1 DEF Ahead
  <2>3. CASE /\ migrator[m].step + 1 <= migrator[m].current \/ migrator[m].step + 1 \in markers
             /\ migrator' = [migrator EXCEPT ![m].step = @ + 1] /\ UNCHANGED shape
    <3>1. Applied(migrator[m].step)
      <4>1. CASE migrator[m].step + 1 <= migrator[m].current
        BY SMTT(60), <2>2, <4>1 DEF AppliedBelow, MigratorOK
      <4>2. CASE migrator[m].step + 1 \in markers
        <5>1. PICK n \in markers : n = migrator[m].step + 1
          BY <4>2
        <5>2. n - 1 = migrator[m].step
          BY SMTT(60), <2>2, <5>1 DEF MigratorOK
        <5>3. Applied(n - 1)
          BY <1>0 DEF RecordsTrue
        <5> QED BY <5>2, <5>3
      <4> QED BY <2>3, <4>1, <4>2
    <3>2. AppliedBelow(migrator[m].step + 1)
      BY SMTT(60), <2>2, <3>1 DEF AppliedBelow, MigratorOK
    <3>3. /\ migrator' \in [Migrators -> MigratorOK]
          /\ migrator'[m] = [migrator[m] EXCEPT !.step = @ + 1]
          /\ \A k \in Migrators \ {m} : migrator'[k] = migrator[k]
      <4>1. [migrator[m] EXCEPT !.step = @ + 1] \in MigratorOK
        BY SMTT(60), <2>2 DEF MigratorOK
      <4>2. migrator' = [migrator EXCEPT ![m] = [migrator[m] EXCEPT !.step = @ + 1]]
        BY <2>3
      <4> QED BY <1>0, <4>1, <4>2, MigratorMoves
    <3>4. /\ migrator'[m].at = "step" /\ migrator'[m].step = migrator[m].step + 1
          /\ migrator'[m].current = migrator[m].current /\ migrator'[m].step > 0
      BY SMTT(60), <2>1, <2>2, <3>3 DEF MigratorOK
    <3>5. Ahead(m)'
      BY <1>1, <2>2, <2>3, <3>2, <3>4 DEF Ahead
    <3> QED BY <1>0, <1>1, <1>2, <2>1, <2>3, <3>3, <3>5, OthersAhead DEF FormatTypes
  <2>4. CASE /\ shape' = Append(shape, migrator[m].step)
             /\ migrator' = [migrator EXCEPT ![m].at = "mark"]
    <3>0. PICK s \in Nat : s = migrator[m].step
      BY <2>2 DEF MigratorOK
    <3>1. s > 0 /\ shape \in Seq(Nat) /\ AppliedBelow(s) /\ shape' = Append(shape, s)
      BY <1>0, <2>2, <2>4, <3>0 DEF FormatTypes
    <3>2. /\ Applied(s)'
          /\ \A n : Applied(n) => Applied(n)'
          /\ \A n : AppliedBelow(n) => AppliedBelow(n)'
      BY <3>1, AppliedStays
    <3>3. InOrder'
      <4>1. Len(shape') = Len(shape) + 1 /\ shape'[Len(shape) + 1] = s /\ Len(shape) \in Nat
            /\ \A i \in 1..Len(shape) : shape'[i] = shape[i]
        BY SMTT(60), <3>1
      <4> SUFFICES ASSUME NEW i \in 1..Len(shape'), NEW n \in 1..(shape'[i] - 1)
                   PROVE  \E j \in 1..(i - 1) : shape'[j] = n
        BY DEF InOrder
      <4>2. CASE i = Len(shape) + 1
        <5>1. Applied(n)
          BY <3>1, <4>1, <4>2 DEF AppliedBelow
        <5> QED BY SMTT(60), <4>1, <4>2, <5>1 DEF Applied
      <4>3. CASE i # Len(shape) + 1
        <5>1. i \in 1..Len(shape)
          BY SMTT(60), <4>1, <4>3
        <5>2. PICK j \in 1..(i - 1) : shape[j] = n
          BY <1>0, <4>1, <5>1 DEF InOrder
        <5> QED BY SMTT(60), <4>1, <5>1, <5>2
      <4> QED BY <4>2, <4>3
    <3>4. /\ migrator' \in [Migrators -> MigratorOK] /\ migrator'[m] = [migrator[m] EXCEPT !.at = "mark"]
          /\ \A k \in Migrators \ {m} : migrator'[k] = migrator[k]
      BY <1>0, <2>2, <2>4 DEF FormatTypes, MigratorOK
    <3>5. migrator'[m].step = s /\ migrator'[m].current = migrator[m].current
      BY <2>2, <3>0, <3>4 DEF MigratorOK
    <3>6. shape' \in Seq(Nat)
      BY SMTT(60), <3>1
    <3>7. RecordsTrue'
      BY <1>0, <2>1, <3>2 DEF RecordsTrue, Detected
    <3>8. Ahead(m)'
      BY <2>2, <3>1, <3>2, <3>5 DEF Ahead
    <3>9. FormatTypes'
      BY <1>0, <2>1, <3>4, <3>6 DEF FormatTypes
    <3> QED BY <3>2, <3>3, <3>4, <3>7, <3>8, <3>9, OthersAhead
  <2> QED BY <2>1, <2>3, <2>4
<1>6. CASE WriteMarker
  <2>1. PICK m \in Migrators :
          /\ migrator[m].at = "mark" /\ markers' = markers \cup {migrator[m].step + 1}
          /\ migrator' = [migrator EXCEPT ![m].at = "step", ![m].step = @ + 1]
          /\ UNCHANGED <<format, shape>>
    BY <1>6 DEF WriteMarker
  <2>2. /\ migrator[m] \in MigratorOK /\ migrator[m].step > 0 /\ AppliedBelow(migrator[m].current)
        /\ AppliedBelow(migrator[m].step) /\ Applied(migrator[m].step)
    BY <1>0, <2>1 DEF Ahead
  <2>3. AppliedBelow(migrator[m].step + 1)
    BY SMTT(60), <2>2 DEF AppliedBelow, MigratorOK
  <2>4. /\ migrator' \in [Migrators -> MigratorOK]
        /\ migrator'[m] = [migrator[m] EXCEPT !.at = "step", !.step = @ + 1]
        /\ \A k \in Migrators \ {m} : migrator'[k] = migrator[k]
    BY SMTT(60), <1>0, <2>1, <2>2 DEF FormatTypes, MigratorOK
  <2>5. /\ migrator'[m].at = "step" /\ migrator'[m].step = migrator[m].step + 1
        /\ migrator'[m].current = migrator[m].current /\ migrator'[m].step > 0
    BY SMTT(60), <2>2, <2>4 DEF MigratorOK
  <2>6. markers' \subseteq Nat /\ \A n \in markers' : n > 0 /\ Applied(n - 1)
    BY SMTT(60), <1>0, <2>1, <2>2 DEF RecordsTrue, FormatTypes, MigratorOK
  <2>7. RecordsTrue'
    BY <1>0, <1>1, <2>1, <2>6 DEF RecordsTrue, Detected
  <2>8. Ahead(m)'
    BY <1>1, <2>1, <2>2, <2>3, <2>5 DEF Ahead
  <2> QED BY <1>0, <1>1, <2>1, <2>4, <2>6, <2>7, <2>8, OthersAhead DEF FormatTypes
<1>7. AtRest \in MigratorOK /\ AtRest.at = "rest"
  BY SMTT(60) DEF AtRest, MigratorOK
<1>8. CASE WriteVersion
  <2>1. PICK m \in Migrators :
          /\ migrator[m].at = "step" /\ migrator[m].step = migrator[m].target
          /\ format' = IF migrator[m].target # migrator[m].current THEN migrator[m].target ELSE format
          /\ migrator' = [migrator EXCEPT ![m] = AtRest] /\ UNCHANGED <<markers, shape>>
    BY <1>8 DEF WriteVersion
  <2>2. migrator[m] \in MigratorOK /\ AppliedBelow(migrator[m].step)
    BY <1>0, <2>1 DEF Ahead
  <2>3. format' \in Nat /\ AppliedBelow(Detected')
    BY <1>0, <2>1, <2>2 DEF Detected, MigratorOK, FormatTypes, RecordsTrue
  <2>4. RecordsTrue'
    BY <1>0, <1>1, <2>1, <2>3 DEF RecordsTrue, AppliedBelow
  <2>5. /\ migrator' \in [Migrators -> MigratorOK] /\ migrator'[m] = AtRest
        /\ \A k \in Migrators \ {m} : migrator'[k] = migrator[k]
    BY <1>0, <1>7, <2>1, MigratorMoves
  <2>6. Ahead(m)'
    BY <1>7, <2>5 DEF Ahead
  <2> QED BY <1>0, <1>1, <2>1, <2>3, <2>4, <2>5, <2>6, OthersAhead DEF FormatTypes
<1>9. CASE MigratorDies
  <2>1. PICK m \in Migrators :
          migrator' = [migrator EXCEPT ![m] = AtRest] /\ UNCHANGED <<format, markers, shape>>
    BY <1>9 DEF MigratorDies
  <2>2. /\ migrator' \in [Migrators -> MigratorOK] /\ migrator'[m] = AtRest
        /\ \A k \in Migrators \ {m} : migrator'[k] = migrator[k]
    BY <1>0, <1>7, <2>1, MigratorMoves
  <2>3. Ahead(m)'
    BY <1>7, <2>2 DEF Ahead
  <2> QED BY <1>0, <1>1, <1>2, <2>1, <2>2, <2>3, OthersAhead DEF FormatTypes
<1> QED BY <1>3, <1>4, <1>5, <1>6, <1>8, <1>9 DEF MigrateNext

(* For any number of migrators, builds and steps: a store never claims a    *)
(* format it has not been brought to, although run_store_migrations takes   *)
(* no lock and a migrator may die between a transform, its marker and the   *)
(* version record.                                                          *)
THEOREM VersionIsEarnedHolds == OpenSpec => []VersionIsEarned
<1>1. OpenInit => FormatInv
  BY SMTT(60)
    DEF OpenInit, FormatInv, FormatTypes, InOrder, RecordsTrue, Ahead, AppliedBelow, Applied, Detected,
         AtRest, MigratorOK
<1>2. FormatInv => VersionIsEarned
  BY SMTT(60)
    DEF FormatInv, InOrder, RecordsTrue, AppliedBelow, Applied, VersionIsEarned, Range
<1> QED BY <1>1, <1>2, FormatKeeps, PTL DEF OpenSpec

-----------------------------------------------------------------------------
(* The ids of snapshots and segments.                                       *)

Bounded(S) == S \subseteq Nat /\ \E b \in Nat : \A i \in S : i <= b

(* Every nonempty set of naturals has a least element.                      *)
LEMMA LeastExists ==
    ASSUME NEW S, S \subseteq Nat, S # {}
    PROVE  \E x \in S : \A y \in S : x <= y
<1>1. PICK x \in S : \A y \in S : ~ (<<y, x>> \in OpToRel(<, Nat))
  BY NatLessThanWellFounded, WFMin
<1>2. \A y \in S : ~ (y < x)
  BY <1>1 DEF OpToRel
<1> QED BY SMTT(60), <1>2

(* cleanup's next file is one of those it may delete, and the first.        *)
LEMMA MinIs ==
    ASSUME NEW S, S \subseteq Nat, S # {}
    PROVE  Min(S) \in S /\ \A y \in S : Min(S) <= y
BY LeastExists DEF Min

(* The newest id is one of the ids.                                         *)
LEMMA MaxIs ==
    ASSUME NEW S, Bounded(S), S # {}
    PROVE  Max(S) \in S /\ \A y \in S : Max(S) >= y
<1> DEFINE U == {b \in Nat : \A i \in S : i <= b}
<1>1. U # {} /\ U \subseteq Nat
  BY DEF Bounded
<1> HIDE DEF U
<1>2. PICK m \in U : \A u \in U : m <= u
  BY <1>1, LeastExists
<1>3. m \in Nat /\ \A i \in S : i \in Nat /\ i <= m
  BY <1>2 DEF U, Bounded
<1>4. m \in S
  <2> SUFFICES ASSUME m \notin S PROVE FALSE
    OBVIOUS
  <2>1. PICK i \in S : TRUE
    OBVIOUS
  <2>2. m > 0 /\ \A j \in S : j <= m - 1
    BY SMTT(60), <1>3, <2>1
  <2>3. m - 1 \in U
    BY SMTT(60), <1>3, <2>2 DEF U
  <2> QED BY SMTT(60), <1>2, <1>3, <2>3
<1>5. \E x \in S : \A y \in S : x >= y
  BY <1>3, <1>4
<1> QED BY <1>5 DEF Max

(* One more id.                                                             *)
LEMMA BoundedMore ==
    ASSUME NEW S, Bounded(S), NEW n \in Nat
    PROVE  Bounded(S \cup {n}) /\ \A T \in SUBSET S : Bounded(T)
<1>1. PICK b \in Nat : \A i \in S : i \in Nat /\ i <= b
  BY DEF Bounded
<1>2. \A i \in S \cup {n} : i \in Nat /\ i <= b + n
  BY SMTT(60), <1>1
<1>3. b + n \in Nat
  BY SMTT(60)
<1> QED BY <1>1, <1>2, <1>3 DEF Bounded

-----------------------------------------------------------------------------
(* GraphZero's snapshots and its delta log.                                 *)

Ids == {s.snapshot_id : s \in manifest}

WorkSteps == {"write", "publish", "branch", "sign", "sweep"}

IsWork(r) == r = [kind |-> r.kind, at |-> r.at, id |-> r.id, facts |-> r.facts, folded |-> r.folded]

(* The writer at work holds the lock of lock.rs; the segment it will commit *)
(* is the last one, the files of the snapshot it publishes are written, and *)
(* the segments it will sweep are all there are.                            *)
WriterInv(w) ==
    LET r == gwork[w] IN
    /\ r.at \in {"idle", "probed", "commit"} \cup WorkSteps
    /\ r.at \notin {"idle", "probed"} => glock = w
    /\ r.at = "commit" =>
         /\ r.edge \in Edges /\ r.id \in DOMAIN segments /\ segments[r.id] = Unwritten
         /\ \A i \in DOMAIN segments : i <= r.id
    /\ r.at \in WorkSteps => IsWork(r) /\ r.id \in Nat /\ DOMAIN segments \subseteq r.folded
    /\ r.at \in {"publish", "branch"} => r.id \in DOMAIN shards

GraphInv ==
    /\ Bounded(DOMAIN segments) /\ Bounded(DOMAIN shards)
    /\ Ids \subseteq DOMAIN shards /\ Pins \subseteq DOMAIN shards
    /\ SegmentsChain
    /\ gwork = [w \in Writers |-> gwork[w]]
    /\ \A w \in Writers : WriterInv(w)

(* Manifest::latest is an entry of the manifest.                            *)
LEMMA LatestIs ==
    ASSUME GraphInv
    PROVE  NextSnapshot \in Nat
<1>1. CASE manifest = {}
  BY <1>1 DEF NextSnapshot
<1>2. CASE manifest # {}
  <2>1. Ids # {} /\ Bounded(Ids) /\ Ids \subseteq Nat
    BY <1>2, BoundedMore DEF Ids, GraphInv, Bounded
  <2>2. Max(Ids) \in Ids /\ \A i \in Ids : Max(Ids) >= i
    BY <2>1, MaxIs
  <2>3. \E s \in manifest : \A t \in manifest : t.snapshot_id <= s.snapshot_id
    <3>1. PICK s \in manifest : s.snapshot_id = Max(Ids)
      BY <2>2 DEF Ids
    <3>2. \A t \in manifest : t.snapshot_id \in Ids /\ t.snapshot_id \in Nat
      BY <2>1 DEF Ids
    <3> QED BY <2>2, <3>1, <3>2
  <2>4. Latest \in manifest
    BY <2>3 DEF Latest
  <2>5. Latest.snapshot_id \in Nat
    BY <2>1, <2>4 DEF Ids
  <2> QED BY SMTT(60), <1>2, <2>5 DEF NextSnapshot
<1> QED BY <1>1, <1>2

(* The id of a new segment is above all others.                             *)
LEMMA NextSegmentIs ==
    ASSUME GraphInv
    PROVE  NextSegmentId \in Nat /\ \A i \in DOMAIN segments : i < NextSegmentId
<1>1. CASE DOMAIN segments = {}
  BY <1>1 DEF NextSegmentId
<1>2. CASE DOMAIN segments # {}
  <2> DEFINE D == DOMAIN segments
  <2>1. Max(D) \in D /\ (\A i \in D : Max(D) >= i) /\ D \subseteq Nat
    BY <1>2, MaxIs DEF GraphInv, Bounded
  <2>2. NextSegmentId = Max(D) + 1
    BY <1>2 DEF NextSegmentId
  <2> HIDE DEF D
  <2> QED BY SMTT(60), <2>1, <2>2 DEF D
<1> QED BY <1>1, <1>2

(* DeltaLog::commit continues the chain.                                    *)
LEMMA ChainCommitted ==
    ASSUME Bounded(DOMAIN segments), SegmentsChain, NEW n \in DOMAIN segments, NEW e \in Edges,
           segments[n] = Unwritten, \A i \in DOMAIN segments : i <= n,
           segments' = [segments EXCEPT ![n] = [edge |-> e, prev |-> LastCrc]]
    PROVE  SegmentsChain'
<1> DEFINE s == [edge |-> e, prev |-> LastCrc]
<1>1. s.edge = e /\ s.prev = LastCrc /\ s # Unwritten
  BY GraphAssumption DEF Unwritten
<1> HIDE DEF s
<1>2. /\ DOMAIN segments' = DOMAIN segments /\ segments'[n] = s
      /\ \A i \in DOMAIN segments \ {n} : segments'[i] = segments[i]
  BY DEF s
<1>3. Written' = Written \cup {n} /\ n \notin Written /\ \A i \in Written : i \in Nat /\ i < n
  BY SMTT(60), <1>1, <1>2 DEF Written, Bounded
<1>4. n \in Nat
  BY DEF Bounded
<1>5. /\ \A i \in Written : Before(i)' = Before(i)
      /\ Before(n)' = Written
  BY SMTT(60), <1>3, <1>4 DEF Before
<1>6. \A T \in SUBSET Written : T # {} => Max(T) \in Written
  <2> SUFFICES ASSUME NEW T \in SUBSET Written, T # {} PROVE Max(T) \in Written
    OBVIOUS
  <2>1. Bounded(T)
    BY <1>4, BoundedMore DEF Written
  <2> QED BY <2>1, MaxIs
<1>7. \A i \in Written : segments'[i] = segments[i]
  BY <1>2, <1>3 DEF Written
<1> SUFFICES ASSUME NEW i \in Written', Before(i)' # {}
             PROVE  segments'[i].prev = segments'[Max(Before(i)')].edge
  BY DEF SegmentsChain
<1>8. CASE i = n
  <2>1. Before(i)' = Written /\ Written # {}
    BY <1>5, <1>8
  <2>2. LastCrc = segments[Max(Written)].edge
    BY <2>1 DEF LastCrc
  <2>3. segments'[Max(Written)] = segments[Max(Written)]
    BY <1>6, <1>7, <2>1
  <2> QED BY <1>1, <1>2, <1>8, <2>1, <2>2, <2>3
<1>9. CASE i # n
  <2>1. i \in Written /\ Before(i)' = Before(i) /\ Before(i) \subseteq Written
    BY <1>3, <1>5, <1>9 DEF Before
  <2>2. segments[i].prev = segments[Max(Before(i))].edge
    BY <2>1 DEF SegmentsChain
  <2>3. segments'[Max(Before(i))] = segments[Max(Before(i))]
    BY <1>6, <1>7, <2>1
  <2> QED BY <1>7, <2>1, <2>2, <2>3
<1> QED BY <1>8, <1>9

(* cleanup deletes from the front, and the first segment of a chain is      *)
(* compared with nothing.                                                   *)
LEMMA ChainSwept ==
    ASSUME Bounded(DOMAIN segments), SegmentsChain, NEW n \in DOMAIN segments,
           \A i \in DOMAIN segments : n <= i,
           segments' = [i \in DOMAIN segments \ {n} |-> segments[i]]
    PROVE  SegmentsChain'
<1>1. /\ DOMAIN segments' = DOMAIN segments \ {n}
      /\ \A i \in DOMAIN segments \ {n} : segments'[i] = segments[i]
  OBVIOUS
<1>2. Written' = Written \ {n} /\ Written \subseteq DOMAIN segments /\ DOMAIN segments \subseteq Nat
  BY <1>1 DEF Written, Bounded
<1> SUFFICES ASSUME NEW i \in Written', Before(i)' # {}
             PROVE  segments'[i].prev = segments'[Max(Before(i)')].edge
  BY DEF SegmentsChain
<1>3. Before(i)' = Before(i) \ {n} /\ Before(i) \subseteq Written /\ i \in Written /\ i # n
  BY <1>2 DEF Before
<1>4. Bounded(Before(i)) /\ Bounded(Before(i) \ {n}) /\ n \in Nat
  BY <1>2, <1>3, BoundedMore
<1>5. /\ Max(Before(i)) \in Before(i) /\ \A y \in Before(i) : Max(Before(i)) >= y
      /\ Max(Before(i) \ {n}) \in Before(i) \ {n} /\ \A y \in Before(i) \ {n} : Max(Before(i) \ {n}) >= y
  BY <1>3, <1>4, MaxIs
<1>6. Max(Before(i)) # n
  BY SMTT(60), <1>2, <1>3, <1>5
<1>7. Max(Before(i)) = Max(Before(i) \ {n})
  BY SMTT(60), <1>2, <1>3, <1>5, <1>6
<1>8. segments[i].prev = segments[Max(Before(i))].edge
  BY <1>3, <1>5 DEF SegmentsChain
<1>9. segments'[Max(Before(i))] = segments[Max(Before(i))] /\ segments'[i] = segments[i]
  BY <1>1, <1>2, <1>3, <1>5, <1>6
<1> QED BY <1>3, <1>7, <1>8, <1>9

(* An empty segment file is skipped.                                        *)
LEMMA ChainOpened ==
    ASSUME Bounded(DOMAIN segments), SegmentsChain, NEW n, n \notin DOMAIN segments,
           segments' = With(segments, n, Unwritten)
    PROVE  /\ SegmentsChain' /\ DOMAIN segments' = DOMAIN segments \cup {n}
           /\ segments'[n] = Unwritten
<1>1. /\ DOMAIN segments' = DOMAIN segments \cup {n} /\ segments'[n] = Unwritten
      /\ \A i \in DOMAIN segments : segments'[i] = segments[i]
  BY DEF With
<1>2. Written' = Written /\ Written \subseteq DOMAIN segments
  BY <1>1 DEF Written
<1>3. \A i : Before(i)' = Before(i)
  BY <1>2 DEF Before
<1>4. SegmentsChain'
  <2> SUFFICES ASSUME NEW i \in Written, Before(i) # {}
               PROVE  segments'[i].prev = segments'[Max(Before(i))].edge
    BY <1>2, <1>3 DEF SegmentsChain
  <2>1. Bounded(Before(i))
    BY <1>2, BoundedMore DEF Before
  <2>2. Max(Before(i)) \in DOMAIN segments
    BY <1>2, <2>1, MaxIs DEF Before
  <2>3. segments[i].prev = segments[Max(Before(i))].edge
    BY DEF SegmentsChain
  <2> QED BY <1>1, <1>2, <2>2, <2>3
<1> QED BY <1>1, <1>4

(* The writer that holds the lock is the only one at work.                  *)
LEMMA OthersIdle ==
    ASSUME GraphInv, NEW w \in Writers, glock = w \/ glock = Nobody,
           NEW v \in Writers, v # w
    PROVE  gwork[v].at \in {"idle", "probed"}
<1>1. glock # v
  BY GraphAssumption DEF Nobody
<1> QED BY <1>1 DEF GraphInv, WriterInv

(* A step that writes no file, and leaves its writer w as WriterInv asks.   *)
LEMMA FilesKept ==
    ASSUME GraphInv, UNCHANGED <<manifest, shards, segments, branches>>,
           NEW w \in Writers, NEW r, gwork' = [gwork EXCEPT ![w] = r],
           glock' = glock \/ glock \in {w, Nobody},
           WriterInv(w)'
    PROVE  GraphInv'
<1>1. /\ gwork' = [v \in Writers |-> gwork'[v]]
      /\ \A v \in Writers \ {w} : gwork'[v] = gwork[v]
  BY DEF GraphInv
<1>2. \A v \in Writers \ {w} : WriterInv(v)'
  <2> SUFFICES ASSUME NEW v \in Writers \ {w} PROVE WriterInv(v)'
    OBVIOUS
  <2>1. CASE glock' = glock
    BY <1>1, <2>1 DEF GraphInv, WriterInv, WorkSteps, IsWork
  <2>2. CASE glock \in {w, Nobody}
    <3>1. gwork'[v].at \in {"idle", "probed"}
      BY <1>1, <2>2, OthersIdle
    <3> QED BY <3>1 DEF WriterInv, WorkSteps
  <2> QED BY <2>1, <2>2
<1>3. /\ Bounded(DOMAIN segments)' /\ Bounded(DOMAIN shards)'
      /\ (Ids \subseteq DOMAIN shards)' /\ (Pins \subseteq DOMAIN shards)' /\ SegmentsChain'
  BY DEF GraphInv, Ids, Pins, SegmentsChain, Written, Before, Bounded
<1> QED BY <1>1, <1>2, <1>3 DEF GraphInv

(* A writer at rest owes nothing.                                           *)
LEMMA RestingOwesNothing ==
    ASSUME NEW w, gwork'[w].at \in {"idle", "probed"}
    PROVE  WriterInv(w)'
BY DEF WriterInv, WorkSteps

(* The next step of the same work.                                          *)
LEMMA Stepped ==
    ASSUME GraphInv, NEW w \in Writers, NEW s, gwork[w].at \in WorkSteps, Step(w, s)
    PROVE  /\ gwork' = [v \in Writers |-> gwork'[v]]
           /\ \A v \in Writers \ {w} : gwork'[v] = gwork[v]
           /\ gwork'[w].at = s /\ gwork'[w].id = gwork[w].id /\ gwork'[w].folded = gwork[w].folded
           /\ IsWork(gwork'[w])
<1>1. IsWork(gwork[w]) /\ gwork = [v \in Writers |-> gwork[v]]
  BY DEF GraphInv, WriterInv
<1>2. PICK k, a, i, f, g : gwork[w] = [kind |-> k, at |-> a, id |-> i, facts |-> f, folded |-> g]
  BY <1>1 DEF IsWork
<1>3. /\ gwork' = [v \in Writers |-> gwork'[v]]
      /\ \A v \in Writers \ {w} : gwork'[v] = gwork[v]
      /\ gwork'[w] = [gwork[w] EXCEPT !.at = s]
  BY <1>1 DEF Step
<1>4. gwork'[w] = [kind |-> k, at |-> s, id |-> i, facts |-> f, folded |-> g]
  BY SMTT(60), <1>2, <1>3
<1> QED BY <1>2, <1>3, <1>4 DEF IsWork

(* While w holds the lock, the files may change under the others.           *)
LEMMA OnlyTheHolder ==
    ASSUME GraphInv, NEW w \in Writers, glock \in {w, Nobody},
           \A v \in Writers \ {w} : gwork'[v] = gwork[v],
           WriterInv(w)'
    PROVE  \A v \in Writers : WriterInv(v)'
<1>1. \A v \in Writers \ {w} : gwork'[v].at \in {"idle", "probed"}
  BY OthersIdle
<1> QED BY SMTT(60), <1>1, RestingOwesNothing

-----------------------------------------------------------------------------
(* The steps of a writer.                                                   *)

(* publish_batch opens a segment.                                           *)
LEMMA OpenSegmentKeeps ==
    ASSUME GraphInv, NEW w \in Writers, NEW e \in Edges, OpenSegment(w, e)
    PROVE  GraphInv'
<1> DEFINE n == NextSegmentId
<1>1. n \in Nat /\ (\A i \in DOMAIN segments : i < n) /\ DOMAIN segments \subseteq Nat
  BY NextSegmentIs DEF GraphInv, Bounded
<1>2. segments' = With(segments, n, Unwritten) /\ glock' = w /\ glock = Nobody
  BY DEF OpenSegment
<1>3. UNCHANGED <<manifest, shards, branches>>
  BY DEF OpenSegment
<1>4. /\ gwork'[w] = [at |-> "commit", edge |-> e, id |-> n]
      /\ gwork' = [v \in Writers |-> gwork'[v]]
      /\ \A v \in Writers \ {w} : gwork'[v] = gwork[v]
  BY DEF OpenSegment, GraphInv
<1> HIDE DEF n
<1>5. n \notin DOMAIN segments
  BY SMTT(60), <1>1
<1>6. /\ SegmentsChain' /\ DOMAIN segments' = DOMAIN segments \cup {n}
      /\ segments'[n] = Unwritten
  BY <1>2, <1>5, ChainOpened DEF GraphInv
<1>7. Bounded(DOMAIN segments')
  BY <1>1, <1>6, BoundedMore DEF GraphInv
<1>8. \A i \in DOMAIN segments' : i <= n
  BY SMTT(60), <1>1, <1>6
<1>9. gwork'[w].at = "commit" /\ gwork'[w].edge = e /\ gwork'[w].id = n
  BY SMTT(60), <1>4
<1>10. WriterInv(w)'
  BY <1>2, <1>6, <1>8, <1>9 DEF WriterInv, WorkSteps
<1>11. \A v \in Writers : WriterInv(v)'
  BY <1>2, <1>4, <1>10, OnlyTheHolder
<1>12. Bounded(DOMAIN shards)' /\ (Ids \subseteq DOMAIN shards)' /\ (Pins \subseteq DOMAIN shards)'
  BY <1>3 DEF GraphInv, Ids, Pins, Bounded
<1> QED BY <1>4, <1>6, <1>7, <1>11, <1>12 DEF GraphInv

(* DeltaLog::commit.                                                        *)
LEMMA CommitSegmentKeeps ==
    ASSUME GraphInv, NEW w \in Writers, CommitSegment(w)
    PROVE  GraphInv'
<1>1. /\ gwork[w].at = "commit" /\ glock = w /\ WriterInv(w)
      /\ UNCHANGED <<manifest, shards, branches>>
  BY DEF CommitSegment, At, GraphInv
<1>2. PICK n \in DOMAIN segments : n = gwork[w].id
  BY <1>1 DEF WriterInv
<1>3. PICK e \in Edges : e = gwork[w].edge
  BY <1>1 DEF WriterInv
<1>4. /\ segments' = [segments EXCEPT ![n] = [edge |-> e, prev |-> LastCrc]]
      /\ segments[n] = Unwritten /\ \A i \in DOMAIN segments : i <= n
  BY <1>1, <1>2, <1>3 DEF CommitSegment, WriterInv
<1>5. SegmentsChain' /\ DOMAIN segments' = DOMAIN segments
  BY <1>4, ChainCommitted DEF GraphInv
<1>6. /\ gwork' = [v \in Writers |-> gwork'[v]] /\ gwork'[w] = Resting
      /\ \A v \in Writers \ {w} : gwork'[v] = gwork[v]
  BY DEF CommitSegment, Finish, GraphInv
<1>7. WriterInv(w)'
  BY SMTT(60), <1>6, RestingOwesNothing DEF Resting
<1>8. \A v \in Writers : WriterInv(v)'
  BY <1>1, <1>6, <1>7, OnlyTheHolder
<1>9. /\ Bounded(DOMAIN segments)' /\ Bounded(DOMAIN shards)'
      /\ (Ids \subseteq DOMAIN shards)' /\ (Pins \subseteq DOMAIN shards)'
  BY <1>1, <1>5 DEF GraphInv, Ids, Pins, Bounded
<1> QED BY <1>5, <1>6, <1>8, <1>9 DEF GraphInv

(* Compaction and indexing take the lock and start their work; what they    *)
(* fold is the whole log.                                                   *)
LEMMA WorkStarts ==
    ASSUME GraphInv, NEW w \in Writers, ProbeCompaction(w) \/ Compact(w) \/ Index(w)
    PROVE  GraphInv'
<1>1. UNCHANGED <<manifest, shards, segments, branches>>
  BY DEF ProbeCompaction, Compact, Index, storeFiles
<1>2. ASSUME NEW r, gwork' = [gwork EXCEPT ![w] = r], r.at \in {"idle", "probed"}, glock' = glock
      PROVE  GraphInv'
  <2>1. gwork'[w] = r
    BY <1>2 DEF GraphInv
  <2>2. WriterInv(w)'
    BY SMTT(60), <1>2, <2>1, RestingOwesNothing
  <2> QED BY <1>1, <1>2, <2>2, FilesKept
<1>3. ASSUME NEW k, NEW f, NEW g, DOMAIN segments \subseteq g, glock = Nobody, glock' = w,
             gwork' = [gwork EXCEPT ![w] = Work(k, f, g)]
      PROVE  GraphInv'
  <2>1. gwork'[w] = Work(k, f, g)
    BY <1>3 DEF GraphInv
  <2>2. PICK n \in Nat : n = NextSnapshot
    BY LatestIs
  <2>3. gwork'[w] = [kind |-> k, at |-> "write", id |-> n, facts |-> f, folded |-> g]
    BY <2>1, <2>2 DEF Work
  <2>4. IsWork(gwork'[w]) /\ gwork'[w].at = "write" /\ gwork'[w].id = n /\ gwork'[w].folded = g
    BY SMTT(60), <2>3 DEF IsWork
  <2>5. WriterInv(w)'
    BY <1>1, <1>3, <2>4 DEF WriterInv, WorkSteps, IsWork
  <2> QED BY <1>1, <1>3, <2>5, FilesKept
<1>4. CASE ProbeCompaction(w)
  <2>1. gwork' = [gwork EXCEPT ![w] = [at |-> "probed"]] /\ glock' = glock
    BY <1>4 DEF ProbeCompaction
  <2>2. [at |-> "probed"].at = "probed"
    OBVIOUS
  <2> QED BY <1>2, <2>1, <2>2
<1>5. CASE Index(w)
  BY <1>3, <1>5 DEF Index
<1>6. CASE Compact(w)
  <2>1. glock = Nobody /\ DOMAIN segments \subseteq Folded \cup Unfolded
    BY <1>6 DEF Compact, Unfolded
  <2>2. Resting.at = "idle"
    BY DEF Resting
  <2>3. CASE SegmentsChain /\ ShouldCompact /\ NextSnapshot <= MaxSnapshots
    BY <1>3, <1>6, <2>1, <2>3 DEF Compact
  <2>4. CASE ~ (SegmentsChain /\ ShouldCompact /\ NextSnapshot <= MaxSnapshots)
    BY <1>2, <1>6, <2>2, <2>4 DEF Compact
  <2> QED BY <2>3, <2>4
<1> QED BY <1>4, <1>5, <1>6

(* write_snapshot: the files come before the manifest that names them.      *)
LEMMA WriteSnapshotKeeps ==
    ASSUME GraphInv, NEW w \in Writers, WriteSnapshot(w)
    PROVE  GraphInv'
<1>1. /\ gwork[w].at = "write" /\ glock = w /\ glock' = glock /\ WriterInv(w)
      /\ UNCHANGED <<manifest, segments, branches>>
  BY DEF WriteSnapshot, At, GraphInv
<1>2. gwork[w].id \in Nat /\ DOMAIN segments \subseteq gwork[w].folded
  BY <1>1 DEF WriterInv, WorkSteps
<1>3. DOMAIN shards' = DOMAIN shards \cup {gwork[w].id}
  BY DEF WriteSnapshot, With
<1>4. /\ gwork' = [v \in Writers |-> gwork'[v]]
      /\ \A v \in Writers \ {w} : gwork'[v] = gwork[v]
      /\ gwork'[w].at = "publish" /\ gwork'[w].id = gwork[w].id /\ gwork'[w].folded = gwork[w].folded
      /\ IsWork(gwork'[w])
  BY <1>1, Stepped DEF WriteSnapshot, WorkSteps
<1>5. WriterInv(w)'
  BY <1>1, <1>2, <1>3, <1>4 DEF WriterInv, WorkSteps, IsWork
<1>6. \A v \in Writers : WriterInv(v)'
  BY <1>1, <1>4, <1>5, OnlyTheHolder
<1>7. Bounded(DOMAIN shards)'
  BY <1>2, <1>3, BoundedMore DEF GraphInv
<1>8. (Ids \subseteq DOMAIN shards)' /\ (Pins \subseteq DOMAIN shards)'
  BY <1>1, <1>3 DEF GraphInv, Ids, Pins
<1>9. SegmentsChain' /\ Bounded(DOMAIN segments)'
  BY <1>1 DEF GraphInv, SegmentsChain, Written, Before, Bounded
<1> QED BY <1>4, <1>6, <1>7, <1>8, <1>9 DEF GraphInv

(* atomic_publish names a snapshot whose files are there; pruning only      *)
(* forgets entries.                                                         *)
LEMMA PublishManifestKeeps ==
    ASSUME GraphInv, NEW w \in Writers, PublishManifest(w)
    PROVE  GraphInv'
<1>1. /\ gwork[w].at = "publish" /\ glock = w /\ glock' = glock /\ WriterInv(w)
      /\ UNCHANGED <<shards, segments, branches>>
  BY DEF PublishManifest, At, GraphInv
<1>2. /\ gwork[w].id \in Nat /\ DOMAIN segments \subseteq gwork[w].folded
      /\ gwork[w].id \in DOMAIN shards
  BY <1>1 DEF WriterInv, WorkSteps
<1>3. manifest' \subseteq manifest \cup {SnapshotEntry(gwork[w].id, gwork[w].folded)}
  BY DEF PublishManifest, Pruned, Newest
<1>4. SnapshotEntry(gwork[w].id, gwork[w].folded).snapshot_id = gwork[w].id
  BY DEF SnapshotEntry
<1>5. \A s \in manifest' : s.snapshot_id \in DOMAIN shards
  BY <1>2, <1>3, <1>4 DEF GraphInv, Ids
<1>6. PICK s \in {"branch", "sweep"} : Step(w, s)
  BY DEF PublishManifest
<1>7. /\ gwork' = [v \in Writers |-> gwork'[v]]
      /\ \A v \in Writers \ {w} : gwork'[v] = gwork[v]
      /\ gwork'[w].at = s /\ gwork'[w].id = gwork[w].id /\ gwork'[w].folded = gwork[w].folded
      /\ IsWork(gwork'[w])
  BY <1>1, <1>6, Stepped DEF WorkSteps
<1>8. WriterInv(w)'
  BY <1>1, <1>2, <1>6, <1>7 DEF WriterInv, WorkSteps, IsWork
<1>9. \A v \in Writers : WriterInv(v)'
  BY <1>1, <1>7, <1>8, OnlyTheHolder
<1>10. (Ids \subseteq DOMAIN shards)'
  BY <1>1, <1>5 DEF Ids
<1>11. (Pins \subseteq DOMAIN shards)' /\ Bounded(DOMAIN shards)'
  BY <1>1 DEF GraphInv, Pins, Bounded
<1>12. SegmentsChain' /\ Bounded(DOMAIN segments)'
  BY <1>1 DEF GraphInv, SegmentsChain, Written, Before, Bounded
<1> QED BY <1>7, <1>9, <1>10, <1>11, <1>12 DEF GraphInv

(* record_head_snapshot pins the snapshot just written, whose files nobody  *)
(* swept meanwhile.                                                         *)
LEMMA RecordHeadKeeps ==
    ASSUME GraphInv, NEW w \in Writers, RecordHead(w)
    PROVE  GraphInv'
<1>1. /\ gwork[w].at = "branch" /\ glock = w /\ glock' = glock /\ WriterInv(w)
      /\ UNCHANGED <<manifest, shards, segments>>
  BY DEF RecordHead, At, GraphInv
<1>2. /\ gwork[w].id \in Nat /\ DOMAIN segments \subseteq gwork[w].folded
      /\ gwork[w].id \in DOMAIN shards
  BY <1>1 DEF WriterInv, WorkSteps
<1>3. /\ DOMAIN branches' = DOMAIN branches \cup {head}
      /\ \A b \in DOMAIN branches' : branches'[b] = IF b = head THEN gwork[w].id ELSE branches[b]
  BY DEF RecordHead, With
<1>4. \A b \in DOMAIN branches' : branches'[b] \in DOMAIN shards
  BY <1>2, <1>3 DEF GraphInv, Pins
<1>5. /\ gwork' = [v \in Writers |-> gwork'[v]]
      /\ \A v \in Writers \ {w} : gwork'[v] = gwork[v]
      /\ gwork'[w].at = "sign" /\ gwork'[w].id = gwork[w].id /\ gwork'[w].folded = gwork[w].folded
      /\ IsWork(gwork'[w])
  BY <1>1, Stepped DEF RecordHead, WorkSteps
<1>6. WriterInv(w)'
  BY <1>1, <1>2, <1>5 DEF WriterInv, WorkSteps, IsWork
<1>7. \A v \in Writers : WriterInv(v)'
  BY <1>1, <1>5, <1>6, OnlyTheHolder
<1>8. (Pins \subseteq DOMAIN shards)'
  BY <1>1, <1>4 DEF Pins
<1>9. (Ids \subseteq DOMAIN shards)' /\ Bounded(DOMAIN shards)'
  BY <1>1 DEF GraphInv, Ids, Bounded
<1>10. SegmentsChain' /\ Bounded(DOMAIN segments)'
  BY <1>1 DEF GraphInv, SegmentsChain, Written, Before, Bounded
<1> QED BY <1>5, <1>7, <1>8, <1>9, <1>10 DEF GraphInv

(* Saving the signature writes no file an open reads.                       *)
LEMMA SaveSignatureKeeps ==
    ASSUME GraphInv, NEW w \in Writers, SaveSignature(w)
    PROVE  GraphInv'
<1>1. /\ gwork[w].at = "sign" /\ glock = w /\ glock' = glock /\ WriterInv(w)
      /\ UNCHANGED <<manifest, shards, segments, branches>>
  BY DEF SaveSignature, At, GraphInv
<1>2. gwork[w].id \in Nat /\ DOMAIN segments \subseteq gwork[w].folded
  BY <1>1 DEF WriterInv, WorkSteps
<1>3. /\ gwork' = [v \in Writers |-> gwork'[v]]
      /\ \A v \in Writers \ {w} : gwork'[v] = gwork[v]
      /\ gwork'[w].at = "sweep" /\ gwork'[w].id = gwork[w].id /\ gwork'[w].folded = gwork[w].folded
      /\ IsWork(gwork'[w])
  BY <1>1, Stepped DEF SaveSignature, WorkSteps
<1>4. WriterInv(w)'
  BY <1>1, <1>2, <1>3 DEF WriterInv, WorkSteps, IsWork
<1>5. \A v \in Writers : WriterInv(v)'
  BY <1>1, <1>3, <1>4, OnlyTheHolder
<1>6. /\ Bounded(DOMAIN segments)' /\ Bounded(DOMAIN shards)'
      /\ (Ids \subseteq DOMAIN shards)' /\ (Pins \subseteq DOMAIN shards)' /\ SegmentsChain'
  BY <1>1 DEF GraphInv, Ids, Pins, SegmentsChain, Written, Before, Bounded
<1> QED BY <1>3, <1>5, <1>6 DEF GraphInv

(* cleanup removes a snapshot that neither the manifest nor a branch names. *)
LEMMA SweepSnapshotKeeps ==
    ASSUME GraphInv, NEW w \in Writers, SweepSnapshot(w)
    PROVE  GraphInv'
<1>1. /\ gwork[w].at = "sweep" /\ glock = w /\ glock' = glock /\ gwork' = gwork
      /\ WriterInv(w) /\ UNCHANGED <<manifest, segments, branches>>
  BY DEF SweepSnapshot, At, GraphInv
<1>2. DOMAIN shards \ Kept # {} /\ DOMAIN shards \ Kept \subseteq Nat
  BY DEF SweepSnapshot, GraphInv, Bounded
<1>3. PICK i \in DOMAIN shards \ Kept : i = Min(DOMAIN shards \ Kept)
  BY <1>2, MinIs
<1>4. DOMAIN shards' = DOMAIN shards \ {i}
  BY <1>3 DEF SweepSnapshot
<1>5. i \notin Ids /\ i \notin Pins
  BY <1>3 DEF Kept, Ids
<1>6. Ids' = Ids /\ Pins' = Pins
  BY <1>1 DEF Ids, Pins
<1>7. (Ids \subseteq DOMAIN shards)' /\ (Pins \subseteq DOMAIN shards)'
  BY <1>4, <1>5, <1>6 DEF GraphInv
<1>8. Bounded(DOMAIN shards)'
  BY <1>4, BoundedMore DEF GraphInv
<1>9. WriterInv(w)'
  BY <1>1 DEF WriterInv, WorkSteps, IsWork
<1>10. \A v \in Writers : WriterInv(v)'
  BY <1>1, <1>9, OnlyTheHolder
<1>11. SegmentsChain' /\ Bounded(DOMAIN segments)'
  BY <1>1 DEF GraphInv, SegmentsChain, Written, Before, Bounded
<1> QED BY <1>1, <1>7, <1>8, <1>10, <1>11 DEF GraphInv

(* cleanup removes the first segment of the log.                            *)
LEMMA SweepSegmentKeeps ==
    ASSUME GraphInv, NEW w \in Writers, SweepSegment(w)
    PROVE  GraphInv'
<1>1. /\ gwork[w].at = "sweep" /\ glock = w /\ glock' = glock /\ gwork' = gwork
      /\ WriterInv(w) /\ UNCHANGED <<manifest, shards, branches>>
  BY DEF SweepSegment, At, GraphInv
<1>2. gwork[w].folded \cap DOMAIN segments = DOMAIN segments /\ IsWork(gwork[w]) /\ gwork[w].id \in Nat
  BY <1>1 DEF WriterInv, WorkSteps
<1>3. DOMAIN segments # {} /\ DOMAIN segments \subseteq Nat
  BY <1>2 DEF SweepSegment, GraphInv, Bounded
<1>4. PICK n \in DOMAIN segments : n = Min(DOMAIN segments)
  BY <1>3, MinIs
<1>5. \A i \in DOMAIN segments : n <= i
  BY <1>3, <1>4, MinIs
<1>6. segments' = [i \in DOMAIN segments \ {n} |-> segments[i]]
  BY <1>2, <1>4 DEF SweepSegment
<1>7. SegmentsChain'
  BY <1>5, <1>6, ChainSwept DEF GraphInv
<1>8. DOMAIN segments' = DOMAIN segments \ {n}
  BY <1>6
<1>9. Bounded(DOMAIN segments)'
  BY <1>3, <1>8, BoundedMore DEF GraphInv
<1>10. WriterInv(w)'
  BY <1>1, <1>8 DEF WriterInv, WorkSteps, IsWork
<1>11. \A v \in Writers : WriterInv(v)'
  BY <1>1, <1>10, OnlyTheHolder
<1>12. (Ids \subseteq DOMAIN shards)' /\ (Pins \subseteq DOMAIN shards)' /\ Bounded(DOMAIN shards)'
  BY <1>1 DEF GraphInv, Ids, Pins, Bounded
<1> QED BY <1>1, <1>7, <1>9, <1>11, <1>12 DEF GraphInv

(* The end of a writer, by itself or killed.                                *)
LEMMA WorkEnds ==
    ASSUME GraphInv, NEW w \in Writers, Swept(w) \/ SweepSkipped(w) \/ WriterKilled(w)
    PROVE  GraphInv'
<1>1. /\ UNCHANGED <<manifest, shards, segments, branches>>
      /\ gwork' = [gwork EXCEPT ![w] = Resting]
      /\ glock' = glock \/ glock \in {w, Nobody}
  BY DEF Swept, SweepSkipped, WriterKilled, Finish, At, storeFiles
<1>2. gwork'[w] = Resting
  BY <1>1 DEF GraphInv
<1>3. WriterInv(w)'
  BY SMTT(60), <1>2, RestingOwesNothing DEF Resting
<1> QED BY <1>1, <1>3, FilesKept

-----------------------------------------------------------------------------
(* Every step keeps the store readable.                                     *)
LEMMA GraphKeeps ==
    ASSUME GraphInv, [GraphNext]_graphVars
    PROVE  GraphInv'
<1>1. ASSUME UNCHANGED <<manifest, shards, segments, branches, glock, gwork>>
      PROVE  GraphInv'
  BY SMTT(60), <1>1
    DEF GraphInv, WriterInv, Ids, Pins, SegmentsChain, Written, Before, Bounded, WorkSteps, IsWork
<1>2. CASE EditTree \/ Query \/ UNCHANGED graphVars
  BY <1>1, <1>2 DEF EditTree, Query, graphVars, storeFiles
<1>3. ASSUME NEW w \in Writers, NEW e \in Edges, OpenSegment(w, e) PROVE GraphInv'
  BY <1>3, OpenSegmentKeeps
<1>4. ASSUME NEW w \in Writers,
             \/ CommitSegment(w) \/ ProbeCompaction(w) \/ Compact(w) \/ Index(w)
             \/ WriteSnapshot(w) \/ PublishManifest(w) \/ RecordHead(w) \/ SaveSignature(w)
             \/ SweepSnapshot(w) \/ SweepSegment(w) \/ Swept(w) \/ SweepSkipped(w)
             \/ WriterKilled(w)
      PROVE  GraphInv'
  BY <1>4, CommitSegmentKeeps, WorkStarts, WriteSnapshotKeeps, PublishManifestKeeps,
     RecordHeadKeeps, SaveSignatureKeeps, SweepSnapshotKeeps, SweepSegmentKeeps, WorkEnds
<1> QED BY <1>2, <1>3, <1>4 DEF GraphNext

(* Whatever writer of GraphZero was killed where, the snapshots that the    *)
(* manifest and the branch pointers name have their files and the delta log *)
(* can be replayed: write_snapshot before atomic_publish before cleanup,    *)
(* under the lock of lock.rs.                                               *)
THEOREM StoreOpensHolds == GraphSpec => []StoreOpens
<1>1. GraphInit => GraphInv
  <2> SUFFICES ASSUME GraphInit PROVE GraphInv
    OBVIOUS
  <2>1. DOMAIN segments = {} /\ DOMAIN shards = {} /\ DOMAIN branches = {} /\ manifest = {}
    BY DEF GraphInit
  <2>2. Bounded({})
    BY DEF Bounded
  <2>3. Ids = {} /\ Pins = {} /\ Written = {}
    BY <2>1 DEF Ids, Pins, Written
  <2>4. \A w \in Writers : gwork[w] = Resting
    BY DEF GraphInit
  <2>5. \A w \in Writers : WriterInv(w)
    BY SMTT(60), <2>4 DEF Resting, WriterInv, WorkSteps
  <2>6. gwork = [w \in Writers |-> gwork[w]]
    BY DEF GraphInit
  <2> QED BY <2>1, <2>2, <2>3, <2>5, <2>6 DEF GraphInv, SegmentsChain
<1>2. GraphInv /\ [GraphNext]_graphVars => GraphInv'
  BY GraphKeeps
<1>3. GraphInv => StoreOpens
  BY DEF GraphInv, StoreOpens, Ids
<1> QED BY <1>1, <1>2, <1>3, PTL DEF GraphSpec

-----------------------------------------------------------------------------
(* FSZero's pack store.                                                     *)

Generations == 0..MaxGeneration

(* The row yields v from the first n entries of the pack.                   *)
RowHolds(row, v, pack, n) ==
    /\ row.at \in Nat
    /\ IF row.at = 0 THEN row.bytes = v ELSE row.at <= n /\ pack[row.at] = v

PackTypes ==
    /\ meta \in Generations /\ meta \in linked
    /\ packs \in [Generations -> Seq(Contents \cup {Damaged})]
    /\ synced \in [Generations -> Nat] /\ synced[meta] <= Len(packs[meta])
    /\ handle \in [PackOpeners -> Generations \cup {Closed}]

RowsHold ==
    /\ IsFiniteSet(DOMAIN rows) /\ rows = [k \in DOMAIN rows |-> rows[k]]
    /\ DOMAIN intended = DOMAIN rows
    /\ \A k \in DOMAIN rows : RowHolds(rows[k], intended[k], packs[meta], synced[meta])

IsPut(r) ==
    r = [who |-> r.who, step |-> r.step, pending |-> r.pending, encoded |-> r.encoded, dirty |-> r.dirty]

(* What is encoded yields what is pending: from the pack as it is while     *)
(* encoding, from the synced part of it at the insertion.                   *)
Encoded(r, n) ==
    /\ r.pending \in Buffers
    /\ DOMAIN r.encoded \subseteq DOMAIN r.pending
    /\ \A k \in DOMAIN r.encoded : RowHolds(r.encoded[k], r.pending[k], packs[meta], n)

(* An append made the transaction dirty, after it had rebound the handle.   *)
Encoding(r) ==
    /\ IsPut(r) /\ Encoded(r, Len(packs[meta])) /\ r.dirty \in BOOLEAN
    /\ r.dirty => handle[r.who] = meta
    /\ \A k \in DOMAIN r.encoded : r.encoded[k].at # 0 => r.dirty

Inserting(r) ==
    IsPut(r) /\ Encoded(r, synced[meta]) /\ DOMAIN r.encoded = DOMAIN r.pending

(* The next generation holds the live payloads, in order and synced.        *)
Rotating ==
    LET n == Len(LivePayloads) IN
    /\ meta + 1 \in Generations /\ meta + 1 \in linked
    /\ Len(packs[meta + 1]) = n /\ synced[meta + 1] = n
    /\ \A i \in 1..n : packs[meta + 1][i] = packs[meta][rows[LivePayloads[i]].at]

TxnInv ==
    \/ txn = NoTxn
    \/ txn.who \in PackOpeners /\ txn.step = "encode" /\ Encoding(txn)
    \/ txn.who \in PackOpeners /\ txn.step = "insert" /\ Inserting(txn)
    \/ txn.who \in PackOpeners /\ txn.step = "rotate" /\ Rotating

PackInv == PackTypes /\ RowsHold /\ TxnInv

(* A row stays good when the pack keeps the entries up to the mark.         *)
LEMMA RowStays ==
    ASSUME NEW row, NEW v, NEW pack, NEW next, NEW m \in Nat, NEW n \in Nat, m <= n,
           \A i \in 1..m : next[i] = pack[i], RowHolds(row, v, pack, m)
    PROVE  RowHolds(row, v, next, n)
<1>1. row.at \in Nat
  BY DEF RowHolds
<1>2. CASE row.at = 0
  BY <1>2 DEF RowHolds
<1>3. CASE row.at # 0
  <2>1. row.at <= m /\ pack[row.at] = v
    BY <1>3 DEF RowHolds
  <2>2. row.at \in 1..m
    BY SMTT(60), <1>1, <1>3, <2>1
  <2>3. next[row.at] = v
    BY <2>1, <2>2
  <2>4. row.at <= n
    BY SMTT(60), <1>1, <2>1
  <2> QED BY <1>1, <1>3, <2>3, <2>4 DEF RowHolds
<1> QED BY <1>2, <1>3

(* The committed rows when only the pack of the active generation grows, or *)
(* loses what was not synced.                                               *)
LEMMA RowsStay ==
    ASSUME PackTypes, RowsHold, UNCHANGED <<rows, intended, meta>>,
           synced[meta] <= synced'[meta], synced'[meta] \in Nat,
           \A i \in 1..synced[meta] : packs'[meta][i] = packs[meta][i]
    PROVE  RowsHold'
<1>1. synced[meta] \in Nat
  BY DEF PackTypes
<1>2. \A k \in DOMAIN rows : RowHolds(rows[k], intended[k], packs'[meta], synced'[meta])
  BY <1>1, RowStays DEF RowsHold
<1> QED BY <1>2 DEF RowsHold

(* An order of a finite set lists every member once.                        *)
LEMMA Listed ==
    ASSUME NEW S, IsFiniteSet(S),
           NEW f, f = CHOOSE order \in Injection(1..Cardinality(S), S) : TRUE
    PROVE  f \in Seq(S) /\ DOMAIN f = 1..Len(f) /\ Range(f) = S
<1>1. Cardinality(S) \in Nat /\ ExistsBijection(1..Cardinality(S), S)
  BY FS_CardinalityType
<1>2. PICK n \in Nat : n = Cardinality(S)
  BY <1>1
<1>3. Injection(1..n, S) # {}
  BY <1>1, <1>2 DEF ExistsBijection, Bijection
<1>4. f \in Injection(1..n, S)
  BY <1>2, <1>3
<1>5. f \in [1..n -> S]
  BY <1>4 DEF Injection
<1>6. Cardinality(1..n) = n
  BY SMTT(60), FS_Interval
<1>7. f \in Surjection(1..n, S)
  BY <1>2, <1>4, <1>6, FS_Injection
<1>8. Range(f) = S
  BY <1>5, <1>7 DEF Surjection, Range
<1> QED BY SMTT(60), <1>5, <1>8

(* While no put is being committed every packed row is live: compaction     *)
(* copies all of them.                                                      *)
LEMMA AllLive ==
    ASSUME PackTypes, RowsHold
    PROVE  /\ LivePayloads \in Seq(Packed) /\ Range(LivePayloads) = Packed
           /\ DOMAIN LivePayloads = 1..Len(LivePayloads)
           /\ \A k \in Packed : rows[k].at \in 1..Len(packs[meta])
<1>1. synced[meta] \in Nat /\ Len(packs[meta]) \in Nat /\ synced[meta] <= Len(packs[meta])
  BY SMTT(60) DEF PackTypes
<1>2. \A k \in Packed : rows[k].at \in Nat /\ rows[k].at # 0 /\ rows[k].at <= synced[meta]
  BY DEF Packed, RowsHold, RowHolds
<1>3. {k \in Packed : rows[k].at =< Len(packs[meta])} = Packed
  BY SMTT(60), <1>1, <1>2
<1>4. IsFiniteSet(Packed)
  BY FS_Subset DEF RowsHold, Packed
<1>5. LivePayloads = CHOOSE order \in Injection(1..Cardinality(Packed), Packed) : TRUE
  BY <1>3 DEF LivePayloads
<1> QED BY SMTT(60), <1>1, <1>2, <1>4, <1>5, Listed

(* Whose turn it is.                                                        *)
LEMMA TurnIs ==
    ASSUME PackInv, NEW p \in PackOpeners
    PROVE  /\ Holds(p, "encode") => Encoding(txn)
           /\ Holds(p, "insert") => Inserting(txn)
           /\ Holds(p, "rotate") => Rotating
<1>1. NoTxn.who # p
  BY PackAssumption DEF NoTxn
<1> QED BY <1>1 DEF PackInv, TxnInv, Holds

(* The transaction of another process goes on as it was.                    *)
LEMMA TxnStays ==
    ASSUME PackInv, UNCHANGED <<rows, meta, packs, synced, linked, txn>>,
           handle'[txn.who] \in {handle[txn.who], meta}
    PROVE  TxnInv'
<1>1. Encoding(txn) => Encoding(txn)'
  BY DEF Encoding, Encoded, IsPut
<1>2. Inserting(txn) => Inserting(txn)'
  BY DEF Inserting, Encoded, IsPut
<1>3. Rotating => Rotating'
  BY DEF Rotating, LivePayloads, Packed
<1>4. CASE txn = NoTxn
  BY <1>4 DEF TxnInv, NoTxn
<1> QED BY <1>1, <1>2, <1>3, <1>4 DEF PackInv, TxnInv

(* open repair drops nothing: every locator is within the pack.             *)
LEMMA OpenKeeps ==
    ASSUME PackInv, NEW p \in PackOpeners, OpenDurableStore(p)
    PROVE  PackInv'
<1>1. UNCHANGED <<meta, packs, synced, linked, txn, intended>> /\ handle' = [handle EXCEPT ![p] = meta]
  BY DEF OpenDurableStore
<1>2. PackTypes'
  BY <1>1 DEF PackInv, PackTypes
<1>3. synced[meta] \in Nat /\ Len(packs[meta]) \in Nat /\ synced[meta] <= Len(packs[meta])
  BY SMTT(60) DEF PackInv, PackTypes
<1>4. \A k \in DOMAIN rows : rows[k].at \in Nat /\ (rows[k].at = 0 \/ rows[k].at <= synced[meta])
  BY DEF PackInv, RowsHold, RowHolds
<1>5. Repaired(Len(packs[meta])) = DOMAIN rows
  <2>1. \A k \in DOMAIN rows : rows[k].at =< Len(packs[meta])
    BY SMTT(60), <1>3, <1>4
  <2> QED BY <2>1 DEF Repaired
<1>6. Only(rows, DOMAIN rows) = rows
  BY DEF Only, PackInv, RowsHold
<1>7. rows' = rows
  BY <1>5, <1>6 DEF OpenDurableStore
<1>8. RowsHold'
  BY <1>1, <1>7 DEF PackInv, RowsHold, RowHolds
<1>9. \A q \in PackOpeners : handle'[q] \in {handle[q], meta}
  BY <1>1 DEF PackInv, PackTypes
<1>10. TxnInv'
  <2>1. CASE txn = NoTxn
    BY <1>1, <2>1 DEF TxnInv, NoTxn
  <2>2. CASE txn # NoTxn
    <3>1. txn.who \in PackOpeners
      BY <2>2 DEF PackInv, TxnInv
    <3>2. handle'[txn.who] \in {handle[txn.who], meta}
      BY <1>9, <3>1
    <3> QED BY <1>1, <1>7, <3>2, TxnStays
  <2> QED BY <2>1, <2>2
<1> QED BY <1>2, <1>8, <1>10 DEF PackInv

(* A put begins with nothing encoded.                                       *)
LEMMA BeginKeeps ==
    ASSUME PackInv, NEW p \in PackOpeners, NEW b \in Buffers, BeginPut(p, b)
    PROVE  PackInv'
<1>1. UNCHANGED <<rows, meta, packs, synced, linked, handle, intended>>
  BY DEF BeginPut
<1>2. PackTypes' /\ RowsHold'
  BY <1>1 DEF PackInv, PackTypes, RowsHold, RowHolds
<1>3. txn' = [who |-> p, step |-> "encode", pending |-> b, encoded |-> << >>, dirty |-> FALSE]
  BY DEF BeginPut
<1>4. /\ txn'.who = p /\ txn'.step = "encode" /\ txn'.pending = b /\ txn'.encoded = << >>
      /\ txn'.dirty = FALSE /\ IsPut(txn)'
  BY <1>3 DEF IsPut
<1>5. DOMAIN txn'.encoded = {}
  BY SMTT(60), <1>4
<1>6. Encoding(txn)'
  BY <1>4, <1>5 DEF Encoding, Encoded
<1> QED BY <1>2, <1>4, <1>6 DEF PackInv, TxnInv

(* append_active_pack: what was appended before stays where it was, and a   *)
(* row is a locator only when its entry is whole.                           *)
LEMMA AppendKeeps ==
    ASSUME PackInv, NEW p \in PackOpeners, NEW k \in Keys, AppendActivePack(p, k)
    PROVE  PackInv'
<1>1. /\ UNCHANGED <<rows, meta, synced, linked, intended>> /\ Holds(p, "encode")
      /\ handle' = [handle EXCEPT ![p] = meta] /\ k \in DOMAIN txn.pending
  BY DEF AppendActivePack
<1>2. Encoding(txn) /\ txn.who = p /\ txn.step = "encode"
  BY <1>1, TurnIs DEF Holds
<1>3. PICK b, e, d : /\ txn = [who |-> p, step |-> "encode", pending |-> b, encoded |-> e, dirty |-> d]
                     /\ txn.pending = b /\ txn.encoded = e /\ txn.dirty = d
  BY <1>2 DEF Encoding, IsPut
<1>4. PICK m \in Nat, pack \in Seq(Contents \cup {Damaged}) : pack = packs[meta] /\ m = Len(pack)
  BY SMTT(60) DEF PackInv, PackTypes
<1>5. k \in DOMAIN b /\ b[k] \in Contents
  BY <1>1, <1>2, <1>3 DEF Encoding, Encoded, Buffers
<1>6. PICK tail \in {<<txn.pending[k]>>, <<Damaged>>, << >>} :
        LET new == IF tail = <<txn.pending[k]>>
                   THEN Locator(Len(packs[meta]) + 1) ELSE Inline(txn.pending[k])
        IN /\ packs' = [packs EXCEPT ![meta] = @ \o tail]
           /\ txn' = [txn EXCEPT !.encoded = Overlay([x \in {k} |-> new], @), !.dirty = @ \/ new.at # 0]
  BY Zenon DEF AppendActivePack
<1> DEFINE new == IF tail = <<txn.pending[k]>>
                  THEN Locator(Len(packs[meta]) + 1) ELSE Inline(txn.pending[k])
           row == IF tail = <<b[k]>> THEN Locator(m + 1) ELSE Inline(b[k])
           e2 == Overlay([x \in {k} |-> row], e)
           d2 == d \/ row.at # 0
<1>7. txn' = [who |-> p, step |-> "encode", pending |-> b, encoded |-> e2, dirty |-> d2]
  <2>1. new = row
    BY <1>3, <1>4
  <2>2. txn' = [txn EXCEPT !.encoded = Overlay([x \in {k} |-> new], txn.encoded),
                           !.dirty = txn.dirty \/ new.at # 0]
    BY <1>6
  <2> HIDE DEF new, row
  <2>3. txn' = [txn EXCEPT !.encoded = e2, !.dirty = d2]
    BY <1>3, <2>1, <2>2
  <2> HIDE DEF e2, d2
  <2> QED BY <1>3, <2>3
<1>8. packs' = [packs EXCEPT ![meta] = pack \o tail] /\ tail \in Seq(Contents \cup {Damaged})
  <2>1. tail \in {<<b[k]>>, <<Damaged>>, << >>}
    BY <1>3, <1>6
  <2>2. tail \in Seq(Contents \cup {Damaged})
    <3>1. PICK v \in Contents : v = b[k]
      BY <1>5
    <3>2. <<v>> \in Seq(Contents \cup {Damaged}) /\ <<Damaged>> \in Seq(Contents \cup {Damaged})
      BY SMTT(60)
    <3>3. << >> \in Seq(Contents \cup {Damaged})
      BY SMTT(60)
    <3> QED BY Zenon, <2>1, <3>1, <3>2, <3>3
  <2>3. packs' = [packs EXCEPT ![meta] = packs[meta] \o tail]
    BY <1>6
  <2> QED BY <1>4, <2>2, <2>3
<1>9. /\ pack \o tail \in Seq(Contents \cup {Damaged}) /\ Len(pack \o tail) \in Nat
      /\ m <= Len(pack \o tail) /\ \A i \in 1..m : (pack \o tail)[i] = pack[i]
  BY SMTT(60), <1>4, <1>8
<1>10. RowHolds(row, b[k], pack \o tail, Len(pack \o tail))
  <2>1. CASE tail = <<b[k]>>
    <3>1. row.at = m + 1
      BY <2>1 DEF Locator
    <3>2. Len(pack \o tail) = m + 1 /\ (pack \o tail)[m + 1] = b[k]
      BY SMTT(60), <1>4, <1>5, <2>1
    <3> HIDE DEF row
    <3> QED BY SMTT(60), <3>1, <3>2 DEF RowHolds
  <2>2. CASE tail # <<b[k]>>
    <3>1. row.at = 0 /\ row.bytes = b[k]
      BY <2>2 DEF Inline
    <3> HIDE DEF row
    <3> QED BY SMTT(60), <3>1 DEF RowHolds
  <2> QED BY <2>1, <2>2
<1> HIDE DEF row
<1>11. /\ DOMAIN e2 = DOMAIN e \cup {k} /\ e2[k] = row
       /\ \A x \in DOMAIN e : x # k => e2[x] = e[x]
  BY DEF Overlay
<1> HIDE DEF e2, d2
<1>12. meta \in Generations /\ packs'[meta] = pack \o tail
  BY <1>8 DEF PackInv, PackTypes
<1>13. \A x \in DOMAIN e : RowHolds(e[x], b[x], pack \o tail, Len(pack \o tail))
  <2>1. \A x \in DOMAIN e : RowHolds(e[x], b[x], pack, m)
    BY <1>2, <1>3, <1>4 DEF Encoding, Encoded
  <2> QED BY <1>9, <2>1, RowStays
<1>14. \A x \in DOMAIN e2 : RowHolds(e2[x], b[x], pack \o tail, Len(pack \o tail))
  BY <1>10, <1>11, <1>13
<1>15. /\ b \in Buffers /\ DOMAIN e \subseteq DOMAIN b /\ d \in BOOLEAN
       /\ \A x \in DOMAIN e : e[x].at # 0 => d
  BY <1>2, <1>3 DEF Encoding, Encoded
<1>16. d2 \in BOOLEAN /\ \A x \in DOMAIN e2 : e2[x].at # 0 => d2
  BY <1>11, <1>15 DEF d2
<1>17. handle'[p] = meta
  BY <1>1 DEF PackInv, PackTypes
<1>18. /\ txn'.who = p /\ txn'.step = "encode" /\ txn'.pending = b /\ txn'.encoded = e2
       /\ txn'.dirty = d2 /\ IsPut(txn)'
  BY <1>7 DEF IsPut
<1>19. Encoded(txn, Len(packs[meta]))'
  BY <1>1, <1>5, <1>11, <1>12, <1>14, <1>15, <1>18 DEF Encoded
<1>20. Encoding(txn)'
  BY <1>1, <1>16, <1>17, <1>18, <1>19 DEF Encoding
<1>21. PackTypes'
  <2>1. packs' \in [Generations -> Seq(Contents \cup {Damaged})]
    BY <1>8, <1>9 DEF PackInv, PackTypes
  <2>2. synced[meta] <= Len(packs'[meta])
    BY SMTT(60), <1>4, <1>9, <1>12 DEF PackInv, PackTypes
  <2>3. handle' \in [PackOpeners -> Generations \cup {Closed}]
    BY <1>1 DEF PackInv, PackTypes
  <2> QED BY <1>1, <2>1, <2>2, <2>3 DEF PackInv, PackTypes
<1>22. RowsHold'
  <2>1. \A i \in 1..synced[meta] : packs'[meta][i] = packs[meta][i]
    BY SMTT(60), <1>4, <1>9, <1>12 DEF PackInv, PackTypes
  <2>2. synced'[meta] = synced[meta] /\ synced[meta] \in Nat
    BY <1>1 DEF PackInv, PackTypes
  <2> QED BY SMTT(60), <1>1, <2>1, <2>2, RowsStay DEF PackInv
<1> QED BY <1>18, <1>20, <1>21, <1>22 DEF PackInv, TxnInv

(* flush_pending_payloads syncs the pack that the locators point into.      *)
LEMMA SyncKeeps ==
    ASSUME PackInv, NEW p \in PackOpeners, SyncPack(p)
    PROVE  PackInv'
<1>1. /\ UNCHANGED <<rows, meta, packs, linked, handle, intended>> /\ Holds(p, "encode")
      /\ DOMAIN txn.encoded = DOMAIN txn.pending
      /\ txn' = [txn EXCEPT !.step = "insert"]
  BY DEF SyncPack
<1>2. Encoding(txn) /\ txn.who = p
  BY <1>1, TurnIs DEF Holds
<1>3. PICK b, e, d : /\ txn = [who |-> p, step |-> "encode", pending |-> b, encoded |-> e, dirty |-> d]
                     /\ txn.pending = b /\ txn.encoded = e /\ txn.dirty = d
  BY <1>1, <1>2 DEF Encoding, IsPut, Holds
<1>4. txn' = [who |-> p, step |-> "insert", pending |-> b, encoded |-> e, dirty |-> d]
  BY <1>1, <1>3
<1>5. /\ txn'.who = p /\ txn'.step = "insert" /\ txn'.pending = b /\ txn'.encoded = e
      /\ IsPut(txn)'
  BY <1>4 DEF IsPut
<1>6. PICK m \in Nat, n \in Nat : m = synced[meta] /\ n = Len(packs[meta]) /\ m <= n
  BY SMTT(60) DEF PackInv, PackTypes
<1>7. synced' = IF d THEN [synced EXCEPT ![meta] = n] ELSE synced
  BY <1>2, <1>3, <1>6 DEF SyncPack, Encoding
<1>8. synced' \in [Generations -> Nat] /\ synced'[meta] = IF d THEN n ELSE m
  BY <1>6, <1>7 DEF PackInv, PackTypes
<1>9. PackTypes'
  BY SMTT(60), <1>1, <1>6, <1>8 DEF PackInv, PackTypes
<1>10. m <= synced'[meta] /\ synced'[meta] \in Nat
  BY SMTT(60), <1>6, <1>8
<1>11. RowsHold'
  BY <1>1, <1>6, <1>10, RowsStay DEF PackInv
<1>12. b \in Buffers /\ \A x \in DOMAIN e : RowHolds(e[x], b[x], packs[meta], n)
  BY <1>2, <1>3, <1>6 DEF Encoding, Encoded
<1>13. \A x \in DOMAIN e : RowHolds(e[x], b[x], packs[meta], synced'[meta])
  <2>1. CASE d
    BY <1>8, <1>12, <2>1
  <2>2. CASE ~d
    <3>1. \A x \in DOMAIN e : e[x].at = 0
      BY <1>2, <1>3, <2>2 DEF Encoding
    <3> QED BY <1>12, <3>1 DEF RowHolds
  <2> QED BY <2>1, <2>2
<1>14. Inserting(txn)'
  BY <1>1, <1>3, <1>5, <1>12, <1>13 DEF Inserting, Encoded
<1> QED BY <1>5, <1>9, <1>11, <1>14 DEF PackInv, TxnInv

(* The rows and what was intended move together.                            *)
LEMMA CommitKeeps ==
    ASSUME PackInv, NEW p \in PackOpeners, CommitPut(p)
    PROVE  PackInv'
<1>1. /\ UNCHANGED <<meta, packs, synced, linked, handle>> /\ Holds(p, "insert") /\ txn' = NoTxn
  BY DEF CommitPut
<1>2. Inserting(txn)
  BY <1>1, TurnIs
<1>3. PICK b, e : b = txn.pending /\ e = txn.encoded
  OBVIOUS
<1>4. /\ DOMAIN e = DOMAIN b /\ b \in Buffers
      /\ \A x \in DOMAIN e : RowHolds(e[x], b[x], packs[meta], synced[meta])
  BY <1>2, <1>3 DEF Inserting, Encoded
<1>5. IsFiniteSet(DOMAIN b)
  BY <1>4 DEF Buffers
<1>6. rows' = Overlay(e, rows) /\ intended' = Overlay(b, intended)
  BY <1>3 DEF CommitPut
<1>7. /\ DOMAIN rows' = DOMAIN b \cup DOMAIN rows /\ DOMAIN intended' = DOMAIN b \cup DOMAIN rows
      /\ rows' = [x \in DOMAIN rows' |-> rows'[x]]
      /\ \A x \in DOMAIN b : rows'[x] = e[x] /\ intended'[x] = b[x]
      /\ \A x \in DOMAIN rows \ DOMAIN b : rows'[x] = rows[x] /\ intended'[x] = intended[x]
  BY <1>4, <1>6 DEF Overlay, PackInv, RowsHold
<1>8. IsFiniteSet(DOMAIN rows')
  <2>1. IsFiniteSet(DOMAIN b \cup DOMAIN rows)
    BY <1>5, FS_Union DEF PackInv, RowsHold
  <2> QED BY <1>7, <2>1
<1>9. \A x \in DOMAIN rows' : RowHolds(rows'[x], intended'[x], packs[meta], synced[meta])
  BY <1>4, <1>7 DEF PackInv, RowsHold
<1>10. RowsHold'
  BY <1>1, <1>7, <1>8, <1>9 DEF RowsHold
<1>11. PackTypes' /\ TxnInv'
  BY <1>1 DEF PackInv, PackTypes, TxnInv, NoTxn
<1> QED BY <1>10, <1>11 DEF PackInv

(* A deleted key is intended no longer.                                     *)
LEMMA DeleteKeeps ==
    ASSUME PackInv, NEW p \in PackOpeners, NEW k \in Keys, DeleteKey(p, k)
    PROVE  PackInv'
<1>1. UNCHANGED <<meta, packs, synced, linked, handle, txn>> /\ txn = NoTxn
  <2>1. UNCHANGED <<meta, packs, synced, linked, handle, txn>> /\ txn.who = Closed
    BY DEF DeleteKey, Busy
  <2> QED BY <2>1, PackAssumption DEF PackInv, TxnInv
<1>2. PICK D : D = DOMAIN rows \ {k}
  OBVIOUS
<1>3. rows' = Only(rows, D) /\ intended' = Only(intended, D)
  BY <1>2 DEF DeleteKey
<1>4. /\ DOMAIN rows' = D /\ DOMAIN intended' = D /\ rows' = [x \in DOMAIN rows' |-> rows'[x]]
      /\ \A x \in D : rows'[x] = rows[x] /\ intended'[x] = intended[x]
  BY <1>2, <1>3 DEF Only, PackInv, RowsHold
<1>5. IsFiniteSet(DOMAIN rows')
  BY SMTT(60), <1>2, <1>4, FS_RemoveElement DEF PackInv, RowsHold
<1>6. \A x \in DOMAIN rows' : RowHolds(rows'[x], intended'[x], packs[meta], synced[meta])
  BY <1>2, <1>4 DEF PackInv, RowsHold
<1>7. RowsHold'
  BY <1>1, <1>4, <1>5, <1>6 DEF RowsHold
<1>8. PackTypes' /\ TxnInv'
  BY <1>1 DEF PackInv, PackTypes, TxnInv, NoTxn
<1> QED BY <1>7, <1>8 DEF PackInv

(* stage_pack_rotation copies the live payloads to the next generation and  *)
(* leaves the active one alone.                                             *)
LEMMA StageKeeps ==
    ASSUME PackInv, NEW p \in PackOpeners, StagePackRotation(p)
    PROVE  PackInv'
<1>1. /\ UNCHANGED <<rows, meta, intended>> /\ meta < MaxGeneration
      /\ handle' = [handle EXCEPT ![p] = meta] /\ linked' = linked \cup {meta + 1}
      /\ txn' = [who |-> p, step |-> "rotate"]
  BY DEF StagePackRotation
<1>2. PICK live \in Seq(Packed), n \in Nat, pack \in Seq(Contents \cup {Damaged}) :
        live = LivePayloads /\ n = Len(live) /\ pack = packs[meta] /\ DOMAIN live = 1..n
  <2>1. LivePayloads \in Seq(Packed) /\ DOMAIN LivePayloads = 1..Len(LivePayloads)
    BY AllLive DEF PackInv
  <2>2. Len(LivePayloads) \in Nat /\ packs[meta] \in Seq(Contents \cup {Damaged})
    BY SMTT(60), <2>1 DEF PackInv, PackTypes
  <2> QED BY <2>1, <2>2
<1>3. \A i \in 1..n : rows[live[i]].at \in 1..Len(pack)
  BY SMTT(60), <1>2, AllLive DEF PackInv
<1>4. PICK copy : copy = [i \in 1..n |-> pack[rows[live[i]].at]]
  OBVIOUS
<1>5. copy \in Seq(Contents \cup {Damaged}) /\ Len(copy) = n
  <2>1. \A i \in 1..n : pack[rows[live[i]].at] \in Contents \cup {Damaged}
    BY SMTT(60), <1>2, <1>3
  <2>2. copy \in [1..n -> Contents \cup {Damaged}]
    BY <1>4, <2>1
  <2> QED BY SMTT(60), <1>2, <2>2
<1>6. packs' = [packs EXCEPT ![meta + 1] = copy] /\ synced' = [synced EXCEPT ![meta + 1] = n]
  BY <1>2, <1>4 DEF StagePackRotation
<1>7. meta \in Generations /\ meta + 1 \in Generations /\ meta # meta + 1
  BY SMTT(60), <1>1, PackAssumption DEF PackInv, PackTypes, Generations
<1>8. /\ packs' \in [Generations -> Seq(Contents \cup {Damaged})]
      /\ packs'[meta] = packs[meta] /\ packs'[meta + 1] = copy
  BY <1>5, <1>6, <1>7 DEF PackInv, PackTypes
<1>9. /\ synced' \in [Generations -> Nat]
      /\ synced'[meta] = synced[meta] /\ synced'[meta + 1] = n
  BY <1>2, <1>6, <1>7 DEF PackInv, PackTypes
<1>10. PackTypes'
  <2>1. handle' \in [PackOpeners -> Generations \cup {Closed}]
    BY <1>1 DEF PackInv, PackTypes
  <2> QED BY <1>1, <1>8, <1>9, <2>1 DEF PackInv, PackTypes
<1>11. RowsHold'
  BY <1>1, <1>8, <1>9 DEF PackInv, RowsHold, RowHolds
<1>12. LivePayloads' = live
  BY <1>1, <1>2, <1>8 DEF LivePayloads, Packed
<1>13. Rotating'
  BY SMTT(60), <1>1, <1>2, <1>4, <1>5, <1>7, <1>8, <1>9, <1>12 DEF Rotating
<1>14. txn'.who = p /\ txn'.step = "rotate"
  BY <1>1
<1> QED BY <1>10, <1>11, <1>13, <1>14 DEF PackInv, TxnInv

(* commit_pack_rotation: every relocated row names the copy of its payload. *)
LEMMA RotateKeeps ==
    ASSUME PackInv, NEW p \in PackOpeners, CommitPackRotation(p)
    PROVE  PackInv'
<1>1. /\ UNCHANGED <<packs, synced, intended>> /\ meta' = meta + 1 /\ txn' = NoTxn
      /\ handle' = [handle EXCEPT ![p] = meta + 1] /\ linked' = linked \ {meta}
      /\ Holds(p, "rotate")
  BY DEF CommitPackRotation
<1>2. Rotating /\ meta \in Nat
  BY SMTT(60), <1>1, TurnIs, PackAssumption DEF PackInv, PackTypes, Generations
<1>3. PICK live \in Seq(Packed), n \in Nat :
        live = LivePayloads /\ n = Len(live) /\ DOMAIN live = 1..n /\ Range(live) = Packed
  <2>1. /\ LivePayloads \in Seq(Packed) /\ DOMAIN LivePayloads = 1..Len(LivePayloads)
        /\ Range(LivePayloads) = Packed
    BY AllLive DEF PackInv
  <2>2. Len(LivePayloads) \in Nat
    BY SMTT(60), <2>1
  <2> QED BY <2>1, <2>2
<1>4. /\ meta + 1 \in Generations /\ meta + 1 \in linked /\ Len(packs[meta + 1]) = n /\ synced[meta + 1] = n
      /\ \A i \in 1..n : packs[meta + 1][i] = packs[meta][rows[live[i]].at]
  BY <1>2, <1>3 DEF Rotating
<1>5. PackTypes'
  <2>1. handle' \in [PackOpeners -> Generations \cup {Closed}]
    BY <1>1, <1>4 DEF PackInv, PackTypes
  <2>2. meta + 1 \in linked'
    BY SMTT(60), <1>1, <1>2, <1>4
  <2>3. synced'[meta'] = n /\ Len(packs'[meta']) = n
    BY <1>1, <1>4
  <2> QED BY SMTT(60), <1>1, <1>3, <1>4, <2>1, <2>2, <2>3 DEF PackInv, PackTypes
<1>6. Packed \subseteq DOMAIN rows
  BY DEF Packed
<1>7. (DOMAIN rows \ Packed) \cup Range(live) = DOMAIN rows
  BY <1>3, <1>6
<1>8. /\ DOMAIN rows' = DOMAIN rows /\ rows' = [k \in DOMAIN rows' |-> rows'[k]]
      /\ \A k \in DOMAIN rows : rows'[k] = IF k \in Packed THEN Moved(k) ELSE rows[k]
  BY <1>3, <1>7 DEF CommitPackRotation
<1>9. ASSUME NEW k \in Packed
      PROVE  RowHolds(Moved(k), intended[k], packs[meta + 1], n)
  <2>1. \E i \in 1..n : live[i] = k
    BY <1>3 DEF Range
  <2>2. PICK i \in 1..n : i = (CHOOSE j \in 1..n : live[j] = k) /\ live[i] = k
    BY <2>1
  <2>3. Moved(k) = Locator(i)
    BY <1>3, <2>2 DEF Moved
  <2>4. Moved(k).at = i
    BY SMTT(60), <2>3 DEF Locator
  <2>5. packs[meta][rows[k].at] = intended[k]
    BY <1>9 DEF PackInv, RowsHold, RowHolds, Packed
  <2>6. packs[meta + 1][i] = intended[k]
    BY <1>4, <2>2, <2>5
  <2> QED BY SMTT(60), <2>4, <2>6 DEF RowHolds
<1>10. ASSUME NEW k \in DOMAIN rows \ Packed
       PROVE  RowHolds(rows[k], intended[k], packs[meta + 1], n)
  BY <1>10 DEF PackInv, RowsHold, RowHolds, Packed
<1>11. \A k \in DOMAIN rows' : RowHolds(rows'[k], intended[k], packs[meta + 1], n)
  BY <1>8, <1>9, <1>10
<1>12. RowsHold'
  <2>1. \A k \in DOMAIN rows' : RowHolds(rows'[k], intended'[k], packs'[meta'], synced'[meta'])
    BY <1>1, <1>4, <1>11
  <2>2. IsFiniteSet(DOMAIN rows') /\ DOMAIN intended' = DOMAIN rows'
    BY <1>1, <1>8 DEF PackInv, RowsHold
  <2> QED BY <1>8, <2>1, <2>2 DEF RowsHold
<1>13. TxnInv'
  BY <1>1 DEF TxnInv, NoTxn
<1> QED BY <1>5, <1>12, <1>13 DEF PackInv

(* A transaction that ends without a commit changes no row.                 *)
LEMMA EndKeeps ==
    ASSUME PackInv, NEW p \in PackOpeners, RollbackTxn(p) \/ EngineKilled(p)
    PROVE  PackInv'
<1>1. UNCHANGED <<rows, meta, packs, synced, linked, intended>>
  BY DEF RollbackTxn, EngineKilled
<1>2. handle' \in [PackOpeners -> Generations \cup {Closed}]
  BY DEF RollbackTxn, EngineKilled, PackInv, PackTypes
<1>3. PackTypes' /\ RowsHold'
  BY <1>1, <1>2 DEF PackInv, PackTypes, RowsHold, RowHolds
<1>4. TxnInv'
  <2>1. CASE txn' = NoTxn
    BY <2>1 DEF TxnInv, NoTxn
  <2>2. CASE txn' # NoTxn
    <3>1. txn' = txn /\ EngineKilled(p) /\ txn.who # p
      BY <2>2 DEF RollbackTxn, EngineKilled
    <3>2. txn.who \in PackOpeners
      BY <2>2, <3>1 DEF PackInv, TxnInv
    <3>3. handle'[txn.who] = handle[txn.who]
      BY <3>1, <3>2 DEF EngineKilled, PackInv, PackTypes
    <3> QED BY <1>1, <3>1, <3>3, TxnStays
  <2> QED BY <2>1, <2>2
<1> QED BY <1>3, <1>4 DEF PackInv

(* A power loss cuts the active pack back, at most to what was synced.      *)
LEMMA PowerLossKeeps ==
    ASSUME PackInv, PackPowerLoss
    PROVE  PackInv'
<1>1. /\ UNCHANGED <<rows, meta, synced, linked, intended>> /\ txn' = NoTxn
      /\ handle' = [p \in PackOpeners |-> Closed]
  BY DEF PackPowerLoss
<1>2. PICK n \in synced[meta]..Len(packs[meta]) : packs' = [packs EXCEPT ![meta] = SubSeq(packs[meta], 1, n)]
  BY DEF PackPowerLoss
<1>3. PICK m \in Nat, pack \in Seq(Contents \cup {Damaged}) :
        m = synced[meta] /\ pack = packs[meta] /\ m <= Len(pack)
  BY DEF PackInv, PackTypes
<1>4. n \in Nat /\ m <= n /\ n <= Len(pack)
  BY SMTT(60), <1>2, <1>3
<1>5. /\ SubSeq(pack, 1, n) \in Seq(Contents \cup {Damaged}) /\ Len(SubSeq(pack, 1, n)) = n
      /\ \A i \in 1..m : SubSeq(pack, 1, n)[i] = pack[i]
  BY SMTT(60), <1>4
<1>6. meta \in Generations /\ packs'[meta] = SubSeq(pack, 1, n)
  BY <1>2, <1>3 DEF PackInv, PackTypes
<1>7. PackTypes'
  <2>1. packs' \in [Generations -> Seq(Contents \cup {Damaged})]
    BY <1>2, <1>3, <1>5 DEF PackInv, PackTypes
  <2>2. handle' \in [PackOpeners -> Generations \cup {Closed}]
    BY <1>1
  <2> QED BY <1>1, <1>3, <1>4, <1>5, <1>6, <2>1, <2>2 DEF PackInv, PackTypes
<1>8. RowsHold'
  <2>1. \A i \in 1..synced[meta] : packs'[meta][i] = packs[meta][i]
    BY <1>3, <1>5, <1>6
  <2>2. synced'[meta] = synced[meta] /\ synced[meta] <= synced[meta] /\ synced[meta] \in Nat
    BY SMTT(60), <1>1, <1>3
  <2> QED BY <1>1, <2>1, <2>2, RowsStay DEF PackInv
<1>9. TxnInv'
  BY <1>1 DEF TxnInv, NoTxn
<1> QED BY <1>7, <1>8, <1>9 DEF PackInv

(* Every step of FSZero's processes keeps the payloads of the rows.         *)
LEMMA PackKeeps ==
    ASSUME PackInv, [PackNext]_packVars
    PROVE  PackInv'
<1>1. ASSUME NEW p \in PackOpeners, NEW b \in Buffers, BeginPut(p, b) PROVE PackInv'
  BY <1>1, BeginKeeps
<1>2. ASSUME NEW p \in PackOpeners, NEW k \in Keys, AppendActivePack(p, k) \/ DeleteKey(p, k)
      PROVE  PackInv'
  BY <1>2, AppendKeeps, DeleteKeeps
<1>3. ASSUME NEW p \in PackOpeners,
             \/ OpenDurableStore(p) \/ SyncPack(p) \/ CommitPut(p) \/ StagePackRotation(p)
             \/ CommitPackRotation(p) \/ RollbackTxn(p) \/ EngineKilled(p)
      PROVE  PackInv'
  BY <1>3, OpenKeeps, SyncKeeps, CommitKeeps, StageKeeps, RotateKeeps, EndKeeps
<1>4. CASE UNCHANGED packVars
  <2>1. PackTypes' /\ RowsHold'
    BY <1>4 DEF packVars, PackInv, PackTypes, RowsHold, RowHolds
  <2>2. TxnInv'
    BY <1>4, TxnStays DEF packVars
  <2> QED BY <2>1, <2>2 DEF PackInv
<1> QED BY <1>1, <1>2, <1>3, <1>4, PowerLossKeeps DEF PackNext

(* Every key of a committed put has its payload, inline or durably in the   *)
(* active pack, whatever append failed, whichever process was killed and    *)
(* wherever the power went, a compaction included; and a content key never  *)
(* yields other bytes, however old the generation a process has open.       *)
THEOREM CommittedPayloadsSurviveHolds == PackSpec => []CommittedPayloadsSurvive
<1>1. PackInit => PackInv
  <2> SUFFICES ASSUME PackInit PROVE PackInv
    OBVIOUS
  <2>1. 0 \in Generations
    BY SMTT(60), PackAssumption DEF Generations
  <2>2. packs \in [Generations -> Seq(Contents \cup {Damaged})] /\ packs[0] = << >>
    BY SMTT(60), <2>1 DEF PackInit, Generations
  <2>3. synced \in [Generations -> Nat] /\ synced[0] = 0
    BY <2>1 DEF PackInit, Generations
  <2>4. PackTypes
    BY SMTT(60), <2>1, <2>2, <2>3 DEF PackInit, PackTypes
  <2>5. DOMAIN rows = {} /\ DOMAIN intended = {} /\ rows = [k \in {} |-> rows[k]]
    BY SMTT(60) DEF PackInit
  <2>6. RowsHold
    BY <2>5, FS_EmptySet DEF RowsHold
  <2> QED BY <2>4, <2>6 DEF PackInit, PackInv, TxnInv
<1>2. PackInv /\ [PackNext]_packVars => PackInv'
  BY PackKeeps
<1>3. PackInv => CommittedPayloadsSurvive
  <2> SUFFICES ASSUME PackInv PROVE CommittedPayloadsSurvive
    OBVIOUS
  <2>1. \A p \in PackOpeners, k \in Contents \cap DOMAIN rows : GetPayload(p, k) \subseteq {k}
    BY DEF GetPayload, VerifiedBlob
  <2>2. meta \in linked /\ DOMAIN rows = DOMAIN intended
    BY DEF PackInv, PackTypes, RowsHold
  <2>3. \A k \in DOMAIN rows :
          IF rows[k].at = 0
          THEN rows[k].bytes = intended[k]
          ELSE rows[k].at =< synced[meta] /\ packs[meta][rows[k].at] = intended[k]
    BY DEF PackInv, RowsHold, RowHolds
  <2> QED BY <2>1, <2>2, <2>3 DEF CommittedPayloadsSurvive
<1> QED BY <1>1, <1>2, <1>3, PTL DEF PackSpec

=============================================================================

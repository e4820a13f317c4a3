------------------------------ MODULE BlobStore ------------------------------
(***************************************************************************)
(* FSZero's view of the shared content-addressed store: verified puts with *)
(* a validity record per blob, mark-and-sweep eviction under the slack     *)
(* guard with replication before eviction, repair from replicas, and the   *)
(* sweep of stale reachability roots.  Puts hold the GC lock shared, the sweep      *)
(* holds it exclusively; repair takes no lock.                             *)
(***************************************************************************)
EXTENDS Integers, FiniteSets, FiniteSetsExt

CONSTANTS Blobs,          \* full content hashes
          Size,           \* blob -> bytes
          Rootable,       \* blobs an engine's snapshot may list
          Replicas,       \* declared replication targets
          Putters,        \* processes that put
          MaxBlobKills,
          NoBlob

ASSUME BlobAssumption ==
    IsFiniteSet(Blobs) /\ Size \in [Blobs -> Nat]

VARIABLES resident,   \* blobs whose object file exists
          validity,   \* blob -> [size, l3cold]; l2_valid is never cleared
          held,       \* replica -> blobs it holds
          young,      \* blobs whose mtime is inside the grace window
          liveRoots,      \* blobs some engine's reachability snapshot lists
          putting,    \* writer -> blob published but not yet recorded, or NoBlob
          sweep,      \* the running GC
          mending,    \* repair: <<blob, step>> or NoBlob
          kills

blobVars == <<resident, validity, held, young, liveRoots, putting, sweep, mending, kills>>

\* The bytes of the blobs of S, each byte a blob and a position, and their number.
BytesOf(S) == UNION {{b} \X (1..Size[b]) : b \in S}

Mass(S) == Cardinality(BytesOf(S))

NoSweep == [step |-> "off"]

BlobInit ==
  /\ resident = {} /\ validity = << >>
  /\ held = [t \in Replicas |-> {}]
  /\ young = {} /\ liveRoots = {}
  /\ putting = [w \in Putters |-> NoBlob]
  /\ sweep = NoSweep /\ mending = NoBlob /\ kills = 0

\* ValidityLedger.publish and mark_l3_cold: one atomically replaced file each.
Record(b, cold) == [c \in DOMAIN validity \cup {b} |->
                      IF c = b THEN [size |-> Size[b], l3cold |-> cold] ELSE validity[c]]

-----------------------------------------------------------------------------
\* put_prehashed: publish the object, then its validity record

PutObject(w, b) ==
  /\ putting[w] = NoBlob
  /\ sweep = NoSweep
  /\ resident' = resident \cup {b}
  /\ young' = young \cup {b}
  /\ putting' = [putting EXCEPT ![w] = b]
  /\ UNCHANGED <<validity, held, liveRoots, sweep, mending, kills>>

PublishValidity(w) ==
  /\ putting[w] # NoBlob
  /\ validity' = Record(putting[w], FALSE)
  /\ putting' = [putting EXCEPT ![w] = NoBlob]
  /\ UNCHANGED <<resident, held, young, liveRoots, sweep, mending, kills>>

\* get refreshes the mtime of what it serves
BlobGet(b) ==
  /\ b \in resident
  /\ young' = young \cup {b}
  /\ UNCHANGED <<resident, validity, held, liveRoots, putting, sweep, mending, kills>>

Ages(b) ==
  /\ b \in young
  /\ young' = young \ {b}
  /\ UNCHANGED <<resident, validity, held, liveRoots, putting, sweep, mending, kills>>

PublishGcRoots(S) ==
  /\ liveRoots' = S
  /\ UNCHANGED <<resident, validity, held, young, putting, sweep, mending, kills>>

-----------------------------------------------------------------------------
\* gc_with_demand

MeasureDemanded(live) == Mass(live \cap (resident \cup DOMAIN validity))

Floor(demanded) == (demanded * 99) \div 100

GcBegin ==
  /\ sweep = NoSweep
  /\ \A w \in Putters : putting[w] = NoBlob
  /\ sweep' = [step |-> "scan", live |-> liveRoots, todo |-> resident, resident |-> Mass(resident),
               floor |-> Floor(MeasureDemanded(liveRoots)), evicted |-> 0, blob |-> NoBlob]
  /\ UNCHANGED <<resident, validity, held, young, liveRoots, putting, mending, kills>>

GuardOneByOne(b) == sweep.resident - Size[b] >= sweep.floor

\* The evictions of one run count together.
GuardEviction(b) == sweep.resident - (sweep.evicted + Size[b]) >= sweep.floor

Retained(b) == b \in sweep.live \/ b \in young \/ ~GuardEviction(b)

Passed(b) ==
  /\ sweep.step = "scan"
  /\ b \in sweep.todo
  /\ Retained(b)
  /\ sweep' = [sweep EXCEPT !.todo = @ \ {b}]
  /\ UNCHANGED <<resident, validity, held, young, liveRoots, putting, mending, kills>>

\* Every declared target must hold the bytes; a target that cannot receive
\* them keeps the blob here, and the targets before it keep what they got.
ReplicateBeforeEvict(b) ==
  /\ sweep.step = "scan"
  /\ b \in sweep.todo
  /\ ~Retained(b)
  /\ \E reached \in SUBSET Replicas :
       /\ held' = [t \in Replicas |-> IF t \in reached THEN held[t] \cup {b} ELSE held[t]]
       /\ sweep' = [sweep EXCEPT !.todo = @ \ {b}, !.blob = b,
                      !.step = IF \A t \in Replicas : b \in held'[t] THEN "mark" ELSE "scan"]
  /\ UNCHANGED <<resident, validity, young, liveRoots, putting, mending, kills>>

MarkCold ==
  /\ sweep.step = "mark"
  /\ validity' = Record(sweep.blob, TRUE)
  /\ sweep' = [sweep EXCEPT !.step = "remove"]
  /\ UNCHANGED <<resident, held, young, liveRoots, putting, mending, kills>>

RemoveObject ==
  /\ sweep.step = "remove"
  /\ \/ /\ resident' = resident \ {sweep.blob}
        /\ sweep' = [sweep EXCEPT !.step = "scan", !.evicted = @ + Size[sweep.blob]]
     \/ /\ sweep' = [sweep EXCEPT !.step = "scan"]
        /\ UNCHANGED resident
  /\ UNCHANGED <<validity, held, young, liveRoots, putting, mending, kills>>

\* The run ends with the stale liveRoots: a snapshot none of whose blobs is here.
GcEnd ==
  /\ sweep.step = "scan"
  /\ sweep.todo = {}
  /\ liveRoots' \in {liveRoots} \cup (IF liveRoots \cap resident = {} THEN {{}} ELSE {})
  /\ sweep' = NoSweep
  /\ UNCHANGED <<resident, validity, held, young, putting, mending, kills>>

-----------------------------------------------------------------------------
\* repair_from_replicas, outside the GC lock

RepairFetch(b) ==
  /\ mending = NoBlob
  /\ \E t \in Replicas : b \in held[t]
  /\ resident' = resident \cup {b}
  /\ young' = young \cup {b}
  /\ mending' = b
  /\ UNCHANGED <<validity, held, liveRoots, putting, sweep, kills>>

RepairPublish ==
  /\ mending # NoBlob
  /\ validity' = Record(mending, FALSE)
  /\ mending' = NoBlob
  /\ UNCHANGED <<resident, held, young, liveRoots, putting, sweep, kills>>

BlobKill ==
  /\ kills < MaxBlobKills
  /\ kills' = kills + 1
  /\ putting' = [w \in Putters |-> NoBlob]
  /\ sweep' = NoSweep /\ mending' = NoBlob
  /\ UNCHANGED <<resident, validity, held, young, liveRoots>>

BlobNext ==
  \/ \E w \in Putters : PublishValidity(w) \/ \E b \in Blobs : PutObject(w, b)
  \/ \E b \in Blobs : BlobGet(b) \/ Ages(b) \/ Passed(b) \/ ReplicateBeforeEvict(b) \/ RepairFetch(b)
  \/ \E S \in SUBSET Rootable : PublishGcRoots(S)
  \/ GcBegin \/ MarkCold \/ RemoveObject \/ GcEnd \/ RepairPublish \/ BlobKill

BlobSpec == BlobInit /\ [][BlobNext]_blobVars

-----------------------------------------------------------------------------
\* Eviction never destroys identity or the last copy: a blob with a validity
\* record is resident, or every declared replica holds it, through crashes,
\* failed replicas and a repair that runs beside the sweep.
EvictedBlobsAreElsewhere ==
  \A b \in DOMAIN validity : b \in resident \/ \A t \in Replicas : b \in held[t]

\* The evictions of one run leave at least 99% of the demanded mass, although
\* each of them is legal alone and liveRoots and puts change meanwhile.
SlackFloorHolds ==
  sweep # NoSweep => Mass(resident) >= Min({sweep.floor, sweep.resident})

\* Eviction is safe: no last copy goes, and no more than the slack allows.
EvictionIsSafe == EvictedBlobsAreElsewhere /\ SlackFloorHolds

\* "L3-cold: bytes are gone from the local CAS": a blob that is gone says so.
GoneIsCold ==
  \A b \in DOMAIN validity \ resident : validity[b].l3cold
=============================================================================

--------------------------------- MODULE Gc ---------------------------------
(***************************************************************************)
(* The shared content-addressed store and its collector: the sha256 tree   *)
(* of zero-store/src/cas.rs, the root, pin and lease records and the sweep *)
(* of gc.rs, the scrub of scrub.rs, the legacy root publisher of           *)
(* graphzero-store gc_roots.rs and the measured collection of zero-gate    *)
(* real_gc.rs.  A call that holds the exclusive coordinator lock over      *)
(* several durable writes is stepped through `gcall`, so the process can   *)
(* die between any two of them; a call with one durable write is one       *)
(* action.  An object is named by its digest, a natural number: a sweep    *)
(* visits its plan in digest order.                                        *)
(***************************************************************************)
EXTENDS Naturals, FiniteSets, FiniteSetsExt, Functions

CONSTANTS Hashes,      \* digests of the objects that may be stored
          Children,    \* Children[h]: digests embedded in h, nested ones included
          Producers,   \* engines that publish reachability snapshots
          Ops,         \* lease operation ids
          Pinnable,    \* digests a pin may name
          Leasable,    \* digests a lease may name
          MaxEpoch,    \* bound on snapshot and lease epochs
          MaxGcFaults  \* bound on decayed objects and deaths inside a locked call

ASSUME HashesAreNaturals == Hashes \subseteq Nat
ASSUME LeasesNameHashes == Leasable \subseteq Hashes
ASSUME ChildrenNested ==
  \A h \in Hashes : \A c \in Children[h] : Children[c] \subseteq Children[h]

VARIABLES objects,    \* published objects: digest -> "good" or "bad" bytes
          aged,       \* digests whose modification time is past the minimum age
          quarantine, \* bodies moved to gc/quarantine: digest -> how many
          roots,      \* gc/roots: producer -> current.json
          pins,       \* gc/pins: digest -> "live" or "expired"
          leases,     \* gc/leases: operation -> lease record
          progress,   \* gc/reports/<run>.progress.json, as a set of at most one
          gcall,      \* the call that holds the exclusive lock
          closed,     \* the engines' lifecycle is closed
          driver,     \* the measured collection under way
          rot, gcrashes

gcStore == <<objects, aged, quarantine>>
gcRecords == <<roots, pins, leases>>
gcVars == <<objects, aged, quarantine, roots, pins, leases, progress, gcall,
            closed, driver, rot, gcrashes>>

NoCall == [op |-> "none"]
NoDriver == [step |-> "idle", named |-> {}, planned |-> {}, deleted |-> {}]
EmptyMap == [x \in {} |-> 0]

Snapshot == [epoch : 1..MaxEpoch, hashes : SUBSET Hashes, schema : {"current", "legacy"}]
Lease == [epoch : 1..MaxEpoch, hash : Hashes, state : {"active", "grace", "stale"}]

Without(f, x) == Restrict(f, DOMAIN f \ {x})
With(f, x, v) == [y \in DOMAIN f \cup {x} |-> IF y = x THEN v ELSE f[y]]

Unlocked == gcall.op = "none"
Good == {h \in DOMAIN objects : objects[h] = "good"}
Bad == DOMAIN objects \ Good

GcInit ==
  /\ objects = EmptyMap /\ aged = {} /\ quarantine = EmptyMap
  /\ roots = EmptyMap /\ pins = EmptyMap /\ leases = EmptyMap
  /\ progress = {} /\ gcall = NoCall
  /\ closed = FALSE /\ driver = NoDriver
  /\ rot = 0 /\ gcrashes = 0

----------------------------------------------------------------------------
(* Objects *)

\* A publish at the canonical path: bytes already there are verified and
\* touched, never overwritten; corrupt bytes there fail the put.
Stored(h) ==
  /\ h \notin Bad
  /\ objects' = With(objects, h, "good")
  /\ aged' = aged \ {h}

\* SharedCas::put under the shared lock.
Put(h) ==
  /\ Unlocked /\ ~closed
  /\ Stored(h)
  /\ UNCHANGED <<quarantine, gcRecords, progress, gcall, closed, driver, rot, gcrashes>>

\* quarantine_object: a body whose digest does not match moves to the next
\* unused .corrupt-n name.
Quarantined(hs) ==
  /\ objects' = Restrict(objects, DOMAIN objects \ hs)
  /\ quarantine' = [h \in DOMAIN quarantine \cup hs |->
                      (IF h \in DOMAIN quarantine THEN quarantine[h] ELSE 0)
                        + (IF h \in hs THEN 1 ELSE 0)]

\* The medium loses an object's bytes.
Rot(h) ==
  /\ rot + gcrashes < MaxGcFaults /\ h \in Good
  /\ objects' = [objects EXCEPT ![h] = "bad"]
  /\ rot' = rot + 1
  /\ UNCHANGED <<aged, quarantine, gcRecords, progress, gcall, closed, driver, gcrashes>>

\* Time passes for one object: its age reaches min_age_seconds.
Age(h) ==
  /\ h \in DOMAIN objects \ aged
  /\ aged' = aged \cup {h}
  /\ UNCHANGED <<objects, quarantine, gcRecords, progress, gcall, closed, driver, rot, gcrashes>>

\* run_scrub: one pass under the exclusive lock; idle_only skips young objects.
Scrub(idle_only) ==
  LET found == IF idle_only THEN Bad \cap aged ELSE Bad
  IN  /\ Unlocked /\ found # {}
      /\ Quarantined(found)
      /\ UNCHANGED <<aged, gcRecords, progress, gcall, closed, driver, rot, gcrashes>>

\* repair_object: sound bytes need nothing, missing bytes are put back, and
\* corrupt bytes are quarantined before the put that follows.
RepairStart(h) ==
  /\ Unlocked /\ h \notin Good
  /\ IF h \in Bad THEN Quarantined({h}) ELSE UNCHANGED <<objects, quarantine>>
  /\ gcall' = [op |-> "repair", hash |-> h]
  /\ UNCHANGED <<aged, gcRecords, progress, closed, driver, rot, gcrashes>>

RepairPut ==
  /\ gcall.op = "repair"
  /\ Stored(gcall.hash)
  /\ gcall' = NoCall
  /\ UNCHANGED <<quarantine, gcRecords, progress, closed, driver, rot, gcrashes>>

----------------------------------------------------------------------------
(* Roots, pins and leases *)

\* publish_reachability_snapshot: the epoch must exceed the current record's,
\* and a current record that does not validate fails the call.
PublishRoots(p, e, hs) ==
  /\ Unlocked /\ ~closed
  /\ p \in DOMAIN roots => roots[p].schema = "current" /\ e > roots[p].epoch
  /\ roots' = With(roots, p, [epoch |-> e, hashes |-> hs, schema |-> "current"])
  /\ UNCHANGED <<gcStore, pins, leases, progress, gcall, closed, driver, rot, gcrashes>>

\* GraphZero's publish_live_roots: a record of the legacy schema naming every
\* object it lists, under the namespace lock and not the coordinator lock.
PublishLiveRoots(p) ==
  LET e == IF p \in DOMAIN roots THEN roots[p].epoch + 1 ELSE 1
  IN  /\ e <= MaxEpoch /\ ~closed
      /\ roots' = With(roots, p, [epoch |-> e, hashes |-> DOMAIN objects, schema |-> "legacy"])
      /\ UNCHANGED <<gcStore, pins, leases, progress, gcall, closed, driver, rot, gcrashes>>

PublishPin(h) ==
  /\ Unlocked /\ ~closed
  /\ pins' = With(pins, h, "live")
  /\ UNCHANGED <<gcStore, roots, leases, progress, gcall, closed, driver, rot, gcrashes>>

RemovePin(h) ==
  /\ Unlocked /\ h \in DOMAIN pins
  /\ pins' = Without(pins, h)
  /\ UNCHANGED <<gcStore, roots, leases, progress, gcall, closed, driver, rot, gcrashes>>

PinExpires(h) ==
  /\ h \in DOMAIN pins /\ pins[h] = "live"
  /\ pins' = [pins EXCEPT ![h] = "expired"]
  /\ UNCHANGED <<gcStore, roots, leases, progress, gcall, closed, driver, rot, gcrashes>>

\* put_leased: the lease is durable before the object it protects.
PutLeased(o, e, h) ==
  /\ Unlocked /\ ~closed
  /\ o \in DOMAIN leases => e > leases[o].epoch
  /\ leases' = With(leases, o, [epoch |-> e, hash |-> h, state |-> "active"])
  /\ gcall' = [op |-> "lease", hash |-> h]
  /\ UNCHANGED <<gcStore, roots, pins, progress, closed, driver, rot, gcrashes>>

\* The put of a leased publish; corrupt bytes at the path fail it.
PutLeasedObject ==
  /\ gcall.op = "lease"
  /\ \/ Stored(gcall.hash)
     \/ gcall.hash \in Bad /\ UNCHANGED <<objects, aged>>
  /\ gcall' = NoCall
  /\ UNCHANGED <<quarantine, gcRecords, progress, closed, driver, rot, gcrashes>>

RemoveLease(o) ==
  /\ Unlocked /\ o \in DOMAIN leases
  /\ leases' = Without(leases, o)
  /\ UNCHANGED <<gcStore, roots, pins, progress, gcall, closed, driver, rot, gcrashes>>

\* A lease passes its expiry, then the end of its grace.
LeaseAges(o) ==
  /\ o \in DOMAIN leases /\ leases[o].state # "stale"
  /\ leases' = [leases EXCEPT ![o].state = IF @ = "active" THEN "grace" ELSE "stale"]
  /\ UNCHANGED <<gcStore, roots, pins, progress, gcall, closed, driver, rot, gcrashes>>

----------------------------------------------------------------------------
(* The mark *)

\* load_reachability_roots, load_all_pins and apply_lease_liveness: what the
\* records name.  Every lease marks its object, however stale.
Seeds ==
  (UNION {roots[p].hashes : p \in {q \in DOMAIN roots : roots[q].schema = "current"}})
    \cup {h \in DOMAIN pins : pins[h] = "live"}
    \cup {leases[o].hash : o \in DOMAIN leases}

\* trace_refs: each seed is read and verified, and its embedded digests marked.
Live == Seeds \cup UNION {Children[h] : h \in Seeds \cap Good}

\* Missing or unreadable evidence makes the whole mark uncertain: no root
\* record, a root of another schema, a lease beyond its grace, an absent or
\* corrupt seed.
Uncertain ==
  \/ roots = EmptyMap
  \/ \E p \in DOMAIN roots : roots[p].schema # "current"
  \/ \E o \in DOMAIN leases : leases[o].state = "stale"
  \/ ~(Seeds \subseteq Good)

\* build_dry_run_report: the objects whose verdict is collect.
Collectable == IF Uncertain THEN {} ELSE (DOMAIN objects \ Live) \cap aged

----------------------------------------------------------------------------
(* The sweep *)

\* What a resumed run still counts as deleted: recorded and still absent.
DeletedBefore(prior) == {h \in prior.deleted : h \notin DOMAIN objects}

\* run_gc with apply: the plan of an interrupted run is taken up only if what
\* remains of it is exactly what the mark would collect now.
SweepStart(id) ==
  /\ Unlocked
  /\ LET prior == {r \in progress : r.id = id}
         plan == IF prior = {} THEN Collectable ELSE (CHOOSE r \in prior : TRUE).plan
         done == UNION {DeletedBefore(r) : r \in prior}
         record == [id |-> id, plan |-> plan, deleted |-> done]
     IN  /\ plan \ done = Collectable
         /\ progress' = (progress \ prior) \cup {record}
         /\ gcall' = [op |-> "sweep", id |-> id, plan |-> plan, deleted |-> done,
                      todo |-> plan \ done, unsaved |-> FALSE]
  /\ UNCHANGED <<gcStore, gcRecords, closed, driver, rot, gcrashes>>

Sweeping == gcall.op = "sweep" /\ ~gcall.unsaved

\* A plausible slip: the plan is trusted and the mark not taken again.
SweepPlanned ==
  /\ Sweeping /\ gcall.todo # {}
  /\ LET h == Min(gcall.todo)
     IN  /\ objects' = Without(objects, h)
         /\ aged' = aged \ {h}
         /\ gcall' = [gcall EXCEPT !.todo = @ \ {h}, !.deleted = @ \cup {h}, !.unsaved = TRUE]
  /\ UNCHANGED <<quarantine, gcRecords, progress, closed, driver, rot, gcrashes>>

\* One object of the plan: the mark is taken again, and an object it now
\* covers, or any uncertainty, is passed over.
SweepObject ==
  /\ Sweeping /\ gcall.todo # {}
  /\ LET h == Min(gcall.todo)
     IN  IF h \in Live \/ Uncertain
         THEN /\ gcall' = [gcall EXCEPT !.todo = @ \ {h}]
              /\ UNCHANGED <<objects, aged>>
         ELSE /\ objects' = Without(objects, h)
              /\ aged' = aged \ {h}
              /\ gcall' = [gcall EXCEPT !.todo = @ \ {h}, !.deleted = @ \cup {h},
                                        !.unsaved = TRUE]
  /\ UNCHANGED <<quarantine, gcRecords, progress, closed, driver, rot, gcrashes>>

\* persist: the progress record follows each unlink.
SweepPersist ==
  /\ gcall.op = "sweep" /\ gcall.unsaved
  /\ gcall' = [gcall EXCEPT !.unsaved = FALSE]
  /\ progress' = {IF r.id = gcall.id THEN [r EXCEPT !.deleted = gcall.deleted] ELSE r :
                    r \in progress}
  /\ UNCHANGED <<gcStore, gcRecords, closed, driver, rot, gcrashes>>

\* The final report is written and the progress record removed.
SweepFinish ==
  /\ Sweeping /\ gcall.todo = {}
  /\ progress' = {r \in progress : r.id # gcall.id}
  /\ gcall' = NoCall
  /\ driver' = IF driver.step = "apply" /\ gcall.id = "measured"
               THEN [driver EXCEPT !.step = "applied", !.deleted = gcall.deleted]
               ELSE driver
  /\ UNCHANGED <<gcStore, gcRecords, closed, rot, gcrashes>>

\* The process that holds the lock dies; the kernel releases the lock.
CallCrashes ==
  /\ ~Unlocked /\ rot + gcrashes < MaxGcFaults
  /\ gcall' = NoCall
  /\ driver' = IF gcall.op = "sweep" /\ gcall.id = "measured" THEN NoDriver ELSE driver
  /\ gcrashes' = gcrashes + 1
  /\ UNCHANGED <<gcStore, gcRecords, progress, closed, rot>>

----------------------------------------------------------------------------
(* Measured collection, zero-gate real_gc.rs *)

\* The engines' caller declares the lifecycle closed: they publish no more.
CloseLifecycle ==
  /\ ~closed /\ Unlocked
  /\ closed' = TRUE
  /\ UNCHANGED <<gcStore, gcRecords, progress, gcall, driver, rot, gcrashes>>

\* A plausible slip: the lifecycle need not be closed.
VerifyWhileOpen ==
  /\ driver.step = "idle"
  /\ \A p \in Producers :
       /\ p \in DOMAIN roots /\ roots[p].schema = "current"
       /\ roots[p].hashes # {} /\ roots[p].hashes \subseteq Good
  /\ driver' = [NoDriver EXCEPT !.step = "measure",
                                !.named = UNION {roots[p].hashes : p \in Producers}]
  /\ UNCHANGED <<gcStore, gcRecords, progress, gcall, closed, rot, gcrashes>>

\* verify_producer_snapshots: every engine has a valid, nonempty snapshot and
\* each root it names verifies.
DriverVerify ==
  /\ closed /\ driver.step = "idle"
  /\ \A p \in Producers :
       /\ p \in DOMAIN roots /\ roots[p].schema = "current"
       /\ roots[p].hashes # {} /\ roots[p].hashes \subseteq Good
  /\ driver' = [NoDriver EXCEPT !.step = "measure",
                                !.named = UNION {roots[p].hashes : p \in Producers}]
  /\ UNCHANGED <<gcStore, gcRecords, progress, gcall, closed, rot, gcrashes>>

\* The dry run, then a verified read of each object it would collect.
DriverMeasure ==
  /\ Unlocked /\ driver.step = "measure"
  /\ driver' = IF Collectable \subseteq Good
               THEN [driver EXCEPT !.step = "apply", !.planned = Collectable]
               ELSE NoDriver
  /\ UNCHANGED <<gcStore, gcRecords, progress, gcall, closed, rot, gcrashes>>

\* verify_freed_bytes: every deleted object was measured and is gone.
DriverEnd ==
  /\ driver.step = "applied"
  /\ driver' = IF /\ driver.deleted \subseteq driver.planned
                  /\ driver.deleted \cap DOMAIN objects = {}
               THEN [driver EXCEPT !.step = "outcome"]
               ELSE NoDriver
  /\ UNCHANGED <<gcStore, gcRecords, progress, gcall, closed, rot, gcrashes>>

\* The driver's own sweep runs under its id; any other caller uses another.
SweepIds == {"run"} \cup (IF driver.step = "apply" THEN {"measured"} ELSE {})

GcNext ==
  \/ \E h \in Hashes : \/ Put(h) \/ Rot(h) \/ Age(h) \/ RepairStart(h)
  \/ \E h \in Pinnable : PublishPin(h) \/ RemovePin(h) \/ PinExpires(h)
  \/ \E idle_only \in BOOLEAN : Scrub(idle_only)
  \/ RepairPut
  \/ \E p \in Producers : \/ PublishLiveRoots(p)
                          \/ \E e \in 1..MaxEpoch, hs \in SUBSET Hashes : PublishRoots(p, e, hs)
  \/ \E o \in Ops : \/ RemoveLease(o) \/ LeaseAges(o)
                    \/ \E e \in 1..MaxEpoch, h \in Leasable : PutLeased(o, e, h)
  \/ PutLeasedObject
  \/ \E id \in SweepIds : SweepStart(id)
  \/ SweepObject \/ SweepPersist \/ SweepFinish \/ CallCrashes
  \/ CloseLifecycle \/ DriverVerify \/ DriverMeasure \/ DriverEnd

GcSpec == GcInit /\ [][GcNext]_gcVars

----------------------------------------------------------------------------
(* What a record covers, stated without the mark: the object it names, and *)
(* every object embedded in it while its bytes are sound.                  *)
Covered(h) ==
  \E s \in Hashes :
    /\ \/ \E p \in DOMAIN roots : s \in roots[p].hashes
       \/ s \in DOMAIN pins /\ pins[s] = "live"
       \/ \E o \in DOMAIN leases : leases[o].hash = s
    /\ h = s \/ (h \in Children[s] /\ s \in Good)

(* gc.rs, "collector_lock": "exclusive-through-recheck-and-mutation": no   *)
(* step takes a sound object out of the store while a root, a live pin or  *)
(* a lease, however old, covers it, whatever crashed or aged before.       *)
CoveredObjectsStay ==
  [][\A h \in Good : h \notin DOMAIN objects' => ~Covered(h)]_gcVars

(* zero-gate real_gc.rs: the evidence of a measured collection never names *)
(* as deleted an object that a producer snapshot it verified still roots,  *)
(* and everything it deleted had been measured.                            *)
EvidenceIsSound ==
  driver.step = "outcome" =>
    /\ driver.deleted \cap driver.named = {}
    /\ driver.deleted \subseteq driver.planned
=============================================================================

------------------------------ MODULE Reserve ------------------------------
(***************************************************************************)
(* Intent reservations (graphzero-reserve: service.rs, ledger.rs, schema.rs *)
(* and footprint.rs) on top of GraphStore: the ledger is the reservation    *)
(* entries of the same delta log that edges are published to and that       *)
(* indexing and compaction sweep.                                           *)
(*                                                                          *)
(* An agent has one intent, so its reservation id is the agent.  A call     *)
(* reads the footprint and the clock first, and only then takes the ledger's *)
(* locks and the store's writer lock for its one read-modify-write step.    *)
(***************************************************************************)
EXTENDS GraphStore, Sequences, SequencesExt

CONSTANTS Agents, RecordIds,
          Contract(_),   \* an agent's intent -> the nodes its reverse calls reach
          Ttl, MaxClock

VARIABLES clock,
          rcall,     \* agent -> its call: what it asked for and the clock it read
          payload,   \* record id -> the reservation record appended under it
          holds      \* agent -> the end of the hold it was told of, 0 for none

reserveVars == <<clock, rcall, payload, holds>>

IntentReservation(a, s, now) ==
    [reservation_id |-> a, status |-> s, expires_at |-> now + Ttl, contract_nodes |-> Contract(a)]

\* ReservationLedger::open replays every segment, folded or not, in id order.
Records ==
    LET ids == SetToSortSeq({i \in Written : segments[i].edge \in DOMAIN payload}, <) IN
    [k \in DOMAIN ids |-> payload[segments[ids[k]].edge]]

\* materialized: the last record of each reservation, expired when its time is up.
Tips(now) ==
    {LET r == Records[k] IN
        IF r.status \in {"Active", "Declared"} /\ r.expires_at <= now
        THEN [r EXCEPT !.status = "Expired"] ELSE r :
     k \in {k \in DOMAIN Records : \A j \in DOMAIN Records :
               j > k => Records[j].reservation_id # Records[k].reservation_id}}

Blocking(a, now) ==
    {r \in Tips(now) : /\ r.status \in {"Active", "Declared"} /\ r.reservation_id # a
                       /\ r.contract_nodes \cap Contract(a) # {}}

\* ledger.append: one segment with one entry, committed under the held lock.
Append1(r) ==
    LET id == CHOOSE i \in RecordIds \ DOMAIN payload : TRUE IN
    /\ DOMAIN payload # RecordIds
    /\ payload' = (id :> r) @@ payload
    /\ segments' = (NextSegmentId :> [edge |-> id, prev |-> LastCrc]) @@ segments

Quiet == [op |-> "none"]
Ends(a) == rcall' = [rcall EXCEPT ![a] = Quiet]
Locked(a, op) ==
    /\ rcall[a].op = op /\ glock = Nobody /\ SegmentsChain
    /\ UNCHANGED <<clock, manifest, shards, branches, signature, cited, tree, head, glock, gwork,
                   gkills, pending>>

-----------------------------------------------------------------------------
\* now_ts and the footprint, read before any lock.
Ask(a, op) ==
    /\ rcall[a] = Quiet
    /\ rcall' = [rcall EXCEPT ![a] = [op |-> op, now |-> clock]]
    /\ UNCHANGED <<graphVars, clock, payload, holds>>

\* declare: an id already in the ledger whose first record is Active or Declared
\* is renewed from that record, any other is declared anew.
Declare(a) ==
    LET mine == {k \in DOMAIN Records : Records[k].reservation_id = a}
        old == Records[Min(mine)]
        now == rcall[a].now
    IN
    /\ Locked(a, "declare")
    /\ IF mine # {} /\ old.status \in {"Active", "Declared"}
       THEN Append1([old EXCEPT !.expires_at = now + Ttl])
       ELSE Append1(IntentReservation(a, "Declared", now))
    /\ Ends(a) /\ UNCHANGED holds

\* check_with_ttl with acquire: a conflict, or partial tier-A coverage, answers
\* without a record; a clear footprint is acquired under the same lock.
CheckRefused(a) ==
    /\ Locked(a, "acquire")
    /\ Ends(a) /\ UNCHANGED <<segments, payload, holds>>

Acquire(a) ==
    LET now == rcall[a].now IN
    /\ Locked(a, "acquire")
    /\ Blocking(a, now) = {}
    /\ Append1(IntentReservation(a, "Active", now))
    /\ holds' = [holds EXCEPT ![a] = now + Ttl]
    /\ Ends(a)

\* release: the reservation's last record, expired or not, appended as Released.
Release(a) ==
    LET tip == {r \in Tips(rcall[a].now) : r.reservation_id = a} IN
    /\ Locked(a, "release")
    /\ IF tip = {} THEN UNCHANGED <<segments, payload>>
       ELSE Append1([CHOOSE r \in tip : TRUE EXCEPT !.status = "Released"])
    /\ holds' = [holds EXCEPT ![a] = 0]
    /\ Ends(a)

Tick ==
    /\ clock < MaxClock
    /\ clock' = clock + 1
    /\ UNCHANGED <<graphVars, rcall, payload, holds>>

ReserveInit ==
    /\ GraphInit
    /\ clock = 0 /\ rcall = [a \in Agents |-> Quiet] /\ payload = [i \in {} |-> Quiet]
    /\ holds = [a \in Agents |-> 0]

ReserveNext ==
    \/ Tick
    \/ GraphNext /\ UNCHANGED reserveVars
    \/ \E a \in Agents :
          \/ \E op \in {"declare", "acquire", "release"} : Ask(a, op)
          \/ Declare(a) \/ CheckRefused(a) \/ Acquire(a) \/ Release(a)

ReserveSpec == ReserveInit /\ [][ReserveNext]_<<graphVars, reserveVars>>

-----------------------------------------------------------------------------
\* "its conflict check and append are one cross-process read-modify-write
\* transaction" (ledger.rs:28): two agents that were told their footprints are
\* acquired, and whose time is not up, never overlap.
HoldersExclude ==
    \A a, b \in Agents :
        a # b /\ holds[a] > clock /\ holds[b] > clock => Contract(a) \cap Contract(b) = {}
=============================================================================

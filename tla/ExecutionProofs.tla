-------------------------- MODULE ExecutionProofs --------------------------
(***************************************************************************)
(* Executions ahead of their turn and executions under the gate.  An       *)
(* admission of the speculation runtime is settled once, whatever claims,  *)
(* timeouts, workers and ends of turn interleave.  A final receipt of the  *)
(* two-phase kernel is earned, whichever receipts, permits and acceptances *)
(* are offered to an execution, for any requests, transactions and bounds. *)
(***************************************************************************)
EXTENDS Speculation, TwoPhase, FiniteSetTheorems, TLAPS

(* A leaf is for Zenon unless it names SMT. *)
USE ZenonT(60)

-----------------------------------------------------------------------------
(* The speculation runtime.                                                 *)

Entry == [permit : Permits, state : {"pending", "running", "ready", "failed", "claimed", "cancelled"},
          result : {"none", "value", "error"}, cancelled : BOOLEAN,
          worker : {"spawned", "working", "leaving", "gone"}]

EntryCall == [in : {"register", "claim"}, entry : Nat]

TurnCall == [in : {"cancel", "join"}, left : SUBSET Nat, registered : SUBSET Nat]

ClearCall == [in : {"clear"}, registered : SUBSET Nat]

SpecTypeOK ==
    /\ entry \in Seq(Entry) /\ given \in Seq(Nat)
    /\ workers \subseteq DOMAIN entry /\ \A k \in DOMAIN table : table[k] \in DOMAIN entry
    /\ inflight \in Nat /\ ledger \in SpeculationLedger
    /\ thread \in [Threads -> {NotCalling} \cup EntryCall \cup TurnCall \cup ClearCall]
    /\ \A t \in Threads :
         /\ thread[t].in \in {"register", "claim"} => thread[t].entry \in DOMAIN entry
         /\ thread[t].in \in {"cancel", "join"} => thread[t].left \subseteq DOMAIN entry
         /\ thread[t].in \in {"cancel", "join", "clear"} => thread[t].registered \subseteq DOMAIN entry

\* The worker's step goes with the entry's state.
InStep(r) ==
    /\ r.worker = "spawned" => r.state = "pending"
    /\ r.worker = "working" => r.state = "running"
    /\ r.worker \in {"leaving", "gone"} => r.state \notin {"pending", "running"}

Settled == {e \in DOMAIN entry : entry[e].state \in {"claimed", "cancelled", "failed"}}

AtWork == {e \in DOMAIN entry : entry[e].worker # "gone"}

\* Worker e is gone, or some thread is joining it.
Joined(e) ==
    entry[e].worker = "gone" \/ \E u \in Threads : thread[u].in = "join" /\ e \in thread[u].left

\* What makes an admission settle once.  A result that was given belongs to a
\* claimed entry and was given once; the ledger counts the settled entries and
\* inflight the workers; and every worker an end of turn has seen is still in
\* the list, being joined, or gone.
SettleInv ==
    /\ \A e \in DOMAIN entry : InStep(entry[e])
    /\ \A i \in 1..Len(given) : given[i] \in DOMAIN entry /\ entry[given[i]].state = "claimed"
    /\ \A i, j \in 1..Len(given) : given[i] = given[j] => i = j
    /\ ledger.dispatched = Len(entry)
    /\ IsFiniteSet(Settled) /\ ledger.hits + ledger.cancelled + ledger.failed = Cardinality(Settled)
    /\ IsFiniteSet(AtWork) /\ inflight = Cardinality(AtWork) /\ inflight <= Limit
    /\ \A t \in Threads :
         /\ thread[t].in = "cancel" => \A e \in thread[t].registered : e \in workers \/ Joined(e)
         /\ thread[t].in \in {"join", "clear"} => \A e \in thread[t].registered : Joined(e)

SpecInv == SpecTypeOK /\ SettleInv

\* The entry e becomes r and no other entry changes.
EntryBecomes(e, r) ==
    /\ entry' \in Seq(Entry) /\ Len(entry') = Len(entry) /\ DOMAIN entry' = DOMAIN entry
    /\ entry'[e] = r /\ \A x \in DOMAIN entry : x # e => entry'[x] = entry[x]

\* Writing one entry under its lock changes no other (speculation.rs, Entry).
LEMMA EntryWritten ==
  ASSUME entry \in Seq(Entry), NEW e \in DOMAIN entry, NEW r \in Entry,
         entry' = [entry EXCEPT ![e] = r]
  PROVE  EntryBecomes(e, r)
BY SMTT(60) DEF EntryBecomes

\* The calls are told apart by the procedure they are in.
LEMMA CallsDiffer ==
  /\ NotCalling.in = "nothing"
  /\ \A c \in EntryCall : c.in \in {"register", "claim"}
  /\ \A c \in TurnCall : c.in \in {"cancel", "join"}
  /\ \A c \in ClearCall : c.in = "clear"
BY DEF NotCalling, EntryCall, TurnCall, ClearCall

\* The counts after one entry changes: it joins the settled ones or not, and its
\* worker leaves or not (speculation.rs, the ledger and inflight).
LEMMA Counts ==
  ASSUME NEW e \in DOMAIN entry, NEW r \in Entry, EntryBecomes(e, r), entry \in Seq(Entry),
         IsFiniteSet(Settled), IsFiniteSet(AtWork),
         entry[e].state \in {"claimed", "cancelled", "failed"}
           => r.state \in {"claimed", "cancelled", "failed"},
         r.worker # "gone" => entry[e].worker # "gone"
  PROVE  /\ IsFiniteSet(Settled') /\ IsFiniteSet(AtWork')
         /\ Cardinality(Settled') = Cardinality(Settled)
              + (IF /\ r.state \in {"claimed", "cancelled", "failed"}
                    /\ entry[e].state \notin {"claimed", "cancelled", "failed"} THEN 1 ELSE 0)
         /\ Cardinality(AtWork') = Cardinality(AtWork)
              - (IF r.worker = "gone" /\ entry[e].worker # "gone" THEN 1 ELSE 0)
         /\ Cardinality(Settled) \in Nat /\ Cardinality(AtWork) \in Nat
<1>1. Settled' = IF r.state \in {"claimed", "cancelled", "failed"} THEN Settled \cup {e} ELSE Settled
  BY DEF Settled, EntryBecomes
<1>2. AtWork' = IF r.worker = "gone" THEN AtWork \ {e} ELSE AtWork
  BY DEF AtWork, EntryBecomes
<1>3. /\ IsFiniteSet(Settled \cup {e}) /\ Cardinality(Settled) \in Nat
      /\ Cardinality(Settled \cup {e})
           = IF e \in Settled THEN Cardinality(Settled) ELSE Cardinality(Settled) + 1
  BY FS_AddElement, FS_CardinalityType
<1>4. /\ IsFiniteSet(AtWork \ {e}) /\ Cardinality(AtWork) \in Nat
      /\ Cardinality(AtWork \ {e})
           = IF e \in AtWork THEN Cardinality(AtWork) - 1 ELSE Cardinality(AtWork)
  BY FS_RemoveElement, FS_CardinalityType
<1>5. /\ e \in Settled <=> entry[e].state \in {"claimed", "cancelled", "failed"}
      /\ e \in AtWork <=> entry[e].worker # "gone"
  BY DEF Settled, AtWork
<1> QED BY SMTT(60), <1>1, <1>2, <1>3, <1>4, <1>5

SettledStates == {"claimed", "cancelled", "failed"}

Calls == {NotCalling} \cup EntryCall \cup TurnCall \cup ClearCall

Accounted(l) == l.hits + l.cancelled + l.failed

\* Some claims return, and some ends of turn go on to their next entry.
ClaimsReturn ==
    /\ thread' \in [Threads -> Calls]
    /\ \A u \in Threads :
         \/ thread'[u] = thread[u]
         \/ thread[u].in = "claim" /\ thread'[u] = NotCalling
         \/ /\ thread[u].in = "cancel" /\ thread'[u].in = "cancel"
            /\ thread'[u].left \subseteq thread[u].left
            /\ thread'[u].registered = thread[u].registered

\* What Append does, at the last place and before it.
LEMMA AppendAt ==
  ASSUME NEW S, NEW s \in Seq(S), NEW x \in S
  PROVE  /\ Append(s, x) \in Seq(S) /\ Len(Append(s, x)) = Len(s) + 1 /\ Len(s) \in Nat
         /\ DOMAIN Append(s, x) = DOMAIN s \cup {Len(s) + 1} /\ DOMAIN s = 1..Len(s)
         /\ Append(s, x)[Len(s) + 1] = x
         /\ \A i \in 1..Len(s) : Append(s, x)[i] = s[i]
         /\ \A i \in 1..(Len(s) + 1) : i \in 1..Len(s) \/ i = Len(s) + 1
BY SMTT(60)

\* A new value keeps a sequence free of repetitions.
LEMMA AppendNew ==
  ASSUME NEW S, NEW s \in Seq(S), NEW x \in S, \A i \in 1..Len(s) : s[i] # x,
         \A i, j \in 1..Len(s) : s[i] = s[j] => i = j
  PROVE  \A i, j \in 1..Len(Append(s, x)) : Append(s, x)[i] = Append(s, x)[j] => i = j
BY SMTT(60), AppendAt

\* One entry changes under its lock: the invariant holds if the change settles
\* the entry in the ledger, gives its result at most once and counts the worker
\* that leaves (speculation.rs, worker, claim and end_turn).
LEMMA OneEntry ==
  ASSUME SpecInv, NEW e \in DOMAIN entry, NEW r \in Entry, EntryBecomes(e, r), InStep(r),
         entry[e].state \in SettledStates => r.state \in SettledStates,
         entry[e].state = "claimed" => r.state = "claimed",
         r.worker # "gone" => entry[e].worker # "gone",
         UNCHANGED <<table, workers>>, ClaimsReturn,
         \/ UNCHANGED given
         \/ given' = Append(given, e) /\ entry[e].state # "claimed" /\ r.state = "claimed",
         ledger' \in SpeculationLedger, ledger'.dispatched = ledger.dispatched,
         Accounted(ledger') = Accounted(ledger) + (IF /\ r.state \in SettledStates
                                          /\ entry[e].state \notin SettledStates THEN 1 ELSE 0),
         inflight' = inflight - (IF r.worker = "gone" /\ entry[e].worker # "gone" THEN 1 ELSE 0)
  PROVE  SpecInv'
<1>1. /\ entry \in Seq(Entry) /\ given \in Seq(Nat) /\ DOMAIN entry' = DOMAIN entry
      /\ entry' \in Seq(Entry) /\ Len(entry') = Len(entry)
      /\ entry'[e] = r /\ \A x \in DOMAIN entry : x # e => entry'[x] = entry[x]
  BY DEF SpecInv, SpecTypeOK, EntryBecomes
<1>2. /\ IsFiniteSet(Settled') /\ IsFiniteSet(AtWork')
      /\ Cardinality(Settled') = Cardinality(Settled)
           + (IF /\ r.state \in SettledStates
                 /\ entry[e].state \notin SettledStates THEN 1 ELSE 0)
      /\ Cardinality(AtWork') = Cardinality(AtWork)
           - (IF r.worker = "gone" /\ entry[e].worker # "gone" THEN 1 ELSE 0)
      /\ Cardinality(Settled) \in Nat /\ Cardinality(AtWork) \in Nat
  BY <1>1, Counts DEF SpecInv, SettleInv, SettledStates
<1>3. entry[e].worker # "gone" => Cardinality(AtWork) > 0
  <2>1. entry[e].worker # "gone" => AtWork # {}
    BY DEF AtWork
  <2>2. IsFiniteSet(AtWork) /\ Cardinality({}) = 0 /\ IsFiniteSet({})
    BY FS_EmptySet DEF SpecInv, SettleInv
  <2>3. AtWork # {} => Cardinality(AtWork) # 0
    BY <2>2, FS_Subset
  <2> QED BY SMTT(60), <1>2, <2>1, <2>3
<1>4. inflight' \in Nat /\ inflight' = Cardinality(AtWork') /\ inflight' <= Limit
  BY SMTT(60), <1>2, <1>3, LimitAssumption DEF SpecInv, SettleInv, SpecTypeOK
<1>5. ledger'.dispatched = Len(entry') /\ Accounted(ledger') = Cardinality(Settled')
  BY <1>1, <1>2 DEF SpecInv, SettleInv, Accounted
<1>6. \A x \in DOMAIN entry : /\ entry[x].worker = "gone" => entry'[x].worker = "gone"
                              /\ entry[x].state = "claimed" => entry'[x].state = "claimed"
                              /\ InStep(entry'[x])
  BY <1>1 DEF SpecInv, SettleInv
<1>7. /\ given' \in Seq(Nat)
      /\ \A i \in 1..Len(given') : given'[i] \in DOMAIN entry /\ entry'[given'[i]].state = "claimed"
      /\ \A i, j \in 1..Len(given') : given'[i] = given'[j] => i = j
  <2>1. CASE UNCHANGED given
    BY <1>1, <1>6, <2>1 DEF SpecInv, SettleInv
  <2>2. CASE given' = Append(given, e) /\ entry[e].state # "claimed" /\ r.state = "claimed"
    <3>1. e \in Nat
      BY SMTT(60), <1>1
    <3>2. \A i \in 1..Len(given) : given[i] # e /\ given[i] \in DOMAIN entry
      BY <2>2 DEF SpecInv, SettleInv
    <3>3. /\ given' \in Seq(Nat) /\ Len(given') = Len(given) + 1 /\ given'[Len(given) + 1] = e
          /\ \A i \in 1..Len(given) : given'[i] = given[i]
      BY SMTT(60), <1>1, <2>2, <3>1, AppendAt
    <3>4. /\ Len(given) \in Nat
          /\ \A i \in 1..(Len(given) + 1) : i \in 1..Len(given) \/ i = Len(given) + 1
      BY <1>1, <3>1, AppendAt
    <3>5. ASSUME NEW i \in 1..Len(given')
          PROVE  given'[i] \in DOMAIN entry /\ entry'[given'[i]].state = "claimed"
      <4>1. CASE i \in 1..Len(given)
        <5>1. given[i] \in DOMAIN entry /\ entry[given[i]].state = "claimed"
          BY <4>1 DEF SpecInv, SettleInv
        <5> QED BY <1>6, <3>3, <4>1, <5>1
      <4>2. CASE i = Len(given) + 1
        BY <1>1, <2>2, <3>3, <4>2
      <4> QED BY <3>3, <3>4, <4>1, <4>2
    <3>6. \A i, j \in 1..Len(given') : given'[i] = given'[j] => i = j
      <4>1. \A i, j \in 1..Len(given) : given[i] = given[j] => i = j
        BY DEF SpecInv, SettleInv
      <4> QED BY SMTT(60), <1>1, <2>2, <3>1, <3>2, <4>1, AppendNew
    <3> QED BY <3>3, <3>5, <3>6
  <2> QED BY <2>1, <2>2
<1>8. \A x \in DOMAIN entry : Joined(x) => Joined(x)'
  BY <1>6 DEF Joined, ClaimsReturn
<1>9. SpecTypeOK'
  <2>1. ASSUME NEW t \in Threads
        PROVE  /\ thread'[t].in \in {"register", "claim"} => thread'[t].entry \in DOMAIN entry
               /\ thread'[t].in \in {"cancel", "join"} => thread'[t].left \subseteq DOMAIN entry
               /\ thread'[t].in \in {"cancel", "join", "clear"}
                    => thread'[t].registered \subseteq DOMAIN entry
    <3>1. /\ thread[t].in \in {"register", "claim"} => thread[t].entry \in DOMAIN entry
          /\ thread[t].in \in {"cancel", "join"} => thread[t].left \subseteq DOMAIN entry
          /\ thread[t].in \in {"cancel", "join", "clear"}
               => thread[t].registered \subseteq DOMAIN entry
      BY DEF SpecInv, SpecTypeOK
    <3>2. \/ thread'[t] = thread[t]
          \/ thread'[t] = NotCalling
          \/ /\ thread[t].in = "cancel" /\ thread'[t].in = "cancel"
             /\ thread'[t].left \subseteq thread[t].left
             /\ thread'[t].registered = thread[t].registered
      BY DEF ClaimsReturn
    <3> QED BY <3>1, <3>2, CallsDiffer
  <2>2. workers \subseteq DOMAIN entry /\ \A k \in DOMAIN table : table[k] \in DOMAIN entry
    BY DEF SpecInv, SpecTypeOK
  <2> QED BY <1>1, <1>4, <1>7, <2>1, <2>2 DEF SpecTypeOK, ClaimsReturn, Calls
<1>10. ASSUME NEW t \in Threads
       PROVE  /\ thread'[t].in = "cancel"
                   => \A x \in thread'[t].registered : x \in workers' \/ Joined(x)'
              /\ thread'[t].in \in {"join", "clear"}
                   => \A x \in thread'[t].registered : Joined(x)'
  <2>1. /\ thread[t].in = "cancel" => \A x \in thread[t].registered : x \in workers \/ Joined(x)
        /\ thread[t].in \in {"join", "clear"} => \A x \in thread[t].registered : Joined(x)
        /\ thread[t].in \in {"cancel", "join", "clear"} => thread[t].registered \subseteq DOMAIN entry
    BY DEF SpecInv, SettleInv, SpecTypeOK
  <2> QED BY <1>8, <2>1, CallsDiffer DEF ClaimsReturn
<1>11. SettleInv'
  BY <1>1, <1>2, <1>4, <1>5, <1>6, <1>7, <1>10 DEF SettleInv, Accounted
<1> QED BY <1>9, <1>11 DEF SpecInv

Cancels(l, n) == [l EXCEPT !.cancelled = @ + n]

Fails(l, n) == [l EXCEPT !.failed = @ + n]

Hits(l, n) == [l EXCEPT !.hits = @ + n]

Wastes(l) == [l EXCEPT !.cancelled = @ + 1, !.wasted = @ + 1]

\* What an increment does to the ledger (speculation.rs, SpeculationLedger).
LEMMA LedgerAdds ==
  ASSUME NEW l \in SpeculationLedger, NEW n \in Nat
  PROVE  /\ Accounted(l) \in Nat
         /\ Cancels(l, n) \in SpeculationLedger /\ Cancels(l, n).dispatched = l.dispatched
         /\ Accounted(Cancels(l, n)) = Accounted(l) + n
         /\ Fails(l, n) \in SpeculationLedger /\ Fails(l, n).dispatched = l.dispatched
         /\ Accounted(Fails(l, n)) = Accounted(l) + n
         /\ Hits(l, n) \in SpeculationLedger /\ Hits(l, n).dispatched = l.dispatched
         /\ Accounted(Hits(l, n)) = Accounted(l) + n
         /\ Wastes(l) \in SpeculationLedger /\ Wastes(l).dispatched = l.dispatched
         /\ Accounted(Wastes(l)) = Accounted(l) + 1
<1> DEFINE c == l.cancelled + n
           f == l.failed + n
           h == l.hits + n
           d == l.cancelled + 1
           w == l.wasted + 1
<1>1. /\ l.hits \in Nat /\ l.cancelled \in Nat /\ l.failed \in Nat /\ l.wasted \in Nat
  BY DEF SpeculationLedger
<1>2. c \in Nat /\ f \in Nat /\ h \in Nat /\ d \in Nat /\ w \in Nat
  BY SMTT(60), <1>1
<1>3. /\ l.hits + c + l.failed = Accounted(l) + n /\ l.hits + l.cancelled + f = Accounted(l) + n
      /\ h + l.cancelled + l.failed = Accounted(l) + n /\ Accounted(l) \in Nat
      /\ l.hits + d + l.failed = Accounted(l) + 1
  BY SMTT(60), <1>1 DEF Accounted
<1> HIDE DEF c, f, h, d, w
<1>4. /\ [l EXCEPT !.cancelled = c] \in SpeculationLedger
      /\ [l EXCEPT !.cancelled = c].dispatched = l.dispatched
      /\ Accounted([l EXCEPT !.cancelled = c]) = l.hits + c + l.failed
  BY <1>2 DEF SpeculationLedger, Accounted
<1>5. /\ [l EXCEPT !.failed = f] \in SpeculationLedger
      /\ [l EXCEPT !.failed = f].dispatched = l.dispatched
      /\ Accounted([l EXCEPT !.failed = f]) = l.hits + l.cancelled + f
  BY <1>2 DEF SpeculationLedger, Accounted
<1>6. /\ [l EXCEPT !.hits = h] \in SpeculationLedger
      /\ [l EXCEPT !.hits = h].dispatched = l.dispatched
      /\ Accounted([l EXCEPT !.hits = h]) = h + l.cancelled + l.failed
  BY <1>2 DEF SpeculationLedger, Accounted
<1>7. /\ [l EXCEPT !.cancelled = d, !.wasted = w] \in SpeculationLedger
      /\ [l EXCEPT !.cancelled = d, !.wasted = w].dispatched = l.dispatched
      /\ Accounted([l EXCEPT !.cancelled = d, !.wasted = w]) = l.hits + d + l.failed
  BY <1>2 DEF SpeculationLedger, Accounted
<1>8. Wastes(l) = [l EXCEPT !.cancelled = d, !.wasted = w]
  BY DEF Wastes, d, w, SpeculationLedger
<1>9. /\ Cancels(l, n) = [l EXCEPT !.cancelled = c] /\ Fails(l, n) = [l EXCEPT !.failed = f]
      /\ Hits(l, n) = [l EXCEPT !.hits = h]
  BY DEF Cancels, Fails, Hits, c, f, h
<1> QED BY <1>3, <1>4, <1>5, <1>6, <1>7, <1>8, <1>9

After(r, w, v, s) == [r EXCEPT !.worker = w, !.result = v, !.state = s]

\* An entry that gets a worker's step, a result and a state (speculation.rs,
\* Entry).
LEMMA EntryAfter ==
  ASSUME NEW r \in Entry, NEW w \in {"spawned", "working", "leaving", "gone"},
         NEW v \in {"none", "value", "error"},
         NEW s \in {"pending", "running", "ready", "failed", "claimed", "cancelled"}
  PROVE  After(r, w, v, s) \in Entry /\ After(r, w, v, s).worker = w /\ After(r, w, v, s).state = s
BY DEF Entry, After

\* The steps of a worker (speculation.rs, the closure admit spawns).
LEMMA WorkerKeeps ==
  ASSUME SpecInv, NEW e \in DOMAIN entry, WorkerRuns(e) \/ WorkerEnds(e) \/ WorkerLeaves(e)
  PROVE  SpecInv'
<1>1. entry \in Seq(Entry) /\ entry[e] \in Entry /\ InStep(entry[e]) /\ ledger \in SpeculationLedger
  BY SMTT(60) DEF SpecInv, SpecTypeOK, SettleInv
<1>2. UNCHANGED <<table, workers, thread, given>>
  BY DEF WorkerRuns, WorkerEnds, WorkerLeaves
<1>3. ClaimsReturn
  BY <1>2 DEF ClaimsReturn, SpecInv, SpecTypeOK, Calls
<1>4. inflight \in Nat
  BY DEF SpecInv, SpecTypeOK
<1>5. CASE WorkerRuns(e)
  <2> DEFINE r == [entry[e] EXCEPT !.worker = "working", !.state = "running"]
  <2>1. entry' = [entry EXCEPT ![e] = r] /\ UNCHANGED <<inflight, ledger>> /\ entry[e].worker = "spawned"
    BY <1>1, <1>5 DEF WorkerRuns
  <2>2. r \in Entry /\ r.worker = "working" /\ r.state = "running" /\ entry[e].state = "pending"
    BY <1>1, <2>1 DEF Entry, InStep
  <2> HIDE DEF r
  <2>3. EntryBecomes(e, r) /\ InStep(r)
    BY <1>1, <2>1, <2>2, EntryWritten DEF InStep
  <2>4. Accounted(ledger') = Accounted(ledger) + 0 /\ inflight' = inflight - 0
    BY SMTT(60), <1>1, <1>4, <2>1 DEF Accounted, SpeculationLedger
  <2> QED BY <1>1, <1>2, <1>3, <2>1, <2>2, <2>3, <2>4, OneEntry DEF SettledStates
<1>6. CASE WorkerEnds(e)
  <2>1. entry[e].worker = "working" /\ entry[e].state = "running" /\ UNCHANGED inflight
    BY <1>1, <1>6 DEF WorkerEnds, InStep
  <2>2. PICK result \in {"value", "error"} :
          IF entry[e].cancelled
          THEN /\ entry' = [entry EXCEPT ![e].worker = "leaving", ![e].state = "cancelled"]
               /\ ledger' = [ledger EXCEPT !.cancelled = @ + 1]
          ELSE /\ entry' = [entry EXCEPT ![e].worker = "leaving", ![e].result = result,
                                 ![e].state = IF result = "value" THEN "ready" ELSE "failed"]
               /\ ledger' = [ledger EXCEPT !.failed = @ + (IF result = "error" THEN 1 ELSE 0)]
    BY <1>6 DEF WorkerEnds
  <2>3. CASE entry[e].cancelled
    <3> DEFINE r == [entry[e] EXCEPT !.worker = "leaving", !.state = "cancelled"]
    <3>0. ledger' = Cancels(ledger, 1)
      BY <2>2, <2>3 DEF Cancels
    <3>1. entry' = [entry EXCEPT ![e] = r]
      BY <1>1, <2>2, <2>3
    <3>2. r \in Entry /\ r.worker = "leaving" /\ r.state = "cancelled"
      BY <1>1 DEF Entry
    <3> HIDE DEF r
    <3>3. EntryBecomes(e, r) /\ InStep(r)
      BY <1>1, <3>1, <3>2, EntryWritten DEF InStep
    <3>4. /\ ledger' \in SpeculationLedger /\ ledger'.dispatched = ledger.dispatched
          /\ Accounted(ledger') = Accounted(ledger) + 1 /\ inflight' = inflight - 0
      <4>1. /\ Cancels(ledger, 1) \in SpeculationLedger
            /\ Cancels(ledger, 1).dispatched = ledger.dispatched
            /\ Accounted(Cancels(ledger, 1)) = Accounted(ledger) + 1
        BY <1>1, LedgerAdds
      <4> QED BY SMTT(60), <1>4, <2>1, <3>0, <4>1
    <3> QED BY <1>1, <1>2, <1>3, <2>1, <3>2, <3>3, <3>4, OneEntry DEF SettledStates
  <2>4. CASE ~ entry[e].cancelled
    <3> DEFINE s == IF result = "value" THEN "ready" ELSE "failed"
               r == After(entry[e], "leaving", result, s)
               n == IF result = "error" THEN 1 ELSE 0
    <3>0. ledger' = Fails(ledger, n)
      BY <2>2, <2>4 DEF Fails
    <3>1. entry' = [entry EXCEPT ![e] = r]
      BY <1>1, <2>2, <2>4 DEF After
    <3>2. /\ r \in Entry /\ r.worker = "leaving"
          /\ r.state = IF n = 1 THEN "failed" ELSE "ready"
      <4>1. s \in {"ready", "failed"} /\ s = IF n = 1 THEN "failed" ELSE "ready"
        BY SMTT(60)
      <4> HIDE DEF s, n
      <4> QED BY SMTT(60), <1>1, <4>1, EntryAfter
    <3>3. n \in {0, 1}
      OBVIOUS
    <3> HIDE DEF r, n
    <3>4. EntryBecomes(e, r) /\ InStep(r)
      BY <1>1, <3>1, <3>2, EntryWritten DEF InStep
    <3>5. /\ ledger' \in SpeculationLedger /\ ledger'.dispatched = ledger.dispatched
          /\ Accounted(ledger') = Accounted(ledger) + n /\ inflight' = inflight - 0
      <4>0. n \in Nat
        BY SMTT(60), <3>3
      <4>1. /\ Fails(ledger, n) \in SpeculationLedger
            /\ Fails(ledger, n).dispatched = ledger.dispatched
            /\ Accounted(Fails(ledger, n)) = Accounted(ledger) + n
        BY <1>1, <4>0, LedgerAdds
      <4> QED BY SMTT(60), <1>4, <2>1, <3>0, <4>1
    <3> QED BY <1>1, <1>2, <1>3, <2>1, <3>2, <3>3, <3>4, <3>5, OneEntry DEF SettledStates
  <2> QED BY <2>3, <2>4
<1>7. CASE WorkerLeaves(e)
  <2> DEFINE r == [entry[e] EXCEPT !.worker = "gone"]
  <2>1. /\ entry' = [entry EXCEPT ![e] = r] /\ UNCHANGED ledger /\ entry[e].worker = "leaving"
        /\ inflight' = inflight - 1
    BY <1>1, <1>7 DEF WorkerLeaves
  <2>2. r \in Entry /\ r.worker = "gone" /\ r.state = entry[e].state
    BY <1>1 DEF Entry
  <2> HIDE DEF r
  <2>3. EntryBecomes(e, r) /\ InStep(r)
    BY <1>1, <2>1, <2>2, EntryWritten DEF InStep
  <2>4. Accounted(ledger') = Accounted(ledger) + 0
    BY SMTT(60), <1>1, <2>1 DEF Accounted, SpeculationLedger
  <2> QED BY <1>1, <1>2, <1>3, <2>1, <2>2, <2>3, <2>4, OneEntry
<1> QED BY <1>5, <1>6, <1>7

\* What a thread's own call may say (speculation.rs, claim and end_turn).
CallOK(c) ==
    /\ c.in \in {"register", "claim"} => c.entry \in DOMAIN entry
    /\ c.in \in {"cancel", "join"} => c.left \subseteq DOMAIN entry
    /\ c.in \in {"cancel", "join", "clear"} => c.registered \subseteq DOMAIN entry

\* One thread goes on in its call and no entry changes: the invariant holds if
\* no worker that left the list is forgotten (speculation.rs, admit and
\* end_turn).
LEMMA OneThread ==
  ASSUME SpecInv, NEW t \in Threads, NEW c \in Calls, CallOK(c),
         thread' = [thread EXCEPT ![t] = c],
         UNCHANGED <<entry, inflight, ledger, given>>,
         workers' \subseteq DOMAIN entry, \A k \in DOMAIN table' : table'[k] \in DOMAIN entry,
         \A x \in DOMAIN entry : Joined(x) => Joined(x)',
         \A x \in workers : x \in workers' \/ Joined(x)',
         c.in = "cancel" => \A x \in c.registered : x \in workers' \/ Joined(x)',
         c.in \in {"join", "clear"} => \A x \in c.registered : Joined(x)'
  PROVE  SpecInv'
<1>1. /\ thread \in [Threads -> Calls] /\ thread' \in [Threads -> Calls]
      /\ thread'[t] = c /\ \A u \in Threads : u # t => thread'[u] = thread[u]
  BY DEF SpecInv, SpecTypeOK, Calls
<1>2. SpecTypeOK'
  <2>1. ASSUME NEW u \in Threads
        PROVE  /\ thread'[u].in \in {"register", "claim"} => thread'[u].entry \in DOMAIN entry
               /\ thread'[u].in \in {"cancel", "join"} => thread'[u].left \subseteq DOMAIN entry
               /\ thread'[u].in \in {"cancel", "join", "clear"}
                    => thread'[u].registered \subseteq DOMAIN entry
    <3>1. CASE u = t
      BY <1>1, <3>1 DEF CallOK
    <3>2. CASE u # t
      BY <1>1, <3>2 DEF SpecInv, SpecTypeOK
    <3> QED BY <3>1, <3>2
  <2>2. entry \in Seq(Entry) /\ given \in Seq(Nat) /\ inflight \in Nat /\ ledger \in SpeculationLedger
    BY DEF SpecInv, SpecTypeOK
  <2> QED BY <1>1, <2>1, <2>2 DEF SpecTypeOK, Calls
<1>3. Settled' = Settled /\ AtWork' = AtWork
  BY DEF Settled, AtWork
<1>4. ASSUME NEW u \in Threads
      PROVE  /\ thread'[u].in = "cancel"
                  => \A x \in thread'[u].registered : x \in workers' \/ Joined(x)'
             /\ thread'[u].in \in {"join", "clear"}
                  => \A x \in thread'[u].registered : Joined(x)'
  <2>1. CASE u = t
    BY <1>1, <2>1
  <2>2. CASE u # t
    <3>1. /\ thread[u].in = "cancel" => \A x \in thread[u].registered : x \in workers \/ Joined(x)
          /\ thread[u].in \in {"join", "clear"} => \A x \in thread[u].registered : Joined(x)
          /\ thread[u].in \in {"cancel", "join", "clear"}
               => thread[u].registered \subseteq DOMAIN entry
      BY DEF SpecInv, SettleInv, SpecTypeOK
    <3> QED BY <1>1, <2>2, <3>1
  <2> QED BY <2>1, <2>2
<1>5. /\ \A e \in DOMAIN entry : InStep(entry[e])
      /\ \A i \in 1..Len(given) : given[i] \in DOMAIN entry /\ entry[given[i]].state = "claimed"
      /\ \A i, j \in 1..Len(given) : given[i] = given[j] => i = j
      /\ ledger.dispatched = Len(entry)
      /\ IsFiniteSet(Settled) /\ ledger.hits + ledger.cancelled + ledger.failed = Cardinality(Settled)
      /\ IsFiniteSet(AtWork) /\ inflight = Cardinality(AtWork) /\ inflight <= Limit
  BY DEF SpecInv, SettleInv
<1>6. SettleInv'
  BY <1>3, <1>4, <1>5 DEF SettleInv
<1> QED BY <1>2, <1>6 DEF SpecInv


\* A worker's registration, a claim's beginning and the steps of an end of turn
\* keep the invariant (speculation.rs, admit, claim and end_turn).
LEMMA ThreadKeeps ==
  ASSUME SpecInv, NEW t \in Threads,
         \/ Register(t)
         \/ \E p \in Permits : ClaimBegins(t, p)
         \/ TurnBegins(t)
         \/ TurnDrains(t)
         \/ TurnJoins(t)
         \/ TurnJoined(t)
         \/ TurnEnds(t)
  PROVE  SpecInv'
<1>1. /\ thread \in [Threads -> Calls] /\ entry \in Seq(Entry) /\ CallOK(thread[t])
      /\ thread[t] \in Calls /\ DOMAIN entry \subseteq Nat
      /\ workers \subseteq DOMAIN entry /\ \A k \in DOMAIN table : table[k] \in DOMAIN entry
      /\ \A x \in thread[t].registered :
           /\ thread[t].in = "cancel" => x \in workers \/ Joined(x)
           /\ thread[t].in \in {"join", "clear"} => Joined(x)
  BY SMTT(60) DEF SpecInv, SpecTypeOK, SettleInv, Calls, CallOK
<1>2. NotCalling \in Calls /\ NotCalling.in = "nothing" /\ CallOK(NotCalling)
  BY CallsDiffer DEF Calls, CallOK
<1>3. ASSUME NEW c \in Calls, thread' = [thread EXCEPT ![t] = c], UNCHANGED entry,
             NEW x \in DOMAIN entry, Joined(x),
             thread[t].in = "join" => /\ c.in = "join"
                                      /\ \A y \in thread[t].left : y \in c.left \/ entry[y].worker = "gone"
      PROVE  Joined(x)'
  BY <1>1, <1>3 DEF Joined
<1>4. CASE Register(t)
  <2>1. /\ thread' = [thread EXCEPT ![t] = NotCalling] /\ UNCHANGED <<entry, table, inflight, ledger, given>>
        /\ thread[t].in = "register" /\ workers' = workers \cup {thread[t].entry}
    BY <1>4 DEF Register
  <2>2. workers' \subseteq DOMAIN entry /\ \A x \in workers : x \in workers'
    BY <1>1, <2>1 DEF CallOK
  <2>3. \A x \in DOMAIN entry : Joined(x) => Joined(x)'
    BY <1>2, <1>3, <2>1
  <2> QED BY <1>1, <1>2, <2>1, <2>2, <2>3, OneThread
<1>5. CASE \E p \in Permits : ClaimBegins(t, p)
  <2>1. PICK p \in Permits : ClaimBegins(t, p)
    BY <1>5
  <2> DEFINE c == [in |-> "claim", entry |-> table[ClaimKey(p)]]
  <2>2. /\ thread' = [thread EXCEPT ![t] = c] /\ thread[t] = NotCalling
        /\ UNCHANGED <<entry, table, workers, inflight, ledger, given>> /\ ClaimKey(p) \in DOMAIN table
    BY <2>1 DEF ClaimBegins
  <2>3. c \in Calls /\ c.in = "claim" /\ CallOK(c)
    BY <1>1, <2>2 DEF Calls, EntryCall, CallOK
  <2> HIDE DEF c
  <2>4. \A x \in DOMAIN entry : Joined(x) => Joined(x)'
    BY <1>2, <1>3, <2>2, <2>3
  <2> QED BY <1>1, <2>2, <2>3, <2>4, OneThread
<1>6. CASE TurnBegins(t)
  <2> DEFINE c == [in |-> "cancel", left |-> Range(table), registered |-> workers]
  <2>1. /\ thread' = [thread EXCEPT ![t] = c] /\ thread[t] = NotCalling
        /\ UNCHANGED <<entry, table, workers, inflight, ledger, given>>
    BY <1>6 DEF TurnBegins
  <2>2. Range(table) \subseteq DOMAIN entry
    BY <1>1 DEF Range
  <2>3. c \in Calls /\ c.in = "cancel" /\ CallOK(c) /\ c.registered = workers
    BY <1>1, <2>2 DEF Calls, TurnCall, CallOK
  <2> HIDE DEF c
  <2>4. \A x \in DOMAIN entry : Joined(x) => Joined(x)'
    BY <1>2, <1>3, <2>1, <2>3
  <2> QED BY <1>1, <2>1, <2>3, <2>4, OneThread
<1>7. CASE TurnDrains(t)
  <2> DEFINE c == [in |-> "join", left |-> workers, registered |-> thread[t].registered]
  <2>1. /\ thread' = [thread EXCEPT ![t] = c] /\ thread[t].in = "cancel"
        /\ UNCHANGED <<entry, table, inflight, ledger, given>> /\ workers' = {}
    BY <1>1, <1>7 DEF TurnDrains
  <2>2. c \in Calls /\ c.in = "join" /\ CallOK(c) /\ c.left = workers
        /\ c.registered = thread[t].registered
    BY <1>1, <2>1 DEF Calls, TurnCall, CallOK
  <2> HIDE DEF c
  <2>3. \A x \in DOMAIN entry : Joined(x) => Joined(x)'
    BY <1>3, <2>1, <2>2
  <2>4. \A x \in workers : Joined(x)'
    <3>1. thread'[t] = c
      BY <1>1, <2>1
    <3> QED BY <2>2, <3>1 DEF Joined
  <2>5. \A x \in c.registered : Joined(x)'
    BY <1>1, <2>1, <2>2, <2>3, <2>4 DEF CallOK
  <2> QED BY <1>1, <2>1, <2>2, <2>3, <2>4, <2>5, OneThread
<1>8. CASE TurnJoins(t)
  <2>1. PICK e \in thread[t].left :
          entry[e].worker = "gone" /\ thread' = [thread EXCEPT ![t].left = @ \ {e}]
    BY <1>8 DEF TurnJoins
  <2>2. /\ thread[t].in = "join" /\ UNCHANGED <<entry, table, workers, inflight, ledger, given>>
        /\ thread[t] \in TurnCall
    BY <1>1, <1>8, CallsDiffer DEF TurnJoins, Calls
  <2> DEFINE c == [thread[t] EXCEPT !.left = @ \ {e}]
  <2>3. thread' = [thread EXCEPT ![t] = c]
    BY <1>1, <2>1
  <2>4. /\ c \in TurnCall /\ c.in = "join" /\ c.left = thread[t].left \ {e}
        /\ c.registered = thread[t].registered
    BY <2>2 DEF TurnCall
  <2> HIDE DEF c
  <2>5. c \in Calls /\ CallOK(c)
    BY <1>1, <2>2, <2>4 DEF Calls, CallOK
  <2>6. \A x \in DOMAIN entry : Joined(x) => Joined(x)'
    BY <1>3, <2>1, <2>2, <2>3, <2>4, <2>5
  <2>7. \A x \in c.registered : Joined(x)'
    BY <1>1, <2>2, <2>4, <2>6 DEF CallOK
  <2> QED BY <1>1, <2>2, <2>3, <2>4, <2>5, <2>6, <2>7, OneThread
<1>9. CASE TurnJoined(t)
  <2> DEFINE c == [in |-> "clear", registered |-> thread[t].registered]
  <2>1. /\ thread' = [thread EXCEPT ![t] = c] /\ thread[t].in = "join" /\ thread[t].left = {}
        /\ UNCHANGED <<entry, table, workers, inflight, ledger, given>>
    BY <1>1, <1>9 DEF TurnJoined
  <2>2. c \in Calls /\ c.in = "clear" /\ CallOK(c) /\ c.registered = thread[t].registered
    BY <1>1, <2>1 DEF Calls, ClearCall, CallOK
  <2> HIDE DEF c
  <2>3. \A x \in DOMAIN entry : Joined(x) => Joined(x)'
    BY <1>1, <2>1, <2>2 DEF Joined
  <2>4. \A x \in c.registered : Joined(x)'
    BY <1>1, <2>1, <2>2, <2>3 DEF CallOK
  <2> QED BY <1>1, <2>1, <2>2, <2>3, <2>4, OneThread
<1>10. CASE TurnEnds(t)
  <2>1. /\ thread' = [thread EXCEPT ![t] = NotCalling] /\ UNCHANGED <<entry, workers, inflight, ledger, given>>
        /\ thread[t].in = "clear" /\ table' = << >>
    BY <1>10 DEF TurnEnds
  <2>2. \A k \in DOMAIN table' : table'[k] \in DOMAIN entry
    BY SMTT(60), <2>1
  <2>3. \A x \in DOMAIN entry : Joined(x) => Joined(x)'
    BY <1>2, <1>3, <2>1
  <2> QED BY <1>1, <1>2, <2>1, <2>2, <2>3, OneThread
<1> QED BY <1>4, <1>5, <1>6, <1>7, <1>8, <1>9, <1>10


\* An entry that is flagged, and an entry whose result is taken or thrown away
\* (speculation.rs, Entry).
Flags(r, c) == [r EXCEPT !.cancelled = c]

Turns(r, c, s, v) == [r EXCEPT !.cancelled = c, !.state = s, !.result = v]

Takes(r) == [r EXCEPT !.state = "claimed", !.result = "none"]

\* None of them touches the worker.
LEMMA EntryFlagged ==
  ASSUME NEW r \in Entry, NEW c \in BOOLEAN
  PROVE  /\ Flags(r, c) \in Entry /\ Flags(r, c).worker = r.worker /\ Flags(r, c).state = r.state
         /\ Takes(r) \in Entry /\ Takes(r).worker = r.worker /\ Takes(r).state = "claimed"
<1>1. Flags(r, c) \in Entry /\ Flags(r, c).worker = r.worker /\ Flags(r, c).state = r.state
  BY DEF Entry, Flags
<1>2. Takes(r) \in Entry /\ Takes(r).worker = r.worker /\ Takes(r).state = "claimed"
  BY DEF Entry, Takes
<1> QED BY <1>1, <1>2

\* A claim that gives up and a claim that finds its entry settled keep the
\* invariant (speculation.rs, claim).
LEMMA ClaimKeeps ==
  ASSUME SpecInv, NEW t \in Threads, ClaimTimesOut(t) \/ ClaimSettles(t)
  PROVE  SpecInv'
<1> DEFINE e == thread[t].entry
<1>1. /\ thread[t].in = "claim" /\ thread' = [thread EXCEPT ![t] = NotCalling]
      /\ UNCHANGED <<table, workers, inflight>>
  BY DEF ClaimTimesOut, ClaimSettles
<1>2. /\ thread \in [Threads -> Calls] /\ entry \in Seq(Entry) /\ e \in DOMAIN entry
      /\ ledger \in SpeculationLedger /\ inflight \in Nat
  BY <1>1 DEF SpecInv, SpecTypeOK, Calls
<1>3. entry[e] \in Entry /\ InStep(entry[e])
  BY SMTT(60), <1>2 DEF SpecInv, SettleInv
<1>4. ClaimsReturn /\ NotCalling \in Calls
  BY <1>1, <1>2 DEF ClaimsReturn, Calls
<1>5. inflight' = inflight - 0 /\ Accounted(ledger) \in Nat
  BY SMTT(60), <1>1, <1>2, LedgerAdds
<1>6. CASE ClaimTimesOut(t)
  <2> DEFINE r == Flags(entry[e], TRUE)
  <2>1. UNCHANGED <<given, ledger>>
    BY <1>6 DEF ClaimTimesOut
  <2>2. entry' = [entry EXCEPT ![e] = r]
    BY <1>2, <1>6 DEF ClaimTimesOut, Flags
  <2>3. r \in Entry /\ r.worker = entry[e].worker /\ r.state = entry[e].state
    BY <1>3, EntryFlagged
  <2> HIDE DEF r, e
  <2>4. EntryBecomes(e, r) /\ InStep(r)
    BY <1>2, <1>3, <2>2, <2>3, EntryWritten DEF InStep
  <2>5. Accounted(ledger') = Accounted(ledger) + 0
    BY SMTT(60), <1>5, <2>1
  <2> QED BY <1>1, <1>2, <1>4, <1>5, <2>1, <2>3, <2>4, <2>5, OneEntry
<1>7. CASE ClaimSettles(t) /\ entry[e].state \in {"ready", "failed"}
  <2> DEFINE r == Takes(entry[e])
             n == IF entry[e].state = "ready" THEN 1 ELSE 0
  <2>1. given' = Append(given, e) /\ ledger' = Hits(ledger, n)
    BY <1>7 DEF ClaimSettles, Hits
  <2>2. entry' = [entry EXCEPT ![e] = r]
    BY <1>2, <1>7 DEF ClaimSettles, Takes
  <2>3. r \in Entry /\ r.worker = entry[e].worker /\ r.state = "claimed"
    BY <1>3, EntryFlagged
  <2>4. /\ n \in Nat
        /\ n = IF r.state \in SettledStates /\ entry[e].state \notin SettledStates THEN 1 ELSE 0
    BY <1>7, <2>3 DEF SettledStates
  <2> HIDE DEF r, e, n
  <2>5. EntryBecomes(e, r) /\ InStep(r)
    BY <1>2, <1>3, <1>7, <2>2, <2>3, EntryWritten DEF InStep
  <2>6. /\ Hits(ledger, n) \in SpeculationLedger /\ Hits(ledger, n).dispatched = ledger.dispatched
        /\ Accounted(Hits(ledger, n)) = Accounted(ledger) + n
    BY <1>2, <2>4, LedgerAdds
  <2> QED BY <1>1, <1>2, <1>4, <1>5, <1>7, <2>1, <2>3, <2>4, <2>5, <2>6, OneEntry DEF SettledStates
<1>8. CASE ClaimSettles(t) /\ entry[e].state \notin {"ready", "failed"}
  <2>1. UNCHANGED <<entry, given, ledger>>
    BY <1>8 DEF ClaimSettles
  <2> HIDE DEF e
  <2>2. EntryBecomes(e, entry[e])
    BY <1>2, <2>1 DEF EntryBecomes
  <2>3. Accounted(ledger') = Accounted(ledger) + 0
    BY SMTT(60), <1>5, <2>1
  <2> QED BY <1>1, <1>2, <1>3, <1>4, <1>5, <2>1, <2>2, <2>3, OneEntry
<1> QED BY <1>6, <1>7, <1>8


\* An end of turn that cancels one entry keeps the invariant: a value nobody
\* claimed is settled as cancelled, unfinished work is left to its worker
\* (speculation.rs, end_turn).
LEMMA CancelKeeps ==
  ASSUME SpecInv, NEW t \in Threads, TurnCancels(t)
  PROVE  SpecInv'
<1>1. /\ thread[t].in = "cancel" /\ UNCHANGED <<table, workers, inflight, given>>
  BY DEF TurnCancels
<1>2. PICK e \in thread[t].left :
        /\ entry' = [entry EXCEPT
               ![e].cancelled = (@ \/ entry[e].state \in {"pending", "running", "ready"}),
               ![e].state = IF @ = "ready" THEN "cancelled" ELSE @,
               ![e].result = IF entry[e].state = "ready" THEN "none" ELSE @]
        /\ ledger' = IF entry[e].state = "ready"
                     THEN [ledger EXCEPT !.cancelled = @ + 1, !.wasted = @ + 1] ELSE ledger
        /\ thread' = [thread EXCEPT ![t].left = @ \ {e}]
  BY DEF TurnCancels
<1>3. /\ thread \in [Threads -> Calls] /\ entry \in Seq(Entry) /\ e \in DOMAIN entry
      /\ ledger \in SpeculationLedger /\ inflight \in Nat
  BY <1>1, <1>2 DEF SpecInv, SpecTypeOK, Calls
<1>4. entry[e] \in Entry /\ InStep(entry[e])
  BY SMTT(60), <1>3 DEF SpecInv, SettleInv
<1>5. ClaimsReturn
  <2> DEFINE c == [thread[t] EXCEPT !.left = @ \ {e}]
  <2>1. thread' = [thread EXCEPT ![t] = c]
    BY <1>2, <1>3
  <2>2. thread[t] \in TurnCall
    BY <1>1, <1>3, CallsDiffer DEF Calls
  <2>3. /\ c \in TurnCall /\ c.in = "cancel" /\ c.left \subseteq thread[t].left
        /\ c.registered = thread[t].registered
    BY <1>1, <2>2 DEF TurnCall
  <2> HIDE DEF c
  <2> QED BY <1>1, <1>3, <2>1, <2>3 DEF ClaimsReturn, Calls
<1>6. inflight' = inflight - 0 /\ Accounted(ledger) \in Nat
  BY SMTT(60), <1>1, <1>3, LedgerAdds
<1> DEFINE c == entry[e].cancelled \/ entry[e].state \in {"pending", "running", "ready"}
           s == IF entry[e].state = "ready" THEN "cancelled" ELSE entry[e].state
           v == IF entry[e].state = "ready" THEN "none" ELSE entry[e].result
           r == Turns(entry[e], c, s, v)
<1>7. entry' = [entry EXCEPT ![e] = r]
  BY <1>2, <1>3 DEF Turns
<1>8. /\ c \in BOOLEAN /\ v \in {"none", "value", "error"}
      /\ s \in {"pending", "running", "ready", "failed", "claimed", "cancelled"}
  BY <1>4 DEF Entry
<1>9. s = IF entry[e].state = "ready" THEN "cancelled" ELSE entry[e].state
  OBVIOUS
<1> HIDE DEF c, s, v
<1>10. r \in Entry /\ r.worker = entry[e].worker /\ r.state = s
  BY <1>4, <1>8 DEF Entry, Turns
<1> HIDE DEF r
<1>11. InStep(r)
  BY <1>4, <1>9, <1>10 DEF InStep
<1>12. EntryBecomes(e, r)
  BY <1>3, <1>7, <1>10, EntryWritten
<1>13. CASE entry[e].state = "ready"
  <2>1. ledger' = Wastes(ledger)
    BY <1>2, <1>13 DEF Wastes
  <2>2. /\ Wastes(ledger) \in SpeculationLedger /\ Wastes(ledger).dispatched = ledger.dispatched
        /\ Accounted(Wastes(ledger)) = Accounted(ledger) + 1
    BY <1>3, LedgerAdds
  <2> QED BY <1>1, <1>3, <1>5, <1>6, <1>9, <1>10, <1>11, <1>12, <1>13, <2>1, <2>2, OneEntry
          DEF SettledStates
<1>14. CASE entry[e].state # "ready"
  <2>1. ledger' = ledger
    BY <1>2, <1>14
  <2>2. Accounted(ledger') = Accounted(ledger) + 0
    BY SMTT(60), <1>6, <2>1
  <2> QED BY <1>1, <1>3, <1>5, <1>6, <1>9, <1>10, <1>11, <1>12, <1>14, <2>1, <2>2, OneEntry
          DEF SettledStates
<1> QED BY <1>13, <1>14

Dispatches(l) == [l EXCEPT !.dispatched = @ + 1]

Declines(l) == [l EXCEPT !.ordinary = @ + 1]

\* What an admission does to the ledger (speculation.rs, SpeculationLedger).
LEMMA LedgerAdmits ==
  ASSUME NEW l \in SpeculationLedger
  PROVE  /\ Dispatches(l) \in SpeculationLedger /\ Dispatches(l).dispatched = l.dispatched + 1
         /\ Accounted(Dispatches(l)) = Accounted(l)
         /\ Declines(l) \in SpeculationLedger /\ Declines(l).dispatched = l.dispatched
         /\ Accounted(Declines(l)) = Accounted(l)
<1> DEFINE d == l.dispatched + 1
           o == l.ordinary + 1
<1>1. d \in Nat /\ o \in Nat
  BY SMTT(60) DEF SpeculationLedger
<1>2. Dispatches(l) = [l EXCEPT !.dispatched = d] /\ Declines(l) = [l EXCEPT !.ordinary = o]
  BY DEF Dispatches, Declines
<1> HIDE DEF d, o
<1>3. /\ [l EXCEPT !.dispatched = d] \in SpeculationLedger
      /\ [l EXCEPT !.dispatched = d].dispatched = d
      /\ Accounted([l EXCEPT !.dispatched = d]) = Accounted(l)
  BY <1>1 DEF SpeculationLedger, Accounted
<1>4. /\ [l EXCEPT !.ordinary = o] \in SpeculationLedger
      /\ [l EXCEPT !.ordinary = o].dispatched = l.dispatched
      /\ Accounted([l EXCEPT !.ordinary = o]) = Accounted(l)
  BY <1>1 DEF SpeculationLedger, Accounted
<1> QED BY <1>2, <1>3, <1>4 DEF d


\* An admission keeps the invariant: its worker is counted and the runtime was
\* not full, or the call stays ordinary (speculation.rs, admit).
LEMMA AdmitKeeps ==
  ASSUME SpecInv, NEW t \in Threads, NEW p \in Permits, NEW matches \in BOOLEAN,
         Admit(t, p, matches)
  PROVE  SpecInv'
<1>1. /\ thread \in [Threads -> Calls] /\ entry \in Seq(Entry) /\ ledger \in SpeculationLedger
      /\ inflight \in Nat /\ workers \subseteq DOMAIN entry /\ given \in Seq(Nat)
      /\ \A k \in DOMAIN table : table[k] \in DOMAIN entry
      /\ \A u \in Threads :
           /\ thread[u].in \in {"register", "claim"} => thread[u].entry \in DOMAIN entry
           /\ thread[u].in \in {"cancel", "join"} => thread[u].left \subseteq DOMAIN entry
           /\ thread[u].in \in {"cancel", "join", "clear"} => thread[u].registered \subseteq DOMAIN entry
  BY DEF SpecInv, SpecTypeOK, Calls
<1>2. /\ \A e \in DOMAIN entry : InStep(entry[e])
      /\ \A i \in 1..Len(given) : given[i] \in DOMAIN entry /\ entry[given[i]].state = "claimed"
      /\ \A i, j \in 1..Len(given) : given[i] = given[j] => i = j
      /\ ledger.dispatched = Len(entry) /\ Accounted(ledger) = Cardinality(Settled)
      /\ IsFiniteSet(Settled) /\ IsFiniteSet(AtWork)
      /\ inflight = Cardinality(AtWork) /\ inflight <= Limit
  BY DEF SpecInv, SettleInv, Accounted
<1>3. thread[t] = NotCalling /\ UNCHANGED <<workers, given>>
  BY DEF Admit
<1>4. \A u \in Threads :
         /\ thread[u].in = "cancel" => \A e \in thread[u].registered : e \in workers \/ Joined(e)
         /\ thread[u].in \in {"join", "clear"} => \A e \in thread[u].registered : Joined(e)
  BY DEF SpecInv, SettleInv
<1>5. CASE inflight < Limit
  <2> DEFINE r == [permit |-> p, state |-> "pending", result |-> "none",
                   cancelled |-> FALSE, worker |-> "spawned"]
             n == Len(entry) + 1
             c == [in |-> "register", entry |-> n]
  <2>1. entry' = Append(entry, r) /\ inflight' = inflight + 1 /\ ledger' = Dispatches(ledger)
    BY <1>5 DEF Admit, Dispatches
  <2>2. r \in Entry /\ InStep(r) /\ r.worker = "spawned" /\ r.state = "pending"
    BY DEF Entry, InStep
  <2> HIDE DEF r
  <2>3. /\ entry' \in Seq(Entry) /\ Len(entry') = n /\ n \in Nat
        /\ DOMAIN entry' = DOMAIN entry \cup {n} /\ entry'[n] = r /\ n \notin DOMAIN entry
        /\ \A i \in DOMAIN entry : entry'[i] = entry[i]
    <3>1. /\ Append(entry, r) \in Seq(Entry) /\ Len(Append(entry, r)) = Len(entry) + 1
          /\ Len(entry) \in Nat /\ DOMAIN Append(entry, r) = DOMAIN entry \cup {Len(entry) + 1}
          /\ DOMAIN entry = 1..Len(entry) /\ Append(entry, r)[Len(entry) + 1] = r
          /\ \A i \in 1..Len(entry) : Append(entry, r)[i] = entry[i]
      BY SMTT(60), <1>1, <2>2, AppendAt
    <3> QED BY SMTT(60), <2>1, <3>1
  <2>4. /\ thread' = [thread EXCEPT ![t] = c]
        /\ table' = [k \in DOMAIN table \cup {ClaimKey(p)} |->
                       IF k = ClaimKey(p) THEN n ELSE table[k]]
    BY <1>5, <2>3 DEF Admit
  <2>5. c \in Calls /\ c.in = "register" /\ c.entry = n
    BY <2>3 DEF Calls, EntryCall
  <2> HIDE DEF n, c
  <2>6. /\ thread' \in [Threads -> Calls] /\ thread'[t] = c
        /\ \A u \in Threads : u # t => thread'[u] = thread[u]
    BY <1>1, <2>4, <2>5
  <2>7. \A k \in DOMAIN table' : table'[k] \in DOMAIN entry'
    BY <1>1, <2>3, <2>4
  <2>8. /\ Dispatches(ledger) \in SpeculationLedger
        /\ Dispatches(ledger).dispatched = ledger.dispatched + 1
        /\ Accounted(Dispatches(ledger)) = Accounted(ledger)
    BY <1>1, LedgerAdmits
  <2>9. SpecTypeOK'
    <3>1. ASSUME NEW u \in Threads
          PROVE  /\ thread'[u].in \in {"register", "claim"} => thread'[u].entry \in DOMAIN entry'
                 /\ thread'[u].in \in {"cancel", "join"} => thread'[u].left \subseteq DOMAIN entry'
                 /\ thread'[u].in \in {"cancel", "join", "clear"}
                      => thread'[u].registered \subseteq DOMAIN entry'
      <4>1. CASE u = t
        BY <2>3, <2>5, <2>6, <4>1
      <4>2. CASE u # t
        BY <1>1, <2>3, <2>6, <4>2
      <4> QED BY <4>1, <4>2
    <3>2. /\ entry' \in Seq(Entry) /\ given' \in Seq(Nat) /\ workers' \subseteq DOMAIN entry'
          /\ inflight' \in Nat /\ ledger' \in SpeculationLedger
      BY SMTT(60), <1>1, <1>3, <2>1, <2>3, <2>8
    <3> QED BY <2>6, <2>7, <3>1, <3>2 DEF SpecTypeOK, Calls
  <2>10. /\ Settled' = Settled /\ AtWork' = AtWork \cup {n} /\ n \notin AtWork
    BY <2>2, <2>3 DEF Settled, AtWork
  <2>11. /\ IsFiniteSet(AtWork \cup {n}) /\ Cardinality(AtWork \cup {n}) = Cardinality(AtWork) + 1
    <3>1. IsFiniteSet(AtWork)
      BY <1>2
    <3> QED BY <2>10, <3>1, FS_AddElement
  <2>12. /\ IsFiniteSet(AtWork') /\ inflight' = Cardinality(AtWork') /\ inflight' <= Limit
         /\ IsFiniteSet(Settled') /\ Accounted(ledger') = Cardinality(Settled')
         /\ ledger'.dispatched = Len(entry')
    <3>1. inflight \in Nat /\ inflight = Cardinality(AtWork)
      BY <1>1, <1>2
    <3>2. inflight' = inflight + 1 /\ Cardinality(AtWork') = Cardinality(AtWork) + 1
      BY <2>1, <2>10, <2>11
    <3>3. inflight' = Cardinality(AtWork') /\ inflight' <= Limit
      BY SMTT(60), <1>5, <3>1, <3>2, LimitAssumption
    <3>4. Accounted(ledger') = Cardinality(Settled')
      BY <1>2, <2>1, <2>8, <2>10
    <3>5. ledger'.dispatched = Len(entry')
      <4>1. ledger'.dispatched = ledger.dispatched + 1
        BY <2>1, <2>8
      <4>2. ledger.dispatched = Len(entry)
        BY <1>2
      <4>3. Len(entry') = Len(entry) + 1
        BY <2>3 DEF n
      <4> QED BY <4>1, <4>2, <4>3
    <3> QED BY <1>2, <2>10, <2>11, <3>3, <3>4, <3>5
  <2>13. \A x \in DOMAIN entry : Joined(x) => Joined(x)'
    BY <1>3, <2>3, <2>6, CallsDiffer DEF Joined
  <2>14. ASSUME NEW u \in Threads
         PROVE  /\ thread'[u].in = "cancel"
                     => \A e \in thread'[u].registered : e \in workers' \/ Joined(e)'
                /\ thread'[u].in \in {"join", "clear"}
                     => \A e \in thread'[u].registered : Joined(e)'
    <3>1. CASE u = t
      BY <2>5, <2>6, <3>1
    <3>2. CASE u # t
      BY <1>1, <1>3, <1>4, <2>6, <2>13, <3>2
    <3> QED BY <3>1, <3>2
  <2>15. /\ \A e \in DOMAIN entry' : InStep(entry'[e])
         /\ \A i \in 1..Len(given') : given'[i] \in DOMAIN entry' /\ entry'[given'[i]].state = "claimed"
         /\ \A i, j \in 1..Len(given') : given'[i] = given'[j] => i = j
    BY <1>2, <1>3, <2>2, <2>3
  <2> QED BY <2>9, <2>12, <2>14, <2>15 DEF SpecInv, SettleInv, Accounted
<1>6. CASE ~ (inflight < Limit)
  <2>1. UNCHANGED <<entry, table, inflight, thread>> /\ ledger' = Declines(ledger)
    BY <1>6 DEF Admit, Declines
  <2>2. /\ Declines(ledger) \in SpeculationLedger
        /\ Declines(ledger).dispatched = ledger.dispatched
        /\ Accounted(Declines(ledger)) = Accounted(ledger)
    BY <1>1, LedgerAdmits
  <2>3. Settled' = Settled /\ AtWork' = AtWork /\ \A x \in DOMAIN entry : Joined(x)' <=> Joined(x)
    BY <2>1 DEF Settled, AtWork, Joined
  <2>4. SpecTypeOK'
    BY <1>1, <1>3, <2>1, <2>2 DEF SpecTypeOK, Calls
  <2>5. ASSUME NEW u \in Threads
        PROVE  /\ thread'[u].in = "cancel"
                    => \A e \in thread'[u].registered : e \in workers' \/ Joined(e)'
               /\ thread'[u].in \in {"join", "clear"}
                    => \A e \in thread'[u].registered : Joined(e)'
    BY <1>1, <1>3, <1>4, <2>1, <2>3
  <2> QED BY <1>2, <1>3, <2>1, <2>2, <2>3, <2>4, <2>5 DEF SpecInv, SettleInv, Accounted
<1> QED BY <1>5, <1>6

\* A step that changes none of the runtime's state keeps the invariant.
LEMMA SpeculationStutters ==
  ASSUME SpecInv, UNCHANGED specVars
  PROVE  SpecInv'
BY DEF SpecInv, SpecTypeOK, SettleInv, specVars, Settled, AtWork, Joined

\* Every admission of the speculation runtime is settled once (speculation.rs,
\* admit, claim, end_turn and the workers): its result goes to at most one
\* claim, the ledger counts exactly the settled admissions, the workers that
\* still run never exceed the limit, and an end of turn clears the table only
\* after the workers registered when it was called have left or are being
\* joined by another end of turn.  For any threads, permits and limit.
THEOREM SettledOnceHolds == SpeculationSpec => []SettledOnce
<1>1. SpeculationInit => SpecInv
  <2> SUFFICES ASSUME SpeculationInit PROVE SpecInv
    OBVIOUS
  <2>1. entry = << >> /\ given = << >> /\ DOMAIN entry = {} /\ Len(entry) = 0 /\ Len(given) = 0
    BY SMTT(60) DEF SpeculationInit
  <2>2. Settled = {} /\ AtWork = {}
    BY <2>1 DEF Settled, AtWork
  <2>3. IsFiniteSet({}) /\ Cardinality({}) = 0
    BY FS_EmptySet
  <2>4. \A t \in Threads : thread[t] = NotCalling /\ thread[t].in = "nothing"
    BY CallsDiffer DEF SpeculationInit
  <2>5. ledger \in SpeculationLedger /\ ledger.dispatched = 0 /\ inflight = 0
        /\ ledger.hits + ledger.cancelled + ledger.failed = 0
    BY SMTT(60) DEF SpeculationInit, SpeculationLedger
  <2>6. /\ thread \in [Threads -> {NotCalling} \cup EntryCall \cup TurnCall \cup ClearCall]
        /\ workers = {} /\ table = << >>
    BY DEF SpeculationInit
  <2>7. SpecTypeOK
    BY SMTT(60), <2>1, <2>4, <2>5, <2>6 DEF SpecTypeOK
  <2>8. SettleInv
    BY SMTT(60), <2>1, <2>2, <2>3, <2>4, <2>5, LimitAssumption DEF SettleInv
  <2> QED BY <2>7, <2>8 DEF SpecInv
<1>2. SpecInv /\ [SpeculationNext]_specVars => SpecInv'
  <2> SUFFICES ASSUME SpecInv, [SpeculationNext]_specVars PROVE SpecInv'
    OBVIOUS
  <2>1. CASE \E t \in Threads, p \in Permits, matches \in BOOLEAN : Admit(t, p, matches)
    BY <2>1, AdmitKeeps
  <2>2. CASE \E e \in DOMAIN entry : WorkerRuns(e) \/ WorkerEnds(e) \/ WorkerLeaves(e)
    BY <2>2, WorkerKeeps
  <2>3. CASE \E t \in Threads : ClaimTimesOut(t) \/ ClaimSettles(t)
    BY <2>3, ClaimKeeps
  <2>4. CASE \E t \in Threads : TurnCancels(t)
    BY <2>4, CancelKeeps
  <2>5. CASE \E t \in Threads : \/ Register(t)
                                \/ \E p \in Permits : ClaimBegins(t, p)
                                \/ TurnBegins(t)
                                \/ TurnDrains(t)
                                \/ TurnJoins(t)
                                \/ TurnJoined(t)
                                \/ TurnEnds(t)
    BY <2>5, ThreadKeeps
  <2>6. CASE UNCHANGED specVars
    BY <2>6, SpeculationStutters
  <2> QED BY <2>1, <2>2, <2>3, <2>4, <2>5, <2>6 DEF SpeculationNext, Progress
<1>3. SpecInv => SettledOnce
  <2> SUFFICES ASSUME SpecInv PROVE SettledOnce
    OBVIOUS
  <2>1. IsInjective(given)
    <3>1. given \in Seq(Nat) /\ \A i, j \in 1..Len(given) : given[i] = given[j] => i = j
      BY DEF SpecInv, SpecTypeOK, SettleInv
    <3> QED BY SMTT(60), <3>1 DEF IsInjective
  <2>2. /\ ledger \in SpeculationLedger /\ ledger.dispatched = Len(entry)
        /\ ledger.hits + ledger.cancelled + ledger.failed
             = Cardinality({e \in DOMAIN entry : entry[e].state \in {"claimed", "cancelled", "failed"}})
        /\ Cardinality({e \in DOMAIN entry : entry[e].worker # "gone"}) <= Limit
    BY DEF SpecInv, SpecTypeOK, SettleInv, Settled, AtWork
  <2>3. ASSUME NEW t \in Threads, thread[t].in = "clear", NEW e \in thread[t].registered
        PROVE  \/ entry[e].worker = "gone"
               \/ \E u \in Threads \ {t} : thread[u].in = "join" /\ e \in thread[u].left
    BY <2>3 DEF SpecInv, SettleInv, Joined
  <2> QED BY <2>1, <2>2, <2>3 DEF SettledOnce
<1> QED BY <1>1, <1>2, <1>3, PTL DEF SpeculationSpec

-----------------------------------------------------------------------------
(* The effect transactions.                                                 *)

Committed(b) == b \in DOMAIN journals /\ journals[b].outcome \in CommittedOutcomes

\* Some transaction leads to the root s.
Returned(s) == \E d \in DOMAIN journals : d.new = s

\* A receipt says what the journal of its transaction says.
TrueReceipt(t) ==
    /\ t.binding \in DOMAIN journals
    /\ t.outcome = journals[t.binding].outcome /\ t.outcome # "None"
    /\ \E acceptance : t = TransactionReceipt(t.binding, t.outcome, acceptance)

\* Of two transactions from one root, both committed or one published, the
\* second found that root again.
EffectInv ==
    /\ handles \subseteq DOMAIN journals
    /\ \A b \in DOMAIN journals : b.old # b.new
    /\ \A b : root = Published(b) => b \in DOMAIN journals
    /\ \A b : Committed(b) /\ root.root = b.old => Returned(b.old)
    /\ \A b, c : Committed(c) /\ c # b /\ c.old = b.old /\ root = Published(b) => Returned(b.old)
    /\ \A b, c : Committed(b) /\ Committed(c) /\ b # c /\ b.old = c.old => Returned(b.old)
    /\ \A t \in txReceipts : TrueReceipt(t)

\* An outcome, once recorded, is final; receipts are never taken back.
OutcomesAreFinal ==
    /\ DOMAIN journals \subseteq DOMAIN journals'
    /\ \A b \in DOMAIN journals : journals[b].outcome # "None" =>
          journals'[b].outcome = journals[b].outcome
    /\ txReceipts \subseteq txReceipts'

\* What the journal of a transaction is once it is recorded.
LEMMA RecordIs ==
    ASSUME NEW b, NEW state, NEW outcome, Record(b, state, outcome)
    PROVE  /\ DOMAIN journals' = DOMAIN journals \cup {b}
           /\ journals'[b] = [state |-> state, outcome |-> outcome]
           /\ \A x \in DOMAIN journals : x # b => journals'[x] = journals[x]
  BY DEF Record

\* What a receipt says of its transaction.
LEMMA ReceiptSays ==
    ASSUME NEW b, NEW outcome, NEW acceptance, NEW t,
           t = TransactionReceipt(b, outcome, acceptance)
    PROVE  /\ t.binding = b /\ t.outcome = outcome /\ t.baseline = b.old /\ t.candidate = b.new
           /\ t.debt = b.closed.debt /\ t.action = b.closed.action
           /\ t.disposition = "CandidateCommitted" =>
                outcome \in CommittedOutcomes /\ t.observed = b.new
           /\ t.disposition = "BaselineRootRecovered" => outcome \notin CommittedOutcomes
  BY DEF TransactionReceipt

\* One root record names one transaction.
LEMMA PublishedByOne ==
    ASSUME NEW b, NEW c, Published(b) = Published(c) PROVE b = c
<1>1. Published(b).by = {b} /\ Published(c).by = {c}
  BY DEF Published
<1> QED
  BY <1>1

\* A step of one transaction: it may record an outcome where there was none, a
\* commit only with the root published, which it found as it was or publishes
\* from its old root; it may hand out a receipt of that outcome.
LEMMA EffectStepPreserves ==
    ASSUME EffectInv, NEW b, b.old # b.new,
           DOMAIN journals' = DOMAIN journals \cup {b},
           \A x \in DOMAIN journals : x # b => journals'[x] = journals[x],
           b \in DOMAIN journals /\ journals[b].outcome # "None" =>
               journals'[b].outcome = journals[b].outcome,
           journals'[b].outcome \in CommittedOutcomes => Committed(b) \/ root' = Published(b),
           root' = root \/ (root' = Published(b) /\ root.root = b.old),
           handles' \subseteq handles \cup {b},
           txReceipts \subseteq txReceipts',
           \A t \in txReceipts' \ txReceipts :
               /\ journals'[b].outcome # "None"
               /\ \E acceptance : t = TransactionReceipt(b, journals'[b].outcome, acceptance)
    PROVE  EffectInv' /\ OutcomesAreFinal
<1>1. OutcomesAreFinal
  BY DEF OutcomesAreFinal
<1>2. \A x : Committed(x)' => Committed(x) \/ (x = b /\ root' = Published(b))
  BY DEF Committed
<1>3. \A r : Returned(r) => Returned(r)'
  BY DEF Returned
<1>4. Returned(b.new)'
  BY DEF Returned
<1>5. Published(b).root = b.new
  BY DEF Published
<1>6. handles' \subseteq DOMAIN journals' /\ \A x \in DOMAIN journals' : x.old # x.new
  BY DEF EffectInv
<1>7. \A x : root' = Published(x) => x \in DOMAIN journals'
  BY PublishedByOne DEF EffectInv
<1>8. ASSUME NEW x, Committed(x)', root'.root = x.old PROVE Returned(x.old)'
  <2>1. CASE root' = Published(b)
    BY <1>4, <1>5, <1>8, <2>1
  <2>2. CASE root' = root /\ root' # Published(b)
    BY <1>2, <1>3, <1>8, <2>2 DEF EffectInv
  <2> QED
    BY <2>1, <2>2
<1>9. ASSUME NEW x, NEW c, Committed(c)', c # x, c.old = x.old, root' = Published(x)
      PROVE  Returned(x.old)'
  <2>1. Committed(c)
    BY <1>2, <1>9, PublishedByOne
  <2>2. CASE root' = root
    BY <1>3, <1>9, <2>1, <2>2 DEF EffectInv
  <2>3. CASE root' = Published(b) /\ root.root = b.old
    <3>1. x = b
      BY <1>9, <2>3, PublishedByOne
    <3> QED
      BY <1>3, <1>9, <2>1, <2>3, <3>1 DEF EffectInv
  <2> QED
    BY <2>2, <2>3
<1>10. ASSUME NEW x, NEW c, Committed(x)', Committed(c)', x # c, x.old = c.old
       PROVE  Returned(x.old)'
  <2>1. ASSUME NEW y, Committed(y), y # b, y.old = b.old, root' = Published(b)
        PROVE  Returned(b.old)
    <3>1. CASE root' = root
      BY <2>1, <3>1 DEF EffectInv
    <3>2. CASE root.root = b.old
      BY <2>1, <3>2 DEF EffectInv
    <3> QED
      BY <3>1, <3>2
  <2>2. CASE Committed(x) /\ Committed(c)
    BY <1>3, <1>10, <2>2 DEF EffectInv
  <2>3. CASE Committed(c) /\ x = b /\ root' = Published(b)
    BY <1>3, <1>10, <2>1, <2>3
  <2>4. CASE Committed(x) /\ c = b /\ root' = Published(b)
    BY <1>3, <1>10, <2>1, <2>4
  <2>5. Committed(x) \/ (x = b /\ root' = Published(b))
    BY <1>2, <1>10
  <2>6. Committed(c) \/ (c = b /\ root' = Published(b))
    BY <1>2, <1>10
  <2> QED
    BY <1>10, <2>2, <2>3, <2>4, <2>5, <2>6
<1>11. ASSUME NEW t \in txReceipts' PROVE TrueReceipt(t)'
  <2>1. CASE t \in txReceipts
    <3>1. TrueReceipt(t)
      BY <2>1 DEF EffectInv
    <3> QED
      BY <1>1, <3>1 DEF TrueReceipt, OutcomesAreFinal
  <2>2. CASE t \notin txReceipts
    <3>1. PICK acceptance : t = TransactionReceipt(b, journals'[b].outcome, acceptance)
      BY <2>2
    <3>2. t.binding = b /\ t.outcome = journals'[b].outcome
      BY <3>1 DEF TransactionReceipt
    <3> QED
      BY <2>2, <3>1, <3>2 DEF TrueReceipt
  <2> QED
    BY <2>1, <2>2
<1> QED
  BY <1>1, <1>6, <1>7, <1>8, <1>9, <1>10, <1>11 DEF EffectInv

\* A receipt that is handed out is of the outcome it is handed out for.
LEMMA HandOutIs ==
    ASSUME NEW b, NEW outcome, NEW acceptance, HandOut(b, outcome, acceptance)
    PROVE  /\ txReceipts \subseteq txReceipts'
           /\ \A t \in txReceipts' \ txReceipts : t = TransactionReceipt(b, outcome, acceptance)
  BY DEF HandOut

\* recover_effect_transaction keeps an outcome it finds, and says committed
\* otherwise only of a published root.
LEMMA RecoveredCases ==
    ASSUME NEW b, RecoveredState(b) # NoJournal
    PROVE  /\ RecoveredState(b).outcome # "None"
           /\ JournalOf(b).outcome # "None" => RecoveredState(b) = JournalOf(b)
           /\ JournalOf(b).outcome = "None" /\ RecoveredState(b).outcome \in CommittedOutcomes =>
                root = Published(b)
<1> DEFINE p == [state |-> "Prepared", outcome |-> "None"]
           A == JournalOf(b).outcome # "None"
           B == JournalOf(b) = NoJournal /\ root.root = b.old
           C == JournalOf(b) = p /\ root.root = b.old
           D == JournalOf(b) = p /\ root = Published(b)
<1>1. NoJournal.outcome = "None" /\ p.outcome = "None" /\ NoJournal # p
  BY SMTT(60) DEF NoJournal
<1>2. CASE A
  <2>1. RecoveredState(b) = JournalOf(b)
    BY <1>1, <1>2 DEF RecoveredState
  <2> QED
    BY <1>2, <2>1
<1>3. CASE ~ A /\ B
  <2>1. RecoveredState(b) = [state |-> "None", outcome |-> "NotStartedOldRoot"]
    BY <1>1, <1>3 DEF RecoveredState
  <2>2. RecoveredState(b).outcome = "NotStartedOldRoot"
    BY <2>1, SMTT(60)
  <2> QED
    BY <1>3, <2>2 DEF CommittedOutcomes
<1>4. CASE ~ A /\ ~ B /\ (C \/ D)
  <2>1. \/ RecoveredState(b) = [state |-> "Aborted", outcome |-> "OldRootAborted"]
        \/ /\ RecoveredState(b) = [state |-> "Committed", outcome |-> "NewRootCommitted"]
           /\ root = Published(b)
    BY <1>1, <1>4, SMTT(60) DEF RecoveredState
  <2>2. \/ RecoveredState(b).outcome = "OldRootAborted"
        \/ RecoveredState(b).outcome = "NewRootCommitted" /\ root = Published(b)
    BY <2>1, SMTT(60)
  <2> QED
    BY <1>4, <2>2 DEF CommittedOutcomes
<1>5. CASE ~ A /\ ~ B /\ ~ C /\ ~ D
  BY <1>5 DEF RecoveredState
<1> QED
  BY <1>2, <1>3, <1>4, <1>5

\* The journal of a transaction that has a handle.
LEMMA HandleHasJournal ==
    ASSUME EffectInv, NEW b \in handles
    PROVE  b \in DOMAIN journals /\ JournalOf(b) = journals[b] /\ b.old # b.new
  BY DEF EffectInv, JournalOf

\* The calls on a journal that leave the root and the journal of the transaction
\* alone: a refused commit, and an answer repeated from a recorded outcome.
LEMMA RepeatedPreserves ==
    ASSUME EffectInv, NEW b \in handles, UNCHANGED <<root, journals>>,
           handles' = handles \ {b}, NEW acceptance,
           \/ txReceipts' = txReceipts
           \/ JournalOf(b).outcome # "None" /\ HandOut(b, JournalOf(b).outcome, acceptance)
    PROVE  EffectInv' /\ OutcomesAreFinal
<1>1. b \in DOMAIN journals /\ JournalOf(b) = journals[b] /\ b.old # b.new
  BY HandleHasJournal
<1>2. /\ txReceipts \subseteq txReceipts'
      /\ \A t \in txReceipts' \ txReceipts :
           /\ journals'[b].outcome # "None"
           /\ \E a : t = TransactionReceipt(b, journals'[b].outcome, a)
  BY <1>1, HandOutIs
<1>3. DOMAIN journals' = DOMAIN journals \cup {b} /\ root' = root
  BY <1>1
<1>4. journals'[b].outcome \in CommittedOutcomes => Committed(b)
  BY <1>1 DEF Committed
<1> QED
  BY <1>1, <1>2, <1>3, <1>4, EffectStepPreserves

\* The calls that record an outcome, or the preparation, of a transaction that
\* has none.
LEMMA RecordedPreserves ==
    ASSUME EffectInv, NEW b, b.old # b.new, NEW state, NEW outcome, Record(b, state, outcome),
           JournalOf(b).outcome # "None" => outcome = JournalOf(b).outcome,
           outcome \in CommittedOutcomes => Committed(b) \/ root' = Published(b),
           root' = root \/ (root' = Published(b) /\ root.root = b.old),
           handles' \subseteq handles \cup {b}, NEW acceptance,
           \/ txReceipts' = txReceipts
           \/ outcome # "None" /\ HandOut(b, outcome, acceptance)
    PROVE  EffectInv' /\ OutcomesAreFinal
<1>1. /\ DOMAIN journals' = DOMAIN journals \cup {b}
      /\ journals'[b] = [state |-> state, outcome |-> outcome]
      /\ \A x \in DOMAIN journals : x # b => journals'[x] = journals[x]
  BY RecordIs
<1>2. journals'[b].outcome = outcome
  BY <1>1, SMTT(60)
<1>3. /\ txReceipts \subseteq txReceipts'
      /\ \A t \in txReceipts' \ txReceipts :
           /\ journals'[b].outcome # "None"
           /\ \E a : t = TransactionReceipt(b, journals'[b].outcome, a)
  BY <1>2, HandOutIs
<1>4. b \in DOMAIN journals /\ journals[b].outcome # "None" =>
        journals'[b].outcome = journals[b].outcome
  BY <1>2 DEF JournalOf
<1> QED
  BY <1>1, <1>2, <1>3, <1>4, EffectStepPreserves

\* Every call on an effect transaction keeps the invariant and the outcomes.
LEMMA EffectPreserves ==
    ASSUME EffectInv, EffectNext PROVE EffectInv' /\ OutcomesAreFinal
<1>1. PICK b \in Bindings :
          \/ BeginEffectTransaction(b) \/ AbortEffect(b) \/ AbortFinished(b) \/ RecoverEffect(b, {})
          \/ \E a \in Acceptances :
                \/ CommitRefused(b, a) \/ CommitFinished(b, a) \/ CommitEffect(b, a)
                \/ CommitDies(b, a) \/ RecoverEffect(b, {a})
  BY DEF EffectNext
<1>2. "NewRootCommitted" # "None" /\ "OldRootAborted" # "None"
      /\ "None" \notin CommittedOutcomes /\ "OldRootAborted" \notin CommittedOutcomes
  BY DEF CommittedOutcomes
<1>3. CASE BeginEffectTransaction(b)
  <2>1. /\ b.old # b.new /\ JournalOf(b).outcome = "None" /\ Record(b, "Prepared", "None")
        /\ handles' = handles \cup {b} /\ UNCHANGED <<root, txReceipts>>
    BY <1>3 DEF BeginEffectTransaction, ValidateJournalBinding
  <2> QED
    BY <1>2, <2>1, RecordedPreserves
<1>4. CASE AbortEffect(b)
  <2>1. /\ b \in handles /\ JournalOf(b) = [state |-> "Prepared", outcome |-> "None"]
        /\ Record(b, "Aborted", "OldRootAborted") /\ handles' = handles \ {b}
        /\ HandOut(b, "OldRootAborted", {}) /\ UNCHANGED root
    BY <1>4 DEF AbortEffect
  <2>2. JournalOf(b).outcome = "None"
    BY <2>1, SMTT(60)
  <2>3. b.old # b.new
    BY <2>1, HandleHasJournal
  <2> QED
    BY <1>2, <2>1, <2>2, <2>3, RecordedPreserves
<1>5. CASE AbortFinished(b)
  BY <1>5, RepeatedPreserves DEF AbortFinished
<1>6. ASSUME NEW acceptance, RecoverEffect(b, acceptance) PROVE EffectInv' /\ OutcomesAreFinal
  <2> DEFINE found == RecoveredState(b)
  <2>1. /\ b.old # b.new /\ found # NoJournal /\ Record(b, found.state, found.outcome)
        /\ HandOut(b, found.outcome, acceptance) /\ UNCHANGED <<root, handles>>
    BY <1>6 DEF RecoverEffect, ValidateJournalBinding
  <2>2. /\ found.outcome # "None"
        /\ JournalOf(b).outcome # "None" => found = JournalOf(b)
        /\ JournalOf(b).outcome = "None" /\ found.outcome \in CommittedOutcomes =>
             root = Published(b)
    BY <2>1, RecoveredCases
  <2> HIDE DEF found
  <2>3. found.outcome \in CommittedOutcomes => Committed(b) \/ root' = Published(b)
    <3>1. JournalOf(b).outcome # "None" => b \in DOMAIN journals /\ JournalOf(b) = journals[b]
      BY DEF JournalOf, NoJournal
    <3> QED
      BY <2>1, <2>2, <3>1 DEF Committed
  <2> QED
    BY <2>1, <2>2, <2>3, RecordedPreserves
<1>7. ASSUME NEW a, CommitRefused(b, a) PROVE EffectInv' /\ OutcomesAreFinal
  BY <1>7, RepeatedPreserves DEF CommitRefused
<1>8. ASSUME NEW a, CommitFinished(b, a) PROVE EffectInv' /\ OutcomesAreFinal
  BY <1>8, RepeatedPreserves DEF CommitFinished
<1>9. ASSUME Commits(b), b \in handles, root' = Published(b)
      PROVE  /\ b \in DOMAIN journals /\ b.old # b.new /\ JournalOf(b).outcome = "None"
             /\ JournalOf(b) = journals[b]
             /\ root' = root \/ (root' = Published(b) /\ root.root = b.old)
  <2>1. JournalOf(b) = [state |-> "Prepared", outcome |-> "None"]
    BY <1>9 DEF Commits
  <2>2. JournalOf(b).outcome = "None"
    BY <2>1, SMTT(60)
  <2> QED
    BY <1>9, <2>2, HandleHasJournal DEF Commits
<1>10. ASSUME NEW a, CommitEffect(b, a) PROVE EffectInv' /\ OutcomesAreFinal
  <2>1. /\ b \in handles /\ Commits(b) /\ root' = Published(b)
        /\ Record(b, "Committed", "NewRootCommitted") /\ handles' = handles \ {b}
        /\ HandOut(b, "NewRootCommitted", {a})
    BY <1>10 DEF CommitEffect
  <2> QED
    BY <1>2, <1>9, <2>1, RecordedPreserves
<1>11. ASSUME NEW a, CommitDies(b, a) PROVE EffectInv' /\ OutcomesAreFinal
  <2>1. /\ b \in handles /\ Commits(b) /\ root' = Published(b) /\ handles' = handles \ {b}
        /\ journals' = journals /\ txReceipts' = txReceipts
    BY <1>11 DEF CommitDies
  <2>2. DOMAIN journals' = DOMAIN journals \cup {b}
    BY <1>9, <2>1
  <2>3. journals'[b].outcome \notin CommittedOutcomes
    BY <1>2, <1>9, <2>1
  <2> QED
    BY <1>9, <2>1, <2>2, <2>3, EffectStepPreserves
<1> QED
  BY <1>1, <1>3, <1>4, <1>5, <1>6, <1>7, <1>8, <1>10, <1>11

\* Nothing is begun.
LEMMA EffectInitial ==
    ASSUME EffectInit PROVE EffectInv
<1>1. DOMAIN journals = {} /\ handles = {} /\ txReceipts = {} /\ root.by = {}
  BY SMTT(60) DEF EffectInit
<1>2. \A b : Published(b).by = {b}
  BY DEF Published
<1>3. \A b : root # Published(b)
  BY <1>1, <1>2
<1> QED
  BY <1>1, <1>3 DEF EffectInv, Committed

-----------------------------------------------------------------------------
(* Restorations and baseline runs.                                          *)

\* A permit rests on a receipt that restores its safepoint, a baseline run on a
\* permit and on a committed receipt from the safepoint's root.
DeoptInv ==
    /\ \A p \in resumePermits : p.receipt \in txReceipts /\ RestoresSafepoint(p.plan, p.receipt)
    /\ \A b \in baselineReceipts :
          /\ b.permit \in resumePermits /\ b.run \in txReceipts
          /\ b.run.disposition = "CandidateCommitted"
          /\ b.run.baseline = b.permit.plan.safepoint.root

\* verify_restoration and verify_baseline_execution check what they rest on.
LEMMA DeoptPreserves ==
    ASSUME DeoptInv, Deoptimize \/ RunBaseline, txReceipts' = txReceipts
    PROVE  /\ DeoptInv'
           /\ resumePermits \subseteq resumePermits' /\ baselineReceipts \subseteq baselineReceipts'
<1>1. ASSUME NEW plan, NEW t \in txReceipts, NEW u, NEW h, VerifyRestoration(plan, t, u, h)
      PROVE  /\ DeoptInv'
             /\ resumePermits \subseteq resumePermits' /\ baselineReceipts \subseteq baselineReceipts'
  <2> DEFINE new == [plan |-> plan, receipt |-> t, usage |-> u, head |-> h]
  <2>1. /\ RestoresSafepoint(plan, t) /\ resumePermits' = resumePermits \cup {new}
        /\ baselineReceipts' = baselineReceipts
    BY <1>1 DEF VerifyRestoration
  <2>2. new.plan = plan /\ new.receipt = t
    OBVIOUS
  <2> HIDE DEF new
  <2> QED
    BY <2>1, <2>2 DEF DeoptInv
<1>2. ASSUME NEW p \in resumePermits, NEW t \in txReceipts, NEW u, NEW h,
             VerifyBaselineExecution(p, t, u, h)
      PROVE  /\ DeoptInv'
             /\ resumePermits \subseteq resumePermits' /\ baselineReceipts \subseteq baselineReceipts'
  <2> DEFINE new == [permit |-> p, run |-> t, usage |-> u, head |-> h]
  <2>1. /\ VerifiesBaselineRun(FrozenBaselineInvocation(p), t)
        /\ baselineReceipts' = baselineReceipts \cup {new} /\ resumePermits' = resumePermits
    BY <1>2 DEF VerifyBaselineExecution
  <2>2. t.disposition = "CandidateCommitted" /\ t.baseline = p.plan.safepoint.root
    BY <2>1 DEF VerifiesBaselineRun, FrozenBaselineInvocation
  <2>3. new.permit = p /\ new.run = t
    OBVIOUS
  <2> HIDE DEF new
  <2> QED
    BY <2>1, <2>2, <2>3 DEF DeoptInv
<1>3. CASE Deoptimize
  BY <1>1, <1>3 DEF Deoptimize
<1>4. CASE RunBaseline
  BY <1>2, <1>4 DEF RunBaseline
<1> QED
  BY <1>3, <1>4

-----------------------------------------------------------------------------
(* Requests.                                                                *)

\* What every admitted request is made of.
LEMMA RequestParts ==
    ASSUME NEW r \in PrepareRequests
    PROVE  /\ r.plan \in Seq(Instructions) /\ r.shield \in Shields /\ r.quality \in Admissions
           /\ G2(r) /\ G6(r) /\ G7(r)
<1>1. r \in OfferedRequests /\ G2(r) /\ G6(r) /\ G7(r)
  BY DEF PrepareRequests
<1>2. r.plan \in PlanLists /\ r.shield \in Shields /\ r.quality \in Admissions
  BY <1>1, SMTT(60) DEF OfferedRequests
<1> QED
  BY <1>1, <1>2, PlansAssumption

\* A shield either accepts nothing or is the shield of the one it accepts.
LEMMA ShieldCases ==
    ASSUME NEW s \in Shields
    PROVE  \/ s.kind = "ReadOnly" /\ s.action = {} /\ s.acceptance = {}
           \/ /\ s.kind = "AcceptedEffect"
              /\ \E a \in Acceptances :
                    s.acceptance = {a} /\ s.action = {a.action} /\ s.state = a.state
<1>1. CASE \E q \in Roots : s = ReadOnlyShield(q)
  BY <1>1, SMTT(60) DEF ReadOnlyShield
<1>2. CASE \E a \in Acceptances : s = AcceptedShield(a)
  BY <1>2, SMTT(60) DEF AcceptedShield
<1> QED
  BY <1>1, <1>2 DEF Shields

\* A plan that stages an effect does so before it closes.
LEMMA PlanStages ==
    ASSUME NEW r \in PrepareRequests, NEW c, r.shield.action = {c}
    PROVE  \E i \in 1 .. Len(r.plan) - 1 : r.plan[i] = "StageEffect"
<1>1. r.class # "ReadOnly"
  BY RequestParts, ShieldCases DEF G6
<1>2. /\ Position(r.plan, "CloseTransaction") = {Len(r.plan)}
      /\ Cardinality(Position(r.plan, "StageEffect")) = 1
  BY <1>1, RequestParts DEF G2
<1>3. Position(r.plan, "StageEffect") # {}
  <2>1. Cardinality({}) = 0
    BY FS_EmptySet
  <2>2. 0 # 1
    BY SMT
  <2> QED
    BY <1>2, <2>1, <2>2
<1>4. PICK i \in DOMAIN r.plan : r.plan[i] = "StageEffect"
  BY <1>3 DEF Position
<1>5. r.plan[Len(r.plan)] = "CloseTransaction"
  BY <1>2 DEF Position
<1>6. i # Len(r.plan)
  BY <1>4, <1>5
<1>7. r.plan \in Seq(Instructions)
  BY RequestParts
<1>8. i \in 1 .. Len(r.plan) - 1
  <2> DEFINE p == r.plan
  <2>1. p \in Seq(Instructions) /\ i \in DOMAIN p /\ i # Len(p)
    BY <1>4, <1>6, <1>7
  <2> HIDE DEF p
  <2>2. i \in 1 .. Len(p) - 1
    BY <2>1, SMTT(60)
  <2> QED
    BY <2>2 DEF p
<1> QED
  BY <1>4, <1>8

\* Which claims a certificate was minted from.
LEMMA CertificateCases ==
    ASSUME NEW c \in Certificates
    PROVE  \/ \E p \in QualityPairs : c \in ExactNeutral(p)
           \/ \E p, q \in QualityPairs : c \in PointwisePair(p, q)
           \/ \E r \in ClassRules, m \in Memberships : c \in ScopedClass(r, m, r, m)
           \/ \E b, d \in Benchmarks : c \in Distributional(b, d, Scale)
           \/ c.class = "Unidentified"
<1>1. CASE \E b \in ExecutionBindings :
              c = Unidentified(b.task, b.comparison, ProtocolIdentity(b), FrozenBaseline)
  BY <1>1, SMTT(60) DEF Unidentified
<1>2. \/ \E p \in QualityPairs : c \in ExactNeutral(p)
      \/ \E p, q \in QualityPairs : c \in PointwisePair(p, q)
      \/ \E r \in ClassRules, m \in Memberships : c \in ScopedClass(r, m, r, m)
      \/ \E b, d \in Benchmarks : c \in Distributional(b, d, Scale)
      \/ \E b \in ExecutionBindings :
              c = Unidentified(b.task, b.comparison, ProtocolIdentity(b), FrozenBaseline)
  BY SMTT(60) DEF Certificates
<1> QED
  BY <1>1, <1>2

\* admit_strict selects the candidate only of a protocol that was measured no
\* worse, and G7 holds the execution to that protocol and that task.
LEMMA SelectedIsMeasured ==
    ASSUME NEW r \in PrepareRequests, r.quality.selection = "Candidate"
    PROVE  MeasuredNoWorse(r.binding)
<1> DEFINE a == r.quality
           t == r.binding
<1>1. /\ a \in Admissions /\ a.selection = Selection(a.class) /\ a.comparison = t.comparison
      /\ a.class # "Distributional" => a.scope = t.task
      /\ a.candidate = ProtocolIdentity(t)
  BY RequestParts DEF G7, CoherentAdmission
<1>2. PICK c \in Certificates : a \in AdmitStrict(c, FrozenBaseline)
  BY <1>1 DEF Admissions
<1> HIDE DEF a, t
<1>3. /\ a.class = c.class /\ a.scope = c.scope /\ a.comparison = c.comparison
      /\ a.candidate = c.candidate
  BY <1>2, SMTT(60) DEF AdmitStrict, Minted
<1>4. c.class \in {"ExactNeutral", "PointwiseDominance", "ScopedClassDominance"}
  <2>1. Selection(a.class) = "Candidate"
    BY <1>1 DEF a
  <2> QED
    BY <1>3, <2>1 DEF Selection
<1>5. c.scope = t.task /\ c.comparison = t.comparison /\ c.candidate = ProtocolIdentity(t)
  <2>1. c.class # "Distributional"
    BY <1>4
  <2> QED
    BY <1>1, <1>3, <2>1
<1>6. ASSUME NEW p \in QualityPairs, c \in ExactNeutral(p) PROVE MeasuredNoWorse(t)
  <2>1. /\ Same(p.continuation) /\ Same(p.input) /\ Same(p.outcome)
        /\ c.scope = p.task /\ c.comparison = p.comparison /\ c.candidate = p.candidate
    BY <1>6, SMTT(60) DEF ExactNeutral, Minted
  <2> QED
    BY <1>5, <2>1 DEF MeasuredNoWorse
<1>7. ASSUME NEW p \in QualityPairs, NEW q, c \in PointwisePair(p, q) PROVE MeasuredNoWorse(t)
  <2>1. /\ \A i \in DOMAIN p.dimensions : NoWorse(p.dimensions[i])
        /\ c.scope = p.task /\ c.comparison = p.comparison /\ c.candidate = p.candidate
    <3>1. /\ ValidPair(p)
          /\ c.scope = p.task /\ c.comparison = p.comparison /\ c.candidate = p.candidate
      BY <1>7, SMTT(60) DEF PointwisePair, Minted
    <3> QED
      BY <3>1 DEF ValidPair, DeclaredParetoVector
  <2> QED
    BY <1>5, <2>1 DEF MeasuredNoWorse
<1>8. ASSUME NEW u \in ClassRules, NEW m \in Memberships, c \in ScopedClass(u, m, u, m)
      PROVE  MeasuredNoWorse(t)
  <2>1. /\ u.class = m.class /\ u.protocol = m.protocol
        /\ c.scope = m.task /\ c.comparison = u.comparison /\ c.candidate = u.protocol
    BY <1>8, SMTT(60) DEF ScopedClass, Minted
  <2> QED
    BY <1>5, <2>1 DEF MeasuredNoWorse
<1>9. ASSUME NEW b, NEW d, c \in Distributional(b, d, Scale) PROVE FALSE
  BY <1>4, <1>9, SMTT(60) DEF Distributional, Minted
<1>10. MeasuredNoWorse(t)
  BY <1>4, <1>6, <1>7, <1>8, <1>9, CertificateCases
<1> QED
  BY <1>10 DEF t

-----------------------------------------------------------------------------
(* Executions.                                                              *)

Closures == CommitClosures \cup FallbackClosures

Phases == {"Permitted", "Running", "Ready", "Final", "Lost"}

Execution ==
    [request : PrepareRequests, phase : Phases, next : Nat, fuel : Nat, verified : BOOLEAN,
     staged : SUBSET Acceptances, closure : SUBSET Closures, failed : BOOLEAN]

\* What was planned before the next step was done.
Staged(x) ==
    \A i \in 1 .. x.next - 1 : x.request.plan[i] = "StageEffect" => x.staged # {}

\* A closed execution has one closure, valid for its request; it commits only
\* what it verified and staged.
Closed(x) ==
    \E c \in Closures :
        /\ x.closure = {c} /\ ValidateClosure(x.request, c, x.failed)
        /\ c.kind = "Commit" => x.verified /\ x.staged # {}

ExecutionInv(x) ==
    /\ x \in Execution
    /\ x.phase \in {"Permitted", "Running"} => Staged(x) /\ ~x.failed
    /\ \A a \in x.staged : x.request.shield.acceptance = {a} /\ x.request.shield.action = {a.action}
    /\ x.phase \in {"Ready", "Final"} => Closed(x)

\* A final receipt names a closed execution and what its closure says.
Finalized(r) ==
    /\ r.execution \in DOMAIN executions /\ executions[r.execution].phase = "Final"
    /\ \E c : executions[r.execution].closure = {c} /\ r.kind = c.kind /\ r.root = c.root

KernelInv ==
    /\ executions \in Seq(Execution)
    /\ \A e \in DOMAIN executions : \A x : x = executions[e] => ExecutionInv(x)
    /\ \A r \in receipts : Finalized(r)

\* Closures stay, since no receipt they are made from is taken back.
LEMMA ClosuresStay ==
    ASSUME txReceipts \subseteq txReceipts', baselineReceipts \subseteq baselineReceipts'
    PROVE  Closures \subseteq Closures'
<1>1. CommitClosures \subseteq CommitClosures'
  BY DEF CommitClosures
<1>2. FallbackClosures \subseteq FallbackClosures'
  BY DEF FallbackClosures
<1> QED
  BY <1>1, <1>2 DEF Closures

\* What is known of an execution stays known.
LEMMA ExecutionStays ==
    ASSUME NEW x, ExecutionInv(x), Closures \subseteq Closures'
    PROVE  ExecutionInv(x)'
<1>1. x \in Execution'
  BY SMTT(60) DEF ExecutionInv, Execution
<1>2. Closed(x) => Closed(x)'
  BY DEF Closed
<1> QED
  BY <1>1, <1>2 DEF ExecutionInv, Staged

\* A step of the transactions or of deoptimization leaves the kernel as it was.
LEMMA KernelStays ==
    ASSUME KernelInv, UNCHANGED kernelVars,
           txReceipts \subseteq txReceipts', baselineReceipts \subseteq baselineReceipts'
    PROVE  KernelInv'
<1>1. Closures \subseteq Closures'
  BY ClosuresStay
<1>2. executions' = executions /\ receipts' = receipts
  BY DEF kernelVars
<1>3. Execution \subseteq Execution'
  BY <1>1, SMTT(60) DEF Execution
<1>4. executions \in Seq(Execution')
  <2> DEFINE A == Execution
             B == Execution'
  <2>1. executions \in Seq(A) /\ A \subseteq B
    BY <1>3 DEF KernelInv
  <2> HIDE DEF A, B
  <2>2. executions \in Seq(B)
    BY <2>1, SMTT(60)
  <2> QED
    BY <2>2 DEF B
<1>5. \A e \in DOMAIN executions : \A x : x = executions[e] => ExecutionInv(x)'
  BY <1>1, ExecutionStays DEF KernelInv
<1> QED
  BY <1>2, <1>4, <1>5 DEF KernelInv, Finalized

\* A receipt of an execution that is final.
Names(r, e, x) ==
    /\ r.execution = e /\ x.phase = "Final"
    /\ \E c : x.closure = {c} /\ r.kind = c.kind /\ r.root = c.root

\* A kernel step on one execution.
LEMMA BecomesPreserves ==
    ASSUME KernelInv, UNCHANGED <<fxVars, deoptVars>>,
           NEW e \in DOMAIN executions, executions[e].phase # "Final",
           NEW x, ExecutionInv(x), executions' = [executions EXCEPT ![e] = x],
           \A r \in receipts' : r \in receipts \/ Names(r, e, x)
    PROVE  KernelInv'
<1>1. Closures \subseteq Closures'
  BY ClosuresStay DEF fxVars, deoptVars
<1>2. Execution' = Execution
  BY DEF fxVars, deoptVars, Execution, Closures, CommitClosures, FallbackClosures
<1>3. /\ executions' \in Seq(Execution) /\ DOMAIN executions' = DOMAIN executions
      /\ executions'[e] = x
      /\ \A d \in DOMAIN executions : d # e => executions'[d] = executions[d]
  <2> DEFINE A == Execution
  <2>1. executions \in Seq(A) /\ x \in A
    BY DEF KernelInv, ExecutionInv
  <2> HIDE DEF A
  <2>2. executions' \in Seq(A) /\ DOMAIN executions' = DOMAIN executions
    BY <2>1, SMTT(60)
  <2>3. /\ executions'[e] = x
        /\ \A d \in DOMAIN executions : d # e => executions'[d] = executions[d]
    OBVIOUS
  <2> QED
    BY <2>2, <2>3 DEF A
<1>4. ASSUME NEW d \in DOMAIN executions', NEW y, y = executions'[d] PROVE ExecutionInv(y)'
  <2>1. ExecutionInv(y)
    BY <1>3, <1>4 DEF KernelInv
  <2> QED
    BY <1>1, <2>1, ExecutionStays
<1>5. ASSUME NEW r \in receipts' PROVE Finalized(r)'
  <2>1. CASE r \in receipts
    <3>1. Finalized(r)
      BY <2>1 DEF KernelInv
    <3>2. r.execution \in DOMAIN executions /\ r.execution # e
      BY <3>1 DEF Finalized
    <3> QED
      BY <1>3, <3>1, <3>2 DEF Finalized
  <2>2. CASE Names(r, e, x)
    BY <1>3, <2>2 DEF Finalized, Names
  <2> QED
    BY <2>1, <2>2
<1> QED
  BY <1>2, <1>3, <1>4, <1>5 DEF KernelInv

\* The plan advances by one step.
LEMMA AdvanceKeeps ==
    ASSUME NEW x, ExecutionInv(x), x.phase = "Running", NEW y \in Execution, y.request = x.request,
           y.phase = "Running", y.next = x.next + 1, x.staged \subseteq y.staged, ~y.failed,
           \A a \in y.staged :
              y.request.shield.acceptance = {a} /\ y.request.shield.action = {a.action},
           x.request.plan[x.next] = "StageEffect" => y.staged # {}
    PROVE  ExecutionInv(y)
<1>1. x.next \in Nat /\ Staged(x)
  BY SMTT(60) DEF ExecutionInv, Execution
<1>2. ASSUME NEW i \in 1 .. y.next - 1 PROVE i \in 1 .. x.next - 1 \/ i = x.next
  <2> DEFINE n == x.next
             m == y.next
  <2>1. n \in Nat /\ m = n + 1 /\ i \in 1 .. m - 1
    BY <1>1, <1>2
  <2> HIDE DEF n, m
  <2>2. i \in 1 .. n - 1 \/ i = n
    BY <2>1, SMTT(60)
  <2> QED
    BY <2>2 DEF n
<1>3. Staged(y)
  BY <1>1, <1>2 DEF Staged
<1> QED
  BY <1>3 DEF ExecutionInv

\* A step of the plan, by the instruction that comes next.
LEMMA StepPreserves ==
    ASSUME KernelInv, UNCHANGED <<fxVars, deoptVars>>, NEW e \in DOMAIN executions,
           NEW x, x = executions[e],
           \/ \E u \in Usages : Dispatch(e, u)
           \/ DeterministicTransform(e) \/ RecordVerification(e)
           \/ \E a \in Acceptances : StageEffect(e, a)
           \/ \E u \in Usages : BufferVisible(e, u)
    PROVE  KernelInv'
<1>1. ExecutionInv(x) /\ x \in Execution
  BY DEF KernelInv, ExecutionInv
<1>2. ASSUME NEW y \in Execution, x.phase = "Running", Becomes(e, y), y.request = x.request,
             y.phase = "Running", y.next = x.next + 1, x.staged \subseteq y.staged,
             y.failed = x.failed,
             \A a \in y.staged :
                y.request.shield.acceptance = {a} /\ y.request.shield.action = {a.action},
             x.request.plan[x.next] = "StageEffect" => y.staged # {}
      PROVE  KernelInv'
  <2>1. ExecutionInv(y)
    <3>1. ~y.failed
      BY <1>1, <1>2 DEF ExecutionInv
    <3> QED
      BY <1>1, <1>2, <3>1, AdvanceKeeps
  <2>2. executions' = [executions EXCEPT ![e] = y] /\ \A r \in receipts' : r \in receipts
    BY <1>2 DEF Becomes
  <2>3. executions[e].phase # "Final"
    BY <1>2
  <2> QED
    BY <2>1, <2>2, <2>3, BecomesPreserves
<1>3. \A a \in x.staged :
          x.request.shield.acceptance = {a} /\ x.request.shield.action = {a.action}
  BY <1>1 DEF ExecutionInv
<1>4. ASSUME NEW u \in Usages, Dispatch(e, u) PROVE KernelInv'
  <2> DEFINE z == [x EXCEPT !.fuel = x.fuel + u]
             y == [x EXCEPT !.fuel = x.fuel + u, !.next = x.next + 1]
  <2>1. Becomes(e, y) /\ x.phase = "Running" /\ x.request.plan[x.next] = "Dispatch"
    BY <1>4 DEF Dispatch, Expects
  <2>2. /\ y \in Execution /\ y.request = x.request /\ y.phase = x.phase
        /\ y.next = x.next + 1 /\ y.staged = x.staged /\ y.failed = x.failed
    <3>1. /\ z \in Execution /\ z.request = x.request /\ z.phase = x.phase
          /\ z.next = x.next /\ z.staged = x.staged /\ z.failed = x.failed
      BY <1>1, UsagesAssumption, SMTT(60) DEF Execution
    <3>2. y = [z EXCEPT !.next = x.next + 1]
      OBVIOUS
    <3> HIDE DEF y, z
    <3> QED
      BY <1>1, <3>1, <3>2, SMTT(60) DEF Execution
  <2> HIDE DEF y
  <2> QED
    BY <1>2, <1>3, <2>1, <2>2
<1>5. CASE DeterministicTransform(e)
  <2> DEFINE y == [x EXCEPT !.next = x.next + 1]
  <2>1. /\ Becomes(e, y) /\ x.phase = "Running"
        /\ x.request.plan[x.next] = "DeterministicTransform"
    BY <1>5 DEF DeterministicTransform, Expects
  <2>2. /\ y \in Execution /\ y.request = x.request /\ y.phase = x.phase
        /\ y.next = x.next + 1 /\ y.staged = x.staged /\ y.failed = x.failed
    BY <1>1, SMTT(60) DEF Execution
  <2> HIDE DEF y
  <2> QED
    BY <1>2, <1>3, <2>1, <2>2
<1>6. CASE RecordVerification(e)
  <2> DEFINE z == [x EXCEPT !.next = x.next + 1]
             v == TRUE
             y == [x EXCEPT !.next = x.next + 1, !.verified = TRUE]
  <2>1. Becomes(e, y) /\ x.phase = "Running" /\ x.request.plan[x.next] = "Verify"
    BY <1>6 DEF RecordVerification, Expects
  <2>2. /\ y \in Execution /\ y.request = x.request /\ y.phase = x.phase
        /\ y.next = x.next + 1 /\ y.staged = x.staged /\ y.failed = x.failed
    <3>1. /\ z \in Execution /\ z.request = x.request /\ z.phase = x.phase
          /\ z.next = x.next + 1 /\ z.staged = x.staged /\ z.failed = x.failed
      BY <1>1, SMTT(60) DEF Execution
    <3>2. y = [z EXCEPT !.verified = v] /\ v \in BOOLEAN
      OBVIOUS
    <3> HIDE DEF y, z, v
    <3> QED
      BY <3>1, <3>2, SMTT(60) DEF Execution
  <2> HIDE DEF y
  <2> QED
    BY <1>2, <1>3, <2>1, <2>2
<1>7. ASSUME NEW a \in Acceptances, StageEffect(e, a) PROVE KernelInv'
  <2> DEFINE z == [x EXCEPT !.next = x.next + 1]
             y == [x EXCEPT !.next = x.next + 1, !.staged = x.staged \cup {a}]
  <2>1. /\ Becomes(e, y) /\ x.phase = "Running"
        /\ x.request.shield.acceptance = {a} /\ x.request.shield.action = {a.action}
    BY <1>7 DEF StageEffect, Expects
  <2>2. /\ y \in Execution /\ y.request = x.request /\ y.phase = x.phase
        /\ y.next = x.next + 1 /\ y.staged = x.staged \cup {a}
        /\ y.failed = x.failed
    <3>1. /\ z \in Execution /\ z.request = x.request /\ z.phase = x.phase
          /\ z.next = x.next + 1 /\ z.staged = x.staged /\ z.failed = x.failed
      BY <1>1, SMTT(60) DEF Execution
    <3>2. y = [z EXCEPT !.staged = x.staged \cup {a}]
      OBVIOUS
    <3>3. x.staged \cup {a} \in SUBSET Acceptances
      BY <1>1, SMTT(60) DEF Execution
    <3> HIDE DEF y, z
    <3> QED
      BY <3>1, <3>2, <3>3, SMTT(60) DEF Execution
  <2> HIDE DEF y
  <2> QED
    BY <1>2, <1>3, <2>1, <2>2
<1>8. ASSUME NEW u \in Usages, BufferVisible(e, u) PROVE KernelInv'
  <2> DEFINE y == [x EXCEPT !.next = x.next + 1]
  <2>1. Becomes(e, y) /\ x.phase = "Running" /\ x.request.plan[x.next] = "BufferVisible"
    BY <1>8 DEF BufferVisible, Expects
  <2>2. /\ y \in Execution /\ y.request = x.request /\ y.phase = x.phase
        /\ y.next = x.next + 1 /\ y.staged = x.staged /\ y.failed = x.failed
    BY <1>1, SMTT(60) DEF Execution
  <2> HIDE DEF y
  <2> QED
    BY <1>2, <1>3, <2>1, <2>2
<1> QED
  BY <1>4, <1>5, <1>6, <1>7, <1>8

\* An execution is closed only by a closure that is valid for its request; the
\* effect it commits was staged, as the plan stages before it closes.
LEMMA ClosingPreserves ==
    ASSUME KernelInv, UNCHANGED <<fxVars, deoptVars>>, NEW e \in DOMAIN executions,
           NEW x, x = executions[e], NEW c \in Closures,
           CloseTransaction(e, c) \/ Abort(e, c)
    PROVE  KernelInv'
<1>1. ExecutionInv(x) /\ x \in Execution /\ x.request \in PrepareRequests
  <2>1. ExecutionInv(x) /\ x \in Execution
    BY DEF KernelInv, ExecutionInv
  <2> QED
    BY <2>1, SMTT(60) DEF Execution
<1>2. x.phase = "Running"
  BY DEF CloseTransaction, Abort, Expects
<1>3. \A a \in x.staged :
          x.request.shield.acceptance = {a} /\ x.request.shield.action = {a.action}
  BY <1>1 DEF ExecutionInv
<1>4. ASSUME NEW y, Becomes(e, y), ExecutionInv(y) PROVE KernelInv'
  <2>1. executions' = [executions EXCEPT ![e] = y] /\ \A r \in receipts' : r \in receipts
    BY <1>4 DEF Becomes
  <2>2. executions[e].phase # "Final"
    BY <1>2
  <2> QED
    BY <1>4, <2>1, <2>2, BecomesPreserves
<1>5. ASSUME Becomes(e, [x EXCEPT !.phase = "Lost"]) PROVE KernelInv'
  <2> DEFINE y == [x EXCEPT !.phase = "Lost"]
  <2>1. /\ y \in Execution /\ y.request = x.request /\ y.phase = "Lost" /\ y.staged = x.staged
    BY <1>1, SMTT(60) DEF Execution, Phases
  <2>2. Becomes(e, y)
    BY <1>5
  <2> HIDE DEF y
  <2>3. ExecutionInv(y)
    BY <1>3, <2>1 DEF ExecutionInv
  <2> QED
    BY <1>4, <2>2, <2>3
<1>6. ASSUME NEW y \in Execution, Becomes(e, y), y.request = x.request, y.phase = "Ready",
             y.staged = x.staged, y.closure = {c}, ValidateClosure(x.request, c, y.failed),
             c.kind = "Commit" => y.verified /\ y.staged # {}
      PROVE  KernelInv'
  <2>1. Closed(y)
    BY <1>6 DEF Closed
  <2>2. ExecutionInv(y)
    BY <1>3, <1>6, <2>1 DEF ExecutionInv
  <2> QED
    BY <1>4, <1>6, <2>2
<1>7. CASE CloseTransaction(e, c)
  <2>1. /\ Expects(x, "CloseTransaction")
        /\ Becomes(e, IF /\ x.next = Len(x.request.plan) /\ x.verified
                          /\ ValidateClosure(x.request, c, FALSE)
                       THEN [x EXCEPT !.phase = "Ready", !.next = x.next + 1, !.closure = {c}]
                       ELSE [x EXCEPT !.phase = "Lost"])
    BY <1>7 DEF CloseTransaction
  <2>2. CASE x.next = Len(x.request.plan) /\ x.verified /\ ValidateClosure(x.request, c, FALSE)
    <3> DEFINE w == [x EXCEPT !.phase = "Ready"]
               k == {c}
               z == [x EXCEPT !.phase = "Ready", !.next = x.next + 1]
               y == [x EXCEPT !.phase = "Ready", !.next = x.next + 1, !.closure = {c}]
    <3>1. Becomes(e, y)
      BY <2>1, <2>2
    <3>2. /\ y \in Execution /\ y.request = x.request /\ y.phase = "Ready"
          /\ y.staged = x.staged /\ y.closure = {c} /\ y.failed = x.failed
          /\ y.verified = x.verified
      <4>1. /\ w \in Execution /\ w.request = x.request /\ w.phase = "Ready" /\ w.next = x.next
            /\ w.staged = x.staged /\ w.failed = x.failed /\ w.verified = x.verified
        BY <1>1, SMTT(60) DEF Execution, Phases
      <4>2. z = [w EXCEPT !.next = x.next + 1]
        OBVIOUS
      <4>3. y = [z EXCEPT !.closure = k] /\ k \in SUBSET Closures
        OBVIOUS
      <4> HIDE DEF y, z, w, k
      <4>4. /\ z \in Execution /\ z.request = x.request /\ z.phase = "Ready"
            /\ z.staged = x.staged /\ z.failed = x.failed /\ z.verified = x.verified
        BY <1>1, <4>1, <4>2, SMTT(60) DEF Execution
      <4>5. /\ y \in Execution /\ y.request = x.request /\ y.phase = "Ready"
            /\ y.staged = x.staged /\ y.closure = k /\ y.failed = x.failed
            /\ y.verified = x.verified
        BY <4>3, <4>4, SMTT(60) DEF Execution
      <4> QED
        BY <4>5 DEF k
    <3> HIDE DEF y
    <3>3. ASSUME c.kind = "Commit" PROVE x.staged # {}
      <4>1. x.request.shield.action = {c.action}
        BY <2>2, <3>3 DEF ValidateClosure
      <4>2. PICK i \in 1 .. Len(x.request.plan) - 1 : x.request.plan[i] = "StageEffect"
        BY <1>1, <4>1, PlanStages
      <4>3. Staged(x)
        BY <1>1, <1>2 DEF ExecutionInv
      <4> QED
        BY <2>2, <4>2, <4>3 DEF Staged
    <3>4. ValidateClosure(x.request, c, y.failed)
      <4>1. x.failed \in BOOLEAN
        BY <1>1, SMTT(60) DEF Execution
      <4>2. ~x.failed
        BY <1>1, <1>2 DEF ExecutionInv
      <4> QED
        BY <2>2, <3>2, <4>1, <4>2
    <3> QED
      BY <1>6, <2>2, <3>1, <3>2, <3>3, <3>4
  <2>3. CASE ~(x.next = Len(x.request.plan) /\ x.verified /\ ValidateClosure(x.request, c, FALSE))
    BY <1>5, <2>1, <2>3
  <2> QED
    BY <2>2, <2>3
<1>8. CASE Abort(e, c)
  <2>1. Becomes(e, IF c.kind = "Fallback" /\ ValidateClosure(x.request, c, TRUE)
                   THEN [x EXCEPT !.phase = "Ready", !.closure = {c}, !.failed = TRUE]
                   ELSE [x EXCEPT !.phase = "Lost"])
    BY <1>8 DEF Abort
  <2>2. CASE c.kind = "Fallback" /\ ValidateClosure(x.request, c, TRUE)
    <3> DEFINE w == [x EXCEPT !.phase = "Ready"]
               v == TRUE
               z == [x EXCEPT !.phase = "Ready", !.closure = {c}]
               y == [x EXCEPT !.phase = "Ready", !.closure = {c}, !.failed = TRUE]
    <3>1. Becomes(e, y)
      BY <2>1, <2>2
    <3>2. /\ y \in Execution /\ y.request = x.request /\ y.phase = "Ready"
          /\ y.staged = x.staged /\ y.closure = {c} /\ y.failed = TRUE
      <4>1. /\ w \in Execution /\ w.request = x.request /\ w.phase = "Ready"
            /\ w.staged = x.staged
        BY <1>1, SMTT(60) DEF Execution, Phases
      <4>2. z = [w EXCEPT !.closure = {c}]
        OBVIOUS
      <4>3. y = [z EXCEPT !.failed = v] /\ v \in BOOLEAN
        OBVIOUS
      <4> HIDE DEF y, z, w, v
      <4>4. /\ z \in Execution /\ z.request = x.request /\ z.phase = "Ready"
            /\ z.staged = x.staged /\ z.closure = {c}
        BY <4>1, <4>2, SMTT(60) DEF Execution
      <4>5. /\ y \in Execution /\ y.request = x.request /\ y.phase = "Ready"
            /\ y.staged = x.staged /\ y.closure = {c} /\ y.failed = v
        BY <4>3, <4>4, SMTT(60) DEF Execution
      <4> QED
        BY <4>5 DEF v
    <3> HIDE DEF y
    <3>3. c.kind # "Commit"
      BY <2>2
    <3> QED
      BY <1>6, <2>2, <3>1, <3>2, <3>3
  <2>3. CASE ~(c.kind = "Fallback" /\ ValidateClosure(x.request, c, TRUE))
    BY <1>5, <2>1, <2>3
  <2> QED
    BY <2>2, <2>3
<1> QED
  BY <1>7, <1>8

\* Every call of the kernel keeps its invariant.
LEMMA KernelPreserves ==
    ASSUME KernelInv, Kernel, UNCHANGED <<fxVars, deoptVars>> PROVE KernelInv'
<1>1. CASE Prepare
  <2>1. PICK r \in PrepareRequests :
            executions' = Append(executions,
               [request |-> r, phase |-> "Permitted", next |-> 1, fuel |-> 0,
                verified |-> FALSE, staged |-> {}, closure |-> {}, failed |-> FALSE])
    BY <1>1 DEF Prepare
  <2>2. receipts' = receipts
    BY <1>1 DEF Prepare
  <2> DEFINE x == [request |-> r, phase |-> "Permitted", next |-> 1, fuel |-> 0,
                   verified |-> FALSE, staged |-> {}, closure |-> {}, failed |-> FALSE]
  <2>3. /\ x \in Execution /\ x.phase = "Permitted" /\ x.next = 1 /\ x.staged = {} /\ ~x.failed
    BY SMTT(60) DEF Execution, Phases
  <2>4. executions' = Append(executions, x)
    BY <2>1
  <2> HIDE DEF x
  <2>5. Staged(x)
    <3>1. 1 .. x.next - 1 = {}
      BY <2>3, SMTT(60)
    <3> QED
      BY <3>1 DEF Staged
  <2>6. ExecutionInv(x)
    BY <2>3, <2>5 DEF ExecutionInv
  <2>7. Closures \subseteq Closures'
    BY ClosuresStay DEF fxVars, deoptVars
  <2>8. Execution' = Execution
    BY DEF fxVars, deoptVars, Execution, Closures, CommitClosures, FallbackClosures
  <2>9. /\ executions' \in Seq(Execution)
        /\ \A d \in DOMAIN executions : d \in DOMAIN executions' /\ executions'[d] = executions[d]
        /\ \A d \in DOMAIN executions' : d \in DOMAIN executions \/ executions'[d] = x
    <3> DEFINE A == Execution
    <3>1. executions \in Seq(A) /\ x \in A
      BY <2>3 DEF KernelInv
    <3> HIDE DEF A
    <3>2. /\ executions' \in Seq(A)
          /\ \A d \in DOMAIN executions : d \in DOMAIN executions' /\ executions'[d] = executions[d]
          /\ \A d \in DOMAIN executions' : d \in DOMAIN executions \/ executions'[d] = x
      BY <2>4, <3>1, SMTT(60)
    <3> QED
      BY <3>2 DEF A
  <2>10. ASSUME NEW d \in DOMAIN executions', NEW y, y = executions'[d] PROVE ExecutionInv(y)'
    <3>1. ExecutionInv(y)
      BY <2>6, <2>9, <2>10 DEF KernelInv
    <3> QED
      BY <2>7, <3>1, ExecutionStays
  <2>11. ASSUME NEW s \in receipts' PROVE Finalized(s)'
    <3>1. Finalized(s)
      BY <2>2, <2>11 DEF KernelInv
    <3> QED
      BY <2>9, <3>1 DEF Finalized
  <2> QED
    BY <2>8, <2>9, <2>10, <2>11 DEF KernelInv
<1>2. ASSUME NEW e \in DOMAIN executions, KernelStep(e) PROVE KernelInv'
  <2> DEFINE x == executions[e]
  <2>1. ExecutionInv(x) /\ x \in Execution
    BY DEF KernelInv, ExecutionInv
  <2>2. ASSUME NEW expired \in BOOLEAN, Start(e, expired) PROVE KernelInv'
    <3> DEFINE p == IF expired THEN "Lost" ELSE "Running"
               y == [x EXCEPT !.phase = p]
    <3>1. x.phase = "Permitted" /\ Becomes(e, y)
      BY <2>2 DEF Start
    <3>2. p \in Phases /\ p \notin {"Ready", "Final"}
      BY DEF Phases
    <3> HIDE DEF x, p
    <3>3. /\ y \in Execution /\ y.phase = p /\ y.request = x.request /\ y.next = x.next
          /\ y.staged = x.staged /\ y.failed = x.failed
      BY <2>1, <3>2, SMTT(60) DEF Execution
    <3> HIDE DEF y
    <3>4. ExecutionInv(y)
      <4>1. Staged(x) /\ ~x.failed
        BY <2>1, <3>1 DEF ExecutionInv
      <4>2. Staged(y) /\ ~y.failed
        BY <3>3, <4>1 DEF Staged
      <4>3. \A a \in y.staged :
                y.request.shield.acceptance = {a} /\ y.request.shield.action = {a.action}
        BY <2>1, <3>3 DEF ExecutionInv
      <4> QED
        BY <3>2, <3>3, <4>2, <4>3 DEF ExecutionInv
    <3>5. /\ executions' = [executions EXCEPT ![e] = y] /\ \A r \in receipts' : r \in receipts
          /\ executions[e].phase # "Final"
      BY <3>1 DEF Becomes, x
    <3> QED
      BY <3>4, <3>5, BecomesPreserves
  <2>3. CASE \/ \E u \in Usages : Dispatch(e, u)
             \/ DeterministicTransform(e) \/ RecordVerification(e)
             \/ \E a \in Acceptances : StageEffect(e, a)
             \/ \E u \in Usages : BufferVisible(e, u)
    BY <2>3, StepPreserves
  <2>4. ASSUME NEW c \in CommitClosures \cup FallbackClosures, CloseTransaction(e, c) \/ Abort(e, c)
        PROVE  KernelInv'
    <3>1. c \in Closures
      BY DEF Closures
    <3> QED
      BY <2>4, <3>1, ClosingPreserves
  <2>5. CASE Finalize(e)
    <3> DEFINE y == [x EXCEPT !.phase = "Final"]
               minted(c) == [execution |-> e, kind |-> c.kind, root |-> c.root,
                             failed |-> x.failed, assembly |-> x.request.binding.assembly]
    <3>1. /\ x.phase = "Ready" /\ executions' = [executions EXCEPT ![e] = y]
          /\ receipts' = receipts \cup {minted(c) : c \in x.closure}
      BY <2>5 DEF Finalize
    <3>2. \A c : /\ minted(c).execution = e /\ minted(c).kind = c.kind
                 /\ minted(c).root = c.root
      OBVIOUS
    <3>3. executions[e].phase # "Final"
      BY <3>1
    <3> HIDE DEF x, minted
    <3>4. /\ y \in Execution /\ y.phase = "Final" /\ y.request = x.request
          /\ y.verified = x.verified /\ y.staged = x.staged /\ y.closure = x.closure
          /\ y.failed = x.failed
      BY <2>1, SMTT(60) DEF Execution, Phases
    <3> HIDE DEF y
    <3>5. PICK c \in Closures :
              /\ x.closure = {c} /\ ValidateClosure(x.request, c, x.failed)
              /\ c.kind = "Commit" => x.verified /\ x.staged # {}
      BY <2>1, <3>1 DEF ExecutionInv, Closed
    <3>6. ExecutionInv(y)
      <4>1. Closed(y)
        BY <3>4, <3>5 DEF Closed
      <4>2. \A a \in y.staged :
                y.request.shield.acceptance = {a} /\ y.request.shield.action = {a.action}
        BY <2>1, <3>4 DEF ExecutionInv
      <4>3. y.phase \notin {"Permitted", "Running"}
        BY <3>4
      <4> QED
        BY <3>4, <4>1, <4>2, <4>3 DEF ExecutionInv
    <3>7. \A r \in receipts' : r \in receipts \/ Names(r, e, y)
      <4>1. ASSUME NEW r \in receipts', r \notin receipts PROVE Names(r, e, y)
        <5>1. PICK d \in x.closure : r = minted(d)
          BY <3>1, <4>1
        <5>2. d = c
          BY <3>5, <5>1
        <5>3. r.execution = e /\ r.kind = c.kind /\ r.root = c.root
          BY <3>2, <5>1, <5>2
        <5>4. y.closure = {c}
          BY <3>4, <3>5
        <5> QED
          BY <3>4, <5>3, <5>4 DEF Names
      <4> QED
        BY <4>1
    <3> QED
      BY <3>1, <3>3, <3>6, <3>7, BecomesPreserves
  <2> QED
    BY <1>2, <2>2, <2>3, <2>4, <2>5 DEF KernelStep
<1>3. ASSUME NEW r, NEW b, PublishDurable(r, b) PROVE KernelInv'
  <2>1. executions' = executions /\ receipts' = receipts
    BY <1>3 DEF PublishDurable
  <2>2. Closures \subseteq Closures'
    BY ClosuresStay DEF fxVars, deoptVars
  <2>3. Execution' = Execution
    BY DEF fxVars, deoptVars, Execution, Closures, CommitClosures, FallbackClosures
  <2>4. \A e \in DOMAIN executions : \A x : x = executions[e] => ExecutionInv(x)'
    BY <2>2, ExecutionStays DEF KernelInv
  <2> QED
    BY <2>1, <2>3, <2>4 DEF KernelInv, Finalized
<1> QED
  BY <1>1, <1>2, <1>3 DEF Kernel

-----------------------------------------------------------------------------
(* What a final receipt says.                                               *)

GateInv == EffectInv /\ DeoptInv /\ KernelInv

\* What a receipt in a caller's hands says of the journal of its transaction.
LEMMA ReceiptIsTrue ==
    ASSUME GateInv, NEW t \in txReceipts
    PROVE  /\ t.binding \in DOMAIN journals
           /\ t.baseline = t.binding.old /\ t.candidate = t.binding.new
           /\ t.debt = t.binding.closed.debt /\ t.action = t.binding.closed.action
           /\ t.disposition = "CandidateCommitted" =>
                Committed(t.binding) /\ t.observed = t.binding.new
           /\ t.disposition = "BaselineRootRecovered" => ~Committed(t.binding)
<1>1. TrueReceipt(t)
  BY DEF GateInv, EffectInv
<1>2. PICK acceptance : t = TransactionReceipt(t.binding, t.outcome, acceptance)
  BY <1>1 DEF TrueReceipt
<1>3. /\ t.baseline = t.binding.old /\ t.candidate = t.binding.new
      /\ t.debt = t.binding.closed.debt /\ t.action = t.binding.closed.action
      /\ t.disposition = "CandidateCommitted" =>
           t.outcome \in CommittedOutcomes /\ t.observed = t.binding.new
      /\ t.disposition = "BaselineRootRecovered" => t.outcome \notin CommittedOutcomes
  <2> DEFINE b == t.binding
             o == t.outcome
  <2>1. t = TransactionReceipt(b, o, acceptance)
    BY <1>2
  <2> HIDE DEF b, o
  <2>2. /\ t.baseline = b.old /\ t.candidate = b.new
        /\ t.debt = b.closed.debt /\ t.action = b.closed.action
        /\ t.disposition = "CandidateCommitted" => o \in CommittedOutcomes /\ t.observed = b.new
        /\ t.disposition = "BaselineRootRecovered" => o \notin CommittedOutcomes
    BY <2>1 DEF TransactionReceipt
  <2> QED
    BY <2>2 DEF b, o
<1> QED
  BY <1>1, <1>3 DEF TrueReceipt, Committed

\* A closure of either kind, and what it was made from.
LEMMA ClosureCases ==
    ASSUME NEW c \in Closures
    PROVE  \/ /\ c.kind = "Commit"
              /\ \E t \in txReceipts :
                    /\ t.disposition = "CandidateCommitted" /\ c.root = t.observed
                    /\ c.action = t.action /\ c.baseline = t.baseline /\ c.debt = t.debt
           \/ /\ c.kind = "Fallback"
              /\ \E b \in baselineReceipts :
                    /\ c.basis = b /\ c.root = b.run.observed
                    /\ c.baseline = b.permit.receipt.baseline
                    /\ c.names = {<<b.permit.plan.binding, b.permit.plan.admission>>}
<1>1. CASE c \in CommitClosures
  <2>1. PICK t \in txReceipts :
            /\ t.disposition = "CandidateCommitted"
            /\ c = [kind |-> "Commit", root |-> t.observed, action |-> t.action,
                    acceptance |-> t.acceptance, baseline |-> t.baseline,
                    candidate |-> t.candidate, debt |-> t.debt, basis |-> t, names |-> {}]
    BY <1>1 DEF CommitClosures
  <2>2. /\ c.kind = "Commit" /\ c.root = t.observed /\ c.action = t.action
        /\ c.baseline = t.baseline /\ c.debt = t.debt
    BY <2>1, SMTT(60)
  <2> QED
    BY <2>1, <2>2
<1>2. CASE c \in FallbackClosures
  <2>1. PICK b \in baselineReceipts :
            c = [kind |-> "Fallback", root |-> b.run.observed, action |-> b.run.action,
                 acceptance |-> b.run.acceptance, baseline |-> b.permit.receipt.baseline,
                 candidate |-> b.permit.receipt.candidate, debt |-> 0, basis |-> b,
                 names |-> {<<b.permit.plan.binding, b.permit.plan.admission>>}]
    BY <1>2 DEF FallbackClosures
  <2>2. /\ c.kind = "Fallback" /\ c.basis = b /\ c.root = b.run.observed
        /\ c.baseline = b.permit.receipt.baseline
        /\ c.names = {<<b.permit.plan.binding, b.permit.plan.admission>>}
    BY <2>1, SMTT(60)
  <2> QED
    BY <2>1, <2>2
<1> QED
  BY <1>1, <1>2 DEF Closures

\* The execution of a final receipt and its closure.
LEMMA FinalExecution ==
    ASSUME GateInv, NEW r \in receipts, NEW x, x = executions[r.execution]
    PROVE  /\ x.request \in PrepareRequests
           /\ \A a \in x.staged :
                 x.request.shield.acceptance = {a} /\ x.request.shield.action = {a.action}
           /\ \E c \in Closures :
                 /\ x.closure = {c} /\ r.kind = c.kind /\ r.root = c.root
                 /\ ValidateClosure(x.request, c, x.failed)
                 /\ c.kind = "Commit" => x.verified /\ x.staged # {}
<1>1. Finalized(r)
  BY DEF GateInv, KernelInv
<1>2. x.phase = "Final" /\ ExecutionInv(x)
  BY <1>1 DEF Finalized, GateInv, KernelInv
<1>3. x.request \in PrepareRequests
  <2>1. x \in Execution
    BY <1>2 DEF ExecutionInv
  <2> QED
    BY <2>1, SMTT(60) DEF Execution
<1>4. PICK c \in Closures :
          /\ x.closure = {c} /\ ValidateClosure(x.request, c, x.failed)
          /\ c.kind = "Commit" => x.verified /\ x.staged # {}
  BY <1>2 DEF ExecutionInv, Closed
<1>5. PICK d : x.closure = {d} /\ r.kind = d.kind /\ r.root = d.root
  BY <1>1 DEF Finalized
<1>6. c = d
  BY <1>4, <1>5
<1> QED
  BY <1>2, <1>3, <1>4, <1>5, <1>6 DEF ExecutionInv

\* A commit receipt is earned.
LEMMA CommitEarned ==
    ASSUME GateInv PROVE CommitIsEarned
<1> SUFFICES ASSUME NEW r \in receipts, r.kind = "Commit", NEW x, x = executions[r.execution]
             PROVE  /\ x.verified
                    /\ \E b \in DOMAIN journals :
                          /\ journals[b].outcome \in CommittedOutcomes
                          /\ b.old = x.request.binding.state
                          /\ b.new = r.root
                          /\ b.closed.debt = 0
                          /\ x.staged # {}
                          /\ \A a \in x.staged : a.action = b.closed.action /\ a.state = b.old
                    /\ MeasuredNoWorse(x.request.binding)
  BY DEF CommitIsEarned
<1>1. /\ x.request \in PrepareRequests
      /\ \A a \in x.staged :
            x.request.shield.acceptance = {a} /\ x.request.shield.action = {a.action}
  BY FinalExecution
<1>2. PICK c \in Closures :
          /\ x.closure = {c} /\ r.kind = c.kind /\ r.root = c.root
          /\ ValidateClosure(x.request, c, x.failed)
          /\ c.kind = "Commit" => x.verified /\ x.staged # {}
  BY FinalExecution
<1>3. c.kind = "Commit"
  BY <1>2
<1>4. PICK t \in txReceipts :
          /\ t.disposition = "CandidateCommitted" /\ c.root = t.observed
          /\ c.action = t.action /\ c.baseline = t.baseline /\ c.debt = t.debt
  <2>1. "Commit" # "Fallback"
    OBVIOUS
  <2> QED
    BY <1>3, <2>1, ClosureCases
<1>5. /\ c.baseline = x.request.binding.state /\ c.debt = 0
      /\ x.request.shield.action = {c.action} /\ x.request.quality.selection = "Candidate"
  BY <1>2, <1>3 DEF ValidateClosure
<1>6. /\ Committed(t.binding) /\ t.observed = t.binding.new /\ t.baseline = t.binding.old
      /\ t.debt = t.binding.closed.debt /\ t.action = t.binding.closed.action
  BY <1>4, ReceiptIsTrue
<1>7. ASSUME NEW a \in x.staged PROVE a.action = t.binding.closed.action /\ a.state = t.binding.old
  <2>1. x.request.shield.acceptance = {a} /\ x.request.shield.action = {a.action}
    BY <1>1, <1>7
  <2>2. a.action = t.binding.closed.action
    BY <1>4, <1>5, <1>6, <2>1
  <2>3. x.request.shield \in Shields /\ x.request.shield.state = x.request.binding.state
    BY <1>1, RequestParts DEF G6
  <2>4. x.request.shield.state = a.state
    <3> DEFINE s == x.request.shield
    <3>1. s \in Shields /\ s.acceptance = {a}
      BY <2>1, <2>3
    <3> HIDE DEF s
    <3>2. s.state = a.state
      BY <3>1, ShieldCases
    <3> QED
      BY <3>2 DEF s
  <2> QED
    BY <1>4, <1>5, <1>6, <2>2, <2>3, <2>4
<1>8. MeasuredNoWorse(x.request.binding)
  BY <1>1, <1>5, SelectedIsMeasured
<1>9. /\ t.binding \in DOMAIN journals /\ journals[t.binding].outcome \in CommittedOutcomes
      /\ t.binding.old = x.request.binding.state /\ t.binding.new = r.root
      /\ t.binding.closed.debt = 0
  BY <1>2, <1>4, <1>5, <1>6 DEF Committed
<1> QED
  BY <1>2, <1>3, <1>7, <1>8, <1>9

\* A fallback receipt is earned.
LEMMA FallbackEarned ==
    ASSUME GateInv PROVE FallbackIsEarned
<1> DEFINE committed == {b \in DOMAIN journals : journals[b].outcome \in CommittedOutcomes}
<1> SUFFICES ASSUME NEW r \in receipts, r.kind = "Fallback", NEW x, x = executions[r.execution],
                    NEW c \in x.closure
             PROVE  /\ c.basis.permit.plan.binding = x.request.binding
                    /\ c.basis.permit.receipt.binding.old = x.request.binding.state
                    /\ c.basis.permit.receipt.binding.closed.debt = 0
                    /\ c.basis.permit.receipt.binding \notin committed
                    /\ c.basis.run.binding \in committed
                    /\ c.basis.run.binding.new = r.root
                    /\ \A b \in committed \ {c.basis.run.binding} :
                          b.old = x.request.binding.state
                          /\ b.closed.action \in x.request.shield.action =>
                              \E d \in DOMAIN journals : d.new = b.old
  BY DEF FallbackIsEarned
<1>1. \A b : b \in committed <=> Committed(b)
  BY DEF Committed
<1> HIDE DEF committed
<1>2. /\ c \in Closures /\ r.kind = c.kind /\ r.root = c.root
      /\ ValidateClosure(x.request, c, x.failed)
  <2>1. PICK d \in Closures :
            /\ x.closure = {d} /\ r.kind = d.kind /\ r.root = d.root
            /\ ValidateClosure(x.request, d, x.failed)
    BY FinalExecution
  <2>2. d = c
    BY <2>1
  <2> QED
    BY <2>1, <2>2
<1>3. c.kind = "Fallback"
  BY <1>2
<1>4. PICK b \in baselineReceipts :
          /\ c.basis = b /\ c.root = b.run.observed /\ c.baseline = b.permit.receipt.baseline
          /\ c.names = {<<b.permit.plan.binding, b.permit.plan.admission>>}
  <2>1. "Commit" # "Fallback"
    OBVIOUS
  <2> QED
    BY <1>2, <1>3, <2>1, ClosureCases
<1>5. c.baseline = x.request.binding.state /\ c.names = {<<x.request.binding, x.request>>}
  BY <1>2, <1>3 DEF ValidateClosure
<1>6. b.permit.plan.binding = x.request.binding
  <2>1. <<b.permit.plan.binding, b.permit.plan.admission>> = <<x.request.binding, x.request>>
    BY <1>4, <1>5
  <2> QED
    BY <2>1
<1> DEFINE undone == b.permit.receipt
           run == b.run
<1>7. /\ undone \in txReceipts /\ RestoresSafepoint(b.permit.plan, undone)
      /\ run \in txReceipts /\ run.disposition = "CandidateCommitted"
      /\ run.baseline = b.permit.plan.safepoint.root
  BY DEF GateInv, DeoptInv
<1>8. /\ undone.disposition = "BaselineRootRecovered" /\ undone.debt = 0
      /\ undone.baseline = b.permit.plan.safepoint.root
  BY <1>7 DEF RestoresSafepoint
<1>9. undone.baseline = x.request.binding.state /\ c.root = run.observed
  BY <1>4, <1>5
<1> HIDE DEF undone, run
<1>10. /\ undone.baseline = undone.binding.old /\ undone.debt = undone.binding.closed.debt
       /\ ~Committed(undone.binding)
  BY <1>7, <1>8, ReceiptIsTrue
<1>11. /\ run.baseline = run.binding.old /\ Committed(run.binding)
       /\ run.observed = run.binding.new
  BY <1>7, ReceiptIsTrue
<1>12. run.binding.old = x.request.binding.state
  BY <1>7, <1>8, <1>9, <1>11
<1>13. ASSUME NEW a, Committed(a), a # run.binding, a.old = x.request.binding.state
       PROVE  \E d \in DOMAIN journals : d.new = a.old
  <2>1. \A p, q : Committed(p) /\ Committed(q) /\ p # q /\ p.old = q.old => Returned(p.old)
    BY DEF GateInv, EffectInv
  <2> QED
    BY <1>11, <1>12, <1>13, <2>1 DEF Returned
<1>14. c.basis.permit.receipt = undone /\ c.basis.run = run /\ c.basis = b
  BY <1>4 DEF undone, run
<1> QED
  BY <1>1, <1>2, <1>6, <1>8, <1>9, <1>10, <1>11, <1>13, <1>14

\* finalize mints a final receipt only for what happened, whatever receipts,
\* permits, admissions and acceptances of other executions are offered to the
\* kernel, for any requests, plans, transactions and bounds.
THEOREM FinalReceiptsAreEarnedHolds == TwoPhaseSpec => []FinalReceiptsAreEarned
<1>1. ASSUME TwoPhaseInit PROVE GateInv
  <2>1. EffectInv
    BY <1>1, EffectInitial DEF TwoPhaseInit
  <2>2. DeoptInv
    BY <1>1 DEF TwoPhaseInit, DeoptInit, DeoptInv
  <2>3. KernelInv
    <3>1. executions = <<>> /\ receipts = {}
      BY <1>1 DEF TwoPhaseInit, KernelInit
    <3>2. executions \in Seq(Execution) /\ DOMAIN executions = {}
      <4> HIDE DEF Execution
      <4> QED
        BY <3>1, SMTT(60)
    <3> QED
      BY <3>1, <3>2 DEF KernelInv
  <2> QED
    BY <2>1, <2>2, <2>3 DEF GateInv
<1>2. ASSUME GateInv, [TwoPhaseNext]_gateVars PROVE GateInv'
  <2>1. CASE EffectNext /\ UNCHANGED <<deoptVars, kernelVars>>
    <3>1. EffectInv' /\ txReceipts \subseteq txReceipts'
      BY <1>2, <2>1, EffectPreserves DEF GateInv, OutcomesAreFinal
    <3>2. resumePermits' = resumePermits /\ baselineReceipts' = baselineReceipts
      BY <2>1 DEF deoptVars
    <3>3. DeoptInv'
      BY <1>2, <3>1, <3>2 DEF GateInv, DeoptInv
    <3>4. KernelInv'
      BY <1>2, <2>1, <3>1, <3>2, KernelStays DEF GateInv
    <3> QED
      BY <3>1, <3>3, <3>4 DEF GateInv
  <2>2. ASSUME UNCHANGED fxVars PROVE EffectInv' /\ txReceipts' = txReceipts
    BY <1>2, <2>2 DEF GateInv, EffectInv, fxVars, Committed, Returned, TrueReceipt
  <2>3. CASE (Deoptimize \/ RunBaseline) /\ UNCHANGED <<fxVars, kernelVars>>
    <3>1. EffectInv' /\ txReceipts' = txReceipts
      BY <2>2, <2>3
    <3>2. DeoptInv' /\ baselineReceipts \subseteq baselineReceipts'
      BY <1>2, <2>3, <3>1, DeoptPreserves DEF GateInv
    <3>3. KernelInv'
      BY <1>2, <2>3, <3>1, <3>2, KernelStays DEF GateInv
    <3> QED
      BY <3>1, <3>2, <3>3 DEF GateInv
  <2>4. ASSUME UNCHANGED <<fxVars, deoptVars>> PROVE EffectInv' /\ DeoptInv'
    <3>1. EffectInv' /\ txReceipts' = txReceipts
      BY <2>2, <2>4
    <3>2. DeoptInv'
      BY <1>2, <2>4, <3>1 DEF GateInv, DeoptInv, deoptVars
    <3> QED
      BY <3>1, <3>2
  <2>5. CASE Kernel /\ UNCHANGED <<fxVars, deoptVars>>
    BY <1>2, <2>4, <2>5, KernelPreserves DEF GateInv
  <2>6. CASE UNCHANGED gateVars
    <3>1. UNCHANGED <<fxVars, deoptVars>> /\ UNCHANGED kernelVars
      BY <2>6 DEF gateVars
    <3>2. txReceipts' = txReceipts /\ baselineReceipts' = baselineReceipts
      BY <3>1 DEF fxVars, deoptVars
    <3>3. KernelInv'
      BY <1>2, <3>1, <3>2, KernelStays DEF GateInv
    <3> QED
      BY <2>4, <3>1, <3>3 DEF GateInv
  <2> QED
    BY <1>2, <2>1, <2>3, <2>5, <2>6 DEF TwoPhaseNext
<1>3. ASSUME GateInv PROVE FinalReceiptsAreEarned
  BY <1>3, CommitEarned, FallbackEarned DEF FinalReceiptsAreEarned
<1> QED
  BY <1>1, <1>2, <1>3, PTL DEF TwoPhaseSpec

=============================================================================

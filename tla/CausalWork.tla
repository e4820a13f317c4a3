----------------------------- MODULE CausalWork -----------------------------
(* Measured work and what may be claimed of it.  A receipt divides the delta *)
(* of a parent counter among work units, each charged once, with what is     *)
(* left assigned to a preregistered residue or refused (zero-ledger          *)
(* causal_work.rs).  Verified receipts are paired, baseline against complete *)
(* run, task by task, and with the receipt of the preparation decide the     *)
(* total claim; the charging maps attribute the same charges to six phases   *)
(* (charging_maps.rs, zero-gate q99.rs).                                     *)
(*                                                                           *)
(* Charges are a sequence where a caller hands them over and a set once no   *)
(* unit occurs twice.  A digest is the value it is computed from.            *)
EXTENDS Integers, Sequences, FiniteSets, SequencesExt, FiniteSetsExt

CONSTANTS
    WorkReports,      \* [observation, charges, policy]: the parent counter's window,
                      \* the charges an engine reports and the residue policy
    WireReceipts,     \* receipts that arrive encoded, built by somebody else
    PairClaims(_, _), \* the task-pair claims presented for two receipts
    PreparationClaims(_), \* the preparation claims presented for a receipt
    WorkEvidences(_), \* the evidence presented for a payload
    WorkVerifiers,    \* verifier identities
    MetricClaims,     \* state and input metric claims
    PhasePolicies,    \* functions from work classes to charging phases
    MeasuredTotals,   \* totals a charging map set is closed against
    MaxCharges,       \* CAUSAL_WORK_MAX_CHARGES
    MaxTasks,         \* Q99_MAX_TASKS
    MaxSources,       \* bound on the source digests of a claim
    MaxWorks,         \* bound: verified receipts held
    MaxPairs,         \* bound: task pairs held
    MaxPreparations   \* bound: preparations held

VARIABLES
    works,            \* verified receipts
    pairs,            \* verified task pairs
    preparations,     \* verified preparations
    claimed           \* the last claim or closure decided: its kind and record

workVars == <<works, pairs, preparations, claimed>>

-----------------------------------------------------------------------------
(* Receipts *)

WorkClasses ==
    {"Candidate", "Verification", "Comparison", "Baseline", "Fallback", "Restoration",
     "Prewarm", "Residue"}

Delta(window) == window.end - window.start

Amount(charges) == MapThenSumSet(LAMBDA c : c.amount, charges)

ClassTotals(charges) == [k \in WorkClasses |-> Amount({c \in charges : c.class = k})]

Units(charges) == {c.unit : c \in charges}

ChargedOnce(list) == \A i, j \in DOMAIN list : i # j => list[i].unit # list[j].unit

ValidReceipt(r) ==
    /\ Cardinality(r.charges) <= MaxCharges
    /\ Cardinality(Units(r.charges)) = Cardinality(r.charges)
    /\ \A c \in r.charges :
          /\ c.amount # 0
          /\ c.class = "Residue" => r.policy.kind = "AssignToResidue" /\ c.unit = r.policy.unit
    /\ r.totals = ClassTotals(r.charges)
    /\ r.window.end >= r.window.start
    /\ r.observed = Delta(r.window)
    /\ r.classified = Amount(r.charges)
    /\ r.observed = r.classified

(* CausalWorkReceipt::build: the receipt, or nothing when it is refused.     *)
Build(observation, list, policy) ==
    LET given == ToSet(list)
        missing == Delta(observation) - Amount(given)
        residue == IF missing = 0 THEN {}
                   ELSE {[unit |-> policy.unit, class |-> "Residue", amount |-> missing]}
        charges == given \cup residue
        receipt == [window |-> observation, policy |-> policy, charges |-> charges,
                    totals |-> ClassTotals(charges), classified |-> Amount(charges),
                    observed |-> Delta(observation)]
    IN  IF /\ observation.measured
           /\ Len(list) <= MaxCharges /\ ChargedOnce(list)
           /\ \A c \in given : c.amount # 0
           /\ \A c \in given : c.class = "Residue" => policy.kind = "AssignToResidue"
           /\ observation.end >= observation.start
           /\ missing >= 0
           /\ missing # 0 => policy.kind = "AssignToResidue" /\ policy.unit \notin Units(given)
           /\ ValidReceipt(receipt)
        THEN {receipt} ELSE {}

(* The counter profile two receipts must share; the boundary is not in it.   *)
Profile(r) == <<r.window.identity.counter, r.window.identity.unit, r.window.identity.adapter>>

-----------------------------------------------------------------------------
(* Verification: exact payload, successful run, and the named verifier.      *)

Attested(evidence, payload, verifier) ==
    evidence.success /\ evidence.payload = payload /\ evidence.verifier = verifier

VerifyWork(receipt, verifier, evidence) ==
    /\ ValidReceipt(receipt)
    /\ Attested(evidence, <<receipt>>, verifier)
    /\ Cardinality(works) < MaxWorks
    /\ works' = works \cup {[receipt |-> receipt, evidence |-> evidence]}
    /\ UNCHANGED <<pairs, preparations, claimed>>

VerifyPair(claim, baseline, complete, evidence) ==
    /\ claim.baseline = baseline.receipt /\ claim.complete = complete.receipt
    /\ Profile(baseline.receipt) = Profile(complete.receipt)
    /\ Attested(evidence, <<claim>>, claim.verifier)
    /\ Cardinality(pairs) < MaxPairs
    /\ pairs' = pairs \cup {[claim |-> claim, baseline |-> baseline, complete |-> complete,
                             evidence |-> evidence]}
    /\ UNCHANGED <<works, preparations, claimed>>

VerifyPreparation(claim, work, evidence) ==
    /\ claim.receipt = work.receipt
    /\ Attested(evidence, <<claim>>, claim.verifier)
    /\ Cardinality(preparations) < MaxPreparations
    /\ preparations' = preparations \cup {[claim |-> claim, work |-> work, evidence |-> evidence]}
    /\ UNCHANGED <<works, pairs, claimed>>

-----------------------------------------------------------------------------
(* Claims *)

ValidQ99Claim(c) ==
    /\ c.tasks \in 1 .. MaxTasks
    /\ c.sources # {} /\ Cardinality(c.sources) <= MaxSources
    /\ c.denominator # 0
    /\ c.label \in {"State", "Input"} => c.numerator <= c.denominator
    /\ c.attained = IF c.label = "Total" THEN 100 * c.numerator <= c.denominator
                    ELSE 100 * c.numerator >= 99 * c.denominator

ValidMetricClaim(m) ==
    /\ m.label \in {"State", "Input"} /\ m.tasks \in 1 .. MaxTasks
    /\ m.denominator # 0 /\ m.numerator <= m.denominator

GenerateMetricClaim(metric, evidence) ==
    LET c == [label |-> metric.label, tasks |-> metric.tasks, numerator |-> metric.numerator,
              denominator |-> metric.denominator,
              attained |-> 100 * metric.numerator >= 99 * metric.denominator,
              sources |-> {<<"metric", metric>>, <<"evidence", evidence>>,
                           <<"measurement", metric.measurement>>}]
    IN  /\ ValidMetricClaim(metric)
        /\ Attested(evidence, <<metric>>, metric.verifier)
        /\ ValidQ99Claim(c)
        /\ claimed' = <<"metric", c>>
        /\ UNCHANGED <<works, pairs, preparations>>

SumOver(list, Of(_)) == FoldLeftDomain(LAMBDA sum, i : sum + Of(list[i]), 0, list)

(* A list of unit sets in which no unit occurs twice. *)
Disjoint(sets) == \A i, j \in DOMAIN sets : i # j => sets[i] \cap sets[j] = {}

SourcesOf(preparation, list) ==
    {<<"preparation", preparation.claim>>, <<"work", preparation.claim.receipt>>,
     <<"evidence", preparation.evidence>>, <<"evidence", preparation.work.evidence>>}
    \cup UNION {{<<"pair", p.claim>>, <<"work", p.claim.baseline>>, <<"work", p.claim.complete>>,
                 <<"evidence", p.evidence>>, <<"evidence", p.baseline.evidence>>,
                 <<"evidence", p.complete.evidence>>} : p \in ToSet(list)}

Comparable(preparation, list) ==
    /\ \A p \in ToSet(list) :
          /\ p.claim.comparison = preparation.claim.comparison
          /\ p.claim.workload = preparation.claim.workload
          /\ Profile(p.baseline.receipt) = Profile(preparation.work.receipt)
          /\ Profile(p.complete.receipt) = Profile(preparation.work.receipt)
    /\ \A i, j \in DOMAIN list : i # j => list[i].claim.task # list[j].claim.task

CompleteUnits(preparation, list) ==
    <<Units(preparation.work.receipt.charges)>>
    \o [i \in DOMAIN list |-> Units(list[i].complete.receipt.charges)]

BaselineUnits(list) == [i \in DOMAIN list |-> Units(list[i].baseline.receipt.charges)]

(* A plausible slip: only the numerator is checked for double counting. *)
CountedOnceAbove(preparation, list) == Disjoint(CompleteUnits(preparation, list))

CountedOnce(preparation, list) ==
    Disjoint(CompleteUnits(preparation, list)) /\ Disjoint(BaselineUnits(list))

GenerateTotalClaim(preparation, list) ==
    LET baseline == SumOver(list, LAMBDA p : p.baseline.receipt.observed)
        complete == preparation.work.receipt.observed
                    + SumOver(list, LAMBDA p : p.complete.receipt.observed)
        c == [label |-> "Total", tasks |-> Len(list), numerator |-> complete,
              denominator |-> baseline, attained |-> 100 * complete <= baseline,
              sources |-> SourcesOf(preparation, list)]
    IN  /\ Len(list) \in 1 .. MaxTasks
        /\ Comparable(preparation, list)
        /\ CountedOnce(preparation, list)
        /\ baseline # 0
        /\ ValidQ99Claim(c)
        /\ claimed' = <<"total", c @@ [preparation |-> preparation, list |-> list]>>
        /\ UNCHANGED <<works, pairs, preparations>>

-----------------------------------------------------------------------------
(* Charging maps *)

Phases == {"RequestInfo", "Decisions", "Reasoning", "Verification", "Output", "Effects"}

(* ChargingMapSet::solve over a list of receipts: the entries of each phase, *)
(* or nothing when two receipts charge one unit to the same phase.           *)
SolveCharges(policy, receipts) ==
    LET Entries(p) == [i \in DOMAIN receipts |->
                          {c \in receipts[i].charges : policy[c.class] = p}]
    IN  IF /\ receipts # <<>>
           /\ \A i \in DOMAIN receipts : ValidReceipt(receipts[i])
           /\ \A p \in Phases : Disjoint([i \in DOMAIN receipts |-> Units(Entries(p)[i])])
        THEN {[p \in Phases |-> UNION ToSet(Entries(p))]} ELSE {}

(* check_overlap: no unit is charged in two phases. *)
NoOverlap(maps) == \A p, q \in Phases : p # q => Units(maps[p]) \cap Units(maps[q]) = {}

TotalAttributed(maps) == MapThenSumSet(LAMBDA p : Amount(maps[p]), Phases)

Gcd(m, n) ==
    LET g[a, b \in Nat] == IF b = 0 THEN a ELSE g[b, a % b] IN g[m, n]

CheckClosure(maps, measured) ==
    LET attributed == TotalAttributed(maps)
        d == Gcd(attributed, measured)
    IN  IF attributed > measured \/ measured = 0 THEN {}
        ELSE {[attributed |-> attributed, measured |-> measured,
               unclaimed |-> measured - attributed,
               gamma |-> <<attributed \div d, measured \div d>>,
               full |-> attributed \div d = measured \div d]}

CloseWork(policy, receipts, measured) ==
    \E maps \in SolveCharges(policy, receipts) :
        /\ NoOverlap(maps)
        /\ \E report \in CheckClosure(maps, measured) :
              claimed' = <<"closure", [receipts |-> receipts, maps |-> maps, report |-> report]>>
        /\ UNCHANGED <<works, pairs, preparations>>

-----------------------------------------------------------------------------
WorkInit == works = {} /\ pairs = {} /\ preparations = {} /\ claimed = <<>>

(* A claim changes nothing that is held: a behaviour ends with its first.    *)
WorkNext ==
    /\ claimed = <<>>
    /\ \/ \E report \in WorkReports, v \in WorkVerifiers :
             \E r \in Build(report.observation, report.charges, report.policy) :
                \E e \in WorkEvidences(<<r>>) : VerifyWork(r, v, e)
       \/ \E r \in WireReceipts, v \in WorkVerifiers : \E e \in WorkEvidences(<<r>>) :
             VerifyWork(r, v, e)
       \/ \E b \in works, c \in works : \E claim \in PairClaims(b.receipt, c.receipt) :
             \E e \in WorkEvidences(<<claim>>) : VerifyPair(claim, b, c, e)
       \/ \E w \in works : \E claim \in PreparationClaims(w.receipt) :
             \E e \in WorkEvidences(<<claim>>) : VerifyPreparation(claim, w, e)
       \/ \E m \in MetricClaims : \E e \in WorkEvidences(<<m>>) : GenerateMetricClaim(m, e)
       \/ \E p \in preparations, n \in 1 .. MaxTasks : \E list \in [1 .. n -> pairs] :
             GenerateTotalClaim(p, list)
       \/ \E policy \in PhasePolicies, n \in 1 .. 2, m \in MeasuredTotals :
             \E list \in [1 .. n -> works] :
                CloseWork(policy, [i \in 1 .. n |-> list[i].receipt], m)

WorkSpec == WorkInit /\ [][WorkNext]_workVars

-----------------------------------------------------------------------------
Claimed(kind) == IF claimed # <<>> /\ claimed[1] = kind THEN {claimed[2]} ELSE {}

(* What a set of units really cost, each unit once. *)
WorkOf(receipts) == Amount(UNION {r.charges : r \in receipts})

(* Totals are earned (q99.rs, charging_maps.rs).  However receipts are       *)
(* built, decoded, paired and listed, an attained total means that a hundred *)
(* times the work of the complete side, preparation included, is at most the *)
(* work of the baseline side, both taken over distinct work units and equal  *)
(* to the deltas their counters showed; that each task counts once; and that *)
(* all of it was measured by one counter profile and attested.  A closure    *)
(* report attributes the counter deltas of its receipts exactly once, and    *)
(* its ratio is in lowest terms and at most one.                             *)
TotalsAreEarned ==
    /\ \A w \in works :
          WorkOf({w.receipt}) = Delta(w.receipt.window) /\ w.evidence.success
    /\ \A c \in Claimed("total") :
          LET base == {p.baseline.receipt : p \in ToSet(c.list)}
              done == {p.complete.receipt : p \in ToSet(c.list)} \cup {c.preparation.work.receipt}
          IN  /\ c.attained => 100 * WorkOf(done) <= WorkOf(base)
              /\ WorkOf(done) = MapThenSumSet(LAMBDA r : Delta(r.window), done)
              /\ WorkOf(base) = MapThenSumSet(LAMBDA r : Delta(r.window), base)
              /\ Cardinality({p.claim.task : p \in ToSet(c.list)}) = c.tasks
              /\ Cardinality({Profile(r) : r \in base \cup done}) = 1
    /\ \A c \in Claimed("metric") : c.attained <=> 99 * (c.denominator - c.numerator) <= c.numerator
    /\ \A c \in Claimed("closure") :
          /\ c.report.attributed = WorkOf(ToSet(c.receipts))
          /\ c.report.attributed
               = FoldLeftDomain(LAMBDA s, i : s + Delta(c.receipts[i].window), 0, c.receipts)
          /\ c.report.gamma[1] * c.report.measured = c.report.gamma[2] * c.report.attributed
          /\ c.report.gamma[1] <= c.report.gamma[2]
          /\ c.report.full = (c.report.unclaimed = 0)
=============================================================================

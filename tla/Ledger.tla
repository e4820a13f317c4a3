------------------------------- MODULE Ledger -------------------------------
(* The books of zero-ledger.  A gauge accumulates charges of model-visible   *)
(* tokens and is sealed into a dominance receipt (lib.rs, fresh_work.rs); a  *)
(* resource ledger collects measured rows and reconciles providers' bills    *)
(* with them (resource_classes.rs); exposure accounts, reuse campaigns,      *)
(* frontier closures and usage attributions are computed from finished       *)
(* totals (lib.rs, campaign.rs, frontier.rs, usage.rs).                      *)
(*                                                                           *)
(* A charge, and the ledger it is added to, is a function from counters.     *)
(* Digests are the values they are computed from.  Receipts are the ones     *)
(* sealed here; their encodings are left out.                                *)
EXTENDS Integers, Sequences, FiniteSets, SequencesExt, FiniteSetsExt

CONSTANTS
    Tokenizer,       \* the identity the gauge is locked to
    Charges,         \* pairs of a tokenizer and a charge
    Attempts,        \* pairs of a cost and a disposition
    Presentations,   \* [archive, policy, task]: evidence presented with its roots
    ReceiptRoots,    \* [archive, certificate]
    Targets,         \* retained fractions, in ppm
    Accounts,        \* exposure accounts
    ResourceRows,    \* [class, amount, source]
    Bills,           \* lists of [provider, class, billed, tolerance]
    Campaigns,       \* [cold, use, alternative, uses, sample]
    Frontiers,       \* [baseline, optimized, terms]
    Attributions,    \* [events, occurrences, attributions]
    PpmOne,          \* the unit of a fraction, 1_000_000
    MaxCount,        \* the largest value of a counter
    MaxHistory       \* bound: charges accepted, and rows recorded

VARIABLES
    ledger,          \* the counters of the gauge
    charges,         \* how many charges it accepted
    history,         \* the charges it accepted, which the code does not keep
    rows,            \* the rows of the resource ledger
    reported         \* the last report made: its kind and its record

ledgerVars == <<ledger, charges, history, rows, reported>>

-----------------------------------------------------------------------------
(* Charges *)

ChargeClasses == {"Billed", "FailedTrial", "Retry", "Recovery", "Reexpansion", "Fallback"}

FreshComponents == {"fresh", "replayed", "recovered", "overhead"}

Counters == {"raw", "input", "output", "calls", "retries", "declaring"}
            \cup ChargeClasses \cup FreshComponents

SumOf(c, names) == MapThenSumSet(LAMBDA k : c[k], names)

Empty == [k \in Counters |-> 0]

(* A decomposition into fresh work is declared when its total is not zero.   *)
IsDeclared(c) == SumOf(c, FreshComponents) > 0

CheckFreshWork(c) == IsDeclared(c) => SumOf(c, FreshComponents) = c["input"]

(* A plausible slip: only input left unclassified is refused. *)
CheckNothingUnclassified(c) == c["input"] <= SumOf(c, ChargeClasses) /\ CheckFreshWork(c)

CheckClassification(c) == c["input"] = SumOf(c, ChargeClasses) /\ CheckFreshWork(c)

(* The sums a charge leads to; fresh-work components are only summed, and a  *)
(* charge that declares them counts as one declaring action.                 *)
Accumulate(c) ==
    [k \in Counters |->
        ledger[k] + IF k # "declaring" THEN c[k] ELSE IF IsDeclared(c) THEN 1 ELSE 0]

Fits(totals) ==
    /\ \A k \in Counters : totals[k] <= MaxCount
    /\ SumOf(totals, FreshComponents) <= MaxCount

(* ResourceGauge::charge; an error leaves everything as it was.              *)
Charge(tokenizer, c) ==
    /\ tokenizer = Tokenizer
    /\ SumOf(c, ChargeClasses) <= MaxCount /\ CheckClassification(c)
    /\ Fits(Accumulate(c)) /\ charges + 1 <= MaxCount
    /\ Len(history) < MaxHistory
    /\ ledger' = Accumulate(c)
    /\ charges' = charges + 1
    /\ history' = Append(history, c)
    /\ UNCHANGED <<rows, reported>>

ChargeTaskAttempt(tokenizer, cost, disposition) ==
    LET class == IF disposition = "Passed" THEN "Billed" ELSE "FailedTrial"
    IN  /\ cost # 0
        /\ Charge(tokenizer, [Empty EXCEPT !["raw"] = cost, !["input"] = cost, ![class] = cost])

RaccInput(l) == SumOf(l, ChargeClasses)

AccountingComplete(l) == RaccInput(l) <= MaxCount /\ RaccInput(l) = l["input"]

-----------------------------------------------------------------------------
(* Evidence and receipts *)

FoldRoot(tag, leaves) == <<tag, leaves>>

(* The root a presentation attests, or nothing.                              *)
VerifyArchive(p) ==
    IF p.leaves # <<>> /\ FoldRoot("racc.archive", p.leaves) = p.root THEN {p.root} ELSE {}

PolicyLeaf(d) ==
    FoldRoot(IF d.proven THEN "racc.policy.proven" ELSE "racc.policy.fallback", <<d.digest>>)

VerifyPolicy(p) ==
    IF /\ p.leaves # <<>>
       /\ FoldRoot("racc.policy", [i \in DOMAIN p.leaves |-> PolicyLeaf(p.leaves[i])]) = p.root
    THEN {p.root} ELSE {}

TaskLeaf(o) ==
    FoldRoot(IF o.accepted THEN "racc.task.accepted" ELSE "racc.task.regressed", <<o.task>>)

VerifyTask(p) ==
    IF /\ p.leaves # <<>> /\ \A i \in DOMAIN p.leaves : p.leaves[i].accepted
       /\ FoldRoot("racc.task", [i \in DOMAIN p.leaves |-> TaskLeaf(p.leaves[i])]) = p.root
    THEN {p.root} ELSE {}

Gates(p) ==
    [byte |-> UNION {VerifyArchive(a) : a \in p.archive},
     policy |-> UNION {VerifyPolicy(a) : a \in p.policy},
     task |-> UNION {VerifyTask(a) : a \in p.task}]

MeetsTokenTarget(r) ==
    /\ r.ledger["raw"] # 0
    /\ RaccInput(r.ledger) = r.racc
    /\ r.racc * PpmOne <= r.ledger["raw"] * r.target

ExactPhaseValid(r) == r.byte /\ r.policy /\ r.task /\ MeetsTokenTarget(r)

CeilDiv(a, b) == (a + b - 1) \div b

AchievedRetainedPpmCeil(r) == CeilDiv(r.racc * PpmOne, r.ledger["raw"])

FinalizeReceipt(target, roots, p) ==
    LET gates == Gates(p)
    IN  /\ charges # 0 /\ ledger["raw"] # 0
        /\ AccountingComplete(ledger)
        /\ gates.byte \subseteq {roots.archive}
        /\ gates.policy \subseteq {roots.certificate}
        /\ reported' =
              <<"receipt",
                [ledger |-> ledger, racc |-> RaccInput(ledger), target |-> target,
                 archive |-> roots.archive, certificate |-> roots.certificate,
                 byte |-> gates.byte # {}, policy |-> gates.policy # {}, task |-> gates.task # {},
                 presented |-> p]>>
        /\ UNCHANGED <<ledger, charges, history, rows>>

Cost(overhead, blocks, Exposures(_)) ==
    FoldLeft(LAMBDA sum, b : sum + b.tokens * Exposures(b), overhead, blocks)

RawCost(a) == Cost(a.rawOverhead, a.blocks, LAMBDA b : b.raw)

RaccCost(a) == Cost(a.raccOverhead, a.blocks, LAMBDA b : b.racc)

SavingPpmFloor(a) ==
    IF RaccCost(a) >= RawCost(a) THEN 0
    ELSE ((RawCost(a) - RaccCost(a)) * PpmOne) \div RawCost(a)

(* An account that the ledger confirms, and the saving reported for it.      *)
CheckReplayIdentity(a) ==
    /\ AccountingComplete(ledger)
    /\ a.blocks # <<>>
    /\ ledger["raw"] = RawCost(a) /\ RaccInput(ledger) = RaccCost(a)
    /\ RawCost(a) # 0
    /\ reported' = <<"saving", [ppm |-> SavingPpmFloor(a)]>>
    /\ UNCHANGED <<ledger, charges, history, rows>>

-----------------------------------------------------------------------------
(* Resource rows and bills *)

Sources == <<"Estimate", "Bounded", "Exact">>

Rank(source) == CHOOSE i \in DOMAIN Sources : Sources[i] = source

(* MeasurementSource::derive: the weakest label; of nothing, Exact.          *)
Derive(sources) ==
    Sources[IF sources = {} THEN Len(Sources) ELSE Min({Rank(s) : s \in sources})]

RowsOf(class) == SelectSeq(rows, LAMBDA r : r.class = class)

(* The total of a class, or nothing when no row charges it.                  *)
TotalFor(class) ==
    LET of == RowsOf(class)
    IN  IF of = <<>> THEN {}
        ELSE {[amount |-> FoldLeft(LAMBDA sum, r : sum + r.amount, 0, of),
               source |-> Derive({r.source : r \in ToSet(of)})]}

RecordCharge(row) ==
    /\ Len(rows) < MaxHistory
    /\ rows' = Append(rows, row)
    /\ UNCHANGED <<ledger, charges, history, reported>>

Deviation(total, billed) == IF total >= billed THEN total - billed ELSE billed - total

LineFits(bill) ==
    /\ bill.tolerance <= PpmOne
    /\ TotalFor(bill.class) = {} => bill.billed = 0
    /\ \A t \in TotalFor(bill.class) :
          Deviation(t.amount, bill.billed) * PpmOne <= bill.billed * bill.tolerance

LineStatus(bill) ==
    IF \A t \in TotalFor(bill.class) : t.amount = bill.billed /\ bill.tolerance = 0
    THEN "ReconcilesExactly" ELSE "ReconcilesWithinTolerance"

Reconcile(bills) ==
    /\ \A i \in DOMAIN bills : LineFits(bills[i])
    /\ reported' =
          <<"bill",
            [bills |-> bills,
             lines |-> [i \in DOMAIN bills |-> LineStatus(bills[i])],
             overall |-> IF \A i \in DOMAIN bills :
                               /\ LineStatus(bills[i]) = "ReconcilesExactly"
                               /\ \A t \in TotalFor(bills[i].class) : t.source = "Exact"
                         THEN "Exact" ELSE "WithinTolerance"]>>
    /\ UNCHANGED <<ledger, charges, history, rows>>

-----------------------------------------------------------------------------
(* Campaigns, frontiers and usage *)

ValidCampaign(c) == c.uses # 0 /\ c.alternative > c.use

StrictBreakEvenUses(c) == IF c.cold = 0 THEN 0 ELSE CeilDiv(c.cold, c.alternative - c.use)

(* The 99th percentile of a sample by rank.                                  *)
Q99Of(sample) ==
    SortSeq(sample, LAMBDA a, b : a < b)[CeilDiv(99 * Len(sample), 100)]

Q99BreakEvenUses(c) == IF c.cold = 0 THEN 0 ELSE CeilDiv(c.cold, Q99Of(c.sample))

ReportCampaign(c) ==
    /\ ValidCampaign(c)
    /\ c.sample # <<>> /\ Q99Of(c.sample) # 0
    /\ reported' =
          <<"campaign",
            [campaign |-> c, strict |-> StrictBreakEvenUses(c), q99 |-> Q99BreakEvenUses(c),
             surplus |-> c.uses * c.alternative - (c.cold + c.uses * c.use)]>>
    /\ UNCHANGED <<ledger, charges, history, rows>>

FrontierTerms == <<"Preparation", "PreparedPath", "NoveltyFallback">>

ValidFrontier(f) ==
    /\ f.baseline # 0
    /\ SumOf(f.terms, ToSet(FrontierTerms)) = f.optimized

(* The first term no other one exceeds, or nothing when all are zero.        *)
LargestLimitingBurden(f) ==
    LET best == FoldLeft(LAMBDA b, t : IF b = "none" THEN t
                                       ELSE IF f.terms[t] > f.terms[b] THEN t ELSE b,
                         "none", FrontierTerms)
    IN  IF f.terms[best] = 0 THEN {} ELSE {best}

ReportFrontier(f) ==
    /\ ValidFrontier(f)
    /\ reported' = <<"frontier", [frontier |-> f, burden |-> LargestLimitingBurden(f)]>>
    /\ UNCHANGED <<ledger, charges, history, rows>>

ValidEvent(e) == e.observation = "Unmeasured" => e.amount = 0

(* Only measured events have a part in the total of a coordinate.            *)
CoordinateTotals(events) ==
    LET measured == SelectSeq(events, LAMBDA e : e.observation = "Measured")
    IN  [k \in {e.coordinate : e \in ToSet(measured)} |->
            FoldLeft(LAMBDA sum, e : IF e.coordinate = k THEN sum + e.amount ELSE sum, 0, measured)]

DisjointAttribution(occurrences, attributions) ==
    /\ IsInjective(occurrences)
    /\ \A i \in DOMAIN attributions : attributions[i].occurrence \in ToSet(occurrences)
    /\ \A o \in ToSet(occurrences) :
          Cardinality({i \in DOMAIN attributions : attributions[i].occurrence = o}) = 1

ReportUsage(u) ==
    /\ \A i \in DOMAIN u.events : ValidEvent(u.events[i])
    /\ DisjointAttribution(u.occurrences, u.attributions)
    /\ reported' = <<"usage", [usage |-> u, totals |-> CoordinateTotals(u.events)]>>
    /\ UNCHANGED <<ledger, charges, history, rows>>

-----------------------------------------------------------------------------
LedgerInit ==
    ledger = Empty /\ charges = 0 /\ history = <<>> /\ rows = <<>> /\ reported = <<>>

(* A report changes nothing that is held: a behaviour ends with its first.   *)
GaugeNext ==
    /\ reported = <<>>
    /\ \/ \E c \in Charges : Charge(c[1], c[2])
       \/ \E a \in Attempts : ChargeTaskAttempt(Tokenizer, a[1], a[2])
       \/ \E target \in Targets, roots \in ReceiptRoots, p \in Presentations :
             FinalizeReceipt(target, roots, p)
       \/ \E a \in Accounts : CheckReplayIdentity(a)

BillNext ==
    /\ reported = <<>>
    /\ \/ \E row \in ResourceRows : RecordCharge(row)
       \/ \E bills \in Bills : Reconcile(bills)

ReportNext ==
    /\ reported = <<>>
    /\ \/ \E c \in Campaigns : ReportCampaign(c)
       \/ \E f \in Frontiers : ReportFrontier(f)
       \/ \E u \in Attributions : ReportUsage(u)

LedgerNext == GaugeNext \/ BillNext \/ ReportNext

LedgerSpec == LedgerInit /\ [][LedgerNext]_ledgerVars

-----------------------------------------------------------------------------
Reported(kind) == IF reported # <<>> /\ reported[1] = kind THEN {reported[2]} ELSE {}

(* What a counter must show after the charges accepted so far. *)
Recorded(k) == FoldLeft(LAMBDA sum, c : sum + c[k], 0, history)

(* The books are honest (zero-ledger).  Whatever charges were offered, the   *)
(* gauge shows the sum of the accepted ones, every declared token in one     *)
(* class and in at most one fresh-work component, and no counter has         *)
(* wrapped.  A valid exact phase was earned by all that was charged, failed  *)
(* trials and retries included, by spans and decisions that fold to the      *)
(* roots on the receipt and by tasks that were all accepted; the fraction    *)
(* the receipt achieves, rounded up, and the saving of an account that       *)
(* replays the ledger, rounded down, are the same number seen from two       *)
(* sides.  An exact reconciliation means that every line was billed as it    *)
(* was measured, by rows that are all exact; a line within its tolerance is  *)
(* never one nobody charged.  A break-even horizon is the first number of    *)
(* uses that pays for the cold build, the burden reported is the largest,    *)
(* and unmeasured usage is never a zero in a total.                          *)
BooksAreHonest ==
    /\ \A k \in Counters \ {"declaring"} : ledger[k] = Recorded(k) /\ ledger[k] <= MaxCount
    /\ ledger["input"] = SumOf(ledger, ChargeClasses)
    /\ SumOf(ledger, FreshComponents) <= ledger["input"]
    /\ charges = Len(history) /\ ledger["declaring"] <= charges
    /\ \A r \in Reported("receipt") :
          /\ ExactPhaseValid(r) =>
                /\ MapThenSumSet(Recorded, ChargeClasses) * PpmOne <= Recorded("raw") * r.target
                /\ \E a \in r.presented.archive : r.archive = FoldRoot("racc.archive", a.leaves)
                /\ \E a \in r.presented.policy : a.leaves # <<>> /\ r.certificate = a.root
                /\ \E a \in r.presented.task : \A o \in ToSet(a.leaves) : o.accepted
          /\ MeetsTokenTarget(r) <=> AchievedRetainedPpmCeil(r) <= r.target
    /\ \A s \in Reported("saving") :
          Recorded("input") <= Recorded("raw") =>
             s.ppm + CeilDiv(Recorded("input") * PpmOne, Recorded("raw")) = PpmOne
    /\ \A b \in Reported("bill") : \A i \in DOMAIN b.bills :
          LET charged == {n \in DOMAIN rows : rows[n].class = b.bills[i].class}
              total == MapThenSumSet(LAMBDA n : rows[n].amount, charged)
          IN  /\ b.overall = "Exact" =>
                    total = b.bills[i].billed /\ \A n \in charged : rows[n].source = "Exact"
              /\ b.bills[i].billed > 0 => charged # {}
              /\ Deviation(total, b.bills[i].billed) <= b.bills[i].billed
    /\ \A r \in Reported("campaign") :
          LET Pays(n) == r.campaign.cold + n * r.campaign.use <= n * r.campaign.alternative
          IN  /\ Pays(r.strict) /\ \A n \in 0 .. r.strict - 1 : ~Pays(n)
              /\ r.surplus >= 0 <=> r.campaign.uses >= r.strict
              /\ 100 * Cardinality({i \in DOMAIN r.campaign.sample :
                                       r.campaign.sample[i] <= Q99Of(r.campaign.sample)})
                   >= 99 * Len(r.campaign.sample)
    /\ \A r \in Reported("frontier") : \A t \in r.burden :
          /\ \A u \in ToSet(FrontierTerms) : r.frontier.terms[u] <= r.frontier.terms[t]
          /\ 3 * r.frontier.terms[t] >= r.frontier.optimized
    /\ \A r \in Reported("usage") :
          /\ \A k \in DOMAIN r.totals : \E e \in ToSet(r.usage.events) :
                e.coordinate = k /\ e.observation = "Measured"
          /\ Len(r.usage.attributions) = Cardinality(ToSet(r.usage.occurrences))
=============================================================================

---------------------------- MODULE ProjectImage ----------------------------
(* The residency ledger of the gate and the project images taken from it.    *)
(* The ledger (residency.rs) keeps, for every object, whether it is valid    *)
(* for the provider (L1), logically (L2) and physically (L3), and whether    *)
(* its L2 copy waits for a refetch.  An image (project_image.rs) copies the  *)
(* ledger, can be forked into a hypothetical child, and is what the Q99      *)
(* reports are computed from: coverage, slack, the guard of a proposed       *)
(* action and the warm swap to a child.                                      *)
(*                                                                           *)
(* A digest is its object; a root is the sequence of the changes hashed into *)
(* it.  Graph references, representations, resource rows and reason texts    *)
(* are carried along unchanged by the code and left out.                     *)
EXTENDS Integers, Sequences, FiniteSets, FiniteSetsExt

CONSTANTS
    Objects,        \* the object roots
    Hosted,         \* those of them the ledger hears of
    DemandEnvelopes, \* the demand envelopes: functions from scenario ids
    Changes,        \* the sets of roots a declared change may name
    Actions,        \* the proposed actions the guard is asked about
    MaxForks        \* bound on hypothetical forks of one image

VARIABLES
    layers,         \* the ledger: a function from the objects it knows
    image           \* the image last taken or forked, a set of at most one

imageVars == <<layers, image>>

-----------------------------------------------------------------------------
(* The ledger *)

NewEntry == [l1 |-> FALSE, l2 |-> FALSE, l3 |-> FALSE, refetch |-> FALSE]

ValidEntry(e) == e.refetch => e.l2

Put(ledger, o, e) == [x \in DOMAIN ledger \cup {o} |-> IF x = o THEN e ELSE ledger[x]]

PublishedL2(ledger, o) ==
    LET e == IF o \in DOMAIN ledger THEN ledger[o] ELSE NewEntry
    IN  Put(ledger, o, [e EXCEPT !.l2 = TRUE, !.refetch = FALSE])

(* An entry that is unknown or was never valid is refused. *)
L3Lost(ledger, o) ==
    IF o \in DOMAIN ledger /\ ledger[o].l2
    THEN Put(ledger, o, [ledger[o] EXCEPT !.l3 = FALSE, !.refetch = TRUE])
    ELSE ledger

PublishL2(o) == layers' = PublishedL2(layers, o) /\ UNCHANGED image

MarkL3Loss(o) == layers' = L3Lost(layers, o) /\ UNCHANGED image

CompleteRefetch(o) ==
    /\ o \in DOMAIN layers /\ layers[o].refetch
    /\ layers' = [layers EXCEPT ![o].refetch = FALSE, ![o].l3 = TRUE]
    /\ UNCHANGED image

(* The entry is changed before it is validated: when its copy was waiting    *)
(* for a refetch the call fails and leaves an entry no image accepts.        *)
Tombstone(o) ==
    /\ o \in DOMAIN layers
    /\ layers' = [layers EXCEPT ![o].l1 = FALSE, ![o].l2 = FALSE]
    /\ UNCHANGED image

-----------------------------------------------------------------------------
(* Images.  An optional value is a set of at most one element. *)

FromLayerEntry(e) ==
    [l1 |-> {e.l1}, l2 |-> {e.l2}, l3 |-> {e.l3}, refetch |-> e.refetch, reason |-> FALSE]

ToLayerEntry(l) ==
    IF {} \in {l.l1, l.l2, l.l3} THEN {}
    ELSE {[l1 |-> TRUE \in l.l1, l2 |-> TRUE \in l.l2, l3 |-> TRUE \in l.l3,
           refetch |-> l.refetch]}

UnknownLayers == [l1 |-> {}, l2 |-> {}, l3 |-> {}, refetch |-> FALSE, reason |-> TRUE]

ValidLayers(l) ==
    /\ l.refetch => l.l2 = {TRUE}
    /\ l.l1 = {} /\ l.l2 = {} /\ l.l3 = {} => l.reason

ValidityClass(l) ==
    CASE l.l2 = {FALSE} -> "Invalid"
      [] l.l2 = {TRUE} /\ l.l3 = {TRUE} -> "ValidResident"
      [] l.l2 = {TRUE} /\ l.l3 = {FALSE} -> "ValidNotResident"
      [] OTHER -> "Unknown"

ValidScenario(s) == s.roots # {} \/ s.unknown

ValidManifest(m) ==
    /\ m.objects # {}
    /\ \A o \in DOMAIN m.layers : ValidLayers(m.layers[o])
    /\ \A s \in DOMAIN m.scenarios : ValidScenario(m.scenarios[s])

ValidityClassFor(m, o) ==
    IF o \in DOMAIN m.layers THEN ValidityClass(m.layers[o]) ELSE "Unknown"

ValidityClassMap(m) == [o \in DOMAIN m.layers |-> ValidityClass(m.layers[o])]

FromLayerLedger(root, objects, ledger, scenarios) ==
    [root |-> root, objects |-> objects, scenarios |-> scenarios,
     layers |-> [o \in DOMAIN ledger |-> FromLayerEntry(ledger[o])]]

(* A changed object stays listed, with nothing known of it; the scenarios    *)
(* are the parent's.                                                         *)
HypotheticalChild(parent, changed, claims) ==
    [root |-> Append(parent.root, <<changed, claims>>),
     objects |-> parent.objects \cup changed,
     scenarios |-> parent.scenarios,
     layers |-> [o \in DOMAIN parent.layers \cup changed |->
                    IF o \in changed THEN UnknownLayers ELSE parent.layers[o]]]

(* The ledger rebuilt from an image by the ledger's own operations: one      *)
(* publication per fully known valid object, then its loss where the copy    *)
(* waits for a refetch.                                                      *)
LayerLedgerFromManifest(m) ==
    LET kept == {o \in DOMAIN m.layers :
                    \E e \in ToLayerEntry(m.layers[o]) : e.l2}
        Restore(o, ledger) ==
            IF m.layers[o].refetch THEN L3Lost(PublishedL2(ledger, o), o)
            ELSE PublishedL2(ledger, o)
    IN  FoldSet(Restore, [o \in {} |-> NewEntry], kept)

-----------------------------------------------------------------------------
(* The Q99 reports *)

(* The demanded instances of an envelope: a root counts once per scenario.   *)
Demanded(scenarios) ==
    {<<s, o>> \in (DOMAIN scenarios) \X Objects : o \in scenarios[s].roots}

Mass(scenarios, demand) == MapThenSumSet(LAMBDA d : scenarios[d[1]].weight, demand)

L2Of(m, o) == IF o \in DOMAIN m.layers THEN m.layers[o].l2 ELSE {}

DemandCoverage(m, scenarios) ==
    LET demand == Demanded(scenarios)
        Known(v) == {d \in demand : L2Of(m, d[2]) = v}
        All(P(_)) == {d \in demand : d[2] \in DOMAIN m.layers /\ P(m.layers[d[2]])}
    IN  [demanded |-> Mass(scenarios, demand),
         valid |-> Mass(scenarios, Known({TRUE})),
         invalid |-> Mass(scenarios, Known({FALSE})),
         unknown |-> Mass(scenarios, Known({})),
         l1Hit |-> Mass(scenarios, All(LAMBDA l : l.l1 = {TRUE})),
         l3Resident |-> Mass(scenarios, All(LAMBDA l : l.l3 = {TRUE})),
         l2Refetch |-> Mass(scenarios, All(LAMBDA l : l.l2 = {TRUE} /\ l.refetch))]

ResidentValid(m, scenarios) ==
    Mass(scenarios, {d \in Demanded(scenarios) :
                        ValidityClassFor(m, d[2]) = "ValidResident"})

Q99Slack(m, scenarios) ==
    LET demanded == Mass(scenarios, Demanded(scenarios))
        slack == IF demanded = 0 THEN 0
                 ELSE 100 * ResidentValid(m, scenarios) - 99 * demanded
    IN  [demanded |-> demanded, slack |-> slack, holds |-> demanded > 0 /\ slack >= 0]

(* A plausible slip: the division rounds down. *)
FloorHundredth(n) == IF n > 0 THEN n \div 100 ELSE 0

CeilHundredth(n) == IF n > 0 THEN (n + 99) \div 100 ELSE 0

(* Invalidated mass is taken from the demanded and from the valid mass       *)
(* alike, whatever the class of the objects it belonged to.                  *)
SimulateActionGuard(m, action) ==
    LET scenarios == m.scenarios
        demand == Demanded(scenarios)
        baseline == DemandCoverage(m, scenarios).valid
        invalidated == Mass(scenarios, {d \in demand : d[2] \in action.invalidate})
        Added(S) == MapThenSumSet(LAMBDA o : action.add[o].weight, S)
        addedValid == Added({o \in DOMAIN action.add : action.add[o].l2 = {TRUE}})
        next == Mass(scenarios, demand) + Added(DOMAIN action.add) - invalidated
        after == Max({0, baseline + addedValid - invalidated})
        gMin == CeilHundredth(100 * (baseline + addedValid) - next)
    IN  [next |-> next, after |-> after, gMin |-> gMin,
         shortfall |-> CeilHundredth(99 * next - 100 * after),
         outcome |-> CASE next = 0 -> "Unavailable"
                       [] next # 0 /\ 100 * after >= 99 * next -> "Pass"
                       [] next # 0 /\ 100 * after < 99 * next ->
                            IF /\ gMin # 0
                               /\ action.replenish
                               /\ 100 * (after + gMin) >= 99 * next
                            THEN "RepairRequired" ELSE "Deny"]

(* The swap report of a child over the declared next envelope.  Exactly one  *)
(* prewarmed branch is selected, and it must be the child.                   *)
ValidPrewarm(rows, child) ==
    /\ Cardinality({i \in DOMAIN rows : rows[i].selected}) = 1
    /\ \A i \in DOMAIN rows : rows[i].selected => rows[i].root = child.root

ChildWarmSwap(child, envelope) ==
    LET c == DemandCoverage(child, envelope)
        gap == 99 * c.demanded - 100 * c.valid
    IN  [holds |-> c.demanded > 0 /\ gap <= 0,
         repair |-> IF c.demanded = 0 THEN 0 ELSE CeilHundredth(gap)]

-----------------------------------------------------------------------------
TakeImage(objects, scenarios) ==
    LET m == FromLayerLedger(<<>>, objects, layers, scenarios)
    IN  /\ ValidManifest(m)
        /\ image' = {m}
        /\ UNCHANGED layers

ForkChild(changed) ==
    \E m \in image :
        LET child == HypotheticalChild(m, changed, {})
        IN  /\ Len(m.root) < MaxForks
            /\ ValidManifest(m) /\ ValidManifest(child)
            /\ image' = {child}
            /\ UNCHANGED layers

RebuildLedger ==
    \E m \in image : layers' = LayerLedgerFromManifest(m) /\ UNCHANGED image

ImageInit == layers = [o \in {} |-> NewEntry] /\ image = {}

ImageNext ==
    \/ \E o \in Hosted :
          PublishL2(o) \/ MarkL3Loss(o) \/ CompleteRefetch(o) \/ Tombstone(o)
    \/ \E scenarios \in DemandEnvelopes : TakeImage(Objects, scenarios)
    \/ \E changed \in Changes : ForkChild(changed)
    \/ RebuildLedger

ImageSpec == ImageInit /\ [][ImageNext]_imageVars

-----------------------------------------------------------------------------
(* What a proposed action really leaves valid, instance by instance. *)
ValidAfterAction(m, action) ==
    LET stays == {d \in Demanded(m.scenarios) : d[2] \notin action.invalidate}
    IN  Mass(m.scenarios, {d \in stays : L2Of(m, d[2]) = {TRUE}})
        + MapThenSumSet(LAMBDA o : action.add[o].weight,
                        {o \in DOMAIN action.add : action.add[o].l2 = {TRUE}})

Holds(valid, demanded) == demanded > 0 /\ 100 * valid >= 99 * demanded

(* The reports computed from one image never contradict each other or the    *)
(* image, whatever history of publications, losses, refetches, tombstones,   *)
(* forks and rebuilds led to it (project_image.rs).  The coverage classes    *)
(* partition the demand; slack that holds implies coverage that holds; the   *)
(* repair of a warm swap is the least mass that restores it; a guarded       *)
(* action that passes really keeps 99/100 of the next demand valid, and one  *)
(* that needs a repair keeps it with that repair; a child knows nothing of   *)
(* the changed objects and of the others what the parent knew; a ledger      *)
(* rebuilt from the image yields an image with the same valid and the same   *)
(* refetch mass.                                                             *)
ReportsAgree ==
    \A m \in image :
        /\ \A e \in DemandEnvelopes :
              LET c == DemandCoverage(m, e)
                  swap == ChildWarmSwap(m, e)
                  rebuilt == FromLayerLedger(<<>>, m.objects, LayerLedgerFromManifest(m), e)
                  r == DemandCoverage(rebuilt, e)
              IN  /\ c.valid + c.invalid + c.unknown = c.demanded
                  /\ Q99Slack(m, e).holds => Holds(c.valid, c.demanded)
                  /\ swap.holds = Holds(c.valid, c.demanded)
                  /\ c.demanded > 0 => Holds(c.valid + swap.repair, c.demanded)
                  /\ swap.repair > 0 => ~Holds(c.valid + swap.repair - 1, c.demanded)
                  /\ ValidManifest(rebuilt)
                  /\ <<r.valid, r.l2Refetch>> = <<c.valid, c.l2Refetch>>
        /\ \A a \in Actions :
              LET g == SimulateActionGuard(m, a)
                  valid == ValidAfterAction(m, a)
              IN  /\ g.outcome = "Pass" => Holds(valid, g.next)
                  /\ g.outcome = "RepairRequired" => Holds(valid + g.gMin, g.next)
                  /\ g.outcome = "Unavailable" => g.next = 0 /\ valid = 0
        /\ \A changed \in Changes, o \in Objects :
              ValidityClassFor(HypotheticalChild(m, changed, {}), o)
                = IF o \in changed THEN "Unknown" ELSE ValidityClassFor(m, o)

(* LayerValidityEntry::validate: "an L2 copy marked needs-refetch must be    *)
(* L2-valid (identity kept)" (residency.rs).  Fails: tombstone clears the    *)
(* validity of an entry that waits for a refetch, reports the error, and     *)
(* leaves the entry as it is.                                                *)
EntriesStayValid == \A o \in DOMAIN layers : ValidEntry(layers[o])
=============================================================================

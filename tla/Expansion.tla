------------------------------ MODULE Expansion ------------------------------
(* Demand expansion of the gate: a request names a scenario of a project     *)
(* image and a projection of it; the route compiles the demand, checks that  *)
(* the coverage input is complete, issues a sealed handle and lets its       *)
(* holder expand the projection once and then the rest in deltas, every time *)
(* after revalidating the handle against a live state the caller supplies    *)
(* (demand_expand.rs, safe_expand.rs, verdict.rs).  A snap does the issue    *)
(* and the first expansion in one call and reports them in a packet          *)
(* (snap_to_file.rs).                                                        *)
(*                                                                           *)
(* A root or certificate is the tuple of what it is computed from; Other is  *)
(* any different value.  A handle's two seals hold exactly when its fields   *)
(* are those the route sealed.  Handles and continuation tokens can be       *)
(* copied, so every one ever returned may be presented again.                *)
EXTENDS ProjectImage

CONSTANTS
    Ledgers,        \* the residency ledgers images are taken from
    Lens,           \* the byte length of every object
    Scopes,         \* the protected scopes: sets of objects
    Requests,       \* [scenario, projection]
    Inputs,         \* completeness inputs: [index, version, universe, attempts]
    MaxIssues,      \* bound on handles issued
    MaxReasons      \* MAX_PACKET_REASONS

VARIABLES
    serial,         \* issue_serial of the route
    sessions,       \* the session registry, by the serial in the handle's nonce
    tokens,         \* every continuation token returned so far
    returned,       \* what each handle's expansions returned, in order
    packet          \* the outcome of the last snap, a set of at most one

routeVars == <<serial, sessions, tokens, returned, packet>>
expansionVars == <<imageVars, routeVars>>

-----------------------------------------------------------------------------
(* Verdicts: a class and its reasons. *)

Verdict(class, reasons) == [class |-> class, reasons |-> reasons]

Safe == Verdict("Safe", {})

(* Unsafe dominates Unknown dominates Safe; the reasons of the dominating    *)
(* class are merged.                                                         *)
MeetAll(verdicts) ==
    LET Of(class) == {v \in verdicts : v.class = class}
        Merge(class) == Verdict(class, UNION {v.reasons : v \in Of(class)})
    IN  IF Of("Unsafe") # {} THEN Merge("Unsafe")
        ELSE IF Of("Unknown") # {} THEN Merge("Unknown")
        ELSE Safe

-----------------------------------------------------------------------------
(* Compiling the demand and checking its completeness *)

(* An atom outside the image is not looked at further. *)
AtomVerdicts(m, scope, o) ==
    IF o \notin m.objects THEN {Verdict("Unknown", {<<"missing", o>>})}
    ELSE {CASE ValidityClassFor(m, o) \in {"ValidResident", "ValidNotResident"} -> Safe
            [] ValidityClassFor(m, o) = "Invalid" -> Verdict("Unsafe", {<<"invalid", o>>})
            [] ValidityClassFor(m, o) = "Unknown" -> Verdict("Unknown", {<<"layers", o>>})}
         \cup {Verdict("Unsafe", {<<"protected", o>>}) : p \in scope \cap {o}}

CompileDemand(m, request, scope) ==
    LET scenario == m.scenarios[request.scenario]
    IN  IF scenario.unknown \/ scenario.roots = {}
        THEN Verdict("Unknown", {<<"envelope", request.scenario>>})
        ELSE MeetAll(UNION {AtomVerdicts(m, scope, o) : o \in scenario.roots}
                     \cup {Verdict("Unsafe", {<<"projection", o>>}) :
                              o \in request.projection \ scenario.roots})

(* The universe maps each evaluated atom to its coverage, {} when unknown.   *)
CheckCompleteness(input, demanded) ==
    LET universe == input.universe
        Covered(o) ==
            IF o \notin demanded THEN Verdict("Unsafe", {<<"exceeds", o>>})
            ELSE IF universe[o] = {} THEN Verdict("Unknown", {<<"coverage", o>>})
            ELSE IF universe[o] = {FALSE} THEN Verdict("Unsafe", {<<"uncovered", o>>})
            ELSE Safe
    IN  MeetAll({Verdict("Unsafe", {<<"retry", 0>>}) : a \in {input.attempts} \ {1}}
                \cup {Verdict("Unknown", {<<"evidence", 0>>}) : u \in {DOMAIN universe} \cap {{}}}
                \cup {Covered(o) : o \in DOMAIN universe}
                \cup {Verdict("Unknown", {<<"demanded", o>>}) : o \in demanded \ DOMAIN universe})

RouteVerdict(m, request, scope, input) ==
    LET compiled == CompileDemand(m, request, scope)
    IN  IF ~input.index THEN Verdict("Unsafe", {<<"index root", 0>>})
        ELSE IF ~input.version THEN Verdict("Unsafe", {<<"index version", 0>>})
        ELSE IF compiled.class # "Safe" THEN compiled
        ELSE CheckCompleteness(input, m.scenarios[request.scenario].roots)

CompileWork(scenario) == 1 + 3 * Cardinality(scenario.roots)

CheckWork(input, scenario) == Cardinality(DOMAIN input.universe) + Cardinality(scenario.roots)

-----------------------------------------------------------------------------
(* Handles and their revalidation *)

Other == <<>>

(* The five bindings that vary between handles, and the route's own five.    *)
HandleBindings == {"project", "request", "scope", "plan", "projection",
             "indexRoot", "indexVersion", "renderer", "tenant", "epoch"}

Plan(scenario, request) ==
    [scenario |-> request.scenario, demanded |-> scenario.roots,
     weight |-> scenario.weight, projection |-> request.projection]

BindingsOf(m, request, scope, plan) ==
    [b \in HandleBindings |->
        CASE b = "project" -> <<m.root>>
          [] b = "request" -> <<request>>
          [] b = "scope" -> <<scope>>
          [] b = "plan" -> <<plan.scenario, plan.demanded, plan.weight>>
          [] b = "projection" -> <<plan.projection>>
          [] OTHER -> <<b>>]

Handle(nonce, bind, certificate) ==
    [nonce |-> nonce, bind |-> bind, certificate |-> certificate, checker |-> <<"checker">>]

(* Verify: the keyed seal of the fields, then the identity computed from     *)
(* them.                                                                     *)
Sealed(h) == h \in {sessions[n].handle : n \in DOMAIN sessions}

Presentable(n) ==
    LET h == sessions[n].handle
    IN  {h} \cup {[h EXCEPT !.bind[b] = Other] : b \in {"plan", "epoch"}}

CurrentLiveState(n, verdict, retried) ==
    [bind |-> sessions[n].bind, certificate |-> {sessions[n].handle.certificate},
     checker |-> {sessions[n].handle.checker}, verdict |-> verdict, first |-> TRUE,
     retried |-> retried]

(* Every live state that differs from the current one in one respect.        *)
LiveStates(n) ==
    LET current == CurrentLiveState(n, "Safe", FALSE)
    IN  {current, CurrentLiveState(n, "Safe", TRUE),
         CurrentLiveState(n, "Unsafe", FALSE), CurrentLiveState(n, "Unknown", FALSE),
         [current EXCEPT !.first = FALSE]}
        \cup {[current EXCEPT !.bind[b] = Other] : b \in HandleBindings}
        \cup {[current EXCEPT !.certificate = c] : c \in {{}, {Other}}}
        \cup {[current EXCEPT !.checker = c] : c \in {{}, {Other}}}

Revalidate(h, live) ==
    IF \/ ~Sealed(h)
       \/ live.retried
       \/ \E b \in HandleBindings : live.bind[b] # h.bind[b]
       \/ live.verdict = "Unsafe"
       \/ ~(live.certificate \subseteq {h.certificate})
       \/ ~(live.checker \subseteq {h.checker})
       \/ ~live.first
    THEN "Unsafe"
    ELSE IF live.certificate = {} \/ live.checker = {} \/ live.verdict = "Unknown"
    THEN "Unknown"
    ELSE "Safe"

SessionConsistent(s, h) ==
    \A b \in {"project", "request", "scope", "plan", "projection"} : s.bind[b] = h.bind[b]

-----------------------------------------------------------------------------
(* The route *)

Bytes(s, atoms) ==
    MapThenSumSet(LAMBDA o : IF o \in DOMAIN s.lens THEN s.lens[o] ELSE 0, atoms)

NewSession(m, request, scope, input) ==
    LET scenario == m.scenarios[request.scenario]
        plan == Plan(scenario, request)
        bind == BindingsOf(m, request, scope, plan)
    IN  [handle |-> Handle(serial + 1, bind, <<plan, input.universe>>),
         plan |-> plan, bind |-> bind, protected |-> scope,
         lens |-> [o \in m.objects |-> Lens[o]],
         expanded |-> {}, seq |-> 0, visible |-> 0,
         work |-> CompileWork(scenario) + CheckWork(input, scenario), terminal |-> FALSE]

FirstExpanded(s) ==
    LET atoms == s.plan.projection
    IN  [s EXCEPT !.expanded = atoms, !.visible = Bytes(s, atoms),
                  !.work = @ + 1 + Cardinality(atoms),
                  !.terminal = Cardinality(atoms) = Cardinality(s.plan.demanded)]

DeltaExpanded(s, atoms) ==
    [s EXCEPT !.expanded = @ \cup atoms, !.visible = @ + Bytes(s, atoms),
              !.work = @ + 1 + Cardinality(atoms), !.seq = @ + 1,
              !.terminal = Cardinality(s.expanded \cup atoms) = Cardinality(s.plan.demanded)]

Token(n, s) == [handle |-> n, seq |-> s.seq, terminal |-> s.terminal]

Register(n, s) == [k \in DOMAIN sessions \cup {n} |-> IF k = n THEN s ELSE sessions[k]]

Remember(n, entry) ==
    [k \in DOMAIN returned \cup {n} |->
        IF k # n THEN returned[k]
        ELSE IF n \in DOMAIN returned THEN Append(returned[n], entry) ELSE <<entry>>]

Returns(n, s, entry) ==
    /\ sessions' = Register(n, s)
    /\ tokens' = tokens \cup {Token(n, s)}
    /\ returned' = Remember(n, entry)

CompileAndCheck(m, request, scope, input) ==
    /\ serial < MaxIssues
    /\ RouteVerdict(m, request, scope, input).class = "Safe"
    /\ serial' = serial + 1
    /\ sessions' = Register(serial + 1, NewSession(m, request, scope, input))
    /\ UNCHANGED <<imageVars, tokens, returned, packet>>

ExpandFirst(h, live) ==
    LET n == h.nonce
        s == sessions[n]
    IN  /\ s.expanded = {}
        /\ Revalidate(h, live) = "Safe"
        /\ SessionConsistent(s, h)
        /\ Returns(n, FirstExpanded(s), [atoms |-> s.plan.projection, seq |-> 0, live |-> live])
        /\ UNCHANGED <<imageVars, serial, packet>>

(* A plausible slip: what was expanded before is not looked at. *)
ExpandDeltaAgain(token, atoms, live) ==
    LET n == token.handle
        s == sessions[n]
    IN  /\ token.seq = s.seq
        /\ Revalidate(s.handle, live) = "Safe"
        /\ SessionConsistent(s, s.handle)
        /\ ~s.terminal
        /\ atoms \subseteq s.plan.demanded
        /\ atoms \cap s.protected = {}
        /\ Returns(n, DeltaExpanded(s, atoms), [atoms |-> atoms, seq |-> token.seq + 1, live |-> live])
        /\ UNCHANGED <<imageVars, serial, packet>>

ExpandDelta(token, atoms, live) ==
    LET n == token.handle
        s == sessions[n]
    IN  /\ token.seq = s.seq
        /\ Revalidate(s.handle, live) = "Safe"
        /\ SessionConsistent(s, s.handle)
        /\ ~s.terminal
        /\ atoms \subseteq s.plan.demanded
        /\ atoms \cap s.expanded = {}
        /\ atoms \cap s.protected = {}
        /\ Returns(n, DeltaExpanded(s, atoms), [atoms |-> atoms, seq |-> token.seq + 1, live |-> live])
        /\ UNCHANGED <<imageVars, serial, packet>>

-----------------------------------------------------------------------------
(* Snaps *)

ValidPacket(p) ==
    /\ Cardinality(p.reasons) <= MaxReasons
    /\ IF p.kind = "Snapped"
       THEN /\ p.claim # {} /\ p.atoms # {} /\ p.metrics # {}
            /\ ~p.escape /\ p.reasons = {} /\ p.proved
            /\ p.primary = (Cardinality(p.atoms) = 1)
            /\ p.primary => "orientation only" \in p.obligations
       ELSE /\ p.claim = {} /\ p.atoms = {} /\ p.metrics = {}
            /\ ~p.proved /\ ~p.primary /\ p.reasons # {}
            /\ p.escape = (p.kind = "Escaped")

SnappedObligations(s, primary) ==
    {"verify projection", "no edit authority", "revalidate"}
    \cup (IF s.terminal THEN {} ELSE {"expand remaining closure"})
    \cup (IF primary THEN {"orientation only"} ELSE {})

SnappedPacket(n, s, request) ==
    LET primary == Cardinality(request.projection) = 1
    IN  [kind |-> "Snapped", claim |-> {<<n, s.plan>>}, atoms |-> s.expanded,
         metrics |-> {<<s.visible, s.work, Cardinality(s.plan.demanded),
                        Cardinality(s.expanded)>>},
         escape |-> FALSE, primary |-> primary, reasons |-> {}, proved |-> TRUE,
         obligations |-> SnappedObligations(s, primary)]

UnsafePacket(verdict) ==
    LET escaped == verdict.class = "Unknown"
    IN  [kind |-> IF escaped THEN "Escaped" ELSE "Refused", claim |-> {}, atoms |-> {},
         metrics |-> {}, escape |-> escaped, primary |-> FALSE, reasons |-> verdict.reasons,
         proved |-> FALSE,
         obligations |-> {IF escaped THEN "native escape" ELSE "demand refused",
                          "no completeness claim"}]

(* A packet that does not validate is an error: the caller gets nothing, and *)
(* a session opened for it stays, its first expansion spent.                 *)
Report(p) == packet' = {q \in {p} : ValidPacket(q)}

Snap(m, request, scope, input) ==
    LET verdict == RouteVerdict(m, request, scope, input)
        n == serial + 1
        opened == NewSession(m, request, scope, input)
        s == FirstExpanded(opened)
        live == [bind |-> opened.bind, certificate |-> {opened.handle.certificate},
                 checker |-> {opened.handle.checker}, verdict |-> "Safe", first |-> TRUE,
                 retried |-> FALSE]
    IN  \/ /\ verdict.class = "Safe" /\ serial < MaxIssues
           /\ serial' = n
           /\ Returns(n, s, [atoms |-> s.plan.projection, seq |-> 0, live |-> live])
           /\ Report(SnappedPacket(n, s, request))
           /\ UNCHANGED imageVars
        \/ /\ verdict.class # "Safe"
           /\ Report(UnsafePacket(verdict))
           /\ UNCHANGED <<imageVars, serial, sessions, tokens, returned>>

-----------------------------------------------------------------------------
ExpansionInit ==
    /\ layers \in Ledgers
    /\ \E e \in DemandEnvelopes : image = {FromLayerLedger(<<>>, DOMAIN Lens, layers, e)}
    /\ serial = 0
    /\ sessions = [n \in {} |-> 0]
    /\ returned = [n \in {} |-> <<>>]
    /\ tokens = {}
    /\ packet = {}

ExpansionNext ==
    \/ \E m \in image, request \in Requests, scope \in Scopes, input \in Inputs :
          /\ request.scenario \in DOMAIN m.scenarios
          /\ ValidManifest(m)
          /\ CompileAndCheck(m, request, scope, input) \/ Snap(m, request, scope, input)
    \/ \E n \in DOMAIN sessions : \E h \in Presentable(n), live \in LiveStates(n) :
          ExpandFirst(h, live)
    \/ \E token \in tokens, atoms \in (SUBSET Objects) \ {{}} :
          \E live \in LiveStates(token.handle) : ExpandDelta(token, atoms, live)

ExpansionSpec == ExpansionInit /\ [][ExpansionNext]_expansionVars

-----------------------------------------------------------------------------
AtomsOf(n) == IF n \in DOMAIN returned THEN {returned[n][k].atoms : k \in DOMAIN returned[n]} ELSE {}

(* The exactly-once law of a handle (demand_expand.rs): however its holder   *)
(* interleaves, repeats and replays first expansions, deltas and copied      *)
(* tokens, and whatever live states it presents, every certified atom is     *)
(* returned at most once, the first expansion returns exactly the projection *)
(* and each continuation token is spent once, in order.  Only atoms of the   *)
(* compiled scenario that are outside the protected scope and positively     *)
(* covered are ever returned, each time under the live state of the issue.   *)
(* The bytes and the work charged are those of what was returned, and the    *)
(* session is terminal exactly when nothing certified is left.  A snapped    *)
(* packet names a handle whose first expansion was spent on its atoms, and   *)
(* omits the obligation to expand the rest only when there is none.          *)
ExpandsExactlyOnce ==
    /\ \A n \in DOMAIN sessions :
           LET s == sessions[n]
               out == IF n \in DOMAIN returned THEN returned[n] ELSE <<>>
           IN  /\ s.expanded = UNION AtomsOf(n)
               /\ \A i, j \in DOMAIN out : i < j => out[i].atoms \cap out[j].atoms = {}
               /\ \A i \in DOMAIN out :
                     /\ out[i].seq = i - 1
                     /\ out[i].live = CurrentLiveState(n, "Safe", FALSE)
               /\ out # <<>> => out[1].atoms = s.plan.projection
               /\ s.expanded \subseteq s.plan.demanded \ s.protected
               /\ s.visible = MapThenSumSet(LAMBDA o : Lens[o], s.expanded)
               /\ s.work = 1 + 5 * Cardinality(s.plan.demanded) + Len(out) + Cardinality(s.expanded)
               /\ s.terminal = (s.expanded = s.plan.demanded)
    /\ \A p \in packet : p.kind = "Snapped" =>
          \E n \in DOMAIN sessions :
              /\ p.claim = {<<n, sessions[n].plan>>}
              /\ p.atoms = returned[n][1].atoms
              /\ "expand remaining closure" \notin p.obligations => sessions[n].terminal
=============================================================================

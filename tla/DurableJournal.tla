--------------------------- MODULE DurableJournal ---------------------------
(* The durable commit journal of zero-store: prepare, commit, abort, owner     *)
(* death and recovery over five files, with a failure between any two writes.  *)
(* Calls on one set of paths are serialized by the caller: the code takes no   *)
(* lock.                                                                       *)
EXTENDS Directory

CONSTANTS JBindings,       \* transactions: [id, old, new, leased]
          FirstRoot,       \* the root a workspace is initialized with
          DeathTimes,      \* clock values of an owner-death observation
          MaxKills,        \* bound: calls that die or fail half way
          MaxPowerLosses   \* bound: power failures

VARIABLES jdir,      \* the directory of the five files
          jcall,     \* the call in progress
          expired,   \* the leases of the leased bindings have expired
          jtold,     \* history: the decisions told by calls that settled them
          jrepeated, \* history: the decisions repeated from a receipt found
          kills, powerLosses

journalVars == <<jdir, jcall, expired, jtold, jrepeated, kills, powerLosses>>

\* JournalBinding::validate and its lease-bound form.
ValidBinding(b) == b.old # b.new

ASSUME JournalAssumption == \A b \in JBindings : ValidBinding(b)

\* Somebody works on the workspace that was initialized.
ASSUME WorkAssumption == \E b \in JBindings : b.old = FirstRoot

\* The paths are distinct files.
JournalPaths == {"root", "journal", "cartridge", "death", "receipt"}

NoTransaction == [id |-> "none"]

\* A digest stands for the record it is of, a cartridge for its binding: the
\* prepared record is a function of the binding.
RootPublicationReceipt ==
    [root : {FirstRoot}, tx : {NoTransaction}]
        \cup {[root |-> b.new, tx |-> b] : b \in JBindings}
Initial(r) == [root |-> r, tx |-> NoTransaction]
Published(b) == [root |-> b.new, tx |-> b]

AbortReason == {"ExplicitAbort", "RecoveryObservedOldRoot", "OwnerDeathObservedOldRoot"}
DurableJournalRecord ==
    [state : {"Prepared", "Committed"}, binding : JBindings]
        \cup [state : {"Aborted"}, binding : JBindings, reason : AbortReason]
Prepared(b) == [state |-> "Prepared", binding |-> b]
Committed(b) == [state |-> "Committed", binding |-> b]
Aborted(b, why) == [state |-> "Aborted", binding |-> b, reason |-> why]

RecoveryOutcome == {"NotStartedOldRoot", "OldRootAborted", "NewRootCommitted",
                    "AlreadyCommitted", "AlreadyAborted"}
RecoveryReceipt == [binding : JBindings, outcome : RecoveryOutcome]
OwnerDeathReceipt ==
    [binding : JBindings, root : {r.root : r \in RootPublicationReceipt}, at : DeathTimes]

ASSUME AbsentAssumption ==
    Absent \notin RootPublicationReceipt \cup DurableJournalRecord \cup RecoveryReceipt
                     \cup OwnerDeathReceipt \cup JBindings

ASSUME NoTransactionAssumption == NoTransaction \notin JBindings

Decided(b, outcome) ==
    [binding |-> b,
     root |-> IF outcome \in {"NewRootCommitted", "AlreadyCommitted"} THEN "new" ELSE "old"]

-----------------------------------------------------------------------------
(* Calls: what is left to write, in order.  `once` marks immutable files.      *)

NoCall == [todo |-> <<>>, phase |-> "idle", told |-> {}]

Call(todo, told) == [todo |-> todo, phase |-> "write", told |-> told]

Write(f, v) == [file |-> f, value |-> v, once |-> FALSE]
WriteOnce(f, v) == [file |-> f, value |-> v, once |-> TRUE]

\* Telling a caller that nothing was started announces no decision.
Announced(receipt) ==
    IF receipt.outcome = "NotStartedOldRoot" THEN {}
    ELSE {Decided(receipt.binding, receipt.outcome)}

\* A call that ends by persisting a recovery receipt (make_recovery,
\* persist_recovery).
Settle(todo, b, outcome) ==
    LET receipt == [binding |-> b, outcome |-> outcome]
    IN Call(Append(todo, WriteOnce("receipt", receipt)), Announced(receipt))

\* The prepare, commit, ... functions of the plain binding and of the leased
\* one read records of their own form only.
ReadAs(b, record) == record # Absent /\ record.binding.leased = b.leased

\* A plausible slip: the root is not looked at.
VerifyNothing(s, b) == TRUE

VerifyOld(s, b) == s["root"].root = b.old
VerifyNew(s, b) == s["root"] = Published(b)

\* owner_death_digest: an owner-death receipt of another binding is an error.
DeathAgrees(s, b) == s["death"] # Absent => s["death"].binding = b

\* existing_recovery: the receipt that is found is the answer.
Repeat(receipt) ==
    /\ jrepeated' = jrepeated \cup Announced(receipt)
    /\ UNCHANGED <<jdir, jcall, jtold>>

Idle == jcall = NoCall

Begin(call) == jcall' = call /\ UNCHANGED <<jdir, jtold, jrepeated>>

Steady == UNCHANGED <<expired, kills, powerLosses>>

InitializeRoot ==
    /\ Idle /\ Steady
    /\ Seen(jdir)["root"] = Absent
    /\ Begin(Call(<<Write("root", Initial(FirstRoot))>>, {}))

\* The lease is checked here and nowhere else.
Prepare(b) ==
    LET s == Seen(jdir)
    IN /\ Idle /\ Steady
       /\ ~(b.leased /\ expired)
       /\ s["root"] # Absent /\ VerifyOld(s, b)
       /\ s["receipt"] = Absent
       /\ s["journal"] = Absent
       /\ Begin(Call(<<WriteOnce("cartridge", b), Write("journal", Prepared(b))>>, {}))

\* The cartridge is the one a prepare returned, or is read from its file.
Commit(b) ==
    LET s == Seen(jdir)
    IN /\ Idle /\ Steady
       /\ s["cartridge"] = b
       /\ \/ /\ s["receipt"] # Absent /\ s["receipt"].binding = b
             /\ Repeat(s["receipt"])
          \/ /\ s["receipt"] = Absent
             /\ ReadAs(b, s["journal"]) /\ s["journal"].binding = b
             /\ \/ /\ s["journal"].state = "Committed" /\ VerifyNew(s, b)
                   /\ Begin(Settle(<<>>, b, "AlreadyCommitted"))
                \/ /\ s["journal"].state = "Prepared" /\ VerifyOld(s, b)
                   /\ Begin(Settle(<<Write("root", Published(b)),
                                     Write("journal", Committed(b))>>, b, "NewRootCommitted"))
                \/ /\ s["journal"].state = "Prepared" /\ VerifyNew(s, b)
                   /\ Begin(Settle(<<Write("journal", Committed(b))>>, b, "NewRootCommitted"))

Abort(b) ==
    LET s == Seen(jdir)
    IN /\ Idle /\ Steady
       /\ s["cartridge"] = b
       /\ \/ /\ s["receipt"] # Absent /\ s["receipt"].binding = b
             /\ Repeat(s["receipt"])
          \/ /\ s["receipt"] = Absent
             /\ ReadAs(b, s["journal"]) /\ s["journal"].binding = b
             /\ VerifyOld(s, b)
             /\ \/ /\ s["journal"].state = "Aborted"
                   /\ Begin(Settle(<<>>, b, "AlreadyAborted"))
                \/ /\ s["journal"].state = "Prepared"
                   /\ Begin(Settle(<<Write("journal", Aborted(b, "ExplicitAbort"))>>,
                                   b, "OldRootAborted"))

RecordOwnerDeath(b, at) ==
    LET s == Seen(jdir)
    IN /\ Idle /\ Steady
       /\ ReadAs(b, s["journal"]) /\ s["journal"] = Prepared(b)
       /\ Begin(Call(<<WriteOnce("death", [binding |-> b, root |-> s["root"].root,
                                           at |-> at])>>, {}))

-----------------------------------------------------------------------------
(* Recovery decides from the files alone: prepared with the old root aborts,   *)
(* prepared with the new root commits, any other pairing is refused.           *)

Refused == [phase |-> "refused"]

\* A plausible slip: a cartridge without a journal is an error.
CartridgeNeedsJournal(s, b) ==
    IF s["root"].root = b.old /\ s["cartridge"] = Absent
    THEN Settle(<<>>, b, "NotStartedOldRoot") ELSE Refused

WithoutJournal(s, b) ==
    IF s["root"].root # b.old \/ s["cartridge"] \notin {Absent, b} THEN Refused
    ELSE IF s["cartridge"] = Absent THEN Settle(<<>>, b, "NotStartedOldRoot")
    ELSE Settle(<<Write("journal", Aborted(b, "RecoveryObservedOldRoot"))>>, b, "OldRootAborted")

WithJournal(s, b) ==
    LET state == s["journal"].state
        why == IF s["death"] # Absent THEN "OwnerDeathObservedOldRoot"
               ELSE "RecoveryObservedOldRoot"
    IN IF ~ReadAs(b, s["journal"]) \/ s["journal"].binding # b \/ ~DeathAgrees(s, b) THEN Refused
       ELSE CASE state = "Prepared" /\ VerifyOld(s, b) ->
                   Settle(<<Write("journal", Aborted(b, why))>>, b, "OldRootAborted")
              [] state = "Prepared" /\ VerifyNew(s, b) ->
                   Settle(<<Write("journal", Committed(b))>>, b, "NewRootCommitted")
              [] state = "Committed" /\ VerifyNew(s, b) -> Settle(<<>>, b, "AlreadyCommitted")
              [] state = "Aborted" /\ VerifyOld(s, b) -> Settle(<<>>, b, "AlreadyAborted")
              [] OTHER -> Refused

RecoverCall(s, b) ==
    IF s["root"] = Absent THEN Refused
    ELSE IF s["journal"] = Absent THEN WithoutJournal(s, b)
    ELSE WithJournal(s, b)

Recover(b) ==
    LET s == Seen(jdir)
    IN /\ Idle /\ Steady
       /\ \/ /\ s["receipt"] # Absent /\ s["receipt"].binding = b
             /\ Repeat(s["receipt"])
          \/ /\ s["receipt"] = Absent
             /\ RecoverCall(s, b) # Refused
             /\ Begin(RecoverCall(s, b))

\* verify_committed_lease_binding: a reader's check of a committed record.
VerifyCommitted(b) ==
    LET s == Seen(jdir)
    IN /\ Idle /\ Steady
       /\ b.leased
       /\ s["journal"] = Committed(b)
       /\ s["receipt"] # Absent /\ s["receipt"].binding = b
       /\ Repeat(s["receipt"])

-----------------------------------------------------------------------------
(* durable_replace and write_once.  The owner-death receipt is read when the   *)
(* recovery receipt is made.                                                   *)

Rename ==
    LET w == Head(jcall.todo)
        old == Seen(jdir)[w.file]
        conflict ==
            \/ w.once /\ old # Absent /\ old # w.value
            \/ w.file = "receipt" /\ ~DeathAgrees(Seen(jdir), w.value.binding)
    IN /\ jcall.phase = "write" /\ jcall.todo # <<>> /\ Steady
       /\ UNCHANGED <<jtold, jrepeated>>
       /\ CASE conflict -> jcall' = NoCall /\ UNCHANGED jdir
            [] ~conflict /\ w.once /\ old # Absent ->
                 jcall' = [jcall EXCEPT !.todo = Tail(@)] /\ UNCHANGED jdir
            [] OTHER ->
                 /\ jdir' = Renamed(jdir, w.file, w.value)
                 /\ jcall' = [jcall EXCEPT !.phase = "sync"]

\* A plausible slip: the rename counts as durable.
SyncNothing ==
    /\ jcall.phase = "sync" /\ Steady
    /\ jcall' = [jcall EXCEPT !.todo = Tail(@), !.phase = "write"]
    /\ UNCHANGED <<jdir, jtold, jrepeated>>

SyncDir ==
    /\ jcall.phase = "sync" /\ Steady
    /\ jdir' = Synced(jdir)
    /\ jcall' = [jcall EXCEPT !.todo = Tail(@), !.phase = "write"]
    /\ UNCHANGED <<jtold, jrepeated>>

Return ==
    /\ jcall.phase = "write" /\ jcall.todo = <<>> /\ Steady
    /\ jtold' = jtold \cup jcall.told
    /\ jcall' = NoCall
    /\ UNCHANGED <<jdir, jrepeated>>

\* An I/O error ends the call, or the process dies.
CallDies ==
    /\ ~Idle /\ kills < MaxKills
    /\ kills' = kills + 1
    /\ jcall' = NoCall
    /\ UNCHANGED <<jdir, jtold, jrepeated, expired, powerLosses>>

PowerLoss ==
    /\ powerLosses < MaxPowerLosses
    /\ powerLosses' = powerLosses + 1
    /\ \E image \in Images(jdir) : jdir' = <<image>>
    /\ jcall' = NoCall
    /\ UNCHANGED <<jtold, jrepeated, expired, kills>>

Expire ==
    /\ ~expired /\ expired' = TRUE
    /\ UNCHANGED <<jdir, jcall, jtold, jrepeated, kills, powerLosses>>

JournalInit ==
    /\ jdir = Empty(JournalPaths)
    /\ jcall = NoCall /\ expired = FALSE /\ jtold = {} /\ jrepeated = {}
    /\ kills = 0 /\ powerLosses = 0

JournalNext ==
    \/ InitializeRoot
    \/ \E b \in JBindings :
           \/ Prepare(b) \/ Commit(b) \/ Abort(b) \/ Recover(b) \/ VerifyCommitted(b)
           \/ \E at \in DeathTimes : RecordOwnerDeath(b, at)
    \/ Rename \/ SyncDir \/ Return \/ CallDies \/ PowerLoss \/ Expire

JournalSpec == JournalInit /\ [][JournalNext]_journalVars

-----------------------------------------------------------------------------
\* The journal corresponds to the root: a committed journal or receipt comes
\* with the published new root, an aborted one with the old root, and a
\* published root with the journal of its transaction.
Corresponds(s) ==
    LET j == s["journal"]
        r == s["root"]
        p == s["receipt"]
    IN /\ j # Absent => r # Absent /\ r.root \in {j.binding.old, j.binding.new}
       /\ j # Absent /\ j.state = "Committed" => r = Published(j.binding)
       /\ j # Absent /\ j.state = "Aborted" => r.root = j.binding.old
       /\ p # Absent /\ p.outcome \in {"NewRootCommitted", "AlreadyCommitted"} =>
              j = Committed(p.binding)
       /\ p # Absent /\ p.outcome \in {"OldRootAborted", "AlreadyAborted"} =>
              j # Absent /\ j.state = "Aborted" /\ j.binding = p.binding
       /\ r # Absent /\ r.tx # NoTransaction => j # Absent /\ j.binding = r.tx

\* durable_journal_contract's publication_law, "root_is_old_or_new_and_journal_
\* corresponds", in every state a power failure may leave, at every point of
\* every call.
PublicationLaw == \A image \in Images(jdir) : Corresponds(image)

\* Whatever failures leave, recover_bound_journal can settle the journal for
\* some transaction: its disagreement errors and the cartridge checks never
\* lock a workspace out.
RecoveryNeverStuck ==
    \A image \in Images(jdir) :
        image["root"] # Absent =>
            \E b \in JBindings :
                IF image["receipt"] # Absent THEN image["receipt"].binding = b
                ELSE RecoverCall(image, b) # Refused

\* The decision a power failure cannot take back.
DurableDecision(s) ==
    CASE s["root"] # Absent /\ s["root"].tx # NoTransaction ->
           Decided(s["root"].tx, "NewRootCommitted")
      [] s["journal"] # Absent /\ s["journal"].state = "Aborted" ->
           Decided(s["journal"].binding, "OldRootAborted")
      [] OTHER -> NoTransaction

Contract == INSTANCE Decision
    WITH decision <- DurableDecision(Durable(jdir)), told <- jtold, Undecided <- NoTransaction,
         Decisions <- {Decided(b, o) : b \in JBindings, o \in RecoveryOutcome}

\* The journal implements one durable decision: commit, abort and recovery, in
\* any order and with any number of failures between, never revise it, and a
\* call that settles it tells it only once it is durable.
ImplementsDecision == Contract!DecisionSpec

\* Answers repeated from a receipt included, callers never hear two outcomes
\* unless two calls ended half way and the power failed: a receipt and the
\* record it rests on may both be renamed and not synced.
AnswersAgree ==
    kills <= 1 \/ powerLosses = 0 => \A d, e \in jtold \cup jrepeated : d = e
=============================================================================

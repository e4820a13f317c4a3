--------------------------- MODULE AttemptJournal ---------------------------
(* The attempt journal of zero-store: one effect attempt as a chain of         *)
(* write-once entry files, with an explicit dispatch boundary.  Calls on one   *)
(* journal are serialized by the caller: the code takes no lock.               *)
EXTENDS Directory

CONSTANTS Attempts,         \* attempt bindings
          Evidences,        \* authoritative evidence: [kind, receipt]
          MaxEntries,       \* ATTEMPT_JOURNAL_MAX_ENTRIES
          MaxDeaths,        \* bound: calls that die or fail half way
          MaxPowerFailures  \* bound: power failures

VARIABLES adir,     \* the directory of the entry files
          acall,    \* the entry the call in progress is writing
          cleared,  \* mark_dispatch_crossed returned and the effect has not been dispatched
          ran,      \* history: the effect was dispatched
          atold,    \* history: terminal entries returned to the caller
          deadCalls, powerFailures

attemptVars == <<adir, acall, cleared, ran, atold, deadCalls, powerFailures>>

IsTerminal(state) == state \notin {"Prepared", "DispatchCrossed"}

NoEvidence == [kind |-> "none", receipt |-> "none"]
NoEntry == [state |-> "none"]

ASSUME EvidenceAssumption ==
    \A e \in Evidences : e.kind \in {"completion", "failure"}

ASSUME EntriesAssumption == MaxEntries \in Nat

\* A digest stands for the entry it is of: an entry holds its predecessor.
Entry(state, b, pred, evidence) ==
    [state |-> state, binding |-> b, pred |-> pred, evidence |-> evidence]

\* The entries by their place in the chain.
FirstEntry ==
    [state : {"Prepared"}, binding : Attempts, pred : {NoEntry}, evidence : {NoEvidence}]
SecondEntry ==
    [state : {"DispatchCrossed", "Aborted", "SafeToRetry"}, binding : Attempts,
     pred : FirstEntry, evidence : {NoEvidence}]
ThirdEntry ==
    [state : {"Succeeded", "Failed", "Indeterminate"}, binding : Attempts,
     pred : SecondEntry, evidence : Evidences \cup {NoEvidence}]
AttemptEntry == FirstEntry \cup SecondEntry \cup ThirdEntry

ASSUME NoFileAssumption == Absent \notin AttemptEntry

\* AttemptEntry::validate: the evidence fits the state.
ValidEntry(e) ==
    /\ (e.state = "Prepared") = (e.pred = NoEntry)
    /\ e.evidence.kind = CASE e.state = "Succeeded" -> "completion"
                           [] e.state = "Failed" -> "failure"
                           [] OTHER -> "none"

IsValidTransition(from, to) ==
    \/ from = "Prepared" /\ to \in {"DispatchCrossed", "Aborted", "SafeToRetry"}
    \/ from = "DispatchCrossed" /\ to \in {"Succeeded", "Failed", "Indeterminate"}

EntryFiles == 1..MaxEntries

\* read_chain: the entries up to the first gap; a chain with a later entry, a
\* wrong predecessor or a forbidden transition is unreadable.
Length(s) == CHOOSE n \in 0..MaxEntries :
                 /\ \A i \in 1..n : s[i] # Absent
                 /\ n < MaxEntries => s[n + 1] = Absent

ChainValid(s) ==
    /\ \A i \in EntryFiles : s[i] # Absent => ValidEntry(s[i])
    /\ Length(s) > 0 => \A i \in EntryFiles : i > Length(s) => s[i] = Absent
    /\ \A i \in 2..Length(s) :
           s[i].pred = s[i - 1] /\ IsValidTransition(s[i - 1].state, s[i].state)

Current(s) == IF Length(s) = 0 THEN NoEntry ELSE s[Length(s)]

-----------------------------------------------------------------------------
NoWrite == [phase |-> "idle"]

Free == acall = NoWrite

\* The call goes on to write entry number n, which it then returns.
Writing(n, entry) ==
    /\ n <= MaxEntries
    /\ acall' = [phase |-> "write", file |-> n, entry |-> entry]
    /\ UNCHANGED <<adir, cleared, ran, atold, deadCalls, powerFailures>>

\* A terminal entry is returned, or a crossing is confirmed.
Returned(entry) ==
    /\ atold' = IF IsTerminal(entry.state) THEN atold \cup {entry} ELSE atold
    /\ cleared' = (cleared \/ entry.state = "DispatchCrossed")

\* The entry is found in the journal and returned.
Replied(entry) == Returned(entry) /\ UNCHANGED <<adir, acall, ran, deadCalls, powerFailures>>

\* A second call with the same binding finds the entry and changes nothing.
PrepareAttempt(b) ==
    LET s == Seen(adir)
    IN /\ Free /\ ChainValid(s)
       /\ Length(s) = 0
       /\ Writing(1, Entry("Prepared", b, NoEntry, NoEvidence))

\* The caller holds the digest of an entry it has been given; `held` is that
\* entry.  A repeated call finds the crossing and returns it.
MarkDispatchCrossed(held) ==
    LET s == Seen(adir)
    IN /\ Free /\ ChainValid(s)
       /\ \/ /\ Current(s) = held /\ held.state = "Prepared"
             /\ Writing(Length(s) + 1, Entry("DispatchCrossed", held.binding, held, NoEvidence))
          \/ /\ Current(s).state = "DispatchCrossed" /\ Current(s).pred = held
             /\ Replied(Current(s))

MarkTerminal(held, state, evidence) ==
    LET s == Seen(adir)
        entry == Entry(state, held.binding, held, evidence)
    IN /\ Free /\ ChainValid(s)
       /\ ValidEntry(entry)
       /\ \/ /\ Current(s) = held /\ held.state = "DispatchCrossed"
             /\ Writing(Length(s) + 1, entry)
          \/ Current(s) = entry /\ Replied(entry)

AbortAttempt(held) ==
    LET s == Seen(adir)
        entry == Entry("Aborted", held.binding, held, NoEvidence)
    IN /\ Free /\ ChainValid(s)
       /\ \/ /\ Current(s) = held /\ held.state = "Prepared"
             /\ Writing(Length(s) + 1, entry)
          \/ Current(s) = entry /\ Replied(entry)

\* Recovery classifies: a prepared attempt never ran, a crossed one is known
\* by its evidence only.
RecoverAttempt(b, evidence) ==
    LET s == Seen(adir)
        now == Current(s)
        state == IF now.state = "Prepared" THEN "SafeToRetry"
                 ELSE IF evidence.kind = "completion" THEN "Succeeded"
                 ELSE IF evidence.kind = "failure" THEN "Failed"
                 ELSE "Indeterminate"
        proof == IF now.state = "Prepared" THEN NoEvidence ELSE evidence
    IN /\ Free /\ ChainValid(s)
       /\ Length(s) > 0 /\ s[1].binding = b
       /\ IF IsTerminal(now.state)
          THEN Replied(now)
          ELSE Writing(Length(s) + 1, Entry(state, b, now, proof))

-----------------------------------------------------------------------------
(* write_once_entry: an entry that is there is not written again.              *)

WriteOnceEntry ==
    LET old == Seen(adir)[acall.file]
    IN /\ acall.phase = "write"
       /\ IF old = Absent
          THEN /\ adir' = Renamed(adir, acall.file, acall.entry)
               /\ acall' = [acall EXCEPT !.phase = "sync"]
               /\ UNCHANGED <<cleared, atold>>
          ELSE /\ acall' = NoWrite
               /\ IF old = acall.entry THEN Returned(old) ELSE UNCHANGED <<cleared, atold>>
               /\ UNCHANGED adir
       /\ UNCHANGED <<ran, deadCalls, powerFailures>>

\* A plausible slip: the directory is not synced.
SyncNoEntry ==
    /\ acall.phase = "sync"
    /\ acall' = NoWrite
    /\ Returned(acall.entry)
    /\ UNCHANGED <<adir, ran, deadCalls, powerFailures>>

SyncEntry ==
    /\ acall.phase = "sync"
    /\ adir' = Synced(adir)
    /\ acall' = NoWrite
    /\ Returned(acall.entry)
    /\ UNCHANGED <<ran, deadCalls, powerFailures>>

\* The effect is dispatched once the crossing was confirmed.
Dispatch ==
    /\ Free /\ cleared
    /\ ran' = TRUE /\ cleared' = FALSE
    /\ UNCHANGED <<adir, acall, atold, deadCalls, powerFailures>>

\* An I/O error ends the call, or the process dies.
CallerDies ==
    /\ deadCalls < MaxDeaths
    /\ ~Free \/ cleared
    /\ deadCalls' = deadCalls + 1
    /\ acall' = NoWrite /\ cleared' = FALSE
    /\ UNCHANGED <<adir, ran, atold, powerFailures>>

PowerFails ==
    /\ powerFailures < MaxPowerFailures
    /\ powerFailures' = powerFailures + 1
    /\ \E image \in Images(adir) : adir' = <<image>>
    /\ acall' = NoWrite /\ cleared' = FALSE
    /\ UNCHANGED <<ran, atold, deadCalls>>

AttemptInit ==
    /\ adir = Empty(EntryFiles)
    /\ acall = NoWrite
    /\ cleared = FALSE /\ ran = FALSE /\ atold = {}
    /\ deadCalls = 0 /\ powerFailures = 0

\* The entries a caller can hold the digest of.
Held == {Seen(adir)[i] : i \in EntryFiles} \ {Absent}

AttemptNext ==
    \/ \E b \in Attempts :
           \/ PrepareAttempt(b)
           \/ \E e \in Evidences \cup {NoEvidence} : RecoverAttempt(b, e)
    \/ \E held \in Held :
           \/ MarkDispatchCrossed(held) \/ AbortAttempt(held)
           \/ \E e \in Evidences : MarkTerminal(held, "Succeeded", e)
           \/ \E e \in Evidences : MarkTerminal(held, "Failed", e)
           \/ MarkTerminal(held, "Indeterminate", NoEvidence)
    \/ WriteOnceEntry \/ SyncEntry \/ Dispatch \/ CallerDies \/ PowerFails

AttemptSpec == AttemptInit /\ [][AttemptNext]_attemptVars

-----------------------------------------------------------------------------
\* recover_attempt's promise for a prepared journal, "the journal proves the
\* effect never ran": an attempt that ran, or that the caller is cleared to run,
\* has crossed, whatever failed before.
RetryIsSafe ==
    ran \/ cleared =>
        \E i \in EntryFiles :
            Seen(adir)[i] # Absent /\ Seen(adir)[i].state = "DispatchCrossed"

\* A terminal entry the caller was told is never replaced and never lost
\* ("write-once entries; terminal entries never replaced",
\* attempt_journal_contract).
ToldTerminalsStay == \A e \in atold : \E i \in EntryFiles : Seen(adir)[i] = e

\* The journal stays a readable chain whatever fails.  An effect that may have
\* run is never retried, and a terminal that was told is never taken back, as
\* long as calls die or the power fails, but not both: a repeated call answers
\* with an entry that the call that died may have left without its sync.
AttemptsAreAtMostOnce ==
    /\ ChainValid(Seen(adir))
    /\ deadCalls = 0 \/ powerFailures = 0 => RetryIsSafe /\ ToldTerminalsStay
=============================================================================

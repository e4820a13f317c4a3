--------------------------- MODULE JournalProofs ----------------------------
(* The two journals.  Of the transaction journal: the publication law, the way *)
(* out of every failure and the refinement of the abstract decision, for every *)
(* set of transactions and any number of failures.  The attempt journal is a   *)
(* readable chain after any failures, and at most once unless calls die half   *)
(* way and the power fails too.                                                *)
EXTENDS DurableJournal, AttemptJournal, TLAPS

(* A leaf is for Zenon unless it names SMT. *)
USE ZenonT(60)

-----------------------------------------------------------------------------
(* What a rename, a sync and a power failure make of a directory.           *)

\* What is durable and what is seen are both images of the directory.
LEMMA ImagesHold ==
    ASSUME NEW S, NEW d \in Seq(S), d # <<>>
    PROVE  /\ Images(d) \subseteq S
           /\ Durable(d) \in Images(d) /\ Seen(d) \in Images(d)
  BY SMTT(60) DEF Images, Durable, Seen

\* A rename adds one image, the files with the renamed one replaced.
LEMMA ImagesRenamed ==
    ASSUME NEW S, NEW d \in Seq(S), d # <<>>, NEW f, NEW v, NEW new, NEW n \in S,
           new = Renamed(d, f, v), n = Replaced(Seen(d), f, v)
    PROVE  /\ new \in Seq(S) /\ new # <<>>
           /\ Images(new) = Images(d) \cup {n}
           /\ Seen(new) = n /\ Durable(new) = Durable(d)
<1>1. new = Append(d, n)
  BY DEF Renamed
<1>2. /\ new \in Seq(S) /\ new # <<>> /\ Len(new) = Len(d) + 1 /\ new[Len(d) + 1] = n
      /\ \A i \in 1..Len(d) : new[i] = d[i]
      /\ Len(d) \in Nat /\ 1 \in 1..Len(d)
  BY <1>1, SMTT(60)
<1>3. Images(new) = Images(d) \cup {n}
  BY <1>2, SMTT(60) DEF Images
<1>4. Seen(new) = n /\ Durable(new) = Durable(d)
  BY <1>2 DEF Seen, Durable
<1> QED
  BY <1>2, <1>3, <1>4

\* After a sync or a power failure there is one image.
LEMMA ImagesOne ==
    ASSUME NEW S, NEW x \in S
    PROVE  /\ <<x>> \in Seq(S) /\ <<x>> # <<>>
           /\ Images(<<x>>) = {x} /\ Seen(<<x>>) = x /\ Durable(<<x>>) = x
  BY SMTT(60) DEF Images, Durable, Seen

-----------------------------------------------------------------------------

\* What a file may hold.
RootRecord == RootPublicationReceipt \cup {Absent}

JournalRecord == DurableJournalRecord \cup {Absent}

Files ==
    {s \in [JournalPaths -> RootRecord \cup JournalRecord \cup JBindings \cup RecoveryReceipt
                             \cup OwnerDeathReceipt] :
        /\ s["root"] \in RootRecord
        /\ s["journal"] \in JournalRecord
        /\ s["cartridge"] \in JBindings \cup {Absent}
        /\ s["receipt"] \in RecoveryReceipt \cup {Absent}
        /\ s["death"] \in OwnerDeathReceipt \cup {Absent}}

CommitOutcomes == {"NewRootCommitted", "AlreadyCommitted"}

AbortOutcomes == {"OldRootAborted", "AlreadyAborted"}

\* Every image of the directory: the law, and what the calls rely on beyond it.
FilesOK(s) ==
    /\ s \in Files
    /\ Corresponds(s)
    /\ s["journal"] # Absent => s["cartridge"] = s["journal"].binding
    /\ s["cartridge"] # Absent => s["root"] # Absent /\ s["cartridge"].old = FirstRoot
    /\ s["death"] # Absent => s["journal"] # Absent /\ s["death"].binding = s["journal"].binding
    /\ s["receipt"] # Absent /\ s["receipt"].outcome = "NotStartedOldRoot" => s["journal"] = Absent

\* The calls in progress: what is left of each, and when.
Initializes(t, told, s) ==
    t = <<Write("root", Initial(FirstRoot))>> /\ told = {} /\ s["root"] = Absent

Fresh(s, b) ==
    /\ s["root"] # Absent /\ s["root"].root = b.old
    /\ s["receipt"] = Absent /\ s["journal"] = Absent

Prepares(t, told, s, b) ==
    /\ told = {} /\ Fresh(s, b)
    /\ \/ t = <<WriteOnce("cartridge", b), Write("journal", Prepared(b))>>
       \/ t = <<Write("journal", Prepared(b))>> /\ s["cartridge"] = b

Receipt(b, o) == [binding |-> b, outcome |-> o]

LastWrite(b, o) == WriteOnce("receipt", Receipt(b, o))

Publishes(t, s, b, o) ==
    /\ t = <<Write("root", Published(b)), Write("journal", Committed(b)), LastWrite(b, o)>>
    /\ o = "NewRootCommitted" /\ s["journal"] = Prepared(b) /\ s["root"].root = b.old

Commits(t, s, b, o) ==
    /\ t = <<Write("journal", Committed(b)), LastWrite(b, o)>>
    /\ o = "NewRootCommitted" /\ s["journal"] = Prepared(b) /\ s["root"] = Published(b)

Aborts(t, s, b, o) ==
    /\ \E why \in AbortReason : t = <<Write("journal", Aborted(b, why)), LastWrite(b, o)>>
    /\ o = "OldRootAborted" /\ s["root"] # Absent /\ s["root"].root = b.old
    /\ \/ s["journal"] = Prepared(b)
       \/ s["journal"] = Absent /\ s["cartridge"] = b

Answers(t, s, b, o) ==
    /\ t = <<LastWrite(b, o)>>
    /\ \/ o \in CommitOutcomes /\ s["journal"] = Committed(b)
       \/ /\ o \in AbortOutcomes /\ s["journal"] # Absent
          /\ s["journal"].state = "Aborted" /\ s["journal"].binding = b
       \/ o = "NotStartedOldRoot" /\ s["journal"] = Absent

Settles(t, told, s, b, o) ==
    /\ told = Announced(Receipt(b, o)) /\ s["receipt"] = Absent
    /\ Publishes(t, s, b, o) \/ Commits(t, s, b, o) \/ Aborts(t, s, b, o) \/ Answers(t, s, b, o)

Mourns(t, told, s, b) ==
    /\ told = {} /\ s["journal"] = Prepared(b)
    /\ \E at \in DeathTimes :
           t = <<WriteOnce("death", [binding |-> b, root |-> s["root"].root, at |-> at])>>

Ends(t, told, s) == t = <<>> /\ \A d \in told : d = DurableDecision(s) /\ d # NoTransaction

Plan(t, told, s) ==
    \/ Initializes(t, told, s)
    \/ \E b \in JBindings :
           \/ Prepares(t, told, s, b) \/ Mourns(t, told, s, b)
           \/ \E o \in RecoveryOutcome : Settles(t, told, s, b, o)
    \/ Ends(t, told, s)

DirOK ==
    /\ jdir \in Seq(Files) /\ jdir # <<>>
    /\ \A image \in Images(jdir) : FilesOK(image)

CallOK ==
    \/ jcall = NoCall
    \/ /\ jcall = [todo |-> jcall.todo, phase |-> "write", told |-> jcall.told]
       /\ Plan(jcall.todo, jcall.told, Seen(jdir))
       /\ jcall.todo = <<>> /\ jcall.told # {} => Seen(jdir) = Durable(jdir)
    \/ /\ jcall = [todo |-> jcall.todo, phase |-> "sync", told |-> jcall.told]
       /\ jcall.todo # <<>>
       /\ Plan(Tail(jcall.todo), jcall.told, Seen(jdir))

\* One decision in all images, once it is durable; told only then.
DecisionOK ==
    /\ DurableDecision(Durable(jdir)) # NoTransaction =>
           \A image \in Images(jdir) : DurableDecision(image) = DurableDecision(Durable(jdir))
    /\ \A d \in jtold : d = DurableDecision(Durable(jdir)) /\ d # NoTransaction

JournalInv == DirOK /\ CallOK /\ DecisionOK

\* What a caller that finds the receipt of these files is told.
Found(s) == IF s["receipt"] = Absent THEN {} ELSE Announced(s["receipt"])

\* The first call that ends half way may leave one rename that is not durable;
\* it takes a second one to leave a receipt on a record that is not.
RepeatedOK ==
    /\ kills \in Nat /\ powerLosses \in Nat
    /\ kills = 0 /\ jcall.phase # "sync" => Seen(jdir) = Durable(jdir)
    /\ kills = 0 \/ (kills = 1 /\ jcall.phase # "sync") =>
           \A d \in Found(Seen(jdir)) : d = DurableDecision(Durable(jdir))
    /\ kills <= 1 =>
           \A d \in jrepeated : d = DurableDecision(Durable(jdir)) /\ d # NoTransaction
    /\ powerLosses = 0 =>
           \A d \in jrepeated : d = DurableDecision(Seen(jdir)) /\ d # NoTransaction

-----------------------------------------------------------------------------
(* Records.                                                                    *)

\* The records of the five files are not the absent file.
LEMMA RecordsExist ==
    /\ \A b \in JBindings :
           /\ Published(b) \in RootPublicationReceipt /\ Published(b).tx = b
           /\ Published(b).root = b.new
           /\ Prepared(b) \in DurableJournalRecord /\ Committed(b) \in DurableJournalRecord
           /\ \A why \in AbortReason : Aborted(b, why) \in DurableJournalRecord
           /\ \A o \in RecoveryOutcome : Receipt(b, o) \in RecoveryReceipt
    /\ Initial(FirstRoot) \in RootPublicationReceipt
    /\ Absent \notin RootPublicationReceipt /\ Absent \notin DurableJournalRecord
    /\ Absent \notin RecoveryReceipt /\ Absent \notin OwnerDeathReceipt
    /\ Absent \notin JBindings
<1>1. ASSUME NEW b \in JBindings
      PROVE  /\ Published(b) \in RootPublicationReceipt /\ Published(b).tx = b
             /\ Published(b).root = b.new
             /\ Prepared(b) \in DurableJournalRecord /\ Committed(b) \in DurableJournalRecord
  BY DEF Published, RootPublicationReceipt, Prepared, Committed, DurableJournalRecord
<1>2. ASSUME NEW b \in JBindings, NEW why \in AbortReason
      PROVE  Aborted(b, why) \in DurableJournalRecord
  BY DEF Aborted, DurableJournalRecord
<1>3. ASSUME NEW b \in JBindings, NEW o \in RecoveryOutcome
      PROVE  Receipt(b, o) \in RecoveryReceipt
  BY DEF Receipt, RecoveryReceipt
<1>4. Initial(FirstRoot) \in RootPublicationReceipt
  BY DEF Initial, RootPublicationReceipt
<1>5. /\ Absent \notin RootPublicationReceipt /\ Absent \notin DurableJournalRecord
      /\ Absent \notin RecoveryReceipt /\ Absent \notin OwnerDeathReceipt
      /\ Absent \notin JBindings
  BY AbsentAssumption
<1> QED
  BY <1>1, <1>2, <1>3, <1>4, <1>5

\* The journal record in each state.
LEMMA JournalRecords ==
    /\ \A j \in DurableJournalRecord :
           /\ j.binding \in JBindings /\ j.state \in {"Prepared", "Committed", "Aborted"}
           /\ j.state = "Prepared" => j = Prepared(j.binding)
           /\ j.state = "Committed" => j = Committed(j.binding)
    /\ \A b : /\ Prepared(b).state = "Prepared" /\ Prepared(b).binding = b
              /\ Committed(b).state = "Committed" /\ Committed(b).binding = b
    /\ \A b, why : Aborted(b, why).state = "Aborted" /\ Aborted(b, why).binding = b
  BY SMTT(60) DEF DurableJournalRecord, Prepared, Committed, Aborted

\* A root record is the initial one or that of a transaction.
LEMMA RootRecords ==
    /\ \A r \in RootPublicationReceipt :
           \/ r = Initial(FirstRoot) /\ r.root = FirstRoot /\ r.tx = NoTransaction
           \/ r.tx \in JBindings /\ r = Published(r.tx) /\ r.root = r.tx.new /\ r.tx # NoTransaction
    /\ Initial(FirstRoot).tx = NoTransaction /\ Initial(FirstRoot).root = FirstRoot
<1>1. \A b \in JBindings : b # NoTransaction
  BY NoTransactionAssumption
<1> QED
  BY <1>1, SMTT(60) DEF RootPublicationReceipt, Initial, Published

-----------------------------------------------------------------------------
(* One write of a call keeps the files in order, leaves the rest of the call   *)
(* valid and takes no decision back.                                           *)

After(s, w) == Replaced(s, w.file, w.value)

Keeps(s, t, told, n) ==
    /\ FilesOK(n)
    /\ Plan(t, told, n)
    /\ DurableDecision(s) # NoTransaction => DurableDecision(n) = DurableDecision(s)

\* What is known of the files, field by field.
LEMMA FilesFacts ==
    ASSUME NEW s, FilesOK(s)
    PROVE  /\ DOMAIN s = JournalPaths
           /\ s["root"] \in RootPublicationReceipt \/ s["root"] = Absent
           /\ s["journal"] \in DurableJournalRecord \/ s["journal"] = Absent
           /\ s["cartridge"] \in JBindings \/ s["cartridge"] = Absent
           /\ s["receipt"] \in RecoveryReceipt \/ s["receipt"] = Absent
           /\ s["death"] \in OwnerDeathReceipt \/ s["death"] = Absent
           /\ s["cartridge"] # Absent /\ s["journal"] = Absent => s["root"] = Initial(FirstRoot)
           /\ s["journal"] # Absent => s["root"] \in RootPublicationReceipt
           /\ s["receipt"] # Absent /\ s["journal"] # Absent => s["journal"].state # "Prepared"
<1>1. /\ DOMAIN s = JournalPaths
      /\ s["root"] \in RootPublicationReceipt \/ s["root"] = Absent
      /\ s["journal"] \in DurableJournalRecord \/ s["journal"] = Absent
      /\ s["cartridge"] \in JBindings \/ s["cartridge"] = Absent
      /\ s["receipt"] \in RecoveryReceipt \/ s["receipt"] = Absent
      /\ s["death"] \in OwnerDeathReceipt \/ s["death"] = Absent
  BY DEF FilesOK, Files, RootRecord, JournalRecord
<1>2. s["cartridge"] # Absent /\ s["journal"] = Absent => s["root"] = Initial(FirstRoot)
  BY <1>1, RootRecords DEF FilesOK, Corresponds
<1>3. s["journal"] # Absent => s["root"] \in RootPublicationReceipt
  BY <1>1 DEF FilesOK, Corresponds
<1>4. s["receipt"] # Absent /\ s["journal"] # Absent => s["journal"].state # "Prepared"
  BY <1>1, JournalRecords DEF FilesOK, Corresponds, RecoveryReceipt, RecoveryOutcome
<1> QED
  BY <1>1, <1>2, <1>3, <1>4

\* The files after a write: one of them is the record written.
LEMMA AfterWrite ==
    ASSUME NEW s, FilesOK(s), NEW f \in JournalPaths, NEW v, NEW w,
           w = Write(f, v) \/ w = WriteOnce(f, v),
           f = "root" => v \in RootPublicationReceipt,
           f = "journal" => v \in DurableJournalRecord,
           f = "cartridge" => v \in JBindings,
           f = "receipt" => v \in RecoveryReceipt,
           f = "death" => v \in OwnerDeathReceipt
    PROVE  /\ After(s, w) \in Files
           /\ After(s, w)["root"] = IF f = "root" THEN v ELSE s["root"]
           /\ After(s, w)["journal"] = IF f = "journal" THEN v ELSE s["journal"]
           /\ After(s, w)["cartridge"] = IF f = "cartridge" THEN v ELSE s["cartridge"]
           /\ After(s, w)["receipt"] = IF f = "receipt" THEN v ELSE s["receipt"]
           /\ After(s, w)["death"] = IF f = "death" THEN v ELSE s["death"]
<1>1. w.file = f /\ w.value = v
  BY SMTT(60) DEF Write, WriteOnce
<1>2. After(s, w) = [s EXCEPT ![f] = v]
  BY <1>1 DEF After, Replaced
<1>3. /\ [s EXCEPT ![f] = v] \in Files
      /\ \A g \in JournalPaths : [s EXCEPT ![f] = v][g] = IF g = f THEN v ELSE s[g]
  BY SMTT(60) DEF FilesOK, Files, JournalPaths, RootRecord, JournalRecord
<1> QED
  BY <1>2, <1>3 DEF JournalPaths

\* initialize_published_root writes the first root into an empty directory.
LEMMA InitializesKeeps ==
    ASSUME NEW s, FilesOK(s), NEW t, NEW told, Initializes(t, told, s)
    PROVE  Keeps(s, Tail(t), told, After(s, Head(t)))
<1> DEFINE n == After(s, Head(t))
<1>1. Head(t) = Write("root", Initial(FirstRoot)) /\ Tail(t) = <<>>
  BY SMTT(60) DEF Initializes
<1>2. /\ n \in Files /\ n["root"] = Initial(FirstRoot) /\ n["journal"] = s["journal"]
      /\ n["cartridge"] = s["cartridge"] /\ n["receipt"] = s["receipt"] /\ n["death"] = s["death"]
  BY SMTT(60), <1>1, AfterWrite, RecordsExist DEF JournalPaths
<1> HIDE DEF n
<1>3. s["root"] = Absent /\ told = {} /\ s["journal"] = Absent /\ s["cartridge"] = Absent
  BY DEF Initializes, FilesOK, Corresponds
<1>4. FilesOK(n)
  BY <1>2, <1>3, RootRecords DEF FilesOK, Corresponds
<1>5. DurableDecision(s) = NoTransaction
  BY <1>3 DEF DurableDecision
<1>6. Plan(<<>>, told, n)
  BY <1>3 DEF Plan, Ends
<1> QED
  BY <1>1, <1>4, <1>5, <1>6 DEF Keeps, n

\* prepare_bound_journal writes the cartridge, then the prepared record.
LEMMA PreparesKeeps ==
    ASSUME NEW s, FilesOK(s), NEW t, NEW told, NEW b \in JBindings, Prepares(t, told, s, b),
           Head(t).once => s[Head(t).file] = Absent
    PROVE  Keeps(s, Tail(t), told, After(s, Head(t)))
<1> DEFINE n == After(s, Head(t))
<1>1. /\ told = {} /\ s["root"] \in RootPublicationReceipt /\ s["root"].root = b.old
      /\ s["receipt"] = Absent /\ s["journal"] = Absent /\ s["death"] = Absent
      /\ s["root"] = Initial(FirstRoot) /\ b.old = FirstRoot
  BY FilesFacts, RootRecords DEF Prepares, Fresh, FilesOK, Corresponds
<1>2. DurableDecision(s) = NoTransaction
  BY <1>1, RootRecords, RecordsExist DEF DurableDecision
<1>3. CASE t = <<WriteOnce("cartridge", b), Write("journal", Prepared(b))>>
  <2>1. /\ Head(t) = WriteOnce("cartridge", b)
        /\ Tail(t) = <<Write("journal", Prepared(b))>>
    BY SMTT(60), <1>3
  <2>2. /\ n \in Files /\ n["root"] = s["root"] /\ n["journal"] = s["journal"]
        /\ n["cartridge"] = b /\ n["receipt"] = s["receipt"] /\ n["death"] = s["death"]
    BY SMTT(60), <2>1, AfterWrite DEF JournalPaths
  <2> HIDE DEF n
  <2>3. FilesOK(n)
    BY <1>1, <2>2, RecordsExist DEF FilesOK, Corresponds
  <2>4. Prepares(Tail(t), told, n, b)
    BY <1>1, <2>1, <2>2, RecordsExist DEF Prepares, Fresh
  <2> QED
    BY <1>2, <2>3, <2>4 DEF Keeps, Plan, n
<1>4. CASE t = <<Write("journal", Prepared(b))>> /\ s["cartridge"] = b
  <2>1. Head(t) = Write("journal", Prepared(b)) /\ Tail(t) = <<>>
    BY SMTT(60), <1>4
  <2>2. /\ n \in Files /\ n["root"] = s["root"] /\ n["journal"] = Prepared(b)
        /\ n["cartridge"] = b /\ n["receipt"] = s["receipt"] /\ n["death"] = s["death"]
    BY SMTT(60), <1>4, <2>1, AfterWrite, RecordsExist DEF JournalPaths
  <2> HIDE DEF n
  <2>3. FilesOK(n)
    BY SMTT(60), <1>1, <2>2, RecordsExist, JournalRecords, RootRecords
      DEF FilesOK, Corresponds
  <2>4. Plan(<<>>, told, n)
    BY <1>1 DEF Plan, Ends
  <2> QED
    BY <1>2, <2>1, <2>3, <2>4 DEF Keeps, n
<1> QED
  BY <1>3, <1>4 DEF Prepares

\* record_bound_owner_death writes a receipt of the prepared transaction.
LEMMA MournsKeeps ==
    ASSUME NEW s, FilesOK(s), NEW t, NEW told, NEW b \in JBindings, Mourns(t, told, s, b)
    PROVE  Keeps(s, Tail(t), told, After(s, Head(t)))
<1> DEFINE n == After(s, Head(t))
<1>1. PICK at \in DeathTimes :
          t = <<WriteOnce("death", [binding |-> b, root |-> s["root"].root, at |-> at])>>
  BY DEF Mourns
<1> DEFINE d == [binding |-> b, root |-> s["root"].root, at |-> at]
<1>2. told = {} /\ s["journal"] = Prepared(b) /\ s["journal"] # Absent
  BY RecordsExist DEF Mourns
<1>3. d \in OwnerDeathReceipt /\ d.binding = b
  BY <1>2, FilesFacts DEF OwnerDeathReceipt
<1>4. Head(t) = WriteOnce("death", d) /\ Tail(t) = <<>>
  BY SMTT(60), <1>1
<1> HIDE DEF d
<1>5. /\ n \in Files /\ n["root"] = s["root"] /\ n["journal"] = s["journal"]
      /\ n["cartridge"] = s["cartridge"] /\ n["receipt"] = s["receipt"] /\ n["death"] = d
  BY SMTT(60), <1>3, <1>4, AfterWrite DEF JournalPaths
<1> HIDE DEF n
<1>6. FilesOK(n)
  BY SMTT(60), <1>2, <1>3, <1>5, JournalRecords DEF FilesOK, Corresponds
<1>7. DurableDecision(n) = DurableDecision(s)
  BY <1>5 DEF DurableDecision
<1>8. Plan(<<>>, told, n)
  BY <1>2 DEF Plan, Ends
<1> QED
  BY <1>4, <1>6, <1>7, <1>8 DEF Keeps, n

\* commit_bound_journal publishes the root, then marks the journal committed.
LEMMA PublishesKeeps ==
    ASSUME NEW s, FilesOK(s), NEW t, NEW told, NEW b \in JBindings, NEW o \in RecoveryOutcome,
           Settles(t, told, s, b, o), Publishes(t, s, b, o)
    PROVE  Keeps(s, Tail(t), told, After(s, Head(t)))
<1> DEFINE n == After(s, Head(t))
<1>1. /\ Head(t) = Write("root", Published(b))
      /\ Tail(t) = <<Write("journal", Committed(b)), LastWrite(b, o)>>
  BY SMTT(60) DEF Publishes
<1>2. /\ s["receipt"] = Absent /\ s["journal"] = Prepared(b) /\ s["root"].root = b.old
      /\ s["journal"] # Absent /\ s["root"] \in RootPublicationReceipt
      /\ told = Announced(Receipt(b, o)) /\ o = "NewRootCommitted"
  BY SMTT(60), RecordsExist, FilesFacts DEF Settles, Publishes
<1>3. /\ n \in Files /\ n["root"] = Published(b) /\ n["journal"] = s["journal"]
      /\ n["cartridge"] = s["cartridge"] /\ n["receipt"] = s["receipt"] /\ n["death"] = s["death"]
  BY SMTT(60), <1>1, AfterWrite, RecordsExist DEF JournalPaths
<1> HIDE DEF n
<1>4. FilesOK(n)
  BY SMTT(60), <1>2, <1>3, RecordsExist, JournalRecords DEF FilesOK, Corresponds
<1>5. s["root"].tx = NoTransaction
  BY SMTT(60), <1>2, RootRecords, RecordsExist, JournalRecords, JournalAssumption
  DEF FilesOK, Corresponds, ValidBinding
<1>6. DurableDecision(s) = NoTransaction
  BY <1>2, <1>5, JournalRecords DEF DurableDecision
<1>7. Settles(Tail(t), told, n, b, o)
  BY <1>1, <1>2, <1>3 DEF Settles, Commits
<1> QED
  BY <1>4, <1>6, <1>7 DEF Keeps, Plan, n

\* The journal follows the published root.
LEMMA CommitsKeeps ==
    ASSUME NEW s, FilesOK(s), NEW t, NEW told, NEW b \in JBindings, NEW o \in RecoveryOutcome,
           Settles(t, told, s, b, o), Commits(t, s, b, o)
    PROVE  Keeps(s, Tail(t), told, After(s, Head(t)))
<1> DEFINE n == After(s, Head(t))
<1>1. Head(t) = Write("journal", Committed(b)) /\ Tail(t) = <<LastWrite(b, o)>>
  BY SMTT(60) DEF Commits
<1>2. /\ s["receipt"] = Absent /\ s["journal"] = Prepared(b) /\ s["root"] = Published(b)
      /\ s["journal"] # Absent /\ s["root"] # Absent
      /\ told = Announced(Receipt(b, o)) /\ o = "NewRootCommitted"
  BY RecordsExist DEF Settles, Commits
<1>3. /\ n \in Files /\ n["root"] = s["root"] /\ n["journal"] = Committed(b)
      /\ n["cartridge"] = s["cartridge"] /\ n["receipt"] = s["receipt"] /\ n["death"] = s["death"]
  BY SMTT(60), <1>1, AfterWrite, RecordsExist DEF JournalPaths
<1> HIDE DEF n
<1>4. FilesOK(n)
  BY SMTT(60), <1>2, <1>3, RecordsExist, JournalRecords DEF FilesOK, Corresponds
<1>5. s["root"].tx # NoTransaction
  BY <1>2, RecordsExist, NoTransactionAssumption
<1>6. DurableDecision(n) = DurableDecision(s)
  BY SMTT(60), <1>2, <1>3, <1>5 DEF DurableDecision
<1>7. Settles(Tail(t), told, n, b, o)
  BY <1>1, <1>2, <1>3 DEF Settles, Answers, CommitOutcomes
<1> QED
  BY <1>4, <1>6, <1>7 DEF Keeps, Plan, n

\* An abort, explicit or by recovery, replaces the prepared record, or the
\* one a prepare did not come to write.
LEMMA AbortsKeeps ==
    ASSUME NEW s, FilesOK(s), NEW t, NEW told, NEW b \in JBindings, NEW o \in RecoveryOutcome,
           Settles(t, told, s, b, o), Aborts(t, s, b, o)
    PROVE  Keeps(s, Tail(t), told, After(s, Head(t)))
<1> DEFINE n == After(s, Head(t))
<1>1. PICK why \in AbortReason : t = <<Write("journal", Aborted(b, why)), LastWrite(b, o)>>
  BY DEF Aborts
<1>2. Head(t) = Write("journal", Aborted(b, why)) /\ Tail(t) = <<LastWrite(b, o)>>
  BY SMTT(60), <1>1
<1>3. /\ s["receipt"] = Absent /\ s["root"] \in RootPublicationReceipt /\ s["root"].root = b.old
      /\ s["journal"] = Absent \/ s["journal"] = Prepared(b)
      /\ told = Announced(Receipt(b, o)) /\ o = "OldRootAborted" /\ s["cartridge"] = b
  BY SMTT(60), RecordsExist, FilesFacts, JournalRecords DEF Settles, Aborts, FilesOK
<1>4. /\ n \in Files /\ n["root"] = s["root"] /\ n["journal"] = Aborted(b, why)
      /\ n["cartridge"] = s["cartridge"] /\ n["receipt"] = s["receipt"] /\ n["death"] = s["death"]
  BY SMTT(60), <1>2, AfterWrite, RecordsExist DEF JournalPaths
<1> HIDE DEF n
<1>5. s["root"].tx = NoTransaction
  BY SMTT(60), <1>3, RootRecords, RecordsExist, JournalRecords, JournalAssumption
  DEF FilesOK, Corresponds, ValidBinding
<1>6. FilesOK(n)
  BY SMTT(60), <1>3, <1>4, <1>5, RecordsExist, JournalRecords DEF FilesOK, Corresponds
<1>7. DurableDecision(s) = NoTransaction
  BY <1>3, <1>5, JournalRecords DEF DurableDecision
<1>8. Settles(Tail(t), told, n, b, o)
  BY SMTT(60), <1>2, <1>3, <1>4, RecordsExist, JournalRecords
    DEF Settles, Answers, AbortOutcomes
<1> QED
  BY <1>6, <1>7, <1>8 DEF Keeps, Plan, n

\* Decisions are told apart from none, and by the root they leave.
LEMMA Decisions ==
    /\ \A b, o : Decided(b, o) # NoTransaction
    /\ \A b : \A o \in CommitOutcomes : Decided(b, o) = Decided(b, "NewRootCommitted")
    /\ \A b : \A o \in AbortOutcomes : Decided(b, o) = Decided(b, "OldRootAborted")
<1>1. ASSUME NEW b, NEW o
      PROVE  Decided(b, o) # NoTransaction
  <2>1. DOMAIN Decided(b, o) = {"binding", "root"}
    BY DEF Decided
  <2>2. DOMAIN NoTransaction = {"id"}
    BY DEF NoTransaction
  <2> QED
    BY <2>1, <2>2
<1> QED
  BY <1>1 DEF Decided, CommitOutcomes, AbortOutcomes

\* A terminal journal fixes the decision.
LEMMA TerminalDecision ==
    ASSUME NEW s, FilesOK(s), s["journal"] # Absent
    PROVE  /\ s["journal"].state = "Committed" =>
                  DurableDecision(s) = Decided(s["journal"].binding, "NewRootCommitted")
           /\ s["journal"].state = "Aborted" =>
                  DurableDecision(s) = Decided(s["journal"].binding, "OldRootAborted")
<1>1. s["journal"] \in DurableJournalRecord /\ s["root"] \in RootPublicationReceipt
  BY FilesFacts
<1>2. s["journal"].binding \in JBindings
  BY <1>1, JournalRecords
<1>3. ASSUME s["journal"].state = "Committed"
      PROVE  DurableDecision(s) = Decided(s["journal"].binding, "NewRootCommitted")
  <2>1. s["root"] = Published(s["journal"].binding)
    BY <1>3 DEF FilesOK, Corresponds
  <2>2. s["root"].tx = s["journal"].binding /\ s["root"] # Absent /\ s["root"].tx # NoTransaction
    BY <1>2, <2>1, RecordsExist, NoTransactionAssumption
  <2> QED
    BY <1>3, <2>2 DEF DurableDecision
<1>4. ASSUME s["journal"].state = "Aborted"
      PROVE  DurableDecision(s) = Decided(s["journal"].binding, "OldRootAborted")
  <2>1. s["root"].root = s["journal"].binding.old
    BY <1>4 DEF FilesOK, Corresponds
  <2>2. s["root"].tx = NoTransaction
    BY <1>1, <1>2, <2>1, RootRecords, RecordsExist, JournalAssumption
    DEF FilesOK, Corresponds, ValidBinding
  <2> QED
    BY <1>4, <2>2 DEF DurableDecision
<1> QED
  BY <1>3, <1>4

\* persist_recovery ends the call: the receipt agrees with the journal.
LEMMA AnswersKeeps ==
    ASSUME NEW s, FilesOK(s), NEW t, NEW told, NEW b \in JBindings, NEW o \in RecoveryOutcome,
           Settles(t, told, s, b, o), Answers(t, s, b, o)
    PROVE  Keeps(s, Tail(t), told, After(s, Head(t)))
<1> DEFINE n == After(s, Head(t))
<1>1. Head(t) = LastWrite(b, o) /\ Tail(t) = <<>>
  BY SMTT(60) DEF Answers
<1>2. s["receipt"] = Absent /\ told = Announced(Receipt(b, o))
  BY DEF Settles
<1>3. /\ n \in Files /\ n["root"] = s["root"] /\ n["journal"] = s["journal"]
      /\ n["cartridge"] = s["cartridge"] /\ n["receipt"] = Receipt(b, o) /\ n["death"] = s["death"]
  BY SMTT(60), <1>1, AfterWrite, RecordsExist DEF JournalPaths, LastWrite
<1> HIDE DEF n
<1>4. Receipt(b, o).binding = b /\ Receipt(b, o).outcome = o
  BY DEF Receipt
<1>5. FilesOK(n)
  BY SMTT(60), <1>2, <1>3, <1>4, RecordsExist, JournalRecords
  DEF FilesOK, Corresponds, Answers, CommitOutcomes, AbortOutcomes
<1>6. DurableDecision(n) = DurableDecision(s)
  BY <1>3 DEF DurableDecision
<1>7. ASSUME NEW d \in told
      PROVE  d = DurableDecision(n) /\ d # NoTransaction
  <2>1. d = Decided(b, o) /\ o # "NotStartedOldRoot"
    BY <1>2, <1>4, <1>7 DEF Announced
  <2>2. CASE o \in CommitOutcomes /\ s["journal"] = Committed(b)
    <3>1. n["journal"].state = "Committed" /\ n["journal"].binding = b /\ n["journal"] # Absent
      BY SMTT(60), <1>3, <2>2, JournalRecords, RecordsExist
    <3> QED
      BY <1>5, <2>1, <2>2, <3>1, TerminalDecision, Decisions
  <2>3. CASE /\ o \in AbortOutcomes /\ s["journal"] # Absent
             /\ s["journal"].state = "Aborted" /\ s["journal"].binding = b
    BY SMTT(60), <1>3, <1>5, <2>1, <2>3, TerminalDecision, Decisions
  <2> QED
    BY <2>1, <2>2, <2>3 DEF Answers
<1>8. Plan(<<>>, told, n)
  BY <1>7 DEF Plan, Ends
<1> QED
  BY <1>1, <1>5, <1>6, <1>8 DEF Keeps, n

\* Every write of every call.
LEMMA WriteKeeps ==
    ASSUME NEW s, FilesOK(s), NEW t, NEW told, Plan(t, told, s), t # <<>>,
           Head(t).once => s[Head(t).file] = Absent
    PROVE  Keeps(s, Tail(t), told, After(s, Head(t)))
<1>1. CASE Initializes(t, told, s)
  BY <1>1, InitializesKeeps
<1>2. ASSUME NEW b \in JBindings, Prepares(t, told, s, b)
      PROVE  Keeps(s, Tail(t), told, After(s, Head(t)))
  BY <1>2, PreparesKeeps
<1>3. ASSUME NEW b \in JBindings, Mourns(t, told, s, b)
      PROVE  Keeps(s, Tail(t), told, After(s, Head(t)))
  BY <1>3, MournsKeeps
<1>4. ASSUME NEW b \in JBindings, NEW o \in RecoveryOutcome, Settles(t, told, s, b, o)
      PROVE  Keeps(s, Tail(t), told, After(s, Head(t)))
  <2>1. Publishes(t, s, b, o) \/ Commits(t, s, b, o) \/ Aborts(t, s, b, o) \/ Answers(t, s, b, o)
    BY <1>4 DEF Settles
  <2> QED
    BY <1>4, <2>1, PublishesKeeps, CommitsKeeps, AbortsKeeps, AnswersKeeps
<1> QED
  BY <1>1, <1>2, <1>3, <1>4 DEF Plan, Ends

\* write_once with the same bytes does nothing: the rest of the call stands.
LEMMA SkipKeeps ==
    ASSUME NEW s, FilesOK(s), NEW t, NEW told, Plan(t, told, s), t # <<>>,
           Head(t).once, s[Head(t).file] = Head(t).value, s[Head(t).file] # Absent
    PROVE  Plan(Tail(t), told, s) /\ told = {}
<1>1. ~Initializes(t, told, s)
  BY SMTT(60) DEF Initializes, Write
<1>2. ASSUME NEW b \in JBindings, Prepares(t, told, s, b)
      PROVE  Plan(Tail(t), told, s) /\ told = {}
  <2>1. t = <<WriteOnce("cartridge", b), Write("journal", Prepared(b))>>
    BY SMTT(60), <1>2 DEF Prepares, Write
  <2>2. /\ Head(t).file = "cartridge" /\ Head(t).value = b
        /\ Tail(t) = <<Write("journal", Prepared(b))>>
    BY SMTT(60), <2>1 DEF WriteOnce
  <2>3. Prepares(Tail(t), told, s, b)
    BY <1>2, <2>2 DEF Prepares
  <2> QED
    BY <1>2, <2>3 DEF Plan, Prepares
<1>3. ASSUME NEW b \in JBindings, Mourns(t, told, s, b)
      PROVE  Plan(Tail(t), told, s) /\ told = {}
  <2>1. Tail(t) = <<>> /\ told = {}
    BY SMTT(60), <1>3 DEF Mourns
  <2> QED
    BY <2>1 DEF Plan, Ends
<1>4. ASSUME NEW b \in JBindings, NEW o \in RecoveryOutcome, Settles(t, told, s, b, o)
      PROVE  FALSE
  <2>1. ~Publishes(t, s, b, o) /\ ~Commits(t, s, b, o) /\ ~Aborts(t, s, b, o)
    BY SMTT(60) DEF Publishes, Commits, Aborts, Write
  <2>2. t = <<LastWrite(b, o)>>
    BY <1>4, <2>1 DEF Settles, Answers
  <2>3. Head(t).file = "receipt"
    BY SMTT(60), <2>2 DEF LastWrite, WriteOnce
  <2> QED
    BY <1>4, <2>3 DEF Settles
<1> QED
  BY <1>1, <1>2, <1>3, <1>4 DEF Plan, Ends

-----------------------------------------------------------------------------
(* Calls begin with a valid plan.                                              *)

\* A settling call writes its receipt last.
LEMMA SettleOf ==
    \A b, o, x, y :
        /\ Settle(<<>>, b, o) = Call(<<LastWrite(b, o)>>, Announced(Receipt(b, o)))
        /\ Settle(<<x>>, b, o) = Call(<<x, LastWrite(b, o)>>, Announced(Receipt(b, o)))
        /\ Settle(<<x, y>>, b, o) = Call(<<x, y, LastWrite(b, o)>>, Announced(Receipt(b, o)))
<1>1. ASSUME NEW z
      PROVE  Append(<<>>, z) = <<z>>
  BY SMTT(60)
<1>2. ASSUME NEW x, NEW z
      PROVE  Append(<<x>>, z) = <<x, z>>
  <2> DEFINE a == Append(<<x>>, z)
  <2>1. a \in Seq({x, z}) /\ Len(a) = 2 /\ a[1] = x /\ a[2] = z
    BY SMTT(60)
  <2>2. <<x, z>> \in Seq({x, z}) /\ Len(<<x, z>>) = 2
    BY SMTT(60)
  <2> HIDE DEF a
  <2>3. a = <<x, z>>
    BY <2>1, <2>2, SMTT(60)
  <2> QED
    BY <2>3 DEF a
<1>3. ASSUME NEW x, NEW y, NEW z
      PROVE  Append(<<x, y>>, z) = <<x, y, z>>
  <2> DEFINE a == Append(<<x, y>>, z)
  <2>1. a \in Seq({x, y, z}) /\ Len(a) = 3 /\ a[1] = x /\ a[2] = y /\ a[3] = z
    BY SMTT(60)
  <2>2. <<x, y, z>> \in Seq({x, y, z}) /\ Len(<<x, y, z>>) = 3
    BY SMTT(60)
  <2> HIDE DEF a
  <2>3. a = <<x, y, z>>
    BY <2>1, <2>2, SMTT(60)
  <2> QED
    BY <2>3 DEF a
<1> QED
  BY <1>1, <1>2, <1>3 DEF Settle, LastWrite, Receipt

\* A call that settles, and the plan it has.
Planned(call, s) ==
    \E t, told : /\ call = Call(t, told) /\ t # <<>> /\ Plan(t, told, s)

\* What commit, abort and recovery set out to do is a plan of theirs.
LEMMA SettlePlanned ==
    ASSUME NEW s, NEW t, NEW b \in JBindings, NEW o \in RecoveryOutcome, s["receipt"] = Absent,
           t # <<>>,
           Publishes(t, s, b, o) \/ Commits(t, s, b, o) \/ Aborts(t, s, b, o) \/ Answers(t, s, b, o)
    PROVE  Planned(Call(t, Announced(Receipt(b, o))), s)
<1>1. Settles(t, Announced(Receipt(b, o)), s, b, o)
  BY DEF Settles
<1>2. Plan(t, Announced(Receipt(b, o)), s)
  BY <1>1 DEF Plan
<1> QED
  BY <1>2 DEF Planned

\* commit publishes the root, marks the journal and writes the receipt.
LEMMA PublishesPlanned ==
    ASSUME NEW s, NEW b \in JBindings, s["receipt"] = Absent, s["journal"] = Prepared(b),
           s["root"].root = b.old
    PROVE  Planned(Settle(<<Write("root", Published(b)), Write("journal", Committed(b))>>,
                          b, "NewRootCommitted"), s)
<1>1. ASSUME NEW o, o = "NewRootCommitted",
             NEW t, t = <<Write("root", Published(b)), Write("journal", Committed(b)),
                        LastWrite(b, o)>>
      PROVE  Planned(Call(t, Announced(Receipt(b, o))), s)
  <2>1. Publishes(t, s, b, o)
    BY <1>1 DEF Publishes
  <2>2. o \in RecoveryOutcome /\ t # <<>>
    BY <1>1 DEF RecoveryOutcome
  <2> QED
    BY <2>1, <2>2, SettlePlanned
<1>2. Settle(<<Write("root", Published(b)), Write("journal", Committed(b))>>, b, "NewRootCommitted")
      = Call(<<Write("root", Published(b)), Write("journal", Committed(b)), LastWrite(b, "NewRootCommitted")>>,
             Announced(Receipt(b, "NewRootCommitted")))
  BY SettleOf
<1>3. Planned(Call(<<Write("root", Published(b)), Write("journal", Committed(b)), LastWrite(b, "NewRootCommitted")>>,
                   Announced(Receipt(b, "NewRootCommitted"))), s)
  BY <1>1
<1> QED
  BY <1>2, <1>3

\* commit, or recovery, finds the root published and marks the journal.
LEMMA CommitsPlanned ==
    ASSUME NEW s, NEW b \in JBindings, s["receipt"] = Absent, s["journal"] = Prepared(b),
           s["root"] = Published(b)
    PROVE  Planned(Settle(<<Write("journal", Committed(b))>>, b, "NewRootCommitted"), s)
<1>1. ASSUME NEW o, o = "NewRootCommitted",
             NEW t, t = <<Write("journal", Committed(b)), LastWrite(b, o)>>
      PROVE  Planned(Call(t, Announced(Receipt(b, o))), s)
  <2>1. Commits(t, s, b, o)
    BY <1>1 DEF Commits
  <2>2. o \in RecoveryOutcome /\ t # <<>>
    BY <1>1 DEF RecoveryOutcome
  <2> QED
    BY <2>1, <2>2, SettlePlanned
<1>2. Settle(<<Write("journal", Committed(b))>>, b, "NewRootCommitted")
      = Call(<<Write("journal", Committed(b)), LastWrite(b, "NewRootCommitted")>>,
             Announced(Receipt(b, "NewRootCommitted")))
  BY SettleOf
<1>3. Planned(Call(<<Write("journal", Committed(b)), LastWrite(b, "NewRootCommitted")>>,
                   Announced(Receipt(b, "NewRootCommitted"))), s)
  BY <1>1
<1> QED
  BY <1>2, <1>3

\* abort, or recovery, finds the old root and marks the journal aborted.
LEMMA AbortsPlanned ==
    ASSUME NEW s, NEW b \in JBindings, s["receipt"] = Absent, NEW why \in AbortReason,
           s["root"] # Absent, s["root"].root = b.old,
           s["journal"] = Prepared(b) \/ (s["journal"] = Absent /\ s["cartridge"] = b)
    PROVE  Planned(Settle(<<Write("journal", Aborted(b, why))>>, b, "OldRootAborted"), s)
<1>1. ASSUME NEW o, o = "OldRootAborted",
             NEW t, t = <<Write("journal", Aborted(b, why)), LastWrite(b, o)>>
      PROVE  Planned(Call(t, Announced(Receipt(b, o))), s)
  <2>1. Aborts(t, s, b, o)
    BY <1>1 DEF Aborts
  <2>2. o \in RecoveryOutcome /\ t # <<>>
    BY <1>1 DEF RecoveryOutcome
  <2> QED
    BY <2>1, <2>2, SettlePlanned
<1>2. Settle(<<Write("journal", Aborted(b, why))>>, b, "OldRootAborted")
      = Call(<<Write("journal", Aborted(b, why)), LastWrite(b, "OldRootAborted")>>,
             Announced(Receipt(b, "OldRootAborted")))
  BY SettleOf
<1>3. Planned(Call(<<Write("journal", Aborted(b, why)), LastWrite(b, "OldRootAborted")>>,
                   Announced(Receipt(b, "OldRootAborted"))), s)
  BY <1>1
<1> QED
  BY <1>2, <1>3

\* A transaction that is decided, or was never begun, only gets its receipt.
LEMMA AnswersPlanned ==
    ASSUME NEW s, NEW b \in JBindings, s["receipt"] = Absent, NEW o \in RecoveryOutcome,
           \/ o \in CommitOutcomes /\ s["journal"] = Committed(b)
           \/ /\ o \in AbortOutcomes /\ s["journal"] # Absent
              /\ s["journal"].state = "Aborted" /\ s["journal"].binding = b
           \/ o = "NotStartedOldRoot" /\ s["journal"] = Absent
    PROVE  Planned(Settle(<<>>, b, o), s)
<1>1. ASSUME NEW t, t = <<LastWrite(b, o)>>
      PROVE  Planned(Call(t, Announced(Receipt(b, o))), s)
  <2>1. Answers(t, s, b, o)
    BY <1>1 DEF Answers
  <2>2. t # <<>>
    BY <1>1
  <2> QED
    BY <2>1, <2>2, SettlePlanned
<1> QED
  BY <1>1, SettleOf

\* The outcomes of the calls.
LEMMA Outcomes ==
    /\ {"NotStartedOldRoot", "AlreadyCommitted", "AlreadyAborted"} \subseteq RecoveryOutcome
    /\ "AlreadyCommitted" \in CommitOutcomes /\ "AlreadyAborted" \in AbortOutcomes
    /\ {"ExplicitAbort", "OwnerDeathObservedOldRoot", "RecoveryObservedOldRoot"} \subseteq AbortReason
  BY DEF RecoveryOutcome, CommitOutcomes, AbortOutcomes, AbortReason

\* Recovery begins only with a plan that fits the files it found.
LEMMA RecoverPlanned ==
    ASSUME NEW s, FilesOK(s), NEW b \in JBindings, s["receipt"] = Absent,
           RecoverCall(s, b) # Refused
    PROVE  Planned(RecoverCall(s, b), s)
<1>1. s["root"] \in RootPublicationReceipt /\ s["root"] # Absent
  BY FilesFacts, RecordsExist DEF RecoverCall
<1>2. CASE s["journal"] = Absent
  <2>1. RecoverCall(s, b) = WithoutJournal(s, b)
    BY <1>1, <1>2 DEF RecoverCall
  <2>2. s["root"].root = b.old
    BY <2>1 DEF WithoutJournal
  <2>3. CASE s["cartridge"] = Absent
    <3>1. RecoverCall(s, b) = Settle(<<>>, b, "NotStartedOldRoot")
      BY <2>1, <2>2, <2>3 DEF WithoutJournal
    <3> QED
      BY <1>2, <3>1, AnswersPlanned, Outcomes
  <2>4. CASE s["cartridge"] # Absent
    <3>1. s["cartridge"] = b
      BY <2>1, <2>2, <2>4 DEF WithoutJournal
    <3>2. RecoverCall(s, b) = Settle(<<Write("journal", Aborted(b, "RecoveryObservedOldRoot"))>>,
                                     b, "OldRootAborted")
      BY <2>1, <2>2, <2>4, <3>1 DEF WithoutJournal
    <3> QED
      BY <1>1, <1>2, <2>2, <3>1, <3>2, AbortsPlanned, Outcomes
  <2> QED
    BY <2>3, <2>4
<1>3. CASE s["journal"] # Absent
  <2>1. RecoverCall(s, b) = WithJournal(s, b)
    BY <1>1, <1>3 DEF RecoverCall
  <2>2. s["journal"] \in DurableJournalRecord
    BY <1>3, FilesFacts
  <2>3. ReadAs(b, s["journal"]) /\ s["journal"].binding = b /\ DeathAgrees(s, b)
    BY <2>1 DEF WithJournal
  <2>4. CASE s["journal"].state = "Prepared" /\ VerifyOld(s, b)
    <3>1. s["journal"] = Prepared(b) /\ b.new # b.old /\ s["root"].root = b.old
      BY <2>2, <2>3, <2>4, JournalRecords, JournalAssumption DEF ValidBinding, VerifyOld
    <3>2. \E why \in AbortReason :
              RecoverCall(s, b) = Settle(<<Write("journal", Aborted(b, why))>>, b, "OldRootAborted")
      BY <2>1, <2>3, <2>4, <3>1, RecordsExist, Outcomes DEF WithJournal, VerifyOld, VerifyNew
    <3> QED
      BY <1>1, <3>1, <3>2, AbortsPlanned
  <2>5. CASE s["journal"].state = "Prepared" /\ VerifyNew(s, b)
    <3>1. s["journal"] = Prepared(b) /\ s["root"] = Published(b) /\ s["root"].root # b.old
      BY SMTT(60), <2>2, <2>3, <2>5, JournalRecords, RecordsExist, JournalAssumption
      DEF ValidBinding, VerifyNew
    <3>2. RecoverCall(s, b) = Settle(<<Write("journal", Committed(b))>>, b, "NewRootCommitted")
      BY <2>1, <2>3, <2>5, <3>1 DEF WithJournal, VerifyOld
    <3> QED
      BY <3>1, <3>2, CommitsPlanned
  <2>6. CASE s["journal"].state = "Committed" /\ VerifyNew(s, b)
    <3>1. RecoverCall(s, b) = Settle(<<>>, b, "AlreadyCommitted")
      BY <2>1, <2>3, <2>6 DEF WithJournal
    <3>2. s["journal"] = Committed(b)
      BY <2>2, <2>3, <2>6, JournalRecords
    <3> QED
      BY <3>1, <3>2, AnswersPlanned, Outcomes
  <2>7. CASE s["journal"].state = "Aborted" /\ VerifyOld(s, b)
    <3>1. RecoverCall(s, b) = Settle(<<>>, b, "AlreadyAborted")
      BY <2>1, <2>3, <2>7 DEF WithJournal
    <3> QED
      BY <1>3, <2>3, <2>7, <3>1, AnswersPlanned, Outcomes
  <2> QED
    BY <2>1, <2>3, <2>4, <2>5, <2>6, <2>7 DEF WithJournal
<1> QED
  BY <1>2, <1>3

\* Whatever the files, recovery is not refused for the transaction they are of.
LEMMA RecoveryFinds ==
    ASSUME NEW s, FilesOK(s), s["root"] # Absent
    PROVE  \E b \in JBindings :
               IF s["receipt"] # Absent THEN s["receipt"].binding = b
               ELSE RecoverCall(s, b) # Refused
<1>1. \A todo, b, o : Settle(todo, b, o) # Refused
  BY DEF Settle, Call, Refused
<1>2. CASE s["receipt"] # Absent
  <2>1. s["receipt"].binding \in JBindings
    BY <1>2, FilesFacts DEF RecoveryReceipt
  <2> QED
    BY <1>2, <2>1
<1>3. CASE s["receipt"] = Absent /\ s["journal"] = Absent
  <2>1. s["root"].root = FirstRoot
    BY <1>3, FilesFacts, RootRecords DEF FilesOK, Corresponds
  <2>2. CASE s["cartridge"] = Absent
    <3>1. PICK b \in JBindings : b.old = FirstRoot
      BY WorkAssumption
    <3>2. RecoverCall(s, b) # Refused
      BY <1>1, <1>3, <2>1, <2>2, <3>1 DEF RecoverCall, WithoutJournal
    <3> QED
      BY <1>3, <3>2
  <2>3. CASE s["cartridge"] # Absent
    <3>1. s["cartridge"] \in JBindings /\ s["cartridge"].old = FirstRoot
      BY <2>3, FilesFacts DEF FilesOK
    <3>2. RecoverCall(s, s["cartridge"]) # Refused
      BY <1>1, <1>3, <2>1, <2>3, <3>1 DEF RecoverCall, WithoutJournal
    <3> QED
      BY <1>3, <3>1, <3>2
  <2> QED
    BY <2>2, <2>3
<1>4. CASE s["receipt"] = Absent /\ s["journal"] # Absent
  <2> DEFINE b == s["journal"].binding
  <2>1. b \in JBindings /\ s["journal"].state \in {"Prepared", "Committed", "Aborted"}
    BY <1>4, FilesFacts, JournalRecords
  <2>2. ReadAs(b, s["journal"]) /\ DeathAgrees(s, b)
    BY <1>4 DEF ReadAs, DeathAgrees, FilesOK
  <2>3. VerifyOld(s, b) \/ VerifyNew(s, b)
    <3>1. s["root"] \in RootPublicationReceipt /\ s["cartridge"] = b /\ b # Absent
      BY <1>4, <2>1, FilesFacts, RecordsExist DEF FilesOK
    <3>2. b.old = FirstRoot
      BY <3>1 DEF FilesOK
    <3>3. s["root"].tx # NoTransaction => s["root"].tx = b
      BY <1>4 DEF FilesOK, Corresponds
    <3> QED
      BY <3>1, <3>2, <3>3, RootRecords DEF VerifyOld, VerifyNew
  <2>4. /\ s["journal"].state = "Committed" => VerifyNew(s, b)
        /\ s["journal"].state = "Aborted" => VerifyOld(s, b)
    BY <1>4 DEF FilesOK, Corresponds, VerifyOld, VerifyNew
  <2>5. RecoverCall(s, b) # Refused
    BY <1>1, <1>4, <2>1, <2>2, <2>3, <2>4 DEF RecoverCall, WithJournal
  <2> QED
    BY <1>4, <2>1, <2>5
<1> QED
  BY <1>2, <1>3, <1>4

-----------------------------------------------------------------------------
(* The invariant.                                                              *)

\* An empty directory, no call, nothing told.
LEMMA InitJournal == JournalInit => JournalInv
<1> SUFFICES ASSUME JournalInit
             PROVE  JournalInv
  OBVIOUS
<1> DEFINE s == [f \in JournalPaths |-> Absent]
<1>1. /\ s \in Files /\ s["root"] = Absent /\ s["journal"] = Absent /\ s["cartridge"] = Absent
      /\ s["receipt"] = Absent /\ s["death"] = Absent
  BY DEF Files, JournalPaths, RootRecord, JournalRecord
<1>2. jdir = <<s>>
  BY DEF JournalInit, Empty
<1> HIDE DEF s
<1>3. FilesOK(s)
  BY <1>1 DEF FilesOK, Corresponds
<1>4. DirOK
  BY SMTT(60), <1>1, <1>2, <1>3, ImagesOne DEF DirOK
<1>5. CallOK
  BY DEF JournalInit, CallOK
<1>6. DecisionOK
  BY <1>1, <1>2, ImagesOne DEF DecisionOK, JournalInit
<1> QED
  BY <1>4, <1>5, <1>6 DEF JournalInv

\* Steps that leave the directory and the settled answers alone.
LEMMA QuietStep ==
    ASSUME JournalInv, UNCHANGED <<jdir, jtold>>
    PROVE  DirOK' /\ DecisionOK'
  BY DEF JournalInv, DirOK, DecisionOK

\* A call that begins has a plan for the files it sees.
LEMMA BeginStep ==
    ASSUME JournalInv, NEW call, Planned(call, Seen(jdir)), Begin(call)
    PROVE  JournalInv'
<1>1. PICK t, told : call = Call(t, told) /\ t # <<>> /\ Plan(t, told, Seen(jdir))
  BY DEF Planned
<1>2. UNCHANGED <<jdir, jtold>> /\ jcall' = [todo |-> t, phase |-> "write", told |-> told]
  BY <1>1 DEF Begin, Call
<1>3. CallOK'
  BY <1>1, <1>2 DEF CallOK
<1> QED
  BY <1>2, <1>3, QuietStep DEF JournalInv

\* An answer repeated from a receipt leaves everything else alone.
LEMMA RepeatStep ==
    ASSUME JournalInv, NEW receipt, Repeat(receipt)
    PROVE  JournalInv'
<1>1. UNCHANGED <<jdir, jtold>> /\ UNCHANGED jcall
  BY DEF Repeat
<1>2. CallOK'
  BY <1>1 DEF JournalInv, CallOK
<1> QED
  BY <1>1, <1>2, QuietStep DEF JournalInv

\* commit repeats the receipt, or settles according to the journal and the root.
LEMMA CommitStep ==
    ASSUME JournalInv, NEW b \in JBindings, Commit(b)
    PROVE  JournalInv'
<1> SUFFICES ASSUME NEW s, s = Seen(jdir)
             PROVE  JournalInv'
  OBVIOUS
<1>1. FilesOK(s)
  BY ImagesHold DEF JournalInv, DirOK
<1>2. CASE Repeat(s["receipt"])
  BY <1>2, RepeatStep
<1>3. CASE /\ s["receipt"] = Absent /\ s["journal"] # Absent /\ s["journal"].binding = b
           /\ s["journal"].state = "Committed" /\ Begin(Settle(<<>>, b, "AlreadyCommitted"))
  <2>1. s["journal"] = Committed(b)
    BY <1>1, <1>3, FilesFacts, JournalRecords
  <2> QED
    BY <1>3, <2>1, AnswersPlanned, Outcomes, BeginStep
<1>4. CASE /\ s["receipt"] = Absent /\ s["journal"] # Absent /\ s["journal"].binding = b
           /\ s["journal"].state = "Prepared" /\ s["root"].root = b.old
           /\ Begin(Settle(<<Write("root", Published(b)), Write("journal", Committed(b))>>,
                           b, "NewRootCommitted"))
  <2>1. s["journal"] = Prepared(b)
    BY <1>1, <1>4, FilesFacts, JournalRecords
  <2> QED
    BY <1>4, <2>1, PublishesPlanned, BeginStep
<1>5. CASE /\ s["receipt"] = Absent /\ s["journal"] # Absent /\ s["journal"].binding = b
           /\ s["journal"].state = "Prepared" /\ s["root"] = Published(b)
           /\ Begin(Settle(<<Write("journal", Committed(b))>>, b, "NewRootCommitted"))
  <2>1. s["journal"] = Prepared(b)
    BY <1>1, <1>5, FilesFacts, JournalRecords
  <2> QED
    BY <1>5, <2>1, CommitsPlanned, BeginStep
<1> QED
  BY <1>2, <1>3, <1>4, <1>5 DEF Commit, ReadAs, VerifyOld, VerifyNew

\* abort repeats the receipt, or settles a transaction whose root is still old.
LEMMA AbortStep ==
    ASSUME JournalInv, NEW b \in JBindings, Abort(b)
    PROVE  JournalInv'
<1> SUFFICES ASSUME NEW s, s = Seen(jdir)
             PROVE  JournalInv'
  OBVIOUS
<1>1. FilesOK(s)
  BY ImagesHold DEF JournalInv, DirOK
<1>2. CASE Repeat(s["receipt"])
  BY <1>2, RepeatStep
<1>3. CASE /\ s["receipt"] = Absent /\ s["journal"] # Absent /\ s["journal"].binding = b
           /\ s["journal"].state = "Aborted" /\ Begin(Settle(<<>>, b, "AlreadyAborted"))
  BY <1>3, AnswersPlanned, Outcomes, BeginStep
<1>4. CASE /\ s["receipt"] = Absent /\ s["journal"] # Absent /\ s["journal"].binding = b
           /\ s["journal"].state = "Prepared" /\ s["root"].root = b.old
           /\ Begin(Settle(<<Write("journal", Aborted(b, "ExplicitAbort"))>>, b, "OldRootAborted"))
  <2>1. s["journal"] = Prepared(b) /\ s["root"] # Absent
    BY <1>1, <1>4, FilesFacts, JournalRecords, RecordsExist
  <2>2. "ExplicitAbort" \in AbortReason
    BY Outcomes
  <2> QED
    BY <1>4, <2>1, <2>2, AbortsPlanned, BeginStep
<1> QED
  BY <1>2, <1>3, <1>4 DEF Abort, ReadAs, VerifyOld

\* recovery repeats the receipt, or does what the files call for.
LEMMA RecoverStep ==
    ASSUME JournalInv, NEW b \in JBindings, Recover(b)
    PROVE  JournalInv'
<1> SUFFICES ASSUME NEW s, s = Seen(jdir)
             PROVE  JournalInv'
  OBVIOUS
<1>1. FilesOK(s)
  BY ImagesHold DEF JournalInv, DirOK
<1>2. CASE Repeat(s["receipt"])
  BY <1>2, RepeatStep
<1>3. CASE s["receipt"] = Absent /\ RecoverCall(s, b) # Refused /\ Begin(RecoverCall(s, b))
  BY <1>1, <1>3, RecoverPlanned, BeginStep
<1> QED
  BY <1>2, <1>3 DEF Recover

\* initialize_root, prepare and the owner-death receipt write what they announce.
LEMMA WritesStep ==
    ASSUME JournalInv, NEW b \in JBindings,
           InitializeRoot \/ Prepare(b) \/ \E at \in DeathTimes : RecordOwnerDeath(b, at)
    PROVE  JournalInv'
<1> SUFFICES ASSUME NEW s, s = Seen(jdir)
             PROVE  JournalInv'
  OBVIOUS
<1>1. ASSUME NEW t, t # <<>>, Begin(Call(t, {})), Plan(t, {}, s)
      PROVE  JournalInv'
  BY <1>1, BeginStep DEF Planned
<1>2. ASSUME InitializeRoot, NEW t, t = <<Write("root", Initial(FirstRoot))>>
      PROVE  JournalInv'
  <2>1. Initializes(t, {}, s) /\ t # <<>>
    BY <1>2 DEF Initializes, InitializeRoot
  <2>2. Begin(Call(t, {}))
    BY <1>2 DEF InitializeRoot
  <2> QED
    BY <1>1, <2>1, <2>2 DEF Plan
<1>3. ASSUME Prepare(b), NEW t, t = <<WriteOnce("cartridge", b), Write("journal", Prepared(b))>>
      PROVE  JournalInv'
  <2>1. Prepares(t, {}, s, b) /\ t # <<>>
    BY <1>3 DEF Prepares, Prepare, Fresh, VerifyOld
  <2>2. Begin(Call(t, {}))
    BY <1>3 DEF Prepare
  <2> QED
    BY <1>1, <2>1, <2>2 DEF Plan
<1>4. ASSUME NEW at \in DeathTimes, RecordOwnerDeath(b, at),
             NEW t, t = <<WriteOnce("death", [binding |-> b, root |-> s["root"].root, at |-> at])>>
      PROVE  JournalInv'
  <2>1. Mourns(t, {}, s, b) /\ t # <<>>
    BY <1>4 DEF Mourns, RecordOwnerDeath
  <2>2. Begin(Call(t, {}))
    BY <1>4 DEF RecordOwnerDeath
  <2> QED
    BY <1>1, <2>1, <2>2 DEF Plan
<1> QED
  BY <1>2, <1>3, <1>4

\* The calls of the API begin or repeat.
LEMMA CallsStep ==
    ASSUME JournalInv, NEW b \in JBindings,
           \/ InitializeRoot \/ Prepare(b) \/ Commit(b) \/ Abort(b) \/ Recover(b)
           \/ VerifyCommitted(b) \/ \E at \in DeathTimes : RecordOwnerDeath(b, at)
    PROVE  JournalInv'
<1>1. CASE VerifyCommitted(b)
  BY <1>1, RepeatStep DEF VerifyCommitted
<1> QED
  BY <1>1, WritesStep, CommitStep, AbortStep, RecoverStep

\* The call in progress is a record of three fields.
LEMMA CallFields ==
    ASSUME NEW p, NEW call, call = [todo |-> call.todo, phase |-> p, told |-> call.told], NEW new
    PROVE  /\ new = [call EXCEPT !.todo = Tail(@)] =>
                  new = [todo |-> Tail(call.todo), phase |-> p, told |-> call.told]
           /\ new = [call EXCEPT !.phase = "sync"] =>
                  new = [todo |-> call.todo, phase |-> "sync", told |-> call.told]
  BY SMTT(60)

\* durable_replace and write_once.
LEMMA RenameStep == JournalInv /\ Rename => JournalInv'
<1> SUFFICES ASSUME JournalInv, Rename
             PROVE  JournalInv'
  OBVIOUS
<1> DEFINE s == Seen(jdir)
           t == jcall.todo
           told == jcall.told
           w == Head(t)
           n == After(s, w)
<1>1. jcall.phase = "write" /\ t # <<>> /\ UNCHANGED jtold
  BY DEF Rename
<1>2. /\ jcall = [todo |-> t, phase |-> "write", told |-> told]
      /\ Plan(t, told, s)
  BY SMTT(60), <1>1 DEF JournalInv, CallOK, NoCall
<1>3. /\ FilesOK(s) /\ jdir \in Seq(Files) /\ jdir # <<>>
      /\ \A image \in Images(jdir) : FilesOK(image)
  BY ImagesHold DEF JournalInv, DirOK
<1>4. CASE jcall' = NoCall /\ UNCHANGED jdir
  BY <1>1, <1>4, QuietStep DEF JournalInv, CallOK
<1>5. ASSUME w.once, s[w.file] # Absent, s[w.file] = w.value,
             jcall' = [jcall EXCEPT !.todo = Tail(@)], UNCHANGED jdir
      PROVE  JournalInv'
  <2>1. Plan(Tail(t), told, s) /\ told = {}
    BY <1>1, <1>2, <1>3, <1>5, SkipKeeps
  <2>2. jcall' = [todo |-> Tail(t), phase |-> "write", told |-> told]
    BY <1>2, <1>5, CallFields
  <2>3. CallOK'
    BY <1>5, <2>1, <2>2 DEF CallOK
  <2> QED
    BY <1>1, <1>5, <2>3, QuietStep DEF JournalInv
<1>6. ASSUME w.once => s[w.file] = Absent,
             jdir' = Renamed(jdir, w.file, w.value), jcall' = [jcall EXCEPT !.phase = "sync"]
      PROVE  JournalInv'
  <2>1. Keeps(s, Tail(t), told, n)
    BY <1>1, <1>2, <1>3, <1>6, WriteKeeps
  <2>2. n \in Files /\ n = Replaced(Seen(jdir), w.file, w.value)
    BY <2>1 DEF Keeps, FilesOK, After
  <2> HIDE DEF w, n
  <2>3. /\ jdir' \in Seq(Files) /\ jdir' # <<>>
        /\ Images(jdir') = Images(jdir) \cup {n}
        /\ Seen(jdir') = n /\ Durable(jdir') = Durable(jdir)
    BY SMTT(60), <1>3, <1>6, <2>2, ImagesRenamed
  <2>4. DirOK'
    BY <1>3, <2>1, <2>3 DEF DirOK, Keeps
  <2>5. CallOK'
    <3>1. jcall' = [todo |-> t, phase |-> "sync", told |-> told]
      BY <1>2, <1>6, CallFields
    <3> QED
      BY <1>1, <2>1, <2>3, <3>1 DEF CallOK, Keeps
  <2>6. DecisionOK'
    <3>1. DurableDecision(Durable(jdir)) # NoTransaction =>
              /\ \A image \in Images(jdir) :
                    DurableDecision(image) = DurableDecision(Durable(jdir))
              /\ DurableDecision(n) = DurableDecision(Durable(jdir))
      BY <1>3, <2>1, ImagesHold DEF JournalInv, DecisionOK, Keeps
    <3> QED
      BY <1>1, <2>3, <3>1 DEF JournalInv, DecisionOK
  <2> QED
    BY <2>4, <2>5, <2>6 DEF JournalInv
<1> QED
  BY <1>4, <1>5, <1>6 DEF Rename

\* A receipt answers with the decision of the files it is among.
LEMMA FoundDecision ==
    ASSUME NEW s, FilesOK(s)
    PROVE  \A d \in Found(s) : d = DurableDecision(s) /\ d # NoTransaction
<1> SUFFICES ASSUME NEW d \in Found(s)
             PROVE  d = DurableDecision(s) /\ d # NoTransaction
  OBVIOUS
<1> DEFINE p == s["receipt"]
           o == s["receipt"].outcome
           b == s["receipt"].binding
<1>1. p # Absent /\ o # "NotStartedOldRoot" /\ d = Decided(b, o)
  BY DEF Found, Announced
<1>2. p \in RecoveryReceipt /\ b \in JBindings /\ o \in RecoveryOutcome
  BY <1>1, FilesFacts DEF RecoveryReceipt
<1>3. CASE o \in CommitOutcomes
  <2>1. s["journal"] = Committed(b)
    BY <1>1, <1>3 DEF FilesOK, Corresponds, CommitOutcomes
  <2>2. s["journal"].state = "Committed" /\ s["journal"].binding = b /\ s["journal"] # Absent
    BY SMTT(60), <1>2, <2>1, JournalRecords, RecordsExist
  <2> QED
    BY <1>1, <1>2, <1>3, <2>2, TerminalDecision, Decisions
<1>4. CASE o \in AbortOutcomes
  <2>1. s["journal"] # Absent /\ s["journal"].state = "Aborted" /\ s["journal"].binding = b
    BY <1>1, <1>4 DEF FilesOK, Corresponds, AbortOutcomes
  <2> QED
    BY <1>1, <1>2, <1>4, <2>1, TerminalDecision, Decisions
<1> QED
  BY <1>1, <1>2, <1>3, <1>4 DEF RecoveryOutcome, CommitOutcomes, AbortOutcomes

\* A rename is not durable yet: it adds one image, which decides what was
\* decided and has the receipt that was there, or one on what was decided.
LEMMA RenameDurable ==
    ASSUME JournalInv, Rename
    PROVE  /\ Durable(jdir') = Durable(jdir) /\ UNCHANGED jtold
           /\ \/ UNCHANGED jdir
              \/ /\ jcall'.phase = "sync"
                 /\ DurableDecision(Seen(jdir)) # NoTransaction =>
                        DurableDecision(Seen(jdir')) = DurableDecision(Seen(jdir))
                 /\ \A d \in Found(Seen(jdir')) :
                        d \in Found(Seen(jdir)) \/ d = DurableDecision(Seen(jdir))
<1>1. UNCHANGED jtold /\ jcall.phase = "write" /\ jcall.todo # <<>>
  BY DEF Rename
<1>2. CASE UNCHANGED jdir
  BY <1>1, <1>2
<1>3. CASE ~UNCHANGED jdir
  <2> DEFINE s == Seen(jdir)
             w == Head(jcall.todo)
             n == After(s, w)
  <2>1. /\ jdir' = Renamed(jdir, w.file, w.value) /\ jcall' = [jcall EXCEPT !.phase = "sync"]
        /\ w.once => s[w.file] = Absent
    BY <1>3 DEF Rename
  <2>2. jdir \in Seq(Files) /\ jdir # <<>> /\ FilesOK(s)
    BY ImagesHold DEF JournalInv, DirOK
  <2>3. /\ jcall = [todo |-> jcall.todo, phase |-> "write", told |-> jcall.told]
        /\ Plan(jcall.todo, jcall.told, s)
    BY SMTT(60), <1>1 DEF JournalInv, CallOK, NoCall
  <2>4. Keeps(s, Tail(jcall.todo), jcall.told, n)
    BY <1>1, <2>1, <2>2, <2>3, WriteKeeps
  <2>5. jdir' = Append(jdir, n)
    BY <2>1 DEF Renamed, After
  <2>6. n \in Files /\ FilesOK(n) /\ (DurableDecision(s) # NoTransaction =>
                                          DurableDecision(n) = DurableDecision(s))
    BY <2>4 DEF Keeps, FilesOK
  <2>7. Durable(jdir') = Durable(jdir) /\ Seen(jdir') = n
    <3> HIDE DEF n
    <3> QED
      BY <2>2, <2>5, <2>6, SMTT(60) DEF Durable, Seen
  <2>8. jcall'.phase = "sync"
    <3>1. jcall' = [todo |-> jcall.todo, phase |-> "sync", told |-> jcall.told]
      BY <2>1, <2>3, CallFields
    <3> QED
      BY <3>1
  <2>9. ASSUME NEW d \in Found(n)
        PROVE  d \in Found(s) \/ d = DurableDecision(s)
    <3>1. DOMAIN s = JournalPaths /\ n = [s EXCEPT ![w.file] = w.value]
      BY <2>2, FilesFacts DEF After, Replaced
    <3>2. CASE w.file = "receipt"
      <4>1. n["root"] = s["root"] /\ n["journal"] = s["journal"]
        BY <3>1, <3>2 DEF JournalPaths
      <4>2. DurableDecision(n) = DurableDecision(s)
        BY <4>1 DEF DurableDecision
      <4> QED
        BY <2>6, <2>9, <4>2, FoundDecision
    <3>3. CASE w.file # "receipt"
      <4>1. n["receipt"] = s["receipt"]
        BY <3>1, <3>3 DEF JournalPaths
      <4> QED
        BY <2>9, <4>1 DEF Found
    <3> QED
      BY <3>2, <3>3
  <2> QED
    BY <1>1, <2>6, <2>7, <2>8, <2>9
<1> QED
  BY <1>2, <1>3

\* After a sync, or a power failure, one of the images is the directory.
LEMMA CollapseStep ==
    ASSUME JournalInv, NEW image \in Images(jdir), jdir' = <<image>>, UNCHANGED jtold
    PROVE  /\ DirOK' /\ DecisionOK' /\ Seen(jdir') = image /\ Durable(jdir') = image
           /\ \/ DurableDecision(Durable(jdir)) = NoTransaction
              \/ DurableDecision(Durable(jdir')) = DurableDecision(Durable(jdir))
<1>1. image \in Files /\ FilesOK(image)
  BY DEF JournalInv, DirOK, FilesOK
<1>2. /\ jdir' \in Seq(Files) /\ jdir' # <<>> /\ Images(jdir') = {image}
      /\ Seen(jdir') = image /\ Durable(jdir') = image
  BY <1>1, ImagesOne
<1>3. DirOK'
  BY <1>1, <1>2 DEF DirOK
<1>4. \/ DurableDecision(Durable(jdir)) = NoTransaction
      \/ DurableDecision(Durable(jdir')) = DurableDecision(Durable(jdir))
  BY <1>2 DEF JournalInv, DecisionOK
<1>5. DecisionOK'
  BY <1>2, <1>4 DEF JournalInv, DecisionOK
<1> QED
  BY <1>2, <1>3, <1>4, <1>5

\* The directory is synced: what was seen is durable.
LEMMA SyncStep == JournalInv /\ SyncDir => JournalInv'
<1> SUFFICES ASSUME JournalInv, SyncDir
             PROVE  JournalInv'
  OBVIOUS
<1>1. /\ jcall = [todo |-> jcall.todo, phase |-> "sync", told |-> jcall.told]
      /\ Plan(Tail(jcall.todo), jcall.told, Seen(jdir))
  BY SMTT(60) DEF SyncDir, JournalInv, CallOK, NoCall
<1>2. Seen(jdir) \in Images(jdir) /\ jdir' = <<Seen(jdir)>> /\ UNCHANGED jtold
  BY ImagesHold DEF JournalInv, DirOK, SyncDir, Synced
<1>3. DirOK' /\ DecisionOK' /\ Seen(jdir') = Seen(jdir) /\ Durable(jdir') = Seen(jdir)
  BY <1>2, CollapseStep
<1>4. jcall' = [todo |-> Tail(jcall.todo), phase |-> "write", told |-> jcall.told]
  BY <1>1 DEF SyncDir
<1>5. CallOK'
  BY <1>1, <1>3, <1>4 DEF CallOK
<1> QED
  BY <1>3, <1>5 DEF JournalInv

\* A call that returns tells what is durable.
LEMMA ReturnTells ==
    ASSUME JournalInv, Return
    PROVE  \A d \in jcall.told : d = DurableDecision(Durable(jdir)) /\ d # NoTransaction
<1>1. jcall.phase = "write" /\ jcall.todo = <<>>
  BY DEF Return
<1>2. /\ Plan(<<>>, jcall.told, Seen(jdir))
      /\ jcall.told # {} => Seen(jdir) = Durable(jdir)
  BY SMTT(60), <1>1 DEF JournalInv, CallOK, NoCall
<1>3. Ends(<<>>, jcall.told, Seen(jdir))
  BY <1>2
    DEF Plan, Initializes, Prepares, Mourns, Settles, Publishes, Commits, Aborts, Answers
<1> QED
  BY <1>2, <1>3 DEF Ends

\* Every step keeps the invariant.
LEMMA JournalStep == JournalInv /\ [JournalNext]_journalVars => JournalInv'
<1> SUFFICES ASSUME JournalInv, [JournalNext]_journalVars
             PROVE  JournalInv'
  OBVIOUS
<1>1. CASE InitializeRoot
  BY <1>1, WorkAssumption, CallsStep
<1>2. ASSUME NEW b \in JBindings,
             \/ Prepare(b) \/ Commit(b) \/ Abort(b) \/ Recover(b) \/ VerifyCommitted(b)
             \/ \E at \in DeathTimes : RecordOwnerDeath(b, at)
      PROVE  JournalInv'
  BY <1>2, CallsStep
<1>3. CASE Rename
  BY <1>3, RenameStep
<1>4. CASE SyncDir
  BY <1>4, SyncStep
<1>5. CASE Return
  <2>1. UNCHANGED jdir /\ jcall' = NoCall /\ jtold' = jtold \cup jcall.told
    BY <1>5 DEF Return
  <2>2. DirOK' /\ CallOK'
    BY <2>1 DEF JournalInv, DirOK, CallOK
  <2>3. DecisionOK'
    BY <1>5, <2>1, ReturnTells DEF JournalInv, DecisionOK
  <2> QED
    BY <2>2, <2>3 DEF JournalInv
<1>6. CASE CallDies
  <2>1. UNCHANGED <<jdir, jtold>> /\ jcall' = NoCall
    BY <1>6 DEF CallDies
  <2> QED
    BY <2>1, QuietStep DEF JournalInv, CallOK
<1>7. CASE PowerLoss
  <2>1. PICK image \in Images(jdir) : jdir' = <<image>>
    BY <1>7 DEF PowerLoss
  <2>2. UNCHANGED jtold /\ jcall' = NoCall
    BY <1>7 DEF PowerLoss
  <2> QED
    BY <2>1, <2>2, CollapseStep DEF JournalInv, CallOK
<1>8. CASE Expire
  <2>1. UNCHANGED <<jdir, jtold>> /\ UNCHANGED jcall
    BY <1>8 DEF Expire
  <2> QED
    BY <2>1, QuietStep DEF JournalInv, CallOK
<1>9. CASE UNCHANGED journalVars
  <2>1. UNCHANGED <<jdir, jtold>> /\ UNCHANGED jcall
    BY <1>9 DEF journalVars
  <2> QED
    BY <2>1, QuietStep DEF JournalInv, CallOK
<1> QED
  BY <1>1, <1>2, <1>3, <1>4, <1>5, <1>6, <1>7, <1>8, <1>9 DEF JournalNext

\* A decision is one of a transaction of the workspace.
LEMMA DecisionTyped ==
    ASSUME NEW s, FilesOK(s)
    PROVE  \/ DurableDecision(s) = NoTransaction
           \/ DurableDecision(s) \in {Decided(b, o) : b \in JBindings, o \in RecoveryOutcome}
<1>1. s["root"] # Absent /\ s["root"].tx # NoTransaction => s["root"].tx \in JBindings
  BY FilesFacts, RootRecords
<1>2. s["journal"] # Absent => s["journal"].binding \in JBindings
  BY FilesFacts, JournalRecords
<1>3. "NewRootCommitted" \in RecoveryOutcome /\ "OldRootAborted" \in RecoveryOutcome
  BY DEF RecoveryOutcome
<1> QED
  BY SMTT(60), <1>1, <1>2, <1>3 DEF DurableDecision

\* Only a sync, a power failure and the return of a call touch what is durable
\* or what the settling calls told.
LEMMA QuietSteps ==
    ASSUME JournalInv, [JournalNext]_journalVars, ~SyncDir, ~PowerLoss, ~Return
    PROVE  Durable(jdir') = Durable(jdir) /\ UNCHANGED jtold
<1>1. CASE InitializeRoot
  BY <1>1 DEF InitializeRoot, Begin
<1>2. ASSUME NEW b \in JBindings,
             \/ Prepare(b) \/ Commit(b) \/ Abort(b) \/ Recover(b) \/ VerifyCommitted(b)
             \/ \E at \in DeathTimes : RecordOwnerDeath(b, at)
      PROVE  Durable(jdir') = Durable(jdir) /\ UNCHANGED jtold
  BY <1>2
    DEF Prepare, Commit, Abort, Recover, VerifyCommitted, RecordOwnerDeath, Begin, Repeat
<1>3. CASE Rename
  BY <1>3, RenameDurable
<1>4. CASE CallDies \/ Expire \/ UNCHANGED journalVars
  BY <1>4 DEF CallDies, Expire, journalVars
<1> QED
  BY <1>1, <1>2, <1>3, <1>4 DEF JournalNext

\* The journal invariant holds of every behaviour.
LEMMA JournalInvariant == JournalSpec => []JournalInv
  BY InitJournal, JournalStep, PTL DEF JournalSpec

\* durable_journal_contract's publication law holds in every state a power
\* failure may leave, whatever calls died half way before it.
THEOREM PublicationLawHolds == JournalSpec => []PublicationLaw
<1>1. JournalInv => PublicationLaw
  BY DEF JournalInv, DirOK, FilesOK, PublicationLaw
<1> QED
  BY <1>1, JournalInvariant, PTL

\* recover_bound_journal has a way on from every state failures can leave.
THEOREM RecoveryNeverStuckHolds == JournalSpec => []RecoveryNeverStuck
<1>1. JournalInv => RecoveryNeverStuck
  BY RecoveryFinds DEF JournalInv, DirOK, RecoveryNeverStuck
<1> QED
  BY <1>1, JournalInvariant, PTL

\* The journal implements one durable decision: no failure and no order of
\* commit, abort and recovery takes it back, and the calls that settle it tell
\* it only when it is durable.
THEOREM JournalImplementsDecision == JournalSpec => ImplementsDecision
<1>1. JournalInit => Contract!DecisionInit
  <2> SUFFICES ASSUME JournalInit
               PROVE  DurableDecision(Durable(jdir)) = NoTransaction /\ jtold = {}
    BY DEF Contract!DecisionInit
  <2>1. Durable(jdir) = [f \in JournalPaths |-> Absent]
    BY ImagesOne DEF JournalInit, Empty
  <2>2. Durable(jdir)["root"] = Absent /\ Durable(jdir)["journal"] = Absent
    BY <2>1 DEF JournalPaths
  <2> QED
    BY <2>2 DEF DurableDecision, JournalInit
<1>2. JournalInv /\ JournalInv' /\ [JournalNext]_journalVars =>
          [Contract!Decide \/ Contract!Tell]_<<DurableDecision(Durable(jdir)), jtold>>
  <2> SUFFICES ASSUME JournalInv, JournalInv', [JournalNext]_journalVars
               PROVE  [Contract!Decide \/ Contract!Tell]_<<DurableDecision(Durable(jdir)), jtold>>
    OBVIOUS
  <2>1. CASE Durable(jdir') = Durable(jdir) /\ UNCHANGED jtold
    BY <2>1
  <2>2. CASE SyncDir \/ PowerLoss
    <3>1. UNCHANGED jtold /\ \E image \in Images(jdir) : jdir' = <<image>>
      BY <2>2, ImagesHold DEF JournalInv, DirOK, SyncDir, Synced, PowerLoss
    <3>2. \/ DurableDecision(Durable(jdir)) = NoTransaction
          \/ DurableDecision(Durable(jdir')) = DurableDecision(Durable(jdir))
      BY <3>1, CollapseStep
    <3>3. \/ DurableDecision(Durable(jdir')) = NoTransaction
          \/ DurableDecision(Durable(jdir')) \in {Decided(b, o) : b \in JBindings, o \in RecoveryOutcome}
      <4>1. FilesOK(Durable(jdir'))
        BY ImagesHold DEF JournalInv, DirOK
      <4> QED
        BY SMTT(60), <4>1, DecisionTyped
    <3> QED
      BY SMTT(60), <3>1, <3>2, <3>3 DEF Contract!Decide
  <2>3. CASE Return
    <3>1. UNCHANGED jdir /\ jtold' = jtold \cup jcall.told
      BY <2>3 DEF Return
    <3>2. CASE jcall.told = {}
      BY <3>1, <3>2
    <3>3. CASE jcall.told # {}
      <4>1. /\ jcall.told = {DurableDecision(Durable(jdir))}
            /\ DurableDecision(Durable(jdir)) # NoTransaction
        BY <2>3, <3>3, ReturnTells
      <4> QED
        BY <3>1, <4>1 DEF Contract!Tell
    <3> QED
      BY <3>2, <3>3
  <2> QED
    BY <2>1, <2>2, <2>3, QuietSteps
<1> QED
  BY <1>1, <1>2, JournalInvariant, JournalStep, PTL
  DEF JournalSpec, ImplementsDecision, Contract!DecisionSpec

-----------------------------------------------------------------------------
(* Answers repeated from a receipt.                                            *)

\* Nothing has been answered in an empty directory.
LEMMA InitRepeated == JournalInit => RepeatedOK
<1> SUFFICES ASSUME JournalInit
             PROVE  RepeatedOK
  OBVIOUS
<1> DEFINE s == [f \in JournalPaths |-> Absent]
<1>1. s["receipt"] = Absent
  BY DEF JournalPaths
<1>2. jdir = <<s>> /\ kills = 0 /\ powerLosses = 0 /\ jrepeated = {}
  BY DEF JournalInit, Empty
<1> HIDE DEF s
<1>3. Seen(jdir) = s /\ Durable(jdir) = s
  BY <1>2, ImagesOne
<1>4. Found(Seen(jdir)) = {}
  BY <1>1, <1>3 DEF Found
<1> QED
  BY <1>2, <1>3, <1>4 DEF RepeatedOK

\* The calls of the API begin, or repeat what the receipt says; no call is
\* under way when they do.
LEMMA CallsRepeat ==
    ASSUME JournalInv, RepeatedOK, UNCHANGED jdir, Idle, Steady,
           \/ UNCHANGED jrepeated /\ jcall'.phase = "write"
           \/ UNCHANGED jcall /\ \A d \in jrepeated' : d \in jrepeated \/ d \in Found(Seen(jdir))
    PROVE  RepeatedOK'
<1>1. /\ jcall.phase = "idle" /\ kills' = kills /\ powerLosses' = powerLosses
      /\ jcall'.phase # "sync"
  BY SMTT(60) DEF Idle, NoCall, Steady
<1>2. \A d \in Found(Seen(jdir)) : d = DurableDecision(Seen(jdir)) /\ d # NoTransaction
  BY FoundDecision, ImagesHold DEF JournalInv, DirOK
<1>3. kills <= 1 => \A d \in Found(Seen(jdir)) : d = DurableDecision(Durable(jdir))
  BY SMTT(60), <1>1 DEF RepeatedOK
<1> QED
  BY <1>1, <1>2, <1>3 DEF RepeatedOK

\* A rename while no call has failed yet rests on durable files.
LEMMA RenameRepeats ==
    ASSUME JournalInv, RepeatedOK, Rename
    PROVE  RepeatedOK'
<1>1. /\ jcall.phase = "write" /\ UNCHANGED jrepeated /\ kills' = kills
      /\ powerLosses' = powerLosses
  BY DEF Rename, Steady
<1>2. CASE UNCHANGED jdir
  BY <1>1, <1>2 DEF RepeatedOK
<1>3. CASE ~UNCHANGED jdir
  <2>1. /\ Durable(jdir') = Durable(jdir) /\ jcall'.phase = "sync"
        /\ DurableDecision(Seen(jdir)) # NoTransaction =>
               DurableDecision(Seen(jdir')) = DurableDecision(Seen(jdir))
        /\ \A d \in Found(Seen(jdir')) :
               d \in Found(Seen(jdir)) \/ d = DurableDecision(Seen(jdir))
    BY <1>3, RenameDurable
  <2>2. kills = 0 => \A d \in Found(Seen(jdir')) : d = DurableDecision(Durable(jdir))
    BY <1>1, <2>1 DEF RepeatedOK
  <2> QED
    BY <1>1, <2>1, <2>2 DEF RepeatedOK
<1> QED
  BY <1>2, <1>3

\* One image is left, the newest unless the power failed.
LEMMA CollapseRepeats ==
    ASSUME JournalInv, JournalInv', RepeatedOK, UNCHANGED <<jtold, jrepeated>>,
           NEW image \in Images(jdir), jdir' = <<image>>, UNCHANGED kills,
           powerLosses' \in Nat,
           powerLosses' = 0 => powerLosses = 0 /\ image = Seen(jdir)
    PROVE  RepeatedOK'
<1>1. /\ Seen(jdir') = image /\ Durable(jdir') = image
      /\ \/ DurableDecision(Durable(jdir)) = NoTransaction
         \/ DurableDecision(Durable(jdir')) = DurableDecision(Durable(jdir))
  BY CollapseStep
<1>2. FilesOK(image)
  BY DEF JournalInv, DirOK
<1>3. \A d \in Found(Seen(jdir')) : d = DurableDecision(Durable(jdir'))
  BY <1>1, <1>2, FoundDecision
<1>4. kills <= 1 => \A d \in jrepeated : d = DurableDecision(Durable(jdir')) /\ d # NoTransaction
  BY <1>1 DEF RepeatedOK
<1>5. powerLosses' = 0 =>
          \A d \in jrepeated : d = DurableDecision(Seen(jdir')) /\ d # NoTransaction
  BY <1>1 DEF RepeatedOK
<1> QED
  BY <1>1, <1>3, <1>4, <1>5 DEF RepeatedOK

\* Every step keeps the answers in line.
LEMMA RepeatedStep ==
    JournalInv /\ JournalInv' /\ RepeatedOK /\ [JournalNext]_journalVars => RepeatedOK'
<1> SUFFICES ASSUME JournalInv, JournalInv', RepeatedOK, [JournalNext]_journalVars
             PROVE  RepeatedOK'
  OBVIOUS
<1> DEFINE s == Seen(jdir)
<1>1. CASE InitializeRoot
  BY <1>1, CallsRepeat DEF InitializeRoot, Begin, Call
<1>2. ASSUME NEW b \in JBindings,
             \/ Prepare(b) \/ Commit(b) \/ Abort(b) \/ Recover(b) \/ VerifyCommitted(b)
             \/ \E at \in DeathTimes : RecordOwnerDeath(b, at)
      PROVE  RepeatedOK'
  <2>1. Idle /\ Steady
    BY <1>2
      DEF Prepare, Commit, Abort, Recover, VerifyCommitted, RecordOwnerDeath
  <2>2. ASSUME s["receipt"] # Absent, Repeat(s["receipt"])
        PROVE  RepeatedOK'
    BY <2>1, <2>2, CallsRepeat DEF Repeat, Found
  <2>3. ASSUME NEW call, call.phase = "write", Begin(call)
        PROVE  RepeatedOK'
    BY <2>1, <2>3, CallsRepeat DEF Begin
  <2>4. \A t, told : Call(t, told).phase = "write"
    BY DEF Call
  <2>5. \A t, o : Settle(t, b, o).phase = "write"
    BY DEF Settle, Call
  <2>6. CASE Prepare(b)
    BY <2>3, <2>4, <2>6 DEF Prepare
  <2>7. CASE Commit(b)
    BY <2>2, <2>3, <2>5, <2>7 DEF Commit
  <2>8. CASE Abort(b)
    BY <2>2, <2>3, <2>5, <2>8 DEF Abort
  <2>9. CASE Recover(b)
    <3>1. RecoverCall(s, b) # Refused => RecoverCall(s, b).phase = "write"
      BY <2>5 DEF RecoverCall, WithoutJournal, WithJournal
    <3> QED
      BY <2>2, <2>3, <2>9, <3>1 DEF Recover
  <2>10. CASE VerifyCommitted(b)
    BY <2>2, <2>10 DEF VerifyCommitted
  <2>11. CASE \E at \in DeathTimes : RecordOwnerDeath(b, at)
    BY <2>3, <2>4, <2>11 DEF RecordOwnerDeath
  <2> QED
    BY <1>2, <2>6, <2>7, <2>8, <2>9, <2>10, <2>11
<1>3. CASE Rename
  BY <1>3, RenameRepeats
<1>4. CASE SyncDir
  <2>1. /\ UNCHANGED <<jtold, jrepeated>> /\ UNCHANGED kills /\ powerLosses' = powerLosses
        /\ jdir' = <<Seen(jdir)>> /\ Seen(jdir) \in Images(jdir) /\ powerLosses \in Nat
    BY <1>4, ImagesHold DEF SyncDir, Synced, Steady, JournalInv, DirOK, RepeatedOK
  <2> QED
    BY <2>1, CollapseRepeats
<1>5. CASE Return
  <2>1. /\ jcall.phase = "write" /\ jcall'.phase = "idle"
        /\ UNCHANGED <<jdir, jrepeated, kills, powerLosses>>
    BY <1>5 DEF Return, Steady, NoCall
  <2> QED
    BY <2>1 DEF RepeatedOK
<1>6. CASE CallDies
  <2>1. /\ kills' = kills + 1 /\ jcall'.phase = "idle"
        /\ UNCHANGED <<jdir, jrepeated, powerLosses>>
    BY <1>6 DEF CallDies, NoCall
  <2> QED
    BY SMTT(60), <2>1 DEF RepeatedOK
<1>7. CASE PowerLoss
  <2>1. PICK image \in Images(jdir) : jdir' = <<image>>
    BY <1>7 DEF PowerLoss
  <2>2. /\ UNCHANGED <<jtold, jrepeated>> /\ UNCHANGED kills
        /\ powerLosses' \in Nat /\ powerLosses' # 0
    BY SMTT(60), <1>7 DEF PowerLoss, RepeatedOK
  <2> QED
    BY <2>1, <2>2, CollapseRepeats
<1>8. CASE Expire \/ UNCHANGED journalVars
  <2>1. UNCHANGED <<jdir, jcall, jrepeated, kills, powerLosses>>
    BY <1>8 DEF Expire, journalVars
  <2> QED
    BY <2>1 DEF RepeatedOK
<1> QED
  BY <1>1, <1>2, <1>3, <1>4, <1>5, <1>6, <1>7, <1>8 DEF JournalNext

\* The answers of existing_recovery and persist_recovery never contradict one
\* another, nor those of the calls that settled the journal, unless two calls
\* ended half way and the power failed.
THEOREM AnswersAgreeHolds == JournalSpec => []AnswersAgree
<1>1. JournalSpec => []RepeatedOK
  BY InitRepeated, RepeatedStep, JournalInvariant, PTL DEF JournalSpec
<1>2. JournalInv /\ RepeatedOK => AnswersAgree
  <2> SUFFICES ASSUME JournalInv, RepeatedOK, kills <= 1 \/ powerLosses = 0,
                      NEW d \in jtold \cup jrepeated, NEW e \in jtold \cup jrepeated
               PROVE  d = e
    BY DEF AnswersAgree
  <2>1. ASSUME NEW x \in jtold
        PROVE  x = DurableDecision(Durable(jdir)) /\ x = DurableDecision(Seen(jdir))
    BY <2>1, ImagesHold DEF JournalInv, DirOK, DecisionOK
  <2>2. CASE kills <= 1
    BY <2>1, <2>2 DEF RepeatedOK
  <2>3. CASE powerLosses = 0
    BY <2>1, <2>3 DEF RepeatedOK
  <2> QED
    BY <2>2, <2>3
<1> QED
  BY <1>1, <1>2, JournalInvariant, PTL

-----------------------------------------------------------------------------
(* The attempt journal.                                                     *)

Chains == [EntryFiles -> AttemptEntry \cup {Absent}]

\* A chain has at most three entries: prepared, crossed or ended, resolved.
ChainOK(s) ==
    /\ s \in Chains
    /\ \A i \in EntryFiles :
           s[i] # Absent =>
               \/ i = 1 /\ s[i] \in FirstEntry
               \/ i = 2 /\ s[i] \in SecondEntry /\ s[i].pred = s[1]
               \/ /\ i = 3 /\ s[i] \in ThirdEntry /\ s[i].pred = s[2]
                  /\ s[2].state = "DispatchCrossed" /\ ValidEntry(s[i])

Extends(t, s) == \A i \in EntryFiles : s[i] # Absent => t[i] = s[i]

\* What the caller was told, and did, is in these files.
Crossed(s) == \E i \in EntryFiles : s[i] # Absent /\ s[i].state = "DispatchCrossed"

Holds(s, e) == e # Absent /\ \E i \in EntryFiles : s[i] = e

Claims(s) == (ran \/ cleared => Crossed(s)) /\ \A e \in atold : Holds(s, e)

AttemptDirOK ==
    /\ adir \in Seq(Chains) /\ adir # <<>>
    /\ \A image \in Images(adir) : ChainOK(image) /\ Extends(image, Durable(adir))

\* The entry in progress goes to a free place and continues the chain.
AttemptCallOK ==
    \/ acall = NoWrite
    \/ /\ acall = [phase |-> "write", file |-> acall.file, entry |-> acall.entry]
       /\ acall.file \in EntryFiles /\ acall.entry \in AttemptEntry
       /\ Seen(adir)[acall.file] = Absent
       /\ ChainOK(Replaced(Seen(adir), acall.file, acall.entry))
    \/ /\ acall = [phase |-> "sync", file |-> acall.file, entry |-> acall.entry]
       /\ acall.file \in EntryFiles /\ acall.entry \in AttemptEntry
       /\ Seen(adir)[acall.file] = acall.entry

ClaimsOK ==
    /\ deadCalls \in Nat /\ powerFailures \in Nat
    /\ deadCalls = 0 /\ acall.phase # "sync" => Seen(adir) = Durable(adir)
    /\ deadCalls = 0 => Claims(Durable(adir))
    /\ powerFailures = 0 => Claims(Seen(adir))

AttemptInv == AttemptDirOK /\ AttemptCallOK /\ ClaimsOK

-----------------------------------------------------------------------------
(* Chains.                                                                     *)

\* read_chain reads such a chain and finds its length.
LEMMA ChainReads ==
    ASSUME NEW s, ChainOK(s)
    PROVE  /\ Length(s) \in 0..3 /\ Length(s) <= MaxEntries
           /\ \A i \in EntryFiles : s[i] # Absent <=> i <= Length(s)
           /\ ChainValid(s)
<1> DEFINE There(i) == i <= MaxEntries /\ s[i] # Absent
           m == IF There(3) THEN 3 ELSE IF There(2) THEN 2 ELSE IF There(1) THEN 1 ELSE 0
           Is(n) == /\ \A i \in 1..n : s[i] # Absent
                    /\ n < MaxEntries => s[n + 1] = Absent
<1>1. \A e \in AttemptEntry : e # Absent
  BY NoFileAssumption
<1>2. There(2) => There(1)
  BY SMTT(60), <1>1, EntriesAssumption DEF ChainOK, EntryFiles, SecondEntry, AttemptEntry
<1>3. There(3) => There(2)
  BY SMTT(60), <1>1, EntriesAssumption DEF ChainOK, EntryFiles, ThirdEntry, AttemptEntry
<1>4. /\ m \in 0..3 /\ m <= MaxEntries
      /\ \A i \in EntryFiles : s[i] # Absent <=> i <= m
  BY SMTT(60), <1>2, <1>3, EntriesAssumption DEF ChainOK, EntryFiles
<1> HIDE DEF m
<1>5. m \in 0..MaxEntries /\ Is(m)
  BY SMTT(60), <1>4, EntriesAssumption DEF EntryFiles
<1>6. \A n \in 0..MaxEntries : Is(n) => n = m
  BY SMTT(60), <1>4, EntriesAssumption DEF EntryFiles
<1>7. Length(s) = m
  BY <1>5, <1>6 DEF Length
<1>8. \A i \in EntryFiles : s[i] # Absent => ValidEntry(s[i])
  BY SMTT(60) DEF ChainOK, ValidEntry, FirstEntry, SecondEntry, NoEvidence, NoEntry
<1>9. ASSUME NEW i \in 2..m
      PROVE  s[i].pred = s[i - 1] /\ IsValidTransition(s[i - 1].state, s[i].state)
  <2>1. i \in EntryFiles /\ s[i] # Absent
    BY SMTT(60), <1>4, EntriesAssumption DEF EntryFiles
  <2>2. CASE i = 2
    BY SMTT(60), <2>1, <2>2 DEF ChainOK, SecondEntry, FirstEntry, IsValidTransition
  <2>3. CASE i = 3
    BY SMTT(60), <2>1, <2>3 DEF ChainOK, ThirdEntry, IsValidTransition
  <2> QED
    BY SMTT(60), <1>4, <2>2, <2>3
<1>10. \A i \in EntryFiles : i > m => s[i] = Absent
  BY SMTT(60), <1>4 DEF EntryFiles
<1>11. ChainValid(s)
  BY <1>7, <1>8, <1>9, <1>10 DEF ChainValid
<1> QED
  BY <1>4, <1>7, <1>11

\* The last entry of a chain, by its state.
LEMMA CurrentEntry ==
    ASSUME NEW s, ChainOK(s)
    PROVE  /\ Length(s) > 0 => Current(s) \in AttemptEntry /\ Holds(s, Current(s))
           /\ Current(s) \in AttemptEntry => Length(s) > 0
           /\ Current(s).state = "Prepared" =>
                  Length(s) = 1 /\ Current(s) = s[1] /\ s[1] \in FirstEntry
           /\ Current(s).state = "DispatchCrossed" =>
                  Length(s) = 2 /\ Current(s) = s[2] /\ s[2] \in SecondEntry
<1> DEFINE n == Length(s)
<1>1. n \in 0..3 /\ n <= MaxEntries /\ \A i \in EntryFiles : s[i] # Absent <=> i <= n
  BY ChainReads
<1>2. CASE n = 0
  <2>1. Current(s) = NoEntry
    BY <1>2 DEF Current
  <2>2. NoEntry.state = "none" /\ NoEntry \notin AttemptEntry
    BY DEF NoEntry, AttemptEntry, FirstEntry, SecondEntry, ThirdEntry
  <2> QED
    BY SMTT(60), <1>2, <2>1, <2>2
<1>3. CASE n > 0
  <2>1. Current(s) = s[n] /\ n \in EntryFiles /\ s[n] # Absent
    BY SMTT(60), <1>1, <1>3, EntriesAssumption DEF Current, EntryFiles
  <2>2. s[n] \in AttemptEntry
    BY <2>1 DEF ChainOK, AttemptEntry
  <2>3. Holds(s, s[n])
    BY <2>1 DEF Holds
  <2>4. \/ n = 1 /\ s[n] \in FirstEntry
        \/ n = 2 /\ s[n] \in SecondEntry
        \/ n = 3 /\ s[n] \in ThirdEntry
    BY <2>1 DEF ChainOK
  <2>5. s[n].state = "Prepared" => n = 1 /\ s[1] \in FirstEntry
    BY <2>4 DEF SecondEntry, ThirdEntry
  <2>6. s[n].state = "DispatchCrossed" => n = 2 /\ s[2] \in SecondEntry
    BY <2>4 DEF FirstEntry, ThirdEntry
  <2> QED
    BY <1>3, <2>1, <2>2, <2>3, <2>5, <2>6
<1> QED
  BY SMTT(60), <1>1, <1>2, <1>3

\* Appending the next entry of an attempt makes a chain again.
LEMMA NextEntry ==
    ASSUME NEW s, ChainOK(s), NEW e, Length(s) + 1 <= MaxEntries,
           \/ Length(s) = 0 /\ e \in FirstEntry
           \/ Length(s) = 1 /\ e \in SecondEntry /\ e.pred = s[1]
           \/ /\ Length(s) = 2 /\ e \in ThirdEntry /\ e.pred = s[2]
              /\ s[2].state = "DispatchCrossed" /\ ValidEntry(e)
    PROVE  /\ Length(s) + 1 \in EntryFiles /\ s[Length(s) + 1] = Absent
           /\ e \in AttemptEntry /\ ChainOK(Replaced(s, Length(s) + 1, e))
<1> DEFINE n == Length(s) + 1
           t == Replaced(s, n, e)
<1>1. /\ Length(s) \in 0..3
      /\ \A i \in EntryFiles : s[i] # Absent <=> i <= Length(s)
  BY ChainReads
<1>2. n \in EntryFiles /\ s[n] = Absent /\ n \in 1..3
  BY SMTT(60), <1>1, EntriesAssumption DEF EntryFiles
<1>3. e \in AttemptEntry
  BY DEF AttemptEntry
<1>4. /\ t \in Chains /\ t[n] = e
      /\ \A i \in EntryFiles : i # n => t[i] = s[i]
  BY <1>2, <1>3 DEF Replaced, ChainOK, Chains
<1> HIDE DEF t
<1>5. n = 2 => t[1] = s[1]
  BY SMTT(60), <1>2, <1>4, EntriesAssumption DEF EntryFiles
<1>6. n = 3 => t[2] = s[2] /\ t[1] = s[1]
  BY SMTT(60), <1>2, <1>4, EntriesAssumption DEF EntryFiles
<1>7. ASSUME NEW i \in EntryFiles, t[i] # Absent
      PROVE  \/ i = 1 /\ t[i] \in FirstEntry
             \/ i = 2 /\ t[i] \in SecondEntry /\ t[i].pred = t[1]
             \/ /\ i = 3 /\ t[i] \in ThirdEntry /\ t[i].pred = t[2]
                /\ t[2].state = "DispatchCrossed" /\ ValidEntry(t[i])
  <2>1. CASE i = n
    BY SMTT(60), <1>1, <1>4, <1>5, <1>6, <2>1
  <2>2. CASE i # n
    <3>1. t[i] = s[i] /\ i < n
      BY SMTT(60), <1>1, <1>4, <1>7, <2>2 DEF EntryFiles
    <3>2. \A j \in 1..2 : j < i => t[j] = s[j]
      BY SMTT(60), <1>2, <1>4, <3>1, EntriesAssumption DEF EntryFiles
    <3> QED
      BY SMTT(60), <1>7, <3>1, <3>2 DEF ChainOK
  <2> QED
    BY <2>1, <2>2
<1>8. ChainOK(t)
  BY <1>4, <1>7 DEF ChainOK
<1> QED
  BY <1>2, <1>3, <1>8 DEF t

-----------------------------------------------------------------------------
(* The invariant.                                                              *)

\* Claims of a chain are claims of any chain that extends it.
LEMMA ClaimsExtend ==
    ASSUME NEW s, NEW t, Extends(t, s), Claims(s)
    PROVE  Claims(t)
<1>1. Crossed(s) => Crossed(t)
  BY DEF Crossed, Extends
<1>2. \A e : Holds(s, e) => Holds(t, e)
  BY DEF Holds, Extends
<1> QED
  BY <1>1, <1>2 DEF Claims

\* The newest files and the durable ones are chains.
LEMMA SeenChain ==
    ASSUME AttemptDirOK
    PROVE  /\ ChainOK(Seen(adir)) /\ ChainOK(Durable(adir)) /\ Seen(adir) \in Images(adir)
           /\ Extends(Seen(adir), Durable(adir))
  BY ImagesHold DEF AttemptDirOK

\* An entry that is in the files may be returned.
LEMMA ReturnedClaims ==
    ASSUME NEW s, NEW entry, Claims(s), Holds(s, entry), Returned(entry), UNCHANGED ran
    PROVE  (ran' \/ cleared' => Crossed(s)) /\ \A e \in atold' : Holds(s, e)
<1>1. entry.state = "DispatchCrossed" => Crossed(s)
  BY DEF Holds, Crossed
<1>2. atold' = atold \/ atold' = atold \cup {entry}
  BY DEF Returned
<1>3. cleared' => cleared \/ entry.state = "DispatchCrossed"
  BY DEF Returned
<1> QED
  BY <1>1, <1>2, <1>3 DEF Claims

\* An empty journal is a chain of no entries, and nothing was told.
LEMMA InitAttempt == AttemptInit => AttemptInv
<1> SUFFICES ASSUME AttemptInit PROVE AttemptInv
  OBVIOUS
<1> DEFINE x == [f \in EntryFiles |-> Absent]
<1>1. x \in Chains /\ \A i \in EntryFiles : x[i] = Absent
  BY DEF Chains
<1> HIDE DEF x
<1>2. adir = <<x>>
  BY DEF AttemptInit, Empty, x
<1>3. adir \in Seq(Chains) /\ adir # <<>> /\ Images(adir) = {x} /\ Seen(adir) = x
      /\ Durable(adir) = x
  BY <1>1, <1>2, ImagesOne
<1>4. ChainOK(x) /\ Extends(x, x)
  BY <1>1 DEF ChainOK, Extends
<1>5. AttemptDirOK
  BY <1>3, <1>4 DEF AttemptDirOK
<1>6. Claims(x)
  BY DEF AttemptInit, Claims
<1> QED
  BY <1>3, <1>5, <1>6 DEF AttemptInv, AttemptCallOK, ClaimsOK, AttemptInit

-----------------------------------------------------------------------------
(* The calls.                                                                  *)

\* A call that goes on to write the next entry disturbs nothing yet.
LEMMA WritingStep ==
    ASSUME AttemptInv, Free, NEW n \in EntryFiles, NEW e \in AttemptEntry,
           Seen(adir)[n] = Absent, ChainOK(Replaced(Seen(adir), n, e)), Writing(n, e)
    PROVE  AttemptInv'
<1>1. acall' = [phase |-> "write", file |-> n, entry |-> e] /\ adir' = adir
  BY DEF Writing
<1>2. AttemptDirOK'
  BY <1>1 DEF AttemptInv, AttemptDirOK
<1>3. AttemptCallOK'
  BY <1>1 DEF AttemptCallOK
<1>4. acall.phase # "sync" /\ UNCHANGED <<adir, cleared, ran, atold, deadCalls, powerFailures>>
  BY DEF Free, NoWrite, Writing
<1>5. Claims(Seen(adir))' = Claims(Seen(adir)) /\ Claims(Durable(adir))' = Claims(Durable(adir))
  BY <1>4 DEF Claims
<1>6. ClaimsOK'
  BY <1>4, <1>5 DEF AttemptInv, ClaimsOK
<1> QED
  BY <1>2, <1>3, <1>6 DEF AttemptInv

\* A call may answer with any entry it finds.
LEMMA RepliedStep ==
    ASSUME AttemptInv, Free, NEW e, Holds(Seen(adir), e), Replied(e)
    PROVE  AttemptInv'
<1> DEFINE s == Seen(adir)
           d == Durable(adir)
<1>1. UNCHANGED <<adir, acall, ran, deadCalls, powerFailures>> /\ Returned(e)
  BY DEF Replied
<1>2. AttemptDirOK' /\ AttemptCallOK'
  BY <1>1 DEF AttemptInv, AttemptDirOK, AttemptCallOK
<1>3. acall.phase # "sync"
  BY DEF Free, NoWrite
<1>4. deadCalls = 0 => (ran' \/ cleared' => Crossed(d)) /\ \A x \in atold' : Holds(d, x)
  BY <1>1, <1>3, ReturnedClaims DEF AttemptInv, ClaimsOK
<1>5. powerFailures = 0 => (ran' \/ cleared' => Crossed(s)) /\ \A x \in atold' : Holds(s, x)
  BY <1>1, ReturnedClaims DEF AttemptInv, ClaimsOK
<1>6. ClaimsOK'
  BY <1>1, <1>3, <1>4, <1>5 DEF AttemptInv, ClaimsOK, Claims
<1> QED
  BY <1>2, <1>6 DEF AttemptInv

\* The next entry of the chain that is seen may be written.
LEMMA AppendStep ==
    ASSUME AttemptInv, Free, NEW n, n = Length(Seen(adir)) + 1, NEW e, Writing(n, e),
           \/ n = 1 /\ e \in FirstEntry
           \/ n = 2 /\ e \in SecondEntry /\ e.pred = Seen(adir)[1]
           \/ /\ n = 3 /\ e \in ThirdEntry /\ e.pred = Seen(adir)[2]
              /\ Seen(adir)[2].state = "DispatchCrossed" /\ ValidEntry(e)
    PROVE  AttemptInv'
<1> DEFINE s == Seen(adir)
<1>1. ChainOK(s)
  BY SeenChain DEF AttemptInv
<1>2. Length(s) \in 0..3 /\ n <= MaxEntries
  BY <1>1, ChainReads DEF Writing
<1>3. \/ Length(s) = 0 /\ e \in FirstEntry
      \/ Length(s) = 1 /\ e \in SecondEntry /\ e.pred = s[1]
      \/ /\ Length(s) = 2 /\ e \in ThirdEntry /\ e.pred = s[2]
         /\ s[2].state = "DispatchCrossed" /\ ValidEntry(e)
  BY SMTT(60), <1>2
<1>4. n \in EntryFiles /\ s[n] = Absent /\ e \in AttemptEntry /\ ChainOK(Replaced(s, n, e))
  BY <1>1, <1>2, <1>3, NextEntry
<1> QED
  BY <1>4, WritingStep

\* The entries that may follow the first one.
LEMMA SecondFits ==
    ASSUME NEW state \in {"DispatchCrossed", "Aborted", "SafeToRetry"},
           NEW b \in Attempts, NEW pred \in FirstEntry
    PROVE  /\ Entry(state, b, pred, NoEvidence) \in SecondEntry
           /\ Entry(state, b, pred, NoEvidence).pred = pred
  BY SMTT(60) DEF Entry, SecondEntry

\* The entries that may follow the second one.
LEMMA ThirdFits ==
    ASSUME NEW state \in {"Succeeded", "Failed", "Indeterminate"},
           NEW b \in Attempts, NEW pred \in SecondEntry, NEW evidence \in Evidences \cup {NoEvidence}
    PROVE  /\ Entry(state, b, pred, evidence) \in ThirdEntry
           /\ Entry(state, b, pred, evidence).pred = pred
  BY SMTT(60) DEF Entry, ThirdEntry

\* An entry is of one of the attempts.
LEMMA EntryBinding ==
    ASSUME NEW x \in FirstEntry \cup SecondEntry PROVE x.binding \in Attempts
  BY DEF FirstEntry, SecondEntry

\* prepare_attempt, mark_dispatch_crossed, mark_terminal, abort_attempt and
\* recover_attempt append the entry that is due, or answer with the last one.
LEMMA AttemptCallsStep ==
    ASSUME AttemptInv,
           \/ \E b \in Attempts :
                  \/ PrepareAttempt(b)
                  \/ \E e \in Evidences \cup {NoEvidence} : RecoverAttempt(b, e)
           \/ \E held \in Held :
                  \/ MarkDispatchCrossed(held) \/ AbortAttempt(held)
                  \/ \E e \in Evidences : MarkTerminal(held, "Succeeded", e)
                  \/ \E e \in Evidences : MarkTerminal(held, "Failed", e)
                  \/ MarkTerminal(held, "Indeterminate", NoEvidence)
    PROVE  AttemptInv'
<1> DEFINE s == Seen(adir)
           now == Current(s)
<1>1. ChainOK(s)
  BY SeenChain DEF AttemptInv
<1>2. /\ Length(s) \in 0..3
      /\ Length(s) > 0 => now \in AttemptEntry /\ Holds(s, now)
      /\ now \in AttemptEntry => Length(s) > 0
      /\ now.state = "Prepared" => Length(s) = 1 /\ now = s[1] /\ s[1] \in FirstEntry
      /\ now.state = "DispatchCrossed" => Length(s) = 2 /\ now = s[2] /\ s[2] \in SecondEntry
  BY <1>1, ChainReads, CurrentEntry
<1>3. now.state # "none" => Length(s) > 0
  BY SMTT(60), <1>2 DEF Current, NoEntry
<1>4. ASSUME NEW b \in Attempts, PrepareAttempt(b)
      PROVE  AttemptInv'
  <2> DEFINE e == Entry("Prepared", b, NoEntry, NoEvidence)
  <2>1. Free /\ Length(s) = 0 /\ Writing(1, e)
    BY <1>4 DEF PrepareAttempt
  <2>2. e \in FirstEntry
    BY DEF Entry, FirstEntry
  <2> QED
    BY SMTT(60), <2>1, <2>2, AppendStep
<1>5. ASSUME NEW held, MarkDispatchCrossed(held)
      PROVE  AttemptInv'
  <2> DEFINE e == Entry("DispatchCrossed", held.binding, held, NoEvidence)
  <2>1. CASE now = held /\ held.state = "Prepared" /\ Writing(Length(s) + 1, e)
    <3>1. held = s[1] /\ held \in FirstEntry /\ Length(s) = 1
      BY <1>2, <2>1
    <3>2. e \in SecondEntry /\ e.pred = s[1]
      BY <3>1, SecondFits, EntryBinding
    <3>3. Length(s) + 1 = 2
      BY SMTT(60), <3>1
    <3> QED
      BY <1>5, <2>1, <3>2, <3>3, AppendStep DEF MarkDispatchCrossed
  <2>2. CASE now.state = "DispatchCrossed" /\ Replied(now)
    BY SMTT(60), <1>2, <1>5, <2>2, RepliedStep DEF MarkDispatchCrossed
  <2> QED
    BY <1>5, <2>1, <2>2 DEF MarkDispatchCrossed
<1>6. ASSUME NEW held, AbortAttempt(held)
      PROVE  AttemptInv'
  <2> DEFINE e == Entry("Aborted", held.binding, held, NoEvidence)
  <2>1. CASE now = held /\ held.state = "Prepared" /\ Writing(Length(s) + 1, e)
    <3>1. held = s[1] /\ held \in FirstEntry /\ Length(s) = 1
      BY <1>2, <2>1
    <3>2. e \in SecondEntry /\ e.pred = s[1]
      BY <3>1, SecondFits, EntryBinding
    <3>3. Length(s) + 1 = 2
      BY SMTT(60), <3>1
    <3> QED
      BY <1>6, <2>1, <3>2, <3>3, AppendStep DEF AbortAttempt
  <2>2. CASE now = e /\ Replied(e)
    <3>1. e.state # "none"
      BY DEF Entry
    <3> QED
      BY <1>2, <1>3, <1>6, <2>2, <3>1, RepliedStep DEF AbortAttempt
  <2> QED
    BY <1>6, <2>1, <2>2 DEF AbortAttempt
<1>7. ASSUME NEW held, NEW state \in {"Succeeded", "Failed", "Indeterminate"},
             NEW evidence \in Evidences \cup {NoEvidence}, MarkTerminal(held, state, evidence)
      PROVE  AttemptInv'
  <2> DEFINE e == Entry(state, held.binding, held, evidence)
  <2>1. CASE now = held /\ held.state = "DispatchCrossed" /\ Writing(Length(s) + 1, e)
    <3>1. held = s[2] /\ held \in SecondEntry /\ Length(s) = 2
      BY <1>2, <2>1
    <3>2. e \in ThirdEntry /\ e.pred = s[2] /\ s[2].state = "DispatchCrossed"
      <4>1. held.binding \in Attempts
        BY <3>1, EntryBinding
      <4>2. e \in ThirdEntry /\ e.pred = held
        BY <3>1, <4>1, ThirdFits
      <4> QED
        BY <2>1, <3>1, <4>2
    <3>3. Length(s) + 1 = 3
      BY SMTT(60), <3>1
    <3>4. ValidEntry(e)
      BY <1>7 DEF MarkTerminal
    <3> QED
      BY <1>7, <2>1, <3>2, <3>3, <3>4, AppendStep DEF MarkTerminal
  <2>2. CASE now = e /\ Replied(e)
    <3>1. e.state # "none"
      BY DEF Entry
    <3> QED
      BY <1>2, <1>3, <1>7, <2>2, <3>1, RepliedStep DEF MarkTerminal
  <2> QED
    BY <1>7, <2>1, <2>2 DEF MarkTerminal
<1>8. ASSUME NEW b \in Attempts, NEW evidence \in Evidences \cup {NoEvidence},
             RecoverAttempt(b, evidence)
      PROVE  AttemptInv'
  <2> DEFINE state == IF evidence.kind = "completion" THEN "Succeeded"
                      ELSE IF evidence.kind = "failure" THEN "Failed"
                      ELSE "Indeterminate"
  <2>1. Free /\ Length(s) > 0
    BY <1>8 DEF RecoverAttempt
  <2>2. CASE IsTerminal(now.state)
    BY <1>2, <1>8, <2>1, <2>2, RepliedStep DEF RecoverAttempt
  <2>3. CASE now.state = "Prepared"
    <3> DEFINE e == Entry("SafeToRetry", b, now, NoEvidence)
    <3>1. now = s[1] /\ now \in FirstEntry /\ Length(s) = 1
      BY <1>2, <2>3
    <3>2. e \in SecondEntry /\ e.pred = s[1]
      BY <3>1, SecondFits
    <3>3. Length(s) + 1 = 2
      BY SMTT(60), <3>1
    <3>4. Writing(Length(s) + 1, e)
      BY <1>8, <2>3 DEF RecoverAttempt, IsTerminal
    <3> QED
      BY <2>1, <3>2, <3>3, <3>4, AppendStep
  <2>4. CASE now.state = "DispatchCrossed"
    <3> DEFINE e == Entry(state, b, now, evidence)
    <3>1. /\ e \in ThirdEntry /\ e.pred = s[2] /\ s[2].state = "DispatchCrossed"
          /\ Length(s) + 1 = 3
      <4>1. now = s[2] /\ now \in SecondEntry /\ Length(s) = 2
        BY <1>2, <2>4
      <4>2. state \in {"Succeeded", "Failed", "Indeterminate"}
        OBVIOUS
      <4> HIDE DEF state
      <4>3. e \in ThirdEntry /\ e.pred = s[2]
        BY <4>1, <4>2, ThirdFits
      <4>4. Length(s) + 1 = 3
        BY SMTT(60), <4>1
      <4> QED
        BY <2>4, <4>1, <4>3, <4>4
    <3>2. now # NoEntry
      BY SMTT(60), <2>4 DEF NoEntry
    <3>3. evidence.kind \in {"completion", "failure", "none"}
      BY SMTT(60), EvidenceAssumption DEF NoEvidence
    <3>4. ValidEntry(e)
      BY <3>2, <3>3 DEF Entry, ValidEntry
    <3>5. Writing(Length(s) + 1, e)
      BY <1>8, <2>4 DEF RecoverAttempt, IsTerminal
    <3> QED
      BY <2>1, <3>1, <3>4, <3>5, AppendStep
  <2> QED
    BY <2>2, <2>3, <2>4 DEF IsTerminal
<1> QED
  BY <1>4, <1>5, <1>6, <1>7, <1>8

-----------------------------------------------------------------------------
(* The write, and what fails.                                                  *)

\* write_once_entry renames the entry in: the chain grows by it.
LEMMA WriteOnceStep ==
    ASSUME AttemptInv, WriteOnceEntry
    PROVE  AttemptInv'
<1> DEFINE s == Seen(adir)
           f == acall.file
           e == acall.entry
           n == Replaced(s, f, e)
<1>1. /\ acall = [phase |-> "write", file |-> f, entry |-> e]
      /\ f \in EntryFiles /\ e \in AttemptEntry /\ s[f] = Absent /\ ChainOK(n)
  BY SMTT(60) DEF AttemptInv, AttemptCallOK, NoWrite, WriteOnceEntry
<1>2. /\ adir' = Renamed(adir, f, e)
      /\ acall' = [acall EXCEPT !.phase = "sync"]
      /\ UNCHANGED <<cleared, atold, ran, deadCalls, powerFailures>>
  BY <1>1 DEF WriteOnceEntry
<1>3. acall' = [phase |-> "sync", file |-> f, entry |-> e]
  BY <1>1, <1>2
<1>4. ChainOK(s) /\ Extends(s, Durable(adir)) /\ s \in Chains
  BY SeenChain DEF AttemptInv, ChainOK
<1>5. n[f] = e /\ Extends(n, s)
  BY <1>1, <1>4 DEF Replaced, Extends, Chains
<1>6. Extends(n, Durable(adir))
  BY <1>4, <1>5 DEF Extends
<1>7. n \in Chains
  BY <1>1 DEF ChainOK
<1> HIDE DEF n
<1>8. /\ adir' \in Seq(Chains) /\ adir' # <<>> /\ Images(adir') = Images(adir) \cup {n}
      /\ Seen(adir') = n /\ Durable(adir') = Durable(adir)
  BY SMTT(60), <1>2, <1>7, ImagesRenamed DEF AttemptInv, AttemptDirOK, n
<1>9. AttemptDirOK'
  BY <1>1, <1>6, <1>8 DEF AttemptInv, AttemptDirOK
<1>10. AttemptCallOK'
  BY <1>1, <1>3, <1>5, <1>8 DEF AttemptCallOK
<1>11. Claims(s) => Claims(n)
  BY <1>5, ClaimsExtend
<1>12. ClaimsOK'
  BY <1>2, <1>3, <1>8, <1>11 DEF AttemptInv, ClaimsOK, Claims
<1> QED
  BY <1>9, <1>10, <1>12 DEF AttemptInv

\* The sync makes what is seen durable before the entry is returned.
LEMMA SyncEntryStep ==
    ASSUME AttemptInv, SyncEntry
    PROVE  AttemptInv'
<1> DEFINE s == Seen(adir)
           e == acall.entry
<1>1. acall.file \in EntryFiles /\ e \in AttemptEntry /\ s[acall.file] = e
  BY SMTT(60) DEF AttemptInv, AttemptCallOK, NoWrite, SyncEntry
<1>2. /\ adir' = <<s>> /\ acall' = NoWrite /\ Returned(e)
      /\ UNCHANGED <<ran, deadCalls, powerFailures>>
  BY DEF SyncEntry, Synced
<1>3. ChainOK(s) /\ Extends(s, Durable(adir)) /\ s \in Chains
  BY SeenChain DEF AttemptInv, ChainOK
<1>4. Holds(s, e)
  BY <1>1, NoFileAssumption DEF Holds
<1>5. deadCalls = 0 \/ powerFailures = 0 => Claims(s)
  BY <1>3, ClaimsExtend DEF AttemptInv, ClaimsOK
<1>6. deadCalls = 0 \/ powerFailures = 0
          => (ran' \/ cleared' => Crossed(s)) /\ \A x \in atold' : Holds(s, x)
  BY <1>2, <1>4, <1>5, ReturnedClaims
<1> HIDE DEF s
<1>7. /\ adir' \in Seq(Chains) /\ adir' # <<>> /\ Images(adir') = {s}
      /\ Seen(adir') = s /\ Durable(adir') = s
  BY <1>2, <1>3, ImagesOne
<1>8. AttemptDirOK'
  BY <1>3, <1>7 DEF AttemptDirOK, Extends
<1>9. AttemptCallOK'
  BY <1>2 DEF AttemptCallOK
<1>10. ClaimsOK'
  BY <1>2, <1>6, <1>7 DEF AttemptInv, ClaimsOK, Claims
<1> QED
  BY <1>8, <1>9, <1>10 DEF AttemptInv

\* The dispatch, and the death of a call, claim nothing new.
LEMMA DispatchStep ==
    ASSUME AttemptInv, Dispatch \/ CallerDies
    PROVE  AttemptInv'
<1>1. /\ UNCHANGED <<adir, atold, powerFailures>>
      /\ ran' \/ cleared' => ran \/ cleared
      /\ acall' = NoWrite
  BY SMTT(60) DEF Dispatch, CallerDies, Free
<1>2. /\ deadCalls' \in Nat /\ (deadCalls' = 0 => deadCalls = 0 /\ acall = NoWrite)
  BY SMTT(60) DEF Dispatch, CallerDies, AttemptInv, ClaimsOK, Free
<1>3. AttemptDirOK' /\ AttemptCallOK'
  BY <1>1 DEF AttemptInv, AttemptDirOK, AttemptCallOK
<1>4. ClaimsOK'
  BY <1>1, <1>2 DEF AttemptInv, ClaimsOK, Claims, NoWrite
<1> QED
  BY <1>3, <1>4 DEF AttemptInv

\* A power failure leaves one of the images, which extends what was durable.
LEMMA PowerFailsStep ==
    ASSUME AttemptInv, PowerFails
    PROVE  AttemptInv'
<1>1. PICK image \in Images(adir) : adir' = <<image>>
  BY DEF PowerFails
<1>2. ChainOK(image) /\ Extends(image, Durable(adir)) /\ image \in Chains
  BY <1>1 DEF AttemptInv, AttemptDirOK, ChainOK
<1>3. /\ adir' \in Seq(Chains) /\ adir' # <<>> /\ Images(adir') = {image}
      /\ Seen(adir') = image /\ Durable(adir') = image
  BY <1>1, <1>2, ImagesOne
<1>4. /\ acall' = NoWrite /\ cleared' = FALSE /\ UNCHANGED <<ran, atold, deadCalls>>
      /\ powerFailures' \in Nat /\ powerFailures' # 0
  BY SMTT(60) DEF PowerFails, AttemptInv, ClaimsOK
<1>5. AttemptDirOK'
  BY <1>2, <1>3 DEF AttemptDirOK, Extends
<1>6. AttemptCallOK'
  BY <1>4 DEF AttemptCallOK
<1>7. deadCalls = 0 => Claims(image)
  BY <1>2, ClaimsExtend DEF AttemptInv, ClaimsOK
<1>8. ClaimsOK'
  BY <1>3, <1>4, <1>7 DEF AttemptInv, ClaimsOK, Claims
<1> QED
  BY <1>5, <1>6, <1>8 DEF AttemptInv

-----------------------------------------------------------------------------
\* For any attempts, evidence, failures and deadCalls: the journal is always a
\* readable chain, and unless calls die and the power fails too, an effect that
\* may have run has crossed and a terminal that was told stays told.
THEOREM AttemptsAreAtMostOnceHolds == AttemptSpec => []AttemptsAreAtMostOnce
<1>1. AttemptInit => AttemptInv
  BY InitAttempt
<1>2. AttemptInv /\ [AttemptNext]_attemptVars => AttemptInv'
  <2> SUFFICES ASSUME AttemptInv, [AttemptNext]_attemptVars PROVE AttemptInv'
    OBVIOUS
  <2>1. CASE UNCHANGED attemptVars
    BY <2>1
      DEF attemptVars, AttemptInv, AttemptDirOK, AttemptCallOK, ClaimsOK, Claims
  <2>2. CASE AttemptNext
    BY <2>2, AttemptCallsStep, WriteOnceStep, SyncEntryStep, DispatchStep, PowerFailsStep
       DEF AttemptNext
  <2> QED
    BY <2>1, <2>2
<1>3. AttemptInv => AttemptsAreAtMostOnce
  <2> SUFFICES ASSUME AttemptInv PROVE AttemptsAreAtMostOnce
    OBVIOUS
  <2> DEFINE s == Seen(adir)
  <2>1. ChainOK(s) /\ Extends(s, Durable(adir)) /\ ChainValid(s)
    BY SeenChain, ChainReads DEF AttemptInv
  <2>2. deadCalls = 0 \/ powerFailures = 0 => Claims(s)
    BY <2>1, ClaimsExtend DEF AttemptInv, ClaimsOK
  <2>3. Claims(s) => RetryIsSafe /\ ToldTerminalsStay
    BY DEF Claims, Crossed, Holds, RetryIsSafe, ToldTerminalsStay
  <2> QED
    BY <2>1, <2>2, <2>3 DEF AttemptsAreAtMostOnce
<1> QED
  BY <1>1, <1>2, <1>3, PTL DEF AttemptSpec
=============================================================================

---------------------------- MODULE LogProofs -------------------------------
(* The logs of a session.  Its write-ahead log loses no acknowledged record    *)
(* over any sequence of kills, rotations and snapshots, and its event log      *)
(* links usage once and expands exactly what it is asked for.                  *)
EXTENDS SessionWal, EventLog, FiniteSetTheorems, TLAPS

(* A leaf is for Zenon unless it names SMT. *)
USE ZenonT(60)

-----------------------------------------------------------------------------
(* The write-ahead log of a session.                                        *)

WalRecords == 1..MaxRecords

\* The frames that are in some segment.
Kept == Range(active) \cup UNION {Range(sealed[g]) : g \in DOMAIN sealed}

WalCalls ==
    {Running, Down, [op |-> "republish"]}
    \cup [op : {"write"}, record : WalRecords]
    \cup [op : {"rotate"}, gen : 0..MaxSealed - 1, record : WalRecords]
    \cup [op : {"clear"}, gen : 0..MaxSealed]

WalTypes ==
    /\ snap \subseteq WalRecords /\ mem \subseteq WalRecords /\ wacked \subseteq WalRecords
    /\ wcall \in WalCalls
    /\ active \in Seq(WalRecords \cup {Torn}) /\ Len(active) <= SegmentLimit
    /\ DOMAIN sealed \subseteq 1..MaxSealed
    /\ \A g \in DOMAIN sealed : sealed[g] \in Seq(WalRecords) /\ Len(sealed[g]) <= SegmentLimit

TornIsLast ==
    /\ \A j \in DOMAIN active : active[j] = Torn => j = Len(active)
    /\ wcall.op \in {"running", "write", "rotate"} => \A j \in DOMAIN active : active[j] # Torn
    /\ wcall.op = "write" => Len(active) < SegmentLimit
    /\ wcall.op = "clear" /\ wcall.gen > 0 => active = << >>

WalInv ==
    /\ WalTypes
    /\ TornIsLast
    /\ wcall # Down => wacked \subseteq mem
    /\ wcall.op = "clear" => snap = mem
    /\ wcall.op = "rotate" => wcall.gen + 1 \notin DOMAIN sealed
    /\ wacked \subseteq snap \cup Kept

-----------------------------------------------------------------------------
\* replay reads every segment: they hold what max_replay_bytes allows.
LEMMA ReplayReadsAll ==
    ASSUME WalTypes
    PROVE  Replay = [places    |-> Decoded(Places(MaxSealed + 1)),
                     truncated |-> Decoded(Places(MaxSealed + 1)) # Places(MaxSealed + 1)]
<1> DEFINE N == MaxSealed + 1
           P == Places(N)
           Fits == {k \in 0..MaxSealed + 1 : Cardinality(Places(k)) <= MaxReplay}
<1>1. N \in Nat /\ SegmentLimit \in Nat /\ MaxReplay \in Nat /\ N * SegmentLimit <= MaxReplay
  BY WalConfig, SMTT(60)
<1>2. \A i \in 1..N : DOMAIN Segment(i) \subseteq 1..SegmentLimit
  BY <1>1, WalConfig, SMTT(60) DEF WalTypes, Segment
<1>3. P \subseteq (1..N) \X (1..SegmentLimit)
  BY <1>2, SMTT(60) DEF Places
<1>4. /\ IsFiniteSet((1..N) \X (1..SegmentLimit))
      /\ Cardinality((1..N) \X (1..SegmentLimit)) = N * SegmentLimit
  <2>1. /\ IsFiniteSet(1..N) /\ Cardinality(1..N) = N
        /\ IsFiniteSet(1..SegmentLimit) /\ Cardinality(1..SegmentLimit) = SegmentLimit
    <3> HIDE DEF N
    <3>1. \A n \in Nat : IsFiniteSet(1..n) /\ Cardinality(1..n) = n
      <4> TAKE n \in Nat
      <4>1. 1 \in Int /\ n \in Int /\ (IF 1 > n THEN 0 ELSE n - 1 + 1) = n
        BY SMTT(60)
      <4> QED
        BY <4>1, FS_Interval
    <3> QED
      BY <1>1, <3>1
  <2> HIDE DEF N
  <2>2. Cardinality((1..N) \X (1..SegmentLimit)) = Cardinality(1..N) * Cardinality(1..SegmentLimit)
    BY <2>1, FS_Product
  <2>3. IsFiniteSet((1..N) \X (1..SegmentLimit))
    BY <2>1, FS_Product
  <2> QED
    BY <2>1, <2>2, <2>3
<1>5. Cardinality(P) <= N * SegmentLimit /\ IsFiniteSet(P)
  BY <1>3, <1>4, FS_Subset
<1>6. Cardinality(P) <= MaxReplay
  <2>1. Cardinality(P) \in Nat
    BY <1>5, FS_CardinalityType
  <2> HIDE DEF P, N
  <2> QED
    BY <2>1, <1>5, <1>1, SMTT(60)
<1>7. N \in Fits /\ \A k \in Fits : k \in Nat /\ k <= N
  BY <1>6, <1>1, WalConfig, SMTT(60)
<1>8. Max(Fits) = N
  <2>1. Fits \subseteq Nat /\ \A k \in Fits : N >= k
    BY <1>7, <1>1, SMTT(60)
  <2>2. \A k \in Fits : (\A l \in Fits : k >= l) => k = N
    <3> HIDE DEF Fits, N
    <3> QED
      BY <1>7, <1>1, SMTT(60)
  <2> HIDE DEF Fits, N
  <2> QED
    BY <1>7, <2>1, <2>2 DEF Max
<1>9. ~(N <= MaxSealed)
  BY WalConfig, SMTT(60)
<1> QED
  BY <1>8, <1>9 DEF Replay

\* What a restart recovers: every frame of the segments that is whole, and
\* nothing else; unless it says truncated no frame is torn.
LEMMA RestartRecovers ==
    ASSUME WalTypes, TornIsLast
    PROVE  /\ Recovered \subseteq WalRecords
           /\ snap \cup (Kept \ {Torn}) \subseteq Recovered
           /\ ~ Replay.truncated => \A j \in DOMAIN active : active[j] # Torn
<1> DEFINE N == MaxSealed + 1
           P == Places(N)
<1>1. Replay.places = Decoded(P) /\ Replay.truncated = (Decoded(P) # P)
  <2>1. Replay = [places |-> Decoded(P), truncated |-> Decoded(P) # P]
    BY ReplayReadsAll
  <2> HIDE DEF P
  <2> QED
    BY <2>1
<1>2. N \in Nat /\ N > MaxSealed /\ MaxSealed \in Nat
  BY WalConfig, SMTT(60)
<1>3. ASSUME NEW p \in P
      PROVE  /\ p[1] \in 1..N /\ p[2] \in DOMAIN Segment(p[1]) /\ p = <<p[1], p[2]>>
             /\ p[2] \in Nat
             /\ FrameAt(p) \in WalRecords \cup {Torn}
             /\ FrameAt(p) = Torn => p = <<N, Len(active)>>
  <2>1. PICK i \in 1..N : p \in {i} \X DOMAIN Segment(i)
    BY DEF Places
  <2>2. p[1] = i /\ p[2] \in DOMAIN Segment(i) /\ p = <<p[1], p[2]>>
    BY <2>1, SMTT(60)
  <2>3. CASE i > MaxSealed
    <3>1. Segment(i) = active /\ i = N
      BY <2>3, <1>2, SMTT(60) DEF Segment
    <3>2. DOMAIN active \subseteq Nat /\ \A j \in DOMAIN active : active[j] \in WalRecords \cup {Torn}
      BY SMTT(60) DEF WalTypes
    <3> QED
      BY <3>1, <3>2, <2>2 DEF FrameAt, TornIsLast
  <2>4. CASE ~(i > MaxSealed)
    <3>1. CASE MaxSealed + 1 - i \in DOMAIN sealed
      <4>1. Segment(i) = sealed[MaxSealed + 1 - i]
        BY <2>4, <3>1 DEF Segment
      <4>2. Segment(i) \in Seq(WalRecords)
        BY <4>1, <3>1 DEF WalTypes
      <4>3. /\ DOMAIN Segment(i) \subseteq Nat
            /\ \A j \in DOMAIN Segment(i) : Segment(i)[j] \in WalRecords
        BY <4>2, SMTT(60)
      <4>4. Torn \notin WalRecords
        BY WalConfig, SMTT(60) DEF Torn, WalRecords
      <4> QED
        BY <4>3, <4>4, <2>2 DEF FrameAt
    <3>2. CASE MaxSealed + 1 - i \notin DOMAIN sealed
      <4>1. Segment(i) = << >>
        BY <2>4, <3>2 DEF Segment
      <4> QED
        BY <4>1, <2>2, SMTT(60)
    <3> QED
      BY <3>1, <3>2
  <2> QED
    BY <2>3, <2>4
<1>4. \A p \in Decoded(P) : FrameAt(p) # Torn
  <2> SUFFICES ASSUME NEW p \in Decoded(P), FrameAt(p) = Torn PROVE FALSE
    OBVIOUS
  <2>1. p \in P /\ Earlier(p, p)
    BY DEF Decoded
  <2>2. p[1] \in Nat /\ p[2] \in Nat
    BY <1>3, <1>2, <2>1, SMTT(60)
  <2> QED
    BY <2>1, <2>2, SMTT(60) DEF Earlier
<1>5. \A p \in P : FrameAt(p) # Torn => p \in Decoded(P)
  <2> SUFFICES ASSUME NEW p \in P, FrameAt(p) # Torn, NEW q \in P, FrameAt(q) = Torn
               PROVE  Earlier(p, q)
    BY DEF Decoded
  <2>1. q = <<N, Len(active)>>
    BY <1>3
  <2>2. CASE p[1] = N
    <3>1. Segment(N) = active
      BY <1>2 DEF Segment
    <3>2. p[2] \in DOMAIN active
      BY <1>3, <2>2, <3>1
    <3>3. p[2] # Len(active)
      BY <2>1, <2>2, <1>3
    <3>4. p[2] < Len(active)
      BY <3>2, <3>3, SMTT(60) DEF WalTypes
    <3> QED
      BY <2>1, <2>2, <3>4 DEF Earlier
  <2>3. CASE p[1] # N
    <3>1. p[1] < N
      BY <1>3, <2>3, <1>2, SMTT(60)
    <3> QED
      BY <3>1, <2>1 DEF Earlier
  <2> QED
    BY <2>2, <2>3
<1>6. Recovered \subseteq WalRecords
  <2>1. snap \subseteq WalRecords
    BY DEF WalTypes
  <2>2. \A p \in Decoded(P) : FrameAt(p) \in WalRecords
    BY <1>3, <1>4 DEF Decoded
  <2> QED
    BY <2>1, <2>2, <1>1 DEF Recovered
<1>7. \A j \in DOMAIN active : <<N, j>> \in P /\ FrameAt(<<N, j>>) = active[j]
  <2>1. Segment(N) = active
    BY <1>2 DEF Segment
  <2>2. N \in 1..N
    BY WalConfig, SMTT(60)
  <2> QED
    BY <2>1, <2>2, SMTT(60) DEF Places, FrameAt
<1>8. ASSUME NEW g \in DOMAIN sealed
      PROVE  \A j \in DOMAIN sealed[g] : \E p \in P : FrameAt(p) = sealed[g][j]
  <2> DEFINE i == MaxSealed + 1 - g
  <2>1. i \in 1..N /\ ~(i > MaxSealed) /\ MaxSealed + 1 - i = g
    <3>1. g \in 1..MaxSealed
      BY DEF WalTypes
    <3> QED
      BY <3>1, <1>2, SMTT(60)
  <2>2. Segment(i) = sealed[g]
    BY <2>1 DEF Segment
  <2> HIDE DEF i
  <2> SUFFICES ASSUME NEW j \in DOMAIN sealed[g] PROVE \E p \in P : FrameAt(p) = sealed[g][j]
    OBVIOUS
  <2>3. <<i, j>> \in P /\ FrameAt(<<i, j>>) = sealed[g][j]
    BY <2>1, <2>2, SMTT(60) DEF Places, FrameAt
  <2> QED
    BY <2>3
<1>9. snap \cup (Kept \ {Torn}) \subseteq Recovered
  <2>1. \A r \in Kept : \E p \in P : FrameAt(p) = r
    <3>1. \A r \in Range(active) : \E p \in P : FrameAt(p) = r
      <4> HIDE DEF P
      <4> QED
        BY <1>7 DEF Range
    <3>2. ASSUME NEW g \in DOMAIN sealed, NEW r \in Range(sealed[g])
          PROVE  \E p \in P : FrameAt(p) = r
      <4> HIDE DEF P
      <4> QED
        BY <1>8 DEF Range
    <3> HIDE DEF P
    <3> QED
      BY <3>1, <3>2 DEF Kept
  <2> QED
    BY <2>1, <1>5, <1>1 DEF Recovered
<1>10. ~ Replay.truncated => \A j \in DOMAIN active : active[j] # Torn
  BY <1>1, <1>4, <1>7
<1> QED
  BY <1>6, <1>9, <1>10

\* The calls in progress, by what they are.
LEMMA CallCases ==
    ASSUME wcall \in WalCalls
    PROVE  /\ wcall.op \in {"running", "down", "republish", "write", "rotate", "clear"}
           /\ wcall.op = "running" => wcall = Running
           /\ wcall.op = "down" => wcall = Down
           /\ wcall.op = "write" => wcall.record \in WalRecords
           /\ wcall.op = "rotate" =>
                /\ wcall.gen \in 0..MaxSealed - 1 /\ wcall.record \in WalRecords
                /\ wcall = [op |-> "rotate", gen |-> wcall.gen, record |-> wcall.record]
           /\ wcall.op = "clear" =>
                wcall.gen \in 0..MaxSealed /\ wcall = [op |-> "clear", gen |-> wcall.gen]
  BY SMTT(60) DEF WalCalls, Running, Down

\* The names of the calls that carry nothing.
LEMMA BareCalls ==
    /\ Running.op = "running" /\ Down.op = "down" /\ Running # Down
    /\ {Running, Down, [op |-> "republish"]} \subseteq WalCalls
  BY SMTT(60) DEF Running, Down, WalCalls

\* Appending to the active segment, one frame of room being left.
LEMMA ActiveGrows ==
    ASSUME WalTypes, Len(active) < SegmentLimit, NEW r \in WalRecords \cup {Torn},
           \A j \in DOMAIN active : active[j] # Torn,
           NEW new, new = Append(active, r)
    PROVE  /\ new \in Seq(WalRecords \cup {Torn}) /\ Len(new) <= SegmentLimit
           /\ \A j \in DOMAIN new : new[j] = Torn => j = Len(new) /\ r = Torn
           /\ Range(new) = Range(active) \cup {r}
<1>1. active \in Seq(WalRecords \cup {Torn}) /\ SegmentLimit \in Nat
  BY WalConfig DEF WalTypes
<1>2. /\ new \in Seq(WalRecords \cup {Torn}) /\ Len(new) = Len(active) + 1
      /\ DOMAIN new = DOMAIN active \cup {Len(active) + 1}
      /\ \A j \in DOMAIN active : new[j] = active[j]
      /\ new[Len(active) + 1] = r
      /\ Len(active) \in Nat
  BY <1>1, SMTT(60)
<1>3. Len(new) <= SegmentLimit
  BY <1>1, <1>2, SMTT(60)
<1> QED
  BY <1>2, <1>3 DEF Range

\* A record is not the mark of a torn frame.
LEMMA TornIsNoRecord == Torn \notin WalRecords
  BY WalConfig, SMTT(60) DEF Torn, WalRecords

\* A new session has an empty log and nothing to lose.
LEMMA WalInitial ==
    ASSUME WalInit PROVE WalInv
<1>1. active \in Seq(WalRecords \cup {Torn}) /\ Len(active) <= SegmentLimit /\ DOMAIN active = {}
  BY WalConfig, SMTT(60) DEF WalInit
<1>2. DOMAIN sealed = {}
  BY SMTT(60) DEF WalInit
<1>3. wcall \in WalCalls /\ wcall.op = "running"
  BY BareCalls DEF WalInit
<1> QED
  BY <1>1, <1>2, <1>3 DEF WalInit, WalInv, WalTypes, TornIsLast

\* Opening the log again takes in every record it still holds.
LEMMA LoadPreserves ==
    ASSUME WalInv, Load PROVE WalInv'
<1>1. WalTypes /\ TornIsLast /\ wacked \subseteq snap \cup Kept
  BY DEF WalInv
<1>2. wcall' \in WalCalls /\ wcall'.op \in {"running", "republish"}
  BY BareCalls DEF Load, Running
<1>3. mem' = Recovered /\ UNCHANGED <<snap, active, sealed, wacked, wkills>>
  BY DEF Load
<1>4. WalTypes'
  BY <1>1, <1>2, <1>3, RestartRecovers DEF WalTypes
<1>5. wcall'.op = "running" => ~ Replay.truncated
  BY DEF Load
<1>6. TornIsLast'
  BY <1>1, <1>2, <1>3, <1>5, RestartRecovers DEF TornIsLast
<1>7. wacked \subseteq Recovered
  BY <1>1, RestartRecovers, TornIsNoRecord DEF WalTypes
<1>8. Kept' = Kept
  BY <1>3 DEF Kept
<1> QED
  BY <1>1, <1>2, <1>3, <1>4, <1>6, <1>7, <1>8 DEF WalInv

\* The next record is one that is left.
LEMMA NextRecordIsLeft ==
    ASSUME WalTypes, NextRecord <= MaxRecords PROVE NextRecord \in WalRecords
<1>1. IsFiniteSet(1..MaxRecords)
  BY FS_Interval, WalConfig, SMTT(60)
<1>2. Cardinality(mem) \in Nat
  BY <1>1, FS_Subset, FS_CardinalityType DEF WalTypes, WalRecords
<1> QED
  BY <1>2, WalConfig, SMTT(60) DEF NextRecord, WalRecords

\* append either has room in the active segment or must rotate first.
LEMMA AppendRecordPreserves ==
    ASSUME WalInv, AppendRecord PROVE WalInv'
<1>1. WalTypes /\ TornIsLast /\ wacked \subseteq snap \cup Kept /\ wacked \subseteq mem
  BY BareCalls DEF WalInv, AppendRecord
<1>2. UNCHANGED <<snap, active, sealed, mem, wacked, wkills>> /\ Kept' = Kept
  BY DEF AppendRecord, Kept
<1>3. \A j \in DOMAIN active : active[j] # Torn
  BY <1>1, BareCalls DEF AppendRecord, TornIsLast
<1>4. NextRecord \in WalRecords
  BY <1>1, NextRecordIsLeft DEF AppendRecord
<1>5. CASE active = << >> \/ Len(active) + 1 <= SegmentLimit
  <2>1. wcall' = [op |-> "write", record |-> NextRecord]
    BY <1>5 DEF AppendRecord
  <2>2. wcall' \in WalCalls /\ wcall'.op = "write"
    BY <2>1, <1>4, SMTT(60) DEF WalCalls
  <2>3. Len(active) < SegmentLimit
    BY <1>5, <1>1, WalConfig, SMTT(60) DEF WalTypes
  <2>4. WalTypes' /\ TornIsLast'
    BY <1>1, <1>2, <1>3, <2>2, <2>3 DEF WalTypes, TornIsLast
  <2> QED
    BY <1>1, <1>2, <2>2, <2>4 DEF WalInv
<1>6. CASE ~ (active = << >> \/ Len(active) + 1 <= SegmentLimit) /\ MaxSealed \in DOMAIN sealed
  <2>1. wcall' \in WalCalls /\ wcall'.op = "republish"
    BY <1>6, BareCalls DEF AppendRecord
  <2>2. WalTypes' /\ TornIsLast'
    BY <1>1, <1>2, <1>3, <2>1 DEF WalTypes, TornIsLast
  <2> QED
    BY <1>1, <1>2, <2>1, <2>2 DEF WalInv
<1>7. CASE ~ (active = << >> \/ Len(active) + 1 <= SegmentLimit) /\ MaxSealed \notin DOMAIN sealed
  <2>1. wcall' = [op |-> "rotate", gen |-> MaxSealed - 1, record |-> NextRecord]
    BY <1>7 DEF AppendRecord
  <2>2. wcall' \in WalCalls /\ wcall'.op = "rotate" /\ wcall'.gen + 1 = MaxSealed
    BY <2>1, <1>4, WalConfig, SMTT(60) DEF WalCalls
  <2>3. WalTypes' /\ TornIsLast'
    BY <1>1, <1>2, <1>3, <2>2 DEF WalTypes, TornIsLast
  <2> QED
    BY <1>1, <1>2, <1>7, <2>2, <2>3 DEF WalInv
<1> QED
  BY <1>5, <1>6, <1>7

\* rotate_segments seals the active segment; its records move, none is dropped.
LEMMA RotatePreserves ==
    ASSUME WalInv, RotateSegments PROVE WalInv'
<1>1. WalTypes /\ TornIsLast /\ wacked \subseteq snap \cup Kept /\ wcall.op = "rotate"
  BY DEF WalInv, RotateSegments
<1>2. UNCHANGED <<snap, mem, wacked, wkills>>
  BY DEF RotateSegments
<1>3. /\ wcall.gen \in 0..MaxSealed - 1 /\ wcall.record \in WalRecords
      /\ wcall = [op |-> "rotate", gen |-> wcall.gen, record |-> wcall.record]
  BY <1>1, CallCases DEF WalTypes
<1>4. wcall.gen + 1 \notin DOMAIN sealed /\ wacked \subseteq mem
  BY <1>1, BareCalls DEF WalInv
<1>5. \A j \in DOMAIN active : active[j] # Torn
  BY <1>1 DEF TornIsLast
<1>6. CASE wcall.gen = 0
  <2>1. /\ sealed' = Sealed(1, active) /\ active' = << >>
        /\ wcall' = [op |-> "write", record |-> wcall.record]
    BY <1>6 DEF RotateSegments
  <2>2. wcall' \in WalCalls /\ wcall'.op = "write"
    BY <2>1, <1>3, SMTT(60) DEF WalCalls
  <2>3. active \in Seq(WalRecords) /\ Len(active) <= SegmentLimit
    BY <1>1, <1>5, SMTT(60) DEF WalTypes
  <2>4. 1 \notin DOMAIN sealed
    BY <1>4, <1>6, SMTT(60)
  <2>5. /\ DOMAIN sealed' = DOMAIN sealed \cup {1} /\ sealed'[1] = active
        /\ \A g \in DOMAIN sealed : sealed'[g] = sealed[g]
    BY <2>1, <2>4 DEF Sealed
  <2>6. 1 \in 1..MaxSealed /\ 0 <= SegmentLimit /\ 0 < SegmentLimit
    BY WalConfig, SMTT(60)
  <2>7. /\ active' \in Seq(WalRecords \cup {Torn}) /\ Len(active') = 0
        /\ DOMAIN active' = {}
    BY <2>1, SMTT(60)
  <2>8. WalTypes'
    BY <1>1, <1>2, <2>2, <2>3, <2>5, <2>6, <2>7 DEF WalTypes
  <2>9. TornIsLast'
    BY <2>2, <2>6, <2>7 DEF TornIsLast
  <2>10. Kept \subseteq Kept'
    BY <2>5 DEF Kept
  <2> QED
    BY <1>1, <1>2, <1>4, <2>2, <2>8, <2>9, <2>10 DEF WalInv
<1>7. CASE wcall.gen # 0
  <2> DEFINE n == wcall.gen
  <2>1. wcall' = [op |-> "rotate", gen |-> n - 1, record |-> wcall.record]
    BY <1>7, <1>3, SMTT(60) DEF RotateSegments
  <2>2. /\ wcall' \in WalCalls /\ wcall'.op = "rotate" /\ wcall'.gen + 1 = n
        /\ n + 1 \in 1..MaxSealed /\ n # n + 1
    <3>1. n \in Nat /\ n # 0 /\ n \in 0..MaxSealed - 1
      BY <1>3, <1>7, SMTT(60)
    <3> HIDE DEF n
    <3> QED
      BY <2>1, <1>3, <3>1, WalConfig, SMTT(60) DEF WalCalls
  <2>3. UNCHANGED active
    BY <1>7 DEF RotateSegments
  <2>4. CASE n \in DOMAIN sealed
    <3>1. sealed' = Restrict(Sealed(n + 1, sealed[n]), (DOMAIN sealed \cup {n + 1}) \ {n})
      BY <1>7, <2>4 DEF RotateSegments
    <3>2. /\ DOMAIN sealed' = (DOMAIN sealed \cup {n + 1}) \ {n}
          /\ sealed'[n + 1] = sealed[n]
          /\ \A g \in DOMAIN sealed \ {n} : sealed'[g] = sealed[g]
      <4> HIDE DEF n
      <4>1. /\ DOMAIN sealed' = (DOMAIN sealed \cup {n + 1}) \ {n}
            /\ \A g \in DOMAIN sealed' : sealed'[g] = IF g = n + 1 THEN sealed[n] ELSE sealed[g]
        BY <3>1 DEF Restrict, Sealed
      <4>2. n + 1 \in DOMAIN sealed' /\ n + 1 \notin DOMAIN sealed
        BY <4>1, <2>2, <1>4 DEF n
      <4> QED
        BY <4>1, <4>2
    <3>3. WalTypes'
      BY <1>1, <1>2, <2>2, <2>3, <2>4, <3>2 DEF WalTypes
    <3>4. TornIsLast'
      BY <1>1, <2>2, <2>3 DEF TornIsLast
    <3>5. Kept \subseteq Kept'
      <4>1. \A g \in DOMAIN sealed : \E h \in DOMAIN sealed' : sealed'[h] = sealed[g]
        <5> HIDE DEF n
        <5> QED
          BY <3>2, <2>2
      <4> QED
        BY <4>1, <2>3 DEF Kept
    <3>6. n \notin DOMAIN sealed'
      BY <3>2, <2>2
    <3> QED
      BY <1>1, <1>2, <1>4, <2>2, <3>3, <3>4, <3>5, <3>6 DEF WalInv
  <2>5. CASE n \notin DOMAIN sealed
    <3>1. UNCHANGED sealed
      BY <1>7, <2>5 DEF RotateSegments
    <3>2. WalTypes' /\ TornIsLast' /\ Kept' = Kept
      BY <1>1, <1>2, <2>2, <2>3, <3>1 DEF WalTypes, TornIsLast, Kept
    <3> QED
      BY <1>1, <1>2, <1>4, <2>2, <2>5, <3>1, <3>2 DEF WalInv
  <2> QED
    BY <2>4, <2>5
<1> QED
  BY <1>6, <1>7

\* The frame that is written whole is kept before the record is acknowledged.
LEMMA WriteFramePreserves ==
    ASSUME WalInv, WriteFrame PROVE WalInv'
<1>1. WalTypes /\ TornIsLast /\ wacked \subseteq snap \cup Kept /\ wcall.op = "write"
  BY DEF WalInv, WriteFrame
<1>2. wcall.record \in WalRecords
  BY <1>1, CallCases DEF WalTypes
<1>3. wacked \subseteq mem
  BY <1>1, BareCalls DEF WalInv
<1>4. /\ active' = Append(active, wcall.record) /\ UNCHANGED <<snap, sealed, wkills>>
      /\ mem' = mem \cup {wcall.record} /\ wacked' = wacked \cup {wcall.record}
      /\ wcall' = Running
  BY DEF WriteFrame
<1>5. /\ active' \in Seq(WalRecords \cup {Torn}) /\ Len(active') <= SegmentLimit
      /\ \A j \in DOMAIN active' : active'[j] # Torn
      /\ Range(active') = Range(active) \cup {wcall.record}
  <2>1. Len(active) < SegmentLimit /\ \A j \in DOMAIN active : active[j] # Torn
    BY <1>1 DEF TornIsLast
  <2> QED
    BY <2>1, <1>1, <1>2, <1>4, ActiveGrows, TornIsNoRecord
<1>6. wcall' \in WalCalls /\ wcall'.op = "running"
  BY <1>4, BareCalls
<1>7. WalTypes' /\ TornIsLast'
  BY <1>1, <1>2, <1>4, <1>5, <1>6 DEF WalTypes, TornIsLast
<1>8. Kept' = Kept \cup {wcall.record}
  BY <1>4, <1>5 DEF Kept
<1> QED
  BY <1>1, <1>3, <1>4, <1>6, <1>7, <1>8 DEF WalInv

\* A snapshot holds every record in memory before the log is cleared.
LEMMA SnapshotPreserves ==
    ASSUME WalInv, PublishSnapshot \/ RepublishSame PROVE WalInv'
<1>1. WalTypes /\ TornIsLast /\ wcall.op \in {"running", "republish"}
  BY DEF WalInv, PublishSnapshot, RepublishSame
<1>2. wacked \subseteq mem
  BY <1>1, BareCalls DEF WalInv
<1>3. /\ snap' = mem /\ wcall' = [op |-> "clear", gen |-> 0]
      /\ UNCHANGED <<active, sealed, mem, wacked, wkills>>
  BY DEF PublishSnapshot, RepublishSame
<1>4. wcall' \in WalCalls /\ wcall'.op = "clear" /\ ~ (wcall'.gen > 0)
  BY <1>3, WalConfig, SMTT(60) DEF WalCalls
<1>5. WalTypes' /\ TornIsLast'
  BY <1>1, <1>3, <1>4 DEF WalTypes, TornIsLast
<1> QED
  BY <1>2, <1>3, <1>4, <1>5 DEF WalInv

\* clear removes segments only once the snapshot covers them.
LEMMA ClearWalPreserves ==
    ASSUME WalInv, ClearWal PROVE WalInv'
<1>1. WalTypes /\ TornIsLast /\ wcall.op = "clear" /\ snap = mem
  BY DEF WalInv, ClearWal
<1>2. wacked \subseteq mem
  BY <1>1, BareCalls DEF WalInv
<1>3. UNCHANGED <<snap, mem, wacked, wkills>>
  BY DEF ClearWal
<1>4. wcall.gen \in 0..MaxSealed /\ wcall = [op |-> "clear", gen |-> wcall.gen]
  BY <1>1, CallCases DEF WalTypes
<1>5. /\ wcall' \in WalCalls /\ wcall'.op \in {"running", "clear"}
      /\ wcall'.op = "clear" => wcall'.gen = wcall.gen + 1
  <2>1. CASE wcall.gen = MaxSealed
    BY <2>1, BareCalls DEF ClearWal
  <2>2. CASE wcall.gen # MaxSealed
    <3>1. wcall' = [op |-> "clear", gen |-> wcall.gen + 1]
      BY <2>2, <1>4, SMTT(60) DEF ClearWal
    <3> QED
      BY <3>1, <2>2, <1>4, WalConfig, SMTT(60) DEF WalCalls
  <2> QED
    BY <2>1, <2>2
<1>6. active' = << >>
  <2>1. CASE wcall.gen = 0
    BY <2>1 DEF ClearWal
  <2>2. CASE wcall.gen # 0
    <3>1. wcall.gen > 0
      BY <2>2, <1>4, SMTT(60)
    <3> QED
      BY <2>2, <3>1, <1>1 DEF ClearWal, TornIsLast
  <2> QED
    BY <2>1, <2>2
<1>7. DOMAIN sealed' \subseteq DOMAIN sealed /\ \A g \in DOMAIN sealed' : sealed'[g] = sealed[g]
  <2>1. CASE wcall.gen = 0
    BY <2>1 DEF ClearWal
  <2>2. CASE wcall.gen # 0
    BY <2>2 DEF ClearWal, Restrict
  <2> QED
    BY <2>1, <2>2
<1>8. active' \in Seq(WalRecords \cup {Torn}) /\ Len(active') <= SegmentLimit /\ DOMAIN active' = {}
  BY <1>6, WalConfig, SMTT(60)
<1>9. WalTypes'
  BY <1>1, <1>3, <1>5, <1>7, <1>8 DEF WalTypes
<1>10. TornIsLast'
  BY <1>5, <1>6, <1>8 DEF TornIsLast
<1> QED
  BY <1>1, <1>2, <1>3, <1>5, <1>9, <1>10 DEF WalInv

\* A process that dies, a frame half written, loses no acknowledged record.
LEMMA WalKillPreserves ==
    ASSUME WalInv, WalKill PROVE WalInv'
<1>1. WalTypes /\ TornIsLast /\ wacked \subseteq snap \cup Kept
  BY DEF WalInv
<1>2. wcall' = Down /\ mem' = {} /\ UNCHANGED <<snap, sealed, wacked>>
  BY DEF WalKill
<1>3. wcall' \in WalCalls /\ wcall'.op = "down"
  BY <1>2, BareCalls
<1>4. CASE UNCHANGED active
  <2>1. WalTypes' /\ TornIsLast' /\ Kept' = Kept
    BY <1>1, <1>2, <1>3, <1>4 DEF WalTypes, TornIsLast, Kept
  <2> QED
    BY <1>1, <1>2, <1>3, <2>1 DEF WalInv
<1>5. CASE wcall.op = "write" /\ \E frame \in {Torn, wcall.record} : active' = Append(active, frame)
  <2>1. wcall.record \in WalRecords
    BY <1>1, <1>5, CallCases DEF WalTypes
  <2>2. PICK frame \in {Torn, wcall.record} : active' = Append(active, frame)
    BY <1>5
  <2>3. /\ active' \in Seq(WalRecords \cup {Torn}) /\ Len(active') <= SegmentLimit
        /\ \A j \in DOMAIN active' : active'[j] = Torn => j = Len(active')
        /\ Range(active') = Range(active) \cup {frame}
    <3>1. Len(active) < SegmentLimit /\ \A j \in DOMAIN active : active[j] # Torn
      BY <1>1, <1>5 DEF TornIsLast
    <3> QED
      BY <2>1, <2>2, <3>1, <1>1, ActiveGrows
  <2>4. WalTypes' /\ TornIsLast'
    BY <1>1, <1>2, <1>3, <2>3 DEF WalTypes, TornIsLast
  <2>5. Kept \subseteq Kept'
    BY <1>2, <2>3 DEF Kept
  <2> QED
    BY <1>1, <1>2, <1>3, <2>4, <2>5 DEF WalInv
<1> QED
  BY <1>4, <1>5 DEF WalKill

\* The log keeps every record whose append returned Appended within reach of a
\* restart, for any sizes of the segments, any number of generations and kills.
THEOREM AckedRecordsSurviveHolds == WalSpec => []AckedRecordsSurvive
<1>1. WalInv /\ [WalNext]_walVars => WalInv'
  <2> SUFFICES ASSUME WalInv, [WalNext]_walVars PROVE WalInv'
    OBVIOUS
  <2>1. CASE UNCHANGED walVars
    BY <2>1 DEF walVars, WalInv, WalTypes, TornIsLast, Kept
  <2> QED
    BY <2>1, LoadPreserves, AppendRecordPreserves, RotatePreserves, WriteFramePreserves,
       SnapshotPreserves, ClearWalPreserves, WalKillPreserves DEF WalNext
<1>2. WalInv => AckedRecordsSurvive
  <2> SUFFICES ASSUME WalInv PROVE wacked \subseteq Recovered
    BY DEF AckedRecordsSurvive
  <2>1. WalTypes /\ TornIsLast /\ wacked \subseteq snap \cup Kept
    BY DEF WalInv
  <2>2. wacked \subseteq WalRecords
    BY <2>1 DEF WalTypes
  <2> QED
    BY <2>1, <2>2, RestartRecovers, TornIsNoRecord
<1> QED
  BY <1>1, <1>2, WalInitial, PTL DEF WalSpec

-----------------------------------------------------------------------------
(* The event log.                                                           *)

\* The number of members of S up to b.
Rank(S, b) == Cardinality({j \in S : j <= b})

\* It is a number, grows with b and counts b itself.
LEMMA RankGrows ==
    ASSUME NEW S, S \subseteq Nat, IsFiniteSet(S), NEW a \in Nat, NEW b \in Nat
    PROVE  /\ Rank(S, a) \in Nat /\ Rank(S, a) <= Cardinality(S)
           /\ a <= b => Rank(S, a) <= Rank(S, b)
           /\ a < b /\ b \in S => Rank(S, a) < Rank(S, b)
           /\ a \in S => Rank(S, a) >= 1
<1> DEFINE A == {j \in S : j <= a}
           B == {j \in S : j <= b}
<1>1. /\ IsFiniteSet(A) /\ Cardinality(A) <= Cardinality(S) /\ Cardinality(A) \in Nat
      /\ IsFiniteSet(B) /\ Cardinality(B) \in Nat
  <2>1. A \in SUBSET S /\ B \in SUBSET S
    OBVIOUS
  <2> HIDE DEF A, B
  <2> QED
    BY <2>1, FS_Subset, FS_CardinalityType
<1>2. a <= b => A \subseteq B
  <2> SUFFICES ASSUME a <= b, NEW j \in S, j <= a PROVE j <= b
    OBVIOUS
  <2>1. j \in Nat
    OBVIOUS
  <2> QED
    BY <2>1, SMTT(60)
<1>3. a <= b => Cardinality(A) <= Cardinality(B)
  <2> HIDE DEF A, B
  <2> QED
    BY <1>1, <1>2, FS_Subset
<1>4. a < b /\ b \in S => a <= b /\ b \in B /\ b \notin A
  BY SMTT(60)
<1>5. a < b /\ b \in S => Cardinality(A) < Cardinality(B)
  <2> HIDE DEF A, B
  <2>1. a < b /\ b \in S => Cardinality(A) # Cardinality(B)
    BY <1>1, <1>2, <1>4, FS_Subset
  <2> QED
    BY <1>1, <1>3, <1>4, <2>1, SMTT(60)
<1>6. a \in S => a \in A
  BY SMTT(60)
<1>7. a \in S => Cardinality(A) >= 1
  <2> HIDE DEF A
  <2>1. a \in S => Cardinality(A) # 0
    BY <1>1, <1>6, FS_EmptySet
  <2> QED
    BY <1>1, <2>1, SMTT(60)
<1> QED
  BY <1>1, <1>3, <1>5, <1>7 DEF Rank

\* Every rank up to the size of S is the rank of a member.
LEMMA RankIsOnto ==
    ASSUME NEW S, S \subseteq Nat, IsFiniteSet(S), NEW k \in 1..Cardinality(S)
    PROVE  \E i \in S : Rank(S, i) = k
<1> DEFINE n == Cardinality(S)
           T == 1..n
           f == [i \in S |-> Rank(S, i)]
<1>1. n \in Nat
  BY FS_CardinalityType
<1>2. IsFiniteSet(T) /\ Cardinality(T) = n
  <2> HIDE DEF n
  <2>1. 1 \in Int /\ n \in Int /\ (IF 1 > n THEN 0 ELSE n - 1 + 1) = n
    BY <1>1, SMTT(60)
  <2> QED
    BY <2>1, FS_Interval
<1>3. \A i \in S : Rank(S, i) \in T
  <2> TAKE i \in S
  <2>1. Rank(S, i) \in Nat /\ Rank(S, i) <= n /\ Rank(S, i) >= 1
    BY RankGrows
  <2> HIDE DEF n
  <2> QED
    BY <2>1, <1>1, SMTT(60)
<1>4. \A i, j \in S : Rank(S, i) = Rank(S, j) => i = j
  <2> SUFFICES ASSUME NEW i \in S, NEW j \in S, i # j PROVE Rank(S, i) # Rank(S, j)
    OBVIOUS
  <2>1. i \in Nat /\ j \in Nat
    OBVIOUS
  <2>2. i < j \/ j < i
    BY <2>1, SMTT(60)
  <2>3. /\ Rank(S, i) \in Nat /\ Rank(S, j) \in Nat
        /\ Rank(S, i) < Rank(S, j) \/ Rank(S, j) < Rank(S, i)
    BY <2>1, <2>2, RankGrows
  <2> QED
    BY <2>3, SMTT(60)
<1>5. f \in Injection(S, T)
  <2> HIDE DEF T
  <2> QED
    BY <1>3, <1>4 DEF Injection, IsInjective
<1>6. f \in Surjection(S, T)
  <2> HIDE DEF T, f
  <2> QED
    BY <1>2, <1>5, FS_Injection
<1>7. PICK i \in S : f[i] = k
  <2>1. k \in T
    OBVIOUS
  <2> HIDE DEF T, f
  <2> QED
    BY <1>6, <2>1 DEF Surjection
<1> QED
  BY <1>7

\* The positions where a line starts.
Starts(newlines) == {0} \cup {i \in newlines : i < Bytes}

\* The k-th line starts at the k-th of the positions, so that a byte is behind
\* the start of line k exactly if k positions or more are not behind the byte.
LEMMA LineStartsRank ==
    ASSUME NEW newlines \in SUBSET (1..Bytes)
    PROVE  LET starts == LineStarts(newlines)
               S      == Starts(newlines)
           IN  /\ starts \in Seq(Nat) /\ Len(starts) = Cardinality(S)
               /\ \A k \in 1..Len(starts) : starts[k] <= Bytes
               /\ \A b \in Nat : Rank(S, b) \in Nat /\ Rank(S, b) <= Len(starts)
               /\ \A k \in 1..Len(starts), b \in Nat : starts[k] <= b <=> k <= Rank(S, b)
<1> DEFINE starts == LineStarts(newlines)
           S      == Starts(newlines)
           n      == Cardinality(S)
<1>1. S \subseteq 0..Bytes /\ S \subseteq Nat
  <2>1. 0 \in 0..Bytes /\ \A i \in 0..Bytes : i \in Nat
    BY BytesAssumption, SMTT(60)
  <2>2. \A i \in 1..Bytes : i \in 0..Bytes
    BY BytesAssumption, SMTT(60)
  <2> QED
    BY <2>1, <2>2 DEF Starts
<1>2. IsFiniteSet(S)
  <2>1. IsFiniteSet(0..Bytes)
    <3>1. 0 \in Int /\ Bytes \in Int
      BY BytesAssumption, SMTT(60)
    <3> QED
      BY <3>1, FS_Interval
  <2> HIDE DEF S
  <2> QED
    BY <1>1, <2>1, FS_Subset
<1>3. n \in Nat
  BY <1>2, FS_CardinalityType
<1>4. starts = [k \in 1..n |-> CHOOSE i \in S : Rank(S, i) = k]
  BY DEF LineStarts, Starts, Rank
<1> HIDE DEF starts, S, n
<1>5. \A k \in 1..n : starts[k] \in S /\ Rank(S, starts[k]) = k
  BY <1>1, <1>2, <1>4, RankIsOnto DEF n
<1>6. starts \in Seq(Nat) /\ Len(starts) = n
  <2>1. \A k \in 1..n : starts[k] \in Nat
    BY <1>5, <1>1
  <2>2. starts \in [1..n -> Nat]
    BY <1>4, <2>1
  <2> QED
    BY <2>2, <1>3, SMTT(60)
<1>7. \A k \in 1..n : starts[k] <= Bytes
  <2>1. \A i \in 0..Bytes : i <= Bytes
    BY BytesAssumption, SMTT(60)
  <2> QED
    BY <1>5, <1>1, <2>1
<1>8. \A b \in Nat : Rank(S, b) \in Nat /\ Rank(S, b) <= n
  BY <1>1, <1>2, RankGrows DEF n
<1>9. ASSUME NEW k \in 1..n, NEW b \in Nat
      PROVE  starts[k] <= b <=> k <= Rank(S, b)
  <2>1. starts[k] \in S /\ starts[k] \in Nat /\ Rank(S, starts[k]) = k
    BY <1>5, <1>1
  <2>2. starts[k] <= b => k <= Rank(S, b)
    BY <2>1, <1>1, <1>2, RankGrows
  <2>3. b < starts[k] => Rank(S, b) < k
    BY <2>1, <1>1, <1>2, RankGrows
  <2>4. k \in Nat /\ Rank(S, b) \in Nat
    BY <1>8, <1>3, SMTT(60)
  <2> QED
    BY <2>1, <2>2, <2>3, <2>4, SMTT(60)
<1> QED
  BY <1>6, <1>7, <1>8, <1>9 DEF starts, S, n

\* The line of a byte of the object is the rank of the byte among the starts.
LEMMA LineIsRank ==
    ASSUME NEW newlines \in SUBSET (1..Bytes), NEW b \in 0..(Bytes - 1)
    PROVE  1 + Cardinality({i \in newlines : i <= b}) = Rank(Starts(newlines), b)
<1> DEFINE N == {i \in newlines : i <= b}
<1>1. {j \in Starts(newlines) : j <= b} = N \cup {0}
  <2>1. 0 <= b
    BY BytesAssumption, SMTT(60)
  <2>2. \A i \in 1..Bytes : i <= b => i < Bytes
    BY BytesAssumption, SMTT(60)
  <2> QED
    BY <2>1, <2>2 DEF Starts
<1>2. 0 \notin N
  BY SMTT(60)
<1>3. IsFiniteSet(N)
  <2>1. IsFiniteSet(1..Bytes)
    <3>1. 1 \in Int /\ Bytes \in Int
      BY BytesAssumption, SMTT(60)
    <3> QED
      BY <3>1, FS_Interval
  <2>2. N \subseteq 1..Bytes
    OBVIOUS
  <2> HIDE DEF N
  <2> QED
    BY <2>1, <2>2, FS_Subset
<1> HIDE DEF N
<1>4. Cardinality(N \cup {0}) = Cardinality(N) + 1 /\ Cardinality(N) \in Nat
  BY <1>2, <1>3, FS_AddElement, FS_CardinalityType
<1>5. Cardinality(N \cup {0}) = 1 + Cardinality(N)
  BY <1>4, SMTT(60)
<1> QED
  BY <1>1, <1>5 DEF Rank, N

\* The smaller of two numbers is one of them and below both.
LEMMA MinOfTwo ==
    ASSUME NEW a \in Nat, NEW b \in Nat
    PROVE  Min({a, b}) \in {a, b} /\ Min({a, b}) <= a /\ Min({a, b}) <= b
<1>1. \E x \in {a, b} : \A y \in {a, b} : x <= y
  <2>1. a <= a /\ b <= b /\ (a <= b \/ b <= a)
    BY SMTT(60)
  <2> QED
    BY <2>1
<1>2. Min({a, b}) \in {a, b} /\ \A y \in {a, b} : Min({a, b}) <= y
  BY <1>1 DEF Min
<1> QED
  BY <1>2

\* A range by lines ends within the object, whatever the index says.
LEMMA LineRangeIsInside ==
    ASSUME NEW starts \in Seq(Nat), NEW first \in Nat, NEW last \in Nat
    PROVE  LineRange(starts, first, last).end <= Bytes
<1>1. CASE first = 0 \/ last < first \/ first > Len(starts)
  BY <1>1, BytesAssumption, SMTT(60) DEF LineRange, NoRange
<1>2. CASE ~ (first = 0 \/ last < first \/ first > Len(starts))
  <2> DEFINE e == IF last < Len(starts) THEN starts[last + 1] ELSE Bytes
  <2>1. LineRange(starts, first, last).end = Min({Bytes, e})
    BY <1>2 DEF LineRange
  <2>2. e \in Nat
    BY BytesAssumption, SMTT(60)
  <2> HIDE DEF e
  <2> QED
    BY <2>1, <2>2, MinOfTwo, BytesAssumption
<1> QED
  BY <1>1, <1>2

\* With the object's own index the range of the lines first to last is exactly
\* the bytes whose line is among them.
LEMMA LinesAreTheReference ==
    ASSUME NEW newlines \in SUBSET (1..Bytes), NEW first \in Nat, NEW last \in Nat,
           NEW r, r = LineRange(LineStarts(newlines), first, last), r.start <= r.end
    PROVE  r.start .. (r.end - 1) = BytesOfLines(newlines, first, last)
<1> DEFINE starts == LineStarts(newlines)
           S      == Starts(newlines)
           e      == IF last < Len(starts) THEN starts[last + 1] ELSE Bytes
<1>1. /\ starts \in Seq(Nat)
      /\ \A k \in 1..Len(starts) : starts[k] <= Bytes
      /\ \A b \in Nat : Rank(S, b) \in Nat /\ Rank(S, b) <= Len(starts)
      /\ \A k \in 1..Len(starts), b \in Nat : starts[k] <= b <=> k <= Rank(S, b)
  BY LineStartsRank
<1>2. \A b \in 0..(Bytes - 1) : 1 + Cardinality({i \in newlines : i <= b}) = Rank(S, b)
  BY LineIsRank
<1> HIDE DEF starts, S
<1>3. ~ (first = 0 \/ last < first \/ first > Len(starts))
  <2> SUFFICES ASSUME first = 0 \/ last < first \/ first > Len(starts) PROVE FALSE
    OBVIOUS
  <2>1. r = NoRange
    BY DEF LineRange, starts
  <2> QED
    BY <2>1, SMTT(60) DEF NoRange
<1>4. r.start = starts[first] /\ r.end = Min({Bytes, e})
  BY <1>3 DEF LineRange, starts
<1>11. Len(starts) \in Nat /\ \A k \in 1..Len(starts) : starts[k] \in Nat
  <2>1. starts \in Seq(Nat)
    BY <1>1
  <2> QED
    BY <2>1, SMTT(60)
<1>5. first \in 1..Len(starts) /\ first <= last /\ Len(starts) \in Nat
  <2> DEFINE n == Len(starts)
  <2>1. n \in Nat /\ ~ (first = 0 \/ last < first \/ first > n)
    BY <1>11, <1>3
  <2> HIDE DEF n
  <2>2. first \in 1..n /\ first <= last
    BY <2>1, SMTT(60)
  <2> QED
    BY <2>1, <2>2 DEF n
<1>6. e \in Nat /\ e <= Bytes
  <2>1. CASE last < Len(starts)
    <3>1. last + 1 \in 1..Len(starts)
      BY <2>1, <1>11, SMTT(60)
    <3> QED
      BY <2>1, <3>1, <1>1, <1>11
  <2>2. CASE ~ (last < Len(starts))
    <3>1. Bytes <= Bytes
      BY BytesAssumption, SMTT(60)
    <3> QED
      BY <2>2, <3>1, BytesAssumption
  <2> QED
    BY <2>1, <2>2
<1>7. r.end = e
  <2> HIDE DEF e
  <2>1. Min({Bytes, e}) \in {Bytes, e} /\ Min({Bytes, e}) <= e
    BY <1>6, BytesAssumption, MinOfTwo
  <2> QED
    BY <2>1, <1>4, <1>6, BytesAssumption, SMTT(60)
<1>8. ASSUME NEW b \in Nat
      PROVE  r.start <= b /\ b < r.end <=> b < Bytes /\ Rank(S, b) \in first..last
  <2>1. starts[first] <= b <=> first <= Rank(S, b)
    BY <1>1, <1>5
  <2>2. Rank(S, b) \in Nat /\ Rank(S, b) <= Len(starts)
    BY <1>1
  <2>3. CASE last < Len(starts)
    <3>1. last + 1 \in 1..Len(starts)
      BY <2>3, <1>5, SMTT(60)
    <3>2. starts[last + 1] <= b <=> last + 1 <= Rank(S, b)
      BY <1>1, <3>1
    <3>3. r.end = starts[last + 1]
      BY <1>7, <2>3
    <3>4. starts[last + 1] \in Nat /\ starts[last + 1] <= Bytes
      BY <1>1, <1>11, <3>1
    <3> QED
      BY <2>1, <2>2, <3>2, <3>3, <3>4, <1>4, <1>5, BytesAssumption, SMTT(60)
  <2>4. CASE ~ (last < Len(starts))
    <3>1. r.end = Bytes
      BY <1>7, <2>4
    <3> QED
      BY <2>1, <2>2, <2>4, <3>1, <1>4, <1>5, BytesAssumption, SMTT(60)
  <2> QED
    BY <2>3, <2>4
<1>9. r.start \in Nat /\ r.end \in Nat
  BY <1>4, <1>5, <1>11, <1>6, <1>7
<1>10. r.start .. (r.end - 1) = {b \in 0..(Bytes - 1) : Rank(S, b) \in first..last}
  <2>1. \A b : b \in r.start .. (r.end - 1) <=> b \in Nat /\ r.start <= b /\ b < r.end
    BY <1>9, SMTT(60)
  <2>2. \A b : b \in 0..(Bytes - 1) <=> b \in Nat /\ b < Bytes
    BY BytesAssumption, SMTT(60)
  <2> QED
    BY <2>1, <2>2, <1>8
<1> QED
  BY <1>2, <1>10 DEF BytesOfLines

\* An expansion is as asked for, by every way of asking.
LEMMA ExpandIsExact ==
    ASSUME Expand PROVE ExpandsToReference'
<1>1. PICK newlines \in SUBSET (1..Bytes), first, last \in 0..Bytes + 1 :
          \/ slice' = [by |-> "lines", newlines |-> newlines, first |-> first, last |-> last,
                       range |-> LineRange(LineStarts(newlines), first, last)]
          \/ \E a, b \in {0, 2, Bytes + 1} :
                slice' = [by |-> "index", range |-> LineRange(<<0, a, b>>, first, last)]
          \/ slice' = [by |-> "offset", range |-> OffsetRange(first, last)]
          \/ slice' = [by |-> "symbol", range |-> SymbolRange(first, last)]
  BY DEF Expand
<1>2. first \in Nat /\ last \in Nat
  BY BytesAssumption, SMTT(60)
<1>3. CASE slice' = [by |-> "lines", newlines |-> newlines, first |-> first, last |-> last,
                     range |-> LineRange(LineStarts(newlines), first, last)]
  <2> DEFINE r == LineRange(LineStarts(newlines), first, last)
  <2>1. slice'.range = r /\ slice'.newlines = newlines /\ slice'.first = first /\ slice'.last = last
    BY <1>3
  <2>2. LineStarts(newlines) \in Seq(Nat)
    BY LineStartsRank
  <2>3. r.end <= Bytes
    BY <2>2, <1>2, LineRangeIsInside
  <2> HIDE DEF r
  <2>4. r.start <= r.end => r.start .. (r.end - 1) = BytesOfLines(newlines, first, last)
    <3>1. r = LineRange(LineStarts(newlines), first, last)
      BY DEF r
    <3> QED
      BY <3>1, <1>2, LinesAreTheReference
  <2> QED
    BY <2>1, <2>3, <2>4 DEF ExpandsToReference
<1>4. ASSUME NEW a \in {0, 2, Bytes + 1}, NEW b \in {0, 2, Bytes + 1},
             slice' = [by |-> "index", range |-> LineRange(<<0, a, b>>, first, last)]
      PROVE  ExpandsToReference'
  <2> DEFINE starts == <<0, a, b>>
  <2>1. starts \in Seq(Nat)
    <3>1. a \in Nat /\ b \in Nat
      BY BytesAssumption, SMTT(60)
    <3> QED
      BY <3>1, SMTT(60)
  <2> HIDE DEF starts
  <2>2. LineRange(starts, first, last).end <= Bytes
    BY <2>1, <1>2, LineRangeIsInside
  <2>3. slice'.range = LineRange(starts, first, last) /\ slice'.by = "index"
    BY <1>4 DEF starts
  <2> QED
    BY <2>2, <2>3 DEF ExpandsToReference
<1>5. CASE slice' = [by |-> "offset", range |-> OffsetRange(first, last)]
  <2> DEFINE start == Min({first, Bytes})
  <2>1. start \in Nat
    BY <1>2, BytesAssumption, MinOfTwo
  <2>2. slice'.by = "offset" /\ slice'.range.end = Min({start + last, Bytes})
    BY <1>5 DEF OffsetRange
  <2>3. start + last \in Nat
    BY <2>1, <1>2, SMTT(60)
  <2> HIDE DEF start
  <2>4. Min({start + last, Bytes}) <= Bytes
    BY <2>3, BytesAssumption, MinOfTwo
  <2> QED
    BY <2>2, <2>4 DEF ExpandsToReference
<1>6. CASE slice' = [by |-> "symbol", range |-> SymbolRange(first, last)]
  <2>1. slice'.by = "symbol" /\ slice'.range.end = Min({last, Bytes})
    BY <1>6 DEF SymbolRange
  <2>2. Min({last, Bytes}) <= Bytes
    BY <1>2, BytesAssumption, MinOfTwo
  <2> QED
    BY <2>1, <2>2 DEF ExpandsToReference
<1> QED
  BY <1>1, <1>3, <1>4, <1>5, <1>6

-----------------------------------------------------------------------------
UsageRecord == [event : Events, observation : Observations]

PubCalls ==
    {NoPublication}
    \cup [at : {"event", "appendEvent"}, event : Events]
    \cup [at : {"usage", "appendUsage"}, event : Events, observation : Observations]

LogTypes ==
    /\ elog \in [Sessions -> Seq(Events \cup {CutShort})]
    /\ ulog \in [Sessions -> Seq(UsageRecord \cup {CutShort})]
    /\ pub \in [Publishers -> PubCalls]
    /\ overlap \in BOOLEAN

\* The usage records that can be read back.
Recorded(s) == Range(ulog[s]) \ {CutShort}

UsageOf(p) == [event |-> pub[p].event, observation |-> pub[p].observation]

\* What a usage call relies on from its checks on is still there.
Linked ==
    /\ \A p \in Publishers :
          /\ pub[p].at \in {"usage", "appendUsage"} =>
               {pub[p].event, pub[p].observation} \subseteq zcas
          /\ \A s \in Sessions : pub[p].at = "appendUsage" /\ SessionOf[pub[p].event] = s =>
               pub[p].event \in Records(s)
    /\ \A s \in Sessions : \A u \in Recorded(s) :
          /\ u.event \in Records(s) /\ SessionOf[u.event] = s
          /\ {u.event, u.observation} \subseteq zcas

\* Calls behind their checks are of different events, and of requests that have
\* no record yet.
Once ==
    /\ \A p, q \in Publishers :
          pub[p].at = "appendUsage" /\ pub[q].at = "appendUsage" /\ p # q =>
              pub[p].event # pub[q].event
    /\ \A p \in Publishers, s \in Sessions :
          pub[p].at = "appendUsage" /\ SessionOf[pub[p].event] = s =>
              \A u \in Recorded(s) : ~ SameRequest(u, UsageOf(p))
    /\ \A s \in Sessions : \A u, v \in Recorded(s) : SameRequest(u, v) => u = v

LogInv == LogTypes /\ Linked /\ (overlap \/ Once)

\* The calls by what they are.
LEMMA PubCallCases ==
    ASSUME NEW c \in PubCalls
    PROVE  /\ c.at \in {"event", "appendEvent"} => c.event \in Events
           /\ c.at \in {"usage", "appendUsage"} =>
                c.event \in Events /\ c.observation \in Observations
           /\ c = NoPublication \/ c.at \in {"event", "appendEvent", "usage", "appendUsage"}
           /\ c = NoPublication => c.at = "idle"
           /\ NoPublication \in PubCalls /\ NoPublication.at = "idle"
           /\ c.at = "event" => [c EXCEPT !.at = "appendEvent"] \in PubCalls
           /\ c.at = "usage" =>
                LET new == [c EXCEPT !.at = "appendUsage"]
                IN  /\ new \in PubCalls /\ new.at = "appendUsage"
                    /\ new.event = c.event /\ new.observation = c.observation
  BY SMTT(60) DEF PubCalls, NoPublication

\* A step that records no usage and leaves no call behind its checks keeps the
\* links and adds no second record.
LEMMA QuietPublication ==
    ASSUME LogInv, LogTypes', NEW p \in Publishers, NEW new,
           pub' = [pub EXCEPT ![p] = new],
           zcas \subseteq zcas', overlap' = overlap,
           \A s \in Sessions : Records(s) \subseteq Records(s)',
           \A s \in Sessions : Recorded(s)' = Recorded(s),
           new.at # "appendUsage",
           new.at = "usage" => {new.event, new.observation} \subseteq zcas'
    PROVE  LogInv'
<1>1. \A q \in Publishers : pub'[q] = IF q = p THEN new ELSE pub[q]
  BY DEF LogInv, LogTypes
<1>2. LogTypes /\ Linked /\ (overlap \/ Once)
  BY DEF LogInv
<1>4. Linked'
  <2>1. ASSUME NEW q \in Publishers
        PROVE  /\ pub'[q].at \in {"usage", "appendUsage"} =>
                    {pub'[q].event, pub'[q].observation} \subseteq zcas'
               /\ \A s \in Sessions : pub'[q].at = "appendUsage" /\ SessionOf[pub'[q].event] = s =>
                    pub'[q].event \in Records(s)'
    <3>1. CASE q = p
      <4>1. pub'[q] = new
        BY <3>1, <1>1
      <4> QED
        BY <4>1
    <3>2. CASE q # p
      <4>1. pub'[q] = pub[q]
        BY <3>2, <1>1
      <4>2. /\ pub[q].at \in {"usage", "appendUsage"} =>
                 {pub[q].event, pub[q].observation} \subseteq zcas
            /\ \A s \in Sessions : pub[q].at = "appendUsage" /\ SessionOf[pub[q].event] = s =>
                 pub[q].event \in Records(s)
        BY <1>2 DEF Linked
      <4> QED
        BY <4>1, <4>2
    <3> QED
      BY <3>1, <3>2
  <2>2. ASSUME NEW s \in Sessions, NEW u \in Recorded(s)'
        PROVE  /\ u.event \in Records(s)' /\ SessionOf[u.event] = s
               /\ {u.event, u.observation} \subseteq zcas'
    BY <1>2 DEF Linked
  <2> QED
    BY <2>1, <2>2 DEF Linked
<1>5. Once => Once'
  <2> SUFFICES ASSUME Once PROVE Once'
    OBVIOUS
  <2>1. \A q \in Publishers : pub'[q].at = "appendUsage" =>
          /\ pub[q].at = "appendUsage" /\ pub'[q] = pub[q]
          /\ UsageOf(q)' = UsageOf(q)
    <3> SUFFICES ASSUME NEW q \in Publishers, pub'[q].at = "appendUsage"
                 PROVE  /\ pub[q].at = "appendUsage" /\ pub'[q] = pub[q]
                        /\ UsageOf(q)' = UsageOf(q)
      OBVIOUS
    <3>1. q # p
      BY <1>1
    <3>2. pub'[q] = pub[q]
      BY <3>1, <1>1
    <3> QED
      BY <3>2 DEF UsageOf
  <2>2. \A s \in Sessions : \A u, v \in Recorded(s)' : SameRequest(u, v) => u = v
    BY DEF Once
  <2>3. \A q \in Publishers, s \in Sessions :
          pub'[q].at = "appendUsage" /\ SessionOf[pub'[q].event] = s =>
              \A u \in Recorded(s)' : ~ SameRequest(u, UsageOf(q)')
    BY <2>1 DEF Once
  <2>4. \A q, w \in Publishers :
          pub'[q].at = "appendUsage" /\ pub'[w].at = "appendUsage" /\ q # w =>
              pub'[q].event # pub'[w].event
    BY <2>1 DEF Once
  <2> QED
    BY <2>2, <2>3, <2>4 DEF Once
<1> QED
  BY <1>2, <1>4, <1>5 DEF LogInv

\* Empty logs have no usage and nothing expanded.
LEMMA LogInitial ==
    ASSUME LogInit PROVE LogInv /\ ExpandsToReference
<1>1. NoPublication \in PubCalls /\ NoPublication.at = "idle"
  BY SMTT(60) DEF PubCalls, NoPublication
<1>2. /\ << >> \in Seq(Events \cup {CutShort}) /\ << >> \in Seq(UsageRecord \cup {CutShort})
      /\ Range(<< >>) = {}
  BY SMTT(60) DEF Range
<1>3. LogTypes
  BY <1>1, <1>2 DEF LogInit, LogTypes
<1>4. /\ \A q \in Publishers : pub[q].at = "idle"
      /\ \A s \in Sessions : Recorded(s) = {}
  BY <1>1, <1>2 DEF LogInit, Recorded
<1>5. Linked /\ Once
  BY <1>4 DEF Linked, Once
<1>6. ExpandsToReference
  BY SMTT(60) DEF LogInit, ExpandsToReference, NoRange
<1> QED
  BY <1>3, <1>5, <1>6 DEF LogInv

\* publish_event stores the object and records no usage.
LEMMA PublishEventPreserves ==
    ASSUME LogInv, NEW p \in Publishers, NEW e \in Events, Publish(p, e) PROVE LogInv'
<1> DEFINE new == [at |-> "event", event |-> e]
<1>1. new \in PubCalls /\ new.at = "event"
  BY SMTT(60) DEF PubCalls
<1>2. /\ pub' = [pub EXCEPT ![p] = new] /\ zcas \subseteq zcas'
      /\ elog' = elog /\ ulog' = ulog /\ overlap' = overlap
  BY DEF Publish, PutObject
<1> HIDE DEF new
<1>3. LogTypes'
  BY <1>1, <1>2 DEF LogInv, LogTypes
<1>4. \A s \in Sessions : Records(s)' = Records(s) /\ Recorded(s)' = Recorded(s)
  BY <1>2 DEF Records, Recorded
<1> QED
  BY <1>1, <1>2, <1>3, <1>4, QuietPublication

\* The check of the limit passes the event on or gives up.
LEMMA CheckEventLimitPreserves ==
    ASSUME LogInv, NEW p \in Publishers, CheckEventLimit(p) PROVE LogInv'
<1>1. pub \in [Publishers -> PubCalls]
  BY DEF LogInv, LogTypes
<1>2. pub[p] \in PubCalls /\ pub[p].at = "event"
  BY <1>1 DEF CheckEventLimit
<1>3. PICK new \in {NoPublication, [pub[p] EXCEPT !.at = "appendEvent"]} :
          pub' = [pub EXCEPT ![p] = new]
  BY <1>1 DEF CheckEventLimit
<1>4. new \in PubCalls /\ new.at \in {"idle", "appendEvent"}
  <2>1. NoPublication \in PubCalls /\ NoPublication.at = "idle"
    BY <1>2, PubCallCases
  <2>2. [pub[p] EXCEPT !.at = "appendEvent"] \in PubCalls
    BY <1>2, PubCallCases
  <2>3. [pub[p] EXCEPT !.at = "appendEvent"].at = "appendEvent"
    BY <1>2, SMTT(60) DEF PubCalls, NoPublication
  <2> QED
    BY <2>1, <2>2, <2>3
<1>5. zcas' = zcas /\ elog' = elog /\ ulog' = ulog /\ overlap' = overlap
  BY DEF CheckEventLimit
<1>6. LogTypes'
  BY <1>3, <1>4, <1>5 DEF LogInv, LogTypes
<1>7. \A s \in Sessions : Records(s)' = Records(s) /\ Recorded(s)' = Recorded(s)
  BY <1>5 DEF Records, Recorded
<1> QED
  BY <1>3, <1>4, <1>5, <1>6, <1>7, QuietPublication

\* The logs after a line more for the event of a call.
LEMMA ElogGrows ==
    ASSUME LogInv, NEW p \in Publishers, pub[p].at = "appendEvent",
           NEW x \in Events \cup {CutShort},
           elog' = [elog EXCEPT ![SessionOf[pub[p].event]] = Append(@, x)]
    PROVE  /\ elog' \in [Sessions -> Seq(Events \cup {CutShort})]
           /\ \A s \in Sessions : Records(s) \subseteq Records(s)'
<1> DEFINE t == SessionOf[pub[p].event]
<1>1. elog \in [Sessions -> Seq(Events \cup {CutShort})] /\ pub[p] \in PubCalls
  BY DEF LogInv, LogTypes
<1>2. t \in Sessions
  BY <1>1, PubCallCases DEF Sessions
<1> HIDE DEF t
<1> DEFINE new == Append(elog[t], x)
<1>3. new \in Seq(Events \cup {CutShort}) /\ Range(new) = Range(elog[t]) \cup {x}
  <2> DEFINE S == Events \cup {CutShort}
  <2>1. elog[t] \in Seq(S) /\ x \in S /\ new = Append(elog[t], x)
    BY <1>1, <1>2
  <2> HIDE DEF new, S
  <2> DEFINE old == elog[t]
  <2>2. old \in Seq(S) /\ x \in S /\ new = Append(old, x)
    BY <2>1
  <2> HIDE DEF old
  <2>3. /\ new \in Seq(S)
        /\ DOMAIN new = DOMAIN old \cup {Len(old) + 1}
        /\ \A j \in DOMAIN old : new[j] = old[j]
        /\ new[Len(old) + 1] = x
    BY <2>2, SMTT(60)
  <2>4. Range(new) = Range(old) \cup {x}
    BY <2>3 DEF Range
  <2> QED
    BY <2>3, <2>4 DEF S, old
<1>4. \A s \in Sessions : elog'[s] = IF s = t THEN new ELSE elog[s]
  BY <1>1, <1>2 DEF t
<1> HIDE DEF new
<1> QED
  BY <1>1, <1>3, <1>4 DEF Records

\* The usage logs after a line more for the event of a call.
LEMMA UlogGrows ==
    ASSUME LogInv, NEW p \in Publishers, pub[p].at = "appendUsage",
           NEW x \in UsageRecord \cup {CutShort},
           ulog' = [ulog EXCEPT ![SessionOf[pub[p].event]] = Append(@, x)]
    PROVE  /\ ulog' \in [Sessions -> Seq(UsageRecord \cup {CutShort})]
           /\ \A s \in Sessions :
                Recorded(s)' = IF s = SessionOf[pub[p].event] THEN (Recorded(s) \cup {x}) \ {CutShort}
                               ELSE Recorded(s)
<1> DEFINE t == SessionOf[pub[p].event]
<1>1. ulog \in [Sessions -> Seq(UsageRecord \cup {CutShort})] /\ pub[p] \in PubCalls
  BY DEF LogInv, LogTypes
<1>2. t \in Sessions
  BY <1>1, PubCallCases DEF Sessions
<1> HIDE DEF t
<1> DEFINE new == Append(ulog[t], x)
<1>3. new \in Seq(UsageRecord \cup {CutShort}) /\ Range(new) = Range(ulog[t]) \cup {x}
  <2> DEFINE S == UsageRecord \cup {CutShort}
  <2>1. ulog[t] \in Seq(S) /\ x \in S /\ new = Append(ulog[t], x)
    BY <1>1, <1>2
  <2> HIDE DEF new, S
  <2> DEFINE old == ulog[t]
  <2>2. old \in Seq(S) /\ x \in S /\ new = Append(old, x)
    BY <2>1
  <2> HIDE DEF old
  <2>3. /\ new \in Seq(S)
        /\ DOMAIN new = DOMAIN old \cup {Len(old) + 1}
        /\ \A j \in DOMAIN old : new[j] = old[j]
        /\ new[Len(old) + 1] = x
    BY <2>2, SMTT(60)
  <2>4. Range(new) = Range(old) \cup {x}
    BY <2>3 DEF Range
  <2> QED
    BY <2>3, <2>4 DEF S, old
<1>4. \A s \in Sessions : ulog'[s] = IF s = t THEN new ELSE ulog[s]
  BY <1>1, <1>2 DEF t
<1> HIDE DEF new
<1> QED
  BY <1>1, <1>3, <1>4 DEF Recorded, t

\* The appended event joins the records of its session.
LEMMA AppendEventPreserves ==
    ASSUME LogInv, NEW p \in Publishers, AppendEvent(p) PROVE LogInv'
<1>1. pub \in [Publishers -> PubCalls] /\ pub[p] \in PubCalls /\ pub[p].at = "appendEvent"
  BY DEF LogInv, LogTypes, AppendEvent
<1>2. /\ pub' = [pub EXCEPT ![p] = NoPublication]
      /\ zcas' = zcas /\ ulog' = ulog /\ overlap' = overlap
  BY DEF AppendEvent
<1>3. NoPublication \in PubCalls /\ NoPublication.at = "idle" /\ pub[p].event \in Events
  BY <1>1, PubCallCases
<1>4. /\ elog' \in [Sessions -> Seq(Events \cup {CutShort})]
      /\ \A s \in Sessions : Records(s) \subseteq Records(s)'
  <2>1. elog' = [elog EXCEPT ![SessionOf[pub[p].event]] = Append(@, pub[p].event)]
    BY DEF AppendEvent
  <2> QED
    BY <1>1, <1>3, <2>1, ElogGrows
<1>5. LogTypes'
  BY <1>2, <1>3, <1>4 DEF LogInv, LogTypes
<1>6. \A s \in Sessions : Recorded(s)' = Recorded(s)
  BY <1>2 DEF Recorded
<1> QED
  BY <1>2, <1>3, <1>4, <1>5, <1>6, QuietPublication

\* publish_usage stores both objects and records nothing yet.
LEMMA PublishUsagePreserves ==
    ASSUME LogInv, NEW p \in Publishers, NEW e \in Events, NEW s \in Sessions,
           NEW o \in Observations, PublishUsage(p, e, s, o)
    PROVE  LogInv'
<1> DEFINE new == [at |-> "usage", event |-> e, observation |-> o]
<1>1. new \in PubCalls /\ new.at = "usage" /\ new.event = e /\ new.observation = o
  BY SMTT(60) DEF PubCalls
<1>2. /\ pub' = [pub EXCEPT ![p] = new] /\ zcas \subseteq zcas' /\ {e, o} \subseteq zcas'
      /\ elog' = elog /\ ulog' = ulog /\ overlap' = overlap
  BY DEF PublishUsage, PutObject
<1> HIDE DEF new
<1>3. LogTypes'
  BY <1>1, <1>2 DEF LogInv, LogTypes
<1>4. \A t \in Sessions : Records(t)' = Records(t) /\ Recorded(t)' = Recorded(t)
  BY <1>2 DEF Records, Recorded
<1> QED
  BY <1>1, <1>2, <1>3, <1>4, QuietPublication

\* The checks of a usage find its event recorded and its request unused.
LEMMA CheckUsagePreserves ==
    ASSUME LogInv, NEW p \in Publishers, CheckUsage(p) PROVE LogInv'
<1> DEFINE u == [event |-> pub[p].event, observation |-> pub[p].observation]
           admitted == Admits(u, SessionOf[u.event])
           other(q) == pub[q].at = "appendUsage" /\ pub[q].event = u.event
<1>1. LogTypes /\ Linked /\ (overlap \/ Once) /\ pub \in [Publishers -> PubCalls]
  BY DEF LogInv, LogTypes
<1>2. pub[p] \in PubCalls /\ pub[p].at = "usage"
  BY <1>1 DEF CheckUsage
<1>3. /\ pub' = [pub EXCEPT ![p] = IF admitted THEN [@ EXCEPT !.at = "appendUsage"]
                                   ELSE NoPublication]
      /\ overlap' = (overlap \/ (admitted /\ \E q \in Publishers : other(q)))
      /\ zcas' = zcas /\ elog' = elog /\ ulog' = ulog
  BY DEF CheckUsage
<1>4. \A s : Records(s)' = Records(s) /\ Recorded(s)' = Recorded(s)
  BY <1>3 DEF Records, Recorded
<1>5. u = UsageOf(p)
  BY DEF UsageOf
<1>6. CASE ~ admitted
  <2> HIDE DEF admitted
  <2>1. pub' = [pub EXCEPT ![p] = NoPublication]
    BY <1>1, <1>3, <1>6
  <2>2. overlap' = overlap
    <3> HIDE DEF other
    <3> QED
      BY <1>1, <1>3, <1>6 DEF LogTypes
  <2>3. NoPublication \in PubCalls /\ NoPublication.at = "idle"
    BY <1>2, PubCallCases
  <2>4. LogTypes'
    BY <1>1, <1>3, <2>1, <2>3 DEF LogTypes
  <2> QED
    BY <1>3, <1>4, <2>1, <2>2, <2>3, <2>4, QuietPublication
<1>7. CASE admitted
  <2> DEFINE new == [pub[p] EXCEPT !.at = "appendUsage"]
  <2>1. /\ new \in PubCalls /\ new.at = "appendUsage"
        /\ new.event = pub[p].event /\ new.observation = pub[p].observation
        /\ pub[p].event \in Events
    BY <1>2, PubCallCases
  <2>2. \A q \in Publishers : pub'[q] = IF q = p THEN new ELSE pub[q]
    <3> HIDE DEF admitted
    <3> QED
      BY <1>1, <1>3, <1>7
  <2>3. /\ u.event \in Records(SessionOf[u.event])
        /\ CutShort \notin Range(ulog[SessionOf[u.event]])
        /\ \A i \in DOMAIN ulog[SessionOf[u.event]] :
              ~ SameRequest(ulog[SessionOf[u.event]][i], u)
    BY <1>7 DEF Admits, Readable
  <2>4. u.event = pub[p].event
    OBVIOUS
  <2>5. \A v \in Recorded(SessionOf[pub[p].event]) : ~ SameRequest(v, u)
    <3> HIDE DEF u
    <3> QED
      BY <2>3, <2>4 DEF Recorded, Range
  <2>6. overlap' = (overlap \/ \E q \in Publishers : other(q))
    <3> HIDE DEF admitted, other
    <3> QED
      BY <1>3, <1>7
  <2> HIDE DEF new, u
  <2>7. LogTypes'
    <3>1. pub' \in [Publishers -> PubCalls]
      <4> HIDE DEF admitted
      <4>1. pub' = [pub EXCEPT ![p] = new]
        BY <1>3, <1>7 DEF new
      <4> QED
        BY <4>1, <1>1, <2>1
    <3> QED
      BY <3>1, <1>1, <1>3 DEF LogTypes
  <2>8. Linked'
    <3>1. ASSUME NEW q \in Publishers
          PROVE  /\ pub'[q].at \in {"usage", "appendUsage"} =>
                      {pub'[q].event, pub'[q].observation} \subseteq zcas'
                 /\ \A s \in Sessions : pub'[q].at = "appendUsage" /\ SessionOf[pub'[q].event] = s =>
                      pub'[q].event \in Records(s)'
      <4>1. CASE q = p
        <5>1. pub'[q] = new /\ zcas' = zcas
          BY <4>1, <2>2, <1>3
        <5>2. {pub[p].event, pub[p].observation} \subseteq zcas
          BY <1>1, <1>2 DEF Linked
        <5>3. pub[p].event \in Records(SessionOf[pub[p].event])
          BY <2>3, <2>4
        <5> QED
          BY <5>1, <5>2, <5>3, <1>4, <2>1
      <4>2. CASE q # p
        BY <4>2, <1>1, <1>3, <1>4, <2>2 DEF Linked
      <4> QED
        BY <4>1, <4>2
    <3>2. \A s \in Sessions : \A v \in Recorded(s)' :
            /\ v.event \in Records(s)' /\ SessionOf[v.event] = s
            /\ {v.event, v.observation} \subseteq zcas'
      BY <1>1, <1>3, <1>4 DEF Linked
    <3> QED
      BY <3>1, <3>2 DEF Linked
  <2>9. ~ overlap' => Once'
    <3> SUFFICES ASSUME ~ overlap' PROVE Once'
      OBVIOUS
    <3>1. Once /\ \A q \in Publishers : ~ other(q)
      BY <1>1, <2>6
    <3>2. UsageOf(p)' = u
      BY <2>1, <2>2 DEF UsageOf, u
    <3>3. \A q, w \in Publishers :
            pub'[q].at = "appendUsage" /\ pub'[w].at = "appendUsage" /\ q # w =>
                pub'[q].event # pub'[w].event
      <4>1. \A q \in Publishers : pub[q].at = "appendUsage" => pub[q].event # pub[p].event
        BY <3>1, <2>4
      <4>2. \A q, w \in Publishers :
              pub[q].at = "appendUsage" /\ pub[w].at = "appendUsage" /\ q # w =>
                  pub[q].event # pub[w].event
        BY <3>1 DEF Once
      <4> QED
        BY <4>1, <4>2, <2>1, <2>2
    <3>4. ASSUME NEW q \in Publishers, NEW s \in Sessions, pub'[q].at = "appendUsage",
                 SessionOf[pub'[q].event] = s, NEW v \in Recorded(s)'
          PROVE  ~ SameRequest(v, UsageOf(q)')
      <4>1. v \in Recorded(s)
        BY <3>4, <1>4
      <4>2. CASE q = p
        BY <4>1, <4>2, <2>1, <2>2, <2>5, <3>2, <3>4
      <4>3. CASE q # p
        <5>1. pub'[q] = pub[q] /\ UsageOf(q)' = UsageOf(q)
          BY <4>3, <2>2 DEF UsageOf
        <5> QED
          BY <5>1, <4>1, <3>1, <3>4 DEF Once
      <4> QED
        BY <4>2, <4>3
    <3>5. \A s \in Sessions : \A v, w \in Recorded(s)' : SameRequest(v, w) => v = w
      BY <3>1, <1>4 DEF Once
    <3> QED
      BY <3>3, <3>4, <3>5 DEF Once
  <2> QED
    BY <2>7, <2>8, <2>9 DEF LogInv
<1> QED
  BY <1>6, <1>7

\* The usage that is appended is linked, and alone unless calls overlapped.
LEMMA AppendUsagePreserves ==
    ASSUME LogInv, NEW p \in Publishers, AppendUsage(p) PROVE LogInv'
<1> DEFINE t == SessionOf[pub[p].event]
           x == UsageOf(p)
<1>1. LogTypes /\ Linked /\ (overlap \/ Once) /\ pub \in [Publishers -> PubCalls]
  BY DEF LogInv, LogTypes
<1>2. pub[p] \in PubCalls /\ pub[p].at = "appendUsage"
  BY <1>1 DEF AppendUsage
<1>3. pub' = [pub EXCEPT ![p] = NoPublication] /\ zcas' = zcas /\ elog' = elog /\ overlap' = overlap
  BY DEF AppendUsage
<1>4. /\ pub[p].event \in Events /\ pub[p].observation \in Observations
      /\ NoPublication \in PubCalls /\ NoPublication.at = "idle" /\ t \in Sessions
  BY <1>2, PubCallCases DEF Sessions
<1>5. /\ x \in UsageRecord /\ x.event = pub[p].event /\ x.observation = pub[p].observation
  BY <1>4, SMTT(60) DEF UsageRecord, UsageOf
<1>6. ulog' = [ulog EXCEPT ![t] = Append(@, x)]
  BY DEF AppendUsage, UsageOf
<1> HIDE DEF x
<1>7. /\ ulog' \in [Sessions -> Seq(UsageRecord \cup {CutShort})]
      /\ \A s \in Sessions :
           Recorded(s)' = IF s = t THEN (Recorded(s) \cup {x}) \ {CutShort} ELSE Recorded(s)
  BY <1>2, <1>5, <1>6, UlogGrows
<1>8. \A q \in Publishers : pub'[q] = IF q = p THEN NoPublication ELSE pub[q]
  BY <1>1, <1>3
<1>9. \A s : Records(s)' = Records(s)
  BY <1>3 DEF Records
<1>10. LogTypes'
  BY <1>1, <1>3, <1>4, <1>7 DEF LogTypes
<1>11. Linked'
  <2>1. ASSUME NEW q \in Publishers
        PROVE  /\ pub'[q].at \in {"usage", "appendUsage"} =>
                    {pub'[q].event, pub'[q].observation} \subseteq zcas'
               /\ \A s \in Sessions : pub'[q].at = "appendUsage" /\ SessionOf[pub'[q].event] = s =>
                    pub'[q].event \in Records(s)'
    BY <1>1, <1>3, <1>4, <1>8, <1>9 DEF Linked
  <2>2. ASSUME NEW s \in Sessions, NEW v \in Recorded(s)'
        PROVE  /\ v.event \in Records(s)' /\ SessionOf[v.event] = s
               /\ {v.event, v.observation} \subseteq zcas'
    <3>1. v \in Recorded(s) \/ (v = x /\ s = t)
      BY <2>2, <1>7
    <3>2. CASE v \in Recorded(s)
      BY <3>2, <1>1, <1>3, <1>9 DEF Linked
    <3>3. CASE v = x /\ s = t
      BY <3>3, <1>1, <1>2, <1>3, <1>5, <1>9 DEF Linked
    <3> QED
      BY <3>1, <3>2, <3>3
  <2> QED
    BY <2>1, <2>2 DEF Linked
<1>12. Once => Once'
  <2> SUFFICES ASSUME Once PROVE Once'
    OBVIOUS
  <2>1. \A q \in Publishers : pub'[q].at = "appendUsage" =>
          /\ q # p /\ pub[q].at = "appendUsage" /\ pub'[q] = pub[q]
          /\ UsageOf(q)' = UsageOf(q)
    BY <1>4, <1>8 DEF UsageOf
  <2>2. \A q, w \in Publishers :
          pub'[q].at = "appendUsage" /\ pub'[w].at = "appendUsage" /\ q # w =>
              pub'[q].event # pub'[w].event
    BY <2>1 DEF Once
  <2>3. ASSUME NEW q \in Publishers, NEW s \in Sessions, pub'[q].at = "appendUsage",
               SessionOf[pub'[q].event] = s, NEW v \in Recorded(s)'
        PROVE  ~ SameRequest(v, UsageOf(q)')
    <3>1. q # p /\ pub[q].at = "appendUsage" /\ pub'[q] = pub[q] /\ UsageOf(q)' = UsageOf(q)
      BY <2>1, <2>3
    <3>3. v \in Recorded(s) \/ v = x
      BY <2>3, <1>7
    <3>4. CASE v \in Recorded(s)
      BY <3>1, <3>4, <2>3 DEF Once
    <3>5. CASE v = x
      <4>1. pub[q].event # pub[p].event
        BY <3>1, <1>2 DEF Once
      <4>2. UsageOf(q).event = pub[q].event
        BY DEF UsageOf
      <4> QED
        BY <4>1, <4>2, <3>1, <3>5, <1>5 DEF SameRequest
    <3> QED
      BY <3>3, <3>4, <3>5
  <2>4. ASSUME NEW s \in Sessions, NEW v \in Recorded(s)', NEW w \in Recorded(s)',
               SameRequest(v, w)
        PROVE  v = w
    <3>1. /\ v \in Recorded(s) \/ (v = x /\ s = t)
          /\ w \in Recorded(s) \/ (w = x /\ s = t)
      BY <2>4, <1>7
    <3>2. \A z \in Recorded(t) : ~ SameRequest(z, x)
      BY <1>2, <1>4 DEF Once, x
    <3>3. SameRequest(w, v)
      BY <2>4 DEF SameRequest
    <3> QED
      BY <3>1, <3>2, <3>3, <2>4 DEF Once
  <2> QED
    BY <2>2, <2>3, <2>4 DEF Once
<1> QED
  BY <1>1, <1>3, <1>10, <1>11, <1>12 DEF LogInv

\* A publisher that dies leaves at most a line cut short.
LEMMA PublisherCrashesPreserves ==
    ASSUME LogInv, NEW p \in Publishers, PublisherCrashes(p) PROVE LogInv'
<1>1. LogTypes
  BY DEF LogInv
<1>2. pub' = [pub EXCEPT ![p] = NoPublication] /\ zcas' = zcas /\ overlap' = overlap
  BY DEF PublisherCrashes
<1>3. NoPublication \in PubCalls /\ NoPublication.at = "idle"
  BY SMTT(60) DEF PubCalls, NoPublication
<1>4. /\ elog' \in [Sessions -> Seq(Events \cup {CutShort})]
      /\ ulog' \in [Sessions -> Seq(UsageRecord \cup {CutShort})]
      /\ \A s \in Sessions : Records(s) \subseteq Records(s)' /\ Recorded(s)' = Recorded(s)
  <2>1. CASE UNCHANGED <<elog, ulog>>
    BY <1>1, <2>1 DEF LogTypes, Records, Recorded
  <2>2. CASE /\ pub[p].at = "appendEvent"
             /\ elog' = [elog EXCEPT ![SessionOf[pub[p].event]] = Append(@, CutShort)]
             /\ UNCHANGED ulog
    <3>1. \A s \in Sessions : Recorded(s)' = Recorded(s)
      BY <2>2 DEF Recorded
    <3>2. ulog' \in [Sessions -> Seq(UsageRecord \cup {CutShort})]
      BY <1>1, <2>2 DEF LogTypes
    <3> QED
      BY <2>2, <3>1, <3>2, ElogGrows
  <2>3. CASE /\ pub[p].at = "appendUsage"
             /\ ulog' = [ulog EXCEPT ![SessionOf[pub[p].event]] = Append(@, CutShort)]
             /\ UNCHANGED elog
    <3>1. \A s \in Sessions : Records(s)' = Records(s)
      BY <2>3 DEF Records
    <3>2. elog' \in [Sessions -> Seq(Events \cup {CutShort})]
      BY <1>1, <2>3 DEF LogTypes
    <3>3. CutShort \in UsageRecord \cup {CutShort}
      OBVIOUS
    <3>4. /\ ulog' \in [Sessions -> Seq(UsageRecord \cup {CutShort})]
          /\ \A s \in Sessions :
               Recorded(s)' = IF s = SessionOf[pub[p].event]
                              THEN (Recorded(s) \cup {CutShort}) \ {CutShort} ELSE Recorded(s)
      BY <2>3, <3>3, UlogGrows
    <3>5. \A s : (Recorded(s) \cup {CutShort}) \ {CutShort} = Recorded(s)
      BY DEF Recorded
    <3> QED
      BY <3>1, <3>2, <3>4, <3>5
  <2> QED
    BY <2>1, <2>2, <2>3 DEF PublisherCrashes
<1>5. LogTypes'
  BY <1>1, <1>2, <1>3, <1>4 DEF LogTypes
<1> QED
  BY <1>2, <1>3, <1>4, <1>5, QuietPublication

\* What the log answers is true for any number of publishers, sessions, events
\* and crashes and for an object of any size: usage that is read back is linked
\* to an event and an observation that exist, once unless calls overlapped, and
\* an expansion returns exactly the bytes that were asked for.
THEOREM LogAnswersTrueHolds == LogSpec => []LogAnswersTrue
<1> DEFINE Inv == LogInv /\ ExpandsToReference
<1>1. LogInit => Inv
  BY LogInitial
<1>2. Inv /\ [LogNext \/ Expand]_logVars => Inv'
  <2> SUFFICES ASSUME Inv, [LogNext \/ Expand]_logVars PROVE Inv'
    OBVIOUS
  <2>1. CASE UNCHANGED logVars
    <3>1. \A s : Records(s)' = Records(s) /\ Recorded(s)' = Recorded(s)
      BY <2>1 DEF logVars, Records, Recorded
    <3>2. \A p : UsageOf(p)' = UsageOf(p)
      BY <2>1 DEF logVars, UsageOf
    <3>3. LogInv'
      BY <2>1, <3>1, <3>2 DEF logVars, LogInv, LogTypes, Linked, Once
    <3> QED
      BY <2>1, <3>3 DEF logVars, ExpandsToReference
  <2>2. CASE Expand
    <3>1. \A s : Records(s)' = Records(s) /\ Recorded(s)' = Recorded(s)
      BY <2>2 DEF Expand, Records, Recorded
    <3>2. \A p : UsageOf(p)' = UsageOf(p)
      BY <2>2 DEF Expand, UsageOf
    <3>3. zcas' = zcas /\ elog' = elog /\ ulog' = ulog /\ pub' = pub /\ overlap' = overlap
      BY <2>2 DEF Expand
    <3>4. LogInv'
      BY <3>1, <3>2, <3>3 DEF LogInv, LogTypes, Linked, Once
    <3> QED
      BY <2>2, <3>4, ExpandIsExact
  <2>3. CASE LogNext
    <3>1. LogInv'
      BY <2>3, PublishEventPreserves, PublishUsagePreserves, CheckEventLimitPreserves,
         AppendEventPreserves, CheckUsagePreserves, AppendUsagePreserves,
         PublisherCrashesPreserves DEF LogNext
    <3>2. slice' = slice
      BY <2>3 DEF LogNext, Publish, PublishUsage, CheckEventLimit, AppendEvent, CheckUsage,
         AppendUsage, PublisherCrashes
    <3> QED
      BY <3>1, <3>2 DEF ExpandsToReference
  <2> QED
    BY <2>1, <2>2, <2>3
<1>3. Inv => LogAnswersTrue
  <2> SUFFICES ASSUME LogInv, ExpandsToReference PROVE LogAnswersTrue
    OBVIOUS
  <2>1. Linked /\ (overlap \/ Once)
    BY DEF LogInv
  <2> QED
    BY <2>1 DEF LogAnswersTrue, UsageIsLinkedOnce, Linked, Once, Recorded
<1> QED
  BY <1>1, <1>2, <1>3, PTL DEF LogSpec
=============================================================================

------------------------------ MODULE EventLog ------------------------------
(***************************************************************************)
(* The kernel's content-addressed store and event log (zero_cas.rs,         *)
(* event_log.rs).  An object is put in the store before a line that names   *)
(* it is appended to the log of its session, and a provider-usage record    *)
(* may only name an event that is in the log.  Publishers are processes:    *)
(* the store lock they take is shared, so between a publisher's checks and  *)
(* its append another may append too, and a crash may cut an append short.  *)
(* A line takes one unit of EVENT_LOG_BYTE_LIMIT.                           *)
(*                                                                          *)
(* expand_with_range selects bytes of an object by symbol, by lines or by   *)
(* offset; the index it reads was written by a producer and is not checked  *)
(* against the object.                                                      *)
(***************************************************************************)
EXTENDS Naturals, Sequences, FiniteSetsExt, Functions

CONSTANTS Publishers, Events, SessionOf, Observations, RequestOf, CutShort,
          LogLimit, MaxLogCrashes, Bytes

ASSUME BytesAssumption == Bytes \in Nat

VARIABLES zcas,      \* the objects of the store
          elog,      \* session -> lines of its event log
          ulog,      \* session -> lines of its usage log
          pub,       \* publisher -> the call in progress
          overlap,   \* history: two usage calls were between check and append
          logCrashes,
          slice      \* the result of the last expansion

logVars == <<zcas, elog, ulog, pub, overlap, logCrashes, slice>>

Sessions == {SessionOf[e] : e \in Events}

NoPublication == [at |-> "idle"]

\* ZeroCas::put: an existing object is verified, a new one written and read
\* back; either way the object is in the store when put returns.
PutObject(object) == zcas' = zcas \cup {object}

\* records and existing_usage_records: the whole log or an error.  One line that
\* is cut short, or a length over the limit, fails the read.
Readable(log) == Len(log) <= LogLimit /\ CutShort \notin Range(log)

Records(session) == Range(elog[session])

-----------------------------------------------------------------------------
\* publish, first half: the event becomes an object.
Publish(p, e) ==
    /\ pub[p] = NoPublication
    /\ PutObject(e)
    /\ pub' = [pub EXCEPT ![p] = [at |-> "event", event |-> e]]
    /\ UNCHANGED <<elog, ulog, overlap, logCrashes, slice>>

\* publish under the shared lock: the length of the log is read, and a record
\* that would pass the limit is refused.
CheckEventLimit(p) ==
    /\ pub[p].at = "event"
    /\ pub' = [pub EXCEPT ![p] = IF Len(elog[SessionOf[@.event]]) + 1 > LogLimit
                                 THEN NoPublication
                                 ELSE [@ EXCEPT !.at = "appendEvent"]]
    /\ UNCHANGED <<zcas, elog, ulog, overlap, logCrashes, slice>>

AppendEvent(p) ==
    /\ pub[p].at = "appendEvent"
    /\ elog' = [elog EXCEPT ![SessionOf[pub[p].event]] = Append(@, pub[p].event)]
    /\ pub' = [pub EXCEPT ![p] = NoPublication]
    /\ UNCHANGED <<zcas, ulog, overlap, logCrashes, slice>>

\* publish_provider_usage, first half: the event must be an object of the named
\* session; the observation becomes an object.
PublishUsage(p, e, session, o) ==
    /\ pub[p] = NoPublication
    /\ e \in zcas /\ SessionOf[e] = session
    /\ PutObject(o)
    /\ pub' = [pub EXCEPT ![p] = [at |-> "usage", event |-> e, observation |-> o]]
    /\ UNCHANGED <<elog, ulog, overlap, logCrashes, slice>>

SameRequest(u, v) ==
    u.event = v.event /\ RequestOf[u.observation] = RequestOf[v.observation]

\* A plausible slip: the event is looked for in the store, not in the log.
AdmitsUnlogged(u, session) ==
    /\ Readable(ulog[session]) /\ Len(ulog[session]) + 1 <= LogLimit
    /\ ~ \E i \in DOMAIN ulog[session] : SameRequest(ulog[session][i], u)

\* The checks under the shared lock: both logs are readable, the event is in
\* its session's log, no usage is recorded for this event and request, and the
\* log has room.
Admits(u, session) ==
    /\ Readable(elog[session]) /\ u.event \in Records(session)
    /\ Readable(ulog[session]) /\ Len(ulog[session]) + 1 <= LogLimit
    /\ ~ \E i \in DOMAIN ulog[session] : SameRequest(ulog[session][i], u)

\* An admitted usage goes on to its append.  Any other call ends here: the same
\* observation is already recorded (a retry is answered as the first call was),
\* a different one is (UsageConflict), or a check failed.
CheckUsage(p) ==
    /\ pub[p].at = "usage"
    /\ LET u == [event |-> pub[p].event, observation |-> pub[p].observation]
           admitted == Admits(u, SessionOf[u.event])
           other(q) == pub[q].at = "appendUsage" /\ pub[q].event = u.event
       IN  /\ pub' = [pub EXCEPT ![p] = IF admitted THEN [@ EXCEPT !.at = "appendUsage"]
                                        ELSE NoPublication]
           /\ overlap' = (overlap \/ (admitted /\ \E q \in Publishers : other(q)))
    /\ UNCHANGED <<zcas, elog, ulog, logCrashes, slice>>

AppendUsage(p) ==
    /\ pub[p].at = "appendUsage"
    /\ ulog' = [ulog EXCEPT ![SessionOf[pub[p].event]] =
                  Append(@, [event |-> pub[p].event, observation |-> pub[p].observation])]
    /\ pub' = [pub EXCEPT ![p] = NoPublication]
    /\ UNCHANGED <<zcas, elog, overlap, logCrashes, slice>>

\* A publisher crashes: between two steps, or within an append, which leaves a
\* line cut short.
PublisherCrashes(p) ==
    /\ pub[p] # NoPublication /\ logCrashes < MaxLogCrashes
    /\ \/ UNCHANGED <<elog, ulog>>
       \/ /\ pub[p].at = "appendEvent"
          /\ elog' = [elog EXCEPT ![SessionOf[pub[p].event]] = Append(@, CutShort)]
          /\ UNCHANGED ulog
       \/ /\ pub[p].at = "appendUsage"
          /\ ulog' = [ulog EXCEPT ![SessionOf[pub[p].event]] = Append(@, CutShort)]
          /\ UNCHANGED elog
    /\ pub' = [pub EXCEPT ![p] = NoPublication]
    /\ logCrashes' = logCrashes + 1
    /\ UNCHANGED <<zcas, overlap, slice>>

-----------------------------------------------------------------------------
\* SelectionIndex::from_utf8 of an object of Bytes bytes whose newlines are the
\* bytes before the positions of newlines: a line starts at 0 and behind every
\* newline that is not the last byte.
LineStarts(newlines) ==
    LET starts == {0} \cup {i \in newlines : i < Bytes}
    IN  [k \in 1..Cardinality(starts) |->
           CHOOSE i \in starts : Cardinality({j \in starts : j <= i}) = k]

NoRange == [start |-> 1, end |-> 0]

\* SelectionIndex::line_range: one-based inclusive lines; a line end beyond the
\* index is the end of the object.
LineRange(starts, first, last) ==
    IF first = 0 \/ last < first \/ first > Len(starts) THEN NoRange
    ELSE [start |-> starts[first],
          end   |-> Min({Bytes, IF last < Len(starts) THEN starts[last + 1] ELSE Bytes})]

OffsetRange(offset, limit) ==
    LET start == Min({offset, Bytes})
    IN  [start |-> start, end |-> Min({start + limit, Bytes})]

\* The symbol arm: both ends of the published symbol, cut at the object's end.
SymbolRange(start, end) == [start |-> Min({start, Bytes}), end |-> Min({end, Bytes})]

\* expand_with_range: with the producer's index when there is one (any sorted
\* or unsorted positions), with the object's own otherwise.
Expand ==
    /\ \E newlines \in SUBSET (1..Bytes), first, last \in 0..Bytes + 1 :
          \/ slice' = [by |-> "lines", newlines |-> newlines, first |-> first, last |-> last,
                       range |-> LineRange(LineStarts(newlines), first, last)]
          \/ \E a, b \in {0, 2, Bytes + 1} :
                slice' = [by |-> "index", range |-> LineRange(<<0, a, b>>, first, last)]
          \/ slice' = [by |-> "offset", range |-> OffsetRange(first, last)]
          \/ slice' = [by |-> "symbol", range |-> SymbolRange(first, last)]
    /\ UNCHANGED <<zcas, elog, ulog, pub, overlap, logCrashes>>

-----------------------------------------------------------------------------
LogInit ==
    /\ zcas = {} /\ overlap = FALSE /\ logCrashes = 0
    /\ elog = [s \in Sessions |-> << >>] /\ ulog = [s \in Sessions |-> << >>]
    /\ pub = [p \in Publishers |-> NoPublication]
    /\ slice = [by |-> "nothing", range |-> NoRange]

LogNext ==
    \E p \in Publishers :
        \/ \E e \in Events : Publish(p, e)
        \/ \E e \in Events, s \in Sessions, o \in Observations : PublishUsage(p, e, s, o)
        \/ CheckEventLimit(p) \/ AppendEvent(p) \/ CheckUsage(p) \/ AppendUsage(p)
        \/ PublisherCrashes(p)

LogSpec == LogInit /\ [][LogNext \/ Expand]_logVars

-----------------------------------------------------------------------------
\* Every usage record that can be read back names an event that is in the log of
\* its own session and an observation that is in the store, and a request has two
\* different observations only if two publishers' calls overlapped: crashes
\* between put and append, retries and concurrent publishers break neither.
UsageIsLinkedOnce ==
    \A s \in Sessions :
        LET usage == Range(ulog[s]) \ {CutShort}
        IN  /\ \A u \in usage : /\ u.event \in Records(s) /\ SessionOf[u.event] = s
                                /\ {u.event, u.observation} \subseteq zcas
            /\ overlap \/ \A u, v \in usage : SameRequest(u, v) => u = v

\* The bytes whose line, the number of newlines before them, is asked for.
BytesOfLines(newlines, first, last) ==
    LET Line(b) == 1 + Cardinality({i \in newlines : i <= b})
    IN  {b \in 0..(Bytes - 1) : Line(b) \in first..last}

\* An expansion that succeeds stays inside the object whatever the published
\* index says, and without an index it returns exactly the bytes of the lines
\* asked for.
ExpandsToReference ==
    LET r == slice.range
    IN  r.start <= r.end =>
          /\ r.end <= Bytes
          /\ slice.by = "lines" =>
               r.start .. (r.end - 1) = BytesOfLines(slice.newlines, slice.first, slice.last)

\* What the log answers is what was published: linked usage, whole ranges.
LogAnswersTrue == UsageIsLinkedOnce /\ ExpandsToReference
=============================================================================

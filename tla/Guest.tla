------------------------------- MODULE Guest -------------------------------
(***************************************************************************)
(* The code-mode interpreter of zero-codemode: how a guest program's tool  *)
(* calls, promises and callbacks are run.                                  *)
(*                                                                         *)
(* The interpreter is one thread without an event loop.  `await` is a      *)
(* nested call: resolve and pump run whatever the awaited promise needs,   *)
(* callbacks included, so the Rust call stack is part of the state.  It is *)
(* `stack` here; a frame is a call in progress and `ret` is the result     *)
(* that the last finished call hands to the frame below.  Connector        *)
(* threads complete tool calls through a channel (`channel`), which the    *)
(* interpreter drains only at its loop heads.                              *)
(*                                                                         *)
(* A guest program is a sequence of instructions, the statements whose     *)
(* effects the promise machinery sees; expressions, objects and strings    *)
(* are data.  The wall deadline, cancellation and the instruction budget   *)
(* all reach the interpreter through tick, and are one flag, `stopped`.    *)
(***************************************************************************)
EXTENDS Naturals, Sequences, FiniteSets, SequencesExt

CONSTANTS
    Programs,          \* guest programs: [name, code, prefetch]
    Bodies,            \* callback name -> code
    Saved,             \* session states a cell may start from: key -> bytes
    Answers,           \* what a connector may answer: "ok", "large", "error", "bad"
    NeedDeadline,      \* names of programs that wait for what nobody will do
    MaxInflight,       \* max_inflight_connector_calls
    MaxCalls,          \* max_connector_calls
    MaxPromises,       \* memory_bytes / ESTIMATED_CONNECTOR_PROMISE_BYTES
    MaxDepth,          \* max_depth: nested resolve, pump and function calls
    MicrotaskCeiling,  \* microtask_ceiling
    TraceLimit,        \* OPERATION_TRACE_LIMIT
    ValueLimit,        \* STATE_VALUE_BYTE_LIMIT
    TotalLimit,        \* STATE_TOTAL_BYTE_LIMIT
    KeyLimit           \* STATE_KEY_LIMIT

ASSUME GuestLimits == {MaxInflight, MaxCalls, MaxDepth, MicrotaskCeiling} \subseteq Nat \ {0}

VARIABLES
    program,     \* the guest program being run
    stack,       \* calls in progress, the innermost last
    ret,         \* result handed to the innermost call, or <<>>
    names,       \* guest variables -> values
    promises,    \* sequence -> [kind, kids, on, out, known]
    sequence,    \* next_sequence
    inflight,    \* inflight_connector_calls
    calls,       \* connector_dispatches
    running,     \* dispatched calls whose connector has not answered
    channel,     \* answers sent and not yet received
    answered,    \* history: every answer a connector gave
    prefetched,  \* program counter -> promise of a call made ahead
    streak,      \* microtask_streak
    trace,       \* operations: sequence -> "open", "completed", "failed"
    kept,        \* z.state: key -> bytes
    bytes,       \* state_bytes
    stopped,     \* cancelled, past the deadline, or out of instructions
    end          \* how the cell ended, or <<>>

guestVars == <<program, stack, ret, names, promises, sequence, inflight, calls, running,
               channel, answered, prefetched, streak, trace, kept, bytes, stopped, end>>

Undefined == <<"data", "undefined">>
Thrown == <<"data", "error">>

Frame(fn, id, at, k, acc) == [fn |-> fn, id |-> id, at |-> at, k |-> k, acc |-> acc]

Unsettled(kind, kids, on) == [kind |-> kind, kids |-> kids, on |-> on, out |-> <<>>, known |-> TRUE]

SumOf(state) == MapThenSumSet(LAMBDA key : state[key], DOMAIN state)

\* A saved session state is loaded only within the limits z.state enforces.
state_hydrate(saved) ==
    /\ Cardinality(DOMAIN saved) <= KeyLimit
    /\ \A key \in DOMAIN saved : saved[key] <= ValueLimit
    /\ SumOf(saved) <= TotalLimit

GuestInit ==
    /\ program \in Programs
    /\ stack = <<Frame("guest", 0, "prefetch", 1, program.code)>>
    /\ names = << >>
    /\ promises = << >>
    /\ sequence = 1
    /\ running = {} /\ channel = {} /\ answered = {}
    /\ prefetched = << >> /\ trace = << >>
    /\ kept \in {saved \in Saved : state_hydrate(saved)} /\ bytes = SumOf(kept)
    /\ inflight = 0 /\ calls = 0 /\ streak = 0
    /\ stopped = FALSE
    /\ ret = <<>> /\ end = <<>>

-----------------------------------------------------------------------------
(* Calls and returns. *)

Top == Last(stack)

In(fn, at) == end = <<>> /\ stack # <<>> /\ Top.fn = fn /\ Top.at = at

Enters(fn, at) == In(fn, at) /\ ret = <<>>

Resumes(fn, at) == In(fn, at) /\ ret # <<>>

Become(frame) == stack' = Append(Front(stack), frame) /\ ret' = <<>>

Return(result) == stack' = Front(stack) /\ ret' = result

Host(why) == <<"host", why>>

Failed(result) == result[1] = "host"

\* DepthGuard::enter fails inside the callee, so the caller sees a host fault.
Depth == Cardinality({i \in DOMAIN stack : stack[i].fn \in {"guest", "resolve", "pump"}})

Invoke(caller, callee) ==
    LET deep == callee.fn \in {"guest", "resolve", "pump"} /\ Depth >= MaxDepth
        waiting == Append(Front(stack), caller)
    IN  /\ stack' = IF deep THEN waiting ELSE Append(waiting, callee)
        /\ ret' = IF deep THEN Host("depth") ELSE <<>>

ResolveCall(id) == Frame("resolve", id, "start", 0, <<>>)
PumpCall(id) == Frame("pump", id, "loop", 0, <<>>)
ProgressCall(id) == Frame("progress", id, "start", 0, FALSE)
FunctionCall(name) == Frame("guest", 0, "call", 1, Bodies[name])

-----------------------------------------------------------------------------
(* Promises. *)

Known(id) == id \in DOMAIN promises /\ promises[id].known

IsPending(P, id, kind) == id \in DOMAIN P /\ P[id].known /\ P[id].out = <<>> /\ P[id].kind = kind

SettledIn(P, id) == id \in DOMAIN P /\ P[id].known /\ P[id].out # <<>>

FulfilledIn(P, id) == SettledIn(P, id) /\ P[id].out[1] = "ok"

RejectedIn(P, id) == SettledIn(P, id) /\ P[id].out[1] # "ok"

With(P, id, out) == [P EXCEPT ![id].out = out]

\* What settle makes of an answer: an oversized or failed one rejects, one that
\* cannot be converted fails the host.
Outcome(id, answer) ==
    CASE answer = "ok" -> <<"ok", <<"tool", id>>>>
      [] answer \in {"large", "error"} -> <<"throw", <<"tool", id>>>>
      [] answer = "bad" -> Host("data")

complete_operation(T, id, done) ==
    [i \in DOMAIN T |-> IF i = id /\ T[i] = "open" THEN (IF done THEN "completed" ELSE "failed") ELSE T[i]]

start_operation(T, id) ==
    IF Cardinality(DOMAIN T) >= TraceLimit THEN T
    ELSE [i \in DOMAIN T \cup {id} |-> IF i = id THEN "open" ELSE T[i]]

Received == {m[1] : m \in channel}

AnswerTo(id) == (CHOOSE m \in channel : m[1] = id)[2]

Unexpected == \E id \in Received : ~IsPending(promises, id, "tool")

\* The promises once every waiting answer has been settled.
Drained ==
    [id \in DOMAIN promises |->
        IF id \in Received THEN [promises[id] EXCEPT !.out = Outcome(id, AnswerTo(id))] ELSE promises[id]]

\* drain: settle everything in the channel.  The code fails on an answer nobody
\* waits for; PromisesAreKept shows that there is none.
drain ==
    /\ ~Unexpected
    /\ promises' = Drained
    /\ inflight' = inflight - Cardinality(Received)
    /\ trace' = [id \in DOMAIN trace |->
                    IF id \in Received /\ trace[id] = "open"
                      THEN (IF AnswerTo(id) = "ok" THEN "completed" ELSE "failed") ELSE trace[id]]
    /\ channel' = {}

undrained == UNCHANGED <<promises, inflight, trace, channel>>

outside == <<program, names, sequence, calls, running, answered, prefetched, kept, bytes, stopped, end>>

\* The polling loops of pump, race, all, wait_for_dispatch_slot and
\* finish_inflight: tick, then wait for an answer and look again.
Wait ==
    /\ stack # <<>> /\ ret = <<>> /\ Top.at = "wait"
    /\ \/ stopped /\ Return(Host("stopped")) /\ UNCHANGED streak
       \/ channel # {} /\ Become([Top EXCEPT !.at = "loop"]) /\ streak' = 0
    /\ undrained /\ UNCHANGED outside

-----------------------------------------------------------------------------
(* resolve, pump and the combinators. *)

resolve ==
    /\ Enters("resolve", "start")
    /\ Invoke([Top EXCEPT !.at = "pumped"], PumpCall(Top.id))
    /\ undrained /\ UNCHANGED <<outside, streak>>

\* What resolve does with the promise pump leaves behind.
resolve_pumped ==
    /\ Resumes("resolve", "pumped")
    /\ LET p == promises[Top.id] IN
       IF Failed(ret) THEN Return(ret)
       ELSE IF ~Known(Top.id) THEN Return(Host("unknown"))
       ELSE IF p.out # <<>> THEN Return(p.out)
       ELSE CASE p.kind = "all" -> Invoke([Top EXCEPT !.at = "all"], Frame("all", Top.id, "loop", 1, FALSE))
              [] p.kind = "race" -> Invoke([Top EXCEPT !.at = "race"], Frame("race", Top.id, "loop", 1, FALSE))
              [] p.kind = "settled" -> Become([Top EXCEPT !.at = "settled", !.k = 1])
    /\ undrained /\ UNCHANGED <<outside, streak>>

\* A variant that keeps only a fulfilment.
ResolveUnpersisted ==
    /\ Resumes("resolve", "all") \/ Resumes("resolve", "winner")
    /\ promises' = IF ret[1] = "ok" THEN With(promises, Top.id, ret) ELSE promises
    /\ Return(ret)
    /\ UNCHANGED <<outside, streak, inflight, trace, channel>>

\* Promise.all and the winner of Promise.race: the outcome, faults included, is
\* persisted under the combinator (persist_combinator_fault).
resolve_persist ==
    /\ Resumes("resolve", "all") \/ Resumes("resolve", "winner")
    /\ promises' = With(promises, Top.id, ret)
    /\ Return(ret)
    /\ UNCHANGED <<outside, streak, inflight, trace, channel>>

resolve_race ==
    /\ Resumes("resolve", "race")
    /\ IF Failed(ret) THEN Return(ret) ELSE Invoke([Top EXCEPT !.at = "winner"], ResolveCall(ret[2]))
    /\ undrained /\ UNCHANGED <<outside, streak>>

\* Promise.allSettled resolves its children one after the other.
resolve_settled ==
    /\ Enters("resolve", "settled")
    /\ LET kids == promises[Top.id].kids
           out == <<"ok", <<"list", Top.acc>>>>
       IN  IF Top.k > Len(kids)
             THEN promises' = With(promises, Top.id, out) /\ Return(out)
             ELSE Invoke(Top, ResolveCall(kids[Top.k])) /\ UNCHANGED promises
    /\ UNCHANGED <<outside, streak, inflight, trace, channel>>

resolve_settled_next ==
    /\ Resumes("resolve", "settled")
    /\ IF Failed(ret) THEN Return(ret)
       ELSE Become([Top EXCEPT !.k = @ + 1, !.acc = Append(@, ret)])
    /\ undrained /\ UNCHANGED <<outside, streak>>

\* The oldest pending chain whose parent is settled, which pump runs in the hope
\* that it settles a manual promise.
Runnable(P) ==
    {id \in DOMAIN P : IsPending(P, id, "then") /\ SettledIn(P, P[id].kids[1])}

pump ==
    /\ Enters("pump", "loop")
    /\ drain
    /\ LET p == Drained[Top.id]
           chains == Runnable(Drained)
       IN  IF ~Known(Top.id) THEN Return(Host("unknown")) /\ UNCHANGED streak
           ELSE IF p.out # <<>> \/ p.kind \in {"all", "settled", "race"}
             THEN Return(<<"ok", Undefined>>) /\ UNCHANGED streak
           ELSE IF p.kind = "then"
             THEN IF streak >= MicrotaskCeiling THEN Return(Host("microtasks")) /\ streak' = streak + 1
                  ELSE Invoke([Top EXCEPT !.at = "parent"], ResolveCall(p.kids[1])) /\ streak' = streak + 1
           ELSE IF p.kind = "manual" /\ chains # {}
             THEN Invoke([Top EXCEPT !.at = "chain"], PumpCall(Min(chains))) /\ UNCHANGED streak
           ELSE Become([Top EXCEPT !.at = "wait"]) /\ UNCHANGED streak
    /\ UNCHANGED outside

pump_chain ==
    /\ Resumes("pump", "chain")
    /\ IF Failed(ret) THEN Return(ret) ELSE Become([Top EXCEPT !.at = "loop"])
    /\ undrained /\ UNCHANGED <<outside, streak>>

\* apply_then_callback: the parent's outcome chooses the callback; without one it
\* passes through; a promise the callback returns is resolved before the chain is.
apply_then_callback ==
    /\ \E at \in {"parent", "called", "child"} : Resumes("pump", at)
    /\ LET callback == promises[Top.id].on[IF ret[1] = "ok" THEN 1 ELSE 2] IN
       IF Failed(ret) THEN Return(ret) /\ UNCHANGED promises
       ELSE IF Top.at = "parent" /\ callback # "none"
         THEN Invoke([Top EXCEPT !.at = "called"], FunctionCall(callback)) /\ UNCHANGED promises
       ELSE IF Top.at = "called" /\ ret[1] = "ok" /\ ret[2][1] = "promise"
         THEN Invoke([Top EXCEPT !.at = "child"], ResolveCall(ret[2][2])) /\ UNCHANGED promises
       ELSE Become([Top EXCEPT !.at = "loop"]) /\ promises' = With(promises, Top.id, ret)
    /\ UNCHANGED <<outside, streak, inflight, trace, channel>>

Kids == promises[Top.id].kids

FirstOf(ids, P, Test(_, _)) == ids[Min({i \in DOMAIN ids : Test(P, ids[i])})]

Some(ids, P, Test(_, _)) == \E i \in DOMAIN ids : Test(P, ids[i])

Every(ids, P, Test(_, _)) == \A i \in DOMAIN ids : Test(P, ids[i])

\* all: a rejected child ends it before any wait for an earlier pending one.
all ==
    /\ Enters("all", "loop")
    /\ drain
    /\ IF Some(Kids, Drained, RejectedIn)
         THEN Return(Drained[FirstOf(Kids, Drained, RejectedIn)].out)
       ELSE IF Every(Kids, Drained, FulfilledIn)
         THEN Return(<<"ok", <<"list", [i \in DOMAIN Kids |-> Drained[Kids[i]].out[2]]>>>>)
       ELSE Become([Top EXCEPT !.at = "kids", !.k = 1, !.acc = FALSE])
    /\ UNCHANGED <<outside, streak>>

\* race: a settled child wins before any child is run.
race ==
    /\ Enters("race", "loop")
    /\ drain
    /\ IF Kids = <<>> THEN Return(Host("data"))
       ELSE IF Some(Kids, Drained, SettledIn)
         THEN Return(<<"winner", FirstOf(Kids, Drained, SettledIn)>>)
       ELSE Become([Top EXCEPT !.at = "kids", !.k = 1, !.acc = FALSE])
    /\ UNCHANGED <<outside, streak>>

\* Both then run each child a little way, and wait if no child moved.
advance_children ==
    /\ Enters("all", "kids") \/ Enters("race", "kids")
    /\ IF Top.k <= Len(Kids) THEN Invoke(Top, ProgressCall(Kids[Top.k]))
       ELSE Become([Top EXCEPT !.at = IF Top.acc THEN "loop" ELSE "wait"])
    /\ undrained /\ UNCHANGED <<outside, streak>>

child_advanced ==
    /\ Resumes("all", "kids") \/ Resumes("race", "kids")
    /\ IF Failed(ret) THEN Return(ret)
       ELSE IF ret[2] /\ Top.fn = "race" /\ Some(Kids, promises, SettledIn)
         THEN Return(<<"winner", FirstOf(Kids, promises, SettledIn)>>)
       ELSE IF ret[2] /\ Top.fn = "all" /\ Some(Kids, promises, RejectedIn)
         THEN Become([Top EXCEPT !.at = "loop"])
       ELSE Become([Top EXCEPT !.k = @ + 1, !.acc = @ \/ ret[2]])
    /\ undrained /\ UNCHANGED <<outside, streak>>

combinator_can_settle(p) ==
    CASE p.kind = "all" -> Some(p.kids, promises, RejectedIn) \/ Every(p.kids, promises, FulfilledIn)
      [] p.kind = "settled" -> Every(p.kids, promises, SettledIn)
      [] p.kind = "race" -> Some(p.kids, promises, SettledIn)

\* progress_race_child: run a chain whose parent is settled; for a combinator,
\* run its children and settle it when they allow it.
progress_race_child ==
    /\ Enters("progress", "start")
    /\ LET p == promises[Top.id] IN
       IF ~Known(Top.id) \/ p.out # <<>> \/ p.kind \in {"tool", "manual", "made"}
         THEN Return(<<"progress", FALSE>>)
       ELSE IF p.kind # "then" THEN Become([Top EXCEPT !.at = "kids", !.k = 1])
       ELSE IF SettledIn(promises, p.kids[1]) THEN Invoke([Top EXCEPT !.at = "ran"], PumpCall(Top.id))
       ELSE Return(<<"progress", FALSE>>)
    /\ undrained /\ UNCHANGED <<outside, streak>>

progress_children ==
    /\ Enters("progress", "kids")
    /\ IF Top.k <= Len(Kids) THEN Invoke(Top, ProgressCall(Kids[Top.k]))
       ELSE IF combinator_can_settle(promises[Top.id]) THEN Invoke([Top EXCEPT !.at = "ran"], ResolveCall(Top.id))
       ELSE Return(<<"progress", Top.acc>>)
    /\ undrained /\ UNCHANGED <<outside, streak>>

progress_child_advanced ==
    /\ Resumes("progress", "kids")
    /\ IF Failed(ret) THEN Return(ret) ELSE Become([Top EXCEPT !.k = @ + 1, !.acc = @ \/ ret[2]])
    /\ undrained /\ UNCHANGED <<outside, streak>>

progress_ran ==
    /\ Resumes("progress", "ran")
    /\ Return(IF Failed(ret) THEN ret ELSE <<"progress", TRUE>>)
    /\ undrained /\ UNCHANGED <<outside, streak>>

-----------------------------------------------------------------------------
(* Tool calls. *)

Value(name) == IF name \in DOMAIN names THEN names[name] ELSE Undefined

IsPromise(value) == value[1] = "promise"

Bind(name, value) == names' = [n \in DOMAIN names \cup {name} |-> IF n = name THEN value ELSE names[n]]

Instruction == IF Top.k <= Len(Top.acc) THEN Top.acc[Top.k] ELSE <<"return", "undefined">>

Prefetching == Top.at = "prefetch"

GuestAt(op) == stack # <<>> /\ Top.fn = "guest" /\ Instruction[1] = op /\ (Prefetching => Top.k <= program.prefetch)

Statement(op) == GuestAt(op) /\ ret = <<>> /\ ~stopped

Step == Become([Top EXCEPT !.k = @ + 1])

\* A fault ends the function; the prefetch plan drops it and goes on.
Fault(result) == IF Prefetching THEN Step ELSE Return(result)

wait_for_dispatch_slot ==
    /\ Enters("slot", "loop")
    /\ drain
    /\ IF inflight' < MaxInflight THEN Return(<<"ok", Undefined>>) ELSE Become([Top EXCEPT !.at = "wait"])
    /\ UNCHANGED <<outside, streak>>

\* call_tool up to the dispatch: the call budget, then a free slot.
call_tool ==
    /\ Statement("tool") /\ ~(Top.at = "main" /\ Top.k \in DOMAIN prefetched)
    /\ \/ calls >= MaxCalls /\ Fault(Host("calls"))
       \/ calls < MaxCalls /\ inflight >= MaxInflight /\ Invoke(Top, Frame("slot", 0, "loop", 0, <<>>))
    /\ undrained /\ UNCHANGED <<outside, streak>>

MayDispatch ==
    /\ GuestAt("tool")
    /\ \/ ret = <<>> /\ ~stopped /\ calls < MaxCalls /\ inflight < MaxInflight
          /\ ~(Top.at = "main" /\ Top.k \in DOMAIN prefetched)
       \/ ret # <<>> /\ ~Failed(ret)

\* The cell's connector: find, run and plain reads answer from a thread of their
\* own, every other method before dispatch returns.
spawn_concurrent(id) == running' = running \cup {id} /\ UNCHANGED <<channel, answered>>

dispatch_direct(id) ==
    \E answer \in Answers :
        /\ Cardinality(channel) < MaxInflight
        /\ channel' = channel \cup {<<id, answer>>}
        /\ answered' = answered \cup {<<id, answer>>}
        /\ UNCHANGED running

\* The promise is registered and traced before the connector is asked, because a
\* connector may answer inside dispatch; it is removed again if dispatch refuses.
dispatch ==
    /\ MayDispatch
    /\ Cardinality({id \in DOMAIN promises : promises[id].known}) < MaxPromises
    /\ sequence' = sequence + 1
    /\ promises' = promises @@ (sequence :> Unsettled("tool", <<>>, <<>>))
    /\ trace' = start_operation(trace, sequence)
    /\ inflight' = inflight + 1
    /\ calls' = calls + 1
    /\ IF Prefetching THEN prefetched' = prefetched @@ (Top.k :> sequence) /\ UNCHANGED names
       ELSE Bind(Instruction[2], <<"promise", sequence>>) /\ UNCHANGED prefetched
    /\ Step
    /\ spawn_concurrent(sequence) \/ dispatch_direct(sequence)
    /\ UNCHANGED <<program, streak, kept, bytes, stopped, end>>

dispatch_refused ==
    /\ MayDispatch
    /\ LET full == Cardinality({id \in DOMAIN promises : promises[id].known}) >= MaxPromises IN
       /\ sequence' = IF full THEN sequence ELSE sequence + 1
       /\ trace' = IF full THEN trace ELSE complete_operation(start_operation(trace, sequence), sequence, FALSE)
       /\ Fault(IF full THEN Host("memory") ELSE <<"throw", Thrown>>)
    /\ UNCHANGED <<program, names, promises, inflight, calls, running, channel, answered, prefetched,
                   streak, kept, bytes, stopped, end>>

slot_denied ==
    /\ GuestAt("tool") /\ ret # <<>> /\ Failed(ret)
    /\ Fault(ret)
    /\ undrained /\ UNCHANGED <<outside, streak>>

\* The call was made ahead by the prefetch plan.
take_prefetched ==
    /\ Statement("tool") /\ Top.at = "main" /\ Top.k \in DOMAIN prefetched
    /\ Bind(Instruction[2], <<"promise", prefetched[Top.k]>>)
    /\ prefetched' = [k \in DOMAIN prefetched \ {Top.k} |-> prefetched[k]]
    /\ Step
    /\ undrained
    /\ UNCHANGED <<program, sequence, calls, running, answered, streak, kept, bytes, stopped, end>>

\* compile_finalized_prefetch_plan is done; the program starts.
prefetch_done ==
    /\ stack # <<>> /\ Top.fn = "guest" /\ Prefetching /\ Top.k > program.prefetch
    /\ Become([Top EXCEPT !.at = "main", !.k = 1])
    /\ undrained /\ UNCHANGED <<outside, streak>>

-----------------------------------------------------------------------------
(* The other statements of the guest. *)

\* tick at the head of every statement and expression.
tick ==
    /\ stack # <<>> /\ Top.fn = "guest" /\ ret = <<>> /\ stopped
    /\ Prefetching => Top.k <= program.prefetch
    /\ Fault(Host("stopped"))
    /\ undrained /\ UNCHANGED <<outside, streak>>

Creates(new, name) ==
    /\ promises' = promises @@ new
    /\ sequence' = sequence + Cardinality(DOMAIN new)
    /\ Bind(name, <<"promise", sequence + Cardinality(DOMAIN new) - 1>>)
    /\ Step
    /\ UNCHANGED <<program, inflight, calls, running, channel, answered, prefetched, streak, trace,
                   kept, bytes, stopped, end>>

Made(out) == [Unsettled("made", <<>>, <<>>) EXCEPT !.out = out]

\* Promise.resolve, Promise.reject, new Promise and then/catch.
new_promise ==
    \/ Statement("made") /\ Creates(sequence :> Made(<<Instruction[3], <<"made", sequence>>>>), Instruction[2])
    \/ Statement("new") /\ Creates(sequence :> Unsettled("manual", <<>>, <<>>), Instruction[2])
    \/ /\ Statement("then")
       /\ Creates(sequence :> Unsettled("then", <<Value(Instruction[3])[2]>>, <<Instruction[4], Instruction[5]>>),
                  Instruction[2])

\* Promise.all, allSettled and race; a member that is no promise becomes a
\* fulfilled one of its own.
new_combinator ==
    \E kind \in {"all", "settled", "race"} :
        /\ Statement(kind)
        /\ LET members == Instruction[3]
               plain(i) == {j \in 1..i : ~IsPromise(Value(members[j]))}
               ids == [i \in DOMAIN members |->
                         IF IsPromise(Value(members[i])) THEN Value(members[i])[2]
                         ELSE sequence + Cardinality(plain(i)) - 1]
               own == sequence + Cardinality(plain(Len(members)))
           IN  Creates([id \in sequence..own |->
                          IF id = own THEN Unsettled(kind, ids, <<>>)
                          ELSE Made(<<"ok", Value(members[CHOOSE i \in DOMAIN members : ids[i] = id])>>)],
                       Instruction[2])

\* A resolver called by the guest: only the first call counts.
call_resolver ==
    /\ Statement("settle")
    /\ LET id == Value(Instruction[2])[2] IN
       promises' = IF IsPending(promises, id, "manual")
                     THEN With(promises, id, <<Instruction[3], <<"made", id>>>>) ELSE promises
    /\ Step
    /\ UNCHANGED <<outside, streak, inflight, trace, channel>>

Awaits == {"await", "awaitCall", "tryAwait"}

await_value ==
    /\ \E op \in Awaits : Statement(op)
    /\ LET value == Value(Instruction[2]) IN
       IF IsPromise(value) THEN Invoke(Top, ResolveCall(value[2])) /\ UNCHANGED names
       ELSE Bind(Instruction[3], value) /\ Step
    /\ undrained
    /\ UNCHANGED <<program, sequence, calls, running, answered, prefetched, streak, kept, bytes, stopped, end>>

\* The awaited outcome.  `await f()` forgets the settled promise f returned
\* (release_settled_promise); a try statement catches a throw, never a host fault.
awaited ==
    /\ \E op \in Awaits : GuestAt(op)
    /\ ret # <<>>
    /\ LET id == Value(Instruction[2])[2] IN
       promises' = IF Instruction[1] = "awaitCall" /\ SettledIn(promises, id)
                     THEN [promises EXCEPT ![id].known = FALSE] ELSE promises
    /\ IF ret[1] = "ok" \/ (ret[1] = "throw" /\ Instruction[1] = "tryAwait")
         THEN Bind(Instruction[3], ret[2]) /\ Step
         ELSE Return(ret) /\ UNCHANGED names
    /\ UNCHANGED <<program, sequence, inflight, calls, running, channel, answered, prefetched, streak,
                   trace, kept, bytes, stopped, end>>

throw_statement ==
    /\ Statement("throw")
    /\ Return(<<"throw", Thrown>>)
    /\ undrained /\ UNCHANGED <<outside, streak>>

\* z.state.set and delete: synchronous, traced, and a refusal is a host fault.
state_set(key, size) ==
    LET before == IF key \in DOMAIN kept THEN kept[key] ELSE 0
        next == (IF bytes < before THEN 0 ELSE bytes - before) + size
        refused == \/ size > ValueLimit
                   \/ next > TotalLimit
                   \/ key \notin DOMAIN kept /\ Cardinality(DOMAIN kept) >= KeyLimit
    IN  IF refused THEN <<FALSE, kept, bytes>>
        ELSE <<TRUE, [k \in DOMAIN kept \cup {key} |-> IF k = key THEN size ELSE kept[k]], next>>

state_delete(key) ==
    IF key \notin DOMAIN kept THEN <<TRUE, kept, bytes>>
    ELSE <<TRUE, [k \in DOMAIN kept \ {key} |-> kept[k]], IF bytes < kept[key] THEN 0 ELSE bytes - kept[key]>>

z_state_member ==
    /\ Statement("set") \/ Statement("delete")
    /\ LET done == IF Instruction[1] = "set" THEN state_set(Instruction[2], Instruction[3])
                   ELSE state_delete(Instruction[2])
       IN  /\ kept' = done[2]
           /\ bytes' = done[3]
           /\ trace' = complete_operation(start_operation(trace, sequence), sequence, done[1])
           /\ IF done[1] THEN Step ELSE Return(Host("data"))
    /\ sequence' = sequence + 1
    /\ UNCHANGED <<program, names, promises, inflight, calls, running, channel, answered, prefetched,
                   streak, stopped, end>>

-----------------------------------------------------------------------------
(* The end of the cell. *)

\* A callback returns its value; the program awaits the promise it returns.
return_statement ==
    /\ Statement("return") /\ ~Prefetching
    /\ LET value == Value(Instruction[2]) IN
       IF Top.at = "call" THEN Return(<<"ok", value>>)
       ELSE IF IsPromise(value) THEN Invoke(Frame("run", 0, "result", 0, <<>>), ResolveCall(value[2]))
       ELSE Become(Frame("run", 0, "loop", 0, value))
    /\ undrained /\ UNCHANGED <<outside, streak>>

run_result ==
    /\ Resumes("run", "result")
    /\ IF ret[1] = "ok" THEN Become(Frame("run", 0, "loop", 0, ret[2])) ELSE Return(ret)
    /\ undrained /\ UNCHANGED <<outside, streak>>

\* A variant that waits for a free slot instead of for every call.
FinishOnFreeSlot ==
    /\ Enters("run", "loop")
    /\ drain
    /\ IF inflight' < MaxInflight THEN Return(<<"ok", Top.acc>>) ELSE Become([Top EXCEPT !.at = "wait"])
    /\ UNCHANGED <<outside, streak>>

finish_inflight ==
    /\ Enters("run", "loop")
    /\ drain
    /\ IF inflight' = 0 THEN Return(<<"ok", Top.acc>>) ELSE Become([Top EXCEPT !.at = "wait"])
    /\ UNCHANGED <<outside, streak>>

\* execute_inner: the trace is finalised whatever the result.
finalize_operation_trace ==
    /\ stack = <<>> /\ end = <<>>
    /\ end' = ret
    /\ trace' = [id \in DOMAIN trace |-> IF trace[id] = "open" THEN "failed" ELSE trace[id]]
    /\ UNCHANGED <<program, stack, ret, names, promises, sequence, inflight, calls, running, channel,
                   answered, prefetched, streak, kept, bytes, stopped>>

Interpret ==
    \/ Wait
    \/ resolve \/ resolve_pumped \/ resolve_persist \/ resolve_race \/ resolve_settled \/ resolve_settled_next
    \/ pump \/ pump_chain \/ apply_then_callback
    \/ all \/ race \/ advance_children \/ child_advanced
    \/ progress_race_child \/ progress_children \/ progress_child_advanced \/ progress_ran
    \/ wait_for_dispatch_slot \/ call_tool \/ dispatch \/ dispatch_refused \/ slot_denied
    \/ take_prefetched \/ prefetch_done
    \/ tick \/ new_promise \/ new_combinator \/ call_resolver \/ await_value \/ awaited
    \/ throw_statement \/ z_state_member
    \/ return_statement \/ run_result \/ finish_inflight \/ finalize_operation_trace

\* A connector thread answers; once the cell has ended nobody receives it.
connector_completes ==
    \E id \in running, answer \in Answers :
        /\ running' = running \ {id}
        /\ answered' = answered \cup {<<id, answer>>}
        /\ IF end = <<>> THEN Cardinality(channel) < MaxInflight /\ channel' = channel \cup {<<id, answer>>}
           ELSE UNCHANGED channel
        /\ UNCHANGED <<program, stack, ret, names, promises, sequence, inflight, calls, prefetched, streak,
                       trace, kept, bytes, stopped, end>>

\* The caller cancels, the deadline passes or the instructions run out.
stop ==
    /\ ~stopped /\ end = <<>>
    /\ stopped' = TRUE
    /\ UNCHANGED <<program, stack, ret, names, promises, sequence, inflight, calls, running, channel,
                   answered, prefetched, streak, trace, kept, bytes, end>>

GuestNext == Interpret \/ connector_completes \/ stop

\* The interpreter thread runs, and connectors answer; nothing has to stop it.
GuestSpec == GuestInit /\ [][GuestNext]_guestVars /\ WF_guestVars(Interpret) /\ WF_guestVars(connector_completes)

-----------------------------------------------------------------------------
(* Properties. *)

\* A promise's settlement agrees with what it was made from.
SettledFairly(id) ==
    LET p == promises[id]
        out == p.out
        kid(i) == promises[p.kids[i]].out
    IN  out # <<>> /\ ~Failed(out) =>
          CASE p.kind = "tool" -> \E m \in answered : m[1] = id /\ out = Outcome(id, m[2])
            [] p.kind = "all" /\ out[1] = "ok" ->
                 /\ \A i \in DOMAIN p.kids : kid(i) # <<>> /\ kid(i)[1] = "ok"
                 /\ out[2] = <<"list", [i \in DOMAIN p.kids |-> kid(i)[2]]>>
            [] p.kind \in {"all", "race"} -> \E i \in DOMAIN p.kids : kid(i) = out
            [] p.kind = "settled" -> out[2] = <<"list", [i \in DOMAIN p.kids |-> kid(i)]>>
            [] p.kind = "then" -> kid(1) # <<>> /\ ~Failed(kid(1))
            [] OTHER -> TRUE

ToolPromises == {id \in DOMAIN promises : promises[id].kind = "tool"}

\* A combinator's outcome is that of its children, in order, and a chain settles
\* only after its parent (resolve, all, race, apply_then_callback, settle); the
\* count of calls in flight is the number of unanswered promises and stays within
\* its limit, so no answer is ever unexpected and the bounded channel never
\* blocks a sender, the interpreter itself included; a cell that ends well has no
\* call left behind, and its trace says Completed of exactly the calls that
\* fulfilled (finish_inflight, complete_operation, finalize_operation_trace).
PromisesAreKept ==
    /\ \A id \in DOMAIN promises : SettledFairly(id)
    /\ bytes = SumOf(kept) /\ bytes <= TotalLimit
    /\ calls <= MaxCalls
    /\ end = <<>> =>
         /\ inflight = Cardinality({id \in ToolPromises : promises[id].out = <<>>})
         /\ inflight = Cardinality(running) + Cardinality(channel)
         /\ inflight <= MaxInflight
         /\ ~Unexpected
    /\ end # <<>> => \A id \in DOMAIN trace : trace[id] # "open"
    /\ end # <<>> /\ end[1] = "ok" =>
         /\ running = {} /\ channel = {}
         /\ \A id \in ToolPromises \cap DOMAIN trace :
                trace[id] = "completed" <=> promises[id].out[1] = "ok"

\* Once the deadline, a cancellation or the instruction budget strikes, the
\* cell ends: every loop of the interpreter that repeats without settling
\* something passes through tick.  Short of that, every program ends that waits
\* only for its tools and for chains that can run.
ProgramsEnd == stopped \/ program.name \notin NeedDeadline ~> end # <<>>

=============================================================================

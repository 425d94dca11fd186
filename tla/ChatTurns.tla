----------------------------- MODULE ChatTurns -----------------------------
(***************************************************************************)
(* Shirley's turns: typed ones (web/routes/chat.py, chat_stream) and those *)
(* a voice call asks for (_run_call_job).  Every turn of the process runs  *)
(* under one lock (services/ai_service_core.py, _TURN_LOCK); the wait for  *)
(* it, and every tool, occupies a worker of the event loop's one thread    *)
(* pool.  A turn works on its session's history, which other handlers      *)
(* trim, evict and drop while it runs.                                     *)
(*                                                                         *)
(* A history is the sequence of its messages, each known by who it comes   *)
(* from and its kind.  A conversation that has left the store is reached   *)
(* only by the turns that hold it: they are homeless, and what they append *)
(* nobody reads.  The caps are a number of messages; attachments, prompts, *)
(* the call lines ("Call started"), the snapshot sent to the model, the     *)
(* tool data cache and the allowlist of a job's turn are left out.         *)
(***************************************************************************)
EXTENDS Integers, Sequences, FiniteSets, SequencesExt

CONSTANTS
    Typed, Jobs,    \* the turns: typed, and asked by the voice agent
    Sessions,
    Caller,         \* the session that has the voice call
    Uses,           \* the kinds of tool each turn may call
    MaxRounds,      \* _MAX_TOOL_ITERATIONS
    HistoryMax,     \* _HISTORY_MAX_MESSAGES
    HistoriesLimit, \* _CHAT_HISTORIES_LIMIT
    Workers,        \* threads of the loop's default executor
    Lines,          \* lines the call speaks: 1..Lines
    UserLines,      \* those the person speaks
    None

VARIABLES
    step,       \* where each turn is
    result,     \* how it came out
    rounds,     \* tool rounds it has completed
    tool,       \* the tool it has given to the pool, which may outlive it
    pending,    \* turns with a chart to bind (pending_charts)
    job,        \* state of each CallJob
    home,       \* the session of each turn
    lock,       \* holder of _TURN_LOCK
    context,    \* whose tool context is set
    locked,     \* turns whose fetch has locked classes (_locked_classes)
    cleanup,    \* a left generator's clean-up: "none", "due", "begun"
    chat,       \* history of each session
    recent,     \* the sessions in the store, least recently used first
    charts,     \* sidecar: turns whose answer has an archived chart
    homeless,   \* turns whose conversation left the store while they held it
    call,       \* "idle", "live", "ended"
    relayed,    \* lines the server has taken, from the first on
    cursor      \* relay cursor of the call; 0 when there is none

turnVars == <<step, result, rounds, tool, pending, job, home>>
coreVars == <<lock, context, locked, cleanup>>
storeVars == <<chat, recent, charts, homeless>>
callVars == <<call, relayed, cursor>>
vars == <<turnVars, coreVars, storeVars, callVars>>

Turns == Typed \cup Jobs
Tools == {"read", "chart", "fetch"}

ASSUME TurnsAssumption ==
    /\ Typed \cap Jobs = {} /\ None \notin Turns /\ Turns \cap 1..Lines = {}
    /\ Caller \in Sessions /\ Uses \in [Turns -> SUBSET Tools]
ASSUME BoundsAssumption ==
    /\ {HistoriesLimit, HistoryMax, Workers} \subseteq Nat \ {0}
    /\ {MaxRounds, Lines} \subseteq Nat /\ UserLines \subseteq 1..Lines

\* "parked" waits for a worker, "waiting" for the lock on one; a "ghost" was
\* abandoned there and its thread waits, or holds, for nobody.  A turn whose
\* consumer stops at an event is "closing"; one whose generator is broken by an
\* exception inside it is "unwinding".
Holds(t) == step[t] \in {"parked", "waiting", "streaming", "called", "tool"}
Running(t) == step[t] \in {"streaming", "called", "tool", "unwinding", "closing"}

-----------------------------------------------------------------------------
(* The histories.                                                          *)

Question(t) == [from |-> t, kind |-> "question"]
Answer(t) == [from |-> t, kind |-> "answer"]
Line(n) == [from |-> n, kind |-> "line"]
IsUser(m) == m.kind = "question" \/ (m.kind = "line" /\ m.from \in UserLines)

\* What the recorder collects: each round's call and result, then the answer.
Collected(t) ==
    [i \in 1..(2 * rounds[t] + 1) |->
        IF i = 2 * rounds[t] + 1 THEN Answer(t)
        ELSE [from |-> t, kind |-> IF i % 2 = 1 THEN "call" ELSE "result"]]

\* A slip: the oldest messages go, whatever group they are of.
TrimmedByMessage(msgs) ==
    IF Len(msgs) <= HistoryMax THEN msgs
    ELSE SubSeq(msgs, Len(msgs) - HistoryMax + 1, Len(msgs))

\* _trim_history: whole groups go, each up to the next user message, until
\* the rest fits or only the last group is left.
Trimmed(msgs) ==
    LET users == {i \in 1..Len(msgs) : IsUser(msgs[i])}
        cuts == {1} \cup {i \in users : \E k \in users : k < i}
        fits == {i \in cuts : Len(msgs) - i + 1 <= HistoryMax}
    IN  SubSeq(msgs, IF fits # {} THEN Min(fits) ELSE Max(cuts), Len(msgs))

\* Append new to the history of s, with cs for its charts, and trim both; the
\* histories of gone leave the store, and their sidecars with them.
Store(s, new, cs, gone) ==
    LET grown == chat[s] \o new
        kept == Trimmed(grown)
        lost == ToSet(SubSeq(grown, 1, Len(grown) - Len(kept)))
    IN  /\ chat' = [x \in Sessions |-> IF x = s THEN kept
                                       ELSE IF x \in gone THEN <<>> ELSE chat[x]]
        /\ charts' = [x \in Sessions |->
              IF x = s THEN {t \in cs : Answer(t) \notin lost}
              ELSE IF x \in gone THEN {} ELSE charts[x]]
        /\ homeless' = homeless \cup {t \in Turns : Holds(t) /\ home[t] \in gone}

\* _get_or_create_history, then append: the session becomes the most recent,
\* the least recent one is evicted when a new one finds the store full.
Enter(s, new) ==
    LET gone == IF s \in ToSet(recent) \/ Len(recent) < HistoriesLimit THEN {}
                ELSE {Head(recent)}
    IN  /\ recent' = Append(SelectSeq(recent, LAMBDA x : x \notin gone \cup {s}), s)
        /\ Store(s, new, charts[s], gone)

\* A slip: the sidecar stays.
DropHistoryAlone(s) ==
    /\ recent' = SelectSeq(recent, LAMBDA x : x # s)
    /\ chat' = [chat EXCEPT ![s] = <<>>]
    /\ homeless' = homeless \cup {t \in Turns : Holds(t) /\ home[t] = s}
    /\ UNCHANGED charts

DropHistory(s) ==
    /\ recent' = SelectSeq(recent, LAMBDA x : x # s)
    /\ chat' = [chat EXCEPT ![s] = <<>>]
    /\ charts' = [charts EXCEPT ![s] = {}]
    /\ homeless' = homeless \cup {t \in Turns : Holds(t) /\ home[t] = s}

\* POST /chat/new, and logout.
NewChat(s) ==
    /\ s \in ToSet(recent)
    /\ DropHistory(s)
    /\ UNCHANGED <<turnVars, coreVars, callVars>>

-----------------------------------------------------------------------------
(* A turn comes in and waits for the lock.                                 *)

Go(t, to) == step' = [step EXCEPT ![t] = to]
Settle(t, how) == result' = [result EXCEPT ![t] = how]

\* A terminal job keeps its state.
Terminal(t) == job[t] \in {"done", "failed", "cancelled"}
JobTo(t, to) ==
    job' = IF t \in Jobs /\ ~Terminal(t) THEN [job EXCEPT ![t] = to] ELSE job
Cancelled(t) == t \in Jobs /\ job[t] = "cancelled"

\* POST /chat/messages, of any session: append the question, stash the turn.
Post(t) ==
    /\ t \in Typed /\ step[t] = "unsent"
    /\ \E s \in Sessions : home' = [home EXCEPT ![t] = s] /\ Enter(s, <<Question(t)>>)
    /\ Go(t, "stashed")
    /\ UNCHANGED <<result, rounds, tool, pending, job, coreVars, callVars>>

\* The stream opens, or the job's task starts: it takes the session's history
\* and prepares the turn (the LLM's resolution, the case brief).
Open(t) ==
    /\ step[t] = "stashed"
    /\ Enter(home[t], <<>>)
    /\ \/ Go(t, "parked") /\ UNCHANGED <<result, job>>
       \/ Go(t, "over") /\ Settle(t, "failed") /\ JobTo(t, "failed")
    /\ UNCHANGED <<home, rounds, tool, pending, coreVars, callVars>>

OnWorker(t) ==
    \/ step[t] = "waiting"
    \/ step[t] = "ghost" /\ lock # t
    \/ tool[t] # None /\ step[t] # "called"
WorkerFree == Cardinality({t \in Turns : OnWorker(t)}) < Workers

Park(t) ==
    /\ step[t] = "parked" /\ WorkerFree
    /\ Go(t, "waiting")
    /\ UNCHANGED <<home, result, rounds, tool, pending, job, coreVars, storeVars, callVars>>

\* A slip: the lock is not waited for.
AcquireAnyway(t) ==
    /\ step[t] = "waiting"
    /\ lock' = t /\ context' = t /\ locked' = {}
    /\ Go(t, "streaming")
    /\ UNCHANGED <<home, result, rounds, tool, pending, job, cleanup, storeVars, callVars>>

\* The lock, then set_tool_context and begin_turn.
Acquire(t) ==
    /\ step[t] = "waiting" /\ lock = None
    /\ lock' = t /\ context' = t /\ locked' = {}
    /\ Go(t, "streaming")
    /\ UNCHANGED <<home, result, rounds, tool, pending, job, cleanup, storeVars, callVars>>

\* The thread of an abandoned wait gets the lock; no finally will release it.
GhostAcquire(t) ==
    /\ step[t] = "ghost" /\ lock = None
    /\ lock' = t
    /\ UNCHANGED <<turnVars, context, locked, cleanup, storeVars, callVars>>

-----------------------------------------------------------------------------
(* The turn under the lock.                                                *)

\* A job heeds its cancel flag at every event, so it lives past none.
Event(t) == step[t] = "streaming" /\ ~Cancelled(t)

CallTool(t, kind) ==
    /\ Event(t) /\ rounds[t] < MaxRounds /\ kind \in Uses[t]
    /\ tool' = [tool EXCEPT ![t] = kind]
    /\ Go(t, "called") /\ JobTo(t, "running")
    /\ UNCHANGED <<home, result, rounds, pending, coreVars, storeVars, callVars>>

StartTool(t) ==
    /\ step[t] = "called" /\ WorkerFree
    /\ Go(t, "tool")
    /\ UNCHANGED <<home, result, rounds, tool, pending, job, coreVars, storeVars, callVars>>

\* execute_tool returns: a fetch that succeeded locks classes, whatever turn
\* is running by now.  A turn that is still there goes on with the result.
EndTool(t) ==
    /\ tool[t] # None /\ step[t] # "called"
    /\ \E ok \in BOOLEAN :
          /\ locked' = IF ok /\ tool[t] = "fetch" THEN locked \cup {t} ELSE locked
          /\ IF step[t] = "tool"
             THEN /\ Go(t, "streaming")
                  /\ rounds' = [rounds EXCEPT ![t] = @ + 1]
                  /\ pending' = IF ok /\ tool[t] = "chart" THEN pending \cup {t} ELSE pending
             ELSE UNCHANGED <<step, rounds, pending>>
    /\ tool' = [tool EXCEPT ![t] = None]
    /\ UNCHANGED <<home, result, job, lock, context, cleanup, storeVars, callVars>>

\* stream_finished: append what was collected, bind the charts, trim.  The
\* sidecar is the session's present one, the conversation the turn's own.
Finish(t) ==
    LET s == home[t]
        cs == charts[s] \cup ({t} \cap pending)
    IN
    /\ Event(t)
    /\ Store(s, IF t \in homeless THEN <<>> ELSE Collected(t), cs, {})
    /\ Go(t, "closing") /\ Settle(t, "answered") /\ JobTo(t, "running")
    /\ UNCHANGED <<home, rounds, tool, pending, recent, coreVars, callVars>>

\* An error event: nothing is appended.
Fail(t) ==
    /\ Event(t)
    /\ Store(home[t], <<>>, charts[home[t]], {})
    /\ Go(t, "closing") /\ Settle(t, "failed") /\ JobTo(t, "running")
    /\ UNCHANGED <<home, rounds, tool, pending, recent, coreVars, callVars>>

\* An exception inside the generator (no client for the credential, say).
Break(t) ==
    /\ step[t] = "streaming"
    /\ Go(t, "unwinding") /\ Settle(t, "failed")
    /\ UNCHANGED <<rounds, tool, pending, job, home, coreVars, storeVars, callVars>>

HeedCancel(t) ==
    /\ step[t] = "streaming" /\ Cancelled(t)
    /\ Go(t, "closing") /\ Settle(t, "left")
    /\ UNCHANGED <<rounds, tool, pending, job, home, coreVars, storeVars, callVars>>

\* The exception passes through the inner generator first: end_turn, the
\* context cleared, and then the lock released.
Unwind(t) ==
    /\ step[t] = "unwinding"
    /\ context' = None /\ locked' = {} /\ lock' = None
    /\ Go(t, "over") /\ JobTo(t, "failed")
    /\ UNCHANGED <<home, result, rounds, tool, pending, cleanup, storeVars, callVars>>

\* An answered job has its answer rewritten for the ear.
GoesOn(t) ==
    IF t \in Jobs /\ result[t] = "answered" /\ ~Cancelled(t)
    THEN Go(t, "rewriting") /\ UNCHANGED job
    ELSE Go(t, "over") /\ JobTo(t, "failed")

\* A slip: the lock stays taken when the turn failed.
ReleaseIfAnswered(t) ==
    /\ step[t] = "closing"
    /\ lock' = IF result[t] = "failed" THEN lock ELSE None
    /\ cleanup' = [cleanup EXCEPT ![t] = "due"]
    /\ GoesOn(t)
    /\ UNCHANGED <<home, result, rounds, tool, pending, context, locked, storeVars, callVars>>

\* The consumer has left at an event: stream_response is closed at its yield
\* and releases the lock.  It does not close the generator it iterates, whose
\* own clean-up is left to the event loop.
Release(t) ==
    /\ step[t] = "closing"
    /\ lock' = None
    /\ cleanup' = [cleanup EXCEPT ![t] = "due"]
    /\ GoesOn(t)
    /\ UNCHANGED <<home, result, rounds, tool, pending, context, locked, storeVars, callVars>>

\* The loop closes the left generator: end_turn, and then the client's close
\* is awaited,
EndTurn(t) ==
    /\ cleanup[t] = "due"
    /\ locked' = {} /\ cleanup' = [cleanup EXCEPT ![t] = "begun"]
    /\ UNCHANGED <<turnVars, lock, context, storeVars, callVars>>

\* and the context is cleared, whoever has the lock by now.
ClearContext(t) ==
    /\ cleanup[t] = "begun"
    /\ context' = None /\ cleanup' = [cleanup EXCEPT ![t] = "none"]
    /\ UNCHANGED <<turnVars, lock, locked, storeVars, callVars>>

\* run_synthesis comes back or fails; either way the job completes.
Rewrite(t) ==
    /\ step[t] = "rewriting"
    /\ Go(t, "over") /\ JobTo(t, "done")
    /\ UNCHANGED <<home, result, rounds, tool, pending, coreVars, storeVars, callVars>>

\* The client of a typed turn goes away and the turn's await is cancelled: a
\* job that no worker has started never runs, a thread that runs goes on.  A
\* stream is left at an event, or broken while it awaits the provider or a tool.
HangUp(t) ==
    /\ t \in Typed /\ Holds(t)
    /\ \/ step[t] = "parked" /\ Go(t, "over")
       \/ step[t] = "waiting" /\ Go(t, "ghost")
       \/ step[t] = "streaming" /\ Go(t, "closing")
       \/ step[t] \in {"streaming", "called", "tool"} /\ Go(t, "unwinding")
    /\ Settle(t, "left")
    /\ tool' = IF step[t] = "called" THEN [tool EXCEPT ![t] = None] ELSE tool
    /\ UNCHANGED <<home, rounds, pending, job, coreVars, storeVars, callVars>>

\* POST /chat/call/jobs/{job_id}/cancel: the flag and nothing else.
CancelJob(t) ==
    /\ t \in Jobs /\ step[t] # "unsent" /\ ~Terminal(t)
    /\ JobTo(t, "cancelled")
    /\ UNCHANGED <<home, step, result, rounds, tool, pending, coreVars, storeVars, callVars>>

-----------------------------------------------------------------------------
(* The voice call and its relay.                                           *)

StartCall ==
    /\ call = "idle" /\ call' = "live"
    /\ Enter(Caller, <<>>)
    /\ UNCHANGED <<turnVars, coreVars, relayed, cursor>>

\* The browser keeps the lines not known relayed and posts them from the
\* oldest on; a post may be lost, late, sent again, or overtaken by the next.
Batches == {[first |-> i, last |-> k] : i \in 1..(relayed + 1), k \in 0..Lines}

\* A slip: the cursor is not looked at.
WholeBatch(f) == [i \in 1..Max({0, f.last - f.first + 1}) |-> Line(f.first + i - 1)]

\* The lines of a batch above the cursor, in order.
Unrelayed(f) == SubSeq([i \in 1..f.last |-> Line(i)], Max({f.first, cursor + 1}), f.last)

\* _apply_call_events.
Apply(f) ==
    IF Unrelayed(f) = <<>> THEN UNCHANGED <<storeVars, relayed, cursor>>
    ELSE /\ Enter(Caller, Unrelayed(f))
         /\ cursor' = f.last /\ relayed' = Max({relayed, f.last})

\* POST /chat/call/events; one that brings nothing new changes nothing.
Relay(f) ==
    /\ call # "idle" /\ Unrelayed(f) # <<>>
    /\ Apply(f)
    /\ UNCHANGED <<turnVars, coreVars, call>>

\* POST /chat/call/ask relays the lines it carries, then starts the job.
Ask(t, f) ==
    /\ t \in Jobs /\ call # "idle" /\ step[t] = "unsent"
    /\ Apply(f)
    /\ Go(t, "stashed")
    /\ job' = [job EXCEPT ![t] = "waiting_for_turn"]
    /\ UNCHANGED <<home, result, rounds, tool, pending, coreVars, call>>

\* POST /chat/call/end, from the closing call or from a closing tab that does
\* not wait for its relays.
EndCall ==
    /\ call = "live" /\ call' = "ended"
    /\ Enter(Caller, <<>>)
    /\ cursor' = 0
    /\ UNCHANGED <<turnVars, coreVars, relayed>>

-----------------------------------------------------------------------------
Init ==
    /\ step = [t \in Turns |-> "unsent"]
    /\ result = [t \in Turns |-> "open"]
    /\ rounds = [t \in Turns |-> 0]
    /\ tool = [t \in Turns |-> None]
    /\ pending = {}
    /\ job = [t \in Jobs |-> "none"]
    /\ home = [t \in Turns |-> Caller]
    /\ lock = None /\ context = None /\ locked = {}
    /\ cleanup = [t \in Turns |-> "none"]
    /\ chat = [s \in Sessions |-> <<>>] /\ recent = <<>>
    /\ charts = [s \in Sessions |-> {}] /\ homeless = {}
    /\ call = "idle" /\ relayed = 0 /\ cursor = 0

\* What the server does of itself once a turn is open.
Stream(t) ==
    \/ \E kind \in Tools : CallTool(t, kind)
    \/ Finish(t) \/ Fail(t) \/ Break(t) \/ HeedCancel(t)

Serve(t) ==
    \/ Park(t) \/ Acquire(t) \/ GhostAcquire(t)
    \/ Stream(t) \/ StartTool(t) \/ EndTool(t)
    \/ Unwind(t) \/ Release(t) \/ Rewrite(t) \/ EndTurn(t) \/ ClearContext(t)

Next ==
    \/ \E t \in Turns : Post(t) \/ Open(t) \/ Serve(t) \/ HangUp(t) \/ CancelJob(t)
    \/ \E s \in Sessions : NewChat(s)
    \/ StartCall \/ EndCall
    \/ \E f \in Batches : Relay(f)
    \/ \E f \in Batches, t \in Turns : Ask(t, f)

\* The loop runs every task that can run and the pool every job it has taken;
\* a provider answers or its client times out; a tool returns.
Fairness == \A t \in Turns : WF_vars(Serve(t))

Spec == Init /\ [][Next]_vars /\ Fairness

-----------------------------------------------------------------------------
(* Properties.                                                             *)

\* One turn runs at a time, and its tools read its context or none: never
\* another turn's.  Only its own fetches have locked anything against it, but
\* for a fetch that outlived its turn.
RunsAlone(t) ==
    Running(t) =>
        /\ context \in {t, None} /\ \A u \in Turns \ {t} : ~Running(u)
        /\ \A u \in locked \ {t} : result[u] = "left"

\* No generator that another turn has left is still to be cleaned up.
Settled(t) == \A u \in Turns \ {t} : cleanup[u] = "none"

\* A turn that has its context when nothing is left to clean up keeps it, and
\* what its fetches have locked, until it closes.  (A clean-up that is still
\* due when the turn takes the lock strikes it, against what _TURN_LOCK is for.)
KeepsItsContext(t) ==
    Running(t) /\ context = t /\ Settled(t) =>
        \/ ~Running(t)'
        \/ context' = t /\ locked \subseteq locked' /\ Settled(t)'

\* One turn at a time, none under another's context, and a turn with its context
\* and no clean-up outstanding keeps it to its end (src/services/ai_service_core.py,
\* _TURN_LOCK).
TurnsRunAlone ==
    [](\A t \in Turns : RunsAlone(t)) /\ [][\A t \in Turns : KeepsItsContext(t)]_vars

\* A turn enters a history whole or not at all, in one piece, and only if it
\* was answered; no trim and no handler in between tears it.
TurnsEnterWhole ==
    \A s \in Sessions, t \in Turns :
        LET at == {i \in 1..Len(chat[s]) : chat[s][i].from = t /\ chat[s][i].kind # "question"}
        IN  at # {} => /\ result[t] = "answered" /\ home[t] = s
                       /\ Cardinality(at) = 2 * rounds[t] + 1
                       /\ SubSeq(chat[s], Min(at), Max(at)) = Collected(t)

\* The charts on record are those of the answers in the history ("an archived
\* spec never outlives the assistant message it belongs to", _trim_history),
\* but for a turn whose conversation was dropped before it finished.
ChartsFollowAnswers ==
    \A s \in Sessions, t \in Turns :
        t \notin homeless =>
            (t \in charts[s] <=> t \in pending /\ Answer(t) \in ToSet(chat[s]))

\* Until the call has ended its lines stand in the history each once, in
\* order and without a gap, whatever relays are late, lost or sent again.
LinesRelayedOnce ==
    LET q == chat[Caller]
        lines == {i \in 1..Len(q) : q[i].kind = "line"}
    IN  call # "ended" =>
            \A i \in lines, k \in lines :
                i < k /\ (\A m \in lines : m <= i \/ k <= m) => q[k].from = q[i].from + 1

\* Nobody can have the lock any more, or every worker waits for it while its
\* holder waits for a worker.
Wedged ==
    \/ \E t \in Turns : step[t] = "ghost"
    \/ ~WorkerFree /\ \E t \in Turns : step[t] = "called"

\* No turn is under way for ever, unless a client hung up while its turn
\* waited for the lock, or waiting turns have taken every worker.
TurnsEnd == \A t \in Turns : []<>(step[t] \in {"unsent", "stashed", "over"} \/ Wedged)

\* "the try/finally guarantees the lock is freed" (stream_response).
LockIsFreed == \A t \in Turns : lock = t ~> lock # t
=============================================================================

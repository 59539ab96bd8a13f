---------------------------- MODULE GatewayReactor ----------------------------
(***************************************************************************)
(* The threads of the gateway and the queues between them: the transport's *)
(* receiver thread puts messages into the inbox, the reactor thread makes  *)
(* one task of all that wait there and fires the timers, the CPU thread    *)
(* runs the tasks, the IO thread those submitted to it, and the caller of  *)
(* GatewayServer::start and stop brings them up and takes them down.       *)
(*                                                                         *)
(* The inbox (CopyChannel) and the task queues (BlockingQueue) each have a *)
(* mutex of their own; an action is what one thread does between two of    *)
(* them.  What listeners do with a message is module GatewaySessions.      *)
(***************************************************************************)
EXTENDS Integers, Sequences, FiniteSets, FiniteSetsExt

CONSTANTS Budgets,     \* bounds: messages that arrive, tasks the application
                       \* submits, ticks that pass while a timer is due,
                       \* calls of GatewayServer::start
          InboxCap,    \* capacity of m_inbox (32768)
          QueueCap,    \* capacities of m_cpu_queue (512) and m_io_queue (256)
          Interval,    \* timer -> its interval in ticks
          Skippable,   \* timer -> m_skippable
          kSkipThreshold   \* one second, in ticks

Timers == DOMAIN Interval

\* Each start() schedules the timers anew: an entry is a timer of one start.
Entries == Timers \X (1..Max({b.starts : b \in Budgets}))

Msgs == 1..Max({b.messages : b \in Budgets})
Queues == {"cpu", "io"}

ASSUME ReactorAssumption ==
    /\ Budgets \subseteq [messages : Nat, submits : Nat, stalls : Nat, starts : Nat]
    /\ \E b \in Budgets : \A c \in Budgets : c.messages <= b.messages
    /\ \E b \in Budgets : \A c \in Budgets : c.starts <= b.starts
    /\ InboxCap \in Nat \ {0}
    /\ QueueCap \in [Queues -> Nat \ {0}]
    /\ \A t \in Timers : Interval[t] \in Nat \ {0} /\ Skippable[t] \in BOOLEAN
    /\ kSkipThreshold \in Nat

VARIABLES inbox, inbox_closed,
          queue,      \* m_cpu_queue and m_io_queue: tasks
          closed,     \* m_closed of both
          timer,      \* m_timer_queue: entry -> ticks to its deadline, and
                      \* whether it still has its function
          batch,      \* process_messages: what swap_out returned
          reactor,    \* where reactor_loop stands
          worker,     \* where cpu_loop and io_loop stand, and their task
          running,    \* m_running of the Reactor
          transport,  \* the transport is up
          control,    \* where the caller of start and stop stands
          starts, budget, arrived, submits, stalls,
          processed,  \* history: messages given to the listeners, in order
          dropped,    \* history: messages refused by a full or closed queue
          fired,      \* history: entry -> times its function ran
          lost        \* history: entries whose function the queue refused

queues == <<inbox, inbox_closed, queue, closed>>
threads == <<batch, reactor, worker>>
caller == <<running, transport, control, starts>>
counts == <<budget, arrived, submits, stalls>>
history == <<processed, dropped, fired, lost>>
vars == <<queues, timer, threads, caller, counts, history>>

\* A task: the messages it processes, or the timer it belongs to.
Batch(s) == [kind |-> "batch", msgs |-> s]
Timed(e, fn) == [kind |-> "timer", entry |-> e, fn |-> fn]
Evolve == [kind |-> "evolve"]
Submitted == [kind |-> "submitted"]
Idle == [pc |-> "off"]

Init ==
    /\ inbox = <<>> /\ inbox_closed = FALSE
    /\ queue = [q \in Queues |-> <<>>] /\ closed = [q \in Queues |-> FALSE]
    /\ timer = [e \in {} |-> [due |-> 0, fn |-> FALSE]]
    /\ batch = <<>> /\ reactor = "off" /\ worker = [q \in Queues |-> Idle]
    /\ running = FALSE /\ transport = FALSE /\ control = "stopped" /\ starts = 0
    /\ budget \in Budgets /\ arrived = 0 /\ submits = 0 /\ stalls = 0
    /\ processed = <<>> /\ dropped = {} /\ lost = {}
    /\ fired = [e \in Entries |-> 0]

-----------------------------------------------------------------------------
(***************************************************************************)
(* The queues                                                              *)
(***************************************************************************)

\* BlockingQueue::try_push.
Accepts(q) == ~closed[q] /\ Len(queue[q]) < QueueCap[q]
TryPush(q, task) == queue' = IF Accepts(q) THEN [queue EXCEPT ![q] = Append(@, task)] ELSE queue

\* on_tight_message on the receiver thread: CopyChannel::try_send, whose
\* result is not looked at.
Arrive ==
    /\ transport
    /\ arrived < budget.messages
    /\ arrived' = arrived + 1
    /\ IF inbox_closed \/ Len(inbox) >= InboxCap
       THEN dropped' = dropped \cup {arrived'} /\ UNCHANGED inbox
       ELSE inbox' = Append(inbox, arrived') /\ UNCHANGED dropped
    /\ UNCHANGED <<inbox_closed, queue, closed, timer, threads, caller, budget, submits, stalls,
                   processed, fired, lost>>

\* submit_cpu and submit_io, for the embedding application.
Submit(q) ==
    /\ submits < budget.submits
    /\ submits' = submits + 1
    /\ TryPush(q, Submitted)
    /\ UNCHANGED <<inbox, inbox_closed, closed, timer, threads, caller, budget, arrived, stalls,
                   history>>

-----------------------------------------------------------------------------
(***************************************************************************)
(* reactor_loop                                                            *)
(***************************************************************************)

ReactorCheck ==
    /\ reactor = "check"
    /\ reactor' = IF running THEN "timers" ELSE "done"
    /\ UNCHANGED <<queues, timer, batch, worker, caller, counts, history>>

Due(e) == e \in DOMAIN timer /\ timer[e].due <= 0

\* The timer at the top of the heap, if its deadline has passed.
Top(e) == Due(e) /\ \A u \in DOMAIN timer : timer[e].due <= timer[u].due

\* Mutant: a timer that is as late as the threshold is skipped.
SkipsSooner(e) == Skippable[e[1]] /\ -timer[e].due >= kSkipThreshold

\* A skippable timer that is more than the threshold late waits for its next
\* turn.  Otherwise the function is moved out of the entry into a task, and the
\* entry goes back into the heap without it.
Skips(e) == Skippable[e[1]] /\ -timer[e].due > kSkipThreshold

\* Mutant: a skipped timer goes back without its function, too.
EmptyingSkip(e) == timer' = [timer EXCEPT ![e] = [due |-> Interval[e[1]], fn |-> FALSE]]

SkipTimer(e) == timer' = [timer EXCEPT ![e].due = Interval[e[1]]]

FireTimer(e) ==
    /\ TryPush("cpu", Timed(e, timer[e].fn))
    /\ timer' = [timer EXCEPT ![e] = [due |-> Interval[e[1]], fn |-> FALSE]]
    /\ lost' = IF Accepts("cpu") \/ ~timer[e].fn THEN lost ELSE lost \cup {e}

ProcessTimer(e) ==
    /\ reactor = "timers"
    /\ Top(e)
    /\ \/ Skips(e) /\ SkipTimer(e) /\ UNCHANGED <<queue, lost>>
       \/ ~Skips(e) /\ FireTimer(e)
    /\ UNCHANGED <<inbox, inbox_closed, closed, threads, caller, counts, processed, dropped,
                   fired>>

TimersDone ==
    /\ reactor = "timers"
    /\ \A e \in Entries : ~Due(e)
    /\ reactor' = "messages"
    /\ UNCHANGED <<queues, timer, batch, worker, caller, counts, history>>

\* Mutant: a single message is not worth a task.
SwallowingSwap ==
    /\ reactor = "messages"
    /\ batch' = inbox
    /\ inbox' = <<>>
    /\ reactor' = IF Len(inbox) <= 1 THEN "check" ELSE "batch"
    /\ UNCHANGED <<inbox_closed, queue, closed, timer, worker, caller, counts, history>>

\* process_messages: swap_out takes everything; nothing there, nothing to do.
SwapOut ==
    /\ reactor = "messages"
    /\ batch' = inbox
    /\ inbox' = <<>>
    /\ reactor' = IF inbox = <<>> THEN "check" ELSE "batch"
    /\ UNCHANGED <<inbox_closed, queue, closed, timer, worker, caller, counts, history>>

\* Mutant: a batch the queue refuses goes back into the inbox.
RequeuingPush ==
    /\ reactor = "batch"
    /\ TryPush("cpu", Batch(batch))
    /\ inbox' = IF Accepts("cpu") THEN inbox ELSE inbox \o batch
    /\ batch' = <<>>
    /\ reactor' = "evolve"
    /\ UNCHANGED <<inbox_closed, closed, timer, worker, caller, counts, history>>

\* The batch becomes a task; a full or closed queue drops it whole.
PushBatch ==
    /\ reactor = "batch"
    /\ TryPush("cpu", Batch(batch))
    /\ dropped' = IF Accepts("cpu") THEN dropped ELSE dropped \cup Range(batch)
    /\ batch' = <<>>
    /\ reactor' = "evolve"
    /\ UNCHANGED <<inbox, inbox_closed, closed, timer, worker, caller, counts, processed,
                   fired, lost>>

PushEvolve ==
    /\ reactor = "evolve"
    /\ TryPush("cpu", Evolve)
    /\ reactor' = "check"
    /\ UNCHANGED <<inbox, inbox_closed, closed, timer, batch, worker, caller, counts, history>>

-----------------------------------------------------------------------------
(***************************************************************************)
(* cpu_loop and io_loop                                                    *)
(***************************************************************************)

WorkerCheck(q) ==
    /\ worker[q].pc = "check"
    /\ worker' = [worker EXCEPT ![q] = [pc |-> IF running THEN "take" ELSE "done"]]
    /\ UNCHANGED <<queues, timer, batch, reactor, caller, counts, history>>

\* Mutant: waits for a task, without a time limit.
PatientTake(q) ==
    /\ worker[q].pc = "take"
    /\ queue[q] # <<>>
    /\ worker' = [worker EXCEPT ![q] = [pc |-> "run", task |-> Head(queue[q])]]
    /\ queue' = [queue EXCEPT ![q] = Tail(@)]
    /\ UNCHANGED <<inbox, inbox_closed, closed, timer, batch, reactor, caller, counts, history>>

\* Mutant: the last task stays.
TakeAllButOne(q) ==
    LET more == Len(queue[q]) > 1
    IN  /\ worker[q].pc = "take"
        /\ worker' = [worker EXCEPT ![q] = IF more THEN [pc |-> "run", task |-> Head(queue[q])]
                                           ELSE [pc |-> "check"]]
        /\ queue' = [queue EXCEPT ![q] = IF more THEN Tail(@) ELSE @]
        /\ UNCHANGED <<inbox, inbox_closed, closed, timer, batch, reactor, caller, counts,
                       history>>

\* take_for: the first task, even of a closed queue, or none after 100 ms.
Take(q) ==
    /\ worker[q].pc = "take"
    /\ worker' = [worker EXCEPT ![q] = IF queue[q] = <<>> THEN [pc |-> "check"]
                                       ELSE [pc |-> "run", task |-> Head(queue[q])]]
    /\ queue' = [queue EXCEPT ![q] = IF @ = <<>> THEN @ ELSE Tail(@)]
    /\ UNCHANGED <<inbox, inbox_closed, closed, timer, batch, reactor, caller, counts, history>>

\* The task ends, whatever stop does meanwhile.  Nothing makes it: a task that
\* blocks keeps its thread.
Run(q) ==
    LET task == worker[q].task
    IN  /\ worker[q].pc = "run"
        /\ processed' = IF task.kind = "batch" THEN processed \o task.msgs ELSE processed
        /\ fired' = IF task.kind = "timer" /\ task.fn
                    THEN [fired EXCEPT ![task.entry] = @ + 1] ELSE fired
        /\ worker' = [worker EXCEPT ![q] = [pc |-> "check"]]
        /\ UNCHANGED <<queues, timer, batch, reactor, caller, counts, dropped, lost>>

-----------------------------------------------------------------------------
(***************************************************************************)
(* GatewayServer::start and stop, and in them Reactor::start and stop      *)
(***************************************************************************)

\* The transport is up and the timers are scheduled before the threads start.
\* (When the transport does not start, start() returns before any of this, and
\* changes nothing that is modelled here.)
Start ==
    /\ control = "stopped"
    /\ starts < budget.starts
    /\ starts' = starts + 1
    /\ transport' = TRUE
    /\ timer' = [e \in DOMAIN timer \cup (Timers \X {starts'}) |->
                   IF e \in DOMAIN timer THEN timer[e]
                                         ELSE [due |-> Interval[e[1]], fn |-> TRUE]]
    /\ control' = "starting"
    /\ UNCHANGED <<queues, threads, running, counts, history>>

StartReactor ==
    /\ control = "starting"
    /\ running' = TRUE
    /\ reactor' = "check"
    /\ worker' = [q \in Queues |-> [pc |-> "check"]]
    /\ control' = "up"
    /\ UNCHANGED <<queues, timer, batch, transport, starts, counts, history>>

Stop ==
    /\ control = "up"
    /\ running' = FALSE
    /\ control' = "close io"
    /\ UNCHANGED <<queues, timer, threads, transport, starts, counts, history>>

CloseQueue(q) ==
    /\ control = (IF q = "io" THEN "close io" ELSE "close cpu")
    /\ closed' = [closed EXCEPT ![q] = TRUE]
    /\ control' = (IF q = "io" THEN "close cpu" ELSE "join")
    /\ UNCHANGED <<inbox, inbox_closed, queue, timer, threads, running, transport, starts,
                   counts, history>>

\* Mutant: only the reactor thread is joined.
JoinReactor ==
    /\ control = "join"
    /\ reactor = "done"
    /\ reactor' = "off"
    /\ control' = "close inbox"
    /\ UNCHANGED <<queues, timer, batch, worker, running, transport, starts, counts, history>>

\* The three joins, in any order the threads end in.
Join ==
    /\ control = "join"
    /\ reactor = "done" /\ \A q \in Queues : worker[q].pc = "done"
    /\ reactor' = "off" /\ worker' = [q \in Queues |-> Idle]
    /\ control' = "close inbox"
    /\ UNCHANGED <<queues, timer, batch, running, transport, starts, counts, history>>

CloseInbox ==
    /\ control = "close inbox"
    /\ inbox_closed' = TRUE
    /\ control' = "stop transport"
    /\ UNCHANGED <<inbox, queue, closed, timer, threads, running, transport, starts, counts,
                   history>>

StopTransport ==
    /\ control = "stop transport"
    /\ transport' = FALSE
    /\ control' = "stopped"
    /\ UNCHANGED <<queues, timer, threads, running, starts, counts, history>>

-----------------------------------------------------------------------------
\* Time passes.  The reactor comes round every 10 ms, so a timer is late only
\* by as much as its thread is held up.
Tick ==
    /\ reactor # "timers"
    /\ DOMAIN timer # {}
    /\ stalls' = IF \E e \in Entries : Due(e) THEN stalls + 1 ELSE stalls
    /\ stalls' <= budget.stalls
    /\ timer' = [e \in DOMAIN timer |->
                   [timer[e] EXCEPT !.due = IF Skippable[e[1]] /\ -@ > kSkipThreshold THEN @ ELSE @ - 1]]
    /\ UNCHANGED <<queues, threads, caller, budget, arrived, submits, history>>

ReactorStep ==
    \/ ReactorCheck \/ TimersDone \/ SwapOut \/ PushBatch \/ PushEvolve
    \/ \E e \in Entries : ProcessTimer(e)

WorkerStep(q) == WorkerCheck(q) \/ Take(q) \/ Run(q)

StopStep == (\E q \in Queues : CloseQueue(q)) \/ Join \/ CloseInbox \/ StopTransport

Next ==
    \/ Arrive
    \/ \E q \in Queues : Submit(q)
    \/ ReactorStep
    \/ \E q \in Queues : WorkerStep(q)
    \/ Start \/ StartReactor \/ Stop
    \/ StopStep
    \/ Tick

Spec == Init /\ [][Next]_vars

\* The loops keep running, stop goes on once begun, and time passes: strongly
\* fair, because only the model makes it wait for process_timers to finish.
\* That a task ends is not assumed: Run has no fairness.
FairSpec ==
    /\ Spec
    /\ WF_vars(StartReactor) /\ WF_vars(StopStep)
    /\ WF_vars(ReactorStep)
    /\ \A q \in Queues : WF_vars(WorkerCheck(q) \/ Take(q))
    /\ SF_vars(Tick)

-----------------------------------------------------------------------------
(***************************************************************************)
(* Properties                                                              *)
(***************************************************************************)

\* The task of a worker, or none, as a sequence.
Hand(q) == IF worker[q].pc = "run" THEN <<worker[q].task>> ELSE <<>>

\* The tasks of the CPU thread, the one it runs first.
CpuTasks == Hand("cpu") \o queue["cpu"]

\* The messages on their way, the furthest first: those processed, those of
\* each task, the batch and the inbox.
Messages(task) == IF task.kind = "batch" THEN task.msgs ELSE <<>>
Pipeline ==
    <<processed>> \o [i \in DOMAIN CpuTasks |-> Messages(CpuTasks[i])] \o <<batch, inbox>>
OnTheWay == UNION {Range(Pipeline[k]) : k \in DOMAIN Pipeline}

\* Types, and the capacities of the task queues, which try_push keeps.
TypeOK ==
    /\ inbox \in Seq(Msgs)
    /\ batch \in Seq(Msgs) /\ processed \in Seq(Msgs) /\ dropped \subseteq Msgs
    /\ \A q \in Queues : Len(queue[q]) <= QueueCap[q]
    /\ closed \in [Queues -> BOOLEAN] /\ inbox_closed \in BOOLEAN
    /\ DOMAIN timer \subseteq Entries /\ lost \subseteq Entries
    /\ fired \in [Entries -> Nat]
    /\ running \in BOOLEAN /\ transport \in BOOLEAN
    /\ budget \in Budgets /\ starts \in 0..budget.starts /\ arrived \in 0..budget.messages
    /\ submits \in 0..budget.submits /\ stalls \in 0..budget.stalls

\* Messages reach the listeners in the order the receiver thread took them in,
\* across swap_out, the batches and the task queue, and none of them twice.
ProcessedInOrder ==
    \A j, k \in DOMAIN Pipeline : \A a \in DOMAIN Pipeline[j], b \in DOMAIN Pipeline[k] :
        j < k \/ (j = k /\ a < b) => Pipeline[j][a] < Pipeline[k][b]

\* A message the gateway took in is on its way, or was processed, or was refused
\* by a full or closed queue: swap_out, the hand-over of the batch and a stop
\* and restart in between lose none unrecorded.
Accounted ==
    /\ OnTheWay \cup dropped = 1..arrived
    /\ OnTheWay \cap dropped = {}

\* Until the function of a scheduled timer has run for the first time, or the
\* queue has refused it, it is in the heap, in the task queue or in the hands of
\* the CPU thread: no late turn that is skipped, no entry put back, no stop and
\* restart loses it.
FunctionKept ==
    \A e \in DOMAIN timer :
        \/ timer[e].fn
        \/ \E i \in DOMAIN CpuTasks : CpuTasks[i] = Timed(e, TRUE)
        \/ fired[e] > 0 \/ e \in lost

\* Once stop() has joined the threads no listener and no timer function runs, so
\* that the server may be destroyed, whatever was queued; until start().
QuietAfterStop ==
    [][(control \in {"close inbox", "stop transport", "stopped"})
          => UNCHANGED <<processed, fired>>]_vars

\* No task blocks its thread for ever.  The code does not ensure it: the CPU
\* thread runs heartbeat_check, which may wait for ever for the lock of the
\* sessions (module SessionsLock).
TasksEnd == \A q \in Queues : []<>(worker[q].pc # "run")

\* While the server stays up and tasks end, a message in the inbox reaches the
\* listeners or is refused by a full queue: no hand-over between the threads
\* strands it.
AcceptedProcessed ==
    TasksEnd =>
        \A m \in Msgs :
            m \in Range(inbox) ~> (m \in Range(processed) \cup dropped \/ control # "up")

\* If tasks end, stop() returns: none of the threads it joins waits for something
\* that will not come, wherever they stand when the flag falls and the queues are
\* closed.  A task that blocks for ever blocks stop(), too.
StopReturns == TasksEnd => (control = "close io" ~> control = "stopped")

\* If tasks end, a timer scheduled by start() runs once, however often it was
\* late and skipped before, unless the task queue was full or the server is
\* stopped.
TimersRun ==
    TasksEnd =>
        \A e \in Entries :
            e \in DOMAIN timer ~> (fired[e] > 0 \/ e \in lost \/ control # "up")

\* architecture.md lists heartbeat_check (30 s), session_cleanup (60 s) and
\* metrics_report (60 s) as periodic tasks: while the server is up, tasks end and
\* the CPU queue takes them, they run again and again.
TimersPeriodic ==
    TasksEnd =>
        \A e \in Entries :
            (<>[](control = "up" /\ e \in DOMAIN timer) /\ [](e \notin lost))
                => []<>(worker["cpu"].pc = "run" /\ Hand("cpu")[1] = Timed(e, TRUE))
====

-------------------------- MODULE GatewayReactorProofs --------------------------
(***************************************************************************)
(* What holds of the gateway's threads and queues for any capacities,      *)
(* timers, amounts of work and numbers of starts and stops.                *)
(***************************************************************************)
EXTENDS GatewayReactor, SequenceFacts

Tasks == [kind : {"batch"}, msgs : Seq(Nat)]
         \cup [kind : {"timer"}, entry : Entries, fn : BOOLEAN]
         \cup {Evolve, Submitted}

TypeInv ==
    /\ inbox \in Seq(Nat) /\ batch \in Seq(Nat) /\ processed \in Seq(Nat)
    /\ arrived \in Nat /\ budget \in Budgets /\ starts \in 0..budget.starts
    /\ queue \in [Queues -> Seq(Tasks)]
    /\ worker \in [Queues -> [pc : {"off", "check", "take", "done"}]
                             \cup [pc : {"run"}, task : Tasks]]
    /\ fired \in [Entries -> Nat]
    /\ DOMAIN timer = Timers \X (1..starts)
    /\ \A e \in DOMAIN timer : timer[e] \in [due : Int, fn : BOOLEAN]

\* A batch is held only between swap_out and the push; the IO thread has only
\* what was submitted to it.
HandOver ==
    /\ batch # <<>> => reactor = "batch"
    /\ \A i \in DOMAIN queue["io"] : queue["io"][i] = Submitted
    /\ worker["io"].pc = "run" => worker["io"].task = Submitted

\* Before start() goes on and after the joins of stop() no thread is there.
NoThreads ==
    control \in {"close inbox", "stop transport", "stopped", "starting"} =>
        reactor = "off" /\ \A q \in Queues : worker[q] = Idle

Increasing(s) == \A a, b \in DOMAIN s : a < b => s[a] < s[b]
Below(s, t) == \A a \in DOMAIN s, b \in DOMAIN t : s[a] < t[b]

\* ProcessedInOrder, stage by stage.
OrderInv ==
    /\ Increasing(processed) /\ Increasing(batch) /\ Increasing(inbox)
    /\ Below(processed, batch) /\ Below(processed, inbox) /\ Below(batch, inbox)
    /\ \A i \in DOMAIN CpuTasks :
          /\ Increasing(Messages(CpuTasks[i]))
          /\ Below(processed, Messages(CpuTasks[i]))
          /\ Below(Messages(CpuTasks[i]), batch) /\ Below(Messages(CpuTasks[i]), inbox)
          /\ \A j \in DOMAIN CpuTasks :
                i < j => Below(Messages(CpuTasks[i]), Messages(CpuTasks[j]))

InTasks == UNION {Range(Messages(CpuTasks[i])) : i \in DOMAIN CpuTasks}
Underway == Range(processed) \cup InTasks \cup Range(batch) \cup Range(inbox)

CountInv == Underway \cup dropped = 1..arrived /\ Underway \cap dropped = {}

\* Where the function of a timer can be.
InHeap(e) == e \in DOMAIN timer /\ timer[e].fn
InTask(e) == {i \in DOMAIN CpuTasks : CpuTasks[i] = Timed(e, TRUE)}

\* The function of a timer is in one of the places, and in none before its
\* start() schedules it.
KeptAt(e) ==
    LET free == ~InHeap(e) /\ e \notin lost
    IN  \/ e \notin DOMAIN timer /\ free /\ InTask(e) = {} /\ fired[e] = 0
        \/ /\ e \in DOMAIN timer
           /\ \/ InHeap(e) /\ e \notin lost /\ InTask(e) = {} /\ fired[e] = 0
              \/ ~InHeap(e) /\ e \in lost /\ InTask(e) = {} /\ fired[e] = 0
              \/ free /\ InTask(e) = {} /\ fired[e] = 1
              \/ free /\ fired[e] = 0 /\ \E i \in InTask(e) : InTask(e) = {i}

KeptInv == \A e \in Entries : KeptAt(e)

IInv == TypeInv /\ HandOver /\ NoThreads /\ OrderInv /\ CountInv /\ KeptInv

-----------------------------------------------------------------------------
(***************************************************************************)
(* The tasks of the CPU thread                                             *)
(***************************************************************************)

LEMMA BoundsCover ==
    ASSUME TypeInv
    PROVE  /\ budget.starts \in Nat /\ budget.messages \in Nat
           /\ Timers \X (1..budget.starts) \subseteq Entries
           /\ starts \in Nat /\ DOMAIN timer \subseteq Entries
<1> DEFINE S == {b.starts : b \in Budgets}
<1>1. budget \in [messages : Nat, submits : Nat, stalls : Nat, starts : Nat]
  BY ReactorAssumption, Zenon DEF TypeInv
<1>2. PICK b \in Budgets : \A c \in Budgets : c.starts <= b.starts
  BY ReactorAssumption, Zenon
<1>3. /\ S \subseteq Nat /\ budget.starts \in S
      /\ b.starts \in S /\ \A n \in S : b.starts >= n
  <2>1. \A c \in Budgets : c.starts \in Nat
    BY ReactorAssumption, Zenon
  <2>2. S \subseteq Nat /\ b.starts \in S /\ budget.starts \in S
    BY <2>1, Zenon DEF TypeInv
  <2> QED
    BY <1>2, <2>1, <2>2, Zenon
<1>4. Max(S) \in S /\ \A n \in S : Max(S) >= n
  BY <1>3, Zenon DEF Max
<1>5. Max(S) \in Nat /\ budget.starts \in Nat /\ budget.starts <= Max(S)
  BY <1>3, <1>4, Zenon
<1>6. 1..budget.starts \subseteq 1..Max(S)
  BY <1>5
<1>7. starts \in Nat /\ starts <= budget.starts /\ DOMAIN timer = Timers \X (1..starts)
  BY <1>5 DEF TypeInv
<1>8. 1..starts \subseteq 1..budget.starts
  BY <1>5, <1>7
<1> QED
  BY <1>1, <1>5, <1>6, <1>7, <1>8, Zenon DEF Entries

\* CpuTasks is a sequence, with the task in hand in front.
LEMMA TasksShape ==
    ASSUME TypeInv
    PROVE  /\ CpuTasks \in Seq(Tasks) /\ queue["cpu"] \in Seq(Tasks)
           /\ worker["cpu"].pc # "run" => CpuTasks = queue["cpu"]
           /\ worker["cpu"].pc = "run" =>
                 /\ worker["cpu"].task \in Tasks
                 /\ CpuTasks = <<worker["cpu"].task>> \o queue["cpu"]
<1>1. queue["cpu"] \in Seq(Tasks) /\ (worker["cpu"].pc = "run" => worker["cpu"].task \in Tasks)
  BY Zenon DEF TypeInv, Queues
<1>2. CASE worker["cpu"].pc # "run"
  <2>1. CpuTasks = <<>> \o queue["cpu"]
    BY <1>2, Zenon DEF CpuTasks, Hand
  <2> QED
    BY <1>1, <1>2, <2>1, ConcatEmpty, Zenon
<1>3. CASE worker["cpu"].pc = "run"
  <2>1. CpuTasks = <<worker["cpu"].task>> \o queue["cpu"]
    BY <1>3, Zenon DEF CpuTasks, Hand
  <2>2. <<worker["cpu"].task>> \in Seq(Tasks)
    BY <1>1, <1>3
  <2> QED
    BY <1>1, <1>3, <2>1, <2>2, ConcatFacts, Zenon
<1> QED
  BY <1>2, <1>3, Zenon

LEMMA TasksSame ==
    ASSUME TypeInv, UNCHANGED <<queue, worker>>
    PROVE  CpuTasks' = CpuTasks
BY Zenon DEF CpuTasks, Hand

LEMMA TasksAppend ==
    \A h, q \in Seq(Tasks) : \A t \in Tasks : h \o Append(q, t) = Append(h \o q, t)
BY ConcatAppend

\* A task pushed becomes the last of the CPU thread's tasks.
LEMMA TasksPush ==
    ASSUME TypeInv, NEW t \in Tasks, UNCHANGED worker,
           queue' = [queue EXCEPT !["cpu"] = Append(@, t)]
    PROVE  CpuTasks' = Append(CpuTasks, t)
<1>1. queue["cpu"] \in Seq(Tasks) /\ queue'["cpu"] = Append(queue["cpu"], t)
  BY Zenon DEF TypeInv, Queues
<1>2. Hand("cpu") \in Seq(Tasks) /\ Hand("cpu")' = Hand("cpu")
  BY DEF TypeInv, Hand, Queues
<1>3. CpuTasks = Hand("cpu") \o queue["cpu"] /\ CpuTasks' = Hand("cpu") \o Append(queue["cpu"], t)
  BY <1>1, <1>2, Zenon DEF CpuTasks
<1>4. Hand("cpu") \o Append(queue["cpu"], t) = Append(Hand("cpu") \o queue["cpu"], t)
  BY <1>1, <1>2, TasksAppend, Zenon
<1> QED
  BY <1>3, <1>4, Zenon

\* A task taken from the queue stays the first of them while it runs.
LEMMA TasksTake ==
    ASSUME TypeInv, NEW q \in Queues, Take(q)
    PROVE  CpuTasks' = CpuTasks
<1>1. CASE q = "io"
  BY <1>1, Zenon DEF Take, CpuTasks, Hand, TypeInv, Queues
<1>2. CASE q = "cpu" /\ queue["cpu"] = <<>>
  <2>1. worker'["cpu"] = [pc |-> "check"] /\ queue'["cpu"] = queue["cpu"]
    BY <1>2, Zenon DEF Take, TypeInv, Queues
  <2>2. worker["cpu"].pc = "take" /\ worker'["cpu"].pc = "check"
    BY <1>2, <2>1 DEF Take
  <2> QED
    BY <2>1, <2>2, Zenon DEF CpuTasks, Hand
<1>3. CASE q = "cpu" /\ queue["cpu"] # <<>>
  <2> DEFINE s == queue["cpu"]
  <2>1. worker'["cpu"] = [pc |-> "run", task |-> Head(s)] /\ queue'["cpu"] = Tail(s)
    BY <1>3, Zenon DEF Take, TypeInv, Queues
  <2>2. worker["cpu"].pc = "take"
    BY <1>3, Zenon DEF Take
  <2>3. CpuTasks = s /\ s \in Seq(Tasks)
    BY <2>2, TasksShape, Zenon
  <2>4. CpuTasks' = <<Head(s)>> \o Tail(s)
    BY <2>1 DEF CpuTasks, Hand
  <2> HIDE DEF s
  <2>5. s # <<>>
    BY <1>3, Zenon DEF s
  <2>6. /\ Head(s) \in Tasks /\ Tail(s) \in Seq(Tasks) /\ Len(Tail(s)) = Len(s) - 1
        /\ \A i \in 1..Len(Tail(s)) : Tail(s)[i] = s[i + 1]
        /\ Len(s) \in Nat \ {0} /\ Head(s) = s[1]
    BY <2>3, <2>5, TailFacts, EmptyFacts, Zenon
  <2>7. <<Head(s)>> \in Seq(Tasks) /\ Len(<<Head(s)>>) = 1 /\ <<Head(s)>>[1] = Head(s)
    BY <2>6
  <2> DEFINE u == <<Head(s)>> \o Tail(s)
  <2>8. /\ u \in Seq(Tasks) /\ Len(u) = Len(s)
        /\ \A i \in 1..Len(s) : u[i] = IF i <= 1 THEN Head(s) ELSE Tail(s)[i - 1]
    BY <2>6, <2>7, ConcatFacts
  <2>9. \A i \in 1..Len(s) : u[i] = s[i]
    BY <2>6, <2>8
  <2>10. u = s
    BY <2>3, <2>8, <2>9, EqualFacts, Zenon
  <2> QED
    BY <2>3, <2>4, <2>10, Zenon
<1> QED
  BY <1>1, <1>2, <1>3, Zenon DEF Queues

\* A task that has run leaves the others behind.
LEMMA TasksRun ==
    ASSUME TypeInv, Run("cpu")
    PROVE  /\ CpuTasks' \in Seq(Tasks) /\ Len(CpuTasks) = Len(CpuTasks') + 1
           /\ CpuTasks[1] = worker["cpu"].task /\ worker["cpu"].task \in Tasks
           /\ \A i \in 1..Len(CpuTasks') : CpuTasks'[i] = CpuTasks[i + 1]
<1> DEFINE t == worker["cpu"].task
           s == queue["cpu"]
<1>1. worker["cpu"].pc = "run" /\ queue' = queue /\ worker'["cpu"] = [pc |-> "check"]
  BY Zenon DEF Run, queues, TypeInv, Queues
<1>2. CpuTasks = <<t>> \o s /\ t \in Tasks /\ s \in Seq(Tasks)
  BY <1>1, TasksShape, Zenon
<1>3. CpuTasks' = s
  <2>1. CpuTasks' = <<>> \o s
    BY <1>1 DEF CpuTasks, Hand
  <2> QED
    BY <1>2, <2>1, ConcatEmpty, Zenon
<1> HIDE DEF t, s
<1>4. <<t>> \in Seq(Tasks) /\ Len(<<t>>) = 1 /\ <<t>>[1] = t
  BY <1>2
<1>5. /\ Len(CpuTasks) = 1 + Len(s) /\ Len(s) \in Nat
      /\ \A i \in 1..(1 + Len(s)) : CpuTasks[i] = IF i <= 1 THEN t ELSE s[i - 1]
  BY <1>2, <1>4, ConcatFacts, LenFacts
<1>6. CpuTasks[1] = t /\ \A i \in 1..Len(s) : s[i] = CpuTasks[i + 1]
  BY <1>5
<1> QED
  BY <1>2, <1>3, <1>5, <1>6 DEF t

-----------------------------------------------------------------------------
(***************************************************************************)
(* Types                                                                   *)
(***************************************************************************)

LEMMA PushTypes ==
    ASSUME TypeInv, NEW q \in Queues, NEW t \in Tasks, TryPush(q, t)
    PROVE  /\ queue' \in [Queues -> Seq(Tasks)]
           /\ Accepts(q) => queue' = [queue EXCEPT ![q] = Append(@, t)]
           /\ ~Accepts(q) => queue' = queue
<1>1. queue \in [Queues -> Seq(Tasks)] /\ Append(queue[q], t) \in Seq(Tasks)
  BY AppendFacts, Zenon DEF TypeInv
<1>2. CASE Accepts(q)
  <2>1. queue' = [queue EXCEPT ![q] = Append(@, t)]
    BY <1>2, Zenon DEF TryPush
  <2> QED
    BY <1>1, <1>2, <2>1, Zenon
<1>3. CASE ~Accepts(q)
  BY <1>1, <1>3, Zenon DEF TryPush
<1> QED
  BY <1>2, <1>3, Zenon

LEMMA TaskTypes ==
    ASSUME TypeInv
    PROVE  /\ Batch(batch) \in Tasks /\ Evolve \in Tasks /\ Submitted \in Tasks
           /\ \A e \in Entries, f \in BOOLEAN : Timed(e, f) \in Tasks
BY Zenon DEF TypeInv, Tasks, Batch, Timed

\* process_timers on one entry: only that entry changes.
LEMMA TimerTypes ==
    ASSUME TypeInv, NEW e \in Entries, ProcessTimer(e)
    PROVE  /\ e \in DOMAIN timer /\ timer[e].fn \in BOOLEAN
           /\ DOMAIN timer' = DOMAIN timer
           /\ \A f \in DOMAIN timer : timer'[f] \in [due : Int, fn : BOOLEAN]
           /\ \A f \in DOMAIN timer \ {e} : timer'[f] = timer[f]
           /\ Skips(e) => timer'[e].fn = timer[e].fn /\ UNCHANGED <<queue, lost>>
           /\ ~Skips(e) => timer'[e].fn = FALSE /\ FireTimer(e)
<1>1. /\ e \in DOMAIN timer /\ timer[e] \in [due : Int, fn : BOOLEAN]
      /\ timer[e].fn \in BOOLEAN /\ timer[e].due \in Int
  BY Zenon DEF ProcessTimer, Top, Due, TypeInv
<1>2. Interval[e[1]] \in Int
  BY ReactorAssumption DEF Entries
<1>3. CASE Skips(e)
  <2>1. SkipTimer(e) /\ UNCHANGED <<queue, lost>>
    BY <1>3, Zenon DEF ProcessTimer
  <2>2. timer' = [timer EXCEPT ![e] = [timer[e] EXCEPT !.due = Interval[e[1]]]]
    BY <2>1, Zenon DEF SkipTimer
  <2>3. /\ [timer[e] EXCEPT !.due = Interval[e[1]]] \in [due : Int, fn : BOOLEAN]
        /\ [timer[e] EXCEPT !.due = Interval[e[1]]].fn = timer[e].fn
    BY <1>1, <1>2, Zenon
  <2>4. /\ DOMAIN timer' = DOMAIN timer
        /\ timer'[e] = [timer[e] EXCEPT !.due = Interval[e[1]]]
        /\ \A f \in DOMAIN timer \ {e} : timer'[f] = timer[f]
    BY <1>1, <2>2, Zenon
  <2>5. \A f \in DOMAIN timer : timer'[f] \in [due : Int, fn : BOOLEAN]
    BY <2>3, <2>4, Zenon DEF TypeInv
  <2> QED
    BY <1>1, <1>3, <2>1, <2>3, <2>4, <2>5, Zenon
<1>4. CASE ~Skips(e)
  <2>1. FireTimer(e)
    BY <1>4, Zenon DEF ProcessTimer
  <2> DEFINE r == [due |-> Interval[e[1]], fn |-> FALSE]
  <2>2. timer' = [timer EXCEPT ![e] = r]
    BY <2>1, Zenon DEF FireTimer
  <2>3. r \in [due : Int, fn : BOOLEAN] /\ r.fn = FALSE
    BY <1>2, Zenon
  <2>4. /\ DOMAIN timer' = DOMAIN timer /\ timer'[e] = r
        /\ \A f \in DOMAIN timer \ {e} : timer'[f] = timer[f]
    BY <1>1, <2>2, Zenon
  <2>5. \A f \in DOMAIN timer : timer'[f] \in [due : Int, fn : BOOLEAN]
    BY <2>3, <2>4, Zenon DEF TypeInv
  <2> QED
    BY <1>1, <1>4, <2>1, <2>3, <2>4, <2>5, Zenon
<1> QED
  BY <1>3, <1>4, Zenon

LEMMA TickTypes ==
    ASSUME TypeInv, Tick
    PROVE  /\ DOMAIN timer' = DOMAIN timer
           /\ \A f \in DOMAIN timer : /\ timer'[f] \in [due : Int, fn : BOOLEAN]
                                      /\ timer'[f].fn = timer[f].fn
<1>1. timer' = [e \in DOMAIN timer |->
                   [timer[e] EXCEPT !.due =
                       IF Skippable[e[1]] /\ -@ > kSkipThreshold THEN @ ELSE @ - 1]]
  BY Zenon DEF Tick
<1>2. DOMAIN timer' = DOMAIN timer
  BY <1>1, Zenon
<1>3. ASSUME NEW f \in DOMAIN timer
      PROVE  timer'[f] \in [due : Int, fn : BOOLEAN] /\ timer'[f].fn = timer[f].fn
  <2>1. timer[f] \in [due : Int, fn : BOOLEAN]
    BY Zenon DEF TypeInv
  <2> DEFINE d == timer[f].due
             n == IF Skippable[f[1]] /\ -d > kSkipThreshold THEN d ELSE d - 1
  <2>2. n \in Int
    BY <2>1
  <2>3. timer'[f] = [timer[f] EXCEPT !.due = n]
    BY <1>1, Zenon
  <2> HIDE DEF n
  <2> QED
    BY <2>1, <2>2, <2>3, Zenon
<1> QED
  BY <1>2, <1>3, Zenon

LEMMA StartTypes ==
    ASSUME TypeInv, Start
    PROVE  /\ starts' \in 0..budget.starts
           /\ DOMAIN timer' = Timers \X (1..starts') /\ DOMAIN timer \subseteq DOMAIN timer'
           /\ \A f \in DOMAIN timer : timer'[f] = timer[f]
           /\ \A f \in DOMAIN timer' : /\ timer'[f] \in [due : Int, fn : BOOLEAN]
                                       /\ f \notin DOMAIN timer => timer'[f].fn = TRUE
<1> DEFINE Fresh(e) == [due |-> Interval[e[1]], fn |-> TRUE]
<1>1. /\ timer' = [e \in DOMAIN timer \cup (Timers \X {starts'}) |->
                     IF e \in DOMAIN timer THEN timer[e] ELSE Fresh(e)]
      /\ starts' = starts + 1
      /\ starts < budget.starts /\ starts \in Nat /\ budget.starts \in Nat
  BY BoundsCover, Zenon DEF Start
<1>2. starts' \in 0..budget.starts /\ starts' \notin 1..starts /\ 1..starts' = 1..starts \cup {starts'}
  BY <1>1
<1>3. ASSUME NEW f \in Timers \X {starts'}
      PROVE  Fresh(f) \in [due : Int, fn : BOOLEAN] /\ Fresh(f).fn = TRUE
  BY ReactorAssumption
<1> HIDE DEF Fresh
<1>4. /\ DOMAIN timer' = DOMAIN timer \cup (Timers \X {starts'})
      /\ \A f \in DOMAIN timer : timer'[f] = timer[f]
      /\ \A f \in (Timers \X {starts'}) \ DOMAIN timer : timer'[f] = Fresh(f)
  BY <1>1, Zenon
<1>5. DOMAIN timer = Timers \X (1..starts)
  BY Zenon DEF TypeInv
<1>6. DOMAIN timer' = Timers \X (1..starts')
  BY <1>2, <1>4, <1>5, Zenon
<1>7. ASSUME NEW f \in DOMAIN timer'
      PROVE  /\ timer'[f] \in [due : Int, fn : BOOLEAN]
             /\ f \notin DOMAIN timer => timer'[f].fn = TRUE
  <2>1. CASE f \in DOMAIN timer
    BY <1>4, <2>1, Zenon DEF TypeInv
  <2>2. CASE f \notin DOMAIN timer
    <3>1. f \in Timers \X {starts'} /\ timer'[f] = Fresh(f)
      BY <1>4, <2>2, Zenon
    <3> QED
      BY <1>3, <3>1, Zenon
  <2> QED
    BY <2>1, <2>2, Zenon
<1> QED
  BY <1>2, <1>4, <1>6, <1>7, Zenon

LEMMA TypeStep == TypeInv /\ [Next]_vars => TypeInv'
<1> SUFFICES ASSUME TypeInv, [Next]_vars PROVE TypeInv'
  BY Zenon
<1> USE DEF vars, queues, threads, caller, counts, history
<1> DEFINE Workers == [pc : {"off", "check", "take", "done"}] \cup [pc : {"run"}, task : Tasks]
           Timed0 == /\ DOMAIN timer = Timers \X (1..starts)
                     /\ \A e \in DOMAIN timer : timer[e] \in [due : Int, fn : BOOLEAN]
<1>0. worker \in [Queues -> Workers] /\ Timed0
  BY Zenon DEF TypeInv
<1>1. CASE Arrive
  <2>1. arrived' \in Nat /\ Append(inbox, arrived') \in Seq(Nat)
    BY <1>1, AppendFacts DEF Arrive, TypeInv
  <2>2. inbox' \in Seq(Nat)
    BY <1>1, <2>1, Zenon DEF Arrive, TypeInv
  <2> QED
    BY <1>1, <2>1, <2>2, Zenon DEF Arrive, TypeInv
<1>2. ASSUME NEW q \in Queues, Submit(q) PROVE TypeInv'
  <2>1. queue' \in [Queues -> Seq(Tasks)]
    BY <1>2, PushTypes, TaskTypes, Zenon DEF Submit
  <2> QED
    BY <1>2, <2>1, Zenon DEF Submit, TypeInv
<1>3. CASE ReactorCheck \/ TimersDone
  BY <1>3, Zenon DEF ReactorCheck, TimersDone, TypeInv
<1>4. ASSUME NEW e \in Entries, ProcessTimer(e) PROVE TypeInv'
  <2>1. queue' \in [Queues -> Seq(Tasks)]
    <3>1. CASE Skips(e)
      BY <1>4, <3>1, TimerTypes, Zenon DEF TypeInv
    <3>2. CASE ~Skips(e)
      <4>1. TryPush("cpu", Timed(e, timer[e].fn)) /\ timer[e].fn \in BOOLEAN
        BY <1>4, <3>2, TimerTypes, Zenon DEF FireTimer
      <4> QED
        BY <4>1, PushTypes, TaskTypes, Zenon DEF Queues
    <3> QED
      BY <3>1, <3>2, Zenon
  <2>2. Timed0'
    BY <1>0, <1>4, TimerTypes, Zenon DEF ProcessTimer
  <2> QED
    BY <1>4, <2>1, <2>2, Zenon DEF ProcessTimer, TypeInv
<1>5. CASE SwapOut
  <2>1. <<>> \in Seq(Nat)
    BY EmptyFacts, Zenon
  <2> QED
    BY <1>5, <2>1, Zenon DEF SwapOut, TypeInv
<1>6. CASE PushBatch
  <2>1. queue' \in [Queues -> Seq(Tasks)]
    BY <1>6, PushTypes, TaskTypes, Zenon DEF PushBatch, Queues
  <2>2. <<>> \in Seq(Nat)
    BY EmptyFacts, Zenon
  <2> QED
    BY <1>6, <2>1, <2>2, Zenon DEF PushBatch, TypeInv
<1>7. CASE PushEvolve
  <2>1. queue' \in [Queues -> Seq(Tasks)]
    BY <1>7, PushTypes, TaskTypes, Zenon DEF PushEvolve, Queues
  <2> QED
    BY <1>7, <2>1, Zenon DEF PushEvolve, TypeInv
<1>8. ASSUME NEW q \in Queues, WorkerCheck(q) PROVE TypeInv'
  <2>1. [pc |-> IF running THEN "take" ELSE "done"] \in Workers
    BY Zenon
  <2>2. worker' \in [Queues -> Workers]
    BY <1>0, <1>8, <2>1, Zenon DEF WorkerCheck
  <2> QED
    BY <1>8, <2>2, Zenon DEF WorkerCheck, TypeInv
<1>9. ASSUME NEW q \in Queues, Take(q) PROVE TypeInv'
  <2>1. queue[q] \in Seq(Tasks) /\ queue \in [Queues -> Seq(Tasks)]
    BY Zenon DEF TypeInv
  <2>2. CASE queue[q] = <<>>
    <3>1. [pc |-> "check"] \in Workers /\ worker' = [worker EXCEPT ![q] = [pc |-> "check"]]
      BY <1>9, <2>2, Zenon DEF Take
    <3>2. worker' \in [Queues -> Workers] /\ queue' = [queue EXCEPT ![q] = @]
      BY <1>0, <1>9, <2>2, <3>1 DEF Take
    <3> QED
      BY <1>9, <2>1, <3>2, Zenon DEF Take, TypeInv
  <2>3. CASE queue[q] # <<>>
    <3>1. Head(queue[q]) \in Tasks /\ Tail(queue[q]) \in Seq(Tasks)
      BY <2>1, <2>3, TailFacts, Zenon
    <3>2. [pc |-> "run", task |-> Head(queue[q])] \in Workers
      BY <3>1, Zenon
    <3>3. /\ worker' = [worker EXCEPT ![q] = [pc |-> "run", task |-> Head(queue[q])]]
          /\ queue' = [queue EXCEPT ![q] = Tail(queue[q])]
      BY <1>9, <2>3, Zenon DEF Take
    <3>4. worker' \in [Queues -> Workers]
      BY <1>0, <3>2, <3>3, Zenon
    <3>5. queue' \in [Queues -> Seq(Tasks)]
      BY <2>1, <3>1, <3>3, Zenon
    <3> QED
      BY <1>9, <3>4, <3>5, Zenon DEF Take, TypeInv
  <2> QED
    BY <2>2, <2>3, Zenon
<1>10. ASSUME NEW q \in Queues, Run(q) PROVE TypeInv'
  <2> DEFINE task == worker[q].task
  <2>1. worker[q].pc = "run" /\ task \in Tasks
    BY <1>0, <1>10, Zenon DEF Run
  <2>2. task.kind = "batch" => task.msgs \in Seq(Nat)
    BY <2>1 DEF Tasks, Evolve, Submitted
  <2>3. task.kind = "timer" => task.entry \in Entries
    BY <2>1 DEF Tasks, Evolve, Submitted
  <2>4. processed' \in Seq(Nat)
    <3>1. processed \in Seq(Nat)
      BY Zenon DEF TypeInv
    <3>2. processed' = processed \/ (task.kind = "batch" /\ processed' = processed \o task.msgs)
      BY <1>10, Zenon DEF Run
    <3> HIDE DEF task
    <3> QED
      BY <2>2, <3>1, <3>2, ConcatFacts, Zenon
  <2>5. fired' \in [Entries -> Nat]
    <3>1. fired' = fired \/ (task.kind = "timer" /\ fired' = [fired EXCEPT ![task.entry] = @ + 1])
      BY <1>10, Zenon DEF Run
    <3>2. fired \in [Entries -> Nat]
      BY Zenon DEF TypeInv
    <3> HIDE DEF task
    <3> QED
      BY <2>3, <3>1, <3>2
  <2>6. worker' \in [Queues -> Workers]
    <3>1. [pc |-> "check"] \in Workers
      BY Zenon
    <3> QED
      BY <1>0, <1>10, <3>1, Zenon DEF Run
  <2> QED
    BY <1>10, <2>4, <2>5, <2>6, Zenon DEF Run, TypeInv
<1>11. CASE Start
  <2>1. starts' \in 0..budget.starts /\ Timed0'
    BY <1>11, StartTypes, Zenon
  <2> QED
    BY <1>11, <2>1, Zenon DEF Start, TypeInv
<1>12. CASE StartReactor
  <2>1. [pc |-> "check"] \in Workers
    BY Zenon
  <2>2. worker' \in [Queues -> Workers]
    BY <1>12, <2>1, Zenon DEF StartReactor
  <2> QED
    BY <1>12, <2>2, Zenon DEF StartReactor, TypeInv
<1>13. CASE Join
  <2>1. Idle \in Workers
    BY Zenon DEF Idle
  <2>2. worker' \in [Queues -> Workers]
    BY <1>13, <2>1, Zenon DEF Join
  <2> QED
    BY <1>13, <2>2, Zenon DEF Join, TypeInv
<1>14. CASE Stop \/ (\E q \in Queues : CloseQueue(q)) \/ CloseInbox \/ StopTransport \/ UNCHANGED vars
  BY <1>14, Zenon DEF Stop, CloseQueue, CloseInbox, StopTransport, TypeInv
<1>15. CASE Tick
  <2>1. Timed0'
    BY <1>0, <1>15, TickTypes DEF Tick
  <2> QED
    BY <1>15, <2>1, Zenon DEF Tick, TypeInv
<1> QED
  BY <1>1, <1>2, <1>3, <1>4, <1>5, <1>6, <1>7, <1>8, <1>9, <1>10, <1>11, <1>12, <1>13,
     <1>14, <1>15, Zenon DEF Next, ReactorStep, WorkerStep, StopStep

-----------------------------------------------------------------------------
(***************************************************************************)
(* The threads                                                             *)
(***************************************************************************)

LEMMA ThreadStep ==
    ASSUME TypeInv, HandOver, NoThreads, [Next]_vars
    PROVE  HandOver' /\ NoThreads'
<1> USE DEF vars, queues, threads, caller, counts, history
<1> DEFINE IoOnly == /\ \A i \in DOMAIN queue["io"] : queue["io"][i] = Submitted
                     /\ worker["io"].pc = "run" => worker["io"].task = Submitted
           Held == batch # <<>> => reactor = "batch"
<1>0. queue \in [Queues -> Seq(Tasks)] /\ "io" \in Queues /\ "cpu" \in Queues /\ IoOnly /\ Held
  BY Zenon DEF TypeInv, Queues, HandOver
<1>1. ASSUME UNCHANGED <<queue, worker>> PROVE IoOnly'
  BY <1>0, <1>1, Zenon
<1>2. ASSUME NEW t \in Tasks, TryPush("cpu", t), UNCHANGED worker PROVE IoOnly'
  <2>1. queue'["io"] = queue["io"]
    BY <1>0, <1>2, PushTypes, Zenon
  <2> QED
    BY <1>0, <1>2, <2>1, Zenon
<1>3. CASE Arrive
  BY <1>1, <1>3, Zenon DEF Arrive, HandOver, NoThreads
<1>4. ASSUME NEW q \in Queues, Submit(q) PROVE HandOver' /\ NoThreads'
  <2>1. TryPush(q, Submitted) /\ UNCHANGED <<batch, reactor, worker, control>>
    BY <1>4, Zenon DEF Submit
  <2>2. \A i \in DOMAIN queue'["io"] : queue'["io"][i] = Submitted
    <3>1. CASE q = "io" /\ Accepts("io")
      <4> DEFINE s == queue["io"]
      <4>1. queue'["io"] = Append(s, Submitted) /\ s \in Seq(Tasks) /\ Submitted \in Tasks
        BY <1>0, <2>1, <3>1, PushTypes, TaskTypes
      <4>2. /\ Append(s, Submitted) \in Seq(Tasks) /\ Len(Append(s, Submitted)) = Len(s) + 1
            /\ \A i \in 1..Len(s) : Append(s, Submitted)[i] = s[i]
            /\ Append(s, Submitted)[Len(s) + 1] = Submitted
        BY <4>1, AppendFacts
      <4>3. Len(s) \in Nat /\ DOMAIN s = 1..Len(s) /\ DOMAIN Append(s, Submitted) = 1..(Len(s) + 1)
        BY <4>1, <4>2, LenFacts, Zenon
      <4>4. \A i \in 1..Len(s) : Append(s, Submitted)[i] = Submitted
        BY <1>0, <4>2, <4>3, Zenon
      <4>5. \A i \in 1..(Len(s) + 1) : i \in 1..Len(s) \/ i = Len(s) + 1
        BY <4>3
      <4> QED
        BY <4>1, <4>2, <4>3, <4>4, <4>5, Zenon
    <3>2. CASE q = "cpu" \/ ~Accepts("io")
      <4>1. queue'["io"] = queue["io"]
        BY <1>0, <2>1, <3>2, PushTypes, TaskTypes, Zenon DEF Queues
      <4> QED
        BY <1>0, <4>1, Zenon
    <3> QED
      BY <3>1, <3>2, Zenon DEF Queues
  <2> QED
    BY <1>0, <2>1, <2>2, Zenon DEF HandOver, NoThreads
<1>5. CASE ReactorCheck \/ TimersDone
  <2>1. batch = <<>> /\ reactor # "off" /\ UNCHANGED <<batch, queue, worker, control>>
    BY <1>0, <1>5, Zenon DEF ReactorCheck, TimersDone
  <2> QED
    BY <1>1, <2>1, Zenon DEF HandOver, NoThreads
<1>6. ASSUME NEW e \in Entries, ProcessTimer(e) PROVE HandOver' /\ NoThreads'
  <2>1. UNCHANGED <<batch, reactor, worker, control>>
    BY <1>6, Zenon DEF ProcessTimer
  <2>2. IoOnly'
    <3>1. CASE Skips(e)
      BY <1>1, <1>6, <2>1, <3>1, TimerTypes, Zenon
    <3>2. CASE ~Skips(e)
      <4>1. TryPush("cpu", Timed(e, timer[e].fn)) /\ timer[e].fn \in BOOLEAN
        BY <1>6, <3>2, TimerTypes, Zenon DEF FireTimer
      <4> QED
        BY <1>2, <2>1, <4>1, TaskTypes, Zenon
    <3> QED
      BY <3>1, <3>2, Zenon
  <2> QED
    BY <2>1, <2>2, Zenon DEF HandOver, NoThreads
<1>7. CASE SwapOut
  <2>1. IoOnly' /\ (batch' # <<>> => reactor' = "batch") /\ reactor # "off" /\ UNCHANGED control
    BY <1>1, <1>7, Zenon DEF SwapOut
  <2> QED
    BY <2>1, Zenon DEF HandOver, NoThreads
<1>8. CASE PushBatch
  <2>1. IoOnly'
    BY <1>2, <1>8, TaskTypes, Zenon DEF PushBatch
  <2>2. batch' = <<>> /\ reactor # "off" /\ UNCHANGED control
    BY <1>8, Zenon DEF PushBatch
  <2> QED
    BY <2>1, <2>2, Zenon DEF HandOver, NoThreads
<1>9. CASE PushEvolve
  <2>1. IoOnly'
    BY <1>2, <1>9, TaskTypes, Zenon DEF PushEvolve
  <2>2. batch' = <<>> /\ reactor # "off" /\ UNCHANGED control
    BY <1>0, <1>9, Zenon DEF PushEvolve
  <2> QED
    BY <2>1, <2>2, Zenon DEF HandOver, NoThreads
<1>10. ASSUME NEW q \in Queues, WorkerStep(q) PROVE HandOver' /\ NoThreads'
  <2>1. worker[q].pc # "off" /\ UNCHANGED <<batch, reactor, control>>
    BY <1>10, Zenon DEF WorkerStep, WorkerCheck, Take, Run
  <2>2. NoThreads'
    <3>1. worker[q] # Idle
      BY <2>1 DEF Idle
    <3> QED
      BY <1>0, <2>1, <3>1, Zenon DEF NoThreads
  <2>3. DOMAIN worker = Queues
    BY Zenon DEF TypeInv
  <2>4. IoOnly'
    <3>1. CASE q = "cpu"
      <4>1. queue'["io"] = queue["io"] /\ worker'["io"] = worker["io"]
        BY <1>0, <1>10, <2>3, <3>1, Zenon DEF WorkerStep, WorkerCheck, Take, Run
      <4> QED
        BY <1>0, <4>1, Zenon
    <3>2. CASE q = "io" /\ (WorkerCheck(q) \/ Run(q))
      <4>1. queue' = queue /\ worker'["io"].pc # "run"
        BY <2>3, <3>2 DEF WorkerCheck, Run
      <4> QED
        BY <1>0, <4>1, Zenon
    <3>3. CASE q = "io" /\ Take(q) /\ queue["io"] = <<>>
      <4>1. queue'["io"] = queue["io"] /\ worker'["io"].pc # "run"
        BY <1>0, <2>3, <3>3, Zenon DEF Take
      <4> QED
        BY <1>0, <4>1, Zenon
    <3>4. CASE q = "io" /\ Take(q) /\ queue["io"] # <<>>
      <4> DEFINE s == queue["io"]
      <4>1. queue'["io"] = Tail(s) /\ worker'["io"] = [pc |-> "run", task |-> Head(s)]
        BY <1>0, <2>3, <3>4, Zenon DEF Take
      <4>2. s \in Seq(Tasks) /\ s # <<>> /\ \A i \in DOMAIN s : s[i] = Submitted
        BY <1>0, <3>4, Zenon
      <4> HIDE DEF s
      <4>3. Len(s) \in Nat \ {0} /\ DOMAIN s = 1..Len(s) /\ Head(s) = s[1]
        BY <4>2, EmptyFacts, LenFacts
      <4>4. /\ Tail(s) \in Seq(Tasks) /\ Len(Tail(s)) = Len(s) - 1
            /\ \A i \in 1..Len(Tail(s)) : Tail(s)[i] = s[i + 1]
        BY <4>2, TailFacts, Zenon
      <4>5. DOMAIN Tail(s) = 1..(Len(s) - 1)
        BY <4>4, LenFacts, Zenon
      <4>6. Head(s) = Submitted /\ \A i \in DOMAIN Tail(s) : Tail(s)[i] = Submitted
        BY <4>2, <4>3, <4>4, <4>5
      <4> QED
        BY <4>1, <4>6
    <3> QED
      BY <1>10, <3>1, <3>2, <3>3, <3>4, Zenon DEF WorkerStep, Queues
  <2> QED
    BY <2>1, <2>2, <2>4, Zenon DEF HandOver
<1>11. CASE Start
  BY <1>1, <1>11, Zenon DEF Start, HandOver, NoThreads
<1>12. CASE StartReactor
  <2>1. batch = <<>>
    BY <1>0, <1>12, Zenon DEF StartReactor, NoThreads
  <2>2. /\ UNCHANGED <<queue, batch>> /\ worker' = [q \in Queues |-> [pc |-> "check"]]
        /\ control' = "up"
    BY <1>12, Zenon DEF StartReactor
  <2>3. worker'["io"].pc # "run"
    BY <1>0, <2>2, Zenon
  <2> QED
    BY <1>0, <2>1, <2>2, <2>3, Zenon DEF HandOver, NoThreads
<1>13. CASE Join
  <2>1. batch = <<>>
    BY <1>0, <1>13, Zenon DEF Join
  <2>2. /\ UNCHANGED <<queue, batch>> /\ worker' = [q \in Queues |-> Idle] /\ reactor' = "off"
    BY <1>13, Zenon DEF Join
  <2>3. worker'["io"].pc # "run" /\ \A q \in Queues : worker'[q] = Idle
    BY <1>0, <2>2, Zenon DEF Idle
  <2> QED
    BY <1>0, <2>1, <2>2, <2>3, Zenon DEF HandOver, NoThreads
<1>14. CASE Stop \/ (\E q \in Queues : CloseQueue(q)) \/ CloseInbox \/ StopTransport \/ Tick
            \/ UNCHANGED vars
  <2>1. UNCHANGED <<queue, worker, batch, reactor>>
    BY <1>14, Zenon DEF Stop, CloseQueue, CloseInbox, StopTransport, Tick
  <2>2. NoThreads'
    BY <1>14, <2>1, Zenon DEF Stop, CloseQueue, CloseInbox, StopTransport, Tick, NoThreads
  <2> QED
    BY <1>1, <2>1, <2>2, Zenon DEF HandOver
<1> QED
  BY <1>3, <1>4, <1>5, <1>6, <1>7, <1>8, <1>9, <1>10, <1>11, <1>12, <1>13, <1>14, Zenon
     DEF Next, ReactorStep, StopStep

-----------------------------------------------------------------------------
(***************************************************************************)
(* What a step does to the messages, the timers and the CPU thread's tasks *)
(***************************************************************************)

MessagesSame == UNCHANGED <<processed, batch, inbox, arrived, dropped>>
TimersSame == UNCHANGED <<timer, fired, lost>>

\* A task that is not a batch, and no function of a timer, is pushed.
PushesPlain ==
    \E t \in {Evolve, Submitted} :
        CpuTasks' = Append(CpuTasks, t) /\ MessagesSame /\ TimersSame

\* The steps, by what the three invariants below see of them.
Effect ==
    \/ CpuTasks' = CpuTasks /\ MessagesSame /\ TimersSame
    \/ CpuTasks' = CpuTasks /\ Arrive
    \/ CpuTasks' = CpuTasks /\ SwapOut /\ batch = <<>>
    \/ CpuTasks' = CpuTasks /\ MessagesSame /\ (Start \/ Tick)
    \/ PushBatch
    \/ PushesPlain
    \/ \E e \in Entries : ProcessTimer(e)
    \/ Run("cpu")

LEMMA StepEffect ==
    ASSUME TypeInv, HandOver, NoThreads, [Next]_vars
    PROVE  Effect
<1> USE DEF vars, queues, threads, caller, counts, history
<1>0. worker \in [Queues -> [pc : {"off", "check", "take", "done"}] \cup [pc : {"run"}, task : Tasks]]
  BY Zenon DEF TypeInv
<1>1. ASSUME UNCHANGED queue, worker'["cpu"].pc # "run", worker["cpu"].pc # "run"
      PROVE  CpuTasks' = CpuTasks
  BY <1>1, Zenon DEF CpuTasks, Hand
<1>2. ASSUME NEW t \in {Evolve, Submitted}, NEW q \in Queues, TryPush(q, t), UNCHANGED worker,
             MessagesSame, TimersSame
      PROVE  Effect
  <2>1. t \in Tasks
    BY TaskTypes, Zenon
  <2>2. CASE Accepts(q) /\ q = "cpu"
    <3>1. queue' = [queue EXCEPT !["cpu"] = Append(@, t)]
      BY <1>2, <2>1, <2>2, PushTypes, Zenon
    <3>2. CpuTasks' = Append(CpuTasks, t)
      BY <1>2, <2>1, <3>1, TasksPush, Zenon
    <3> QED
      BY <1>2, <3>2, Zenon DEF Effect, PushesPlain
  <2>3. CASE Accepts(q) /\ q = "io"
    <3>1. queue' = [queue EXCEPT !["io"] = Append(@, t)] /\ "cpu" # "io"
      BY <1>2, <2>1, <2>3, PushTypes
    <3>2. queue'["cpu"] = queue["cpu"]
      BY <3>1 DEF TypeInv, Queues
    <3> QED
      BY <1>2, <3>2, Zenon DEF Effect, CpuTasks, Hand
  <2>4. CASE ~Accepts(q)
    <3>1. queue' = queue
      BY <1>2, <2>1, <2>4, PushTypes, Zenon
    <3> QED
      BY <1>2, <3>1, TasksSame, Zenon DEF Effect
  <2> QED
    BY <2>2, <2>3, <2>4, Zenon DEF Queues
<1>3. CASE Arrive
  BY <1>3, TasksSame, Zenon DEF Arrive, Effect
<1>4. ASSUME NEW q \in Queues, Submit(q) PROVE Effect
  <2>1. TryPush(q, Submitted) /\ UNCHANGED worker /\ MessagesSame /\ TimersSame
    BY <1>4, Zenon DEF Submit, MessagesSame, TimersSame
  <2> QED
    BY <1>2, <2>1, Zenon
<1>5. CASE ReactorCheck \/ TimersDone
  BY <1>5, TasksSame, Zenon DEF ReactorCheck, TimersDone, Effect, MessagesSame, TimersSame
<1>6. CASE SwapOut
  <2>1. batch = <<>>
    BY <1>6 DEF SwapOut, HandOver
  <2> QED
    BY <1>6, <2>1, TasksSame, Zenon DEF SwapOut, Effect
<1>7. CASE PushEvolve
  <2>1. TryPush("cpu", Evolve) /\ UNCHANGED worker /\ MessagesSame /\ TimersSame
    BY <1>7, Zenon DEF PushEvolve, MessagesSame, TimersSame
  <2> QED
    BY <1>2, <2>1, Zenon DEF Queues
<1>8. ASSUME NEW q \in Queues, WorkerStep(q) PROVE Effect
  <2>1. CASE Take(q)
    BY <2>1, TasksTake, Zenon DEF Take, Effect, MessagesSame, TimersSame
  <2>2. CASE WorkerCheck(q)
    <3>1. worker["cpu"].pc = "run" => q # "cpu"
      BY <2>2 DEF WorkerCheck
    <3>2. worker'["cpu"] = worker["cpu"] \/ (worker'["cpu"].pc # "run" /\ worker["cpu"].pc # "run")
      BY <1>0, <2>2 DEF WorkerCheck
    <3>3. UNCHANGED queue /\ MessagesSame /\ TimersSame
      BY <2>2, Zenon DEF WorkerCheck, MessagesSame, TimersSame
    <3>4. CpuTasks' = CpuTasks
      BY <3>2, <3>3, Zenon DEF CpuTasks, Hand
    <3> QED
      BY <3>3, <3>4, Zenon DEF Effect
  <2>3. CASE Run("io") /\ q = "io"
    <3>1. worker["io"].task = Submitted /\ worker["io"].task.kind = "submitted"
      <4>1. worker["io"].task = Submitted
        BY <2>3, Zenon DEF Run, HandOver
      <4> QED
        BY <4>1 DEF Submitted
    <3>2. UNCHANGED <<queue, processed, fired>>
      BY <2>3, <3>1 DEF Run
    <3>3. worker'["cpu"] = worker["cpu"]
      BY <1>0, <2>3 DEF Run, Queues
    <3>4. MessagesSame /\ TimersSame
      BY <2>3, <3>2, Zenon DEF Run, MessagesSame, TimersSame
    <3>5. CpuTasks' = CpuTasks
      BY <3>2, <3>3, Zenon DEF CpuTasks, Hand
    <3> QED
      BY <3>4, <3>5, Zenon DEF Effect
  <2> QED
    BY <1>8, <2>1, <2>2, <2>3, Zenon DEF WorkerStep, Effect, Queues
<1>9. CASE StartReactor \/ Join
  <2>1. worker["cpu"].pc # "run" /\ worker'["cpu"].pc # "run"
    <3>1. CASE StartReactor
      <4>1. worker["cpu"] = Idle /\ worker'["cpu"] = [pc |-> "check"]
        BY <3>1, Zenon DEF StartReactor, NoThreads, Queues
      <4> QED
        BY <4>1 DEF Idle
    <3>2. CASE Join
      <4>1. worker["cpu"].pc = "done" /\ worker'["cpu"] = Idle
        BY <3>2, Zenon DEF Join, Queues
      <4> QED
        BY <4>1 DEF Idle
    <3> QED
      BY <1>9, <3>1, <3>2, Zenon
  <2>2. UNCHANGED queue /\ MessagesSame /\ TimersSame
    BY <1>9, Zenon DEF StartReactor, Join, MessagesSame, TimersSame
  <2> QED
    BY <1>1, <2>1, <2>2, Zenon DEF Effect
<1>10. CASE Stop \/ (\E q \in Queues : CloseQueue(q)) \/ CloseInbox \/ StopTransport
            \/ UNCHANGED vars
  <2>1. UNCHANGED <<queue, worker>> /\ MessagesSame /\ TimersSame
    BY <1>10, Zenon DEF Stop, CloseQueue, CloseInbox, StopTransport, MessagesSame, TimersSame
  <2> QED
    BY <2>1, TasksSame, Zenon DEF Effect
<1>11. CASE Start \/ Tick
  <2>1. UNCHANGED <<queue, worker>> /\ MessagesSame
    BY <1>11, Zenon DEF Start, Tick, MessagesSame
  <2> QED
    BY <1>11, <2>1, TasksSame, Zenon DEF Effect
<1>12. CASE PushBatch \/ \E e \in Entries : ProcessTimer(e)
  BY <1>12, Zenon DEF Effect
<1> QED
  BY <1>3, <1>4, <1>5, <1>6, <1>7, <1>8, <1>9, <1>10, <1>11, <1>12, Zenon
     DEF Next, ReactorStep, StopStep

-----------------------------------------------------------------------------
(***************************************************************************)
(* The order of the messages                                               *)
(***************************************************************************)

LEMMA OrderAppend ==
    ASSUME NEW s \in Seq(Nat), NEW n \in Nat, Increasing(s), \A i \in DOMAIN s : s[i] < n
    PROVE  /\ Increasing(Append(s, n))
           /\ \A r \in Seq(Nat) :
                 Below(r, s) /\ (\A i \in DOMAIN r : r[i] < n) => Below(r, Append(s, n))
<1>1. /\ DOMAIN Append(s, n) = 1..(Len(s) + 1) /\ DOMAIN s = 1..Len(s) /\ Len(s) \in Nat
      /\ \A i \in 1..Len(s) : Append(s, n)[i] = s[i]
      /\ Append(s, n)[Len(s) + 1] = n
  BY AppendFacts, LenFacts
<1>2. \A i \in DOMAIN Append(s, n) : i = Len(s) + 1 \/ i \in DOMAIN s
  BY <1>1
<1>3. Increasing(Append(s, n))
  BY <1>1, <1>2 DEF Increasing
<1>4. ASSUME NEW r \in Seq(Nat), Below(r, s), \A i \in DOMAIN r : r[i] < n
      PROVE  Below(r, Append(s, n))
  BY <1>1, <1>2, <1>4 DEF Below
<1> QED
  BY <1>3, <1>4, Zenon

LEMMA OrderConcat ==
    ASSUME NEW s \in Seq(Nat), NEW t \in Seq(Nat), Increasing(s), Increasing(t), Below(s, t)
    PROVE  /\ Increasing(s \o t)
           /\ \A u \in Seq(Nat) : Below(s, u) /\ Below(t, u) => Below(s \o t, u)
<1> DEFINE c == s \o t
<1>1. /\ Len(s) \in Nat /\ Len(t) \in Nat /\ DOMAIN s = 1..Len(s) /\ DOMAIN t = 1..Len(t)
      /\ DOMAIN c = 1..(Len(s) + Len(t))
      /\ \A i \in DOMAIN c : c[i] = IF i <= Len(s) THEN s[i] ELSE t[i - Len(s)]
  BY ConcatFacts, LenFacts
<1> HIDE DEF c
<1>2. \A i \in DOMAIN c : \/ i \in DOMAIN s /\ c[i] = s[i]
                          \/ i > Len(s) /\ i - Len(s) \in DOMAIN t /\ c[i] = t[i - Len(s)]
  BY <1>1
<1>3. Increasing(c)
  <2> SUFFICES ASSUME NEW a \in DOMAIN c, NEW b \in DOMAIN c, a < b PROVE c[a] < c[b]
    BY Zenon DEF Increasing
  <2>1. CASE b \in DOMAIN s /\ c[b] = s[b]
    BY <1>1, <1>2, <2>1 DEF Increasing
  <2>2. CASE a \in DOMAIN s /\ c[a] = s[a] /\ b - Len(s) \in DOMAIN t /\ c[b] = t[b - Len(s)]
    BY <2>2, Zenon DEF Below
  <2>3. CASE /\ a - Len(s) \in DOMAIN t /\ c[a] = t[a - Len(s)]
             /\ b - Len(s) \in DOMAIN t /\ c[b] = t[b - Len(s)]
    <3>1. a - Len(s) < b - Len(s)
      BY <1>1
    <3> QED
      BY <2>3, <3>1, Zenon DEF Increasing
  <2> QED
    BY <1>2, <2>1, <2>2, <2>3, Zenon
<1>4. ASSUME NEW u \in Seq(Nat), Below(s, u), Below(t, u) PROVE Below(c, u)
  BY <1>2, <1>4, Zenon DEF Below
<1> QED
  BY <1>3, <1>4, Zenon DEF c

LEMMA MessageTypes ==
    /\ \A t \in Tasks : Messages(t) \in Seq(Nat)
    /\ Messages(Evolve) = <<>> /\ Messages(Submitted) = <<>>
    /\ \A e \in Entries, f \in BOOLEAN : Messages(Timed(e, f)) = <<>>
    /\ \A s \in Seq(Nat) : Messages(Batch(s)) = s
BY EmptyFacts DEF Messages, Tasks, Evolve, Submitted, Timed, Batch

\* A task that carries the batch, or no message, is pushed.
LEMMA OrderPush ==
    ASSUME TypeInv, OrderInv, NEW t \in Tasks, CpuTasks' = Append(CpuTasks, t),
           UNCHANGED <<processed, inbox>>,
           (Messages(t) = batch /\ batch' = <<>>) \/ (Messages(t) = <<>> /\ batch' = batch)
    PROVE  OrderInv'
<1> DEFINE C == CpuTasks
           c == Append(C, t)
           k == Len(C) + 1
<1>1. /\ C \in Seq(Tasks) /\ Len(C) \in Nat /\ DOMAIN C = 1..Len(C) /\ DOMAIN c = 1..k
      /\ \A i \in 1..Len(C) : c[i] = C[i]
      /\ c[k] = t
  BY TasksShape, AppendFacts, LenFacts
<1>2. \A i \in DOMAIN c : i = k \/ (i \in DOMAIN C /\ i < k /\ c[i] = C[i])
  BY <1>1
<1>3. \A i, j \in DOMAIN c : i < j => i \in DOMAIN C /\ c[i] = C[i]
  BY <1>1
<1>4. DOMAIN <<>> = {}
  OBVIOUS
<1> HIDE DEF C, c, k
<1>5. /\ Increasing(Messages(t)) /\ Increasing(batch')
      /\ Below(processed, Messages(t)) /\ Below(processed, batch')
      /\ Below(batch', inbox) /\ Below(Messages(t), inbox) /\ Below(Messages(t), batch')
      /\ \A i \in DOMAIN C : Below(Messages(C[i]), Messages(t)) /\ Below(Messages(C[i]), batch')
  <2>1. \A s : Increasing(<<>>) /\ Below(<<>>, s) /\ Below(s, <<>>)
    BY <1>4, Zenon DEF Increasing, Below
  <2>2. /\ Increasing(batch) /\ Below(processed, batch) /\ Below(batch, inbox)
        /\ \A i \in DOMAIN C : Below(Messages(C[i]), batch)
    BY Zenon DEF OrderInv, C
  <2> QED
    BY <2>1, <2>2, Zenon
<1>6. ASSUME NEW i \in DOMAIN c
      PROVE  /\ Increasing(Messages(c[i])) /\ Below(processed, Messages(c[i]))
             /\ Below(Messages(c[i]), batch') /\ Below(Messages(c[i]), inbox)
             /\ \A j \in DOMAIN c : i < j => Below(Messages(c[i]), Messages(c[j]))
  <2>1. CASE i = k
    BY <1>1, <1>2, <1>5, <2>1
  <2>2. CASE i \in DOMAIN C /\ c[i] = C[i]
    <3>1. ASSUME NEW j \in DOMAIN c, i < j PROVE Below(Messages(c[i]), Messages(c[j]))
      <4>1. CASE j = k
        BY <1>1, <1>5, <2>2, <4>1, Zenon
      <4>2. CASE j \in DOMAIN C /\ c[j] = C[j]
        BY <2>2, <3>1, <4>2, Zenon DEF OrderInv, C
      <4> QED
        BY <1>2, <4>1, <4>2, Zenon
    <3>2. Increasing(Messages(C[i])) /\ Below(processed, Messages(C[i])) /\ Below(Messages(C[i]), inbox)
      BY <2>2, Zenon DEF OrderInv, C
    <3> QED
      BY <1>5, <2>2, <3>1, <3>2, Zenon
  <2> QED
    BY <1>2, <2>1, <2>2, Zenon
<1>7. /\ processed' = processed /\ inbox' = inbox /\ CpuTasks' = c
      /\ Increasing(processed) /\ Increasing(inbox) /\ Below(processed, inbox)
  BY Zenon DEF OrderInv, c, C
<1> QED
  BY <1>5, <1>6, <1>7, Zenon DEF OrderInv

\* What the CPU thread has run is the first of its tasks.
LEMMA RunEffect ==
    ASSUME TypeInv, Run("cpu")
    PROVE  /\ 1 \in DOMAIN CpuTasks /\ CpuTasks[1] \in Tasks
           /\ processed' = processed \o Messages(CpuTasks[1])
           /\ \A i \in DOMAIN CpuTasks' : /\ i + 1 \in DOMAIN CpuTasks /\ i + 1 # 1
                                          /\ CpuTasks'[i] = CpuTasks[i + 1]
           /\ \A i \in DOMAIN CpuTasks : i = 1 \/ (i - 1 \in DOMAIN CpuTasks' /\ i = (i - 1) + 1)
           /\ \A i, j \in DOMAIN CpuTasks' : i < j => i + 1 < j + 1
           /\ \A i \in DOMAIN CpuTasks' : 1 < i + 1
           /\ UNCHANGED <<batch, inbox, arrived, dropped, timer, lost>>
<1>1. /\ CpuTasks' \in Seq(Tasks) /\ CpuTasks \in Seq(Tasks)
      /\ Len(CpuTasks) = Len(CpuTasks') + 1
      /\ CpuTasks[1] = worker["cpu"].task /\ worker["cpu"].task \in Tasks
      /\ \A i \in 1..Len(CpuTasks') : CpuTasks'[i] = CpuTasks[i + 1]
  BY TasksRun, TasksShape, Zenon
<1>2. /\ Len(CpuTasks') \in Nat /\ DOMAIN CpuTasks' = 1..Len(CpuTasks')
      /\ Len(CpuTasks) \in Nat /\ DOMAIN CpuTasks = 1..Len(CpuTasks)
  BY <1>1, LenFacts, Zenon
<1>3. processed' = processed \o Messages(CpuTasks[1])
  <2>1. processed \o <<>> = processed
    BY ConcatEmpty DEF TypeInv
  <2> QED
    BY <1>1, <2>1, Zenon DEF Run, Messages
<1>4. UNCHANGED <<batch, inbox, arrived, dropped, timer, lost>>
  BY Zenon DEF Run, queues, counts
<1>5. /\ 1 \in DOMAIN CpuTasks
      /\ \A i \in DOMAIN CpuTasks' : i + 1 \in DOMAIN CpuTasks /\ i + 1 # 1 /\ 1 < i + 1
      /\ \A i \in DOMAIN CpuTasks : i = 1 \/ (i - 1 \in DOMAIN CpuTasks' /\ i = (i - 1) + 1)
      /\ \A i, j \in DOMAIN CpuTasks' : i < j => i + 1 < j + 1
  BY <1>1, <1>2
<1> QED
  BY <1>1, <1>2, <1>3, <1>4, <1>5, Zenon

\* The numbers of the messages under way are at most the number of arrivals.
LEMMA UnderwayBound ==
    ASSUME TypeInv, CountInv
    PROVE  /\ \A i \in DOMAIN processed : processed[i] \in 1..arrived
           /\ \A i \in DOMAIN batch : batch[i] \in 1..arrived
           /\ \A i \in DOMAIN inbox : inbox[i] \in 1..arrived
           /\ \A i \in DOMAIN CpuTasks : \A a \in DOMAIN Messages(CpuTasks[i]) :
                 Messages(CpuTasks[i])[a] \in 1..arrived
<1>1. Underway \subseteq 1..arrived
  BY Zenon DEF CountInv
<1>2. /\ \A i \in DOMAIN processed : processed[i] \in Range(processed)
      /\ \A i \in DOMAIN batch : batch[i] \in Range(batch)
      /\ \A i \in DOMAIN inbox : inbox[i] \in Range(inbox)
  BY Zenon DEF Range
<1>3. ASSUME NEW i \in DOMAIN CpuTasks, NEW a \in DOMAIN Messages(CpuTasks[i])
      PROVE  Messages(CpuTasks[i])[a] \in InTasks
  <2>1. Messages(CpuTasks[i])[a] \in Range(Messages(CpuTasks[i]))
    BY <1>3, Zenon DEF Range
  <2> QED
    BY <1>3, <2>1, Zenon DEF InTasks
<1> QED
  BY <1>1, <1>2, <1>3, Zenon DEF Underway

LEMMA OrderStep ==
    ASSUME TypeInv, TypeInv', OrderInv, CountInv, Effect
    PROVE  OrderInv'
<1>1. ASSUME CpuTasks' = CpuTasks, UNCHANGED <<processed, batch, inbox>> PROVE OrderInv'
  BY <1>1, Zenon DEF OrderInv
<1>2. DOMAIN <<>> = {} /\ \A s : Increasing(<<>>) /\ Below(<<>>, s) /\ Below(s, <<>>)
  BY DEF Increasing, Below
<1>3. /\ processed \in Seq(Nat) /\ batch \in Seq(Nat) /\ inbox \in Seq(Nat)
      /\ \A i \in DOMAIN CpuTasks : CpuTasks[i] \in Tasks /\ Messages(CpuTasks[i]) \in Seq(Nat)
  <2>1. \A i \in DOMAIN CpuTasks : CpuTasks[i] \in Tasks
    BY TasksShape, LenFacts
  <2> QED
    BY <2>1, MessageTypes, Zenon DEF TypeInv
<1>4. CASE CpuTasks' = CpuTasks /\ Arrive
  <2> DEFINE n == arrived + 1
  <2>1. n \in Nat /\ \A x \in 1..arrived : x < n
    BY DEF TypeInv
  <2>2. UNCHANGED <<processed, batch>> /\ (inbox' = inbox \/ inbox' = Append(inbox, n))
    BY <1>4, Zenon DEF Arrive, threads
  <2> HIDE DEF n
  <2>3. CASE inbox' = inbox
    BY <1>1, <1>4, <2>2, <2>3, Zenon
  <2>4. CASE inbox' = Append(inbox, n)
    <3>1. Increasing(inbox')
      BY <1>3, <2>1, <2>4, OrderAppend, UnderwayBound, Zenon DEF OrderInv
    <3>2. \A s \in Seq(Nat) : Below(s, inbox) /\ (\A i \in DOMAIN s : s[i] < n) => Below(s, inbox')
      BY <1>3, <2>1, <2>4, OrderAppend, UnderwayBound, Zenon DEF OrderInv
    <3>3. Below(processed, inbox') /\ Below(batch, inbox')
      BY <1>3, <2>1, <3>2, UnderwayBound, Zenon DEF OrderInv
    <3>4. \A i \in DOMAIN CpuTasks : Below(Messages(CpuTasks[i]), inbox')
      BY <1>3, <2>1, <3>2, UnderwayBound, Zenon DEF OrderInv
    <3> QED
      BY <1>4, <2>2, <3>1, <3>3, <3>4, Zenon DEF OrderInv
  <2> QED
    BY <2>2, <2>3, <2>4, Zenon
<1>5. CASE CpuTasks' = CpuTasks /\ SwapOut /\ batch = <<>>
  <2>1. batch' = inbox /\ inbox' = <<>> /\ processed' = processed
    BY <1>5, Zenon DEF SwapOut, history
  <2> QED
    BY <1>2, <1>5, <2>1, Zenon DEF OrderInv
<1>6. CASE PushBatch
  <2>1. TryPush("cpu", Batch(batch)) /\ batch' = <<>> /\ UNCHANGED <<processed, inbox, worker>>
    BY <1>6, Zenon DEF PushBatch
  <2>2. Batch(batch) \in Tasks /\ Messages(Batch(batch)) = batch
    BY <1>3, MessageTypes, TaskTypes, Zenon
  <2>3. CASE Accepts("cpu")
    <3>1. CpuTasks' = Append(CpuTasks, Batch(batch))
      BY <2>1, <2>2, <2>3, PushTypes, TasksPush, Zenon DEF Queues
    <3> QED
      BY <2>1, <2>2, <3>1, OrderPush, Zenon
  <2>4. CASE ~Accepts("cpu")
    <3>1. CpuTasks' = CpuTasks
      BY <2>1, <2>2, <2>4, PushTypes, TasksSame, Zenon DEF Queues
    <3> QED
      BY <1>2, <2>1, <3>1, Zenon DEF OrderInv
  <2> QED
    BY <2>3, <2>4, Zenon
<1>7. CASE PushesPlain
  <2>1. PICK t \in {Evolve, Submitted} : CpuTasks' = Append(CpuTasks, t) /\ MessagesSame
    BY <1>7, Zenon DEF PushesPlain
  <2>2. t \in Tasks /\ Messages(t) = <<>>
    BY MessageTypes, TaskTypes, Zenon
  <2> QED
    BY <2>1, <2>2, OrderPush, Zenon DEF MessagesSame
<1>8. ASSUME NEW e \in Entries, ProcessTimer(e) PROVE OrderInv'
  <2>1. UNCHANGED <<processed, batch, inbox, worker>>
    BY <1>8, Zenon DEF ProcessTimer, threads
  <2>2. CASE Skips(e) \/ ~Accepts("cpu")
    <3>1. queue' = queue
      BY <1>8, <2>2, TimerTypes, Zenon DEF FireTimer, TryPush
    <3> QED
      BY <1>1, <2>1, <3>1, TasksSame, Zenon
  <2>3. CASE ~Skips(e) /\ Accepts("cpu")
    <3> DEFINE t == Timed(e, timer[e].fn)
    <3>1. t \in Tasks /\ Messages(t) = <<>>
      BY <1>8, MessageTypes, TaskTypes, TimerTypes, Zenon
    <3>2. TryPush("cpu", t)
      BY <1>8, <2>3, TimerTypes, Zenon DEF FireTimer
    <3> HIDE DEF t
    <3>3. CpuTasks' = Append(CpuTasks, t)
      BY <2>1, <2>3, <3>1, <3>2, PushTypes, TasksPush, Zenon DEF Queues
    <3> QED
      BY <2>1, <3>1, <3>3, OrderPush, Zenon
  <2> QED
    BY <2>2, <2>3, Zenon
<1>9. CASE Run("cpu")
  <2> DEFINE C == CpuTasks
             m == Messages(C[1])
  <2>1. /\ 1 \in DOMAIN C /\ processed' = processed \o m
        /\ \A i \in DOMAIN C' : i + 1 \in DOMAIN C /\ C'[i] = C[i + 1] /\ 1 < i + 1
        /\ \A i, j \in DOMAIN C' : i < j => i + 1 < j + 1
        /\ UNCHANGED <<batch, inbox>>
    BY <1>9, RunEffect, Zenon
  <2>2. m \in Seq(Nat) /\ Increasing(m) /\ Below(processed, m)
    BY <1>3, <2>1, Zenon DEF OrderInv
  <2>3. /\ Increasing(processed')
        /\ \A u \in Seq(Nat) : Below(processed, u) /\ Below(m, u) => Below(processed', u)
    BY <1>3, <2>1, <2>2, OrderConcat, Zenon DEF OrderInv
  <2>4. Below(processed', batch) /\ Below(processed', inbox)
    BY <1>3, <2>1, <2>3, Zenon DEF OrderInv
  <2>5. ASSUME NEW i \in DOMAIN C'
        PROVE  /\ Increasing(Messages(C'[i])) /\ Below(processed', Messages(C'[i]))
               /\ Below(Messages(C'[i]), batch) /\ Below(Messages(C'[i]), inbox)
               /\ \A j \in DOMAIN C' : i < j => Below(Messages(C'[i]), Messages(C'[j]))
    <3>1. i + 1 \in DOMAIN C /\ C'[i] = C[i + 1] /\ 1 < i + 1
      BY <2>1, <2>5, Zenon
    <3>2. Below(m, Messages(C[i + 1])) /\ Below(processed, Messages(C[i + 1]))
      BY <2>1, <3>1, Zenon DEF OrderInv
    <3>3. Below(processed', Messages(C'[i]))
      BY <1>3, <2>3, <3>1, <3>2, Zenon
    <3>4. ASSUME NEW j \in DOMAIN C', i < j PROVE Below(Messages(C'[i]), Messages(C'[j]))
      BY <2>1, <2>5, <3>1, <3>4, Zenon DEF OrderInv
    <3> QED
      BY <3>1, <3>3, <3>4, Zenon DEF OrderInv
  <2> QED
    BY <2>1, <2>3, <2>4, <2>5, Zenon DEF OrderInv
<1> QED
  BY <1>1, <1>4, <1>5, <1>6, <1>7, <1>8, <1>9, Zenon DEF Effect, MessagesSame

-----------------------------------------------------------------------------
(***************************************************************************)
(* No message is lost unrecorded                                           *)
(***************************************************************************)

LEMMA RangeFacts ==
    /\ Range(<<>>) = {}
    /\ \A s \in Seq(Nat), n \in Nat : Range(Append(s, n)) = Range(s) \cup {n}
    /\ \A s, t \in Seq(Nat) : Range(s \o t) = Range(s) \cup Range(t)
    /\ \A s, t \in Seq(Nat) : Below(s, t) => Range(s) \cap Range(t) = {}
<1>1. Range(<<>>) = {}
  BY DEF Range
<1>2. ASSUME NEW s \in Seq(Nat), NEW n \in Nat PROVE Range(Append(s, n)) = Range(s) \cup {n}
  <2>1. /\ DOMAIN Append(s, n) = 1..(Len(s) + 1) /\ DOMAIN s = 1..Len(s) /\ Len(s) \in Nat
        /\ \A i \in 1..Len(s) : Append(s, n)[i] = s[i]
        /\ Append(s, n)[Len(s) + 1] = n
    BY AppendFacts, LenFacts
  <2>2. /\ \A i \in DOMAIN Append(s, n) : i = Len(s) + 1 \/ i \in DOMAIN s
        /\ Len(s) + 1 \in DOMAIN Append(s, n) /\ DOMAIN s \subseteq DOMAIN Append(s, n)
    BY <2>1
  <2> QED
    BY <2>1, <2>2, Zenon DEF Range
<1>3. ASSUME NEW s \in Seq(Nat), NEW t \in Seq(Nat) PROVE Range(s \o t) = Range(s) \cup Range(t)
  <2> DEFINE c == s \o t
  <2>1. /\ Len(s) \in Nat /\ Len(t) \in Nat /\ DOMAIN s = 1..Len(s) /\ DOMAIN t = 1..Len(t)
        /\ DOMAIN c = 1..(Len(s) + Len(t))
        /\ \A i \in DOMAIN c : c[i] = IF i <= Len(s) THEN s[i] ELSE t[i - Len(s)]
    BY ConcatFacts, LenFacts
  <2> HIDE DEF c
  <2>2. \A i \in DOMAIN c : \/ i \in DOMAIN s /\ c[i] = s[i]
                            \/ i - Len(s) \in DOMAIN t /\ c[i] = t[i - Len(s)]
    BY <2>1
  <2>3. \A i \in DOMAIN s : i \in DOMAIN c /\ c[i] = s[i]
    BY <2>1
  <2>4. \A i \in DOMAIN t : i + Len(s) \in DOMAIN c /\ c[i + Len(s)] = t[i]
    BY <2>1
  <2>5. Range(c) = Range(s) \cup Range(t)
    BY <2>2, <2>3, <2>4 DEF Range
  <2> QED
    BY <2>5, Zenon DEF c
<1>4. ASSUME NEW s \in Seq(Nat), NEW t \in Seq(Nat), Below(s, t)
      PROVE  Range(s) \cap Range(t) = {}
  <2> SUFFICES ASSUME NEW x \in Range(s), x \in Range(t) PROVE FALSE
    BY Zenon
  <2>1. PICK i \in DOMAIN s : x = s[i]
    BY Zenon DEF Range
  <2>2. PICK j \in DOMAIN t : x = t[j]
    BY Zenon DEF Range
  <2>3. s[i] < t[j] /\ s[i] \in Nat
    BY <1>4, LenFacts DEF Below
  <2> QED
    BY <2>1, <2>2, <2>3
<1> QED
  BY <1>1, <1>2, <1>3, <1>4, Zenon

\* The messages of a pushed task join those of the others.
LEMMA PushedMessages ==
    ASSUME TypeInv, NEW t \in Tasks, CpuTasks' = Append(CpuTasks, t)
    PROVE  InTasks' = InTasks \cup Range(Messages(t))
<1> DEFINE C == CpuTasks
           c == Append(C, t)
           k == Len(C) + 1
<1>1. /\ C \in Seq(Tasks) /\ Len(C) \in Nat /\ DOMAIN C = 1..Len(C) /\ DOMAIN c = 1..k
      /\ \A i \in 1..Len(C) : c[i] = C[i]
      /\ c[k] = t
  BY TasksShape, AppendFacts, LenFacts
<1>2. /\ \A i \in DOMAIN c : i = k \/ i \in DOMAIN C
      /\ k \in DOMAIN c /\ DOMAIN C \subseteq DOMAIN c
      /\ \A i \in DOMAIN C : c[i] = C[i]
  BY <1>1
<1>3. InTasks = UNION {Range(Messages(C[i])) : i \in DOMAIN C}
  BY Zenon DEF InTasks
<1>4. InTasks' = UNION {Range(Messages(c[i])) : i \in DOMAIN c}
  BY Zenon DEF InTasks
<1> HIDE DEF C, c, k
<1> QED
  BY <1>1, <1>2, <1>3, <1>4, Zenon

LEMMA CountStep ==
    ASSUME TypeInv, TypeInv', OrderInv, CountInv, Effect
    PROVE  CountInv'
<1>1. ASSUME CpuTasks' = CpuTasks, MessagesSame PROVE CountInv'
  BY <1>1 DEF CountInv, Underway, InTasks, MessagesSame
<1>2. /\ processed \in Seq(Nat) /\ batch \in Seq(Nat) /\ inbox \in Seq(Nat) /\ arrived \in Nat
      /\ \A i \in DOMAIN CpuTasks : Messages(CpuTasks[i]) \in Seq(Nat)
  <2>1. \A i \in DOMAIN CpuTasks : CpuTasks[i] \in Tasks
    BY TasksShape, LenFacts
  <2> QED
    BY <2>1, MessageTypes, Zenon DEF TypeInv
<1>3. ASSUME NEW t \in Tasks, Messages(t) = <<>>, CpuTasks' = Append(CpuTasks, t), MessagesSame
      PROVE  CountInv'
  <2>1. InTasks' = InTasks \cup Range(Messages(t)) /\ Range(Messages(t)) = {}
    BY <1>3, PushedMessages, RangeFacts, Zenon
  <2> QED
    BY <1>3, <2>1, Zenon DEF CountInv, Underway, MessagesSame
<1>4. CASE CpuTasks' = CpuTasks /\ Arrive
  <2> DEFINE n == arrived + 1
  <2>1. n \in Nat /\ 1..n = 1..arrived \cup {n} /\ n \notin 1..arrived
    BY <1>2
  <2>2. /\ UNCHANGED <<processed, batch>> /\ arrived' = n
        /\ \/ inbox' = inbox /\ dropped' = dropped \cup {n}
           \/ inbox' = Append(inbox, n) /\ dropped' = dropped
    BY <1>4, Zenon DEF Arrive, threads
  <2> HIDE DEF n
  <2>3. InTasks' = InTasks
    BY <1>4 DEF InTasks
  <2>3b. inbox' = Append(inbox, n) => Range(inbox') = Range(inbox) \cup {n}
    BY <1>2, <2>1, RangeFacts, Zenon
  <2>4. Underway \cup dropped = 1..arrived /\ Underway \cap dropped = {}
    BY Zenon DEF CountInv
  <2>5. \/ Underway' = Underway /\ dropped' = dropped \cup {n}
        \/ Underway' = Underway \cup {n} /\ dropped' = dropped
    BY <2>2, <2>3, <2>3b, Zenon DEF Underway
  <2>6. Underway' \cup dropped' = 1..arrived' /\ Underway' \cap dropped' = {}
    BY <2>1, <2>2, <2>4, <2>5, Zenon
  <2> QED
    BY <2>6, Zenon DEF CountInv
<1>5. CASE CpuTasks' = CpuTasks /\ SwapOut /\ batch = <<>>
  <2>1. batch' = inbox /\ inbox' = <<>> /\ UNCHANGED <<processed, arrived, dropped>>
    BY <1>5, Zenon DEF SwapOut, history, counts
  <2>2. Underway' = Underway
    BY <1>5, <2>1, RangeFacts DEF Underway, InTasks
  <2> QED
    BY <2>1, <2>2, Zenon DEF CountInv
<1>6. CASE PushBatch
  <2>1. /\ TryPush("cpu", Batch(batch)) /\ batch' = <<>>
        /\ dropped' = IF Accepts("cpu") THEN dropped ELSE dropped \cup Range(batch)
        /\ UNCHANGED <<processed, inbox, worker, arrived>>
    BY <1>6, Zenon DEF PushBatch, counts
  <2>2. Batch(batch) \in Tasks /\ Messages(Batch(batch)) = batch /\ Range(batch') = {}
    BY <1>2, <2>1, MessageTypes, TaskTypes, RangeFacts, Zenon
  <2>3. CASE Accepts("cpu")
    <3>1. CpuTasks' = Append(CpuTasks, Batch(batch))
      BY <2>1, <2>2, <2>3, PushTypes, TasksPush, Zenon DEF Queues
    <3>2. Underway' = Underway
      BY <2>1, <2>2, <3>1, PushedMessages, Zenon DEF Underway
    <3> QED
      BY <2>1, <2>3, <3>2, Zenon DEF CountInv
  <2>4. CASE ~Accepts("cpu")
    <3>1. CpuTasks' = CpuTasks
      BY <2>1, <2>2, <2>4, PushTypes, TasksSame, Zenon DEF Queues
    <3>2. Underway' = Range(processed) \cup InTasks \cup Range(inbox)
      BY <2>1, <2>2, <3>1, Zenon DEF Underway, InTasks
    <3>3. Range(processed) \cap Range(batch) = {} /\ Range(batch) \cap Range(inbox) = {}
      BY <1>2, RangeFacts, Zenon DEF OrderInv
    <3>4. InTasks \cap Range(batch) = {}
      BY <1>2, RangeFacts DEF OrderInv, InTasks
    <3>5. Underway \cup dropped = 1..arrived /\ Underway \cap dropped = {}
      BY Zenon DEF CountInv
    <3>6. Underway = Underway' \cup Range(batch) /\ Underway' \cap Range(batch) = {}
      BY <3>2, <3>3, <3>4, Zenon DEF Underway
    <3>7. dropped' = dropped \cup Range(batch) /\ arrived' = arrived
      BY <2>1, <2>4, Zenon
    <3>8. Underway' \cup dropped' = 1..arrived' /\ Underway' \cap dropped' = {}
      BY <3>5, <3>6, <3>7, Zenon
    <3> QED
      BY <3>8, Zenon DEF CountInv
  <2> QED
    BY <2>3, <2>4, Zenon
<1>7. CASE PushesPlain
  <2>1. PICK t \in {Evolve, Submitted} : CpuTasks' = Append(CpuTasks, t) /\ MessagesSame
    BY <1>7, Zenon DEF PushesPlain
  <2>2. t \in Tasks /\ Messages(t) = <<>>
    BY MessageTypes, TaskTypes, Zenon
  <2> QED
    BY <1>3, <2>1, <2>2, Zenon
<1>8. ASSUME NEW e \in Entries, ProcessTimer(e) PROVE CountInv'
  <2>1. MessagesSame /\ UNCHANGED worker
    BY <1>8, Zenon DEF ProcessTimer, MessagesSame, threads, counts
  <2>2. CASE Skips(e) \/ ~Accepts("cpu")
    <3>1. queue' = queue
      BY <1>8, <2>2, TimerTypes, Zenon DEF FireTimer, TryPush
    <3> QED
      BY <1>1, <2>1, <3>1, TasksSame, Zenon
  <2>3. CASE ~Skips(e) /\ Accepts("cpu")
    <3> DEFINE t == Timed(e, timer[e].fn)
    <3>1. t \in Tasks /\ Messages(t) = <<>>
      BY <1>8, MessageTypes, TaskTypes, TimerTypes, Zenon
    <3>2. TryPush("cpu", t)
      BY <1>8, <2>3, TimerTypes, Zenon DEF FireTimer
    <3> HIDE DEF t
    <3>3. CpuTasks' = Append(CpuTasks, t)
      BY <2>1, <2>3, <3>1, <3>2, PushTypes, TasksPush, Zenon DEF Queues
    <3> QED
      BY <1>3, <2>1, <3>1, <3>3, Zenon
  <2> QED
    BY <2>2, <2>3, Zenon
<1>9. CASE Run("cpu")
  <2> DEFINE C == CpuTasks
             m == Messages(C[1])
  <2>1. /\ 1 \in DOMAIN C /\ processed' = processed \o m
        /\ \A i \in DOMAIN C' : i + 1 \in DOMAIN C /\ C'[i] = C[i + 1]
        /\ \A i \in DOMAIN C : i = 1 \/ (i - 1 \in DOMAIN C' /\ i = (i - 1) + 1)
        /\ UNCHANGED <<batch, inbox, arrived, dropped>>
    BY <1>9, RunEffect, Zenon
  <2>2. Range(processed') = Range(processed) \cup Range(m)
    BY <1>2, <2>1, RangeFacts, Zenon
  <2>3. /\ InTasks = UNION {Range(Messages(C[i])) : i \in DOMAIN C}
        /\ InTasks' = UNION {Range(Messages(C'[i])) : i \in DOMAIN C'}
    BY Zenon DEF InTasks
  <2> HIDE DEF C
  <2>4. \A i \in DOMAIN C : i = 1 \/ (i - 1 \in DOMAIN C' /\ C'[i - 1] = C[i])
    BY <2>1
  <2>5. InTasks = Range(m) \cup InTasks'
    BY <2>1, <2>3, <2>4
  <2>6. Underway' = Underway
    BY <2>1, <2>2, <2>5, Zenon DEF Underway
  <2> QED
    BY <2>1, <2>6, Zenon DEF CountInv
<1> QED
  BY <1>1, <1>4, <1>5, <1>6, <1>7, <1>8, <1>9, Zenon DEF Effect

-----------------------------------------------------------------------------
(***************************************************************************)
(* The functions of the timers                                             *)
(***************************************************************************)

LEMMA KeptSame ==
    ASSUME NEW e \in Entries, KeptAt(e), e \in DOMAIN timer' <=> e \in DOMAIN timer,
           InHeap(e)' <=> InHeap(e), e \in lost' <=> e \in lost, InTask(e)' = InTask(e),
           fired'[e] = fired[e]
    PROVE  KeptAt(e)'
BY Zenon DEF KeptAt

LEMMA TimedFacts ==
    /\ \A e, f, b : Timed(e, TRUE) = Timed(f, b) <=> e = f /\ b = TRUE
    /\ \A e, s : Timed(e, TRUE) # Batch(s) /\ Timed(e, TRUE) # Evolve /\ Timed(e, TRUE) # Submitted
<1>1. ASSUME NEW e, NEW f, NEW b, Timed(e, TRUE) = Timed(f, b) PROVE e = f /\ b = TRUE
  <2>1. /\ Timed(e, TRUE).entry = e /\ Timed(e, TRUE).fn = TRUE
        /\ Timed(f, b).entry = f /\ Timed(f, b).fn = b
    BY Zenon DEF Timed
  <2> QED
    BY <1>1, <2>1, Zenon
<1>2. ASSUME NEW e, NEW s
      PROVE  /\ Timed(e, TRUE) # Batch(s) /\ Timed(e, TRUE) # Evolve
             /\ Timed(e, TRUE) # Submitted
  <2>1. /\ Timed(e, TRUE).kind = "timer" /\ Batch(s).kind = "batch"
        /\ Evolve.kind = "evolve" /\ Submitted.kind = "submitted"
    BY DEF Timed, Batch, Evolve, Submitted
  <2> QED
    BY <2>1, Zenon
<1> QED
  BY <1>1, <1>2, Zenon

\* A pushed task is one more if it holds the function, otherwise it is not.
LEMMA PushedFunctions ==
    ASSUME TypeInv, NEW t \in Tasks, CpuTasks' = Append(CpuTasks, t), NEW e \in Entries
    PROVE  /\ t # Timed(e, TRUE) => InTask(e)' = InTask(e)
           /\ t = Timed(e, TRUE) /\ InTask(e) = {} => \E i \in InTask(e)' : InTask(e)' = {i}
<1> DEFINE C == CpuTasks
           c == Append(C, t)
           k == Len(C) + 1
<1>1. /\ C \in Seq(Tasks) /\ Len(C) \in Nat /\ DOMAIN C = 1..Len(C) /\ DOMAIN c = 1..k
      /\ \A i \in 1..Len(C) : c[i] = C[i]
      /\ c[k] = t
  BY TasksShape, AppendFacts, LenFacts
<1>2. /\ \A i \in DOMAIN c : i = k \/ i \in DOMAIN C
      /\ k \in DOMAIN c /\ DOMAIN C \subseteq DOMAIN c /\ c[k] = t
      /\ \A i \in DOMAIN C : c[i] = C[i]
  BY <1>1
<1>3. /\ InTask(e) = {i \in DOMAIN C : C[i] = Timed(e, TRUE)}
      /\ InTask(e)' = {i \in DOMAIN c : c[i] = Timed(e, TRUE)}
  BY Zenon DEF InTask
<1> HIDE DEF C, c, k
<1>4. ASSUME t # Timed(e, TRUE) PROVE InTask(e)' = InTask(e)
  BY <1>2, <1>3, <1>4, Zenon
<1>5. ASSUME t = Timed(e, TRUE), InTask(e) = {} PROVE InTask(e)' = {k} /\ k \in InTask(e)'
  BY <1>2, <1>3, <1>5, Zenon
<1> QED
  BY <1>4, <1>5, Zenon

\* A task that holds no function of e, and leaves the timers alone.
LEMMA KeptPush ==
    ASSUME TypeInv, KeptInv, TimersSame, NEW t \in Tasks, CpuTasks' = Append(CpuTasks, t),
           \A e \in Entries : t # Timed(e, TRUE)
    PROVE  KeptInv'
<1> SUFFICES ASSUME NEW e \in Entries PROVE KeptAt(e)'
  BY Zenon DEF KeptInv
<1>1. InTask(e)' = InTask(e)
  BY PushedFunctions, Zenon
<1>2. KeptAt(e) /\ (InHeap(e)' <=> InHeap(e))
  BY Zenon DEF KeptInv, InHeap, TimersSame
<1> QED
  BY <1>1, <1>2, KeptSame, Zenon DEF TimersSame

\* One turn of process_timers.
LEMMA KeptTimer ==
    ASSUME TypeInv, KeptInv, NEW f \in Entries, ProcessTimer(f)
    PROVE  KeptInv'
<1> SUFFICES ASSUME NEW e \in Entries PROVE KeptAt(e)'
  BY Zenon DEF KeptInv
<1>1. /\ f \in DOMAIN timer /\ timer[f].fn \in BOOLEAN /\ DOMAIN timer' = DOMAIN timer
      /\ \A g \in DOMAIN timer \ {f} : timer'[g] = timer[g]
      /\ Skips(f) => timer'[f].fn = timer[f].fn /\ UNCHANGED <<queue, lost>>
      /\ ~Skips(f) => timer'[f].fn = FALSE /\ FireTimer(f)
  BY TimerTypes, Zenon
<1>2. UNCHANGED <<worker, fired>> /\ KeptAt(e)
  BY Zenon DEF ProcessTimer, threads, KeptInv
<1>3. ASSUME queue' = queue PROVE InTask(e)' = InTask(e)
  BY <1>2, <1>3, TasksSame, Zenon DEF InTask
<1>4. CASE Skips(f)
  <2>1. InHeap(e)' <=> InHeap(e)
    BY <1>1, <1>4, Zenon DEF InHeap
  <2> QED
    BY <1>1, <1>2, <1>3, <1>4, <2>1, KeptSame, Zenon
<1>5. CASE ~Skips(f)
  <2> DEFINE t == Timed(f, timer[f].fn)
  <2>1. /\ TryPush("cpu", t) /\ t \in Tasks /\ timer'[f].fn = FALSE
        /\ lost' = IF Accepts("cpu") \/ ~timer[f].fn THEN lost ELSE lost \cup {f}
    BY <1>1, <1>5, TaskTypes, Zenon DEF FireTimer
  <2>2. /\ Accepts("cpu") => CpuTasks' = Append(CpuTasks, t)
        /\ ~Accepts("cpu") => queue' = queue
    BY <1>2, <2>1, PushTypes, TasksPush, Zenon DEF Queues
  <2>3. t = Timed(e, TRUE) <=> e = f /\ timer[f].fn
    BY <1>1, TimedFacts, Zenon
  <2> HIDE DEF t
  <2>4. CASE e # f \/ ~timer[f].fn
    <3>1. InTask(e)' = InTask(e)
      BY <1>3, <2>1, <2>2, <2>3, <2>4, PushedFunctions, Zenon
    <3>2. InHeap(e)' <=> InHeap(e)
      BY <1>1, <2>1, <2>4, Zenon DEF InHeap
    <3>3. e \in lost' <=> e \in lost
      BY <2>1, <2>4, Zenon
    <3> QED
      BY <1>1, <1>2, <3>1, <3>2, <3>3, KeptSame, Zenon
  <2>5. CASE e = f /\ timer[f].fn
    <3>1. InHeap(e) /\ e \notin lost /\ InTask(e) = {} /\ fired[e] = 0
      BY <1>1, <1>2, <2>5, Zenon DEF KeptAt, InHeap
    <3>2. ~InHeap(e)' /\ e \in DOMAIN timer' /\ fired'[e] = 0
      BY <1>1, <1>2, <2>1, <2>5, <3>1, Zenon DEF InHeap
    <3>3. CASE Accepts("cpu")
      <4>1. lost' = lost /\ \E i \in InTask(e)' : InTask(e)' = {i}
        BY <2>1, <2>2, <2>3, <2>5, <3>1, <3>3, PushedFunctions, Zenon
      <4> QED
        BY <3>1, <3>2, <4>1, Zenon DEF KeptAt
    <3>4. CASE ~Accepts("cpu")
      <4>1. e \in lost' /\ InTask(e)' = {}
        BY <1>3, <2>1, <2>2, <2>5, <3>1, <3>4, Zenon
      <4> QED
        BY <3>2, <4>1, Zenon DEF KeptAt
    <3> QED
      BY <3>3, <3>4, Zenon
  <2> QED
    BY <2>4, <2>5, Zenon
<1> QED
  BY <1>4, <1>5, Zenon

\* The CPU thread has run a task.
LEMMA KeptRun ==
    ASSUME TypeInv, KeptInv, Run("cpu")
    PROVE  KeptInv'
<1> SUFFICES ASSUME NEW e \in Entries PROVE KeptAt(e)'
  BY Zenon DEF KeptInv
<1> DEFINE C == CpuTasks
           D == CpuTasks'
           t == C[1]
<1>1. /\ 1 \in DOMAIN C /\ t \in Tasks /\ t = worker["cpu"].task
      /\ \A i \in DOMAIN D : i + 1 \in DOMAIN C /\ i + 1 # 1 /\ D[i] = C[i + 1]
      /\ \A i \in DOMAIN C : i = 1 \/ (i - 1 \in DOMAIN D /\ i = (i - 1) + 1)
      /\ UNCHANGED <<timer, lost>>
  BY RunEffect, TasksRun, Zenon
<1>2. /\ InTask(e) = {i \in DOMAIN C : C[i] = Timed(e, TRUE)}
      /\ InTask(e)' = {i \in DOMAIN D : D[i] = Timed(e, TRUE)}
  BY Zenon DEF InTask
<1>3. KeptAt(e) /\ (InHeap(e)' <=> InHeap(e))
  BY <1>1, Zenon DEF KeptInv, InHeap
<1>4. fired' = IF t.kind = "timer" /\ t.fn THEN [fired EXCEPT ![t.entry] = @ + 1] ELSE fired
  BY <1>1, Zenon DEF Run
<1>5. fired \in [Entries -> Nat]
  BY Zenon DEF TypeInv
<1> HIDE DEF C, D, t
<1>6. DOMAIN D \subseteq Nat
  <2>1. D \in Seq(Tasks)
    BY TasksRun, Zenon DEF D
  <2> QED
    BY <2>1, LenFacts
<1>6a. ASSUME NEW i \in InTask(e)' PROVE i + 1 \in InTask(e) /\ i + 1 # 1
  <2>1. i \in DOMAIN D /\ D[i] = Timed(e, TRUE)
    BY <1>2, <1>6a, Zenon
  <2>2. i + 1 \in DOMAIN C /\ i + 1 # 1 /\ D[i] = C[i + 1]
    BY <1>1, <2>1, Zenon
  <2> QED
    BY <1>2, <2>1, <2>2, Zenon
<1>6b. ASSUME NEW i \in InTask(e), i # 1 PROVE i - 1 \in InTask(e)' /\ i = (i - 1) + 1
  <2>1. i \in DOMAIN C /\ C[i] = Timed(e, TRUE)
    BY <1>2, <1>6b, Zenon
  <2>2. i - 1 \in DOMAIN D /\ i = (i - 1) + 1
    BY <1>1, <1>6b, <2>1, Zenon
  <2> DEFINE j == i - 1
  <2>3. j \in DOMAIN D /\ i = j + 1
    BY <2>2, Zenon
  <2> HIDE DEF j
  <2>4. D[j] = C[i]
    BY <1>1, <2>3, Zenon
  <2>5. j \in InTask(e)'
    BY <1>2, <2>1, <2>3, <2>4, Zenon
  <2> QED
    BY <2>2, <2>5, Zenon DEF j
<1>7. CASE t = Timed(e, TRUE)
  <2>1. t.kind = "timer" /\ t.fn = TRUE /\ t.entry = e
    BY <1>7 DEF Timed
  <2>2. 1 \in InTask(e)
    BY <1>1, <1>2, <1>7, Zenon DEF t
  <2>3. e \in DOMAIN timer /\ ~InHeap(e) /\ e \notin lost /\ fired[e] = 0 /\ InTask(e) = {1}
    BY <1>3, <2>2, Zenon DEF KeptAt
  <2>4. InTask(e)' = {}
    BY <1>6a, <2>3, Zenon
  <2>5. fired'[e] = 1
    BY <1>4, <1>5, <2>1, <2>3
  <2> QED
    BY <1>1, <1>3, <2>3, <2>4, <2>5, Zenon DEF KeptAt
<1>8. CASE t # Timed(e, TRUE)
  <2>1. fired'[e] = fired[e]
    <3>1. CASE t.kind = "timer" /\ t.fn
      <4>1. t \in [kind : {"timer"}, entry : Entries, fn : BOOLEAN]
        BY <1>1, <3>1 DEF Tasks, Evolve, Submitted
      <4>2. t.fn = TRUE
        BY <3>1, <4>1, Zenon
      <4>3. t = Timed(t.entry, TRUE)
        BY <4>1, <4>2 DEF Timed
      <4>4. t.entry # e
        BY <1>8, <4>3, Zenon
      <4> QED
        BY <1>4, <1>5, <3>1, <4>4, Zenon
    <3>2. CASE ~(t.kind = "timer" /\ t.fn)
      BY <1>4, <3>2, Zenon
    <3> QED
      BY <3>1, <3>2, Zenon
  <2>2. 1 \notin InTask(e)
    BY <1>2, <1>8, Zenon DEF t
  <2>3. CASE InTask(e) = {}
    <3>1. InTask(e)' = InTask(e)
      BY <1>6a, <2>3, Zenon
    <3> QED
      BY <1>1, <1>3, <2>1, <3>1, KeptSame, Zenon
  <2>4. ASSUME NEW i \in InTask(e), InTask(e) = {i} PROVE KeptAt(e)'
    <3>1. i - 1 \in InTask(e)'
      BY <1>6b, <2>2, <2>4, Zenon
    <3>2. \A j \in InTask(e)' : j + 1 = i
      BY <1>6a, <2>4, Zenon
    <3>3. ASSUME NEW j \in InTask(e)' PROVE j = i - 1
      <4>1. j \in Nat /\ j + 1 = i
        BY <1>2, <1>6, <3>2, <3>3, Zenon
      <4> QED
        BY <4>1
    <3>4. InTask(e)' = {i - 1} /\ i - 1 \in InTask(e)'
      BY <3>1, <3>3, Zenon
    <3>5. InTask(e) # {}
      BY <2>4, Zenon
    <3>6. e \in DOMAIN timer /\ ~InHeap(e) /\ e \notin lost /\ fired[e] = 0
      BY <1>3, <3>5, Zenon DEF KeptAt
    <3> QED
      BY <1>1, <1>3, <2>1, <3>4, <3>6, Zenon DEF KeptAt
  <2> QED
    BY <1>3, <2>3, <2>4, Zenon DEF KeptAt
<1> QED
  BY <1>7, <1>8, Zenon

LEMMA KeptStep ==
    ASSUME TypeInv, HandOver, KeptInv, Effect
    PROVE  KeptInv'
<1>1. ASSUME CpuTasks' = CpuTasks, TimersSame PROVE KeptInv'
  BY <1>1, Zenon DEF KeptInv, KeptAt, InHeap, InTask, TimersSame
<1>2. CASE Arrive \/ SwapOut
  <2>1. TimersSame
    BY <1>2, Zenon DEF Arrive, SwapOut, TimersSame, history
  <2>2. UNCHANGED <<queue, worker>>
    BY <1>2, Zenon DEF Arrive, SwapOut, threads
  <2> QED
    BY <1>1, <2>1, <2>2, TasksSame, Zenon
<1>3. CASE PushBatch
  <2>1. TryPush("cpu", Batch(batch)) /\ TimersSame /\ UNCHANGED worker
    BY <1>3, Zenon DEF PushBatch, TimersSame
  <2>2. Batch(batch) \in Tasks /\ \A e \in Entries : Batch(batch) # Timed(e, TRUE)
    BY TaskTypes, TimedFacts, Zenon
  <2>3. \/ CpuTasks' = Append(CpuTasks, Batch(batch))
        \/ CpuTasks' = CpuTasks
    BY <2>1, <2>2, PushTypes, TasksPush, TasksSame, Zenon DEF Queues
  <2> QED
    BY <1>1, <2>1, <2>2, <2>3, KeptPush, Zenon
<1>4. CASE PushesPlain
  <2>1. PICK t \in {Evolve, Submitted} : CpuTasks' = Append(CpuTasks, t) /\ TimersSame
    BY <1>4, Zenon DEF PushesPlain
  <2>2. t \in Tasks /\ \A e \in Entries : t # Timed(e, TRUE)
    BY TaskTypes, TimedFacts, Zenon
  <2> QED
    BY <2>1, <2>2, KeptPush, Zenon
<1>5. CASE CpuTasks' = CpuTasks /\ Tick
  <2>1. UNCHANGED <<lost, fired>> /\ DOMAIN timer' = DOMAIN timer
        /\ \A f \in DOMAIN timer : timer'[f].fn = timer[f].fn
    BY <1>5, TickTypes, Zenon DEF Tick, history
  <2> QED
    BY <1>5, <2>1, Zenon DEF KeptInv, KeptAt, InHeap, InTask
<1>6. CASE CpuTasks' = CpuTasks /\ Start
  <2> SUFFICES ASSUME NEW e \in Entries PROVE KeptAt(e)'
    BY Zenon DEF KeptInv
  <2>1. /\ UNCHANGED <<lost, fired>> /\ DOMAIN timer \subseteq DOMAIN timer'
        /\ \A f \in DOMAIN timer : timer'[f] = timer[f]
        /\ \A f \in DOMAIN timer' : f \notin DOMAIN timer => timer'[f].fn = TRUE
    BY <1>6, StartTypes, Zenon DEF Start, history
  <2>2. InTask(e)' = InTask(e) /\ KeptAt(e)
    BY <1>6, Zenon DEF InTask, KeptInv
  <2>3. CASE e \in DOMAIN timer \/ e \notin DOMAIN timer'
    <3>1. (InHeap(e)' <=> InHeap(e)) /\ (e \in DOMAIN timer' <=> e \in DOMAIN timer)
      BY <2>1, <2>3, Zenon DEF InHeap
    <3> QED
      BY <2>1, <2>2, <3>1, KeptSame, Zenon
  <2>4. CASE e \notin DOMAIN timer /\ e \in DOMAIN timer'
    <3>1. e \notin lost /\ InTask(e) = {} /\ fired[e] = 0 /\ InHeap(e)'
      BY <2>1, <2>2, <2>4, Zenon DEF KeptAt, InHeap
    <3> QED
      BY <2>1, <2>2, <2>4, <3>1, Zenon DEF KeptAt
  <2> QED
    BY <2>3, <2>4, Zenon
<1> QED
  BY <1>1, <1>2, <1>3, <1>4, <1>5, <1>6, KeptTimer, KeptRun, Zenon DEF Effect

-----------------------------------------------------------------------------
(***************************************************************************)
(* The inductive invariant                                                 *)
(***************************************************************************)

LEMMA InitInv ==
    ASSUME Init
    PROVE  IInv
<1>1. /\ queue = [q \in Queues |-> <<>>] /\ worker = [q \in Queues |-> Idle]
      /\ processed = <<>> /\ batch = <<>> /\ inbox = <<>> /\ dropped = {} /\ lost = {}
      /\ DOMAIN timer = {} /\ fired = [e \in Entries |-> 0] /\ arrived = 0 /\ starts = 0
      /\ budget \in Budgets /\ control = "stopped" /\ reactor = "off"
  BY Zenon DEF Init
<1>2. DOMAIN <<>> = {} /\ Range(<<>>) = {}
  BY RangeFacts, EmptyFacts, Zenon
<1>3. TypeInv
  <2>1. budget.starts \in Nat /\ 0 \in 0..budget.starts
    BY <1>1, ReactorAssumption
  <2>2. Timers \X (1..0) = {}
    OBVIOUS
  <2>3. Idle \in [pc : {"off", "check", "take", "done"}]
    BY DEF Idle
  <2>4. worker \in [Queues -> [pc : {"off", "check", "take", "done"}] \cup [pc : {"run"}, task : Tasks]]
    BY <1>1, <2>3, Zenon
  <2>5. queue \in [Queues -> Seq(Tasks)] /\ fired \in [Entries -> Nat]
    BY <1>1
  <2>6. <<>> \in Seq(Nat)
    BY EmptyFacts, Zenon
  <2>7. 0 \in Nat
    OBVIOUS
  <2> QED
    BY <1>1, <2>1, <2>2, <2>4, <2>5, <2>6, <2>7, Zenon DEF TypeInv
<1>4. queue["io"] = <<>> /\ queue["cpu"] = <<>> /\ worker["io"] = Idle /\ worker["cpu"] = Idle
  BY <1>1, Zenon DEF Queues
<1>5. Idle.pc = "off"
  BY Zenon DEF Idle
<1>6. HandOver
  BY <1>1, <1>2, <1>4, <1>5 DEF HandOver
<1>7. NoThreads
  BY <1>1, Zenon DEF NoThreads
<1>8. CpuTasks = <<>>
  BY <1>4, <1>5, <1>3, TasksShape
<1>9. OrderInv
  BY <1>1, <1>2, <1>8, Zenon DEF OrderInv, Increasing, Below
<1>10. CountInv
  <2>1. InTasks = {}
    BY <1>2, <1>8, Zenon DEF InTasks
  <2>2. Underway = {}
    BY <1>1, <1>2, <2>1, Zenon DEF Underway
  <2>3. 1..0 = {}
    OBVIOUS
  <2> QED
    BY <1>1, <2>2, <2>3, Zenon DEF CountInv
<1>11. KeptInv
  <2>1. \A e \in Entries : InTask(e) = {}
    BY <1>2, <1>8, Zenon DEF InTask
  <2> QED
    BY <1>1, <2>1, Zenon DEF KeptInv, KeptAt, InHeap
<1> QED
  BY <1>3, <1>6, <1>7, <1>9, <1>10, <1>11, Zenon DEF IInv

LEMMA NextInv ==
    ASSUME IInv, [Next]_vars
    PROVE  IInv'
<1>1. TypeInv'
  BY TypeStep, Zenon DEF IInv
<1>2. HandOver' /\ NoThreads'
  BY ThreadStep, Zenon DEF IInv
<1>3. Effect
  BY StepEffect, Zenon DEF IInv
<1>4. OrderInv' /\ CountInv' /\ KeptInv'
  BY <1>1, <1>3, OrderStep, CountStep, KeptStep, Zenon DEF IInv
<1> QED
  BY <1>1, <1>2, <1>4, Zenon DEF IInv

\* The stages of the pipeline, one by one.
LEMMA PipelineFacts ==
    ASSUME TypeInv
    PROVE  LET n == Len(CpuTasks)
           IN  /\ n \in Nat /\ DOMAIN CpuTasks = 1..n /\ DOMAIN Pipeline = 1..(n + 3)
               /\ Pipeline[1] = processed
               /\ \A i \in 1..n : Pipeline[i + 1] = Messages(CpuTasks[i])
               /\ Pipeline[n + 2] = batch /\ Pipeline[n + 3] = inbox
<1> DEFINE C == CpuTasks
           n == Len(C)
           S == Seq(Nat)
           a == <<processed>>
           p == [i \in DOMAIN C |-> Messages(C[i])]
           z == <<batch, inbox>>
<1>1. C \in Seq(Tasks) /\ n \in Nat /\ DOMAIN C = 1..n
  BY TasksShape, LenFacts
<1>2. p \in Seq(S) /\ Len(p) = n /\ \A i \in 1..n : p[i] = Messages(C[i])
  <2>1. \A i \in 1..n : Messages(C[i]) \in S
    BY <1>1, LenFacts, MessageTypes, Zenon
  <2> HIDE DEF C, S
  <2> QED
    BY <1>1, <2>1
<1>3. processed \in S /\ batch \in S /\ inbox \in S
  BY Zenon DEF TypeInv
<1> HIDE DEF S
<1>4. a \in Seq(S) /\ Len(a) = 1 /\ a[1] = processed
  BY <1>3
<1>5. z \in Seq(S) /\ Len(z) = 2 /\ z[1] = batch /\ z[2] = inbox
  BY <1>3
<1>6. Pipeline = (a \o p) \o z
  BY Zenon DEF Pipeline
<1> HIDE DEF C, n, a, p, z
<1>7. /\ a \o p \in Seq(S) /\ Len(a \o p) = 1 + n
      /\ \A i \in 1..(1 + n) : (a \o p)[i] = IF i <= 1 THEN a[i] ELSE p[i - 1]
  BY <1>2, <1>4, ConcatFacts, SMTT(60)
<1>8. (a \o p)[1] = processed /\ \A i \in 1..n : (a \o p)[i + 1] = p[i]
  BY <1>1, <1>4, <1>7
<1> DEFINE u == a \o p
<1>8a. u \in Seq(S) /\ Len(u) = 1 + n /\ Pipeline = u \o z
  BY <1>6, <1>7, Zenon
<1>8b. u[1] = processed /\ \A i \in 1..n : u[i + 1] = p[i]
  BY <1>8, Zenon
<1> HIDE DEF u
<1>9. /\ Pipeline \in Seq(S) /\ Len(Pipeline) = (1 + n) + 2
      /\ \A i \in 1..((1 + n) + 2) : Pipeline[i] = IF i <= 1 + n THEN u[i] ELSE z[i - (1 + n)]
  <2>1. /\ u \o z \in Seq(S) /\ Len(u \o z) = Len(u) + Len(z)
        /\ \A i \in 1..(Len(u) + Len(z)) :
              (u \o z)[i] = IF i <= Len(u) THEN u[i] ELSE z[i - Len(u)]
    BY <1>5, <1>8a, ConcatFacts, Zenon
  <2>2. Len(u) = 1 + n /\ Len(z) = 2 /\ Pipeline = u \o z
    BY <1>5, <1>8a, Zenon
  <2> QED
    BY <2>1, <2>2
<1>9a. Len(Pipeline) = n + 3
  BY <1>1, <1>9
<1>10. Pipeline[1] = processed /\ Pipeline[n + 2] = batch /\ Pipeline[n + 3] = inbox
  <2>1. Pipeline[1] = u[1]
    BY <1>1, <1>9
  <2>2. Pipeline[n + 2] = z[1] /\ Pipeline[n + 3] = z[2]
    BY <1>1, <1>9
  <2> QED
    BY <1>5, <1>8b, <2>1, <2>2, Zenon
<1>11. \A i \in 1..n : Pipeline[i + 1] = Messages(C[i])
  <2>1. \A i \in 1..n : Pipeline[i + 1] = u[i + 1]
    BY <1>1, <1>9
  <2> QED
    BY <1>2, <1>8b, <2>1, Zenon
<1>12. DOMAIN Pipeline = 1..(n + 3)
  BY <1>9, <1>9a, LenFacts, Zenon
<1> QED
  BY <1>1, <1>10, <1>11, <1>12, Zenon DEF C, n

\* Increasing within a stage and Below between stages is the order required.
LEMMA OrderShown ==
    ASSUME TypeInv, OrderInv
    PROVE  ProcessedInOrder
<1> DEFINE P == Pipeline
           C == CpuTasks
           n == Len(C)
<1>1. /\ n \in Nat /\ DOMAIN C = 1..n /\ DOMAIN P = 1..(n + 3) /\ P[1] = processed
      /\ \A i \in 1..n : P[i + 1] = Messages(C[i])
      /\ P[n + 2] = batch /\ P[n + 3] = inbox
  BY PipelineFacts, Zenon
<1> HIDE DEF P, C, n
<1>2. \A j \in DOMAIN P : \/ j = 1 \/ (\E i \in DOMAIN C : j = i + 1) \/ j = n + 2 \/ j = n + 3
  <2> SUFFICES ASSUME NEW j \in DOMAIN P, j # 1, j # n + 2, j # n + 3
               PROVE  j - 1 \in 1..n /\ j = (j - 1) + 1
    BY <1>1, Zenon
  <2> QED
    BY <1>1
<1>3. ASSUME NEW j \in DOMAIN P PROVE Increasing(P[j])
  BY <1>1, <1>2, <1>3, Zenon DEF OrderInv, C
<1>4. ASSUME NEW j \in DOMAIN P, NEW k \in DOMAIN P, j < k PROVE Below(P[j], P[k])
  <2>1. CASE j = 1
    <3>1. k # 1
      BY <1>4, <2>1
    <3> QED
      BY <1>1, <1>2, <2>1, <3>1, Zenon DEF OrderInv, C
  <2>2. ASSUME NEW i \in DOMAIN C, j = i + 1 PROVE Below(P[j], P[k])
    <3>1. CASE k = n + 2 \/ k = n + 3
      BY <1>1, <2>2, <3>1, Zenon DEF OrderInv, C
    <3>2. ASSUME NEW l \in DOMAIN C, k = l + 1 PROVE Below(P[j], P[k])
      <4>1. i < l
        BY <1>1, <1>4, <2>2, <3>2
      <4> QED
        BY <1>1, <2>2, <3>2, <4>1, Zenon DEF OrderInv, C
    <3>3. k # 1
      BY <1>1, <1>4, <2>2
    <3> QED
      BY <1>2, <3>1, <3>2, <3>3, Zenon
  <2>3. CASE j = n + 2
    <3>1. k = n + 3
      BY <1>1, <1>4, <2>3
    <3> QED
      BY <1>1, <2>3, <3>1, Zenon DEF OrderInv
  <2>4. CASE j = n + 3
    BY <1>1, <1>4, <2>4
  <2> QED
    BY <1>2, <2>1, <2>2, <2>3, <2>4, Zenon
<1> QED
  BY <1>3, <1>4, Zenon DEF ProcessedInOrder, Increasing, Below, P

LEMMA CountShown ==
    ASSUME TypeInv, CountInv
    PROVE  Accounted
<1> DEFINE P == Pipeline
           C == CpuTasks
           n == Len(C)
<1>1. /\ n \in Nat /\ DOMAIN C = 1..n /\ DOMAIN P = 1..(n + 3) /\ P[1] = processed
      /\ \A i \in 1..n : P[i + 1] = Messages(C[i])
      /\ P[n + 2] = batch /\ P[n + 3] = inbox
  BY PipelineFacts, Zenon
<1>2. OnTheWay = UNION {Range(P[k]) : k \in DOMAIN P}
  BY Zenon DEF OnTheWay
<1>3. InTasks = UNION {Range(Messages(C[i])) : i \in DOMAIN C}
  BY Zenon DEF InTasks
<1> HIDE DEF P, C, n
<1>4. \A j \in DOMAIN P : \/ j = 1 \/ (\E i \in DOMAIN C : j = i + 1) \/ j = n + 2 \/ j = n + 3
  <2> SUFFICES ASSUME NEW j \in DOMAIN P, j # 1, j # n + 2, j # n + 3
               PROVE  j - 1 \in 1..n /\ j = (j - 1) + 1
    BY <1>1, Zenon
  <2> QED
    BY <1>1
<1>5. 1 \in DOMAIN P /\ n + 2 \in DOMAIN P /\ n + 3 \in DOMAIN P /\ \A i \in DOMAIN C : i + 1 \in DOMAIN P
  BY <1>1
<1>6. OnTheWay \subseteq Underway
  <2> SUFFICES ASSUME NEW j \in DOMAIN P PROVE Range(P[j]) \subseteq Underway
    BY <1>2, Zenon
  <2> QED
    BY <1>1, <1>3, <1>4, Zenon DEF Underway
<1>7. Underway \subseteq OnTheWay
  <2>1. Range(processed) \subseteq OnTheWay /\ Range(batch) \subseteq OnTheWay /\ Range(inbox) \subseteq OnTheWay
    BY <1>1, <1>2, <1>5, Zenon
  <2>2. InTasks \subseteq OnTheWay
    BY <1>1, <1>2, <1>3, <1>5, Zenon
  <2> QED
    BY <2>1, <2>2, Zenon DEF Underway
<1> QED
  BY <1>6, <1>7, Zenon DEF CountInv, Accounted

\* The function of e is in one of the four places.
LEMMA KeptShown ==
    ASSUME TypeInv, KeptInv
    PROVE  FunctionKept
<1> SUFFICES ASSUME NEW e \in DOMAIN timer
             PROVE  timer[e].fn \/ InTask(e) # {} \/ fired[e] > 0 \/ e \in lost
  BY Zenon DEF FunctionKept, InTask
<1>1. KeptAt(e) /\ (InHeap(e) <=> timer[e].fn)
  BY BoundsCover, Zenon DEF KeptInv, InHeap
<1>2. timer[e].fn \/ e \in lost \/ fired[e] = 1 \/ InTask(e) # {}
  BY <1>1, Zenon DEF KeptAt
<1> QED
  BY <1>2

-----------------------------------------------------------------------------
(***************************************************************************)
(* The theorems                                                            *)
(***************************************************************************)

\* The threads, the hand-overs and the timers keep their invariant, whatever
\* the order in which the threads' steps fall.
THEOREM ReactorInvariant == Spec => []IInv
<1>1. Init => IInv
  BY InitInv
<1>2. IInv /\ [Next]_vars => IInv'
  BY NextInv
<1> QED
  BY <1>1, <1>2, PTL DEF Spec

\* Messages reach the listeners in the order of their arrival and none twice,
\* for any number of messages, any capacities and any stops and restarts.
THEOREM OrderTheorem == Spec => []ProcessedInOrder
<1>1. IInv => ProcessedInOrder
  BY OrderShown DEF IInv
<1> QED
  BY <1>1, ReactorInvariant, PTL

\* Every message that arrived is on its way, processed, or recorded as refused.
THEOREM AccountedTheorem == Spec => []Accounted
<1>1. IInv => Accounted
  BY CountShown DEF IInv
<1> QED
  BY <1>1, ReactorInvariant, PTL

\* The function of a scheduled timer is not lost on its way to its first run: as
\* the code is, it is in exactly one place (KeptInv), which implies that it is
\* in one at all.
THEOREM FunctionTheorem == Spec => []FunctionKept
<1>1. IInv => FunctionKept
  BY KeptShown DEF IInv
<1> QED
  BY <1>1, ReactorInvariant, PTL

\* After the joins of stop() no listener and no timer function runs: there is
\* no thread left that could take a step of theirs.
THEOREM QuietTheorem == Spec => QuietAfterStop
<1> DEFINE quiet == control \in {"close inbox", "stop transport", "stopped"}
                       => UNCHANGED <<processed, fired>>
<1>1. IInv /\ [Next]_vars => [quiet]_vars
  <2> SUFFICES ASSUME IInv, Next, control \in {"close inbox", "stop transport", "stopped"}
               PROVE  UNCHANGED <<processed, fired>>
    BY Zenon
  <2>1. \A q \in Queues : worker[q] = Idle
    BY Zenon DEF IInv, NoThreads
  <2>2. \A q \in Queues : ~Run(q)
    <3>1. Idle.pc # "run"
      BY Zenon DEF Idle
    <3> QED
      BY <2>1, <3>1, Zenon DEF Run
  <2> QED
    BY <2>2, Zenon DEF Next, Arrive, Submit, ReactorStep, ReactorCheck, ProcessTimer, TimersDone,
          SwapOut, PushBatch, PushEvolve, WorkerStep, WorkerCheck, Take, Start, StartReactor, Stop,
          StopStep, CloseQueue, Join, CloseInbox, StopTransport, Tick, history
<1> QED
  BY <1>1, ReactorInvariant, PTL DEF Spec, QuietAfterStop

=============================================================================

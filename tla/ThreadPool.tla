------------------------------ MODULE ThreadPool -----------------------------
(***************************************************************************)
(* common::ThreadPool: worker threads that take tasks from a queue and     *)
(* from a queue of timers, with one mutex and one condition variable.      *)
(*                                                                         *)
(* A step is what a thread does from taking mutex_ until it releases it,   *)
(* by itself or inside Wait and TimeWait.  Delayed tasks are known by the  *)
(* number DelayTask gives them.                                            *)
(***************************************************************************)
EXTENDS Integers, Sequences, FiniteSets

CONSTANTS
    Worker,     \* the threads of the pool
    Task,       \* tasks for AddTask and AddPriorityTask, each added once
    Delay,      \* the delays DelayTask is called with
    Nil,        \* no task
    MaxTimers,  \* bound: calls of DelayTask
    MaxTime,    \* bound: the last moment of the clock
    MaxStarts   \* bound: Start after Stop

Timer == 1 .. MaxTimers

ASSUME PoolAssumption ==
    /\ Worker # {}
    /\ Delay \subseteq Nat
    /\ MaxTimers \in Nat /\ MaxTime \in Nat /\ MaxStarts \in Nat
    /\ Nil \notin Task \cup Timer
    /\ Task \cap Nat = {}

VARIABLES
    queue,          \* queue_
    pendingNum,     \* pending_num_
    timeQueue,      \* time_queue_
    latest,         \* latest_: the timers nobody cancelled
    lastTaskId,     \* last_task_id_
    runningTaskId,  \* running_task_id_, 0 for none
    stop,           \* stop_
    worker,         \* per thread, where it is, its task and when TimeWait ends
    stopper,        \* the thread that calls Stop and Start
    now,            \* get_micros() / 1000
    starts,         \* Start after Stop, so far
    begun,          \* history: the tasks some thread has begun
    answer          \* history: what CancelTask said of a timer, true if ever

queues == <<queue, pendingNum, timeQueue, latest, lastTaskId>>
vars == <<queues, runningTaskId, stop, worker, stopper, now, starts, begun, answer>>

BGItem == [id: Timer, exe: Nat]

\* pc: "ready" to take mutex_ at the head of ThreadProc's loop, in "wait" (Wait)
\* or "timewait" (TimeWait, up to until), at work on a "task" or a "timer", or
\* "gone".
WorkerState == [pc: {"ready", "wait", "timewait", "task", "timer", "gone"},
                task: {Nil} \cup Task \cup Timer, until: Nat]
At(pc) == [pc |-> pc, task |-> Nil, until |-> 0]
Busy(w) == worker[w].pc \in {"task", "timer"}
Sleeping(w) == worker[w].pc \in {"wait", "timewait"}
Running(j) == \E w \in Worker : worker[w].task = j

Queued == {queue[i] : i \in DOMAIN queue}

Init ==
    /\ queue = << >> /\ pendingNum = 0
    /\ timeQueue = {} /\ latest = {} /\ lastTaskId = 0 /\ runningTaskId = 0
    /\ stop = FALSE
    /\ worker = [w \in Worker |-> At("ready")]
    /\ stopper = [pc |-> "idle", before |-> {}]
    /\ now = 0 /\ starts = 0
    /\ begun = {}
    /\ answer = [i \in Timer |-> "none"]

-----------------------------------------------------------------------------
\* Mutant: nobody is woken.
SignalNobody == UNCHANGED worker

\* One thread that waits, in Wait or in TimeWait, whichever it is.
Signal ==
    IF \E w \in Worker : Sleeping(w)
    THEN \E w \in Worker : Sleeping(w) /\ worker' = [worker EXCEPT ![w] = At("ready")]
    ELSE UNCHANGED worker

\* Mutant: Broadcast wakes one thread.
BroadcastOne == Signal

\* Every thread that waits.
Broadcast ==
    worker' = [w \in Worker |-> IF Sleeping(w) THEN At("ready") ELSE worker[w]]

\* Mutant: the task is not counted.
Uncounted == pendingNum

Counted == pendingNum + 1

\* A task is added once.
Fresh(t) == t \notin Queued \cup begun

Enqueue(tasks) ==
    /\ queue' = tasks
    /\ pendingNum' = Counted
    /\ Signal
    /\ UNCHANGED <<timeQueue, latest, lastTaskId, runningTaskId, stop, stopper, now, starts,
                   begun, answer>>

AddTask(t) == Fresh(t) /\ Enqueue(Append(queue, t))
AddPriorityTask(t) == Fresh(t) /\ Enqueue(<<t>> \o queue)

DelayTask(d) ==
    /\ lastTaskId < MaxTimers
    /\ lastTaskId' = lastTaskId + 1
    /\ LET item == [id |-> lastTaskId', exe |-> now + d]
       IN  /\ timeQueue' = timeQueue \cup {item}
           /\ latest' = latest \cup {item}
    /\ Signal
    /\ UNCHANGED <<queue, pendingNum, runningTaskId, stop, stopper, now, starts, begun, answer>>

\* Not while running_task_id_ is i: the caller sleeps and looks again.  The
\* item stays in time_queue_.
CancelTask(i) ==
    /\ i <= lastTaskId
    /\ runningTaskId # i
    /\ latest' = {item \in latest : item.id # i}
    /\ answer' = [answer EXCEPT ![i] = IF @ = "true" \/ latest' # latest THEN "true"
                                              ELSE "false"]
    /\ UNCHANGED <<queue, pendingNum, timeQueue, lastTaskId, runningTaskId, stop, worker,
                   stopper, now, starts, begun>>

-----------------------------------------------------------------------------
\* ThreadProc: one turn of the loop, up to where mutex_ is released.

\* Mutant: the comparison of BGItem is the other way round.
IsBottom(item) ==
    /\ item \in timeQueue
    /\ \A other \in timeQueue : other.exe <= item.exe

\* The head of time_queue_: the least exe_time, then the least id.
IsTop(item) ==
    /\ item \in timeQueue
    /\ \A other \in timeQueue \ {item} :
          item.exe < other.exe \/ (item.exe = other.exe /\ item.id < other.id)

Leave(w) ==
    /\ worker[w].pc = "ready"
    /\ stop
    /\ worker' = [worker EXCEPT ![w] = At("gone")]
    /\ UNCHANGED <<queues, runningTaskId, stop, stopper, now, starts, begun, answer>>

Wait(w) ==
    /\ worker[w].pc = "ready"
    /\ ~stop /\ queue = << >> /\ timeQueue = {}
    /\ worker' = [worker EXCEPT ![w] = At("wait")]
    /\ UNCHANGED <<queues, runningTaskId, stop, stopper, now, starts, begun, answer>>

TimeWait(w) ==
    /\ worker[w].pc = "ready"
    /\ ~stop /\ queue = << >>
    /\ \E item \in timeQueue :
        /\ IsTop(item) /\ now < item.exe
        /\ worker' = [worker EXCEPT ![w] = [At("timewait") EXCEPT !.until = item.exe]]
    /\ UNCHANGED <<queues, runningTaskId, stop, stopper, now, starts, begun, answer>>

\* Mutant: a cancelled timer is not recognised.
IsLatestAny(item) == TRUE

IsLatest(item) == item \in latest

\* The timer is due and was not cancelled.
BeginTimer(w) ==
    /\ worker[w].pc = "ready"
    /\ ~stop
    /\ \E item \in timeQueue :
        /\ IsTop(item) /\ now >= item.exe
        /\ timeQueue' = timeQueue \ {item}
        /\ IsLatest(item)
        /\ latest' = latest \ {item}
        /\ runningTaskId' = item.id
        /\ begun' = begun \cup {item.id}
        /\ worker' = [worker EXCEPT ![w] = [At("timer") EXCEPT !.task = item.id]]
    /\ UNCHANGED <<queue, pendingNum, lastTaskId, stop, stopper, now, starts, answer>>

DropTimer(w) ==
    /\ worker[w].pc = "ready"
    /\ ~stop
    /\ \E item \in timeQueue :
        /\ IsTop(item) /\ now >= item.exe
        /\ ~IsLatest(item)
        /\ timeQueue' = timeQueue \ {item}
    /\ UNCHANGED <<queue, pendingNum, latest, lastTaskId, runningTaskId, stop, worker, stopper,
                   now, starts, begun, answer>>

\* No timer is due.
BeginTask(w) ==
    /\ worker[w].pc = "ready"
    /\ ~stop /\ queue # << >>
    /\ \A item \in timeQueue : now < item.exe
    /\ queue' = Tail(queue)
    /\ pendingNum' = pendingNum - 1
    /\ begun' = begun \cup {Head(queue)}
    /\ worker' = [worker EXCEPT ![w] = [At("task") EXCEPT !.task = Head(queue)]]
    /\ UNCHANGED <<timeQueue, latest, lastTaskId, runningTaskId, stop, stopper, now, starts,
                   answer>>

EndTask(w) ==
    /\ worker[w].pc = "task"
    /\ worker' = [worker EXCEPT ![w] = At("ready")]
    /\ UNCHANGED <<queues, runningTaskId, stop, stopper, now, starts, begun, answer>>

\* Whichever timer running_task_id_ stands for by now, it is forgotten.
EndTimer(w) ==
    /\ worker[w].pc = "timer"
    /\ runningTaskId' = 0
    /\ worker' = [worker EXCEPT ![w] = At("ready")]
    /\ UNCHANGED <<queues, stop, stopper, now, starts, begun, answer>>

TimeOut(w) ==
    /\ worker[w].pc = "timewait" /\ now >= worker[w].until
    /\ worker' = [worker EXCEPT ![w] = At("ready")]
    /\ UNCHANGED <<queues, runningTaskId, stop, stopper, now, starts, begun, answer>>

\* pthread_cond_wait may return without a signal.
SpuriousWake(w) ==
    /\ Sleeping(w)
    /\ worker' = [worker EXCEPT ![w] = At("ready")]
    /\ UNCHANGED <<queues, runningTaskId, stop, stopper, now, starts, begun, answer>>

-----------------------------------------------------------------------------
\* Stop(true): pending_num_ is read again and again without mutex_.  before are
\* the tasks AddTask had taken in when it was called.
StopWait ==
    /\ stopper.pc = "idle"
    /\ stopper' = [pc |-> "drain", before |-> Queued \cup (begun \cap Task)]
    /\ UNCHANGED <<queues, runningTaskId, stop, worker, now, starts, begun, answer>>

\* Mutant: the tasks that are waiting are not waited for.
DrainedAtOnce == TRUE

Drained == ~(pendingNum > 0)

\* stop_ is set, at once by Stop(false).
StopSet ==
    /\ stopper.pc = "idle" \/ (stopper.pc = "drain" /\ Drained)
    /\ stop' = TRUE
    /\ Broadcast
    /\ stopper' = [stopper EXCEPT !.pc = "join"]
    /\ UNCHANGED <<queues, runningTaskId, now, starts, begun, answer>>

\* pthread_join on every thread.
Joined == \A w \in Worker : worker[w].pc = "gone"

StopReturn ==
    /\ stopper.pc = "join" /\ Joined
    /\ stopper' = [stopper EXCEPT !.pc = "stopped"]
    /\ UNCHANGED <<queues, runningTaskId, stop, worker, now, starts, begun, answer>>

\* The threads are made anew.  What is in the queues was left there by Stop or
\* added since.
Start ==
    /\ stopper.pc = "stopped" /\ starts < MaxStarts
    /\ starts' = starts + 1
    /\ stop' = FALSE
    /\ worker' = [w \in Worker |-> At("ready")]
    /\ stopper' = [pc |-> "idle", before |-> {}]
    /\ UNCHANGED <<queues, runningTaskId, now, begun, answer>>

Tick ==
    /\ now < MaxTime
    /\ now' = now + 1
    /\ UNCHANGED <<queues, runningTaskId, stop, worker, stopper, starts, begun, answer>>

-----------------------------------------------------------------------------
\* What thread w does whenever it is scheduled.
ThreadProc(w) ==
    \/ Leave(w)
    \/ Wait(w)
    \/ TimeWait(w)
    \/ BeginTimer(w)
    \/ DropTimer(w)
    \/ BeginTask(w)
    \/ EndTask(w)
    \/ EndTimer(w)
    \/ TimeOut(w)

CallerNext ==
    \/ \E t \in Task : AddTask(t)
    \/ \E t \in Task : AddPriorityTask(t)
    \/ \E d \in Delay : DelayTask(d)
    \/ \E i \in Timer : CancelTask(i)
    \/ StopWait
    \/ StopSet
    \/ StopReturn
    \/ Start

Next ==
    \/ \E w \in Worker : ThreadProc(w)
    \/ \E w \in Worker : SpuriousWake(w)
    \/ CallerNext
    \/ Tick

Spec == Init /\ [][Next]_vars

\* Threads are scheduled, tasks come to an end, time passes, and Stop goes on
\* once it was called.
Fairness ==
    /\ \A w \in Worker : WF_vars(ThreadProc(w))
    /\ WF_vars(stopper.pc = "drain" /\ StopSet)
    /\ WF_vars(StopReturn)
    /\ WF_vars(Tick)

FairSpec == Spec /\ Fairness

-----------------------------------------------------------------------------
\* The type of every variable.
PoolTypeOK ==
    /\ queue \in Seq(Task)
    /\ pendingNum \in Nat
    /\ timeQueue \subseteq BGItem /\ latest \subseteq BGItem
    /\ lastTaskId \in 0 .. MaxTimers
    /\ runningTaskId \in {0} \cup Timer
    /\ stop \in BOOLEAN
    /\ worker \in [Worker -> WorkerState]
    /\ stopper \in [pc: {"idle", "drain", "join", "stopped"}, before: SUBSET Task]
    /\ now \in Nat
    /\ starts \in Nat
    /\ begun \subseteq Task \cup Timer
    /\ answer \in [Timer -> {"none", "true", "false"}]

\* A thread that is neither asleep nor gone looks at the queues before it sleeps.
Awake(w) == worker[w].pc \in {"ready", "task", "timer"}

\* No wake-up is lost: a task in the queue has a thread that is awake, and a
\* timer has one, or a thread whose TimeWait ends in time for it, although
\* AddTask and DelayTask wake one thread and do not choose which.
WorkWatched ==
    stop \/ /\ queue # << >> => \E w \in Worker : Awake(w)
            /\ \A item \in timeQueue :
                  \E w \in Worker :
                     Awake(w) \/ (worker[w].pc = "timewait" /\ worker[w].until <= item.exe)

\* When Stop(true) returns, every task that AddTask had taken in before has
\* been run to its end ("Wait for all pending task to complete").
StopDrains ==
    stopper.pc = "stopped" =>
        \A t \in stopper.before : t \in begun /\ ~Running(t)

\* A task is taken in, then begun by one thread, once, or cancelled; a timer
\* that CancelTask said it cancelled does not run, and nothing is lost.
Life(j) ==
    IF Running(j) THEN "running"
    ELSE IF j \in begun THEN "done"
    ELSE IF j \in Timer /\ answer[j] = "true" THEN "cancelled"
    ELSE IF j \in Queued \/ \E item \in latest : item.id = j THEN "waiting"
    ELSE "new"

TL == INSTANCE TaskLife WITH
    Job <- Task \cup Timer,
    life <- [j \in Task \cup Timer |-> Life(j)]

RefinesTaskLife == TL!TLSpec

\* Every task and every timer due while the clock runs is begun, or cancelled,
\* as long as the pool is not stopped.
EventuallyBegun ==
    \A j \in Task \cup Timer :
        Life(j) = "waiting" /\ (\A item \in latest : item.id = j => item.exe <= MaxTime)
            ~> Life(j) # "waiting" \/ stop

\* Stop returns, with threads asleep in Wait and TimeWait when it is called.
StopReturns == stopper.pc # "idle" ~> stopper.pc = "stopped"
=============================================================================

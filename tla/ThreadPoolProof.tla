--------------------------- MODULE ThreadPoolProof --------------------------
(***************************************************************************)
(* Proofs about ThreadPool, for any number of threads, tasks and timers:   *)
(* no wake-up is lost, Stop(true) waits for what was taken in, and the     *)
(* pool implements TaskLife.                                               *)
(***************************************************************************)
EXTENDS ThreadPool, TLAPS

\* pending_num_ counts the queue.
Counting == pendingNum = Len(queue)

\* What before holds at each point of Stop(true).
StopInv ==
    /\ stopper.pc = "idle" => stopper.before = {}
    /\ stopper.pc = "drain" => stopper.before \subseteq Queued \cup begun
    /\ stopper.pc \in {"join", "stopped"} => stopper.before \subseteq begun
    /\ stopper.pc = "stopped" => \A w \in Worker : worker[w].pc = "gone"
    /\ stop \/ \A w \in Worker : worker[w].pc # "gone"
    /\ \A w \in Worker : ~Busy(w) => worker[w].task = Nil

\* WorkWatched alone is not inductive: what a step leaves in the queue is known
\* by its type.
PoolInv == PoolTypeOK /\ Counting /\ WorkWatched /\ StopInv

-----------------------------------------------------------------------------
\* The tasks in the queue after each of its operations.

LEMMA QueuedAppend ==
    ASSUME NEW q \in Seq(Task), NEW t \in Task
    PROVE  {Append(q, t)[i] : i \in DOMAIN Append(q, t)} = {q[i] : i \in DOMAIN q} \cup {t}
  <1> DEFINE a == Append(q, t)
  <1>1. Len(a) = Len(q) + 1 /\ DOMAIN a = 1 .. Len(q) + 1 /\ DOMAIN q = 1 .. Len(q)
    OBVIOUS
  <1>2. \A i \in 1 .. Len(q) : a[i] = q[i]
    OBVIOUS
  <1>3. a[Len(q) + 1] = t
    OBVIOUS
  <1> HIDE DEF a
  <1>4. Len(q) \in Nat
    OBVIOUS
  <1>5. QED
    BY <1>1, <1>2, <1>3, <1>4 DEF a

LEMMA QueuedFront ==
    ASSUME NEW q \in Seq(Task), NEW t \in Task
    PROVE  {(<<t>> \o q)[i] : i \in DOMAIN (<<t>> \o q)} = {q[i] : i \in DOMAIN q} \cup {t}
  <1> DEFINE c == <<t>> \o q
  <1>1. Len(c) = Len(q) + 1 /\ DOMAIN c = 1 .. Len(q) + 1 /\ DOMAIN q = 1 .. Len(q)
    OBVIOUS
  <1>2. \A i \in 1 .. Len(q) : c[i + 1] = q[i]
    OBVIOUS
  <1>3. c[1] = t
    OBVIOUS
  <1> HIDE DEF c
  <1>4. Len(q) \in Nat
    OBVIOUS
  <1>5. \A i \in 2 .. Len(q) + 1 : c[i] = q[i - 1] /\ i - 1 \in 1 .. Len(q)
    <2> TAKE i \in 2 .. Len(q) + 1
    <2>1. i - 1 \in 1 .. Len(q) /\ (i - 1) + 1 = i
      BY <1>4
    <2>2. QED
      BY <1>2, <2>1
  <1>6. QED
    <2>1. ASSUME NEW i \in 1 .. Len(q) + 1
          PROVE  c[i] \in {q[j] : j \in DOMAIN q} \cup {t}
      <3>1. CASE i = 1
        BY <1>3, <3>1
      <3>2. CASE i # 1
        <4>1. i \in 2 .. Len(q) + 1
          BY <3>2, <1>4
        <4>2. QED
          BY <4>1, <1>5, <1>1
      <3>3. QED
        BY <3>1, <3>2
    <2>2. ASSUME NEW i \in 1 .. Len(q)
          PROVE  q[i] \in {c[j] : j \in DOMAIN c}
      <3>1. i + 1 \in 1 .. Len(q) + 1
        BY <1>4
      <3>2. QED
        BY <3>1, <1>1, <1>2
    <2>3. t \in {c[j] : j \in DOMAIN c}
      BY <1>1, <1>3, <1>4
    <2>4. QED
      BY <1>1, <2>1, <2>2, <2>3 DEF c

LEMMA QueuedTail ==
    ASSUME NEW q \in Seq(Task), q # << >>
    PROVE  /\ Tail(q) \in Seq(Task) /\ Head(q) \in Task /\ Len(Tail(q)) = Len(q) - 1
           /\ {q[i] : i \in DOMAIN q} = {Tail(q)[i] : i \in DOMAIN Tail(q)} \cup {Head(q)}
  <1> DEFINE r == Tail(q)
  <1>1. /\ r \in Seq(Task) /\ Head(q) \in Task /\ Head(q) = q[1]
        /\ Len(r) = Len(q) - 1 /\ DOMAIN r = 1 .. Len(q) - 1 /\ DOMAIN q = 1 .. Len(q)
        /\ Len(q) \in Nat \ {0}
    OBVIOUS
  <1>2. \A i \in 1 .. Len(q) - 1 : r[i] = q[i + 1]
    OBVIOUS
  <1> HIDE DEF r
  <1>3. ASSUME NEW i \in 1 .. Len(q)
        PROVE  q[i] \in {r[j] : j \in DOMAIN r} \cup {Head(q)}
    <2>1. CASE i = 1
      BY <2>1, <1>1
    <2>2. CASE i # 1
      <3>1. i - 1 \in 1 .. Len(q) - 1 /\ (i - 1) + 1 = i
        BY <2>2, <1>1
      <3>2. QED
        BY <3>1, <1>1, <1>2
    <2>3. QED
      BY <2>1, <2>2
  <1>4. ASSUME NEW i \in 1 .. Len(q) - 1
        PROVE  r[i] \in {q[j] : j \in DOMAIN q}
    <2>1. i + 1 \in 1 .. Len(q)
      BY <1>1
    <2>2. QED
      BY <2>1, <1>1, <1>2
  <1>5. Head(q) \in {q[j] : j \in DOMAIN q}
    BY <1>1
  <1>6. QED
    BY <1>1, <1>3, <1>4, <1>5 DEF r
-----------------------------------------------------------------------------
\* A signal changes sleeping threads only, and leaves one awake.
LEMMA SignalWakes ==
    ASSUME PoolInv, Signal
    PROVE  /\ worker' \in [Worker -> WorkerState]
           /\ \A w \in Worker : worker'[w] = worker[w] \/ (Sleeping(w) /\ worker'[w] = At("ready"))
           /\ ~stop => \E w \in Worker : worker'[w].pc \in {"ready", "task", "timer"}
  <1> USE DEF PoolInv, PoolTypeOK, StopInv
  <1>1. CASE \E w \in Worker : Sleeping(w)
    <2>1. PICK w \in Worker : Sleeping(w) /\ worker' = [worker EXCEPT ![w] = At("ready")]
      BY <1>1 DEF Signal
    <2>2. At("ready") \in WorkerState
      BY DEF At, WorkerState
    <2>3. worker'[w].pc = "ready"
      BY <2>1 DEF At
    <2>4. QED
      BY <2>1, <2>2, <2>3
  <1>2. CASE ~\E w \in Worker : Sleeping(w)
    <2>1. worker' = worker
      BY <1>2 DEF Signal
    <2>2. ASSUME ~stop
          PROVE  \E w \in Worker : worker'[w].pc \in {"ready", "task", "timer"}
      <3>1. PICK w \in Worker : TRUE
        BY PoolAssumption
      <3>2. worker[w].pc \in {"ready", "task", "timer"}
        BY <1>2, <2>2 DEF Sleeping, WorkerState
      <3>3. QED
        BY <2>1, <3>2
    <2>3. QED
      BY <2>1, <2>2
  <1>3. QED
    BY <1>1, <1>2

\* Nor does it touch what Stop has seen, when the queue only grows.
LEMMA SignalStopInv ==
    ASSUME PoolInv, UNCHANGED <<stopper, begun, stop>>,
           Queued \subseteq Queued',
           \A w \in Worker : worker'[w] = worker[w] \/ (Sleeping(w) /\ worker'[w] = At("ready"))
    PROVE  StopInv'
  <1> USE DEF PoolInv, StopInv
  <1>1. ASSUME NEW w \in Worker
        PROVE  /\ worker[w].pc # "gone" => worker'[w].pc # "gone"
               /\ worker[w].pc = "gone" => worker'[w].pc = "gone"
               /\ ~Busy(w)' => worker'[w].task = Nil
    BY DEF Busy, Sleeping, At
  <1>2. (stopper.pc = "drain" => stopper.before \subseteq Queued \cup begun)'
    OBVIOUS
  <1>3. QED
    BY <1>1, <1>2

\* What an item of the time queue looks like.
LEMMA ItemType ==
    ASSUME PoolTypeOK, NEW item \in timeQueue
    PROVE  item \in BGItem /\ item.id \in Timer /\ item.exe \in Nat
  BY DEF PoolTypeOK, BGItem

\* Replacing the state of one thread.
LEMMA WorkerType ==
    ASSUME PoolTypeOK, NEW w \in Worker,
           NEW st \in WorkerState, worker' = [worker EXCEPT ![w] = st]
    PROVE  /\ worker' \in [Worker -> WorkerState]
           /\ worker'[w] = st
           /\ \A v \in Worker \ {w} : worker'[v] = worker[v]
  BY DEF PoolTypeOK

-----------------------------------------------------------------------------
LEMMA PoolInit == ASSUME Init PROVE PoolInv
  <1> USE DEF Init
  <1>1. PoolTypeOK
    <2>1. At("ready") \in WorkerState
      BY DEF At, WorkerState
    <2>2. worker \in [Worker -> WorkerState]
      BY <2>1
    <2>3. stopper \in [pc: {"idle", "drain", "join", "stopped"}, before: SUBSET Task]
      OBVIOUS
    <2>4. answer \in [Timer -> {"none", "true", "false"}]
      OBVIOUS
    <2>5. lastTaskId \in 0 .. MaxTimers /\ queue \in Seq(Task) /\ pendingNum \in Nat
      BY PoolAssumption
    <2>6. QED
      BY <2>2, <2>3, <2>4, <2>5 DEF PoolTypeOK
  <1>2. Counting /\ WorkWatched
    BY DEF Counting, WorkWatched
  <1>3. StopInv
    BY DEF StopInv, At, Busy
  <1>4. QED
    BY <1>1, <1>2, <1>3 DEF PoolInv

\* AddTask and AddPriorityTask.
LEMMA EnqueueInv ==
    ASSUME PoolInv, NEW q \in Seq(Task), NEW t \in Task, Len(q) = Len(queue) + 1,
           {q[i] : i \in DOMAIN q} = Queued \cup {t},
           Enqueue(q)
    PROVE  PoolInv'
  <1> USE DEF PoolInv, Enqueue
  <1>1. /\ worker' \in [Worker -> WorkerState]
        /\ \A w \in Worker : worker'[w] = worker[w] \/ (Sleeping(w) /\ worker'[w] = At("ready"))
        /\ ~stop => \E w \in Worker : worker'[w].pc \in {"ready", "task", "timer"}
    BY SignalWakes
  <1>2. PoolTypeOK'
    BY <1>1 DEF PoolTypeOK, Counted
  <1>3. Counting'
    BY DEF Counting, Counted, PoolTypeOK
  <1>4. WorkWatched'
    BY <1>1 DEF WorkWatched, Awake
  <1>5. StopInv'
    BY <1>1, SignalStopInv DEF Queued
  <1>6. QED
    BY <1>2, <1>3, <1>4, <1>5

LEMMA DelayInv ==
    ASSUME PoolInv, NEW d \in Delay, DelayTask(d)
    PROVE  PoolInv'
  <1> USE DEF PoolInv, DelayTask
  <1>1. /\ worker' \in [Worker -> WorkerState]
        /\ \A w \in Worker : worker'[w] = worker[w] \/ (Sleeping(w) /\ worker'[w] = At("ready"))
        /\ ~stop => \E w \in Worker : worker'[w].pc \in {"ready", "task", "timer"}
    BY SignalWakes
  <1>2. PoolTypeOK'
    <2>1. lastTaskId' \in Timer /\ now + d \in Nat
      BY PoolAssumption DEF PoolTypeOK, Timer
    <2>2. timeQueue' \subseteq BGItem /\ latest' \subseteq BGItem
      BY <2>1 DEF PoolTypeOK, BGItem
    <2>3. QED
      BY <1>1, <2>1, <2>2, PoolAssumption DEF PoolTypeOK, Timer
  <1>3. Counting'
    BY DEF Counting
  <1>4. WorkWatched'
    BY <1>1 DEF WorkWatched, Awake
  <1>5. StopInv'
    BY <1>1, SignalStopInv DEF Queued
  <1>6. QED
    BY <1>2, <1>3, <1>4, <1>5

LEMMA CancelInv ==
    ASSUME PoolInv, NEW i \in Timer, CancelTask(i)
    PROVE  PoolInv'
  <1> USE DEF PoolInv, CancelTask
  <1>1. PoolTypeOK'
    BY DEF PoolTypeOK
  <1>2. QED
    BY <1>1 DEF Counting, WorkWatched, Awake, StopInv, Queued, Busy
-----------------------------------------------------------------------------
\* ThreadProc.

\* One thread moves on, and what it takes from the queue it begins.
LEMMA TurnStopInv ==
    ASSUME PoolInv, NEW w \in Worker, NEW st \in WorkerState,
           worker[w].pc # "gone", worker' = [worker EXCEPT ![w] = st],
           st.pc = "gone" => stop,
           st.pc \notin {"task", "timer"} => st.task = Nil,
           UNCHANGED <<stop, stopper>>,
           begun \subseteq begun', Queued \subseteq Queued' \cup begun'
    PROVE  StopInv'
  <1> USE DEF PoolInv, StopInv
  <1>1. /\ worker' \in [Worker -> WorkerState]
        /\ worker'[w] = st
        /\ \A v \in Worker \ {w} : worker'[v] = worker[v]
    BY WorkerType
  <1>2. stopper.pc # "stopped"
    OBVIOUS
  <1>3. (stop \/ \A v \in Worker : worker[v].pc # "gone")'
    BY <1>1
  <1>4. (\A v \in Worker : ~Busy(v) => worker[v].task = Nil)'
    BY <1>1 DEF Busy
  <1>5. /\ (stopper.pc = "idle" => stopper.before = {})'
        /\ (stopper.pc = "drain" => stopper.before \subseteq Queued \cup begun)'
        /\ (stopper.pc \in {"join", "stopped"} => stopper.before \subseteq begun)'
    OBVIOUS
  <1>6. QED
    BY <1>2, <1>3, <1>4, <1>5

\* A thread that goes to sleep, leaves, wakes or ends its task.
LEMMA PauseInv ==
    ASSUME PoolInv, NEW w \in Worker, NEW st \in WorkerState,
           worker[w].pc # "gone", worker' = [worker EXCEPT ![w] = st],
           st.pc = "gone" => stop,
           st.pc \notin {"task", "timer"} => st.task = Nil,
           UNCHANGED <<queues, stop, stopper, now, starts, begun, answer>>,
           runningTaskId' \in {0, runningTaskId},
           \/ stop
           \/ st.pc = "ready"
           \/ st.pc = "wait" /\ queue = << >> /\ timeQueue = {}
           \/ /\ st.pc = "timewait" /\ queue = << >>
              /\ \A item \in timeQueue : st.until <= item.exe
    PROVE  PoolInv'
  <1> USE DEF PoolInv, queues
  <1>1. /\ worker' \in [Worker -> WorkerState]
        /\ worker'[w] = st
        /\ \A v \in Worker \ {w} : worker'[v] = worker[v]
    BY WorkerType
  <1>2. PoolTypeOK'
    BY <1>1 DEF PoolTypeOK
  <1>3. Counting'
    BY DEF Counting
  <1>4. WorkWatched'
    BY <1>1 DEF WorkWatched, Awake
  <1>5. StopInv'
    BY TurnStopInv DEF Queued
  <1>6. QED
    BY <1>2, <1>3, <1>4, <1>5

LEMMA TimeWaitInv ==
    ASSUME PoolInv, NEW w \in Worker, TimeWait(w)
    PROVE  PoolInv'
  <1> USE DEF PoolInv
  <1>1. PICK item \in timeQueue :
            /\ IsTop(item)
            /\ worker' = [worker EXCEPT ![w] = [At("timewait") EXCEPT !.until = item.exe]]
    BY DEF TimeWait
  <1> DEFINE st == [At("timewait") EXCEPT !.until = item.exe]
  <1>2. item.exe \in Nat /\ \A other \in timeQueue : other.exe \in Nat
    BY ItemType
  <1>3. st \in WorkerState /\ st.pc = "timewait" /\ st.until = item.exe /\ st.task = Nil
    BY <1>2 DEF At, WorkerState
  <1>4. \A other \in timeQueue : st.until <= other.exe
    BY <1>1, <1>2, <1>3 DEF IsTop
  <1> HIDE DEF st
  <1>5. QED
    BY <1>1, <1>3, <1>4, PauseInv DEF TimeWait, st

LEMMA BeginTimerInv ==
    ASSUME PoolInv, NEW w \in Worker, BeginTimer(w)
    PROVE  PoolInv'
  <1> USE DEF PoolInv, BeginTimer
  <1>1. PICK item \in timeQueue :
            /\ timeQueue' = timeQueue \ {item}
            /\ latest' = latest \ {item}
            /\ runningTaskId' = item.id
            /\ begun' = begun \cup {item.id}
            /\ worker' = [worker EXCEPT ![w] = [At("timer") EXCEPT !.task = item.id]]
    OBVIOUS
  <1> DEFINE st == [At("timer") EXCEPT !.task = item.id]
  <1>2. item.id \in Timer
    BY ItemType
  <1>3. st \in WorkerState /\ st.pc = "timer"
    BY <1>2 DEF At, WorkerState
  <1> HIDE DEF st
  <1>4. worker' = [worker EXCEPT ![w] = st]
    BY <1>1 DEF st
  <1>5. /\ worker' \in [Worker -> WorkerState]
        /\ worker'[w] = st
        /\ \A v \in Worker \ {w} : worker'[v] = worker[v]
    BY <1>3, <1>4, WorkerType
  <1>6. PoolTypeOK'
    BY <1>1, <1>2, <1>5 DEF PoolTypeOK
  <1>7. Counting'
    BY DEF Counting
  <1>8. WorkWatched'
    BY <1>3, <1>5 DEF WorkWatched, Awake
  <1>9. StopInv'
    <2>1. /\ worker[w].pc # "gone" /\ UNCHANGED <<stop, stopper>>
          /\ begun \subseteq begun' /\ Queued' = Queued
      BY <1>1 DEF Queued
    <2>2. st.pc # "gone" /\ st.pc \in {"task", "timer"} /\ Queued \subseteq Queued' \cup begun'
      BY <1>3, <2>1
    <2> HIDE DEF BeginTimer
    <2>3. QED
      BY <1>3, <1>4, <2>1, <2>2, TurnStopInv
  <1>10. QED
    BY <1>6, <1>7, <1>8, <1>9

LEMMA DropTimerInv ==
    ASSUME PoolInv, NEW w \in Worker, DropTimer(w)
    PROVE  PoolInv'
  <1> USE DEF PoolInv, DropTimer
  <1>1. timeQueue' \subseteq timeQueue
    OBVIOUS
  <1>2. PoolTypeOK'
    BY <1>1 DEF PoolTypeOK
  <1>3. WorkWatched'
    BY <1>1 DEF WorkWatched, Awake
  <1>4. QED
    BY <1>2, <1>3 DEF Counting, StopInv, Queued, Busy

LEMMA BeginTaskInv ==
    ASSUME PoolInv, NEW w \in Worker, BeginTask(w)
    PROVE  PoolInv'
  <1> USE DEF PoolInv, BeginTask
  <1> DEFINE st == [At("task") EXCEPT !.task = Head(queue)]
  <1>1. /\ Tail(queue) \in Seq(Task) /\ Head(queue) \in Task
        /\ Len(Tail(queue)) = Len(queue) - 1
        /\ Queued = Queued' \cup {Head(queue)}
    BY QueuedTail DEF PoolTypeOK, Queued
  <1>2. st \in WorkerState /\ st.pc = "task"
    BY <1>1 DEF At, WorkerState
  <1> HIDE DEF st
  <1>3. worker' = [worker EXCEPT ![w] = st]
    BY DEF st
  <1>4. /\ worker' \in [Worker -> WorkerState]
        /\ worker'[w] = st
        /\ \A v \in Worker \ {w} : worker'[v] = worker[v]
    BY <1>2, <1>3, WorkerType
  <1>5. Counting' /\ pendingNum' \in Nat
    <2>1. Len(Tail(queue)) \in Nat
      BY <1>1
    <2>2. QED
      BY <1>1, <2>1 DEF Counting
  <1>6. PoolTypeOK'
    BY <1>1, <1>4, <1>5 DEF PoolTypeOK
  <1>7. WorkWatched'
    BY <1>2, <1>4 DEF WorkWatched, Awake
  <1>8. StopInv'
    BY <1>1, <1>2, <1>3, TurnStopInv
  <1>9. QED
    BY <1>5, <1>6, <1>7, <1>8

LEMMA ThreadProcInv ==
    ASSUME PoolInv, NEW w \in Worker, ThreadProc(w) \/ SpuriousWake(w)
    PROVE  PoolInv'
  <1>1. \A pc \in {"ready", "wait", "gone"} :
            At(pc) \in WorkerState /\ At(pc).pc = pc /\ At(pc).task = Nil
    BY DEF At, WorkerState
  <1>2. CASE Leave(w)
    BY <1>1, <1>2, PauseInv DEF Leave
  <1>3. CASE Wait(w)
    BY <1>1, <1>3, PauseInv DEF Wait
  <1>4. CASE TimeWait(w)
    BY <1>4, TimeWaitInv
  <1>5. CASE BeginTimer(w)
    BY <1>5, BeginTimerInv
  <1>6. CASE DropTimer(w)
    BY <1>6, DropTimerInv
  <1>7. CASE BeginTask(w)
    BY <1>7, BeginTaskInv
  <1>8. CASE EndTask(w)
    BY <1>1, <1>8, PauseInv DEF EndTask
  <1>9. CASE EndTimer(w)
    BY <1>1, <1>9, PauseInv DEF EndTimer
  <1>10. CASE TimeOut(w)
    BY <1>1, <1>10, PauseInv DEF TimeOut
  <1>11. CASE SpuriousWake(w)
    BY <1>1, <1>11, PauseInv DEF SpuriousWake, Sleeping
  <1>12. QED
    BY <1>2, <1>3, <1>4, <1>5, <1>6, <1>7, <1>8, <1>9, <1>10, <1>11 DEF ThreadProc
-----------------------------------------------------------------------------
\* Stop, Start and the clock.

LEMMA StopWaitInv == ASSUME PoolInv, StopWait PROVE PoolInv'
  <1> USE DEF PoolInv, StopWait, queues
  <1>1. Queued \subseteq Task
    BY DEF PoolTypeOK, Queued
  <1>2. stopper' \in [pc: {"idle", "drain", "join", "stopped"}, before: SUBSET Task]
    BY <1>1
  <1>3. PoolTypeOK'
    BY <1>2 DEF PoolTypeOK
  <1>4. StopInv'
    BY DEF StopInv, Queued, Busy
  <1>5. QED
    BY <1>3, <1>4 DEF Counting, WorkWatched, Awake

\* pending_num_ is 0, so the queue is empty and what was in it has been begun.
LEMMA StopSetInv == ASSUME PoolInv, StopSet PROVE PoolInv'
  <1> USE DEF PoolInv, StopSet, Broadcast, queues
  <1>1. stopper.pc = "drain" => Queued = {}
    BY DEF Drained, Counting, PoolTypeOK, Queued
  <1>2. /\ stopper' = [stopper EXCEPT !.pc = "join"]
        /\ stopper'.pc = "join" /\ stopper'.before = stopper.before
    BY DEF PoolTypeOK
  <1>3. stopper'.before \subseteq begun'
    BY <1>1, <1>2 DEF StopInv
  <1>4. At("ready") \in WorkerState /\ At("ready").task = Nil
    BY DEF At, WorkerState
  <1>5. PoolTypeOK'
    BY <1>2, <1>4 DEF PoolTypeOK
  <1>6. (\A w \in Worker : ~Busy(w) => worker[w].task = Nil)'
    BY <1>4 DEF StopInv, Busy
  <1>7. StopInv'
    BY <1>2, <1>3, <1>6 DEF StopInv
  <1>8. QED
    BY <1>5, <1>7 DEF Counting, WorkWatched

LEMMA StopReturnInv == ASSUME PoolInv, StopReturn PROVE PoolInv'
  <1> USE DEF PoolInv, StopReturn, Joined, queues
  <1>1. /\ stopper'.pc = "stopped" /\ stopper'.before = stopper.before
        /\ stopper' \in [pc: {"idle", "drain", "join", "stopped"}, before: SUBSET Task]
    BY DEF PoolTypeOK
  <1>2. PoolTypeOK'
    BY <1>1 DEF PoolTypeOK
  <1>3. StopInv'
    BY <1>1 DEF StopInv, Busy
  <1>4. QED
    BY <1>2, <1>3 DEF Counting, WorkWatched, Awake

LEMMA StartInv == ASSUME PoolInv, Start PROVE PoolInv'
  <1> USE DEF PoolInv, Start, queues
  <1>1. /\ At("ready") \in WorkerState /\ At("ready").task = Nil
        /\ At("ready").pc = "ready"
    BY DEF At, WorkerState
  <1>2. PoolTypeOK'
    <2>1. worker' \in [Worker -> WorkerState] /\ starts' \in Nat
      BY <1>1 DEF PoolTypeOK
    <2>2. stopper' \in [pc: {"idle", "drain", "join", "stopped"}, before: SUBSET Task]
      OBVIOUS
    <2>3. QED
      BY <2>1, <2>2 DEF PoolTypeOK
  <1>3. WorkWatched'
    BY <1>1, PoolAssumption DEF WorkWatched, Awake
  <1>4. StopInv'
    BY <1>1 DEF StopInv, Busy
  <1>5. QED
    BY <1>2, <1>3, <1>4 DEF Counting

LEMMA TickInv == ASSUME PoolInv, Tick PROVE PoolInv'
  BY DEF PoolInv, Tick, queues, PoolTypeOK, Counting, WorkWatched, Awake, StopInv, Queued, Busy

-----------------------------------------------------------------------------
LEMMA PoolNext == ASSUME PoolInv, [Next]_vars PROVE PoolInv'
  <1>1. ASSUME NEW t \in Task, AddTask(t)
        PROVE  PoolInv'
    <2>1. queue \in Seq(Task)
      BY DEF PoolInv, PoolTypeOK
    <2>2. Append(queue, t) \in Seq(Task) /\ Len(Append(queue, t)) = Len(queue) + 1
      BY <2>1
    <2>3. {Append(queue, t)[i] : i \in DOMAIN Append(queue, t)} = Queued \cup {t}
      BY <2>1, QueuedAppend DEF Queued
    <2>4. QED
      BY <1>1, <2>2, <2>3, EnqueueInv DEF AddTask
  <1>2. ASSUME NEW t \in Task, AddPriorityTask(t)
        PROVE  PoolInv'
    <2>1. queue \in Seq(Task)
      BY DEF PoolInv, PoolTypeOK
    <2>2. (<<t>> \o queue) \in Seq(Task) /\ Len(<<t>> \o queue) = Len(queue) + 1
      BY <2>1
    <2>3. {(<<t>> \o queue)[i] : i \in DOMAIN (<<t>> \o queue)} = Queued \cup {t}
      BY <2>1, QueuedFront DEF Queued
    <2>4. QED
      BY <1>2, <2>2, <2>3, EnqueueInv DEF AddPriorityTask
  <1>3. CASE CallerNext
    BY <1>1, <1>2, <1>3, DelayInv, CancelInv, StopWaitInv, StopSetInv, StopReturnInv, StartInv
       DEF CallerNext
  <1>4. CASE UNCHANGED vars
    BY <1>4 DEF vars, queues, PoolInv, PoolTypeOK, Counting, WorkWatched, Awake, StopInv,
                Queued, Busy
  <1>5. QED
    BY <1>3, <1>4, ThreadProcInv, TickInv DEF Next

\* The types of every variable of the pool.
THEOREM PoolTypes == Spec => []PoolTypeOK
  <1>1. PoolInv => PoolTypeOK
    BY DEF PoolInv
  <1>2. QED
    BY <1>1, PoolInit, PoolNext, PTL DEF Spec

\* AddTask, DelayTask and ThreadProc lose no wake-up, with any number of
\* threads and whichever of them a signal wakes.
THEOREM NoLostWakeUp == Spec => []WorkWatched
  <1>1. PoolInv => WorkWatched
    BY DEF PoolInv
  <1>2. QED
    BY <1>1, PoolInit, PoolNext, PTL DEF Spec

\* When Stop(true) returns, the tasks AddTask had taken in before it was
\* called have ended.
THEOREM StopWaitsForTasks == Spec => []StopDrains
  <1>1. PoolInv => StopDrains
    <2> SUFFICES ASSUME PoolInv, stopper.pc = "stopped", NEW t \in stopper.before
                 PROVE  t \in begun /\ ~Running(t)
      BY DEF StopDrains
    <2>1. t \in begun /\ t \in Task
      BY DEF PoolInv, StopInv, PoolTypeOK
    <2>2. \A w \in Worker : worker[w].task = Nil
      BY DEF PoolInv, StopInv, Busy
    <2>3. QED
      BY <2>1, <2>2, PoolAssumption DEF Running
  <1>2. QED
    BY <1>1, PoolInit, PoolNext, PTL DEF Spec

-----------------------------------------------------------------------------
\* ThreadPool implements TaskLife: what is taken in is begun once, by one thread,
\* or cancelled first, and is never lost.

Distinct(q) == \A i, j \in DOMAIN q : q[i] = q[j] => i = j

\* The queue and begun share no task, and no task is in the queue twice.
QueueOnce == Distinct(queue) /\ Queued \cap begun = {}

\* A task that runs was begun, and one thread runs it.
RunOnce ==
    /\ \A w \in Worker : worker[w].task # Nil => worker[w].task \in begun
    /\ \A v, w \in Worker : worker[v].task = worker[w].task /\ worker[v].task # Nil => v = w

\* A timer in latest_ has a number of its own, is not begun and not cancelled;
\* numbers above last_task_id_ have not been given.
TimersOnce ==
    /\ \A a, b \in latest : a.id = b.id => a = b
    /\ \A a \in latest : a.id \notin begun /\ answer[a.id] # "true" /\ a.id <= lastTaskId
    /\ \A i \in begun \cap Timer : i <= lastTaskId
    /\ \A i \in Timer : answer[i] # "none" => i <= lastTaskId

LifeInv == PoolInv /\ QueueOnce /\ RunOnce /\ TimersOnce

Job == Task \cup Timer
InLatest(j) == \E item \in latest : item.id = j
Cancelled(j) == j \in Timer /\ answer[j] = "true"

-----------------------------------------------------------------------------
\* Queues without repetition.

LEMMA DistinctAppend ==
    ASSUME NEW q \in Seq(Task), NEW t \in Task, Distinct(q), \A i \in DOMAIN q : q[i] # t
    PROVE  Distinct(Append(q, t))
<1> DEFINE a == Append(q, t)
<1>1. DOMAIN a = 1 .. Len(q) + 1 /\ DOMAIN q = 1 .. Len(q) /\ Len(q) \in Nat  OBVIOUS
<1>2. (\A i \in 1 .. Len(q) : a[i] = q[i]) /\ a[Len(q) + 1] = t  OBVIOUS
<1> HIDE DEF a
<1>3. \A i \in 1 .. Len(q) + 1 : i \in 1 .. Len(q) \/ i = Len(q) + 1  BY <1>1
<1>4. \A i, j \in 1 .. Len(q) + 1 : a[i] = a[j] => i = j  BY <1>1, <1>2, <1>3 DEF Distinct
<1>5. Distinct(a)  BY <1>1, <1>4 DEF Distinct
<1> QED  BY <1>5 DEF a

LEMMA DistinctFront ==
    ASSUME NEW q \in Seq(Task), NEW t \in Task, Distinct(q), \A i \in DOMAIN q : q[i] # t
    PROVE  Distinct(<<t>> \o q)
<1> DEFINE c == <<t>> \o q
<1>1. DOMAIN c = 1 .. Len(q) + 1 /\ DOMAIN q = 1 .. Len(q) /\ Len(q) \in Nat  OBVIOUS
<1>2. (\A i \in 1 .. Len(q) : c[i + 1] = q[i]) /\ c[1] = t  OBVIOUS
<1> HIDE DEF c
<1>3. \A i \in 2 .. Len(q) + 1 : c[i] = q[i - 1] /\ i - 1 \in 1 .. Len(q)
  <2> TAKE i \in 2 .. Len(q) + 1
  <2>1. i - 1 \in 1 .. Len(q) /\ (i - 1) + 1 = i  BY <1>1
  <2> QED  BY <1>2, <2>1
<1>4. \A i \in 1 .. Len(q) + 1 : i = 1 \/ i \in 2 .. Len(q) + 1  BY <1>1
<1>5. \A i, j \in 2 .. Len(q) + 1 : c[i] = c[j] => i = j
  <2> TAKE i, j \in 2 .. Len(q) + 1
  <2>1. c[i] = c[j] => i - 1 = j - 1  BY <1>1, <1>3 DEF Distinct
  <2> QED  BY <1>1, <2>1
<1>6. \A i \in 2 .. Len(q) + 1 : c[i] # t  BY <1>1, <1>3
<1>7. Distinct(c)  BY <1>1, <1>2, <1>4, <1>5, <1>6 DEF Distinct
<1> QED  BY <1>7 DEF c

LEMMA DistinctTail ==
    ASSUME NEW q \in Seq(Task), q # << >>, Distinct(q)
    PROVE  Distinct(Tail(q)) /\ \A i \in DOMAIN Tail(q) : Tail(q)[i] # Head(q)
<1> DEFINE r == Tail(q)
<1>1. /\ Head(q) = q[1] /\ DOMAIN r = 1 .. Len(q) - 1 /\ DOMAIN q = 1 .. Len(q)
      /\ Len(q) \in Nat \ {0}
  OBVIOUS
<1>2. \A i \in 1 .. Len(q) - 1 : r[i] = q[i + 1]  OBVIOUS
<1> HIDE DEF r
<1>3. \A i \in 1 .. Len(q) - 1 : i + 1 \in 1 .. Len(q) /\ i + 1 # 1  BY <1>1
<1>4. \A i, j \in 1 .. Len(q) - 1 : r[i] = r[j] => i = j
  <2> TAKE i, j \in 1 .. Len(q) - 1
  <2>1. r[i] = r[j] => i + 1 = j + 1  BY <1>1, <1>2, <1>3 DEF Distinct
  <2> QED  BY <1>1, <2>1
<1>5. \A i \in 1 .. Len(q) - 1 : r[i] # Head(q)
  <2> TAKE i \in 1 .. Len(q) - 1
  <2>1. 1 \in 1 .. Len(q)  BY <1>1
  <2> QED  BY <1>1, <1>2, <1>3, <2>1 DEF Distinct
<1> QED  BY <1>1, <1>4, <1>5 DEF Distinct, r

-----------------------------------------------------------------------------
\* Where a task is in its life, in terms of what the pool keeps.

LEMMA Jobs ==
    /\ Task \cap Timer = {} /\ Nil \notin Job
    /\ \A i \in Timer : i \in Nat /\ i \in Job
    /\ \A t \in Task : t \in Job
BY PoolAssumption DEF Timer, Job

\* What a step leaves as it was for j.
Same(j) ==
    /\ Running(j)' <=> Running(j)
    /\ j \in begun' <=> j \in begun
    /\ Cancelled(j)' <=> Cancelled(j)
    /\ (j \in Queued \/ InLatest(j))' <=> (j \in Queued \/ InLatest(j))

LEMMA SameLife == ASSUME NEW j \in Job, Same(j) PROVE Life(j)' = Life(j)
BY DEF Same, Life, Cancelled, InLatest

\* One job goes on, and the others stay where they are.
LEMMA Advance ==
    ASSUME NEW k \in Job, NEW from, NEW to, Life(k) = from, Life(k)' = to,
           \A j \in Job \ {k} : Same(j)
    PROVE  TL!Becomes(k, from, to)
<1>1. \A j \in Job \ {k} : Life(j)' = Life(j)  BY SameLife
<1> HIDE DEF Life
<1>2. [j \in Job |-> Life(j)]' = [[j \in Job |-> Life(j)] EXCEPT ![k] = to]  BY <1>1
<1> QED  BY <1>2 DEF TL!Becomes, Job

LEMMA Stays ==
    ASSUME \A j \in Job : Same(j)
    PROVE  UNCHANGED [j \in Task \cup Timer |-> Life(j)]
<1>1. \A j \in Job : Life(j)' = Life(j)  BY SameLife
<1> HIDE DEF Life
<1> QED  BY <1>1 DEF Job

-----------------------------------------------------------------------------
\* One lemma for each kind of step.

AbstractStep == TL!TLNext \/ UNCHANGED [j \in Task \cup Timer |-> Life(j)]

\* Steps that only move threads that have no task, Stop, or the clock.
LEMMA RestStep ==
    ASSUME LifeInv, PoolInv', UNCHANGED <<queue, latest, lastTaskId, begun, answer>>,
           \A w \in Worker : worker'[w].task = worker[w].task
    PROVE  LifeInv' /\ AbstractStep
<1>1. LifeInv'  BY DEF LifeInv, QueueOnce, Queued, RunOnce, TimersOnce
<1>2. \A j \in Job : Same(j)  BY DEF Same, Running, Cancelled, InLatest, Queued
<1> QED  BY <1>1, <1>2, Stays DEF AbstractStep

LifeTable ==
    \A j \in Job :
        /\ Running(j) => Life(j) = "running"
        /\ ~Running(j) /\ j \in begun => Life(j) = "done"
        /\ ~Running(j) /\ j \notin begun =>
              /\ Cancelled(j) => Life(j) = "cancelled"
              /\ ~Cancelled(j) /\ (j \in Queued \/ InLatest(j)) => Life(j) = "waiting"
              /\ ~Cancelled(j) /\ j \notin Queued /\ ~InLatest(j) => Life(j) = "new"

LEMMA LifeIs == LifeTable
<1> SUFFICES ASSUME NEW j \in Job
             PROVE  /\ Running(j) => Life(j) = "running"
                    /\ ~Running(j) /\ j \in begun => Life(j) = "done"
                    /\ ~Running(j) /\ j \notin begun =>
                        /\ Cancelled(j) => Life(j) = "cancelled"
                        /\ ~Cancelled(j) /\ (j \in Queued \/ InLatest(j))
                              => Life(j) = "waiting"
                        /\ ~Cancelled(j) /\ j \notin Queued /\ ~InLatest(j)
                              => Life(j) = "new"
  BY DEF LifeTable
<1>1. Running(j) => Life(j) = "running"  BY DEF Life
<1>2. ~Running(j) /\ j \in begun => Life(j) = "done"  BY DEF Life
<1>3. ~Running(j) /\ j \notin begun /\ Cancelled(j) => Life(j) = "cancelled"
  BY DEF Life, Cancelled
<1>4. ~Running(j) /\ j \notin begun /\ ~Cancelled(j) /\ (j \in Queued \/ InLatest(j))
        => Life(j) = "waiting"
  BY DEF Life, Cancelled, InLatest
<1>5. ~Running(j) /\ j \notin begun /\ ~Cancelled(j) /\ j \notin Queued /\ ~InLatest(j)
        => Life(j) = "new"
  BY DEF Life, Cancelled, InLatest
<1> QED  BY <1>1, <1>2, <1>3, <1>4, <1>5

LEMMA LifeNext == LifeTable'
BY LifeIs, PTL

\* AddTask and AddPriorityTask.
LEMMA EnqueueStep ==
    ASSUME LifeInv, PoolInv', NEW t \in Task, NEW q \in Seq(Task), Distinct(q),
           Fresh(t), Enqueue(q), {q[i] : i \in DOMAIN q} = Queued \cup {t}
    PROVE  LifeInv' /\ AbstractStep
<1> USE DEF LifeInv, Enqueue
<1>1. \A w \in Worker : worker'[w].task = worker[w].task
  BY SignalWakes DEF PoolInv, StopInv, Sleeping, Busy, At
<1>2. Queued' = Queued \cup {t}  BY DEF Queued
<1>3. LifeInv'
  BY <1>1, <1>2 DEF QueueOnce, Fresh, RunOnce, TimersOnce
<1>4. \A j \in Job \ {t} : Same(j)  BY <1>1, <1>2 DEF Same, Running, Cancelled, InLatest
<1>5. t \in Job /\ t \notin Timer  BY Jobs
<1>6. ~InLatest(t)  BY <1>5 DEF InLatest, PoolInv, PoolTypeOK, BGItem
<1>7. ~Running(t) /\ t \notin begun  BY Jobs DEF Running, RunOnce, Fresh, PoolInv
<1>8. ~Running(t)' /\ t \notin begun'  BY <1>1, <1>7 DEF Running
<1>9. ~Cancelled(t) /\ ~Cancelled(t)'  BY <1>5 DEF Cancelled
<1>10. t \notin Queued /\ t \in Queued'  BY <1>2 DEF Fresh
<1>11. Life(t) = "new"  BY <1>5, <1>6, <1>7, <1>9, <1>10, LifeIs DEF LifeTable
<1>12. Life(t)' = "waiting"  BY <1>5, <1>8, <1>9, <1>10, LifeNext DEF LifeTable
<1>13. TL!Becomes(t, "new", "waiting")  BY <1>4, <1>5, <1>11, <1>12, Advance
<1> QED  BY <1>3, <1>5, <1>13 DEF AbstractStep, TL!TLNext, TL!TakeIn, Job

LEMMA DelayStep ==
    ASSUME LifeInv, PoolInv', NEW d \in Delay, DelayTask(d)
    PROVE  LifeInv' /\ AbstractStep
<1> USE DEF LifeInv
<1>0. PICK k : k = lastTaskId + 1  OBVIOUS
<1>1. \A w \in Worker : worker'[w].task = worker[w].task
  BY SignalWakes DEF PoolInv, StopInv, Sleeping, Busy, At, DelayTask
<1>2. k \in Timer /\ k \in Job /\ lastTaskId' = k /\ k \notin Task /\ lastTaskId \in Nat
  BY <1>0, Jobs, PoolAssumption DEF PoolInv, PoolTypeOK, Timer, DelayTask
<1>3. PICK item : item.id = k /\ latest' = latest \cup {item}
  <2>1. [id |-> lastTaskId', exe |-> now + d].id = k  BY <1>2
  <2> QED  BY <2>1 DEF DelayTask
<1>4. \A i \in Timer : i <= lastTaskId => i < k /\ i # k /\ i <= k  BY <1>0, <1>2, Jobs
<1>5. \A a \in latest : a.id \in Timer  BY DEF PoolInv, PoolTypeOK, BGItem
<1>6. k \notin begun /\ answer[k] = "none" /\ \A a \in latest : a.id # k
  BY <1>2, <1>4, <1>5 DEF TimersOnce
<1>7. Queued' = Queued /\ begun' = begun /\ answer' = answer /\ queue' = queue
  BY DEF Queued, DelayTask
<1>8. TimersOnce'
  <2>1. (\A a, b \in latest : a.id = b.id => a = b)'  BY <1>3, <1>6 DEF TimersOnce
  <2>2. (\A a \in latest : a.id \notin begun /\ answer[a.id] # "true" /\ a.id <= lastTaskId)'
    BY <1>2, <1>3, <1>4, <1>5, <1>6, <1>7, Jobs DEF TimersOnce
  <2>3. (\A i \in begun \cap Timer : i <= lastTaskId)'
    BY <1>2, <1>4, <1>7 DEF TimersOnce
  <2>4. (\A i \in Timer : answer[i] # "none" => i <= lastTaskId)'
    BY <1>2, <1>4, <1>7 DEF TimersOnce
  <2> QED  BY <2>1, <2>2, <2>3, <2>4 DEF TimersOnce
<1>9. LifeInv'
  <2>1. QueueOnce'  BY <1>7 DEF QueueOnce
  <2>2. RunOnce'  BY <1>1, <1>7 DEF RunOnce
  <2> QED  BY <1>8, <2>1, <2>2
<1>10. \A j \in Job \ {k} : Same(j)
  BY <1>1, <1>3, <1>7 DEF Same, Running, Cancelled, InLatest
<1>11. k \notin Queued  BY <1>2 DEF PoolInv, PoolTypeOK, Queued
<1>12. ~Running(k)  BY <1>2, <1>6, Jobs DEF Running, RunOnce
<1>13. ~Running(k)' /\ k \notin begun'  BY <1>1, <1>6, <1>7, <1>12 DEF Running
<1>14. ~Cancelled(k) /\ ~Cancelled(k)'  BY <1>6, <1>7 DEF Cancelled
<1>15. ~InLatest(k) /\ InLatest(k)'  BY <1>3, <1>6 DEF InLatest
<1>16. Life(k) = "new"  BY <1>2, <1>6, <1>11, <1>12, <1>14, <1>15, LifeIs DEF LifeTable
<1>17. Life(k)' = "waiting"  BY <1>2, <1>13, <1>14, <1>15, LifeNext DEF LifeTable
<1>18. TL!Becomes(k, "new", "waiting")  BY <1>2, <1>10, <1>16, <1>17, Advance
<1> QED  BY <1>2, <1>9, <1>18 DEF AbstractStep, TL!TLNext, TL!TakeIn, Job

LEMMA CancelStep ==
    ASSUME LifeInv, PoolInv', NEW k \in Timer, CancelTask(k)
    PROVE  LifeInv' /\ AbstractStep
<1> USE DEF LifeInv
<1>1. /\ UNCHANGED <<queue, worker, begun, lastTaskId>>
      /\ latest' = {item \in latest : item.id # k} /\ k <= lastTaskId
  BY DEF CancelTask
<1>2. /\ \A i \in Timer \ {k} : answer'[i] = answer[i]
      /\ answer'[k] = "true" <=> answer[k] = "true" \/ latest' # latest
      /\ answer[k] = "true" => answer'[k] = "true"
  BY DEF CancelTask, PoolInv, PoolTypeOK
<1>3. latest' # latest <=> InLatest(k)  BY <1>1 DEF InLatest
<1>4. k \in Job /\ k \notin Task  BY Jobs
<1>5. LifeInv'
  <2>1. TimersOnce'
    <3>1. (\A a, b \in latest : a.id = b.id => a = b)'  BY <1>1 DEF TimersOnce
    <3>2. \A a \in latest : a.id \in Timer  BY DEF PoolInv, PoolTypeOK, BGItem
    <3>3. (\A a \in latest : a.id \notin begun /\ answer[a.id] # "true" /\ a.id <= lastTaskId)'
      BY <1>1, <1>2, <3>2 DEF TimersOnce
    <3>4. (\A i \in begun \cap Timer : i <= lastTaskId)'  BY <1>1 DEF TimersOnce
    <3>5. (\A i \in Timer : answer[i] # "none" => i <= lastTaskId)'
      BY <1>1, <1>2 DEF TimersOnce
    <3> QED  BY <3>1, <3>3, <3>4, <3>5 DEF TimersOnce
  <2>2. QueueOnce' /\ RunOnce'  BY <1>1 DEF QueueOnce, Queued, RunOnce
  <2> QED  BY <2>1, <2>2
<1>6. \A j \in Job \ {k} : Same(j)
  BY <1>1, <1>2 DEF Same, Running, Cancelled, InLatest, Queued
<1>7. CASE InLatest(k)
  <2>1. k \notin begun /\ ~Cancelled(k)  BY <1>7 DEF InLatest, Cancelled, TimersOnce
  <2>2. ~Running(k)  BY <2>1, <1>4, Jobs DEF Running, RunOnce
  <2>3. k \notin begun' /\ ~Running(k)' /\ Cancelled(k)'
    BY <1>1, <1>2, <1>3, <1>7, <2>1, <2>2 DEF Running, Cancelled
  <2>4. Life(k) = "waiting"  BY <1>4, <1>7, <2>1, <2>2, LifeIs DEF LifeTable
  <2>5. Life(k)' = "cancelled"  BY <1>4, <2>3, LifeNext DEF LifeTable
  <2>6. TL!Becomes(k, "waiting", "cancelled")  BY <1>4, <1>6, <2>4, <2>5, Advance
  <2> QED  BY <1>4, <1>5, <2>6 DEF AbstractStep, TL!TLNext, TL!Cancel, Job
<1>8. CASE ~InLatest(k)
  <2>1. latest' = latest /\ (answer'[k] = "true" <=> answer[k] = "true")
    BY <1>2, <1>3, <1>8
  <2>2. Same(k)
    BY <1>1, <2>1 DEF Same, Running, Cancelled, InLatest, Queued
  <2> QED  BY <1>5, <1>6, <2>2, Stays DEF AbstractStep
<1> QED  BY <1>7, <1>8

\* A thread begins k: it had no task, and no thread runs k.
LEMMA BeginRuns ==
    ASSUME LifeInv, NEW w \in Worker, worker[w].pc = "ready", NEW k \in Job, k \notin begun,
           NEW st, st.task = k, worker' = [worker EXCEPT ![w] = st],
           begun' = begun \cup {k}
    PROVE  /\ RunOnce' /\ ~Running(k) /\ Running(k)'
           /\ \A j \in Job \ {k} : Running(j)' <=> Running(j)
<1> USE DEF LifeInv, PoolInv
<1>1. worker'[w] = st /\ \A v \in Worker \ {w} : worker'[v] = worker[v]
  BY DEF PoolTypeOK
<1>2. worker[w].task = Nil  BY DEF StopInv, Busy
<1>3. k # Nil /\ Nil \notin Job  BY Jobs
<1>4. \A v \in Worker : worker[v].task # k  BY <1>3 DEF RunOnce
<1>5. RunOnce'  BY <1>1, <1>3, <1>4 DEF RunOnce
<1>6. ~Running(k) /\ Running(k)'  BY <1>1, <1>4 DEF Running
<1>7. \A j \in Job \ {k} : Running(j)' <=> Running(j)  BY <1>1, <1>2, <1>3 DEF Running
<1> QED  BY <1>5, <1>6, <1>7

LEMMA BeginTaskStep ==
    ASSUME LifeInv, PoolInv', NEW w \in Worker, BeginTask(w)
    PROVE  LifeInv' /\ AbstractStep
<1> USE DEF LifeInv
<1>1. PICK k : k = Head(queue)  OBVIOUS
<1>2. /\ queue \in Seq(Task) /\ queue # << >> /\ queue' = Tail(queue)
      /\ UNCHANGED <<latest, lastTaskId, answer>> /\ begun' = begun \cup {k}
  BY <1>1 DEF BeginTask, PoolInv, PoolTypeOK
<1>3. PICK st : st.task = k /\ worker' = [worker EXCEPT ![w] = st]
  <2>1. [At("task") EXCEPT !.task = Head(queue)].task = k  BY <1>1 DEF At
  <2> QED  BY <2>1 DEF BeginTask
<1>4. k \in Task /\ Queued = Queued' \cup {k}  BY <1>1, <1>2, QueuedTail DEF Queued
<1>5. Distinct(queue') /\ k \notin Queued'
  BY <1>1, <1>2, DistinctTail DEF QueueOnce, Queued
<1>6. k \in Job /\ k \notin Timer /\ k \notin begun  BY <1>4, Jobs DEF QueueOnce
<1>7. /\ RunOnce' /\ ~Running(k) /\ Running(k)'
      /\ \A j \in Job \ {k} : Running(j)' <=> Running(j)
  BY <1>2, <1>3, <1>6, BeginRuns DEF BeginTask
<1>8. LifeInv'
  <2>1. QueueOnce'  BY <1>2, <1>4, <1>5 DEF QueueOnce
  <2>2. TimersOnce'
    <3>1. \A a \in latest : a.id \in Timer  BY DEF PoolInv, PoolTypeOK, BGItem
    <3> QED  BY <1>2, <1>6, <3>1 DEF TimersOnce
  <2> QED  BY <1>7, <2>1, <2>2
<1>9. \A j \in Job \ {k} : Same(j)  BY <1>2, <1>4, <1>7 DEF Same, Cancelled, InLatest
<1>10. Life(k) = "waiting"
  BY <1>4, <1>6, <1>7, LifeIs DEF LifeTable, Cancelled
<1>11. Life(k)' = "running"  BY <1>6, <1>7, LifeNext DEF LifeTable
<1>12. TL!Becomes(k, "waiting", "running")  BY <1>6, <1>9, <1>10, <1>11, Advance
<1> QED  BY <1>6, <1>8, <1>12 DEF AbstractStep, TL!TLNext, TL!Begin, Job

LEMMA BeginTimerStep ==
    ASSUME LifeInv, PoolInv', NEW w \in Worker, BeginTimer(w)
    PROVE  LifeInv' /\ AbstractStep
<1> USE DEF LifeInv
<1>1. PICK item \in timeQueue :
        /\ item \in latest /\ latest' = latest \ {item}
        /\ begun' = begun \cup {item.id}
        /\ worker' = [worker EXCEPT ![w] = [At("timer") EXCEPT !.task = item.id]]
  BY DEF BeginTimer, IsLatest
<1>2. PICK k : k = item.id  OBVIOUS
<1>3. k \in Timer /\ k \in Job /\ k \notin Task /\ \A a \in latest : a.id \in Timer
  BY <1>1, <1>2, Jobs DEF PoolInv, PoolTypeOK, BGItem
<1>4. k \notin begun /\ ~Cancelled(k) /\ k <= lastTaskId
  BY <1>1, <1>2 DEF TimersOnce, Cancelled
<1>5. InLatest(k) /\ ~InLatest(k)' /\ \A j \in Job \ {k} : InLatest(j)' <=> InLatest(j)
  BY <1>1, <1>2 DEF InLatest, TimersOnce
<1>6. UNCHANGED <<queue, lastTaskId, answer>> /\ begun' = begun \cup {k}
  BY <1>1, <1>2 DEF BeginTimer
<1>7. PICK st : st.task = k /\ worker' = [worker EXCEPT ![w] = st]
  <2>1. [At("timer") EXCEPT !.task = item.id].task = k  BY <1>2 DEF At
  <2> QED  BY <1>1, <2>1
<1>8. /\ RunOnce' /\ ~Running(k) /\ Running(k)'
      /\ \A j \in Job \ {k} : Running(j)' <=> Running(j)
  BY <1>3, <1>4, <1>6, <1>7, BeginRuns DEF BeginTimer
<1>9. LifeInv'
  <2>1. QueueOnce'
    <3>1. Queued \subseteq Task  BY DEF PoolInv, PoolTypeOK, Queued
    <3> QED  BY <1>3, <1>6, <3>1 DEF QueueOnce, Queued
  <2>2. \A a \in latest' : a \in latest /\ a.id # k  BY <1>1, <1>2 DEF TimersOnce
  <2>3. TimersOnce'  BY <1>4, <1>6, <2>2 DEF TimersOnce
  <2> QED  BY <1>8, <2>1, <2>3
<1>10. \A j \in Job \ {k} : Same(j)
  BY <1>5, <1>6, <1>8 DEF Same, Cancelled, Queued
<1>11. Life(k) = "waiting"  BY <1>3, <1>4, <1>5, <1>8, LifeIs DEF LifeTable
<1>12. Life(k)' = "running"  BY <1>3, <1>8, LifeNext DEF LifeTable
<1>13. TL!Becomes(k, "waiting", "running")  BY <1>3, <1>10, <1>11, <1>12, Advance
<1> QED  BY <1>3, <1>9, <1>13 DEF AbstractStep, TL!TLNext, TL!Begin, Job

\* EndTask and EndTimer; a thread always has the task it runs.
LEMMA EndStep ==
    ASSUME LifeInv, PoolInv', NEW w \in Worker, EndTask(w) \/ EndTimer(w)
    PROVE  LifeInv' /\ AbstractStep
<1> USE DEF LifeInv
<1>1. PICK k : k = worker[w].task  OBVIOUS
<1>2. /\ worker' = [worker EXCEPT ![w] = At("ready")]
      /\ UNCHANGED <<queue, latest, lastTaskId, begun, answer>>
  BY DEF EndTask, EndTimer, queues
<1>3. /\ worker'[w].task = Nil
      /\ \A v \in Worker \ {w} : worker'[v] = worker[v]
  BY <1>2 DEF PoolInv, PoolTypeOK, At
<1>4. CASE k = Nil
  <2>1. \A v \in Worker : worker'[v].task = worker[v].task  BY <1>1, <1>3, <1>4
  <2> QED  BY <1>2, <2>1, RestStep
<1>5. CASE k # Nil
  <2>1. k \in Job /\ k \in begun
    BY <1>1, <1>5 DEF RunOnce, PoolInv, PoolTypeOK, Job
  <2>2. Running(k)  BY <1>1 DEF Running
  <2>3. ~Running(k)'  BY <1>1, <1>3, <1>5 DEF Running, RunOnce
  <2>4. \A j \in Job \ {k} : Running(j)' <=> Running(j)
    BY <1>1, <1>3, Jobs DEF Running
  <2>5. LifeInv'
    <3>1. QueueOnce' /\ TimersOnce'  BY <1>2 DEF QueueOnce, Queued, TimersOnce
    <3>2. RunOnce'  BY <1>2, <1>3 DEF RunOnce
    <3> QED  BY <3>1, <3>2
  <2>6. \A j \in Job \ {k} : Same(j)
    BY <1>2, <2>4 DEF Same, Cancelled, InLatest, Queued
  <2>7. Life(k) = "running"  BY <2>1, <2>2, LifeIs DEF LifeTable
  <2>8. Life(k)' = "done"  BY <1>2, <2>1, <2>3, LifeNext DEF LifeTable
  <2>9. TL!Becomes(k, "running", "done")  BY <2>1, <2>6, <2>7, <2>8, Advance
  <2> QED  BY <2>1, <2>5, <2>9 DEF AbstractStep, TL!TLNext, TL!End, Job
<1> QED  BY <1>4, <1>5

-----------------------------------------------------------------------------
\* Threads that sleep, wake or leave, a dropped timer, Stop, Start and the clock.
LEMMA IdleSteps ==
    ASSUME LifeInv, PoolInv',
           \/ \E w \in Worker : \/ Leave(w) \/ Wait(w) \/ TimeWait(w) \/ DropTimer(w)
                                \/ TimeOut(w) \/ SpuriousWake(w)
           \/ StopWait \/ StopSet \/ StopReturn \/ Start \/ Tick
           \/ UNCHANGED vars
    PROVE  LifeInv' /\ AbstractStep
<1> USE DEF queues
<1>1. UNCHANGED <<queue, latest, lastTaskId, begun, answer>>
  BY DEF Leave, Wait, TimeWait, DropTimer, TimeOut, SpuriousWake, StopWait, StopSet,
         StopReturn, Start, Tick, vars
<1>2. \A v \in Worker : ~Busy(v) => worker[v].task = Nil
  BY DEF LifeInv, PoolInv, StopInv
<1>3. \A pc \in {"ready", "wait", "gone"} : At(pc).task = Nil  BY DEF At
<1>4. ASSUME NEW w \in Worker, NEW st, st.task = Nil, ~Busy(w),
             worker' = [worker EXCEPT ![w] = st]
      PROVE  \A v \in Worker : worker'[v].task = worker[v].task
  BY <1>2, <1>4 DEF LifeInv, PoolInv, PoolTypeOK
<1>5. ASSUME NEW w \in Worker, Leave(w) \/ Wait(w) \/ TimeOut(w) \/ SpuriousWake(w)
      PROVE  \A v \in Worker : worker'[v].task = worker[v].task
  BY <1>3, <1>4, <1>5 DEF Leave, Wait, TimeOut, SpuriousWake, Busy, Sleeping
<1>6. ASSUME NEW w \in Worker, TimeWait(w)
      PROVE  \A v \in Worker : worker'[v].task = worker[v].task
  <2>1. PICK item : worker' = [worker EXCEPT ![w] = [At("timewait") EXCEPT !.until = item.exe]]
    BY <1>6 DEF TimeWait
  <2>2. [At("timewait") EXCEPT !.until = item.exe].task = Nil  BY DEF At
  <2> QED  BY <1>4, <1>6, <2>1, <2>2 DEF TimeWait, Busy
<1>7. ASSUME StopSet
      PROVE  \A v \in Worker : worker'[v].task = worker[v].task
  BY <1>2, <1>3, <1>7 DEF StopSet, Broadcast, Sleeping, Busy
<1>8. ASSUME Start
      PROVE  \A v \in Worker : worker'[v].task = worker[v].task
  BY <1>2, <1>3, <1>8 DEF Start, LifeInv, PoolInv, StopInv, Busy
<1>9. ASSUME (\E w \in Worker : DropTimer(w)) \/ StopWait \/ StopReturn \/ Tick
             \/ UNCHANGED vars
      PROVE  \A v \in Worker : worker'[v].task = worker[v].task
  BY <1>9 DEF DropTimer, StopWait, StopReturn, Tick, vars
<1>10. \A v \in Worker : worker'[v].task = worker[v].task
  BY <1>5, <1>6, <1>7, <1>8, <1>9
<1> QED  BY <1>1, <1>10, RestStep

LEMMA LifeStep == ASSUME LifeInv, [Next]_vars PROVE LifeInv' /\ AbstractStep
<1>1. PoolInv'  BY PoolNext DEF LifeInv
<1>2. queue \in Seq(Task) /\ Distinct(queue)
  BY DEF LifeInv, PoolInv, PoolTypeOK, QueueOnce
<1>3. ASSUME NEW t \in Task, AddTask(t) \/ AddPriorityTask(t)
      PROVE  LifeInv' /\ AbstractStep
  <2>1. \A i \in DOMAIN queue : queue[i] # t
    BY <1>3 DEF AddTask, AddPriorityTask, Fresh, Queued
  <2>2. CASE AddTask(t)
    <3>1. Append(queue, t) \in Seq(Task) /\ Distinct(Append(queue, t))
      BY <1>2, <2>1, DistinctAppend
    <3>2. {Append(queue, t)[i] : i \in DOMAIN Append(queue, t)} = Queued \cup {t}
      BY <1>2, QueuedAppend DEF Queued
    <3> QED  BY <1>1, <2>2, <3>1, <3>2, EnqueueStep DEF AddTask
  <2>3. CASE AddPriorityTask(t)
    <3>1. <<t>> \o queue \in Seq(Task) /\ Distinct(<<t>> \o queue)
      BY <1>2, <2>1, DistinctFront
    <3>2. {(<<t>> \o queue)[i] : i \in DOMAIN (<<t>> \o queue)} = Queued \cup {t}
      BY <1>2, QueuedFront DEF Queued
    <3> QED  BY <1>1, <2>3, <3>1, <3>2, EnqueueStep DEF AddPriorityTask
  <2> QED  BY <1>3, <2>2, <2>3
<1>4. ASSUME NEW w \in Worker, BeginTimer(w) \/ BeginTask(w) \/ EndTask(w) \/ EndTimer(w)
      PROVE  LifeInv' /\ AbstractStep
  BY <1>1, <1>4, BeginTimerStep, BeginTaskStep, EndStep
<1> QED
  BY <1>1, <1>3, <1>4, DelayStep, CancelStep, IdleSteps DEF Next, CallerNext, ThreadProc

\* Every behaviour of the pool is one TaskLife allows: each task is begun at
\* most once, by one thread, never after CancelTask said it cancelled it, and
\* none is lost, whichever threads AddTask, DelayTask and Stop wake.
THEOREM PoolImplementsTaskLife == Spec => RefinesTaskLife
<1>1. Init => LifeInv /\ TL!TLInit
  <2> SUFFICES ASSUME Init PROVE LifeInv /\ TL!TLInit
    OBVIOUS
  <2>1. PoolInv  BY PoolInit
  <2>2. \A w \in Worker : worker[w].task = Nil  BY DEF Init, At
  <2>3. LifeInv
    BY <2>1, <2>2 DEF LifeInv, Init, QueueOnce, Distinct, Queued, RunOnce, TimersOnce
  <2>4. \A j \in Job : Life(j) = "new"
    <3> TAKE j \in Job
    <3>1. ~Running(j)  BY <2>2, Jobs DEF Running
    <3>2. j \notin begun /\ ~Cancelled(j) /\ j \notin Queued /\ ~InLatest(j)
      BY DEF Init, Cancelled, Queued, InLatest
    <3> QED  BY <3>1, <3>2, LifeIs DEF LifeTable
  <2> HIDE DEF Life
  <2>5. TL!TLInit  BY <2>4 DEF TL!TLInit, Job
  <2> QED  BY <2>3, <2>5
<1>2. LifeInv /\ [Next]_vars
        => LifeInv' /\ [TL!TLNext]_[j \in Task \cup Timer |-> Life(j)]
  BY LifeStep DEF AbstractStep
<1> QED  BY <1>1, <1>2, PTL DEF Spec, RefinesTaskLife, TL!TLSpec
=============================================================================

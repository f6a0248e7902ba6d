# AirDB in TLA+

AirDB is a small replicated key-value store: some members run `AirDBImpl`
(`src/src/airdb_impl.cc`), which elects a leader, replicates a binlog in the
manner of Raft, applies committed entries to a LevelDB database, and answers
Put, Get, Delete, Lock and UnLock calls. This directory holds TLA+ modules of
that program, TLC configurations that check them on small instances, and
theorems that TLAPS proves for every instance.

## The system

| Component | State | Operations | Modelled in |
|---|---|---|---|
| `BinLogger` (`binlog.cc`) | LevelDB slots, `length_`, `last_log_term_` | WriteEntry, WriteEntryList, Truncate, ReadSlot, RemoveSlotBefore, reopening | `BinLog`, `BinLogThreads`, `Cleaning` |
| Election (`airdb_impl.cc` 183–339) | `status_`, `current_term_`, `vote_for_`, `vote_pass_`, `headbeat_cnt_` | VoteLeader (timer), Vote (service), VoteCallBack, SwitchToLeader, StartReplicaLog | `Election` |
| Replication (341–671) | `next_index_`, `match_index_`, `replicating_`, `commit_index_` | ReplicateLog (one thread per follower), UpdateCommitIndex, BroadCastHeartBeat, HeartBeatCallBack, AppendEntries(Impl) | `Replication` |
| Clients and apply loop (92–161, 673–858) | `sdk_ack_`, `last_applied_index_`, `data_store_` | Put, Delete, Lock, UnLock, CommitIndex (thread) | `Apply` |
| Restart (39–78) | what the databases keep | constructor | `AirDB!Crash` |
| Get (698–755) | none of its own | read a key of the leader's database | `Sdk` |
| Binlog collection (640–655, 860–946) | `last_safe_clean_index_`, the slots dropped | GarbageClean (timer), ShowStatus, CleanBinlog, DelBinlog (task) | `Cleaning` |
| `StorageKV` | a LevelDB database | Put, Get, Delete | `Apply` (`store`, and the applied tag) |
| `RpcClient` | channel cache | SendRequest (timeout, retry), AsyncRequest | the calls in flight |
| `ThreadPool`, `CondVar` | `queue_`, `time_queue_`, `latest_`, `stop_`, running task | AddTask, AddPriorityTask, DelayTask, CancelTask, Stop, Start, ThreadProc | `ThreadPool` |
| SDK (`airdb_sdk.cc`) | the list of members | Put, Get, Delete, Lock, UnLock: one member after the other | `Sdk` |
| `Mutex`, `Timer`, `TPrinter`, command line, `main` | — | wrappers, text, start-up | no |

How they interact: clients call the members through the SDK; the members call each
other (Vote, AppendEntries, ShowStatus, CleanBinlog). Inside a
member, the vote timer, the heartbeat timer, one ReplicateLog thread per
follower, the CommitIndex thread and the service threads share everything
through one mutex, `mu_`. Two places matter most because they work *without*
it on what they read under it: ReplicateLog reads the slots and waits up to a
minute for the answer (line 380–417), AppendEntriesImpl writes the entries
(603–606), and CommitIndex reads slots and writes the database (106–129).

What is hard, and what would make each component correct (the runs below say which
of it the code keeps):

- **Election.** Votes, refusals, newer terms and late answers arrive in any
  order. One leader per term; a leader holds the votes of a majority; a vote is
  counted once; terms never go back.
- **Replication.** Threads act on stale indexes after a leadership was lost or
  won again; entries are appended at the end of whatever log is there; commit
  indexes come with heartbeats that carry no log position. No thread reads a
  slot that is not stored; a leader's log only grows; committed entries are on a
  majority and agree between members.
- **Apply and clients.** `sdk_ack_` is keyed by slot alone; applying a slot,
  noting it as applied and answering the client are separate steps. Every member
  applies one sequence, a client hears "ok" only for what was committed and
  applied, and every accepted write is answered.
- **Garbage collection.** The leader reads the applied indexes one member at a time,
  without `mu_`, and tells the members one at a time; leadership may change, members
  restart and calls come late in between. What is removed was applied by everybody,
  and no thread is about to read it.
- **Thread pool.** A signal wakes any one thread, threads sleep until a timer that
  may not be the next one any more, Stop and CancelTask race with the threads. No
  task is lost, run twice, or left to sleeping threads; Stop waits for what it should.
- **Client.** A call given up after two seconds may still be carried out, beside the
  calls that follow. A read sees every write that was answered before it.
- **Restart.** The log, the database and the applied index survive; the term and
  the vote do not. The database is what the applied entries make it; answered
  writes are kept.

`PROJECT.json` lists every hazard found in the code with its line, the
properties that watch it, and a note where nothing does yet.

## The modules

```
BinLog ── Node ──┬─ Election ────┐
                 ├─ Replication ─┼─ AirDB ──┬─ MCAirDB (TLC)
                 └─ Apply ───────┘    │     └─ Cleaning ── MCCleaning (TLC)
                                      ├─ SteadyCluster ─┬─ Sdk ── MCSdk (TLC)
                                      │                 └─ Handover (also in MCAirDB)
                                      └─ AirDBTypeProof ─┬─ AirDBElectionProof ─┐
                                                         └─ AirDBLogProof ──────┴─ SteadyProof ─┬─ CleaningProof (and Cleaning)
                                                                        (and SteadyCluster)     ├─ SdkProof (and Sdk)
                                                                                                └─ HandoverProof (and Handover)
StateMachine (INSTANCE in AirDB)

ThreadPool ──┬─ MCThreadPool (TLC)               TaskLife (INSTANCE in ThreadPool)
             └─ ThreadPoolProof
BinLogThreads ── MCBinLogThreads (TLC)
```

- `BinLog`: one node's binlog as a value (slots, length, last term) and its
  operations as operators. Truncate moves only the length: the entries above it
  stay readable, as in the database. An empty truncation leaves `last_log_term_`
  as it was.
- `Node`: constants, variables, messages and `Init`. **The unit of interleaving
  is one critical section of `mu_`, or the code between two of them.** So
  ReplicateLog is cut into Build (under `mu_`), Send (reads slots without it) and
  Answer or Fail; AppendEntriesImpl into AppendEntries, AppendWrite and
  AppendFinish; CommitIndex into CommitBegin, CommitStore and CommitAck.
- `Election`, `Replication`, `Apply`: one action per handler or thread step; the
  alternatives of a handler are operators of their own (VoteRefused, VoteDecided,
  AppendMismatch, AppendTooFast, ...).
- `AirDB`: composes them, adds restarts, states the properties and the fairness.
  `Spec` has no restarts, `CrashSpec` has them, `FairSpec` adds fairness, and
  `ElectionSpec` is `Spec` without client writes and without the steps of
  ReplicateLog threads (threads that are never scheduled).
- `SteadyCluster`: what the members know of each other as long as at most one election
  was won and no replication call was given up (`Steady`), as one inductive invariant
  (`SteadyInv`): state predicates on `AirDB`, no action of its own.
- `Handover`: what one leader hands over to the next, as long as at most two elections
  were won (`TwoWins`), as one inductive invariant (`HandoverInv`). The two leaders may
  be one node, and the one of the higher term may have won first. No action of its own
  either.
- `StateMachine`: the abstract specification. One sequence of operations is
  chosen and only extended, every node applies it in order, and a client hears
  "ok" for an operation that was chosen and applied. `AirDB` instantiates it as
  `SM`: `chosen` is the longest committed prefix, `done` the applied slots, `db`
  the stores, `answered` the replies.

- `Cleaning`: GarbageClean, ShowStatus, CleanBinlog and DelBinlog on top of `AirDB`:
  its `CleanNext` has every step of `AirDB!Next`. GarbageClean is cut at every call
  it makes, because it holds no mutex while it waits. `removed[s]` is the first slot
  that can still be read on s; LevelDB drops slots at some later compaction, and the
  model does so at once, which is the worst case. `AboutToRead` names every slot that
  a thread of a member will read in its next step.
- `Sdk`: one client of `AirDBSdk` on top of `AirDB`, and the handler Get. `late` are
  the writes that were given up before they arrived. The same call at another member
  is a request of its own (`Attempt`), since both may be carried out.
- `BinLogThreads`: the binlog of one node with the two mutexes, one memory or database
  access per step. It is there to see what `BinLog` and `AirDB` leave out by taking
  WriteEntry and WriteEntryList as one step each.
- `ThreadPool`: the unit is what a thread does between taking and releasing `mutex_`.
  ThreadProc's turn has a disjunct for each way it can end: leave, sleep, sleep until
  the next timer, begin or drop a timer, begin a task. Signal picks any sleeping
  thread, threads may wake for nothing, and TimeWait ends with the clock `now`.
- `TaskLife`: the abstract specification of a pool. A task is new, waiting, running,
  done or cancelled, and moves along those. `ThreadPool` instantiates it as `TL` with
  `life[j] <- Life(j)`, computed from the queues, the threads and the answers of
  CancelTask.

Names follow the source: `status` is `status_`, `heard` is `headbeat_cnt_ > 0`,
`repl` holds for each follower the program counter and the local variables of its
ReplicateLog thread (`replicating_` is the set of those that run), `appending`
the AppendEntriesImpl calls that have released `mu_`, `applier` the CommitIndex
thread. The operators `CommitOnWrite`, `MayVoteTwice` and the like, commented
"Mutant:", are wrong versions of their neighbours; each shows that a property
fails when the code does that.

The network: messages are members of sets and are delivered in any order, or
never. A call that timed out, or whose caller restarted, may still be delivered,
and its answer goes nowhere (`rpc = FALSE`). Two identical messages in flight are
one. Answers that the receiver would ignore are not kept.

Left out of `Node`: `cur_leader_addr_` (copied into replies, never read) and
`stop_` (set by the destructor alone, which nothing runs). Thread start: a task
added to `replica_pool_` is at its loop head at once. `WriteEntryList` is one
step, though it and `WriteEntry` are guarded by different mutexes: what that hides
is in `BinLogThreads`. Values of
keys are identified with the request that wrote them.

## The runs

| Run | Instance | Shows |
|---|---|---|
| `elections` | 3 members, 2 terms, anyone times out, 1 round of heartbeats | `ElectionSafety`, `LeaderHasMajority`, `ElectionInv` (the invariant of the proof), `TermsGrow` |
| `quorum` | 3 members, one leader, 1 Put, 1 round of heartbeats, no failed call | `FollowsLeader`, `CommittedOnMajority`, `SteadyInv` (the invariant of the proof), `RefinesStateMachine` |
| `handover` | 3 members, 2 terms, s1 leads and s3 is elected next, or s1 again, calls get through to s2 alone, 1 UnLock, 1 round of heartbeats | `LeaderComplete`, `HandoverInv` (the invariant of the proof), `NoBadSlot`, `LeaderAppends` |
| `answers` | 2 members, 1 Lock, unbounded heartbeats, 1 replication call times out, fair, deadlock checked | `Answered`, `CaughtUp` |
| `restarts` | 2 members, Put and Delete of one key, 1 restart anywhere, 1 round of heartbeats | `TypeOK`, `StoreIsLog`, `AnsweredKept`, `AppliedStays` |
| `pool` | 2 threads, 2 tasks, 2 timers due at once or one tick later, 2 ticks, 1 new Start, fair | `PoolTypeOK`, `WorkWatched`, `StopDrains`, `RefinesTaskLife`, `EventuallyBegun`, `StopReturns` |
| `clean` | 3 members, s1 leads with 4 entries that s3 has not got, 1 round of heartbeats, 2 rounds of GarbageClean, 1 late call at a time | `RemovedIsApplied`, `RemovedNotNeeded` |
| `client` | 2 members, a Put, a Lock and a Get of one key in any order, the leader is asked last, 1 round of heartbeats | `ReadsLatest`, `SdkInv` (the invariant of the proof) |
| `two_leaders` | 3 members, 1 term, 1 restart | `ElectionSafety` is violated |
| `lock_twice` | 2 members, two Lock calls for one key | `LockExclusive` is violated |
| `diverge` | 3 members, 2 terms, s1 leads and s2 is elected next, calls get through to s1 alone, 1 Put, 1 round of heartbeats | `CommittedAgree` is violated |
| `hole` | 2 threads in WriteEntryList, batches of 1 or 2, 4 slots, 1 restart | `SlotsBelowLength` is violated |

`LeaderComplete` rests on three pieces of code at once: Vote compares the logs,
UpdateCommitIndex wants a majority, and AppendEntriesImpl answers with the term it
has *after* its write, so that a follower which voted for a new leader in between
tells the old one (line 618). With the term of the call in that answer the run finds
an answered write that the new leader lacks.

`RemovedIsApplied` holds whatever fails: it is proved for every instance, with
restarts (below). `RemovedNotNeeded` is about runs without restarts and failed
replication calls: GarbageClean ends the round when a member does not answer, so the
slots a live thread wants are kept; but a replication call that was given up and
comes late may name, as previous slot, one that was removed since, and the follower's
assert (line 571) ends it. `ReadsLatest` is about one leader; after a partition an old
leader answers Get from its own database.

`WorkWatched` is the reason why a pool does not stall: a task in the queue has a thread
that is awake, and a timer has one, or a thread whose sleep ends in time for it. It
holds although Signal may wake a thread that finds nothing. `StopDrains` is about
Stop(true); Stop(false) leaves tasks in the queue, for a later Start.

What the four violations show:

- `two_leaders`: `current_term_` and `vote_for_` live in memory. A member that
  restarts votes again in a term in which it has voted, and two members lead it.
- `lock_twice`: Lock never looks at the key, so a held lock is granted again.
- `diverge`: a follower takes `leader_commit_index` from a heartbeat up to its own
  length (line 611), whatever its entries are; two members commit different
  entries in one slot. The README of the repository says that Raft keeps the
  members consistent.
- `hole`: a follower that is in WriteEntryList (holding `BinLogger::mu_` only) wins an
  election; its Nop entry goes through WriteEntry (holding `AirDBImpl::mu_` only).
  Both use the same slot, `length_` counts it twice, and the last slot below `length_`
  is not in the database: the next Truncate or restart meets `assert(slot_ok)`.

`FollowsLeader` is about runs without failed calls. When a call times out and is
delivered nevertheless, its entries are appended a second time (the truncation at
line 599 is commented out), and the property fails; the hazard list says so.

`AppliedStays` says that an entry which is in a database stays in its slot. It is what
`StoreIsLog` rests on (`StoreFollowsLog` below), and it is not true of every behaviour:
in the instance of `handover` TLC finds a step that breaks it. Both leaders' Nops are
at s2, one behind the other, because their calls were checked before either was
written; the heartbeat of the second leader makes slot 0 committed at s2, which applies
the first leader's Nop; then the second leader's next call does not match, slot 0 is
truncated, and its Nop is written there. It is the disagreement that `diverge` shows,
seen from the databases; so the run that checks `AppliedStays` is `restarts`, with one
leader, and the proofs have it for steady clusters.

### Bounds

Each bound is a constant of the module that uses it. They cut behaviours short and otherwise change
no step.

- `MaxTerm`, and per member `Candidacy`: the terms for which the vote timer fires. Two
  terms are what it takes for a stale leader, a stale vote and a truncation; in
  `diverge` only s1 may time out for term 1 and only s2 after that, which is the order
  in which the old leader becomes a follower; in `handover` it is s1 for term 1, then s1,
  s3 or both for term 2, so that the second election is won by another node, by the same
  node again, or by nobody. Members that compete for every term are in `elections`.
  `clean` and `client` have one term and one candidate.
- `Replica`: the followers to which AppendEntries calls get through. In `diverge` it is
  the old leader, the one whose log is in conflict; in `handover` it is the follower
  that both leaders share, where the second truncates what the first left. To the
  others they are lost, or the threads not scheduled.
- `MaxBeats`: rounds of heartbeats (`Nil` for no bound). A heartbeat is what moves
  the commit index of followers; one round, delivered at any time, does it once
  for each. `answers` needs the repetition and has it: an identical heartbeat still
  in flight adds nothing, so the state space stays finite.
- `MaxFails`, `MaxCrashes`: failed replication calls and restarts. `restarts` has
  no failed calls, so a thread whose callee restarted goes on waiting; the answer
  arriving late, or never, is covered.
- `MaxApplyLag`: 100000 in the code. With 1 the "busy" refusal occurs within a log
  of three entries.
- `Request`: each call is made at most once and meets whichever leader there is.
- `MaxRounds`, `MaxLate`: rounds of GarbageClean, and CleanBinlog calls that were given
  up and may still arrive. Two rounds make the safe index grow, and let a second round
  meet the calls of the first. A slot is removed only in a log of four entries, so
  `clean` starts (`MCCleaning!AgedInit`) in a state that `Init` reaches, with s1 and s2
  at four applied entries and s3 empty, and the rounds race with bringing s3 up to it.
- `SdkCall`: the client makes each call at most once, in any order.
- `MaxTimers`, `MaxTime`, `MaxStarts`, `Task`, `Worker`: two of each sort let a signal
  wake the wrong thread, two timers change places, a task and a timer compete for a
  thread, and `running_task_id_` be overwritten. A third thread adds nothing but more
  of the same; the proofs are for any number.
- `MaxLength`, `MaxStops`, `Batch`: a hole needs three slots.

Symmetry is used where the members that are exchanged are treated alike by the
constants, and in no run with a liveness property.

CHECK_DEADLOCK is FALSE where the bounds stop the system; in `answers`
heartbeats go on for ever and deadlock is checked.

### Fairness

Weak fairness of the threads (scheduling), of the vote and heartbeat timers (each
sets itself again in every path that needs it), and of the delivery of calls and
answers to each member, heartbeats and entries apart. The service is reached over
TCP and ReplicateLog repeats what timed out, so a call that keeps being made gets
through; `MaxFails` calls may still fail. Neither the clients nor the failures nor
the restarts are fair. Delivery of a heartbeat is fair because the timer makes an
equal call every time as long as the leader stays.

In `pool`: the threads are scheduled, tasks end, time passes, and Stop, once called,
goes on (its waiting loop reads `pending_num_` again and again, and pthread_join
returns when the threads have ended). A signal is not fair: which thread wakes is the
worst choice. Whoever calls AddTask, CancelTask, Stop or Start need not do so.
`EventuallyBegun` excuses a pool that is stopped, and timers beyond the end of the
clock. The clock does not step back: the code uses the time of day, and the model
does not follow a change of it.

## The proofs

Assumed are the constants' types and that `Nil` is none of the values, and no more:
`NodeAssumption` (the members are finitely many), `MembersAssumption` (there is one),
`CleaningAssumption` and `PoolAssumption` (there is a thread, and tasks are not numbers, as timers are). Nothing
is assumed of the number of members, requests, keys, threads, tasks or of the bounds.

| Theorem | Says |
|---|---|
| `TypeCorrect` | `CrashSpec => []TypeOK` |
| `SlotsStored` | `CrashSpec => []NoBadSlot` |
| `ElectionInvariant` | `Spec => [](TypeOK /\ NoBadSlot /\ ElectionInv)` |
| `LeadersElected` | `Spec => []LeaderHasMajority` |
| `OneLeaderPerTerm` | `Spec => []ElectionSafety` |
| `TermsNeverBack` | `Spec => TermsGrow` |
| `LeadersAppend` | `Spec => LeaderAppends` |
| `StoreFollowsLog` | `CrashSpec /\ AppliedStays => []StoreIsLog` |
| `SteadyInvariant` | `Spec => [](TypeOK /\ NoBadSlot /\ ElectionInv /\ SteadyInv)` |
| `SteadyFollowsLeader` | `Spec => [](Steady => FollowsLeader)` |
| `SteadyCommittedAgree` | `Spec => [](Steady => CommittedAgree)` |
| `SteadyCommittedOnMajority` | at most 3 members: `Spec => [](Steady => CommittedOnMajority)` |
| `SteadyAnsweredKept` | `Spec => [](Steady => AnsweredKept)` |
| `SteadyStoreIsLog` | `Spec => [](Steady => StoreIsLog)` |
| `SteadyAppliedStays` | `Spec /\ []Steady => AppliedStays` |
| `SteadyRefinesStateMachine` | `Spec /\ []Steady => RefinesStateMachine` |
| `OneTermSteady` | one term, no call given up: `Spec => []Steady` |
| `OneTermRefines`, `OneTermCorrect` | hence the five properties above and the refinement, of `Spec` |
| `SteadyCleaning` | `CleanSpec => [](Steady => RemovedNotNeeded)` |
| `OneTermCleaning` | one term, no call given up: `CleanSpec => []RemovedNotNeeded` |
| `SdkImplements` | `SdkSpec => Spec /\ [](SdkTypeOK /\ CallsInv)` |
| `SteadyReadsLatest` | `SdkSpec => [](Steady => ReadsLatest)` |
| `SdkInvariant` | `SdkSpec => []SdkInv` |
| `OneTermReadsLatest` | one term, no call given up: `SdkSpec => []ReadsLatest` |
| `HandoverInvariant` | `Spec => []HandoverInv` |
| `HandoverComplete` | `Spec => [](TwoWins => LeaderComplete)` |
| `TwoTermsComplete` | two terms, no call given up: `Spec => []LeaderComplete` |
| `CleaningImplements` | `CleanCrashSpec => CrashSpec` |
| `CleaningInvariant` | `CleanCrashSpec => [](TypeOK /\ NoBadSlot /\ CleanIInv)` |
| `OnlyAppliedRemoved` | `CleanCrashSpec => []RemovedIsApplied` |
| `PoolTypes` | `Spec => []PoolTypeOK` (of `ThreadPool`) |
| `NoLostWakeUp` | `Spec => []WorkWatched` |
| `StopWaitsForTasks` | `Spec => []StopDrains` |
| `PoolImplementsTaskLife` | `Spec => RefinesTaskLife` |

- `AirDBTypeProof` begins with lemmas about the operators of `BinLog`: each keeps the
  type of a binlog, none makes the set of stored slots smaller, and what a write leaves
  as length and last term. The proofs after it cite them. `TypeOK` alone is not inductive. A thread reads a slot it
  decided on earlier, and the entry it finds is an entry only if the slot is
  stored; so `TypeOK` and `NoBadSlot` are proved together. `NoBadSlot` holds
  because Truncate only moves the length: stored slots are never fewer, and every
  commit index, range being applied and call under way was within them when it
  was read. The theorem includes restarts, which keep the database.
- `AirDBElectionProof`: counting votes with a number is sound only if no vote is
  counted twice. `ElectionInv` says why: nothing of a term exists before its
  candidate reached it (`TermsInv`); a candidate asks a member once per term, and a
  vote under way was given and has no call beside it (`VoteCallsInv`); hence the
  votes counted are at most the voters whose vote is not under way (`VotesInv`), and
  a leader has counted enough (`LeaderInv`). So a leader's voters are a majority
  (`LeadersElected`), and two majorities of one term meet in a member, which voted
  once (`OneLeaderPerTerm`). With restarts this is false: see `two_leaders`.
- `AirDBLogProof`: a node truncates only in a step that makes it a follower, an
  election writes only to the log of a candidate, and every other write goes to the
  end, where it leaves the entries below the length alone. So no invariant beyond the
  types is needed for `LeadersAppend`.

  `StoreFollowsLog` says what a restart can and cannot do. CommitIndex writes the
  database, then `last_applied_index`, so after a restart one entry may be applied
  twice; the invariant (`StoreInv`) follows the apply loop and says which of the two
  numbers the database stands at. Applying an entry twice changes nothing
  (`TwiceNoHarm`), and nothing but an applied slot with another entry can part a
  database from its log: that is the hypothesis `AppliedStays`. The database after n
  entries, `DbAfter`, is a recursive function. What is proved of it for every n is
  proved by a least counterexample (`LeastOf`, from `WFMin` and
  `StrictSubsetOrdering`, which take no operator as parameter): that it is there
  (`DbsExist`), that two lists that agree give one database (`DbSame`), and its type.
- `SteadyProof`: a cluster is *steady* as long as one election at most was won so far and
  no replication call was given up; members may time out, ask for votes and lose, the
  leader may step down when it hears of a newer term, messages may take any order or
  never arrive. Restarts are left out (`two_leaders`), and so is what the code does not
  keep: appended twice after a call that was given up (line 599), commit indexes taken
  over by a member with another leader's entries (line 611).

  `FollowsLeader` alone is not inductive, for a call that is under way may append
  anything. `SteadyInv` ties together what is in three places: the thread of the
  leader for f (`ThreadKnows`: at most one call, with the entries from
  `next_index_[f]` on), that call on its way, at work at f, or its answer
  (`CallUnderWay`), and the log of f, which has or has not got the entries accordingly.
  Around that stand who may call whom (`CallsOfLeader`), that no member's commit or
  applied index passes the leader's commit index or its own log (`CommitsOfLeader`),
  that the committed slots are on a majority (`CommitOnMajority`), and what the
  leader's log holds of the clients' calls (`RequestsOfLeader`); before the first
  leader there is nothing (`NothingYet`), and `CandidateInv` keeps an election that has
  been won from being won again. `StepLead` has one lemma per action.

  The refinement maps `chosen` to the longest committed prefix, which is the leader's.
  A step in which the leader's commit index grows chooses, CommitStore applies, CommitAck
  answers, and every other step is a stutter.

  `CommittedOnMajority` of slot 0 fails with four members: `match_index_` of the leader
  itself is 0, so slot 0 counts the leader twice. That slot holds the leader's Nop, so
  `AnsweredKept` does not depend on it and is proved for any number.

  With one term to elect in, two winners would share a voter, and with `MaxFails = 0`
  no call is given up: `OneTermSteady`. So everything above holds, without a
  hypothesis on the behaviour, of the instances of `quorum`, `client` and `clean` with any
  number of members and calls. What `Steady` excludes
  is where the code fails: `diverge` needs a second election, and the double append a
  call that was given up.

- `HandoverProof`: `LeaderComplete` is about a second leader, and the difficulty is what
  happens *around* the second election: the older leader goes on as long as it has not
  heard of the newer one, calls and answers of both are under way, and logs hold entries
  of two leaders in one slot or one behind the other. Nothing is said of those logs
  but what `LeaderComplete` needs. `HandoverInv` has three phases.

  *Before a leader* there is nothing (`BeforeLeaders`).

  *Under the first leader* the cluster is steady, and `LeadMore` adds to `SteadyInv`
  what prepares an election: a commit counted a majority (`CommitConfirmed`), no log has
  entries of a term its node has not reached (`TermsOfLogs`), and, for each voter of a
  candidate of a later term, the candidate has every slot that this voter has confirmed
  to the leader or is confirming in an answer on its way (`VotersHeld`). It is kept
  because Vote compares the logs, and because a voter confirms no more after its vote:
  AppendFinish answers with the term it has after its write, and the leader does not
  count an answer of a newer term (`Confirmed`). This is where `FinishTermOfCall`, the
  mutant, breaks the proof.

  *After the second election* (`HandedOver`): if one node won twice, every call ever made
  is its own, and its log has all (`SameLeader`). Otherwise (`TwoLeaders`) the newer
  leader has what was answered before it and answers calls of its own only
  (`NewLeader`); and as long as the older one leads, a majority has gone over to the newer
  term, each member of which confirms nothing more that the newer leader lacks. Any
  majority that the older leader counts meets that one, so it cannot commit, or answer,
  more than the newer has (`OldLeader`). The step from the second phase to this one is
  `SecondWinStep`: the voters of the winner and the members counted by the commit index
  meet. `Written`, the set of the entries there are anywhere, stands for the logs that
  the invariant does not follow.

  With two terms to elect in, a term has one winner at most (`OneWinner`), and term 0
  none: `TwoTermsComplete`. So `LeaderComplete` holds of the instance of `handover` with
  any number of members and requests, whoever may time out, and whichever calls arrive.

- `CleaningProof`: a removal goes back to a minimum taken some time ago, so
  `RemovedIsApplied` needs what lies between: the minimum so far is at most what each
  member asked has applied *by now*, and so are the indexes of the calls and tasks that
  come of it (`CleanInv`). It is kept because an applied index never goes back, for
  which the restart needs the types and stored slots of `AirDBTypeProof`
  (`CleaningImplements` brings its theorems over). `SteadyCleaning` adds what a steady
  cluster knows: a thread of the leader never goes back below the log of its follower,
  which is more than that follower has applied, and what was removed everybody had
  applied, with a slot to spare.
- `SdkProof`: a client's steps are steps of `Spec` (`SdkImplements`), because a write
  arrives at a member either while its call is under way or late. Why a Get reads what
  is latest takes three orders. *Calls and slots* (`Ordered`): a call's requests are
  taken after it begins, at the end of the leader's log, so above every write that was
  taken before. *Answers and the database* (`AnsweredApplied`): the winner answers what
  it has just applied, and an applied slot stays. *Slots and the database*
  (`LastEntry`): the value at a key is that of the last applied slot with a request of
  that key, by a least counterexample as above. So the value a Get finds is not below
  the write that was answered, and a write taken before that one is. Calls that were
  given up and arrive late do no harm: they come above, whenever they come. That no
  call which is yet to begin has a request at a member (`CallsInv`) is what makes
  `Ordered` inductive. All of it together is `SdkInv`, the invariant that `client` checks
  and `SdkInvariant` proves.
- `ThreadPoolProof`: `PoolInv` joins the types, `pending_num_ = Len(queue)`,
  `WorkWatched` and what Stop has seen at each of its points. `WorkWatched` is kept
  because Signal leaves a thread awake in any case: either it wakes one, or no thread
  was asleep. `StopDrains` rests on the count: when it is zero, what was in the queue
  has been begun, and the join waits for its end.

  The refinement of TaskLife needs that the queue holds no task twice and none
  that was begun (`QueueOnce`), that one thread runs a task (`RunOnce`), and that a
  number DelayTask has given is in `latest_` only until it is begun or cancelled
  (`TimersOnce`). Then each step moves at most one task, along TaskLife's arrows.

Only model-checked:

- `CommittedOnMajority` beyond slot 0 with four and more members,
  `AnsweredKept` through restarts (proved without).
- `Answered`, `CaughtUp`, `EventuallyBegun`, `StopReturns`: liveness under fairness and
  ENABLED are beyond the prover.

No module declares a RECURSIVE operator.

## Not modelled

- LevelDB, protobuf and the RPC library: external; what the code expects of them is
  in `BinLog`, `store` and the message sets. Their errors end the process in most
  places (asserts) and are left out.
- Two threads for one follower: `replicating_` gets its entry in the thread, not where
  the task is added; the model starts the thread with the leadership.
- The second unlock of `mu_` when GarbageClean returns (line 867): undefined for
  pthreads; the model takes it that it changes nothing.
- The destructors of the node: nothing runs them.
- What a leader holds after a third election won, or when replication calls are given up
  and come late while another member is elected: no run has these with `LeaderComplete`,
  and no theorem does.
- ShowClusterStatus, PendingNum: they read and print.
- Timer, TPrinter, macros, command line, main: no state of the system.

## What could come next

1. A run with four members, where UpdateCommitIndex counts the leader's own
   entry of `match_index_` at index 0.
2. ReplicateLog's start as a task of a pool, with `replicating_` set late.
3. Proofs: that an answered write survives a restart; what is left of `LeaderComplete`
   with three elections won.

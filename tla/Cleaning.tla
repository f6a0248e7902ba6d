------------------------------- MODULE Cleaning ------------------------------
(***************************************************************************)
(* Garbage collection of the binlogs, on top of the cluster of AirDB: the  *)
(* GarbageClean task of the leader, which asks every member how far it has *)
(* applied and tells every member what to remove, and the handlers         *)
(* ShowStatus, CleanBinlog and DelBinlog.                                  *)
(***************************************************************************)
EXTENDS AirDB

CONSTANTS
    MaxRounds,   \* bound: rounds of GarbageClean
    MaxLate      \* bound: CleanBinlog calls in cleanReq

ASSUME CleaningAssumption == MaxRounds \in Nat /\ MaxLate \in Nat /\ Nil \notin Int

VARIABLES
    cleaner,     \* the GarbageClean task of each member
    lastSafe,    \* last_safe_clean_index_
    cleanReq,    \* CleanBinlog calls that were given up and may still arrive
    delBinlog,   \* the DelBinlog tasks in binlog_cleaner_pool_
    removed,     \* the slots below are not readable any more
    rounds       \* rounds begun so far

cleanVars == <<cleaner, lastSafe, cleanReq, delBinlog, removed, rounds>>
allVars == <<vars, cleanVars>>

\* pc: "idle" until the timer, "ask" while the members in left are still to be
\* asked, "tell" while they are still to be told; min is min_applied_index, Nil
\* for the largest integer.
Idle == [pc |-> "idle", left |-> {}, min |-> Nil]

CleanInit ==
    /\ Init
    /\ cleaner = [s \in Server |-> Idle]
    /\ lastSafe = [s \in Server |-> -1]
    /\ cleanReq = {}
    /\ delBinlog = [s \in Server |-> {}]
    /\ removed = [s \in Server |-> 0]
    /\ rounds = 0

-----------------------------------------------------------------------------
\* GarbageClean on a leader; mu_ is released for the whole round, so the rest
\* runs whatever the node has become.
GarbageClean(s) ==
    /\ cleaner[s].pc = "idle"
    /\ status[s] = "Leader"
    /\ rounds < MaxRounds
    /\ rounds' = rounds + 1
    /\ cleaner' = [cleaner EXCEPT ![s] = [pc |-> "ask", left |-> Server, min |-> Nil]]
    /\ UNCHANGED <<vars, lastSafe, cleanReq, delBinlog, removed>>

\* Mutant: the last answer counts, not the least.
LastApplied(min, applied) == applied

LeastApplied(min, applied) == IF min = Nil \/ applied < min THEN applied ELSE min

\* f answers ShowStatus with its last_applied_index_.
ShowStatus(s, f) ==
    /\ cleaner[s].pc = "ask" /\ f \in cleaner[s].left
    /\ cleaner' = [cleaner EXCEPT ![s] = [pc   |-> "ask",
                                          left |-> @.left \ {f},
                                          min  |-> LeastApplied(@.min, lastApplied[f])]]
    /\ UNCHANGED <<vars, lastSafe, cleanReq, delBinlog, removed, rounds>>

\* Mutant: the member that does not answer is passed over.
AfterNoAnswer(s, f) == [cleaner[s] EXCEPT !.left = @ \ {f}]

\* One that does not answer ends the round.
AfterError(s, f) == Idle

ShowStatusFails(s, f) ==
    /\ cleaner[s].pc = "ask" /\ f \in cleaner[s].left
    /\ cleaner' = [cleaner EXCEPT ![s] = AfterError(s, f)]
    /\ UNCHANGED <<vars, lastSafe, cleanReq, delBinlog, removed, rounds>>

SafeIndex(min) == min - 1

\* All have answered: the index is noted, and the members are told if it is new.
NoteSafeIndex(s) ==
    /\ cleaner[s].pc = "ask" /\ cleaner[s].left = {} /\ cleaner[s].min # Nil
    /\ LET safe == SafeIndex(cleaner[s].min)
       IN  /\ lastSafe' = [lastSafe EXCEPT ![s] = safe]
           /\ cleaner' = [cleaner EXCEPT ![s] = IF lastSafe[s] = safe THEN Idle
                               ELSE [pc |-> "tell", left |-> Server, min |-> @.min]]
    /\ UNCHANGED <<vars, cleanReq, delBinlog, removed, rounds>>

\* CleanBinlog: a member that has not applied that far refuses; else the removal
\* is left to a task of binlog_cleaner_pool_.
Accept(f, end) ==
    delBinlog' = IF lastApplied[f] < end THEN delBinlog
                 ELSE [delBinlog EXCEPT ![f] = @ \cup {end - 1}]

Told(s, f) ==
    cleaner' = IF cleaner[s].left = {f} THEN [cleaner EXCEPT ![s] = Idle]
                                        ELSE [cleaner EXCEPT ![s].left = @ \ {f}]

CleanBinlog(s, f) ==
    /\ cleaner[s].pc = "tell" /\ f \in cleaner[s].left
    /\ Told(s, f)
    /\ Accept(f, SafeIndex(cleaner[s].min))
    /\ UNCHANGED <<vars, lastSafe, cleanReq, removed, rounds>>

\* No answer: the member is asked again, and after three tries the next one is
\* told.  Each call may still arrive.
CleanBinlogFails(s, f) ==
    /\ cleaner[s].pc = "tell" /\ f \in cleaner[s].left
    /\ Cardinality(cleanReq) < MaxLate
    /\ Told(s, f) \/ UNCHANGED cleaner
    /\ cleanReq' = cleanReq \cup {[to |-> f, end |-> SafeIndex(cleaner[s].min)]}
    /\ UNCHANGED <<vars, lastSafe, delBinlog, removed, rounds>>

CleanBinlogLate(m) ==
    /\ cleanReq' = cleanReq \ {m}
    /\ Accept(m.to, m.end)
    /\ UNCHANGED <<vars, cleaner, lastSafe, removed, rounds>>

\* RemoveSlotBefore: LevelDB may drop the slots below index at any time from now
\* on.  The worst is that it does so at once.
DelBinlog(s, index) ==
    /\ delBinlog' = [delBinlog EXCEPT ![s] = @ \ {index}]
    /\ removed' = [removed EXCEPT ![s] = Greater(@, index)]
    /\ UNCHANGED <<vars, cleaner, lastSafe, cleanReq, rounds>>

\* A restart: what the databases have dropped stays dropped.
CleanCrash(s) ==
    /\ Crash(s)
    /\ cleaner' = [cleaner EXCEPT ![s] = Idle]
    /\ lastSafe' = [lastSafe EXCEPT ![s] = -1]
    /\ delBinlog' = [delBinlog EXCEPT ![s] = {}]
    /\ UNCHANGED <<cleanReq, removed, rounds>>

CleanNext ==
    \/ \E s \in Server : GarbageClean(s)
    \/ \E s, f \in Server : ShowStatus(s, f)
    \/ \E s, f \in Server : ShowStatusFails(s, f)
    \/ \E s \in Server : NoteSafeIndex(s)
    \/ \E s, f \in Server : CleanBinlog(s, f)
    \/ \E s, f \in Server : CleanBinlogFails(s, f)
    \/ \E m \in cleanReq : CleanBinlogLate(m)
    \/ \E s \in Server : \E index \in delBinlog[s] : DelBinlog(s, index)
    \/ Next /\ UNCHANGED cleanVars

CleanSpec == CleanInit /\ [][CleanNext]_allVars

CleanCrashSpec == CleanInit /\ [][CleanNext \/ \E s \in Server : CleanCrash(s)]_allVars

-----------------------------------------------------------------------------
CleanTypeOK ==
    /\ cleaner \in [Server -> [pc: {"idle", "ask", "tell"}, left: SUBSET Server, min: Int \cup {Nil}]]
    /\ lastSafe \in [Server -> Int]
    /\ cleanReq \subseteq [to: Server, end: Int]
    /\ delBinlog \in [Server -> SUBSET Int]
    /\ removed \in [Server -> Nat]
    /\ rounds \in Nat

\* A slot is removed anywhere only after every member has applied it, although
\* the round reads the members one after the other, may end under another
\* leader, and its calls arrive late.
RemovedIsApplied == \A s, u \in Server : removed[s] <= lastApplied[u] + 1

\* What makes it so: a minimum is not above what the members asked so far have
\* applied by now, and so are the calls and tasks that come of it.
AppliedByAll(i) == \A u \in Server : i <= lastApplied[u]
CleanInv ==
    /\ \A s \in Server : \A u \in Server \ cleaner[s].left :
          cleaner[s].pc = "ask" => cleaner[s].min # Nil /\ cleaner[s].min <= lastApplied[u]
    /\ \A s \in Server :
          cleaner[s].pc = "tell" => cleaner[s].min # Nil /\ AppliedByAll(cleaner[s].min)
    /\ \A m \in cleanReq : AppliedByAll(m.end + 1)
    /\ \A s \in Server : \A index \in delBinlog[s] : AppliedByAll(index + 2)
    /\ \A s \in Server : removed[s] = 0 \/ AppliedByAll(removed[s] + 2)

\* The slots a member is going to read: CommitIndex the one it applies next,
\* ReplicateLog those of its call and the one before, AppendEntriesImpl the one
\* before the entries of a call, and the constructor the last one.
AboutToRead(s) ==
    {lastApplied[s] + 1 : a \in {a \in {applier[s]} : a.pc = "apply"}}
    \cup (UNION {repl[s][f].call.index .. NextAfter(repl[s][f].call) - 1 :
                    f \in {f \in Server : repl[s][f].pc = "built"}})
    \cup {nextIndex[s][f] - 1 : f \in {f \in Server :
                   /\ repl[s][f].pc = "loop" /\ status[s] = "Leader"
                   /\ 0 < nextIndex[s][f] /\ nextIndex[s][f] < GetLength(binlog[s])}}
    \cup {m.prev : m \in {m \in appendReq :
                   /\ m.to = s /\ m.entries # << >> /\ m.term >= currentTerm[s]
                   /\ 0 <= m.prev /\ m.prev < GetLength(binlog[s])}}
    \cup {i \in {GetLength(binlog[s]) - 1} : i >= 0}

\* No slot that a thread is about to read has been removed: the asserts on
\* slot_ok hold, and no ReplicateLog thread ends at a bad slot, while the logs are
\* being cleaned.
RemovedNotNeeded == \A s \in Server : \A i \in AboutToRead(s) : removed[s] <= i
=============================================================================

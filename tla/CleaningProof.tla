---------------------------- MODULE CleaningProof ----------------------------
(***************************************************************************)
(* Garbage collection removes only what every member has applied, for any  *)
(* members, rounds, lost and late calls, and restarts.  The argument has   *)
(* two parts: lastApplied never goes back, so what a member answered to    *)
(* ShowStatus stays true for good; and CleanInv carries the minimum of the *)
(* answers through the round, the calls and the tasks.  In a steady        *)
(* cluster no thread is about to read what was removed: all it still reads *)
(* is at or above what its leader, or the node itself, has applied.        *)
(***************************************************************************)
EXTENDS Cleaning, SteadyProof

USE DEF electionVars, leaderVars, applyVars, clientVars, voteNet, appendNet, boundVars

CrashNext == Next \/ \E s \in Server : Crash(s)

-----------------------------------------------------------------------------
\* Cleaning changes nothing of the cluster itself: each of its steps is a step
\* of the cluster or leaves it as it is.
LEMMA ClusterStep ==
    ASSUME [CleanNext \/ \E s \in Server : CleanCrash(s)]_allVars
    PROVE  [CrashNext]_vars
<1>1. CASE \E s \in Server : CleanCrash(s)  BY <1>1 DEF CleanCrash, CrashNext
<1>2. CASE CleanNext
  BY <1>2 DEF CleanNext, CrashNext, GarbageClean, ShowStatus, ShowStatusFails, NoteSafeIndex,
     CleanBinlog, CleanBinlogFails, CleanBinlogLate, DelBinlog
<1>3. CASE UNCHANGED allVars  BY <1>3 DEF allVars
<1> QED  BY <1>1, <1>2, <1>3

\* Whatever holds of the cluster with restarts holds while it is being cleaned.
THEOREM CleaningImplements == CleanCrashSpec => CrashSpec
<1>1. CleanInit => Init  BY DEF CleanInit
<1>2. [CleanNext \/ \E s \in Server : CleanCrash(s)]_allVars => [CrashNext]_vars
  BY ClusterStep
<1> QED  BY <1>1, <1>2, PTL DEF CleanCrashSpec, CrashSpec, CrashNext

-----------------------------------------------------------------------------
\* last_applied_index_ never goes back, not by a restart either.
LEMMA AppliedGrows ==
    ASSUME TypeOK, [CrashNext]_vars
    PROVE  \A u \in Server : lastApplied[u] \in Int /\ lastApplied'[u] \in Int
                               /\ lastApplied[u] <= lastApplied'[u]
<1>1. lastApplied \in [Server -> Int]  BY DEF TypeOK, ApplyTypeOK
<1>2. CASE lastApplied' = lastApplied  BY <1>1, <1>2
<1>3. CASE \E s \in Server : CommitAck(s)
  <2>1. PICK s \in Server : CommitAck(s)  BY <1>3
  <2>2. lastApplied' = [lastApplied EXCEPT ![s] = lastApplied[s] + 1]
    BY <2>1 DEF CommitAck
  <2> QED  BY <1>1, <2>2
<1>4. CASE ElectionNext
  BY <1>2, <1>4 DEF ElectionNext, VoteTimerHeard, VoteLeader, Vote, VoteByLeader, VoteRefused,
     VoteDecided, VoteCallBack, VoteCounted, VoteNewerTerm, VoteIgnored
<1>5. CASE LeaderNext
  BY <1>2, <1>5 DEF LeaderNext, ReplicateStop, ReplicateBuild, ReplicateSend, ReplicateAnswer,
     ReplicateFail
<1>6. CASE HeartBeatNext
  BY <1>2, <1>6 DEF HeartBeatNext, BroadCastHeartBeat, AppendEntries, AppendStale,
     AppendHeartBeat, AppendBeyond, AppendMismatch, AppendTooFast, AppendAccept,
     HeartBeatCallBack
<1>7. CASE FollowerNext  BY <1>2, <1>7 DEF FollowerNext, AppendWrite, AppendFinish
<1>8. CASE ApplyNext
  BY <1>2, <1>3, <1>8 DEF ApplyNext, Put, Delete, Lock, UnLock, Submit, CommitBegin, CommitStore
<1>9. CASE \E s \in Server : Crash(s)
  BY <1>1, <1>2, <1>9 DEF Crash, RestoredIndex
<1>10. CASE UNCHANGED vars  BY <1>2, <1>10 DEF vars
<1> QED  BY <1>4, <1>5, <1>6, <1>7, <1>8, <1>9, <1>10 DEF CrashNext, Next

-----------------------------------------------------------------------------
\* The inductive invariant.
CleanIInv == CleanTypeOK /\ CleanInv

LEMMA CleanInitInv == ASSUME NodeAssumption, CleanInit PROVE CleanIInv
BY DEF CleanInit, CleanIInv, CleanTypeOK, CleanInv, Idle

\* What every member has applied stays applied.
LEMMA StillApplied ==
    ASSUME \A u \in Server : lastApplied[u] \in Int /\ lastApplied'[u] \in Int
                               /\ lastApplied[u] <= lastApplied'[u],
           NEW i \in Int, AppliedByAll(i)
    PROVE  AppliedByAll(i)'
BY DEF AppliedByAll

\* The rest of the cluster goes on.
LEMMA OthersInv ==
    ASSUME TypeOK, CleanIInv, [CrashNext]_vars,
           UNCHANGED <<cleaner, cleanReq, delBinlog, removed>>
               \/ \E s \in Server : /\ cleaner' = [cleaner EXCEPT ![s] = Idle]
                                    /\ delBinlog' = [delBinlog EXCEPT ![s] = {}]
                                    /\ UNCHANGED <<cleanReq, removed>>
    PROVE  CleanInv'
<1>1. \A u \in Server : lastApplied[u] \in Int /\ lastApplied'[u] \in Int
                           /\ lastApplied[u] <= lastApplied'[u]
  BY AppliedGrows
<1>2. /\ cleaner \in [Server -> [pc: {"idle", "ask", "tell"}, left: SUBSET Server,
                                 min: Int \cup {Nil}]]
      /\ cleanReq \subseteq [to: Server, end: Int]
      /\ delBinlog \in [Server -> SUBSET Int]
      /\ removed \in [Server -> Nat]
  BY DEF CleanIInv, CleanTypeOK
<1>3. \A s \in Server : cleaner'[s] = cleaner[s] \/ cleaner'[s].pc = "idle"
  BY <1>2 DEF Idle
<1>4. \A s \in Server : delBinlog'[s] \subseteq delBinlog[s]  BY <1>2
<1>5. cleanReq' = cleanReq /\ removed' = removed  OBVIOUS
<1>6. \A s \in Server : \A u \in Server \ cleaner'[s].left :
         cleaner'[s].pc = "ask" => cleaner'[s].min # Nil /\ cleaner'[s].min <= lastApplied'[u]
  BY <1>1, <1>2, <1>3 DEF CleanIInv, CleanInv
<1>7. \A s \in Server : cleaner'[s].pc = "tell" =>
         cleaner'[s].min # Nil /\ AppliedByAll(cleaner[s].min)' /\ cleaner'[s] = cleaner[s]
  BY <1>1, <1>2, <1>3, StillApplied DEF CleanIInv, CleanInv
<1>8. \A m \in cleanReq : AppliedByAll(m.end + 1)'
  <2> SUFFICES ASSUME NEW m \in cleanReq PROVE AppliedByAll(m.end + 1)'  OBVIOUS
  <2>1. m.end + 1 \in Int /\ AppliedByAll(m.end + 1)  BY <1>2 DEF CleanIInv, CleanInv
  <2> QED  BY <1>1, <2>1, StillApplied
<1>9. \A s \in Server : \A index \in delBinlog'[s] : AppliedByAll(index + 2)'
  <2> SUFFICES ASSUME NEW s \in Server, NEW index \in delBinlog[s]
               PROVE  AppliedByAll(index + 2)'
    BY <1>4
  <2>1. index + 2 \in Int /\ AppliedByAll(index + 2)  BY <1>2 DEF CleanIInv, CleanInv
  <2> QED  BY <1>1, <2>1, StillApplied
<1>10. \A s \in Server : removed[s] = 0 \/ AppliedByAll(removed[s] + 2)'
  <2> SUFFICES ASSUME NEW s \in Server, removed[s] # 0 PROVE AppliedByAll(removed[s] + 2)'
    OBVIOUS
  <2>1. removed[s] + 2 \in Int /\ AppliedByAll(removed[s] + 2)
    BY <1>2 DEF CleanIInv, CleanInv
  <2> QED  BY <1>1, <2>1, StillApplied
<1> QED  BY <1>5, <1>6, <1>7, <1>8, <1>9, <1>10 DEF CleanInv, AppliedByAll

-----------------------------------------------------------------------------
\* The steps of cleaning.  None of them applies anything.

CleanerType == [pc: {"idle", "ask", "tell"}, left: SUBSET Server, min: Int \cup {Nil}]

\* The minimum of an answer and those before.
LEMMA MinOf ==
    ASSUME NEW min \in Int \cup {Nil}, NEW applied \in Int, CleaningAssumption
    PROVE  /\ LeastApplied(min, applied) \in Int
           /\ LeastApplied(min, applied) # Nil
           /\ LeastApplied(min, applied) <= applied
           /\ min # Nil => LeastApplied(min, applied) <= min
BY DEF LeastApplied, CleaningAssumption

\* A step of the cleaner alone keeps the invariant when the cleaner's new state
\* agrees with what has been applied.
LEMMA CleanerInv ==
    ASSUME CleanIInv, NEW s \in Server, NEW c \in CleanerType,
           cleaner' = [cleaner EXCEPT ![s] = c],
           UNCHANGED <<lastApplied, delBinlog, removed>>,
           lastSafe' \in [Server -> Int], cleanReq' \subseteq [to: Server, end: Int],
           rounds' \in Nat,
           \A m \in cleanReq' : AppliedByAll(m.end + 1),
           c.pc = "ask" => \A u \in Server \ c.left : c.min # Nil /\ c.min <= lastApplied[u],
           c.pc = "tell" => c.min # Nil /\ AppliedByAll(c.min)
    PROVE  CleanIInv'
<1>1. CleanTypeOK'  BY DEF CleanIInv, CleanTypeOK, CleanerType
<1>2. cleaner \in [Server -> CleanerType]  BY DEF CleanIInv, CleanTypeOK, CleanerType
<1>3. \A u \in Server : cleaner'[u] = IF u = s THEN c ELSE cleaner[u]  BY <1>2
<1>4. CleanInv'  BY <1>3 DEF CleanIInv, CleanInv, AppliedByAll
<1> QED  BY <1>1, <1>4 DEF CleanIInv

\* The same when nothing but the cleaner and the bound changes.
LEMMA CleanerAloneInv ==
    ASSUME CleanIInv, NEW s \in Server, NEW c \in CleanerType,
           cleaner' = [cleaner EXCEPT ![s] = c],
           UNCHANGED <<lastApplied, lastSafe, cleanReq, delBinlog, removed>>,
           rounds' \in Nat,
           c.pc = "ask" => \A u \in Server \ c.left : c.min # Nil /\ c.min <= lastApplied[u],
           c.pc # "tell"
    PROVE  CleanIInv'
<1>1. lastSafe' \in [Server -> Int] /\ cleanReq' \subseteq [to: Server, end: Int]
  BY DEF CleanIInv, CleanTypeOK
<1>2. \A m \in cleanReq' : AppliedByAll(m.end + 1)  BY DEF CleanIInv, CleanInv
<1> QED  BY <1>1, <1>2, CleanerInv

LEMMA GarbageCleanInv ==
    ASSUME CleanIInv, NEW s \in Server, GarbageClean(s)
    PROVE  CleanIInv'
<1> DEFINE c == [pc |-> "ask", left |-> Server, min |-> Nil]
<1>1. c \in CleanerType  BY DEF CleanerType
<1>2. cleaner' = [cleaner EXCEPT ![s] = c]  BY DEF GarbageClean
<1>3. UNCHANGED <<lastApplied, lastSafe, cleanReq, delBinlog, removed>>
  BY DEF GarbageClean, vars
<1>4. rounds' \in Nat  BY DEF GarbageClean, CleanIInv, CleanTypeOK
<1>5. c.pc = "ask" /\ c.left = Server  OBVIOUS
<1> HIDE DEF c
<1> QED  BY <1>1, <1>2, <1>3, <1>4, <1>5, CleanerAloneInv

LEMMA ShowStatusInv ==
    ASSUME CleaningAssumption, TypeOK, CleanIInv, NEW s \in Server, NEW f \in Server,
           ShowStatus(s, f)
    PROVE  CleanIInv'
<1>1. cleaner[s] \in CleanerType  BY DEF CleanIInv, CleanTypeOK, CleanerType
<1>2. lastApplied[f] \in Int  BY DEF TypeOK, ApplyTypeOK
<1> DEFINE least == LeastApplied(cleaner[s].min, lastApplied[f])
           c == [pc |-> "ask", left |-> cleaner[s].left \ {f}, min |-> least]
<1>3. cleaner' = [cleaner EXCEPT ![s] = c]  BY DEF ShowStatus
<1>4. /\ least \in Int /\ least # Nil /\ least <= lastApplied[f]
      /\ cleaner[s].min # Nil => least <= cleaner[s].min
  BY <1>1, <1>2, MinOf DEF CleanerType
<1>5. \A u \in Server \ cleaner[s].left :
         cleaner[s].min # Nil /\ cleaner[s].min <= lastApplied[u]
  BY DEF ShowStatus, CleanIInv, CleanInv
<1> HIDE DEF least
<1>6. c \in CleanerType  BY <1>1, <1>4 DEF CleanerType
<1>7. \A u \in Server \ c.left : c.min # Nil /\ c.min <= lastApplied[u]
  <2> SUFFICES ASSUME NEW u \in Server, u \notin cleaner[s].left \/ u = f
               PROVE  least <= lastApplied[u]
    BY <1>4
  <2>1. CASE u = f  BY <1>4, <2>1
  <2>2. CASE u \notin cleaner[s].left
    <3>1. cleaner[s].min \in Int /\ lastApplied[u] \in Int
      BY <1>1, <1>5, <2>2 DEF CleanerType, TypeOK, ApplyTypeOK
    <3> QED  BY <1>4, <1>5, <2>2, <3>1
  <2> QED  BY <2>1, <2>2
<1>8. c.pc = "ask"  OBVIOUS
<1>9. UNCHANGED <<lastApplied, lastSafe, cleanReq, delBinlog, removed>> /\ rounds' \in Nat
  BY DEF ShowStatus, vars, CleanIInv, CleanTypeOK
<1> HIDE DEF c
<1> QED  BY <1>3, <1>6, <1>7, <1>8, <1>9, CleanerAloneInv

LEMMA ShowStatusFailsInv ==
    ASSUME CleanIInv, NEW s \in Server, NEW f \in Server, ShowStatusFails(s, f)
    PROVE  CleanIInv'
<1>1. Idle \in CleanerType /\ Idle.pc = "idle"  BY DEF CleanerType, Idle
<1>2. cleaner' = [cleaner EXCEPT ![s] = Idle]  BY DEF ShowStatusFails, AfterError
<1>3. UNCHANGED <<lastApplied, lastSafe, cleanReq, delBinlog, removed>> /\ rounds' \in Nat
  BY DEF ShowStatusFails, vars, CleanIInv, CleanTypeOK
<1> QED  BY <1>1, <1>2, <1>3, CleanerAloneInv

LEMMA NoteSafeIndexInv ==
    ASSUME CleanIInv, NEW s \in Server, NoteSafeIndex(s)
    PROVE  CleanIInv'
<1>1. cleaner[s] \in CleanerType  BY DEF CleanIInv, CleanTypeOK, CleanerType
<1> DEFINE min == cleaner[s].min
           tell == [pc |-> "tell", left |-> Server, min |-> min]
           c == IF lastSafe[s] = SafeIndex(min) THEN Idle ELSE tell
<1>2. min \in Int  BY <1>1 DEF NoteSafeIndex, CleanerType
<1>3. AppliedByAll(min)  BY DEF NoteSafeIndex, CleanIInv, CleanInv, AppliedByAll
<1>4. cleaner' = [cleaner EXCEPT ![s] = c]  BY DEF NoteSafeIndex
<1>5. lastSafe' \in [Server -> Int]
  BY <1>2 DEF NoteSafeIndex, SafeIndex, CleanIInv, CleanTypeOK
<1>6. c \in CleanerType  BY <1>2 DEF CleanerType, Idle
<1>12. c.pc # "ask"  BY DEF Idle
<1>7. c.pc = "tell" => c.min = min  BY DEF Idle
<1>8. min # Nil  BY DEF NoteSafeIndex
<1>9. UNCHANGED <<lastApplied, cleanReq, delBinlog, removed, rounds>>
  BY DEF NoteSafeIndex, vars
<1>10. /\ cleanReq' \subseteq [to: Server, end: Int] /\ rounds' \in Nat
       /\ \A m \in cleanReq' : AppliedByAll(m.end + 1)
  BY <1>9 DEF CleanIInv, CleanTypeOK, CleanInv
<1>11. c.pc = "tell" => c.min # Nil /\ AppliedByAll(c.min)
  BY <1>3, <1>7, <1>8 DEF AppliedByAll
<1> HIDE DEF c, min
<1> QED  BY <1>4, <1>5, <1>6, <1>9, <1>10, <1>11, <1>12, CleanerInv

\* The member that was told is taken off the list.
LEMMA ToldType ==
    ASSUME CleanIInv, NEW s \in Server, NEW f \in Server, cleaner[s].pc = "tell", Told(s, f)
    PROVE  \E c \in CleanerType :
              /\ cleaner' = [cleaner EXCEPT ![s] = c]
              /\ c.pc # "ask"
              /\ c.pc = "tell" => c.min # Nil /\ AppliedByAll(c.min)
<1>1. cleaner[s] \in CleanerType  BY DEF CleanIInv, CleanTypeOK, CleanerType
<1>2. cleaner[s].min # Nil /\ AppliedByAll(cleaner[s].min)  BY DEF CleanIInv, CleanInv
<1> DEFINE rest == [pc |-> "tell", left |-> cleaner[s].left \ {f}, min |-> cleaner[s].min]
           c == IF cleaner[s].left = {f} THEN Idle ELSE rest
<1>3. cleaner' = [cleaner EXCEPT ![s] = c]
  <2> DEFINE r == [cleaner[s] EXCEPT !.left = cleaner[s].left \ {f}]
  <2>1. r = rest  BY <1>1 DEF CleanerType
  <2>2. cleaner[s].left # {f} => cleaner' = [cleaner EXCEPT ![s] = r]  BY DEF Told
  <2>3. cleaner[s].left = {f} => cleaner' = [cleaner EXCEPT ![s] = Idle]  BY DEF Told
  <2> QED  BY <2>1, <2>2, <2>3
<1>4. c \in CleanerType /\ c.pc # "ask" /\ (c.pc = "tell" => c.min = cleaner[s].min)
  BY <1>1 DEF CleanerType, Idle
<1> QED  BY <1>2, <1>3, <1>4

\* What the round found is at or above what its calls name.
LEMMA SafeIndexApplied ==
    ASSUME CleanIInv, NEW s \in Server, cleaner[s].pc = "tell"
    PROVE  /\ SafeIndex(cleaner[s].min) \in Int
           /\ AppliedByAll(SafeIndex(cleaner[s].min) + 1)
<1>1. cleaner[s] \in CleanerType  BY DEF CleanIInv, CleanTypeOK, CleanerType
<1>2. cleaner[s].min # Nil /\ AppliedByAll(cleaner[s].min)  BY DEF CleanIInv, CleanInv
<1>3. cleaner[s].min \in Int  BY <1>1, <1>2 DEF CleanerType
<1>4. SafeIndex(cleaner[s].min) + 1 = cleaner[s].min  BY <1>3 DEF SafeIndex
<1> QED  BY <1>2, <1>3, <1>4 DEF SafeIndex

LEMMA CleanBinlogFailsInv ==
    ASSUME CleanIInv, NEW s \in Server, NEW f \in Server, CleanBinlogFails(s, f)
    PROVE  CleanIInv'
<1>1. cleaner[s].pc = "tell" /\ (Told(s, f) \/ cleaner' = cleaner)  BY DEF CleanBinlogFails
<1>2. PICK c \in CleanerType :
         /\ cleaner' = [cleaner EXCEPT ![s] = c]
         /\ c.pc # "ask"
         /\ c.pc = "tell" => c.min # Nil /\ AppliedByAll(c.min)
  <2>1. CASE Told(s, f)  BY <1>1, <2>1, ToldType
  <2>2. CASE cleaner' = cleaner
    <3>1. cleaner[s] \in CleanerType /\ cleaner' = [cleaner EXCEPT ![s] = cleaner[s]]
      BY <2>2 DEF CleanIInv, CleanTypeOK, CleanerType
    <3>2. cleaner[s].min # Nil /\ AppliedByAll(cleaner[s].min)
      BY <1>1 DEF CleanIInv, CleanInv
    <3> QED  BY <1>1, <3>1, <3>2
  <2> QED  BY <1>1, <2>1, <2>2
<1> DEFINE m == [to |-> f, end |-> SafeIndex(cleaner[s].min)]
<1>3. m \in [to: Server, end: Int] /\ AppliedByAll(m.end + 1)  BY <1>1, SafeIndexApplied
<1>4. cleanReq' = cleanReq \cup {m}  BY DEF CleanBinlogFails
<1> HIDE DEF m
<1>5. cleanReq' \subseteq [to: Server, end: Int] /\ \A n \in cleanReq' : AppliedByAll(n.end + 1)
  BY <1>3, <1>4 DEF CleanIInv, CleanTypeOK, CleanInv
<1> QED
  BY <1>2, <1>5, CleanerInv DEF CleanBinlogFails, vars, CleanIInv, CleanTypeOK

\* A member takes the order to remove: the task names the slot before.
LEMMA AcceptInv ==
    ASSUME CleanIInv, NEW f \in Server, NEW end \in Int, AppliedByAll(end + 1), Accept(f, end)
    PROVE  /\ delBinlog' \in [Server -> SUBSET Int]
           /\ \A u \in Server : \A index \in delBinlog'[u] : AppliedByAll(index + 2)
<1>1. delBinlog \in [Server -> SUBSET Int]  BY DEF CleanIInv, CleanTypeOK
<1>2. \A u \in Server : \A index \in delBinlog[u] : AppliedByAll(index + 2)
  BY DEF CleanIInv, CleanInv
<1>3. end - 1 \in Int /\ (end - 1) + 2 = end + 1  OBVIOUS
<1>4. AppliedByAll((end - 1) + 2)  BY <1>3
<1>5. CASE delBinlog' = delBinlog  BY <1>1, <1>2, <1>5
<1>6. CASE delBinlog' = [delBinlog EXCEPT ![f] = @ \cup {end - 1}]
  <2>1. \A u \in Server : delBinlog'[u] \subseteq delBinlog[u] \cup {end - 1}
    BY <1>1, <1>6
  <2>2. delBinlog' \in [Server -> SUBSET Int]  BY <1>1, <1>3, <1>6
  <2> QED  BY <1>2, <1>4, <2>1, <2>2
<1> QED  BY <1>5, <1>6 DEF Accept

LEMMA CleanBinlogInv ==
    ASSUME CleanIInv, NEW s \in Server, NEW f \in Server, CleanBinlog(s, f)
    PROVE  CleanIInv'
<1>1. cleaner[s].pc = "tell" /\ Told(s, f)  BY DEF CleanBinlog
<1>2. PICK c \in CleanerType :
         /\ cleaner' = [cleaner EXCEPT ![s] = c]
         /\ c.pc # "ask"
         /\ c.pc = "tell" => c.min # Nil /\ AppliedByAll(c.min)
  BY <1>1, ToldType
<1>3. /\ delBinlog' \in [Server -> SUBSET Int]
      /\ \A u \in Server : \A index \in delBinlog'[u] : AppliedByAll(index + 2)
  BY <1>1, SafeIndexApplied, AcceptInv DEF CleanBinlog
<1>4. UNCHANGED <<lastApplied, lastSafe, cleanReq, removed, rounds>>
  BY DEF CleanBinlog, vars
<1>5. cleaner \in [Server -> CleanerType]  BY DEF CleanIInv, CleanTypeOK, CleanerType
<1>6. \A u \in Server : cleaner'[u] = IF u = s THEN c ELSE cleaner[u]  BY <1>2, <1>5
<1>7. CleanTypeOK'  BY <1>2, <1>3, <1>4 DEF CleanIInv, CleanTypeOK, CleanerType
<1>8. CleanInv'  BY <1>2, <1>3, <1>4, <1>6 DEF CleanIInv, CleanInv, AppliedByAll
<1> QED  BY <1>7, <1>8 DEF CleanIInv

LEMMA CleanBinlogLateInv ==
    ASSUME CleanIInv, NEW m \in cleanReq, CleanBinlogLate(m)
    PROVE  CleanIInv'
<1>1. m.to \in Server /\ m.end \in Int /\ AppliedByAll(m.end + 1)
  BY DEF CleanIInv, CleanTypeOK, CleanInv
<1>2. /\ delBinlog' \in [Server -> SUBSET Int]
      /\ \A u \in Server : \A index \in delBinlog'[u] : AppliedByAll(index + 2)
  BY <1>1, AcceptInv DEF CleanBinlogLate
<1>3. UNCHANGED <<lastApplied, cleaner, lastSafe, removed, rounds>> /\ cleanReq' \subseteq cleanReq
  BY DEF CleanBinlogLate, vars
<1>4. CleanTypeOK'  BY <1>2, <1>3 DEF CleanIInv, CleanTypeOK
<1>5. CleanInv'  BY <1>2, <1>3 DEF CleanIInv, CleanInv, AppliedByAll
<1> QED  BY <1>4, <1>5 DEF CleanIInv

LEMMA DelBinlogInv ==
    ASSUME CleanIInv, NEW s \in Server, NEW index \in delBinlog[s], DelBinlog(s, index)
    PROVE  CleanIInv'
<1>1. /\ delBinlog \in [Server -> SUBSET Int] /\ removed \in [Server -> Nat]
      /\ index \in Int /\ AppliedByAll(index + 2)
  BY DEF CleanIInv, CleanTypeOK, CleanInv
<1>2. UNCHANGED <<lastApplied, cleaner, lastSafe, cleanReq, rounds>>  BY DEF DelBinlog, vars
<1>3. delBinlog' \in [Server -> SUBSET Int] /\ \A u \in Server : delBinlog'[u] \subseteq delBinlog[u]
  BY <1>1 DEF DelBinlog
<1>4. removed' \in [Server -> Nat]
      /\ \A u \in Server : removed'[u] = removed[u] \/ removed'[u] = index
  BY <1>1 DEF DelBinlog, Greater
<1>5. CleanTypeOK'  BY <1>2, <1>3, <1>4 DEF CleanIInv, CleanTypeOK
<1>6. CleanInv'  BY <1>1, <1>2, <1>3, <1>4 DEF CleanIInv, CleanInv, AppliedByAll
<1> QED  BY <1>5, <1>6 DEF CleanIInv

-----------------------------------------------------------------------------
LEMMA CleanStepInv ==
    ASSUME NodeAssumption, CleaningAssumption, TypeOK, CleanIInv,
           [CleanNext \/ \E s \in Server : CleanCrash(s)]_allVars
    PROVE  CleanIInv'
<1>1. [CrashNext]_vars  BY ClusterStep
<1>2. CASE \E s \in Server : CleanCrash(s)
  <2>1. PICK s \in Server : CleanCrash(s)  BY <1>2
  <2>2. CleanInv'  BY <1>1, <2>1, OthersInv DEF CleanCrash
  <2>3. CleanTypeOK'  BY <2>1 DEF CleanCrash, CleanIInv, CleanTypeOK, Idle
  <2> QED  BY <2>2, <2>3 DEF CleanIInv
<1>3. CASE Next /\ UNCHANGED cleanVars
  <2>1. CleanInv'  BY <1>1, <1>3, OthersInv DEF cleanVars
  <2>2. CleanTypeOK'  BY <1>3 DEF cleanVars, CleanIInv, CleanTypeOK
  <2> QED  BY <2>1, <2>2 DEF CleanIInv
<1>4. CASE UNCHANGED allVars
  <2>1. CleanInv'  BY <1>1, <1>4, OthersInv DEF allVars, cleanVars
  <2>2. CleanTypeOK'  BY <1>4 DEF allVars, cleanVars, CleanIInv, CleanTypeOK
  <2> QED  BY <2>1, <2>2 DEF CleanIInv
<1>5. CASE \E s \in Server : GarbageClean(s)  BY <1>5, GarbageCleanInv
<1>6. CASE \E s, f \in Server : ShowStatus(s, f)  BY <1>6, ShowStatusInv
<1>7. CASE \E s, f \in Server : ShowStatusFails(s, f)  BY <1>7, ShowStatusFailsInv
<1>8. CASE \E s \in Server : NoteSafeIndex(s)  BY <1>8, NoteSafeIndexInv
<1>9. CASE \E s, f \in Server : CleanBinlog(s, f)  BY <1>9, CleanBinlogInv
<1>10. CASE \E s, f \in Server : CleanBinlogFails(s, f)  BY <1>10, CleanBinlogFailsInv
<1>11. CASE \E m \in cleanReq : CleanBinlogLate(m)  BY <1>11, CleanBinlogLateInv
<1>12. CASE \E s \in Server : \E index \in delBinlog[s] : DelBinlog(s, index)
  BY <1>12, DelBinlogInv
<1> QED
  BY <1>2, <1>3, <1>4, <1>5, <1>6, <1>7, <1>8, <1>9, <1>10, <1>11, <1>12 DEF CleanNext

\* The inductive invariant of garbage collection, with restarts.
THEOREM CleaningInvariant == CleanCrashSpec => [](TypeOK /\ NoBadSlot /\ CleanIInv)
<1>1. CleanCrashSpec => [](TypeOK /\ NoBadSlot)  BY CleaningImplements, CrashTypeAndSlots, PTL
<1>2. CleanInit => CleanIInv  BY CleanInitInv, NodeAssumption
<1>3. TypeOK /\ CleanIInv /\ [CleanNext \/ \E s \in Server : CleanCrash(s)]_allVars
         => CleanIInv'
  BY CleanStepInv, NodeAssumption, CleaningAssumption
<1> QED  BY <1>1, <1>2, <1>3, PTL DEF CleanCrashSpec

\* A slot is removed only after every member has applied it: no member is left
\* that must still be sent it, or apply it after a restart.
THEOREM OnlyAppliedRemoved == CleanCrashSpec => []RemovedIsApplied
<1>1. TypeOK /\ NoBadSlot /\ CleanIInv => RemovedIsApplied
  <2> SUFFICES ASSUME TypeOK, NoBadSlot, CleanIInv, NEW s \in Server, NEW u \in Server
               PROVE  removed[s] <= lastApplied[u] + 1
    BY DEF RemovedIsApplied
  <2>1. removed[s] \in Nat /\ lastApplied[u] \in Int /\ lastApplied[u] >= -1
    BY DEF TypeOK, ApplyTypeOK, NoBadSlot, ApplyStored, CleanIInv, CleanTypeOK
  <2>2. removed[s] = 0 \/ removed[s] + 2 <= lastApplied[u]
    BY DEF CleanIInv, CleanInv, AppliedByAll
  <2> QED  BY <2>1, <2>2
<1> QED  BY <1>1, CleaningInvariant, PTL

-----------------------------------------------------------------------------
\* The slots that threads are about to read, in a steady cluster: there a thread
\* of the leader never goes back below what its follower has in its log, and that
\* is more than the follower has applied.

\* What is removed of a log is below what every member has applied.
LEMMA RemovedBelow ==
    ASSUME TypeOK, NoBadSlot, CleanIInv, NEW s \in Server, NEW u \in Server,
           NEW i \in Int, lastApplied[u] <= i, i >= 0
    PROVE  removed[s] <= i
<1>1. removed[s] \in Nat /\ lastApplied[u] \in Int
  BY DEF TypeOK, ApplyTypeOK, CleanIInv, CleanTypeOK
<1>2. removed[s] = 0 \/ removed[s] + 2 <= lastApplied[u]
  BY DEF CleanIInv, CleanInv, AppliedByAll
<1> QED  BY <1>1, <1>2

LEMMA NothingToRead ==
    ASSUME TypeOK, NothingYet, NEW s \in Server
    PROVE  AboutToRead(s) = {}
<1>1. /\ applier[s].pc = "wait" /\ appendReq = {} /\ binlog[s].len = 0
      /\ \A f \in Server : repl[s][f].pc = "none"
  BY DEF NothingYet
<1> QED  BY <1>1 DEF AboutToRead, GetLength

LEMMA ReadNotRemoved ==
    ASSUME NodeAssumption, NoBadSlot, CleanIInv, NEW l \in Server, NEW t \in Terms, Lead(l, t),
           NEW s \in Server, NEW i \in AboutToRead(s)
    PROVE  removed[s] <= i
<1>1. TypeOK  BY DEF Lead
<1>2. \A f \in Server : /\ lastApplied[f] \in Int /\ binlog[f].len \in Nat
                        /\ lastApplied[f] >= -1 /\ lastApplied[f] < binlog[f].len
  BY <1>1, NodeNumbers DEF Lead, LeadInv, CommitsOfLeader, NoBadSlot, ApplyStored
\* CommitIndex
<1>3. CASE applier[s].pc = "apply" /\ i = lastApplied[s] + 1
  <2>1. i \in Int /\ lastApplied[s] <= i /\ i >= 0  BY <1>2, <1>3
  <2> QED  BY <1>1, <2>1, RemovedBelow
\* ReplicateLog
<1>4. ASSUME NEW f \in Server, repl[s][f].pc = "built",
             i \in repl[s][f].call.index .. NextAfter(repl[s][f].call) - 1
      PROVE  removed[s] <= i
  <2>1. s = l /\ f # l  BY <1>4 DEF Lead, LeadInv, CallsOfLeader
  <2>2. ThreadKnows(l, t, f)  BY <2>1 DEF Lead, LeadInv, FollowersKnown
  <2>3. repl[s][f].call.index = binlog[f].len
    BY <1>4, <2>1, <2>2 DEF ThreadKnows, CallBuilt
  <2>4. NextAfter(repl[s][f].call) \in Nat  BY <1>1, <1>4, CallType DEF TypeOK
  <2>5. i \in Int /\ binlog[f].len <= i  BY <1>2, <1>4, <2>3, <2>4
  <2>6. lastApplied[f] <= i /\ i >= 0  BY <1>2, <2>5
  <2> QED  BY <1>1, <2>5, <2>6, RemovedBelow
<1>5. ASSUME NEW f \in Server, repl[s][f].pc = "loop", status[s] = "Leader",
             0 < nextIndex[s][f], i = nextIndex[s][f] - 1
      PROVE  removed[s] <= i
  <2>1. s = l /\ f # l  BY <1>5 DEF Lead, LeadInv, CallsOfLeader
  <2>2. ThreadKnows(l, t, f)  BY <2>1 DEF Lead, LeadInv, FollowersKnown
  <2>3. nextIndex[s][f] = binlog[f].len  BY <1>5, <2>1, <2>2 DEF ThreadKnows
  <2>4. i \in Int /\ lastApplied[f] <= i /\ i >= 0  BY <1>2, <1>5, <2>3
  <2> QED  BY <1>1, <2>4, RemovedBelow
\* AppendEntriesImpl
<1>6. ASSUME NEW m \in appendReq, m.to = s, m.entries # << >>, 0 <= m.prev, i = m.prev
      PROVE  removed[s] <= i
  <2>1. /\ CallBuilt(l, t, s) /\ RequestOf(l, s, m) /\ m \in AppendRequest
        /\ binlog[s].len = repl[l][s].call.index
    BY <1>6, CallDelivered
  <2>2. m.prev = binlog[s].len - 1  BY <2>1 DEF RequestOf
  <2>3. i \in Int /\ lastApplied[s] <= i /\ i >= 0  BY <1>2, <1>6, <2>2
  <2> QED  BY <1>1, <2>3, RemovedBelow
\* the constructor
<1>7. CASE i = binlog[s].len - 1 /\ i >= 0
  <2>1. i \in Int /\ lastApplied[s] <= i  BY <1>2, <1>7
  <2> QED  BY <1>1, <1>7, <2>1, RemovedBelow
<1>8. \/ applier[s].pc = "apply" /\ i = lastApplied[s] + 1
      \/ \E f \in Server : /\ repl[s][f].pc = "built"
                           /\ i \in repl[s][f].call.index .. NextAfter(repl[s][f].call) - 1
      \/ \E f \in Server : /\ repl[s][f].pc = "loop" /\ status[s] = "Leader"
                           /\ 0 < nextIndex[s][f] /\ i = nextIndex[s][f] - 1
      \/ \E m \in appendReq : m.to = s /\ m.entries # << >> /\ 0 <= m.prev /\ i = m.prev
      \/ i = binlog[s].len - 1 /\ i >= 0
  <2> DEFINE A == {lastApplied[s] + 1 : a \in {a \in {applier[s]} : a.pc = "apply"}}
             B == UNION {repl[s][f].call.index .. NextAfter(repl[s][f].call) - 1 :
                            f \in {f \in Server : repl[s][f].pc = "built"}}
             C == {nextIndex[s][f] - 1 : f \in {f \in Server :
                      /\ repl[s][f].pc = "loop" /\ status[s] = "Leader"
                      /\ 0 < nextIndex[s][f] /\ nextIndex[s][f] < GetLength(binlog[s])}}
             D == {m.prev : m \in {m \in appendReq :
                      /\ m.to = s /\ m.entries # << >> /\ m.term >= currentTerm[s]
                      /\ 0 <= m.prev /\ m.prev < GetLength(binlog[s])}}
             E == {j \in {GetLength(binlog[s]) - 1} : j >= 0}
  <2>1. i \in A => applier[s].pc = "apply" /\ i = lastApplied[s] + 1  OBVIOUS
  <2>2. i \in B => \E f \in Server :
           repl[s][f].pc = "built" /\ i \in repl[s][f].call.index .. NextAfter(repl[s][f].call) - 1
    <3>1. ASSUME i \in B
          PROVE  \E f \in {f \in Server : repl[s][f].pc = "built"} :
                    i \in repl[s][f].call.index .. NextAfter(repl[s][f].call) - 1
      BY <3>1, Zenon
    <3> QED  BY <3>1
  <2>3. i \in C => \E f \in Server : /\ repl[s][f].pc = "loop" /\ status[s] = "Leader"
                                    /\ 0 < nextIndex[s][f] /\ i = nextIndex[s][f] - 1
    OBVIOUS
  <2>4. i \in D => \E m \in appendReq :
           m.to = s /\ m.entries # << >> /\ 0 <= m.prev /\ i = m.prev
    OBVIOUS
  <2>5. i \in E => i = binlog[s].len - 1 /\ i >= 0  BY DEF GetLength
  <2>6. AboutToRead(s) = A \cup B \cup C \cup D \cup E  BY DEF AboutToRead
  <2> HIDE DEF A, B, C, D, E
  <2> QED  BY <2>1, <2>2, <2>3, <2>4, <2>5, <2>6
<1> QED  BY <1>3, <1>4, <1>5, <1>6, <1>7, <1>8

\* Without restarts the cluster that is being cleaned is the one of Spec.
LEMMA CleaningOfSpec == CleanSpec => Spec /\ CleanCrashSpec
<1>1. CleanInit => Init  BY DEF CleanInit
<1>2. [CleanNext]_allVars => [Next]_vars
  BY DEF CleanNext, GarbageClean, ShowStatus, ShowStatusFails, NoteSafeIndex, CleanBinlog,
     CleanBinlogFails, CleanBinlogLate, DelBinlog, allVars
<1>3. [CleanNext]_allVars => [CleanNext \/ \E s \in Server : CleanCrash(s)]_allVars
  OBVIOUS
<1> QED  BY <1>1, <1>2, <1>3, PTL DEF CleanSpec, Spec, CleanCrashSpec

\* No thread of a steady cluster is about to read a slot that was removed: what
\* ReplicateLog has still to send, CommitIndex to apply and AppendEntriesImpl to
\* compare is kept, in whatever order the calls of GarbageClean come.
THEOREM SteadyCleaning == CleanSpec => [](Steady => RemovedNotNeeded)
<1>1. TypeOK /\ NoBadSlot /\ CleanIInv /\ ElectionInv /\ SteadyInv
         => (Steady => RemovedNotNeeded)
  <2> SUFFICES ASSUME TypeOK, NoBadSlot, ElectionInv, SteadyInv, CleanIInv, Steady
               PROVE  RemovedNotNeeded
    OBVIOUS
  <2> SUFFICES ASSUME NEW s \in Server, NEW i \in AboutToRead(s)
               PROVE  removed[s] <= i
    BY DEF RemovedNotNeeded
  <2>1. CASE NothingYet  BY <2>1, NothingToRead
  <2>2. ASSUME NEW l \in Server, NEW t \in Terms, Wins(l, t), LeadInv(l, t)
        PROVE  removed[s] <= i
    <3>1. Lead(l, t)  BY <2>2 DEF Lead, SteadyInv
    <3> QED  BY <3>1, ReadNotRemoved, NodeAssumption
  <2> QED  BY <2>1, <2>2 DEF SteadyInv
<1> QED  BY <1>1, CleaningOfSpec, CleaningInvariant, SteadyInvariant, PTL

\* So it is with the clusters of one term, as the run of Cleaning has it.
COROLLARY OneTermCleaning == MaxTerm <= 1 /\ MaxFails = 0 => (CleanSpec => []RemovedNotNeeded)
BY OneTermSteady, CleaningOfSpec, SteadyCleaning, PTL
=============================================================================

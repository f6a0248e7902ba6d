-------------------------------- MODULE AirDB -------------------------------
(***************************************************************************)
(* The cluster: every thread and service method of every node, and the     *)
(* properties of the whole.  Spec has no restarts; CrashSpec adds them.    *)
(***************************************************************************)
EXTENDS Election, Replication, Apply

\* Mutant: the last_applied_index tag is not read back.
RestoredIndexNone(s) == -1

\* The constructor reads back the tag that CommitIndex wrote.
RestoredIndex(s) == lastApplied[s]

\* A node stops at any point and is started again on its databases: term, votes
\* and indexes start over, the binlog and the store are as they were, and what
\* it was waiting for is gone.  Its own calls may still reach the others.
Crash(s) ==
    /\ crashes < MaxCrashes
    /\ crashes' = crashes + 1
    /\ status' = [status EXCEPT ![s] = "Follower"]
    /\ currentTerm' = [currentTerm EXCEPT ![s] = 0]
    /\ heard' = [heard EXCEPT ![s] = FALSE]
    /\ voteFor' = [voteFor EXCEPT ![s] = [t \in Terms |-> Nil]]
    /\ votePass' = [votePass EXCEPT ![s] = [t \in Terms |-> 0]]
    /\ binlog' = [binlog EXCEPT ![s] = Reopen(@)]
    /\ nextIndex' = [nextIndex EXCEPT ![s] = [f \in Server |-> 0]]
    /\ matchIndex' = [matchIndex EXCEPT ![s] = [f \in Server |-> 0]]
    /\ repl' = [repl EXCEPT ![s] = [f \in Server |-> NoThread]]
    /\ appending' = [f \in Server |->
          IF f = s THEN {}
          ELSE {IF h.req.from = s THEN [h EXCEPT !.req = Abandon(@)] ELSE h : h \in appending[f]}]
    /\ commitIndex' = [commitIndex EXCEPT ![s] = -1]
    /\ lastApplied' = [lastApplied EXCEPT ![s] = RestoredIndex(s)]
    /\ applier' = [applier EXCEPT ![s] = [pc |-> "wait", end |-> -1]]
    /\ sdkAck' = [sdkAck EXCEPT ![s] = {}]
    /\ voteReq' = {IF m.from = s THEN Abandon(m) ELSE m : m \in voteReq}
    /\ appendReq' = {IF m.from = s THEN Abandon(m) ELSE m : m \in appendReq}
    /\ voteRes' = {m \in voteRes : m.to # s}
    /\ appendRes' = {m \in appendRes : m.to # s}
    /\ beatRes' = {m \in beatRes : m.to # s}
    /\ UNCHANGED <<store, reply, beats, fails>>

ElectionNext ==
    \/ \E s \in Server : VoteTimerHeard(s)
    \/ \E s \in Server : VoteLeader(s)
    \/ \E m \in voteReq : Vote(m)
    \/ \E m \in voteRes : VoteCallBack(m)

LeaderNext ==
    \/ \E s, f \in Server : ReplicateStop(s, f)
    \/ \E s, f \in Server : ReplicateBuild(s, f)
    \/ \E s, f \in Server : ReplicateSend(s, f)
    \/ \E s, f \in Server : ReplicateAnswer(s, f)
    \/ \E s, f \in Server : ReplicateFail(s, f)

\* AppendEntries takes heartbeats and entries alike.
HeartBeatNext ==
    \/ \E s \in Server : BroadCastHeartBeat(s)
    \/ \E m \in appendReq : AppendEntries(m)
    \/ \E m \in beatRes : HeartBeatCallBack(m)

FollowerNext ==
    \/ \E s \in Server : \E h \in appending[s] : AppendWrite(s, h)
    \/ \E s \in Server : \E h \in appending[s] : AppendFinish(s, h)

ApplyNext ==
    \/ \E s \in Server, r \in Request : Put(s, r)
    \/ \E s \in Server, r \in Request : Delete(s, r)
    \/ \E s \in Server, r \in Request : Lock(s, r)
    \/ \E s \in Server, r \in Request : UnLock(s, r)
    \/ \E s \in Server : CommitBegin(s)
    \/ \E s \in Server : CommitStore(s)
    \/ \E s \in Server : CommitAck(s)

Next == ElectionNext \/ LeaderNext \/ HeartBeatNext \/ FollowerNext \/ ApplyNext

Spec == Init /\ [][Next]_vars

\* The behaviours of Spec in which no ReplicateLog thread gets to run and no
\* client writes: elections and heartbeats only.
ElectionSpec == Init /\ [][ElectionNext \/ HeartBeatNext]_vars

\* Threads are scheduled, timers fire and calls are delivered.  A call of
\* ReplicateLog may still time out, MaxFails times.
Fairness ==
    /\ \A s \in Server :
        /\ WF_vars(VoteLeader(s))
        /\ WF_vars(BroadCastHeartBeat(s))
        /\ WF_vars(CommitBegin(s)) /\ WF_vars(CommitStore(s)) /\ WF_vars(CommitAck(s))
        /\ WF_vars(\E h \in appending[s] : AppendWrite(s, h))
        /\ WF_vars(\E h \in appending[s] : AppendFinish(s, h))
        /\ WF_vars(\E m \in voteReq : m.to = s /\ Vote(m))
        /\ WF_vars(\E m \in voteRes : m.to = s /\ VoteCallBack(m))
        /\ WF_vars(\E m \in appendReq : m.to = s /\ m.entries = << >> /\ AppendEntries(m))
        /\ WF_vars(\E m \in appendReq : m.to = s /\ m.entries # << >> /\ AppendEntries(m))
        /\ \A f \in Server :
            /\ WF_vars(ReplicateBuild(s, f))
            /\ WF_vars(ReplicateSend(s, f))
            /\ WF_vars(ReplicateAnswer(s, f))

FairSpec == Spec /\ Fairness

CrashSpec == Init /\ [][Next \/ \E s \in Server : Crash(s)]_vars

-----------------------------------------------------------------------------
\* The type of every variable.

ElectionTypeOK ==
    /\ status \in [Server -> {"Leader", "Candidate", "Follower"}]
    /\ currentTerm \in [Server -> Terms]
    /\ heard \in [Server -> BOOLEAN]
    /\ voteFor \in [Server -> [Terms -> Server \cup {Nil}]]
    /\ votePass \in [Server -> [Terms -> Nat]]
    /\ voteReq \subseteq VoteRequest
    /\ voteRes \subseteq VoteResponse

LogTypeOK == binlog \in [Server -> BinLogs(Entry, Terms)]

ReplicationTypeOK ==
    /\ nextIndex \in [Server -> [Server -> Nat]]
    /\ matchIndex \in [Server -> [Server -> Int]]
    /\ repl \in [Server -> [Server -> ReplState]]
    /\ appending \in [Server -> SUBSET Appending]
    /\ appendReq \subseteq AppendRequest
    /\ appendRes \subseteq AppendResponse
    /\ beatRes \subseteq BeatResponse

ApplyTypeOK ==
    /\ commitIndex \in [Server -> Int]
    /\ lastApplied \in [Server -> Int]
    /\ applier \in [Server -> [pc: {"wait", "apply", "ack"}, end: Int]]
    /\ store \in [Server -> [Key -> Value]]
    /\ sdkAck \in [Server -> SUBSET Ack]
    /\ reply \in [Request -> {"idle", "sent", "ok"}]
    /\ beats \in Nat /\ fails \in 0 .. MaxFails
    /\ crashes \in 0 .. MaxCrashes

TypeOK == ElectionTypeOK /\ LogTypeOK /\ ReplicationTypeOK /\ ApplyTypeOK

-----------------------------------------------------------------------------
\* Elections.

\* Two leaders never have the same term.  What VoteLeader, Vote and
\* VoteCallBack are for: one vote per node and term, a majority per leader.
ElectionSafety ==
    \A s, u \in Server :
        status[s] = "Leader" /\ status[u] = "Leader" /\ currentTerm[s] = currentTerm[u]
            => s = u

\* The nodes that voted for s in term t, and those of them whose vote s has yet
\* to count: the call is not delivered, or the answer is not.
Voters(s, t) == {v \in Server : voteFor[v][t] = s}
Pending(s, t) ==
    {v \in Server : \/ \E m \in voteReq : m.from = s /\ m.to = v /\ m.term = t
                    \/ \E m \in voteRes : m.from = v /\ m.to = s /\ m.term = t /\ m.pass}
Counted(s, t) == Voters(s, t) \ Pending(s, t)

\* At every moment a leader has the votes of more than half of the members in
\* its own term, whatever happened to its term and theirs since it was elected.
LeaderHasMajority ==
    \A s \in Server :
        status[s] = "Leader" => 2 * Cardinality(Voters(s, currentTerm[s])) > Cardinality(Server)

\* Nobody has voted, counted a vote or asked for one beyond its own term.
TermsInv ==
    \A s \in Server : \A t \in Terms : t > currentTerm[s] =>
        /\ voteFor[s][t] = Nil
        /\ votePass[s][t] = 0
        /\ \A m \in voteReq : m.from = s => m.term # t
        /\ \A m \in voteRes : m.to = s /\ m.pass => m.term # t

\* A candidate asks a node once per term, and while a vote is on its way back
\* no call for it is under way.
VoteCallsInv ==
    /\ \A m, n \in voteReq : m.from = n.from /\ m.to = n.to /\ m.term = n.term => m = n
    /\ \A m \in voteRes : m.pass =>
        /\ voteFor[m.from][m.term] = m.to
        /\ \A n \in voteReq : ~(n.from = m.to /\ n.to = m.from /\ n.term = m.term)

\* Every vote counted was given, by a node of its own.
VotesInv ==
    \A s \in Server : \A t \in Terms : votePass[s][t] <= Cardinality(Counted(s, t))

LeaderInv ==
    \A s \in Server : status[s] = "Leader" => EnoughVotes(votePass[s][currentTerm[s]])

\* The inductive invariant behind ElectionSafety: a vote is counted at most
\* once and only in the term it was given for, so that the count of a leader
\* stands for that many distinct voters.
ElectionInv == TermsInv /\ VoteCallsInv /\ VotesInv /\ LeaderInv

\* The term of a node never goes back, though AppendEntriesImpl, Vote and the
\* three callbacks all assign it.
TermsGrow == [][\A s \in Server : currentTerm'[s] >= currentTerm[s]]_vars

-----------------------------------------------------------------------------
\* Logs.

\* What the threads that read slots without mu_ rely on: the slots up to the
\* commit index, the slots CommitIndex is applying, and the slots ReplicateLog
\* is sending are in the database.
CommitStored == \A s \in Server : commitIndex[s] < Len(binlog[s].slot)
ApplyStored ==
    \A s \in Server :
        /\ lastApplied[s] >= -1
        /\ applier[s].pc # "wait" =>
            lastApplied[s] < applier[s].end /\ applier[s].end < Len(binlog[s].slot)
CallStored ==
    \A s, f \in Server : repl[s][f].pc \in {"built", "sent"} =>
        NextAfter(repl[s][f].call) <= Len(binlog[s].slot)

\* A slot that is read is in the database, although threads read without mu_
\* what was decided under it while Truncate may run: the asserts of CommitIndex
\* and AppendEntriesImpl hold, and no ReplicateLog thread meets a bad slot.
NoBadSlot == CommitStored /\ ApplyStored /\ CallStored

Extends(long, short) == Len(short) <= Len(long) /\ short = SubSeq(long, 1, Len(short))

\* A leader's log only grows while it is leader, also by a write it accepted
\* as a follower and makes after it was elected.
LeaderAppends ==
    [][\A s \in Server : status[s] = "Leader" /\ status'[s] = "Leader" =>
          Extends(Entries(binlog'[s]), Entries(binlog[s]))]_vars

\* With one leader and no failed call, every log is a prefix of the leader's.
FollowsLeader ==
    \A l, s \in Server : status[l] = "Leader" => Extends(Entries(binlog[l]), Entries(binlog[s]))

\* What a node holds as committed is in the logs of more than half of the
\* members, at the same slot.
HasEntry(u, i, e) == i < GetLength(binlog[u]) /\ ReadSlot(binlog[u], i) = e
CommittedOnMajority ==
    \A s \in Server : \A i \in 0 .. commitIndex[s] :
        2 * Cardinality({u \in Server : HasEntry(u, i, ReadSlot(binlog[s], i))})
            > Cardinality(Server)

\* Two nodes hold the same entry in a slot that both hold as committed, and so
\* apply the same operations: what README.md says Raft is used for.
CommittedAgree ==
    \A s, u \in Server : \A i \in 0 .. Lesser(commitIndex[s], commitIndex[u]) :
        ReadSlot(binlog[s], i) = ReadSlot(binlog[u], i)

-----------------------------------------------------------------------------
\* Clients and databases.

\* The database after the first n + 1 of a list of entries.
EmptyDb == [k \in Key |-> Nil]
DbAfter(entries, n) ==
    LET db[i \in -1 .. n] == IF i = -1 THEN EmptyDb ELSE Effect(db[i - 1], entries[i + 1])
    IN  db[n]
Applied(s, n) == DbAfter(binlog[s].slot, n)

\* Through restarts, the database is what the applied entries make it; the
\* entry after the last one counted may be in it already, and is then applied
\* a second time without harm.
StoreIsLog ==
    \A s \in Server : \E n \in {lastApplied[s], lastApplied[s] + 1} :
        n < Len(binlog[s].slot) /\ store[s] = Applied(s, n)

\* The last slot whose entry is in the database of s.
InStore(s) ==
    IF applier[s].pc = "ack" \/ store[s] # Applied(s, lastApplied[s])
    THEN lastApplied[s] + 1 ELSE lastApplied[s]

\* An entry that is in the database stays in its slot: Truncate moves the
\* length below applied slots if the leader says so, and the next write would
\* put other entries there.
AppliedKept ==
    \A s \in Server : \A i \in StoredSlots(binlog[s]) :
        i <= InStore(s) => ReadSlot(binlog'[s], i) = ReadSlot(binlog[s], i)
AppliedStays == [][AppliedKept]_vars

\* A write the client was told of is in the binlogs of a majority, also after a
\* restart of any node (not at one slot: a restart can leave entries twice).
InLog(u, r) == \E i \in 1 .. GetLength(binlog[u]) : Entries(binlog[u])[i].req = r
AnsweredKept ==
    \A r \in Request : reply[r] = "ok" =>
        2 * Cardinality({u \in Server : InLog(u, r)}) > Cardinality(Server)

\* A write that was answered under an earlier term is in the log of the leader:
\* the log comparison of Vote, the majority of UpdateCommitIndex and the term
\* that AppendEntriesImpl answers with after its write make it so together.
LeaderComplete ==
    \A l, s \in Server : \A i \in 1 .. GetLength(binlog[s]) :
        LET e == Entries(binlog[s])[i]
        IN  /\ status[l] = "Leader" /\ e.term < currentTerm[l]
            /\ e.op # "Nop" /\ reply[e.req] = "ok"
            => InLog(l, e.req)

\* Seen from the clients the cluster is one StateMachine.  An operation is
\* chosen when the first commit index reaches it, and counts as applied once it
\* is in the node's database.
Chosen ==
    LET committed == {SubSeq(binlog[s].slot, 1, commitIndex[s] + 1) : s \in Server}
    IN  CHOOSE c \in committed : \A d \in committed : Len(d) <= Len(c)

SM == INSTANCE StateMachine WITH
    NewDb <- EmptyDb,
    chosen <- Chosen,
    done <- [s \in Server |-> lastApplied[s] + (IF applier[s].pc = "ack" THEN 2 ELSE 1)],
    db <- store,
    answered <- {r \in Request : reply[r] = "ok"}

RefinesStateMachine == SM!SMSpec

\* Every write a leader took is answered, also when a replication call timed
\* out before.
Answered == \A r \in Request : reply[r] = "sent" ~> reply[r] = "ok"

\* Every node ends up having applied all the leader's entries.
AllApplied(l) == \A s \in Server : lastApplied[s] = GetLength(binlog[l]) - 1
CaughtUp == \A l \in Server : status[l] = "Leader" ~> []<>(AllApplied(l))

\* A lock that was granted is not granted to another call before it is given
\* back: README.md calls it a distributed lock.
LockExclusive ==
    \A q, r \in Request :
        /\ ReqKind[q] = "Lock" /\ ReqKind[r] = "Lock" /\ ReqKey[q] = ReqKey[r]
        /\ reply[q] = "ok" /\ reply[r] = "ok"
        /\ \A u \in Request : ReqKind[u] = "UnLock" => reply[u] = "idle"
        => q = r
=============================================================================

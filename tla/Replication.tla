----------------------------- MODULE Replication ----------------------------
(***************************************************************************)
(* Log replication and heartbeats: the ReplicateLog thread a leader runs   *)
(* for each follower, BroadCastHeartBeat and its callback, and the         *)
(* follower's AppendEntries service method.                                *)
(***************************************************************************)
EXTENDS Node

\* The thread wakes from replica_cond_ on a node that lost its leadership.
ReplicateStop(s, f) ==
    /\ repl[s][f].pc = "loop"
    /\ status[s] # "Leader"
    /\ repl' = [repl EXCEPT ![s][f] = NoThread]
    /\ UNCHANGED <<electionVars, binlog, nextIndex, matchIndex, appending, commitIndex,
                   applyVars, clientVars, voteNet, appendNet, boundVars>>

\* There are slots the follower lacks: what the call needs of the node's state
\* is read, and mu_ released.  After a failed call one entry is sent at a time.
BuildCall(s, f) ==
    LET index == nextIndex[s][f]
        batch == GetLength(binlog[s]) - index
    IN  [index    |-> index,
         batch    |-> IF repl[s][f].ok THEN batch ELSE Lesser(1, batch),
         term     |-> currentTerm[s],
         prevTerm |-> IF index > 0 THEN ReadSlot(binlog[s], index - 1).term ELSE -1,
         commit   |-> commitIndex[s],
         terms    |-> {}]

ReplicateBuild(s, f) ==
    /\ f \in Replica
    /\ repl[s][f].pc = "loop"
    /\ status[s] = "Leader"
    /\ GetLength(binlog[s]) > nextIndex[s][f]
    /\ repl' = [repl EXCEPT ![s][f] = [pc |-> "built", ok |-> @.ok, call |-> BuildCall(s, f)]]
    /\ UNCHANGED <<electionVars, binlog, nextIndex, matchIndex, appending, commitIndex,
                   applyVars, clientVars, voteNet, appendNet, boundVars>>

\* Without mu_: the slots are read, whatever they hold by now, and sent.
ReplicateSend(s, f) ==
    /\ repl[s][f].pc = "built"
    /\ LET call    == repl[s][f].call
           entries == SubSeq(binlog[s].slot, call.index + 1, call.index + call.batch)
           terms   == {entries[i].term : i \in 1 .. Len(entries)}
       IN  /\ appendReq' = appendReq \cup
                {[from |-> s, to |-> f, term |-> call.term, rpc |-> TRUE,
                  prev |-> call.index - 1, prevTerm |-> call.prevTerm,
                  commit |-> call.commit, entries |-> entries]}
           /\ repl' = [repl EXCEPT ![s][f] = [pc |-> "sent", ok |-> @.ok,
                                              call |-> [call EXCEPT !.terms = terms]]]
    /\ UNCHANGED <<electionVars, binlog, nextIndex, matchIndex, appending, commitIndex,
                   applyVars, clientVars, voteNet, appendRes, beatRes, boundVars>>

\* Mutant: everything in the leader's log is committed.
UpdateCommitIndexAll(s, match, index) ==
    [commitIndex EXCEPT ![s] = GetLength(binlog[s]) - 1]

\* UpdateCommitIndex: the members whose match_index_ is exactly index are
\* counted against half of the cluster, the leader's own entry of the map
\* (never assigned, so 0) included.
UpdateCommitIndex(s, match, index) ==
    IF /\ Cardinality({x \in Server : match[x] = index}) >= Cardinality(Server) \div 2
       /\ index > commitIndex[s]
    THEN [commitIndex EXCEPT ![s] = index]
    ELSE commitIndex

MaxIs(terms, t) == t \in terms /\ \A u \in terms : u <= t

\* The answer arrives (status and term of the node may have changed since).
ReplicateNewerTerm(s, f, m) ==
    /\ m.term > currentTerm[s]
    /\ status' = [status EXCEPT ![s] = "Follower"]
    /\ currentTerm' = [currentTerm EXCEPT ![s] = m.term]
    /\ repl' = [repl EXCEPT ![s][f] = NoThread]
    /\ UNCHANGED <<nextIndex, matchIndex, commitIndex>>

ReplicateNotLeader(s, f, m) ==
    /\ m.term <= currentTerm[s]
    /\ status[s] # "Leader"
    /\ repl' = [repl EXCEPT ![s][f] = NoThread]
    /\ UNCHANGED <<status, currentTerm, nextIndex, matchIndex, commitIndex>>

\* Mutant: the last slot sent is sent again.
NextAfterLast(call) == call.index + call.batch - 1

NextAfter(call) == call.index + call.batch

ReplicateSuccess(s, f, m) ==
    LET call == repl[s][f].call
        next == NextAfter(call)
    IN  /\ m.term <= currentTerm[s] /\ status[s] = "Leader"
        /\ m.success
        /\ nextIndex' = [nextIndex EXCEPT ![s][f] = next]
        /\ matchIndex' = [matchIndex EXCEPT ![s][f] = next - 1]
        /\ commitIndex' = IF MaxIs(call.terms, currentTerm[s])
                          THEN UpdateCommitIndex(s, matchIndex'[s], next - 1)
                          ELSE commitIndex
        /\ repl' = [repl EXCEPT ![s][f] = LoopHead(TRUE)]
        /\ UNCHANGED <<status, currentTerm>>

ReplicateBusy(s, f, m) ==
    /\ m.term <= currentTerm[s] /\ status[s] = "Leader"
    /\ ~m.success /\ m.busy
    /\ repl' = [repl EXCEPT ![s][f] = LoopHead(TRUE)]
    /\ UNCHANGED <<status, currentTerm, nextIndex, matchIndex, commitIndex>>

ReplicateBackoff(s, f, m) ==
    /\ m.term <= currentTerm[s] /\ status[s] = "Leader"
    /\ ~m.success /\ ~m.busy
    /\ nextIndex' = [nextIndex EXCEPT ![s][f] = Greater(0, Lesser(@ - 1, m.len))]
    /\ repl' = [repl EXCEPT ![s][f] = LoopHead(@.ok)]
    /\ UNCHANGED <<status, currentTerm, matchIndex, commitIndex>>

ReplicateAnswer(s, f) ==
    /\ repl[s][f].pc = "sent"
    /\ \E m \in appendRes :
        /\ m.from = f /\ m.to = s
        /\ appendRes' = appendRes \ {m}
        /\ \/ ReplicateNewerTerm(s, f, m)
           \/ ReplicateNotLeader(s, f, m)
           \/ ReplicateSuccess(s, f, m)
           \/ ReplicateBusy(s, f, m)
           \/ ReplicateBackoff(s, f, m)
    /\ UNCHANGED <<heard, voteFor, votePass, binlog, appending, applyVars, clientVars, voteNet,
                   appendReq, beatRes, boundVars>>

\* The call fails (60 s, or the connection).  It may still be delivered, or be
\* at work at the follower, but its answer is dropped.
IsCall(m, s, f) == m.from = s /\ m.to = f /\ m.entries # << >>
Abandon(m) == [m EXCEPT !.rpc = FALSE]

\* Mutant: the thread ends on a failed call (the code has that commented out).
AfterFailEnd(s) == NoThread

AfterFail(s) == IF status[s] = "Leader" THEN LoopHead(FALSE) ELSE NoThread

ReplicateFail(s, f) ==
    /\ repl[s][f].pc = "sent"
    /\ fails < MaxFails
    /\ fails' = fails + 1
    /\ repl' = [repl EXCEPT ![s][f] = AfterFail(s)]
    /\ appendReq' = {IF IsCall(m, s, f) THEN Abandon(m) ELSE m : m \in appendReq}
    /\ appending' = [appending EXCEPT ![f] =
          {IF IsCall(h.req, s, f) THEN [h EXCEPT !.req = Abandon(@)] ELSE h : h \in @}]
    /\ appendRes' = {m \in appendRes : ~(m.from = f /\ m.to = s)}
    /\ UNCHANGED <<electionVars, binlog, nextIndex, matchIndex, commitIndex, applyVars,
                   clientVars, voteNet, beatRes, beats, crashes>>

-----------------------------------------------------------------------------
\* The heartbeat timer on a leader.  A call that is never delivered is a lost
\* one, and the calls to servers outside Replica are lost; a repeated call that
\* is still in flight adds nothing.
BroadCastHeartBeat(s) ==
    /\ status[s] = "Leader"
    /\ Replica \ {s} # {}
    /\ \/ MaxBeats = Nil /\ UNCHANGED beats
       \/ MaxBeats # Nil /\ beats < MaxBeats /\ beats' = beats + 1
    /\ appendReq' = appendReq \cup
          {[from |-> s, to |-> f, term |-> currentTerm[s], rpc |-> TRUE,
            prev |-> 0, prevTerm |-> 0, commit |-> commitIndex[s],
            entries |-> << >>] : f \in Replica \ {s}}
    /\ UNCHANGED <<electionVars, binlog, leaderVars, appending, commitIndex, applyVars,
                   clientVars, voteNet, appendRes, beatRes, fails, crashes>>

HeartBeatCallBack(m) ==
    /\ beatRes' = beatRes \ {m}
    /\ \/ /\ status[m.to] = "Leader" /\ m.term > currentTerm[m.to]
          /\ status' = [status EXCEPT ![m.to] = "Follower"]
          /\ currentTerm' = [currentTerm EXCEPT ![m.to] = m.term]
       \/ /\ status[m.to] # "Leader" \/ m.term <= currentTerm[m.to]
          /\ UNCHANGED <<status, currentTerm>>
    /\ UNCHANGED <<heard, voteFor, votePass, binlog, leaderVars, appending, commitIndex,
                   applyVars, clientVars, voteNet, appendReq, appendRes, boundVars>>

-----------------------------------------------------------------------------
\* AppendEntriesImpl at m.to.  The answer to a heartbeat matters only when its
\* term is newer than the heartbeat's, so no other is kept in flight.
AppendAnswer(m, t, success, busy, len) ==
    IF m.entries = << >>
    THEN /\ beatRes' = IF m.rpc /\ t > m.term
                       THEN beatRes \cup {[from |-> m.to, to |-> m.from, term |-> t]}
                       ELSE beatRes
         /\ UNCHANGED appendRes
    ELSE /\ appendRes' = IF m.rpc
                         THEN appendRes \cup {[from |-> m.to, to |-> m.from, term |-> t,
                                               success |-> success, busy |-> busy, len |-> len]}
                         ELSE appendRes
         /\ UNCHANGED beatRes

\* The caller's term is old.
AppendStale(m) ==
    /\ m.term < currentTerm[m.to]
    /\ AppendAnswer(m, currentTerm[m.to], FALSE, FALSE, GetLength(binlog[m.to]))
    /\ UNCHANGED <<electionVars, binlog, appending, commitIndex>>

\* Mutant: the term is taken over without a look at it.
FollowAnyTerm(m) ==
    /\ status' = [status EXCEPT ![m.to] = "Follower"]
    /\ currentTerm' = [currentTerm EXCEPT ![m.to] = m.term]
    /\ heard' = [heard EXCEPT ![m.to] = TRUE]
    /\ UNCHANGED <<voteFor, votePass>>

\* Any other call makes the node a follower of the caller's term.
Follow(m) ==
    /\ m.term >= currentTerm[m.to]
    /\ status' = [status EXCEPT ![m.to] = "Follower"]
    /\ currentTerm' = [currentTerm EXCEPT ![m.to] = m.term]
    /\ heard' = [heard EXCEPT ![m.to] = TRUE]
    /\ UNCHANGED <<voteFor, votePass>>

\* Mutant: the commit index of a heartbeat is not taken over.
CommitOnWrite(m) ==
    commitIndex' = IF m.entries = << >> THEN commitIndex
                   ELSE [commitIndex EXCEPT ![m.to] =
                            Lesser(GetLength(binlog[m.to]) - 1, m.commit)]

\* Mutant: the node's own length is not looked at.
CommitAsTold(m) == commitIndex' = [commitIndex EXCEPT ![m.to] = m.commit]

\* The commit index follows the leader's, downwards too, and whether or not
\* the entries below it are the leader's.
CommitUpTo(m) ==
    commitIndex' = [commitIndex EXCEPT ![m.to] =
                       Lesser(GetLength(binlog[m.to]) - 1, m.commit)]

AppendHeartBeat(m) ==
    /\ m.entries = << >>
    /\ Follow(m)
    /\ CommitUpTo(m)
    /\ AppendAnswer(m, m.term, TRUE, FALSE, 0)
    /\ UNCHANGED <<binlog, appending>>

PrevBeyond(m) == m.prev >= GetLength(binlog[m.to])
PrevMatches(m) ==
    m.prevTerm = IF m.prev >= 0 THEN ReadSlot(binlog[m.to], m.prev).term ELSE -1
ApplyLags(s) == commitIndex[s] - lastApplied[s] > MaxApplyLag

AppendBeyond(m) ==
    /\ m.entries # << >>
    /\ Follow(m)
    /\ PrevBeyond(m)
    /\ AppendAnswer(m, m.term, FALSE, FALSE, GetLength(binlog[m.to]))
    /\ UNCHANGED <<binlog, appending, commitIndex>>

\* The entry before the new ones has another term: it goes, with all after it.
AppendMismatch(m) ==
    /\ m.entries # << >>
    /\ Follow(m)
    /\ ~PrevBeyond(m) /\ ~PrevMatches(m)
    /\ binlog' = [binlog EXCEPT ![m.to] = Truncate(@, m.prev - 1)]
    /\ AppendAnswer(m, m.term, FALSE, FALSE, GetLength(binlog'[m.to]))
    /\ UNCHANGED <<appending, commitIndex>>

AppendTooFast(m) ==
    /\ m.entries # << >>
    /\ Follow(m)
    /\ ~PrevBeyond(m) /\ PrevMatches(m) /\ ApplyLags(m.to)
    /\ AppendAnswer(m, m.term, FALSE, TRUE, GetLength(binlog[m.to]))
    /\ UNCHANGED <<binlog, appending, commitIndex>>

\* The entries are accepted: mu_ is released to write them.
AppendAccept(m) ==
    /\ m.entries # << >>
    /\ Follow(m)
    /\ ~PrevBeyond(m) /\ PrevMatches(m) /\ ~ApplyLags(m.to)
    /\ appending' = [appending EXCEPT ![m.to] = @ \cup {[req |-> m, pc |-> "write"]}]
    /\ UNCHANGED <<binlog, commitIndex, appendRes, beatRes>>

AppendEntries(m) ==
    /\ appendReq' = appendReq \ {m}
    /\ \/ AppendStale(m)
       \/ AppendHeartBeat(m)
       \/ AppendBeyond(m)
       \/ AppendMismatch(m)
       \/ AppendTooFast(m)
       \/ AppendAccept(m)
    /\ UNCHANGED <<leaderVars, applyVars, clientVars, voteNet, boundVars>>

\* Without mu_: the entries go to the end of the binlog as it is now.
AppendWrite(s, h) ==
    /\ h.pc = "write"
    /\ binlog' = [binlog EXCEPT ![s] = WriteEntryList(@, h.req.entries)]
    /\ appending' = [appending EXCEPT ![s] = (@ \ {h}) \cup {[h EXCEPT !.pc = "finish"]}]
    /\ UNCHANGED <<electionVars, leaderVars, commitIndex, applyVars, clientVars, voteNet,
                   appendNet, boundVars>>

\* Mutant: the answer carries the term of the call.
FinishTermOfCall(s, h) == h.req.term

\* current_term_, which may have grown while mu_ was released.
FinishTerm(s, h) == currentTerm[s]

\* With mu_ again: the commit index, and the answer with the term of now.
AppendFinish(s, h) ==
    /\ h.pc = "finish"
    /\ CommitUpTo(h.req)
    /\ AppendAnswer(h.req, FinishTerm(s, h), TRUE, FALSE, 0)
    /\ appending' = [appending EXCEPT ![s] = @ \ {h}]
    /\ UNCHANGED <<electionVars, binlog, leaderVars, applyVars, clientVars, voteNet, appendReq,
                   boundVars>>
=============================================================================

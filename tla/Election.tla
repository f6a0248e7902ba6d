------------------------------ MODULE Election ------------------------------
(***************************************************************************)
(* Leader election: VoteLeader (the vote timer), the Vote service method,  *)
(* VoteCallBack, and what SwitchToLeader starts.                           *)
(***************************************************************************)
EXTENDS Node

\* The vote timer fires on a follower that got an AppendEntries since the last
\* time: the counter is cleared and the timer set again.
VoteTimerHeard(s) ==
    /\ currentTerm[s] + 1 \in Candidacy[s]
    /\ status[s] = "Follower"
    /\ heard[s]
    /\ heard' = [heard EXCEPT ![s] = FALSE]
    /\ UNCHANGED <<status, currentTerm, voteFor, votePass, binlog, leaderVars, appending,
                   commitIndex, applyVars, clientVars, voteNet, appendNet, boundVars>>

\* The vote timer fires on a candidate, or on a follower that heard nothing:
\* a new term, a vote for itself, and a Vote call to every other member.
VoteLeader(s) ==
    /\ currentTerm[s] + 1 \in Candidacy[s]
    /\ \/ status[s] = "Candidate"
       \/ status[s] = "Follower" /\ ~heard[s]
    /\ LET t == currentTerm[s] + 1
       IN  /\ currentTerm' = [currentTerm EXCEPT ![s] = t]
           /\ status' = [status EXCEPT ![s] = "Candidate"]
           /\ voteFor' = [voteFor EXCEPT ![s][t] = s]
           /\ votePass' = [votePass EXCEPT ![s][t] = @ + 1]
           /\ voteReq' = voteReq \cup
                {[from |-> s, to |-> f, term |-> t, rpc |-> TRUE,
                  lastIndex |-> LastLogIndex(binlog[s]),
                  lastTerm |-> LastLogTerm(binlog[s])] : f \in Server \ {s}}
    /\ UNCHANGED <<heard, binlog, leaderVars, appending, commitIndex, applyVars, clientVars,
                   voteRes, appendNet, boundVars>>

-----------------------------------------------------------------------------
\* The Vote service method at m.to.

LogBehind(m) ==
    LET b == binlog[m.to]
    IN  \/ m.lastTerm < LastLogTerm(b)
        \/ m.lastTerm = LastLogTerm(b) /\ m.lastIndex < LastLogIndex(b)

\* An answer that VoteCallBack would ignore (a refusal whose term is not newer
\* than the call's), or that nobody waits for, is not kept in flight.
VoteAnswer(m, t, pass) ==
    /\ voteReq' = voteReq \ {m}
    /\ voteRes' = IF m.rpc /\ (pass \/ t > m.term)
                  THEN voteRes \cup {[from |-> m.to, to |-> m.from, term |-> t, pass |-> pass]}
                  ELSE voteRes

\* A leader returns without running done: the caller gets no answer.
VoteByLeader(m) ==
    /\ status[m.to] = "Leader"
    /\ voteReq' = voteReq \ {m}
    /\ UNCHANGED <<electionVars, voteRes>>

\* An old term, or a log older than the voter's, is refused; the voter's term
\* and status stay as they are even when m.term is newer.
VoteRefused(m) ==
    /\ status[m.to] # "Leader"
    /\ m.term < currentTerm[m.to] \/ LogBehind(m)
    /\ VoteAnswer(m, currentTerm[m.to], FALSE)
    /\ UNCHANGED electionVars

\* Mutant: a second candidate of the term gets the vote too.
MayVoteTwice(m) == TRUE

\* vote_for_ has no other candidate for that term.
MayVote(m) == voteFor[m.to][m.term] \in {Nil, m.from}

\* Mutant: the vote is given and not noted.
RecordNoVote(m) == voteFor

RecordVote(m) == [voteFor EXCEPT ![m.to][m.term] = m.from]

\* A newer term makes the voter a follower; the vote of the term goes to the
\* first candidate that asks.
VoteDecided(m) ==
    /\ status[m.to] # "Leader"
    /\ m.term >= currentTerm[m.to] /\ ~LogBehind(m)
    /\ status' = IF m.term > currentTerm[m.to]
                 THEN [status EXCEPT ![m.to] = "Follower"] ELSE status
    /\ currentTerm' = [currentTerm EXCEPT ![m.to] = m.term]
    /\ voteFor' = IF MayVote(m) THEN RecordVote(m) ELSE voteFor
    /\ VoteAnswer(m, m.term, MayVote(m))
    /\ UNCHANGED <<heard, votePass>>

Vote(m) ==
    /\ VoteByLeader(m) \/ VoteRefused(m) \/ VoteDecided(m)
    /\ UNCHANGED <<binlog, leaderVars, appending, commitIndex, applyVars, clientVars,
                   appendNet, boundVars>>

-----------------------------------------------------------------------------
\* StartReplicaLog: a follower without a running ReplicateLog gets its indexes
\* reset and a new thread; the others keep what the running thread left there.
\* The Nop is written after the indexes are taken.
StartReplicaLog(s) ==
    LET fresh == Server \ (Replicating(s) \cup {s})
    IN  /\ nextIndex' = [nextIndex EXCEPT ![s] =
             [f \in Server |-> IF f \in fresh THEN GetLength(binlog[s]) ELSE @[f]]]
        /\ matchIndex' = [matchIndex EXCEPT ![s] =
             [f \in Server |-> IF f \in fresh THEN -1 ELSE @[f]]]
        /\ repl' = [repl EXCEPT ![s] =
             [f \in Server |-> IF f \in fresh THEN LoopHead(TRUE)
                               ELSE @[f]]]
        /\ binlog' = [binlog EXCEPT ![s] = WriteEntry(@, NopEntry(currentTerm[s]))]

\* VoteCallBack counts a vote of the current term, and on a majority of
\* all_server_addr_ runs SwitchToLeader.
EnoughVotes(n) == n > Cardinality(Server) \div 2

\* Mutant: a late vote of an earlier term counts for the present one.
VoteOfAnyTerm(m) == m.term <= currentTerm[m.to]

VoteOfTerm(m) == m.term = currentTerm[m.to]

VoteCounted(m) ==
    LET s == m.to
        n == votePass[s][currentTerm[s]] + 1
    IN  /\ status[s] = "Candidate" /\ VoteOfTerm(m) /\ m.pass
        /\ votePass' = [votePass EXCEPT ![s][currentTerm[s]] = n]
        /\ \/ /\ EnoughVotes(n)
              /\ status' = [status EXCEPT ![s] = "Leader"]
              /\ StartReplicaLog(s)
           \/ /\ ~EnoughVotes(n)
              /\ UNCHANGED <<status, binlog, leaderVars>>
        /\ UNCHANGED <<currentTerm, heard, voteFor>>

VoteNewerTerm(m) ==
    /\ status[m.to] = "Candidate" /\ m.term > currentTerm[m.to]
    /\ status' = [status EXCEPT ![m.to] = "Follower"]
    /\ currentTerm' = [currentTerm EXCEPT ![m.to] = m.term]
    /\ UNCHANGED <<heard, voteFor, votePass, binlog, leaderVars>>

VoteIgnored(m) ==
    /\ \/ status[m.to] # "Candidate"
       \/ m.term < currentTerm[m.to]
       \/ m.term = currentTerm[m.to] /\ ~m.pass
    /\ UNCHANGED <<electionVars, binlog, leaderVars>>

VoteCallBack(m) ==
    /\ voteRes' = voteRes \ {m}
    /\ VoteCounted(m) \/ VoteNewerTerm(m) \/ VoteIgnored(m)
    /\ UNCHANGED <<appending, commitIndex, applyVars, clientVars, voteReq, appendNet,
                   boundVars>>
=============================================================================

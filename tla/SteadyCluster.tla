---------------------------- MODULE SteadyCluster ----------------------------
(***************************************************************************)
(* What the members know of each other as long as the cluster is steady:   *)
(* at most one election has been won so far, and no replication call has   *)
(* been given up.  Nodes may still time out, become candidates and lose,   *)
(* the leader may hear of a newer term and step down, and messages take    *)
(* any order.  Nothing here is assumed of the number of members, requests  *)
(* or terms.                                                               *)
(***************************************************************************)
EXTENDS AirDB

\* s won the election of term t: vote_pass_ keeps its counts.
Wins(s, t) == EnoughVotes(votePass[s][t])

Steady ==
    /\ fails = 0
    /\ \A s, u \in Server : \A t, w \in Terms : Wins(s, t) /\ Wins(u, w) => s = u /\ t = w

-----------------------------------------------------------------------------
\* Elections: a candidate has a term of its own and has not won yet, and asks
\* the other members only.
CandidateInv ==
    /\ \A s \in Server : votePass[s][0] = 0
    /\ \A m \in voteReq : m.from # m.to
    /\ \A m \in voteRes : m.from # m.to
    /\ \A s \in Server : status[s] = "Candidate" =>
        /\ currentTerm[s] > 0
        /\ Server # {s} => ~Wins(s, currentTerm[s])

\* Before an election is won nothing is written, called or asked.
NothingYet ==
    /\ \A s \in Server : status[s] # "Leader"
    /\ \A s \in Server : binlog[s].len = 0 /\ binlog[s].slot = << >>
    /\ \A s, f \in Server : repl[s][f].pc = "none" /\ matchIndex[s][s] = 0
    /\ appendReq = {} /\ appendRes = {}
    /\ \A s \in Server : appending[s] = {} /\ sdkAck[s] = {}
    /\ \A s \in Server : commitIndex[s] = -1 /\ lastApplied[s] = -1 /\ applier[s].pc = "wait"
    /\ \A r \in Request : reply[r] = "idle"

\* Every call comes from l, which won in term t, every answer goes to it, and
\* it takes the clients' calls.  No call tells of more than l has committed.
OfLeader(l, t, m) ==
    m.from = l /\ m.to # l /\ m.term = t /\ m.rpc /\ m.commit <= commitIndex[l]
CallsOfLeader(l, t) ==
    /\ \A s, f \in Server : repl[s][f].pc # "none" => s = l /\ f # l
    /\ \A m \in appendReq : OfLeader(l, t, m)
    /\ \A s \in Server : \A h \in appending[s] : OfLeader(l, t, h.req) /\ h.req.to = s
    /\ \A m \in appendRes : m.to = l /\ m.from # l
    /\ \A s \in Server \ {l} : sdkAck[s] = {}

\* Every log is a prefix of l's; none was ever truncated.
LogsOfLeader(l) ==
    \A s \in Server :
        /\ binlog[s].len = Len(binlog[s].slot) /\ binlog[s].len <= binlog[l].len
        /\ \A i \in 1 .. binlog[s].len : binlog[s].slot[i] = binlog[l].slot[i]

\* The call that l's thread for f has built, and the request that was made of it.
CallBuilt(l, t, f) ==
    LET call == repl[l][f].call
    IN  /\ call.index = nextIndex[l][f] /\ call.batch > 0 /\ NextAfter(call) <= binlog[l].len
        /\ call.term = t /\ call.commit <= commitIndex[l]
        /\ call.prevTerm = IF call.index > 0 THEN binlog[l].slot[call.index].term ELSE -1
RequestOf(l, f, m) ==
    LET call == repl[l][f].call
    IN  /\ m.prev = call.index - 1 /\ m.prevTerm = call.prevTerm
        /\ Len(m.entries) = call.batch
        /\ \A i \in 1 .. call.batch : m.entries[i] = binlog[l].slot[call.index + i]

\* What is on its way between l and f: the calls with entries not yet delivered,
\* and the answers.
CallsTo(f) == {m \in appendReq : m.to = f /\ m.entries # << >>}
AnswersOf(f) == {m \in appendRes : m.from = f}
NothingUnderWay(f) == CallsTo(f) = {} /\ appending[f] = {} /\ AnswersOf(f) = {}

\* The thread for f sent one call: it is not delivered, or at work at f, or
\* answered, and the answer says whether f has the entries.
CallUnderWay(l, t, f) ==
    LET call == repl[l][f].call
        len  == binlog[f].len
    IN  \/ /\ \E m \in appendReq : CallsTo(f) = {m} /\ RequestOf(l, f, m)
           /\ appending[f] = {} /\ AnswersOf(f) = {}
           /\ len = call.index
        \/ /\ CallsTo(f) = {} /\ AnswersOf(f) = {}
           /\ \E h \in appending[f] :
                /\ appending[f] = {h} /\ RequestOf(l, f, h.req)
                /\ len = IF h.pc = "write" THEN call.index ELSE NextAfter(call)
        \/ /\ CallsTo(f) = {} /\ appending[f] = {}
           /\ \E m \in appendRes :
                /\ AnswersOf(f) = {m}
                /\ \/ m.success /\ len = NextAfter(call)
                   \/ ~m.success /\ len = call.index /\ (m.busy \/ m.term > t)

\* Where the thread for f stands, next_index_ is what f has.
ThreadKnows(l, t, f) ==
    LET pc == repl[l][f].pc
    IN  /\ pc # "sent" => NothingUnderWay(f)
        /\ pc \in {"loop", "built"} => nextIndex[l][f] = binlog[f].len
        /\ pc \in {"built", "sent"} => CallBuilt(l, t, f)
        /\ pc = "sent" => CallUnderWay(l, t, f)
FollowersKnown(l, t) ==
    /\ \A f \in Server \ {l} : ThreadKnows(l, t, f) /\ matchIndex[l][f] < binlog[f].len
    /\ matchIndex[l][l] = 0

\* Nobody holds as committed, or applies, what l has not committed or what it
\* does not have itself.
CommitsOfLeader(l) ==
    \A s \in Server :
        /\ commitIndex[s] <= commitIndex[l] /\ commitIndex[s] < binlog[s].len
        /\ lastApplied[s] <= commitIndex[l] /\ lastApplied[s] < binlog[s].len
        /\ applier[s].pc # "wait" =>
            applier[s].end <= commitIndex[l] /\ applier[s].end < binlog[s].len

\* A slot up to l's commit index is on a majority: all but slot 0 of a cluster
\* of more than three, where match_index_ of l itself counts, which is 0.
Holders(i) == {u \in Server : i < binlog[u].len}
CommitOnMajority(l) ==
    commitIndex[l] > 0 \/ (commitIndex[l] = 0 /\ Cardinality(Server) <= 3) =>
        2 * Cardinality(Holders(commitIndex[l])) > Cardinality(Server)

\* l's log begins with its Nop and holds a request at most once; a call noted
\* under a slot is the one whose entry is there; one that was answered is
\* committed.
RequestsOfLeader(l) ==
    LET b == binlog[l]
    IN  /\ b.len > 0 /\ b.slot[1].req = Nil
        /\ \A i, j \in 1 .. b.len : b.slot[i].req = b.slot[j].req /\ i # j => b.slot[i].req = Nil
        /\ \A i \in 1 .. b.len : b.slot[i].req # Nil => reply[b.slot[i].req] # "idle"
        /\ \A a \in sdkAck[l] : a.index < b.len /\ b.slot[a.index + 1].req = a.done
        /\ \A a, c \in sdkAck[l] : a.index = c.index => a = c
        /\ \A r \in Request : reply[r] = "ok" => \E i \in 0 .. commitIndex[l] : b.slot[i + 1].req = r

LeadInv(l, t) ==
    /\ CallsOfLeader(l, t)
    /\ LogsOfLeader(l)
    /\ FollowersKnown(l, t)
    /\ CommitsOfLeader(l)
    /\ CommitOnMajority(l)
    /\ RequestsOfLeader(l)

\* The inductive invariant of a steady cluster.
SteadyInv ==
    /\ CandidateInv
    /\ Steady => \/ NothingYet
                 \/ \E l \in Server, t \in Terms : Wins(l, t) /\ LeadInv(l, t)
=============================================================================

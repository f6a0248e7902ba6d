------------------------------ MODULE Handover ------------------------------
(***************************************************************************)
(* What one leader hands over to the next: the cluster as long as at most  *)
(* two elections have been won and no replication call was given up.  The  *)
(* two leaders may be one node, and the one of the higher term may be the  *)
(* first of the two: then the other won with votes that came late.  State  *)
(* predicates on AirDB; no action is added.                                *)
(***************************************************************************)
EXTENDS SteadyCluster, Functions

\* The elections won so far, each the node and its term.
Won == {w \in Server \X Terms : Wins(w[1], w[2])}

TwoWins ==
    /\ fails = 0
    /\ \A v, w, x \in Won : v = w \/ w = x \/ v = x

Majority(Q) == 2 * Cardinality(Q) > Cardinality(Server)

\* Every entry there is: in a database, in a call, or about to be written.
Written ==
    UNION ({Range(binlog[s].slot) : s \in Server}
           \cup {Range(m.entries) : m \in appendReq}
           \cup UNION {{Range(h.req.entries) : h \in appending[s]} : s \in Server})

\* As long as no call is given up: no node replicates to itself, a call is at work where it was
\* sent, a vote goes to a node that asked for it, and no entry or noted call is of a request
\* that was not made.
NodeFacts ==
    /\ \A s \in Server : matchIndex[s][s] = 0 /\ repl[s][s].pc = "none"
    /\ \A s \in Server : \A h \in appending[s] : h.req.to = s
    /\ \A v, c \in Server : \A t \in Terms : voteFor[v][t] = c => t <= currentTerm[c]
    /\ \A e \in Written : e.req # Nil => reply[e.req] # "idle"
    /\ \A s \in Server : \A a \in sdkAck[s] : reply[a.done] # "idle"

-----------------------------------------------------------------------------
\* Before an election is won by a vote, and while one leader has been.

\* (A node that is alone has a majority with its own vote, and is never leader.)
BeforeLeaders ==
    /\ NothingYet
    /\ \A w \in Won : Server = {w[1]}
    /\ \A s \in Server : LastLogTerm(binlog[s]) = -1
    /\ \A m \in voteReq : m.lastIndex = -1 /\ m.lastTerm = -1

\* What l knows of v's log: the slots v has confirmed, or is confirming in an
\* answer that l will take.
Confirmed(l, t, v, n) ==
    /\ matchIndex[l][v] < n
    /\ \A m \in AnswersOf(v) :
        m.to = l /\ m.term <= t /\ m.success => NextAfter(repl[l][v].call) <= n

\* A candidate of a later term has all that its voters confirmed to l.  A voter
\* confirms nothing after its vote, and l commits nothing after its own.
VotersHeld(l, t) ==
    \A c \in Server \ {l} : status[c] = "Candidate" /\ currentTerm[c] > t =>
        \A v \in Voters(c, currentTerm[c]) :
            IF v = l THEN commitIndex[l] < binlog[c].len
                     ELSE Confirmed(l, t, v, binlog[c].len)

\* A slot l has committed, other than slot 0, was confirmed by enough members.
CommitConfirmed(l) ==
    commitIndex[l] > 0 =>
        Majority({v \in Server : v = l \/ matchIndex[l][v] >= commitIndex[l]})

\* Who has not reached the term of l has nothing of it.
TermsOfLogs(l, t) ==
    /\ \A i \in 1 .. binlog[l].len : binlog[l].slot[i].term = t
    /\ \A s \in Server :
        /\ LastLogTerm(binlog[s]) = IF binlog[s].len = 0 THEN -1 ELSE t
        /\ currentTerm[s] < t => binlog[s].len = 0 /\ appending[s] = {}
    /\ \A m \in voteReq : m.lastIndex < binlog[m.from].len /\ m.lastTerm <= t

LeadMore(l, t) ==
    /\ Server # {l}
    /\ VotersHeld(l, t)
    /\ CommitConfirmed(l)
    /\ TermsOfLogs(l, t)

-----------------------------------------------------------------------------
\* After the second election.  x and y are the two winners, in the order of
\* their terms, tl < th.

\* The requests in slots 1 .. n of x are in y's log.
Holds(x, y, n) ==
    /\ n < binlog[x].len
    /\ \A i \in 1 .. n : InLog(y, binlog[x].slot[i + 1].req)

\* The answers of v to x that x would take, not being of a newer term.
OldAnswers(x, tl, v) == {m \in appendRes : m.from = v /\ m.to = x /\ m.term <= tl}

\* A member of the term of y: what it confirmed, or is confirming, y has.
ConfirmedHeld(x, tl, y, v) ==
    /\ Holds(x, y, matchIndex[x][v])
    /\ \A m \in OldAnswers(x, tl, v) :
        /\ OldAnswers(x, tl, v) = {m}
        /\ repl[x][v].pc = "sent"
        /\ m.success => Holds(x, y, NextAfter(repl[x][v].call) - 1)

\* The older leader, as long as it has not heard of the newer: it can commit no
\* more than y has, for a majority has gone over to the term of y.
OldLeader(x, tl, y, th) ==
    /\ appending[x] = {} /\ binlog[x].len > 0
    /\ Holds(x, y, commitIndex[x])
    /\ applier[x].pc # "wait" => applier[x].end <= commitIndex[x]
    /\ \A a \in sdkAck[x] :
        a.index \in 1 .. binlog[x].len - 1 /\ binlog[x].slot[a.index + 1].req = a.done
    /\ \E Q \in SUBSET Server :
        /\ Majority(Q)
        /\ \A v \in Q : currentTerm[v] >= th /\ ConfirmedHeld(x, tl, y, v)

\* The newer leader: it answers calls of its own only, and has what was answered
\* before.
NewLeader(y, th) ==
    /\ \A a \in sdkAck[y] : \A e \in Written : e.req = a.done => e.term = th
    /\ \A e \in Written :
        e.req # Nil /\ e.term < th => (reply[e.req] = "ok" => InLog(y, e.req))

TwoLeaders(x, tl, y, th) ==
    /\ \A e \in Written : e.term \in {tl, th}
    /\ status[y] = "Leader" =>
        /\ NewLeader(y, th)
        /\ status[x] = "Leader" => OldLeader(x, tl, y, th)

\* One node won twice: nobody else has ever called, and its log has everything.
SameLeader(y) ==
    /\ Server # {y}
    /\ \A s, f \in Server : repl[s][f].pc # "none" => s = y /\ f # y
    /\ \A m \in appendReq : m.from = y /\ m.to # y
    /\ \A e \in Written : e.req # Nil => InLog(y, e.req)

HandedOver(x, tl, y, th) ==
    /\ tl < th
    /\ IF x = y THEN SameLeader(y) ELSE TwoLeaders(x, tl, y, th)

\* The inductive invariant behind LeaderComplete.
HandoverInv ==
    TwoWins =>
        /\ NodeFacts
        /\ \/ BeforeLeaders
           \/ Steady /\ \E l \in Server, t \in Terms : Wins(l, t) /\ LeadInv(l, t) /\ LeadMore(l, t)
           \/ \E v, w \in Won : HandedOver(v[1], v[2], w[1], w[2])
=============================================================================

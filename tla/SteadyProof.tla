----------------------------- MODULE SteadyProof -----------------------------
(***************************************************************************)
(* A steady cluster, for any number of members, requests and terms.  The   *)
(* inductive invariant is SteadyInv: the logs are prefixes of the one      *)
(* leader's, each of its threads has at most one call under way and knows  *)
(* what its follower has, and no member is told of more than the leader    *)
(* has committed.  From it follow that commits agree and answered writes   *)
(* are on a majority, that the cluster implements StateMachine (the chosen *)
(* operations are the requests in the leader's committed slots), that no   *)
(* applied entry is written over and that the databases follow the logs.   *)
(* With one term to elect in and no call given up a cluster stays steady.  *)
(***************************************************************************)
EXTENDS SteadyCluster, AirDBElectionProof, AirDBLogProof

USE DEF electionVars, leaderVars, applyVars, clientVars, voteNet, appendNet, boundVars

\* The numbers of a log.
LEMMA LogFacts ==
    ASSUME TypeOK, NEW s \in Server
    PROVE  /\ binlog[s] \in BinLogs(Entry, Terms)
           /\ binlog[s].slot \in Seq(Entry) /\ Len(binlog[s].slot) \in Nat
           /\ binlog[s].len \in Nat
           /\ \A i \in 1 .. Len(binlog[s].slot) : binlog[s].slot[i] \in Entry
<1>1. binlog[s] \in BinLogs(Entry, Terms)  BY DEF TypeOK, LogTypeOK
<1>2. binlog[s].slot \in Seq(Entry) /\ Len(binlog[s].slot) \in Nat /\ binlog[s].len \in Nat
  BY <1>1, LenProperties DEF BinLogs
<1>3. \A i \in 1 .. Len(binlog[s].slot) : binlog[s].slot[i] \in Entry
  BY <1>2, ElementOfSeq
<1> QED  BY <1>1, <1>2, <1>3

\* What WriteEntryList does to a log without truncated slots above its length.
LEMMA WriteAtEnd ==
    ASSUME NEW b \in BinLogs(Entry, Terms), b.len = Len(b.slot),
           NEW entries \in Seq(Entry)
    PROVE  /\ WriteEntryList(b, entries).len = b.len + Len(entries)
           /\ WriteEntryList(b, entries).len = Len(WriteEntryList(b, entries).slot)
           /\ \A i \in 1 .. b.len : WriteEntryList(b, entries).slot[i] = b.slot[i]
           /\ \A i \in 1 .. Len(entries) :
                 WriteEntryList(b, entries).slot[b.len + i] = entries[i]
<1> DEFINE n == b.len + Len(entries)
           w == WriteEntryList(b, entries)
<1>1. b.slot \in Seq(Entry) /\ b.len \in Nat /\ Len(entries) \in Nat
  BY LenProperties DEF BinLogs
<1>2. SubSeq(b.slot, 1, b.len) = b.slot  BY <1>1, SubSeqFull
<1>3. SubSeq(b.slot, n + 1, Len(b.slot)) = << >>
  <2>1. n + 1 \in Int /\ Len(b.slot) \in Int /\ Len(b.slot) < n + 1  BY <1>1
  <2> HIDE DEF n
  <2> QED  BY <2>1, SubSeqEmpty
<1>4. /\ b.slot \o entries \in Seq(Entry) /\ Len(b.slot \o entries) = n
      /\ \A i \in 1 .. n : (b.slot \o entries)[i] =
            IF i <= b.len THEN b.slot[i] ELSE entries[i - b.len]
  BY <1>1, ConcatProperties
<1>5. w.slot = b.slot \o entries /\ w.len = n
  <2>1. b.slot \o entries \o << >> = b.slot \o entries  BY <1>4, ConcatEmptySeq
  <2> QED  BY <1>2, <1>3, <2>1 DEF WriteEntryList
<1> HIDE DEF w
<1>6. \A i \in 1 .. b.len : i \in 1 .. n /\ i <= b.len  BY <1>1
<1>7. \A i \in 1 .. Len(entries) :
         b.len + i \in 1 .. n /\ ~(b.len + i <= b.len) /\ (b.len + i) - b.len = i
  BY <1>1
<1>8. \A i \in 1 .. b.len : w.slot[i] = b.slot[i]
  <2> HIDE DEF n
  <2> QED  BY <1>4, <1>5, <1>6
<1>9. \A i \in 1 .. Len(entries) : w.slot[b.len + i] = entries[i]
  <2> TAKE i \in 1 .. Len(entries)
  <2>1. b.len + i \in 1 .. n /\ ~(b.len + i <= b.len) /\ (b.len + i) - b.len = i  BY <1>7
  <2> HIDE DEF n
  <2> QED  BY <1>4, <1>5, <2>1
<1> QED  BY <1>4, <1>5, <1>8, <1>9 DEF w

\* Two members.
LEMMA PairCardinality ==
    ASSUME NEW x, NEW y, x # y
    PROVE  IsFiniteSet({x, y}) /\ Cardinality({x, y}) = 2
<1>1. IsFiniteSet({x}) /\ Cardinality({x}) = 1  BY FS_Singleton
<1>2. IsFiniteSet({x} \cup {y}) /\ Cardinality({x} \cup {y}) = Cardinality({x}) + 1
  BY <1>1, FS_AddElement
<1>3. {x} \cup {y} = {x, y}  OBVIOUS
<1> QED  BY <1>1, <1>2, <1>3

-----------------------------------------------------------------------------
\* Elections.

\* A count never goes back, nor does the number of failed calls: a cluster that
\* is steady was so before.
LEMMA CountsGrow ==
    ASSUME NodeAssumption, TypeOK, [Next]_vars
    PROVE  /\ \A s \in Server : \A t \in Terms : votePass'[s][t] >= votePass[s][t]
           /\ fails' >= fails
<1>1. /\ \A s \in Server : \A t \in Terms : votePass[s][t] \in Nat
      /\ \A s \in Server : currentTerm[s] \in Terms
      /\ fails \in Nat
  BY DEF TypeOK, ElectionTypeOK, ApplyTypeOK, NodeAssumption
<1>2. ASSUME votePass' = votePass, fails' = fails
      PROVE  /\ \A s \in Server : \A t \in Terms : votePass'[s][t] >= votePass[s][t]
             /\ fails' >= fails
  BY <1>1, <1>2
<1>3. ASSUME NEW s \in Server, NEW t, votePass' = [votePass EXCEPT ![s][t] = @ + 1],
             fails' = fails
      PROVE  /\ \A u \in Server : \A w \in Terms : votePass'[u][w] >= votePass[u][w]
             /\ fails' >= fails
  <2>1. votePass \in [Server -> [Terms -> Nat]]  BY DEF TypeOK, ElectionTypeOK
  <2>2. \A u \in Server : \A w \in Terms :
           votePass'[u][w] = IF u = s /\ w = t THEN votePass[u][w] + 1 ELSE votePass[u][w]
    BY <1>3, <2>1
  <2> QED  BY <1>1, <1>3, <2>2
<1>4. CASE ElectionNext
  <2>1. ASSUME NEW s \in Server, VoteTimerHeard(s)
        PROVE  votePass' = votePass /\ fails' = fails
    BY <2>1 DEF VoteTimerHeard
  <2>2. ASSUME NEW s \in Server, VoteLeader(s)
        PROVE  \E t : votePass' = [votePass EXCEPT ![s][t] = @ + 1] /\ fails' = fails
    BY <2>2 DEF VoteLeader
  <2>3. ASSUME NEW m \in voteReq, Vote(m)
        PROVE  votePass' = votePass /\ fails' = fails
    BY <2>3 DEF Vote, VoteByLeader, VoteRefused, VoteDecided
  <2>4. ASSUME NEW m \in voteRes, VoteCallBack(m)
        PROVE  \/ votePass' = votePass /\ fails' = fails
               \/ /\ m.to \in Server /\ fails' = fails
                  /\ \E t : votePass' = [votePass EXCEPT ![m.to][t] = @ + 1]
    <3>1. m.to \in Server  BY DEF TypeOK, ElectionTypeOK, VoteResponse
    <3>2. votePass[m.to][currentTerm[m.to]] + 1 = votePass[m.to][currentTerm[m.to]] + 1
      OBVIOUS
    <3>3. CASE VoteCounted(m)
      BY <2>4, <3>1, <3>3 DEF VoteCallBack, VoteCounted
    <3>4. CASE VoteNewerTerm(m) \/ VoteIgnored(m)
      BY <2>4, <3>4 DEF VoteCallBack, VoteNewerTerm, VoteIgnored
    <3> QED  BY <2>4, <3>3, <3>4 DEF VoteCallBack
  <2> QED  BY <1>2, <1>3, <1>4, <2>1, <2>2, <2>3, <2>4 DEF ElectionNext
<1>5. CASE LeaderNext
  <2>1. votePass' = votePass /\ (fails' = fails \/ fails' = fails + 1)
    BY <1>5 DEF LeaderNext, ReplicateStop, ReplicateBuild, ReplicateSend, ReplicateAnswer,
       ReplicateFail
  <2> QED  BY <1>1, <2>1
<1>6. CASE HeartBeatNext
  <2>1. votePass' = votePass /\ fails' = fails
    BY <1>6 DEF HeartBeatNext, BroadCastHeartBeat, HeartBeatCallBack, AppendEntries, AppendStale,
       AppendHeartBeat, AppendBeyond, AppendMismatch, AppendTooFast, AppendAccept, Follow
  <2> QED  BY <1>2, <2>1
<1>7. CASE FollowerNext
  BY <1>2, <1>7 DEF FollowerNext, AppendWrite, AppendFinish
<1>8. CASE ApplyNext
  BY <1>2, <1>8 DEF ApplyNext, Put, Delete, Lock, UnLock, Submit, CommitBegin, CommitStore,
     CommitAck
<1>9. CASE UNCHANGED vars
  BY <1>2, <1>9 DEF vars
<1> QED  BY <1>4, <1>5, <1>6, <1>7, <1>8, <1>9 DEF Next

LEMMA SteadyBefore ==
    ASSUME NodeAssumption, TypeOK, TypeOK', [Next]_vars, Steady'
    PROVE  /\ Steady
           /\ \A s \in Server : \A t \in Terms : Wins(s, t) => Wins(s, t)'
<1>1. fails \in Nat /\ fails' = 0
  BY DEF Steady, TypeOK, ApplyTypeOK, NodeAssumption
<1>2. \A s \in Server : \A t \in Terms : votePass[s][t] \in Nat /\ votePass'[s][t] \in Nat
  BY DEF TypeOK, ElectionTypeOK
<1>3. Cardinality(Server) \div 2 \in Nat
  BY FS_CardinalityType DEF NodeAssumption
<1>4. \A s \in Server : \A t \in Terms : Wins(s, t) => Wins(s, t)'
  BY <1>2, <1>3, CountsGrow DEF Wins, EnoughVotes
<1>5. fails = 0  BY <1>1, CountsGrow
<1> QED  BY <1>4, <1>5 DEF Steady

\* A step that makes no candidate, counts no vote and asks for none.
LEMMA NoCandidateStep ==
    ASSUME CandidateInv, votePass' = votePass, voteReq' \subseteq voteReq,
           voteRes' \subseteq voteRes,
           \A s \in Server : status'[s] = "Candidate" =>
               status[s] = "Candidate" /\ currentTerm'[s] = currentTerm[s]
    PROVE  CandidateInv'
BY DEF CandidateInv, Wins, EnoughVotes

LEMMA FollowerStep ==
    ASSUME TypeOK, CandidateInv, UNCHANGED <<votePass, voteReq, voteRes>>,
           NEW s, NEW t,
           \/ UNCHANGED <<status, currentTerm>>
           \/ /\ status' = [status EXCEPT ![s] = "Follower"]
              /\ currentTerm' = [currentTerm EXCEPT ![s] = t]
    PROVE  CandidateInv'
<1>1. \A u \in Server : status'[u] = "Candidate" =>
         status[u] = "Candidate" /\ currentTerm'[u] = currentTerm[u]
  BY DEF TypeOK, ElectionTypeOK
<1> QED  BY <1>1, NoCandidateStep

LEMMA VoteLeaderCandidate ==
    ASSUME NodeAssumption, TypeOK, ElectionInv, CandidateInv, NEW s \in Server, VoteLeader(s)
    PROVE  CandidateInv'
<1> PICK t : t = currentTerm[s] + 1  OBVIOUS
<1>1. currentTerm[s] \in Nat /\ t \in Nat /\ t > currentTerm[s] /\ t > 0 /\ t \in Terms
  <2>1. currentTerm[s] \in 0 .. MaxTerm /\ MaxTerm \in Nat /\ Candidacy[s] \subseteq 1 .. MaxTerm
    BY DEF TypeOK, ElectionTypeOK, Terms, NodeAssumption
  <2>2. currentTerm[s] + 1 \in Candidacy[s]  BY DEF VoteLeader
  <2> QED  BY <2>1, <2>2 DEF Terms
<1>2. votePass[s][t] = 0  BY <1>1 DEF ElectionInv, TermsInv
<1>3. /\ status' = [status EXCEPT ![s] = "Candidate"]
      /\ currentTerm' = [currentTerm EXCEPT ![s] = t]
      /\ votePass' = [votePass EXCEPT ![s][t] = @ + 1]
      /\ voteRes' = voteRes
      /\ \A m \in voteReq' : m \in voteReq \/ (m.from = s /\ m.to # s)
  BY DEF VoteLeader
<1>4. \A u \in Server : \A w \in Terms :
         votePass'[u][w] = IF u = s /\ w = t THEN 1 ELSE votePass[u][w]
  BY <1>2, <1>3 DEF TypeOK, ElectionTypeOK
<1>5. 0 \in Terms  BY DEF Terms, NodeAssumption
<1>6. \A u \in Server : votePass'[u][0] = 0
  BY <1>1, <1>4, <1>5 DEF CandidateInv
<1>7. \A m \in voteReq' : m.from # m.to
  BY <1>3 DEF CandidateInv
<1>8. Server # {s} => ~Wins(s, t)'
  <2> SUFFICES ASSUME NEW u \in Server, u # s
               PROVE  ~(1 > Cardinality(Server) \div 2)
    BY <1>1, <1>4 DEF Wins, EnoughVotes
  <2>1. IsFiniteSet(Server) /\ {s, u} \subseteq Server  BY DEF NodeAssumption
  <2>2. Cardinality({s, u}) = 2  BY PairCardinality
  <2>3. Cardinality(Server) \in Nat /\ Cardinality(Server) >= 2
    BY <2>1, <2>2, FS_Subset, FS_CardinalityType
  <2> QED  BY <2>3
<1>9. ASSUME NEW u \in Server, status'[u] = "Candidate"
      PROVE  currentTerm'[u] > 0 /\ (Server # {u} => ~Wins(u, currentTerm[u])')
  <2>1. CASE u = s
    <3>1. currentTerm'[u] = t  BY <1>3, <2>1 DEF TypeOK, ElectionTypeOK
    <3> QED  BY <1>1, <1>8, <2>1, <3>1 DEF Wins
  <2>2. CASE u # s
    <3>1. status[u] = "Candidate" /\ currentTerm'[u] = currentTerm[u] /\ currentTerm[u] \in Terms
      BY <1>3, <1>9, <2>2 DEF TypeOK, ElectionTypeOK
    <3>2. votePass'[u][currentTerm[u]] = votePass[u][currentTerm[u]]
      BY <1>4, <2>2, <3>1
    <3> QED  BY <3>1, <3>2 DEF CandidateInv, Wins, EnoughVotes
  <2> QED  BY <2>1, <2>2
<1> QED  BY <1>3, <1>6, <1>7, <1>9 DEF CandidateInv

LEMMA VoteCandidate ==
    ASSUME TypeOK, CandidateInv, NEW m \in voteReq, Vote(m)
    PROVE  CandidateInv'
<1>1. m.to \in Server /\ m.from # m.to
  BY DEF TypeOK, ElectionTypeOK, VoteRequest, CandidateInv
<1>2. votePass' = votePass /\ voteReq' \subseteq voteReq
  BY DEF Vote, VoteByLeader, VoteRefused, VoteDecided, VoteAnswer
<1>3. \A r \in voteRes' : r \in voteRes \/ (r.from = m.to /\ r.to = m.from)
  BY DEF Vote, VoteByLeader, VoteRefused, VoteDecided, VoteAnswer
<1>4. \A u \in Server : status'[u] = "Candidate" =>
         status[u] = "Candidate" /\ currentTerm'[u] = currentTerm[u]
  <2>1. CASE VoteByLeader(m) \/ VoteRefused(m)
    BY <2>1 DEF VoteByLeader, VoteRefused
  <2>2. CASE VoteDecided(m)
    <3>1. m.term \in Int /\ currentTerm[m.to] \in Int /\ m.term >= currentTerm[m.to]
      BY <1>1, <2>2, NodeAssumption
      DEF VoteDecided, TypeOK, ElectionTypeOK, VoteRequest, Terms, NodeAssumption
    <3>2. CASE m.term > currentTerm[m.to]
      BY <1>1, <2>2, <3>2 DEF VoteDecided, TypeOK, ElectionTypeOK
    <3>3. CASE m.term = currentTerm[m.to]
      BY <1>1, <2>2, <3>3 DEF VoteDecided, TypeOK, ElectionTypeOK
    <3> QED  BY <3>1, <3>2, <3>3
  <2> QED  BY <2>1, <2>2 DEF Vote
<1> QED  BY <1>1, <1>2, <1>3, <1>4 DEF CandidateInv, Wins, EnoughVotes

LEMMA VoteCallBackCandidate ==
    ASSUME NodeAssumption, TypeOK, CandidateInv, NEW m \in voteRes, VoteCallBack(m)
    PROVE  CandidateInv'
<1>1. m.to \in Server /\ voteReq' = voteReq /\ voteRes' \subseteq voteRes
  BY DEF TypeOK, ElectionTypeOK, VoteResponse, VoteCallBack
<1>2. CASE VoteCounted(m)
  <2> DEFINE s == m.to
             t == currentTerm[s]
             n == votePass[s][t] + 1
  <2>1. /\ s \in Server /\ t \in Terms /\ t > 0 /\ status[s] = "Candidate" /\ currentTerm' = currentTerm
        /\ votePass' = [votePass EXCEPT ![s][t] = n]
        /\ \/ status' = [status EXCEPT ![s] = "Leader"]
           \/ ~EnoughVotes(n) /\ status' = status
    BY <1>1, <1>2 DEF VoteCounted, CandidateInv, TypeOK, ElectionTypeOK
  <2> HIDE DEF s, n
  <2>2. t \in Nat  BY <2>1 DEF Terms, NodeAssumption
  <2> HIDE DEF t
  <2>3. \A u \in Server : \A w \in Terms :
           votePass'[u][w] = IF u = s /\ w = t THEN n ELSE votePass[u][w]
    BY <2>1 DEF TypeOK, ElectionTypeOK
  <2>4. 0 \in Terms /\ t # 0  BY <2>1, <2>2 DEF Terms, NodeAssumption
  <2>5. \A u \in Server : votePass'[u][0] = 0  BY <2>3, <2>4 DEF CandidateInv
  <2>6. ASSUME NEW u \in Server, status'[u] = "Candidate"
        PROVE  currentTerm'[u] > 0 /\ (Server # {u} => ~Wins(u, currentTerm[u])')
    <3>1. status[u] = "Candidate" /\ currentTerm'[u] = currentTerm[u] /\ currentTerm[u] \in Terms
      BY <2>1, <2>6 DEF TypeOK, ElectionTypeOK
    <3>2. CASE u = s
      <4>1. ~EnoughVotes(n)  BY <2>1, <2>6, <3>2 DEF TypeOK, ElectionTypeOK
      <4>2. votePass'[u][currentTerm[u]] = n  BY <2>3, <3>1, <3>2 DEF t
      <4> QED  BY <3>1, <4>1, <4>2 DEF CandidateInv, Wins, EnoughVotes
    <3>3. CASE u # s
      BY <2>3, <3>1, <3>3 DEF CandidateInv, Wins, EnoughVotes
    <3> QED  BY <3>2, <3>3
  <2> QED  BY <1>1, <2>5, <2>6 DEF CandidateInv
<1>3. CASE VoteNewerTerm(m) \/ VoteIgnored(m)
  <2>1. votePass' = votePass  BY <1>3 DEF VoteNewerTerm, VoteIgnored
  <2>2. \A u \in Server : status'[u] = "Candidate" =>
           status[u] = "Candidate" /\ currentTerm'[u] = currentTerm[u]
    BY <1>1, <1>3 DEF VoteNewerTerm, VoteIgnored, TypeOK, ElectionTypeOK
  <2> QED  BY <1>1, <2>1, <2>2, NoCandidateStep
<1> QED  BY <1>2, <1>3 DEF VoteCallBack

LEMMA StepCandidate ==
    ASSUME NodeAssumption, TypeOK, ElectionInv, CandidateInv, [Next]_vars
    PROVE  CandidateInv'
<1>1. CASE ElectionNext
  <2>1. ASSUME NEW s \in Server, VoteTimerHeard(s)
        PROVE  CandidateInv'
    <3>1. UNCHANGED <<votePass, voteReq, voteRes, status, currentTerm>>
      BY <2>1 DEF VoteTimerHeard
    <3> QED  BY <3>1, FollowerStep
  <2> QED
    BY <1>1, <2>1, VoteLeaderCandidate, VoteCandidate, VoteCallBackCandidate DEF ElectionNext
<1>2. CASE LeaderNext
  <2>1. UNCHANGED <<votePass, voteReq, voteRes>>
    BY <1>2 DEF LeaderNext, ReplicateStop, ReplicateBuild, ReplicateSend, ReplicateFail,
       ReplicateAnswer
  <2>2. \/ UNCHANGED <<status, currentTerm>>
        \/ \E s, f \in Server : \E m \in appendRes : ReplicateNewerTerm(s, f, m)
    <3>1. CASE \E s, f \in Server : ReplicateAnswer(s, f)
      <4>1. PICK s, f \in Server : ReplicateAnswer(s, f)  BY <3>1
      <4>2. PICK m \in appendRes :
               \/ ReplicateNewerTerm(s, f, m)
               \/ ReplicateNotLeader(s, f, m)
               \/ ReplicateSuccess(s, f, m)
               \/ ReplicateBusy(s, f, m)
               \/ ReplicateBackoff(s, f, m)
        BY <4>1 DEF ReplicateAnswer
      <4>3. ReplicateNewerTerm(s, f, m) \/ UNCHANGED <<status, currentTerm>>
        BY <4>2 DEF ReplicateNotLeader, ReplicateSuccess, ReplicateBusy, ReplicateBackoff
      <4> QED  BY <4>3
    <3>2. ASSUME NEW s \in Server, NEW f \in Server,
                 \/ ReplicateStop(s, f) \/ ReplicateBuild(s, f)
                 \/ ReplicateSend(s, f) \/ ReplicateFail(s, f)
          PROVE  UNCHANGED <<status, currentTerm>>
      BY <3>2 DEF ReplicateStop, ReplicateBuild, ReplicateSend, ReplicateFail
    <3> QED  BY <1>2, <3>1, <3>2 DEF LeaderNext
  <2>3. ASSUME NEW s, NEW f, NEW m, ReplicateNewerTerm(s, f, m)
        PROVE  CandidateInv'
    <3>1. /\ status' = [status EXCEPT ![s] = "Follower"]
          /\ currentTerm' = [currentTerm EXCEPT ![s] = m.term]
      BY <2>3 DEF ReplicateNewerTerm
    <3> QED  BY <2>1, <3>1, FollowerStep
  <2> QED  BY <2>1, <2>2, <2>3, FollowerStep
<1>3. CASE HeartBeatNext
  <2>1. /\ UNCHANGED <<votePass, voteReq, voteRes>>
        /\ \E s, t : \/ UNCHANGED <<status, currentTerm>>
                     \/ /\ status' = [status EXCEPT ![s] = "Follower"]
                        /\ currentTerm' = [currentTerm EXCEPT ![s] = t]
    BY <1>3 DEF HeartBeatNext, BroadCastHeartBeat, HeartBeatCallBack, AppendEntries, AppendStale,
       AppendHeartBeat, AppendBeyond, AppendMismatch, AppendTooFast, AppendAccept, Follow
  <2> QED  BY <2>1, FollowerStep
<1>4. CASE FollowerNext \/ ApplyNext \/ UNCHANGED vars
  <2>1. UNCHANGED <<votePass, voteReq, voteRes, status, currentTerm>>
    BY <1>4 DEF FollowerNext, AppendWrite, AppendFinish, ApplyNext, Put, Delete, Lock, UnLock,
       Submit, CommitBegin, CommitStore, CommitAck, vars
  <2> QED  BY <2>1, FollowerStep
<1> QED  BY <1>1, <1>2, <1>3, <1>4 DEF Next

-----------------------------------------------------------------------------
\* What a step leaves as it was.

\* The leader is the one that won.
LEMMA LeaderIs ==
    ASSUME TypeOK, ElectionInv, Steady, NEW l \in Server, NEW t \in Terms, Wins(l, t),
           NEW s \in Server, status[s] = "Leader"
    PROVE  s = l /\ currentTerm[l] = t
<1>1. currentTerm[s] \in Terms  BY DEF TypeOK, ElectionTypeOK
<1>2. Wins(s, currentTerm[s])  BY DEF ElectionInv, LeaderInv, Wins
<1> QED  BY <1>1, <1>2 DEF Steady

\* Logs that only grow, l's at its end.
LogsGrow(l) ==
    /\ \A s \in Server : binlog[s].len <= binlog'[s].len
    /\ \A i \in 1 .. binlog[l].len : binlog'[l].slot[i] = binlog[l].slot[i]

LEMMA LogsSame ==
    ASSUME TypeOK, binlog' = binlog, NEW l \in Server
    PROVE  LogsGrow(l) /\ (LogsOfLeader(l) => LogsOfLeader(l)')
BY LogFacts DEF LogsGrow, LogsOfLeader

LEMMA CallsKept ==
    ASSUME NodeAssumption, TypeOK, TypeOK', NEW l \in Server, NEW t, CallsOfLeader(l, t),
           commitIndex[l] <= commitIndex'[l],
           \A s, f \in Server : repl'[s][f].pc # "none" => repl[s][f].pc # "none",
           \A m \in appendReq' : m \in appendReq \/ OfLeader(l, t, m)',
           \A s \in Server : \A h \in appending'[s] :
               \/ \E g \in appending[s] : g.req = h.req
               \/ h.req \in appendReq /\ h.req.to = s,
           \A m \in appendRes' : m \in appendRes \/ (m.to = l /\ m.from # l),
           \A s \in Server \ {l} : sdkAck'[s] \subseteq sdkAck[s]
    PROVE  CallsOfLeader(l, t)'
<1>1. commitIndex[l] \in Int /\ commitIndex'[l] \in Int  BY DEF TypeOK, ApplyTypeOK
<1>2. ASSUME NEW m, m \in AppendRequest, OfLeader(l, t, m)
      PROVE  OfLeader(l, t, m)'
  <2>1. m.commit \in Int  BY <1>2 DEF AppendRequest
  <2> QED  BY <1>1, <1>2, <2>1 DEF OfLeader
<1>3. \A m \in appendReq : m \in AppendRequest  BY DEF TypeOK, ReplicationTypeOK
<1>4. \A m \in appendReq' : OfLeader(l, t, m)'  BY <1>2, <1>3 DEF CallsOfLeader
<1>5. ASSUME NEW s \in Server, NEW h \in appending'[s]
      PROVE  OfLeader(l, t, h.req)' /\ h.req.to = s
  <2>1. CASE \E g \in appending[s] : g.req = h.req
    <3>1. PICK g \in appending[s] : g.req = h.req  BY <2>1
    <3>2. g.req \in AppendRequest  BY DEF TypeOK, ReplicationTypeOK, Appending
    <3> QED  BY <1>2, <3>1, <3>2 DEF CallsOfLeader
  <2>2. CASE h.req \in appendReq /\ h.req.to = s
    BY <1>2, <1>3, <2>2 DEF CallsOfLeader
  <2> QED  BY <2>1, <2>2
<1>6. \A s \in Server \ {l} : sdkAck'[s] = {}  BY DEF CallsOfLeader
<1> QED  BY <1>4, <1>5, <1>6 DEF CallsOfLeader

\* The numbers of a call.
LEMMA CallNumbers ==
    ASSUME TypeOK, NEW l \in Server, NEW f \in Server, repl[l][f].pc \in {"built", "sent"}
    PROVE  /\ repl[l][f].call.index \in Nat /\ repl[l][f].call.batch \in Nat
           /\ NextAfter(repl[l][f].call) = repl[l][f].call.index + repl[l][f].call.batch
           /\ repl[l][f].call.commit \in Int
BY CallType DEF TypeOK, Call, NextAfter

\* What is known of a call stays so while l's log and commit index grow.
LEMMA CallBuiltKept ==
    ASSUME TypeOK, TypeOK', NEW l \in Server, NEW t, NEW f \in Server,
           repl[l][f].pc \in {"built", "sent"}, CallBuilt(l, t, f),
           repl'[l][f].call.index = repl[l][f].call.index,
           repl'[l][f].call.batch = repl[l][f].call.batch,
           repl'[l][f].call.term = repl[l][f].call.term,
           repl'[l][f].call.prevTerm = repl[l][f].call.prevTerm,
           repl'[l][f].call.commit = repl[l][f].call.commit,
           nextIndex'[l][f] = nextIndex[l][f],
           LogsGrow(l), commitIndex[l] <= commitIndex'[l]
    PROVE  CallBuilt(l, t, f)'
<1> DEFINE call == repl[l][f].call
<1>1. /\ call.index \in Nat /\ call.batch \in Nat /\ call.commit \in Int
      /\ NextAfter(call) = call.index + call.batch
  BY CallNumbers
<1>2. /\ binlog[l].len \in Nat /\ binlog'[l].len \in Nat
      /\ commitIndex[l] \in Int /\ commitIndex'[l] \in Int
  BY LogFacts DEF TypeOK, LogTypeOK, BinLogs, ApplyTypeOK
<1>3. call.index \in 1 .. binlog[l].len \/ call.index = 0
  BY <1>1, <1>2 DEF CallBuilt
<1>4. call.index > 0 => binlog'[l].slot[call.index] = binlog[l].slot[call.index]
  BY <1>1, <1>3 DEF LogsGrow
<1>5. NextAfter(call) <= binlog'[l].len
  BY <1>1, <1>2 DEF CallBuilt, LogsGrow
<1>6. call.commit <= commitIndex'[l]
  BY <1>1, <1>2 DEF CallBuilt
<1>7. NextAfter(repl'[l][f].call) = NextAfter(call)  BY DEF NextAfter
<1> QED  BY <1>4, <1>5, <1>6, <1>7 DEF CallBuilt

LEMMA RequestKept ==
    ASSUME TypeOK, NEW l \in Server, NEW t, NEW f \in Server, NEW m,
           repl[l][f].pc \in {"built", "sent"}, CallBuilt(l, t, f), RequestOf(l, f, m),
           repl'[l][f].call = repl[l][f].call,
           LogsGrow(l)
    PROVE  RequestOf(l, f, m)'
<1> DEFINE call == repl[l][f].call
<1>1. /\ call.index \in Nat /\ call.batch \in Nat
      /\ NextAfter(call) = call.index + call.batch
      /\ binlog[l].len \in Nat
  BY CallNumbers, LogFacts
<1>2. \A i \in 1 .. call.batch : call.index + i \in 1 .. binlog[l].len
  BY <1>1 DEF CallBuilt
<1> QED  BY <1>2 DEF RequestOf, LogsGrow

\* A thread and its follower that a step leaves alone.
SameThread(l, f) ==
    /\ repl'[l][f] = repl[l][f] /\ nextIndex'[l][f] = nextIndex[l][f]
    /\ binlog'[f].len = binlog[f].len /\ appending'[f] = appending[f]
    /\ CallsTo(f)' = CallsTo(f) /\ AnswersOf(f)' = AnswersOf(f)

LEMMA ThreadKept ==
    ASSUME TypeOK, TypeOK', NEW l \in Server, NEW t, NEW f \in Server, ThreadKnows(l, t, f),
           SameThread(l, f), LogsGrow(l), commitIndex[l] <= commitIndex'[l]
    PROVE  ThreadKnows(l, t, f)'
<1> DEFINE pc == repl[l][f].pc
<1>1. pc # "sent" => NothingUnderWay(f)'
  BY DEF ThreadKnows, SameThread, NothingUnderWay
<1>2. pc \in {"loop", "built"} => nextIndex'[l][f] = binlog'[f].len
  BY DEF ThreadKnows, SameThread
<1>3. pc \in {"built", "sent"} => CallBuilt(l, t, f)'
  BY CallBuiltKept DEF ThreadKnows, SameThread
<1>4. ASSUME pc = "sent"
      PROVE  CallUnderWay(l, t, f)'
  <2>1. \A m : RequestOf(l, f, m) => RequestOf(l, f, m)'
    BY <1>4, RequestKept DEF ThreadKnows, SameThread
  <2>2. CallUnderWay(l, t, f)  BY <1>4 DEF ThreadKnows
  <2>3. \A m : CallsTo(f) = {m} => m \in appendReq'
    <3>1. \A m \in CallsTo(f)' : m \in appendReq'  BY DEF CallsTo
    <3> QED  BY <3>1 DEF SameThread
  <2>4. \A m : AnswersOf(f) = {m} => m \in appendRes'
    <3>1. \A m \in AnswersOf(f)' : m \in appendRes'  BY DEF AnswersOf
    <3> QED  BY <3>1 DEF SameThread
  <2>5. repl'[l][f].call = repl[l][f].call  BY DEF SameThread
  <2>6. CASE /\ \E m \in appendReq : CallsTo(f) = {m} /\ RequestOf(l, f, m)
             /\ appending[f] = {} /\ AnswersOf(f) = {}
             /\ binlog[f].len = repl[l][f].call.index
    BY <2>1, <2>3, <2>5, <2>6 DEF CallUnderWay, SameThread
  <2>7. CASE /\ CallsTo(f) = {} /\ AnswersOf(f) = {}
             /\ \E h \in appending[f] :
                  /\ appending[f] = {h} /\ RequestOf(l, f, h.req)
                  /\ binlog[f].len = IF h.pc = "write" THEN repl[l][f].call.index
                                     ELSE NextAfter(repl[l][f].call)
    <3>1. NextAfter(repl'[l][f].call) = NextAfter(repl[l][f].call)  BY <2>5
    <3> QED  BY <2>1, <2>5, <2>7, <3>1 DEF CallUnderWay, SameThread
  <2>8. CASE /\ CallsTo(f) = {} /\ appending[f] = {}
             /\ \E m \in appendRes :
                  /\ AnswersOf(f) = {m}
                  /\ \/ m.success /\ binlog[f].len = NextAfter(repl[l][f].call)
                     \/ /\ ~m.success /\ binlog[f].len = repl[l][f].call.index
                        /\ m.busy \/ m.term > t
    <3>1. NextAfter(repl'[l][f].call) = NextAfter(repl[l][f].call)  BY <2>5
    <3> QED  BY <2>4, <2>5, <2>8, <3>1 DEF CallUnderWay, SameThread
  <2> QED  BY <2>2, <2>6, <2>7, <2>8 DEF CallUnderWay
<1>5. repl'[l][f].pc = pc  BY DEF SameThread
<1> QED  BY <1>1, <1>2, <1>3, <1>4, <1>5 DEF ThreadKnows

\* The commit indexes and the threads of CommitIndex, while logs grow.
LEMMA CommitsKept ==
    ASSUME TypeOK, TypeOK', NEW l \in Server, CommitsOfLeader(l), LogsGrow(l),
           commitIndex' = commitIndex, lastApplied' = lastApplied, applier' = applier
    PROVE  CommitsOfLeader(l)'
<1>1. \A s \in Server : /\ binlog[s].len \in Int /\ binlog'[s].len \in Int
                        /\ commitIndex[s] \in Int /\ lastApplied[s] \in Int
                        /\ applier[s].end \in Int
  BY LogFacts DEF TypeOK, LogTypeOK, BinLogs, ApplyTypeOK
<1> QED  BY <1>1 DEF CommitsOfLeader, LogsGrow

LEMMA MajorityKept ==
    ASSUME NodeAssumption, TypeOK, TypeOK', NEW l \in Server, CommitOnMajority(l), LogsGrow(l),
           commitIndex'[l] = commitIndex[l]
    PROVE  CommitOnMajority(l)'
<1> PICK i : i = commitIndex[l]  OBVIOUS
<1>1. i \in Int /\ \A s \in Server : binlog[s].len \in Int /\ binlog'[s].len \in Int
  <2>1. i \in Int  BY DEF TypeOK, ApplyTypeOK
  <2>2. \A s \in Server : binlog[s].len \in Int  BY LogFacts
  <2>3. \A s \in Server : binlog'[s].len \in Int  BY DEF TypeOK, LogTypeOK, BinLogs
  <2> QED  BY <2>1, <2>2, <2>3
<1>2. Holders(i) \subseteq Holders(i)'  BY <1>1 DEF Holders, LogsGrow
<1>3. IsFiniteSet(Server) /\ Holders(i) \subseteq Server /\ Holders(i)' \subseteq Server
  BY DEF NodeAssumption, Holders
<1>4. /\ Cardinality(Holders(i)) \in Nat /\ Cardinality(Holders(i)') \in Nat
      /\ Cardinality(Holders(i)) <= Cardinality(Holders(i)')
      /\ Cardinality(Server) \in Nat
  BY <1>2, <1>3, FS_Subset, FS_CardinalityType
<1>5. 2 * Cardinality(Holders(i)) > Cardinality(Server)
         => 2 * Cardinality(Holders(i)') > Cardinality(Server)
  BY <1>4
<1>6. Holders(commitIndex[l])' = Holders(i)'  BY DEF Holders
<1> QED  BY <1>5, <1>6 DEF CommitOnMajority

\* The requests in l's log, while l takes none.
LEMMA RequestsKept ==
    ASSUME TypeOK, TypeOK', NEW l \in Server, RequestsOfLeader(l),
           binlog'[l] = binlog[l], sdkAck'[l] = sdkAck[l], reply' = reply,
           commitIndex[l] <= commitIndex'[l]
    PROVE  RequestsOfLeader(l)'
<1>1. commitIndex[l] \in Int /\ commitIndex'[l] \in Int  BY DEF TypeOK, ApplyTypeOK
<1>2. \A i \in 0 .. commitIndex[l] : i \in 0 .. commitIndex'[l]  BY <1>1
<1> QED  BY <1>2 DEF RequestsOfLeader

\* A step that changes nothing of all this: elections, and terms taken over.
logVars == <<binlog, nextIndex, matchIndex, repl, appending, commitIndex, lastApplied, applier,
             sdkAck, reply, appendReq, appendRes>>

LEMMA LeadKept ==
    ASSUME UNCHANGED logVars, NEW l, NEW t, LeadInv(l, t)
    PROVE  LeadInv(l, t)'
<1>1. CallsOfLeader(l, t)' = CallsOfLeader(l, t)
  BY DEF logVars, CallsOfLeader, OfLeader
<1>2. LogsOfLeader(l)' = LogsOfLeader(l)  BY DEF logVars, LogsOfLeader
<1>3. FollowersKnown(l, t)' = FollowersKnown(l, t)
  BY DEF logVars, FollowersKnown, ThreadKnows, NothingUnderWay, CallBuilt, CallUnderWay, CallsTo,
     AnswersOf, RequestOf
<1>4. /\ CommitsOfLeader(l)' = CommitsOfLeader(l) /\ CommitOnMajority(l)' = CommitOnMajority(l)
      /\ RequestsOfLeader(l)' = RequestsOfLeader(l)
  BY DEF logVars, CommitsOfLeader, CommitOnMajority, Holders, RequestsOfLeader
<1> QED  BY <1>1, <1>2, <1>3, <1>4 DEF LeadInv

\* What is known before a step of a steady cluster with a leader.
Lead(l, t) ==
    /\ TypeOK /\ NoBadSlot /\ ElectionInv /\ CandidateInv
    /\ Steady /\ Wins(l, t) /\ LeadInv(l, t)

\* The numbers of a node.
LEMMA NodeNumbers ==
    ASSUME TypeOK, NEW s \in Server
    PROVE  /\ binlog[s].len \in Nat /\ commitIndex[s] \in Int /\ lastApplied[s] \in Int
           /\ applier[s].end \in Int /\ currentTerm[s] \in Terms
           /\ \A f \in Server : nextIndex[s][f] \in Nat /\ matchIndex[s][f] \in Int
BY LogFacts DEF TypeOK, LogTypeOK, BinLogs, ApplyTypeOK, ReplicationTypeOK, ElectionTypeOK

\* A step that touches the thread of one follower at most.
LEMMA FollowersKept ==
    ASSUME TypeOK, TypeOK', NEW l \in Server, NEW t, FollowersKnown(l, t), LogsGrow(l),
           commitIndex[l] <= commitIndex'[l], NEW g,
           \A f \in Server \ {l} : f # g => SameThread(l, f),
           g \in Server \ {l} => ThreadKnows(l, t, g)',
           \A f \in Server : f # g => matchIndex'[l][f] = matchIndex[l][f],
           g \in Server \ {l} => matchIndex'[l][g] < binlog'[g].len,
           g = l => matchIndex'[l][l] = matchIndex[l][l]
    PROVE  FollowersKnown(l, t)'
<1>1. ASSUME NEW f \in Server \ {l}
      PROVE  ThreadKnows(l, t, f)' /\ matchIndex'[l][f] < binlog'[f].len
  <2>1. CASE f = g  BY <2>1
  <2>2. CASE f # g
    <3>1. ThreadKnows(l, t, f) /\ SameThread(l, f)  BY <2>2 DEF FollowersKnown
    <3>2. ThreadKnows(l, t, f)'  BY <3>1, ThreadKept
    <3>3. matchIndex'[l][f] = matchIndex[l][f] /\ binlog'[f].len = binlog[f].len
      BY <2>2, <3>1 DEF SameThread
    <3> QED  BY <3>2, <3>3 DEF FollowersKnown
  <2> QED  BY <2>1, <2>2
<1>2. matchIndex'[l][l] = 0  BY DEF FollowersKnown
<1> QED  BY <1>1, <1>2 DEF FollowersKnown

-----------------------------------------------------------------------------
\* Steps of the leader's threads.

\* A step of the thread for f: it may send to f, take an answer of f, and move
\* what the leader knows of f, and the commit index.
OneThread(l, f) ==
    \A s, g \in Server : s # l \/ g # f =>
        /\ repl'[s][g] = repl[s][g]
        /\ nextIndex'[s][g] = nextIndex[s][g] /\ matchIndex'[s][g] = matchIndex[s][g]

LEMMA OnlyThread ==
    ASSUME TypeOK, NEW l \in Server, NEW f \in Server,
           NEW th, repl' = [repl EXCEPT ![l][f] = th],
           \/ UNCHANGED <<nextIndex, matchIndex>>
           \/ \E n, k : /\ nextIndex' = [nextIndex EXCEPT ![l][f] = n]
                         /\ matchIndex' = [matchIndex EXCEPT ![l][f] = k]
    PROVE  repl'[l][f] = th /\ OneThread(l, f)
<1>1. /\ repl \in [Server -> [Server -> ReplState]]
      /\ nextIndex \in [Server -> [Server -> Nat]]
      /\ matchIndex \in [Server -> [Server -> Int]]
  BY DEF TypeOK, ReplicationTypeOK
<1> QED  BY <1>1 DEF OneThread

LEMMA ThreadStep ==
    ASSUME NodeAssumption, TypeOK', NEW l \in Server, NEW t \in Terms, Lead(l, t),
           NEW f \in Server \ {l}, repl[l][f].pc # "none", OneThread(l, f),
           matchIndex'[l][f] < binlog[f].len,
           UNCHANGED <<binlog, appending, lastApplied, applier, sdkAck, reply>>,
           \A m \in appendReq' : m \in appendReq \/ (OfLeader(l, t, m)' /\ m.to = f),
           appendReq \subseteq appendReq', appendRes' \subseteq appendRes,
           \A m \in appendRes : m.from # f => m \in appendRes',
           \A s \in Server \ {l} : commitIndex'[s] = commitIndex[s],
           commitIndex[l] <= commitIndex'[l], commitIndex'[l] < binlog[l].len,
           ThreadKnows(l, t, f)', CommitOnMajority(l)'
    PROVE  LeadInv(l, t)'
<1> USE DEF Lead
<1>1. LogsGrow(l) /\ LogsOfLeader(l)'  BY LogsSame DEF LeadInv
<1>2. \A s, g \in Server : g # f =>
         /\ repl'[s][g] = repl[s][g] /\ nextIndex'[s][g] = nextIndex[s][g]
         /\ matchIndex'[s][g] = matchIndex[s][g]
  BY DEF OneThread
<1>3. CallsOfLeader(l, t)  BY DEF LeadInv
<1>4. CallsOfLeader(l, t)'
  <2>1. \A s, g \in Server : repl'[s][g].pc # "none" => repl[s][g].pc # "none"
    BY DEF OneThread
  <2>2. \A m \in appendReq' : m \in appendReq \/ OfLeader(l, t, m)'  OBVIOUS
  <2>3. \A s \in Server : \A h \in appending'[s] :
           \/ \E g \in appending[s] : g.req = h.req
           \/ h.req \in appendReq /\ h.req.to = s
    OBVIOUS
  <2>4. \A m \in appendRes' : m \in appendRes \/ (m.to = l /\ m.from # l)  OBVIOUS
  <2>5. \A s \in Server \ {l} : sdkAck'[s] \subseteq sdkAck[s]  OBVIOUS
  <2> QED  BY <1>3, <2>1, <2>2, <2>3, <2>4, <2>5, CallsKept
<1>5. ASSUME NEW g \in Server \ {l}, g # f
      PROVE  SameThread(l, g)
  <2>1. CallsTo(g)' = CallsTo(g)  BY <1>5 DEF CallsTo
  <2>2. AnswersOf(g)' = AnswersOf(g)  BY <1>5 DEF AnswersOf
  <2> QED  BY <1>2, <1>5, <2>1, <2>2 DEF SameThread
<1>6. FollowersKnown(l, t)'
  BY <1>1, <1>2, <1>5, FollowersKept DEF LeadInv
<1>7. CommitsOfLeader(l)'
  <2>1. \A s \in Server :
           /\ binlog[s].len \in Int /\ commitIndex[s] \in Int /\ lastApplied[s] \in Int
           /\ commitIndex'[s] \in Int /\ applier[s].end \in Int
    BY NodeNumbers DEF TypeOK, ApplyTypeOK
  <2> QED  BY <2>1 DEF CommitsOfLeader, LeadInv
<1>8. RequestsOfLeader(l)'  BY RequestsKept DEF LeadInv
<1> QED  BY <1>1, <1>4, <1>6, <1>7, <1>8 DEF LeadInv

\* The thread is the leader's, for another member.
LEMMA ThreadOfLeader ==
    ASSUME NEW l, NEW t, Lead(l, t), NEW s \in Server, NEW f \in Server, repl[s][f].pc # "none"
    PROVE  s = l /\ f \in Server \ {l} /\ ThreadKnows(l, t, f)
BY DEF Lead, LeadInv, CallsOfLeader, FollowersKnown

LEMMA ReplicateStopLead ==
    ASSUME NodeAssumption, TypeOK', NEW l \in Server, NEW t \in Terms, Lead(l, t),
           NEW s \in Server, NEW f \in Server, ReplicateStop(s, f)
    PROVE  LeadInv(l, t)'
<1>1. s = l /\ f \in Server \ {l} /\ ThreadKnows(l, t, f) /\ repl[l][f].pc = "loop"
  BY ThreadOfLeader DEF ReplicateStop
<1>2. /\ repl' = [repl EXCEPT ![l][f] = NoThread]
      /\ UNCHANGED <<binlog, nextIndex, matchIndex, appending, commitIndex, lastApplied, applier,
                     sdkAck, reply, appendReq, appendRes>>
  BY <1>1 DEF ReplicateStop
<1>3. repl'[l][f] = NoThread /\ NoThread.pc = "none" /\ OneThread(l, f)
  BY <1>1, <1>2, OnlyThread DEF NoThread, Lead
<1>4. NothingUnderWay(f)'
  BY <1>1, <1>2 DEF ThreadKnows, NothingUnderWay, CallsTo, AnswersOf
<1>5. ThreadKnows(l, t, f)'  BY <1>3, <1>4 DEF ThreadKnows
<1>6. LogsGrow(l) /\ CommitOnMajority(l)'
  BY <1>2, LogsSame, MajorityKept DEF Lead, LeadInv
<1>7. /\ matchIndex'[l][f] < binlog[f].len
      /\ commitIndex[l] \in Int /\ commitIndex[l] < binlog[l].len
  BY <1>1, <1>2, NodeNumbers DEF Lead, LeadInv, FollowersKnown, CommitsOfLeader
<1> QED  BY <1>1, <1>2, <1>3, <1>5, <1>6, <1>7, ThreadStep

LEMMA ReplicateBuildLead ==
    ASSUME NodeAssumption, TypeOK', NEW l \in Server, NEW t \in Terms, Lead(l, t),
           NEW s \in Server, NEW f \in Server, ReplicateBuild(s, f)
    PROVE  LeadInv(l, t)'
<1>1. s = l /\ f \in Server \ {l} /\ ThreadKnows(l, t, f) /\ repl[l][f].pc = "loop"
  BY ThreadOfLeader DEF ReplicateBuild
<1> DEFINE call == BuildCall(l, f)
           th == [pc |-> "built", ok |-> repl[l][f].ok, call |-> call]
<1>2. /\ repl' = [repl EXCEPT ![l][f] = th]
      /\ UNCHANGED <<binlog, nextIndex, matchIndex, appending, commitIndex, lastApplied, applier,
                     sdkAck, reply, appendReq, appendRes>>
      /\ status[l] = "Leader" /\ binlog[l].len > nextIndex[l][f]
  BY <1>1 DEF ReplicateBuild, GetLength
<1>3. repl'[l][f] = th /\ OneThread(l, f)
  BY <1>1, <1>2, OnlyThread DEF Lead
<1>4. currentTerm[l] = t  BY <1>2, LeaderIs DEF Lead
<1>5. /\ binlog[l].len \in Nat /\ nextIndex[l][f] \in Nat /\ commitIndex[l] \in Int
  BY <1>1, NodeNumbers DEF Lead
<1>6. CallBuilt(l, t, f)'
  <2>1. /\ call.index = nextIndex[l][f] /\ call.term = t /\ call.commit = commitIndex[l]
        /\ call.batch = IF repl[l][f].ok THEN binlog[l].len - nextIndex[l][f]
                        ELSE Lesser(1, binlog[l].len - nextIndex[l][f])
        /\ call.prevTerm = IF nextIndex[l][f] > 0
                           THEN ReadSlot(binlog[l], nextIndex[l][f] - 1).term ELSE -1
    BY <1>4 DEF BuildCall, GetLength
  <2>2. call.batch > 0 /\ nextIndex[l][f] + call.batch <= binlog[l].len
    BY <1>2, <1>5, <2>1 DEF Lesser
  <2>3. (nextIndex[l][f] - 1) + 1 = nextIndex[l][f]  BY <1>5
  <2>4. call.prevTerm = IF nextIndex[l][f] > 0 THEN binlog[l].slot[nextIndex[l][f]].term ELSE -1
    BY <2>1, <2>3 DEF ReadSlot
  <2>5. repl'[l][f].call = call  BY <1>3
  <2> HIDE DEF call
  <2> QED  BY <1>2, <1>5, <2>1, <2>2, <2>4, <2>5 DEF CallBuilt, NextAfter
<1>7. NothingUnderWay(f)'
  BY <1>1, <1>2 DEF ThreadKnows, NothingUnderWay, CallsTo, AnswersOf
<1>8. ThreadKnows(l, t, f)'
  <2>1. repl'[l][f].pc = "built"  BY <1>3
  <2>2. nextIndex'[l][f] = binlog'[f].len  BY <1>1, <1>2 DEF ThreadKnows
  <2> QED  BY <1>6, <1>7, <2>1, <2>2 DEF ThreadKnows
<1>9. LogsGrow(l) /\ CommitOnMajority(l)'
  BY <1>2, LogsSame, MajorityKept DEF Lead, LeadInv
<1>10. /\ matchIndex'[l][f] < binlog[f].len /\ commitIndex[l] < binlog[l].len
  BY <1>1, <1>2 DEF Lead, LeadInv, FollowersKnown, CommitsOfLeader
<1> HIDE DEF th
<1> QED  BY <1>1, <1>2, <1>3, <1>5, <1>8, <1>9, <1>10, ThreadStep

LEMMA ReplicateSendLead ==
    ASSUME NodeAssumption, TypeOK', NEW l \in Server, NEW t \in Terms, Lead(l, t),
           NEW s \in Server, NEW f \in Server, ReplicateSend(s, f)
    PROVE  LeadInv(l, t)'
<1>1. s = l /\ f \in Server \ {l} /\ ThreadKnows(l, t, f) /\ repl[l][f].pc = "built"
  BY ThreadOfLeader DEF ReplicateSend
<1> DEFINE call == repl[l][f].call
           entries == SubSeq(binlog[l].slot, call.index + 1, call.index + call.batch)
           terms == {entries[i].term : i \in 1 .. Len(entries)}
           th == [pc |-> "sent", ok |-> repl[l][f].ok, call |-> [call EXCEPT !.terms = terms]]
<1> PICK req :
       req = [from |-> l, to |-> f, term |-> call.term, rpc |-> TRUE,
              prev |-> call.index - 1, prevTerm |-> call.prevTerm,
              commit |-> call.commit, entries |-> entries]
  OBVIOUS
<1>2. /\ repl' = [repl EXCEPT ![l][f] = th]
      /\ appendReq' = appendReq \cup {req}
      /\ UNCHANGED <<binlog, nextIndex, matchIndex, appending, commitIndex, lastApplied, applier,
                     sdkAck, reply, appendRes>>
  BY <1>1 DEF ReplicateSend
<1>3. CallBuilt(l, t, f) /\ NothingUnderWay(f) /\ call.index = binlog[f].len
  BY <1>1 DEF ThreadKnows, CallBuilt
<1>4. /\ call.index \in Nat /\ call.batch \in Nat /\ NextAfter(call) = call.index + call.batch
      /\ call.commit \in Int
  BY <1>1, CallNumbers DEF Lead
<1>5. /\ Len(entries) = call.batch
      /\ \A i \in 1 .. call.batch : entries[i] = binlog[l].slot[call.index + i]
  <2>1. binlog[l].slot \in Seq(Entry) /\ Len(binlog[l].slot) \in Nat /\ binlog[l].len \in Nat
        /\ Len(binlog[l].slot) = binlog[l].len
    BY LogFacts DEF Lead, LeadInv, LogsOfLeader
  <2> DEFINE a == call.index + 1
             b == call.index + call.batch
  <2>2. a \in Int /\ b \in Int /\ a <= b + 1 /\ 1 <= a /\ b <= Len(binlog[l].slot)
        /\ b - a + 1 = call.batch
    <3>1. call.index + call.batch <= binlog[l].len /\ call.batch > 0
      BY <1>3, <1>4 DEF CallBuilt
    <3> PICK n, k : n = call.index /\ k = call.batch  OBVIOUS
    <3>2. n \in Nat /\ k \in Nat /\ k > 0  BY <1>4, <3>1
    <3>3. a = n + 1 /\ b = n + k  OBVIOUS
    <3>4. b <= Len(binlog[l].slot)  BY <2>1, <3>1
    <3> HIDE DEF a, b, call, entries, terms
    <3>5. a \in Int /\ b \in Int /\ 1 <= a  BY <3>2, <3>3
    <3>6. a <= b + 1 /\ b - a + 1 = k  BY <3>2, <3>3
    <3> QED  BY <3>4, <3>5, <3>6
  <2>3. \A i \in 1 .. call.batch : a + i - 1 = call.index + i  BY <1>4
  <2>4. \A i \in a .. b : binlog[l].slot[i] \in Entry
    <3> HIDE DEF a, b, call, entries, terms
    <3>1. \A i \in a .. b : i \in 1 .. Len(binlog[l].slot)  BY <2>1, <2>2
    <3> QED  BY <2>1, <3>1, ElementOfSeq
  <2>5. entries = SubSeq(binlog[l].slot, a, b)  OBVIOUS
  <2>6. \A i \in 1 .. b - a + 1 : SubSeq(binlog[l].slot, a, b)[i] = binlog[l].slot[a + i - 1]
    <3> HIDE DEF a, b, call, entries, terms
    <3> QED  BY <2>1, <2>2, <2>4, SubSeqProperties
  <2>7. Len(SubSeq(binlog[l].slot, a, b)) = b - a + 1
    <3> HIDE DEF a, b, call, entries, terms
    <3>1. b - a + 1 \in Nat  BY <1>4, <2>2
    <3>2. Len(SubSeq(binlog[l].slot, a, b)) = IF a <= b THEN b - a + 1 ELSE 0
      BY <2>1, <2>2, <2>4, SubSeqProperties
    <3> QED  BY <2>2, <3>1, <3>2
  <2> HIDE DEF a, b, entries, terms
  <2> QED  BY <2>2, <2>3, <2>5, <2>6, <2>7
<1>6. repl'[l][f].pc = "sent" /\ repl'[l][f].call = [call EXCEPT !.terms = terms]
      /\ OneThread(l, f)
  <2>1. th.pc = "sent" /\ th.call = [call EXCEPT !.terms = terms]  OBVIOUS
  <2> HIDE DEF th, terms, call
  <2>2. repl'[l][f] = th /\ OneThread(l, f)  BY <1>1, <1>2, OnlyThread DEF Lead
  <2> QED  BY <2>1, <2>2
<1>7. call \in Call  BY <1>1, CallType DEF Lead, TypeOK
<1> DEFINE next == repl'[l][f].call
<1>8. /\ next.index = call.index /\ next.batch = call.batch /\ next.term = call.term
      /\ next.prevTerm = call.prevTerm /\ next.commit = call.commit
  BY <1>6, <1>7 DEF Call
<1>9. LogsGrow(l)  BY <1>2, LogsSame DEF Lead
<1>10. commitIndex[l] \in Int /\ commitIndex'[l] = commitIndex[l]
  BY <1>2, NodeNumbers DEF Lead
<1> HIDE DEF terms, th
<1>11. CallBuilt(l, t, f)'
  <2>1. nextIndex'[l][f] = nextIndex[l][f] /\ commitIndex[l] <= commitIndex'[l]
    BY <1>2, <1>10
  <2> QED  BY <1>1, <1>3, <1>8, <1>9, <2>1, CallBuiltKept DEF Lead
<1>12. RequestOf(l, f, req)'
  BY <1>2, <1>5, <1>8 DEF RequestOf
<1>13. entries # << >>
  <2>1. call.batch > 0  BY <1>3 DEF CallBuilt
  <2> HIDE DEF entries, call
  <2>2. Len(entries) # 0  BY <1>4, <1>5, <2>1
  <2> QED  BY <2>2
<1>14. OfLeader(l, t, req)' /\ req.to = f /\ req.from = l /\ req.entries = entries
  BY <1>1, <1>2, <1>3 DEF OfLeader, CallBuilt
<1> HIDE DEF entries
<1>15. CallUnderWay(l, t, f)'
  <2>1. CallsTo(f)' = {req}
    BY <1>2, <1>3, <1>13, <1>14 DEF CallsTo, NothingUnderWay
  <2>2. appending'[f] = {} /\ AnswersOf(f)' = {}
    BY <1>2, <1>3 DEF NothingUnderWay, AnswersOf
  <2>3. binlog'[f].len = next.index  BY <1>2, <1>3, <1>8
  <2> QED  BY <1>2, <1>12, <2>1, <2>2, <2>3 DEF CallUnderWay
<1>16. ThreadKnows(l, t, f)'
  BY <1>6, <1>11, <1>15 DEF ThreadKnows
<1>17. CommitOnMajority(l)'
  BY <1>9, <1>10, MajorityKept DEF Lead, LeadInv
<1>18. /\ matchIndex'[l][f] < binlog[f].len /\ commitIndex[l] < binlog[l].len
  BY <1>1, <1>2 DEF Lead, LeadInv, FollowersKnown, CommitsOfLeader
<1>19. \A m \in appendReq' : m \in appendReq \/ (OfLeader(l, t, m)' /\ m.to = f)
  BY <1>2, <1>14
<1> QED  BY <1>1, <1>2, <1>6, <1>10, <1>16, <1>17, <1>18, <1>19, ThreadStep

\* The members counted by UpdateCommitIndex have the slot, and so does l.
LEMMA CountedHold ==
    ASSUME NodeAssumption, TypeOK, NEW l \in Server, NEW f \in Server \ {l},
           NEW index \in Nat, NEW match \in [Server -> Int],
           index < binlog[l].len, index < binlog[f].len,
           match[l] = 0, \A x \in Server \ {l} : match[x] < binlog[x].len,
           Cardinality({x \in Server : match[x] = index}) >= Cardinality(Server) \div 2,
           index > 0 \/ Cardinality(Server) <= 3
    PROVE  2 * Cardinality(Holders(index)) > Cardinality(Server)
<1> DEFINE S == {x \in Server : match[x] = index}
           n == Cardinality(Server)
<1>1. /\ IsFiniteSet(Server) /\ n \in Nat
      /\ Holders(index) \subseteq Server /\ IsFiniteSet(Holders(index))
      /\ Cardinality(Holders(index)) \in Nat
  <2>1. Holders(index) \subseteq Server  BY DEF Holders
  <2> QED  BY <2>1, FS_Subset, FS_CardinalityType DEF NodeAssumption
<1>2. CASE index > 0
  <2>1. l \notin S /\ S \subseteq Server  BY <1>2
  <2>2. S \subseteq Holders(index)
    <3>1. ASSUME NEW x \in S
          PROVE  x \in Holders(index)
      <4>1. x \in Server \ {l} /\ match[x] = index  BY <2>1
      <4> QED  BY <4>1 DEF Holders
    <3> QED  BY <3>1
  <2>3. l \in Holders(index)  BY DEF Holders
  <2>4. IsFiniteSet(S) /\ Cardinality(S) \in Nat
    BY <1>1, <2>1, FS_Subset, FS_CardinalityType
  <2>5. Cardinality(S \cup {l}) = Cardinality(S) + 1  BY <2>1, <2>4, FS_AddElement
  <2>6. S \cup {l} \subseteq Holders(index)  BY <2>2, <2>3
  <2>7. Cardinality(S) + 1 <= Cardinality(Holders(index))
    BY <1>1, <2>5, <2>6, FS_Subset
  <2>8. Cardinality(S) >= n \div 2  OBVIOUS
  <2> HIDE DEF S, n
  <2>9. 2 * (n \div 2) >= n - 1  BY <1>1
  <2>10. n = Cardinality(Server)  BY DEF n
  <2> QED  BY <1>1, <2>4, <2>7, <2>8, <2>9, <2>10
<1>3. CASE Cardinality(Server) <= 3
  <2>1. {l, f} \subseteq Holders(index)  BY DEF Holders
  <2>2. Cardinality({l, f}) = 2  BY PairCardinality
  <2>3. Cardinality(Holders(index)) >= 2  BY <1>1, <2>1, <2>2, FS_Subset
  <2> QED  BY <1>1, <1>3, <2>3
<1> QED  BY <1>2, <1>3

\* A majority of the followers' answers commits what a majority has.
LEMMA ReplicateSuccessCommit ==
    ASSUME NodeAssumption, TypeOK', NEW l \in Server, NEW t \in Terms, Lead(l, t),
           NEW f \in Server \ {l}, NEW m, ReplicateSuccess(l, f, m),
           repl[l][f].pc = "sent", binlog[f].len = NextAfter(repl[l][f].call),
           binlog' = binlog
    PROVE  /\ \A s \in Server \ {l} : commitIndex'[s] = commitIndex[s]
           /\ commitIndex[l] <= commitIndex'[l] /\ commitIndex'[l] < binlog[l].len
           /\ matchIndex'[l][f] < binlog[f].len
           /\ CommitOnMajority(l)'
<1> DEFINE match == matchIndex'[l]
<1> PICK index : index = NextAfter(repl[l][f].call) - 1  OBVIOUS
<1>1. /\ repl[l][f].call.index \in Nat /\ repl[l][f].call.batch \in Nat
      /\ NextAfter(repl[l][f].call) = repl[l][f].call.index + repl[l][f].call.batch
  BY CallNumbers DEF Lead
<1>2. CallBuilt(l, t, f)
  BY DEF Lead, LeadInv, FollowersKnown, ThreadKnows
<1>3. /\ index \in Nat /\ index < binlog[f].len /\ index < binlog[l].len
      /\ binlog[f].len \in Nat /\ binlog[l].len \in Nat /\ commitIndex[l] \in Int
  BY <1>1, <1>2, NodeNumbers DEF CallBuilt, Lead
<1>4. /\ matchIndex' = [matchIndex EXCEPT ![l][f] = index]
      /\ \/ commitIndex' = commitIndex
         \/ commitIndex' = UpdateCommitIndex(l, match, index)
  BY DEF ReplicateSuccess
<1>5. /\ match \in [Server -> Int] /\ match[f] = index
      /\ \A x \in Server : x # f => match[x] = matchIndex[l][x]
  BY <1>3, <1>4 DEF Lead, TypeOK, ReplicationTypeOK
<1>6. commitIndex \in [Server -> Int]  BY DEF Lead, TypeOK, ApplyTypeOK
<1>7. CASE commitIndex' = commitIndex
  <2>1. LogsGrow(l) /\ CommitOnMajority(l)'
    BY <1>7, LogsSame, MajorityKept DEF Lead, LeadInv
  <2>2. commitIndex[l] < binlog[l].len  BY DEF Lead, LeadInv, CommitsOfLeader
  <2> QED  BY <1>3, <1>5, <1>7, <2>1, <2>2
<1>8. CASE commitIndex' # commitIndex
  <2>1. /\ commitIndex' = [commitIndex EXCEPT ![l] = index] /\ index > commitIndex[l]
        /\ Cardinality({x \in Server : match[x] = index}) >= Cardinality(Server) \div 2
    BY <1>4, <1>8 DEF UpdateCommitIndex
  <2>2. commitIndex'[l] = index  BY <1>6, <2>1
  <2>3. match[l] = 0 /\ \A x \in Server \ {l} : match[x] < binlog[x].len
    <3>1. \A x \in Server \ {l} : matchIndex[l][x] < binlog[x].len
      BY DEF Lead, LeadInv, FollowersKnown
    <3>2. match[l] = 0  BY <1>5 DEF Lead, LeadInv, FollowersKnown
    <3> QED  BY <1>3, <1>5, <3>1, <3>2
  <2>4. CommitOnMajority(l)'
    <3> HIDE DEF match
    <3>1. index > 0 \/ (index = 0 /\ Cardinality(Server) <= 3)
             => 2 * Cardinality(Holders(index)) > Cardinality(Server)
      BY <1>3, <1>5, <2>1, <2>3, CountedHold DEF Lead
    <3>2. Holders(commitIndex[l])' = Holders(index)  BY <2>2 DEF Holders
    <3> QED  BY <2>2, <3>1, <3>2 DEF CommitOnMajority
  <2> QED  BY <1>3, <1>5, <1>6, <2>1, <2>2, <2>4
<1> QED  BY <1>7, <1>8

LEMMA ReplicateAnswerLead ==
    ASSUME NodeAssumption, TypeOK', NEW l \in Server, NEW t \in Terms, Lead(l, t),
           NEW s \in Server, NEW f \in Server, ReplicateAnswer(s, f)
    PROVE  LeadInv(l, t)'
<1>1. s = l /\ f \in Server \ {l} /\ ThreadKnows(l, t, f) /\ repl[l][f].pc = "sent"
  BY ThreadOfLeader DEF ReplicateAnswer
<1>2. PICK m \in appendRes :
         /\ m.from = f
         /\ appendRes' = appendRes \ {m}
         /\ \/ ReplicateNewerTerm(l, f, m)
            \/ ReplicateNotLeader(l, f, m)
            \/ ReplicateSuccess(l, f, m)
            \/ ReplicateBusy(l, f, m)
            \/ ReplicateBackoff(l, f, m)
  BY <1>1 DEF ReplicateAnswer
<1>3. UNCHANGED <<binlog, appending, lastApplied, applier, sdkAck, reply, appendReq>>
  BY DEF ReplicateAnswer
<1> DEFINE call == repl[l][f].call
<1>4. /\ AnswersOf(f) = {m} /\ CallsTo(f) = {} /\ appending[f] = {}
      /\ \/ m.success /\ binlog[f].len = NextAfter(call)
         \/ ~m.success /\ binlog[f].len = call.index /\ (m.busy \/ m.term > t)
  BY <1>1, <1>2 DEF ThreadKnows, CallUnderWay, AnswersOf
<1>5. NothingUnderWay(f)'
  BY <1>2, <1>3, <1>4 DEF NothingUnderWay, CallsTo, AnswersOf
<1>6. CallBuilt(l, t, f)  BY <1>1 DEF ThreadKnows
<1>7. /\ repl \in [Server -> [Server -> ReplState]]
      /\ nextIndex \in [Server -> [Server -> Nat]]
      /\ matchIndex \in [Server -> [Server -> Int]]
  BY DEF Lead, TypeOK, ReplicationTypeOK
<1>8. LogsGrow(l)  BY <1>3, LogsSame DEF Lead
<1>9. ASSUME commitIndex' = commitIndex, matchIndex' = matchIndex, nextIndex' = nextIndex,
             NEW th, repl' = [repl EXCEPT ![l][f] = th], th.pc \in {"none", "loop"},
             th.pc = "loop" => nextIndex[l][f] = binlog[f].len
      PROVE  LeadInv(l, t)'
  <2>1. repl'[l][f] = th /\ OneThread(l, f)  BY <1>1, <1>9, OnlyThread DEF Lead
  <2>2. ThreadKnows(l, t, f)'  BY <1>3, <1>5, <1>9, <2>1 DEF ThreadKnows
  <2>3. CommitOnMajority(l)'  BY <1>8, <1>9, MajorityKept DEF Lead, LeadInv
  <2>4. /\ matchIndex'[l][f] < binlog[f].len /\ commitIndex[l] < binlog[l].len
        /\ commitIndex[l] \in Int
    BY <1>1, <1>9, NodeNumbers DEF Lead, LeadInv, FollowersKnown, CommitsOfLeader
  <2>5. /\ \A g \in appendRes : g.from # f => g \in appendRes'
        /\ appendRes' \subseteq appendRes /\ appendReq' = appendReq
    BY <1>2, <1>3
  <2> QED  BY <1>1, <1>3, <1>9, <2>1, <2>2, <2>3, <2>4, <2>5, ThreadStep
<1>10. CASE ReplicateNewerTerm(l, f, m) \/ ReplicateNotLeader(l, f, m)
  <2>1. NoThread.pc = "none"  BY DEF NoThread
  <2>2. repl' = [repl EXCEPT ![l][f] = NoThread] /\ UNCHANGED <<commitIndex, matchIndex, nextIndex>>
    BY <1>10 DEF ReplicateNewerTerm, ReplicateNotLeader
  <2> QED  BY <1>9, <2>1, <2>2
<1>11. CASE ReplicateBusy(l, f, m)
  <2>1. LoopHead(TRUE).pc = "loop"  BY DEF LoopHead
  <2>2. repl' = [repl EXCEPT ![l][f] = LoopHead(TRUE)] /\ UNCHANGED <<commitIndex, matchIndex, nextIndex>>
    BY <1>11 DEF ReplicateBusy
  <2>3. nextIndex[l][f] = binlog[f].len  BY <1>4, <1>6, <1>11 DEF CallBuilt, ReplicateBusy
  <2> QED  BY <1>9, <2>1, <2>2, <2>3
<1>12. CASE ReplicateBackoff(l, f, m)
  <2>1. currentTerm[l] = t  BY <1>12, LeaderIs DEF ReplicateBackoff, Lead
  <2>2. m.term \in Int /\ t \in Int
    BY NodeAssumption DEF Lead, TypeOK, ReplicationTypeOK, AppendResponse, Terms, NodeAssumption
  <2> QED  BY <1>4, <1>12, <2>1, <2>2 DEF ReplicateBackoff
<1>13. CASE ReplicateSuccess(l, f, m)
  <2>1. binlog[f].len = NextAfter(call) /\ m.success  BY <1>4, <1>13 DEF ReplicateSuccess
  <2>2. /\ nextIndex' = [nextIndex EXCEPT ![l][f] = NextAfter(call)]
        /\ matchIndex' = [matchIndex EXCEPT ![l][f] = NextAfter(call) - 1]
        /\ repl' = [repl EXCEPT ![l][f] = LoopHead(TRUE)]
    BY <1>13 DEF ReplicateSuccess
  <2>3. repl'[l][f].pc = "loop" /\ OneThread(l, f)
    <3>1. repl'[l][f] = LoopHead(TRUE) /\ OneThread(l, f)
      BY <1>1, <2>2, OnlyThread DEF Lead
    <3> QED  BY <3>1 DEF LoopHead
  <2>4. nextIndex'[l][f] = binlog'[f].len  BY <1>1, <1>3, <1>7, <2>1, <2>2
  <2>5. ThreadKnows(l, t, f)'  BY <1>5, <2>3, <2>4 DEF ThreadKnows
  <2>6. /\ \A u \in Server \ {l} : commitIndex'[u] = commitIndex[u]
        /\ commitIndex[l] <= commitIndex'[l] /\ commitIndex'[l] < binlog[l].len
        /\ matchIndex'[l][f] < binlog[f].len
        /\ CommitOnMajority(l)'
    BY <1>1, <1>3, <1>13, <2>1, ReplicateSuccessCommit
  <2>7. /\ \A g \in appendRes : g.from # f => g \in appendRes'
        /\ appendRes' \subseteq appendRes /\ appendReq' = appendReq
    BY <1>2, <1>3
  <2> QED  BY <1>1, <1>3, <2>3, <2>5, <2>6, <2>7, ThreadStep
<1> QED  BY <1>2, <1>10, <1>11, <1>12, <1>13

-----------------------------------------------------------------------------
\* Steps of a follower, and heartbeats.

\* A step of AppendEntriesImpl at f: its log, its commit index and the calls and
\* answers between it and the leader.
LEMMA FollowerSide ==
    ASSUME NodeAssumption, TypeOK', NEW l \in Server, NEW t \in Terms, Lead(l, t),
           NEW f \in Server \ {l},
           UNCHANGED <<repl, nextIndex, matchIndex, lastApplied, applier, sdkAck, reply>>,
           \A s \in Server \ {f} : /\ binlog'[s] = binlog[s] /\ appending'[s] = appending[s]
                                   /\ commitIndex'[s] = commitIndex[s],
           binlog[f].len <= binlog'[f].len, binlog'[f].len = Len(binlog'[f].slot),
           binlog'[f].len <= binlog[l].len,
           \A i \in 1 .. binlog'[f].len : binlog'[f].slot[i] = binlog[l].slot[i],
           commitIndex'[f] <= commitIndex[l], commitIndex'[f] < binlog'[f].len,
           appendReq' \subseteq appendReq, \A m \in appendReq : m \in appendReq' \/ m.to = f,
           appendRes \subseteq appendRes',
           \A m \in appendRes' : m \in appendRes \/ (m.from = f /\ m.to = l),
           \A h \in appending'[f] : \/ \E g \in appending[f] : g.req = h.req
                                    \/ h.req \in appendReq /\ h.req.to = f,
           ThreadKnows(l, t, f)'
    PROVE  LeadInv(l, t)'
<1> USE DEF Lead
<1>1. LogsGrow(l)
  <2>1. \A s \in Server : binlog[s].len \in Int  BY NodeNumbers
  <2> QED  BY <2>1 DEF LogsGrow
<1>2. LogsOfLeader(l)'
  <2> SUFFICES ASSUME NEW s \in Server
               PROVE  /\ binlog'[s].len = Len(binlog'[s].slot) /\ binlog'[s].len <= binlog'[l].len
                      /\ \A i \in 1 .. binlog'[s].len : binlog'[s].slot[i] = binlog'[l].slot[i]
    BY DEF LogsOfLeader
  <2>1. CASE s = f  BY <2>1
  <2>2. CASE s # f
    <3>1. binlog'[s] = binlog[s] /\ binlog'[l] = binlog[l]  BY <2>2
    <3>2. LogsOfLeader(l)  BY DEF LeadInv
    <3> QED  BY <3>1, <3>2 DEF LogsOfLeader
  <2> QED  BY <2>1, <2>2
<1>3. commitIndex[l] <= commitIndex'[l] /\ commitIndex'[l] = commitIndex[l]
  BY NodeNumbers
<1>4. CallsOfLeader(l, t)'
  <2>1. \A s \in Server : \A h \in appending'[s] :
           \/ \E g \in appending[s] : g.req = h.req
           \/ h.req \in appendReq /\ h.req.to = s
    <3> TAKE s \in Server
    <3>1. CASE s = f  BY <3>1
    <3>2. CASE s # f  BY <3>2
    <3> QED  BY <3>1, <3>2
  <2>2. \A m \in appendRes' : m \in appendRes \/ (m.to = l /\ m.from # l)  OBVIOUS
  <2> QED  BY <1>3, <2>1, <2>2, CallsKept DEF LeadInv
<1>5. ASSUME NEW g \in Server \ {l}, g # f
      PROVE  SameThread(l, g)
  <2>1. CallsTo(g)' = CallsTo(g)  BY <1>5 DEF CallsTo
  <2>2. AnswersOf(g)' = AnswersOf(g)  BY <1>5 DEF AnswersOf
  <2> QED  BY <1>5, <2>1, <2>2 DEF SameThread
<1>6. FollowersKnown(l, t)'
  <2>1. matchIndex'[l][f] < binlog'[f].len
    <3>1. /\ matchIndex[l][f] \in Int /\ binlog[f].len \in Int /\ binlog'[f].len \in Int
          /\ matchIndex[l][f] < binlog[f].len
      BY NodeNumbers, LogFacts DEF LeadInv, FollowersKnown, TypeOK, LogTypeOK, BinLogs
    <3> QED  BY <3>1
  <2> QED  BY <1>1, <1>3, <1>5, <2>1, FollowersKept DEF LeadInv
<1>7. CommitsOfLeader(l)'
  <2>1. \A s \in Server :
           /\ binlog[s].len \in Int /\ commitIndex[s] \in Int /\ lastApplied[s] \in Int
           /\ commitIndex'[s] \in Int /\ applier[s].end \in Int /\ binlog'[s].len \in Int
           /\ binlog[s].len <= binlog'[s].len
    <3>1. \A s \in Server :
             /\ binlog[s].len \in Int /\ commitIndex[s] \in Int /\ lastApplied[s] \in Int
             /\ applier[s].end \in Int
      BY NodeNumbers
    <3>2. \A s \in Server : commitIndex'[s] \in Int /\ binlog'[s].len \in Int
      BY DEF TypeOK, ApplyTypeOK, LogTypeOK, BinLogs
    <3> QED  BY <1>1, <3>1, <3>2 DEF LogsGrow
  <2>2. \A s \in Server : commitIndex'[s] <= commitIndex'[l] /\ commitIndex'[s] < binlog'[s].len
    <3> TAKE s \in Server
    <3>1. CASE s = f  BY <1>3, <3>1
    <3>2. CASE s # f  BY <3>2 DEF CommitsOfLeader, LeadInv
    <3> QED  BY <3>1, <3>2
  <2>3. \A s \in Server :
           /\ lastApplied'[s] <= commitIndex'[l] /\ lastApplied'[s] < binlog'[s].len
           /\ applier'[s].pc # "wait" =>
                 applier'[s].end <= commitIndex'[l] /\ applier'[s].end < binlog'[s].len
    <3> TAKE s \in Server
    <3>1. /\ lastApplied[s] <= commitIndex[l] /\ lastApplied[s] < binlog[s].len
          /\ applier[s].pc # "wait" =>
                applier[s].end <= commitIndex[l] /\ applier[s].end < binlog[s].len
      BY DEF CommitsOfLeader, LeadInv
    <3>2. lastApplied' = lastApplied /\ applier' = applier /\ commitIndex'[l] = commitIndex[l]
      BY <1>3
    <3> QED  BY <2>1, <3>1, <3>2
  <2> QED  BY <2>2, <2>3 DEF CommitsOfLeader
<1>8. CommitOnMajority(l)'  BY <1>1, <1>3, MajorityKept DEF LeadInv
<1>9. RequestsOfLeader(l)'  BY <1>3, RequestsKept DEF LeadInv
<1> QED  BY <1>2, <1>4, <1>6, <1>7, <1>8, <1>9 DEF LeadInv

\* What the leader's call tells of its commit index, a follower takes over up to
\* its own last slot.
LEMMA CommitTaken ==
    ASSUME NEW l \in Server, NEW t \in Terms, Lead(l, t), NEW m \in AppendRequest,
           OfLeader(l, t, m), CommitUpTo(m)
    PROVE  /\ commitIndex'[m.to] <= commitIndex[l] /\ commitIndex'[m.to] < binlog[m.to].len
           /\ \A s \in Server \ {m.to} : commitIndex'[s] = commitIndex[s]
<1>1. m.to \in Server /\ m.commit \in Int  BY DEF AppendRequest
<1>2. binlog[m.to].len \in Nat /\ commitIndex[l] \in Int  BY <1>1, NodeNumbers DEF Lead
<1>3. commitIndex' = [commitIndex EXCEPT ![m.to] = Lesser(binlog[m.to].len - 1, m.commit)]
  BY DEF CommitUpTo, GetLength
<1>4. commitIndex \in [Server -> Int]  BY DEF Lead, TypeOK, ApplyTypeOK
<1>5. commitIndex'[m.to] = Lesser(binlog[m.to].len - 1, m.commit)  BY <1>1, <1>3, <1>4
<1>6. m.commit <= commitIndex[l]  BY DEF OfLeader
<1> QED  BY <1>1, <1>2, <1>3, <1>4, <1>5, <1>6 DEF Lesser

\* A follower's log as it is.
LEMMA FollowerLog ==
    ASSUME NEW l \in Server, NEW t \in Terms, Lead(l, t), NEW f \in Server
    PROVE  /\ binlog[f].len \in Nat /\ binlog[f].len <= binlog[f].len
           /\ binlog[f].len = Len(binlog[f].slot) /\ binlog[f].len <= binlog[l].len
           /\ \A i \in 1 .. binlog[f].len : binlog[f].slot[i] = binlog[l].slot[i]
           /\ commitIndex[f] <= commitIndex[l] /\ commitIndex[f] < binlog[f].len
BY NodeNumbers DEF Lead, LeadInv, LogsOfLeader, CommitsOfLeader

\* A heartbeat, or one that is refused because its term is old.
LEMMA BeatLead ==
    ASSUME NodeAssumption, TypeOK', NEW l \in Server, NEW t \in Terms, Lead(l, t),
           NEW m \in appendReq, AppendEntries(m), m.entries = << >>
    PROVE  LeadInv(l, t)'
<1>1. m \in AppendRequest /\ OfLeader(l, t, m) /\ m.to \in Server \ {l}
  BY DEF Lead, TypeOK, ReplicationTypeOK, LeadInv, CallsOfLeader, OfLeader, AppendRequest
<1> DEFINE f == m.to
<1>2. /\ UNCHANGED <<repl, nextIndex, matchIndex, lastApplied, applier, sdkAck, reply>>
      /\ UNCHANGED <<binlog, appending, appendRes>>
      /\ appendReq' = appendReq \ {m}
      /\ commitIndex' = commitIndex \/ CommitUpTo(m)
  BY DEF AppendEntries, AppendStale, AppendHeartBeat, AppendBeyond, AppendMismatch, AppendTooFast,
     AppendAccept, AppendAnswer
<1>3. /\ commitIndex'[f] <= commitIndex[l] /\ commitIndex'[f] < binlog[f].len
      /\ \A s \in Server \ {f} : commitIndex'[s] = commitIndex[s]
  BY <1>1, <1>2, CommitTaken, FollowerLog
<1>4. SameThread(l, f)
  <2>1. CallsTo(f)' = CallsTo(f)  BY <1>2 DEF CallsTo
  <2>2. AnswersOf(f)' = AnswersOf(f)  BY <1>2 DEF AnswersOf
  <2> QED  BY <1>2, <2>1, <2>2 DEF SameThread
<1>5. ThreadKnows(l, t, f)'
  <2>1. LogsGrow(l)  BY <1>2, LogsSame DEF Lead
  <2>2. commitIndex[l] <= commitIndex'[l]  BY <1>1, <1>3, NodeNumbers DEF Lead
  <2>3. ThreadKnows(l, t, f)  BY <1>1 DEF Lead, LeadInv, FollowersKnown
  <2> QED  BY <1>1, <1>4, <2>1, <2>2, <2>3, ThreadKept DEF Lead
<1>6. /\ binlog[f].len <= binlog'[f].len /\ binlog'[f].len = Len(binlog'[f].slot)
      /\ binlog'[f].len <= binlog[l].len /\ commitIndex'[f] < binlog'[f].len
      /\ \A i \in 1 .. binlog'[f].len : binlog'[f].slot[i] = binlog[l].slot[i]
  BY <1>1, <1>2, <1>3, FollowerLog
<1> HIDE DEF f
<1>7. /\ \A s \in Server \ {f} : /\ binlog'[s] = binlog[s] /\ appending'[s] = appending[s]
                                 /\ commitIndex'[s] = commitIndex[s]
      /\ appendReq' \subseteq appendReq /\ \A n \in appendReq : n \in appendReq' \/ n.to = f
      /\ appendRes \subseteq appendRes'
      /\ \A n \in appendRes' : n \in appendRes \/ (n.from = f /\ n.to = l)
      /\ \A h \in appending'[f] : \/ \E g \in appending[f] : g.req = h.req
                                  \/ h.req \in appendReq /\ h.req.to = f
  BY <1>2, <1>3 DEF f
<1>8. f \in Server \ {l}  BY <1>1 DEF f
<1> QED  BY <1>2, <1>3, <1>5, <1>6, <1>7, <1>8, FollowerSide

\* The call with entries that is under way to f.
LEMMA CallDelivered ==
    ASSUME NEW l \in Server, NEW t \in Terms, Lead(l, t),
           NEW m \in appendReq, m.entries # << >>
    PROVE  /\ m \in AppendRequest /\ OfLeader(l, t, m) /\ m.to \in Server \ {l}
           /\ repl[l][m.to].pc = "sent" /\ ThreadKnows(l, t, m.to)
           /\ CallBuilt(l, t, m.to) /\ RequestOf(l, m.to, m)
           /\ CallsTo(m.to) = {m} /\ appending[m.to] = {} /\ AnswersOf(m.to) = {}
           /\ binlog[m.to].len = repl[l][m.to].call.index
<1>1. m \in AppendRequest /\ OfLeader(l, t, m) /\ m.to \in Server \ {l}
  BY DEF Lead, TypeOK, ReplicationTypeOK, LeadInv, CallsOfLeader, OfLeader, AppendRequest
<1>2. ThreadKnows(l, t, m.to)  BY <1>1 DEF Lead, LeadInv, FollowersKnown
<1>3. m \in CallsTo(m.to)  BY DEF CallsTo
<1>4. repl[l][m.to].pc = "sent"  BY <1>2, <1>3 DEF ThreadKnows, NothingUnderWay
<1> QED  BY <1>1, <1>2, <1>3, <1>4 DEF ThreadKnows, CallUnderWay

\* f has the slot before the new ones, as the leader has it: it neither misses
\* it nor removes its own.
LEMMA PreviousMatches ==
    ASSUME NodeAssumption, NEW l \in Server, NEW t \in Terms, Lead(l, t),
           NEW m \in appendReq, m.entries # << >>
    PROVE  ~PrevBeyond(m) /\ PrevMatches(m)
<1> DEFINE f == m.to
           call == repl[l][f].call
<1>1. /\ f \in Server \ {l} /\ CallBuilt(l, t, f) /\ RequestOf(l, f, m)
      /\ repl[l][f].pc = "sent" /\ binlog[f].len = call.index
  BY CallDelivered
<1>2. call.index \in Nat  BY <1>1, CallNumbers DEF Lead
<1>3. m.prev = call.index - 1 /\ m.prevTerm = call.prevTerm  BY <1>1 DEF RequestOf
<1>4. ~PrevBeyond(m)  BY <1>1, <1>2, <1>3 DEF PrevBeyond, GetLength
<1>5. PrevMatches(m)
  <2>1. m.prev + 1 = call.index /\ (m.prev >= 0 <=> call.index > 0)  BY <1>2, <1>3
  <2>2. call.prevTerm = IF call.index > 0 THEN binlog[l].slot[call.index].term ELSE -1
    BY <1>1 DEF CallBuilt
  <2>3. call.index > 0 => binlog[f].slot[call.index] = binlog[l].slot[call.index]
    <3>1. call.index > 0 => call.index \in 1 .. binlog[f].len  BY <1>1, <1>2
    <3> QED  BY <1>1, <3>1, FollowerLog
  <2> QED  BY <1>3, <2>1, <2>2, <2>3 DEF PrevMatches, ReadSlot
<1> QED  BY <1>4, <1>5

\* A call with entries comes: f answers that the term is old or that it lags, or
\* accepts the entries.
LEMMA EntriesLead ==
    ASSUME NodeAssumption, TypeOK', NEW l \in Server, NEW t \in Terms, Lead(l, t),
           NEW m \in appendReq, AppendEntries(m), m.entries # << >>
    PROVE  LeadInv(l, t)'
<1> DEFINE f == m.to
           call == repl[l][f].call
<1>1. /\ m \in AppendRequest /\ OfLeader(l, t, m) /\ f \in Server \ {l}
      /\ repl[l][f].pc = "sent" /\ ThreadKnows(l, t, f)
      /\ CallBuilt(l, t, f) /\ RequestOf(l, f, m)
      /\ CallsTo(f) = {m} /\ appending[f] = {} /\ AnswersOf(f) = {}
      /\ binlog[f].len = call.index
  BY CallDelivered
<1>2. AppendStale(m) \/ AppendTooFast(m) \/ AppendAccept(m)
  BY PreviousMatches DEF AppendEntries, AppendHeartBeat, AppendBeyond, AppendMismatch
<1>3. /\ UNCHANGED <<repl, nextIndex, matchIndex, lastApplied, applier, sdkAck, reply>>
      /\ UNCHANGED <<binlog, commitIndex>>
      /\ appendReq' = appendReq \ {m}
  BY <1>2 DEF AppendEntries, AppendStale, AppendTooFast, AppendAccept
<1>4. CallsTo(f)' = {}
  <2>1. CallsTo(f)' = CallsTo(f) \ {m}  BY <1>3 DEF CallsTo
  <2> QED  BY <1>1, <2>1
<1>5. LogsGrow(l) /\ commitIndex[l] <= commitIndex'[l]
  BY <1>3, LogsSame, NodeNumbers DEF Lead
<1>6. CallBuilt(l, t, f)'  BY <1>1, <1>3, <1>5, CallBuiltKept DEF Lead
<1>7. RequestOf(l, f, m)'  BY <1>1, <1>3, <1>5, RequestKept DEF Lead
<1>8. ASSUME NEW r, appendRes' = appendRes \cup {r}, appending' = appending,
             r.from = f, r.to = l, ~r.success, r.busy \/ r.term > t
      PROVE  LeadInv(l, t)'
  <2>1. AnswersOf(f)' = {r}  BY <1>1, <1>8 DEF AnswersOf
  <2>2. CallUnderWay(l, t, f)'
    <3>1. r \in appendRes' /\ appending'[f] = {} /\ binlog'[f].len = repl'[l][f].call.index
      BY <1>1, <1>3, <1>8
    <3> QED  BY <1>4, <1>8, <2>1, <3>1 DEF CallUnderWay
  <2>3. ThreadKnows(l, t, f)'  BY <1>1, <1>3, <1>6, <2>2 DEF ThreadKnows
  <2>4. /\ binlog[f].len <= binlog'[f].len /\ binlog'[f].len = Len(binlog'[f].slot)
        /\ binlog'[f].len <= binlog[l].len /\ commitIndex'[f] < binlog'[f].len
        /\ commitIndex'[f] <= commitIndex[l]
        /\ \A i \in 1 .. binlog'[f].len : binlog'[f].slot[i] = binlog[l].slot[i]
    BY <1>1, <1>3, FollowerLog
  <2> HIDE DEF f
  <2>5. /\ \A s \in Server \ {f} : /\ binlog'[s] = binlog[s] /\ appending'[s] = appending[s]
                                   /\ commitIndex'[s] = commitIndex[s]
        /\ appendReq' \subseteq appendReq /\ \A n \in appendReq : n \in appendReq' \/ n.to = f
        /\ appendRes \subseteq appendRes'
        /\ \A n \in appendRes' : n \in appendRes \/ (n.from = f /\ n.to = l)
        /\ \A h \in appending'[f] : \/ \E g \in appending[f] : g.req = h.req
                                    \/ h.req \in appendReq /\ h.req.to = f
    BY <1>1, <1>3, <1>8 DEF f
  <2> QED  BY <1>1, <1>3, <2>3, <2>4, <2>5, FollowerSide
<1>9. m.rpc = TRUE /\ m.from = l /\ m.term = t
  BY <1>1 DEF OfLeader, AppendRequest
<1>10. m.term \in Int /\ currentTerm[f] \in Int
  BY <1>1, NodeNumbers, NodeAssumption DEF Lead, AppendRequest, Terms, NodeAssumption
<1>11. CASE AppendStale(m)
  <2> DEFINE r == [from |-> f, to |-> l, term |-> currentTerm[f], success |-> FALSE,
                   busy |-> FALSE, len |-> GetLength(binlog[f])]
  <2>1. appendRes' = appendRes \cup {r} /\ appending' = appending /\ r.term > t
    BY <1>9, <1>10, <1>11 DEF AppendStale, AppendAnswer
  <2>2. r.from = f /\ r.to = l /\ ~r.success  OBVIOUS
  <2> HIDE DEF r
  <2> QED  BY <1>8, <2>1, <2>2
<1>12. CASE AppendTooFast(m)
  <2> DEFINE r == [from |-> f, to |-> l, term |-> m.term, success |-> FALSE,
                   busy |-> TRUE, len |-> GetLength(binlog[f])]
  <2>1. appendRes' = appendRes \cup {r} /\ appending' = appending
    BY <1>9, <1>12 DEF AppendTooFast, AppendAnswer
  <2>2. r.from = f /\ r.to = l /\ ~r.success /\ r.busy  OBVIOUS
  <2> HIDE DEF r
  <2> QED  BY <1>8, <2>1, <2>2
<1>13. CASE AppendAccept(m)
  <2> DEFINE h == [req |-> m, pc |-> "write"]
  <2>1. appending' = [appending EXCEPT ![f] = @ \cup {h}] /\ appendRes' = appendRes
    BY <1>13 DEF AppendAccept
  <2>2. /\ appending'[f] = {h}
        /\ \A s \in Server \ {f} : appending'[s] = appending[s]
    BY <1>1, <2>1 DEF Lead, TypeOK, ReplicationTypeOK
  <2>3. AnswersOf(f)' = {}  BY <1>1, <2>1 DEF AnswersOf
  <2>4. CallUnderWay(l, t, f)'
    <3>1. h.req = m /\ h.pc = "write"  OBVIOUS
    <3>2. h \in appending'[f] /\ binlog'[f].len = repl'[l][f].call.index
      BY <1>1, <1>3, <2>2
    <3> HIDE DEF h
    <3> QED  BY <1>4, <1>7, <2>2, <2>3, <3>1, <3>2 DEF CallUnderWay
  <2>6. ThreadKnows(l, t, f)'  BY <1>1, <1>3, <1>6, <2>4 DEF ThreadKnows
  <2>7. /\ binlog[f].len <= binlog'[f].len /\ binlog'[f].len = Len(binlog'[f].slot)
        /\ binlog'[f].len <= binlog[l].len /\ commitIndex'[f] < binlog'[f].len
        /\ commitIndex'[f] <= commitIndex[l]
        /\ \A i \in 1 .. binlog'[f].len : binlog'[f].slot[i] = binlog[l].slot[i]
    BY <1>1, <1>3, FollowerLog
  <2>8. h.req = m  OBVIOUS
  <2> HIDE DEF f, h
  <2>9. /\ \A s \in Server \ {f} : /\ binlog'[s] = binlog[s] /\ appending'[s] = appending[s]
                                   /\ commitIndex'[s] = commitIndex[s]
        /\ appendReq' \subseteq appendReq /\ \A n \in appendReq : n \in appendReq' \/ n.to = f
        /\ appendRes \subseteq appendRes'
        /\ \A n \in appendRes' : n \in appendRes \/ (n.from = f /\ n.to = l)
        /\ \A g \in appending'[f] : \/ \E k \in appending[f] : k.req = g.req
                                    \/ g.req \in appendReq /\ g.req.to = f
    BY <1>3, <2>1, <2>2, <2>8 DEF f
  <2> QED  BY <1>1, <1>3, <2>6, <2>7, <2>9, FollowerSide
<1> QED  BY <1>2, <1>11, <1>12, <1>13

\* The call that f accepted, and has written or not.
LEMMA CallAtWork ==
    ASSUME NEW l \in Server, NEW t \in Terms, Lead(l, t), NEW f \in Server, NEW h \in appending[f]
    PROVE  /\ h \in Appending /\ OfLeader(l, t, h.req) /\ h.req.to = f /\ f \in Server \ {l}
           /\ repl[l][f].pc = "sent" /\ ThreadKnows(l, t, f)
           /\ CallBuilt(l, t, f) /\ RequestOf(l, f, h.req)
           /\ CallsTo(f) = {} /\ appending[f] = {h} /\ AnswersOf(f) = {}
           /\ binlog[f].len = IF h.pc = "write" THEN repl[l][f].call.index
                              ELSE NextAfter(repl[l][f].call)
<1>1. /\ h \in Appending /\ OfLeader(l, t, h.req) /\ h.req.to = f /\ f \in Server \ {l}
  BY DEF Lead, TypeOK, ReplicationTypeOK, LeadInv, CallsOfLeader, OfLeader
<1>2. ThreadKnows(l, t, f)  BY <1>1 DEF Lead, LeadInv, FollowersKnown
<1>3. repl[l][f].pc = "sent"  BY <1>2 DEF ThreadKnows, NothingUnderWay
<1>4. CallBuilt(l, t, f) /\ CallUnderWay(l, t, f)  BY <1>2, <1>3 DEF ThreadKnows
<1>5. PICK g \in appending[f] :
         /\ appending[f] = {g} /\ RequestOf(l, f, g.req)
         /\ CallsTo(f) = {} /\ AnswersOf(f) = {}
         /\ binlog[f].len = IF g.pc = "write" THEN repl[l][f].call.index
                            ELSE NextAfter(repl[l][f].call)
  BY <1>4 DEF CallUnderWay
<1>6. g = h  BY <1>5
<1> QED  BY <1>1, <1>2, <1>3, <1>4, <1>5, <1>6

LEMMA AppendWriteLead ==
    ASSUME NodeAssumption, TypeOK', NEW l \in Server, NEW t \in Terms, Lead(l, t),
           NEW f \in Server, NEW h \in appending[f], AppendWrite(f, h)
    PROVE  LeadInv(l, t)'
<1> DEFINE call == repl[l][f].call
           g == [h EXCEPT !.pc = "finish"]
<1> PICK w : w = WriteEntryList(binlog[f], h.req.entries)  OBVIOUS
<1>1. /\ h \in Appending /\ OfLeader(l, t, h.req) /\ h.req.to = f /\ f \in Server \ {l}
      /\ repl[l][f].pc = "sent" /\ ThreadKnows(l, t, f)
      /\ CallBuilt(l, t, f) /\ RequestOf(l, f, h.req)
      /\ CallsTo(f) = {} /\ appending[f] = {h} /\ AnswersOf(f) = {}
      /\ binlog[f].len = call.index
  BY CallAtWork DEF AppendWrite
<1>2. /\ binlog' = [binlog EXCEPT ![f] = w]
      /\ appending' = [appending EXCEPT ![f] = (@ \ {h}) \cup {g}]
      /\ UNCHANGED <<repl, nextIndex, matchIndex, lastApplied, applier, sdkAck, reply, commitIndex,
                     appendReq, appendRes>>
  BY DEF AppendWrite
<1>3. /\ binlog \in [Server -> BinLogs(Entry, Terms)]
      /\ appending \in [Server -> SUBSET Appending]
  BY DEF Lead, TypeOK, LogTypeOK, ReplicationTypeOK
<1>4. g.req = h.req /\ g.pc = "finish"  BY <1>1 DEF Appending
<1>5. h.req.entries \in Seq(Entry) /\ h.req.entries # << >>
  BY <1>1 DEF Appending, AppendRequest
<1> HIDE DEF g
<1>6. binlog'[f] = w /\ \A s \in Server \ {f} : binlog'[s] = binlog[s]
  BY <1>2, <1>3
<1>7. appending'[f] = {g} /\ \A s \in Server \ {f} : appending'[s] = appending[s]
  BY <1>1, <1>2, <1>3
<1>8. /\ call.index \in Nat /\ call.batch \in Nat /\ NextAfter(call) = call.index + call.batch
      /\ binlog[l].len \in Nat
  BY <1>1, CallNumbers, NodeNumbers DEF Lead
<1>9. /\ w.len = binlog[f].len + Len(h.req.entries) /\ w.len = Len(w.slot)
      /\ \A i \in 1 .. binlog[f].len : w.slot[i] = binlog[f].slot[i]
      /\ \A i \in 1 .. Len(h.req.entries) : w.slot[binlog[f].len + i] = h.req.entries[i]
  <2>1. binlog[f] \in BinLogs(Entry, Terms) /\ binlog[f].len = Len(binlog[f].slot)
    BY <1>1, <1>3, FollowerLog
  <2> DEFINE b == binlog[f]
             e == h.req.entries
  <2>2. /\ WriteEntryList(b, e).len = b.len + Len(e)
        /\ WriteEntryList(b, e).len = Len(WriteEntryList(b, e).slot)
        /\ \A i \in 1 .. b.len : WriteEntryList(b, e).slot[i] = b.slot[i]
        /\ \A i \in 1 .. Len(e) : WriteEntryList(b, e).slot[b.len + i] = e[i]
    BY <1>5, <2>1, WriteAtEnd, Zenon
  <2> QED  BY <2>2
<1>10. /\ Len(h.req.entries) = call.batch /\ w.len = NextAfter(call)
       /\ \A i \in 1 .. call.batch : h.req.entries[i] = binlog[l].slot[call.index + i]
  BY <1>1, <1>8, <1>9 DEF RequestOf
<1>11. w.len <= binlog[l].len  BY <1>1, <1>10 DEF CallBuilt
<1>12. ASSUME NEW i \in 1 .. w.len
       PROVE  w.slot[i] = binlog[l].slot[i]
  <2>1. CASE i <= call.index
    <3>1. i \in 1 .. binlog[f].len  BY <1>1, <1>8, <1>10, <2>1
    <3> QED  BY <1>9, <3>1, FollowerLog
  <2>2. CASE i > call.index
    <3> PICK k : k = i - call.index  OBVIOUS
    <3>1. k \in 1 .. call.batch /\ call.index + k = i
      <4>1. i \in 1 .. call.index + call.batch  BY <1>8, <1>10
      <4> QED  BY <1>8, <2>2, <4>1
    <3>2. w.slot[binlog[f].len + k] = h.req.entries[k]  BY <1>9, <1>10, <3>1
    <3> QED  BY <1>1, <1>10, <3>1, <3>2
  <2> QED  BY <1>8, <1>10, <2>1, <2>2
<1>13. LogsGrow(l)
  <2>1. \A s \in Server : binlog[s].len \in Int  BY NodeNumbers DEF Lead
  <2>2. binlog[f].len <= w.len  BY <1>1, <1>8, <1>10
  <2> QED  BY <1>1, <1>6, <2>1, <2>2 DEF LogsGrow
<1>14. commitIndex[l] <= commitIndex'[l]  BY <1>2, NodeNumbers DEF Lead
<1>15. CallBuilt(l, t, f)' /\ RequestOf(l, f, g.req)'
  <2>1. RequestOf(l, f, h.req)'  BY <1>1, <1>2, <1>13, RequestKept DEF Lead
  <2>2. CallBuilt(l, t, f)'  BY <1>1, <1>2, <1>13, <1>14, CallBuiltKept DEF Lead
  <2> QED  BY <1>4, <2>1, <2>2
<1>16. CallUnderWay(l, t, f)'
  <2>1. CallsTo(f)' = {} /\ AnswersOf(f)' = {}  BY <1>1, <1>2 DEF CallsTo, AnswersOf
  <2>2. binlog'[f].len = NextAfter(repl'[l][f].call)  BY <1>2, <1>6, <1>10
  <2>3. g \in appending'[f] /\ g.pc # "write"  BY <1>4, <1>7
  <2> QED  BY <1>7, <1>15, <2>1, <2>2, <2>3 DEF CallUnderWay
<1>17. ThreadKnows(l, t, f)'  BY <1>1, <1>2, <1>15, <1>16 DEF ThreadKnows
<1>18. /\ binlog[f].len <= binlog'[f].len /\ binlog'[f].len = Len(binlog'[f].slot)
       /\ binlog'[f].len <= binlog[l].len
       /\ \A i \in 1 .. binlog'[f].len : binlog'[f].slot[i] = binlog[l].slot[i]
  BY <1>1, <1>6, <1>8, <1>9, <1>10, <1>11, <1>12
<1>19. commitIndex'[f] <= commitIndex[l] /\ commitIndex'[f] < binlog'[f].len
  <2>1. commitIndex[f] <= commitIndex[l] /\ commitIndex[f] < binlog[f].len
        /\ commitIndex[f] \in Int /\ binlog[f].len \in Int /\ binlog'[f].len \in Int
    BY <1>1, <1>6, <1>8, <1>10, FollowerLog, NodeNumbers DEF Lead
  <2> QED  BY <1>2, <1>18, <2>1
<1>20. /\ \A k \in appending'[f] : \/ \E j \in appending[f] : j.req = k.req
                                   \/ k.req \in appendReq /\ k.req.to = f
       /\ \A s \in Server \ {f} : commitIndex'[s] = commitIndex[s]
       /\ appendReq' \subseteq appendReq /\ \A n \in appendReq : n \in appendReq' \/ n.to = f
       /\ appendRes \subseteq appendRes'
       /\ \A n \in appendRes' : n \in appendRes \/ (n.from = f /\ n.to = l)
  BY <1>2, <1>4, <1>7
<1> QED  BY <1>1, <1>2, <1>6, <1>7, <1>17, <1>18, <1>19, <1>20, FollowerSide

LEMMA AppendFinishLead ==
    ASSUME NodeAssumption, TypeOK', NEW l \in Server, NEW t \in Terms, Lead(l, t),
           NEW f \in Server, NEW h \in appending[f], AppendFinish(f, h)
    PROVE  LeadInv(l, t)'
<1> DEFINE call == repl[l][f].call
           r == [from |-> f, to |-> l, term |-> currentTerm[f], success |-> TRUE,
                 busy |-> FALSE, len |-> 0]
<1>1. /\ h \in Appending /\ OfLeader(l, t, h.req) /\ h.req.to = f /\ f \in Server \ {l}
      /\ repl[l][f].pc = "sent" /\ ThreadKnows(l, t, f)
      /\ CallBuilt(l, t, f) /\ RequestOf(l, f, h.req)
      /\ CallsTo(f) = {} /\ appending[f] = {h} /\ AnswersOf(f) = {}
      /\ binlog[f].len = NextAfter(call)
  BY CallAtWork DEF AppendFinish
<1>2. /\ CommitUpTo(h.req)
      /\ appending' = [appending EXCEPT ![f] = @ \ {h}]
      /\ UNCHANGED <<repl, nextIndex, matchIndex, lastApplied, applier, sdkAck, reply, binlog,
                     appendReq>>
  BY DEF AppendFinish
<1>3. appendRes' = appendRes \cup {r}
  <2>1. h.req.rpc /\ h.req.from = l /\ h.req.entries # << >>
    BY <1>1 DEF OfLeader, Appending
  <2> QED  BY <1>1, <2>1 DEF AppendFinish, AppendAnswer, FinishTerm
<1>4. h.req \in AppendRequest  BY <1>1 DEF Appending
<1>5. /\ commitIndex'[f] <= commitIndex[l] /\ commitIndex'[f] < binlog[f].len
      /\ \A s \in Server \ {f} : commitIndex'[s] = commitIndex[s]
  BY <1>1, <1>2, <1>4, CommitTaken
<1>6. appending'[f] = {} /\ \A s \in Server \ {f} : appending'[s] = appending[s]
  BY <1>1, <1>2 DEF Lead, TypeOK, ReplicationTypeOK
<1>7. r.from = f /\ r.to = l /\ r.success  OBVIOUS
<1> HIDE DEF r
<1>8. LogsGrow(l) /\ commitIndex[l] <= commitIndex'[l]
  BY <1>1, <1>2, <1>5, LogsSame, NodeNumbers DEF Lead
<1>9. CallBuilt(l, t, f)'  BY <1>1, <1>2, <1>8, CallBuiltKept DEF Lead
<1>10. CallUnderWay(l, t, f)'
  <2>1. CallsTo(f)' = {}  BY <1>1, <1>2 DEF CallsTo
  <2>2. AnswersOf(f)' = {r}  BY <1>1, <1>3, <1>7 DEF AnswersOf
  <2>3. r \in appendRes' /\ binlog'[f].len = NextAfter(repl'[l][f].call)
    BY <1>1, <1>2, <1>3
  <2> QED  BY <1>6, <1>7, <2>1, <2>2, <2>3 DEF CallUnderWay
<1>11. ThreadKnows(l, t, f)'  BY <1>1, <1>2, <1>9, <1>10 DEF ThreadKnows
<1>12. /\ binlog[f].len <= binlog'[f].len /\ binlog'[f].len = Len(binlog'[f].slot)
       /\ binlog'[f].len <= binlog[l].len /\ commitIndex'[f] < binlog'[f].len
       /\ \A i \in 1 .. binlog'[f].len : binlog'[f].slot[i] = binlog[l].slot[i]
  BY <1>1, <1>2, <1>5, FollowerLog
<1>13. /\ \A k \in appending'[f] : \/ \E j \in appending[f] : j.req = k.req
                                   \/ k.req \in appendReq /\ k.req.to = f
       /\ \A s \in Server \ {f} : binlog'[s] = binlog[s]
       /\ appendReq' \subseteq appendReq /\ \A n \in appendReq : n \in appendReq' \/ n.to = f
       /\ appendRes \subseteq appendRes'
       /\ \A n \in appendRes' : n \in appendRes \/ (n.from = f /\ n.to = l)
  BY <1>2, <1>3, <1>6, <1>7
<1> QED  BY <1>1, <1>2, <1>5, <1>6, <1>11, <1>12, <1>13, FollowerSide

\* A round of heartbeats: calls without entries.
LEMMA BroadCastLead ==
    ASSUME NodeAssumption, TypeOK', NEW l \in Server, NEW t \in Terms, Lead(l, t),
           NEW s \in Server, BroadCastHeartBeat(s)
    PROVE  LeadInv(l, t)'
<1>1. s = l /\ currentTerm[l] = t  BY LeaderIs DEF BroadCastHeartBeat, Lead
<1>2. /\ appendReq \subseteq appendReq'
      /\ UNCHANGED <<repl, nextIndex, matchIndex, lastApplied, applier, sdkAck, reply, binlog,
                     appendRes, appending, commitIndex>>
  BY DEF BroadCastHeartBeat
<1>3. \A m \in appendReq' : m \in appendReq \/ (OfLeader(l, t, m)' /\ m.entries = << >>)
  <2> SUFFICES ASSUME NEW m \in appendReq', m \notin appendReq
               PROVE  OfLeader(l, t, m)' /\ m.entries = << >>
    OBVIOUS
  <2>1. PICK f \in Replica \ {l} :
          m = [from |-> l, to |-> f, term |-> t, rpc |-> TRUE,
               prev |-> 0, prevTerm |-> 0, commit |-> commitIndex[l], entries |-> << >>]
    BY <1>1 DEF BroadCastHeartBeat
  <2>2. commitIndex[l] \in Int  BY NodeNumbers DEF Lead
  <2> QED  BY <1>2, <2>1, <2>2 DEF OfLeader
<1>4. LogsGrow(l) /\ LogsOfLeader(l)' /\ commitIndex[l] <= commitIndex'[l]
  BY <1>2, LogsSame, NodeNumbers DEF Lead, LeadInv
<1>5. CallsOfLeader(l, t)'  BY <1>2, <1>3, <1>4, CallsKept DEF Lead, LeadInv
<1>6. ASSUME NEW f \in Server \ {l}
      PROVE  SameThread(l, f)
  <2>1. CallsTo(f)' = CallsTo(f)  BY <1>2, <1>3 DEF CallsTo
  <2>2. AnswersOf(f)' = AnswersOf(f)  BY <1>2 DEF AnswersOf
  <2> QED  BY <1>2, <2>1, <2>2 DEF SameThread
<1>7. FollowersKnown(l, t)'  BY <1>2, <1>4, <1>6, FollowersKept DEF Lead, LeadInv
<1>8. CommitsOfLeader(l)' /\ CommitOnMajority(l)' /\ RequestsOfLeader(l)'
  BY <1>2, <1>4, CommitsKept, MajorityKept, RequestsKept DEF Lead, LeadInv
<1> QED  BY <1>4, <1>5, <1>7, <1>8 DEF LeadInv

-----------------------------------------------------------------------------
\* Clients' calls, and the CommitIndex threads.

\* A write goes to the end of the leader's log.
LEMMA SubmitLead ==
    ASSUME NodeAssumption, TypeOK', NEW l \in Server, NEW t \in Terms, Lead(l, t),
           NEW s \in Server, NEW r \in Request, NEW op \in ReqKinds, Submit(s, r, op)
    PROVE  LeadInv(l, t)'
<1>1. s = l  BY LeaderIs DEF Submit, Lead
<1> DEFINE e == [term |-> currentTerm[l], op |-> op, req |-> r]
           b == binlog[l]
           w == WriteEntryList(b, <<e>>)
           n == b.len
<1>2. e \in Entry /\ e.req = r  BY <1>1, NodeNumbers DEF Entry, Lead
<1> HIDE DEF e
<1>3. /\ binlog' = [binlog EXCEPT ![l] = w]
      /\ reply[r] = "idle" /\ reply' = [reply EXCEPT ![r] = "sent"]
      /\ UNCHANGED <<repl, nextIndex, matchIndex, appending, commitIndex, lastApplied, applier,
                     appendReq, appendRes>>
  BY <1>1 DEF Submit, WriteEntry, e
<1>4. <<e>> \in Seq(Entry) /\ Len(<<e>>) = 1 /\ <<e>>[1] = e  BY <1>2
<1>5. /\ b \in BinLogs(Entry, Terms) /\ b.len = Len(b.slot) /\ n \in Nat
      /\ binlog \in [Server -> BinLogs(Entry, Terms)]
  BY FollowerLog DEF Lead, TypeOK, LogTypeOK
<1>6. /\ w.len = n + 1 /\ w.len = Len(w.slot)
      /\ \A i \in 1 .. n : w.slot[i] = b.slot[i]
      /\ w.slot[n + 1] = e
  <2>1. /\ WriteEntryList(b, <<e>>).len = b.len + Len(<<e>>)
        /\ WriteEntryList(b, <<e>>).len = Len(WriteEntryList(b, <<e>>).slot)
        /\ \A i \in 1 .. b.len : WriteEntryList(b, <<e>>).slot[i] = b.slot[i]
        /\ \A i \in 1 .. Len(<<e>>) : WriteEntryList(b, <<e>>).slot[b.len + i] = <<e>>[i]
    BY <1>4, <1>5, WriteAtEnd, Zenon
  <2>2. 1 \in 1 .. Len(<<e>>)  BY <1>4
  <2> HIDE DEF w
  <2>3. w = WriteEntryList(b, <<e>>)  BY DEF w
  <2>4. w.slot[n + 1] = <<e>>[1]  BY <2>1, <2>2, <2>3
  <2> QED  BY <1>4, <2>1, <2>3, <2>4
<1>7. binlog'[l] = w /\ \A u \in Server \ {l} : binlog'[u] = binlog[u]
  BY <1>3, <1>5
<1> HIDE DEF w
<1>8. LogsGrow(l)
  <2>1. \A u \in Server : binlog[u].len \in Int  BY NodeNumbers DEF Lead
  <2>2. binlog[l].len <= w.len  BY <1>5, <1>6
  <2> QED  BY <1>6, <1>7, <2>1, <2>2 DEF LogsGrow
<1>9. LogsOfLeader(l)'
  <2> SUFFICES ASSUME NEW u \in Server
               PROVE  /\ binlog'[u].len = Len(binlog'[u].slot) /\ binlog'[u].len <= binlog'[l].len
                      /\ \A i \in 1 .. binlog'[u].len : binlog'[u].slot[i] = binlog'[l].slot[i]
    BY DEF LogsOfLeader
  <2>1. CASE u = l  BY <1>5, <1>6, <1>7, <2>1
  <2>2. CASE u # l
    <3>1. /\ binlog'[u] = binlog[u] /\ binlog[u].len = Len(binlog[u].slot)
          /\ binlog[u].len \in Nat /\ binlog[u].len <= n
          /\ \A i \in 1 .. binlog[u].len : binlog[u].slot[i] = b.slot[i]
      BY <1>7, <2>2, FollowerLog
    <3>2. binlog[u].len <= w.len /\ \A i \in 1 .. binlog[u].len : i \in 1 .. n
      BY <1>5, <1>6, <3>1
    <3> QED  BY <1>6, <1>7, <3>1, <3>2
  <2> QED  BY <2>1, <2>2
<1>10. commitIndex[l] <= commitIndex'[l] /\ commitIndex'[l] = commitIndex[l]
  BY <1>3, NodeNumbers DEF Lead
<1>11. \A u \in Server \ {l} : sdkAck'[u] = sdkAck[u]
  BY <1>1 DEF Submit, Lead, TypeOK, ApplyTypeOK
<1>12. CallsOfLeader(l, t)'
  <2>1. CallsOfLeader(l, t)  BY DEF Lead, LeadInv
  <2>2. \A u \in Server : \A h \in appending'[u] :
           \/ \E g \in appending[u] : g.req = h.req
           \/ h.req \in appendReq /\ h.req.to = u
    BY <1>3
  <2>3. /\ \A u, f \in Server : repl'[u][f].pc # "none" => repl[u][f].pc # "none"
        /\ \A m \in appendReq' : m \in appendReq \/ OfLeader(l, t, m)'
        /\ \A m \in appendRes' : m \in appendRes \/ (m.to = l /\ m.from # l)
    BY <1>3
  <2>4. \A u \in Server \ {l} : sdkAck'[u] \subseteq sdkAck[u]  BY <1>11
  <2> QED  BY <1>10, <2>1, <2>2, <2>3, <2>4, CallsKept DEF Lead
<1>13. FollowersKnown(l, t)'
  <2>1. ASSUME NEW f \in Server \ {l}
        PROVE  SameThread(l, f)
    BY <1>3, <1>7 DEF SameThread, CallsTo, AnswersOf
  <2> QED  BY <1>3, <1>8, <1>10, <2>1, FollowersKept DEF Lead, LeadInv
<1>14. CommitsOfLeader(l)' /\ CommitOnMajority(l)'
  BY <1>3, <1>8, <1>10, CommitsKept, MajorityKept DEF Lead, LeadInv
<1>15. RequestsOfLeader(l)'
  <2>1. RequestsOfLeader(l)  BY DEF Lead, LeadInv
  <2>2. n > 0 /\ b.slot[1].req = Nil  BY <2>1 DEF RequestsOfLeader
  <2>3. 1 \in 1 .. n  BY <1>5, <2>2
  <2>4. w.len > 0 /\ w.slot[1].req = Nil  BY <1>5, <1>6, <2>2, <2>3
  <2>5. r # Nil  BY DEF NodeAssumption
  <2>6. \A q \in Request : reply'[q] = IF q = r THEN "sent" ELSE reply[q]
    BY <1>3 DEF Lead, TypeOK, ApplyTypeOK
  <2>7. \A i \in 1 .. n : b.slot[i].req \in Request \cup {Nil} /\ b.slot[i].req # r
    <3>1. \A i \in 1 .. n : b.slot[i] \in Entry
      BY <1>5, LogFacts DEF Lead
    <3>2. \A x \in Entry : x.req \in Request \cup {Nil}  BY DEF Entry
    <3> QED  BY <1>3, <2>1, <2>5, <3>1, <3>2 DEF RequestsOfLeader
  <2>8. \A i \in 1 .. w.len : i \in 1 .. n \/ i = n + 1  BY <1>5, <1>6
  <2>9. \A i, j \in 1 .. w.len : w.slot[i].req = w.slot[j].req /\ i # j => w.slot[i].req = Nil
    BY <1>2, <1>6, <2>1, <2>7, <2>8 DEF RequestsOfLeader
  <2>10. \A i \in 1 .. w.len : w.slot[i].req # Nil => reply'[w.slot[i].req] # "idle"
    <3> SUFFICES ASSUME NEW i \in 1 .. w.len, w.slot[i].req # Nil
                 PROVE  reply'[w.slot[i].req] # "idle"
      OBVIOUS
    <3>1. CASE i = n + 1  BY <1>2, <1>6, <2>6, <3>1
    <3>2. CASE i \in 1 .. n
      <4>1. w.slot[i] = b.slot[i] /\ b.slot[i].req \in Request  BY <1>6, <2>7, <3>2
      <4> QED  BY <2>1, <2>6, <3>2, <4>1 DEF RequestsOfLeader
    <3> QED  BY <2>8, <3>1, <3>2
  <2>11. PICK a : a.index = n /\ a.done = r /\ sdkAck'[l] \subseteq sdkAck[l] \cup {a}
    <3>1. GetLength(binlog'[l]) - 1 = n  BY <1>5, <1>6, <1>7 DEF GetLength
    <3> DEFINE old == AcksAt(l, n)
               new == [index |-> n, done |-> r,
                       kinds |-> {ReqKind[r]} \cup UNION {k.kinds : k \in old}]
    <3>2. sdkAck' = [sdkAck EXCEPT ![l] = (@ \ old) \cup {new}]
      BY <1>1, <3>1 DEF Submit
    <3> HIDE DEF old
    <3>3. sdkAck'[l] = (sdkAck[l] \ old) \cup {new}
      BY <3>2 DEF Lead, TypeOK, ApplyTypeOK
    <3>4. new.index = n /\ new.done = r  OBVIOUS
    <3> HIDE DEF new
    <3> QED  BY <3>3, <3>4
  <2>12. \A k \in sdkAck[l] : k.index \in Nat /\ k.index < n /\ b.slot[k.index + 1].req = k.done
    <3>1. sdkAck[l] \subseteq Ack  BY DEF Lead, TypeOK, ApplyTypeOK
    <3> QED  BY <2>1, <3>1 DEF RequestsOfLeader, Ack
  <2>13. \A k \in sdkAck'[l] : k.index < w.len /\ w.slot[k.index + 1].req = k.done
    <3> SUFFICES ASSUME NEW k \in sdkAck'[l]
                 PROVE  k.index < w.len /\ w.slot[k.index + 1].req = k.done
      OBVIOUS
    <3>1. CASE k = a  BY <1>2, <1>5, <1>6, <2>11, <3>1
    <3>2. CASE k \in sdkAck[l]
      <4>1. k.index + 1 \in 1 .. n /\ k.index < n + 1  BY <1>5, <2>12, <3>2
      <4> QED  BY <1>6, <2>12, <3>2, <4>1
    <3> QED  BY <2>11, <3>1, <3>2
  <2>14. \A k, j \in sdkAck'[l] : k.index = j.index => k = j
    <3>1. \A k \in sdkAck[l] : k.index # n  BY <1>5, <2>12
    <3> QED  BY <2>1, <2>11, <3>1 DEF RequestsOfLeader
  <2>15. \A q \in Request : reply'[q] = "ok" => \E i \in 0 .. commitIndex'[l] : w.slot[i + 1].req = q
    <3> SUFFICES ASSUME NEW q \in Request, reply'[q] = "ok"
                 PROVE  \E i \in 0 .. commitIndex[l] : w.slot[i + 1].req = q
      BY <1>10
    <3>1. reply[q] = "ok"  BY <2>6
    <3>2. PICK i \in 0 .. commitIndex[l] : b.slot[i + 1].req = q
      BY <2>1, <3>1 DEF RequestsOfLeader
    <3>3. commitIndex[l] \in Int /\ commitIndex[l] < n
      BY NodeNumbers, FollowerLog DEF Lead
    <3>4. i + 1 \in 1 .. n  BY <1>5, <3>3
    <3> QED  BY <1>6, <3>2, <3>4
  <2> QED  BY <1>7, <2>4, <2>9, <2>10, <2>13, <2>14, <2>15 DEF RequestsOfLeader
<1> QED  BY <1>9, <1>12, <1>13, <1>14, <1>15 DEF LeadInv

\* CommitIndex takes up slots, and applies one: nothing of it is the leader's.
LEMMA CommitLead ==
    ASSUME NodeAssumption, TypeOK', NEW l \in Server, NEW t \in Terms, Lead(l, t),
           UNCHANGED <<binlog, nextIndex, matchIndex, repl, appending, commitIndex, appendReq,
                       appendRes>>,
           CommitsOfLeader(l)', RequestsOfLeader(l)',
           \A s \in Server \ {l} : sdkAck'[s] = sdkAck[s]
    PROVE  LeadInv(l, t)'
<1>1. LogsGrow(l) /\ LogsOfLeader(l)' /\ commitIndex[l] <= commitIndex'[l]
  BY LogsSame, NodeNumbers DEF Lead, LeadInv
<1>2. CallsOfLeader(l, t)'
  <2>1. CallsOfLeader(l, t)  BY DEF Lead, LeadInv
  <2>2. \A u \in Server : \A h \in appending'[u] :
           \/ \E g \in appending[u] : g.req = h.req
           \/ h.req \in appendReq /\ h.req.to = u
    OBVIOUS
  <2>3. /\ \A u, f \in Server : repl'[u][f].pc # "none" => repl[u][f].pc # "none"
        /\ \A m \in appendReq' : m \in appendReq \/ OfLeader(l, t, m)'
        /\ \A m \in appendRes' : m \in appendRes \/ (m.to = l /\ m.from # l)
        /\ \A u \in Server \ {l} : sdkAck'[u] \subseteq sdkAck[u]
    OBVIOUS
  <2> QED  BY <1>1, <2>1, <2>2, <2>3, CallsKept DEF Lead
<1>3. FollowersKnown(l, t)'
  <2>1. ASSUME NEW f \in Server \ {l}
        PROVE  SameThread(l, f)
    BY DEF SameThread, CallsTo, AnswersOf
  <2> QED  BY <1>1, <2>1, FollowersKept DEF Lead, LeadInv
<1>4. CommitOnMajority(l)'  BY <1>1, MajorityKept DEF Lead, LeadInv
<1> QED  BY <1>1, <1>2, <1>3, <1>4 DEF LeadInv

LEMMA CommitBeginLead ==
    ASSUME NodeAssumption, TypeOK', NEW l \in Server, NEW t \in Terms, Lead(l, t),
           NEW s \in Server, CommitBegin(s) \/ CommitStore(s)
    PROVE  LeadInv(l, t)'
<1>1. UNCHANGED <<binlog, nextIndex, matchIndex, repl, appending, commitIndex, appendReq,
                  appendRes, lastApplied, sdkAck, reply>>
  BY DEF CommitBegin, CommitStore
<1>2. RequestsOfLeader(l)'
  BY <1>1, NodeNumbers, RequestsKept DEF Lead, LeadInv
<1>3. CommitsOfLeader(l)'
  <2>1. \A u \in Server :
           \/ applier'[u] = applier[u]
           \/ applier'[u].end = commitIndex[u]
           \/ applier[u].pc # "wait" /\ applier'[u].end = applier[u].end
    BY DEF CommitBegin, CommitStore, Lead, TypeOK, ApplyTypeOK
  <2> QED  BY <1>1, <2>1 DEF CommitsOfLeader, Lead, LeadInv
<1> QED  BY <1>1, <1>2, <1>3, CommitLead

\* The slot counts as applied, and the call noted under it is answered: it is
\* the leader's, and its slot is committed.
LEMMA CommitAckLead ==
    ASSUME NodeAssumption, TypeOK', NEW l \in Server, NEW t \in Terms, Lead(l, t),
           NEW s \in Server, CommitAck(s)
    PROVE  LeadInv(l, t)'
<1> PICK i : i = lastApplied[s] + 1  OBVIOUS
<1>1. /\ UNCHANGED <<binlog, nextIndex, matchIndex, repl, appending, commitIndex, appendReq,
                     appendRes>>
      /\ applier[s].pc = "ack"
      /\ lastApplied' = [lastApplied EXCEPT ![s] = i]
      /\ applier' = [applier EXCEPT ![s] = IF i < @.end THEN [@ EXCEPT !.pc = "apply"]
                                           ELSE [pc |-> "wait", end |-> -1]]
  BY DEF CommitAck
<1>2. /\ lastApplied[s] \in Int /\ lastApplied[s] >= -1 /\ applier[s].end \in Int
      /\ lastApplied[s] < applier[s].end
      /\ applier[s].end <= commitIndex[l] /\ applier[s].end < binlog[s].len
      /\ binlog[s].len \in Int /\ commitIndex[l] \in Int
  BY <1>1, NodeNumbers DEF Lead, NoBadSlot, ApplyStored, LeadInv, CommitsOfLeader
<1>3. i \in 0 .. commitIndex[l] /\ i < binlog[s].len /\ i <= commitIndex[l]
  BY <1>2
<1>4. CommitsOfLeader(l)'
  <2>1. \A u \in Server :
           \/ lastApplied'[u] = lastApplied[u] /\ applier'[u] = applier[u]
           \/ /\ u = s /\ lastApplied'[u] = i
              /\ applier'[u].pc = "wait" \/ applier'[u].end = applier[u].end
    BY <1>1 DEF Lead, TypeOK, ApplyTypeOK
  <2> QED  BY <1>1, <1>2, <1>3, <2>1 DEF CommitsOfLeader, Lead, LeadInv
<1>5. CASE UNCHANGED clientVars
  <2>1. RequestsOfLeader(l)'
    BY <1>1, <1>2, <1>5, RequestsKept DEF Lead, LeadInv
  <2> QED  BY <1>1, <1>4, <1>5, <2>1, CommitLead
<1>6. ASSUME AcksAt(s, i) # {},
             reply' = [r \in Request |-> IF \E a \in AcksAt(s, i) : a.done = r THEN "ok"
                                         ELSE reply[r]],
             sdkAck' = [sdkAck EXCEPT ![s] = @ \ AcksAt(s, i)]
      PROVE  LeadInv(l, t)'
  <2>1. s = l  BY <1>6 DEF AcksAt, Lead, LeadInv, CallsOfLeader
  <2>2. sdkAck'[l] \subseteq sdkAck[l] /\ \A u \in Server \ {l} : sdkAck'[u] = sdkAck[u]
    BY <1>6, <2>1 DEF Lead, TypeOK, ApplyTypeOK
  <2>3. RequestsOfLeader(l)  BY DEF Lead, LeadInv
  <2>4. \A a \in AcksAt(l, i) : a \in sdkAck[l] /\ a.index = i  BY DEF AcksAt
  <2>5. \A r \in Request : reply'[r] = "ok" =>
           \E k \in 0 .. commitIndex[l] : binlog[l].slot[k + 1].req = r
    <3> SUFFICES ASSUME NEW r \in Request, reply'[r] = "ok"
                 PROVE  \E k \in 0 .. commitIndex[l] : binlog[l].slot[k + 1].req = r
      OBVIOUS
    <3>1. CASE \E a \in AcksAt(s, i) : a.done = r
      <4>1. binlog[l].slot[i + 1].req = r
        BY <2>1, <2>3, <2>4, <3>1 DEF RequestsOfLeader
      <4> QED  BY <1>3, <4>1
    <3>2. CASE ~\E a \in AcksAt(s, i) : a.done = r
      <4>1. reply[r] = "ok"  BY <1>6, <3>2
      <4> QED  BY <2>3, <4>1 DEF RequestsOfLeader
    <3> QED  BY <3>1, <3>2
  <2>6. \A r \in Request : reply[r] # "idle" => reply'[r] # "idle"
    BY <1>6
  <2>7. \A k \in 1 .. binlog[l].len : binlog[l].slot[k].req \in Request \cup {Nil}
    <3>1. \A k \in 1 .. binlog[l].len : binlog[l].slot[k] \in Entry
      BY LogFacts, FollowerLog DEF Lead
    <3>2. \A x \in Entry : x.req \in Request \cup {Nil}  BY DEF Entry
    <3> QED  BY <3>1, <3>2
  <2>8. RequestsOfLeader(l)'
    <3>1. \A k \in 1 .. binlog[l].len :
             binlog[l].slot[k].req # Nil => reply'[binlog[l].slot[k].req] # "idle"
      BY <2>3, <2>6, <2>7 DEF RequestsOfLeader
    <3> QED  BY <1>1, <2>2, <2>3, <2>5, <3>1 DEF RequestsOfLeader
  <2> QED  BY <1>1, <1>4, <2>2, <2>8, CommitLead
<1> QED  BY <1>5, <1>6 DEF CommitAck

-----------------------------------------------------------------------------
\* Elections.

\* A vote is counted: nobody else wins, or the cluster is no longer steady.
LEMMA NoSecondWin ==
    ASSUME NodeAssumption, TypeOK, CandidateInv, NEW l \in Server, NEW t \in Terms, Wins(l, t)',
           Wins(l, t), Steady', NEW m \in voteRes, VoteCounted(m)
    PROVE  UNCHANGED <<status, binlog, leaderVars>>
<1> PICK s : s = m.to  OBVIOUS
<1> PICK w : w = currentTerm[s]  OBVIOUS
<1>1. s \in Server /\ m.from \in Server /\ m.from # s /\ w \in Terms
  BY DEF TypeOK, ElectionTypeOK, VoteResponse, CandidateInv
<1>2. status[s] = "Candidate" /\ votePass' = [votePass EXCEPT ![s][w] = votePass[s][w] + 1]
  BY DEF VoteCounted
<1>3. ~Wins(s, w)  BY <1>1, <1>2 DEF CandidateInv
<1>4. CASE EnoughVotes(votePass[s][w] + 1)
  <2>1. votePass'[s][w] = votePass[s][w] + 1
    BY <1>1, <1>2 DEF TypeOK, ElectionTypeOK
  <2>2. Wins(s, w)'  BY <1>4, <2>1 DEF Wins, EnoughVotes
  <2>3. s = l /\ w = t  BY <1>1, <2>2 DEF Steady
  <2> QED  BY <1>3, <2>3
<1>5. CASE ~EnoughVotes(votePass[s][w] + 1)
  BY <1>5 DEF VoteCounted
<1> QED  BY <1>4, <1>5

\* An election step of a steady cluster with a leader leaves the logs alone.
LEMMA ElectionKeepsLogs ==
    ASSUME NodeAssumption, NEW l \in Server, NEW t \in Terms, Lead(l, t),
           Wins(l, t)', Steady', ElectionNext
    PROVE  UNCHANGED logVars
<1>1. ASSUME NEW s \in Server, VoteTimerHeard(s) \/ VoteLeader(s)
      PROVE  UNCHANGED logVars
  BY <1>1 DEF VoteTimerHeard, VoteLeader, logVars
<1>2. ASSUME NEW m \in voteReq, Vote(m)
      PROVE  UNCHANGED logVars
  BY <1>2 DEF Vote, logVars
<1>3. ASSUME NEW m \in voteRes, VoteCallBack(m)
      PROVE  UNCHANGED logVars
  <2>1. UNCHANGED <<appending, commitIndex, lastApplied, applier, sdkAck, reply, appendReq,
                    appendRes>>
    BY <1>3 DEF VoteCallBack
  <2>2. UNCHANGED <<binlog, leaderVars>>
    <3>1. CASE VoteCounted(m)  BY <3>1, NoSecondWin DEF Lead
    <3>2. CASE VoteNewerTerm(m) \/ VoteIgnored(m)  BY <3>2 DEF VoteNewerTerm, VoteIgnored
    <3> QED  BY <1>3, <3>1, <3>2 DEF VoteCallBack
  <2> QED  BY <2>1, <2>2 DEF logVars
<1> QED  BY <1>1, <1>2, <1>3 DEF ElectionNext

\* A step of a steady cluster with a leader.
LEMMA StepLead ==
    ASSUME NodeAssumption, TypeOK', NEW l \in Server, NEW t \in Terms, Lead(l, t),
           Wins(l, t)', Steady', [Next]_vars
    PROVE  LeadInv(l, t)'
<1>1. CASE ElectionNext
  <2>1. UNCHANGED logVars  BY <1>1, ElectionKeepsLogs
  <2> QED  BY <2>1, LeadKept DEF Lead
<1>2. CASE LeaderNext
  <2>1. \A s, f \in Server : ~ReplicateFail(s, f)
    <3>1. fails = 0 /\ fails' = 0  BY DEF Lead, Steady
    <3> QED  BY <3>1 DEF ReplicateFail
  <2> QED  BY <1>2, <2>1, ReplicateStopLead, ReplicateBuildLead, ReplicateSendLead,
     ReplicateAnswerLead DEF LeaderNext
<1>3. CASE HeartBeatNext
  <2>1. ASSUME NEW m \in beatRes, HeartBeatCallBack(m)
        PROVE  UNCHANGED logVars
    BY <2>1 DEF HeartBeatCallBack, logVars
  <2> QED  BY <1>3, <2>1, BroadCastLead, BeatLead, EntriesLead, LeadKept DEF HeartBeatNext, Lead
<1>4. CASE FollowerNext
  BY <1>4, AppendWriteLead, AppendFinishLead DEF FollowerNext
<1>5. CASE ApplyNext
  <2>1. \A s \in Server, r \in Request :
           Put(s, r) \/ Delete(s, r) \/ Lock(s, r) \/ UnLock(s, r) => LeadInv(l, t)'
    BY SubmitLead DEF Put, Delete, Lock, UnLock, ReqKinds
  <2> QED  BY <1>5, <2>1, CommitBeginLead, CommitAckLead DEF ApplyNext
<1>6. CASE UNCHANGED vars
  <2>1. UNCHANGED logVars  BY <1>6 DEF vars, logVars
  <2> QED  BY <2>1, LeadKept DEF Lead
<1> QED  BY <1>1, <1>2, <1>3, <1>4, <1>5, <1>6 DEF Next

-----------------------------------------------------------------------------
\* Before the first election is won.

LEMMA NothingKept ==
    ASSUME NothingYet, UNCHANGED logVars, \A s \in Server : status'[s] # "Leader"
    PROVE  NothingYet'
BY DEF NothingYet, logVars

\* The first election is won: the new leader writes its Nop, and starts a thread
\* for every other member.
LEMMA FirstWin ==
    ASSUME NodeAssumption, TypeOK, NothingYet, NEW m \in voteRes, VoteCallBack(m),
           VoteCounted(m), EnoughVotes(votePass[m.to][currentTerm[m.to]] + 1)
    PROVE  \E l \in Server, t \in Terms : Wins(l, t)' /\ LeadInv(l, t)'
<1> PICK l : l = m.to  OBVIOUS
<1> PICK t : t = currentTerm[l]  OBVIOUS
<1>1. l \in Server /\ t \in Terms
  BY DEF TypeOK, ElectionTypeOK, VoteResponse
<1>2. Wins(l, t)'
  <2>1. votePass' = [votePass EXCEPT ![l][t] = votePass[l][t] + 1]  BY DEF VoteCounted
  <2>2. votePass'[l][t] = votePass[l][t] + 1  BY <1>1, <2>1 DEF TypeOK, ElectionTypeOK
  <2> QED  BY <2>2 DEF Wins, EnoughVotes
<1> DEFINE e == NopEntry(t)
           w == WriteEntryList(binlog[l], <<e>>)
<1>3. /\ StartReplicaLog(l)
      /\ UNCHANGED <<appending, commitIndex, lastApplied, applier, sdkAck, reply, appendReq,
                     appendRes>>
  BY DEF VoteCounted, VoteCallBack
<1>4. e \in Entry /\ e.req = Nil  BY <1>1 DEF NopEntry, Entry
<1> HIDE DEF e
<1>5. w.slot = <<e>> /\ w.len = 1
  <2>1. binlog[l].len = 0 /\ binlog[l].slot = << >>  BY <1>1 DEF NothingYet
  <2>2. binlog[l].slot \in Seq(Entry)  BY <1>1, LogFacts
  <2>3. <<e>> \in Seq(Entry) /\ Len(<<e>>) = 1 /\ Len(binlog[l].slot) = 0  BY <1>4, <2>1
  <2>4. SubSeq(binlog[l].slot, 1, 0) = << >>
    <3>1. 1 \in Int /\ 0 \in Int /\ 0 < 1  OBVIOUS
    <3> QED  BY <3>1, SubSeqEmpty
  <2>5. SubSeq(binlog[l].slot, 2, 0) = << >>
    <3>1. 2 \in Int /\ 0 \in Int /\ 0 < 2  OBVIOUS
    <3> QED  BY <3>1, SubSeqEmpty
  <2>6. w.slot = << >> \o <<e>> \o << >>
    <3>1. binlog[l].len + Len(<<e>>) + 1 = 2  BY <2>1, <2>3
    <3>2. w.slot = SubSeq(binlog[l].slot, 1, binlog[l].len) \o <<e>>
                    \o SubSeq(binlog[l].slot, binlog[l].len + Len(<<e>>) + 1,
                              Len(binlog[l].slot))
      BY DEF WriteEntryList
    <3> QED  BY <2>1, <2>3, <2>4, <2>5, <3>1, <3>2, Zenon
  <2>7. << >> \o <<e>> \o << >> = <<e>>  BY <2>3, ConcatEmptySeq
  <2>8. w.len = 1  BY <2>1, <2>3 DEF WriteEntryList
  <2> QED  BY <2>6, <2>7, <2>8
<1> HIDE DEF w
<1>6. binlog'[l] = w /\ \A s \in Server \ {l} : binlog'[s] = binlog[s]
  BY <1>1, <1>3 DEF StartReplicaLog, WriteEntry, TypeOK, LogTypeOK, w, e
<1>7. Len(w.slot) = 1 /\ w.slot[1] = e  BY <1>5
<1>8. /\ \A s, f \in Server : repl'[s][f].pc # "none" => s = l /\ f # l
      /\ \A f \in Server \ {l} : repl'[l][f].pc = "loop"
  <2>1. Replicating(l) = {}  BY <1>1 DEF Replicating, NothingYet
  <2>2. repl' = [repl EXCEPT ![l] =
                   [f \in Server |-> IF f \in Server \ {l} THEN LoopHead(TRUE) ELSE @[f]]]
    BY <1>3, <2>1 DEF StartReplicaLog
  <2>3. \A s, f \in Server : repl'[s][f] = IF s = l /\ f # l THEN LoopHead(TRUE) ELSE repl[s][f]
    BY <1>1, <2>2 DEF TypeOK, ReplicationTypeOK
  <2>4. LoopHead(TRUE).pc = "loop"  BY DEF LoopHead
  <2>5. \A s, f \in Server : repl[s][f].pc = "none"  BY DEF NothingYet
  <2>6. ASSUME NEW s \in Server, NEW f \in Server, ~(s = l /\ f # l)
        PROVE  repl'[s][f].pc = "none"
    <3>1. repl'[s][f] = repl[s][f]  BY <2>3, <2>6, Zenon
    <3> QED  BY <3>1, <2>5
  <2>7. ASSUME NEW f \in Server \ {l}  PROVE repl'[l][f].pc = "loop"
    BY <1>1, <2>3, <2>4, <2>7
  <2> QED  BY <2>6, <2>7
<1>9. \A f \in Server \ {l} : nextIndex'[l][f] = 0 /\ matchIndex'[l][f] = -1
  <2>1. Replicating(l) = {}  BY <1>1 DEF Replicating, NothingYet
  <2>2. GetLength(binlog[l]) = 0  BY <1>1 DEF NothingYet, GetLength
  <2> QED  BY <1>1, <1>3, <2>1, <2>2 DEF StartReplicaLog, TypeOK, ReplicationTypeOK
<1>10. matchIndex'[l][l] = 0
  <2>1. matchIndex'[l][l] = matchIndex[l][l]
    BY <1>1, <1>3 DEF StartReplicaLog, TypeOK, ReplicationTypeOK
  <2> QED  BY <1>1, <2>1 DEF NothingYet
<1>11. CallsOfLeader(l, t)'
  BY <1>3, <1>8 DEF CallsOfLeader, NothingYet
<1>12. LogsOfLeader(l)'
  <2> SUFFICES ASSUME NEW s \in Server
               PROVE  /\ binlog'[s].len = Len(binlog'[s].slot) /\ binlog'[s].len <= binlog'[l].len
                      /\ \A i \in 1 .. binlog'[s].len : binlog'[s].slot[i] = binlog'[l].slot[i]
    BY DEF LogsOfLeader
  <2>1. CASE s = l
    <3>1. w.len = 1 /\ Len(w.slot) = 1  BY <1>5, <1>7
    <3>2. binlog'[s] = w /\ binlog'[l] = w  BY <1>6, <2>1
    <3>3. 1 <= 1  OBVIOUS
    <3> QED  BY <3>1, <3>2, <3>3, Zenon
  <2>2. CASE s # l
    <3>1. binlog'[s].len = 0 /\ Len(binlog'[s].slot) = 0
      BY <1>6, <2>2 DEF NothingYet
    <3> QED  BY <1>5, <1>6, <3>1
  <2> QED  BY <2>1, <2>2
<1>13. FollowersKnown(l, t)'
  <2> SUFFICES ASSUME NEW f \in Server \ {l}
               PROVE  ThreadKnows(l, t, f)' /\ matchIndex'[l][f] < binlog'[f].len
    BY <1>10 DEF FollowersKnown
  <2>1. binlog'[f].len = 0  BY <1>6 DEF NothingYet
  <2>2. NothingUnderWay(f)'
    BY <1>3 DEF NothingYet, NothingUnderWay, CallsTo, AnswersOf
  <2>3. repl'[l][f].pc = "loop" /\ nextIndex'[l][f] = 0 /\ matchIndex'[l][f] = -1
    BY <1>8, <1>9
  <2> QED  BY <2>1, <2>2, <2>3 DEF ThreadKnows
<1>14. CommitsOfLeader(l)' /\ CommitOnMajority(l)'
  <2>1. \A s \in Server : binlog'[s].len = 0 \/ binlog'[s].len = 1
    BY <1>5, <1>6 DEF NothingYet
  <2>2. \A s \in Server : commitIndex'[s] = -1 /\ lastApplied'[s] = -1 /\ applier'[s].pc = "wait"
    BY <1>3 DEF NothingYet
  <2> QED  BY <1>1, <2>1, <2>2 DEF CommitsOfLeader, CommitOnMajority
<1>15. RequestsOfLeader(l)'
  <2>1. sdkAck'[l] = {} /\ \A r \in Request : reply'[r] = "idle"
    BY <1>1, <1>3 DEF NothingYet
  <2>2. \A i \in 1 .. w.len : i = 1  BY <1>5
  <2> QED  BY <1>4, <1>5, <1>6, <1>7, <2>1, <2>2 DEF RequestsOfLeader
<1> QED  BY <1>1, <1>2, <1>11, <1>12, <1>13, <1>14, <1>15 DEF LeadInv

\* Nobody leads, so that nothing but an election can go on.
LEMMA StepNothing ==
    ASSUME NodeAssumption, TypeOK, NothingYet, [Next]_vars
    PROVE  \/ NothingYet'
           \/ \E l \in Server, t \in Terms : Wins(l, t)' /\ LeadInv(l, t)'
<1>1. CASE ElectionNext
  <2>1. ASSUME NEW s \in Server, VoteTimerHeard(s)
        PROVE  NothingYet'
    <3>1. UNCHANGED logVars /\ UNCHANGED status  BY <2>1 DEF VoteTimerHeard, logVars
    <3> QED  BY <3>1, NothingKept DEF NothingYet
  <2>2. ASSUME NEW s \in Server, VoteLeader(s)
        PROVE  NothingYet'
    <3>1. UNCHANGED logVars  BY <2>2 DEF VoteLeader, logVars
    <3>2. \A u \in Server : status'[u] # "Leader"
      BY <2>2 DEF VoteLeader, NothingYet, TypeOK, ElectionTypeOK
    <3> QED  BY <3>1, <3>2, NothingKept
  <2>3. ASSUME NEW m \in voteReq, Vote(m)
        PROVE  NothingYet'
    <3>1. UNCHANGED logVars  BY <2>3 DEF Vote, logVars
    <3>2. \A u \in Server : status'[u] # "Leader"
      <4>1. status' = status \/ status' = [status EXCEPT ![m.to] = "Follower"]
        <5>1. CASE VoteByLeader(m) \/ VoteRefused(m)
          BY <5>1 DEF VoteByLeader, VoteRefused, electionVars
        <5>2. CASE VoteDecided(m)  BY <5>2, Zenon DEF VoteDecided
        <5> QED  BY <2>3, <5>1, <5>2 DEF Vote
      <4> QED  BY <4>1 DEF NothingYet, TypeOK, ElectionTypeOK
    <3> QED  BY <3>1, <3>2, NothingKept
  <2>4. ASSUME NEW m \in voteRes, VoteCallBack(m)
        PROVE  \/ NothingYet'
               \/ \E l \in Server, t \in Terms : Wins(l, t)' /\ LeadInv(l, t)'
    <3>1. CASE VoteCounted(m) /\ EnoughVotes(votePass[m.to][currentTerm[m.to]] + 1)
      BY <2>4, <3>1, FirstWin
    <3>2. CASE ~(VoteCounted(m) /\ EnoughVotes(votePass[m.to][currentTerm[m.to]] + 1))
      <4>1. UNCHANGED <<binlog, leaderVars>>
        BY <2>4, <3>2 DEF VoteCallBack, VoteCounted, VoteNewerTerm, VoteIgnored
      <4>2. UNCHANGED logVars  BY <2>4, <4>1 DEF VoteCallBack, logVars
      <4>3. status' = status \/ status' = [status EXCEPT ![m.to] = "Follower"]
        BY <2>4, <3>2 DEF VoteCallBack, VoteCounted, VoteNewerTerm, VoteIgnored
      <4>4. \A u \in Server : status'[u] # "Leader"
        BY <4>3 DEF NothingYet, TypeOK, ElectionTypeOK
      <4> QED  BY <4>2, <4>4, NothingKept
    <3> QED  BY <3>1, <3>2
  <2> QED  BY <1>1, <2>1, <2>2, <2>3, <2>4 DEF ElectionNext
<1>2. ~LeaderNext
  BY DEF LeaderNext, ReplicateStop, ReplicateBuild, ReplicateSend, ReplicateAnswer, ReplicateFail,
     NothingYet
<1>3. CASE HeartBeatNext
  <2>1. ASSUME NEW m \in beatRes, HeartBeatCallBack(m)
        PROVE  NothingYet'
    <3>1. UNCHANGED logVars  BY <2>1 DEF HeartBeatCallBack, logVars
    <3>2. \A u \in Server : status'[u] # "Leader"
      BY <2>1 DEF HeartBeatCallBack, NothingYet, TypeOK, ElectionTypeOK
    <3> QED  BY <3>1, <3>2, NothingKept
  <2>2. \A s \in Server : ~BroadCastHeartBeat(s)  BY DEF BroadCastHeartBeat, NothingYet
  <2> QED  BY <1>3, <2>1, <2>2 DEF HeartBeatNext, NothingYet
<1>4. ~FollowerNext  BY DEF FollowerNext, NothingYet
<1>5. ~ApplyNext
  <2>1. \A s \in Server, r \in Request :
           ~(Put(s, r) \/ Delete(s, r) \/ Lock(s, r) \/ UnLock(s, r))
    BY DEF Put, Delete, Lock, UnLock, Submit, NothingYet
  <2>2. \A s \in Server : ~(CommitBegin(s) \/ CommitStore(s) \/ CommitAck(s))
    BY DEF CommitBegin, CommitStore, CommitAck, NothingYet
  <2> QED  BY <2>1, <2>2 DEF ApplyNext
<1>6. CASE UNCHANGED vars
  <2>1. UNCHANGED logVars /\ UNCHANGED status  BY <1>6 DEF vars, logVars
  <2> QED  BY <2>1, NothingKept DEF NothingYet
<1> QED  BY <1>1, <1>2, <1>3, <1>4, <1>5, <1>6 DEF Next

-----------------------------------------------------------------------------
\* The invariant.

LEMMA InitSteady == ASSUME Init PROVE SteadyInv
<1>1. CandidateInv
  <2>1. 0 \in Terms  BY NodeAssumption DEF NodeAssumption, Terms
  <2> QED  BY <2>1 DEF Init, CandidateInv
<1>2. NothingYet  BY DEF Init, NothingYet, NewBinLog, NoThread
<1> QED  BY <1>1, <1>2 DEF SteadyInv

LEMMA StepSteady ==
    ASSUME NodeAssumption, TypeOK, NoBadSlot, ElectionInv, TypeOK', SteadyInv, [Next]_vars
    PROVE  SteadyInv'
<1>1. CandidateInv'  BY StepCandidate DEF SteadyInv
<1>2. ASSUME Steady'
      PROVE  \/ NothingYet'
             \/ \E l \in Server, t \in Terms : Wins(l, t)' /\ LeadInv(l, t)'
  <2>1. Steady /\ \A s \in Server : \A t \in Terms : Wins(s, t) => Wins(s, t)'
    BY <1>2, SteadyBefore
  <2>2. CASE NothingYet  BY <2>2, StepNothing
  <2>3. ASSUME NEW l \in Server, NEW t \in Terms, Wins(l, t), LeadInv(l, t)
        PROVE  Wins(l, t)' /\ LeadInv(l, t)'
    <3>1. Lead(l, t)  BY <2>1, <2>3 DEF Lead, SteadyInv
    <3> QED  BY <1>2, <2>1, <2>3, <3>1, StepLead
  <2> QED  BY <2>1, <2>2, <2>3 DEF SteadyInv
<1> QED  BY <1>1, <1>2 DEF SteadyInv

\* The inductive invariant: as long as one election at most was won and no call
\* was given up, the logs, threads, calls and answers stand as SteadyInv has it,
\* in whatever order votes, calls, answers and commits come.
THEOREM SteadyInvariant == Spec => [](TypeOK /\ NoBadSlot /\ ElectionInv /\ SteadyInv)
<1> DEFINE Inv == TypeOK /\ NoBadSlot /\ ElectionInv /\ SteadyInv
<1>1. Init => SteadyInv  BY InitSteady
<1>2. TypeOK /\ NoBadSlot /\ ElectionInv /\ TypeOK' /\ SteadyInv /\ [Next]_vars => SteadyInv'
  BY StepSteady, NodeAssumption
<1> QED  BY <1>1, <1>2, ElectionInvariant, PTL DEF Spec

-----------------------------------------------------------------------------
\* What follows from the invariant.

LEMMA NothingWritten ==
    ASSUME NothingYet
    PROVE  /\ \A s \in Server : Entries(binlog[s]) = << >>
           /\ \A s \in Server : SubSeq(binlog[s].slot, 1, commitIndex[s] + 1) = << >>
<1>1. SubSeq(<< >>, 1, 0) = << >>
  <2>1. 1 \in Int /\ 0 \in Int /\ 0 < 1  OBVIOUS
  <2> QED  BY <2>1, SubSeqEmpty
<1>2. ASSUME NEW s \in Server
      PROVE  /\ binlog[s].len = 0 /\ binlog[s].slot = << >> /\ commitIndex[s] + 1 = 0
  BY DEF NothingYet
<1> QED  BY <1>1, <1>2 DEF Entries

LEMMA SteadyFollows ==
    ASSUME TypeOK, ElectionInv, SteadyInv, Steady
    PROVE  FollowsLeader
<1> SUFFICES ASSUME NEW l \in Server, NEW s \in Server, status[l] = "Leader"
             PROVE  Extends(Entries(binlog[l]), Entries(binlog[s]))
  BY DEF FollowsLeader
<1>1. PICK u \in Server, t \in Terms : Wins(u, t) /\ LeadInv(u, t)
  BY DEF SteadyInv, NothingYet
<1>2. l = u  BY <1>1, LeaderIs
<1>3. /\ binlog[s].len <= binlog[l].len
      /\ \A i \in 1 .. binlog[s].len : binlog[l].slot[i] = binlog[s].slot[i]
  BY <1>1, <1>2 DEF LeadInv, LogsOfLeader
<1>4. binlog[s] \in BinLogs(Entry, Terms) /\ binlog[l] \in BinLogs(Entry, Terms)  BY LogFacts
<1> QED  BY <1>3, <1>4, SameEntries

\* While at most one election has been won and no call was given up, every log
\* is a prefix of the leader's: replication alone never makes logs differ.
THEOREM SteadyFollowsLeader == Spec => [](Steady => FollowsLeader)
<1>1. TypeOK /\ NoBadSlot /\ ElectionInv /\ SteadyInv => (Steady => FollowsLeader)
  BY SteadyFollows
<1> QED  BY <1>1, SteadyInvariant, PTL

LEMMA SteadyAgree ==
    ASSUME TypeOK, SteadyInv, Steady
    PROVE  CommittedAgree
<1> SUFFICES ASSUME NEW s \in Server, NEW u \in Server,
                    NEW i \in 0 .. Lesser(commitIndex[s], commitIndex[u])
             PROVE  binlog[s].slot[i + 1] = binlog[u].slot[i + 1]
  BY DEF CommittedAgree, ReadSlot
<1>1. commitIndex[s] \in Int /\ commitIndex[u] \in Int /\ i <= commitIndex[s] /\ i <= commitIndex[u]
      /\ i \in Nat
  BY NodeNumbers DEF Lesser
<1>2. PICK l \in Server, t \in Terms : Wins(l, t) /\ LeadInv(l, t)
  BY <1>1 DEF SteadyInv, NothingYet
<1>3. \A v \in Server : commitIndex[v] < binlog[v].len /\ binlog[v].len \in Nat
  BY <1>2, NodeNumbers DEF LeadInv, CommitsOfLeader
<1>4. i + 1 \in 1 .. binlog[s].len /\ i + 1 \in 1 .. binlog[u].len  BY <1>1, <1>3
<1> QED  BY <1>2, <1>4 DEF LeadInv, LogsOfLeader

\* While the cluster is steady, two nodes hold the same entry in every slot that
\* both hold as committed.
THEOREM SteadyCommittedAgree == Spec => [](Steady => CommittedAgree)
<1>1. TypeOK /\ NoBadSlot /\ ElectionInv /\ SteadyInv => (Steady => CommittedAgree)
  BY SteadyAgree
<1> QED  BY <1>1, SteadyInvariant, PTL

\* The members that hold what the leader has committed.
LEMMA HoldersOf ==
    ASSUME NodeAssumption, TypeOK, NEW l \in Server, CommitOnMajority(l), LogsOfLeader(l),
           commitIndex[l] > 0 \/ (commitIndex[l] = 0 /\ Cardinality(Server) <= 3),
           NEW S \in SUBSET Server,
           \A u \in Server : commitIndex[l] < binlog[u].len => u \in S
    PROVE  2 * Cardinality(S) > Cardinality(Server)
<1>1. IsFiniteSet(Server) /\ IsFiniteSet(S)  BY FS_Subset DEF NodeAssumption
<1>2. Holders(commitIndex[l]) \subseteq S  BY DEF Holders
<1>3. /\ Cardinality(Holders(commitIndex[l])) <= Cardinality(S)
      /\ Cardinality(Holders(commitIndex[l])) \in Nat /\ Cardinality(S) \in Nat
      /\ Cardinality(Server) \in Nat
  BY <1>1, <1>2, FS_Subset, FS_CardinalityType
<1>4. 2 * Cardinality(Holders(commitIndex[l])) > Cardinality(Server)  BY DEF CommitOnMajority
<1> QED  BY <1>3, <1>4

LEMMA SteadyMajority ==
    ASSUME NodeAssumption, TypeOK, SteadyInv, Steady, Cardinality(Server) <= 3
    PROVE  CommittedOnMajority
<1> SUFFICES ASSUME NEW s \in Server, NEW i \in 0 .. commitIndex[s]
             PROVE  2 * Cardinality({u \in Server : HasEntry(u, i, ReadSlot(binlog[s], i))})
                        > Cardinality(Server)
  BY DEF CommittedOnMajority
<1> DEFINE S == {u \in Server : HasEntry(u, i, ReadSlot(binlog[s], i))}
<1>1. commitIndex[s] \in Int /\ i <= commitIndex[s] /\ i \in Nat  BY NodeNumbers
<1>2. PICK l \in Server, t \in Terms : Wins(l, t) /\ LeadInv(l, t)
  BY <1>1 DEF SteadyInv, NothingYet
<1>3. /\ commitIndex[s] <= commitIndex[l] /\ commitIndex[s] < binlog[s].len
      /\ commitIndex[l] \in Int /\ \A u \in Server : binlog[u].len \in Nat
  BY <1>2, NodeNumbers DEF LeadInv, CommitsOfLeader
<1>4. commitIndex[l] > 0 \/ commitIndex[l] = 0  BY <1>1, <1>3
<1>5. ASSUME NEW u \in Server, commitIndex[l] < binlog[u].len
      PROVE  u \in S
  <2>1. i < binlog[u].len /\ i + 1 \in 1 .. binlog[u].len /\ i + 1 \in 1 .. binlog[s].len
    BY <1>1, <1>3, <1>5
  <2>2. binlog[u].slot[i + 1] = binlog[s].slot[i + 1]
    BY <1>2, <2>1 DEF LeadInv, LogsOfLeader
  <2> QED  BY <2>1, <2>2 DEF HasEntry, ReadSlot, GetLength
<1> HIDE DEF S
<1>6. S \in SUBSET Server  BY DEF S
<1>7. CommitOnMajority(l) /\ LogsOfLeader(l)  BY <1>2 DEF LeadInv
<1>8. 2 * Cardinality(S) > Cardinality(Server)  BY <1>4, <1>5, <1>6, <1>7, HoldersOf
<1> QED  BY <1>8 DEF S

\* While the cluster is steady and has at most three members, what any node
\* holds as committed is in the logs of a majority.  With more members the
\* statement is false of slot 0, which the leader's own zero in match_index_
\* counts for.
THEOREM SteadyCommittedOnMajority ==
    Cardinality(Server) <= 3 => (Spec => [](Steady => CommittedOnMajority))
<1> SUFFICES ASSUME Cardinality(Server) <= 3
             PROVE  Spec => [](Steady => CommittedOnMajority)
  OBVIOUS
<1>1. TypeOK /\ NoBadSlot /\ ElectionInv /\ SteadyInv => (Steady => CommittedOnMajority)
  BY SteadyMajority, NodeAssumption
<1> QED  BY <1>1, SteadyInvariant, PTL

LEMMA SteadyAnswered ==
    ASSUME NodeAssumption, TypeOK, SteadyInv, Steady
    PROVE  AnsweredKept
<1> SUFFICES ASSUME NEW r \in Request, reply[r] = "ok"
             PROVE  2 * Cardinality({u \in Server : InLog(u, r)}) > Cardinality(Server)
  BY DEF AnsweredKept
<1> DEFINE S == {u \in Server : InLog(u, r)}
<1>1. PICK l \in Server, t \in Terms : Wins(l, t) /\ LeadInv(l, t)
  BY DEF SteadyInv, NothingYet
<1>2. PICK i \in 0 .. commitIndex[l] : binlog[l].slot[i + 1].req = r
  BY <1>1 DEF LeadInv, RequestsOfLeader
<1>3. commitIndex[l] \in Int /\ i \in Nat /\ i <= commitIndex[l]
      /\ \A u \in Server : binlog[u].len \in Nat
  BY NodeNumbers
<1>4. commitIndex[l] > 0
  <2>1. r # Nil  BY DEF NodeAssumption
  <2>2. binlog[l].slot[1].req = Nil  BY <1>1 DEF LeadInv, RequestsOfLeader
  <2>3. i # 0  BY <1>2, <2>1, <2>2
  <2> QED  BY <1>3, <2>3
<1>5. ASSUME NEW u \in Server, commitIndex[l] < binlog[u].len
      PROVE  u \in S
  <2>1. i + 1 \in 1 .. binlog[u].len  BY <1>3, <1>5
  <2>2. binlog[u].slot[i + 1] = binlog[l].slot[i + 1]
    BY <1>1, <2>1 DEF LeadInv, LogsOfLeader
  <2>3. Entries(binlog[u])[i + 1] = binlog[u].slot[i + 1]  BY <2>1, LogFacts, EntriesOf
  <2> QED  BY <1>2, <2>1, <2>2, <2>3 DEF InLog, GetLength
<1> HIDE DEF S
<1>6. S \in SUBSET Server  BY DEF S
<1>7. CommitOnMajority(l) /\ LogsOfLeader(l)  BY <1>1 DEF LeadInv
<1>8. 2 * Cardinality(S) > Cardinality(Server)  BY <1>4, <1>5, <1>6, <1>7, HoldersOf
<1> QED  BY <1>8 DEF S

\* While the cluster is steady, a write the client was told of is in the logs of
\* a majority, whatever the number of members.
THEOREM SteadyAnsweredKept == Spec => [](Steady => AnsweredKept)
<1>1. TypeOK /\ NoBadSlot /\ ElectionInv /\ SteadyInv => (Steady => AnsweredKept)
  BY SteadyAnswered, NodeAssumption
<1> QED  BY <1>1, SteadyInvariant, PTL

-----------------------------------------------------------------------------
\* The refinement: seen from the clients, a steady cluster is one StateMachine.

\* The slots of a log up to n, and the longest of the committed parts.
Part(b, n) == SubSeq(b.slot, 1, n + 1)
LongestOf(logs, idx) ==
    LET committed == {SubSeq(logs[s].slot, 1, idx[s] + 1) : s \in Server}
    IN  CHOOSE c \in committed : \A d \in committed : Len(d) <= Len(c)

LEMMA PartOf ==
    ASSUME NEW b \in BinLogs(Entry, Terms), NEW n \in Int, n < b.len
    PROVE  /\ Part(b, n) \in Seq(Entry)
           /\ Len(Part(b, n)) = IF n >= 0 THEN n + 1 ELSE 0
           /\ \A i \in 1 .. n + 1 : Part(b, n)[i] = b.slot[i]
<1>1. b.slot \in Seq(Entry) /\ Len(b.slot) \in Nat /\ b.len \in Nat /\ b.len <= Len(b.slot)
  BY LenProperties DEF BinLogs
<1> DEFINE k == n + 1
<1>2. k \in Int /\ 1 \in Int /\ k <= b.len  BY <1>1
<1>3. \A i \in 1 .. k : b.slot[i] \in Entry
  <2> TAKE i \in 1 .. k
  <2>1. i \in 1 .. Len(b.slot)  BY <1>1, <1>2
  <2> QED  BY <1>1, <2>1, ElementOfSeq
<1> HIDE DEF k
<1>4. /\ SubSeq(b.slot, 1, k) \in Seq(Entry)
      /\ Len(SubSeq(b.slot, 1, k)) = IF 1 <= k THEN k - 1 + 1 ELSE 0
      /\ \A i \in 1 .. k - 1 + 1 : SubSeq(b.slot, 1, k)[i] = b.slot[1 + i - 1]
  BY <1>2, <1>3, SubSeqProperties
<1>5. Len(SubSeq(b.slot, 1, k)) = IF k >= 1 THEN k ELSE 0  BY <1>2, <1>4
<1>6. \A i \in 1 .. k : SubSeq(b.slot, 1, k)[i] = b.slot[i]
  <2> TAKE i \in 1 .. k
  <2>1. i \in 1 .. k - 1 + 1 /\ 1 + i - 1 = i  BY <1>2
  <2> QED  BY <1>4, <2>1
<1>7. Part(b, n) = SubSeq(b.slot, 1, k)  BY DEF Part, k
<1>8. Len(Part(b, n)) = IF n >= 0 THEN n + 1 ELSE 0  BY <1>5, <1>7 DEF k
<1> QED  BY <1>4, <1>6, <1>7, <1>8 DEF k

LEMMA PartSame ==
    ASSUME NEW b \in BinLogs(Entry, Terms), NEW c \in BinLogs(Entry, Terms),
           NEW n \in Int, n < b.len, n < c.len,
           \A i \in 1 .. n + 1 : b.slot[i] = c.slot[i]
    PROVE  Part(b, n) = Part(c, n)
<1> PICK p, q : p = Part(b, n) /\ q = Part(c, n)  OBVIOUS
<1>1. p \in Seq(Entry) /\ q \in Seq(Entry) /\ Len(p) = Len(q)
  BY PartOf
<1>2. ASSUME NEW i \in 1 .. Len(p)
      PROVE  p[i] = q[i]
  <2>1. i \in 1 .. n + 1  BY PartOf
  <2> QED  BY <2>1, PartOf
<1>3. p = q  BY <1>1, <1>2, SeqEqual
<1> QED  BY <1>3

\* Among the committed parts of prefixes of one log, the one with the highest
\* index is the longest.
LEMMA LongestPart ==
    ASSUME NEW logs \in [Server -> BinLogs(Entry, Terms)], NEW idx \in [Server -> Int],
           NEW l \in Server,
           \A s \in Server : /\ idx[s] <= idx[l] /\ idx[s] < logs[s].len
                             /\ logs[s].len <= logs[l].len
                             /\ \A i \in 1 .. logs[s].len : logs[s].slot[i] = logs[l].slot[i]
    PROVE  LongestOf(logs, idx) = Part(logs[l], idx[l])
<1> DEFINE C == {SubSeq(logs[s].slot, 1, idx[s] + 1) : s \in Server}
           p(s) == Part(logs[s], idx[s])
<1>1. \A d \in C : \E s \in Server : d = p(s)  BY DEF Part
<1>2. p(l) \in C  BY DEF Part
<1>3. ASSUME NEW s \in Server
      PROVE  /\ Len(p(s)) = IF idx[s] >= 0 THEN idx[s] + 1 ELSE 0
             /\ idx[s] \in Int /\ idx[l] \in Int /\ idx[s] <= idx[l]
             /\ logs[s].len \in Nat /\ logs[l].len \in Nat
             /\ p(s) \in Seq(Entry)
  <2>1. logs[s] \in BinLogs(Entry, Terms) /\ idx[s] \in Int /\ idx[s] < logs[s].len  OBVIOUS
  <2>2. logs[s].len \in Nat /\ logs[l].len \in Nat  BY DEF BinLogs
  <2> QED  BY <2>1, <2>2, PartOf
<1>4. \A d \in C : Len(d) <= Len(p(l))
  <2> SUFFICES ASSUME NEW s \in Server
               PROVE  Len(p(s)) <= Len(p(l))
    BY <1>1
  <2>1. /\ Len(p(s)) = IF idx[s] >= 0 THEN idx[s] + 1 ELSE 0
        /\ idx[s] \in Int /\ idx[l] \in Int /\ idx[s] <= idx[l]
    BY <1>3
  <2>2. Len(p(l)) = IF idx[l] >= 0 THEN idx[l] + 1 ELSE 0  BY <1>3
  <2> HIDE DEF p
  <2> QED  BY <2>1, <2>2
<1>5. ASSUME NEW d \in C, Len(p(l)) <= Len(d)
      PROVE  d = p(l)
  <2>1. PICK s \in Server : d = p(s)  BY <1>1
  <2>2. /\ Len(p(s)) = IF idx[s] >= 0 THEN idx[s] + 1 ELSE 0
        /\ idx[s] \in Int /\ idx[l] \in Int /\ idx[s] <= idx[l]
        /\ logs[s].len \in Nat /\ logs[l].len \in Nat
        /\ p(s) \in Seq(Entry) /\ p(l) \in Seq(Entry)
    BY <1>3
  <2>3. Len(p(l)) = IF idx[l] >= 0 THEN idx[l] + 1 ELSE 0  BY <1>3
  <2>4. Len(p(l)) <= Len(p(s))  BY <1>5, <2>1
  <2>5. CASE idx[l] >= 0
    <3>1. idx[s] = idx[l]
      <4> HIDE DEF p
      <4> QED  BY <2>2, <2>3, <2>4, <2>5
    <3>2. \A i \in 1 .. idx[l] + 1 : logs[s].slot[i] = logs[l].slot[i]
      <4> TAKE i \in 1 .. idx[l] + 1
      <4>1. idx[s] < logs[s].len  OBVIOUS
      <4>2. i \in 1 .. logs[s].len  BY <2>2, <3>1, <4>1
      <4> QED  BY <4>2
    <3>3. logs[s] \in BinLogs(Entry, Terms) /\ logs[l] \in BinLogs(Entry, Terms)
          /\ idx[l] \in Int /\ idx[l] < logs[s].len /\ idx[l] < logs[l].len
      BY <3>1
    <3>4. Part(logs[s], idx[l]) = Part(logs[l], idx[l])  BY <3>2, <3>3, PartSame
    <3> QED  BY <2>1, <3>1, <3>4
  <2>6. CASE ~(idx[l] >= 0)
    <3>1. Len(p(s)) = 0 /\ Len(p(l)) = 0
      <4> HIDE DEF p
      <4> QED  BY <2>2, <2>3, <2>6
    <3>2. p(s) = << >> /\ p(l) = << >>
      <4> HIDE DEF p
      <4> QED  BY <2>2, <3>1, EmptySeq
    <3> QED  BY <2>1, <3>2
  <2> QED  BY <2>5, <2>6
<1> PICK c : c = LongestOf(logs, idx)  OBVIOUS
<1>6. c \in C /\ \A d \in C : Len(d) <= Len(c)
  <2>1. \E x \in C : \A d \in C : Len(d) <= Len(x)  BY <1>2, <1>4
  <2>2. c = CHOOSE x \in C : \A d \in C : Len(d) <= Len(x)  BY DEF LongestOf
  <2> HIDE DEF C
  <2> QED  BY <2>1, <2>2
<1>7. c = p(l)  BY <1>2, <1>5, <1>6
<1> QED  BY <1>7

LEMMA NothingLongest ==
    ASSUME MembersAssumption, NEW logs, NEW idx, \A s \in Server : idx[s] = -1
    PROVE  LongestOf(logs, idx) = << >>
<1> DEFINE C == {SubSeq(logs[s].slot, 1, idx[s] + 1) : s \in Server}
<1>1. ASSUME NEW s \in Server
      PROVE  SubSeq(logs[s].slot, 1, idx[s] + 1) = << >>
  <2>1. 1 \in Int /\ 0 \in Int /\ 0 < 1  OBVIOUS
  <2>2. SubSeq(logs[s].slot, 1, 0) = << >>  BY <2>1, SubSeqEmpty
  <2>3. idx[s] + 1 = 0  OBVIOUS
  <2> QED  BY <2>2, <2>3
<1>2. C = {<< >>}  BY <1>1 DEF MembersAssumption
<1>3. 0 <= 0 /\ Len(<< >>) = 0  OBVIOUS
<1>4. LongestOf(logs, idx) = CHOOSE x \in C : \A d \in C : Len(d) <= Len(x)  BY DEF LongestOf
<1>5. \E x \in C : \A d \in C : Len(d) <= Len(x)  BY <1>2, <1>3
<1> HIDE DEF C
<1> QED  BY <1>2, <1>4, <1>5

LEMMA ChosenIs ==
    /\ Chosen = LongestOf(binlog, commitIndex)
    /\ Chosen' = LongestOf(binlog', commitIndex')
BY DEF Chosen, LongestOf

\* What a steady cluster has chosen is what its leader has committed.
LEMMA ChosenOfLeader ==
    ASSUME TypeOK, NEW l \in Server, LogsOfLeader(l), CommitsOfLeader(l)
    PROVE  /\ Chosen = Part(binlog[l], commitIndex[l])
           /\ binlog[l] \in BinLogs(Entry, Terms)
           /\ commitIndex[l] \in Int /\ commitIndex[l] < binlog[l].len
<1>1. /\ binlog \in [Server -> BinLogs(Entry, Terms)] /\ commitIndex \in [Server -> Int]
      /\ \A s \in Server : /\ commitIndex[s] <= commitIndex[l] /\ commitIndex[s] < binlog[s].len
                           /\ binlog[s].len <= binlog[l].len
                           /\ \A i \in 1 .. binlog[s].len : binlog[s].slot[i] = binlog[l].slot[i]
  BY DEF TypeOK, LogTypeOK, ApplyTypeOK, LogsOfLeader, CommitsOfLeader
<1>2. LongestOf(binlog, commitIndex) = Part(binlog[l], commitIndex[l])  BY <1>1, LongestPart
<1> QED  BY <1>1, <1>2, ChosenIs

LEMMA NextChosenOfLeader ==
    ASSUME TypeOK', NEW l \in Server, LogsOfLeader(l)', CommitsOfLeader(l)'
    PROVE  /\ Chosen' = Part(binlog'[l], commitIndex'[l])
           /\ binlog'[l] \in BinLogs(Entry, Terms)
           /\ commitIndex'[l] \in Int /\ commitIndex'[l] < binlog'[l].len
<1>1. /\ binlog' \in [Server -> BinLogs(Entry, Terms)] /\ commitIndex' \in [Server -> Int]
      /\ \A s \in Server : /\ commitIndex'[s] <= commitIndex'[l] /\ commitIndex'[s] < binlog'[s].len
                           /\ binlog'[s].len <= binlog'[l].len
                           /\ \A i \in 1 .. binlog'[s].len : binlog'[s].slot[i] = binlog'[l].slot[i]
  BY DEF TypeOK, LogTypeOK, ApplyTypeOK, LogsOfLeader, CommitsOfLeader
<1>2. LongestOf(binlog', commitIndex') = Part(binlog'[l], commitIndex'[l])
  BY <1>1, LongestPart
<1> QED  BY <1>1, <1>2, ChosenIs

\* What the clients see is unchanged.
LEMMA SameView ==
    ASSUME Chosen' = Chosen, UNCHANGED <<lastApplied, applier, store, reply>>
    PROVE  UNCHANGED SM!smVars
BY DEF SM!smVars

LEMMA InitRefines == ASSUME NodeAssumption, MembersAssumption, Init PROVE SM!SMInit
<1>1. Chosen = << >>
  <2>1. \A s \in Server : commitIndex[s] = -1  BY DEF Init
  <2> QED  BY <2>1, ChosenIs, NothingLongest
<1>2. [s \in Server |-> lastApplied[s] + (IF applier[s].pc = "ack" THEN 2 ELSE 1)]
         = [s \in Server |-> 0]
  <2>1. \A s \in Server : lastApplied[s] + (IF applier[s].pc = "ack" THEN 2 ELSE 1) = 0
    BY DEF Init
  <2> QED  BY <2>1
<1>3. store = [s \in Server |-> EmptyDb]  BY DEF Init, EmptyDb
<1>4. {r \in Request : reply[r] = "ok"} = {}  BY DEF Init
<1> QED  BY <1>1, <1>2, <1>3, <1>4 DEF SM!SMInit

\* Before anything is chosen.
LEMMA NothingRefines ==
    ASSUME NodeAssumption, MembersAssumption, TypeOK, NothingYet, [Next]_vars
    PROVE  UNCHANGED SM!smVars
<1>1. UNCHANGED <<commitIndex, lastApplied, applier, store, reply>>
  <2>1. CASE ElectionNext
    BY <2>1 DEF ElectionNext, VoteTimerHeard, VoteLeader, Vote, VoteCallBack, applyVars, clientVars
  <2>2. ~LeaderNext
    BY DEF LeaderNext, ReplicateStop, ReplicateBuild, ReplicateSend, ReplicateAnswer,
       ReplicateFail, NothingYet
  <2>3. CASE HeartBeatNext
    <3>1. \A s \in Server : ~BroadCastHeartBeat(s)  BY DEF BroadCastHeartBeat, NothingYet
    <3>2. ~\E m \in appendReq : AppendEntries(m)  BY DEF NothingYet
    <3>3. PICK m \in beatRes : HeartBeatCallBack(m)  BY <2>3, <3>1, <3>2 DEF HeartBeatNext
    <3> QED  BY <3>3 DEF HeartBeatCallBack, applyVars, clientVars
  <2>4. ~FollowerNext  BY DEF FollowerNext, NothingYet
  <2>5. ~ApplyNext
    <3>1. \A s \in Server, r \in Request :
             ~(Put(s, r) \/ Delete(s, r) \/ Lock(s, r) \/ UnLock(s, r))
      BY DEF Put, Delete, Lock, UnLock, Submit, NothingYet
    <3>2. \A s \in Server : ~(CommitBegin(s) \/ CommitStore(s) \/ CommitAck(s))
      BY DEF CommitBegin, CommitStore, CommitAck, NothingYet
    <3> QED  BY <3>1, <3>2 DEF ApplyNext
  <2>6. CASE UNCHANGED vars  BY <2>6 DEF vars, applyVars, clientVars
  <2> QED  BY <2>1, <2>2, <2>3, <2>4, <2>5, <2>6 DEF Next
<1>2. Chosen = << >> /\ Chosen' = << >>
  <2>1. \A s \in Server : commitIndex[s] = -1  BY DEF NothingYet
  <2>2. \A s \in Server : commitIndex'[s] = -1  BY <1>1, <2>1
  <2> QED  BY <2>1, <2>2, ChosenIs, NothingLongest
<1> QED  BY <1>1, <1>2, SameView

\* More of a log extends less of it.
LEMMA LongerPart ==
    ASSUME NEW b \in BinLogs(Entry, Terms), NEW n \in Int, NEW k \in Int, n <= k, k < b.len
    PROVE  \/ Part(b, k) = Part(b, n)
           \/ /\ Len(Part(b, k)) > Len(Part(b, n))
              /\ SubSeq(Part(b, k), 1, Len(Part(b, n))) = Part(b, n)
<1> PICK p, q : p = Part(b, n) /\ q = Part(b, k)  OBVIOUS
<1>1. b.len \in Nat /\ n < b.len  BY DEF BinLogs
<1>2. /\ p \in Seq(Entry) /\ Len(p) = IF n >= 0 THEN n + 1 ELSE 0
      /\ \A i \in 1 .. n + 1 : p[i] = b.slot[i]
  BY <1>1, PartOf
<1>3. /\ q \in Seq(Entry) /\ Len(q) = IF k >= 0 THEN k + 1 ELSE 0
      /\ \A i \in 1 .. k + 1 : q[i] = b.slot[i]
  BY PartOf
<1>4. CASE k < 0
  <2>1. Len(p) = 0 /\ Len(q) = 0  BY <1>2, <1>3, <1>4
  <2>2. p = << >> /\ q = << >>  BY <1>2, <1>3, <2>1, EmptySeq
  <2> QED  BY <2>2
<1>5. CASE k >= 0 /\ n < 0
  <2>1. Len(p) = 0 /\ Len(q) > 0  BY <1>2, <1>3, <1>5
  <2>2. p = << >>  BY <1>2, <2>1, EmptySeq
  <2>3. SubSeq(q, 1, 0) = << >>
    <3>1. 1 \in Int /\ 0 \in Int /\ 0 < 1  OBVIOUS
    <3> QED  BY <3>1, SubSeqEmpty
  <2> QED  BY <2>1, <2>2, <2>3
<1>6. CASE n >= 0
  <2>1. /\ Len(p) = n + 1 /\ Len(q) = k + 1 /\ n + 1 \in Nat /\ 1 <= n + 1
    BY <1>2, <1>3, <1>6
  <2>2. CASE n = k  BY <2>2
  <2>3. CASE n # k
    <3>1. Len(q) > Len(p)  BY <2>1, <2>3
    <3> PICK z, u : z = n + 1 /\ u = SubSeq(q, 1, z)  OBVIOUS
    <3>2. z \in Int /\ 1 \in Int /\ 1 <= z /\ z - 1 + 1 = z /\ z <= Len(q)  BY <2>1
    <3>3. \A i \in 1 .. z : q[i] \in Entry
      <4> TAKE i \in 1 .. z
      <4>1. i \in 1 .. Len(q)  BY <2>1, <3>2
      <4> QED  BY <1>3, <4>1, ElementOfSeq
    <3>4. /\ u \in Seq(Entry) /\ Len(u) = IF 1 <= z THEN z - 1 + 1 ELSE 0
          /\ \A i \in 1 .. z - 1 + 1 : u[i] = q[1 + i - 1]
      BY <3>2, <3>3, SubSeqProperties
    <3>5. Len(u) = z  BY <3>2, <3>4
    <3>6. ASSUME NEW i \in 1 .. z
          PROVE  u[i] = p[i]
      <4>1. i \in 1 .. z - 1 + 1 /\ 1 + i - 1 = i /\ i \in 1 .. n + 1 /\ i \in 1 .. k + 1
        BY <3>2, <3>6
      <4> QED  BY <1>2, <1>3, <3>4, <4>1
    <3>7. u = p  BY <1>2, <2>1, <3>4, <3>5, <3>6, SeqEqual
    <3> QED  BY <2>1, <3>1, <3>7
  <2> QED  BY <2>2, <2>3
<1> QED  BY <1>4, <1>5, <1>6

\* What is chosen stays while the leader commits nothing.
LEMMA ChosenKept ==
    ASSUME NEW l \in Server, NEW t, Lead(l, t), TypeOK', LeadInv(l, t)',
           commitIndex'[l] = commitIndex[l],
           binlog[l].len <= binlog'[l].len,
           \A i \in 1 .. binlog[l].len : binlog'[l].slot[i] = binlog[l].slot[i]
    PROVE  Chosen' = Chosen
<1> PICK n : n = commitIndex[l]  OBVIOUS
<1>1. /\ Chosen = Part(binlog[l], n) /\ binlog[l] \in BinLogs(Entry, Terms)
      /\ n \in Int /\ n < binlog[l].len
  BY ChosenOfLeader DEF Lead, LeadInv
<1>2. /\ Chosen' = Part(binlog'[l], n) /\ binlog'[l] \in BinLogs(Entry, Terms)
      /\ n < binlog'[l].len
  BY NextChosenOfLeader DEF LeadInv
<1>3. \A i \in 1 .. n + 1 : binlog'[l].slot[i] = binlog[l].slot[i]
  <2>1. binlog[l].len \in Nat  BY NodeNumbers DEF Lead
  <2> TAKE i \in 1 .. n + 1
  <2>2. i \in 1 .. binlog[l].len  BY <1>1, <2>1
  <2> QED  BY <2>2
<1> QED  BY <1>1, <1>2, <1>3, PartSame

\* A step in which the leader may commit is a Choose.
LEMMA ChooseRefines ==
    ASSUME NEW l \in Server, NEW t, Lead(l, t), TypeOK', LeadInv(l, t)', binlog' = binlog,
           commitIndex[l] <= commitIndex'[l],
           UNCHANGED <<lastApplied, applier, store, reply>>
    PROVE  [SM!SMNext]_(SM!smVars)
<1> PICK n, k : n = commitIndex[l] /\ k = commitIndex'[l]  OBVIOUS
<1>1. /\ Chosen = Part(binlog[l], n) /\ binlog[l] \in BinLogs(Entry, Terms)
      /\ n \in Int /\ n < binlog[l].len
  BY ChosenOfLeader DEF Lead, LeadInv
<1>2. /\ Chosen' = Part(binlog[l], k) /\ k \in Int /\ k < binlog[l].len
  BY NextChosenOfLeader DEF LeadInv
<1>3. \/ Chosen' = Chosen
      \/ Len(Chosen') > Len(Chosen) /\ SubSeq(Chosen', 1, Len(Chosen)) = Chosen
  BY <1>1, <1>2, LongerPart
<1>4. SM!Once(Chosen')
  <2>1. /\ Len(Chosen') = IF k >= 0 THEN k + 1 ELSE 0
        /\ \A i \in 1 .. k + 1 : Chosen'[i] = binlog[l].slot[i]
    BY <1>1, <1>2, PartOf
  <2>2. binlog[l].len \in Nat  BY NodeNumbers DEF Lead
  <2>3. \A i \in 1 .. Len(Chosen') : i \in 1 .. k + 1 /\ i \in 1 .. binlog[l].len
    BY <1>2, <2>1, <2>2
  <2>4. \A i, j \in 1 .. binlog[l].len :
           binlog[l].slot[i].req = binlog[l].slot[j].req /\ i # j => binlog[l].slot[i].req = Nil
    BY DEF LeadInv, RequestsOfLeader, Lead
  <2> SUFFICES ASSUME NEW i \in 1 .. Len(Chosen'), NEW j \in 1 .. Len(Chosen'),
                      Chosen'[i].req = Chosen'[j].req, i # j
               PROVE  Chosen'[i].req = Nil
    BY DEF SM!Once
  <2>5. Chosen'[i] = binlog[l].slot[i] /\ Chosen'[j] = binlog[l].slot[j]  BY <2>1, <2>3
  <2> QED  BY <2>3, <2>4, <2>5
<1>5. CASE Chosen' = Chosen
  <2>1. UNCHANGED SM!smVars  BY <1>5, SameView
  <2> QED  BY <2>1
<1>6. CASE Len(Chosen') > Len(Chosen) /\ SubSeq(Chosen', 1, Len(Chosen)) = Chosen
  <2>1. SM!Choose  BY <1>4, <1>6 DEF SM!Choose
  <2> QED  BY <2>1 DEF SM!SMNext
<1> QED  BY <1>3, <1>5, <1>6

\* The slot that s is applying, where its apply thread stands.
LEMMA SlotApplied ==
    ASSUME NEW l \in Server, NEW t, Lead(l, t), NEW s \in Server, applier[s].pc # "wait"
    PROVE  /\ lastApplied[s] + 1 \in Nat /\ lastApplied[s] + 1 < Len(Chosen)
           /\ binlog[s].slot[lastApplied[s] + 2] = Chosen[lastApplied[s] + 2]
           /\ binlog[l].slot[lastApplied[s] + 2] = Chosen[lastApplied[s] + 2]
<1> PICK i, n : i = lastApplied[s] + 1 /\ n = commitIndex[l]  OBVIOUS
<1>1. /\ lastApplied[s] >= -1 /\ lastApplied[s] < applier[s].end
      /\ lastApplied[s] \in Int /\ applier[s].end \in Int
  BY NodeNumbers DEF Lead, NoBadSlot, ApplyStored
<1>2. applier[s].end <= n /\ applier[s].end < binlog[s].len
  BY DEF Lead, LeadInv, CommitsOfLeader
<1>3. /\ Chosen = Part(binlog[l], n) /\ binlog[l] \in BinLogs(Entry, Terms)
      /\ n \in Int /\ n < binlog[l].len
  BY ChosenOfLeader DEF Lead, LeadInv
<1>4. binlog[s].len \in Nat  BY NodeNumbers DEF Lead
<1>5. i \in Nat /\ i <= n /\ i < binlog[s].len /\ lastApplied[s] + 2 = i + 1
  BY <1>1, <1>2, <1>3, <1>4
<1>6. i + 1 \in 1 .. n + 1 /\ i + 1 \in 1 .. binlog[s].len  BY <1>3, <1>4, <1>5
<1>7. /\ Len(Chosen) = IF n >= 0 THEN n + 1 ELSE 0
      /\ Chosen[i + 1] = binlog[l].slot[i + 1]
  BY <1>3, <1>6, PartOf
<1>8. binlog[s].slot[i + 1] = binlog[l].slot[i + 1]  BY <1>6 DEF Lead, LeadInv, LogsOfLeader
<1>9. i < Len(Chosen)  BY <1>3, <1>5, <1>7
<1> QED  BY <1>5, <1>7, <1>8, <1>9

\* Applying a slot to the database is an ApplyOne.
LEMMA StoreRefines ==
    ASSUME NEW l \in Server, NEW t, Lead(l, t), Chosen' = Chosen,
           NEW s \in Server, CommitStore(s)
    PROVE  SM!ApplyOne(s)
<1> DEFINE D(u) == lastApplied[u] + (IF applier[u].pc = "ack" THEN 2 ELSE 1)
           F == [u \in Server |-> D(u)]
           G == [u \in Server |-> lastApplied'[u] + (IF applier'[u].pc = "ack" THEN 2 ELSE 1)]
           i == lastApplied[s] + 1
<1>1. /\ applier[s].pc = "apply" /\ applier' = [applier EXCEPT ![s].pc = "ack"]
      /\ lastApplied' = lastApplied /\ reply' = reply
      /\ store' = [store EXCEPT ![s] = Effect(@, ReadSlot(binlog[s], i))]
  BY DEF CommitStore, clientVars
<1>2. /\ applier \in [Server -> [pc: {"wait", "apply", "ack"}, end: Int]]
      /\ \A u \in Server : lastApplied[u] \in Int
  BY DEF Lead, TypeOK, ApplyTypeOK
<1>3. F[s] = i  BY <1>1
<1>4. /\ i \in Nat /\ i < Len(Chosen) /\ ReadSlot(binlog[s], i) = Chosen[i + 1]
  <2>1. lastApplied[s] + 2 = i + 1  BY <1>2
  <2> QED  BY <1>1, <2>1, SlotApplied DEF ReadSlot
<1>5. G = [F EXCEPT ![s] = @ + 1]
  <2>1. applier'[s].pc = "ack" /\ \A u \in Server \ {s} : applier'[u] = applier[u]
    BY <1>1, <1>2
  <2>2. G[s] = F[s] + 1  BY <1>1, <1>2, <2>1
  <2>3. \A u \in Server \ {s} : G[u] = F[u]  BY <1>1, <2>1
  <2> HIDE DEF D
  <2> QED  BY <2>2, <2>3
<1>6. store' = [store EXCEPT ![s] = Effect(@, Chosen[F[s] + 1])]  BY <1>1, <1>3, <1>4
<1>7. F[s] < Len(Chosen)  BY <1>3, <1>4
<1> QED  BY <1>1, <1>5, <1>6, <1>7 DEF SM!ApplyOne

\* Answering a call is an Answer: the call that was noted under the slot is the
\* one whose entry is there.
LEMMA AckRefines ==
    ASSUME NodeAssumption, NEW l \in Server, NEW t \in Terms, Lead(l, t), Chosen' = Chosen,
           NEW s \in Server, CommitAck(s)
    PROVE  [SM!SMNext]_(SM!smVars)
<1> DEFINE F == [u \in Server |-> lastApplied[u] + (IF applier[u].pc = "ack" THEN 2 ELSE 1)]
           G == [u \in Server |-> lastApplied'[u] + (IF applier'[u].pc = "ack" THEN 2 ELSE 1)]
           i == lastApplied[s] + 1
           acks == AcksAt(s, i)
<1>1. /\ applier[s].pc = "ack" /\ store' = store
      /\ lastApplied' = [lastApplied EXCEPT ![s] = i]
      /\ applier' = [applier EXCEPT ![s] = IF i < applier[s].end
                                           THEN [applier[s] EXCEPT !.pc = "apply"]
                                           ELSE [pc |-> "wait", end |-> -1]]
  BY DEF CommitAck
<1>2. /\ applier \in [Server -> [pc: {"wait", "apply", "ack"}, end: Int]]
      /\ lastApplied \in [Server -> Int]
  BY DEF Lead, TypeOK, ApplyTypeOK
<1>3. G = F
  <2>1. applier'[s].pc # "ack" /\ \A u \in Server \ {s} : applier'[u] = applier[u]
    <3>1. [applier[s] EXCEPT !.pc = "apply"].pc = "apply"  BY <1>2
    <3>2. [pc |-> "wait", end |-> -1].pc = "wait"  OBVIOUS
    <3>3. applier'[s].pc = "apply" \/ applier'[s].pc = "wait"  BY <1>1, <1>2, <3>1, <3>2
    <3> QED  BY <1>1, <1>2, <3>3
  <2>2. lastApplied'[s] = i /\ \A u \in Server \ {s} : lastApplied'[u] = lastApplied[u]
    BY <1>1, <1>2
  <2>3. G[s] = F[s]  BY <1>1, <1>2, <2>1, <2>2
  <2>4. \A u \in Server \ {s} : G[u] = F[u]  BY <2>1, <2>2
  <2> QED  BY <2>3, <2>4
<1>4. CASE status[s] = "Leader" /\ acks # {}
  <2>1. s = l  BY <1>4, LeaderIs DEF Lead
  <2>2. PICK a : a \in acks  BY <1>4
  <2>3. /\ a \in sdkAck[l] /\ a.index = i /\ a.done \in Request
        /\ \A c \in acks : c = a
    <3>1. a \in sdkAck[l] /\ a.index = i  BY <2>1, <2>2 DEF AcksAt
    <3>2. \A c \in acks : c \in sdkAck[l] /\ c.index = a.index  BY <2>1, <3>1 DEF AcksAt
    <3>3. \A c \in acks : c = a  BY <3>1, <3>2 DEF Lead, LeadInv, RequestsOfLeader
    <3>4. sdkAck[l] \subseteq Ack  BY DEF Lead, TypeOK, ApplyTypeOK
    <3> QED  BY <3>1, <3>3, <3>4 DEF Ack
  <2>4. reply' = [r \in Request |-> IF \E c \in acks : c.done = r THEN "ok" ELSE reply[r]]
    BY <1>4 DEF CommitAck
  <2>5. {r \in Request : reply'[r] = "ok"} = {r \in Request : reply[r] = "ok"} \cup {a.done}
    <3>1. \A r \in Request : reply'[r] = IF r = a.done THEN "ok" ELSE reply[r]
      <4> HIDE DEF acks
      <4> QED  BY <2>2, <2>3, <2>4
    <3> QED  BY <2>3, <3>1
  <2>6. \E u \in Server : \E j \in 1 .. F[u] : Chosen[j].req = a.done
    <3>1. i \in Nat /\ lastApplied[s] + 2 = i + 1  BY <1>1, <1>2, SlotApplied
    <3>2. binlog[l].slot[i + 1] = Chosen[i + 1]  BY <1>1, <3>1, SlotApplied
    <3>3. binlog[l].slot[i + 1].req = a.done
      BY <2>3 DEF Lead, LeadInv, RequestsOfLeader
    <3>4. F[s] = lastApplied[s] + 2  BY <1>1
    <3>5. i + 1 \in 1 .. F[s]  BY <3>1, <3>4
    <3> QED  BY <3>2, <3>3, <3>5
  <2>7. SM!Answer(a.done)  BY <1>1, <1>3, <2>5, <2>6 DEF SM!Answer
  <2> QED  BY <2>3, <2>7 DEF SM!SMNext
<1>5. CASE ~(status[s] = "Leader" /\ acks # {})
  <2>1. reply' = reply  BY <1>5 DEF CommitAck, clientVars
  <2>2. UNCHANGED SM!smVars  BY <1>1, <1>3, <2>1 DEF SM!smVars
  <2> QED  BY <2>2
<1> QED  BY <1>4, <1>5

\* A client's call is not chosen yet, nor answered.
LEMMA SubmitRefines ==
    ASSUME NodeAssumption, TypeOK', NEW l \in Server, NEW t \in Terms, Lead(l, t),
           LeadInv(l, t)', NEW s \in Server, NEW r \in Request, NEW op \in ReqKinds,
           Submit(s, r, op)
    PROVE  UNCHANGED SM!smVars
<1>1. s = l /\ currentTerm[l] = t  BY LeaderIs DEF Submit, Lead
<1> DEFINE e == [term |-> t, op |-> op, req |-> r]
<1>2. /\ binlog' = [binlog EXCEPT ![l] = WriteEntryList(@, <<e>>)]
      /\ commitIndex' = commitIndex
      /\ UNCHANGED <<lastApplied, applier, store>>
      /\ reply[r] = "idle" /\ reply' = [reply EXCEPT ![r] = "sent"]
  BY <1>1 DEF Submit, WriteEntry, applyVars
<1>3. <<e>> \in Seq(Entry) /\ Len(<<e>>) = 1  BY DEF Entry
<1> HIDE DEF e
<1>4. binlog[l] \in BinLogs(Entry, Terms) /\ binlog[l].len = Len(binlog[l].slot)
      /\ binlog[l].len \in Nat
  BY LogFacts DEF Lead, LeadInv, LogsOfLeader
<1>5. binlog'[l] = WriteEntryList(binlog[l], <<e>>)  BY <1>2 DEF Lead, TypeOK, LogTypeOK
<1>6. /\ binlog'[l].len = binlog[l].len + Len(<<e>>)
      /\ \A i \in 1 .. binlog[l].len : binlog'[l].slot[i] = binlog[l].slot[i]
  <2>1. /\ WriteEntryList(binlog[l], <<e>>).len = binlog[l].len + Len(<<e>>)
        /\ \A i \in 1 .. binlog[l].len :
              WriteEntryList(binlog[l], <<e>>).slot[i] = binlog[l].slot[i]
    BY <1>3, <1>4, WriteAtEnd, Zenon
  <2> QED  BY <1>5, <2>1
<1>7. binlog[l].len <= binlog'[l].len  BY <1>3, <1>4, <1>6
<1>8. Chosen' = Chosen  BY <1>2, <1>6, <1>7, ChosenKept
<1>9. {q \in Request : reply'[q] = "ok"} = {q \in Request : reply[q] = "ok"}
  BY <1>2 DEF Lead, TypeOK, ApplyTypeOK
<1> QED  BY <1>2, <1>8, <1>9 DEF SM!smVars

LEMMA LeadRefines ==
    ASSUME NodeAssumption, TypeOK', NEW l \in Server, NEW t \in Terms, Lead(l, t),
           Wins(l, t)', Steady', LeadInv(l, t)', [Next]_vars
    PROVE  [SM!SMNext]_(SM!smVars)
<1>0. binlog[l].len \in Nat /\ commitIndex[l] \in Int  BY NodeNumbers DEF Lead
<1>1. ASSUME UNCHANGED <<lastApplied, applier, store, reply>>,
             commitIndex'[l] = commitIndex[l], binlog'[l] = binlog[l]
      PROVE  UNCHANGED SM!smVars
  <2>1. binlog[l].len <= binlog'[l].len  BY <1>0, <1>1
  <2>2. \A i \in 1 .. binlog[l].len : binlog'[l].slot[i] = binlog[l].slot[i]  BY <1>1
  <2>3. Chosen' = Chosen  BY <1>1, <2>1, <2>2, ChosenKept
  <2> QED  BY <1>1, <2>3, SameView
<1>2. CASE ElectionNext
  <2>1. UNCHANGED logVars  BY <1>2, ElectionKeepsLogs
  <2>2. store' = store
    BY <1>2 DEF ElectionNext, VoteTimerHeard, VoteLeader, Vote, VoteCallBack, applyVars
  <2> QED  BY <1>1, <2>1, <2>2 DEF logVars
<1>3. CASE LeaderNext
  <2>1. UNCHANGED <<binlog, lastApplied, applier, store, reply>>
    BY <1>3 DEF LeaderNext, ReplicateStop, ReplicateBuild, ReplicateSend, ReplicateAnswer,
       ReplicateFail, applyVars, clientVars
  <2>2. commitIndex[l] <= commitIndex'[l]
    <3>1. \/ commitIndex' = commitIndex
          \/ \E s \in Server : \E index :
                commitIndex' = UpdateCommitIndex(s, matchIndex'[s], index)
      <4>1. ASSUME NEW s \in Server, NEW f \in Server, NEW m, ReplicateSuccess(s, f, m)
            PROVE  \/ commitIndex' = commitIndex
                   \/ \E index : commitIndex' = UpdateCommitIndex(s, matchIndex'[s], index)
        <5>1. \/ commitIndex' = commitIndex
              \/ commitIndex' = UpdateCommitIndex(s, matchIndex'[s],
                                                  NextAfter(repl[s][f].call) - 1)
          BY <4>1, Zenon DEF ReplicateSuccess
        <5> QED  BY <5>1
      <4>2. ASSUME NEW s \in Server, NEW f \in Server, ReplicateAnswer(s, f)
            PROVE  \/ commitIndex' = commitIndex
                   \/ \E index : commitIndex' = UpdateCommitIndex(s, matchIndex'[s], index)
        BY <4>1, <4>2 DEF ReplicateAnswer, ReplicateNewerTerm, ReplicateNotLeader, ReplicateBusy,
           ReplicateBackoff
      <4>3. ASSUME NEW s \in Server, NEW f \in Server,
                   \/ ReplicateStop(s, f) \/ ReplicateBuild(s, f)
                   \/ ReplicateSend(s, f) \/ ReplicateFail(s, f)
            PROVE  commitIndex' = commitIndex
        BY <4>3 DEF ReplicateStop, ReplicateBuild, ReplicateSend, ReplicateFail
      <4> QED  BY <1>3, <4>2, <4>3 DEF LeaderNext
    <3>2. commitIndex' \in [Server -> Int] /\ commitIndex \in [Server -> Int]
      BY DEF Lead, TypeOK, ApplyTypeOK
    <3>3. ASSUME NEW s \in Server, NEW index,
                 commitIndex' = UpdateCommitIndex(s, matchIndex'[s], index)
          PROVE  commitIndex[l] <= commitIndex'[l]
      <4>1. \/ commitIndex' = commitIndex
            \/ index > commitIndex[s] /\ commitIndex' = [commitIndex EXCEPT ![s] = index]
        BY <3>3 DEF UpdateCommitIndex
      <4>2. CASE index > commitIndex[s] /\ commitIndex' = [commitIndex EXCEPT ![s] = index]
        <5>1. commitIndex'[s] = index /\ commitIndex'[s] \in Int /\ commitIndex[s] \in Int
          BY <3>2, <4>2
        <5>2. CASE s = l  BY <4>2, <5>1, <5>2
        <5>3. CASE s # l  BY <1>0, <3>2, <4>2, <5>3
        <5> QED  BY <5>2, <5>3
      <4> QED  BY <1>0, <4>1, <4>2
    <3> QED  BY <1>0, <3>1, <3>3
  <2> QED  BY <2>1, <2>2, ChooseRefines
<1>4. CASE HeartBeatNext
  <2>1. CASE \E s \in Server : BroadCastHeartBeat(s)
    BY <1>1, <2>1 DEF BroadCastHeartBeat, applyVars, clientVars
  <2>2. ASSUME NEW m \in appendReq, AppendEntries(m)
        PROVE  UNCHANGED SM!smVars
    <3>1. m.to # l  BY DEF Lead, LeadInv, CallsOfLeader, OfLeader
    <3>2. UNCHANGED <<lastApplied, applier, store, reply>>
      BY <2>2 DEF AppendEntries, applyVars, clientVars
    <3>3. /\ binlog' = binlog \/ binlog' = [binlog EXCEPT ![m.to] = Truncate(@, m.prev - 1)]
          /\ \/ commitIndex' = commitIndex
             \/ CommitUpTo(m)
      BY <2>2 DEF AppendEntries, AppendStale, AppendHeartBeat, AppendBeyond, AppendMismatch,
         AppendTooFast, AppendAccept
    <3>4. binlog'[l] = binlog[l]  BY <3>1, <3>3 DEF Lead, TypeOK, LogTypeOK
    <3>5. commitIndex'[l] = commitIndex[l]
      BY <3>1, <3>3 DEF CommitUpTo, Lead, TypeOK, ApplyTypeOK
    <3> QED  BY <1>1, <3>2, <3>4, <3>5
  <2>3. CASE \E m \in beatRes : HeartBeatCallBack(m)
    BY <1>1, <2>3 DEF HeartBeatCallBack, applyVars, clientVars
  <2> QED  BY <1>4, <2>1, <2>2, <2>3 DEF HeartBeatNext
<1>5. CASE FollowerNext
  <2>0. PICK f \in Server : \E h \in appending[f] : AppendWrite(f, h) \/ AppendFinish(f, h)
    BY <1>5 DEF FollowerNext
  <2>1. PICK h \in appending[f] : AppendWrite(f, h) \/ AppendFinish(f, h)
    BY <2>0
  <2>2. f # l /\ h.req.to = f  BY CallAtWork
  <2>3. UNCHANGED <<lastApplied, applier, store, reply>>
    BY <2>1 DEF AppendWrite, AppendFinish, applyVars, clientVars
  <2>4. binlog'[l] = binlog[l]
    BY <2>1, <2>2 DEF AppendWrite, AppendFinish, Lead, TypeOK, LogTypeOK
  <2>5. commitIndex'[l] = commitIndex[l]
    BY <2>1, <2>2 DEF AppendWrite, AppendFinish, CommitUpTo, Lead, TypeOK, ApplyTypeOK
  <2> QED  BY <1>1, <2>3, <2>4, <2>5
<1>6. CASE ApplyNext
  <2>1. \A s \in Server, r \in Request :
           Put(s, r) \/ Delete(s, r) \/ Lock(s, r) \/ UnLock(s, r) => UNCHANGED SM!smVars
    BY SubmitRefines DEF Put, Delete, Lock, UnLock, ReqKinds
  <2>2. ASSUME NEW s \in Server, CommitBegin(s) \/ CommitStore(s) \/ CommitAck(s)
        PROVE  [SM!SMNext]_(SM!smVars)
    <3>1. commitIndex' = commitIndex /\ binlog' = binlog
      BY <2>2 DEF CommitBegin, CommitStore, CommitAck
    <3>2. binlog[l].len <= binlog'[l].len  BY <1>0, <3>1
    <3>3. Chosen' = Chosen  BY <3>1, <3>2, ChosenKept
    <3>4. CASE CommitBegin(s)
      <4> DEFINE F == [u \in Server |-> lastApplied[u] + (IF applier[u].pc = "ack" THEN 2 ELSE 1)]
                 G == [u \in Server |-> lastApplied'[u] + (IF applier'[u].pc = "ack" THEN 2 ELSE 1)]
      <4>1. /\ applier[s].pc = "wait" /\ lastApplied' = lastApplied
            /\ applier' = [applier EXCEPT ![s] = [pc |-> "apply", end |-> commitIndex[s]]]
            /\ store' = store /\ reply' = reply
        BY <3>4 DEF CommitBegin, clientVars
      <4>2. \A u \in Server : applier'[u].pc = "ack" <=> applier[u].pc = "ack"
        BY <4>1 DEF Lead, TypeOK, ApplyTypeOK
      <4>3. \A u \in Server : G[u] = F[u]  BY <4>1, <4>2
      <4>4. G = F  BY <4>3
      <4>5. UNCHANGED SM!smVars  BY <3>3, <4>1, <4>4 DEF SM!smVars
      <4> QED  BY <4>5
    <3>5. CASE CommitStore(s)
      <4>1. SM!ApplyOne(s)  BY <3>3, <3>5, StoreRefines
      <4> QED  BY <4>1 DEF SM!SMNext
    <3>6. CASE CommitAck(s)  BY <3>3, <3>6, AckRefines
    <3> QED  BY <2>2, <3>4, <3>5, <3>6
  <2> QED  BY <1>6, <2>1, <2>2 DEF ApplyNext
<1>7. CASE UNCHANGED vars
  BY <1>1, <1>7 DEF vars, applyVars, clientVars
<1> QED  BY <1>2, <1>3, <1>4, <1>5, <1>6, <1>7 DEF Next

LEMMA StepRefines ==
    ASSUME NodeAssumption, MembersAssumption, TypeOK, NoBadSlot, ElectionInv, SteadyInv, TypeOK',
           Steady', [Next]_vars
    PROVE  [SM!SMNext]_(SM!smVars)
<1>1. Steady /\ \A s \in Server : \A t \in Terms : Wins(s, t) => Wins(s, t)'
  BY SteadyBefore
<1>2. CASE NothingYet
  <2>1. UNCHANGED SM!smVars  BY <1>2, NothingRefines
  <2> QED  BY <2>1
<1>3. ASSUME NEW l \in Server, NEW t \in Terms, Wins(l, t), LeadInv(l, t)
      PROVE  [SM!SMNext]_(SM!smVars)
  <2>1. Lead(l, t) /\ Wins(l, t)'  BY <1>1, <1>3 DEF Lead, SteadyInv
  <2>2. LeadInv(l, t)'  BY <2>1, StepLead
  <2> QED  BY <2>1, <2>2, LeadRefines
<1> QED  BY <1>1, <1>2, <1>3 DEF SteadyInv

\* As long as the cluster is steady, what its clients see is one StateMachine:
\* the operations are chosen in one order, each request once, every node applies
\* them in that order, and "ok" is said of a write that was chosen and applied.
THEOREM SteadyRefinesStateMachine == Spec /\ []Steady => RefinesStateMachine
<1> DEFINE Inv == TypeOK /\ NoBadSlot /\ ElectionInv /\ SteadyInv
<1>1. Init => SM!SMInit  BY InitRefines, NodeAssumption, MembersAssumption
<1>2. Inv /\ Inv' /\ Steady' /\ [Next]_vars => [SM!SMNext]_(SM!smVars)
  BY StepRefines, NodeAssumption, MembersAssumption
<1>3. Spec => []Inv  BY SteadyInvariant
<1> HIDE DEF Inv
<1> QED  BY <1>1, <1>2, <1>3, PTL DEF Spec, RefinesStateMachine, SM!SMSpec

-----------------------------------------------------------------------------
\* Databases of a steady cluster.

\* Only a client's call is written to the leader's log, whoever moves.
LEMMA LeaderLogSteps ==
    ASSUME NodeAssumption, NEW l \in Server, NEW t \in Terms, Lead(l, t),
           Wins(l, t)', Steady', [Next]_vars
    PROVE  \/ binlog'[l] = binlog[l]
           \/ \E r \in Request, op \in ReqKinds : Submit(l, r, op)
<1>1. CASE ElectionNext
  <2>1. UNCHANGED logVars  BY <1>1, ElectionKeepsLogs
  <2> QED  BY <2>1 DEF logVars
<1>2. CASE LeaderNext
  BY <1>2 DEF LeaderNext, ReplicateStop, ReplicateBuild, ReplicateSend, ReplicateAnswer,
     ReplicateFail
<1>3. CASE HeartBeatNext
  <2>1. ASSUME NEW m \in appendReq, AppendEntries(m)
        PROVE  binlog'[l] = binlog[l]
    <3>1. m.to # l  BY DEF Lead, LeadInv, CallsOfLeader, OfLeader
    <3>2. binlog' = binlog \/ binlog' = [binlog EXCEPT ![m.to] = Truncate(@, m.prev - 1)]
      BY <2>1 DEF AppendEntries, AppendStale, AppendHeartBeat, AppendBeyond, AppendMismatch,
         AppendTooFast, AppendAccept
    <3> QED  BY <3>1, <3>2 DEF Lead, TypeOK, LogTypeOK
  <2> QED  BY <1>3, <2>1 DEF HeartBeatNext, BroadCastHeartBeat, HeartBeatCallBack
<1>4. CASE FollowerNext
  <2>1. ASSUME NEW f \in Server, NEW h \in appending[f], AppendWrite(f, h) \/ AppendFinish(f, h)
        PROVE  binlog'[l] = binlog[l]
    <3>1. f # l  BY CallAtWork
    <3> QED  BY <2>1, <3>1 DEF AppendWrite, AppendFinish, Lead, TypeOK, LogTypeOK
  <2> QED  BY <1>4, <2>1 DEF FollowerNext
<1>5. CASE ApplyNext
  <2>1. ASSUME NEW s \in Server, NEW r \in Request, NEW op \in ReqKinds, Submit(s, r, op)
        PROVE  s = l
    BY <2>1, LeaderIs DEF Submit, Lead
  <2>2. \A s \in Server, r \in Request :
           Put(s, r) \/ Delete(s, r) \/ Lock(s, r) \/ UnLock(s, r)
              => \E op \in ReqKinds : Submit(s, r, op)
    BY DEF Put, Delete, Lock, UnLock, ReqKinds
  <2>3. ASSUME NEW s \in Server, CommitBegin(s) \/ CommitStore(s) \/ CommitAck(s)
        PROVE  binlog' = binlog
    BY <2>3 DEF CommitBegin, CommitStore, CommitAck
  <2> QED  BY <1>5, <2>1, <2>2, <2>3 DEF ApplyNext
<1>6. CASE UNCHANGED vars  BY <1>6 DEF vars
<1> QED  BY <1>1, <1>2, <1>3, <1>4, <1>5, <1>6 DEF Next

\* What a client's call writes there.
LEMMA SubmitWrites ==
    ASSUME NEW l \in Server, NEW t \in Terms, Lead(l, t),
           NEW r \in Request, NEW op \in ReqKinds, Submit(l, r, op)
    PROVE  /\ binlog'[l].len = binlog[l].len + 1
           /\ \A i \in 1 .. binlog[l].len : binlog'[l].slot[i] = binlog[l].slot[i]
           /\ binlog'[l].slot[binlog[l].len + 1].req = r
<1> PICK e : e = [term |-> currentTerm[l], op |-> op, req |-> r]  OBVIOUS
<1>1. binlog'[l] = WriteEntryList(binlog[l], <<e>>)
  BY DEF Submit, WriteEntry, Lead, TypeOK, LogTypeOK
<1>2. <<e>> \in Seq(Entry) /\ Len(<<e>>) = 1 /\ <<e>>[1] = e /\ e.req = r
  <2>1. e \in Entry  BY DEF Entry, Lead, TypeOK, ElectionTypeOK
  <2> QED  BY <2>1
<1>3. binlog[l] \in BinLogs(Entry, Terms) /\ binlog[l].len = Len(binlog[l].slot)
  BY LogFacts DEF Lead, LeadInv, LogsOfLeader
<1>4. /\ WriteEntryList(binlog[l], <<e>>).len = binlog[l].len + Len(<<e>>)
      /\ \A i \in 1 .. binlog[l].len :
            WriteEntryList(binlog[l], <<e>>).slot[i] = binlog[l].slot[i]
      /\ \A i \in 1 .. Len(<<e>>) :
            WriteEntryList(binlog[l], <<e>>).slot[binlog[l].len + i] = <<e>>[i]
  BY <1>2, <1>3, WriteAtEnd, Zenon
<1>5. 1 \in 1 .. Len(<<e>>)  BY <1>2
<1>6. WriteEntryList(binlog[l], <<e>>).slot[binlog[l].len + 1] = <<e>>[1]
  BY <1>4, <1>5, Zenon
<1> QED  BY <1>1, <1>2, <1>4, <1>6

\* So the leader's log only grows.
LEMMA LeaderLogGrows ==
    ASSUME NodeAssumption, NEW l \in Server, NEW t \in Terms, Lead(l, t),
           Wins(l, t)', Steady', [Next]_vars
    PROVE  \A i \in 1 .. binlog[l].len : binlog'[l].slot[i] = binlog[l].slot[i]
<1>1. CASE binlog'[l] = binlog[l]  BY <1>1
<1>2. ASSUME NEW r \in Request, NEW op \in ReqKinds, Submit(l, r, op)
      PROVE  \A i \in 1 .. binlog[l].len : binlog'[l].slot[i] = binlog[l].slot[i]
  BY <1>2, SubmitWrites
<1> QED  BY <1>1, <1>2, LeaderLogSteps

\* Every log is a prefix of the leader's before and after a step, so that none
\* of its slots is written over.
LEMMA LeadKeepsApplied ==
    ASSUME NodeAssumption, TypeOK', NEW l \in Server, NEW t \in Terms, Lead(l, t),
           Wins(l, t)', Steady', LeadInv(l, t)', [Next]_vars
    PROVE  AppliedKept
<1> SUFFICES ASSUME NEW s \in Server, NEW i \in 0 .. Len(binlog[s].slot) - 1
             PROVE  binlog'[s].slot[i + 1] = binlog[s].slot[i + 1]
  BY DEF AppliedKept, StoredSlots, ReadSlot
<1> PICK a, b : a = binlog[s] /\ b = binlog'[s]  OBVIOUS
<1> PICK c, d : c = binlog[l] /\ d = binlog'[l]  OBVIOUS
<1>1. /\ a.len = Len(a.slot) /\ a.len <= c.len
      /\ \A j \in 1 .. a.len : a.slot[j] = c.slot[j]
  BY DEF Lead, LeadInv, LogsOfLeader
<1>2. b.len = Len(b.slot) /\ \A j \in 1 .. b.len : b.slot[j] = d.slot[j]
  BY DEF LeadInv, LogsOfLeader
<1>3. Len(b.slot) >= Len(a.slot)
  <2>1. SlotsKept(s)  BY StepKeepsSlots DEF Lead
  <2> QED  BY <2>1 DEF SlotsKept
<1>4. a.len \in Nat /\ b.len \in Nat /\ c.len \in Nat
  BY DEF Lead, TypeOK, LogTypeOK, BinLogs
<1>5. i + 1 \in 1 .. a.len /\ i + 1 \in 1 .. b.len /\ i + 1 \in 1 .. c.len
  BY <1>1, <1>2, <1>3, <1>4
<1>6. d.slot[i + 1] = c.slot[i + 1]  BY <1>5, LeaderLogGrows
<1> QED  BY <1>1, <1>2, <1>5, <1>6

LEMMA StepKeepsApplied ==
    ASSUME NodeAssumption, TypeOK, NoBadSlot, ElectionInv, SteadyInv, TypeOK', Steady', [Next]_vars
    PROVE  Steady /\ AppliedKept
<1>1. Steady /\ \A s \in Server : \A t \in Terms : Wins(s, t) => Wins(s, t)'
  BY SteadyBefore
<1>2. CASE NothingYet
  <2>1. \A s \in Server : Len(binlog[s].slot) = 0  BY <1>2 DEF NothingYet
  <2> QED  BY <1>1, <2>1 DEF AppliedKept, StoredSlots
<1>3. ASSUME NEW l \in Server, NEW t \in Terms, Wins(l, t), LeadInv(l, t)
      PROVE  AppliedKept
  <2>1. Lead(l, t) /\ Wins(l, t)'  BY <1>1, <1>3 DEF Lead, SteadyInv
  <2>2. LeadInv(l, t)'  BY <2>1, StepLead
  <2> QED  BY <2>1, <2>2, LeadKeepsApplied
<1> QED  BY <1>1, <1>2, <1>3 DEF SteadyInv

\* As long as the cluster is steady no step writes over an entry that is in a
\* database: Truncate and the writes of AppendEntriesImpl come above it.
THEOREM SteadyAppliedStays == Spec /\ []Steady => AppliedStays
<1> DEFINE Inv == TypeOK /\ NoBadSlot /\ ElectionInv /\ SteadyInv
<1>1. Inv /\ Inv' /\ Steady' /\ [Next]_vars => [AppliedKept]_vars
  <2> SUFFICES ASSUME Inv, Inv', Steady', [Next]_vars PROVE AppliedKept  OBVIOUS
  <2> QED  BY StepKeepsApplied, NodeAssumption
<1>2. Spec => []Inv  BY SteadyInvariant
<1> HIDE DEF Inv
<1> QED  BY <1>1, <1>2, PTL DEF Spec, AppliedStays

\* As long as the cluster is steady, every database is what the log of its node
\* makes it.
THEOREM SteadyStoreIsLog == Spec => [](Steady => StoreIsLog)
<1> DEFINE Inv == TypeOK /\ NoBadSlot /\ ElectionInv /\ SteadyInv
           Stored == Steady => StoreInv
<1>1. Init => Stored  BY InitStore
<1>2. Inv /\ Inv' /\ Stored /\ [Next]_vars => Stored'
  <2> SUFFICES ASSUME Inv, Inv', Stored, [Next]_vars, Steady'
               PROVE  StoreInv'
    OBVIOUS
  <2>1. Steady /\ AppliedKept  BY StepKeepsApplied, NodeAssumption
  <2>2. StoreInv  BY <2>1
  <2>3. [Next \/ \E s \in Server : Crash(s)]_vars  OBVIOUS
  <2> QED  BY <2>1, <2>2, <2>3, StepStore, NodeAssumption
<1>3. Inv /\ Stored => (Steady => StoreIsLog)  BY StoreInvShows
<1>4. Spec => []Inv  BY SteadyInvariant
<1> HIDE DEF Inv, Stored
<1> QED  BY <1>1, <1>2, <1>3, <1>4, PTL DEF Spec

-----------------------------------------------------------------------------
\* When a cluster is steady for good.

\* A term has one winner at most, also after it stepped down.
LEMMA OneWinner ==
    ASSUME NodeAssumption, TypeOK, ElectionInv, NEW s \in Server, NEW u \in Server,
           NEW t \in Terms, Wins(s, t), Wins(u, t)
    PROVE  s = u
<1>1. IsFiniteSet(Server) /\ Cardinality(Server) \in Nat
  BY FS_CardinalityType DEF NodeAssumption
<1>2. ASSUME NEW v \in Server, Wins(v, t)
      PROVE  /\ Voters(v, t) \subseteq Server /\ Cardinality(Voters(v, t)) \in Nat
             /\ 2 * Cardinality(Voters(v, t)) > Cardinality(Server)
  <2>1. votePass[v][t] > Cardinality(Server) \div 2  BY <1>2 DEF Wins, EnoughVotes
  <2>2. votePass[v][t] \in Nat  BY DEF TypeOK, ElectionTypeOK
  <2>3. votePass[v][t] <= Cardinality(Counted(v, t))  BY DEF ElectionInv, VotesInv
  <2>4. /\ Cardinality(Counted(v, t)) \in Nat /\ Cardinality(Voters(v, t)) \in Nat
        /\ Cardinality(Counted(v, t)) <= Cardinality(Voters(v, t))
    BY VotersFinite
  <2>5. Cardinality(Voters(v, t)) > Cardinality(Server) \div 2
    BY <1>1, <2>1, <2>2, <2>3, <2>4
  <2>6. 2 * Cardinality(Voters(v, t)) > Cardinality(Server)  BY <1>1, <2>4, <2>5
  <2> QED  BY <2>4, <2>6 DEF Voters
<1> PICK S, U : S = Voters(s, t) /\ U = Voters(u, t)  OBVIOUS
<1>3. /\ S \subseteq Server /\ Cardinality(S) \in Nat /\ 2 * Cardinality(S) > Cardinality(Server)
      /\ U \subseteq Server /\ Cardinality(U) \in Nat /\ 2 * Cardinality(U) > Cardinality(Server)
  BY <1>2
<1>4. Cardinality(S) + Cardinality(U) > Cardinality(Server)  BY <1>1, <1>3
<1>5. S \cap U # {}  BY <1>1, <1>3, <1>4, FS_MajoritiesIntersect
<1> QED  BY <1>5 DEF Voters

\* With one term to elect in, and no call given up, the cluster stays steady:
\* two majorities of one term share a voter, and nobody wins in term 0.
THEOREM OneTermSteady == MaxTerm <= 1 /\ MaxFails = 0 => (Spec => []Steady)
<1> SUFFICES ASSUME MaxTerm <= 1, MaxFails = 0
             PROVE  Spec => []Steady
  OBVIOUS
<1>1. ASSUME TypeOK, ElectionInv, CandidateInv
      PROVE  Steady
  <2>1. fails = 0  BY <1>1 DEF TypeOK, ApplyTypeOK
  <2>2. \A t \in Terms : t = 0 \/ t = 1  BY NodeAssumption DEF NodeAssumption, Terms
  <2>3. \A s \in Server : ~Wins(s, 0)
    <3>1. Cardinality(Server) \in Nat
      BY NodeAssumption, FS_CardinalityType DEF NodeAssumption
    <3>2. \A s \in Server : votePass[s][0] = 0  BY <1>1 DEF CandidateInv
    <3>3. ~(0 > Cardinality(Server) \div 2)  BY <3>1
    <3> QED  BY <3>2, <3>3 DEF Wins, EnoughVotes
  <2>4. ASSUME NEW s \in Server, NEW u \in Server, NEW t \in Terms, NEW w \in Terms,
               Wins(s, t), Wins(u, w)
        PROVE  s = u /\ t = w
    <3>1. t = 1 /\ w = 1  BY <2>2, <2>3, <2>4
    <3> QED  BY <1>1, <2>4, <3>1, OneWinner, NodeAssumption
  <2> QED  BY <2>1, <2>4 DEF Steady
<1>2. TypeOK /\ NoBadSlot /\ ElectionInv /\ SteadyInv => Steady  BY <1>1 DEF SteadyInv
<1> QED  BY <1>2, SteadyInvariant, PTL

\* So the cluster of one term implements StateMachine, for any number of members
\* and clients' calls.
COROLLARY OneTermRefines == MaxTerm <= 1 /\ MaxFails = 0 => (Spec => RefinesStateMachine)
BY OneTermSteady, SteadyRefinesStateMachine, PTL

\* And it has every property of a correct replica set: one log, agreed commits,
\* no answered write on a minority, databases that follow the logs, and nothing
\* applied that is written over.
COROLLARY OneTermCorrect ==
    MaxTerm <= 1 /\ MaxFails = 0 =>
        (Spec => /\ [](FollowsLeader /\ CommittedAgree /\ AnsweredKept /\ StoreIsLog)
                 /\ AppliedStays)
BY OneTermSteady, SteadyFollowsLeader, SteadyCommittedAgree, SteadyAnsweredKept,
   SteadyStoreIsLog, SteadyAppliedStays, PTL
=============================================================================

------------------------- MODULE AirDBElectionProof -------------------------
(***************************************************************************)
(* Two leaders never have the same term, for any number of servers and     *)
(* terms, as long as no node restarts.                                     *)
(*                                                                         *)
(* The argument: the votes that vote_pass_ counts for a candidate are as   *)
(* many as the voters whose answer it has used up (VotesInv), no voter     *)
(* votes for two candidates of a term (vote_for_ is set once), and two     *)
(* sets of more than half of the members meet.  VotesInv is kept because   *)
(* an answer is used once and belongs to one call (VoteCallsInv), and      *)
(* because nothing of a term exists before its candidate (TermsInv).       *)
(***************************************************************************)
EXTENDS AirDBTypeProof, FiniteSetTheorems

\* The voters and the counted voters of a candidate are finitely many.
LEMMA VotersFinite ==
    ASSUME NodeAssumption, NEW s, NEW t
    PROVE  /\ IsFiniteSet(Voters(s, t)) /\ IsFiniteSet(Counted(s, t))
           /\ Cardinality(Voters(s, t)) \in Nat /\ Cardinality(Counted(s, t)) \in Nat
           /\ Cardinality(Counted(s, t)) <= Cardinality(Voters(s, t))
<1>1. IsFiniteSet(Server)  BY DEF NodeAssumption
<1>2. Voters(s, t) \subseteq Server /\ Counted(s, t) \subseteq Voters(s, t)
  BY DEF Voters, Counted
<1>3. IsFiniteSet(Voters(s, t))  BY <1>1, <1>2, FS_Subset
<1>4. /\ IsFiniteSet(Counted(s, t))
      /\ Cardinality(Counted(s, t)) <= Cardinality(Voters(s, t))
  BY <1>2, <1>3, FS_Subset
<1> QED  BY <1>3, <1>4, FS_CardinalityType

\* A count is still covered when the counted voters only became more.
LEMMA MoreCounted ==
    ASSUME NodeAssumption, TypeOK, NEW s \in Server, NEW t \in Terms,
           votePass[s][t] <= Cardinality(Counted(s, t)),
           Counted(s, t) \subseteq Counted(s, t)',
           votePass'[s][t] = votePass[s][t]
    PROVE  votePass'[s][t] <= Cardinality(Counted(s, t)')
<1>1. IsFiniteSet(Counted(s, t)')
  <2>1. Counted(s, t)' \subseteq Server  BY DEF Counted, Voters
  <2> QED  BY <2>1, FS_Subset DEF NodeAssumption
<1>2. Cardinality(Counted(s, t)) <= Cardinality(Counted(s, t)')
  BY <1>1, FS_Subset
<1>3. Cardinality(Counted(s, t)) \in Nat /\ Cardinality(Counted(s, t)') \in Nat
  BY <1>1, VotersFinite, FS_CardinalityType
<1>4. votePass[s][t] \in Nat  BY DEF TypeOK, ElectionTypeOK
<1> QED  BY <1>2, <1>3, <1>4

\* A step that neither votes nor counts, though it may drop an answer: terms do
\* not go back, and nobody becomes leader or changes term as one.  All of replication is of this kind.
LEMMA NoVoteStep ==
    ASSUME NodeAssumption, TypeOK, TypeOK', ElectionInv,
           UNCHANGED <<voteFor, votePass, voteReq>>, voteRes' \subseteq voteRes,
           \A s \in Server : currentTerm'[s] >= currentTerm[s],
           \A s \in Server : status'[s] = "Leader" =>
               status[s] = "Leader" /\ currentTerm'[s] = currentTerm[s]
    PROVE  ElectionInv'
<1>1. TermsInv'
  <2>1. \A s \in Server : currentTerm[s] \in Int /\ currentTerm'[s] \in Int
    BY DEF TypeOK, ElectionTypeOK, Terms, NodeAssumption
  <2>2. \A s \in Server : \A t \in Terms : t > currentTerm'[s] => t > currentTerm[s]
    BY <2>1 DEF Terms, NodeAssumption
  <2> QED  BY <2>2 DEF ElectionInv, TermsInv
<1>2. VoteCallsInv'  BY DEF ElectionInv, VoteCallsInv
<1>3. VotesInv'
  <2> SUFFICES ASSUME NEW s \in Server, NEW t \in Terms
               PROVE  votePass'[s][t] <= Cardinality(Counted(s, t)')
    BY DEF VotesInv
  <2>1. Counted(s, t) \subseteq Counted(s, t)'  BY DEF Counted, Voters, Pending
  <2> QED  BY <2>1, MoreCounted DEF ElectionInv, VotesInv
<1>4. LeaderInv'  BY DEF ElectionInv, LeaderInv, EnoughVotes
<1> QED  BY <1>1, <1>2, <1>3, <1>4 DEF ElectionInv

-----------------------------------------------------------------------------
\* The three steps that vote.

\* A candidate starts a term: its own vote is the only one counted in it.
LEMMA VoteLeaderElection ==
    ASSUME NodeAssumption, TypeOK, TypeOK', ElectionInv, NEW s \in Server, VoteLeader(s)
    PROVE  ElectionInv'
<1> PICK t \in Terms : t = currentTerm[s] + 1
  BY DEF VoteLeader, TypeOK, ElectionTypeOK, Terms, NodeAssumption
<1> DEFINE call(f) == [from |-> s, to |-> f, term |-> t, rpc |-> TRUE,
                       lastIndex |-> LastLogIndex(binlog[s]),
                       lastTerm |-> LastLogTerm(binlog[s])]
<1>1. /\ currentTerm[s] \in Int
      /\ currentTerm' = [currentTerm EXCEPT ![s] = t]
      /\ status' = [status EXCEPT ![s] = "Candidate"]
      /\ voteFor' = [voteFor EXCEPT ![s][t] = s]
      /\ votePass' = [votePass EXCEPT ![s][t] = votePass[s][t] + 1]
      /\ voteReq' = voteReq \cup {call(f) : f \in Server \ {s}}
      /\ voteRes' = voteRes
  BY DEF VoteLeader, TypeOK, ElectionTypeOK, Terms, NodeAssumption
<1>2. \A u \in Server : currentTerm[u] \in Int /\ currentTerm'[u] \in Int
                          /\ currentTerm'[u] >= currentTerm[u]
  BY <1>1 DEF TypeOK, ElectionTypeOK, Terms, NodeAssumption
<1>3. /\ voteFor[s][t] = Nil /\ votePass[s][t] = 0
      /\ \A m \in voteReq : m.from = s => m.term # t
      /\ \A m \in voteRes : m.to = s /\ m.pass => m.term # t
  <2>1. t > currentTerm[s]  BY <1>1
  <2> QED  BY <1>1, <2>1 DEF ElectionInv, TermsInv
<1>4. /\ \A f : call(f).from = s /\ call(f).to = f /\ call(f).term = t
      /\ \A n \in voteReq' : \/ n \in voteReq
                             \/ n = call(n.to) /\ n.from = s /\ n.to # s /\ n.term = t
  <2>1. \A f : call(f).from = s /\ call(f).to = f /\ call(f).term = t  OBVIOUS
  <2> HIDE DEF call
  <2> QED  BY <1>1, <2>1
<1> HIDE DEF call
<1>5. \A u \in Server, x \in Terms :
         /\ ~(u = s /\ x = t) => voteFor'[u][x] = voteFor[u][x] /\ votePass'[u][x] = votePass[u][x]
         /\ x > currentTerm'[u] => x > currentTerm[u] /\ ~(u = s /\ x = t)
  <2> TAKE u \in Server, x \in Terms
  <2>1. ~(u = s /\ x = t) => voteFor'[u][x] = voteFor[u][x] /\ votePass'[u][x] = votePass[u][x]
    BY <1>1 DEF TypeOK, ElectionTypeOK
  <2>2. x \in Int /\ currentTerm'[s] = t
    BY <1>1 DEF TypeOK, ElectionTypeOK, Terms, NodeAssumption
  <2>3. x > currentTerm'[u] => x > currentTerm[u] /\ ~(u = s /\ x = t)
    BY <1>2, <2>2
  <2> QED  BY <2>1, <2>3
<1>6. TermsInv'
  <2> SUFFICES ASSUME NEW u \in Server, NEW x \in Terms, x > currentTerm'[u]
               PROVE  /\ voteFor'[u][x] = Nil /\ votePass'[u][x] = 0
                      /\ \A m \in voteReq' : m.from = u => m.term # x
                      /\ \A m \in voteRes' : m.to = u /\ m.pass => m.term # x
    BY DEF TermsInv
  <2>1. x > currentTerm[u] /\ ~(u = s /\ x = t)  BY <1>5
  <2> QED  BY <1>1, <1>4, <1>5, <2>1 DEF ElectionInv, TermsInv
<1>7. VoteCallsInv'
  <2>1. \A m, n \in voteReq' : m.from = n.from /\ m.to = n.to /\ m.term = n.term => m = n
    <3> SUFFICES ASSUME NEW m \in voteReq', NEW n \in voteReq',
                        m.from = n.from, m.to = n.to, m.term = n.term
                 PROVE  m = n
      OBVIOUS
    <3>1. CASE m \in voteReq /\ n \in voteReq  BY <3>1 DEF ElectionInv, VoteCallsInv
    <3>2. CASE ~(m \in voteReq /\ n \in voteReq)
      <4>1. m.from = s /\ m.term = t /\ n.from = s /\ n.term = t  BY <1>4, <3>2
      <4>2. m \notin voteReq /\ n \notin voteReq  BY <1>3, <4>1
      <4> QED  BY <1>4, <4>2
    <3> QED  BY <3>1, <3>2
  <2>2. \A m \in voteRes' : m.pass => voteFor'[m.from][m.term] = m.to
    <3> SUFFICES ASSUME NEW m \in voteRes, m.pass
                 PROVE  voteFor'[m.from][m.term] = m.to
      BY <1>1
    <3>1. voteFor[m.from][m.term] = m.to /\ m.from \in Server /\ m.term \in Terms
            /\ m.to \in Server
      BY DEF ElectionInv, VoteCallsInv, TypeOK, ElectionTypeOK, VoteResponse
    <3>2. ~(m.from = s /\ m.term = t)  BY <1>3, <3>1 DEF NodeAssumption
    <3> QED  BY <1>5, <3>1, <3>2
  <2>3. \A m \in voteRes' : m.pass =>
           \A n \in voteReq' : ~(n.from = m.to /\ n.to = m.from /\ n.term = m.term)
    <3> SUFFICES ASSUME NEW m \in voteRes, m.pass, NEW n \in voteReq',
                        n.from = m.to, n.to = m.from, n.term = m.term
                 PROVE  FALSE
      BY <1>1
    <3>1. n \notin voteReq  BY DEF ElectionInv, VoteCallsInv
    <3>2. m.to = s /\ m.term = t  BY <1>4, <3>1
    <3> QED  BY <1>3, <3>2
  <2> QED  BY <2>1, <2>2, <2>3 DEF VoteCallsInv
<1>8. VotesInv'
  <2> SUFFICES ASSUME NEW u \in Server, NEW x \in Terms
               PROVE  votePass'[u][x] <= Cardinality(Counted(u, x)')
    BY DEF VotesInv
  <2>1. CASE u = s /\ x = t
    <3>1. s \in Voters(s, t)'  BY <1>1 DEF Voters, TypeOK, ElectionTypeOK
    <3>2. s \notin Pending(s, t)'  BY <1>1, <1>3, <1>4 DEF Pending
    <3>3. {s} \subseteq Counted(s, t)'  BY <3>1, <3>2 DEF Counted
    <3>4. IsFiniteSet(Counted(s, t)')
      <4>1. Counted(s, t)' \subseteq Server  BY DEF Counted, Voters
      <4> QED  BY <4>1, FS_Subset DEF NodeAssumption
    <3>5. 1 <= Cardinality(Counted(s, t)')
      <4>1. Cardinality({s}) = 1  BY FS_Singleton
      <4>2. Cardinality({s}) <= Cardinality(Counted(s, t)')  BY <3>3, <3>4, FS_Subset
      <4> QED  BY <4>1, <4>2
    <3>6. votePass'[s][t] = 1  BY <1>1, <1>3 DEF TypeOK, ElectionTypeOK
    <3> QED  BY <2>1, <3>5, <3>6
  <2>2. CASE ~(u = s /\ x = t)
    <3>1. Voters(u, x) \subseteq Voters(u, x)'
      <4> SUFFICES ASSUME NEW v \in Server, voteFor[v][x] = u
                   PROVE  voteFor'[v][x] = u
        BY DEF Voters
      <4>1. ~(v = s /\ x = t)  BY <1>3 DEF NodeAssumption
      <4> QED  BY <1>5, <4>1
    <3>2. Pending(u, x)' \subseteq Pending(u, x)  BY <1>1, <1>4, <2>2 DEF Pending
    <3>3. Counted(u, x) \subseteq Counted(u, x)'  BY <3>1, <3>2 DEF Counted
    <3>4. votePass'[u][x] = votePass[u][x]  BY <1>5, <2>2
    <3> QED  BY <3>3, <3>4, MoreCounted DEF ElectionInv, VotesInv
  <2> QED  BY <2>1, <2>2
<1>9. LeaderInv'
  <2> SUFFICES ASSUME NEW u \in Server, status'[u] = "Leader"
               PROVE  EnoughVotes(votePass'[u][currentTerm'[u]])
    BY DEF LeaderInv, EnoughVotes
  <2>1. u # s /\ status[u] = "Leader" /\ currentTerm'[u] = currentTerm[u]
    BY <1>1 DEF TypeOK, ElectionTypeOK
  <2>2. votePass'[u][currentTerm[u]] = votePass[u][currentTerm[u]]
    BY <1>5, <2>1 DEF TypeOK, ElectionTypeOK
  <2> QED  BY <2>1, <2>2 DEF ElectionInv, LeaderInv, EnoughVotes
<1> QED  BY <1>6, <1>7, <1>8, <1>9 DEF ElectionInv

\* What Vote does, as far as the votes are concerned: a vote that is noted stays
\* as it is, a new one is for the caller and in the voter's term, and an answer
\* that says so goes to the caller.
LEMMA VoteEffect ==
    ASSUME NodeAssumption, TypeOK, TypeOK', NEW m \in voteReq, Vote(m)
    PROVE  /\ m.to \in Server /\ m.from \in Server /\ m.term \in Terms
           /\ votePass' = votePass /\ voteReq' = voteReq \ {m}
           /\ \A u \in Server : currentTerm'[u] >= currentTerm[u]
           /\ \A u \in Server : status'[u] = "Leader" =>
                 status[u] = "Leader" /\ currentTerm'[u] = currentTerm[u]
           /\ \A u \in Server, x \in Terms :
                 \/ voteFor'[u][x] = voteFor[u][x]
                 \/ u = m.to /\ x = m.term /\ currentTerm'[u] = x
           /\ \A u, w \in Server, x \in Terms : voteFor[u][x] = w => voteFor'[u][x] = w
           /\ \A r \in voteRes' : r.pass =>
                 \/ r \in voteRes
                 \/ /\ r.from = m.to /\ r.to = m.from /\ r.term = m.term
                    /\ voteFor'[m.to][m.term] = m.from
<1>1. m.to \in Server /\ m.from \in Server /\ m.term \in Terms
  BY DEF TypeOK, ElectionTypeOK, VoteRequest
<1>2. \A u \in Server : currentTerm[u] \in Int /\ currentTerm'[u] \in Int
  BY DEF TypeOK, ElectionTypeOK, Terms, NodeAssumption
<1>3. CASE VoteByLeader(m) \/ VoteRefused(m)
  <2>1. \A r \in voteRes' : r.pass => r \in voteRes
    BY <1>3 DEF VoteByLeader, VoteRefused, VoteAnswer
  <2>2. /\ voteReq' = voteReq \ {m} /\ votePass' = votePass
        /\ status' = status /\ currentTerm' = currentTerm /\ voteFor' = voteFor
    BY <1>3 DEF VoteByLeader, VoteRefused, VoteAnswer, electionVars
  <2> QED  BY <1>1, <1>2, <2>1, <2>2
<1>4. CASE VoteDecided(m)
  <2>1. /\ status[m.to] # "Leader" /\ m.term >= currentTerm[m.to]
        /\ status' \in {status, [status EXCEPT ![m.to] = "Follower"]}
        /\ currentTerm' = [currentTerm EXCEPT ![m.to] = m.term]
        /\ voteReq' = voteReq \ {m} /\ votePass' = votePass
    BY <1>4 DEF VoteDecided, VoteAnswer
  <2>2. \A u \in Server : currentTerm'[u] = IF u = m.to THEN m.term ELSE currentTerm[u]
    BY <1>1, <2>1 DEF TypeOK, ElectionTypeOK
  <2>3. \A u \in Server : currentTerm'[u] >= currentTerm[u]
    BY <1>2, <2>1, <2>2
  <2>4. \A u \in Server : status'[u] = "Leader" => u # m.to /\ status[u] = "Leader"
    BY <1>1, <2>1 DEF TypeOK, ElectionTypeOK
  <2>5. CASE MayVote(m)
    <3>1. voteFor' = [voteFor EXCEPT ![m.to][m.term] = m.from]
      BY <1>4, <2>5 DEF VoteDecided, RecordVote
    <3>2. \A u \in Server, x \in Terms :
             voteFor'[u][x] = IF u = m.to /\ x = m.term THEN m.from ELSE voteFor[u][x]
      BY <1>1, <3>1 DEF TypeOK, ElectionTypeOK
    <3>3. \A u, w \in Server, x \in Terms : voteFor[u][x] = w => voteFor'[u][x] = w
      BY <2>5, <3>2 DEF MayVote, NodeAssumption
    <3>4. \A r \in voteRes' : \/ r \in voteRes
                              \/ r.from = m.to /\ r.to = m.from /\ r.term = m.term
      BY <1>4 DEF VoteDecided, VoteAnswer
    <3>5. \A r \in voteRes' : r.pass =>
             \/ r \in voteRes
             \/ /\ r.from = m.to /\ r.to = m.from /\ r.term = m.term
                /\ voteFor'[m.to][m.term] = m.from
      BY <1>1, <3>2, <3>4
    <3> QED  BY <1>1, <2>1, <2>2, <2>3, <2>4, <3>2, <3>3, <3>5
  <2>6. CASE ~MayVote(m)
    <3>1. voteFor' = voteFor  BY <1>4, <2>6 DEF VoteDecided
    <3>2. \A r \in voteRes' : r.pass => r \in voteRes
      <4>1. MayVote(m) = FALSE  BY <2>6 DEF MayVote
      <4> QED  BY <1>4, <4>1 DEF VoteDecided, VoteAnswer
    <3> QED  BY <1>1, <2>1, <2>2, <2>3, <2>4, <3>1, <3>2
  <2> QED  BY <2>5, <2>6
<1> QED  BY <1>3, <1>4 DEF Vote

\* A Vote call is answered or dropped.  A vote that is given was free or the
\* candidate's already, and the candidate has yet to count it.
LEMMA VoteElection ==
    ASSUME NodeAssumption, TypeOK, TypeOK', ElectionInv, NEW m \in voteReq, Vote(m)
    PROVE  ElectionInv'
<1>1. m.to \in Server /\ m.from \in Server /\ m.term \in Terms
  BY VoteEffect
<1>2. \A u \in Server : currentTerm[u] \in Int /\ currentTerm'[u] \in Int
  BY DEF TypeOK, ElectionTypeOK, Terms, NodeAssumption
<1>3. \A u \in Server : currentTerm'[u] >= currentTerm[u]
  BY VoteEffect
<1>4. \A u \in Server : status'[u] = "Leader" =>
         status[u] = "Leader" /\ currentTerm'[u] = currentTerm[u]
  BY VoteEffect
<1>5. votePass' = votePass /\ voteReq' = voteReq \ {m}
  BY VoteEffect
<1>6. \A r \in voteRes' : r.pass =>
         \/ r \in voteRes
         \/ /\ r.from = m.to /\ r.to = m.from /\ r.term = m.term
            /\ voteFor'[m.to][m.term] = m.from
  BY VoteEffect
<1>7. \A u \in Server, x \in Terms :
         \/ voteFor'[u][x] = voteFor[u][x]
         \/ u = m.to /\ x = m.term /\ currentTerm'[u] = x
  BY VoteEffect
<1>8. \A u, w \in Server, x \in Terms : voteFor[u][x] = w => voteFor'[u][x] = w
  BY VoteEffect
<1>10. m.term <= currentTerm[m.from]
  BY <1>1, <1>2 DEF ElectionInv, TermsInv, Terms, NodeAssumption
<1>11. TermsInv'
  <2> SUFFICES ASSUME NEW u \in Server, NEW x \in Terms, x > currentTerm'[u]
               PROVE  /\ voteFor'[u][x] = Nil /\ votePass'[u][x] = 0
                      /\ \A n \in voteReq' : n.from = u => n.term # x
                      /\ \A r \in voteRes' : r.to = u /\ r.pass => r.term # x
    BY DEF TermsInv
  <2>1. x > currentTerm[u] /\ x \in Int  BY <1>2, <1>3 DEF Terms, NodeAssumption
  <2>2. currentTerm'[u] # x  BY <1>2, <2>1
  <2>3. voteFor'[u][x] = voteFor[u][x]  BY <1>7, <2>2
  <2>4. u = m.from => x # m.term  BY <1>2, <1>10, <2>1 DEF Terms, NodeAssumption
  <2> QED  BY <1>5, <1>6, <2>1, <2>3, <2>4 DEF ElectionInv, TermsInv
<1>12. VoteCallsInv'
  <2>1. \A p, n \in voteReq' : p.from = n.from /\ p.to = n.to /\ p.term = n.term => p = n
    BY <1>5 DEF ElectionInv, VoteCallsInv
  <2>2. \A r \in voteRes' : r.pass => voteFor'[r.from][r.term] = r.to
    <3> SUFFICES ASSUME NEW r \in voteRes', r.pass
                 PROVE  voteFor'[r.from][r.term] = r.to
      OBVIOUS
    <3>1. CASE r \in voteRes
      <4>1. /\ voteFor[r.from][r.term] = r.to
            /\ r.from \in Server /\ r.term \in Terms /\ r.to \in Server
        BY <3>1 DEF ElectionInv, VoteCallsInv, TypeOK, ElectionTypeOK, VoteResponse
      <4> QED  BY <1>8, <4>1
    <3>2. CASE r \notin voteRes  BY <1>6, <3>2
    <3> QED  BY <3>1, <3>2
  <2>3. \A r \in voteRes' : r.pass =>
           \A n \in voteReq' : ~(n.from = r.to /\ n.to = r.from /\ n.term = r.term)
    <3> SUFFICES ASSUME NEW r \in voteRes', r.pass, NEW n \in voteReq',
                        n.from = r.to, n.to = r.from, n.term = r.term
                 PROVE  FALSE
      OBVIOUS
    <3>1. CASE r \in voteRes  BY <1>5, <3>1 DEF ElectionInv, VoteCallsInv
    <3>2. CASE r \notin voteRes
      <4>1. n \in voteReq /\ n # m /\ n.from = m.from /\ n.to = m.to /\ n.term = m.term
        BY <1>5, <1>6, <3>2
      <4> QED  BY <4>1 DEF ElectionInv, VoteCallsInv
    <3> QED  BY <3>1, <3>2
  <2> QED  BY <2>1, <2>2, <2>3 DEF VoteCallsInv
<1>13. VotesInv'
  <2> SUFFICES ASSUME NEW u \in Server, NEW x \in Terms
               PROVE  votePass'[u][x] <= Cardinality(Counted(u, x)')
    BY DEF VotesInv
  <2>1. Voters(u, x) \subseteq Voters(u, x)'  BY <1>8 DEF Voters
  <2>2. Pending(u, x)' \subseteq Pending(u, x)
    <3> SUFFICES ASSUME NEW w \in Pending(u, x)'
                 PROVE  w \in Pending(u, x)
      OBVIOUS
    <3>1. w \in Server  BY DEF Pending
    <3>2. CASE \E n \in voteReq' : n.from = u /\ n.to = w /\ n.term = x
      BY <1>5, <3>1, <3>2 DEF Pending
    <3>3. CASE \E r \in voteRes' : r.from = w /\ r.to = u /\ r.term = x /\ r.pass
      <4>1. PICK r \in voteRes' : r.from = w /\ r.to = u /\ r.term = x /\ r.pass
        BY <3>3
      <4>2. CASE r \in voteRes  BY <3>1, <4>1, <4>2 DEF Pending
      <4>3. CASE r \notin voteRes
        <5>1. m.from = u /\ m.to = w /\ m.term = x  BY <1>6, <4>1, <4>3
        <5> QED  BY <3>1, <5>1 DEF Pending
      <4> QED  BY <4>2, <4>3
    <3> QED  BY <3>2, <3>3 DEF Pending
  <2>3. Counted(u, x) \subseteq Counted(u, x)'  BY <2>1, <2>2 DEF Counted
  <2> QED  BY <1>5, <2>3, MoreCounted DEF ElectionInv, VotesInv
<1>14. LeaderInv'  BY <1>4, <1>5 DEF ElectionInv, LeaderInv, EnoughVotes
<1> QED  BY <1>11, <1>12, <1>13, <1>14 DEF ElectionInv

\* An answer is used up.  A vote that is counted came from a node that was not
\* counted before, so the count and the counted voters grow together.
LEMMA VoteCountedElection ==
    ASSUME NodeAssumption, TypeOK, TypeOK', ElectionInv, NEW m \in voteRes,
           voteRes' = voteRes \ {m}, voteReq' = voteReq, VoteCounted(m)
    PROVE  ElectionInv'
<1> DEFINE v == m.from
           s == m.to
           t == m.term
<1>1. v \in Server /\ s \in Server /\ t \in Terms /\ m.pass = TRUE
  BY DEF TypeOK, ElectionTypeOK, VoteResponse, VoteCounted
<1>2. /\ currentTerm[s] = t /\ status[s] = "Candidate"
      /\ voteFor' = voteFor /\ currentTerm' = currentTerm
      /\ votePass' = [votePass EXCEPT ![s][t] = votePass[s][t] + 1]
  BY DEF VoteCounted, VoteOfTerm
<1>3. \/ EnoughVotes(votePass[s][t] + 1) /\ status' = [status EXCEPT ![s] = "Leader"]
      \/ status' = status
  BY <1>2 DEF VoteCounted
<1>4. votePass[s][t] \in Nat /\ votePass'[s][t] = votePass[s][t] + 1
  BY <1>1, <1>2 DEF TypeOK, ElectionTypeOK
<1>5. \A u \in Server, x \in Terms : ~(u = s /\ x = t) => votePass'[u][x] = votePass[u][x]
  BY <1>1, <1>2 DEF TypeOK, ElectionTypeOK
<1>6. \A u \in Server : currentTerm[u] \in Int
  BY DEF TypeOK, ElectionTypeOK, Terms, NodeAssumption
<1>7. TermsInv'
  <2> SUFFICES ASSUME NEW u \in Server, NEW x \in Terms, x > currentTerm[u]
               PROVE  /\ voteFor'[u][x] = Nil /\ votePass'[u][x] = 0
                      /\ \A n \in voteReq' : n.from = u => n.term # x
                      /\ \A r \in voteRes' : r.to = u /\ r.pass => r.term # x
    BY <1>2 DEF TermsInv
  <2>1. ~(u = s /\ x = t)  BY <1>2, <1>6 DEF Terms, NodeAssumption
  <2>2. votePass'[u][x] = votePass[u][x]  BY <1>5, <2>1
  <2> QED  BY <1>2, <2>2 DEF ElectionInv, TermsInv
<1>8. VoteCallsInv'  BY <1>2 DEF ElectionInv, VoteCallsInv
<1>9. VotesInv'
  <2> SUFFICES ASSUME NEW u \in Server, NEW x \in Terms
               PROVE  votePass'[u][x] <= Cardinality(Counted(u, x)')
    BY DEF VotesInv
  <2>1. Counted(u, x) \subseteq Counted(u, x)'
    BY <1>2 DEF Counted, Voters, Pending
  <2>2. CASE u = s /\ x = t
    <3>1. v \in Voters(s, t)  BY <1>1 DEF Voters, ElectionInv, VoteCallsInv
    <3>2. v \in Pending(s, t)  BY <1>1 DEF Pending
    <3>3. v \notin Pending(s, t)'
      <4>1. \A n \in voteReq : ~(n.from = s /\ n.to = v /\ n.term = t)
        BY <1>1 DEF ElectionInv, VoteCallsInv
      <4>2. \A r \in voteRes : r.from = v /\ r.to = s /\ r.term = t /\ r.pass => r = m
        <5>1. \A r \in VoteResponse :
                 r = [from |-> r.from, to |-> r.to, term |-> r.term, pass |-> r.pass]
                 /\ r.pass \in BOOLEAN
          BY DEF VoteResponse
        <5>2. voteRes \subseteq VoteResponse  BY DEF TypeOK, ElectionTypeOK
        <5>3. m = [from |-> v, to |-> s, term |-> t, pass |-> TRUE]  BY <1>1, <5>1, <5>2
        <5>4. \A r \in voteRes : r.pass => r.pass = TRUE  BY <5>1, <5>2
        <5> QED  BY <5>1, <5>2, <5>3, <5>4
      <4> QED  BY <4>1, <4>2, <1>2 DEF Pending
    <3>4. v \in Counted(s, t)' /\ v \notin Counted(s, t)
      BY <1>2, <3>1, <3>2, <3>3 DEF Counted, Voters
    <3>5. IsFiniteSet(Counted(s, t)')
      <4>1. Counted(s, t)' \subseteq Server  BY DEF Counted, Voters
      <4> QED  BY <4>1, FS_Subset DEF NodeAssumption
    <3>6. Cardinality(Counted(s, t) \cup {v}) <= Cardinality(Counted(s, t)')
      BY <2>1, <2>2, <3>4, <3>5, FS_Subset
    <3>7. Cardinality(Counted(s, t) \cup {v}) = Cardinality(Counted(s, t)) + 1
      BY <3>4, VotersFinite, FS_AddElement
    <3>8. votePass[s][t] <= Cardinality(Counted(s, t))
      BY <1>1 DEF ElectionInv, VotesInv
    <3>9. Cardinality(Counted(s, t)) \in Nat /\ Cardinality(Counted(s, t)') \in Nat
      BY <3>5, VotersFinite, FS_CardinalityType
    <3> QED  BY <1>4, <2>2, <3>6, <3>7, <3>8, <3>9
  <2>3. CASE ~(u = s /\ x = t)
    BY <1>5, <2>1, <2>3, MoreCounted DEF ElectionInv, VotesInv
  <2> QED  BY <2>2, <2>3
<1>10. LeaderInv'
  <2> SUFFICES ASSUME NEW u \in Server, status'[u] = "Leader"
               PROVE  EnoughVotes(votePass'[u][currentTerm[u]])
    BY <1>2 DEF LeaderInv, EnoughVotes
  <2>1. CASE u = s
    <3>1. EnoughVotes(votePass[s][t] + 1)  BY <1>2, <1>3, <2>1
    <3> QED  BY <1>2, <1>4, <2>1, <3>1
  <2>2. CASE u # s
    <3>1. status[u] = "Leader"  BY <1>1, <1>3, <2>2 DEF TypeOK, ElectionTypeOK
    <3>2. votePass'[u][currentTerm[u]] = votePass[u][currentTerm[u]]
      BY <1>5, <2>2 DEF TypeOK, ElectionTypeOK
    <3> QED  BY <3>1, <3>2 DEF ElectionInv, LeaderInv
  <2> QED  BY <2>1, <2>2
<1> QED  BY <1>7, <1>8, <1>9, <1>10 DEF ElectionInv

LEMMA VoteCallBackElection ==
    ASSUME NodeAssumption, TypeOK, TypeOK', ElectionInv, NEW m \in voteRes, VoteCallBack(m)
    PROVE  ElectionInv'
<1>1. m.to \in Server  BY DEF TypeOK, ElectionTypeOK, VoteResponse
<1>2. voteRes' = voteRes \ {m} /\ voteReq' = voteReq  BY DEF VoteCallBack
<1>3. CASE VoteCounted(m)  BY <1>2, <1>3, VoteCountedElection
<1>4. CASE VoteNewerTerm(m)
  <2>1. /\ m.term > currentTerm[m.to] /\ voteFor' = voteFor /\ votePass' = votePass
        /\ status' = [status EXCEPT ![m.to] = "Follower"]
        /\ currentTerm' = [currentTerm EXCEPT ![m.to] = m.term]
    BY <1>4 DEF VoteNewerTerm
  <2>2. \A u \in Server : currentTerm'[u] >= currentTerm[u]
    BY <1>1, <2>1 DEF TypeOK, ElectionTypeOK, Terms, NodeAssumption
  <2>3. \A u \in Server : status'[u] = "Leader" =>
           status[u] = "Leader" /\ currentTerm'[u] = currentTerm[u]
    BY <1>1, <2>1 DEF TypeOK, ElectionTypeOK
  <2> QED  BY <1>2, <2>1, <2>2, <2>3, NoVoteStep
<1>5. CASE VoteIgnored(m)
  <2>1. UNCHANGED <<status, currentTerm, voteFor, votePass>>
    BY <1>5 DEF VoteIgnored, electionVars
  <2>2. \A u \in Server : currentTerm'[u] >= currentTerm[u]
    BY <2>1 DEF TypeOK, ElectionTypeOK, Terms, NodeAssumption
  <2> QED  BY <1>2, <2>1, <2>2, NoVoteStep
<1> QED  BY <1>3, <1>4, <1>5 DEF VoteCallBack

-----------------------------------------------------------------------------
\* The steps that do not vote.

\* A newer term is taken over, and the node is a follower of it.
LEMMA TermTaken ==
    ASSUME NodeAssumption, TypeOK, NEW s \in Server, NEW t \in Int, t >= currentTerm[s],
           status' = [status EXCEPT ![s] = "Follower"],
           currentTerm' = [currentTerm EXCEPT ![s] = t]
    PROVE  /\ \A u \in Server : currentTerm'[u] >= currentTerm[u]
           /\ \A u \in Server : status'[u] = "Leader" =>
                 status[u] = "Leader" /\ currentTerm'[u] = currentTerm[u]
BY DEF TypeOK, ElectionTypeOK, Terms, NodeAssumption

LEMMA TermKept ==
    ASSUME NodeAssumption, TypeOK, TypeOK', ElectionInv,
           UNCHANGED <<status, currentTerm, voteFor, votePass, voteReq, voteRes>>
    PROVE  ElectionInv'
<1>1. \A s \in Server : currentTerm'[s] >= currentTerm[s]
  BY DEF TypeOK, ElectionTypeOK, Terms, NodeAssumption
<1> QED  BY <1>1, NoVoteStep

LEMMA ReplicateAnswerElection ==
    ASSUME NodeAssumption, TypeOK, TypeOK', ElectionInv,
           NEW s \in Server, NEW f \in Server, ReplicateAnswer(s, f)
    PROVE  ElectionInv'
<1>1. UNCHANGED <<voteFor, votePass, voteReq, voteRes>>
  BY DEF ReplicateAnswer, voteNet
<1>2. PICK m \in appendRes : \/ ReplicateNewerTerm(s, f, m)
                             \/ ReplicateNotLeader(s, f, m)
                             \/ ReplicateSuccess(s, f, m)
                             \/ ReplicateBusy(s, f, m)
                             \/ ReplicateBackoff(s, f, m)
  BY DEF ReplicateAnswer
<1>3. CASE ReplicateNewerTerm(s, f, m)
  <2>1. m.term \in Int /\ currentTerm[s] \in Int
    BY DEF TypeOK, ElectionTypeOK, ReplicationTypeOK, AppendResponse, Terms, NodeAssumption
  <2>2. /\ m.term >= currentTerm[s]
        /\ status' = [status EXCEPT ![s] = "Follower"]
        /\ currentTerm' = [currentTerm EXCEPT ![s] = m.term]
    BY <1>3, <2>1 DEF ReplicateNewerTerm
  <2> QED  BY <1>1, <2>1, <2>2, TermTaken, NoVoteStep
<1>4. CASE ~ReplicateNewerTerm(s, f, m)
  <2>1. UNCHANGED <<status, currentTerm>>
    BY <1>2, <1>4 DEF ReplicateNotLeader, ReplicateSuccess, ReplicateBusy, ReplicateBackoff
  <2> QED  BY <1>1, <2>1, TermKept
<1> QED  BY <1>3, <1>4

LEMMA HeartBeatCallBackElection ==
    ASSUME NodeAssumption, TypeOK, TypeOK', ElectionInv,
           NEW m \in beatRes, HeartBeatCallBack(m)
    PROVE  ElectionInv'
<1>1. UNCHANGED <<voteFor, votePass, voteReq, voteRes>>
  BY DEF HeartBeatCallBack, voteNet
<1>2. m.to \in Server /\ m.term \in Int /\ currentTerm[m.to] \in Int
  <2>1. m \in BeatResponse  BY DEF TypeOK, ReplicationTypeOK
  <2>2. m.to \in Server /\ m.term \in Terms  BY <2>1 DEF BeatResponse
  <2> QED  BY <2>2 DEF TypeOK, ElectionTypeOK, Terms, NodeAssumption
<1>3. CASE UNCHANGED <<status, currentTerm>>  BY <1>1, <1>3, TermKept
<1>4. CASE /\ m.term > currentTerm[m.to]
           /\ status' = [status EXCEPT ![m.to] = "Follower"]
           /\ currentTerm' = [currentTerm EXCEPT ![m.to] = m.term]
  <2>1. m.term >= currentTerm[m.to]  BY <1>2, <1>4
  <2> QED  BY <1>1, <1>2, <1>4, <2>1, TermTaken, NoVoteStep
<1> QED  BY <1>3, <1>4 DEF HeartBeatCallBack

LEMMA AppendEntriesElection ==
    ASSUME NodeAssumption, TypeOK, TypeOK', ElectionInv,
           NEW m \in appendReq, AppendEntries(m)
    PROVE  ElectionInv'
<1>1. m.to \in Server /\ m.term \in Int
  <2>1. m \in AppendRequest  BY DEF TypeOK, ReplicationTypeOK
  <2>2. m.to \in Server /\ m.term \in Terms  BY <2>1 DEF AppendRequest
  <2> QED  BY <2>2 DEF Terms, NodeAssumption
<1>2. voteReq' = voteReq /\ voteRes' = voteRes  BY DEF AppendEntries, voteNet
<1>3. CASE AppendStale(m)
  <2>1. UNCHANGED <<status, currentTerm, voteFor, votePass>>
    BY <1>3 DEF AppendStale, electionVars
  <2> QED  BY <1>2, <2>1, TermKept
<1>4. CASE Follow(m)
  <2>1. /\ m.term >= currentTerm[m.to] /\ voteFor' = voteFor /\ votePass' = votePass
        /\ status' = [status EXCEPT ![m.to] = "Follower"]
        /\ currentTerm' = [currentTerm EXCEPT ![m.to] = m.term]
    BY <1>4 DEF Follow
  <2> QED  BY <1>1, <1>2, <2>1, TermTaken, NoVoteStep
<1> QED
  BY <1>3, <1>4 DEF AppendEntries, AppendHeartBeat, AppendBeyond, AppendMismatch,
     AppendTooFast, AppendAccept

LEMMA LeaderElection ==
    ASSUME NodeAssumption, TypeOK, TypeOK', ElectionInv, LeaderNext
    PROVE  ElectionInv'
<1>1. ASSUME NEW s \in Server, NEW f \in Server,
             ReplicateStop(s, f) \/ ReplicateBuild(s, f) \/ ReplicateSend(s, f)
                \/ ReplicateFail(s, f)
      PROVE  ElectionInv'
  <2>1. UNCHANGED <<status, currentTerm, voteFor, votePass, voteReq, voteRes>>
    BY <1>1 DEF ReplicateStop, ReplicateBuild, ReplicateSend, ReplicateFail, electionVars,
       voteNet
  <2> QED  BY <2>1, TermKept
<1> QED  BY <1>1, ReplicateAnswerElection DEF LeaderNext

LEMMA HeartBeatElection ==
    ASSUME NodeAssumption, TypeOK, TypeOK', ElectionInv, HeartBeatNext
    PROVE  ElectionInv'
<1>1. ASSUME NEW s \in Server, BroadCastHeartBeat(s)
      PROVE  ElectionInv'
  <2>1. UNCHANGED <<status, currentTerm, voteFor, votePass, voteReq, voteRes>>
    BY <1>1 DEF BroadCastHeartBeat, electionVars, voteNet
  <2> QED  BY <2>1, TermKept
<1> QED  BY <1>1, AppendEntriesElection, HeartBeatCallBackElection DEF HeartBeatNext

LEMMA FollowerElection ==
    ASSUME NodeAssumption, TypeOK, TypeOK', ElectionInv, FollowerNext
    PROVE  ElectionInv'
<1>1. ASSUME NEW s \in Server, NEW h \in appending[s], AppendWrite(s, h) \/ AppendFinish(s, h)
      PROVE  ElectionInv'
  <2>1. UNCHANGED <<status, currentTerm, voteFor, votePass, voteReq, voteRes>>
    BY <1>1 DEF AppendWrite, AppendFinish, electionVars, voteNet
  <2> QED  BY <2>1, TermKept
<1> QED  BY <1>1 DEF FollowerNext

LEMMA ApplyElection ==
    ASSUME NodeAssumption, TypeOK, TypeOK', ElectionInv, ApplyNext
    PROVE  ElectionInv'
<1>1. UNCHANGED <<status, currentTerm, voteFor, votePass, voteReq, voteRes>>
  BY DEF ApplyNext, Put, Delete, Lock, UnLock, Submit, CommitBegin, CommitStore, CommitAck,
     electionVars, voteNet
<1> QED  BY <1>1, TermKept

LEMMA InitElection ==
    ASSUME NodeAssumption, Init
    PROVE  ElectionInv
<1>1. TermsInv  BY DEF Init, TermsInv
<1>2. VoteCallsInv  BY DEF Init, VoteCallsInv
<1>3. VotesInv
  <2> SUFFICES ASSUME NEW s \in Server, NEW t \in Terms
               PROVE  votePass[s][t] <= Cardinality(Counted(s, t))
    BY DEF VotesInv
  <2>1. votePass[s][t] = 0  BY DEF Init
  <2> QED  BY <2>1, VotersFinite
<1>4. LeaderInv  BY DEF Init, LeaderInv
<1> QED  BY <1>1, <1>2, <1>3, <1>4 DEF ElectionInv

LEMMA StepElection ==
    ASSUME NodeAssumption, TypeOK, NoBadSlot, ElectionInv, [Next]_vars
    PROVE  ElectionInv'
<1>1. TypeOK'  BY StepType
<1>2. CASE ElectionNext
  <2>1. ASSUME NEW s \in Server, VoteTimerHeard(s)
        PROVE  ElectionInv'
    <3>1. UNCHANGED <<status, currentTerm, voteFor, votePass, voteReq, voteRes>>
      BY <2>1 DEF VoteTimerHeard, voteNet
    <3> QED  BY <1>1, <3>1, TermKept
  <2> QED
    BY <1>1, <1>2, <2>1, VoteLeaderElection, VoteElection, VoteCallBackElection
    DEF ElectionNext
<1>3. CASE LeaderNext  BY <1>1, <1>3, LeaderElection
<1>4. CASE HeartBeatNext  BY <1>1, <1>4, HeartBeatElection
<1>5. CASE FollowerNext  BY <1>1, <1>5, FollowerElection
<1>6. CASE ApplyNext  BY <1>1, <1>6, ApplyElection
<1>7. CASE UNCHANGED vars
  <2>1. UNCHANGED <<status, currentTerm, voteFor, votePass, voteReq, voteRes>>
    BY <1>7 DEF vars, electionVars, voteNet
  <2> QED  BY <1>1, <2>1, TermKept
<1> QED  BY <1>2, <1>3, <1>4, <1>5, <1>6, <1>7 DEF Next

-----------------------------------------------------------------------------
\* The inductive invariant, with the types that its steps rest on.
THEOREM ElectionInvariant == Spec => [](TypeOK /\ NoBadSlot /\ ElectionInv)
<1>1. Init => TypeOK /\ NoBadSlot /\ ElectionInv
  BY InitType, InitElection, NodeAssumption
<1>2. (TypeOK /\ NoBadSlot /\ ElectionInv) /\ [Next]_vars
         => (TypeOK /\ NoBadSlot /\ ElectionInv)'
  BY StepType, StepElection, NodeAssumption
<1> QED  BY <1>1, <1>2, PTL DEF Spec

\* A leader's count stands for as many voters.
LEMMA MajorityOfVoters ==
    ASSUME NodeAssumption, TypeOK, ElectionInv, NEW s \in Server, status[s] = "Leader"
    PROVE  2 * Cardinality(Voters(s, currentTerm[s])) > Cardinality(Server)
<1> DEFINE t == currentTerm[s]
<1>1. t \in Terms /\ votePass[s][t] \in Nat  BY DEF TypeOK, ElectionTypeOK
<1>2. Cardinality(Server) \in Nat  BY FS_CardinalityType DEF NodeAssumption
<1>3. votePass[s][t] > Cardinality(Server) \div 2
  BY DEF ElectionInv, LeaderInv, EnoughVotes
<1>4. votePass[s][t] <= Cardinality(Counted(s, t))
  BY <1>1 DEF ElectionInv, VotesInv
<1>5. /\ Cardinality(Counted(s, t)) \in Nat /\ Cardinality(Voters(s, t)) \in Nat
      /\ Cardinality(Counted(s, t)) <= Cardinality(Voters(s, t))
  BY VotersFinite
<1> HIDE DEF t
<1> SUFFICES 2 * Cardinality(Voters(s, t)) > Cardinality(Server)
  BY DEF t
<1>6. Cardinality(Voters(s, t)) > Cardinality(Server) \div 2
  BY <1>1, <1>2, <1>3, <1>4, <1>5
<1> QED  BY <1>2, <1>5, <1>6

\* A leader has the votes of more than half of the members in its own term, at
\* every moment of its leadership.
THEOREM LeadersElected == Spec => []LeaderHasMajority
<1>1. TypeOK /\ NoBadSlot /\ ElectionInv => LeaderHasMajority
  BY MajorityOfVoters, NodeAssumption DEF LeaderHasMajority
<1> QED  BY <1>1, ElectionInvariant, PTL

\* One leader per term, as long as no node restarts: two majorities share a
\* voter, and vote_for_ holds one candidate per term.
THEOREM OneLeaderPerTerm == Spec => []ElectionSafety
<1>1. ASSUME TypeOK, ElectionInv
      PROVE  ElectionSafety
  <2> SUFFICES ASSUME NEW s \in Server, NEW u \in Server,
                      status[s] = "Leader", status[u] = "Leader",
                      currentTerm[s] = currentTerm[u]
               PROVE  s = u
    BY DEF ElectionSafety
  <2> DEFINE S == Voters(s, currentTerm[s])
             U == Voters(u, currentTerm[u])
  <2>1. IsFiniteSet(Server) /\ S \subseteq Server /\ U \subseteq Server
    BY NodeAssumption DEF NodeAssumption, Voters
  <2>2. Cardinality(S) + Cardinality(U) > Cardinality(Server)
    <3>1. 2 * Cardinality(S) > Cardinality(Server) /\ 2 * Cardinality(U) > Cardinality(Server)
      BY <1>1, MajorityOfVoters, NodeAssumption
    <3>2. Cardinality(S) \in Nat /\ Cardinality(U) \in Nat
      BY VotersFinite, NodeAssumption
    <3>3. Cardinality(Server) \in Nat  BY <2>1, FS_CardinalityType
    <3> HIDE DEF S, U
    <3> QED  BY <3>1, <3>2, <3>3
  <2>3. S \cap U # {}  BY <2>1, <2>2, FS_MajoritiesIntersect
  <2> QED  BY <2>3 DEF Voters
<1> QED  BY <1>1, ElectionInvariant, PTL

-----------------------------------------------------------------------------
\* Terms only grow.

LEMMA SameTerms ==
    ASSUME NodeAssumption, TypeOK, currentTerm' = currentTerm
    PROVE  \A u \in Server : currentTerm'[u] >= currentTerm[u]
BY DEF TypeOK, ElectionTypeOK, Terms, NodeAssumption

LEMMA OneTerm ==
    ASSUME NodeAssumption, TypeOK, NEW s, NEW t \in Terms, t >= currentTerm[s],
           currentTerm' = [currentTerm EXCEPT ![s] = t]
    PROVE  \A u \in Server : currentTerm'[u] >= currentTerm[u]
BY DEF TypeOK, ElectionTypeOK, Terms, NodeAssumption

LEMMA StepTerms ==
    ASSUME NodeAssumption, TypeOK, [Next]_vars
    PROVE  \A u \in Server : currentTerm'[u] >= currentTerm[u]
<1>1. /\ \A s \in Server : currentTerm[s] \in Int
      /\ \A t \in Terms : t \in Int
  BY DEF TypeOK, ElectionTypeOK, Terms, NodeAssumption
<1>2. ASSUME NEW s \in Server, VoteLeader(s)
      PROVE  \A u \in Server : currentTerm'[u] >= currentTerm[u]
  <2>1. currentTerm[s] + 1 \in Terms /\ currentTerm[s] + 1 >= currentTerm[s]
    BY <1>2 DEF VoteLeader, TypeOK, ElectionTypeOK, Terms, NodeAssumption
  <2>2. currentTerm' = [currentTerm EXCEPT ![s] = currentTerm[s] + 1]
    BY <1>2 DEF VoteLeader
  <2> QED  BY <2>1, <2>2, OneTerm
<1>3. ASSUME NEW m \in voteReq, Vote(m)
      PROVE  \A u \in Server : currentTerm'[u] >= currentTerm[u]
  <2>1. m.to \in Server /\ m.term \in Terms
    BY DEF TypeOK, ElectionTypeOK, VoteRequest
  <2>2. CASE VoteDecided(m)  BY <2>1, <2>2, OneTerm DEF VoteDecided
  <2>3. CASE ~VoteDecided(m)
    BY <1>3, <2>3, SameTerms DEF Vote, VoteByLeader, VoteRefused, electionVars
  <2> QED  BY <2>2, <2>3
<1>4. ASSUME NEW m \in voteRes, VoteCallBack(m)
      PROVE  \A u \in Server : currentTerm'[u] >= currentTerm[u]
  <2>1. m.to \in Server /\ m.term \in Terms
    BY DEF TypeOK, ElectionTypeOK, VoteResponse
  <2>2. CASE VoteNewerTerm(m)
    <3>1. m.term >= currentTerm[m.to]  BY <1>1, <2>1, <2>2 DEF VoteNewerTerm
    <3> QED  BY <2>1, <2>2, <3>1, OneTerm DEF VoteNewerTerm
  <2>3. CASE ~VoteNewerTerm(m)
    BY <1>4, <2>3, SameTerms DEF VoteCallBack, VoteCounted, VoteIgnored, electionVars
  <2> QED  BY <2>2, <2>3
<1>5. ASSUME NEW s \in Server, NEW f \in Server, ReplicateAnswer(s, f)
      PROVE  \A u \in Server : currentTerm'[u] >= currentTerm[u]
  <2>1. PICK m \in appendRes : \/ ReplicateNewerTerm(s, f, m)
                               \/ ReplicateNotLeader(s, f, m)
                               \/ ReplicateSuccess(s, f, m)
                               \/ ReplicateBusy(s, f, m)
                               \/ ReplicateBackoff(s, f, m)
    BY <1>5 DEF ReplicateAnswer
  <2>2. m \in AppendResponse  BY DEF TypeOK, ReplicationTypeOK
  <2>3. m.term \in Terms  BY <2>2 DEF AppendResponse
  <2>4. CASE ReplicateNewerTerm(s, f, m)
    <3>1. m.term >= currentTerm[s]  BY <1>1, <2>3, <2>4 DEF ReplicateNewerTerm
    <3> QED  BY <2>3, <2>4, <3>1, OneTerm DEF ReplicateNewerTerm
  <2>5. CASE ~ReplicateNewerTerm(s, f, m)
    BY <2>1, <2>5, SameTerms
    DEF ReplicateNotLeader, ReplicateSuccess, ReplicateBusy, ReplicateBackoff
  <2> QED  BY <2>4, <2>5
<1>6. ASSUME NEW m \in beatRes, HeartBeatCallBack(m)
      PROVE  \A u \in Server : currentTerm'[u] >= currentTerm[u]
  <2>1. m \in BeatResponse  BY DEF TypeOK, ReplicationTypeOK
  <2>2. m.to \in Server /\ m.term \in Terms  BY <2>1 DEF BeatResponse
  <2>3. CASE /\ m.term > currentTerm[m.to]
             /\ currentTerm' = [currentTerm EXCEPT ![m.to] = m.term]
    <3>1. m.term >= currentTerm[m.to]  BY <1>1, <2>2, <2>3
    <3> QED  BY <2>2, <2>3, <3>1, OneTerm
  <2>4. CASE currentTerm' = currentTerm  BY <2>4, SameTerms
  <2> QED  BY <1>6, <2>3, <2>4 DEF HeartBeatCallBack
<1>7. ASSUME NEW m \in appendReq, AppendEntries(m)
      PROVE  \A u \in Server : currentTerm'[u] >= currentTerm[u]
  <2>1. m \in AppendRequest  BY DEF TypeOK, ReplicationTypeOK
  <2>2. m.term \in Terms  BY <2>1 DEF AppendRequest
  <2>3. CASE AppendStale(m)  BY <2>3, SameTerms DEF AppendStale, electionVars
  <2>4. CASE Follow(m)  BY <2>2, <2>4, OneTerm DEF Follow
  <2> QED
    BY <1>7, <2>3, <2>4 DEF AppendEntries, AppendHeartBeat, AppendBeyond, AppendMismatch,
       AppendTooFast, AppendAccept
<1>8. ASSUME NEW s \in Server,
             \/ VoteTimerHeard(s) \/ BroadCastHeartBeat(s)
             \/ \E f \in Server : \/ ReplicateStop(s, f) \/ ReplicateBuild(s, f)
                                  \/ ReplicateSend(s, f) \/ ReplicateFail(s, f)
             \/ \E h \in appending[s] : AppendWrite(s, h) \/ AppendFinish(s, h)
      PROVE  \A u \in Server : currentTerm'[u] >= currentTerm[u]
  <2>1. currentTerm' = currentTerm
    BY <1>8 DEF VoteTimerHeard, BroadCastHeartBeat, ReplicateStop, ReplicateBuild,
       ReplicateSend, ReplicateFail, AppendWrite, AppendFinish, electionVars
  <2> QED  BY <2>1, SameTerms
<1>9. CASE ApplyNext
  <2>1. currentTerm' = currentTerm
    BY <1>9 DEF ApplyNext, Put, Delete, Lock, UnLock, Submit, CommitBegin, CommitStore,
       CommitAck, electionVars
  <2> QED  BY <2>1, SameTerms
<1>10. CASE UNCHANGED vars  BY <1>10, SameTerms DEF vars, electionVars
<1> QED
  BY <1>2, <1>3, <1>4, <1>5, <1>6, <1>7, <1>8, <1>9, <1>10
  DEF Next, ElectionNext, LeaderNext, HeartBeatNext, FollowerNext

\* No step takes a node back to an earlier term, whichever handler or callback
\* assigns current_term_.
THEOREM TermsNeverBack == Spec => TermsGrow
<1>1. TypeOK /\ NoBadSlot /\ [Next]_vars
         => [\A s \in Server : currentTerm'[s] >= currentTerm[s]]_vars
  BY StepTerms, NodeAssumption
<1> QED  BY <1>1, TypeAndSlots, PTL DEF Spec, TermsGrow
=============================================================================

---------------------------- MODULE HandoverProof ----------------------------
(***************************************************************************)
(* A new leader has every write that an older one answered: LeaderComplete *)
(* as long as at most two elections are won and no replication call is     *)
(* given up, for any number of members, requests and terms.  What a member *)
(* confirmed before it voted, the candidate it voted for had; what the     *)
(* older leader commits a majority confirmed; and the two majorities meet. *)
(***************************************************************************)
EXTENDS Handover, SteadyProof

USE DEF electionVars, leaderVars, applyVars, clientVars, voteNet, appendNet, boundVars

-----------------------------------------------------------------------------
\* Where entries come from.

LEMMA InRange ==
    ASSUME NEW S, NEW q \in Seq(S)
    PROVE  \A e : e \in Range(q) <=> \E i \in 1 .. Len(q) : q[i] = e
<1>1. DOMAIN q = 1 .. Len(q)  BY LenProperties
<1> QED  BY <1>1 DEF Range

LEMMA PartInRange ==
    ASSUME NEW S, NEW q \in Seq(S), NEW i \in Nat, NEW j \in Nat
    PROVE  j <= Len(q) =>
             /\ SubSeq(q, i + 1, j) \in Seq(S)
             /\ Range(SubSeq(q, i + 1, j)) \subseteq Range(q)
<1> SUFFICES ASSUME j <= Len(q)
             PROVE  /\ SubSeq(q, i + 1, j) \in Seq(S)
                    /\ Range(SubSeq(q, i + 1, j)) \subseteq Range(q)
  BY LenProperties
<1>1. Len(q) \in Nat  BY LenProperties
<1>2. \A k \in i + 1 .. j : q[k] \in S
  <2> TAKE k \in i + 1 .. j
  <2>1. k \in 1 .. Len(q)  BY <1>1
  <2> QED  BY <2>1, ElementOfSeq
<1>3. i + 1 \in Int /\ j \in Int  OBVIOUS
<1>4. /\ SubSeq(q, i + 1, j) \in Seq(S)
      /\ Len(SubSeq(q, i + 1, j)) = IF i + 1 <= j THEN j - (i + 1) + 1 ELSE 0
      /\ \A k \in 1 .. j - (i + 1) + 1 : SubSeq(q, i + 1, j)[k] = q[(i + 1) + k - 1]
  BY <1>2, <1>3, SubSeqProperties
<1>5. ASSUME NEW e \in Range(SubSeq(q, i + 1, j))  PROVE e \in Range(q)
  <2>1. PICK k \in 1 .. Len(SubSeq(q, i + 1, j)) : SubSeq(q, i + 1, j)[k] = e
    BY <1>4, <1>5, InRange
  <2>2. k \in 1 .. j - (i + 1) + 1 /\ (i + 1) + k - 1 \in 1 .. Len(q)  BY <1>1, <1>4
  <2>3. q[(i + 1) + k - 1] = e  BY <1>4, <2>1, <2>2
  <2> QED  BY <2>2, <2>3, InRange
<1> QED  BY <1>4, <1>5

LEMMA ConcatInRange ==
    ASSUME NEW S, NEW p \in Seq(S), NEW q \in Seq(S)
    PROVE  p \o q \in Seq(S) /\ Range(p \o q) \subseteq Range(p) \cup Range(q)
<1>1. /\ p \o q \in Seq(S) /\ Len(p \o q) = Len(p) + Len(q)
      /\ \A i \in 1 .. Len(p) + Len(q) :
            (p \o q)[i] = IF i <= Len(p) THEN p[i] ELSE q[i - Len(p)]
  BY ConcatProperties
<1>2. Len(p) \in Nat /\ Len(q) \in Nat  BY LenProperties
<1>3. ASSUME NEW e \in Range(p \o q)  PROVE e \in Range(p) \cup Range(q)
  <2>1. PICK i \in 1 .. Len(p) + Len(q) : (p \o q)[i] = e  BY <1>1, InRange
  <2>2. CASE i <= Len(p)
    <3>1. i \in 1 .. Len(p) /\ p[i] = e  BY <1>1, <1>2, <2>1, <2>2
    <3> QED  BY <3>1, InRange
  <2>3. CASE ~(i <= Len(p))
    <3>1. i - Len(p) \in 1 .. Len(q) /\ q[i - Len(p)] = e  BY <1>1, <1>2, <2>1, <2>3
    <3> QED  BY <3>1, InRange
  <2> QED  BY <2>2, <2>3
<1> QED  BY <1>1, <1>3

\* A write puts in the database what it is given, and keeps or drops the rest.
LEMMA WriteInRange ==
    ASSUME NEW E, NEW T, NEW b \in BinLogs(E, T), NEW entries \in Seq(E)
    PROVE  Range(WriteEntryList(b, entries).slot) \subseteq Range(b.slot) \cup Range(entries)
<1>1. b.slot \in Seq(E) /\ b.len \in Nat /\ b.len <= Len(b.slot) /\ Len(b.slot) \in Nat
      /\ Len(entries) \in Nat
  BY LenProperties DEF BinLogs
<1> DEFINE n == b.len + Len(entries)
           low == SubSeq(b.slot, 1, b.len)
           high == SubSeq(b.slot, n + 1, Len(b.slot))
<1>2. low \in Seq(E) /\ Range(low) \subseteq Range(b.slot)
  <2>1. 0 + 1 = 1 /\ 0 \in Nat /\ b.len <= Len(b.slot)  BY <1>1
  <2> QED  BY <1>1, <2>1, PartInRange
<1>3. high \in Seq(E) /\ Range(high) \subseteq Range(b.slot)
  <2>1. n \in Nat /\ Len(b.slot) <= Len(b.slot)  BY <1>1
  <2> QED  BY <1>1, <2>1, PartInRange
<1>4. WriteEntryList(b, entries).slot = low \o entries \o high  BY DEF WriteEntryList
<1> HIDE DEF low, high, n
<1>5. low \o entries \in Seq(E) /\ Range(low \o entries) \subseteq Range(low) \cup Range(entries)
  BY <1>2, ConcatInRange
<1>6. Range((low \o entries) \o high) \subseteq Range(low \o entries) \cup Range(high)
  BY <1>3, <1>5, ConcatInRange
<1> QED  BY <1>2, <1>3, <1>4, <1>5, <1>6

LEMMA SourcesWritten ==
    /\ \A s \in Server : Range(binlog[s].slot) \subseteq Written
    /\ \A m \in appendReq : Range(m.entries) \subseteq Written
    /\ \A s \in Server : \A h \in appending[s] : Range(h.req.entries) \subseteq Written
BY DEF Written

LEMMA WrittenFrom ==
    ASSUME NEW N,
           \A s \in Server : Range(binlog'[s].slot) \subseteq N,
           \A m \in appendReq' : Range(m.entries) \subseteq N,
           \A s \in Server : \A h \in appending'[s] : Range(h.req.entries) \subseteq N
    PROVE  Written' \subseteq N
BY DEF Written

LEMMA WrittenSame ==
    ASSUME binlog' = binlog, appendReq' \subseteq appendReq, appending' = appending
    PROVE  Written' \subseteq Written
BY SourcesWritten, WrittenFrom

LEMMA WrittenEntries ==
    ASSUME TypeOK
    PROVE  /\ Written \subseteq Entry
           /\ \A s \in Server : \A i \in 1 .. Len(binlog[s].slot) : binlog[s].slot[i] \in Written
<1>1. ASSUME NEW q \in Seq(Entry)  PROVE Range(q) \subseteq Entry
  BY InRange, ElementOfSeq
<1>2. \A s \in Server : binlog[s].slot \in Seq(Entry)  BY LogFacts
<1>3. \A m \in appendReq : m.entries \in Seq(Entry)
  BY DEF TypeOK, ReplicationTypeOK, AppendRequest
<1>4. \A s \in Server : \A h \in appending[s] : h.req.entries \in Seq(Entry)
  BY DEF TypeOK, ReplicationTypeOK, AppendRequest, Appending
<1>5. \A s \in Server : \A i \in 1 .. Len(binlog[s].slot) : binlog[s].slot[i] \in Written
  BY <1>2, SourcesWritten, InRange
<1> QED  BY <1>1, <1>2, <1>3, <1>4, <1>5 DEF Written

\* A step makes an entry only at a leader, in its term: the Nop of the election,
\* or a call of a client.
NewEntry(e) ==
    \E s \in Server :
        /\ status'[s] = "Leader" /\ currentTerm'[s] = currentTerm[s] /\ e.term = currentTerm[s]
        /\ \/ e.req = Nil
           \/ /\ status[s] = "Leader" /\ e.req \in Request
              /\ reply[e.req] = "idle" /\ reply'[e.req] = "sent" /\ InLog(s, e.req)'

LEMMA LastInLog ==
    ASSUME NEW b \in BinLogs(Entry, Terms), NEW e \in Entry
    PROVE  /\ Range(WriteEntry(b, e).slot) \subseteq Range(b.slot) \cup {e}
           /\ WriteEntry(b, e).len = b.len + 1
           /\ Entries(WriteEntry(b, e))[b.len + 1] = e
<1>1. <<e>> \in Seq(Entry) /\ Len(<<e>>) = 1 /\ <<e>>[1] = e /\ <<e>> # << >>  OBVIOUS
<1>2. Range(<<e>>) = {e}
  <2>1. ASSUME NEW x \in Range(<<e>>)  PROVE x = e
    <3>1. PICK i \in 1 .. Len(<<e>>) : <<e>>[i] = x  BY <1>1, <2>1, InRange
    <3> QED  BY <1>1, <3>1
  <2>2. 1 \in 1 .. Len(<<e>>)  BY <1>1
  <2>3. e \in Range(<<e>>)  BY <1>1, <2>2, InRange
  <2> QED  BY <2>1, <2>3
<1>3. Range(WriteEntry(b, e).slot) \subseteq Range(b.slot) \cup {e}
  BY <1>1, <1>2, WriteInRange DEF WriteEntry
<1>4. WriteEntry(b, e) \in BinLogs(Entry, Terms) /\ WriteEntry(b, e).len = b.len + 1
  BY <1>1, EntryTerms, WriteEntryListType DEF WriteEntry
<1>5. WriteEntry(b, e).slot[b.len + 1] = e
  <2>1. b.slot \in Seq(Entry) /\ b.len \in Nat /\ b.len <= Len(b.slot) /\ Len(b.slot) \in Nat
    BY LenProperties DEF BinLogs
  <2> DEFINE low == SubSeq(b.slot, 1, b.len)
             high == SubSeq(b.slot, b.len + 2, Len(b.slot))
  <2>2. low \in Seq(Entry) /\ Len(low) = b.len
    <3>1. \A k \in 1 .. b.len : b.slot[k] \in Entry  BY <2>1, ElementOfSeq
    <3> QED  BY <2>1, <3>1, SubSeqProperties
  <2>3. high \in Seq(Entry)
    <3>1. \A k \in b.len + 2 .. Len(b.slot) : b.slot[k] \in Entry
      <4> TAKE k \in b.len + 2 .. Len(b.slot)
      <4>1. k \in 1 .. Len(b.slot)  BY <2>1
      <4> QED  BY <2>1, <4>1, ElementOfSeq
    <3> QED  BY <2>1, <3>1, SubSeqProperties
  <2>4. WriteEntry(b, e).slot = (low \o <<e>>) \o high
    <3>1. b.len + Len(<<e>>) + 1 = b.len + 2  BY <1>1, <2>1
    <3> QED  BY <3>1 DEF WriteEntry, WriteEntryList
  <2> HIDE DEF low, high
  <2>5. /\ low \o <<e>> \in Seq(Entry) /\ Len(low \o <<e>>) = b.len + 1
        /\ (low \o <<e>>)[b.len + 1] = e
    <3>1. b.len + 1 \in 1 .. Len(low) + Len(<<e>>) /\ ~(b.len + 1 <= Len(low))
          /\ (b.len + 1) - Len(low) = 1
      BY <1>1, <2>1, <2>2
    <3> QED  BY <1>1, <2>2, <3>1, ConcatProperties
  <2>6. ((low \o <<e>>) \o high)[b.len + 1] = (low \o <<e>>)[b.len + 1]
    <3>1. Len(high) \in Nat  BY <2>3, LenProperties
    <3>2. b.len + 1 \in 1 .. Len(low \o <<e>>) + Len(high) /\ b.len + 1 <= Len(low \o <<e>>)
      BY <2>1, <2>5, <3>1
    <3> QED  BY <2>3, <2>5, <3>2, ConcatProperties
  <2> QED  BY <2>4, <2>5, <2>6
<1>6. b.len \in Nat /\ b.len + 1 \in 1 .. b.len + 1  BY DEF BinLogs
<1>7. Entries(WriteEntry(b, e))[b.len + 1] = WriteEntry(b, e).slot[b.len + 1]
  BY <1>4, <1>6, EntriesOf
<1> QED  BY <1>3, <1>4, <1>5, <1>7

LEMMA WrittenByOne ==
    ASSUME TypeOK, NEW s \in Server, NEW e \in Entry,
           binlog' = [binlog EXCEPT ![s] = WriteEntry(@, e)],
           UNCHANGED <<appendReq, appending>>
    PROVE  /\ Written' \subseteq Written \cup {e}
           /\ e.req # Nil => InLog(s, e.req)'
<1>1. binlog[s] \in BinLogs(Entry, Terms) /\ binlog'[s] = WriteEntry(binlog[s], e)
      /\ \A u \in Server : u # s => binlog'[u] = binlog[u]
  BY DEF TypeOK, LogTypeOK
<1>2. Range(binlog'[s].slot) \subseteq Range(binlog[s].slot) \cup {e}  BY <1>1, LastInLog
<1>3. \A u \in Server : Range(binlog'[u].slot) \subseteq Written \cup {e}
  BY <1>1, <1>2, SourcesWritten
<1>4. Written' \subseteq Written \cup {e}  BY <1>3, SourcesWritten, WrittenFrom
<1>5. binlog'[s].len = binlog[s].len + 1 /\ Entries(binlog'[s])[binlog[s].len + 1] = e
  BY <1>1, LastInLog
<1>6. binlog[s].len \in Nat  BY LogFacts
<1>7. binlog[s].len + 1 \in 1 .. binlog'[s].len  BY <1>5, <1>6
<1> QED  BY <1>4, <1>5, <1>7 DEF InLog, GetLength

LEMMA ElectionWritten ==
    ASSUME NodeAssumption, TypeOK, ElectionNext
    PROVE  \A e \in Written' : e \in Written \/ NewEntry(e)
<1>1. CASE UNCHANGED <<binlog, appendReq, appending>>  BY <1>1, WrittenSame
<1>2. ASSUME NEW m \in voteRes, VoteCallBack(m), VoteCounted(m),
             EnoughVotes(votePass[m.to][currentTerm[m.to]] + 1)
      PROVE  \A e \in Written' : e \in Written \/ NewEntry(e)
  <2>1. m.to \in Server  BY DEF TypeOK, ElectionTypeOK, VoteResponse
  <2>2. /\ status' = [status EXCEPT ![m.to] = "Leader"] /\ StartReplicaLog(m.to)
        /\ currentTerm' = currentTerm /\ UNCHANGED <<appendReq, appending>>
    BY <1>2 DEF VoteCounted, VoteCallBack
  <2>3. currentTerm[m.to] \in Terms  BY <2>1, NodeNumbers
  <2>4. NopEntry(currentTerm[m.to]) \in Entry /\ NopEntry(currentTerm[m.to]).req = Nil
        /\ NopEntry(currentTerm[m.to]).term = currentTerm[m.to]
    BY <2>3 DEF NopEntry, Entry
  <2>5. binlog' = [binlog EXCEPT ![m.to] = WriteEntry(@, NopEntry(currentTerm[m.to]))]
    BY <2>2 DEF StartReplicaLog
  <2>6. Written' \subseteq Written \cup {NopEntry(currentTerm[m.to])}
    BY <2>1, <2>2, <2>4, <2>5, WrittenByOne
  <2>7. status'[m.to] = "Leader"  BY <2>1, <2>2 DEF TypeOK, ElectionTypeOK
  <2>8. NewEntry(NopEntry(currentTerm[m.to]))  BY <2>1, <2>2, <2>4, <2>7 DEF NewEntry
  <2> QED  BY <2>6, <2>8
<1>3. ASSUME NEW s \in Server, VoteTimerHeard(s) \/ VoteLeader(s)
      PROVE  UNCHANGED <<binlog, appendReq, appending>>
  BY <1>3 DEF VoteTimerHeard, VoteLeader
<1>4. ASSUME NEW m \in voteReq, Vote(m)
      PROVE  UNCHANGED <<binlog, appendReq, appending>>
  BY <1>4 DEF Vote
<1>5. ASSUME NEW m \in voteRes, VoteCallBack(m)
      PROVE  \/ UNCHANGED <<binlog, appendReq, appending>>
             \/ VoteCounted(m) /\ EnoughVotes(votePass[m.to][currentTerm[m.to]] + 1)
  BY <1>5 DEF VoteCallBack, VoteCounted, VoteNewerTerm, VoteIgnored
<1> QED  BY <1>1, <1>2, <1>3, <1>4, <1>5 DEF ElectionNext

LEMMA LeaderWritten ==
    ASSUME NodeAssumption, TypeOK, NoBadSlot, LeaderNext
    PROVE  Written' \subseteq Written
<1>1. CASE UNCHANGED <<binlog, appendReq, appending>>  BY <1>1, WrittenSame
<1>2. ASSUME NEW s \in Server, NEW f \in Server,
             ReplicateStop(s, f) \/ ReplicateBuild(s, f) \/ ReplicateAnswer(s, f)
      PROVE  UNCHANGED <<binlog, appendReq, appending>>
  BY <1>2 DEF ReplicateStop, ReplicateBuild, ReplicateAnswer
<1>3. ASSUME NEW s \in Server, NEW f \in Server, ReplicateSend(s, f)
      PROVE  Written' \subseteq Written
  <2> PICK call : call = repl[s][f].call  OBVIOUS
  <2> PICK entries : entries = SubSeq(binlog[s].slot, call.index + 1, call.index + call.batch)
    OBVIOUS
  <2>0. appendReq' = appendReq \cup
            {[from |-> s, to |-> f, term |-> call.term, rpc |-> TRUE,
              prev |-> call.index - 1, prevTerm |-> call.prevTerm,
              commit |-> call.commit, entries |-> entries]}
    BY <1>3 DEF ReplicateSend
  <2>1. repl[s][f].pc = "built" /\ UNCHANGED <<binlog, appending>>
    BY <1>3 DEF ReplicateSend
  <2>2. \A m \in appendReq' : m \in appendReq \/ m.entries = entries
    BY <2>0
  <2>3. call.index \in Nat /\ call.batch \in Nat /\ NextAfter(call) = call.index + call.batch
    BY <2>1, CallNumbers
  <2>4. NextAfter(call) <= Len(binlog[s].slot)  BY <2>1 DEF NoBadSlot, CallStored
  <2>5. binlog[s].slot \in Seq(Entry) /\ Len(binlog[s].slot) \in Nat  BY LogFacts
  <2>6. call.index + call.batch \in Nat /\ call.index + call.batch <= Len(binlog[s].slot)
    <3>1. PICK n \in Nat : n = Len(binlog[s].slot)  BY <2>5
    <3>2. PICK k \in Nat : k = call.index + call.batch  BY <2>3
    <3>3. k <= n  BY <2>3, <2>4, <3>1, <3>2
    <3> QED  BY <3>1, <3>2, <3>3
  <2>7. Range(entries) \subseteq Range(binlog[s].slot)
    <3>1. entries = SubSeq(binlog[s].slot, call.index + 1, call.index + call.batch)  OBVIOUS
    <3>2. call.index \in Nat  BY <2>3
    <3> QED  BY <2>5, <2>6, <3>1, <3>2, PartInRange
  <2>8. \A m \in appendReq' : Range(m.entries) \subseteq Written
    BY <2>2, <2>7, SourcesWritten
  <2> QED  BY <2>1, <2>8, SourcesWritten, WrittenFrom
<1>4. ASSUME NEW s \in Server, NEW f \in Server, ReplicateFail(s, f)
      PROVE  Written' \subseteq Written
  <2>1. binlog' = binlog  BY <1>4 DEF ReplicateFail
  <2>2. \A m \in AppendRequest : Abandon(m).entries = m.entries
    BY DEF Abandon, AppendRequest
  <2>3. appendReq \subseteq AppendRequest
        /\ \A u \in Server : \A h \in appending[u] : h \in Appending /\ h.req \in AppendRequest
    <3>1. appendReq \subseteq AppendRequest /\ \A u \in Server : appending[u] \subseteq Appending
      BY DEF TypeOK, ReplicationTypeOK
    <3>2. \A h \in Appending : h.req \in AppendRequest  BY DEF Appending
    <3> QED  BY <3>1, <3>2
  <2>4. \A m \in appendReq' : \E n \in appendReq : m.entries = n.entries
    BY <1>4, <2>2, <2>3 DEF ReplicateFail
  <2>5. \A u \in Server : \A h \in appending'[u] :
            \E g \in appending[u] : h.req.entries = g.req.entries
    <3>1. \A g \in Appending : [g EXCEPT !.req = Abandon(@)].req = Abandon(g.req)
      BY DEF Appending
    <3>2. appending' = [appending EXCEPT ![f] =
            {IF IsCall(h.req, s, f) THEN [h EXCEPT !.req = Abandon(@)] ELSE h : h \in @}]
      BY <1>4 DEF ReplicateFail
    <3>3. appending'[f] =
            {IF IsCall(h.req, s, f) THEN [h EXCEPT !.req = Abandon(@)] ELSE h : h \in appending[f]}
          /\ \A u \in Server : u # f => appending'[u] = appending[u]
      BY <3>2 DEF TypeOK, ReplicationTypeOK
    <3>4. ASSUME NEW g \in appending[f]
          PROVE  [g EXCEPT !.req = Abandon(@)].req.entries = g.req.entries
      <4>1. g \in Appending /\ g.req \in AppendRequest  BY <2>3
      <4>2. Abandon(g.req).entries = g.req.entries  BY <2>2, <4>1
      <4> QED  BY <3>1, <4>1, <4>2
    <3>5. \A h \in appending'[f] : \E g \in appending[f] : h.req.entries = g.req.entries
      <4> TAKE h \in appending'[f]
      <4>1. PICK g \in appending[f] :
                h = IF IsCall(g.req, s, f) THEN [g EXCEPT !.req = Abandon(@)] ELSE g
        BY <3>3
      <4> QED  BY <3>4, <4>1
    <3> QED  BY <3>3, <3>5
  <2>6. \A m \in appendReq' : Range(m.entries) \subseteq Written  BY <2>4, SourcesWritten
  <2>7. \A u \in Server : \A h \in appending'[u] : Range(h.req.entries) \subseteq Written
    BY <2>5, SourcesWritten
  <2> QED  BY <2>1, <2>6, <2>7, SourcesWritten, WrittenFrom
<1> QED  BY <1>1, <1>2, <1>3, <1>4 DEF LeaderNext

LEMMA HeartBeatWritten ==
    ASSUME NodeAssumption, TypeOK, HeartBeatNext
    PROVE  Written' \subseteq Written
<1>1. ASSUME NEW s \in Server, BroadCastHeartBeat(s)
      PROVE  Written' \subseteq Written
  <2>1. UNCHANGED <<binlog, appending>>  BY <1>1 DEF BroadCastHeartBeat
  <2>2. \A m \in appendReq' : m \in appendReq \/ m.entries = << >>
    BY <1>1 DEF BroadCastHeartBeat
  <2>3. Range(<< >>) = {}  BY DEF Range
  <2>4. \A m \in appendReq' : Range(m.entries) \subseteq Written
    BY <2>2, <2>3, SourcesWritten
  <2> QED  BY <2>1, <2>4, SourcesWritten, WrittenFrom
<1>2. ASSUME NEW m \in beatRes, HeartBeatCallBack(m)
      PROVE  Written' \subseteq Written
  <2>1. UNCHANGED <<binlog, appending, appendReq>>  BY <1>2 DEF HeartBeatCallBack
  <2> QED  BY <2>1, WrittenSame
<1>3. ASSUME NEW m \in appendReq, AppendEntries(m)
      PROVE  Written' \subseteq Written
  <2>1. appendReq' = appendReq \ {m}  BY <1>3 DEF AppendEntries
  <2>2. m \in AppendRequest /\ m.to \in Server /\ m.prev \in Int
    BY DEF TypeOK, ReplicationTypeOK, AppendRequest
  <2>3. CASE AppendStale(m) \/ AppendHeartBeat(m) \/ AppendBeyond(m) \/ AppendTooFast(m)
    <3>1. UNCHANGED <<binlog, appending>>
      BY <2>3 DEF AppendStale, AppendHeartBeat, AppendBeyond, AppendTooFast
    <3> QED  BY <2>1, <3>1, WrittenSame
  <2>4. CASE AppendMismatch(m)
    <3>1. binlog' = [binlog EXCEPT ![m.to] = Truncate(@, m.prev - 1)] /\ appending' = appending
          /\ m.prev < binlog[m.to].len
      <4>1. ~(m.prev >= binlog[m.to].len)  BY <2>4 DEF AppendMismatch, PrevBeyond, GetLength
      <4>2. binlog[m.to].len \in Nat  BY <2>2, LogFacts
      <4> QED  BY <2>2, <2>4, <4>1, <4>2 DEF AppendMismatch
    <3>2. binlog[m.to] \in BinLogs(Entry, Terms) /\ binlog[m.to].len \in Nat  BY <2>2, LogFacts
    <3>3. m.prev - 1 \in Int /\ m.prev - 1 < binlog[m.to].len  BY <2>2, <3>1, <3>2
    <3>4. Truncate(binlog[m.to], m.prev - 1).slot = binlog[m.to].slot
      BY <3>2, <3>3, EntryTerms, TruncateType
    <3>5. \A s \in Server : binlog'[s].slot = binlog[s].slot
      BY <3>1, <3>4 DEF TypeOK, LogTypeOK
    <3> QED  BY <2>1, <3>1, <3>5, SourcesWritten, WrittenFrom
  <2>5. CASE AppendAccept(m)
    <3>1. binlog' = binlog
          /\ appending' = [appending EXCEPT ![m.to] = @ \cup {[req |-> m, pc |-> "write"]}]
      BY <2>5 DEF AppendAccept
    <3>2. \A s \in Server : \A h \in appending'[s] : h \in appending[s] \/ h.req = m
      BY <3>1 DEF TypeOK, ReplicationTypeOK
    <3>3. \A s \in Server : \A h \in appending'[s] : Range(h.req.entries) \subseteq Written
      BY <3>2, SourcesWritten
    <3> QED  BY <2>1, <3>1, <3>3, SourcesWritten, WrittenFrom
  <2> QED  BY <1>3, <2>3, <2>4, <2>5 DEF AppendEntries
<1> QED  BY <1>1, <1>2, <1>3 DEF HeartBeatNext

LEMMA FollowerWritten ==
    ASSUME NodeAssumption, TypeOK, FollowerNext
    PROVE  Written' \subseteq Written
<1>1. ASSUME NEW s \in Server, NEW h \in appending[s], AppendWrite(s, h)
      PROVE  Written' \subseteq Written
  <2>1. h \in Appending /\ h.req \in AppendRequest /\ h.req.entries \in Seq(Entry)
    BY DEF TypeOK, ReplicationTypeOK, Appending, AppendRequest
  <2>2. binlog' = [binlog EXCEPT ![s] = WriteEntryList(@, h.req.entries)]
        /\ appending' = [appending EXCEPT ![s] = (@ \ {h}) \cup {[h EXCEPT !.pc = "finish"]}]
        /\ appendReq' = appendReq
    BY <1>1 DEF AppendWrite
  <2>3. binlog[s] \in BinLogs(Entry, Terms)  BY LogFacts
  <2>4. Range(binlog'[s].slot) \subseteq Range(binlog[s].slot) \cup Range(h.req.entries)
        /\ \A u \in Server : u # s => binlog'[u] = binlog[u]
    BY <2>1, <2>2, <2>3, WriteInRange DEF TypeOK, LogTypeOK
  <2>5. \A u \in Server : Range(binlog'[u].slot) \subseteq Written  BY <2>4, SourcesWritten
  <2>6. [h EXCEPT !.pc = "finish"].req = h.req  BY <2>1 DEF Appending
  <2>7. \A u \in Server : \A g \in appending'[u] : \E k \in appending[u] : g.req = k.req
    BY <2>2, <2>6 DEF TypeOK, ReplicationTypeOK
  <2>8. \A u \in Server : \A g \in appending'[u] : Range(g.req.entries) \subseteq Written
    BY <2>7, SourcesWritten
  <2> QED  BY <2>2, <2>5, <2>8, SourcesWritten, WrittenFrom
<1>2. ASSUME NEW s \in Server, NEW h \in appending[s], AppendFinish(s, h)
      PROVE  Written' \subseteq Written
  <2>1. UNCHANGED <<binlog, appendReq>> /\ appending' = [appending EXCEPT ![s] = @ \ {h}]
    BY <1>2 DEF AppendFinish
  <2>2. \A u \in Server : appending'[u] \subseteq appending[u]
    BY <2>1 DEF TypeOK, ReplicationTypeOK
  <2>3. \A u \in Server : \A g \in appending'[u] : Range(g.req.entries) \subseteq Written
    BY <2>2, SourcesWritten
  <2> QED  BY <2>1, <2>3, SourcesWritten, WrittenFrom
<1> QED  BY <1>1, <1>2 DEF FollowerNext

\* A call of a client, from the action that takes it.
LEMMA SubmitWritten ==
    ASSUME NodeAssumption, TypeOK, NEW s \in Server, NEW r \in Request, NEW op \in ReqKinds,
           Submit(s, r, op)
    PROVE  \A e \in Written' : e \in Written \/ NewEntry(e)
<1> PICK e : e = [term |-> currentTerm[s], op |-> op, req |-> r]  OBVIOUS
<1>1. /\ status[s] = "Leader" /\ reply[r] = "idle" /\ reply' = [reply EXCEPT ![r] = "sent"]
      /\ binlog' = [binlog EXCEPT ![s] = WriteEntry(@, e)]
      /\ UNCHANGED <<status, currentTerm, appendReq, appending>>
  BY DEF Submit
<1>2. currentTerm[s] \in Terms  BY NodeNumbers
<1>3. e \in Entry /\ e.req = r /\ e.term = currentTerm[s] /\ r # Nil
  BY <1>2 DEF Entry, NodeAssumption
<1>4. Written' \subseteq Written \cup {e} /\ InLog(s, r)'
  <2>1. e \in Entry /\ UNCHANGED <<appendReq, appending>>  BY <1>1, <1>3
  <2>2. Written' \subseteq Written \cup {e} /\ (e.req # Nil => InLog(s, e.req)')
    BY <1>1, <2>1, WrittenByOne
  <2>3. InLog(s, e.req)'  BY <1>3, <2>2
  <2> QED  BY <1>3, <2>2, <2>3 DEF InLog
<1>5. reply'[r] = "sent"  BY <1>1 DEF TypeOK, ApplyTypeOK
<1>6. NewEntry(e)  BY <1>1, <1>3, <1>4, <1>5 DEF NewEntry
<1> QED  BY <1>4, <1>6

LEMMA ApplyIs ==
    ASSUME ApplyNext
    PROVE  \/ \E s \in Server, r \in Request, op \in ReqKinds : Submit(s, r, op)
           \/ \E s \in Server : CommitBegin(s) \/ CommitStore(s) \/ CommitAck(s)
BY DEF ApplyNext, Put, Delete, Lock, UnLock, ReqKinds

LEMMA StepWritten ==
    ASSUME NodeAssumption, TypeOK, NoBadSlot, [Next]_vars
    PROVE  \A e \in Written' : e \in Written \/ NewEntry(e)
<1>1. CASE ElectionNext  BY <1>1, ElectionWritten
<1>2. CASE LeaderNext  BY <1>2, LeaderWritten
<1>3. CASE HeartBeatNext  BY <1>3, HeartBeatWritten
<1>4. CASE FollowerNext  BY <1>4, FollowerWritten
<1>5. CASE ApplyNext
  <2>1. ASSUME NEW s \in Server, CommitBegin(s) \/ CommitStore(s) \/ CommitAck(s)
        PROVE  UNCHANGED <<binlog, appendReq, appending>>
    BY <2>1 DEF CommitBegin, CommitStore, CommitAck
  <2> QED  BY <1>5, <2>1, ApplyIs, SubmitWritten, WrittenSame
<1>6. CASE UNCHANGED vars  BY <1>6, WrittenSame DEF vars
<1> QED  BY <1>1, <1>2, <1>3, <1>4, <1>5, <1>6 DEF Next

-----------------------------------------------------------------------------
\* What a step does to terms, votes and elections.

LEMMA TwoWinsBefore ==
    ASSUME NodeAssumption, TypeOK, TypeOK', [Next]_vars
    PROVE  /\ TwoWins' => TwoWins /\ fails = 0 /\ fails' = 0
           /\ \A s \in Server, t \in Terms : Wins(s, t) => Wins(s, t)'
<1>1. fails \in Nat /\ fails' \in Nat  BY DEF TypeOK, ApplyTypeOK, NodeAssumption
<1>2. \A s \in Server : \A t \in Terms : votePass[s][t] \in Nat /\ votePass'[s][t] \in Nat
  BY DEF TypeOK, ElectionTypeOK
<1>3. Cardinality(Server) \div 2 \in Nat
  BY FS_CardinalityType DEF NodeAssumption
<1>4. \A s \in Server, t \in Terms : Wins(s, t) => Wins(s, t)'
  BY <1>2, <1>3, CountsGrow DEF Wins, EnoughVotes
<1>5. \A w \in Won : w \in Won'
  <2> TAKE w \in Won
  <2>1. w \in Server \X Terms /\ w[1] \in Server /\ w[2] \in Terms /\ Wins(w[1], w[2])
    BY DEF Won
  <2>2. Wins(w[1], w[2])'  BY <1>4, <2>1
  <2> QED  BY <2>1, <2>2 DEF Won
<1>6. fails' = 0 => fails = 0  BY <1>1, CountsGrow
<1> QED  BY <1>4, <1>5, <1>6 DEF TwoWins

\* The step that makes m.to leader.
WinningVote(m) ==
    /\ VoteCallBack(m) /\ VoteCounted(m)
    /\ EnoughVotes(votePass[m.to][currentTerm[m.to]] + 1)

\* A vote that is counted and wins.
LEMMA WinningVoteIs ==
    ASSUME NodeAssumption, TypeOK, NEW m \in voteRes, WinningVote(m)
    PROVE  /\ m.to \in Server /\ m.from \in Server /\ currentTerm[m.to] \in Terms
           /\ status[m.to] = "Candidate"
           /\ status' = [status EXCEPT ![m.to] = "Leader"] /\ status'[m.to] = "Leader"
           /\ StartReplicaLog(m.to)
           /\ votePass' = [votePass EXCEPT ![m.to][currentTerm[m.to]] = @ + 1]
           /\ Wins(m.to, currentTerm[m.to])'
           /\ UNCHANGED <<currentTerm, heard, voteFor, voteReq, appending, commitIndex, lastApplied,
                          applier, store, sdkAck, reply, appendReq, appendRes, beatRes, fails>>
<1>1. m.to \in Server /\ m.from \in Server /\ currentTerm[m.to] \in Terms
  BY NodeNumbers DEF TypeOK, ElectionTypeOK, VoteResponse
<1>2. /\ status[m.to] = "Candidate"
      /\ status' = [status EXCEPT ![m.to] = "Leader"]
      /\ StartReplicaLog(m.to)
      /\ votePass' = [votePass EXCEPT ![m.to][currentTerm[m.to]] =
                                    votePass[m.to][currentTerm[m.to]] + 1]
      /\ UNCHANGED <<currentTerm, heard, voteFor>>
  BY DEF WinningVote, VoteCounted
<1>3. status'[m.to] = "Leader"  BY <1>1, <1>2 DEF TypeOK, ElectionTypeOK
<1>4. votePass' = [votePass EXCEPT ![m.to][currentTerm[m.to]] = @ + 1]  BY <1>2
<1>5. votePass'[m.to][currentTerm[m.to]] = votePass[m.to][currentTerm[m.to]] + 1
  BY <1>1, <1>2 DEF TypeOK, ElectionTypeOK
<1>6. Wins(m.to, currentTerm[m.to])'
  <2>1. currentTerm'[m.to] = currentTerm[m.to]  BY <1>2
  <2> QED  BY <1>5, <2>1 DEF Wins, EnoughVotes, WinningVote
<1> QED  BY <1>1, <1>2, <1>3, <1>4, <1>6 DEF WinningVote, VoteCallBack

\* Any other answer to a vote call leaves the logs and threads alone.
LEMMA OtherVoteIs ==
    ASSUME TypeOK, NEW m \in voteRes, VoteCallBack(m), ~WinningVote(m)
    PROVE  /\ UNCHANGED logVars /\ UNCHANGED <<voteFor, voteReq, fails>>
           /\ \/ UNCHANGED <<status, currentTerm>>
              \/ /\ status' = [status EXCEPT ![m.to] = "Follower"]
                 /\ currentTerm' = [currentTerm EXCEPT ![m.to] = m.term]
<1>1. CASE VoteCounted(m)
  BY <1>1 DEF VoteCallBack, VoteCounted, WinningVote, logVars
<1>2. CASE VoteNewerTerm(m)
  BY <1>2 DEF VoteCallBack, VoteNewerTerm, logVars
<1>3. CASE VoteIgnored(m)
  BY <1>3 DEF VoteCallBack, VoteIgnored, logVars
<1> QED  BY <1>1, <1>2, <1>3 DEF VoteCallBack

\* Steps of other threads make a node a follower or leave its term.
LEMMA OtherStatus ==
    ASSUME TypeOK, LeaderNext \/ HeartBeatNext \/ FollowerNext \/ ApplyNext \/ UNCHANGED vars
    PROVE  /\ UNCHANGED <<voteFor, votePass, voteReq, voteRes>>
           /\ \A s \in Server : \/ status'[s] = "Follower"
                                \/ status'[s] = status[s] /\ currentTerm'[s] = currentTerm[s]
<1>1. ASSUME NEW s, NEW t,
             \/ UNCHANGED <<status, currentTerm>>
             \/ /\ status' = [status EXCEPT ![s] = "Follower"]
                /\ currentTerm' = [currentTerm EXCEPT ![s] = t]
      PROVE  \A u \in Server : \/ status'[u] = "Follower"
                               \/ status'[u] = status[u] /\ currentTerm'[u] = currentTerm[u]
  BY <1>1 DEF TypeOK, ElectionTypeOK
<1>2. CASE LeaderNext
  <2>1. UNCHANGED <<votePass, voteReq, voteRes, voteFor>>
    BY <1>2 DEF LeaderNext, ReplicateStop, ReplicateBuild, ReplicateSend, ReplicateFail,
       ReplicateAnswer
  <2>2. ASSUME NEW s \in Server, NEW f \in Server, ReplicateAnswer(s, f)
        PROVE  \E t : \/ UNCHANGED <<status, currentTerm>>
                      \/ /\ status' = [status EXCEPT ![s] = "Follower"]
                         /\ currentTerm' = [currentTerm EXCEPT ![s] = t]
    BY <2>2 DEF ReplicateAnswer, ReplicateNewerTerm, ReplicateNotLeader, ReplicateSuccess,
       ReplicateBusy, ReplicateBackoff
  <2>3. ASSUME NEW s \in Server, NEW f \in Server,
               \/ ReplicateStop(s, f) \/ ReplicateBuild(s, f)
               \/ ReplicateSend(s, f) \/ ReplicateFail(s, f)
        PROVE  UNCHANGED <<status, currentTerm>>
    BY <2>3 DEF ReplicateStop, ReplicateBuild, ReplicateSend, ReplicateFail
  <2> QED  BY <1>1, <1>2, <2>1, <2>2, <2>3 DEF LeaderNext
<1>3. CASE HeartBeatNext
  <2>1. /\ UNCHANGED <<votePass, voteReq, voteRes, voteFor>>
        /\ \E s, t : \/ UNCHANGED <<status, currentTerm>>
                     \/ /\ status' = [status EXCEPT ![s] = "Follower"]
                        /\ currentTerm' = [currentTerm EXCEPT ![s] = t]
    BY <1>3 DEF HeartBeatNext, BroadCastHeartBeat, HeartBeatCallBack, AppendEntries, AppendStale,
       AppendHeartBeat, AppendBeyond, AppendMismatch, AppendTooFast, AppendAccept, Follow
  <2> QED  BY <1>1, <2>1
<1>4. CASE FollowerNext \/ ApplyNext \/ UNCHANGED vars
  <2>1. UNCHANGED <<votePass, voteReq, voteRes, voteFor, status, currentTerm>>
    BY <1>4 DEF FollowerNext, AppendWrite, AppendFinish, ApplyNext, Put, Delete, Lock, UnLock,
       Submit, CommitBegin, CommitStore, CommitAck, vars
  <2> QED  BY <1>1, <2>1
<1> QED  BY <1>2, <1>3, <1>4

\* Who leads has led in its term or wins now; who is candidate was, or asks now.
LEMMA StatusStep ==
    ASSUME NodeAssumption, TypeOK, [Next]_vars, NEW s \in Server
    PROVE  /\ status'[s] = "Leader" =>
                \/ status[s] = "Leader" /\ currentTerm'[s] = currentTerm[s]
                \/ \E m \in voteRes : m.to = s /\ WinningVote(m)
           /\ status'[s] = "Candidate" =>
                \/ VoteLeader(s)
                \/ status[s] = "Candidate" /\ currentTerm'[s] = currentTerm[s]
<1>1. CASE ElectionNext
  <2>1. ASSUME NEW u \in Server, VoteTimerHeard(u)
        PROVE  UNCHANGED <<status, currentTerm>>
    BY <2>1 DEF VoteTimerHeard
  <2>2. ASSUME NEW u \in Server, VoteLeader(u)
        PROVE  /\ status'[u] = "Candidate"
               /\ u # s => status'[s] = status[s] /\ currentTerm'[s] = currentTerm[s]
    BY <2>2 DEF VoteLeader, TypeOK, ElectionTypeOK
  <2>3. ASSUME NEW m \in voteReq, Vote(m)
        PROVE  status'[s] = "Follower" \/ (status'[s] = status[s] /\ currentTerm'[s] = currentTerm[s])
    <3>1. m.to \in Server /\ m.term \in Int /\ currentTerm[m.to] \in Int
      <4>1. m.to \in Server /\ m.term \in Terms  BY DEF TypeOK, ElectionTypeOK, VoteRequest
      <4>2. currentTerm[m.to] \in Terms  BY <4>1, NodeNumbers
      <4> QED  BY <4>1, <4>2 DEF Terms
    <3>2. CASE VoteByLeader(m) \/ VoteRefused(m)
      BY <3>2 DEF VoteByLeader, VoteRefused
    <3>3. CASE VoteDecided(m) /\ m.term > currentTerm[m.to]
      <4>1. status' = [status EXCEPT ![m.to] = "Follower"]
            /\ currentTerm' = [currentTerm EXCEPT ![m.to] = m.term]
        BY <3>3, Zenon DEF VoteDecided
      <4> QED  BY <4>1 DEF TypeOK, ElectionTypeOK
    <3>4. CASE VoteDecided(m) /\ ~(m.term > currentTerm[m.to])
      <4>1. status' = status /\ currentTerm' = [currentTerm EXCEPT ![m.to] = m.term]
            /\ m.term >= currentTerm[m.to]
        BY <3>4, Zenon DEF VoteDecided
      <4>2. m.term = currentTerm[m.to]  BY <3>1, <3>4, <4>1
      <4> QED  BY <4>1, <4>2 DEF TypeOK, ElectionTypeOK
    <3> QED  BY <2>3, <3>2, <3>3, <3>4 DEF Vote
  <2>4. ASSUME NEW m \in voteRes, VoteCallBack(m), ~WinningVote(m)
        PROVE  status'[s] = "Follower" \/ (status'[s] = status[s] /\ currentTerm'[s] = currentTerm[s])
    BY <2>4, OtherVoteIs DEF TypeOK, ElectionTypeOK
  <2>5. ASSUME NEW m \in voteRes, WinningVote(m)
        PROVE  /\ status'[m.to] = "Leader"
               /\ m.to # s => status'[s] = status[s] /\ currentTerm'[s] = currentTerm[s]
    <3>1. /\ m.to \in Server /\ status' = [status EXCEPT ![m.to] = "Leader"]
          /\ status'[m.to] = "Leader" /\ currentTerm' = currentTerm
      BY <2>5, WinningVoteIs
    <3> QED  BY <3>1 DEF TypeOK, ElectionTypeOK
  <2> QED  BY <1>1, <2>1, <2>2, <2>3, <2>4, <2>5 DEF ElectionNext
<1>2. CASE LeaderNext \/ HeartBeatNext \/ FollowerNext \/ ApplyNext \/ UNCHANGED vars
  BY <1>2, OtherStatus
<1> QED  BY <1>1, <1>2 DEF Next

\* Who wins an election now is made leader, unless it is all alone.
LEMMA WinsStep ==
    ASSUME NodeAssumption, TypeOK, ElectionInv, [Next]_vars, NEW s \in Server, NEW t \in Terms,
           Wins(s, t)', ~Wins(s, t)
    PROVE  \/ \E m \in voteRes : m.to = s /\ currentTerm[s] = t /\ WinningVote(m)
           \/ Server = {s}
<1>1. votePass'[s][t] # votePass[s][t]  BY DEF Wins
<1>2. CASE ElectionNext
  <2>1. ASSUME NEW u \in Server, VoteTimerHeard(u)
        PROVE  FALSE
    BY <1>1, <2>1 DEF VoteTimerHeard
  <2>2. ASSUME NEW m \in voteReq, Vote(m)
        PROVE  FALSE
    BY <1>1, <2>2 DEF Vote, VoteByLeader, VoteRefused, VoteDecided
  <2>3. ASSUME NEW u \in Server, VoteLeader(u)
        PROVE  Server = {s}
    <3>1. votePass' = [votePass EXCEPT ![u][currentTerm[u] + 1] = @ + 1]
      BY <2>3 DEF VoteLeader
    <3>2. votePass \in [Server -> [Terms -> Nat]]  BY DEF TypeOK, ElectionTypeOK
    <3>3. u = s /\ t = currentTerm[s] + 1 /\ votePass'[s][t] = votePass[s][t] + 1
      BY <1>1, <3>1, <3>2
    <3>4. t > currentTerm[s]  BY <3>3, NodeNumbers DEF Terms
    <3>5. votePass[s][t] = 0  BY <3>4 DEF ElectionInv, TermsInv
    <3>6. IsFiniteSet(Server) /\ Cardinality(Server) \in Nat
      BY FS_CardinalityType DEF NodeAssumption
    <3>7. 1 > Cardinality(Server) \div 2  BY <3>3, <3>5 DEF Wins, EnoughVotes
    <3>8. Cardinality(Server) <= 1  BY <3>6, <3>7
    <3>9. ASSUME NEW v \in Server, v # s  PROVE FALSE
      <4>1. IsFiniteSet({s, v}) /\ Cardinality({s, v}) = 2  BY <3>9, PairCardinality
      <4>2. Cardinality({s, v}) <= Cardinality(Server)
        BY <3>6, FS_Subset
      <4> QED  BY <3>6, <3>8, <4>1, <4>2
    <3> QED  BY <3>9
  <2>4. ASSUME NEW m \in voteRes, VoteCallBack(m)
        PROVE  m.to = s /\ currentTerm[s] = t /\ WinningVote(m)
    <3>1. VoteCounted(m)
      BY <1>1, <2>4 DEF VoteCallBack, VoteNewerTerm, VoteIgnored
    <3>2. m.to \in Server  BY DEF TypeOK, ElectionTypeOK, VoteResponse
    <3>3. votePass' = [votePass EXCEPT ![m.to][currentTerm[m.to]] =
                                votePass[m.to][currentTerm[m.to]] + 1]
      BY <3>1 DEF VoteCounted
    <3>4. m.to = s /\ currentTerm[s] = t /\ votePass'[s][t] = votePass[s][t] + 1
      BY <1>1, <3>2, <3>3 DEF TypeOK, ElectionTypeOK
    <3>5. EnoughVotes(votePass[m.to][currentTerm[m.to]] + 1)
      BY <3>4 DEF Wins, EnoughVotes
    <3> QED  BY <2>4, <3>1, <3>4, <3>5 DEF WinningVote
  <2> QED  BY <1>2, <2>1, <2>2, <2>3, <2>4 DEF ElectionNext
<1>3. CASE LeaderNext \/ HeartBeatNext \/ FollowerNext \/ ApplyNext \/ UNCHANGED vars
  BY <1>1, <1>3, OtherStatus
<1> QED  BY <1>2, <1>3 DEF Next

\* A vote goes to the node itself, when it asks for votes, or to a candidate that
\* asked for it.
VoteGiven(m, v, t) ==
    /\ Vote(m) /\ VoteDecided(m)
    /\ m.to = v /\ m.term = t

LEMMA VotesStep ==
    ASSUME NodeAssumption, TypeOK, [Next]_vars, NEW v \in Server, NEW t \in Terms
    PROVE  \/ voteFor'[v][t] = voteFor[v][t]
           \/ VoteLeader(v) /\ t = currentTerm'[v] /\ voteFor'[v][t] = v
           \/ \E m \in voteReq : VoteGiven(m, v, t) /\ voteFor'[v][t] = m.from
<1>1. CASE ElectionNext
  <2>1. ASSUME NEW u \in Server, VoteTimerHeard(u)
        PROVE  voteFor' = voteFor
    BY <2>1 DEF VoteTimerHeard
  <2>2. ASSUME NEW u \in Server, VoteLeader(u)
        PROVE  \/ voteFor'[v][t] = voteFor[v][t]
               \/ u = v /\ t = currentTerm'[v] /\ voteFor'[v][t] = v
    <3>1. /\ voteFor' = [voteFor EXCEPT ![u][currentTerm[u] + 1] = u]
          /\ currentTerm' = [currentTerm EXCEPT ![u] = currentTerm[u] + 1]
      BY <2>2 DEF VoteLeader
    <3> QED  BY <3>1 DEF TypeOK, ElectionTypeOK
  <2>3. ASSUME NEW m \in voteReq, Vote(m)
        PROVE  \/ voteFor'[v][t] = voteFor[v][t]
               \/ VoteGiven(m, v, t) /\ voteFor'[v][t] = m.from
    <3>1. CASE VoteByLeader(m) \/ VoteRefused(m)
      BY <3>1 DEF VoteByLeader, VoteRefused
    <3>2. CASE VoteDecided(m)
      <4>1. voteFor' = voteFor \/ voteFor' = [voteFor EXCEPT ![m.to][m.term] = m.from]
        BY <3>2 DEF VoteDecided, RecordVote
      <4> QED  BY <2>3, <3>2, <4>1 DEF VoteGiven, TypeOK, ElectionTypeOK
    <3> QED  BY <2>3, <3>1, <3>2 DEF Vote
  <2>4. ASSUME NEW m \in voteRes, VoteCallBack(m)
        PROVE  voteFor' = voteFor
    BY <2>4 DEF VoteCallBack, VoteCounted, VoteNewerTerm, VoteIgnored
  <2> QED  BY <1>1, <2>1, <2>2, <2>3, <2>4 DEF ElectionNext
<1>2. CASE LeaderNext \/ HeartBeatNext \/ FollowerNext \/ ApplyNext \/ UNCHANGED vars
  BY <1>2, OtherStatus
<1> QED  BY <1>1, <1>2 DEF Next

\* A request that was made stays made; it is answered by CommitAck only.
LEMMA ReplyStep ==
    ASSUME NodeAssumption, TypeOK, [Next]_vars, NEW r \in Request
    PROVE  /\ reply[r] # "idle" => reply'[r] # "idle"
           /\ reply'[r] = "ok" =>
                \/ reply[r] = "ok"
                \/ \E s \in Server : CommitAck(s) /\ status[s] = "Leader"
                      /\ \E a \in AcksAt(s, lastApplied[s] + 1) : a.done = r
<1>1. CASE UNCHANGED reply  BY <1>1
<1>2. ASSUME NEW s \in Server, NEW q \in Request, NEW op \in ReqKinds, Submit(s, q, op)
      PROVE  reply'[r] = reply[r] \/ (reply[r] = "idle" /\ reply'[r] = "sent")
  BY <1>2 DEF Submit, TypeOK, ApplyTypeOK
<1>3. ASSUME NEW s \in Server, CommitAck(s)
      PROVE  \/ reply'[r] = reply[r]
             \/ /\ reply'[r] = "ok" /\ status[s] = "Leader"
                /\ \E a \in AcksAt(s, lastApplied[s] + 1) : a.done = r
  BY <1>3 DEF CommitAck
<1>4. CASE ~ApplyNext
  <2>1. UNCHANGED reply
    <3>1. CASE ElectionNext
      BY <3>1 DEF ElectionNext, VoteTimerHeard, VoteLeader, Vote, VoteCallBack
    <3>2. CASE LeaderNext
      BY <3>2 DEF LeaderNext, ReplicateStop, ReplicateBuild, ReplicateSend, ReplicateAnswer,
         ReplicateFail
    <3>3. CASE HeartBeatNext
      BY <3>3 DEF HeartBeatNext, BroadCastHeartBeat, AppendEntries, HeartBeatCallBack
    <3>4. CASE FollowerNext
      BY <3>4 DEF FollowerNext, AppendWrite, AppendFinish
    <3>5. CASE UNCHANGED vars  BY <3>5 DEF vars
    <3> QED  BY <1>4, <3>1, <3>2, <3>3, <3>4, <3>5 DEF Next
  <2> QED  BY <2>1
<1>5. CASE ApplyNext
  <2>1. ASSUME NEW s \in Server, CommitBegin(s) \/ CommitStore(s)
        PROVE  UNCHANGED reply
    BY <2>1 DEF CommitBegin, CommitStore
  <2> QED  BY <1>2, <1>3, <1>5, <2>1, ApplyIs
<1> QED  BY <1>4, <1>5

\* Steps that leave the leader's threads alone.
LEMMA ThreadsSame ==
    ASSUME TypeOK, [Next]_vars, ~LeaderNext, ~ \E m \in voteRes : WinningVote(m)
    PROVE  UNCHANGED <<repl, nextIndex, matchIndex>>
<1>1. CASE ElectionNext
  <2>1. ASSUME NEW m \in voteRes, VoteCallBack(m)
        PROVE  UNCHANGED <<repl, nextIndex, matchIndex>>
    <3>1. ~WinningVote(m)  OBVIOUS
    <3> QED  BY <2>1, <3>1, OtherVoteIs DEF logVars
  <2> QED  BY <1>1, <2>1 DEF ElectionNext, VoteTimerHeard, VoteLeader, Vote
<1>2. CASE HeartBeatNext
  BY <1>2 DEF HeartBeatNext, BroadCastHeartBeat, AppendEntries, HeartBeatCallBack
<1>3. CASE FollowerNext  BY <1>3 DEF FollowerNext, AppendWrite, AppendFinish
<1>4. CASE ApplyNext
  BY <1>4, ApplyIs DEF Submit, CommitBegin, CommitStore, CommitAck
<1>5. CASE UNCHANGED vars  BY <1>5 DEF vars
<1> QED  BY <1>1, <1>2, <1>3, <1>4, <1>5 DEF Next

\* What StartReplicaLog does to a thread and to what the leader knows.
LEMMA StartedThreads ==
    ASSUME TypeOK, NEW s \in Server, StartReplicaLog(s)
    PROVE  /\ \A u, f \in Server :
                 \/ repl'[u][f] = repl[u][f] /\ matchIndex'[u][f] = matchIndex[u][f]
                 \/ u = s /\ f # s /\ repl[s][f].pc = "none"
           /\ \A f \in Server \ {s} : repl[s][f].pc = "none" => matchIndex'[s][f] = -1
<1> PICK fresh : fresh = Server \ (Replicating(s) \cup {s})  OBVIOUS
<1>1. /\ matchIndex' = [matchIndex EXCEPT ![s] =
             [f \in Server |-> IF f \in fresh THEN -1 ELSE @[f]]]
      /\ repl' = [repl EXCEPT ![s] = [f \in Server |-> IF f \in fresh THEN LoopHead(TRUE) ELSE @[f]]]
  BY DEF StartReplicaLog
<1>2. /\ \A u, f \in Server :
            repl'[u][f] = IF u = s /\ f \in fresh THEN LoopHead(TRUE) ELSE repl[u][f]
      /\ \A u, f \in Server :
            matchIndex'[u][f] = IF u = s /\ f \in fresh THEN -1 ELSE matchIndex[u][f]
  BY <1>1 DEF TypeOK, ReplicationTypeOK
<1>3. \A f \in Server : f \in fresh <=> f # s /\ repl[s][f].pc = "none"
  BY DEF Replicating
<1>4. ASSUME NEW u \in Server, NEW f \in Server
      PROVE  \/ repl'[u][f] = repl[u][f] /\ matchIndex'[u][f] = matchIndex[u][f]
             \/ u = s /\ f # s /\ repl[s][f].pc = "none"
  <2>1. CASE u = s /\ f \in fresh  BY <1>2, <1>3, <2>1
  <2>2. CASE ~(u = s /\ f \in fresh)  BY <1>2, <2>2
  <2> QED  BY <2>1, <2>2
<1>5. \A f \in Server \ {s} : repl[s][f].pc = "none" => matchIndex'[s][f] = -1
  BY <1>2, <1>3
<1> QED  BY <1>4, <1>5

\* The answer that a thread takes.
Takes(s, f, m) ==
    /\ repl[s][f].pc = "sent" /\ m \in appendRes /\ m.from = f /\ m.to = s
    /\ appendRes' = appendRes \ {m}
    /\ \/ ReplicateNewerTerm(s, f, m)
       \/ ReplicateNotLeader(s, f, m)
       \/ ReplicateSuccess(s, f, m)
       \/ ReplicateBusy(s, f, m)
       \/ ReplicateBackoff(s, f, m)

\* A thread sends, stops or takes an answer; it is started for a new leader.
LEMMA ThreadsStep ==
    ASSUME NodeAssumption, TypeOK, [Next]_vars, fails' = fails, NEW s \in Server, NEW f \in Server
    PROVE  \/ repl'[s][f] = repl[s][f]
           \/ repl[s][f].pc \in {"loop", "built"} /\ LeaderNext
           \/ /\ repl[s][f].pc = "none" /\ f # s
              /\ \E m \in voteRes : m.to = s /\ WinningVote(m)
           \/ \E m \in appendRes : ReplicateAnswer(s, f) /\ Takes(s, f, m)
<1>1. CASE LeaderNext
  <2>1. ASSUME NEW u \in Server, NEW g \in Server,
               ReplicateStop(u, g) \/ ReplicateBuild(u, g) \/ ReplicateSend(u, g)
        PROVE  repl'[s][f] = repl[s][f] \/ repl[s][f].pc \in {"loop", "built"}
    <3>1. repl[u][g].pc \in {"loop", "built"}
      BY <2>1 DEF ReplicateStop, ReplicateBuild, ReplicateSend
    <3>2. \E th : repl' = [repl EXCEPT ![u][g] = th]
      BY <2>1 DEF ReplicateStop, ReplicateBuild, ReplicateSend
    <3> QED  BY <3>1, <3>2 DEF TypeOK, ReplicationTypeOK
  <2>2. ASSUME NEW u \in Server, NEW g \in Server, ReplicateAnswer(u, g)
        PROVE  \/ repl'[s][f] = repl[s][f]
               \/ \E m \in appendRes : ReplicateAnswer(s, f) /\ Takes(s, f, m)
    <3>1. PICK m \in appendRes : Takes(u, g, m)
      BY <2>2 DEF ReplicateAnswer, Takes
    <3>2. \E th : repl' = [repl EXCEPT ![u][g] = th]
      BY <3>1 DEF Takes, ReplicateNewerTerm, ReplicateNotLeader, ReplicateSuccess, ReplicateBusy,
         ReplicateBackoff
    <3>3. repl'[s][f] = repl[s][f] \/ (s = u /\ f = g)
      BY <3>2 DEF TypeOK, ReplicationTypeOK
    <3> QED  BY <2>2, <3>1, <3>3
  <2>3. \A u, g \in Server : ~ReplicateFail(u, g)
    BY DEF ReplicateFail, TypeOK, ApplyTypeOK, NodeAssumption
  <2> QED  BY <1>1, <2>1, <2>2, <2>3 DEF LeaderNext
<1>2. ASSUME NEW m \in voteRes, WinningVote(m)
      PROVE  \/ repl'[s][f] = repl[s][f]
             \/ m.to = s /\ f # s /\ repl[s][f].pc = "none"
  <2>1. m.to \in Server /\ StartReplicaLog(m.to)  BY <1>2, WinningVoteIs
  <2> QED  BY <2>1, StartedThreads
<1>3. CASE ~LeaderNext /\ ~ \E m \in voteRes : WinningVote(m)
  BY <1>3, ThreadsSame
<1> QED  BY <1>1, <1>2, <1>3

\* What a leader knows of a member changes with an answer, and at the start.
LEMMA MatchStep ==
    ASSUME NodeAssumption, TypeOK, [Next]_vars, NEW s \in Server, NEW f \in Server
    PROVE  \/ matchIndex'[s][f] = matchIndex[s][f]
           \/ f # s /\ \E m \in voteRes : m.to = s /\ WinningVote(m)
           \/ \E m \in appendRes :
                /\ ReplicateAnswer(s, f) /\ Takes(s, f, m) /\ ReplicateSuccess(s, f, m)
                /\ matchIndex'[s][f] = NextAfter(repl[s][f].call) - 1
<1>1. CASE LeaderNext
  <2>1. ASSUME NEW u \in Server, NEW g \in Server,
               \/ ReplicateStop(u, g) \/ ReplicateBuild(u, g)
               \/ ReplicateSend(u, g) \/ ReplicateFail(u, g)
        PROVE  matchIndex' = matchIndex
    BY <2>1 DEF ReplicateStop, ReplicateBuild, ReplicateSend, ReplicateFail
  <2>2. ASSUME NEW u \in Server, NEW g \in Server, ReplicateAnswer(u, g)
        PROVE  \/ matchIndex'[s][f] = matchIndex[s][f]
               \/ \E m \in appendRes :
                    /\ ReplicateAnswer(s, f) /\ Takes(s, f, m) /\ ReplicateSuccess(s, f, m)
                    /\ matchIndex'[s][f] = NextAfter(repl[s][f].call) - 1
    <3>1. PICK m \in appendRes : Takes(u, g, m)
      BY <2>2 DEF ReplicateAnswer, Takes
    <3>2. CASE ReplicateSuccess(u, g, m)
      <4>1. matchIndex' = [matchIndex EXCEPT ![u][g] = NextAfter(repl[u][g].call) - 1]
        BY <3>2 DEF ReplicateSuccess
      <4>2. \/ matchIndex'[s][f] = matchIndex[s][f]
            \/ s = u /\ f = g /\ matchIndex'[s][f] = NextAfter(repl[s][f].call) - 1
        BY <4>1 DEF TypeOK, ReplicationTypeOK
      <4> QED  BY <2>2, <3>1, <3>2, <4>2
    <3>3. CASE ~ReplicateSuccess(u, g, m)
      BY <3>1, <3>3 DEF Takes, ReplicateNewerTerm, ReplicateNotLeader, ReplicateBusy,
         ReplicateBackoff
    <3> QED  BY <3>2, <3>3
  <2> QED  BY <1>1, <2>1, <2>2 DEF LeaderNext
<1>2. ASSUME NEW m \in voteRes, WinningVote(m)
      PROVE  matchIndex'[s][f] = matchIndex[s][f] \/ (m.to = s /\ f # s)
  <2>1. m.to \in Server /\ StartReplicaLog(m.to)  BY <1>2, WinningVoteIs
  <2> QED  BY <2>1, StartedThreads
<1>3. CASE ~LeaderNext /\ ~ \E m \in voteRes : WinningVote(m)
  BY <1>3, ThreadsSame
<1> QED  BY <1>1, <1>2, <1>3

\* A new answer has the term of the node that gives it, or a later one.
LEMMA AnswersStep ==
    ASSUME NodeAssumption, TypeOK, [Next]_vars,
           \A s \in Server : \A h \in appending[s] : h.req.to = s
    PROVE  \A m \in appendRes' : m \in appendRes \/ m.term >= currentTerm[m.from]
<1>1. CASE appendRes' \subseteq appendRes  BY <1>1
<1>2. ASSUME NEW m \in appendReq, AppendEntries(m)
      PROVE  \A r \in appendRes' : r \in appendRes \/ r.term >= currentTerm[r.from]
  <2>1. m.to \in Server /\ currentTerm[m.to] \in Int /\ m.term \in Int
    <3>1. m.to \in Server /\ m.term \in Terms  BY DEF TypeOK, ReplicationTypeOK, AppendRequest
    <3>2. currentTerm[m.to] \in Terms  BY <3>1, NodeNumbers
    <3> QED  BY <3>1, <3>2 DEF Terms
  <2>2. ASSUME NEW t \in Int, t >= currentTerm[m.to], NEW success, NEW busy, NEW len,
               AppendAnswer(m, t, success, busy, len)
        PROVE  \A r \in appendRes' : r \in appendRes \/ r.term >= currentTerm[r.from]
    <3>1. \/ appendRes' = appendRes
          \/ appendRes' = appendRes \cup {[from |-> m.to, to |-> m.from, term |-> t,
                                           success |-> success, busy |-> busy, len |-> len]}
      BY <2>2 DEF AppendAnswer
    <3> QED  BY <2>2, <3>1
  <2>3. currentTerm[m.to] >= currentTerm[m.to]  BY <2>1
  <2>4. CASE AppendStale(m)  BY <2>1, <2>2, <2>3, <2>4 DEF AppendStale
  <2>5. CASE AppendHeartBeat(m)  BY <2>1, <2>2, <2>5 DEF AppendHeartBeat, Follow
  <2>6. CASE AppendBeyond(m)  BY <2>1, <2>2, <2>6 DEF AppendBeyond, Follow
  <2>7. CASE AppendMismatch(m)  BY <2>1, <2>2, <2>7 DEF AppendMismatch, Follow
  <2>8. CASE AppendTooFast(m)  BY <2>1, <2>2, <2>8 DEF AppendTooFast, Follow
  <2>9. CASE AppendAccept(m)  BY <1>1, <2>9 DEF AppendAccept
  <2> QED  BY <1>2, <2>4, <2>5, <2>6, <2>7, <2>8, <2>9 DEF AppendEntries
<1>3. ASSUME NEW s \in Server, NEW h \in appending[s], AppendFinish(s, h)
      PROVE  \A r \in appendRes' : r \in appendRes \/ r.term >= currentTerm[r.from]
  <2>1. h.req.to = s /\ currentTerm[s] \in Int  BY NodeNumbers DEF Terms
  <2>2. \/ appendRes' = appendRes
        \/ appendRes' = appendRes \cup {[from |-> h.req.to, to |-> h.req.from, term |-> currentTerm[s],
                                         success |-> TRUE, busy |-> FALSE, len |-> 0]}
    BY <1>3 DEF AppendFinish, AppendAnswer, FinishTerm
  <2> QED  BY <2>1, <2>2
<1>4. CASE ElectionNext
  BY <1>1, <1>4 DEF ElectionNext, VoteTimerHeard, VoteLeader, Vote, VoteCallBack
<1>5. CASE LeaderNext
  <2>1. ASSUME NEW s \in Server, NEW f \in Server, ReplicateAnswer(s, f) \/ ReplicateFail(s, f)
        PROVE  appendRes' \subseteq appendRes
    BY <2>1 DEF ReplicateAnswer, ReplicateFail
  <2>2. ASSUME NEW s \in Server, NEW f \in Server,
               ReplicateStop(s, f) \/ ReplicateBuild(s, f) \/ ReplicateSend(s, f)
        PROVE  appendRes' = appendRes
    BY <2>2 DEF ReplicateStop, ReplicateBuild, ReplicateSend
  <2> QED  BY <1>1, <1>5, <2>1, <2>2 DEF LeaderNext
<1>6. CASE HeartBeatNext
  BY <1>1, <1>2, <1>6 DEF HeartBeatNext, BroadCastHeartBeat, HeartBeatCallBack
<1>7. CASE FollowerNext  BY <1>1, <1>3, <1>7 DEF FollowerNext, AppendWrite
<1>8. CASE ApplyNext
  BY <1>1, <1>8, ApplyIs DEF Submit, CommitBegin, CommitStore, CommitAck
<1>9. CASE UNCHANGED vars  BY <1>1, <1>9 DEF vars
<1> QED  BY <1>4, <1>5, <1>6, <1>7, <1>8, <1>9 DEF Next

\* Who calls a member up to index committed counted the members that confirmed it.
CountedAt(s, index) ==
    /\ index > commitIndex[s] /\ commitIndex'[s] = index
    /\ Cardinality({u \in Server : matchIndex'[s][u] = index}) >= Cardinality(Server) \div 2

LEMMA CommitStep ==
    ASSUME NodeAssumption, TypeOK, [Next]_vars, NEW s \in Server,
           \A u \in Server : \A h \in appending[u] : h.req.to = u
    PROVE  \/ commitIndex'[s] = commitIndex[s]
           \/ \E m \in appendReq : m.to = s /\ status'[s] = "Follower"
           \/ \E h \in appending[s] : AppendFinish(s, h)
           \/ \E f \in Server, m \in appendRes :
                ReplicateSuccess(s, f, m) /\ CountedAt(s, NextAfter(repl[s][f].call) - 1)
<1>1. CASE UNCHANGED commitIndex  BY <1>1
<1>2. ASSUME NEW m \in appendReq, AppendEntries(m)
      PROVE  \/ commitIndex'[s] = commitIndex[s]
             \/ m.to = s /\ status'[s] = "Follower"
  <2>1. CASE AppendHeartBeat(m)
    <3>1. status' = [status EXCEPT ![m.to] = "Follower"]
          /\ \E c : commitIndex' = [commitIndex EXCEPT ![m.to] = c]
      BY <2>1 DEF AppendHeartBeat, Follow, CommitUpTo
    <3> QED  BY <3>1 DEF TypeOK, ElectionTypeOK, ApplyTypeOK
  <2> QED  BY <1>2, <2>1 DEF AppendEntries, AppendStale, AppendBeyond, AppendMismatch, AppendTooFast,
     AppendAccept
<1>3. ASSUME NEW u \in Server, NEW h \in appending[u], AppendFinish(u, h)
      PROVE  u = s \/ commitIndex'[s] = commitIndex[s]
  <2>1. h.req.to = u /\ \E c : commitIndex' = [commitIndex EXCEPT ![h.req.to] = c]
    BY <1>3 DEF AppendFinish, CommitUpTo
  <2> QED  BY <2>1 DEF TypeOK, ApplyTypeOK
<1>4. ASSUME NEW u \in Server, NEW f \in Server, ReplicateAnswer(u, f)
      PROVE  \/ commitIndex'[s] = commitIndex[s]
             \/ u = s /\ \E m \in appendRes :
                    ReplicateSuccess(s, f, m) /\ CountedAt(s, NextAfter(repl[s][f].call) - 1)
  <2>1. PICK m \in appendRes : Takes(u, f, m)  BY <1>4 DEF ReplicateAnswer, Takes
  <2>2. CASE ReplicateSuccess(u, f, m)
    <3> PICK index : index = NextAfter(repl[u][f].call) - 1  OBVIOUS
    <3>1. \/ commitIndex' = commitIndex
          \/ /\ Cardinality({x \in Server : matchIndex'[u][x] = index}) >= Cardinality(Server) \div 2
             /\ index > commitIndex[u] /\ commitIndex' = [commitIndex EXCEPT ![u] = index]
      BY <2>2 DEF ReplicateSuccess, UpdateCommitIndex
    <3>2. CASE commitIndex' # commitIndex
      <4>1. commitIndex' = [commitIndex EXCEPT ![u] = index]  BY <3>1, <3>2
      <4>2. u = s => commitIndex'[s] = index  BY <4>1 DEF TypeOK, ApplyTypeOK
      <4>3. u # s => commitIndex'[s] = commitIndex[s]  BY <4>1 DEF TypeOK, ApplyTypeOK
      <4>4. CountedAt(u, index) \/ u # s  BY <3>1, <3>2, <4>2 DEF CountedAt
      <4> QED  BY <2>2, <4>3, <4>4
    <3> QED  BY <3>2
  <2>3. CASE ~ReplicateSuccess(u, f, m)
    BY <2>1, <2>3 DEF Takes, ReplicateNewerTerm, ReplicateNotLeader, ReplicateBusy, ReplicateBackoff
  <2> QED  BY <2>2, <2>3
<1>5. CASE ElectionNext
  BY <1>1, <1>5 DEF ElectionNext, VoteTimerHeard, VoteLeader, Vote, VoteCallBack
<1>6. CASE LeaderNext
  <2>1. ASSUME NEW u \in Server, NEW f \in Server,
               \/ ReplicateStop(u, f) \/ ReplicateBuild(u, f)
               \/ ReplicateSend(u, f) \/ ReplicateFail(u, f)
        PROVE  commitIndex' = commitIndex
    BY <2>1 DEF ReplicateStop, ReplicateBuild, ReplicateSend, ReplicateFail
  <2> QED  BY <1>4, <1>6, <2>1 DEF LeaderNext
<1>7. CASE HeartBeatNext
  BY <1>1, <1>2, <1>7 DEF HeartBeatNext, BroadCastHeartBeat, HeartBeatCallBack
<1>8. CASE FollowerNext  BY <1>1, <1>3, <1>8 DEF FollowerNext, AppendWrite
<1>9. CASE ApplyNext
  BY <1>1, <1>9, ApplyIs DEF Submit, CommitBegin, CommitStore, CommitAck
<1>10. CASE UNCHANGED vars  BY <1>1, <1>10 DEF vars
<1> QED  BY <1>5, <1>6, <1>7, <1>8, <1>9, <1>10 DEF Next

\* What a call at work at s was before the step.
LEMMA AppendingStep ==
    ASSUME NodeAssumption, TypeOK, [Next]_vars, fails' = fails, NEW s \in Server
    PROVE  \A h \in appending'[s] :
              \/ \E g \in appending[s] : h.req = g.req
              \/ /\ h.req \in appendReq /\ h.req.to = s /\ h.req.entries # << >>
                 /\ currentTerm'[s] = h.req.term /\ status'[s] = "Follower"
<1>1. CASE UNCHANGED appending  BY <1>1
<1>2. CASE ElectionNext
  BY <1>1, <1>2 DEF ElectionNext, VoteTimerHeard, VoteLeader, Vote, VoteCallBack
<1>3. CASE LeaderNext
  <2>1. \A u, g \in Server : ~ReplicateFail(u, g)
    BY DEF ReplicateFail, TypeOK, ApplyTypeOK, NodeAssumption
  <2> QED  BY <1>1, <1>3, <2>1 DEF LeaderNext, ReplicateStop, ReplicateBuild, ReplicateSend,
     ReplicateAnswer
<1>4. ASSUME NEW m \in appendReq, AppendAccept(m)
      PROVE  \A h \in appending'[s] :
                \/ \E g \in appending[s] : h.req = g.req
                \/ /\ h.req \in appendReq /\ h.req.to = s /\ h.req.entries # << >>
                   /\ currentTerm'[s] = h.req.term /\ status'[s] = "Follower"
  <2>1. /\ appending' = [appending EXCEPT ![m.to] = @ \cup {[req |-> m, pc |-> "write"]}]
        /\ m.entries # << >>
        /\ status' = [status EXCEPT ![m.to] = "Follower"]
        /\ currentTerm' = [currentTerm EXCEPT ![m.to] = m.term]
    BY <1>4 DEF AppendAccept, Follow
  <2>2. CASE m.to = s
    <3>1. appending'[s] = appending[s] \cup {[req |-> m, pc |-> "write"]}
          /\ status'[s] = "Follower" /\ currentTerm'[s] = m.term
      BY <2>1, <2>2 DEF TypeOK, ElectionTypeOK, ReplicationTypeOK
    <3> QED  BY <2>1, <2>2, <3>1
  <2>3. CASE m.to # s
    <3>1. appending'[s] = appending[s]  BY <2>1, <2>3 DEF TypeOK, ReplicationTypeOK
    <3> QED  BY <3>1
  <2> QED  BY <2>2, <2>3
<1>5. CASE HeartBeatNext
  BY <1>1, <1>4, <1>5 DEF HeartBeatNext, BroadCastHeartBeat, HeartBeatCallBack, AppendEntries,
     AppendStale, AppendHeartBeat, AppendBeyond, AppendMismatch, AppendTooFast
<1>6. ASSUME NEW u \in Server, NEW h \in appending[u], AppendWrite(u, h) \/ AppendFinish(u, h)
      PROVE  \A k \in appending'[s] : \E g \in appending[s] : k.req = g.req
  <2>1. h \in Appending  BY DEF TypeOK, ReplicationTypeOK
  <2>2. [h EXCEPT !.pc = "finish"].req = h.req  BY <2>1 DEF Appending
  <2> PICK g : g = [h EXCEPT !.pc = "finish"]  OBVIOUS
  <2>3. \/ appending' = [appending EXCEPT ![u] = (@ \ {h}) \cup {g}]
        \/ appending' = [appending EXCEPT ![u] = @ \ {h}]
    BY <1>6 DEF AppendWrite, AppendFinish
  <2>4. appending'[s] \subseteq appending[s] \/ (s = u /\ appending'[s] \subseteq appending[s] \cup {g})
    BY <2>3 DEF TypeOK, ReplicationTypeOK
  <2> QED  BY <2>2, <2>4
<1>7. CASE FollowerNext  BY <1>6, <1>7 DEF FollowerNext
<1>8. CASE ApplyNext
  BY <1>1, <1>8, ApplyIs DEF Submit, CommitBegin, CommitStore, CommitAck
<1>9. CASE UNCHANGED vars  BY <1>1, <1>9 DEF vars
<1> QED  BY <1>2, <1>3, <1>5, <1>7, <1>8, <1>9 DEF Next

\* A call is noted by Submit only.
LEMMA AcksStep ==
    ASSUME NodeAssumption, TypeOK, [Next]_vars, NEW s \in Server
    PROVE  \/ sdkAck'[s] \subseteq sdkAck[s]
           \/ \E r \in Request, op \in ReqKinds : Submit(s, r, op)
<1>1. CASE UNCHANGED sdkAck  BY <1>1
<1>2. ASSUME NEW u \in Server, NEW r \in Request, NEW op \in ReqKinds, Submit(u, r, op)
      PROVE  u = s \/ sdkAck'[s] = sdkAck[s]
  <2>1. \E S : sdkAck' = [sdkAck EXCEPT ![u] = S]  BY <1>2 DEF Submit
  <2> QED  BY <2>1 DEF TypeOK, ApplyTypeOK
<1>3. ASSUME NEW u \in Server, CommitAck(u)
      PROVE  sdkAck'[s] \subseteq sdkAck[s]
  <2>1. CASE sdkAck' = sdkAck  BY <2>1
  <2>2. ASSUME NEW S, sdkAck' = [sdkAck EXCEPT ![u] = @ \ S]
        PROVE  sdkAck'[s] \subseteq sdkAck[s]
    <3>1. sdkAck'[s] = IF s = u THEN sdkAck[u] \ S ELSE sdkAck[s]
      BY <2>2 DEF TypeOK, ApplyTypeOK
    <3> QED  BY <3>1
  <2>3. sdkAck' = sdkAck \/ \E S : sdkAck' = [sdkAck EXCEPT ![u] = @ \ S]
    BY <1>3 DEF CommitAck
  <2> QED  BY <2>1, <2>2, <2>3
<1>4. CASE ElectionNext
  BY <1>1, <1>4 DEF ElectionNext, VoteTimerHeard, VoteLeader, Vote, VoteCallBack
<1>5. CASE LeaderNext
  BY <1>1, <1>5 DEF LeaderNext, ReplicateStop, ReplicateBuild, ReplicateSend, ReplicateAnswer,
     ReplicateFail
<1>6. CASE HeartBeatNext
  BY <1>1, <1>6 DEF HeartBeatNext, BroadCastHeartBeat, AppendEntries, HeartBeatCallBack
<1>7. CASE FollowerNext  BY <1>1, <1>7 DEF FollowerNext, AppendWrite, AppendFinish
<1>8. CASE ApplyNext
  <2>1. ASSUME NEW u \in Server, CommitBegin(u) \/ CommitStore(u)
        PROVE  UNCHANGED sdkAck
    BY <2>1 DEF CommitBegin, CommitStore
  <2> QED  BY <1>1, <1>2, <1>3, <1>8, <2>1, ApplyIs
<1>9. CASE UNCHANGED vars  BY <1>1, <1>9 DEF vars
<1> QED  BY <1>4, <1>5, <1>6, <1>7, <1>8, <1>9 DEF Next

\* The steps that change the log of s.
LEMMA LogStep ==
    ASSUME NodeAssumption, TypeOK, [Next]_vars, NEW s \in Server
    PROVE  \/ binlog'[s] = binlog[s]
           \/ \E m \in voteRes : m.to = s /\ WinningVote(m)
           \/ \E r \in Request, op \in ReqKinds : Submit(s, r, op)
           \/ \E h \in appending[s] : AppendWrite(s, h)
           \/ \E m \in appendReq : m.to = s /\ AppendMismatch(m)
<1>1. CASE UNCHANGED binlog  BY <1>1
<1>2. ASSUME NEW u, \E b : binlog' = [binlog EXCEPT ![u] = b]
      PROVE  u = s \/ binlog'[s] = binlog[s]
  BY <1>2 DEF TypeOK, LogTypeOK
<1>3. CASE ElectionNext
  <2>1. ASSUME NEW m \in voteRes, WinningVote(m)
        PROVE  m.to = s \/ binlog'[s] = binlog[s]
    <3>1. StartReplicaLog(m.to)  BY <2>1, WinningVoteIs
    <3>2. binlog' = [binlog EXCEPT ![m.to] = WriteEntry(binlog[m.to], NopEntry(currentTerm[m.to]))]
      BY <3>1 DEF StartReplicaLog
    <3> QED  BY <1>2, <3>2
  <2>2. ASSUME NEW m \in voteRes, VoteCallBack(m), ~WinningVote(m)
        PROVE  UNCHANGED binlog
    BY <2>2, OtherVoteIs DEF logVars
  <2> QED  BY <1>1, <1>3, <2>1, <2>2 DEF ElectionNext, VoteTimerHeard, VoteLeader, Vote
<1>4. CASE LeaderNext
  BY <1>1, <1>4 DEF LeaderNext, ReplicateStop, ReplicateBuild, ReplicateSend, ReplicateAnswer,
     ReplicateFail
<1>5. CASE HeartBeatNext
  <2>1. ASSUME NEW m \in appendReq, AppendMismatch(m)
        PROVE  m.to = s \/ binlog'[s] = binlog[s]
    <3>1. binlog' = [binlog EXCEPT ![m.to] = Truncate(binlog[m.to], m.prev - 1)]
      BY <2>1 DEF AppendMismatch
    <3> QED  BY <1>2, <3>1
  <2> QED  BY <1>1, <1>5, <2>1 DEF HeartBeatNext, BroadCastHeartBeat, HeartBeatCallBack,
     AppendEntries, AppendStale, AppendHeartBeat, AppendBeyond, AppendTooFast, AppendAccept
<1>6. CASE FollowerNext
  <2>1. ASSUME NEW u \in Server, NEW h \in appending[u], AppendWrite(u, h)
        PROVE  u = s \/ binlog'[s] = binlog[s]
    <3>1. binlog' = [binlog EXCEPT ![u] = WriteEntryList(binlog[u], h.req.entries)]
      BY <2>1 DEF AppendWrite
    <3> QED  BY <1>2, <3>1
  <2> QED  BY <1>1, <1>6, <2>1 DEF FollowerNext, AppendFinish
<1>7. CASE ApplyNext
  <2>1. ASSUME NEW u \in Server, NEW r \in Request, NEW op \in ReqKinds, Submit(u, r, op)
        PROVE  u = s \/ binlog'[s] = binlog[s]
    <3>1. \E b : binlog' = [binlog EXCEPT ![u] = b]  BY <2>1 DEF Submit
    <3> QED  BY <1>2, <3>1
  <2>2. ASSUME NEW u \in Server, CommitBegin(u) \/ CommitStore(u) \/ CommitAck(u)
        PROVE  UNCHANGED binlog
    BY <2>2 DEF CommitBegin, CommitStore, CommitAck
  <2> QED  BY <1>1, <1>7, <2>1, <2>2, ApplyIs
<1>8. CASE UNCHANGED vars  BY <1>1, <1>8 DEF vars
<1> QED  BY <1>3, <1>4, <1>5, <1>6, <1>7, <1>8 DEF Next

\* A log that is not truncated only grows.
LEMMA LogGrows ==
    ASSUME NodeAssumption, TypeOK, [Next]_vars, NEW s \in Server,
           ~ \E m \in appendReq : m.to = s /\ AppendMismatch(m)
    PROVE  Extends(Entries(binlog'[s]), Entries(binlog[s]))
<1>1. CASE binlog'[s] = binlog[s]  BY <1>1, SameLog DEF TypeOK
<1>2. ASSUME NEW e \in Entry, binlog' = [binlog EXCEPT ![s] = WriteEntry(@, e)]
      PROVE  Extends(Entries(binlog'[s]), Entries(binlog[s]))
  <2>1. <<e>> \in Seq(Entry) /\ <<e>> # << >>  OBVIOUS
  <2>2. binlog' = [binlog EXCEPT ![s] = WriteEntryList(@, <<e>>)]  BY <1>2 DEF WriteEntry
  <2> QED  BY <2>1, <2>2, WrittenLog DEF TypeOK
<1>3. ASSUME NEW m \in voteRes, m.to = s, WinningVote(m)
      PROVE  Extends(Entries(binlog'[s]), Entries(binlog[s]))
  <2>1. StartReplicaLog(s) /\ currentTerm[s] \in Terms  BY <1>3, WinningVoteIs
  <2>2. binlog' = [binlog EXCEPT ![s] = WriteEntry(@, NopEntry(currentTerm[s]))]
    BY <2>1 DEF StartReplicaLog
  <2>3. NopEntry(currentTerm[s]) \in Entry  BY <2>1 DEF NopEntry, Entry
  <2> QED  BY <1>2, <2>2, <2>3
<1>4. ASSUME NEW r \in Request, NEW op \in ReqKinds, Submit(s, r, op)
      PROVE  Extends(Entries(binlog'[s]), Entries(binlog[s]))
  <2>1. [term |-> currentTerm[s], op |-> op, req |-> r] \in Entry  BY NodeNumbers DEF Entry
  <2>2. binlog' = [binlog EXCEPT ![s] =
                     WriteEntry(@, [term |-> currentTerm[s], op |-> op, req |-> r])]
    BY <1>4 DEF Submit
  <2> QED  BY <1>2, <2>1, <2>2
<1>5. ASSUME NEW h \in appending[s], AppendWrite(s, h)
      PROVE  Extends(Entries(binlog'[s]), Entries(binlog[s]))
  <2>1. h.req.entries \in Seq(Entry) /\ h.req.entries # << >>
    BY DEF TypeOK, ReplicationTypeOK, Appending, AppendRequest
  <2>2. binlog' = [binlog EXCEPT ![s] = WriteEntryList(@, h.req.entries)]
    BY <1>5 DEF AppendWrite
  <2> QED  BY <2>1, <2>2, WrittenLog DEF TypeOK
<1> QED  BY <1>1, <1>3, <1>4, <1>5, LogStep

\* What extending a log means for its slots, its length and its requests.
LEMMA ExtendsIs ==
    ASSUME TypeOK, TypeOK', NEW s \in Server, Extends(Entries(binlog'[s]), Entries(binlog[s]))
    PROVE  /\ binlog[s].len <= binlog'[s].len
           /\ \A i \in 1 .. binlog[s].len : binlog'[s].slot[i] = binlog[s].slot[i]
           /\ \A r : InLog(s, r) => InLog(s, r)'
<1>1. binlog[s] \in BinLogs(Entry, Terms) /\ binlog'[s] \in BinLogs(Entry, Terms)
  BY DEF TypeOK, LogTypeOK
<1>2. binlog[s].len \in Nat /\ binlog'[s].len \in Nat  BY <1>1 DEF BinLogs
<1>3. /\ Entries(binlog[s]) \in Seq(Entry) /\ Len(Entries(binlog[s])) = binlog[s].len
      /\ \A i \in 1 .. binlog[s].len : Entries(binlog[s])[i] = binlog[s].slot[i]
  BY <1>1, EntriesOf
<1>4. /\ Entries(binlog'[s]) \in Seq(Entry) /\ Len(Entries(binlog'[s])) = binlog'[s].len
      /\ \A i \in 1 .. binlog'[s].len : Entries(binlog'[s])[i] = binlog'[s].slot[i]
  BY <1>1, EntriesOf
<1>5. binlog[s].len <= binlog'[s].len
      /\ Entries(binlog[s]) = SubSeq(Entries(binlog'[s]), 1, binlog[s].len)
  BY <1>3, <1>4 DEF Extends
<1>6. ASSUME NEW i \in 1 .. binlog[s].len
      PROVE  binlog'[s].slot[i] = binlog[s].slot[i]
  <2> PICK long : long = Entries(binlog'[s])  OBVIOUS
  <2> PICK n \in Nat : n = binlog[s].len  BY <1>2
  <2> PICK k \in Nat : k = binlog'[s].len  BY <1>2
  <2>1. long \in Seq(Entry) /\ Len(long) = k /\ n <= k /\ i \in 1 .. n
    BY <1>4, <1>5
  <2>2. SubSeq(long, 1, n)[i] = long[i]
    <3>1. 1 \in Int /\ n \in Int /\ i \in 1 .. n - 1 + 1 /\ 1 + i - 1 = i  OBVIOUS
    <3>2. \A j \in 1 .. n : long[j] \in Entry
      <4> TAKE j \in 1 .. n
      <4>1. j \in 1 .. Len(long)  BY <2>1
      <4> QED  BY <2>1, <4>1, ElementOfSeq
    <3> QED  BY <3>1, <3>2, SubSeqProperties
  <2>3. i \in 1 .. k  BY <2>1
  <2> QED  BY <1>3, <1>4, <1>5, <2>1, <2>2, <2>3
<1>7. ASSUME NEW r, InLog(s, r)  PROVE InLog(s, r)'
  <2>1. PICK i \in 1 .. binlog[s].len : Entries(binlog[s])[i].req = r
    BY <1>7 DEF InLog, GetLength
  <2>2. i \in 1 .. binlog'[s].len  BY <1>2, <1>5
  <2>3. Entries(binlog'[s])[i].req = r  BY <1>3, <1>4, <1>6, <2>1, <2>2
  <2> QED  BY <2>2, <2>3 DEF InLog, GetLength
<1> QED  BY <1>5, <1>6, <1>7

LEMMA InLogIs ==
    ASSUME TypeOK, NEW s \in Server, NEW r
    PROVE  InLog(s, r) <=> \E i \in 1 .. binlog[s].len : binlog[s].slot[i].req = r
<1>1. \A i \in 1 .. binlog[s].len : Entries(binlog[s])[i] = binlog[s].slot[i]
  BY EntriesOf, LogFacts
<1> QED  BY <1>1 DEF InLog, GetLength

-----------------------------------------------------------------------------
\* What is so in every behaviour without a failed call.

LEMMA InitFacts == ASSUME Init PROVE NodeFacts
<1>1. \A s \in Server : matchIndex[s][s] = 0 /\ repl[s][s].pc = "none"
  BY DEF Init, NoThread
<1>2. \A s \in Server : binlog[s].slot = << >> /\ appending[s] = {} /\ sdkAck[s] = {}
  BY DEF Init, NewBinLog
<1>3. appendReq = {}  BY DEF Init
<1>4. Written = {}
  <2>1. Range(<< >>) = {}  BY DEF Range
  <2> QED  BY <1>2, <1>3, <2>1 DEF Written
<1>5. \A v, c \in Server : \A t \in Terms : voteFor[v][t] # c
  BY NodeAssumption DEF Init, NodeAssumption
<1> QED  BY <1>1, <1>2, <1>4, <1>5 DEF NodeFacts

LEMMA StepFacts ==
    ASSUME NodeAssumption, TypeOK, NoBadSlot, ElectionInv, NodeFacts, TypeOK', [Next]_vars,
           fails' = fails
    PROVE  NodeFacts'
<1>1. ASSUME NEW s \in Server
      PROVE  matchIndex'[s][s] = 0 /\ repl'[s][s].pc = "none"
  <2>1. matchIndex[s][s] = 0 /\ repl[s][s].pc = "none"  BY DEF NodeFacts
  <2>2. repl'[s][s] = repl[s][s]
    <3>1. \A m \in appendRes : ~Takes(s, s, m)  BY <2>1 DEF Takes
    <3> QED  BY <2>1, <3>1, ThreadsStep
  <2>3. matchIndex'[s][s] = matchIndex[s][s]
    <3>1. \A m \in appendRes : ~Takes(s, s, m)  BY <2>1 DEF Takes
    <3> QED  BY <3>1, MatchStep
  <2> QED  BY <2>1, <2>2, <2>3
<1>2. ASSUME NEW s \in Server, NEW h \in appending'[s]
      PROVE  h.req.to = s
  BY AppendingStep DEF NodeFacts
<1>3. ASSUME NEW v \in Server, NEW c \in Server, NEW t \in Terms, voteFor'[v][t] = c
      PROVE  t <= currentTerm'[c]
  <2>1. /\ currentTerm'[c] >= currentTerm[c] /\ currentTerm'[v] >= currentTerm[v]
        /\ currentTerm[c] \in Int /\ currentTerm'[c] \in Int /\ t \in Int
    <3>1. currentTerm \in [Server -> Terms] /\ currentTerm' \in [Server -> Terms]
      BY DEF TypeOK, ElectionTypeOK
    <3> QED  BY <3>1, StepTerms DEF Terms
  <2>2. CASE voteFor'[v][t] = voteFor[v][t]
    <3>1. t <= currentTerm[c]  BY <1>3, <2>2 DEF NodeFacts
    <3> QED  BY <2>1, <3>1
  <2>3. CASE t = currentTerm'[v] /\ voteFor'[v][t] = v
    BY <1>3, <2>1, <2>3
  <2>4. ASSUME NEW m \in voteReq, VoteGiven(m, v, t), voteFor'[v][t] = m.from
        PROVE  t <= currentTerm'[c]
    <3>1. m.from = c /\ m.term = t  BY <1>3, <2>4 DEF VoteGiven
    <3>2. ~(t > currentTerm[c])  BY <3>1 DEF ElectionInv, TermsInv
    <3> QED  BY <2>1, <3>2
  <2> QED  BY <2>2, <2>3, <2>4, VotesStep
<1>4. ASSUME NEW e \in Written', e.req # Nil
      PROVE  reply'[e.req] # "idle"
  <2>1. CASE e \in Written
    <3>1. reply[e.req] # "idle" /\ e \in Entry  BY <1>4, <2>1, WrittenEntries DEF NodeFacts
    <3>2. e.req \in Request  BY <1>4, <3>1 DEF Entry
    <3> QED  BY <3>1, <3>2, ReplyStep
  <2>2. CASE NewEntry(e)  BY <1>4, <2>2 DEF NewEntry
  <2> QED  BY <2>1, <2>2, StepWritten
<1>5. ASSUME NEW s \in Server, NEW a \in sdkAck'[s]
      PROVE  reply'[a.done] # "idle"
  <2>1. CASE a \in sdkAck[s]
    <3>1. reply[a.done] # "idle"  BY <2>1 DEF NodeFacts
    <3>2. a.done \in Request  BY <2>1 DEF TypeOK, ApplyTypeOK, Ack
    <3> QED  BY <3>1, <3>2, ReplyStep
  <2>2. ASSUME NEW r \in Request, NEW op \in ReqKinds, Submit(s, r, op), a \notin sdkAck[s]
        PROVE  reply'[a.done] # "idle"
    <3>1. \E i, k, old : sdkAck' = [sdkAck EXCEPT ![s] = (@ \ old) \cup
                                         {[index |-> i, done |-> r, kinds |-> k]}]
      BY <2>2 DEF Submit
    <3>2. a.done = r  BY <1>5, <2>2, <3>1 DEF TypeOK, ApplyTypeOK
    <3>3. reply'[r] = "sent"  BY <2>2 DEF Submit, TypeOK, ApplyTypeOK
    <3> QED  BY <3>2, <3>3
  <2> QED  BY <1>5, <2>1, <2>2, AcksStep
<1> QED  BY <1>1, <1>2, <1>3, <1>4, <1>5 DEF NodeFacts

-----------------------------------------------------------------------------
\* After the second election.

\* What is known before a step when x and y have won.
Second(x, tl, y, th) ==
    /\ TypeOK /\ NoBadSlot /\ ElectionInv /\ CandidateInv
    /\ TwoWins /\ NodeFacts
    /\ Wins(x, tl) /\ Wins(y, th)
    /\ tl < th

\* Nobody else wins.
LEMMA OnlyTwo ==
    ASSUME NodeAssumption, NEW x \in Server, NEW tl \in Terms, NEW y \in Server, NEW th \in Terms,
           Second(x, tl, y, th), x # y \/ Server # {y}, TypeOK', [Next]_vars, TwoWins'
    PROVE  \A m \in voteRes : ~WinningVote(m)
<1> SUFFICES ASSUME NEW m \in voteRes, WinningVote(m)
             PROVE  FALSE
  OBVIOUS
<1> PICK s, w : s = m.to /\ w = currentTerm[m.to]  OBVIOUS
<1>1. TypeOK /\ CandidateInv  BY DEF Second
<1>2. s \in Server /\ w \in Terms /\ status[s] = "Candidate"  BY <1>1, WinningVoteIs
<1>3. currentTerm' = currentTerm /\ Wins(m.to, currentTerm[m.to])'  BY <1>1, WinningVoteIs
<1>4. Wins(s, w)'  BY <1>3 DEF Wins
<1>5. Wins(x, tl)' /\ Wins(y, th)'  BY <1>1, TwoWinsBefore DEF Second
<1>6. <<s, w>> \in Won' /\ <<x, tl>> \in Won' /\ <<y, th>> \in Won'
  BY <1>2, <1>4, <1>5 DEF Won
<1>7. <<x, tl>> # <<y, th>>  BY DEF Second, Terms
<1>8. <<s, w>> = <<x, tl>> \/ <<s, w>> = <<y, th>>  BY <1>6, <1>7 DEF TwoWins
<1>9. Wins(s, w)  BY <1>8 DEF Second
<1>10. Server = {s}  BY <1>1, <1>2, <1>9 DEF CandidateInv
<1> QED  BY <1>10

\* Who leads is x or y, each in its term.
LEMMA LeaderOfTwo ==
    ASSUME NEW x \in Server, NEW tl \in Terms, NEW y \in Server, NEW th \in Terms,
           Second(x, tl, y, th), NEW s \in Server, status[s] = "Leader"
    PROVE  (s = x /\ currentTerm[s] = tl) \/ (s = y /\ currentTerm[s] = th)
<1>1. currentTerm[s] \in Terms  BY NodeNumbers DEF Second
<1>2. Wins(s, currentTerm[s])  BY DEF Second, ElectionInv, LeaderInv, Wins
<1>3. <<s, currentTerm[s]>> \in Won /\ <<x, tl>> \in Won /\ <<y, th>> \in Won
  BY <1>1, <1>2 DEF Second, Won
<1>4. <<x, tl>> # <<y, th>>  BY DEF Second, Terms
<1>5. <<s, currentTerm[s]>> = <<x, tl>> \/ <<s, currentTerm[s]>> = <<y, th>>
  BY <1>3, <1>4 DEF Second, TwoWins
<1> QED  BY <1>5

LEMMA HoldsKept ==
    ASSUME TypeOK, TypeOK', NEW x \in Server, NEW y \in Server, NEW n \in Int,
           Extends(Entries(binlog'[x]), Entries(binlog[x])),
           Extends(Entries(binlog'[y]), Entries(binlog[y])),
           Holds(x, y, n)
    PROVE  Holds(x, y, n)'
<1>1. /\ binlog[x].len <= binlog'[x].len
      /\ \A i \in 1 .. binlog[x].len : binlog'[x].slot[i] = binlog[x].slot[i]
      /\ binlog[x].len \in Nat /\ binlog'[x].len \in Nat
  BY ExtendsIs DEF TypeOK, LogTypeOK, BinLogs
<1>2. n < binlog'[x].len  BY <1>1 DEF Holds
<1>3. ASSUME NEW i \in 1 .. n
      PROVE  InLog(y, binlog[x].slot[i + 1].req)'
  <2> PICK r : r = binlog[x].slot[i + 1].req  OBVIOUS
  <2>1. InLog(y, r)  BY DEF Holds
  <2>2. InLog(y, r)'  BY <2>1, ExtendsIs
  <2>3. i + 1 \in 1 .. binlog[x].len  BY <1>1 DEF Holds
  <2>4. binlog'[x].slot[i + 1].req = r  BY <1>1, <2>3
  <2> QED  BY <2>2, <2>4 DEF InLog
<1> QED  BY <1>2, <1>3 DEF Holds

LEMMA OldAnswersKept ==
    ASSUME NodeAssumption, NEW x \in Server, NEW tl \in Terms, NEW y \in Server, NEW th \in Terms,
           Second(x, tl, y, th), TypeOK', [Next]_vars,
           NEW v \in Server, currentTerm[v] >= th
    PROVE  OldAnswers(x, tl, v)' \subseteq OldAnswers(x, tl, v)
<1> SUFFICES ASSUME NEW m \in appendRes', m.from = v, m.to = x, m.term <= tl
             PROVE  m \in appendRes
  BY DEF OldAnswers
<1>1. m.term \in Int /\ currentTerm[v] \in Int /\ tl \in Int /\ th \in Int /\ tl < th
  BY NodeNumbers DEF TypeOK, ReplicationTypeOK, AppendResponse, Terms, Second
<1>2. m \in appendRes \/ m.term >= currentTerm[m.from]
  BY AnswersStep DEF Second, NodeFacts
<1> QED  BY <1>1, <1>2

\* A member of the newer term confirms nothing more to the older leader.
LEMMA ConfirmedStep ==
    ASSUME NodeAssumption, NEW x \in Server, NEW tl \in Terms, NEW y \in Server, NEW th \in Terms,
           Second(x, tl, y, th), x # y, TypeOK', [Next]_vars, TwoWins',
           status[x] = "Leader", status'[x] = "Leader",
           Extends(Entries(binlog'[x]), Entries(binlog[x])),
           Extends(Entries(binlog'[y]), Entries(binlog[y])),
           NEW v \in Server, currentTerm[v] >= th, ConfirmedHeld(x, tl, y, v)
    PROVE  ConfirmedHeld(x, tl, y, v)'
<1>1. TypeOK /\ \A m \in voteRes : ~WinningVote(m)  BY OnlyTwo DEF Second
<1>2. currentTerm[x] = tl
  BY LeaderOfTwo
<1>3. fails' = fails  BY <1>1, TwoWinsBefore
<1>4. \A m \in appendRes : Takes(x, v, m) => m \in OldAnswers(x, tl, v)
  <2> SUFFICES ASSUME NEW m \in appendRes, Takes(x, v, m)
               PROVE  m \in OldAnswers(x, tl, v)
    OBVIOUS
  <2>1. ~ReplicateNewerTerm(x, v, m)
    BY <1>1 DEF ReplicateNewerTerm, TypeOK, ElectionTypeOK
  <2>2. m.term <= currentTerm[x]
    BY <2>1 DEF Takes, ReplicateNotLeader, ReplicateSuccess, ReplicateBusy, ReplicateBackoff
  <2> QED  BY <1>2, <2>2 DEF Takes, OldAnswers
<1>5. /\ \A n \in Int : Holds(x, y, n) => Holds(x, y, n)'
      /\ matchIndex[x][v] \in Int
  BY <1>1, HoldsKept, NodeNumbers
<1>6. \A m \in OldAnswers(x, tl, v) :
          /\ OldAnswers(x, tl, v) = {m} /\ repl[x][v].pc = "sent"
          /\ m.success => Holds(x, y, NextAfter(repl[x][v].call) - 1)
  BY DEF ConfirmedHeld
<1>7. Holds(x, y, matchIndex[x][v])'
  <2> PICK n : n = matchIndex'[x][v]  OBVIOUS
  <2>1. Holds(x, y, n)'
    <3>1. CASE matchIndex'[x][v] = matchIndex[x][v]
      BY <1>5, <3>1 DEF ConfirmedHeld
    <3>2. ASSUME NEW m \in appendRes, Takes(x, v, m), ReplicateSuccess(x, v, m),
                 matchIndex'[x][v] = NextAfter(repl[x][v].call) - 1
          PROVE  Holds(x, y, n)'
      <4>1. m \in OldAnswers(x, tl, v) /\ m.success  BY <1>4, <3>2 DEF ReplicateSuccess
      <4>2. Holds(x, y, n)  BY <1>6, <3>2, <4>1
      <4>3. n \in Int  BY DEF TypeOK, ReplicationTypeOK
      <4> QED  BY <1>5, <4>2, <4>3
    <3> QED  BY <1>1, <3>1, <3>2, MatchStep
  <2> QED  BY <2>1 DEF Holds
<1>8. ASSUME NEW m \in OldAnswers(x, tl, v)'
      PROVE  /\ OldAnswers(x, tl, v)' = {m}
             /\ repl'[x][v].pc = "sent"
             /\ m.success => Holds(x, y, NextAfter(repl[x][v].call) - 1)'
  <2>1. OldAnswers(x, tl, v)' \subseteq OldAnswers(x, tl, v)  BY OldAnswersKept
  <2>2. m \in OldAnswers(x, tl, v)  BY <2>1
  <2>3. OldAnswers(x, tl, v) = {m} /\ repl[x][v].pc = "sent"  BY <1>6, <2>2
  <2>4. repl'[x][v] = repl[x][v]
    <3>1. ASSUME NEW n \in appendRes, Takes(x, v, n)
          PROVE  FALSE
      <4>1. n = m  BY <1>4, <2>3, <3>1
      <4>2. m \notin appendRes'  BY <3>1, <4>1 DEF Takes
      <4> QED  BY <1>8, <4>2 DEF OldAnswers
    <3> QED  BY <1>1, <1>3, <2>3, <3>1, ThreadsStep
  <2> PICK n : n = NextAfter(repl[x][v].call) - 1  OBVIOUS
  <2>5. n = NextAfter(repl'[x][v].call) - 1  BY <2>4
  <2>6. m.success => Holds(x, y, n)'
    <3>1. NextAfter(repl[x][v].call) \in Int
      BY <1>1, <2>3, CallNumbers
    <3> QED  BY <1>5, <1>6, <2>2, <3>1
  <2>7. m.success => Holds(x, y, NextAfter(repl[x][v].call) - 1)'
    BY <2>5, <2>6 DEF Holds, NextAfter
  <2> QED  BY <2>1, <2>2, <2>3, <2>4, <2>7
<1> QED  BY <1>7, <1>8 DEF ConfirmedHeld

LEMMA MajoritiesMeet ==
    ASSUME NodeAssumption, NEW P \in SUBSET Server, NEW Q \in SUBSET Server,
           Majority(P), Majority(Q)
    PROVE  \E v \in Server : v \in P /\ v \in Q
<1>1. IsFiniteSet(Server)  BY DEF NodeAssumption
<1>2. /\ Cardinality(P) \in Nat /\ Cardinality(Q) \in Nat /\ Cardinality(Server) \in Nat
  BY <1>1, FS_Subset, FS_CardinalityType
<1>3. Cardinality(P) + Cardinality(Q) > Cardinality(Server)  BY <1>2 DEF Majority
<1>4. P \cap Q # {}  BY <1>1, <1>3, FS_MajoritiesIntersect
<1> QED  BY <1>4

\* Those that are counted for an index, and the leader itself, are a majority.
LEMMA CountedMajority ==
    ASSUME NodeAssumption, NEW C \in SUBSET Server, NEW x \in Server, x \notin C,
           Cardinality(C) >= Cardinality(Server) \div 2
    PROVE  Majority(C \cup {x})
<1>1. IsFiniteSet(Server) /\ IsFiniteSet(C)  BY FS_Subset DEF NodeAssumption
<1>2. Cardinality(C) \in Nat /\ Cardinality(Server) \in Nat  BY <1>1, FS_CardinalityType
<1>3. Cardinality(C \cup {x}) = Cardinality(C) + 1  BY <1>1, FS_AddElement
<1>4. 2 * (Cardinality(C) + 1) > Cardinality(Server)
  <2> PICK c \in Nat : c = Cardinality(C)  BY <1>2
  <2> PICK n \in Nat : n = Cardinality(Server)  BY <1>2
  <2>1. c >= n \div 2  OBVIOUS
  <2>2. 2 * (c + 1) > n  BY <2>1
  <2> QED  BY <2>2
<1> QED  BY <1>3, <1>4 DEF Majority

\* A call that is taken is noted under the slot its entry gets.
LEMMA SubmitIs ==
    ASSUME NodeAssumption, TypeOK, NEW s \in Server, NEW r \in Request, NEW op \in ReqKinds,
           Submit(s, r, op)
    PROVE  /\ binlog'[s].len = binlog[s].len + 1
           /\ Entries(binlog'[s])[binlog[s].len + 1].req = r
           /\ Entries(binlog'[s])[binlog[s].len + 1].term = currentTerm[s]
           /\ \A a \in sdkAck'[s] :
                 a \in sdkAck[s] \/ (a.index = binlog[s].len /\ a.done = r)
           /\ status[s] = "Leader" /\ reply[r] = "idle" /\ reply' = [reply EXCEPT ![r] = "sent"]
           /\ \A u \in Server \ {s} : binlog'[u] = binlog[u] /\ sdkAck'[u] = sdkAck[u]
           /\ UNCHANGED <<electionVars, leaderVars, appending, commitIndex, applyVars, voteNet,
                          appendNet, boundVars>>
<1> PICK e : e = [term |-> currentTerm[s], op |-> op, req |-> r]  OBVIOUS
<1>1. e \in Entry /\ e.req = r /\ e.term = currentTerm[s]  BY NodeNumbers DEF Entry
<1>2. binlog[s] \in BinLogs(Entry, Terms) /\ binlog[s].len \in Nat  BY LogFacts
<1>3. binlog' = [binlog EXCEPT ![s] = WriteEntry(@, e)]  BY DEF Submit
<1>4. binlog'[s] = WriteEntry(binlog[s], e)
      /\ \A u \in Server \ {s} : binlog'[u] = binlog[u]
  BY <1>3 DEF TypeOK, LogTypeOK
<1>5. binlog'[s].len = binlog[s].len + 1 /\ Entries(binlog'[s])[binlog[s].len + 1] = e
  BY <1>1, <1>2, <1>4, LastInLog
<1>6. /\ \A a \in sdkAck'[s] : a \in sdkAck[s] \/ (a.index = binlog[s].len /\ a.done = r)
      /\ \A u \in Server \ {s} : sdkAck'[u] = sdkAck[u]
  <2>1. \E kinds, old : sdkAck' = [sdkAck EXCEPT ![s] = (@ \ old) \cup
            {[index |-> GetLength(binlog'[s]) - 1, done |-> r, kinds |-> kinds]}]
    BY DEF Submit
  <2>2. GetLength(binlog'[s]) - 1 = binlog[s].len  BY <1>2, <1>5 DEF GetLength
  <2> QED  BY <2>1, <2>2 DEF TypeOK, ApplyTypeOK
<1>7. /\ status[s] = "Leader" /\ reply[r] = "idle" /\ reply' = [reply EXCEPT ![r] = "sent"]
      /\ UNCHANGED <<electionVars, leaderVars, appending, commitIndex, applyVars, voteNet,
                     appendNet, boundVars>>
  BY DEF Submit
<1> QED  BY <1>1, <1>4, <1>5, <1>6, <1>7

\* The thread that applies goes up to what was committed when it began.
LEMMA ApplierStep ==
    ASSUME TypeOK, [Next]_vars, NEW s \in Server, applier'[s].pc # "wait"
    PROVE  \/ applier[s].pc # "wait" /\ applier'[s].end = applier[s].end
           \/ applier'[s].end = commitIndex[s] /\ commitIndex'[s] = commitIndex[s]
<1>1. CASE UNCHANGED applier  BY <1>1
<1>2. ASSUME NEW u \in Server, CommitBegin(u) \/ CommitStore(u) \/ CommitAck(u)
      PROVE  \/ applier[s].pc # "wait" /\ applier'[s].end = applier[s].end
             \/ applier'[s].end = commitIndex[s] /\ commitIndex'[s] = commitIndex[s]
  <2>0. applier \in [Server -> [pc: {"wait", "apply", "ack"}, end: Int]]
    BY DEF TypeOK, ApplyTypeOK
  <2>1. CASE u # s
    <3>1. \E p : applier' = [applier EXCEPT ![u] = p]
      <4>1. CASE CommitBegin(u)  BY <4>1 DEF CommitBegin
      <4>2. CASE CommitStore(u)
        <5>1. applier' = [applier EXCEPT ![u] = [applier[u] EXCEPT !.pc = "ack"]]
          BY <2>0, <4>2 DEF CommitStore
        <5> QED  BY <5>1
      <4>3. CASE CommitAck(u)  BY <4>3 DEF CommitAck
      <4> QED  BY <1>2, <4>1, <4>2, <4>3
    <3>2. applier'[s] = applier[s]  BY <2>0, <2>1, <3>1
    <3> QED  BY <3>2
  <2>2. CASE u = s /\ CommitBegin(s)
    BY <2>0, <2>2 DEF CommitBegin
  <2>3. CASE u = s /\ CommitStore(s)
    BY <2>0, <2>3 DEF CommitStore
  <2>4. CASE u = s /\ CommitAck(s)
    <3>1. applier[s].pc = "ack"
          /\ applier' = [applier EXCEPT ![s] = IF lastApplied[s] + 1 < @.end
                                                THEN [@ EXCEPT !.pc = "apply"]
                                                ELSE [pc |-> "wait", end |-> -1]]
      BY <2>4 DEF CommitAck
    <3> QED  BY <2>0, <3>1
  <2> QED  BY <1>2, <2>1, <2>2, <2>3, <2>4
<1>3. CASE ElectionNext
  BY <1>1, <1>3 DEF ElectionNext, VoteTimerHeard, VoteLeader, Vote, VoteCallBack
<1>4. CASE LeaderNext
  BY <1>1, <1>4 DEF LeaderNext, ReplicateStop, ReplicateBuild, ReplicateSend, ReplicateAnswer,
     ReplicateFail
<1>5. CASE HeartBeatNext
  BY <1>1, <1>5 DEF HeartBeatNext, BroadCastHeartBeat, AppendEntries, HeartBeatCallBack
<1>6. CASE FollowerNext  BY <1>1, <1>6 DEF FollowerNext, AppendWrite, AppendFinish
<1>7. CASE ApplyNext
  BY <1>1, <1>2, <1>7, ApplyIs DEF Submit
<1>8. CASE UNCHANGED vars  BY <1>1, <1>8 DEF vars
<1> QED  BY <1>3, <1>4, <1>5, <1>6, <1>7, <1>8 DEF Next

\* The older leader leads on: it commits nothing that the newer has not.
LEMMA OldLeaderStep ==
    ASSUME NodeAssumption, NEW x \in Server, NEW tl \in Terms, NEW y \in Server, NEW th \in Terms,
           Second(x, tl, y, th), x # y, TypeOK', NodeFacts', [Next]_vars, TwoWins',
           status[x] = "Leader", status'[x] = "Leader",
           status[y] = "Leader", status'[y] = "Leader",
           OldLeader(x, tl, y, th)
    PROVE  OldLeader(x, tl, y, th)'
<1>1. TypeOK /\ (\A m \in voteRes : ~WinningVote(m)) /\ currentTerm[x] = tl /\ fails' = fails
  <2>1. TypeOK /\ (\A m \in voteRes : ~WinningVote(m))  BY OnlyTwo DEF Second
  <2>2. currentTerm[x] = tl  BY LeaderOfTwo
  <2> QED  BY <2>1, <2>2, TwoWinsBefore
<1>2. Extends(Entries(binlog'[x]), Entries(binlog[x])) /\ Extends(Entries(binlog'[y]), Entries(binlog[y]))
  BY <1>1, StepAppends
<1>3. /\ binlog[x].len \in Nat /\ binlog'[x].len \in Nat /\ binlog[x].len <= binlog'[x].len
      /\ \A i \in 1 .. binlog[x].len : binlog'[x].slot[i] = binlog[x].slot[i]
      /\ binlog[x].len > 0
  BY <1>1, <1>2, ExtendsIs DEF TypeOK, LogTypeOK, BinLogs, OldLeader
<1>4. appending'[x] = {}
  <2> SUFFICES ASSUME NEW h \in appending'[x]
               PROVE  FALSE
    OBVIOUS
  <2>1. appending[x] = {}  BY DEF OldLeader
  <2> QED  BY <1>1, <2>1, AppendingStep
<1>5. \A n \in Int : Holds(x, y, n) => Holds(x, y, n)'
  BY <1>1, <1>2, HoldsKept
<1>6. PICK Q \in SUBSET Server :
          /\ Majority(Q)
          /\ \A v \in Q : currentTerm[v] >= th /\ ConfirmedHeld(x, tl, y, v)
  BY DEF OldLeader
<1>7. \A v \in Q : currentTerm'[v] >= th /\ ConfirmedHeld(x, tl, y, v)'
  <2> TAKE v \in Q
  <2>1. v \in Server /\ currentTerm[v] >= th /\ ConfirmedHeld(x, tl, y, v)  BY <1>6
  <2>2. ConfirmedHeld(x, tl, y, v)'  BY <1>1, <1>2, <2>1, ConfirmedStep
  <2>3. currentTerm'[v] >= currentTerm[v]  BY <1>1, <2>1, StepTerms
  <2>4. currentTerm[v] \in Int /\ currentTerm'[v] \in Int /\ th \in Int
    BY <1>1, <2>1 DEF TypeOK, ElectionTypeOK, Terms
  <2> QED  BY <2>1, <2>2, <2>3, <2>4
<1>8. x \notin Q
  <2>1. ~(tl >= th) /\ tl \in Int /\ th \in Int  BY DEF Second, Terms
  <2> QED  BY <1>1, <1>6, <2>1
<1>9. commitIndex[x] <= commitIndex'[x] /\ Holds(x, y, commitIndex[x])'
  <2> PICK old : old = commitIndex[x]  OBVIOUS
  <2> PICK n : n = commitIndex'[x]  OBVIOUS
  <2>1. old \in Int /\ n \in Int  BY <1>1 DEF TypeOK, ApplyTypeOK
  <2>2. CASE n = old
    <3>1. Holds(x, y, old)'  BY <1>5, <2>1 DEF OldLeader
    <3> QED  BY <2>1, <2>2, <3>1 DEF Holds
  <2>3. ASSUME NEW f \in Server, CountedAt(x, NextAfter(repl[x][f].call) - 1)
        PROVE  old <= n /\ Holds(x, y, n)'
    <3>1. n > old /\ Cardinality({u \in Server : matchIndex'[x][u] = n}) >= Cardinality(Server) \div 2
      BY <2>3 DEF CountedAt
    <3>2. CASE n <= 0
      <4>1. n < binlog'[x].len /\ 1 .. n = {}  BY <1>3, <2>1, <3>2
      <4> QED  BY <2>1, <3>1, <4>1 DEF Holds
    <3>3. CASE n > 0
      <4> PICK C : C = {u \in Server : matchIndex'[x][u] = n}  OBVIOUS
      <4>1. matchIndex'[x][x] = 0  BY DEF NodeFacts
      <4>2. x \notin C  BY <2>1, <3>3, <4>1
      <4>3. C \in SUBSET Server /\ Majority(C \cup {x})  BY <3>1, <4>2, CountedMajority
      <4>4. C \cup {x} \in SUBSET Server  BY <4>3
      <4>5. PICK v \in Server : v \in C \cup {x} /\ v \in Q  BY <1>6, <4>3, <4>4, MajoritiesMeet
      <4>6. v \in C /\ matchIndex'[x][v] = n  BY <1>8, <4>5
      <4>7. Holds(x, y, matchIndex[x][v])'  BY <1>7, <4>5 DEF ConfirmedHeld
      <4>8. Holds(x, y, n)'  BY <4>6, <4>7 DEF Holds
      <4> QED  BY <2>1, <3>1, <4>8
    <3> QED  BY <2>1, <3>2, <3>3
  <2>4. CASE n # old
    <3>1. \A h \in appending[x] : ~AppendFinish(x, h)  BY DEF OldLeader
    <3>2. \A u \in Server : \A h \in appending[u] : h.req.to = u  BY DEF Second, NodeFacts
    <3>3. \E f \in Server : CountedAt(x, NextAfter(repl[x][f].call) - 1)
      BY <1>1, <2>4, <3>1, <3>2, CommitStep
    <3>4. old <= n /\ Holds(x, y, n)'  BY <2>3, <3>3
    <3> QED  BY <3>4 DEF Holds
  <2> QED  BY <2>2, <2>4
<1>10. applier'[x].pc # "wait" => applier'[x].end <= commitIndex'[x]
  <2> SUFFICES ASSUME applier'[x].pc # "wait"
               PROVE  applier'[x].end <= commitIndex'[x]
    OBVIOUS
  <2>1. commitIndex[x] \in Int /\ commitIndex'[x] \in Int /\ applier'[x].end \in Int
    BY <1>1 DEF TypeOK, ApplyTypeOK
  <2>2. CASE applier[x].pc # "wait" /\ applier'[x].end = applier[x].end
    <3>1. applier[x].end <= commitIndex[x]  BY <2>2 DEF OldLeader
    <3> QED  BY <1>9, <2>1, <2>2, <3>1
  <2>3. CASE applier'[x].end = commitIndex[x]
    BY <1>9, <2>3
  <2> QED  BY <1>1, <2>2, <2>3, ApplierStep
<1>11. ASSUME NEW a \in sdkAck'[x]
       PROVE  a.index \in 1 .. binlog'[x].len - 1 /\ binlog'[x].slot[a.index + 1].req = a.done
  <2>1. CASE a \in sdkAck[x]
    <3>1. a.index \in 1 .. binlog[x].len - 1 /\ binlog[x].slot[a.index + 1].req = a.done
      BY <2>1 DEF OldLeader
    <3>2. a.index + 1 \in 1 .. binlog[x].len /\ a.index \in 1 .. binlog'[x].len - 1
      BY <1>3, <3>1
    <3> QED  BY <1>3, <3>1, <3>2
  <2>2. ASSUME NEW r \in Request, NEW op \in ReqKinds, Submit(x, r, op), a \notin sdkAck[x]
        PROVE  a.index \in 1 .. binlog'[x].len - 1 /\ binlog'[x].slot[a.index + 1].req = a.done
    <3>1. /\ binlog'[x].len = binlog[x].len + 1
          /\ Entries(binlog'[x])[binlog[x].len + 1].req = r
          /\ a.index = binlog[x].len /\ a.done = r
      BY <1>1, <1>11, <2>2, SubmitIs
    <3>2. a.index \in 1 .. binlog'[x].len - 1 /\ a.index + 1 \in 1 .. binlog'[x].len
      BY <1>3, <3>1
    <3>3. Entries(binlog'[x])[a.index + 1] = binlog'[x].slot[a.index + 1]
      BY <3>2, EntriesOf DEF TypeOK, LogTypeOK
    <3> QED  BY <3>1, <3>2, <3>3
  <2> QED  BY <1>1, <1>11, <2>1, <2>2, AcksStep
<1> QED
  <2>1. binlog'[x].len > 0  BY <1>3
  <2> QED  BY <1>4, <1>6, <1>7, <1>9, <1>10, <1>11, <2>1 DEF OldLeader, Majority

\* The newer leader leads on.
LEMMA NewLeaderStep ==
    ASSUME NodeAssumption, NEW x \in Server, NEW tl \in Terms, NEW y \in Server, NEW th \in Terms,
           Second(x, tl, y, th), x # y, TypeOK', [Next]_vars, TwoWins',
           status[y] = "Leader", status'[y] = "Leader", currentTerm[y] = th,
           NewLeader(y, th),
           status[x] = "Leader" => OldLeader(x, tl, y, th)
    PROVE  NewLeader(y, th)'
<1>1. TypeOK /\ NoBadSlot /\ NodeFacts  BY DEF Second
<1>2. Extends(Entries(binlog'[y]), Entries(binlog[y]))  BY <1>1, StepAppends
<1>3. \A r : InLog(y, r) => InLog(y, r)'  BY <1>1, <1>2, ExtendsIs
<1>4. ASSUME NEW a \in sdkAck'[y], NEW e \in Written', e.req = a.done
      PROVE  e.term = th
  <2>1. CASE a \in sdkAck[y]
    <3>1. CASE e \in Written  BY <1>4, <2>1, <3>1 DEF NewLeader
    <3>2. CASE NewEntry(e)
      <4>1. a.done \in Request /\ reply[a.done] # "idle"
        BY <1>1, <2>1 DEF NodeFacts, TypeOK, ApplyTypeOK, Ack
      <4>2. e.req = Nil \/ reply[e.req] = "idle"  BY <3>2 DEF NewEntry
      <4> QED  BY <1>4, <4>1, <4>2 DEF NodeAssumption
    <3> QED  BY <1>1, <1>4, <3>1, <3>2, StepWritten
  <2>2. ASSUME NEW r \in Request, NEW op \in ReqKinds, Submit(y, r, op), a \notin sdkAck[y]
        PROVE  e.term = th
    <3>1. a.done = r /\ reply[r] = "idle"  BY <1>1, <1>4, <2>2, SubmitIs
    <3>2. e \notin Written
      <4>1. e.req # Nil  BY <1>4, <3>1 DEF NodeAssumption
      <4> QED  BY <1>1, <1>4, <3>1, <4>1 DEF NodeFacts
    <3> PICK c : c = [term |-> currentTerm[y], op |-> op, req |-> r]  OBVIOUS
    <3>3. c \in Entry /\ c.term = th  BY <1>1, NodeNumbers DEF Entry
    <3>4. /\ binlog' = [binlog EXCEPT ![y] = WriteEntry(@, c)]
          /\ UNCHANGED <<appendReq, appending>>
      BY <2>2 DEF Submit
    <3>5. Written' \subseteq Written \cup {c}  BY <1>1, <3>3, <3>4, WrittenByOne
    <3> QED  BY <1>4, <3>2, <3>3, <3>5
  <2> QED  BY <1>1, <1>4, <2>1, <2>2, AcksStep
<1>5. ASSUME NEW e \in Written', e.req # Nil, e.term < th, reply'[e.req] = "ok"
      PROVE  InLog(y, e.req)'
  <2> PICK r : r = e.req  OBVIOUS
  <2>1. e \in Written /\ e \in Entry
    <3>1. ~NewEntry(e)  BY <1>5 DEF NewEntry
    <3> QED  BY <1>1, <1>5, <3>1, StepWritten, WrittenEntries
  <2>2. r \in Request  BY <1>5, <2>1 DEF Entry
  <2>3. InLog(y, r)
    <3>1. CASE reply[r] = "ok"  BY <1>5, <2>1, <3>1 DEF NewLeader
    <3>2. ASSUME NEW s \in Server, CommitAck(s), status[s] = "Leader",
                 NEW a \in AcksAt(s, lastApplied[s] + 1), a.done = r
          PROVE  InLog(y, r)
      <4>1. a \in sdkAck[s] /\ a.index = lastApplied[s] + 1  BY DEF AcksAt
      <4>2. s # y
        <5> SUFFICES ASSUME s = y
                     PROVE  FALSE
          OBVIOUS
        <5>1. e.term = th  BY <2>1, <3>2, <4>1 DEF NewLeader
        <5>2. th \in Int  BY DEF Terms
        <5> QED  BY <1>5, <5>1, <5>2
      <4>3. s = x  BY <3>2, <4>2, LeaderOfTwo
      <4>4. OldLeader(x, tl, y, th)  BY <3>2, <4>3
      <4>5. applier[x].pc # "wait"  BY <3>2, <4>3 DEF CommitAck
      <4>6. /\ lastApplied[x] \in Int /\ applier[x].end \in Int /\ commitIndex[x] \in Int
            /\ lastApplied[x] < applier[x].end /\ applier[x].end <= commitIndex[x]
        BY <1>1, <4>4, <4>5, NodeNumbers DEF NoBadSlot, ApplyStored, OldLeader
      <4>7. a.index \in 1 .. binlog[x].len - 1 /\ binlog[x].slot[a.index + 1].req = r
        BY <3>2, <4>1, <4>3, <4>4 DEF OldLeader
      <4>8. a.index \in 1 .. commitIndex[x]
        <5>1. binlog[x].len \in Nat  BY <1>1, NodeNumbers
        <5> QED  BY <4>1, <4>3, <4>6, <4>7, <5>1
      <4>9. InLog(y, binlog[x].slot[a.index + 1].req)
        BY <4>4, <4>8 DEF OldLeader, Holds
      <4> QED  BY <4>7, <4>9
    <3> QED  BY <1>1, <1>5, <2>2, <3>1, <3>2, ReplyStep
  <2>4. InLog(y, r)'  BY <1>3, <2>3
  <2> QED  BY <2>4 DEF InLog
<1> QED  BY <1>4, <1>5 DEF NewLeader

LEMMA TwoLeadersStep ==
    ASSUME NodeAssumption, NEW x \in Server, NEW tl \in Terms, NEW y \in Server, NEW th \in Terms,
           Second(x, tl, y, th), x # y, TypeOK', NodeFacts', [Next]_vars, TwoWins',
           TwoLeaders(x, tl, y, th)
    PROVE  TwoLeaders(x, tl, y, th)'
<1>1. TypeOK /\ NoBadSlot  BY DEF Second
<1>2. \A s \in Server : status'[s] = "Leader" =>
          status[s] = "Leader" /\ currentTerm'[s] = currentTerm[s]
  BY <1>1, OnlyTwo, StatusStep
<1>3. ASSUME NEW e \in Written'
      PROVE  e.term \in {tl, th}
  <2>1. CASE e \in Written  BY <2>1 DEF TwoLeaders
  <2>2. CASE NewEntry(e)
    <3>1. PICK s \in Server : status'[s] = "Leader" /\ e.term = currentTerm[s]
      BY <2>2 DEF NewEntry
    <3>2. status[s] = "Leader"  BY <1>2, <3>1
    <3> QED  BY <3>1, <3>2, LeaderOfTwo
  <2> QED  BY <1>1, <2>1, <2>2, StepWritten
<1>4. ASSUME status'[y] = "Leader"
      PROVE  /\ NewLeader(y, th)'
             /\ status'[x] = "Leader" => OldLeader(x, tl, y, th)'
  <2>1. status[y] = "Leader"  BY <1>2, <1>4
  <2>2. NewLeader(y, th) /\ (status[x] = "Leader" => OldLeader(x, tl, y, th))
    BY <2>1 DEF TwoLeaders
  <2>3. currentTerm[y] = th  BY <2>1, LeaderOfTwo
  <2>4. NewLeader(y, th)'  BY <1>4, <2>1, <2>2, <2>3, NewLeaderStep
  <2>5. ASSUME status'[x] = "Leader"
        PROVE  OldLeader(x, tl, y, th)'
    <3>1. status[x] = "Leader"  BY <1>2, <2>5
    <3>2. OldLeader(x, tl, y, th)  BY <2>2, <3>1
    <3> QED  BY <1>4, <2>1, <2>5, <3>1, <3>2, OldLeaderStep
  <2> QED  BY <2>4, <2>5
<1> QED  BY <1>3, <1>4 DEF TwoLeaders

\* A call is made by a thread, or is a heartbeat of a leader.
LEMMA CallsStep ==
    ASSUME NodeAssumption, TypeOK, [Next]_vars, fails' = fails, NEW m \in appendReq'
    PROVE  \/ m \in appendReq
           \/ m.from \in Server /\ status[m.from] = "Leader" /\ m.to # m.from
           \/ m.from \in Server /\ m.to \in Server /\ repl[m.from][m.to].pc = "built"
<1>1. CASE appendReq' \subseteq appendReq  BY <1>1
<1>2. CASE ElectionNext
  BY <1>1, <1>2 DEF ElectionNext, VoteTimerHeard, VoteLeader, Vote, VoteCallBack
<1>3. CASE LeaderNext
  <2>1. \A s, f \in Server : ~ReplicateFail(s, f)
    BY DEF ReplicateFail, TypeOK, ApplyTypeOK, NodeAssumption
  <2>2. ASSUME NEW s \in Server, NEW f \in Server,
               ReplicateStop(s, f) \/ ReplicateBuild(s, f) \/ ReplicateAnswer(s, f)
        PROVE  appendReq' = appendReq
    BY <2>2 DEF ReplicateStop, ReplicateBuild, ReplicateAnswer
  <2>3. ASSUME NEW s \in Server, NEW f \in Server, ReplicateSend(s, f), m \notin appendReq
        PROVE  m.from \in Server /\ m.to \in Server /\ repl[m.from][m.to].pc = "built"
    <3>1. repl[s][f].pc = "built"  BY <2>3 DEF ReplicateSend
    <3>2. \E a, b, c, d, e : appendReq' = appendReq \cup
            {[from |-> s, to |-> f, term |-> a, rpc |-> TRUE, prev |-> b, prevTerm |-> c,
              commit |-> d, entries |-> e]}
      BY <2>3 DEF ReplicateSend
    <3>3. m.from = s /\ m.to = f  BY <2>3, <3>2
    <3> QED  BY <3>1, <3>3
  <2> QED  BY <1>1, <1>3, <2>1, <2>2, <2>3 DEF LeaderNext
<1>4. CASE HeartBeatNext
  <2>1. ASSUME NEW s \in Server, BroadCastHeartBeat(s), m \notin appendReq
        PROVE  m.from \in Server /\ status[m.from] = "Leader" /\ m.to # m.from
    <3>1. status[s] = "Leader" /\ m.from = s /\ m.to \in Replica \ {s}
      BY <2>1 DEF BroadCastHeartBeat
    <3> QED  BY <3>1
  <2> QED  BY <1>1, <1>4, <2>1 DEF HeartBeatNext, AppendEntries, HeartBeatCallBack
<1>5. CASE FollowerNext  BY <1>1, <1>5 DEF FollowerNext, AppendWrite, AppendFinish
<1>6. CASE ApplyNext
  BY <1>1, <1>6, ApplyIs DEF Submit, CommitBegin, CommitStore, CommitAck
<1>7. CASE UNCHANGED vars  BY <1>1, <1>7 DEF vars
<1> QED  BY <1>2, <1>3, <1>4, <1>5, <1>6, <1>7 DEF Next

LEMMA SameLeaderStep ==
    ASSUME NodeAssumption, NEW tl \in Terms, NEW y \in Server, NEW th \in Terms,
           Second(y, tl, y, th), TypeOK', [Next]_vars, TwoWins', SameLeader(y)
    PROVE  SameLeader(y)'
<1>1. TypeOK /\ NoBadSlot /\ Server # {y}  BY DEF Second, SameLeader
<1>2. (\A m \in voteRes : ~WinningVote(m)) /\ fails' = fails
  <2>1. \A m \in voteRes : ~WinningVote(m)  BY <1>1, OnlyTwo
  <2> QED  BY <1>1, <2>1, TwoWinsBefore
<1>3. \A s \in Server : status'[s] = "Leader" => s = y
  <2> TAKE s \in Server
  <2> HAVE status'[s] = "Leader"
  <2>1. status[s] = "Leader"  BY <1>1, <1>2, StatusStep
  <2> QED  BY <2>1, LeaderOfTwo
<1>4. ASSUME NEW s \in Server, NEW f \in Server, repl'[s][f].pc # "none"
      PROVE  s = y /\ f # y
  <2>1. repl[s][f].pc # "none"  BY <1>1, <1>2, <1>4, ThreadsStep DEF Takes
  <2> QED  BY <2>1 DEF SameLeader
<1>5. ASSUME NEW m \in appendReq'
      PROVE  m.from = y /\ m.to # y
  <2>1. CASE m \in appendReq  BY <2>1 DEF SameLeader
  <2>2. CASE m.from \in Server /\ status[m.from] = "Leader" /\ m.to # m.from
    BY <2>2, LeaderOfTwo
  <2>3. CASE m.from \in Server /\ m.to \in Server /\ repl[m.from][m.to].pc = "built"
    BY <2>3 DEF SameLeader
  <2> QED  BY <1>1, <1>2, <2>1, <2>2, <2>3, CallsStep
<1>6. \A r : InLog(y, r) => InLog(y, r)'
  <2>1. ~ \E m \in appendReq : m.to = y /\ AppendMismatch(m)  BY DEF SameLeader
  <2>2. Extends(Entries(binlog'[y]), Entries(binlog[y]))  BY <1>1, <2>1, LogGrows
  <2> QED  BY <1>1, <2>2, ExtendsIs
<1>7. ASSUME NEW e \in Written', e.req # Nil
      PROVE  InLog(y, e.req)'
  <2> PICK r : r = e.req  OBVIOUS
  <2>1. InLog(y, r)'
    <3>1. CASE e \in Written
      <4>1. InLog(y, r)  BY <1>7, <3>1 DEF SameLeader
      <4> QED  BY <1>6, <4>1
    <3>2. CASE NewEntry(e)
      <4>1. PICK s \in Server : status'[s] = "Leader" /\ InLog(s, e.req)'
        BY <1>7, <3>2 DEF NewEntry
      <4>2. s = y  BY <1>3, <4>1
      <4> QED  BY <4>1, <4>2 DEF InLog
    <3> QED  BY <1>1, <1>7, <3>1, <3>2, StepWritten
  <2> QED  BY <2>1 DEF InLog
<1> QED  BY <1>1, <1>4, <1>5, <1>7 DEF SameLeader

\* Nothing else can happen after the second election.
LEMMA HandedOverStep ==
    ASSUME NodeAssumption, NEW x \in Server, NEW tl \in Terms, NEW y \in Server, NEW th \in Terms,
           Second(x, tl, y, th), TypeOK', NodeFacts', [Next]_vars, TwoWins',
           HandedOver(x, tl, y, th)
    PROVE  HandedOver(x, tl, y, th)'
<1>1. CASE x = y
  <2>1. SameLeader(y)  BY <1>1 DEF HandedOver
  <2>2. SameLeader(y)'  BY <1>1, <2>1, SameLeaderStep
  <2> QED  BY <1>1, <2>2 DEF HandedOver, Second
<1>2. CASE x # y
  <2>1. TwoLeaders(x, tl, y, th)  BY <1>2 DEF HandedOver
  <2>2. TwoLeaders(x, tl, y, th)'  BY <1>2, <2>1, TwoLeadersStep
  <2> QED  BY <1>2, <2>2 DEF HandedOver, Second
<1> QED  BY <1>1, <1>2

-----------------------------------------------------------------------------
\* Before the first election.

LEMMA LogsSameStep ==
    ASSUME NodeAssumption, TypeOK, [Next]_vars, \A m \in voteRes : ~WinningVote(m),
           NEW s \in Server, status[s] # "Leader", appending[s] = {},
           \A m \in appendReq : m.to # s \/ ~AppendMismatch(m)
    PROVE  binlog'[s] = binlog[s]
<1>1. \A r \in Request, op \in ReqKinds : ~Submit(s, r, op)  BY DEF Submit
<1> QED  BY <1>1, LogStep

\* What a candidate tells of its log when it asks.
LEMMA VoteCallsStep ==
    ASSUME TypeOK, [Next]_vars, NEW m \in voteReq'
    PROVE  \/ m \in voteReq
           \/ /\ m.from \in Server /\ VoteLeader(m.from)
              /\ m.lastIndex = LastLogIndex(binlog[m.from])
              /\ m.lastTerm = LastLogTerm(binlog[m.from])
<1>1. CASE ElectionNext
  <2>1. ASSUME NEW s \in Server, VoteLeader(s), m \notin voteReq
        PROVE  /\ m.from = s /\ m.lastIndex = LastLogIndex(binlog[s])
               /\ m.lastTerm = LastLogTerm(binlog[s])
    BY <2>1 DEF VoteLeader
  <2>2. ASSUME NEW n \in voteReq, Vote(n)
        PROVE  voteReq' = voteReq \ {n}
    BY <2>2 DEF Vote, VoteByLeader, VoteRefused, VoteDecided, VoteAnswer
  <2> QED  BY <1>1, <2>1, <2>2 DEF ElectionNext, VoteTimerHeard, VoteCallBack
<1>2. CASE LeaderNext \/ HeartBeatNext \/ FollowerNext \/ ApplyNext \/ UNCHANGED vars
  BY <1>2, OtherStatus
<1> QED  BY <1>1, <1>2 DEF Next

LEMMA BeforeStep ==
    ASSUME NodeAssumption, TypeOK, ElectionInv, CandidateInv, BeforeLeaders, TypeOK', [Next]_vars,
           \A m \in voteRes : ~WinningVote(m)
    PROVE  BeforeLeaders'
<1>1. /\ NothingYet
      /\ \A s \in Server : status[s] # "Leader" /\ appending[s] = {} /\ binlog[s].len = 0
      /\ appendReq = {}
  BY DEF BeforeLeaders, NothingYet
<1>2. \A s \in Server : binlog'[s] = binlog[s]  BY <1>1, LogsSameStep
<1>3. NothingYet'
  <2>1. ASSUME NEW l \in Server, NEW t \in Terms, LeadInv(l, t)'
        PROVE  FALSE
    <3>1. binlog'[l].len > 0  BY <2>1 DEF LeadInv, RequestsOfLeader
    <3> QED  BY <1>1, <1>2, <3>1
  <2> QED  BY <1>1, <2>1, StepNothing
<1>4. ASSUME NEW w \in Won'
      PROVE  Server = {w[1]}
  <2>1. w \in Server \X Terms /\ w[1] \in Server /\ w[2] \in Terms /\ Wins(w[1], w[2])'
    BY DEF Won
  <2>2. CASE Wins(w[1], w[2])
    <3>1. w \in Won  BY <2>1, <2>2 DEF Won
    <3> QED  BY <3>1 DEF BeforeLeaders
  <2>3. CASE ~Wins(w[1], w[2])
    BY <2>1, <2>3, WinsStep
  <2> QED  BY <2>2, <2>3
<1>5. \A s \in Server : LastLogTerm(binlog'[s]) = -1  BY <1>2 DEF BeforeLeaders
<1>6. ASSUME NEW m \in voteReq'
      PROVE  m.lastIndex = -1 /\ m.lastTerm = -1
  <2>1. CASE m \in voteReq  BY <2>1 DEF BeforeLeaders
  <2>2. CASE /\ m.from \in Server
             /\ m.lastIndex = LastLogIndex(binlog[m.from])
             /\ m.lastTerm = LastLogTerm(binlog[m.from])
    BY <1>1, <2>2 DEF BeforeLeaders, LastLogIndex
  <2> QED  BY <2>1, <2>2, VoteCallsStep
<1> QED  BY <1>3, <1>4, <1>5, <1>6 DEF BeforeLeaders

LEMMA FirstWinStep ==
    ASSUME NodeAssumption, TypeOK, ElectionInv, CandidateInv, BeforeLeaders, TypeOK', [Next]_vars,
           TwoWins', NEW n \in voteRes, WinningVote(n)
    PROVE  Steady' /\ \E l \in Server, t \in Terms : Wins(l, t)' /\ LeadInv(l, t)' /\ LeadMore(l, t)'
<1>1. NothingYet  BY DEF BeforeLeaders
<1>2. \A s \in Server : Server # {s}
  <2>1. n.to \in Server /\ n.from \in Server  BY WinningVoteIs
  <2>2. n.from # n.to  BY DEF CandidateInv
  <2> QED  BY <2>1, <2>2
<1>3. ASSUME NEW s \in Server, NEW t \in Terms, Wins(s, t)'
      PROVE  \E m \in voteRes : m.to = s /\ currentTerm[s] = t /\ WinningVote(m)
  <2>1. ~Wins(s, t)
    <3> SUFFICES ASSUME Wins(s, t)
                 PROVE  FALSE
      OBVIOUS
    <3>1. <<s, t>> \in Won /\ <<s, t>>[1] = s  BY DEF Won
    <3> QED  BY <1>2, <3>1 DEF BeforeLeaders
  <2> QED  BY <1>2, <1>3, <2>1, WinsStep
<1>4. \E l \in Server, t \in Terms : Wins(l, t)' /\ LeadInv(l, t)'
  BY <1>1, FirstWin DEF WinningVote
<1>5. PICK l \in Server, t \in Terms : Wins(l, t)' /\ LeadInv(l, t)'  BY <1>4
<1>6. PICK m \in voteRes : m.to = l /\ currentTerm[l] = t /\ WinningVote(m)  BY <1>3, <1>5
<1>7. /\ status' = [status EXCEPT ![l] = "Leader"]
      /\ StartReplicaLog(l)
      /\ UNCHANGED <<currentTerm, voteFor, voteReq, appending, commitIndex, appendReq, appendRes, fails>>
  BY <1>6, WinningVoteIs
<1>8. \A s \in Server : status'[s] = "Leader" => s = l
  BY <1>1, <1>7 DEF NothingYet, TypeOK, ElectionTypeOK
<1>9. Steady'
  <2>1. fails' = 0  BY DEF TwoWins
  <2>2. ASSUME NEW s \in Server, NEW a \in Terms, Wins(s, a)'
        PROVE  s = l /\ a = t
    <3>1. PICK k \in voteRes : k.to = s /\ currentTerm[s] = a /\ WinningVote(k)  BY <1>3, <2>2
    <3>2. status'[s] = "Leader"  BY <3>1, WinningVoteIs
    <3> QED  BY <1>6, <1>8, <3>1, <3>2
  <2> QED  BY <2>1, <2>2 DEF Steady
<1> PICK e : e = NopEntry(t)  OBVIOUS
<1>10. e \in Entry /\ e.term = t  BY DEF NopEntry, Entry
<1>11. /\ binlog'[l] = WriteEntry(binlog[l], e)
       /\ \A s \in Server \ {l} : binlog'[s] = binlog[s]
  <2>1. binlog' = [binlog EXCEPT ![l] = WriteEntry(@, e)]  BY <1>6, <1>7 DEF StartReplicaLog
  <2> QED  BY <2>1 DEF TypeOK, LogTypeOK
<1>12. binlog[l] \in BinLogs(Entry, Terms) /\ binlog[l].len = 0
       /\ \A s \in Server : binlog[s].len = 0
  BY <1>1, LogFacts DEF NothingYet
<1>13. binlog'[l].len = 1 /\ binlog'[l].slot[1] = e /\ LastLogTerm(binlog'[l]) = t
  <2>1. binlog'[l].len = 1 /\ Entries(binlog'[l])[1] = e
    <3>1. binlog'[l].len = binlog[l].len + 1 /\ Entries(binlog'[l])[binlog[l].len + 1] = e
      BY <1>10, <1>11, <1>12, LastInLog
    <3> QED  BY <1>12, <3>1
  <2>2. binlog'[l] \in BinLogs(Entry, Terms) /\ 1 \in 1 .. binlog'[l].len
    BY <2>1 DEF TypeOK, LogTypeOK
  <2>3. binlog'[l].slot[1] = e  BY <2>1, <2>2, EntriesOf
  <2>4. LastLogTerm(binlog'[l]) = t
    BY <1>10, <1>11 DEF WriteEntry, WriteEntryList, LastLogTerm
  <2> QED  BY <2>1, <2>3, <2>4
<1>14. /\ \A f \in Server \ {l} : matchIndex'[l][f] = -1
       /\ appendRes' = {} /\ commitIndex'[l] = -1 /\ \A s \in Server : appending'[s] = {}
  <2>1. \A f \in Server : repl[l][f].pc = "none"  BY <1>1 DEF NothingYet
  <2>2. StartReplicaLog(l)  BY <1>7
  <2>3. \A f \in Server \ {l} : matchIndex'[l][f] = -1  BY <2>1, <2>2, StartedThreads
  <2> QED  BY <1>1, <1>7, <2>3 DEF NothingYet
<1>15. VotersHeld(l, t)'
  <2> SUFFICES ASSUME NEW c \in Server \ {l}, NEW v \in Server
               PROVE  IF v = l THEN commitIndex'[l] < binlog'[c].len
                               ELSE Confirmed(l, t, v, binlog[c].len)'
    BY DEF VotersHeld, Voters
  <2>1. binlog'[c].len = 0  BY <1>11, <1>12
  <2>2. CASE v = l  BY <1>14, <2>1, <2>2
  <2>3. CASE v # l
    <3>1. matchIndex'[l][v] < binlog'[c].len  BY <1>14, <2>1, <2>3
    <3>2. AnswersOf(v)' = {}  BY <1>14 DEF AnswersOf
    <3> QED  BY <2>3, <3>1, <3>2 DEF Confirmed
  <2> QED  BY <2>2, <2>3
<1>16. CommitConfirmed(l)'  BY <1>14 DEF CommitConfirmed
<1>17. TermsOfLogs(l, t)'
  <2>1. \A i \in 1 .. binlog'[l].len : binlog'[l].slot[i].term = t
    <3>1. \A i \in 1 .. binlog'[l].len : i = 1  BY <1>13
    <3> QED  BY <1>10, <1>13, <3>1
  <2>2. ASSUME NEW s \in Server
        PROVE  /\ LastLogTerm(binlog'[s]) = IF binlog'[s].len = 0 THEN -1 ELSE t
               /\ currentTerm'[s] < t => binlog'[s].len = 0 /\ appending'[s] = {}
    <3>1. CASE s = l
      <4>1. currentTerm'[l] = t /\ t \in Int  BY <1>6, <1>7 DEF Terms
      <4> QED  BY <1>13, <3>1, <4>1
    <3>2. CASE s # l
      <4>1. binlog'[s].len = 0 /\ LastLogTerm(binlog'[s]) = -1
        BY <1>11, <1>12, <3>2 DEF BeforeLeaders
      <4> QED  BY <1>14, <4>1
    <3> QED  BY <3>1, <3>2
  <2>3. ASSUME NEW k \in voteReq'
        PROVE  k.lastIndex < binlog'[k.from].len /\ k.lastTerm <= t
    <3>1. k \in voteReq /\ k.lastIndex = -1 /\ k.lastTerm = -1  BY <1>7 DEF BeforeLeaders
    <3>2. k.from \in Server  BY <3>1 DEF TypeOK, ElectionTypeOK, VoteRequest
    <3>3. binlog'[k.from].len \in Nat /\ t \in Nat
      BY <3>2 DEF TypeOK, LogTypeOK, BinLogs, Terms
    <3> QED  BY <3>1, <3>3
  <2> QED  BY <2>1, <2>2, <2>3 DEF TermsOfLogs
<1>18. LeadMore(l, t)'  BY <1>2, <1>15, <1>16, <1>17 DEF LeadMore
<1> QED  BY <1>5, <1>9, <1>18

-----------------------------------------------------------------------------
\* While one leader has been elected.

First(l, t) == Lead(l, t) /\ LeadMore(l, t) /\ NodeFacts

LEMMA FirstIs ==
    ASSUME NEW l, NEW t, First(l, t)
    PROVE  /\ TypeOK /\ NoBadSlot /\ ElectionInv /\ CandidateInv /\ NodeFacts
           /\ Lead(l, t) /\ Steady /\ Wins(l, t) /\ LeadInv(l, t)
           /\ CallsOfLeader(l, t) /\ LogsOfLeader(l) /\ FollowersKnown(l, t) /\ CommitsOfLeader(l)
           /\ RequestsOfLeader(l)
           /\ Server # {l} /\ VotersHeld(l, t) /\ CommitConfirmed(l) /\ TermsOfLogs(l, t)
BY DEF First, Lead, LeadInv, LeadMore

\* Every entry there is is in the leader's log.
LEMMA WrittenOfLeader ==
    ASSUME NEW l \in Server, NEW t \in Terms, First(l, t), NEW e \in Written
    PROVE  \E i \in 1 .. binlog[l].len : binlog[l].slot[i] = e
<1>1. TypeOK /\ Lead(l, t) /\ LogsOfLeader(l)  BY FirstIs
<1>2. binlog[l].len \in Nat  BY <1>1, NodeNumbers
<1>3. ASSUME NEW s \in Server, e \in Range(binlog[s].slot)
      PROVE  \E i \in 1 .. binlog[l].len : binlog[l].slot[i] = e
  <2>1. binlog[s].slot \in Seq(Entry) /\ binlog[s].len \in Nat  BY <1>1, LogFacts
  <2>2. PICK i \in 1 .. Len(binlog[s].slot) : binlog[s].slot[i] = e  BY <1>3, <2>1, InRange
  <2>3. binlog[s].len = Len(binlog[s].slot) /\ binlog[s].len <= binlog[l].len
        /\ \A j \in 1 .. binlog[s].len : binlog[s].slot[j] = binlog[l].slot[j]
    BY <1>1 DEF LogsOfLeader
  <2>4. i \in 1 .. binlog[l].len /\ binlog[l].slot[i] = e  BY <1>2, <2>1, <2>2, <2>3
  <2> QED  BY <2>4
<1>4. ASSUME NEW f \in Server, NEW m \in AppendRequest, repl[l][f].pc = "sent",
             CallBuilt(l, t, f), RequestOf(l, f, m), e \in Range(m.entries)
      PROVE  \E i \in 1 .. binlog[l].len : binlog[l].slot[i] = e
  <2> PICK call : call = repl[l][f].call  OBVIOUS
  <2>1. m.entries \in Seq(Entry)  BY DEF AppendRequest
  <2>2. PICK i \in 1 .. Len(m.entries) : m.entries[i] = e  BY <1>4, <2>1, InRange
  <2>3. call.index \in Nat /\ call.batch \in Nat /\ NextAfter(call) = call.index + call.batch
    BY <1>1, <1>4, CallNumbers
  <2>4. /\ NextAfter(call) <= binlog[l].len
        /\ Len(m.entries) = call.batch
        /\ \A j \in 1 .. call.batch : m.entries[j] = binlog[l].slot[call.index + j]
    BY <1>4 DEF CallBuilt, RequestOf
  <2>5. i \in 1 .. call.batch /\ binlog[l].slot[call.index + i] = e  BY <2>2, <2>4
  <2>6. call.index + i \in 1 .. binlog[l].len
    <3> PICK n \in Nat, k \in Nat, b \in Nat : n = call.index /\ k = call.batch /\ b = binlog[l].len
      BY <1>2, <2>3
    <3>1. n + k <= b /\ i \in 1 .. k  BY <2>3, <2>4, <2>5
    <3>2. n + i \in 1 .. b  BY <3>1
    <3> QED  BY <3>2
  <2> QED  BY <2>5, <2>6
<1>5. ASSUME NEW m \in appendReq, e \in Range(m.entries)
      PROVE  \E i \in 1 .. binlog[l].len : binlog[l].slot[i] = e
  <2>1. m.entries # << >>  BY <1>5 DEF Range
  <2> QED  BY <1>1, <1>4, <1>5, <2>1, CallDelivered
<1>6. ASSUME NEW s \in Server, NEW h \in appending[s], e \in Range(h.req.entries)
      PROVE  \E i \in 1 .. binlog[l].len : binlog[l].slot[i] = e
  <2>1. h.req \in AppendRequest  BY <1>1 DEF TypeOK, ReplicationTypeOK, Appending
  <2> QED  BY <1>1, <1>4, <1>6, <2>1, CallAtWork
<1> QED  BY <1>3, <1>5, <1>6 DEF Written

LEMMA WrittenFirst ==
    ASSUME NEW l \in Server, NEW t \in Terms, First(l, t), NEW e \in Written
    PROVE  e.term = t /\ (e.req # Nil => InLog(l, e.req))
<1>1. TypeOK /\ TermsOfLogs(l, t)  BY FirstIs
<1>2. PICK i \in 1 .. binlog[l].len : binlog[l].slot[i] = e  BY WrittenOfLeader
<1>3. e.term = t  BY <1>1, <1>2 DEF TermsOfLogs
<1>4. InLog(l, e.req)  BY <1>1, <1>2, InLogIs
<1> QED  BY <1>3, <1>4

\* Nobody wins as long as the cluster is steady, and no log is truncated.
LEMMA FirstSteps ==
    ASSUME NodeAssumption, NEW l \in Server, NEW t \in Terms, First(l, t), TypeOK', [Next]_vars
    PROVE  /\ Steady' => \A m \in voteRes : ~WinningVote(m)
           /\ \A s \in Server : /\ Extends(Entries(binlog'[s]), Entries(binlog[s]))
                                /\ binlog[s].len <= binlog'[s].len
<1>1. /\ TypeOK /\ CandidateInv /\ Wins(l, t) /\ Lead(l, t) /\ Server # {l}  BY FirstIs
<1>2. ASSUME Steady', NEW m \in voteRes, WinningVote(m)
      PROVE  FALSE
  <2>1. m.to \in Server /\ currentTerm[m.to] \in Terms /\ status[m.to] = "Candidate"
        /\ Wins(m.to, currentTerm[m.to])' /\ currentTerm' = currentTerm
    BY <1>1, <1>2, WinningVoteIs
  <2> PICK s, w : s = m.to /\ w = currentTerm[m.to]  OBVIOUS
  <2>2. Wins(s, w)'  BY <2>1 DEF Wins
  <2>3. Wins(l, t)'  BY <1>1, TwoWinsBefore
  <2>4. s = l /\ w = t  BY <1>2, <2>1, <2>2, <2>3 DEF Steady
  <2> QED  BY <1>1, <2>1, <2>4 DEF CandidateInv
<1>3. ASSUME NEW s \in Server
      PROVE  Extends(Entries(binlog'[s]), Entries(binlog[s])) /\ binlog[s].len <= binlog'[s].len
  <2>1. \A m \in appendReq : ~AppendMismatch(m)
    BY <1>1, PreviousMatches DEF AppendMismatch
  <2>2. Extends(Entries(binlog'[s]), Entries(binlog[s]))  BY <1>1, <2>1, LogGrows
  <2> QED  BY <1>1, <2>2, ExtendsIs
<1> QED  BY <1>2, <1>3

\* What the leader knows of a follower, or will know by an answer, is so.
LEMMA FollowerConfirmed ==
    ASSUME NEW l \in Server, NEW t \in Terms, First(l, t), NEW v \in Server \ {l}
    PROVE  /\ Confirmed(l, t, v, binlog[v].len)
           /\ \A m \in AnswersOf(v) :
                /\ repl[l][v].pc = "sent" /\ AnswersOf(v) = {m}
                /\ m.success => NextAfter(repl[l][v].call) = binlog[v].len
<1>1. ThreadKnows(l, t, v) /\ matchIndex[l][v] < binlog[v].len
  BY FirstIs DEF FollowersKnown
<1>2. ASSUME NEW m \in AnswersOf(v)
      PROVE  /\ repl[l][v].pc = "sent" /\ AnswersOf(v) = {m}
             /\ m.success => NextAfter(repl[l][v].call) = binlog[v].len
  <2>1. repl[l][v].pc = "sent"  BY <1>1, <1>2 DEF ThreadKnows, NothingUnderWay
  <2>2. CallUnderWay(l, t, v)  BY <1>1, <2>1 DEF ThreadKnows
  <2> QED  BY <1>2, <2>1, <2>2 DEF CallUnderWay
<1>3. TypeOK /\ binlog[v].len \in Nat /\ binlog[v].len <= binlog[v].len  BY FirstIs, NodeNumbers
<1> QED  BY <1>1, <1>2, <1>3 DEF Confirmed

LEMMA MajorityGrows ==
    ASSUME NodeAssumption, NEW Q \in SUBSET Server, NEW P \in SUBSET Q, Majority(P)
    PROVE  Majority(Q)
<1>1. IsFiniteSet(Server) /\ IsFiniteSet(Q)  BY FS_Subset DEF NodeAssumption
<1>2. Cardinality(P) <= Cardinality(Q) /\ Cardinality(P) \in Nat /\ Cardinality(Q) \in Nat
      /\ Cardinality(Server) \in Nat
  BY <1>1, FS_Subset, FS_CardinalityType
<1> QED  BY <1>2 DEF Majority

LEMMA MatchGrows ==
    ASSUME NodeAssumption, NEW l \in Server, NEW t \in Terms, First(l, t), TypeOK', [Next]_vars,
           \A m \in voteRes : ~WinningVote(m), NEW v \in Server
    PROVE  matchIndex[l][v] <= matchIndex'[l][v]
<1>1. TypeOK /\ matchIndex[l][v] \in Int /\ matchIndex'[l][v] \in Int
  BY FirstIs DEF TypeOK, ReplicationTypeOK
<1>2. CASE matchIndex'[l][v] = matchIndex[l][v]  BY <1>1, <1>2
<1>3. ASSUME NEW m \in appendRes, Takes(l, v, m), ReplicateSuccess(l, v, m),
             matchIndex'[l][v] = NextAfter(repl[l][v].call) - 1
      PROVE  matchIndex[l][v] <= matchIndex'[l][v]
  <2>1. m \in AnswersOf(v) /\ m.success /\ m.to = l
    BY <1>3 DEF Takes, AnswersOf, ReplicateSuccess
  <2>2. v # l
    <3>1. m.from # l  BY <1>3, FirstIs DEF CallsOfLeader
    <3> QED  BY <1>3, <3>1 DEF Takes
  <2>3. NextAfter(repl[l][v].call) = binlog[v].len  BY <2>1, <2>2, FollowerConfirmed
  <2>4. matchIndex[l][v] < binlog[v].len /\ binlog[v].len \in Nat
    BY <1>1, <2>2, FirstIs, NodeNumbers DEF FollowersKnown
  <2> QED  BY <1>1, <1>3, <2>3, <2>4
<1> QED  BY <1>1, <1>2, <1>3, MatchStep

LEMMA CommitConfirmedStep ==
    ASSUME NodeAssumption, NEW l \in Server, NEW t \in Terms, First(l, t), TypeOK', NodeFacts',
           [Next]_vars, \A m \in voteRes : ~WinningVote(m)
    PROVE  CommitConfirmed(l)'
<1> SUFFICES ASSUME commitIndex'[l] > 0
             PROVE  Majority({v \in Server : v = l \/ matchIndex'[l][v] >= commitIndex'[l]})
  BY DEF CommitConfirmed, Majority
<1> PICK n : n = commitIndex'[l]  OBVIOUS
<1> PICK Q : Q = {v \in Server : v = l \/ matchIndex'[l][v] >= n}  OBVIOUS
<1>1. /\ TypeOK /\ NodeFacts /\ n \in Int /\ n > 0 /\ Q \in SUBSET Server
      /\ \A v \in Server : matchIndex[l][v] \in Int /\ matchIndex'[l][v] \in Int
  BY FirstIs DEF TypeOK, ApplyTypeOK, ReplicationTypeOK
<1>2. Majority(Q)
  <2>1. CASE n = commitIndex[l]
    <3> PICK P : P = {v \in Server : v = l \/ matchIndex[l][v] >= n}  OBVIOUS
    <3>1. Majority(P)  BY <1>1, <2>1, FirstIs DEF CommitConfirmed
    <3>2. P \in SUBSET Q
      <4> SUFFICES ASSUME NEW v \in Server, matchIndex[l][v] >= n
                   PROVE  matchIndex'[l][v] >= n
        OBVIOUS
      <4>1. matchIndex[l][v] <= matchIndex'[l][v]  BY MatchGrows
      <4> QED  BY <1>1, <4>1
    <3> QED  BY <1>1, <3>1, <3>2, MajorityGrows
  <2>2. ASSUME NEW f \in Server, CountedAt(l, NextAfter(repl[l][f].call) - 1)
        PROVE  Majority(Q)
    <3> PICK C : C = {u \in Server : matchIndex'[l][u] = n}  OBVIOUS
    <3>1. Cardinality(C) >= Cardinality(Server) \div 2  BY <2>2 DEF CountedAt
    <3>2. l \notin C
      <4>1. matchIndex'[l][l] = 0  BY DEF NodeFacts
      <4> QED  BY <1>1, <4>1
    <3>3. C \in SUBSET Server /\ Majority(C \cup {l})  BY <3>1, <3>2, CountedMajority
    <3>4. C \cup {l} \in SUBSET Q  BY <1>1
    <3> QED  BY <1>1, <3>3, <3>4, MajorityGrows
  <2>3. ASSUME NEW m \in appendReq
        PROVE  m.to # l
    BY <2>3, FirstIs DEF CallsOfLeader, OfLeader
  <2>4. ASSUME NEW h \in appending[l]
        PROVE  FALSE
    BY <2>4, FirstIs DEF CallsOfLeader, OfLeader
  <2>5. \A u \in Server : \A h \in appending[u] : h.req.to = u  BY <1>1 DEF NodeFacts
  <2> QED  BY <1>1, <2>1, <2>2, <2>3, <2>4, <2>5, CommitStep
<1> QED  BY <1>2

LEMMA LastOfWrite ==
    ASSUME NEW b \in BinLogs(Entry, Terms), NEW entries \in Seq(Entry), entries # << >>
    PROVE  /\ WriteEntryList(b, entries).len > 0
           /\ \E e \in Range(entries) : WriteEntryList(b, entries).lastTerm = e.term
<1>1. Len(entries) \in Nat /\ Len(entries) > 0 /\ b.len \in Nat  BY LenProperties DEF BinLogs
<1>2. Len(entries) \in 1 .. Len(entries)  BY <1>1
<1>3. entries[Len(entries)] \in Range(entries)  BY <1>2, InRange
<1>4. b.len + Len(entries) > 0  BY <1>1
<1> QED  BY <1>3, <1>4 DEF WriteEntryList

\* After a step the entries are still of the leader's term, so are the logs' last terms.
LEMMA WrittenFirstStep ==
    ASSUME NodeAssumption, NEW l \in Server, NEW t \in Terms, First(l, t), [Next]_vars,
           \A m \in voteRes : ~WinningVote(m), NEW e \in Written'
    PROVE  e.term = t
<1>1. TypeOK /\ NoBadSlot /\ ElectionInv /\ Steady /\ Wins(l, t)  BY FirstIs
<1>2. CASE e \in Written  BY <1>2, WrittenFirst
<1>3. CASE NewEntry(e)
  <2>1. PICK s \in Server : status'[s] = "Leader" /\ e.term = currentTerm[s]
    BY <1>3 DEF NewEntry
  <2>2. status[s] = "Leader"  BY <1>1, <2>1, StatusStep
  <2>3. s = l /\ currentTerm[l] = t  BY <1>1, <2>2, LeaderIs
  <2> QED  BY <2>1, <2>3
<1> QED  BY <1>1, <1>2, <1>3, StepWritten

LEMMA TermsOfLogsStep ==
    ASSUME NodeAssumption, NEW l \in Server, NEW t \in Terms, First(l, t), TypeOK', [Next]_vars,
           fails' = fails, \A m \in voteRes : ~WinningVote(m)
    PROVE  TermsOfLogs(l, t)'
<1>1. /\ TypeOK /\ Lead(l, t) /\ ElectionInv /\ Steady /\ Wins(l, t) /\ TermsOfLogs(l, t)
      /\ CallsOfLeader(l, t)
  BY FirstIs
<1>2. \A i \in 1 .. binlog'[l].len : binlog'[l].slot[i].term = t
  <2> TAKE i \in 1 .. binlog'[l].len
  <2>1. /\ binlog'[l].slot \in Seq(Entry) /\ binlog'[l].len \in Nat
        /\ Len(binlog'[l].slot) \in Nat /\ binlog'[l].len <= Len(binlog'[l].slot)
    BY LenProperties DEF TypeOK, LogTypeOK, BinLogs
  <2>2. i \in 1 .. Len(binlog'[l].slot)  BY <2>1
  <2>3. binlog'[l].slot[i] \in Range(binlog'[l].slot)  BY <2>1, <2>2, InRange
  <2>4. binlog'[l].slot[i] \in Written'  BY <2>3 DEF Written
  <2> QED  BY <2>4, WrittenFirstStep
<1>3. ASSUME NEW s \in Server
      PROVE  LastLogTerm(binlog'[s]) = IF binlog'[s].len = 0 THEN -1 ELSE t
  <2>1. binlog[s] \in BinLogs(Entry, Terms) /\ binlog[s].len \in Nat  BY <1>1, LogFacts
  <2>2. CASE binlog'[s] = binlog[s]  BY <1>1, <2>2 DEF TermsOfLogs
  <2>3. ASSUME NEW r \in Request, NEW op \in ReqKinds, Submit(s, r, op)
        PROVE  LastLogTerm(binlog'[s]) = t /\ binlog'[s].len # 0
    <3>1. status[s] = "Leader"  BY <2>3 DEF Submit
    <3>2. s = l /\ currentTerm[s] = t  BY <1>1, <3>1, LeaderIs
    <3>3. binlog' = [binlog EXCEPT ![s] = WriteEntry(@, [term |-> currentTerm[s], op |-> op, req |-> r])]
      BY <2>3 DEF Submit
    <3>4. binlog'[s] = WriteEntry(binlog[s], [term |-> t, op |-> op, req |-> r])
      BY <1>1, <3>2, <3>3 DEF TypeOK, LogTypeOK
    <3>5. LastLogTerm(binlog'[s]) = t  BY <3>4 DEF WriteEntry, WriteEntryList, LastLogTerm
    <3>6. binlog'[s].len = binlog[s].len + 1  BY <1>1, <2>3, SubmitIs
    <3> QED  BY <2>1, <3>5, <3>6
  <2>4. ASSUME NEW h \in appending[s], AppendWrite(s, h)
        PROVE  LastLogTerm(binlog'[s]) = t /\ binlog'[s].len # 0
    <3>1. h.req.entries \in Seq(Entry) /\ h.req.entries # << >>
      BY <1>1 DEF TypeOK, ReplicationTypeOK, Appending, AppendRequest
    <3>2. binlog' = [binlog EXCEPT ![s] = WriteEntryList(@, h.req.entries)]
      BY <2>4 DEF AppendWrite
    <3>3. binlog'[s] = WriteEntryList(binlog[s], h.req.entries)
      BY <1>1, <3>2 DEF TypeOK, LogTypeOK
    <3>4. PICK e \in Range(h.req.entries) : binlog'[s].lastTerm = e.term
      BY <2>1, <3>1, <3>3, LastOfWrite
    <3>5. e \in Written  BY <3>4, SourcesWritten
    <3>6. e.term = t  BY <3>5, WrittenFirst
    <3>7. binlog'[s].len > 0  BY <2>1, <3>1, <3>3, LastOfWrite
    <3> QED  BY <3>4, <3>6, <3>7 DEF LastLogTerm
  <2>5. \A m \in appendReq : ~AppendMismatch(m)
    BY <1>1, PreviousMatches DEF AppendMismatch
  <2> QED  BY <1>1, <2>2, <2>3, <2>4, <2>5, LogStep
<1>4. ASSUME NEW s \in Server, currentTerm'[s] < t
      PROVE  binlog'[s].len = 0 /\ appending'[s] = {}
  <2>1. currentTerm[s] <= currentTerm'[s] /\ currentTerm[s] \in Int /\ currentTerm'[s] \in Int /\ t \in Int
    <3>1. currentTerm'[s] >= currentTerm[s]  BY <1>1, StepTerms
    <3>2. currentTerm[s] \in Int /\ currentTerm'[s] \in Int /\ t \in Int
      BY <1>1 DEF TypeOK, ElectionTypeOK, Terms
    <3> QED  BY <3>1, <3>2
  <2>2. currentTerm[s] < t  BY <1>4, <2>1
  <2>3. binlog[s].len = 0 /\ appending[s] = {}  BY <1>1, <2>2 DEF TermsOfLogs
  <2>4. appending'[s] = {}
    <3> SUFFICES ASSUME NEW h \in appending'[s]
                 PROVE  FALSE
      OBVIOUS
    <3>1. h.req \in appendReq /\ currentTerm'[s] = h.req.term  BY <1>1, <2>3, AppendingStep
    <3>2. h.req.term = t  BY <1>1, <3>1 DEF CallsOfLeader, OfLeader
    <3> QED  BY <1>4, <2>1, <3>1, <3>2
  <2>5. binlog'[s] = binlog[s]
    <3>1. status[s] # "Leader"
      <4> SUFFICES ASSUME status[s] = "Leader"
                   PROVE  FALSE
        OBVIOUS
      <4>1. currentTerm[s] = t  BY <1>1, LeaderIs
      <4> QED  BY <2>1, <2>2, <4>1
    <3>2. \A m \in appendReq : ~AppendMismatch(m)
      BY <1>1, PreviousMatches DEF AppendMismatch
    <3> QED  BY <1>1, <2>3, <3>1, <3>2, LogsSameStep
  <2> QED  BY <2>3, <2>4, <2>5
<1>5. ASSUME NEW m \in voteReq'
      PROVE  m.lastIndex < binlog'[m.from].len /\ m.lastTerm <= t
  <2>1. m \in VoteRequest /\ m.from \in Server /\ m.lastIndex \in Int /\ m.lastTerm \in Int
    BY DEF TypeOK, ElectionTypeOK, VoteRequest
  <2>2. binlog[m.from].len \in Int /\ binlog'[m.from].len \in Int /\ t \in Nat
        /\ binlog[m.from].len <= binlog'[m.from].len
    <3>1. binlog[m.from].len <= binlog'[m.from].len  BY <2>1, FirstSteps
    <3>2. binlog[m.from].len \in Nat /\ binlog'[m.from].len \in Nat /\ t \in Nat
      BY <1>1, <2>1 DEF TypeOK, LogTypeOK, BinLogs, Terms
    <3> QED  BY <3>1, <3>2
  <2>3. CASE m \in voteReq
    <3>1. m.lastIndex < binlog[m.from].len /\ m.lastTerm <= t  BY <1>1, <2>3 DEF TermsOfLogs
    <3> QED  BY <2>1, <2>2, <3>1
  <2>4. CASE m.lastIndex = LastLogIndex(binlog[m.from]) /\ m.lastTerm = LastLogTerm(binlog[m.from])
    <3>1. m.lastTerm = IF binlog[m.from].len = 0 THEN -1 ELSE t
      BY <1>1, <2>1, <2>4 DEF TermsOfLogs
    <3>2. m.lastIndex = binlog[m.from].len - 1  BY <2>4 DEF LastLogIndex
    <3> QED  BY <2>2, <3>1, <3>2
  <2> QED  BY <1>1, <2>3, <2>4, VoteCallsStep
<1> QED  BY <1>2, <1>3, <1>4, <1>5 DEF TermsOfLogs

LEMMA ConfirmedMore ==
    ASSUME NEW l \in Server, NEW t \in Terms, First(l, t), NEW v \in Server \ {l},
           NEW n \in Int, NEW k \in Int, n <= k, Confirmed(l, t, v, n)
    PROVE  Confirmed(l, t, v, k)
<1>1. TypeOK /\ matchIndex[l][v] \in Int  BY FirstIs, NodeNumbers
<1>2. matchIndex[l][v] < k  BY <1>1 DEF Confirmed
<1>3. ASSUME NEW m \in AnswersOf(v), m.to = l, m.term <= t, m.success
      PROVE  NextAfter(repl[l][v].call) <= k
  <2>1. NextAfter(repl[l][v].call) <= n  BY <1>3 DEF Confirmed
  <2>2. repl[l][v].pc = "sent"  BY <1>3, FollowerConfirmed
  <2>3. NextAfter(repl[l][v].call) \in Int  BY <1>1, <2>2, CallNumbers
  <2> QED  BY <2>1, <2>3
<1> QED  BY <1>2, <1>3 DEF Confirmed

\* A member of a later term confirms nothing more.
LEMMA ConfirmedKept ==
    ASSUME NodeAssumption, NEW l \in Server, NEW t \in Terms, First(l, t), TypeOK', [Next]_vars,
           fails' = fails, \A m \in voteRes : ~WinningVote(m),
           NEW v \in Server \ {l}, currentTerm[v] > t, NEW k \in Int, Confirmed(l, t, v, k)
    PROVE  Confirmed(l, t, v, k)'
<1>1. TypeOK /\ ElectionInv /\ Steady /\ Wins(l, t) /\ NodeFacts  BY FirstIs
<1>2. ASSUME NEW m \in appendRes, Takes(l, v, m), status[l] = "Leader", m.term <= currentTerm[l], m.success
      PROVE  NextAfter(repl[l][v].call) <= k
  <2>1. currentTerm[l] = t  BY <1>1, <1>2, LeaderIs
  <2> QED  BY <1>2, <2>1 DEF Confirmed, AnswersOf, Takes
<1>3. matchIndex'[l][v] < k
  <2>1. CASE matchIndex'[l][v] = matchIndex[l][v]  BY <2>1 DEF Confirmed
  <2>2. ASSUME NEW m \in appendRes, Takes(l, v, m), ReplicateSuccess(l, v, m),
               matchIndex'[l][v] = NextAfter(repl[l][v].call) - 1
        PROVE  matchIndex'[l][v] < k
    <3>1. NextAfter(repl[l][v].call) <= k  BY <1>2, <2>2 DEF ReplicateSuccess
    <3>2. NextAfter(repl[l][v].call) \in Int  BY <1>1, <2>2, CallNumbers DEF Takes
    <3> QED  BY <2>2, <3>1, <3>2
  <2> QED  BY <1>1, <2>1, <2>2, MatchStep
<1>4. ASSUME NEW m \in AnswersOf(v)', m.to = l, m.term <= t, m.success
      PROVE  NextAfter(repl'[l][v].call) <= k
  <2>1. m \in appendRes' /\ m.from = v  BY <1>4 DEF AnswersOf
  <2>2. m \in appendRes
    <3>1. m.term \in Int /\ currentTerm[v] \in Int /\ t \in Int
      BY <1>1, <2>1, NodeNumbers DEF TypeOK, ReplicationTypeOK, AppendResponse, Terms
    <3>2. m \in appendRes \/ m.term >= currentTerm[m.from]
      BY <1>1, <2>1, AnswersStep DEF NodeFacts
    <3> QED  BY <1>4, <2>1, <3>1, <3>2
  <2>3. m \in AnswersOf(v)  BY <2>1, <2>2 DEF AnswersOf
  <2>4. repl[l][v].pc = "sent" /\ AnswersOf(v) = {m}  BY <2>3, FollowerConfirmed
  <2>5. repl'[l][v] = repl[l][v]
    <3>1. ASSUME NEW n \in appendRes, Takes(l, v, n)
          PROVE  FALSE
      <4>1. n = m  BY <2>4, <3>1 DEF Takes, AnswersOf
      <4> QED  BY <2>1, <3>1, <4>1 DEF Takes
    <3> QED  BY <1>1, <2>4, <3>1, ThreadsStep
  <2> QED  BY <1>4, <2>3, <2>5 DEF Confirmed
<1> QED  BY <1>3, <1>4 DEF Confirmed

\* A vote leaves the threads and the logs alone.
LEMMA VotingIs ==
    ASSUME NEW s, VoteLeader(s) \/ (\E m \in voteReq : Vote(m))
    PROVE  UNCHANGED <<binlog, matchIndex, repl, appendRes, commitIndex>>
BY DEF VoteLeader, Vote

\* Who votes for a candidate that asks has no longer log.
LEMMA VotersLog ==
    ASSUME NodeAssumption, NEW l \in Server, NEW t \in Terms, First(l, t),
           NEW m \in voteReq, ~LogBehind(m)
    PROVE  binlog[m.to].len <= binlog[m.from].len
<1>1. TypeOK /\ TermsOfLogs(l, t)  BY FirstIs
<1>2. m.from \in Server /\ m.to \in Server /\ m.lastIndex \in Int /\ m.lastTerm \in Int
  BY <1>1 DEF TypeOK, ElectionTypeOK, VoteRequest
<1>3. binlog[m.from].len \in Nat /\ binlog[m.to].len \in Nat /\ t \in Nat
  BY <1>1, <1>2, NodeNumbers DEF Terms
<1>4. m.lastIndex < binlog[m.from].len /\ m.lastTerm <= t
      /\ LastLogTerm(binlog[m.to]) = IF binlog[m.to].len = 0 THEN -1 ELSE t
  BY <1>1, <1>2 DEF TermsOfLogs
<1>5. /\ ~(m.lastTerm < LastLogTerm(binlog[m.to]))
      /\ ~(m.lastTerm = LastLogTerm(binlog[m.to]) /\ m.lastIndex < binlog[m.to].len - 1)
  BY DEF LogBehind, LastLogIndex
<1> QED  BY <1>2, <1>3, <1>4, <1>5

LEMMA VotersHeldStep ==
    ASSUME NodeAssumption, NEW l \in Server, NEW t \in Terms, First(l, t), TypeOK', [Next]_vars,
           fails' = fails, \A m \in voteRes : ~WinningVote(m)
    PROVE  VotersHeld(l, t)'
<1>1. /\ TypeOK /\ ElectionInv /\ Steady /\ Wins(l, t) /\ NodeFacts
      /\ CallsOfLeader(l, t) /\ CommitsOfLeader(l) /\ VotersHeld(l, t)
  BY FirstIs
<1> SUFFICES ASSUME NEW c \in Server \ {l}, status'[c] = "Candidate", currentTerm'[c] > t,
                    NEW v \in Server, voteFor'[v][currentTerm'[c]] = c
             PROVE  IF v = l THEN commitIndex'[l] < binlog'[c].len
                             ELSE Confirmed(l, t, v, binlog[c].len)'
  BY DEF VotersHeld, Voters
<1> PICK w : w = currentTerm'[c]  OBVIOUS
<1> PICK n : n = binlog[c].len  OBVIOUS
<1> PICK k : k = binlog'[c].len  OBVIOUS
<1>2. /\ w \in Terms /\ w \in Int /\ t \in Int /\ w > t /\ voteFor'[v][w] = c
      /\ n \in Nat /\ k \in Nat
      /\ currentTerm[v] \in Int /\ currentTerm[c] \in Int
  BY <1>1, NodeNumbers DEF TypeOK, ElectionTypeOK, LogTypeOK, BinLogs, Terms
<1>3. n <= k  BY FirstSteps
<1>4. \A u \in Server \ {l} : Confirmed(l, t, u, n) => Confirmed(l, t, u, k)
  BY <1>2, <1>3, ConfirmedMore
<1>5. CASE VoteLeader(c)
  <2>1. /\ currentTerm' = [currentTerm EXCEPT ![c] = currentTerm[c] + 1]
        /\ voteFor' = [voteFor EXCEPT ![c][currentTerm[c] + 1] = c]
    BY <1>5 DEF VoteLeader
  <2>2. w = currentTerm[c] + 1  BY <1>1, <2>1 DEF TypeOK, ElectionTypeOK
  <2>3. v = c
    <3> SUFFICES ASSUME v # c
                 PROVE  FALSE
      OBVIOUS
    <3>1. voteFor[v][w] = c  BY <1>1, <1>2, <2>1 DEF TypeOK, ElectionTypeOK
    <3>2. w <= currentTerm[c]  BY <1>1, <1>2, <3>1 DEF NodeFacts
    <3> QED  BY <1>2, <2>2, <3>2
  <2>4. Confirmed(l, t, v, k)  BY <1>4, <2>3, FollowerConfirmed
  <2>5. UNCHANGED <<binlog, matchIndex, repl, appendRes, commitIndex>>  BY <1>5, VotingIs
  <2> QED  BY <2>3, <2>4, <2>5 DEF Confirmed, AnswersOf
<1>6. CASE status[c] = "Candidate" /\ currentTerm[c] = w
  <2>1. CASE voteFor[v][w] = c
    <3>1. v \in Voters(c, currentTerm[c])  BY <1>6, <2>1 DEF Voters
    <3>2. IF v = l THEN commitIndex[l] < n ELSE Confirmed(l, t, v, n)
      BY <1>1, <1>2, <1>6, <3>1 DEF VotersHeld
    <3>3. currentTerm[v] >= w
      <4>1. c # Nil  BY DEF NodeAssumption
      <4>2. ~(w > currentTerm[v])  BY <1>1, <1>2, <2>1, <4>1 DEF ElectionInv, TermsInv
      <4> QED  BY <1>2, <4>2
    <3>4. CASE v = l
      <4>1. status[l] # "Leader"
        <5> SUFFICES ASSUME status[l] = "Leader"
                     PROVE  FALSE
          OBVIOUS
        <5>1. currentTerm[l] = t  BY <1>1, LeaderIs
        <5> QED  BY <1>2, <3>3, <3>4, <5>1
      <4>2. commitIndex'[l] = commitIndex[l]
        <5>1. \A m \in appendReq : m.to # l  BY <1>1 DEF CallsOfLeader, OfLeader
        <5>2. \A h \in appending[l] : FALSE  BY <1>1 DEF CallsOfLeader, OfLeader
        <5>3. \A u \in Server : \A h \in appending[u] : h.req.to = u  BY <1>1 DEF NodeFacts
        <5>4. \A f \in Server, m \in appendRes : ~ReplicateSuccess(l, f, m)
          BY <4>1 DEF ReplicateSuccess
        <5> QED  BY <1>1, <5>1, <5>2, <5>3, <5>4, CommitStep
      <4>3. commitIndex[l] \in Int  BY <1>1, NodeNumbers
      <4> QED  BY <1>2, <1>3, <3>2, <3>4, <4>2, <4>3
    <3>5. CASE v # l
      <4>1. Confirmed(l, t, v, k)  BY <1>4, <3>2, <3>5
      <4>2. currentTerm[v] > t  BY <1>2, <3>3
      <4>3. Confirmed(l, t, v, k)'  BY <1>2, <3>5, <4>1, <4>2, ConfirmedKept
      <4> QED  BY <3>5, <4>3 DEF Confirmed
    <3> QED  BY <3>4, <3>5
  <2>2. CASE VoteLeader(v) /\ w = currentTerm'[v] /\ v = c
    <3>1. currentTerm'[c] = currentTerm[c] + 1
      BY <1>1, <2>2 DEF VoteLeader, TypeOK, ElectionTypeOK
    <3> QED  BY <1>2, <1>6, <3>1
  <2>3. ASSUME NEW m \in voteReq, VoteGiven(m, v, w), m.from = c
        PROVE  IF v = l THEN commitIndex'[l] < binlog'[c].len
                        ELSE Confirmed(l, t, v, binlog[c].len)'
    <3>1. ~LogBehind(m) /\ m.to = v /\ Vote(m)  BY <2>3 DEF VoteGiven, VoteDecided
    <3>2. binlog[v].len <= n  BY <2>3, <3>1, VotersLog
    <3>3. UNCHANGED <<binlog, matchIndex, repl, appendRes, commitIndex>>  BY <3>1, VotingIs
    <3>4. binlog[v].len \in Nat /\ commitIndex[v] \in Int  BY <1>1, NodeNumbers
    <3>5. CASE v = l
      <4>1. commitIndex[l] < binlog[l].len  BY <1>1 DEF CommitsOfLeader
      <4> QED  BY <1>2, <3>2, <3>3, <3>4, <3>5, <4>1
    <3>6. CASE v # l
      <4>1. Confirmed(l, t, v, binlog[v].len)  BY <3>6, FollowerConfirmed
      <4>2. binlog[v].len <= k  BY <1>2, <1>3, <3>2, <3>4
      <4>3. Confirmed(l, t, v, k)  BY <1>2, <3>4, <3>6, <4>1, <4>2, ConfirmedMore
      <4> QED  BY <3>3, <3>6, <4>3 DEF Confirmed, AnswersOf
    <3> QED  BY <3>5, <3>6
  <2>4. \/ voteFor'[v][w] = voteFor[v][w]
        \/ VoteLeader(v) /\ w = currentTerm'[v] /\ voteFor'[v][w] = v
        \/ \E m \in voteReq : VoteGiven(m, v, w) /\ voteFor'[v][w] = m.from
    BY <1>1, <1>2, VotesStep
  <2> QED  BY <1>2, <2>1, <2>2, <2>3, <2>4
<1> QED  BY <1>1, <1>5, <1>6, StatusStep

\* The leader leads on, or others follow it: nothing new.
LEMMA FirstStep ==
    ASSUME NodeAssumption, NEW l \in Server, NEW t \in Terms, First(l, t), TypeOK', NodeFacts',
           [Next]_vars, Steady'
    PROVE  Wins(l, t)' /\ LeadInv(l, t)' /\ LeadMore(l, t)'
<1>1. TypeOK /\ Lead(l, t) /\ Wins(l, t) /\ Steady /\ Server # {l}  BY FirstIs
<1>2. Wins(l, t)'  BY <1>1, TwoWinsBefore
<1>3. \A m \in voteRes : ~WinningVote(m)  BY FirstSteps
<1>4. fails' = fails  BY <1>1 DEF Steady
<1>5. LeadInv(l, t)'  BY <1>1, <1>2, StepLead
<1>6. VotersHeld(l, t)'  BY <1>3, <1>4, VotersHeldStep
<1>7. CommitConfirmed(l)'  BY <1>3, CommitConfirmedStep
<1>8. TermsOfLogs(l, t)'  BY <1>3, <1>4, TermsOfLogsStep
<1> QED  BY <1>1, <1>2, <1>5, <1>6, <1>7, <1>8 DEF LeadMore

-----------------------------------------------------------------------------
\* The second election.

\* The candidate s wins term w with vote m, when l had won term t only.
SecondWin(l, t, m, s, w) ==
    /\ First(l, t)
    /\ WinningVote(m) /\ m.to = s /\ currentTerm[s] = w
    /\ ~(s = l /\ w = t)

\* A winner has a majority of votes.
LEMMA WinnerVoters ==
    ASSUME NodeAssumption, TypeOK, ElectionInv, NEW s \in Server, NEW t \in Terms, Wins(s, t)
    PROVE  Majority(Voters(s, t)) /\ t <= currentTerm[s]
<1>1. IsFiniteSet(Server) /\ Cardinality(Server) \in Nat
  BY FS_CardinalityType DEF NodeAssumption
<1>2. votePass[s][t] > Cardinality(Server) \div 2  BY DEF Wins, EnoughVotes
<1>3. votePass[s][t] \in Nat  BY DEF TypeOK, ElectionTypeOK
<1>4. votePass[s][t] <= Cardinality(Counted(s, t))  BY DEF ElectionInv, VotesInv
<1>5. /\ Cardinality(Counted(s, t)) \in Nat /\ Cardinality(Voters(s, t)) \in Nat
      /\ Cardinality(Counted(s, t)) <= Cardinality(Voters(s, t))
  BY VotersFinite
<1>6. Cardinality(Voters(s, t)) > Cardinality(Server) \div 2
  BY <1>1, <1>2, <1>3, <1>4, <1>5
<1>7. 2 * Cardinality(Voters(s, t)) > Cardinality(Server)  BY <1>1, <1>5, <1>6
<1>8. t <= currentTerm[s]
  <2>1. votePass[s][t] # 0  BY <1>1, <1>2, <1>3
  <2>2. ~(t > currentTerm[s])  BY <2>1 DEF ElectionInv, TermsInv
  <2>3. t \in Int /\ currentTerm[s] \in Int  BY NodeNumbers DEF Terms
  <2> QED  BY <2>2, <2>3
<1> QED  BY <1>7, <1>8 DEF Majority

LEMMA SecondIs ==
    ASSUME NodeAssumption, NEW l \in Server, NEW t \in Terms, NEW m \in voteRes,
           NEW s \in Server, NEW w \in Terms, SecondWin(l, t, m, s, w),
           TypeOK', ElectionInv', [Next]_vars
    PROVE  /\ status[s] = "Candidate" /\ status'[s] = "Leader" /\ StartReplicaLog(s)
           /\ \A u \in Server \ {s} : status'[u] = status[u] /\ binlog'[u] = binlog[u]
           /\ UNCHANGED <<currentTerm, voteFor, appending, commitIndex, lastApplied, applier,
                          sdkAck, reply, appendReq, appendRes, fails>>
           /\ binlog'[s].len = binlog[s].len + 1
           /\ \A e \in Written' : /\ e.term \in {t, w}
                                  /\ e.req # Nil => /\ e \in Written /\ e.term = t
                                                    /\ e.req \in Request /\ InLog(l, e.req)
           /\ Majority(Voters(s, w)) /\ w # t
<1>1. /\ TypeOK /\ NoBadSlot /\ ElectionInv /\ Wins(l, t) /\ WinningVote(m)
      /\ m.to = s /\ currentTerm[s] = w
  BY FirstIs DEF SecondWin
<1>2. /\ status[s] = "Candidate" /\ status' = [status EXCEPT ![s] = "Leader"]
      /\ status'[s] = "Leader" /\ StartReplicaLog(s) /\ Wins(m.to, currentTerm[m.to])'
      /\ UNCHANGED <<currentTerm, voteFor, appending, commitIndex, lastApplied, applier,
                     sdkAck, reply, appendReq, appendRes, fails>>
  BY <1>1, WinningVoteIs
<1> PICK e : e = NopEntry(w)  OBVIOUS
<1>3. e \in Entry /\ e.term = w /\ e.req = Nil  BY DEF NopEntry, Entry
<1>4. binlog' = [binlog EXCEPT ![s] = WriteEntry(@, e)]  BY <1>1, <1>2 DEF StartReplicaLog
<1>5. /\ \A u \in Server \ {s} : status'[u] = status[u] /\ binlog'[u] = binlog[u]
      /\ binlog'[s] = WriteEntry(binlog[s], e)
  BY <1>1, <1>2, <1>4 DEF TypeOK, ElectionTypeOK, LogTypeOK
<1>6. binlog'[s].len = binlog[s].len + 1
  <2>1. binlog[s] \in BinLogs(Entry, Terms)  BY <1>1, LogFacts
  <2> QED  BY <1>3, <1>5, <2>1, LastInLog
<1>7. Written' \subseteq Written \cup {e}
  <2>1. UNCHANGED <<appendReq, appending>>  BY <1>2
  <2> QED  BY <1>1, <1>3, <1>4, <2>1, WrittenByOne
<1>8. ASSUME NEW d \in Written'
      PROVE  /\ d.term \in {t, w}
             /\ d.req # Nil => /\ d \in Written /\ d.term = t
                               /\ d.req \in Request /\ InLog(l, d.req)
  <2>1. CASE d \in Written
    <3>1. d.term = t /\ (d.req # Nil => InLog(l, d.req))  BY <2>1, WrittenFirst DEF SecondWin
    <3>2. d \in Entry  BY <1>1, <2>1, WrittenEntries
    <3>3. d.req # Nil => d.req \in Request  BY <3>2 DEF Entry
    <3> QED  BY <2>1, <3>1, <3>3
  <2>2. CASE d = e  BY <1>3, <2>2
  <2> QED  BY <1>7, <2>1, <2>2
<1>9. Majority(Voters(s, w))
  <2> PICK V, C : V = Voters(s, w) /\ C = Counted(s, w)'  OBVIOUS
  <2>1. Wins(s, w)'
    <3>1. currentTerm' = currentTerm  BY <1>2
    <3> QED  BY <1>1, <1>2, <3>1 DEF Wins
  <2>2. votePass'[s][w] > Cardinality(Server) \div 2  BY <2>1 DEF Wins, EnoughVotes
  <2>3. votePass'[s][w] \in Nat  BY DEF TypeOK, ElectionTypeOK
  <2>4. votePass'[s][w] <= Cardinality(C)  BY DEF ElectionInv, VotesInv
  <2>5. C \subseteq V /\ V \subseteq Server  BY <1>2 DEF Counted, Voters
  <2>6. IsFiniteSet(Server) /\ Cardinality(Server) \in Nat
    BY FS_CardinalityType DEF NodeAssumption
  <2>7. IsFiniteSet(V)  BY <2>5, <2>6, FS_Subset
  <2>8. Cardinality(C) <= Cardinality(V) /\ Cardinality(C) \in Nat /\ Cardinality(V) \in Nat
    BY <2>5, <2>7, FS_Subset, FS_CardinalityType
  <2>9. Cardinality(V) > Cardinality(Server) \div 2  BY <2>2, <2>3, <2>4, <2>6, <2>8
  <2>10. 2 * Cardinality(V) > Cardinality(Server)  BY <2>6, <2>8, <2>9
  <2> QED  BY <2>10 DEF Majority
<1>10. w # t
  <2> SUFFICES ASSUME w = t
               PROVE  FALSE
    OBVIOUS
  <2>1. Majority(Voters(l, t))  BY <1>1, WinnerVoters
  <2>2. Voters(l, t) \in SUBSET Server /\ Voters(s, w) \in SUBSET Server  BY DEF Voters
  <2>3. \E v \in Server : v \in Voters(l, t) /\ v \in Voters(s, w)
    BY <1>9, <2>1, <2>2, MajoritiesMeet
  <2>4. s = l  BY <2>3 DEF Voters
  <2> QED  BY <2>4 DEF SecondWin
<1> QED  BY <1>2, <1>5, <1>6, <1>8, <1>9, <1>10

\* The leader itself is elected again.
LEMMA SecondSame ==
    ASSUME NodeAssumption, NEW l \in Server, NEW t \in Terms, NEW m \in voteRes,
           NEW w \in Terms, SecondWin(l, t, m, l, w), TypeOK', ElectionInv', [Next]_vars
    PROVE  HandedOver(l, t, l, w)'
<1>1. First(l, t) /\ currentTerm[l] = w  BY DEF SecondWin
<1>2. TypeOK /\ ElectionInv /\ Wins(l, t) /\ CallsOfLeader(l, t) /\ Server # {l}
  BY <1>1, FirstIs
<1>3. /\ StartReplicaLog(l) /\ w # t /\ appendReq' = appendReq
      /\ \A e \in Written' : e.req # Nil => InLog(l, e.req)
  BY SecondIs
<1>4. t < w
  <2>1. t <= currentTerm[l]  BY <1>2, WinnerVoters
  <2>2. t \in Int /\ w \in Int  BY DEF Terms
  <2> QED  BY <1>1, <1>3, <2>1, <2>2
<1>5. \A u, f \in Server : repl'[u][f].pc # "none" => u = l /\ f # l
  <2>1. StartReplicaLog(l)  BY <1>3
  <2>2. \A u, f \in Server : repl[u][f].pc # "none" => u = l /\ f # l
    BY <1>2 DEF CallsOfLeader
  <2>3. \A u, f \in Server : repl'[u][f] = repl[u][f] \/ (u = l /\ f # l)
    BY <1>2, <2>1, StartedThreads
  <2> QED  BY <2>2, <2>3
<1>6. \A k \in appendReq' : k.from = l /\ k.to # l
  BY <1>2, <1>3 DEF CallsOfLeader, OfLeader
<1>7. ASSUME NEW e \in Written', e.req # Nil
      PROVE  InLog(l, e.req)'
  <2> PICK r : r = e.req  OBVIOUS
  <2>1. InLog(l, r)  BY <1>3, <1>7
  <2>2. Extends(Entries(binlog'[l]), Entries(binlog[l]))  BY <1>1, FirstSteps
  <2>3. InLog(l, r)'  BY <1>2, <2>1, <2>2, ExtendsIs
  <2> QED  BY <2>3 DEF InLog
<1>8. SameLeader(l)'  BY <1>2, <1>5, <1>6, <1>7 DEF SameLeader
<1> QED  BY <1>4, <1>8 DEF HandedOver

\* What is no more than l's log and less than s's, s has, for both logs agree.
LEMMA PrefixHeld ==
    ASSUME NEW l \in Server, NEW t \in Terms, First(l, t), TypeOK', NEW s \in Server, NEW n \in Int,
           Extends(Entries(binlog'[l]), Entries(binlog[l])),
           Extends(Entries(binlog'[s]), Entries(binlog[s])),
           n < binlog[l].len, n > 0 => n < binlog[s].len
    PROVE  Holds(l, s, n) /\ Holds(l, s, n)'
<1>1. TypeOK /\ LogsOfLeader(l) /\ binlog[s].len \in Nat /\ binlog[l].len \in Nat
  BY FirstIs, NodeNumbers
<1>2. ASSUME NEW i \in 1 .. n
      PROVE  InLog(s, binlog[l].slot[i + 1].req)
  <2>1. i + 1 \in 1 .. binlog[s].len  BY <1>1
  <2>2. binlog[s].slot[i + 1] = binlog[l].slot[i + 1]  BY <1>1, <2>1 DEF LogsOfLeader
  <2> QED  BY <1>1, <2>1, <2>2, InLogIs
<1>3. Holds(l, s, n)  BY <1>2 DEF Holds
<1> QED  BY <1>1, <1>3, HoldsKept

\* Who won with votes of those that confirmed to l what it committed has it too.
LEMMA CommitHeld ==
    ASSUME NodeAssumption, NEW l \in Server, NEW t \in Terms, First(l, t),
           NEW s \in Server \ {l}, status[s] = "Candidate", currentTerm[s] > t,
           Majority(Voters(s, currentTerm[s])), commitIndex[l] > 0
    PROVE  commitIndex[l] < binlog[s].len
<1>1. TypeOK /\ VotersHeld(l, t) /\ CommitConfirmed(l)  BY FirstIs
<1> PICK n : n = commitIndex[l]  OBVIOUS
<1> PICK P, V : P = {v \in Server : v = l \/ matchIndex[l][v] >= n} /\ V = Voters(s, currentTerm[s])
  OBVIOUS
<1>2. n \in Int /\ binlog[s].len \in Nat  BY <1>1, NodeNumbers
<1>3. Majority(P)  BY <1>1 DEF CommitConfirmed
<1>4. P \in SUBSET Server /\ V \in SUBSET Server  BY DEF Voters
<1>5. PICK v \in Server : v \in P /\ v \in V  BY <1>3, <1>4, MajoritiesMeet
<1>6. IF v = l THEN n < binlog[s].len ELSE Confirmed(l, t, v, binlog[s].len)
  BY <1>1, <1>5 DEF VotersHeld
<1>7. CASE v # l
  <2>1. matchIndex[l][v] < binlog[s].len  BY <1>6, <1>7 DEF Confirmed
  <2>2. matchIndex[l][v] >= n /\ matchIndex[l][v] \in Int  BY <1>1, <1>5, <1>7, NodeNumbers
  <2> QED  BY <1>2, <2>1, <2>2
<1> QED  BY <1>6, <1>7

LEMMA SecondNewer ==
    ASSUME NodeAssumption, NEW l \in Server, NEW t \in Terms, NEW m \in voteRes,
           NEW s \in Server \ {l}, NEW w \in Terms, SecondWin(l, t, m, s, w), t < w,
           TypeOK', ElectionInv', [Next]_vars
    PROVE  HandedOver(l, t, s, w)'
<1>1. First(l, t) /\ currentTerm[s] = w  BY DEF SecondWin
<1>2. /\ TypeOK /\ ElectionInv /\ Steady /\ Wins(l, t) /\ CallsOfLeader(l, t) /\ LogsOfLeader(l)
      /\ CommitsOfLeader(l) /\ FollowersKnown(l, t) /\ RequestsOfLeader(l) /\ VotersHeld(l, t)
  BY <1>1, FirstIs
<1>3. /\ status[s] = "Candidate" /\ StartReplicaLog(s)
      /\ \A u \in Server \ {s} : status'[u] = status[u] /\ binlog'[u] = binlog[u]
      /\ UNCHANGED <<currentTerm, appending, commitIndex, applier, sdkAck, reply, appendRes>>
      /\ \A e \in Written' : /\ e.term \in {t, w}
                             /\ e.req # Nil => e.req \in Request /\ InLog(l, e.req)
      /\ Majority(Voters(s, w))
  BY SecondIs
<1>4. /\ Extends(Entries(binlog'[l]), Entries(binlog[l]))
      /\ Extends(Entries(binlog'[s]), Entries(binlog[s]))
  BY <1>1, FirstSteps
<1>5. /\ binlog[l].len \in Nat /\ binlog[s].len \in Nat /\ commitIndex[l] \in Int
      /\ \A v \in Server : binlog[v].len \in Nat /\ matchIndex[l][v] \in Int
      /\ t \in Int /\ w \in Int /\ \A v \in Server : currentTerm[v] \in Int
  BY <1>2, NodeNumbers DEF Terms
<1> PICK c : c = commitIndex[l]  OBVIOUS
<1>6. Holds(l, s, c) /\ Holds(l, s, c)' /\ commitIndex'[l] = c
  <2>1. c < binlog[l].len  BY <1>2 DEF CommitsOfLeader
  <2>2. c > 0 => c < binlog[s].len  BY <1>1, <1>3, CommitHeld
  <2>3. Holds(l, s, c) /\ Holds(l, s, c)'  BY <1>1, <1>4, <1>5, <2>1, <2>2, PrefixHeld
  <2> QED  BY <1>3, <2>3
<1>7. NewLeader(s, w)'
  <2>1. sdkAck'[s] = {}  BY <1>2, <1>3 DEF CallsOfLeader
  <2>2. ASSUME NEW e \in Written', e.req # Nil, reply'[e.req] = "ok"
        PROVE  InLog(s, e.req)'
    <3> PICK r : r = e.req  OBVIOUS
    <3>1. r \in Request /\ r # Nil /\ reply[r] = "ok"  BY <1>3, <2>2
    <3>2. PICK i \in 0 .. c : binlog[l].slot[i + 1].req = r /\ binlog[l].slot[1].req = Nil
      BY <1>2, <3>1 DEF RequestsOfLeader
    <3>3. i \in 1 .. c
      <4>1. i # 0  BY <3>1, <3>2
      <4> QED  BY <1>5, <4>1
    <3>4. InLog(s, r)  BY <1>6, <3>2, <3>3 DEF Holds
    <3>5. InLog(s, r)'  BY <1>2, <1>4, <3>4, ExtendsIs
    <3> QED  BY <3>5 DEF InLog
  <2> QED  BY <2>1, <2>2 DEF NewLeader
<1>8. ASSUME status'[l] = "Leader"
      PROVE  OldLeader(l, t, s, w)'
  <2>1. currentTerm[l] = t /\ binlog'[l] = binlog[l]
    <3>1. status[l] = "Leader"  BY <1>3, <1>8
    <3> QED  BY <1>2, <1>3, <3>1, LeaderIs
  <2>2. appending'[l] = {} /\ binlog'[l].len > 0
    <3>1. appending[l] = {}  BY <1>2 DEF CallsOfLeader, OfLeader
    <3> QED  BY <1>2, <1>3, <2>1, <3>1 DEF RequestsOfLeader
  <2>3. Holds(l, s, commitIndex[l])'  BY <1>6 DEF Holds
  <2>4. applier'[l].pc # "wait" => applier'[l].end <= commitIndex'[l]
    BY <1>2, <1>3 DEF CommitsOfLeader
  <2>5. ASSUME NEW a \in sdkAck'[l]
        PROVE  a.index \in 1 .. binlog'[l].len - 1 /\ binlog'[l].slot[a.index + 1].req = a.done
    <3>1. a \in sdkAck[l]  BY <1>3
    <3>2. a.index \in Nat /\ a.done \in Request  BY <1>2, <3>1 DEF TypeOK, ApplyTypeOK, Ack
    <3>3. /\ a.index < binlog[l].len /\ binlog[l].slot[a.index + 1].req = a.done
          /\ binlog[l].slot[1].req = Nil
      BY <1>2, <3>1 DEF RequestsOfLeader
    <3>4. a.index # 0  BY <3>2, <3>3 DEF NodeAssumption
    <3> QED  BY <1>5, <2>1, <3>2, <3>3, <3>4
  <2>6. ASSUME NEW v \in Voters(s, w)
        PROVE  currentTerm'[v] >= w /\ ConfirmedHeld(l, t, s, v)'
    <3>1. v \in Server /\ voteFor[v][w] = s  BY DEF Voters
    <3>2. currentTerm[v] >= w
      <4>1. s # Nil  BY DEF NodeAssumption
      <4>2. ~(w > currentTerm[v])  BY <1>2, <3>1, <4>1 DEF ElectionInv, TermsInv
      <4> QED  BY <1>5, <3>1, <4>2
    <3>3. v # l  BY <1>5, <2>1, <3>2
    <3>4. Confirmed(l, t, v, binlog[s].len)
      BY <1>1, <1>2, <1>3, <3>3 DEF VotersHeld
    <3>5. \A n \in Int : n < binlog[l].len /\ n < binlog[s].len => Holds(l, s, n)'
      BY <1>1, <1>4, PrefixHeld
    <3>6. repl'[l][v] = repl[l][v] /\ matchIndex'[l][v] = matchIndex[l][v]
      <4>1. StartReplicaLog(s)  BY <1>3
      <4> QED  BY <1>2, <3>1, <4>1, StartedThreads
    <3>7. binlog[v].len <= binlog[l].len  BY <1>2, <3>1 DEF LogsOfLeader
    <3> PICK k : k = matchIndex[l][v]  OBVIOUS
    <3>8. Holds(l, s, k)'
      <4>1. k < binlog[v].len  BY <1>2, <3>1, <3>3 DEF FollowersKnown
      <4>2. k < binlog[s].len  BY <3>4 DEF Confirmed
      <4>3. k \in Int /\ k < binlog[l].len  BY <1>5, <3>1, <3>7, <4>1
      <4> QED  BY <3>5, <4>2, <4>3
    <3>9. Holds(l, s, matchIndex[l][v])'  BY <3>6, <3>8 DEF Holds
    <3>10. ASSUME NEW n \in OldAnswers(l, t, v)'
           PROVE  /\ OldAnswers(l, t, v)' = {n}
                  /\ repl'[l][v].pc = "sent"
                  /\ n.success => Holds(l, s, NextAfter(repl[l][v].call) - 1)'
      <4>1. n \in AnswersOf(v) /\ n.to = l /\ n.term <= t
        BY <1>3 DEF OldAnswers, AnswersOf
      <4>2. /\ repl[l][v].pc = "sent" /\ AnswersOf(v) = {n}
            /\ n.success => NextAfter(repl[l][v].call) = binlog[v].len
        BY <1>1, <3>1, <3>3, <4>1, FollowerConfirmed
      <4>3. OldAnswers(l, t, v)' = {n}  BY <1>3, <4>2 DEF OldAnswers, AnswersOf
      <4> PICK i : i = NextAfter(repl[l][v].call) - 1  OBVIOUS
      <4>4. n.success => Holds(l, s, i)'
        <5> SUFFICES ASSUME n.success
                     PROVE  Holds(l, s, i)'
          BY DEF Holds
        <5>1. NextAfter(repl[l][v].call) <= binlog[s].len  BY <3>4, <4>1 DEF Confirmed
        <5>2. i = binlog[v].len - 1  BY <4>2
        <5>3. i \in Int /\ i < binlog[l].len /\ i < binlog[s].len
          BY <1>5, <3>1, <3>7, <4>2, <5>1, <5>2
        <5> QED  BY <3>5, <5>3
      <4>5. i = NextAfter(repl'[l][v].call) - 1  BY <3>6
      <4>6. n.success => Holds(l, s, NextAfter(repl[l][v].call) - 1)'
        BY <4>4, <4>5 DEF Holds, NextAfter
      <4> QED  BY <3>6, <4>2, <4>3, <4>6
    <3>11. ConfirmedHeld(l, t, s, v)'  BY <3>9, <3>10 DEF ConfirmedHeld
    <3> QED  BY <1>3, <3>2, <3>11
  <2>7. Voters(s, w) \in SUBSET Server  BY DEF Voters
  <2>8. \E Q \in SUBSET Server :
            Majority(Q) /\ \A v \in Q : currentTerm'[v] >= w /\ ConfirmedHeld(l, t, s, v)'
    BY <1>3, <2>6, <2>7
  <2> QED  BY <2>2, <2>3, <2>4, <2>5, <2>8 DEF OldLeader, Majority
<1>9. TwoLeaders(l, t, s, w)'  BY <1>3, <1>7, <1>8 DEF TwoLeaders
<1> QED  BY <1>9 DEF HandedOver

\* A candidate of an earlier term wins late: it has nothing, and l leads on.
LEMMA SecondOlder ==
    ASSUME NodeAssumption, NEW l \in Server, NEW t \in Terms, NEW m \in voteRes,
           NEW s \in Server \ {l}, NEW w \in Terms, SecondWin(l, t, m, s, w), w < t,
           TypeOK', ElectionInv', [Next]_vars
    PROVE  HandedOver(s, w, l, t)'
<1>1. First(l, t) /\ currentTerm[s] = w  BY DEF SecondWin
<1>2. /\ TypeOK /\ NoBadSlot /\ ElectionInv /\ Wins(l, t) /\ CallsOfLeader(l, t) /\ CommitsOfLeader(l)
      /\ TermsOfLogs(l, t)
  BY <1>1, FirstIs
<1>3. /\ status[s] = "Candidate" /\ StartReplicaLog(s) /\ binlog'[s].len = binlog[s].len + 1
      /\ UNCHANGED <<currentTerm, voteFor, appending, commitIndex, applier, sdkAck, reply, appendRes>>
      /\ \A e \in Written' : /\ e.term \in {t, w}
                             /\ e.req # Nil => e.term = t /\ e.req \in Request
  BY SecondIs
<1>4. /\ commitIndex[s] \in Int /\ lastApplied[s] \in Int /\ applier[s].end \in Int
      /\ t \in Int /\ w \in Int /\ \A v \in Server : currentTerm[v] \in Int
  BY <1>2, NodeNumbers DEF Terms
<1>5. binlog[s].len = 0 /\ appending[s] = {}  BY <1>1, <1>2 DEF TermsOfLogs
<1>6. NewLeader(l, t)'
  <2>1. ASSUME NEW a \in sdkAck'[l], NEW e \in Written', e.req = a.done
        PROVE  e.term = t
    <3>1. a \in sdkAck[l]  BY <1>3, <2>1
    <3>2. a.done \in Request  BY <1>2, <3>1 DEF TypeOK, ApplyTypeOK, Ack
    <3>3. e.req # Nil  BY <2>1, <3>2 DEF NodeAssumption
    <3> QED  BY <1>3, <3>3
  <2>2. ASSUME NEW e \in Written', e.req # Nil, e.term < t
        PROVE  FALSE
    BY <1>3, <1>4, <2>2
  <2> QED  BY <2>1, <2>2 DEF NewLeader
<1>7. \A n \in Int : n < 1 => Holds(s, l, n)'
  <2> SUFFICES ASSUME NEW n \in Int, n < 1
               PROVE  Holds(s, l, n)'
    OBVIOUS
  <2>1. n < binlog'[s].len  BY <1>3, <1>5
  <2>2. \A i \in 1 .. n : FALSE  OBVIOUS
  <2> QED  BY <2>1, <2>2 DEF Holds
<1>8. OldLeader(s, w, l, t)'
  <2>1. appending'[s] = {} /\ binlog'[s].len > 0  BY <1>3, <1>5
  <2>2. Holds(s, l, commitIndex[s])'
    <3> PICK n : n = commitIndex[s]  OBVIOUS
    <3>1. n < 0  BY <1>2, <1>5 DEF CommitsOfLeader
    <3>2. Holds(s, l, n)'  BY <1>4, <1>7, <3>1
    <3> QED  BY <1>3, <3>2 DEF Holds
  <2>3. applier'[s].pc = "wait"
    <3> SUFFICES ASSUME applier[s].pc # "wait"
                 PROVE  FALSE
      BY <1>3
    <3>1. applier[s].end < 0  BY <1>2, <1>5 DEF CommitsOfLeader
    <3>2. lastApplied[s] >= -1 /\ lastApplied[s] < applier[s].end
      BY <1>2 DEF NoBadSlot, ApplyStored
    <3> QED  BY <1>4, <3>1, <3>2
  <2>4. sdkAck'[s] = {}  BY <1>2, <1>3 DEF CallsOfLeader
  <2>5. ASSUME NEW v \in Voters(l, t)
        PROVE  currentTerm'[v] >= t /\ ConfirmedHeld(s, w, l, v)'
    <3>1. v \in Server /\ voteFor[v][t] = l  BY DEF Voters
    <3>2. currentTerm[v] >= t
      <4>1. l # Nil  BY DEF NodeAssumption
      <4>2. ~(t > currentTerm[v])  BY <1>2, <3>1, <4>1 DEF ElectionInv, TermsInv
      <4> QED  BY <1>4, <3>1, <4>2
    <3>3. v # s  BY <1>1, <1>4, <3>2
    <3>4. matchIndex'[s][v] = -1
      <4>1. repl[s][v].pc = "none"  BY <1>2, <3>1 DEF CallsOfLeader
      <4> QED  BY <1>2, <1>3, <3>1, <3>3, <4>1, StartedThreads
    <3>5. Holds(s, l, matchIndex[s][v])'
      <4> PICK n : n = -1  OBVIOUS
      <4>1. Holds(s, l, n)'  BY <1>7
      <4> QED  BY <3>4, <4>1 DEF Holds
    <3>6. OldAnswers(s, w, v)' = {}  BY <1>2, <1>3 DEF OldAnswers, CallsOfLeader
    <3> QED  BY <1>3, <3>2, <3>5, <3>6 DEF ConfirmedHeld
  <2>6. Majority(Voters(l, t)) /\ Voters(l, t) \in SUBSET Server
    BY <1>2, WinnerVoters DEF Voters
  <2>7. \E Q \in SUBSET Server :
            Majority(Q) /\ \A v \in Q : currentTerm'[v] >= t /\ ConfirmedHeld(s, w, l, v)'
    BY <2>5, <2>6
  <2> QED  BY <2>1, <2>2, <2>3, <2>4, <2>7 DEF OldLeader, Majority
<1>9. TwoLeaders(s, w, l, t)'  BY <1>3, <1>6, <1>8 DEF TwoLeaders
<1> QED  BY <1>9 DEF HandedOver

\* A step after which the cluster is not steady any more is the second election.
LEMMA SecondWinStep ==
    ASSUME NodeAssumption, NEW l \in Server, NEW t \in Terms, First(l, t), TypeOK', ElectionInv',
           [Next]_vars, TwoWins', ~Steady'
    PROVE  (\E v, w \in Won : HandedOver(v[1], v[2], w[1], w[2]))'
<1>1. TypeOK /\ ElectionInv /\ Steady /\ Wins(l, t) /\ Server # {l}  BY FirstIs
<1>2. Wins(l, t)'  BY <1>1, TwoWinsBefore
<1>3. PICK s \in Server, w \in Terms : Wins(s, w)' /\ ~(s = l /\ w = t)
  BY DEF Steady, TwoWins
<1>4. ~Wins(s, w)  BY <1>1, <1>3 DEF Steady
<1>5. PICK m \in voteRes : m.to = s /\ currentTerm[s] = w /\ WinningVote(m)
  BY <1>1, <1>3, <1>4, WinsStep
<1>6. SecondWin(l, t, m, s, w)  BY <1>3, <1>5 DEF SecondWin
<1>7. w # t  BY <1>6, SecondIs
<1>8. w < t \/ t < w  BY <1>7 DEF Terms
<1>9. HandedOver(l, t, s, w)' \/ HandedOver(s, w, l, t)'
  <2>1. CASE s = l  BY <1>6, <2>1, SecondSame
  <2>2. CASE s # l /\ t < w  BY <1>6, <2>2, SecondNewer
  <2>3. CASE s # l /\ w < t  BY <1>6, <2>3, SecondOlder
  <2> QED  BY <1>8, <2>1, <2>2, <2>3
<1> PICK p, q : p = <<l, t>> /\ q = <<s, w>>  OBVIOUS
<1>10. /\ p \in Won' /\ q \in Won'
       /\ p[1] = l /\ p[2] = t /\ q[1] = s /\ q[2] = w
  BY <1>2, <1>3 DEF Won
<1>11. HandedOver(p[1], p[2], q[1], q[2])' \/ HandedOver(q[1], q[2], p[1], p[2])'
  BY <1>9, <1>10
<1> QED  BY <1>10, <1>11

-----------------------------------------------------------------------------
\* The invariant.

LEMMA InitHandover == ASSUME Init PROVE HandoverInv
<1>1. NodeFacts  BY InitFacts
<1>2. NothingYet  BY DEF Init, NothingYet, NewBinLog, NoThread
<1>3. \A w \in Won : Server = {w[1]}
  <2>1. Cardinality(Server) \in Nat  BY NodeAssumption, FS_CardinalityType DEF NodeAssumption
  <2>2. ~(0 > Cardinality(Server) \div 2)  BY <2>1
  <2>3. \A s \in Server : \A t \in Terms : votePass[s][t] = 0  BY DEF Init
  <2>4. \A s \in Server : \A t \in Terms : ~Wins(s, t)  BY <2>2, <2>3 DEF Wins, EnoughVotes
  <2> QED  BY <2>4 DEF Won
<1>4. \A s \in Server : LastLogTerm(binlog[s]) = -1
  BY DEF Init, NewBinLog, LastLogTerm
<1>5. voteReq = {}  BY DEF Init
<1>6. BeforeLeaders  BY <1>2, <1>3, <1>4, <1>5 DEF BeforeLeaders
<1> QED  BY <1>1, <1>6 DEF HandoverInv

LEMMA StepHandover ==
    ASSUME NodeAssumption, TypeOK, NoBadSlot, ElectionInv, CandidateInv, HandoverInv,
           TypeOK', ElectionInv', [Next]_vars
    PROVE  HandoverInv'
<1> SUFFICES ASSUME TwoWins'
             PROVE  /\ NodeFacts'
                    /\ \/ BeforeLeaders'
                       \/ Steady' /\ \E l \in Server, t \in Terms :
                                        Wins(l, t)' /\ LeadInv(l, t)' /\ LeadMore(l, t)'
                       \/ (\E v, w \in Won : HandedOver(v[1], v[2], w[1], w[2]))'
  BY DEF HandoverInv
<1>1. /\ TwoWins /\ fails' = fails
      /\ \A s \in Server, t \in Terms : Wins(s, t) => Wins(s, t)'
  BY TwoWinsBefore
<1>2. NodeFacts  BY <1>1 DEF HandoverInv
<1>3. NodeFacts'  BY <1>1, <1>2, StepFacts
<1>4. CASE BeforeLeaders
  <2>1. CASE \A m \in voteRes : ~WinningVote(m)
    <3>1. BeforeLeaders'  BY <1>4, <2>1, BeforeStep
    <3> QED  BY <1>3, <3>1
  <2>2. ASSUME NEW n \in voteRes, WinningVote(n)
        PROVE  Steady' /\ \E l \in Server, t \in Terms :
                             Wins(l, t)' /\ LeadInv(l, t)' /\ LeadMore(l, t)'
    BY <1>4, <2>2, FirstWinStep
  <2> QED  BY <1>3, <2>1, <2>2
<1>5. ASSUME Steady, NEW l \in Server, NEW t \in Terms, Wins(l, t), LeadInv(l, t), LeadMore(l, t)
      PROVE  \/ Steady' /\ Wins(l, t)' /\ LeadInv(l, t)' /\ LeadMore(l, t)'
             \/ (\E v, w \in Won : HandedOver(v[1], v[2], w[1], w[2]))'
  <2>1. First(l, t)  BY <1>2, <1>5 DEF First, Lead
  <2>2. CASE Steady'
    <3>1. Wins(l, t)' /\ LeadInv(l, t)' /\ LeadMore(l, t)'  BY <1>3, <2>1, <2>2, FirstStep
    <3> QED  BY <2>2, <3>1
  <2>3. CASE ~Steady'
    <3>1. (\E v, w \in Won : HandedOver(v[1], v[2], w[1], w[2]))'
      BY <2>1, <2>3, SecondWinStep
    <3> QED  BY <3>1
  <2> QED  BY <2>2, <2>3
<1>6. ASSUME NEW v \in Won, NEW w \in Won, HandedOver(v[1], v[2], w[1], w[2])
      PROVE  (\E p, q \in Won : HandedOver(p[1], p[2], q[1], q[2]))'
  <2> PICK x, tl, y, th : x = v[1] /\ tl = v[2] /\ y = w[1] /\ th = w[2]  OBVIOUS
  <2>1. /\ x \in Server /\ tl \in Terms /\ Wins(x, tl) /\ v = <<x, tl>>
        /\ y \in Server /\ th \in Terms /\ Wins(y, th) /\ w = <<y, th>>
    BY DEF Won
  <2>2. HandedOver(x, tl, y, th)  BY <1>6
  <2>3. Second(x, tl, y, th)  BY <1>1, <1>2, <2>1, <2>2 DEF Second, HandedOver
  <2>4. HandedOver(x, tl, y, th)'  BY <1>3, <2>1, <2>2, <2>3, HandedOverStep
  <2>5. v \in Won' /\ w \in Won'  BY <1>1, <2>1 DEF Won
  <2>6. HandedOver(v[1], v[2], w[1], w[2])'  BY <2>4
  <2> QED  BY <2>5, <2>6
<1> QED  BY <1>1, <1>3, <1>4, <1>5, <1>6 DEF HandoverInv

\* As long as two elections at most were won and no call was given up, what an
\* older leader committed and answered a newer one has, in whatever order votes,
\* calls, answers and commits come.
THEOREM HandoverInvariant == Spec => []HandoverInv
<1> DEFINE Inv == TypeOK /\ NoBadSlot /\ ElectionInv /\ SteadyInv
<1>1. Init => HandoverInv  BY InitHandover
<1>2. Inv /\ Inv' /\ HandoverInv /\ [Next]_vars => HandoverInv'
  BY StepHandover, NodeAssumption DEF SteadyInv
<1>3. Spec => []Inv  BY SteadyInvariant
<1> HIDE DEF Inv
<1> QED  BY <1>1, <1>2, <1>3, PTL DEF Spec

LEMMA HandoverShows ==
    ASSUME NodeAssumption, TypeOK, NoBadSlot, ElectionInv, CandidateInv, HandoverInv, TwoWins
    PROVE  LeaderComplete
<1> SUFFICES ASSUME NEW s \in Server, NEW u \in Server, NEW i \in 1 .. GetLength(binlog[u]), NEW e,
                    e = Entries(binlog[u])[i],
                    status[s] = "Leader", e.term < currentTerm[s], e.op # "Nop", reply[e.req] = "ok"
             PROVE  InLog(s, e.req)
  BY DEF LeaderComplete
<1>1. e \in Written /\ e \in Entry
  <2>1. binlog[u].slot \in Seq(Entry) /\ Len(binlog[u].slot) \in Nat /\ binlog[u].len \in Nat
        /\ binlog[u].len <= Len(binlog[u].slot) /\ binlog[u] \in BinLogs(Entry, Terms)
    BY LogFacts DEF BinLogs
  <2>2. i \in 1 .. binlog[u].len  BY DEF GetLength
  <2>3. e = binlog[u].slot[i] /\ i \in 1 .. Len(binlog[u].slot)  BY <2>1, <2>2, EntriesOf
  <2> QED  BY <2>3, WrittenEntries
<1>2. e.req # Nil  BY <1>1 DEF Entry, NodeAssumption
<1>3. CASE BeforeLeaders  BY <1>3 DEF BeforeLeaders, NothingYet
<1>4. ASSUME Steady, NEW l \in Server, NEW t \in Terms, Wins(l, t), LeadInv(l, t), LeadMore(l, t)
      PROVE  FALSE
  <2>1. First(l, t)  BY <1>4 DEF First, Lead, HandoverInv
  <2>2. e.term = t  BY <1>1, <2>1, WrittenFirst
  <2>3. s = l /\ currentTerm[l] = t  BY <1>4, LeaderIs
  <2> QED  BY <2>2, <2>3 DEF Terms
<1>5. ASSUME NEW v \in Won, NEW w \in Won, HandedOver(v[1], v[2], w[1], w[2])
      PROVE  InLog(s, e.req)
  <2> PICK x, tl, y, th : x = v[1] /\ tl = v[2] /\ y = w[1] /\ th = w[2]  OBVIOUS
  <2>1. /\ x \in Server /\ tl \in Terms /\ Wins(x, tl)
        /\ y \in Server /\ th \in Terms /\ Wins(y, th)
    BY DEF Won
  <2>2. HandedOver(x, tl, y, th)  BY <1>5
  <2>3. Second(x, tl, y, th)  BY <2>1, <2>2 DEF Second, HandedOver, HandoverInv
  <2>4. (s = x /\ currentTerm[s] = tl) \/ (s = y /\ currentTerm[s] = th)
    BY <2>1, <2>3, LeaderOfTwo
  <2>5. CASE x = y
    <3>1. SameLeader(y)  BY <2>2, <2>5 DEF HandedOver
    <3> QED  BY <1>1, <1>2, <2>4, <2>5, <3>1 DEF SameLeader
  <2>6. CASE x # y
    <3>1. TwoLeaders(x, tl, y, th) /\ tl < th  BY <2>2, <2>6 DEF HandedOver
    <3>2. e.term = tl \/ e.term = th  BY <1>1, <3>1 DEF TwoLeaders
    <3>3. CASE s = x /\ currentTerm[s] = tl  BY <2>1, <3>1, <3>2, <3>3 DEF Terms
    <3>4. CASE s = y /\ currentTerm[s] = th
      <4>1. NewLeader(y, th)  BY <3>1, <3>4 DEF TwoLeaders
      <4> QED  BY <1>1, <1>2, <3>4, <4>1 DEF NewLeader
    <3> QED  BY <2>4, <3>3, <3>4
  <2> QED  BY <2>5, <2>6
<1> QED  BY <1>3, <1>4, <1>5 DEF HandoverInv

\* As long as two elections at most were won and no call was given up, a leader
\* has every write that was answered under an earlier term.
THEOREM HandoverComplete == Spec => [](TwoWins => LeaderComplete)
<1> DEFINE Inv == TypeOK /\ NoBadSlot /\ ElectionInv /\ SteadyInv
<1>1. Inv /\ HandoverInv => (TwoWins => LeaderComplete)
  BY HandoverShows, NodeAssumption DEF SteadyInv
<1>2. Spec => []Inv  BY SteadyInvariant
<1> HIDE DEF Inv
<1> QED  BY <1>1, <1>2, HandoverInvariant, PTL

\* With two terms to elect in, and no call given up, that is so for good: a term
\* has one winner at most, and term 0 none.
THEOREM TwoTermsComplete == MaxTerm <= 2 /\ MaxFails = 0 => (Spec => []LeaderComplete)
<1> SUFFICES ASSUME MaxTerm <= 2, MaxFails = 0
             PROVE  Spec => []LeaderComplete
  OBVIOUS
<1>1. ASSUME TypeOK, ElectionInv, CandidateInv
      PROVE  TwoWins
  <2>1. fails = 0  BY <1>1 DEF TypeOK, ApplyTypeOK
  <2>2. \A t \in Terms : t = 0 \/ t = 1 \/ t = 2  BY NodeAssumption DEF NodeAssumption, Terms
  <2>3. \A s \in Server : ~Wins(s, 0)
    <3>1. Cardinality(Server) \in Nat
      BY NodeAssumption, FS_CardinalityType DEF NodeAssumption
    <3>2. \A s \in Server : votePass[s][0] = 0  BY <1>1 DEF CandidateInv
    <3>3. ~(0 > Cardinality(Server) \div 2)  BY <3>1
    <3> QED  BY <3>2, <3>3 DEF Wins, EnoughVotes
  <2>4. \A w \in Won : /\ w = <<w[1], w[2]>> /\ w[1] \in Server /\ w[2] \in Terms
                       /\ Wins(w[1], w[2])
    BY DEF Won
  <2>5. \A w \in Won : w[2] = 1 \/ w[2] = 2  BY <2>2, <2>3, <2>4
  <2>6. ASSUME NEW v \in Won, NEW w \in Won, v[2] = w[2]
        PROVE  v = w
    <3>1. v[1] = w[1]  BY <1>1, <2>4, <2>6, OneWinner, NodeAssumption
    <3> QED  BY <2>4, <2>6, <3>1
  <2> QED  BY <2>1, <2>5, <2>6 DEF TwoWins
<1>2. TypeOK /\ NoBadSlot /\ ElectionInv /\ SteadyInv => TwoWins  BY <1>1 DEF SteadyInv
<1> QED  BY <1>2, SteadyInvariant, HandoverComplete, PTL
=============================================================================

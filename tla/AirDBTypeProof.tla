--------------------------- MODULE AirDBTypeProof ---------------------------
(***************************************************************************)
(* Type correctness and NoBadSlot, for any number of servers, requests,    *)
(* terms, failures and restarts.  The two are proved together: that a slot *)
(* read is an entry follows from its being stored, and that it is stored   *)
(* needs the types of what was read before.                                *)
(***************************************************************************)
EXTENDS AirDB, SequenceTheorems, TLAPS

-----------------------------------------------------------------------------
\* What the operations of a binlog preserve: a binlog of entries of E has its
\* slots below the length stored, and no operation takes a stored slot away.

\* A slot below the number of stored slots holds an entry.
LEMMA ReadSlotType ==
    ASSUME NEW E, NEW T, NEW b \in BinLogs(E, T),
           NEW i \in Nat, i < Len(b.slot)
    PROVE  ReadSlot(b, i) \in E
<1>1. b.slot \in Seq(E)  BY DEF BinLogs
<1>2. i + 1 \in 1 .. Len(b.slot)  BY <1>1, LenProperties
<1> QED  BY <1>1, <1>2, ElementOfSeq DEF ReadSlot

\* Reading slots in a row gives a sequence of entries (the entries of a call,
\* ReplicateLog).
LEMMA ReadSlotsType ==
    ASSUME NEW E, NEW T, NEW b \in BinLogs(E, T),
           NEW i \in Nat, NEW n \in Nat, i + n <= Len(b.slot)
    PROVE  /\ SubSeq(b.slot, i + 1, i + n) \in Seq(E)
           /\ Len(SubSeq(b.slot, i + 1, i + n)) = n
<1>1. b.slot \in Seq(E) /\ Len(b.slot) \in Nat  BY LenProperties DEF BinLogs
<1>2. \A j \in i + 1 .. i + n : b.slot[j] \in E
  <2> TAKE j \in i + 1 .. i + n
  <2>1. j \in 1 .. Len(b.slot)  BY <1>1
  <2> QED  BY <1>1, <2>1, ElementOfSeq
<1> QED  BY <1>2, SubSeqProperties

\* Writing a list of entries (WriteEntryList, AppendEntriesImpl) gives a binlog
\* that is longer by the list, with no stored slot lost.
LEMMA WriteEntryListType ==
    ASSUME NEW E, NEW T, \A e \in E : e.term \in T,
           NEW b \in BinLogs(E, T),
           NEW entries \in Seq(E), entries # << >>
    PROVE  /\ WriteEntryList(b, entries) \in BinLogs(E, T)
           /\ WriteEntryList(b, entries).len = b.len + Len(entries)
           /\ Len(WriteEntryList(b, entries).slot) >= Len(b.slot)
<1> DEFINE k == Len(entries)
           n == b.len + k
           low == SubSeq(b.slot, 1, b.len)
           high == SubSeq(b.slot, n + 1, Len(b.slot))
           w == WriteEntryList(b, entries)
<1>1. b.slot \in Seq(E) /\ Len(b.slot) \in Nat /\ b.len \in Nat /\ b.len <= Len(b.slot)
  BY LenProperties DEF BinLogs
<1>2. k \in Nat \ {0} /\ entries[k] \in E
  <2>1. k \in Nat \ {0}  BY EmptySeq
  <2>2. k \in 1 .. k  BY <2>1
  <2> QED  BY <2>1, <2>2, ElementOfSeq
<1> HIDE DEF k
<1>3. low \in Seq(E) /\ Len(low) = b.len
  <2>1. \A j \in 1 .. b.len : b.slot[j] \in E  BY <1>1, ElementOfSeq
  <2> QED  BY <1>1, <2>1, SubSeqProperties
<1>4. high \in Seq(E) /\ Len(high) = IF n + 1 <= Len(b.slot) THEN Len(b.slot) - n ELSE 0
  <2>1. \A j \in n + 1 .. Len(b.slot) : b.slot[j] \in E
    <3> TAKE j \in n + 1 .. Len(b.slot)
    <3>1. j \in 1 .. Len(b.slot)  BY <1>1, <1>2
    <3> QED  BY <1>1, <3>1, ElementOfSeq
  <2> DEFINE m == n + 1
  <2>2. m \in Int /\ n \in Nat  BY <1>1, <1>2
  <2>3. high \in Seq(E) /\ Len(high) = IF m <= Len(b.slot) THEN Len(b.slot) - m + 1 ELSE 0
    <3> HIDE DEF m
    <3> QED  BY <1>1, <2>1, <2>2, SubSeqProperties DEF m
  <2> QED  BY <1>1, <2>2, <2>3
<1> HIDE DEF low, high
<1>5. low \o entries \in Seq(E) /\ Len(low \o entries) = n
  BY <1>3, ConcatProperties DEF k
<1>6. /\ low \o entries \o high \in Seq(E)
      /\ Len(low \o entries \o high) = n + Len(high)
  BY <1>4, <1>5, ConcatProperties
<1>7. w = [slot |-> low \o entries \o high, len |-> n, lastTerm |-> entries[k].term]
  BY DEF WriteEntryList, low, high, k
<1>8. entries[k].term \in T  BY <1>2
<1>9. n \in Nat /\ n <= n + Len(high) /\ Len(b.slot) <= n + Len(high)
  BY <1>1, <1>2, <1>4
<1> QED  BY <1>6, <1>7, <1>8, <1>9 DEF BinLogs, k

\* Writing one entry (WriteEntry, on a leader).
LEMMA WriteEntryType ==
    ASSUME NEW E, NEW T, \A e \in E : e.term \in T,
           NEW b \in BinLogs(E, T), NEW entry \in E
    PROVE  /\ WriteEntry(b, entry) \in BinLogs(E, T)
           /\ WriteEntry(b, entry).len = b.len + 1
           /\ Len(WriteEntry(b, entry).slot) >= Len(b.slot)
<1>1. <<entry>> \in Seq(E) /\ Len(<<entry>>) = 1 /\ <<entry>> # << >>  OBVIOUS
<1> QED  BY <1>1, WriteEntryListType DEF WriteEntry

\* Keeping the slots up to one below the length (Truncate, AppendEntriesImpl)
\* moves the length and leaves every slot stored.
LEMMA TruncateType ==
    ASSUME NEW E, NEW T, \A e \in E : e.term \in T,
           NEW b \in BinLogs(E, T), NEW i \in Int, i < b.len
    PROVE  /\ Truncate(b, i) \in BinLogs(E, T)
           /\ Truncate(b, i).len <= b.len
           /\ Truncate(b, i).slot = b.slot
<1> DEFINE n == IF i < -1 THEN 0 ELSE i + 1
           t == IF n > 0 THEN ReadSlot(b, n - 1).term ELSE b.lastTerm
<1>1. b \in [slot: Seq(E), len: Nat, lastTerm: T \cup {-1}] /\ b.len <= Len(b.slot)
  BY DEF BinLogs
<1>2. n \in Nat /\ n <= b.len  BY <1>1
<1>3. Len(b.slot) \in Nat  BY <1>1, LenProperties
<1> HIDE DEF n
<1>4. t \in T \cup {-1}
  <2>1. CASE n > 0
    <3>1. n - 1 \in Nat /\ n - 1 < Len(b.slot)  BY <1>1, <1>2, <1>3, <2>1
    <3> QED  BY <2>1, <3>1, ReadSlotType
  <2>2. CASE ~(n > 0)  BY <1>1, <2>2
  <2> QED  BY <2>1, <2>2
<1>5. Truncate(b, i) = [b EXCEPT !.len = n, !.lastTerm = t]  BY DEF Truncate, n
<1> HIDE DEF t
<1>6. Truncate(b, i) = [slot |-> b.slot, len |-> n, lastTerm |-> t]  BY <1>1, <1>5
<1> QED  BY <1>1, <1>2, <1>3, <1>4, <1>6 DEF BinLogs

\* A restart (the constructor) finds the length and the slots as they were.
LEMMA ReopenType ==
    ASSUME NEW E, NEW T, \A e \in E : e.term \in T,
           NEW b \in BinLogs(E, T)
    PROVE  /\ Reopen(b) \in BinLogs(E, T)
           /\ Reopen(b).len = b.len
           /\ Reopen(b).slot = b.slot
<1> DEFINE t == IF b.len > 0 THEN ReadSlot(b, b.len - 1).term ELSE -1
<1>1. b \in [slot: Seq(E), len: Nat, lastTerm: T \cup {-1}] /\ b.len <= Len(b.slot)
  BY DEF BinLogs
<1>2. Len(b.slot) \in Nat  BY <1>1, LenProperties
<1>3. t \in T \cup {-1}
  <2>1. CASE b.len > 0
    <3>1. b.len - 1 \in Nat /\ b.len - 1 < Len(b.slot)  BY <1>1, <1>2, <2>1
    <3> QED  BY <2>1, <3>1, ReadSlotType
  <2>2. CASE ~(b.len > 0)  BY <2>2
  <2> QED  BY <2>1, <2>2
<1>4. Reopen(b) = [slot |-> b.slot, len |-> b.len, lastTerm |-> t]
  BY <1>1 DEF Reopen
<1> HIDE DEF t
<1> QED  BY <1>1, <1>2, <1>3, <1>4 DEF BinLogs

-----------------------------------------------------------------------------
\* The cluster.

USE DEF electionVars, leaderVars, applyVars, clientVars, voteNet, appendNet, boundVars

\* Every entry has a term: what the lemmas on binlogs ask of entries.
LEMMA EntryTerms == \A e \in Entry : e.term \in Terms
BY DEF Entry

\* A thread that has built a call holds one.
LEMMA CallType ==
    ASSUME ReplicationTypeOK, NEW s \in Server, NEW f \in Server,
           repl[s][f].pc \in {"built", "sent"}
    PROVE  /\ repl[s][f].call \in Call
           /\ repl[s][f].ok \in BOOLEAN
           /\ NextAfter(repl[s][f].call) \in Nat
<1>1. repl[s][f] \in ReplState  BY DEF ReplicationTypeOK
<1>2. repl[s][f] \in [pc: {"built", "sent"}, ok: BOOLEAN, call: Call]
  BY <1>1 DEF ReplState
<1>3. repl[s][f].call \in Call /\ repl[s][f].ok \in BOOLEAN  BY <1>2
<1> QED  BY <1>3 DEF Call, NextAfter

\* A log that lost no stored slot keeps stored what its readers rely on.
LEMMA StoredSlotsKept ==
    ASSUME LogTypeOK, LogTypeOK', ReplicationTypeOK, ApplyTypeOK,
           \A s \in Server : Len(binlog'[s].slot) >= Len(binlog[s].slot)
    PROVE  /\ CommitStored /\ commitIndex' = commitIndex => CommitStored'
           /\ ApplyStored /\ UNCHANGED applyVars => ApplyStored'
           /\ CallStored /\ UNCHANGED repl => CallStored'
<1>1. \A s \in Server : Len(binlog[s].slot) \in Nat /\ Len(binlog'[s].slot) \in Nat
  BY LenProperties DEF LogTypeOK, BinLogs
<1>2. CommitStored /\ commitIndex' = commitIndex => CommitStored'
  <2>1. \A s \in Server : commitIndex[s] \in Int  BY DEF ApplyTypeOK
  <2> QED  BY <1>1, <2>1 DEF CommitStored
<1>3. ApplyStored /\ UNCHANGED applyVars => ApplyStored'
  <2>1. \A s \in Server : lastApplied[s] \in Int /\ applier[s].end \in Int
    BY DEF ApplyTypeOK
  <2> QED  BY <1>1, <2>1 DEF ApplyStored
<1>4. CallStored /\ UNCHANGED repl => CallStored'
  <2>1. \A s, f \in Server :
          repl[s][f].pc \in {"built", "sent"} => NextAfter(repl[s][f].call) \in Int
    BY CallType
  <2> QED  BY <1>1, <2>1 DEF CallStored
<1> QED  BY <1>2, <1>3, <1>4

\* What a step does not touch keeps its type, and its slots.
LEMMA Untouched ==
    ASSUME TypeOK, NoBadSlot
    PROVE  /\ UNCHANGED <<electionVars, voteNet>> => ElectionTypeOK'
           /\ UNCHANGED binlog => LogTypeOK'
           /\ UNCHANGED <<leaderVars, appending, appendNet>> => ReplicationTypeOK'
           /\ UNCHANGED <<commitIndex, applyVars, clientVars, boundVars>> => ApplyTypeOK'
           /\ UNCHANGED <<binlog, repl, commitIndex, lastApplied, applier>> => NoBadSlot'
<1>1. UNCHANGED <<electionVars, voteNet>> => ElectionTypeOK'
  BY DEF TypeOK, ElectionTypeOK
<1>2. UNCHANGED binlog => LogTypeOK'
  BY DEF TypeOK, LogTypeOK
<1>3. UNCHANGED <<leaderVars, appending, appendNet>> => ReplicationTypeOK'
  BY DEF TypeOK, ReplicationTypeOK
<1>4. UNCHANGED <<commitIndex, applyVars, clientVars, boundVars>> => ApplyTypeOK'
  BY DEF TypeOK, ApplyTypeOK
<1>5. UNCHANGED <<binlog, repl, commitIndex, lastApplied, applier>> => NoBadSlot'
  BY DEF NoBadSlot, CommitStored, ApplyStored, CallStored
<1> QED  BY <1>1, <1>2, <1>3, <1>4, <1>5

-----------------------------------------------------------------------------
\* Elections.

LEMMA VoteTimerHeardType ==
    ASSUME TypeOK, NoBadSlot, NEW s \in Server, VoteTimerHeard(s)
    PROVE  TypeOK' /\ NoBadSlot'
<1>1. ElectionTypeOK'  BY DEF VoteTimerHeard, TypeOK, ElectionTypeOK
<1>2. LogTypeOK' /\ ReplicationTypeOK' /\ ApplyTypeOK' /\ NoBadSlot'
  BY Untouched DEF VoteTimerHeard
<1> QED  BY <1>1, <1>2 DEF TypeOK

LEMMA VoteLeaderType ==
    ASSUME NodeAssumption, TypeOK, NoBadSlot, NEW s \in Server, VoteLeader(s)
    PROVE  TypeOK' /\ NoBadSlot'
<1> DEFINE t == currentTerm[s] + 1
           call(f) == [from |-> s, to |-> f, term |-> t, rpc |-> TRUE,
                       lastIndex |-> LastLogIndex(binlog[s]),
                       lastTerm |-> LastLogTerm(binlog[s])]
<1>1. t \in Terms  BY DEF VoteLeader, TypeOK, ElectionTypeOK, Terms, NodeAssumption
<1>2. voteReq' \subseteq VoteRequest
  <2>1. LastLogIndex(binlog[s]) \in Int /\ LastLogTerm(binlog[s]) \in Int
    BY DEF TypeOK, LogTypeOK, BinLogs, LastLogIndex, LastLogTerm, Terms, NodeAssumption
  <2>2. \A f \in Server : call(f) \in VoteRequest  BY <1>1, <2>1 DEF VoteRequest
  <2>3. voteReq' = voteReq \cup {call(f) : f \in Server \ {s}}  BY DEF VoteLeader
  <2> HIDE DEF call
  <2> QED  BY <2>2, <2>3 DEF TypeOK, ElectionTypeOK
<1>3. ElectionTypeOK'
  BY <1>1, <1>2 DEF VoteLeader, TypeOK, ElectionTypeOK
<1>4. LogTypeOK' /\ ReplicationTypeOK' /\ ApplyTypeOK' /\ NoBadSlot'
  BY Untouched DEF VoteLeader
<1> QED  BY <1>3, <1>4 DEF TypeOK

LEMMA VoteAnswerType ==
    ASSUME TypeOK, NEW m \in voteReq, NEW t \in Terms, NEW pass \in BOOLEAN,
           VoteAnswer(m, t, pass)
    PROVE  voteReq' \subseteq VoteRequest /\ voteRes' \subseteq VoteResponse
<1>1. m \in VoteRequest  BY DEF TypeOK, ElectionTypeOK
<1>2. [from |-> m.to, to |-> m.from, term |-> t, pass |-> pass] \in VoteResponse
  BY <1>1 DEF VoteRequest, VoteResponse
<1> QED  BY <1>2 DEF VoteAnswer, TypeOK, ElectionTypeOK

LEMMA VoteType ==
    ASSUME TypeOK, NoBadSlot, NEW m \in voteReq, Vote(m)
    PROVE  TypeOK' /\ NoBadSlot'
<1>1. m \in VoteRequest /\ m.to \in Server /\ m.from \in Server /\ m.term \in Terms
  BY DEF TypeOK, ElectionTypeOK, VoteRequest
<1>2. ElectionTypeOK'
  <2>1. CASE VoteByLeader(m)  BY <2>1 DEF VoteByLeader, TypeOK, ElectionTypeOK
  <2>2. CASE VoteRefused(m)
    <3>1. voteReq' \subseteq VoteRequest /\ voteRes' \subseteq VoteResponse
      BY <1>1, <2>2, VoteAnswerType DEF VoteRefused, TypeOK, ElectionTypeOK
    <3> QED  BY <2>2, <3>1 DEF VoteRefused, TypeOK, ElectionTypeOK
  <2>3. CASE VoteDecided(m)
    <3>1. MayVote(m) \in BOOLEAN  BY DEF MayVote
    <3>2. voteReq' \subseteq VoteRequest /\ voteRes' \subseteq VoteResponse
      BY <1>1, <2>3, <3>1, VoteAnswerType DEF VoteDecided
    <3>3. RecordVote(m) \in [Server -> [Terms -> Server \cup {Nil}]]
      BY <1>1 DEF RecordVote, TypeOK, ElectionTypeOK
    <3> QED  BY <1>1, <2>3, <3>2, <3>3 DEF VoteDecided, TypeOK, ElectionTypeOK
  <2> QED  BY <2>1, <2>2, <2>3 DEF Vote
<1>3. LogTypeOK' /\ ReplicationTypeOK' /\ ApplyTypeOK' /\ NoBadSlot'
  BY Untouched DEF Vote
<1> QED  BY <1>2, <1>3 DEF TypeOK

\* StartReplicaLog gives threads to the followers without one, and a Nop to the
\* leader's log; the calls under way stay as they are.
LEMMA StartReplicaLogType ==
    ASSUME NodeAssumption, TypeOK, NoBadSlot, NEW s \in Server, StartReplicaLog(s),
           UNCHANGED <<currentTerm, appending, commitIndex, applyVars, appendNet>>
    PROVE  LogTypeOK' /\ ReplicationTypeOK' /\ NoBadSlot'
<1> DEFINE nop == NopEntry(currentTerm[s])
           fresh == Server \ (Replicating(s) \cup {s})
<1>1. binlog[s] \in BinLogs(Entry, Terms) /\ GetLength(binlog[s]) \in Nat
  BY DEF TypeOK, LogTypeOK, BinLogs, GetLength
<1>2. nop \in Entry  BY DEF NopEntry, Entry, TypeOK, ElectionTypeOK
<1>3. /\ WriteEntry(binlog[s], nop) \in BinLogs(Entry, Terms)
      /\ Len(WriteEntry(binlog[s], nop).slot) >= Len(binlog[s].slot)
  BY <1>1, <1>2, EntryTerms, WriteEntryType
<1>4. binlog' = [binlog EXCEPT ![s] = WriteEntry(@, nop)]  BY DEF StartReplicaLog
<1>5. LogTypeOK'  BY <1>3, <1>4 DEF TypeOK, LogTypeOK
<1>6. \A u \in Server : Len(binlog'[u].slot) >= Len(binlog[u].slot)
  <2>1. \A u \in Server : Len(binlog[u].slot) \in Nat
    BY LenProperties DEF TypeOK, LogTypeOK, BinLogs
  <2> QED  BY <1>3, <1>4, <2>1 DEF TypeOK, LogTypeOK
<1>7. LoopHead(TRUE) \in ReplState  BY DEF LoopHead, ReplState
<1>8. ReplicationTypeOK'
  <2>1. nextIndex' \in [Server -> [Server -> Nat]]
    BY <1>1 DEF StartReplicaLog, TypeOK, ReplicationTypeOK
  <2>2. matchIndex' \in [Server -> [Server -> Int]]
    BY DEF StartReplicaLog, TypeOK, ReplicationTypeOK
  <2>3. repl' \in [Server -> [Server -> ReplState]]
    BY <1>7 DEF StartReplicaLog, TypeOK, ReplicationTypeOK
  <2> QED  BY <2>1, <2>2, <2>3 DEF TypeOK, ReplicationTypeOK
<1>9. \A u, f \in Server : repl'[u][f].pc \in {"built", "sent"} => repl'[u][f] = repl[u][f]
  BY DEF StartReplicaLog, LoopHead, TypeOK, ReplicationTypeOK
<1>10. CallStored'
  <2> SUFFICES ASSUME NEW u \in Server, NEW f \in Server,
                      repl'[u][f].pc \in {"built", "sent"}
               PROVE  NextAfter(repl'[u][f].call) <= Len(binlog'[u].slot)
    BY DEF CallStored, NextAfter
  <2>1. /\ repl'[u][f] = repl[u][f]
        /\ NextAfter(repl[u][f].call) \in Nat
        /\ NextAfter(repl[u][f].call) <= Len(binlog[u].slot)
    BY <1>9, CallType DEF NoBadSlot, CallStored, TypeOK
  <2>2. Len(binlog[u].slot) \in Nat /\ Len(binlog'[u].slot) \in Nat
    BY <1>5, LenProperties DEF TypeOK, LogTypeOK, BinLogs
  <2> QED  BY <1>6, <2>1, <2>2
<1> QED  BY <1>5, <1>6, <1>8, <1>10, StoredSlotsKept DEF TypeOK, NoBadSlot

LEMMA VoteCallBackType ==
    ASSUME NodeAssumption, TypeOK, NoBadSlot, NEW m \in voteRes, VoteCallBack(m)
    PROVE  TypeOK' /\ NoBadSlot'
<1>1. m.to \in Server /\ m.from \in Server /\ m.term \in Terms
  BY DEF TypeOK, ElectionTypeOK, VoteResponse
<1>2. voteReq' \subseteq VoteRequest /\ voteRes' \subseteq VoteResponse
  BY DEF VoteCallBack, TypeOK, ElectionTypeOK
<1>3. ApplyTypeOK'  BY Untouched DEF VoteCallBack
<1>4. CASE VoteCounted(m)
  <2>1. ElectionTypeOK'
    <3> DEFINE n == votePass[m.to][currentTerm[m.to]] + 1
    <3>1. currentTerm[m.to] \in Terms /\ n \in Nat
      BY <1>1 DEF TypeOK, ElectionTypeOK
    <3>2. votePass' = [votePass EXCEPT ![m.to][currentTerm[m.to]] = n]
      BY <1>4 DEF VoteCounted
    <3>3. votePass' \in [Server -> [Terms -> Nat]]
      <4> HIDE DEF n
      <4> QED  BY <1>1, <3>1, <3>2 DEF TypeOK, ElectionTypeOK
    <3>4. UNCHANGED <<currentTerm, heard, voteFor>>  BY <1>4 DEF VoteCounted
    <3>5. \/ status' = [status EXCEPT ![m.to] = "Leader"]
          \/ status' = status
      BY <1>4 DEF VoteCounted
    <3>6. status' \in [Server -> {"Leader", "Candidate", "Follower"}]
      BY <3>5 DEF TypeOK, ElectionTypeOK
    <3> QED  BY <1>2, <3>3, <3>4, <3>6 DEF TypeOK, ElectionTypeOK
  <2>2. CASE StartReplicaLog(m.to)
    BY <1>1, <1>3, <1>4, <2>1, <2>2, StartReplicaLogType DEF VoteCallBack, VoteCounted, TypeOK
  <2>3. CASE UNCHANGED <<binlog, leaderVars>>
    BY <1>3, <2>1, <2>3, Untouched DEF VoteCallBack, TypeOK
  <2> QED  BY <1>4, <2>2, <2>3 DEF VoteCounted
<1>5. CASE VoteNewerTerm(m)
  <2>1. ElectionTypeOK'
    BY <1>1, <1>2, <1>5 DEF VoteNewerTerm, TypeOK, ElectionTypeOK
  <2> QED  BY <1>3, <1>5, <2>1, Untouched DEF VoteCallBack, VoteNewerTerm, TypeOK
<1>6. CASE VoteIgnored(m)
  <2>1. ElectionTypeOK'  BY <1>2, <1>6 DEF VoteIgnored, TypeOK, ElectionTypeOK
  <2> QED  BY <1>3, <1>6, <2>1, Untouched DEF VoteCallBack, VoteIgnored, TypeOK
<1> QED  BY <1>4, <1>5, <1>6 DEF VoteCallBack

-----------------------------------------------------------------------------
\* The leader: ReplicateLog and the heartbeats.

\* One thread moves, and what its new call names is stored.
LEMMA ThreadType ==
    ASSUME TypeOK, NoBadSlot, NEW s \in Server, NEW f \in Server, NEW r \in ReplState,
           repl' = [repl EXCEPT ![s][f] = r], UNCHANGED binlog,
           r.pc \in {"built", "sent"} => NextAfter(r.call) <= Len(binlog[s].slot)
    PROVE  repl' \in [Server -> [Server -> ReplState]] /\ CallStored'
<1>1. repl \in [Server -> [Server -> ReplState]]  BY DEF TypeOK, ReplicationTypeOK
<1>2. repl' \in [Server -> [Server -> ReplState]]  BY <1>1
<1>3. \A u, g \in Server : repl'[u][g] = IF u = s /\ g = f THEN r ELSE repl[u][g]
  BY <1>1
<1>4. CallStored'  BY <1>3 DEF CallStored, NoBadSlot, NextAfter
<1> QED  BY <1>2, <1>4

LEMMA IdleThreads ==
    /\ NoThread \in ReplState /\ NoThread.pc = "none"
    /\ \A ok \in BOOLEAN : LoopHead(ok) \in ReplState /\ LoopHead(ok).pc = "loop"
BY DEF NoThread, LoopHead, ReplState

LEMMA ReplicateStopType ==
    ASSUME TypeOK, NoBadSlot, NEW s \in Server, NEW f \in Server, ReplicateStop(s, f)
    PROVE  TypeOK' /\ NoBadSlot'
<1>1. repl' \in [Server -> [Server -> ReplState]] /\ CallStored'
  BY IdleThreads, ThreadType DEF ReplicateStop
<1>2. ReplicationTypeOK'  BY <1>1 DEF ReplicateStop, TypeOK, ReplicationTypeOK
<1>3. ElectionTypeOK' /\ LogTypeOK' /\ ApplyTypeOK'  BY Untouched DEF ReplicateStop
<1>4. NoBadSlot'
  BY <1>1 DEF ReplicateStop, NoBadSlot, CommitStored, ApplyStored
<1> QED  BY <1>2, <1>3, <1>4 DEF TypeOK

\* What is read before mu_ is released names slots of the log.
LEMMA BuildCallType ==
    ASSUME NodeAssumption, TypeOK, NEW s \in Server, NEW f \in Server,
           GetLength(binlog[s]) > nextIndex[s][f], repl[s][f].ok \in BOOLEAN
    PROVE  /\ BuildCall(s, f) \in Call
           /\ NextAfter(BuildCall(s, f)) <= Len(binlog[s].slot)
<1> DEFINE index == nextIndex[s][f]
           len == GetLength(binlog[s])
           prev == IF index > 0 THEN ReadSlot(binlog[s], index - 1).term ELSE -1
           batch == IF repl[s][f].ok THEN len - index ELSE Lesser(1, len - index)
<1>1. /\ index \in Nat /\ len \in Nat /\ index < len
      /\ Len(binlog[s].slot) \in Nat /\ len <= Len(binlog[s].slot)
      /\ binlog[s] \in BinLogs(Entry, Terms)
  BY LenProperties
  DEF TypeOK, LogTypeOK, ReplicationTypeOK, BinLogs, GetLength
<1>2. prev \in Int
  <2>1. CASE index > 0
    <3>1. ReadSlot(binlog[s], index - 1) \in Entry  BY <1>1, <2>1, ReadSlotType
    <3>2. ReadSlot(binlog[s], index - 1).term \in Int
      BY <3>1, EntryTerms DEF Terms, NodeAssumption
    <3> QED  BY <2>1, <3>2
  <2>2. CASE ~(index > 0)  BY <2>2
  <2> QED  BY <2>1, <2>2
<1>3. batch \in Nat /\ index + batch <= len  BY <1>1 DEF Lesser
<1>4. currentTerm[s] \in Terms /\ commitIndex[s] \in Int
  BY DEF TypeOK, ElectionTypeOK, ApplyTypeOK
<1>5. BuildCall(s, f) = [index |-> index, batch |-> batch, term |-> currentTerm[s],
                         prevTerm |-> prev, commit |-> commitIndex[s], terms |-> {}]
  BY DEF BuildCall
<1> HIDE DEF prev, batch
<1> QED  BY <1>1, <1>2, <1>3, <1>4, <1>5 DEF Call, NextAfter

LEMMA ReplicateBuildType ==
    ASSUME NodeAssumption, TypeOK, NoBadSlot, NEW s \in Server, NEW f \in Server,
           ReplicateBuild(s, f)
    PROVE  TypeOK' /\ NoBadSlot'
<1> DEFINE r == [pc |-> "built", ok |-> repl[s][f].ok, call |-> BuildCall(s, f)]
<1>1. repl[s][f] \in ReplState  BY DEF TypeOK, ReplicationTypeOK
<1>2. repl[s][f].ok \in BOOLEAN  BY <1>1 DEF ReplState
<1>3. BuildCall(s, f) \in Call /\ NextAfter(BuildCall(s, f)) <= Len(binlog[s].slot)
  BY <1>2, BuildCallType DEF ReplicateBuild
<1>4. r \in ReplState /\ NextAfter(r.call) <= Len(binlog[s].slot)
  BY <1>2, <1>3 DEF ReplState, NextAfter
<1>5. repl' = [repl EXCEPT ![s][f] = r]
  BY DEF ReplicateBuild, TypeOK, ReplicationTypeOK
<1> HIDE DEF r
<1>6. repl' \in [Server -> [Server -> ReplState]] /\ CallStored'
  BY <1>4, <1>5, ThreadType DEF ReplicateBuild, NextAfter
<1>7. ReplicationTypeOK'  BY <1>6 DEF ReplicateBuild, TypeOK, ReplicationTypeOK
<1>8. ElectionTypeOK' /\ LogTypeOK' /\ ApplyTypeOK'  BY Untouched DEF ReplicateBuild
<1>9. NoBadSlot'
  BY <1>6 DEF ReplicateBuild, NoBadSlot, CommitStored, ApplyStored
<1> QED  BY <1>7, <1>8, <1>9 DEF TypeOK

LEMMA ReplicateSendType ==
    ASSUME NodeAssumption, TypeOK, NoBadSlot, NEW s \in Server, NEW f \in Server,
           ReplicateSend(s, f)
    PROVE  TypeOK' /\ NoBadSlot'
<1> DEFINE call == repl[s][f].call
           entries == SubSeq(binlog[s].slot, call.index + 1, call.index + call.batch)
           terms == {entries[i].term : i \in 1 .. Len(entries)}
           m == [from |-> s, to |-> f, term |-> call.term, rpc |-> TRUE,
                 prev |-> call.index - 1, prevTerm |-> call.prevTerm,
                 commit |-> call.commit, entries |-> entries]
           r == [pc |-> "sent", ok |-> repl[s][f].ok, call |-> [call EXCEPT !.terms = terms]]
<1>1. /\ call \in Call /\ repl[s][f].ok \in BOOLEAN
      /\ call.index + call.batch <= Len(binlog[s].slot)
  BY CallType DEF ReplicateSend, TypeOK, NoBadSlot, CallStored, NextAfter
<1>2. entries \in Seq(Entry)
  <2>1. binlog[s] \in BinLogs(Entry, Terms)  BY DEF TypeOK, LogTypeOK
  <2>2. call.index \in Nat /\ call.batch \in Nat  BY <1>1 DEF Call
  <2> HIDE DEF call
  <2> QED  BY <1>1, <2>1, <2>2, ReadSlotsType
<1>3. terms \in SUBSET Terms
  <2> HIDE DEF entries
  <2>1. \A i \in 1 .. Len(entries) : entries[i] \in Entry  BY <1>2, ElementOfSeq
  <2> QED  BY <2>1, EntryTerms
<1>4. m \in AppendRequest
  <2> HIDE DEF call, entries
  <2> QED  BY <1>1, <1>2 DEF AppendRequest, Call
<1>5. r \in ReplState /\ NextAfter(r.call) = NextAfter(call)
  <2> HIDE DEF call, terms
  <2> QED  BY <1>1, <1>3 DEF ReplState, Call, NextAfter
<1>6. repl' = [repl EXCEPT ![s][f] = r] /\ appendReq' = appendReq \cup {m}
  BY Zenon DEF ReplicateSend
<1> HIDE DEF r, m, entries, terms
<1>7. repl' \in [Server -> [Server -> ReplState]] /\ CallStored'
  BY <1>1, <1>5, <1>6, ThreadType DEF ReplicateSend, NextAfter
<1>8. ReplicationTypeOK'
  BY <1>4, <1>6, <1>7 DEF ReplicateSend, TypeOK, ReplicationTypeOK
<1>9. ElectionTypeOK' /\ LogTypeOK' /\ ApplyTypeOK'  BY Untouched DEF ReplicateSend
<1>10. NoBadSlot'
  BY <1>7 DEF ReplicateSend, NoBadSlot, CommitStored, ApplyStored
<1> QED  BY <1>8, <1>9, <1>10 DEF TypeOK

\* The answer to a call: the thread goes on or ends; the indexes of the
\* follower, and on a success the commit index, name slots of the call.
LEMMA ReplicateAnswerType ==
    ASSUME TypeOK, NoBadSlot, NEW s \in Server, NEW f \in Server, ReplicateAnswer(s, f)
    PROVE  TypeOK' /\ NoBadSlot'
<1> DEFINE call == repl[s][f].call
           next == NextAfter(call)
<1>1. next \in Nat /\ next <= Len(binlog[s].slot) /\ repl[s][f].ok \in BOOLEAN
  BY CallType DEF ReplicateAnswer, TypeOK, NoBadSlot, CallStored
<1>2. PICK m \in appendRes :
         /\ appendRes' = appendRes \ {m}
         /\ \/ ReplicateNewerTerm(s, f, m) \/ ReplicateNotLeader(s, f, m)
            \/ ReplicateSuccess(s, f, m) \/ ReplicateBusy(s, f, m)
            \/ ReplicateBackoff(s, f, m)
  BY DEF ReplicateAnswer
<1>3. m.term \in Terms /\ m.len \in Nat
  BY DEF TypeOK, ReplicationTypeOK, AppendResponse
<1>4. \/ UNCHANGED <<status, currentTerm>>
      \/ /\ status' = [status EXCEPT ![s] = "Follower"]
         /\ currentTerm' = [currentTerm EXCEPT ![s] = m.term]
  BY <1>2 DEF ReplicateNewerTerm, ReplicateNotLeader, ReplicateSuccess, ReplicateBusy,
              ReplicateBackoff
<1>5. ElectionTypeOK'
  BY <1>3, <1>4 DEF ReplicateAnswer, TypeOK, ElectionTypeOK
<1>6. PICK r \in {NoThread, LoopHead(TRUE), LoopHead(repl[s][f].ok)} :
         repl' = [repl EXCEPT ![s][f] = r]
  BY <1>2, Zenon DEF ReplicateNewerTerm, ReplicateNotLeader, ReplicateSuccess, ReplicateBusy,
                     ReplicateBackoff
<1>7. r \in ReplState /\ r.pc \notin {"built", "sent"}  BY <1>1, <1>6, IdleThreads
<1>8. repl' \in [Server -> [Server -> ReplState]] /\ CallStored'
  BY <1>6, <1>7, ThreadType DEF ReplicateAnswer
<1>9. /\ nextIndex' \in [Server -> [Server -> Nat]]
      /\ matchIndex' \in [Server -> [Server -> Int]]
  <2> HIDE DEF call
  <2>1. CASE UNCHANGED <<nextIndex, matchIndex>>
    BY <2>1 DEF TypeOK, ReplicationTypeOK
  <2>2. CASE ReplicateSuccess(s, f, m)
    BY <1>1, <2>2 DEF ReplicateSuccess, TypeOK, ReplicationTypeOK, call
  <2>3. CASE ReplicateBackoff(s, f, m)
    <3>1. nextIndex[s][f] \in Nat  BY DEF TypeOK, ReplicationTypeOK
    <3>2. Greater(0, Lesser(nextIndex[s][f] - 1, m.len)) \in Nat
      BY <1>3, <3>1 DEF Greater, Lesser
    <3> QED  BY <2>3, <3>2 DEF ReplicateBackoff, TypeOK, ReplicationTypeOK
  <2> QED
    BY <1>2, <2>1, <2>2, <2>3 DEF ReplicateNewerTerm, ReplicateNotLeader, ReplicateBusy
<1>10. commitIndex' = commitIndex \/ commitIndex' = [commitIndex EXCEPT ![s] = next - 1]
  BY <1>2 DEF ReplicateNewerTerm, ReplicateNotLeader, ReplicateSuccess, ReplicateBusy,
              ReplicateBackoff, UpdateCommitIndex
<1> HIDE DEF call, next
<1>11. commitIndex' \in [Server -> Int] /\ CommitStored'
  <2>1. \A u \in Server : Len(binlog[u].slot) \in Nat
    BY LenProperties DEF TypeOK, LogTypeOK, BinLogs
  <2>2. commitIndex \in [Server -> Int]  BY DEF TypeOK, ApplyTypeOK
  <2>3. binlog' = binlog /\ CommitStored  BY DEF ReplicateAnswer, NoBadSlot
  <2>4. commitIndex' \in [Server -> Int]  BY <1>1, <1>10, <2>2
  <2>5. CommitStored'  BY <1>1, <1>10, <2>1, <2>2, <2>3 DEF CommitStored
  <2> QED  BY <2>4, <2>5
<1>12. ReplicationTypeOK'
  BY <1>2, <1>8, <1>9 DEF ReplicateAnswer, TypeOK, ReplicationTypeOK
<1>13. ApplyTypeOK'  BY <1>11 DEF ReplicateAnswer, TypeOK, ApplyTypeOK
<1>14. LogTypeOK'  BY Untouched DEF ReplicateAnswer
<1>15. NoBadSlot'  BY <1>8, <1>11 DEF ReplicateAnswer, NoBadSlot, ApplyStored
<1> QED  BY <1>5, <1>12, <1>13, <1>14, <1>15 DEF TypeOK

\* A call nobody waits for any more is still a call, and one with entries
\* still has them.
LEMMA AbandonType ==
    /\ \A m \in VoteRequest : Abandon(m) \in VoteRequest
    /\ \A m \in AppendRequest : Abandon(m) \in AppendRequest
    /\ \A h \in Appending : [h EXCEPT !.req = Abandon(@)] \in Appending
<1>1. \A m \in VoteRequest : Abandon(m) \in VoteRequest  BY DEF Abandon, VoteRequest
<1>2. \A m \in AppendRequest :
        Abandon(m) \in AppendRequest /\ Abandon(m).entries = m.entries
  BY DEF Abandon, AppendRequest
<1>3. \A h \in Appending : [h EXCEPT !.req = Abandon(@)] \in Appending
  <2> TAKE h \in Appending
  <2>1. /\ h = [req |-> h.req, pc |-> h.pc]
        /\ h.req \in AppendRequest /\ h.req.entries # << >> /\ h.pc \in {"write", "finish"}
    BY DEF Appending
  <2>2. [h EXCEPT !.req = Abandon(@)] = [req |-> Abandon(h.req), pc |-> h.pc]  BY <2>1
  <2>3. Abandon(h.req) \in AppendRequest /\ Abandon(h.req).entries # << >>
    BY <1>2, <2>1
  <2> HIDE DEF Abandon
  <2> QED  BY <2>1, <2>2, <2>3 DEF Appending
<1> QED  BY <1>1, <1>2, <1>3

LEMMA ReplicateFailType ==
    ASSUME NodeAssumption, TypeOK, NoBadSlot, NEW s \in Server, NEW f \in Server,
           ReplicateFail(s, f)
    PROVE  TypeOK' /\ NoBadSlot'
<1>1. AfterFail(s) \in ReplState /\ AfterFail(s).pc \notin {"built", "sent"}
  BY IdleThreads DEF AfterFail
<1>2. repl' = [repl EXCEPT ![s][f] = AfterFail(s)]  BY DEF ReplicateFail
<1>3. repl' \in [Server -> [Server -> ReplState]] /\ CallStored'
  BY <1>1, <1>2, ThreadType DEF ReplicateFail
<1>4. appendReq' \subseteq AppendRequest
  BY AbandonType DEF ReplicateFail, TypeOK, ReplicationTypeOK
<1>5. appending' \in [Server -> SUBSET Appending]
  <2>1. {IF IsCall(h.req, s, f) THEN [h EXCEPT !.req = Abandon(@)] ELSE h : h \in appending[f]}
           \subseteq Appending
    <3>1. \A h \in appending[f] : h \in Appending /\ [h EXCEPT !.req = Abandon(@)] \in Appending
      BY AbandonType DEF TypeOK, ReplicationTypeOK
    <3> QED  BY <3>1
  <2> QED  BY <2>1 DEF ReplicateFail, TypeOK, ReplicationTypeOK
<1>6. ReplicationTypeOK'
  BY <1>3, <1>4, <1>5 DEF ReplicateFail, TypeOK, ReplicationTypeOK
<1>7. ApplyTypeOK'  BY DEF ReplicateFail, TypeOK, ApplyTypeOK, NodeAssumption
<1>8. ElectionTypeOK' /\ LogTypeOK'  BY Untouched DEF ReplicateFail
<1>9. NoBadSlot'  BY <1>3 DEF ReplicateFail, NoBadSlot, CommitStored, ApplyStored
<1> QED  BY <1>6, <1>7, <1>8, <1>9 DEF TypeOK

LEMMA BroadCastHeartBeatType ==
    ASSUME TypeOK, NoBadSlot, NEW s \in Server, BroadCastHeartBeat(s)
    PROVE  TypeOK' /\ NoBadSlot'
<1> DEFINE call(f) == [from |-> s, to |-> f, term |-> currentTerm[s], rpc |-> TRUE,
                       prev |-> 0, prevTerm |-> 0, commit |-> commitIndex[s],
                       entries |-> << >>]
<1>1. \A f \in Server : call(f) \in AppendRequest
  BY EmptySeq DEF AppendRequest, TypeOK, ElectionTypeOK, ApplyTypeOK
<1>2. appendReq' = appendReq \cup {call(f) : f \in Replica \ {s}}  BY DEF BroadCastHeartBeat
<1> HIDE DEF call
<1>3. ReplicationTypeOK'
  BY <1>1, <1>2, NodeAssumption DEF BroadCastHeartBeat, TypeOK, ReplicationTypeOK, NodeAssumption
<1>4. ApplyTypeOK'  BY DEF BroadCastHeartBeat, TypeOK, ApplyTypeOK
<1>5. ElectionTypeOK' /\ LogTypeOK' /\ NoBadSlot'  BY Untouched DEF BroadCastHeartBeat
<1> QED  BY <1>3, <1>4, <1>5 DEF TypeOK

LEMMA HeartBeatCallBackType ==
    ASSUME TypeOK, NoBadSlot, NEW m \in beatRes, HeartBeatCallBack(m)
    PROVE  TypeOK' /\ NoBadSlot'
<1>1. m.to \in Server /\ m.term \in Terms  BY DEF TypeOK, ReplicationTypeOK, BeatResponse
<1>2. ElectionTypeOK'  BY <1>1 DEF HeartBeatCallBack, TypeOK, ElectionTypeOK
<1>3. ReplicationTypeOK'  BY DEF HeartBeatCallBack, TypeOK, ReplicationTypeOK
<1>4. LogTypeOK' /\ ApplyTypeOK' /\ NoBadSlot'  BY Untouched DEF HeartBeatCallBack
<1> QED  BY <1>2, <1>3, <1>4 DEF TypeOK

-----------------------------------------------------------------------------
\* The follower: AppendEntriesImpl.

LEMMA AppendAnswerType ==
    ASSUME TypeOK, NEW m \in AppendRequest, NEW t \in Terms, NEW success \in BOOLEAN,
           NEW busy \in BOOLEAN, NEW len \in Nat, AppendAnswer(m, t, success, busy, len)
    PROVE  appendRes' \subseteq AppendResponse /\ beatRes' \subseteq BeatResponse
<1>1. m.from \in Server /\ m.to \in Server  BY DEF AppendRequest
<1>2. [from |-> m.to, to |-> m.from, term |-> t] \in BeatResponse  BY <1>1 DEF BeatResponse
<1>3. [from |-> m.to, to |-> m.from, term |-> t, success |-> success, busy |-> busy,
       len |-> len] \in AppendResponse
  BY <1>1 DEF AppendResponse
<1> QED  BY <1>2, <1>3 DEF AppendAnswer, TypeOK, ReplicationTypeOK

\* The commit index stays below the end of the log, and so of the stored slots.
LEMMA CommitUpToType ==
    ASSUME LogTypeOK, ApplyTypeOK, CommitStored, NEW m \in AppendRequest, CommitUpTo(m),
           UNCHANGED binlog
    PROVE  commitIndex' \in [Server -> Int] /\ CommitStored'
<1> DEFINE c == Lesser(GetLength(binlog[m.to]) - 1, m.commit)
<1>1. m.to \in Server /\ m.commit \in Int  BY DEF AppendRequest
<1>2. \A u \in Server :
         /\ GetLength(binlog[u]) \in Nat /\ Len(binlog[u].slot) \in Nat
         /\ GetLength(binlog[u]) <= Len(binlog[u].slot)
  BY LenProperties DEF LogTypeOK, BinLogs, GetLength
<1>3. c \in Int /\ c < Len(binlog[m.to].slot)  BY <1>1, <1>2 DEF Lesser
<1>4. commitIndex' = [commitIndex EXCEPT ![m.to] = c]  BY DEF CommitUpTo
<1>5. commitIndex \in [Server -> Int]  BY DEF ApplyTypeOK
<1> HIDE DEF c
<1>6. commitIndex' \in [Server -> Int]  BY <1>3, <1>4, <1>5
<1>7. CommitStored'  BY <1>1, <1>3, <1>4, <1>5 DEF CommitStored
<1> QED  BY <1>6, <1>7

\* What a step of the log at one node asks: the log it leaves is a binlog, no
\* shorter in the database than before.
LEMMA LogStepType ==
    ASSUME TypeOK, NoBadSlot, NEW s \in Server, NEW b \in BinLogs(Entry, Terms),
           Len(b.slot) >= Len(binlog[s].slot), binlog' = [binlog EXCEPT ![s] = b],
           UNCHANGED <<commitIndex, lastApplied, applier, store, repl>>
    PROVE  LogTypeOK' /\ NoBadSlot'
<1>1. LogTypeOK'  BY DEF TypeOK, LogTypeOK
<1>2. \A u \in Server : Len(binlog'[u].slot) >= Len(binlog[u].slot)
  <2>1. \A u \in Server : Len(binlog[u].slot) \in Nat
    BY LenProperties DEF TypeOK, LogTypeOK, BinLogs
  <2> QED  BY <2>1 DEF TypeOK, LogTypeOK
<1> QED  BY <1>1, <1>2, StoredSlotsKept DEF TypeOK, NoBadSlot

LEMMA AppendEntriesType ==
    ASSUME NodeAssumption, TypeOK, NoBadSlot, NEW m \in appendReq, AppendEntries(m)
    PROVE  TypeOK' /\ NoBadSlot'
<1>1. /\ m \in AppendRequest /\ m.to \in Server /\ m.from \in Server
      /\ m.term \in Terms /\ m.prev \in Int
  BY DEF TypeOK, ReplicationTypeOK, AppendRequest
<1>2. GetLength(binlog[m.to]) \in Nat /\ currentTerm[m.to] \in Terms
  BY <1>1 DEF TypeOK, LogTypeOK, ElectionTypeOK, BinLogs, GetLength
<1>3. appendReq' \subseteq AppendRequest
  BY DEF AppendEntries, TypeOK, ReplicationTypeOK
<1>4. ElectionTypeOK'
  <2>1. CASE UNCHANGED electionVars  BY <2>1, Untouched DEF AppendEntries
  <2>2. CASE Follow(m)  BY <1>1, <2>2 DEF Follow, AppendEntries, TypeOK, ElectionTypeOK
  <2> QED
    BY <2>1, <2>2 DEF AppendEntries, AppendStale, AppendHeartBeat, AppendBeyond,
                      AppendMismatch, AppendTooFast, AppendAccept
<1>5. UNCHANGED <<leaderVars, applyVars, clientVars, boundVars>>  BY DEF AppendEntries
<1>6. CASE AppendStale(m)
  <2>1. appendRes' \subseteq AppendResponse /\ beatRes' \subseteq BeatResponse
    BY <1>1, <1>2, <1>6, AppendAnswerType DEF AppendStale
  <2>2. ReplicationTypeOK'
    BY <1>3, <1>5, <1>6, <2>1 DEF AppendStale, TypeOK, ReplicationTypeOK
  <2> QED  BY <1>4, <1>5, <1>6, <2>2, Untouched DEF AppendStale, TypeOK
<1>7. CASE AppendHeartBeat(m)
  <2>1. appendRes' \subseteq AppendResponse /\ beatRes' \subseteq BeatResponse
    BY <1>1, <1>7, AppendAnswerType DEF AppendHeartBeat
  <2>2. ReplicationTypeOK'
    BY <1>3, <1>5, <1>7, <2>1 DEF AppendHeartBeat, TypeOK, ReplicationTypeOK
  <2>3. commitIndex' \in [Server -> Int] /\ CommitStored'
    BY <1>1, <1>7, CommitUpToType DEF AppendHeartBeat, TypeOK, NoBadSlot
  <2>4. ApplyTypeOK'  BY <1>5, <2>3 DEF TypeOK, ApplyTypeOK
  <2>5. LogTypeOK'  BY <1>7, Untouched DEF AppendHeartBeat
  <2>6. NoBadSlot'
    BY <1>5, <1>7, <2>3 DEF AppendHeartBeat, NoBadSlot, ApplyStored, CallStored
  <2> QED  BY <1>4, <2>2, <2>4, <2>5, <2>6 DEF TypeOK
<1>8. CASE AppendBeyond(m)
  <2>1. appendRes' \subseteq AppendResponse /\ beatRes' \subseteq BeatResponse
    BY <1>1, <1>2, <1>8, AppendAnswerType DEF AppendBeyond
  <2>2. ReplicationTypeOK'
    BY <1>3, <1>5, <1>8, <2>1 DEF AppendBeyond, TypeOK, ReplicationTypeOK
  <2> QED  BY <1>4, <1>5, <1>8, <2>2, Untouched DEF AppendBeyond, TypeOK
<1>9. CASE AppendMismatch(m)
  <2> DEFINE b == Truncate(binlog[m.to], m.prev - 1)
  <2>1. binlog[m.to] \in BinLogs(Entry, Terms) /\ m.prev - 1 \in Int
        /\ m.prev - 1 < binlog[m.to].len
    BY <1>1, <1>2, <1>9 DEF AppendMismatch, PrevBeyond, TypeOK, LogTypeOK, GetLength
  <2>2. b \in BinLogs(Entry, Terms) /\ b.slot = binlog[m.to].slot
    BY <2>1, EntryTerms, TruncateType
  <2>3. Len(b.slot) >= Len(binlog[m.to].slot)
    BY <2>1, <2>2, LenProperties DEF BinLogs
  <2>4. binlog' = [binlog EXCEPT ![m.to] = b]  BY <1>9 DEF AppendMismatch
  <2> HIDE DEF b
  <2>5. LogTypeOK' /\ NoBadSlot'
    BY <1>1, <1>5, <1>9, <2>2, <2>3, <2>4, LogStepType DEF AppendMismatch
  <2>6. GetLength(binlog'[m.to]) \in Nat
    BY <1>1, <2>5 DEF LogTypeOK, BinLogs, GetLength
  <2>7. appendRes' \subseteq AppendResponse /\ beatRes' \subseteq BeatResponse
    BY <1>1, <1>9, <2>6, AppendAnswerType DEF AppendMismatch
  <2>8. ReplicationTypeOK'
    BY <1>3, <1>5, <1>9, <2>7 DEF AppendMismatch, TypeOK, ReplicationTypeOK
  <2>9. ApplyTypeOK'  BY <1>5, <1>9, Untouched DEF AppendMismatch
  <2> QED  BY <1>4, <2>5, <2>8, <2>9 DEF TypeOK
<1>10. CASE AppendTooFast(m)
  <2>1. appendRes' \subseteq AppendResponse /\ beatRes' \subseteq BeatResponse
    BY <1>1, <1>2, <1>10, AppendAnswerType DEF AppendTooFast
  <2>2. ReplicationTypeOK'
    BY <1>3, <1>5, <1>10, <2>1 DEF AppendTooFast, TypeOK, ReplicationTypeOK
  <2> QED  BY <1>4, <1>5, <1>10, <2>2, Untouched DEF AppendTooFast, TypeOK
<1>11. CASE AppendAccept(m)
  <2>1. [req |-> m, pc |-> "write"] \in Appending
    BY <1>1, <1>11 DEF AppendAccept, Appending
  <2>2. ReplicationTypeOK'
    BY <1>1, <1>3, <1>5, <1>11, <2>1 DEF AppendAccept, TypeOK, ReplicationTypeOK
  <2> QED  BY <1>4, <1>5, <1>11, <2>2, Untouched DEF AppendAccept, TypeOK
<1> QED  BY <1>6, <1>7, <1>8, <1>9, <1>10, <1>11 DEF AppendEntries

LEMMA AppendWriteType ==
    ASSUME TypeOK, NoBadSlot, NEW s \in Server, NEW h \in appending[s], AppendWrite(s, h)
    PROVE  TypeOK' /\ NoBadSlot'
<1> DEFINE b == WriteEntryList(binlog[s], h.req.entries)
<1>1. /\ h = [req |-> h.req, pc |-> h.pc]
      /\ h.req \in {m \in AppendRequest : m.entries # << >>}
  BY DEF TypeOK, ReplicationTypeOK, Appending
<1>2. h.req.entries \in Seq(Entry) /\ h.req.entries # << >>  BY <1>1 DEF AppendRequest
<1>3. b \in BinLogs(Entry, Terms) /\ Len(b.slot) >= Len(binlog[s].slot)
  BY <1>2, EntryTerms, WriteEntryListType DEF TypeOK, LogTypeOK
<1>4. binlog' = [binlog EXCEPT ![s] = b]  BY DEF AppendWrite
<1> HIDE DEF b
<1>5. LogTypeOK' /\ NoBadSlot'  BY <1>3, <1>4, LogStepType DEF AppendWrite
<1>6. [h EXCEPT !.pc = "finish"] \in Appending  BY <1>1 DEF Appending
<1>7. ReplicationTypeOK'  BY <1>6 DEF AppendWrite, TypeOK, ReplicationTypeOK
<1>8. ElectionTypeOK' /\ ApplyTypeOK'  BY Untouched DEF AppendWrite
<1> QED  BY <1>5, <1>7, <1>8 DEF TypeOK

LEMMA AppendFinishType ==
    ASSUME TypeOK, NoBadSlot, NEW s \in Server, NEW h \in appending[s], AppendFinish(s, h)
    PROVE  TypeOK' /\ NoBadSlot'
<1>1. h.req \in AppendRequest  BY DEF TypeOK, ReplicationTypeOK, Appending
<1>2. currentTerm[s] \in Terms  BY DEF TypeOK, ElectionTypeOK
<1>3. appendRes' \subseteq AppendResponse /\ beatRes' \subseteq BeatResponse
  BY <1>1, <1>2, AppendAnswerType DEF AppendFinish, FinishTerm
<1>4. ReplicationTypeOK'  BY <1>3 DEF AppendFinish, TypeOK, ReplicationTypeOK
<1>5. commitIndex' \in [Server -> Int] /\ CommitStored'
  BY <1>1, CommitUpToType DEF AppendFinish, TypeOK, NoBadSlot
<1>6. ApplyTypeOK'  BY <1>5 DEF AppendFinish, TypeOK, ApplyTypeOK
<1>7. ElectionTypeOK' /\ LogTypeOK'  BY Untouched DEF AppendFinish
<1>8. NoBadSlot'  BY <1>5 DEF AppendFinish, NoBadSlot, ApplyStored, CallStored
<1> QED  BY <1>4, <1>6, <1>7, <1>8 DEF TypeOK

-----------------------------------------------------------------------------
\* Client writes, and the CommitIndex thread.

LEMMA SubmitType ==
    ASSUME NodeAssumption, TypeOK, NoBadSlot, NEW s \in Server, NEW r \in Request,
           NEW op \in ReqKinds, Submit(s, r, op)
    PROVE  TypeOK' /\ NoBadSlot'
<1> DEFINE e == [term |-> currentTerm[s], op |-> op, req |-> r]
           b == WriteEntry(binlog[s], e)
           i == GetLength(binlog'[s]) - 1
           old == AcksAt(s, i)
           new == [index |-> i, done |-> r,
                   kinds |-> {ReqKind[r]} \cup UNION {a.kinds : a \in old}]
<1>1. e \in Entry  BY DEF Entry, TypeOK, ElectionTypeOK
<1>2. /\ b \in BinLogs(Entry, Terms) /\ Len(b.slot) >= Len(binlog[s].slot)
      /\ b.len = binlog[s].len + 1
  BY <1>1, EntryTerms, WriteEntryType DEF TypeOK, LogTypeOK
<1>3. binlog' = [binlog EXCEPT ![s] = b]  BY DEF Submit
<1> HIDE DEF b
<1>4. LogTypeOK' /\ NoBadSlot'  BY <1>2, <1>3, LogStepType DEF Submit
<1>5. i \in Nat
  BY <1>2, <1>3 DEF TypeOK, LogTypeOK, BinLogs, GetLength
<1>6. new \in Ack
  <2> HIDE DEF i
  <2>1. \A a \in old : a.kinds \subseteq ReqKinds
    BY DEF AcksAt, TypeOK, ApplyTypeOK, Ack
  <2>2. ReqKind[r] \in ReqKinds  BY DEF NodeAssumption
  <2>3. UNION {a.kinds : a \in old} \subseteq ReqKinds
    <3> SUFFICES ASSUME NEW k, \E a \in old : k \in a.kinds
                 PROVE  k \in ReqKinds
      OBVIOUS
    <3> QED  BY <2>1
  <2> HIDE DEF old
  <2> QED  BY <1>5, <2>2, <2>3 DEF Ack
<1>7. sdkAck' = [sdkAck EXCEPT ![s] = (@ \ old) \cup {new}]  BY DEF Submit
<1> HIDE DEF new, old
<1>8. ApplyTypeOK'
  <2>1. sdkAck \in [Server -> SUBSET Ack] /\ reply \in [Request -> {"idle", "sent", "ok"}]
    BY DEF TypeOK, ApplyTypeOK
  <2>2. sdkAck' \in [Server -> SUBSET Ack]  BY <1>6, <1>7, <2>1
  <2>3. reply' \in [Request -> {"idle", "sent", "ok"}]  BY <2>1 DEF Submit
  <2> QED  BY <2>2, <2>3 DEF Submit, TypeOK, ApplyTypeOK
<1>9. ElectionTypeOK' /\ ReplicationTypeOK'  BY Untouched DEF Submit
<1> QED  BY <1>4, <1>8, <1>9 DEF TypeOK

LEMMA CommitBeginType ==
    ASSUME TypeOK, NoBadSlot, NEW s \in Server, CommitBegin(s)
    PROVE  TypeOK' /\ NoBadSlot'
<1>1. commitIndex[s] \in Int /\ lastApplied[s] \in Int  BY DEF TypeOK, ApplyTypeOK
<1>2. ApplyTypeOK'  BY <1>1 DEF CommitBegin, TypeOK, ApplyTypeOK
<1>3. ApplyStored'
  BY <1>1 DEF CommitBegin, NoBadSlot, ApplyStored, CommitStored, TypeOK, ApplyTypeOK
<1>4. ElectionTypeOK' /\ LogTypeOK' /\ ReplicationTypeOK'  BY Untouched DEF CommitBegin
<1>5. NoBadSlot'  BY <1>3 DEF CommitBegin, NoBadSlot, CommitStored, CallStored
<1> QED  BY <1>2, <1>4, <1>5 DEF TypeOK

\* The slot that is applied holds an entry, and an entry leaves a database.
LEMMA EffectType ==
    ASSUME NodeAssumption, NEW db \in [Key -> Value], NEW e \in Entry
    PROVE  Effect(db, e) \in [Key -> Value]
<1>1. CASE e.op \in {"Put", "Lock"}
  <2>1. e.req \in Request  BY <1>1 DEF Entry
  <2>2. [op |-> e.op, req |-> e.req] \in Value  BY <1>1, <2>1 DEF Value
  <2>3. ReqKey[e.req] \in Key  BY <2>1 DEF NodeAssumption
  <2>4. Effect(db, e) = [db EXCEPT ![ReqKey[e.req]] = [op |-> e.op, req |-> e.req]]
    BY <1>1 DEF Effect
  <2> QED  BY <2>2, <2>3, <2>4
<1>2. CASE e.op \in {"Delete", "UnLock"}
  <2>1. e.req \in Request /\ ReqKey[e.req] \in Key  BY <1>2 DEF Entry, NodeAssumption
  <2>2. Nil \in Value  BY DEF Value
  <2>3. Effect(db, e) = [db EXCEPT ![ReqKey[e.req]] = Nil]  BY <1>2 DEF Effect
  <2> QED  BY <2>1, <2>2, <2>3
<1>3. CASE e.op \notin {"Put", "Lock", "Delete", "UnLock"}  BY <1>3 DEF Effect
<1> QED  BY <1>1, <1>2, <1>3

LEMMA CommitStoreType ==
    ASSUME NodeAssumption, TypeOK, NoBadSlot, NEW s \in Server, CommitStore(s)
    PROVE  TypeOK' /\ NoBadSlot'
<1> DEFINE e == ReadSlot(binlog[s], lastApplied[s] + 1)
<1>1. /\ applier[s] \in [pc: {"wait", "apply", "ack"}, end: Int]
      /\ lastApplied[s] \in Int /\ applier[s].pc = "apply"
  BY DEF CommitStore, TypeOK, ApplyTypeOK
<1>2. e \in Entry
  <2>1. /\ lastApplied[s] >= -1 /\ lastApplied[s] < applier[s].end
        /\ applier[s].end < Len(binlog[s].slot)
    BY <1>1 DEF NoBadSlot, ApplyStored
  <2>2. binlog[s] \in BinLogs(Entry, Terms) /\ Len(binlog[s].slot) \in Nat
    BY LenProperties DEF TypeOK, LogTypeOK, BinLogs
  <2>3. lastApplied[s] + 1 \in Nat /\ lastApplied[s] + 1 < Len(binlog[s].slot)
    BY <1>1, <2>1, <2>2
  <2> QED  BY <2>2, <2>3, ReadSlotType
<1> HIDE DEF e
<1>3. store' \in [Server -> [Key -> Value]]
  <2>1. store \in [Server -> [Key -> Value]]  BY DEF TypeOK, ApplyTypeOK
  <2>2. Effect(store[s], e) \in [Key -> Value]  BY <1>2, <2>1, EffectType
  <2>3. store' = [store EXCEPT ![s] = Effect(store[s], e)]  BY DEF CommitStore, e
  <2> QED  BY <2>1, <2>2, <2>3
<1>4. applier' \in [Server -> [pc: {"wait", "apply", "ack"}, end: Int]]
  <2>1. applier \in [Server -> [pc: {"wait", "apply", "ack"}, end: Int]]
    BY DEF TypeOK, ApplyTypeOK
  <2>2. applier' = [applier EXCEPT ![s] = [@ EXCEPT !.pc = "ack"]]  BY DEF CommitStore
  <2>3. [applier[s] EXCEPT !.pc = "ack"] \in [pc: {"wait", "apply", "ack"}, end: Int]
    BY <1>1
  <2> QED  BY <2>1, <2>2, <2>3
<1>5. ApplyTypeOK'  BY <1>3, <1>4 DEF CommitStore, TypeOK, ApplyTypeOK
<1>6. ApplyStored'
  <2>1. applier' = [applier EXCEPT ![s].pc = "ack"] /\ lastApplied' = lastApplied
          /\ binlog' = binlog
    BY DEF CommitStore
  <2>2. applier'[s].end = applier[s].end  BY <1>1, <2>1 DEF TypeOK, ApplyTypeOK
  <2>3. \A u \in Server : u # s => applier'[u] = applier[u]
    BY <2>1 DEF TypeOK, ApplyTypeOK
  <2> QED  BY <1>1, <2>1, <2>2, <2>3 DEF NoBadSlot, ApplyStored
<1>7. ElectionTypeOK' /\ LogTypeOK' /\ ReplicationTypeOK'  BY Untouched DEF CommitStore
<1>8. NoBadSlot'  BY <1>6 DEF CommitStore, NoBadSlot, CommitStored, CallStored
<1> QED  BY <1>5, <1>7, <1>8 DEF TypeOK

LEMMA CommitAckType ==
    ASSUME TypeOK, NoBadSlot, NEW s \in Server, CommitAck(s)
    PROVE  TypeOK' /\ NoBadSlot'
<1> DEFINE i == lastApplied[s] + 1
           a == IF i < applier[s].end THEN [applier[s] EXCEPT !.pc = "apply"]
                                      ELSE [pc |-> "wait", end |-> -1]
<1>1. /\ applier[s] \in [pc: {"wait", "apply", "ack"}, end: Int]
      /\ lastApplied[s] \in Int /\ applier[s].pc = "ack"
  BY DEF CommitAck, TypeOK, ApplyTypeOK
<1>2. i \in Int /\ i >= -1 /\ a \in [pc: {"wait", "apply", "ack"}, end: Int]
  BY <1>1 DEF NoBadSlot, ApplyStored
<1>3. a.pc # "wait" => i < a.end /\ a.end < Len(binlog[s].slot)
  BY <1>1 DEF NoBadSlot, ApplyStored
<1>4. lastApplied' = [lastApplied EXCEPT ![s] = i] /\ applier' = [applier EXCEPT ![s] = a]
  BY DEF CommitAck
<1> HIDE DEF i, a
<1>5. ApplyTypeOK'
  <2>1. sdkAck \in [Server -> SUBSET Ack] /\ reply \in [Request -> {"idle", "sent", "ok"}]
    BY DEF TypeOK, ApplyTypeOK
  <2>2. \/ UNCHANGED clientVars
        \/ /\ reply' = [r \in Request |-> IF \E x \in AcksAt(s, i) : x.done = r
                                           THEN "ok" ELSE reply[r]]
           /\ sdkAck' = [sdkAck EXCEPT ![s] = @ \ AcksAt(s, i)]
    BY DEF CommitAck, i
  <2>3. reply' \in [Request -> {"idle", "sent", "ok"}]  BY <2>1, <2>2
  <2>4. sdkAck' \in [Server -> SUBSET Ack]  BY <2>1, <2>2
  <2>5. lastApplied' \in [Server -> Int]  BY <1>2, <1>4 DEF TypeOK, ApplyTypeOK
  <2>6. applier' \in [Server -> [pc: {"wait", "apply", "ack"}, end: Int]]
    BY <1>2, <1>4 DEF TypeOK, ApplyTypeOK
  <2> QED  BY <2>3, <2>4, <2>5, <2>6 DEF CommitAck, TypeOK, ApplyTypeOK
<1>6. ApplyStored'
  BY <1>2, <1>3, <1>4 DEF CommitAck, NoBadSlot, ApplyStored, TypeOK, ApplyTypeOK
<1>7. ElectionTypeOK' /\ LogTypeOK' /\ ReplicationTypeOK'  BY Untouched DEF CommitAck
<1>8. NoBadSlot'  BY <1>6 DEF CommitAck, NoBadSlot, CommitStored, CallStored
<1> QED  BY <1>5, <1>7, <1>8 DEF TypeOK

-----------------------------------------------------------------------------
\* Restarts, and the whole.

LEMMA CrashType ==
    ASSUME NodeAssumption, TypeOK, NoBadSlot, NEW s \in Server, Crash(s)
    PROVE  TypeOK' /\ NoBadSlot'
<1>1. 0 \in Terms  BY DEF Terms, NodeAssumption
<1>2. ElectionTypeOK'
  <2>1. voteReq' \subseteq VoteRequest /\ voteRes' \subseteq VoteResponse
    BY AbandonType DEF Crash, TypeOK, ElectionTypeOK
  <2>2. /\ voteFor' \in [Server -> [Terms -> Server \cup {Nil}]]
        /\ votePass' \in [Server -> [Terms -> Nat]]
    BY DEF Crash, TypeOK, ElectionTypeOK
  <2> QED  BY <1>1, <2>1, <2>2 DEF Crash, TypeOK, ElectionTypeOK
<1> DEFINE b == Reopen(binlog[s])
<1>3. b \in BinLogs(Entry, Terms) /\ b.slot = binlog[s].slot
  BY EntryTerms, ReopenType DEF TypeOK, LogTypeOK
<1>4. binlog' = [binlog EXCEPT ![s] = b]  BY DEF Crash
<1> HIDE DEF b
<1>5. LogTypeOK'  BY <1>3, <1>4 DEF TypeOK, LogTypeOK
<1>6. \A u \in Server : binlog'[u].slot = binlog[u].slot
  BY <1>3, <1>4 DEF TypeOK, LogTypeOK
<1>7. repl' = [repl EXCEPT ![s] = [f \in Server |-> NoThread]]  BY DEF Crash
<1>8. repl' \in [Server -> [Server -> ReplState]]
  BY <1>7, IdleThreads DEF TypeOK, ReplicationTypeOK
<1>9. appending' \in [Server -> SUBSET Appending]
  <2>1. \A f \in Server : \A h \in appending[f] :
           h \in Appending /\ [h EXCEPT !.req = Abandon(@)] \in Appending
    BY AbandonType DEF TypeOK, ReplicationTypeOK
  <2>2. \A f \in Server :
          {IF h.req.from = s THEN [h EXCEPT !.req = Abandon(@)] ELSE h : h \in appending[f]}
             \in SUBSET Appending
    BY <2>1
  <2> QED  BY <2>2 DEF Crash
<1>10. ReplicationTypeOK'
  <2>1. appendReq' \subseteq AppendRequest
    BY AbandonType DEF Crash, TypeOK, ReplicationTypeOK
  <2>2. appendRes' \subseteq AppendResponse /\ beatRes' \subseteq BeatResponse
    BY DEF Crash, TypeOK, ReplicationTypeOK
  <2>3. /\ nextIndex' \in [Server -> [Server -> Nat]]
        /\ matchIndex' \in [Server -> [Server -> Int]]
    BY DEF Crash, TypeOK, ReplicationTypeOK
  <2> QED  BY <1>8, <1>9, <2>1, <2>2, <2>3 DEF ReplicationTypeOK
<1>11. lastApplied' = lastApplied
  BY DEF Crash, RestoredIndex, TypeOK, ApplyTypeOK
<1>12. ApplyTypeOK'
  BY <1>11 DEF Crash, TypeOK, ApplyTypeOK, NodeAssumption
<1>13. NoBadSlot'
  <2>1. \A u \in Server : Len(binlog[u].slot) \in Nat
    BY LenProperties DEF TypeOK, LogTypeOK, BinLogs
  <2>2. CommitStored'
    BY <1>6, <2>1 DEF Crash, NoBadSlot, CommitStored, TypeOK, ApplyTypeOK
  <2>3. ApplyStored'
    BY <1>6, <1>11 DEF Crash, NoBadSlot, ApplyStored, TypeOK, ApplyTypeOK
  <2>4. CallStored'
    BY <1>6, <1>7, IdleThreads
    DEF NoBadSlot, CallStored, TypeOK, ReplicationTypeOK, NextAfter
  <2> QED  BY <2>2, <2>3, <2>4 DEF NoBadSlot
<1> QED  BY <1>2, <1>5, <1>10, <1>12, <1>13 DEF TypeOK

LEMMA InitType ==
    ASSUME NodeAssumption, Init
    PROVE  TypeOK /\ NoBadSlot
<1>1. 0 \in Terms  BY DEF Terms, NodeAssumption
<1>2. ElectionTypeOK  BY <1>1 DEF Init, ElectionTypeOK
<1>3. NewBinLog \in BinLogs(Entry, Terms) /\ Len(NewBinLog.slot) = 0
  BY EmptySeq DEF NewBinLog, BinLogs
<1>4. LogTypeOK  BY <1>3 DEF Init, LogTypeOK
<1>5. ReplicationTypeOK  BY IdleThreads DEF Init, ReplicationTypeOK
<1>6. ApplyTypeOK  BY DEF Init, ApplyTypeOK, Value, NodeAssumption
<1>7. CommitStored /\ ApplyStored  BY <1>3 DEF Init, CommitStored, ApplyStored
<1>8. CallStored  BY IdleThreads DEF Init, CallStored
<1> QED  BY <1>2, <1>4, <1>5, <1>6, <1>7, <1>8 DEF TypeOK, NoBadSlot

LEMMA StepType ==
    ASSUME NodeAssumption, TypeOK, NoBadSlot, [Next \/ \E s \in Server : Crash(s)]_vars
    PROVE  TypeOK' /\ NoBadSlot'
<1>1. CASE ElectionNext
  BY <1>1, VoteTimerHeardType, VoteLeaderType, VoteType, VoteCallBackType DEF ElectionNext
<1>2. CASE LeaderNext
  BY <1>2, ReplicateStopType, ReplicateBuildType, ReplicateSendType, ReplicateAnswerType,
     ReplicateFailType DEF LeaderNext
<1>3. CASE HeartBeatNext
  BY <1>3, BroadCastHeartBeatType, AppendEntriesType, HeartBeatCallBackType DEF HeartBeatNext
<1>4. CASE FollowerNext
  BY <1>4, AppendWriteType, AppendFinishType DEF FollowerNext
<1>5. CASE ApplyNext
  <2>1. \A s \in Server, r \in Request :
           Put(s, r) \/ Delete(s, r) \/ Lock(s, r) \/ UnLock(s, r) => TypeOK' /\ NoBadSlot'
    BY SubmitType DEF Put, Delete, Lock, UnLock, ReqKinds
  <2> QED  BY <1>5, <2>1, CommitBeginType, CommitStoreType, CommitAckType DEF ApplyNext
<1>6. CASE \E s \in Server : Crash(s)  BY <1>6, CrashType
<1>7. CASE UNCHANGED vars
  BY <1>7, Untouched DEF vars, TypeOK
<1> QED  BY <1>1, <1>2, <1>3, <1>4, <1>5, <1>6, <1>7 DEF Next

\* The two together, with restarts and without.
THEOREM CrashTypeAndSlots == CrashSpec => [](TypeOK /\ NoBadSlot)
<1>1. Init => TypeOK /\ NoBadSlot  BY InitType, NodeAssumption
<1>2. (TypeOK /\ NoBadSlot) /\ [Next \/ \E s \in Server : Crash(s)]_vars
         => (TypeOK /\ NoBadSlot)'
  BY StepType, NodeAssumption
<1> QED  BY <1>1, <1>2, PTL DEF CrashSpec

\* The same without restarts, as the theorems on elections and logs take it.
THEOREM TypeAndSlots == Spec => [](TypeOK /\ NoBadSlot)
<1>1. Init => TypeOK /\ NoBadSlot  BY InitType, NodeAssumption
<1>2. (TypeOK /\ NoBadSlot) /\ [Next]_vars => (TypeOK /\ NoBadSlot)'
  BY StepType, NodeAssumption
<1> QED  BY <1>1, <1>2, PTL DEF Spec

\* Every variable keeps its type, through elections, truncations, timeouts and
\* restarts.
THEOREM TypeCorrect == CrashSpec => []TypeOK
BY CrashTypeAndSlots, PTL

\* Every slot that CommitIndex, ReplicateLog or a restart reads is stored: no
\* assert of CommitIndex fails and ReplicateLog meets no bad slot, whatever was
\* truncated, overwritten or restarted meanwhile.
THEOREM SlotsStored == CrashSpec => []NoBadSlot
BY CrashTypeAndSlots, PTL
=============================================================================

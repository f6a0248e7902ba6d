---------------------------- MODULE AirDBLogProof ----------------------------
(***************************************************************************)
(* What the logs and the databases owe each other, for any number of       *)
(* servers, requests and terms: the log of a node that is and stays leader *)
(* is written at its end only; and a database is what its log makes it,    *)
(* restarts included, as long as no applied entry is written over.  The    *)
(* database after n entries is a recursive function; what is proved of it  *)
(* for every n is proved by a least counterexample (LeastOf).              *)
(***************************************************************************)
EXTENDS AirDBTypeProof, FiniteSetTheorems, WellFoundedInduction

\* What a log holds below its length.
LEMMA EntriesOf ==
    ASSUME NEW b \in BinLogs(Entry, Terms)
    PROVE  /\ Entries(b) \in Seq(Entry) /\ Len(Entries(b)) = b.len
           /\ \A i \in 1 .. b.len : Entries(b)[i] = b.slot[i]
<1>1. b.slot \in Seq(Entry) /\ Len(b.slot) \in Nat /\ b.len \in Nat /\ b.len <= Len(b.slot)
  BY LenProperties DEF BinLogs
<1>2. \A i \in 1 .. b.len : b.slot[i] \in Entry  BY <1>1, ElementOfSeq
<1> QED  BY <1>1, <1>2, SubSeqProperties DEF Entries

\* A log with the same first entries extends another.
LEMMA SameEntries ==
    ASSUME NEW b \in BinLogs(Entry, Terms), NEW c \in BinLogs(Entry, Terms),
           b.len <= c.len, \A i \in 1 .. b.len : c.slot[i] = b.slot[i]
    PROVE  Extends(Entries(c), Entries(b))
<1>1. b.len \in Nat /\ c.len \in Nat  BY DEF BinLogs
<1> DEFINE old == Entries(b)
           new == Entries(c)
           low == SubSeq(new, 1, b.len)
<1>2. /\ old \in Seq(Entry) /\ Len(old) = b.len
      /\ new \in Seq(Entry) /\ Len(new) = c.len
      /\ \A i \in 1 .. b.len : new[i] = old[i]
  BY <1>1, EntriesOf
<1> HIDE DEF old, new
<1>3. \A i \in 1 .. b.len : new[i] \in Entry  BY <1>1, <1>2, ElementOfSeq
<1>4. /\ low \in Seq(Entry) /\ Len(low) = b.len
      /\ \A i \in 1 .. b.len : low[i] = new[i]
  BY <1>1, <1>3, SubSeqProperties
<1>5. old = low  BY <1>2, <1>4, SeqEqual
<1> QED  BY <1>1, <1>2, <1>5 DEF Extends, old, new

\* WriteEntryList leaves the entries below the old length in their slots.
LEMMA WriteExtends ==
    ASSUME NEW b \in BinLogs(Entry, Terms), NEW entries \in Seq(Entry), entries # << >>
    PROVE  Extends(Entries(WriteEntryList(b, entries)), Entries(b))
<1> DEFINE n == b.len + Len(entries)
           low == SubSeq(b.slot, 1, b.len)
           high == SubSeq(b.slot, n + 1, Len(b.slot))
           w == WriteEntryList(b, entries)
<1>1. b.slot \in Seq(Entry) /\ Len(b.slot) \in Nat /\ b.len \in Nat /\ b.len <= Len(b.slot)
  BY LenProperties DEF BinLogs
<1>2. Len(entries) \in Nat /\ n \in Nat  BY <1>1, LenProperties
<1>3. w \in BinLogs(Entry, Terms) /\ w.len = n  BY EntryTerms, WriteEntryListType
<1>4. /\ low \in Seq(Entry) /\ Len(low) = b.len
      /\ \A i \in 1 .. b.len : low[i] = b.slot[i]
  <2>1. \A i \in 1 .. b.len : b.slot[i] \in Entry  BY <1>1, ElementOfSeq
  <2> QED  BY <1>1, <2>1, SubSeqProperties
<1>5. high \in Seq(Entry)
  <2>1. \A i \in n + 1 .. Len(b.slot) : b.slot[i] \in Entry
    <3> TAKE i \in n + 1 .. Len(b.slot)
    <3>1. i \in 1 .. Len(b.slot)  BY <1>1, <1>2
    <3> QED  BY <1>1, <3>1, ElementOfSeq
  <2> DEFINE m == n + 1
  <2>2. m \in Int  BY <1>2
  <2> HIDE DEF m
  <2>3. high = SubSeq(b.slot, m, Len(b.slot))  BY DEF m
  <2>4. \A i \in m .. Len(b.slot) : b.slot[i] \in Entry  BY <2>1 DEF m
  <2> QED  BY <1>1, <2>2, <2>3, <2>4, SubSeqProperties
<1> HIDE DEF low, high
<1>6. /\ low \o entries \in Seq(Entry) /\ Len(low \o entries) = n
      /\ \A i \in 1 .. b.len : (low \o entries)[i] = b.slot[i]
  BY <1>1, <1>2, <1>4, ConcatProperties
<1>7. \A i \in 1 .. b.len : (low \o entries \o high)[i] = b.slot[i]
  <2> TAKE i \in 1 .. b.len
  <2>1. i <= n /\ Len(high) \in Nat /\ i \in 1 .. n + Len(high)
    BY <1>1, <1>2, <1>5, LenProperties
  <2> QED  BY <1>5, <1>6, <2>1, ConcatProperties
<1>8. w.slot = low \o entries \o high  BY DEF WriteEntryList, low, high
<1>9. b.len <= w.len  BY <1>1, <1>2, <1>3
<1> QED  BY <1>3, <1>7, <1>8, <1>9, SameEntries

\* A node whose log is not written keeps it.
LEMMA SameLog ==
    ASSUME LogTypeOK, NEW s \in Server, binlog'[s] = binlog[s]
    PROVE  Extends(Entries(binlog'[s]), Entries(binlog[s]))
<1>1. binlog[s] \in BinLogs(Entry, Terms)  BY DEF LogTypeOK
<1>2. binlog[s].len \in Nat  BY <1>1 DEF BinLogs
<1> QED  BY <1>1, <1>2, SameEntries

\* A node that writes to its log extends it.
LEMMA WrittenLog ==
    ASSUME LogTypeOK, NEW s \in Server, NEW u \in Server,
           NEW entries \in Seq(Entry), entries # << >>,
           binlog' = [binlog EXCEPT ![u] = WriteEntryList(@, entries)]
    PROVE  Extends(Entries(binlog'[s]), Entries(binlog[s]))
<1>1. CASE s = u
  <2>1. binlog[u] \in BinLogs(Entry, Terms) /\ binlog'[u] = WriteEntryList(binlog[u], entries)
    BY DEF LogTypeOK
  <2> QED  BY <1>1, <2>1, WriteExtends
<1>2. CASE s # u
  <2>1. binlog'[s] = binlog[s]  BY <1>2 DEF LogTypeOK
  <2> QED  BY <2>1, SameLog
<1> QED  BY <1>1, <1>2

-----------------------------------------------------------------------------
\* One lemma per group of actions.

\* An election writes to the log of a node that was no leader.
LEMMA ElectionAppends ==
    ASSUME TypeOK, NEW s \in Server, status[s] = "Leader", ElectionNext
    PROVE  Extends(Entries(binlog'[s]), Entries(binlog[s]))
<1>1. ASSUME NEW u \in Server, VoteTimerHeard(u) \/ VoteLeader(u)
      PROVE  binlog'[s] = binlog[s]
  BY <1>1 DEF VoteTimerHeard, VoteLeader
<1>2. ASSUME NEW m \in voteReq, Vote(m)
      PROVE  binlog'[s] = binlog[s]
  BY <1>2 DEF Vote
<1>3. ASSUME NEW m \in voteRes, VoteCallBack(m)
      PROVE  binlog'[s] = binlog[s]
  <2>1. CASE VoteCounted(m)
    <3>1. m.to # s  BY <2>1 DEF VoteCounted
    <3>2. binlog' = binlog \/ \E b : binlog' = [binlog EXCEPT ![m.to] = b]
      BY <2>1 DEF VoteCounted, StartReplicaLog
    <3> QED  BY <3>1, <3>2 DEF TypeOK, LogTypeOK
  <2>2. CASE VoteNewerTerm(m) \/ VoteIgnored(m)
    BY <2>2 DEF VoteNewerTerm, VoteIgnored
  <2> QED  BY <1>3, <2>1, <2>2 DEF VoteCallBack
<1>4. binlog'[s] = binlog[s]  BY <1>1, <1>2, <1>3 DEF ElectionNext
<1> QED  BY <1>4, SameLog DEF TypeOK

\* AppendEntriesImpl truncates the log of a node that it makes a follower.
LEMMA HeartBeatAppends ==
    ASSUME TypeOK, NEW s \in Server, status'[s] = "Leader", HeartBeatNext
    PROVE  Extends(Entries(binlog'[s]), Entries(binlog[s]))
<1>1. ASSUME NEW u \in Server, BroadCastHeartBeat(u)
      PROVE  binlog'[s] = binlog[s]
  BY <1>1 DEF BroadCastHeartBeat
<1>2. ASSUME NEW m \in beatRes, HeartBeatCallBack(m)
      PROVE  binlog'[s] = binlog[s]
  BY <1>2 DEF HeartBeatCallBack
<1>3. ASSUME NEW m \in appendReq, AppendEntries(m)
      PROVE  binlog'[s] = binlog[s]
  <2>1. CASE AppendMismatch(m)
    <3>1. m.to \in Server  BY DEF TypeOK, ReplicationTypeOK, AppendRequest
    <3>2. status'[m.to] = "Follower"
      BY <2>1, <3>1 DEF AppendMismatch, Follow, TypeOK, ElectionTypeOK
    <3>3. m.to # s  BY <3>2
    <3> QED  BY <2>1, <3>3 DEF AppendMismatch, TypeOK, LogTypeOK
  <2>2. CASE \/ AppendStale(m) \/ AppendHeartBeat(m) \/ AppendBeyond(m)
             \/ AppendTooFast(m) \/ AppendAccept(m)
    BY <2>2 DEF AppendStale, AppendHeartBeat, AppendBeyond, AppendTooFast, AppendAccept
  <2> QED  BY <1>3, <2>1, <2>2 DEF AppendEntries
<1>4. binlog'[s] = binlog[s]  BY <1>1, <1>2, <1>3 DEF HeartBeatNext
<1> QED  BY <1>4, SameLog DEF TypeOK

\* A write that was accepted before goes to the end, on a leader too.
LEMMA FollowerAppends ==
    ASSUME TypeOK, NEW s \in Server, FollowerNext
    PROVE  Extends(Entries(binlog'[s]), Entries(binlog[s]))
<1>1. ASSUME NEW u \in Server, NEW h \in appending[u], AppendWrite(u, h)
      PROVE  Extends(Entries(binlog'[s]), Entries(binlog[s]))
  <2>1. h \in Appending  BY DEF TypeOK, ReplicationTypeOK
  <2>2. h.req.entries \in Seq(Entry) /\ h.req.entries # << >>
    BY <2>1 DEF Appending, AppendRequest
  <2>3. binlog' = [binlog EXCEPT ![u] = WriteEntryList(@, h.req.entries)]
    BY <1>1 DEF AppendWrite
  <2> QED  BY <2>2, <2>3, WrittenLog DEF TypeOK
<1>2. ASSUME NEW u \in Server, NEW h \in appending[u], AppendFinish(u, h)
      PROVE  Extends(Entries(binlog'[s]), Entries(binlog[s]))
  <2>1. binlog' = binlog  BY <1>2 DEF AppendFinish
  <2> QED  BY <2>1, SameLog DEF TypeOK
<1> QED  BY <1>1, <1>2 DEF FollowerNext

\* A client's write is one entry at the end.
LEMMA ApplyAppends ==
    ASSUME NodeAssumption, TypeOK, NEW s \in Server, ApplyNext
    PROVE  Extends(Entries(binlog'[s]), Entries(binlog[s]))
<1>1. ASSUME NEW u \in Server, NEW r \in Request, NEW op \in ReqKinds, Submit(u, r, op)
      PROVE  Extends(Entries(binlog'[s]), Entries(binlog[s]))
  <2> DEFINE e == [term |-> currentTerm[u], op |-> op, req |-> r]
  <2>1. e \in Entry  BY DEF Entry, TypeOK, ElectionTypeOK
  <2>2. binlog' = [binlog EXCEPT ![u] = WriteEntryList(@, <<e>>)]
    BY <1>1 DEF Submit, WriteEntry
  <2> HIDE DEF e
  <2>3. <<e>> \in Seq(Entry) /\ <<e>> # << >>  BY <2>1
  <2> QED  BY <2>2, <2>3, WrittenLog DEF TypeOK
<1>2. ASSUME NEW u \in Server, CommitBegin(u) \/ CommitStore(u) \/ CommitAck(u)
      PROVE  Extends(Entries(binlog'[s]), Entries(binlog[s]))
  <2>1. binlog' = binlog  BY <1>2 DEF CommitBegin, CommitStore, CommitAck
  <2> QED  BY <2>1, SameLog DEF TypeOK
<1>3. \A u \in Server, r \in Request :
         Put(u, r) \/ Delete(u, r) \/ Lock(u, r) \/ UnLock(u, r)
            => \E op \in ReqKinds : Submit(u, r, op)
  BY DEF Put, Delete, Lock, UnLock, ReqKinds
<1> QED  BY <1>1, <1>2, <1>3 DEF ApplyNext

LEMMA StepAppends ==
    ASSUME NodeAssumption, TypeOK, [Next]_vars
    PROVE  \A s \in Server : status[s] = "Leader" /\ status'[s] = "Leader" =>
              Extends(Entries(binlog'[s]), Entries(binlog[s]))
<1> SUFFICES ASSUME NEW s \in Server, status[s] = "Leader", status'[s] = "Leader"
             PROVE  Extends(Entries(binlog'[s]), Entries(binlog[s]))
  OBVIOUS
<1>1. CASE ElectionNext  BY <1>1, ElectionAppends
<1>2. CASE LeaderNext
  <2>1. binlog' = binlog
    BY <1>2 DEF LeaderNext, ReplicateStop, ReplicateBuild, ReplicateSend, ReplicateAnswer,
       ReplicateFail
  <2> QED  BY <2>1, SameLog DEF TypeOK
<1>3. CASE HeartBeatNext  BY <1>3, HeartBeatAppends
<1>4. CASE FollowerNext  BY <1>4, FollowerAppends
<1>5. CASE ApplyNext  BY <1>5, ApplyAppends
<1>6. CASE UNCHANGED vars
  <2>1. binlog' = binlog  BY <1>6 DEF vars
  <2> QED  BY <2>1, SameLog DEF TypeOK
<1> QED  BY <1>1, <1>2, <1>3, <1>4, <1>5, <1>6 DEF Next

-----------------------------------------------------------------------------
\* While a node is leader nothing leaves its log and nothing in it changes,
\* although Truncate and WriteEntryList of AppendEntriesImpl may still run there.
THEOREM LeadersAppend == Spec => LeaderAppends
<1>1. TypeOK /\ NoBadSlot /\ [Next]_vars
         => [\A s \in Server : status[s] = "Leader" /\ status'[s] = "Leader" =>
                Extends(Entries(binlog'[s]), Entries(binlog[s]))]_vars
  BY StepAppends, NodeAssumption
<1> QED  BY <1>1, TypeAndSlots, PTL DEF Spec, LeaderAppends

-----------------------------------------------------------------------------
\* The database that a list of entries makes: what DbAfter defines by recursion
\* on the slot, for every slot.  Induction on a slot is the choice of the least
\* one for which a fact would fail.

\* A set of numbers up to n has a least one: the intervals up to its members
\* are ordered by inclusion.
LEMMA LeastOf ==
    ASSUME NEW n \in Nat, NEW T, T \subseteq 0 .. n, T # {}
    PROVE  \E x \in T : \A y \in T : x <= y
<1> DEFINE below(x) == 0 .. x
           W == {below(x) : x \in T}
           R == StrictSubsetOrdering(0 .. n)
<1>1. T \subseteq Int /\ \A x \in T : 0 <= x /\ x <= n /\ x \in Int
  OBVIOUS
<1>2. IsWellFoundedOn(R, SUBSET (0 .. n))
  <2>1. IsFiniteSet(0 .. n)  BY FS_Interval
  <2>2. FiniteSubsetsOf(0 .. n) = SUBSET (0 .. n)  BY <2>1, FS_FiniteSubsetsOfFinite, Zenon
  <2> QED  BY <2>2, FS_StrictSubsetOrderingWellFounded
<1>3. \A x \in T : below(x) \subseteq 0 .. n  BY <1>1
<1>4. W \subseteq SUBSET (0 .. n) /\ W # {}  BY <1>3, T # {}
<1>5. PICK m \in W : \A w \in W : ~(<<w, m>> \in R)
  <2> HIDE DEF R, W
  <2> QED  BY <1>2, <1>4, WFMin
<1>6. PICK x \in T : m = below(x)  BY <1>5
<1>7. ASSUME NEW y \in T, ~(x <= y) PROVE FALSE
  <2>1. below(y) \in W /\ ~(<<below(y), below(x)>> \in R)  BY <1>5, <1>6
  <2>2. below(y) \subseteq below(x)  BY <1>1, <1>7
  <2>3. x \in below(x) /\ x \notin below(y)  BY <1>1, <1>7
  <2>4. <<below(y), below(x)>> \in R  BY <1>3, <2>2, <2>3 DEF StrictSubsetOrdering
  <2> QED  BY <2>1, <2>4
<1> QED  BY <1>7

\* The databases after each of the first n + 1 entries.
IsDb(f, entries, n) ==
    f = [i \in -1 .. n |-> IF i = -1 THEN EmptyDb ELSE Effect(f[i - 1], entries[i + 1])]

\* Lists with the same first entries make the same databases.
LEMMA DbsAgree ==
    ASSUME NEW n \in Int, NEW m \in Int, NEW a, NEW b, NEW f, NEW g,
           IsDb(f, a, n), IsDb(g, b, m),
           NEW k \in -1 .. n, k <= m, \A i \in 1 .. k + 1 : a[i] = b[i]
    PROVE  f[k] = g[k]
<1> DEFINE T == {j \in 0 .. k + 1 : f[j - 1] # g[j - 1]}
<1>1. \A j \in 0 .. k + 1 :
         /\ f[j - 1] = IF j = 0 THEN EmptyDb ELSE Effect(f[j - 2], a[j])
         /\ g[j - 1] = IF j = 0 THEN EmptyDb ELSE Effect(g[j - 2], b[j])
  <2>1. \A i \in -1 .. n : f[i] = IF i = -1 THEN EmptyDb ELSE Effect(f[i - 1], a[i + 1])
    BY Zenon DEF IsDb
  <2>2. \A i \in -1 .. m : g[i] = IF i = -1 THEN EmptyDb ELSE Effect(g[i - 1], b[i + 1])
    BY Zenon DEF IsDb
  <2> TAKE j \in 0 .. k + 1
  <2>3. /\ j - 1 \in -1 .. n /\ j - 1 \in -1 .. m /\ (j - 1 = -1 <=> j = 0)
        /\ (j - 1) - 1 = j - 2 /\ (j - 1) + 1 = j
    OBVIOUS
  <2> QED  BY <2>1, <2>2, <2>3
<1> SUFFICES ASSUME f[k] # g[k] PROVE FALSE  OBVIOUS
<1>2. k + 1 \in Nat /\ k + 1 \in T /\ T \subseteq 0 .. k + 1
  <2>1. k + 1 \in 0 .. k + 1 /\ (k + 1) - 1 = k  OBVIOUS
  <2> QED  BY <2>1
<1>3. PICK x \in T : \A y \in T : x <= y
  <2> HIDE DEF T
  <2> QED  BY <1>2, LeastOf
<1>4. x # 0  BY <1>1
<1>5. x - 1 \in 0 .. k + 1 /\ x - 1 \notin T /\ (x - 1) - 1 = x - 2 /\ x \in 1 .. k + 1
  BY <1>3, <1>4
<1>6. f[x - 2] = g[x - 2] /\ a[x] = b[x]  BY <1>5
<1>7. f[x - 1] = Effect(f[x - 2], a[x]) /\ g[x - 1] = Effect(g[x - 2], b[x])
  BY <1>1, <1>4
<1> QED  BY <1>6, <1>7

\* There are such databases for every n.
LEMMA DbsExist ==
    ASSUME NEW n \in Int, n >= -1, NEW entries
    PROVE  \E f : IsDb(f, entries, n)
<1> DEFINE T == {j \in 0 .. n + 1 : ~ \E f : IsDb(f, entries, j - 1)}
<1> SUFFICES ASSUME ~ \E f : IsDb(f, entries, n) PROVE FALSE  OBVIOUS
<1>1. n + 1 \in Nat /\ n + 1 \in T /\ T \subseteq 0 .. n + 1
  <2>1. n + 1 \in 0 .. n + 1 /\ (n + 1) - 1 = n  OBVIOUS
  <2> QED  BY <2>1
<1>2. PICK x \in T : \A y \in T : x <= y
  <2> HIDE DEF T
  <2> QED  BY <1>1, LeastOf
<1>3. x \in 0 .. n + 1 /\ \A f : ~IsDb(f, entries, x - 1)  OBVIOUS
<1>4. x # 0
  <2> SUFFICES ASSUME x = 0 PROVE FALSE  OBVIOUS
  <2> DEFINE g == [i \in -1 .. -1 |-> EmptyDb]
             h == [i \in -1 .. -1 |-> IF i = -1 THEN EmptyDb
                                      ELSE Effect(g[i - 1], entries[i + 1])]
  <2>1. \A i \in -1 .. -1 : i = -1  OBVIOUS
  <2>2. g = h  BY <2>1
  <2>3. IsDb(g, entries, -1)  BY <2>2 DEF IsDb
  <2>4. x - 1 = -1  OBVIOUS
  <2> QED  BY <1>3, <2>3, <2>4
<1>5. x - 1 \in 0 .. n + 1 /\ x - 1 \notin T /\ (x - 1) - 1 = x - 2 /\ x \in Nat
  BY <1>2, <1>4
<1>6. PICK f : IsDb(f, entries, x - 2)  BY <1>5
<1> DEFINE g == [i \in -1 .. x - 1 |-> IF i = x - 1 THEN Effect(f[x - 2], entries[x]) ELSE f[i]]
<1>7. \A i \in -1 .. x - 2 : f[i] = IF i = -1 THEN EmptyDb ELSE Effect(f[i - 1], entries[i + 1])
  BY <1>6, Zenon DEF IsDb
<1>8. \A i \in -1 .. x - 1 : g[i] = IF i = -1 THEN EmptyDb ELSE Effect(g[i - 1], entries[i + 1])
  <2> TAKE i \in -1 .. x - 1
  <2>1. CASE i = x - 1
    <3>1. i # -1 /\ i - 1 = x - 2 /\ i + 1 = x /\ x - 2 # x - 1 /\ x - 2 \in -1 .. x - 1
      BY <1>4, <1>5, <2>1
    <3>2. g[i] = Effect(f[x - 2], entries[x]) /\ g[i - 1] = f[x - 2]  BY <2>1, <3>1
    <3> QED  BY <3>1, <3>2
  <2>2. CASE i = -1
    <3>1. i # x - 1 /\ i \in -1 .. x - 2  BY <1>4, <1>5, <2>2
    <3>2. g[i] = f[i]  BY <3>1
    <3> QED  BY <1>7, <2>2, <3>1, <3>2
  <2>3. CASE i # x - 1 /\ i # -1
    <3>1. i \in -1 .. x - 2 /\ i - 1 # x - 1 /\ i - 1 \in -1 .. x - 1  BY <1>5, <2>3
    <3>2. g[i] = f[i] /\ g[i - 1] = f[i - 1]  BY <2>3, <3>1
    <3> QED  BY <1>7, <2>3, <3>1, <3>2
  <2> QED  BY <2>1, <2>2, <2>3
<1>9. IsDb(g, entries, x - 1)
  <2>1. g = [i \in -1 .. x - 1 |-> g[i]]  OBVIOUS
  <2> HIDE DEF g
  <2>2. [i \in -1 .. x - 1 |-> g[i]]
           = [i \in -1 .. x - 1 |-> IF i = -1 THEN EmptyDb ELSE Effect(g[i - 1], entries[i + 1])]
    BY <1>8
  <2> QED  BY <2>1, <2>2 DEF IsDb
<1> QED  BY <1>3, <1>9

\* DbAfter is the last of them.
LEMMA DbAfterIs ==
    ASSUME NEW n \in Int, n >= -1, NEW entries, NEW f, IsDb(f, entries, n)
    PROVE  DbAfter(entries, n) = f[n]
<1> PICK g : g = CHOOSE h : IsDb(h, entries, n)  OBVIOUS
<1>1. IsDb(g, entries, n)  BY Zenon
<1>2. DbAfter(entries, n) = g[n]  BY DEF DbAfter, IsDb
<1>3. n \in -1 .. n /\ n <= n  OBVIOUS
<1>4. g[n] = f[n]  BY <1>1, <1>3, DbsAgree
<1> QED  BY <1>2, <1>4

LEMMA DbStart ==
    ASSUME NEW entries PROVE DbAfter(entries, -1) = EmptyDb
<1>1. PICK f : IsDb(f, entries, -1)  BY DbsExist
<1>2. f[-1] = EmptyDb
  <2>1. \A i \in -1 .. -1 : f[i] = IF i = -1 THEN EmptyDb ELSE Effect(f[i - 1], entries[i + 1])
    BY <1>1, Zenon DEF IsDb
  <2>2. -1 \in -1 .. -1  OBVIOUS
  <2> QED  BY <2>1, <2>2
<1> QED  BY <1>1, <1>2, DbAfterIs

LEMMA DbNext ==
    ASSUME NEW n \in Nat, NEW entries
    PROVE  DbAfter(entries, n) = Effect(DbAfter(entries, n - 1), entries[n + 1])
<1>1. PICK f : IsDb(f, entries, n)  BY DbsExist
<1>2. PICK g : IsDb(g, entries, n - 1)  BY DbsExist
<1>3. f[n] = Effect(f[n - 1], entries[n + 1])
  <2>1. \A i \in -1 .. n : f[i] = IF i = -1 THEN EmptyDb ELSE Effect(f[i - 1], entries[i + 1])
    BY <1>1, Zenon DEF IsDb
  <2>2. n \in -1 .. n /\ n # -1  OBVIOUS
  <2> QED  BY <2>1, <2>2
<1>4. f[n - 1] = g[n - 1]
  <2>1. /\ n - 1 \in Int /\ n - 1 \in -1 .. n /\ n - 1 <= n - 1
    OBVIOUS
  <2> QED  BY <1>1, <1>2, <2>1, DbsAgree
<1>5. DbAfter(entries, n) = f[n]  BY <1>1, DbAfterIs
<1>6. DbAfter(entries, n - 1) = g[n - 1]  BY <1>2, DbAfterIs
<1> QED  BY <1>3, <1>4, <1>5, <1>6

LEMMA DbSame ==
    ASSUME NEW n \in Int, n >= -1, NEW a, NEW b, \A i \in 1 .. n + 1 : a[i] = b[i]
    PROVE  DbAfter(a, n) = DbAfter(b, n)
<1>1. PICK f : IsDb(f, a, n)  BY DbsExist
<1>2. PICK g : IsDb(g, b, n)  BY DbsExist
<1>3. n \in -1 .. n /\ n <= n  OBVIOUS
<1>4. f[n] = g[n]  BY <1>1, <1>2, <1>3, DbsAgree
<1> QED  BY <1>1, <1>2, <1>4, DbAfterIs

\* A list of entries makes a database.
LEMMA DbType ==
    ASSUME NodeAssumption, NEW n \in Int, n >= -1, NEW entries \in Seq(Entry), n < Len(entries)
    PROVE  DbAfter(entries, n) \in [Key -> Value]
<1> DEFINE T == {j \in 0 .. n + 1 : DbAfter(entries, j - 1) \notin [Key -> Value]}
<1> SUFFICES ASSUME DbAfter(entries, n) \notin [Key -> Value] PROVE FALSE  OBVIOUS
<1>1. n + 1 \in Nat /\ n + 1 \in T /\ T \subseteq 0 .. n + 1
  <2>1. n + 1 \in 0 .. n + 1 /\ (n + 1) - 1 = n  OBVIOUS
  <2> QED  BY <2>1
<1>2. PICK x \in T : \A y \in T : x <= y
  <2> HIDE DEF T
  <2> QED  BY <1>1, LeastOf
<1>3. x \in 0 .. n + 1 /\ DbAfter(entries, x - 1) \notin [Key -> Value]  OBVIOUS
<1>4. x # 0
  <2>1. EmptyDb \in [Key -> Value]  BY DEF EmptyDb, Value
  <2>2. x = 0 => x - 1 = -1  OBVIOUS
  <2> QED  BY <1>3, <2>1, <2>2, DbStart
<1>5. x - 1 \in 0 .. n + 1 /\ x - 1 \in Nat /\ x \in 1 .. n + 1 /\ ~(x <= x - 1)
  BY <1>3, <1>4
<1>6. DbAfter(entries, (x - 1) - 1) \in [Key -> Value]
  <2>1. x - 1 \notin T
    <3> HIDE DEF T
    <3> QED  BY <1>2, <1>5
  <2> QED  BY <1>5, <2>1
<1>7. entries[(x - 1) + 1] \in Entry
  <2>1. Len(entries) \in Nat  BY LenProperties
  <2>2. x \in 1 .. Len(entries) /\ (x - 1) + 1 = x  BY <1>5, <2>1
  <2> QED  BY <2>2, ElementOfSeq
<1>8. DbAfter(entries, x - 1) = Effect(DbAfter(entries, (x - 1) - 1), entries[(x - 1) + 1])
  BY <1>5, DbNext
<1> QED  BY <1>3, <1>6, <1>7, <1>8, EffectType

\* An entry that is applied twice in a row has the effect of one.
LEMMA TwiceNoHarm ==
    ASSUME NodeAssumption, NEW db \in [Key -> Value], NEW e \in Entry
    PROVE  Effect(Effect(db, e), e) = Effect(db, e)
<1>1. CASE e.op \in {"Put", "Lock"}
  <2>1. \A d : Effect(d, e) = [d EXCEPT ![ReqKey[e.req]] = [op |-> e.op, req |-> e.req]]
    BY <1>1 DEF Effect
  <2> QED  BY <2>1
<1>2. CASE e.op \in {"Delete", "UnLock"}
  <2>1. \A d : Effect(d, e) = [d EXCEPT ![ReqKey[e.req]] = Nil]  BY <1>2 DEF Effect
  <2> QED  BY <2>1
<1>3. CASE e.op \notin {"Put", "Lock"} /\ e.op \notin {"Delete", "UnLock"}
  <2>1. \A d : Effect(d, e) = d  BY <1>3 DEF Effect
  <2> QED  BY <2>1
<1> QED  BY <1>1, <1>2, <1>3

-----------------------------------------------------------------------------
\* The database of a node is what its log makes it.

\* No step takes a slot out of the database of a binlog: Truncate moves its
\* length only, and a restart does not even do that.
SlotsKept(s) == Len(binlog'[s].slot) >= Len(binlog[s].slot)

LEMMA LogLength ==
    ASSUME TypeOK, NEW s \in Server
    PROVE  Len(binlog[s].slot) \in Nat /\ binlog[s].slot \in Seq(Entry)
BY LenProperties DEF TypeOK, LogTypeOK, BinLogs

LEMMA WriteKeepsSlots ==
    ASSUME TypeOK, NEW s \in Server, NEW u \in Server, NEW b,
           binlog' = [binlog EXCEPT ![u] = b], Len(b.slot) >= Len(binlog[u].slot)
    PROVE  SlotsKept(s)
BY LogLength DEF SlotsKept, TypeOK, LogTypeOK

LEMMA SameKeepsSlots ==
    ASSUME TypeOK, NEW s \in Server, binlog' = binlog
    PROVE  SlotsKept(s)
BY LogLength DEF SlotsKept

LEMMA StepKeepsSlots ==
    ASSUME NodeAssumption, TypeOK, NEW s \in Server, [Next \/ \E u \in Server : Crash(u)]_vars
    PROVE  SlotsKept(s)
<1>1. CASE ElectionNext
  <2>1. ASSUME NEW m \in voteRes, VoteCallBack(m)
        PROVE  SlotsKept(s)
    <3> PICK u : u = m.to  OBVIOUS
    <3> PICK nop : nop = NopEntry(currentTerm[u])  OBVIOUS
    <3>1. u \in Server  BY DEF TypeOK, ElectionTypeOK, VoteResponse
    <3>2. nop \in Entry  BY <3>1 DEF NopEntry, Entry, TypeOK, ElectionTypeOK
    <3>3. Len(WriteEntry(binlog[u], nop).slot) >= Len(binlog[u].slot)
      BY <3>1, <3>2, EntryTerms, WriteEntryType DEF TypeOK, LogTypeOK
    <3>4. binlog' = binlog \/ binlog' = [binlog EXCEPT ![u] = WriteEntry(binlog[u], nop)]
      BY <2>1 DEF VoteCallBack, VoteCounted, VoteNewerTerm, VoteIgnored, StartReplicaLog
    <3> QED  BY <3>1, <3>3, <3>4, WriteKeepsSlots, SameKeepsSlots
  <2>2. ASSUME \/ \E u \in Server : VoteTimerHeard(u) \/ VoteLeader(u)
               \/ \E m \in voteReq : Vote(m)
        PROVE  binlog' = binlog
    BY <2>2 DEF VoteTimerHeard, VoteLeader, Vote
  <2> QED  BY <1>1, <2>1, <2>2, SameKeepsSlots DEF ElectionNext
<1>2. CASE LeaderNext
  <2>1. binlog' = binlog
    BY <1>2 DEF LeaderNext, ReplicateStop, ReplicateBuild, ReplicateSend, ReplicateAnswer,
       ReplicateFail
  <2> QED  BY <2>1, SameKeepsSlots
<1>3. CASE HeartBeatNext
  <2>1. ASSUME NEW m \in appendReq, AppendMismatch(m)
        PROVE  SlotsKept(s)
    <3> PICK b : b = Truncate(binlog[m.to], m.prev - 1)  OBVIOUS
    <3>1. /\ m.to \in Server /\ m.prev \in Int /\ m.prev < binlog[m.to].len
          /\ binlog[m.to] \in BinLogs(Entry, Terms) /\ binlog[m.to].len \in Nat
      <4>1. m.to \in Server /\ m.prev \in Int
        BY DEF TypeOK, ReplicationTypeOK, AppendRequest
      <4>2. binlog[m.to] \in BinLogs(Entry, Terms) /\ binlog[m.to].len \in Nat
        BY <4>1 DEF TypeOK, LogTypeOK, BinLogs
      <4>3. ~(m.prev >= binlog[m.to].len)  BY <2>1 DEF AppendMismatch, PrevBeyond, GetLength
      <4> QED  BY <4>1, <4>2, <4>3
    <3>2. m.prev - 1 \in Int /\ m.prev - 1 < binlog[m.to].len  BY <3>1
    <3>3. b.slot = binlog[m.to].slot  BY <3>1, <3>2, EntryTerms, TruncateType
    <3>4. Len(b.slot) >= Len(binlog[m.to].slot)  BY <3>1, <3>3, LogLength
    <3>5. binlog' = [binlog EXCEPT ![m.to] = b]  BY <2>1 DEF AppendMismatch
    <3> QED  BY <3>1, <3>4, <3>5, WriteKeepsSlots
  <2>2. ASSUME \/ \E u \in Server : BroadCastHeartBeat(u)
               \/ \E m \in beatRes : HeartBeatCallBack(m)
               \/ \E m \in appendReq : AppendEntries(m) /\ ~AppendMismatch(m)
        PROVE  binlog' = binlog
    BY <2>2 DEF BroadCastHeartBeat, HeartBeatCallBack, AppendEntries, AppendStale,
       AppendHeartBeat, AppendBeyond, AppendTooFast, AppendAccept
  <2> QED  BY <1>3, <2>1, <2>2, SameKeepsSlots DEF HeartBeatNext
<1>4. CASE FollowerNext
  <2>1. ASSUME NEW u \in Server, NEW h \in appending[u], AppendWrite(u, h)
        PROVE  SlotsKept(s)
    <3> PICK b : b = WriteEntryList(binlog[u], h.req.entries)  OBVIOUS
    <3>1. h.req.entries \in Seq(Entry) /\ h.req.entries # << >>
      BY DEF TypeOK, ReplicationTypeOK, Appending, AppendRequest
    <3>2. Len(b.slot) >= Len(binlog[u].slot)
      BY <3>1, EntryTerms, WriteEntryListType DEF TypeOK, LogTypeOK
    <3>3. binlog' = [binlog EXCEPT ![u] = b]  BY <2>1 DEF AppendWrite
    <3> QED  BY <3>2, <3>3, WriteKeepsSlots
  <2>2. ASSUME NEW u \in Server, NEW h \in appending[u], AppendFinish(u, h)
        PROVE  binlog' = binlog
    BY <2>2 DEF AppendFinish
  <2> QED  BY <1>4, <2>1, <2>2, SameKeepsSlots DEF FollowerNext
<1>5. CASE ApplyNext
  <2>1. ASSUME NEW u \in Server, NEW r \in Request, NEW op \in ReqKinds, Submit(u, r, op)
        PROVE  SlotsKept(s)
    <3> PICK e : e = [term |-> currentTerm[u], op |-> op, req |-> r]  OBVIOUS
    <3>1. e \in Entry  BY DEF Entry, TypeOK, ElectionTypeOK
    <3>2. Len(WriteEntry(binlog[u], e).slot) >= Len(binlog[u].slot)
      BY <3>1, EntryTerms, WriteEntryType DEF TypeOK, LogTypeOK
    <3>3. binlog' = [binlog EXCEPT ![u] = WriteEntry(binlog[u], e)]  BY <2>1 DEF Submit
    <3> QED  BY <3>2, <3>3, WriteKeepsSlots
  <2>2. ASSUME NEW u \in Server, CommitBegin(u) \/ CommitStore(u) \/ CommitAck(u)
        PROVE  binlog' = binlog
    BY <2>2 DEF CommitBegin, CommitStore, CommitAck
  <2>3. \A u \in Server, r \in Request :
           Put(u, r) \/ Delete(u, r) \/ Lock(u, r) \/ UnLock(u, r)
              => \E op \in ReqKinds : Submit(u, r, op)
    BY DEF Put, Delete, Lock, UnLock, ReqKinds
  <2> QED  BY <1>5, <2>1, <2>2, <2>3, SameKeepsSlots DEF ApplyNext
<1>6. ASSUME NEW u \in Server, Crash(u)
      PROVE  SlotsKept(s)
  <2> PICK b : b = Reopen(binlog[u])  OBVIOUS
  <2>1. b.slot = binlog[u].slot  BY EntryTerms, ReopenType DEF TypeOK, LogTypeOK
  <2>2. Len(b.slot) >= Len(binlog[u].slot)  BY <2>1, LogLength
  <2>3. binlog' = [binlog EXCEPT ![u] = b]  BY <1>6 DEF Crash
  <2> QED  BY <2>2, <2>3, WriteKeepsSlots
<1>7. CASE UNCHANGED vars
  <2>1. binlog' = binlog  BY <1>7 DEF vars
  <2> QED  BY <2>1, SameKeepsSlots
<1> QED  BY <1>1, <1>2, <1>3, <1>4, <1>5, <1>6, <1>7 DEF Next

\* What the database of s is made of, and that those slots are stored.
StoreAt(s) == InStore(s) < Len(binlog[s].slot) /\ store[s] = Applied(s, InStore(s))
StoreInv == \A s \in Server : StoreAt(s)

LEMMA StoreInvShows ==
    ASSUME TypeOK, StoreInv
    PROVE  StoreIsLog
<1> SUFFICES ASSUME NEW s \in Server
             PROVE  \E n \in {lastApplied[s], lastApplied[s] + 1} :
                       n < Len(binlog[s].slot) /\ store[s] = Applied(s, n)
  BY DEF StoreIsLog
<1>1. StoreAt(s)  BY DEF StoreInv
<1>2. InStore(s) \in {lastApplied[s], lastApplied[s] + 1}  BY DEF InStore
<1> QED  BY <1>1, <1>2 DEF StoreAt

LEMMA InitStore == ASSUME Init PROVE StoreInv
<1> SUFFICES ASSUME NEW s \in Server PROVE StoreAt(s)  BY DEF StoreInv
<1>1. /\ binlog[s].slot = << >> /\ lastApplied[s] = -1 /\ applier[s].pc = "wait"
      /\ store[s] = EmptyDb
  BY DEF Init, NewBinLog, EmptyDb
<1>2. Applied(s, -1) = EmptyDb  BY DbStart DEF Applied
<1>3. InStore(s) = -1  BY <1>1, <1>2 DEF InStore
<1> QED  BY <1>1, <1>2, <1>3 DEF StoreAt

\* A step that leaves the database and the index alone, and keeps the slots
\* that are in it.
LEMMA StoreUntouched ==
    ASSUME TypeOK, NoBadSlot, NEW s \in Server, StoreAt(s), AppliedKept, SlotsKept(s),
           LogTypeOK', store'[s] = store[s], lastApplied'[s] = lastApplied[s],
           applier'[s].pc = "ack" => applier[s].pc = "ack"
    PROVE  StoreAt(s)'
<1> PICK la, i : la = lastApplied[s] /\ i = InStore(s)  OBVIOUS
<1> PICK old, new : old = binlog[s].slot /\ new = binlog'[s].slot  OBVIOUS
<1>1. la \in Int /\ la >= -1  BY DEF TypeOK, ApplyTypeOK, NoBadSlot, ApplyStored
<1>2. Len(old) \in Nat /\ Len(new) \in Nat /\ Len(new) >= Len(old)
  BY LogLength, LenProperties DEF LogTypeOK, BinLogs, SlotsKept
<1>3. /\ i = IF applier[s].pc = "ack" \/ store[s] # DbAfter(old, la) THEN la + 1 ELSE la
      /\ i < Len(old) /\ store[s] = DbAfter(old, i)
  BY DEF StoreAt, InStore, Applied
<1>4. i \in Int /\ la <= i /\ i >= -1  BY <1>1, <1>3
<1>5. \A j \in 1 .. i + 1 : new[j] = old[j]
  <2> TAKE j \in 1 .. i + 1
  <2>1. /\ j - 1 \in 0 .. Len(old) - 1 /\ j - 1 <= i /\ (j - 1) + 1 = j
    BY <1>2, <1>3, <1>4
  <2>2. ReadSlot(binlog'[s], j - 1) = ReadSlot(binlog[s], j - 1)
    BY <2>1 DEF AppliedKept, StoredSlots
  <2> QED  BY <2>1, <2>2 DEF ReadSlot
<1>6. DbAfter(new, i) = DbAfter(old, i)  BY <1>4, <1>5, DbSame
<1>7. DbAfter(new, la) = DbAfter(old, la)
  <2>1. \A j \in 1 .. la + 1 : j \in 1 .. i + 1  BY <1>1, <1>4
  <2> QED  BY <1>1, <1>5, <2>1, DbSame
<1> PICK k : k = InStore(s)'  OBVIOUS
<1>8. k = IF applier'[s].pc = "ack" \/ store[s] # DbAfter(new, la) THEN la + 1 ELSE la
  BY DEF InStore, Applied
<1>9. k < Len(new) /\ store[s] = DbAfter(new, k)
  <2>1. CASE applier'[s].pc = "ack" \/ store[s] # DbAfter(new, la)
    <3>1. k = la + 1 /\ i = la + 1  BY <1>3, <1>7, <1>8, <2>1
    <3> QED  BY <1>2, <1>3, <1>4, <1>6, <3>1
  <2>2. CASE ~(applier'[s].pc = "ack" \/ store[s] # DbAfter(new, la))
    <3>1. k = la /\ store[s] = DbAfter(new, la)  BY <1>8, <2>2
    <3>2. la < Len(new)
      <4>1. i < Len(old)  BY <1>3
      <4> QED  BY <1>1, <1>2, <1>4, <4>1
    <3> QED  BY <3>1, <3>2
  <2> QED  BY <2>1, <2>2
<1>10. store'[s] = DbAfter(binlog'[s].slot, InStore(s)') /\ InStore(s)' < Len(binlog'[s].slot)
  BY <1>9
<1> QED  BY <1>10 DEF StoreAt, Applied

\* CommitIndex applies the next slot, which may be in the database already.
LEMMA StoreApplied ==
    ASSUME NodeAssumption, TypeOK, NoBadSlot, NEW s \in Server, StoreAt(s), CommitStore(s)
    PROVE  StoreAt(s)'
<1> PICK la, slot : la = lastApplied[s] /\ slot = binlog[s].slot  OBVIOUS
<1> PICK e : e = slot[la + 2]  OBVIOUS
<1>1. /\ applier[s].pc = "apply" /\ applier'[s].pc = "ack"
      /\ lastApplied'[s] = la /\ binlog'[s].slot = slot
      /\ store'[s] = Effect(store[s], slot[(la + 1) + 1])
  BY DEF CommitStore, ReadSlot, TypeOK, ApplyTypeOK
<1>2. la \in Int /\ la >= -1 /\ la + 1 < Len(slot) /\ Len(slot) \in Nat /\ slot \in Seq(Entry)
  <2>1. /\ la \in Int /\ la >= -1 /\ applier[s].end \in Int
        /\ la < applier[s].end /\ applier[s].end < Len(slot)
    BY <1>1 DEF TypeOK, ApplyTypeOK, NoBadSlot, ApplyStored
  <2>2. Len(slot) \in Nat /\ slot \in Seq(Entry)  BY LogLength
  <2> QED  BY <2>1, <2>2
<1>3. la + 1 \in Nat /\ (la + 1) + 1 = la + 2 /\ (la + 1) - 1 = la /\ la + 2 \in 1 .. Len(slot)
      /\ la < Len(slot)
  BY <1>2
<1>4. e \in Entry  BY <1>2, <1>3, ElementOfSeq
<1>5. DbAfter(slot, la) \in [Key -> Value]  BY <1>2, <1>3, DbType
<1>6. DbAfter(slot, la + 1) = Effect(DbAfter(slot, la), e)  BY <1>3, DbNext
<1>7. store[s] = DbAfter(slot, la) \/ store[s] = DbAfter(slot, la + 1)
  BY DEF StoreAt, InStore, Applied
<1>8. Effect(store[s], e) = DbAfter(slot, la + 1)
  BY <1>4, <1>5, <1>6, <1>7, TwiceNoHarm
<1>9. InStore(s)' = la + 1  BY <1>1 DEF InStore
<1>10. store'[s] = DbAfter(binlog'[s].slot, InStore(s)') /\ InStore(s)' < Len(binlog'[s].slot)
  BY <1>1, <1>2, <1>3, <1>8, <1>9
<1> QED  BY <1>10 DEF StoreAt, Applied

\* The slot counts as applied.
LEMMA StoreCounted ==
    ASSUME TypeOK, NEW s \in Server, StoreAt(s), CommitAck(s)
    PROVE  StoreAt(s)'
<1> PICK la, slot : la = lastApplied[s] /\ slot = binlog[s].slot  OBVIOUS
<1>1. /\ applier[s].pc = "ack" /\ applier'[s].pc # "ack"
      /\ lastApplied'[s] = la + 1 /\ binlog'[s].slot = slot /\ store'[s] = store[s]
  BY DEF CommitAck, TypeOK, ApplyTypeOK
<1>2. la + 1 < Len(slot) /\ store[s] = DbAfter(slot, la + 1)
  BY <1>1 DEF StoreAt, InStore, Applied
<1>3. InStore(s)' = la + 1  BY <1>1, <1>2 DEF InStore, Applied
<1>4. store'[s] = DbAfter(binlog'[s].slot, InStore(s)') /\ InStore(s)' < Len(binlog'[s].slot)
  BY <1>1, <1>2, <1>3
<1> QED  BY <1>4 DEF StoreAt, Applied

\* Every other step leaves the database alone.
LEMMA StoreOnlyApplied ==
    ASSUME TypeOK, NEW s \in Server, [Next \/ \E u \in Server : Crash(u)]_vars,
           ~CommitStore(s), ~CommitAck(s)
    PROVE  /\ store'[s] = store[s] /\ lastApplied'[s] = lastApplied[s]
           /\ applier'[s].pc = "ack" => applier[s].pc = "ack"
<1>1. ASSUME UNCHANGED applyVars
      PROVE  /\ store'[s] = store[s] /\ lastApplied'[s] = lastApplied[s]
             /\ applier'[s].pc = "ack" => applier[s].pc = "ack"
  BY <1>1 DEF applyVars
<1>2. CASE ElectionNext \/ LeaderNext
  <2>1. UNCHANGED applyVars
    BY <1>2 DEF ElectionNext, VoteTimerHeard, VoteLeader, Vote, VoteCallBack, LeaderNext,
       ReplicateStop, ReplicateBuild, ReplicateSend, ReplicateAnswer, ReplicateFail
  <2> QED  BY <1>1, <2>1
<1>3. CASE HeartBeatNext \/ FollowerNext
  <2>1. UNCHANGED applyVars
    BY <1>3 DEF HeartBeatNext, BroadCastHeartBeat, HeartBeatCallBack, AppendEntries,
       FollowerNext, AppendWrite, AppendFinish
  <2> QED  BY <1>1, <2>1
<1>4. CASE ApplyNext
  <2>1. ASSUME NEW u \in Server, CommitBegin(u)
        PROVE  /\ store'[s] = store[s] /\ lastApplied'[s] = lastApplied[s]
               /\ applier'[s].pc = "ack" => applier[s].pc = "ack"
    BY <2>1 DEF CommitBegin, TypeOK, ApplyTypeOK
  <2>2. ASSUME NEW u \in Server, u # s, CommitStore(u) \/ CommitAck(u)
        PROVE  /\ store'[s] = store[s] /\ lastApplied'[s] = lastApplied[s]
               /\ applier'[s] = applier[s]
    BY <2>2 DEF CommitStore, CommitAck, TypeOK, ApplyTypeOK
  <2>3. ASSUME NEW u \in Server, NEW r \in Request,
               Put(u, r) \/ Delete(u, r) \/ Lock(u, r) \/ UnLock(u, r)
        PROVE  UNCHANGED applyVars
    BY <2>3 DEF Put, Delete, Lock, UnLock, Submit
  <2>4. CASE \E u \in Server : CommitBegin(u)  BY <2>1, <2>4
  <2>5. CASE \E u \in Server : CommitStore(u) \/ CommitAck(u)  BY <2>2, <2>5
  <2>6. CASE \E u \in Server, r \in Request : Put(u, r) \/ Delete(u, r) \/ Lock(u, r) \/ UnLock(u, r)
    BY <1>1, <2>3, <2>6
  <2> QED  BY <1>4, <2>4, <2>5, <2>6 DEF ApplyNext
<1>5. CASE \E u \in Server : Crash(u)
  BY <1>5 DEF Crash, RestoredIndex, TypeOK, ApplyTypeOK
<1>6. CASE UNCHANGED vars
  <2>1. UNCHANGED applyVars  BY <1>6 DEF vars
  <2> QED  BY <1>1, <2>1
<1> QED  BY <1>2, <1>3, <1>4, <1>5, <1>6 DEF Next

LEMMA StepStore ==
    ASSUME NodeAssumption, TypeOK, NoBadSlot, TypeOK', StoreInv,
           [Next \/ \E s \in Server : Crash(s)]_vars, [AppliedKept]_vars
    PROVE  StoreInv'
<1> SUFFICES ASSUME NEW s \in Server PROVE StoreAt(s)'  BY DEF StoreInv
<1>1. StoreAt(s)  BY DEF StoreInv
<1>2. CASE CommitStore(s)  BY <1>1, <1>2, StoreApplied
<1>3. CASE CommitAck(s)  BY <1>1, <1>3, StoreCounted
<1>4. CASE ~CommitStore(s) /\ ~CommitAck(s)
  <2>1. AppliedKept
    <3>1. CASE UNCHANGED vars
      <4>1. binlog' = binlog  BY <3>1 DEF vars
      <4> QED  BY <4>1 DEF AppliedKept
    <3> QED  BY <3>1
  <2>2. LogTypeOK' /\ SlotsKept(s)  BY StepKeepsSlots DEF TypeOK
  <2> QED  BY <1>1, <1>4, <2>1, <2>2, StoreOnlyApplied, StoreUntouched
<1> QED  BY <1>2, <1>3, <1>4

\* As long as no entry that is in a database is written over, every database is
\* what the log of its node makes it, whatever else happens and whenever nodes
\* are restarted: of all that can go wrong in this code, only the loss of an
\* applied slot parts a database from its log.
THEOREM StoreFollowsLog == CrashSpec /\ AppliedStays => []StoreIsLog
<1> DEFINE Inv == TypeOK /\ NoBadSlot
<1>1. Init => StoreInv  BY InitStore
<1>2. Inv /\ Inv' /\ StoreInv /\ [Next \/ \E s \in Server : Crash(s)]_vars /\ [AppliedKept]_vars
         => StoreInv'
  BY StepStore, NodeAssumption
<1>3. Inv /\ StoreInv => StoreIsLog  BY StoreInvShows
<1>4. CrashSpec => []Inv  BY CrashTypeAndSlots
<1> HIDE DEF Inv
<1> QED  BY <1>1, <1>2, <1>3, <1>4, PTL DEF CrashSpec, AppliedStays
=============================================================================

------------------------------ MODULE SdkProof ------------------------------
(***************************************************************************)
(* A client of a steady cluster reads what was written last, for any       *)
(* members, calls and keys, in whatever order late calls arrive.  Three    *)
(* orders meet: the calls of the client, the slots of the leader's log,    *)
(* and what of it is in the leader's database when an answer is given.     *)
(***************************************************************************)
EXTENDS Sdk, SteadyProof

USE DEF electionVars, leaderVars, applyVars, clientVars, voteNet, appendNet, boundVars

-----------------------------------------------------------------------------
\* What a database holds at a key.

\* It is of the last entry with a request of that key.
OfLastEntry(entries, n, k) ==
    LET v == DbAfter(entries, n)[k]
    IN  v # Nil => \E j \in 0 .. n :
            /\ entries[j + 1].req = v.req
            /\ \A i \in 0 .. n : entries[i + 1].req \in Request /\ ReqKey[entries[i + 1].req] = k
                                    => i <= j

\* One entry more.
LEMMA OneEntryMore ==
    ASSUME NodeAssumption, NEW n \in Nat, NEW entries, NEW k \in Key,
           DbAfter(entries, n - 1) \in [Key -> Value], entries[n + 1] \in Entry,
           OfLastEntry(entries, n - 1, k)
    PROVE  OfLastEntry(entries, n, k)
<1> PICK e : e = entries[n + 1]  OBVIOUS
<1> PICK d : d = DbAfter(entries, n - 1)  OBVIOUS
<1>1. DbAfter(entries, n) = Effect(d, e)  BY DbNext
<1>2. d \in [Key -> Value] /\ e \in Entry  OBVIOUS
<1>3. \A i \in 0 .. n : i = n \/ i \in 0 .. n - 1  OBVIOUS
<1>4. n \in 0 .. n /\ \A i \in 0 .. n - 1 : i \in 0 .. n /\ i <= n  OBVIOUS
<1>5. CASE e.req \in Request /\ ReqKey[e.req] = k
  <2>1. e.op \in ReqKinds  BY <1>2, <1>5 DEF Entry, NodeAssumption
  <2>2. CASE e.op \in {"Put", "Lock"}
    <3>1. Effect(d, e) = [d EXCEPT ![ReqKey[e.req]] = [op |-> e.op, req |-> e.req]]
      BY <2>2 DEF Effect
    <3>2. Effect(d, e)[k] = [op |-> e.op, req |-> e.req]  BY <1>2, <1>5, <3>1
    <3>3. DbAfter(entries, n)[k].req = e.req  BY <1>1, <3>2
    <3>4. \A i \in 0 .. n : i <= n  OBVIOUS
    <3> QED  BY <1>4, <3>3, <3>4 DEF OfLastEntry
  <2>3. CASE e.op \in {"Delete", "UnLock"}
    <3>1. Effect(d, e) = [d EXCEPT ![ReqKey[e.req]] = Nil]  BY <2>3 DEF Effect
    <3>2. Effect(d, e)[k] = Nil  BY <1>2, <1>5, <3>1
    <3> QED  BY <1>1, <3>2 DEF OfLastEntry
  <2> QED  BY <2>1, <2>2, <2>3 DEF ReqKinds
<1>6. CASE ~(e.req \in Request /\ ReqKey[e.req] = k)
  <2>1. Effect(d, e)[k] = d[k]
    <3>1. CASE e.op \in {"Put", "Lock"}
      <4>1. Effect(d, e) = [d EXCEPT ![ReqKey[e.req]] = [op |-> e.op, req |-> e.req]]
        BY <3>1 DEF Effect
      <4>2. e.req \in Request  BY <1>2, <3>1 DEF Entry
      <4> QED  BY <1>2, <1>6, <4>1, <4>2
    <3>2. CASE e.op \in {"Delete", "UnLock"}
      <4>1. Effect(d, e) = [d EXCEPT ![ReqKey[e.req]] = Nil]  BY <3>2 DEF Effect
      <4>2. e.req \in Request  BY <1>2, <3>2 DEF Entry
      <4> QED  BY <1>2, <1>6, <4>1, <4>2
    <3>3. CASE e.op \notin {"Put", "Lock"} /\ e.op \notin {"Delete", "UnLock"}
      BY <3>3 DEF Effect
    <3> QED  BY <3>1, <3>2, <3>3
  <2>2. DbAfter(entries, n)[k] = DbAfter(entries, n - 1)[k]  BY <1>1, <2>1
  <2> SUFFICES ASSUME DbAfter(entries, n)[k] # Nil
               PROVE  \E j \in 0 .. n :
                         /\ entries[j + 1].req = DbAfter(entries, n)[k].req
                         /\ \A i \in 0 .. n : entries[i + 1].req \in Request
                               /\ ReqKey[entries[i + 1].req] = k => i <= j
    BY DEF OfLastEntry
  <2>3. PICK j \in 0 .. n - 1 :
           /\ entries[j + 1].req = DbAfter(entries, n - 1)[k].req
           /\ \A i \in 0 .. n - 1 : entries[i + 1].req \in Request
                 /\ ReqKey[entries[i + 1].req] = k => i <= j
    BY <2>2 DEF OfLastEntry
  <2> QED  BY <1>3, <1>4, <1>6, <2>2, <2>3
<1> QED  BY <1>5, <1>6

LEMMA LastEntry ==
    ASSUME NodeAssumption, NEW n \in Int, n >= -1, NEW entries \in Seq(Entry), n < Len(entries),
           NEW k \in Key
    PROVE  OfLastEntry(entries, n, k)
<1> DEFINE T == {j \in 0 .. n + 1 : ~OfLastEntry(entries, j - 1, k)}
<1> SUFFICES ASSUME ~OfLastEntry(entries, n, k) PROVE FALSE  OBVIOUS
<1>1. n + 1 \in Nat /\ n + 1 \in T /\ T \subseteq 0 .. n + 1
  <2>1. n + 1 \in 0 .. n + 1 /\ (n + 1) - 1 = n  OBVIOUS
  <2> QED  BY <2>1
<1>2. PICK x \in T : \A y \in T : x <= y
  <2> HIDE DEF T
  <2> QED  BY <1>1, LeastOf
<1>3. x \in 0 .. n + 1 /\ ~OfLastEntry(entries, x - 1, k)  OBVIOUS
<1>4. x # 0
  <2>1. DbAfter(entries, -1)[k] = Nil  BY DbStart DEF EmptyDb
  <2>2. OfLastEntry(entries, -1, k)  BY <2>1 DEF OfLastEntry
  <2>3. x = 0 => x - 1 = -1  OBVIOUS
  <2> QED  BY <1>3, <2>2, <2>3
<1>5. x - 1 \in 0 .. n + 1 /\ x - 1 \in Nat /\ x \in 1 .. n + 1 /\ ~(x <= x - 1)
  BY <1>3, <1>4
<1>6. OfLastEntry(entries, (x - 1) - 1, k)
  <2>1. x - 1 \notin T
    <3> HIDE DEF T
    <3> QED  BY <1>2, <1>5
  <2> QED  BY <1>5, <2>1
<1>7. entries[(x - 1) + 1] \in Entry
  <2>1. Len(entries) \in Nat  BY LenProperties
  <2>2. x \in 1 .. Len(entries) /\ (x - 1) + 1 = x  BY <1>5, <2>1
  <2> QED  BY <2>2, ElementOfSeq
<1>8. DbAfter(entries, (x - 1) - 1) \in [Key -> Value]
  <2>1. (x - 1) - 1 \in Int /\ (x - 1) - 1 >= -1 /\ (x - 1) - 1 < Len(entries)
    <3>1. Len(entries) \in Nat  BY LenProperties
    <3> QED  BY <1>5, <3>1
  <2> HIDE DEF T
  <2> QED  BY <2>1, DbType
<1> HIDE DEF T
<1> QED  BY <1>3, <1>5, <1>6, <1>7, <1>8, OneEntryMore

-----------------------------------------------------------------------------
\* What the steps of the members and the client do to the calls.

\* reply is set where a call is taken and where it is answered.
LEMMA MemberSteps ==
    ASSUME MemberNext
    PROVE  UNCHANGED <<reply, sdkAck, lastApplied>> \/ \E s \in Server : CommitAck(s)
<1>1. CASE ElectionNext
  BY <1>1 DEF ElectionNext, VoteTimerHeard, VoteLeader, Vote, VoteByLeader, VoteRefused,
     VoteDecided, VoteCallBack, VoteCounted, VoteNewerTerm, VoteIgnored
<1>2. CASE LeaderNext
  <2>1. ASSUME NEW s \in Server, NEW f \in Server,
               ReplicateStop(s, f) \/ ReplicateBuild(s, f) \/ ReplicateSend(s, f)
        PROVE  UNCHANGED <<reply, sdkAck, lastApplied>>
    BY <2>1 DEF ReplicateStop, ReplicateBuild, ReplicateSend
  <2>2. ASSUME NEW s \in Server, NEW f \in Server, ReplicateAnswer(s, f) \/ ReplicateFail(s, f)
        PROVE  UNCHANGED <<reply, sdkAck, lastApplied>>
    BY <2>2 DEF ReplicateAnswer, ReplicateFail
  <2> QED  BY <1>2, <2>1, <2>2 DEF LeaderNext
<1>3. CASE HeartBeatNext
  BY <1>3 DEF HeartBeatNext, BroadCastHeartBeat, AppendEntries, AppendStale,
     AppendHeartBeat, AppendBeyond, AppendMismatch, AppendTooFast, AppendAccept,
     HeartBeatCallBack
<1>4. CASE FollowerNext  BY <1>4 DEF FollowerNext, AppendWrite, AppendFinish
<1>5. CASE \E s \in Server : CommitBegin(s) \/ CommitStore(s)
  BY <1>5 DEF CommitBegin, CommitStore
<1> QED  BY <1>1, <1>2, <1>3, <1>4, <1>5 DEF MemberNext

LEMMA HandleSubmits ==
    ASSUME NEW s, NEW r, Handle(s, r)
    PROVE  \E op \in ReqKinds : Submit(s, r, op)
BY DEF Handle, Put, Delete, Lock, UnLock, ReqKinds

\* A write of the client arrives at a member.
Taken(c, s) == Handle(s, Attempt[<<c, s>>])

\* The steps, by what they are to the members.
LEMMA SdkSteps ==
    ASSUME SdkAssumption, SdkTypeOK, CallsInv, SdkNext
    PROVE  \/ UNCHANGED vars
           \/ MemberNext /\ UNCHANGED sdkVars
           \/ /\ \E c \in WriteCall, s \in Server : Called(c) /\ Taken(c, s)
              /\ late' \subseteq late /\ UNCHANGED <<calling, at, result, value, before>>
<1>1. CASE \E c \in SdkCall : SdkBegin(c)  BY <1>1 DEF SdkBegin
<1>2. CASE SdkTaken
  <2>1. calling \in WriteCall /\ calling # Nil  BY <1>2 DEF SdkTaken, IsWrite, WriteCall, SdkAssumption
  <2>2. Member \in Server
    <3>1. at \in 1 .. Len(Members) /\ Members \in Seq(Server)
      BY <2>1 DEF SdkTypeOK, SdkAssumption
    <3> QED  BY <3>1, ElementOfSeq DEF Member
  <2>3. Taken(calling, Member)
    BY <1>2 DEF SdkTaken, Taken, Req
  <2>4. Called(calling)  BY DEF Called
  <2> QED  BY <1>2, <2>1, <2>2, <2>3, <2>4 DEF SdkTaken, sdkVars
<1>3. ASSUME NEW m \in late, SdkLate(m)
      PROVE  \/ UNCHANGED vars
             \/ /\ \E c \in WriteCall, s \in Server : Called(c) /\ Taken(c, s)
                /\ late' \subseteq late /\ UNCHANGED <<calling, at, result, value, before>>
  <2>1. PICK c \in WriteCall, s \in Server : m = <<s, Attempt[<<c, s>>]>>
    BY DEF SdkTypeOK
  <2>2. m[1] = s /\ m[2] = Attempt[<<c, s>>]  BY <2>1
  <2>3. Called(c)  BY <2>1 DEF CallsInv
  <2>4. CASE Handle(m[1], m[2])
    <3>1. Taken(c, s)  BY <2>2, <2>4 DEF Taken
    <3> QED  BY <1>3, <2>3, <3>1 DEF SdkLate
  <2> QED  BY <1>3, <2>4 DEF SdkLate
<1>4. CASE SdkAnswered \/ SdkRefused \/ Get \/ GetLocked \/ SdkTimeout
  BY <1>4 DEF SdkAnswered, SdkRefused, Get, GetLocked, SdkTimeout
<1> QED  BY <1>1, <1>2, <1>3, <1>4 DEF SdkNext

\* The client is one of the clients of Spec.
LEMMA ClusterSteps ==
    ASSUME SdkAssumption, SdkTypeOK, CallsInv, [SdkNext]_clusterVars
    PROVE  [Next]_vars
<1>1. CASE UNCHANGED clusterVars  BY <1>1 DEF clusterVars, vars
<1>2. CASE SdkNext
  <2>1. MemberNext => Next  BY DEF MemberNext, Next, ApplyNext
  <2>2. ASSUME NEW c \in WriteCall, NEW s \in Server, Taken(c, s)
        PROVE  Next
    <3>1. Attempt[<<c, s>>] \in Request  BY DEF SdkAssumption
    <3> QED  BY <2>2, <3>1 DEF Taken, Handle, Next, ApplyNext
  <2> QED  BY <1>2, <2>1, <2>2, SdkSteps
<1> QED  BY <1>1, <1>2

-----------------------------------------------------------------------------
\* The client's own state.

LEMMA InitSdk ==
    ASSUME SdkAssumption, SdkInit
    PROVE  SdkTypeOK /\ CallsInv
BY DEF SdkInit, Init, SdkTypeOK, CallsInv, Called, SdkAssumption, WriteCall

\* A step that moves on to the next member or returns "failed".
LEMMA MovesOn ==
    ASSUME SdkAssumption, SdkTypeOK, calling # Nil, NextMember
    PROVE  /\ calling' \in {calling, Nil}
           /\ calling' # Nil => at' \in 1 .. Len(Members) /\ result' = result
           /\ result' = result \/ result' = [result EXCEPT ![calling] = "failed"]
           /\ calling' = Nil => result' = [result EXCEPT ![calling] = "failed"]
<1>1. at \in 1 .. Len(Members) /\ Len(Members) \in Nat
  BY LenProperties DEF SdkTypeOK, SdkAssumption
<1>2. CASE at < Len(Members)
  <2>1. at + 1 \in 1 .. Len(Members)  BY <1>1, <1>2
  <2> QED  BY <1>2, <2>1 DEF NextMember
<1>3. CASE ~(at < Len(Members))  BY <1>3 DEF NextMember, Return
<1> QED  BY <1>2, <1>3

LEMMA MemberIs ==
    ASSUME SdkAssumption, SdkTypeOK, calling # Nil
    PROVE  Member \in Server
<1>1. at \in 1 .. Len(Members) /\ Members \in Seq(Server)
  BY DEF SdkTypeOK, SdkAssumption
<1> QED  BY <1>1, ElementOfSeq DEF Member

LEMMA StepSdkType ==
    ASSUME NodeAssumption, SdkAssumption, TypeOK, SdkTypeOK, SdkNext
    PROVE  SdkTypeOK'
<1>1. ASSUME NEW c \in SdkCall, SdkBegin(c)
      PROVE  SdkTypeOK'
  <2>1. 1 \in 1 .. Len(Members)
    <3>1. Len(Members) \in Nat /\ Len(Members) # 0  BY LenProperties, EmptySeq DEF SdkAssumption
    <3> QED  BY <3>1
  <2>2. before' \in [SdkCall -> [taken: SUBSET Request, ok: SUBSET SdkCall]]
    BY <1>1 DEF SdkBegin, SdkTypeOK
  <2> QED  BY <1>1, <2>1, <2>2 DEF SdkBegin, SdkTypeOK
<1>2. CASE SdkTaken  BY <1>2 DEF SdkTaken, sdkVars, SdkTypeOK
<1>3. CASE SdkAnswered  BY <1>3 DEF SdkAnswered, Return, SdkTypeOK
<1>4. CASE SdkRefused \/ GetLocked
  <2>1. calling # Nil /\ NextMember /\ UNCHANGED <<late, value, before>>
    BY <1>4 DEF SdkRefused, GetLocked, IsGet
  <2> QED  BY <2>1, MovesOn DEF SdkTypeOK
<1>5. CASE SdkTimeout
  <2>1. calling # Nil /\ NextMember /\ UNCHANGED <<value, before>>  BY <1>5 DEF SdkTimeout
  <2>2. late' = late \/ (calling \in WriteCall /\ late' = late \cup {<<Member, Req>>})
    BY <1>5 DEF SdkTimeout, IsWrite
  <2>3. Req = Attempt[<<calling, Member>>] /\ Member \in Server
    BY <2>1, MemberIs DEF Req
  <2>4. \A m \in late' : \E c \in WriteCall, s \in Server : m = <<s, Attempt[<<c, s>>]>>
    <3>1. \A m \in late : \E c \in WriteCall, s \in Server : m = <<s, Attempt[<<c, s>>]>>
      BY DEF SdkTypeOK
    <3>2. \A m \in late' : m \in late \/ (calling \in WriteCall /\ m = <<Member, Req>>)
      BY <2>2
    <3>3. ASSUME NEW m \in late'
          PROVE  \E c \in WriteCall, s \in Server : m = <<s, Attempt[<<c, s>>]>>
      <4>1. CASE m \in late  BY <3>1, <4>1
      <4>2. CASE calling \in WriteCall /\ m = <<Member, Req>>
        <5>1. m = <<Member, Attempt[<<calling, Member>>]>>  BY <2>3, <4>2
        <5> QED  BY <2>3, <4>2, <5>1
      <4> QED  BY <3>2, <4>1, <4>2
    <3> QED  BY <3>3
  <2> QED  BY <2>1, <2>4, MovesOn DEF SdkTypeOK
<1>6. CASE Get
  <2>1. calling # Nil  BY <1>6 DEF Get, IsGet
  <2>2. calling \in SdkCall /\ Member \in Server  BY <2>1, MemberIs DEF SdkTypeOK
  <2>3. store[Member][SdkKey[calling]] \in Value
    BY <2>2 DEF SdkAssumption, TypeOK, ApplyTypeOK
  <2>4. value' \in [SdkCall -> Request \cup {Nil}]
    BY <1>6, <2>2, <2>3 DEF Get, Value, SdkTypeOK
  <2> QED  BY <1>6, <2>4 DEF Get, Return, SdkTypeOK
<1>7. ASSUME NEW m \in late, SdkLate(m)
      PROVE  SdkTypeOK'
  BY <1>7 DEF SdkLate, SdkTypeOK
<1>8. CASE UNCHANGED sdkVars  BY <1>8 DEF sdkVars, SdkTypeOK
<1> QED  BY <1>1, <1>2, <1>3, <1>4, <1>5, <1>6, <1>7, <1>8 DEF SdkNext

\* A reply only moves from idle to sent to ok, and only what was taken is noted
\* or answered.
Noted == \A s \in Server : \A a \in sdkAck[s] : reply[a.done] # "idle"
LEMMA RepliesMove ==
    ASSUME NodeAssumption, SdkAssumption, TypeOK, SdkTypeOK, CallsInv, SdkNext
    PROVE  /\ Noted'
           /\ \A r \in Request : /\ reply[r] # "idle" => reply'[r] # "idle"
                                 /\ reply[r] = "ok" => reply'[r] = "ok"
                                 /\ reply[r] = "idle" /\ reply'[r] # "idle" =>
                                       \E c \in WriteCall, s \in Server :
                                           Called(c) /\ r = Attempt[<<c, s>>]
<1>0. /\ Noted  /\ reply \in [Request -> {"idle", "sent", "ok"}]
      /\ sdkAck \in [Server -> SUBSET Ack]
  BY DEF CallsInv, Noted, TypeOK, ApplyTypeOK
<1>1. CASE UNCHANGED <<reply, sdkAck, lastApplied>>  BY <1>0, <1>1 DEF Noted
<1>2. ASSUME NEW s \in Server, CommitAck(s)
      PROVE  /\ Noted'
             /\ \A r \in Request : /\ reply[r] # "idle" => reply'[r] # "idle"
                                   /\ reply[r] = "ok" => reply'[r] = "ok"
                                   /\ reply[r] = "idle" => reply'[r] = "idle"
  <2>1. CASE UNCHANGED clientVars  BY <1>0, <2>1 DEF Noted
  <2>2. CASE ~UNCHANGED clientVars
    <3> PICK acks : acks = AcksAt(s, lastApplied[s] + 1)  OBVIOUS
    <3>1. acks \subseteq sdkAck[s]  BY DEF AcksAt
    <3>2. /\ reply' = [r \in Request |-> IF \E a \in acks : a.done = r THEN "ok" ELSE reply[r]]
          /\ sdkAck' = [sdkAck EXCEPT ![s] = @ \ acks]
      BY <1>2, <2>2 DEF CommitAck
    <3>3. \A r \in Request : reply'[r] = IF \E a \in acks : a.done = r THEN "ok" ELSE reply[r]
      BY <3>2
    <3>4. \A u \in Server : sdkAck'[u] \subseteq sdkAck[u]  BY <1>0, <3>2
    <3>5. \A u \in Server : \A a \in sdkAck[u] : a.done \in Request /\ reply[a.done] # "idle"
      BY <1>0 DEF Noted, Ack
    <3>6. Noted'  BY <3>3, <3>4, <3>5 DEF Noted
    <3>7. \A r \in Request : reply[r] = "idle" => ~\E a \in acks : a.done = r  BY <3>1, <3>5
    <3> QED  BY <3>3, <3>6, <3>7
  <2> QED  BY <2>1, <2>2
<1>3. ASSUME NEW c \in WriteCall, NEW s \in Server, Called(c), Taken(c, s)
      PROVE  /\ Noted'
             /\ \A r \in Request : /\ reply[r] # "idle" => reply'[r] # "idle"
                                   /\ reply[r] = "ok" => reply'[r] = "ok"
                                   /\ reply[r] = "idle" /\ reply'[r] # "idle"
                                        => r = Attempt[<<c, s>>]
  <2> PICK q : q = Attempt[<<c, s>>]  OBVIOUS
  <2>1. q \in Request  BY DEF SdkAssumption
  <2>2. PICK op \in ReqKinds : Submit(s, q, op)  BY <1>3, HandleSubmits DEF Taken
  <2>3. reply[q] = "idle" /\ reply' = [reply EXCEPT ![q] = "sent"]  BY <2>2 DEF Submit
  <2>4. \A r \in Request : reply'[r] = IF r = q THEN "sent" ELSE reply[r]
    BY <1>0, <2>3
  <2>5. \A u \in Server : \A a \in sdkAck'[u] : a \in sdkAck[u] \/ a.done = q
    BY <1>0, <2>2 DEF Submit
  <2>6. \A u \in Server : \A a \in sdkAck[u] : a.done \in Request /\ reply[a.done] # "idle"
    BY <1>0 DEF Noted, Ack
  <2>7. ASSUME NEW u \in Server, NEW a \in sdkAck'[u]
        PROVE  reply'[a.done] # "idle"
    <3>1. CASE a.done = q  BY <2>1, <2>4, <3>1
    <3>2. CASE a.done # q /\ a \in sdkAck[u]  BY <2>4, <2>6, <3>2
    <3> QED  BY <2>5, <3>1, <3>2
  <2>8. Noted'  BY <2>7 DEF Noted
  <2> QED  BY <2>1, <2>3, <2>4, <2>8
<1>4. CASE UNCHANGED vars  BY <1>1, <1>4 DEF vars
<1>5. CASE MemberNext
  <2>1. CASE UNCHANGED <<reply, sdkAck, lastApplied>>  BY <1>1, <2>1
  <2>2. ASSUME NEW s \in Server, CommitAck(s)
        PROVE  /\ Noted'
               /\ \A r \in Request : /\ reply[r] # "idle" => reply'[r] # "idle"
                                     /\ reply[r] = "ok" => reply'[r] = "ok"
                                     /\ ~(reply[r] = "idle" /\ reply'[r] # "idle")
    BY <1>2, <2>2
  <2> QED  BY <1>5, <2>1, <2>2, MemberSteps
<1>6. ASSUME NEW c \in WriteCall, NEW s \in Server, Called(c), Taken(c, s)
      PROVE  /\ Noted'
             /\ \A r \in Request : /\ reply[r] # "idle" => reply'[r] # "idle"
                                   /\ reply[r] = "ok" => reply'[r] = "ok"
                                   /\ reply[r] = "idle" /\ reply'[r] # "idle" =>
                                         \E d \in WriteCall, u \in Server :
                                             Called(d) /\ r = Attempt[<<d, u>>]
  <2>1. /\ Noted'
        /\ \A r \in Request : /\ reply[r] # "idle" => reply'[r] # "idle"
                              /\ reply[r] = "ok" => reply'[r] = "ok"
                              /\ reply[r] = "idle" /\ reply'[r] # "idle"
                                   => r = Attempt[<<c, s>>]
    BY <1>3, <1>6
  <2>2. ASSUME NEW r \in Request, reply[r] = "idle", reply'[r] # "idle"
        PROVE  \E d \in WriteCall, u \in Server : Called(d) /\ r = Attempt[<<d, u>>]
    <3>1. r = Attempt[<<c, s>>]  BY <2>1, <2>2
    <3> QED  BY <1>6, <3>1
  <2> QED  BY <2>1, <2>2
<1> QED  BY <1>4, <1>5, <1>6, SdkSteps

\* What a step of the client's own does: before is written when a call begins,
\* result and value when it returns.
LEMMA ClientSteps ==
    ASSUME SdkAssumption, SdkTypeOK, CallsInv, SdkNext
    PROVE  /\ before' = before \/ \E c \in SdkCall :
                 /\ calling = Nil /\ result[c] = "none" /\ UNCHANGED <<vars, late, result, value>>
                 /\ calling' = c
                 /\ before' = [before EXCEPT ![c] = [taken |-> {r \in Request : reply[r] # "idle"},
                                                     ok    |-> {d \in SdkCall : result[d] = "ok"}]]
           /\ result' = result \/ /\ calling \in SdkCall /\ calling' = Nil /\ UNCHANGED vars
                                  /\ before' = before
                                  /\ \E res \in {"ok", "failed"} :
                                        result' = [result EXCEPT ![calling] = res]
           /\ calling' = calling \/ calling' = Nil \/ calling = Nil
           /\ calling' = Nil /\ calling # Nil =>
                \E res \in {"ok", "failed"} : result' = [result EXCEPT ![calling] = res]
<1>0. calling # Nil => calling \in SdkCall  BY DEF SdkTypeOK
<1>1. ASSUME NEW c \in SdkCall, SdkBegin(c)
      PROVE  /\ calling = Nil /\ result[c] = "none" /\ UNCHANGED <<vars, late, result, value>>
             /\ calling' = c
             /\ before' = [before EXCEPT ![c] = [taken |-> {r \in Request : reply[r] # "idle"},
                                                 ok    |-> {d \in SdkCall : result[d] = "ok"}]]
  BY <1>1 DEF SdkBegin
<1>2. CASE SdkTaken  BY <1>2 DEF SdkTaken, sdkVars
<1>3. CASE SdkAnswered \/ Get
  <2>1. calling # Nil
    BY <1>3 DEF SdkAnswered, Get, IsGet, IsWrite, SdkAssumption, WriteCall
  <2> QED  BY <1>0, <1>3, <2>1 DEF SdkAnswered, Get, Return
<1>4. CASE SdkRefused \/ GetLocked \/ SdkTimeout
  <2>1. calling # Nil /\ NextMember /\ UNCHANGED <<vars, value, before>>
    BY <1>4 DEF SdkRefused, GetLocked, SdkTimeout, IsGet
  <2> QED  BY <1>0, <2>1, MovesOn
<1>5. ASSUME NEW m \in late, SdkLate(m)
      PROVE  UNCHANGED <<calling, result, before>>
  BY <1>5 DEF SdkLate
<1>6. CASE UNCHANGED sdkVars  BY <1>6 DEF sdkVars
<1> QED  BY <1>1, <1>2, <1>3, <1>4, <1>5, <1>6 DEF SdkNext

\* What is late was given up, and what returned 0 was answered.
LEMMA ReturnSteps ==
    ASSUME SdkAssumption, SdkTypeOK, CallsInv, SdkNext
    PROVE  /\ \A m \in late' : m \in late \/ /\ calling \in WriteCall /\ Member \in Server
                                             /\ m = <<Member, Attempt[<<calling, Member>>]>>
                                             /\ calling' = calling \/ calling' = Nil
           /\ \A c \in SdkCall : result'[c] = "ok" /\ result[c] # "ok" =>
                /\ c = calling /\ UNCHANGED <<vars, before>>
                /\ \/ /\ c \in WriteCall
                      /\ \E s \in Server : reply[Attempt[<<c, s>>]] = "ok"
                   \/ c \notin WriteCall /\ Get
<1>0. result \in [SdkCall -> {"none", "ok", "failed"}]  BY DEF SdkTypeOK
<1>1. CASE \E c \in SdkCall : SdkBegin(c)  BY <1>1 DEF SdkBegin
<1>2. CASE SdkTaken \/ UNCHANGED sdkVars  BY <1>2 DEF SdkTaken, sdkVars
<1>3. CASE SdkAnswered
  <2>1. calling \in WriteCall /\ calling # Nil
    BY <1>3 DEF SdkAnswered, IsWrite, SdkAssumption, WriteCall
  <2>2. Member \in Server  BY <2>1, MemberIs
  <2>3. reply[Attempt[<<calling, Member>>]] = "ok"  BY <1>3 DEF SdkAnswered, Req
  <2> QED  BY <1>0, <1>3, <2>1, <2>2, <2>3 DEF SdkAnswered, Return
<1>4. CASE Get
  <2>1. calling \notin WriteCall  BY <1>4 DEF Get, IsGet
  <2> QED  BY <1>0, <1>4, <2>1 DEF Get, Return
<1>5. CASE SdkRefused \/ GetLocked
  <2>1. calling # Nil /\ NextMember /\ late' = late
    BY <1>5 DEF SdkRefused, GetLocked, IsGet
  <2>2. result' = result \/ result' = [result EXCEPT ![calling] = "failed"]  BY <2>1, MovesOn
  <2> QED  BY <1>0, <2>1, <2>2
<1>6. CASE SdkTimeout
  <2>1. calling # Nil /\ NextMember  BY <1>6 DEF SdkTimeout
  <2>2. /\ result' = result \/ result' = [result EXCEPT ![calling] = "failed"]
        /\ calling' \in {calling, Nil} /\ Member \in Server
    BY <2>1, MovesOn, MemberIs
  <2>3. late' = late \/ (calling \in WriteCall /\ late' = late \cup {<<Member, Req>>})
    BY <1>6 DEF SdkTimeout, IsWrite
  <2>4. ASSUME NEW m \in late', m \notin late
        PROVE  calling \in WriteCall /\ m = <<Member, Attempt[<<calling, Member>>]>>
    BY <2>3, <2>4 DEF Req
  <2> QED  BY <1>0, <2>2, <2>4
<1>7. ASSUME NEW m \in late, SdkLate(m)
      PROVE  late' \subseteq late /\ result' = result
  BY <1>7 DEF SdkLate
<1> QED  BY <1>1, <1>2, <1>3, <1>4, <1>5, <1>6, <1>7 DEF SdkNext

LEMMA StepCalls ==
    ASSUME NodeAssumption, SdkAssumption, TypeOK, SdkTypeOK, CallsInv, SdkNext
    PROVE  CallsInv'
<1>0. /\ result \in [SdkCall -> {"none", "ok", "failed"}] /\ WriteCall \subseteq SdkCall
      /\ before \in [SdkCall -> [taken: SUBSET Request, ok: SUBSET SdkCall]]
      /\ Nil \notin SdkCall /\ calling \in SdkCall \cup {Nil}
  BY DEF SdkTypeOK, SdkAssumption, WriteCall
<1>1. calling' # Nil => result'[calling'] = "none"
  <2>1. calling # Nil => result[calling] = "none"  BY DEF CallsInv
  <2>2. CASE calling' = calling
    <3>1. result' = result  BY <1>0, <2>2, ClientSteps
    <3> QED  BY <2>1, <2>2, <3>1
  <2>3. CASE calling' # calling /\ calling' # Nil
    <3>1. calling = Nil  BY <2>3, ClientSteps
    <3>2. \E c \in SdkCall : calling' = c /\ result[c] = "none" /\ result' = result
      BY <2>3, <3>1 DEF SdkNext, SdkBegin, SdkTaken, IsWrite, WriteCall, SdkAssumption,
         SdkAnswered, SdkRefused, Get, IsGet, GetLocked, SdkTimeout, SdkLate, sdkVars
    <3> QED  BY <3>2
  <2> QED  BY <2>2, <2>3
<1>2. \A c \in SdkCall : /\ Called(c) => Called(c)'
                         /\ result[c] # "none" => result'[c] = result[c]
  <2> TAKE c \in SdkCall
  <2>1. result[c] # "none" => c # calling  BY DEF CallsInv
  <2>2. result[c] # "none" => result'[c] = result[c]  BY <1>0, <2>1, ClientSteps
  <2>3. calling = c => Called(c)'
    <3> SUFFICES ASSUME calling = c PROVE calling' = c \/ result'[c] # "none"  BY DEF Called
    <3> QED  BY <1>0, ClientSteps
  <2> QED  BY <2>2, <2>3 DEF Called
<1>3. ASSUME NEW c \in WriteCall, ~Called(c)', NEW s \in Server
      PROVE  reply'[Attempt[<<c, s>>]] = "idle" /\ <<s, Attempt[<<c, s>>]>> \notin late'
  <2>1. ~Called(c)  BY <1>0, <1>2, <1>3
  <2>2. reply[Attempt[<<c, s>>]] = "idle" /\ <<s, Attempt[<<c, s>>]>> \notin late
    BY <2>1 DEF CallsInv
  <2>3. \A d \in WriteCall, u \in Server :
           Attempt[<<d, u>>] = Attempt[<<c, s>>] => <<d, u>> = <<c, s>>
    BY DEF SdkAssumption
  <2>4. Attempt[<<c, s>>] \in Request  BY DEF SdkAssumption
  <2>5. reply'[Attempt[<<c, s>>]] = "idle"
    <3> SUFFICES ASSUME reply'[Attempt[<<c, s>>]] # "idle" PROVE FALSE  OBVIOUS
    <3>1. PICK d \in WriteCall, u \in Server : Called(d) /\ Attempt[<<c, s>>] = Attempt[<<d, u>>]
      BY <2>2, <2>4, RepliesMove
    <3> QED  BY <2>1, <2>3, <3>1
  <2>6. <<s, Attempt[<<c, s>>]>> \notin late'
    <3> SUFFICES ASSUME <<s, Attempt[<<c, s>>]>> \in late' PROVE FALSE  OBVIOUS
    <3>1. calling \in WriteCall /\ Member \in Server
          /\ <<s, Attempt[<<c, s>>]>> = <<Member, Attempt[<<calling, Member>>]>>
      BY <2>2, ReturnSteps
    <3>2. Attempt[<<calling, Member>>] = Attempt[<<c, s>>]  BY <3>1
    <3>3. calling = c  BY <2>3, <3>1, <3>2
    <3> QED  BY <2>1, <3>3 DEF Called
  <2> QED  BY <2>5, <2>6
<1>4. ASSUME NEW c \in WriteCall, result'[c] = "ok"
      PROVE  \E s \in Server : reply'[Attempt[<<c, s>>]] = "ok"
  <2>1. \E s \in Server : reply[Attempt[<<c, s>>]] = "ok"
    <3>1. CASE result[c] = "ok"  BY <3>1 DEF CallsInv
    <3>2. CASE result[c] # "ok"  BY <1>0, <1>4, <3>2, ReturnSteps
    <3> QED  BY <3>1, <3>2
  <2>2. PICK s \in Server : reply[Attempt[<<c, s>>]] = "ok"  BY <2>1
  <2>3. Attempt[<<c, s>>] \in Request  BY DEF SdkAssumption
  <2> QED  BY <2>2, <2>3, RepliesMove
<1>5. ASSUME NEW c \in SdkCall
      PROVE  /\ \A r \in before'[c].taken : reply'[r] # "idle"
             /\ \A d \in before'[c].ok : result'[d] = "ok"
  <2>1. /\ \A r \in before'[c].taken : r \in Request /\ reply[r] # "idle"
        /\ \A d \in before'[c].ok : d \in SdkCall /\ result[d] = "ok"
    <3>1. /\ \A r \in before[c].taken : r \in Request /\ reply[r] # "idle"
          /\ \A d \in before[c].ok : d \in SdkCall /\ result[d] = "ok"
      BY <1>0 DEF CallsInv
    <3>2. \/ before'[c] = before[c]
          \/ before'[c] = [taken |-> {r \in Request : reply[r] # "idle"},
                           ok    |-> {d \in SdkCall : result[d] = "ok"}]
      BY <1>0, ClientSteps
    <3> QED  BY <3>1, <3>2
  <2>2. \A r \in Request : reply[r] # "idle" => reply'[r] # "idle"  BY RepliesMove
  <2> QED  BY <1>2, <2>1, <2>2
<1>6. Noted'  BY RepliesMove
<1> QED  BY <1>1, <1>3, <1>4, <1>5, <1>6 DEF CallsInv, Noted

\* A cluster with such a client is one of AirDB, and the client's calls are as
\* CallsInv has it, steady or not.
THEOREM SdkImplements == SdkSpec => Spec /\ [](SdkTypeOK /\ CallsInv)
<1> DEFINE Inv == TypeOK /\ NoBadSlot /\ SdkTypeOK /\ CallsInv
<1>1. SdkInit => Init /\ Inv
  BY InitSdk, InitType, NodeAssumption, SdkAssumption DEF SdkInit
<1>2. Inv /\ [SdkNext]_clusterVars => [Next]_vars /\ Inv'
  <2> SUFFICES ASSUME Inv, [SdkNext]_clusterVars PROVE [Next]_vars /\ Inv'  OBVIOUS
  <2>1. [Next]_vars  BY ClusterSteps, SdkAssumption
  <2>2. TypeOK' /\ NoBadSlot'  BY <2>1, StepType, NodeAssumption
  <2>3. CASE SdkNext
    <3>1. SdkTypeOK'  BY <2>3, StepSdkType, NodeAssumption, SdkAssumption
    <3>2. CallsInv'  BY <2>3, StepCalls, NodeAssumption, SdkAssumption
    <3> QED  BY <2>1, <2>2, <3>1, <3>2
  <2>4. CASE UNCHANGED clusterVars
    BY <2>1, <2>2, <2>4 DEF clusterVars, vars, sdkVars, SdkTypeOK, CallsInv, Called
  <2> QED  BY <2>1, <2>2, <2>3, <2>4
<1> HIDE DEF Inv
<1>3. SdkSpec => []Inv /\ [][Next]_vars  BY <1>1, <1>2, PTL DEF SdkSpec
<1>4. Inv => SdkTypeOK /\ CallsInv  BY DEF Inv
<1> QED  BY <1>1, <1>3, <1>4, PTL DEF SdkSpec, Spec

-----------------------------------------------------------------------------
\* The leader.

\* In a steady cluster no write was taken, or there is a leader whose log holds
\* all that were.
LEMMA LeaderOrNothing ==
    ASSUME SteadyInv, Steady
    PROVE  \/ \A r \in Request : reply[r] = "idle"
           \/ \E l \in Server, t \in Terms : Wins(l, t) /\ LeadInv(l, t)
BY DEF SteadyInv, NothingYet

\* A step of a steady cluster: before the election is won and on it no write is
\* taken; then the winner stays the leader of LeadInv.
LEMMA LeadSteps ==
    ASSUME NodeAssumption, TypeOK, NoBadSlot, ElectionInv, SteadyInv, TypeOK', Steady',
           [Next]_vars
    PROVE  \/ \A r \in Request : reply'[r] = "idle"
           \/ \E l \in Server, t \in Terms : Lead(l, t) /\ Wins(l, t)' /\ LeadInv(l, t)'
<1>1. Steady /\ \A s \in Server : \A t \in Terms : Wins(s, t) => Wins(s, t)'
  BY SteadyBefore
<1>2. CASE NothingYet
  <2>1. \A r \in Request : reply[r] = "idle"  BY <1>2 DEF NothingYet
  <2>2. reply' = reply
    <3>1. CASE ElectionNext
      BY <3>1 DEF ElectionNext, VoteTimerHeard, VoteLeader, Vote, VoteByLeader, VoteRefused,
         VoteDecided, VoteCallBack, VoteCounted, VoteNewerTerm, VoteIgnored
    <3>2. CASE LeaderNext
      BY <3>2 DEF LeaderNext, ReplicateStop, ReplicateBuild, ReplicateSend, ReplicateAnswer,
         ReplicateFail
    <3>3. CASE HeartBeatNext
      BY <3>3 DEF HeartBeatNext, BroadCastHeartBeat, AppendEntries, AppendStale,
         AppendHeartBeat, AppendBeyond, AppendMismatch, AppendTooFast, AppendAccept,
         HeartBeatCallBack
    <3>4. CASE FollowerNext  BY <3>4 DEF FollowerNext, AppendWrite, AppendFinish
    <3>5. CASE ApplyNext
      <4>1. ASSUME NEW s \in Server
            PROVE  status[s] # "Leader" /\ applier[s].pc = "wait"
        BY <1>2 DEF NothingYet
      <4>2. ASSUME NEW s \in Server, NEW r \in Request
            PROVE  ~(Put(s, r) \/ Delete(s, r) \/ Lock(s, r) \/ UnLock(s, r))
        BY <4>1 DEF Put, Delete, Lock, UnLock, Submit
      <4>3. ASSUME NEW s \in Server, CommitBegin(s) \/ CommitStore(s) \/ CommitAck(s)
            PROVE  reply' = reply
        BY <4>1, <4>3 DEF CommitBegin, CommitStore, CommitAck
      <4> QED  BY <3>5, <4>2, <4>3 DEF ApplyNext
    <3>6. CASE UNCHANGED vars  BY <3>6 DEF vars
    <3> QED  BY <3>1, <3>2, <3>3, <3>4, <3>5, <3>6 DEF Next
  <2> QED  BY <2>1, <2>2
<1>3. ASSUME NEW l \in Server, NEW t \in Terms, Wins(l, t), LeadInv(l, t)
      PROVE  Lead(l, t) /\ Wins(l, t)' /\ LeadInv(l, t)'
  <2>1. Lead(l, t) /\ Wins(l, t)'  BY <1>1, <1>3 DEF Lead, SteadyInv
  <2> QED  BY <2>1, StepLead
<1> QED  BY <1>1, <1>2, <1>3 DEF SteadyInv

\* The writes in a log were taken.
LEMMA TakenSlots ==
    ASSUME NodeAssumption, TypeOK, NEW l \in Server, NEW t \in Terms, LeadInv(l, t),
           NEW s \in Server, NEW i \in 1 .. binlog[s].len, binlog[s].slot[i].req \in Request
    PROVE  /\ i \in 1 .. binlog[l].len /\ binlog[s].slot[i] = binlog[l].slot[i]
           /\ reply[binlog[s].slot[i].req] # "idle"
<1>1. binlog[s].len \in Nat /\ binlog[l].len \in Nat  BY NodeNumbers
<1>2. /\ binlog[s].len <= binlog[l].len /\ binlog[s].slot[i] = binlog[l].slot[i]
  BY DEF LeadInv, LogsOfLeader
<1>3. i \in 1 .. binlog[l].len  BY <1>1, <1>2
<1>4. binlog[l].slot[i].req # Nil  BY <1>2 DEF NodeAssumption
<1>5. reply[binlog[l].slot[i].req] # "idle"  BY <1>3, <1>4 DEF LeadInv, RequestsOfLeader
<1> QED  BY <1>2, <1>3, <1>5

-----------------------------------------------------------------------------
\* The calls of the client and the slots of the log.

\* Ordered, for the leader's log: all other logs are prefixes of it.
OrderedAt(l) ==
    \A w \in WriteCall, u \in Server : \A r \in before[w].taken :
        \A i, j \in 1 .. binlog[l].len :
            binlog[l].slot[i].req = Attempt[<<w, u>>] /\ binlog[l].slot[j].req = r => j < i

LEMMA LeaderOrders ==
    ASSUME TypeOK', NEW l \in Server, NEW t \in Terms, LeadInv(l, t)', OrderedAt(l)'
    PROVE  Ordered'
<1>1. ASSUME NEW s \in Server, NEW i \in 1 .. binlog'[s].len
      PROVE  i \in 1 .. binlog'[l].len /\ binlog'[s].slot[i] = binlog'[l].slot[i]
  <2>1. binlog'[s].len \in Nat /\ binlog'[l].len \in Nat  BY DEF TypeOK, LogTypeOK, BinLogs
  <2>2. binlog'[s].len <= binlog'[l].len /\ binlog'[s].slot[i] = binlog'[l].slot[i]
    BY DEF LeadInv, LogsOfLeader
  <2> QED  BY <2>1, <2>2
<1>2. ASSUME NEW w \in WriteCall, NEW u \in Server, NEW r \in before'[w].taken,
             NEW s \in Server, NEW i \in 1 .. binlog'[s].len, NEW j \in 1 .. binlog'[s].len,
             binlog'[s].slot[i].req = Attempt[<<w, u>>], binlog'[s].slot[j].req = r
      PROVE  j < i
  <2>1. /\ i \in 1 .. binlog'[l].len /\ binlog'[s].slot[i] = binlog'[l].slot[i]
        /\ j \in 1 .. binlog'[l].len /\ binlog'[s].slot[j] = binlog'[l].slot[j]
    BY <1>1
  <2>2. binlog'[l].slot[i].req = Attempt[<<w, u>>] /\ binlog'[l].slot[j].req = r
    BY <1>2, <2>1
  <2> QED  BY <1>2, <2>1, <2>2, Zenon DEF OrderedAt
<1> QED  BY <1>2, Zenon DEF Ordered

LEMMA BelowLast ==
    ASSUME NEW n \in Nat
    PROVE  \A k \in 1 .. n + 1 : k = n + 1 \/ (k \in 1 .. n /\ k < n + 1)
OBVIOUS

\* A write at the leader is one that was not taken before, so no call noted it
\* when it began.
LEMMA SubmitOrdered ==
    ASSUME NEW l \in Server, NEW t \in Terms, Lead(l, t), OrderedAt(l), before' = before,
           \A w \in WriteCall : \A r \in before[w].taken : r \in Request /\ reply[r] # "idle",
           NEW x \in Request, NEW op \in ReqKinds, Submit(l, x, op)
    PROVE  OrderedAt(l)'
<1> PICK n : n = binlog[l].len  OBVIOUS
<1>1. /\ binlog'[l].len = n + 1 /\ binlog'[l].slot[n + 1].req = x
      /\ \A i \in 1 .. n : binlog'[l].slot[i] = binlog[l].slot[i]
  BY SubmitWrites
<1>2. reply[x] = "idle"  BY DEF Submit
<1>3. \A k \in 1 .. n + 1 : k = n + 1 \/ (k \in 1 .. n /\ k < n + 1)
  <2>1. n \in Nat  BY NodeNumbers DEF Lead
  <2> QED  BY <2>1, BelowLast
<1>4. ASSUME NEW w \in WriteCall, NEW u \in Server, NEW r \in before[w].taken,
             NEW i \in 1 .. n + 1, NEW j \in 1 .. n + 1,
             binlog'[l].slot[i].req = Attempt[<<w, u>>], binlog'[l].slot[j].req = r
      PROVE  j < i
  <2>1. j # n + 1  BY <1>1, <1>2, <1>4
  <2>2. j \in 1 .. n /\ j < n + 1  BY <1>3, <2>1, Zenon
  <2>3. CASE i = n + 1  BY <2>2, <2>3, Zenon
  <2>4. CASE i # n + 1
    <3>1. i \in 1 .. n  BY <1>3, <2>4, Zenon
    <3>2. binlog[l].slot[i].req = Attempt[<<w, u>>] /\ binlog[l].slot[j].req = r
      BY <1>1, <1>4, <2>2, <3>1
    <3> QED  BY <2>2, <3>1, <3>2, Zenon DEF OrderedAt
  <2> QED  BY <2>3, <2>4
<1> QED  BY <1>1, <1>4, Zenon DEF OrderedAt

\* What a step keeps.
LEMMA StepOrdered ==
    ASSUME NodeAssumption, SdkAssumption, TypeOK', SdkTypeOK, SdkTypeOK', CallsInv, SdkNext,
           NEW l \in Server, NEW t \in Terms, Lead(l, t), Wins(l, t)', LeadInv(l, t)', Steady',
           Ordered
    PROVE  Ordered'
<1>0. [Next]_vars  BY ClusterSteps
<1>1. WriteCall \subseteq SdkCall /\ \A w \in WriteCall, u \in Server : Attempt[<<w, u>>] \in Request
  BY DEF SdkAssumption, WriteCall
<1>2. \A w \in WriteCall : \A r \in before[w].taken : r \in Request /\ reply[r] # "idle"
  BY <1>1 DEF CallsInv, SdkTypeOK
<1>3. OrderedAt(l)  BY DEF Ordered, OrderedAt
<1>4. CASE before' = before /\ binlog'[l] = binlog[l]
  <2>1. OrderedAt(l)'  BY <1>3, <1>4 DEF OrderedAt
  <2> QED  BY <2>1, LeaderOrders
<1>5. ASSUME NEW x \in Request, NEW op \in ReqKinds, Submit(l, x, op), before' = before
      PROVE  Ordered'
  BY <1>2, <1>3, <1>5, SubmitOrdered, LeaderOrders
<1>6. ASSUME NEW c \in SdkCall, calling = Nil, result[c] = "none",
             UNCHANGED <<vars, late, result, value>>,
             before' = [before EXCEPT ![c] = [taken |-> {r \in Request : reply[r] # "idle"},
                                              ok    |-> {d \in SdkCall : result[d] = "ok"}]]
      PROVE  Ordered'
  <2>1. \A w \in SdkCall : w # c => before'[w] = before[w]  BY <1>6 DEF SdkTypeOK
  <2>2. ~Called(c)  BY <1>6 DEF Called, SdkAssumption
  <2>3. ASSUME NEW u \in Server, NEW i \in 1 .. binlog[l].len, c \in WriteCall
        PROVE  binlog[l].slot[i].req # Attempt[<<c, u>>]
    <3>1. reply[Attempt[<<c, u>>]] = "idle"  BY <2>2, <2>3 DEF CallsInv
    <3> QED  BY <1>1, <2>3, <3>1, TakenSlots DEF Lead
  <2>4. binlog' = binlog  BY <1>6 DEF vars
  <2>5. OrderedAt(l)'
    <3> SUFFICES ASSUME NEW w \in WriteCall, NEW u \in Server, NEW r \in before'[w].taken,
                        NEW i \in 1 .. binlog[l].len, NEW j \in 1 .. binlog[l].len,
                        binlog[l].slot[i].req = Attempt[<<w, u>>], binlog[l].slot[j].req = r
                 PROVE  j < i
      BY <2>4 DEF OrderedAt
    <3>1. w # c  BY <2>3
    <3>2. before'[w] = before[w]  BY <1>1, <2>1, <3>1
    <3> QED  BY <1>3, <3>2 DEF OrderedAt
  <2> QED  BY <2>5, LeaderOrders
<1>7. CASE before' = before
  <2>1. \/ binlog'[l] = binlog[l]
        \/ \E r \in Request, op \in ReqKinds : Submit(l, r, op)
    BY <1>0, LeaderLogSteps
  <2> QED  BY <1>4, <1>5, <1>7, <2>1
<1> QED  BY <1>6, <1>7, ClientSteps

-----------------------------------------------------------------------------
\* What was answered is applied.

\* A write is answered where lastApplied moves.
LEMMA AnswerSteps ==
    ASSUME TypeOK, [Next]_vars
    PROVE  \/ /\ lastApplied' = lastApplied
              /\ \A r \in Request : reply'[r] = "ok" => reply[r] = "ok"
           \/ \E s \in Server : CommitAck(s)
<1>1. CASE ElectionNext \/ LeaderNext \/ HeartBeatNext \/ FollowerNext
           \/ \E s \in Server : CommitBegin(s) \/ CommitStore(s) \/ CommitAck(s)
  BY <1>1, MemberSteps DEF MemberNext
<1>2. ASSUME NEW s \in Server, NEW r \in Request,
             Put(s, r) \/ Delete(s, r) \/ Lock(s, r) \/ UnLock(s, r)
      PROVE  /\ lastApplied' = lastApplied
             /\ \A q \in Request : reply'[q] = "ok" => reply[q] = "ok"
  <2>1. lastApplied' = lastApplied /\ reply' = [reply EXCEPT ![r] = "sent"]
    BY <1>2 DEF Put, Delete, Lock, UnLock, Submit
  <2> QED  BY <2>1 DEF TypeOK, ApplyTypeOK
<1>3. CASE UNCHANGED vars  BY <1>3 DEF vars
<1> QED  BY <1>1, <1>2, <1>3 DEF Next, ApplyNext

LEMMA StepApplied ==
    ASSUME NodeAssumption, TypeOK', NEW l \in Server, NEW t \in Terms, Lead(l, t),
           Wins(l, t)', LeadInv(l, t)', Steady', AnsweredApplied, [Next]_vars
    PROVE  AnsweredApplied'
<1>1. \A r \in Request : reply[r] = "ok" => \E i \in 0 .. lastApplied[l] : binlog[l].slot[i + 1].req = r
  BY DEF AnsweredApplied, Lead
<1>2. lastApplied[l] \in Int /\ lastApplied[l] >= -1 /\ lastApplied[l] < binlog[l].len /\ binlog[l].len \in Nat
  BY NodeNumbers DEF Lead, NoBadSlot, ApplyStored, LeadInv, CommitsOfLeader
<1>3. \A i \in 0 .. lastApplied[l] : i + 1 \in 1 .. binlog[l].len  BY <1>2
<1>4. \A i \in 0 .. lastApplied[l] : binlog'[l].slot[i + 1] = binlog[l].slot[i + 1]
  BY <1>3, LeaderLogGrows
<1>5. \A r \in Request : reply[r] = "ok" => \E i \in 0 .. lastApplied[l] : binlog'[l].slot[i + 1].req = r
  BY <1>1, <1>4
<1>6. ASSUME \A r \in Request : reply'[r] = "ok" =>
                \E i \in 0 .. lastApplied'[l] : binlog'[l].slot[i + 1].req = r
      PROVE  AnsweredApplied'
  <2>1. \A u \in Server : \A w \in Terms : Wins(u, w)' => u = l  BY DEF Steady
  <2> QED  BY <1>6, <2>1 DEF AnsweredApplied
<1>7. CASE /\ lastApplied' = lastApplied
           /\ \A r \in Request : reply'[r] = "ok" => reply[r] = "ok"
  BY <1>5, <1>6, <1>7
<1>8. ASSUME NEW s \in Server, CommitAck(s)
      PROVE  AnsweredApplied'
  <2> PICK i : i = lastApplied[s] + 1  OBVIOUS
  <2>1. lastApplied' = [lastApplied EXCEPT ![s] = i] /\ binlog' = binlog
    BY <1>8 DEF CommitAck
  <2>2. lastApplied'[l] = IF s = l THEN i ELSE lastApplied[l]
    BY <2>1 DEF Lead, TypeOK, ApplyTypeOK
  <2>3. \A k \in 0 .. lastApplied[l] : k \in 0 .. lastApplied'[l]
    BY <1>2, <2>2
  <2>4. CASE UNCHANGED clientVars
    <3>1. \A r \in Request : reply'[r] = "ok" =>
             \E k \in 0 .. lastApplied'[l] : binlog'[l].slot[k + 1].req = r
      BY <1>5, <2>3, <2>4
    <3> QED  BY <1>6, <3>1
  <2>5. CASE ~UNCHANGED clientVars
    <3> PICK acks : acks = AcksAt(s, i)  OBVIOUS
    <3>1. /\ acks # {}
          /\ reply' = [r \in Request |-> IF \E a \in acks : a.done = r THEN "ok" ELSE reply[r]]
      BY <1>8, <2>5 DEF CommitAck
    <3>2. s = l  BY <3>1 DEF AcksAt, Lead, LeadInv, CallsOfLeader
    <3>3. \A a \in acks : binlog[l].slot[i + 1].req = a.done
      BY <3>2 DEF AcksAt, Lead, LeadInv, RequestsOfLeader
    <3>4. i \in 0 .. lastApplied'[l]  BY <1>2, <2>2, <3>2
    <3>5. ASSUME NEW r \in Request, reply'[r] = "ok"
          PROVE  \E k \in 0 .. lastApplied'[l] : binlog'[l].slot[k + 1].req = r
      <4>1. CASE \E a \in acks : a.done = r
        BY <2>1, <3>3, <3>4, <4>1
      <4>2. CASE ~\E a \in acks : a.done = r
        <5>1. reply[r] = "ok"  BY <3>1, <3>5, <4>2
        <5> QED  BY <1>5, <2>3, <5>1
      <4> QED  BY <4>1, <4>2
    <3> QED  BY <1>6, <3>5
  <2> QED  BY <2>4, <2>5
<1> QED  BY <1>7, <1>8, AnswerSteps DEF Lead

-----------------------------------------------------------------------------
\* What a Get reads.

\* A database that has a call's write applied shows nothing older at its key.
LEMMA ShowsNothingOlder ==
    ASSUME NodeAssumption, TypeOK, Ordered, NEW l \in Server, binlog[l].len = Len(binlog[l].slot),
           NEW n \in Int, n >= -1, n < Len(binlog[l].slot), NEW k \in Key,
           DbAfter(binlog[l].slot, n)[k] # Nil,
           NEW w \in WriteCall, NEW u \in Server, Attempt[<<w, u>>] \in Request,
           ReqKey[Attempt[<<w, u>>]] = k,
           NEW i \in 0 .. n, binlog[l].slot[i + 1].req = Attempt[<<w, u>>]
    PROVE  DbAfter(binlog[l].slot, n)[k].req \notin before[w].taken
<1> PICK r : r = DbAfter(binlog[l].slot, n)[k].req  OBVIOUS
<1>1. binlog[l].slot \in Seq(Entry)  BY LogFacts
<1>2. OfLastEntry(binlog[l].slot, n, k)  BY <1>1, LastEntry
<1>3. PICK j \in 0 .. n : binlog[l].slot[j + 1].req = r /\ i <= j
  BY <1>2 DEF OfLastEntry
<1>4. \A x \in 0 .. n : x + 1 \in 1 .. binlog[l].len
  <2>1. Len(binlog[l].slot) \in Nat  BY LogFacts
  <2> QED  BY <2>1
<1>5. ~(j + 1 < i + 1)  BY <1>3
<1> QED  BY <1>3, <1>4, <1>5 DEF Ordered

\* In a steady cluster the node that answers a Get is the one that answered the
\* writes.
LEMMA GetReadsLatest ==
    ASSUME NodeAssumption, SdkAssumption, TypeOK, ElectionInv, SteadyInv, Steady, StoreIsLog,
           NoBadSlot, SdkTypeOK, CallsInv, Ordered, AnsweredApplied, Get,
           NEW w \in WriteCall, w \in before[calling].ok, SdkKey[w] = SdkKey[calling]
    PROVE  value'[calling] \notin before[w].taken
<1> PICK l, k, v : l = Member /\ k = SdkKey[calling] /\ v = store[l][k]  OBVIOUS
<1>1. /\ calling \in SdkCall /\ l \in Server /\ k \in Key
      /\ status[l] = "Leader" /\ v # Nil /\ value'[calling] = v.req
  <2>1. calling # Nil /\ calling \in SdkCall  BY DEF Get, IsGet, SdkTypeOK
  <2>2. Member \in Server  BY <2>1, MemberIs
  <2>3. value' = [value EXCEPT ![calling] = v.req]  BY DEF Get
  <2> QED  BY <2>1, <2>2, <2>3 DEF Get, SdkAssumption, SdkTypeOK
<1>2. PICK t \in Terms : Wins(l, t) /\ LeadInv(l, t)
  <2>1. ~NothingYet  BY <1>1 DEF NothingYet
  <2>2. PICK u \in Server, t \in Terms : Wins(u, t) /\ LeadInv(u, t)
    BY <2>1 DEF SteadyInv
  <2>3. u = l  BY <1>1, <2>2, LeaderIs
  <2> QED  BY <2>2, <2>3
<1>3. PICK u \in Server : reply[Attempt[<<w, u>>]] = "ok"
  <2>1. w \in SdkCall  BY DEF WriteCall
  <2>2. result[w] = "ok"  BY <1>1 DEF CallsInv
  <2> QED  BY <2>2 DEF CallsInv
<1>4. Attempt[<<w, u>>] \in Request /\ ReqKey[Attempt[<<w, u>>]] = k
  <2>1. <<w, u>> \in WriteCall \X Server /\ <<w, u>>[1] = w  OBVIOUS
  <2> QED  BY <2>1 DEF SdkAssumption
<1>5. PICK i \in 0 .. lastApplied[l] : binlog[l].slot[i + 1].req = Attempt[<<w, u>>]
  BY <1>1, <1>2, <1>3, <1>4 DEF AnsweredApplied
<1>6. PICK n \in {lastApplied[l], lastApplied[l] + 1} :
         n < Len(binlog[l].slot) /\ store[l] = DbAfter(binlog[l].slot, n)
  BY <1>1 DEF StoreIsLog, Applied
<1>7. n \in Int /\ n >= -1 /\ i \in 0 .. n
  <2>1. lastApplied[l] \in Int  BY <1>1, NodeNumbers
  <2> QED  BY <1>6, <2>1
<1>8. binlog[l].len = Len(binlog[l].slot)  BY <1>1, <1>2 DEF LeadInv, LogsOfLeader
<1>9. DbAfter(binlog[l].slot, n)[k].req \notin before[w].taken
  BY <1>1, <1>4, <1>5, <1>6, <1>7, <1>8, ShowsNothingOlder
<1> QED  BY <1>1, <1>6, <1>9

\* What a Get gave back stays.
LEMMA ValueKept ==
    ASSUME SdkTypeOK, CallsInv, SdkNext, NEW g \in SdkCall, result[g] = "ok"
    PROVE  value'[g] = value[g]
<1>1. CASE Get
  <2>1. calling # Nil  BY <1>1 DEF Get, IsGet
  <2>2. g # calling  BY <2>1 DEF CallsInv
  <2>3. \E x : value' = [value EXCEPT ![calling] = x]  BY <1>1 DEF Get
  <2> QED  BY <2>2, <2>3 DEF SdkTypeOK
<1>2. CASE ~Get
  <2>1. value' = value
    BY <1>2 DEF SdkNext, SdkBegin, SdkTaken, SdkAnswered, SdkRefused, GetLocked, SdkTimeout,
       SdkLate, sdkVars
  <2> QED  BY <2>1
<1> QED  BY <1>1, <1>2

LEMMA StepReads ==
    ASSUME NodeAssumption, SdkAssumption, TypeOK, ElectionInv, SteadyInv, Steady, StoreIsLog,
           NoBadSlot, SdkTypeOK, CallsInv, Ordered, AnsweredApplied, ReadsLatest, SdkNext
    PROVE  ReadsLatest'
<1> SUFFICES ASSUME NEW g \in SdkCall \ WriteCall, NEW w \in WriteCall,
                    result'[g] = "ok", w \in before'[g].ok, SdkKey[w] = SdkKey[g]
             PROVE  value'[g] \notin before'[w].taken
  BY DEF ReadsLatest
<1>1. CASE result[g] # "ok"
  <2>1. g = calling /\ before' = before /\ Get  BY <1>1, ReturnSteps
  <2> QED  BY <2>1, GetReadsLatest
<1>2. CASE result[g] = "ok"
  <2>1. w \in SdkCall  BY DEF WriteCall
  <2>2. \A c \in SdkCall : before'[c] = before[c] \/ result[c] = "none"
    BY ClientSteps DEF SdkTypeOK
  <2>3. before'[g] = before[g]  BY <1>2, <2>2
  <2>4. result[w] = "ok"  BY <2>3 DEF CallsInv
  <2>5. before'[w] = before[w]  BY <2>1, <2>2, <2>4
  <2>6. value'[g] = value[g]  BY <1>2, ValueKept
  <2> QED  BY <1>2, <2>3, <2>5, <2>6 DEF ReadsLatest
<1> QED  BY <1>1, <1>2

\* The three together.
ReadsInv == Ordered /\ AnsweredApplied /\ ReadsLatest

LEMMA InitReads ==
    ASSUME SdkInit
    PROVE  ReadsInv
BY DEF SdkInit, Init, ReadsInv, Ordered, AnsweredApplied, ReadsLatest, WriteCall

LEMMA StepReadsInv ==
    ASSUME NodeAssumption, SdkAssumption, TypeOK, NoBadSlot, ElectionInv, SteadyInv, SdkTypeOK,
           CallsInv, TypeOK', SdkTypeOK', CallsInv', Steady', StoreIsLog, ReadsInv, SdkNext
    PROVE  ReadsInv'
<1>1. [Next]_vars  BY ClusterSteps
<1>2. Steady  BY <1>1, SteadyBefore
<1>3. ReadsLatest'  BY <1>2, StepReads DEF ReadsInv
<1>4. CASE \A r \in Request : reply'[r] = "idle"
  <2>1. ASSUME NEW w \in WriteCall
        PROVE  before'[w].taken = {}
    <3>1. w \in SdkCall  BY DEF WriteCall
    <3>2. before'[w].taken \subseteq Request  BY <3>1 DEF SdkTypeOK
    <3>3. \A r \in before'[w].taken : reply'[r] # "idle"  BY <3>1 DEF CallsInv
    <3> QED  BY <1>4, <3>2, <3>3
  <2>2. Ordered'  BY <2>1 DEF Ordered
  <2>3. AnsweredApplied'  BY <1>4 DEF AnsweredApplied
  <2> QED  BY <1>3, <2>2, <2>3 DEF ReadsInv
<1>5. ASSUME NEW l \in Server, NEW t \in Terms, Lead(l, t), Wins(l, t)', LeadInv(l, t)'
      PROVE  ReadsInv'
  <2>1. Ordered'  BY <1>5, StepOrdered DEF ReadsInv
  <2>2. AnsweredApplied'  BY <1>1, <1>5, StepApplied DEF ReadsInv
  <2> QED  BY <1>3, <2>1, <2>2 DEF ReadsInv
<1> QED  BY <1>1, <1>4, <1>5, LeadSteps

\* The invariant of the client, of which the run shows an instance: the calls
\* and requests are paired as the SDK makes them, and in a steady cluster slots,
\* calls and the leader's database keep one order.
THEOREM SdkInvariant == SdkSpec => []SdkInv
<1> DEFINE Inv == /\ TypeOK /\ NoBadSlot /\ ElectionInv /\ SteadyInv
                  /\ Steady => StoreIsLog
           Calls == SdkTypeOK /\ CallsInv
           Reads == Steady => ReadsInv
<1>1. SdkInit => Reads  BY InitReads
<1>2. Inv /\ Inv' /\ Calls /\ Calls' /\ Reads /\ [SdkNext]_clusterVars => Reads'
  <2> SUFFICES ASSUME Inv, Inv', Calls, Calls', Reads, [SdkNext]_clusterVars, Steady'
               PROVE  ReadsInv'
    OBVIOUS
  <2>1. [Next]_vars  BY ClusterSteps, SdkAssumption
  <2>2. Steady  BY <2>1, SteadyBefore, NodeAssumption
  <2>3. CASE SdkNext  BY <2>2, <2>3, StepReadsInv, NodeAssumption, SdkAssumption
  <2>4. CASE UNCHANGED clusterVars
    <3>1. ReadsInv  BY <2>2
    <3> QED
      BY <2>4, <3>1 DEF clusterVars, vars, sdkVars, ReadsInv, Ordered, AnsweredApplied, ReadsLatest,
         Wins, EnoughVotes
  <2> QED  BY <2>3, <2>4
<1>3. Calls /\ Reads => SdkInv  BY DEF ReadsInv, SdkInv
<1> HIDE DEF Inv, Calls, Reads
<1>4. SdkSpec => Spec /\ []Calls  BY SdkImplements DEF Calls
<1>5. Spec => []Inv  BY SteadyInvariant, SteadyStoreIsLog, PTL DEF Inv
<1> QED  BY <1>1, <1>2, <1>3, <1>4, <1>5, PTL DEF SdkSpec

\* As long as the cluster is steady a Get reads nothing that was overwritten
\* before it began, whatever the number of members, calls and keys, and however
\* late the calls that were given up arrive.
THEOREM SteadyReadsLatest == SdkSpec => [](Steady => ReadsLatest)
<1>1. SdkInv => (Steady => ReadsLatest)  BY DEF SdkInv
<1> QED  BY <1>1, SdkInvariant, PTL

\* So with one term to elect in and no call between the members given up, a Get
\* never reads what was overwritten.
COROLLARY OneTermReadsLatest == MaxTerm <= 1 /\ MaxFails = 0 => (SdkSpec => []ReadsLatest)
BY SteadyReadsLatest, SdkImplements, OneTermSteady, PTL
=============================================================================

--------------------------------- MODULE Sdk ---------------------------------
(***************************************************************************)
(* A client that uses AirDBSdk, on top of the cluster of AirDB: its calls  *)
(* one after the other, each offered to the members in their order until   *)
(* one says success, with two seconds for each; and the handler Get of the *)
(* node.                                                                   *)
(***************************************************************************)
EXTENDS SteadyCluster

CONSTANTS
    Members,   \* server_members_, in order
    SdkCall,     \* the calls the client may make, each at most once
    SdkKind,   \* SdkCall -> ReqKinds \cup {"Get"}
    SdkKey,    \* SdkCall -> Key
    Attempt    \* the request that a call of a write is at a member

WriteCall == {c \in SdkCall : SdkKind[c] # "Get"}

ASSUME SdkAssumption ==
    /\ Members \in Seq(Server) /\ Members # << >>
    /\ SdkKind \in [SdkCall -> ReqKinds \cup {"Get"}]
    /\ SdkKey \in [SdkCall -> Key]
    /\ Nil \notin SdkCall
    /\ Attempt \in [WriteCall \X Server -> Request]
    /\ \A a, b \in WriteCall \X Server : Attempt[a] = Attempt[b] => a = b
    /\ \A a \in WriteCall \X Server :
          ReqKind[Attempt[a]] = SdkKind[a[1]] /\ ReqKey[Attempt[a]] = SdkKey[a[1]]

VARIABLES
    calling,   \* the call under way, Nil for none
    at,        \* the place in Members it has come to
    late,      \* the writes given up that may still arrive: <<member, request>>
    result,    \* per call: "none", "ok" (0), "failed" (-1)
    value,     \* the write whose value a Get gave back
    before     \* per call, when it began: the writes in a binlog, the calls that were ok

sdkVars == <<calling, at, late, result, value, before>>
clusterVars == <<vars, sdkVars>>

SdkInit ==
    /\ Init
    /\ calling = Nil /\ at = 0 /\ late = {}
    /\ result = [c \in SdkCall |-> "none"]
    /\ value = [c \in SdkCall |-> Nil]
    /\ before = [c \in SdkCall |-> [taken |-> {}, ok |-> {}]]

Member == Members[at]
Req == Attempt[<<calling, Member>>]
IsGet == calling # Nil /\ calling \notin WriteCall
IsWrite == calling \in WriteCall

\* A call begins with the first member.
SdkBegin(c) ==
    /\ calling = Nil /\ result[c] = "none"
    /\ calling' = c /\ at' = 1
    /\ before' = [before EXCEPT ![c] = [taken |-> {r \in Request : reply[r] # "idle"},
                                        ok    |-> {d \in SdkCall : result[d] = "ok"}]]
    /\ UNCHANGED <<vars, late, result, value>>

Return(res) ==
    /\ result' = [result EXCEPT ![calling] = res]
    /\ calling' = Nil /\ at' = 0

\* The member did not say success, or did not answer: on to the next.
NextMember ==
    IF at < Len(Members) THEN at' = at + 1 /\ UNCHANGED <<calling, result>>
                         ELSE Return("failed")

\* A write arrives at a member: Put, Delete, Lock or UnLock of the node.
Handle(s, r) == Put(s, r) \/ Delete(s, r) \/ Lock(s, r) \/ UnLock(s, r)

SdkTaken ==
    /\ IsWrite
    /\ Handle(Member, Req)
    /\ UNCHANGED sdkVars

\* Mutant: a write that the leader took counts as done before it is applied.
AnsweredEarly ==
    /\ IsWrite /\ reply[Req] # "idle"
    /\ Return("ok")
    /\ UNCHANGED <<vars, late, value, before>>

SdkAnswered ==
    /\ IsWrite /\ reply[Req] = "ok"
    /\ Return("ok")
    /\ UNCHANGED <<vars, late, value, before>>

\* A member that is not the leader refuses.
SdkRefused ==
    /\ calling # Nil /\ status[Member] # "Leader"
    /\ IsWrite => reply[Req] = "idle"
    /\ NextMember
    /\ UNCHANGED <<vars, late, value, before>>

\* Get on a leader: a key that was put is found in its own database.
Get ==
    /\ IsGet /\ status[Member] = "Leader"
    /\ LET v == store[Member][SdkKey[calling]]
       IN  /\ v # Nil /\ v.op = "Put"
           /\ value' = [value EXCEPT ![calling] = v.req]
    /\ Return("ok")
    /\ UNCHANGED <<vars, late, before>>

\* A locked key is not a hit.  (A key that is not there: no answer at all.)
GetLocked ==
    /\ IsGet /\ status[Member] = "Leader"
    /\ LET v == store[Member][SdkKey[calling]] IN v # Nil /\ v.op = "Lock"
    /\ NextMember
    /\ UNCHANGED <<vars, late, value, before>>

\* Two seconds are over.  A write that has not arrived may still do so.
SdkTimeout ==
    /\ calling # Nil
    /\ late' = IF IsWrite /\ reply[Req] = "idle" THEN late \cup {<<Member, Req>>} ELSE late
    /\ NextMember
    /\ UNCHANGED <<vars, value, before>>

SdkLate(m) ==
    /\ \/ Handle(m[1], m[2])
       \/ status[m[1]] # "Leader" /\ UNCHANGED vars
    /\ late' = late \ {m}
    /\ UNCHANGED <<calling, at, result, value, before>>

\* Everything the members do but for taking writes.
MemberNext ==
    \/ ElectionNext \/ LeaderNext \/ HeartBeatNext \/ FollowerNext
    \/ \E s \in Server : CommitBegin(s) \/ CommitStore(s) \/ CommitAck(s)

SdkNext ==
    \/ \E c \in SdkCall : SdkBegin(c)
    \/ SdkTaken
    \/ SdkAnswered
    \/ SdkRefused
    \/ Get
    \/ GetLocked
    \/ SdkTimeout
    \/ \E m \in late : SdkLate(m)
    \/ MemberNext /\ UNCHANGED sdkVars

SdkSpec == SdkInit /\ [][SdkNext]_clusterVars

-----------------------------------------------------------------------------
\* What a Get gives back was not overwritten before the Get began: a write that
\* was in the leader's binlog when a later write to the key was called, which
\* the SDK returned 0 for, is never read again.  A write that was given up (-1)
\* may come late, so its value may turn up after all, but never an old one.
ReadsLatest ==
    \A g \in SdkCall \ WriteCall, w \in WriteCall :
        /\ result[g] = "ok"
        /\ w \in before[g].ok /\ SdkKey[w] = SdkKey[g]
        => value[g] \notin before[w].taken

-----------------------------------------------------------------------------
\* Why it is so in a steady cluster.

SdkTypeOK ==
    /\ calling \in SdkCall \cup {Nil}
    /\ calling # Nil => at \in 1 .. Len(Members)
    /\ \A m \in late : \E c \in WriteCall, s \in Server : m = <<s, Attempt[<<c, s>>]>>
    /\ result \in [SdkCall -> {"none", "ok", "failed"}]
    /\ value \in [SdkCall -> Request \cup {Nil}]
    /\ before \in [SdkCall -> [taken: SUBSET Request, ok: SUBSET SdkCall]]

\* A call is under way or has returned once its requests may be at a member, and
\* one that returned 0 was answered.  What a node noted is no call that is yet
\* to come.
Called(c) == calling = c \/ result[c] # "none"
CallsInv ==
    /\ calling # Nil => result[calling] = "none"
    /\ \A c \in WriteCall : ~Called(c) =>
          \A s \in Server : /\ reply[Attempt[<<c, s>>]] = "idle"
                            /\ <<s, Attempt[<<c, s>>]>> \notin late
    /\ \A c \in WriteCall : result[c] = "ok" => \E s \in Server : reply[Attempt[<<c, s>>]] = "ok"
    /\ \A c \in SdkCall : /\ \A r \in before[c].taken : reply[r] # "idle"
                          /\ \A d \in before[c].ok : result[d] = "ok"
    /\ \A s \in Server : \A a \in sdkAck[s] : reply[a.done] # "idle"

\* The slots of a call come after those of the writes taken before it began.
Ordered ==
    \A w \in WriteCall, u \in Server : \A r \in before[w].taken : \A s \in Server :
        \A i, j \in 1 .. binlog[s].len :
            binlog[s].slot[i].req = Attempt[<<w, u>>] /\ binlog[s].slot[j].req = r => j < i

\* The winner of the election has applied what it answered.
AnsweredApplied ==
    \A l \in Server : \A t \in Terms : Wins(l, t) =>
        \A r \in Request : reply[r] = "ok" =>
            \E i \in 0 .. lastApplied[l] : binlog[l].slot[i + 1].req = r

\* The inductive invariant of the client: the last part, with SteadyInv and
\* StoreIsLog of the members, keeps ReadsLatest in a steady cluster.
SdkInv ==
    /\ SdkTypeOK
    /\ CallsInv
    /\ Steady => Ordered /\ AnsweredApplied /\ ReadsLatest
=============================================================================

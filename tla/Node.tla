-------------------------------- MODULE Node --------------------------------
(***************************************************************************)
(* The state of a cluster of AirDBImpl nodes and of the network between    *)
(* them, shared by the modules Election, Replication and Apply.            *)
(*                                                                         *)
(* The unit of interleaving is one critical section of AirDBImpl::mu_, or  *)
(* the code between two of them where a thread has released mu_.           *)
(*                                                                         *)
(* Two things the code keeps are left out: cur_leader_addr_, which is only *)
(* copied into the leader_id of replies and never read again, and stop_,   *)
(* which only the destructor sets and no code path destroys a node.        *)
(***************************************************************************)
EXTENDS BinLog, FiniteSets

CONSTANTS
    Server,       \* all_server_addr_
    Candidacy,    \* bound: the terms a server's vote timer may start, per server
    Replica,      \* bound: the followers that AppendEntries calls get through to
    Request,      \* the client requests that may be made, each once
    Key,          \* the keys they name
    ReqKind,      \* Request -> {"Put", "Delete", "Lock", "UnLock"}
    ReqKey,       \* Request -> Key
    Nil,          \* no server, no request, no stored value, no call
    MaxApplyLag,  \* how far apply may trail commit before "busy" (100000)
    MaxTerm,      \* bound: the last term of all
    MaxBeats,     \* bound: rounds of heartbeats; Nil for no bound
    MaxFails,     \* bound: replication calls that time out
    MaxCrashes    \* bound: node restarts

ReqKinds == {"Put", "Delete", "Lock", "UnLock"}

ASSUME NodeAssumption ==
    /\ IsFiniteSet(Server)
    /\ Candidacy \in [Server -> SUBSET (1 .. MaxTerm)]
    /\ Replica \subseteq Server
    /\ Nil \notin Server \cup Request \cup Nat
    /\ ReqKind \in [Request -> ReqKinds]
    /\ ReqKey \in [Request -> Key]
    /\ MaxApplyLag \in Nat /\ MaxTerm \in Nat /\ MaxBeats \in Nat \cup {Nil}
    /\ MaxFails \in Nat /\ MaxCrashes \in Nat

\* The list of members a node is started with is not empty.
ASSUME MembersAssumption == Server # {}

Terms == 0 .. MaxTerm

VARIABLES
    status,       \* status_: "Leader", "Candidate" or "Follower"
    currentTerm,  \* current_term_
    heard,        \* headbeat_cnt_ > 0
    voteFor,      \* vote_for_: server voted for, per term
    votePass,     \* vote_pass_: votes counted, per term
    binlog,       \* binlogger_
    nextIndex,    \* next_index_
    matchIndex,   \* match_index_
    repl,         \* the ReplicateLog thread of each follower
    appending,    \* AppendEntriesImpl calls that have released mu_
    commitIndex,  \* commit_index_
    lastApplied,  \* last_applied_index_ and its persisted tag
    applier,      \* the CommitIndex thread
    store,        \* data_store_: what each key holds
    sdkAck,       \* sdk_ack_
    reply,        \* per request, what the client has seen of it
    voteReq, voteRes,     \* Vote calls and answers in flight
    appendReq, appendRes, \* AppendEntries calls and ReplicateLog's answers
    beatRes,              \* answers to heartbeats
    beats, fails, crashes \* rounds of heartbeats, calls timed out, restarts so far

electionVars == <<status, currentTerm, heard, voteFor, votePass>>
leaderVars   == <<nextIndex, matchIndex, repl>>
applyVars    == <<lastApplied, applier, store>>
clientVars   == <<sdkAck, reply>>
voteNet      == <<voteReq, voteRes>>
appendNet    == <<appendReq, appendRes, beatRes>>
boundVars    == <<beats, fails, crashes>>
vars == <<electionVars, binlog, leaderVars, appending, commitIndex, applyVars,
          clientVars, voteNet, appendNet, boundVars>>

-----------------------------------------------------------------------------
\* Log entries.  A Nop carries no request.

Entry == [term: Terms, op: ReqKinds, req: Request]
            \cup [term: Terms, op: {"Nop"}, req: {Nil}]

NopEntry(t) == [term |-> t, op |-> "Nop", req |-> Nil]

\* A ReplicateLog thread.  pc: "none" (no thread), "loop" (at the head of its
\* loop), "built" (mu_ released, request not yet read from the binlog), "sent"
\* (waiting for the answer).  ok is latest_replicating_ok, call the values read
\* before mu_ was released and, once sent, the terms of the entries (max_term).
\* replica_pool_ has idle threads: a task added to it is at its loop head at once.
Call == [index: Nat, batch: Nat, term: Terms, prevTerm: Int, commit: Int,
         terms: SUBSET Terms]
ReplState == [pc: {"none", "loop"}, ok: BOOLEAN, call: {Nil}]
                \cup [pc: {"built", "sent"}, ok: BOOLEAN, call: Call]
NoThread == [pc |-> "none", ok |-> TRUE, call |-> Nil]
LoopHead(ok) == [pc |-> "loop", ok |-> ok, call |-> Nil]

\* replicating_: the followers that have a running ReplicateLog.
Replicating(s) == {f \in Server : repl[s][f].pc # "none"}

\* What a key holds, and a call noted in sdk_ack_: the done callback of the last
\* call noted under the slot, and the kinds of response noted there.
Value == [op: {"Put", "Lock"}, req: Request] \cup {Nil}
Ack == [index: Nat, done: Request, kinds: SUBSET ReqKinds]

\* Messages.  rpc says that the caller still waits for the answer: a call that
\* timed out, or whose caller restarted, may still be delivered.  A heartbeat
\* is an AppendEntries call without entries.
VoteRequest == [from: Server, to: Server, term: Terms, lastIndex: Int, lastTerm: Int,
                rpc: BOOLEAN]
VoteResponse == [from: Server, to: Server, term: Terms, pass: BOOLEAN]
AppendRequest == [from: Server, to: Server, term: Terms, prev: Int, prevTerm: Int,
                  commit: Int, entries: Seq(Entry), rpc: BOOLEAN]
Appending == [req: {m \in AppendRequest : m.entries # << >>}, pc: {"write", "finish"}]
AppendResponse == [from: Server, to: Server, term: Terms, success: BOOLEAN, busy: BOOLEAN,
                   len: Nat]
BeatResponse == [from: Server, to: Server, term: Terms]

Lesser(a, b) == IF a < b THEN a ELSE b
Greater(a, b) == IF a > b THEN a ELSE b

-----------------------------------------------------------------------------
\* The constructor on empty databases.  A map entry that was never assigned is
\* value-initialised by operator[], hence the zeros of next and match.
Init ==
    /\ status = [s \in Server |-> "Follower"]
    /\ currentTerm = [s \in Server |-> 0]
    /\ heard = [s \in Server |-> FALSE]
    /\ voteFor = [s \in Server |-> [t \in Terms |-> Nil]]
    /\ votePass = [s \in Server |-> [t \in Terms |-> 0]]
    /\ binlog = [s \in Server |-> NewBinLog]
    /\ nextIndex = [s \in Server |-> [f \in Server |-> 0]]
    /\ matchIndex = [s \in Server |-> [f \in Server |-> 0]]
    /\ repl = [s \in Server |-> [f \in Server |-> NoThread]]
    /\ appending = [s \in Server |-> {}]
    /\ commitIndex = [s \in Server |-> -1]
    /\ lastApplied = [s \in Server |-> -1]
    /\ applier = [s \in Server |-> [pc |-> "wait", end |-> -1]]
    /\ store = [s \in Server |-> [k \in Key |-> Nil]]
    /\ sdkAck = [s \in Server |-> {}]
    /\ reply = [r \in Request |-> "idle"]
    /\ voteReq = {} /\ voteRes = {}
    /\ appendReq = {} /\ appendRes = {} /\ beatRes = {}
    /\ beats = 0 /\ fails = 0 /\ crashes = 0
=============================================================================

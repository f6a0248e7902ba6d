-------------------------------- MODULE Apply -------------------------------
(***************************************************************************)
(* What a client asks and when it is answered: the service methods that    *)
(* write (Put, Delete, Lock, UnLock), and the CommitIndex thread, which    *)
(* applies committed slots to data_store_ and answers the calls.           *)
(***************************************************************************)
EXTENDS Node

\* Mutant: the calls noted under later slots are answered as well.
AcksFrom(s, i) == {a \in sdkAck[s] : a.index >= i}

\* What sdk_ack_ holds for a slot: at most one record.
AcksAt(s, i) == {a \in sdkAck[s] : a.index = i}

\* A write at a leader: the entry goes to the binlog, and the call is noted
\* under its slot, over what an earlier leadership left there: done is the new
\* call's, a response pointer of another kind stays.  A node that is not the
\* leader refuses at once and changes nothing.
Submit(s, r, op) ==
    /\ status[s] = "Leader"
    /\ reply[r] = "idle"
    /\ reply' = [reply EXCEPT ![r] = "sent"]
    /\ binlog' = [binlog EXCEPT ![s] =
                     WriteEntry(@, [term |-> currentTerm[s], op |-> op, req |-> r])]
    /\ LET i   == GetLength(binlog'[s]) - 1
           old == AcksAt(s, i)
           new == [index |-> i, done |-> r,
                   kinds |-> {ReqKind[r]} \cup UNION {a.kinds : a \in old}]
       IN  sdkAck' = [sdkAck EXCEPT ![s] = (@ \ old) \cup {new}]
    /\ UNCHANGED <<electionVars, leaderVars, appending, commitIndex, applyVars, voteNet,
                   appendNet, boundVars>>

Put(s, r)    == ReqKind[r] = "Put"    /\ Submit(s, r, "Put")
Delete(s, r) == ReqKind[r] = "Delete" /\ Submit(s, r, "Delete")
Lock(s, r)   == ReqKind[r] = "Lock"   /\ Submit(s, r, "Lock")
\* UnLock writes a lock entry too.
UnLock(s, r) == ReqKind[r] = "UnLock" /\ Submit(s, r, "Lock")

-----------------------------------------------------------------------------
\* The CommitIndex thread.

\* Slots were committed: their range is read, and mu_ released.
CommitBegin(s) ==
    /\ applier[s].pc = "wait"
    /\ commitIndex[s] > lastApplied[s]
    /\ applier' = [applier EXCEPT ![s] = [pc |-> "apply", end |-> commitIndex[s]]]
    /\ UNCHANGED <<electionVars, binlog, leaderVars, appending, commitIndex, lastApplied, store,
                   clientVars, voteNet, appendNet, boundVars>>

\* Mutant: Delete falls through to Put.
EffectFallsThrough(db, e) ==
    IF e.op = "Nop" THEN db ELSE [db EXCEPT ![ReqKey[e.req]] = [op |-> e.op, req |-> e.req]]

\* What an entry does to data_store_: Put and Lock set the key (to the
\* operation and the value), Delete and UnLock remove it, Nop does nothing.
Effect(db, e) ==
    CASE e.op \in {"Put", "Lock"}      -> [db EXCEPT ![ReqKey[e.req]] = [op |-> e.op, req |-> e.req]]
      [] e.op \in {"Delete", "UnLock"} -> [db EXCEPT ![ReqKey[e.req]] = Nil]
      [] OTHER                         -> db

\* Without mu_: the next slot is read, whatever it holds by now, and applied.
CommitStore(s) ==
    /\ applier[s].pc = "apply"
    /\ store' = [store EXCEPT ![s] = Effect(@, ReadSlot(binlog[s], lastApplied[s] + 1))]
    /\ applier' = [applier EXCEPT ![s].pc = "ack"]
    /\ UNCHANGED <<electionVars, binlog, leaderVars, appending, commitIndex, lastApplied,
                   clientVars, voteNet, appendNet, boundVars>>

\* With mu_ again: a leader answers the call noted under that slot, whoever
\* noted it and whenever, and the slot counts as applied.
CommitAck(s) ==
    LET i    == lastApplied[s] + 1
        acks == AcksAt(s, i)
    IN  /\ applier[s].pc = "ack"
        /\ \/ /\ status[s] = "Leader" /\ acks # {}
              /\ reply' = [r \in Request |-> IF \E a \in acks : a.done = r THEN "ok"
                                             ELSE reply[r]]
              /\ sdkAck' = [sdkAck EXCEPT ![s] = @ \ acks]
           \/ /\ status[s] # "Leader" \/ acks = {}
              /\ UNCHANGED clientVars
        /\ lastApplied' = [lastApplied EXCEPT ![s] = i]
        /\ applier' = [applier EXCEPT ![s] = IF i < @.end
                                             THEN [@ EXCEPT !.pc = "apply"]
                                             ELSE [pc |-> "wait", end |-> -1]]
        /\ UNCHANGED <<electionVars, binlog, leaderVars, appending, commitIndex, store, voteNet,
                       appendNet, boundVars>>
=============================================================================

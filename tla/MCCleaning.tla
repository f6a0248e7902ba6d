----------------------------- MODULE MCCleaning -----------------------------
(***************************************************************************)
(* Cleaning for TLC: three members and a log long enough for a slot to be  *)
(* removed.                                                                *)
(***************************************************************************)
EXTENDS Cleaning, TLC

CONSTANTS s1, s2, s3, r1, r2, r3, r4, k1

OneKey == [r \in Request |-> k1]
Puts == [r \in Request |-> "Put"]
FirstOnly == [s \in Server |-> IF s = s1 THEN 1 .. MaxTerm ELSE {}]

\* A state Init reaches: s1 was elected with the vote of s2, three writes went to
\* s2 and were answered, and after a heartbeat s2 has applied them too; the thread
\* for s3 has not run yet.  Heartbeats are counted from here.
AgedLog ==
    [slot |-> <<NopEntry(1)>> \o [i \in 1 .. 3 |-> [term |-> 1, op |-> "Put", req |-> <<r1, r2, r3>>[i]]],
     len |-> 4, lastTerm |-> 1]
HasLog(s, yes, no) == IF s = s3 THEN no ELSE yes

AgedInit ==
    /\ status = [s \in Server |-> IF s = s1 THEN "Leader" ELSE "Follower"]
    /\ currentTerm = [s \in Server |-> 1]
    /\ heard = [s \in Server |-> s = s2]
    /\ voteFor = [s \in Server |-> [t \in Terms |-> IF t = 1 THEN s1 ELSE Nil]]
    /\ votePass = [s \in Server |-> [t \in Terms |-> IF s = s1 /\ t = 1 THEN 2 ELSE 0]]
    /\ binlog = [s \in Server |-> HasLog(s, AgedLog, NewBinLog)]
    /\ nextIndex = [s \in Server |-> [f \in Server |-> IF s = s1 /\ f = s2 THEN 4 ELSE 0]]
    /\ matchIndex = [s \in Server |-> [f \in Server |->
                        IF s # s1 \/ f = s1 THEN 0 ELSE HasLog(f, 3, -1)]]
    /\ repl = [s \in Server |-> [f \in Server |->
                  IF s = s1 /\ f # s1 THEN LoopHead(TRUE) ELSE NoThread]]
    /\ appending = [s \in Server |-> {}]
    /\ commitIndex = [s \in Server |-> HasLog(s, 3, -1)]
    /\ lastApplied = [s \in Server |-> HasLog(s, 3, -1)]
    /\ applier = [s \in Server |-> [pc |-> "wait", end |-> -1]]
    /\ store = [s \in Server |-> [k \in Key |-> HasLog(s, [op |-> "Put", req |-> r3], Nil)]]
    /\ sdkAck = [s \in Server |-> {}]
    /\ reply = [r \in Request |-> IF r \in {r1, r2, r3} THEN "ok" ELSE "idle"]
    /\ voteReq = {} /\ voteRes = {}
    /\ appendReq = {} /\ appendRes = {} /\ beatRes = {}
    /\ beats = 0 /\ fails = 0 /\ crashes = 0
    /\ cleaner = [s \in Server |-> Idle]
    /\ lastSafe = [s \in Server |-> -1]
    /\ cleanReq = {}
    /\ delBinlog = [s \in Server |-> {}]
    /\ removed = [s \in Server |-> 0]
    /\ rounds = 0

AgedSpec == AgedInit /\ [][CleanNext]_allVars
=============================================================================

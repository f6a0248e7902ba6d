------------------------------- MODULE MCAirDB ------------------------------
(***************************************************************************)
(* Values of the constants of AirDB for TLC: up to three members, one key, *)
(* and the clients' calls of each run.                                     *)
(***************************************************************************)
EXTENDS Handover, TLC

CONSTANTS s1, s2, s3, r1, r2, k1

OneKey == [r \in Request |-> k1]

\* Whose vote timer fires, and for which terms.
Anyone == [s \in Server |-> 1 .. MaxTerm]
OnlyFirst == [s \in Server |-> IF s = s1 THEN 1 .. MaxTerm ELSE {}]
FirstThenSecond ==
    [s \in Server |-> IF s = s1 THEN {1} ELSE IF s = s2 THEN 2 .. MaxTerm ELSE {}]
FirstThenEither ==
    [s \in Server |-> IF s = s1 THEN 1 .. MaxTerm ELSE IF s = s3 THEN 2 .. MaxTerm ELSE {}]

\* What the clients ask, each call once.
NoRequest == << >>
OnePut == r1 :> "Put"
OneLock == r1 :> "Lock"
OneUnLock == r1 :> "UnLock"
TwoLocks == (r1 :> "Lock") @@ (r2 :> "Lock")
PutDelete == (r1 :> "Put") @@ (r2 :> "Delete")

\* The members are alike, except those that a run lets time out while others
\* may not.
AllAlike == Permutations({s1, s2, s3})
PairAlike == Permutations({s1, s2})
FollowersAlike == Permutations({s2, s3})
=============================================================================

-------------------------------- MODULE MCSdk -------------------------------
(***************************************************************************)
(* Sdk for TLC: two members, and a client that makes a Put, a Lock and a   *)
(* Get of one key, in any order.                                           *)
(***************************************************************************)
EXTENDS Sdk, TLC

CONSTANTS s1, s2, put, lock, get, k1

OnlyFirst == [s \in Server |-> IF s = s1 THEN 1 .. MaxTerm ELSE {}]
\* The member that will be leader is asked last.
Reversed == <<s2, s1>>

Kinds == (put :> "Put") @@ (lock :> "Lock") @@ (get :> "Get")
Keys == [c \in SdkCall |-> k1]

\* A write is a request of its own at each member.
Requests == {put, lock} \X Server
Attempts == [r \in Requests |-> r]
RequestKinds == [r \in Requests |-> Kinds[r[1]]]
RequestKeys == [r \in Requests |-> k1]
=============================================================================

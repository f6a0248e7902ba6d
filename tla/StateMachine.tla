----------------------------- MODULE StateMachine ----------------------------
(***************************************************************************)
(* What the cluster promises its clients: one sequence of operations is    *)
(* chosen, only ever extended, with each request in it at most once; every *)
(* node applies it in order to its own database; and a client hears "ok"   *)
(* only for a request that was chosen and applied.                         *)
(***************************************************************************)
EXTENDS Integers, Sequences

CONSTANTS Server, Request, Key, Nil,
          NewDb,         \* the empty database
          Effect(_, _)   \* what an operation does to a database

VARIABLES chosen,    \* the operations, in order
          done,      \* per server, how many it has applied
          db,        \* per server, its database
          answered   \* the requests answered "ok"

smVars == <<chosen, done, db, answered>>

SMInit ==
    /\ chosen = << >>
    /\ done = [s \in Server |-> 0]
    /\ db = [s \in Server |-> NewDb]
    /\ answered = {}

Once(ops) == \A i, j \in 1 .. Len(ops) : ops[i].req = ops[j].req /\ i # j => ops[i].req = Nil

\* A batch of operations is chosen.
Choose ==
    /\ Len(chosen') > Len(chosen)
    /\ SubSeq(chosen', 1, Len(chosen)) = chosen
    /\ Once(chosen')
    /\ UNCHANGED <<done, db, answered>>

ApplyOne(s) ==
    /\ done[s] < Len(chosen)
    /\ db' = [db EXCEPT ![s] = Effect(@, chosen[done[s] + 1])]
    /\ done' = [done EXCEPT ![s] = @ + 1]
    /\ UNCHANGED <<chosen, answered>>

Answer(r) ==
    /\ \E s \in Server : \E i \in 1 .. done[s] : chosen[i].req = r
    /\ answered' = answered \cup {r}
    /\ UNCHANGED <<chosen, done, db>>

SMNext ==
    \/ Choose
    \/ \E s \in Server : ApplyOne(s)
    \/ \E r \in Request : Answer(r)

SMSpec == SMInit /\ [][SMNext]_smVars
=============================================================================

------------------------------ MODULE TaskLife ------------------------------
(***************************************************************************)
(* What a thread pool promises of each task: it is taken in once, then     *)
(* begun at most once and by one thread, unless it is cancelled first, and *)
(* it never disappears in between.                                         *)
(***************************************************************************)
CONSTANT Job
VARIABLE life   \* Job -> "new", "waiting", "running", "done" or "cancelled"

Becomes(j, from, to) == life[j] = from /\ life' = [life EXCEPT ![j] = to]

TLInit == life = [j \in Job |-> "new"]

TakeIn(j) == Becomes(j, "new", "waiting")
Begin(j)  == Becomes(j, "waiting", "running")
End(j)    == Becomes(j, "running", "done")
Cancel(j) == Becomes(j, "waiting", "cancelled")

TLNext == \E j \in Job : TakeIn(j) \/ Begin(j) \/ End(j) \/ Cancel(j)

TLSpec == TLInit /\ [][TLNext]_life
=============================================================================

---------------------------- MODULE BinLogThreads ----------------------------
(***************************************************************************)
(* The binlog of one node as its threads see it, one access to memory or   *)
(* database at a time.  BinLog takes each operation as one step; here      *)
(* WriteEntryList and Truncate hold BinLogger::mu_, and WriteEntry holds   *)
(* none: it is called under AirDBImpl::mu_, which a thread in              *)
(* WriteEntryList has released: a follower that accepted entries and then  *)
(* wins an election writes its Nop entry beside them.  last_log_term_,     *)
(* which both write too, is left out.                                      *)
(***************************************************************************)
EXTENDS Integers

CONSTANTS
    Writer,     \* the threads of follower_work_pool_
    Batch,      \* how many entries a call may carry
    Nil,        \* no thread
    MaxLength,  \* bound: slots of the binlog
    MaxStops    \* bound: restarts

VARIABLES
    length,   \* length_
    stored,   \* the slots in the database
    tag,      \* #BINLOG_LEN# in the database
    logMu,    \* the holder of BinLogger::mu_
    entry,    \* the thread in WriteEntry, and so in AirDBImpl::mu_: pc and what it has read
    writer,   \* the threads in AppendEntriesImpl and WriteEntryList
    stops     \* restarts so far

vars == <<length, stored, tag, logMu, entry, writer, stops>>

NoEntry == [pc |-> "none", cur |-> 0, next |-> 0]
NoWriter == [pc |-> "none", n |-> 0, cur |-> 0]

Init ==
    /\ length = 0 /\ stored = {} /\ tag = 0
    /\ logMu = Nil
    /\ entry = NoEntry
    /\ writer = [w \in Writer |-> NoWriter]
    /\ stops = 0

\* AirDBImpl::mu_ is free.
MuFree == entry.pc = "none"

-----------------------------------------------------------------------------
\* AppendEntriesImpl: the node is a follower from now on, and mu_ is released
\* for the write.
AppendAccept(w, n) ==
    /\ MuFree /\ writer[w].pc = "none"
    /\ writer' = [writer EXCEPT ![w] = [pc |-> "lock", n |-> n, cur |-> 0]]
    /\ UNCHANGED <<length, stored, tag, logMu, entry, stops>>

\* Or the entries before do not match: Truncate, under both mutexes.
Truncate(i) ==
    /\ MuFree /\ logMu = Nil
    /\ i < length
    /\ length' = i /\ tag' = i
    /\ UNCHANGED <<stored, logMu, entry, writer, stops>>

\* WriteEntryList: the length is read, ...
ListBegin(w) ==
    /\ writer[w].pc = "lock" /\ logMu = Nil
    /\ length + writer[w].n <= MaxLength
    /\ logMu' = w
    /\ writer' = [writer EXCEPT ![w] = [@ EXCEPT !.pc = "batch", !.cur = length]]
    /\ UNCHANGED <<length, stored, tag, entry, stops>>

\* ... the batch goes to the database, ...
ListBatch(w) ==
    /\ writer[w].pc = "batch"
    /\ stored' = stored \cup (writer[w].cur .. writer[w].cur + writer[w].n - 1)
    /\ tag' = writer[w].cur + writer[w].n
    /\ writer' = [writer EXCEPT ![w].pc = "load"]
    /\ UNCHANGED <<length, logMu, entry, stops>>

\* ... and length_ += n, a load and a store.
ListLoad(w) ==
    /\ writer[w].pc = "load"
    /\ writer' = [writer EXCEPT ![w] = [@ EXCEPT !.pc = "store", !.cur = length]]
    /\ UNCHANGED <<length, stored, tag, logMu, entry, stops>>

ListStore(w) ==
    /\ writer[w].pc = "store"
    /\ length' = writer[w].cur + writer[w].n
    /\ logMu' = Nil
    /\ writer' = [writer EXCEPT ![w] = NoWriter]
    /\ UNCHANGED <<stored, tag, entry, stops>>

-----------------------------------------------------------------------------
\* StartReplicaLog with its Nop entry, or a client's write on a leader: in
\* WriteEntry, with mu_ held.  length_ is read for the slot, ...
EntryBegin ==
    /\ MuFree
    /\ length < MaxLength
    /\ entry' = [entry EXCEPT !.pc = "next", !.cur = length]
    /\ UNCHANGED <<length, stored, tag, logMu, writer, stops>>

\* ... and again for the new length, ...
EntryNext ==
    /\ entry.pc = "next"
    /\ entry' = [entry EXCEPT !.pc = "batch", !.next = length + 1]
    /\ UNCHANGED <<length, stored, tag, logMu, writer, stops>>

EntryBatch ==
    /\ entry.pc = "batch"
    /\ stored' = stored \cup {entry.cur}
    /\ tag' = entry.next
    /\ entry' = [entry EXCEPT !.pc = "load"]
    /\ UNCHANGED <<length, logMu, writer, stops>>

\* ... and ++length_.
EntryLoad ==
    /\ entry.pc = "load"
    /\ entry' = [entry EXCEPT !.pc = "store", !.cur = length]
    /\ UNCHANGED <<length, stored, tag, logMu, writer, stops>>

EntryStore ==
    /\ entry.pc = "store"
    /\ length' = entry.cur + 1
    /\ entry' = NoEntry
    /\ UNCHANGED <<stored, tag, logMu, writer, stops>>

-----------------------------------------------------------------------------
\* The node stops anywhere; the constructor reads the length back.
Restart ==
    /\ stops < MaxStops
    /\ stops' = stops + 1
    /\ length' = tag
    /\ logMu' = Nil
    /\ entry' = NoEntry
    /\ writer' = [w \in Writer |-> NoWriter]
    /\ UNCHANGED <<stored, tag>>

Next ==
    \/ \E w \in Writer, n \in Batch : AppendAccept(w, n)
    \/ \E i \in 0 .. MaxLength : Truncate(i)
    \/ \E w \in Writer : ListBegin(w)
    \/ \E w \in Writer : ListBatch(w)
    \/ \E w \in Writer : ListLoad(w)
    \/ \E w \in Writer : ListStore(w)
    \/ EntryBegin
    \/ EntryNext
    \/ EntryBatch
    \/ EntryLoad
    \/ EntryStore
    \/ Restart

Spec == Init /\ [][Next]_vars

-----------------------------------------------------------------------------
\* A slot below length_ can be read: the asserts on slot_ok in Truncate, in the
\* constructor and in CommitIndex ask no less.
SlotsBelowLength == \A i \in 0 .. length - 1 : i \in stored
=============================================================================

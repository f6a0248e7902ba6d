------------------------------- MODULE BinLog -------------------------------
(***************************************************************************)
(* The binlog of one node (class BinLogger): a LevelDB database that maps  *)
(* a decimal slot number to an entry, and #BINLOG_LEN# to the length.      *)
(*                                                                         *)
(*   slot      the entries in the database; slot i of the code is position *)
(*             i + 1.  Truncate moves the length only, so entries at or    *)
(*             above len stay readable until they are overwritten.         *)
(*   len       length_ and the #BINLOG_LEN# key, always written together.  *)
(*   lastTerm  last_log_term_, in memory only.                             *)
(*                                                                         *)
(* Entries are records with at least a field term.                         *)
(***************************************************************************)
EXTENDS Integers, Sequences

\* The binlogs of entries of E, whose terms are in T: the slots below the length
\* are in the database.
BinLogs(E, T) ==
    {b \in [slot: Seq(E), len: Nat, lastTerm: T \cup {-1}] : b.len <= Len(b.slot)}

\* A new database: no slot, length_ = 0, last_log_term_ = -1.
NewBinLog == [slot |-> << >>, len |-> 0, lastTerm |-> -1]

GetLength(b) == b.len
LastLogIndex(b) == b.len - 1
LastLogTerm(b) == b.lastTerm

\* Slots a read finds; ReadSlot is applied to these only.
StoredSlots(b) == 0 .. Len(b.slot) - 1
ReadSlot(b, i) == b.slot[i + 1]

\* One LevelDB batch: the entries go to slots len, len + 1, ... whatever those
\* slots held, and the length grows.  Applied to a non-empty list.
WriteEntryList(b, entries) ==
    LET n == b.len + Len(entries)
    IN  [slot     |-> SubSeq(b.slot, 1, b.len) \o entries
                        \o SubSeq(b.slot, n + 1, Len(b.slot)),
         len      |-> n,
         lastTerm |-> entries[Len(entries)].term]

\* Mutant: the last slot is written over.
WriteEntryOver(b, entry) ==
    WriteEntryList([b EXCEPT !.len = IF @ > 0 THEN @ - 1 ELSE @], <<entry>>)

\* The leader's form, for one entry.
WriteEntry(b, entry) == WriteEntryList(b, <<entry>>)

\* Mutant: the slots above i are removed from the database too.
TruncateRemoves(b, i) ==
    LET n == IF i < -1 THEN 0 ELSE i + 1
    IN  [b EXCEPT !.len = n, !.slot = SubSeq(@, 1, n),
                  !.lastTerm = IF n > 0 THEN ReadSlot(b, n - 1).term ELSE @]

\* Keep the slots up to i.  The entry now last gives last_log_term_; when none
\* is left last_log_term_ keeps the value it had.
Truncate(b, i) ==
    LET n == IF i < -1 THEN 0 ELSE i + 1
    IN  [b EXCEPT !.len = n,
                  !.lastTerm = IF n > 0 THEN ReadSlot(b, n - 1).term ELSE @]

\* Mutant: the length key is not read back.
ReopenEmpty(b) == NewBinLog

\* The constructor on an existing database, after a restart.
Reopen(b) ==
    [b EXCEPT !.lastTerm = IF b.len > 0 THEN ReadSlot(b, b.len - 1).term ELSE -1]

\* The entries of slots 0 .. len - 1, in order.
Entries(b) == SubSeq(b.slot, 1, b.len)
=============================================================================

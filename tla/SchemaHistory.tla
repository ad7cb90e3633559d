--------------------------- MODULE SchemaHistory ---------------------------
(***************************************************************************)
(* What the table schema_migrations promises: files enter it one by one,   *)
(* never leave it, and each is the first one still missing in the order of *)
(* one of the two runners.  (The server sorts the names as strings, the    *)
(* command-line runner by the number they start with.)                     *)
(***************************************************************************)
EXTENDS Sequences, Naturals

CONSTANT Orders          \* the runners' orders of the migration files

VARIABLE history         \* the files that are recorded

Files == UNION { {order[i] : i \in DOMAIN order} : order \in Orders }

\* f is the first file of the order that is not recorded.
FirstMissing(order, f) ==
    \E i \in DOMAIN order :
        order[i] = f /\ f \notin history /\ \A j \in 1..(i - 1) : order[j] \in history

HistoryInit == history \in SUBSET Files

RecordFile == \E order \in Orders : \E f \in Files :
    FirstMissing(order, f) /\ history' = history \union {f}

HistorySpec == HistoryInit /\ [][RecordFile]_history
=============================================================================

-------------------------------- MODULE SdLogRing --------------------------------
(***************************************************************************)
(* What the SD logger promises of one of its rings of log files, without   *)
(* file numbers: the log files form a list, oldest first, of at most       *)
(* Capacity files.  Logging into a new file appends it at the end; space   *)
(* is only ever recovered by deleting the oldest files.                    *)
(***************************************************************************)
EXTENDS Sequences, SequencesExt

CONSTANTS
    Ids,       \* the names a log file may have
    Capacity   \* the most files the ring keeps

VARIABLE logs  \* the log files, oldest first

Init == logs = <<>>

(* A new log file, named by a name no kept file has, after the newest.   *)
NewFile(f) ==
    /\ f \notin Range(logs)
    /\ Len(logs) < Capacity
    /\ logs' = Append(logs, f)

(* The k oldest files deleted.                                           *)
DropOldest(k) == logs' = SubSeq(logs, k + 1, Len(logs))

Next ==
    \/ \E f \in Ids : NewFile(f)
    \/ \E k \in 1..Len(logs) : DropOldest(k)

Spec == Init /\ [][Next]_logs
================================================================================

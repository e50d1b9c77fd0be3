---------------------------- MODULE MCDiskBuffer ----------------------------
(* The disk buffer with lines of one, two and three bytes.                 *)
EXTENDS DiskBuffer

LineSizes == [l \in Lines |-> (l % 3) + 1]
NoLines == {}
Second == {2}

(* The failures after which the files are still the queue of the lines.    *)
Recoverable == FileOperations \ {"list", "torn", "remove"}

Nothing == {}

=============================================================================

----------------------------- MODULE MCFileJobs -----------------------------
(* A small instance of FileJobs for TLC.                                   *)
EXTENDS FileJobs, TLC

\* A download, two that share a job, one of a buffered job; an upload of two files, which
\* a second one may share, and one of more files than are allowed.
TransferJobOf == [d1 |-> "save", d2 |-> "debug", d3 |-> "debug", d4 |-> "report",
                  u1 |-> "restore", u2 |-> "restore", u3 |-> "update"]
TransferFiles == [u1 |-> 2, u2 |-> 1, u3 |-> 3]
TransferChunks == [save |-> 3, debug |-> 2, report |-> 1, restore |-> 2, update |-> 1]

=============================================================================

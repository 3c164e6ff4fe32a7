------------------------- MODULE MCFirmwareBridge -------------------------
(* Small instances of FirmwareBridge for TLC.                              *)
EXTENDS FirmwareBridge, TLC

\* Neither two transactions nor two rates differ in anything but identity.
Interchangeable == Permutations(Txn) \cup Permutations(Rate)

\* Death is possible at every point between two durable writes.
Anywhere == PC \ {"down"}

\* ... or not between saving an adopted request and removing the operator's
\* file, nor between a timeout and its QUERY; and not in loop, poll and read,
\* from where a restarted worker goes on as if nothing had happened.
ExceptHandover == Anywhere \ {"loop", "poll", "read", "unlink-command", "query"}
=============================================================================

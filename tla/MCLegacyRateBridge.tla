------------------------ MODULE MCLegacyRateBridge ------------------------
(* Small instances of LegacyRateBridge for TLC.                            *)
EXTENDS LegacyRateBridge, TLC

Interchangeable == Permutations(Txn) \cup Permutations(Rate)

\* Death is possible everywhere but between saving an adopted request and
\* removing the operator's file.
AfterAdoption == PC \ {"down", "unlink-command"}

\* ... or only while the worker is in its loop.
InLoop == {"loop", "poll", "write", "read"}
=============================================================================

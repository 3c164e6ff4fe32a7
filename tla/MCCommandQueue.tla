-------------------------- MODULE MCCommandQueue --------------------------
(* Small instances of CommandQueue for TLC.                                *)
EXTENDS CommandQueue, TLC

CONSTANTS c1, c2, c3, t1, t2, t3, d1

Rates == [kind |-> "rate", tid |-> t1, link |-> None]
Reboots == [kind |-> "reboot", tid |-> t1, link |-> None]

\* Rate changes of three identities, one for legacy firmware and one with a
\* decision link.
Distinct ==
  c1 :> Rates @@ c2 :> [Rates EXCEPT !.tid = t2, !.kind = "legacy"] @@ c3 :> [Rates EXCEPT !.tid = t3, !.link = d1]

\* Two rate changes that share an identity and differ in the link, and a
\* reboot.
Shared == c1 :> Rates @@ c2 :> [Rates EXCEPT !.link = d1] @@ c3 :> Reboots

One == c1 :> Rates
=============================================================================

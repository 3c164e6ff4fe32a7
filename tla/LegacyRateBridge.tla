------------------------- MODULE LegacyRateBridge -------------------------
(***************************************************************************)
(* The rate change for firmware that predates the control protocol         *)
(* (LegacyRateControlBridge): one CWS_SET_PING_HZ line, an answer that     *)
(* names no command, and heartbeats as the only sight of the sensor before *)
(* and after.  At most one restore follows, to the rate of the heartbeat   *)
(* captured first.                                                         *)
(*                                                                         *)
(* As in FirmwareBridge, pending stands for the pending file and for what  *)
(* the worker holds in memory.  Two handlers save twice, the answer first  *)
(* and its consequence after; a process that dies in between is one that   *)
(* never read the answer, but for the answer's place in the frozen facts.  *)
(***************************************************************************)
EXTENDS Naturals, Sequences

CONSTANTS
  Txn,          \* transaction identities; each request has a new one
  Rate,         \* packet rates, in Hz
  None,         \* an absent file or field
  CrashPoints,  \* control points at which the process may die
  Patient,      \* do deadlines pass only when nothing is under way
  MaxCrashes, MaxReboots,  \* how often
  Backlog       \* messages a direction of the line can hold

PC == {"loop", "poll", "write", "read", "shut", "unlink-command", "seal", "status",
       "unlink-pending", "stopped", "down"}

ASSUME LegacyConstants ==
  CrashPoints \subseteq PC \ {"down"} /\ Patient \in BOOLEAN
  /\ {MaxCrashes, MaxReboots, Backlog} \subseteq Nat

VARIABLES
  requests,   \* transactions not requested yet
  command,    \* control/<source>.json
  pending,    \* control-pending/<source>.json
  status,     \* control-status/<source>.json
  terminals,  \* per transaction, its terminal events in the ledger
  heartbeat,  \* last_heartbeat, in memory only
  pc, then,   \* where the worker is, and where a subroutine returns
  device,     \* the firmware: boot, rate and whose doing the rate is
  wire, line, \* from and to the worker
  budget      \* crashes and reboots to come

files == <<requests, command, pending, status, terminals>>
worker == <<heartbeat, pc, then>>
link == <<device, wire, line>>
vars == <<files, worker, link, budget>>

-----------------------------------------------------------------------------
Terminal == {"committed", "failed-safe", "rolled-back", "rollback-failed"}

\* The phases in the order a transaction goes through them.
Phases == <<"queued", "apply-await-ack", "await-postcondition", "restore-pending",
            "restore-await-ack", "await-restore-postcondition">>
Phase == {Phases[i] : i \in 1..6}
Rank(phase) == CHOOSE i \in 1..6 : Phases[i] = phase

AwaitingAck == {"apply-await-ack", "restore-await-ack"}
AwaitingHeartbeat == {"await-postcondition", "await-restore-postcondition"}
Restoring == {"restore-pending", "restore-await-ack", "await-restore-postcondition"}

Maybe(S) == S \cup {None}
Heartbeat == [hz : Rate, boot : Nat]
Line == [kind : {"heartbeat", "applied", "rejected"}, hz : Rate, current : Rate, boot : Nat]

PendingType ==
  [tid : Txn, hz : Rate, phase : Phase, prior : Maybe(Heartbeat),
   attempted : BOOLEAN, intent : Maybe(Terminal)]

\* None is a value apart from what it stands in for.
ASSUME NoneAssumption ==
  None \notin Txn /\ None \notin Terminal /\ None \notin Heartbeat /\ None \notin PendingType

\* Slip: the request is saved as it came.
AdoptedBare(c) == c

Adopted(c) == [tid |-> c.tid, hz |-> c.hz, phase |-> "queued", prior |-> None,
               attempted |-> FALSE, intent |-> None]

Settled(t) == terminals[t] # <<>>

\* Slip: the requested rate, also when restoring.
ExpectedRequested(s) == s.hz

\* The rate the current phase is about.
Expected(s) == IF s.phase \in Restoring THEN s.prior.hz ELSE s.hz

Transmit(queue, m) == {queue} \cup (IF Len(queue) < Backlog THEN {Append(queue, m)} ELSE {})

-----------------------------------------------------------------------------
(* Steps of the bridge.                                                    *)

Keep(s, next) == pending' = s /\ pc' = next /\ UNCHANGED then

Finish(s, term, next) ==
  pending' = [s EXCEPT !.intent = term] /\ pc' = "seal" /\ then' = next

BeginRestore(s, next) ==
  IF s.prior = None \/ s.attempted
    THEN Finish(s, "rollback-failed", next)
    ELSE Keep([s EXCEPT !.attempted = TRUE, !.phase = "restore-pending"], next)

\* Slip: a restore is repeated until it works.
DisappointedRetry(s, next) ==
  Keep([s EXCEPT !.attempted = TRUE, !.phase = "restore-pending"], next)

\* What becomes of a transaction whose sensor is not as expected.
Disappointed(s, next) ==
  IF s.phase \in Restoring THEN Finish(s, "rollback-failed", next) ELSE BeginRestore(s, next)

-----------------------------------------------------------------------------
(* The worker thread.                                                      *)

\* _adopt_queued
Adopt(next) ==
  /\ pending = None /\ command # None
  /\ pending' = Adopted(command)
  /\ pc' = "unlink-command" /\ then' = next
  /\ UNCHANGED <<requests, command, status, terminals, heartbeat, link, budget>>

UnlinkCommand ==
  /\ pc = "unlink-command"
  /\ command' = None
  /\ pc' = then /\ then' = "loop"
  /\ UNCHANGED <<requests, pending, status, terminals, heartbeat, link, budget>>

Polling == pc \in {"loop", "poll"}

PollAdopt == Polling /\ Adopt("poll")

\* Nothing to do, or a deadline that has not passed.
PollWait ==
  /\ Polling
  /\ pending = None => command = None
  /\ pending # None => pending.phase # "restore-pending"
  /\ pc' = "read"
  /\ UNCHANGED <<files, heartbeat, then, link, budget>>

\* A fresh heartbeat becomes the prior state, and the rate may be sent.
PollCapture ==
  /\ Polling /\ pending # None /\ pending.phase = "queued" /\ heartbeat # None
  /\ Keep([pending EXCEPT !.prior = heartbeat, !.phase = "apply-await-ack"], "write")
  /\ UNCHANGED <<requests, command, status, terminals, heartbeat, link, budget>>

\* No heartbeat came in time; how old one is is left open.
PollStale ==
  /\ Polling /\ pending # None /\ pending.phase = "queued"
  /\ Finish(pending, "failed-safe", "read")
  /\ UNCHANGED <<requests, command, status, terminals, heartbeat, link, budget>>

PollRestore ==
  /\ Polling /\ pending # None /\ pending.phase = "restore-pending"
  /\ Keep([pending EXCEPT !.phase = "restore-await-ack"], "write")
  /\ UNCHANGED <<requests, command, status, terminals, heartbeat, link, budget>>

\* _send writes the line after it has saved the phase; the write may be lost.
Write ==
  /\ pc = "write"
  /\ wire' \in Transmit(wire, [tid |-> pending.tid, hz |-> Expected(pending)])
  /\ pc' = "read"
  /\ UNCHANGED <<files, heartbeat, then, device, line, budget>>

PollTimeout ==
  /\ Polling /\ pending # None
  /\ pending.phase \in AwaitingAck \cup AwaitingHeartbeat
  /\ Patient => wire = <<>> /\ line = <<>>
  /\ Disappointed(pending, "read")
  /\ UNCHANGED <<requests, command, status, terminals, heartbeat, link, budget>>

ReadNothing ==
  /\ pc = "read"
  /\ pc' = "loop"
  /\ UNCHANGED <<files, heartbeat, then, link, budget>>

\* What a heartbeat means to a transaction that waits for one.
Compare(s, h) ==
  IF h.boot = s.prior.boot /\ h.hz = Expected(s)
    THEN Finish(s, IF s.phase \in Restoring THEN "rolled-back" ELSE "committed", "loop")
    ELSE Disappointed(s, "loop")

\* observe_line
ReadHeartbeat ==
  /\ pc = "read" /\ line # <<>> /\ Head(line).kind = "heartbeat"
  /\ line' = Tail(line)
  /\ heartbeat' = [hz |-> Head(line).hz, boot |-> Head(line).boot]
  /\ IF pending # None /\ pending.phase \in AwaitingHeartbeat
       THEN Compare(pending, heartbeat')
       ELSE pc' = "loop" /\ UNCHANGED <<pending, then>>
  /\ UNCHANGED <<requests, command, status, terminals, device, wire, budget>>

\* An exact acknowledgement lets the transaction wait for its heartbeat.
Acknowledge(s, r) ==
  IF r.hz = Expected(s)
    THEN Keep([s EXCEPT !.phase = IF s.phase \in Restoring THEN "await-restore-postcondition"
                                  ELSE "await-postcondition"], "loop")
    ELSE Disappointed(s, "loop")

Reject(s, r) ==
  IF s.phase = "apply-await-ack" /\ r.hz = s.hz /\ r.current = s.prior.hz
    THEN Finish(s, "failed-safe", "loop")
    ELSE Disappointed(s, "loop")

\* handle_line: an answer nobody waits for only leaves an event.
ReadAnswer ==
  /\ pc = "read" /\ line # <<>> /\ Head(line).kind # "heartbeat"
  /\ line' = Tail(line)
  /\ CASE pending = None \/ pending.phase \notin AwaitingAck ->
             pc' = "loop" /\ UNCHANGED <<pending, then>>
       [] pending # None /\ pending.phase \in AwaitingAck /\ Head(line).kind = "applied" ->
             Acknowledge(pending, Head(line))
       [] OTHER -> Reject(pending, Head(line))
  /\ UNCHANGED <<requests, command, status, terminals, heartbeat, device, wire, budget>>

\* Slip: whatever was sent was not confirmed, hence not done.
ShutdownOutcomeSafe(s) == "failed-safe"

ShutdownOutcome(s) == IF s.phase = "queued" THEN "failed-safe" ELSE "rollback-failed"

\* stop_event is tested at the head of the loop.
Stopping == pc \in {"loop", "shut"}

ShutdownIdle ==
  /\ Stopping /\ pending = None /\ command = None
  /\ pc' = "stopped"
  /\ UNCHANGED <<files, heartbeat, then, link, budget>>

ShutdownAdopt == Stopping /\ Adopt("shut")

ShutdownSeal ==
  /\ Stopping /\ pending # None
  /\ Finish(pending, ShutdownOutcome(pending), "stopped")
  /\ UNCHANGED <<requests, command, status, terminals, heartbeat, link, budget>>

\* _seal_terminal: terminal event, status file, pending file.
SealTerminal ==
  /\ pc = "seal"
  /\ terminals' = [terminals EXCEPT ![pending.tid] = Append(@, pending.intent)]
  /\ pc' = "status"
  /\ UNCHANGED <<requests, command, pending, status, heartbeat, then, link, budget>>

WriteStatus ==
  /\ pc = "status"
  /\ status' = [tid |-> pending.tid, term |-> pending.intent]
  /\ pc' = "unlink-pending"
  /\ UNCHANGED <<requests, command, pending, terminals, heartbeat, then, link, budget>>

UnlinkPending ==
  /\ pc = "unlink-pending"
  /\ pending' = None
  /\ pc' = then /\ then' = "loop"
  /\ UNCHANGED <<requests, command, status, terminals, heartbeat, link, budget>>

\* _load_pending of a transaction the ledger knows to have ended.
LoadSettled ==
  /\ pc = "down" /\ pending # None /\ Settled(pending.tid)
  /\ status' = [tid |-> pending.tid, term |-> terminals[pending.tid][Len(terminals[pending.tid])]]
  /\ pc' = "unlink-pending"
  /\ UNCHANGED <<requests, command, pending, terminals, heartbeat, then, link, budget>>

\* Slip: a command that was awaiting its answer is sent again.
LoadResend ==
  /\ pc = "down"
  /\ pending # None => ~Settled(pending.tid)
  /\ pc' = CASE pending # None /\ pending.intent # None -> "seal"
             [] pending # None /\ pending.intent = None /\ pending.phase \in AwaitingAck -> "write"
             [] OTHER -> "loop"
  /\ UNCHANGED <<files, heartbeat, then, link, budget>>

Load ==
  /\ pc = "down"
  /\ pending # None => ~Settled(pending.tid)
  /\ pc' = IF pending # None /\ pending.intent # None THEN "seal" ELSE "loop"
  /\ UNCHANGED <<files, heartbeat, then, link, budget>>

Worker ==
  \/ UnlinkCommand \/ PollAdopt \/ PollWait \/ PollCapture \/ PollStale \/ PollRestore
  \/ Write \/ PollTimeout \/ ReadNothing \/ ReadHeartbeat \/ ReadAnswer
  \/ ShutdownIdle \/ ShutdownAdopt \/ ShutdownSeal
  \/ SealTerminal \/ WriteStatus \/ UnlinkPending \/ LoadSettled \/ Load

-----------------------------------------------------------------------------
(* Operators, the death of the process, the firmware.                      *)

\* queue_legacy_rate_transaction
Queue(t, hz) ==
  /\ t \in requests /\ command = None /\ pending = None
  /\ requests' = requests \ {t}
  /\ command' = [tid |-> t, hz |-> hz]
  /\ UNCHANGED <<pending, status, terminals, worker, link, budget>>

Spend(what) == budget[what] > 0 /\ budget' = [budget EXCEPT ![what] = @ - 1]

Crash ==
  /\ pc \in CrashPoints
  /\ Spend("crashes")
  /\ pc' = "down" /\ then' = "loop" /\ heartbeat' = None
  /\ UNCHANGED <<files, link>>

Host == Crash \/ \E t \in Txn, hz \in Rate : Queue(t, hz)

Say(kind, hz, d) == [kind |-> kind, hz |-> hz, current |-> d.hz, boot |-> d.boot]

\* The firmware obeys or refuses, and its answer may be lost.
Apply ==
  /\ wire # <<>>
  /\ wire' = Tail(wire)
  /\ device' = [device EXCEPT !.hz = Head(wire).hz, !.owner = Head(wire).tid]
  /\ line' \in Transmit(line, Say("applied", Head(wire).hz, device'))
  /\ UNCHANGED <<files, worker, budget>>

Refuse ==
  /\ wire # <<>>
  /\ wire' = Tail(wire)
  /\ line' \in Transmit(line, Say("rejected", Head(wire).hz, device))
  /\ UNCHANGED <<files, worker, device, budget>>

Beat ==
  /\ Len(line) < Backlog
  /\ line' = Append(line, Say("heartbeat", device.hz, device))
  /\ UNCHANGED <<files, worker, device, wire, budget>>

Reboot(hz) ==
  /\ Spend("reboots")
  /\ device' = [boot |-> device.boot + 1, hz |-> hz, owner |-> None]
  /\ UNCHANGED <<files, worker, wire, line>>

Device == Apply \/ Refuse \/ Beat \/ \E hz \in Rate : Reboot(hz)

-----------------------------------------------------------------------------
Init ==
  /\ requests = Txn /\ command = None /\ pending = None /\ status = None
  /\ terminals = [t \in Txn |-> <<>>]
  /\ heartbeat = None /\ pc = "loop" /\ then = "loop"
  /\ \E hz \in Rate : device = [boot |-> 1, hz |-> hz, owner |-> None]
  /\ wire = <<>> /\ line = <<>>
  /\ budget = [crashes |-> MaxCrashes, reboots |-> MaxReboots]

Terminated == pc = "stopped" /\ UNCHANGED vars

Next == Worker \/ Host \/ Device \/ Terminated

Spec == Init /\ [][Next]_vars

\* The thread runs, the clock passes every deadline, systemd restarts.
LiveSpec == Spec /\ WF_vars(Worker) /\ SF_vars(PollStale) /\ SF_vars(PollTimeout)

-----------------------------------------------------------------------------
(* Every variable stays in its set.                                        *)
TypeOK ==
  /\ requests \subseteq Txn
  /\ command \in Maybe([tid : Txn, hz : Rate])
  /\ pending \in Maybe(PendingType)
  /\ status \in Maybe([tid : Txn, term : Terminal])
  /\ terminals \in [Txn -> Seq(Terminal)]
  /\ heartbeat \in Maybe(Heartbeat)
  /\ pc \in PC /\ then \in {"loop", "poll", "read", "shut", "stopped"}
  /\ device \in [boot : Nat, hz : Rate, owner : Maybe(Txn)]
  /\ wire \in Seq([tid : Txn, hz : Rate]) /\ line \in Seq(Line)
  /\ budget \in [{"crashes", "reboots"} -> Nat]

\* The sensor is written to only on the way into a new phase, and a phase is
\* never left for an earlier one: no crash, timeout or stray answer makes the
\* bridge repeat a command that may have been obeyed (_send saves first, and
\* a restart waits for the answer instead).
ForwardOnly ==
  [][pending # None /\ pending' # None /\ pending'.tid = pending.tid
       => /\ Rank(pending'.phase) >= Rank(pending.phase)
          /\ pc # "write" /\ pc' = "write" => Rank(pending'.phase) > Rank(pending.phase)]_vars

\* A success is this transaction's own: when it is decided to be committed
\* (rolled-back), the rate in force is the requested (captured) one, set by
\* its command, unless the sensor has rebooted since (observe_line).
VerdictTruthful ==
  pending # None /\ pending.intent \in {"committed", "rolled-back"}
    => \/ device.boot # pending.prior.boot
       \/ /\ device.owner = pending.tid
          /\ device.hz = IF pending.intent = "committed" THEN pending.hz ELSE pending.prior.hz

\* Every adopted transaction ends, whatever the sensor does or says.
EveryAdoptionSettles == pending # None ~> pending = None

\* The promise both kinds of rate change make: decided once, failed-safe only
\* when the sensor does not obey it, and never moving the sensor afterwards.
Abstract == INSTANCE RateTransaction WITH
  outcome <- [t \in Txn |-> IF Settled(t) THEN terminals[t][Len(terminals[t])] ELSE "open"],
  rate <- device.hz, owner <- device.owner

ImplementsRateTransaction == Abstract!Spec
=============================================================================

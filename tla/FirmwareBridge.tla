-------------------------- MODULE FirmwareBridge --------------------------
(***************************************************************************)
(* The persistent PREPARE / APPLY / VERIFY / RESTORE state machine that    *)
(* changes the packet rate of one sensor (FirmwareControlBridge), driven   *)
(* by the loop of its serial worker, fed by the operator's command file,   *)
(* talking over a lossy serial line to a firmware that may reboot or drift *)
(* and running in a process that may die between any two durable writes.   *)
(*                                                                         *)
(* In memory the bridge holds what it last wrote to the pending file: each *)
(* handler ends in _save, or in _finish, which saves first.  So one        *)
(* variable, pending, stands for both.                                     *)
(*                                                                         *)
(* The bridge is one of three readers of the command file in its worker;   *)
(* that another may take a request first is CommandQueue's subject.        *)
(***************************************************************************)
EXTENDS Naturals, Sequences

CONSTANTS
  Txn,          \* transaction identities
  Rate,         \* packet rates, in Hz
  None,         \* an absent file or field
  CrashPoints,  \* control points at which the process may die
  IdReuse,      \* may an operator pass --transaction-id of an earlier request
  MaxRequests, MaxCrashes, MaxReboots, MaxDrifts, MaxFaults,  \* how often
  MaxTroubles,  \* how many crashes and faults together
  Backlog       \* messages a direction of the line can hold

PC == {"loop", "poll", "read", "query", "shut", "unlink-command", "seal",
       "status", "unlink-pending", "stopped", "down"}

ASSUME CrashAssumption == CrashPoints \subseteq PC \ {"down"} /\ IdReuse \in BOOLEAN
ASSUME BoundAssumption ==
  {MaxRequests, MaxCrashes, MaxReboots, MaxDrifts, MaxFaults, MaxTroubles, Backlog} \subseteq Nat

VARIABLES
  command,  \* control/<source>.json: the queued request
  pending,  \* control-pending/<source>.json: the transaction in flight
  status,   \* control-status/<source>.json: the last result
  ledger,   \* per transaction: is it known, and its terminal events
  pc, then, \* where the worker thread is, and where a subroutine returns
  device,   \* the firmware
  wire,     \* lines from the worker to the firmware
  line,     \* lines from the firmware to the worker
  budget    \* what the environment may still do

files == <<command, pending, status, ledger>>
worker == <<pc, then>>
link == <<device, wire, line>>
vars == <<files, worker, link, budget>>

-----------------------------------------------------------------------------
(* What the files, the lines and the firmware hold.                        *)

Sends == {"state-before", "prepare", "apply", "verify", "recover-state",
          "restore", "restore-verify", "query"}
Terminal == {"committed", "failed-safe", "rolled-back", "rollback-failed"}

Cid == Sends \X Nat
Queried == {"prepare", "apply", "restore"} \X Nat
Version == Nat \X Nat
Maybe(S) == S \cup {None}

FactsType ==
  [term : Terminal, hz : Rate, prior : Maybe(Rate), boot : Maybe(Nat),
   epoch : Maybe(Nat), applied : Maybe(Version)]

PendingType ==
  [tid : Txn, hz : Rate, phase : Sends \cup {"queued"}, awaiting : Maybe(Cid),
   acked : SUBSET Cid, queries : Nat, restores : Nat, target : Maybe(Queried),
   recovering : Maybe(Sends), prior : Maybe(Rate), boot : Maybe(Nat),
   epoch : Maybe(Nat), applied : Maybe(Version), restored : Maybe(Version),
   intent : Maybe(Terminal)]

RequestType ==
  [op : Sends, tid : Txn, cid : Cid, epoch : Maybe(Nat), hz : Maybe(Rate),
   target : Maybe(Cid)]

ReplyType ==
  [op : Sends \cup {"get-state", "odd"}, tid : Txn, cid : Cid,
   verdict : {"ok", "prepared", "applied", "restored", "refused", "uncertain",
              "unknown-command"},
   boot : Nat, epoch : Nat, hz : Rate]

DeviceType ==
  [boot : Nat, epoch : Nat, hz : Rate, prepared : Maybe([tid : Txn, hz : Rate]),
   retained : SUBSET ReplyType, owner : Maybe(Txn)]

\* None is a value apart from what it stands in for.
ASSUME NoneAssumption ==
  /\ None \notin Txn /\ None \notin Rate /\ None \notin Nat /\ None \notin Terminal
  /\ None \notin Sends /\ None \notin Cid /\ None \notin Queried /\ None \notin Version
  /\ None \notin [tid : Txn, hz : Rate] /\ None \notin [tid : Txn, facts : FactsType]
  /\ None \notin PendingType

-----------------------------------------------------------------------------
(* The pending transaction.                                                *)

\* A command identity is the transaction's with a suffix per phase; only
\* queries and restores are numbered.
CommandId(phase, index) == <<phase, IF phase \in {"query", "restore"} THEN index ELSE 0>>

Fresh(c) ==
  [tid |-> c.tid, hz |-> c.hz, phase |-> "queued", awaiting |-> None,
   acked |-> {}, queries |-> 0, restores |-> 0, target |-> None,
   recovering |-> None, prior |-> None, boot |-> None, epoch |-> None,
   applied |-> None, restored |-> None, intent |-> None]

\* The facts a terminal event freezes and the status file repeats.
Facts(s) == [term |-> s.intent, hz |-> s.hz, prior |-> s.prior, boot |-> s.boot,
             epoch |-> s.epoch, applied |-> s.applied]

Settled(t) == ledger[t].terminals # <<>>
LastFacts(t) == ledger[t].terminals[Len(ledger[t].terminals)]

-----------------------------------------------------------------------------
(* The serial line: a write may be lost, also when the line is full.       *)

Transmit(queue, m) == {queue} \cup (IF Len(queue) < Backlog THEN {Append(queue, m)} ELSE {})

Request(s) ==
  LET op == s.awaiting[1] IN
  [op |-> op, tid |-> s.tid, cid |-> s.awaiting,
   epoch |-> IF op \in {"prepare", "restore"} THEN s.epoch ELSE None,
   hz |-> CASE op = "prepare" -> s.hz [] op = "restore" -> s.prior [] OTHER -> None,
   target |-> IF op = "query" THEN s.target ELSE None]

-----------------------------------------------------------------------------
(* Steps of the bridge.  Each saves the pending file and says where the    *)
(* worker goes on.                                                         *)

Keep(s, next) == pending' = s /\ pc' = next /\ UNCHANGED then

\* _finish: the intent is durable before anything is told of it.
Finish(s, term, next) ==
  pending' = [s EXCEPT !.intent = term] /\ pc' = "seal" /\ then' = next

RestoreLimit == 2

BeginRestore(s, next) ==
  IF s.restores >= RestoreLimit \/ s.prior = None \/ s.epoch = None
    THEN Finish(s, "rollback-failed", next)
    ELSE Keep([s EXCEPT !.phase = "restore", !.awaiting = None], next)

\* Slip: any failed APPLY counts as without effect.
FailForPhaseApplySafe(s, phase, verdict, next) ==
  CASE phase \in {"state-before", "prepare", "apply"} -> Finish(s, "failed-safe", next)
    [] phase \in {"verify", "recover-state"} -> BeginRestore(s, next)
    [] OTHER -> Finish(s, "rollback-failed", next)

FailForPhase(s, phase, verdict, next) ==
  CASE phase \in {"state-before", "prepare"} \/ (phase = "apply" /\ verdict # "uncertain") ->
         Finish(s, "failed-safe", next)
    [] phase \in {"verify", "recover-state"} \/ (phase = "apply" /\ verdict = "uncertain") ->
         BeginRestore(s, next)
    [] OTHER -> Finish(s, "rollback-failed", next)

\* What a query that found or returned nothing leads to.
Unretained(s, next) ==
  IF s.target[1] = "prepare"
    THEN Finish(s, "failed-safe", next)
    ELSE Keep([s EXCEPT !.recovering = s.target[1], !.phase = "recover-state"], next)

\* _send_phase: save the awaited identity, then write the line.
Numbered(s, phase) ==
  LET q == s.queries + (IF phase = "query" THEN 1 ELSE 0)
      x == s.restores + (IF phase = "restore" THEN 1 ELSE 0)
  IN [s EXCEPT !.queries = q, !.restores = x, !.phase = phase,
               !.awaiting = CommandId(phase, IF phase = "query" THEN q ELSE x)]

SendPhase(phase) ==
  LET s == Numbered(pending, phase) IN
  /\ Keep(s, "read")
  /\ wire' \in Transmit(wire, Request(s))

\* Slip: the mutation is left to the next poll to send again.
AskAfterByRetry(s, cid, next) == Keep([s EXCEPT !.target = cid], next)

\* Slip: the query's target is not noted.
AskAfterUnnoted(s, cid, next) == Keep(s, "query")

\* A mutating command without a reply is asked after, not repeated.
AskAfter(s, cid, next) == Keep([s EXCEPT !.target = cid], "query")

\* Slip: GET_STATE is repeated until it is answered.
UnansweredForever(s, phase, next) == Keep(s, next)

\* A GET_STATE without a reply.
Unanswered(s, phase, next) ==
  CASE phase = "state-before" -> Finish(s, "failed-safe", next)
    [] phase = "verify" -> BeginRestore(s, next)
    [] OTHER -> Finish(s, "rollback-failed", next)

OnTimeout(next) ==
  LET asked == pending.awaiting
      s == [pending EXCEPT !.awaiting = None]
  IN CASE asked[1] = "query" -> Unretained(s, next)
       [] asked[1] \in {"prepare", "apply", "restore"} -> AskAfter(s, asked, next)
       [] OTHER -> Unanswered(s, asked[1], next)

-----------------------------------------------------------------------------
(* Replies.  A verdict merges the reply's status with its reason.          *)

Expected(phase) ==
  IF phase \in {"prepare", "apply", "restore"} THEN phase ELSE "get-state"

Accepted(phase) ==
  CASE phase = "prepare" -> "prepared" [] phase = "apply" -> "applied"
    [] phase = "restore" -> "restored" [] OTHER -> "ok"

\* Slip: only the rate is compared.
IsDesiredRate(s, r) == r.hz = s.hz

IsDesired(s, r) ==
  r.hz = s.hz /\ (s.applied = None \/ s.applied = <<r.boot, r.epoch>>)

RestoreHolds(s, r) == r.hz = s.prior /\ s.restored = <<r.boot, r.epoch>>

RecoverState(s, r) ==
  IF IsDesired(s, r) /\ s.recovering = "apply" THEN Finish(s, "committed", "loop")
  ELSE IF r.hz = s.prior
    THEN Finish(s, IF s.recovering = "restore" THEN "rolled-back" ELSE "failed-safe", "loop")
    ELSE BeginRestore(s, "loop")

Advance(s, phase, r) ==
  CASE phase = "state-before" ->
         Keep([s EXCEPT !.prior = r.hz, !.boot = r.boot, !.phase = "prepare"], "loop")
    [] phase = "prepare" -> Keep([s EXCEPT !.phase = "apply"], "loop")
    [] phase = "apply" ->
         Keep([s EXCEPT !.applied = <<r.boot, r.epoch>>, !.phase = "verify"], "loop")
    [] phase = "verify" /\ IsDesired(s, r) -> Finish(s, "committed", "loop")
    [] phase = "verify" /\ ~IsDesired(s, r) -> BeginRestore(s, "loop")
    [] phase = "recover-state" -> RecoverState(s, r)
    [] phase = "restore" ->
         Keep([s EXCEPT !.restored = <<r.boot, r.epoch>>, !.phase = "restore-verify"], "loop")
    [] phase = "restore-verify" ->
         Finish(s, IF RestoreHolds(s, r) THEN "rolled-back" ELSE "rollback-failed", "loop")

AcceptPhaseReply(s, phase, r) ==
  CASE r.op # Expected(phase) -> FailForPhase(s, phase, "unexpected", "loop")
    [] r.op = Expected(phase) /\ phase # "state-before" /\ r.boot # s.boot ->
         Finish(s, IF phase = "prepare" THEN "failed-safe" ELSE "rollback-failed", "loop")
    [] r.op = Expected(phase) /\ (phase = "state-before" \/ r.boot = s.boot)
         /\ r.verdict # Accepted(phase) -> FailForPhase(s, phase, r.verdict, "loop")
    [] OTHER -> Advance(s, phase, r)

\* The reply answers the awaited command, or the mutation a query asks about.
Correlated(s, r) ==
  /\ r.tid = s.tid /\ r.cid \notin s.acked /\ s.awaiting # None
  /\ \/ r.cid = s.awaiting
     \/ s.awaiting[1] = "query" /\ r.cid = s.target

HandleReply(r) ==
  LET s == [pending EXCEPT !.awaiting = None, !.acked = @ \cup {r.cid}, !.epoch = r.epoch]
      asked == pending.awaiting
  IN CASE asked[1] = "query" /\ r.cid = asked /\ r.verdict = "unknown-command" ->
            Unretained(s, "loop")
       [] asked[1] = "query" /\ r.cid = asked /\ r.verdict # "unknown-command" ->
            Finish(s, "rollback-failed", "loop")
       [] asked[1] = "query" /\ r.cid # asked -> AcceptPhaseReply(s, pending.target[1], r)
       [] OTHER -> AcceptPhaseReply(s, asked[1], r)

-----------------------------------------------------------------------------
(* The worker thread.                                                      *)

\* Slip: the request is owned without being registered.
AdoptUnregistered(next) ==
  /\ pending = None /\ command # None
  /\ pending' = Fresh(command)
  /\ pc' = "unlink-command" /\ then' = next
  /\ UNCHANGED <<command, status, ledger, link, budget>>

\* _adopt_queued: register what the operator could not, then own the request.
Adopt(next) ==
  /\ pending = None /\ command # None
  /\ ledger' = [ledger EXCEPT ![command.tid].known = TRUE]
  /\ pending' = Fresh(command)
  /\ pc' = "unlink-command" /\ then' = next
  /\ UNCHANGED <<command, status, link, budget>>

UnlinkCommand ==
  /\ pc = "unlink-command"
  /\ command' = None
  /\ pc' = then /\ then' = "loop"
  /\ UNCHANGED <<pending, status, ledger, link, budget>>

\* The loop tests stop_event at its head and nowhere else, so that the event
\* is set is a choice made there.
Polling == pc \in {"loop", "poll"}

PollIdle ==
  /\ Polling /\ pending = None /\ command = None
  /\ pc' = "read"
  /\ UNCHANGED <<files, then, link, budget>>

PollAdopt == Polling /\ Adopt("poll")

PollSend ==
  /\ Polling /\ pending # None /\ pending.awaiting = None
  /\ SendPhase(IF pending.phase = "queued" THEN "state-before" ELSE pending.phase)
  /\ UNCHANGED <<command, status, ledger, device, line, budget>>

PollWait ==
  /\ Polling /\ pending # None /\ pending.awaiting # None
  /\ pc' = "read"
  /\ UNCHANGED <<files, then, link, budget>>

\* The deadline passed; when it does is left open.
PollTimeout ==
  /\ Polling /\ pending # None /\ pending.awaiting # None
  /\ OnTimeout("read")
  /\ UNCHANGED <<command, status, ledger, link, budget>>

SendQuery ==
  /\ pc = "query"
  /\ SendPhase("query")
  /\ UNCHANGED <<command, status, ledger, device, line, budget>>

ReadNothing ==
  /\ pc = "read"
  /\ pc' = "loop"
  /\ UNCHANGED <<files, then, link, budget>>

\* Late, duplicate, mismatched and unsolicited replies only leave an event.
ReadIgnored ==
  /\ pc = "read" /\ line # <<>>
  /\ pending # None => ~Correlated(pending, Head(line))
  /\ line' = Tail(line) /\ pc' = "loop"
  /\ UNCHANGED <<files, then, device, wire, budget>>

ReadReply ==
  /\ pc = "read" /\ line # <<>>
  /\ pending # None /\ Correlated(pending, Head(line))
  /\ line' = Tail(line)
  /\ HandleReply(Head(line))
  /\ UNCHANGED <<command, status, ledger, device, wire, budget>>

\* Slip: a stop is always reported as harmless.
ShutdownOutcomeSafe(s) == "failed-safe"

\* Slip: a stop is reported by the phase it met.
ShutdownOutcomePhase(s) == s.phase

ShutdownOutcome(s) ==
  IF s.phase \in {"queued", "state-before", "prepare"} THEN "failed-safe" ELSE "rollback-failed"

Stopping == pc \in {"loop", "shut"}

ShutdownIdle ==
  /\ Stopping /\ pending = None /\ command = None
  /\ pc' = "stopped"
  /\ UNCHANGED <<files, then, link, budget>>

ShutdownAdopt == Stopping /\ Adopt("shut")

ShutdownSeal ==
  /\ Stopping /\ pending # None
  /\ Finish(pending, ShutdownOutcome(pending), "stopped")
  /\ UNCHANGED <<command, status, ledger, link, budget>>

\* Slip: the status file first, the terminal event after it.
SealStatusFirst ==
  /\ pc = "seal"
  /\ status' = [tid |-> pending.tid, facts |-> Facts(pending)]
  /\ pc' = "status"
  /\ UNCHANGED <<command, pending, ledger, then, link, budget>>

\* _seal_terminal: terminal event, status file, pending file, in this order.
SealTerminal ==
  /\ pc = "seal"
  /\ ledger' = [ledger EXCEPT ![pending.tid].terminals = Append(@, Facts(pending))]
  /\ pc' = "status"
  /\ UNCHANGED <<command, pending, status, then, link, budget>>

WriteStatus ==
  /\ pc = "status"
  /\ status' = [tid |-> pending.tid, facts |-> Facts(pending)]
  /\ pc' = "unlink-pending"
  /\ UNCHANGED <<command, pending, ledger, then, link, budget>>

UnlinkPending ==
  /\ pc = "unlink-pending"
  /\ pending' = None
  /\ pc' = then /\ then' = "loop"
  /\ UNCHANGED <<command, status, ledger, link, budget>>

\* The constructor of a new worker: _load_pending, then the intent.  A status
\* file that already holds these facts is left alone, which changes nothing.
LoadSettled ==
  /\ pc = "down" /\ pending # None /\ Settled(pending.tid)
  /\ status' = [tid |-> pending.tid, facts |-> LastFacts(pending.tid)]
  /\ pc' = "unlink-pending"
  /\ UNCHANGED <<command, pending, ledger, then, link, budget>>

\* Slip: the ledger is not asked whether the transaction has ended.
LoadUnasked ==
  /\ pc = "down"
  /\ pc' = IF pending # None /\ pending.intent # None THEN "seal" ELSE "loop"
  /\ UNCHANGED <<files, then, link, budget>>

\* Slip: a restarted worker starts with an empty slate.
LoadNothing ==
  /\ pc = "down"
  /\ pending' = None /\ pc' = "loop"
  /\ UNCHANGED <<command, status, ledger, then, link, budget>>

Load ==
  /\ pc = "down"
  /\ pending # None => ~Settled(pending.tid)
  /\ pc' = IF pending # None /\ pending.intent # None THEN "seal" ELSE "loop"
  /\ UNCHANGED <<files, then, link, budget>>

Worker ==
  \/ UnlinkCommand \/ PollIdle \/ PollAdopt \/ PollSend \/ PollWait \/ PollTimeout
  \/ SendQuery \/ ReadNothing \/ ReadIgnored \/ ReadReply
  \/ ShutdownIdle \/ ShutdownAdopt \/ ShutdownSeal
  \/ SealTerminal \/ WriteStatus \/ UnlinkPending \/ LoadSettled \/ Load

-----------------------------------------------------------------------------
(* The rest of the host: operators, the run that stops, the death of the   *)
(* process (systemd starts it again).                                      *)

Spend(what) == budget[what] > 0 /\ budget' = [budget EXCEPT ![what] = @ - 1]

\* An operator may die after writing the request and before its event.
QueueRate(t, hz, logged) ==
  /\ Spend("requests")
  /\ command = None /\ pending = None
  /\ IdReuse \/ ~ledger[t].known
  /\ command' = [tid |-> t, hz |-> hz]
  /\ ledger' = [ledger EXCEPT ![t].known = @ \/ logged]
  /\ UNCHANGED <<pending, status, worker, link>>

Crash ==
  /\ pc \in CrashPoints
  /\ Spend("crashes")
  /\ pc' = "down" /\ then' = "loop"
  /\ UNCHANGED <<files, link>>

Host ==
  \/ \E t \in Txn, hz \in Rate, logged \in BOOLEAN : QueueRate(t, hz, logged)
  \/ Crash

-----------------------------------------------------------------------------
(* The firmware, as the bridge relies on it: a configuration epoch that    *)
(* grows with every change of rate within a boot, one prepared             *)
(* transaction, retained replies to its mutations, and QUERY to replay one.*)

Reply(d, m, op, verdict) ==
  [op |-> op, tid |-> m.tid, cid |-> m.cid, verdict |-> verdict,
   boot |-> d.boot, epoch |-> d.epoch, hz |-> d.hz]

Retained(d, tid, cid) == {r \in d.retained : r.tid = tid /\ r.cid = cid}

\* The firmware d after it moved to hz on behalf of t (None: its own doing).
Moved(d, hz, t) == [d EXCEPT !.epoch = @ + 1, !.hz = hz, !.owner = t]

Answer(d, m, verdict) == [device |-> d, reply |-> Reply(d, m, m.op, verdict)]

\* First outcomes of a mutation the firmware has no retained reply for.
Performed(d, m) ==
  CASE m.op = "prepare" ->
         {Answer(d, m, "refused")} \cup
         (IF m.epoch = d.epoch
            THEN {Answer([d EXCEPT !.prepared = [tid |-> m.tid, hz |-> m.hz],
                                   !.retained = {}], m, "prepared")} ELSE {})
    [] m.op = "apply" ->
         {Answer(d, m, "refused")} \cup
         (IF d.prepared # None /\ d.prepared.tid = m.tid
            THEN LET moved == Moved([d EXCEPT !.prepared = None], d.prepared.hz, m.tid) IN
                 {Answer(moved, m, "applied"), Answer(moved, m, "uncertain"),
                  Answer(d, m, "uncertain")} ELSE {})
    [] m.op = "restore" ->
         {Answer(d, m, "refused")} \cup
         (IF m.epoch = d.epoch THEN {Answer(Moved(d, m.hz, m.tid), m, "restored")} ELSE {})

Outcomes(d, m) ==
  CASE m.op = "query" ->
         IF Retained(d, m.tid, m.target) # {}
           THEN {[device |-> d, reply |-> r] : r \in Retained(d, m.tid, m.target)}
           ELSE {[device |-> d, reply |-> Reply(d, m, "query", "unknown-command")]}
    [] m.op \in {"prepare", "apply", "restore"} ->
         IF Retained(d, m.tid, m.cid) # {}
           THEN {[device |-> d, reply |-> r] : r \in Retained(d, m.tid, m.cid)}
           ELSE {[device |-> [o.device EXCEPT !.retained = @ \cup {o.reply}],
                  reply |-> o.reply] : o \in Performed(d, m)}
    [] OTHER -> {[device |-> d, reply |-> Reply(d, m, "get-state", "ok")]}

Serve ==
  /\ wire # <<>>
  /\ wire' = Tail(wire)
  /\ \E o \in Outcomes(device, Head(wire)) :
        device' = o.device /\ line' \in Transmit(line, o.reply)
  /\ UNCHANGED <<files, worker, budget>>

\* A faulty firmware: the reply has the right identities and the wrong content.
ServeFaulty ==
  /\ wire # <<>> /\ Spend("faults")
  /\ wire' = Tail(wire)
  /\ \E o \in Outcomes(device, Head(wire)) :
        /\ device' = o.device
        /\ line' \in Transmit(line, [o.reply EXCEPT !.op = "odd", !.verdict = "refused"])
  /\ UNCHANGED <<files, worker>>

Drift(hz) ==
  /\ Spend("drifts")
  /\ device' = Moved(device, hz, None)
  /\ UNCHANGED <<files, worker, wire, line>>

Boot(boot, hz) == [boot |-> boot, epoch |-> 0, hz |-> hz, prepared |-> None,
                   retained |-> {}, owner |-> None]

Reboot(hz) ==
  /\ Spend("reboots")
  /\ device' = Boot(device.boot + 1, hz)
  /\ UNCHANGED <<files, worker, wire, line>>

Device == Serve \/ ServeFaulty \/ \E hz \in Rate : Drift(hz) \/ Reboot(hz)

-----------------------------------------------------------------------------
Init ==
  /\ command = None /\ pending = None /\ status = None
  /\ ledger = [t \in Txn |-> [known |-> FALSE, terminals |-> <<>>]]
  /\ pc = "loop" /\ then = "loop"
  /\ \E hz \in Rate : device = Boot(1, hz)
  /\ wire = <<>> /\ line = <<>>
  /\ \E crashes \in 0..MaxCrashes, faults \in 0..MaxFaults :
        /\ crashes + faults <= MaxTroubles
        /\ budget = [requests |-> MaxRequests, crashes |-> crashes,
                     reboots |-> MaxReboots, drifts |-> MaxDrifts, faults |-> faults]

\* The worker is joined once it has stopped; the firmware goes on.
Terminated == pc = "stopped" /\ UNCHANGED vars

Next == Worker \/ Host \/ Device \/ Terminated

Spec == Init /\ [][Next]_vars

\* The thread runs, the clock passes every deadline, systemd restarts.
LiveSpec == Spec /\ WF_vars(Worker) /\ SF_vars(PollTimeout)
-----------------------------------------------------------------------------
(* Types.                                                                  *)

\* Every variable stays in its set.
TypeOK ==
  /\ command \in Maybe([tid : Txn, hz : Rate])
  /\ pending \in Maybe(PendingType)
  /\ status \in Maybe([tid : Txn, facts : FactsType])
  /\ ledger \in [Txn -> [known : BOOLEAN, terminals : Seq(FactsType)]]
  /\ pc \in PC /\ then \in {"loop", "poll", "read", "shut", "stopped"}
  /\ device \in DeviceType
  /\ wire \in Seq(RequestType) /\ line \in Seq(ReplyType)
  /\ budget \in [{"requests", "crashes", "reboots", "drifts", "faults"} -> Nat]

-----------------------------------------------------------------------------
(* What the code promises.                                                 *)

\* A transaction the service owns is known to the ledger, even when the
\* operator died between writing the request and appending its event
\* (the queued-recovered event of _adopt_queued).
AdoptedIsLedgered == pending # None => ledger[pending.tid].known

\* The status file never runs ahead of the ledger: it repeats the facts of a
\* terminal event of the same transaction, across any crash (_seal_terminal
\* appends first; _load_pending rewrites a stale view).
StatusFollowsLedger ==
  status # None => \E i \in 1..Len(ledger[status.tid].terminals) :
                      ledger[status.tid].terminals[i] = status.facts

\* No mutation is under way without a durable record of it: a PREPARE, APPLY
\* or RESTORE on the wire is one the pending file knows of (_send_phase saves
\* before it writes), or its transaction has ended in the ledger.
Issued(s, cid) ==
  \/ cid \in s.acked \cup {s.awaiting, s.target}
  \/ cid[1] = "restore" /\ cid[2] \in 1..s.restores

MutationJournaled ==
  \A i \in 1..Len(wire) : wire[i].op \in {"prepare", "apply", "restore"} =>
     \/ Settled(wire[i].tid)
     \/ pending # None /\ pending.tid = wire[i].tid /\ Issued(pending, wire[i].cid)

\* An outcome says what the firmware did: while the firmware is still in the
\* boot and configuration epoch a committed (rolled-back) event was decided on,
\* it runs at the requested (prior) rate; and if the bridge saw its APPLY
\* acknowledged, that rate is the transaction's own doing.
OutcomeTruthful ==
  \A t \in Txn : \A i \in 1..Len(ledger[t].terminals) :
    LET f == ledger[t].terminals[i] IN
    device.boot = f.boot /\ device.epoch = f.epoch =>
      /\ f.term = "committed" =>
           device.hz = f.hz /\ (f.applied # None => device.owner = t)
      /\ f.term = "rolled-back" => device.hz = f.prior

\* A transaction ends once.
OneTerminal == \A t \in Txn : Len(ledger[t].terminals) <= 1

\* failed-safe means untouched: the rate in force is not the doing of a
\* transaction that was declared failed-safe.
FailedSafeHoldsOff ==
  \A t \in Txn : \A i \in 1..Len(ledger[t].terminals) :
    ledger[t].terminals[i].term = "failed-safe" => device.owner # t

\* A mutation whose reply timed out is asked after by QUERY, not sent again.
NoMutationResent ==
  [][pending # None /\ pending' # None /\ pending'.tid = pending.tid
     /\ pending'.awaiting # None /\ pending'.awaiting # pending.awaiting
       => pending'.awaiting # pending.target]_vars

\* The pending file is removed only once an outcome is decided, so a restart
\* never forgets a transaction in flight.
UnresolvedNeverDropped ==
  [][pending # None /\ pending' = None => pending.intent # None]_vars

\* Every adopted transaction reaches a terminal event, whatever the firmware,
\* the line and the operators do, and however often the process dies.
EveryAdoptionDecided ==
  \A t \in Txn : pending # None /\ pending.tid = t ~> Settled(t)

\* The slot of the pending transaction is free again some time.
EveryAdoptionSettles == pending # None ~> pending = None

-----------------------------------------------------------------------------
(* What the bridge implements.  A transaction's outcome is its terminal    *)
(* event in the ledger; the rate and its owner are the firmware's.         *)

Outcome(t) == IF Settled(t) THEN LastFacts(t).term ELSE "open"

Abstract == INSTANCE RateTransaction WITH
  outcome <- [t \in Txn |-> Outcome(t)], rate <- device.hz, owner <- device.owner

\* Each transaction is decided once, honestly, and leaves the sensor alone
\* afterwards.
ImplementsRateTransaction == Abstract!Spec
=============================================================================

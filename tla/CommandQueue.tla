--------------------------- MODULE CommandQueue ---------------------------
(***************************************************************************)
(* The one-slot command queue of a source, control/<source>.json, between  *)
(* operators who run the command line and the serial worker of the service *)
(* across the runs it is armed for.  A rate change, by the control protocol *)
(* ("rate") or for legacy firmware ("legacy"), is queued under the lock    *)
(* control/.queue.lock and registered in the ledger of its run; a reboot   *)
(* takes no lock.  The worker looks into the slot three times a round: for *)
(* FirmwareControlBridge, for LegacyRateControlBridge, and for itself.     *)
(* What a bridge does with an adopted transaction is the subject of its    *)
(* own module: here it settles in one step.                                *)
(***************************************************************************)
EXTENDS Naturals, Sequences

CONSTANTS
  Client,   \* operators, each making one request
  Txn,      \* transaction identities
  Link,     \* decision links
  Asks,     \* what each client asks for
  None,     \* an absent file, holder or link
  MaxRuns, MaxCrashes

Run == 1..MaxRuns
Maybe(S) == S \cup {None}

Kind == {"rate", "legacy", "reboot"}

\* A reboot has no identity, and only a rate change may have a link.
Ask == [kind : Kind, tid : Txn, link : Maybe(Link)]

ASSUME QueueConstants ==
  MaxRuns \in Nat /\ MaxCrashes \in Nat /\ Asks \in [Client -> Ask]

VARIABLES
  active,          \* active.json: the run that is armed
  armed, arming,   \* runs so far, and a preflight that passed
  command,         \* control/<source>.json
  pending,         \* control-pending/<source>.json
  lock,            \* who holds control/.queue.lock
  ledger,          \* command-transactions.ndjson of each run
  client,          \* where each operator's call is, and the run it saw
  worker, closing, \* where the serial worker is, and has it left its loop
  hand,            \* the command the worker has read
  taken,           \* what became of each client's command
  unanswered,      \* a raw command that was sent waits for its answer
  crashes          \* so far

disk == <<active, command, pending, ledger>>
operators == <<lock, client>>
runs == <<armed, arming>>
service == <<worker, closing, hand, taken, unanswered, crashes>>
vars == <<disk, operators, runs, service>>

Request == [by : Client, kind : Kind, tid : Txn, link : Maybe(Link), run : Run]
Event == [type : {"queued", "queued-recovered", "adopted", "terminal"}, tid : Txn,
          link : Maybe(Link)]

\* None is a value apart from what it stands in for.
ASSUME NoneApart == None \notin Client /\ None \notin Run /\ None \notin Request

\* Slip: the request does not say for which run it was made.
RequestOfNoRun(c) == [by |-> c, kind |-> Asks[c].kind, tid |-> Asks[c].tid,
                      link |-> Asks[c].link, run |-> None]

RequestOf(c) == [by |-> c, kind |-> Asks[c].kind, tid |-> Asks[c].tid, link |-> Asks[c].link,
                 run |-> client[c].run]

Events(run) == {ledger[run][i] : i \in 1..Len(ledger[run])}

\* Slip: only the identity goes into the recovered event.
EntryPlain(type, r) == [type |-> type, tid |-> r.tid,
                        link |-> IF type = "queued-recovered" THEN None ELSE r.link]

Entry(type, r) == [type |-> type, tid |-> r.tid, link |-> r.link]

\* The ledger takes no event that changes a transaction's schema or link.
Fits(r) == \A e \in Events(r.run) : e.tid = r.tid => e.link = r.link

Log(type, r) == ledger' = [ledger EXCEPT ![r.run] = Append(@, Entry(type, r))]

-----------------------------------------------------------------------------
(* Operators.  A call returns "queued", is refused, or raises.             *)

Goto(c, place) == client' = [client EXCEPT ![c].at = place]

\* request_rate, request_reboot: a run must be active.
ReadActive(c) ==
  /\ client[c].at = "idle" /\ active # None
  /\ client' = [client EXCEPT ![c] = [at |-> "asked", run |-> active]]
  /\ UNCHANGED <<disk, lock, runs, service>>

\* Slip: the lock is shared.
LockShared(c) ==
  /\ client[c].at = "asked" /\ Asks[c].kind # "reboot"
  /\ lock' = c /\ Goto(c, "locked")
  /\ UNCHANGED <<disk, runs, service>>

Lock(c) ==
  /\ client[c].at = "asked" /\ Asks[c].kind # "reboot"
  /\ lock = None
  /\ lock' = c /\ Goto(c, "locked")
  /\ UNCHANGED <<disk, runs, service>>

\* Slip: a refusal forgets the lock.
FindBusyHeld(c) ==
  /\ client[c].at = "locked"
  /\ command # None \/ pending # None
  /\ Goto(c, "refused")
  /\ UNCHANGED <<disk, lock, runs, service>>

FindBusy(c) ==
  /\ client[c].at = "locked"
  /\ command # None \/ pending # None
  /\ lock' = None /\ Goto(c, "refused")
  /\ UNCHANGED <<disk, runs, service>>

\* Slip: a transaction in flight does not count.
FindFreeQueue(c) ==
  /\ client[c].at = "locked"
  /\ command = None
  /\ Goto(c, "free")
  /\ UNCHANGED <<disk, lock, runs, service>>

FindFree(c) ==
  /\ client[c].at = "locked"
  /\ command = None /\ pending = None
  /\ Goto(c, "free")
  /\ UNCHANGED <<disk, lock, runs, service>>

WriteCommand(c) ==
  /\ client[c].at = "free"
  /\ command' = RequestOf(c) /\ Goto(c, "written")
  /\ UNCHANGED <<active, pending, ledger, lock, runs, service>>

\* The queued event, and the lock is free again.
LogQueued(c) ==
  /\ client[c].at = "written" /\ Fits(RequestOf(c))
  /\ Log("queued", RequestOf(c))
  /\ lock' = None /\ Goto(c, "queued")
  /\ UNCHANGED <<active, command, pending, runs, service>>

\* The ledger refuses the event; the command file stays.
LogRefused(c) ==
  /\ client[c].at = "written" /\ ~Fits(RequestOf(c))
  /\ lock' = None /\ Goto(c, "raised")
  /\ UNCHANGED <<disk, runs, service>>

\* request_reboot looks ...
LookBusy(c) ==
  /\ client[c].at = "asked" /\ Asks[c].kind = "reboot"
  /\ command # None \/ pending # None
  /\ Goto(c, "refused")
  /\ UNCHANGED <<disk, lock, runs, service>>

LookFree(c) ==
  /\ client[c].at = "asked" /\ Asks[c].kind = "reboot"
  /\ command = None /\ pending = None
  /\ Goto(c, "clear")
  /\ UNCHANGED <<disk, lock, runs, service>>

\* ... and writes, whatever is there by then.
WriteReboot(c) ==
  /\ client[c].at = "clear"
  /\ command' = RequestOf(c) /\ Goto(c, "queued")
  /\ UNCHANGED <<active, pending, ledger, lock, runs, service>>

\* The operator's process dies; the system frees its lock.
Die(c) ==
  /\ client[c].at \in {"locked", "free", "written"}
  /\ lock' = None /\ Goto(c, "died")
  /\ UNCHANGED <<disk, runs, service>>

Operator(c) ==
  \/ ReadActive(c) \/ Lock(c) \/ FindBusy(c) \/ FindFree(c) \/ WriteCommand(c)
  \/ LogQueued(c) \/ LogRefused(c) \/ LookBusy(c) \/ LookFree(c) \/ WriteReboot(c)

-----------------------------------------------------------------------------
(* The serial worker.  In a round of its loop it is at "firmware", at      *)
(* "legacy" and at "raw", and sends or reads; once closing it passes the   *)
(* first two, each bridge's shutdown, and stops.                           *)

Take(c, how) == taken' = [taken EXCEPT ![c] = how]

\* A new worker goes on with the pending transaction of its run.
Start ==
  /\ worker = "off" /\ active # None
  /\ pending # None => pending.run = active
  /\ worker' = IF pending = None THEN "firmware" ELSE "settle"
  /\ hand' = pending
  /\ UNCHANGED <<disk, operators, runs, closing, taken, unanswered, crashes>>

\* The command waits for the bridge whose turn it is.
Meant ==
  /\ command # None
  /\ \/ worker = "firmware" /\ command.kind = "rate"
     \/ worker = "legacy" /\ command.kind = "legacy"

\* _adopt_queued: a command of another run, or one the ledger contradicts,
\* raises, and the thread is gone.
ReadPoison ==
  /\ Meant /\ ~(command.run = active /\ Fits(command))
  /\ worker' = "dead"
  /\ UNCHANGED <<disk, operators, runs, closing, hand, taken, unanswered, crashes>>

ReadCommand ==
  /\ Meant /\ command.run = active /\ Fits(command)
  /\ IF \E e \in Events(active) : e.tid = command.tid
       THEN UNCHANGED ledger ELSE Log("queued-recovered", command)
  /\ hand' = command /\ worker' = "save"
  /\ UNCHANGED <<active, command, pending, operators, runs, closing, taken, unanswered, crashes>>

SavePending ==
  /\ worker = "save"
  /\ pending' = hand /\ Take(hand.by, "adopted")
  /\ worker' = "unlink"
  /\ UNCHANGED <<active, command, ledger, operators, runs, closing, hand, unanswered, crashes>>

\* The file is removed, whosever it is by now.
UnlinkCommand ==
  /\ worker = "unlink"
  /\ command' = None
  /\ worker' = "settle"
  /\ UNCHANGED <<active, pending, ledger, operators, runs, closing, hand, taken, unanswered, crashes>>

\* The terminal event, and the pending file removed.
Settle ==
  /\ worker = "settle"
  /\ Log("terminal", pending)
  /\ pending' = None /\ hand' = None
  /\ worker' = CASE ~closing -> "firmware"
                 [] closing /\ pending.kind = "rate" -> "legacy"
                 [] OTHER -> "stopped"
  /\ UNCHANGED <<active, command, operators, runs, closing, taken, unanswered, crashes>>

\* The bridge finds nothing, or nothing of its kind.
PassBy ==
  /\ worker \in {"firmware", "legacy"} /\ ~Meant
  /\ worker' = CASE worker = "firmware" -> "legacy"
                 [] worker = "legacy" /\ ~closing -> "raw"
                 [] OTHER -> "stopped"
  /\ UNCHANGED <<disk, operators, runs, closing, hand, taken, unanswered, crashes>>

\* The answer to a raw command has come, or does not come in time.
Answered ==
  /\ worker \in {"firmware", "raw"} /\ unanswered
  /\ unanswered' = FALSE
  /\ UNCHANGED <<disk, operators, runs, worker, closing, hand, taken, crashes>>

\* _send_pending_command: no second raw command before the first is answered.
PassRaw ==
  /\ worker = "raw" /\ (unanswered \/ command = None)
  /\ worker' = "firmware"
  /\ UNCHANGED <<disk, operators, runs, closing, hand, taken, unanswered, crashes>>

\* What is in the slot by now is written to the port as an unversioned line,
\* a rate change too, or set aside as unsupported.
SendRaw ==
  /\ worker = "raw" /\ ~unanswered /\ command # None
  /\ hand' = command /\ worker' = "sent"
  /\ UNCHANGED <<disk, operators, runs, closing, taken, unanswered, crashes>>

RemoveRaw ==
  /\ worker = "sent"
  /\ command' = None /\ Take(hand.by, IF hand.kind = "legacy" THEN "rejected" ELSE "sent")
  /\ worker' = "firmware" /\ hand' = None /\ unanswered' = (hand.kind # "legacy")
  /\ UNCHANGED <<active, pending, ledger, operators, runs, closing, crashes>>

\* stop_event ends the loop.
Close ==
  /\ worker \in {"firmware", "settle"} /\ ~closing
  /\ closing' = TRUE
  /\ UNCHANGED <<disk, operators, runs, worker, hand, taken, unanswered, crashes>>

\* The service's process dies and is started again.
Crash ==
  /\ worker # "off" /\ crashes < MaxCrashes
  /\ worker' = "off" /\ closing' = FALSE /\ hand' = None /\ unanswered' = FALSE
  /\ crashes' = crashes + 1
  /\ UNCHANGED <<disk, operators, runs, taken>>

Service ==
  \/ Start \/ ReadPoison \/ ReadCommand \/ SavePending \/ UnlinkCommand \/ Settle
  \/ PassBy \/ Answered \/ PassRaw \/ SendRaw \/ RemoveRaw \/ Close

-----------------------------------------------------------------------------
(* Runs.                                                                   *)

\* finish_active, once the worker's thread has ended in whatever way.
Finish ==
  /\ worker \in {"stopped", "dead"}
  /\ active' = None /\ worker' = "off" /\ closing' = FALSE /\ hand' = None
  /\ unanswered' = FALSE
  /\ UNCHANGED <<command, pending, ledger, operators, runs, taken, crashes>>

\* arm_run: nothing may be queued or in flight ...
Preflight ==
  /\ active = None /\ ~arming /\ armed < MaxRuns
  /\ command = None /\ pending = None
  /\ arming' = TRUE
  /\ UNCHANGED <<disk, operators, armed, service>>

\* ... when it looked.
Arm ==
  /\ arming
  /\ arming' = FALSE /\ armed' = armed + 1 /\ active' = armed'
  /\ UNCHANGED <<command, pending, ledger, operators, service>>

-----------------------------------------------------------------------------
Init ==
  /\ active = None /\ armed = 0 /\ arming = FALSE
  /\ command = None /\ pending = None /\ lock = None
  /\ ledger = [r \in Run |-> <<>>]
  /\ client = [c \in Client |-> [at |-> "idle", run |-> None]]
  /\ worker = "off" /\ closing = FALSE /\ hand = None /\ unanswered = FALSE /\ crashes = 0
  /\ taken = [c \in Client |-> "no"]

\* service_loop without a run; a request left behind blocks every later one
\* until somebody removes the file by hand.
Idle == active = None /\ worker = "off" /\ UNCHANGED vars

Next ==
  \/ \E c \in Client : Operator(c) \/ Die(c)
  \/ Service \/ Crash \/ Finish \/ Preflight \/ Arm \/ Idle

Spec == Init /\ [][Next]_vars

\* Each call runs on, and the lock is handed to every caller in the end.
LiveSpec == Spec /\ \A c \in Client : WF_vars(Operator(c)) /\ SF_vars(Lock(c))

-----------------------------------------------------------------------------
\* Every variable stays in its set.
TypeOK ==
  /\ active \in Maybe(Run) /\ armed \in 0..MaxRuns /\ arming \in BOOLEAN
  /\ command \in Maybe(Request) /\ pending \in Maybe(Request) /\ hand \in Maybe(Request)
  /\ lock \in Maybe(Client)
  /\ ledger \in [Run -> Seq(Event)]
  /\ client \in [Client -> [at : {"idle", "asked", "locked", "free", "written", "clear",
                                  "queued", "refused", "raised", "died"}, run : Maybe(Run)]]
  /\ worker \in {"off", "firmware", "legacy", "raw", "sent", "save", "unlink", "settle",
                  "stopped", "dead"}
  /\ closing \in BOOLEAN /\ unanswered \in BOOLEAN /\ crashes \in 0..MaxCrashes
  /\ taken \in [Client -> {"no", "adopted", "sent", "rejected"}]

\* A request whose caller was told it is queued waits in the queue or has been
\* taken up: nobody overwrites it and nobody removes it unread.
NothingLost ==
  \A c \in Client : client[c].at = "queued" =>
     \/ taken[c] # "no"
     \/ command # None /\ command.by = c

\* No request is accepted behind a transaction in flight: both files exist
\* only while the worker hands one over to itself.
OneAtATime == command # None /\ pending # None => command.by = pending.by

\* No calls of operators, who use each identity once and call while the run
\* they mean is on, kill the serial worker.
WorkerSurvives == worker # "dead"

\* A rate change is a transaction: once it has left the queue a bridge has
\* adopted it, and no unversioned line was sent in its name.
AlwaysATransaction ==
  \A c \in Client : Asks[c].kind # "reboot" => taken[c] \in {"no", "adopted"}

\* Every caller gets an answer, though other callers die with the lock.
EveryCallReturns ==
  \A c \in Client : client[c].at # "idle"
                      ~> client[c].at \in {"queued", "refused", "raised", "died"}
=============================================================================

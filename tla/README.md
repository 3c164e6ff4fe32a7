# A TLA+ model of the autonomous CSI collector

The repository's program, `software/autonomous-csi-collector`, records the serial
output of Wi-Fi sensors on an unattended host and lets operators change a sensor's
packet rate while it does so. Recording is a pipeline; changing the rate is a
distributed transaction between an operator's command line, a service that may die
at any moment, a lossy serial line and a firmware that may reboot. This project
models both: the transaction from the operator's call to the firmware, and the run that
it happens in, from `arm_run` to its checksums, with the two records it leaves, the raw
chunks and the command ledger. Paths below are relative to
`software/autonomous-csi-collector`; `transactions.py` and the others are in
`cws_collector/`.

## 1. The system

| Component | State it keeps | Operations | Hard about it | What makes it correct |
|---|---|---|---|---|
| Command queue (`transactions.py` 308-416, `core.py` 1399-1491) | `control/<source>.json`, one slot; `control/.queue.lock` | `request_rate`, `request_legacy_rate`, `request_reboot`, `wait_command_result` | several operators, a worker that takes no lock, three readers of one slot, callers that die or hold a stale `active.json` | no accepted request is lost; one at a time; a refused one leaves nothing; a rate change is always a transaction |
| Firmware control bridge (`transactions.py` 951-1728) | `control-pending/<source>.json`, `control-status/<source>.json`, ledger events | `poll`, `handle_line`, `shutdown`, restart | lost and late replies, deaths between durable writes, drift and reboot of the sensor, restores that fail | one terminal event, honest, always reached; no mutation repeated |
| Legacy rate bridge (`transactions.py` 419-948) | the same files for firmware before the protocol; the last heartbeat, in memory | the same | answers that name no command | no ambiguity becomes a success; nothing is sent twice |
| Transaction ledger (`transactions.py` 86-305) | `command-transactions.ndjson` of a run, a hash chain | `append` under `flock`, `classify_reply`, summary | appends by several processes, a torn line, an identity used twice | an append-only chain; a transaction keeps its schema and link |
| Serial worker (`core.py` 553-832) | the port, a raw command awaiting its answer, sequence numbers | the read loop, reconnect, `interrupt_io` | it hosts both bridges; a stop or an error can come at any step | every record is written once; the bridges are always shut down |
| Run life cycle (`core.py` 1167-1537) | `active.json`, `last-run.json`, `final.json`, `SHA256SUMS` | `arm_run`, `request_stop`, `add_operator_event`, `RunCollector.run`, `finish_active`, `service_loop` | files shared with operators without a lock, restarts, workers that do not stop | every armed run is sealed, for a true reason, and nobody writes to it afterwards |
| Chunk writer and recovery (`core.py` 406-550, 962-977) | `.partial` chunks, the chunk index | `write`, `sync`, `close`, `recover_partial_chunks` | a death or an error between any two steps | synced lines stay, in order, and the index tells the truth |
| Evidence facts, `verify_run` (`core.py` 980-1164, 1557-1572) | none; reads a finished run | pure | gaps, resets and duplicates in sequences | facts agree with the records |
| Parsers, source records (`protocols.py`) | ingest sequence | pure but for it | malformed lines | nothing is guessed |
| Samplers, UDP mirror, event log, health | telemetry | write only | - | - |
| Command line, configuration, scripts, units, repository checks | - | - | - | - |

How they meet. `service_loop` waits for `active.json`, builds a `RunCollector`, and
that starts one thread per source (`SerialWorker`). In each round of its loop a worker offers
the slot to `FirmwareControlBridge.poll`, then to `LegacyRateControlBridge.poll`, then
looks into it itself, and reads one line, which is offered in the same order. Operators
never talk to the service: they write the slot, append `queued` to the ledger and
watch the status file. After the loop has ended, the worker shuts down both bridges and
closes its chunk; the collector joins the workers, seals the directory and disarms the
run. systemd restarts the service whenever it dies.

## 2. The modules

| Module | Models | Checked by | Proved in |
|---|---|---|---|
| `RateTransaction` | abstract: what a rate change promises | as the PROPERTY of both bridges | |
| `FirmwareBridge` | `FirmwareControlBridge`, the worker loop around it, deaths, the line, the firmware | `MCFirmwareBridge` | `FirmwareBridge_proofs`, `FirmwareBridgeOutcome_proofs`, `FirmwareBridgeWire_proofs` |
| `LegacyRateBridge` | `LegacyRateControlBridge`, likewise | `MCLegacyRateBridge` | `LegacyRateBridge_proofs` |
| `CommandQueue` | the slot between operators and the worker, across runs | `MCCommandQueue` | `CommandQueue_proofs` |
| `RecordLog` | abstract: what an append-only record promises | as the PROPERTY of the next two | |
| `ChunkWriter` | `ChunkWriter`, the chunk index, `recover_partial_chunks`, over the sessions of a run | `MCChunkWriter` | `ChunkWriter_proofs` |
| `TransactionLedger` | the ledger file with its locks, its validation and its chain | `MCTransactionLedger` | `TransactionLedger_proofs` |
| `RunLifecycle` | operators, `service_loop`, `RunCollector.run`, `finish_active` | `MCRunLifecycle` | `RunLifecycle_proofs` |

The modules meet at what one takes for granted of another. The bridges and the queue
use the ledger as a set of registered transactions and terminal events that an append
adds to at once; `TransactionLedger` shows that appends by several processes do behave
like that, and keep a transaction's schema and link. `RunLifecycle`'s workers are threads that write and
may hang; what a serial worker's thread does is in the bridges and in `ChunkWriter`.

The operators named *Slip* in a comment are not part of a specification. Each is a
plausible mistake in the definition that follows it; with it in place TLC finds the
corresponding property violated, so that the property is known to depend on the code.

### RateTransaction

A transaction is open until it is decided, once. While it is open it may move the
sensor's rate (`Move`); the sensor may move by itself (`Drift`). `failed-safe` may be
decided only of a transaction the sensor does not obey, and a decided transaction never
moves the sensor, unless it was decided `rollback-failed`, which promises nothing.

### FirmwareBridge

*State.* `command`, `pending`, `status` are the three files. `ledger` is what the code
asks the ledger for: whether it knows a transaction, and its terminal events with their
facts. Every handler of the bridge ends in `_save` or in `_finish`, which saves first,
so `pending` is both the file and the bridge's memory. `pc` is where the worker thread
is between two durable effects, `then` where a subroutine returns to. `device`, `wire`
and `line` are the firmware and the two directions of the port; `budget` bounds what
the environment does: `Init` chooses how many of `MaxTroubles` are deaths and how many
are malformed replies.

*Actions.* `PollIdle`, `PollAdopt`, `PollSend`, `PollWait`, `PollTimeout` are the
branches of `poll`; `SendQuery` is the second half of `_on_timeout`, apart because a
death can come before it; `ReadNothing`, `ReadIgnored`, `ReadReply` are the branches of
`handle_line`; `ShutdownIdle`, `ShutdownAdopt`, `ShutdownSeal` of `shutdown`. `_finish`
is one write of the intent (`Finish`) and then `SealTerminal`, `WriteStatus`,
`UnlinkPending`, three steps with a possible death before each. `Load` and
`LoadSettled` are the constructor of a new worker. Whether a deadline has passed is
left open, so every timeout races every reply. Hashes, wall times, and events that the
code never reads back are left out. A reply's status and reason are merged into
one verdict.

*Environment.* The firmware is outside the repository. It is modelled from what the
bridge relies on: one prepared transaction, mutations guarded by a configuration epoch
that grows with each change of rate, replies to mutations retained for `QUERY`, refusal
always possible. A line may be lost on either side, always when `Backlog` is full.
`Drift` and `Reboot` change the rate without the bridge; `ServeFaulty` sends a
reply with the right identities and the wrong content. `Crash` is the end of the
process at one of `CrashPoints`.

### LegacyRateBridge

The same shape: files, `pc`, the firmware. What is different is what the code has to
go by: `heartbeat`, kept in memory only, and answers that carry a rate but no identity.
`_send` saves a phase and writes the line after (`PollCapture` or `PollRestore`, then
`Write`), which is why a restart never writes again: it waits, times out and restores
at most once. How old a heartbeat is is left open, so `PollStale` is always
possible in the phase `queued`. `handle_line` saves an answer before it draws the
consequence; a death in between is not a step of its own, as no later step reads what
the first save added, except that it is repeated in the frozen facts. With `Patient` a
deadline passes only once both directions of the line are empty, which is the assumption
under which the legacy protocol can be right at all (section 5).

### CommandQueue

*State.* The slot, the pending file, the lock, `active.json`, and of each run's ledger
the events that mention a transaction. `client` says where each operator's call is and
which run it read from `active.json`; `worker` where the worker is. `taken` records what
became of each client's command: adopted by a bridge, sent as an unversioned line, or
set aside.

*Actions.* `ReadActive`, `Lock`, `FindBusy`/`FindFree`, `WriteCommand`,
`LogQueued`/`LogRefused` are the statements of `queue_rate_transaction`, an action for
each access to something shared; `LookBusy`/`LookFree`, `WriteReboot` those of
`request_reboot`; `Die` an operator's death. The worker's round is `firmware`, `legacy`,
`raw`: `ReadCommand`/`ReadPoison`, `SavePending`, `UnlinkCommand` are `_adopt_queued`,
`PassBy` a bridge that finds nothing of its kind, and `SendRaw`, `RemoveRaw`,
`PassRaw`, `Answered` what `_send_pending_command` does itself. What a bridge does with an
adopted transaction is one step here (`Settle`); the other two modules detail it, and
in turn leave the other readers of the slot to this one. `Preflight` and `Arm` are the
two halves of `arm_run`, `Finish` is `finish_active`.

A link stands for the schema and decision a transaction is registered with: the ledger
refuses an event that changes them (`Fits`).

### RecordLog

A record accepts lines in the order they were read, makes what it has safe, and may
lose what is newest; never a line from the middle, and never one that was safe.

### ChunkWriter

*State.* `files` has for each chunk number the ending of the file's name (`.partial`,
none or `.incomplete`), the lines that can be read back, buffers included, and those known to be on
disk; `damaged` has the chunks whose compressed stream has a hole; `index` is
`chunks.ndjson`. `number`, `stream`, `due` and `records` are the fields of the writer, and
`at`, `goal`, `hand`, `found` say where the process is. A line is the number of its reading,
counted over all sessions of the run, so that order can be stated. `failed` is history: the chunks in
which a write, a sync or a close raised.

*Actions.* A session begins with `recover_partial_chunks` (`Recover` renames,
`RecoverIndex` enters) and the constructor, which continues the numbering (`Construct`,
`NextNumber`). `write` is `WriteFirst`/`Open`, `WriteNext` or `Rotate`, then `AppendLine` with its optional
sync; `close` is `Flush`, `Replace`, `Index`, and a rotation goes on with `Open`.
`OpenFails`, `AppendFails`, `FlushFails`, `CloseFails` are an `OSError` at each of these: the worker
takes it for a lost port, forgets the line and comes back with the same writer, whose
fields are as the failure left them. `AppendFails` stands for a write (487) or an observer (489,
`UdpMirror.send`, whose event log may fail) that raises before the line is counted, and for a
sync (515) that raises after; `FlushFails` for the steps 522-525 of `close`, which leave the stream open
or closed. What a failed call had in its buffers it keeps for the next one (`Retained`), or has
dropped (`Dropped`): gzip had then consumed it already, so only a beginning of the lines can
be decompressed, which includes what was synced, and nothing that is written behind it (`With`).
`FlushClosed` is the `ValueError` of a stream that an
earlier close had closed already; it ends the thread. `Die` is the end of the
process at any step, after which any beginning of what was in the buffers
may be on disk; `Finish` is the end of the run.

### TransactionLedger

*State.* `file` is the sequence of lines, each with its event, or none if it is damaged, and
with its newline or without; `durable` how many are known to be on disk; `holder` and
`sharers` the two kinds of `flock`. `pc`, `entry`, `result` say for each process what it is
doing, what it appends and how its last call ended. Hashes are identities: an event has one, and
names that of the event before it.

*Actions.* `Lock`, `Check` (with `Invalid` and `Refuse`, the two ways `_validated_state` and the
identity check raise), `Write`, `Flush`, `Sync` are `append`; `Share` and `Read` are
`classify_reply` and `transaction_ledger_summary`. `Break` is a failing call or a death
at any of them, and leaves any `Leftovers` of the line under way; `PowerLoss` takes what was not
synced, from the end. A line written behind one without its newline spoils both
(`Behind`). `Newline` says whether an interrupted write can leave a line that only lacks its end.

### RunLifecycle

*State.* `active`, `last`, `sums`, `reason` are the files; `stale` is who has written to a run's
directory since it was hashed. `arming`, `stopping`, `marking` are operators between their look at
`active.json` and what they do about it. `at` and `run`, `why`, `stopped`, `raising` are the
service's process and the fields of its session, `worker` its threads. `asked` and `replaced`
are history: for which runs a stop was asked, and which run's `active.json` was overwritten
by another's.

*Actions.* `ArmLook`/`Arm`, `StopLook`/`RequestStop`, `MarkLook`/`Mark` are the operators' calls.
`TakeUp` is `service_loop`, `StartWorkers`, `End` and `LoopFails` are `RunCollector.run` up to its
`finally`; `Joined`, `ForceClose`, `GiveUp` are the two joins with the forced closing of ports
between them; `WriteFinal`, `Hash`, `Seal` are the sealing (`SealFails` an exception there),
`Propagate` the loop's exception coming out of `run`, `RecordLast`, `Compare`, `Unlink`
`finish_active`. A thread may `Hang` on its port (a forced close frees it) or on a command
(nothing does), raise, come back, or see the stop and end. A sampler whose command takes its ten seconds,
against two joins of five, is one that hangs and comes back. Ctrl-C ends a session as the
disk guard does. An exception that leaves `RunCollector.run` is entered by `service_loop` in the run that
`active.json` names by then (`Marks`), which is not the session's if another run was armed over it.
`Hash` and `Seal` are one instant each and may have threads write between them, which is more
than the code's single pass allows.

## 3. The properties

*FirmwareBridge.* `AdoptedIsLedgered`: what the bridge owns is registered, also when
the operator died before its event. `StatusFollowsLedger`: the status file never runs
ahead of the ledger. `MutationJournaled`: no mutation is under way without a durable
record. `OutcomeTruthful`: in the boot and epoch it was decided on, `committed` means
the requested rate and, if APPLY was seen to be acknowledged, by this transaction;
`rolled-back` means the prior rate. `FailedSafeHoldsOff`: the sensor does not obey a
transaction declared `failed-safe`. `OneTerminal`, `NoMutationResent`,
`UnresolvedNeverDropped` are about restarts. `EveryAdoptionDecided` and
`EveryAdoptionSettles` are the two liveness properties: an outcome, and a free slot.
`ImplementsRateTransaction` is the refinement.

*LegacyRateBridge.* `ForwardOnly`: the sensor is written to only on the way into a new
phase. `VerdictTruthful`: a success is the transaction's own. `EveryAdoptionSettles`
and `ImplementsRateTransaction` as above.

*CommandQueue.* `NothingLost`, `OneAtATime`, `WorkerSurvives` (no calls of operators who
use an identity once kill the worker) and `EveryCallReturns`.

*ChunkWriter.* `IndexTruthful`: an entry of the index names a file that is there, with all that can be
read of it on disk, and is the only one of its chunk, whatever failed before or since. It counts the
chunk's lines if writing them never failed, and no more than there are if no failure dropped some.
`ChunksInOrder`: later chunks have later lines, which `write_evidence_facts` takes for granted
when it reads them by name. `HolesAccounted`: a renamed chunk without an entry is the work of one
death or one failed append. `PartialsRecovered`: what a dead process left is recovered.
`ImplementsRecordLog`: no failure takes a synced line, or one from the middle.

*TransactionLedger.* `ChainHolds`: numbers and hashes form a chain, and nothing was ever
written behind damage. `OneKind`: a transaction never has two schemas or two decisions, though its writers
never talk to one another. `NoFalseAlarm`: a line under way is not taken for damage.
`ReturnedKept`: an event whose append returned stays where it is, readable. `EveryCallEnds`;
and the refinement of `RecordLog`.

*RunLifecycle.* `NothingForgotten`: a run that was armed is armed still, in a session, or
sealed. `SealHolds`: nothing of the service writes to a run at rest after it was hashed.
`ReasonTruthful`: the reason a run gives for its end is true. `EveryRunEnds`: every armed run is sealed, whatever
its threads do. Runs in `replaced` are left out of each: section 5.

`AlwaysATransaction` is stated because the documents say it, and does not hold: section 5.

## 4. The runs

| Run | Asks | Bounds |
|---|---|---|
| `BridgeSensor` | do outcomes tell the truth about a sensor that changes by itself | 1 drift and 1 reboot at any moment, 1 death outside the two windows of section 5 |
| `BridgeRestart` | do restarts end, keep and repeat as they should with a second transaction behind the first, and is that a rate transaction | 2 transactions one after the other, 1 rate, 1 death outside the same windows |
| `BridgeLive` | are files, ledger and line consistent when the process dies anywhere; is every adoption decided and its slot freed | 1 transaction, 1 rate, 1 death at any point or 1 malformed reply |
| `LegacyLive` | is a legacy command ever repeated; does every legacy adoption end | 1 transaction, 1 death after adoption, 1 reboot |
| `LegacyPatient` | are legacy successes the transaction's own; refinement | 2 transactions, 2 deaths in the loop, 1 reboot, 2 messages each way |
| `QueueRates` | are accepted requests safe | 3 callers of both kinds, 1 death of the service |
| `QueueCalls` | does every call return | 2 runs, 2 callers with one identity, a reboot; callers may die with the lock |
| `Chunks` | is the raw record kept, in order and truthfully indexed; are the chunks of the dead recovered | 4 lines, 2 deaths, 2 failing opens, writes, syncs, closes, renames or entries |
| `Ledger` | does the chain hold, and what was returned stay; does every call end | 2 processes, 1 transaction of 2 kinds, or none, 4 calls, 1 failure, death or loss of power |
| `Lifecycle` | is every armed run sealed, once and for a true reason | 2 runs, 1 worker, 1 stop or mark, 2 deaths, exceptions or hanging threads |

All keep one message each way on the line unless the table says otherwise.

*Why the bounds are enough.* The bridge handles one transaction at a time and
remembers nothing of an earlier one but what the ledger says, so a second transaction
can only matter through its identity, a late message or the ledger: `BridgeRestart` and
`LegacyPatient` have two. Two rates tell requested from prior; a third would be a drift
to a rate that is neither, and differs from the others only in that no outcome can be
claimed of it. With a backlog of 1 a reply can still be late (the worker may time out while it
lies there) or lost; 2 adds an answer behind an answer, which the legacy protocol has
to bear. Restores stop at 2 and every other phase is entered a bounded number of times,
so no counter of the model needs a bound beyond those of the environment. In the queue,
two callers can conflict and a third makes the lock change hands again. Four lines make a
chunk of two that was rotated, one that was cut and one after both; two troubles meet in one chunk, as
a failed write and the failed close, or the death, after it. Two appenders and four calls put two events on the
chain, a third behind damage and a reader beside it. Two runs are the finished one that a late
stop arms again and the next; of a session the joins ask only whether any thread is alive, so one
worker stands for all. In `BridgeLive`
and `BridgeRestart` one rate does not avoid restores: APPLY can stay unanswered and the
verification time out all the same, and whose doing the rate is, which the refinement is
about, is told by its owner; the values are `BridgeSensor`'s subject. A death at `loop`,
`poll` or `read` changes nothing durable, so `BridgeSensor` and `BridgeRestart` have none there.

*What the passing runs assume.* `BridgeSensor` and `BridgeRestart` leave out deaths at
`unlink-command` and `query` and reused identities. `OneTerminal` and `FailedSafeHoldsOff`
fail at the first, `NoMutationResent` at the second, `UnresolvedNeverDropped` with reused
identities; `OutcomeTruthful` holds in both windows (section 6), but these instances are larger.
They also have no malformed replies, with which `FailedSafeHoldsOff` and the refinement fail.
`LegacyPatient` lets deadlines pass only when nothing is under way, and the process
die only in its loop: a service that stops with a line in flight and is
started again has the stale answer of section 5. `Ledger` has `Newline = FALSE`: an interrupted
write of a short line either ends or leaves something unreadable. Section 5 says what happens in these windows.

*Symmetry.* Transactions and rates are interchangeable in the safety runs; the
liveness runs use none, and `CommandQueue` none, since its callers differ.

*Fairness.* `WF(Worker)`: the worker's thread is scheduled, its read returns after one
second at most, and a process that died is started again (`Restart=always`).
`SF(PollTimeout)` and, for legacy, `SF(PollStale)`: the wall clock passes every deadline,
and a round of the loop sees it; strong, because lines that arrive in between disable the
action for the time they are read. Nothing is assumed of the firmware, the line or the
operators. In the queue, `WF(Operator(c))` is a call that runs on, and `SF(Lock(c))`
the kernel handing an advisory lock to every waiting process in the end; a caller
that dies does not owe anything. In `Chunks` a process that runs takes its next step and
a dead one is restarted; faults are bounded and owe nothing. In `Lifecycle` the same, time passes
until the deadline of the armed run, and a thread that does not hang sees the stop; that a thread
that does not hang has ended five seconds later is assumed in `Slow`. A thread that hangs is never
assumed to come back. In `Ledger` a process that can run does, and `SF(Lock)`, `SF(Share)`
hand each lock to every waiting process in the end.

*Deadlock* is checked in every run. `Terminated`, `Idle`, `Finished`, `Rest` and `Done` stand for a
worker that was joined, a service that waits for a run, a run that is over, a host where nobody
arms anything any more and a ledger whose calls are all made.

## 5. Where the program and its documents disagree

Each of these is a run that TLC ends with a counterexample.

| Run | Shows |
|---|---|
| `ReadoptTwice` | a death between saving the adopted request and removing the operator's file makes the restarted service carry it out, and end it, a second time |
| `RawOvertakes` | a rate change that arrives between the bridges' look and the worker's own is sent without a transaction, or set aside |

The models also contain the following schedules, which have no run of their own. Of the
command path:

- *A reboot overwrites an accepted rate change*: `request_reboot` takes no lock (`core.py`
  1466). With a reboot among the `Asks` of `QueueRates`, `NothingLost` fails.
- *A stale legacy answer* (856): an answer that outlives its transaction's deadline is
  taken for the next one's. With `Patient = FALSE`, `VerdictTruthful` fails.
- *An identity used again.* With `IdReuse` and a death, `LoadSettled` takes the old
  terminal event for the end of the transaction in flight and removes its pending file
  (`transactions.py` 1013); `UnresolvedNeverDropped` fails.
- *A death between the decision to query and the QUERY* (1299): the restarted service
  finds the phase and nothing awaited, and sends the mutation again;
  `NoMutationResent` fails.
- *A malformed answer to an APPLY that took effect* (1454): a reply of another operation counts
  as "not applied" (`_fail_for_phase`, 1624), so the transaction is sealed `failed-safe` though
  the sensor obeys it. Only a firmware that breaks its protocol sends one; with
  `MaxFaults = 1`, `FailedSafeHoldsOff` fails.
- *The second state recovery* of a transaction waits for an identity whose reply is dropped
  as a duplicate (1364, `acked`), so it ends `rollback-failed` whatever the sensor says.
  This errs on the safe side.
- *A stop after PREPARE was answered* is sealed `rollback-failed` though nothing was
  changed (1608); `README.md` 78-79 promises `failed-safe` before a mutation. Safe too.
- *A request whose call raised* stays in the queue (351, `LogRefused`) and kills the
  worker that reads it (`ReadPoison`); it takes an identity used before with another
  schema or link. This is why `WorkerSurvives` is checked for identities used once.
- *The queued event after the end*: the slot is visible before the event is appended (364),
  so the ledger can have a transaction's end before its `queued`.
- *A caller that read `active.json` in one run* queues its request in the next, past
  the preflight (`core.py` 1414), and the new worker raises on it.
- *A failed write at the end of a transaction* (`core.py` 810; not in the models, where memory and
  file are one): an `OSError` of the terminal event, the status file or the removal of the pending
  file is taken for a lost port. The worker is back in its loop with the intent in memory, `poll`
  does not look at intents, and the transaction goes on, to a second terminal event or to a
  restore of what was committed.

Of the raw record, the ledger and the run:

- *A chunk that is never indexed*: after a death or a failed append between `os.replace` and the
  entry (`core.py` 528) nothing enters the chunk any more; `recover_partial_chunks` looks for
  `.partial` only. `HolesAccounted` says that this is the only way.
- *A count that is not that of the lines*: a write, an observer or a sync that raises an `OSError`
  (487-515) is taken for a lost port (`core.py` 810), and the chunk goes on, to be closed as `complete`.
  Its entry counts too few if a line was kept and not counted (the mirror raises before 490), and too many if
  the failure dropped some. `IndexTruthful` says that nothing else makes the two differ;
  without the reference to `failed` and `damaged` it fails after one such fault.
- *A torn index line*: `append_jsonl` may leave a fragment in `chunks.ndjson`, which also spoils the
  entry that is appended behind it, maybe another source's. It is not modelled: an append to the
  index is done or not. Nothing in the code reads the index back.
- *A hole in a chunk* (487, 515, 522): a failing disk write loses compressed data in the middle of the
  stream, and what the chunk gets later cannot be read. If the chunk is closed all the same, `write_evidence_facts`
  (1008) raises on it at every sealing, so the run stays armed until somebody removes the file.
  `EveryRunEnds` is about seals that fail a bounded number of times and does not cover this.
- *A failed close* leaves a closed stream in the writer (523); the next line raises `ValueError`,
  which is not an `OSError`, and the source is not recorded for the rest of the session.
- *A torn ledger line* (`transactions.py` 162) makes every later append raise, and the sealing of
  the run too, until somebody repairs the file.
- *A line that only lacks its newline*: with `Newline = TRUE` it is read as valid, the next append
  goes on the same line and returns, and both events are unreadable; `ReturnedKept` fails.
- *An exception of the collector's loop* seals the run as `duration-complete` and then ends the
  process with the run armed (1276); the next session goes on in the sealed directory and seals it
  again. `ReasonTruthful` and `SealHolds` hold because they speak of runs at rest.
- *Races of operators*: two `arm_run`s, or a `request_stop` that has read `active.json` when
  `finish_active` removes it (1391), write one run's `active.json` over another's, or arm a finished
  run again. The latter is run and sealed once more; the former is lost (`replaced`).
- *A late mark*: `add_operator_event` may write to a run that was sealed in the meantime, and
  `verify_run` then fails; `SealHolds` speaks of the service's own writing only.
- *An unsolicited reply* registers its transaction under the first schema; a later request of that identity
  under the second is refused.

## 6. What is proved

For every value of the constants, by TLAPS. The assumptions are those of the modules:
bounds are naturals, `None` is apart from what it stands in for.

*`FirmwareBridge_proofs`.*

- `TypeCorrect`: `TypeOK`. Not inductive: that a reply can be turned into facts needs to
  know that a transaction past its first reply has a prior rate, that one being sealed
  has an intent, that a queried one has a target. `TypeInv` adds this (`Control`).
- `StatusNeverLies`: `StatusFollowsLedger`. `StatusInv` adds what holds
  between two writes of `_seal_terminal`: at `status` the last terminal event of the pending
  transaction has the facts about to be written.
- `OwnsOnlyTheKnown`: `AdoptedIsLedgered`.
- `EndsOnce`: `OneTerminal`, assuming `"unlink-command" \notin CrashPoints` and
  `~IdReuse`, two of the windows of section 5. `OnceInv` is the argument: an open
  transaction has no terminal event until `SealTerminal`; between there and the
  removal of the file it has one, and a restart goes by the ledger; a queued
  transaction has none and is not the pending one.
- `NeverForgets`: `UnresolvedNeverDropped`, from the same invariant.
- `AsksInstead`: `NoMutationResent`, assuming `"query" \notin CrashPoints`, the third window of
  section 5. `ResentInv` is the argument: before its PREPARE a transaction has asked after
  nothing, before its APPLY after the PREPARE at most, and a restore it has asked after has a
  number it has used.

*`FirmwareBridgeOutcome_proofs`.* `OutcomesAreTrue`: `OutcomeTruthful`, for all constants, so with
deaths anywhere, malformed replies and reused identities too. First the steps are grouped by what
they do (`Steps`): a handler decides (`Ends`), goes on to a phase (`Enters`) or asks (`Asks`), for
one of the reasons the code has (`Expired`, `Judged`); the firmware repeats an answer it retained
(`Replays`), tells its state (`Tells`) or decides on a mutation (`Performs`). `TruthInv` is the
argument: whatever is said of a version (boot and epoch) of the firmware, by an answer that is on
the line or retained, by the transaction, or by an outcome, is of a version that is gone or is still
true of it; and a version that is gone never comes back (`Onward`).

*`FirmwareBridgeWire_proofs`.*

- `MutationsAreJournaled`: `MutationJournaled`, for all constants. Alone it is far from inductive:
  a PREPARE or APPLY that was asked after by QUERY and given up stays on the line, and the pending
  file no longer names it as awaited. `JournalInv` adds why it is acknowledged or asked after all
  the same: no APPLY is sent before the phase for it (`NotYetOn`); the line is in order, so behind
  one that is still on it no state query that was sent later can have been answered (`PastOn`,
  `AskedOn`, `BehindOn`). It needs to know what a transaction in each phase has been through
  (`LocalInv`), and of each request that its fields fit and that its transaction is pending or has
  ended (`WireInv`).
- `FailedSafeStaysOff`: `FailedSafeHoldsOff`, and `KeepsThePromise`: the refinement of
  `RateTransaction`, assuming `"unlink-command" \notin CrashPoints`, `~IdReuse` and `MaxFaults = 0`,
  each of them needed. Without one of the first two a transaction can be carried out again
  after its end, by the restarted service or at an operator's wish; without the third a denied
  APPLY may have been performed (section 5). Deaths at all other points, lost, late and repeated
  messages, drifts, reboots and any number of transactions are covered. `HoldInv` is the
  argument. While a transaction is undecided
  (`Flight`): before its APPLY it has moved nothing (`Untouched`); an APPLY that was answered is
  retained or disarmed, since the PREPARE that would make the firmware forget is gone (`Spending`,
  `Orderly`); and a rate in force that is its doing shows in every answer that may still be
  believed (`Owning`, `Exact`). When it is decided, this is what makes the decision `Harmless`: but for
  `rollback-failed`, none of its messages moves the sensor any more, and if it is `failed-safe`
  the sensor does not obey it. Every later step keeps that (`HarmlessStep`). The step to
  `RateTransaction` is then that sealing decides (`SealDecides`), that a served request moves for its
  open transaction or not at all (`ServingMoves`), that drifts and reboots drift, and that nothing
  else touches the outcomes or the firmware (`StepAbstract`).

*`LegacyRateBridge_proofs`.*

- `TypeCorrect` (`TypeOK`) and `GoesForward` (`ForwardOnly`), for any points of death and any
  impatience. `Control` is what is needed besides the types: past its first phase a
  transaction has a prior state, and the worker writes only in a phase that awaits an answer.
- `SuccessIsOwn` (`VerdictTruthful`) and `KeepsThePromise` (the refinement of `RateTransaction`),
  assuming `Patient` and that the process dies only in the worker's loop; section 5 shows the
  first needed, and the second keeps out a death with an answer still on the line. `TruthInv` is
  the argument: at most one command or answer is under way, that of the pending transaction
  (`OneInv`), so an acknowledgement is of its own command; nothing was heard of a boot that is
  to come (`BootInv`), so one of the prior boot is of the boot in force; hence what the
  transaction was told of the sensor still holds when its heartbeat comes (`Told`).

*`CommandQueue_proofs`.* `TypeCorrect`; and, assuming that nobody asks for a reboot,
`LosesNothing` (`NothingLost`) and `QueuesOneAtATime` (`OneAtATime`). `SlotInv` is the
argument: the lock has one holder, between its look and its write the slot is empty and the
worker is in no place from which it could fill or empty it, and the worker removes only
the command it has taken. Deaths of operators and of the service, all three readers,
any number of runs and reused identities are covered. The assumption is needed: section 5.
`SurvivesItsOperators` (`WorkerSurvives`) assumes one run, and that an identity always comes with
the same link (`Steady`); section 5 shows both needed. Its invariant `HonestInv` says that
every request that waits or is in hand, and every event, has the identity and link of some
caller's request.

*`ChunkWriter_proofs`.* `TypeCorrect`, `IndexIsTruthful` (`IndexTruthful`), `ChunksStayInOrder`
(`ChunksInOrder`) and `KeepsARecord`, the refinement of `RecordLog`, for any number of lines,
deaths and faults. One invariant carries these four: the writer has counted no more lines than
were read (`Counted`), and no others than those of its chunk unless a write failed there (`Named`);
the numbers of the chunks have no gap, so a session counts on above every one there is (`Numbered`); a file is on disk but for the
last lines of the writer's own (`Unsure`), and holds only lines read before the one in hand (`FileInv`);
what has been renamed and not entered is what the process is about to enter, or
no longer can (`Named`). `HolesAreAccounted` (`HolesAccounted`) counts the latter: `HoleInv` says they
are no more than the deaths and faults that have been.

*`TransactionLedger_proofs`.* `TypeCorrect`, `ChainStands` (`ChainHolds`), `TransactionsAgree`
(`OneKind`), `AlarmsAreTrue` (`NoFalseAlarm`) for all constants; `ReturnedStay` (`ReturnedKept`)
and `KeepsARecord` (the refinement) assuming `~Newline`, which is needed: section 5. The locks
exclude one another (`LockInv`); so what a process has checked still holds when it writes: its
event follows the file (`FileInv`), whatever is cut off the file leaves a good one, and what was
returned is durable (`KeptInv`).

*`RunLifecycle_proofs`.* `TypeCorrect`, `ForgetsNothing` (`NothingForgotten`), `SealsHold`
(`SealHolds`) and `ReasonsAreTrue` (`ReasonTruthful`), for any number of workers, runs, calls
and troubles. From the join to the seal no thread is alive, and a session's run is
armed or replaced until `finish_active` has recorded its end (`SessionInv`); the reason is true of
the session unless its loop has raised (`WhyInv`); what the sealing has written stays until the
session's end (`SealInv`); and these give the properties at rest (`RestInv`).

*Only model-checked.* Liveness (`EveryAdoptionDecided`, `EveryAdoptionSettles`, `EveryCallReturns`,
`PartialsRecovered`, `EveryCallEnds`, `EveryRunEnds`) and the fairness it rests on, which with
`ENABLED` is out of the prover's reach. Every safety property and refinement of a passing run is proved;
the runs are what found the invariants and the windows that the theorems' assumptions leave out.

## 7. What is not modelled, and the plan

Left out for good: telemetry nobody reads back (UDP mirror, event log, health, what a
sampler measures), argument parsing, static configuration, shell scripts, repository checks.
`write_evidence_facts`, `verify_run` and the parsers of `protocols.py` keep no state: they are
functions of finished files or of one line, their hazards are in the wording of lines, and the
repository tests them; what they rely on, the order of the chunks and files that stay as
they were hashed, is `ChunksInOrder` and `SealHolds`.

Abstracted in the modules: the content of replies beyond a verdict, ages of heartbeats, disk
faults inside a bridge, the port with its reconnects, a torn line of the chunk index, a loss of power
that undoes a rename of a chunk (`ChunkWriter` has deaths of the process only; the ledger has both).

What is left, in this order:

1. `SerialWorker`: the port with its connection epochs and `interrupt_io`, and memory apart from
   the pending file, so that a disk error inside a bridge can be told from a lost port.
2. Composition of `CommandQueue` with a bridge instead of `Settle`, with the raw command's answer.
3. Proofs about those two.

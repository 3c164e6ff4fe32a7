------------------------- MODULE TransactionLedger -------------------------
(***************************************************************************)
(* The command ledger of a run, command-transactions.ndjson: a file of     *)
(* lines that operators and the service append to, each behind an          *)
(* exclusive flock under which it first reads and validates all there is,  *)
(* and that the service reads behind a shared one.  A process may die, a   *)
(* write may fail and the power may go at any step and leave a part of a   *)
(* line; what the program does then is to refuse.                          *)
(***************************************************************************)
EXTENDS Naturals, Sequences

CONSTANTS
  Process,  \* the processes, and threads, that use the ledger
  Txn,      \* transaction identities
  Kind,     \* what a transaction keeps: its schema and decision hash
  None,     \* no value
  Newline,  \* can an interrupted write leave a line that only lacks its end
  MaxCalls, MaxTroubles,
  MaxEvents  \* not below MaxCalls, if no append is to wait for it

ASSUME LedgerConstants ==
  /\ MaxCalls \in Nat /\ MaxTroubles \in Nat /\ MaxEvents \in Nat
  /\ Newline \in BOOLEAN
  /\ None \notin Process /\ None \notin Txn /\ None \notin Nat /\ None # "invalid"

VARIABLES
  file,     \* the lines
  durable,  \* how many of them are known to be on disk
  holder,   \* who has the exclusive lock
  sharers,  \* who has the shared one
  pc,       \* where each process is
  entry,    \* what it appends, and from the check on, the event
  result,   \* how its last call ended
  made,     \* the newest event
  returned, \* history: the events of appends that returned
  calls, troubles

disk == <<file, durable>>
lock == <<holder, sharers>>
history == <<made, returned>>
counters == <<calls, troubles>>
vars == <<disk, lock, pc, entry, result, history, counters>>

PC == {"idle", "lock", "check", "write", "flush", "sync", "share", "read"}

Entry == [txn : Txn \cup {None}, kind : Kind]

\* The id stands for event_sha256, prev for previous_event_sha256.
Event ==
  [txn : Txn \cup {None}, kind : Kind, id : 1..MaxEvents,
   seq : 1..MaxEvents, prev : (1..MaxEvents) \cup {None}]

\* A damaged line has no event; ended tells of its newline.
Line == [event : Event \cup {None}, ended : BOOLEAN]

ASSUME NoneAssumption == None \notin Event /\ None \notin Entry

Damaged(lines) == \E i \in 1..Len(lines) : lines[i].event = None

\* A process that wrote now would find the file without its last newline.
Bare(lines) == lines # <<>> /\ ~lines[Len(lines)].ended

\* What is written goes on the last line if that was not ended, and spoils it.
Behind(lines, line) ==
  IF Bare(lines) THEN [lines EXCEPT ![Len(lines)] = [event |-> None, ended |-> line.ended]]
                 ELSE Append(lines, line)

\* What the writing of an event leaves when it is interrupted.
Parts(e) ==
  {[event |-> None, ended |-> FALSE]} \cup (IF Newline THEN {[event |-> e, ended |-> FALSE]} ELSE {})

Whole(e) == [event |-> e, ended |-> TRUE]

Leftovers(e) == {file, Behind(file, Whole(e))} \cup {Behind(file, part) : part \in Parts(e)}

\* What a reader without a lock would see.
Unreadable == Damaged(file) \/ \E p \in Process : pc[p] = "flush"

-----------------------------------------------------------------------------
Goto(p, place) == pc' = [pc EXCEPT ![p] = place]

\* The call returns or raises; the file is closed and the lock given up.
Leave(p, outcome) ==
  /\ Goto(p, "idle")
  /\ entry' = [entry EXCEPT ![p] = None]
  /\ result' = [result EXCEPT ![p] = outcome]
  /\ holder' = IF holder = p THEN None ELSE holder
  /\ sharers' = sharers \ {p}

-----------------------------------------------------------------------------
(* append.                                                                 *)

Open(p, e) ==
  /\ pc[p] = "idle" /\ calls < MaxCalls
  /\ Goto(p, "lock")
  /\ entry' = [entry EXCEPT ![p] = e] /\ result' = [result EXCEPT ![p] = None]
  /\ calls' = calls + 1
  /\ UNCHANGED <<disk, lock, history, troubles>>

\* Slip: appenders share the lock.
LockShared(p) ==
  /\ pc[p] = "lock" /\ holder = None
  /\ sharers' = sharers \cup {p}
  /\ Goto(p, "check")
  /\ UNCHANGED <<disk, holder, entry, result, history, counters>>

Lock(p) ==
  /\ pc[p] = "lock" /\ holder = None /\ sharers = {}
  /\ holder' = p
  /\ Goto(p, "check")
  /\ UNCHANGED <<disk, sharers, entry, result, history, counters>>

\* Slip: only the last event is compared.
FitsLast(lines, e) ==
  e.txn # None /\ lines # <<>> /\ lines[Len(lines)].event.txn = e.txn => lines[Len(lines)].event.kind = e.kind

\* A transaction keeps its schema and its decision.
Fits(lines, e) ==
  e.txn # None =>
     \A i \in 1..Len(lines) : lines[i].event.txn = e.txn => lines[i].event.kind = e.kind

\* _validated_state raises.
Invalid(p) ==
  /\ pc[p] = "check" /\ Unreadable
  /\ Leave(p, "invalid")
  /\ UNCHANGED <<disk, history, counters>>

\* Slip: an append that was refused is tried again.
RefuseRetry(p) ==
  /\ pc[p] = "check" /\ ~Unreadable /\ ~Fits(file, entry[p])
  /\ holder' = None
  /\ Goto(p, "lock")
  /\ UNCHANGED <<disk, sharers, entry, result, history, counters>>

Refuse(p) ==
  /\ pc[p] = "check" /\ ~Unreadable /\ ~Fits(file, entry[p])
  /\ Leave(p, "refused")
  /\ UNCHANGED <<disk, history, counters>>

\* Slip: events are numbered from zero.
NextEventZero(e) ==
  [txn |-> e.txn, kind |-> e.kind, id |-> made + 1, seq |-> Len(file),
   prev |-> IF file = <<>> THEN None ELSE file[Len(file)].event.id]

NextEvent(e) ==
  [txn |-> e.txn, kind |-> e.kind, id |-> made + 1, seq |-> Len(file) + 1,
   prev |-> IF file = <<>> THEN None ELSE file[Len(file)].event.id]

\* Slip: what is there is read and not validated.
CheckBlindly(p) ==
  /\ pc[p] = "check" /\ made < MaxEvents
  /\ entry' = [entry EXCEPT ![p] =
       [txn |-> @.txn, kind |-> @.kind, id |-> made + 1, seq |-> Len(file) + 1, prev |-> None]]
  /\ made' = made + 1
  /\ Goto(p, "write")
  /\ UNCHANGED <<disk, lock, result, returned, counters>>

Check(p) ==
  /\ pc[p] = "check" /\ ~Unreadable /\ Fits(file, entry[p]) /\ made < MaxEvents
  /\ entry' = [entry EXCEPT ![p] = NextEvent(@)]
  /\ made' = made + 1
  /\ Goto(p, "write")
  /\ UNCHANGED <<disk, lock, result, returned, counters>>

\* The line is under way.
Write(p) ==
  /\ pc[p] = "write"
  /\ Goto(p, "flush")
  /\ UNCHANGED <<disk, lock, entry, result, history, counters>>

\* Slip: the file is written from its beginning.
FlushOver(p) ==
  /\ pc[p] = "flush"
  /\ file' = <<Whole(entry[p])>>
  /\ Goto(p, "sync")
  /\ UNCHANGED <<durable, lock, entry, result, history, counters>>

Flush(p) ==
  /\ pc[p] = "flush"
  /\ file' = Behind(file, Whole(entry[p]))
  /\ Goto(p, "sync")
  /\ UNCHANGED <<durable, lock, entry, result, history, counters>>

Sync(p) ==
  /\ pc[p] = "sync"
  /\ durable' = Len(file)
  /\ returned' = returned \cup {entry[p]}
  /\ Leave(p, "ok")
  /\ UNCHANGED <<file, made, counters>>

-----------------------------------------------------------------------------
(* classify_reply and transaction_ledger_summary.                          *)

OpenRead(p) ==
  /\ pc[p] = "idle" /\ calls < MaxCalls
  /\ Goto(p, "share") /\ result' = [result EXCEPT ![p] = None]
  /\ calls' = calls + 1
  /\ UNCHANGED <<disk, lock, entry, history, troubles>>

\* Slip: readers take no lock.
ShareNothing(p) ==
  /\ pc[p] = "share"
  /\ Goto(p, "read")
  /\ UNCHANGED <<disk, lock, entry, result, history, counters>>

Share(p) ==
  /\ pc[p] = "share" /\ holder = None
  /\ sharers' = sharers \cup {p}
  /\ Goto(p, "read")
  /\ UNCHANGED <<disk, holder, entry, result, history, counters>>

Read(p) ==
  /\ pc[p] = "read"
  /\ Leave(p, IF Unreadable THEN "invalid" ELSE "ok")
  /\ UNCHANGED <<disk, history, counters>>

-----------------------------------------------------------------------------
(* Troubles.                                                               *)

\* A call of the system fails, or the process dies.
Break(p) ==
  /\ pc[p] # "idle" /\ troubles < MaxTroubles
  /\ file' \in IF pc[p] = "flush" THEN Leftovers(entry[p]) ELSE {file}
  /\ Leave(p, "broken")
  /\ troubles' = troubles + 1
  /\ UNCHANGED <<durable, history, calls>>

\* What is left of the lines when the power goes: those that were synced,
\* and of the others a beginning, the last of which may be a part.
Left(lines) ==
  {SubSeq(lines, 1, n) : n \in durable..Len(lines)} \cup
  UNION {{Append(SubSeq(lines, 1, n), part) : part \in Parts(lines[n + 1].event)} :
            n \in durable..(Len(lines) - 1)}

PowerLoss ==
  /\ troubles < MaxTroubles
  /\ \/ file' \in Left(file)
     \/ \E p \in Process : pc[p] = "flush" /\ \E lines \in Leftovers(entry[p]) : file' \in Left(lines)
  /\ durable' = Len(file')
  /\ holder' = None /\ sharers' = {}
  /\ pc' = [p \in Process |-> "idle"]
  /\ entry' = [p \in Process |-> None]
  /\ result' = [p \in Process |-> None]
  /\ troubles' = troubles + 1
  /\ UNCHANGED <<history, calls>>

Init ==
  /\ file = <<>> /\ durable = 0
  /\ holder = None /\ sharers = {}
  /\ pc = [p \in Process |-> "idle"]
  /\ entry = [p \in Process |-> None] /\ result = [p \in Process |-> None]
  /\ made = 0 /\ returned = {}
  /\ calls = 0 /\ troubles = 0

Appending(p) == Invalid(p) \/ Refuse(p) \/ Check(p) \/ Write(p) \/ Flush(p) \/ Sync(p)

Call(p) == Appending(p) \/ Lock(p) \/ Share(p) \/ Read(p)

\* All calls are made and have ended.
Done == calls = MaxCalls /\ (\A p \in Process : pc[p] = "idle") /\ UNCHANGED vars

Next ==
  \/ \E p \in Process : Call(p) \/ OpenRead(p) \/ Break(p) \/ \E e \in Entry : Open(p, e)
  \/ PowerLoss
  \/ Done

Spec == Init /\ [][Next]_vars

\* A process that can run does, and the kernel hands a lock to every process
\* that waits for it in the end.
LiveSpec ==
  /\ Spec
  /\ \A p \in Process : WF_vars(Appending(p) \/ Read(p)) /\ SF_vars(Lock(p)) /\ SF_vars(Share(p))

-----------------------------------------------------------------------------
(* Properties.                                                             *)

\* Types.
TypeOK ==
  /\ file \in Seq(Line) /\ durable \in 0..Len(file)
  /\ holder \in Process \cup {None} /\ sharers \subseteq Process
  /\ pc \in [Process -> PC]
  /\ entry \in [Process -> Entry \cup Event \cup {None}]
  /\ result \in [Process -> {"ok", "invalid", "refused", "broken", None}]
  /\ made \in 0..MaxEvents /\ returned \subseteq Event
  /\ calls \in 0..MaxCalls /\ troubles \in 0..MaxTroubles

\* The events are a chain, whoever wrote them and whatever was interrupted:
\* each has its place for a number and names the one before it, and only the
\* last line may be damaged: nothing was ever written behind damage.
ChainHolds ==
  \A i \in 1..Len(file) :
     /\ file[i].event = None => i = Len(file)
     /\ file[i].event # None =>
          /\ file[i].event.seq = i
          /\ file[i].event.prev = IF i = 1 THEN None ELSE file[i - 1].event.id

\* All events of a transaction agree on its schema and its decision, though
\* its writers never talk to one another.
OneKind ==
  \A i, j \in 1..Len(file) :
     LET a == file[i].event
         b == file[j].event
     IN a # None /\ b # None /\ a.txn # None /\ a.txn = b.txn => a.kind = b.kind

\* Who was told that the ledger is invalid was not told so of a line that
\* somebody was about to finish.
NoFalseAlarm == \A p \in Process : result[p] = "invalid" => Damaged(file)

\* An event whose append returned is in the ledger for good, where it was
\* put, and can be read: no failure, and no later append, takes it away.
ReturnedKept ==
  \A e \in returned : e.seq <= Len(file) /\ file[e.seq].event = e

\* As of any other record: what is kept is kept in order, and no failure
\* takes what was safe.
Record == INSTANCE RecordLog WITH
  Line <- 1..MaxEvents,
  kept <- {e \in 1..MaxEvents : \E i \in 1..Len(file) : file[i].event # None /\ file[i].event.id = e},
  safe <- {e \in 1..MaxEvents : \E i \in 1..durable : file[i].event # None /\ file[i].event.id = e}

ImplementsRecordLog == Record!Spec

\* Every call ends, whatever becomes of those who have the lock.
EveryCallEnds == \A p \in Process : pc[p] # "idle" ~> pc[p] = "idle"
=============================================================================

---------------------- MODULE LegacyRateBridge_proofs ----------------------
(***************************************************************************)
(* Theorems about LegacyRateBridge, for any transactions, rates and        *)
(* bounds; the first two for any points of death and any impatience.       *)
(***************************************************************************)
EXTENDS LegacyRateBridge, TLAPS

\* What the worker's place and the phase say of the pending transaction: it
\* is there to be sent, sealed or removed, has an intent to be sealed with,
\* and past its first phase a prior state to go back to.
Control ==
  /\ pc \in {"write", "seal", "status", "unlink-pending"} => pending # None
  /\ pc \in {"seal", "status"} => pending.intent # None
  /\ pending # None /\ pending.phase # "queued" => pending.prior # None
  /\ pc = "write" => pending.phase \in AwaitingAck

IInv == TypeOK /\ Control

LEMMA InitInv == Init => IInv
<1> SUFFICES ASSUME Init PROVE IInv
  OBVIOUS
<1>1. device \in [boot : Nat, hz : Rate, owner : Maybe(Txn)]
  BY DEF Init, Maybe
<1>2. budget \in [{"crashes", "reboots"} -> Nat]
  BY LegacyConstants DEF Init
<1>3. wire \in Seq([tid : Txn, hz : Rate]) /\ line \in Seq(Line)
  BY DEF Init
<1>4. terminals \in [Txn -> Seq(Terminal)]
  BY DEF Init
<1>. QED
  BY <1>1, <1>2, <1>3, <1>4 DEF Init, IInv, TypeOK, Control, Maybe, PC

-----------------------------------------------------------------------------
(* Phases and records.                                                     *)

LEMMA Ranks ==
  /\ Rank("queued") = 1 /\ Rank("apply-await-ack") = 2 /\ Rank("await-postcondition") = 3
  /\ Rank("restore-pending") = 4 /\ Rank("restore-await-ack") = 5
  /\ Rank("await-restore-postcondition") = 6
<1>1. /\ Phases[1] = "queued" /\ Phases[2] = "apply-await-ack" /\ Phases[3] = "await-postcondition"
      /\ Phases[4] = "restore-pending" /\ Phases[5] = "restore-await-ack"
      /\ Phases[6] = "await-restore-postcondition"
  BY DEF Phases
<1>2. 1..6 = {1, 2, 3, 4, 5, 6}
  OBVIOUS
<1>. QED
  BY <1>1, <1>2 DEF Rank

LEMMA PhaseNames ==
  Phase = {"queued", "apply-await-ack", "await-postcondition", "restore-pending",
           "restore-await-ack", "await-restore-postcondition"}
<1>1. 1..6 = {1, 2, 3, 4, 5, 6}
  OBVIOUS
<1>. QED
  BY <1>1 DEF Phase, Phases

\* A pending transaction with another phase, attempt or intent.
LEMMA PendingUpdate ==
  ASSUME NEW s \in PendingType, NEW phase \in Phase, NEW attempted \in BOOLEAN,
         NEW term \in Terminal, NEW prior \in Heartbeat
  PROVE  /\ [s EXCEPT !.intent = term] \in PendingType
         /\ [s EXCEPT !.phase = phase] \in PendingType
         /\ [s EXCEPT !.attempted = attempted, !.phase = phase] \in PendingType
         /\ [s EXCEPT !.prior = prior, !.phase = phase] \in PendingType
BY DEF PendingType, Maybe

LEMMA ExpectedType ==
  ASSUME NEW s \in PendingType, s.phase # "queued" => s.prior # None
  PROVE  Expected(s) \in Rate
BY DEF PendingType, Expected, Restoring, Maybe, Heartbeat

LEMMA TransmitType ==
  ASSUME NEW S, NEW queue \in Seq(S), NEW m \in S, NEW next \in Transmit(queue, m)
  PROVE  next \in Seq(S)
BY DEF Transmit

-----------------------------------------------------------------------------
(* Steps of the bridge: what each leaves behind, and where it goes.        *)

\* After a step that works on the transaction s: it is the same transaction,
\* in no earlier phase, well formed, and nothing is written.
Left(s, next) ==
  /\ pending' \in PendingType /\ pending' # None /\ pending'.tid = s.tid
  /\ pending'.phase # "queued" => pending'.prior # None
  /\ Rank(pending'.phase) >= Rank(s.phase)
  /\ pc' \in {"seal", next} /\ (pc' = "seal" => pending'.intent # None)
  /\ then' \in {then, next}

Fine(s) == s \in PendingType /\ (s.phase # "queued" => s.prior # None)

LEMMA RankTypes == \A phase \in Phase : Rank(phase) \in 1..6
BY Ranks, PhaseNames

LEMMA FinishLeft ==
  ASSUME NEW s, Fine(s), NEW term \in Terminal, NEW next, Finish(s, term, next)
  PROVE  Left(s, next)
<1>1. pending' \in PendingType
  BY DEF Finish, Fine, PendingType, Maybe
<1>2. /\ pending'.tid = s.tid /\ pending'.phase = s.phase /\ pending'.prior = s.prior
      /\ pending'.intent = term
  BY DEF Finish, Fine, PendingType
<1>3. Rank(s.phase) \in 1..6
  BY RankTypes DEF Fine, PendingType
<1>. QED
  BY <1>1, <1>2, <1>3, NoneAssumption DEF Left, Finish, Fine

LEMMA KeepLeft ==
  ASSUME NEW s, Fine(s), NEW r, Fine(r), r.tid = s.tid, NEW next,
         Rank(r.phase) >= Rank(s.phase), Keep(r, next), next # "seal"
  PROVE  Left(s, next)
BY NoneAssumption DEF Keep, Left, Fine

LEMMA BeginRestoreLeft ==
  ASSUME NEW s, Fine(s), s.phase \notin Restoring, NEW next, next # "seal", BeginRestore(s, next)
  PROVE  Left(s, next)
<1>1. CASE s.prior = None \/ s.attempted
  BY <1>1, FinishLeft DEF BeginRestore, Terminal
<1>2. CASE ~(s.prior = None \/ s.attempted)
  <2> DEFINE r == [s EXCEPT !.attempted = TRUE, !.phase = "restore-pending"]
  <2>1. r \in PendingType
    BY PhaseNames DEF Fine, PendingType
  <2>2. r.phase = "restore-pending" /\ r.prior = s.prior /\ r.tid = s.tid
    BY DEF Fine, PendingType
  <2>3. Rank(r.phase) >= Rank(s.phase)
    BY <2>2, Ranks, PhaseNames DEF Fine, PendingType, Restoring
  <2>4. Fine(r)
    BY <1>2, <2>1, <2>2 DEF Fine
  <2>5. Keep(r, next)
    BY <1>2 DEF BeginRestore
  <2>. QED
    BY <2>2, <2>3, <2>4, <2>5, KeepLeft
<1>. QED
  BY <1>1, <1>2

LEMMA DisappointedLeft ==
  ASSUME NEW s, Fine(s), NEW next, next # "seal", Disappointed(s, next)
  PROVE  Left(s, next)
<1>1. CASE s.phase \in Restoring
  BY <1>1, FinishLeft DEF Disappointed, Terminal
<1>2. CASE s.phase \notin Restoring
  BY <1>2, BeginRestoreLeft DEF Disappointed
<1>. QED
  BY <1>1, <1>2

LEMMA CompareLeft ==
  ASSUME NEW s, Fine(s), NEW h, Compare(s, h)
  PROVE  Left(s, "loop")
<1> DEFINE term == IF s.phase \in Restoring THEN "rolled-back" ELSE "committed"
<1>1. CASE Finish(s, term, "loop")
  BY <1>1, FinishLeft DEF Terminal
<1>2. CASE Disappointed(s, "loop")
  BY <1>2, DisappointedLeft
<1>. QED
  BY <1>1, <1>2 DEF Compare

LEMMA AcknowledgeLeft ==
  ASSUME NEW s, Fine(s), s.phase \in AwaitingAck, NEW r, Acknowledge(s, r)
  PROVE  Left(s, "loop")
<1>1. CASE r.hz = Expected(s)
  <2> DEFINE phase == IF s.phase \in Restoring THEN "await-restore-postcondition"
                                               ELSE "await-postcondition"
             n == [s EXCEPT !.phase = phase]
  <2>1. n \in PendingType
    BY PhaseNames DEF Fine, PendingType
  <2>2. n.phase = phase /\ n.prior = s.prior /\ n.tid = s.tid
    BY DEF Fine, PendingType
  <2>3. Rank(n.phase) >= Rank(s.phase)
    BY <2>2, Ranks DEF AwaitingAck, Restoring
  <2>4. Fine(n)
    BY <2>1, <2>2 DEF Fine, AwaitingAck
  <2>5. Keep(n, "loop")
    BY <1>1 DEF Acknowledge
  <2>. QED
    BY <2>2, <2>3, <2>4, <2>5, KeepLeft
<1>2. CASE Disappointed(s, "loop")
  BY <1>2, DisappointedLeft
<1>. QED
  BY <1>1, <1>2 DEF Acknowledge

LEMMA RejectLeft ==
  ASSUME NEW s, Fine(s), NEW r, Reject(s, r)
  PROVE  Left(s, "loop")
<1>1. CASE Finish(s, "failed-safe", "loop")
  BY <1>1, FinishLeft DEF Terminal
<1>2. CASE Disappointed(s, "loop")
  BY <1>2, DisappointedLeft
<1>. QED
  BY <1>1, <1>2 DEF Reject

\* A step that works on the pending transaction keeps the invariant.
LEMMA LeftInv ==
  ASSUME IInv, pending # None, NEW next \in {"loop", "read", "stopped"}, Left(pending, next),
         UNCHANGED <<requests, command, status, terminals, device, wire, budget>>,
         heartbeat' \in Maybe(Heartbeat), line' \in Seq(Line)
  PROVE  IInv'
<1>1. TypeOK'
  <2>1. pc' \in PC /\ then' \in {"loop", "poll", "read", "shut", "stopped"}
    BY DEF Left, IInv, TypeOK, PC
  <2>2. pending' \in Maybe(PendingType)
    BY DEF Left, Maybe
  <2>. QED
    BY <2>1, <2>2 DEF IInv, TypeOK
<1>2. Control'
  BY DEF Left, Control
<1>. QED
  BY <1>1, <1>2 DEF IInv

LEMMA PendingFine ==
  ASSUME IInv, pending # None
  PROVE  Fine(pending)
BY DEF IInv, TypeOK, Control, Fine, Maybe

\* A step that leaves the transaction alone and goes to a place that needs none.
LEMMA IdleInv ==
  ASSUME IInv, pc' \in {"loop", "poll", "read", "shut", "stopped", "down"},
         UNCHANGED <<pending, status, terminals, device, wire, budget>>,
         requests' \subseteq Txn, command' \in Maybe([tid : Txn, hz : Rate]),
         then' \in {"loop", "poll", "read", "shut", "stopped"},
         heartbeat' \in Maybe(Heartbeat), line' \in Seq(Line)
  PROVE  IInv'
<1>1. TypeOK'
  BY DEF IInv, TypeOK, PC
<1>2. Control'
  BY DEF IInv, Control
<1>. QED
  BY <1>1, <1>2 DEF IInv

-----------------------------------------------------------------------------
(* The actions.                                                            *)

LEMMA AdoptInv ==
  ASSUME IInv, NEW next \in {"poll", "shut"}, Adopt(next)
  PROVE  IInv' /\ pending' # None
<1>1. command \in [tid : Txn, hz : Rate]
  BY DEF IInv, TypeOK, Maybe, Adopt
<1>2. pending' \in PendingType
  BY <1>1, PhaseNames DEF Adopt, Adopted, PendingType, Maybe
<1>3. pending' # None /\ pending'.phase = "queued" /\ pc' = "unlink-command" /\ then' = next
  BY <1>2, NoneAssumption DEF Adopt, Adopted
<1>4. TypeOK'
  <2>1. UNCHANGED <<requests, command, status, terminals, heartbeat, device, wire, line, budget>>
    BY DEF Adopt, link
  <2>2. pending' \in Maybe(PendingType) /\ pc' \in PC
    BY <1>2, <1>3 DEF Maybe, PC
  <2>. QED
    BY <1>3, <2>1, <2>2 DEF IInv, TypeOK
<1>5. Control'
  BY <1>3 DEF Control
<1>. QED
  BY <1>3, <1>4, <1>5 DEF IInv

\* The two steps that go on to write a line are on the way into a new phase.
LEMMA SendInv ==
  ASSUME IInv, PollCapture \/ PollRestore
  PROVE  IInv' /\ pending'.tid = pending.tid /\ Rank(pending'.phase) > Rank(pending.phase)
<1>1. Fine(pending) /\ pending # None
  BY PendingFine DEF PollCapture, PollRestore
<1>2. /\ pending' \in PendingType /\ pending'.prior # None /\ pending'.phase \in AwaitingAck
      /\ pending'.tid = pending.tid /\ Rank(pending'.phase) > Rank(pending.phase)
  <2>1. CASE PollCapture
    <3>1. heartbeat \in Heartbeat
      BY <2>1 DEF PollCapture, IInv, TypeOK, Maybe
    <3>2. pending' = [pending EXCEPT !.prior = heartbeat, !.phase = "apply-await-ack"]
      BY <2>1 DEF PollCapture, Keep
    <3>3. pending' \in PendingType
      BY <1>1, <3>1, <3>2, PhaseNames DEF Fine, PendingType, Maybe
    <3>4. pending'.prior = heartbeat /\ pending'.phase = "apply-await-ack" /\ pending'.tid = pending.tid
      BY <1>1, <3>2 DEF Fine, PendingType
    <3>. QED
      BY <2>1, <3>1, <3>3, <3>4, Ranks, NoneAssumption DEF PollCapture, AwaitingAck
  <2>2. CASE PollRestore
    <3>1. pending' = [pending EXCEPT !.phase = "restore-await-ack"]
      BY <2>2 DEF PollRestore, Keep
    <3>2. pending' \in PendingType
      BY <1>1, <3>1, PhaseNames DEF Fine, PendingType
    <3>3. /\ pending'.prior = pending.prior /\ pending'.phase = "restore-await-ack"
          /\ pending'.tid = pending.tid
      BY <1>1, <3>1 DEF Fine, PendingType
    <3>. QED
      BY <1>1, <2>2, <3>2, <3>3, Ranks DEF PollRestore, AwaitingAck, Fine
  <2>. QED
    BY <2>1, <2>2
<1>3. /\ pc' = "write" /\ then' = then
      /\ UNCHANGED <<requests, command, status, terminals, heartbeat, link, budget>>
  BY DEF PollCapture, PollRestore, Keep
<1>4. pending' # None
  BY <1>2, NoneAssumption
<1>5. TypeOK'
  BY <1>2, <1>3 DEF IInv, TypeOK, Maybe, link, PC
<1>6. Control'
  BY <1>2, <1>3, <1>4 DEF Control
<1>. QED
  BY <1>2, <1>5, <1>6 DEF IInv

LEMMA WriteInv ==
  ASSUME IInv, Write
  PROVE  IInv'
<1>1. pending # None /\ Fine(pending)
  BY PendingFine DEF Write, IInv, Control
<1>2. [tid |-> pending.tid, hz |-> Expected(pending)] \in [tid : Txn, hz : Rate]
  BY <1>1, ExpectedType DEF Fine, PendingType
<1>3. wire' \in Seq([tid : Txn, hz : Rate])
  BY <1>2, TransmitType DEF Write, IInv, TypeOK
<1>4. TypeOK'
  BY <1>3 DEF Write, IInv, TypeOK, files, PC
<1>5. Control'
  BY DEF Write, IInv, Control, files
<1>. QED
  BY <1>4, <1>5 DEF IInv

LEMMA SealInv ==
  ASSUME IInv, SealTerminal \/ WriteStatus \/ LoadSettled
  PROVE  IInv'
<1>1. pending # None /\ pending \in PendingType
  BY DEF SealTerminal, WriteStatus, LoadSettled, IInv, TypeOK, Control, Maybe
<1>2. CASE SealTerminal
  <2>1. pending.intent \in Terminal
    BY <1>1, <1>2 DEF SealTerminal, IInv, Control, PendingType, Maybe
  <2>2. terminals' \in [Txn -> Seq(Terminal)]
    <3>1. Append(terminals[pending.tid], pending.intent) \in Seq(Terminal)
      BY <1>1, <2>1 DEF IInv, TypeOK, PendingType
    <3>. QED
      BY <1>2, <3>1 DEF SealTerminal, IInv, TypeOK
  <2>3. TypeOK'
    BY <1>2, <2>2 DEF SealTerminal, IInv, TypeOK, link, PC
  <2>4. Control'
    BY <1>2 DEF SealTerminal, IInv, Control
  <2>. QED
    BY <2>3, <2>4 DEF IInv
<1>3. CASE WriteStatus \/ LoadSettled
  <2>1. status' \in [tid : Txn, term : Terminal]
    <3>1. CASE WriteStatus
      BY <1>1, <3>1 DEF WriteStatus, IInv, Control, PendingType, Maybe
    <3>2. CASE LoadSettled
      <4>1. terminals[pending.tid] \in Seq(Terminal) /\ terminals[pending.tid] # <<>>
        BY <1>1, <3>2 DEF LoadSettled, Settled, IInv, TypeOK, PendingType
      <4>2. terminals[pending.tid][Len(terminals[pending.tid])] \in Terminal
        BY <4>1
      <4>. QED
        BY <1>1, <3>2, <4>2 DEF LoadSettled, PendingType
    <3>. QED
      BY <1>3, <3>1, <3>2
  <2>2. TypeOK'
    BY <1>3, <2>1 DEF WriteStatus, LoadSettled, IInv, TypeOK, link, PC, Maybe
  <2>3. Control'
    BY <1>1, <1>3 DEF WriteStatus, LoadSettled, IInv, Control
  <2>. QED
    BY <2>2, <2>3 DEF IInv
<1>. QED
  BY <1>2, <1>3

LEMMA UnlinkInv ==
  ASSUME IInv, UnlinkCommand \/ UnlinkPending
  PROVE  IInv'
<1>1. TypeOK'
  BY DEF UnlinkCommand, UnlinkPending, IInv, TypeOK, link, Maybe, PC
<1>2. Control'
  BY DEF UnlinkCommand, UnlinkPending, IInv, TypeOK, Control
<1>. QED
  BY <1>1, <1>2 DEF IInv

LEMMA LoadInv ==
  ASSUME IInv, Load
  PROVE  IInv'
<1>1. TypeOK'
  BY DEF Load, IInv, TypeOK, files, link, PC
<1>2. Control'
  BY DEF Load, IInv, Control, files
<1>. QED
  BY <1>1, <1>2 DEF IInv

\* The steps of the bridge that work on the transaction and write nothing.
Working ==
  \/ PollStale \/ PollTimeout \/ ShutdownSeal
  \/ ReadHeartbeat /\ pending # None /\ pending.phase \in AwaitingHeartbeat
  \/ ReadAnswer /\ pending # None /\ pending.phase \in AwaitingAck

LEMMA WorkingLeft ==
  ASSUME IInv, Working
  PROVE  pending # None /\ \E next \in {"loop", "read", "stopped"} : Left(pending, next)
<1>1. pending # None /\ Fine(pending)
  BY PendingFine DEF Working, PollStale, PollTimeout, ShutdownSeal
<1>2. CASE PollStale
  BY <1>1, <1>2, FinishLeft DEF PollStale, Terminal
<1>3. CASE PollTimeout
  BY <1>1, <1>3, DisappointedLeft DEF PollTimeout
<1>4. CASE ShutdownSeal
  BY <1>1, <1>4, FinishLeft DEF ShutdownSeal, ShutdownOutcome, Terminal
<1>5. CASE ReadHeartbeat /\ pending.phase \in AwaitingHeartbeat
  BY <1>1, <1>5, CompareLeft DEF ReadHeartbeat
<1>6. CASE ReadAnswer /\ pending.phase \in AwaitingAck
  BY <1>1, <1>6, AcknowledgeLeft, RejectLeft DEF ReadAnswer
<1>. QED
  BY <1>1, <1>2, <1>3, <1>4, <1>5, <1>6 DEF Working

LEMMA SeqTail ==
  ASSUME NEW S, NEW queue \in Seq(S), queue # <<>>
  PROVE  Tail(queue) \in Seq(S) /\ Head(queue) \in S
OBVIOUS

LEMMA LineTail ==
  ASSUME TypeOK, line # <<>>
  PROVE  Tail(line) \in Seq(Line) /\ Head(line) \in Line
<1>. line \in Seq(Line)
  BY DEF TypeOK
<1>. QED
  BY SeqTail

LEMMA WorkingInv ==
  ASSUME IInv, Working
  PROVE  IInv'
<1>1. PICK next \in {"loop", "read", "stopped"} : pending # None /\ Left(pending, next)
  BY WorkingLeft
<1>2. /\ UNCHANGED <<requests, command, status, terminals, device, wire, budget>>
      /\ heartbeat' \in Maybe(Heartbeat) /\ line' \in Seq(Line)
  <2>1. CASE PollStale \/ PollTimeout \/ ShutdownSeal
    BY <2>1 DEF PollStale, PollTimeout, ShutdownSeal, link, IInv, TypeOK
  <2>2. CASE ReadHeartbeat
    BY <2>2, LineTail DEF ReadHeartbeat, IInv, TypeOK, Maybe, Heartbeat, Line
  <2>3. CASE ReadAnswer
    BY <2>3, LineTail DEF ReadAnswer, IInv, TypeOK
  <2>. QED
    BY <2>1, <2>2, <2>3 DEF Working
<1>. QED
  BY <1>1, <1>2, LeftInv

\* The steps that leave the transaction alone.
Resting ==
  \/ PollWait \/ ReadNothing \/ ShutdownIdle \/ Crash
  \/ ReadHeartbeat /\ ~(pending # None /\ pending.phase \in AwaitingHeartbeat)
  \/ ReadAnswer /\ ~(pending # None /\ pending.phase \in AwaitingAck)

LEMMA RestingInv ==
  ASSUME IInv, Resting
  PROVE  IInv' /\ UNCHANGED pending /\ pc' # "write"
<1>1. CASE PollWait \/ ReadNothing \/ ShutdownIdle \/ Crash
  <2>1. /\ UNCHANGED <<files, link>> /\ pc' \in {"loop", "read", "stopped", "down"}
        /\ budget' \in [{"crashes", "reboots"} -> Nat]
        /\ then' \in {then, "loop"} /\ heartbeat' \in {heartbeat, None}
    BY <1>1 DEF PollWait, ReadNothing, ShutdownIdle, Crash, Spend, IInv, TypeOK
  <2>2. TypeOK'
    BY <2>1 DEF IInv, TypeOK, files, link, PC, Maybe
  <2>3. Control'
    BY <2>1 DEF IInv, Control, files
  <2>. QED
    BY <2>1, <2>2, <2>3 DEF IInv, files
<1>2. CASE ReadHeartbeat /\ ~(pending # None /\ pending.phase \in AwaitingHeartbeat)
  <2>1. UNCHANGED <<requests, command, pending, status, terminals, then, device, wire, budget>> /\ pc' = "loop"
    BY <1>2 DEF ReadHeartbeat
  <2>2. heartbeat' \in Maybe(Heartbeat) /\ line' \in Seq(Line)
    BY <1>2, LineTail DEF ReadHeartbeat, IInv, TypeOK, Maybe, Heartbeat, Line
  <2>. QED
    BY <2>1, <2>2, IdleInv DEF IInv, TypeOK
<1>3. CASE ReadAnswer /\ ~(pending # None /\ pending.phase \in AwaitingAck)
  <2>1. /\ UNCHANGED <<requests, command, pending, status, terminals, heartbeat, then, device, wire, budget>>
        /\ pc' = "loop"
    BY <1>3 DEF ReadAnswer
  <2>2. line' \in Seq(Line)
    BY <1>3, LineTail DEF ReadAnswer, IInv, TypeOK
  <2>. QED
    BY <2>1, <2>2, IdleInv DEF IInv, TypeOK
<1>. QED
  BY <1>1, <1>2, <1>3 DEF Resting

LEMMA QueueInv ==
  ASSUME IInv, NEW t \in Txn, NEW hz \in Rate, Queue(t, hz)
  PROVE  IInv'
<1>1. TypeOK'
  BY DEF Queue, worker, link, IInv, TypeOK, Maybe
<1>2. Control'
  BY DEF Queue, worker, IInv, Control
<1>. QED
  BY <1>1, <1>2 DEF IInv

\* The firmware changes nothing but the line and itself.
LEMMA DeviceInv ==
  ASSUME IInv, Device
  PROVE  IInv' /\ UNCHANGED <<files, worker>>
<1>1. UNCHANGED <<files, worker>>
  BY DEF Device, Apply, Refuse, Beat, Reboot
<1>2. /\ device' \in [boot : Nat, hz : Rate, owner : Maybe(Txn)]
      /\ wire' \in Seq([tid : Txn, hz : Rate]) /\ line' \in Seq(Line)
      /\ budget' \in [{"crashes", "reboots"} -> Nat]
  <2>1. wire # <<>> => Head(wire) \in [tid : Txn, hz : Rate] /\ Tail(wire) \in Seq([tid : Txn, hz : Rate])
    <3>. wire \in Seq([tid : Txn, hz : Rate])
      BY DEF IInv, TypeOK
    <3>. QED
      BY SeqTail
  <2>2. CASE Apply
    <3>1. device' \in [boot : Nat, hz : Rate, owner : Maybe(Txn)]
      BY <2>1, <2>2 DEF Apply, IInv, TypeOK, Maybe
    <3>2. Say("applied", Head(wire).hz, device') \in Line
      BY <2>1, <2>2, <3>1 DEF Apply, Say, Line
    <3>3. line' \in Seq(Line)
      BY <2>2, <3>2, TransmitType DEF Apply, IInv, TypeOK
    <3>. QED
      BY <2>1, <2>2, <3>1, <3>3 DEF Apply, IInv, TypeOK
  <2>3. CASE Refuse
    <3>1. Say("rejected", Head(wire).hz, device) \in Line
      BY <2>1, <2>3 DEF Refuse, Say, Line, IInv, TypeOK
    <3>2. line' \in Seq(Line)
      BY <2>3, <3>1, TransmitType DEF Refuse, IInv, TypeOK
    <3>. QED
      BY <2>1, <2>3, <3>2 DEF Refuse, IInv, TypeOK
  <2>4. CASE Beat
    <3>1. Say("heartbeat", device.hz, device) \in Line
      BY DEF Say, Line, IInv, TypeOK
    <3>. QED
      BY <2>4, <3>1 DEF Beat, IInv, TypeOK
  <2>5. CASE \E hz \in Rate : Reboot(hz)
    <3>1. PICK hz \in Rate : Reboot(hz)
      BY <2>5
    <3>2. device' \in [boot : Nat, hz : Rate, owner : Maybe(Txn)]
      BY <3>1 DEF Reboot, IInv, TypeOK, Maybe
    <3>3. budget' \in [{"crashes", "reboots"} -> Nat]
      BY <3>1 DEF Reboot, Spend, IInv, TypeOK
    <3>. QED
      BY <3>1, <3>2, <3>3 DEF Reboot, IInv, TypeOK
  <2>. QED
    BY <2>2, <2>3, <2>4, <2>5 DEF Device
<1>3. TypeOK'
  BY <1>1, <1>2 DEF IInv, TypeOK, files, worker
<1>4. Control'
  BY <1>1 DEF IInv, Control, files, worker
<1>. QED
  BY <1>1, <1>3, <1>4 DEF IInv

-----------------------------------------------------------------------------
(* The theorems.                                                           *)

LEMMA StepInv == IInv /\ [Next]_vars => IInv'
<1> SUFFICES ASSUME IInv, [Next]_vars PROVE IInv'
  OBVIOUS
<1>1. CASE PollAdopt \/ ShutdownAdopt
  BY <1>1, AdoptInv DEF PollAdopt, ShutdownAdopt
<1>2. CASE PollCapture \/ PollRestore
  BY <1>2, SendInv
<1>3. CASE Write
  BY <1>3, WriteInv
<1>4. CASE SealTerminal \/ WriteStatus \/ LoadSettled
  BY <1>4, SealInv
<1>5. CASE UnlinkCommand \/ UnlinkPending
  BY <1>5, UnlinkInv
<1>6. CASE Load
  BY <1>6, LoadInv
<1>7. CASE Working
  BY <1>7, WorkingInv
<1>8. CASE Resting
  BY <1>8, RestingInv
<1>9. CASE \E t \in Txn, hz \in Rate : Queue(t, hz)
  BY <1>9, QueueInv
<1>10. CASE Device
  BY <1>10, DeviceInv
<1>11. CASE UNCHANGED vars
  <2>1. UNCHANGED <<files, worker, link, budget>>
    BY <1>11 DEF vars
  <2>. QED
    BY <2>1 DEF IInv, TypeOK, Control, files, worker, link
<1>. QED
  BY <1>1, <1>2, <1>3, <1>4, <1>5, <1>6, <1>7, <1>8, <1>9, <1>10, <1>11
     DEF Next, Worker, Host, Terminated, Working, Resting

\* Every variable stays in its set, in every instance.
THEOREM TypeCorrect == Spec => []TypeOK
<1>1. IInv => TypeOK
  BY DEF IInv
<1>. QED
  BY <1>1, InitInv, StepInv, PTL DEF Spec

\* One step of what ForwardOnly says.
Forward ==
  pending # None /\ pending' # None /\ pending'.tid = pending.tid
     => /\ Rank(pending'.phase) >= Rank(pending.phase)
        /\ pc # "write" /\ pc' = "write" => Rank(pending'.phase) > Rank(pending.phase)

LEMMA UnchangedForward ==
  ASSUME IInv, UNCHANGED pending, pc # "write" => pc' # "write"
  PROVE  Forward
<1>1. pending # None => Rank(pending.phase) \in 1..6
  BY RankTypes, PendingFine DEF Fine, PendingType
<1>. QED
  BY <1>1 DEF Forward

LEMMA StepForward == IInv /\ [Next]_vars => Forward
<1> SUFFICES ASSUME IInv, [Next]_vars PROVE Forward
  OBVIOUS
<1>1. CASE PollAdopt \/ ShutdownAdopt
  BY <1>1 DEF PollAdopt, ShutdownAdopt, Adopt, Forward
<1>2. CASE PollCapture \/ PollRestore
  <2>1. pending # None
    BY <1>2 DEF PollCapture, PollRestore
  <2>2. Rank(pending.phase) \in 1..6 /\ Rank(pending'.phase) > Rank(pending.phase)
    BY <1>2, <2>1, SendInv, RankTypes, PendingFine DEF Fine, PendingType
  <2>3. pending' # None => pending' \in PendingType
    BY <1>2, SendInv DEF IInv, TypeOK, Maybe
  <2>4. pending' # None => Rank(pending'.phase) \in 1..6
    BY <2>3, RankTypes DEF PendingType
  <2>. QED
    BY <2>2, <2>4 DEF Forward
<1>3. CASE Working
  <2>1. PICK next \in {"loop", "read", "stopped"} : Left(pending, next)
    BY <1>3, WorkingLeft
  <2>. QED
    BY <2>1 DEF Left, Forward
<1>4. CASE Write \/ SealTerminal \/ WriteStatus \/ LoadSettled \/ UnlinkCommand \/ Load
  <2>1. UNCHANGED pending
    BY <1>4 DEF Write, SealTerminal, WriteStatus, LoadSettled, UnlinkCommand, Load, files
  <2>2. pc' # "write"
    BY <1>4 DEF Write, SealTerminal, WriteStatus, LoadSettled, UnlinkCommand, Load, IInv, TypeOK
  <2>. QED
    BY <2>1, <2>2, UnchangedForward
<1>5. CASE UnlinkPending
  BY <1>5 DEF UnlinkPending, Forward
<1>6. CASE Resting
  BY <1>6, RestingInv, UnchangedForward
<1>7. CASE \E t \in Txn, hz \in Rate : Queue(t, hz)
  BY <1>7, UnchangedForward DEF Queue, worker
<1>8. CASE Device
  BY <1>8, DeviceInv, UnchangedForward DEF files, worker
<1>9. CASE UNCHANGED vars
  BY <1>9, UnchangedForward DEF vars, files, worker
<1>. QED
  BY <1>1, <1>2, <1>3, <1>4, <1>5, <1>6, <1>7, <1>8, <1>9
     DEF Next, Worker, Host, Terminated, Working, Resting

\* No crash, timeout or stray answer makes the bridge repeat a command that
\* may have been obeyed, whatever the bounds: it writes only on the way into
\* a new phase, and leaves none for an earlier one.
THEOREM GoesForward == Spec => ForwardOnly
<1>1. IInv /\ [Next]_vars => [Forward]_vars
  BY StepForward
<1>. QED
  BY <1>1, InitInv, StepInv, PTL DEF Spec, ForwardOnly, Forward

-----------------------------------------------------------------------------
(* What a decision says is true, as long as deadlines pass only when       *)
(* nothing is under way and the process dies only in the worker's loop.    *)

Last(t) == terminals[t][Len(terminals[t])]

\* Transactions begin and end once, and the sensor obeys none that was not
\* sent.
OnceInv ==
  /\ \A t \in requests : ~Settled(t) /\ device.owner # t
  /\ command # None /\ pc # "unlink-command" =>
       /\ pending = None /\ command.tid \notin requests
       /\ ~Settled(command.tid) /\ device.owner # command.tid
  /\ pending # None =>
       /\ pending.tid \notin requests
       /\ pending.intent # None => pc \in {"seal", "status", "unlink-pending"}
       /\ pc \notin {"status", "unlink-pending"} => ~Settled(pending.tid)
       /\ pc \in {"status", "unlink-pending"} =>
            Settled(pending.tid) /\ Last(pending.tid) = pending.intent
  /\ pc = "stopped" => pending = None
  /\ pc = "unlink-command" => pending # None /\ pending.phase = "queued" /\ then # "stopped"

Answer(i) == line[i].kind # "heartbeat"

\* No command is on its way to the sensor, and no answer back.
Quiet == wire = <<>> /\ \A i \in 1..Len(line) : ~Answer(i)

\* At most one command or answer is under way: that of the pending
\* transaction, or of the one the worker stopped over.
OneInv ==
  /\ Len(wire) <= 1
  /\ wire # <<>> => \A i \in 1..Len(line) : ~Answer(i)
  /\ \A i, j \in 1..Len(line) : Answer(i) /\ Answer(j) => i = j
  /\ \/ Quiet
     \/ pc = "stopped"
     \/ /\ pending # None /\ pending.phase \in AwaitingAck /\ pc # "write"
        /\ pending.intent # None => pending.intent = "rollback-failed" /\ then = "stopped"
  /\ \A i \in 1..Len(wire) :
       /\ pc = "stopped" => Settled(wire[i].tid) /\ Last(wire[i].tid) = "rollback-failed"
       /\ pending # None => wire[i].tid = pending.tid

\* Nothing was seen of a boot that is to come.
BootInv ==
  /\ \A i \in 1..Len(line) : line[i].boot <= device.boot
  /\ heartbeat # None => heartbeat.boot <= device.boot
  /\ pending # None /\ pending.prior # None => pending.prior.boot <= device.boot

\* What is known of the sensor from what was sent and heard.
Told(s) ==
  /\ s.phase = "queued" \/ s.intent = "failed-safe" => device.owner # s.tid
  /\ s.phase = "apply-await-ack" /\ (pc = "write" \/ wire # <<>>) => device.owner # s.tid
  /\ s.phase \in AwaitingHeartbeat /\ device.boot = s.prior.boot =>
       device.owner = s.tid /\ device.hz = Expected(s)
  /\ \A i \in 1..Len(line) :
       /\ line[i].kind = "applied" =>
            /\ s.prior.boot <= line[i].boot
            /\ device.boot = line[i].boot => device.owner = s.tid /\ device.hz = line[i].hz
       /\ line[i].kind = "rejected" /\ s.phase = "apply-await-ack" => device.owner # s.tid
  /\ s.intent = "committed" => s.phase = "await-postcondition"
  /\ s.intent = "rolled-back" => s.phase = "await-restore-postcondition"

TruthInv == OnceInv /\ OneInv /\ BootInv /\ (pending # None => Told(pending))

\* Deadlines are patient, and the process dies in the loop only.
Calm == Patient /\ CrashPoints \subseteq {"loop", "poll", "write", "read"}

LEMMA InitTruth == Init => TruthInv
<1> SUFFICES ASSUME Init PROVE TruthInv
  OBVIOUS
<1>1. /\ requests = Txn /\ command = None /\ pending = None /\ heartbeat = None /\ pc = "loop"
      /\ device.owner = None /\ \A t \in Txn : terminals[t] = <<>>
      /\ wire = <<>> /\ line = <<>>
  BY DEF Init
<1>2. OnceInv
  BY <1>1, NoneAssumption DEF OnceInv, Settled
<1>3. Len(wire) = 0 /\ \A i : i \notin 1..Len(wire) /\ i \notin 1..Len(line)
  BY <1>1
<1>4. OneInv /\ BootInv
  BY <1>1, <1>3 DEF OneInv, BootInv, Quiet
<1>. QED
  BY <1>1, <1>2, <1>4 DEF TruthInv

\* Types of what the arguments below speak of.
LEMMA Known ==
  ASSUME IInv
  PROVE  /\ device.boot \in Nat /\ requests \subseteq Txn
         /\ line \in Seq(Line) /\ Len(line) \in Nat
         /\ \A i \in 1..Len(line) : line[i] \in Line /\ line[i].boot \in Nat
         /\ wire \in Seq([tid : Txn, hz : Rate]) /\ Len(wire) \in Nat
         /\ command # None => command.tid \in Txn
         /\ pending # None =>
              /\ pending \in PendingType /\ pending.tid \in Txn
              /\ pending.phase # "queued" => pending.prior \in Heartbeat /\ pending.prior.boot \in Nat
         /\ \A t \in Txn : terminals[t] \in Seq(Terminal)
<1>1. TypeOK /\ Control
  BY DEF IInv
<1>2. line \in Seq(Line) /\ Len(line) \in Nat /\ \A i \in 1..Len(line) : line[i] \in Line
  BY <1>1 DEF TypeOK
<1>3. \A r \in Line : r.boot \in Nat
  BY DEF Line
<1>4. ASSUME pending # None
      PROVE  /\ pending \in PendingType /\ pending.tid \in Txn
             /\ pending.phase # "queued" => pending.prior \in Heartbeat /\ pending.prior.boot \in Nat
  BY <1>1, <1>4 DEF TypeOK, Control, Maybe, PendingType, Heartbeat
<1>5. wire \in Seq([tid : Txn, hz : Rate]) /\ Len(wire) \in Nat
  BY <1>1 DEF TypeOK
<1>. QED
  BY <1>1, <1>2, <1>3, <1>4, <1>5 DEF TypeOK, Maybe

LEMMA LineShorter ==
  ASSUME IInv, line # <<>>
  PROVE  /\ Head(line) = line[1] /\ 1 \in 1..Len(line) /\ Len(Tail(line)) \in Nat
         /\ \A i \in 1..Len(Tail(line)) : i + 1 \in 1..Len(line) /\ Tail(line)[i] = line[i + 1]
<1>. line \in Seq(Line)
  BY Known
<1>. QED
  OBVIOUS

LEMMA LineLonger ==
  ASSUME IInv, NEW m
  PROVE  /\ Len(Append(line, m)) \in Nat
         /\ \A i \in 1..Len(Append(line, m)) :
              \/ i \in 1..Len(line) /\ Append(line, m)[i] = line[i]
              \/ i \notin 1..Len(line) /\ Append(line, m)[i] = m
         /\ \A i, j \in 1..Len(Append(line, m)) :
              i \notin 1..Len(line) /\ j \notin 1..Len(line) => i = j
<1>. line \in Seq(Line)
  BY Known
<1>. QED
  OBVIOUS

\* A worker that is in its loop has nothing under way but its transaction's.
LEMMA OwnAnswers ==
  ASSUME TruthInv, ~Quiet, pc # "stopped"
  PROVE  /\ pending # None /\ pending.phase \in AwaitingAck /\ pc # "write"
         /\ pending.intent # None => pending.intent = "rollback-failed" /\ then = "stopped"
BY DEF TruthInv, OneInv

-----------------------------------------------------------------------------
(* Steps that leave transaction, sensor and messages alone.                *)

LEMMA PlacesTruth ==
  ASSUME IInv, TruthInv, UNCHANGED <<requests, pending, terminals, device, wire, line>>,
         command' \in {command, None}, heartbeat' \in {heartbeat, None},
         pc' # "write", pc # "stopped", pc' # "unlink-command",
         pc = "unlink-command" => command' = None,
         pc' = "stopped" => pending = None,
         pending # None =>
           /\ pending.intent # None => pc' \in {"seal", "status", "unlink-pending"} /\ then' = then
           /\ pc \in {"status", "unlink-pending"} <=> pc' \in {"status", "unlink-pending"}
  PROVE  TruthInv'
<1>1. OnceInv'
  BY DEF TruthInv, OnceInv, Settled, Last
<1>2. OneInv'
  BY DEF TruthInv, OneInv, Quiet, Answer, Settled, Last
<1>3. BootInv'
  BY DEF TruthInv, BootInv
<1>4. pending # None => Told(pending)'
  BY DEF TruthInv, Told, Expected
<1>. QED
  BY <1>1, <1>2, <1>3, <1>4 DEF TruthInv

\* After a decision or a move with nothing under way.
LEMMA QuietTruth ==
  ASSUME IInv, TruthInv, UNCHANGED <<requests, command, terminals, device>>,
         pending # None, pending' # None,
         pending'.tid = pending.tid, pending'.prior = pending.prior,
         pc \notin {"stopped", "unlink-command", "status", "unlink-pending"},
         pc' \in {"seal", "loop", "read"}, pending'.intent # None => pc' = "seal",
         Quiet', BootInv',
         pending'.phase = "queued" \/ pending'.intent = "failed-safe" => device.owner # pending.tid,
         pending'.phase \in AwaitingHeartbeat /\ device.boot = pending.prior.boot =>
           device.owner = pending.tid /\ device.hz = Expected(pending'),
         pending'.intent = "committed" => pending'.phase = "await-postcondition",
         pending'.intent = "rolled-back" => pending'.phase = "await-restore-postcondition"
  PROVE  TruthInv'
<1>1. OnceInv'
  BY DEF TruthInv, OnceInv, Settled, Last
<1>2. OneInv'
  BY DEF Quiet, OneInv
<1>3. Told(pending)'
  BY DEF Told, Quiet, Answer, Expected
<1>. QED
  BY <1>1, <1>2, <1>3 DEF TruthInv

\* What a disappointed transaction comes to.
LEMMA DisappointedLeaves ==
  ASSUME NEW s \in PendingType, s.intent = None, NEW next, Disappointed(s, next)
  PROVE  /\ pending'.tid = s.tid /\ pending'.prior = s.prior /\ pending'.hz = s.hz
         /\ \/ pending'.intent = "rollback-failed" /\ pending'.phase = s.phase /\ pc' = "seal"
            \/ pending'.intent = None /\ pending'.phase = "restore-pending" /\ pc' = next
<1>1. CASE Finish(s, "rollback-failed", next)
  BY <1>1 DEF Finish, PendingType
<1>2. CASE Keep([s EXCEPT !.attempted = TRUE, !.phase = "restore-pending"], next)
  BY <1>2 DEF Keep, PendingType
<1>. QED
  BY <1>1, <1>2 DEF Disappointed, BeginRestore

\* A transaction is disappointed when nothing is under way any more.
LEMMA DisappointedTruth ==
  ASSUME IInv, TruthInv, UNCHANGED <<requests, command, terminals, device>>,
         pending # None, pending.phase # "queued",
         pc \in {"loop", "poll", "read"}, NEW next \in {"loop", "read"},
         Disappointed(pending, next), Quiet', BootInv'
  PROVE  TruthInv'
<1>1. pending \in PendingType /\ pending.intent = None
  BY Known DEF TruthInv, OnceInv
<1>2. /\ pending'.tid = pending.tid /\ pending'.prior = pending.prior
      /\ pending'.hz = pending.hz
      /\ \/ pending'.intent = "rollback-failed" /\ pending'.phase = pending.phase /\ pc' = "seal"
         \/ pending'.intent = None /\ pending'.phase = "restore-pending" /\ pc' = next
  BY <1>1, DisappointedLeaves
<1>3. pending' # None
  BY DisappointedLeft, PendingFine DEF Left
<1>4. /\ pending'.phase # "queued" /\ pending'.intent \notin {"failed-safe", "committed", "rolled-back"}
      /\ pending'.intent # None => pc' = "seal"
      /\ pc' \in {"seal", "loop", "read"}
  BY <1>2, NoneAssumption DEF Terminal
<1>5. pending'.phase \in AwaitingHeartbeat /\ device.boot = pending.prior.boot =>
        device.owner = pending.tid /\ device.hz = Expected(pending')
  BY <1>2 DEF TruthInv, Told, Expected, AwaitingHeartbeat
<1>. QED
  BY <1>2, <1>3, <1>4, <1>5, QuietTruth

-----------------------------------------------------------------------------
(* The actions.                                                            *)

LEMMA PlacesStep ==
  ASSUME Calm, IInv, TruthInv,
         \/ PollWait \/ ReadNothing \/ ShutdownIdle \/ Crash \/ Load \/ UnlinkCommand
         \/ WriteStatus \/ LoadSettled
  PROVE  TruthInv'
<1>1. ~LoadSettled
  BY DEF LoadSettled, TruthInv, OnceInv
<1>2. CASE PollWait \/ ReadNothing \/ ShutdownIdle
  BY <1>2, PlacesTruth DEF PollWait, ReadNothing, ShutdownIdle, Polling, Stopping, files, link,
                           TruthInv, OnceInv
<1>3. CASE Crash
  BY <1>3, PlacesTruth DEF Crash, Calm, files, link, TruthInv, OnceInv
<1>4. CASE Load
  BY <1>4, PlacesTruth DEF Load, files, link, TruthInv, OnceInv
<1>5. CASE UnlinkCommand
  BY <1>5, PlacesTruth DEF UnlinkCommand, link, TruthInv, OnceInv, IInv, TypeOK
<1>6. CASE WriteStatus
  BY <1>6, PlacesTruth DEF WriteStatus, link, TruthInv, OnceInv, IInv, Control
<1>. QED
  BY <1>1, <1>2, <1>3, <1>4, <1>5, <1>6

\* A heartbeat nobody waits for, and an answer: there is none.
LEMMA UnheardTruth ==
  ASSUME IInv, TruthInv,
         \/ ReadHeartbeat /\ ~(pending # None /\ pending.phase \in AwaitingHeartbeat)
         \/ ReadAnswer /\ ~(pending # None /\ pending.phase \in AwaitingAck)
  PROVE  TruthInv'
<1>1. line # <<>> /\ line' = Tail(line) /\ pc = "read" /\ pc' = "loop"
  BY DEF ReadHeartbeat, ReadAnswer
<1>2. /\ Head(line) = line[1] /\ 1 \in 1..Len(line) /\ Len(line') \in Nat
      /\ \A i \in 1..Len(line') : i + 1 \in 1..Len(line) /\ line'[i] = line[i + 1]
  BY <1>1, LineShorter
<1>3. ReadHeartbeat /\ ~(pending # None /\ pending.phase \in AwaitingHeartbeat)
  BY <1>1, <1>2, OwnAnswers DEF ReadAnswer, Quiet, Answer
<1>4. /\ UNCHANGED <<requests, command, pending, terminals, then, device, wire>>
      /\ heartbeat'.boot = line[1].boot
  BY <1>2, <1>3 DEF ReadHeartbeat
<1>5. OnceInv'
  BY <1>1, <1>4 DEF TruthInv, OnceInv, Settled, Last
<1>6. OneInv'
  <2>1. \A i, j \in 1..Len(line') : Answer(i)' /\ Answer(j)' => i = j
    <3> SUFFICES ASSUME NEW i \in 1..Len(line'), NEW j \in 1..Len(line'), Answer(i)', Answer(j)'
                 PROVE  i = j
      OBVIOUS
    <3>1. i + 1 \in 1..Len(line) /\ j + 1 \in 1..Len(line) /\ Answer(i + 1) /\ Answer(j + 1)
      BY <1>2 DEF Answer
    <3>2. i + 1 = j + 1
      BY <3>1 DEF TruthInv, OneInv
    <3>. QED
      BY <3>2
  <2>2. \A i \in 1..Len(line') : Answer(i)' => Answer(i + 1)
    BY <1>2 DEF Answer
  <2>3. Quiet => Quiet'
    BY <1>2, <1>4, <2>2 DEF Quiet
  <2>4. wire' # <<>> => \A i \in 1..Len(line') : ~Answer(i)'
    BY <1>2, <1>4, <2>2 DEF TruthInv, OneInv
  <2>. QED
    BY <1>1, <1>4, <2>1, <2>3, <2>4 DEF TruthInv, OneInv, Settled, Last
<1>7. BootInv'
  BY <1>2, <1>4 DEF TruthInv, BootInv
<1>8. pending # None => Told(pending)'
  BY <1>1, <1>2, <1>4 DEF TruthInv, Told, Expected
<1>. QED
  BY <1>4, <1>5, <1>6, <1>7, <1>8 DEF TruthInv

LEMMA PollStaleTruth ==
  ASSUME IInv, TruthInv, PollStale
  PROVE  TruthInv'
<1>1. /\ pending # None /\ pending.phase = "queued" /\ pc \in {"loop", "poll"}
      /\ Finish(pending, "failed-safe", "read")
      /\ UNCHANGED <<requests, command, terminals, heartbeat, device, wire, line>>
  BY DEF PollStale, Polling, link
<1>2. /\ pending'.tid = pending.tid /\ pending'.prior = pending.prior /\ pending' # None
      /\ pending'.phase = "queued" /\ pending'.intent = "failed-safe" /\ pc' = "seal"
  BY <1>1, Known, FinishLeft, PendingFine DEF Finish, Left, PendingType, Terminal
<1>3. Quiet' /\ BootInv'
  BY <1>1, <1>2, OwnAnswers DEF AwaitingAck, Quiet, Answer, TruthInv, BootInv
<1>4. device.owner # pending.tid
  BY <1>1 DEF TruthInv, Told
<1>. QED
  BY <1>1, <1>2, <1>3, <1>4, QuietTruth DEF AwaitingHeartbeat

LEMMA PollTimeoutTruth ==
  ASSUME Calm, IInv, TruthInv, PollTimeout
  PROVE  TruthInv'
<1>1. /\ pending # None /\ pending.phase # "queued" /\ pc \in {"loop", "poll"}
      /\ wire = <<>> /\ line = <<>> /\ Disappointed(pending, "read")
      /\ UNCHANGED <<requests, command, terminals, heartbeat, device, wire, line>>
  BY DEF PollTimeout, Polling, Calm, link, AwaitingAck, AwaitingHeartbeat
<1>2. pending'.prior = pending.prior /\ pending' # None
  BY <1>1, Known, DisappointedLeaves, DisappointedLeft, PendingFine DEF Left, TruthInv, OnceInv
<1>3. Quiet' /\ BootInv'
  BY <1>1, <1>2 DEF Quiet, BootInv, TruthInv
<1>. QED
  BY <1>1, <1>3, DisappointedTruth

\* A heartbeat somebody waits for: what it says, the invariant knows.
LEMMA CompareTruth ==
  ASSUME IInv, TruthInv, ReadHeartbeat, pending # None, pending.phase \in AwaitingHeartbeat
  PROVE  TruthInv'
<1>1. /\ line # <<>> /\ line' = Tail(line) /\ pc = "read" /\ Compare(pending, heartbeat')
      /\ heartbeat'.boot = Head(line).boot
      /\ UNCHANGED <<requests, command, terminals, device, wire>>
  BY DEF ReadHeartbeat
<1>2. /\ Head(line) = line[1] /\ 1 \in 1..Len(line)
      /\ \A i \in 1..Len(line') : i + 1 \in 1..Len(line) /\ line'[i] = line[i + 1]
  BY <1>1, LineShorter
<1>3. Quiet'
  BY <1>1, <1>2, OwnAnswers DEF Quiet, Answer, AwaitingAck, AwaitingHeartbeat
<1>4. pending \in PendingType /\ pending.intent = None
  BY <1>1, Known DEF TruthInv, OnceInv
<1> DEFINE term == IF pending.phase \in Restoring THEN "rolled-back" ELSE "committed"
<1>5. CASE Disappointed(pending, "loop")
  <2>1. pending'.prior = pending.prior
    BY <1>4, <1>5, DisappointedLeaves
  <2>2. BootInv'
    BY <1>1, <1>2, <2>1 DEF TruthInv, BootInv
  <2>. QED
    BY <1>1, <1>3, <1>5, <2>2, DisappointedTruth DEF AwaitingHeartbeat
<1>6. CASE Finish(pending, term, "loop")
  <2>1. /\ pending'.tid = pending.tid /\ pending'.prior = pending.prior /\ pending'.hz = pending.hz
        /\ pending'.phase = pending.phase /\ pending'.intent = term /\ pc' = "seal"
    BY <1>4, <1>6 DEF Finish, PendingType
  <2>2. pending' # None
    BY <1>6, FinishLeft, PendingFine DEF Left, Terminal
  <2>3. BootInv'
    BY <1>1, <1>2, <2>1 DEF TruthInv, BootInv
  <2>4. /\ pending'.phase \in AwaitingHeartbeat /\ device.boot = pending.prior.boot =>
             device.owner = pending.tid /\ device.hz = Expected(pending')
        /\ pending'.intent = "committed" => pending'.phase = "await-postcondition"
        /\ pending'.intent = "rolled-back" => pending'.phase = "await-restore-postcondition"
        /\ pending'.phase # "queued" /\ pending'.intent # "failed-safe"
    BY <2>1 DEF TruthInv, Told, Expected, AwaitingHeartbeat, Restoring
  <2>. QED
    BY <1>1, <1>3, <2>1, <2>2, <2>3, <2>4, QuietTruth
<1>. QED
  BY <1>1, <1>5, <1>6 DEF Compare

\* The answer to the one command that was sent.
LEMMA AnswerTruth ==
  ASSUME IInv, TruthInv, ReadAnswer, pending # None, pending.phase \in AwaitingAck
  PROVE  TruthInv'
<1> DEFINE r == line[1]
<1>1. /\ line # <<>> /\ line' = Tail(line) /\ pc = "read" /\ r.kind # "heartbeat"
      /\ \/ Acknowledge(pending, r) /\ r.kind = "applied"
         \/ Reject(pending, r) /\ r.kind # "applied"
      /\ UNCHANGED <<requests, command, terminals, heartbeat, device, wire>>
  <2>1. line # <<>>
    BY DEF ReadAnswer
  <2>2. Head(line) = r
    BY <2>1, LineShorter
  <2> HIDE DEF r
  <2>. QED
    BY <2>1, <2>2 DEF ReadAnswer
<1>2. /\ 1 \in 1..Len(line) /\ r \in Line
      /\ \A i \in 1..Len(line') : i + 1 \in 1..Len(line) /\ line'[i] = line[i + 1]
  BY <1>1, Known, LineShorter
<1>3. Quiet'
  <2>1. \A i \in 1..Len(line') : ~Answer(i)'
    <3> SUFFICES ASSUME NEW i \in 1..Len(line'), Answer(i)' PROVE FALSE
      OBVIOUS
    <3>1. i + 1 \in 1..Len(line) /\ Answer(i + 1) /\ Answer(1)
      BY <1>1, <1>2 DEF Answer
    <3>2. i + 1 = 1
      BY <1>2, <3>1 DEF TruthInv, OneInv
    <3>. QED
      BY <3>2
  <2>2. wire = <<>>
    BY <1>1, <1>2 DEF TruthInv, OneInv, Answer
  <2>. QED
    BY <1>1, <2>1, <2>2 DEF Quiet
<1>4. pending \in PendingType /\ pending.intent = None
  BY <1>1, Known DEF TruthInv, OnceInv
<1>5. ASSUME pending'.prior = pending.prior PROVE BootInv'
  BY <1>1, <1>2, <1>5 DEF TruthInv, BootInv
<1> HIDE DEF r
<1>6. CASE Disappointed(pending, "loop")
  <2>1. pending'.prior = pending.prior
    BY <1>4, <1>6, DisappointedLeaves
  <2>. QED
    BY <1>1, <1>3, <1>5, <1>6, <2>1, DisappointedTruth DEF AwaitingAck
<1>7. CASE Finish(pending, "failed-safe", "loop") /\ pending.phase = "apply-await-ack"
           /\ r.kind # "applied"
  <2>1. /\ pending'.tid = pending.tid /\ pending'.prior = pending.prior
        /\ pending'.phase = "apply-await-ack" /\ pending'.intent = "failed-safe" /\ pc' = "seal"
    BY <1>4, <1>7 DEF Finish, PendingType
  <2>2. pending' # None
    BY <1>7, FinishLeft, PendingFine DEF Left, Terminal
  <2>3. device.owner # pending.tid
    BY <1>1, <1>2, <1>7 DEF TruthInv, Told, Line, r
  <2>. QED
    BY <1>1, <1>3, <1>5, <2>1, <2>2, <2>3, QuietTruth DEF AwaitingHeartbeat
<1> DEFINE phase == IF pending.phase \in Restoring THEN "await-restore-postcondition"
                                                   ELSE "await-postcondition"
<1>8. CASE Keep([pending EXCEPT !.phase = phase], "loop") /\ r.kind = "applied"
           /\ r.hz = Expected(pending)
  <2>1. /\ pending'.tid = pending.tid /\ pending'.prior = pending.prior /\ pending'.hz = pending.hz
        /\ pending'.phase = phase /\ pending'.intent = None /\ pc' = "loop"
    BY <1>4, <1>8 DEF Keep, PendingType
  <2>2. pending' # None
    BY <1>1, <1>8, AcknowledgeLeft, PendingFine DEF Left
  <2>3. Expected(pending') = Expected(pending)
    BY <2>1 DEF Expected, Restoring
  <2>4. pending.prior.boot \in Nat /\ device.boot \in Nat /\ r.boot \in Nat
    BY <1>2, Known DEF AwaitingAck, Line
  <2>5. r.boot <= device.boot /\ pending.prior.boot <= r.boot
        /\ (device.boot = r.boot => device.owner = pending.tid /\ device.hz = r.hz)
    BY <1>2, <1>8 DEF TruthInv, BootInv, Told, r
  <2>6. device.boot = pending.prior.boot =>
          device.owner = pending.tid /\ device.hz = Expected(pending')
    BY <1>8, <2>3, <2>4, <2>5
  <2>7. pending'.phase # "queued" /\ pending'.intent \notin {"failed-safe", "committed", "rolled-back"}
    BY <2>1, NoneAssumption DEF Terminal
  <2>. QED
    BY <1>1, <1>3, <1>5, <2>1, <2>2, <2>6, <2>7, QuietTruth
<1>. QED
  BY <1>1, <1>6, <1>7, <1>8 DEF Acknowledge, Reject

\* A stop is decided whatever is under way.
LEMMA ShutdownSealTruth ==
  ASSUME IInv, TruthInv, ShutdownSeal
  PROVE  TruthInv'
<1>1. /\ pending # None /\ pc \in {"loop", "shut"} /\ pc' = "seal" /\ then' = "stopped"
      /\ UNCHANGED <<requests, command, terminals, heartbeat, device, wire, line>>
  BY DEF ShutdownSeal, Stopping, Finish, link
<1>2. /\ pending'.tid = pending.tid /\ pending'.prior = pending.prior /\ pending'.hz = pending.hz
      /\ pending'.phase = pending.phase /\ pending'.intent = ShutdownOutcome(pending)
  BY <1>1, Known DEF ShutdownSeal, Finish, PendingType
<1>3. /\ pending'.intent \in {"failed-safe", "rollback-failed"}
      /\ pending'.intent = "failed-safe" => pending.phase = "queued"
  BY <1>2 DEF ShutdownOutcome
<1>4. pending' # None
  BY <1>3, FinishLeft, PendingFine DEF ShutdownSeal, ShutdownOutcome, Left, Terminal
<1>5. OnceInv'
  BY <1>1, <1>2, <1>4 DEF TruthInv, OnceInv, Settled, Last
<1>6. OneInv'
  <2>1. Quiet \/ pending.phase \in AwaitingAck
    BY <1>1, OwnAnswers
  <2>2. Quiet => Quiet'
    BY <1>1 DEF Quiet, Answer
  <2>3. pending.phase \in AwaitingAck => pending'.intent = "rollback-failed"
    BY <1>3 DEF AwaitingAck
  <2>. QED
    BY <1>1, <1>2, <1>4, <2>1, <2>2, <2>3 DEF TruthInv, OneInv, Answer
<1>7. BootInv'
  BY <1>1, <1>2 DEF TruthInv, BootInv
<1>8. Told(pending)'
  BY <1>1, <1>2, <1>3 DEF TruthInv, Told, Expected
<1>. QED
  BY <1>5, <1>6, <1>7, <1>8 DEF TruthInv

LEMMA AdoptTruth ==
  ASSUME IInv, TruthInv, NEW next \in {"poll", "shut"}, Adopt(next),
         pc \in {"loop", "poll", "shut"}
  PROVE  TruthInv'
<1>1. /\ pending = None /\ command # None /\ pc' = "unlink-command" /\ then' = next
      /\ UNCHANGED <<requests, command, terminals, heartbeat, device, wire, line>>
  BY DEF Adopt, link
<1>2. /\ pending'.tid = command.tid /\ pending'.phase = "queued"
      /\ pending'.prior = None /\ pending'.intent = None
  BY DEF Adopt, Adopted
<1>3. Quiet'
  BY <1>1, OwnAnswers DEF Quiet, Answer
<1>4. pending' # None
  BY AdoptInv
<1>5. OnceInv'
  BY <1>1, <1>2, <1>4 DEF TruthInv, OnceInv, Settled, Last
<1>6. OneInv'
  BY <1>3 DEF Quiet, OneInv
<1>7. BootInv'
  BY <1>1, <1>2 DEF TruthInv, BootInv
<1>8. Told(pending)'
  <2>1. pending'.intent \notin Terminal /\ device.owner # command.tid
    BY <1>1, <1>2, NoneAssumption DEF TruthInv, OnceInv
  <2>. QED
    BY <1>1, <1>2, <1>3, <2>1 DEF Told, Quiet, Answer, Terminal, AwaitingHeartbeat
<1>. QED
  BY <1>5, <1>6, <1>7, <1>8 DEF TruthInv

LEMMA SendTruth ==
  ASSUME IInv, TruthInv, PollCapture \/ PollRestore
  PROVE  TruthInv'
<1>1. /\ pending # None /\ pending.phase \in {"queued", "restore-pending"} /\ pc \in {"loop", "poll"}
      /\ pc' = "write" /\ then' = then
      /\ UNCHANGED <<requests, command, terminals, heartbeat, device, wire, line>>
  BY DEF PollCapture, PollRestore, Polling, Keep, link
<1>2. /\ pending'.tid = pending.tid /\ pending'.intent = pending.intent
      /\ \/ pending.phase = "queued" /\ pending'.phase = "apply-await-ack"
            /\ pending'.prior = heartbeat /\ heartbeat # None
         \/ pending'.phase = "restore-await-ack" /\ pending'.prior = pending.prior
  BY <1>1, Known DEF PollCapture, PollRestore, Keep, PendingType
<1>3. pending' # None
  BY <1>1, SendInv DEF IInv, Control
<1>4. Quiet'
  BY <1>1, OwnAnswers DEF AwaitingAck, Quiet, Answer
<1>5. pending'.intent = None
  BY <1>1, <1>2 DEF TruthInv, OnceInv
<1>6. OnceInv'
  BY <1>1, <1>2, <1>3, <1>5 DEF TruthInv, OnceInv, Settled, Last
<1>7. OneInv'
  BY <1>4 DEF Quiet, OneInv
<1>8. BootInv'
  BY <1>1, <1>2 DEF TruthInv, BootInv
<1>9. Told(pending)'
  <2>1. pending'.intent \notin Terminal
    BY <1>5, NoneAssumption
  <2>2. pending.phase = "queued" => device.owner # pending.tid
    BY <1>1 DEF TruthInv, Told
  <2>. QED
    BY <1>1, <1>2, <1>4, <2>1, <2>2 DEF Told, Quiet, Answer, Terminal, AwaitingHeartbeat
<1>. QED
  BY <1>6, <1>7, <1>8, <1>9 DEF TruthInv

LEMMA WriteTruth ==
  ASSUME IInv, TruthInv, Write
  PROVE  TruthInv'
<1> DEFINE m == [tid |-> pending.tid, hz |-> Expected(pending)]
<1>1. /\ pending # None /\ pending.phase \in AwaitingAck /\ pc = "write" /\ pc' = "read"
      /\ UNCHANGED <<requests, command, pending, terminals, heartbeat, then, device, line>>
      /\ pending.intent = None
  BY DEF Write, files, IInv, Control, TruthInv, OnceInv
<1>2. Quiet
  BY <1>1, OwnAnswers
<1>3. wire' = <<>> \/ wire' = <<m>>
  BY <1>2 DEF Write, Transmit, Quiet
<1> HIDE DEF m
<1>4. Len(wire') <= 1 /\ \A i \in 1..Len(wire') : wire'[i] = m
  <2>1. CASE wire' = <<>>
    BY <2>1
  <2>2. CASE wire' = <<m>>
    <3>1. Len(wire') = 1 /\ wire'[1] = m
      BY <2>2
    <3>. QED
      BY <3>1
  <2>. QED
    BY <1>3, <2>1, <2>2
<1>5. OnceInv'
  BY <1>1 DEF TruthInv, OnceInv, Settled, Last
<1>6. OneInv'
  BY <1>1, <1>2, <1>4 DEF OneInv, Quiet, Answer, m
<1>7. BootInv'
  BY <1>1 DEF TruthInv, BootInv
<1>8. Told(pending)'
  BY <1>1 DEF TruthInv, Told, Expected
<1>. QED
  BY <1>5, <1>6, <1>7, <1>8 DEF TruthInv

LEMMA SealTruth ==
  ASSUME IInv, TruthInv, SealTerminal
  PROVE  TruthInv'
<1>1. /\ pending # None /\ pc = "seal" /\ pc' = "status" /\ pending.tid \in Txn
      /\ UNCHANGED <<requests, command, pending, heartbeat, then, device, wire, line>>
  BY Known DEF SealTerminal, IInv, Control, link
<1>2. /\ ~Settled(pending.tid)
      /\ \A t \in Txn : t # pending.tid => terminals'[t] = terminals[t]
      /\ terminals'[pending.tid] = <<pending.intent>>
  <2>1. ~Settled(pending.tid) /\ terminals[pending.tid] = <<>>
    BY <1>1 DEF TruthInv, OnceInv, Settled
  <2>2. terminals' = [terminals EXCEPT ![pending.tid] = Append(@, pending.intent)]
    BY DEF SealTerminal
  <2>3. terminals'[pending.tid] = Append(<<>>, pending.intent)
    BY <1>1, <2>1, <2>2 DEF IInv, TypeOK
  <2>4. Append(<<>>, pending.intent) = <<pending.intent>>
    OBVIOUS
  <2>5. \A t \in Txn : t # pending.tid => terminals'[t] = terminals[t]
    BY <2>2 DEF IInv, TypeOK
  <2>. QED
    BY <2>1, <2>3, <2>4, <2>5
<1>3. Settled(pending.tid)' /\ Last(pending.tid)' = pending.intent
  BY <1>1, <1>2 DEF Settled, Last
<1>4. command = None /\ requests \subseteq Txn \ {pending.tid}
  BY <1>1, Known DEF TruthInv, OnceInv
<1>5. OnceInv'
  BY <1>1, <1>2, <1>3, <1>4 DEF TruthInv, OnceInv, Settled
<1>6. OneInv'
  BY <1>1 DEF TruthInv, OneInv, Quiet, Answer
<1>7. BootInv'
  BY <1>1 DEF TruthInv, BootInv
<1>8. Told(pending)'
  BY <1>1 DEF TruthInv, Told, Expected
<1>. QED
  BY <1>5, <1>6, <1>7, <1>8 DEF TruthInv

LEMMA UnlinkPendingTruth ==
  ASSUME IInv, TruthInv, UnlinkPending
  PROVE  TruthInv'
<1>1. /\ pending # None /\ pending' = None /\ pc = "unlink-pending" /\ pc' = then
      /\ UNCHANGED <<requests, command, terminals, heartbeat, device, wire, line>>
      /\ then \in {"loop", "poll", "read", "shut", "stopped"}
  BY DEF UnlinkPending, IInv, Control, TypeOK, link
<1>2. Settled(pending.tid) /\ Last(pending.tid) = pending.intent /\ pending.tid \in Txn
  BY <1>1, Known DEF TruthInv, OnceInv
<1>3. pending.intent # None
  <2>1. terminals[pending.tid] \in Seq(Terminal) /\ terminals[pending.tid] # <<>>
    BY <1>2, Known DEF Settled
  <2>2. Last(pending.tid) \in Terminal
    BY <2>1 DEF Last
  <2>. QED
    BY <1>2, <2>2, NoneAssumption
<1>4. OnceInv'
  BY <1>1 DEF TruthInv, OnceInv, Settled, Last
<1>5. OneInv'
  <2>1. Quiet \/ (pending.intent = "rollback-failed" /\ then = "stopped")
    BY <1>1, <1>3, OwnAnswers
  <2>2. \A i \in 1..Len(wire) : wire[i].tid = pending.tid
    BY <1>1 DEF TruthInv, OneInv
  <2>3. CASE Quiet
    BY <1>1, <2>3 DEF OneInv, Quiet, Answer
  <2>4. CASE pending.intent = "rollback-failed" /\ then = "stopped"
    BY <1>1, <1>2, <2>2, <2>4 DEF TruthInv, OneInv, Answer, Settled, Last
  <2>. QED
    BY <2>1, <2>3, <2>4
<1>6. BootInv'
  BY <1>1 DEF TruthInv, BootInv
<1>. QED
  BY <1>1, <1>4, <1>5, <1>6 DEF TruthInv

LEMMA QueueTruth ==
  ASSUME IInv, TruthInv, NEW t \in Txn, NEW hz \in Rate, Queue(t, hz)
  PROVE  TruthInv'
<1>1. /\ t \in requests /\ requests' = requests \ {t} /\ pending = None
      /\ command'.tid = t /\ pc # "unlink-command"
      /\ UNCHANGED <<pending, terminals, worker, link>>
  BY DEF Queue, TruthInv, OnceInv
<1>2. OnceInv'
  BY <1>1 DEF TruthInv, OnceInv, Settled, Last, worker, link
<1>3. OneInv' /\ BootInv'
  BY <1>1 DEF TruthInv, OneInv, BootInv, Quiet, Answer, Settled, Last, worker, link
<1>. QED
  BY <1>1, <1>2, <1>3 DEF TruthInv

LEMMA OneAlone ==
  ASSUME NEW S, NEW queue \in Seq(S), queue # <<>>, Len(queue) <= 1
  PROVE  /\ Len(queue) = 1 /\ Head(queue) = queue[1] /\ Tail(queue) = <<>>
         /\ queue[1] \in S
<1>1. Len(queue) \in Nat /\ Len(queue) # 0
  OBVIOUS
<1>2. Len(queue) = 1
  BY <1>1
<1>3. Head(queue) = queue[1] /\ queue[1] \in S
  BY <1>2
<1>4. Tail(queue) \in Seq(S) /\ Len(Tail(queue)) = 0
  BY <1>2
<1>5. Tail(queue) = <<>>
  BY <1>4
<1>. QED
  BY <1>2, <1>3, <1>5

\* Whose command is on the wire.
LEMMA WireOwner ==
  ASSUME IInv, TruthInv, wire # <<>>
  PROVE  LET t == Head(wire).tid IN
         /\ t \in Txn \ requests /\ Tail(wire) = <<>>
         /\ \A i \in 1..Len(line) : ~Answer(i)
         /\ \/ /\ pc = "stopped" /\ pending = None /\ Settled(t) /\ Last(t) = "rollback-failed"
               /\ command # None => command.tid # t
            \/ /\ pending # None /\ pending.phase \in AwaitingAck /\ t = pending.tid
               /\ pc # "stopped" /\ (pc # "unlink-command" => command = None)
               /\ pending.intent # None => pending.intent = "rollback-failed"
<1>1. /\ Len(wire) = 1 /\ Head(wire) = wire[1] /\ Tail(wire) = <<>> /\ 1 \in 1..Len(wire)
      /\ wire[1].tid \in Txn
  <2>1. wire \in Seq([tid : Txn, hz : Rate]) /\ Len(wire) <= 1
    BY Known DEF TruthInv, OneInv
  <2>2. /\ Len(wire) = 1 /\ Head(wire) = wire[1] /\ Tail(wire) = <<>>
        /\ wire[1] \in [tid : Txn, hz : Rate]
    BY <2>1, OneAlone
  <2>. QED
    BY <2>2
<1>2. ~Quiet /\ \A i \in 1..Len(line) : ~Answer(i)
  BY DEF Quiet, TruthInv, OneInv
<1>3. CASE pc = "stopped"
  BY <1>1, <1>2, <1>3 DEF TruthInv, OneInv, OnceInv
<1>4. CASE pc # "stopped"
  BY <1>1, <1>2, <1>4, OwnAnswers DEF TruthInv, OneInv, OnceInv
<1>. QED
  BY <1>3, <1>4

LEMMA ApplyTruth ==
  ASSUME IInv, TruthInv, Apply
  PROVE  TruthInv'
<1> DEFINE t == Head(wire).tid
           m == Say("applied", Head(wire).hz, device')
<1>1. /\ wire # <<>> /\ wire' = Tail(wire) /\ line' \in {line, Append(line, m)}
      /\ UNCHANGED <<requests, command, pending, terminals, heartbeat, pc, then>>
      /\ device'.owner = t /\ device'.boot = device.boot /\ device'.hz = Head(wire).hz
  BY DEF Apply, files, worker, Transmit, IInv, TypeOK
<1>2. m.kind = "applied" /\ m.hz = device'.hz /\ m.boot = device.boot
  BY <1>1 DEF Say
<1> HIDE DEF m, t
<1>3. /\ t \in Txn \ requests /\ wire' = <<>> /\ \A i \in 1..Len(line) : ~Answer(i)
      /\ \/ /\ pc = "stopped" /\ pending = None /\ Settled(t)
            /\ command # None => command.tid # t
         \/ /\ pending # None /\ pending.phase \in AwaitingAck /\ t = pending.tid
            /\ pc # "stopped" /\ (pc # "unlink-command" => command = None)
            /\ pending.intent # None => pending.intent = "rollback-failed"
  BY <1>1, WireOwner DEF t
<1>4. /\ \A i \in 1..Len(line') :
           \/ i \in 1..Len(line) /\ line'[i] = line[i]
           \/ i \notin 1..Len(line) /\ line'[i] = m
      /\ \A i, j \in 1..Len(line') : i \notin 1..Len(line) /\ j \notin 1..Len(line) => i = j
  <2>1. CASE line' = line
    BY <2>1
  <2>2. CASE line' = Append(line, m)
    BY <2>2, LineLonger
  <2>. QED
    BY <1>1, <2>1, <2>2
<1>5. OnceInv'
  BY <1>1, <1>3 DEF TruthInv, OnceInv, Settled, Last
<1>6. OneInv'
  <2>1. Len(wire') = 0
    BY <1>3
  <2>2. pc = "stopped" \/ ~Quiet
    BY <1>1 DEF Quiet
  <2>3. \A i, j \in 1..Len(line') : Answer(i)' /\ Answer(j)' => i = j
    BY <1>3, <1>4 DEF Answer
  <2>. QED
    BY <1>1, <1>3, <2>1, <2>2, <2>3 DEF TruthInv, OneInv
<1>7. BootInv'
  <2>1. device.boot \in Nat /\ device'.boot = device.boot /\ m.boot <= device.boot
    BY <1>1, <1>2, Known
  <2>2. \A i \in 1..Len(line') : line'[i] = m \/ (i \in 1..Len(line) /\ line'[i] = line[i])
    BY <1>4
  <2>3. \A i \in 1..Len(line') : line'[i].boot <= device.boot
    BY <2>1, <2>2 DEF TruthInv, BootInv
  <2>. QED
    BY <1>1, <2>1, <2>3 DEF TruthInv, BootInv
<1>8. pending # None => Told(pending)'
  <2> SUFFICES ASSUME pending # None PROVE Told(pending)'
    OBVIOUS
  <2>1. /\ pending.phase \in AwaitingAck /\ t = pending.tid
        /\ pending.intent # None => pending.intent = "rollback-failed"
    BY <1>3
  <2>2. pending.phase \notin AwaitingHeartbeat \cup {"queued"}
    BY <2>1 DEF AwaitingAck, AwaitingHeartbeat
  <2>3. pending.intent \notin {"failed-safe", "committed", "rolled-back"}
    BY <2>1, NoneAssumption DEF Terminal
  <2>4. pending.prior.boot <= device.boot
    BY <2>2, NoneAssumption DEF TruthInv, BootInv, IInv, Control
  <2>5. \A i \in 1..Len(line') : line'[i].kind = "heartbeat" \/ line'[i] = m
    BY <1>3, <1>4 DEF Answer
  <2>6. pc # "write"
    BY <1>1, <1>3, OwnAnswers DEF Quiet
  <2>. QED
    BY <1>1, <1>2, <1>3, <2>1, <2>2, <2>3, <2>4, <2>5, <2>6 DEF Told
<1>. QED
  BY <1>1, <1>5, <1>6, <1>7, <1>8 DEF TruthInv

LEMMA RefuseTruth ==
  ASSUME IInv, TruthInv, Refuse
  PROVE  TruthInv'
<1> DEFINE m == Say("rejected", Head(wire).hz, device)
<1>1. /\ wire # <<>> /\ wire' = Tail(wire) /\ line' \in {line, Append(line, m)}
      /\ UNCHANGED <<requests, command, pending, terminals, heartbeat, pc, then, device>>
  BY DEF Refuse, files, worker, Transmit
<1>2. m.kind = "rejected" /\ m.boot = device.boot
  BY DEF Say
<1> HIDE DEF m
<1>3. /\ wire' = <<>> /\ \A i \in 1..Len(line) : ~Answer(i)
  BY <1>1, WireOwner
<1>4. /\ \A i \in 1..Len(line') :
           \/ i \in 1..Len(line) /\ line'[i] = line[i]
           \/ i \notin 1..Len(line) /\ line'[i] = m
      /\ \A i, j \in 1..Len(line') : i \notin 1..Len(line) /\ j \notin 1..Len(line) => i = j
  <2>1. CASE line' = line
    BY <2>1
  <2>2. CASE line' = Append(line, m)
    BY <2>2, LineLonger
  <2>. QED
    BY <1>1, <2>1, <2>2
<1>5. OnceInv'
  BY <1>1 DEF TruthInv, OnceInv, Settled, Last
<1>6. OneInv'
  <2>1. Len(wire') = 0
    BY <1>3
  <2>2. pc = "stopped" \/ ~Quiet
    BY <1>1 DEF Quiet
  <2>3. \A i, j \in 1..Len(line') : Answer(i)' /\ Answer(j)' => i = j
    BY <1>3, <1>4 DEF Answer
  <2>. QED
    BY <1>1, <1>3, <2>1, <2>2, <2>3 DEF TruthInv, OneInv
<1>7. BootInv'
  <2>1. device.boot \in Nat /\ device'.boot = device.boot /\ m.boot <= device.boot
    BY <1>1, <1>2, Known
  <2>2. \A i \in 1..Len(line') : line'[i] = m \/ (i \in 1..Len(line) /\ line'[i] = line[i])
    BY <1>4
  <2>3. \A i \in 1..Len(line') : line'[i].boot <= device.boot
    BY <2>1, <2>2 DEF TruthInv, BootInv
  <2>. QED
    BY <1>1, <2>1, <2>3 DEF TruthInv, BootInv
<1>8. pending # None => Told(pending)'
  <2>1. \A i \in 1..Len(line') : line'[i].kind = "heartbeat" \/ line'[i] = m
    BY <1>3, <1>4 DEF Answer
  <2>2. pending # None /\ pending.phase = "apply-await-ack" => device.owner # pending.tid
    BY <1>1 DEF TruthInv, Told
  <2>. QED
    BY <1>1, <1>2, <1>3, <2>1, <2>2 DEF TruthInv, Told, Expected
<1>. QED
  BY <1>1, <1>5, <1>6, <1>7, <1>8 DEF TruthInv

LEMMA BeatTruth ==
  ASSUME IInv, TruthInv, Beat
  PROVE  TruthInv'
<1> DEFINE m == Say("heartbeat", device.hz, device)
<1>1. /\ line' = Append(line, m)
      /\ UNCHANGED <<requests, command, pending, terminals, heartbeat, pc, then, device, wire>>
  BY DEF Beat, files, worker
<1>2. m.kind = "heartbeat" /\ m.boot = device.boot
  BY DEF Say
<1> HIDE DEF m
<1>4. \A i \in 1..Len(line') :
           \/ i \in 1..Len(line) /\ line'[i] = line[i]
           \/ i \notin 1..Len(line) /\ line'[i] = m
  BY <1>1, LineLonger
<1>5. OnceInv'
  BY <1>1 DEF TruthInv, OnceInv, Settled, Last
<1>6. OneInv'
  <2>1. \A i \in 1..Len(line') : Answer(i)' => i \in 1..Len(line) /\ Answer(i)
    BY <1>2, <1>4 DEF Answer
  <2>2. Quiet => Quiet'
    BY <1>1, <2>1 DEF Quiet
  <2>. QED
    BY <1>1, <2>1, <2>2 DEF TruthInv, OneInv, Settled, Last
<1>7. BootInv'
  <2>1. device.boot \in Nat /\ device'.boot = device.boot /\ m.boot <= device.boot
    BY <1>1, <1>2, Known
  <2>2. \A i \in 1..Len(line') : line'[i] = m \/ (i \in 1..Len(line) /\ line'[i] = line[i])
    BY <1>4
  <2>3. \A i \in 1..Len(line') : line'[i].boot <= device.boot
    BY <2>1, <2>2 DEF TruthInv, BootInv
  <2>. QED
    BY <1>1, <2>1, <2>3 DEF TruthInv, BootInv
<1>8. pending # None => Told(pending)'
  BY <1>1, <1>2, <1>4 DEF TruthInv, Told, Expected
<1>. QED
  BY <1>1, <1>5, <1>6, <1>7, <1>8 DEF TruthInv

\* A sensor that has rebooted obeys nobody, and nothing was heard of it yet.
LEMMA RebootTruth ==
  ASSUME IInv, TruthInv, NEW hz \in Rate, Reboot(hz)
  PROVE  TruthInv'
<1>1. /\ device'.boot = device.boot + 1 /\ device'.owner = None
      /\ UNCHANGED <<requests, command, pending, terminals, heartbeat, pc, then, wire, line>>
  BY DEF Reboot, files, worker
<1>2. OnceInv'
  BY <1>1, Known, NoneAssumption DEF TruthInv, OnceInv, Settled, Last
<1>3. OneInv'
  BY <1>1 DEF TruthInv, OneInv, Quiet, Answer, Settled, Last
<1>4. heartbeat # None => heartbeat.boot \in Nat
  BY DEF IInv, TypeOK, Maybe, Heartbeat
<1>5. pending # None /\ pending.prior # None => pending.prior.boot \in Nat
  BY Known DEF PendingType, Maybe, Heartbeat
<1>6. BootInv'
  BY <1>1, <1>4, <1>5, Known DEF TruthInv, BootInv
<1>7. pending # None => Told(pending)'
  <2> SUFFICES ASSUME pending # None PROVE Told(pending)'
    OBVIOUS
  <2>1. None # pending.tid
    BY Known, NoneAssumption
  <2>2. \A i \in 1..Len(line) : device'.boot # line[i].boot
    BY <1>1, Known DEF TruthInv, BootInv
  <2>3. pending.phase \in AwaitingHeartbeat => device'.boot # pending.prior.boot
    BY <1>1, <1>5, Known, NoneAssumption DEF TruthInv, BootInv, IInv, Control, AwaitingHeartbeat
  <2>. QED
    BY <1>1, <2>1, <2>2, <2>3 DEF TruthInv, Told
<1>. QED
  BY <1>1, <1>2, <1>3, <1>6, <1>7 DEF TruthInv

LEMMA StepTruth == Calm /\ IInv /\ TruthInv /\ [Next]_vars => TruthInv'
<1> SUFFICES ASSUME Calm, IInv, TruthInv, [Next]_vars PROVE TruthInv'
  OBVIOUS
<1>1. CASE \/ PollWait \/ ReadNothing \/ ShutdownIdle \/ Crash \/ Load \/ UnlinkCommand
           \/ WriteStatus \/ LoadSettled
  BY <1>1, PlacesStep
<1>2. CASE ReadHeartbeat \/ ReadAnswer
  BY <1>2, UnheardTruth, CompareTruth, AnswerTruth
<1>3. CASE PollStale \/ PollTimeout \/ ShutdownSeal
  BY <1>3, PollStaleTruth, PollTimeoutTruth, ShutdownSealTruth
<1>4. CASE PollAdopt \/ ShutdownAdopt
  BY <1>4, AdoptTruth DEF PollAdopt, ShutdownAdopt, Polling, Stopping
<1>5. CASE PollCapture \/ PollRestore \/ Write
  BY <1>5, SendTruth, WriteTruth
<1>6. CASE SealTerminal \/ UnlinkPending
  BY <1>6, SealTruth, UnlinkPendingTruth
<1>7. CASE \E t \in Txn, hz \in Rate : Queue(t, hz)
  BY <1>7, QueueTruth
<1>8. CASE Device
  BY <1>8, ApplyTruth, RefuseTruth, BeatTruth, RebootTruth DEF Device
<1>9. CASE UNCHANGED vars
  <2>1. UNCHANGED <<files, worker, link>>
    BY <1>9 DEF vars
  <2>2. OnceInv'
    BY <2>1 DEF TruthInv, OnceInv, Settled, Last, files, worker, link
  <2>3. OneInv' /\ BootInv'
    BY <2>1 DEF TruthInv, OneInv, BootInv, Quiet, Answer, Settled, Last, files, worker, link
  <2>4. pending # None => Told(pending)'
    BY <2>1 DEF TruthInv, Told, Expected, files, worker, link
  <2>. QED
    BY <2>1, <2>2, <2>3, <2>4 DEF TruthInv, files
<1>. QED
  BY <1>1, <1>2, <1>3, <1>4, <1>5, <1>6, <1>7, <1>8, <1>9 DEF Next, Worker, Host, Terminated

LEMMA TruthInvariant == ASSUME Calm PROVE Spec => [](IInv /\ TruthInv)
<1>1. IInv /\ TruthInv /\ [Next]_vars => IInv' /\ TruthInv'
  BY StepInv, StepTruth
<1>. QED
  BY <1>1, InitInv, InitTruth, PTL DEF Spec

\* A success that is decided is the transaction's own: the sensor runs at the
\* requested (captured) rate by its command, or has rebooted since.
THEOREM SuccessIsOwn ==
  ASSUME Patient, CrashPoints \subseteq {"loop", "poll", "write", "read"}
  PROVE  Spec => []VerdictTruthful
<1>1. Calm
  BY DEF Calm
<1>2. IInv /\ TruthInv => VerdictTruthful
  BY DEF TruthInv, Told, VerdictTruthful, Expected, AwaitingHeartbeat, Restoring
<1>. QED
  BY <1>1, <1>2, TruthInvariant, PTL

-----------------------------------------------------------------------------
(* The bridge implements the abstract rate change: sealing is the decision,*)
(* and the sensor obeys only who may still move it.                        *)

Outcomes == [t \in Txn |-> IF Settled(t) THEN Last(t) ELSE "open"]

LEMMA InitAbstract == Init => Abstract!Init
<1> SUFFICES ASSUME Init PROVE Abstract!Init
  OBVIOUS
<1>1. \A t \in Txn : ~Settled(t)
  BY DEF Init, Settled
<1>2. Outcomes = [t \in Txn |-> "open"]
  BY <1>1 DEF Outcomes
<1>3. device.hz \in Rate /\ device.owner = None
  BY DEF Init
<1>. QED
  BY <1>2, <1>3 DEF Abstract!Init, Outcomes, Last

LEMMA StepAbstract ==
  ASSUME IInv, TruthInv, [Next]_vars
  PROVE  [Abstract!Next]_(Abstract!vars)
<1>1. CASE SealTerminal
  <2>1. /\ pending # None /\ pending.tid \in Txn /\ pending.intent \in Terminal
        /\ ~Settled(pending.tid) /\ device' = device
    <3>1. pending # None /\ pending.intent # None /\ pc = "seal" /\ device' = device
      BY <1>1 DEF SealTerminal, IInv, Control, link
    <3>. QED
      BY <3>1, Known DEF PendingType, Maybe, TruthInv, OnceInv
  <2>2. PICK t \in Txn, term \in Terminal : t = pending.tid /\ term = pending.intent
    BY <2>1
  <2>3. terminals'[t] = <<term>> /\ \A u \in Txn : u # t => terminals'[u] = terminals[u]
    <3>1. terminals \in [Txn -> Seq(Terminal)] /\ terminals[t] = <<>>
      BY <2>1, <2>2 DEF IInv, TypeOK, Settled
    <3>2. terminals' = [terminals EXCEPT ![t] = Append(@, term)]
      BY <1>1, <2>2 DEF SealTerminal
    <3>3. terminals'[t] = Append(<<>>, term)
      BY <3>1, <3>2
    <3>. QED
      BY <3>1, <3>2, <3>3
  <2>4. Settled(t)' /\ Last(t)' = term
    BY <2>3 DEF Settled, Last
  <2>5. \A u \in Txn : u # t => (Settled(u)' <=> Settled(u)) /\ Last(u)' = Last(u)
    BY <2>3 DEF Settled, Last
  <2>6. Outcomes' = [Outcomes EXCEPT ![t] = term] /\ Outcomes[t] = "open"
    BY <2>1, <2>2, <2>4, <2>5 DEF Outcomes
  <2>7. term = "failed-safe" => device.owner # t
    BY <2>1, <2>2 DEF TruthInv, Told
  <2>8. Abstract!Decide(t, term)
    BY <2>1, <2>6, <2>7 DEF Abstract!Decide, Outcomes, Last
  <2>9. term \in Abstract!Outcome
    BY DEF Abstract!Outcome, Terminal
  <2>. QED
    BY <2>8, <2>9 DEF Abstract!Next
<1>2. ASSUME terminals' = terminals
      PROVE  Outcomes' = Outcomes
  BY <1>2 DEF Outcomes, Settled, Last
<1>3. CASE Apply
  <2> DEFINE t == Head(wire).tid
  <2>1. /\ wire # <<>> /\ terminals' = terminals
        /\ device'.hz = Head(wire).hz /\ device'.owner = t
    BY <1>3 DEF Apply, files, IInv, TypeOK
  <2>2. t \in Txn /\ Head(wire).hz \in Rate
    <3>1. wire \in Seq([tid : Txn, hz : Rate])
      BY Known
    <3>2. Head(wire) \in [tid : Txn, hz : Rate]
      BY <2>1, <3>1, SeqTail
    <3>. QED
      BY <3>2
  <2>3. Outcomes[t] \in {"open", "rollback-failed"}
    <3>1. CASE pc = "stopped"
      BY <2>1, <2>2, <3>1, WireOwner DEF Outcomes
    <3>2. CASE pc # "stopped"
      <4>1. /\ pending # None /\ t = pending.tid
            /\ pending.intent # None => pending.intent = "rollback-failed"
        BY <2>1, <3>2, WireOwner
      <4>2. CASE pc \notin {"status", "unlink-pending"}
        BY <2>2, <4>1, <4>2 DEF TruthInv, OnceInv, Outcomes
      <4>3. CASE pc \in {"status", "unlink-pending"}
        <5>1. terminals[t] \in Seq(Terminal) /\ terminals[t] # <<>> /\ Last(t) = pending.intent
          BY <2>2, <4>1, <4>3, Known DEF TruthInv, OnceInv, Settled
        <5>2. Last(t) \in Terminal
          BY <5>1 DEF Last
        <5>3. Last(t) = "rollback-failed"
          BY <4>1, <5>1, <5>2, NoneAssumption
        <5>. QED
          BY <2>2, <5>3 DEF Outcomes
      <4>. QED
        BY <4>2, <4>3
    <3>. QED
      BY <3>1, <3>2
  <2>4. Abstract!Move(t, Head(wire).hz)
    BY <1>2, <2>1, <2>3 DEF Abstract!Move, Outcomes, Last
  <2> HIDE DEF t
  <2>. QED
    BY <2>2, <2>4 DEF Abstract!Next
<1>4. ASSUME NEW hz \in Rate, Reboot(hz)
      PROVE  Abstract!Next
  <2>1. device'.hz = hz /\ device'.owner = None /\ terminals' = terminals
    BY <1>4 DEF Reboot, files
  <2>2. Abstract!Drift(hz)
    BY <1>2, <2>1 DEF Abstract!Drift, Outcomes, Last
  <2>. QED
    BY <2>2 DEF Abstract!Next
<1>5. CASE terminals' = terminals /\ device' = device
  BY <1>2, <1>5 DEF Abstract!vars, Outcomes, Last
<1>6. CASE Worker /\ ~SealTerminal
  <2>1. terminals' = terminals /\ device' = device
    BY <1>6 DEF Worker, UnlinkCommand, PollAdopt, Adopt, PollWait, PollCapture, PollStale,
       PollRestore, Write, PollTimeout, ReadNothing, ReadHeartbeat, ReadAnswer, ShutdownIdle,
       ShutdownAdopt, ShutdownSeal, WriteStatus, UnlinkPending, LoadSettled, Load, files, link
  <2>. QED
    BY <1>5, <2>1
<1>7. CASE Host \/ Refuse \/ Beat \/ UNCHANGED vars
  <2>1. terminals' = terminals /\ device' = device
    BY <1>7 DEF Host, Crash, Queue, Refuse, Beat, vars, files, link
  <2>. QED
    BY <1>5, <2>1
<1>. QED
  BY <1>1, <1>3, <1>4, <1>6, <1>7 DEF Next, Device, Terminated

\* Each transaction is decided once, failed-safe only when the sensor does not
\* obey it, and none moves the sensor after its decision but one that was said
\* to have failed to roll back.
THEOREM KeepsThePromise ==
  ASSUME Patient, CrashPoints \subseteq {"loop", "poll", "write", "read"}
  PROVE  Spec => ImplementsRateTransaction
<1>1. Calm
  BY DEF Calm
<1>2. IInv /\ TruthInv /\ [Next]_vars => [Abstract!Next]_(Abstract!vars)
  BY StepAbstract
<1>. QED
  BY <1>1, <1>2, InitAbstract, TruthInvariant, PTL DEF Spec, ImplementsRateTransaction, Abstract!Spec
=============================================================================

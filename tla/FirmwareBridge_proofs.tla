----------------------- MODULE FirmwareBridge_proofs -----------------------
(***************************************************************************)
(* Theorems about FirmwareBridge, for every set of transactions and rates, *)
(* every set of crash points and every bound.                              *)
(***************************************************************************)
EXTENDS FirmwareBridge, TLAPS

Then == {"loop", "poll", "read", "shut", "stopped"}

\* A query knows what it asks about, and a restore what to restore.
WellFormed(s) ==
  /\ s \in PendingType
  /\ s.phase = "query" \/ (s.awaiting # None /\ s.awaiting[1] = "query") => s.target # None
  /\ s.phase = "restore" \/ (s.awaiting # None /\ s.awaiting[1] = "restore") => s.prior # None

\* What the control points say of the pending file, and the wire of rates.
Control ==
  /\ pending # None => WellFormed(pending)
  /\ pc \in {"unlink-command", "query", "seal", "status", "unlink-pending"} => pending # None
  /\ pc \in {"seal", "status"} => pending.intent # None
  /\ pc = "query" => pending.target # None
  /\ \A i \in 1..Len(wire) : wire[i].op \in {"prepare", "restore"} => wire[i].hz # None

TypeInv == TypeOK /\ Control

\* What every step of the bridge leaves behind of a transaction t.
Left(t, next) ==
  /\ pending' # None /\ WellFormed(pending') /\ pending'.tid = t
  /\ pc' \in {"seal", "query", next} /\ then' \in Then
  /\ pc' = "seal" => pending'.intent # None
  /\ pc' = "query" => pending'.target # None

-----------------------------------------------------------------------------
(* Updates of a pending transaction that keep it one.                      *)

LEMMA ObservedType ==
  ASSUME NEW s \in PendingType, NEW phase \in Sends, NEW hz \in Rate, NEW boot \in Nat
  PROVE  [s EXCEPT !.prior = hz, !.boot = boot, !.phase = phase] \in PendingType
BY DEF PendingType, Maybe

LEMMA AppliedType ==
  ASSUME NEW s \in PendingType, NEW phase \in Sends, NEW v \in Maybe(Version)
  PROVE  [s EXCEPT !.applied = v, !.phase = phase] \in PendingType
BY DEF PendingType

LEMMA RestoredType ==
  ASSUME NEW s \in PendingType, NEW phase \in Sends, NEW v \in Maybe(Version)
  PROVE  [s EXCEPT !.restored = v, !.phase = phase] \in PendingType
BY DEF PendingType

LEMMA MovedType ==
  ASSUME NEW s \in PendingType, NEW phase \in Sends, NEW from \in Maybe(Sends)
  PROVE  /\ [s EXCEPT !.phase = phase, !.awaiting = None] \in PendingType
         /\ [s EXCEPT !.recovering = from, !.phase = phase] \in PendingType
<1>1. None \in Maybe(Cid)
  BY DEF Maybe
<1>. QED
  BY <1>1 DEF PendingType

LEMMA SentType ==
  ASSUME NEW s \in PendingType, NEW phase \in Sends, NEW q \in Nat, NEW x \in Nat,
         NEW cid \in Maybe(Cid)
  PROVE  [s EXCEPT !.queries = q, !.restores = x, !.phase = phase, !.awaiting = cid]
           \in PendingType
BY DEF PendingType

LEMMA AnsweredType ==
  ASSUME NEW s \in PendingType, NEW acked \in SUBSET Cid, NEW epoch \in Nat
  PROVE  [s EXCEPT !.awaiting = None, !.acked = acked, !.epoch = epoch] \in PendingType
BY DEF PendingType, Maybe

-----------------------------------------------------------------------------
(* The bridge's steps.                                                     *)

LEMMA FinishLeft ==
  ASSUME NEW s, WellFormed(s), NEW term \in Terminal,
         NEW next \in {"loop", "read", "stopped"}, Finish(s, term, next)
  PROVE  Left(s.tid, next)
<1>1. pending' \in PendingType
  BY DEF Finish, WellFormed, PendingType, Maybe
<1>2. /\ pending'.intent = term /\ pending'.tid = s.tid
      /\ pending'.phase = s.phase /\ pending'.awaiting = s.awaiting
      /\ pending'.target = s.target /\ pending'.prior = s.prior
  BY DEF Finish, WellFormed, PendingType
<1>3. WellFormed(pending')
  BY <1>1, <1>2 DEF WellFormed
<1>4. pending' # None
  BY <1>1, NoneAssumption
<1>. QED
  BY <1>2, <1>3, <1>4, NoneAssumption DEF Left, Finish, Then

LEMMA KeepLeft ==
  ASSUME NEW s, WellFormed(s), NEW next \in {"loop", "read", "query"},
         then \in Then, next = "query" => s.target # None, Keep(s, next)
  PROVE  Left(s.tid, next)
<1>1. pending' # None
  BY NoneAssumption DEF Keep, WellFormed
<1>. QED
  BY <1>1 DEF Left, Keep, Then

LEMMA BeginRestoreLeft ==
  ASSUME NEW s, WellFormed(s), NEW next \in {"loop", "read"},
         then \in Then, BeginRestore(s, next)
  PROVE  Left(s.tid, next)
<1>1. CASE s.restores >= RestoreLimit \/ s.prior = None \/ s.epoch = None
  BY <1>1, FinishLeft DEF BeginRestore, Terminal
<1>2. CASE ~(s.restores >= RestoreLimit \/ s.prior = None \/ s.epoch = None)
  <2> DEFINE r == [s EXCEPT !.phase = "restore", !.awaiting = None]
  <2>1. r \in PendingType
    <3>1. "restore" \in Sends /\ None \in Maybe(Sends) /\ s \in PendingType
      BY DEF Sends, Maybe, WellFormed
    <3>. QED
      BY <3>1, MovedType
  <2>2. r.phase = "restore" /\ r.awaiting = None /\ r.prior = s.prior /\ r.tid = s.tid
    BY DEF WellFormed, PendingType
  <2>3. WellFormed(r)
    BY <1>2, <2>1, <2>2 DEF WellFormed
  <2>4. Keep(r, next)
    BY <1>2 DEF BeginRestore
  <2>. QED
    BY <2>2, <2>3, <2>4, KeepLeft
<1>. QED
  BY <1>1, <1>2

LEMMA FailForPhaseLeft ==
  ASSUME NEW s, WellFormed(s), NEW phase, NEW verdict,
         then \in Then, FailForPhase(s, phase, verdict, "loop")
  PROVE  Left(s.tid, "loop")
<1>1. CASE Finish(s, "failed-safe", "loop")
  BY <1>1, FinishLeft DEF Terminal
<1>2. CASE BeginRestore(s, "loop")
  BY <1>2, BeginRestoreLeft
<1>3. CASE Finish(s, "rollback-failed", "loop")
  BY <1>3, FinishLeft DEF Terminal
<1>. QED
  BY <1>1, <1>2, <1>3 DEF FailForPhase

LEMMA UnretainedLeft ==
  ASSUME NEW s, WellFormed(s), s.target # None, s.awaiting = None,
         NEW next \in {"loop", "read"}, then \in Then, Unretained(s, next)
  PROVE  Left(s.tid, next)
<1>1. CASE s.target[1] = "prepare"
  BY <1>1, FinishLeft DEF Unretained, Terminal
<1>2. CASE s.target[1] # "prepare"
  <2> DEFINE r == [s EXCEPT !.recovering = s.target[1], !.phase = "recover-state"]
  <2>1. s.target[1] \in Sends /\ "recover-state" \in Sends
    BY DEF WellFormed, PendingType, Maybe, Queried, Sends
  <2>2. r \in PendingType
    <3>1. s \in PendingType /\ s.target[1] \in Maybe(Sends)
      BY <2>1 DEF WellFormed, Maybe
    <3>. QED
      BY <2>1, <3>1, MovedType
  <2>3. r.phase = "recover-state" /\ r.awaiting = None /\ r.tid = s.tid
    BY DEF WellFormed, PendingType
  <2>4. WellFormed(r)
    BY <2>2, <2>3 DEF WellFormed
  <2>5. Keep(r, next)
    BY <1>2 DEF Unretained
  <2>. QED
    BY <2>3, <2>4, <2>5, KeepLeft
<1>. QED
  BY <1>1, <1>2

LEMMA AskAfterLeft ==
  ASSUME NEW s, WellFormed(s), NEW cid \in Queried, NEW next,
         then \in Then, AskAfter(s, cid, next)
  PROVE  Left(s.tid, next)
<1> DEFINE r == [s EXCEPT !.target = cid]
<1>1. r \in PendingType
  BY DEF WellFormed, PendingType, Maybe
<1>2. /\ r.target = cid /\ r.tid = s.tid /\ r.phase = s.phase
      /\ r.awaiting = s.awaiting /\ r.prior = s.prior
  BY DEF WellFormed, PendingType
<1>3. WellFormed(r) /\ r.target # None
  BY <1>1, <1>2, NoneAssumption DEF WellFormed
<1>4. Keep(r, "query")
  BY DEF AskAfter
<1>5. Left(r.tid, "query")
  BY <1>3, <1>4, KeepLeft
<1>. QED
  BY <1>2, <1>5 DEF Left

\* Nothing is awaited any more: what a timeout and a reply begin with.
LEMMA Answered ==
  ASSUME NEW s, WellFormed(s)
  PROVE  LET r == [s EXCEPT !.awaiting = None]
         IN /\ WellFormed(r) /\ r.awaiting = None /\ r.target = s.target /\ r.tid = s.tid
<1> DEFINE r == [s EXCEPT !.awaiting = None]
<1>1. r \in PendingType
  BY DEF WellFormed, PendingType, Maybe
<1>2. /\ r.awaiting = None /\ r.target = s.target /\ r.tid = s.tid
      /\ r.phase = s.phase /\ r.prior = s.prior
  BY DEF WellFormed, PendingType
<1>. QED
  BY <1>1, <1>2 DEF WellFormed

LEMMA OnTimeoutLeft ==
  ASSUME pending # None, WellFormed(pending), pending.awaiting # None,
         then \in Then, OnTimeout("read")
  PROVE  Left(pending.tid, "read")
<1> DEFINE s == [pending EXCEPT !.awaiting = None]
           asked == pending.awaiting
<1>1. WellFormed(s) /\ s.awaiting = None /\ s.target = pending.target /\ s.tid = pending.tid
  BY Answered
<1>2. asked \in Cid
  BY DEF WellFormed, PendingType, Maybe
<1>3. CASE asked[1] = "query"
  <2>1. s.target # None
    BY <1>1, <1>3 DEF WellFormed
  <2>2. Unretained(s, "read")
    BY <1>3 DEF OnTimeout
  <2>. QED
    BY <1>1, <2>1, <2>2, UnretainedLeft
<1>4. CASE asked[1] \in {"prepare", "apply", "restore"}
  <2>1. asked \in Queried
    BY <1>2, <1>4 DEF Cid, Queried
  <2>2. AskAfter(s, asked, "read")
    BY <1>4 DEF OnTimeout
  <2>. QED
    BY <1>1, <2>1, <2>2, AskAfterLeft
<1>5. CASE asked[1] \notin {"query", "prepare", "apply", "restore"}
  <2>1. Unanswered(s, asked[1], "read")
    BY <1>5 DEF OnTimeout
  <2>2. \/ Finish(s, "failed-safe", "read") \/ BeginRestore(s, "read")
        \/ Finish(s, "rollback-failed", "read")
    BY <2>1 DEF Unanswered
  <2>. QED
    BY <1>1, <2>2, FinishLeft, BeginRestoreLeft DEF Terminal
<1>. QED
  BY <1>3, <1>4, <1>5

LEMMA NumberedWellFormed ==
  ASSUME NEW s, WellFormed(s), NEW phase \in Sends,
         phase = "query" => s.target # None, phase = "restore" => s.prior # None
  PROVE  LET r == Numbered(s, phase)
         IN /\ WellFormed(r) /\ r.tid = s.tid /\ r.awaiting \in Cid /\ r.awaiting[1] = phase
            /\ r.hz = s.hz /\ r.prior = s.prior /\ r.epoch = s.epoch /\ r.target = s.target
<1> DEFINE q == s.queries + (IF phase = "query" THEN 1 ELSE 0)
           x == s.restores + (IF phase = "restore" THEN 1 ELSE 0)
           cid == CommandId(phase, IF phase = "query" THEN q ELSE x)
           r == [s EXCEPT !.queries = q, !.restores = x, !.phase = phase, !.awaiting = cid]
<1>1. q \in Nat /\ x \in Nat
  BY DEF WellFormed, PendingType
<1>2. cid \in Cid /\ cid[1] = phase
  BY <1>1 DEF CommandId, Cid
<1>3. r = Numbered(s, phase)
  BY DEF Numbered
<1> HIDE DEF q, x, cid
<1>4. r \in PendingType
  BY <1>1, <1>2, SentType DEF WellFormed, Maybe
<1>5. /\ r.phase = phase /\ r.awaiting = cid /\ r.tid = s.tid /\ r.target = s.target
      /\ r.prior = s.prior /\ r.hz = s.hz /\ r.epoch = s.epoch
  BY DEF WellFormed, PendingType
<1>6. WellFormed(r)
  BY <1>2, <1>4, <1>5 DEF WellFormed
<1> HIDE DEF r
<1>. QED
  BY <1>2, <1>3, <1>5, <1>6

-----------------------------------------------------------------------------
(* Messages.                                                               *)

LEMMA TransmitType ==
  ASSUME NEW S, NEW queue \in Seq(S), NEW m \in S, NEW result \in Transmit(queue, m)
  PROVE  /\ result \in Seq(S)
         /\ \A i \in 1..Len(result) :
              result[i] = m \/ (i \in 1..Len(queue) /\ result[i] = queue[i])
BY DEF Transmit

LEMMA RequestTyped ==
  ASSUME NEW s, WellFormed(s), s.awaiting # None
  PROVE  /\ Request(s) \in RequestType
         /\ Request(s).op \in {"prepare", "restore"} => Request(s).hz # None
<1>1. s.awaiting \in Cid /\ s.awaiting[1] \in Sends
  BY DEF WellFormed, PendingType, Maybe, Cid
<1>2. CASE s.awaiting[1] = "prepare"
  BY <1>1, <1>2, NoneAssumption DEF Request, RequestType, WellFormed, PendingType, Maybe
<1>3. CASE s.awaiting[1] = "restore"
  BY <1>1, <1>3 DEF Request, RequestType, WellFormed, PendingType, Maybe
<1>4. CASE s.awaiting[1] \notin {"prepare", "restore"}
  <2>1. s.target \in Maybe(Cid)
    BY DEF WellFormed, PendingType, Maybe, Queried, Cid, Sends
  <2>2. s.tid \in Txn
    BY DEF WellFormed, PendingType
  <2>. QED
    BY <1>1, <1>4, <2>1, <2>2 DEF Request, RequestType, Maybe
<1>. QED
  BY <1>2, <1>3, <1>4

LEMMA SendPhaseTyped ==
  ASSUME TypeInv, pending # None, NEW phase \in Sends,
         phase = "query" => pending.target # None,
         phase = "restore" => pending.prior # None, SendPhase(phase)
  PROVE  /\ Left(pending.tid, "read") /\ wire' \in Seq(RequestType)
         /\ \A i \in 1..Len(wire') :
              wire'[i].op \in {"prepare", "restore"} => wire'[i].hz # None
<1> DEFINE s == Numbered(pending, phase)
<1>1. WellFormed(s) /\ s.tid = pending.tid /\ s.awaiting # None
  BY NumberedWellFormed, NoneAssumption DEF TypeInv, Control
<1>2. Left(s.tid, "read")
  <2>1. Keep(s, "read") /\ then \in Then
    BY DEF SendPhase, TypeInv, TypeOK, Then
  <2> HIDE DEF s
  <2>. QED
    BY <1>1, <2>1, KeepLeft
<1>3. /\ Request(s) \in RequestType
      /\ Request(s).op \in {"prepare", "restore"} => Request(s).hz # None
  BY <1>1, RequestTyped
<1>4. wire' \in Transmit(wire, Request(s)) /\ wire \in Seq(RequestType)
  BY DEF SendPhase, TypeInv, TypeOK
<1>5. /\ wire' \in Seq(RequestType)
      /\ \A i \in 1..Len(wire') : wire'[i] = Request(s)
                                  \/ (i \in 1..Len(wire) /\ wire'[i] = wire[i])
  BY <1>3, <1>4, TransmitType
<1>. QED
  BY <1>1, <1>2, <1>3, <1>5 DEF TypeInv, Control

-----------------------------------------------------------------------------
(* Replies.                                                                *)

LEMMA AdvanceLeft ==
  ASSUME NEW s, WellFormed(s), s.awaiting = None, then \in Then,
         NEW phase \in Sends \ {"query"}, NEW r \in ReplyType, Advance(s, phase, r)
  PROVE  Left(s.tid, "loop")
<1> DEFINE v == <<r.boot, r.epoch>>
<1>1. r.boot \in Nat /\ r.epoch \in Nat /\ r.hz \in Rate /\ v \in Version
  BY DEF ReplyType, Version
<1>7. {"prepare", "apply", "verify", "restore-verify"} \subseteq Sends
  BY DEF Sends
<1> HIDE DEF v
<1>2. CASE phase = "state-before"
  <2> DEFINE n == [s EXCEPT !.prior = r.hz, !.boot = r.boot, !.phase = "prepare"]
  <2>1. n \in PendingType
    BY <1>1, <1>7, ObservedType DEF WellFormed, Maybe
  <2>2. n.awaiting = None /\ n.phase = "prepare" /\ n.tid = s.tid
    BY DEF WellFormed, PendingType
  <2>3. WellFormed(n) /\ Keep(n, "loop")
    BY <1>2, <2>1, <2>2 DEF Advance, WellFormed
  <2>. QED
    BY <2>2, <2>3, KeepLeft
<1>3. CASE phase = "prepare"
  <2> DEFINE n == [s EXCEPT !.phase = "apply"]
  <2>1. n \in PendingType
    BY <1>7 DEF WellFormed, PendingType, Maybe
  <2>2. n.awaiting = None /\ n.phase = "apply" /\ n.tid = s.tid
    BY DEF WellFormed, PendingType
  <2>3. WellFormed(n) /\ Keep(n, "loop")
    BY <1>3, <2>1, <2>2 DEF Advance, WellFormed
  <2>. QED
    BY <2>2, <2>3, KeepLeft
<1>4. CASE phase = "apply"
  <2> DEFINE n == [s EXCEPT !.applied = v, !.phase = "verify"]
  <2>1. n \in PendingType
    BY <1>1, <1>7, AppliedType DEF WellFormed, Maybe
  <2>2. n.awaiting = None /\ n.phase = "verify" /\ n.tid = s.tid
    BY DEF WellFormed, PendingType
  <2>3. WellFormed(n) /\ Keep(n, "loop")
    BY <1>4, <2>1, <2>2 DEF Advance, WellFormed, v
  <2>. QED
    BY <2>2, <2>3, KeepLeft
<1>5. CASE phase = "restore"
  <2> DEFINE n == [s EXCEPT !.restored = v, !.phase = "restore-verify"]
  <2>1. n \in PendingType
    BY <1>1, <1>7, RestoredType DEF WellFormed, Maybe
  <2>2. n.awaiting = None /\ n.phase = "restore-verify" /\ n.tid = s.tid
    BY DEF WellFormed, PendingType
  <2>3. WellFormed(n) /\ Keep(n, "loop")
    BY <1>5, <2>1, <2>2 DEF Advance, WellFormed, v
  <2>. QED
    BY <2>2, <2>3, KeepLeft
<1>6. CASE phase \in {"verify", "recover-state", "restore-verify"}
  <2>1. \/ BeginRestore(s, "loop")
        \/ \E term \in Terminal : Finish(s, term, "loop")
    BY <1>6 DEF Advance, RecoverState, Terminal
  <2>. QED
    BY <2>1, FinishLeft, BeginRestoreLeft
<1>. QED
  BY <1>2, <1>3, <1>4, <1>5, <1>6 DEF Sends

LEMMA AcceptPhaseReplyLeft ==
  ASSUME NEW s, WellFormed(s), s.awaiting = None, then \in Then,
         NEW phase \in Sends \ {"query"}, NEW r \in ReplyType,
         AcceptPhaseReply(s, phase, r)
  PROVE  Left(s.tid, "loop")
<1>1. CASE r.op # Expected(phase)
  BY <1>1, FailForPhaseLeft DEF AcceptPhaseReply
<1>2. CASE r.op = Expected(phase) /\ phase # "state-before" /\ r.boot # s.boot
  BY <1>2, FinishLeft DEF AcceptPhaseReply, Terminal
<1>3. CASE r.op = Expected(phase) /\ (phase = "state-before" \/ r.boot = s.boot)
           /\ r.verdict # Accepted(phase)
  BY <1>3, FailForPhaseLeft DEF AcceptPhaseReply
<1>4. CASE r.op = Expected(phase) /\ (phase = "state-before" \/ r.boot = s.boot)
           /\ r.verdict = Accepted(phase)
  BY <1>4, AdvanceLeft DEF AcceptPhaseReply
<1>. QED
  BY <1>1, <1>2, <1>3, <1>4

LEMMA HandleReplyLeft ==
  ASSUME pending # None, WellFormed(pending), pending.awaiting # None, then \in Then,
         NEW r \in ReplyType, HandleReply(r)
  PROVE  Left(pending.tid, "loop")
<1> DEFINE s == [pending EXCEPT !.awaiting = None, !.acked = @ \cup {r.cid}, !.epoch = r.epoch]
           asked == pending.awaiting
<1>1. s \in PendingType
  <2>1. pending \in PendingType /\ pending.acked \cup {r.cid} \in SUBSET Cid /\ r.epoch \in Nat
    BY DEF WellFormed, PendingType, ReplyType
  <2>. QED
    BY <2>1, AnsweredType
<1>2. /\ s.awaiting = None /\ s.target = pending.target /\ s.tid = pending.tid
      /\ s.phase = pending.phase /\ s.prior = pending.prior
  BY DEF WellFormed, PendingType
<1>3. WellFormed(s)
  BY <1>1, <1>2 DEF WellFormed
<1>4. asked[1] \in Sends
  BY DEF WellFormed, PendingType, Maybe, Cid
<1>5. asked[1] = "query" => s.target # None /\ s.target[1] \in Sends \ {"query"}
  BY <1>2 DEF WellFormed, PendingType, Maybe, Queried, Sends
<1>6. CASE asked[1] = "query" /\ r.cid = asked /\ r.verdict = "unknown-command"
  <2>1. Unretained(s, "loop")
    BY <1>6 DEF HandleReply
  <2> HIDE DEF s
  <2>. QED
    BY <2>1, <1>2, <1>3, <1>5, <1>6, UnretainedLeft
<1>7. CASE asked[1] = "query" /\ r.cid = asked /\ r.verdict # "unknown-command"
  <2>1. Finish(s, "rollback-failed", "loop")
    BY <1>7 DEF HandleReply
  <2> HIDE DEF s
  <2>. QED
    BY <2>1, <1>2, <1>3, FinishLeft DEF Terminal
<1>8. CASE asked[1] = "query" /\ r.cid # asked
  <2>1. AcceptPhaseReply(s, s.target[1], r)
    BY <1>2, <1>8 DEF HandleReply
  <2> HIDE DEF s
  <2>. QED
    BY <2>1, <1>2, <1>3, <1>5, <1>8, AcceptPhaseReplyLeft
<1>9. CASE asked[1] # "query"
  <2>1. AcceptPhaseReply(s, asked[1], r)
    BY <1>9 DEF HandleReply
  <2> HIDE DEF s
  <2>. QED
    BY <2>1, <1>2, <1>3, <1>4, <1>9, AcceptPhaseReplyLeft
<1>. QED
  BY <1>6, <1>7, <1>8, <1>9

-----------------------------------------------------------------------------
(* The firmware.                                                           *)

Verdict == {"ok", "prepared", "applied", "restored", "refused", "uncertain",
            "unknown-command"}

LEMMA ReplyTyped ==
  ASSUME NEW d \in DeviceType, NEW m \in RequestType,
         NEW op \in Sends \cup {"get-state"}, NEW verdict \in Verdict
  PROVE  Reply(d, m, op, verdict) \in ReplyType
BY DEF Reply, DeviceType, RequestType, ReplyType, Verdict

LEMMA MovedTyped ==
  ASSUME NEW d \in DeviceType, NEW hz \in Rate, NEW t \in Maybe(Txn)
  PROVE  Moved(d, hz, t) \in DeviceType
<1> DEFINE next == d.epoch + 1
<1>1. next \in Nat /\ Moved(d, hz, t) = [d EXCEPT !.epoch = next, !.hz = hz, !.owner = t]
  BY DEF DeviceType, Moved
<1> HIDE DEF next
<1>. QED
  BY <1>1 DEF DeviceType

LEMMA PerformedTyped ==
  ASSUME NEW d \in DeviceType, NEW m \in RequestType,
         m.op \in {"prepare", "apply", "restore"},
         m.op \in {"prepare", "restore"} => m.hz # None, NEW o \in Performed(d, m)
  PROVE  o.device \in DeviceType /\ o.reply \in ReplyType
<1>1. m.op \in Sends /\ m.tid \in Txn
  BY DEF RequestType
<1>2. \A e \in DeviceType, v \in Verdict :
        Answer(e, m, v).device \in DeviceType /\ Answer(e, m, v).reply \in ReplyType
  BY <1>1, ReplyTyped DEF Answer
<1>3. CASE m.op = "prepare"
  <2> DEFINE e == [d EXCEPT !.prepared = [tid |-> m.tid, hz |-> m.hz], !.retained = {}]
  <2>1. m.hz \in Rate
    BY <1>3 DEF RequestType, Maybe
  <2>2. e \in DeviceType
    BY <1>1, <2>1 DEF DeviceType, Maybe
  <2>3. o = Answer(d, m, "refused") \/ o = Answer(e, m, "prepared")
    BY <1>3 DEF Performed
  <2> HIDE DEF e
  <2>. QED
    BY <1>2, <2>2, <2>3 DEF Verdict
<1>4. CASE m.op = "apply"
  <2> DEFINE c == [d EXCEPT !.prepared = None]
             e == Moved(c, d.prepared.hz, m.tid)
  <2>1. CASE d.prepared # None /\ d.prepared.tid = m.tid
    <3>1. d.prepared.hz \in Rate
      BY <2>1 DEF DeviceType, Maybe
    <3>2. c \in DeviceType
      BY DEF DeviceType, Maybe
    <3>3. e \in DeviceType
      <4> HIDE DEF c
      <4>. QED
        BY <1>1, <3>1, <3>2, MovedTyped DEF Maybe
    <3>4. \/ o = Answer(d, m, "refused") \/ o = Answer(e, m, "applied")
          \/ o = Answer(e, m, "uncertain") \/ o = Answer(d, m, "uncertain")
      BY <1>4, <2>1 DEF Performed
    <3> HIDE DEF e
    <3>. QED
      BY <1>2, <3>3, <3>4 DEF Verdict
  <2>2. CASE ~(d.prepared # None /\ d.prepared.tid = m.tid)
    <3>1. o = Answer(d, m, "refused")
      BY <1>4, <2>2 DEF Performed
    <3>. QED
      BY <1>2, <3>1 DEF Verdict
  <2>. QED
    BY <2>1, <2>2
<1>5. CASE m.op = "restore"
  <2> DEFINE e == Moved(d, m.hz, m.tid)
  <2>1. e \in DeviceType
    BY <1>1, <1>5, MovedTyped DEF RequestType, Maybe
  <2>2. o = Answer(d, m, "refused") \/ o = Answer(e, m, "restored")
    BY <1>5 DEF Performed
  <2> HIDE DEF e
  <2>. QED
    BY <1>2, <2>1, <2>2 DEF Verdict
<1>. QED
  BY <1>3, <1>4, <1>5

LEMMA OutcomesTyped ==
  ASSUME NEW d \in DeviceType, NEW m \in RequestType,
         m.op \in {"prepare", "restore"} => m.hz # None, NEW o \in Outcomes(d, m)
  PROVE  o.device \in DeviceType /\ o.reply \in ReplyType
<1>1. \A tid, cid : \A r \in Retained(d, tid, cid) : r \in ReplyType
  BY DEF Retained, DeviceType
<1>2. CASE m.op = "query"
  <2>1. Reply(d, m, "query", "unknown-command") \in ReplyType
    BY ReplyTyped DEF Sends, Verdict
  <2>. QED
    BY <1>1, <1>2, <2>1 DEF Outcomes
<1>3. CASE m.op \in {"prepare", "apply", "restore"}
  <2>1. CASE Retained(d, m.tid, m.cid) # {}
    BY <1>1, <1>3, <2>1 DEF Outcomes
  <2>2. CASE Retained(d, m.tid, m.cid) = {}
    <3>1. PICK p \in Performed(d, m) :
            o = [device |-> [p.device EXCEPT !.retained = @ \cup {p.reply}], reply |-> p.reply]
      BY <1>3, <2>2 DEF Outcomes
    <3>2. p.device \in DeviceType /\ p.reply \in ReplyType
      BY <1>3, PerformedTyped
    <3>3. [p.device EXCEPT !.retained = @ \cup {p.reply}] \in DeviceType
      BY <3>2 DEF DeviceType
    <3>. QED
      BY <3>1, <3>2, <3>3
  <2>. QED
    BY <2>1, <2>2
<1>4. CASE m.op \notin {"query", "prepare", "apply", "restore"}
  <2>1. Reply(d, m, "get-state", "ok") \in ReplyType
    BY ReplyTyped DEF Verdict
  <2>. QED
    BY <1>4, <2>1 DEF Outcomes
<1>. QED
  BY <1>2, <1>3, <1>4

-----------------------------------------------------------------------------
(* Type correctness.                                                       *)

WireRates(w) ==
  /\ w \in Seq(RequestType)
  /\ \A i \in 1..Len(w) : w[i].op \in {"prepare", "restore"} => w[i].hz # None

\* A step of the bridge on the pending transaction.
LEMMA LeftTyped ==
  ASSUME TypeInv, pending # None, NEW next \in {"loop", "read", "stopped"},
         Left(pending.tid, next), WireRates(wire'), line' \in Seq(ReplyType),
         UNCHANGED <<command, status, ledger, device, budget>>
  PROVE  TypeInv'
<1>1. TypeOK'
  BY DEF TypeInv, TypeOK, Left, WellFormed, WireRates, Then, PC, Maybe
<1>2. Control'
  BY DEF Control, Left, WireRates
<1>. QED
  BY <1>1, <1>2 DEF TypeInv

LEMMA TailTyped ==
  ASSUME NEW S, NEW queue \in Seq(S), queue # <<>>
  PROVE  /\ Head(queue) \in S /\ Head(queue) = queue[1] /\ Tail(queue) \in Seq(S)
         /\ 1 \in 1..Len(queue)
         /\ \A i \in 1..Len(Tail(queue)) :
              i + 1 \in 1..Len(queue) /\ Tail(queue)[i] = queue[i + 1]
OBVIOUS

\* The firmware or the line changes, the host does not.
LEMMA LinkTyped ==
  ASSUME TypeInv, UNCHANGED <<files, worker>>, device' \in DeviceType, WireRates(wire'),
         line' \in Seq(ReplyType), budget' \in [DOMAIN budget -> Nat]
  PROVE  TypeInv'
<1>1. TypeOK'
  <2>1. budget' \in [{"requests", "crashes", "reboots", "drifts", "faults"} -> Nat]
    BY DEF TypeInv, TypeOK
  <2>. QED
    BY <2>1 DEF TypeInv, TypeOK, files, worker, WireRates
<1>2. Control'
  BY DEF TypeInv, Control, files, worker, WireRates
<1>. QED
  BY <1>1, <1>2 DEF TypeInv

LEMMA SpendTyped ==
  ASSUME TypeOK, NEW what \in {"requests", "crashes", "reboots", "drifts", "faults"}, Spend(what)
  PROVE  budget' \in [DOMAIN budget -> Nat] /\ DOMAIN budget' = DOMAIN budget
BY DEF Spend, TypeOK

LEMMA AdoptTyped ==
  ASSUME TypeInv, NEW next \in {"poll", "shut"}, Adopt(next)
  PROVE  TypeInv'
<1>1. command \in [tid : Txn, hz : Rate]
  BY DEF TypeInv, TypeOK, Adopt, Maybe
<1>2. pending' \in PendingType
  BY <1>1 DEF Adopt, Fresh, PendingType, Maybe
<1>3. WellFormed(pending') /\ pending' # None
  <2>1. pending'.phase = "queued" /\ pending'.awaiting = None
    BY DEF Adopt, Fresh
  <2>. QED
    BY <1>2, <2>1, NoneAssumption DEF WellFormed
<1>4. ledger' \in [Txn -> [known : BOOLEAN, terminals : Seq(FactsType)]]
  BY <1>1 DEF TypeInv, TypeOK, Adopt
<1>5. TypeOK'
  BY <1>2, <1>4 DEF TypeInv, TypeOK, Adopt, link, Maybe, PC
<1>6. Control'
  BY <1>3 DEF TypeInv, Control, Adopt, link
<1>. QED
  BY <1>5, <1>6 DEF TypeInv

LEMMA InitTyped == Init => TypeInv
<1> SUFFICES ASSUME Init PROVE TypeInv
  OBVIOUS
<1>1. device \in DeviceType
  BY DEF Init, Boot, DeviceType, Maybe
<1>2. budget \in [{"requests", "crashes", "reboots", "drifts", "faults"} -> Nat]
  BY BoundAssumption DEF Init
<1>3. TypeOK
  BY <1>1, <1>2 DEF Init, TypeOK, Maybe, PC
<1>4. Control
  BY DEF Init, Control
<1>. QED
  BY <1>3, <1>4 DEF TypeInv

\* The steps by which the bridge works on the pending transaction.
Bridge == PollSend \/ SendQuery \/ PollTimeout \/ ReadReply \/ ShutdownSeal

LEMMA BridgeLeft ==
  ASSUME TypeInv, Bridge
  PROVE  /\ pending # None /\ pc \in {"loop", "poll", "query", "read", "shut"}
         /\ WireRates(wire') /\ line' \in Seq(ReplyType)
         /\ UNCHANGED <<command, status, ledger, device, budget>>
         /\ \E next \in {"loop", "read", "stopped"} : Left(pending.tid, next)
<1>1. WireRates(wire) /\ line \in Seq(ReplyType) /\ then \in Then
  BY DEF TypeInv, TypeOK, Control, WireRates, Then
<1>2. pending # None => WellFormed(pending)
  BY DEF TypeInv, Control
<1>3. CASE PollSend
  <2> DEFINE phase == IF pending.phase = "queued" THEN "state-before" ELSE pending.phase
  <2>1. pending # None /\ SendPhase(phase)
    BY <1>3 DEF PollSend
  <2>2. phase \in Sends
    BY <1>2, <2>1 DEF WellFormed, PendingType, Sends
  <2>3. /\ phase = "query" => pending.target # None
        /\ phase = "restore" => pending.prior # None
    BY <1>2, <2>1 DEF WellFormed
  <2> HIDE DEF phase
  <2>4. Left(pending.tid, "read") /\ WireRates(wire')
    BY <2>1, <2>2, <2>3, SendPhaseTyped DEF WireRates
  <2>. QED
    BY <1>1, <1>3, <2>1, <2>4 DEF PollSend, Polling
<1>4. CASE SendQuery
  <2>1. pending # None /\ pending.target # None
    BY <1>4 DEF SendQuery, TypeInv, Control
  <2>2. Left(pending.tid, "read") /\ WireRates(wire')
    BY <1>4, <2>1, SendPhaseTyped DEF SendQuery, WireRates, Sends
  <2>. QED
    BY <1>1, <1>4, <2>1, <2>2 DEF SendQuery
<1>5. CASE PollTimeout
  <2>1. pending # None /\ Left(pending.tid, "read")
    BY <1>1, <1>2, <1>5, OnTimeoutLeft DEF PollTimeout
  <2>. QED
    BY <1>1, <1>5, <2>1 DEF PollTimeout, link, Polling, WireRates
<1>6. CASE ReadReply
  <2>1. line' \in Seq(ReplyType) /\ Head(line) \in ReplyType
    BY <1>1, <1>6, TailTyped DEF ReadReply
  <2>2. pending # None /\ Left(pending.tid, "loop")
    BY <1>1, <1>2, <1>6, <2>1, HandleReplyLeft DEF ReadReply, Correlated
  <2>. QED
    BY <1>1, <1>6, <2>1, <2>2 DEF ReadReply, WireRates
<1>7. CASE ShutdownSeal
  <2>1. pending # None /\ Left(pending.tid, "stopped")
    BY <1>2, <1>7, FinishLeft DEF ShutdownSeal, ShutdownOutcome, Terminal
  <2>. QED
    BY <1>1, <1>7, <2>1 DEF ShutdownSeal, link, Stopping, WireRates
<1>. QED
  BY <1>3, <1>4, <1>5, <1>6, <1>7 DEF Bridge

LEMMA WorkerTyped == TypeInv /\ Worker => TypeInv'
<1> SUFFICES ASSUME TypeInv, Worker PROVE TypeInv'
  OBVIOUS
<1>1. WireRates(wire) /\ line \in Seq(ReplyType) /\ then \in Then
  BY DEF TypeInv, TypeOK, Control, WireRates, Then
<1>2. pending # None => WellFormed(pending)
  BY DEF TypeInv, Control
<1>3. CASE UnlinkCommand
  <2>1. TypeOK'
    BY <1>3 DEF TypeInv, TypeOK, UnlinkCommand, link, Maybe, PC
  <2>2. Control'
    BY <1>3 DEF TypeInv, TypeOK, Control, UnlinkCommand, link
  <2>. QED
    BY <2>1, <2>2 DEF TypeInv
<1>4. CASE PollIdle \/ PollWait \/ ReadNothing \/ ShutdownIdle
  <2>1. TypeOK'
    BY <1>4 DEF TypeInv, TypeOK, PollIdle, PollWait, ReadNothing, ShutdownIdle, files, link, PC
  <2>2. Control'
    BY <1>4 DEF TypeInv, Control, PollIdle, PollWait, ReadNothing, ShutdownIdle, files, link
  <2>. QED
    BY <2>1, <2>2 DEF TypeInv
<1>5. CASE PollAdopt \/ ShutdownAdopt
  BY <1>5, AdoptTyped DEF PollAdopt, ShutdownAdopt
<1>6. CASE Bridge
  BY <1>6, BridgeLeft, LeftTyped
<1>7. CASE ReadIgnored
  <2>1. line' \in Seq(ReplyType)
    BY <1>1, <1>7, TailTyped DEF ReadIgnored
  <2>2. TypeOK'
    BY <1>7, <2>1 DEF TypeInv, TypeOK, ReadIgnored, files, PC
  <2>3. Control'
    BY <1>7 DEF TypeInv, Control, ReadIgnored, files
  <2>. QED
    BY <2>2, <2>3 DEF TypeInv
<1>8. pending # None /\ pending.intent # None => Facts(pending) \in FactsType
  BY <1>2 DEF WellFormed, PendingType, Facts, FactsType, Maybe
<1>9. CASE SealTerminal
  <2>1. pending # None /\ pending.intent # None /\ pending.tid \in Txn
    BY <1>2, <1>9 DEF SealTerminal, TypeInv, Control, WellFormed, PendingType
  <2>2. ledger' \in [Txn -> [known : BOOLEAN, terminals : Seq(FactsType)]]
    <3> DEFINE entry == [ledger[pending.tid] EXCEPT !.terminals = Append(@, Facts(pending))]
    <3>1. ledger \in [Txn -> [known : BOOLEAN, terminals : Seq(FactsType)]]
      BY DEF TypeInv, TypeOK
    <3>2. Append(ledger[pending.tid].terminals, Facts(pending)) \in Seq(FactsType)
      BY <1>8, <2>1, <3>1
    <3>3. entry \in [known : BOOLEAN, terminals : Seq(FactsType)]
      BY <2>1, <3>1, <3>2
    <3>4. ledger' = [ledger EXCEPT ![pending.tid] = entry]
      BY <1>9, <2>1, <3>1 DEF SealTerminal
    <3> HIDE DEF entry
    <3>. QED
      BY <2>1, <3>1, <3>3, <3>4
  <2>3. TypeOK'
    BY <1>9, <2>2 DEF TypeInv, TypeOK, SealTerminal, link, PC
  <2>4. Control'
    BY <1>9 DEF TypeInv, Control, SealTerminal, link
  <2>. QED
    BY <2>3, <2>4 DEF TypeInv
<1>10. CASE WriteStatus
  <2>1. pending # None /\ pending.intent # None /\ pending.tid \in Txn
    BY <1>2, <1>10 DEF WriteStatus, TypeInv, Control, WellFormed, PendingType
  <2>2. status' \in [tid : Txn, facts : FactsType]
    BY <1>8, <1>10, <2>1 DEF WriteStatus
  <2>3. TypeOK'
    BY <1>10, <2>2 DEF TypeInv, TypeOK, WriteStatus, link, PC, Maybe
  <2>4. Control'
    BY <1>10 DEF TypeInv, Control, WriteStatus, link
  <2>. QED
    BY <2>3, <2>4 DEF TypeInv
<1>11. CASE UnlinkPending
  <2>1. TypeOK'
    BY <1>11 DEF TypeInv, TypeOK, UnlinkPending, link, Maybe, PC
  <2>2. Control'
    BY <1>11 DEF TypeInv, TypeOK, Control, UnlinkPending, link
  <2>. QED
    BY <2>1, <2>2 DEF TypeInv
<1>12. CASE LoadSettled
  <2>1. pending # None /\ pending.tid \in Txn /\ Settled(pending.tid)
    BY <1>2, <1>12 DEF LoadSettled, WellFormed, PendingType
  <2>2. LastFacts(pending.tid) \in FactsType
    BY <2>1 DEF TypeInv, TypeOK, LastFacts, Settled
  <2>3. TypeOK'
    BY <1>12, <2>1, <2>2 DEF TypeInv, TypeOK, LoadSettled, link, PC, Maybe
  <2>4. Control'
    BY <1>12, <2>1 DEF TypeInv, Control, LoadSettled, link
  <2>. QED
    BY <2>3, <2>4 DEF TypeInv
<1>13. CASE Load
  <2>1. TypeOK'
    BY <1>13 DEF TypeInv, TypeOK, Load, files, link, PC
  <2>2. Control'
    BY <1>13 DEF TypeInv, Control, Load, files, link
  <2>. QED
    BY <2>1, <2>2 DEF TypeInv
<1>. QED
  BY <1>3, <1>4, <1>5, <1>6, <1>7, <1>9, <1>10, <1>11, <1>12, <1>13 DEF Worker, Bridge

LEMMA HostTyped == TypeInv /\ Host => TypeInv'
<1> SUFFICES ASSUME TypeInv, Host PROVE TypeInv'
  OBVIOUS
<1>1. ASSUME NEW t \in Txn, NEW hz \in Rate, NEW logged \in BOOLEAN, QueueRate(t, hz, logged)
      PROVE  TypeInv'
  <2>1. budget' \in [DOMAIN budget -> Nat]
    BY <1>1, SpendTyped DEF TypeInv, QueueRate
  <2>2. ledger' \in [Txn -> [known : BOOLEAN, terminals : Seq(FactsType)]]
    BY <1>1 DEF TypeInv, TypeOK, QueueRate
  <2>3. TypeOK'
    BY <1>1, <2>1, <2>2 DEF TypeInv, TypeOK, QueueRate, worker, link, Maybe
  <2>4. Control'
    BY <1>1 DEF TypeInv, Control, QueueRate, worker, link
  <2>. QED
    BY <2>3, <2>4 DEF TypeInv
<1>2. CASE Crash
  <2>1. budget' \in [DOMAIN budget -> Nat]
    BY <1>2, SpendTyped DEF TypeInv, Crash
  <2>2. TypeOK'
    BY <1>2, <2>1 DEF TypeInv, TypeOK, Crash, files, link, PC
  <2>3. Control'
    BY <1>2 DEF TypeInv, Control, Crash, files, link
  <2>. QED
    BY <2>2, <2>3 DEF TypeInv
<1>. QED
  BY <1>1, <1>2 DEF Host

LEMMA DeviceTyped == TypeInv /\ Device => TypeInv'
<1> SUFFICES ASSUME TypeInv, Device PROVE TypeInv'
  OBVIOUS
<1>1. /\ WireRates(wire) /\ line \in Seq(ReplyType) /\ device \in DeviceType
      /\ budget \in [DOMAIN budget -> Nat]
  BY DEF TypeInv, TypeOK, Control, WireRates
<1>2. ASSUME wire # <<>>, wire' = Tail(wire)
      PROVE  WireRates(wire')
  BY <1>1, <1>2, TailTyped DEF WireRates
<1>3. ASSUME wire # <<>>, NEW o \in Outcomes(device, Head(wire))
      PROVE  o.device \in DeviceType /\ o.reply \in ReplyType
  <2>1. /\ Head(wire) \in RequestType
        /\ Head(wire).op \in {"prepare", "restore"} => Head(wire).hz # None
    BY <1>1, <1>3, TailTyped DEF WireRates
  <2>. QED
    BY <1>1, <2>1, OutcomesTyped
<1>4. CASE Serve
  <2>1. PICK o \in Outcomes(device, Head(wire)) :
          device' = o.device /\ line' \in Transmit(line, o.reply)
    BY <1>4 DEF Serve
  <2>2. o.device \in DeviceType /\ o.reply \in ReplyType
    BY <1>3, <1>4 DEF Serve
  <2>3. line' \in Seq(ReplyType)
    BY <1>1, <2>1, <2>2, TransmitType
  <2>. QED
    BY <1>1, <1>2, <1>4, <2>1, <2>2, <2>3, LinkTyped DEF Serve
<1>5. CASE ServeFaulty
  <2>1. PICK o \in Outcomes(device, Head(wire)) :
          /\ device' = o.device
          /\ line' \in Transmit(line, [o.reply EXCEPT !.op = "odd", !.verdict = "refused"])
    BY <1>5 DEF ServeFaulty
  <2>2. o.device \in DeviceType /\ o.reply \in ReplyType
    BY <1>3, <1>5 DEF ServeFaulty
  <2>3. [o.reply EXCEPT !.op = "odd", !.verdict = "refused"] \in ReplyType
    BY <2>2 DEF ReplyType
  <2>4. line' \in Seq(ReplyType)
    BY <1>1, <2>1, <2>3, TransmitType
  <2>5. budget' \in [DOMAIN budget -> Nat]
    BY <1>5, SpendTyped DEF ServeFaulty, TypeInv
  <2>. QED
    BY <1>2, <1>5, <2>1, <2>2, <2>4, <2>5, LinkTyped DEF ServeFaulty
<1>6. ASSUME NEW hz \in Rate, Drift(hz)
      PROVE  TypeInv'
  <2>1. device' \in DeviceType
    BY <1>1, <1>6, MovedTyped DEF Drift, Maybe
  <2>2. budget' \in [DOMAIN budget -> Nat]
    BY <1>6, SpendTyped DEF Drift, TypeInv
  <2>. QED
    BY <1>1, <1>6, <2>1, <2>2, LinkTyped DEF Drift
<1>7. ASSUME NEW hz \in Rate, Reboot(hz)
      PROVE  TypeInv'
  <2>1. device' \in DeviceType
    BY <1>1, <1>7 DEF Reboot, Boot, DeviceType, Maybe
  <2>2. budget' \in [DOMAIN budget -> Nat]
    BY <1>7, SpendTyped DEF Reboot, TypeInv
  <2>. QED
    BY <1>1, <1>7, <2>1, <2>2, LinkTyped DEF Reboot
<1>. QED
  BY <1>4, <1>5, <1>6, <1>7 DEF Device

LEMMA StutterTyped == TypeInv /\ UNCHANGED vars => TypeInv'
<1> SUFFICES ASSUME TypeInv, UNCHANGED vars PROVE TypeInv'
  OBVIOUS
<1>1. TypeOK'
  BY DEF TypeInv, TypeOK, vars, files, worker, link
<1>2. Control'
  BY DEF TypeInv, Control, vars, files, worker, link
<1>. QED
  BY <1>1, <1>2 DEF TypeInv

LEMMA TypeInvariant == Spec => []TypeInv
<1>1. TypeInv /\ [Next]_vars => TypeInv'
  BY WorkerTyped, HostTyped, DeviceTyped, StutterTyped DEF Next, Terminated
<1>. QED
  BY InitTyped, <1>1, PTL DEF Spec

\* Every file, message and firmware state stays well-formed, whatever the
\* line, the firmware and the crashes do (all of FirmwareControlBridge).
THEOREM TypeCorrect == Spec => []TypeOK
<1>1. TypeInv => TypeOK
  BY DEF TypeInv
<1>. QED
  BY TypeInvariant, <1>1, PTL

-----------------------------------------------------------------------------
(* The ledger, the status file and what the bridge owns.                   *)

Terminals(t) == ledger[t].terminals

\* All steps but the three that tell of an outcome.
LEMMA Discreet ==
  ASSUME TypeInv, [Next]_vars, ~SealTerminal, ~WriteStatus, ~LoadSettled
  PROVE  /\ status' = status /\ \A t \in Txn : ledger'[t].terminals = Terminals(t)
         /\ \A t \in Txn : ledger[t].known => ledger'[t].known
         /\ pc' = "status" => pc = "status" /\ pending' = pending
<1>1. ledger \in [Txn -> [known : BOOLEAN, terminals : Seq(FactsType)]]
  BY DEF TypeInv, TypeOK
<1>2. CASE Bridge
  BY <1>2, BridgeLeft DEF Left, Terminals
<1>3. CASE UnlinkCommand \/ UnlinkPending
  BY <1>3 DEF UnlinkCommand, UnlinkPending, TypeInv, TypeOK, Terminals
<1>4. CASE PollIdle \/ PollWait \/ ReadNothing \/ ReadIgnored \/ ShutdownIdle \/ Load
  BY <1>4 DEF PollIdle, PollWait, ReadNothing, ReadIgnored, ShutdownIdle, Load, files, Terminals
<1>5. ASSUME NEW next \in {"poll", "shut"}, Adopt(next)
      PROVE  /\ status' = status /\ \A t \in Txn : ledger'[t].terminals = Terminals(t)
             /\ \A t \in Txn : ledger[t].known => ledger'[t].known
             /\ pc' # "status"
  <2>1. command.tid \in Txn
    BY <1>5 DEF Adopt, TypeInv, TypeOK, Maybe
  <2>. QED
    BY <1>1, <1>5, <2>1 DEF Adopt, Terminals
<1>6. ASSUME NEW t \in Txn, NEW hz \in Rate, NEW logged \in BOOLEAN, QueueRate(t, hz, logged)
      PROVE  /\ status' = status /\ pc' = pc /\ pending' = pending
             /\ \A u \in Txn : ledger'[u].terminals = Terminals(u)
             /\ \A u \in Txn : ledger[u].known => ledger'[u].known
  BY <1>1, <1>6 DEF QueueRate, worker, Terminals
<1>7. CASE Crash
  BY <1>7 DEF Crash, files, Terminals
<1>8. CASE Device
  BY <1>8 DEF Device, Serve, ServeFaulty, Drift, Reboot, files, worker, Terminals
<1>9. CASE UNCHANGED vars
  BY <1>9 DEF vars, files, worker, Terminals
<1>. QED
  BY <1>2, <1>3, <1>4, <1>5, <1>6, <1>7, <1>8, <1>9
     DEF Next, Worker, Bridge, Host, Terminated, PollAdopt, ShutdownAdopt

LEMMA SealStep ==
  ASSUME TypeInv, SealTerminal
  PROVE  /\ pending # None /\ pending.tid \in Txn
         /\ ledger'[pending.tid].terminals = Append(Terminals(pending.tid), Facts(pending))
         /\ \A t \in Txn : t # pending.tid => ledger'[t] = ledger[t]
         /\ \A t \in Txn : ledger'[t].known = ledger[t].known
         /\ \A t \in Txn : Terminals(t) \in Seq(FactsType)
         /\ pending' = pending /\ status' = status /\ command' = command
<1>1. pending # None /\ pending.tid \in Txn
  BY DEF SealTerminal, TypeInv, Control, WellFormed, PendingType
<1>2. ledger \in [Txn -> [known : BOOLEAN, terminals : Seq(FactsType)]]
  BY DEF TypeInv, TypeOK
<1>. QED
  BY <1>1, <1>2 DEF SealTerminal, Terminals

\* StatusFollowsLedger, and what the status file is about to say.
StatusInv ==
  /\ StatusFollowsLedger
  /\ pc = "status" => \E i \in 1..Len(Terminals(pending.tid)) :
                        Terminals(pending.tid)[i] = Facts(pending)

LEMMA StatusStep == TypeInv /\ StatusInv /\ [Next]_vars => StatusInv'
<1> SUFFICES ASSUME TypeInv, StatusInv, [Next]_vars PROVE StatusInv'
  OBVIOUS
<1>1. /\ status # None => status.tid \in Txn
      /\ pending # None => pending.tid \in Txn
      /\ \A t \in Txn : Terminals(t) \in Seq(FactsType)
  BY DEF TypeInv, TypeOK, Maybe, PendingType, Terminals
<1>2. CASE SealTerminal
  <2> DEFINE k == Len(Terminals(pending.tid)) + 1
  <2>1. /\ pending' = pending /\ status' = status
        /\ Len(ledger'[pending.tid].terminals) = k
        /\ ledger'[pending.tid].terminals[k] = Facts(pending)
        /\ \A i \in 1..Len(Terminals(pending.tid)) :
             i \in 1..k /\ ledger'[pending.tid].terminals[i] = Terminals(pending.tid)[i]
    BY <1>2, SealStep
  <2>2. StatusFollowsLedger'
    <3> SUFFICES ASSUME status # None
                 PROVE  \E i \in 1..Len(ledger'[status.tid].terminals) :
                          ledger'[status.tid].terminals[i] = status.facts
      BY <2>1 DEF StatusFollowsLedger
    <3>1. PICK i \in 1..Len(Terminals(status.tid)) : Terminals(status.tid)[i] = status.facts
      BY DEF StatusInv, StatusFollowsLedger, Terminals
    <3>. QED
      BY <1>1, <1>2, <2>1, <3>1, SealStep DEF Terminals
  <2>3. k \in 1..k
    BY <1>1, <1>2, SealStep
  <2>. QED
    BY <2>1, <2>2, <2>3 DEF StatusInv, Terminals, Facts
<1>3. CASE WriteStatus
  BY <1>3 DEF WriteStatus, StatusInv, StatusFollowsLedger, Terminals
<1>4. CASE LoadSettled
  <2>1. Len(Terminals(pending.tid)) \in 1..Len(Terminals(pending.tid))
    BY <1>1, <1>4 DEF LoadSettled, Settled, Terminals
  <2>. QED
    BY <1>4, <2>1 DEF LoadSettled, StatusInv, StatusFollowsLedger, Terminals, LastFacts
<1>5. CASE ~SealTerminal /\ ~WriteStatus /\ ~LoadSettled
  <2>1. /\ status' = status /\ \A t \in Txn : ledger'[t].terminals = Terminals(t)
        /\ pc' = "status" => pc = "status" /\ pending' = pending
    BY <1>5, Discreet
  <2>2. pc = "status" => pending # None
    BY DEF TypeInv, Control
  <2>. QED
    BY <1>1, <2>1, <2>2 DEF StatusInv, StatusFollowsLedger, Terminals, Facts
<1>. QED
  BY <1>2, <1>3, <1>4, <1>5

\* The status file repeats a terminal event of the ledger, at every moment and
\* after every crash (_seal_terminal, _load_pending).
THEOREM StatusNeverLies == Spec => []StatusFollowsLedger
<1>1. Init => StatusInv
  BY DEF Init, StatusInv, StatusFollowsLedger
<1>2. StatusInv => StatusFollowsLedger
  BY DEF StatusInv
<1>. QED
  BY TypeInvariant, StatusStep, <1>1, <1>2, PTL DEF Spec

-----------------------------------------------------------------------------
(* A transaction ends once, when no process dies between saving an adopted *)
(* request and removing the operator's file, and no identity is reused.    *)

\* Steps that leave alone who owns what and what has ended.
LEMMA Neutral ==
  ASSUME TypeInv, [Next]_vars, ~SealTerminal, ~WriteStatus, ~LoadSettled, ~UnlinkCommand,
         ~UnlinkPending, ~Crash, ~PollAdopt, ~ShutdownAdopt,
         ~\E t \in Txn, hz \in Rate, logged \in BOOLEAN : QueueRate(t, hz, logged)
  PROVE  /\ ledger' = ledger /\ command' = command
         /\ pending' = None <=> pending = None
         /\ pending # None => pending'.tid = pending.tid
         /\ pc' = "unlink-command" => pc = "unlink-command"
         /\ pc' # pc => pc' \notin {"status", "unlink-pending", "down"}
         /\ pc \in {"unlink-command", "status", "unlink-pending"} => pc' = pc
         /\ pc = "down" /\ pc' # "down" => pending = None \/ ~Settled(pending.tid)
         /\ pc \in {"status", "unlink-pending", "down"} => pending' = pending
<1>1. CASE Bridge
  BY <1>1, BridgeLeft DEF Left, SealTerminal
<1>2. CASE PollIdle \/ PollWait \/ ReadNothing \/ ReadIgnored \/ ShutdownIdle \/ Load
  BY <1>2 DEF PollIdle, PollWait, ReadNothing, ReadIgnored, ShutdownIdle, Load, files,
              Polling, Stopping
<1>3. CASE Device
  BY <1>3 DEF Device, Serve, ServeFaulty, Drift, Reboot, files, worker
<1>4. CASE UNCHANGED vars
  BY <1>4 DEF vars, files, worker
<1>. QED
  BY <1>1, <1>2, <1>3, <1>4 DEF Next, Worker, Bridge, Host, Terminated

\* What the bridge owns, the ledger knows.
LEMMA KnownStep == TypeInv /\ AdoptedIsLedgered /\ [Next]_vars => AdoptedIsLedgered'
<1> SUFFICES ASSUME TypeInv, AdoptedIsLedgered, [Next]_vars PROVE AdoptedIsLedgered'
  OBVIOUS
<1>1. /\ command # None => command.tid \in Txn
      /\ pending # None => pending.tid \in Txn
      /\ ledger \in [Txn -> [known : BOOLEAN, terminals : Seq(FactsType)]]
  BY DEF TypeInv, TypeOK, Maybe, PendingType
<1>2. CASE SealTerminal
  BY <1>2, SealStep DEF AdoptedIsLedgered
<1>3. CASE WriteStatus \/ LoadSettled \/ UnlinkCommand \/ UnlinkPending \/ Crash
  BY <1>3 DEF WriteStatus, LoadSettled, UnlinkCommand, UnlinkPending, Crash, files,
              AdoptedIsLedgered
<1>4. CASE PollAdopt \/ ShutdownAdopt
  BY <1>1, <1>4 DEF PollAdopt, ShutdownAdopt, Adopt, Fresh, AdoptedIsLedgered
<1>5. CASE \E t \in Txn, hz \in Rate, logged \in BOOLEAN : QueueRate(t, hz, logged)
  BY <1>5 DEF QueueRate, AdoptedIsLedgered
<1>. QED
  BY <1>1, <1>2, <1>3, <1>4, <1>5, Neutral DEF AdoptedIsLedgered

\* An adopted transaction is in the ledger, also when its operator died
\* before saying so (_adopt_queued), and it stays there.
THEOREM OwnsOnlyTheKnown == Spec => []AdoptedIsLedgered
<1>1. Init => AdoptedIsLedgered
  BY DEF Init, AdoptedIsLedgered
<1>. QED
  BY TypeInvariant, KnownStep, <1>1, PTL DEF Spec

\* Whoever owns a transaction, it has not ended yet, until it is sealed.
OnceInv ==
  /\ \A t \in Txn : Len(Terminals(t)) <= 1 /\ (Settled(t) => ledger[t].known)
  /\ command # None /\ pc # "unlink-command" => pending = None /\ ~Settled(command.tid)
  /\ pending # None /\ pc \notin {"status", "unlink-pending", "down"} => ~Settled(pending.tid)
  /\ pending # None /\ Settled(pending.tid) => pending.intent # None
  /\ pc = "unlink-pending" => pending.intent # None

LEMMA OnceStep ==
  ASSUME "unlink-command" \notin CrashPoints, ~IdReuse, TypeInv, AdoptedIsLedgered, OnceInv,
         [Next]_vars
  PROVE  OnceInv'
<1>1. /\ command # None => command.tid \in Txn
      /\ pending # None => pending.tid \in Txn
      /\ \A t \in Txn : Terminals(t) \in Seq(FactsType)
      /\ ledger \in [Txn -> [known : BOOLEAN, terminals : Seq(FactsType)]]
  BY DEF TypeInv, TypeOK, Maybe, PendingType, Terminals
<1>2. CASE SealTerminal
  <2>1. /\ pending # None /\ pending.tid \in Txn /\ pending.intent # None
        /\ pc = "seal" /\ pc' = "status" /\ pending' = pending /\ command' = command
    BY <1>2, SealStep DEF SealTerminal, TypeInv, Control
  <2>2. ledger[pending.tid].known /\ ledger[pending.tid].terminals = <<>> /\ command = None
    BY <2>1 DEF OnceInv, AdoptedIsLedgered, Settled
  <2>3. Len(ledger'[pending.tid].terminals) = 1
    <3>1. Len(ledger'[pending.tid].terminals) = Len(Terminals(pending.tid)) + 1
      BY <1>2, SealStep
    <3>. QED
      BY <2>2, <3>1 DEF Terminals
  <2>4. \A t \in Txn : Len(ledger'[t].terminals) <= 1
    BY <1>2, <2>3, SealStep DEF OnceInv, Terminals
  <2>5. \A t \in Txn : ledger'[t].terminals # <<>> => ledger'[t].known
    <3>1. \A t \in Txn : t # pending.tid => ledger'[t] = ledger[t]
      BY <1>2, SealStep
    <3>2. ledger'[pending.tid].known = ledger[pending.tid].known
      BY <1>2, <2>1, SealStep
    <3>. QED
      BY <2>1, <2>2, <3>1, <3>2, Zenon DEF OnceInv, Settled
  <2>. QED
    BY <2>1, <2>2, <2>4, <2>5 DEF OnceInv, Settled, Terminals
<1>3. CASE WriteStatus \/ LoadSettled
  BY <1>3 DEF OnceInv, WriteStatus, LoadSettled, TypeInv, Control, Settled, Terminals
<1>4. CASE UnlinkCommand
  BY <1>4 DEF OnceInv, UnlinkCommand, Settled, Terminals, TypeInv, TypeOK, Control
<1>5. CASE UnlinkPending
  BY <1>5 DEF OnceInv, UnlinkPending, Settled, Terminals, TypeInv, TypeOK, Control
<1>6. CASE Crash
  BY <1>6 DEF OnceInv, Crash, files, Settled, Terminals
<1>7. ASSUME NEW next \in {"poll", "shut"}, Adopt(next), pc # "unlink-command"
      PROVE  OnceInv'
  <2>1. /\ command # None /\ command' = command /\ ~Settled(command.tid)
        /\ pending' # None /\ pending'.tid = command.tid
    BY <1>7, AdoptTyped DEF Adopt, OnceInv, Fresh, TypeInv, Control
  <2>2. \A t \in Txn : /\ ledger'[t].terminals = Terminals(t)
                       /\ ledger[t].known => ledger'[t].known
    BY <1>1, <1>7 DEF Adopt, Terminals
  <2>. QED
    BY <1>1, <1>7, <2>1, <2>2 DEF OnceInv, Adopt, Settled, Terminals
<1>8. ASSUME NEW t \in Txn, NEW hz \in Rate, NEW logged \in BOOLEAN, QueueRate(t, hz, logged)
      PROVE  OnceInv'
  <2>1. /\ pending = None /\ pending' = None /\ pc' = pc
        /\ command' # None => command'.tid = t
        /\ ~Settled(t)
    BY <1>8 DEF QueueRate, OnceInv, worker
  <2>2. \A u \in Txn : /\ ledger'[u].terminals = Terminals(u)
                       /\ ledger[u].known => ledger'[u].known
    BY <1>1, <1>8 DEF QueueRate, Terminals
  <2>3. pc # "unlink-pending"
    BY <2>1 DEF TypeInv, Control
  <2>. QED
    BY <1>1, <2>1, <2>2, <2>3 DEF OnceInv, Settled, Terminals
<1>9. CASE /\ ~SealTerminal /\ ~WriteStatus /\ ~LoadSettled /\ ~UnlinkCommand
           /\ ~UnlinkPending /\ ~Crash /\ ~PollAdopt /\ ~ShutdownAdopt
           /\ ~\E t \in Txn, hz \in Rate, logged \in BOOLEAN : QueueRate(t, hz, logged)
  <2>1. /\ ledger' = ledger /\ command' = command
        /\ \A t : Settled(t)' <=> Settled(t)
    BY <1>9, Neutral DEF Settled
  <2>2. \A t \in Txn : Len(Terminals(t))' <= 1 /\ (Settled(t)' => ledger'[t].known)
    BY <2>1 DEF OnceInv, Terminals
  <2>3. command' # None /\ pc' # "unlink-command" => pending' = None /\ ~Settled(command'.tid)
    BY <1>9, <2>1, Neutral DEF OnceInv, Settled
  <2>4. pending' # None /\ pc' \notin {"status", "unlink-pending", "down"}
          => ledger[pending'.tid].terminals = <<>>
    BY <1>9, Neutral DEF OnceInv, Settled
  <2>5. pending' # None /\ ledger[pending'.tid].terminals # <<>> => pending'.intent # None
    BY <1>9, Neutral DEF OnceInv, Settled
  <2>6. pc' = "unlink-pending" => pending'.intent # None
    BY <1>9, Neutral DEF OnceInv
  <2>. QED
    BY <2>1, <2>2, <2>3, <2>4, <2>5, <2>6 DEF OnceInv, Settled, Terminals
<1>. QED
  BY <1>2, <1>3, <1>4, <1>5, <1>6, <1>7, <1>8, <1>9
     DEF PollAdopt, ShutdownAdopt, Polling, Stopping

LEMMA InitOnce == Init => OnceInv
BY DEF Init, OnceInv, Settled, Terminals

\* A transaction has at most one terminal event (SealTerminal against
\* _load_pending and _adopt_queued).
THEOREM EndsOnce ==
  ASSUME "unlink-command" \notin CrashPoints, ~IdReuse
  PROVE  Spec => []OneTerminal
<1>1. OnceInv => OneTerminal
  BY DEF OnceInv, OneTerminal, Terminals
<1>2. TypeInv /\ AdoptedIsLedgered /\ OnceInv /\ [Next]_vars => OnceInv'
  BY OnceStep
<1>. QED
  BY TypeInvariant, OwnsOnlyTheKnown, InitOnce, <1>1, <1>2, PTL DEF Spec

\* The pending file of an undecided transaction is never removed, however
\* often the process dies (_load_pending, _seal_terminal).
THEOREM NeverForgets ==
  ASSUME "unlink-command" \notin CrashPoints, ~IdReuse
  PROVE  Spec => UnresolvedNeverDropped
<1>1. TypeInv /\ AdoptedIsLedgered /\ OnceInv /\ [Next]_vars => OnceInv'
  BY OnceStep
<1>2. TypeInv /\ AdoptedIsLedgered /\ OnceInv /\ [Next]_vars
        => [pending # None /\ pending' = None => pending.intent # None]_vars
  <2> SUFFICES ASSUME TypeInv, AdoptedIsLedgered, OnceInv, [Next]_vars, pending # None, pending' = None
               PROVE  pending.intent # None
    OBVIOUS
  <2>1. CASE UnlinkPending
    BY <2>1 DEF UnlinkPending, OnceInv
  <2>2. ~SealTerminal /\ ~WriteStatus /\ ~LoadSettled /\ ~UnlinkCommand /\ ~Crash
    BY DEF SealTerminal, WriteStatus, LoadSettled, UnlinkCommand, Crash, files
  <2>3. ~PollAdopt /\ ~ShutdownAdopt
    BY DEF PollAdopt, ShutdownAdopt, Adopt
  <2>4. ~\E t \in Txn, hz \in Rate, logged \in BOOLEAN : QueueRate(t, hz, logged)
    BY DEF QueueRate
  <2>. QED
    BY <2>1, <2>2, <2>3, <2>4, Neutral
<1>. QED
  BY TypeInvariant, OwnsOnlyTheKnown, InitOnce, <1>1, <1>2, PTL DEF Spec, UnresolvedNeverDropped

-----------------------------------------------------------------------------
(* A mutation is not sent twice, when no process dies between the decision *)
(* to ask after it and the QUERY.                                          *)

\* What a transaction remembers of its mutations.
Remembers(s) ==
  /\ s.awaiting # None => s.awaiting[1] = s.phase
  /\ s.phase \in {"queued", "state-before"} => s.target = None
  /\ \A cid \in {s.target, s.awaiting} : cid # None /\ cid[1] = "restore" => cid[2] <= s.restores

\* The mutation of its phase was not asked after.
Unasked(s) ==
  /\ s.phase = "prepare" => s.target = None
  /\ s.phase = "apply" /\ s.target # None => s.target[1] = "prepare"

ResentInv == pending # None => Remembers(pending) /\ (pc # "query" => Unasked(pending))

LEMMA FinishRemembers ==
  ASSUME NEW s \in PendingType, Remembers(s), Unasked(s), NEW term, NEW next,
         Finish(s, term, next)
  PROVE  Remembers(pending') /\ Unasked(pending') /\ pending'.awaiting \in {None, s.awaiting}
<1>1. /\ pending'.phase = s.phase /\ pending'.awaiting = s.awaiting
      /\ pending'.target = s.target /\ pending'.restores = s.restores
  BY DEF Finish, PendingType
<1>. QED
  BY <1>1 DEF Remembers, Unasked

LEMMA BeginRestoreRemembers ==
  ASSUME NEW s \in PendingType, Remembers(s), Unasked(s), NEW next, BeginRestore(s, next)
  PROVE  Remembers(pending') /\ Unasked(pending') /\ pending'.awaiting \in {None, s.awaiting}
<1>1. CASE Finish(s, "rollback-failed", next)
  BY <1>1, FinishRemembers
<1>2. CASE Keep([s EXCEPT !.phase = "restore", !.awaiting = None], next)
  <2>1. /\ pending'.phase = "restore" /\ pending'.awaiting = None
        /\ pending'.target = s.target /\ pending'.restores = s.restores
    BY <1>2 DEF Keep, PendingType
  <2>. QED
    BY <2>1 DEF Remembers, Unasked
<1>. QED
  BY <1>1, <1>2 DEF BeginRestore

LEMMA FailForPhaseRemembers ==
  ASSUME NEW s \in PendingType, Remembers(s), Unasked(s), NEW phase, NEW verdict, NEW next,
         FailForPhase(s, phase, verdict, next)
  PROVE  Remembers(pending') /\ Unasked(pending') /\ pending'.awaiting \in {None, s.awaiting}
<1>1. BeginRestore(s, next) \/ \E term : Finish(s, term, next)
  BY DEF FailForPhase
<1>. QED
  BY <1>1, BeginRestoreRemembers, FinishRemembers

LEMMA UnretainedRemembers ==
  ASSUME NEW s \in PendingType, s.awaiting = None, Remembers(s), Unasked(s), NEW next,
         Unretained(s, next)
  PROVE  Remembers(pending') /\ Unasked(pending') /\ pending'.awaiting \in {None, s.awaiting}
<1>1. CASE Finish(s, "failed-safe", next)
  BY <1>1, FinishRemembers
<1>2. CASE Keep([s EXCEPT !.recovering = s.target[1], !.phase = "recover-state"], next)
  <2>1. /\ pending'.phase = "recover-state" /\ pending'.awaiting = None
        /\ pending'.target = s.target /\ pending'.restores = s.restores
    BY <1>2 DEF Keep, PendingType
  <2>. QED
    BY <2>1 DEF Remembers, Unasked
<1>. QED
  BY <1>1, <1>2 DEF Unretained

\* After a reply to its PREPARE, or to the QUERY for it, a transaction has
\* asked after nothing but that PREPARE.
LEMMA AdvanceRemembers ==
  ASSUME NEW s \in PendingType, s.awaiting = None, Remembers(s), Unasked(s),
         NEW phase \in Sends \ {"query"}, NEW r, Advance(s, phase, r),
         phase = "state-before" => s.target = None,
         phase = "prepare" /\ s.target # None => s.target[1] = "prepare"
  PROVE  Remembers(pending') /\ Unasked(pending') /\ pending'.awaiting \in {None, s.awaiting}
<1>1. CASE phase = "state-before"
  <2>1. Keep([s EXCEPT !.prior = r.hz, !.boot = r.boot, !.phase = "prepare"], "loop")
    BY <1>1 DEF Advance
  <2>2. pending'.phase = "prepare" /\ pending'.awaiting = None /\ pending'.target = None
    BY <1>1, <2>1 DEF Keep, PendingType
  <2>. QED
    BY <2>2 DEF Remembers, Unasked
<1>2. CASE phase = "prepare"
  <2>1. Keep([s EXCEPT !.phase = "apply"], "loop")
    BY <1>2 DEF Advance
  <2>2. /\ pending'.phase = "apply" /\ pending'.awaiting = None
        /\ pending'.target = s.target /\ pending'.restores = s.restores
    BY <2>1 DEF Keep, PendingType
  <2>. QED
    BY <1>2, <2>2 DEF Remembers, Unasked
<1>3. CASE phase = "apply"
  <2>1. Keep([s EXCEPT !.applied = <<r.boot, r.epoch>>, !.phase = "verify"], "loop")
    BY <1>3 DEF Advance
  <2>2. /\ pending'.phase = "verify" /\ pending'.awaiting = None
        /\ pending'.target = s.target /\ pending'.restores = s.restores
    BY <2>1 DEF Keep, PendingType
  <2>. QED
    BY <2>2 DEF Remembers, Unasked
<1>4. CASE phase = "restore"
  <2>1. Keep([s EXCEPT !.restored = <<r.boot, r.epoch>>, !.phase = "restore-verify"], "loop")
    BY <1>4 DEF Advance
  <2>2. /\ pending'.phase = "restore-verify" /\ pending'.awaiting = None
        /\ pending'.target = s.target /\ pending'.restores = s.restores
    BY <2>1 DEF Keep, PendingType
  <2>. QED
    BY <2>2 DEF Remembers, Unasked
<1>5. CASE phase \in {"verify", "recover-state", "restore-verify"}
  <2>1. BeginRestore(s, "loop") \/ \E term : Finish(s, term, "loop")
    BY <1>5 DEF Advance, RecoverState
  <2>. QED
    BY <2>1, BeginRestoreRemembers, FinishRemembers
<1>. QED
  BY <1>1, <1>2, <1>3, <1>4, <1>5 DEF Sends

LEMMA AcceptPhaseReplyRemembers ==
  ASSUME NEW s \in PendingType, s.awaiting = None, Remembers(s), Unasked(s),
         NEW phase \in Sends \ {"query"}, NEW r, AcceptPhaseReply(s, phase, r),
         phase = "state-before" => s.target = None,
         phase = "prepare" /\ s.target # None => s.target[1] = "prepare"
  PROVE  Remembers(pending') /\ Unasked(pending') /\ pending'.awaiting \in {None, s.awaiting}
<1>1. \/ Advance(s, phase, r) \/ \E term : Finish(s, term, "loop")
      \/ \E verdict : FailForPhase(s, phase, verdict, "loop")
  BY DEF AcceptPhaseReply
<1>. QED
  BY <1>1, AdvanceRemembers, FinishRemembers, FailForPhaseRemembers

LEMMA OnTimeoutRemembers ==
  ASSUME TypeInv, pending # None, pending.awaiting # None, Remembers(pending),
         Unasked(pending), OnTimeout("read")
  PROVE  /\ Remembers(pending') /\ (pc' # "query" => Unasked(pending'))
         /\ pending'.awaiting = None
<1> DEFINE s == [pending EXCEPT !.awaiting = None]
           asked == pending.awaiting
<1>1. s \in PendingType /\ s.awaiting = None
  BY Answered DEF TypeInv, Control, WellFormed
<1>2. /\ s.phase = pending.phase /\ s.target = pending.target
      /\ s.restores = pending.restores /\ asked[1] = pending.phase
  BY DEF TypeInv, TypeOK, Maybe, PendingType, Remembers
<1>3. Remembers(s) /\ Unasked(s)
  BY <1>1, <1>2 DEF Remembers, Unasked
<1>4. CASE AskAfter(s, asked, "read") /\ asked[1] \in {"prepare", "apply", "restore"}
  <2>1. /\ pending'.phase = s.phase /\ pending'.awaiting = None /\ pending'.target = asked
        /\ pending'.restores = s.restores /\ pc' = "query"
    BY <1>1, <1>4 DEF AskAfter, Keep, PendingType
  <2>. QED
    BY <1>2, <1>4, <2>1 DEF Remembers
<1>5. CASE Unretained(s, "read")
  BY <1>1, <1>3, <1>5, UnretainedRemembers
<1>6. CASE Unanswered(s, asked[1], "read")
  <2>1. BeginRestore(s, "read") \/ \E term : Finish(s, term, "read")
    BY <1>6 DEF Unanswered
  <2> HIDE DEF s
  <2>. QED
    BY <1>1, <1>3, <2>1, BeginRestoreRemembers, FinishRemembers
<1>. QED
  BY <1>4, <1>5, <1>6 DEF OnTimeout

LEMMA HandleReplyRemembers ==
  ASSUME TypeInv, pending # None, pending.awaiting # None, Remembers(pending),
         Unasked(pending), NEW r \in ReplyType, HandleReply(r)
  PROVE  Remembers(pending') /\ Unasked(pending') /\ pending'.awaiting = None
<1> DEFINE s == [pending EXCEPT !.awaiting = None, !.acked = @ \cup {r.cid}, !.epoch = r.epoch]
           asked == pending.awaiting
<1>1. pending \in PendingType /\ asked \in Cid /\ pending.target \in Maybe(Queried)
  BY DEF TypeInv, TypeOK, Maybe, PendingType
<1>2. s \in PendingType
  <2>1. pending.acked \cup {r.cid} \in SUBSET Cid /\ r.epoch \in Nat
    BY <1>1 DEF PendingType, ReplyType
  <2>. QED
    BY <1>1, <2>1, AnsweredType
<1>3. /\ s.phase = pending.phase /\ s.target = pending.target /\ s.awaiting = None
      /\ s.restores = pending.restores /\ asked[1] = pending.phase
  BY <1>1 DEF PendingType, Remembers
<1>4. Remembers(s) /\ Unasked(s)
  BY <1>3 DEF Remembers, Unasked
<1>5. CASE asked[1] = "query" /\ r.cid = asked
  <2>1. Unretained(s, "loop") \/ Finish(s, "rollback-failed", "loop")
    BY <1>5 DEF HandleReply
  <2> HIDE DEF s
  <2>. QED
    BY <1>2, <1>3, <1>4, <2>1, UnretainedRemembers, FinishRemembers
<1>6. CASE asked[1] = "query" /\ r.cid # asked
  <2>1. AcceptPhaseReply(s, s.target[1], r) /\ s.target # None
    BY <1>3, <1>6 DEF HandleReply, TypeInv, Control, WellFormed
  <2>2. s.target[1] \in {"prepare", "apply", "restore"}
    BY <1>1, <1>3, <2>1 DEF Maybe, Queried
  <2>3. s.target[1] \in Sends \ {"query"} /\ s.target[1] # "state-before"
    BY <2>2 DEF Sends
  <2> HIDE DEF s
  <2>. QED
    BY <1>2, <1>3, <1>4, <2>1, <2>3, AcceptPhaseReplyRemembers
<1>7. CASE asked[1] # "query"
  <2>1. AcceptPhaseReply(s, asked[1], r)
    BY <1>7 DEF HandleReply
  <2>2. asked[1] \in Sends \ {"query"}
    BY <1>1, <1>7 DEF Cid
  <2>3. /\ asked[1] = "state-before" => s.target = None
        /\ asked[1] = "prepare" => s.target = None
    BY <1>3, <1>4 DEF Remembers, Unasked
  <2> HIDE DEF s
  <2>. QED
    BY <1>2, <1>3, <1>4, <2>1, <2>2, <2>3, AcceptPhaseReplyRemembers
<1>. QED
  BY <1>5, <1>6, <1>7

\* What is sent is not what was asked after, unless that was just decided.
LEMMA SendPhaseRemembers ==
  ASSUME TypeInv, pending # None, Remembers(pending), NEW phase \in Sends, SendPhase(phase),
         phase = "state-before" => pending.target = None,
         phase # "query" => Unasked(pending) /\ phase \in {pending.phase, "state-before"}
  PROVE  /\ Remembers(pending') /\ Unasked(pending')
         /\ pending'.awaiting # pending.target
<1>1. pending \in PendingType /\ pending.target \in Maybe(Queried) /\ pending.restores \in Nat
  BY DEF TypeInv, TypeOK, Maybe, PendingType
<1> DEFINE x == pending.restores + (IF phase = "restore" THEN 1 ELSE 0)
           q == pending.queries + (IF phase = "query" THEN 1 ELSE 0)
           cid == CommandId(phase, IF phase = "query" THEN q ELSE x)
<1>2. pending' = [pending EXCEPT !.queries = q, !.restores = x, !.phase = phase,
                                 !.awaiting = cid]
  BY DEF SendPhase, Keep, Numbered
<1>3. x \in Nat /\ q \in Nat /\ pending.restores \in Nat /\ pending.restores <= x
      /\ (phase = "restore" => x = pending.restores + 1)
  BY <1>1 DEF PendingType
<1>4. cid \in Cid /\ cid[1] = phase /\ (phase = "restore" => cid[2] = x)
  BY <1>3 DEF CommandId, Cid
<1> HIDE DEF x, q, cid
<1>5. /\ pending'.phase = phase /\ pending'.awaiting = cid /\ pending'.restores = x
      /\ pending'.target = pending.target
  BY <1>1, <1>2 DEF PendingType
<1>6. Remembers(pending')
  <2>1. phase # "queued"
    BY DEF Sends
  <2>2. ASSUME pending.target # None, pending.target[1] = "restore"
        PROVE  pending.target[2] <= x
    <3>1. pending.target[2] <= pending.restores /\ pending.target[2] \in Nat
      BY <1>1, <2>2 DEF Remembers, Maybe, Queried
    <3>. QED
      BY <1>3, <3>1
  <2>3. phase = "restore" => cid[2] <= x
    BY <1>3, <1>4
  <2>. QED
    BY <1>4, <1>5, <2>1, <2>2, <2>3 DEF Remembers
<1>7. Unasked(pending')
  BY <1>5 DEF Unasked
<1>8. ASSUME cid = pending.target PROVE FALSE
  <2>1. cid # None /\ cid[1] \in {"prepare", "apply", "restore"}
    BY <1>1, <1>4, <1>8, NoneAssumption DEF Maybe, Queried
  <2>2. CASE phase \in {"prepare", "apply"}
    BY <1>4, <1>8, <2>1, <2>2 DEF Unasked
  <2>3. CASE phase = "restore"
    <3>1. cid[2] <= pending.restores
      BY <1>4, <1>8, <2>1, <2>3 DEF Remembers
    <3>. QED
      BY <1>3, <1>4, <2>3, <3>1
  <2>. QED
    BY <1>4, <2>1, <2>2, <2>3
<1>. QED
  BY <1>5, <1>6, <1>7, <1>8

LEMMA ResentStep ==
  ASSUME "query" \notin CrashPoints, TypeInv, ResentInv, [Next]_vars
  PROVE  /\ ResentInv'
         /\ pending # None /\ pending' # None /\ pending'.tid = pending.tid
            /\ pending'.awaiting # None /\ pending'.awaiting # pending.awaiting
              => pending'.awaiting # pending.target
<1>1. CASE PollSend
  <2> DEFINE phase == IF pending.phase = "queued" THEN "state-before" ELSE pending.phase
  <2>1. /\ pending # None /\ pc # "query" /\ SendPhase(phase) /\ phase \in Sends
        /\ Remembers(pending) /\ Unasked(pending)
    BY <1>1 DEF PollSend, Polling, ResentInv, TypeInv, TypeOK, Maybe, PendingType, Sends
  <2>2. phase = "state-before" => pending.target = None
    BY <2>1 DEF Remembers
  <2>3. phase \in {pending.phase, "state-before"}
    OBVIOUS
  <2> HIDE DEF phase
  <2>. QED
    BY <2>1, <2>2, <2>3, SendPhaseRemembers DEF ResentInv
<1>2. CASE SendQuery
  <2>1. pending # None /\ SendPhase("query") /\ "query" \in Sends /\ Remembers(pending)
    BY <1>2 DEF SendQuery, TypeInv, Control, ResentInv, Sends
  <2>. QED
    BY <2>1, SendPhaseRemembers DEF ResentInv
<1>3. CASE PollTimeout
  <2>1. /\ pending # None /\ pending.awaiting # None /\ OnTimeout("read")
        /\ Remembers(pending) /\ Unasked(pending)
    BY <1>3 DEF PollTimeout, Polling, ResentInv
  <2>. QED
    BY <2>1, OnTimeoutRemembers DEF ResentInv
<1>4. CASE ReadReply
  <2>1. /\ pending # None /\ pending.awaiting # None /\ HandleReply(Head(line))
        /\ Head(line) \in ReplyType /\ Remembers(pending) /\ Unasked(pending)
    BY <1>4 DEF ReadReply, Correlated, ResentInv, TypeInv, TypeOK
  <2>. QED
    BY <2>1, HandleReplyRemembers DEF ResentInv
<1>5. CASE ShutdownSeal
  <2>1. /\ pending \in PendingType /\ Remembers(pending) /\ Unasked(pending)
        /\ Finish(pending, ShutdownOutcome(pending), "stopped")
    BY <1>5 DEF ShutdownSeal, Stopping, ResentInv, TypeInv, TypeOK, Maybe
  <2>2. pending'.awaiting = pending.awaiting
    BY <2>1 DEF Finish, PendingType
  <2>. QED
    BY <2>1, <2>2, FinishRemembers DEF ResentInv
<1>6. CASE PollAdopt \/ ShutdownAdopt
  <2>1. pending = None /\ pending' = Fresh(command)
    BY <1>6 DEF PollAdopt, ShutdownAdopt, Adopt
  <2>. QED
    BY <2>1 DEF Fresh, ResentInv, Remembers, Unasked
<1>7. CASE UnlinkPending
  BY <1>7 DEF UnlinkPending, ResentInv
<1>8. CASE Crash
  BY <1>8 DEF Crash, ResentInv, files
<1>9. CASE /\ pending' = pending
           /\ pc = "query" => pc' = "query"
  BY <1>9 DEF ResentInv
<1>10. CASE \/ PollIdle \/ PollWait \/ ReadNothing \/ ReadIgnored \/ ShutdownIdle
            \/ Load \/ LoadSettled \/ SealTerminal \/ WriteStatus \/ UnlinkCommand
  BY <1>9, <1>10 DEF PollIdle, PollWait, ReadNothing, ReadIgnored, ShutdownIdle, Load,
     LoadSettled, SealTerminal, WriteStatus, UnlinkCommand, files, Polling, Stopping
<1>11. CASE \E t \in Txn, hz \in Rate, logged \in BOOLEAN : QueueRate(t, hz, logged)
  BY <1>9, <1>11 DEF QueueRate, worker
<1>12. CASE Device \/ UNCHANGED vars
  BY <1>9, <1>12 DEF Device, Serve, ServeFaulty, Drift, Reboot, vars, files, worker
<1>. QED
  BY <1>1, <1>2, <1>3, <1>4, <1>5, <1>6, <1>7, <1>8, <1>10, <1>11, <1>12
     DEF Next, Worker, Host, Terminated

\* A mutation without a reply is asked after and not sent again, whatever is
\* lost and whenever the process dies but before the QUERY (_send_phase,
\* poll and handle_reply of FirmwareControlBridge).
THEOREM AsksInstead ==
  ASSUME "query" \notin CrashPoints
  PROVE  Spec => NoMutationResent
<1>1. Init => ResentInv
  BY DEF Init, ResentInv
<1>2. TypeInv /\ ResentInv /\ [Next]_vars => ResentInv'
  BY ResentStep
<1>3. TypeInv /\ ResentInv /\ [Next]_vars
        => [pending # None /\ pending' # None /\ pending'.tid = pending.tid
            /\ pending'.awaiting # None /\ pending'.awaiting # pending.awaiting
              => pending'.awaiting # pending.target]_vars
  BY ResentStep
<1>. QED
  BY TypeInvariant, <1>1, <1>2, <1>3, PTL DEF Spec, NoMutationResent
=============================================================================

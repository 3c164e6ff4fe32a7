-------------------- MODULE FirmwareBridgeOutcome_proofs --------------------
(***************************************************************************)
(* What FirmwareBridge tells of the sensor: its steps by what they do to   *)
(* the transaction, the firmware's by what they do to a request, and that  *)
(* an outcome says what the firmware did.                                  *)
(***************************************************************************)
EXTENDS FirmwareBridge_proofs

-----------------------------------------------------------------------------
(* Every handler of the bridge goes from the transaction s, to which the   *)
(* answer or the timeout was noted, to one of three kinds of result.       *)

Carried(s) ==
  /\ pending' # None /\ pending'.tid = s.tid /\ pending'.hz = s.hz /\ pending'.acked = s.acked
  /\ pending'.queries = s.queries /\ pending'.restores = s.restores

\* An outcome was decided.
Ends(s, term) ==
  /\ Carried(s)
  /\ pending'.intent = term /\ pc' = "seal"
  /\ pending'.phase = s.phase /\ pending'.awaiting = s.awaiting /\ pending'.target = s.target
  /\ pending'.recovering = s.recovering /\ pending'.applied = s.applied
  /\ pending'.prior = s.prior /\ pending'.boot = s.boot /\ pending'.epoch = s.epoch

\* The next phase is to be sent.
Enters(s, phase) ==
  /\ Carried(s)
  /\ pending'.intent = s.intent /\ pc' \in {"loop", "read"}
  /\ pending'.phase = phase /\ pending'.awaiting = None /\ pending'.target = s.target
  /\ pending'.recovering = IF phase = "recover-state" THEN s.target[1] ELSE s.recovering
  /\ phase # "verify" => pending'.applied = s.applied

\* A mutation is to be asked after.
Asks(s, cid) ==
  /\ Carried(s)
  /\ pending'.intent = s.intent /\ pc' = "query"
  /\ pending'.phase = s.phase /\ pending'.awaiting = s.awaiting /\ pending'.target = cid
  /\ pending'.recovering = s.recovering /\ pending'.applied = s.applied

LEMMA FinishEnds ==
  ASSUME NEW s \in PendingType, NEW term, NEW next, Finish(s, term, next), pending' # None
  PROVE  Ends(s, term)
BY DEF Finish, PendingType, Ends, Carried

LEMMA BeginRestoreResult ==
  ASSUME NEW s \in PendingType, NEW next \in {"loop", "read"}, BeginRestore(s, next),
         pending' # None
  PROVE  Ends(s, "rollback-failed") \/ Enters(s, "restore")
<1>1. CASE Finish(s, "rollback-failed", next)
  BY <1>1, FinishEnds
<1>2. CASE Keep([s EXCEPT !.phase = "restore", !.awaiting = None], next)
  BY <1>2 DEF Keep, PendingType, Enters, Carried
<1>. QED
  BY <1>1, <1>2 DEF BeginRestore

LEMMA UnretainedResult ==
  ASSUME NEW s \in PendingType, s.awaiting = None, NEW next \in {"loop", "read"},
         Unretained(s, next), pending' # None
  PROVE  \/ s.target[1] = "prepare" /\ Ends(s, "failed-safe")
         \/ s.target[1] # "prepare" /\ Enters(s, "recover-state")
<1>1. CASE s.target[1] = "prepare"
  BY <1>1, FinishEnds DEF Unretained
<1>2. CASE s.target[1] # "prepare"
  <2>1. Keep([s EXCEPT !.recovering = s.target[1], !.phase = "recover-state"], next)
    BY <1>2 DEF Unretained
  <2>. QED
    BY <1>2, <2>1 DEF Keep, PendingType, Enters, Carried
<1>. QED
  BY <1>1, <1>2

Mutation == {"prepare", "apply", "restore"}

\* What a deadline that passed leads to.
Expired(s, asked) ==
  \/ asked[1] \in Mutation /\ Asks(s, asked)
  \/ asked[1] = "query" /\ s.target[1] = "prepare" /\ Ends(s, "failed-safe")
  \/ asked[1] = "query" /\ s.target[1] # "prepare" /\ Enters(s, "recover-state")
  \/ asked[1] = "state-before" /\ Ends(s, "failed-safe")
  \/ asked[1] = "verify" /\ Enters(s, "restore")
  \/ asked[1] \notin Mutation /\ Ends(s, "rollback-failed")

LEMMA TimeoutResult ==
  ASSUME NEW s \in PendingType, s = [pending EXCEPT !.awaiting = None], s.awaiting = None,
         s.target = pending.target, OnTimeout("read"), pending' # None
  PROVE  Expired(s, pending.awaiting)
<1> DEFINE asked == pending.awaiting
<1>1. CASE asked[1] = "query"
  <2>1. Unretained(s, "read")
    BY <1>1 DEF OnTimeout
  <2>. QED
    BY <1>1, <2>1, UnretainedResult DEF Expired
<1>2. CASE asked[1] \in Mutation
  <2>1. Keep([s EXCEPT !.target = asked], "query")
    BY <1>2 DEF OnTimeout, AskAfter, Mutation
  <2>2. Asks(s, asked)
    BY <2>1 DEF Keep, PendingType, Asks, Carried
  <2>. QED
    BY <1>2, <2>2 DEF Expired
<1>3. CASE asked[1] \notin Mutation \cup {"query"}
  <2>1. Unanswered(s, asked[1], "read")
    BY <1>3 DEF OnTimeout, Mutation
  <2>2. \/ asked[1] = "state-before" /\ Finish(s, "failed-safe", "read")
        \/ asked[1] = "verify" /\ BeginRestore(s, "read")
        \/ Finish(s, "rollback-failed", "read")
    BY <2>1 DEF Unanswered
  <2>. QED
    BY <1>3, <2>2, FinishEnds, BeginRestoreResult DEF Expired
<1>. QED
  BY <1>1, <1>2, <1>3

\* What an accepted or refused answer r of the phase leads to.
Judged(s, phase, r) ==
  \/ Ends(s, "rollback-failed")
  \/ phase \in {"state-before", "prepare"} /\ Ends(s, "failed-safe")
  \/ /\ phase = "apply" /\ (r.op # "apply" \/ r.verdict \notin {"uncertain", "applied"})
     /\ Ends(s, "failed-safe")
  \/ /\ phase = "recover-state" /\ s.recovering # "restore" /\ r.hz = s.prior /\ r.boot = s.boot
     /\ ~(IsDesired(s, r) /\ s.recovering = "apply") /\ Ends(s, "failed-safe")
  \/ /\ phase \in {"verify", "recover-state"} /\ r.boot = s.boot /\ IsDesired(s, r)
     /\ Ends(s, "committed")
  \/ /\ phase \in {"recover-state", "restore-verify"} /\ r.boot = s.boot /\ r.hz = s.prior
     /\ Ends(s, "rolled-back")
  \/ phase \in {"apply", "verify", "recover-state"} /\ Enters(s, "restore")
  \/ phase = "state-before" /\ Enters(s, "prepare")
  \/ phase = "prepare" /\ Enters(s, "apply")
  \/ /\ phase = "apply" /\ r.verdict = "applied" /\ Enters(s, "verify")
     /\ pending'.applied = <<r.boot, r.epoch>>
  \/ phase = "restore" /\ Enters(s, "restore-verify")

LEMMA AdvanceResult ==
  ASSUME NEW s \in PendingType, s.awaiting = None, NEW phase \in Sends \ {"query"},
         NEW r \in ReplyType, phase # "state-before" => r.boot = s.boot,
         r.verdict = Accepted(phase), Advance(s, phase, r), pending' # None
  PROVE  Judged(s, phase, r)
<1>1. CASE phase = "state-before"
  <2>1. Keep([s EXCEPT !.prior = r.hz, !.boot = r.boot, !.phase = "prepare"], "loop")
    BY <1>1 DEF Advance
  <2>2. Enters(s, "prepare")
    BY <2>1 DEF Keep, PendingType, Enters, Carried
  <2>. QED
    BY <1>1, <2>2 DEF Judged
<1>2. CASE phase = "prepare"
  <2>1. Keep([s EXCEPT !.phase = "apply"], "loop")
    BY <1>2 DEF Advance
  <2>2. Enters(s, "apply")
    BY <2>1 DEF Keep, PendingType, Enters, Carried
  <2>. QED
    BY <1>2, <2>2 DEF Judged
<1>3. CASE phase = "apply"
  <2>1. Keep([s EXCEPT !.applied = <<r.boot, r.epoch>>, !.phase = "verify"], "loop")
    BY <1>3 DEF Advance
  <2>2. Enters(s, "verify") /\ pending'.applied = <<r.boot, r.epoch>>
    BY <2>1 DEF Keep, PendingType, Enters, Carried
  <2>3. r.verdict = "applied"
    BY <1>3 DEF Accepted
  <2>. QED
    BY <1>3, <2>2, <2>3 DEF Judged
<1>4. CASE phase = "verify"
  <2>1. \/ IsDesired(s, r) /\ Finish(s, "committed", "loop")
        \/ BeginRestore(s, "loop")
    BY <1>4 DEF Advance
  <2>. QED
    BY <1>4, <2>1, FinishEnds, BeginRestoreResult DEF Judged
<1>5. CASE phase = "recover-state"
  <2>1. RecoverState(s, r)
    BY <1>5 DEF Advance
  <2>2. CASE IsDesired(s, r) /\ s.recovering = "apply"
    <3>1. Finish(s, "committed", "loop")
      BY <2>1, <2>2 DEF RecoverState
    <3>2. Ends(s, "committed")
      BY <3>1, FinishEnds
    <3>. QED
      BY <1>5, <2>2, <3>2 DEF Judged
  <2>3. CASE ~(IsDesired(s, r) /\ s.recovering = "apply") /\ r.hz = s.prior
    <3>1. \/ s.recovering = "restore" /\ Finish(s, "rolled-back", "loop")
          \/ s.recovering # "restore" /\ Finish(s, "failed-safe", "loop")
      BY <2>1, <2>3 DEF RecoverState
    <3>. QED
      BY <1>5, <2>3, <3>1, FinishEnds DEF Judged
  <2>4. CASE ~(IsDesired(s, r) /\ s.recovering = "apply") /\ r.hz # s.prior
    <3>1. BeginRestore(s, "loop")
      BY <2>1, <2>4 DEF RecoverState
    <3>. QED
      BY <1>5, <3>1, BeginRestoreResult DEF Judged
  <2>. QED
    BY <2>2, <2>3, <2>4
<1>6. CASE phase = "restore"
  <2>1. Keep([s EXCEPT !.restored = <<r.boot, r.epoch>>, !.phase = "restore-verify"], "loop")
    BY <1>6 DEF Advance
  <2>2. Enters(s, "restore-verify")
    BY <2>1 DEF Keep, PendingType, Enters, Carried
  <2>. QED
    BY <1>6, <2>2 DEF Judged
<1>7. CASE phase = "restore-verify"
  <2>1. \/ r.hz = s.prior /\ Finish(s, "rolled-back", "loop")
        \/ Finish(s, "rollback-failed", "loop")
    BY <1>7 DEF Advance, RestoreHolds
  <2>. QED
    BY <1>7, <2>1, FinishEnds DEF Judged
<1>. QED
  BY <1>1, <1>2, <1>3, <1>4, <1>5, <1>6, <1>7 DEF Sends

LEMMA FailForPhaseResult ==
  ASSUME NEW s \in PendingType, NEW phase, NEW r, NEW verdict,
         r.op # "apply" \/ (verdict = r.verdict /\ r.verdict # Accepted(phase)),
         FailForPhase(s, phase, verdict, "loop"), pending' # None
  PROVE  Judged(s, phase, r)
<1>1. \/ phase \in {"state-before", "prepare"} /\ Finish(s, "failed-safe", "loop")
      \/ phase = "apply" /\ verdict # "uncertain" /\ Finish(s, "failed-safe", "loop")
      \/ phase \in {"apply", "verify", "recover-state"} /\ BeginRestore(s, "loop")
      \/ Finish(s, "rollback-failed", "loop")
  BY DEF FailForPhase
<1>. QED
  BY <1>1, FinishEnds, BeginRestoreResult DEF Judged, Accepted

LEMMA AcceptResult ==
  ASSUME NEW s \in PendingType, s.awaiting = None, NEW phase \in Sends \ {"query"},
         NEW r \in ReplyType, AcceptPhaseReply(s, phase, r), pending' # None
  PROVE  Judged(s, phase, r)
<1>1. CASE r.op # Expected(phase)
  <2>1. FailForPhase(s, phase, "unexpected", "loop")
    BY <1>1 DEF AcceptPhaseReply
  <2>2. CASE phase = "apply"
    <3>1. r.op # "apply"
      BY <1>1, <2>2 DEF Expected
    <3>. QED
      BY <2>1, <3>1, FailForPhaseResult
  <2>3. CASE phase # "apply"
    <3>1. \/ phase \in {"state-before", "prepare"} /\ Finish(s, "failed-safe", "loop")
          \/ phase \in {"verify", "recover-state"} /\ BeginRestore(s, "loop")
          \/ Finish(s, "rollback-failed", "loop")
      BY <2>1, <2>3 DEF FailForPhase
    <3>. QED
      BY <3>1, FinishEnds, BeginRestoreResult DEF Judged
  <2>. QED
    BY <2>2, <2>3
<1>2. CASE r.op = Expected(phase) /\ phase # "state-before" /\ r.boot # s.boot
  <2>1. \/ phase = "prepare" /\ Finish(s, "failed-safe", "loop")
        \/ Finish(s, "rollback-failed", "loop")
    BY <1>2 DEF AcceptPhaseReply
  <2>. QED
    BY <2>1, FinishEnds DEF Judged
<1>3. CASE /\ r.op = Expected(phase) /\ (phase = "state-before" \/ r.boot = s.boot)
           /\ r.verdict # Accepted(phase)
  <2>1. FailForPhase(s, phase, r.verdict, "loop")
    BY <1>3 DEF AcceptPhaseReply
  <2>. QED
    BY <1>3, <2>1, FailForPhaseResult
<1>4. CASE /\ r.op = Expected(phase) /\ (phase = "state-before" \/ r.boot = s.boot)
           /\ r.verdict = Accepted(phase)
  <2>1. Advance(s, phase, r)
    BY <1>4 DEF AcceptPhaseReply
  <2>. QED
    BY <1>4, <2>1, AdvanceResult
<1>. QED
  BY <1>1, <1>2, <1>3, <1>4

\* The phase an answer is about, and what the answer r leads to.
About(s, asked) == IF asked[1] = "query" THEN s.target[1] ELSE asked[1]

Replied(s, asked, r) ==
  \/ asked[1] = "query" /\ r.cid = asked /\ s.target[1] = "prepare" /\ Ends(s, "failed-safe")
  \/ asked[1] = "query" /\ r.cid = asked /\ s.target[1] # "prepare" /\ Enters(s, "recover-state")
  \/ asked[1] = "query" /\ r.cid = asked /\ Ends(s, "rollback-failed")
  \/ ~(asked[1] = "query" /\ r.cid = asked) /\ Judged(s, About(s, asked), r)

\* The transaction that has noted an answer r.
Heeded(s, r) == [s EXCEPT !.awaiting = None, !.acked = @ \cup {r.cid}, !.epoch = r.epoch]

LEMMA HeededFields ==
  ASSUME NEW s \in PendingType, NEW r \in ReplyType
  PROVE  LET x == Heeded(s, r)
         IN /\ x \in PendingType /\ x.awaiting = None /\ x.acked = s.acked \cup {r.cid}
            /\ x.epoch = r.epoch /\ x.tid = s.tid /\ x.hz = s.hz /\ x.phase = s.phase
            /\ x.queries = s.queries /\ x.restores = s.restores /\ x.target = s.target
            /\ x.recovering = s.recovering /\ x.prior = s.prior /\ x.boot = s.boot
            /\ x.applied = s.applied /\ x.intent = s.intent
<1>1. s.acked \cup {r.cid} \in SUBSET Cid /\ r.epoch \in Nat
  BY DEF PendingType, ReplyType
<1>2. Heeded(s, r) \in PendingType
  BY <1>1, AnsweredType DEF Heeded
<1>. QED
  BY <1>2 DEF Heeded, PendingType

LEMMA ReplyResult ==
  ASSUME TypeInv, pending # None, pending.awaiting # None, NEW r \in ReplyType,
         HandleReply(r), pending' # None
  PROVE  Replied(Heeded(pending, r), pending.awaiting, r)
<1> DEFINE asked == pending.awaiting
<1> SUFFICES ASSUME NEW s, s = Heeded(pending, r) PROVE Replied(s, asked, r)
  OBVIOUS
<1>1. pending \in PendingType /\ WellFormed(pending) /\ asked \in Cid
  BY DEF TypeInv, TypeOK, Control, Maybe, PendingType
<1>2. s \in PendingType /\ s.awaiting = None /\ s.target = pending.target
  BY <1>1, HeededFields
<1>3. asked[1] = "query" => s.target # None /\ s.target[1] \in Mutation
  BY <1>1, <1>2 DEF WellFormed, PendingType, Maybe, Queried, Mutation
<1>4. CASE asked[1] = "query" /\ r.cid = asked
  <2>1. Unretained(s, "loop") \/ Finish(s, "rollback-failed", "loop")
    BY <1>4 DEF HandleReply, Heeded
  <2>. QED
    BY <1>2, <1>4, <2>1, UnretainedResult, FinishEnds DEF Replied
<1>5. CASE asked[1] = "query" /\ r.cid # asked
  <2>1. AcceptPhaseReply(s, s.target[1], r) /\ s.target[1] \in Sends \ {"query"}
    BY <1>2, <1>3, <1>5 DEF HandleReply, Heeded, Mutation, Sends
  <2>2. Judged(s, s.target[1], r)
    BY <1>2, <2>1, AcceptResult
  <2>. QED
    BY <1>5, <2>2 DEF Replied, About
<1>6. CASE asked[1] # "query"
  <2>1. AcceptPhaseReply(s, asked[1], r) /\ asked[1] \in Sends \ {"query"}
    BY <1>1, <1>6 DEF HandleReply, Heeded, Cid
  <2>2. Judged(s, asked[1], r)
    BY <1>2, <2>1, AcceptResult
  <2>. QED
    BY <1>6, <2>2 DEF Replied, About
<1>. QED
  BY <1>4, <1>5, <1>6

\* A phase was sent.
Sent(s, phase) ==
  /\ pending' # None /\ pending'.tid = s.tid /\ pending'.hz = s.hz /\ pending'.acked = s.acked
  /\ pending'.queries = s.queries + (IF phase = "query" THEN 1 ELSE 0)
  /\ pending'.restores = s.restores + (IF phase = "restore" THEN 1 ELSE 0)
  /\ pending'.phase = phase /\ pending'.target = s.target
  /\ pending'.awaiting = CommandId(phase, IF phase = "query" THEN pending'.queries
                                          ELSE pending'.restores)
  /\ pending'.recovering = s.recovering /\ pending'.applied = s.applied
  /\ pending'.intent = s.intent /\ pc' = "read"

LEMMA SendResult ==
  ASSUME NEW phase, pending \in PendingType, SendPhase(phase), pending' # None
  PROVE  Sent(pending, phase)
<1> DEFINE q == pending.queries + (IF phase = "query" THEN 1 ELSE 0)
           x == pending.restores + (IF phase = "restore" THEN 1 ELSE 0)
           cid == CommandId(phase, IF phase = "query" THEN q ELSE x)
<1>1. /\ pending' = [pending EXCEPT !.queries = q, !.restores = x, !.phase = phase,
                                    !.awaiting = cid]
      /\ pc' = "read"
  BY DEF SendPhase, Keep, Numbered
<1> HIDE DEF q, x, cid
<1>2. /\ pending'.queries = q /\ pending'.restores = x /\ pending'.phase = phase
      /\ pending'.awaiting = cid /\ pending'.tid = pending.tid /\ pending'.hz = pending.hz
      /\ pending'.acked = pending.acked /\ pending'.target = pending.target
      /\ pending'.recovering = pending.recovering /\ pending'.applied = pending.applied
      /\ pending'.intent = pending.intent
  BY <1>1 DEF PendingType
<1>. QED
  BY <1>1, <1>2 DEF Sent, q, x, cid

-----------------------------------------------------------------------------
(* The steps of the system, by what they do to the transaction.            *)

\* The sending ones.
Sending(phase) ==
  /\ pending # None /\ pending' # None /\ phase \in Sends /\ Sent(pending, phase)
  /\ wire' \in Transmit(wire, Request(pending')) /\ pending'.awaiting # None
  /\ UNCHANGED <<device, line, ledger>>

PollSends == 
  /\ Polling /\ pending.awaiting = None
  /\ \E phase \in Sends : /\ Sending(phase)
                          /\ pending.phase = "queued" => phase = "state-before"
                          /\ pending.phase # "queued" => phase = pending.phase

QuerySends == pc = "query" /\ Sending("query")

LEMMA SendSteps ==
  ASSUME TypeInv
  PROVE  /\ PollSend => PollSends
         /\ SendQuery => QuerySends
<1>1. ASSUME NEW phase \in Sends, pending # None, SendPhase(phase),
             phase = "query" => pending.target # None,
             phase = "restore" => pending.prior # None, UNCHANGED <<ledger, device, line>>
      PROVE  Sending(phase)
  <2>1. pending \in PendingType /\ pending' # None /\ WellFormed(pending)
    BY <1>1, SendPhaseTyped DEF Left, TypeInv, Control, TypeOK, Maybe
  <2>2. Sent(pending, phase)
    BY <1>1, <2>1, SendResult
  <2>3. wire' \in Transmit(wire, Request(pending'))
    BY <1>1 DEF SendPhase, Keep
  <2>4. pending'.awaiting # None
    <3>1. Numbered(pending, phase).awaiting \in Cid
      BY <1>1, <2>1, NumberedWellFormed
    <3>2. pending' = Numbered(pending, phase)
      BY <1>1 DEF SendPhase, Keep
    <3>. QED
      BY <3>1, <3>2, NoneAssumption
  <2>. QED
    BY <1>1, <2>1, <2>2, <2>3, <2>4 DEF Sending
<1>2. ASSUME PollSend PROVE PollSends
  <2> DEFINE phase == IF pending.phase = "queued" THEN "state-before" ELSE pending.phase
  <2>1. pending # None /\ WellFormed(pending) /\ pending \in PendingType
    BY <1>2 DEF PollSend, TypeInv, Control, WellFormed
  <2>2. /\ phase \in Sends /\ SendPhase(phase) /\ UNCHANGED <<ledger, device, line>>
        /\ Polling /\ pending.awaiting = None
    BY <1>2, <2>1 DEF PollSend, PendingType, Sends
  <2>3. /\ phase = "query" => pending.target # None
        /\ phase = "restore" => pending.prior # None
    BY <2>1 DEF WellFormed
  <2>4. Sending(phase)
    BY <1>1, <2>1, <2>2, <2>3
  <2>. QED
    BY <2>2, <2>4 DEF PollSends
<1>3. ASSUME SendQuery PROVE QuerySends
  <2>1. pending # None /\ pending.target # None /\ SendPhase("query") /\ "query" \in Sends
        /\ pc = "query" /\ UNCHANGED <<ledger, device, line>>
    BY <1>3 DEF SendQuery, TypeInv, Control, Sends
  <2>. QED
    BY <1>1, <2>1 DEF QuerySends
<1>. QED
  BY <1>2, <1>3

\* A deadline passed.
Cleared(s) == [s EXCEPT !.awaiting = None]

LEMMA ClearedFields ==
  ASSUME NEW s \in PendingType
  PROVE  LET x == Cleared(s)
         IN /\ x \in PendingType /\ x.awaiting = None /\ x.acked = s.acked
            /\ x.epoch = s.epoch /\ x.tid = s.tid /\ x.hz = s.hz /\ x.phase = s.phase
            /\ x.queries = s.queries /\ x.restores = s.restores /\ x.target = s.target
            /\ x.recovering = s.recovering /\ x.prior = s.prior /\ x.boot = s.boot
            /\ x.applied = s.applied /\ x.intent = s.intent
BY DEF Cleared, PendingType, Maybe

TimesOut ==
  /\ Polling /\ pending # None /\ pending.awaiting # None
  /\ Expired(Cleared(pending), pending.awaiting)
  /\ UNCHANGED <<link, ledger>>

\* An answer to the transaction came.
Hears(r) ==
  /\ pc = "read" /\ pending # None /\ Correlated(pending, r)
  /\ line # <<>> /\ r = Head(line) /\ r \in ReplyType /\ line' = Tail(line)
  /\ Replied(Heeded(pending, r), pending.awaiting, r)
  /\ UNCHANGED <<wire, device, ledger>>

\* The worker stops with a transaction in flight.
Stops ==
  /\ Stopping /\ pending # None
  /\ Ends(pending, ShutdownOutcome(pending))
  /\ UNCHANGED <<link, ledger>>

LEMMA TimeoutSteps == TypeInv /\ PollTimeout => TimesOut
<1> SUFFICES ASSUME TypeInv, PollTimeout PROVE TimesOut
  OBVIOUS
<1>1. /\ pending \in PendingType /\ pending # None /\ pending.awaiting # None
      /\ WellFormed(pending) /\ then \in Then /\ OnTimeout("read")
  BY DEF PollTimeout, TypeInv, TypeOK, Control, Maybe, Then
<1>2. pending' # None
  BY <1>1, OnTimeoutLeft DEF Left
<1>3. SUFFICES ASSUME NEW s, s = Cleared(pending) PROVE Expired(s, pending.awaiting)
  BY <1>1 DEF PollTimeout, TimesOut
<1>4. s \in PendingType /\ s.awaiting = None /\ s.target = pending.target
  BY <1>1, <1>3, ClearedFields
<1>. QED
  BY <1>1, <1>2, <1>3, <1>4, TimeoutResult DEF Cleared

LEMMA ReplySteps == TypeInv /\ ReadReply => \E r \in ReplyType : Hears(r)
<1> SUFFICES ASSUME TypeInv, ReadReply PROVE Hears(Head(line)) /\ Head(line) \in ReplyType
  OBVIOUS
<1>1. /\ pending # None /\ line # <<>> /\ Head(line) \in ReplyType
      /\ Correlated(pending, Head(line)) /\ HandleReply(Head(line))
  BY DEF ReadReply, TypeInv, TypeOK
<1>2. pending.awaiting # None
  BY <1>1 DEF Correlated
<1>3. pending' # None
  BY <1>1, <1>2, HandleReplyLeft DEF Left, TypeInv, Control, TypeOK, Then, Correlated
<1>4. Replied(Heeded(pending, Head(line)), pending.awaiting, Head(line))
  BY <1>1, <1>2, <1>3, ReplyResult
<1>. QED
  BY <1>1, <1>4 DEF ReadReply, Hears

LEMMA StopSteps == TypeInv /\ ShutdownSeal => Stops
<1> SUFFICES ASSUME TypeInv, ShutdownSeal PROVE Stops
  OBVIOUS
<1>1. pending \in PendingType /\ pending # None /\ Finish(pending, ShutdownOutcome(pending), "stopped")
  BY DEF ShutdownSeal, TypeInv, TypeOK, Maybe
<1>2. pending' # None
  BY <1>1, BridgeLeft DEF Bridge, Left
<1>. QED
  BY <1>1, <1>2, FinishEnds DEF ShutdownSeal, Stops

Adopts ==
  /\ pending = None /\ command # None /\ pending' = Fresh(command)
  /\ pc \in {"loop", "poll", "shut"} /\ pc' = "unlink-command"
  /\ \A t \in Txn : ledger'[t].terminals = ledger[t].terminals
  /\ UNCHANGED link

Closing == {"seal", "status", "unlink-pending", "down"}

\* Nothing happens to the transaction; a line may have been read.
Idles ==
  /\ pending' = pending
  /\ line' = line \/ (line # <<>> /\ line' = Tail(line))
  /\ \A t \in Txn : ledger'[t].terminals = ledger[t].terminals
  /\ UNCHANGED <<wire, device>>
  /\ pc' = "query" => pc = "query"
  /\ pc = "query" => pc' = "query" \/ "query" \in CrashPoints
  /\ pc' = "status" => pc = "status"
  /\ pc' = "unlink-pending" => pc \in {"status", "unlink-pending"} \/ Settled(pending.tid)
  /\ pending # None /\ pending.intent # None /\ pc \in Closing => pc' \in Closing

LEMMA IdleSteps ==
  ASSUME TypeInv, \/ PollIdle \/ PollWait \/ ReadNothing \/ ReadIgnored \/ ShutdownIdle
                  \/ WriteStatus \/ LoadSettled \/ Load \/ UnlinkCommand \/ Crash
                  \/ UNCHANGED vars
                  \/ \E t \in Txn, hz \in Rate, logged \in BOOLEAN : QueueRate(t, hz, logged)
  PROVE  Idles
<1>1. CASE PollIdle \/ PollWait \/ ReadNothing \/ ShutdownIdle
  BY <1>1 DEF PollIdle, PollWait, ReadNothing, ShutdownIdle, files, link, Idles, Polling,
              Stopping, Closing
<1>2. CASE ReadIgnored
  BY <1>2 DEF ReadIgnored, files, Idles, Closing
<1>3. CASE WriteStatus \/ LoadSettled \/ Load
  BY <1>3 DEF WriteStatus, LoadSettled, Load, files, link, Idles, Closing
<1>4. CASE UnlinkCommand
  BY <1>4 DEF UnlinkCommand, link, Idles, Closing, TypeInv, TypeOK
<1>5. CASE Crash
  BY <1>5 DEF Crash, files, link, Idles, Closing
<1>6. CASE UNCHANGED vars
  BY <1>6 DEF vars, files, worker, link, Idles, Closing
<1>7. ASSUME NEW t \in Txn, NEW hz \in Rate, NEW logged \in BOOLEAN, QueueRate(t, hz, logged)
      PROVE  Idles
  <2>1. \A u \in Txn : ledger'[u].terminals = ledger[u].terminals
    BY <1>7 DEF QueueRate, TypeInv, TypeOK
  <2>. QED
    BY <1>7, <2>1 DEF QueueRate, worker, link, Idles, Closing
<1>. QED
  BY <1>1, <1>2, <1>3, <1>4, <1>5, <1>6, <1>7

\* The firmware answers the first request of the line; the answer f it gives
\* is the true one unless it is faulty.
Malformed(r) == [r EXCEPT !.op = "odd", !.verdict = "refused"]

Serves(o, f) ==
  /\ wire # <<>> /\ wire' = Tail(wire)
  /\ o \in Outcomes(device, Head(wire)) /\ device' = o.device
  /\ o.device \in DeviceType /\ o.reply \in ReplyType
  /\ f = o.reply \/ (f = Malformed(o.reply) /\ budget["faults"] > 0)
  /\ line' \in Transmit(line, f)
  /\ UNCHANGED <<files, worker>>

Wanders(hz) ==
  /\ device' = Moved(device, hz, None) \/ device' = Boot(device.boot + 1, hz)
  /\ UNCHANGED <<files, worker, wire, line>>

LEMMA DeviceSteps ==
  ASSUME TypeInv, Device
  PROVE  (\E o, f : Serves(o, f)) \/ \E hz \in Rate : Wanders(hz)
<1>1. ASSUME wire # <<>>, NEW o \in Outcomes(device, Head(wire))
      PROVE  o.device \in DeviceType /\ o.reply \in ReplyType
  <2>1. WireRates(wire) /\ device \in DeviceType
    BY DEF TypeInv, TypeOK, Control, WireRates
  <2>2. /\ Head(wire) \in RequestType
        /\ Head(wire).op \in {"prepare", "restore"} => Head(wire).hz # None
    BY <1>1, <2>1, TailTyped DEF WireRates
  <2>. QED
    BY <1>1, <2>1, <2>2, OutcomesTyped
<1>2. CASE Serve
  <2>1. PICK o \in Outcomes(device, Head(wire)) :
          device' = o.device /\ line' \in Transmit(line, o.reply)
    BY <1>2 DEF Serve
  <2>2. Serves(o, o.reply)
    BY <1>1, <1>2, <2>1 DEF Serve, Serves
  <2>. QED
    BY <2>2
<1>3. CASE ServeFaulty
  <2>1. PICK o \in Outcomes(device, Head(wire)) :
          device' = o.device /\ line' \in Transmit(line, Malformed(o.reply))
    BY <1>3 DEF ServeFaulty, Malformed
  <2>2. Serves(o, Malformed(o.reply))
    BY <1>1, <1>3, <2>1 DEF ServeFaulty, Serves, Spend
  <2>. QED
    BY <2>2
<1>4. ASSUME NEW hz \in Rate, Drift(hz) \/ Reboot(hz)
      PROVE  Wanders(hz)
  BY <1>4 DEF Drift, Reboot, Wanders
<1>. QED
  BY <1>2, <1>3, <1>4 DEF Device

Forgets ==
  /\ pc = "unlink-pending" /\ pending' = None
  /\ pc' \in {"loop", "poll", "read", "shut", "stopped"}
  /\ UNCHANGED <<link, ledger>>

LEMMA Steps ==
  ASSUME TypeInv, [Next]_vars
  PROVE  \/ PollSends \/ QuerySends \/ TimesOut \/ (\E r \in ReplyType : Hears(r)) \/ Stops
         \/ Adopts \/ Forgets \/ SealTerminal \/ Idles
         \/ (\E o, f : Serves(o, f)) \/ \E hz \in Rate : Wanders(hz)
<1>1. CASE PollAdopt \/ ShutdownAdopt
  <2>1. command.tid \in Txn /\ pc \in {"loop", "poll", "shut"}
    BY <1>1 DEF PollAdopt, ShutdownAdopt, Adopt, Polling, Stopping, TypeInv, TypeOK, Maybe
  <2>2. \A t \in Txn : ledger'[t].terminals = ledger[t].terminals
    <3>1. ledger \in [Txn -> [known : BOOLEAN, terminals : Seq(FactsType)]]
      BY DEF TypeInv, TypeOK
    <3>2. ledger' = [ledger EXCEPT ![command.tid].known = TRUE]
      BY <1>1 DEF PollAdopt, ShutdownAdopt, Adopt
    <3>. QED
      BY <2>1, <3>1, <3>2
  <2>. QED
    BY <1>1, <2>1, <2>2 DEF PollAdopt, ShutdownAdopt, Adopt, Adopts
<1>2. CASE UnlinkPending
  BY <1>2 DEF UnlinkPending, Forgets, TypeInv, TypeOK
<1>3. CASE PollSend \/ SendQuery
  BY <1>3, SendSteps
<1>4. CASE PollTimeout \/ ReadReply \/ ShutdownSeal
  BY <1>4, TimeoutSteps, ReplySteps, StopSteps
<1>5. CASE Device
  BY <1>5, DeviceSteps
<1>. QED
  BY <1>1, <1>2, <1>3, <1>4, <1>5, IdleSteps DEF Next, Worker, Host, Terminated

-----------------------------------------------------------------------------
(* What the firmware does with a request m.                                *)

\* It repeats an answer it retained.
Replays(d, m, o) ==
  /\ m.op \in Mutation \cup {"query"}
  /\ o.device = d /\ o.reply \in d.retained /\ o.reply.tid = m.tid
  /\ o.reply.cid = IF m.op = "query" THEN m.target ELSE m.cid

\* It answers as it is.
Tells(d, m, o) ==
  /\ m.op \notin Mutation /\ o.device = d
  /\ o.reply = Reply(d, m, "query", "unknown-command") \/ o.reply = Reply(d, m, "get-state", "ok")

\* It decides on a mutation.
Performs(d, m, o) ==
  LET e == o.device
      r == o.reply
      stays == e.epoch = d.epoch /\ e.hz = d.hz /\ e.owner = d.owner
      moves == e.epoch = d.epoch + 1 /\ e.owner = m.tid
  IN /\ m.op \in Mutation /\ Retained(d, m.tid, m.cid) = {}
     /\ r.tid = m.tid /\ r.cid = m.cid /\ r.op = m.op
     /\ r.boot = e.boot /\ r.epoch = e.epoch /\ r.hz = e.hz
     /\ e.boot = d.boot /\ r \in e.retained /\ e.retained \subseteq d.retained \cup {r}
     /\ r.verdict # "prepared" => d.retained \subseteq e.retained
     /\ \/ /\ stays /\ e.prepared = d.prepared
           /\ r.verdict = "refused" \/ (r.verdict = "uncertain" /\ m.op = "apply")
        \/ /\ stays /\ m.op = "prepare" /\ e.prepared = [tid |-> m.tid, hz |-> m.hz]
           /\ r.verdict = "prepared"
        \/ /\ moves /\ m.op = "apply" /\ e.prepared = None
           /\ d.prepared # None /\ d.prepared.tid = m.tid /\ e.hz = d.prepared.hz
           /\ r.verdict \in {"applied", "uncertain"}
        \/ /\ moves /\ m.op = "restore" /\ e.prepared = d.prepared /\ e.hz = m.hz
           /\ r.verdict = "restored"

LEMMA MovedFields ==
  ASSUME NEW d \in DeviceType, NEW hz, NEW t
  PROVE  LET e == Moved(d, hz, t)
         IN /\ e.boot = d.boot /\ e.epoch = d.epoch + 1 /\ e.hz = hz /\ e.owner = t
            /\ e.prepared = d.prepared /\ e.retained = d.retained
BY DEF Moved, DeviceType

LEMMA PerformedCases ==
  ASSUME NEW d \in DeviceType, NEW m \in RequestType, m.op \in Mutation,
         m.op \in {"prepare", "restore"} => m.hz # None,
         Retained(d, m.tid, m.cid) = {}, NEW x \in Performed(d, m), NEW o,
         o = [device |-> [x.device EXCEPT !.retained = @ \cup {x.reply}], reply |-> x.reply]
  PROVE  Performs(d, m, o)
<1>1. x.device \in DeviceType
  BY PerformedTyped DEF Mutation
<1>2. ASSUME NEW e, NEW verdict, x = Answer(e, m, verdict)
      PROVE  /\ o.reply.tid = m.tid /\ o.reply.cid = m.cid /\ o.reply.op = m.op
             /\ o.reply.verdict = verdict
             /\ o.reply.boot = e.boot /\ o.reply.epoch = e.epoch /\ o.reply.hz = e.hz
             /\ o.device.boot = e.boot /\ o.device.epoch = e.epoch /\ o.device.hz = e.hz
             /\ o.device.owner = e.owner /\ o.device.prepared = e.prepared
             /\ o.device.retained = e.retained \cup {o.reply}
  <2>1. x.device = e /\ x.reply = Reply(e, m, m.op, verdict) /\ e \in DeviceType
    BY <1>1, <1>2 DEF Answer
  <2>2. o.reply = Reply(e, m, m.op, verdict) /\ o.device = [e EXCEPT !.retained = @ \cup {o.reply}]
    BY <2>1
  <2>3. /\ o.device.boot = e.boot /\ o.device.epoch = e.epoch /\ o.device.hz = e.hz
        /\ o.device.owner = e.owner /\ o.device.prepared = e.prepared
        /\ o.device.retained = e.retained \cup {o.reply}
    BY <2>1, <2>2 DEF DeviceType
  <2>. QED
    BY <2>2, <2>3 DEF Reply
<1>3. CASE x = Answer(d, m, "refused") \/ (x = Answer(d, m, "uncertain") /\ m.op = "apply")
  <2>1. PICK verdict : /\ x = Answer(d, m, verdict)
                       /\ verdict = "refused" \/ (verdict = "uncertain" /\ m.op = "apply")
    BY <1>3
  <2>2. /\ o.reply.tid = m.tid /\ o.reply.cid = m.cid /\ o.reply.op = m.op
        /\ o.reply.verdict = verdict
        /\ o.reply.boot = d.boot /\ o.reply.epoch = d.epoch /\ o.reply.hz = d.hz
        /\ o.device.boot = d.boot /\ o.device.epoch = d.epoch /\ o.device.hz = d.hz
        /\ o.device.owner = d.owner /\ o.device.prepared = d.prepared
        /\ o.device.retained = d.retained \cup {o.reply}
    BY <1>2, <2>1
  <2>. QED
    BY <2>1, <2>2 DEF Performs
<1>4. CASE m.op = "prepare" /\ x # Answer(d, m, "refused")
  <2> DEFINE e == [d EXCEPT !.prepared = [tid |-> m.tid, hz |-> m.hz], !.retained = {}]
  <2>1. x = Answer(e, m, "prepared")
    BY <1>4 DEF Performed
  <2>2. /\ e.boot = d.boot /\ e.epoch = d.epoch /\ e.hz = d.hz /\ e.owner = d.owner
        /\ e.prepared = [tid |-> m.tid, hz |-> m.hz] /\ e.retained = {}
    BY DEF DeviceType
  <2> HIDE DEF e
  <2>. QED
    BY <1>2, <1>4, <2>1, <2>2 DEF Performs, Mutation
<1>5. CASE m.op = "apply" /\ x # Answer(d, m, "refused") /\ x # Answer(d, m, "uncertain")
  <2> DEFINE c == [d EXCEPT !.prepared = None]
             e == Moved(c, d.prepared.hz, m.tid)
  <2>1. /\ x = Answer(e, m, "applied") \/ x = Answer(e, m, "uncertain")
        /\ d.prepared # None /\ d.prepared.tid = m.tid
    BY <1>5 DEF Performed
  <2>2. /\ c \in DeviceType /\ c.boot = d.boot /\ c.epoch = d.epoch /\ c.prepared = None
        /\ c.retained = d.retained
    BY DEF DeviceType, Maybe
  <2> HIDE DEF c
  <2>3. /\ e.boot = d.boot /\ e.epoch = d.epoch + 1 /\ e.hz = d.prepared.hz /\ e.owner = m.tid
        /\ e.prepared = None /\ e.retained = d.retained
    BY <2>2, MovedFields
  <2> HIDE DEF e
  <2>4. PICK verdict \in {"applied", "uncertain"} : x = Answer(e, m, verdict)
    BY <2>1
  <2>. QED
    <3>1. /\ o.reply.tid = m.tid /\ o.reply.cid = m.cid /\ o.reply.op = m.op
          /\ o.reply.verdict = verdict
          /\ o.reply.boot = e.boot /\ o.reply.epoch = e.epoch /\ o.reply.hz = e.hz
          /\ o.device.boot = e.boot /\ o.device.epoch = e.epoch /\ o.device.hz = e.hz
          /\ o.device.owner = e.owner /\ o.device.prepared = e.prepared
          /\ o.device.retained = e.retained \cup {o.reply}
      BY <1>2, <2>4
    <3>. QED
      BY <1>5, <2>1, <2>3, <3>1 DEF Performs, Mutation
<1>6. CASE m.op = "restore" /\ x # Answer(d, m, "refused")
  <2> DEFINE e == Moved(d, m.hz, m.tid)
  <2>1. x = Answer(e, m, "restored")
    BY <1>6 DEF Performed
  <2>2. /\ e.boot = d.boot /\ e.epoch = d.epoch + 1 /\ e.hz = m.hz /\ e.owner = m.tid
        /\ e.prepared = d.prepared /\ e.retained = d.retained
    BY MovedFields
  <2> HIDE DEF e
  <2>. QED
    <3>1. /\ o.reply.tid = m.tid /\ o.reply.cid = m.cid /\ o.reply.op = m.op
          /\ o.reply.verdict = "restored"
          /\ o.reply.boot = e.boot /\ o.reply.epoch = e.epoch /\ o.reply.hz = e.hz
          /\ o.device.boot = e.boot /\ o.device.epoch = e.epoch /\ o.device.hz = e.hz
          /\ o.device.owner = e.owner /\ o.device.prepared = e.prepared
          /\ o.device.retained = e.retained \cup {o.reply}
      BY <1>2, <2>1
    <3>. QED
      BY <1>6, <2>2, <3>1 DEF Performs, Mutation
<1>. QED
  BY <1>3, <1>4, <1>5, <1>6 DEF Mutation

LEMMA OutcomeCases ==
  ASSUME NEW d \in DeviceType, NEW m \in RequestType,
         m.op \in {"prepare", "restore"} => m.hz # None, NEW o \in Outcomes(d, m)
  PROVE  Replays(d, m, o) \/ Tells(d, m, o) \/ Performs(d, m, o)
<1>1. CASE m.op = "query" /\ Retained(d, m.tid, m.target) # {}
  BY <1>1 DEF Outcomes, Replays, Retained
<1>2. CASE m.op \in Mutation /\ Retained(d, m.tid, m.cid) # {}
  BY <1>2 DEF Outcomes, Replays, Retained, Mutation
<1>3. CASE m.op \in Mutation /\ Retained(d, m.tid, m.cid) = {}
  <2>1. PICK x \in Performed(d, m) :
          o = [device |-> [x.device EXCEPT !.retained = @ \cup {x.reply}], reply |-> x.reply]
    BY <1>3 DEF Outcomes, Mutation
  <2>. QED
    BY <1>3, <2>1, PerformedCases
<1>4. CASE \/ m.op = "query" /\ Retained(d, m.tid, m.target) = {}
           \/ m.op \notin Mutation \cup {"query"}
  BY <1>4 DEF Outcomes, Tells, Mutation
<1>. QED
  BY <1>1, <1>2, <1>3, <1>4

LEMMA ServesCases ==
  ASSUME TypeInv, NEW o, NEW f, Serves(o, f)
  PROVE  /\ Head(wire) \in RequestType /\ device \in DeviceType
         /\ \/ Replays(device, Head(wire), o) \/ Tells(device, Head(wire), o)
            \/ Performs(device, Head(wire), o)
<1>1. WireRates(wire) /\ device \in DeviceType
  BY DEF TypeInv, TypeOK, Control, WireRates
<1>2. /\ Head(wire) \in RequestType
      /\ Head(wire).op \in {"prepare", "restore"} => Head(wire).hz # None
  BY <1>1, TailTyped DEF WireRates, Serves
<1>. QED
  BY <1>1, <1>2, OutcomeCases DEF Serves

-----------------------------------------------------------------------------
(* Outcomes tell the truth: every answer on the line or retained, and      *)
(* every fact that was concluded from one, is of a version (boot and       *)
(* configuration epoch) that is gone, or still true.                       *)

\* In the version (boot, epoch), gone or still in force, firmware d ran at hz,
Ran(d, boot, epoch, hz) ==
  \/ boot < d.boot \/ (boot = d.boot /\ epoch < d.epoch)
  \/ boot = d.boot /\ epoch = d.epoch /\ hz = d.hz

\* ... and that was the doing of t.
Obeyed(d, boot, epoch, t) ==
  \/ boot < d.boot \/ (boot = d.boot /\ epoch < d.epoch)
  \/ boot = d.boot /\ epoch = d.epoch /\ t = d.owner

TrueAnswer(d, r) ==
  Ran(d, r.boot, r.epoch, r.hz) /\ (r.verdict = "applied" => Obeyed(d, r.boot, r.epoch, r.tid))

TrueFacts(d, t, f) ==
  /\ f.term \in {"committed", "rolled-back"} => f.boot \in Nat /\ f.epoch \in Nat
  /\ f.term = "committed" =>
       Ran(d, f.boot, f.epoch, f.hz) /\ (f.applied # None => Obeyed(d, f.boot, f.epoch, t))
  /\ f.term = "rolled-back" => Ran(d, f.boot, f.epoch, f.prior)

\* While nothing is decided, what is known of the APPLY; then the outcome.
TrueTransaction(d, s) ==
  /\ s.applied # None => Obeyed(d, s.applied[1], s.applied[2], s.tid)
  /\ s.intent # None => TrueFacts(d, s.tid, Facts(s))

TruthInv ==
  /\ pending # None /\ pending.intent # None => pc \in Closing
  /\ \A i \in 1..Len(line) : TrueAnswer(device, line[i])
  /\ \A r \in device.retained : TrueAnswer(device, r)
  /\ pending # None => TrueTransaction(device, pending)
  /\ \A t \in Txn : \A i \in 1..Len(Terminals(t)) : TrueFacts(device, t, Terminals(t)[i])

\* The firmware e came from d: its version grew, or nothing one can tell
\* apart changed.
Onward(d, e) ==
  \/ d.boot < e.boot \/ (d.boot = e.boot /\ d.epoch < e.epoch)
  \/ e.boot = d.boot /\ e.epoch = d.epoch /\ e.hz = d.hz /\ e.owner = d.owner

LEMMA OnwardTruth ==
  ASSUME NEW d \in DeviceType, NEW e \in DeviceType, Onward(d, e)
  PROVE  /\ \A hz : \A boot \in Nat, epoch \in Nat : Ran(d, boot, epoch, hz) => Ran(e, boot, epoch, hz)
         /\ \A t : \A boot \in Nat, epoch \in Nat : Obeyed(d, boot, epoch, t) => Obeyed(e, boot, epoch, t)
         /\ \A r \in ReplyType : TrueAnswer(d, r) => TrueAnswer(e, r)
         /\ \A t, f : TrueFacts(d, t, f) => TrueFacts(e, t, f)
         /\ \A s \in PendingType : TrueTransaction(d, s) => TrueTransaction(e, s)
<1>1. d.boot \in Nat /\ d.epoch \in Nat /\ e.boot \in Nat /\ e.epoch \in Nat
  BY DEF DeviceType
<1>2. \A hz : \A boot \in Nat, epoch \in Nat : Ran(d, boot, epoch, hz) => Ran(e, boot, epoch, hz)
  BY <1>1 DEF Ran, Onward
<1>3. \A t : \A boot \in Nat, epoch \in Nat : Obeyed(d, boot, epoch, t) => Obeyed(e, boot, epoch, t)
  BY <1>1 DEF Obeyed, Onward
<1>4. \A r \in ReplyType : TrueAnswer(d, r) => TrueAnswer(e, r)
  BY <1>2, <1>3 DEF TrueAnswer, ReplyType
<1>5. \A t, f : TrueFacts(d, t, f) => TrueFacts(e, t, f)
  BY <1>2, <1>3 DEF TrueFacts
<1>6. ASSUME NEW s \in PendingType, TrueTransaction(d, s) PROVE TrueTransaction(e, s)
  <2>1. s.applied # None => s.applied[1] \in Nat /\ s.applied[2] \in Nat
    BY DEF PendingType, Maybe, Version
  <2>. QED
    BY <1>3, <1>5, <1>6, <2>1 DEF TrueTransaction
<1>. QED
  BY <1>2, <1>3, <1>4, <1>5, <1>6

\* What the firmware does goes onward, and its answers are true.
LEMMA ServedTruth ==
  ASSUME TypeInv, TruthInv, NEW o, NEW f, Serves(o, f)
  PROVE  /\ Onward(device, o.device)
         /\ \A r \in o.device.retained : TrueAnswer(o.device, r)
         /\ TrueAnswer(o.device, f)
<1> DEFINE m == Head(wire)
<1>1. /\ device \in DeviceType /\ o.device \in DeviceType /\ o.reply \in ReplyType
      /\ m \in RequestType
      /\ Replays(device, m, o) \/ Tells(device, m, o) \/ Performs(device, m, o)
  BY ServesCases DEF Serves
<1>2. \A r \in device.retained : r \in ReplyType /\ TrueAnswer(device, r)
  BY <1>1 DEF DeviceType, TruthInv
<1>3. TrueAnswer(o.device, o.reply) => TrueAnswer(o.device, f)
  BY <1>1 DEF Serves, Malformed, TrueAnswer, ReplyType
<1>4. CASE Replays(device, m, o)
  BY <1>2, <1>3, <1>4 DEF Replays, Onward
<1>5. CASE Tells(device, m, o)
  <2>1. TrueAnswer(device, o.reply)
    BY <1>5 DEF Tells, Reply, TrueAnswer, Ran
  <2>. QED
    BY <1>2, <1>3, <1>5, <2>1 DEF Tells, Onward
<1>6. CASE Performs(device, m, o)
  <2>1. Onward(device, o.device)
    BY <1>1, <1>6 DEF Performs, Onward, DeviceType
  <2>2. TrueAnswer(o.device, o.reply)
    BY <1>1, <1>6 DEF Performs, TrueAnswer, Ran, Obeyed
  <2>3. \A r \in device.retained : TrueAnswer(o.device, r)
    BY <1>1, <1>2, <2>1, OnwardTruth
  <2>4. o.device.retained \subseteq device.retained \cup {o.reply}
    BY <1>6 DEF Performs
  <2>. QED
    BY <1>3, <2>1, <2>2, <2>3, <2>4
<1>. QED
  BY <1>1, <1>4, <1>5, <1>6

LEMMA WanderedTruth ==
  ASSUME TypeInv, TruthInv, NEW hz \in Rate, Wanders(hz)
  PROVE  /\ device' \in DeviceType /\ Onward(device, device')
         /\ device'.retained \subseteq device.retained
<1>1. device \in DeviceType
  BY DEF TypeInv, TypeOK
<1>2. CASE device' = Moved(device, hz, None)
  <2>1. device' \in DeviceType
    BY <1>1, <1>2, MovedTyped DEF Maybe
  <2>. QED
    <3>1. /\ device'.boot = device.boot /\ device'.epoch = device.epoch + 1
          /\ device'.retained = device.retained
      BY <1>1, <1>2, MovedFields
    <3>2. device.epoch \in Nat
      BY <1>1 DEF DeviceType
    <3>. QED
      BY <2>1, <3>1, <3>2 DEF Onward
<1>3. CASE device' = Boot(device.boot + 1, hz)
  BY <1>1, <1>3 DEF Boot, Onward, DeviceType, Maybe
<1>. QED
  BY <1>2, <1>3 DEF Wanders

\* The bridge's conclusions are true.
LEMMA EndsTruth ==
  ASSUME NEW s, NEW term, Ends(s, term),
         s.applied # None => Obeyed(device, s.applied[1], s.applied[2], s.tid),
         TrueFacts(device, s.tid, [Facts(s) EXCEPT !.term = term])
  PROVE  TrueTransaction(device, pending') /\ pc' \in Closing
<1>1. Facts(pending') = [Facts(s) EXCEPT !.term = term]
  BY DEF Ends, Carried, Facts
<1>. QED
  BY <1>1 DEF Ends, Carried, TrueTransaction, Closing

LEMMA QuietEndsTruth ==
  ASSUME NEW s, NEW term, Ends(s, term), term \notin {"committed", "rolled-back"},
         s.applied # None => Obeyed(device, s.applied[1], s.applied[2], s.tid)
  PROVE  TrueTransaction(device, pending') /\ pc' \in Closing
<1>1. TrueFacts(device, s.tid, [Facts(s) EXCEPT !.term = term])
  BY DEF TrueFacts, Facts
<1>. QED
  BY <1>1, EndsTruth

LEMMA EntersTruth ==
  ASSUME NEW s, NEW phase, Enters(s, phase), phase # "verify", s.intent = None,
         s.applied # None => Obeyed(device, s.applied[1], s.applied[2], s.tid)
  PROVE  TrueTransaction(device, pending') /\ pending'.intent = None
BY DEF Enters, Carried, TrueTransaction

LEMMA JudgedTruth ==
  ASSUME NEW s \in PendingType, NEW phase, NEW r \in ReplyType, Judged(s, phase, r),
         s.intent = None, s.epoch = r.epoch, s.tid = r.tid, TrueAnswer(device, r),
         s.applied # None => Obeyed(device, s.applied[1], s.applied[2], s.tid)
  PROVE  TrueTransaction(device, pending') /\ (pending'.intent # None => pc' \in Closing)
<1>1. r.boot \in Nat /\ r.epoch \in Nat
  BY DEF ReplyType
<1>2. CASE \E term : term \notin {"committed", "rolled-back"} /\ Ends(s, term)
  BY <1>2, QuietEndsTruth
<1>3. CASE \E next : next # "verify" /\ Enters(s, next)
  BY <1>3, EntersTruth
<1>4. CASE r.boot = s.boot /\ IsDesired(s, r) /\ Ends(s, "committed")
  <2>1. TrueFacts(device, s.tid, [Facts(s) EXCEPT !.term = "committed"])
    <3>1. s.hz = r.hz /\ (s.applied # None => s.applied[1] = r.boot /\ s.applied[2] = r.epoch)
      BY <1>4 DEF IsDesired
    <3>. QED
      BY <1>1, <1>4, <3>1 DEF TrueFacts, Facts, TrueAnswer
  <2>. QED
    BY <1>4, <2>1, EndsTruth
<1>5. CASE r.boot = s.boot /\ r.hz = s.prior /\ Ends(s, "rolled-back")
  <2>1. TrueFacts(device, s.tid, [Facts(s) EXCEPT !.term = "rolled-back"])
    BY <1>1, <1>5 DEF TrueFacts, Facts, TrueAnswer
  <2>. QED
    BY <1>5, <2>1, EndsTruth
<1>6. CASE /\ r.verdict = "applied" /\ Enters(s, "verify")
           /\ pending'.applied = <<r.boot, r.epoch>>
  BY <1>6 DEF Enters, Carried, TrueTransaction, TrueAnswer
<1>. QED
  BY <1>2, <1>3, <1>4, <1>5, <1>6 DEF Judged

LEMMA BridgeTruth ==
  ASSUME TypeInv, TruthInv,
         PollSends \/ QuerySends \/ TimesOut \/ (\E r \in ReplyType : Hears(r)) \/ Stops
  PROVE  TrueTransaction(device, pending') /\ (pending'.intent # None => pc' \in Closing)
<1>1. pending # None /\ pending \in PendingType /\ pending.intent = None
  BY DEF PollSends, QuerySends, Sending, TimesOut, Hears, Stops, Polling, Stopping, TruthInv,
         Closing, TypeInv, TypeOK, Maybe
<1>2. pending.applied # None => Obeyed(device, pending.applied[1], pending.applied[2], pending.tid)
  BY <1>1 DEF TruthInv, TrueTransaction
<1>3. CASE PollSends \/ QuerySends
  BY <1>1, <1>2, <1>3 DEF PollSends, QuerySends, Sending, Sent, TrueTransaction
<1>4. CASE TimesOut
  <2>1. PICK s \in PendingType : /\ Expired(s, pending.awaiting) /\ s.intent = None
                                 /\ s.applied = pending.applied /\ s.tid = pending.tid
    BY <1>1, <1>4, ClearedFields DEF TimesOut
  <2>2. CASE \E term \in {"failed-safe", "rollback-failed"} : Ends(s, term)
    BY <1>2, <2>1, <2>2, QuietEndsTruth
  <2>3. CASE \E next \in {"recover-state", "restore"} : Enters(s, next)
    BY <1>2, <2>1, <2>3, EntersTruth
  <2>4. CASE Asks(s, pending.awaiting)
    BY <1>2, <2>1, <2>4 DEF Asks, Carried, TrueTransaction
  <2>. QED
    BY <2>1, <2>2, <2>3, <2>4 DEF Expired
<1>5. ASSUME NEW r \in ReplyType, Hears(r)
      PROVE  TrueTransaction(device, pending') /\ (pending'.intent # None => pc' \in Closing)
  <2>1. PICK s \in PendingType : /\ Replied(s, pending.awaiting, r) /\ s.intent = None
                                 /\ s.applied = pending.applied /\ s.tid = pending.tid
                                 /\ s.epoch = r.epoch
    BY <1>1, <1>5, HeededFields DEF Hears
  <2>2. TrueAnswer(device, r)
    <3>1. 1 \in 1..Len(line) /\ r = line[1]
      BY <1>5 DEF Hears, TypeInv, TypeOK
    <3>. QED
      BY <3>1 DEF TruthInv
  <2>3. s.tid = r.tid
    BY <1>5, <2>1 DEF Hears, Correlated
  <2>4. CASE \E term \in {"failed-safe", "rollback-failed"} : Ends(s, term)
    BY <1>2, <2>1, <2>4, QuietEndsTruth
  <2>5. CASE Enters(s, "recover-state")
    BY <1>2, <2>1, <2>5, EntersTruth
  <2>6. CASE Judged(s, About(s, pending.awaiting), r)
    BY <1>2, <2>1, <2>2, <2>3, <2>6, JudgedTruth
  <2>. QED
    BY <2>1, <2>4, <2>5, <2>6 DEF Replied
<1>6. CASE Stops
  BY <1>2, <1>6, QuietEndsTruth DEF Stops, ShutdownOutcome
<1>. QED
  BY <1>3, <1>4, <1>5, <1>6

LEMMA TruthStep == TypeInv /\ TruthInv /\ [Next]_vars => TruthInv'
<1> SUFFICES ASSUME TypeInv, TruthInv, [Next]_vars PROVE TruthInv'
  OBVIOUS
<1>1. /\ line \in Seq(ReplyType) /\ device \in DeviceType
      /\ pending # None => pending \in PendingType
      /\ \A t \in Txn : Terminals(t) \in Seq(FactsType)
  BY DEF TypeInv, TypeOK, Maybe, Terminals
<1>2. ASSUME device' = device, line' = line \/ (line # <<>> /\ line' = Tail(line)),
             \A t \in Txn : ledger'[t].terminals = ledger[t].terminals,
             pending' # None => TrueTransaction(device, pending')
                                /\ (pending'.intent # None => pc' \in Closing)
      PROVE  TruthInv'
  <2>1. \A i \in 1..Len(line') : TrueAnswer(device, line'[i])
    BY <1>1, <1>2 DEF TruthInv
  <2>. QED
    BY <1>2, <2>1 DEF TruthInv, Terminals
<1>3. CASE PollSends \/ QuerySends \/ TimesOut \/ (\E r \in ReplyType : Hears(r)) \/ Stops
  <2>1. /\ device' = device
        /\ line' = line \/ (line # <<>> /\ line' = Tail(line))
        /\ ledger' = ledger
    BY <1>3 DEF PollSends, QuerySends, Sending, TimesOut, Hears, Stops, link
  <2>2. TrueTransaction(device, pending') /\ (pending'.intent # None => pc' \in Closing)
    BY <1>3, BridgeTruth
  <2>. QED
    BY <1>2, <2>1, <2>2
<1>4. CASE Adopts
  BY <1>2, <1>4 DEF Adopts, Fresh, link, TrueTransaction
<1>5. CASE Forgets
  BY <1>2, <1>5 DEF Forgets, link
<1>6. CASE SealTerminal
  <2>1. /\ pending' = pending /\ pending # None /\ pending.tid \in Txn /\ pending.intent # None
        /\ pc' \in Closing /\ UNCHANGED link
    BY <1>6, SealStep DEF SealTerminal, Closing, TypeInv, Control
  <2>2. ASSUME NEW t \in Txn, NEW i \in 1..Len(ledger'[t].terminals)
        PROVE  TrueFacts(device, t, ledger'[t].terminals[i])
    <3>1. CASE t = pending.tid
      <4>1. ledger'[t].terminals = Append(Terminals(t), Facts(pending))
        BY <1>6, <3>1, SealStep
      <4>2. TrueFacts(device, t, Facts(pending))
        BY <2>1, <3>1 DEF TruthInv, TrueTransaction
      <4>3. \/ ledger'[t].terminals[i] = Facts(pending)
            \/ i \in 1..Len(Terminals(t)) /\ ledger'[t].terminals[i] = Terminals(t)[i]
        BY <1>1, <4>1
      <4>. QED
        BY <4>2, <4>3 DEF TruthInv
    <3>2. CASE t # pending.tid
      BY <1>6, <3>2, SealStep DEF TruthInv, Terminals
    <3>. QED
      BY <3>1, <3>2
  <2>. QED
    BY <2>1, <2>2 DEF TruthInv, Terminals, link
<1>7. CASE Idles
  BY <1>2, <1>7 DEF Idles, TruthInv
<1>8. ASSUME device' \in DeviceType, Onward(device, device'), UNCHANGED <<files, worker>>,
             \A i \in 1..Len(line') : TrueAnswer(device', line'[i]),
             \A r \in device'.retained : TrueAnswer(device', r)
      PROVE  TruthInv'
  <2>1. /\ pending' = pending /\ pc' = pc /\ ledger' = ledger
        /\ pending # None => TrueTransaction(device', pending)
        /\ \A t \in Txn : \A i \in 1..Len(Terminals(t)) : TrueFacts(device', t, Terminals(t)[i])
    BY <1>1, <1>8, OnwardTruth DEF files, worker, TruthInv
  <2>. QED
    BY <1>8, <2>1 DEF TruthInv, Terminals
<1>9. ASSUME device' \in DeviceType, Onward(device, device')
      PROVE  \A i \in 1..Len(line) : TrueAnswer(device', line[i])
  BY <1>1, <1>9, OnwardTruth DEF TruthInv
<1>10. ASSUME NEW o, NEW f, Serves(o, f)
       PROVE  TruthInv'
  <2>1. /\ Onward(device, device') /\ device' \in DeviceType /\ UNCHANGED <<files, worker>>
        /\ \A r \in device'.retained : TrueAnswer(device', r)
        /\ TrueAnswer(device', f) /\ line' \in Transmit(line, f)
    BY <1>10, ServedTruth DEF Serves
  <2>2. \A i \in 1..Len(line') : line'[i] = f \/ (i \in 1..Len(line) /\ line'[i] = line[i])
    BY <1>1, <2>1 DEF Transmit
  <2>. QED
    BY <1>8, <1>9, <2>1, <2>2
<1>11. ASSUME NEW hz \in Rate, Wanders(hz)
       PROVE  TruthInv'
  <2>1. /\ device' \in DeviceType /\ Onward(device, device') /\ line' = line
        /\ UNCHANGED <<files, worker>>
    BY <1>11, WanderedTruth DEF Wanders
  <2>2. \A r \in device'.retained : TrueAnswer(device', r)
    <3>1. \A r \in device'.retained : r \in ReplyType /\ TrueAnswer(device, r)
      BY <1>1, <1>11, WanderedTruth DEF TruthInv, DeviceType
    <3>. QED
      BY <1>1, <2>1, <3>1, OnwardTruth
  <2>. QED
    BY <1>8, <1>9, <2>1, <2>2
<1>. QED
  BY <1>3, <1>4, <1>5, <1>6, <1>7, <1>10, <1>11, Steps

\* An outcome says what the firmware did, as long as it has the version the
\* outcome was decided on: whatever is lost, late or malformed, whoever drifts,
\* reboots or dies, and when identities are used again (_is_desired_state,
\* _handle_recover_state and _accept_phase_reply of FirmwareControlBridge).
THEOREM OutcomesAreTrue == Spec => []OutcomeTruthful
<1>1. Init => TruthInv
  BY DEF Init, Boot, TruthInv, Terminals
<1>2. TypeInv /\ TruthInv => OutcomeTruthful
  <2> SUFFICES ASSUME TypeInv, TruthInv, NEW t \in Txn, NEW i \in 1..Len(ledger[t].terminals),
                      device.boot = ledger[t].terminals[i].boot,
                      device.epoch = ledger[t].terminals[i].epoch
               PROVE  LET f == ledger[t].terminals[i] IN
                      /\ f.term = "committed" =>
                           device.hz = f.hz /\ (f.applied # None => device.owner = t)
                      /\ f.term = "rolled-back" => device.hz = f.prior
    BY DEF OutcomeTruthful
  <2>1. TrueFacts(device, t, ledger[t].terminals[i])
    BY DEF TruthInv, Terminals
  <2>2. device.boot \in Nat /\ device.epoch \in Nat
    BY DEF TypeInv, TypeOK, DeviceType
  <2>. QED
    BY <2>1, <2>2 DEF TrueFacts, Ran, Obeyed
<1>. QED
  BY TypeInvariant, TruthStep, <1>1, <1>2, PTL DEF Spec
=============================================================================

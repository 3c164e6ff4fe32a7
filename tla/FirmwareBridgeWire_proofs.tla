--------------------- MODULE FirmwareBridgeWire_proofs ---------------------
(***************************************************************************)
(* What FirmwareBridge relies on of the two lines, and what follows: no    *)
(* mutation is under way that the pending file does not know of, and the   *)
(* bridge is a rate transaction.                                           *)
(***************************************************************************)
EXTENDS FirmwareBridgeOutcome_proofs

PREPARE == CommandId("prepare", 0)
APPLY == CommandId("apply", 0)
RECOVER == CommandId("recover-state", 0)

\* The GET_STATEs whose answer tells what became of a mutation.
Probes == {RECOVER, CommandId("restore-verify", 0)}

-----------------------------------------------------------------------------
(* What the fields of a transaction say of one another.                    *)

\* Its APPLY was not sent,
Early(s) ==
  \/ s.phase \in {"queued", "state-before", "prepare"}
  \/ s.phase = "query" /\ s.target[1] = "prepare"

\* ... or what became of it is not known.
Applying(s) ==
  \/ s.phase = "apply" \/ (s.phase = "query" /\ s.target[1] = "apply")
  \/ s.phase = "recover-state" /\ s.recovering = "apply"

Local(s) ==
  /\ s.awaiting # None =>
       /\ s.awaiting = CommandId(s.phase, IF s.phase = "query" THEN s.queries ELSE s.restores)
       /\ s.phase = "restore" => s.restores >= 1
  /\ s.target # None =>
       /\ s.target = CommandId(s.target[1], s.target[2])
       /\ s.target[1] = "restore" => s.target[2] \in 1..s.restores
  /\ s.phase = "recover-state" => s.recovering \in {"apply", "restore"}
  /\ ~Early(s) => PREPARE \in s.acked
  /\ Early(s) \/ Applying(s) => s.applied = None
  /\ Early(s) \/ Applying(s) \/ s.phase = "verify" => s.restores = 0
  /\ s.phase \in {"queued", "state-before"} => s.target = None
  /\ \A cid \in s.acked : cid[1] = "restore" => cid[2] \in 1..s.restores

LocalInv ==
  /\ pending # None => Local(pending)
  /\ pc = "query" => pending.awaiting = None /\ pending.phase = pending.target[1]

LEMMA IdentityFields ==
  ASSUME NEW phase, NEW index
  PROVE  LET c == CommandId(phase, index)
         IN /\ c[1] = phase /\ c[2] = (IF phase \in {"query", "restore"} THEN index ELSE 0)
            /\ c = CommandId(c[1], c[2])
BY DEF CommandId

LEMMA TransactionFields ==
  ASSUME NEW s \in PendingType
  PROVE  /\ s.restores \in Nat /\ s.queries \in Nat
         /\ s.awaiting # None => s.awaiting \in Cid /\ s.awaiting[1] \in Sends
         /\ s.target # None => s.target \in Queried /\ s.target[1] \in Mutation
                               /\ s.target[2] \in Nat
BY DEF PendingType, Maybe, Cid, Queried, Mutation

LEMMA SentLocal ==
  ASSUME NEW phase \in Sends, pending \in PendingType, Local(pending), Sending(phase),
         \/ phase = pending.phase
         \/ phase = "state-before" /\ pending.phase = "queued"
         \/ phase = "query" /\ pending.target # None /\ pending.phase = pending.target[1]
  PROVE  /\ Local(pending')
         /\ Early(pending') = Early(pending) /\ Applying(pending') = Applying(pending)
<1>1. /\ pending'.phase = phase /\ pending'.target = pending.target
      /\ pending'.recovering = pending.recovering /\ pending'.applied = pending.applied
      /\ pending'.acked = pending.acked
      /\ pending'.restores = pending.restores + (IF phase = "restore" THEN 1 ELSE 0)
      /\ pending'.awaiting = CommandId(phase, IF phase = "query" THEN pending'.queries
                                              ELSE pending'.restores)
  BY DEF Sending, Sent
<1>2. /\ pending.restores \in Nat
      /\ pending.target # None => pending.target[1] \in Mutation /\ pending.target[2] \in Nat
  BY TransactionFields
<1>3. Early(pending') = Early(pending) /\ Applying(pending') = Applying(pending)
  BY <1>1, <1>2 DEF Early, Applying, Mutation, Local
<1>4. phase = "restore" => ~Early(pending) /\ ~Applying(pending)
  BY <1>2 DEF Early, Applying, Mutation
<1>5. pending'.phase = "verify" => pending.phase = "verify"
  BY <1>1, <1>2 DEF Mutation
<1>6. \A cid \in pending'.acked : cid[1] = "restore" => cid[2] \in 1..pending'.restores
  BY <1>1, <1>2 DEF Local
<1>. QED
  BY <1>1, <1>2, <1>3, <1>4, <1>5, <1>6 DEF Local, Mutation

\* What an answer is about, and what phase it finds the transaction in.
LEMMA AnswerContext ==
  ASSUME pending \in PendingType, WellFormed(pending), Local(pending),
         NEW r \in ReplyType, Correlated(pending, r),
         ~(pending.awaiting[1] = "query" /\ r.cid = pending.awaiting),
         NEW about, about = About(pending, pending.awaiting)
  PROVE  /\ about = "state-before" => pending.phase = "state-before"
         /\ about = "prepare" => Early(pending) /\ r.cid = PREPARE
         /\ about = "apply" => Applying(pending) /\ r.cid = APPLY
         /\ about = "verify" => pending.phase = "verify"
         /\ about = "recover-state" => pending.phase = "recover-state" /\ r.cid = RECOVER
         /\ about \in {"recover-state", "restore-verify"} =>
              r.cid = pending.awaiting /\ r.cid \in Probes
         /\ about \in {"restore", "restore-verify"} => ~Early(pending) /\ ~Applying(pending)
         /\ about = "restore" => pending.phase = "restore"
                                 \/ (pending.phase = "query" /\ pending.target[1] = "restore")
<1> DEFINE asked == pending.awaiting
<1>1. /\ asked # None /\ asked[1] = pending.phase
      /\ asked = CommandId(pending.phase, IF pending.phase = "query" THEN pending.queries
                                          ELSE pending.restores)
  BY IdentityFields DEF Correlated, Local
<1>2. CASE asked[1] = "query"
  <2>1. /\ pending.target # None /\ pending.target[1] \in Mutation /\ r.cid = pending.target
        /\ pending.target = CommandId(pending.target[1], pending.target[2])
        /\ about = pending.target[1] /\ pending.phase = "query"
    BY <1>1, <1>2, TransactionFields DEF Correlated, WellFormed, Local, About
  <2>. QED
    BY <2>1 DEF Mutation, Early, Applying, PREPARE, APPLY, CommandId
<1>3. CASE asked[1] # "query"
  <2>1. about = pending.phase /\ r.cid = asked /\ pending.phase # "query"
    BY <1>1, <1>3 DEF Correlated, About
  <2>. QED
    BY <1>1, <2>1 DEF Early, Applying, PREPARE, APPLY, RECOVER, Probes, CommandId
<1>. QED
  BY <1>2, <1>3

\* A transaction that noted an answer or a deadline.
LEMMA NotedLocal ==
  ASSUME NEW s \in PendingType, Local(s), NEW x, x.awaiting = None, s.acked \subseteq x.acked,
         \A cid \in x.acked \ s.acked : cid # None /\ cid \in {s.awaiting, s.target},
         x.phase = s.phase, x.target = s.target, x.recovering = s.recovering,
         x.applied = s.applied, x.restores = s.restores
  PROVE  Local(x) /\ Early(x) = Early(s) /\ Applying(x) = Applying(s)
<1>1. Early(x) = Early(s) /\ Applying(x) = Applying(s)
  BY DEF Early, Applying
<1>2. \A cid \in x.acked : cid[1] = "restore" => cid[2] \in 1..x.restores
  BY TransactionFields, IdentityFields DEF Local
<1>. QED
  BY <1>1, <1>2 DEF Local

LEMMA EndsLocal ==
  ASSUME NEW s \in PendingType, Local(s), s.awaiting = None, NEW term, Ends(s, term)
  PROVE  /\ Local(pending') /\ Early(pending') = Early(s) /\ Applying(pending') = Applying(s)
         /\ pc' # "query"
<1>1. /\ pending'.awaiting = None /\ pending'.acked = s.acked /\ pending'.phase = s.phase
      /\ pending'.target = s.target /\ pending'.recovering = s.recovering
      /\ pending'.applied = s.applied /\ pending'.restores = s.restores /\ pc' = "seal"
  BY DEF Ends, Carried
<1>. QED
  BY <1>1, NotedLocal

LEMMA EntersLocal ==
  ASSUME NEW s, Local(s), NEW phase, Enters(s, phase),
         \/ phase \in {"restore", "restore-verify"} /\ ~Early(s)
         \/ phase = "restore" /\ PREPARE \in s.acked
         \/ phase = "verify" /\ Applying(s) /\ PREPARE \in s.acked
         \/ phase = "recover-state" /\ s.phase = "query" /\ s.target[1] \in {"apply", "restore"}
         \/ phase = "prepare" /\ s.phase = "state-before"
         \/ phase = "apply" /\ Early(s) /\ PREPARE \in s.acked
  PROVE  Local(pending') /\ pc' # "query"
<1>1. /\ pending'.awaiting = None /\ pending'.acked = s.acked /\ pending'.phase = phase
      /\ pending'.target = s.target /\ pending'.restores = s.restores
      /\ pending'.recovering = IF phase = "recover-state" THEN s.target[1] ELSE s.recovering
      /\ phase # "verify" => pending'.applied = s.applied
      /\ pc' # "query"
  BY DEF Enters, Carried
<1>. QED
  BY <1>1 DEF Local, Early, Applying

LEMMA TimesOutLocal ==
  ASSUME TypeInv, LocalInv, TimesOut
  PROVE  Local(pending') /\ (pc' = "query" => pending'.awaiting = None
                                              /\ pending'.phase = pending'.target[1])
<1> DEFINE asked == pending.awaiting
<1>1. /\ pending \in PendingType /\ Local(pending) /\ WellFormed(pending) /\ asked # None
  BY DEF TimesOut, TypeInv, TypeOK, Control, LocalInv, Maybe
<1>2. /\ asked[1] = pending.phase
      /\ asked = CommandId(pending.phase, IF pending.phase = "query" THEN pending.queries
                                          ELSE pending.restores)
  BY <1>1, IdentityFields DEF Local
<1>3. PICK x \in PendingType :
        /\ Expired(x, asked) /\ x.awaiting = None /\ x.acked = pending.acked
        /\ x.phase = pending.phase /\ x.target = pending.target /\ x.restores = pending.restores
        /\ x.recovering = pending.recovering /\ x.applied = pending.applied
  BY <1>1, ClearedFields DEF TimesOut
<1>4. Local(x) /\ Early(x) = Early(pending) /\ Applying(x) = Applying(pending)
  BY <1>1, <1>3, NotedLocal
<1>5. CASE \E term : Ends(x, term)
  BY <1>3, <1>4, <1>5, EndsLocal
<1>6. CASE asked[1] \in Mutation /\ Asks(x, asked)
  <2>1. /\ pending'.awaiting = None /\ pending'.acked = x.acked /\ pending'.phase = x.phase
        /\ pending'.target = asked /\ pending'.recovering = x.recovering
        /\ pending'.applied = x.applied /\ pending'.restores = x.restores
    BY <1>3, <1>6 DEF Asks, Carried
  <2>2. Early(pending') = Early(x) /\ Applying(pending') = Applying(x)
    BY <1>2, <1>3, <1>6, <2>1 DEF Early, Applying, Mutation
  <2>3. asked[1] = "restore" => asked[2] \in 1..x.restores
    BY <1>1, <1>2, <1>3, TransactionFields, IdentityFields DEF Local
  <2>4. asked = CommandId(asked[1], asked[2])
    BY <1>2, IdentityFields
  <2>5. x.phase \in Mutation
    BY <1>2, <1>3, <1>6
  <2>. QED
    BY <1>2, <1>3, <1>4, <2>1, <2>2, <2>3, <2>4, <2>5 DEF Local, Mutation
<1>7. CASE asked[1] = "query" /\ x.target[1] # "prepare" /\ Enters(x, "recover-state")
  <2>1. x.phase = "query" /\ x.target[1] \in {"apply", "restore"}
    BY <1>1, <1>2, <1>3, <1>7, TransactionFields DEF WellFormed, Mutation
  <2>. QED
    BY <1>4, <1>7, <2>1, EntersLocal
<1>8. CASE asked[1] = "verify" /\ Enters(x, "restore")
  <2>1. ~Early(x)
    BY <1>2, <1>3, <1>8 DEF Early
  <2>. QED
    BY <1>4, <1>8, <2>1, EntersLocal
<1>. QED
  BY <1>3, <1>5, <1>6, <1>7, <1>8 DEF Expired

LEMMA HearsLocal ==
  ASSUME TypeInv, LocalInv, NEW r \in ReplyType, Hears(r)
  PROVE  Local(pending') /\ pc' # "query"
<1> DEFINE asked == pending.awaiting
<1>1. /\ pending \in PendingType /\ Local(pending) /\ WellFormed(pending) /\ asked # None
      /\ Correlated(pending, r)
  BY DEF Hears, Correlated, TypeInv, TypeOK, Control, LocalInv, Maybe
<1>2. asked[1] = pending.phase
  BY <1>1, IdentityFields DEF Local
<1>3. PICK x \in PendingType :
        /\ Replied(x, asked, r) /\ x.awaiting = None /\ x.acked = pending.acked \cup {r.cid}
        /\ x.phase = pending.phase /\ x.target = pending.target /\ x.restores = pending.restores
        /\ x.recovering = pending.recovering /\ x.applied = pending.applied
  BY <1>1, HeededFields DEF Hears
<1>4. Local(x) /\ Early(x) = Early(pending) /\ Applying(x) = Applying(pending)
  <2>1. r.cid # None /\ r.cid \in {pending.awaiting, pending.target}
    BY <1>1, NoneAssumption DEF Correlated, ReplyType
  <2>. QED
    BY <1>1, <1>3, <2>1, NotedLocal
<1>5. CASE \E term : Ends(x, term)
  BY <1>3, <1>4, <1>5, EndsLocal
<1>6. CASE asked[1] = "query" /\ x.target[1] # "prepare" /\ Enters(x, "recover-state")
  <2>1. x.phase = "query" /\ x.target[1] \in {"apply", "restore"}
    BY <1>1, <1>2, <1>3, <1>6, TransactionFields DEF WellFormed, Mutation
  <2>. QED
    BY <1>4, <1>6, <2>1, EntersLocal
<1>7. CASE ~(asked[1] = "query" /\ r.cid = asked) /\ Judged(x, About(x, asked), r)
  <2> SUFFICES ASSUME NEW about, about = About(pending, asked) PROVE Local(pending') /\ pc' # "query"
    OBVIOUS
  <2>1. /\ about = "state-before" => x.phase = "state-before"
        /\ about = "prepare" => Early(x) /\ PREPARE \in x.acked
        /\ about = "apply" => Applying(x)
        /\ about = "verify" => x.phase = "verify"
        /\ about = "recover-state" => x.phase = "recover-state"
        /\ about = "restore" => ~Early(x)
    BY <1>1, <1>3, <1>4, <1>7, AnswerContext
  <2>2. Judged(x, about, r)
    BY <1>3, <1>7 DEF About
  <2>3. Applying(x) => ~Early(x)
    BY DEF Applying, Early
  <2>4. CASE about \in {"apply", "verify", "recover-state"} /\ Enters(x, "restore")
    <3>1. ~Early(x)
      BY <2>1, <2>3, <2>4 DEF Early
    <3>. QED
      BY <1>4, <2>4, <3>1, EntersLocal
  <2>5. CASE about = "state-before" /\ Enters(x, "prepare")
    BY <1>4, <2>1, <2>5, EntersLocal
  <2>6. CASE about = "prepare" /\ Enters(x, "apply")
    BY <1>4, <2>1, <2>6, EntersLocal
  <2>7. CASE about = "apply" /\ Enters(x, "verify")
    <3>1. Applying(x) /\ PREPARE \in x.acked
      BY <1>4, <2>1, <2>3, <2>7 DEF Local
    <3>. QED
      BY <1>4, <2>7, <3>1, EntersLocal
  <2>8. CASE about = "restore" /\ Enters(x, "restore-verify")
    BY <1>4, <2>1, <2>8, EntersLocal
  <2>. QED
    BY <1>5, <2>2, <2>4, <2>5, <2>6, <2>7, <2>8 DEF Judged
<1>. QED
  BY <1>3, <1>5, <1>6, <1>7 DEF Replied

LEMMA LocalStep == TypeInv /\ LocalInv /\ [Next]_vars => LocalInv'
<1> SUFFICES ASSUME TypeInv, LocalInv, [Next]_vars PROVE LocalInv'
  OBVIOUS
<1>1. pending # None => pending \in PendingType /\ WellFormed(pending) /\ Local(pending)
  BY DEF TypeInv, TypeOK, Control, LocalInv, Maybe
<1>2. CASE PollSends
  <2>1. PICK phase \in Sends : /\ Sending(phase)
                               /\ phase = pending.phase \/ (phase = "state-before" /\ pending.phase = "queued")
    BY <1>2 DEF PollSends
  <2>2. pending # None /\ pc' = "read"
    BY <2>1 DEF Sending, Sent
  <2>. QED
    BY <1>1, <2>1, <2>2, SentLocal DEF LocalInv
<1>3. CASE QuerySends
  <2>1. /\ Sending("query") /\ "query" \in Sends /\ pending # None /\ pending.target # None
        /\ pending.phase = pending.target[1] /\ pc' = "read"
    BY <1>3 DEF QuerySends, Sending, Sent, Sends, LocalInv, TypeInv, Control
  <2>. QED
    BY <1>1, <2>1, SentLocal DEF LocalInv
<1>4. CASE TimesOut
  BY <1>4, TimesOutLocal DEF LocalInv
<1>5. CASE \E r \in ReplyType : Hears(r)
  BY <1>5, HearsLocal DEF LocalInv
<1>6. CASE Stops
  <2>1. /\ pending # None /\ pc' # "query"
        /\ pending'.awaiting = pending.awaiting /\ pending'.acked = pending.acked
        /\ pending'.phase = pending.phase /\ pending'.target = pending.target
        /\ pending'.recovering = pending.recovering /\ pending'.applied = pending.applied
        /\ pending'.restores = pending.restores /\ pending'.queries = pending.queries
    BY <1>6 DEF Stops, Ends, Carried
  <2>. QED
    BY <1>1, <2>1 DEF LocalInv, Local, Early, Applying
<1>7. CASE Adopts
  BY <1>7 DEF Adopts, Fresh, LocalInv, Local, Early
<1>8. CASE Forgets \/ SealTerminal \/ Idles
  BY <1>1, <1>8 DEF Forgets, SealTerminal, Idles, LocalInv
<1>9. CASE (\E o, f : Serves(o, f)) \/ \E hz \in Rate : Wanders(hz)
  BY <1>9 DEF Serves, Wanders, files, worker, LocalInv
<1>. QED
  BY <1>2, <1>3, <1>4, <1>5, <1>6, <1>7, <1>8, <1>9, Steps

-----------------------------------------------------------------------------
(* The two lines.                                                          *)

LEMMA Longer ==
  ASSUME NEW S, NEW q \in Seq(S), NEW m \in S, NEW p \in Transmit(q, m)
  PROVE  /\ Len(q) \in Nat /\ p \in Seq(S)
         /\ \A i \in 1..Len(p) : \/ i \in 1..Len(q) /\ p[i] = q[i]
                                 \/ i = Len(q) + 1 /\ p[i] = m
BY DEF Transmit

Moves == {"apply", "restore"}

\* A message of transaction t with that identity is on the line q.
On(q, t, cid) == \E i \in 1..Len(q) : q[i].tid = t /\ q[i].cid = cid

\* Transaction t has ended or is the pending one.
Whose(t) == Settled(t) \/ (pending # None /\ pending.tid = t)

WellAddressed(m) ==
  /\ m.cid = CommandId(m.op, m.cid[2])
  /\ m.op = "query" => m.target # None /\ m.target[1] \in Mutation

WireInv ==
  /\ \A i \in 1..Len(wire) : WellAddressed(wire[i]) /\ Whose(wire[i].tid)
  /\ \A i \in 1..Len(line) : Whose(line[i].tid)
  /\ pc \in {"status", "unlink-pending"} => Settled(pending.tid)

\* What the transaction s knows of the lines w (to the firmware) and l (from it).
NotYetOn(s, w) == Early(s) => \A i \in 1..Len(w) : w[i].tid = s.tid => w[i].op \notin Moves

KnownOn(s, w) ==
  \A i \in 1..Len(w) : w[i].tid = s.tid /\ w[i].op \in Mutation => Issued(s, w[i].cid)

PastOn(s, w) == ~Early(s) /\ ~Applying(s) /\ On(w, s.tid, APPLY) => APPLY \in s.acked

\* GET_STATE after a mutation is asked once, unless it was answered,
AskedOn(s, w, l, probe) ==
  probe \notin s.acked /\ (On(w, s.tid, probe) \/ On(l, s.tid, probe))
    => s.awaiting = probe \/ s.intent # None

\* ... and it is behind the mutation on the line, so that its answer tells of it.
BehindOn(s, w, l, probe) ==
  s.awaiting = probe /\ probe \notin s.acked =>
    \A i \in 1..Len(w) : w[i].tid = s.tid /\ w[i].op \in Moves =>
      /\ ~On(l, s.tid, probe)
      /\ \A j \in 1..Len(w) : w[j].tid = s.tid /\ w[j].cid = probe => i < j

Journal(s, w, l) ==
  /\ NotYetOn(s, w) /\ KnownOn(s, w) /\ PastOn(s, w)
  /\ \A probe \in Probes : AskedOn(s, w, l, probe) /\ BehindOn(s, w, l, probe)

JournalInv == pending # None /\ ~Settled(pending.tid) => Journal(pending, wire, line)

\* An answer that was read or lost is no matter,
LEMMA ReadJournal ==
  ASSUME NEW s, NEW w, NEW l \in Seq(ReplyType), l # <<>>, Journal(s, w, l)
  PROVE  Journal(s, w, Tail(l))
<1>1. \A t, cid : On(Tail(l), t, cid) => On(l, t, cid)
  BY TailTyped DEF On
<1>. QED
  BY <1>1 DEF Journal, AskedOn, BehindOn

\* ... nor is a request that was answered.
LEMMA ServedJournal ==
  ASSUME NEW s, NEW w \in Seq(RequestType), w # <<>>, NEW l \in Seq(ReplyType),
         NEW f \in ReplyType, f.tid = Head(w).tid, f.cid \in Probes => Head(w).cid = f.cid,
         NEW k \in Transmit(l, f), Journal(s, w, l)
  PROVE  Journal(s, Tail(w), k)
<1>1. /\ \A i \in 1..Len(Tail(w)) : i + 1 \in 1..Len(w) /\ Tail(w)[i] = w[i + 1]
      /\ 1 \in 1..Len(w) /\ Head(w) = w[1] /\ Len(w) \in Nat /\ Tail(w) \in Seq(RequestType)
  BY TailTyped
<1>2. \A t, cid : On(Tail(w), t, cid) => On(w, t, cid)
  BY <1>1 DEF On
<1>3. \A t : \A probe \in Probes :
        On(k, t, probe) => On(l, t, probe) \/ (t = Head(w).tid /\ Head(w).cid = probe)
  <2>1. \A i \in 1..Len(k) : (i \in 1..Len(l) /\ k[i] = l[i]) \/ k[i] = f
    BY Longer
  <2>. QED
    BY <2>1 DEF On
<1>4. On(w, Head(w).tid, Head(w).cid)
  BY <1>1 DEF On
<1>5. NotYetOn(s, Tail(w)) /\ KnownOn(s, Tail(w)) /\ PastOn(s, Tail(w))
  BY <1>1, <1>2 DEF Journal, NotYetOn, KnownOn, PastOn
<1>6. \A probe \in Probes : AskedOn(s, Tail(w), k, probe)
  BY <1>2, <1>3, <1>4 DEF Journal, AskedOn
<1>7. ASSUME NEW probe \in Probes PROVE BehindOn(s, Tail(w), k, probe)
  <2> SUFFICES ASSUME s.awaiting = probe, probe \notin s.acked, NEW i \in 1..Len(Tail(w)),
                      Tail(w)[i].tid = s.tid, Tail(w)[i].op \in Moves
               PROVE  /\ ~On(k, s.tid, probe)
                      /\ \A j \in 1..Len(Tail(w)) :
                           Tail(w)[j].tid = s.tid /\ Tail(w)[j].cid = probe => i < j
    BY DEF BehindOn
  <2>1. i \in Nat /\ i + 1 \in 1..Len(w) /\ w[i + 1].tid = s.tid /\ w[i + 1].op \in Moves
    BY <1>1
  <2>2. /\ ~On(l, s.tid, probe)
        /\ \A j \in 1..Len(w) : w[j].tid = s.tid /\ w[j].cid = probe => i + 1 < j
    BY <2>1 DEF Journal, BehindOn
  <2>3. ~(Head(w).tid = s.tid /\ Head(w).cid = probe)
    BY <1>1, <2>1, <2>2
  <2>4. \A j \in 1..Len(Tail(w)) :
          Tail(w)[j].tid = s.tid /\ Tail(w)[j].cid = probe => i < j
    BY <1>1, <2>1, <2>2
  <2>. QED
    BY <1>3, <2>2, <2>3, <2>4
<1>. QED
  BY <1>5, <1>6, <1>7 DEF Journal

LEMMA TypeStep == TypeInv /\ [Next]_vars => TypeInv'
BY WorkerTyped, HostTyped, DeviceTyped, StutterTyped DEF Next, Terminated

\* The request that a phase sends.
LEMMA SentRequest ==
  ASSUME TypeInv, TypeInv', NEW phase \in Sends, Sending(phase),
         phase = "query" => pending.target # None,
         NEW m, m = Request(pending')
  PROVE  /\ m \in RequestType /\ m.op = phase /\ m.tid = pending.tid
         /\ m.cid = pending'.awaiting /\ WellAddressed(m)
         /\ m.op = "prepare" => m.hz = pending.hz
<1>1. /\ WellFormed(pending') /\ pending' # None /\ pending'.awaiting # None
      /\ pending'.tid = pending.tid /\ pending'.target = pending.target
      /\ pending'.hz = pending.hz
      /\ pending \in PendingType
      /\ pending'.awaiting = CommandId(phase, IF phase = "query" THEN pending'.queries
                                              ELSE pending'.restores)
  BY DEF Sending, Sent, TypeInv, TypeOK, Control, Maybe
<1>2. /\ pending'.awaiting[1] = phase
      /\ pending'.awaiting = CommandId(phase, pending'.awaiting[2])
  BY <1>1, IdentityFields
<1>3. m \in RequestType
  BY <1>1, RequestTyped
<1>4. /\ m.op = phase /\ m.tid = pending.tid /\ m.cid = pending'.awaiting
      /\ phase = "query" => m.target = pending.target
      /\ phase = "prepare" => m.hz = pending.hz
  BY <1>1, <1>2 DEF Request
<1>. QED
  BY <1>1, <1>2, <1>3, <1>4, TransactionFields DEF WellAddressed

LEMMA SentJournal ==
  ASSUME TypeInv, TypeInv', LocalInv, WireInv, Journal(pending, wire, line),
         pending.intent = None, pending.awaiting = None, NEW phase \in Sends, Sending(phase),
         \/ phase = pending.phase
         \/ phase = "state-before" /\ pending.phase = "queued"
         \/ phase = "query" /\ pending.target # None /\ pending.phase = pending.target[1]
  PROVE  Journal(pending', wire', line')
<1> SUFFICES ASSUME NEW m, m = Request(pending') PROVE Journal(pending', wire', line')
  OBVIOUS
<1>1. /\ pending # None /\ pending \in PendingType /\ WellFormed(pending) /\ Local(pending)
      /\ wire \in Seq(RequestType) /\ pending' # None /\ line' = line
      /\ wire' \in Transmit(wire, m)
  BY DEF Sending, TypeInv, TypeOK, Control, LocalInv, Maybe
<1>2. /\ m \in RequestType /\ m.op = phase /\ m.tid = pending.tid
      /\ m.cid = pending'.awaiting /\ WellAddressed(m)
  BY <1>1, SentRequest DEF WellFormed
<1>3. /\ pending'.phase = phase /\ pending'.target = pending.target /\ pending'.tid = pending.tid
      /\ pending'.acked = pending.acked /\ pending'.intent = None
      /\ pending'.restores \in Nat /\ pending.restores \in Nat
      /\ pending'.restores >= pending.restores
      /\ pending'.awaiting = CommandId(phase, IF phase = "query" THEN pending'.queries
                                              ELSE pending'.restores)
  BY <1>1, TransactionFields DEF Sending, Sent
<1>4. Early(pending') = Early(pending) /\ Applying(pending') = Applying(pending)
  BY <1>1, SentLocal
<1>5. /\ Len(wire) \in Nat
      /\ \A i \in 1..Len(wire') : \/ i \in 1..Len(wire) /\ wire'[i] = wire[i]
                                  \/ i = Len(wire) + 1 /\ wire'[i] = m
  BY <1>1, <1>2, Longer
<1>6. NotYetOn(pending', wire')
  <2>1. phase \in Moves => ~Early(pending')
    BY <1>3 DEF Moves, Early
  <2>. QED
    BY <1>2, <1>3, <1>4, <1>5, <2>1 DEF Journal, NotYetOn
<1>7. KnownOn(pending', wire')
  <2>1. ASSUME NEW cid \in Cid, Issued(pending, cid) PROVE Issued(pending', cid)
    <3>1. cid # None
      BY NoneAssumption
    <3>2. cid[1] = "restore" /\ cid[2] \in 1..pending.restores => cid[2] \in 1..pending'.restores
      BY <1>3
    <3>. QED
      BY <1>1, <1>3, <2>1, <3>1, <3>2 DEF Issued
  <2>2. \A i \in 1..Len(wire) : wire[i].cid \in Cid
    <3>1. \A i \in 1..Len(wire) : wire[i] \in RequestType
      BY <1>1
    <3>. QED
      BY <3>1 DEF RequestType
  <2>3. Issued(pending', m.cid)
    BY <1>2 DEF Issued
  <2>. QED
    BY <1>2, <1>3, <1>5, <2>1, <2>2, <2>3 DEF Journal, KnownOn
<1>8. \A t, cid : On(wire', t, cid) => On(wire, t, cid) \/ (m.tid = t /\ m.cid = cid)
  <2>1. \A i \in 1..Len(wire') : (i \in 1..Len(wire) /\ wire'[i] = wire[i]) \/ wire'[i] = m
    BY <1>5
  <2>. QED
    BY <2>1 DEF On
<1>9. PastOn(pending', wire')
  <2>1. m.cid = APPLY => Applying(pending')
    BY <1>2, <1>3, IdentityFields DEF APPLY, Applying
  <2>. QED
    BY <1>3, <1>4, <1>8, <2>1 DEF Journal, PastOn
<1>10. ASSUME NEW probe \in Probes
       PROVE  AskedOn(pending', wire', line', probe) /\ BehindOn(pending', wire', line', probe)
  <2>1. probe # None /\ probe[1] \notin Moves
    BY NoneAssumption DEF Probes, RECOVER, CommandId, Cid, Sends, Moves
  <2>2. AskedOn(pending', wire', line', probe)
    BY <1>1, <1>2, <1>3, <1>8, <2>1 DEF Journal, AskedOn
  <2>3. SUFFICES ASSUME pending'.awaiting = probe, probe \notin pending'.acked
                 PROVE  \A i \in 1..Len(wire') : wire'[i].tid = pending'.tid /\ wire'[i].op \in Moves =>
                          /\ ~On(line', pending'.tid, probe)
                          /\ \A j \in 1..Len(wire') :
                               wire'[j].tid = pending'.tid /\ wire'[j].cid = probe => i < j
    BY <2>2 DEF BehindOn
  <2>4. ~On(wire, pending.tid, probe) /\ ~On(line, pending.tid, probe)
    BY <1>3, <2>1, <2>3 DEF Journal, AskedOn
  <2>5. m.op \notin Moves
    BY <1>2, <1>3, <2>1, <2>3, IdentityFields
  <2>6. \A j \in 1..Len(wire') : wire'[j].tid = pending'.tid /\ wire'[j].cid = probe
                                   => j = Len(wire) + 1
    BY <1>3, <1>5, <2>4 DEF On
  <2>7. \A i \in 1..Len(wire') : wire'[i].op \in Moves => i \in 1..Len(wire)
    BY <1>5, <2>5
  <2>. QED
    BY <1>1, <1>3, <1>5, <2>4, <2>6, <2>7
<1>. QED
  BY <1>6, <1>7, <1>9, <1>10 DEF Journal

\* A transaction that has decided, or whose awaited command is answered or
\* given up, knows as much of its mutations as before.
LEMMA NotedJournal ==
  ASSUME NEW s, NEW x, NEW w \in Seq(RequestType), NEW l, Journal(s, w, l),
         \A i \in 1..Len(w) : WellAddressed(w[i]),
         x.tid = s.tid, x.awaiting = None, s.acked \subseteq x.acked, x.restores = s.restores,
         Early(x) => Early(s),
         ~Early(x) /\ ~Applying(x) /\ On(w, s.tid, APPLY) =>
           APPLY \in x.acked \/ (~Early(s) /\ ~Applying(s)),
         s.awaiting # None => s.awaiting[1] \notin Mutation
                              \/ s.awaiting \in x.acked \cup {x.target},
         \A i \in 1..Len(w) : w[i].tid = s.tid /\ w[i].op \in Mutation /\ w[i].cid = s.target =>
           w[i].cid = x.target \/ w[i].cid \in x.acked
             \/ (w[i].op = "restore" /\ w[i].cid[2] \in 1..s.restores),
         \/ x.intent # None
         \/ s.intent = None /\ (s.awaiting \notin Probes \/ s.awaiting \in x.acked)
  PROVE  Journal(x, w, l)
<1>1. NotYetOn(x, w)
  BY DEF Journal, NotYetOn
<1>2. KnownOn(x, w)
  <2> SUFFICES ASSUME NEW i \in 1..Len(w), w[i].tid = s.tid, w[i].op \in Mutation
               PROVE  Issued(x, w[i].cid)
    BY DEF KnownOn
  <2>1. w[i].cid[1] = w[i].op
    BY IdentityFields DEF WellAddressed
  <2>2. w[i].cid # None
    <3>1. w[i] \in RequestType
      OBVIOUS
    <3>. QED
      BY <3>1, NoneAssumption DEF RequestType
  <2>3. Issued(s, w[i].cid)
    BY DEF Journal, KnownOn
  <2>. QED
    BY <2>1, <2>2, <2>3 DEF Issued
<1>3. PastOn(x, w)
  BY DEF Journal, PastOn
<1>4. ASSUME NEW probe \in Probes PROVE AskedOn(x, w, l, probe) /\ BehindOn(x, w, l, probe)
  <2>1. AskedOn(x, w, l, probe)
    BY DEF Journal, AskedOn
  <2>2. probe # None
    BY NoneAssumption DEF Probes, RECOVER, CommandId, Cid, Sends
  <2>. QED
    BY <2>1, <2>2 DEF BehindOn
<1>. QED
  BY <1>1, <1>2, <1>3, <1>4 DEF Journal

LEMMA ExpiredJournal ==
  ASSUME TypeInv, TypeInv', LocalInv, WireInv, TimesOut, Journal(pending, wire, line),
         pending.intent = None
  PROVE  Journal(pending', wire, line)
<1> DEFINE asked == pending.awaiting
<1>1. /\ pending \in PendingType /\ Local(pending) /\ WellFormed(pending) /\ asked # None
      /\ wire \in Seq(RequestType) /\ \A i \in 1..Len(wire) : WellAddressed(wire[i])
  BY DEF TimesOut, TypeInv, TypeOK, Control, LocalInv, Maybe, WireInv
<1>2. /\ asked[1] = pending.phase
      /\ asked = CommandId(pending.phase, IF pending.phase = "query" THEN pending.queries
                                          ELSE pending.restores)
  BY <1>1, IdentityFields DEF Local
<1>3. PICK x \in PendingType :
        /\ Expired(x, asked) /\ x.tid = pending.tid /\ x.awaiting = None
        /\ x.acked = pending.acked /\ x.intent = None
        /\ x.phase = pending.phase /\ x.target = pending.target /\ x.restores = pending.restores
        /\ x.recovering = pending.recovering
  BY <1>1, ClearedFields DEF TimesOut
<1>4. CASE asked[1] \notin Mutation /\ \E term : Ends(x, term)
  <2>1. /\ pending'.tid = pending.tid /\ pending'.awaiting = None
        /\ pending'.acked = pending.acked /\ pending'.restores = pending.restores
        /\ pending'.phase = pending.phase /\ pending'.target = pending.target
        /\ pending'.recovering = pending.recovering /\ pc' = "seal"
    BY <1>3, <1>4 DEF Ends, Carried
  <2>2. pending'.intent # None
    BY <2>1 DEF TypeInv, Control
  <2>3. Early(pending') = Early(pending) /\ Applying(pending') = Applying(pending)
    BY <2>1 DEF Early, Applying
  <2>. QED
    BY <1>1, <1>4, <2>1, <2>2, <2>3, NotedJournal
<1>5. CASE asked[1] \in Mutation /\ Asks(x, asked)
  <2>1. /\ pending'.tid = pending.tid /\ pending'.awaiting = None
        /\ pending'.acked = pending.acked /\ pending'.restores = pending.restores
        /\ pending'.phase = pending.phase /\ pending'.target = asked
        /\ pending'.recovering = pending.recovering
    BY <1>3, <1>5 DEF Asks, Carried
  <2>2. Early(pending') = Early(pending) /\ Applying(pending') = Applying(pending)
    BY <1>2, <1>5, <2>1 DEF Early, Applying, Mutation
  <2>3. asked \notin Probes
    BY <1>5, IdentityFields DEF Probes, RECOVER, Mutation
  <2>4. ASSUME NEW i \in 1..Len(wire), wire[i].tid = pending.tid, wire[i].op \in Mutation,
               wire[i].cid = pending.target
        PROVE  \/ wire[i].cid = asked \/ wire[i].cid \in pending.acked
               \/ wire[i].op = "restore" /\ wire[i].cid[2] \in 1..pending.restores
    <3>1. wire[i].cid = CommandId(wire[i].op, wire[i].cid[2])
      BY <1>1 DEF WellAddressed
    <3>2. wire[i].cid # None
      <4>1. wire[i] \in RequestType
        BY <1>1
      <4>. QED
        BY <4>1, NoneAssumption DEF RequestType
    <3>3. CASE wire[i].op = "prepare"
      <4>1. wire[i].cid = PREPARE
        BY <3>1, <3>3 DEF CommandId, PREPARE
      <4>2. asked[1] = "prepare" => asked = PREPARE
        BY <1>2 DEF CommandId, PREPARE
      <4>3. asked[1] # "prepare" => ~Early(pending)
        BY <1>2, <1>5 DEF Early, Mutation
      <4>. QED
        BY <1>1, <4>1, <4>2, <4>3 DEF Local
    <3>4. CASE wire[i].op = "apply"
      <4>1. wire[i].cid = APPLY
        BY <3>1, <3>4 DEF CommandId, APPLY
      <4>2. asked[1] = "apply" => asked = APPLY
        BY <1>2 DEF CommandId, APPLY
      <4>3. ~Early(pending)
        BY <2>4, <3>4 DEF Journal, NotYetOn, Moves
      <4>4. asked[1] # "apply" => ~Applying(pending)
        BY <1>2, <1>5, <4>3 DEF Early, Applying, Mutation
      <4>5. On(wire, pending.tid, APPLY)
        BY <2>4, <4>1 DEF On
      <4>. QED
        BY <4>1, <4>2, <4>3, <4>4, <4>5 DEF Journal, PastOn
    <3>5. CASE wire[i].op = "restore"
      <4>1. wire[i].cid[1] = "restore"
        BY <3>1, <3>5, IdentityFields
      <4>. QED
        BY <1>1, <2>4, <3>2, <3>5, <4>1 DEF Local
    <3>. QED
      BY <2>4, <3>3, <3>4, <3>5 DEF Mutation
  <2>. QED
    BY <1>1, <2>1, <2>2, <2>3, <2>4, NotedJournal
<1>6. CASE \/ asked[1] = "query" /\ x.target[1] # "prepare" /\ Enters(x, "recover-state")
           \/ asked[1] = "verify" /\ Enters(x, "restore")
  <2>1. /\ pending'.tid = pending.tid /\ pending'.awaiting = None
        /\ pending'.acked = pending.acked /\ pending'.restores = pending.restores
        /\ pending'.target = pending.target
        /\ pending'.phase = (IF asked[1] = "query" THEN "recover-state" ELSE "restore")
        /\ pending'.recovering = (IF asked[1] = "query" THEN pending.target[1]
                                  ELSE pending.recovering)
    BY <1>3, <1>6 DEF Enters, Carried
  <2>2. /\ Early(pending') => Early(pending)
        /\ ~Early(pending') /\ ~Applying(pending') => ~Early(pending) /\ ~Applying(pending)
    BY <1>2, <1>3, <1>6, <2>1 DEF Early, Applying
  <2>3. asked \notin Probes /\ asked[1] \notin Mutation
    BY <1>6, IdentityFields DEF Probes, RECOVER, Mutation
  <2>. QED
    BY <1>1, <2>1, <2>2, <2>3, NotedJournal
<1>. QED
  BY <1>3, <1>4, <1>5, <1>6 DEF Expired, Mutation

LEMMA HeardJournal ==
  ASSUME TypeInv, TypeInv', LocalInv, WireInv, NEW r \in ReplyType, Hears(r),
         Journal(pending, wire, line), pending.intent = None
  PROVE  Journal(pending', wire, line)
<1> DEFINE asked == pending.awaiting
<1>1. /\ pending \in PendingType /\ Local(pending) /\ WellFormed(pending) /\ asked # None
      /\ wire \in Seq(RequestType) /\ \A i \in 1..Len(wire) : WellAddressed(wire[i])
      /\ Correlated(pending, r)
  BY DEF Hears, Correlated, TypeInv, TypeOK, Control, LocalInv, Maybe, WireInv
<1>2. /\ asked[1] = pending.phase
      /\ asked = CommandId(pending.phase, IF pending.phase = "query" THEN pending.queries
                                          ELSE pending.restores)
  BY <1>1, IdentityFields DEF Local
<1>3. PICK x \in PendingType :
        /\ Replied(x, asked, r) /\ x.tid = pending.tid /\ x.awaiting = None
        /\ x.acked = pending.acked \cup {r.cid} /\ x.intent = None
        /\ x.phase = pending.phase /\ x.target = pending.target /\ x.restores = pending.restores
        /\ x.recovering = pending.recovering
  BY <1>1, HeededFields DEF Hears
<1>4. asked[1] \notin Mutation \/ asked \in x.acked
  BY <1>1, <1>3 DEF Correlated, Mutation
<1>5. asked \notin Probes \/ asked \in x.acked
  BY <1>1, <1>3, IdentityFields DEF Correlated, Probes, RECOVER
<1>6. CASE \E term : Ends(x, term)
  <2>1. /\ pending'.tid = pending.tid /\ pending'.awaiting = None
        /\ pending'.acked = x.acked /\ pending'.restores = pending.restores
        /\ pending'.phase = pending.phase /\ pending'.target = pending.target
        /\ pending'.recovering = pending.recovering /\ pc' = "seal"
    BY <1>3, <1>6 DEF Ends, Carried
  <2>2. pending'.intent # None
    BY <2>1 DEF TypeInv, Control
  <2>3. Early(pending') = Early(pending) /\ Applying(pending') = Applying(pending)
    BY <2>1 DEF Early, Applying
  <2>. QED
    BY <1>1, <1>3, <1>4, <2>1, <2>2, <2>3, NotedJournal
<1>7. ASSUME NEW phase, Enters(x, phase),
             \/ phase \in {"prepare", "apply"} /\ Early(pending)
             \/ APPLY \in x.acked /\ phase \in {"restore", "verify"}
             \/ ~On(wire, pending.tid, APPLY) /\ phase = "restore"
             \/ phase \in {"restore", "restore-verify"} /\ ~Early(pending) /\ ~Applying(pending)
             \/ phase = "recover-state" /\ asked[1] = "query" /\ pending.target[1] # "prepare"
      PROVE  Journal(pending', wire, line)
  <2>1. /\ pending'.tid = pending.tid /\ pending'.awaiting = None
        /\ pending'.acked = x.acked /\ pending'.restores = pending.restores
        /\ pending'.target = pending.target /\ pending'.phase = phase
        /\ pending'.recovering = (IF phase = "recover-state" THEN pending.target[1]
                                  ELSE pending.recovering)
    BY <1>3, <1>7 DEF Enters, Carried
  <2>2. /\ Early(pending') => Early(pending)
        /\ ~Early(pending') /\ ~Applying(pending') /\ On(wire, pending.tid, APPLY) =>
             APPLY \in x.acked \/ (~Early(pending) /\ ~Applying(pending))
    BY <1>2, <1>7, <2>1 DEF Early, Applying
  <2>. QED
    BY <1>1, <1>3, <1>4, <1>5, <2>1, <2>2, NotedJournal
<1>8. CASE ~(asked[1] = "query" /\ r.cid = asked) /\ Judged(x, About(x, asked), r)
  <2> SUFFICES ASSUME NEW about, about = About(pending, asked)
               PROVE  Journal(pending', wire, line)
    OBVIOUS
  <2>1. /\ about = "state-before" => pending.phase = "state-before"
        /\ about = "prepare" => Early(pending)
        /\ about = "apply" => APPLY \in x.acked
        /\ about = "verify" => pending.phase = "verify"
        /\ about = "recover-state" => r.cid = RECOVER /\ asked[1] # "query"
        /\ about = "restore" => ~Early(pending) /\ ~Applying(pending)
    BY <1>1, <1>2, <1>3, <1>8, AnswerContext
  <2>2. Judged(x, about, r)
    BY <1>3, <1>8 DEF About
  <2>3. about = "recover-state" => ~On(wire, pending.tid, APPLY)
    <3> SUFFICES ASSUME about = "recover-state" PROVE ~On(wire, pending.tid, APPLY)
      OBVIOUS
    <3>1. asked = RECOVER /\ RECOVER \notin pending.acked
      BY <1>1, <2>1 DEF Correlated
    <3>2. On(line, pending.tid, RECOVER)
      <4>1. 1 \in 1..Len(line) /\ r = line[1] /\ r.tid = pending.tid
        BY <1>1 DEF Hears, Correlated, TypeInv, TypeOK
      <4>. QED
        BY <2>1, <4>1 DEF On
    <3>3. \A i \in 1..Len(wire) : wire[i].tid = pending.tid => wire[i].op \notin Moves
      BY <3>1, <3>2 DEF Journal, BehindOn, Probes
    <3>4. \A i \in 1..Len(wire) : wire[i].cid = APPLY => wire[i].op = "apply"
      BY <1>1, IdentityFields DEF WellAddressed, APPLY
    <3>. QED
      BY <3>3, <3>4 DEF On, Moves
  <2>4. pending.phase \in {"state-before", "verify"} =>
          (Early(pending) <=> pending.phase = "state-before") /\ ~Applying(pending)
    BY DEF Early, Applying
  <2>. QED
    BY <1>6, <1>7, <2>1, <2>2, <2>3, <2>4 DEF Judged
<1>. QED
  BY <1>3, <1>6, <1>7, <1>8 DEF Replied

\* Who has ended or is pending stays so.
LEMMA WhoseStep ==
  ASSUME TypeInv, WireInv, [Next]_vars
  PROVE  /\ \A t \in Txn : Settled(t) => Settled(t)'
         /\ \A t \in Txn : Whose(t) => Whose(t)'
<1>1. \A t \in Txn : Settled(t) => ledger'[t].terminals # <<>>
  <2>1. CASE SealTerminal
    <3>1. \A t \in Txn : t # pending.tid => ledger'[t] = ledger[t]
      BY <2>1, SealStep
    <3>2. ledger'[pending.tid].terminals # <<>>
      BY <2>1, SealStep
    <3>. QED
      BY <3>1, <3>2 DEF Settled
  <2>2. CASE WriteStatus \/ LoadSettled
    BY <2>2 DEF WriteStatus, LoadSettled, Settled
  <2>. QED
    BY <2>1, <2>2, Discreet DEF Settled, Terminals
<1>2. pending # None => Settled(pending.tid) \/ (pending' # None /\ pending'.tid = pending.tid)
  <2>1. CASE SealTerminal \/ WriteStatus \/ LoadSettled \/ UnlinkCommand
    BY <2>1 DEF SealTerminal, WriteStatus, LoadSettled, UnlinkCommand
  <2>2. CASE UnlinkPending
    BY <2>2 DEF UnlinkPending, WireInv
  <2>3. CASE \/ Crash \/ PollAdopt \/ ShutdownAdopt
             \/ \E t \in Txn, hz \in Rate, logged \in BOOLEAN : QueueRate(t, hz, logged)
    BY <2>3 DEF Crash, PollAdopt, ShutdownAdopt, Adopt, QueueRate, files
  <2>. QED
    BY <2>1, <2>2, <2>3, Neutral
<1>3. pending # None => pending.tid \in Txn
  BY DEF TypeInv, TypeOK, Maybe, PendingType
<1>. QED
  BY <1>1, <1>2, <1>3 DEF Whose, Settled

LEMMA WireStep ==
  ASSUME TypeInv, TypeInv', LocalInv, WireInv, [Next]_vars
  PROVE  WireInv'
<1>1. /\ wire \in Seq(RequestType) /\ line \in Seq(ReplyType)
      /\ \A i \in 1..Len(wire) : wire[i] \in RequestType /\ wire[i].tid \in Txn
      /\ \A i \in 1..Len(line) : line[i].tid \in Txn
      /\ pending # None => pending \in PendingType /\ pending.tid \in Txn
  <2>1. /\ wire \in Seq(RequestType) /\ line \in Seq(ReplyType)
        /\ pending # None => pending \in PendingType
    BY DEF TypeInv, TypeOK, Maybe
  <2>2. /\ \A i \in 1..Len(wire) : wire[i] \in RequestType
        /\ \A i \in 1..Len(line) : line[i] \in ReplyType
    BY <2>1
  <2>. QED
    BY <2>1, <2>2 DEF RequestType, ReplyType, PendingType
<1>2. \A t \in Txn : Whose(t) => Whose(t)'
  BY WhoseStep
<1>3. ASSUME wire' = wire,
             line' = line \/ (line # <<>> /\ line' = Tail(line)),
             pc' \in {"status", "unlink-pending"} => ledger'[pending'.tid].terminals # <<>>
      PROVE  WireInv'
  <2>1. \A i \in 1..Len(line') : \E j \in 1..Len(line) : line'[i] = line[j]
    <3>1. CASE line # <<>> /\ line' = Tail(line)
      <4>1. \A i \in 1..Len(line') : i + 1 \in 1..Len(line) /\ line'[i] = line[i + 1]
        BY <1>1, <3>1, TailTyped
      <4>. QED
        BY <4>1
    <3>. QED
      BY <1>3, <3>1
  <2>2. \A i \in 1..Len(line') : Whose(line[i].tid)'
    <3>1. \A j \in 1..Len(line) : \/ ledger'[line[j].tid].terminals # <<>>
                                  \/ pending' # None /\ pending'.tid = line[j].tid
      BY <1>1, <1>2 DEF WireInv, Whose, Settled
    <3>. QED
      BY <2>1, <3>1 DEF Whose, Settled
  <2>3. \A i \in 1..Len(wire') : WellAddressed(wire'[i]) /\ Whose(wire[i].tid)'
    BY <1>1, <1>2, <1>3 DEF WireInv, Whose, Settled
  <2>. QED
    BY <1>3, <2>2, <2>3 DEF WireInv, Settled
<1>4. ASSUME NEW phase \in Sends, Sending(phase), phase = "query" => pending.target # None
      PROVE  WireInv'
  <2> SUFFICES ASSUME NEW m, m = Request(pending') PROVE WireInv'
    OBVIOUS
  <2>1. m \in RequestType /\ m.tid = pending.tid /\ WellAddressed(m)
    BY <1>4, SentRequest
  <2>2. /\ wire' \in Transmit(wire, m) /\ line' = line /\ pc' = "read"
        /\ pending # None /\ pending' # None /\ pending'.tid = pending.tid /\ ledger' = ledger
    BY <1>4 DEF Sending, Sent
  <2>3. \A i \in 1..Len(wire') : (i \in 1..Len(wire) /\ wire'[i] = wire[i]) \/ wire'[i] = m
    BY <1>1, <2>1, <2>2, Longer
  <2>4. Whose(m.tid)
    BY <2>1, <2>2 DEF Whose
  <2>. QED
    BY <1>1, <1>2, <2>1, <2>2, <2>3, <2>4 DEF WireInv, Whose, Settled
<1>5. CASE PollSends \/ QuerySends
  <2>1. /\ pending # None /\ WellFormed(pending)
        /\ pc = "query" => pending.target # None
    BY <1>5 DEF PollSends, QuerySends, Sending, TypeInv, Control
  <2>2. PICK phase \in Sends : Sending(phase) /\ (phase = "query" => pending.target # None)
    BY <1>5, <2>1 DEF PollSends, QuerySends, WellFormed, Sends
  <2>. QED
    BY <1>4, <2>2
<1>6. CASE TimesOut \/ (\E r \in ReplyType : Hears(r)) \/ Stops
  <2>1. /\ pending # None /\ pending' # None /\ pending'.tid = pending.tid
        /\ ledger' = ledger /\ wire' = wire
        /\ line' = line \/ (line # <<>> /\ line' = Tail(line))
        /\ pc' \notin {"status", "unlink-pending"}
    <3>1. CASE TimesOut
      <4>1. PICK x : Expired(x, pending.awaiting) /\ x.tid = pending.tid
        BY <1>1, <3>1, ClearedFields DEF TimesOut
      <4>. QED
        BY <3>1, <4>1 DEF TimesOut, Expired, Ends, Enters, Asks, Carried, link
    <3>2. ASSUME NEW r \in ReplyType, Hears(r)
          PROVE  /\ pending # None /\ pending' # None /\ pending'.tid = pending.tid
                 /\ ledger' = ledger /\ wire' = wire /\ line # <<>> /\ line' = Tail(line)
                 /\ pc' \notin {"status", "unlink-pending"}
      <4>1. PICK x : Replied(x, pending.awaiting, r) /\ x.tid = pending.tid
        BY <1>1, <3>2, HeededFields DEF Hears
      <4>. QED
        BY <3>2, <4>1 DEF Hears, Replied, Judged, Ends, Enters, Carried
    <3>3. CASE Stops
      BY <3>3 DEF Stops, Ends, Carried, link
    <3>. QED
      BY <1>6, <3>1, <3>2, <3>3
  <2>. QED
    BY <1>3, <2>1
<1>7. CASE Adopts
  BY <1>3, <1>7 DEF Adopts, link
<1>8. CASE Forgets
  BY <1>3, <1>8 DEF Forgets, link
<1>9. CASE SealTerminal
  <2>1. ledger'[pending.tid].terminals # <<>> /\ pending' = pending /\ UNCHANGED link
    BY <1>9, SealStep DEF SealTerminal, Terminals
  <2>. QED
    BY <1>3, <2>1 DEF link
<1>10. CASE Idles
  <2>1. \A t \in Txn : Settled(t)' <=> Settled(t)
    BY <1>10 DEF Idles, Settled
  <2>2. pc' \in {"status", "unlink-pending"} => Settled(pending.tid) /\ pending # None
    BY <1>10 DEF Idles, WireInv, TypeInv, Control
  <2>. QED
    BY <1>1, <1>3, <1>10, <2>1, <2>2 DEF Idles, Settled
<1>11. ASSUME NEW o, NEW f, Serves(o, f)
       PROVE  WireInv'
  <2>1. /\ wire # <<>> /\ wire' = Tail(wire) /\ line' \in Transmit(line, f) /\ f \in ReplyType
        /\ UNCHANGED <<pending, ledger, pc>> /\ f.tid = Head(wire).tid
    <3>1. f \in ReplyType /\ f.tid = o.reply.tid
      BY <1>11 DEF Serves, Malformed, ReplyType
    <3>2. o.reply.tid = Head(wire).tid
      BY <1>11, ServesCases DEF Replays, Tells, Performs, Reply
    <3>. QED
      BY <1>11, <3>1, <3>2 DEF Serves, files, worker
  <2>2. \A i \in 1..Len(wire') : i + 1 \in 1..Len(wire) /\ wire'[i] = wire[i + 1]
    BY <1>1, <2>1, TailTyped
  <2>3. \A i \in 1..Len(line') : (i \in 1..Len(line) /\ line'[i] = line[i]) \/ line'[i] = f
    BY <1>1, <2>1, Longer
  <2>4. Whose(f.tid) /\ f.tid \in Txn
    <3>1. 1 \in 1..Len(wire) /\ Head(wire) = wire[1]
      BY <1>1, <2>1, TailTyped
    <3>. QED
      BY <1>1, <2>1, <3>1 DEF WireInv
  <2>. QED
    BY <1>1, <1>2, <2>1, <2>2, <2>3, <2>4 DEF WireInv, Whose, Settled
<1>12. CASE \E hz \in Rate : Wanders(hz)
  <2>1. UNCHANGED <<pending, ledger, pc, wire, line>>
    BY <1>12 DEF Wanders, files, worker
  <2>. QED
    BY <1>1, <2>1 DEF WireInv, Whose, Settled
<1>. QED
  BY <1>5, <1>6, <1>7, <1>8, <1>9, <1>10, <1>11, <1>12, Steps

LEMMA JournalStep ==
  ASSUME TypeInv, TypeInv', LocalInv, TruthInv, WireInv, JournalInv, [Next]_vars
  PROVE  JournalInv'
<1> SUFFICES ASSUME pending' # None, ledger'[pending'.tid].terminals = <<>>
             PROVE  Journal(pending', wire', line')
  BY DEF JournalInv, Settled
<1>1. /\ wire \in Seq(RequestType) /\ line \in Seq(ReplyType)
      /\ pending # None => pending \in PendingType /\ pending.tid \in Txn /\ WellFormed(pending)
      /\ \A i \in 1..Len(wire) : wire[i].tid \in Txn
      /\ \A i \in 1..Len(line) : line[i].tid \in Txn
  <2>1. /\ wire \in Seq(RequestType) /\ line \in Seq(ReplyType)
        /\ pending # None => pending \in PendingType /\ WellFormed(pending)
    BY DEF TypeInv, TypeOK, Control, Maybe
  <2>2. /\ \A i \in 1..Len(wire) : wire[i] \in RequestType
        /\ \A i \in 1..Len(line) : line[i] \in ReplyType
    BY <2>1
  <2>. QED
    BY <2>1, <2>2 DEF RequestType, ReplyType, PendingType
<1>2. ASSUME pending # None, pending'.tid = pending.tid, ledger' = ledger
      PROVE  Journal(pending, wire, line)
  BY <1>2 DEF JournalInv, Settled
<1>3. ASSUME Journal(pending', wire, line), wire' = wire,
             line' = line \/ (line # <<>> /\ line' = Tail(line))
      PROVE  Journal(pending', wire', line')
  BY <1>1, <1>3, ReadJournal
<1>4. CASE PollSends \/ QuerySends
  <2>1. PICK phase \in Sends :
          /\ Sending(phase) /\ pending.awaiting = None
          /\ \/ phase = pending.phase
             \/ phase = "state-before" /\ pending.phase = "queued"
             \/ phase = "query" /\ pending.target # None /\ pending.phase = pending.target[1]
    BY <1>4 DEF PollSends, QuerySends, Sends, LocalInv, TypeInv, Control
  <2>2. /\ pending # None /\ pending'.tid = pending.tid /\ ledger' = ledger
        /\ pending.intent = None
    BY <1>4, <2>1 DEF Sending, Sent, PollSends, QuerySends, Polling, TruthInv, Closing
  <2>3. Journal(pending, wire, line)
    BY <1>2, <2>2
  <2>. QED
    BY <2>1, <2>2, <2>3, SentJournal
<1>5. CASE TimesOut
  <2>1. /\ pending # None /\ pending.intent = None /\ ledger' = ledger /\ wire' = wire
        /\ line' = line
    BY <1>5 DEF TimesOut, Polling, TruthInv, Closing, link
  <2>2. pending'.tid = pending.tid
    <3>1. PICK x : Expired(x, pending.awaiting) /\ x.tid = pending.tid
      BY <1>1, <1>5, ClearedFields DEF TimesOut
    <3>. QED
      BY <3>1 DEF Expired, Ends, Enters, Asks, Carried
  <2>3. Journal(pending, wire, line)
    BY <1>2, <2>1, <2>2
  <2>. QED
    BY <1>5, <2>1, <2>3, ExpiredJournal
<1>6. ASSUME NEW r \in ReplyType, Hears(r) PROVE Journal(pending', wire', line')
  <2>1. /\ pending # None /\ pending.intent = None /\ ledger' = ledger /\ wire' = wire
        /\ line # <<>> /\ line' = Tail(line)
    BY <1>6 DEF Hears, TruthInv, Closing
  <2>2. pending'.tid = pending.tid
    <3>1. PICK x : Replied(x, pending.awaiting, r) /\ x.tid = pending.tid
      BY <1>1, <1>6, HeededFields DEF Hears
    <3>. QED
      BY <3>1 DEF Replied, Judged, Ends, Enters, Carried
  <2>3. Journal(pending, wire, line)
    BY <1>2, <2>1, <2>2
  <2>4. Journal(pending', wire, line)
    BY <1>6, <2>1, <2>3, HeardJournal
  <2>. QED
    BY <1>3, <2>1, <2>4
<1>7. CASE Stops
  <2>1. /\ pending # None /\ ledger' = ledger /\ wire' = wire /\ line' = line
        /\ pending'.tid = pending.tid /\ pc' = "seal"
        /\ pending'.awaiting = pending.awaiting /\ pending'.acked = pending.acked
        /\ pending'.phase = pending.phase /\ pending'.target = pending.target
        /\ pending'.recovering = pending.recovering /\ pending'.restores = pending.restores
    BY <1>7 DEF Stops, Ends, Carried, link
  <2>2. pending'.intent # None /\ Journal(pending, wire, line)
    BY <1>2, <2>1 DEF TypeInv, Control
  <2>3. Early(pending') = Early(pending) /\ Applying(pending') = Applying(pending)
    BY <2>1 DEF Early, Applying
  <2>. QED
    BY <2>1, <2>2, <2>3
       DEF Journal, NotYetOn, KnownOn, Issued, PastOn, AskedOn, BehindOn
<1>8. CASE Adopts
  <2>1. /\ wire' = wire /\ line' = line
        /\ \A i \in 1..Len(wire) : wire[i].tid # pending'.tid
        /\ \A i \in 1..Len(line) : line[i].tid # pending'.tid
    BY <1>1, <1>8 DEF Adopts, link, WireInv, Whose, Settled
  <2>. QED
    BY <2>1 DEF Journal, NotYetOn, KnownOn, PastOn, AskedOn, BehindOn, On
<1>9. CASE Forgets
  BY <1>9 DEF Forgets
<1>10. CASE SealTerminal
  BY <1>10, SealStep
<1>11. CASE Idles
  <2>1. /\ pending' = pending /\ wire' = wire
        /\ line' = line \/ (line # <<>> /\ line' = Tail(line))
        /\ ledger[pending.tid].terminals = <<>>
    BY <1>1, <1>11 DEF Idles
  <2>. QED
    BY <1>3, <2>1 DEF JournalInv, Settled
<1>12. ASSUME NEW o, NEW f, Serves(o, f) PROVE Journal(pending', wire', line')
  <2>1. /\ wire # <<>> /\ wire' = Tail(wire) /\ line' \in Transmit(line, f)
        /\ pending' = pending /\ ledger' = ledger
    BY <1>12 DEF Serves, files, worker
  <2>2. f \in ReplyType /\ f.tid = o.reply.tid /\ f.cid = o.reply.cid
    BY <1>12 DEF Serves, Malformed, ReplyType
  <2>3. WellAddressed(Head(wire))
    BY <1>1, <2>1, TailTyped DEF WireInv
  <2>4. /\ o.reply.tid = Head(wire).tid
        /\ o.reply.cid \in Probes => Head(wire).cid = o.reply.cid
    <3>1. Head(wire).op = "query" => Head(wire).target \notin Probes
      BY <2>3 DEF WellAddressed, Probes, RECOVER, CommandId, Mutation
    <3>. QED
      BY <1>12, <3>1, ServesCases DEF Replays, Tells, Performs, Reply
  <2>5. Journal(pending, wire, line)
    BY <2>1 DEF JournalInv, Settled
  <2>. QED
    BY <1>1, <2>1, <2>2, <2>4, <2>5, ServedJournal
<1>13. CASE \E hz \in Rate : Wanders(hz)
  <2>1. UNCHANGED <<pending, ledger, wire, line>>
    BY <1>13 DEF Wanders, files, worker
  <2>. QED
    BY <2>1 DEF JournalInv, Settled
<1>. QED
  BY <1>4, <1>5, <1>6, <1>7, <1>8, <1>9, <1>10, <1>11, <1>12, <1>13, Steps

\* No PREPARE, APPLY or RESTORE is on the line that the pending file does not
\* know of, unless its transaction has ended: whatever is lost, late or
\* malformed, whenever the process dies, and when identities are used again
\* (_send_phase saves before it writes; handle_reply asks GET_STATE behind the
\* mutation it asks about).
THEOREM MutationsAreJournaled == Spec => []MutationJournaled
<1>1. Init => LocalInv /\ TruthInv /\ WireInv /\ JournalInv
  BY DEF Init, Boot, LocalInv, TruthInv, Terminals, WireInv, JournalInv
<1>2. TypeInv /\ WireInv /\ JournalInv => MutationJournaled
  <2> SUFFICES ASSUME TypeInv, WireInv, JournalInv, NEW i \in 1..Len(wire),
                      wire[i].op \in {"prepare", "apply", "restore"}, ~Settled(wire[i].tid)
               PROVE  pending # None /\ pending.tid = wire[i].tid /\ Issued(pending, wire[i].cid)
    BY DEF MutationJournaled
  <2>1. pending # None /\ pending.tid = wire[i].tid
    BY DEF WireInv, Whose
  <2>. QED
    BY <2>1 DEF JournalInv, Journal, KnownOn, Mutation
<1>3. TypeInv /\ LocalInv /\ TruthInv /\ WireInv /\ JournalInv /\ [Next]_vars
        => LocalInv' /\ TruthInv' /\ WireInv' /\ JournalInv'
  BY TypeStep, LocalStep, TruthStep, WireStep, JournalStep
<1>. QED
  BY TypeInvariant, <1>1, <1>2, <1>3, PTL DEF Spec

-----------------------------------------------------------------------------
(* When the firmware's answers are sound, what a mutation did to it shows  *)
(* in them: a transaction that is declared failed-safe, or whose outcome   *)
(* is clear, moves the sensor no more.                                     *)

\* The answers that firmware d retains or that are on the line l.
Answers(d, l) == d.retained \cup {l[i] : i \in 1..Len(l)}

\* The APPLY of transaction t was answered.
Told(d, l, t) == \E r \in Answers(d, l) : r.tid = t /\ r.cid = APPLY

\* An APPLY of t would be performed, if it were not answered as before.
Armed(d, t) == d.prepared # None /\ d.prepared.tid = t
Disarmed(d, t) == Armed(d, t) => \E r \in d.retained : r.tid = t /\ r.cid = APPLY

\* No APPLY of t, on the line w or to come, moves the sensor.
Spent(d, w, t) == Disarmed(d, t) /\ \A i \in 1..Len(w) : w[i].op = "prepare" => w[i].tid # t

\* What a transaction t that has this outcome leaves behind.
Harmless(d, w, t, term) ==
  /\ term # "rollback-failed" =>
       \A i \in 1..Len(w) : w[i].tid = t => w[i].op # "restore" /\ (w[i].op = "apply" => Spent(d, w, t))
  /\ term = "failed-safe" => d.owner # t

\* While the transaction s is undecided: before its APPLY was sent, it did not
\* move the sensor;
Untouched(s, d, l) ==
  Early(s) => d.owner # s.tid /\ APPLY \notin s.acked /\ ~Told(d, l, s.tid)

\* once its APPLY was answered, no other can be performed, for no PREPARE, not
\* even another transaction's, is left that would make the firmware forget;
Spending(s, d, w, l) ==
  Told(d, l, s.tid) \/ APPLY \in s.acked =>
    Disarmed(d, s.tid) /\ \A i \in 1..Len(w) : w[i].op # "prepare"

Orderly(s, w) ==
  \A i, j \in 1..Len(w) : w[i].tid = s.tid /\ w[i].op = "apply" /\ w[j].op = "prepare" => j < i

\* while the rate in force is its APPLY's doing, all answers say so;
Owning(s, d, l) ==
  d.owner = s.tid /\ s.restores = 0 =>
    /\ d.hz = s.hz /\ \E r \in d.retained : r.tid = s.tid /\ r.cid = APPLY
    /\ \A r \in Answers(d, l) :
         r.tid = s.tid /\ r.cid = APPLY => r.verdict \in {"applied", "uncertain"}
    /\ s.awaiting = RECOVER /\ RECOVER \notin s.acked =>
         \A i \in 1..Len(l) : l[i].tid = s.tid /\ l[i].cid = RECOVER => l[i].hz = s.hz

\* and what it prepared is the rate it was asked for.
Exact(s, d, w) ==
  /\ \A i \in 1..Len(w) : w[i].tid = s.tid /\ w[i].op = "prepare" => w[i].hz = s.hz
  /\ Armed(d, s.tid) => d.prepared.hz = s.hz

Flight(s, d, w, l) ==
  /\ Untouched(s, d, l) /\ Spending(s, d, w, l) /\ Orderly(s, w)
  /\ Owning(s, d, l) /\ Exact(s, d, w)

\* Whatever the firmware holds is of a transaction that has ended or is pending.
Trace(d, l) ==
  /\ d.owner # None => Whose(d.owner)
  /\ d.prepared # None => Whose(d.prepared.tid)
  /\ \A r \in d.retained : Whose(r.tid)
  /\ \A r \in Answers(d, l) : r.cid[1] \in Mutation => r.op = r.cid[1]

HoldInv ==
  /\ Trace(device, line)
  /\ pending # None /\ pending.intent = None => Flight(pending, device, wire, line)
  /\ pending # None /\ pending.intent # None =>
       Harmless(device, wire, pending.tid, pending.intent)
  /\ \A t \in Txn : \A i \in 1..Len(Terminals(t)) :
       Harmless(device, wire, t, Terminals(t)[i].term)

\* No malformed answer is left to come.
Faultless == budget["faults"] = 0

LEMMA FaultlessStep == TypeInv /\ Faultless /\ [Next]_vars => Faultless'
<1> SUFFICES ASSUME TypeInv, Faultless, [Next]_vars PROVE Faultless'
  OBVIOUS
<1>1. ASSUME NEW what \in {"requests", "crashes", "reboots", "drifts", "faults"}, Spend(what)
      PROVE  Faultless'
  BY <1>1 DEF Spend, Faultless, TypeInv, TypeOK
<1>2. CASE budget' = budget
  BY <1>2 DEF Faultless
<1>3. CASE Host
  BY <1>1, <1>3 DEF Host, QueueRate, Crash
<1>4. CASE Device
  BY <1>1, <1>2, <1>4, Zenon DEF Device, Serve, ServeFaulty, Drift, Reboot
<1>5. CASE Worker
  BY <1>2, <1>5
     DEF Worker, UnlinkCommand, PollIdle, PollAdopt, PollSend, PollWait, PollTimeout, SendQuery,
         ReadNothing, ReadIgnored, ReadReply, ShutdownIdle, ShutdownAdopt, ShutdownSeal,
         SealTerminal, WriteStatus, UnlinkPending, LoadSettled, Load, Adopt
<1>. QED
  BY <1>2, <1>3, <1>4, <1>5 DEF Next, Terminated, vars

\* An answer that was read or lost leaves fewer.
LEMMA FewerAnswers ==
  ASSUME NEW d, NEW l \in Seq(ReplyType), l # <<>>
  PROVE  /\ Answers(d, Tail(l)) \subseteq Answers(d, l)
         /\ \A t : Told(d, Tail(l), t) => Told(d, l, t)
<1>1. \A i \in 1..Len(Tail(l)) : i + 1 \in 1..Len(l) /\ Tail(l)[i] = l[i + 1]
  BY TailTyped
<1>. QED
  BY <1>1 DEF Answers, Told

\* An answer of the firmware adds one.
LEMMA MoreAnswers ==
  ASSUME NEW d, NEW e, NEW l \in Seq(ReplyType), NEW r \in ReplyType, NEW k \in Transmit(l, r),
         e.retained \subseteq d.retained \cup {r}
  PROVE  /\ Answers(e, k) \subseteq Answers(d, l) \cup {r}
         /\ \A t : Told(e, k, t) => Told(d, l, t) \/ (r.tid = t /\ r.cid = APPLY)
<1>1. \A i \in 1..Len(k) : (i \in 1..Len(l) /\ k[i] = l[i]) \/ k[i] = r
  BY Longer
<1>. QED
  BY <1>1 DEF Answers, Told

LEMMA FlightFewer ==
  ASSUME NEW s, NEW d, NEW w, NEW l \in Seq(ReplyType), l # <<>>, Flight(s, d, w, l)
  PROVE  Flight(s, d, w, Tail(l))
<1>1. /\ Answers(d, Tail(l)) \subseteq Answers(d, l)
      /\ \A t : Told(d, Tail(l), t) => Told(d, l, t)
      /\ \A i \in 1..Len(Tail(l)) : i + 1 \in 1..Len(l) /\ Tail(l)[i] = l[i + 1]
  BY FewerAnswers, TailTyped
<1>2. Untouched(s, d, Tail(l)) /\ Spending(s, d, w, Tail(l))
  BY <1>1 DEF Flight, Untouched, Spending
<1>3. Owning(s, d, Tail(l))
  BY <1>1 DEF Flight, Owning
<1>. QED
  BY <1>2, <1>3 DEF Flight

\* The firmware answers a request.
LEMMA FlightServed ==
  ASSUME NEW s \in PendingType, Local(s), NEW d \in DeviceType,
         NEW w \in Seq(RequestType), w # <<>>, NEW l \in Seq(ReplyType),
         NEW m, m = Head(w), WellAddressed(m), NEW o, o.reply \in ReplyType,
         Replays(d, m, o) \/ Tells(d, m, o) \/ Performs(d, m, o),
         NEW k \in Transmit(l, o.reply), Journal(s, w, l), Flight(s, d, w, l)
  PROVE  Flight(s, o.device, Tail(w), k)
<1> SUFFICES ASSUME NEW e, e = o.device, NEW r, r = o.reply PROVE Flight(s, e, Tail(w), k)
  OBVIOUS
<1>1. /\ \A i \in 1..Len(Tail(w)) : i + 1 \in 1..Len(w) /\ Tail(w)[i] = w[i + 1]
      /\ 1 \in 1..Len(w) /\ m = w[1] /\ Len(w) \in Nat
  BY TailTyped
<1>2. \A i \in 1..Len(k) : (i \in 1..Len(l) /\ k[i] = l[i]) \/ k[i] = r
  BY Longer
<1>3. Orderly(s, Tail(w))
  <2> SUFFICES ASSUME NEW i \in 1..Len(Tail(w)), NEW j \in 1..Len(Tail(w)),
                      Tail(w)[i].tid = s.tid, Tail(w)[i].op = "apply", Tail(w)[j].op = "prepare"
               PROVE  j < i
    BY DEF Orderly
  <2>1. i + 1 \in 1..Len(w) /\ j + 1 \in 1..Len(w) /\ w[i + 1] = Tail(w)[i] /\ w[j + 1] = Tail(w)[j]
    BY <1>1
  <2>2. j + 1 < i + 1
    BY <2>1 DEF Flight, Orderly
  <2>. QED
    BY <2>2
<1>4. m.cid[1] = m.op /\ (m.cid = APPLY => m.op = "apply") /\ (m.op = "apply" => m.cid = APPLY)
      /\ (m.op = "prepare" => m.cid # APPLY) /\ (m.op = "restore" => m.cid # APPLY)
  BY IdentityFields DEF WellAddressed, APPLY, CommandId
<1>5. \A i \in 1..Len(Tail(w)) : Tail(w)[i].tid = s.tid /\ Tail(w)[i].op = "prepare"
                                   => Tail(w)[i].hz = s.hz
  BY <1>1 DEF Flight, Exact
<1>6. (\A i \in 1..Len(w) : w[i].op # "prepare") => \A i \in 1..Len(Tail(w)) : Tail(w)[i].op # "prepare"
  BY <1>1
<1>7. CASE e = d /\ r \in d.retained /\ r.cid # RECOVER
  <2>1. e.retained \subseteq d.retained \cup {r} /\ r \in Answers(d, l)
    BY <1>7 DEF Answers
  <2>2. Answers(e, k) \subseteq Answers(d, l) /\ \A t : Told(e, k, t) => Told(d, l, t)
    BY <2>1, MoreAnswers DEF Told
  <2>3. Untouched(s, e, k) /\ Spending(s, e, Tail(w), k)
    BY <1>6, <1>7, <2>2 DEF Flight, Untouched, Spending
  <2>4. Owning(s, e, k)
    BY <1>2, <1>7, <2>2 DEF Flight, Owning
  <2>5. Exact(s, e, Tail(w))
    BY <1>5, <1>7 DEF Flight, Exact
  <2>. QED
    BY <1>3, <2>3, <2>4, <2>5 DEF Flight
<1>8. CASE e = d /\ r.hz = d.hz /\ r.cid # APPLY
  <2>1. Answers(e, k) \subseteq Answers(d, l) \cup {r} /\ \A t : Told(e, k, t) => Told(d, l, t)
    BY <1>2, <1>8 DEF Answers, Told
  <2>2. Untouched(s, e, k) /\ Spending(s, e, Tail(w), k)
    BY <1>6, <1>8, <2>1 DEF Flight, Untouched, Spending
  <2>3. Owning(s, e, k)
    BY <1>2, <1>8, <2>1 DEF Flight, Owning
  <2>4. Exact(s, e, Tail(w))
    BY <1>5, <1>8 DEF Flight, Exact
  <2>. QED
    BY <1>3, <2>2, <2>3, <2>4 DEF Flight
<1>9. CASE Performs(d, m, o)
  <2>1. /\ r.tid = m.tid /\ r.cid = m.cid /\ r \in e.retained
        /\ e.retained \subseteq d.retained \cup {r}
        /\ r.verdict # "prepared" => d.retained \subseteq e.retained
        /\ m.op \in Mutation /\ Retained(d, m.tid, m.cid) = {}
    BY <1>9 DEF Performs
  <2>2. /\ Answers(e, k) \subseteq Answers(d, l) \cup {r}
        /\ \A t : Told(e, k, t) => Told(d, l, t) \/ (r.tid = t /\ r.cid = APPLY)
    BY <2>1, MoreAnswers
  <2>3. \/ /\ e.hz = d.hz /\ e.owner = d.owner /\ e.prepared = d.prepared
           /\ r.verdict \in {"refused", "uncertain"}
        \/ /\ e.hz = d.hz /\ e.owner = d.owner /\ m.op = "prepare"
           /\ e.prepared = [tid |-> m.tid, hz |-> m.hz] /\ r.verdict = "prepared"
        \/ /\ e.owner = m.tid /\ m.op = "apply" /\ e.prepared = None /\ Armed(d, m.tid)
           /\ e.hz = d.prepared.hz /\ r.verdict \in {"applied", "uncertain"}
        \/ /\ e.owner = m.tid /\ m.op = "restore" /\ e.prepared = d.prepared
           /\ r.verdict = "restored"
    BY <1>9 DEF Performs, Armed
  <2>4. CASE m.tid # s.tid
    <3>1. \A t : Told(e, k, s.tid) => Told(d, l, s.tid)
      BY <2>1, <2>2, <2>4
    <3>2. Armed(e, s.tid) => Armed(d, s.tid) /\ e.prepared = d.prepared
      BY <2>3, <2>4 DEF Armed
    <3>3. e.owner = s.tid => d.owner = s.tid /\ e.hz = d.hz
      BY <2>3, <2>4
    <3>4. Told(d, l, s.tid) \/ APPLY \in s.acked => m.op # "prepare" /\ r.verdict # "prepared"
      <4>1. Told(d, l, s.tid) \/ APPLY \in s.acked => m.op # "prepare"
        BY <1>1 DEF Flight, Spending
      <4>. QED
        BY <2>3, <4>1
    <3>5. Untouched(s, e, k)
      BY <3>1, <3>3 DEF Flight, Untouched
    <3>6. Spending(s, e, Tail(w), k)
      BY <1>6, <2>1, <3>1, <3>2, <3>4 DEF Flight, Spending, Disarmed
    <3>7. Owning(s, e, k)
      <4> SUFFICES ASSUME e.owner = s.tid, s.restores = 0
                   PROVE  /\ e.hz = s.hz /\ \E a \in e.retained : a.tid = s.tid /\ a.cid = APPLY
                          /\ \A a \in Answers(e, k) :
                               a.tid = s.tid /\ a.cid = APPLY => a.verdict \in {"applied", "uncertain"}
                          /\ s.awaiting = RECOVER /\ RECOVER \notin s.acked =>
                               \A i \in 1..Len(k) :
                                 k[i].tid = s.tid /\ k[i].cid = RECOVER => k[i].hz = s.hz
        BY DEF Owning
      <4>1. /\ d.hz = s.hz /\ \E a \in d.retained : a.tid = s.tid /\ a.cid = APPLY
            /\ \A a \in Answers(d, l) :
                 a.tid = s.tid /\ a.cid = APPLY => a.verdict \in {"applied", "uncertain"}
            /\ s.awaiting = RECOVER /\ RECOVER \notin s.acked =>
                 \A i \in 1..Len(l) : l[i].tid = s.tid /\ l[i].cid = RECOVER => l[i].hz = s.hz
        BY <3>3 DEF Flight, Owning
      <4>2. d.retained \subseteq e.retained
        BY <2>1, <3>4, <4>1 DEF Told, Answers
      <4>. QED
        BY <1>2, <2>1, <2>2, <2>4, <3>3, <4>1, <4>2
    <3>8. Exact(s, e, Tail(w))
      BY <1>5, <3>2 DEF Flight, Exact
    <3>. QED
      BY <1>3, <3>5, <3>6, <3>7, <3>8 DEF Flight
  <2>5. CASE m.tid = s.tid /\ m.op = "prepare"
    <3>1. ~Told(d, l, s.tid) /\ APPLY \notin s.acked
      BY <1>1, <2>5 DEF Flight, Spending
    <3>2. ~Told(e, k, s.tid)
      BY <1>4, <2>1, <2>2, <2>5, <3>1
    <3>3. e.hz = d.hz /\ e.owner = d.owner
      BY <2>3, <2>5
    <3>4. ~(d.owner = s.tid /\ s.restores = 0)
      BY <3>1 DEF Flight, Owning, Told, Answers
    <3>5. Exact(s, e, Tail(w))
      <4>1. m.hz = s.hz
        BY <1>1, <2>5 DEF Flight, Exact
      <4>. QED
        BY <1>5, <2>3, <2>5, <4>1 DEF Flight, Exact, Armed
    <3>. QED
      BY <1>3, <3>1, <3>2, <3>3, <3>4, <3>5 DEF Flight, Untouched, Spending, Owning
  <2>6. CASE m.tid = s.tid /\ m.op = "apply"
    <3>1. ~Early(s) /\ r.cid = APPLY /\ r.tid = s.tid
      BY <1>1, <1>4, <2>1, <2>6 DEF Journal, NotYetOn, Moves
    <3>2. \A j \in 1..Len(w) : w[j].op # "prepare"
      BY <1>1, <2>6 DEF Flight, Orderly
    <3>3. Spending(s, e, Tail(w), k)
      BY <1>6, <2>1, <3>1, <3>2 DEF Spending, Disarmed
    <3>4. \A a \in d.retained : ~(a.tid = s.tid /\ a.cid = APPLY)
      BY <1>4, <2>1, <2>6 DEF Retained
    <3>5. ~(d.owner = s.tid /\ s.restores = 0)
      BY <3>4 DEF Flight, Owning
    <3>6. Owning(s, e, k)
      <4> SUFFICES ASSUME e.owner = s.tid, s.restores = 0 PROVE Owning(s, e, k)
        BY DEF Owning
      <4>1. Armed(d, s.tid) /\ e.hz = d.prepared.hz /\ r.verdict \in {"applied", "uncertain"}
        BY <2>3, <2>6, <3>5
      <4>2. e.hz = s.hz
        BY <4>1 DEF Flight, Exact
      <4>3. ~Told(d, l, s.tid)
        BY <3>4, <4>1 DEF Flight, Spending, Disarmed
      <4>4. \A a \in Answers(e, k) :
              a.tid = s.tid /\ a.cid = APPLY => a.verdict \in {"applied", "uncertain"}
        BY <2>2, <4>1, <4>3 DEF Told
      <4>5. s.awaiting = RECOVER /\ RECOVER \notin s.acked => ~On(l, s.tid, RECOVER)
        BY <1>1, <2>6 DEF Journal, BehindOn, Probes, Moves
      <4>6. APPLY # RECOVER
        BY DEF APPLY, RECOVER, CommandId
      <4>. QED
        BY <1>2, <2>1, <3>1, <4>2, <4>4, <4>5, <4>6 DEF Owning, On
    <3>7. Exact(s, e, Tail(w))
      BY <1>5, <2>3, <2>6 DEF Flight, Exact, Armed
    <3>. QED
      BY <1>3, <3>1, <3>3, <3>6, <3>7 DEF Flight, Untouched
  <2>7. CASE m.tid = s.tid /\ m.op = "restore"
    <3>1. ~Early(s)
      BY <1>1, <2>7 DEF Journal, NotYetOn, Moves
    <3>2. Issued(s, m.cid) /\ m.cid[1] = "restore" /\ m.cid # None
      <4>1. m \in RequestType
        BY <1>1
      <4>2. m.cid # None
        BY <4>1, NoneAssumption DEF RequestType
      <4>. QED
        BY <1>1, <1>4, <2>1, <2>7, <4>2 DEF Journal, KnownOn
    <3>3. s.restores # 0
      <4>1. s.restores \in Nat /\ (s.awaiting # None => s.awaiting[1] = s.phase)
        BY TransactionFields, IdentityFields DEF Local
      <4>. QED
        BY <3>2, <4>1 DEF Issued, Local
    <3>4. Spending(s, e, Tail(w), k)
      <4>1. Told(e, k, s.tid) => Told(d, l, s.tid)
        BY <1>4, <2>1, <2>2, <2>7
      <4>2. d.retained \subseteq e.retained /\ (Armed(e, s.tid) => Armed(d, s.tid))
        BY <2>1, <2>3, <2>7 DEF Armed
      <4>. QED
        BY <1>6, <4>1, <4>2 DEF Flight, Spending, Disarmed
    <3>5. Exact(s, e, Tail(w))
      BY <1>5, <2>3, <2>7 DEF Flight, Exact, Armed
    <3>. QED
      BY <1>3, <3>1, <3>3, <3>4, <3>5 DEF Flight, Untouched, Owning
  <2>. QED
    BY <2>1, <2>4, <2>5, <2>6, <2>7 DEF Mutation
<1>10. CASE Replays(d, m, o)
  <2>1. r.cid[1] \in Mutation
    BY <1>4, <1>10 DEF Replays, WellAddressed
  <2>. QED
    BY <1>7, <1>10, <2>1 DEF Replays, RECOVER, CommandId, Mutation
<1>11. CASE Tells(d, m, o)
  <2>1. r.cid = m.cid /\ r.hz = d.hz /\ m.op # "apply"
    BY <1>11 DEF Tells, Reply, Mutation
  <2>. QED
    BY <1>4, <1>8, <1>11, <2>1 DEF Tells
<1>. QED
  BY <1>9, <1>10, <1>11

\* The firmware drifts or boots.
LEMMA FlightWandered ==
  ASSUME NEW s \in PendingType, NEW d \in DeviceType, NEW hz, NEW w, NEW l,
         NEW e, e = Moved(d, hz, None) \/ e = Boot(d.boot + 1, hz), Flight(s, d, w, l)
  PROVE  Flight(s, e, w, l)
<1>1. /\ e.owner = None /\ s.tid # None
      /\ \/ e.prepared = d.prepared /\ e.retained = d.retained
         \/ e.prepared = None /\ e.retained = {}
  <2>1. s.tid # None
    BY NoneAssumption DEF PendingType
  <2>2. CASE e = Moved(d, hz, None)
    BY <2>1, <2>2, MovedFields
  <2>3. CASE e = Boot(d.boot + 1, hz)
    BY <2>1, <2>3 DEF Boot
  <2>. QED
    BY <2>2, <2>3
<1>2. /\ Answers(e, l) \subseteq Answers(d, l) /\ (Told(e, l, s.tid) => Told(d, l, s.tid))
      /\ Armed(e, s.tid) => Armed(d, s.tid) /\ e.prepared = d.prepared /\ e.retained = d.retained
  BY <1>1 DEF Answers, Told, Armed
<1>3. Untouched(s, e, l) /\ Owning(s, e, l)
  BY <1>1, <1>2 DEF Flight, Untouched, Owning
<1>4. Spending(s, e, w, l) /\ Exact(s, e, w)
  BY <1>2 DEF Flight, Spending, Disarmed, Exact
<1>. QED
  BY <1>3, <1>4 DEF Flight

\* A phase is sent.
LEMMA FlightSent ==
  ASSUME NEW s \in PendingType, NEW x, NEW d, NEW w \in Seq(RequestType), NEW l,
         NEW m \in RequestType, NEW v \in Transmit(w, m), Journal(s, w, l), Flight(s, d, w, l),
         x.tid = s.tid, x.hz = s.hz, x.acked = s.acked, x.restores = 0 => s.restores = 0,
         s.awaiting = None, s.intent = None, Early(x) => Early(s), m.tid = s.tid,
         m.op = "prepare" => Early(s) /\ m.hz = s.hz
  PROVE  Flight(x, d, v, l)
<1>1. /\ Len(w) \in Nat
      /\ \A i \in 1..Len(v) : \/ i \in 1..Len(w) /\ v[i] = w[i]
                              \/ i = Len(w) + 1 /\ v[i] = m
  BY Longer
<1>2. Untouched(x, d, l)
  BY DEF Flight, Untouched
<1>3. Spending(x, d, v, l)
  BY <1>1 DEF Flight, Spending, Untouched
<1>4. Orderly(x, v)
  <2>1. m.op = "prepare" => \A i \in 1..Len(w) : ~(w[i].tid = s.tid /\ w[i].op = "apply")
    BY DEF Journal, NotYetOn, Moves
  <2> SUFFICES ASSUME NEW i \in 1..Len(v), NEW j \in 1..Len(v),
                      v[i].tid = s.tid, v[i].op = "apply", v[j].op = "prepare"
               PROVE  j < i
    BY DEF Orderly
  <2>2. j \in 1..Len(w) /\ v[j] = w[j]
    <3>1. CASE j = Len(w) + 1 /\ v[j] = m
      BY <1>1, <2>1, <3>1
    <3>. QED
      BY <1>1, <3>1
  <2>3. CASE i \in 1..Len(w) /\ v[i] = w[i]
    BY <2>2, <2>3 DEF Flight, Orderly
  <2>. QED
    BY <1>1, <2>2, <2>3
<1>5. Owning(x, d, l)
  <2>1. RECOVER \notin s.acked => ~On(l, s.tid, RECOVER)
    <3>1. RECOVER # None
      BY NoneAssumption DEF RECOVER, CommandId, Cid, Sends
    <3>. QED
      BY <3>1 DEF Journal, AskedOn, Probes
  <2>. QED
    BY <2>1 DEF Flight, Owning, On
<1>6. Exact(x, d, v)
  BY <1>1 DEF Flight, Exact
<1>. QED
  BY <1>2, <1>3, <1>4, <1>5, <1>6 DEF Flight

\* An answer or a deadline is noted, and the transaction goes on.
LEMMA FlightNoted ==
  ASSUME NEW s, NEW x, NEW d, NEW w, NEW l, Flight(s, d, w, l),
         x.tid = s.tid, x.hz = s.hz, x.restores = s.restores, x.awaiting = None,
         Early(x) => Early(s),
         APPLY \in x.acked => APPLY \in s.acked \/ Told(d, l, s.tid)
  PROVE  Flight(x, d, w, l)
<1>1. RECOVER # None
  BY NoneAssumption DEF RECOVER, CommandId, Cid, Sends
<1>2. Untouched(x, d, l) /\ Spending(x, d, w, l)
  BY DEF Flight, Untouched, Spending
<1>3. Orderly(x, w) /\ Owning(x, d, l) /\ Exact(x, d, w)
  BY <1>1 DEF Flight, Orderly, Owning, Exact
<1>. QED
  BY <1>2, <1>3 DEF Flight

-----------------------------------------------------------------------------
(* After the decision.                                                     *)

\* What is spent stays so, and does not move the sensor.
LEMMA SpentServed ==
  ASSUME NEW d \in DeviceType, NEW w \in Seq(RequestType), w # <<>>,
         NEW m, m = Head(w), WellAddressed(m), NEW o,
         Replays(d, m, o) \/ Tells(d, m, o) \/ Performs(d, m, o), NEW t, Spent(d, w, t)
  PROVE  /\ Spent(o.device, Tail(w), t)
         /\ m.tid = t /\ m.op = "apply" => o.device.owner = d.owner /\ o.device.hz = d.hz
<1>1. /\ \A i \in 1..Len(Tail(w)) : i + 1 \in 1..Len(w) /\ Tail(w)[i] = w[i + 1]
      /\ 1 \in 1..Len(w) /\ m = w[1]
  BY TailTyped
<1>2. \A i \in 1..Len(Tail(w)) : Tail(w)[i].op = "prepare" => Tail(w)[i].tid # t
  BY <1>1 DEF Spent
<1>3. m.op = "prepare" => m.tid # t
  BY <1>1 DEF Spent
<1>4. m.op = "apply" => m.cid = APPLY
  BY DEF WellAddressed, APPLY, CommandId
<1>5. CASE Replays(d, m, o) \/ Tells(d, m, o)
  BY <1>2, <1>5 DEF Replays, Tells, Spent
<1>6. CASE Performs(d, m, o)
  <2>1. Retained(d, m.tid, m.cid) = {} /\ m.op \in Mutation
    BY <1>6 DEF Performs
  <2>2. \/ /\ o.device.hz = d.hz /\ o.device.owner = d.owner /\ o.device.prepared = d.prepared
           /\ d.retained \subseteq o.device.retained
        \/ /\ o.device.hz = d.hz /\ o.device.owner = d.owner /\ m.op = "prepare"
           /\ o.device.prepared = [tid |-> m.tid, hz |-> m.hz]
        \/ m.op = "apply" /\ o.device.prepared = None /\ Armed(d, m.tid)
        \/ /\ m.op = "restore" /\ o.device.prepared = d.prepared
           /\ d.retained \subseteq o.device.retained
    BY <1>6 DEF Performs, Armed
  <2>3. Disarmed(o.device, t)
    BY <1>3, <2>2 DEF Spent, Disarmed, Armed
  <2>4. ~(m.tid = t /\ m.op = "apply" /\ Armed(d, m.tid))
    BY <1>4, <2>1 DEF Spent, Disarmed, Retained
  <2>. QED
    BY <1>2, <2>2, <2>3, <2>4 DEF Spent
<1>. QED
  BY <1>5, <1>6

\* An outcome but rollback-failed is not moved away from by its transaction,
LEMMA HarmlessServed ==
  ASSUME NEW d \in DeviceType, NEW w \in Seq(RequestType), w # <<>>,
         NEW m, m = Head(w), WellAddressed(m), NEW o,
         Replays(d, m, o) \/ Tells(d, m, o) \/ Performs(d, m, o),
         NEW t, NEW term, Harmless(d, w, t, term)
  PROVE  /\ Harmless(o.device, Tail(w), t, term)
         /\ m.tid = t /\ term # "rollback-failed" =>
              o.device.owner = d.owner /\ o.device.hz = d.hz
<1>1. /\ \A i \in 1..Len(Tail(w)) : i + 1 \in 1..Len(w) /\ Tail(w)[i] = w[i + 1]
      /\ 1 \in 1..Len(w) /\ m = w[1]
  BY TailTyped
<1>2. Spent(d, w, t) => /\ Spent(o.device, Tail(w), t)
                        /\ m.tid = t /\ m.op = "apply" => o.device.owner = d.owner /\ o.device.hz = d.hz
  BY SpentServed
<1>3. m.op \notin {"apply", "restore"} => o.device.owner = d.owner /\ o.device.hz = d.hz
  BY DEF Replays, Tells, Performs
<1>4. o.device.owner = d.owner \/ o.device.owner = m.tid
  BY DEF Replays, Tells, Performs
<1>5. m.tid = t /\ term # "rollback-failed" => o.device.owner = d.owner /\ o.device.hz = d.hz
  BY <1>1, <1>2, <1>3 DEF Harmless
<1>6. term = "failed-safe" => o.device.owner # t
  BY <1>4, <1>5 DEF Harmless
<1>. QED
  BY <1>1, <1>2, <1>5, <1>6 DEF Harmless

\* ... nor is it by a firmware that drifts or boots,
LEMMA HarmlessWandered ==
  ASSUME NEW d \in DeviceType, NEW hz, NEW w, NEW t \in Txn, NEW term,
         NEW e, e = Moved(d, hz, None) \/ e = Boot(d.boot + 1, hz), Harmless(d, w, t, term)
  PROVE  Harmless(e, w, t, term)
<1>1. /\ e.owner = None /\ t # None
      /\ \/ e.prepared = d.prepared /\ e.retained = d.retained
         \/ e.prepared = None
  <2>1. CASE e = Moved(d, hz, None)
    BY <2>1, MovedFields, NoneAssumption
  <2>2. CASE e = Boot(d.boot + 1, hz)
    BY <2>2, NoneAssumption DEF Boot
  <2>. QED
    BY <2>1, <2>2
<1>. QED
  BY <1>1 DEF Harmless, Spent, Disarmed, Armed

\* ... nor by what another transaction sends.
LEMMA HarmlessSent ==
  ASSUME NEW d, NEW w \in Seq(RequestType), NEW m \in RequestType, NEW v \in Transmit(w, m),
         NEW t, m.tid # t, NEW term, Harmless(d, w, t, term)
  PROVE  Harmless(d, v, t, term)
<1>1. \A i \in 1..Len(v) : (i \in 1..Len(w) /\ v[i] = w[i]) \/ v[i] = m
  BY Longer
<1>. QED
  BY <1>1 DEF Harmless, Spent

-----------------------------------------------------------------------------
(* The decision.                                                           *)

\* Nothing was done yet.
LEMMA EarlyHarmless ==
  ASSUME NEW s, NEW d, NEW w, NEW l, Early(s), Journal(s, w, l), Flight(s, d, w, l), NEW term
  PROVE  Harmless(d, w, s.tid, term)
BY DEF Journal, NotYetOn, Moves, Flight, Untouched, Harmless

\* No RESTORE was sent, and the APPLY was answered.
LEMMA ToldHarmless ==
  ASSUME NEW s \in PendingType, Local(s), s.restores = 0, NEW d,
         NEW w \in Seq(RequestType), \A i \in 1..Len(w) : WellAddressed(w[i]),
         NEW l, Journal(s, w, l), Flight(s, d, w, l),
         On(w, s.tid, APPLY) => APPLY \in s.acked \/ Told(d, l, s.tid),
         NEW term, term = "failed-safe" => d.owner # s.tid
  PROVE  Harmless(d, w, s.tid, term)
<1> SUFFICES ASSUME NEW i \in 1..Len(w), w[i].tid = s.tid
             PROVE  w[i].op # "restore" /\ (w[i].op = "apply" => Spent(d, w, s.tid))
  BY DEF Harmless
<1>1. /\ w[i] \in RequestType /\ WellAddressed(w[i]) /\ w[i].cid # None
      /\ w[i].cid[1] = w[i].op
      /\ w[i].op = "apply" => w[i].cid = APPLY
  <2>1. w[i] \in RequestType
    OBVIOUS
  <2>. QED
    BY <2>1, IdentityFields, NoneAssumption DEF WellAddressed, RequestType, APPLY, CommandId
<1>2. w[i].op # "restore"
  <2>1. s.awaiting # None => s.awaiting[1] = s.phase
    BY IdentityFields DEF Local
  <2>2. w[i].op = "restore" => Issued(s, w[i].cid)
    BY DEF Journal, KnownOn, Mutation
  <2>3. \A n : n \notin 1..s.restores
    OBVIOUS
  <2>. QED
    BY <1>1, <2>1, <2>2, <2>3 DEF Issued, Local
<1>3. w[i].op = "apply" => On(w, s.tid, APPLY)
  BY <1>1 DEF On
<1>. QED
  BY <1>2, <1>3 DEF Flight, Spending, Spent

LEMMA ExpiredHolds ==
  ASSUME TypeInv, TypeInv', LocalInv, TimesOut, pending.intent = None,
         Journal(pending, wire, line), Flight(pending, device, wire, line)
  PROVE  /\ pending'.intent = None => Flight(pending', device, wire, line)
         /\ pending'.intent # None => Harmless(device, wire, pending'.tid, pending'.intent)
<1> DEFINE asked == pending.awaiting
<1>1. pending \in PendingType /\ Local(pending) /\ asked # None
  BY DEF TimesOut, TypeInv, TypeOK, LocalInv, Maybe
<1>2. asked[1] = pending.phase
  BY <1>1, IdentityFields DEF Local
<1>3. PICK x \in PendingType :
        /\ Expired(x, asked) /\ x.tid = pending.tid /\ x.hz = pending.hz /\ x.awaiting = None
        /\ x.acked = pending.acked /\ x.intent = None
        /\ x.phase = pending.phase /\ x.target = pending.target /\ x.restores = pending.restores
  BY <1>1, ClearedFields DEF TimesOut
<1>4. ASSUME NEW term, Ends(x, term), term = "rollback-failed" \/ Early(pending)
      PROVE  pending'.intent # None /\ Harmless(device, wire, pending'.tid, pending'.intent)
  <2>1. pending'.intent = term /\ pending'.tid = pending.tid /\ pending'.intent # None
    BY <1>3, <1>4 DEF Ends, Carried, TypeInv, Control
  <2>. QED
    BY <1>4, <2>1, EarlyHarmless DEF Harmless
<1>5. CASE asked[1] \in Mutation /\ Asks(x, asked)
  <2>1. /\ pending'.tid = pending.tid /\ pending'.hz = pending.hz /\ pending'.awaiting = None
        /\ pending'.acked = pending.acked /\ pending'.restores = pending.restores
        /\ pending'.phase = pending.phase /\ pending'.intent = None
    BY <1>3, <1>5 DEF Asks, Carried
  <2>2. Early(pending') => Early(pending)
    BY <1>2, <1>5, <2>1 DEF Early, Mutation
  <2>. QED
    BY <2>1, <2>2, FlightNoted
<1>6. ASSUME NEW phase \in {"recover-state", "restore"}, Enters(x, phase)
      PROVE  pending'.intent = None /\ Flight(pending', device, wire, line)
  <2>1. /\ pending'.tid = pending.tid /\ pending'.hz = pending.hz /\ pending'.awaiting = None
        /\ pending'.acked = pending.acked /\ pending'.restores = pending.restores
        /\ pending'.phase = phase /\ pending'.intent = None
    BY <1>3, <1>6 DEF Enters, Carried
  <2>2. ~Early(pending')
    BY <1>6, <2>1 DEF Early
  <2>. QED
    BY <2>1, <2>2, FlightNoted
<1>7. CASE asked[1] = "query" /\ x.target[1] = "prepare" /\ Ends(x, "failed-safe")
  BY <1>2, <1>3, <1>4, <1>7 DEF Early
<1>8. CASE asked[1] = "state-before" /\ Ends(x, "failed-safe")
  BY <1>2, <1>4, <1>8 DEF Early
<1>. QED
  BY <1>3, <1>4, <1>5, <1>6, <1>7, <1>8 DEF Expired

LEMMA StoppedHolds ==
  ASSUME TypeInv, TypeInv', Stops,
         Journal(pending, wire, line), Flight(pending, device, wire, line)
  PROVE  pending'.intent # None /\ Harmless(device, wire, pending'.tid, pending'.intent)
<1>1. /\ pending'.intent = ShutdownOutcome(pending) /\ pending'.tid = pending.tid
      /\ pending'.intent # None
  BY DEF Stops, Ends, Carried, TypeInv, Control
<1>2. ShutdownOutcome(pending) = "rollback-failed" \/ Early(pending)
  BY DEF ShutdownOutcome, Early
<1>. QED
  BY <1>1, <1>2, EarlyHarmless DEF Harmless

LEMMA HeardHolds ==
  ASSUME TypeInv, TypeInv', LocalInv, WireInv, NEW r \in ReplyType, Hears(r),
         pending.intent = None, Trace(device, line),
         Journal(pending, wire, line), Flight(pending, device, wire, line)
  PROVE  /\ pending'.intent = None => Flight(pending', device, wire, line)
         /\ pending'.intent # None => Harmless(device, wire, pending'.tid, pending'.intent)
<1> DEFINE asked == pending.awaiting
           t == pending.tid
<1>1. /\ pending \in PendingType /\ Local(pending) /\ WellFormed(pending) /\ asked # None
      /\ wire \in Seq(RequestType) /\ \A i \in 1..Len(wire) : WellAddressed(wire[i])
      /\ Correlated(pending, r) /\ r.tid = t /\ r.cid \notin pending.acked
  BY DEF Hears, Correlated, TypeInv, TypeOK, Control, LocalInv, Maybe, WireInv
<1>2. asked[1] = pending.phase
  BY <1>1, IdentityFields DEF Local
<1>3. PICK x \in PendingType :
        /\ Replied(x, asked, r) /\ x.tid = t /\ x.hz = pending.hz /\ x.awaiting = None
        /\ x.acked = pending.acked \cup {r.cid} /\ x.intent = None
        /\ x.phase = pending.phase /\ x.target = pending.target /\ x.restores = pending.restores
        /\ x.recovering = pending.recovering /\ x.applied = pending.applied
  BY <1>1, HeededFields DEF Hears
<1>4. /\ r \in Answers(device, line) /\ On(line, t, r.cid)
      /\ \E i \in 1..Len(line) : line[i] = r
  <2>1. 1 \in 1..Len(line) /\ r = line[1]
    BY DEF Hears, TypeInv, TypeOK
  <2>. QED
    BY <1>1, <2>1 DEF Answers, On
<1>5. ASSUME NEW term, Ends(x, term), Harmless(device, wire, t, term)
      PROVE  pending'.intent # None /\ Harmless(device, wire, pending'.tid, pending'.intent)
  BY <1>3, <1>5 DEF Ends, Carried, TypeInv, Control
<1>6. CASE Ends(x, "rollback-failed")
  BY <1>5, <1>6 DEF Harmless
<1>7. CASE Ends(x, "failed-safe") /\ Early(pending)
  BY <1>5, <1>7, EarlyHarmless
<1>8. ASSUME NEW phase, Enters(x, phase),
             phase \in {"restore", "restore-verify", "verify", "recover-state"} \/ Early(pending),
             phase \in Sends \ {"query"}
      PROVE  pending'.intent = None /\ Flight(pending', device, wire, line)
  <2>1. /\ pending'.tid = t /\ pending'.hz = pending.hz /\ pending'.awaiting = None
        /\ pending'.acked = pending.acked \cup {r.cid} /\ pending'.restores = pending.restores
        /\ pending'.phase = phase /\ pending'.intent = None
    BY <1>3, <1>8 DEF Enters, Carried
  <2>2. Early(pending') => Early(pending)
    BY <1>8, <2>1 DEF Early
  <2>3. r.cid = APPLY => Told(device, line, t)
    BY <1>1, <1>4 DEF Told
  <2>. QED
    BY <2>1, <2>2, <2>3, FlightNoted
<1>9. CASE ~(asked[1] = "query" /\ r.cid = asked) /\ Judged(x, About(x, asked), r)
  <2> SUFFICES ASSUME NEW about, about = About(pending, asked)
               PROVE  \/ pending'.intent = None /\ Flight(pending', device, wire, line)
                      \/ pending'.intent # None
                         /\ Harmless(device, wire, pending'.tid, pending'.intent)
    OBVIOUS
  <2>1. /\ about \in {"state-before", "prepare"} => Early(pending)
        /\ about = "apply" => Applying(pending) /\ r.cid = APPLY
        /\ about = "verify" => pending.phase = "verify"
        /\ about = "recover-state" => pending.phase = "recover-state" /\ r.cid = RECOVER
        /\ about \in {"recover-state", "restore-verify"} => r.cid = asked /\ r.cid \in Probes
    BY <1>1, <1>9, AnswerContext DEF Early
  <2>2. Judged(x, about, r)
    BY <1>3, <1>9 DEF About
  <2>3. ASSUME about \in {"recover-state", "restore-verify"},
               NEW term, term = "failed-safe" => device.owner # t
        PROVE  Harmless(device, wire, t, term)
    <3>1. asked \in Probes /\ asked \notin pending.acked /\ On(line, t, asked)
      BY <1>1, <1>4, <2>1, <2>3
    <3>2. \A i \in 1..Len(wire) : wire[i].tid = t => wire[i].op \notin Moves
      BY <3>1 DEF Journal, BehindOn
    <3>. QED
      BY <2>3, <3>2 DEF Harmless, Moves
  <2>4. CASE /\ about = "apply" /\ (r.op # "apply" \/ r.verdict \notin {"uncertain", "applied"})
             /\ Ends(x, "failed-safe")
    <3>1. Applying(pending) /\ r.cid = APPLY /\ pending.restores = 0
      BY <1>1, <2>1, <2>4 DEF Local
    <3>2. r.op = "apply"
      BY <1>4, <3>1 DEF Trace, APPLY, CommandId, Mutation
    <3>3. device.owner # t
      BY <1>1, <1>4, <2>4, <3>1, <3>2 DEF Flight, Owning
    <3>4. Told(device, line, t)
      BY <1>1, <1>4, <3>1 DEF Told
    <3>. QED
      BY <1>1, <1>5, <2>4, <3>1, <3>3, <3>4, ToldHarmless
  <2>5. CASE /\ about = "recover-state" /\ x.recovering # "restore"
             /\ ~(IsDesired(x, r) /\ x.recovering = "apply") /\ Ends(x, "failed-safe")
    <3>1. pending.phase = "recover-state" /\ pending.recovering = "apply"
      BY <1>1, <1>3, <2>1, <2>5 DEF Local
    <3>2. pending.restores = 0 /\ pending.applied = None
      BY <1>1, <3>1 DEF Local, Applying
    <3>3. r.hz # pending.hz
      BY <1>3, <2>5, <3>1, <3>2 DEF IsDesired
    <3>4. device.owner # t
      BY <1>1, <1>4, <2>1, <2>5, <3>2, <3>3 DEF Flight, Owning
    <3>. QED
      BY <1>5, <2>3, <2>5, <3>4
  <2>6. CASE about \in {"verify", "recover-state"} /\ Ends(x, "committed")
    <3>1. CASE about = "recover-state"
      BY <1>5, <2>3, <2>6, <3>1
    <3>2. CASE about = "verify"
      <4>1. pending.phase = "verify" /\ pending.restores = 0
        BY <1>1, <2>1, <3>2 DEF Local
      <4>2. On(wire, t, APPLY) => APPLY \in pending.acked
        BY <4>1 DEF Journal, PastOn, Early, Applying
      <4>3. Harmless(device, wire, t, "committed")
        BY <1>1, <4>1, <4>2, ToldHarmless
      <4>. QED
        BY <1>5, <2>6, <4>3
    <3>. QED
      BY <2>6, <3>1, <3>2
  <2>7. CASE about \in {"recover-state", "restore-verify"} /\ Ends(x, "rolled-back")
    BY <1>5, <2>3, <2>7
  <2>8. CASE about \in {"apply", "verify", "recover-state"} /\ Enters(x, "restore")
    BY <1>8, <2>8 DEF Sends
  <2>9. CASE \/ about = "state-before" /\ Enters(x, "prepare")
             \/ about = "prepare" /\ Enters(x, "apply")
    BY <1>8, <2>1, <2>9 DEF Sends
  <2>10. CASE Enters(x, "verify") \/ Enters(x, "restore-verify")
    BY <1>8, <2>10 DEF Sends
  <2>. QED
    BY <1>6, <1>7, <2>1, <2>2, <2>4, <2>5, <2>6, <2>7, <2>8, <2>9, <2>10 DEF Judged
<1>10. CASE asked[1] = "query" /\ x.target[1] = "prepare" /\ Ends(x, "failed-safe")
  BY <1>2, <1>3, <1>7, <1>10 DEF Early
<1>11. CASE Enters(x, "recover-state")
  BY <1>8, <1>11 DEF Sends
<1>. QED
  BY <1>3, <1>6, <1>9, <1>10, <1>11 DEF Replied

\* All but the firmware's own steps leave the firmware alone.
LEMMA BridgeLink ==
  ASSUME \/ PollSends \/ QuerySends \/ TimesOut \/ (\E r \in ReplyType : Hears(r)) \/ Stops
         \/ Adopts \/ Forgets \/ SealTerminal \/ Idles
  PROVE  /\ device' = device
         /\ line' = line \/ (line # <<>> /\ line' = Tail(line))
         /\ ~PollSends /\ ~QuerySends => wire' = wire
<1>1. CASE PollSends \/ QuerySends
  BY <1>1 DEF PollSends, QuerySends, Sending
<1>2. CASE TimesOut \/ Stops \/ Adopts \/ Forgets \/ SealTerminal
  BY <1>2 DEF TimesOut, Stops, Adopts, Forgets, SealTerminal, link
<1>3. CASE (\E r \in ReplyType : Hears(r)) \/ Idles
  BY <1>3 DEF Hears, Idles
<1>. QED
  BY <1>1, <1>2, <1>3

\* The firmware's answers are the true ones.
LEMMA SoundServes ==
  ASSUME TypeInv, WireInv, Faultless, NEW o, NEW f, Serves(o, f)
  PROVE  /\ device \in DeviceType /\ o.device \in DeviceType /\ device' = o.device
         /\ wire \in Seq(RequestType) /\ wire # <<>> /\ wire' = Tail(wire)
         /\ o.reply \in ReplyType /\ line' \in Transmit(line, o.reply)
         /\ Head(wire) \in RequestType /\ WellAddressed(Head(wire)) /\ Whose(Head(wire).tid)
         /\ \/ Replays(device, Head(wire), o) \/ Tells(device, Head(wire), o)
            \/ Performs(device, Head(wire), o)
         /\ UNCHANGED <<pending, ledger, pc>>
<1>1. wire \in Seq(RequestType) /\ wire # <<>>
  BY DEF Serves, TypeInv, TypeOK
<1>2. 1 \in 1..Len(wire) /\ Head(wire) = wire[1]
  BY <1>1, TailTyped
<1>. QED
  BY <1>1, <1>2, ServesCases DEF Serves, Faultless, WireInv, files, worker

LEMMA TraceStep ==
  ASSUME TypeInv, WireInv, Faultless, Trace(device, line), [Next]_vars
  PROVE  Trace(device, line)'
<1>1. /\ device \in DeviceType /\ line \in Seq(ReplyType)
      /\ device.owner # None => device.owner \in Txn
      /\ device.prepared # None => device.prepared.tid \in Txn
      /\ \A r \in device.retained : r \in ReplyType /\ r.tid \in Txn
  <2>1. device \in DeviceType /\ line \in Seq(ReplyType)
    BY DEF TypeInv, TypeOK
  <2>2. \A r \in device.retained : r \in ReplyType
    BY <2>1 DEF DeviceType
  <2>. QED
    BY <2>1, <2>2 DEF DeviceType, Maybe, ReplyType
<1>2. \A t \in Txn : Whose(t) => Whose(t)'
  BY WhoseStep
<1>3. CASE device' = device /\ (line' = line \/ (line # <<>> /\ line' = Tail(line)))
  <2>1. Answers(device, line') \subseteq Answers(device, line)
    BY <1>1, <1>3, FewerAnswers
  <2>. QED
    BY <1>1, <1>2, <1>3, <2>1 DEF Trace, Whose, Settled
<1>4. ASSUME NEW o, NEW f, Serves(o, f) PROVE Trace(device, line)'
  <2> SUFFICES ASSUME NEW m, m = Head(wire), NEW r, r = o.reply PROVE Trace(device, line)'
    OBVIOUS
  <2>1. /\ device' = o.device /\ r \in ReplyType /\ line' \in Transmit(line, r)
        /\ m \in RequestType /\ WellAddressed(m) /\ Whose(m.tid)
        /\ Replays(device, m, o) \/ Tells(device, m, o) \/ Performs(device, m, o)
    BY <1>4, SoundServes
  <2>2. m.tid \in Txn /\ Whose(m.tid)'
    BY <1>2, <2>1 DEF RequestType
  <2>3. /\ r.tid = m.tid /\ device'.retained \subseteq device.retained \cup {r}
        /\ device'.owner \in {device.owner, m.tid}
        /\ \/ device'.prepared = device.prepared \/ device'.prepared = None
           \/ device'.prepared = [tid |-> m.tid, hz |-> m.hz]
    BY <2>1 DEF Replays, Tells, Performs, Reply
  <2>4. r.cid[1] \in Mutation => r.op = r.cid[1]
    <3>1. m.cid[1] = m.op
      BY <2>1, IdentityFields DEF WellAddressed
    <3>. QED
      BY <2>1, <3>1 DEF Replays, Tells, Performs, Reply, Trace, Answers
  <2>5. Answers(device', line') \subseteq Answers(device, line) \cup {r}
    BY <1>1, <2>1, <2>3, MoreAnswers
  <2>6. \A a \in Answers(device', line') : a.cid[1] \in Mutation => a.op = a.cid[1]
    BY <2>4, <2>5 DEF Trace
  <2>7. \A a \in device'.retained : a.tid \in Txn /\ Whose(a.tid)'
    BY <1>1, <1>2, <2>2, <2>3 DEF Trace
  <2>8. \A t \in Txn : Whose(t) \/ t = m.tid =>
          ledger'[t].terminals # <<>> \/ (pending' # None /\ pending'.tid = t)
    BY <1>2, <2>2 DEF Whose, Settled
  <2>9. /\ device'.owner # None => device'.owner \in Txn /\ (Whose(device'.owner) \/ device'.owner = m.tid)
        /\ device'.prepared # None => /\ device'.prepared.tid \in Txn
                                      /\ Whose(device'.prepared.tid) \/ device'.prepared.tid = m.tid
    BY <1>1, <2>2, <2>3 DEF Trace
  <2>. QED
    BY <2>6, <2>7, <2>8, <2>9 DEF Trace, Whose, Settled
<1>5. ASSUME NEW hz \in Rate, Wanders(hz) PROVE Trace(device, line)'
  <2>1. /\ device'.owner = None /\ line' = line
        /\ \/ device'.prepared = device.prepared /\ device'.retained = device.retained
           \/ device'.prepared = None /\ device'.retained = {}
    BY <1>1, <1>5, MovedFields DEF Wanders, Boot
  <2>2. Answers(device', line') \subseteq Answers(device, line)
    BY <2>1 DEF Answers
  <2>. QED
    BY <1>1, <1>2, <2>1, <2>2 DEF Trace, Whose, Settled
<1>. QED
  BY <1>3, <1>4, <1>5, BridgeLink, Steps

\* The sending steps, for what they send.
LEMMA SendsRequest ==
  ASSUME TypeInv, TypeInv', LocalInv, TruthInv, PollSends \/ QuerySends
  PROVE  \E m \in RequestType :
           /\ pending # None /\ pending' # None /\ pending.awaiting = None
           /\ pending.intent = None /\ pending'.intent = None
           /\ pending'.tid = pending.tid /\ pending'.hz = pending.hz
           /\ pending'.acked = pending.acked /\ (pending'.restores = 0 => pending.restores = 0)
           /\ Early(pending') => Early(pending)
           /\ m.tid = pending.tid /\ wire' \in Transmit(wire, m)
           /\ m.op = "prepare" => Early(pending) /\ m.hz = pending.hz
           /\ UNCHANGED <<device, line, ledger>>
<1>1. PICK phase \in Sends :
        /\ Sending(phase) /\ pending.awaiting = None /\ pending.intent = None
        /\ \/ phase = pending.phase
           \/ phase = "state-before" /\ pending.phase = "queued"
           \/ phase = "query" /\ pending.target # None /\ pending.phase = pending.target[1]
  BY DEF PollSends, QuerySends, Sends, LocalInv, TypeInv, Control, Sending, Polling, TruthInv,
         Closing
<1>2. pending # None /\ pending \in PendingType /\ WellFormed(pending) /\ Local(pending)
  BY <1>1 DEF Sending, TypeInv, TypeOK, Control, LocalInv, Maybe
<1>3. phase = "query" => pending.target # None
  BY <1>1, <1>2 DEF WellFormed
<1>4. PICK m : m = Request(pending')
  OBVIOUS
<1>5. /\ m \in RequestType /\ m.op = phase /\ m.tid = pending.tid
      /\ m.op = "prepare" => m.hz = pending.hz
  BY <1>1, <1>3, <1>4, SentRequest
<1>6. Early(pending') = Early(pending)
  BY <1>1, <1>2, SentLocal
<1>7. phase = "prepare" => Early(pending)
  BY <1>1 DEF Early
<1>8. pending.restores \in Nat
  BY <1>2 DEF PendingType
<1>. QED
  BY <1>1, <1>4, <1>5, <1>6, <1>7, <1>8 DEF Sending, Sent

\* What has ended, or is decided, is left alone by every step.
LEMMA HarmlessStep ==
  ASSUME TypeInv, TypeInv', LocalInv, TruthInv, WireInv, Faultless, [Next]_vars,
         NEW t \in Txn, NEW term, Harmless(device, wire, t, term),
         pending # None /\ pending.intent = None => pending.tid # t
  PROVE  Harmless(device', wire', t, term)
<1>1. wire \in Seq(RequestType) /\ device \in DeviceType
  BY DEF TypeInv, TypeOK
<1>2. CASE device' = device /\ wire' = wire
  BY <1>2
<1>3. CASE PollSends \/ QuerySends
  BY <1>1, <1>3, SendsRequest, HarmlessSent
<1>4. ASSUME NEW o, NEW f, Serves(o, f) PROVE Harmless(device', wire', t, term)
  <2>1. /\ device' = o.device /\ wire # <<>> /\ wire' = Tail(wire)
        /\ WellAddressed(Head(wire))
        /\ \/ Replays(device, Head(wire), o) \/ Tells(device, Head(wire), o)
           \/ Performs(device, Head(wire), o)
    BY <1>4, SoundServes
  <2>2. Harmless(o.device, Tail(wire), t, term)
    BY <1>1, <2>1, HarmlessServed
  <2>. QED
    BY <2>1, <2>2
<1>5. ASSUME NEW hz \in Rate, Wanders(hz) PROVE Harmless(device', wire', t, term)
  BY <1>1, <1>5, HarmlessWandered DEF Wanders
<1>. QED
  BY <1>2, <1>3, <1>4, <1>5, BridgeLink, Steps

LEMMA HoldStep ==
  ASSUME TypeInv, TypeInv', LocalInv, TruthInv, WireInv, JournalInv, OnceInv, Faultless,
         HoldInv, [Next]_vars
  PROVE  HoldInv'
<1>1. /\ wire \in Seq(RequestType) /\ line \in Seq(ReplyType) /\ device \in DeviceType
      /\ pending # None => pending \in PendingType /\ pending.tid \in Txn
      /\ \A t \in Txn : Terminals(t) \in Seq(FactsType)
  BY DEF TypeInv, TypeOK, Maybe, PendingType, Terminals
<1>2. pending # None /\ pending.intent = None =>
        /\ ~Settled(pending.tid) /\ Local(pending)
        /\ Journal(pending, wire, line) /\ Flight(pending, device, wire, line)
  BY DEF OnceInv, JournalInv, HoldInv, LocalInv
<1>3. Trace(device, line)'
  BY TraceStep DEF HoldInv
<1>4. ASSUME NEW t \in Txn, NEW i \in 1..Len(ledger'[t].terminals)
      PROVE  Harmless(device', wire', t, ledger'[t].terminals[i].term)
  <2>1. ASSUME i \in 1..Len(Terminals(t)), ledger'[t].terminals[i] = Terminals(t)[i]
        PROVE  Harmless(device', wire', t, ledger'[t].terminals[i].term)
    <3>1. Settled(t)
      BY <2>1 DEF Terminals, Settled
    <3>2. Harmless(device, wire, t, Terminals(t)[i].term)
      BY <2>1 DEF HoldInv
    <3>. QED
      BY <1>2, <2>1, <3>1, <3>2, HarmlessStep
  <2>2. CASE SealTerminal /\ t = pending.tid
    <3>1. /\ pending # None /\ device' = device /\ wire' = wire
          /\ ledger'[t].terminals = Append(Terminals(t), Facts(pending))
      BY <2>2, SealStep DEF SealTerminal, link
    <3>2. \/ i \in 1..Len(Terminals(t)) /\ ledger'[t].terminals[i] = Terminals(t)[i]
          \/ ledger'[t].terminals[i] = Facts(pending)
      BY <1>1, <3>1
    <3>3. Facts(pending).term = pending.intent /\ pending.intent # None
      BY <2>2 DEF Facts, SealTerminal, TypeInv, Control
    <3>. QED
      BY <2>1, <2>2, <3>1, <3>2, <3>3 DEF HoldInv
  <2>3. CASE ~(SealTerminal /\ t = pending.tid)
    <3>1. ledger'[t].terminals = Terminals(t)
      BY <2>3, SealStep, Discreet DEF WriteStatus, LoadSettled, Terminals
    <3>. QED
      BY <2>1, <3>1
  <2>. QED
    BY <2>2, <2>3
<1>5. SUFFICES ASSUME pending' # None
               PROVE  /\ pending'.intent = None => Flight(pending', device', wire', line')
                      /\ pending'.intent # None =>
                           Harmless(device', wire', pending'.tid, pending'.intent)
  BY <1>3, <1>4 DEF HoldInv, Terminals
<1>6. ASSUME pending' = pending, pending.intent # None
      PROVE  Harmless(device', wire', pending'.tid, pending'.intent)
  <2>1. pending # None /\ Harmless(device, wire, pending.tid, pending.intent)
    BY <1>5, <1>6 DEF HoldInv
  <2>. QED
    BY <1>1, <1>6, <2>1, HarmlessStep
<1>7. ASSUME device' = device, wire' = wire, line' = line \/ (line # <<>> /\ line' = Tail(line)),
             Flight(pending', device, wire, line)
      PROVE  Flight(pending', device', wire', line')
  BY <1>1, <1>7, FlightFewer
<1>8. CASE PollSends \/ QuerySends
  <2>1. PICK m \in RequestType :
           /\ pending # None /\ pending' # None /\ pending.awaiting = None
           /\ pending.intent = None /\ pending'.intent = None
           /\ pending'.tid = pending.tid /\ pending'.hz = pending.hz
           /\ pending'.acked = pending.acked /\ (pending'.restores = 0 => pending.restores = 0)
           /\ Early(pending') => Early(pending)
           /\ m.tid = pending.tid /\ wire' \in Transmit(wire, m)
           /\ m.op = "prepare" => Early(pending) /\ m.hz = pending.hz
           /\ UNCHANGED <<device, line, ledger>>
    BY <1>8, SendsRequest
  <2>2. Flight(pending', device, wire', line)
    BY <1>1, <1>2, <2>1, FlightSent
  <2>. QED
    BY <2>1, <2>2
<1>9. CASE TimesOut
  <2>1. pending # None /\ pending.intent = None
    BY <1>9 DEF TimesOut, Polling, TruthInv, Closing
  <2>2. device' = device /\ wire' = wire /\ line' = line
    BY <1>9 DEF TimesOut, link
  <2>. QED
    BY <1>2, <1>9, <2>1, <2>2, ExpiredHolds
<1>10. ASSUME NEW r \in ReplyType, Hears(r)
       PROVE  /\ pending'.intent = None => Flight(pending', device', wire', line')
              /\ pending'.intent # None =>
                   Harmless(device', wire', pending'.tid, pending'.intent)
  <2>1. /\ pending # None /\ pending.intent = None
        /\ device' = device /\ wire' = wire /\ line # <<>> /\ line' = Tail(line)
    BY <1>10 DEF Hears, TruthInv, Closing
  <2>2. /\ pending'.intent = None => Flight(pending', device, wire, line)
        /\ pending'.intent # None => Harmless(device, wire, pending'.tid, pending'.intent)
    BY <1>2, <1>10, <2>1, HeardHolds DEF HoldInv
  <2>. QED
    BY <1>7, <2>1, <2>2
<1>11. CASE Stops
  <2>1. /\ pending # None /\ pending.intent = None
        /\ device' = device /\ wire' = wire
    BY <1>11 DEF Stops, Stopping, TruthInv, Closing, link
  <2>. QED
    BY <1>2, <1>11, <2>1, StoppedHolds
<1>12. CASE Adopts
  <2>1. /\ pending = None /\ command # None /\ command \in [tid : Txn, hz : Rate]
        /\ pending' = Fresh(command) /\ ~Settled(command.tid)
        /\ device' = device /\ wire' = wire /\ line' = line
    BY <1>12 DEF Adopts, OnceInv, link, TypeInv, TypeOK, Maybe
  <2>2. /\ pending'.tid = command.tid /\ pending'.intent = None /\ pending'.phase = "queued"
        /\ pending'.acked = {} /\ command.tid # None
    BY <2>1, NoneAssumption DEF Fresh
  <2>3. ~Whose(command.tid)
    BY <2>1 DEF Whose
  <2>4. /\ device.owner # command.tid /\ ~Armed(device, command.tid)
        /\ \A r \in device.retained : r.tid # command.tid
        /\ \A i \in 1..Len(line) : line[i].tid # command.tid
        /\ \A i \in 1..Len(wire) : wire[i].tid # command.tid
    BY <2>2, <2>3 DEF HoldInv, Trace, WireInv, Armed
  <2>5. ~Told(device, line, command.tid)
    BY <2>4 DEF Told, Answers
  <2>6. Flight(pending', device, wire, line)
    BY <2>2, <2>4, <2>5 DEF Flight, Untouched, Spending, Orderly, Owning, Exact
  <2>. QED
    BY <2>1, <2>2, <2>6
<1>13. CASE Forgets
  BY <1>5, <1>13 DEF Forgets
<1>14. CASE SealTerminal \/ Idles
  <2>1. pending' = pending /\ wire' = wire /\ device' = device
        /\ (line' = line \/ (line # <<>> /\ line' = Tail(line)))
    BY <1>14 DEF SealTerminal, Idles, link
  <2>. QED
    BY <1>2, <1>5, <1>6, <1>7, <2>1
<1>15. ASSUME NEW o, NEW f, Serves(o, f)
       PROVE  /\ pending'.intent = None => Flight(pending', device', wire', line')
              /\ pending'.intent # None =>
                   Harmless(device', wire', pending'.tid, pending'.intent)
  <2>1. /\ pending' = pending /\ device' = o.device /\ wire # <<>> /\ wire' = Tail(wire)
        /\ o.reply \in ReplyType /\ line' \in Transmit(line, o.reply)
        /\ WellAddressed(Head(wire))
        /\ \/ Replays(device, Head(wire), o) \/ Tells(device, Head(wire), o)
           \/ Performs(device, Head(wire), o)
    BY <1>15, SoundServes
  <2>2. ASSUME pending.intent = None PROVE Flight(pending, device', wire', line')
    <3>1. /\ pending \in PendingType /\ Local(pending)
          /\ Journal(pending, wire, line) /\ Flight(pending, device, wire, line)
      BY <1>1, <1>2, <1>5, <2>1, <2>2
    <3>2. Flight(pending, o.device, Tail(wire), line')
      BY <1>1, <2>1, <3>1, FlightServed
    <3>. QED
      BY <2>1, <3>2
  <2>. QED
    BY <1>6, <2>1, <2>2
<1>16. ASSUME NEW hz \in Rate, Wanders(hz)
       PROVE  /\ pending'.intent = None => Flight(pending', device', wire', line')
              /\ pending'.intent # None =>
                   Harmless(device', wire', pending'.tid, pending'.intent)
  <2>1. pending' = pending /\ wire' = wire /\ line' = line
    BY <1>16 DEF Wanders, files
  <2>2. pending.intent = None => Flight(pending, device', wire, line)
    BY <1>1, <1>2, <1>5, <1>16, <2>1, FlightWandered DEF Wanders
  <2>. QED
    BY <1>6, <2>1, <2>2
<1>. QED
  BY <1>8, <1>9, <1>10, <1>11, <1>12, <1>13, <1>14, <1>15, <1>16, Steps

\* The invariants of a firmware that answers soundly and a bridge whose
\* transactions end once.
SoundInv ==
  /\ LocalInv /\ TruthInv /\ WireInv /\ JournalInv
  /\ OnceInv /\ Faultless /\ HoldInv

LEMMA SoundInvariant ==
  ASSUME "unlink-command" \notin CrashPoints, ~IdReuse, MaxFaults = 0
  PROVE  Spec => []SoundInv
<1>1. Init => SoundInv
  <2>1. Init => LocalInv /\ TruthInv /\ WireInv /\ JournalInv
    BY DEF Init, Boot, LocalInv, TruthInv, Terminals, WireInv, JournalInv
  <2>2. Init => Faultless
    BY DEF Init, Faultless
  <2>3. Init => HoldInv
    BY DEF Init, Boot, HoldInv, Trace, Answers, Terminals
  <2>. QED
    BY <2>1, <2>2, <2>3, InitOnce DEF SoundInv
<1>2. TypeInv /\ AdoptedIsLedgered /\ SoundInv /\ [Next]_vars => SoundInv'
  <2> SUFFICES ASSUME TypeInv, AdoptedIsLedgered, SoundInv, [Next]_vars PROVE SoundInv'
    OBVIOUS
  <2>1. LocalInv /\ TruthInv /\ WireInv /\ JournalInv /\ TypeInv'
    BY TypeStep DEF SoundInv
  <2>2. LocalInv' /\ TruthInv' /\ WireInv' /\ JournalInv'
    BY <2>1, LocalStep, TruthStep, WireStep, JournalStep
  <2>3. OnceInv' /\ Faultless'
    BY OnceStep, FaultlessStep DEF SoundInv
  <2>4. HoldInv'
    BY <2>1, HoldStep DEF SoundInv
  <2>. QED
    BY <2>2, <2>3, <2>4 DEF SoundInv
<1>. QED
  BY TypeInvariant, OwnsOnlyTheKnown, <1>1, <1>2, PTL DEF Spec

\* A transaction that was declared failed-safe is not what the sensor obeys,
\* however late its APPLY, a repeated answer or the answer to a query comes:
\* the bridge says so only before it sends the APPLY (_on_timeout, shutdown),
\* of an APPLY that was denied (_fail_for_phase), or once the prior rate was
\* read back behind it (_accept_phase_reply); for a firmware that sends no
\* malformed replies.
THEOREM FailedSafeStaysOff ==
  ASSUME "unlink-command" \notin CrashPoints, ~IdReuse, MaxFaults = 0
  PROVE  Spec => []FailedSafeHoldsOff
<1>1. SoundInv => FailedSafeHoldsOff
  BY DEF SoundInv, HoldInv, Harmless, Terminals, FailedSafeHoldsOff
<1>. QED
  BY SoundInvariant, <1>1, PTL

-----------------------------------------------------------------------------
(* The bridge implements the abstract rate change: sealing is the decision,*)
(* and the firmware moves only for who may still move it.                  *)

Decided == [t \in Txn |-> Outcome(t)]

LEMMA InitAbstract == Init => Abstract!Init
<1> SUFFICES ASSUME Init PROVE Abstract!Init
  OBVIOUS
<1>1. Decided = [t \in Txn |-> "open"]
  BY DEF Init, Settled, Outcome, Decided
<1>2. device.hz \in Rate /\ device.owner = None
  BY DEF Init, Boot
<1>. QED
  BY <1>1, <1>2 DEF Abstract!Init, Decided

\* What is decided changes only with the ledger.
LEMMA DecidedStays ==
  ASSUME \A t \in Txn : ledger'[t].terminals = ledger[t].terminals
  PROVE  Decided' = Decided
BY DEF Decided, Outcome, Settled, LastFacts

\* _seal_terminal decides.
LEMMA SealDecides ==
  ASSUME TypeInv, SoundInv, SealTerminal
  PROVE  Abstract!Next
<1>1. /\ pending # None /\ pending.tid \in Txn /\ pending.intent # None
      /\ ~Settled(pending.tid) /\ device' = device
  BY SealStep DEF SealTerminal, TypeInv, Control, SoundInv, OnceInv, link
<1>2. PICK t \in Txn, term \in Terminal : t = pending.tid /\ term = pending.intent
  BY <1>1 DEF TypeInv, TypeOK, Maybe, PendingType
<1>3. /\ ledger'[t].terminals = <<Facts(pending)>> /\ Facts(pending).term = term
      /\ \A u \in Txn : u # t => ledger'[u] = ledger[u]
  BY <1>1, <1>2, SealStep DEF Settled, Terminals, Facts
<1>4. Outcome(t)' = term /\ Outcome(t) = "open"
  BY <1>1, <1>2, <1>3 DEF Outcome, Settled, LastFacts
<1>5. \A u \in Txn : u # t => Outcome(u)' = Outcome(u)
  BY <1>3 DEF Outcome, Settled, LastFacts
<1>6. Decided' = [Decided EXCEPT ![t] = term] /\ Decided[t] = "open"
  BY <1>4, <1>5 DEF Decided
<1>7. term = "failed-safe" => device.owner # t
  BY <1>1, <1>2 DEF SoundInv, HoldInv, Harmless
<1>8. Abstract!Decide(t, term)
  BY <1>1, <1>6, <1>7 DEF Abstract!Decide, Decided
<1>9. term \in Abstract!Outcome
  BY DEF Abstract!Outcome, Terminal
<1>. QED
  BY <1>8, <1>9 DEF Abstract!Next

\* A firmware that serves a request moves for its transaction or not at all.
LEMMA ServingMoves ==
  ASSUME TypeInv, SoundInv, NEW o, NEW f, Serves(o, f)
  PROVE  [Abstract!Next]_(Abstract!vars)
<1>1. SUFFICES ASSUME NEW m, m = Head(wire)
               PROVE  [Abstract!Next]_(Abstract!vars)
  OBVIOUS
<1>2. /\ device \in DeviceType /\ o.device \in DeviceType /\ device' = o.device
      /\ wire \in Seq(RequestType) /\ wire # <<>> /\ m \in RequestType /\ WellAddressed(m)
      /\ Replays(device, m, o) \/ Tells(device, m, o) \/ Performs(device, m, o)
      /\ ledger' = ledger
  BY <1>1, SoundServes DEF SoundInv
<1>3. Decided' = Decided
  BY <1>2, DecidedStays
<1>4. CASE o.device.hz = device.hz /\ o.device.owner = device.owner
  BY <1>2, <1>3, <1>4 DEF Abstract!vars, Decided
<1>5. CASE ~(o.device.hz = device.hz /\ o.device.owner = device.owner)
  <2>1. o.device.owner = m.tid /\ m.tid \in Txn /\ o.device.hz \in Rate
    BY <1>2, <1>5 DEF Replays, Tells, Performs, RequestType, DeviceType
  <2>2. ASSUME Settled(m.tid) PROVE LastFacts(m.tid).term = "rollback-failed"
    <3>1. Terminals(m.tid) \in Seq(FactsType) /\ Terminals(m.tid) # <<>>
      BY <2>1, <2>2 DEF TypeInv, TypeOK, Settled, Terminals
    <3>2. Len(Terminals(m.tid)) \in 1..Len(Terminals(m.tid))
      BY <3>1
    <3>3. Harmless(device, wire, m.tid, LastFacts(m.tid).term)
      BY <2>1, <3>2 DEF SoundInv, HoldInv, LastFacts, Terminals
    <3>. QED
      BY <1>1, <1>2, <1>5, <3>3, HarmlessServed
  <2>3. Decided[m.tid] \in {"open", "rollback-failed"}
    BY <2>1, <2>2 DEF Decided, Outcome
  <2>4. Abstract!Move(m.tid, o.device.hz)
    BY <1>2, <1>3, <2>1, <2>3 DEF Abstract!Move, Decided
  <2>. QED
    BY <2>1, <2>4 DEF Abstract!Next
<1>. QED
  BY <1>4, <1>5

LEMMA StepAbstract ==
  ASSUME TypeInv, SoundInv, [Next]_vars
  PROVE  [Abstract!Next]_(Abstract!vars)
<1>1. CASE SealTerminal
  BY <1>1, SealDecides
<1>2. CASE \E o, f : Serves(o, f)
  BY <1>2, ServingMoves
<1>3. ASSUME NEW hz \in Rate, Wanders(hz)
      PROVE  Abstract!Next
  <2>1. /\ device'.hz = hz /\ device'.owner = None
        /\ ledger' = ledger
    BY <1>3, MovedFields DEF Wanders, Boot, TypeInv, TypeOK, files
  <2>2. Decided' = Decided
    BY <2>1, DecidedStays
  <2>3. Abstract!Drift(hz)
    BY <2>1, <2>2 DEF Abstract!Drift, Decided
  <2>. QED
    BY <2>3 DEF Abstract!Next
<1>4. CASE /\ ~SealTerminal
           /\ \/ PollSends \/ QuerySends \/ TimesOut \/ (\E r \in ReplyType : Hears(r))
              \/ Stops \/ Adopts \/ Forgets \/ Idles
  <2>1. device' = device
    BY <1>4, BridgeLink
  <2>2. \A t \in Txn : ledger'[t].terminals = ledger[t].terminals
    BY <1>4, Discreet DEF WriteStatus, LoadSettled, Terminals
  <2>3. Decided' = Decided
    BY <2>2, DecidedStays
  <2>. QED
    BY <2>1, <2>3 DEF Abstract!vars, Decided
<1>. QED
  BY <1>1, <1>2, <1>3, <1>4, Steps

\* Through queries, retained replies, restores, drifts, reboots and deaths of
\* the process, each transaction is decided once (_seal_terminal), failed-safe
\* only when the sensor does not obey it, and none moves the sensor after its
\* decision but one that was said to have failed to roll back.
THEOREM KeepsThePromise ==
  ASSUME "unlink-command" \notin CrashPoints, ~IdReuse, MaxFaults = 0
  PROVE  Spec => ImplementsRateTransaction
<1>1. TypeInv /\ SoundInv /\ [Next]_vars => [Abstract!Next]_(Abstract!vars)
  BY StepAbstract
<1>. QED
  BY <1>1, InitAbstract, TypeInvariant, SoundInvariant, PTL
     DEF Spec, ImplementsRateTransaction, Abstract!Spec
=============================================================================

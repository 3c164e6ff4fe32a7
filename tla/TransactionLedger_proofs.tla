---------------------- MODULE TransactionLedger_proofs ----------------------
(***************************************************************************)
(* Theorems about TransactionLedger, for any processes, transactions,      *)
(* calls and troubles.                                                     *)
(***************************************************************************)
EXTENDS TransactionLedger, SequenceTheorems, TLAPS

Holding == {"check", "write", "flush", "sync"}

LockInv ==
  /\ \A p \in Process : pc[p] \in Holding <=> holder = p
  /\ \A p \in Process : pc[p] = "read" <=> p \in sharers
  /\ holder # None => sharers = {}

EntryInv ==
  \A p \in Process :
     /\ pc[p] \in {"lock", "check"} => entry[p] \in Entry
     /\ pc[p] \in {"write", "flush", "sync"} => entry[p] \in Event

\* A chain of events that agree, in the order they were made, of which only
\* the last may be damaged; a line without its end is damaged, unless
\* interruptions may leave others.
Good(lines) ==
  /\ lines \in Seq(Line)
  /\ \A i \in 1..Len(lines) :
        IF lines[i].event = None THEN i = Len(lines)
        ELSE /\ lines[i].event.seq = i /\ i <= lines[i].event.id /\ lines[i].event.id <= made
             /\ lines[i].event.prev = IF i = 1 THEN None ELSE lines[i - 1].event.id
             /\ ~Newline => lines[i].ended
  /\ \A i, j \in 1..Len(lines) :
        lines[i].event # None /\ lines[j].event # None =>
           /\ i < j => lines[i].event.id < lines[j].event.id
           /\ lines[i].event.txn # None /\ lines[i].event.txn = lines[j].event.txn
                => lines[i].event.kind = lines[j].event.kind

\* The event can go behind the lines.
Follows(e, lines) ==
  /\ ~Damaged(lines)
  /\ e.seq = Len(lines) + 1 /\ e.seq <= e.id /\ e.id <= made
  /\ e.prev = IF lines = <<>> THEN None ELSE lines[Len(lines)].event.id
  /\ \A i \in 1..Len(lines) : lines[i].event.id < e.id
  /\ Fits(lines, e)

FileInv ==
  /\ Good(file)
  /\ \A p \in Process : pc[p] \in {"write", "flush"} => Follows(entry[p], file)
  /\ \A p \in Process : result[p] = "invalid" => Damaged(file)

\* What an append has returned is on disk, and what one is about to sync is
\* the last line.
KeptInv ==
  /\ \A e \in returned : e.seq <= durable /\ file[e.seq].event = e
  /\ \A p \in Process : pc[p] = "sync" =>
        /\ Len(file) > 0 /\ entry[p].seq = Len(file)
        /\ file[Len(file)].event = entry[p]

IInv == TypeOK /\ LockInv /\ EntryInv /\ FileInv /\ (~Newline => KeptInv)

-----------------------------------------------------------------------------
(* Files.                                                                  *)

LEMMA EventFields ==
  ASSUME NEW e \in Event
  PROVE  /\ e # None /\ e.id \in Nat /\ e.id \in 1..MaxEvents /\ e.seq \in Nat /\ e.seq >= 1
         /\ [event |-> e, ended |-> TRUE] \in Line /\ [event |-> e, ended |-> FALSE] \in Line
BY NoneAssumption, LedgerConstants DEF Event, Line

LEMMA LineFields ==
  ASSUME NEW lines \in Seq(Line), NEW i \in 1..Len(lines)
  PROVE  /\ lines[i] \in Line
         /\ lines[i].event \in Event \cup {None} /\ lines[i].ended \in BOOLEAN
<1>1. lines[i] \in Line
  BY ElementOfSeq
<1>. QED
  BY <1>1 DEF Line

LEMMA PartFields ==
  ASSUME NEW e \in Event \cup {None}, NEW part \in Parts(e)
  PROVE  part \in Line /\ (part.event # None => part.event = e /\ Newline)
<1>1. part = [event |-> None, ended |-> FALSE] \/ (Newline /\ part = [event |-> e, ended |-> FALSE])
  BY LedgerConstants DEF Parts
<1>2. [event |-> None, ended |-> FALSE] \in Line /\ [event |-> e, ended |-> FALSE] \in Line
  BY DEF Line
<1>3. CASE part = [event |-> None, ended |-> FALSE]
  BY <1>2, <1>3
<1>4. CASE Newline /\ part = [event |-> e, ended |-> FALSE]
  BY <1>2, <1>4
<1>. QED
  BY <1>1, <1>3, <1>4

LEMMA CutGood ==
  ASSUME NEW lines, Good(lines), NEW n \in 0..Len(lines), made \in Nat
  PROVE  /\ Good(SubSeq(lines, 1, n)) /\ Len(SubSeq(lines, 1, n)) = n
         /\ \A i \in 1..n : SubSeq(lines, 1, n)[i] = lines[i]
<1>1. lines \in Seq(Line) /\ Len(lines) \in Nat
  BY LenProperties DEF Good
<1>2. \A i \in 1..n : lines[i] \in Line
  BY <1>1, ElementOfSeq
<1>3. /\ SubSeq(lines, 1, n) \in Seq(Line) /\ Len(SubSeq(lines, 1, n)) = n
      /\ \A i \in 1..n : SubSeq(lines, 1, n)[i] = lines[i]
  BY <1>1, <1>2, SubSeqProperties
<1> DEFINE cut == SubSeq(lines, 1, n)
<1>4. \A i \in 1..n : cut[i] = lines[i] /\ i \in 1..Len(lines) /\ (i # 1 => cut[i - 1] = lines[i - 1])
  BY <1>1, <1>3
<1>5. Len(cut) = n /\ cut \in Seq(Line)
  BY <1>3
<1> HIDE DEF cut
<1>6. ASSUME NEW i \in 1..n
      PROVE  IF cut[i].event = None THEN i = n
             ELSE /\ cut[i].event.seq = i /\ i <= cut[i].event.id /\ cut[i].event.id <= made
                  /\ cut[i].event.prev = IF i = 1 THEN None ELSE cut[i - 1].event.id
                  /\ ~Newline => cut[i].ended
  <2>1. IF lines[i].event = None THEN i = Len(lines)
        ELSE /\ lines[i].event.seq = i /\ i <= lines[i].event.id /\ lines[i].event.id <= made
             /\ lines[i].event.prev = IF i = 1 THEN None ELSE lines[i - 1].event.id
             /\ ~Newline => lines[i].ended
    BY <1>4 DEF Good
  <2>2. cut[i] = lines[i] /\ (i # 1 => cut[i - 1] = lines[i - 1]) /\ (i = Len(lines) => i = n)
    BY <1>1, <1>4
  <2>. QED
    BY <2>1, <2>2
<1>7. ASSUME NEW i \in 1..n, NEW j \in 1..n, cut[i].event # None, cut[j].event # None
      PROVE  /\ i < j => cut[i].event.id < cut[j].event.id
             /\ cut[i].event.txn # None /\ cut[i].event.txn = cut[j].event.txn
                  => cut[i].event.kind = cut[j].event.kind
  <2>1. cut[i] = lines[i] /\ cut[j] = lines[j] /\ i \in 1..Len(lines) /\ j \in 1..Len(lines)
    BY <1>4
  <2>2. lines[i].event # None /\ lines[j].event # None
    BY <1>7, <2>1
  <2>3. /\ i < j => lines[i].event.id < lines[j].event.id
        /\ lines[i].event.txn # None /\ lines[i].event.txn = lines[j].event.txn
             => lines[i].event.kind = lines[j].event.kind
    BY <2>1, <2>2 DEF Good
  <2>. QED
    BY <2>1, <2>3
<1>8. Good(cut)
  BY <1>5, <1>6, <1>7 DEF Good
<1>. QED
  BY <1>3, <1>8 DEF cut

\* The file behind which a line was written.
LEMMA BehindFile ==
  ASSUME NEW lines \in Seq(Line), NEW line \in Line
  PROVE  /\ Behind(lines, line) \in Seq(Line)
         /\ Bare(lines) => /\ Len(Behind(lines, line)) = Len(lines) /\ Len(lines) > 0
                           /\ Behind(lines, line)[Len(lines)].event = None
                           /\ \A i \in 1..(Len(lines) - 1) : Behind(lines, line)[i] = lines[i]
         /\ ~Bare(lines) => /\ Len(Behind(lines, line)) = Len(lines) + 1
                            /\ Behind(lines, line)[Len(lines) + 1] = line
                            /\ \A i \in 1..Len(lines) : Behind(lines, line)[i] = lines[i]
<1>1. CASE Bare(lines)
  <2>1. Len(lines) \in Nat /\ Len(lines) > 0
    BY <1>1, EmptySeq DEF Bare
  <2>2. [event |-> None, ended |-> line.ended] \in Line
    BY DEF Line
  <2>. QED
    BY <1>1, <2>1, <2>2, ExceptSeq DEF Behind
<1>2. CASE ~Bare(lines)
  BY <1>2, AppendProperties DEF Behind
<1>. QED
  BY <1>1, <1>2

\* Good lines up to a place, and a damaged line or one that fits behind them.
LEMMA Extended ==
  ASSUME NEW lines, Good(lines), made \in Nat, NEW n \in Nat, n > 0, n - 1 <= Len(lines),
         NEW new \in Seq(Line), Len(new) = n,
         \A i \in 1..(n - 1) : new[i] = lines[i] /\ lines[i].event # None,
         new[n].event # None =>
           /\ new[n].event.seq = n /\ n <= new[n].event.id /\ new[n].event.id <= made
           /\ new[n].event.prev = IF n = 1 THEN None ELSE lines[n - 1].event.id
           /\ ~Newline => new[n].ended
           /\ \A i \in 1..(n - 1) :
                /\ lines[i].event.id < new[n].event.id
                /\ lines[i].event.txn # None /\ lines[i].event.txn = new[n].event.txn
                     => lines[i].event.kind = new[n].event.kind
  PROVE  Good(new)
<1>1. Len(lines) \in Nat
  BY LenProperties DEF Good
<1>2. ASSUME NEW i \in 1..n
      PROVE  IF new[i].event = None THEN i = n
             ELSE /\ new[i].event.seq = i /\ i <= new[i].event.id /\ new[i].event.id <= made
                  /\ new[i].event.prev = IF i = 1 THEN None ELSE new[i - 1].event.id
                  /\ ~Newline => new[i].ended
  <2>1. CASE i = n
    <3>1. n # 1 => new[n - 1] = lines[n - 1]
      OBVIOUS
    <3>. QED
      BY <2>1, <3>1
  <2>2. CASE i # n
    <3>1. i \in 1..(n - 1) /\ i \in 1..Len(lines)
      BY <1>1, <2>2
    <3>2. new[i] = lines[i] /\ lines[i].event # None
      BY <3>1
    <3>3. i # 1 => new[i - 1] = lines[i - 1]
      BY <3>1
    <3>4. /\ lines[i].event.seq = i /\ i <= lines[i].event.id /\ lines[i].event.id <= made
          /\ lines[i].event.prev = IF i = 1 THEN None ELSE lines[i - 1].event.id
          /\ ~Newline => lines[i].ended
      BY <3>1, <3>2 DEF Good
    <3>. QED
      BY <3>2, <3>3, <3>4
  <2>. QED
    BY <2>1, <2>2
<1>3. ASSUME NEW i \in 1..n, NEW j \in 1..n, new[i].event # None, new[j].event # None
      PROVE  /\ i < j => new[i].event.id < new[j].event.id
             /\ new[i].event.txn # None /\ new[i].event.txn = new[j].event.txn
                  => new[i].event.kind = new[j].event.kind
  <2>1. CASE i = n /\ j = n
    BY <2>1
  <2>2. CASE i = n /\ j # n
    <3>1. j \in 1..(n - 1) /\ new[j] = lines[j]
      BY <2>2
    <3>. QED
      BY <1>3, <2>2, <3>1
  <2>3. CASE i # n /\ j = n
    <3>1. i \in 1..(n - 1) /\ new[i] = lines[i]
      BY <2>3
    <3>. QED
      BY <1>3, <2>3, <3>1
  <2>4. CASE i # n /\ j # n
    <3>1. /\ i \in 1..Len(lines) /\ new[i] = lines[i] /\ lines[i].event # None
          /\ j \in 1..Len(lines) /\ new[j] = lines[j] /\ lines[j].event # None
      BY <1>1, <2>4
    <3>. QED
      BY <3>1 DEF Good
  <2>. QED
    BY <2>1, <2>2, <2>3, <2>4
<1>. QED
  BY <1>2, <1>3 DEF Good

LEMMA BehindGood ==
  ASSUME NEW lines, Good(lines), NEW e \in Event, Follows(e, lines), made \in Nat,
         NEW line \in Line, line.event \in {e, None}, line.event = e /\ ~Newline => line.ended
  PROVE  /\ Good(Behind(lines, line))
         /\ Len(lines) \in Nat /\ Len(Behind(lines, line)) >= Len(lines)
         /\ ~Newline => /\ Len(Behind(lines, line)) = Len(lines) + 1
                        /\ Behind(lines, line)[Len(lines) + 1] = line
                        /\ \A i \in 1..Len(lines) : Behind(lines, line)[i] = lines[i]
<1>1. lines \in Seq(Line) /\ Len(lines) \in Nat
  BY LenProperties DEF Good
<1>2. \A i \in 1..Len(lines) : lines[i].event # None
  BY DEF Follows, Damaged
<1>3. ~Newline => ~Bare(lines)
  <2>1. lines # <<>> => Len(lines) \in 1..Len(lines)
    BY <1>1, EmptySeq
  <2>. QED
    BY <1>2, <2>1 DEF Good, Bare
<1>4. CASE Bare(lines)
  <2>1. /\ Behind(lines, line) \in Seq(Line)
        /\ Len(Behind(lines, line)) = Len(lines) /\ Len(lines) > 0
        /\ Behind(lines, line)[Len(lines)].event = None
        /\ \A i \in 1..(Len(lines) - 1) : Behind(lines, line)[i] = lines[i]
    BY <1>1, <1>4, BehindFile
  <2>2. Good(Behind(lines, line))
    BY <1>1, <1>2, <2>1, Extended
  <2>. QED
    BY <1>1, <1>3, <1>4, <2>1, <2>2
<1>5. CASE ~Bare(lines)
  <2>. DEFINE new == Behind(lines, line)
              n == Len(lines) + 1
  <2>1. /\ new \in Seq(Line) /\ Len(new) = n /\ new[n] = line
        /\ \A i \in 1..Len(lines) : new[i] = lines[i]
    BY <1>1, <1>5, BehindFile
  <2>2. e.prev = IF n = 1 THEN None ELSE lines[n - 1].event.id
    BY <1>1, EmptySeq DEF Follows
  <2>3. \A i \in 1..Len(lines) :
           /\ lines[i].event.id < e.id
           /\ lines[i].event.txn # None /\ lines[i].event.txn = e.txn => lines[i].event.kind = e.kind
    BY DEF Follows, Fits
  <2>4. e.seq = n /\ n <= e.id /\ e.id <= made
    BY DEF Follows
  <2>5. n \in Nat /\ n > 0 /\ n - 1 = Len(lines)
    BY <1>1
  <2>. HIDE DEF n, new
  <2>6. Good(new)
    BY <1>1, <1>2, <2>1, <2>2, <2>3, <2>4, <2>5, Extended
  <2>. QED
    BY <1>1, <2>1, <2>6 DEF n, new
<1>. QED
  BY <1>4, <1>5

\* Whatever is left of a line under way is good.
LEMMA LeftoversGood ==
  ASSUME NEW e \in Event, Good(file), Follows(e, file), made \in Nat, NEW new \in Leftovers(e)
  PROVE  /\ Good(new) /\ Len(file) \in Nat /\ Len(new) >= Len(file)
         /\ ~Newline => \A i \in 1..Len(file) : new[i] = file[i]
<1>1. Len(file) \in Nat
  BY LenProperties DEF Good
<1>2. CASE new = file
  BY <1>1, <1>2
<1>3. CASE new = Behind(file, Whole(e))
  BY <1>3, BehindGood, EventFields DEF Whole
<1>4. ASSUME NEW part \in Parts(e), new = Behind(file, part)
      PROVE  /\ Good(new) /\ Len(new) >= Len(file)
             /\ ~Newline => \A i \in 1..Len(file) : new[i] = file[i]
  <2>1. part \in Line /\ part.event \in {e, None} /\ (part.event = e /\ ~Newline => part.ended)
    <3>1. e \in Event \cup {None}
      OBVIOUS
    <3>2. part \in Line /\ (part.event # None => part.event = e /\ Newline)
      BY <1>4, <3>1, PartFields
    <3>3. e # None
      BY EventFields
    <3>. QED
      BY <3>2, <3>3
  <2>. QED
    BY <1>4, <2>1, BehindGood
<1>. QED
  BY <1>1, <1>2, <1>3, <1>4 DEF Leftovers

LEMMA LeftGood ==
  ASSUME NEW lines, Good(lines), made \in Nat, durable \in 0..Len(lines), NEW new \in Left(lines)
  PROVE  /\ Good(new) /\ Len(new) \in Nat /\ Len(new) >= durable
         /\ \A i \in 1..durable : new[i] = lines[i]
<1>1. lines \in Seq(Line) /\ Len(lines) \in Nat
  BY LenProperties DEF Good
<1>2. ASSUME NEW n \in durable..Len(lines), new = SubSeq(lines, 1, n)
      PROVE  /\ Good(new) /\ Len(new) \in Nat /\ Len(new) >= durable
             /\ \A i \in 1..durable : new[i] = lines[i]
  <2>1. n \in 0..Len(lines)
    BY <1>1
  <2>. QED
    BY <1>1, <1>2, <2>1, CutGood
<1>3. ASSUME NEW n \in durable..(Len(lines) - 1), NEW part \in Parts(lines[n + 1].event),
             new = Append(SubSeq(lines, 1, n), part)
      PROVE  /\ Good(new) /\ Len(new) \in Nat /\ Len(new) >= durable
             /\ \A i \in 1..durable : new[i] = lines[i]
  <2>. DEFINE cut == SubSeq(lines, 1, n)
  <2>1. n \in 0..Len(lines) /\ n \in Nat /\ n + 1 \in 1..Len(lines)
    BY <1>1
  <2>2. /\ Good(cut) /\ cut \in Seq(Line) /\ Len(cut) = n
        /\ \A i \in 1..n : cut[i] = lines[i]
    <3>1. Good(cut) /\ Len(cut) = n /\ \A i \in 1..n : cut[i] = lines[i]
      BY <2>1, CutGood
    <3>. QED
      BY <3>1 DEF Good
  <2>3. lines[n + 1].event \in Event \cup {None}
    BY <1>1, <2>1, LineFields
  <2>4. /\ part \in Line
        /\ part.event # None => part.event = lines[n + 1].event /\ Newline
    BY <2>3, PartFields
  <2>5. /\ new \in Seq(Line) /\ Len(new) = n + 1 /\ new[n + 1] = part
        /\ \A i \in 1..n : new[i] = lines[i]
    BY <1>3, <2>1, <2>2, <2>4, AppendProperties
  <2>6. \A i \in 1..n : lines[i].event # None
    BY <1>1, <2>1 DEF Good
  <2>7. part.event # None =>
          /\ part.event.seq = n + 1 /\ n + 1 <= part.event.id /\ part.event.id <= made
          /\ part.event.prev = IF n + 1 = 1 THEN None ELSE lines[n].event.id
          /\ \A i \in 1..n :
               /\ lines[i].event.id < part.event.id
               /\ lines[i].event.txn # None /\ lines[i].event.txn = part.event.txn
                     => lines[i].event.kind = part.event.kind
    <3>1. SUFFICES ASSUME part.event # None
          PROVE  /\ part.event.seq = n + 1 /\ n + 1 <= part.event.id /\ part.event.id <= made
                 /\ part.event.prev = IF n + 1 = 1 THEN None ELSE lines[n].event.id
                 /\ \A i \in 1..n :
                      /\ lines[i].event.id < part.event.id
                      /\ lines[i].event.txn # None /\ lines[i].event.txn = part.event.txn
                            => lines[i].event.kind = part.event.kind
      OBVIOUS
    <3>2. part.event = lines[n + 1].event /\ lines[n + 1].event # None
      BY <2>4, <3>1
    <3>3. /\ lines[n + 1].event.seq = n + 1 /\ n + 1 <= lines[n + 1].event.id /\ lines[n + 1].event.id <= made
          /\ lines[n + 1].event.prev = IF n + 1 = 1 THEN None ELSE lines[(n + 1) - 1].event.id
      BY <2>1, <3>2 DEF Good
    <3>4. \A i \in 1..n :
            /\ lines[i].event.id < lines[n + 1].event.id
            /\ lines[i].event.txn # None /\ lines[i].event.txn = lines[n + 1].event.txn
                  => lines[i].event.kind = lines[n + 1].event.kind
      <4>1. SUFFICES ASSUME NEW i \in 1..n
            PROVE  /\ lines[i].event.id < lines[n + 1].event.id
                   /\ lines[i].event.txn # None /\ lines[i].event.txn = lines[n + 1].event.txn
                         => lines[i].event.kind = lines[n + 1].event.kind
        OBVIOUS
      <4>2. i \in 1..Len(lines) /\ i < n + 1 /\ lines[i].event # None
        BY <1>1, <2>1, <2>6
      <4>. QED
        BY <2>1, <3>2, <4>2 DEF Good
    <3>5. (n + 1) - 1 = n
      BY <2>1
    <3>. QED
      BY <3>2, <3>3, <3>4, <3>5
  <2>8. DEFINE k == n + 1
  <2>9. k \in Nat /\ k > 0 /\ k - 1 = n /\ n <= Len(lines) /\ durable <= n /\ n \in Nat /\ durable \in Nat
    BY <1>1, <2>1
  <2>10. Good(new)
    <3>. HIDE DEF k
    <3>1. new \in Seq(Line) /\ Len(new) = k /\ new[k] = part
      BY <2>5 DEF k
    <3>2. part.event # None =>
            /\ part.event.seq = k /\ k <= part.event.id /\ part.event.id <= made
            /\ part.event.prev = IF k = 1 THEN None ELSE lines[k - 1].event.id
      BY <2>7, <2>9 DEF k
    <3>3. \A i \in 1..(k - 1) : new[i] = lines[i] /\ lines[i].event # None
      BY <2>5, <2>6, <2>9
    <3>4. new[k].event # None =>
            /\ new[k].event.seq = k /\ k <= new[k].event.id /\ new[k].event.id <= made
            /\ new[k].event.prev = IF k = 1 THEN None ELSE lines[k - 1].event.id
            /\ ~Newline => new[k].ended
            /\ \A i \in 1..(k - 1) :
                 /\ lines[i].event.id < new[k].event.id
                 /\ lines[i].event.txn # None /\ lines[i].event.txn = new[k].event.txn
                      => lines[i].event.kind = new[k].event.kind
      BY <2>4, <2>7, <2>9, <3>1, <3>2
    <3>. QED
      BY <2>9, <3>1, <3>3, <3>4, Extended
  <2>. QED
    BY <2>5, <2>9, <2>10
<1>. QED
  BY <1>2, <1>3 DEF Left

-----------------------------------------------------------------------------
(* Locks.                                                                  *)

\* Behind a lock no line is under way.
LEMMA Reading ==
  ASSUME IInv, NEW p \in Process, pc[p] \in {"check", "read"}
  PROVE  Unreadable <=> Damaged(file)
<1>1. ASSUME NEW q \in Process, pc[q] = "flush"
      PROVE  FALSE
  <2>1. holder = q /\ holder # None
    BY <1>1, LedgerConstants DEF IInv, LockInv, Holding
  <2>2. p \notin sharers
    BY <2>1 DEF IInv, LockInv
  <2>3. pc[p] = "check" /\ holder = p
    BY <2>2 DEF IInv, LockInv, Holding
  <2>. QED
    BY <1>1, <2>1, <2>3
<1>. QED
  BY <1>1 DEF Unreadable

LEMMA Alone ==
  ASSUME IInv, NEW p \in Process, NEW q \in Process, pc[p] \in Holding, pc[q] \in Holding
  PROVE  p = q
BY DEF IInv, LockInv

LEMMA LockStep ==
  ASSUME IInv, [Next]_vars
  PROVE  LockInv'
<1>. USE DEF LockInv, Holding, Leave, Goto, disk, lock, history, counters
<1>1. /\ pc \in [Process -> PC] /\ sharers \subseteq Process
      /\ holder \in Process \cup {None} /\ None \notin Process
  BY LedgerConstants DEF IInv, TypeOK
<1>2. LockInv
  BY DEF IInv
<1>3. CASE UNCHANGED vars
  BY <1>2, <1>3 DEF vars
<1>4. ASSUME NEW p \in Process, Invalid(p) \/ Refuse(p)
      PROVE  LockInv'
  BY <1>1, <1>2, <1>4 DEF Invalid, Refuse
<1>5. ASSUME NEW p \in Process, Check(p) \/ Write(p) \/ Flush(p)
      PROVE  LockInv'
  BY <1>1, <1>2, <1>5 DEF Check, Write, Flush
<1>6. ASSUME NEW p \in Process, Sync(p)
      PROVE  LockInv'
  BY <1>1, <1>2, <1>6 DEF Sync
<1>7. ASSUME NEW p \in Process, Lock(p)
      PROVE  LockInv'
  BY <1>1, <1>2, <1>7 DEF Lock
<1>8. ASSUME NEW p \in Process, Share(p)
      PROVE  LockInv'
  BY <1>1, <1>2, <1>8 DEF Share
<1>9. ASSUME NEW p \in Process, Read(p)
      PROVE  LockInv'
  BY <1>1, <1>2, <1>9 DEF Read
<1>10. ASSUME NEW p \in Process, OpenRead(p) \/ \E e \in Entry : Open(p, e)
      PROVE  LockInv'
  BY <1>1, <1>2, <1>10 DEF OpenRead, Open
<1>11. ASSUME NEW p \in Process, Break(p)
      PROVE  LockInv'
  BY <1>1, <1>2, <1>11 DEF Break
<1>12. CASE PowerLoss
  BY <1>1, <1>2, <1>12 DEF PowerLoss
<1>. QED
  BY <1>3, <1>4, <1>5, <1>6, <1>7, <1>8, <1>9, <1>10, <1>11, <1>12 DEF Next, Call, Appending, Done

-----------------------------------------------------------------------------
(* What is appended.                                                       *)

LEMMA EntryStep ==
  ASSUME IInv, [Next]_vars
  PROVE  EntryInv' /\ entry' \in [Process -> Entry \cup Event \cup {None}]
<1>. USE DEF EntryInv, Leave, Goto, disk, lock, history, counters
<1>. DEFINE Right == EntryInv' /\ entry' \in [Process -> Entry \cup Event \cup {None}]
<1>1. pc \in [Process -> PC] /\ entry \in [Process -> Entry \cup Event \cup {None}]
  BY DEF IInv, TypeOK
<1>2. EntryInv
  BY DEF IInv
<1>3. CASE UNCHANGED vars
  BY <1>1, <1>2, <1>3 DEF vars
<1>4. ASSUME NEW p \in Process, Invalid(p) \/ Refuse(p) \/ Sync(p) \/ Read(p) \/ Break(p)
      PROVE  Right
  BY <1>1, <1>2, <1>4 DEF Invalid, Refuse, Sync, Read, Break
<1>5. ASSUME NEW p \in Process, Check(p)
      PROVE  Right
  <2>1. entry[p] \in Entry /\ made \in 0..MaxEvents /\ made < MaxEvents /\ MaxEvents \in Nat
    BY <1>2, <1>5, LedgerConstants DEF Check, IInv, TypeOK
  <2>2. file \in Seq(Line) /\ Len(file) \in Nat
    BY LenProperties DEF IInv, TypeOK
  <2>3. ~Damaged(file)
    BY <1>5 DEF Check, Unreadable
  <2>4. file # <<>> => file[Len(file)].event \in Event
    <3>1. file # <<>> => Len(file) \in 1..Len(file)
      BY <2>2, EmptySeq
    <3>. QED
      BY <2>2, <2>3, <3>1, LineFields DEF Damaged
  <2>5. (IF file = <<>> THEN None ELSE file[Len(file)].event.id) \in (1..MaxEvents) \cup {None}
    BY <2>4, EventFields
  <2>6. made + 1 \in 1..MaxEvents
    BY <2>1
  <2>7. Len(file) + 1 \in 1..MaxEvents
    <3>1. CASE file = <<>>
      BY <2>1, <2>2, <3>1, EmptySeq
    <3>2. CASE file # <<>>
      <4>1. Len(file) \in 1..Len(file)
        BY <2>2, <3>2, EmptySeq
      <4>2. Len(file) <= file[Len(file)].event.id /\ file[Len(file)].event.id <= made
        BY <2>3, <4>1 DEF IInv, FileInv, Good, Damaged
      <4>3. file[Len(file)].event.id \in Nat
        BY <2>4, <3>2, EventFields
      <4>. QED
        BY <2>1, <2>2, <4>2, <4>3
    <3>. QED
      BY <3>1, <3>2
  <2>8. NextEvent(entry[p]) \in Event
    BY <2>1, <2>5, <2>6, <2>7 DEF NextEvent, Event, Entry
  <2>. QED
    BY <1>1, <1>2, <1>5, <2>8 DEF Check
<1>6. ASSUME NEW p \in Process, Write(p) \/ Flush(p) \/ Lock(p) \/ Share(p) \/ OpenRead(p)
      PROVE  Right
  BY <1>1, <1>2, <1>6 DEF Write, Flush, Lock, Share, OpenRead
<1>7. ASSUME NEW p \in Process, NEW e \in Entry, Open(p, e)
      PROVE  Right
  BY <1>1, <1>2, <1>7 DEF Open
<1>8. CASE PowerLoss
  BY <1>1, <1>2, <1>8 DEF PowerLoss
<1>. QED
  BY <1>3, <1>4, <1>5, <1>6, <1>7, <1>8 DEF Next, Call, Appending, Done

-----------------------------------------------------------------------------
(* The file.                                                               *)

LEMMA GoodLater ==
  ASSUME NEW lines, Good(lines), file' = lines, made \in Nat, made' \in {made, made + 1}
  PROVE  Good(file)'
<1>1. lines \in Seq(Line)
  BY DEF Good
<1>2. ASSUME NEW i \in 1..Len(lines), lines[i].event # None
      PROVE  lines[i].event.id <= made'
  <2>1. lines[i].event.id \in Nat
    BY <1>1, <1>2, LineFields, EventFields
  <2>. QED
    BY <1>2, <2>1 DEF Good
<1>. QED
  BY <1>2 DEF Good

\* The steps that change the file, and what they leave of it.
LEMMA FileMoves ==
  ASSUME IInv, [Next]_vars
  PROVE  /\ Good(file)' /\ Len(file') \in Nat
         /\ durable' \in 0..Len(file') /\ durable <= durable'
         /\ ~Newline => \A i \in 1..durable : file'[i] = file[i]
<1>. DEFINE Right == /\ Good(file)' /\ Len(file') \in Nat
                     /\ durable' \in 0..Len(file') /\ durable <= durable'
                     /\ ~Newline => \A i \in 1..durable : file'[i] = file[i]
<1>1. /\ Good(file) /\ file \in Seq(Line) /\ Len(file) \in Nat
      /\ durable \in 0..Len(file) /\ durable \in Nat /\ made \in Nat
  BY LenProperties, LedgerConstants DEF IInv, TypeOK, FileInv
<1>2. ASSUME UNCHANGED disk, made' \in {made, made + 1}
      PROVE  Right
  BY <1>1, <1>2, GoodLater DEF disk
<1>3. ASSUME NEW p \in Process, Flush(p)
      PROVE  Right
  <2>1. entry[p] \in Event /\ Follows(entry[p], file)
    BY <1>3 DEF Flush, IInv, EntryInv, FileInv
  <2>2. Behind(file, Whole(entry[p])) \in Leftovers(entry[p])
    BY DEF Leftovers
  <2>3. /\ Good(file') /\ Len(file') >= Len(file)
        /\ ~Newline => \A i \in 1..Len(file) : file'[i] = file[i]
    BY <1>1, <1>3, <2>1, <2>2, LeftoversGood DEF Flush
  <2>. QED
    BY <1>1, <1>3, <2>3, GoodLater, LenProperties DEF Flush, history, Good
<1>4. ASSUME NEW p \in Process, Sync(p)
      PROVE  Right
  BY <1>1, <1>4, GoodLater DEF Sync
<1>5. ASSUME NEW p \in Process, Break(p), pc[p] = "flush"
      PROVE  Right
  <2>1. entry[p] \in Event /\ Follows(entry[p], file)
    BY <1>5 DEF IInv, EntryInv, FileInv
  <2>2. file' \in Leftovers(entry[p])
    BY <1>5 DEF Break
  <2>3. /\ Good(file') /\ Len(file') >= Len(file)
        /\ ~Newline => \A i \in 1..Len(file) : file'[i] = file[i]
    BY <1>1, <2>1, <2>2, LeftoversGood
  <2>. QED
    BY <1>1, <1>5, <2>3, GoodLater, LenProperties DEF Break, history, Good
<1>6. CASE PowerLoss /\ file' \in Left(file)
  <2>1. /\ Good(file') /\ Len(file') \in Nat /\ Len(file') >= durable
        /\ \A i \in 1..durable : file'[i] = file[i]
    BY <1>1, <1>6, LeftGood
  <2>. QED
    BY <1>1, <1>6, <2>1, GoodLater DEF PowerLoss, history
<1>7. ASSUME NEW p \in Process, PowerLoss, pc[p] = "flush",
             NEW lines \in Leftovers(entry[p]), file' \in Left(lines)
      PROVE  Right
  <2>1. entry[p] \in Event /\ Follows(entry[p], file)
    BY <1>7 DEF IInv, EntryInv, FileInv
  <2>2. /\ Good(lines) /\ Len(lines) >= Len(file)
        /\ ~Newline => \A i \in 1..Len(file) : lines[i] = file[i]
    BY <1>1, <2>1, LeftoversGood
  <2>3. durable \in 0..Len(lines)
    BY <1>1, <2>2, LenProperties DEF Good
  <2>4. /\ Good(file') /\ Len(file') \in Nat /\ Len(file') >= durable
        /\ \A i \in 1..durable : file'[i] = lines[i]
    BY <1>1, <1>7, <2>2, <2>3, LeftGood
  <2>. QED
    BY <1>1, <1>7, <2>2, <2>4, GoodLater DEF PowerLoss, history
<1>8. ASSUME NEW p \in Process, Break(p), pc[p] # "flush"
      PROVE  Right
  <2>1. UNCHANGED disk /\ made' = made
    BY <1>8 DEF Break, disk, history
  <2>. QED
    BY <1>2, <2>1
<1>9. ASSUME NEW p \in Process, OpenRead(p) \/ Lock(p) \/ Share(p) \/ Read(p) \/ Invalid(p) \/ Refuse(p)
                                \/ Check(p) \/ Write(p) \/ \E e \in Entry : Open(p, e)
      PROVE  Right
  <2>1. UNCHANGED disk /\ made' \in {made, made + 1}
    BY <1>9 DEF OpenRead, Lock, Share, Read, Invalid, Refuse, Check, Write, Open, history
  <2>. QED
    BY <1>2, <2>1
<1>10. CASE UNCHANGED vars
  BY <1>2, <1>10 DEF vars, history
<1>11. CASE PowerLoss
  BY <1>6, <1>7, <1>11 DEF PowerLoss
<1>. QED
  BY <1>3, <1>4, <1>5, <1>8, <1>9, <1>10, <1>11 DEF Next, Call, Appending, Done

\* A line goes behind what was validated, and nothing comes between.
LEMMA FileStep ==
  ASSUME IInv, [Next]_vars
  PROVE  FileInv'
<1>. USE DEF Leave, Goto, disk, lock, history, counters
<1>1. /\ pc \in [Process -> PC] /\ entry \in [Process -> Entry \cup Event \cup {None}]
      /\ result \in [Process -> {"ok", "invalid", "refused", "broken", None}]
      /\ made \in Nat /\ None \notin Process
  BY LedgerConstants DEF IInv, TypeOK
<1>2. /\ \A p \in Process : pc[p] \in {"write", "flush"} => Follows(entry[p], file)
      /\ \A p \in Process : result[p] = "invalid" => Damaged(file)
  BY DEF IInv, FileInv
<1>3. Good(file)'
  BY FileMoves
<1>. DEFINE Rest == /\ \A p \in Process : pc'[p] \in {"write", "flush"} => Follows(entry[p], file)'
                    /\ \A p \in Process : result'[p] = "invalid" => Damaged(file)'
<1>4. ASSUME UNCHANGED vars
      PROVE  Rest
  <2>1. UNCHANGED <<file, made, pc, entry, result>>
    BY <1>4 DEF vars
  <2>. QED
    BY <1>2, <2>1 DEF Follows
<1>5. ASSUME NEW p \in Process, Invalid(p) \/ Refuse(p) \/ Read(p)
      PROVE  Rest
  <2>1. UNCHANGED <<file, made>> /\ \A q \in Process \ {p} : UNCHANGED <<pc[q], entry[q], result[q]>>
    BY <1>1, <1>5 DEF Invalid, Refuse, Read
  <2>2. pc'[p] = "idle" /\ (result'[p] = "invalid" => Damaged(file))
    BY <1>1, <1>5, Reading DEF Invalid, Refuse, Read
  <2>. QED
    BY <1>2, <2>1, <2>2 DEF Follows
<1>6. ASSUME NEW p \in Process, Check(p)
      PROVE  Rest
  <2>1. /\ UNCHANGED <<file, result>> /\ made' = made + 1
        /\ \A q \in Process \ {p} : UNCHANGED <<pc[q], entry[q]>>
    BY <1>1, <1>6 DEF Check
  <2>2. ASSUME NEW q \in Process, q # p, pc[q] \in {"write", "flush"}
        PROVE  FALSE
    BY <1>6, <2>2, Alone DEF Check, Holding
  <2>3. ~Damaged(file) /\ Fits(file, entry[p])
    BY <1>6 DEF Check, Unreadable
  <2>4. entry'[p] = NextEvent(entry[p])
    BY <1>1, <1>6 DEF Check
  <2>5. file \in Seq(Line) /\ Len(file) \in Nat
    BY LenProperties DEF IInv, TypeOK
  <2>6. ASSUME NEW i \in 1..Len(file)
        PROVE  file[i].event.id < made + 1 /\ i <= made
    <3>1. file[i].event # None /\ file[i].event.id \in Nat
      BY <2>3, <2>5, LineFields, EventFields DEF Damaged
    <3>. QED
      BY <1>1, <2>5, <3>1 DEF IInv, FileInv, Good
  <2>7. Len(file) <= made
    <3>1. Len(file) # 0 => Len(file) \in 1..Len(file)
      BY <2>5
    <3>. QED
      BY <1>1, <2>5, <2>6, <3>1
  <2>8. Follows(entry[p], file)'
    BY <1>1, <2>1, <2>3, <2>4, <2>5, <2>6, <2>7 DEF Follows, NextEvent, Fits, Damaged
  <2>. QED
    BY <1>2, <2>1, <2>2, <2>8
<1>7. ASSUME NEW p \in Process, Write(p) \/ Lock(p) \/ Share(p) \/ OpenRead(p) \/ \E e \in Entry : Open(p, e)
      PROVE  Rest
  <2>1. /\ UNCHANGED <<file, made>> /\ \A q \in Process \ {p} : UNCHANGED <<pc[q], entry[q], result[q]>>
        /\ pc'[p] \in {"write", "flush"} => pc[p] = "write" /\ entry'[p] = entry[p]
        /\ result'[p] \in {result[p], None}
    BY <1>1, <1>7 DEF Write, Lock, Share, OpenRead, Open
  <2>2. None # "invalid"
    BY LedgerConstants
  <2>. QED
    BY <1>2, <2>1, <2>2 DEF Follows
<1>8. ASSUME NEW p \in Process, Flush(p) \/ Sync(p) \/ Break(p)
      PROVE  Rest
  <2>1. /\ \A q \in Process \ {p} : UNCHANGED <<pc[q], entry[q], result[q]>>
        /\ pc'[p] \notin {"write", "flush"}
        /\ result'[p] \in {result[p], "ok", "broken"}
        /\ made' = made
    BY <1>1, <1>8 DEF Flush, Sync, Break
  <2>2. CASE pc[p] = "flush"
    <3>1. ~Damaged(file)
      BY <1>2, <2>2 DEF Follows
    <3>2. \A q \in Process : q # p => pc[q] \notin {"write", "flush"}
      BY <2>2, Alone DEF Holding
    <3>. QED
      BY <1>2, <2>1, <3>1, <3>2
  <2>3. CASE pc[p] # "flush"
    <3>1. file' = file
      BY <1>8, <2>3 DEF Flush, Sync, Break
    <3>. QED
      BY <1>2, <2>1, <3>1 DEF Follows
  <2>. QED
    BY <2>2, <2>3
<1>9. ASSUME PowerLoss
      PROVE  Rest
  <2>1. \A p \in Process : pc'[p] = "idle" /\ result'[p] = None
    BY <1>9 DEF PowerLoss
  <2>. QED
    BY <2>1, LedgerConstants
<1>10. Rest
  BY <1>4, <1>5, <1>6, <1>7, <1>8, <1>9 DEF Next, Call, Appending, Done
<1>. QED
  BY <1>3, <1>10 DEF FileInv

\* Without lines that only lack their end, nothing that was written is spoiled.
LEMMA KeptStep ==
  ASSUME IInv, [Next]_vars, ~Newline
  PROVE  KeptInv'
<1>. USE DEF Leave, Goto, disk, lock, history, counters
<1>1. /\ pc \in [Process -> PC] /\ entry \in [Process -> Entry \cup Event \cup {None}]
      /\ returned \subseteq Event /\ file \in Seq(Line)
      /\ Len(file) \in Nat /\ durable \in 0..Len(file) /\ made \in Nat
  BY LenProperties, LedgerConstants DEF IInv, TypeOK
<1>2. KeptInv
  BY DEF IInv
<1>3. /\ Good(file)' /\ Len(file') \in Nat
      /\ durable' \in 0..Len(file') /\ durable <= durable'
      /\ \A i \in 1..durable : file'[i] = file[i]
  BY FileMoves
<1>. DEFINE Kept == \A e \in returned' : e.seq <= durable' /\ file'[e.seq].event = e
            Syncing(p) == /\ Len(file) > 0 /\ entry[p].seq = Len(file)
                          /\ file[Len(file)].event = entry[p]
<1>4. ASSUME NEW e \in returned
      PROVE  e.seq <= durable' /\ file'[e.seq].event = e
  <2>1. e \in Event /\ e.seq \in Nat /\ e.seq >= 1
    BY <1>1, EventFields
  <2>2. e.seq <= durable /\ file[e.seq].event = e
    BY <1>2 DEF KeptInv
  <2>3. e.seq \in 1..durable
    BY <1>1, <2>1, <2>2
  <2>. QED
    BY <1>1, <1>3, <2>1, <2>2, <2>3
<1>5. ASSUME NEW p \in Process, Sync(p)
      PROVE  Kept /\ \A q \in Process : pc'[q] = "sync" => Syncing(q)'
  <2>1. /\ Len(file) > 0 /\ entry[p].seq = Len(file) /\ file[Len(file)].event = entry[p]
    BY <1>2, <1>5 DEF KeptInv, Sync
  <2>2. Kept
    BY <1>1, <1>4, <1>5, <2>1 DEF Sync
  <2>3. ASSUME NEW q \in Process, pc'[q] = "sync"
        PROVE  FALSE
    <3>1. q # p /\ pc[q] = "sync" /\ pc[p] = "sync"
      BY <1>1, <1>5, <2>3 DEF Sync
    <3>. QED
      BY <3>1, Alone DEF Holding
  <2>. QED
    BY <2>2, <2>3
<1>6. ASSUME NEW p \in Process, Flush(p)
      PROVE  Kept /\ \A q \in Process : pc'[q] = "sync" => Syncing(q)'
  <2>1. entry[p] \in Event /\ Follows(entry[p], file) /\ Good(file)
    BY <1>6 DEF Flush, IInv, EntryInv, FileInv
  <2>2. Whole(entry[p]) \in Line /\ Whole(entry[p]).event = entry[p] /\ Whole(entry[p]).ended
    BY <2>1, EventFields DEF Whole
  <2>3. /\ Len(file') = Len(file) + 1
        /\ file'[Len(file) + 1] = Whole(entry[p])
    BY <1>1, <1>6, <2>1, <2>2, BehindGood DEF Flush
  <2>4. Syncing(p)'
    BY <1>1, <1>6, <2>1, <2>2, <2>3 DEF Flush, Follows
  <2>5. ASSUME NEW q \in Process, q # p, pc'[q] = "sync"
        PROVE  FALSE
    <3>1. pc[q] = "sync" /\ pc[p] = "flush"
      BY <1>1, <1>6, <2>5 DEF Flush
    <3>. QED
      BY <2>5, <3>1, Alone DEF Holding
  <2>6. Kept
    BY <1>4, <1>6 DEF Flush
  <2>. QED
    BY <2>4, <2>5, <2>6
<1>7. ASSUME NEW p \in Process, Break(p)
      PROVE  Kept /\ \A q \in Process : pc'[q] = "sync" => Syncing(q)'
  <2>1. Kept
    BY <1>4, <1>7 DEF Break
  <2>2. ASSUME NEW q \in Process, pc'[q] = "sync"
        PROVE  Syncing(q)'
    <3>1. q # p /\ pc[q] = "sync" /\ entry'[q] = entry[q]
      BY <1>1, <1>7, <2>2 DEF Break
    <3>2. pc[p] # "flush"
      BY <3>1, Alone DEF Holding
    <3>3. file' = file
      BY <1>7, <3>2 DEF Break
    <3>. QED
      BY <1>2, <3>1, <3>3 DEF KeptInv
  <2>. QED
    BY <2>1, <2>2
<1>8. ASSUME NEW p \in Process, OpenRead(p) \/ Lock(p) \/ Share(p) \/ Read(p) \/ Invalid(p) \/ Refuse(p)
                                \/ Check(p) \/ Write(p) \/ \E e \in Entry : Open(p, e)
      PROVE  Kept /\ \A q \in Process : pc'[q] = "sync" => Syncing(q)'
  <2>1. /\ UNCHANGED <<disk, returned>>
        /\ \A q \in Process : pc'[q] = "sync" => pc[q] = "sync" /\ entry'[q] = entry[q]
    BY <1>1, <1>8 DEF OpenRead, Lock, Share, Read, Invalid, Refuse, Check, Write, Open
  <2>. QED
    BY <1>2, <1>4, <2>1 DEF KeptInv
<1>9. ASSUME PowerLoss
      PROVE  Kept /\ \A q \in Process : pc'[q] = "sync" => Syncing(q)'
  BY <1>4, <1>9 DEF PowerLoss
<1>10. ASSUME UNCHANGED vars
       PROVE  Kept /\ \A q \in Process : pc'[q] = "sync" => Syncing(q)'
  <2>1. UNCHANGED <<file, durable, returned, pc, entry>>
    BY <1>10 DEF vars
  <2>. QED
    BY <1>2, <2>1 DEF KeptInv
<1>. QED
  BY <1>5, <1>6, <1>7, <1>8, <1>9, <1>10 DEF Next, Call, Appending, Done, KeptInv

LEMMA TypeStep ==
  ASSUME IInv, [Next]_vars
  PROVE  TypeOK'
<1>. USE DEF Leave, Goto, disk, lock, history, counters
<1>1. TypeOK
  BY DEF IInv
<1>2. /\ MaxEvents \in Nat /\ MaxCalls \in Nat /\ MaxTroubles \in Nat
  BY LedgerConstants
<1>3. file' \in Seq(Line) /\ durable' \in 0..Len(file')
  BY FileMoves DEF Good
<1>4. entry' \in [Process -> Entry \cup Event \cup {None}]
  BY EntryStep
<1>. DEFINE Rest == /\ holder' \in Process \cup {None} /\ sharers' \subseteq Process
                    /\ pc' \in [Process -> PC]
                    /\ result' \in [Process -> {"ok", "invalid", "refused", "broken", None}]
                    /\ made' \in 0..MaxEvents /\ returned' \subseteq Event
                    /\ calls' \in 0..MaxCalls /\ troubles' \in 0..MaxTroubles
<1>5. ASSUME UNCHANGED vars
      PROVE  Rest
  BY <1>1, <1>5 DEF vars, TypeOK
<1>6. ASSUME NEW p \in Process, Invalid(p) \/ Refuse(p) \/ Read(p)
      PROVE  Rest
  BY <1>1, <1>6 DEF TypeOK, PC, Invalid, Refuse, Read
<1>7. ASSUME NEW p \in Process, Check(p) \/ Write(p) \/ Flush(p)
      PROVE  Rest
  BY <1>1, <1>2, <1>7 DEF TypeOK, PC, Check, Write, Flush
<1>8. ASSUME NEW p \in Process, Sync(p)
      PROVE  Rest
  <2>1. entry[p] \in Event
    BY <1>8 DEF IInv, EntryInv, Sync
  <2>. QED
    BY <1>1, <1>8, <2>1 DEF TypeOK, PC, Sync
<1>9. ASSUME NEW p \in Process, Lock(p) \/ Share(p)
      PROVE  Rest
  BY <1>1, <1>9 DEF TypeOK, PC, Lock, Share
<1>10. ASSUME NEW p \in Process, OpenRead(p) \/ \E e \in Entry : Open(p, e)
       PROVE  Rest
  BY <1>1, <1>2, <1>10 DEF TypeOK, PC, OpenRead, Open
<1>11. ASSUME NEW p \in Process, Break(p)
       PROVE  Rest
  BY <1>1, <1>2, <1>11 DEF TypeOK, PC, Break
<1>12. ASSUME PowerLoss
       PROVE  Rest
  BY <1>1, <1>2, <1>12 DEF TypeOK, PC, PowerLoss
<1>13. Rest
  BY <1>5, <1>6, <1>7, <1>8, <1>9, <1>10, <1>11, <1>12 DEF Next, Call, Appending, Done
<1>. QED
  BY <1>3, <1>4, <1>13 DEF TypeOK

-----------------------------------------------------------------------------
(* Theorems.                                                               *)

LEMMA Initially == Init => IInv
<1>. SUFFICES ASSUME Init PROVE IInv
  OBVIOUS
<1>. USE LedgerConstants
<1>1. /\ <<>> \in Seq(Line) /\ Len(<<>>) = 0
  BY EmptySeq
<1>2. TypeOK
  BY <1>1 DEF Init, TypeOK, PC
<1>3. LockInv /\ EntryInv
  BY DEF Init, LockInv, EntryInv, Holding
<1>4. FileInv
  BY <1>1 DEF Init, FileInv, Good
<1>5. KeptInv
  BY DEF Init, KeptInv
<1>. QED
  BY <1>2, <1>3, <1>4, <1>5 DEF IInv

LEMMA Invariance == Spec => []IInv
<1>1. ASSUME IInv, [Next]_vars PROVE IInv'
  BY <1>1, TypeStep, LockStep, EntryStep, FileStep, KeptStep DEF IInv
<1>. QED
  BY <1>1, Initially, PTL DEF Spec

\* The state has the types it is meant to have, whatever the numbers of
\* processes, calls and troubles.
THEOREM TypeCorrect == Spec => []TypeOK
<1>1. IInv => TypeOK
  BY DEF IInv
<1>. QED
  BY <1>1, Invariance, PTL

\* The ledger is a chain at every moment: append never writes behind damage,
\* and what a failure or the power leaves is the beginning of a chain.
THEOREM ChainStands == Spec => []ChainHolds
<1>1. IInv => ChainHolds
  BY DEF IInv, FileInv, Good, ChainHolds
<1>. QED
  BY <1>1, Invariance, PTL

\* append never lets a transaction have two schemas or two decisions.
THEOREM TransactionsAgree == Spec => []OneKind
<1>1. IInv => OneKind
  BY DEF IInv, FileInv, Good, OneKind
<1>. QED
  BY <1>1, Invariance, PTL

\* The locks keep a call from taking a line under way for damage.
THEOREM AlarmsAreTrue == Spec => []NoFalseAlarm
<1>1. IInv => NoFalseAlarm
  BY DEF IInv, FileInv, NoFalseAlarm
<1>. QED
  BY <1>1, Invariance, PTL

\* If an interrupted write never leaves a whole line without its end, an
\* event whose append returned can be read for ever.
THEOREM ReturnedStay == ASSUME ~Newline PROVE Spec => []ReturnedKept
<1>1. IInv => ReturnedKept
  <2>. SUFFICES ASSUME IInv, NEW e \in returned
       PROVE  e.seq <= Len(file) /\ file[e.seq].event = e
    BY DEF ReturnedKept
  <2>1. e \in Event /\ durable \in 0..Len(file) /\ file \in Seq(Line)
    BY DEF IInv, TypeOK
  <2>2. e.seq <= durable /\ file[e.seq].event = e
    BY DEF IInv, KeptInv
  <2>3. e.seq \in Nat
    BY <2>1, EventFields
  <2>4. Len(file) \in Nat
    BY <2>1, LenProperties
  <2>. QED
    BY <2>1, <2>2, <2>3, <2>4
<1>. QED
  BY <1>1, Invariance, PTL

-----------------------------------------------------------------------------
(* The ledger as a record.                                                 *)

Ids(lines, n) ==
  {e \in 1..MaxEvents : \E i \in 1..n : lines[i].event # None /\ lines[i].event.id = e}

\* A line under way has no event, or one newer than all others.
LEMMA LeftoverIds ==
  ASSUME NEW e \in Event, Good(file), Follows(e, file), made \in Nat, ~Newline,
         NEW lines \in Leftovers(e), NEW n \in 0..Len(lines)
  PROVE  \/ n <= Len(file) /\ Ids(lines, n) = Ids(file, n)
         \/ n > Len(file) /\ Ids(lines, n) \in {Ids(file, Len(file)), Ids(file, Len(file)) \cup {e.id}}
<1>1. Len(file) \in Nat /\ Len(lines) \in Nat /\ Len(lines) >= Len(file)
      /\ \A i \in 1..Len(file) : lines[i] = file[i]
  BY LeftoversGood, LenProperties DEF Good
<1>2. n \in Nat
  BY <1>1
<1>3. CASE n <= Len(file)
  BY <1>1, <1>2, <1>3 DEF Ids
<1>4. CASE n > Len(file)
  <2>1. PICK line \in {Whole(e)} \cup Parts(e) : lines = Behind(file, line)
    BY <1>1, <1>4 DEF Leftovers
  <2>2. line \in Line /\ line.event \in {e, None} /\ (line.event = e => line.ended)
    <3>1. CASE line = Whole(e)
      BY <3>1, EventFields DEF Whole
    <3>2. CASE line \in Parts(e)
      <4>1. e \in Event \cup {None} /\ e # None
        BY EventFields
      <4>. QED
        BY <3>2, <4>1, PartFields
    <3>. QED
      BY <2>1, <3>1, <3>2
  <2>3. Len(lines) = Len(file) + 1 /\ lines[Len(file) + 1] = line
    BY <2>1, <2>2, BehindGood
  <2>4. n = Len(file) + 1
    BY <1>1, <1>2, <1>4, <2>3
  <2>5. \A i \in 1..n : i \in 1..Len(file) \/ i = n
    BY <1>1, <2>4
  <2>6. CASE line.event = None
    <3>1. Ids(lines, n) = Ids(file, Len(file))
      BY <1>1, <2>3, <2>4, <2>5, <2>6 DEF Ids
    <3>. QED
      BY <1>4, <3>1
  <2>7. CASE line.event = e
    <3>1. e # None /\ e.id \in 1..MaxEvents
      BY EventFields
    <3>2. Ids(lines, n) = Ids(file, Len(file)) \cup {e.id}
      BY <1>1, <2>3, <2>4, <2>5, <2>7, <3>1 DEF Ids
    <3>. QED
      BY <1>4, <3>2
  <2>. QED
    BY <2>2, <2>6, <2>7
<1>. QED
  BY <1>1, <1>2, <1>3, <1>4

LEMMA LeftIds ==
  ASSUME NEW lines, Good(lines), made \in Nat, durable \in 0..Len(lines), ~Newline, NEW new \in Left(lines)
  PROVE  \E n \in durable..Len(lines) : Ids(new, Len(new)) = Ids(lines, n)
<1>1. lines \in Seq(Line) /\ Len(lines) \in Nat
  BY LenProperties DEF Good
<1>2. ASSUME NEW n \in durable..Len(lines), new = SubSeq(lines, 1, n)
      PROVE  Ids(new, Len(new)) = Ids(lines, n)
  <2>1. n \in 0..Len(lines)
    BY <1>1
  <2>2. Len(new) = n /\ \A i \in 1..n : new[i] = lines[i]
    BY <1>2, <2>1, CutGood
  <2>. QED
    BY <2>2 DEF Ids
<1>3. ASSUME NEW n \in durable..(Len(lines) - 1), NEW part \in Parts(lines[n + 1].event),
             new = Append(SubSeq(lines, 1, n), part)
      PROVE  n \in durable..Len(lines) /\ Ids(new, Len(new)) = Ids(lines, n)
  <2>1. n \in 0..Len(lines) /\ n \in Nat /\ n + 1 \in 1..Len(lines) /\ n \in durable..Len(lines)
    BY <1>1
  <2>2. /\ SubSeq(lines, 1, n) \in Seq(Line) /\ Len(SubSeq(lines, 1, n)) = n
        /\ \A i \in 1..n : SubSeq(lines, 1, n)[i] = lines[i]
    BY <2>1, CutGood DEF Good
  <2>3. lines[n + 1].event \in Event \cup {None}
    BY <1>1, <2>1, LineFields
  <2>4. part \in Line /\ part.event = None
    BY <2>3, PartFields
  <2>5. /\ Len(new) = n + 1 /\ new[n + 1] = part
        /\ \A i \in 1..n : new[i] = lines[i]
    BY <1>3, <2>1, <2>2, <2>4, AppendProperties
  <2>6. \A i \in 1..(n + 1) : i \in 1..n \/ i = n + 1
    BY <2>1
  <2>7. Ids(new, Len(new)) = Ids(lines, n)
    BY <2>1, <2>4, <2>5, <2>6 DEF Ids
  <2>. QED
    BY <2>1, <2>7
<1>4. ASSUME NEW n \in durable..(Len(lines) - 1) PROVE n \in durable..Len(lines)
  BY <1>1
<1>. QED
  BY <1>2, <1>3 DEF Left

\* A beginning of the file has the oldest of its events.
LEMMA BeginningIds ==
  ASSUME Good(file), NEW n \in 0..Len(file), made \in Nat
  PROVE  /\ Ids(file, n) \subseteq Ids(file, Len(file))
         /\ \A a \in Ids(file, n), b \in Ids(file, Len(file)) : b < a => b \in Ids(file, n)
<1>1. Len(file) \in Nat /\ n \in Nat /\ n <= Len(file)
  BY LenProperties DEF Good
<1>2. Ids(file, n) \subseteq Ids(file, Len(file))
  BY <1>1 DEF Ids
<1>3. ASSUME NEW a \in Ids(file, n), NEW b \in Ids(file, Len(file)), b < a
      PROVE  b \in Ids(file, n)
  <2>1. PICK i \in 1..n : file[i].event # None /\ file[i].event.id = a
    BY DEF Ids
  <2>2. PICK j \in 1..Len(file) : file[j].event # None /\ file[j].event.id = b
    BY DEF Ids
  <2>3. i \in 1..Len(file) /\ a \in Nat /\ b \in Nat
    BY <1>1 DEF Ids
  <2>4. ~(i < j)
    BY <1>3, <2>1, <2>2, <2>3 DEF Good
  <2>5. j \in 1..n
    BY <1>1, <2>4
  <2>. QED
    BY <2>2, <2>5 DEF Ids
<1>. QED
  BY <1>2, <1>3

LEMMA RecordStep ==
  ASSUME IInv, [Next]_vars, ~Newline
  PROVE  [Record!Next]_(Record!vars)
<1>. DEFINE kept == Ids(file, Len(file))
            safe == Ids(file, durable)
            later == Ids(file', Len(file'))
            safer == Ids(file', durable')
<1>1. /\ Good(file) /\ made \in Nat /\ Len(file) \in Nat /\ durable \in 0..Len(file) /\ durable \in Nat
  BY LenProperties, LedgerConstants DEF IInv, TypeOK, FileInv
<1>2. /\ Len(file') \in Nat /\ durable' \in 0..Len(file')
      /\ \A i \in 1..durable : file'[i] = file[i]
  BY FileMoves
<1>. HIDE DEF kept, safe, later, safer
<1>3. /\ (later = kept /\ safer = safe) => UNCHANGED Record!vars
      /\ (later = kept /\ safer = kept) => Record!Secure
      /\ \A e \in 1..MaxEvents :
            (\A k \in kept : k < e) /\ later = kept \cup {e} /\ safer \in {safe, later} => Record!Accept(e)
      /\ (/\ later \subseteq kept /\ safe \subseteq later /\ safer = later
          /\ \A a \in later, b \in kept : b < a => b \in later) => Record!Lose
  BY DEF Record!vars, Record!Secure, Record!Accept, Record!Lose, kept, safe, later, safer, Ids
<1>4. CASE UNCHANGED disk
  BY <1>3, <1>4 DEF disk, kept, safe, later, safer, Ids
<1>5. ASSUME NEW p \in Process, Sync(p)
      PROVE  Record!Secure
  BY <1>3, <1>5 DEF Sync, kept, later, safer, Ids
<1>6. ASSUME NEW p \in Process, pc[p] = "flush", NEW lines \in Leftovers(entry[p])
      PROVE  /\ Good(lines) /\ Len(lines) \in Nat /\ Len(lines) >= Len(file)
             /\ \A k \in kept : k < entry[p].id
             /\ entry[p].id \in 1..MaxEvents
             /\ \A n \in 0..Len(lines) :
                  \/ n <= Len(file) /\ Ids(lines, n) = Ids(file, n)
                  \/ n > Len(file) /\ Ids(lines, n) \in {kept, kept \cup {entry[p].id}}
  <2>1. entry[p] \in Event /\ Follows(entry[p], file)
    BY <1>6 DEF IInv, EntryInv, FileInv
  <2>2. Good(lines) /\ Len(lines) >= Len(file)
    BY <1>1, <2>1, LeftoversGood
  <2>3. \A k \in kept : k < entry[p].id
    BY <2>1 DEF Follows, kept, Ids
  <2>4. \A n \in 0..Len(lines) :
          \/ n <= Len(file) /\ Ids(lines, n) = Ids(file, n)
          \/ n > Len(file) /\ Ids(lines, n) \in {kept, kept \cup {entry[p].id}}
    BY <1>1, <2>1, LeftoverIds DEF kept
  <2>. QED
    BY <2>1, <2>2, <2>3, <2>4, EventFields, LenProperties DEF Good
<1>7. ASSUME NEW p \in Process, pc[p] = "flush", file' \in Leftovers(entry[p]), durable' = durable
      PROVE  [Record!Next]_(Record!vars)
  <2>1. safer = safe
    BY <1>2, <1>7 DEF safe, safer, Ids
  <2>2. later \in {kept, kept \cup {entry[p].id}}
    <3>1. Len(file') \in 0..Len(file') /\ Len(file') >= Len(file)
      BY <1>6, <1>7
    <3>2. CASE Len(file') <= Len(file)
      BY <1>1, <1>2, <1>6, <1>7, <3>1, <3>2 DEF later, kept
    <3>3. CASE Len(file') > Len(file)
      BY <1>1, <1>2, <1>6, <1>7, <3>1, <3>3 DEF later
    <3>. QED
      BY <1>1, <1>2, <3>2, <3>3
  <2>. QED
    BY <1>3, <1>6, <1>7, <2>1, <2>2 DEF Record!Next
<1>8. ASSUME NEW n \in durable..Len(file), later = Ids(file, n), safer = later
      PROVE  Record!Lose
  <2>1. n \in 0..Len(file)
    BY <1>1
  <2>2. safe \subseteq later
    BY <1>1, <1>8 DEF safe, Ids
  <2>. QED
    BY <1>1, <1>3, <1>8, <2>1, <2>2, BeginningIds DEF kept
<1>9. ASSUME PowerLoss, file' \in Left(file)
      PROVE  Record!Lose
  <2>1. safer = later
    BY <1>9 DEF PowerLoss, safer, later
  <2>2. PICK n \in durable..Len(file) : later = Ids(file, n)
    BY <1>1, <1>9, LeftIds DEF later
  <2>. QED
    BY <1>8, <2>1, <2>2
<1>10. ASSUME PowerLoss, NEW p \in Process, pc[p] = "flush",
              NEW lines \in Leftovers(entry[p]), file' \in Left(lines)
       PROVE  Record!Next
  <2>1. safer = later
    BY <1>10 DEF PowerLoss, safer, later
  <2>2. Good(lines) /\ Len(lines) \in Nat /\ durable \in 0..Len(lines)
    BY <1>1, <1>6, <1>10
  <2>3. PICK n \in durable..Len(lines) : later = Ids(lines, n)
    BY <1>1, <1>10, <2>2, LeftIds DEF later
  <2>4. n \in Nat /\ n \in 0..Len(lines)
    BY <1>1, <2>2
  <2>5. CASE n <= Len(file)
    <3>1. n \in durable..Len(file) /\ later = Ids(file, n)
      BY <1>1, <1>6, <1>10, <2>3, <2>4, <2>5
    <3>. QED
      BY <1>8, <2>1, <3>1 DEF Record!Next
  <2>6. CASE n > Len(file) /\ later = kept
    BY <1>3, <2>1, <2>6 DEF Record!Next
  <2>7. CASE n > Len(file) /\ later = kept \cup {entry[p].id}
    BY <1>3, <1>6, <1>10, <2>1, <2>7 DEF Record!Next
  <2>. QED
    BY <1>1, <1>6, <1>10, <2>3, <2>4, <2>5, <2>6, <2>7
<1>11. ASSUME NEW p \in Process, Flush(p)
       PROVE  [Record!Next]_(Record!vars)
  BY <1>7, <1>11 DEF Flush, Leftovers
<1>12. ASSUME NEW p \in Process, Break(p)
       PROVE  [Record!Next]_(Record!vars)
  BY <1>4, <1>7, <1>12 DEF Break, disk
<1>13. ASSUME NEW p \in Process, OpenRead(p) \/ Lock(p) \/ Share(p) \/ Read(p) \/ Invalid(p) \/ Refuse(p)
                                 \/ Check(p) \/ Write(p) \/ \E e \in Entry : Open(p, e)
       PROVE  UNCHANGED disk
  BY <1>13 DEF OpenRead, Lock, Share, Read, Invalid, Refuse, Check, Write, Open
<1>. QED
  BY <1>4, <1>5, <1>9, <1>10, <1>11, <1>12, <1>13
  DEF Next, Call, Appending, Done, PowerLoss, vars, Record!Next

\* Without lines that only lack their end the ledger is a record: no failure,
\* no power loss and no later append costs an event that was on disk, nor one
\* out of order.
THEOREM KeepsARecord == ASSUME ~Newline PROVE Spec => ImplementsRecordLog
<1>1. Init => Record!Init
  <2>1. Len(<<>>) = 0 /\ \A i \in 1..0 : FALSE
    OBVIOUS
  <2>. QED
    BY <2>1 DEF Init, Record!Init
<1>. QED
  BY <1>1, RecordStep, Invariance, PTL DEF Spec, ImplementsRecordLog, Record!Spec
=============================================================================

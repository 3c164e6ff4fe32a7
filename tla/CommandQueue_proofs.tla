------------------------ MODULE CommandQueue_proofs ------------------------
(***************************************************************************)
(* Theorems about CommandQueue, for any number of operators, runs and      *)
(* deaths of the service.                                                  *)
(***************************************************************************)
EXTENDS CommandQueue, TLAPS

\* What the places of the calls and of the worker say of the files.
Places ==
  /\ \A c \in Client : client[c].at # "idle" => client[c].run \in Run
  /\ arming => armed < MaxRuns
  /\ worker \in {"save", "sent"} => hand # None
  /\ worker \in {"unlink", "settle"} => pending # None

TypeInv == TypeOK /\ Places

Holding == {"locked", "free", "written"}

\* The lock has one holder, and between its look and its write the slot is
\* empty; the worker removes only what it has taken.
SlotInv ==
  /\ \A c \in Client : client[c].at \in Holding => lock = c
  /\ \A c \in Client : client[c].at = "free" => command = None /\ pending = None
  /\ \A c \in Client : client[c].at \in {"written", "queued"} =>
        \/ taken[c] # "no"
        \/ command # None /\ command.by = c
  /\ worker \in {"firmware", "legacy", "raw", "save", "sent"} => pending = None
  /\ worker \in {"save", "sent"} => command = hand
  /\ worker = "unlink" => command = pending
  /\ pending # None => taken[pending.by] # "no"
  /\ OneAtATime
-----------------------------------------------------------------------------
(* Types.                                                                  *)

Place == {"idle", "asked", "locked", "free", "written", "clear", "queued", "refused",
          "raised", "died"}
Clients == [Client -> [at : Place, run : Maybe(Run)]]
Called(cl) == cl \in Clients /\ \A c \in Client : cl[c].at # "idle" => cl[c].run \in Run

LEMMA RequestTyped ==
  ASSUME Called(client), NEW c \in Client, client[c].at # "idle"
  PROVE  RequestOf(c) \in Request
<1>1. Asks[c] \in Ask /\ client[c].run \in Run
  BY QueueConstants DEF Called
<1>. QED
  BY <1>1 DEF RequestOf, Request, Ask

LEMMA LogTyped ==
  ASSUME ledger \in [Run -> Seq(Event)], NEW r \in Request,
         NEW type \in {"queued", "queued-recovered", "terminal"}, Log(type, r)
  PROVE  ledger' \in [Run -> Seq(Event)]
<1>1. r.run \in Run /\ Entry(type, r) \in Event
  BY DEF Request, Entry, Event
<1>2. Append(ledger[r.run], Entry(type, r)) \in Seq(Event)
  BY <1>1
<1>. QED
  BY <1>1, <1>2 DEF Log

LEMMA GotoTyped ==
  ASSUME Called(client), NEW c \in Client, client[c].at # "idle", NEW place \in Place \ {"idle"},
         Goto(c, place)
  PROVE  /\ Called(client')
         /\ client'[c].at = place
         /\ \A d \in Client : d # c => client'[d] = client[d]
BY DEF Called, Clients, Goto

LEMMA InitTyped == Init => TypeInv
<1> SUFFICES ASSUME Init PROVE TypeInv
  OBVIOUS
<1>1. \A r \in Run : <<>> \in Seq(Event)
  OBVIOUS
<1>2. ledger \in [Run -> Seq(Event)]
  BY <1>1 DEF Init
<1>3. armed \in 0..MaxRuns /\ crashes \in 0..MaxCrashes
  BY QueueConstants DEF Init
<1>. QED
  BY <1>2, <1>3 DEF Init, TypeInv, TypeOK, Places, Maybe

LEMMA OperatorTyped ==
  ASSUME TypeInv, NEW c \in Client, Operator(c) \/ Die(c)
  PROVE  TypeInv'
<1>1. Called(client) /\ ledger \in [Run -> Seq(Event)] /\ active \in Maybe(Run)
  BY DEF TypeInv, TypeOK, Places, Called, Clients, Place
<1>2. UNCHANGED <<runs, service>>
  BY DEF Operator, ReadActive, Lock, FindBusy, FindFree, WriteCommand, LogQueued, LogRefused,
         LookBusy, LookFree, WriteReboot, Die, service, runs
<1>3. CASE ReadActive(c)
  <2>1. Called(client')
    BY <1>1, <1>3, NoneApart DEF ReadActive, Called, Clients, Place, Maybe
  <2>. QED
    BY <1>2, <1>3, <2>1 DEF ReadActive, TypeInv, TypeOK, Places, Called, Clients, Place,
                            disk, runs, service, Maybe
<1>4. ASSUME NEW place \in Place \ {"idle"}, Goto(c, place), client[c].at # "idle",
             command' \in {command, RequestOf(c)}, lock' \in {lock, None, c},
             ledger' = ledger \/ Log("queued", RequestOf(c)), UNCHANGED <<active, pending>>
      PROVE  TypeInv'
  <2>1. Called(client') /\ RequestOf(c) \in Request
    BY <1>1, <1>4, GotoTyped, RequestTyped
  <2>2. ledger' \in [Run -> Seq(Event)]
    BY <1>1, <1>4, <2>1, LogTyped
  <2>3. command' \in Maybe(Request) /\ lock' \in Maybe(Client)
    BY <1>4, <2>1 DEF TypeInv, TypeOK, Maybe
  <2>. QED
    BY <1>2, <1>4, <2>1, <2>2, <2>3 DEF TypeInv, TypeOK, Places, Called, Clients, Place,
                                        runs, service
<1>. QED
  BY <1>3, <1>4 DEF Operator, Lock, FindBusy, FindFree, WriteCommand, LogQueued, LogRefused,
                    LookBusy, LookFree, WriteReboot, Die, disk, Place

LEMMA ServiceTyped == TypeInv /\ (Service \/ Crash) => TypeInv'
<1> SUFFICES ASSUME TypeInv, Service \/ Crash PROVE TypeInv'
  OBVIOUS
<1> USE DEF TypeInv, TypeOK, Places, Maybe, disk, operators, runs
<1>1. CASE Start
  BY <1>1 DEF Start
<1>2. CASE ReadPoison
  BY <1>2 DEF ReadPoison
<1>9. CASE PassBy
  BY <1>9 DEF PassBy
<1>10. CASE SendRaw
  BY <1>10 DEF SendRaw
<1>12. CASE PassRaw
  BY <1>12 DEF PassRaw
<1>13. CASE Answered
  BY <1>13 DEF Answered
<1>11. CASE Close
  BY <1>11 DEF Close
<1>3. CASE ReadCommand
  <2>1. command \in Request /\ command # None
    BY <1>3 DEF ReadCommand, Meant
  <2>2. ledger' \in [Run -> Seq(Event)]
    BY <1>3, <2>1, LogTyped DEF ReadCommand
  <2>. QED
    BY <1>3, <2>1, <2>2 DEF ReadCommand
<1>4. CASE SavePending
  BY <1>4 DEF SavePending, Take
<1>5. CASE UnlinkCommand
  BY <1>5 DEF UnlinkCommand
<1>6. CASE Settle
  <2>1. pending \in Request
    BY <1>6 DEF Settle
  <2>2. ledger' \in [Run -> Seq(Event)]
    BY <1>6, <2>1, LogTyped DEF Settle
  <2>. QED
    BY <1>6, <2>2 DEF Settle
<1>7. CASE RemoveRaw
  BY <1>7 DEF RemoveRaw, Take
<1>8. CASE Crash
  <2>1. crashes' \in 0..MaxCrashes
    BY <1>8, QueueConstants DEF Crash
  <2>. QED
    BY <1>8, <2>1 DEF Crash
<1>. QED
  BY <1>1, <1>2, <1>3, <1>4, <1>5, <1>6, <1>7, <1>8, <1>9, <1>10, <1>11,
     <1>12, <1>13 DEF Service

LEMMA RunsTyped == TypeInv /\ (Finish \/ Preflight \/ Arm \/ Idle \/ UNCHANGED vars) => TypeInv'
<1> SUFFICES ASSUME TypeInv, Finish \/ Preflight \/ Arm \/ Idle \/ UNCHANGED vars PROVE TypeInv'
  OBVIOUS
<1> USE DEF TypeInv, TypeOK, Places, Maybe, disk, operators, runs, service
<1>1. CASE Finish
  BY <1>1 DEF Finish
<1>2. CASE Preflight
  BY <1>2 DEF Preflight
<1>3. CASE Arm
  <2>1. armed' \in 1..MaxRuns
    BY <1>3, QueueConstants DEF Arm
  <2>2. armed' \in 0..MaxRuns /\ active' \in Run
    BY <1>3, <2>1 DEF Arm, Run
  <2>3. UNCHANGED <<command, pending, ledger, operators, service>> /\ arming' = FALSE
    BY <1>3 DEF Arm
  <2>4. TypeOK'
    BY <2>2, <2>3
  <2>5. Places'
    BY <2>3
  <2>. QED
    BY <2>4, <2>5
<1>4. CASE Idle \/ UNCHANGED vars
  BY <1>4 DEF Idle, vars
<1>. QED
  BY <1>1, <1>2, <1>3, <1>4

LEMMA TypeInvariant == Spec => []TypeInv
<1>1. TypeInv /\ [Next]_vars => TypeInv'
  BY OperatorTyped, ServiceTyped, RunsTyped DEF Next
<1>. QED
  BY InitTyped, <1>1, PTL DEF Spec

\* Every variable stays in its set, however operators and the service
\* interleave and however often the service dies.
THEOREM TypeCorrect == Spec => []TypeOK
<1>1. TypeInv => TypeOK
  BY DEF TypeInv
<1>. QED
  BY TypeInvariant, <1>1, PTL

-----------------------------------------------------------------------------
(* No request is lost when nobody asks for a reboot.                       *)

LEMMA InitSlot == Init => SlotInv
BY DEF Init, SlotInv, OneAtATime, Holding

LEMMA OperatorSlot ==
  ASSUME \A d \in Client : Asks[d].kind # "reboot", TypeInv, SlotInv,
         NEW c \in Client, Operator(c) \/ Die(c), client[c].at # "clear"
  PROVE  SlotInv'
<1>1. Called(client) /\ UNCHANGED <<active, pending, service>>
  BY DEF TypeInv, TypeOK, Places, Called, Clients, Place, Operator, ReadActive, Lock, FindBusy,
         FindFree, WriteCommand, LogQueued, LogRefused, LookBusy, LookFree, WriteReboot, Die,
         service, disk
<1>2. ASSUME NEW place \in Place \ {"idle"}, Goto(c, place), client[c].at # "idle"
      PROVE  /\ client'[c].at = place
             /\ \A d \in Client : d # c => client'[d] = client[d]
  BY <1>1, <1>2, GotoTyped
<1>3. CASE ReadActive(c)
  <2>1. /\ command' = command /\ lock' = lock
        /\ client[c].at = "idle" /\ client'[c].at = "asked"
        /\ \A d \in Client : d # c => client'[d] = client[d]
    BY <1>1, <1>3 DEF ReadActive, Called, Clients, disk
  <2>. QED
    BY <1>1, <2>1 DEF SlotInv, OneAtATime, Holding, service
<1>4. CASE Lock(c)
  <2>1. /\ command' = command /\ lock = None /\ lock' = c
        /\ client[c].at = "asked" /\ client'[c].at = "locked"
        /\ \A d \in Client : d # c => client'[d] = client[d]
    BY <1>2, <1>4 DEF Lock, disk, Place
  <2>2. \A d \in Client : client[d].at \notin Holding
    BY <2>1, NoneApart DEF SlotInv
  <2>. QED
    BY <1>1, <2>1, <2>2 DEF SlotInv, OneAtATime, Holding, service
<1>5. ASSUME NEW place \in {"refused", "raised", "died"}, Goto(c, place),
             client[c].at \in Holding, lock' = None, command' = command
      PROVE  SlotInv'
  <2>1. /\ client'[c].at = place /\ lock = c
        /\ \A d \in Client : d # c => client'[d] = client[d]
    BY <1>2, <1>5 DEF Place, Holding, SlotInv
  <2>. QED
    BY <1>1, <1>5, <2>1 DEF SlotInv, OneAtATime, Holding, service
<1>6. CASE FindFree(c)
  <2>1. /\ command' = command /\ lock' = lock /\ command = None /\ pending = None
        /\ client[c].at = "locked" /\ client'[c].at = "free"
        /\ \A d \in Client : d # c => client'[d] = client[d]
    BY <1>2, <1>6 DEF FindFree, disk, Place
  <2>. QED
    BY <1>1, <2>1 DEF SlotInv, OneAtATime, Holding, service
<1>7. CASE WriteCommand(c)
  <2>1. /\ command' = RequestOf(c) /\ lock' = lock
        /\ client[c].at = "free" /\ client'[c].at = "written"
        /\ \A d \in Client : d # c => client'[d] = client[d]
    BY <1>2, <1>7 DEF WriteCommand, Place
  <2>2. command' # None /\ command'.by = c
    BY <1>1, <2>1, RequestTyped, NoneApart DEF RequestOf
  <2>3. command = None /\ pending = None /\ worker \notin {"save", "sent", "unlink"}
    BY <2>1, NoneApart DEF SlotInv, TypeInv, Places
  <2>4. \A d \in Client : d # c => client[d].at # "free"
    BY <2>1 DEF SlotInv, Holding
  <2>. QED
    BY <1>1, <2>1, <2>2, <2>3, <2>4 DEF SlotInv, OneAtATime, Holding, service
<1>8. CASE LogQueued(c)
  <2>1. /\ command' = command /\ lock' = None /\ lock = c
        /\ client[c].at = "written" /\ client'[c].at = "queued"
        /\ \A d \in Client : d # c => client'[d] = client[d]
    BY <1>2, <1>8 DEF LogQueued, Place, SlotInv, Holding
  <2>. QED
    BY <1>1, <2>1 DEF SlotInv, OneAtATime, Holding, service
<1>9. CASE FindBusy(c) \/ LogRefused(c) \/ Die(c)
  BY <1>5, <1>9 DEF FindBusy, LogRefused, Die, Holding, disk
<1>10. ~LookBusy(c) /\ ~LookFree(c) /\ ~WriteReboot(c)
  BY DEF LookBusy, LookFree, WriteReboot
<1>. QED
  BY <1>3, <1>4, <1>6, <1>7, <1>8, <1>9, <1>10 DEF Operator

\* Nobody is about to write a reboot.
NoReboot == \A c \in Client : client[c].at # "clear"

LEMMA StaysClear ==
  ASSUME \A d \in Client : Asks[d].kind # "reboot", TypeInv, NoReboot, [Next]_vars
  PROVE  NoReboot'
<1>1. Called(client)
  BY DEF TypeInv, TypeOK, Places, Called, Clients, Place
<1>2. CASE \E c \in Client : Operator(c) \/ Die(c)
  BY <1>1, <1>2 DEF NoReboot, Operator, ReadActive, Lock, FindBusy, FindFree, WriteCommand,
         LogQueued, LogRefused, LookBusy, LookFree, WriteReboot, Die, Goto, Called, Clients
<1>3. CASE Service \/ Crash \/ Finish \/ Preflight \/ Arm \/ Idle \/ UNCHANGED vars
  BY <1>3 DEF NoReboot, Service, Start, ReadPoison, ReadCommand, SavePending, UnlinkCommand,
         Settle, PassBy, Answered, PassRaw, SendRaw, RemoveRaw, Close, Crash, Finish, Preflight, Arm,
         Idle, vars, operators
<1>. QED
  BY <1>2, <1>3 DEF Next

LEMMA ServiceSlot ==
  ASSUME TypeInv, SlotInv, Service \/ Crash
  PROVE  SlotInv'
<1>1. client' = client /\ lock' = lock
  BY DEF Service, Start, ReadPoison, ReadCommand, SavePending, UnlinkCommand, Settle, PassBy,
         Answered, PassRaw, SendRaw, RemoveRaw, Close, Crash, operators
<1>2. CASE Start
  BY <1>1, <1>2 DEF Start, SlotInv, OneAtATime, disk
<1>3. CASE ReadPoison \/ PassRaw \/ Answered \/ Close \/ Crash
  BY <1>1, <1>3 DEF ReadPoison, PassRaw, Answered, Close, Crash, SlotInv, OneAtATime, disk
<1>10. CASE PassBy
  BY <1>1, <1>10 DEF PassBy, SlotInv, OneAtATime, disk
<1>4. CASE ReadCommand
  BY <1>1, <1>4 DEF ReadCommand, Meant, SlotInv, OneAtATime
<1>5. CASE SavePending
  <2>1. hand \in Request /\ hand.by \in Client /\ hand # None /\ command = hand
    BY <1>5 DEF SavePending, SlotInv, TypeInv, TypeOK, Places, Maybe, Request
  <2>2. /\ taken'[hand.by] = "adopted"
        /\ \A c \in Client : taken[c] # "no" => taken'[c] # "no"
    BY <1>5, <2>1 DEF SavePending, Take, TypeInv, TypeOK
  <2>3. \A c \in Client : client[c].at # "free"
    BY <2>1 DEF SlotInv
  <2>. QED
    BY <1>1, <1>5, <2>1, <2>2, <2>3 DEF SavePending, SlotInv, OneAtATime
<1>6. CASE UnlinkCommand
  BY <1>1, <1>6 DEF UnlinkCommand, SlotInv, OneAtATime, TypeInv, Places
<1>7. CASE Settle
  BY <1>1, <1>7 DEF Settle, SlotInv, OneAtATime, TypeInv, Places
<1>8. CASE SendRaw
  BY <1>1, <1>8 DEF SendRaw, SlotInv, OneAtATime, disk
<1>9. CASE RemoveRaw
  BY <1>1, <1>9 DEF RemoveRaw, Take, SlotInv, OneAtATime, TypeInv, TypeOK, Places
<1>. QED
  BY <1>2, <1>3, <1>4, <1>5, <1>6, <1>7, <1>8, <1>9, <1>10 DEF Service

LEMMA RunsSlot ==
  ASSUME SlotInv, Finish \/ Preflight \/ Arm \/ Idle \/ UNCHANGED vars
  PROVE  SlotInv'
BY DEF Finish, Preflight, Arm, Idle, vars, disk, operators, service, SlotInv, OneAtATime

LEMMA SlotInvariant ==
  ASSUME \A d \in Client : Asks[d].kind # "reboot"
  PROVE  Spec => []SlotInv
<1>1. TypeInv /\ NoReboot /\ SlotInv /\ [Next]_vars => SlotInv'
  BY OperatorSlot, ServiceSlot, RunsSlot DEF Next, NoReboot
<1>2. TypeInv /\ NoReboot /\ [Next]_vars => NoReboot'
  BY StaysClear
<1>3. Init => NoReboot
  <2> SUFFICES ASSUME Init, NEW c \in Client PROVE client[c].at # "clear"
    BY DEF NoReboot
  <2>. QED
    BY DEF Init
<1>. QED
  BY TypeInvariant, InitSlot, <1>1, <1>2, <1>3, PTL DEF Spec

\* While nobody asks for a reboot, no rate change whose caller was told it
\* is queued is overwritten or removed unread (queue_rate_transaction,
\* queue_legacy_rate_transaction, _adopt_queued, _send_pending_command).
THEOREM LosesNothing ==
  ASSUME \A d \in Client : Asks[d].kind # "reboot"
  PROVE  Spec => []NothingLost
<1>1. SlotInv => NothingLost
  BY DEF SlotInv, NothingLost
<1>. QED
  BY SlotInvariant, <1>1, PTL

\* ... and none is accepted behind a transaction in flight.
THEOREM QueuesOneAtATime ==
  ASSUME \A d \in Client : Asks[d].kind # "reboot"
  PROVE  Spec => []OneAtATime
<1>1. SlotInv => OneAtATime
  BY DEF SlotInv
<1>. QED
  BY SlotInvariant, <1>1, PTL

-----------------------------------------------------------------------------
(* What kills the worker.                                                  *)

\* Each identity is used with one link only.
Steady == \A c, d \in Client : Asks[c].tid = Asks[d].tid => Asks[c].link = Asks[d].link

\* The identity and the link are those of one caller's request.
Asked(r) == \E c \in Client : r.tid = Asks[c].tid /\ r.link = Asks[c].link

\* Requests and events are what some caller asked for, and a worker, which
\* has a run, lives.
HonestInv ==
  /\ command # None => Asked(command)
  /\ pending # None => Asked(pending)
  /\ hand # None => Asked(hand)
  /\ \A run \in Run : \A i \in 1..Len(ledger[run]) : Asked(ledger[run][i])
  /\ worker # "off" => active # None
  /\ worker # "dead"

LEMMA AskedFits ==
  ASSUME Steady, TypeInv, HonestInv, NEW r \in Request, Asked(r)
  PROVE  Fits(r)
<1>1. r.run \in Run
  BY DEF Request
<1>2. \A e \in Events(r.run) : Asked(e)
  BY <1>1 DEF HonestInv, Events
<1>. QED
  BY <1>2 DEF Fits, Asked, Steady

LEMMA LogHonest ==
  ASSUME TypeInv, HonestInv, NEW r \in Request, Asked(r),
         NEW type \in {"queued", "queued-recovered", "terminal"}, Log(type, r)
  PROVE  \A run \in Run : \A i \in 1..Len(ledger'[run]) : Asked(ledger'[run][i])
<1>1. ledger \in [Run -> Seq(Event)] /\ r.run \in Run
  BY DEF TypeInv, TypeOK, Request
<1>2. Asked(Entry(type, r)) /\ Entry(type, r) \in Event
  BY DEF Asked, Entry, Event, Request
<1>3. SUFFICES ASSUME NEW run \in Run, NEW i \in 1..Len(ledger'[run]) PROVE Asked(ledger'[run][i])
  OBVIOUS
<1>4. CASE run = r.run
  <2>1. ledger'[run] = Append(ledger[run], Entry(type, r))
    BY <1>1, <1>4 DEF Log
  <2>2. \/ i \in 1..Len(ledger[run]) /\ ledger'[run][i] = ledger[run][i]
        \/ ledger'[run][i] = Entry(type, r)
    BY <1>1, <1>2, <2>1
  <2>. QED
    BY <1>2, <2>2 DEF HonestInv
<1>5. CASE run # r.run
  <2>1. ledger'[run] = ledger[run]
    BY <1>1, <1>5 DEF Log
  <2>. QED
    BY <2>1 DEF HonestInv
<1>. QED
  BY <1>4, <1>5

LEMMA OperatorHonest ==
  ASSUME TypeInv, HonestInv, NEW c \in Client, Operator(c) \/ Die(c)
  PROVE  HonestInv'
<1>1. UNCHANGED <<active, pending, worker, hand>>
  BY DEF Operator, ReadActive, Lock, FindBusy, FindFree, WriteCommand, LogQueued, LogRefused,
         LookBusy, LookFree, WriteReboot, Die, service, disk
<1>2. Asked(RequestOf(c))
  BY DEF Asked, RequestOf
<1>3. CASE LogQueued(c)
  <2>1. RequestOf(c) \in Request
    BY <1>3, RequestTyped DEF LogQueued, TypeInv, TypeOK, Places, Called, Clients, Place
  <2>2. \A run \in Run : \A i \in 1..Len(ledger'[run]) : Asked(ledger'[run][i])
    BY <1>2, <1>3, <2>1, LogHonest DEF LogQueued
  <2>. QED
    BY <1>1, <1>3, <2>2 DEF LogQueued, HonestInv
<1>4. CASE ~LogQueued(c)
  <2>1. UNCHANGED ledger /\ command' \in {command, RequestOf(c)}
    BY <1>4 DEF Operator, ReadActive, Lock, FindBusy, FindFree, WriteCommand, LogRefused,
           LookBusy, LookFree, WriteReboot, Die, disk
  <2>. QED
    BY <1>1, <1>2, <2>1 DEF HonestInv
<1>. QED
  BY <1>3, <1>4

LEMMA ServiceHonest ==
  ASSUME Steady, MaxRuns = 1, TypeInv, HonestInv, Service \/ Crash \/ Finish
  PROVE  HonestInv'
<1>1. ~ReadPoison
  <2> SUFFICES ASSUME ReadPoison PROVE FALSE
    OBVIOUS
  <2>1. command \in Request /\ Asked(command)
    BY DEF ReadPoison, Meant, TypeInv, TypeOK, Maybe, HonestInv
  <2>2. active = 1 /\ command.run = 1
    BY <2>1 DEF ReadPoison, Meant, HonestInv, TypeInv, TypeOK, Maybe, Run, Request
  <2>. QED
    BY <2>1, <2>2, AskedFits DEF ReadPoison
<1>2. CASE ReadCommand
  <2>1. command \in Request /\ Asked(command)
    BY <1>2 DEF ReadCommand, Meant, TypeInv, TypeOK, Maybe, HonestInv
  <2>2. \A run \in Run : \A i \in 1..Len(ledger'[run]) : Asked(ledger'[run][i])
    BY <1>2, <2>1, LogHonest DEF ReadCommand, HonestInv
  <2>. QED
    BY <1>2, <2>2 DEF ReadCommand, HonestInv, Meant
<1>3. CASE SavePending
  <2>1. Asked(hand)
    BY <1>3 DEF SavePending, HonestInv, TypeInv, Places
  <2>. QED
    BY <1>3, <2>1 DEF SavePending, HonestInv
<1>4. CASE Settle
  <2>1. pending \in Request /\ Asked(pending)
    BY <1>4 DEF Settle, TypeInv, TypeOK, Places, Maybe, HonestInv
  <2>2. \A run \in Run : \A i \in 1..Len(ledger'[run]) : Asked(ledger'[run][i])
    BY <1>4, <2>1, LogHonest DEF Settle
  <2>. QED
    BY <1>4, <2>2 DEF Settle, HonestInv
<1>5. CASE Start \/ UnlinkCommand \/ PassBy \/ Answered \/ PassRaw \/ SendRaw \/ RemoveRaw \/ Close
           \/ Crash \/ Finish
  BY <1>5 DEF Start, UnlinkCommand, PassBy, Answered, PassRaw, SendRaw, RemoveRaw, Close, Crash,
              Finish, HonestInv, disk
<1>. QED
  BY <1>1, <1>2, <1>3, <1>4, <1>5 DEF Service

\* As long as no identity is used with two links, no call of any operator
\* kills the worker of a run: it meets no command of another run, the
\* ledger refuses none of its events, and no reboot, death or overwritten
\* request changes that (_adopt_queued, TransactionLedger.append).
THEOREM SurvivesItsOperators ==
  ASSUME Steady, MaxRuns = 1
  PROVE  Spec => []WorkerSurvives
<1>1. Init => HonestInv
  <2> SUFFICES ASSUME Init PROVE HonestInv
    OBVIOUS
  <2>1. \A run \in Run : ledger[run] = <<>>
    BY DEF Init
  <2>. QED
    BY <2>1 DEF Init, HonestInv
<1>2. TypeInv /\ HonestInv /\ [Next]_vars => HonestInv'
  <2> SUFFICES ASSUME TypeInv, HonestInv, [Next]_vars PROVE HonestInv'
    OBVIOUS
  <2>1. CASE \E c \in Client : Operator(c) \/ Die(c)
    BY <2>1, OperatorHonest
  <2>2. CASE Service \/ Crash \/ Finish
    BY <2>2, ServiceHonest
  <2>3. CASE Preflight \/ Idle \/ UNCHANGED vars
    BY <2>3 DEF Preflight, Idle, vars, disk, operators, service, HonestInv
  <2>4. CASE Arm
    <3>1. active' # None
      BY <2>4, NoneApart, RunsTyped DEF Arm, TypeInv, TypeOK, Maybe, Run
    <3>. QED
      BY <2>4, <3>1 DEF Arm, operators, service, HonestInv
  <2>. QED
    BY <2>1, <2>2, <2>3, <2>4 DEF Next
<1>3. HonestInv => WorkerSurvives
  BY DEF HonestInv, WorkerSurvives
<1>. QED
  BY TypeInvariant, <1>1, <1>2, <1>3, PTL DEF Spec
=============================================================================

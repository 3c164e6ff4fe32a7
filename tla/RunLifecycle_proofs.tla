------------------------ MODULE RunLifecycle_proofs ------------------------
(***************************************************************************)
(* Theorems about RunLifecycle, for any number of runs, worker threads,    *)
(* operators' calls and troubles.                                          *)
(***************************************************************************)
EXTENDS RunLifecycle, TLAPS

\* Where the process has no session.
Away == {"down", "idle"}

\* Where the run of a session is armed still, unless another was armed over it.
Held == {"start", "collect", "join", "rejoin", "final", "hash", "seal", "record", "compare", "unlink"}

\* Where a session has a reason to end, and where its threads have ended.
Ending == {"join", "rejoin", "final", "hash", "seal", "record", "compare", "unlink", "over"}
Quiet == {"down", "idle", "start", "final", "hash", "seal", "record", "compare", "unlink", "over"}

\* The final files are there; the sums are; the session has recorded its end.
Final == {"hash", "seal", "record", "compare", "unlink", "over"}
Hashed == {"seal", "record", "compare", "unlink", "over"}
Sealed == {"record", "compare", "unlink", "over"}
Recorded == {"compare", "unlink", "over"}

SessionInv ==
  /\ at \in Away <=> run = None
  /\ at \in Quiet => \A w \in Worker : ~Alive(w)
  /\ at \in Held => active # None /\ (active.run = run \/ run \in replaced)
  /\ raising => at \in {"join", "rejoin", "final", "hash", "seal", "record"}

\* The reason a session ends for is true, unless its loop has raised.
WhyInv ==
  /\ active # None /\ active.stop => active.run \in asked
  /\ at \in Ending =>
       /\ why # None
       /\ why = "operator-stop" /\ run \notin replaced => run \in asked
       /\ why = "duration-complete" /\ run \notin replaced /\ ~raising => run \in overdue

SealInv ==
  /\ at \in Final => reason[run] = why
  /\ at \in Hashed => "service" \notin stale[run]
  /\ at \in Sealed => sums[run] = "whole"

\* What holds of a run at rest holds of it as soon as its session has
\* recorded its end.
Done(r) == AtRest(r) \/ (run = r /\ at \in Recorded)

RestInv ==
  \A r \in Run \ replaced : Done(r) =>
     /\ r \in Armed => sums[r] = "whole" /\ reason[r] # None
     /\ sums[r] = "whole" => "service" \notin stale[r]
     /\ reason[r] = "operator-stop" => r \in asked
     /\ reason[r] = "duration-complete" => r \in overdue

IInv == TypeOK /\ SessionInv /\ WhyInv /\ SealInv /\ RestInv

LEMMA InitInv == Init => IInv
<1>. SUFFICES ASSUME Init PROVE IInv
  OBVIOUS
<1>1. TypeOK
  <2>1. sums \in [Run -> {"none", "part", "whole"}] /\ stale \in [Run -> SUBSET {"service", "operator"}]
        /\ reason \in [Run -> Reason \cup {None}]
        /\ worker \in [Worker -> {"off", "on", "blocked", "hung", "ended"}]
    BY DEF Init
  <2>2. made \in 0..MaxRuns /\ calls \in 0..MaxCalls /\ troubles \in 0..MaxTroubles
    BY LifecycleConstants DEF Init
  <2>. QED
    BY <2>1, <2>2 DEF Init, TypeOK
<1>2. SessionInv
  BY DEF Init, SessionInv, Away, Quiet, Held, Alive
<1>3. WhyInv /\ SealInv
  BY DEF Init, WhyInv, SealInv, Ending, Final, Hashed, Sealed
<1>4. RestInv
  <2>1. Armed = {}
    BY DEF Init, Armed
  <2>2. \A r \in Run : reason[r] = None /\ sums[r] = "none"
    BY DEF Init
  <2>. QED
    BY <2>1, <2>2, NoneAssumption DEF RestInv, Reason
<1>. QED
  BY <1>1, <1>2, <1>3, <1>4 DEF IInv

-----------------------------------------------------------------------------
(* Types.                                                                  *)

LEMMA StepTyped == TypeOK /\ [Next]_vars => TypeOK'
<1>. SUFFICES ASSUME TypeOK, [Next]_vars PROVE TypeOK'
  OBVIOUS
<1>. USE NoneAssumption, LifecycleConstants DEF TypeOK
<1>1. ASSUME NEW r \in Run, NEW stop \in BOOLEAN, Overwrite([run |-> r, stop |-> stop])
      PROVE  active' \in Active \cup {None} /\ replaced' \subseteq Run
  BY <1>1 DEF Overwrite, Active
<1>2. ASSUME (\E who \in {"service", "operator"}, r \in Run \cup {None} : Writes(who, r))
                \/ \E runs \in SUBSET {run} : Marks(runs)
      PROVE  stale' \in [Run -> SUBSET {"service", "operator"}]
  BY <1>2 DEF Writes, Marks
<1>3. ASSUME Operators PROVE TypeOK'
  <2>1. CASE ArmLook
    BY <2>1 DEF ArmLook, files, session, thread, history, counters, Run
  <2>2. ASSUME NEW r \in Run, Arm(r) PROVE TypeOK'
    BY <1>1, <2>2 DEF Arm, session, thread, counters
  <2>3. CASE StopLook
    BY <2>3 DEF StopLook, files, session, thread, history, Active
  <2>4. ASSUME NEW r \in Run, RequestStop(r) PROVE TypeOK'
    BY <1>1, <2>4 DEF RequestStop, session, thread, counters
  <2>5. CASE MarkLook
    BY <2>5 DEF MarkLook, files, session, thread, history, Active
  <2>6. ASSUME NEW r \in Run, Mark(r) PROVE TypeOK'
    BY <1>2, <2>6 DEF Mark, session, thread, history, counters
  <2>. QED
    BY <1>3, <2>1, <2>2, <2>3, <2>4, <2>5, <2>6 DEF Operators
<1>4. ASSUME NEW r \in Run, Pass(r) PROVE TypeOK'
  BY <1>4 DEF Pass, files, operators, session, thread, history, counters
<1>5. ASSUME Gone PROVE at' = "down" /\ run' = None /\ why' = None /\ stopped' = FALSE
                        /\ raising' = FALSE /\ worker' = [w \in Worker |-> "off"]
  BY <1>5 DEF Gone, Goto, Forgotten, Threads
<1>6. ASSUME Main PROVE TypeOK'
  <2>1. CASE TakeUp
    BY <2>1 DEF TakeUp, Goto, files, operators, history, counters, Active
  <2>2. CASE StartWorkers
    BY <1>2, <2>2 DEF StartWorkers, Goto, Threads, operators, history, counters
  <2>3. CASE Joined \/ Compare
    BY <2>3 DEF Joined, Compare, Goto, files, operators, thread, history, counters
  <2>4. CASE ForceClose
    BY <2>4 DEF ForceClose, Goto, files, operators, thread, history, counters
  <2>5. CASE GiveUp \/ Propagate
    BY <1>2, <1>5, <2>5 DEF GiveUp, Propagate, operators, history, counters
  <2>6. ASSUME NEW r \in Reason, End(r) PROVE TypeOK'
    BY <2>6 DEF End, Goto, files, operators, history, counters
  <2>7. CASE WriteFinal
    BY <1>2, <2>7 DEF WriteFinal, Goto, operators, thread, history, counters
  <2>8. CASE Hash \/ Seal
    BY <2>8 DEF Hash, Seal, Goto, operators, thread, history, counters
  <2>9. CASE RecordLast
    BY <2>9 DEF RecordLast, Goto, operators, thread, history, counters
  <2>10. CASE Unlink
    BY <2>10 DEF Unlink, Goto, operators, thread, counters, Active
  <2>11. CASE Over
    BY <2>11 DEF Over, Goto, Forgotten, Threads, files, operators, history, counters
  <2>. QED
    BY <1>6, <2>1, <2>2, <2>3, <2>4, <2>5, <2>6, <2>7, <2>8, <2>9, <2>10, <2>11 DEF Main
<1>7. CASE Restart
  BY <1>7 DEF Restart, Goto, files, operators, thread, history, counters
<1>8. CASE LoopFails
  BY <1>8 DEF LoopFails, Goto, files, operators, history, Reason
<1>9. CASE SealFails
  BY <1>2, <1>5, <1>9 DEF SealFails, operators, history
<1>10. CASE Die
  BY <1>5, <1>10 DEF Die, files, operators, history
<1>11. ASSUME NEW w \in Worker, Thread(w) PROVE TypeOK'
  <2>1. CASE Work(w)
    BY <1>2, <2>1 DEF Work, operators, session, thread, history, counters
  <2>2. CASE Hang(w)
    BY <2>2 DEF Hang, Become, files, operators, thread, history
  <2>3. CASE ComeBack(w)
    BY <2>3 DEF ComeBack, Become, files, operators, thread, history, counters
  <2>4. CASE Raise(w) \/ EndThread(w)
    BY <1>2, <2>4 DEF Raise, EndThread, Become, operators, thread, history, counters
  <2>. QED
    BY <1>11, <2>1, <2>2, <2>3, <2>4 DEF Thread
<1>12. CASE UNCHANGED vars
  BY <1>12 DEF vars, files, operators, session, thread, history, counters
<1>. QED
  BY <1>3, <1>4, <1>6, <1>7, <1>8, <1>9, <1>10, <1>11, <1>12 DEF Next, Rest

-----------------------------------------------------------------------------
(* The session.                                                            *)

\* Operators and time leave the session alone.
Outside == Operators \/ \E r \in Run : Pass(r)

\* ... except that they write over active.json.
Aside ==
  /\ UNCHANGED <<session, sums, reason, last>>
  /\ asked \subseteq asked' /\ replaced \subseteq replaced' /\ overdue \subseteq overdue'
  /\ active' # active =>
       /\ active' # None
       /\ active # None => active'.run = active.run \/ active.run \in replaced'
       /\ active'.stop => active'.run \in asked'
  /\ \A r \in Run : "service" \in stale'[r] => "service" \in stale[r]
  /\ \A r \in Armed' : r \in Armed \/ IsActive(r)'

LEMMA OutsideAside == TypeOK /\ Outside => Aside
<1>. SUFFICES ASSUME TypeOK, Outside PROVE Aside
  OBVIOUS
<1>. USE NoneAssumption DEF TypeOK
<1>1. ASSUME NEW r \in Run, NEW stop \in BOOLEAN, Overwrite([run |-> r, stop |-> stop])
      PROVE  /\ active' # None /\ active'.run = r /\ active'.stop = stop
             /\ active # None => active'.run = active.run \/ active.run \in replaced'
             /\ replaced \subseteq replaced'
  BY <1>1 DEF Overwrite, Active
<1>2. CASE StopLook \/ MarkLook \/ \E r \in Run : Pass(r)
  BY <1>2 DEF StopLook, MarkLook, Pass, files, operators, session, thread, history, Armed, Aside
<1>3. CASE ArmLook
  <2>1. Armed' \subseteq Armed
    BY <1>3, LifecycleConstants DEF ArmLook, Armed, Run
  <2>. QED
    BY <1>3, <2>1 DEF ArmLook, files, session, thread, history, Aside
<1>4. ASSUME NEW r \in Run, Arm(r) PROVE Aside
  <2>1. Overwrite([run |-> r, stop |-> FALSE])
    BY <1>4 DEF Arm
  <2>2. \A p \in Armed' : p \in Armed \/ IsActive(p)'
    BY <1>1, <1>4, <2>1 DEF Arm, Armed, IsActive
  <2>. QED
    BY <1>1, <1>4, <2>1, <2>2 DEF Arm, session, thread, Aside
<1>5. ASSUME NEW r \in Run, RequestStop(r) PROVE Aside
  <2>1. Overwrite([run |-> r, stop |-> TRUE])
    BY <1>5 DEF RequestStop
  <2>. QED
    BY <1>1, <1>5, <2>1 DEF RequestStop, session, thread, Armed, Aside
<1>6. ASSUME NEW r \in Run, Mark(r) PROVE Aside
  BY <1>6 DEF Mark, Writes, session, thread, history, Armed, Aside
<1>. QED
  BY <1>2, <1>3, <1>4, <1>5, <1>6 DEF Outside, Operators

LEMMA StepSession == TypeOK /\ SessionInv /\ [Next]_vars => SessionInv'
<1>. SUFFICES ASSUME TypeOK, SessionInv, [Next]_vars PROVE SessionInv'
  OBVIOUS
<1>. USE NoneAssumption DEF SessionInv, Away, Held, Quiet
<1>1. ASSUME Outside PROVE SessionInv'
  <2>1. Aside
    BY <1>1, OutsideAside
  <2>. QED
    BY <2>1 DEF Aside, session, thread, Alive
<1>2. ASSUME Gone PROVE SessionInv'
  BY <1>2 DEF Gone, Goto, Forgotten, Threads, Alive
<1>3. ASSUME Main PROVE SessionInv'
  <2>1. CASE TakeUp
    BY <2>1 DEF TypeOK, Active, TakeUp, Goto, files, history, Alive
  <2>2. CASE StartWorkers
    BY <2>2 DEF StartWorkers, Goto, history
  <2>3. CASE Joined
    BY <2>3 DEF Joined, Goto, files, thread, history, Alive
  <2>4. CASE ForceClose
    BY <2>4 DEF ForceClose, Goto, files, thread, history
  <2>5. CASE GiveUp \/ Propagate
    BY <1>2, <2>5 DEF GiveUp, Propagate
  <2>6. ASSUME NEW r \in Reason, End(r) PROVE SessionInv'
    BY <2>6 DEF End, Goto, files, history
  <2>7. CASE WriteFinal \/ Hash \/ Seal \/ RecordLast
    BY <2>7 DEF WriteFinal, Hash, Seal, RecordLast, Goto, thread, history, Alive
  <2>8. CASE Compare
    BY <2>8 DEF Compare, Goto, files, thread, history, Alive
  <2>9. CASE Unlink
    BY <2>9 DEF Unlink, Goto, thread, Alive
  <2>10. CASE Over
    BY <2>10 DEF Over, Goto, Forgotten, Threads, Alive
  <2>. QED
    BY <1>3, <2>1, <2>2, <2>3, <2>4, <2>5, <2>6, <2>7, <2>8, <2>9, <2>10 DEF Main
<1>4. CASE Restart
  BY <1>4 DEF Restart, Goto, files, thread, history, Alive
<1>5. CASE LoopFails
  BY <1>5 DEF LoopFails, Goto, files, history
<1>6. CASE SealFails \/ Die
  BY <1>2, <1>6 DEF SealFails, Die
<1>7. ASSUME NEW w \in Worker, Thread(w) PROVE SessionInv'
  <2>1. Alive(w) /\ at \notin Quiet /\ UNCHANGED <<active, at, run, raising, replaced>>
    BY <1>7 DEF Thread, Work, Hang, ComeBack, Raise, EndThread, Alive, files, session, thread, history
  <2>. QED
    BY <2>1
<1>8. CASE UNCHANGED vars
  BY <1>8 DEF vars, files, session, thread, history, Alive
<1>. QED
  BY <1>1, <1>3, <1>4, <1>5, <1>6, <1>7, <1>8 DEF Next, Rest, Outside

LEMMA StepWhy == TypeOK /\ SessionInv /\ WhyInv /\ [Next]_vars => WhyInv'
<1>. SUFFICES ASSUME TypeOK, SessionInv, WhyInv, [Next]_vars PROVE WhyInv'
  OBVIOUS
<1>. USE NoneAssumption DEF SessionInv, WhyInv, Held, Ending
<1>1. ASSUME Outside PROVE WhyInv'
  <2>1. Aside
    BY <1>1, OutsideAside
  <2>. QED
    BY <2>1 DEF Aside, session, thread
<1>2. ASSUME Gone, UNCHANGED <<active, asked>> PROVE WhyInv'
  BY <1>2 DEF Gone, Goto
<1>3. ASSUME Main PROVE WhyInv'
  <2>1. CASE TakeUp \/ StartWorkers
    BY <2>1 DEF TakeUp, StartWorkers, Goto, files, history
  <2>2. CASE Joined \/ ForceClose
    BY <2>2 DEF Joined, ForceClose, Goto, files, thread, history
  <2>3. CASE GiveUp \/ Propagate
    BY <1>2, <2>3 DEF GiveUp, Propagate, history
  <2>4. ASSUME NEW r \in Reason, End(r) PROVE WhyInv'
    BY <2>4 DEF End, Goto, StopRequested, files, history, Reason
  <2>5. CASE WriteFinal \/ Hash \/ Seal \/ RecordLast
    BY <2>5 DEF WriteFinal, Hash, Seal, RecordLast, Goto, thread, history
  <2>6. CASE Compare
    BY <2>6 DEF Compare, Goto, files, thread, history
  <2>7. CASE Unlink
    BY <2>7 DEF Unlink, Goto, thread
  <2>8. CASE Over
    BY <2>8 DEF Over, Goto, files, history
  <2>. QED
    BY <1>3, <2>1, <2>2, <2>3, <2>4, <2>5, <2>6, <2>7, <2>8 DEF Main
<1>4. CASE Restart
  BY <1>4 DEF Restart, Goto, files, history
<1>5. CASE LoopFails
  BY <1>5 DEF LoopFails, Goto, files, history, Reason
<1>6. CASE SealFails \/ Die
  BY <1>2, <1>6 DEF SealFails, Die, files, history
<1>7. ASSUME NEW w \in Worker, Thread(w) PROVE WhyInv'
  <2>1. UNCHANGED <<active, overdue, at, run, why, raising, asked, replaced>>
    BY <1>7 DEF Thread, Work, Hang, ComeBack, Raise, EndThread, files, session, thread, history
  <2>. QED
    BY <2>1
<1>8. CASE UNCHANGED vars
  BY <1>8 DEF vars, files, session, thread, history
<1>. QED
  BY <1>1, <1>3, <1>4, <1>5, <1>6, <1>7, <1>8 DEF Next, Rest, Outside

-----------------------------------------------------------------------------
(* The seal.                                                               *)

LEMMA StepSeal == TypeOK /\ SessionInv /\ SealInv /\ [Next]_vars => SealInv'
<1>. SUFFICES ASSUME TypeOK, SessionInv, SealInv, [Next]_vars PROVE SealInv'
  OBVIOUS
<1>. USE NoneAssumption DEF SealInv, Final, Hashed, Sealed
<1>1. at \notin Away => run \in Run
  BY DEF SessionInv, TypeOK
<1>2. ASSUME Outside PROVE SealInv'
  <2>1. Aside
    BY <1>2, OutsideAside
  <2>. QED
    BY <1>1, <2>1 DEF Aside, Away, session, thread
<1>3. ASSUME Gone PROVE SealInv'
  BY <1>3 DEF Gone, Goto
<1>4. ASSUME Main PROVE SealInv'
  <2>1. CASE TakeUp \/ StartWorkers \/ Joined \/ ForceClose \/ \E r \in Reason : End(r)
    BY <2>1 DEF TakeUp, StartWorkers, Joined, ForceClose, End, Goto
  <2>2. CASE GiveUp \/ Propagate
    BY <1>3, <2>2 DEF GiveUp, Propagate
  <2>3. CASE WriteFinal
    BY <1>1, <2>3 DEF WriteFinal, Goto, thread, TypeOK, Away
  <2>4. CASE Hash
    BY <1>1, <2>4 DEF Hash, Goto, thread, TypeOK, Away
  <2>5. CASE Seal
    BY <1>1, <2>5 DEF Seal, Goto, thread, TypeOK, Away
  <2>6. CASE RecordLast \/ Compare \/ Unlink
    BY <2>6 DEF RecordLast, Compare, Unlink, Goto, files, thread
  <2>7. CASE Over
    BY <2>7 DEF Over, Goto
  <2>. QED
    BY <1>4, <2>1, <2>2, <2>3, <2>4, <2>5, <2>6, <2>7 DEF Main
<1>5. CASE Restart
  BY <1>5 DEF Restart, Goto
<1>6. CASE LoopFails
  BY <1>6 DEF LoopFails, Goto
<1>7. CASE SealFails \/ Die
  BY <1>3, <1>7 DEF SealFails, Die
<1>8. ASSUME NEW w \in Worker, Thread(w) PROVE SealInv'
  <2>1. Alive(w) /\ UNCHANGED at
    BY <1>8 DEF Thread, Work, Hang, ComeBack, Raise, EndThread, Alive, session, thread
  <2>. QED
    BY <2>1 DEF SessionInv, Quiet
<1>9. CASE UNCHANGED vars
  BY <1>9 DEF vars, files, session, thread
<1>. QED
  BY <1>2, <1>4, <1>5, <1>6, <1>7, <1>8, <1>9 DEF Next, Rest, Outside

-----------------------------------------------------------------------------
(* Runs at rest.                                                           *)

\* What RestInv says of a run.
Sound(r) ==
  /\ r \in Armed => sums[r] = "whole" /\ reason[r] # None
  /\ sums[r] = "whole" => "service" \notin stale[r]
  /\ reason[r] = "operator-stop" => r \in asked
  /\ reason[r] = "duration-complete" => r \in overdue

\* A session that has recorded its end leaves its run in order.
LEMMA RecordedSound ==
  TypeOK /\ SessionInv /\ WhyInv /\ SealInv /\ at = "record" /\ ~raising /\ run \notin replaced
     => Sound(run)
BY DEF SessionInv, WhyInv, SealInv, Sound, Ending, Final, Hashed, Sealed, Away

LEMMA StepRest == IInv /\ [Next]_vars => RestInv'
<1>. SUFFICES ASSUME IInv, [Next]_vars,
                     NEW r \in Run, r \notin replaced', Done(r)'
              PROVE  Sound(r)'
  BY DEF RestInv, Sound
<1>. USE NoneAssumption DEF IInv, Done, AtRest, IsActive
<1>1. r \notin replaced /\ Done(r) => Sound(r)
  BY DEF RestInv, Sound
<1>2. at \in Held /\ run = r /\ r \notin replaced => IsActive(r)
  BY DEF SessionInv
<1>3. CASE Outside
  <2>1. Aside
    BY <1>3, OutsideAside
  <2>2. Done(r)
    BY <2>1 DEF Aside, session, thread, TypeOK, Active
  <2>3. r \in Armed' => r \in Armed \/ (sums[r] = "whole" /\ reason[r] # None)
    BY <2>1 DEF Aside, session, thread, SealInv, WhyInv, Final, Sealed, Recorded, Ending
  <2>. QED
    BY <1>1, <2>1, <2>2, <2>3 DEF Aside, Sound
\* A step that leaves active.json alone and has its run in a session that
\* has not recorded its end touches no run at rest: only that of the session
\* and the one that is armed.
<1>4. ASSUME UNCHANGED <<active, made, arming, overdue, asked, replaced>>,
             at \notin Recorded, at' \notin Recorded, run' = run \/ run' = None,
             run' = None => at \in Held \cup Away,
             \A p \in Run : p # run /\ ~IsActive(p) => UNCHANGED <<sums[p], stale[p], reason[p]>>
      PROVE  Sound(r)'
  <2>1. r # run /\ Done(r)
    BY <1>2, <1>4 DEF Recorded, SessionInv
  <2>. QED
    BY <1>1, <1>4, <2>1 DEF Sound, Armed
<1>5. ASSUME Gone, UNCHANGED <<active, made, arming, overdue, asked, replaced>>, at \in Held \ Recorded,
             \A p \in Run : p # run /\ ~IsActive(p) => UNCHANGED <<sums[p], stale[p], reason[p]>>
      PROVE  Sound(r)'
  BY <1>4, <1>5 DEF Gone, Goto, Forgotten, Recorded
<1>6. ASSUME (\E who : Writes(who, run)) \/ \E runs \in SUBSET {run} : Marks(runs)
      PROVE  \A p \in Run : p # run /\ ~IsActive(p) => UNCHANGED stale[p]
  BY <1>6 DEF Writes, Marks, TypeOK
<1>7. ASSUME Main PROVE Sound(r)'
  <2>1. CASE TakeUp
    <3>1. Done(r)
      BY <2>1 DEF TakeUp, Goto, files, Recorded, SessionInv, Away
    <3>. QED
      BY <1>1, <2>1, <3>1 DEF TakeUp, files, operators, history, Sound, Armed
  <2>2. CASE StartWorkers
    BY <1>4, <1>6, <2>2 DEF StartWorkers, Goto, operators, history, Recorded, Held
  <2>3. CASE Joined \/ ForceClose \/ \E s \in Reason : End(s)
    BY <1>4, <2>3 DEF Joined, ForceClose, End, Goto, files, operators, thread, history, Recorded, Held
  <2>4. CASE GiveUp
    BY <1>5, <1>6, <2>4 DEF GiveUp, operators, history, Held, Recorded
  <2>5. CASE Propagate
    BY <1>5, <1>6, <2>5 DEF Propagate, operators, history, Held, Recorded
  <2>6. CASE WriteFinal
    BY <1>4, <1>6, <2>6 DEF WriteFinal, Goto, operators, thread, history, Recorded, Held, TypeOK
  <2>7. CASE Hash \/ Seal
    BY <1>4, <2>7 DEF Hash, Seal, Goto, operators, thread, history, Recorded, Held, TypeOK
  <2>8. CASE RecordLast
    <3>1. r = run => Sound(r)
      BY <2>8, RecordedSound, <1>1 DEF RecordLast, history
    <3>2. r # run => Sound(r)
      BY <1>1, <2>8 DEF RecordLast, Goto, operators, thread, history
    <3>. QED
      BY <2>8, <3>1, <3>2 DEF RecordLast, operators, thread, history, Sound, Armed
  <2>9. CASE Compare
    <3>1. Done(r)
      BY <2>9 DEF Compare, Goto, files, thread, Recorded
    <3>. QED
      BY <1>1, <2>9, <3>1 DEF Compare, files, operators, thread, history, Sound, Armed
  <2>10. CASE Unlink
    <3>1. Done(r)
      BY <2>10 DEF Unlink, Goto, thread, Recorded
    <3>. QED
      BY <1>1, <2>10, <3>1 DEF Unlink, operators, thread, Sound, Armed
  <2>11. CASE Over
    <3>1. Done(r)
      BY <2>11 DEF Over, Goto, Forgotten, files, Recorded
    <3>. QED
      BY <1>1, <2>11, <3>1 DEF Over, files, operators, history, Sound, Armed
  <2>. QED
    BY <1>7, <2>1, <2>2, <2>3, <2>4, <2>5, <2>6, <2>7, <2>8, <2>9, <2>10, <2>11 DEF Main
<1>8. CASE Restart
  BY <1>4, <1>8 DEF Restart, Goto, files, operators, thread, history, Recorded, Away
<1>9. CASE LoopFails
  BY <1>4, <1>9 DEF LoopFails, Goto, files, operators, history, Recorded, Held
<1>10. CASE SealFails
  BY <1>5, <1>6, <1>10 DEF SealFails, operators, history, Held, Recorded
<1>11. CASE Die
  <2>1. Done(r)
    BY <1>2, <1>11 DEF Die, Gone, Goto, Forgotten, files, history, Held, Recorded, Away, SessionInv, TypeOK
  <2>. QED
    BY <1>1, <1>11, <2>1 DEF Die, files, operators, history, Sound, Armed
<1>12. ASSUME NEW w \in Worker, Thread(w) PROVE Sound(r)'
  <2>1. Alive(w)
    BY <1>12 DEF Thread, Work, Hang, ComeBack, Raise, EndThread, Alive
  <2>2. at \notin Quiet
    BY <2>1 DEF SessionInv
  <2>3. UNCHANGED <<active, made, arming, overdue, asked, replaced, sums, reason, at, run>>
    BY <1>12 DEF Thread, Work, Hang, ComeBack, Raise, EndThread, files, operators, session, thread, history
  <2>4. \A p \in Run : p # run /\ ~IsActive(p) => UNCHANGED stale[p]
    BY <1>6, <1>12 DEF Thread, Work, Hang, ComeBack, Raise, EndThread, files
  <2>. QED
    BY <1>4, <2>2, <2>3, <2>4 DEF Quiet, Recorded, SessionInv, Away
<1>13. CASE UNCHANGED vars
  BY <1>1, <1>13 DEF vars, files, operators, session, thread, history, Sound, Armed, Recorded
<1>. QED
  BY <1>3, <1>7, <1>8, <1>9, <1>10, <1>11, <1>12, <1>13 DEF Next, Rest, Outside

-----------------------------------------------------------------------------
(* The theorems.                                                           *)

LEMMA Invariance == Spec => []IInv
<1>1. IInv /\ [Next]_vars => IInv'
  BY StepTyped, StepSession, StepWhy, StepSeal, StepRest DEF IInv
<1>. QED
  BY InitInv, <1>1, PTL DEF Spec

\* Types, for all runs, threads and bounds.
THEOREM TypeCorrect == Spec => []TypeOK
<1>1. IInv => TypeOK
  BY DEF IInv
<1>. QED
  BY Invariance, <1>1, PTL

\* Whatever fails or dies, and whenever operators call, an armed run that no
\* other was armed over stays armed or in a session until it is sealed.
THEOREM ForgetsNothing == Spec => []NothingForgotten
<1>1. TypeOK => Armed \subseteq Run
  BY LifecycleConstants DEF Armed, Run, TypeOK
<1>2. IInv => NothingForgotten
  BY <1>1 DEF IInv, RestInv, Done, NothingForgotten
<1>. QED
  BY Invariance, <1>2, PTL

\* Nothing of the service writes to a run once its checksums are made and it
\* is at rest.
THEOREM SealsHold == Spec => []SealHolds
<1>1. IInv => SealHolds
  BY DEF IInv, RestInv, Done, SealHolds
<1>. QED
  BY Invariance, <1>1, PTL

\* The reason in the final.json of a run at rest is true.
THEOREM ReasonsAreTrue == Spec => []ReasonTruthful
<1>1. IInv => ReasonTruthful
  BY DEF IInv, RestInv, Done, ReasonTruthful
<1>. QED
  BY Invariance, <1>1, PTL
=============================================================================

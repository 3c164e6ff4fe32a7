---------------------------- MODULE RunLifecycle ----------------------------
(***************************************************************************)
(* The life of the runs of a collector: operators arm a run, mark events   *)
(* in it and ask for its end; service_loop takes up the armed run in a     *)
(* session, RunCollector.run, that starts worker threads (one per sensor   *)
(* and sampler), watches active.json, the clock and the disk, stops and    *)
(* joins the workers, seals the run directory with SHA256SUMS and disarms  *)
(* the run.  Operators and service share active.json and no lock.  The     *)
(* service may die at any step; systemd starts it again.  What a worker    *)
(* does is the subject of other modules; here it writes, and may hang.     *)
(***************************************************************************)
EXTENDS Naturals

CONSTANTS
  Worker,    \* the worker threads of a session
  None,      \* an absent file
  MaxRuns,
  MaxCalls,    \* stops and marks that operators ask for
  MaxTroubles  \* deaths, failed seals and threads that hang

Run == 1..MaxRuns

ASSUME LifecycleConstants == MaxRuns \in Nat /\ MaxCalls \in Nat /\ MaxTroubles \in Nat

VARIABLES
  active,    \* active.json: the run, and has its end been asked for
  last,      \* last-run.json
  made,      \* the run directories there are: 1..made
  arming,    \* runs whose arm_run has found active.json absent
  stopping,  \* runs whose active.json a request_stop has read
  marking,   \* runs whose active.json an add_operator_event has read
  overdue,   \* runs whose deadline has passed
  sums,      \* SHA256SUMS of each run
  stale,     \* who has written to the run since the files were hashed
  reason,    \* the reason in each run's final.json
  at,        \* where the service is
  run,       \* the run of its session
  why,       \* the reason the session ends for
  stopped,   \* stop_event
  raising,   \* the loop has raised: the session is closed on the way out
  worker,    \* where each worker thread is
  asked,     \* history: runs a stop was asked for
  replaced,  \* history: runs whose active.json gave way to that of another
  calls, troubles

files == <<active, last, sums, stale, reason>>
operators == <<made, arming, stopping, marking>>
thread == <<run, why, stopped, raising>>
session == <<at, thread, worker>>
history == <<asked, replaced>>
counters == <<calls, troubles>>
vars == <<files, operators, overdue, session, history, counters>>

Reason == {"duration-complete", "operator-stop", "disk-reserve-reached"}
Active == [run : Run, stop : BOOLEAN]

ASSUME NoneAssumption == None \notin Run /\ None \notin Reason /\ None \notin Active

IsActive(r) == active # None /\ active.run = r

Armed == (1..made) \ arming

\* A file of the run is written.
Writes(who, r) == stale' = [stale EXCEPT ![r] = @ \cup {who}]

\* The session wrote to these runs before it raised; service_loop enters its
\* failure in the run that active.json names by then.
Marks(runs) ==
  stale' = [r \in Run |-> IF r \in runs \/ IsActive(r) THEN stale[r] \cup {"service"} ELSE stale[r]]

\* active.json is written over.
Overwrite(new) ==
  /\ active' = new
  /\ replaced' = IF active # None /\ active.run # new.run THEN replaced \cup {active.run} ELSE replaced

-----------------------------------------------------------------------------
(* Operators, each in two steps: the look at active.json and the deed.     *)

\* arm_run: no run is armed; the directory is made after the preflight.
ArmLook ==
  /\ active = None /\ made < MaxRuns
  /\ made' = made + 1 /\ arming' = arming \cup {made + 1}
  /\ UNCHANGED <<files, stopping, marking, overdue, session, history, counters>>

Arm(r) ==
  /\ r \in arming
  /\ Overwrite([run |-> r, stop |-> FALSE])
  /\ arming' = arming \ {r}
  /\ UNCHANGED <<last, sums, stale, reason, made, stopping, marking, overdue, session, asked, counters>>

StopLook ==
  /\ active # None /\ calls < MaxCalls
  /\ stopping' = stopping \cup {active.run} /\ calls' = calls + 1
  /\ UNCHANGED <<files, made, arming, marking, overdue, session, history, troubles>>

\* request_stop writes back what it has read, with the request.
RequestStop(r) ==
  /\ r \in stopping
  /\ Overwrite([run |-> r, stop |-> TRUE])
  /\ stopping' = stopping \ {r} /\ asked' = asked \cup {r}
  /\ UNCHANGED <<last, sums, stale, reason, made, arming, marking, overdue, session, counters>>

MarkLook ==
  /\ active # None /\ calls < MaxCalls
  /\ marking' = marking \cup {active.run} /\ calls' = calls + 1
  /\ UNCHANGED <<files, made, arming, stopping, overdue, session, history, troubles>>

\* add_operator_event.
Mark(r) ==
  /\ r \in marking
  /\ Writes("operator", r)
  /\ marking' = marking \ {r}
  /\ UNCHANGED <<active, last, sums, reason, made, arming, stopping, overdue, session, history, counters>>

Operators ==
  ArmLook \/ StopLook \/ MarkLook \/ \E r \in Run : Arm(r) \/ RequestStop(r) \/ Mark(r)

\* The deadline of a run is only looked at while it is armed.
Pass(r) ==
  /\ IsActive(r) /\ r \notin overdue
  /\ overdue' = overdue \cup {r}
  /\ UNCHANGED <<files, operators, session, history, counters>>

-----------------------------------------------------------------------------
(* The session.                                                            *)

Goto(place) == at' = place
Threads(state) == worker' = [w \in Worker |-> state]
Alive(w) == worker[w] \in {"on", "blocked", "hung"}

Restart ==
  /\ at = "down"
  /\ Goto("idle")
  /\ UNCHANGED <<files, operators, overdue, thread, worker, history, counters>>

\* service_loop: a run is armed.
TakeUp ==
  /\ at = "idle" /\ active # None
  /\ run' = active.run
  /\ Goto("start")
  /\ UNCHANGED <<files, operators, overdue, why, stopped, raising, worker, history, counters>>

\* Partial chunks are recovered, events written, the threads started.
StartWorkers ==
  /\ at = "start"
  /\ Writes("service", run)
  /\ stopped' = FALSE /\ Threads("on")
  /\ Goto("collect")
  /\ UNCHANGED <<active, last, sums, reason, operators, overdue, run, why, raising, history, counters>>

\* _stop_requested.
StopRequested == active = None \/ active.run # run \/ active.stop

\* A stop, the deadline or the disk guard; the threads are told.  (Ctrl-C, in
\* a terminal, ends a session as the guard does, under a name of its own.)
End(r) ==
  /\ at = "collect"
  /\ r = "operator-stop" => StopRequested
  /\ r = "duration-complete" => ~StopRequested /\ run \in overdue
  /\ r = "disk-reserve-reached" => ~StopRequested /\ run \notin overdue
  /\ why' = r /\ stopped' = TRUE
  /\ Goto("join")
  /\ UNCHANGED <<files, operators, overdue, run, raising, worker, history, counters>>

\* The loop raises (a full disk, say).  The session is closed and sealed all
\* the same, with the reason it started out with.
LoopFails ==
  /\ at = "collect" /\ troubles < MaxTroubles
  /\ why' = "duration-complete" /\ stopped' = TRUE /\ raising' = TRUE
  /\ Goto("join")
  /\ troubles' = troubles + 1
  /\ UNCHANGED <<files, operators, overdue, run, worker, history, calls>>

\* All threads have ended, within the first or the second join.
Joined ==
  /\ at \in {"join", "rejoin"}
  /\ \A w \in Worker : ~Alive(w)
  /\ Goto("final")
  /\ UNCHANGED <<files, operators, overdue, thread, worker, history, counters>>

\* Slow: a thread that hangs, and will not have ended in five seconds.
Slow == \E w \in Worker : worker[w] \in {"blocked", "hung"}

\* interrupt_io(force_close=True) frees a thread from its port.
ForceClose ==
  /\ at = "join" /\ Slow
  /\ worker' = [w \in Worker |-> IF worker[w] = "blocked" THEN "on" ELSE worker[w]]
  /\ Goto("rejoin")
  /\ UNCHANGED <<files, operators, overdue, thread, history, counters>>

Forgotten == run' = None /\ why' = None /\ stopped' = FALSE /\ raising' = FALSE

\* The process ends, its daemon threads with it.
Gone == Goto("down") /\ Forgotten /\ Threads("off")

\* Slip: what still hangs after the second join is left behind.
GiveUpAndFinish ==
  /\ at = "rejoin" /\ Slow
  /\ Goto("final")
  /\ UNCHANGED <<files, operators, overdue, thread, worker, history, counters>>

\* Slip: a run whose threads did not stop is disarmed.
GiveUpAndDisarm ==
  /\ at = "rejoin" /\ Slow
  /\ Gone
  /\ active' = None
  /\ UNCHANGED <<last, sums, reason, operators, overdue, history, counters>>
  /\ Marks({run})

\* A thread is still alive: CollectorError, which ends the process.
GiveUp ==
  /\ at = "rejoin" /\ Slow
  /\ Gone
  /\ UNCHANGED <<active, last, sums, reason, operators, overdue, history, counters>>
  /\ Marks({run})

\* _write_final: final.json, evidence-facts.json and manifest.json.
WriteFinal ==
  /\ at = "final"
  /\ reason' = [reason EXCEPT ![run] = why]
  /\ Writes("service", run)
  /\ Goto("hash")
  /\ UNCHANGED <<active, last, sums, operators, overdue, thread, worker, history, counters>>

\* SHA256SUMS is emptied, and filled.
Hash ==
  /\ at = "hash"
  /\ sums' = [sums EXCEPT ![run] = "part"]
  /\ stale' = [stale EXCEPT ![run] = {}]
  /\ Goto("seal")
  /\ UNCHANGED <<active, last, reason, operators, overdue, thread, worker, history, counters>>

Seal ==
  /\ at = "seal"
  /\ sums' = [sums EXCEPT ![run] = "whole"]
  /\ Goto("record")
  /\ UNCHANGED <<active, last, stale, reason, operators, overdue, thread, worker, history, counters>>

\* Writing the facts or the sums raises, which ends the process.
SealFails ==
  /\ at \in {"final", "hash", "seal"} /\ troubles < MaxTroubles
  /\ Gone /\ Marks({run})
  /\ troubles' = troubles + 1
  /\ UNCHANGED <<active, last, sums, reason, operators, overdue, history, calls>>

\* Slip: the run is over all the same.
PropagateAndDisarm ==
  /\ at = "record" /\ raising
  /\ Gone /\ Marks({})
  /\ active' = None
  /\ UNCHANGED <<last, sums, reason, operators, overdue, history, counters>>

\* What the loop raised ends the process; the run stays armed.
Propagate ==
  /\ at = "record" /\ raising
  /\ Gone /\ Marks({})
  /\ UNCHANGED <<active, last, sums, reason, operators, overdue, history, counters>>

\* finish_active: last-run.json, and active.json once more.
RecordLast ==
  /\ at = "record" /\ ~raising
  /\ last' = run
  /\ Goto("compare")
  /\ UNCHANGED <<active, sums, stale, reason, operators, overdue, thread, worker, history, counters>>

\* Slip: the run stays armed.
CompareNot ==
  /\ at = "compare"
  /\ Goto("over")
  /\ UNCHANGED <<files, operators, overdue, thread, worker, history, counters>>

Compare ==
  /\ at = "compare"
  /\ Goto(IF IsActive(run) THEN "unlink" ELSE "over")
  /\ UNCHANGED <<files, operators, overdue, thread, worker, history, counters>>

Unlink ==
  /\ at = "unlink"
  /\ active' = None
  /\ replaced' = IF active # None /\ active.run # run THEN replaced \cup {active.run} ELSE replaced
  /\ Goto("over")
  /\ UNCHANGED <<last, sums, stale, reason, operators, overdue, thread, worker, asked, counters>>

\* Slip: the service returns after a run.
OverOnce ==
  /\ at = "over"
  /\ Goto("returned") /\ Forgotten /\ Threads("off")
  /\ UNCHANGED <<files, operators, overdue, history, counters>>

Over ==
  /\ at = "over"
  /\ Goto("idle") /\ Forgotten /\ Threads("off")
  /\ UNCHANGED <<files, operators, overdue, history, counters>>

Die ==
  /\ at # "down" /\ troubles < MaxTroubles
  /\ Gone
  /\ troubles' = troubles + 1
  /\ UNCHANGED <<files, operators, overdue, history, calls>>

-----------------------------------------------------------------------------
(* A worker thread.                                                        *)

Become(w, state) == worker' = [worker EXCEPT ![w] = state]

\* Lines, samples, events, transactions.
Work(w) ==
  /\ worker[w] = "on"
  /\ Writes("service", run)
  /\ UNCHANGED <<active, last, sums, reason, operators, overdue, session, history, counters>>

\* It waits for its port, from which only a forced close frees it, or for a
\* command or the system, from which nothing does; it may come back.
Hang(w) ==
  /\ worker[w] = "on" /\ troubles < MaxTroubles
  /\ \E state \in {"blocked", "hung"} : Become(w, state)
  /\ troubles' = troubles + 1
  /\ UNCHANGED <<files, operators, overdue, at, thread, history, calls>>

ComeBack(w) ==
  /\ worker[w] \in {"blocked", "hung"}
  /\ Become(w, "on")
  /\ UNCHANGED <<files, operators, overdue, at, thread, history, counters>>

\* It raises; nobody notices before the join.
Raise(w) ==
  /\ worker[w] = "on"
  /\ Become(w, "ended") /\ Writes("service", run)
  /\ UNCHANGED <<active, last, sums, reason, operators, overdue, at, thread, history, counters>>

\* It sees the stop, closes its chunk and ends.
EndThread(w) ==
  /\ worker[w] = "on" /\ stopped
  /\ Become(w, "ended") /\ Writes("service", run)
  /\ UNCHANGED <<active, last, sums, reason, operators, overdue, at, thread, history, counters>>

Init ==
  /\ active = None /\ last = None /\ made = 0
  /\ arming = {} /\ stopping = {} /\ marking = {} /\ overdue = {}
  /\ sums = [r \in Run |-> "none"] /\ stale = [r \in Run |-> {}] /\ reason = [r \in Run |-> None]
  /\ at = "idle" /\ run = None /\ why = None /\ stopped = FALSE /\ raising = FALSE
  /\ worker = [w \in Worker |-> "off"]
  /\ asked = {} /\ replaced = {}
  /\ calls = 0 /\ troubles = 0

Main ==
  \/ TakeUp \/ StartWorkers \/ Joined \/ ForceClose \/ GiveUp
  \/ \E r \in Reason : End(r)
  \/ WriteFinal \/ Hash \/ Seal \/ Propagate \/ RecordLast \/ Compare \/ Unlink \/ Over

Thread(w) == Work(w) \/ Hang(w) \/ ComeBack(w) \/ Raise(w) \/ EndThread(w)

\* Nothing is armed, and nobody arms anything any more.
Rest ==
  /\ at = "idle" /\ active = None /\ made = MaxRuns /\ arming = {}
  /\ UNCHANGED vars

Next ==
  \/ Operators \/ (\E r \in Run : Pass(r))
  \/ Restart \/ Main \/ LoopFails \/ SealFails \/ Die
  \/ \E w \in Worker : Thread(w)
  \/ Rest

Spec == Init /\ [][Next]_vars

\* Time passes; systemd restarts the service; a process that runs takes its
\* next step; a thread that does not hang sees the stop.
LiveSpec ==
  /\ Spec
  /\ \A r \in Run : WF_vars(Pass(r))
  /\ WF_vars(Restart)
  /\ WF_vars(TakeUp \/ StartWorkers \/ Joined \/ ForceClose \/ GiveUp)
  /\ WF_vars(End("operator-stop") \/ End("duration-complete"))
  /\ WF_vars(WriteFinal \/ Hash \/ Seal \/ Propagate \/ RecordLast \/ Compare \/ Unlink \/ Over)
  /\ \A w \in Worker : WF_vars(EndThread(w))

-----------------------------------------------------------------------------
(* Properties.                                                             *)

\* Types.
TypeOK ==
  /\ active \in Active \cup {None} /\ last \in Run \cup {None} /\ made \in 0..MaxRuns
  /\ arming \subseteq Run /\ stopping \subseteq Run /\ marking \subseteq Run
  /\ overdue \subseteq Run
  /\ sums \in [Run -> {"none", "part", "whole"}]
  /\ stale \in [Run -> SUBSET {"service", "operator"}]
  /\ reason \in [Run -> Reason \cup {None}]
  /\ at \in {"down", "idle", "start", "collect", "join", "rejoin", "final", "hash", "seal",
             "record", "compare", "unlink", "over"}
  /\ run \in Run \cup {None} /\ why \in Reason \cup {None}
  /\ stopped \in BOOLEAN /\ raising \in BOOLEAN
  /\ worker \in [Worker -> {"off", "on", "blocked", "hung", "ended"}]
  /\ asked \subseteq Run /\ replaced \subseteq Run
  /\ calls \in 0..MaxCalls /\ troubles \in 0..MaxTroubles

\* At rest a run is neither armed nor in a session.
AtRest(r) == ~IsActive(r) /\ run # r

\* No run that was armed is forgotten: it is armed still, or in a session,
\* or sealed -- or another run's active.json was written over its own, which
\* operators may do who raced each other.
NothingForgotten ==
  \A r \in Armed \ replaced : AtRest(r) => sums[r] = "whole" /\ reason[r] # None

\* The checksums of a run at rest are those of the files the service left: no
\* thread of any session, no failed or repeated sealing and no session that a
\* late stop request brought about has written to them since they were made.
SealHolds ==
  \A r \in Run \ replaced : sums[r] = "whole" /\ AtRest(r) => "service" \notin stale[r]

\* The reason a run at rest gives for its end is true: operator-stop, if
\* somebody asked for that; duration-complete, if its deadline has passed --
\* also when an earlier session of it has failed and said so.
ReasonTruthful ==
  \A r \in Run \ replaced : AtRest(r) =>
     /\ reason[r] = "operator-stop" => r \in asked
     /\ reason[r] = "duration-complete" => r \in overdue

\* A run that was armed is sealed in the end, whatever its threads do,
\* unless another run's active.json was written over its own.
EveryRunEnds ==
  \A r \in Run : (r \in Armed) ~> ((sums[r] = "whole" /\ AtRest(r)) \/ r \in replaced)
=============================================================================

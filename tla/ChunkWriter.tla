---------------------------- MODULE ChunkWriter ----------------------------
(***************************************************************************)
(* The raw record of one source of a run: ChunkWriter, which the serial    *)
(* worker of each session writes with, the index chunks.ndjson, and        *)
(* recover_partial_chunks, with which a restarted service picks up what    *)
(* the session before left.  A chunk is written under a name that ends in  *)
(* .partial; a full one is closed, renamed and entered in the index, each  *)
(* a step of its own.  The process may die between any two steps, and      *)
(* opening, writing, flushing, renaming and appending to the index may     *)
(* fail.                                                                   *)
(* The chunks of a source do not depend on those of another.               *)
(***************************************************************************)
EXTENDS Naturals, Sequences, FiniteSets

CONSTANTS
  None,      \* an absent line, count or chunk
  MaxLines,  \* how many lines the sensor sends
  MaxDeaths, MaxFaults

ASSUME ChunkConstants ==
  /\ MaxLines \in Nat /\ MaxDeaths \in Nat /\ MaxFaults \in Nat
  /\ None \notin Nat

\* Lines are numbered over the sessions of the run.
Line == 1..MaxLines

\* The number in a chunk's name; the time that follows it there is left out.
Chunk == 0..MaxLines

VARIABLES
  files,    \* sources/<source>/: per number the name's ending, the lines that
            \* can be read back, buffers included, and those known to be on disk
  damaged,  \* chunks whose compressed stream has a hole
  index,    \* chunks.ndjson
  number,   \* self.chunk_number
  stream,   \* self.text_stream: none, open, or closed and not yet reset
  due,      \* chunk_seconds have passed
  records,  \* self.records
  at,       \* where the process is
  goal,     \* what the chunk is closed for
  hand,     \* the line the worker is to write
  found,    \* the chunk recovery has renamed
  read,     \* lines read so far
  failed,   \* history: chunks in which a write, a sync or a close raised
  deaths, faults

store == <<files, damaged, index>>
writer == <<number, stream, due, records>>
place == <<at, goal, hand, found>>
counters == <<read, failed, deaths, faults>>
vars == <<store, writer, place, counters>>

Ending == {"none", "partial", "final", "incomplete"}
File == [name : Ending, lines : SUBSET Line, synced : SUBSET Line]
Entry == [chunk : Chunk, name : {"final", "incomplete"}, records : (0..MaxLines) \cup {None}]

Exists(n) == files[n].name # "none"
Rename(n, ending) == files' = [files EXCEPT ![n].name = ending]

\* Slip: each session counts from zero.
NextNumberZero == 0

NextNumber ==
  CHOOSE n \in Chunk :
     /\ \A m \in Chunk : Exists(m) => m < n
     /\ n = 0 \/ Exists(n - 1)

-----------------------------------------------------------------------------
(* The start of a session.                                                 *)

\* systemd starts the service again; it finds the run armed.
Start ==
  /\ at = "down"
  /\ at' = "recover"
  /\ UNCHANGED <<store, writer, goal, hand, found, counters>>

Recover(n) ==
  /\ at = "recover"
  /\ files[n].name = "partial" /\ \A m \in Chunk : files[m].name = "partial" => n <= m
  /\ Rename(n, "incomplete")
  /\ found' = n /\ at' = "recover-index"
  /\ UNCHANGED <<damaged, index, writer, goal, hand, counters>>

\* Slip: the entry is made with the name before the renaming.
RecoverIndexOld ==
  /\ at = "recover-index"
  /\ index' = Append(index, [chunk |-> found, name |-> "partial", records |-> None])
  /\ found' = None /\ at' = "recover"
  /\ UNCHANGED <<files, damaged, writer, goal, hand, counters>>

\* Nobody counts the lines of a chunk that was cut off.
RecoverIndex ==
  /\ at = "recover-index"
  /\ index' = Append(index, [chunk |-> found, name |-> "incomplete", records |-> None])
  /\ found' = None /\ at' = "recover"
  /\ UNCHANGED <<files, damaged, writer, goal, hand, counters>>

\* Slip: the writer is made before the chunks of the dead are recovered.
ConstructEarly ==
  /\ at = "recover"
  /\ number' = NextNumber /\ stream' = "none" /\ due' = FALSE /\ records' = 0
  /\ at' = "loop"
  /\ UNCHANGED <<store, goal, hand, found, counters>>

\* ChunkWriter.__init__, once nothing is left to recover.
Construct ==
  /\ at = "recover" /\ \A m \in Chunk : files[m].name # "partial"
  /\ number' = NextNumber /\ stream' = "none" /\ due' = FALSE /\ records' = 0
  /\ at' = "loop"
  /\ UNCHANGED <<store, goal, hand, found, counters>>

-----------------------------------------------------------------------------
(* Writing.  An OSError is taken for a lost connection: the line is gone,  *)
(* and the worker goes on, with the same writer, when it has reconnected.  *)
(* Any other exception ends the thread.                                    *)

Fail == faults < MaxFaults /\ faults' = faults + 1

\* Back to the loop, or, if the chunk was closed for good, out of the thread.
Escape ==
  /\ at' = IF goal = "stop" THEN "dead" ELSE "loop"
  /\ goal' = None /\ hand' = None

ReadLine ==
  /\ at = "loop" /\ read < MaxLines
  /\ read' = read + 1 /\ hand' = read + 1 /\ at' = "write"
  /\ UNCHANGED <<store, writer, goal, found, failed, deaths, faults>>

\* write: the first line of a chunk.
WriteFirst ==
  /\ at = "write" /\ stream = "none"
  /\ at' = "open"
  /\ UNCHANGED <<store, writer, goal, hand, found, counters>>

\* Slip: the count goes on from the chunk before.
OpenCounting ==
  /\ at = "open"
  /\ files' = [files EXCEPT ![number] = [name |-> "partial", lines |-> {}, synced |-> {}]]
  /\ stream' = "open" /\ due' = FALSE
  /\ at' = "append"
  /\ UNCHANGED <<damaged, index, number, records, goal, hand, found, counters>>

Open ==
  /\ at = "open"
  /\ files' = [files EXCEPT ![number] = [name |-> "partial", lines |-> {}, synced |-> {}]]
  /\ stream' = "open" /\ due' = FALSE /\ records' = 0
  /\ at' = "append"
  /\ UNCHANGED <<damaged, index, number, goal, hand, found, counters>>

OpenFails ==
  /\ at = "open"
  /\ Fail /\ Escape
  /\ UNCHANGED <<store, writer, found, read, failed, deaths>>

\* write: the chunk is not full yet.
WriteNext ==
  /\ at = "write" /\ stream = "open" /\ ~due
  /\ at' = "append"
  /\ UNCHANGED <<store, writer, goal, hand, found, counters>>

\* The lines of the open chunk with one more: behind a hole nothing can be
\* read any more.
With(line) == files[number].lines \cup (IF number \in damaged THEN {} ELSE {line})

\* The line is written and counted, with a sync if sync_seconds have passed.
AppendLine ==
  /\ at = "append"
  /\ \E synced \in {files[number].synced, With(hand)} :
        files' = [files EXCEPT ![number].lines = With(hand), ![number].synced = synced]
  /\ records' = records + 1
  /\ hand' = None /\ at' = "loop"
  /\ UNCHANGED <<damaged, index, number, stream, due, goal, found, counters>>

\* The open chunk has these lines; a call that failed left them in the
\* buffers, or has dropped what it was to pass on.  The compressor had
\* consumed that, so that only a beginning can be read, now and later.
Retained(lines) ==
  /\ files' = [files EXCEPT ![number].lines = lines]
  /\ UNCHANGED damaged

Beginning(lines, newest) == {k \in lines : k <= newest}

Dropped(lines) ==
  /\ \E newest \in Line \cup {0} :
        /\ files[number].synced \subseteq Beginning(lines, newest)
        /\ files' = [files EXCEPT ![number].lines = Beginning(lines, newest)]
  /\ damaged' = damaged \cup {number}

\* The write or the observer raises before the line is counted, or the sync
\* after it.
AppendFails ==
  /\ at = "append"
  /\ Fail /\ Escape
  /\ failed' = failed \cup {number}
  /\ Retained(With(hand)) \/ Dropped(With(hand))
  /\ records' \in {records, records + 1}
  /\ UNCHANGED <<index, number, stream, due, found, read, deaths>>

\* write: the chunk is full, now or since a close of it failed.
Rotate ==
  /\ at = "write" /\ stream # "none"
  /\ due' = TRUE /\ goal' = "rotate" /\ at' = "flush"
  /\ UNCHANGED <<store, number, stream, records, hand, found, counters>>

\* The run is over: the worker leaves its loop and closes the chunk it has.
Stop ==
  /\ at = "loop"
  /\ IF stream = "none" THEN at' = "ended" /\ UNCHANGED goal
                        ELSE at' = "flush" /\ goal' = "stop"
  /\ UNCHANGED <<store, writer, hand, found, counters>>

-----------------------------------------------------------------------------
(* close.                                                                  *)

\* Flushed, closed and fsynced.
Flush ==
  /\ at = "flush" /\ stream = "open"
  /\ files' = [files EXCEPT ![number].synced = files[number].lines]
  /\ stream' = "closed" /\ at' = "replace"
  /\ UNCHANGED <<damaged, index, number, due, records, goal, hand, found, counters>>

\* The flush raises and leaves the stream open, or what comes after it does
\* and leaves it closed.
FlushFails ==
  /\ at = "flush" /\ stream = "open"
  /\ Fail /\ Escape
  /\ failed' = failed \cup {number}
  /\ Retained(files[number].lines) \/ Dropped(files[number].lines)
  /\ stream' \in {"open", "closed"}
  /\ UNCHANGED <<index, number, due, records, found, read, deaths>>

\* An earlier close failed after it had closed the stream: flush raises
\* ValueError, here and again in the thread's finally.
FlushClosed ==
  /\ at = "flush" /\ stream = "closed"
  /\ at' = "dead" /\ goal' = None /\ hand' = None
  /\ UNCHANGED <<store, writer, found, counters>>

Replace ==
  /\ at = "replace"
  /\ Rename(number, "final")
  /\ at' = "index"
  /\ UNCHANGED <<damaged, index, writer, goal, hand, found, counters>>

\* os.replace or the append to the index fails.
CloseFails ==
  /\ at \in {"replace", "index"}
  /\ Fail /\ Escape
  /\ UNCHANGED <<store, writer, found, read, failed, deaths>>

\* Slip: the chunk's number is used again.
IndexSameNumber ==
  /\ at = "index"
  /\ index' = Append(index, [chunk |-> number, name |-> "final", records |-> records])
  /\ stream' = "none" /\ goal' = None
  /\ at' = IF goal = "rotate" THEN "open" ELSE "ended"
  /\ UNCHANGED <<files, damaged, number, due, records, hand, found, counters>>

\* Slip: only a rotation enters its chunk.
IndexRotated ==
  /\ at = "index"
  /\ index' = IF goal = "stop" THEN index
              ELSE Append(index, [chunk |-> number, name |-> "final", records |-> records])
  /\ stream' = "none" /\ goal' = None
  /\ number' = IF goal = "rotate" THEN number + 1 ELSE number
  /\ at' = IF goal = "rotate" THEN "open" ELSE "ended"
  /\ UNCHANGED <<files, damaged, due, records, hand, found, counters>>

\* The entry; the fields are reset, and a rotation goes on to the next chunk.
Index ==
  /\ at = "index"
  /\ index' = Append(index, [chunk |-> number, name |-> "final", records |-> records])
  /\ stream' = "none" /\ goal' = None
  /\ number' = IF goal = "rotate" THEN number + 1 ELSE number
  /\ at' = IF goal = "rotate" THEN "open" ELSE "ended"
  /\ UNCHANGED <<files, damaged, due, records, hand, found, counters>>

-----------------------------------------------------------------------------
(* The end of a session.                                                   *)

\* Of what was in the buffers a beginning may have reached the disk.
Cut(n, newest) ==
  LET left == Beginning(files[n].lines, newest)
  IN /\ files[n].synced \subseteq left
     /\ files' = [files EXCEPT ![n].lines = left, ![n].synced = left]

Abandon == IF stream = "none" THEN UNCHANGED files ELSE \E newest \in Line \cup {0} : Cut(number, newest)

Forgotten == stream' = "none" /\ due' = FALSE /\ records' = 0 /\ number' = 0

\* The process dies.
Die ==
  /\ at \notin {"down", "finished"} /\ deaths < MaxDeaths
  /\ Abandon /\ Forgotten
  /\ at' = "down" /\ goal' = None /\ hand' = None /\ found' = None
  /\ deaths' = deaths + 1
  /\ UNCHANGED <<damaged, index, read, failed, faults>>

\* The run ends, with a worker that came to its end or that died; a writer
\* that died goes with what it had not written.
Finish ==
  /\ at \in {"ended", "dead"}
  /\ Abandon /\ Forgotten
  /\ at' = "finished"
  /\ UNCHANGED <<damaged, index, goal, hand, found, counters>>

Finished == at = "finished" /\ UNCHANGED vars

Init ==
  /\ files = [n \in Chunk |-> [name |-> "none", lines |-> {}, synced |-> {}]]
  /\ damaged = {} /\ index = <<>>
  /\ number = 0 /\ stream = "none" /\ due = FALSE /\ records = 0
  /\ at = "recover" /\ goal = None /\ hand = None /\ found = None
  /\ read = 0 /\ failed = {} /\ deaths = 0 /\ faults = 0

Recovery == (\E n \in Chunk : Recover(n)) \/ RecoverIndex \/ Construct
Writing == WriteFirst \/ Open \/ WriteNext \/ AppendLine \/ Rotate
Closing == Flush \/ FlushClosed \/ Replace \/ Index
Failing == OpenFails \/ AppendFails \/ FlushFails \/ CloseFails

Service == Recovery \/ ReadLine \/ Writing \/ Stop \/ Closing \/ Finish

Next == Start \/ Service \/ Failing \/ Die \/ Finished

Spec == Init /\ [][Next]_vars

\* systemd restarts the service (Restart=always), and a process that runs
\* takes its next step.
LiveSpec == Spec /\ WF_vars(Start) /\ WF_vars(Service)

-----------------------------------------------------------------------------
(* Properties.                                                             *)

\* Types.
TypeOK ==
  /\ files \in [Chunk -> File]
  /\ damaged \subseteq Chunk /\ failed \subseteq Chunk
  /\ index \in Seq(Entry)
  /\ number \in Chunk /\ stream \in {"none", "open", "closed"}
  /\ due \in BOOLEAN /\ records \in 0..MaxLines
  /\ at \in {"down", "recover", "recover-index", "loop", "write", "open", "append", "flush",
             "replace", "index", "ended", "dead", "finished"}
  /\ goal \in {None, "rotate", "stop"} /\ hand \in Line \cup {None} /\ found \in Chunk \cup {None}
  /\ read \in 0..MaxLines /\ deaths \in 0..MaxDeaths /\ faults \in 0..MaxFaults

\* An entry of the index stays true for ever: the chunk is there under the
\* name of the entry, what can be read of a finished chunk is on disk, and no
\* chunk is entered twice.  The entry of a finished chunk counts its lines if
\* none of its writes, syncs and flushes failed, whatever else did; and it
\* never counts more than there are, unless a failure dropped some.
IndexTruthful ==
  \A i \in 1..Len(index) :
     LET e == index[i] IN
     /\ files[e.chunk].name = e.name
     /\ e.name = "final" =>
           /\ files[e.chunk].synced = files[e.chunk].lines
           /\ e.chunk \notin failed => e.records = Cardinality(files[e.chunk].lines)
           /\ e.chunk \notin damaged => e.records <= Cardinality(files[e.chunk].lines)
     /\ \A j \in 1..Len(index) : index[j].chunk = e.chunk => i = j

\* write_evidence_facts reads the chunks in the order of their names: the
\* lines of a later chunk were read later, over sessions, failed closes and
\* chunks that could not be opened.
ChunksInOrder ==
  \A m, n \in Chunk : m < n => \A a \in files[m].lines, b \in files[n].lines : a < b

Indexed == {index[i].chunk : i \in 1..Len(index)}
Unindexed == {n \in Chunk : files[n].name \in {"final", "incomplete"}} \ Indexed

\* A chunk that was renamed and is not in the index is one the process is
\* about to enter, or one whose entry a death or a failed append prevented:
\* one chunk for each at most.  Nothing enters those later.
HolesAccounted ==
  Cardinality(Unindexed) <= deaths + faults + (IF at \in {"index", "recover-index"} THEN 1 ELSE 0)

\* What is on record is kept in order, and no failure takes a line that had
\* been synced.
Record == INSTANCE RecordLog WITH
  kept <- UNION {files[n].lines : n \in Chunk},
  safe <- UNION {files[n].synced : n \in Chunk}

ImplementsRecordLog == Record!Spec

\* A chunk that a dead process left behind is recovered.
PartialsRecovered ==
  \A n \in Chunk : (at = "down" /\ files[n].name = "partial") ~> (files[n].name = "incomplete")
=============================================================================

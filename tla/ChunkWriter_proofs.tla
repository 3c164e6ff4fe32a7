------------------------- MODULE ChunkWriter_proofs -------------------------
(***************************************************************************)
(* Theorems about ChunkWriter, for any number of lines, deaths and faults. *)
(***************************************************************************)
EXTENDS ChunkWriter, FiniteSetTheorems, TLAPS

\* A session has a writer.
Running == at \notin {"down", "recover", "recover-index", "finished"}

\* ... and may need the number of another chunk.
Counting == Running /\ at # "ended"

\* The worker has a line that is in no file yet.
Holding == hand # None /\ at # "append"

\* The chunks there are have the numbers below Top, once the writer
\* counts.
Top == IF stream = "none" THEN number ELSE number + 1

\* What the places of the process say of the line, the goal and the stream.
Places ==
  /\ hand # None => hand = read
  /\ at \in {"write", "open", "append"} => hand # None /\ goal = None
  /\ at \in {"flush", "replace", "index"} =>
        (goal = "rotate" /\ hand # None) \/ (goal = "stop" /\ hand = None)
  /\ at \notin {"write", "open", "append", "flush", "replace", "index"} => hand = None /\ goal = None
  /\ at = "recover-index" <=> found # None
  /\ at = "append" => stream = "open"
  /\ at = "flush" => stream # "none"
  /\ at \in {"replace", "index"} => stream = "closed"
  /\ at \in {"open", "ended"} => stream = "none"
  /\ ~Running => stream = "none"

TypeInv == TypeOK /\ Places

\* The writer has a line for every one it has counted.
Counted == records <= read /\ (hand # None => records < read)

\* The writer's own chunk, which may not be on disk yet, or not any more.
Unsure(n) ==
  n = number /\ stream # "none" /\ at \notin {"replace", "index"} /\ files[n].name = "partial"

\* A file is on disk but for the last lines of the writer's own, and its
\* lines were read before the one the worker holds.
Lined(n) ==
  /\ files[n].synced \subseteq files[n].lines
  /\ ~Exists(n) => files[n].lines = {}
  /\ \A a \in files[n].lines : a <= read /\ (hand # None => a < read)
  /\ files[n].synced = files[n].lines \/ Unsure(n)

\* The chunks there are have the numbers up to one that is at most the
\* number of lines, and a session counts on from there.
Numbered ==
  /\ \E k \in Chunk :
        /\ \A n \in Chunk : Exists(n) <=> n < k
        /\ k <= read /\ (Holding => k < read)
  /\ Counting =>
        /\ \A n \in Chunk : Exists(n) <=> n < Top
        /\ Top <= read /\ (Holding => Top < read)

\* A session has no other partial chunk than its own, and that has the name
\* its place says.
Named ==
  /\ Running => \A n \in Chunk : files[n].name = "partial" => n = number /\ stream # "none"
  /\ stream = "open" => files[number].name = "partial"
  /\ stream = "closed" => files[number].name \in {"partial", "final"}
  /\ at = "replace" => files[number].name = "partial"
  /\ at = "index" => files[number].name = "final" /\ number \notin Indexed
  /\ at = "recover-index" => files[found].name = "incomplete" /\ found \notin Indexed
  /\ stream # "none" =>
        /\ number \notin failed => records = Cardinality(files[number].lines)
        /\ number \notin damaged => records <= Cardinality(files[number].lines)
  /\ damaged \subseteq failed

FileInv == \A n \in Chunk : Lined(n)

IInv == TypeInv /\ Counted /\ FileInv /\ Numbered /\ Named /\ IndexTruthful /\ ChunksInOrder
-----------------------------------------------------------------------------
(* Types and numbers.                                                      *)

\* The number of a new session is above those of all chunks there are.
LEMMA NextNumberAbove ==
  ASSUME TypeOK, Numbered
  PROVE  /\ NextNumber \in Chunk /\ NextNumber <= read
         /\ \A n \in Chunk : Exists(n) <=> n < NextNumber
<1>1. PICK k \in Chunk : (\A n \in Chunk : Exists(n) <=> n < k) /\ k <= read
  BY DEF Numbered
<1> DEFINE P(n) == (\A m \in Chunk : Exists(m) => m < n) /\ (n = 0 \/ Exists(n - 1))
<1>2. k = 0 \/ Exists(k - 1)
  <2>1. SUFFICES ASSUME k # 0 PROVE Exists(k - 1)
    OBVIOUS
  <2>2. k - 1 \in Chunk /\ k - 1 < k
    BY <2>1, ChunkConstants DEF Chunk
  <2>. QED
    BY <1>1, <2>2
<1>3. P(k)
  BY <1>1, <1>2
<1>4. NextNumber \in Chunk /\ P(NextNumber)
  <2>1. NextNumber = CHOOSE n \in Chunk : P(n)
    BY DEF NextNumber
  <2>. QED
    BY <1>3, <2>1
<1>5. NextNumber = k
  <2>1. ASSUME NEW n \in Chunk, P(n) PROVE n = k
    <3>1. CASE n < k
      BY <1>1, <2>1, <3>1, ChunkConstants DEF Chunk
    <3>2. CASE k < n
      <4>1. n - 1 \in Chunk /\ ~(n - 1 < k) /\ n # 0
        BY <3>2, ChunkConstants DEF Chunk
      <4>. QED
        BY <1>1, <2>1, <4>1
    <3>. QED
      BY <3>1, <3>2, ChunkConstants DEF Chunk
  <2>. QED
    BY <1>4, <2>1
<1>. QED
  BY <1>1, <1>4, <1>5

\* A chunk's lines are a finite set of at most MaxLines.
LEMMA LinesFinite ==
  ASSUME NEW S \in SUBSET Line
  PROVE  IsFiniteSet(S) /\ Cardinality(S) \in 0..MaxLines
<1>1. IsFiniteSet(Line) /\ Cardinality(Line) = MaxLines
  BY FS_Interval, ChunkConstants DEF Line
<1>2. IsFiniteSet(S) /\ Cardinality(S) <= MaxLines /\ Cardinality(S) \in Nat
  BY <1>1, FS_Subset, FS_CardinalityType
<1>. QED
  BY <1>1, <1>2, ChunkConstants

LEMMA Zero == 0 \in 0..MaxLines
BY ChunkConstants

\* The line in hand, if the chunk has yet to receive it.
Fresh == IF at = "append" THEN {hand} ELSE {}

\* What a call that failed leaves of the lines it was to pass on.
LEMMA Remains ==
  ASSUME TypeOK, NEW lines \in SUBSET Line, files[number].synced \subseteq lines,
         Retained(lines) \/ Dropped(lines)
  PROVE  /\ files' \in [Chunk -> File]
         /\ \A n \in Chunk : n # number => files'[n] = files[n]
         /\ files'[number].name = files[number].name
         /\ files'[number].synced = files[number].synced
         /\ files[number].synced \subseteq files'[number].lines
         /\ files'[number].lines \subseteq lines
         /\ \A a \in files'[number].lines, b \in lines : b < a => b \in files'[number].lines
         /\ number \notin damaged' => files'[number].lines = lines
         /\ damaged' \in {damaged, damaged \cup {number}}
<1>1. files \in [Chunk -> File] /\ number \in Chunk
  BY DEF TypeOK
<1>2. \A a \in lines : a \in Nat
  BY ChunkConstants DEF Line
<1>3. ASSUME NEW left \in SUBSET lines, files' = [files EXCEPT ![number].lines = left]
      PROVE  /\ files' \in [Chunk -> File]
             /\ \A n \in Chunk : n # number => files'[n] = files[n]
             /\ files'[number].name = files[number].name
             /\ files'[number].synced = files[number].synced
             /\ files'[number].lines = left
  BY <1>1, <1>3 DEF File
<1>4. CASE Retained(lines)
  BY <1>3, <1>4 DEF Retained
<1>5. CASE Dropped(lines)
  <2>1. PICK newest \in Line \cup {0} :
           /\ files[number].synced \subseteq Beginning(lines, newest)
           /\ files' = [files EXCEPT ![number].lines = Beginning(lines, newest)]
    BY <1>5 DEF Dropped
  <2>2. newest \in Nat
    BY ChunkConstants DEF Line
  <2>3. /\ Beginning(lines, newest) \in SUBSET lines
        /\ \A a \in Beginning(lines, newest), b \in lines : b < a => b \in Beginning(lines, newest)
    BY <1>2, <2>2 DEF Beginning
  <2>4. damaged' = damaged \cup {number}
    BY <1>5 DEF Dropped
  <2>. QED
    BY <1>3, <2>1, <2>3, <2>4
<1>. QED
  BY <1>4, <1>5

\* What the writing of a line, or a call that failed, leaves of the chunk.
LEMMA Worked ==
  ASSUME TypeOK, FileInv, Places, AppendLine \/ AppendFails \/ FlushFails
  PROVE  /\ stream = "open" /\ number \in Chunk
         /\ Fresh \subseteq Line /\ \A a \in Fresh : a = hand /\ a = read
         /\ Fresh \cap files[number].lines = {}
         /\ files' \in [Chunk -> File]
         /\ \A n \in Chunk : n # number => files'[n] = files[n]
         /\ files'[number].name = files[number].name
         /\ files[number].synced \subseteq files'[number].lines
         /\ files'[number].synced \in {files[number].synced, files'[number].lines}
         /\ files'[number].lines \subseteq files[number].lines \cup Fresh
         /\ \A a \in files'[number].lines, b \in files[number].lines : b < a => b \in files'[number].lines
         /\ number \notin damaged' =>
               number \notin damaged /\ files'[number].lines = files[number].lines \cup Fresh
         /\ damaged' \in {damaged, damaged \cup {number}}
<1>1. files[number] \in File /\ number \in Chunk /\ stream = "open" /\ files \in [Chunk -> File]
  BY DEF TypeOK, Places, AppendLine, AppendFails, FlushFails
<1>2. Fresh \subseteq Line /\ \A a \in Fresh : a = hand /\ a = read /\ a \in Nat
  BY ChunkConstants DEF TypeOK, Places, Fresh, Line
<1>3. /\ files[number].synced \subseteq files[number].lines
      /\ \A a \in files[number].lines : a <= read /\ (hand # None => a < read)
      /\ files[number].lines \in SUBSET Line
  BY <1>1 DEF FileInv, Lined, File
<1>4. Fresh \cap files[number].lines = {}
  <2>1. SUFFICES ASSUME NEW a \in Fresh, a \in files[number].lines PROVE FALSE
    OBVIOUS
  <2>2. a < read /\ a = read /\ a \in Nat
    BY <1>2, <1>3, <2>1 DEF Places, Fresh
  <2>. QED
    BY <2>2
<1>5. ASSUME at = "append"
      PROVE  /\ With(hand) \in SUBSET Line /\ files[number].lines \subseteq With(hand)
             /\ With(hand) \subseteq files[number].lines \cup Fresh
             /\ number \notin damaged => With(hand) = files[number].lines \cup Fresh
  BY <1>2, <1>3, <1>5 DEF With, Fresh
<1>6. CASE AppendLine
  <2>1. at = "append" /\ damaged' = damaged
    BY <1>6 DEF AppendLine
  <2>2. PICK synced \in {files[number].synced, With(hand)} :
           files' = [files EXCEPT ![number].lines = With(hand), ![number].synced = synced]
    BY <1>6 DEF AppendLine
  <2>3. synced \in SUBSET Line
    BY <1>1, <1>5, <2>1, <2>2 DEF File
  <2>4. With(hand) \in SUBSET Line
    BY <1>5, <2>1
  <2>5. /\ files' \in [Chunk -> File]
        /\ \A n \in Chunk : n # number => files'[n] = files[n]
        /\ files'[number].name = files[number].name
        /\ files'[number].lines = With(hand) /\ files'[number].synced = synced
    BY <1>1, <2>2, <2>3, <2>4 DEF File
  <2>. QED
    BY <1>1, <1>2, <1>3, <1>4, <1>5, <2>1, <2>2, <2>5
<1>7. CASE AppendFails
  <2>1. at = "append" /\ (Retained(With(hand)) \/ Dropped(With(hand)))
    BY <1>7 DEF AppendFails
  <2>2. With(hand) \in SUBSET Line /\ files[number].synced \subseteq With(hand)
    BY <1>3, <1>5, <2>1
  <2>3. damaged' \in {damaged, damaged \cup {number}}
    BY <2>1, <2>2, Remains
  <2>. QED
    BY <1>1, <1>2, <1>3, <1>4, <1>5, <2>1, <2>2, <2>3, Remains
<1>8. CASE FlushFails
  <2>1. at = "flush" /\ (Retained(files[number].lines) \/ Dropped(files[number].lines))
    BY <1>8 DEF FlushFails
  <2>2. Fresh = {}
    BY <2>1 DEF Fresh
  <2>. QED
    BY <1>1, <1>3, <1>4, <2>1, <2>2, Remains
<1>. QED
  BY <1>6, <1>7, <1>8

LEMMA CutTyped ==
  ASSUME TypeOK, Abandon
  PROVE  files' \in [Chunk -> File]
<1>1. CASE stream = "none"
  BY <1>1 DEF Abandon, TypeOK
<1>2. ASSUME NEW newest \in Line \cup {0}, Cut(number, newest)
      PROVE  files' \in [Chunk -> File]
  BY <1>2 DEF Cut, Beginning, TypeOK, File
<1>. QED
  BY <1>1, <1>2 DEF Abandon

LEMMA InitInv == Init => IInv
<1> SUFFICES ASSUME Init PROVE IInv
  OBVIOUS
<1>1. TypeOK
  <2>1. index \in Seq(Entry)
    BY DEF Init
  <2>2. files \in [Chunk -> File]
    BY DEF Init, File, Ending
  <2>3. number \in Chunk /\ records \in 0..MaxLines /\ read \in 0..MaxLines
        /\ deaths \in 0..MaxDeaths /\ faults \in 0..MaxFaults
    BY ChunkConstants DEF Init, Chunk
  <2>. QED
    BY <2>1, <2>2, <2>3 DEF Init, TypeOK
<1>2. Places
  BY DEF Init, Places, Running
<1>3. FileInv /\ ChunksInOrder /\ Named /\ Counted
  <2>1. FileInv /\ ChunksInOrder
    BY DEF Init, FileInv, Lined, ChunksInOrder
  <2>2. Named
    BY DEF Init, Named
  <2>3. Counted
    BY DEF Init, Counted
  <2>. QED
    BY <2>1, <2>2, <2>3
<1>4. Numbered
  <2>1. 0 \in Chunk /\ \A n \in Chunk : Exists(n) <=> n < 0
    BY ChunkConstants DEF Init, Exists, Chunk
  <2>. QED
    BY <2>1 DEF Init, Numbered, Running, Holding
<1>5. IndexTruthful
  BY DEF Init, IndexTruthful
<1>. QED
  BY <1>1, <1>2, <1>3, <1>4, <1>5 DEF IInv, TypeInv

LEMMA StepTyped == IInv /\ Next => TypeInv'
<1> SUFFICES ASSUME IInv, Next PROVE TypeInv'
  OBVIOUS
<1> USE DEF TypeInv, Places, Running
<1>0. TypeInv /\ TypeOK
  BY DEF IInv
<1>1. CASE Start
  BY <1>0, <1>1 DEF Start, TypeOK, store, writer, counters
<1>2. ASSUME NEW n \in Chunk, Recover(n) PROVE TypeInv'
  <2>1. files' \in [Chunk -> File]
    BY <1>0, <1>2 DEF Recover, Rename, TypeOK, File, Ending
  <2>2. n # None
    BY ChunkConstants DEF Chunk
  <2>. QED
    BY <1>0, <1>2, <2>1, <2>2 DEF Recover, TypeOK, writer, counters
<1>3. CASE RecoverIndex
  <2>1. [chunk |-> found, name |-> "incomplete", records |-> None] \in Entry
    BY <1>0, <1>3 DEF RecoverIndex, TypeOK, Entry
  <2>2. index' \in Seq(Entry)
    BY <1>0, <1>3, <2>1 DEF RecoverIndex, TypeOK
  <2>. QED
    BY <1>0, <1>3, <2>2 DEF RecoverIndex, TypeOK, writer, counters
<1>4. CASE Construct
  <2>1. NextNumber \in Chunk
    BY <1>0, NextNumberAbove DEF IInv
  <2>. QED
    BY <1>0, <1>4, <2>1, Zero DEF Construct, TypeOK, store, counters
<1>5. CASE ReadLine
  <2>1. read + 1 \in Line /\ read + 1 \in 0..MaxLines /\ read + 1 # None
    BY <1>0, <1>5, ChunkConstants DEF ReadLine, TypeOK, Line
  <2>. QED
    BY <1>0, <1>5, <2>1 DEF ReadLine, TypeOK, store, writer
<1>6. CASE WriteFirst \/ WriteNext
  BY <1>0, <1>6 DEF WriteFirst, WriteNext, TypeOK, store, writer, counters
<1>7. CASE Open
  <2>1. files' \in [Chunk -> File]
    BY <1>0, <1>7 DEF Open, TypeOK, File, Ending
  <2>. QED
    BY <1>0, <1>7, <2>1, Zero DEF Open, TypeOK, counters
<1>8. CASE AppendLine
  <2>1. files' \in [Chunk -> File]
    BY <1>0, <1>8, Worked DEF IInv
  <2>2. records' \in 0..MaxLines
    <3>1. hand # None
      BY <1>0, <1>8 DEF AppendLine
    <3>. QED
      BY <1>0, <1>8, <3>1, ChunkConstants DEF IInv, Counted, AppendLine, TypeOK
  <2>. QED
    BY <1>0, <1>8, <2>1, <2>2 DEF AppendLine, TypeOK, counters
<1>9. CASE Rotate
  BY <1>0, <1>9 DEF Rotate, TypeOK, store, counters
<1>10. CASE Stop
  BY <1>0, <1>10 DEF Stop, TypeOK, store, writer, counters
<1>11. CASE Flush
  <2>1. files' \in [Chunk -> File]
    BY <1>0, <1>11 DEF Flush, TypeOK, File
  <2>. QED
    BY <1>0, <1>11, <2>1 DEF Flush, TypeOK, counters
<1>12. CASE FlushClosed
  BY <1>0, <1>12 DEF FlushClosed, TypeOK, store, writer, counters
<1>13. CASE Replace
  <2>1. files' \in [Chunk -> File]
    BY <1>0, <1>13 DEF Replace, Rename, TypeOK, File, Ending
  <2>. QED
    BY <1>0, <1>13, <2>1 DEF Replace, TypeOK, writer, counters
<1>14. CASE Index
  <2>1. [chunk |-> number, name |-> "final", records |-> records] \in Entry
    BY <1>0 DEF TypeOK, Entry
  <2>2. index' \in Seq(Entry)
    BY <1>0, <1>14, <2>1 DEF Index, TypeOK
  <2>3. number' \in Chunk
    <3>1. number + 1 <= read /\ read \in 0..MaxLines /\ number \in 0..MaxLines
      BY <1>0, <1>14 DEF IInv, Index, Numbered, Counting, Top, TypeOK, Chunk
    <3>2. number \in Chunk /\ number + 1 \in Chunk
      BY <3>1, ChunkConstants DEF Chunk
    <3>. QED
      BY <1>14, <3>2 DEF Index
  <2>. QED
    BY <1>0, <1>14, <2>2, <2>3 DEF Index, TypeOK, counters
<1>15. CASE Failing
  <2>1. faults' \in 0..MaxFaults
    BY <1>0, <1>15, ChunkConstants DEF Failing, OpenFails, AppendFails, FlushFails, CloseFails,
                                       Fail, TypeOK
  <2>2. CASE OpenFails \/ CloseFails
    BY <1>0, <2>1, <2>2 DEF OpenFails, CloseFails, Escape, TypeOK, store, writer
  <2>3. CASE AppendFails
    <3>1. files' \in [Chunk -> File] /\ damaged' \subseteq Chunk /\ failed' \subseteq Chunk
      BY <1>0, <2>3, Worked DEF IInv, AppendFails, TypeOK
    <3>2. records' \in 0..MaxLines
      <4>1. hand # None
        BY <1>0, <2>3 DEF AppendFails
      <4>. QED
        BY <1>0, <2>3, <4>1, ChunkConstants DEF IInv, Counted, AppendFails, TypeOK
    <3>. QED
      BY <1>0, <2>1, <2>3, <3>1, <3>2 DEF AppendFails, Escape, TypeOK
  <2>4. CASE FlushFails
    <3>1. files' \in [Chunk -> File] /\ damaged' \subseteq Chunk /\ failed' \subseteq Chunk
      BY <1>0, <2>4, Worked DEF IInv, FlushFails, TypeOK
    <3>. QED
      BY <1>0, <2>1, <2>4, <3>1 DEF FlushFails, Escape, TypeOK
  <2>. QED
    BY <1>15, <2>2, <2>3, <2>4 DEF Failing
<1>16. CASE Finish
  <2>1. files' \in [Chunk -> File] /\ 0 \in Chunk
    BY <1>0, <1>16, CutTyped, Zero DEF Finish, Chunk
  <2>. QED
    BY <1>0, <1>16, <2>1, Zero DEF Finish, Forgotten, TypeOK, counters
<1>17. CASE Die
  <2>1. files' \in [Chunk -> File] /\ 0 \in Chunk
    BY <1>0, <1>17, CutTyped, Zero DEF Die, Chunk
  <2>2. deaths' \in 0..MaxDeaths
    BY <1>0, <1>17, ChunkConstants DEF Die, TypeOK
  <2>. QED
    BY <1>0, <1>17, <2>1, <2>2, Zero DEF Die, Forgotten, TypeOK
<1>18. CASE Finished
  BY <1>0, <1>18 DEF Finished, TypeOK, vars, store, writer, place, counters
<1>. QED
  BY <1>1, <1>2, <1>3, <1>4, <1>5, <1>6, <1>7, <1>8, <1>9, <1>10, <1>11, <1>12, <1>13, <1>14,
     <1>15, <1>16, <1>17, <1>18 DEF Next, Service, Recovery, Writing, Closing

LEMMA StepCounted == IInv /\ Next => Counted'
<1> SUFFICES ASSUME IInv, Next PROVE Counted'
  OBVIOUS
<1>1. /\ records \in Nat /\ read \in Nat /\ records <= read /\ (hand # None => records < read)
      /\ at \in {"write", "open", "append"} => hand # None
  BY ChunkConstants DEF IInv, TypeInv, TypeOK, Places, Counted
<1>2. ASSUME UNCHANGED read, records' \in {records, 0}, hand' \in {hand, None}
      PROVE  Counted'
  <2>1. CASE records' = records
    BY <1>1, <1>2, <2>1 DEF Counted
  <2>2. CASE records' = 0
    BY <1>1, <1>2, <2>2 DEF Counted
  <2>. QED
    BY <1>2, <2>1, <2>2
<1>3. CASE ReadLine
  BY <1>1, <1>3 DEF ReadLine, Counted, writer
<1>4. CASE AppendLine \/ AppendFails
  <2>1. hand # None /\ hand' = None /\ records' \in {records, records + 1} /\ read' = read
    BY <1>1, <1>4 DEF AppendLine, AppendFails, Escape, counters
  <2>. QED
    BY <1>1, <2>1 DEF Counted
<1>5. CASE Start \/ Recovery \/ WriteFirst \/ Open \/ WriteNext \/ Rotate \/ Stop
  BY <1>2, <1>5 DEF Start, Recovery, Recover, RecoverIndex, Construct, WriteFirst, Open, WriteNext, Rotate,
                    Stop, writer, counters
<1>6. CASE Closing \/ OpenFails \/ FlushFails \/ CloseFails \/ Finish \/ Die \/ Finished
  BY <1>2, <1>6 DEF Closing, Flush, FlushClosed, Replace, Index, OpenFails, FlushFails, CloseFails, Escape,
                    Finish, Die, Finished, Forgotten, writer, counters, place, vars
<1>. QED
  BY <1>3, <1>4, <1>5, <1>6 DEF Next, Service, Writing, Failing
-----------------------------------------------------------------------------
(* The rest of the invariant, action by action.                            *)

Rest == FileInv /\ Numbered /\ Named /\ IndexTruthful /\ ChunksInOrder

LEMMA EntriesTyped ==
  ASSUME TypeOK, NEW i \in 1..Len(index)
  PROVE  index[i].chunk \in Chunk /\ index[i].name \in {"final", "incomplete"}
<1>1. index[i] \in Entry
  BY DEF TypeOK
<1>. QED
  BY <1>1 DEF Entry

\* A chunk that is not finished is not in the index.
LEMMA NotEntered ==
  ASSUME IInv, NEW n \in Chunk, files[n].name \in {"none", "partial"}
  PROVE  \A i \in 1..Len(index) : index[i].chunk # n /\ index[i].chunk \in Chunk
<1>1. TAKE i \in 1..Len(index)
<1>2. index[i].chunk \in Chunk /\ index[i].name \in {"final", "incomplete"}
  BY EntriesTyped DEF IInv, TypeInv
<1>3. files[index[i].chunk].name = index[i].name
  BY DEF IInv, IndexTruthful
<1>. QED
  BY <1>2, <1>3

\* A step that touches no file.
LEMMA QuietRest ==
  ASSUME IInv, UNCHANGED <<files, damaged, index, number, stream, records, read, failed>>,
         hand' \in {hand, None}, Holding' => Holding, Running' => Running,
         Counting' => Counting,
         at' \notin {"replace", "index", "recover-index"}
  PROVE  Rest'
<1>1. FileInv' /\ ChunksInOrder' /\ IndexTruthful'
  BY DEF IInv, FileInv, Lined, Unsure, Exists, ChunksInOrder, IndexTruthful
<1>2. Numbered'
  BY DEF IInv, Numbered, Exists, Top
<1>3. Named'
  BY DEF IInv, Named
<1>. QED
  BY <1>1, <1>2, <1>3 DEF Rest

LEMMA RecoverRest ==
  ASSUME IInv, NEW n \in Chunk, Recover(n)
  PROVE  Rest'
<1>1. /\ files \in [Chunk -> File] /\ files[n].name = "partial" /\ stream = "none"
      /\ ~Running /\ ~Running' /\ ~Counting' /\ ~Holding /\ ~Holding' /\ hand' = hand
  BY DEF IInv, TypeInv, TypeOK, Places, Running, Counting, Holding, Recover
<1>2. /\ files' \in [Chunk -> File] /\ files'[n].name = "incomplete"
      /\ \A m \in Chunk : m # n => files'[m] = files[m]
      /\ \A m \in Chunk : files'[m].lines = files[m].lines /\ files'[m].synced = files[m].synced
      /\ \A m \in Chunk : Exists(m)' <=> Exists(m)
  BY <1>1 DEF Recover, Rename, File, Ending, Exists
<1>3. UNCHANGED <<damaged, index, number, stream, due, records, read, failed>>
  BY DEF Recover, writer, counters
<1>4. FileInv' /\ ChunksInOrder'
  BY <1>1, <1>2, <1>3 DEF IInv, FileInv, Lined, Unsure, ChunksInOrder
<1>5. Numbered'
  BY <1>1, <1>2, <1>3 DEF IInv, Numbered
<1>6. n \notin Indexed
  BY <1>1, NotEntered DEF Indexed
<1>7. IndexTruthful'
  <2>1. \A i \in 1..Len(index) : index[i].chunk # n /\ index[i].chunk \in Chunk
    BY <1>1, NotEntered
  <2>. QED
    BY <1>2, <1>3, <2>1 DEF IInv, IndexTruthful
<1>8. Named'
  BY <1>1, <1>2, <1>3, <1>6 DEF IInv, Named, Recover, Indexed
<1>. QED
  BY <1>4, <1>5, <1>7, <1>8 DEF Rest

\* What holds of the index when a chunk is entered that was not in it.
LEMMA Entered ==
  ASSUME IInv, NEW e \in Entry, index' = Append(index, e), files' = files,
         e.chunk \notin Indexed, files[e.chunk].name = e.name,
         UNCHANGED <<damaged, failed>>,
         e.name = "final" =>
            /\ files[e.chunk].synced = files[e.chunk].lines
            /\ e.chunk \notin failed => e.records = Cardinality(files[e.chunk].lines)
            /\ e.chunk \notin damaged => e.records <= Cardinality(files[e.chunk].lines)
  PROVE  IndexTruthful'
<1>1. index \in Seq(Entry)
  BY DEF IInv, TypeInv, TypeOK
<1>2. /\ Len(index') = Len(index) + 1 /\ Len(index) \in Nat
      /\ \A i \in 1..Len(index) : index'[i] = index[i]
      /\ index'[Len(index) + 1] = e
  BY <1>1
<1>3. \A i \in 1..Len(index) : index[i].chunk # e.chunk
  BY DEF Indexed
<1>4. \A i \in 1..Len(index') : i \in 1..Len(index) \/ i = Len(index) + 1
  BY <1>2
<1>. QED
  BY <1>2, <1>3, <1>4 DEF IInv, IndexTruthful

LEMMA RecoverIndexRest ==
  ASSUME IInv, RecoverIndex
  PROVE  Rest'
<1> DEFINE e == [chunk |-> found, name |-> "incomplete", records |-> None]
<1>1. e \in Entry /\ found \in Chunk
  BY DEF IInv, TypeInv, TypeOK, Places, RecoverIndex, Entry
<1>2. IndexTruthful'
  BY <1>1, Entered DEF RecoverIndex, IInv, Named, counters
<1>4. stream = "none" /\ ~Running /\ ~Running' /\ ~Counting'
  BY DEF IInv, TypeInv, Places, RecoverIndex, Running, Counting
<1>3. FileInv' /\ ChunksInOrder'
  BY <1>4 DEF RecoverIndex, IInv, FileInv, Lined, Unsure, Exists, ChunksInOrder, writer, counters
<1>5. Numbered'
  BY <1>4 DEF RecoverIndex, IInv, Numbered, Exists, Top, Holding, writer, counters
<1>6. Named'
  BY <1>4 DEF RecoverIndex, IInv, Named, Running, writer, counters
<1>. QED
  BY <1>2, <1>3, <1>5, <1>6 DEF Rest

LEMMA ConstructRest ==
  ASSUME IInv, Construct
  PROVE  Rest'
<1>1. hand = None /\ stream = "none" /\ ~Holding /\ ~Holding'
  BY DEF IInv, TypeInv, Places, Construct, Running, Holding
<1>2. FileInv' /\ ChunksInOrder' /\ IndexTruthful'
  BY <1>1 DEF Construct, IInv, FileInv, Lined, Unsure, Exists, ChunksInOrder, IndexTruthful, store,
              counters
<1>3. Numbered'
  <2>1. NextNumber <= read /\ \A n \in Chunk : Exists(n) <=> n < NextNumber
    BY NextNumberAbove DEF IInv, TypeInv
  <2>. QED
    BY <1>1, <2>1 DEF Construct, IInv, Numbered, Exists, Top, store, counters
<1>4. Named'
  BY DEF Construct, IInv, Named, store, counters
<1>. QED
  BY <1>2, <1>3, <1>4 DEF Rest

LEMMA ReadLineRest ==
  ASSUME IInv, ReadLine
  PROVE  Rest'
<1>1. hand = None /\ Running /\ Running' /\ Counting /\ ~Holding /\ read \in Nat
  BY ChunkConstants DEF IInv, TypeInv, TypeOK, Places, ReadLine, Running, Counting, Holding
<1>2. /\ UNCHANGED <<files, damaged, index, number, stream, records, failed>> /\ read' = read + 1
      /\ at' = "write"
  BY DEF ReadLine, store, writer
<1>3. FileInv'
  <2>1. \A n \in Chunk : \A a \in files[n].lines : a \in Nat /\ a <= read
    BY ChunkConstants DEF IInv, FileInv, Lined, TypeInv, TypeOK, File, Line
  <2>. QED
    BY <1>1, <1>2, <2>1 DEF IInv, FileInv, Lined, Unsure, Exists
<1>4. ChunksInOrder' /\ IndexTruthful'
  BY <1>2 DEF IInv, ChunksInOrder, IndexTruthful
<1>5. Numbered'
  <2>1. PICK k \in Chunk : (\A n \in Chunk : Exists(n) <=> n < k) /\ k <= read
    BY DEF IInv, Numbered
  <2>2. k < read + 1 /\ Top < read + 1 /\ Top <= read /\ \A n \in Chunk : Exists(n) <=> n < Top
    <3>1. Top \in Nat /\ k \in Nat
      BY ChunkConstants DEF IInv, TypeInv, TypeOK, Top, Chunk
    <3>2. Top <= read /\ \A n \in Chunk : Exists(n) <=> n < Top
      BY <1>1 DEF IInv, Numbered
    <3>. QED
      BY <1>1, <2>1, <3>1, <3>2
  <2>3. UNCHANGED Top /\ \A n \in Chunk : Exists(n)' <=> Exists(n)
    BY <1>2 DEF Top, Exists
  <2>4. k <= read' /\ k < read' /\ Top' <= read' /\ Top' < read'
    <3>1. read' = read + 1 /\ Top' = Top
      BY <1>2, <2>3
    <3>2. k <= read + 1 /\ Top <= read + 1
      BY <1>1, <2>2, ChunkConstants DEF IInv, TypeInv, TypeOK, Top, Chunk
    <3>. QED
      BY <2>2, <3>1, <3>2
  <2>. QED
    BY <2>1, <2>2, <2>3, <2>4 DEF Numbered
<1>6. Named'
  BY <1>1, <1>2 DEF IInv, Named, ReadLine
<1>. QED
  BY <1>3, <1>4, <1>5, <1>6 DEF Rest

LEMMA OpenRest ==
  ASSUME IInv, Open
  PROVE  Rest'
<1>1. /\ files \in [Chunk -> File] /\ number \in Chunk /\ stream = "none" /\ hand # None
      /\ Running /\ Running' /\ Counting /\ Holding /\ ~Holding' /\ read \in 0..MaxLines
  BY DEF IInv, TypeInv, TypeOK, Places, Open, Running, Counting, Holding
<1>2. /\ files'[number] = [name |-> "partial", lines |-> {}, synced |-> {}]
      /\ \A n \in Chunk : n # number => files'[n] = files[n]
  BY <1>1 DEF Open
<1>3. number < read /\ \A n \in Chunk : Exists(n) <=> n < number
  BY <1>1 DEF IInv, Numbered, Top
<1>4. /\ UNCHANGED <<damaged, index, number, hand, read, failed>>
      /\ stream' = "open" /\ records' = 0 /\ at' = "append"
  BY DEF Open, counters
<1>5. FileInv'
  BY <1>1, <1>2, <1>4 DEF IInv, FileInv, Lined, Unsure, Exists
<1>6. ChunksInOrder'
  BY <1>1, <1>2 DEF IInv, ChunksInOrder
<1>7. Numbered'
  <2>1. \A n \in Chunk : Exists(n)' <=> n < number + 1
    BY <1>1, <1>2, <1>3, ChunkConstants DEF Exists, Chunk
  <2>2. number + 1 <= read /\ number + 1 \in Chunk
    BY <1>1, <1>3, ChunkConstants DEF Chunk
  <2>. QED
    BY <1>1, <1>4, <2>1, <2>2 DEF Numbered, Top
<1>8. IndexTruthful'
  <2>1. ~Exists(number)
    BY <1>1, <1>3, ChunkConstants DEF Chunk
  <2>2. \A i \in 1..Len(index) : index[i].chunk # number /\ index[i].chunk \in Chunk
    BY <1>1, <2>1, NotEntered DEF Exists
  <2>. QED
    BY <1>2, <1>4, <2>2 DEF IInv, IndexTruthful
<1>9. Named'
  <2>1. \A n \in Chunk : files[n].name # "partial"
    BY <1>1 DEF IInv, Named
  <2>2. Cardinality({}) = 0
    BY FS_EmptySet
  <2>3. records' = Cardinality(files'[number].lines) /\ damaged' \subseteq failed'
        /\ files'[number].name = "partial"
    BY <1>2, <1>4, <2>2 DEF IInv, Named
  <2>4. records' <= Cardinality(files'[number].lines)
    BY <1>4, <2>3
  <2>5. \A n \in Chunk : files'[n].name = "partial" => n = number
    BY <1>2, <2>1
  <2>. QED
    BY <1>4, <2>3, <2>4, <2>5 DEF Named
<1>. QED
  BY <1>5, <1>6, <1>7, <1>8, <1>9 DEF Rest

\* Lines are written to the open chunk, or some of its last ones dropped.
LEMMA WorkRest ==
  ASSUME IInv, AppendLine \/ AppendFails \/ FlushFails
  PROVE  Rest'
<1>1. /\ files \in [Chunk -> File] /\ number \in Chunk /\ stream = "open"
      /\ Running /\ Running' /\ Counting /\ (Holding' => Holding) /\ read \in Nat /\ TypeOK /\ Places
      /\ FileInv /\ files[number].name = "partial" /\ (hand # None => hand = read)
  BY ChunkConstants DEF IInv, TypeInv, TypeOK, Places, Named, AppendLine, AppendFails, FlushFails, Escape,
                        Running, Counting, Holding
<1>2. /\ \A n \in Chunk : n # number => files'[n] = files[n]
      /\ files'[number].name = "partial" /\ files' \in [Chunk -> File]
      /\ Fresh \subseteq Line /\ \A a \in Fresh : a = read
      /\ files'[number].synced \subseteq files'[number].lines
      /\ files'[number].lines \subseteq files[number].lines \cup Fresh
  BY <1>1, Worked
<1>3. /\ UNCHANGED <<index, number, read>> /\ hand' = None /\ at' \in {"loop", "dead"}
      /\ stream' \in {"open", "closed"} /\ failed' \in {failed, failed \cup {number}}
      /\ damaged' \in {damaged, damaged \cup {number}}
  BY <1>1, Worked DEF AppendLine, AppendFails, FlushFails, Escape, counters
<1>4. \A n \in Chunk : Exists(n)' <=> Exists(n)
  BY <1>1, <1>2 DEF Exists
<1>5. FileInv'
  <2>1. SUFFICES ASSUME NEW n \in Chunk PROVE Lined(n)'
    BY DEF FileInv
  <2>2. CASE n # number
    BY <1>1, <1>2, <1>3, <1>4, <2>2 DEF FileInv, Lined, Unsure
  <2>3. CASE n = number
    <3>1. Unsure(n)'
      BY <1>2, <1>3, <2>3 DEF Unsure
    <3>2. \A a \in files'[n].lines : a <= read'
      BY <1>1, <1>2, <1>3, <2>3 DEF FileInv, Lined
    <3>. QED
      BY <1>2, <1>3, <2>3, <3>1, <3>2 DEF Lined, Exists
  <2>. QED
    BY <2>2, <2>3
<1>6. ChunksInOrder'
  <2>1. SUFFICES ASSUME NEW m \in Chunk, NEW n \in Chunk, m < n,
                        NEW a \in files[m].lines \cup (IF m = number THEN Fresh ELSE {}),
                        NEW b \in files[n].lines \cup (IF n = number THEN Fresh ELSE {})
                 PROVE  a < b
    BY <1>2 DEF ChunksInOrder
  <2>2. m # number \/ files[n].lines = {}
    <3>1. SUFFICES ASSUME m = number PROVE ~Exists(n)
      BY DEF IInv, FileInv, Lined
    <3>2. ~(n < Top)
      BY <1>1, <2>1, <3>1, ChunkConstants DEF Top, Chunk
    <3>. QED
      BY <1>1, <3>2 DEF IInv, Numbered
  <2>3. CASE m = number
    BY <2>1, <2>2, <2>3, ChunkConstants DEF Chunk
  <2>4. CASE m # number /\ b \in files[n].lines
    BY <2>1, <2>4 DEF IInv, ChunksInOrder
  <2>5. CASE m # number /\ b \in Fresh
    <3>1. b = read /\ hand # None
      BY <1>1, <1>2, <2>5 DEF Fresh, Places
    <3>. QED
      BY <1>1, <2>1, <2>5, <3>1 DEF FileInv, Lined
  <2>. QED
    BY <2>1, <2>3, <2>4, <2>5
<1>7. Numbered'
  <2>1. Top' = Top /\ Counting'
    BY <1>1, <1>3 DEF Top, Counting
  <2>. QED
    BY <1>1, <1>3, <1>4, <2>1 DEF IInv, Numbered
<1>8. IndexTruthful'
  <2>1. \A i \in 1..Len(index) : index[i].chunk # number /\ index[i].chunk \in Chunk
    BY <1>1, NotEntered
  <2>. QED
    BY <1>2, <1>3, <2>1 DEF IInv, IndexTruthful
<1>9. /\ number \notin failed' => records' = Cardinality(files'[number].lines)
      /\ number \notin damaged' => records' <= Cardinality(files'[number].lines)
      /\ damaged' \subseteq failed'
  <2>1. /\ files[number].lines \in SUBSET Line /\ files'[number].lines \in SUBSET Line
        /\ Fresh \cap files[number].lines = {}
        /\ number \notin damaged' =>
              number \notin damaged /\ files'[number].lines = files[number].lines \cup Fresh
    BY <1>1, <1>2, Worked DEF File
  <2>2. /\ Cardinality(files[number].lines) \in Nat /\ Cardinality(files'[number].lines) \in Nat
        /\ IsFiniteSet(files[number].lines) /\ records \in Nat
    BY <1>1, <2>1, LinesFinite, ChunkConstants DEF TypeOK
  <2>3. /\ number \notin failed => records = Cardinality(files[number].lines)
        /\ number \notin damaged => records <= Cardinality(files[number].lines)
        /\ damaged \subseteq failed
    BY <1>1 DEF IInv, Named
  <2>4. ASSUME at = "append", number \notin damaged'
        PROVE  Cardinality(files'[number].lines) = Cardinality(files[number].lines) + 1
    <3>1. files'[number].lines = files[number].lines \cup {hand} /\ hand \notin files[number].lines
      BY <2>1, <2>4 DEF Fresh
    <3>. QED
      BY <2>2, <3>1, FS_AddElement
  <2>5. CASE AppendLine
    <3>1. at = "append" /\ records' = records + 1 /\ damaged' = damaged /\ failed' = failed
      BY <2>5 DEF AppendLine, counters
    <3>. QED
      BY <2>2, <2>3, <2>4, <3>1
  <2>6. CASE AppendFails
    <3>1. at = "append" /\ records' \in {records, records + 1} /\ failed' = failed \cup {number}
      BY <2>6 DEF AppendFails
    <3>. QED
      BY <1>3, <2>1, <2>2, <2>3, <2>4, <3>1
  <2>7. CASE FlushFails
    <3>1. Fresh = {} /\ records' = records /\ failed' = failed \cup {number}
      BY <2>7 DEF FlushFails, Fresh
    <3>. QED
      BY <1>3, <2>1, <2>3, <3>1
  <2>. QED
    BY <2>5, <2>6, <2>7
<1>10. Named'
  BY <1>1, <1>2, <1>3, <1>9 DEF IInv, Named
<1>. QED
  BY <1>5, <1>6, <1>7, <1>8, <1>10 DEF Rest

LEMMA FlushRest ==
  ASSUME IInv, Flush
  PROVE  Rest'
<1>1. /\ files \in [Chunk -> File] /\ number \in Chunk /\ stream = "open"
      /\ Running /\ Running' /\ Counting /\ (Holding' <=> Holding)
  BY DEF IInv, TypeInv, TypeOK, Places, Flush, Running, Counting, Holding
<1>2. /\ \A n \in Chunk : n # number => files'[n] = files[n]
      /\ files'[number].name = files[number].name /\ files'[number].lines = files[number].lines
      /\ files'[number].synced = files[number].lines
  BY <1>1 DEF Flush, File
<1>3. /\ UNCHANGED <<damaged, index, number, records, hand, read, failed>>
      /\ stream' = "closed" /\ at' = "replace"
  BY DEF Flush, counters
<1>4. files[number].name = "partial"
  BY <1>1 DEF IInv, Named
<1>5. \A n \in Chunk : Exists(n)' <=> Exists(n)
  BY <1>2 DEF Exists
<1>6. FileInv'
  BY <1>1, <1>2, <1>3, <1>5 DEF IInv, FileInv, Lined, Unsure
<1>7. ChunksInOrder'
  <2>1. \A n \in Chunk : files'[n].lines = files[n].lines
    BY <1>2
  <2>. QED
    BY <2>1 DEF IInv, ChunksInOrder
<1>8. Numbered'
  BY <1>1, <1>3, <1>5 DEF IInv, Numbered, Top
<1>9. IndexTruthful'
  <2>1. \A i \in 1..Len(index) : index[i].chunk # number /\ index[i].chunk \in Chunk
    BY <1>1, <1>4, NotEntered
  <2>. QED
    BY <1>2, <1>3, <2>1 DEF IInv, IndexTruthful
<1>10. Named'
  BY <1>1, <1>2, <1>3, <1>4 DEF IInv, Named
<1>. QED
  BY <1>6, <1>7, <1>8, <1>9, <1>10 DEF Rest

LEMMA ReplaceRest ==
  ASSUME IInv, Replace
  PROVE  Rest'
<1>1. /\ files \in [Chunk -> File] /\ number \in Chunk /\ stream = "closed"
      /\ Running /\ Running' /\ Counting /\ (Holding' <=> Holding)
      /\ files[number].name = "partial"
  BY DEF IInv, TypeInv, TypeOK, Places, Named, Replace, writer, Running, Counting, Holding
<1>2. /\ \A n \in Chunk : n # number => files'[n] = files[n]
      /\ files'[number].name = "final" /\ files'[number].lines = files[number].lines
      /\ files'[number].synced = files[number].synced
  BY <1>1 DEF Replace, Rename, File
<1>3. UNCHANGED <<damaged, index, number, stream, records, hand, read, failed>> /\ at' = "index"
  BY DEF Replace, writer, counters
<1>4. files[number].synced = files[number].lines
  BY <1>1 DEF IInv, FileInv, Lined, Unsure, Replace
<1>5. \A n \in Chunk : Exists(n)' <=> Exists(n)
  BY <1>1, <1>2 DEF Exists
<1>6. FileInv'
  BY <1>1, <1>2, <1>3, <1>4, <1>5 DEF IInv, FileInv, Lined, Unsure
<1>7. ChunksInOrder'
  <2>1. \A n \in Chunk : files'[n].lines = files[n].lines
    BY <1>2
  <2>. QED
    BY <2>1 DEF IInv, ChunksInOrder
<1>8. Numbered'
  BY <1>1, <1>3, <1>5 DEF IInv, Numbered, Top
<1>9. \A i \in 1..Len(index) : index[i].chunk # number /\ index[i].chunk \in Chunk
  BY <1>1, NotEntered
<1>10. IndexTruthful'
  BY <1>2, <1>3, <1>9 DEF IInv, IndexTruthful
<1>11. number \notin Indexed'
  BY <1>3, <1>9 DEF Indexed
<1>12. Named'
  BY <1>1, <1>2, <1>3, <1>11 DEF IInv, Named
<1>. QED
  BY <1>6, <1>7, <1>8, <1>10, <1>12 DEF Rest

LEMMA IndexRest ==
  ASSUME IInv, Index
  PROVE  Rest'
<1> DEFINE e == [chunk |-> number, name |-> "final", records |-> records]
<1>1. /\ e \in Entry /\ number \in Chunk /\ stream = "closed" /\ Running /\ Running'
      /\ files[number].name = "final" /\ number \notin Indexed
      /\ number \notin failed => records = Cardinality(files[number].lines)
      /\ number \notin damaged => records <= Cardinality(files[number].lines)
      /\ \A n \in Chunk : files[n].synced = files[n].lines
  BY DEF IInv, TypeInv, TypeOK, Places, Named, FileInv, Lined, Unsure, Index, Running, Entry
<1>2. IndexTruthful'
  BY <1>1, Entered DEF Index, counters
<1>3. FileInv' /\ ChunksInOrder'
  BY <1>1 DEF Index, IInv, FileInv, Lined, Exists, ChunksInOrder, counters
<1>4. Holding' <=> Holding
  BY DEF Index, Holding
<1>5. Numbered'
  <2>1. Counting' => Counting /\ Top' = Top
    BY <1>1 DEF Index, Top, Counting, Running, IInv, TypeInv, Places
  <2>. QED
    BY <1>1, <1>4, <2>1 DEF Index, IInv, Numbered, Exists, counters
<1>6. Named'
  BY <1>1 DEF Index, IInv, Named, counters
<1>. QED
  BY <1>2, <1>3, <1>5, <1>6 DEF Rest

\* The writer of a dead process or thread leaves a beginning of its chunk.
LEMMA AbandonFiles ==
  ASSUME IInv, Abandon
  PROVE  \A n \in Chunk :
            /\ files'[n].name = files[n].name
            /\ files'[n].lines \subseteq files[n].lines
            /\ files'[n].synced = files'[n].lines
            /\ files[n].synced = files[n].lines => files'[n] = files[n]
            /\ files[n].synced \subseteq files'[n].lines
            /\ n # number => files'[n] = files[n]
            /\ \A a \in files'[n].lines, b \in files[n].lines : b < a => b \in files'[n].lines
<1>1. files \in [Chunk -> File] /\ number \in Chunk
  BY DEF IInv, TypeInv, TypeOK
<1>2. \A n \in Chunk : files[n].synced \subseteq files[n].lines
  BY DEF IInv, FileInv, Lined
<1>3. \A n \in Chunk : n # number \/ stream = "none" => files[n].synced = files[n].lines
  BY DEF IInv, FileInv, Lined, Unsure
<1>4. CASE stream = "none"
  BY <1>3, <1>4 DEF Abandon
<1>5. ASSUME NEW newest \in Line \cup {0}, Cut(number, newest)
      PROVE  \A n \in Chunk :
            /\ files'[n].name = files[n].name
            /\ files'[n].lines \subseteq files[n].lines
            /\ files'[n].synced = files'[n].lines
            /\ files[n].synced = files[n].lines => files'[n] = files[n]
            /\ files[n].synced \subseteq files'[n].lines
            /\ n # number => files'[n] = files[n]
            /\ \A a \in files'[n].lines, b \in files[n].lines : b < a => b \in files'[n].lines
  <2> DEFINE left == Beginning(files[number].lines, newest)
  <2>1. /\ files[number].synced \subseteq left /\ left \subseteq files[number].lines
        /\ files' = [files EXCEPT ![number].lines = left, ![number].synced = left]
    BY <1>5 DEF Cut, Beginning
  <2>2. \A a \in left, b \in files[number].lines : b < a => b \in left
    <3>1. \A a \in files[number].lines : a \in Nat
      BY <1>1, ChunkConstants DEF File, Line
    <3>2. newest \in Nat
      BY ChunkConstants DEF Line
    <3>. QED
      BY <3>1, <3>2 DEF Beginning
  <2> HIDE DEF left
  <2>3. /\ \A n \in Chunk : n # number => files'[n] = files[n]
        /\ files'[number].name = files[number].name
        /\ files'[number].lines = left /\ files'[number].synced = left
    BY <1>1, <2>1 DEF File
  <2>4. files[number].synced = files[number].lines => files'[number] = files[number]
    <3>1. SUFFICES ASSUME files[number].synced = files[number].lines
                   PROVE  files'[number] = files[number]
      OBVIOUS
    <3>2. left = files[number].lines /\ left = files[number].synced
      BY <2>1, <3>1
    <3>. QED
      BY <1>1, <2>1, <3>2 DEF File
  <2>. QED
    BY <1>3, <2>1, <2>2, <2>3, <2>4
<1>. QED
  BY <1>4, <1>5 DEF Abandon

LEMMA AbandonRest ==
  ASSUME IInv, Abandon, Forgotten, UNCHANGED <<damaged, index, read, failed>>, hand' = None,
         at' \in {"down", "finished"}
  PROVE  Rest'
<1>1. ~Running' /\ ~Counting' /\ ~Holding' /\ stream' = "none"
  BY DEF Running, Counting, Holding, Forgotten
<1>2. \A n \in Chunk : Exists(n)' <=> Exists(n)
  BY AbandonFiles DEF Exists
<1>3. FileInv'
  BY <1>1, <1>2, AbandonFiles DEF IInv, FileInv, Lined
<1>4. ChunksInOrder'
  BY AbandonFiles DEF IInv, ChunksInOrder
<1>5. Numbered'
  BY <1>1, <1>2 DEF IInv, Numbered
<1>6. Named'
  BY <1>1 DEF IInv, Named
<1>7. IndexTruthful'
  <2>1. SUFFICES ASSUME NEW i \in 1..Len(index)
                 PROVE  files'[index[i].chunk].name = files[index[i].chunk].name
                        /\ (index[i].name = "final" =>
                             files'[index[i].chunk] = files[index[i].chunk])
    BY DEF IInv, IndexTruthful
  <2>2. index[i].chunk \in Chunk
    BY EntriesTyped DEF IInv, TypeInv
  <2>3. index[i].name = "final" => files[index[i].chunk].synced = files[index[i].chunk].lines
    BY DEF IInv, IndexTruthful
  <2>. QED
    BY <2>2, <2>3, AbandonFiles
<1>. QED
  BY <1>3, <1>4, <1>5, <1>6, <1>7 DEF Rest

LEMMA StepRest == IInv /\ Next => Rest'
<1> SUFFICES ASSUME IInv, Next PROVE Rest'
  OBVIOUS
<1> USE DEF Running, Counting, Holding
<1>0. Places
  BY DEF IInv, TypeInv
<1>1. CASE Start \/ WriteFirst \/ WriteNext \/ Rotate \/ Stop \/ FlushClosed
  <2>1. /\ UNCHANGED <<files, damaged, index, number, stream, records, read, failed>>
        /\ hand' \in {hand, None} /\ (Holding' => Holding) /\ (Running' => Running)
        /\ (Counting' => Counting) /\ at' \notin {"replace", "index", "recover-index"}
    BY <1>0, <1>1 DEF Places, Start, WriteFirst, WriteNext, Rotate, Stop, FlushClosed, store,
                      writer, counters
  <2>. QED
    BY <2>1, QuietRest
<1>2. CASE OpenFails \/ CloseFails
  <2>1. /\ UNCHANGED <<files, damaged, index, number, stream, records, read, failed>>
        /\ hand' \in {hand, None} /\ (Holding' => Holding) /\ (Running' => Running)
        /\ (Counting' => Counting) /\ at' \notin {"replace", "index", "recover-index"}
    BY <1>0, <1>2 DEF Places, OpenFails, CloseFails, Escape, store, writer
  <2>. QED
    BY <2>1, QuietRest
<1>3. CASE Finish \/ Die
  <2>1. Abandon /\ Forgotten /\ UNCHANGED <<damaged, index, read, failed>> /\ hand' = None
        /\ at' \in {"down", "finished"}
    BY <1>0, <1>3 DEF Places, Finish, Die, counters
  <2>. QED
    BY <2>1, AbandonRest
<1>4. CASE Finished
  BY <1>4 DEF Finished, vars, store, writer, place, counters, Rest, IInv, FileInv, Lined, Unsure, Exists,
              Numbered, Top, Named, Indexed, IndexTruthful, ChunksInOrder
<1>. QED
  BY <1>1, <1>2, <1>3, <1>4, RecoverRest, RecoverIndexRest, ConstructRest, ReadLineRest, OpenRest,
     WorkRest, FlushRest, ReplaceRest, IndexRest
     DEF Next, Service, Recovery, Writing, Closing, Failing

LEMMA Invariance == Spec => []IInv
<1>1. IInv /\ [Next]_vars => IInv'
  <2>1. CASE Next
    BY <2>1, StepTyped, StepCounted, StepRest DEF IInv, Rest
  <2>2. CASE UNCHANGED vars
    BY <2>2 DEF vars, store, writer, place, counters, IInv, TypeInv, TypeOK, Places, Running,
                Counting, Holding, Counted, FileInv, Lined, Unsure, Exists, Numbered, Top, Named, Indexed,
                IndexTruthful, ChunksInOrder
  <2>. QED
    BY <2>1, <2>2
<1>. QED
  BY InitInv, <1>1, PTL DEF Spec

\* Every variable keeps its type.
THEOREM TypeCorrect == Spec => []TypeOK
<1>1. IInv => TypeOK
  BY DEF IInv, TypeInv
<1>. QED
  BY <1>1, Invariance, PTL

\* What an entry of the index says stays true, whichever step of recovering,
\* opening, writing or closing a chunk fails or is the last of a process; and
\* it counts the lines of a chunk whose writing never failed, and no more than
\* there are in one that nothing was dropped from.
THEOREM IndexIsTruthful == Spec => []IndexTruthful
<1>1. IInv => IndexTruthful
  BY DEF IInv
<1>. QED
  BY <1>1, Invariance, PTL

\* Read in the order of their numbers, the chunks give the lines in the order
\* they were read, over every number of sessions.
THEOREM ChunksStayInOrder == Spec => []ChunksInOrder
<1>1. IInv => ChunksInOrder
  BY DEF IInv
<1>. QED
  BY <1>1, Invariance, PTL
-----------------------------------------------------------------------------
(* The record of a source is a RecordLog.                                  *)

Kept == UNION {files[n].lines : n \in Chunk}
Safe == UNION {files[n].synced : n \in Chunk}

LEMMA InitRecord == Init => Record!Init
BY DEF Init, Record!Init

\* A session or a failed call that costs the chunk some of its last lines
\* costs the record the same.
LEMMA Loses ==
  ASSUME IInv, files' \in [Chunk -> File], stream # "none",
         \A n \in Chunk : n # number => files'[n] = files[n],
         files[number].synced \subseteq files'[number].lines,
         files'[number].lines \subseteq files[number].lines,
         files'[number].synced \in {files[number].synced, files'[number].lines},
         \A a \in files'[number].lines, b \in files[number].lines : b < a => b \in files'[number].lines
  PROVE  Record!Lose
<1>1. /\ files \in [Chunk -> File] /\ number \in Chunk
      /\ \A n \in Chunk : n # number => files[n].synced = files[n].lines
      /\ \A n \in Chunk : files[n].synced \subseteq files[n].lines
  BY DEF IInv, TypeInv, TypeOK, FileInv, Lined, Unsure
<1>2. Kept' \in SUBSET Kept /\ Safe \subseteq Kept'
  <2>1. \A n \in Chunk : files'[n].lines \subseteq files[n].lines /\ files[n].synced \subseteq files'[n].lines
    BY <1>1
  <2>. QED
    BY <2>1 DEF Kept, Safe
<1>3. Safe' \in {Safe, Kept'}
  <2>1. CASE files'[number].synced = files[number].synced
    BY <2>1 DEF Safe
  <2>2. CASE files'[number].synced = files'[number].lines
    <3>1. \A n \in Chunk : files'[n].synced = files'[n].lines
      BY <1>1, <2>2
    <3>. QED
      BY <3>1 DEF Safe, Kept
  <2>. QED
    BY <2>1, <2>2
<1>4. ASSUME NEW a \in Kept', NEW b \in Kept, b < a PROVE b \in Kept'
  <2>1. PICK m \in Chunk : a \in files'[m].lines
    BY DEF Kept
  <2>2. PICK n \in Chunk : b \in files[n].lines
    BY DEF Kept
  <2>3. CASE n # number
    BY <2>2, <2>3 DEF Kept
  <2>4. CASE n = number /\ m = number
    BY <1>4, <2>1, <2>2, <2>4 DEF Kept
  <2>5. CASE n = number /\ m # number
    <3>1. a \in files[m].lines /\ Exists(m) /\ a \in Nat /\ b \in Nat
      BY <1>1, <2>1, <2>2, <2>5, ChunkConstants DEF IInv, FileInv, Lined, File, Line
    <3>2. Counting
      BY DEF IInv, TypeInv, Places, Counting, Running
    <3>3. m < n
      BY <2>5, <3>1, <3>2, ChunkConstants DEF IInv, Numbered, Top, Chunk
    <3>. QED
      BY <1>4, <2>2, <3>1, <3>3 DEF IInv, ChunksInOrder
  <2>. QED
    BY <2>3, <2>4, <2>5
<1>. QED
  BY <1>2, <1>3, <1>4 DEF Record!Lose, Kept, Safe

LEMMA StepRecord == IInv /\ IInv' /\ [Next]_vars => [Record!Next]_(Record!vars)
<1> SUFFICES ASSUME IInv, IInv', [Next]_vars
             PROVE  Record!Next \/ (Kept' = Kept /\ Safe' = Safe)
  BY DEF Record!vars, Kept, Safe
<1>1. /\ files \in [Chunk -> File] /\ files' \in [Chunk -> File] /\ number \in Chunk
      /\ \A n \in Chunk : n # number => files[n].synced = files[n].lines
      /\ \A n \in Chunk : files[n].synced \subseteq files[n].lines
  BY DEF IInv, TypeInv, TypeOK, FileInv, Lined, Unsure
<1>2. ASSUME \A n \in Chunk : files'[n].lines = files[n].lines /\ files'[n].synced = files[n].synced
      PROVE  Kept' = Kept /\ Safe' = Safe
  BY <1>2 DEF Kept, Safe
<1>3. CASE AppendLine \/ AppendFails \/ FlushFails
  <2>1. /\ stream = "open" /\ Fresh \subseteq Line /\ \A a \in Fresh : a = hand /\ a = read
        /\ \A n \in Chunk : n # number => files'[n] = files[n]
        /\ files[number].synced \subseteq files'[number].lines
        /\ files'[number].synced \in {files[number].synced, files'[number].lines}
        /\ files'[number].lines \subseteq files[number].lines \cup Fresh
        /\ \A a \in files'[number].lines, b \in files[number].lines : b < a => b \in files'[number].lines
    BY <1>3, Worked DEF IInv, TypeInv
  <2>2. CASE files'[number].lines \subseteq files[number].lines
    BY <1>1, <2>1, <2>2, Loses DEF Record!Next
  <2>3. CASE ~(files'[number].lines \subseteq files[number].lines)
    <3>1. hand \in Fresh /\ hand \in files'[number].lines /\ Fresh = {hand} /\ hand = read /\ hand \in Line
      BY <2>1, <2>3 DEF Fresh
    <3>2. hand # None
      BY <3>1, ChunkConstants DEF Line
    <3>3. \A n \in Chunk : \A k \in files[n].lines : k < hand
      BY <3>1, <3>2 DEF IInv, FileInv, Lined
    <3>4. files'[number].lines = files[number].lines \cup {hand}
      BY <1>1, <2>1, <3>1, <3>3
    <3>5. Kept' = Kept \cup {hand}
      BY <1>1, <2>1, <3>4 DEF Kept
    <3>6. Safe' \in {Safe, Kept'}
      <4>1. CASE files'[number].synced = files[number].synced
        BY <2>1, <4>1 DEF Safe
      <4>2. CASE files'[number].synced = files'[number].lines
        <5>1. \A n \in Chunk : files'[n].synced = files'[n].lines
          BY <1>1, <2>1, <4>2
        <5>. QED
          BY <5>1 DEF Safe, Kept
      <4>. QED
        BY <2>1, <4>1, <4>2
    <3>7. \A k \in Kept : k < hand
      BY <3>3 DEF Kept
    <3>. QED
      BY <3>1, <3>5, <3>6, <3>7 DEF Record!Next, Record!Accept, Kept, Safe
  <2>. QED
    BY <2>2, <2>3
<1>4. CASE Flush
  <2>1. /\ \A n \in Chunk : files'[n].lines = files[n].lines
        /\ \A n \in Chunk : files'[n].synced = files[n].lines
    BY <1>1, <1>4 DEF Flush, File
  <2>2. Kept' = Kept /\ Safe' = Kept
    BY <2>1 DEF Kept, Safe
  <2>. QED
    BY <2>2 DEF Record!Next, Record!Secure, Kept, Safe
<1>5. CASE Finish \/ Die
  <2>1. Abandon
    BY <1>5 DEF Finish, Die
  <2>2. CASE stream = "none"
    BY <1>2, <2>1, <2>2 DEF Abandon
  <2>3. CASE stream # "none"
    BY <1>1, <2>1, <2>3, AbandonFiles, Loses DEF Record!Next
  <2>. QED
    BY <2>2, <2>3
<1>6. CASE Open
  <2>1. files[number].lines = {} /\ files[number].synced = {}
    <3>1. stream = "none" /\ Counting
      BY <1>6 DEF Open, IInv, TypeInv, Places, Counting, Running
    <3>2. ~Exists(number)
      BY <1>1, <3>1, ChunkConstants DEF IInv, Numbered, Top, Chunk
    <3>. QED
      BY <1>1, <3>2 DEF IInv, FileInv, Lined
  <2>2. \A n \in Chunk : files'[n].lines = files[n].lines /\ files'[n].synced = files[n].synced
    BY <1>1, <1>6, <2>1 DEF Open
  <2>. QED
    BY <1>2, <2>2
<1>7. ASSUME NEW n \in Chunk, NEW ending, Rename(n, ending)
      PROVE  Kept' = Kept /\ Safe' = Safe
  BY <1>1, <1>2, <1>7 DEF Rename, File
<1>8. CASE UNCHANGED files
  BY <1>2, <1>8
<1>. QED
  BY <1>1, <1>3, <1>4, <1>5, <1>6, <1>7, <1>8
     DEF Next, Service, Recovery, Writing, Closing, Failing, Start, Recover, RecoverIndex,
         Construct, ReadLine, WriteFirst, WriteNext, Rotate, Stop, FlushClosed, Replace, Index,
         OpenFails, CloseFails, Finished, vars, store

\* Whatever fails, the record of a source keeps its lines in order and loses
\* at most the newest of them, and none that was synced.
THEOREM KeepsARecord == Spec => ImplementsRecordLog
BY InitRecord, StepRecord, Invariance, PTL DEF Spec, ImplementsRecordLog, Record!Spec
-----------------------------------------------------------------------------
(* Chunks that no entry names.                                             *)

\* The chunk the process is about to enter, and those nobody will.
Current == IF at = "index" THEN {number} ELSE IF at = "recover-index" THEN {found} ELSE {}
Holes == Unindexed \ Current

LEMMA HolesFinite ==
  /\ IsFiniteSet(Holes) /\ Cardinality(Holes) \in Nat
  /\ IsFiniteSet(Holes') /\ Cardinality(Holes') \in Nat
<1>1. IsFiniteSet(Chunk)
  BY ChunkConstants, FS_Interval DEF Chunk
<1>2. Holes \in SUBSET Chunk /\ Holes' \in SUBSET Chunk
  BY DEF Holes, Unindexed
<1>. QED
  BY <1>1, <1>2, FS_Subset, FS_CardinalityType

LEMMA OneMore ==
  ASSUME NEW S, IsFiniteSet(S), NEW x
  PROVE  /\ IsFiniteSet(S \cup {x}) /\ Cardinality(S \cup {x}) \in Nat
         /\ Cardinality(S \cup {x}) <= Cardinality(S) + 1
<1>1. Cardinality(S) \in Nat
  BY FS_CardinalityType
<1>2. IsFiniteSet(S \cup {x}) /\ Cardinality(S \cup {x}) \in {Cardinality(S), Cardinality(S) + 1}
  BY FS_AddElement
<1>. QED
  BY <1>1, <1>2

LEMMA CurrentSmall == Current = {} \/ \E x : Current = {x}
BY DEF Current

LEMMA NoMoreHoles ==
  ASSUME Holes' \subseteq Holes
  PROVE  Cardinality(Holes') <= Cardinality(Holes)
BY HolesFinite, FS_Subset

LEMMA OneMoreHole ==
  ASSUME NEW S, S = {} \/ \E x : S = {x}, Holes' \subseteq Holes \cup S
  PROVE  Cardinality(Holes') <= Cardinality(Holes) + 1
<1>1. CASE S = {}
  BY <1>1, HolesFinite, NoMoreHoles
<1>2. CASE \E x : S = {x}
  <2>1. PICK x : S = {x}
    BY <1>2
  <2>2. /\ IsFiniteSet(Holes \cup {x}) /\ Cardinality(Holes \cup {x}) \in Nat
        /\ Cardinality(Holes \cup {x}) <= Cardinality(Holes) + 1
    BY HolesFinite, OneMore
  <2>3. Cardinality(Holes') <= Cardinality(Holes \cup {x})
    BY <2>1, <2>2, FS_Subset
  <2>. QED
    BY <2>2, <2>3, HolesFinite
<1>. QED
  BY <1>1, <1>2

\* Each hole has cost a death or a fault.
HoleInv == Cardinality(Holes) <= deaths + faults

LEMMA StepHoles ==
  ASSUME IInv, HoleInv, Next
  PROVE  HoleInv'
<1>0. deaths \in Nat /\ faults \in Nat /\ files \in [Chunk -> File] /\ index \in Seq(Entry) /\ number \in Chunk
  BY ChunkConstants DEF IInv, TypeInv, TypeOK
<1>1. ASSUME Holes' \subseteq Holes, UNCHANGED <<deaths, faults>>
      PROVE  HoleInv'
  BY <1>0, <1>1, NoMoreHoles, HolesFinite DEF HoleInv
<1>2. ASSUME Holes' \subseteq Holes \cup Current,
             (deaths' = deaths + 1 /\ faults' = faults) \/ (deaths' = deaths /\ faults' = faults + 1)
      PROVE  HoleInv'
  <2>1. Cardinality(Holes') <= Cardinality(Holes) + 1
    BY <1>2, OneMoreHole, CurrentSmall
  <2>. QED
    BY <1>0, <1>2, <2>1, HolesFinite DEF HoleInv
<1>3. ASSUME UNCHANGED index, \A n \in Chunk : files'[n].name = files[n].name
      PROVE  Unindexed' = Unindexed
  BY <1>3 DEF Unindexed, Indexed
<1>4. CASE \E n \in Chunk : Recover(n)
  <2>1. PICK n \in Chunk : Recover(n)
    BY <1>4
  <2>2. /\ \A m \in Chunk : m # n => files'[m] = files[m]
        /\ found' = n /\ at' = "recover-index" /\ UNCHANGED <<index, deaths, faults>> /\ at = "recover"
    BY <1>0, <2>1 DEF Recover, Rename, counters
  <2>3. Holes' \subseteq Holes
    BY <2>2 DEF Holes, Unindexed, Indexed, Current
  <2>. QED
    BY <1>1, <2>2, <2>3
<1>5. CASE RecoverIndex \/ Index
  <2> DEFINE n == IF at = "index" THEN number ELSE found
             e == IF at = "index" THEN [chunk |-> number, name |-> "final", records |-> records]
                                  ELSE [chunk |-> found, name |-> "incomplete", records |-> None]
  <2>1. /\ Current = {n} /\ index' = Append(index, e) /\ e.chunk = n
        /\ UNCHANGED <<files, deaths, faults>>
        /\ at' \notin {"index", "recover-index"}
    BY <1>5 DEF RecoverIndex, Index, Current, counters
  <2>2. Indexed' = Indexed \cup {n}
    <3>1. /\ Len(index') = Len(index) + 1 /\ Len(index) \in Nat /\ index'[Len(index) + 1] = e
          /\ \A i \in 1..Len(index) : index'[i] = index[i]
      BY <1>0, <2>1
    <3>2. ASSUME NEW i \in 1..Len(index') PROVE i \in 1..Len(index) \/ i = Len(index) + 1
      BY <3>1
    <3>3. 1..Len(index) \subseteq 1..Len(index') /\ Len(index) + 1 \in 1..Len(index')
      BY <3>1
    <3>. QED
      BY <2>1, <3>1, <3>2, <3>3 DEF Indexed
  <2>3. Holes' \subseteq Holes
    BY <2>1, <2>2 DEF Holes, Unindexed, Current
  <2>. QED
    BY <1>1, <2>1, <2>3
<1>6. CASE Open
  <2>1. /\ \A m \in Chunk : m # number => files'[m] = files[m]
        /\ files'[number].name = "partial"
        /\ UNCHANGED <<index, deaths, faults>> /\ at = "open" /\ at' = "append"
    BY <1>0, <1>6 DEF Open, counters
  <2>2. Holes' \subseteq Holes
    BY <2>1 DEF Holes, Unindexed, Indexed, Current
  <2>. QED
    BY <1>1, <2>1, <2>2
<1>7. CASE Replace
  <2>1. /\ \A m \in Chunk : m # number => files'[m] = files[m]
        /\ UNCHANGED <<index, number, deaths, faults>> /\ at = "replace" /\ at' = "index"
    BY <1>0, <1>7 DEF Replace, Rename, writer, counters
  <2>2. Holes' \subseteq Holes
    BY <2>1 DEF Holes, Unindexed, Indexed, Current
  <2>. QED
    BY <1>1, <2>1, <2>2
<1>8. CASE Failing
  <2>1. /\ UNCHANGED <<index, deaths>> /\ faults' = faults + 1 /\ at' \in {"dead", "loop"}
        /\ \A n \in Chunk : files'[n].name = files[n].name
    <3>1. CASE OpenFails \/ CloseFails
      BY <3>1 DEF OpenFails, CloseFails, Fail, Escape, store
    <3>2. CASE AppendFails \/ FlushFails
      <4>1. \A n \in Chunk : files'[n].name = files[n].name
        BY <3>2, Worked DEF IInv, TypeInv
      <4>. QED
        BY <3>2, <4>1 DEF AppendFails, FlushFails, Fail, Escape
    <3>. QED
      BY <1>8, <3>1, <3>2 DEF Failing
  <2>2. Holes' \subseteq Holes \cup Current
    BY <1>3, <2>1 DEF Holes, Current
  <2>. QED
    BY <1>2, <2>1, <2>2
<1>9. CASE Die \/ Finish
  <2>1. \A n \in Chunk : files'[n].name = files[n].name
    <3>1. Abandon
      BY <1>9 DEF Die, Finish
    <3>2. CASE stream = "none"
      BY <3>1, <3>2 DEF Abandon
    <3>3. CASE stream # "none"
      <4>1. PICK newest \in Line \cup {0} : Cut(number, newest)
        BY <3>1, <3>3 DEF Abandon
      <4>. QED
        BY <1>0, <4>1 DEF Cut, File
    <3>. QED
      BY <3>2, <3>3
  <2>2. UNCHANGED index /\ at' \in {"down", "finished"}
    BY <1>9 DEF Die, Finish
  <2>3. Holes' \subseteq Holes \cup Current
    BY <1>3, <2>1, <2>2 DEF Holes, Current
  <2>4. CASE Die
    BY <1>2, <2>3, <2>4 DEF Die
  <2>5. CASE Finish
    <3>1. Current = {} /\ UNCHANGED <<deaths, faults>>
      BY <2>5 DEF Finish, Current, counters
    <3>. QED
      BY <1>1, <2>3, <3>1
  <2>. QED
    BY <1>9, <2>4, <2>5
<1>10. CASE Flush \/ AppendLine
  <2>1. \A n \in Chunk : files'[n].name = files[n].name
    <3>1. CASE Flush
      BY <1>0, <3>1 DEF Flush, File
    <3>2. CASE AppendLine
      BY <3>2, Worked DEF IInv, TypeInv
    <3>. QED
      BY <1>10, <3>1, <3>2
  <2>2. UNCHANGED <<index, deaths, faults>> /\ at' \in {"replace", "loop"} /\ at \in {"flush", "append"}
    BY <1>10 DEF Flush, AppendLine, counters
  <2>3. Holes' \subseteq Holes
    BY <1>3, <2>1, <2>2 DEF Holes, Current
  <2>. QED
    BY <1>1, <2>2, <2>3
<1>11. CASE Start \/ Construct \/ ReadLine \/ WriteFirst \/ WriteNext \/ Rotate \/ Stop \/ FlushClosed \/ Finished
  <2>1. /\ UNCHANGED <<files, index, deaths, faults>>
        /\ at' \notin {"index", "recover-index"} \/ UNCHANGED <<at, number, found>>
        /\ at \notin {"index", "recover-index"} \/ UNCHANGED <<at, number, found>>
    BY <1>11 DEF Start, Construct, ReadLine, WriteFirst, WriteNext, Rotate, Stop, FlushClosed, Finished,
                 store, writer, place, counters, vars
  <2>2. Holes' \subseteq Holes
    BY <1>3, <2>1 DEF Holes, Current
  <2>. QED
    BY <1>1, <2>1, <2>2
<1>. QED
  BY <1>4, <1>5, <1>6, <1>7, <1>8, <1>9, <1>10, <1>11
     DEF Next, Service, Recovery, Writing, Closing

\* Every chunk the index does not name is accounted for by a death, by a
\* failed append, or by the entry that is being made.
THEOREM HolesAreAccounted == Spec => []HolesAccounted
<1>1. Init => HoleInv
  <2>. SUFFICES ASSUME Init PROVE HoleInv
    OBVIOUS
  <2>1. Holes = {}
    BY DEF Init, Holes, Unindexed
  <2>. QED
    BY <2>1, FS_EmptySet DEF Init, HoleInv
<1>2. IInv /\ HoleInv /\ [Next]_vars => HoleInv'
  <2>. SUFFICES ASSUME IInv, HoleInv, UNCHANGED vars PROVE HoleInv'
    BY StepHoles
  <2>1. UNCHANGED <<files, index, at, number, found, deaths, faults>>
    BY DEF vars, store, writer, place, counters
  <2>. QED
    BY <2>1 DEF HoleInv, Holes, Unindexed, Indexed, Current
<1>3. IInv /\ HoleInv => HolesAccounted
  <2>. SUFFICES ASSUME IInv, HoleInv PROVE HolesAccounted
    OBVIOUS
  <2>1. deaths \in Nat /\ faults \in Nat
    BY ChunkConstants DEF IInv, TypeInv, TypeOK
  <2>2. CASE at \in {"index", "recover-index"}
    <3>1. PICK x : Current = {x}
      BY <2>2 DEF Current
    <3>2. Unindexed \subseteq Holes \cup {x}
      BY <3>1 DEF Holes
    <3>3. /\ IsFiniteSet(Holes \cup {x}) /\ Cardinality(Holes \cup {x}) \in Nat
          /\ Cardinality(Holes \cup {x}) <= Cardinality(Holes) + 1
      BY HolesFinite, OneMore
    <3>4. Cardinality(Unindexed) <= Cardinality(Holes \cup {x}) /\ Cardinality(Unindexed) \in Nat
      BY <3>2, <3>3, FS_Subset, FS_CardinalityType
    <3>. QED
      BY <2>1, <2>2, <3>3, <3>4, HolesFinite DEF HoleInv, HolesAccounted
  <2>3. CASE at \notin {"index", "recover-index"}
    <3>1. Unindexed = Holes
      BY <2>3 DEF Holes, Current
    <3>. QED
      BY <2>1, <2>3, <3>1, HolesFinite DEF HoleInv, HolesAccounted
  <2>. QED
    BY <2>2, <2>3
<1>. QED
  BY <1>1, <1>2, <1>3, Invariance, PTL DEF Spec
=============================================================================

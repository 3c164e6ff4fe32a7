---------------------------- MODULE RecordLog -----------------------------
(***************************************************************************)
(* What the raw record of a source promises, without files or chunks: the  *)
(* lines it keeps are kept in the order they were read; a failure costs at *)
(* most the newest of them, and never one that had been made safe.         *)
(***************************************************************************)
EXTENDS Naturals

CONSTANT Line  \* the lines read, numbered

VARIABLES
  kept,  \* the lines on record
  safe   \* those that no failure can take

vars == <<kept, safe>>

Init == kept = {} /\ safe = {}

\* A line newer than every line on record.
Accept(line) ==
  /\ \A k \in kept : k < line
  /\ kept' = kept \cup {line}
  /\ safe' \in {safe, kept'}

Secure ==
  /\ kept' = kept
  /\ safe' = kept

\* What is left is a beginning of what there was.
Lose ==
  /\ kept' \in SUBSET kept
  /\ \A a \in kept', b \in kept : b < a => b \in kept'
  /\ safe \subseteq kept'
  /\ safe' \in {safe, kept'}

Next ==
  \/ \E line \in Line : Accept(line)
  \/ Secure
  \/ Lose

Spec == Init /\ [][Next]_vars
=============================================================================

---------------------------- MODULE DurableStore ----------------------------
(***************************************************************************)
(* What store.Store promises to the handlers that use it, without a file,  *)
(* a dirty flag or a process: readers see a log of operations, a restart   *)
(* brings back an earlier point of that log, and never one before an       *)
(* operation that was reported as done.                                    *)
(***************************************************************************)
EXTENDS Sequences

CONSTANT Op

VARIABLES
  shown,     \* the operations readers see
  kept,      \* the operations a restart would bring back
  promised   \* the operations reported as done

vars == <<shown, kept, promised>>

Init ==
  /\ shown = <<>>
  /\ kept = <<>>
  /\ promised = {}

\* A change in memory: a booking, or a change whose write failed.
Serve(op) ==
  /\ shown' = Append(shown, op)
  /\ UNCHANGED <<kept, promised>>

\* A change written before it is reported as done.
Promise(op) ==
  /\ shown' = Append(shown, op)
  /\ kept' = shown'
  /\ promised' = promised \cup {op}

\* Whatever readers see is written.
Keep ==
  /\ kept' = shown
  /\ UNCHANGED <<shown, promised>>

\* The process is gone: readers see what was written.
Recover ==
  /\ shown' = kept
  /\ UNCHANGED <<kept, promised>>

\* The medium fails, which no code prevents: what was written is gone, and
\* seen no longer either unless a process still has it in memory.
Lose ==
  /\ kept' = <<>>
  /\ promised' = {}
  /\ shown' \in {shown, <<>>}

Next ==
  \/ \E op \in Op : Serve(op) \/ Promise(op)
  \/ Keep
  \/ Recover
  \/ Lose

Spec == Init /\ [][Next]_vars
=============================================================================

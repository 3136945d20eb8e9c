--------------------------- MODULE SampleStream ---------------------------
(***************************************************************************)
(* What a reader of a kernel sampling buffer is promised, whatever the     *)
(* size of the buffer and wherever it wraps around: a stream of data units *)
(* numbered from 0 that it gets once, in order, and as they were written.  *)
(* SampleBuffer implements it, TaskSampling and SelfSampling read it.      *)
(***************************************************************************)
EXTENDS Integers, Sequences

VARIABLES
    written,    \* number of units the kernel published
    consumed,   \* number of units read or skipped
    block       \* the units the latest successful read returned

svars == <<written, consumed, block>>

\* the units from position p up to, not including, position q
Units(p, q) == [i \in 1 .. q - p |-> p + i - 1]

Init == written = 0 /\ consumed = 0 /\ block = <<>>

Publish ==
    /\ written' > written
    /\ written' \in Nat
    /\ UNCHANGED <<consumed, block>>

Read ==
    /\ consumed' \in consumed .. written
    /\ block' = Units(consumed, consumed')
    /\ UNCHANGED written

Skip ==
    /\ consumed' \in consumed .. written
    /\ UNCHANGED <<written, block>>

Next == Publish \/ Read \/ Skip

Spec == Init /\ [][Next]_svars
============================================================================

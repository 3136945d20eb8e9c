--------------------------- MODULE SampleBuffer ---------------------------
(***************************************************************************)
(* The reader of the ring buffer that a perf_events descriptor shares with *)
(* the kernel (src/perf_examples/perf_util.c: perf_read_buffer and         *)
(* perf_skip_buffer), with the kernel writing at the same time.            *)
(*                                                                         *)
(* The two sides share data_head, which the kernel moves, data_tail, which *)
(* the reader moves, and the payload, and no lock.  The steps of a call    *)
(* are its accesses to shared memory, in the order of the source.  Memory  *)
(* is sequentially consistent in the model: the source reads and writes    *)
(* data_head and data_tail without a fence and not as volatile, so that a  *)
(* compiler, or a processor that reorders loads and stores as those of ARM *)
(* and PowerPC do, may act otherwise, and nothing is said of that.  A cell *)
(* of the payload holds the position in the stream of the unit that was    *)
(* last written there.                                                     *)
(***************************************************************************)
EXTENDS Integers, Sequences

CONSTANTS
    Size,       \* pgmsk + 1, the size of the payload
    MaxWrite,   \* bound: largest record
    MaxRequest, \* bound: largest size passed to the two functions
    MaxHead     \* bound: number of units the kernel publishes

ASSUME BufferAssumption ==
    /\ Size \in Nat \ {0}
    /\ MaxWrite \in Nat
    /\ MaxRequest \in Nat
    /\ MaxHead \in Nat

VARIABLES
    head,       \* hdr->data_head
    tail,       \* hdr->data_tail
    filled,     \* end of what the kernel has written and not yet published
    data,       \* the payload
    pc,         \* where the reader is
    want,       \* sz
    buf,        \* the caller's buffer, what is copied so far
    block       \* history: what the latest successful read returned

kernel == <<head, filled, data>>
reader == <<tail, pc, want, buf, block>>
vars == <<kernel, reader>>

\* p & pgmsk
Cell(p) == p % Size

Init ==
    /\ head = 0 /\ filled = 0
    /\ data = [c \in 0 .. Size - 1 |-> -1]
    /\ tail = 0 /\ pc = "idle" /\ want = 0 /\ buf = <<>> /\ block = <<>>

(***************************************************************************)
(* The kernel: reserves room for a record behind the unread data, writes   *)
(* it, and moves data_head over it.                                        *)
(***************************************************************************)
KernelWrite(n) ==
    /\ filled = head
    /\ head + n <= MaxHead
    /\ head + n - tail <= Size
    /\ filled' = head + n
    /\ data' = [c \in 0 .. Size - 1 |->
                    IF \E p \in head .. head + n - 1 : Cell(p) = c
                    THEN CHOOSE p \in head .. head + n - 1 : Cell(p) = c
                    ELSE data[c]]
    /\ UNCHANGED <<head, reader>>

KernelPublish ==
    /\ filled > head
    /\ head' = filled
    /\ UNCHANGED <<filled, data, reader>>

(***************************************************************************)
(* perf_read_buffer.  A call that asks for more than what is available     *)
(* returns -1 and changes nothing.                                         *)
(***************************************************************************)

\* the size of what is available is taken once, before the copy
ReadCall(sz) ==
    /\ pc = "idle"
    /\ sz <= head - tail
    /\ pc' = "copy" /\ want' = sz /\ buf' = <<>>
    /\ UNCHANGED <<kernel, tail, block>>

\* mutant: pgmsk - tail instead of pgmsk + 1 - tail
MutUntilEnd == Size - 1 - Cell(tail)

UntilEnd == Size - Cell(tail)

\* n units of the payload from a cell on
Cells(c, n) == [i \in 1 .. n |-> data[c + i - 1]]

CopyFirst ==
    LET m == IF UntilEnd < want THEN UntilEnd ELSE want IN
    /\ pc = "copy"
    /\ buf' = Cells(Cell(tail), m)
    /\ pc' = IF want > m THEN "rest" ELSE "move"
    /\ UNCHANGED <<kernel, tail, want, block>>

\* the leftover, which wrapped around to the start of the payload
CopyRest ==
    /\ pc = "rest"
    /\ buf' = buf \o Cells(0, want - Len(buf))
    /\ pc' = "move"
    /\ UNCHANGED <<kernel, tail, want, block>>

MoveTail ==
    /\ pc = "move"
    /\ tail' = tail + want
    /\ block' = buf
    /\ pc' = "idle"
    /\ UNCHANGED <<kernel, want, buf>>

(***************************************************************************)
(* perf_skip_buffer: data_head is read for the comparison and again to     *)
(* compute what is left, and the kernel may move it in between.            *)
(***************************************************************************)
\* mutant: what is left is not compared with the request
MutSkipCall(sz) ==
    /\ pc = "idle"
    /\ pc' = "skip"
    /\ want' = sz
    /\ UNCHANGED <<kernel, tail, buf, block>>

SkipCall(sz) ==
    /\ pc = "idle"
    /\ pc' = IF tail + sz > head THEN "clamp" ELSE "skip"
    /\ want' = sz
    /\ UNCHANGED <<kernel, tail, buf, block>>

\* mutant: the operands of the difference are swapped
MutClamp ==
    /\ pc = "clamp"
    /\ want' = tail - head
    /\ pc' = "skip"
    /\ UNCHANGED <<kernel, tail, buf, block>>

Clamp ==
    /\ pc = "clamp"
    /\ want' = head - tail
    /\ pc' = "skip"
    /\ UNCHANGED <<kernel, tail, buf, block>>

SkipEnd ==
    /\ pc = "skip"
    /\ tail' = tail + want
    /\ pc' = "idle"
    /\ UNCHANGED <<kernel, want, buf, block>>

Next ==
    \/ \E n \in 1 .. MaxWrite : KernelWrite(n)
    \/ KernelPublish
    \/ \E sz \in 0 .. MaxRequest : ReadCall(sz)
    \/ CopyFirst
    \/ CopyRest
    \/ MoveTail
    \/ \E sz \in 0 .. MaxRequest : SkipCall(sz)
    \/ Clamp
    \/ SkipEnd

Spec == Init /\ [][Next]_vars

(***************************************************************************)
(* Properties                                                              *)
(***************************************************************************)
TypeOK ==
    /\ head \in Nat /\ tail \in Nat /\ filled \in Nat
    /\ data \in [0 .. Size - 1 -> Int]
    /\ pc \in {"idle", "copy", "rest", "move", "clamp", "skip"}
    /\ want \in Nat
    /\ buf \in Seq(Int) /\ block \in Seq(Int)

\* What the reader has not released yet stays as the kernel wrote it, also
\* while a copy is under way: the kernel reserves room up to data_tail, and
\* perf_read_buffer moves data_tail only when both parts are copied.
Intact ==
    /\ tail <= head /\ head <= filled /\ filled - tail <= Size
    /\ \A p \in tail .. filled - 1 : data[Cell(p)] = p

\* A call in progress has copied the units from data_tail on, in order and
\* across the end of the payload, and takes no more than was available.
Copying ==
    /\ pc \in {"copy", "rest", "move", "skip"} => tail + want <= head
    /\ pc = "rest" => Cell(tail) + want > Size /\ buf = [i \in 1 .. UntilEnd |-> tail + i - 1]
    /\ pc = "move" => buf = [i \in 1 .. want |-> tail + i - 1]

Stream == INSTANCE SampleStream WITH written <- head, consumed <- tail

\* Each successful call of perf_read_buffer returns the next units of the
\* stream, whatever the kernel does in the meantime, and perf_skip_buffer
\* never goes past what is published.
Implements == Stream!Spec
============================================================================

------------------------ MODULE SampleBufferProofs ------------------------
(***************************************************************************)
(* Proofs about the reader of the ring buffer: for a payload of any size,  *)
(* records and requests of any length and any interleaving of the kernel   *)
(* with the steps of a call, the reader gets the stream that was written.  *)
(***************************************************************************)
EXTENDS SampleBuffer, SequenceTheorems, TLAPS

(***************************************************************************)
(* Positions and cells                                                     *)
(***************************************************************************)

\* The remainder of a division is unique.
LEMMA Remainder ==
    ASSUME NEW a \in Int, NEW s \in Nat \ {0}, NEW e \in 0 .. s - 1
    PROVE  (a * s + e) % s = e
<1> DEFINE n == a * s + e
           q == n \div s
           r == n % s
<1>1. n \in Int
  OBVIOUS
<1>2. /\ q \in Int /\ r \in 0 .. s - 1
      /\ n = s * q + r
  BY <1>1
<1> HIDE DEF q, r
<1>3. s * (a - q) = r - e
  BY <1>2
<1>4. a - q < 1
  <2>1. SUFFICES ASSUME a - q >= 1 PROVE FALSE
    BY <1>2
  <2>2. s * (a - q) >= s
    BY <2>1, <1>2
  <2>3. QED
    BY <2>2, <1>2, <1>3
<1>5. a - q > -1
  <2>1. SUFFICES ASSUME q - a >= 1 PROVE FALSE
    BY <1>2
  <2>2. s * (q - a) >= s
    BY <2>1, <1>2
  <2>3. QED
    BY <2>2, <1>2, <1>3
<1>6. a = q
  BY <1>2, <1>4, <1>5
<1>7. r = e
  BY <1>2, <1>3, <1>6
<1>8. QED
  BY <1>7 DEF r

LEMMA Division ==
    ASSUME NEW n \in Nat, NEW s \in Nat \ {0}
    PROVE  n % s \in 0 .. s - 1 /\ \E k \in Int : n = k * s + (n % s)
<1> DEFINE q == n \div s
           r == n % s
<1>1. /\ q \in Int /\ r \in 0 .. s - 1
      /\ n = s * q + r
  OBVIOUS
<1> HIDE DEF q, r
<1>2. n = q * s + r
  BY <1>1
<1>3. r \in 0 .. s - 1 /\ \E k \in Int : n = k * s + r
  BY <1>1, <1>2
<1>4. QED
  BY <1>3 DEF r

\* A position is a number of whole turns and the cell it falls on.
LEMMA Turns ==
    ASSUME NEW p \in Nat
    PROVE  /\ Cell(p) \in 0 .. Size - 1
           /\ \E k \in Int : p = k * Size + Cell(p)
  BY Division, BufferAssumption DEF Cell

\* Going on from a position goes on from its cell, or wraps around.
LEMMA CellPlus ==
    ASSUME NEW p \in Nat, NEW i \in Nat, i < Size
    PROVE  Cell(p + i) = IF Cell(p) + i < Size THEN Cell(p) + i ELSE Cell(p) + i - Size
<1>1. PICK k \in Int : p = k * Size + Cell(p)
  BY Turns
<1>2. Cell(p) \in 0 .. Size - 1 /\ Size \in Nat \ {0}
  BY Turns, BufferAssumption
<1>3. CASE Cell(p) + i < Size
  <2>1. p + i = k * Size + (Cell(p) + i) /\ Cell(p) + i \in 0 .. Size - 1
    BY <1>1, <1>2, <1>3
  <2>2. (k * Size + (Cell(p) + i)) % Size = Cell(p) + i
    BY <2>1, <1>2, Remainder
  <2>3. QED
    BY <2>1, <2>2, <1>3 DEF Cell
<1>4. CASE ~(Cell(p) + i < Size)
  <2>1. p + i = (k + 1) * Size + (Cell(p) + i - Size) /\ Cell(p) + i - Size \in 0 .. Size - 1
    BY <1>1, <1>2, <1>4
  <2>2. ((k + 1) * Size + (Cell(p) + i - Size)) % Size = Cell(p) + i - Size
    BY <2>1, <1>2, Remainder
  <2>3. QED
    BY <2>1, <2>2, <1>4 DEF Cell
<1>5. QED
  BY <1>3, <1>4

\* Positions less than one turn apart fall on different cells.
LEMMA CellInjective ==
    ASSUME NEW p \in Nat, NEW q \in Nat, p < q, q - p < Size
    PROVE  Cell(p) # Cell(q)
<1>1. Cell(p) \in 0 .. Size - 1 /\ Size \in Nat \ {0}
  BY Turns, BufferAssumption
<1>2. q - p \in Nat /\ p + (q - p) = q
  OBVIOUS
<1>3. Cell(q) = IF Cell(p) + (q - p) < Size THEN Cell(p) + (q - p) ELSE Cell(p) + (q - p) - Size
  BY <1>2, CellPlus
<1>4. QED
  BY <1>1, <1>2, <1>3

(***************************************************************************)
(* The invariant                                                           *)
(***************************************************************************)
IInv == TypeOK /\ Intact /\ Copying

LEMMA InitIInv == Init => IInv
<1> SUFFICES ASSUME Init PROVE IInv
  OBVIOUS
<1>1. TypeOK
  BY BufferAssumption DEF Init, TypeOK
<1>2. Intact
  BY BufferAssumption DEF Init, Intact
<1>3. QED
  BY <1>1, <1>2 DEF IInv, Init, Copying

\* The kernel writes only cells that the reader has released.
LEMMA KernelWriteIInv ==
    ASSUME NEW n \in 1 .. MaxWrite, IInv, KernelWrite(n)
    PROVE  IInv'
<1> USE DEF IInv
<1> DEFINE new == head .. head + n - 1
<1>0. /\ head \in Nat /\ tail \in Nat /\ filled = head /\ filled' = head + n /\ n \in Nat \ {0}
      /\ tail <= head /\ head + n - tail <= Size /\ Size \in Nat \ {0} /\ UNCHANGED <<head, tail>>
  BY BufferAssumption DEF KernelWrite, TypeOK, Intact, reader
<1>1. \A p \in new : data'[Cell(p)] = p
  <2> SUFFICES ASSUME NEW p \in new PROVE data'[Cell(p)] = p
    OBVIOUS
  <2>1. p \in Nat /\ Cell(p) \in 0 .. Size - 1
    BY <1>0, Turns
  <2>2. \A q \in new : Cell(q) = Cell(p) => q = p
    <3> SUFFICES ASSUME NEW q \in new, q # p PROVE Cell(q) # Cell(p)
      OBVIOUS
    <3>1. q \in Nat /\ (p < q \/ q < p) /\ p - q < Size /\ q - p < Size
      BY <1>0
    <3>2. CASE p < q
      BY <2>1, <3>1, <3>2, CellInjective
    <3>3. CASE q < p
      BY <2>1, <3>1, <3>3, CellInjective
    <3>4. QED
      BY <3>1, <3>2, <3>3
  <2>3. data'[Cell(p)] = CHOOSE q \in new : Cell(q) = Cell(p)
    BY <2>1 DEF KernelWrite
  <2>4. QED
    BY <2>2, <2>3
<1>2. \A p \in tail .. head - 1 : data'[Cell(p)] = data[Cell(p)]
  <2> SUFFICES ASSUME NEW p \in tail .. head - 1 PROVE data'[Cell(p)] = data[Cell(p)]
    OBVIOUS
  <2>1. p \in Nat /\ Cell(p) \in 0 .. Size - 1
    BY <1>0, Turns
  <2>2. ASSUME NEW q \in new PROVE Cell(q) # Cell(p)
    <3>1. q \in Nat /\ p < q /\ q - p < Size
      BY <1>0
    <3>2. QED
      BY <2>1, <3>1, CellInjective
  <2>3. QED
    BY <2>1, <2>2 DEF KernelWrite
<1>3. data' \in [0 .. Size - 1 -> Int]
  <2> SUFFICES ASSUME NEW c \in 0 .. Size - 1, \E p \in new : Cell(p) = c
               PROVE  (CHOOSE p \in new : Cell(p) = c) \in Int
    BY DEF KernelWrite, TypeOK
  <2>1. (CHOOSE p \in new : Cell(p) = c) \in new
    OBVIOUS
  <2>2. QED
    BY <2>1, <1>0
<1>4. TypeOK'
  <2>1. UNCHANGED <<head, tail, pc, want, buf, block>>
    BY DEF KernelWrite, reader
  <2>2. filled' \in Nat
    BY <1>0
  <2>3. QED
    BY <2>1, <2>2, <1>3 DEF TypeOK
<1>5. Intact'
  <2>1. \A p \in tail .. filled' - 1 : data'[Cell(p)] = p
    BY <1>0, <1>1, <1>2 DEF Intact
  <2>2. QED
    BY <1>0, <2>1 DEF Intact, Cell
<1>6. Copying'
  BY <1>0 DEF Copying, KernelWrite, reader, UntilEnd, Cell
<1>7. QED
  BY <1>4, <1>5, <1>6

\* A copy takes the units from data_tail on, up to the end of the payload.
LEMMA FirstPart ==
    ASSUME IInv, NEW m \in Nat, m <= UntilEnd, tail + m <= head
    PROVE  Cells(Cell(tail), m) = [i \in 1 .. m |-> tail + i - 1]
<1>1. tail \in Nat /\ head \in Nat /\ filled \in Nat /\ head <= filled /\ Size \in Nat \ {0} /\ Cell(tail) \in 0 .. Size - 1
  BY Turns, BufferAssumption DEF IInv, TypeOK, Intact
<1>2. ASSUME NEW i \in 1 .. m PROVE data[Cell(tail) + i - 1] = tail + i - 1
  <2>1. i - 1 \in Nat /\ i - 1 < Size /\ Cell(tail) + (i - 1) < Size
    BY <1>1 DEF UntilEnd
  <2>2. Cell(tail + (i - 1)) = Cell(tail) + (i - 1)
    BY <1>1, <2>1, CellPlus
  <2>3. tail + (i - 1) \in tail .. filled - 1
    BY <1>1
  <2>4. data[Cell(tail + (i - 1))] = tail + (i - 1)
    BY <2>3 DEF IInv, Intact
  <2>5. Cell(tail) + i - 1 = Cell(tail) + (i - 1) /\ tail + i - 1 = tail + (i - 1)
    BY <1>1
  <2>6. QED
    BY <2>2, <2>4, <2>5
<1>3. QED
  BY <1>2 DEF Cells

\* The leftover is at the start of the payload.
LEMMA SecondPart ==
    ASSUME IInv, pc = "rest"
    PROVE  buf \o Cells(0, want - Len(buf)) = [i \in 1 .. want |-> tail + i - 1]
<1> DEFINE u == UntilEnd
           rest == Cells(0, want - u)
<1>1. /\ tail \in Nat /\ head \in Nat /\ filled \in Nat /\ want \in Nat /\ Size \in Nat \ {0}
      /\ Cell(tail) \in 0 .. Size - 1 /\ tail + want <= head /\ head <= filled /\ filled - tail <= Size
      /\ Cell(tail) + want > Size /\ buf = [i \in 1 .. u |-> tail + i - 1]
  BY Turns, BufferAssumption DEF IInv, TypeOK, Intact, Copying
<1>2. u \in 1 .. Size /\ u = Size - Cell(tail) /\ u < want
  BY <1>1 DEF UntilEnd
<1>3. Len(buf) = u
  BY <1>1, <1>2
<1>4. ASSUME NEW j \in 1 .. want - u PROVE data[0 + j - 1] = tail + (u + j) - 1
  <2>1. u + j - 1 \in Nat /\ u + j - 1 < Size /\ Cell(tail) + (u + j - 1) >= Size
    BY <1>1, <1>2
  <2>2. Cell(tail + (u + j - 1)) = Cell(tail) + (u + j - 1) - Size
    BY <1>1, <2>1, CellPlus
  <2>3. tail + (u + j - 1) \in tail .. filled - 1
    BY <1>1, <1>2
  <2>4. data[Cell(tail + (u + j - 1))] = tail + (u + j - 1)
    BY <2>3 DEF IInv, Intact
  <2>5. Cell(tail) + (u + j - 1) - Size = 0 + j - 1 /\ tail + (u + j - 1) = tail + (u + j) - 1
    BY <1>1, <1>2
  <2>6. QED
    BY <2>2, <2>4, <2>5
<1>5. rest = [j \in 1 .. want - u |-> tail + (u + j) - 1]
  BY <1>4 DEF Cells
<1> HIDE DEF u, rest
<1>6. buf \o rest = [i \in 1 .. want |-> tail + i - 1]
  <2> DEFINE all == [i \in 1 .. want |-> tail + i - 1]
  <2>0. u \in Nat /\ want - u \in Nat /\ u + (want - u) = want
    BY <1>1, <1>2
  <2>1. buf \in Seq(Int) /\ Len(buf) = u /\ rest \in Seq(Int) /\ Len(rest) = want - u
    <3>1. buf \in Seq(Int) /\ Len(buf) = u
      BY <1>1, <2>0
    <3>2. \A j \in 1 .. want - u : tail + (u + j) - 1 \in Int
      BY <1>1, <2>0
    <3>3. rest \in Seq(Int) /\ Len(rest) = want - u
      BY <1>5, <2>0, <3>2
    <3>4. QED
      BY <3>1, <3>3
  <2>2. all \in Seq(Int) /\ Len(all) = want
    BY <1>1
  <2>3. /\ buf \o rest \in Seq(Int) /\ Len(buf \o rest) = want
        /\ \A i \in 1 .. want : (buf \o rest)[i] = IF i <= u THEN buf[i] ELSE rest[i - u]
    <3>1. /\ buf \o rest \in Seq(Int) /\ Len(buf \o rest) = Len(buf) + Len(rest)
          /\ \A i \in 1 .. Len(buf) + Len(rest) : (buf \o rest)[i] = IF i <= Len(buf) THEN buf[i] ELSE rest[i - Len(buf)]
      BY <2>1, ConcatProperties
    <3>2. Len(buf) + Len(rest) = want
      BY <2>0, <2>1
    <3>3. QED
      BY <2>1, <3>1, <3>2
  <2>4. ASSUME NEW i \in 1 .. want PROVE (buf \o rest)[i] = all[i]
    <3>1. CASE i <= u
      <4>1. (buf \o rest)[i] = buf[i] /\ i \in 1 .. u
        BY <2>0, <2>3, <2>4, <3>1
      <4>2. QED
        BY <4>1, <1>1
    <3>2. CASE ~(i <= u)
      <4>1. (buf \o rest)[i] = rest[i - u] /\ i - u \in 1 .. want - u
        BY <2>0, <2>3, <2>4, <3>2
      <4>2. rest[i - u] = tail + (u + (i - u)) - 1
        BY <4>1, <1>5
      <4>3. u + (i - u) = i
        BY <1>2, <1>1
      <4>4. QED
        BY <4>1, <4>2, <4>3
    <3>3. QED
      BY <3>1, <3>2
  <2>5. QED
    BY <2>2, <2>3, <2>4, SeqEqual
<1>7. QED
  BY <1>3, <1>6 DEF u, rest

LEMMA NextIInv == IInv /\ [Next]_vars => IInv'
<1> SUFFICES ASSUME IInv, [Next]_vars PROVE IInv'
  OBVIOUS
<1>0. /\ tail \in Nat /\ head \in Nat /\ filled \in Nat /\ want \in Nat /\ Size \in Nat \ {0}
      /\ Cell(tail) \in 0 .. Size - 1 /\ tail <= head /\ head <= filled /\ filled - tail <= Size
  BY Turns, BufferAssumption DEF IInv, TypeOK, Intact
<1>1. ASSUME NEW n \in 1 .. MaxWrite, KernelWrite(n) PROVE IInv'
  BY <1>1, KernelWriteIInv
<1>2. CASE KernelPublish
  BY <1>0, <1>2 DEF IInv, KernelPublish, reader, TypeOK, Intact, Copying, UntilEnd, Cell
<1>3. ASSUME NEW sz \in 0 .. MaxRequest, ReadCall(sz) PROVE IInv'
  <2>1. TypeOK' /\ Intact'
    BY <1>0, <1>3, BufferAssumption DEF IInv, ReadCall, kernel, TypeOK, Intact, Cell
  <2>2. Copying'
    BY <1>0, <1>3, BufferAssumption DEF ReadCall, kernel, Copying
  <2>3. QED
    BY <2>1, <2>2 DEF IInv
<1>4. CASE CopyFirst
  <2> DEFINE m == IF UntilEnd < want THEN UntilEnd ELSE want
  <2>1. UntilEnd \in Nat /\ UntilEnd' = UntilEnd /\ UntilEnd = Size - Cell(tail)
    BY <1>0, <1>4 DEF CopyFirst, kernel, UntilEnd, Cell
  <2>2. m \in Nat /\ m <= UntilEnd /\ tail + m <= head
    BY <1>0, <1>4, <2>1 DEF CopyFirst, IInv, Copying
  <2>3. Cells(Cell(tail), m) = [i \in 1 .. m |-> tail + i - 1]
    BY <2>2, FirstPart
  <2>4. buf' = [i \in 1 .. m |-> tail + i - 1]
    BY <2>3, <1>4 DEF CopyFirst
  <2>5. buf' \in Seq(Int)
    BY <2>4, <2>2, <1>0
  <2>6. TypeOK' /\ Intact'
    BY <2>5, <1>0, <1>4 DEF IInv, CopyFirst, kernel, TypeOK, Intact, Cell
  <2>7. Copying'
    BY <2>1, <2>4, <1>0, <1>4 DEF IInv, CopyFirst, kernel, Copying, Cell
  <2>8. QED
    BY <2>6, <2>7 DEF IInv
<1>5. CASE CopyRest
  <2>1. buf' = [i \in 1 .. want |-> tail + i - 1]
    BY <1>5, SecondPart DEF CopyRest
  <2>2. buf' \in Seq(Int)
    BY <2>1, <1>0
  <2>3. TypeOK' /\ Intact'
    BY <2>2, <1>0, <1>5 DEF IInv, CopyRest, kernel, TypeOK, Intact, Cell
  <2>4. Copying'
    BY <2>1, <1>0, <1>5 DEF IInv, CopyRest, kernel, Copying, Cell
  <2>5. QED
    BY <2>3, <2>4 DEF IInv
<1>6. CASE MoveTail \/ SkipEnd
  <2>1. tail + want <= head /\ tail' = tail + want /\ pc' = "idle" /\ UNCHANGED <<kernel, want, buf>>
        /\ block' \in {buf, block}
    BY <1>6 DEF IInv, MoveTail, SkipEnd, Copying
  <2>2. UNCHANGED <<head, filled, data, want, buf>> /\ tail' \in Nat /\ tail <= tail' /\ tail' <= head
    BY <2>1, <1>0 DEF kernel
  <2>3. block' \in Seq(Int)
    BY <2>1 DEF IInv, TypeOK
  <2>4. TypeOK'
    BY <2>1, <2>2, <2>3 DEF IInv, TypeOK
  <2>5. Intact'
    <3>1. \A p \in tail .. filled - 1 : data[Cell(p)] = p
      BY DEF IInv, Intact
    <3>2. head' = head /\ filled' = filled /\ data' = data
      BY <2>2
    <3>3. tail \in Nat /\ tail' \in Nat /\ filled \in Nat /\ tail <= tail'
      BY <2>2, <1>0
    <3>4. head \in Nat /\ Size \in Nat /\ tail' <= head /\ head <= filled /\ filled - tail <= Size
      <4>1. head \in Nat /\ head <= filled /\ filled - tail <= Size
        BY <1>0
      <4>2. Size \in Nat
        BY BufferAssumption
      <4>3. QED
        BY <4>1, <4>2, <2>2
    <3>5. tail' <= head /\ head <= filled /\ filled - tail' <= Size
      <4>1. ASSUME NEW t \in Nat, tail <= t PROVE filled - t <= Size
        BY <3>3, <3>4, <4>1
      <4>2. QED
        BY <4>1, <3>3, <3>4, Zenon
    <3>6. \A p \in tail' .. filled - 1 : p \in tail .. filled - 1
      BY <3>3
    <3>7. \A p \in tail' .. filled' - 1 : data'[Cell(p)] = p
      BY <3>2, <3>1, <3>6, Zenon
    <3>8. tail' <= head' /\ head' <= filled' /\ filled' - tail' <= Size
      BY <3>2, <3>5, Zenon
    <3>9. QED
      BY <3>7, <3>8 DEF Intact, Cell
  <2>6. QED
    BY <2>1, <2>4, <2>5 DEF IInv, Copying
<1>7. ASSUME NEW sz \in 0 .. MaxRequest, SkipCall(sz) PROVE IInv'
  <2>1. TypeOK' /\ Intact'
    BY <1>0, <1>7, BufferAssumption DEF IInv, SkipCall, kernel, TypeOK, Intact, Cell
  <2>2. Copying'
    BY <1>0, <1>7, BufferAssumption DEF SkipCall, kernel, Copying
  <2>3. QED
    BY <2>1, <2>2 DEF IInv
<1>8. CASE Clamp
  BY <1>0, <1>8 DEF IInv, Clamp, kernel, TypeOK, Intact, Copying, Cell
<1>9. CASE UNCHANGED vars
  BY <1>9 DEF IInv, vars, kernel, reader, TypeOK, Intact, Copying, UntilEnd, Cell
<1>10. QED
  BY <1>1, <1>2, <1>3, <1>4, <1>5, <1>6, <1>7, <1>8, <1>9 DEF Next

LEMMA Invariance == Spec => []IInv
  BY InitIInv, NextIInv, PTL DEF Spec

(***************************************************************************)
(* Theorems                                                                *)
(***************************************************************************)

\* The variables keep their types, for a payload of any size.
THEOREM TypeCorrect == Spec => []TypeOK
<1>1. IInv => TypeOK
  BY DEF IInv
<1>2. QED
  BY <1>1, Invariance, PTL

\* The kernel never writes over what the reader has not released: unread data
\* stays intact while perf_read_buffer copies it.
THEOREM UnreadIntact == Spec => []Intact
<1>1. IInv => Intact
  BY DEF IInv
<1>2. QED
  BY <1>1, Invariance, PTL

\* A copy under way holds the next units of the stream, also when it wraps
\* around the end of the payload.
THEOREM CopyInOrder == Spec => []Copying
<1>1. IInv => Copying
  BY DEF IInv
<1>2. QED
  BY <1>1, Invariance, PTL

\* The ring buffer implements the stream: perf_read_buffer returns each unit
\* once, in order and as it was written, and perf_skip_buffer stays within
\* what is published.
THEOREM BufferIsStream == Spec => Implements
<1>1. Init => Stream!Init
  BY DEF Init, Stream!Init
<1>2. IInv /\ [Next]_vars => [Stream!Next]_Stream!svars
  <2> SUFFICES ASSUME IInv, [Next]_vars PROVE Stream!Next \/ UNCHANGED Stream!svars
    OBVIOUS
  <2> USE DEF Stream!svars
  <2>0. /\ tail \in Nat /\ head \in Nat /\ filled \in Nat /\ want \in Nat /\ tail <= head /\ head <= filled
    BY DEF IInv, TypeOK, Intact
  <2>1. CASE KernelPublish
    <3>1. Stream!Publish
      BY <2>0, <2>1 DEF KernelPublish, reader, Stream!Publish
    <3>2. QED
      BY <3>1 DEF Stream!Next
  <2>2. CASE MoveTail
    <3>1. tail + want <= head /\ tail' = tail + want /\ block' = [i \in 1 .. want |-> tail + i - 1] /\ UNCHANGED head
      BY <2>2 DEF IInv, Copying, MoveTail, kernel
    <3>2. tail' - tail = want /\ tail' \in tail .. head
      BY <3>1, <2>0
    <3>3. Stream!Units(tail, tail') = [i \in 1 .. want |-> tail + i - 1]
      BY <3>2 DEF Stream!Units
    <3>4. Stream!Read
      BY <3>1, <3>2, <3>3 DEF Stream!Read
    <3>5. QED
      BY <3>4 DEF Stream!Next
  <2>3. CASE SkipEnd
    <3>1. Stream!Skip
      BY <2>0, <2>3 DEF IInv, Copying, SkipEnd, kernel, Stream!Skip
    <3>2. QED
      BY <3>1 DEF Stream!Next
  <2>4. ASSUME \/ \E n \in 1 .. MaxWrite : KernelWrite(n)
               \/ \E sz \in 0 .. MaxRequest : ReadCall(sz) \/ SkipCall(sz)
               \/ CopyFirst \/ CopyRest \/ Clamp
               \/ UNCHANGED vars
        PROVE  UNCHANGED Stream!svars
    BY <2>4 DEF KernelWrite, ReadCall, SkipCall, CopyFirst, CopyRest, Clamp, vars, kernel, reader
  <2>5. QED
    BY <2>1, <2>2, <2>3, <2>4 DEF Next
<1>3. QED
  BY <1>1, <1>2, Invariance, PTL DEF Implements, Spec, Stream!Spec
============================================================================

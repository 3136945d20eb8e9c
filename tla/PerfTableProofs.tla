-------------------------- MODULE PerfTableProofs --------------------------
(***************************************************************************)
(* Proofs about PerfTable, for every size of the tables and every number   *)
(* of directories, entries and sessions.                                   *)
(***************************************************************************)
EXTENDS PerfTable, TLAPS

(***************************************************************************)
(* The inductive invariant.  Position relates the event being filled to    *)
(* the counts; Current says what holds of it before it counts; Blocks says *)
(* what is allocated while the table is in use.                            *)
(***************************************************************************)
Filling == pc \in {"entries", "close"}

Position ==
    /\ Filling => pe = "heap" /\ p = nevents /\ peFree = nevents + 1 /\ numasks <= entries
    /\ (pc = "scan" /\ pe = "heap" /\ ~err /\ reuse) => p = nevents
    /\ (pe = "heap" /\ pc \in {"scan", "entries", "close", "up"}) => peFree <= NStatic + dirs
    /\ nevents >= NStatic

InlineNamed(i, n) == \A j \in 0 .. Lesser(n, MaxInline) - 1 : InlineName(session, i, j) \in heap

Current ==
    Filling =>
        /\ NameOf(session, p) \in heap
        /\ InlineNamed(p, numasks)
        /\ numasks > MaxInline => ev[p].ovfl # NoIdx
        /\ numasks < MaxInline => ev[p].ovfl = NoIdx

Blocks ==
    /\ (pc # "down" /\ pe = "heap") =>
          /\ PeBlock(session) \in heap
          /\ \A i \in Tracepoint : InlineNamed(i, ev[i].numasks)
    /\ um => pe = "heap" /\ pc # "down" /\ UmBlock(session) \in heap

\* Every event that counts has its unit masks and its name.
Counted ==
    (pc # "down" /\ pe = "heap") =>
        \A i \in Tracepoint : Shaped(i) /\ NameOf(session, i) \in heap

IInv == TypeOK /\ InBounds /\ Position /\ Current /\ Counted /\ Blocks

\* the numbers of TypeOK, for arithmetic
LEMMA Numbers ==
    ASSUME TypeOK
    PROVE  /\ nevents \in Nat /\ peFree \in Nat /\ peEnd \in Nat /\ peCount \in Nat
           /\ umFree \in Nat /\ umEnd \in Nat /\ umCount \in Nat
           /\ dirs \in Nat /\ dirs <= MaxDirs /\ entries \in Nat /\ entries <= MaxEntries
           /\ p \in Nat /\ numasks \in Nat /\ session \in Nat /\ session <= MaxSessions
           /\ NStatic \in Nat /\ MaxDirs \in Nat /\ MaxEntries \in Nat /\ MaxSessions \in Nat
           /\ AllocEvents \in Nat \ {0} /\ AllocUmasks \in Nat \ {0} /\ MaxInline \in Nat \ {0}
  BY PerfAssumption DEF PerfAssumption, TypeOK, Slot

LEMMA InitInv == Init => IInv
<1> SUFFICES ASSUME Init PROVE IInv
  OBVIOUS
<1> USE PerfAssumption DEF PerfAssumption
<1>1. ev \in [Slot -> Event] /\ owner \in [UmSlot -> Slot \cup {NoIdx}]
  BY DEF Init, Blank, Event, NoIdx
<1>2. TypeOK
  <2>1. 0 \in Slot /\ 0 \in 0 .. MaxSessions /\ 0 \in 0 .. MaxDirs /\ 0 \in 0 .. MaxEntries
    BY DEF Slot
  <2> QED
    BY <1>1, <2>1 DEF Init, TypeOK
<1>3. InBounds
  BY DEF Init, InBounds
<1>4. Position /\ Current /\ Counted /\ Blocks
  BY DEF Init, Position, Current, Counted, Blocks, Filling
<1> QED
  BY <1>2, <1>3, <1>4 DEF IInv

LEMMA InitStaticStep ==
    ASSUME IInv, InitStatic
    PROVE  IInv'
<1>1. TypeOK'
  BY Numbers, PerfAssumption DEF PerfAssumption, IInv, TypeOK, InitStatic, umasks, scan
<1>2. pc' = "up" /\ pe' = "static" /\ nevents' = NStatic /\ umFree' = umFree /\ umEnd' = umEnd
      /\ umCount' = umCount /\ um' = FALSE
  BY DEF IInv, TypeOK, Blocks, InitStatic, umasks
<1>3. InBounds'
  BY <1>2 DEF IInv, InBounds
<1>4. Position' /\ Current' /\ Counted' /\ Blocks'
  BY <1>2, PerfAssumption DEF PerfAssumption, Position, Current, Counted, Blocks, Filling
<1> QED
  BY <1>1, <1>3, <1>4 DEF IInv

LEMMA InitScanStep ==
    ASSUME IInv, NEW cloned \in BOOLEAN, NEW clear \in BOOLEAN, InitScan(cloned, clear)
    PROVE  IInv'
<1>1. /\ pc' = "scan" /\ session' = session + 1 /\ session < MaxSessions /\ pc = "down"
      /\ nevents' = NStatic /\ peCount' = NStatic + AllocEvents
      /\ dirs' = 0 /\ entries' = 0 /\ p' = 0 /\ reuse' = FALSE /\ numasks' = 0 /\ err' = FALSE
      /\ umFree' = umFree /\ umEnd' = umEnd /\ umCount' = umCount /\ um' = um /\ owner' = owner /\ early' = early
  BY DEF InitScan, umasks
<1>2. um' = FALSE
  BY <1>1 DEF IInv, TypeOK, Blocks
<1>3. \/ /\ pe' = "heap" /\ peFree' = NStatic /\ peEnd' = NStatic + AllocEvents
         /\ ev' = [i \in Slot |-> Blank(clear \/ i < NStatic + AllocEvents)]
         /\ PeBlock(session') \in heap'
      \/ pe' = "static" /\ peFree' = peFree /\ peEnd' = peEnd /\ ev' = ev
  BY <1>1 DEF InitScan
<1>4. TypeOK'
  <2>1. ev' \in [Slot -> Event]
    <3>1. 0 \in 0 .. MaxEntries /\ ev \in [Slot -> Event]
      BY Numbers DEF IInv, TypeOK
    <3>2. \A z \in BOOLEAN : Blank(z) \in Event
      BY <3>1 DEF Blank, Event, NoIdx
    <3>3. ASSUME NEW i \in Slot PROVE Blank(clear \/ i < NStatic + AllocEvents) \in Event
      <4>1. (clear \/ i < NStatic + AllocEvents) \in BOOLEAN
        OBVIOUS
      <4> QED
        BY <4>1, <3>2
    <3>4. ev' = [i \in Slot |-> Blank(clear \/ i < NStatic + AllocEvents)] \/ ev' = ev
      BY <1>3
    <3> QED
      BY <3>1, <3>3, <3>4
  <2>n. TypeOK
    BY DEF IInv
  <2>2. peFree' \in Nat /\ peEnd' \in Nat /\ peCount' \in Nat /\ nevents' \in Nat
    <3>1. peFree' \in {NStatic, peFree} /\ peEnd' \in {NStatic + AllocEvents, peEnd}
      BY <1>3
    <3> QED
      BY <1>1, <3>1, <2>n, Numbers
  <2>3. session' \in 0 .. MaxSessions
    BY <1>1, <2>n, Numbers
  <2>5. dirs' \in 0 .. MaxDirs /\ entries' \in 0 .. MaxEntries /\ numasks' \in 0 .. MaxEntries /\ p' \in Slot
    BY <1>1, <2>n, Numbers DEF Slot
  <2>4. failed' \in BOOLEAN /\ pe' \in {"static", "heap", "null"}
    BY <1>3 DEF InitScan, IInv, TypeOK
  <2> QED
    BY <1>1, <2>1, <2>2, <2>3, <2>4, <2>5 DEF IInv, TypeOK
<1>5. InBounds'
  BY <1>1, <1>3, Numbers DEF IInv, InBounds
<1>6. Position' /\ Current'
  BY <1>1, <1>3, Numbers DEF IInv, Position, Current, Filling
<1>7. Tracepoint' = {}
  BY <1>1, Numbers DEF IInv, Tracepoint
<1>8. Counted' /\ Blocks'
  BY <1>1, <1>2, <1>3, <1>7 DEF Counted, Blocks, PeBlock
<1> QED
  BY <1>4, <1>5, <1>6, <1>8 DEF IInv

(***************************************************************************)
(* The next directory                                                      *)
(***************************************************************************)

\* the slot of its event: the one given back, or the one at perf_pe_free
LEMMA OpenDirStep ==
    ASSUME IInv, OpenDir
    PROVE  IInv'
<1>n. TypeOK /\ InBounds /\ Position
  BY DEF IInv
<1>1. /\ pc = "scan" /\ pe = "heap" /\ err = FALSE /\ dirs' = dirs + 1 /\ dirs < MaxDirs
      /\ session' = session /\ pe' = pe /\ nevents' = nevents /\ early' = early
      /\ um' = um /\ umFree' = umFree /\ umEnd' = umEnd /\ umCount' = umCount /\ owner' = owner
  BY <1>n DEF OpenDir, NextDir, umasks, TypeOK
<1>2. /\ nevents >= NStatic /\ peFree <= NStatic + dirs /\ nevents <= peFree /\ peFree <= peEnd /\ peEnd <= peCount
      /\ peFree = nevents + (IF reuse THEN 1 ELSE 0)
      /\ reuse => p = nevents
  BY <1>1, <1>n DEF InBounds, Position
<1>3. /\ Fill(nevents) \/ NoName(nevents)
      /\ peFree' = nevents + 1
      /\ peFree' <= peEnd' /\ peEnd' <= peCount'
      /\ peEnd' \in Nat /\ peCount' \in Nat
  <2>1. CASE reuse
    BY <2>1, <1>n, <1>2, Numbers DEF OpenDir
  <2>2. CASE ~reuse
    <3>1. peFree = nevents
      BY <2>2, <1>2, <1>n, Numbers
    <3>2. Fill(nevents) \/ NoName(nevents)
      BY <2>2, <3>1 DEF OpenDir
    <3>3. TakeEvent(~RoomForEvent)
      BY <2>2 DEF OpenDir
    <3>4. CASE RoomForEvent
      BY <3>1, <3>2, <3>3, <3>4, <1>2, <1>n, Numbers DEF TakeEvent, RoomForEvent
    <3>5. CASE ~RoomForEvent
      BY <3>1, <3>2, <3>3, <3>5, <1>2, <1>n, Numbers DEF TakeEvent, RoomForEvent
    <3> QED
      BY <3>4, <3>5
  <2> QED
    BY <2>1, <2>2
<1>4. nevents \in Slot /\ nevents + 1 <= NStatic + dirs'
  BY <1>1, <1>2, <1>n, Numbers DEF Slot
<1>5. p' = nevents
  BY <1>3 DEF Fill, NoName
<1>6. heap \subseteq heap'
  BY <1>3 DEF Fill, NoName
<1>7. /\ ev' \in [Slot -> Event]
      /\ \A i \in Tracepoint : ev'[i] = ev[i]
  <2>1. ev \in [Slot -> Event]
    BY <1>n DEF TypeOK
  <2>2. ev' = ev \/ ev' = [ev EXCEPT ![nevents].ovfl = NoIdx]
    BY <1>3 DEF Fill, NoName
  <2>3. [ev[nevents] EXCEPT !.ovfl = NoIdx] \in Event
    BY <2>1, <1>4 DEF Event, NoIdx
  <2>4. nevents \notin Tracepoint /\ Tracepoint \subseteq Slot
    BY <1>4, <1>n, Numbers DEF Tracepoint, Slot
  <2> QED
    BY <2>1, <2>2, <2>3, <2>4, <1>4
<1>8. TypeOK'
  <2>1. dirs' \in 0 .. MaxDirs /\ peFree' \in Nat
    BY <1>1, <1>3, <1>n, Numbers
  <2>2. /\ pc' \in {"scan", "entries"} /\ reuse' \in BOOLEAN /\ err' \in BOOLEAN /\ failed' \in BOOLEAN
        /\ numasks' \in {0, numasks} /\ entries' \in {0, entries}
    BY <1>1, <1>3, <1>n DEF Fill, NoName, TypeOK
  <2>3. numasks' \in 0 .. MaxEntries /\ entries' \in 0 .. MaxEntries
    <3>1. 0 \in 0 .. MaxEntries /\ numasks \in 0 .. MaxEntries /\ entries \in 0 .. MaxEntries
      BY <1>n, Numbers DEF TypeOK
    <3> QED
      BY <2>2, <3>1
  <2> QED
    BY <1>1, <1>3, <1>4, <1>5, <1>7, <1>n, <2>1, <2>2, <2>3 DEF TypeOK
<1>9. InBounds'
  <2>1. pc' = "scan" => err'
    BY <1>3 DEF Fill, NoName
  <2> QED
    BY <1>1, <1>2, <1>3, <1>n, <2>1, Numbers DEF InBounds
<1>10. Position'
  <2>1. pc' = "scan" => err'
    BY <1>3 DEF Fill, NoName
  <2>2. pc' # "scan" => pc' = "entries" /\ numasks' = 0 /\ entries' = 0
    BY <1>1, <1>3 DEF Fill, NoName
  <2> QED
    BY <1>1, <1>2, <1>3, <1>4, <1>5, <2>1, <2>2 DEF Position, Filling
<1>11. Current'
  <2>1. CASE NoName(nevents)
    <3>1. pc' = "scan"
      BY <1>1, <2>1 DEF NoName
    <3> QED
      BY <3>1 DEF Current, Filling
  <2>2. CASE Fill(nevents)
    <3>1. numasks' = 0 /\ NameOf(session, nevents) \in heap'
      BY <2>2 DEF Fill
    <3>2. ev'[nevents].ovfl = NoIdx
      BY <2>2, <1>4, <1>n DEF Fill, TypeOK, Event
    <3>3. Lesser(0, MaxInline) = 0
      BY <1>n, Numbers DEF Lesser
    <3>4. InlineNamed(p, numasks)'
      BY <3>1, <3>3 DEF InlineNamed, Lesser
    <3> QED
      BY <1>1, <1>5, <3>1, <3>2, <3>4, <1>n, Numbers DEF Current, NameOf
  <2> QED
    BY <1>3, <2>1, <2>2
<1>12. Tracepoint' = Tracepoint
  BY <1>1 DEF Tracepoint
<1>13. Counted'
  <2>1. \A i \in Tracepoint : Shaped(i) /\ NameOf(session, i) \in heap
    BY <1>1 DEF IInv, Counted
  <2>2. \A i \in Tracepoint : Shaped(i)' /\ NameOf(session', i) \in heap'
    BY <2>1, <1>1, <1>6, <1>7 DEF Shaped
  <2> QED
    BY <2>2, <1>12 DEF Counted, Shaped, NameOf
<1>14. Blocks'
  <2>1. PeBlock(session) \in heap /\ (\A i \in Tracepoint : InlineNamed(i, ev[i].numasks)) /\ (um => UmBlock(session) \in heap)
    BY <1>1 DEF IInv, Blocks
  <2>2. \A i \in Tracepoint : \A j \in 0 .. Lesser(ev'[i].numasks, MaxInline) - 1 : InlineName(session', i, j) \in heap'
    BY <2>1, <1>1, <1>6, <1>7 DEF InlineNamed
  <2>3. pc' # "down"
    BY <1>1, <1>3 DEF Fill, NoName
  <2> QED
    BY <2>1, <2>2, <2>3, <1>1, <1>6, <1>12 DEF Blocks, InlineNamed, PeBlock, UmBlock
<1> QED
  BY <1>8, <1>9, <1>10, <1>11, <1>13, <1>14 DEF IInv

\* no slot: the scan ends, with the count already raised
LEMMA NoSlotStep ==
    ASSUME IInv, OpenDirNoMemory \/ OpenDirNoTable
    PROVE  IInv'
<1>n. TypeOK /\ InBounds /\ Position
  BY DEF IInv
<1>1. /\ pc = "scan" /\ err = FALSE /\ dirs' = dirs + 1 /\ dirs < MaxDirs
      /\ session' = session /\ pe' = pe /\ nevents' = nevents /\ peFree' = peFree /\ peEnd' = peEnd /\ ev' = ev
      /\ um' = um /\ umFree' = umFree /\ umEnd' = umEnd /\ umCount' = umCount /\ owner' = owner /\ early' = early
      /\ entries' = entries /\ p' = p /\ reuse' = reuse /\ numasks' = numasks /\ err' = err
      /\ peCount' \in {peCount, peCount + AllocEvents} /\ failed' \in {failed, TRUE}
      /\ heap \subseteq heap'
      /\ (pc' = "up" /\ pe = "heap") \/ (pc' = "undefined" /\ pe # "heap")
  BY <1>n DEF OpenDirNoMemory, OpenDirNoTable, NextDir, umasks, table, TypeOK
<1>2. TypeOK'
  <2>1. dirs' \in 0 .. MaxDirs /\ peCount' \in Nat
    BY <1>1, <1>n, Numbers
  <2> QED
    BY <1>1, <1>n, <2>1 DEF TypeOK
<1>3. InBounds'
  BY <1>1, <1>n, Numbers DEF InBounds
<1>4. Position'
  BY <1>1, <1>n, Numbers DEF Position, Filling
<1>5. Current'
  BY <1>1 DEF Current, Filling
<1>6. Counted'
  BY <1>1 DEF IInv, Counted, Tracepoint, Shaped
<1>7. Blocks'
  BY <1>1 DEF IInv, Blocks, Tracepoint, InlineNamed
<1> QED
  BY <1>2, <1>3, <1>4, <1>5, <1>6, <1>7 DEF IInv

(***************************************************************************)
(* The entries of a directory                                              *)
(***************************************************************************)
Entry == ReadFails \/ AddInline \/ AddOverflow \/ AddOverflowNoMemory

\* what they have in common
LEMMA EntryFrame ==
    ASSUME IInv, Entry
    PROVE  /\ pc = "entries" /\ pc' \in {"entries", "close"}
           /\ entries' = entries + 1 /\ entries < MaxEntries
           /\ session' = session /\ pe = "heap" /\ pe' = pe /\ nevents' = nevents /\ peFree' = peFree
           /\ peEnd' = peEnd /\ peCount' = peCount /\ dirs' = dirs /\ p' = p /\ p = nevents
           /\ reuse' = reuse /\ early' = early /\ err' \in BOOLEAN /\ failed' \in BOOLEAN
           /\ numasks' \in {numasks, numasks + 1}
           /\ heap \subseteq heap'
           /\ p \in Slot /\ p \notin Tracepoint /\ Tracepoint \subseteq Slot
<1>1. /\ pc = "entries" /\ entries' = entries + 1 /\ entries < MaxEntries
      /\ session' = session /\ pe' = pe /\ nevents' = nevents /\ peFree' = peFree
      /\ peEnd' = peEnd /\ peCount' = peCount /\ dirs' = dirs /\ p' = p
      /\ reuse' = reuse /\ early' = early
  BY DEF Entry, ReadFails, AddInline, AddOverflow, AddOverflowNoMemory, NextEntry
<1>2. /\ pc' \in {"entries", "close"} /\ heap \subseteq heap'
      /\ numasks' \in {numasks, numasks + 1}
  BY <1>1 DEF Entry, ReadFails, AddInline, AddOverflow, AddOverflowNoMemory, Break
<1>3. err' \in BOOLEAN /\ failed' \in BOOLEAN
  BY DEF Entry, ReadFails, AddInline, AddOverflow, AddOverflowNoMemory, Break, IInv, TypeOK
<1>4. pe = "heap" /\ p = nevents
  BY <1>1 DEF IInv, Position, Filling
<1>5. p \in Slot /\ p \notin Tracepoint /\ Tracepoint \subseteq Slot
  <2>1. p \in Slot /\ TypeOK
    BY DEF IInv, TypeOK
  <2> QED
    BY <2>1, <1>4, Numbers DEF Slot, Tracepoint
<1> QED
  BY <1>1, <1>2, <1>3, <1>4, <1>5

\* the overflow table
LEMMA EntryUmasks ==
    ASSUME IInv, Entry
    PROVE  /\ umFree' \in Nat /\ umEnd' \in Nat /\ umCount' \in Nat /\ um' \in BOOLEAN
           /\ umFree' <= umEnd' /\ umEnd' <= umCount'
           /\ owner' \in [UmSlot -> Slot \cup {NoIdx}]
           /\ um' => UmBlock(session) \in heap'
<1>n. TypeOK /\ InBounds /\ p \in Slot
  BY DEF IInv, TypeOK
<1>1. CASE ReadFails \/ AddInline
  <2>1. um' = um /\ umFree' = umFree /\ umEnd' = umEnd /\ umCount' = umCount /\ owner' = owner
    BY <1>1 DEF ReadFails, AddInline, umasks
  <2> QED
    BY <2>1, EntryFrame DEF IInv, TypeOK, InBounds, Blocks
<1>2. CASE AddOverflow
  <2>1. /\ um' = TRUE /\ umFree' = umFree + 1
        /\ umEnd' = IF umFree < umEnd THEN umEnd ELSE umFree + AllocUmasks
        /\ umCount' = IF umFree < umEnd THEN umCount ELSE umCount + AllocUmasks
        /\ owner' = [owner EXCEPT ![umFree] = p]
        /\ UmBlock(session) \in heap'
    BY <1>2 DEF AddOverflow
  <2>2. owner' \in [UmSlot -> Slot \cup {NoIdx}]
    BY <2>1, <1>n DEF TypeOK
  <2>3. umFree \in Nat /\ umEnd \in Nat /\ umCount \in Nat /\ AllocUmasks \in Nat \ {0} /\ umFree <= umEnd /\ umEnd <= umCount
    BY <1>n, Numbers DEF InBounds
  <2> QED
    BY <2>1, <2>2, <2>3
<1>3. CASE AddOverflowNoMemory
  <2>1. um' = um /\ umFree' = umFree /\ umEnd' = umEnd /\ umCount' = umCount + AllocUmasks /\ owner' = owner
    BY <1>3 DEF AddOverflowNoMemory
  <2>2. umFree \in Nat /\ umEnd \in Nat /\ umCount \in Nat /\ AllocUmasks \in Nat \ {0} /\ umFree <= umEnd /\ umEnd <= umCount
    BY <1>n, Numbers DEF InBounds
  <2>3. um => UmBlock(session) \in heap'
    BY EntryFrame DEF IInv, Blocks
  <2> QED
    BY <1>n, <2>1, <2>2, <2>3 DEF TypeOK
<1> QED
  BY <1>1, <1>2, <1>3 DEF Entry

\* the event being filled
LEMMA EntryEvent ==
    ASSUME IInv, Entry
    PROVE  /\ ev' \in [Slot -> Event]
           /\ \A i \in Tracepoint : ev'[i] = ev[i]
           /\ numasks' > MaxInline => ev'[p].ovfl # NoIdx
           /\ numasks' < MaxInline => ev'[p].ovfl = NoIdx
<1>n. TypeOK /\ ev \in [Slot -> Event] /\ umFree \in Nat /\ numasks \in Nat /\ MaxInline \in Nat
  BY Numbers DEF IInv, TypeOK
<1>1. /\ numasks > MaxInline => ev[p].ovfl # NoIdx
      /\ numasks < MaxInline => ev[p].ovfl = NoIdx
  BY EntryFrame DEF IInv, Current, Filling
<1>2. CASE ReadFails \/ AddInline
  <2>1. ev' = ev /\ (numasks' = numasks \/ (numasks < MaxInline /\ numasks' = numasks + 1))
    BY <1>2 DEF ReadFails, AddInline
  <2> QED
    BY <1>n, <1>1, <2>1
<1>3. ASSUME AddOverflow \/ AddOverflowNoMemory
      PROVE  /\ numasks >= MaxInline /\ numasks' \in {numasks, numasks + 1}
             /\ \E idx \in Nat \cup {NoIdx} :
                   /\ ev' = IF numasks = MaxInline THEN [ev EXCEPT ![p].ovfl = idx] ELSE ev
                   /\ numasks' # numasks => idx # NoIdx
  <2>1. CASE AddOverflow
    <3>1. numasks >= MaxInline /\ numasks' \in {numasks, numasks + 1}
      BY <2>1 DEF AddOverflow
    <3>2. ev' = IF numasks = MaxInline THEN [ev EXCEPT ![p].ovfl = umFree] ELSE ev
      BY <2>1 DEF AddOverflow
    <3>3. umFree \in Nat \cup {NoIdx} /\ umFree # NoIdx
      BY <1>n DEF NoIdx
    <3> QED
      BY <3>1, <3>2, <3>3
  <2>2. CASE AddOverflowNoMemory
    BY <2>2, <1>n DEF AddOverflowNoMemory, NoIdx
  <2> QED
    BY <1>3, <2>1, <2>2
<1>4. CASE AddOverflow \/ AddOverflowNoMemory
  <2>1. PICK idx \in Nat \cup {NoIdx} :
          /\ ev' = IF numasks = MaxInline THEN [ev EXCEPT ![p].ovfl = idx] ELSE ev
          /\ numasks' # numasks => idx # NoIdx
    BY <1>3, <1>4
  <2>2. numasks >= MaxInline /\ numasks' \in {numasks, numasks + 1}
    BY <1>3, <1>4
  <2>3. CASE numasks = MaxInline
    <3>1. ev' = [ev EXCEPT ![p].ovfl = idx]
      BY <2>1, <2>3
    <3>2. [ev[p] EXCEPT !.ovfl = idx] \in Event
      BY <1>n, EntryFrame DEF Event
    <3>3. ev'[p].ovfl = idx
      BY <3>1, <1>n, EntryFrame DEF Event
    <3> QED
      BY <1>n, <2>1, <2>2, <2>3, <3>1, <3>2, <3>3, EntryFrame
  <2>4. CASE numasks # MaxInline
    BY <1>n, <1>1, <2>1, <2>2, <2>4
  <2> QED
    BY <2>3, <2>4
<1> QED
  BY <1>2, <1>4 DEF Entry

\* the names of its unit masks
LEMMA EntryNames ==
    ASSUME IInv, Entry
    PROVE  InlineNamed(p, numasks)'
<1>n. numasks \in Nat /\ MaxInline \in Nat
  BY Numbers DEF IInv
<1>1. \A j \in 0 .. Lesser(numasks, MaxInline) - 1 : InlineName(session, p, j) \in heap
  BY EntryFrame DEF IInv, Current, Filling, InlineNamed
<1>2. \/ numasks' = numasks
      \/ numasks' = numasks + 1 /\ numasks >= MaxInline
      \/ numasks' = numasks + 1 /\ numasks < MaxInline /\ InlineName(session, p, numasks) \in heap'
  BY DEF Entry, ReadFails, AddInline, AddOverflow, AddOverflowNoMemory
<1>3. \A j \in 0 .. Lesser(numasks', MaxInline) - 1 :
         j \in 0 .. Lesser(numasks, MaxInline) - 1 \/ (j = numasks /\ InlineName(session, p, numasks) \in heap')
  BY <1>n, <1>2 DEF Lesser
<1>4. \A j \in 0 .. Lesser(numasks', MaxInline) - 1 : InlineName(session, p, j) \in heap'
  BY <1>1, <1>3, EntryFrame
<1> QED
  BY <1>4, EntryFrame DEF InlineNamed, Lesser, InlineName

LEMMA EntryStep ==
    ASSUME IInv, Entry
    PROVE  IInv'
<1>n. TypeOK /\ InBounds /\ Position
  BY DEF IInv
<1>1. numasks' <= entries' /\ numasks' \in Nat /\ entries' \in Nat /\ entries' <= MaxEntries
  BY <1>n, EntryFrame, Numbers DEF Position, Filling
<1>2. TypeOK'
  <2>1. numasks' \in 0 .. MaxEntries /\ entries' \in 0 .. MaxEntries
    BY <1>1, <1>n, Numbers
  <2>2. /\ pc' \in {"entries", "close"} /\ session' = session /\ pe' = pe /\ nevents' = nevents /\ peFree' = peFree
        /\ peEnd' = peEnd /\ peCount' = peCount /\ dirs' = dirs /\ p' = p /\ reuse' = reuse /\ early' = early
        /\ err' \in BOOLEAN /\ failed' \in BOOLEAN
    BY EntryFrame
  <2>3. ev' \in [Slot -> Event]
    BY EntryEvent
  <2>4. umFree' \in Nat /\ umEnd' \in Nat /\ umCount' \in Nat /\ um' \in BOOLEAN /\ owner' \in [UmSlot -> Slot \cup {NoIdx}]
    BY EntryUmasks
  <2> QED
    BY <1>n, <2>1, <2>2, <2>3, <2>4 DEF TypeOK
<1>3. InBounds'
  BY <1>n, EntryFrame, EntryUmasks DEF InBounds
<1>4. Position'
  BY <1>n, <1>1, EntryFrame DEF Position, Filling
<1>5. Tracepoint' = Tracepoint
  BY EntryFrame DEF Tracepoint
<1>6. Current'
  <2>1. NameOf(session, p) \in heap
    BY EntryFrame DEF IInv, Current, Filling
  <2>2. NameOf(session, p)' \in heap'
    BY <2>1, EntryFrame DEF NameOf
  <2> QED
    BY <2>2, EntryFrame, EntryEvent, EntryNames DEF Current
<1>7. Counted'
  <2>1. \A i \in Tracepoint : Shaped(i) /\ NameOf(session, i) \in heap
    BY EntryFrame DEF IInv, Counted
  <2> QED
    BY <2>1, <1>5, EntryFrame, EntryEvent DEF Counted, Shaped, NameOf
<1>8. Blocks'
  <2>1. PeBlock(session) \in heap /\ \A i \in Tracepoint : InlineNamed(i, ev[i].numasks)
    BY EntryFrame DEF IInv, Blocks
  <2>2. \A i \in Tracepoint : \A j \in 0 .. Lesser(ev'[i].numasks, MaxInline) - 1 : InlineName(session, i, j) \in heap'
    BY <2>1, EntryFrame, EntryEvent DEF InlineNamed
  <2> QED
    BY <2>1, <2>2, <1>5, EntryFrame, EntryUmasks DEF Blocks, InlineNamed, PeBlock, UmBlock, InlineName
<1> QED
  BY <1>2, <1>3, <1>4, <1>6, <1>7, <1>8 DEF IInv

(***************************************************************************)
(* The end of a directory, of the scan, and of the session                 *)
(***************************************************************************)
LEMMA CloseDirStep ==
    ASSUME IInv, CloseDir
    PROVE  IInv'
<1>n. /\ TypeOK /\ InBounds /\ Position /\ ev \in [Slot -> Event]
      /\ numasks \in Nat /\ nevents \in Nat /\ peFree \in Nat /\ MaxInline \in Nat \ {0} /\ NStatic \in Nat
  BY Numbers DEF IInv, TypeOK
<1>1. /\ Filling /\ pe = "heap" /\ p = nevents /\ peFree = nevents + 1 /\ p \in Slot
      /\ NameOf(session, p) \in heap /\ InlineNamed(p, numasks)
      /\ numasks > MaxInline => ev[p].ovfl # NoIdx
      /\ numasks < MaxInline => ev[p].ovfl = NoIdx
  BY DEF IInv, TypeOK, Position, Current, Filling, CloseDir
<1>2. /\ ev' = [ev EXCEPT ![p].numasks = numasks]
      /\ heap' = IF numasks = 0 THEN heap \ {NameOf(session, p)} ELSE heap
      /\ reuse' = (numasks = 0)
      /\ nevents' = IF numasks > 0 /\ ~err THEN nevents + 1 ELSE nevents
      /\ pc' = "scan"
      /\ session' = session /\ pe' = pe /\ peFree' = peFree /\ peEnd' = peEnd /\ peCount' = peCount
      /\ um' = um /\ umFree' = umFree /\ umEnd' = umEnd /\ umCount' = umCount /\ owner' = owner
      /\ dirs' = dirs /\ entries' = entries /\ p' = p /\ numasks' = numasks /\ err' = err
      /\ failed' = failed /\ early' = early
  BY DEF CloseDir, umasks
<1>3. /\ ev' \in [Slot -> Event] /\ ev'[p].numasks = numasks /\ ev'[p].ovfl = ev[p].ovfl
      /\ \A i \in Slot : i # p => ev'[i] = ev[i]
  <2>1. [ev[p] EXCEPT !.numasks = numasks] \in Event
    BY <1>n, <1>1 DEF Event, TypeOK
  <2> QED
    BY <1>n, <1>1, <1>2, <2>1 DEF Event
<1>4. TypeOK'
  <2>1. reuse' \in BOOLEAN /\ nevents' \in Nat
    BY <1>n, <1>2
  <2> QED
    BY <1>n, <1>2, <1>3, <2>1 DEF TypeOK
<1>a. /\ \/ numasks > 0 /\ ~err /\ nevents' = nevents + 1 /\ reuse' = FALSE
         \/ numasks = 0 /\ ~err /\ nevents' = nevents /\ reuse' = TRUE
         \/ err /\ nevents' = nevents
      /\ nevents >= NStatic /\ peFree <= peEnd /\ peEnd <= peCount /\ umFree <= umEnd /\ umEnd <= umCount
      /\ peFree <= NStatic + dirs
      /\ nevents \in Nat /\ peFree \in Nat /\ peFree = nevents + 1 /\ NStatic \in Nat
  <2>1. numasks = 0 \/ numasks > 0
    BY <1>n
  <2>2. nevents >= NStatic /\ peFree <= peEnd /\ peEnd <= peCount /\ umFree <= umEnd /\ umEnd <= umCount /\ peFree <= NStatic + dirs
    BY <1>n, <1>1 DEF InBounds, Position, Filling
  <2>3. reuse' = (numasks = 0) /\ nevents' = IF numasks > 0 /\ ~err THEN nevents + 1 ELSE nevents
    BY <1>2
  <2>4. /\ \/ numasks > 0 /\ ~err /\ nevents' = nevents + 1
           \/ numasks = 0 /\ ~err /\ nevents' = nevents
           \/ err /\ nevents' = nevents
    BY <2>1, <2>3
  <2>5. (numasks > 0 => reuse' = FALSE) /\ (numasks = 0 => reuse' = TRUE)
    <3>1. numasks > 0 => ~(numasks = 0)
      BY <1>n
    <3>2. reuse' = (numasks = 0)
      BY <2>3
    <3> QED
      BY <3>1, <3>2, Zenon
  <2> QED
    BY <1>n, <1>1, <2>2, <2>4, <2>5
<1>5. InBounds'
  BY <1>1, <1>2, <1>a DEF InBounds
<1>6. Position'
  BY <1>1, <1>2, <1>a DEF Position, Filling
<1>7. Current'
  BY <1>2 DEF Current, Filling
<1>8. \A i \in Tracepoint' : \/ i \in Tracepoint /\ i # p /\ i \in Slot
                             \/ i = p /\ numasks > 0
  <2>1. p = nevents /\ p \in 0 .. NStatic + MaxDirs /\ MaxDirs \in Nat
    BY <1>n, <1>1, Numbers DEF Slot
  <2> QED
    BY <1>a, <2>1 DEF Tracepoint, Slot
<1>9. Counted'
  <2>1. \A i \in Tracepoint : Shaped(i) /\ NameOf(session, i) \in heap
    BY <1>1 DEF IInv, Counted, Filling
  <2>2. \A i, k : NameOf(session, i) = NameOf(session, k) => i = k
    BY DEF NameOf
  <2>3. ASSUME NEW i \in Tracepoint' PROVE Shaped(i)' /\ NameOf(session, i) \in heap'
    <3>1. CASE i \in Tracepoint /\ i # p /\ i \in Slot
      BY <3>1, <1>2, <1>3, <2>1, <2>2 DEF Shaped
    <3>2. CASE i = p /\ numasks > 0
      BY <3>2, <1>1, <1>2, <1>3 DEF Shaped
    <3> QED
      BY <3>1, <3>2, <1>8
  <2> QED
    BY <2>3, <1>2 DEF Counted, NameOf, Shaped
<1>10. Blocks'
  <2>1. PeBlock(session) \in heap /\ (\A i \in Tracepoint : InlineNamed(i, ev[i].numasks)) /\ (um => UmBlock(session) \in heap)
    BY <1>1 DEF IInv, Blocks, Filling
  <2>2. /\ PeBlock(session) # NameOf(session, p) /\ UmBlock(session) # NameOf(session, p)
        /\ \A i, j : InlineName(session, i, j) # NameOf(session, p)
    BY DEF PeBlock, UmBlock, NameOf, InlineName
  <2>3. PeBlock(session) \in heap' /\ (um => UmBlock(session) \in heap')
        /\ \A i, j : InlineName(session, i, j) \in heap => InlineName(session, i, j) \in heap'
    BY <1>2, <2>1, <2>2
  <2>4. \A i \in Tracepoint' : \A j \in 0 .. Lesser(ev'[i].numasks, MaxInline) - 1 : InlineName(session, i, j) \in heap'
    <3>1. ASSUME NEW i \in Tracepoint'
          PROVE  \A j \in 0 .. Lesser(ev'[i].numasks, MaxInline) - 1 : InlineName(session, i, j) \in heap'
      <4>1. CASE i \in Tracepoint /\ i # p /\ i \in Slot
        BY <4>1, <1>3, <2>1, <2>3 DEF InlineNamed
      <4>2. CASE i = p
        BY <4>2, <1>1, <1>3, <2>3 DEF InlineNamed
      <4> QED
        BY <4>1, <4>2, <1>8
    <3> QED
      BY <3>1
  <2> QED
    BY <2>3, <2>4, <1>1, <1>2 DEF Blocks, InlineNamed, PeBlock, UmBlock, InlineName
<1> QED
  BY <1>4, <1>5, <1>6, <1>7, <1>9, <1>10 DEF IInv

LEMMA EndScanStep ==
    ASSUME IInv, EndScan
    PROVE  IInv'
<1>1. pc = "scan" /\ pc' = "up" /\ UNCHANGED <<session, table, umasks, scan, heap, failed, early>>
  BY DEF EndScan
<1> USE DEF table, umasks, scan
<1>2. TypeOK'
  BY <1>1 DEF IInv, TypeOK
<1>3. InBounds' /\ Position' /\ Current'
  BY <1>1 DEF IInv, InBounds, Position, Current, Filling
<1>4. Counted' /\ Blocks'
  BY <1>1 DEF IInv, Counted, Shaped, Tracepoint, Blocks, InlineNamed
<1> QED
  BY <1>2, <1>3, <1>4 DEF IInv

LEMMA TerminateStep ==
    ASSUME IInv, Terminate
    PROVE  IInv'
<1>n. TypeOK /\ InBounds /\ Position
  BY DEF IInv
<1>1. /\ pc' = "down" /\ session' = session /\ nevents' = nevents /\ peCount' = peCount /\ ev' = ev
      /\ umCount' = umCount /\ failed' = failed /\ owner' = [k \in UmSlot |-> NoIdx]
      /\ dirs' = dirs /\ entries' = entries /\ p' = p /\ reuse' = reuse /\ numasks' = numasks /\ err' = err
  BY DEF Terminate, scan
<1>2. \/ /\ pe' = "null" /\ peFree' = 0 /\ peEnd' = 0 /\ um' = FALSE /\ umFree' = 0 /\ umEnd' = 0 /\ early' = early
      \/ /\ pe' = pe /\ peFree' = peFree /\ peEnd' = peEnd /\ um' = um /\ umFree' = umFree /\ umEnd' = umEnd
         /\ early' = (early \/ pe = "heap")
  BY DEF Terminate
<1>3. um' = FALSE
  <2>1. um => pe = "heap"
    BY DEF IInv, Blocks
  <2> QED
    BY <2>1, <1>n DEF Terminate, TypeOK
<1>4. TypeOK'
  <2>1. owner' \in [UmSlot -> Slot \cup {NoIdx}]
    BY <1>1
  <2>2. peFree' \in Nat /\ peEnd' \in Nat /\ umFree' \in Nat /\ umEnd' \in Nat /\ pe' \in {"static", "heap", "null"}
    BY <1>2, <1>n DEF TypeOK
  <2>3. early' \in BOOLEAN
    BY <1>2, <1>n DEF TypeOK
  <2> QED
    BY <1>n, <1>1, <1>3, <2>1, <2>2, <2>3 DEF TypeOK
<1>5. InBounds'
  BY <1>n, <1>1, <1>2, Numbers DEF InBounds
<1>6. Position' /\ Current' /\ Counted' /\ Blocks'
  BY <1>n, <1>1, <1>3 DEF Position, Current, Counted, Blocks, Filling
<1> QED
  BY <1>4, <1>5, <1>6 DEF IInv

LEMMA NextInv ==
    ASSUME IInv, [Next]_vars
    PROVE  IInv'
<1>1. CASE InitStatic
  BY <1>1, InitStaticStep
<1>2. CASE \E cloned, clear \in BOOLEAN : InitScan(cloned, clear)
  BY <1>2, InitScanStep
<1>3. CASE OpenDir
  BY <1>3, OpenDirStep
<1>4. CASE OpenDirNoMemory \/ OpenDirNoTable
  BY <1>4, NoSlotStep
<1>5. CASE ReadFails \/ AddInline \/ AddOverflow \/ AddOverflowNoMemory
  BY <1>5, EntryStep DEF Entry
<1>6. CASE CloseDir
  BY <1>6, CloseDirStep
<1>7. CASE EndScan
  BY <1>7, EndScanStep
<1>8. CASE Terminate
  BY <1>8, TerminateStep
<1>9. CASE UNCHANGED vars
  BY <1>9 DEF vars, table, umasks, scan, IInv, TypeOK, InBounds, Position, Current, Counted, Shaped,
              Tracepoint, Blocks, InlineNamed, Filling
<1> QED
  BY <1>1, <1>2, <1>3, <1>4, <1>5, <1>6, <1>7, <1>8, <1>9 DEF Next

LEMMA Invariance == Spec => []IInv
<1>1. IInv /\ [Next]_vars => IInv'
  BY NextInv
<1> QED
  BY InitInv, <1>1, PTL DEF Spec

(***************************************************************************)
(* The overflow table.  Chain says that the first n unit masks of an event *)
(* are its own; NextInChain that the free pointer is where the next one of *)
(* the event being filled belongs; Room that the table has a place for     *)
(* every entry still to be read.                                           *)
(***************************************************************************)
Chain(i, n) ==
    \A j \in MaxInline .. n - 1 :
        LET k == ev[i].ovfl + (j - MaxInline)
        IN  k \in 0 .. umFree - 1 /\ owner[k] = i /\ OvflName(session, k) \in heap

Chains == (pc # "down" /\ pe = "heap") => \A i \in Tracepoint : Chain(i, ev[i].numasks)

NextInChain ==
    /\ Filling => Chain(p, numasks)
    /\ (pc = "entries" /\ numasks > MaxInline) => umFree = ev[p].ovfl + (numasks - MaxInline)

Room ==
    /\ ~um => umFree = 0
    /\ umFree <= dirs * MaxEntries
    /\ Filling => umFree + (MaxEntries - entries) <= dirs * MaxEntries

OInv == Chains /\ NextInChain /\ Room

LEMMA Product ==
    ASSUME TypeOK
    PROVE  /\ dirs * MaxEntries \in Nat /\ MaxDirs * MaxEntries \in Nat
           /\ (dirs + 1) * MaxEntries = dirs * MaxEntries + MaxEntries
           /\ dirs * MaxEntries <= MaxDirs * MaxEntries
<1>1. dirs \in Nat /\ MaxEntries \in Nat /\ MaxDirs \in Nat /\ dirs <= MaxDirs
  BY Numbers
<1>2. \A a, b \in Nat : a * b \in Nat
  OBVIOUS
<1>3. MaxDirs - dirs \in Nat
  BY <1>1
<1>4. MaxDirs * MaxEntries = dirs * MaxEntries + (MaxDirs - dirs) * MaxEntries
  BY <1>1, <1>3
<1>5. (MaxDirs - dirs) * MaxEntries \in Nat /\ dirs * MaxEntries \in Nat /\ MaxDirs * MaxEntries \in Nat
  BY <1>1, <1>2, <1>3
<1>6. (dirs + 1) * MaxEntries = dirs * MaxEntries + MaxEntries
  BY <1>1
<1> QED
  BY <1>4, <1>5, <1>6

\* what a step does to the overflow table
LEMMA UmaskFrame ==
    ASSUME IInv, [Next]_vars, ~Terminate, ~AddOverflow
    PROVE  um' = um /\ umFree' = umFree /\ owner' = owner
  BY DEF Next, vars, umasks, InitStatic, InitScan, OpenDir, OpenDirNoMemory, OpenDirNoTable, ReadFails, AddInline,
         AddOverflowNoMemory, CloseDir, EndScan

LEMMA RoomStep ==
    ASSUME IInv, Room, [Next]_vars
    PROVE  Room'
<1>n. /\ TypeOK /\ umFree \in Nat /\ entries \in Nat /\ entries <= MaxEntries /\ MaxEntries \in Nat /\ dirs \in Nat
      /\ dirs * MaxEntries \in Nat /\ (dirs + 1) * MaxEntries = dirs * MaxEntries + MaxEntries
      /\ 0 * MaxEntries = 0 /\ um \in BOOLEAN
  <2>1. TypeOK
    BY DEF IInv
  <2>2. MaxEntries \in Nat
    BY <2>1, Numbers
  <2>3. 0 * MaxEntries = 0
    BY <2>2
  <2> QED
    BY <2>1, <2>3, Numbers, Product DEF TypeOK
<1>d. pc = "down" => um = FALSE /\ umFree = 0
  BY <1>n DEF IInv, Blocks, Room
<1>1. CASE InitStatic
  BY <1>1, <1>n, <1>d DEF InitStatic, umasks, scan, Room, Filling
<1>2. ASSUME NEW cloned \in BOOLEAN, NEW clear \in BOOLEAN, InitScan(cloned, clear) PROVE Room'
  <2>1. pc = "down" /\ pc' = "scan" /\ um' = um /\ umFree' = umFree /\ dirs' = 0
    BY <1>2 DEF InitScan, umasks
  <2> QED
    BY <2>1, <1>n, <1>d DEF Room, Filling
<1>3. CASE OpenDir
  <2>1. /\ um' = um /\ umFree' = umFree /\ dirs' = dirs + 1
        /\ (pc' = "scan" \/ (pc' = "entries" /\ entries' = 0))
    BY <1>3 DEF OpenDir, NextDir, umasks, Fill, NoName
  <2> QED
    BY <2>1, <1>n DEF Room, Filling
<1>4. CASE OpenDirNoMemory \/ OpenDirNoTable
  <2>1. um' = um /\ umFree' = umFree /\ dirs' = dirs + 1 /\ pc' \in {"up", "undefined"}
    BY <1>4 DEF OpenDirNoMemory, OpenDirNoTable, NextDir, umasks
  <2> QED
    BY <2>1, <1>n DEF Room, Filling
<1>5. CASE ReadFails \/ AddInline \/ AddOverflow \/ AddOverflowNoMemory
  <2>1. Entry
    BY <1>5 DEF Entry
  <2>2. /\ pc = "entries" /\ pc' \in {"entries", "close"} /\ entries' = entries + 1 /\ dirs' = dirs
        /\ entries < MaxEntries
    BY <2>1, EntryFrame
  <2>3. (um' = um /\ umFree' = umFree) \/ (um' = TRUE /\ umFree' = umFree + 1)
    BY <1>5 DEF ReadFails, AddInline, AddOverflow, AddOverflowNoMemory, umasks
  <2> QED
    BY <2>2, <2>3, <1>n DEF Room, Filling
<1>6. CASE CloseDir
  <2>1. pc' = "scan" /\ um' = um /\ umFree' = umFree /\ dirs' = dirs
    BY <1>6 DEF CloseDir, umasks
  <2> QED
    BY <2>1 DEF Room, Filling
<1>7. CASE EndScan
  BY <1>7 DEF EndScan, umasks, scan, Room, Filling
<1>8. CASE Terminate
  <2>1. pc' = "down" /\ dirs' = dirs /\ ((um' = FALSE /\ umFree' = 0) \/ (um' = um /\ umFree' = umFree))
    BY <1>8 DEF Terminate, scan
  <2> QED
    BY <2>1, <1>n DEF Room, Filling
<1>9. CASE UNCHANGED vars
  BY <1>9 DEF vars, umasks, scan, Room, Filling
<1> QED
  BY <1>1, <1>2, <1>3, <1>4, <1>5, <1>6, <1>7, <1>8, <1>9 DEF Next

\* Chain of the next state
ChainAfter(i, n) ==
    \A j \in MaxInline .. n - 1 :
        LET k == ev'[i].ovfl + (j - MaxInline)
        IN  k \in 0 .. umFree' - 1 /\ owner'[k] = i /\ OvflName(session', k) \in heap'

\* A chain stays when unit masks are only added behind it.
LEMMA ChainKept ==
    ASSUME umFree \in Nat, umFree' \in Nat, umFree <= umFree', \A k \in 0 .. umFree - 1 : owner'[k] = owner[k],
           session' = session, \A k : OvflName(session, k) \in heap => OvflName(session, k) \in heap',
           NEW i, NEW n, Chain(i, n), ev'[i].ovfl = ev[i].ovfl
    PROVE  ChainAfter(i, n)
<1> SUFFICES ASSUME NEW j \in MaxInline .. n - 1
             PROVE  LET k == ev'[i].ovfl + (j - MaxInline)
                    IN  k \in 0 .. umFree' - 1 /\ owner'[k] = i /\ OvflName(session', k) \in heap'
  BY DEF ChainAfter
<1> DEFINE k == ev[i].ovfl + (j - MaxInline)
<1>1. k \in 0 .. umFree - 1 /\ owner[k] = i /\ OvflName(session, k) \in heap
  BY DEF Chain
<1>2. k \in 0 .. umFree' - 1
  BY <1>1
<1> QED
  BY <1>1, <1>2

\* the chains of the events that count, over a step that leaves them alone
LEMMA ChainsKept ==
    ASSUME IInv, Chains, pc # "down", pe = "heap",
           umFree' \in Nat, umFree <= umFree', \A k \in 0 .. umFree - 1 : owner'[k] = owner[k],
           session' = session, \A k : OvflName(session, k) \in heap => OvflName(session, k) \in heap',
           \A i \in Tracepoint : ev'[i] = ev[i]
    PROVE  \A i \in Tracepoint : ChainAfter(i, ev'[i].numasks)
<1>1. umFree \in Nat
  BY DEF IInv, TypeOK
<1> TAKE i \in Tracepoint
<1>2. Chain(i, ev[i].numasks) /\ ev'[i] = ev[i]
  BY DEF Chains
<1>3. Chain(i, ev'[i].numasks) /\ ev'[i].ovfl = ev[i].ovfl
  BY <1>2
<1> QED
  BY <1>1, <1>3, ChainKept

LEMMA ChainsAfter ==
    ASSUME \A i \in Tracepoint' : ChainAfter(i, ev'[i].numasks)
    PROVE  Chains'
  BY DEF Chains, Chain, ChainAfter, OvflName, Tracepoint

LEMMA NoChain == \A i, n : n \in Nat /\ MaxInline \in Nat /\ n <= MaxInline => ChainAfter(i, n) /\ Chain(i, n)
  BY DEF ChainAfter, Chain

LEMMA OpenDirChains ==
    ASSUME IInv, OInv, OpenDir
    PROVE  Chains' /\ NextInChain'
<1>1. /\ pc = "scan" /\ pe = "heap" /\ session' = session /\ nevents' = nevents
      /\ umFree' = umFree /\ owner' = owner
  BY DEF OpenDir, NextDir, umasks
<1>2. err = FALSE
  BY DEF OpenDir, NextDir, IInv, TypeOK
<1>3. peFree = nevents + (IF reuse THEN 1 ELSE 0) /\ (reuse => p = nevents) /\ nevents \in Nat
  BY <1>1, <1>2 DEF IInv, InBounds, Position, TypeOK
<1>4. Fill(nevents) \/ NoName(nevents)
  <2>1. reuse => p = nevents
    BY <1>3
  <2>2. ~reuse => peFree = nevents
    BY <1>3
  <2> QED
    BY <2>1, <2>2 DEF OpenDir
<1>5. heap \subseteq heap' /\ \A i \in Tracepoint : ev'[i] = ev[i]
  <2>1. nevents \notin Tracepoint /\ Tracepoint \subseteq Slot
    <3>1. nevents \in Slot /\ NStatic \in Nat /\ MaxDirs \in Nat
      <4>1. /\ nevents >= NStatic /\ peFree <= NStatic + dirs /\ dirs < MaxDirs /\ NStatic \in Nat /\ MaxDirs \in Nat
            /\ dirs \in Nat /\ nevents <= peFree /\ peFree \in Nat
        BY <1>1, Numbers DEF OpenDir, NextDir, IInv, InBounds, Position
      <4> QED
        BY <4>1, <1>3 DEF Slot
    <3> QED
      BY <3>1, <1>3 DEF Tracepoint, Slot
  <2>2. ev \in [Slot -> Event]
    BY DEF IInv, TypeOK
  <2>3. ev' = ev \/ ev' = [ev EXCEPT ![nevents].ovfl = NoIdx]
    BY <1>4 DEF Fill, NoName
  <2>4. heap \subseteq heap'
    BY <1>4 DEF Fill, NoName
  <2> QED
    BY <2>1, <2>2, <2>3, <2>4
<1>6. Chains'
  <2>1. umFree \in Nat
    BY DEF IInv, TypeOK
  <2>2. \A i \in Tracepoint : ChainAfter(i, ev'[i].numasks)
    BY <1>1, <1>5, <2>1, ChainsKept DEF OInv
  <2> QED
    BY <2>2, <1>1, ChainsAfter DEF Tracepoint
<1>7. NextInChain'
  <2>1. pc' = "scan" \/ (pc' = "entries" /\ numasks' = 0)
    BY <1>1, <1>4 DEF Fill, NoName
  <2>2. MaxInline \in Nat
    BY Numbers DEF IInv
  <2> QED
    BY <2>1, <2>2 DEF NextInChain, Filling, Chain
<1> QED
  BY <1>6, <1>7

\* one entry of the directory: its unit mask goes to the end of the chain of
\* the event, or nowhere
LEMMA EntryChains ==
    ASSUME IInv, OInv, Entry
    PROVE  Chains' /\ NextInChain'
<1>n. /\ TypeOK /\ umFree \in Nat /\ numasks \in Nat /\ MaxInline \in Nat \ {0} /\ ev \in [Slot -> Event]
      /\ owner \in [UmSlot -> Slot \cup {NoIdx}] /\ p \in Slot
  BY Numbers DEF IInv, TypeOK
<1>1. /\ pc = "entries" /\ pc' \in {"entries", "close"} /\ session' = session /\ pe = "heap" /\ p' = p
      /\ nevents' = nevents /\ heap \subseteq heap' /\ p \in Slot /\ p \notin Tracepoint
  BY EntryFrame
<1>2. umFree \in UmSlot
  <2>1. entries < MaxEntries /\ entries \in Nat /\ MaxEntries \in Nat
    BY <1>n, Numbers, EntryFrame
  <2>2. umFree + (MaxEntries - entries) <= dirs * MaxEntries
    BY <1>1 DEF OInv, Room, Filling
  <2>3. dirs * MaxEntries <= MaxDirs * MaxEntries /\ dirs * MaxEntries \in Nat /\ MaxDirs * MaxEntries \in Nat
    BY <1>n, Product
  <2>4. umFree <= MaxDirs * MaxEntries
    BY <1>n, <2>1, <2>2, <2>3
  <2> QED
    BY <1>n, <2>3, <2>4 DEF UmSlot
<1>3. \/ umFree' = umFree /\ owner' = owner
      \/ umFree' = umFree + 1 /\ owner' = [owner EXCEPT ![umFree] = p]
  BY DEF Entry, ReadFails, AddInline, AddOverflow, AddOverflowNoMemory, umasks
<1>4. umFree' \in Nat /\ umFree <= umFree' /\ \A k \in 0 .. umFree - 1 : owner'[k] = owner[k]
  <2>1. \A k \in 0 .. umFree - 1 : k \in UmSlot /\ k # umFree
    <3>1. MaxDirs * MaxEntries \in Nat /\ umFree <= MaxDirs * MaxEntries
      BY <1>n, <1>2, Product DEF UmSlot
    <3> DEFINE top == MaxDirs * MaxEntries
    <3>2. top \in Nat /\ umFree <= top /\ UmSlot = 0 .. top
      BY <3>1 DEF UmSlot
    <3> HIDE DEF top
    <3> QED
      BY <1>n, <3>2
  <2> QED
    BY <1>n, <1>3, <2>1
<1>5. \A k : OvflName(session, k) \in heap => OvflName(session, k) \in heap'
  BY <1>1
<1>6. Chains'
  <2>1. \A i \in Tracepoint : ev'[i] = ev[i]
    BY EntryEvent
  <2>2. \A i \in Tracepoint : ChainAfter(i, ev'[i].numasks)
    BY <1>1, <1>4, <1>5, <2>1, ChainsKept DEF OInv
  <2> QED
    BY <2>2, <1>1, ChainsAfter DEF Tracepoint
<1>7. Chain(p, numasks) /\ (numasks > MaxInline => umFree = ev[p].ovfl + (numasks - MaxInline))
  BY <1>1 DEF OInv, NextInChain, Filling
<1>a. /\ ev'[p].ovfl = ev[p].ovfl \/ numasks = MaxInline
      /\ ev[p].ovfl \in Int
  <2>1. ev' = ev \/ numasks = MaxInline
    BY DEF Entry, ReadFails, AddInline, AddOverflow, AddOverflowNoMemory
  <2>2. ev[p].ovfl \in Nat \cup {NoIdx}
    BY <1>n DEF Event
  <2> QED
    BY <2>1, <2>2 DEF NoIdx
<1>8. ChainAfter(p, numasks)
  <2>1. CASE numasks <= MaxInline
    BY <1>n, <2>1, NoChain
  <2>2. CASE numasks > MaxInline
    <3>1. ev'[p].ovfl = ev[p].ovfl
      BY <1>n, <1>a, <2>2
    <3> QED
      BY <3>1, <1>n, <1>1, <1>4, <1>5, <1>7, ChainKept
  <2> QED
    BY <1>n, <2>1, <2>2
<1>9. CASE numasks' = numasks /\ (pc' = "entries" => umFree' = umFree)
  <2>1. Chain(p, numasks)'
    BY <1>1, <1>8, <1>9 DEF Chain, ChainAfter, OvflName
  <2>2. (pc' = "entries" /\ numasks' > MaxInline) => umFree' = ev'[p].ovfl + (numasks' - MaxInline)
    <3>1. ASSUME pc' = "entries", numasks > MaxInline PROVE umFree' = ev'[p].ovfl + (numasks' - MaxInline)
      <4>1. ev'[p].ovfl = ev[p].ovfl
        BY <1>n, <1>a, <3>1
      <4> QED
        BY <3>1, <4>1, <1>7, <1>9
    <3> QED
      BY <3>1, <1>9
  <2> QED
    BY <1>1, <1>6, <2>1, <2>2 DEF NextInChain
<1>10. CASE numasks' = numasks + 1 /\ numasks < MaxInline
  <2>1. ChainAfter(p, numasks')
    BY <1>n, <1>10, NoChain
  <2>2. Chain(p, numasks)'
    BY <1>1, <2>1 DEF Chain, ChainAfter, OvflName
  <2> QED
    BY <1>n, <1>1, <1>6, <1>10, <2>2 DEF NextInChain
<1>11. CASE /\ AddOverflow /\ numasks >= MaxInline /\ numasks' = numasks + 1
            /\ umFree' = umFree + 1 /\ owner' = [owner EXCEPT ![umFree] = p]
            /\ OvflName(session, umFree) \in heap'
  <2>1. ev' = IF numasks = MaxInline THEN [ev EXCEPT ![p].ovfl = umFree] ELSE ev
    BY <1>11 DEF AddOverflow
  <2>2. ev'[p].ovfl + (numasks - MaxInline) = umFree /\ ev'[p].ovfl \in Int
    <3>1. CASE numasks = MaxInline
      <4>1. ev'[p].ovfl = umFree
        BY <1>n, <1>1, <2>1, <3>1 DEF Event
      <4> QED
        BY <1>n, <3>1, <4>1
    <3>2. CASE numasks > MaxInline
      <4>1. ev'[p].ovfl = ev[p].ovfl
        BY <1>n, <2>1, <3>2
      <4> QED
        BY <4>1, <1>7, <1>a, <3>2
    <3> QED
      BY <1>n, <1>11, <3>1, <3>2
  <2>3. owner'[umFree] = p
    BY <1>n, <1>2, <1>11
  <2>4. ChainAfter(p, numasks + 1)
    <3> SUFFICES ASSUME NEW j \in MaxInline .. (numasks + 1) - 1
                 PROVE  LET k == ev'[p].ovfl + (j - MaxInline)
                        IN  k \in 0 .. umFree' - 1 /\ owner'[k] = p /\ OvflName(session', k) \in heap'
      BY DEF ChainAfter
    <3>1. CASE j = numasks
      <4>1. ev'[p].ovfl + (j - MaxInline) = umFree
        BY <2>2, <3>1
      <4>2. umFree \in 0 .. umFree' - 1
        BY <1>n, <1>11
      <4> QED
        BY <4>1, <4>2, <2>3, <1>1, <1>11
    <3>2. CASE j # numasks
      <4>1. j \in MaxInline .. numasks - 1
        BY <1>n, <3>2
      <4> QED
        BY <4>1, <1>8 DEF ChainAfter
    <3> QED
      BY <3>1, <3>2
  <2>5. Chain(p, numasks)'
    BY <1>1, <1>11, <2>4 DEF Chain, ChainAfter, OvflName
  <2>6. umFree' = ev'[p].ovfl + (numasks' - MaxInline)
    BY <1>n, <1>11, <2>2
  <2> QED
    BY <1>1, <1>6, <2>5, <2>6 DEF NextInChain
<1> QED
  <2>1. CASE ReadFails \/ AddInline
    BY <2>1, <1>9, <1>10 DEF ReadFails, AddInline, Break, umasks
  <2>2. CASE AddOverflow
    BY <2>2, <1>9, <1>11 DEF AddOverflow, Break
  <2>3. CASE AddOverflowNoMemory
    BY <2>3, <1>9 DEF AddOverflowNoMemory, Break
  <2> QED
    BY <2>1, <2>2, <2>3 DEF Entry


LEMMA CloseDirChains ==
    ASSUME IInv, OInv, CloseDir
    PROVE  Chains' /\ NextInChain'
<1>n. /\ TypeOK /\ ev \in [Slot -> Event] /\ numasks \in Nat /\ nevents \in Nat /\ NStatic \in Nat /\ MaxDirs \in Nat
      /\ umFree \in Nat /\ p \in Slot
  BY Numbers DEF IInv, TypeOK
<1>1. /\ pc' = "scan" /\ session' = session /\ umFree' = umFree /\ owner' = owner
      /\ heap' = IF numasks = 0 THEN heap \ {NameOf(session, p)} ELSE heap
      /\ ev' = [ev EXCEPT ![p].numasks = numasks]
      /\ nevents' \in {nevents, nevents + 1}
  BY DEF CloseDir, umasks
<1>2. Filling /\ pc # "down" /\ pe = "heap" /\ p = nevents
  BY DEF CloseDir, Filling, IInv, Position
<1>3. /\ ev'[p].numasks = numasks /\ ev'[p].ovfl = ev[p].ovfl
      /\ \A i \in Slot : i # p => ev'[i] = ev[i]
  BY <1>n, <1>1 DEF Event
<1>4. \A k : OvflName(session, k) \in heap => OvflName(session, k) \in heap'
  <2>1. \A k : OvflName(session, k) # NameOf(session, p)
    BY DEF OvflName, NameOf
  <2> QED
    BY <1>1, <2>1
<1>5. \A i \in Tracepoint' : i = p \/ (i \in Tracepoint /\ i \in Slot /\ i # p)
  BY <1>n, <1>1, <1>2 DEF Tracepoint, Slot
<1>6. ASSUME NEW i \in Tracepoint' PROVE ChainAfter(i, ev'[i].numasks)
  <2>1. CASE i = p
    <3>1. Chain(i, numasks)
      BY <2>1, <1>2 DEF OInv, NextInChain
    <3> QED
      BY <2>1, <3>1, <1>n, <1>1, <1>3, <1>4, ChainKept
  <2>2. CASE i \in Tracepoint /\ i \in Slot /\ i # p
    <3>1. Chain(i, ev[i].numasks) /\ ev'[i] = ev[i]
      BY <2>2, <1>2, <1>3 DEF OInv, Chains
    <3>2. Chain(i, ev'[i].numasks) /\ ev'[i].ovfl = ev[i].ovfl
      BY <3>1
    <3> QED
      BY <3>2, <1>n, <1>1, <1>4, ChainKept
  <2> QED
    BY <2>1, <2>2, <1>5
<1>7. Chains'
  BY <1>6, ChainsAfter
<1>8. NextInChain'
  BY <1>1 DEF NextInChain, Filling
<1> QED
  BY <1>7, <1>8

\* the steps that touch neither the table nor the event being filled
LEMMA StillChains ==
    ASSUME IInv, OInv, OpenDirNoMemory \/ OpenDirNoTable \/ EndScan
    PROVE  Chains' /\ NextInChain'
<1>1. /\ pc = "scan" /\ pc' \in {"up", "undefined"} /\ pe' = pe /\ nevents' = nevents /\ ev' = ev /\ session' = session
      /\ umFree' = umFree /\ owner' = owner /\ heap \subseteq heap'
  BY DEF OpenDirNoMemory, OpenDirNoTable, EndScan, NextDir, table, umasks
<1>2. umFree \in Nat
  BY DEF IInv, TypeOK
<1>3. Chains'
  <2>1. CASE pe = "heap"
    <3>1. \A i \in Tracepoint : ChainAfter(i, ev'[i].numasks)
      BY <1>1, <1>2, <2>1, ChainsKept DEF OInv
    <3> QED
      BY <3>1, <1>1, ChainsAfter DEF Tracepoint
  <2>2. CASE pe # "heap"
    BY <2>2, <1>1 DEF Chains
  <2> QED
    BY <2>1, <2>2
<1> QED
  BY <1>1, <1>3 DEF NextInChain, Filling

LEMMA OverflowInvariance == Spec => [](IInv /\ OInv)
<1>1. Init => OInv
  <2> SUFFICES ASSUME Init PROVE OInv
    OBVIOUS
  <2>1. umFree = 0 /\ dirs = 0 /\ pc = "down" /\ MaxEntries \in Nat
    BY PerfAssumption DEF Init, PerfAssumption
  <2>2. 0 * MaxEntries = 0
    BY <2>1
  <2> QED
    BY <2>1, <2>2 DEF OInv, Chains, NextInChain, Room, Filling
<1>2. IInv /\ OInv /\ [Next]_vars => OInv'
  <2> SUFFICES ASSUME IInv, OInv, [Next]_vars PROVE OInv'
    OBVIOUS
  <2>r. Room'
    BY RoomStep DEF OInv
  <2>1. CASE InitStatic
    BY <2>1, <2>r DEF InitStatic, Chains, NextInChain, Filling, OInv
  <2>2. ASSUME NEW cloned \in BOOLEAN, NEW clear \in BOOLEAN, InitScan(cloned, clear) PROVE OInv'
    <3>1. nevents' = NStatic /\ pc' = "scan" /\ NStatic \in Nat
      BY <2>2, PerfAssumption DEF InitScan, PerfAssumption
    <3>2. Tracepoint' = {}
      BY <3>1 DEF Tracepoint
    <3> QED
      BY <3>1, <3>2, <2>r DEF OInv, Chains, NextInChain, Filling
  <2>3. CASE OpenDir
    BY <2>3, <2>r, OpenDirChains DEF OInv
  <2>4. CASE OpenDirNoMemory \/ OpenDirNoTable \/ EndScan
    BY <2>4, <2>r, StillChains DEF OInv
  <2>5. CASE ReadFails \/ AddInline \/ AddOverflow \/ AddOverflowNoMemory
    BY <2>5, <2>r, EntryChains DEF OInv, Entry
  <2>6. CASE CloseDir
    BY <2>6, <2>r, CloseDirChains DEF OInv
  <2>7. CASE Terminate
    BY <2>7, <2>r DEF Terminate, Chains, NextInChain, Filling, OInv
  <2>8. CASE UNCHANGED vars
    <3>1. Chains' /\ NextInChain'
      BY <2>8 DEF vars, table, umasks, scan, OInv, Chains, NextInChain, Chain, Filling, Tracepoint
    <3> QED
      BY <3>1, <2>r DEF OInv
  <2> QED
    BY <2>1, <2>2, <2>3, <2>4, <2>5, <2>6, <2>7, <2>8 DEF Next
<1>3. IInv /\ OInv /\ [Next]_vars => (IInv /\ OInv)'
  BY <1>2, NextInv
<1> QED
  BY InitInv, <1>1, <1>3, PTL DEF Spec

(***************************************************************************)
(* The memory of the first allocation was cleared by calloc, and nothing   *)
(* writes behind the last unit mask of an event; the meaning of the        *)
(* program is lost only where the table is not the allocated one.          *)
(***************************************************************************)
Cleared ==
    pe = "heap" =>
        /\ pc # "undefined"
        /\ \A i \in Slot : i < NStatic + AllocEvents => ev[i].zeroed

LEMMA ClearedInvariance == Spec => []Cleared
<1>1. Init => Cleared
  BY DEF Init, Cleared
<1>2. IInv /\ Cleared /\ [Next]_vars => Cleared'
  <2> SUFFICES ASSUME IInv, Cleared, [Next]_vars PROVE Cleared'
    OBVIOUS
  <2>1. ASSUME NEW cloned \in BOOLEAN, NEW clear \in BOOLEAN, InitScan(cloned, clear) PROVE Cleared'
    <3>1. CASE pe' = "static"
      BY <3>1 DEF Cleared
    <3>2. CASE ev' = [i \in Slot |-> Blank(clear \/ i < NStatic + AllocEvents)]
      <4>1. ASSUME NEW i \in Slot, i < NStatic + AllocEvents PROVE ev'[i].zeroed
        <5>1. (clear \/ i < NStatic + AllocEvents) = TRUE
          BY <4>1
        <5>2. ev'[i] = Blank(TRUE)
          BY <3>2, <5>1
        <5> QED
          BY <5>2 DEF Blank
      <4>2. pc' # "undefined"
        BY <2>1 DEF InitScan
      <4> QED
        BY <4>1, <4>2 DEF Cleared
    <3> QED
      BY <2>1, <3>1, <3>2 DEF InitScan
  <2>2. ASSUME pe' = pe \/ pe' # "heap", pc' \in {pc, "entries", "close", "scan", "up", "down"} \/ pe # "heap",
               \A i \in Slot : ev'[i].zeroed = ev[i].zeroed
        PROVE  Cleared'
    BY <2>2 DEF Cleared
  <2>3. ev \in [Slot -> Event]
    BY DEF IInv, TypeOK
  <2>4. CASE InitStatic \/ OpenDirNoMemory \/ OpenDirNoTable \/ ReadFails \/ AddInline \/ EndScan \/ Terminate
    BY <2>2, <2>4 DEF InitStatic, OpenDirNoMemory, OpenDirNoTable, NextDir, NextEntry, ReadFails, AddInline, Break,
                      EndScan, Terminate, table
  <2>5. CASE OpenDir
    <3>1. pe' = pe /\ pc' \in {pc, "entries"} /\ \E i : ev' = [ev EXCEPT ![i].ovfl = NoIdx] \/ ev' = ev
      BY <2>5 DEF OpenDir, Fill, NoName
    <3> QED
      BY <2>2, <2>3, <3>1 DEF Event
  <2>6. CASE AddOverflow \/ AddOverflowNoMemory
    <3>1. pe' = pe /\ pc' \in {pc, "close"} /\ \E k : ev' = [ev EXCEPT ![p].ovfl = k] \/ ev' = ev
      BY <2>6 DEF AddOverflow, AddOverflowNoMemory, Break, NextEntry
    <3> QED
      BY <2>2, <2>3, <3>1 DEF Event
  <2>7. CASE CloseDir
    <3>1. pe' = pe /\ pc' = "scan" /\ ev' = [ev EXCEPT ![p].numasks = numasks]
      BY <2>7 DEF CloseDir
    <3> QED
      BY <2>2, <2>3, <3>1 DEF Event
  <2>8. CASE UNCHANGED vars
    BY <2>2, <2>8 DEF vars, table
  <2> QED
    BY <2>1, <2>4, <2>5, <2>6, <2>7, <2>8 DEF Next
<1> QED
  BY Invariance, <1>1, <1>2, PTL DEF Spec

(***************************************************************************)
(* What is allocated, while nothing failed: the arrays, the names of the   *)
(* overflow unit masks below the free pointer, and the names of the events *)
(* below perf_nevents and of the one being filled.                         *)
(***************************************************************************)
EventBlocks(i, n) == {NameOf(session, i)} \cup {InlineName(session, i, j) : j \in 0 .. Lesser(n, MaxInline) - 1}

ArrayBlocks ==
    {PeBlock(session)} \cup (IF um THEN {UmBlock(session)} ELSE {}) \cup {OvflName(session, k) : k \in 0 .. umFree - 1}
EventsBlocks == UNION {EventBlocks(i, ev[i].numasks) : i \in Tracepoint}
FillingBlocks == IF Filling THEN EventBlocks(p, numasks) ELSE {}
Allocations == ArrayBlocks \cup EventsBlocks \cup FillingBlocks

Clean ==
    ~failed =>
        /\ ~err /\ pc \notin {"close", "undefined"} /\ (pc = "scan" => pe = "heap")
        /\ ~early => heap \subseteq IF pc # "down" /\ pe = "heap" THEN Allocations ELSE {}

\* one more unit mask in the event adds its name
LEMMA MoreBlocks ==
    ASSUME NEW i, NEW n \in Nat, MaxInline \in Nat
    PROVE  /\ EventBlocks(i, n) \subseteq EventBlocks(i, n + 1)
           /\ n < MaxInline => InlineName(session, i, n) \in EventBlocks(i, n + 1)
<1>1. 0 .. Lesser(n, MaxInline) - 1 \subseteq 0 .. Lesser(n + 1, MaxInline) - 1
  BY DEF Lesser
<1>2. n < MaxInline => n \in 0 .. Lesser(n + 1, MaxInline) - 1
  BY DEF Lesser
<1> DEFINE J(m) == 0 .. Lesser(m, MaxInline) - 1
<1>3. J(n) \subseteq J(n + 1) /\ (n < MaxInline => n \in J(n + 1))
  BY <1>1, <1>2
<1>4. \A m : EventBlocks(i, m) = {NameOf(session, i)} \cup {InlineName(session, i, j) : j \in J(m)}
  BY DEF EventBlocks
<1> HIDE DEF J
<1> QED
  BY <1>3, <1>4

\* the blocks of the events that count, over a step that leaves them alone
LEMMA EventsBlocksKept ==
    ASSUME session' = session, nevents' = nevents, \A i \in Tracepoint : ev'[i] = ev[i]
    PROVE  EventsBlocks' = EventsBlocks
<1>1. Tracepoint' = Tracepoint
  BY DEF Tracepoint
<1>2. \A i \in Tracepoint : EventBlocks(i, ev[i].numasks)' = EventBlocks(i, ev[i].numasks)
  BY DEF EventBlocks, NameOf, InlineName
<1> QED
  BY <1>1, <1>2 DEF EventsBlocks

LEMMA OpenDirClean ==
    ASSUME IInv, Clean, OpenDir
    PROVE  Clean'
<1> SUFFICES ASSUME ~failed' PROVE Clean'
  BY DEF Clean
<1>n. /\ pc = "scan" /\ pe = "heap" /\ session' = session /\ nevents' = nevents /\ pe' = pe /\ early' = early
      /\ um' = um /\ umFree' = umFree
  BY DEF OpenDir, NextDir, umasks
<1>1. Fill(IF reuse THEN p ELSE peFree)
  BY DEF OpenDir, NoName
<1> DEFINE q == IF reuse THEN p ELSE peFree
<1>2. /\ pc' = "entries" /\ p' = q /\ ev' = [ev EXCEPT ![q].ovfl = NoIdx] /\ heap' = heap \cup {NameOf(session, q)}
      /\ err' = err /\ failed' = failed
  BY <1>1 DEF Fill
<1>3. \A i \in Tracepoint : ev'[i] = ev[i]
  <2>1. ~err /\ nevents \in Nat /\ NStatic \in Nat /\ MaxDirs \in Nat /\ dirs \in Nat /\ dirs <= MaxDirs
    BY Numbers DEF OpenDir, NextDir, IInv
  <2>2. q = nevents
    BY <1>n, <2>1 DEF IInv, InBounds, Position
  <2>3. nevents <= peFree /\ peFree <= NStatic + dirs /\ peFree \in Nat
    BY <1>n DEF IInv, TypeOK, InBounds, Position
  <2>4. \A i \in Tracepoint : i \in Slot /\ i # q
    <3>1. NStatic \in Nat /\ MaxDirs \in Nat /\ nevents \in Nat /\ nevents <= NStatic + MaxDirs
      BY <2>1, <2>3
    <3> HIDE DEF q
    <3> QED
      BY <2>2, <3>1 DEF Tracepoint, Slot
  <2> HIDE DEF q
  <2>5. ev \in [Slot -> Event] /\ ev' = [ev EXCEPT ![q].ovfl = NoIdx]
    BY <1>2 DEF IInv, TypeOK
  <2> QED
    BY <2>4, <2>5
<1> HIDE DEF q
<1>4. EventsBlocks' = EventsBlocks
  BY <1>n, <1>3, EventsBlocksKept
<1>5. ArrayBlocks' = ArrayBlocks
  BY <1>n DEF ArrayBlocks, PeBlock, UmBlock, OvflName
<1>6. FillingBlocks = {} /\ NameOf(session, q) \in FillingBlocks'
  BY <1>n, <1>2 DEF FillingBlocks, Filling, EventBlocks, NameOf
<1> QED
  BY <1>n, <1>2, <1>4, <1>5, <1>6 DEF Clean, Allocations

LEMMA EntryClean ==
    ASSUME IInv, Clean, Entry
    PROVE  Clean'
<1> SUFFICES ASSUME ~failed' PROVE Clean'
  BY DEF Clean
<1>n. /\ pc = "entries" /\ pe = "heap" /\ session' = session /\ nevents' = nevents /\ pe' = pe /\ early' = early
      /\ p' = p /\ numasks \in Nat /\ MaxInline \in Nat /\ umFree \in Nat
  BY EntryFrame, Numbers DEF IInv
<1>1. EventsBlocks' = EventsBlocks
  BY <1>n, EntryEvent, EventsBlocksKept
<1>2. FillingBlocks = EventBlocks(p, numasks)
  BY <1>n DEF FillingBlocks, Filling
<1>3. CASE AddInline
  <2>1. /\ heap' = heap \cup {InlineName(session, p, numasks)} /\ numasks' = numasks + 1 /\ ~err' /\ pc' = pc
        /\ failed' = failed /\ um' = um /\ umFree' = umFree /\ numasks < MaxInline
    BY <1>3 DEF AddInline, Break, umasks
  <2>2. ArrayBlocks' = ArrayBlocks
    BY <1>n, <2>1 DEF ArrayBlocks, PeBlock, UmBlock, OvflName
  <2>3. FillingBlocks' = EventBlocks(p, numasks + 1)
    BY <1>n, <2>1 DEF FillingBlocks, Filling, EventBlocks, NameOf, InlineName
  <2>4. FillingBlocks \subseteq FillingBlocks' /\ InlineName(session, p, numasks) \in FillingBlocks'
    BY <1>n, <1>2, <2>1, <2>3, MoreBlocks
  <2> QED
    BY <1>n, <1>1, <2>1, <2>2, <2>4 DEF Clean, Allocations
<1>4. CASE AddOverflow
  <2>1. /\ heap' = heap \cup {UmBlock(session), OvflName(session, umFree)} /\ numasks' = numasks + 1 /\ ~err' /\ pc' = pc
        /\ failed' = failed /\ um' = TRUE /\ umFree' = umFree + 1
    BY <1>4 DEF AddOverflow, Break
  <2>2. ArrayBlocks \subseteq ArrayBlocks' /\ {UmBlock(session), OvflName(session, umFree)} \subseteq ArrayBlocks'
    <3>1. 0 .. umFree - 1 \subseteq 0 .. umFree' - 1 /\ umFree \in 0 .. umFree' - 1
      BY <1>n, <2>1
    <3>2. ArrayBlocks' = {PeBlock(session), UmBlock(session)} \cup {OvflName(session, k) : k \in 0 .. umFree' - 1}
      BY <1>n, <2>1 DEF ArrayBlocks, PeBlock, UmBlock, OvflName
    <3> QED
      BY <3>1, <3>2 DEF ArrayBlocks
  <2>3. FillingBlocks' = EventBlocks(p, numasks + 1)
    BY <1>n, <2>1 DEF FillingBlocks, Filling, EventBlocks, NameOf, InlineName
  <2>4. FillingBlocks \subseteq FillingBlocks'
    BY <1>n, <1>2, <2>3, MoreBlocks
  <2> QED
    BY <1>n, <1>1, <2>1, <2>2, <2>4 DEF Clean, Allocations
<1>5. ~ReadFails /\ ~AddOverflowNoMemory
  BY DEF ReadFails, AddOverflowNoMemory, Break
<1> QED
  BY <1>3, <1>4, <1>5 DEF Entry

LEMMA CloseDirClean ==
    ASSUME IInv, Clean, CloseDir
    PROVE  Clean'
<1> SUFFICES ASSUME ~failed' PROVE Clean'
  BY DEF Clean
<1>n. /\ Filling /\ pe = "heap" /\ p = nevents /\ p \in Slot /\ ev \in [Slot -> Event] /\ numasks \in Nat
      /\ nevents \in Nat /\ NStatic \in Nat /\ MaxDirs \in Nat /\ nevents >= NStatic /\ MaxInline \in Nat
  BY Numbers DEF CloseDir, Filling, IInv, TypeOK, Position
<1>1. /\ pc' = "scan" /\ session' = session /\ pe' = pe /\ um' = um /\ umFree' = umFree /\ err' = err
      /\ failed' = failed /\ early' = early /\ ev' = [ev EXCEPT ![p].numasks = numasks]
      /\ heap' = IF numasks = 0 THEN heap \ {NameOf(session, p)} ELSE heap
      /\ nevents' = IF numasks > 0 /\ ~err THEN nevents + 1 ELSE nevents
  BY DEF CloseDir, umasks
<1>2. ~failed /\ ~err
  BY <1>1 DEF Clean
<1>3. /\ \A i \in Tracepoint : ev'[i] = ev[i]
      /\ ev'[p].numasks = numasks
      /\ NStatic .. nevents = Tracepoint \cup {p}
  <2>1. \A i \in Tracepoint : i \in Slot /\ i # p
    BY <1>n DEF Tracepoint, Slot
  <2> QED
    BY <1>n, <1>1, <2>1 DEF Event, Tracepoint
<1>4. ArrayBlocks' = ArrayBlocks
  BY <1>1 DEF ArrayBlocks, PeBlock, UmBlock, OvflName
<1>5. FillingBlocks = EventBlocks(p, numasks) /\ FillingBlocks' = {}
  BY <1>n, <1>1 DEF FillingBlocks, Filling
<1>6. CASE numasks = 0
  <2>1. EventsBlocks' = EventsBlocks
    BY <1>1, <1>3, <1>6, EventsBlocksKept
  <2>2. EventBlocks(p, numasks) = {NameOf(session, p)}
    <3>1. 0 .. Lesser(0, MaxInline) - 1 = {}
      BY <1>n DEF Lesser
    <3> QED
      BY <3>1, <1>6 DEF EventBlocks
  <2>3. heap' = heap \ {NameOf(session, p)}
    BY <1>1, <1>6
  <2> QED
    BY <1>n, <1>1, <1>2, <1>4, <1>5, <2>1, <2>2, <2>3 DEF Clean, Allocations, Filling
<1>7. CASE numasks > 0
  <2>1. nevents' = nevents + 1 /\ heap' = heap
    BY <1>1, <1>2, <1>7, <1>n
  <2>2. Tracepoint' = Tracepoint \cup {p}
    <3>1. Tracepoint' = NStatic .. nevents
      BY <1>n, <2>1 DEF Tracepoint
    <3> QED
      BY <1>3, <3>1
  <2>3. EventBlocks(p, ev[p].numasks)' = EventBlocks(p, numasks) /\ p' = p
    BY <1>1, <1>3 DEF EventBlocks, NameOf, InlineName, CloseDir
  <2>4. \A i \in Tracepoint : EventBlocks(i, ev[i].numasks)' = EventBlocks(i, ev[i].numasks)
    BY <1>1, <1>3 DEF EventBlocks, NameOf, InlineName
  <2>5. EventsBlocks \cup EventBlocks(p, numasks) \subseteq EventsBlocks'
    <3>1. EventBlocks(p, numasks) \subseteq EventsBlocks'
      BY <2>2, <2>3 DEF EventsBlocks
    <3>2. EventsBlocks \subseteq EventsBlocks'
      BY <2>2, <2>4 DEF EventsBlocks
    <3> QED
      BY <3>1, <3>2
  <2> QED
    BY <1>n, <1>1, <1>2, <1>4, <1>5, <2>1, <2>5 DEF Clean, Allocations, Filling
<1> QED
  BY <1>n, <1>6, <1>7

\* pfm_perf_terminate with an overflow table frees everything.
LEMMA TerminateClean ==
    ASSUME IInv, Clean, Terminate
    PROVE  Clean'
<1> SUFFICES ASSUME ~failed' PROVE Clean'
  BY DEF Clean
<1>1. pc = "up" /\ pc' = "down" /\ failed' = failed /\ err' = err
  BY DEF Terminate, scan
<1>2. CASE pe # "null" /\ um
  <2>1. pe = "heap" /\ heap' = heap \ ToFree /\ early' = early
    BY <1>2 DEF Terminate, IInv, Blocks
  <2>2. ~early => heap \subseteq Allocations
    BY <1>1, <2>1 DEF Clean
  <2>3. FillingBlocks = {}
    BY <1>1 DEF FillingBlocks, Filling
  <2>4. EventsBlocks \subseteq ToFree
    BY DEF EventsBlocks, EventBlocks, ToFree
  <2>5. heap \cap ArrayBlocks \subseteq ToFree
    BY DEF ArrayBlocks, ToFree
  <2> QED
    BY <1>1, <2>1, <2>2, <2>3, <2>4, <2>5 DEF Clean, Allocations
<1>3. CASE ~(pe # "null" /\ um)
  <2>1. heap' = heap /\ early' = (early \/ pe = "heap")
    BY <1>3 DEF Terminate
  <2> QED
    BY <1>1, <2>1 DEF Clean
<1> QED
  BY <1>2, <1>3

LEMMA CleanInvariance == Spec => [](IInv /\ Clean)
<1>1. Init => Clean
  BY DEF Init, Clean
<1>2. IInv /\ Clean /\ [Next]_vars => Clean'
  <2> SUFFICES ASSUME IInv, Clean, [Next]_vars PROVE Clean'
    OBVIOUS
  <2>1. CASE InitStatic
    BY <2>1 DEF InitStatic, scan, Clean
  <2>2. ASSUME NEW cloned \in BOOLEAN, NEW clear \in BOOLEAN, InitScan(cloned, clear) PROVE Clean'
    <3> SUFFICES ASSUME ~failed' PROVE Clean'
      BY DEF Clean
    <3>1. /\ pc = "down" /\ pc' = "scan" /\ ~failed /\ pe' = "heap" /\ ~err' /\ early' = early
          /\ heap' = heap \cup {PeBlock(session')}
      BY <2>2 DEF InitScan
    <3>2. PeBlock(session') \in Allocations'
      BY DEF Allocations, ArrayBlocks, PeBlock
    <3> QED
      BY <3>1, <3>2 DEF Clean
  <2>3. CASE OpenDir
    BY <2>3, OpenDirClean
  <2>4. CASE OpenDirNoMemory \/ OpenDirNoTable
    BY <2>4 DEF OpenDirNoMemory, OpenDirNoTable, NextDir, Clean
  <2>5. CASE ReadFails \/ AddInline \/ AddOverflow \/ AddOverflowNoMemory
    BY <2>5, EntryClean DEF Entry
  <2>6. CASE CloseDir
    BY <2>6, CloseDirClean
  <2>7. CASE EndScan \/ UNCHANGED vars
    <3>1. /\ (pc = "scan" /\ pc' = "up") \/ pc' = pc
          /\ UNCHANGED <<session, table, umasks, scan, heap, failed, early>>
      BY <2>7 DEF EndScan, vars
    <3>2. EventsBlocks' = EventsBlocks
      BY <3>1, EventsBlocksKept DEF table
    <3>3. ArrayBlocks' = ArrayBlocks
      BY <3>1 DEF ArrayBlocks, PeBlock, UmBlock, OvflName, umasks
    <3>4. FillingBlocks' = FillingBlocks
      BY <3>1 DEF FillingBlocks, Filling, EventBlocks, NameOf, InlineName, scan
    <3> QED
      BY <3>1, <3>2, <3>3, <3>4 DEF Clean, Allocations, table, scan
  <2>8. CASE Terminate
    BY <2>8, TerminateClean
  <2> QED
    BY <2>1, <2>2, <2>3, <2>4, <2>5, <2>6, <2>7, <2>8 DEF Next
<1>3. IInv /\ Clean /\ [Next]_vars => (IInv /\ Clean)'
  BY <1>2, NextInv
<1> QED
  BY InitInv, <1>1, <1>3, PTL DEF Spec

(***************************************************************************)
(* The theorems                                                            *)
(***************************************************************************)

\* Every variable keeps its type.
THEOREM TypeCorrect == Spec => []TypeOK
<1>1. IInv => TypeOK
  BY DEF IInv
<1> QED
  BY Invariance, <1>1, PTL

\* The pointers into the two arrays stay inside them, and the event count
\* keeps in step with the slots handed out.
THEOREM PointersInBounds == Spec => []InBounds
<1>1. IInv => InBounds
  BY DEF IInv
<1> QED
  BY Invariance, <1>1, PTL

\* Every event below perf_nevents passes pfm_perf_validate_table, after any
\* mixture of skipped, reused and failed directories; in memory that realloc
\* added it passes all of it but the search behind the last unit mask.
THEOREM TableComplete == Spec => []EventsComplete
<1>1. IInv /\ OInv /\ Cleared => EventsComplete
  <2> SUFFICES ASSUME IInv, OInv, Cleared, pc # "down", pe = "heap", NEW i \in Tracepoint
               PROVE  /\ Shaped(i) /\ Named(i)
                      /\ i < NStatic + AllocEvents => NoExcess(i)
    BY DEF EventsComplete, ValidEvent
  <2>1. Shaped(i) /\ NameOf(session, i) \in heap
    BY DEF IInv, Counted
  <2>2. InlineNamed(i, ev[i].numasks) /\ Chain(i, ev[i].numasks)
    BY DEF IInv, Blocks, OInv, Chains
  <2>3. Named(i)
    BY <2>1, <2>2 DEF Named, InlineNamed, Chain
  <2>4. i \in Slot
    <3>1. nevents <= NStatic + dirs
      <4>1. pc \in {"scan", "entries", "close", "up"}
        BY DEF Cleared, IInv, TypeOK
      <4> QED
        BY <4>1, Numbers DEF IInv, InBounds, Position
    <3> QED
      BY <3>1, Numbers DEF IInv, Tracepoint, Slot
  <2>5. i < NStatic + AllocEvents => NoExcess(i)
    BY <2>4 DEF Cleared, NoExcess
  <2> QED
    BY <2>1, <2>3, <2>5
<1> QED
  BY OverflowInvariance, ClearedInvariance, <1>1, PTL

\* pfm_perf_terminate frees only what is allocated.
THEOREM TerminateSafe == Spec => []FreesAllocated
<1>1. IInv => FreesAllocated
  <2> SUFFICES ASSUME IInv, pc = "up", pe # "null", um PROVE pe = "heap" /\ ToFree \subseteq heap
    BY DEF FreesAllocated
  <2>1. pe = "heap" /\ PeBlock(session) \in heap /\ UmBlock(session) \in heap
        /\ \A i \in Tracepoint : InlineNamed(i, ev[i].numasks)
    BY DEF IInv, Blocks
  <2>2. \A i \in Tracepoint : NameOf(session, i) \in heap
    BY <2>1 DEF IInv, Counted
  <2>3. \A i \in Tracepoint : \A j \in 0 .. Lesser(ev[i].numasks, MaxInline) - 1 : InlineName(session, i, j) \in heap
    BY <2>1 DEF InlineNamed
  <2>4. UNION {{InlineName(session, i, j) : j \in 0 .. Lesser(ev[i].numasks, MaxInline) - 1} : i \in Tracepoint} \subseteq heap
    BY <2>3
  <2>5. {NameOf(session, i) : i \in Tracepoint} \subseteq heap
    BY <2>2
  <2>6. {PeBlock(session), UmBlock(session)} \subseteq heap
    BY <2>1
  <2>7. ToFree \subseteq heap
    BY <2>4, <2>5, <2>6 DEF ToFree
  <2> QED
    BY <2>1, <2>7
<1> QED
  BY Invariance, <1>1, PTL

\* "All unit masks for an event are contiguous in the overflow table": the
\* index of an event and the number of its unit masks lead perf_attridx2um to
\* unit masks of this event with a name, although events without unit masks
\* and directories given up leave their own in between.
THEOREM OverflowUnitMasksContiguous == Spec => []OverflowContiguous
<1>1. IInv /\ OInv => OverflowContiguous
  BY DEF OInv, Chains, Chain, OverflowContiguous
<1> QED
  BY OverflowInvariance, <1>1, PTL

\* Nothing stays allocated after pfm_perf_terminate, unless something failed
\* or a session had no overflow unit masks: then the early return of
\* pfm_perf_terminate leaves the table behind.
THEOREM NothingLeaks == Spec => []NoLeak
<1>1. Clean => NoLeak
  BY DEF Clean, NoLeak
<1> QED
  BY CleanInvariance, <1>1, PTL
=============================================================================

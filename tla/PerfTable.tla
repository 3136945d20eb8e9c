----------------------------- MODULE PerfTable -----------------------------
(***************************************************************************)
(* The event table of the perf PMU (src/lib/pfmlib_perf_event_pmu.c).      *)
(* pfm_perf_init clones the static table and appends one event per         *)
(* directory of the tracepoint file system, with one unit mask per entry   *)
(* of the directory; events and unit masks live in two arrays that grow by *)
(* realloc.  pfm_perf_terminate frees what was allocated, and the library  *)
(* can be initialized again.                                               *)
(*                                                                         *)
(* Pointers into an array are indexes; names are only of interest as the   *)
(* heap blocks they are.  The content of the file system is arbitrary, and *)
(* every allocation and every read may fail.                               *)
(***************************************************************************)
EXTENDS Integers, FiniteSets

CONSTANTS
    NStatic,       \* PME_PERF_EVENT_COUNT
    AllocEvents,   \* PERF_ALLOC_EVENT_COUNT
    AllocUmasks,   \* PERF_ALLOC_UMASK_COUNT
    MaxInline,     \* PERF_MAX_UMASKS
    MaxDirs,       \* bound: directories of the tracepoint file system
    MaxEntries,    \* bound: entries of a directory
    MaxSessions    \* bound: number of initializations

ASSUME PerfAssumption ==
    /\ NStatic \in Nat
    /\ AllocEvents \in Nat \ {0}
    /\ AllocUmasks \in Nat \ {0}
    /\ MaxInline \in Nat \ {0}
    /\ MaxDirs \in Nat
    /\ MaxEntries \in Nat
    /\ MaxSessions \in Nat

VARIABLES
    pc,        \* "down", "scan" (dir1 loop), "entries" (dir2 loop), "up", "undefined"
    session,   \* number of calls of pfm_perf_init
    pe,        \* what perf_pe designates: "static", "heap" or "null"
    nevents,   \* perf_nevents
    peFree,    \* perf_pe_free - perf_pe
    peEnd,     \* perf_pe_end - perf_pe
    peCount,   \* perf_pe_count
    ev,        \* the events of the allocated table
    um,        \* perf_um # NULL
    umFree,    \* perf_um_free - perf_um
    umEnd,     \* perf_um_end - perf_um
    umCount,   \* perf_um_count
    owner,     \* history: the event for which an overflow unit mask was allocated
    dirs,      \* directories visited
    entries,   \* entries read in the current directory
    p,         \* the event being filled
    reuse,     \* reuse_event
    numasks,   \* numasks
    err,       \* err < 0
    heap,      \* allocated blocks
    failed,    \* history: an allocation or a read failed
    early      \* history: pfm_perf_terminate returned early with a dynamic table

table == <<pe, nevents, peFree, peEnd, peCount, ev>>
umasks == <<um, umFree, umEnd, umCount, owner>>
scan == <<dirs, entries, p, reuse, numasks, err>>
vars == <<pc, session, table, umasks, scan, heap, failed, early>>

NoIdx == -1                            \* PERF_INVAL_OVFL_IDX
Slot == 0 .. NStatic + MaxDirs         \* events a table can have
UmSlot == 0 .. MaxDirs * MaxEntries    \* overflow unit masks

\* An event: its number of unit masks, the index of the first one in the
\* overflow table, and whether the memory it was put in was clear: nothing
\* writes the unit masks behind the last one.
Event == [numasks : 0 .. MaxEntries, ovfl : Nat \cup {NoIdx}, zeroed : BOOLEAN]
Blank(z) == [numasks |-> 0, ovfl |-> NoIdx, zeroed |-> z]

\* heap blocks of a session
PeBlock(s) == <<s, "pe">>
UmBlock(s) == <<s, "um">>
DirBlock(s) == <<s, "dir">>
NameOf(s, i) == <<s, "event", i>>
InlineName(s, i, j) == <<s, "umask", i, j>>
OvflName(s, k) == <<s, "ovfl", k>>

Init ==
    /\ pc = "down" /\ session = 0
    /\ pe = "static" /\ nevents = NStatic
    /\ peFree = 0 /\ peEnd = 0 /\ peCount = 0
    /\ ev = [i \in Slot |-> Blank(TRUE)]
    /\ um = FALSE /\ umFree = 0 /\ umEnd = 0 /\ umCount = 0
    /\ owner = [k \in UmSlot |-> NoIdx]
    /\ dirs = 0 /\ entries = 0 /\ p = 0 /\ reuse = FALSE /\ numasks = 0 /\ err = FALSE
    /\ heap = {} /\ failed = FALSE /\ early = FALSE

(***************************************************************************)
(* pfm_perf_init and gen_tracepoint_table                                  *)
(***************************************************************************)

\* there is no tracepoint directory: the static table is used as it is
InitStatic ==
    /\ pc = "down" /\ session < MaxSessions
    /\ session' = session + 1
    /\ pe' = "static" /\ nevents' = NStatic
    /\ pc' = "up"
    /\ UNCHANGED <<peFree, peEnd, peCount, ev, umasks, scan, heap, failed, early>>

\* perf_table_clone; gen_tracepoint_table goes on when it returns NULL.  calloc
\* clears the first allocation; clear says whether the memory that realloc adds
\* later happens to be
InitScan(cloned, clear) ==
    /\ pc = "down" /\ session < MaxSessions
    /\ session' = session + 1
    /\ nevents' = NStatic
    /\ peCount' = NStatic + AllocEvents
    /\ IF cloned
       THEN /\ pe' = "heap"
            /\ peFree' = NStatic
            /\ peEnd' = NStatic + AllocEvents
            /\ ev' = [i \in Slot |-> Blank(clear \/ i < NStatic + AllocEvents)]
            /\ heap' = heap \cup {PeBlock(session + 1)}
       ELSE /\ pe' = "static"
            /\ UNCHANGED <<peFree, peEnd, ev, heap>>
    /\ failed' = (failed \/ ~cloned)
    /\ dirs' = 0 /\ entries' = 0 /\ p' = 0 /\ reuse' = FALSE /\ numasks' = 0 /\ err' = FALSE
    /\ pc' = "scan"
    /\ UNCHANGED <<umasks, early>>

\* mutant: the end of the array computed from the pointer after the new slot
MutTakeEvent(grown) ==
    /\ peFree' = peFree + 1
    /\ peEnd' = IF grown THEN peFree + 1 + AllocEvents ELSE peEnd
    /\ peCount' = IF grown THEN peCount + AllocEvents ELSE peCount

\* perf_table_alloc_event, as far as the array is concerned
RoomForEvent == peFree < peEnd
TakeEvent(grown) ==
    /\ peFree' = peFree + 1
    /\ peEnd' = IF grown THEN peFree + AllocEvents ELSE peEnd
    /\ peCount' = IF grown THEN peCount + AllocEvents ELSE peCount

\* the next directory, when the loop on dir1 goes on
NextDir ==
    /\ pc = "scan" /\ ~err /\ dirs < MaxDirs
    /\ dirs' = dirs + 1

\* mutant: numasks not reset for the next directory
MutFill(i) ==
    /\ p' = i
    /\ ev' = [ev EXCEPT ![i].ovfl = NoIdx]
    /\ heap' = heap \cup {NameOf(session, i)}
    /\ entries' = 0 /\ reuse' = FALSE
    /\ pc' = "entries"
    /\ UNCHANGED <<numasks, err, failed>>

\* a slot was found for the event of the directory (index i) and filled
Fill(i) ==
    /\ p' = i
    /\ ev' = [ev EXCEPT ![i].ovfl = NoIdx]
    /\ heap' = heap \cup {NameOf(session, i)}
    /\ numasks' = 0 /\ entries' = 0 /\ reuse' = FALSE
    /\ pc' = "entries"
    /\ UNCHANGED <<err, failed>>

\* a slot was found, and there is no memory for its name: the scan ends
NoName(i) ==
    /\ p' = i
    /\ err' = TRUE /\ failed' = TRUE
    /\ UNCHANGED <<pc, ev, heap, numasks, entries, reuse>>

OpenDir ==
    /\ NextDir
    /\ pe = "heap"
    /\ IF reuse
       THEN /\ Fill(p) \/ NoName(p)
            /\ UNCHANGED <<peFree, peEnd, peCount>>
       ELSE /\ TakeEvent(~RoomForEvent)
            /\ Fill(peFree) \/ NoName(peFree)
    /\ UNCHANGED <<session, pe, nevents, umasks, early>>

\* realloc failed: the loop is left without closing the directory
OpenDirNoMemory ==
    /\ NextDir
    /\ pe = "heap" /\ ~reuse /\ ~RoomForEvent
    /\ peCount' = peCount + AllocEvents
    /\ heap' = heap \cup {DirBlock(session)}
    /\ failed' = TRUE
    /\ pc' = "up"
    /\ UNCHANGED <<session, pe, nevents, peFree, peEnd, ev, umasks, entries, p, reuse, numasks, err, early>>

\* the clone failed: perf_table_alloc_event reallocates the static array, or
\* returns a pointer into a table of an earlier session
OpenDirNoTable ==
    /\ NextDir
    /\ pe # "heap"
    /\ pc' = "undefined"
    /\ UNCHANGED <<session, table, umasks, entries, p, reuse, numasks, err, heap, failed, early>>

NextEntry ==
    /\ pc = "entries" /\ entries < MaxEntries
    /\ entries' = entries + 1
    /\ UNCHANGED <<session, pe, nevents, peFree, peEnd, peCount, dirs, p, reuse, early>>

\* the id file of an entry could not be read: the entry is ignored
ReadFails ==
    /\ NextEntry
    /\ err' = TRUE /\ failed' = TRUE
    /\ UNCHANGED <<pc, ev, umasks, numasks, heap>>

\* leaving the loop on dir2 with err = -1
Break ==
    /\ err' = TRUE /\ failed' = TRUE
    /\ pc' = "close"

\* one of the first unit masks of an event
AddInline ==
    /\ NextEntry
    /\ numasks < MaxInline
    /\ \/ /\ heap' = heap \cup {InlineName(session, p, numasks)}
          /\ numasks' = numasks + 1
          /\ err' = FALSE
          /\ UNCHANGED <<pc, failed>>
       \/ Break /\ UNCHANGED <<heap, numasks>>
    /\ UNCHANGED <<ev, umasks>>

\* mutant: the overflow index set for each overflow unit mask
MutAddOverflow ==
    LET grow == ~(umFree < umEnd)
    IN  /\ NextEntry
        /\ numasks >= MaxInline
        /\ um' = TRUE
        /\ umFree' = umFree + 1
        /\ umEnd' = IF grow THEN umFree + AllocUmasks ELSE umEnd
        /\ umCount' = IF grow THEN umCount + AllocUmasks ELSE umCount
        /\ owner' = [owner EXCEPT ![umFree] = p]
        /\ ev' = [ev EXCEPT ![p].ovfl = umFree]
        /\ \/ /\ heap' = heap \cup {UmBlock(session), OvflName(session, umFree)}
              /\ numasks' = numasks + 1
              /\ err' = FALSE
              /\ UNCHANGED <<pc, failed>>
           \/ /\ Break
              /\ heap' = heap \cup {UmBlock(session)}
              /\ UNCHANGED numasks

\* one more unit mask: perf_table_alloc_umask, then its name
AddOverflow ==
    LET grow == ~(umFree < umEnd)
    IN  /\ NextEntry
        /\ numasks >= MaxInline
        /\ um' = TRUE
        /\ umFree' = umFree + 1
        /\ umEnd' = IF grow THEN umFree + AllocUmasks ELSE umEnd
        /\ umCount' = IF grow THEN umCount + AllocUmasks ELSE umCount
        /\ owner' = [owner EXCEPT ![umFree] = p]
        /\ ev' = IF numasks = MaxInline THEN [ev EXCEPT ![p].ovfl = umFree] ELSE ev
        /\ \/ /\ heap' = heap \cup {UmBlock(session), OvflName(session, umFree)}
              /\ numasks' = numasks + 1
              /\ err' = FALSE
              /\ UNCHANGED <<pc, failed>>
           \/ /\ Break
              /\ heap' = heap \cup {UmBlock(session)}
              /\ UNCHANGED numasks

\* realloc failed; the index of the first overflow unit mask is then computed
\* from a NULL pointer
AddOverflowNoMemory ==
    /\ NextEntry
    /\ numasks >= MaxInline /\ ~(umFree < umEnd)
    /\ umCount' = umCount + AllocUmasks
    /\ \E garbage \in {NoIdx, 0} :
          ev' = IF numasks = MaxInline THEN [ev EXCEPT ![p].ovfl = garbage] ELSE ev
    /\ Break
    /\ UNCHANGED <<um, umFree, umEnd, owner, numasks, heap>>

\* mutant: reuse_event not reset when the event counts
MutCloseDirReuse ==
    /\ pc \in {"entries", "close"}
    /\ ev' = [ev EXCEPT ![p].numasks = numasks]
    /\ heap' = IF numasks = 0 THEN heap \ {NameOf(session, p)} ELSE heap
    /\ reuse' = TRUE
    /\ nevents' = IF numasks > 0 /\ ~err THEN nevents + 1 ELSE nevents
    /\ pc' = "scan"
    /\ UNCHANGED <<session, pe, peFree, peEnd, peCount, umasks, dirs, entries, p, numasks, err, failed, early>>

\* mutant: an event without unit masks counts as well
MutCloseDirEmpty ==
    /\ pc \in {"entries", "close"}
    /\ ev' = [ev EXCEPT ![p].numasks = numasks]
    /\ heap' = IF numasks = 0 THEN heap \ {NameOf(session, p)} ELSE heap
    /\ reuse' = (numasks = 0)
    /\ nevents' = IF ~err THEN nevents + 1 ELSE nevents
    /\ pc' = "scan"
    /\ UNCHANGED <<session, pe, peFree, peEnd, peCount, umasks, dirs, entries, p, numasks, err, failed, early>>

\* the end of a directory: an event without unit masks is given back, an
\* event is counted when no error was reported
CloseDir ==
    /\ pc \in {"entries", "close"}
    /\ ev' = [ev EXCEPT ![p].numasks = numasks]
    /\ heap' = IF numasks = 0 THEN heap \ {NameOf(session, p)} ELSE heap
    /\ reuse' = (numasks = 0)
    /\ nevents' = IF numasks > 0 /\ ~err THEN nevents + 1 ELSE nevents
    /\ pc' = "scan"
    /\ UNCHANGED <<session, pe, peFree, peEnd, peCount, umasks, dirs, entries, p, numasks, err, failed, early>>

\* no more directories, or an error
EndScan ==
    /\ pc = "scan"
    /\ pc' = "up"
    /\ UNCHANGED <<session, table, umasks, scan, heap, failed, early>>

(***************************************************************************)
(* pfm_perf_terminate                                                      *)
(***************************************************************************)
Tracepoint == NStatic .. nevents - 1
Lesser(a, b) == IF a < b THEN a ELSE b

\* mutant: the names of the inline unit masks are forgotten
MutToFree ==
    {PeBlock(session), UmBlock(session)}
    \cup {NameOf(session, i) : i \in Tracepoint}
    \cup ({OvflName(session, k) : k \in 0 .. umFree - 1} \cap heap)

\* the blocks it passes to free
ToFree ==
    {PeBlock(session), UmBlock(session)}
    \cup {NameOf(session, i) : i \in Tracepoint}
    \cup (UNION {{InlineName(session, i, j) : j \in 0 .. Lesser(ev[i].numasks, MaxInline) - 1} : i \in Tracepoint})
    \cup ({OvflName(session, k) : k \in 0 .. umFree - 1} \cap heap)

Terminate ==
    /\ pc = "up"
    /\ pc' = "down"
    /\ IF pe # "null" /\ um
       THEN /\ heap' = heap \ ToFree
            /\ pe' = "null" /\ peFree' = 0 /\ peEnd' = 0
            /\ um' = FALSE /\ umFree' = 0 /\ umEnd' = 0
            /\ early' = early
       ELSE /\ early' = (early \/ pe = "heap")
            /\ UNCHANGED <<heap, pe, peFree, peEnd, um, umFree, umEnd>>
    /\ owner' = [k \in UmSlot |-> NoIdx]
    /\ UNCHANGED <<session, nevents, peCount, ev, umCount, scan, failed>>

Next ==
    \/ InitStatic
    \/ \E cloned, clear \in BOOLEAN : InitScan(cloned, clear)
    \/ OpenDir
    \/ OpenDirNoMemory
    \/ OpenDirNoTable
    \/ ReadFails
    \/ AddInline
    \/ AddOverflow
    \/ AddOverflowNoMemory
    \/ CloseDir
    \/ EndScan
    \/ Terminate

Spec == Init /\ [][Next]_vars

(***************************************************************************)
(* Properties                                                              *)
(***************************************************************************)
TypeOK ==
    /\ pc \in {"down", "scan", "entries", "close", "up", "undefined"}
    /\ session \in 0 .. MaxSessions
    /\ pe \in {"static", "heap", "null"}
    /\ nevents \in Nat /\ peFree \in Nat /\ peEnd \in Nat /\ peCount \in Nat
    /\ ev \in [Slot -> Event]
    /\ um \in BOOLEAN
    /\ umFree \in Nat /\ umEnd \in Nat /\ umCount \in Nat
    /\ owner \in [UmSlot -> Slot \cup {NoIdx}]
    /\ dirs \in 0 .. MaxDirs /\ entries \in 0 .. MaxEntries
    /\ p \in Slot /\ numasks \in 0 .. MaxEntries
    /\ reuse \in BOOLEAN /\ err \in BOOLEAN
    /\ failed \in BOOLEAN /\ early \in BOOLEAN

\* The array arithmetic is right: the free pointers stay inside what was
\* allocated although the counts are bumped before realloc succeeds and are
\* not reset between sessions, and the number of events stays in step with
\* the free pointer although a slot is handed out before its event is known
\* to count (perf_table_alloc_event, reuse_event, perf_nevents++).
InBounds ==
    /\ umFree <= umEnd /\ umEnd <= umCount
    /\ pe = "heap" => /\ nevents <= peFree /\ peFree <= peEnd /\ peEnd <= peCount
    /\ (pc = "scan" /\ pe = "heap" /\ ~err) => peFree = nevents + (IF reuse THEN 1 ELSE 0)

(***************************************************************************)
(* What pfm_perf_validate_table requires of the event of a directory; the  *)
(* description, the type and the groups are the same for all of them.      *)
(***************************************************************************)

\* it has unit masks, for it has a group of them, and an overflow index exactly
\* when they do not fit in the event (either is accepted when they just fit)
Shaped(i) ==
    /\ ev[i].numasks > 0
    /\ ev[i].numasks > MaxInline => ev[i].ovfl # NoIdx
    /\ ev[i].numasks < MaxInline => ev[i].ovfl = NoIdx

\* it has a name and so has each of its unit masks
Named(i) ==
    /\ NameOf(session, i) \in heap
    /\ \A j \in 0 .. Lesser(ev[i].numasks, MaxInline) - 1 : InlineName(session, i, j) \in heap
    /\ \A j \in MaxInline .. ev[i].numasks - 1 : OvflName(session, ev[i].ovfl + (j - MaxInline)) \in heap

\* there is nothing in the event behind its last unit mask
NoExcess(i) == ev[i].numasks < MaxInline => ev[i].zeroed

ValidEvent(i) == Shaped(i) /\ Named(i) /\ NoExcess(i)

\* Every event below perf_nevents is one that pfm_perf_validate_table accepts,
\* whatever directories were skipped, reused or given up before it; of the
\* events in memory that realloc added, all but what is behind their last unit
\* mask.
EventsComplete ==
    (pc # "down" /\ pe = "heap") =>
        \A i \in Tracepoint :
            IF i < NStatic + AllocEvents THEN ValidEvent(i) ELSE Shaped(i) /\ Named(i)

\* "All unit masks for an event are contiguous in the overflow table": those
\* that perf_attridx2um reaches from the index of the event are its own.
OverflowContiguous ==
    (pc # "down" /\ pe = "heap") =>
        \A i \in Tracepoint :
            \A j \in MaxInline .. ev[i].numasks - 1 :
                LET k == ev[i].ovfl + (j - MaxInline)
                IN  k \in 0 .. umFree - 1 /\ owner[k] = i /\ OvflName(session, k) \in heap

\* pfm_perf_terminate passes to free blocks that are allocated and were not
\* freed before, and never the static table.
FreesAllocated == (pc = "up" /\ pe # "null" /\ um) => pe = "heap" /\ ToFree \subseteq heap

\* When no allocation and no read failed and no session had fewer than
\* PERF_MAX_UMASKS + 1 unit masks per event, nothing stays allocated.
NoLeak == (pc = "down" /\ ~failed /\ ~early) => heap = {}
============================================================================

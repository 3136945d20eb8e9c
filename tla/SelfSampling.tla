--------------------------- MODULE SelfSampling ---------------------------
(***************************************************************************)
(* Threads that sample themselves (src/perf_examples/self_smpl_multi.c).   *)
(* The event of a thread is enabled for one sample (PERF_EVENT_IOC_REFRESH *)
(* of 1): the kernel writes the sample, stops the event and raises SIGIO   *)
(* with the descriptor of the event.  The handler reads the header of the  *)
(* record, skips the rest, and enables the event for one more sample.      *)
(*                                                                         *)
(* With the option -f the signal is for the thread of the event, otherwise *)
(* it is for the process, where any thread takes it.  SIGIO is no realtime *)
(* signal: one that is raised while another is pending is discarded, with  *)
(* its descriptor.                                                         *)
(*                                                                         *)
(* An event is named after its thread.  The ring buffer of an event is the *)
(* stream that SampleBuffer implements, in units of 8 bytes: the headers   *)
(* of a sample and of a report of throttling, and the values behind them.  *)
(* A reader that is out of step takes a value for a header, and skips      *)
(* whatever its size field then holds: it may end up between two units.    *)
(* A buffer that fills up, where the kernel drops records, is left out.    *)
(***************************************************************************)
EXTENDS Integers, Sequences

CONSTANTS
    Threads,     \* the threads that sample themselves
    Main,        \* the thread that waits for them
    None,        \* no event
    FownValues,  \* values of the option -f
    MaxSamples   \* bound: samples of all events

ASSUME ThreadAssumption ==
    /\ Main \notin Threads /\ None \notin Threads
    /\ FownValues \subseteq BOOLEAN /\ MaxSamples \in Nat

VARIABLES
    fown,      \* the option
    pc,        \* where a thread is
    fds,       \* the memory of the descriptor of an event
    owner,     \* whom the kernel sends the signal of an event
    event,     \* "off", "on", or "fired": stopped by its sample
    throttled, \* whether the kernel owes the event an UNTHROTTLE record
    buf,       \* what is unread in the buffer of an event
    odd,       \* whether data_tail is inside the first of its units
    private,   \* whether SIGIO is pending for a thread
    shared,    \* the descriptor of the SIGIO pending for the process
    handler,   \* the execution of sigio_handler in a thread
    samples,   \* history: samples of all events
    reports,   \* history: events that were throttled
    skids      \* history: events stopped while their signal was pending

program == <<fown, pc, fds, owner>>
kernel == <<event, throttled, buf, odd, private, shared, samples, reports, skids>>
vars == <<program, kernel, handler>>

All == Threads \cup {Main}
Idle == [fd |-> None, at |-> "idle", size |-> 0]

Init ==
    /\ fown \in FownValues
    /\ pc = [u \in All |-> IF u = Main THEN "join" ELSE "start"]
    /\ fds = [t \in Threads |-> "none"]
    /\ owner = [t \in Threads |-> "none"]
    /\ event = [t \in Threads |-> "off"]
    /\ throttled = [t \in Threads |-> FALSE]
    /\ buf = [t \in Threads |-> <<>>]
    /\ odd = [t \in Threads |-> FALSE]
    /\ private = [t \in Threads |-> FALSE]
    /\ shared = None
    /\ handler = [u \in All |-> Idle]
    /\ samples = 0
    /\ reports = {} /\ skids = {}

(***************************************************************************)
(* The kernel                                                              *)
(***************************************************************************)
SampleRecord == << "sample", "value" >>
ReportRecord == << "report", "value", "value", "value" >>

\* the event fires in its thread; one that fires too often is throttled first
Overflow(t, throttle) ==
    /\ event[t] = "on" /\ pc[t] # "exit" /\ samples < MaxSamples
    /\ buf' = [buf EXCEPT ![t] = @ \o (IF throttle THEN ReportRecord ELSE <<>>) \o SampleRecord]
    /\ throttled' = [throttled EXCEPT ![t] = throttle]
    /\ reports' = IF throttle THEN reports \cup {t} ELSE reports
    /\ event' = [event EXCEPT ![t] = "fired"]
    /\ samples' = samples + 1
    /\ IF owner[t] = "thread"
       THEN private' = [private EXCEPT ![t] = TRUE] /\ UNCHANGED shared
       ELSE shared' = (IF shared = None THEN t ELSE shared) /\ UNCHANGED private
    /\ UNCHANGED <<program, odd, skids, handler>>

\* PERF_EVENT_IOC_REFRESH of 1; the event of a thread that is gone stays off
Refresh(t) ==
    /\ event' = [event EXCEPT ![t] = IF pc[t] = "exit" THEN "off" ELSE "on"]
    /\ buf' = [buf EXCEPT ![t] = @ \o (IF throttled[t] THEN ReportRecord ELSE <<>>)]
    /\ throttled' = [throttled EXCEPT ![t] = FALSE]

(***************************************************************************)
(* A thread of the program                                                 *)
(***************************************************************************)

\* the handler in a thread returns before the thread goes on
Step(t, from, to) ==
    /\ pc[t] = from /\ handler[t] = Idle
    /\ pc' = [pc EXCEPT ![t] = to]

\* a signal for the thread interrupts it before its next step, unless that is a
\* system call inside which the signal is raised
Interruptible(t, from, to) == Step(t, from, to) /\ ~private[t]

\* mutant: F_SETOWN whatever the option says
MutOverflowStart(t) ==
    /\ Interruptible(t, "start", "refresh")
    /\ fds' = [fds EXCEPT ![t] = "live"]
    /\ owner' = [owner EXCEPT ![t] = "process"]
    /\ UNCHANGED <<fown, kernel, handler>>

\* overflow_start up to the REFRESH: fds, fd2ov and the owner of the signal
OverflowStart(t) ==
    /\ Interruptible(t, "start", "refresh")
    /\ fds' = [fds EXCEPT ![t] = "live"]
    /\ owner' = [owner EXCEPT ![t] = IF fown THEN "thread" ELSE "process"]
    /\ UNCHANGED <<fown, kernel, handler>>

OverflowRefresh(t) ==
    /\ Interruptible(t, "refresh", "cycles")
    /\ Refresh(t)
    /\ UNCHANGED <<fown, fds, owner, odd, private, shared, samples, reports, skids, handler>>

\* mutant: the descriptors are freed before the event is stopped
MutOverflowStop(t) ==
    /\ Step(t, "cycles", "free")
    /\ fds' = [fds EXCEPT ![t] = "freed"]
    /\ UNCHANGED <<fown, owner, kernel, handler>>

\* the time of do_cycles is over; PERF_EVENT_IOC_DISABLE.  A signal that the
\* event raises at the entry of the call is delivered on its return
OverflowStop(t) ==
    /\ Step(t, "cycles", "free")
    /\ event' = [event EXCEPT ![t] = "off"]
    /\ skids' = IF private[t] THEN skids \cup {t} ELSE skids
    /\ UNCHANGED <<fown, fds, owner, throttled, buf, odd, private, shared, samples, reports, handler>>

\* perf_free_fds; fd2ov keeps its pointer
FreeFds(t) ==
    /\ Interruptible(t, "free", "leave")
    /\ fds' = [fds EXCEPT ![t] = "freed"]
    /\ UNCHANGED <<fown, owner, kernel, handler>>

\* pthread_exit, a system call as well
Leave(t) ==
    /\ Step(t, "leave", "exit")
    /\ event' = [event EXCEPT ![t] = "off"]
    /\ UNCHANGED <<fown, fds, owner, throttled, buf, odd, private, shared, samples, reports, skids, handler>>

(***************************************************************************)
(* sigio_handler                                                           *)
(***************************************************************************)

\* SIGIO is blocked while its handler runs; main unblocks what it has blocked
Deliver(u) ==
    /\ pc[u] # "exit" /\ handler[u] = Idle
    /\ \/ /\ u \in Threads /\ private[u]
          /\ private' = [private EXCEPT ![u] = FALSE]
          /\ handler' = [handler EXCEPT ![u] = [fd |-> u, at |-> "read", size |-> 0]]
          /\ UNCHANGED shared
       \/ /\ shared # None
          /\ shared' = None
          /\ handler' = [handler EXCEPT ![u] = [fd |-> shared, at |-> "read", size |-> 0]]
          /\ UNCHANGED private
    /\ UNCHANGED <<program, event, throttled, buf, odd, samples, reports, skids>>

At(u, from, to) ==
    /\ handler[u].at = from
    /\ handler' = [handler EXCEPT ![u].at = to]

\* the size field of what is no header
Unknown == -1

\* mutant: the size behind the header
MutRecordSize(header) ==
    CASE header = "sample" -> Len(SampleRecord) - 1
      [] header = "report" -> Len(ReportRecord) - 1
      [] OTHER -> Unknown

\* what ehdr.size holds
RecordSize(header) ==
    CASE header = "sample" -> Len(SampleRecord)
      [] header = "report" -> Len(ReportRecord)
      [] OTHER -> Unknown

\* the header, through the descriptors of the thread of the event, if 8 bytes
\* are there; the counts of samples, of other messages and of mismatches are
\* left out
HandlerRead(u) ==
    LET e == handler[u].fd
    IN  /\ handler[u].at = "read"
        /\ IF fds[e] = "live" /\ Len(buf[e]) >= (IF odd[e] THEN 2 ELSE 1)
           THEN /\ handler' = [handler EXCEPT ![u] = [@ EXCEPT !.at = "skip",
                                   !.size = IF odd[e] THEN Unknown ELSE RecordSize(Head(buf[e]))]]
                /\ buf' = [buf EXCEPT ![e] = Tail(@)]
           ELSE /\ handler' = [handler EXCEPT ![u].at = IF fds[e] = "live" THEN "failed" ELSE "undefined"]
                /\ UNCHANGED buf
        /\ UNCHANGED <<program, event, throttled, odd, private, shared, samples, reports, skids>>

\* where perf_skip_buffer may leave data_tail, in a buffer of len units: past n
\* of them, and inside the next or not; it goes at most up to the end
Skips(size, len, inside) ==
    IF size # Unknown THEN {<<IF size < len THEN size ELSE len, FALSE>>}
    ELSE {p \in (0 .. len) \X BOOLEAN : /\ p[2] => p[1] < len
                                        /\ p[1] = 0 /\ inside /\ len > 0 => p[2]}

\* mutant: the event is enabled again before the record is consumed
MutHandlerSkip(u) ==
    LET e == handler[u].fd
    IN  /\ At(u, "skip", "refresh")
        /\ Refresh(e)
        /\ UNCHANGED <<program, odd, private, shared, samples, reports, skids>>

\* perf_skip_buffer of the size of the record, header included
HandlerSkip(u) ==
    LET e == handler[u].fd
    IN  /\ At(u, "skip", IF fds[e] = "live" THEN "refresh" ELSE "undefined")
        /\ \E p \in Skips(handler[u].size, Len(buf[e]), odd[e]) :
            /\ buf' = [buf EXCEPT ![e] = SubSeq(@, p[1] + 1, Len(@))]
            /\ odd' = [odd EXCEPT ![e] = p[2]]
        /\ UNCHANGED <<program, event, throttled, private, shared, samples, reports, skids>>

\* enables the event for one more sample, and returns
HandlerRefresh(u) ==
    /\ handler[u].at = "refresh"
    /\ handler' = [handler EXCEPT ![u] = Idle]
    /\ Refresh(handler[u].fd)
    /\ UNCHANGED <<program, odd, private, shared, samples, reports, skids>>

\* a handler has left by errx, or uses descriptors that are freed: what follows
\* is no longer the program's
Gone == \E u \in All : handler[u].at \in {"failed", "undefined"}

\* main returns when it has joined all threads, and the process ends
Running == (\E t \in Threads : pc[t] # "exit") /\ ~Gone

Next ==
    /\ Running
    /\ \/ \E t \in Threads :
            \/ OverflowStart(t) \/ OverflowRefresh(t) \/ OverflowStop(t) \/ FreeFds(t) \/ Leave(t)
            \/ \E throttle \in BOOLEAN : Overflow(t, throttle)
       \/ \E u \in All : Deliver(u) \/ HandlerRead(u) \/ HandlerSkip(u) \/ HandlerRefresh(u)

\* pending signals are delivered and handlers run; nothing makes a thread end
Fairness ==
    \A u \in All : /\ WF_vars(Running /\ Deliver(u)) /\ WF_vars(Running /\ HandlerRead(u))
                   /\ WF_vars(Running /\ HandlerSkip(u)) /\ WF_vars(Running /\ HandlerRefresh(u))

Spec == Init /\ [][Next]_vars /\ Fairness

(***************************************************************************)
(* Properties                                                              *)
(***************************************************************************)

\* type invariant: the threads, their events and the handlers; the size that a
\* handler skips is that of a record, of no record, or still unread
TypeOK ==
    /\ fown \in BOOLEAN
    /\ pc \in [All -> {"start", "refresh", "cycles", "free", "leave", "exit", "join"}]
    /\ fds \in [Threads -> {"none", "live", "freed"}]
    /\ owner \in [Threads -> {"none", "thread", "process"}]
    /\ event \in [Threads -> {"off", "on", "fired"}]
    /\ throttled \in [Threads -> BOOLEAN]
    /\ private \in [Threads -> BOOLEAN]
    /\ shared \in Threads \cup {None}
    /\ handler \in [All -> [fd : Threads \cup {None},
                            at : {"idle", "read", "skip", "refresh", "failed", "undefined"},
                            size : {0, 2, 4, Unknown}]]
    /\ odd \in [Threads -> BOOLEAN] /\ skids \subseteq Threads
    /\ samples \in Nat /\ reports \subseteq Threads

Active(u) == handler[u].at # "idle"

\* perf_read_buffer and perf_skip_buffer change data_tail without a lock: no
\* two threads are in the handler for the same event, whoever gets the signal
OneReader == \A u, v \in All : Active(u) /\ Active(v) /\ handler[u].fd = handler[v].fd => u = v

\* the buffer of an event that was never throttled is empty when the event is
\* enabled again, so that the handler always reads the header of a sample and
\* skips that sample; no event at all, throttled or not, has a handler that
\* finds no header and ends the program
OneRecord ==
    /\ \A t \in Threads \ reports :
        /\ event[t] = "on" => buf[t] = <<>>
        /\ shared = t \/ private[t] => buf[t] = SampleRecord
    /\ \A u \in All :
        /\ handler[u].at # "failed"
        /\ handler[u].at = "skip" /\ handler[u].fd \notin reports => handler[u].size = Len(SampleRecord)

\* an event that waits for its handler has its signal pending or its handler
\* running
Waited(t) == shared = t \/ private[t] \/ \E u \in All : handler[u].fd = t

\* with -f no signal is lost, and each reaches the thread of its event while
\* the descriptors of the thread are there; only a signal that is raised inside
\* the call that stops the event makes the handler enable it once more, and
\* that thread may free its descriptors before the last handler has run
OwnSignal ==
    fown => /\ \A t \in Threads : event[t] = "fired" => Waited(t)
            /\ \A u \in All : Active(u) =>
                /\ u \in Threads /\ handler[u].fd = u
                /\ fds[u] = "live" \/ u \in skids

\* with -f sampling goes on: an event that has fired is enabled again, or its
\* thread stops it; the program may end by the one case that OwnSignal leaves
SamplingGoesOn ==
    \A t \in Threads : (fown /\ event[t] = "fired") ~> (event[t] # "fired" \/ Gone)

\* using the descriptors of the other thread keeps every event from getting
\* stuck ("otherwise, it is going to get stuck with no more samples
\* generated"): one that has fired has a signal or a handler
NeverStuck == \A t \in Threads : event[t] = "fired" => Waited(t)
===========================================================================

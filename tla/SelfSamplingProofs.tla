------------------------ MODULE SelfSamplingProofs ------------------------
(***************************************************************************)
(* The handlers of self_smpl_multi.c, for any number of threads, with and  *)
(* without the option -f: one reader for each buffer, whole records, and   *)
(* with -f no signal lost.                                                 *)
(***************************************************************************)
EXTENDS SelfSampling, SequenceTheorems, TLAPS

Reads(u, t) == Active(u) /\ handler[u].fd = t

Types ==
    /\ TypeOK
    /\ buf \in [Threads -> Seq({"sample", "report", "value"})]
    /\ \A u \in All : Active(u) => handler[u].fd \in Threads

\* an event that has fired gave one signal: it is pending or with one handler,
\* and the event is not enabled meanwhile
Signals ==
    /\ OneReader
    /\ \A t \in Threads :
        /\ private[t] => shared # t
        /\ \A u \in All : Reads(u, t) => ~private[t] /\ shared # t
        /\ pc[t] \in {"start", "refresh"} => event[t] = "off"
        /\ private[t] \/ shared = t \/ (\E u \in All : Reads(u, t)) =>
              event[t] # "on" /\ pc[t] \notin {"start", "refresh"}

\* a signal comes with a sample, behind whatever was left unread
Unread ==
    /\ \A t \in Threads :
        private[t] \/ shared = t \/ (\E u \in All : handler[u].fd = t /\ handler[u].at = "read") =>
            Len(buf[t]) >= 2
    /\ \A u \in All : handler[u].at # "failed"

\* what is in the buffer of an event that was never throttled
Content(t) ==
    /\ ~throttled[t] /\ ~odd[t]
    /\ event[t] = "on" \/ pc[t] \in {"start", "refresh"} => buf[t] = <<>>
    /\ private[t] \/ shared = t => buf[t] = SampleRecord
    /\ \A u \in All : handler[u].fd = t =>
        /\ handler[u].at = "read" => buf[t] = SampleRecord
        /\ handler[u].at = "skip" => buf[t] = <<"value">> /\ handler[u].size = 2
        /\ handler[u].at = "refresh" => buf[t] = <<>>
Contents == \A t \in Threads \ reports : Content(t)

\* with -f a signal is for the thread of its event, which does not go on before
\* its handler has returned, unless the signal came inside the call that stops
\* the event
Own ==
    fown =>
        /\ shared = None
        /\ \A u \in All : Active(u) => u \in Threads /\ handler[u].fd = u
        /\ \A t \in Threads :
            /\ pc[t] # "start" => owner[t] = "thread"
            /\ pc[t] \in {"refresh", "cycles"} => fds[t] = "live"
            /\ pc[t] # "cycles" /\ t \notin skids => event[t] = "off" /\ ~private[t] /\ ~Active(t)
            /\ event[t] = "fired" => private[t] \/ Active(t)
            /\ t \in skids => pc[t] \notin {"start", "refresh", "cycles"}

IInv == Types /\ Signals /\ Unread /\ Contents /\ Own

USE ThreadAssumption DEF All, Active

\* the values of handler
Handlers == [fd : Threads \cup {None}, at : {"idle", "read", "skip", "refresh", "failed", "undefined"}, size : {0, 2, 4, Unknown}]

\* what the kernel writes
LEMMA RecordTypes ==
    /\ SampleRecord \in Seq({"sample", "report", "value"})
    /\ ReportRecord \in Seq({"sample", "report", "value"})
    /\ <<>> \in Seq({"sample", "report", "value"})
  <1>1. <<"sample", "value">> \in Seq({"sample", "report", "value"})
    OBVIOUS
  <1>2. <<"report", "value", "value", "value">> \in Seq({"sample", "report", "value"})
    OBVIOUS
  <1>3. <<>> \in Seq({"sample", "report", "value"})
    OBVIOUS
  <1> QED
    BY <1>1, <1>2, <1>3, Zenon DEF SampleRecord, ReportRecord

\* PERF_EVENT_IOC_REFRESH changes one event, and its buffer only when the kernel
\* owes it a record
LEMMA RefreshTyped ==
    ASSUME Types, NEW t \in Threads, Refresh(t)
    PROVE  /\ buf' \in [Threads -> Seq({"sample", "report", "value"})]
           /\ throttled' \in [Threads -> BOOLEAN]
           /\ event' \in [Threads -> {"off", "on", "fired"}]
           /\ ~throttled[t] => buf'[t] = buf[t]
           /\ ~throttled'[t]
           /\ \A s \in Threads : s # t => /\ buf'[s] = buf[s] /\ event'[s] = event[s]
                                         /\ throttled'[s] = throttled[s]
  <1> DEFINE r == IF throttled[t] THEN ReportRecord ELSE <<>>
  <1>1. buf' = [buf EXCEPT ![t] = buf[t] \o r]
    BY DEF Refresh, Types
  <1>2. buf[t] \in Seq({"sample", "report", "value"})
    BY DEF Types
  <1>3. r \in Seq({"sample", "report", "value"})
    BY RecordTypes
  <1>4. buf[t] \o r \in Seq({"sample", "report", "value"})
    BY <1>2, <1>3, ConcatProperties
  <1>5. buf' \in [Threads -> Seq({"sample", "report", "value"})] /\ buf'[t] = buf[t] \o r
    BY <1>1, <1>4 DEF Types
  <1>6. ~throttled[t] => buf'[t] = buf[t]
    BY <1>2, <1>5, ConcatEmptySeq
  <1>7. throttled' \in [Threads -> BOOLEAN] /\ ~throttled'[t]
    BY DEF Refresh, Types, TypeOK
  <1>8. event' \in [Threads -> {"off", "on", "fired"}]
    BY DEF Refresh, Types, TypeOK
  <1>9. \A s \in Threads : s # t => /\ buf'[s] = buf[s] /\ event'[s] = event[s] /\ throttled'[s] = throttled[s]
    BY DEF Refresh, Types, TypeOK
  <1> QED
    BY <1>5, <1>6, <1>7, <1>8, <1>9

\* the steps of a thread
LEMMA OverflowStartInv ==
    ASSUME IInv, NEW t \in Threads, OverflowStart(t)
    PROVE  IInv'
  <1>1. Types'
    BY DEF IInv, Types, TypeOK, OverflowStart, Interruptible, Step, program, kernel
  <1>2. Signals'
    BY DEF IInv, Types, TypeOK, Signals, OneReader, Reads, OverflowStart, Interruptible, Step, program, kernel
  <1>3. Contents'
    BY DEF IInv, Types, TypeOK, Signals, OneReader, Reads, Contents, Content, OverflowStart, Interruptible, Step, program, kernel
  <1>4. Own'
    BY DEF IInv, Types, TypeOK, Signals, OneReader, Reads, Own, OverflowStart, Interruptible, Step, program, kernel
  <1>5. Unread'
    BY DEF IInv, Types, TypeOK, Signals, Reads, Unread, OverflowStart, Interruptible, Step, program, kernel
  <1> QED
    BY <1>1, <1>2, <1>3, <1>4, <1>5 DEF IInv

LEMMA OverflowRefreshInv ==
    ASSUME IInv, NEW t \in Threads, OverflowRefresh(t)
    PROVE  IInv'
  <1>1. Types'
    <2>1. Types /\ Refresh(t)
      BY DEF IInv, OverflowRefresh
    <2> QED
      BY <2>1, RefreshTyped DEF Types, TypeOK, OverflowRefresh, Interruptible, Step
  <1>2. Signals'
    BY DEF IInv, Types, TypeOK, Signals, OneReader, Reads, OverflowRefresh, Refresh, Interruptible, Step, program, kernel
  <1>3. Contents'
    BY DEF IInv, Types, TypeOK, Signals, OneReader, Reads, Contents, Content, OverflowRefresh, Refresh, Interruptible, Step, program, kernel
  <1>4. Own'
    BY DEF IInv, Types, TypeOK, Signals, OneReader, Reads, Own, OverflowRefresh, Refresh, Interruptible, Step, program, kernel
  <1>5. Unread'
    BY DEF IInv, Types, TypeOK, Signals, Reads, Unread, OverflowRefresh, Refresh, Interruptible, Step, program, kernel
  <1> QED
    BY <1>1, <1>2, <1>3, <1>4, <1>5 DEF IInv

LEMMA OverflowStopInv ==
    ASSUME IInv, NEW t \in Threads, OverflowStop(t)
    PROVE  IInv'
  <1>1. Types'
    BY DEF IInv, Types, TypeOK, OverflowStop, Step, program, kernel
  <1>2. Signals'
    BY DEF IInv, Types, TypeOK, Signals, OneReader, Reads, OverflowStop, Step, program, kernel
  <1>3. Contents'
    BY DEF IInv, Types, TypeOK, Signals, OneReader, Reads, Contents, Content, OverflowStop, Step, program, kernel
  <1>4. Own'
    <2>1. pc[t] = "cycles" /\ handler[t].at = "idle" /\ (private[t] => t \in skids')
      BY DEF OverflowStop, Step, Idle
    <2>2. skids \subseteq skids' /\ \A s \in Threads : s # t => (s \in skids' <=> s \in skids)
      BY DEF OverflowStop
    <2> QED
      BY <2>1, <2>2 DEF IInv, Types, TypeOK, Own, OverflowStop, Step
  <1>5. Unread'
    BY DEF IInv, Types, TypeOK, Signals, Reads, Unread, OverflowStop, Step, program, kernel
  <1> QED
    BY <1>1, <1>2, <1>3, <1>4, <1>5 DEF IInv

LEMMA FreeFdsInv ==
    ASSUME IInv, NEW t \in Threads, FreeFds(t)
    PROVE  IInv'
  <1>1. Types'
    BY DEF IInv, Types, TypeOK, FreeFds, Interruptible, Step, program, kernel
  <1>2. Signals'
    BY DEF IInv, Types, TypeOK, Signals, OneReader, Reads, FreeFds, Interruptible, Step, program, kernel
  <1>3. Contents'
    BY DEF IInv, Types, TypeOK, Signals, OneReader, Reads, Contents, Content, FreeFds, Interruptible, Step, program, kernel
  <1>4. Own'
    BY DEF IInv, Types, TypeOK, Signals, OneReader, Reads, Own, FreeFds, Interruptible, Step, program, kernel
  <1>5. Unread'
    BY DEF IInv, Types, TypeOK, Signals, Reads, Unread, FreeFds, Interruptible, Step, program, kernel
  <1> QED
    BY <1>1, <1>2, <1>3, <1>4, <1>5 DEF IInv

LEMMA LeaveInv ==
    ASSUME IInv, NEW t \in Threads, Leave(t)
    PROVE  IInv'
  <1>1. Types'
    BY DEF IInv, Types, TypeOK, Leave, Step, program, kernel
  <1>2. Signals'
    BY DEF IInv, Types, TypeOK, Signals, OneReader, Reads, Leave, Step, program, kernel
  <1>3. Contents'
    BY DEF IInv, Types, TypeOK, Signals, OneReader, Reads, Contents, Content, Leave, Step, program, kernel
  <1>4. Own'
    BY DEF IInv, Types, TypeOK, Signals, OneReader, Reads, Own, Leave, Step, program, kernel
  <1>5. Unread'
    BY DEF IInv, Types, TypeOK, Signals, Reads, Unread, Leave, Step, program, kernel
  <1> QED
    BY <1>1, <1>2, <1>3, <1>4, <1>5 DEF IInv

\* the event fires: it had no signal, and its buffer was empty
LEMMA OverflowInv ==
    ASSUME IInv, NEW t \in Threads, NEW throttle \in BOOLEAN, Overflow(t, throttle)
    PROVE  IInv'
  <1> DEFINE r == IF throttle THEN ReportRecord ELSE <<>>
  <1>a. buf[t] \in Seq({"sample", "report", "value"}) /\ buf' = [buf EXCEPT ![t] = buf[t] \o r \o SampleRecord]
    BY DEF IInv, Types, Overflow
  <1>b. r \in Seq({"sample", "report", "value"}) /\ SampleRecord \in Seq({"sample", "report", "value"})
    BY RecordTypes
  <1>c. buf[t] \o r \o SampleRecord \in Seq({"sample", "report", "value"})
    <2>1. buf[t] \o r \in Seq({"sample", "report", "value"})
      BY <1>a, <1>b, ConcatProperties
    <2> QED
      BY <1>b, <2>1, ConcatProperties
  <1>d. /\ buf' \in [Threads -> Seq({"sample", "report", "value"})]
        /\ buf'[t] = buf[t] \o r \o SampleRecord
        /\ \A s \in Threads : s # t => buf'[s] = buf[s]
    BY <1>a, <1>c DEF IInv, Types
  <1>1. Types'
    <2>1. /\ throttled' \in [Threads -> BOOLEAN] /\ private' \in [Threads -> BOOLEAN]
          /\ event' \in [Threads -> {"off", "on", "fired"}]
          /\ shared' \in Threads \cup {None}
      BY DEF IInv, Types, TypeOK, Overflow
    <2>2. samples' \in Nat /\ reports' \subseteq Threads
      BY DEF IInv, Types, TypeOK, Overflow
    <2>3. UNCHANGED <<fown, pc, fds, owner, odd, skids, handler>>
      BY DEF Overflow, program
    <2> QED
      BY <1>d, <2>1, <2>2, <2>3 DEF IInv, Types, TypeOK
  <1>2. Signals'
    BY DEF IInv, Types, TypeOK, Signals, OneReader, Reads, Overflow, program, kernel
  <1>3. Contents'
    <2> SUFFICES ASSUME NEW s \in Threads \ reports'
                 PROVE  Content(s)'
      BY DEF Contents
    <2>1. reports' = (IF throttle THEN reports \cup {t} ELSE reports) /\ s \notin reports
      BY DEF Overflow
    <2>2. Content(s)
      BY <2>1 DEF IInv, Contents
    <2>3. CASE s # t
      BY <1>d, <2>2, <2>3 DEF Content, Overflow, program, IInv, Types, TypeOK
    <2>4. CASE s = t
      <3>1. ~throttle /\ event[t] = "on"
        BY <2>1, <2>4 DEF Overflow
      <3>2. buf'[t] = SampleRecord
        <4>1. buf[t] = <<>> /\ r = <<>>
          BY <2>2, <2>4, <3>1 DEF Content
        <4>2. <<>> \o <<>> = <<>>
          BY RecordTypes, ConcatEmptySeq
        <4>3. <<>> \o SampleRecord = SampleRecord
          BY RecordTypes, ConcatEmptySeq
        <4> HIDE DEF r
        <4> QED
          BY <1>d, <4>1, <4>2, <4>3
      <3>3. event'[t] = "fired" /\ ~throttled'[t] /\ ~odd'[t] /\ pc[t] \notin {"start", "refresh"}
        BY <2>2, <2>4, <3>1 DEF Overflow, Content, IInv, Types, TypeOK, Signals
      <3>4. \A v \in All : handler[v].fd = t => handler[v].at = "idle"
        BY <3>1 DEF IInv, Signals, Reads
      <3>5. UNCHANGED <<pc, handler>>
        BY DEF Overflow, program
      <3> QED
        BY <2>4, <3>2, <3>3, <3>4, <3>5 DEF Content
    <2> QED
      BY <2>3, <2>4
  <1>4. Own'
    BY DEF IInv, Types, TypeOK, Signals, OneReader, Reads, Own, Overflow, program, kernel
  <1>5. Unread'
    <2>1. Len(buf'[t]) >= 2
      <3>1. Len(buf[t] \o r) \in Nat /\ buf[t] \o r \in Seq({"sample", "report", "value"})
        BY <1>a, <1>b, ConcatProperties, LenProperties
      <3>2. Len(SampleRecord) = 2
        BY DEF SampleRecord
      <3> HIDE DEF r
      <3>3. Len(buf'[t]) = Len(buf[t] \o r) + Len(SampleRecord)
        BY <1>b, <1>d, <3>1, ConcatProperties
      <3> QED
        BY <3>1, <3>2, <3>3
    <2>2. \A s \in Threads : s # t => (private'[s] => private[s]) /\ (shared' = s => shared = s)
      BY DEF Overflow, IInv, Types, TypeOK
    <2>3. handler' = handler
      BY DEF Overflow
    <2> QED
      BY <1>d, <2>1, <2>2, <2>3 DEF IInv, Unread
  <1> QED
    BY <1>1, <1>2, <1>3, <1>4, <1>5 DEF IInv

\* a pending signal becomes a handler
LEMMA DeliverInv ==
    ASSUME IInv, NEW u \in All, Deliver(u)
    PROVE  IInv'
  <1>1. PICK e \in Threads :
           /\ handler' = [handler EXCEPT ![u] = [fd |-> e, at |-> "read", size |-> 0]]
           /\ \/ /\ e = u /\ private[u] /\ private' = [private EXCEPT ![u] = FALSE] /\ shared' = shared
              \/ /\ e = shared /\ shared' = None /\ private' = private
    BY DEF IInv, Types, TypeOK, Deliver
  <1>2. handler[u] = Idle /\ pc[u] # "exit"
    BY DEF Deliver
  <1>3. UNCHANGED <<fown, pc, fds, owner, event, throttled, buf, odd, samples, reports, skids>>
    BY DEF Deliver, program
  <1>4. /\ handler'[u].fd = e /\ handler'[u].at = "read" /\ handler[u].at = "idle"
        /\ \A v \in All : v # u => handler'[v] = handler[v]
    BY <1>1, <1>2 DEF IInv, Types, TypeOK, Idle
  <1>5. Types'
    <2>1. handler' \in [All -> Handlers]
      <3>1. [fd |-> e, at |-> "read", size |-> 0] \in Handlers
        BY DEF Handlers
      <3> QED
        BY <1>1, <3>1 DEF IInv, Types, TypeOK, Handlers
    <2>2. private' \in [Threads -> BOOLEAN] /\ shared' \in Threads \cup {None}
      BY <1>1 DEF IInv, Types, TypeOK
    <2>3. \A v \in All : handler'[v].at # "idle" => handler'[v].fd \in Threads
      BY <1>4 DEF IInv, Types
    <2> QED
      BY <1>3, <2>1, <2>2, <2>3 DEF IInv, Types, TypeOK, Handlers
  <1>6. \A t \in Threads :
          /\ private'[t] => private[t] /\ (t = e => e # u)
          /\ shared' = t => shared = t /\ t # e
    BY <1>1 DEF IInv, Types, TypeOK, Signals
  <1>7. private[e] \/ shared = e
    BY <1>1
  <1>8. Signals'
    BY <1>1, <1>3, <1>4, <1>6, <1>7 DEF IInv, Types, TypeOK, Signals, OneReader, Reads
  <1>9. Contents'
    BY <1>3, <1>4, <1>6, <1>7 DEF IInv, Contents, Content, Types, TypeOK
  <1>10. Own'
    BY <1>1, <1>3, <1>4 DEF IInv, Types, TypeOK, Own
  <1>11. Unread'
    BY <1>3, <1>4, <1>6, <1>7 DEF IInv, Unread
  <1> QED
    BY <1>5, <1>8, <1>9, <1>10, <1>11 DEF IInv

\* the header; what fails stays with the handler
LEMMA HandlerReadInv ==
    ASSUME IInv, NEW u \in All, HandlerRead(u)
    PROVE  IInv'
  <1> DEFINE e == handler[u].fd
  <1>1. handler[u] \in Handlers /\ handler[u].at = "read" /\ e \in Threads
    BY DEF IInv, Types, TypeOK, HandlerRead, Handlers
  <1>2. UNCHANGED <<fown, pc, fds, owner, event, throttled, odd, private, shared, samples, reports, skids>>
    BY DEF HandlerRead, program
  <1>3. PICK h \in Handlers :
          /\ handler' = [handler EXCEPT ![u] = h]
          /\ h.fd = e /\ h.at \notin {"idle", "read", "refresh"}
          /\ h.at # "skip" => buf' = buf
          /\ h.at \in {"skip", "undefined"}
          /\ h.at = "skip" => /\ buf[e] # <<>> /\ buf' = [buf EXCEPT ![e] = Tail(@)]
                             /\ h.size = IF odd[e] THEN Unknown ELSE RecordSize(Head(buf[e]))
    <2> DEFINE size == IF odd[e] THEN Unknown ELSE RecordSize(Head(buf[e]))
    <2>a. Len(buf[e]) >= 2 /\ buf[e] # <<>>
      BY <1>1 DEF IInv, Unread
    <2>1. CASE fds[e] = "live"
      <3>1. size \in {0, 2, 4, Unknown}
        BY DEF RecordSize, SampleRecord, ReportRecord
      <3>2. [handler[u] EXCEPT !.at = "skip", !.size = size] \in Handlers
        BY <1>1, <3>1 DEF Handlers
      <3>3. /\ handler' = [handler EXCEPT ![u] = [handler[u] EXCEPT !.at = "skip", !.size = size]]
            /\ buf' = [buf EXCEPT ![e] = Tail(@)]
        BY <2>1, <2>a DEF HandlerRead, IInv, Types, TypeOK
      <3> HIDE DEF e, size
      <3>4. [handler[u] EXCEPT !.at = "skip", !.size = size].size = size
        BY <1>1 DEF Handlers
      <3> QED
        BY <1>1, <2>a, <3>2, <3>3, <3>4 DEF Handlers, e, size
    <2>2. CASE fds[e] # "live"
      <3>1. [handler[u] EXCEPT !.at = "undefined"] \in Handlers
        BY <1>1 DEF Handlers
      <3>2. handler' = [handler EXCEPT ![u] = [handler[u] EXCEPT !.at = "undefined"]] /\ buf' = buf
        BY <2>2 DEF HandlerRead, IInv, Types, TypeOK
      <3> QED
        BY <1>1, <3>1, <3>2 DEF Handlers
    <2> QED
      BY <2>1, <2>2
  <1>4. /\ handler'[u] = h
        /\ \A v \in All : v # u => handler'[v] = handler[v]
        /\ handler' \in [All -> Handlers]
    BY <1>3 DEF IInv, Types, TypeOK, Handlers
  <1>5. \A v \in All : handler'[v].fd = handler[v].fd /\ (handler'[v].at = "idle" <=> handler[v].at = "idle")
    BY <1>1, <1>3, <1>4
  <1>6. \A t \in Threads : t # e => buf'[t] = buf[t]
    BY <1>3 DEF IInv, Types
  <1>7. h.at = "skip" => buf'[e] = Tail(buf[e])
    BY <1>1, <1>3 DEF IInv, Types
  <1>8. buf' \in [Threads -> Seq({"sample", "report", "value"})]
    <2>1. h.at = "skip" => Tail(buf[e]) \in Seq({"sample", "report", "value"})
      BY <1>1, <1>3, HeadTailProperties DEF IInv, Types
    <2> QED
      BY <1>1, <1>3, <2>1 DEF IInv, Types
  <1> HIDE DEF e
  <1>9. Types'
    BY <1>2, <1>4, <1>5, <1>8 DEF IInv, Types, TypeOK, Handlers
  <1>10. Signals'
    BY <1>2, <1>5 DEF IInv, Signals, OneReader, Reads
  <1>11. Contents'
    <2> SUFFICES ASSUME NEW t \in Threads \ reports
                 PROVE  Content(t)'
      BY <1>2 DEF Contents
    <2>1. Content(t)
      BY DEF IInv, Contents
    <2>2. CASE t # e
      BY <1>2, <1>3, <1>4, <1>5, <1>6, <2>1, <2>2 DEF Content, e
    <2>3. CASE t = e
      <3>1. buf[t] = SampleRecord
        BY <1>1, <2>1, <2>3 DEF Content, e
      <3>2. h.at = "skip" => h.size = 2 /\ buf'[t] = <<"value">>
        BY <1>3, <1>7, <2>1, <2>3, <3>1 DEF Content, SampleRecord, RecordSize, e
      <3>3. ~private[t] /\ shared # t /\ event[t] # "on" /\ pc[t] \notin {"start", "refresh"}
        BY <1>1, <2>3 DEF IInv, Signals, Reads, e
      <3>4. \A v \in All : handler'[v].fd = t /\ handler'[v].at # "idle" => v = u
        BY <1>1, <1>5, <2>3 DEF IInv, Signals, OneReader, e
      <3>5. ~throttled[t] /\ ~odd[t]
        BY <2>1, Zenon DEF Content
      <3> QED
        BY <1>2, <1>3, <1>4, <3>2, <3>3, <3>4, <3>5 DEF Content
    <2> QED
      BY <2>2, <2>3
  <1>12. Own'
    BY <1>2, <1>5 DEF IInv, Own
  <1>13. Unread'
    <2>1. ~private[e] /\ shared # e /\ \A v \in All : v # u /\ handler[v].at # "idle" => handler[v].fd # e
      BY <1>1 DEF IInv, Signals, OneReader, Reads, e
    <2>2. h.at # "read" /\ h.at # "failed"
      BY <1>3
    <2> QED
      BY <1>2, <1>4, <1>6, <2>1, <2>2 DEF IInv, Unread
  <1> QED
    BY <1>9, <1>10, <1>11, <1>12, <1>13 DEF IInv

\* where a skip ends; that of a sample behind its header, at the end of it
LEMMA SkipsTo ==
    ASSUME NEW size \in {0, 2, 4, Unknown}, NEW len \in Nat, NEW inside \in BOOLEAN,
           NEW p \in Skips(size, len, inside)
    PROVE  /\ p[1] \in Nat /\ p[2] \in BOOLEAN
           /\ size = 2 /\ len = 1 => p[1] = 1 /\ ~p[2]
  <1>1. CASE size # Unknown
    <2> DEFINE n == IF size < len THEN size ELSE len
    <2>1. p = <<n, FALSE>>
      BY <1>1 DEF Skips
    <2>2. n \in Nat /\ (size = 2 /\ len = 1 => n = 1)
      BY <1>1
    <2> HIDE DEF n
    <2>3. p[1] = n /\ p[2] = FALSE
      BY <2>1
    <2> QED
      BY <2>2, <2>3
  <1>2. CASE size = Unknown
    <2>1. p \in (0 .. len) \X BOOLEAN
      BY <1>2 DEF Skips
    <2> QED
      BY <1>2, <2>1 DEF Unknown
  <1> QED
    BY <1>1, <1>2

\* the rest of the record
LEMMA HandlerSkipInv ==
    ASSUME IInv, NEW u \in All, HandlerSkip(u)
    PROVE  IInv'
  <1> DEFINE e == handler[u].fd
             n == handler[u].size
  <1>1. handler[u] \in Handlers /\ handler[u].at = "skip" /\ e \in Threads
    BY DEF IInv, Types, TypeOK, HandlerSkip, At, Handlers
  <1>2. UNCHANGED <<fown, pc, fds, owner, event, throttled, private, shared, samples, reports, skids>>
    BY DEF HandlerSkip, program
  <1>3. PICK h \in Handlers :
          /\ handler' = [handler EXCEPT ![u] = h]
          /\ h.fd = e /\ h.at \in {"refresh", "undefined"}
    <2> DEFINE to == IF fds[e] = "live" THEN "refresh" ELSE "undefined"
    <2>1. handler' = [handler EXCEPT ![u] = [handler[u] EXCEPT !.at = to]]
      BY DEF HandlerSkip, At, IInv, Types, TypeOK
    <2>2. [handler[u] EXCEPT !.at = to] \in Handlers
      BY <1>1 DEF Handlers
    <2> QED
      BY <1>1, <2>1, <2>2 DEF Handlers
  <1>4. /\ handler'[u] = h
        /\ \A v \in All : v # u => handler'[v] = handler[v]
        /\ handler' \in [All -> Handlers]
    BY <1>3 DEF IInv, Types, TypeOK, Handlers
  <1>5. \A v \in All : handler'[v].fd = handler[v].fd /\ (handler'[v].at = "idle" <=> handler[v].at = "idle")
    BY <1>1, <1>3, <1>4
  <1>6. PICK p \in Skips(n, Len(buf[e]), odd[e]) :
          /\ buf' = [buf EXCEPT ![e] = SubSeq(@, p[1] + 1, Len(@))]
          /\ odd' = [odd EXCEPT ![e] = p[2]]
    BY DEF HandlerSkip
  <1>7. /\ buf[e] \in Seq({"sample", "report", "value"}) /\ buf'[e] = SubSeq(buf[e], p[1] + 1, Len(buf[e]))
        /\ odd'[e] = p[2]
    BY <1>1, <1>6 DEF IInv, Types, TypeOK
  <1>8. /\ buf' \in [Threads -> Seq({"sample", "report", "value"})]
        /\ odd' \in [Threads -> BOOLEAN]
    <2>1. p[1] \in Nat /\ p[2] \in BOOLEAN
      <3>1. n \in {0, 2, 4, Unknown} /\ Len(buf[e]) \in Nat /\ odd[e] \in BOOLEAN
        BY <1>1, <1>7, LenProperties DEF Handlers, IInv, Types, TypeOK
      <3> QED
        BY <1>6, <3>1, SkipsTo
    <2>2. SubSeq(buf[e], p[1] + 1, Len(buf[e])) \in Seq({"sample", "report", "value"})
      BY <1>7, <2>1, SubSeqProperties
    <2> QED
      BY <1>1, <1>6, <2>1, <2>2 DEF IInv, Types, TypeOK
  <1>9. \A t \in Threads : t # e => buf'[t] = buf[t] /\ odd'[t] = odd[t]
    BY <1>6 DEF IInv, Types, TypeOK
  <1> HIDE DEF e, n
  <1>10. Types'
    BY <1>2, <1>4, <1>5, <1>8 DEF IInv, Types, TypeOK, Handlers
  <1>11. Signals'
    BY <1>2, <1>5 DEF IInv, Signals, OneReader, Reads
  <1>12. Contents'
    <2> SUFFICES ASSUME NEW t \in Threads \ reports
                 PROVE  Content(t)'
      BY <1>2 DEF Contents
    <2>1. Content(t)
      BY DEF IInv, Contents
    <2>2. CASE t # e
      BY <1>2, <1>3, <1>4, <1>5, <1>9, <2>1, <2>2 DEF Content, e
    <2>3. CASE t = e
      <3>1. buf[t] = <<"value">> /\ n = 2
        BY <1>1, <2>1, <2>3 DEF Content, e, n
      <3>2. buf'[t] = <<>> /\ ~odd'[t]
        <4>1. Len(<<"value">>) = 1
          OBVIOUS
        <4>2. p[1] = 1 /\ ~p[2]
          BY <1>1, <1>6, <2>3, <3>1, <4>1, SkipsTo DEF IInv, Types, TypeOK
        <4>3. buf'[t] = SubSeq(<<"value">>, 2, 1) /\ ~odd'[t]
          BY <1>7, <2>3, <3>1, <4>1, <4>2
        <4>4. SubSeq(<<"value">>, 2, 1) = <<>>
          OBVIOUS
        <4> QED
          BY <4>3, <4>4
      <3>3. ~private[t] /\ shared # t /\ event[t] # "on" /\ pc[t] \notin {"start", "refresh"}
        BY <1>1, <2>3 DEF IInv, Signals, Reads, e
      <3>4. \A v \in All : handler'[v].fd = t /\ handler'[v].at # "idle" => v = u
        BY <1>1, <1>5, <2>3 DEF IInv, Signals, OneReader, e
      <3>5. ~throttled[t]
        BY <2>1, Zenon DEF Content
      <3> QED
        BY <1>2, <1>3, <1>4, <3>2, <3>3, <3>4, <3>5 DEF Content
    <2> QED
      BY <2>2, <2>3
  <1>13. Own'
    BY <1>2, <1>5 DEF IInv, Own
  <1>14. Unread'
    <2>1. ~private[e] /\ shared # e /\ \A v \in All : v # u /\ handler[v].at # "idle" => handler[v].fd # e
      BY <1>1 DEF IInv, Signals, OneReader, Reads, e
    <2> QED
      BY <1>2, <1>3, <1>4, <1>9, <2>1 DEF IInv, Unread
  <1> QED
    BY <1>10, <1>11, <1>12, <1>13, <1>14 DEF IInv

\* the handler returns and its event is enabled
LEMMA HandlerRefreshInv ==
    ASSUME IInv, NEW u \in All, HandlerRefresh(u)
    PROVE  IInv'
  <1> DEFINE e == handler[u].fd
  <1>1. handler[u].at = "refresh" /\ e \in Threads /\ Types /\ Refresh(e)
    BY DEF IInv, Types, HandlerRefresh
  <1>2. UNCHANGED <<fown, pc, fds, owner, odd, private, shared, samples, reports, skids>>
    BY DEF HandlerRefresh, program
  <1>3. /\ handler' = [handler EXCEPT ![u] = Idle]
        /\ handler'[u] = Idle
        /\ \A v \in All : v # u => handler'[v] = handler[v]
        /\ handler' \in [All -> Handlers]
    BY DEF HandlerRefresh, IInv, Types, TypeOK, Handlers, Idle
  <1>4. /\ buf' \in [Threads -> Seq({"sample", "report", "value"})]
        /\ throttled' \in [Threads -> BOOLEAN]
        /\ event' \in [Threads -> {"off", "on", "fired"}]
        /\ ~throttled[e] => buf'[e] = buf[e]
        /\ ~throttled'[e]
        /\ \A s \in Threads : s # e => /\ buf'[s] = buf[s] /\ event'[s] = event[s]
                                      /\ throttled'[s] = throttled[s]
    BY <1>1, RefreshTyped
  <1>5. event'[e] = IF pc[e] = "exit" THEN "off" ELSE "on"
    BY <1>1 DEF Refresh, IInv, Types, TypeOK
  <1> HIDE DEF e
  <1>6. handler'[u].at = "idle" /\ handler'[u].fd = None
    BY <1>3 DEF Idle
  <1>7. Types'
    BY <1>2, <1>3, <1>4, <1>6 DEF IInv, Types, TypeOK, Handlers
  <1>8. ~private[e] /\ shared # e /\ pc[e] \notin {"start", "refresh"}
        /\ \A v \in All : v # u /\ handler[v].at # "idle" => handler[v].fd # e
    BY <1>1 DEF IInv, Signals, OneReader, Reads, e
  <1>9. Signals'
    <2>1. \A v \in All : handler'[v].at # "idle" => v # u /\ handler'[v] = handler[v] /\ handler[v].at # "idle"
      BY <1>3, <1>6
    <2>2. OneReader'
      BY <2>1 DEF IInv, Signals, OneReader
    <2> SUFFICES ASSUME NEW t \in Threads
                 PROVE  /\ private'[t] => shared' # t
                        /\ \A v \in All : Reads(v, t)' => ~private'[t] /\ shared' # t
                        /\ pc'[t] \in {"start", "refresh"} => event'[t] = "off"
                        /\ private'[t] \/ shared' = t \/ (\E v \in All : Reads(v, t)') =>
                              event'[t] # "on" /\ pc'[t] \notin {"start", "refresh"}
      BY <2>2 DEF Signals
    <2>3. \A v \in All : Reads(v, t)' => Reads(v, t) /\ t # e
      BY <1>8, <2>1 DEF Reads
    <2>4. t # e => event'[t] = event[t]
      BY <1>4
    <2> QED
      BY <1>2, <1>8, <2>3, <2>4 DEF IInv, Signals
  <1>10. Contents'
    <2> SUFFICES ASSUME NEW t \in Threads \ reports
                 PROVE  Content(t)'
      BY <1>2 DEF Contents
    <2>1. Content(t)
      BY DEF IInv, Contents
    <2>2. CASE t # e
      BY <1>2, <1>3, <1>4, <1>6, <2>1, <2>2 DEF Content
    <2>3. CASE t = e
      <3>1. buf'[t] = <<>> /\ ~throttled'[t] /\ ~odd[t]
        BY <1>1, <1>4, <2>1, <2>3 DEF Content, e
      <3> QED
        BY <1>2, <1>3, <1>6, <1>8, <2>3, <3>1 DEF Content
    <2> QED
      BY <2>2, <2>3
  <1>11. Own'
    <2>1. CASE fown
      <3>1. u = e /\ (pc[e] = "cycles" \/ e \in skids)
        BY <1>1, <2>1 DEF IInv, Own, e
      <3> QED
        BY <1>1, <1>2, <1>3, <1>4, <1>5, <1>6, <2>1, <3>1 DEF IInv, Own
    <2>2. CASE ~fown
      BY <1>2, <2>2 DEF Own
    <2> QED
      BY <2>1, <2>2
  <1>12. Unread'
    <2>1. \A v \in All : handler'[v].at # "idle" => v # u /\ handler'[v] = handler[v]
      BY <1>3, <1>6
    <2> QED
      BY <1>2, <1>4, <1>6, <1>8, <2>1 DEF IInv, Unread
  <1> QED
    BY <1>7, <1>9, <1>10, <1>11, <1>12 DEF IInv

LEMMA InitInv == Init => IInv
  <1> SUFFICES ASSUME Init
               PROVE  IInv
    OBVIOUS
  <1>1. Types
    BY DEF Init, Types, TypeOK, Idle
  <1>2. Signals
    BY DEF Init, Signals, OneReader, Reads, Idle
  <1>3. Contents
    <2> SUFFICES ASSUME NEW t \in Threads
                 PROVE  Content(t)
      BY DEF Contents
    <2>1. ~throttled[t] /\ ~odd[t] /\ ~private[t] /\ buf[t] = <<>> /\ shared # t
      BY DEF Init
    <2>2. \A u \in All : handler[u].at = "idle"
      BY DEF Init, Idle
    <2> QED
      BY <2>1, <2>2 DEF Content
  <1>4. Own
    BY DEF Init, Own, Idle
  <1>5. Unread
    BY DEF Init, Unread, Idle
  <1> QED
    BY <1>1, <1>2, <1>3, <1>4, <1>5 DEF IInv

LEMMA StutterInv == IInv /\ UNCHANGED vars => IInv'
  <1> SUFFICES ASSUME IInv, UNCHANGED vars
               PROVE  IInv'
    OBVIOUS
  <1>1. UNCHANGED <<fown, pc, fds, owner, event, throttled, buf, odd, private, shared, samples, reports, skids, handler>>
    BY DEF vars, program, kernel
  <1>2. Types' /\ Signals'
    BY <1>1 DEF IInv, Types, TypeOK, Signals, OneReader, Reads
  <1>3. Contents'
    BY <1>1 DEF IInv, Contents, Content
  <1>4. Own'
    BY <1>1 DEF IInv, Own
  <1>5. Unread'
    BY <1>1 DEF IInv, Unread
  <1> QED
    BY <1>2, <1>3, <1>4, <1>5 DEF IInv

LEMMA StepInv == IInv /\ [Next]_vars => IInv'
  <1> SUFFICES ASSUME IInv, Next
               PROVE  IInv'
    BY StutterInv
  <1>1. CASE \E t \in Threads :
               \/ OverflowStart(t) \/ OverflowRefresh(t) \/ OverflowStop(t) \/ FreeFds(t) \/ Leave(t)
               \/ \E throttle \in BOOLEAN : Overflow(t, throttle)
    BY <1>1, OverflowStartInv, OverflowRefreshInv, OverflowStopInv, FreeFdsInv, LeaveInv, OverflowInv
  <1>2. CASE \E u \in All : Deliver(u) \/ HandlerRead(u) \/ HandlerSkip(u) \/ HandlerRefresh(u)
    BY <1>2, DeliverInv, HandlerReadInv, HandlerSkipInv, HandlerRefreshInv
  <1> QED
    BY <1>1, <1>2 DEF Next

LEMMA Invariance == Spec => []IInv
  BY InitInv, StepInv, PTL DEF Spec

\* The variables of the threads, their events and the handlers keep their
\* types, for any number of threads; a handler skips the size of a record, or an
\* unknown one once it has read a value in place of a header.
THEOREM TypeCorrect == Spec => []TypeOK
  <1>1. IInv => TypeOK
    BY DEF IInv, Types
  <1> QED
    BY Invariance, <1>1, PTL

\* The handlers of two threads never read the buffer of one event, with or
\* without -f: data_tail, which has no lock, has one writer.
THEOREM OneHandler == Spec => []OneReader
  <1>1. IInv => OneReader
    BY DEF IInv, Signals
  <1> QED
    BY Invariance, <1>1, PTL

\* An event that was never throttled is enabled with an empty buffer, so that
\* its handler finds one whole record and skips it, whoever runs it; a handler
\* always finds the 8 bytes it reads, also when it is out of step.
THEOREM OneWholeRecord == Spec => []OneRecord
  <1>1. IInv => OneRecord
    <2> SUFFICES ASSUME IInv
                 PROVE  OneRecord
      OBVIOUS
    <2>1. \A t \in Threads \ reports : Content(t)
      BY DEF IInv, Contents
    <2>2. \A u \in All : handler[u].at = "skip" => handler[u].fd \in Threads
      BY DEF IInv, Types
    <2>3. Len(SampleRecord) = 2
      BY DEF SampleRecord
    <2> QED
      BY <2>1, <2>2, <2>3 DEF IInv, Unread, Content, OneRecord
  <1> QED
    BY Invariance, <1>1, PTL

\* With -f every event that has fired has its signal or its handler, in the
\* thread of the event and while its descriptors are there, unless the event was
\* stopped while its signal was pending.
THEOREM SignalsOwned == Spec => []OwnSignal
  <1>1. IInv => OwnSignal
    BY DEF IInv, Types, TypeOK, Own, OwnSignal, Waited
  <1> QED
    BY Invariance, <1>1, PTL
============================================================================

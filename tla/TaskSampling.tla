--------------------------- MODULE TaskSampling ---------------------------
(***************************************************************************)
(* A sampling session on a child process (src/perf_examples/task_smpl.c):  *)
(* the parent forks the child, opens its events on it, lets it go, and     *)
(* parses the records that the kernel writes while the child runs, until   *)
(* SIGCHLD makes it leave the loop with longjmp.  The records are parsed   *)
(* by perf_display_sample and display_lost (perf_util.c).                  *)
(*                                                                         *)
(* The ring buffer is used as the stream that SampleBuffer implements, so  *)
(* that one call of perf_read_buffer or perf_skip_buffer is one step.  The *)
(* unit of size is 4 bytes.  A record is a sequence of parts: its header   *)
(* and the values behind it, each with what it is (f), its size (n) and,   *)
(* for a header, a count or a number of lost samples, its value (v).       *)
(***************************************************************************)
EXTENDS Integers, Sequences, SequencesExt

CONSTANTS
    SampleTypes,  \* values of hw.sample_type, each a set of fields
    Size,         \* size of the ring buffer
    Watermark,    \* hw.wakeup_watermark
    MaxCount,     \* bound: elements of a variable field
    MaxGenerated  \* bound: samples of the child

ASSUME SamplingAssumption ==
    /\ Size \in Nat /\ Watermark \in 1 .. Size
    /\ MaxCount \in Nat /\ MaxGenerated \in Nat

VARIABLES
    child,      \* where the child is
    sample_type,\* hw.sample_type, the same for all events
    no_show,    \* options.opt_no_show
    unread,     \* the parts between data_tail and data_head
    dropped,    \* samples the kernel could not write and has not reported
    generated,  \* history: samples of the child
    pc,         \* where the parent is
    todo,       \* reads left in the record at hand
    sz,         \* what perf_display_sample thinks is left of the record
    jbuf,       \* whether setjmp was executed
    handler,    \* whether SIGCHLD has its handler
    blocked,    \* whether SIGCHLD is blocked
    pending,    \* whether SIGCHLD is pending
    ending,     \* whether the session is being terminated
    collected_samples,
    lost_samples

buffer == <<unread, dropped, generated>>
signals == <<handler, blocked, pending>>
parsing == <<todo, sz, collected_samples, lost_samples>>
options == <<sample_type, no_show>>
vars == <<child, options, buffer, pc, jbuf, ending, signals, parsing>>

Part(f, n, v) == [f |-> f, n |-> n, v |-> v]
U64(f) == Part(f, 2, 0)
Copies(part, n) == [i \in 1 .. n |-> part]

\* the sum of the numbers in a sequence
Total(s) ==
    LET upto[i \in 0 .. Len(s)] == IF i = 0 THEN 0 ELSE upto[i - 1] + s[i]
    IN  upto[Len(s)]

Units(parts) == Total([i \in 1 .. Len(parts) |-> parts[i].n])

(***************************************************************************)
(* The kernel's side of the format: the order of the fields in a sample    *)
(* and what each is made of, with c elements or bytes in a variable one.   *)
(***************************************************************************)
KernelOrder ==
    << "IDENTIFIER", "IP", "TID", "TIME", "ADDR", "ID", "STREAM_ID", "CPU", "PERIOD", "READ",
       "CALLCHAIN", "RAW", "BRANCH_STACK", "STACK_USER", "WEIGHT", "DATA_SRC", "TRANSACTION" >>

\* no program of perf_examples samples the stack, which perf_display_sample
\* does not take off the size of the record, or the registers, at which it ends
\* the program; the registers have no part in the format here
ASSUME FormatAssumption ==
    \A type \in SampleTypes : {"STACK_USER", "REGS_USER", "REGS_INTR"} \cap type = {}

Written(f, c) ==
    CASE f = "READ" -> << U64("value"), U64("enabled"), U64("running") >>
      [] f = "CALLCHAIN" -> << Part("nr_ip", 2, c) >> \o Copies(U64("ip"), c)
      [] f = "RAW" -> << Part("raw_size", 1, 2 * c + 1), Part("raw", 2 * c + 1, 0) >>
      [] f = "BRANCH_STACK" -> << Part("nr_branch", 2, c) >> \o Copies(Part("branch", 6, 0), c)
      [] f = "STACK_USER" -> << Part("stack_size", 2, 2 * c) >>
                             \o (IF c = 0 THEN <<>> ELSE << Part("stack", 2 * c, 0), U64("dyn_size") >>)
      [] OTHER -> << U64(f) >>

Record(type, parts) == << Part(type, 2, 2 + Units(parts)) >> \o parts

\* what is made of the fields of a sample, one after the other
InOrder(order, Made(_)) ==
    FlattenSeq([i \in 1 .. Len(order) |-> IF order[i] \in sample_type THEN Made(order[i]) ELSE <<>>])

Sample(c) == Record("SAMPLE", InOrder(KernelOrder, LAMBDA f : Written(f, c)))

Lost == Record("LOST", << Part("lost", 4, dropped) >>)

\* a sample is written behind the report of those that were dropped before
\* it, or is dropped itself when there is no room for both
KernelSample(c) ==
    LET new == (IF dropped > 0 THEN Lost ELSE <<>>) \o Sample(c)
        fits == Units(unread) + Units(new) <= Size
    IN  /\ child = "run"
        /\ generated < MaxGenerated
        /\ generated' = generated + 1
        /\ unread' = IF fits THEN unread \o new ELSE unread
        /\ dropped' = IF fits THEN 0 ELSE dropped + 1
        /\ UNCHANGED <<child, options, pc, jbuf, ending, signals, parsing>>

\* the event was throttled because its samples came too fast
KernelThrottle ==
    LET new == Record("THROTTLE", << Part("throttle", 6, 0) >>)
    IN  /\ child = "run"
        /\ dropped = 0
        /\ generated < MaxGenerated
        /\ \A i \in 1 .. Len(unread) : unread[i].f # "THROTTLE"
        /\ Units(unread) + Units(new) <= Size
        /\ unread' = unread \o new
        /\ UNCHANGED <<child, options, dropped, generated, pc, jbuf, ending, signals, parsing>>

(***************************************************************************)
(* The child                                                               *)
(***************************************************************************)

\* closes the write end of the ready pipe
ChildReady ==
    /\ child = "forked"
    /\ child' = "ready"
    /\ UNCHANGED <<options, buffer, pc, jbuf, ending, signals, parsing>>

\* the read of the go pipe returns when the parent closes it
ChildGo ==
    /\ child = "go"
    /\ child' = "run"
    /\ UNCHANGED <<options, buffer, pc, jbuf, ending, signals, parsing>>

\* SIGCHLD is ignored as long as it has no handler
ChildExit ==
    /\ child = "run"
    /\ child' = "exited"
    /\ pending' = handler
    /\ UNCHANGED <<options, buffer, pc, jbuf, ending, handler, blocked, parsing>>

(***************************************************************************)
(* The parent, up to the core loop                                         *)
(***************************************************************************)
Init ==
    /\ child = "forked"
    /\ sample_type \in SampleTypes /\ no_show \in BOOLEAN
    /\ unread = <<>> /\ dropped = 0 /\ generated = 0
    /\ pc = "open" /\ todo = <<>> /\ sz = 0
    /\ jbuf = FALSE /\ handler = FALSE /\ blocked = FALSE /\ pending = FALSE /\ ending = FALSE
    /\ collected_samples = 0 /\ lost_samples = 0

Goto(from, to) == pc = from /\ pc' = to

\* the events are opened on the child, disabled, once it is known to exist
Open ==
    /\ Goto("open", "signal")
    /\ child = "ready"
    /\ UNCHANGED <<child, options, buffer, jbuf, ending, signals, parsing>>

\* signal(SIGCHLD, cld_handler)
Signal ==
    /\ Goto("signal", "go")
    /\ handler' = TRUE
    /\ UNCHANGED <<child, options, buffer, jbuf, ending, blocked, pending, parsing>>

\* close(go[1])
Go ==
    /\ Goto("go", "setjmp")
    /\ child' = "go"
    /\ UNCHANGED <<options, buffer, jbuf, ending, signals, parsing>>

SetJmp ==
    /\ Goto("setjmp", "poll")
    /\ jbuf' = TRUE
    /\ UNCHANGED <<child, options, buffer, ending, signals, parsing>>

(***************************************************************************)
(* The core loop                                                           *)
(***************************************************************************)

\* poll returns when enough is unread, or when the task of the event is gone
Poll ==
    /\ Goto("poll", "mask")
    /\ Units(unread) >= Watermark \/ child = "exited"
    /\ UNCHANGED <<child, options, buffer, jbuf, ending, signals, parsing>>

\* mutant: SIGCHLD is not blocked while records are parsed
MutMask ==
    /\ Goto("mask", "header")
    /\ UNCHANGED <<child, options, buffer, jbuf, ending, signals, parsing>>

Mask ==
    /\ Goto("mask", "header")
    /\ blocked' = TRUE
    /\ UNCHANGED <<child, options, buffer, jbuf, ending, handler, pending, parsing>>

\* mutant: the signal mask is not restored
MutUnmask ==
    /\ Goto("unmask", "poll")
    /\ UNCHANGED <<child, options, buffer, jbuf, ending, signals, parsing>>

\* a signal that is pending is delivered before sigprocmask returns
Unmask ==
    /\ pc = "unmask"
    /\ pending' = FALSE /\ blocked' = pending
    /\ ending' = pending
    /\ pc' = IF pending THEN "wait" ELSE "poll"
    /\ UNCHANGED <<child, options, buffer, jbuf, handler, parsing>>

\* cld_handler leaves for the context of setjmp, with SIGCHLD blocked; before
\* setjmp there is no such context
Deliver ==
    /\ pending /\ ~blocked
    /\ pending' = FALSE /\ blocked' = TRUE
    /\ IF jbuf THEN pc' = "wait" /\ ending' = TRUE ELSE pc' = "undefined" /\ UNCHANGED ending
    /\ UNCHANGED <<child, options, buffer, jbuf, handler, parsing>>

\* mutant: no look for a partial buffer
MutWait ==
    /\ Goto("wait", "done")
    /\ child = "exited"
    /\ UNCHANGED <<child, options, buffer, jbuf, ending, signals, parsing>>

\* wait4, and process_smpl_buf for what is left
Wait ==
    /\ Goto("wait", "header")
    /\ child = "exited"
    /\ UNCHANGED <<child, options, buffer, jbuf, ending, signals, parsing>>

(***************************************************************************)
(* process_smpl_buf                                                        *)
(***************************************************************************)

\* what perf_display_sample reads for each field, in its order; "more" is
\* what it reads as many times as a count says, "dec" is how much of sz it
\* takes off for it
Step(f, n) == [f |-> f, n |-> n, more |-> <<>>, dec |-> n]
CountStep(f, n, more) == [Step(f, n) EXCEPT !.more = more]

DisplayOrder ==
    << "IDENTIFIER", "IP", "TID", "TIME", "ADDR", "ID", "STREAM_ID", "CPU", "PERIOD", "READ",
       "CALLCHAIN", "RAW", "BRANCH_STACK", "STACK_USER", "WEIGHT", "DATA_SRC", "TRANSACTION" >>

\* mutant: the time the event ran is taken off sz twice
MutDisplayed(f) ==
    CASE f = "READ" -> << Step("value", 2), Step("enabled", 2), [Step("running", 2) EXCEPT !.dec = 4] >>
      [] f = "BRANCH_STACK" -> << CountStep("nr_branch", 2, << Step("branch", 6) >>) >>
      [] OTHER -> << Step(f, 2) >>

\* perf_display_stack_user reads the content and returns 0
Displayed(f) ==
    CASE f = "READ" -> << Step("value", 2), Step("enabled", 2), Step("running", 2) >>
      [] f = "CALLCHAIN" -> << CountStep("nr_ip", 2, << Step("ip", 2) >>) >>
      [] f = "RAW" -> << CountStep("raw_size", 1, << Step("raw", 0) >>) >>
      [] f = "BRANCH_STACK" -> << CountStep("nr_branch", 2, << Step("branch", 6) >>) >>
      [] f = "STACK_USER" -> << [CountStep("stack_size", 2, << [Step("stack", 0) EXCEPT !.dec = 0] >>) EXCEPT !.dec = 0] >>
      [] OTHER -> << Step(f, 2) >>

SampleSteps == InOrder(DisplayOrder, Displayed)

\* the reads that a count of v adds: v elements, or one element of v units
Expand(step, v) ==
    IF step.more = <<>> \/ v = 0 THEN <<>>
    ELSE LET m == step.more[1]
         IN  IF m.n > 0 THEN Copies(m, v)
             ELSE << [m EXCEPT !.n = v, !.dec = IF step.dec = 0 THEN 0 ELSE v] >>

\* perf_skip_buffer of n units drops whole parts, and at most all of them
SkipTo(n, to) ==
    LET m == IF n > Units(unread) THEN Units(unread) ELSE n
        whole == {i \in 0 .. Len(unread) : Units(SubSeq(unread, 1, i)) = m}
    IN  IF whole = {}
        THEN pc' = "garbled" /\ UNCHANGED unread
        ELSE /\ \E i \in whole : unread' = SubSeq(unread, i + 1, Len(unread))
             /\ pc' = to

\* the loop ends when there is no header to read
ReadHeader ==
    LET h == Head(unread)
    IN  /\ pc = "header"
        /\ IF Units(unread) < 2
           THEN /\ pc' = IF ending THEN "done" ELSE "unmask"
                /\ UNCHANGED <<unread, parsing>>
           ELSE IF h.f \notin {"SAMPLE", "LOST", "THROTTLE"}
           THEN pc' = "garbled" /\ UNCHANGED <<unread, parsing>>
           ELSE /\ unread' = Tail(unread)
                /\ sz' = h.v - 2
                /\ pc' = IF no_show THEN "skip" ELSE IF h.f = "SAMPLE" THEN "sample" ELSE "other"
                /\ todo' = CASE h.f = "SAMPLE" -> SampleSteps
                             [] h.f = "LOST" -> << Step("lost", 4) >>
                             [] OTHER -> << Step("throttle", 6) >>
                /\ collected_samples' = collected_samples + (IF h.f = "SAMPLE" /\ ~no_show THEN 1 ELSE 0)
                /\ UNCHANGED lost_samples
    /\ UNCHANGED <<child, options, dropped, generated, jbuf, ending, signals>>

\* --no-show
SkipRecord ==
    /\ pc = "skip"
    /\ SkipTo(sz, "header")
    /\ UNCHANGED <<child, options, dropped, generated, jbuf, ending, signals, parsing>>

\* one call of perf_read_buffer; a short read ends the program in a sample,
\* the record in display_lost and display_freq
ReadStep ==
    LET s == Head(todo)
        part == Head(unread)
    IN  /\ pc \in {"sample", "other"} /\ todo # <<>>
        /\ IF Units(unread) < s.n
           THEN /\ pc' = IF pc = "sample" THEN "failed" ELSE "header"
                /\ UNCHANGED <<unread, parsing>>
           ELSE IF part.f # s.f \/ part.n # s.n
           THEN pc' = "garbled" /\ UNCHANGED <<unread, parsing>>
           ELSE /\ unread' = Tail(unread)
                /\ todo' = Expand(s, part.v) \o Tail(todo)
                /\ sz' = sz - s.dec
                /\ lost_samples' = lost_samples + (IF s.f = "lost" THEN part.v ELSE 0)
                /\ UNCHANGED <<pc, collected_samples>>
        /\ UNCHANGED <<child, options, dropped, generated, jbuf, ending, signals>>

\* what perf_display_sample did not read is skipped; display_lost and
\* display_freq leave it
EndRecord ==
    /\ pc \in {"sample", "other"} /\ todo = <<>>
    /\ IF pc = "sample" /\ sz # 0 THEN SkipTo(sz, "header") ELSE pc' = "header" /\ UNCHANGED unread
    /\ UNCHANGED <<child, options, dropped, generated, jbuf, ending, signals, parsing>>

Parent ==
    \/ Open \/ Signal \/ Go \/ SetJmp
    \/ Poll \/ Mask \/ Unmask \/ Wait
    \/ ReadHeader \/ SkipRecord \/ ReadStep \/ EndRecord

Next ==
    \/ \E c \in 0 .. MaxCount : KernelSample(c)
    \/ KernelThrottle
    \/ ChildReady \/ ChildGo \/ ChildExit
    \/ Parent \/ Deliver

\* the scheduler runs the parent and the child, signals are delivered, and the
\* command terminates
Fairness ==
    /\ WF_vars(Parent)
    /\ WF_vars(Deliver)
    /\ WF_vars(ChildReady) /\ WF_vars(ChildGo) /\ WF_vars(ChildExit)

Spec == Init /\ [][Next]_vars /\ Fairness

(***************************************************************************)
(* Properties                                                              *)
(***************************************************************************)
Places ==
    {"open", "signal", "go", "setjmp", "poll", "mask", "header", "skip", "sample", "other",
     "unmask", "wait", "done", "undefined", "garbled", "failed"}

\* type invariant: the session, its signal and its counts; sz is an unsigned
\* size that must not pass below zero
TypeOK ==
    /\ child \in {"forked", "ready", "go", "run", "exited"}
    /\ pc \in Places
    /\ sample_type \in SampleTypes /\ no_show \in BOOLEAN
    /\ dropped \in Nat /\ generated \in Nat
    /\ sz \in Nat
    /\ handler \in BOOLEAN /\ blocked \in BOOLEAN /\ pending \in BOOLEAN
    /\ jbuf \in BOOLEAN /\ ending \in BOOLEAN
    /\ collected_samples \in Nat /\ lost_samples \in Nat

\* perf_display_sample takes the fields of a record for what the kernel wrote
\* there, and leaves nothing of it for the next header, also when SIGCHLD ends
\* the core loop at any of its steps
Decodes == pc \notin {"garbled", "failed"}

\* at the end of the session every sample of the child is in one of the two
\* counts that are printed, except those dropped behind the last record, and
\* nothing is left in the buffer
Accounted ==
    pc = "done" =>
        /\ unread = <<>>
        /\ ~no_show => collected_samples + lost_samples + dropped = generated

\* once the child may run the session comes to its end, unless SIGCHLD came
\* before setjmp
SessionEnds == (child = "go") ~> (pc \in {"done", "undefined"})
============================================================================

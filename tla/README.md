# A TLA+ model of libpfm4

libpfm4 turns event strings such as `snb::OFFCORE_RESPONSE_0:DMND_RFO:u` into
the values to program in performance counters, and comes with example programs
that open the counters and sample with them.

The library keeps its state in static variables, it starts no thread, and its
callers must use it one thread at a time (`pfm_terminate(3)`: the library is not
reentrant). What is hard in it is *sequence* (initialize, fail, terminate,
initialize again under another environment), *failure* (each of some hundred
allocations and reads may fail between two updates of related state), *order*
(attributes come in any order and expand to others), *ownership* (arrays and
strings are allocated by either side of a call) and *round trips* (what the
library returns is given back to it).

The programs that sample are concurrent: the kernel writes into a ring buffer
while the program reads it, signals interrupt the reader, and several threads
take each other's signals. There *interleaving* and *lost signals* are what is
hard.

## 1. Inventory

| Component | Source | State | Operations | Modelled in |
|---|---|---|---|---|
| Library life cycle | `lib/pfmlib_common.c` | `pfm_cfg`, `pfmlib_pmus_map`, flags of each PMU | `pfm_initialize`, `pfm_terminate`, `pfm_find_event`, `pfm_get_pmu_info`, `pfm_get_event_next` | `PfmLibrary` |
| Event parsing | `lib/pfmlib_common.c` | one event descriptor: `event`, `pattrs`, `attrs` | `pfmlib_parse_event` and its helpers | `EventParse` |
| Perf tracepoint table | `lib/pfmlib_perf_event_pmu.c` | `perf_pe`, `perf_um`, their counts and free pointers | `pfm_perf_init`, `pfm_perf_terminate` | `PerfTable` |
| Intel x86 core encoder | `lib/pfmlib_intel_x86.c` | the descriptor, two registers, group limits | `pfm_intel_x86_encode_gen`, `add_defaults` | `IntelEncode` (partly) |
| Tables built at run time | `pfmlib_intel_x86_arch.c`, `pfmlib_s390x_cpumf.c` | `x86_arch_pe`, `cpumcf_pe` | `pmu_init`, `pmu_terminate` | kinds of PMU in `PfmLibrary` |
| perf_event OS layer | `pfmlib_perf_event.c`, glue of Intel, AMD64 and ARM | `perf_event_attr` of the caller and the internal copy | `pfmlib_perf_event_encode`, `*_get_perf_encoding`, `*_validate_pattrs` | `PerfEncode` (partly) |
| Raw encoding | `pfmlib_common.c` | the caller's array, count and string, and the copy of the argument | `pfmlib_raw_pmu_encode`, `pfm_get_event_encoding` | `RawEncode` |
| Ring buffer and samples | `perf_examples/perf_util.c` | `data_head`, `data_tail`, the payload | `perf_read_buffer`, `perf_skip_buffer`, `perf_display_sample` | `SampleStream`, `SampleBuffer`, `TaskSampling` |
| Sampling programs | `task_smpl.c`, `self_smpl_multi.c` | signal masks, pipes, `jbuf`, `fd2ov`, descriptors | `mainloop`, `cld_handler`, `sigio_handler`, `overflow_start`, `overflow_stop` | `TaskSampling`, `SelfSampling` |
| Other raw encoders | amd64, arm, mips, sparc, powerpc, netburst, uncore, rapl, torrent | descriptor | `get_event_encoding` | no |
| Table validation | `*_validate_table`, `pfm_pmu_validate` | none | read-only checks | no |
| Event tables | `lib/events/*.h` | constants | none | instances only |
| Old generation | itanium, itanium2, montecito, cell, sicortex | | in no build of this library | no |
| Counting programs | `task.c`, `syst.c`, `rtop.c`, ... | descriptors | open, read, print | no |
| examples, python, tests, docs | | | clients, bindings, expectations | no |

**Interaction.** `pfm_initialize` reads the environment, asks each OS layer and
each PMU whether it is there, and calls `pmu_init` of the ones that are, which
builds the tracepoint table (`PerfTable`), the architected table or the CPU-MF
table. `pfm_get_event_encoding` and `pfm_get_os_event_encoding` parse the string
(`EventParse`), which looks the event up over the active PMUs (`FindEvent` of
`PfmLibrary`), and hand the descriptor to the encoder of the PMU
(`IntelEncode`). For `PFM_OS_NONE` the codes go to the array of the caller
(`RawEncode`), for perf_event they go to its `perf_event_attr`, together with what the
attributes of perf_event say (`PerfEncode`). The programs pass that attr to the
kernel, which writes samples to the buffer that `SampleBuffer` reads;
`TaskSampling` and `SelfSampling` use the buffer as the stream that `SampleBuffer` is
shown to implement. Identifiers of events go out to the application and come back
in later calls. `pfm_terminate` calls `pmu_terminate` of the active PMUs.

**What makes each component correct.** Life cycle: flags, map and tables agree,
an identifier that was returned is accepted, a walk meets every event, and a table is
freed once. Parser: the attributes are what the string stands for,
each index is usable in the table it is for, and on every path every allocation
is freed or handed over. Tracepoint table: pointers stay in their arrays, every
event that is counted is complete, and what is freed was allocated. Encoder: the
unit masks of a result are consistent, defaults complete it, what a unit mask
wires is not lost, the order of the attributes does not matter, and the string
it returns means the same. perf_event layer: the attr is what the attributes
mean, a failed call leaves it alone. Raw encoding: codes fit, every block has one
owner. Ring buffer: what is read is what was written, once and in order.
Programs: each record is parsed as the kernel wrote it, each sample is counted or
reported lost, a session ends, and an event that has fired is enabled again.

`PROJECT.json` lists the components with what is left out of each, and the
hazards, each at its line and with the properties that would catch it.

## 2. Modules

Each component is one module with its state as variables, one action per
handler or per piece of a handler that may fail, and bounds as constants. An
`MC...` module instantiates it. A `Mut...` operator before a definition is a
plausible bug in it (a dropped guard, a swapped order); the properties are known
to catch them.

### PfmLibrary

Static tables, flags and the map are sets and functions over the positions of
`pfmlib_pmus[]`. `Begin` is `pfm_initialize` up to the loop over the PMUs (the
environment, the OS layers); `SkipPmu`, `PassPmu` and `Activate` are the turns of
`pfmlib_init_pmus`, `Finish` its end. `Terminate` calls the `pmu_terminate` of
each active PMU (`Torn`): a static table survives, the perf table is freed and its
pointer cleared, the architected and the CPU-MF table are freed and the pointer kept. One of these that
is called with a pointer it has freed before frees it again (`Twice`), and the state is `undefined` from then on. `LetThrough` is the
search in the list of disabled PMUs, which finds nothing when the list cannot be copied; `unlisted` (history) has the PMUs this let through.
`FindEvent`, `GetPmuInfo` and `GetEventNext` are the calls that deal in identifiers,
which are computed as the code does (`pmu << PFMLIB_PMU_SHIFT | pidx`).
`fresh`, `holds` and `walk` are history variables: what this initialization
activated, whether the identifier at hand was returned by it, and the events the
walk has met. Names are sets of tables they match, because matching strings is
not what goes wrong.

### EventParse

The string of the user is chosen attribute by attribute as it is read, so that
every string up to the bound is parsed. `frames` is the stack of activations of
`pfmlib_parse_event_attr`, each with its own `has_um` and `has_raw_um`, as in C.
`strs` are the copies made by `strdup` that are alive, `pattrs` whether the array of
possible attributes is. `BuildFails`, `EquivFails` and `NoEvent` are the error paths;
`NextRow`, `Different`, `Duplicate` and `Conflict` are the two loops of
`pfmlib_sanitize_event`, with the index it skips.

### PerfTable

Pointers are indexes into their arrays, names are the heap blocks they are.
The contents of the tracepoint directory are arbitrary. `OpenDir`, `NextEntry`,
`AddInline`, `AddOverflow` and `CloseDir` are the two nested loops of
`gen_tracepoint_table`; the actions named `...NoMemory`, `ReadFails` and `Break` are
its failures. `heap` is the set of allocated blocks, `owner` (history) the event
an overflow unit mask was allocated for, `zeroed` whether the memory of an event was clear when it was allocated: calloc clears the first
array, what realloc adds is clear or not. `ValidEvent` is what `pfm_perf_validate_table` checks of an event, in three parts: `Shaped`,
`Named` and `NoExcess`, that there is nothing behind the last unit mask. The state `undefined` is where the code
would pass the static table to `realloc`: nothing is said of it.

### IntelEncode

An integer is the set of the positions of its one bits, so that `|` is union and a
field of the register is a set of positions. `TakeUmask`, `TakeRaw` and `TakeModifier`
are the cases of the loop over the attributes, `EndAttrs` the comparison with the
hardwired modifiers and the default privilege level, `AddDefault` one group of
`pfm_intel_x86_add_defaults`, `Encode` the rest of the function. The client makes a
call, then one with the string it got (`Again`) or with the same attributes in
another order (`Reorder`). `INTEL_X86_GRP_EXCL`, `INTEL_X86_GRP_REQ` and required
modifiers are left out: only uncore tables use them, and those PMUs have encoders of
their own. `Sorted` is `pfmlib_sort_attr`, a recursive function over the names of the table.

### RawEncode

The caller keeps an array, frees it, or brings a larger one, and makes calls. The
library works on a copy of the argument (`arg`), as the code does with `arg` and
`uarg`: `Codes` allocates the array or refuses it, `BuildFstr` writes the caller's
pointer, `Success` copies the argument back, `FreeFstr` and `Release` are the two
labels at the end. Codes are counted, not computed.

### PerfEncode

`attr` is the internal copy, `uattr` the attr of the caller. A PMU is a record of what its
glue looks at; `Removed` is the `validate_pattrs` callback, `PmuEncode` the
`get_perf_encoding` callback, `Attr` a turn of the loop over the attributes, in any
order, `Finish` the rest. `given` (history) is the set of attributes that were read,
and `Meaning` a reading of that set which knows no order. `Nameable` are the levels that a
string can name, the ones whose attribute the PMU keeps.

### SampleBuffer and SampleStream

`SampleBuffer` has the accesses of `perf_read_buffer` and `perf_skip_buffer` to shared
memory as steps: the test of `data_head` (`ReadCall`, `SkipCall`, and `Clamp`, which reads
it again), the two parts of the copy (`CopyFirst`, `CopyRest`) and the store to `data_tail`
(`MoveTail`, `SkipEnd`). `KernelWrite` and `KernelPublish` are the kernel, from how
the code uses the buffer. A cell holds the position in the stream of the unit written
there last, so that an overwritten or a repeated unit shows.
`SampleStream` is what is promised: units come once, in order and as written. `Implements`
is the refinement, with `head` and `tail` for the positions of the stream. Memory is sequentially consistent in the model. The source neither
fences its accesses to `data_head` and `data_tail` nor makes them volatile, so that nothing here says that the code is right on a processor that
reorders them (ARM and PowerPC are targets of the library).

### TaskSampling

A session of `task_smpl`: the two pipes, the handler of SIGCHLD, `setjmp` and `longjmp`,
the core loop with its masking of the signal, and the parser of records. The kernel
writes records as sequences of parts in its order of fields, the parser reads parts in
the order of `perf_display_sample`; `sz` is the variable of that name. `garbled` is a part
taken for another, `failed` the exit of the program on a short record.

### SelfSampling

Threads that sample themselves, with the option `-f` (F_SETOWN_EX) and without. SIGIO
is no realtime signal: `private` and `shared` hold at most one, and a second one raised
meanwhile is gone. `Deliver`, `HandlerRead`, `HandlerSkip` and `HandlerRefresh` are
`sigio_handler`, in any thread; `Refresh` is what PERF_EVENT_IOC_REFRESH does.
A signal for a thread interrupts it before any step in user mode (`Interruptible`); one that the event raises inside a system call, the
`PERF_EVENT_IOC_DISABLE` of `overflow_stop` in particular, is handled when the call returns, with the event stopped already (`skids` has these
events). A buffer holds headers and values, in units of 8 bytes. A handler that is out of step, which takes a report of throttling, reads a value where a
header should be: `RecordSize` is then `Unknown`, and `Skips` lets `perf_skip_buffer` move `data_tail` by any number of bytes up to `data_head`,
into the middle of a unit as well (`odd`). `Gone` is the end of the program by `errx`, or a handler that uses descriptors that are freed.
Left out are a buffer that fills up and the threads' calls of the library (section 7).

## 3. Runs

| Run | Instance | States | Shows |
|---|---|---|---|
| `library` | 4 PMUs (one of each kind of interest), 2 events each, 2 initializations | 113361 | activation, tables, identifiers, walks |
| `perf_table` | 3 directories of 4 entries, growth by 2, 2 inline unit masks, 2 initializations | 306139 | pointers, events, overflow table, what is freed |
| `event_parse` | 4 events, expansions two deep, strings of 3 attributes, 3 slots | 16274 | ownership, meaning, indexes |
| `intel_encode` | 8 events of 6 processors, requests of 3 attributes | 58179 | consistency, defaults, order, round trip |
| `raw_encode` | arrays of up to 3 codes, 4 calls | 50268 | codes fit, one owner for each block |
| `perf_encode` | 10 PMUs, 12 attributes with 26 values, 4 attrs of the caller, strings of 3 attributes | 298938 | the attr is what was asked, the string means the same |
| `sample_buffer` | 4 units, records of 3, requests of 5, 12 units written | 33518 | nothing unread is overwritten; the refinement |
| `task_sampling` | 3 layouts of samples, room for two or three, 4 samples | 21287 | parsing, counting, the end of the session |
| `self_sampling` | 2 threads and main, with and without `-f`, 3 samples in all | 277484 | one reader, whole records, signals |

The other three runs (`library_active_table`, `raw_encode_toosmall`, `self_sampling_shared`)
each check one statement of a manual page or a comment that the code does not keep
(section 6).

**Why the bounds are enough.** Two initializations are the least that show what
the first one leaves behind. The four PMUs of an x86 host hold a table built by
`pmu_init`, a static one, one on top of a static one, and PMUs that are forced, masked or
deprecated; the s390 kind (`cpumf`) has no x86 host to run on and is covered by the theorems
only. In the tracepoint table the growth steps are so small that three directories
make both arrays grow, two inline unit masks leave room behind the last one and overflow with the third, and
three directories leave one before and one after a reused slot. In the parser
three attributes are an expansion followed by a duplicate of what it gave
and one more, and three slots are exceeded by the event with an expansion.
In the encoder three attributes put two unit masks into one group next to a modifier in
each order; the eight events are those of the tables that differ in the flags
the encoder looks at (defaults, exclusions, load latency, frontend threshold,
code override, hardwired modifiers). In `perf_encode` no field of the attr is written
by more than two attributes, so that three are two that meet and one between them; the PMUs are one
for each answer of the callbacks. Arrays of three codes are smaller than, equal to and
larger than what an event needs, and four calls leave an array, enlarge it and use it
again. The buffer of four units is passed three times, with every request at every offset
and requests that exceed the buffer. A session of four samples overflows a
buffer for two or three of them, and two threads are enough for each to hold the
signal of the other while a third, main, takes one; three samples are one that is throttled, one behind its report, and one of the other thread. The
header and the value that make a sample are the least that a reader can be out of step with. The theorems of section 5 do away
with the bounds for the properties they state.

Deadlock is not checked: an application may stop calling the library, the kernel may
write nothing more, a session ends, and `PfmLibrary`, `PerfTable`, `RawEncode`, `TaskSampling` and `SelfSampling` end in a state
`undefined` where C defines nothing.

**Fairness.** `SessionEnds` needs the parent and the child to be scheduled, signals to
be delivered and the command to terminate, each a weak fairness condition; nothing is
assumed of the kernel's samples, so that a session without any must end as well.
`SamplingGoesOn` needs the delivery of a pending signal and the steps of a handler;
the threads themselves may run for ever or not at all. No fairness is assumed of an
application of the library.

## 4. Properties

Each property has a comment in its module that states it and names the code. The ones
that took most to state:

- `HandleResolves`, `WalkComplete` (PfmLibrary): identifiers keep their meaning over
  other calls, and `pfm_get_event_next` stops at the end only. They hold in the session
  that returned the identifier; nothing is promised over `pfm_terminate`.
- `ActivationAllowed`, `FreedOnce` (PfmLibrary): each says what the code keeps of a promise it breaks in one case. A disabled PMU is activated only where
  the list could not be copied; a table is freed twice only where a PMU is active that this initialization did not activate.
- `EventsComplete` (PerfTable): the events of the first allocation pass the library's own check of its tables, those in memory that `realloc` added pass it
  but for what is behind their last unit mask.
- `MeansWhatItSays` (EventParse): the attributes of a successful parse are the
  ones the string stands for, each where it is given first. What an attribute stands for, `Meaning`, is itself or, if it
  has an expansion, what that stands for, without the stack of the parser. The property leaves out
  attributes given more than twice, for which the code keeps two values (section 6).
- `OverflowContiguous` (PerfTable): the unit masks that `perf_attridx2um` reaches from the
  index of an event were allocated for that event.
- `AsAsked` (PerfEncode): an encoding succeeds unless its attributes contradict each other or what
  the caller left in the attr, and then the attr is what they mean in any order. It is what
  keeps `precise` and `hw_smpl`, which write one field, from being offered together.
- `FstrMeasures` (PerfEncode): the string of an encoding is refused exactly if it is that of a sampling event, and otherwise measures the
  same levels, as far as it can name them, as precisely and as exclusively. It leaves out the guest and host levels (section 6).
- `AllOwned` (RawEncode): counts the arrays that are lost when the string cannot be built, one for each such call, and says that nothing else is
  (section 6). After a call that frees the address of the caller's pointer it says only when that happens.
- `Implements` (SampleBuffer): the refinement of `SampleStream`.
- `Accounted` (TaskSampling): samples that were dropped after the last record was written are
  in no count, since the kernel reports them only with a later record.
- `OneReader`, `OneRecord` (SelfSampling): hold without `-f` too, where a thread reads the buffer of
  another; there is one signal for each time an event fires. `OneRecord` says of throttled events, whose handlers are out of step, that each still finds the 8 bytes of
  a header: every signal comes with a sample behind what was left unread, so that the program does not end there.
- `OwnSignal` (SelfSampling): with `-f` a handler runs in the thread of its event and with its descriptors. The one exception is an event that its thread stopped
  while its signal was pending (section 6).
- `OrderIrrelevant`, `SameEncoding` (IntelEncode): two calls with the same meaning have
  the same outcome. `SameEncoding` leaves out raw unit masks of more than 32 bits.

## 5. Proofs

Checked by TLAPS, for every value of the constants that satisfies the named
assumptions. `SizeAssumption`, `TableAssumption`, `EnvAssumption`, `ParseAssumption`, `RawAssumption`,
`BufferAssumption`, `SamplingAssumption` and `ThreadAssumption` are types, distinct identifiers,
and tables that exist before `pmu_init` unless it builds them. Six say more, of constant tables and of what the programs ask for:

- `ExpansionAssumption` (EventParse): only unit masks stand for other attributes, and those have names. `uequiv` is a field of
  unit masks, which the callbacks copy to `equiv` (`pfmlib_intel_x86.c:1063`) and clear for modifiers (line 1095), and each `uequiv`
  of the tables is a list of names, some with values.
- `NestingAssumption` (EventParse): the attributes an expansion names may be expanded in turn, but none leads back to itself. With one
  that did, `pfmlib_parse_event_attr` would call itself for ever. The tables of `lib/events` nest two deep at most, for instance in
  `snb_l1d_pend_miss`, where `EDGE` is `OCCURRENCES` and that is `PENDING:e=1:c=1`.
- `WiredAssumption` (IntelEncode): a unit mask that wires a modifier belongs to an event whose code leaves the field of that modifier
  alone, that has no register of its own for unit masks, and whose defaults leave the field alone. It holds for each
  `modhw` of `lib/events/intel_*_events.h` that names a modifier of the register; the other one, of `FRONTEND_RETIRED`, is the threshold.
- `StringAssumption` (IntelEncode), for `SameEncoding` only: the unit masks and modifiers of an event have names of their own, an event
  has modifiers for both privilege levels or for none, and for the latency if one of its unit masks needs it, and no default
  overrides the code or takes the frontend threshold. It holds for the core tables of `lib/events/intel_*_events.h`. The unit masks `E` and `I` of the `L2_*`
  events of Core lie beside modifiers `e` and `i`, which the parser tells apart (`pfmlib_common.c:1248`); the model gives them different names.
- `PerfAssumption` (PerfEncode): Intel PMUs have no hypervisor level and the northbridge of AMD64 no level at all,
  and no value of an attribute is negative (`strtoull`).
- `FormatAssumption` (TaskSampling): nobody samples the stack of the user or the registers. No program of `perf_examples` sets
  `PERF_SAMPLE_STACK_USER`, `PERF_SAMPLE_REGS_USER` or `PERF_SAMPLE_REGS_INTR`; a record with the stack is taken apart wrongly, because `perf_display_stack_user` returns 0,
  and one with registers ends the program (`perf_util.c:346-358`, section 6).

`EncodingProofs` extends both `PerfEncode` and `RawEncode`, whose specification is therefore called `RawSpec`. The two have no
variable in common, and no theorem speaks of both.

| Module | Theorems | Inductive invariant |
|---|---|---|
| `PfmLibraryProofs` | `TypeCorrect`, `MapIsSound`, `ActivationIsAllowed`, `FreshTablesLive`, `TablesFreedOnce`, `HandlesResolve`, `FailureIsFinal`, `WalksComplete` | type, map, activation, `LoopInv`, fresh tables, `FreedOnce`, handles; `WalkInv` |
| `PerfTableProofs` | `TypeCorrect`, `PointersInBounds`, `TableComplete`, `TerminateSafe`, `OverflowUnitMasksContiguous`, `NothingLeaks` | type, bounds, `Position`, `Current`, `Counted`, `Blocks`; `Cleared`; `OInv`; `Clean` |
| `EventParseProofs` | `TypeCorrect`, `NothingLeaks`, `AttributesResolve`, `EventStable`, `RawExcludesUnitMasks`, `StringMeaning` | type, `Shape`, `Ownership`, `AttrsResolve`; `Exclusive`; `Sources`, `Parsed`, `Compared` |
| `SampleBufferProofs` | `TypeCorrect`, `UnreadIntact`, `CopyInOrder`, `BufferIsStream` | type, `Intact`, `Copying` |
| `SelfSamplingProofs` | `TypeCorrect`, `OneHandler`, `OneWholeRecord`, `SignalsOwned` | `Types`, `Signals`, `Unread`, `Contents`, `Own` |
| `IntelEncodeProofs` | `TypeCorrect`, `CombinationsRespected`, `GroupsComplete`, `WiredModifiersKept`, `OrderDoesNotMatter`, `StringEncodesTheSame` | `Shape`, `NamedOK`, `DefaultsOK` (`Separate`, `Completed`), `Result`; `Typed`; `Wiring`; `FunInv`; `StringInv` |
| `EncodingProofs` | `TypeCorrect`, `AttrIsAsAsked`, `StringMeasuresTheSame` of `PerfEncode`; `CodesFit`, `OneOwner` of `RawEncode` | type, `AsRead`; `FInv`; `RawTypes`, `RawCopy`, `RawArrays`, `RawStrings`, `RawEvents`, `RawFailed` |
| `TaskSamplingProofs` | `TypeCorrect`, `RecordsDecode`, `SamplesAccounted` | type, `Decodes`, `Streaming`, `Signalled`, `Balanced` |

*Life cycle.* `FreshLive` alone is not inductive: while the loop runs, the PMUs it has
activated must lie before the current one (`LoopInv`), or a later `pmu_init` could
replace a table that is in use. `TablesFreedOnce` follows from `FreshLive`: a table that is gone is not that of a PMU this initialization
activated. `HandlesResolve` rests on `IdxUnique`, that the
identifier of an event of one PMU is not that of another, which follows from
the uniqueness of quotient and remainder, proved in the module. `WalksComplete` is about steps: `WalkInv` says that a
walk has met exactly the events up to the identifier at hand, and that identifier gives back its PMU and event by
the same uniqueness, so that the step that ends the walk ends it at the last event.

*Tracepoint table.* `TableComplete` puts two invariants together: `Counted` and `Blocks` say that the events below the count have their unit masks and their names, `Cleared`
that nothing writes behind the last unit mask of an event of the first allocation. The blocks to free are in the heap because every event below the
count has its names there (`Blocks`), which needs to know where the event that is
being filled stands (`Position`, `Current`): a slot is handed out before its event
counts, and it may be reused. For the overflow table `OInv` follows the free pointer: while an event is filled, its unit masks
end at that pointer, so that the next one continues them (`Chains`, `NextInChain`). `NothingLeaks` is the
converse of `Blocks`: as long as nothing has failed, what is allocated is one of the blocks the counts reach
(`Clean`), which is a set built over events and unit masks and changes by one element in each step.

*Parser.* `Shape` says which activations there are at each control point; with it
each copy belongs to one activation. Attributes resolve because the table they
index is fixed as soon as there is one (`EventStable` states it of steps), and because the
entry for raw unit masks is allocated exactly for the PMUs that support them. `RawExcludesUnitMasks` needs to know that an
activation which has read no unit mask of its own has none below it either, though the flags `has_um` and
`has_raw_um` are not passed to the nested one: `Exclusive` ties the flags of each activation to the attributes, and says that a
nested activation reads names only, which is `ExpansionAssumption`. `StringMeaning` relates the stack of activations to the meaning of the
string that is read (`Source`): what it stands for is what the attributes were made of, followed by what the rest of each string on the stack
stands for, the innermost first (`Parsed`, `Chain`). Reading an attribute moves what it means from one side to the other (`ParseMeans`,
`ParsedStore`), a call leaves both as they are (`ParsedExpand`), because what an expanded attribute means is what its expansion means. That
`Meaning`, a function with a bound on the depth, has this equation is `MeaningIs`: by `NestingAssumption` the ranks get smaller from
expansion to expansion, so the bound is never reached; the induction is `SetInduction` again. `pfmlib_sanitize_event` removes an entry only for an equal
one before it, so the attributes stay a part of what was parsed that has everything as early (`Reduced`), and `Compared` says which
pairs have been compared when. A removed entry lets one pair escape, which needs a third entry of the same attribute: that is where
`AtMostTwice` enters (`ReducedTwice`). With nothing repeated, `ReducedFirst` gives the property. The string of an equivalent event and
that of the user are one string for this purpose, though `pfmlib_sanitize_event` runs after each.

*Encoder.* `NoCombo` is about the result, and follows from what the loops know: `NamedOK` of
the unit masks read so far, `Separate` of the defaults (they lie in groups without unit masks of
the request, one in each, which is what `pfm_intel_x86_validate_table` checks of a table). A group
may lack a default because of a limit that an earlier default set, so `Completed` carries, while
defaults are added, the unit mask each limit comes from. Both hold for any bound on attributes. The type invariant
needs that sorting the names gives names of the table, an induction over the length of a sequence: the library's
induction theorems cannot be used, so `SetInduction` proves induction for a set of naturals from the least element of a finite
interval, and `SortedType` applies it. `WiredModifiersKept` follows each field of the register from the attributes to
the code: nothing but a modifier touches it before the unit mask is ORed in (`Untouched`), what a modifier stored there
agrees with the wired value once the loop has ended (`Agreed`), and raw unit masks, which do replace the unit mask,
come alone (`RawAlone`), also in the string of an encoding. `OrderDoesNotMatter` compares two calls, so it needs what a call
returns as a function of its *set* of attributes: `Accepted` and `ResultOf` are defined on that set, without the loop.
`FunInv` says that the locals in the loop are those functions of the attributes read so far (`InLoop`), that in the defaults they
depend only on the groups looked at, which are looked at in ascending order (`InDefaults`), and that the call ends in `ResultOf`
if the set is `Accepted` and in a failure otherwise. The set determines the locals because the parser leaves no two attributes of one
name (`Distinct`), so no register field is written twice; an injection of a finite set into itself is onto, so the reordered call
has the same set. Which error a rejected call returns does depend on the order, and the property does not claim otherwise.
`StringEncodesTheSame` applies that closed form to one more set, the attributes the string was printed from (`StringIs`), which has
each attribute once (`SortedNames`). No default is added to it again, because the limit of the unit masks in use is the limit the
defaults ended with (`LimitIs`, `NoMoreDefaults`), and each field of the register is stored as it was printed (`StoredAgain`,
`SameRegister`). A latency or threshold of 0 is printed but rejected when read, so that the string was accepted says that they
were set; `StringInv` keeps which request the string came from.

*perf_event.* `AsRead` states for each field of the attr in the making which of the attributes read so far decides it; the loop may read
them in any order since each attribute is read once (the parser removes duplicates). At the end it gives
`Meaning`, and `StringMeasuresTheSame` evaluates `Meaning` on the attributes of the string (`FInv` keeps what the string was
printed from).

*Raw encoding.* What is allocated is counted by where the call stands: between `Codes` and the copy
back, an array the library allocated belongs to the copy of the argument (`RawCopy`, `RawArrays`), and is `lost` if the call leaves before the copy. `RawFailed`
says why a call goes to the label `error_fstr`.

*Ring buffer.* `Intact` says that nothing between `data_tail` and what the kernel has written is
overwritten; it holds because `data_tail` moves last. With it `Copying` says what the caller's buffer
holds at each step, also across the end of the payload, where two cells of one residue must be one
position. Every step then is a step of `SampleStream` or leaves it unchanged, which is `BufferIsStream`,
for every size of the buffer, which need not be a power of two.

*Signals.* `OneReader` is not inductive: a second signal must not exist while a handler runs. `Signals`
says that an event has its signal in one place at most, and that it is not enabled as long as it has
one; `Unread` that a signal comes with at least two unread units, those of the sample, which is why a handler that is out of step finds 8 bytes too;
`Contents` what the buffer of an event that was never throttled holds. `Own` adds for `-f` that a thread does not leave
its loop before the handler of its signal has returned, so that its descriptors are there, unless it stopped the event with the signal pending.

*Sampling session.* `Decodes` says nothing of what is still unread, so `Streaming` does: it is whole records (`Stream`), behind the
rest of the record at hand while the parser is inside one, and that rest is what the reads in `todo` are for (`Fits`), as long as `sz`
says. A read then finds its part and leaves a rest that fits again (`FitsStep`), also when a count it has read adds reads; when no
read is left neither is a part (`FitsEnd`); `--no-show` skips exactly the rest, since no other prefix is as long (`SkipExact`). The kernel only
adds records behind (`StreamAppend`), each of which fits because the parser's order of fields is the kernel's and each field is read as
it is written, for every number of its elements (`DisplayedFits`, `SampleFits`). `Signalled` is needed for the jump out of the loop: SIGCHLD is blocked
wherever a record is taken apart, so the parser is never left inside one. `Balanced` counts the samples that are still unread, a sum
over a sequence; it gives `Accounted` once the buffer is empty. Sums and the concatenation of the fields are recursive
functions: what the proofs need of them are their equations and `SetInduction`, and `Fits` and `Stream` are defined with the chain of
what is left after each field or record instead of by recursion.

**Only model-checked:** `SessionEnds` and `SamplingGoesOn` (liveness is
out of the prover's reach). Proved but in no run: `MapIsSound`, `FailureIsFinal`,
`EventStable` and `CopyInOrder`.

## 6. Where code and documentation disagree

Each of these is a run whose counterexample is a behaviour of the code.

| Run | What happens |
|---|---|
| `library_active_table` | a PMU that was active before `pfm_terminate` stays active while its table is gone |
| `raw_encode_toosmall` | an array that is too small, or no memory for one, and a string asked for: `free` gets the address of the caller's pointer |
| `self_sampling_shared` | without `-f` two events fire before a thread takes the first signal: the other one is never enabled again |

Met while modelling, without a run of their own:

- `pfm_initialize` succeeds without any active PMU; `pfm_initialize(3)` says success means at least one;
- a second `pfm_terminate` after a session in which the architected or the CPU-MF PMU stayed active from an earlier one frees its table again
  (`pfmlib_intel_x86_arch.c:188`, `pfmlib_s390x_cpumf.c:249`); `FreedOnce` says that nothing else makes it;
- `pfm_perf_terminate` frees nothing when there is no overflow table;
- when the list in `LIBPFM_DISABLED_PMUS` cannot be copied (`strdup` fails, `pfmlib_common.c:974`), the PMUs on it are activated, and nothing is reported; `libpfm(3)` says they are disabled;
- an event in memory added by `realloc` (the first array has room for 512 directories) has an arbitrary `equiv`, and behind its last unit mask what was there before,
  which `pfm_perf_validate_table`, the library's own check of its tables, refuses (`pfmlib_perf_event_pmu.c:922`);
- a raw unit mask joins the unit masks of the equivalent event;
- an attribute given three times keeps two values;
- the encoder refuses a string that it returned;
- a snoop is combined with a default `ANY_RESPONSE`;
- `mg` and `mh` count when they are named, whatever their value (`pfmlib_perf_event.c:210`): `mg=0` measures guests, and since the string of an encoding has both names, passing it again measures guests too;
- a period or a frequency is printed under both names, which a second call refuses; `cpu` and `pinned` are not printed;
- a frequency left in the attr of the caller makes every `period` and `freq` of a later call fail;
- the array for the codes is lost when the string cannot be built (`pfmlib_common.c:2269`);
- a child that exits before `setjmp` makes `cld_handler` jump through a buffer nobody filled (`task_smpl.c:297`);
- a record with registers ends the program: `perf_display_regs_user` and `perf_display_regs_intr` call `errx` (`perf_util.c:346-358`; no program asks for them);
- `perf_display_stack_user` returns 0, so that what it has read is skipped once more (`perf_util.c:386`; no program asks for that field);
- `sigio_handler` skips `ehdr.size` bytes behind the header, which is part of them; with the report of a throttled event behind the sample it skips into the middle of that report (`self_smpl_multi.c:261`). The next handler takes a value for a header, for instance a time,
  whose upper 16 bits, zero in the first 2^48 ns of uptime on a little-endian host, it takes for a size: from then on it skips an arbitrary number of bytes (`OneRecord` is about events that are not throttled);
- a signal that the event raises inside the `PERF_EVENT_IOC_DISABLE` that stops it is handled when the call returns, and the handler enables the event again (`self_smpl_multi.c:342`, `266`). It may
  fire once more after `perf_free_fds` (line 360), and its handler then uses descriptors that are freed, also with `-f` (`OwnSignal` leaves this case);
- without `-f` the handler of an event may run in another thread while the event's own thread frees its descriptors (line 360) and leaves: it uses them through `fd2ov` (`SelfSampling` reaches `undefined` so;
  `OwnSignal` is about `-f` only);
- a forced PMU leaves the PMUs of earlier initializations active;
- `pfm_find_event(3)` says the string is used up to the first comma, the code returns `PFM_ERR_INVAL` for one with a comma;
- with `LIBPFM_ENCODE_INACTIVE`, an identifier returned by `pfm_find_event` may be refused (`HandleResolves` assumes the variable is not set);
- when `perf_table_clone` fails, the scan goes on with the static table and passes it to `realloc` (`pfmlib_perf_event_pmu.c:344`);
- the number of attributes is compared with its limit for modifiers only (`pfmlib_common.c:1344`);
- `MEM_TRANS_RETIRED` without `LOAD_LATENCY` gets the unit mask as a default but no threshold, which `libpfm_intel_hsw(3)` says is required;
- a default unit mask that wires a modifier is ORed with the user's value of it;
- attribute `h` is taken away from every AMD64 PMU but family 10h (`pfmlib_amd64_perf_event.c:133`); the comment says older processors have
  no hypervisor level, but families 11h to 17h, whose `pmu_rev` is smaller as well, support it (`supported_plm`): an event of theirs
  encoded with the hypervisor in the default levels has a string that does not say so, and measures without it (`FstrMeasures` compares
  the levels that can be named);
- `pfmlib_getl` stores the terminator through a NULL buffer when the first read meets the end of the file (`pfmlib_common.c:665`);
- a raw unit mask of 33 to 38 bits is printed without its upper bits; `tests/validate_x86.c:4585` records the truncated string.

## 7. Not modelled, and why

- **Event tables** (`lib/events/*.h`): three quarters of the lines of the repository are initializers of
  constant arrays. There is no behaviour in them to model; the events that differ in what the encoders look at
  are instances. They keep the share of the source that is mapped low, whatever is modelled of the code.
- **Other raw encoders** (amd64, arm, mips, sparc, powerpc, torrent, NetBurst, uncore, RAPL): each is a loop
  over the attributes of the structure of `IntelEncode`. Required and exclusive groups and filters of the uncore
  encoders are what they add.
- **Itanium, Montecito, Cell, SiCortex**: written for an earlier interface, in no build of this library.
- **Detection** (CPUID, `/proc`, `/sys`): input; the models let each PMU be there or not.
- **`pfmlib_getl`, `pfmlib_strsep`, table validation, information queries**: sequential code over strings and constant tables.
- **Filters of uncore PMUs** in the Intel glue (`pfmlib_intel_x86_perf_event.c:154`, `INTEL_X86_FILT_UMASK`): the codes they go with come from the uncore encoders.
- **Calls of the library by several threads**: each thread of `self_smpl_multi` calls `perf_setup_list_events` (line 281) and so `pfm_get_os_event_encoding`, though the
  library is not reentrant. `SelfSampling` starts behind that call.
- **Weakly ordered memory**: see `SampleBuffer` in section 2.
- **Counting programs, examples, Python binding**: they open, read and print.
- **Versions of structures**: older sizes of `perf_event_attr` and of the arguments only cut what is copied.

## 8. Plan

Done: the modules above, with proofs about each of them.

What is left, in this order: the uncore
encoders (required groups, filters) next to `IntelEncode`; an abstract specification of a session (a set of usable
identifiers) that `PfmLibrary` implements.

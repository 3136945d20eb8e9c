---------------------------- MODULE PfmLibrary ----------------------------
(***************************************************************************)
(* The life cycle of libpfm4 (src/lib/pfmlib_common.c): pfm_initialize     *)
(* with its loops over the OS layers and over the PMU tables,              *)
(* pfm_terminate, and the calls an application makes in between to look    *)
(* events up and to walk over them.                                        *)
(*                                                                         *)
(* The library keeps all of its state in static variables, so that what    *)
(* pfm_terminate leaves behind is what the next pfm_initialize starts      *)
(* from.  A PMU table is a position in pfmlib_pmus[]; a name, a forced     *)
(* PMU string and a list of disabled PMUs are the sets of PMUs they match. *)
(***************************************************************************)
EXTENDS Integers, FiniteSets

CONSTANTS
    NPmu,          \* PFMLIB_NUM_PMUS
    PmuMax,        \* PFM_PMU_MAX, bound of the PMU identifiers
    PidxSpan,      \* 2^PFMLIB_PMU_SHIFT, bound of the private event indexes
    PmuId,         \* p->pmu, the public identifier of each table
    Insane,        \* tables that fail pfmlib_pmu_sanity_checks
    Deprecated,    \* tables with PFMLIB_PMU_FL_DEPR
    Detected,      \* tables whose pmu_detect callback succeeds on this host
    OsChecked,     \* tables with an os_detect callback for perf_events
    Kind,          \* which callbacks pmu_init and pmu_terminate are
    Forceable,     \* values of LIBPFM_FORCE_PMU
    ForcedBy,      \* tables whose name such a value is a prefix of
    Maskable,      \* values of LIBPFM_DISABLED_PMUS
    MaskedBy,      \* tables whose name has a substring in such a list
    EventName,     \* name of the event at each index of each table
    StaticCount,   \* pme_count before any initialization
    NoEnv,         \* an environment variable that is not set
    PerfFiles,     \* whether the kernel can have a perf_event_paranoid file
    MaxEvents,     \* bound: largest number of events of a table
    MaxSessions    \* bound: number of initializations

Pmu == 1 .. NPmu
Os == {"none", "perf", "perf_ext"}

\* Most tables are static arrays.  pmu_init builds the table of the perf PMU
\* (on top of a static one), of the Intel architected PMU and of the s390
\* CPU-measurement facility.
Kinds == {"static", "perf", "arch", "cpumf"}
Built(p) == Kind[p] # "static"
MayFail(p) == Kind[p] \in {"arch", "cpumf"}

Name == {EventName[p][e] : p \in Pmu, e \in 0 .. MaxEvents - 1}

ASSUME SizeAssumption ==
    /\ NPmu \in Nat \ {0}
    /\ PmuMax \in Nat \ {0}
    /\ PidxSpan \in Nat \ {0}
    /\ MaxEvents \in 1 .. PidxSpan
    /\ MaxSessions \in Nat
    /\ PerfFiles \in SUBSET BOOLEAN

ASSUME TableAssumption ==
    /\ PmuId \in [Pmu -> 0 .. PmuMax - 1]
    /\ \A p, q \in Pmu : PmuId[p] = PmuId[q] => p = q
    /\ Insane \subseteq Pmu
    /\ Deprecated \subseteq Pmu
    /\ Detected \subseteq Pmu
    /\ OsChecked \subseteq Pmu
    /\ Kind \in [Pmu -> Kinds]
    /\ StaticCount \in [Pmu -> 0 .. MaxEvents]
    /\ \A p \in Pmu : MayFail(p) => StaticCount[p] = 0

ASSUME EnvAssumption ==
    /\ NoEnv \notin Forceable
    /\ NoEnv \notin Maskable
    /\ ForcedBy \in [Forceable -> SUBSET Pmu]
    /\ MaskedBy \in [Maskable -> SUBSET Pmu]

VARIABLES
    pc,         \* "idle", "pmus" inside pfmlib_init_pmus, or "undefined"
    at,         \* loop index of pfmlib_init_pmus
    session,    \* number of times the initialization was started
    initdone,   \* pfm_cfg.initdone
    initret,    \* pfm_cfg.initret
    force,      \* pfm_cfg.forced_pmu
    disable,    \* pfm_cfg.blacklist_pmus
    inactive,   \* pfm_cfg.inactive
    osUp,       \* OS layers with PFMLIB_OS_FL_ACTIVATED
    os,         \* pfmlib_os
    initFlag,   \* tables with PFMLIB_PMU_FL_INIT
    active,     \* tables with PFMLIB_PMU_FL_ACTIVE
    map,        \* pfmlib_pmus_map, 0 standing for NULL
    table,      \* what the table pointer of each PMU designates
    nevents,    \* pme_count
    fresh,      \* history: tables activated by the latest initialization
    unlisted,   \* history: disabled tables it let through, see LetThrough
    held,       \* event identifier the application got last, -1 if none
    holds,      \* history: held was returned since the latest initialization
    walk        \* history: events returned since the walk of one PMU began

cfg == <<initdone, initret, force, disable, inactive>>
flags == <<initFlag, active, map, fresh, unlisted>>
handles == <<held, holds, walk>>
vars == <<pc, at, session, cfg, osUp, os, flags, table, nevents, handles>>

(***************************************************************************)
(* Event identifiers (pfmlib_pidx2idx, idx2pmu, pfmlib_idx2pidx).          *)
(***************************************************************************)
Pidx2Idx(p, e) == PmuId[p] * PidxSpan + e
IdxPmuId(idx) == idx \div PidxSpan
IdxEvent(idx) == idx % PidxSpan

Initialized == initdone /\ initret = "SUCCESS"

IdxPmu(idx) == IF IdxPmuId(idx) < PmuMax THEN map[IdxPmuId(idx)] ELSE 0

\* pfmlib_idx2pidx returns a table: the identifier can be used
Resolves(idx) ==
    /\ Initialized
    /\ idx >= 0
    /\ IdxPmu(idx) # 0
    /\ IdxEvent(idx) < nevents[IdxPmu(idx)]

Init ==
    /\ pc = "idle" /\ at = 1 /\ session = 0
    /\ initdone = FALSE /\ initret = "SUCCESS"
    /\ force = NoEnv /\ disable = NoEnv /\ inactive = FALSE
    /\ osUp = {} /\ os = "none"
    /\ initFlag = {} /\ active = {} /\ fresh = {} /\ unlisted = {}
    /\ map = [id \in 0 .. PmuMax - 1 |-> 0]
    /\ table = [p \in Pmu |-> IF MayFail(p) THEN "null" ELSE "static"]
    /\ nevents = StaticCount
    /\ held = -1 /\ holds = FALSE /\ walk = {}

(***************************************************************************)
(* pfm_initialize                                                          *)
(***************************************************************************)

\* pfmlib_init_env: the forced PMU is read each time, the two other settings
\* are only overwritten when their variable is set
InitEnv(f, d, i) ==
    /\ force' = f
    /\ disable' = IF d = NoEnv THEN disable ELSE d
    /\ inactive' = (inactive \/ i)

\* pfmlib_init_os: the layer "none" is always there; perf_events and its
\* extension are there together, when the kernel has the paranoid file
InitOs(perf) ==
    /\ osUp' = osUp \cup (IF perf THEN Os ELSE {"none"})
    /\ os' = IF perf /\ os = "none" THEN "perf" ELSE os

\* pfm_initialize up to the loop of pfmlib_init_pmus; a call made when
\* initdone is set changes nothing
Begin(f, d, i, perf) ==
    /\ pc = "idle"
    /\ ~initdone
    /\ session < MaxSessions
    /\ InitEnv(f, d, i)
    /\ InitOs(perf)
    /\ pc' = "pmus" /\ at' = 1
    /\ session' = session + 1
    /\ fresh' = {} /\ unlisted' = {} /\ holds' = FALSE /\ walk' = {}
    /\ UNCHANGED <<initdone, initret, initFlag, active, map, table, nevents, held>>

\* pfm_initialize after pfmlib_init_pmus returned r
Finish(r) ==
    /\ pc' = "idle"
    /\ initdone' = TRUE
    /\ initret' = r

\* the name of the table has a substring in the list of disabled PMUs
Disabled(p) == disable # NoEnv /\ p \in MaskedBy[disable]

\* the result ret of the detection: by name when a PMU is forced
Wanted(p) == IF force = NoEnv THEN p \in Detected ELSE p \in ForcedBy[force]

\* mutant: the map indexed by the position in pfmlib_pmus[]
MutMarkInit(p) ==
    /\ initFlag' = initFlag \cup {p}
    /\ map' = [map EXCEPT ![p] = p]

MarkInit(p) ==
    /\ initFlag' = initFlag \cup {p}
    /\ map' = [map EXCEPT ![PmuId[p]] = p]

InitPmus == pc = "pmus" /\ at <= NPmu /\ UNCHANGED <<session, force, disable, inactive, osUp, os, handles>>

\* a table that fails the sanity checks or is disabled is not available
SkipPmu ==
    /\ InitPmus
    /\ at \in Insane \/ Disabled(at)
    /\ at' = at + 1
    /\ UNCHANGED <<pc, initdone, initret, flags, table, nevents>>

\* a table goes on when it is not disabled; a disabled one does too when the
\* list could not be copied, for pfmlib_is_blacklisted_pmu then returns 0
LetThrough ==
    /\ InitPmus
    /\ at \notin Insane
    /\ unlisted' = IF Disabled(at) THEN unlisted \cup {at} ELSE unlisted

\* a table that is not wanted, or that the OS does not export, is available
\* but not activated
PassPmu(exported) ==
    /\ LetThrough
    /\ Wanted(at) => (at \in OsChecked /\ os = "perf" /\ ~exported)
    /\ MarkInit(at)
    /\ at' = at + 1
    /\ UNCHANGED <<pc, initdone, initret, active, fresh, table, nevents>>

Activable(exported) ==
    /\ LetThrough
    /\ Wanted(at)
    /\ (at \in OsChecked /\ os = "perf") => exported
    /\ MarkInit(at)

\* mutant: no return after the forced table
MutForward(r) == at' = at + 1 /\ UNCHANGED <<pc, initdone, initret>>

\* mutant: the loop index advanced twice
MutForwardTwice(r) ==
    IF force = NoEnv
    THEN at' = at + 2 /\ UNCHANGED <<pc, initdone, initret>>
    ELSE Finish(r) /\ UNCHANGED at

\* the loop stops after the first table that was forced
Forward(r) ==
    IF force = NoEnv
    THEN at' = at + 1 /\ UNCHANGED <<pc, initdone, initret>>
    ELSE Finish(r) /\ UNCHANGED at

\* mutant: a table that was there is not built again
MutActivate(exported, n) ==
    /\ Activable(exported)
    /\ active' = active \cup {at}
    /\ fresh' = fresh \cup {at}
    /\ IF Built(at)
       THEN /\ n >= StaticCount[at]
            /\ table' = [table EXCEPT ![at] = IF @ = "freed" THEN @ ELSE "built"]
            /\ nevents' = [nevents EXCEPT ![at] = n]
       ELSE n = 0 /\ UNCHANGED <<table, nevents>>
    /\ Forward("SUCCESS")

\* pmu_init of a table that is allocated at run time: n events are found; the
\* perf table stays static when there are no tracepoints to add
Activate(exported, n) ==
    /\ Activable(exported)
    /\ active' = active \cup {at}
    /\ fresh' = fresh \cup {at}
    /\ IF Built(at)
       THEN /\ n >= StaticCount[at]
            /\ table' = [table EXCEPT ![at] =
                            IF Kind[at] = "perf" /\ n = StaticCount[at] THEN "static" ELSE "built"]
            /\ nevents' = [nevents EXCEPT ![at] = n]
       ELSE n = 0 /\ UNCHANGED <<table, nevents>>
    /\ Forward("SUCCESS")

\* mutant: PFMLIB_PMU_FL_ACTIVE set before the result of pmu_init is tested
MutActivateFails(exported, n) ==
    /\ Activable(exported)
    /\ MayFail(at)
    /\ active' = active \cup {at}
    /\ fresh' = fresh \cup {at}
    /\ nevents' = [nevents EXCEPT ![at] = n]
    /\ Forward("NOTSUPP")
    /\ UNCHANGED table

\* pmu_init could not allocate the table; the architected PMU has stored the
\* number of events by then, and the CPU-measurement facility its NULL pointer
ActivateFails(exported, n) ==
    /\ Activable(exported)
    /\ MayFail(at)
    /\ nevents' = [nevents EXCEPT ![at] = IF Kind[at] = "arch" THEN n ELSE @]
    /\ table' = [table EXCEPT ![at] = IF Kind[at] = "arch" THEN @ ELSE "null"]
    /\ Forward(IF Kind[at] = "arch" THEN "NOTSUPP" ELSE "NOMEM")
    /\ UNCHANGED <<active, fresh>>

EndPmus ==
    /\ pc = "pmus" /\ at > NPmu
    /\ Finish("SUCCESS")
    /\ UNCHANGED <<at, session, force, disable, inactive, osUp, os, flags, table, nevents, handles>>

InitStep ==
    \/ SkipPmu
    \/ \E exported \in BOOLEAN : PassPmu(exported)
    \/ \E exported \in BOOLEAN, n \in 0 .. MaxEvents : Activate(exported, n)
    \/ \E exported \in BOOLEAN, n \in 0 .. MaxEvents : ActivateFails(exported, n)
    \/ EndPmus

(***************************************************************************)
(* pfm_terminate: calls pmu_terminate of the active PMUs, and clears       *)
(* neither their flags nor the map nor the settings read from the          *)
(* environment.                                                            *)
(***************************************************************************)

\* pfm_perf_terminate returns early unless there are overflow unit masks
\* (ovfl); the two others free what their static pointer designates and keep it
Torn(p, ovfl) ==
    IF p \notin active \/ table[p] = "null" THEN table[p]
    ELSE CASE Kind[p] = "static" -> table[p]
           [] Kind[p] = "perf"   -> IF table[p] = "built" /\ ovfl THEN "null" ELSE table[p]
           [] OTHER              -> "freed"

\* a PMU that is still active although this initialization did not build its
\* table: the block which the last pfm_terminate freed is freed again
Twice(p) == p \in active /\ MayFail(p) /\ table[p] = "freed"

Terminate(ovfl) ==
    /\ pc = "idle"
    /\ Initialized
    /\ pc' = IF \E p \in Pmu : Twice(p) THEN "undefined" ELSE "idle"
    /\ table' = [p \in Pmu |-> Torn(p, ovfl)]
    /\ nevents' = [p \in Pmu |-> IF p \in active /\ Kind[p] = "cpumf" THEN 0 ELSE nevents[p]]
    /\ initdone' = FALSE
    /\ UNCHANGED <<at, session, initret, force, disable, inactive, osUp, os, flags, handles>>

(***************************************************************************)
(* Queries.  q is the set of tables a PMU name stands for, or the set Pmu  *)
(* when the string gives none.                                             *)
(***************************************************************************)

\* the tables pfmlib_parse_event looks into
Candidates(q, named) ==
    IF named THEN {p \in q : p \in active \/ inactive}
             ELSE active \ Deprecated

Matches(p, name) == {e \in 0 .. nevents[p] - 1 : EventName[p][e] = name}

\* the first event of that name, in the order of the tables and of their events
IsFirst(p, e, q, named, name) ==
    /\ p \in Candidates(q, named)
    /\ e \in Matches(p, name)
    /\ \A r \in Candidates(q, named) : r < p => Matches(r, name) = {}
    /\ \A g \in Matches(p, name) : e <= g

\* pfm_find_event
FindEvent(q, named, name) ==
    /\ pc = "idle"
    /\ \/ /\ Initialized
          /\ \E p \in Pmu, e \in 0 .. MaxEvents - 1 :
                /\ IsFirst(p, e, q, named, name)
                /\ held' = Pidx2Idx(p, e)
          /\ holds' = TRUE
       \/ /\ Initialized => \A p \in Candidates(q, named) : Matches(p, name) = {}
          /\ held' = -1
          /\ holds' = FALSE
    /\ walk' = {}
    /\ UNCHANGED <<pc, at, session, cfg, osUp, os, flags, table, nevents>>

\* mutant: a table without events has a first event too
MutGetPmuInfo(id) ==
    LET p == map[id]
        first == IF Initialized /\ p # 0 THEN Pidx2Idx(p, 0) ELSE -1
    IN  /\ pc = "idle"
        /\ held' = first
        /\ holds' = (first # -1)
        /\ walk' = IF first = -1 THEN {} ELSE {0}
        /\ UNCHANGED <<pc, at, session, cfg, osUp, os, flags, table, nevents>>

\* pfm_get_pmu_info: the first event of the table with this identifier
GetPmuInfo(id) ==
    LET p == map[id]
        first == IF Initialized /\ p # 0 /\ nevents[p] > 0 THEN Pidx2Idx(p, 0) ELSE -1
    IN  /\ pc = "idle"
        /\ held' = first
        /\ holds' = (first # -1)
        /\ walk' = IF first = -1 THEN {} ELSE {0}
        /\ UNCHANGED <<pc, at, session, cfg, osUp, os, flags, table, nevents>>

\* mutant: the last event of a table is missed
MutGetEventNext ==
    LET p == IdxPmu(held)
        e == IdxEvent(held)
        next == IF Resolves(held) /\ e < nevents[p] - 2 THEN Pidx2Idx(p, e + 1) ELSE -1
    IN  /\ pc = "idle"
        /\ held # -1
        /\ held' = next
        /\ holds' = (next # -1)
        /\ walk' = IF next # -1 /\ walk # {} THEN walk \cup {e + 1} ELSE {}
        /\ UNCHANGED <<pc, at, session, cfg, osUp, os, flags, table, nevents>>

\* pfm_get_event_next
GetEventNext ==
    LET p == IdxPmu(held)
        e == IdxEvent(held)
        next == IF Resolves(held) /\ e < nevents[p] - 1 THEN Pidx2Idx(p, e + 1) ELSE -1
    IN  /\ pc = "idle"
        /\ held # -1
        /\ held' = next
        /\ holds' = (next # -1)
        /\ walk' = IF next # -1 /\ walk # {} THEN walk \cup {e + 1} ELSE {}
        /\ UNCHANGED <<pc, at, session, cfg, osUp, os, flags, table, nevents>>

Query ==
    \/ \E p \in Pmu, name \in Name : FindEvent({p}, TRUE, name)
    \/ \E name \in Name : FindEvent(Pmu, FALSE, name)
    \/ \E id \in 0 .. PmuMax - 1 : GetPmuInfo(id)
    \/ GetEventNext

Next ==
    \/ \E f \in Forceable \cup {NoEnv}, d \in Maskable \cup {NoEnv},
          i \in BOOLEAN, perf \in PerfFiles : Begin(f, d, i, perf)
    \/ InitStep
    \/ \E ovfl \in BOOLEAN : Terminate(ovfl)
    \/ Query

Spec == Init /\ [][Next]_vars

(***************************************************************************)
(* Properties                                                              *)
(***************************************************************************)
TypeOK ==
    /\ pc \in {"idle", "pmus", "undefined"}
    /\ at \in 1 .. NPmu + 1
    /\ session \in 0 .. MaxSessions
    /\ initdone \in BOOLEAN
    /\ initret \in {"SUCCESS", "NOTSUPP", "NOMEM"}
    /\ force \in Forceable \cup {NoEnv}
    /\ disable \in Maskable \cup {NoEnv}
    /\ inactive \in BOOLEAN
    /\ osUp \subseteq Os
    /\ os \in Os
    /\ initFlag \subseteq Pmu
    /\ active \subseteq Pmu
    /\ fresh \subseteq Pmu
    /\ unlisted \subseteq Pmu
    /\ map \in [0 .. PmuMax - 1 -> 0 .. NPmu]
    /\ table \in [Pmu -> {"null", "static", "built", "freed"}]
    /\ nevents \in [Pmu -> 0 .. MaxEvents]
    /\ held \in Int
    /\ holds \in BOOLEAN
    /\ walk \subseteq Nat

\* An active PMU is one that passed the checks and can be reached by its
\* identifier: the flags and pfmlib_pmus_map agree, whatever the sequence of
\* initializations (pfmlib_init_pmus sets the three in separate statements).
MapSound ==
    /\ active \subseteq initFlag
    /\ \A p \in Pmu : p \in initFlag <=> map[PmuId[p]] = p
    /\ \A id \in 0 .. PmuMax - 1 : map[id] # 0 => PmuId[map[id]] = id

\* What one initialization activates is what its environment allows: a PMU
\* that was detected or, when a PMU is forced, matches it, and in that case one
\* PMU only; and a disabled PMU only where memory ran out while the list of
\* the disabled ones was searched (pfmlib_is_blacklisted_pmu).
ActivationAllowed ==
    /\ \A p \in fresh : p \notin Insane /\ Wanted(p) /\ (Disabled(p) => p \in unlisted)
    /\ force # NoEnv => \A p, q \in fresh : p = q

\* the callbacks of the PMU can read the events they count
Live(p) == nevents[p] = 0 \/ table[p] \in {"static", "built"}

\* Between pfm_initialize and pfm_terminate the table of each PMU which that
\* initialization activated exists, so that the loops over its events read
\* allocated memory.
FreshLive == Initialized => \A p \in fresh : Live(p)

\* pfm_terminate frees the table that a PMU built once, as long as every active
\* PMU was activated by the latest initialization: what goes wrong otherwise
\* comes from the flags it does not clear.
FreedOnce == pc = "undefined" => \E p \in active \ fresh : MayFail(p)

\* What the loop of pfmlib_init_pmus relies on: it runs before initdone is set,
\* the PMUs it activated so far come before the current one, and none was
\* activated yet when a PMU is forced; what pfm_terminate relies on: the tables
\* of the PMUs it activated are there.
LoopInv ==
    /\ \A p \in Pmu : Kind[p] = "static" => table[p] = "static"
    /\ pc = "pmus" =>
        /\ ~initdone /\ ~holds
        /\ \A p \in fresh : p < at /\ Live(p)
        /\ force # NoEnv => fresh = {}
    /\ (pc = "pmus" \/ Initialized) => \A p \in fresh : MayFail(p) => table[p] = "built"

\* An event identifier that the application got from pfm_find_event,
\* pfm_get_pmu_info or pfm_get_event_next is accepted by the calls that take
\* one, until pfm_terminate (unless inactive PMUs can be encoded).
HandleResolves == (holds /\ Initialized /\ ~inactive) => Resolves(held)

\* Walking from the first event of a PMU with pfm_get_event_next meets every
\* event of the PMU before it returns -1.
WalkComplete ==
    [][(GetEventNext /\ held' = -1 /\ walk # {} /\ Initialized)
            => walk = 0 .. nevents[IdxPmu(held)] - 1]_vars

\* Once an initialization failed, no sequence of calls changes its verdict or
\* makes the library usable: pfm_terminate returns early and pfm_initialize
\* returns the first result.
FailureSticks ==
    [][(initdone /\ initret # "SUCCESS") => (initdone' /\ initret' = initret)]_vars

\* The library can be initialized several times (the comment of
\* pfm_perf_init): the tables of all active PMUs exist in every session.
ActiveLive == Initialized => \A p \in active : Live(p)
============================================================================

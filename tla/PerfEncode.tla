---------------------------- MODULE PerfEncode ----------------------------
(***************************************************************************)
(* The encoding of an event for perf_event (pfmlib_perf_event_encode of    *)
(* src/lib/pfmlib_perf_event.c) with the glue of the PMUs of Intel, AMD    *)
(* and ARM: which of the attributes of perf_event a PMU offers, what they  *)
(* do to the attr of the caller, and what the fully qualified event string *)
(* says of them.                                                           *)
(*                                                                         *)
(* The attributes of the string are read one after the other: the order is *)
(* a choice of Attr, and what was read is kept in given.  Attributes of    *)
(* the PMU and unit masks are those of IntelEncode.                        *)
(***************************************************************************)
EXTENDS Integers, FiniteSets

CONSTANTS
    Pmus,      \* PMUs: [glue, plm, pebs, hws, no_smpl, codes]
    Tokens,    \* attributes with a value: [name, ival]
    Presets,   \* what the caller has in its attr
    DflPlms,   \* dfl_plm, sets of levels
    IntMax,    \* INT_MAX
    MaxAttrs   \* bound: attributes of a string

Levels == {"u", "k", "h"}

Names == {"u", "k", "h", "period", "freq", "precise", "excl", "mg", "mh", "cpu", "pinned", "hw_smpl"}

\* the fields of struct perf_event_attr that are written
Attrs == [config : {"none", "code"}, config1 : {"none", "extra", "preset"}, sample : Nat, freq : BOOLEAN,
          precise_ip : 0 .. 3, exclusive : BOOLEAN, pinned : BOOLEAN,
          exclude : SUBSET {"user", "kernel", "hv", "guest", "host"}]

\* Intel has no hypervisor level, and the PMU of the AMD northbridge no level
\* at all; precise has two bits, and no value of an attribute is negative
ASSUME PerfAssumption ==
    /\ \A p \in Pmus :
        /\ p.glue \in {"intel", "amd64", "amd64_fam10h", "amd64_nb", "arm"}
        /\ p.plm \subseteq Levels /\ p.codes \in {1, 2, 3}
        /\ p.pebs \in BOOLEAN /\ p.hws \in BOOLEAN /\ p.no_smpl \in BOOLEAN
        /\ p.glue = "intel" => "h" \notin p.plm
        /\ p.glue = "amd64_nb" => p.plm = {}
    /\ Tokens \subseteq [name : Names, ival : Nat]
    /\ Presets \subseteq Attrs
    /\ \A d \in DflPlms : d \subseteq Levels
    /\ IntMax \in Nat \ {0} /\ MaxAttrs \in Nat

VARIABLES
    phase,        \* "call", "attrs", "done"
    pmu, ext,     \* the PMU of the event, and whether the OS is PERF_EVENT_EXT
    dfl_plm,
    preset,       \* history: attr of the caller at the call
    uattr,        \* attr of the caller
    attr,         \* my_attr
    given,        \* history: the attributes read
    plm, has_plm, vmx_plm, has_vmx_plm, cpu, pinned,
    ret,
    fstr          \* perf_event attributes of the fully qualified string

inputs == <<pmu, ext, dfl_plm, preset>>
masks == <<plm, has_plm, vmx_plm, has_vmx_plm, cpu, pinned>>
vars == <<phase, inputs, uattr, attr, given, masks, ret, fstr>>

\* the attributes of the two OS layers
OsAttrs == IF ext THEN Names ELSE {"u", "k", "h", "mg", "mh"}

\* mutant: hw_smpl is left to the events with PEBS as well
MutRemoved ==
    CASE pmu.glue = "intel" ->
            {"h"} \cup (IF pmu.pebs THEN {} ELSE {"precise"})
                  \cup (IF pmu.hws THEN {} ELSE {"hw_smpl"})
                  \cup (IF pmu.no_smpl THEN {"freq", "precise", "period"} ELSE {})
                  \cup (IF pmu.plm = {} THEN {"u", "k", "mg", "mh"} ELSE {})
      [] OTHER -> {"precise", "hw_smpl"}

\* what the validate_pattrs callback of the PMU takes away
Removed ==
    CASE pmu.glue = "intel" ->
            {"h"} \cup (IF pmu.pebs THEN {} ELSE {"precise"})
                  \cup (IF pmu.hws /\ ~pmu.pebs THEN {} ELSE {"hw_smpl"})
                  \cup (IF pmu.no_smpl THEN {"freq", "precise", "period"} ELSE {})
                  \cup (IF pmu.plm = {} THEN {"u", "k", "mg", "mh"} ELSE {})
      [] pmu.glue = "amd64" -> {"precise", "hw_smpl", "h"}  \* pmu_rev below AMD64_FAM10H, or not set
      [] pmu.glue = "amd64_fam10h" -> {"precise", "hw_smpl"}
      [] pmu.glue = "amd64_nb" -> Names
      [] pmu.glue = "arm" -> {"precise", "hw_smpl"}

Offered == OsAttrs \ Removed

Init ==
    /\ phase = "call"
    /\ pmu \in Pmus /\ ext \in BOOLEAN /\ dfl_plm \in DflPlms
    /\ preset \in Presets
    /\ uattr = preset /\ attr = preset
    /\ given = {}
    /\ plm = {} /\ has_plm = FALSE /\ vmx_plm = {} /\ has_vmx_plm = FALSE
    /\ cpu = -1 /\ pinned = FALSE
    /\ ret = "none" /\ fstr = {}

Leave(error) ==
    /\ phase' = "done" /\ ret' = error
    /\ UNCHANGED <<inputs, uattr, given, masks, fstr>>

\* the string does not parse, or the encoder of the PMU fails
Refused ==
    /\ phase = "call"
    /\ Leave("refused")
    /\ UNCHANGED attr

\* the codes of the PMU go to config and, for the Intel events with an extra
\* register, to config1; the others keep the caller's config1
PmuEncode ==
    /\ phase = "call"
    /\ IF pmu.codes > (IF pmu.glue = "intel" THEN 2 ELSE 1)
       THEN Leave("notsupp") /\ UNCHANGED attr
       ELSE /\ phase' = "attrs"
            /\ attr' = [attr EXCEPT !.config = "code", !.config1 = IF pmu.codes = 2 THEN "extra" ELSE @]
            /\ UNCHANGED <<inputs, uattr, given, masks, ret, fstr>>

\* mutant: precise is not compared with what its two bits hold
MutInvalid(t) ==
    CASE t.name = "period" -> t.ival = 0 \/ attr.freq
      [] t.name = "freq" -> t.ival = 0 \/ attr.sample # 0
      [] t.name = "cpu" -> t.ival >= IntMax
      [] OTHER -> FALSE

\* period and freq share a field of the union
Invalid(t) ==
    CASE t.name = "period" -> t.ival = 0 \/ attr.freq
      [] t.name = "freq" -> t.ival = 0 \/ attr.sample # 0
      [] t.name = "precise" -> t.ival > 3
      [] t.name = "cpu" -> t.ival >= IntMax
      [] OTHER -> FALSE

Bool(t) == IF t.ival = 0 THEN 0 ELSE 1

\* what an attribute does to my_attr
Changed(t) ==
    CASE t.name = "period" -> [attr EXCEPT !.sample = t.ival]
      [] t.name = "freq" -> [attr EXCEPT !.sample = t.ival, !.freq = TRUE]
      [] t.name = "precise" -> [attr EXCEPT !.precise_ip = t.ival]
      [] t.name = "hw_smpl" -> [attr EXCEPT !.precise_ip = Bool(t)]
      [] t.name = "excl" -> [attr EXCEPT !.exclusive = @ \/ t.ival # 0]
      [] OTHER -> attr

\* one round of the loop over the attributes; a name comes once, the parser
\* has removed duplicates; the encoders of Intel and AMD have sorted them, that
\* of ARM has not
Attr(t) ==
    /\ phase = "attrs"
    /\ t.name \in Offered /\ Cardinality(given) < MaxAttrs
    /\ \A g \in given : g.name # t.name
    /\ IF Invalid(t)
       THEN /\ phase' = "done" /\ ret' = "attr_val"
            /\ UNCHANGED <<attr, masks>>
       ELSE /\ attr' = Changed(t)
            /\ plm' = IF t.name \in Levels /\ t.ival # 0 THEN plm \cup {t.name} ELSE plm
            /\ has_plm' = (has_plm \/ t.name \in Levels)
            /\ vmx_plm' = CASE t.name = "mg" -> vmx_plm \cup {"u"}
                            [] t.name = "mh" -> vmx_plm \cup {"k"}
                            [] OTHER -> vmx_plm
            /\ has_vmx_plm' = (has_vmx_plm \/ t.name \in {"mg", "mh"})
            /\ cpu' = IF t.name = "cpu" THEN t.ival ELSE cpu
            /\ pinned' = IF t.name = "pinned" THEN t.ival # 0 ELSE pinned
            /\ UNCHANGED <<phase, ret>>
    /\ given' = given \cup {t}
    /\ UNCHANGED <<inputs, uattr, fstr>>

Unsupported == Levels \ pmu.plm

Plm == (IF has_plm THEN plm ELSE dfl_plm) \cup Unsupported
Vmx == (IF has_vmx_plm THEN vmx_plm ELSE {"k"}) \cup Unsupported

Final ==
    [attr EXCEPT !.exclude = {x \in {"user", "kernel", "hv", "guest", "host"} :
                                CASE x = "user" -> "u" \notin Plm
                                  [] x = "kernel" -> "k" \notin Plm
                                  [] x = "hv" -> "h" \notin Plm
                                  [] x = "guest" -> "u" \notin Vmx
                                  [] x = "host" -> "k" \notin Vmx},
                 !.pinned = pinned]

Flag(b) == IF b THEN 1 ELSE 0

\* the attributes of the string for the levels l: cpu and pinned are not
\* printed, a period or a frequency is printed under both names
PrintedFor(l) ==
    LET a == Final
        value(n) ==
            CASE n \in Levels -> Flag(n \in l)
              [] n \in {"precise", "hw_smpl"} -> a.precise_ip
              [] n \in {"period", "freq"} -> a.sample
              [] n = "mg" -> Flag("guest" \notin a.exclude)
              [] n = "mh" -> Flag("host" \notin a.exclude)
              [] n = "excl" -> Flag(a.exclusive)
    IN  {[name |-> n, ival |-> value(n)] :
            n \in {x \in Offered \ {"cpu", "pinned"} : x \in {"period", "freq"} => a.sample # 0}}

\* mutant: the levels of the string are those it named
MutPrinted == PrintedFor(plm)

Printed == PrintedFor(Plm)

\* the attr goes to the caller, then the string is built, which may fail
Finish ==
    /\ phase = "attrs"
    /\ attr' = Final /\ uattr' = Final
    /\ phase' = "done"
    /\ \/ ret' = "success" /\ fstr' \in {{}, Printed}
       \/ ret' = "nomem" /\ UNCHANGED fstr
    /\ UNCHANGED <<inputs, given, masks>>

Next == Refused \/ PmuEncode \/ (\E t \in Tokens : Attr(t)) \/ Finish

Spec == Init /\ [][Next]_vars

(***************************************************************************)
(* Properties                                                              *)
(***************************************************************************)
Done == phase = "done"

\* type invariant: the two attrs, what is read and what is returned
TypeOK ==
    /\ phase \in {"call", "attrs", "done"}
    /\ pmu \in Pmus /\ ext \in BOOLEAN /\ dfl_plm \in DflPlms /\ preset \in Presets
    /\ uattr \in Attrs /\ attr \in Attrs
    /\ given \subseteq Tokens
    /\ plm \subseteq Levels /\ vmx_plm \subseteq {"u", "k"}
    /\ has_plm \in BOOLEAN /\ has_vmx_plm \in BOOLEAN /\ pinned \in BOOLEAN
    /\ cpu \in -1 .. IntMax - 1
    /\ ret \in {"none", "success", "refused", "notsupp", "attr_val", "nomem"}

\* What a set of attributes means, whatever their order: the levels named, or
\* the default ones; guest and host if named, or the host only; one precise
\* value; a period or a frequency, in place of the caller's.
Named(set, n) == \E t \in set : t.name = n
Value(set, n, dfl) == IF Named(set, n) THEN (CHOOSE t \in set : t.name = n).ival ELSE dfl
Asked(set) ==
    IF \E n \in Levels : Named(set, n) THEN {n \in Levels : Value(set, n, 0) # 0} ELSE dfl_plm

Meaning(set) ==
    [ config |-> "code",
      config1 |-> IF pmu.codes = 2 THEN "extra" ELSE preset.config1,
      sample |-> Value(set, "period", Value(set, "freq", preset.sample)),
      freq |-> preset.freq \/ Named(set, "freq"),
      precise_ip |-> IF Named(set, "hw_smpl") THEN Flag(Value(set, "hw_smpl", 0) # 0)
                     ELSE Value(set, "precise", preset.precise_ip),
      exclusive |-> preset.exclusive \/ Value(set, "excl", 0) # 0,
      pinned |-> Value(set, "pinned", 0) # 0,
      exclude |->
        {x \in {"user", "kernel", "hv"} :
            LET n == CASE x = "user" -> "u" [] x = "kernel" -> "k" [] x = "hv" -> "h"
            IN  n \in pmu.plm /\ n \notin Asked(set)}
        \cup (IF "u" \in pmu.plm /\ ~Named(set, "mg") THEN {"guest"} ELSE {})
        \cup (IF "k" \in pmu.plm /\ Named(set, "mg") /\ ~Named(set, "mh") THEN {"host"} ELSE {}) ]

\* values out of range, a period with a frequency, and a frequency where the
\* caller's attr has a period or a frequency
Contradicts(set) ==
    \/ \E t \in set : t.name \in {"period", "freq"} /\ t.ival = 0
    \/ Value(set, "precise", 0) > 3 \/ Value(set, "cpu", 0) >= IntMax
    \/ Named(set, "period") /\ (Named(set, "freq") \/ preset.freq)
    \/ Named(set, "freq") /\ preset.sample # 0

\* An encoding succeeds unless its attributes contradict each other or the
\* caller's attr, and then the attr is what they mean, in whatever order they
\* were read: no two attributes a PMU offers write the same field unnoticed.  A
\* call that fails leaves the attr as it was, but for the one that lacks only
\* the memory for the string.
AsAsked ==
    Done => CASE ret \in {"success", "nomem"} -> ~Contradicts(given) /\ uattr = Meaning(given)
              [] ret = "attr_val" -> Contradicts(given) /\ uattr = preset
              [] OTHER -> uattr = preset

\* The levels the string can name.  The PMUs of AMD from family 11h on support
\* the hypervisor level, but the attribute is taken away from those whose
\* pmu_rev is not set.
Nameable == {"user", "kernel"} \cup (IF "h" \in pmu.plm \ Offered THEN {} ELSE {"hv"})

\* The fully qualified string of an encoding can be passed to the library again
\* and measures the same levels, precisely and exclusively as before, unless it
\* is that of a sampling event: a period or a frequency is printed under both
\* names, which contradict each other, so that exactly those strings are
\* refused.  Guest and host, of which the names count and not the values, are
\* not compared, and the caller's attr asks for no precision of its own.
FstrMeasures ==
    (fstr # {} /\ preset.precise_ip = 0) =>
        /\ Contradicts(fstr) <=> Named(fstr, "period")
        /\ ~Contradicts(fstr) =>
            LET again == Meaning(fstr)
            IN  /\ again.exclude \cap Nameable = uattr.exclude \cap Nameable
                /\ again.precise_ip = uattr.precise_ip
                /\ again.exclusive = uattr.exclusive
===========================================================================

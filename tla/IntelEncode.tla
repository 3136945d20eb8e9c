----------------------------- MODULE IntelEncode -----------------------------
(***************************************************************************)
(* The encoder of the Intel core PMUs: pfm_intel_x86_encode_gen and        *)
(* pfm_intel_x86_add_defaults (src/lib/pfmlib_intel_x86.c).  It reads the  *)
(* attributes of a parsed event one by one, checks that they agree, adds a *)
(* default unit mask to each group that has none, and returns the codes    *)
(* and the fully qualified event string.  The client encodes a request,    *)
(* and then the string it got or the same attributes in another order.     *)
(*                                                                         *)
(* An integer is the set of the positions of its one bits, so that | is    *)
(* \cup and a field of the register (pfm_intel_x86_reg_t) is a set of      *)
(* positions.  The unit mask umask2, which the code keeps shifted right by *)
(* 8, stays at its position in the register.  INTEL_X86_GRP_EXCL,          *)
(* INTEL_X86_GRP_REQ and the required modifiers are left out: only tables  *)
(* of uncore PMUs, which have encoders of their own, use them.             *)
(***************************************************************************)
EXTENDS Integers, FiniteSets, Sequences

CONSTANTS
    Events,     \* events
    Table,      \* their entries in the table of the PMU (intel_x86_entry_t)
    Modifiers,  \* modifiers the client may pass: pairs of a name and a value
    RawUmasks,  \* values of raw unit masks it may pass
    Plms,       \* default privilege levels it may pass, dfl_plm
    MaxAttrs    \* bound: attributes in a request

Bit == 0 .. 63
Value == SUBSET Bit
Field == [u |-> {16}, k |-> {17}, e |-> {18}, t |-> {21}, i |-> {23},
          c |-> 24 .. 31, intx |-> {32}, intxcp |-> {33}]
Mods == DOMAIN Field \cup {"ldlat", "fe_thres"}
EventSelect == 0 .. 7
UnitMask == 8 .. 15
ThrField == 16 .. 27   \* the frontend threshold, bits 8 to 19 of umask2
IntBit == 20
EnBit == 22
MaxGrpid == 65535      \* INTEL_X86_MAX_GRPID
Uflags == {"NCOMBO", "DFL", "EXCL_GRP_GT", "EXCL_GRP_BUT_0", "GRP_DFL_NONE", "CODE_OVERRIDE", "LDLAT", "FETHR"}

Umask == [ucode : Value, grpid : 0 .. 7, modhw : SUBSET Mods, uflags : SUBSET Uflags]

\* names: the unit masks of the model of the PMU, in the order of the table;
\* mods: its modmsk; flags: of the event, and EDGE_CMASK for a PMU with
\* INTEL_X86_PMU_FL_ECMASK; width: bits of a raw unit mask; plm: supported_plm
Entry(en) ==
    /\ DOMAIN en = {"code", "names", "umasks", "ngrp", "mods", "flags", "width", "plm"}
    /\ en.code \in Value /\ en.ngrp \in 0 .. 7 /\ en.width \in {8, 16, 38}
    /\ en.names \in Seq(DOMAIN en.umasks) /\ en.mods \in Seq(Mods)
    /\ en.umasks \in [DOMAIN en.umasks -> Umask]
    /\ DOMAIN en.umasks = {en.names[k] : k \in 1 .. Len(en.names)}
    /\ \A n \in DOMAIN en.umasks : en.umasks[n].grpid < en.ngrp
    /\ en.flags \subseteq {"OFFCORE", "FRONTEND", "EDGE_CMASK"} /\ en.plm \subseteq {"k", "u"}

\* one default in a group, as pfm_intel_x86_validate_table demands, and one
\* group whose unit masks exclude others
WellFormed(en) ==
    \A m, n \in DOMAIN en.umasks :
        LET both(f) == f \in en.umasks[m].uflags \cap en.umasks[n].uflags
            together == en.umasks[m].grpid = en.umasks[n].grpid
        IN  /\ both("DFL") /\ together => m = n
            /\ both("EXCL_GRP_GT") \/ both("EXCL_GRP_BUT_0") => together

ASSUME TableAssumption ==
    /\ \A ev \in Events : Entry(Table[ev]) /\ WellFormed(Table[ev])
    /\ Modifiers \subseteq Mods \X Value
    /\ RawUmasks \subseteq Value
    /\ Plms \subseteq SUBSET {"k", "u"}
    /\ MaxAttrs \in Nat

\* What the tables give for every unit mask that wires a modifier m of the
\* register: m is no privilege level, the event has no register of its own for
\* unit masks, its code leaves the field of m alone, and so do the defaults
\* that may be added to the unit mask
ASSUME WiredAssumption ==
    \A ev \in Events : \A n \in DOMAIN Table[ev].umasks :
        \A m \in Table[ev].umasks[n].modhw \cap DOMAIN Field :
            /\ m \notin {"k", "u"}
            /\ Table[ev].flags \cap {"OFFCORE", "FRONTEND"} = {}
            /\ Table[ev].code \cap Field[m] = {}
            /\ \A o \in DOMAIN Table[ev].umasks :
                  LET um == Table[ev].umasks[o]
                  IN  "DFL" \in um.uflags /\ um.grpid # Table[ev].umasks[n].grpid =>
                          um.ucode \cap Field[m] = {}

\* What the string of an encoding needs: unit masks and modifiers have names of
\* their own (L2_LINES_IN has a unit mask E and a modifier e, which the parser
\* tells apart), an event has modifiers for both privilege levels or for none,
\* and for the latency if a unit mask needs it, and no default overrides the
\* code or takes the frontend threshold
ASSUME StringAssumption ==
    \A ev \in Events :
        LET en == Table[ev]
            once(s) == \A x, y \in 1 .. Len(s) : s[x] = s[y] => x = y
            mods == {en.mods[x] : x \in 1 .. Len(en.mods)}
        IN  /\ once(en.names) /\ once(en.mods)
            /\ DOMAIN en.umasks \cap (Mods \cup {"0x"}) = {}
            /\ en.plm \subseteq mods \/ {"k", "u"} \cap mods = {}
            /\ \A n \in DOMAIN en.umasks :
                  LET flags == en.umasks[n].uflags
                  IN  /\ "LDLAT" \in flags => "ldlat" \in mods
                      /\ "DFL" \in flags => flags \cap {"CODE_OVERRIDE", "FETHR"} = {}

VARIABLES
    phase,  \* "idle", or the part of the encoder that runs
    call,   \* why the client calls it
    event,  \* e->event
    plm,    \* e->dfl_plm
    attrs,  \* e->attrs
    k,      \* index in attrs
    l,      \* the other local variables
    res,    \* outcome of the last call
    first   \* outcome of the call before "again" and "reorder"

vars == <<phase, call, event, plm, attrs, k, l, res, first>>

Attr(t, n, v) == [type |-> t, name |-> n, ival |-> v]
Success == "SUCCESS"
Failure(err) == [err |-> err, codes |-> <<>>, fstr |-> <<>>, used |-> {}]
NoResult == Failure("none")

entry == Table[event]
umasks == entry.umasks
Group(n) == umasks[n].grpid
Has(n, flag) == flag \in umasks[n].uflags
Groups == 0 .. entry.ngrp - 1

\* mutant: the "no group" of excl_grp_but_0 stored in an unsigned short
MutLocals(ev) ==
    [reg |-> Table[ev].code, umask |-> {}, named |-> {}, added |-> {}, raw |-> <<>>, mods |-> {},
     max_grpid |-> MaxGrpid, limit |-> MaxGrpid, but_0 |-> MaxGrpid, code |-> {},
     ldlat |-> {}, fe_thr |-> {}, missing |-> {}]

\* named: unit masks of the request, added: defaults; missing: groups still
\* to be looked at by add_defaults, limit: its copy of max_grpid; code: the
\* event codes that unit masks override; mods: umodmsk
Locals(ev) ==
    [reg |-> Table[ev].code, umask |-> {}, named |-> {}, added |-> {}, raw |-> <<>>, mods |-> {},
     max_grpid |-> MaxGrpid, limit |-> MaxGrpid, but_0 |-> -1, code |-> {},
     ldlat |-> {}, fe_thr |-> {}, missing |-> {}]

Init ==
    /\ phase = "idle" /\ call = "none"
    /\ event \in Events /\ plm \in Plms
    /\ attrs = <<>> /\ k = 1 /\ l = Locals(event)
    /\ res = NoResult /\ first = NoResult

(***************************************************************************)
(* The client.  The attributes of the first call are chosen as they are    *)
(* read; as in the parser, no two have one name, and a raw unit mask comes *)
(* without unit masks.                                                     *)
(***************************************************************************)
Offered ==
    {a \in {Attr("umask", n, {}) : n \in DOMAIN umasks}
           \cup {Attr("raw", "0x", v) : v \in RawUmasks}
           \cup {Attr("mod", m[1], m[2]) : m \in {m \in Modifiers : \E x \in 1 .. Len(entry.mods) : entry.mods[x] = m[1]}} :
        \A x \in 1 .. Len(attrs) :
            attrs[x].name # a.name /\ (a.type = "mod" \/ attrs[x].type \in {"mod", a.type})}

Start(why, ev, a, before) ==
    /\ call' = why /\ event' = ev /\ attrs' = a /\ first' = before
    /\ phase' = "attrs" /\ k' = 1 /\ l' = Locals(ev) /\ res' = NoResult

Request ==
    /\ phase = "idle"
    /\ \E ev \in Events, p \in Plms : Start("first", ev, <<>>, NoResult) /\ plm' = p

\* the fully qualified event string of the first call is encoded
Again ==
    /\ phase = "idle" /\ call = "first" /\ res.err = Success
    /\ Start("again", event, res.fstr, res)
    /\ UNCHANGED plm

\* the attributes of the first call are encoded in another order
Reorder ==
    /\ phase = "idle" /\ call = "first"
    /\ \E p \in [1 .. Len(attrs) -> 1 .. Len(attrs)] :
          /\ \A x, y \in 1 .. Len(attrs) : p[x] = p[y] => x = y
          /\ Start("reorder", event, [x \in 1 .. Len(attrs) |-> attrs[p[x]]], res)
    /\ UNCHANGED plm

(***************************************************************************)
(* The loop over the attributes                                            *)
(***************************************************************************)
Readable ==
    IF call = "first" THEN {a \in Offered : Len(attrs) < MaxAttrs}
                      ELSE {attrs[x] : x \in {k} \cap 1 .. Len(attrs)}

Reads(a) ==
    /\ phase = "attrs"
    /\ attrs' = IF call = "first" THEN Append(attrs, a) ELSE attrs
    /\ k' = k + 1
    /\ UNCHANGED <<call, event, plm, first>>

Continue(locals) == l' = locals /\ UNCHANGED <<phase, res>>
Return(err) == phase' = "idle" /\ res' = Failure(err) /\ UNCHANGED l

\* mutants: the flag of the unit mask at hand only, or of the earlier ones only
MutNoCombinationNew(n) == Has(n, "NCOMBO") /\ \E m \in l.named : Group(m) = Group(n)
MutNoCombinationOld(n) == \E m \in l.named : Group(m) = Group(n) /\ Has(m, "NCOMBO")

\* two unit masks in a group where one cannot be combined, over those named
NoCombination(n) ==
    /\ \E m \in l.named : Group(m) = Group(n)
    /\ \E m \in l.named \cup {n} : Group(m) = Group(n) /\ Has(m, "NCOMBO")

TakeUmask(a) ==
    LET n == a.name
        um == umasks[n]
        code == um.ucode \cap EventSelect
        override == Has(n, "CODE_OVERRIDE")
    IN  /\ a.type = "umask"
        /\ Reads(a)
        /\ IF NoCombination(n) \/ (override /\ l.code \notin {{}, {code}})
           THEN Return("FEATCOMB")
           ELSE Continue([l EXCEPT
                    !.named = @ \cup {n},
                    !.max_grpid = IF Has(n, "EXCL_GRP_GT") THEN um.grpid ELSE @,
                    !.but_0 = IF Has(n, "EXCL_GRP_BUT_0") THEN um.grpid ELSE @,
                    !.umask = @ \cup (um.ucode \ EventSelect),
                    !.code = IF override THEN {code} ELSE @,
                    !.reg = IF override THEN (@ \ EventSelect) \cup code ELSE @])

TakeRaw(a) ==
    /\ a.type = "raw"
    /\ Reads(a)
    /\ IF a.ival \subseteq 0 .. entry.width - 1
       THEN Continue([l EXCEPT !.umask = {b + 8 : b \in a.ival}, !.raw = <<a>>])
       ELSE Return("ATTR")

BadValue(m, v) ==
    CASE m = "c" -> ~ (v \subseteq 0 .. 7)                                 \* > 255
      [] m = "ldlat" -> v \in (SUBSET {0}) \cup {{1}} \/ ~ (v \subseteq 0 .. 15)  \* < 3 or > 65535
      [] m = "fe_thres" -> v = {} \/ ~ (v \subseteq 0 .. 11)               \* < 1 or > 4095
      [] OTHER -> FALSE

\* what is stored in the field of a modifier of the register
Stored(m, v) == IF m = "c" THEN {b + 24 : b \in v} ELSE IF v = {} THEN {} ELSE Field[m]

TakeModifier(a) ==
    /\ a.type = "mod"
    /\ Reads(a)
    /\ IF BadValue(a.name, a.ival) THEN Return("ATTR_VAL")
       ELSE Continue(
                CASE a.name = "ldlat" -> [l EXCEPT !.ldlat = a.ival]
                  [] a.name = "fe_thres" -> [l EXCEPT !.fe_thr = a.ival, !.mods = @ \cup {a.name}]
                  [] OTHER -> [l EXCEPT !.reg = (@ \ Field[a.name]) \cup Stored(a.name, a.ival),
                                        !.mods = @ \cup {a.name}])

(***************************************************************************)
(* After the loop                                                          *)
(***************************************************************************)
modhw == UNION {umasks[n].modhw : n \in l.named}

\* mutant: the counter mask is not compared
MutConflict ==
    \E m \in (modhw \cap l.mods \cap DOMAIN Field) \ {"c"} :
        l.umask \cap Field[m] # l.reg \cap Field[m]

\* a modifier wired by the unit masks is given another value
Conflict ==
    \E m \in modhw \cap l.mods \cap DOMAIN Field :
        l.umask \cap Field[m] # l.reg \cap Field[m]

\* privilege levels where the request has none
DefaultPlm ==
    IF l.mods \cap {"k", "u"} # {} THEN {}
    ELSE UNION {Field[m] : m \in plm \cap entry.plm}

\* mutant: defaults only for a request without unit masks
MutCovered == IF l.raw # <<>> \/ l.named # {} THEN Groups ELSE {}

Covered == IF l.raw # <<>> THEN Groups ELSE {Group(n) : n \in l.named}

EndAttrs ==
    /\ phase = "attrs"
    /\ call = "first" \/ k > Len(attrs)
    /\ IF Conflict THEN Return("ATTR_SET")
       ELSE /\ phase' = "defaults"
            /\ l' = [l EXCEPT !.reg = @ \cup DefaultPlm,
                              !.missing = Groups \ Covered,
                              !.limit = l.max_grpid]
            /\ UNCHANGED res
    /\ UNCHANGED <<call, event, plm, attrs, k, first>>

\* a group, or a unit mask of it, that needs no default
Skipped(n) ==
    \/ Group(n) > l.limit
    \/ Has(n, "GRP_DFL_NONE")
    \/ l.but_0 # -1 /\ Group(n) \notin {0, l.but_0}

AddDefault(g) ==
    LET own == {n \in DOMAIN umasks : Group(n) = g}
        dfl == {n \in own : ~ Skipped(n) /\ Has(n, "DFL")}
        exclusive == \E n \in dfl : Has(n, "EXCL_GRP_GT")
    IN  /\ phase = "defaults"
        /\ g \in l.missing /\ \A h \in l.missing : g <= h
        /\ IF \/ \A n \in own : n \notin dfl /\ ~ Skipped(n)
              \/ exclusive /\ l.limit # MaxGrpid
           THEN Return("UMASK")
           ELSE Continue([l EXCEPT
                    !.missing = @ \ {g},
                    !.added = @ \cup dfl,
                    !.umask = @ \cup ((UNION {umasks[n].ucode : n \in dfl}) \ EventSelect),
                    !.limit = IF exclusive THEN g ELSE @])
        /\ UNCHANGED <<call, event, plm, attrs, k, first>>

\* a unit mask the exclusions forbid
Excluded ==
    \/ l.but_0 # -1 /\ \E n \in l.named : Group(n) \notin {0, l.but_0}
    \/ \E n \in l.named \cup l.added : Group(n) > l.max_grpid

\* fe_thr, and the threshold in the unit mask, of a FRONTEND event
Wired == {b - 16 : b \in l.umask \cap ThrField}
FeThrUmask == "FRONTEND" \in entry.flags /\ \E n \in l.named : Has(n, "FETHR")
FeThrGiven == "fe_thres" \in modhw \cap l.mods
FeThr ==
    IF ~ FeThrUmask THEN l.fe_thr
    ELSE IF Wired # {} THEN (IF FeThrGiven THEN l.fe_thr ELSE Wired)
    ELSE IF l.fe_thr = {} THEN {0} ELSE l.fe_thr
UmaskCode ==
    IF FeThrUmask THEN (l.umask \ ThrField) \cup {b + 16 : b \in FeThr} ELSE l.umask

LdlatUmask == \E n \in l.named : Has(n, "LDLAT")
Ldlat == IF LdlatUmask /\ l.ldlat = {} THEN {0, 1} ELSE l.ldlat

\* the unit mask goes to a register of its own
Extra == entry.flags \cap {"OFFCORE", "FRONTEND"} # {}
Register ==
    l.reg \cup (entry.code \cap UnitMask) \cup (IF Extra THEN {} ELSE UmaskCode) \cup {EnBit, IntBit}
Codes ==
    IF LdlatUmask THEN <<Register, Ldlat>>
    ELSE IF Extra THEN <<Register, UmaskCode>> ELSE <<Register>>

\* mutant: privilege levels are printed from dfl_plm
MutPrinted(m) ==
    CASE m = "ldlat" -> Ldlat
      [] m = "fe_thres" -> FeThr
      [] m = "c" -> {b - 24 : b \in Register \cap Field.c}
      [] m \in {"k", "u"} -> IF m \in plm THEN {0} ELSE {}
      [] OTHER -> IF Field[m] \subseteq Register THEN {0} ELSE {}

\* the value of a modifier in the fully qualified event string
Printed(m) ==
    CASE m = "ldlat" -> Ldlat
      [] m = "fe_thres" -> FeThr
      [] m = "c" -> {b - 24 : b \in Register \cap Field.c}
      [] OTHER -> IF Field[m] \subseteq Register THEN {0} ELSE {}

\* a raw unit mask is printed with %x, as an unsigned int
PrintedRaw == [x \in 1 .. Len(l.raw) |-> Attr("raw", "0x", l.raw[x].ival \cap 0 .. 31)]

\* the unit masks of a set, sorted: pfmlib_sort_attr
Sorted(names, set) ==
    LET upto[x \in 0 .. Len(names)] ==
            IF x = 0 THEN <<>>
            ELSE IF names[x] \in set THEN Append(upto[x - 1], names[x]) ELSE upto[x - 1]
    IN  upto[Len(names)]

FstrUmasks ==
    LET used == Sorted(entry.names, l.named \cup l.added)
    IN  [x \in 1 .. Len(used) |-> Attr("umask", used[x], {})] \o PrintedRaw

FstrMods == [x \in 1 .. Len(entry.mods) |-> Attr("mod", entry.mods[x], Printed(entry.mods[x]))]

Encode ==
    /\ phase = "defaults" /\ l.missing = {}
    /\ phase' = "idle"
    /\ res' =
        IF Excluded THEN Failure("FEATCOMB")
        ELSE IF FeThrUmask /\ Wired # {} /\ FeThrGiven /\ l.fe_thr # Wired THEN Failure("ATTR_SET")
        ELSE IF l.ldlat # {} /\ ~ LdlatUmask THEN Failure("ATTR")
        ELSE IF "EDGE_CMASK" \in entry.flags /\ Field.e \subseteq Register /\ Field.c \cap Register = {}
             THEN Failure("ATTR")
        ELSE [err |-> Success, codes |-> Codes, fstr |-> FstrUmasks \o FstrMods,
              used |-> l.named \cup l.added]
    /\ UNCHANGED <<call, event, plm, attrs, k, l, first>>

Next ==
    \/ Request \/ Again \/ Reorder
    \/ \E a \in Readable : TakeUmask(a) \/ TakeRaw(a) \/ TakeModifier(a)
    \/ EndAttrs
    \/ \E g \in l.missing : AddDefault(g)
    \/ Encode

Spec == Init /\ [][Next]_vars

(***************************************************************************)
(* Properties                                                              *)
(***************************************************************************)
Attributes ==
    [type : {"umask"}, name : DOMAIN umasks, ival : {{}}]
    \cup [type : {"raw"}, name : {"0x"}, ival : Value]
    \cup [type : {"mod"}, name : Mods, ival : Value]
Errors == {"none", Success, "FEATCOMB", "ATTR", "ATTR_VAL", "ATTR_SET", "UMASK"}
OutcomeOK(r) ==
    /\ r.err \in Errors
    /\ r.codes \in Seq(Value) /\ Len(r.codes) <= 2
    /\ r.fstr \in Seq(Attributes)
    /\ r.used \subseteq DOMAIN umasks

\* Every value stays in its range: the codes are at most two registers of 64
\* bits, the unit masks are those of the event, and groups are its groups.
TypeOK ==
    /\ phase \in {"idle", "attrs", "defaults"}
    /\ call \in {"none", "first", "again", "reorder"}
    /\ event \in Events /\ plm \subseteq {"k", "u"} /\ k \in Nat
    /\ attrs \in Seq(Attributes)
    /\ l.reg \in Value /\ l.umask \in Value /\ l.ldlat \in Value /\ l.fe_thr \in Value
    /\ l.named \cup l.added \subseteq DOMAIN umasks /\ l.mods \subseteq Mods
    /\ {l.max_grpid, l.limit} \subseteq Groups \cup {MaxGrpid} /\ l.but_0 \in Groups \cup {-1}
    /\ l.missing \subseteq Groups
    /\ OutcomeOK(res) /\ OutcomeOK(first)

Done == phase = "idle" /\ res.err = Success

\* A unit mask that cannot be combined is alone in its group, whether the
\* other one was given before it or after it or was added as a default.
NoCombo ==
    Done => \A m, n \in res.used :
        Group(m) = Group(n) /\ Has(m, "NCOMBO") => m = n

\* Every group of the event has a unit mask in the result, unless a raw unit
\* mask stands for all of them, the group may be empty, or a unit mask of the
\* result excludes it.
GroupsCovered ==
    (Done /\ l.raw = <<>>) => \A g \in Groups :
        \/ \E n \in res.used : Group(n) = g
        \/ \E n \in DOMAIN umasks : Group(n) = g /\ Has(n, "GRP_DFL_NONE")
        \/ \E n \in res.used : Has(n, "EXCL_GRP_GT") /\ Group(n) < g
        \/ g # 0 /\ \E n \in res.used : Has(n, "EXCL_GRP_BUT_0")

\* A modifier that a given unit mask wires has the wired value in the event
\* register, whatever modifiers are given and in whatever order.
WiredKept ==
    Done => \A n \in l.named : \A m \in umasks[n].modhw \cap DOMAIN Field :
        res.codes[1] \cap Field[m] = UNION {umasks[o].ucode \cap Field[m] : o \in l.named}

\* The order of the attributes changes neither whether they are accepted nor
\* what they are encoded to ("we do not want to depend on the order in which
\* they are specified").
OrderIrrelevant ==
    (phase = "idle" /\ call = "reorder") =>
        /\ (res.err = Success) = (first.err = Success)
        /\ res.err = Success => res = first

\* A fully qualified event string that is accepted is encoded to the codes it
\* came with, and is its own fully qualified event string; but for a raw unit
\* mask of more than 32 bits, which is printed without its upper bits (the
\* tests expect OFFCORE_RESPONSE_0:0xffffffff for 0xfffffffff).
SameEncoding ==
    (/\ Done /\ call = "again"
     /\ \A x \in 1 .. Len(attrs), c \in 1 .. Len(first.codes) :
           attrs[x].type = "raw" => first.codes[c] \subseteq 0 .. 39) => res = first
==============================================================================

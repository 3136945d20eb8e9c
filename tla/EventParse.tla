----------------------------- MODULE EventParse -----------------------------
(***************************************************************************)
(* The parser of event strings: pfmlib_parse_event and what it calls       *)
(* (src/lib/pfmlib_common.c).  An event that is a variation of another one *)
(* is replaced by its equivalent string, an attribute that stands for      *)
(* others is expanded by a recursive call, and the attributes of the       *)
(* string of the user come last.  A string is a sequence of attributes,    *)
(* an attribute a name and a value; the string of the user is arbitrary    *)
(* and chosen as it is read.  The search for the event in the list of PMUs *)
(* is FindEvent of PfmLibrary; here one PMU has been chosen.               *)
(***************************************************************************)
EXTENDS Integers, Sequences, SequencesExt

CONSTANTS
    Events,      \* events of the PMUs
    Pattrs,      \* attributes of an event, those of the OS last, conflicts removed
    EquivEvent,  \* event named by einfo.equiv, NoEquiv if it is NULL
    EquivAttrs,  \* attributes in einfo.equiv
    RawUmask,    \* those whose PMU has PFMLIB_PMU_FL_RAW_UMASK
    Names,       \* names in strings that do not start with 0x
    RawNames,    \* names that start with 0x: raw unit masks
    BadRaw,      \* those of RawNames that are not numbers
    Tokens,      \* attributes the user may give
    MaxAttrs,    \* PFMLIB_MAX_ATTRS
    MaxTokens    \* bound: attributes in the string of the user

NoEquiv == "NULL"
NoVal == "absent"
Values == {NoVal, "", "y", "n", "0", "1", "2"}
Token == [name : Names \cup RawNames, val : Values]
Type == {"UMASK", "RAW_UMASK", "MOD_BOOL", "MOD_INTEGER"}

\* equiv is the expansion of an attribute, empty if it has none
Pattr == [name : Names, type : Type \ {"RAW_UMASK"}, equiv : Seq(Token)]

ASSUME ParseAssumption ==
    /\ Pattrs \in [Events -> Seq(Pattr)]
    /\ EquivEvent \in [Events -> STRING]
    /\ EquivAttrs \in [Events -> Seq(Token)]
    /\ RawUmask \subseteq Events
    /\ Names \cap RawNames = {}
    /\ BadRaw \subseteq RawNames
    /\ Tokens \subseteq Token
    /\ MaxAttrs \in Nat \ {0} /\ MaxTokens \in Nat

\* Only unit masks stand for other attributes (a PMU sets equiv from uequiv of
\* the unit mask and clears it for modifiers), and the tables name those.
ASSUME ExpansionAssumption ==
    \A e \in Events : \A k \in 1 .. Len(Pattrs[e]) :
        Pattrs[e][k].equiv # <<>> =>
            /\ Pattrs[e][k].type = "UMASK"
            /\ \A l \in 1 .. Len(Pattrs[e][k].equiv) : Pattrs[e][k].equiv[l].name \in Names

\* An expansion may name attributes that are expanded themselves, but none
\* leads back to itself: those it names have a smaller rank.
ASSUME NestingAssumption ==
    \A e \in Events :
        \E rank \in [1 .. Len(Pattrs[e]) -> 0 .. Len(Pattrs[e]) - 1] :
            \A k, l \in 1 .. Len(Pattrs[e]) :
                /\ Pattrs[e][l].equiv # <<>>
                /\ \E m \in 1 .. Len(Pattrs[e][k].equiv) : Pattrs[e][k].equiv[m].name = Pattrs[e][l].name
                => rank[l] < rank[k]

VARIABLES
    pc,      \* control point
    ret,     \* ret
    alias,   \* event named by the user
    event,   \* d->event
    origin,  \* the string being parsed: "equiv" of the event or "user"
    pattrs,  \* d->pattrs # NULL
    slot,    \* idx of the entry reserved for a raw unit mask
    attrs,   \* d->attrs, its first d->nattrs entries
    frames,  \* activations of pfmlib_parse_event_attr, innermost last
    given,   \* history: attributes read from the string of the user
    strs,    \* live copies made by strdup
    i, j     \* loop variables of pfmlib_sanitize_event

desc == <<event, pattrs, slot, attrs>>
vars == <<pc, ret, alias, desc, origin, frames, given, strs, i, j>>

Code == {"SUCCESS", "NOTSUPP", "INVAL", "NOTFOUND", "NOMEM", "ATTR", "ATTR_VAL", "ATTR_SET", "TOOMANY"}
Attr == [id : Nat \ {0}, ival : Nat]
Frame == [rest : Seq(Token), has_um : BOOLEAN, has_raw_um : BOOLEAN]
Activation(toks) == [rest |-> toks, has_um |-> FALSE, has_raw_um |-> FALSE]

\* strdup in pfmlib_parse_event, in pfmlib_parse_equiv_event, and of the
\* expansion parsed by the activation at depth n
Str == <<"str", 0>>
EquivStr == <<"str", 1>>
Expansion(n) == <<"z", n>>

NPattrs == Len(Pattrs[event])
RawId == NPattrs + 1                    \* the entry after the attributes
Allocated == NPattrs + (IF event \in RawUmask THEN 1 ELSE 0)
TypeOf(id) == IF id = RawId THEN "RAW_UMASK" ELSE Pattrs[event][id].type

Init ==
    /\ pc = "idle" /\ ret = "SUCCESS"
    /\ alias \in Events /\ event = alias
    /\ origin = "user" /\ pattrs = FALSE /\ slot = NoEquiv
    /\ attrs = <<>> /\ frames = <<>> /\ given = <<>>
    /\ strs = {} /\ i = 1 /\ j = 1

(***************************************************************************)
(* pfmlib_parse_event, up to the attributes                                *)
(***************************************************************************)

\* no event: several events in the string, no memory for its copy, or no PMU
\* has an event of that name
NoEvent ==
    /\ pc = "idle"
    /\ ret' \in {"INVAL", "NOMEM", "NOTFOUND"}
    /\ pc' = "done"
    /\ UNCHANGED <<alias, desc, origin, frames, given, strs, i, j>>

Found(e) ==
    /\ pc = "idle"
    /\ alias' = e
    /\ strs' = {Str}
    /\ IF EquivEvent[e] = NoEquiv
       THEN event' = e /\ origin' = "user" /\ pc' = "build"
       ELSE event' = event /\ origin' = "equiv" /\ pc' = "equiv"
    /\ UNCHANGED <<ret, pattrs, slot, attrs, frames, given, i, j>>

\* pfmlib_parse_equiv_event gives up: no memory for the copy, or no such event
EquivFails ==
    /\ pc = "equiv"
    /\ \/ ret' = "NOMEM"
       \/ ret' = "NOTFOUND" /\ EquivEvent[alias] \notin Events
    /\ origin' = "user" /\ pc' = "leave"
    /\ UNCHANGED <<alias, desc, frames, given, strs, i, j>>

EquivFound ==
    /\ pc = "equiv"
    /\ EquivEvent[alias] \in Events
    /\ event' = EquivEvent[alias]
    /\ strs' = strs \cup {EquivStr}
    /\ pc' = "build"
    /\ UNCHANGED <<ret, alias, pattrs, slot, attrs, origin, frames, given, i, j>>

\* the activation that parses the current string
Start(string) ==
    /\ frames' = <<Activation(IF string = "equiv" THEN EquivAttrs[alias] ELSE <<>>)>>
    /\ pc' = "attrs"

Build ==
    /\ pc = "build"
    /\ pattrs' = (Allocated > 0)
    /\ Start(origin)
    /\ UNCHANGED <<ret, alias, event, slot, attrs, origin, given, strs, i, j>>

\* the OS is not active, no memory, or a callback fails: nothing is left
BuildFails ==
    /\ pc = "build"
    /\ ret' \in {"NOTSUPP", "NOMEM", "INVAL"}
    /\ pc' = "leave"
    /\ UNCHANGED <<alias, desc, origin, frames, given, strs, i, j>>

(***************************************************************************)
(* pfmlib_parse_event_attr                                                 *)
(***************************************************************************)
Depth == Len(frames)
Top == frames[Depth]

\* the next attribute of the string that the innermost activation parses
Read(tok) ==
    /\ pc = "attrs"
    /\ IF origin = "user" /\ Depth = 1
       THEN tok \in Tokens /\ Len(given) < MaxTokens /\ given' = Append(given, tok)
       ELSE Top.rest # <<>> /\ tok = Head(Top.rest) /\ given' = given
    /\ UNCHANGED <<alias, event, pattrs, origin, i, j>>

Rest == IF Top.rest = <<>> THEN <<>> ELSE Tail(Top.rest)
Continue(um, raw) ==
    [frames EXCEPT ![Depth] = [rest |-> Rest, has_um |-> um, has_raw_um |-> raw]]

\* return with an error
Fail(code) ==
    /\ ret' = code /\ pc' = "return"
    /\ UNCHANGED <<attrs, frames, strs>>

\* d->attrs[d->nattrs++] = attr, and on to the next attribute
Store(id, ival, um, raw) ==
    /\ attrs' = Append(attrs, [id |-> id, ival |-> ival])
    /\ frames' = Continue(um, raw)
    /\ UNCHANGED <<pc, ret, strs>>

\* the same without a check of d->nattrs: the entry after the last one is
\* the pointer d->pattrs
StoreUnchecked(id, um, raw) ==
    IF Len(attrs) < MaxAttrs
    THEN Store(id, 0, um, raw)
    ELSE pc' = "undefined" /\ UNCHANGED <<ret, attrs, frames, strs>>

\* mutant: PFMLIB_PMU_FL_RAW_UMASK is not checked
MutRawAllowed == ~Top.has_raw_um /\ ~Top.has_um

\* a name that starts with 0x
RawAllowed == ~Top.has_raw_um /\ ~Top.has_um /\ event \in RawUmask

RawRefused(tok) ==
    /\ Read(tok)
    /\ tok.name \in RawNames /\ ~RawAllowed
    /\ Fail("ATTR")
    /\ slot' = slot

RawInvalid(tok) ==
    /\ Read(tok)
    /\ tok.name \in RawNames /\ RawAllowed
    /\ slot' = tok.name
    /\ \/ tok.name \in BadRaw /\ Fail("ATTR")
       \/ tok.name \notin BadRaw /\ tok.val # NoVal /\ Fail("ATTR_VAL")

RawTaken(tok) ==
    /\ Read(tok)
    /\ tok.name \in RawNames \ BadRaw /\ RawAllowed /\ tok.val = NoVal
    /\ slot' = tok.name
    /\ StoreUnchecked(RawId, Top.has_um, TRUE)

\* the entries with the name; a value tells a modifier from a unit mask of
\* the same name
Matching(e, tok) ==
    {k \in 1 .. Len(Pattrs[e]) :
        /\ Pattrs[e][k].name = tok.name
        /\ tok.val # NoVal => Pattrs[e][k].type # "UMASK"}

NameUnknown(tok) ==
    /\ Read(tok)
    /\ tok.name \in Names /\ Matching(event, tok) = {}
    /\ Fail("ATTR")
    /\ slot' = slot

\* the first of them is entry k
Lookup(tok, k) ==
    /\ Read(tok)
    /\ tok.name \in Names /\ k \in Matching(event, tok)
    /\ \A l \in Matching(event, tok) : k <= l
    /\ slot' = slot

IsUmask(k) == Pattrs[event][k].type = "UMASK"

\* mutant: has_um = 1 is forgotten
MutHasUm(k) == Top.has_um

HasUm(k) == Top.has_um \/ IsUmask(k)

Mixed(k) == IsUmask(k) /\ Top.has_raw_um
UmaskAfterRaw(tok) ==
    \E k \in 1 .. NPattrs : Lookup(tok, k) /\ Mixed(k) /\ Fail("ATTR")

\* the attribute stands for others
Expand(tok) ==
    \E k \in 1 .. NPattrs :
        /\ Lookup(tok, k) /\ ~Mixed(k)
        /\ Pattrs[event][k].equiv # <<>>
        /\ \/ tok.val # NoVal /\ Fail("ATTR_VAL")
           \/ tok.val = NoVal /\ Fail("NOMEM")
           \/ /\ tok.val = NoVal
              /\ frames' = Append(Continue(HasUm(k), Top.has_raw_um), Activation(Pattrs[event][k].equiv))
              /\ strs' = strs \cup {Expansion(Depth + 1)}
              /\ UNCHANGED <<pc, ret, attrs>>

Plain(tok, k) == Lookup(tok, k) /\ ~Mixed(k) /\ Pattrs[event][k].equiv = <<>>

Umask(tok) ==
    \E k \in 1 .. NPattrs :
        /\ Plain(tok, k) /\ IsUmask(k)
        /\ StoreUnchecked(k, HasUm(k), Top.has_raw_um)

Bad == -1
Convert(type, val) ==
    CASE val \in {"y", "1"} /\ type = "MOD_BOOL" -> 1
      [] val \in {"n", "0"} /\ type = "MOD_BOOL" -> 0
      [] val = "0" /\ type = "MOD_INTEGER" -> 0
      [] val = "1" /\ type = "MOD_INTEGER" -> 1
      [] val = "2" /\ type = "MOD_INTEGER" -> 2
      [] OTHER -> Bad

\* mutant: a value that is not of the type is stored
MutModifier(tok) ==
    \E k \in 1 .. NPattrs :
        LET type == Pattrs[event][k].type
            val == IF tok.val = NoVal /\ type = "MOD_BOOL" THEN "y" ELSE tok.val
        IN  /\ Plain(tok, k) /\ ~IsUmask(k)
            /\ IF val \in {NoVal, ""} THEN Fail("ATTR_VAL")
               ELSE IF Len(attrs) = MaxAttrs THEN Fail("TOOMANY")
               ELSE Store(k, Convert(type, val), Top.has_um, Top.has_raw_um)

\* a modifier; a boolean without a value is set
Modifier(tok) ==
    \E k \in 1 .. NPattrs :
        LET type == Pattrs[event][k].type
            val == IF tok.val = NoVal /\ type = "MOD_BOOL" THEN "y" ELSE tok.val
        IN  /\ Plain(tok, k) /\ ~IsUmask(k)
            /\ IF val \in {NoVal, ""} THEN Fail("ATTR_VAL")
               ELSE IF Len(attrs) = MaxAttrs THEN Fail("TOOMANY")
               ELSE IF Convert(type, val) = Bad THEN Fail("ATTR_VAL")
               ELSE Store(k, Convert(type, val), Top.has_um, Top.has_raw_um)

\* the end of the string
EndString ==
    /\ pc = "attrs"
    /\ Top.rest = <<>>
    /\ ret' = "SUCCESS" /\ pc' = "return"
    /\ UNCHANGED <<alias, desc, origin, frames, given, strs, i, j>>

\* mutant: after an error the expansion is not freed
MutReturn ==
    /\ pc = "return"
    /\ frames' = SubSeq(frames, 1, Depth - 1)
    /\ strs' = IF ret = "SUCCESS" THEN strs \ {Expansion(Depth)} ELSE strs
    /\ i' = 1 /\ j' = 2
    /\ pc' = IF ret = "SUCCESS"
             THEN IF Depth > 1 THEN "attrs" ELSE "sanitize"
             ELSE IF Depth > 1 THEN "return" ELSE "leave"
    /\ UNCHANGED <<ret, alias, desc, origin, given>>

\* return from an activation to the one that expanded an attribute, or to
\* pfmlib_parse_event or pfmlib_parse_equiv_event
Return ==
    /\ pc = "return"
    /\ frames' = SubSeq(frames, 1, Depth - 1)
    /\ strs' = strs \ {Expansion(Depth)}
    /\ i' = 1 /\ j' = 2
    /\ pc' = IF ret = "SUCCESS"
             THEN IF Depth > 1 THEN "attrs" ELSE "sanitize"
             ELSE IF Depth > 1 THEN "return" ELSE "leave"
    /\ UNCHANGED <<ret, alias, desc, origin, given>>

(***************************************************************************)
(* pfmlib_sanitize_event                                                   *)
(***************************************************************************)
Sanitizing == pc = "sanitize" /\ i <= Len(attrs) /\ j <= Len(attrs)
SameAttr == attrs[i].id = attrs[j].id

\* mutant: the inner loop leaves out the next attribute
MutNextRow ==
    /\ pc = "sanitize" /\ i <= Len(attrs) /\ j > Len(attrs)
    /\ i' = i + 1 /\ j' = i + 3
    /\ UNCHANGED <<pc, ret, alias, desc, origin, frames, given, strs>>

NextRow ==
    /\ pc = "sanitize" /\ i <= Len(attrs) /\ j > Len(attrs)
    /\ i' = i + 1 /\ j' = i + 2
    /\ UNCHANGED <<pc, ret, alias, desc, origin, frames, given, strs>>

Different ==
    /\ Sanitizing /\ ~SameAttr
    /\ j' = j + 1
    /\ UNCHANGED <<pc, ret, alias, desc, origin, frames, given, strs, i>>

\* pfmlib_compact_attrs; the loop goes on after the entry moved to j
Duplicate ==
    /\ Sanitizing /\ SameAttr /\ attrs[i].ival = attrs[j].ival
    /\ attrs' = SubSeq(attrs, 1, j - 1) \o SubSeq(attrs, j + 1, Len(attrs))
    /\ j' = j + 1
    /\ UNCHANGED <<pc, ret, alias, event, pattrs, slot, origin, frames, given, strs, i>>

Conflict ==
    /\ Sanitizing /\ SameAttr /\ attrs[i].ival # attrs[j].ival
    /\ ret' = "ATTR_SET" /\ pc' = "leave"
    /\ UNCHANGED <<alias, desc, origin, frames, given, strs, i, j>>

Sanitized ==
    /\ pc = "sanitize" /\ i > Len(attrs)
    /\ pc' = "leave"
    /\ UNCHANGED <<ret, alias, desc, origin, frames, given, strs, i, j>>

(***************************************************************************)
(* The end of pfmlib_parse_equiv_event and of pfmlib_parse_event           *)
(***************************************************************************)

\* mutant: the private index set after the call, for every event
MutLeaveEquiv ==
    /\ pc = "leave" /\ origin = "equiv"
    /\ strs' = strs \ {EquivStr}
    /\ origin' = "user"
    /\ event' = alias
    /\ IF ret = "SUCCESS"
       THEN Start("user") /\ pattrs' = pattrs
       ELSE pc' = "leave" /\ pattrs' = FALSE /\ frames' = frames
    /\ UNCHANGED <<ret, alias, slot, attrs, given, i, j>>

\* the attributes of the string of the user are parsed next, or an error is
\* passed on
LeaveEquiv ==
    /\ pc = "leave" /\ origin = "equiv"
    /\ strs' = strs \ {EquivStr}
    /\ origin' = "user"
    /\ IF ret = "SUCCESS"
       THEN Start("user") /\ pattrs' = pattrs
       ELSE pc' = "leave" /\ pattrs' = FALSE /\ frames' = frames
    /\ UNCHANGED <<ret, alias, event, slot, attrs, given, i, j>>

LeaveEvent ==
    /\ pc = "leave" /\ origin = "user"
    /\ strs' = strs \ {Str}
    /\ pattrs' = (pattrs /\ ret = "SUCCESS")
    /\ pc' = "done"
    /\ UNCHANGED <<ret, alias, event, slot, attrs, origin, frames, given, i, j>>

\* the caller releases the event of a successful call, and clears the
\* descriptor of the next one
Release ==
    /\ pc = "done"
    /\ pattrs' = (pattrs /\ ret # "SUCCESS")
    /\ attrs' = <<>> /\ slot' = NoEquiv
    /\ given' = <<>> /\ ret' = "SUCCESS"
    /\ pc' = "idle"
    /\ UNCHANGED <<alias, event, origin, frames, strs, i, j>>

EquivEvents == NoEvent \/ (\E e \in Events : Found(e)) \/ EquivFails \/ EquivFound \/ Build \/ BuildFails

ParseAttr(tok) ==
    \/ RawRefused(tok) \/ RawInvalid(tok) \/ RawTaken(tok)
    \/ NameUnknown(tok) \/ UmaskAfterRaw(tok)
    \/ Expand(tok) \/ Umask(tok) \/ Modifier(tok)

Sanitize == NextRow \/ Different \/ Duplicate \/ Conflict \/ Sanitized

Next ==
    \/ EquivEvents
    \/ \E tok \in Token : ParseAttr(tok)
    \/ EndString \/ Return
    \/ Sanitize
    \/ LeaveEquiv \/ LeaveEvent
    \/ Release

Spec == Init /\ [][Next]_vars

(***************************************************************************)
(* Properties                                                              *)
(***************************************************************************)
TypeOK ==
    /\ pc \in {"idle", "equiv", "build", "attrs", "return", "sanitize", "leave", "done", "undefined"}
    /\ ret \in Code
    /\ alias \in Events /\ event \in Events
    /\ origin \in {"equiv", "user"}
    /\ pattrs \in BOOLEAN
    /\ attrs \in Seq(Attr)
    /\ frames \in Seq(Frame)
    /\ given \in Seq(Token)
    /\ i \in Nat \ {0} /\ j \in Nat \ {0}

\* Whatever fails and however deep the expansions are, every copy made with
\* strdup is freed exactly when its activation ends, the possible attributes
\* are allocated once, and a caller owns them exactly after a success:
\* pfmlib_parse_event releases them on every error and its callers only
\* after a success.
Copies(depth) == {Expansion(n) : n \in 2 .. depth}
Strings ==
    (IF pc \in {"idle", "done"} THEN {} ELSE {Str})
    \cup (IF origin = "equiv" /\ pc # "equiv" THEN {EquivStr} ELSE {})
    \cup Copies(Depth)

Ownership ==
    pc # "undefined" =>
        /\ strs = Strings
        /\ pc \in {"idle", "equiv", "build"} => ~pattrs
        /\ pc \in {"attrs", "return", "sanitize"} => pattrs = (Allocated > 0)
        /\ pc = "done" => pattrs = (ret = "SUCCESS" /\ Allocated > 0)

\* Every attribute designates an entry that was allocated, the last one only
\* as a raw unit mask that the PMU supports, with a value that its type
\* allows: the encoders index pattrs with attrs[].id unchecked.
AttrsResolve ==
    pc # "undefined" =>
        \A k \in 1 .. Len(attrs) :
            /\ attrs[k].id <= Allocated
            /\ attrs[k].ival # 0 => TypeOf(attrs[k].id) \in {"MOD_BOOL", "MOD_INTEGER"}
            /\ TypeOf(attrs[k].id) = "MOD_BOOL" => attrs[k].ival \in {0, 1}

\* In one string a raw unit mask and a unit mask exclude each other, in both
\* orders and through expansions ("cannot mix raw umask with umask").
IsRaw(k) == TypeOf(attrs[k].id) = "RAW_UMASK"
Combined == \E k, l \in 1 .. Len(attrs) : IsRaw(k) /\ TypeOf(attrs[l].id) = "UMASK"
NotMixed == (pc = "done" /\ ret = "SUCCESS" /\ EquivEvent[alias] = NoEquiv) => ~Combined

\* As long as there are attributes, the event whose entries they designate
\* stays the same: the attributes of an equivalent event and those of the
\* user are parsed against the same table.
IdsStable == [][(attrs # <<>> /\ pc' # "idle") => event' = event]_vars

(***************************************************************************)
(* What a string means: every attribute stands for itself or, if it has an *)
(* expansion, for what that means.                                         *)
(***************************************************************************)
Designated(e, tok) == CHOOSE k \in Matching(e, tok) : \A l \in Matching(e, tok) : k <= l

Expansible(e, tok) ==
    tok.name \in Names /\ Matching(e, tok) # {} /\ Pattrs[e][Designated(e, tok)].equiv # <<>>

Itself(e, tok) ==
    IF tok.name \in RawNames THEN [id |-> Len(Pattrs[e]) + 1, ival |-> 0]
    ELSE LET k == Designated(e, tok)
             type == Pattrs[e][k].type
         IN  [id |-> k, ival |-> IF type = "UMASK" THEN 0
                                 ELSE IF tok.val = NoVal THEN 1 ELSE Convert(type, tok.val)]

\* one attribute after the other, each as one has it
Together(toks, one) == FlattenSeq([k \in 1 .. Len(toks) |-> one[toks[k]]])

Meaning(e) ==
    LET nested[n \in 0 .. Len(Pattrs[e])] ==
            [tok \in Token |->
                IF ~Expansible(e, tok) THEN <<Itself(e, tok)>>
                ELSE IF n = 0 THEN <<>>
                ELSE Together(Pattrs[e][Designated(e, tok)].equiv, nested[n - 1])]
    IN  nested[Len(Pattrs[e])]

Prefix == IF EquivEvent[alias] = NoEquiv THEN <<>> ELSE EquivAttrs[alias]
AllAttrs == Together(Prefix \o given, Meaning(event))

AtMostTwice(s) ==
    \A k, l, m \in 1 .. Len(s) : k < l /\ l < m => ~(s[k].id = s[l].id /\ s[l].id = s[m].id)

\* t has the attributes of s in order, each where it is given first
Firsts(s) == {k \in 1 .. Len(s) : \A l \in 1 .. k - 1 : s[l].id # s[k].id}
FirstOnly(t, s) ==
    \E f \in [1 .. Len(t) -> Firsts(s)] :
        /\ \A k, l \in 1 .. Len(t) : k < l => f[k] < f[l]
        /\ \A n \in Firsts(s) : \E k \in 1 .. Len(t) : f[k] = n
        /\ \A k \in 1 .. Len(t) : t[k] = s[f[k]]

\* A successful string has the attributes it stands for, those of the
\* equivalent event first, each once and with one value: pfmlib_parse_event_attr
\* expands in place and pfmlib_sanitize_event removes what is repeated.  An
\* attribute that is given more than twice is left out of account.
MeansWhatItSays ==
    (pc = "done" /\ ret = "SUCCESS" /\ AtMostTwice(AllAttrs)) =>
        /\ FirstOnly(attrs, AllAttrs)
        /\ \A k, l \in 1 .. Len(AllAttrs) : AllAttrs[k].id = AllAttrs[l].id => AllAttrs[k] = AllAttrs[l]
============================================================================

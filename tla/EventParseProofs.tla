-------------------------- MODULE EventParseProofs --------------------------
(***************************************************************************)
(* Proofs about EventParse, for every table of events, every set of        *)
(* attributes, every length of the strings and every depth of expansions.  *)
(***************************************************************************)
EXTENDS EventParse, FiniteSetTheorems, SequenceTheorems, WellFoundedInduction, TLAPS

(***************************************************************************)
(* The inductive invariant.  Shape says where activations exist, which     *)
(* string is parsed, and that there are no attributes before the event is  *)
(* known; Ownership and AttrsResolve need it.                              *)
(***************************************************************************)
Shape ==
    /\ pc \in {"attrs", "return"} => frames # <<>>
    /\ pc \notin {"attrs", "return", "undefined"} => frames = <<>>
    /\ pc \in {"idle", "done"} => origin = "user"
    /\ pc = "equiv" => origin = "equiv"
    /\ pc \in {"idle", "equiv", "build"} => attrs = <<>>
    /\ (pc = "leave" /\ ret = "SUCCESS") => pattrs = (Allocated > 0)

IInv == TypeOK /\ Shape /\ Ownership /\ AttrsResolve

\* what AttrsResolve says of one attribute
AttrOK(a) ==
    /\ a.id <= Allocated
    /\ a.ival # 0 => TypeOf(a.id) \in {"MOD_BOOL", "MOD_INTEGER"}
    /\ TypeOf(a.id) = "MOD_BOOL" => a.ival \in {0, 1}

(***************************************************************************)
(* What an attribute of the string can lead to: an error, the undefined    *)
(* state, one more attribute, or one more activation.                      *)
(***************************************************************************)
Keeps == UNCHANGED <<alias, event, pattrs, origin, i, j>>
Failed == ret' \in Code \ {"SUCCESS"} /\ pc' = "return" /\ UNCHANGED <<attrs, frames, strs>>
Overrun == pc' = "undefined" /\ UNCHANGED <<ret, attrs, frames, strs>>
Stored ==
    /\ \E id \in Nat \ {0}, ival \in Nat, um \in BOOLEAN, raw \in BOOLEAN :
          /\ AttrOK([id |-> id, ival |-> ival])
          /\ attrs' = Append(attrs, [id |-> id, ival |-> ival])
          /\ frames' = Continue(um, raw)
    /\ UNCHANGED <<pc, ret, strs>>
Expanded ==
    /\ \E toks \in Seq(Token), um \in BOOLEAN, raw \in BOOLEAN :
          frames' = Append(Continue(um, raw), Activation(toks))
    /\ strs' = strs \cup {Expansion(Depth + 1)}
    /\ UNCHANGED <<pc, ret, attrs>>

\* the entries of an event
LEMMA EntryType ==
    ASSUME TypeOK, NEW k \in 1 .. NPattrs
    PROVE  /\ Pattrs[event][k] \in Pattr
           /\ k \in Nat \ {0} /\ k <= Allocated /\ k # RawId
           /\ TypeOf(k) = Pattrs[event][k].type
<1>1. Pattrs[event] \in Seq(Pattr)
  BY ParseAssumption DEF ParseAssumption, TypeOK
<1>2. NPattrs \in Nat
  BY <1>1 DEF NPattrs
<1>3. Pattrs[event][k] \in Pattr
  BY <1>1, <1>2 DEF NPattrs
<1>4. k \in Nat \ {0} /\ k <= Allocated /\ k # RawId
  BY <1>2 DEF Allocated, RawId
<1> QED
  BY <1>3, <1>4 DEF TypeOf

\* the innermost activation
LEMMA TopType ==
    ASSUME TypeOK, frames # <<>>
    PROVE  Top \in Frame /\ Depth \in Nat \ {0}
  BY DEF TypeOK, Top, Depth

\* conversions give a value of the type or Bad
LEMMA ConvertType ==
    ASSUME NEW type, NEW val
    PROVE  /\ Convert(type, val) \in {Bad, 0, 1, 2}
           /\ type = "MOD_BOOL" => Convert(type, val) \in {Bad, 0, 1}
  BY DEF Convert, Bad

LEMMA Outcome ==
    ASSUME TypeOK, Shape, NEW tok \in Token, ParseAttr(tok)
    PROVE  /\ pc = "attrs" /\ Keeps
           /\ given' \in Seq(Token)
           /\ Failed \/ Overrun \/ Stored \/ Expanded
<1>1. Read(tok) /\ pc = "attrs"
  BY DEF ParseAttr, RawRefused, RawInvalid, RawTaken, NameUnknown, UmaskAfterRaw, Expand, Umask,
         Modifier, Plain, Lookup, Read
<1>2. Keeps
  BY <1>1 DEF Read, Keeps
<1>3. given' \in Seq(Token)
  <2>1. given' = given \/ given' = Append(given, tok)
    BY <1>1 DEF Read
  <2>2. given \in Seq(Token)
    BY DEF TypeOK
  <2> QED
    BY <2>1, <2>2
<1>4. frames # <<>> /\ Top \in Frame /\ Top.has_um \in BOOLEAN /\ Top.has_raw_um \in BOOLEAN
  <2>1. frames # <<>>
    BY <1>1 DEF Shape
  <2>2. Top \in Frame
    BY <2>1, TopType
  <2> QED
    BY <2>1, <2>2 DEF Frame
<1>5. \A code \in Code \ {"SUCCESS"} : Fail(code) => Failed
  BY DEF Fail, Failed
<1>6. \A code : code \in {"ATTR", "ATTR_VAL", "NOMEM", "TOOMANY"} => code \in Code \ {"SUCCESS"}
  BY DEF Code
<1>7. CASE RawRefused(tok) \/ RawInvalid(tok) \/ NameUnknown(tok) \/ UmaskAfterRaw(tok)
  BY <1>1, <1>2, <1>3, <1>5, <1>6, <1>7 DEF RawRefused, RawInvalid, NameUnknown, UmaskAfterRaw
<1>8. CASE RawTaken(tok)
  <2>1. RawId \in Nat \ {0} /\ RawId <= Allocated /\ TypeOf(RawId) = "RAW_UMASK"
    <3>1. Pattrs[event] \in Seq(Pattr)
      BY ParseAssumption DEF ParseAssumption, TypeOK
    <3>2. NPattrs \in Nat
      BY <3>1 DEF NPattrs
    <3>3. event \in RawUmask
      BY <1>8 DEF RawTaken, RawAllowed
    <3> QED
      BY <3>2, <3>3 DEF RawId, Allocated, TypeOf
  <2>2. AttrOK([id |-> RawId, ival |-> 0])
    BY <2>1 DEF AttrOK
  <2>3. StoreUnchecked(RawId, Top.has_um, TRUE)
    BY <1>8 DEF RawTaken
  <2>4. CASE Len(attrs) < MaxAttrs
    <3>1. Store(RawId, 0, Top.has_um, TRUE)
      BY <2>3, <2>4 DEF StoreUnchecked
    <3>2. Stored
      BY <3>1, <2>1, <2>2, <1>4 DEF Store, Stored
    <3> QED
      BY <3>2, <1>1, <1>2, <1>3
  <2>5. CASE ~(Len(attrs) < MaxAttrs)
    BY <2>3, <2>5, <1>1, <1>2, <1>3 DEF StoreUnchecked, Overrun
  <2> QED
    BY <2>4, <2>5
<1>9. CASE Expand(tok)
  <2>1. PICK k \in 1 .. NPattrs :
          /\ Pattrs[event][k].equiv # <<>>
          /\ \/ Fail("ATTR_VAL")
             \/ Fail("NOMEM")
             \/ /\ frames' = Append(Continue(HasUm(k), Top.has_raw_um), Activation(Pattrs[event][k].equiv))
                /\ strs' = strs \cup {Expansion(Depth + 1)}
                /\ UNCHANGED <<pc, ret, attrs>>
    BY <1>9 DEF Expand
  <2>2. Pattrs[event][k].equiv \in Seq(Token)
    BY EntryType DEF Pattr
  <2>3. HasUm(k) \in BOOLEAN
    BY <1>4 DEF HasUm, IsUmask
  <2>4. CASE Fail("ATTR_VAL") \/ Fail("NOMEM")
    BY <2>4, <1>1, <1>2, <1>3, <1>5, <1>6
  <2>5. CASE /\ frames' = Append(Continue(HasUm(k), Top.has_raw_um), Activation(Pattrs[event][k].equiv))
             /\ strs' = strs \cup {Expansion(Depth + 1)}
             /\ UNCHANGED <<pc, ret, attrs>>
    <3>1. Expanded
      BY <2>5, <2>2, <2>3, <1>4 DEF Expanded
    <3> QED
      BY <3>1, <1>1, <1>2, <1>3
  <2> QED
    BY <2>1, <2>4, <2>5
<1>10. CASE Umask(tok)
  <2>1. PICK k \in 1 .. NPattrs : IsUmask(k) /\ StoreUnchecked(k, HasUm(k), Top.has_raw_um)
    BY <1>10 DEF Umask
  <2>2. HasUm(k) \in BOOLEAN
    BY <1>4 DEF HasUm, IsUmask
  <2>3. k \in Nat \ {0} /\ AttrOK([id |-> k, ival |-> 0])
    BY <2>1, EntryType DEF AttrOK, IsUmask
  <2>4. CASE Len(attrs) < MaxAttrs
    <3>1. Store(k, 0, HasUm(k), Top.has_raw_um)
      BY <2>1, <2>4 DEF StoreUnchecked
    <3>2. Stored
      BY <3>1, <2>2, <2>3, <1>4 DEF Store, Stored
    <3> QED
      BY <3>2, <1>1, <1>2, <1>3
  <2>5. CASE ~(Len(attrs) < MaxAttrs)
    BY <2>1, <2>5, <1>1, <1>2, <1>3 DEF StoreUnchecked, Overrun
  <2> QED
    BY <2>4, <2>5
<1>11. CASE Modifier(tok)
  <2>1. PICK k \in 1 .. NPattrs :
          /\ ~IsUmask(k)
          /\ \/ Fail("ATTR_VAL")
             \/ Fail("TOOMANY")
             \/ \E val : /\ Convert(Pattrs[event][k].type, val) # Bad
                         /\ Store(k, Convert(Pattrs[event][k].type, val), Top.has_um, Top.has_raw_um)
    BY <1>11 DEF Modifier
  <2>2. CASE Fail("ATTR_VAL") \/ Fail("TOOMANY")
    BY <2>2, <1>1, <1>2, <1>3, <1>5, <1>6
  <2>3. CASE \E val : /\ Convert(Pattrs[event][k].type, val) # Bad
                      /\ Store(k, Convert(Pattrs[event][k].type, val), Top.has_um, Top.has_raw_um)
    <3>1. PICK val : /\ Convert(Pattrs[event][k].type, val) # Bad
                     /\ Store(k, Convert(Pattrs[event][k].type, val), Top.has_um, Top.has_raw_um)
      BY <2>3
    <3> DEFINE v == Convert(Pattrs[event][k].type, val)
    <3>2. v \in {0, 1, 2} /\ (Pattrs[event][k].type = "MOD_BOOL" => v \in {0, 1})
      BY <3>1, ConvertType
    <3>3. Store(k, v, Top.has_um, Top.has_raw_um)
      BY <3>1
    <3> HIDE DEF v
    <3>4. Pattrs[event][k].type \in {"MOD_BOOL", "MOD_INTEGER"}
      BY <2>1, EntryType DEF IsUmask, Pattr, Type
    <3>5. k \in Nat \ {0} /\ AttrOK([id |-> k, ival |-> v])
      BY <3>2, <3>4, EntryType DEF AttrOK
    <3>6. Stored
      BY <3>2, <3>3, <3>5, <1>4 DEF Store, Stored
    <3> QED
      BY <3>6, <1>1, <1>2, <1>3
  <2> QED
    BY <2>1, <2>2, <2>3
<1> QED
  BY <1>7, <1>8, <1>9, <1>10, <1>11 DEF ParseAttr

(***************************************************************************)
(* The activations: what Continue, a call and a return do to them.         *)
(***************************************************************************)
LEMMA ContinueType ==
    ASSUME TypeOK, frames # <<>>, NEW um \in BOOLEAN, NEW raw \in BOOLEAN
    PROVE  Continue(um, raw) \in Seq(Frame) /\ Len(Continue(um, raw)) = Depth
<1>1. Top \in Frame /\ Depth \in Nat \ {0}
  BY TopType
<1>2. Top.rest \in Seq(Token)
  BY <1>1 DEF Frame
<1>3. Rest \in Seq(Token)
  BY <1>2 DEF Rest
<1>4. [rest |-> Rest, has_um |-> um, has_raw_um |-> raw] \in Frame
  BY <1>3 DEF Frame
<1>5. frames \in Seq(Frame)
  BY DEF TypeOK
<1> QED
  BY <1>1, <1>4, <1>5 DEF Continue, Depth

LEMMA CallType ==
    ASSUME TypeOK, frames # <<>>, NEW um \in BOOLEAN, NEW raw \in BOOLEAN, NEW toks \in Seq(Token)
    PROVE  /\ Append(Continue(um, raw), Activation(toks)) \in Seq(Frame)
           /\ Len(Append(Continue(um, raw), Activation(toks))) = Depth + 1
<1>1. Continue(um, raw) \in Seq(Frame) /\ Len(Continue(um, raw)) = Depth
  BY ContinueType
<1>2. Activation(toks) \in Frame
  BY DEF Activation, Frame
<1> QED
  BY <1>1, <1>2

LEMMA ReturnType ==
    ASSUME TypeOK, frames # <<>>
    PROVE  /\ SubSeq(frames, 1, Depth - 1) \in Seq(Frame)
           /\ Len(SubSeq(frames, 1, Depth - 1)) = Depth - 1
<1>1. frames \in Seq(Frame) /\ Depth \in Nat \ {0} /\ Depth = Len(frames)
  BY TopType DEF TypeOK, Depth
<1>2. 1 \in 1 .. Len(frames) + 1 /\ Depth - 1 \in 1 - 1 .. Len(frames)
  BY <1>1
<1> QED
  BY <1>1, <1>2, SubSeqProperties

LEMMA StartType ==
    ASSUME TypeOK, NEW string, Start(string)
    PROVE  frames' \in Seq(Frame) /\ Len(frames') = 1 /\ frames' # <<>> /\ pc' = "attrs"
<1>1. EquivAttrs[alias] \in Seq(Token)
  BY ParseAssumption DEF ParseAssumption, TypeOK
<1>2. Activation(IF string = "equiv" THEN EquivAttrs[alias] ELSE <<>>) \in Frame
  BY <1>1 DEF Activation, Frame
<1> QED
  BY <1>2 DEF Start

\* pfmlib_compact_attrs leaves a list of some of the attributes
LEMMA CompactType ==
    ASSUME TypeOK, Sanitizing
    PROVE  LET c == SubSeq(attrs, 1, j - 1) \o SubSeq(attrs, j + 1, Len(attrs))
           IN  /\ c \in Seq(Attr)
               /\ \A k \in 1 .. Len(c) : \E l \in 1 .. Len(attrs) : c[k] = attrs[l]
<1> DEFINE a == SubSeq(attrs, 1, j - 1)
           b == SubSeq(attrs, j + 1, Len(attrs))
<1>1. attrs \in Seq(Attr) /\ Len(attrs) \in Nat /\ j \in 1 .. Len(attrs)
  BY DEF TypeOK, Sanitizing
<1>2. a \in Seq(Attr) /\ Len(a) = j - 1 /\ \A k \in 1 .. j - 1 : a[k] = attrs[k]
  <2>1. 1 \in Int /\ j - 1 \in Int /\ j - 1 >= 0 /\ \A k \in 1 .. j - 1 : attrs[k] \in Attr
    BY <1>1
  <2>2. a \in Seq(Attr) /\ Len(a) = j - 1 /\ \A k \in 1 .. j - 1 : a[k] = attrs[1 + k - 1]
    BY <2>1, SubSeqProperties
  <2> QED
    BY <1>1, <2>2
<1>3. b \in Seq(Attr) /\ Len(b) = Len(attrs) - j /\ \A k \in 1 .. Len(attrs) - j : b[k] = attrs[j + k]
  <2>1. j + 1 \in Int /\ Len(attrs) \in Int /\ \A k \in j + 1 .. Len(attrs) : attrs[k] \in Attr
    BY <1>1
  <2>2. /\ b \in Seq(Attr)
        /\ Len(b) = IF j + 1 <= Len(attrs) THEN Len(attrs) - (j + 1) + 1 ELSE 0
        /\ \A k \in 1 .. Len(attrs) - (j + 1) + 1 : b[k] = attrs[j + 1 + k - 1]
    BY <2>1, SubSeqProperties
  <2> QED
    BY <1>1, <2>2
<1> HIDE DEF a, b
<1>4. a \o b \in Seq(Attr) /\ Len(a \o b) = Len(attrs) - 1
  <2>1. a \o b \in Seq(Attr) /\ Len(a \o b) = Len(a) + Len(b)
    BY <1>2, <1>3, ConcatProperties
  <2> QED
    BY <2>1, <1>1, <1>2, <1>3
<1>5. ASSUME NEW k \in 1 .. Len(a \o b)
      PROVE  \E l \in 1 .. Len(attrs) : (a \o b)[k] = attrs[l]
  <2>1. CASE k <= j - 1
    <3>1. (a \o b)[k] = attrs[k] /\ k \in 1 .. Len(attrs)
      BY <2>1, <1>1, <1>2, <1>3, <1>4
    <3> QED
      BY <3>1
  <2>2. CASE k > j - 1
    <3>1. k - (j - 1) \in 1 .. Len(attrs) - j /\ k + 1 \in 1 .. Len(attrs)
      BY <2>2, <1>1, <1>4
    <3>2. (a \o b)[k] = b[k - (j - 1)]
      BY <2>2, <1>1, <1>2, <1>3, <1>4
    <3>3. b[k - (j - 1)] = attrs[k + 1]
      BY <3>1, <1>1, <1>3
    <3> QED
      BY <3>1, <3>2, <3>3
  <2> QED
    BY <2>1, <2>2, <1>1, <1>4
<1> QED
  BY <1>4, <1>5 DEF a, b

(***************************************************************************)
(* The copies that the activations hold.                                   *)
(***************************************************************************)
LEMMA CopiesOf ==
    /\ Copies(0) = {} /\ Copies(1) = {}
    /\ \A d \in Nat \ {0} :
          /\ Copies(d + 1) = Copies(d) \cup {Expansion(d + 1)}
          /\ Copies(d - 1) = Copies(d) \ {Expansion(d)}
    /\ \A d : Expansion(d) # Str /\ Expansion(d) # EquivStr
    /\ Str # EquivStr
    /\ \A d : Str \notin Copies(d) /\ EquivStr \notin Copies(d)
<1>1. Copies(0) = {} /\ Copies(1) = {}
  BY DEF Copies
<1>2. \A d : Expansion(d) # Str /\ Expansion(d) # EquivStr
  BY DEF Expansion, Str, EquivStr
<1>3. Str # EquivStr
  BY DEF Str, EquivStr
<1>4. \A d : Str \notin Copies(d) /\ EquivStr \notin Copies(d)
  BY <1>2 DEF Copies
<1>5. ASSUME NEW d \in Nat \ {0}
      PROVE  /\ Copies(d + 1) = Copies(d) \cup {Expansion(d + 1)}
             /\ Copies(d - 1) = Copies(d) \ {Expansion(d)}
  <2>1. \A n, k : Expansion(n) = Expansion(k) => n = k
    BY DEF Expansion
  <2>2. \A n : n \in 2 .. d + 1 <=> n \in 2 .. d \/ n = d + 1
    BY <1>5
  <2>3. \A n : n \in 2 .. d - 1 <=> n \in 2 .. d /\ n # d
    BY <1>5
  <2>4. Copies(d + 1) = Copies(d) \cup {Expansion(d + 1)}
    BY <2>2 DEF Copies
  <2>5. Copies(d - 1) = Copies(d) \ {Expansion(d)}
    BY <2>1, <2>3 DEF Copies
  <2> QED
    BY <2>4, <2>5
<1> QED
  BY <1>1, <1>2, <1>3, <1>4, <1>5

(***************************************************************************)
(* The inductive invariant holds initially and is preserved by each action *)
(***************************************************************************)
LEMMA InitInv == Init => IInv
<1> SUFFICES ASSUME Init PROVE IInv
  OBVIOUS
<1>1. Depth = 0 /\ Len(attrs) = 0
  BY DEF Init, Depth
<1>2. TypeOK
  <2>1. attrs \in Seq(Attr) /\ frames \in Seq(Frame) /\ given \in Seq(Token)
    BY DEF Init
  <2>2. pc = "idle" /\ ret \in Code /\ alias \in Events /\ event \in Events
    BY DEF Init, Code
  <2>3. origin = "user" /\ pattrs \in BOOLEAN /\ i = 1 /\ j = 1
    BY DEF Init
  <2> QED
    BY <2>1, <2>2, <2>3 DEF TypeOK
<1>3. Shape
  BY DEF Init, Shape
<1>4. Ownership
  BY <1>1, CopiesOf DEF Init, Ownership, Strings
<1>5. AttrsResolve
  BY <1>1 DEF Init, AttrsResolve
<1> QED
  BY <1>2, <1>3, <1>4, <1>5 DEF IInv

\* A step that leaves the event and the attributes alone, or that has no
\* attributes, keeps AttrsResolve.
LEMMA AttrsKept ==
    ASSUME IInv, pc # "undefined", \/ attrs' = attrs /\ event' = event
                                  \/ attrs' = <<>>
    PROVE  AttrsResolve'
<1>1. CASE attrs' = attrs /\ event' = event
  BY <1>1 DEF IInv, AttrsResolve, Allocated, NPattrs, TypeOf, RawId
<1>2. CASE attrs' = <<>>
  BY <1>2 DEF AttrsResolve
<1> QED
  BY <1>1, <1>2

\* A step between two points without activations.
LEMMA NoFrames ==
    ASSUME IInv, frames = <<>>, frames' = <<>>
    PROVE  Copies(Depth) = {} /\ Copies(Depth)' = {}
<1>1. Depth = 0 /\ Depth' = 0
  BY DEF Depth
<1> QED
  BY <1>1, CopiesOf DEF Copies

LEMMA FindStep ==
    ASSUME IInv, NoEvent \/ (\E e \in Events : Found(e)) \/ EquivFails \/ EquivFound \/ BuildFails
    PROVE  IInv'
<1>1. pc \in {"idle", "equiv", "build"} /\ frames = <<>> /\ frames' = <<>> /\ attrs = <<>> /\ attrs' = <<>> /\ ~pattrs /\ pattrs' = pattrs
  BY DEF IInv, Shape, Ownership, NoEvent, Found, EquivFails, EquivFound, BuildFails, desc
<1>2. TypeOK'
  BY <1>1 DEF IInv, TypeOK, NoEvent, Found, EquivFails, EquivFound, BuildFails, desc, Code
<1>3. Shape'
  BY <1>1 DEF IInv, Shape, NoEvent, Found, EquivFails, EquivFound, BuildFails, desc
<1>4. Ownership'
  <2>1. Copies(Depth) = {} /\ Copies(Depth)' = {}
    BY <1>1, NoFrames
  <2>2. strs = (IF pc = "idle" THEN {} ELSE {Str}) \cup (IF origin = "equiv" /\ pc # "equiv" THEN {EquivStr} ELSE {})
    BY <1>1, <2>1 DEF IInv, Ownership, Strings
  <2>3. strs' = Strings'
    BY <1>1, <2>1, <2>2 DEF IInv, Shape, Strings, NoEvent, Found, EquivFails, EquivFound, BuildFails
  <2>4. pc' \in {"idle", "equiv", "build", "leave", "done"} /\ (pc' = "done" => ret' # "SUCCESS")
    BY DEF NoEvent, Found, EquivFails, EquivFound, BuildFails
  <2>5. pattrs' = FALSE
    BY <1>1 DEF IInv, TypeOK
  <2> QED
    BY <2>3, <2>4, <2>5 DEF Ownership
<1>5. AttrsResolve'
  BY <1>1, AttrsKept
<1> QED
  BY <1>2, <1>3, <1>4, <1>5 DEF IInv

LEMMA BuildStep ==
    ASSUME IInv, Build
    PROVE  IInv'
<1>1. pc = "build" /\ frames = <<>> /\ attrs' = attrs /\ event' = event /\ strs' = strs /\ origin' = origin
  BY DEF IInv, Shape, Build
<1>2. frames' \in Seq(Frame) /\ Len(frames') = 1 /\ frames' # <<>> /\ pc' = "attrs"
  BY StartType DEF IInv, Build
<1>3. TypeOK'
  BY <1>1, <1>2 DEF IInv, TypeOK, Build
<1>4. Shape'
  BY <1>1, <1>2 DEF Shape
<1>5. Ownership'
  <2>1. Depth = 0 /\ Depth' = 1
    BY <1>1, <1>2 DEF Depth
  <2>2. Copies(Depth) = {} /\ Copies(Depth)' = {}
    BY <2>1, CopiesOf DEF Copies
  <2>3. strs' = Strings'
    BY <1>1, <1>2, <2>2 DEF IInv, Ownership, Strings
  <2>4. pattrs' = (Allocated > 0)'
    BY <1>1 DEF Build, Allocated, NPattrs
  <2> QED
    BY <1>2, <2>3, <2>4 DEF Ownership
<1>6. AttrsResolve'
  BY <1>1, AttrsKept
<1> QED
  BY <1>3, <1>4, <1>5, <1>6 DEF IInv

LEMMA ParseStep ==
    ASSUME IInv, NEW tok \in Token, ParseAttr(tok)
    PROVE  IInv'
<1>1. /\ pc = "attrs" /\ Keeps
      /\ given' \in Seq(Token)
      /\ Failed \/ Overrun \/ Stored \/ Expanded
  BY Outcome DEF IInv
<1>2. frames # <<>> /\ Depth \in Nat \ {0} /\ frames \in Seq(Frame) /\ attrs \in Seq(Attr)
  BY <1>1, TopType DEF IInv, Shape, TypeOK
<1>3. TypeOK /\ AttrsResolve /\ strs = {Str} \cup (IF origin = "equiv" THEN {EquivStr} ELSE {}) \cup Copies(Depth) /\ pattrs = (Allocated > 0)
  BY <1>1 DEF IInv, Ownership, Strings
<1>4. Allocated' = Allocated
  BY <1>1 DEF Keeps, Allocated, NPattrs
<1>5. CASE Failed
  <2>1. TypeOK'
    BY <1>1, <1>3, <1>5 DEF TypeOK, Keeps, Failed
  <2>2. Shape'
    BY <1>1, <1>2, <1>5 DEF Shape, Keeps, Failed
  <2>3. Ownership'
    BY <1>1, <1>3, <1>4, <1>5 DEF Ownership, Strings, Keeps, Failed, Depth, Copies
  <2>4. AttrsResolve'
    BY <1>1, <1>5, AttrsKept DEF Keeps, Failed
  <2> QED
    BY <2>1, <2>2, <2>3, <2>4 DEF IInv
<1>6. CASE Overrun
  <2>1. TypeOK'
    BY <1>1, <1>3, <1>6 DEF TypeOK, Keeps, Overrun
  <2> QED
    BY <2>1, <1>6 DEF IInv, Shape, Ownership, AttrsResolve, Overrun
<1>7. CASE Stored
  <2>1. PICK id \in Nat \ {0}, ival \in Nat, um \in BOOLEAN, raw \in BOOLEAN :
          /\ AttrOK([id |-> id, ival |-> ival])
          /\ attrs' = Append(attrs, [id |-> id, ival |-> ival])
          /\ frames' = Continue(um, raw)
    BY <1>7 DEF Stored
  <2>2. pc' = pc /\ ret' = ret /\ strs' = strs
    BY <1>7 DEF Stored
  <2>3. frames' \in Seq(Frame) /\ Len(frames') = Depth /\ frames' # <<>>
    BY <2>1, <1>2, <1>3, ContinueType
  <2>4. [id |-> id, ival |-> ival] \in Attr
    BY DEF Attr
  <2>5. attrs' \in Seq(Attr) /\ Len(attrs') = Len(attrs) + 1
    BY <2>1, <2>4, <1>2
  <2>6. TypeOK'
    BY <1>1, <1>3, <2>2, <2>3, <2>5 DEF TypeOK, Keeps
  <2>7. Shape'
    BY <1>1, <2>2, <2>3 DEF Shape
  <2>8. Ownership'
    <3>1. Depth' = Depth
      BY <2>3 DEF Depth
    <3> QED
      BY <1>1, <1>3, <1>4, <2>2, <3>1 DEF Ownership, Strings, Keeps, Copies
  <2>9. AttrsResolve'
    <3>1. \A k \in 1 .. Len(attrs) : AttrOK(attrs[k])
      BY <1>1, <1>3 DEF AttrsResolve, AttrOK
    <3>2. \A k \in 1 .. Len(attrs') : attrs'[k] = IF k <= Len(attrs) THEN attrs[k] ELSE [id |-> id, ival |-> ival]
      BY <2>1, <2>4, <2>5, <1>2
    <3>3. \A k \in 1 .. Len(attrs') : AttrOK(attrs'[k])
      BY <3>1, <3>2, <2>1, <2>5, <1>2
    <3>4. event' = event
      BY <1>1 DEF Keeps
    <3>5. \A k \in 1 .. Len(attrs') :
             /\ attrs'[k].id <= Allocated
             /\ attrs'[k].ival # 0 => TypeOf(attrs'[k].id) \in {"MOD_BOOL", "MOD_INTEGER"}
             /\ TypeOf(attrs'[k].id) = "MOD_BOOL" => attrs'[k].ival \in {0, 1}
      BY <3>3 DEF AttrOK
    <3> QED
      BY <3>4, <3>5 DEF AttrsResolve, TypeOf, RawId, NPattrs, Allocated
  <2> QED
    BY <2>6, <2>7, <2>8, <2>9 DEF IInv
<1>8. CASE Expanded
  <2>1. PICK toks \in Seq(Token), um \in BOOLEAN, raw \in BOOLEAN :
          frames' = Append(Continue(um, raw), Activation(toks))
    BY <1>8 DEF Expanded
  <2>2. pc' = pc /\ ret' = ret /\ attrs' = attrs /\ strs' = strs \cup {Expansion(Depth + 1)}
    BY <1>8 DEF Expanded
  <2>3. frames' \in Seq(Frame) /\ Len(frames') = Depth + 1 /\ frames' # <<>>
    BY <2>1, <1>2, <1>3, CallType
  <2>4. TypeOK'
    BY <1>1, <1>3, <2>2, <2>3 DEF TypeOK, Keeps
  <2>5. Shape'
    BY <1>1, <2>2, <2>3 DEF Shape
  <2>6. Ownership'
    <3>1. Depth' = Depth + 1
      BY <2>3 DEF Depth
    <3>2. Copies(Depth)' = Copies(Depth) \cup {Expansion(Depth + 1)}
      BY <3>1, <1>2, CopiesOf DEF Copies
    <3> QED
      BY <1>1, <1>3, <1>4, <2>2, <3>2 DEF Ownership, Strings, Keeps
  <2>7. AttrsResolve'
    BY <1>1, <2>2, AttrsKept DEF Keeps
  <2> QED
    BY <2>4, <2>5, <2>6, <2>7 DEF IInv
<1> QED
  BY <1>1, <1>5, <1>6, <1>7, <1>8

\* the end of a string, and the return from an activation
LEMMA ReturnStep ==
    ASSUME IInv, EndString \/ Return
    PROVE  IInv'
<1>1. /\ pc \in {"attrs", "return"} /\ frames # <<>> /\ Depth \in Nat \ {0} /\ frames \in Seq(Frame)
      /\ strs = {Str} \cup (IF origin = "equiv" THEN {EquivStr} ELSE {}) \cup Copies(Depth)
      /\ pattrs = (Allocated > 0)
  BY TopType DEF IInv, TypeOK, Shape, Ownership, Strings, EndString, Return
<1>2. attrs' = attrs /\ event' = event /\ pattrs' = pattrs /\ origin' = origin
  BY DEF EndString, Return, desc
<1>3. AttrsResolve'
  BY <1>1, <1>2, AttrsKept
<1>4. Allocated' = Allocated
  BY <1>2 DEF Allocated, NPattrs
<1>5. CASE EndString
  <2>1. TypeOK'
    BY <1>1, <1>5 DEF IInv, TypeOK, EndString, desc, Code
  <2>2. Shape'
    BY <1>1, <1>5 DEF Shape, EndString, desc
  <2>3. Ownership'
    BY <1>1, <1>2, <1>4, <1>5 DEF Ownership, Strings, EndString, Depth, Copies
  <2> QED
    BY <1>3, <2>1, <2>2, <2>3 DEF IInv
<1>6. CASE Return
  <2>1. frames' \in Seq(Frame) /\ Len(frames') = Depth - 1
    BY <1>1, <1>6, ReturnType DEF IInv, Return
  <2>2. frames' = <<>> <=> Depth = 1
    BY <1>1, <2>1
  <2>3. TypeOK'
    BY <2>1, <1>6 DEF IInv, TypeOK, Return, desc
  <2>4. pc' = (IF ret = "SUCCESS"
               THEN IF Depth > 1 THEN "attrs" ELSE "sanitize"
               ELSE IF Depth > 1 THEN "return" ELSE "leave") /\ ret' = ret
    BY <1>6 DEF Return
  <2>5. Shape'
    BY <1>1, <1>2, <1>4, <2>2, <2>4 DEF Shape
  <2>6. Ownership'
    <3>1. Depth' = Depth - 1
      BY <2>1 DEF Depth
    <3>2. Copies(Depth)' = Copies(Depth) \ {Expansion(Depth)}
      BY <3>1, <1>1, CopiesOf DEF Copies
    <3>3. strs' = {Str} \cup (IF origin = "equiv" THEN {EquivStr} ELSE {}) \cup Copies(Depth)'
      BY <1>1, <1>6, <3>2, CopiesOf DEF Return
    <3> QED
      BY <1>1, <1>2, <1>4, <2>4, <3>3 DEF Ownership, Strings
  <2> QED
    BY <1>3, <2>3, <2>5, <2>6 DEF IInv
<1> QED
  BY <1>5, <1>6

LEMMA SanitizeStep ==
    ASSUME IInv, Sanitize
    PROVE  IInv'
<1>1. /\ pc = "sanitize" /\ frames = <<>> /\ frames' = <<>> /\ strs' = strs /\ origin' = origin
      /\ pattrs' = pattrs /\ event' = event /\ alias' = alias /\ given' = given
  BY DEF IInv, Shape, Sanitize, NextRow, Different, Duplicate, Conflict, Sanitized, Sanitizing, desc
<1>2. pc' \in {"sanitize", "leave"} /\ ret' \in {ret, "ATTR_SET"}
  BY <1>1 DEF Sanitize, NextRow, Different, Duplicate, Conflict, Sanitized
<1>3. Allocated' = Allocated
  BY <1>1 DEF Allocated, NPattrs
<1>4. attrs' = attrs \/ Duplicate
  BY DEF Sanitize, NextRow, Different, Conflict, Sanitized, desc
<1>5. Duplicate => /\ Sanitizing
                   /\ attrs' = SubSeq(attrs, 1, j - 1) \o SubSeq(attrs, j + 1, Len(attrs))
  BY DEF Duplicate
<1>6. attrs' \in Seq(Attr) /\ \A k \in 1 .. Len(attrs') : \E l \in 1 .. Len(attrs) : attrs'[k] = attrs[l]
  <2>1. CASE attrs' = attrs
    BY <2>1 DEF IInv, TypeOK
  <2>2. CASE Duplicate
    BY <2>2, <1>5, CompactType DEF IInv
  <2> QED
    BY <1>4, <2>1, <2>2
<1>7. TypeOK'
  <2>1. i' \in Nat \ {0} /\ j' \in Nat \ {0}
    <3>1. i \in Nat \ {0} /\ j \in Nat \ {0}
      BY DEF IInv, TypeOK
    <3>2. i' \in {i, i + 1} /\ j' \in {j, j + 1, i + 2}
      BY DEF Sanitize, NextRow, Different, Duplicate, Conflict, Sanitized
    <3> QED
      BY <3>1, <3>2
  <2>2. frames' \in Seq(Frame) /\ ret' \in Code
    BY <1>1, <1>2 DEF IInv, TypeOK, Code
  <2> QED
    BY <1>1, <1>2, <1>6, <2>1, <2>2 DEF IInv, TypeOK
<1>8. pattrs = (Allocated > 0) /\ strs = Strings
  BY <1>1 DEF IInv, Ownership
<1>9. Shape'
  BY <1>1, <1>2, <1>3, <1>8 DEF Shape
<1>10. Ownership'
  <2>1. Copies(Depth) = {} /\ Copies(Depth)' = {}
    BY <1>1, NoFrames
  <2> QED
    BY <1>1, <1>2, <1>3, <1>8, <2>1 DEF Ownership, Strings
<1>11. AttrsResolve'
  BY <1>1, <1>6 DEF IInv, AttrsResolve, TypeOf, RawId, NPattrs, Allocated
<1> QED
  BY <1>7, <1>9, <1>10, <1>11 DEF IInv

LEMMA LeaveStep ==
    ASSUME IInv, LeaveEquiv \/ LeaveEvent
    PROVE  IInv'
<1>1. /\ pc = "leave" /\ frames = <<>> /\ attrs' = attrs /\ event' = event
      /\ strs = {Str} \cup (IF origin = "equiv" THEN {EquivStr} ELSE {}) \cup Copies(Depth)
      /\ ret' = ret /\ pattrs \in BOOLEAN
      /\ ret = "SUCCESS" => pattrs = (Allocated > 0)
  BY DEF IInv, TypeOK, Shape, Ownership, Strings, LeaveEquiv, LeaveEvent
<1>2. Copies(Depth) = {} /\ Allocated' = Allocated
  <2>1. Depth = 0
    BY <1>1 DEF Depth
  <2> QED
    BY <1>1, <2>1, CopiesOf DEF Allocated, NPattrs
<1>3. AttrsResolve'
  BY <1>1, AttrsKept
<1>4. CASE LeaveEquiv /\ ret = "SUCCESS"
  <2>1. frames' \in Seq(Frame) /\ Len(frames') = 1 /\ frames' # <<>> /\ pc' = "attrs"
    BY <1>4, StartType DEF IInv, LeaveEquiv
  <2>2. origin = "equiv" /\ origin' = "user" /\ strs' = strs \ {EquivStr} /\ pattrs' = pattrs
    BY <1>4 DEF LeaveEquiv
  <2>3. TypeOK'
    BY <2>1, <2>2, <1>1, <1>4 DEF IInv, TypeOK, LeaveEquiv
  <2>4. Shape'
    BY <2>1, <2>2 DEF Shape
  <2>5. Ownership'
    <3>1. Copies(Depth)' = {}
      <4>1. Depth' = 1
        BY <2>1 DEF Depth
      <4> QED
        BY <4>1, CopiesOf DEF Copies
    <3>2. strs' = {Str}
      BY <1>1, <1>2, <2>2, CopiesOf
    <3> QED
      BY <1>1, <1>2, <1>4, <2>1, <2>2, <3>1, <3>2 DEF Ownership, Strings
  <2> QED
    BY <1>3, <2>3, <2>4, <2>5 DEF IInv
<1>5. CASE (LeaveEquiv /\ ret # "SUCCESS") \/ LeaveEvent
  <2>1. frames' = <<>> /\ origin' = "user" /\ alias' = alias /\ given' = given /\ i' = i /\ j' = j
    BY <1>1, <1>5 DEF IInv, LeaveEquiv, LeaveEvent
  <2>2. \/ pc' = "leave" /\ ret' # "SUCCESS" /\ strs' = strs \ {EquivStr} /\ origin = "equiv" /\ pattrs' = FALSE
        \/ pc' = "done" /\ strs' = strs \ {Str} /\ origin = "user" /\ pattrs' = (pattrs /\ ret = "SUCCESS")
    BY <1>1, <1>5 DEF LeaveEquiv, LeaveEvent
  <2>3. TypeOK'
    BY <2>1, <2>2, <1>1 DEF IInv, TypeOK
  <2>4. Shape'
    BY <2>1, <2>2 DEF Shape
  <2>5. Ownership'
    <3>1. Copies(Depth)' = {}
      BY <1>1, <2>1, NoFrames
    <3>2. strs' = Strings'
      BY <1>1, <1>2, <2>1, <2>2, <3>1, CopiesOf DEF Strings
    <3>3. pc' = "done" => pattrs' = (ret' = "SUCCESS" /\ (Allocated > 0)')
      BY <1>1, <1>2, <2>2
    <3> QED
      BY <2>2, <3>2, <3>3 DEF Ownership
  <2> QED
    BY <1>3, <2>3, <2>4, <2>5 DEF IInv
<1> QED
  BY <1>4, <1>5

LEMMA ReleaseStep ==
    ASSUME IInv, Release
    PROVE  IInv'
<1>1. /\ pc = "done" /\ frames = <<>> /\ frames' = <<>> /\ pc' = "idle" /\ attrs' = <<>> /\ given' = <<>>
      /\ ret' = "SUCCESS" /\ strs' = strs /\ strs = Copies(Depth) /\ origin = "user" /\ origin' = origin
      /\ pattrs = (ret = "SUCCESS" /\ Allocated > 0) /\ pattrs' = (pattrs /\ ret # "SUCCESS")
  BY DEF IInv, Shape, Ownership, Strings, Release
<1>2. TypeOK'
  <2>1. attrs' \in Seq(Attr) /\ given' \in Seq(Token) /\ frames' \in Seq(Frame) /\ ret' \in Code
    BY <1>1 DEF Code
  <2>2. pattrs' \in BOOLEAN
    BY <1>1
  <2> QED
    BY <1>1, <2>1, <2>2 DEF IInv, TypeOK, Release
<1>3. Shape'
  BY <1>1 DEF Shape
<1>4. Ownership'
  <2>1. Copies(Depth) = {} /\ Copies(Depth)' = {}
    BY <1>1, NoFrames
  <2> QED
    BY <1>1, <2>1 DEF Ownership, Strings
<1>5. AttrsResolve'
  BY <1>1, AttrsKept
<1> QED
  BY <1>2, <1>3, <1>4, <1>5 DEF IInv

LEMMA NextInv ==
    ASSUME IInv, [Next]_vars
    PROVE  IInv'
<1>1. CASE EquivEvents
  BY <1>1, FindStep, BuildStep DEF EquivEvents
<1>2. CASE \E tok \in Token : ParseAttr(tok)
  BY <1>2, ParseStep
<1>3. CASE EndString \/ Return
  BY <1>3, ReturnStep
<1>4. CASE Sanitize
  BY <1>4, SanitizeStep
<1>5. CASE LeaveEquiv \/ LeaveEvent
  BY <1>5, LeaveStep
<1>6. CASE Release
  BY <1>6, ReleaseStep
<1>7. CASE UNCHANGED vars
  BY <1>7 DEF vars, desc, IInv, TypeOK, Shape, Ownership, Strings, Copies, Depth, AttrsResolve, TypeOf, RawId,
              NPattrs, Allocated
<1> QED
  BY <1>1, <1>2, <1>3, <1>4, <1>5, <1>6, <1>7 DEF Next

LEMMA Invariance == Spec => []IInv
<1>1. IInv /\ [Next]_vars => IInv'
  BY NextInv
<1> QED
  BY InitInv, <1>1, PTL DEF Spec

(***************************************************************************)
(* Raw unit masks and unit masks in the string of the user.  Flags relates *)
(* the attributes stored so far to the flags of the outermost activation;  *)
(* the inner ones are expansions of unit masks and have no raw unit masks. *)
(***************************************************************************)
TypeIn(e, id) == IF id = Len(Pattrs[e]) + 1 THEN "RAW_UMASK" ELSE Pattrs[e][id].type

Apart(e, as) ==
    ~ \E k, l \in 1 .. Len(as) : TypeIn(e, as[k].id) = "RAW_UMASK" /\ TypeIn(e, as[l].id) = "UMASK"

Flags(e, as, f) ==
    /\ ~(f.has_um /\ f.has_raw_um)
    /\ \A k \in 1 .. Len(as) :
          /\ TypeIn(e, as[k].id) = "RAW_UMASK" => f.has_raw_um
          /\ TypeIn(e, as[k].id) = "UMASK" => f.has_um

NoRaw(toks) == \A l \in 1 .. Len(toks) : toks[l].name \in Names

Inner(fs) ==
    /\ Len(fs) > 1 => fs[1].has_um
    /\ \A n \in 2 .. Len(fs) : NoRaw(fs[n].rest)

Exclusive ==
    (EquivEvent[alias] = NoEquiv /\ pc # "undefined") =>
        /\ origin = "user"
        /\ Apart(event, attrs)
        /\ frames # <<>> => Flags(event, attrs, frames[1]) /\ Inner(frames)

LEMMA FlagsApart ==
    ASSUME NEW e, NEW as, NEW f, Flags(e, as, f)
    PROVE  Apart(e, as)
  BY DEF Flags, Apart

LEMMA AppendElements ==
    ASSUME NEW S, NEW s \in Seq(S), NEW a \in S
    PROVE  /\ Len(Append(s, a)) = Len(s) + 1 /\ Len(s) \in Nat
           /\ \A k \in 1 .. Len(s) + 1 : (k \in 1 .. Len(s) /\ Append(s, a)[k] = s[k]) \/ Append(s, a)[k] = a
  OBVIOUS

LEMMA FlagsAppend ==
    ASSUME NEW e, NEW as \in Seq(Attr), NEW a \in Attr, NEW f, NEW g,
           Flags(e, as, f), f.has_um => g.has_um, f.has_raw_um => g.has_raw_um, ~(g.has_um /\ g.has_raw_um),
           TypeIn(e, a.id) = "RAW_UMASK" => g.has_raw_um,
           TypeIn(e, a.id) = "UMASK" => g.has_um
    PROVE  Flags(e, Append(as, a), g)
<1>1. Len(Append(as, a)) = Len(as) + 1 /\ Len(as) \in Nat
  BY AppendElements, Zenon
<1>2. \A k \in 1 .. Len(as) + 1 : (k \in 1 .. Len(as) /\ Append(as, a)[k] = as[k]) \/ Append(as, a)[k] = a
  BY AppendElements, Zenon
<1>3. \A k \in 1 .. Len(as) + 1 :
         /\ TypeIn(e, Append(as, a)[k].id) = "RAW_UMASK" => g.has_raw_um
         /\ TypeIn(e, Append(as, a)[k].id) = "UMASK" => g.has_um
  BY <1>2 DEF Flags
<1> QED
  BY <1>1, <1>3 DEF Flags

\* the outermost activation, when the innermost goes on
LEMMA OuterContinue ==
    ASSUME TypeOK, frames # <<>>, NEW um \in BOOLEAN, NEW raw \in BOOLEAN
    PROVE  /\ Depth = 1 => Continue(um, raw)[1].has_um = um /\ Continue(um, raw)[1].has_raw_um = raw
           /\ Depth > 1 => Continue(um, raw)[1] = frames[1]
           /\ Depth = Len(frames) /\ Depth \in Nat \ {0} /\ Len(Continue(um, raw)) = Depth
           /\ Depth = 1 => Top = frames[1]
  BY TopType, ContinueType DEF Continue, TypeOK, Depth, Top

LEMMA NoRawTail ==
    ASSUME NEW toks \in Seq(Token), toks # <<>>, NoRaw(toks)
    PROVE  NoRaw(Tail(toks)) /\ Head(toks).name \in Names
<1>1. Len(Tail(toks)) = Len(toks) - 1 /\ Len(toks) \in Nat \ {0}
  OBVIOUS
<1>2. \A l \in 1 .. Len(toks) - 1 : Tail(toks)[l] = toks[l + 1]
  OBVIOUS
<1>3. \A l \in 1 .. Len(toks) - 1 : l + 1 \in 1 .. Len(toks)
  BY <1>1
<1>4. Head(toks) = toks[1] /\ 1 \in 1 .. Len(toks)
  BY <1>1
<1> QED
  BY <1>1, <1>2, <1>3, <1>4 DEF NoRaw

LEMMA InnerContinue ==
    ASSUME TypeOK, frames # <<>>, NEW um \in BOOLEAN, NEW raw \in BOOLEAN, Inner(frames)
    PROVE  Inner(Continue(um, raw))
<1>1. /\ frames \in Seq(Frame) /\ Depth \in Nat \ {0} /\ Depth = Len(frames) /\ Top = frames[Depth] /\ Top.rest \in Seq(Token)
  BY TopType DEF TypeOK, Depth, Top, Frame
<1>2. Len(Continue(um, raw)) = Depth /\ (Depth > 1 => Continue(um, raw)[1] = frames[1])
  BY OuterContinue
<1>3. ASSUME NEW n \in 2 .. Depth PROVE NoRaw(Continue(um, raw)[n].rest)
  <2>1. NoRaw(frames[n].rest)
    BY <1>1 DEF Inner
  <2>2. CASE n = Depth
    <3>1. Continue(um, raw)[n].rest = Rest
      BY <1>1, <2>2 DEF Continue
    <3>2. NoRaw(Top.rest)
      BY <1>1, <2>1, <2>2
    <3>3. NoRaw(Rest)
      <4>1. CASE Top.rest = <<>>
        BY <4>1 DEF Rest, NoRaw
      <4>2. CASE Top.rest # <<>>
        BY <4>2, <1>1, <3>2, NoRawTail DEF Rest
      <4> QED
        BY <4>1, <4>2
    <3> QED
      BY <3>1, <3>3
  <2>3. CASE n # Depth
    <3>1. Continue(um, raw)[n] = frames[n]
      BY <1>1, <2>3 DEF Continue
    <3> QED
      BY <2>1, <3>1
  <2> QED
    BY <2>2, <2>3
<1> QED
  BY <1>1, <1>2, <1>3 DEF Inner

\* an attribute of the string of the user, or of an expansion
LEMMA ExclusiveAttr ==
    ASSUME IInv, Exclusive, NEW tok \in Token, ParseAttr(tok)
    PROVE  Exclusive'
<1> SUFFICES ASSUME EquivEvent[alias] = NoEquiv PROVE Exclusive'
  BY Outcome DEF IInv, Keeps, Exclusive
<1>1. /\ pc = "attrs" /\ alias' = alias /\ event' = event /\ origin' = origin
      /\ Failed \/ Overrun \/ Stored \/ Expanded
  BY Outcome DEF IInv, Keeps
<1>2. frames # <<>> /\ TypeOK /\ attrs \in Seq(Attr)
  BY <1>1 DEF IInv, Shape, TypeOK
<1> DEFINE um1 == frames[1].has_um
           raw1 == frames[1].has_raw_um
<1>3. origin = "user" /\ Apart(event, attrs) /\ Flags(event, attrs, frames[1]) /\ Inner(frames)
  BY <1>1, <1>2 DEF Exclusive
<1>4. Top \in Frame /\ Depth \in Nat \ {0} /\ Depth = Len(frames) /\ (Depth = 1 => Top = frames[1])
      /\ Top.has_um \in BOOLEAN /\ Top.has_raw_um \in BOOLEAN /\ Top.rest \in Seq(Token)
  BY <1>2, TopType, OuterContinue DEF Depth, Frame, Top
<1>5. Read(tok)
  BY DEF ParseAttr, RawRefused, RawInvalid, RawTaken, NameUnknown, UmaskAfterRaw, Expand, Umask, Modifier, Plain, Lookup
<1>6. um1 \in BOOLEAN /\ raw1 \in BOOLEAN
  <2>1. frames[1] \in Frame
    BY <1>2, <1>4 DEF TypeOK
  <2> QED
    BY <2>1 DEF Frame
<1> HIDE DEF um1, raw1
<1>7. CASE Failed \/ Overrun
  <2>1. (attrs' = attrs /\ frames' = frames) \/ pc' = "undefined"
    BY <1>7 DEF Failed, Overrun
  <2> QED
    BY <2>1, <1>1, <1>3 DEF Exclusive, um1, raw1
\* what an attribute has to respect
<1>8. ASSUME NEW a \in Attr, NEW um \in BOOLEAN, NEW raw \in BOOLEAN,
             attrs' = Append(attrs, a), frames' = Continue(um, raw),
             IF Depth = 1
             THEN /\ (um1 => um) /\ (raw1 => raw) /\ ~(um /\ raw)
                  /\ TypeIn(event, a.id) = "RAW_UMASK" => raw
                  /\ TypeIn(event, a.id) = "UMASK" => um
             ELSE TypeIn(event, a.id) # "RAW_UMASK"
      PROVE  Exclusive'
  <2> DEFINE um2 == IF Depth = 1 THEN um ELSE um1
             raw2 == IF Depth = 1 THEN raw ELSE raw1
  <2>1. frames'[1].has_um = um2 /\ frames'[1].has_raw_um = raw2
    BY <1>2, <1>4, <1>8, OuterContinue DEF um1, raw1
  <2>2. Inner(frames')
    BY <1>2, <1>3, <1>8, InnerContinue
  <2>3. Depth # 1 => um1
    BY <1>3, <1>4 DEF Inner, um1
  <2>4. ~(um1 /\ raw1)
    BY <1>3 DEF Flags, um1, raw1
  <2>5. /\ (um1 => um2) /\ (raw1 => raw2) /\ ~(um2 /\ raw2)
        /\ TypeIn(event, a.id) = "RAW_UMASK" => raw2
        /\ TypeIn(event, a.id) = "UMASK" => um2
    BY <1>8, <2>3, <2>4
  <2> HIDE DEF um2, raw2
  <2>6. Flags(event, attrs', frames'[1])
    <3>1. /\ (frames[1].has_um => frames'[1].has_um) /\ (frames[1].has_raw_um => frames'[1].has_raw_um)
          /\ ~(frames'[1].has_um /\ frames'[1].has_raw_um)
          /\ TypeIn(event, a.id) = "RAW_UMASK" => frames'[1].has_raw_um
          /\ TypeIn(event, a.id) = "UMASK" => frames'[1].has_um
      BY <2>1, <2>5 DEF um1, raw1
    <3>2. Flags(event, Append(attrs, a), frames'[1])
      BY <1>2, <1>3, <1>8, <3>1, FlagsAppend
    <3> QED
      BY <3>2, <1>8
  <2>7. Apart(event, attrs')
    BY <2>6, FlagsApart
  <2> QED
    BY <1>1, <1>3, <2>1, <2>2, <2>6, <2>7 DEF Exclusive
<1>9. CASE RawTaken(tok) /\ Stored
  <2>1. Depth = 1
    <3>1. Depth > 1 => NoRaw(Top.rest)
      BY <1>3, <1>4 DEF Inner, Top
    <3>2. Depth > 1 => Top.rest # <<>> /\ tok = Head(Top.rest)
      BY <1>5, <1>4, <1>3 DEF Read
    <3>3. Depth > 1 => tok.name \in Names
      BY <3>1, <3>2, <1>4, NoRawTail
    <3> QED
      BY <3>3, <1>4, <1>9, ParseAssumption DEF RawTaken, ParseAssumption
  <2>2. ~um1 /\ ~raw1
    BY <1>9, <1>4, <2>1 DEF RawTaken, RawAllowed, um1, raw1
  <2>3. StoreUnchecked(RawId, Top.has_um, TRUE) /\ pc' # "undefined"
    BY <1>1, <1>9 DEF RawTaken, Stored
  <2>4. attrs' = Append(attrs, [id |-> RawId, ival |-> 0]) /\ frames' = Continue(Top.has_um, TRUE)
    BY <2>3 DEF StoreUnchecked, Store
  <2>5. TypeIn(event, RawId) = "RAW_UMASK" /\ [id |-> RawId, ival |-> 0] \in Attr
    <3>1. Pattrs[event] \in Seq(Pattr)
      BY <1>2, ParseAssumption DEF ParseAssumption, TypeOK
    <3>2. NPattrs \in Nat
      BY <3>1 DEF NPattrs
    <3> QED
      BY <3>2 DEF TypeIn, RawId, NPattrs, Attr
  <2> DEFINE a == [id |-> RawId, ival |-> 0]
  <2>6. a \in Attr /\ a.id = RawId /\ attrs' = Append(attrs, a)
    BY <2>4, <2>5
  <2> HIDE DEF a
  <2>7. Top.has_um = FALSE
    BY <1>4, <2>1, <2>2 DEF um1
  <2> QED
    BY <1>8, <1>4, <2>1, <2>2, <2>4, <2>5, <2>6, <2>7
<1>10. CASE Umask(tok) /\ Stored
  <2>1. PICK k \in 1 .. NPattrs : ~Mixed(k) /\ IsUmask(k) /\ StoreUnchecked(k, HasUm(k), Top.has_raw_um)
    BY <1>10 DEF Umask, Plain
  <2>2. HasUm(k) = TRUE /\ Top.has_raw_um = FALSE
    BY <2>1, <1>4 DEF HasUm, Mixed
  <2>3. StoreUnchecked(k, TRUE, FALSE) /\ pc' # "undefined"
    BY <1>1, <1>10, <2>1, <2>2 DEF Stored
  <2> DEFINE a == [id |-> k, ival |-> 0]
  <2>4. attrs' = Append(attrs, a) /\ frames' = Continue(TRUE, FALSE)
    BY <2>3 DEF StoreUnchecked, Store
  <2>5. TypeIn(event, k) = "UMASK" /\ a \in Attr /\ a.id = k
    BY <1>2, <2>1, EntryType DEF IsUmask, TypeIn, TypeOf, RawId, NPattrs, Attr
  <2> HIDE DEF a
  <2>6. Depth = 1 => raw1 = FALSE
    BY <1>4, <2>2 DEF raw1
  <2> QED
    BY <1>8, <2>4, <2>5, <2>6
<1>11. CASE Modifier(tok) /\ Stored
  <2>1. PICK k \in 1 .. NPattrs :
          /\ ~IsUmask(k)
          /\ \E val : /\ Convert(Pattrs[event][k].type, val) # Bad
                      /\ Store(k, Convert(Pattrs[event][k].type, val), Top.has_um, Top.has_raw_um)
    <3>1. pc' = pc
      BY <1>11 DEF Stored
    <3> QED
      BY <3>1, <1>1, <1>11 DEF Modifier, Fail
  <2>1a. PICK val : /\ Convert(Pattrs[event][k].type, val) # Bad
                   /\ Store(k, Convert(Pattrs[event][k].type, val), Top.has_um, Top.has_raw_um)
    BY <2>1
  <2> DEFINE v == Convert(Pattrs[event][k].type, val)
  <2>2. v \in Nat
    BY <2>1a, ConvertType DEF Bad
  <2>2a. Store(k, v, Top.has_um, Top.has_raw_um)
    BY <2>1a
  <2> HIDE DEF v
  <2> DEFINE a == [id |-> k, ival |-> v]
  <2>3. attrs' = Append(attrs, a) /\ frames' = Continue(Top.has_um, Top.has_raw_um)
    BY <2>2a DEF Store
  <2>4. a \in Attr /\ a.id = k
    BY <1>2, <2>2, EntryType DEF Attr
  <2>5. TypeIn(event, k) \notin {"RAW_UMASK", "UMASK"}
    BY <1>2, <2>1, EntryType DEF IsUmask, TypeIn, TypeOf, RawId, NPattrs, Pattr, Type
  <2> HIDE DEF a
  <2>6. Depth = 1 => Top.has_um = um1 /\ Top.has_raw_um = raw1
    BY <1>4 DEF um1, raw1
  <2>7. ~(um1 /\ raw1)
    BY <1>3 DEF Flags, um1, raw1
  <2> QED
    BY <1>8, <1>4, <2>3, <2>4, <2>5, <2>6, <2>7
<1>12. CASE Expanded
  <2>1. PICK k \in 1 .. NPattrs :
          /\ ~Mixed(k) /\ Pattrs[event][k].equiv # <<>>
          /\ frames' = Append(Continue(HasUm(k), Top.has_raw_um), Activation(Pattrs[event][k].equiv))
          /\ attrs' = attrs
    <3>1. attrs' = attrs /\ pc' = pc /\ Len(frames') = Depth + 1
      BY <1>2, <1>12, CallType DEF Expanded
    <3>2. CASE Expand(tok)
      BY <3>1, <3>2, <1>1 DEF Expand, Fail
    <3>3. CASE ~Expand(tok)
      <4>1. RawTaken(tok) \/ Umask(tok) \/ Modifier(tok)
        BY <3>1, <3>3, <1>1 DEF ParseAttr, RawRefused, RawInvalid, NameUnknown, UmaskAfterRaw, Fail
      <4>2. PICK a : attrs' = Append(attrs, a)
        BY <4>1, <3>1, <1>1 DEF RawTaken, Umask, Modifier, StoreUnchecked, Store, Fail
      <4>3. Len(Append(attrs, a)) = Len(attrs) + 1 /\ Len(attrs) \in Nat
        BY <1>2
      <4> QED
        BY <4>2, <4>3, <3>1
    <3> QED
      BY <3>2, <3>3
  <2> DEFINE z == Pattrs[event][k].equiv
             um == HasUm(k)
             raw == Top.has_raw_um
  <2>2. Pattrs[event][k].type = "UMASK" /\ NoRaw(z) /\ z \in Seq(Token)
    BY <1>2, <2>1, ExpansionAssumption, EntryType DEF TypeOK, NPattrs, NoRaw, Pattr
  <2>3. um = TRUE /\ raw = FALSE
    BY <1>4, <2>1, <2>2 DEF HasUm, Mixed, IsUmask
  <2>4. Continue(um, raw) \in Seq(Frame) /\ Len(Continue(um, raw)) = Depth /\ Inner(Continue(um, raw))
    BY <1>2, <1>3, <2>3, ContinueType, InnerContinue
  <2>5. /\ Depth = 1 => Continue(um, raw)[1].has_um = TRUE /\ Continue(um, raw)[1].has_raw_um = FALSE
        /\ Depth > 1 => Continue(um, raw)[1] = frames[1]
    BY <1>2, <2>3, OuterContinue
  <2> HIDE DEF z, um, raw
  <2>6. frames' = Append(Continue(um, raw), Activation(z))
    BY <2>1 DEF um, raw, z
  <2>7. Activation(z) \in Frame /\ Activation(z).rest = z
    BY <2>2 DEF Activation, Frame
  <2>8. /\ Len(frames') = Depth + 1
        /\ \A n \in 1 .. Depth : frames'[n] = Continue(um, raw)[n]
        /\ frames'[Depth + 1] = Activation(z)
    BY <1>4, <2>4, <2>6, <2>7
  <2>9. frames'[1] = Continue(um, raw)[1]
    BY <1>4, <2>8
  <2>10. Depth > 1 => um1
    BY <1>3, <1>4 DEF Inner, um1
  <2>11. frames'[1].has_um /\ Inner(frames')
    <3>1. frames'[1].has_um
      BY <1>4, <2>5, <2>9, <2>10 DEF um1
    <3>2. ASSUME NEW n \in 2 .. Len(frames') PROVE NoRaw(frames'[n].rest)
      BY <1>4, <2>2, <2>4, <2>7, <2>8 DEF Inner
    <3> QED
      BY <3>1, <3>2 DEF Inner
  <2>12. Flags(event, attrs, frames'[1])
    <3>1. CASE Depth = 1
      <4>1. frames'[1].has_um = TRUE /\ frames'[1].has_raw_um = FALSE
        BY <3>1, <2>5, <2>9
      <4>2. raw1 = FALSE
        BY <3>1, <1>4, <2>3 DEF raw, raw1
      <4> QED
        BY <4>1, <4>2, <1>3 DEF Flags, raw1
    <3>2. CASE Depth > 1
      BY <3>2, <1>3, <2>5, <2>9 DEF um1, raw1
    <3> QED
      BY <3>1, <3>2, <1>4
  <2> QED
    BY <1>1, <1>3, <2>1, <2>11, <2>12 DEF Exclusive
<1>13. Stored => RawTaken(tok) \/ Umask(tok) \/ Modifier(tok)
  <2>1. Stored => attrs' # attrs
    <3>1. \A a : Len(Append(attrs, a)) = Len(attrs) + 1
      BY <1>2
    <3> QED
      BY <3>1, <1>2 DEF Stored
  <2> QED
    BY <2>1 DEF ParseAttr, RawRefused, RawInvalid, NameUnknown, UmaskAfterRaw, Expand, Fail
<1> QED
  BY <1>1, <1>7, <1>9, <1>10, <1>11, <1>12, <1>13

LEMMA ExclusiveInvariance == Spec => [](IInv /\ Exclusive)
<1>1. Init => Exclusive
  BY DEF Init, Exclusive, Apart
<1>2. IInv /\ Exclusive /\ [Next]_vars => Exclusive'
  <2> SUFFICES ASSUME IInv, Exclusive, [Next]_vars PROVE Exclusive'
    OBVIOUS
  <2>1. CASE EquivEvents
    <3>1. CASE Build
      <4>1. frames = <<>> /\ attrs = <<>>
        BY <3>1 DEF IInv, Shape, Build
      <4>2. attrs' = <<>> /\ alias' = alias /\ origin' = origin /\ frames' = <<Activation(IF origin = "equiv" THEN EquivAttrs[alias] ELSE <<>>)>>
        BY <3>1, <4>1 DEF Build, Start
      <4>3. EquivEvent[alias] = NoEquiv => origin = "user" /\ frames' = <<Activation(<<>>)>>
        BY <3>1, <4>2 DEF Exclusive, Build
      <4> QED
        BY <4>2, <4>3 DEF Exclusive, Apart, Flags, Inner, Activation
    <3>2. CASE ~Build
      <4>1. frames' = <<>> /\ attrs' = <<>>
        BY <2>1, <3>2 DEF EquivEvents, IInv, Shape, NoEvent, Found, EquivFails, EquivFound, BuildFails, desc
      <4>2. EquivEvent[alias'] = NoEquiv => origin' = "user"
        BY <2>1, <3>2 DEF EquivEvents, IInv, Shape, Exclusive, NoEvent, Found, EquivFails, EquivFound, BuildFails
      <4> QED
        BY <4>1, <4>2 DEF Exclusive, Apart
    <3> QED
      BY <3>1, <3>2
  <2>2. CASE \E tok \in Token : ParseAttr(tok)
    BY <2>2, ExclusiveAttr
  <2>3. CASE EndString
    BY <2>3 DEF EndString, desc, Exclusive
  <2>4. CASE Return
    <3>1. /\ pc = "return" /\ attrs' = attrs /\ event' = event /\ alias' = alias /\ origin' = origin
          /\ frames' = SubSeq(frames, 1, Depth - 1)
      BY <2>4 DEF Return, desc
    <3>2. frames \in Seq(Frame) /\ Depth = Len(frames) /\ Depth \in Nat \ {0}
      BY <3>1, TopType DEF IInv, Shape, TypeOK, Depth
    <3>3. Len(frames') = Depth - 1 /\ \A n \in 1 .. Depth - 1 : frames'[n] = frames[n]
      BY <3>1, <3>2
    <3>4. frames' # <<>> => Depth > 1 /\ frames'[1] = frames[1]
      BY <3>2, <3>3
    <3>5. Inner(frames) => Inner(frames')
      BY <3>2, <3>3, <3>4 DEF Inner
    <3>6. frames # <<>>
      BY <3>2
    <3> QED
      BY <3>1, <3>4, <3>5, <3>6 DEF Exclusive
  <2>5. CASE Sanitize
    <3>1. /\ pc = "sanitize" /\ frames' = <<>> /\ origin' = origin /\ event' = event /\ alias' = alias
      BY <2>5 DEF IInv, Shape, Sanitize, NextRow, Different, Duplicate, Conflict, Sanitized, Sanitizing, desc
    <3>2. \A k \in 1 .. Len(attrs') : \E l \in 1 .. Len(attrs) : attrs'[k] = attrs[l]
      <4>1. attrs' = attrs \/ (Sanitizing /\ attrs' = SubSeq(attrs, 1, j - 1) \o SubSeq(attrs, j + 1, Len(attrs)))
        BY <2>5 DEF Sanitize, NextRow, Different, Duplicate, Conflict, Sanitized, desc
      <4> QED
        BY <4>1, CompactType DEF IInv
    <3>3. Apart(event, attrs) => Apart(event, attrs')
      BY <3>2 DEF Apart
    <3> QED
      BY <3>1, <3>3 DEF Exclusive
  <2>6. CASE LeaveEquiv \/ LeaveEvent
    <3>1. pc = "leave" /\ attrs' = attrs /\ event' = event /\ alias' = alias
      BY <2>6 DEF LeaveEquiv, LeaveEvent
    <3>2. EquivEvent[alias] = NoEquiv => LeaveEvent
      BY <2>6, <3>1 DEF Exclusive, LeaveEquiv
    <3> QED
      BY <3>1, <3>2 DEF Exclusive, LeaveEvent
  <2>7. CASE Release
    <3>1. pc = "done" /\ attrs' = <<>> /\ frames' = <<>> /\ alias' = alias /\ origin' = "user"
      BY <2>7 DEF Release, IInv, Shape
    <3> QED
      BY <3>1 DEF Exclusive, Apart
  <2>8. CASE UNCHANGED vars
    BY <2>8 DEF vars, desc, Exclusive
  <2> QED
    BY <2>1, <2>2, <2>3, <2>4, <2>5, <2>6, <2>7, <2>8 DEF Next
<1>3. IInv /\ Exclusive /\ [Next]_vars => (IInv /\ Exclusive)'
  BY <1>2, NextInv
<1> QED
  BY InitInv, <1>1, <1>3, PTL DEF Spec

(***************************************************************************)
(* Induction on the natural numbers, from the minimal elements of a set of *)
(* intervals.                                                              *)
(***************************************************************************)
LEMMA SetInduction ==
    ASSUME NEW P, 0 \in P, \A n \in Nat : n \in P => n + 1 \in P
    PROVE  \A n \in Nat : n \in P
<1> SUFFICES ASSUME NEW n \in Nat, n \notin P PROVE FALSE
  OBVIOUS
<1> DEFINE T == {0 .. k : k \in {l \in 0 .. n : l \notin P}}
<1>1. T \subseteq FiniteSubsetsOf(0 .. n)
  <2>1. \A k \in 0 .. n : IsFiniteSet(0 .. k) /\ 0 .. k \subseteq 0 .. n
    BY FS_Interval
  <2>2. QED
    BY <2>1 DEF FiniteSubsetsOf
<1>2. T # {}
  OBVIOUS
<1>3. PICK x \in T : \A y \in T : ~ (<<y, x>> \in StrictSubsetOrdering(0 .. n))
  <2>1. IsWellFoundedOn(StrictSubsetOrdering(0 .. n), FiniteSubsetsOf(0 .. n))
    BY FS_StrictSubsetOrderingWellFounded
  <2> HIDE DEF T
  <2>2. QED
    BY <1>1, <1>2, <2>1, WFMin
<1>4. PICK k \in 0 .. n : k \notin P /\ x = 0 .. k
  OBVIOUS
<1>5. k # 0 /\ k - 1 \in Nat
  BY <1>4
<1>6. k - 1 \notin P
  BY <1>4, <1>5
<1>7. 0 .. (k - 1) \in T
  BY <1>5, <1>6
<1>8. <<0 .. (k - 1), x>> \in StrictSubsetOrdering(0 .. n)
  <2>1. 0 .. (k - 1) \subseteq 0 .. k /\ k \in 0 .. k /\ k \notin 0 .. (k - 1)
    BY <1>5
  <2>2. x \subseteq 0 .. n /\ 0 .. (k - 1) \subseteq 0 .. n
    BY <1>4, <1>5
  <2>3. QED
    BY <1>4, <2>1, <2>2 DEF StrictSubsetOrdering
<1>9. QED
  BY <1>3, <1>7, <1>8

(***************************************************************************)
(* FlattenSeq                                                              *)
(***************************************************************************)
\* The recursive function of FlattenSeq satisfies its equation.
LEMMA FlattenUpto ==
    ASSUME NEW n \in Nat \ {0}, NEW ss, Len(ss) = n
    PROVE  \E u : /\ u = [k \in 1 .. n |-> IF k = 1 THEN ss[k] ELSE u[k - 1] \o ss[k]]
                  /\ FlattenSeq(ss) = u[n]
<1> DEFINE E(g, k) == IF k = 1 THEN ss[k] ELSE g[k - 1] \o ss[k]
           Rec(g, m) == g = [k \in 1 .. m |-> E(g, k)]
           Q == {m \in Nat : \E g : Rec(g, m)}
           flatten[k \in 1 .. Len(ss)] == IF k = 1 THEN ss[k] ELSE flatten[k - 1] \o ss[k]
<1> HIDE DEF flatten, E
<1>1. \A m \in Nat : m \in Q
  <2>1. 0 \in Q
    <3>1. Rec(<<>>, 0)
      BY DEF E
    <3>2. QED
      BY <3>1
  <2>2. \A m \in Nat : m \in Q => m + 1 \in Q
    <3>1. SUFFICES ASSUME NEW m \in Nat, m \in Q PROVE \E g : Rec(g, m + 1)
      OBVIOUS
    <3>2. PICK g : Rec(g, m)
      BY <3>1
    <3> DEFINE h == [k \in 1 .. m + 1 |-> E(g, k)]
    <3>3. \A k \in 1 .. m : h[k] = g[k]
      BY <3>2
    <3>4. \A k \in 1 .. m + 1 : E(h, k) = E(g, k)
      <4>1. \A k \in 1 .. m + 1 : k # 1 => k - 1 \in 1 .. m
        OBVIOUS
      <4> HIDE DEF h
      <4>2. QED
        BY <3>3, <4>1 DEF E
    <3>5. Rec(h, m + 1)
      BY <3>4
    <3>6. QED
      BY <3>5
  <2> HIDE DEF Q
  <2>3. QED
    BY <2>1, <2>2, SetInduction
<1>2. flatten = [k \in 1 .. n |-> E(flatten, k)]
  <2>1. \E g : Rec(g, n)
    BY <1>1
  <2>2. flatten = CHOOSE g : Rec(g, n)
    BY DEF flatten, E
  <2> HIDE DEF Rec
  <2>3. Rec(flatten, n)
    BY <2>1, <2>2
  <2>4. QED
    BY <2>3 DEF Rec
<1>3. FlattenSeq(ss) = flatten[n]
  BY DEF FlattenSeq, flatten
<1>4. QED
  BY <1>2, <1>3 DEF E

\* g has what ss holds up to each position.
Heads(n, ss, g) == g[0] = <<>> /\ \A k \in 0 .. n - 1 : g[k + 1] = g[k] \o ss[k + 1]

\* The prefixes of what FlattenSeq makes, the empty one included.
LEMMA FlattenedHeads ==
    ASSUME NEW S, NEW n \in Nat \ {0}, NEW ss \in [1 .. n -> Seq(S)]
    PROVE  \E g \in [0 .. n -> Seq(S)] : Heads(n, ss, g) /\ g[n] = FlattenSeq(ss)
<1>1. Len(ss) = n
  OBVIOUS
<1>2. PICK u : /\ u = [k \in 1 .. n |-> IF k = 1 THEN ss[k] ELSE u[k - 1] \o ss[k]]
               /\ FlattenSeq(ss) = u[n]
  BY <1>1, FlattenUpto
<1>3. \A k \in 1 .. n : u[k] = IF k = 1 THEN ss[k] ELSE u[k - 1] \o ss[k]
  BY <1>2
<1>4. \A k \in 1 .. n : ss[k] \in Seq(S)
  OBVIOUS
<1> DEFINE g == [k \in 0 .. n |-> IF k = 0 THEN <<>> ELSE u[k]]
<1>5. /\ g[0] = <<>> /\ g[n] = u[n] /\ DOMAIN g = 0 .. n /\ g = [k \in 0 .. n |-> g[k]]
      /\ \A k \in 1 .. n : g[k] = u[k]
  OBVIOUS
<1> HIDE DEF g
<1>6. \A k \in 0 .. n - 1 : g[k + 1] = g[k] \o ss[k + 1]
  <2>1. SUFFICES ASSUME NEW k \in 0 .. n - 1 PROVE g[k + 1] = g[k] \o ss[k + 1]
    OBVIOUS
  <2> DEFINE l == k + 1
  <2>2. l \in 1 .. n /\ l - 1 = k
    OBVIOUS
  <2> HIDE DEF l
  <2>3. ss[l] \in Seq(S) /\ g[l] = u[l]
    BY <1>4, <1>5, <2>2
  <2>4. CASE k = 0
    <3>1. l = 1
      BY <2>2, <2>4
    <3>2. u[l] = ss[l] /\ g[k] = <<>>
      BY <1>3, <1>5, <2>2, <2>4, <3>1
    <3>3. <<>> \o ss[l] = ss[l]
      BY <2>3
    <3>4. QED
      BY <2>3, <3>2, <3>3 DEF l
  <2>5. CASE k # 0
    <3>1. l # 1 /\ k \in 1 .. n
      BY <2>2, <2>5
    <3>2. u[l] = u[k] \o ss[l] /\ g[k] = u[k]
      BY <1>3, <1>5, <2>2, <3>1
    <3>3. QED
      BY <2>3, <3>2 DEF l
  <2>6. QED
    BY <2>4, <2>5
<1> DEFINE P == {k \in Nat : k <= n => g[k] \in Seq(S)}
<1>7. 0 \in P
  <2>1. <<>> \in Seq(S)
    OBVIOUS
  <2>2. QED
    BY <1>5, <2>1
<1>8. \A k \in Nat : k \in P => k + 1 \in P
  <2>1. SUFFICES ASSUME NEW k \in Nat, k \in P, k + 1 <= n PROVE g[k + 1] \in Seq(S)
    OBVIOUS
  <2>2. g[k] \in Seq(S) /\ k \in 0 .. n - 1 /\ k + 1 \in 1 .. n
    BY <2>1
  <2>3. g[k + 1] = g[k] \o ss[k + 1] /\ ss[k + 1] \in Seq(S)
    BY <1>4, <1>6, <2>2
  <2>4. QED
    BY <2>2, <2>3
<1>9. \A k \in Nat : k \in P
  <2> HIDE DEF P
  <2>1. QED
    BY <1>7, <1>8, SetInduction
<1>10. \A k \in 0 .. n : g[k] \in Seq(S)
  BY <1>9
<1>11. g \in [0 .. n -> Seq(S)]
  BY <1>5, <1>10
<1>12. QED
  BY <1>2, <1>5, <1>6, <1>11 DEF Heads

(***************************************************************************)
(* Together, for one string after the other                                *)
(***************************************************************************)
\* g has what the attributes up to each one stand for.
UpTo(s, one, g) ==
    /\ g[0] = <<>>
    /\ \A k \in 0 .. Len(s) - 1 : g[k + 1] = g[k] \o one[s[k + 1]]
    /\ g[Len(s)] = Together(s, one)

LEMMA TogetherUpTo ==
    ASSUME NEW T, NEW S, NEW one \in [T -> Seq(S)], NEW s \in Seq(T)
    PROVE  \E g \in [0 .. Len(s) -> Seq(S)] : UpTo(s, one, g)
<1> DEFINE n == Len(s)
           ss == [k \in 1 .. n |-> one[s[k]]]
<1>1. n \in Nat /\ ss \in [1 .. n -> Seq(S)] /\ Together(s, one) = FlattenSeq(ss)
  <2>1. n \in Nat /\ \A k \in 1 .. n : s[k] \in T
    OBVIOUS
  <2> QED
    BY <2>1 DEF Together
<1>2. \A k \in 0 .. n - 1 : ss[k + 1] = one[s[k + 1]]
  BY <1>1
<1> HIDE DEF ss
<1>3. CASE n = 0
  <2>1. ss = <<>>
    BY <1>1, <1>3 DEF ss
  <2>2. FlattenSeq(ss) = <<>>
    BY <2>1 DEF FlattenSeq
  <2> DEFINE g == [k \in 0 .. 0 |-> <<>>]
  <2>3. g \in [0 .. 0 -> Seq(S)] /\ g[0] = <<>>
    OBVIOUS
  <2> HIDE DEF g
  <2>4. \A k \in 0 .. n - 1 : FALSE
    BY <1>3
  <2>5. UpTo(s, one, g)
    BY <1>1, <1>3, <2>2, <2>3, <2>4 DEF UpTo
  <2> QED
    BY <1>3, <2>3, <2>5
<1>4. CASE n # 0
  <2>1. PICK g \in [0 .. n -> Seq(S)] : Heads(n, ss, g) /\ g[n] = FlattenSeq(ss)
    <3>1. n \in Nat \ {0}
      BY <1>1, <1>4
    <3> QED
      BY <3>1, <1>1, FlattenedHeads, Zenon
  <2>2. g[0] = <<>> /\ \A k \in 0 .. n - 1 : g[k + 1] = g[k] \o one[s[k + 1]]
    BY <2>1, <1>2 DEF Heads
  <2>3. UpTo(s, one, g)
    BY <1>1, <2>1, <2>2 DEF UpTo
  <2> QED
    BY <2>3
<1> QED
  BY <1>3, <1>4

LEMMA TogetherNone == \A one : Together(<<>>, one) = <<>>
<1> SUFFICES ASSUME NEW one PROVE Together(<<>>, one) = <<>>
  OBVIOUS
<1>1. [k \in 1 .. Len(<<>>) |-> one[<<>>[k]]] = <<>>
  OBVIOUS
<1> QED
  BY <1>1 DEF Together, FlattenSeq

LEMMA TogetherType ==
    ASSUME NEW T, NEW S, NEW one \in [T -> Seq(S)], NEW s \in Seq(T)
    PROVE  Together(s, one) \in Seq(S)
<1>1. PICK g \in [0 .. Len(s) -> Seq(S)] : UpTo(s, one, g)
  BY TogetherUpTo, Zenon
<1>2. Len(s) \in 0 .. Len(s)
  OBVIOUS
<1> QED
  BY <1>1, <1>2 DEF UpTo

LEMMA TogetherAppend ==
    ASSUME NEW T, NEW S, NEW one \in [T -> Seq(S)], NEW s \in Seq(T), NEW x \in T
    PROVE  Together(Append(s, x), one) = Together(s, one) \o one[x]
<1> DEFINE n == Len(s)
           t == Append(s, x)
<1>1. /\ n \in Nat /\ t \in Seq(T) /\ Len(t) = n + 1
      /\ t[n + 1] = x /\ \A k \in 1 .. n : t[k] = s[k]
  OBVIOUS
<1> HIDE DEF t
<1>11. PICK g \in [0 .. Len(s) -> Seq(S)] : UpTo(s, one, g)
  BY TogetherUpTo, Zenon
<1>12. PICK h \in [0 .. Len(t) -> Seq(S)] : UpTo(t, one, h)
  BY <1>1, TogetherUpTo, Zenon
<1> HIDE DEF n
<1>2. /\ g \in [0 .. n -> Seq(S)] /\ g[0] = <<>> /\ g[n] = Together(s, one)
      /\ \A k \in 0 .. n - 1 : g[k + 1] = g[k] \o one[s[k + 1]]
  BY <1>11 DEF UpTo, n
<1>3. /\ h \in [0 .. n + 1 -> Seq(S)] /\ h[0] = <<>> /\ h[n + 1] = Together(t, one)
      /\ \A k \in 0 .. n : h[k + 1] = h[k] \o one[t[k + 1]]
  <2>1. Len(t) = n + 1 /\ 0 .. Len(t) - 1 = 0 .. n
    BY <1>1
  <2>2. h[0] = <<>> /\ h[n + 1] = Together(t, one) /\ h \in [0 .. n + 1 -> Seq(S)]
    BY <1>12, <2>1 DEF UpTo
  <2>3. \A k \in 0 .. Len(t) - 1 : h[k + 1] = h[k] \o one[t[k + 1]]
    BY <1>12, Zenon DEF UpTo
  <2> QED
    BY <2>1, <2>2, <2>3
<1> DEFINE P == {k \in Nat : k <= n => h[k] = g[k]}
<1>4. 0 \in P
  BY <1>2, <1>3
<1>5. \A k \in Nat : k \in P => k + 1 \in P
  <2> SUFFICES ASSUME NEW k \in Nat, k \in P, k + 1 <= n PROVE h[k + 1] = g[k + 1]
    OBVIOUS
  <2>1. k \in 0 .. n - 1 /\ k \in 0 .. n /\ k + 1 \in 1 .. n /\ h[k] = g[k]
    BY <1>1
  <2>2. h[k + 1] = h[k] \o one[t[k + 1]] /\ g[k + 1] = g[k] \o one[s[k + 1]] /\ t[k + 1] = s[k + 1]
    BY <1>1, <1>2, <1>3, <2>1
  <2> QED
    BY <2>1, <2>2
<1>6. h[n] = g[n]
  <2> HIDE DEF P
  <2>1. n \in P
    BY <1>1, <1>4, <1>5, SetInduction
  <2> QED
    BY <1>1, <2>1 DEF P
<1>7. h[n + 1] = h[n] \o one[t[n + 1]]
  <2>1. n \in 0 .. n
    BY <1>1
  <2> QED
    BY <1>3, <2>1
<1> QED
  BY <1>1, <1>2, <1>3, <1>6, <1>7 DEF t

LEMMA TogetherHead ==
    ASSUME NEW T, NEW S, NEW one \in [T -> Seq(S)], NEW s \in Seq(T), s # <<>>
    PROVE  Together(s, one) = one[Head(s)] \o Together(Tail(s), one)
<1> DEFINE n == Len(s) - 1
           t == Tail(s)
           a == one[Head(s)]
<1>1. /\ n \in Nat /\ t \in Seq(T) /\ Len(t) = n /\ Len(s) = n + 1
      /\ Head(s) = s[1] /\ Head(s) \in T /\ \A k \in 1 .. n : t[k] = s[k + 1] /\ t[k] \in T
  OBVIOUS
<1>2. a \in Seq(S) /\ a = one[s[1]]
  BY <1>1
<1> HIDE DEF t, a
<1>11. PICK g \in [0 .. Len(s) -> Seq(S)] : UpTo(s, one, g)
  BY TogetherUpTo, Zenon
<1>12. PICK h \in [0 .. Len(t) -> Seq(S)] : UpTo(t, one, h)
  BY <1>1, TogetherUpTo, Zenon
<1> HIDE DEF n
<1>3. /\ g \in [0 .. n + 1 -> Seq(S)] /\ g[0] = <<>> /\ g[n + 1] = Together(s, one)
      /\ \A k \in 0 .. n : g[k + 1] = g[k] \o one[s[k + 1]]
  <2>1. Len(s) = n + 1 /\ 0 .. Len(s) - 1 = 0 .. n
    BY <1>1
  <2>2. g[0] = <<>> /\ g[n + 1] = Together(s, one) /\ g \in [0 .. n + 1 -> Seq(S)]
    BY <1>11, <2>1 DEF UpTo
  <2>3. \A k \in 0 .. Len(s) - 1 : g[k + 1] = g[k] \o one[s[k + 1]]
    BY <1>11, Zenon DEF UpTo
  <2> QED
    BY <2>1, <2>2, <2>3
<1>4. /\ h \in [0 .. n -> Seq(S)] /\ h[0] = <<>> /\ h[n] = Together(t, one)
      /\ \A k \in 0 .. n - 1 : h[k + 1] = h[k] \o one[t[k + 1]]
  BY <1>1, <1>12 DEF UpTo
<1> DEFINE Q(k) == g[k + 1] = a \o h[k]
           P == {k \in Nat : k <= n => Q(k)}
<1> HIDE DEF Q
<1>5. 0 \in P
  <2> HIDE DEF P
  <2>0. 0 \in 0 .. n
    BY <1>1
  <2>1. g[0 + 1] = g[0] \o one[s[0 + 1]]
    BY <1>3, <2>0
  <2>2. g[0 + 1] = <<>> \o a /\ h[0] = <<>>
    BY <1>2, <1>3, <1>4, <2>1
  <2>3. <<>> \o a = a /\ a \o <<>> = a
    BY <1>2
  <2> QED
    BY <2>2, <2>3 DEF P, Q
<1>6. \A k \in Nat : k \in P => k + 1 \in P
  <2> HIDE DEF P
  <2> SUFFICES ASSUME NEW k \in Nat, k \in P, k + 1 <= n PROVE Q(k + 1)
    BY DEF P
  <2>0. Q(k)
    BY <1>1 DEF P
  <2>1. k \in 0 .. n - 1 /\ k \in 0 .. n /\ k + 1 \in 0 .. n /\ k + 1 \in 1 .. n /\ g[k + 1] = a \o h[k]
    BY <1>1, <2>0 DEF Q
  <2> DEFINE b == one[t[k + 1]]
  <2>2. b \in Seq(S) /\ h[k] \in Seq(S) /\ b = one[s[(k + 1) + 1]]
    <3>1. t[k + 1] \in T /\ t[k + 1] = s[(k + 1) + 1]
      BY <1>1, <2>1
    <3>2. h[k] \in Seq(S)
      BY <1>4, <2>1
    <3> QED
      BY <3>1, <3>2
  <2> HIDE DEF b
  <2>3. g[(k + 1) + 1] = g[k + 1] \o b
    BY <1>3, <2>1, <2>2
  <2>4. h[k + 1] = h[k] \o b
    BY <1>4, <2>1 DEF b
  <2>5. (a \o h[k]) \o b = a \o (h[k] \o b)
    <3>1. \A u, v, w \in Seq(S) : (u \o v) \o w = u \o (v \o w)
      OBVIOUS
    <3> QED
      BY <1>2, <2>2, <3>1
  <2> QED
    BY <2>1, <2>3, <2>4, <2>5 DEF Q
<1>7. g[n + 1] = a \o h[n]
  <2> HIDE DEF P
  <2>1. n \in P
    BY <1>1, <1>5, <1>6, SetInduction
  <2> QED
    BY <1>1, <2>1 DEF P, Q
<1> QED
  BY <1>3, <1>4, <1>7 DEF a, t

\* Only what the attributes of the string stand for matters.
LEMMA TogetherSame ==
    ASSUME NEW s, NEW f, NEW g, \A k \in 1 .. Len(s) : f[s[k]] = g[s[k]]
    PROVE  Together(s, f) = Together(s, g)
<1>1. [k \in 1 .. Len(s) |-> f[s[k]]] = [k \in 1 .. Len(s) |-> g[s[k]]]
  OBVIOUS
<1> QED
  BY <1>1 DEF Together

(***************************************************************************)
(* Meaning                                                                 *)
(***************************************************************************)
LEMMA LeastExists ==
    ASSUME NEW M, M \subseteq Nat, M # {}
    PROVE  \E k \in M : \A l \in M : k <= l
<1> SUFFICES ASSUME \A k \in M : \E l \in M : ~(k <= l) PROVE FALSE
  OBVIOUS
<1> DEFINE P == {n \in Nat : \A k \in M : n < k}
<1>1. 0 \in P
  OBVIOUS
<1>2. \A n \in Nat : n \in P => n + 1 \in P
  <2> SUFFICES ASSUME NEW n \in Nat, \A k \in M : n < k, NEW k \in M PROVE n + 1 < k
    OBVIOUS
  <2>1. n + 1 <= k /\ k \in Nat
    OBVIOUS
  <2>2. k # n + 1
    <3> SUFFICES ASSUME k = n + 1 PROVE FALSE
      OBVIOUS
    <3>1. PICK l \in M : ~(k <= l)
      OBVIOUS
    <3> QED
      BY <3>1
  <2> QED
    BY <2>1, <2>2
<1>3. \A n \in Nat : n \in P
  <2> HIDE DEF P
  <2> QED
    BY <1>1, <1>2, SetInduction
<1>4. PICK k \in M : TRUE
  OBVIOUS
<1> QED
  BY <1>3, <1>4

\* The attribute of a name that has one is the first of them.
LEMMA DesignatedIs ==
    ASSUME NEW e, NEW tok, Matching(e, tok) # {}, Len(Pattrs[e]) \in Nat
    PROVE  Designated(e, tok) \in Matching(e, tok) /\ \A l \in Matching(e, tok) : Designated(e, tok) <= l
<1>1. Matching(e, tok) \subseteq Nat
  BY DEF Matching
<1>2. \E k \in Matching(e, tok) : \A l \in Matching(e, tok) : k <= l
  BY <1>1, LeastExists
<1> QED
  BY <1>2 DEF Designated

LEMMA DesignatedFirst ==
    ASSUME NEW e, NEW tok, NEW k \in Matching(e, tok), \A l \in Matching(e, tok) : k <= l,
           Len(Pattrs[e]) \in Nat
    PROVE  Designated(e, tok) = k
<1>1. Matching(e, tok) \subseteq Nat
  BY DEF Matching
<1>2. Designated(e, tok) \in Matching(e, tok) /\ \A l \in Matching(e, tok) : Designated(e, tok) <= l
  BY DesignatedIs
<1>3. Designated(e, tok) <= k /\ k <= Designated(e, tok) /\ k \in Nat /\ Designated(e, tok) \in Nat
  BY <1>1, <1>2
<1> QED
  BY <1>3

LEMMA ExpansibleEntry ==
    ASSUME NEW e \in Events, NEW tok, Expansible(e, tok)
    PROVE  /\ Len(Pattrs[e]) \in Nat
           /\ Designated(e, tok) \in 1 .. Len(Pattrs[e])
           /\ Pattrs[e][Designated(e, tok)].name = tok.name
           /\ Pattrs[e][Designated(e, tok)].equiv \in Seq(Token)
           /\ Pattrs[e][Designated(e, tok)].equiv # <<>>
<1>1. Pattrs[e] \in Seq(Pattr)
  BY ParseAssumption
<1>2. Len(Pattrs[e]) \in Nat
  BY <1>1
<1>3. Designated(e, tok) \in Matching(e, tok)
  BY <1>2, DesignatedIs DEF Expansible
<1>4. Designated(e, tok) \in 1 .. Len(Pattrs[e]) /\ Pattrs[e][Designated(e, tok)].name = tok.name
  BY <1>3 DEF Matching
<1>5. Pattrs[e][Designated(e, tok)] \in Pattr
  BY <1>1, <1>4
<1> QED
  BY <1>2, <1>4, <1>5 DEF Pattr, Expansible

\* what an attribute stands for, given what it does with one expansion less
Level(e, m, n) ==
    [tok \in Token |->
        IF ~Expansible(e, tok) THEN <<Itself(e, tok)>>
        ELSE IF n = 0 THEN <<>>
        ELSE Together(Pattrs[e][Designated(e, tok)].equiv, m[n - 1])]

\* The recursive function of Meaning satisfies its equation.
LEMMA MeaningLevels ==
    ASSUME NEW e, NEW N \in Nat, N = Len(Pattrs[e])
    PROVE  \E m : m = [n \in 0 .. N |-> Level(e, m, n)] /\ Meaning(e) = m[N]
<1> DEFINE Rec(g, x) == g = [n \in 0 .. x |-> Level(e, g, n)]
           Q == {x \in Nat : \E g : Rec(g, x)}
           nested[n \in 0 .. Len(Pattrs[e])] ==
               [tok \in Token |->
                   IF ~Expansible(e, tok) THEN <<Itself(e, tok)>>
                   ELSE IF n = 0 THEN <<>>
                   ELSE Together(Pattrs[e][Designated(e, tok)].equiv, nested[n - 1])]
<1> HIDE DEF nested
<1>1. \A x \in Nat : x \in Q
  <2>1. 0 \in Q
    <3> DEFINE g == [n \in 0 .. 0 |-> Level(e, <<>>, 0)]
    <3>1. \A n \in 0 .. 0 : n = 0
      OBVIOUS
    <3>2. Level(e, g, 0) = Level(e, <<>>, 0)
      BY DEF Level
    <3>3. Rec(g, 0)
      BY <3>1, <3>2
    <3> QED
      BY <3>3
  <2>2. \A x \in Nat : x \in Q => x + 1 \in Q
    <3>1. SUFFICES ASSUME NEW x \in Nat, x \in Q PROVE \E g : Rec(g, x + 1)
      OBVIOUS
    <3>2. PICK g : Rec(g, x)
      BY <3>1
    <3> DEFINE h == [n \in 0 .. x + 1 |-> Level(e, g, n)]
    <3>3. \A n \in 0 .. x : h[n] = g[n]
      BY <3>2
    <3>4. \A n \in 0 .. x + 1 : Level(e, h, n) = Level(e, g, n)
      <4>1. \A n \in 0 .. x + 1 : n # 0 => n - 1 \in 0 .. x
        OBVIOUS
      <4> HIDE DEF h
      <4>2. ASSUME NEW n \in 0 .. x + 1 PROVE Level(e, h, n) = Level(e, g, n)
        <5>1. CASE n = 0
          BY <5>1 DEF Level
        <5>2. CASE n # 0
          <6>1. h[n - 1] = g[n - 1]
            BY <3>3, <4>1, <5>2
          <6> QED
            BY <6>1 DEF Level
        <5> QED
          BY <5>1, <5>2
      <4> QED
        BY <4>2
    <3>5. Rec(h, x + 1)
      BY <3>4
    <3> QED
      BY <3>5
  <2> HIDE DEF Q
  <2> QED
    BY <2>1, <2>2, SetInduction
<1>2. nested = [n \in 0 .. N |-> Level(e, nested, n)]
  <2>1. \E g : Rec(g, N)
    BY <1>1
  <2>2. nested = CHOOSE g : Rec(g, N)
    BY DEF nested, Level
  <2> HIDE DEF Rec
  <2>3. Rec(nested, N)
    BY <2>1, <2>2
  <2> QED
    BY <2>3 DEF Rec
<1>3. Meaning(e) = nested[N]
  BY DEF Meaning, nested
<1> QED
  BY <1>2, <1>3

\* the attributes that one attribute of a string may stand for
Atoms(e) == {Itself(e, tok) : tok \in Token}

LEMMA LevelType ==
    ASSUME NEW e \in Events, NEW m, NEW n \in Nat, n # 0 => m[n - 1] \in [Token -> Seq(Atoms(e))]
    PROVE  Level(e, m, n) \in [Token -> Seq(Atoms(e))]
<1> SUFFICES ASSUME NEW tok \in Token PROVE Level(e, m, n)[tok] \in Seq(Atoms(e))
  BY DEF Level
<1>1. CASE ~Expansible(e, tok)
  <2>1. Itself(e, tok) \in Atoms(e)
    BY DEF Atoms
  <2>2. Level(e, m, n)[tok] = <<Itself(e, tok)>>
    BY <1>1 DEF Level
  <2> QED
    BY <2>1, <2>2
<1>2. CASE Expansible(e, tok) /\ n = 0
  BY <1>2 DEF Level
<1>3. CASE Expansible(e, tok) /\ n # 0
  <2>1. Pattrs[e][Designated(e, tok)].equiv \in Seq(Token)
    BY <1>3, ExpansibleEntry
  <2>2. Level(e, m, n)[tok] = Together(Pattrs[e][Designated(e, tok)].equiv, m[n - 1])
    BY <1>3 DEF Level
  <2>3. m[n - 1] \in [Token -> Seq(Atoms(e))]
    BY <1>3
  <2>4. Together(Pattrs[e][Designated(e, tok)].equiv, m[n - 1]) \in Seq(Atoms(e))
    BY <2>1, <2>3, TogetherType, Zenon
  <2> QED
    BY <2>2, <2>4
<1> QED
  BY <1>1, <1>2, <1>3

\* What an attribute stands for, without a bound on the depth: the ranks of
\* NestingAssumption say that the depth of Meaning is enough.
LEMMA MeaningIs ==
    ASSUME NEW e \in Events
    PROVE  /\ Meaning(e) \in [Token -> Seq(Atoms(e))]
           /\ \A tok \in Token :
                 Meaning(e)[tok] = IF Expansible(e, tok)
                                   THEN Together(Pattrs[e][Designated(e, tok)].equiv, Meaning(e))
                                   ELSE <<Itself(e, tok)>>
<1> DEFINE N == Len(Pattrs[e])
           Equiv(tok) == Pattrs[e][Designated(e, tok)].equiv
<1>1. N \in Nat
  <2>1. Pattrs[e] \in Seq(Pattr)
    BY ParseAssumption
  <2> QED
    BY <2>1
<1>2. PICK m : m = [n \in 0 .. N |-> Level(e, m, n)] /\ Meaning(e) = m[N]
  BY <1>1, MeaningLevels
<1>3. \A n \in 0 .. N : m[n] = Level(e, m, n)
  BY <1>2
<1>4. \A n \in 0 .. N : m[n] \in [Token -> Seq(Atoms(e))]
  <2> DEFINE P == {n \in Nat : n <= N => m[n] \in [Token -> Seq(Atoms(e))]}
  <2>1. 0 \in P
    <3>1. 0 \in 0 .. N
      BY <1>1
    <3> QED
      BY <1>3, <3>1, LevelType
  <2>2. \A n \in Nat : n \in P => n + 1 \in P
    <3> SUFFICES ASSUME NEW n \in Nat, n \in P, n + 1 <= N PROVE m[n + 1] \in [Token -> Seq(Atoms(e))]
      OBVIOUS
    <3>1. m[(n + 1) - 1] \in [Token -> Seq(Atoms(e))] /\ n + 1 \in 0 .. N /\ n + 1 \in Nat
      BY <1>1
    <3>2. Level(e, m, n + 1) \in [Token -> Seq(Atoms(e))]
      BY <3>1, LevelType
    <3> QED
      BY <1>3, <3>1, <3>2
  <2>3. \A n \in Nat : n \in P
    <3> HIDE DEF P
    <3> QED
      BY <2>1, <2>2, SetInduction
  <2> QED
    BY <2>3
<1>5. \A tok \in Token, n \in 0 .. N :
        m[n][tok] = IF ~Expansible(e, tok) THEN <<Itself(e, tok)>>
                    ELSE IF n = 0 THEN <<>> ELSE Together(Equiv(tok), m[n - 1])
  BY <1>3 DEF Level
<1>6. PICK rank \in [1 .. N -> 0 .. N - 1] :
        \A k, l \in 1 .. N :
            /\ Pattrs[e][l].equiv # <<>>
            /\ \E x \in 1 .. Len(Pattrs[e][k].equiv) : Pattrs[e][k].equiv[x].name = Pattrs[e][l].name
            => rank[l] < rank[k]
  BY NestingAssumption
<1> DEFINE Rank(tok) == rank[Designated(e, tok)]
<1>7. ASSUME NEW tok \in Token, Expansible(e, tok)
      PROVE  /\ N # 0 /\ Rank(tok) \in 0 .. N - 1
             /\ Equiv(tok) \in Seq(Token)
             /\ \A x \in 1 .. Len(Equiv(tok)) :
                   Equiv(tok)[x] \in Token /\ (Expansible(e, Equiv(tok)[x]) => Rank(Equiv(tok)[x]) < Rank(tok))
  <2>1. Designated(e, tok) \in 1 .. N /\ Equiv(tok) \in Seq(Token)
    BY <1>7, ExpansibleEntry
  <2>2. N # 0 /\ Rank(tok) \in 0 .. N - 1
    BY <1>1, <2>1
  <2>3. ASSUME NEW x \in 1 .. Len(Equiv(tok)), Expansible(e, Equiv(tok)[x])
        PROVE  Rank(Equiv(tok)[x]) < Rank(tok)
    <3>1. /\ Designated(e, Equiv(tok)[x]) \in 1 .. N
          /\ Pattrs[e][Designated(e, Equiv(tok)[x])].equiv # <<>>
          /\ Equiv(tok)[x].name = Pattrs[e][Designated(e, Equiv(tok)[x])].name
      BY <2>3, ExpansibleEntry
    <3> QED
      BY <1>6, <2>1, <3>1
  <2> HIDE DEF Rank
  <2>4. \A x \in 1 .. Len(Equiv(tok)) : Equiv(tok)[x] \in Token
    BY <2>1
  <2> QED
    BY <2>1, <2>2, <2>3, <2>4
<1> HIDE DEF Rank, N, Equiv
<1> DEFINE Low(tok, n) == Expansible(e, tok) => Rank(tok) < n
           Q(n) == \A tok \in Token : Low(tok, n) => m[n][tok] = m[n + 1][tok]
           P == {n \in Nat : n < N => Q(n)}
<1>8. 0 \in P
  <2> SUFFICES ASSUME 0 < N, NEW tok \in Token, Low(tok, 0) PROVE m[0][tok] = m[1][tok]
    OBVIOUS
  <2>1. 0 \in 0 .. N /\ 1 \in 0 .. N
    BY <1>1
  <2>2. ~Expansible(e, tok)
    BY <1>1, <1>7
  <2> QED
    BY <1>5, <2>1, <2>2
<1>9. \A n \in Nat : n \in P => n + 1 \in P
  <2> HIDE DEF Q
  <2> SUFFICES ASSUME NEW n \in Nat, n + 1 < N, Q(n) PROVE Q(n + 1)
    BY <1>1
  <2> USE DEF Q
  <2> SUFFICES ASSUME NEW tok \in Token, Low(tok, n + 1) PROVE m[n + 1][tok] = m[(n + 1) + 1][tok]
    OBVIOUS
  <2> DEFINE a == n + 1
             b == a + 1
  <2>1. a \in 0 .. N /\ b \in 0 .. N /\ a # 0 /\ b # 0 /\ a - 1 = n /\ b - 1 = a
    BY <1>1
  <2>2. CASE ~Expansible(e, tok)
    <3> HIDE DEF a, b
    <3>1. m[a][tok] = m[b][tok]
      BY <1>5, <2>1, <2>2
    <3> QED
      BY <3>1 DEF a, b
  <2>3. CASE Expansible(e, tok)
    <3>1. \A x \in 1 .. Len(Equiv(tok)) : Equiv(tok)[x] \in Token /\ Low(Equiv(tok)[x], n)
      <4>1. Rank(tok) < n + 1 /\ Rank(tok) \in 0 .. N - 1
        BY <1>7, <2>3
      <4>2. \A x \in 1 .. Len(Equiv(tok)) :
              Equiv(tok)[x] \in Token /\ (Expansible(e, Equiv(tok)[x]) => Rank(Equiv(tok)[x]) < Rank(tok))
        BY <1>7, <2>3
      <4>3. \A u \in Token : Expansible(e, u) => Rank(u) \in 0 .. N - 1
        BY <1>7
      <4> QED
        BY <1>1, <4>1, <4>2, <4>3
    <3>2. \A x \in 1 .. Len(Equiv(tok)) : m[n][Equiv(tok)[x]] = m[a][Equiv(tok)[x]]
      BY <3>1
    <3>3. Together(Equiv(tok), m[n]) = Together(Equiv(tok), m[a])
      <4> HIDE DEF a
      <4> QED
        BY <3>2, TogetherSame
    <3> HIDE DEF a, b
    <3>4. m[a][tok] = Together(Equiv(tok), m[n]) /\ m[b][tok] = Together(Equiv(tok), m[a])
      BY <1>5, <2>1, <2>3
    <3>5. m[a][tok] = m[b][tok]
      BY <3>3, <3>4
    <3> QED
      BY <3>5 DEF a, b
  <2> QED
    BY <2>2, <2>3
<1>10. \A n \in Nat : n \in P
  <2> HIDE DEF P
  <2> QED
    BY <1>8, <1>9, SetInduction
<1>11. ASSUME NEW tok \in Token, Expansible(e, tok)
       PROVE  m[N][tok] = Together(Equiv(tok), m[N])
  <2> DEFINE n == N - 1
  <2>1. n \in Nat /\ n < N /\ N \in 0 .. N /\ N # 0 /\ n + 1 = N
    BY <1>1, <1>7, <1>11
  <2>2. Q(n)
    BY <1>10, <2>1
  <2>3. \A x \in 1 .. Len(Equiv(tok)) : Equiv(tok)[x] \in Token /\ Low(Equiv(tok)[x], n)
    <3>1. Rank(tok) \in 0 .. N - 1
      BY <1>7, <1>11
    <3>2. \A x \in 1 .. Len(Equiv(tok)) :
            Equiv(tok)[x] \in Token /\ (Expansible(e, Equiv(tok)[x]) => Rank(Equiv(tok)[x]) < Rank(tok))
      BY <1>7, <1>11
    <3>3. \A u \in Token : Expansible(e, u) => Rank(u) \in 0 .. N - 1
      BY <1>7
    <3> QED
      BY <1>1, <3>1, <3>2, <3>3
  <2>4. m[N][tok] = Together(Equiv(tok), m[n])
    BY <1>5, <1>11, <2>1
  <2> HIDE DEF n
  <2>5. \A x \in 1 .. Len(Equiv(tok)) : m[n][Equiv(tok)[x]] = m[N][Equiv(tok)[x]]
    BY <2>1, <2>2, <2>3
  <2>6. Together(Equiv(tok), m[n]) = Together(Equiv(tok), m[N])
    BY <2>5, TogetherSame
  <2> QED
    BY <2>4, <2>6
<1>12. N \in 0 .. N
  BY <1>1
<1>13. \A tok \in Token : ~Expansible(e, tok) => m[N][tok] = <<Itself(e, tok)>>
  BY <1>5, <1>12
<1> QED
  BY <1>2, <1>4, <1>11, <1>12, <1>13 DEF Equiv

(***************************************************************************)
(* What is left of a list after some repetitions were removed: t is a part *)
(* of s, in order, that has everything in s no later than s has it.        *)
(***************************************************************************)
Embeds(t, s, f) ==
    /\ f \in [1 .. Len(t) -> 1 .. Len(s)]
    /\ \A k, l \in 1 .. Len(t) : k < l => f[k] < f[l]
    /\ \A k \in 1 .. Len(t) : t[k] = s[f[k]]
    /\ \A n \in 1 .. Len(s) : \E k \in 1 .. Len(t) : f[k] <= n /\ t[k] = s[n]

Reduced(t, s) == \E f : Embeds(t, s, f)

Distinct(t) == \A k, l \in 1 .. Len(t) : k < l => t[k].id # t[l].id

LEMMA ReducedNone == Reduced(<<>>, <<>>)
<1>1. Embeds(<<>>, <<>>, <<>>)
  BY DEF Embeds
<1> QED
  BY <1>1 DEF Reduced

LEMMA ReducedAppend ==
    ASSUME NEW A, NEW t \in Seq(A), NEW B, NEW s \in Seq(B), NEW a, a \in A, a \in B, Reduced(t, s)
    PROVE  Reduced(Append(t, a), Append(s, a))
<1> DEFINE n == Len(t)
           m == Len(s)
           u == Append(t, a)
           v == Append(s, a)
<1>1. /\ n \in Nat /\ Len(u) = n + 1 /\ u[n + 1] = a /\ \A k \in 1 .. n : u[k] = t[k]
      /\ m \in Nat /\ Len(v) = m + 1 /\ v[m + 1] = a /\ \A k \in 1 .. m : v[k] = s[k]
  OBVIOUS
<1>2. PICK f : Embeds(t, s, f)
  BY DEF Reduced
<1>3. /\ f \in [1 .. n -> 1 .. m]
      /\ \A k, l \in 1 .. n : k < l => f[k] < f[l]
      /\ \A k \in 1 .. n : t[k] = s[f[k]]
      /\ \A x \in 1 .. m : \E k \in 1 .. n : f[k] <= x /\ t[k] = s[x]
  BY <1>2 DEF Embeds
<1> DEFINE g == [k \in 1 .. n + 1 |-> IF k = n + 1 THEN m + 1 ELSE f[k]]
<1> HIDE DEF n, m, u, v
<1>4. /\ g \in [1 .. n + 1 -> 1 .. m + 1] /\ g[n + 1] = m + 1
      /\ \A k \in 1 .. n : g[k] = f[k] /\ f[k] \in 1 .. m
  <2>1. n + 1 \in 1 .. n + 1 /\ m + 1 \in 1 .. m + 1 /\ \A k \in 1 .. n : k # n + 1 /\ k \in 1 .. n + 1
    BY <1>1
  <2>2. \A k \in 1 .. n + 1 : k # n + 1 => k \in 1 .. n
    BY <1>1
  <2>3. \A k \in 1 .. n : f[k] \in 1 .. m /\ f[k] \in 1 .. m + 1
    BY <1>1, <1>3
  <2> QED
    BY <2>1, <2>2, <2>3
<1> HIDE DEF g
<1>5. \A k \in 1 .. n + 1 : k = n + 1 \/ k \in 1 .. n
  BY <1>1
<1>6. ASSUME NEW k \in 1 .. n + 1, NEW l \in 1 .. n + 1, k < l PROVE g[k] < g[l]
  <2>1. k \in 1 .. n
    BY <1>1, <1>6
  <2>2. CASE l = n + 1
    BY <1>1, <1>4, <2>1, <2>2
  <2>3. CASE l \in 1 .. n
    BY <1>3, <1>4, <1>6, <2>1, <2>3
  <2> QED
    BY <1>5, <2>2, <2>3
<1>7. ASSUME NEW k \in 1 .. n + 1 PROVE u[k] = v[g[k]]
  <2>1. CASE k = n + 1
    BY <1>1, <1>4, <2>1
  <2>2. CASE k \in 1 .. n
    <3>1. u[k] = t[k] /\ g[k] = f[k] /\ f[k] \in 1 .. m
      BY <1>1, <1>4, <2>2
    <3>2. v[f[k]] = s[f[k]] /\ t[k] = s[f[k]]
      BY <1>1, <1>3, <2>2, <3>1
    <3> QED
      BY <3>1, <3>2
  <2> QED
    BY <1>5, <2>1, <2>2
<1>8. ASSUME NEW x \in 1 .. m + 1 PROVE \E k \in 1 .. n + 1 : g[k] <= x /\ u[k] = v[x]
  <2>1. CASE x = m + 1
    <3>1. n + 1 \in 1 .. n + 1 /\ g[n + 1] <= x /\ u[n + 1] = v[x]
      BY <1>1, <1>4, <2>1
    <3> QED
      BY <3>1
  <2>2. CASE x \in 1 .. m
    <3>1. PICK k \in 1 .. n : f[k] <= x /\ t[k] = s[x]
      BY <1>3, <2>2
    <3>2. k \in 1 .. n + 1 /\ g[k] <= x /\ u[k] = v[x]
      BY <1>1, <1>4, <2>2, <3>1
    <3> QED
      BY <3>2
  <2> QED
    BY <1>1, <2>1, <2>2
<1>9. Embeds(u, v, g)
  BY <1>1, <1>4, <1>6, <1>7, <1>8 DEF Embeds
<1> QED
  BY <1>9 DEF Reduced, u, v

\* pfmlib_compact_attrs
Without(t, y) == SubSeq(t, 1, y - 1) \o SubSeq(t, y + 1, Len(t))

LEMMA WithoutElements ==
    ASSUME NEW A, NEW t \in Seq(A), NEW y \in 1 .. Len(t)
    PROVE  /\ Len(t) - 1 \in Nat
           /\ Len(Without(t, y)) = Len(t) - 1
           /\ \A k \in 1 .. Len(t) - 1 : Without(t, y)[k] = IF k < y THEN t[k] ELSE t[k + 1]
<1> DEFINE n == Len(t)
           a == SubSeq(t, 1, y - 1)
           b == SubSeq(t, y + 1, n)
<1>1. n \in Nat /\ y \in 1 .. n /\ \A k \in 1 .. n : t[k] \in A
  OBVIOUS
<1> HIDE DEF n
<1>2. a \in Seq(A) /\ Len(a) = y - 1 /\ \A k \in 1 .. y - 1 : a[k] = t[k]
  <2>1. 1 \in Int /\ y - 1 \in Int /\ y - 1 >= 0 /\ \A k \in 1 .. y - 1 : t[k] \in A
    BY <1>1
  <2>2. a \in Seq(A) /\ Len(a) = y - 1 /\ \A k \in 1 .. y - 1 : a[k] = t[1 + k - 1]
    BY <2>1, SubSeqProperties
  <2> QED
    BY <1>1, <2>2
<1>3. b \in Seq(A) /\ Len(b) = n - y /\ \A k \in 1 .. n - y : b[k] = t[y + k]
  <2>1. y + 1 \in Int /\ n \in Int /\ \A k \in y + 1 .. n : t[k] \in A
    BY <1>1
  <2>2. /\ b \in Seq(A)
        /\ Len(b) = IF y + 1 <= n THEN n - (y + 1) + 1 ELSE 0
        /\ \A k \in 1 .. n - (y + 1) + 1 : b[k] = t[y + 1 + k - 1]
    BY <2>1, SubSeqProperties
  <2> QED
    BY <1>1, <2>2
<1>4. Without(t, y) = a \o b
  BY DEF Without, n
<1> HIDE DEF a, b
<1>5. /\ Len(a \o b) = Len(a) + Len(b)
      /\ \A k \in 1 .. Len(a) + Len(b) : (a \o b)[k] = IF k <= Len(a) THEN a[k] ELSE b[k - Len(a)]
  BY <1>2, <1>3, ConcatProperties
<1>6. ASSUME NEW k \in 1 .. n - 1 PROVE (a \o b)[k] = IF k < y THEN t[k] ELSE t[k + 1]
  <2>1. (a \o b)[k] = IF k <= y - 1 THEN a[k] ELSE b[k - (y - 1)]
    BY <1>1, <1>2, <1>3, <1>5
  <2>2. CASE k < y
    BY <1>1, <1>2, <2>1, <2>2
  <2>3. CASE ~(k < y)
    <3>1. k - (y - 1) \in 1 .. n - y /\ y + (k - (y - 1)) = k + 1
      BY <1>1, <2>3
    <3> QED
      BY <1>1, <1>3, <2>1, <2>3, <3>1
  <2> QED
    BY <2>2, <2>3
<1>7. n - 1 \in Nat /\ Len(a \o b) = n - 1
  BY <1>1, <1>2, <1>3, <1>5
<1> QED
  BY <1>4, <1>6, <1>7 DEF n

LEMMA ReducedWithout ==
    ASSUME NEW A, NEW t \in Seq(A), NEW s, Reduced(t, s), Len(s) \in Nat,
           NEW x \in 1 .. Len(t), NEW y \in 1 .. Len(t), x < y, t[x] = t[y]
    PROVE  Reduced(Without(t, y), s)
<1> DEFINE n == Len(t) - 1
           m == Len(s)
           u == Without(t, y)
<1>1. /\ n \in Nat /\ Len(u) = n /\ \A k \in 1 .. n : u[k] = IF k < y THEN t[k] ELSE t[k + 1]
      /\ Len(t) = n + 1 /\ m \in Nat
  BY WithoutElements
<1> HIDE DEF u
<1>2. PICK f : Embeds(t, s, f)
  BY DEF Reduced
<1>3. /\ f \in [1 .. n + 1 -> 1 .. m]
      /\ \A k, l \in 1 .. n + 1 : k < l => f[k] < f[l]
      /\ \A k \in 1 .. n + 1 : t[k] = s[f[k]]
      /\ \A z \in 1 .. m : \E k \in 1 .. n + 1 : f[k] <= z /\ t[k] = s[z]
  BY <1>1, <1>2 DEF Embeds
<1> HIDE DEF n, m
<1> DEFINE old(k) == IF k < y THEN k ELSE k + 1
           g == [k \in 1 .. n |-> f[old(k)]]
<1>4. x \in 1 .. n + 1 /\ y \in 1 .. n + 1
  BY <1>1
<1>5. \A k \in 1 .. n : old(k) \in 1 .. n + 1 /\ u[k] = t[old(k)]
  BY <1>1, <1>4
<1>6. \A k, l \in 1 .. n : k < l => old(k) < old(l)
  BY <1>1, <1>4
<1>7. \A k \in 1 .. n + 1 : k # y => \E l \in 1 .. n : old(l) = k
  <2> SUFFICES ASSUME NEW k \in 1 .. n + 1, k # y PROVE \E l \in 1 .. n : old(l) = k
    OBVIOUS
  <2>1. CASE k < y
    <3>1. k \in 1 .. n /\ old(k) = k
      BY <1>1, <1>4, <2>1
    <3> QED
      BY <3>1
  <2>2. CASE k > y
    <3>1. k - 1 \in 1 .. n /\ old(k - 1) = k
      BY <1>1, <1>4, <2>2
    <3> QED
      BY <3>1
  <2> QED
    BY <1>4, <2>1, <2>2
<1> HIDE DEF old
<1>8. g \in [1 .. n -> 1 .. m] /\ \A k \in 1 .. n : g[k] = f[old(k)]
  BY <1>3, <1>5
<1> HIDE DEF g
<1>9. \A k, l \in 1 .. n : k < l => g[k] < g[l]
  BY <1>3, <1>5, <1>6, <1>8
<1>10. \A k \in 1 .. n : u[k] = s[g[k]]
  BY <1>3, <1>5, <1>8
<1>11. ASSUME NEW z \in 1 .. m PROVE \E k \in 1 .. n : g[k] <= z /\ u[k] = s[z]
  <2>1. PICK k \in 1 .. n + 1 : k # y /\ f[k] <= z /\ t[k] = s[z]
    <3>1. PICK k \in 1 .. n + 1 : f[k] <= z /\ t[k] = s[z]
      BY <1>3
    <3>2. CASE k # y
      BY <3>1, <3>2
    <3>3. CASE k = y
      <4>1. f[x] < f[y] /\ f[x] \in 1 .. m /\ f[y] \in 1 .. m /\ x # y
        BY <1>3, <1>4
      <4>2. f[x] <= z /\ t[x] = s[z]
        BY <1>1, <3>1, <3>3, <4>1
      <4> QED
        BY <1>4, <4>1, <4>2
    <3> QED
      BY <3>2, <3>3
  <2>2. PICK l \in 1 .. n : old(l) = k
    BY <1>7, <2>1
  <2> QED
    BY <1>5, <1>8, <2>1, <2>2
<1>12. Embeds(u, s, g)
  BY <1>1, <1>8, <1>9, <1>10, <1>11 DEF Embeds, m
<1> QED
  BY <1>12 DEF Reduced, u

LEMMA ReducedTwice ==
    ASSUME NEW t, NEW s, Reduced(t, s), AtMostTwice(s), Len(t) \in Nat, Len(s) \in Nat
    PROVE  AtMostTwice(t)
<1>1. PICK f : Embeds(t, s, f)
  BY DEF Reduced
<1> SUFFICES ASSUME NEW k \in 1 .. Len(t), NEW l \in 1 .. Len(t), NEW m \in 1 .. Len(t), k < l, l < m,
                    t[k].id = t[l].id, t[l].id = t[m].id
             PROVE  FALSE
  BY DEF AtMostTwice
<1>2. f[k] \in 1 .. Len(s) /\ f[l] \in 1 .. Len(s) /\ f[m] \in 1 .. Len(s) /\ f[k] < f[l] /\ f[l] < f[m]
  BY <1>1 DEF Embeds
<1>3. t[k] = s[f[k]] /\ t[l] = s[f[l]] /\ t[m] = s[f[m]]
  BY <1>1 DEF Embeds
<1> QED
  BY <1>2, <1>3 DEF AtMostTwice

\* Nothing is repeated: each attribute is where it is given first, and is
\* given with one value.
LEMMA ReducedFirst ==
    ASSUME NEW t, NEW s, Reduced(t, s), Distinct(t), Len(t) \in Nat, Len(s) \in Nat
    PROVE  /\ FirstOnly(t, s)
           /\ \A k, l \in 1 .. Len(s) : s[k].id = s[l].id => s[k] = s[l]
<1>1. PICK f : Embeds(t, s, f)
  BY DEF Reduced
<1>2. /\ f \in [1 .. Len(t) -> 1 .. Len(s)]
      /\ \A k, l \in 1 .. Len(t) : k < l => f[k] < f[l]
      /\ \A k \in 1 .. Len(t) : t[k] = s[f[k]]
      /\ \A n \in 1 .. Len(s) : \E k \in 1 .. Len(t) : f[k] <= n /\ t[k] = s[n]
  BY <1>1 DEF Embeds
<1>3. \A k, l \in 1 .. Len(t) : t[k].id = t[l].id => k = l
  BY DEF Distinct
<1>4. ASSUME NEW k \in 1 .. Len(t) PROVE f[k] \in Firsts(s)
  <2> SUFFICES ASSUME NEW l \in 1 .. f[k] - 1, s[l].id = s[f[k]].id PROVE FALSE
    BY <1>2 DEF Firsts
  <2>1. f[k] \in 1 .. Len(s) /\ l \in 1 .. Len(s) /\ l < f[k]
    BY <1>2
  <2>2. PICK x \in 1 .. Len(t) : f[x] <= l /\ t[x] = s[l]
    BY <1>2, <2>1
  <2>3. t[x].id = t[k].id
    BY <1>2, <2>2
  <2>4. x = k
    BY <1>3, <2>3
  <2> QED
    BY <2>1, <2>2, <2>4
<1>5. ASSUME NEW n \in Firsts(s) PROVE \E k \in 1 .. Len(t) : f[k] = n
  <2>1. n \in 1 .. Len(s) /\ \A l \in 1 .. n - 1 : s[l].id # s[n].id
    BY DEF Firsts
  <2>2. PICK k \in 1 .. Len(t) : f[k] <= n /\ t[k] = s[n]
    BY <1>2, <2>1
  <2>3. f[k] \in 1 .. Len(s) /\ s[f[k]].id = s[n].id
    BY <1>2, <2>2
  <2>4. f[k] = n
    BY <2>1, <2>2, <2>3
  <2> QED
    BY <2>4
<1>6. f \in [1 .. Len(t) -> Firsts(s)]
  BY <1>2, <1>4
<1>7. FirstOnly(t, s)
  BY <1>2, <1>5, <1>6 DEF FirstOnly
<1>8. ASSUME NEW k \in 1 .. Len(s), NEW l \in 1 .. Len(s), s[k].id = s[l].id PROVE s[k] = s[l]
  <2>1. PICK x \in 1 .. Len(t) : t[x] = s[k]
    BY <1>2
  <2>2. PICK y \in 1 .. Len(t) : t[y] = s[l]
    BY <1>2
  <2>3. x = y
    BY <1>3, <1>8, <2>1, <2>2
  <2> QED
    BY <2>1, <2>2, <2>3
<1> QED
  BY <1>7, <1>8

(***************************************************************************)
(* What is parsed and what is left.  left has what the strings of the      *)
(* activations up to each depth stand for, the innermost first: it is the  *)
(* rest of what src stands for, behind what the attributes as were made of.*)
(***************************************************************************)
Chain(fs, e, left) ==
    /\ left \in [0 .. Len(fs) -> Seq(Atoms(e))]
    /\ left[0] = <<>>
    /\ \A k \in 1 .. Len(fs) : left[k] = Together(fs[k].rest, Meaning(e)) \o left[k - 1]

Divided(src, fs, as, e, all, left) ==
    /\ all \in Seq(Atoms(e))
    /\ Chain(fs, e, left)
    /\ Together(src, Meaning(e)) = all \o left[Len(fs)]
    /\ Reduced(as, all)

Parsed(src, fs, as, e) == \E all, left : Divided(src, fs, as, e, all, left)

LEMMA EmptyUnit == ASSUME NEW S, NEW s \in Seq(S) PROVE s \o <<>> = s /\ <<>> \o s = s
  OBVIOUS

LEMMA Associative ==
    ASSUME NEW S, NEW a \in Seq(S), NEW b \in Seq(S), NEW c \in Seq(S)
    PROVE  (a \o b) \o c = a \o (b \o c)
  OBVIOUS

LEMMA MeantType ==
    ASSUME NEW e \in Events, NEW toks \in Seq(Token)
    PROVE  Together(toks, Meaning(e)) \in Seq(Atoms(e))
  BY MeaningIs, TogetherType, Zenon

\* without activations everything is parsed
LEMMA ParsedAll ==
    ASSUME NEW e \in Events, NEW src \in Seq(Token), NEW as
    PROVE  Parsed(src, <<>>, as, e) <=> Reduced(as, Together(src, Meaning(e)))
<1> DEFINE m == Together(src, Meaning(e))
<1>1. m \in Seq(Atoms(e))
  BY MeantType
<1> HIDE DEF m
<1>2. Len(<<>>) = 0
  OBVIOUS
<1>3. ASSUME Parsed(src, <<>>, as, e) PROVE Reduced(as, m)
  <2>1. PICK all, left : Divided(src, <<>>, as, e, all, left)
    BY <1>3 DEF Parsed
  <2>2. all \in Seq(Atoms(e)) /\ left[0] = <<>> /\ m = all \o left[0] /\ Reduced(as, all)
    BY <1>2, <2>1 DEF Divided, Chain, m
  <2>3. m = all
    BY <2>2, EmptyUnit
  <2> QED
    BY <2>2, <2>3
<1>4. ASSUME Reduced(as, m) PROVE Parsed(src, <<>>, as, e)
  <2> DEFINE left == [k \in 0 .. 0 |-> <<>>]
  <2>1. left \in [0 .. 0 -> Seq(Atoms(e))] /\ left[0] = <<>> /\ m \o left[0] = m
    BY <1>1, EmptyUnit
  <2> HIDE DEF left
  <2>2. Chain(<<>>, e, left)
    BY <1>2, <2>1 DEF Chain
  <2>3. Divided(src, <<>>, as, e, m, left)
    BY <1>1, <1>2, <1>4, <2>1, <2>2 DEF Divided, m
  <2> QED
    BY <2>3 DEF Parsed
<1> QED
  BY <1>3, <1>4 DEF m

\* the activation that parses a string from its start
LEMMA ParsedStart ==
    ASSUME NEW e \in Events, NEW src, NEW toks \in Seq(Token), NEW as, NEW all \in Seq(Atoms(e)),
           Together(src, Meaning(e)) = all \o Together(toks, Meaning(e)), Reduced(as, all)
    PROVE  Parsed(src, <<Activation(toks)>>, as, e)
<1> DEFINE m == Together(toks, Meaning(e))
           fs == <<Activation(toks)>>
           left == [k \in 0 .. 1 |-> IF k = 0 THEN <<>> ELSE m]
<1>1. m \in Seq(Atoms(e))
  BY MeantType
<1>2. Len(fs) = 1 /\ fs[1].rest = toks
  BY DEF Activation
<1>3. Together(fs[1].rest, Meaning(e)) = m
  BY <1>2
<1> HIDE DEF m, fs
<1>4. left \in [0 .. 1 -> Seq(Atoms(e))] /\ left[0] = <<>> /\ left[1] = m
  BY <1>1
<1> HIDE DEF left
<1>5. m \o left[0] = m
  BY <1>1, <1>4, EmptyUnit
<1>6. \A k \in 1 .. Len(fs) : left[k] = Together(fs[k].rest, Meaning(e)) \o left[k - 1]
  BY <1>2, <1>3, <1>4, <1>5
<1>7. Chain(fs, e, left)
  BY <1>2, <1>4, <1>6 DEF Chain
<1>8. Divided(src, fs, as, e, all, left)
  BY <1>2, <1>4, <1>7 DEF Divided, m
<1> QED
  BY <1>8 DEF Parsed, fs

\* the attribute read next is the next one of what is left
Upcoming(src, fs, as, e, tok, all, left) ==
    /\ all \in Seq(Atoms(e))
    /\ Chain(fs, e, left)
    /\ Together(src, Meaning(e)) = all \o (Meaning(e)[tok] \o left[Len(fs)])
    /\ Reduced(as, all)

\* from the string of the user
LEMMA NextOfUser ==
    ASSUME NEW e \in Events, NEW src \in Seq(Token), NEW fs \in Seq(Frame), Len(fs) = 1, fs[1].rest = <<>>,
           NEW as, Parsed(src, fs, as, e), NEW tok \in Token, NEW g, g.rest = <<>>
    PROVE  \E all, left : Upcoming(Append(src, tok), [fs EXCEPT ![1] = g], as, e, tok, all, left)
<1>1. PICK all, left : Divided(src, fs, as, e, all, left)
  BY DEF Parsed
<1> DEFINE gs == [fs EXCEPT ![1] = g]
           m == Meaning(e)
<1>2. Len(gs) = 1 /\ gs[1].rest = <<>>
  OBVIOUS
<1>3. /\ all \in Seq(Atoms(e)) /\ left \in [0 .. 1 -> Seq(Atoms(e))] /\ left[0] = <<>>
      /\ left[1] = Together(<<>>, m) \o left[0]
      /\ Together(src, m) = all \o left[1] /\ Reduced(as, all)
  <2>1. Chain(fs, e, left) /\ all \in Seq(Atoms(e)) /\ Together(src, m) = all \o left[1] /\ Reduced(as, all)
    BY <1>1 DEF Divided
  <2>2. left \in [0 .. 1 -> Seq(Atoms(e))] /\ left[0] = <<>>
    BY <2>1 DEF Chain
  <2>3. \A k \in 1 .. 1 : left[k] = Together(fs[k].rest, m) \o left[k - 1]
    BY <2>1 DEF Chain
  <2>4. left[1] = Together(fs[1].rest, m) \o left[1 - 1]
    <3>1. 1 \in 1 .. 1
      OBVIOUS
    <3> HIDE DEF m
    <3> QED
      BY <2>3, <3>1
  <2>5. 1 - 1 = 0
    OBVIOUS
  <2> HIDE DEF m
  <2> QED
    BY <2>1, <2>2, <2>4, <2>5
<1>4. Together(<<>>, m) = <<>> /\ left[1] = <<>> /\ Together(src, m) = all
  <2>1. Together(<<>>, m) = <<>>
    BY TogetherNone
  <2>2. left[1] = <<>>
    BY <1>3, <2>1
  <2> QED
    BY <1>3, <2>1, <2>2, EmptyUnit
<1>5. m \in [Token -> Seq(Atoms(e))]
  BY MeaningIs
<1> HIDE DEF m
<1>6. Together(Append(src, tok), m) = Together(src, m) \o m[tok]
  BY <1>5, TogetherAppend, Zenon
<1>7. m[tok] \o left[1] = m[tok]
  BY <1>4, <1>5, EmptyUnit
<1> HIDE DEF gs
<1>8. Chain(gs, e, left)
  <2>1. left[1] = Together(gs[1].rest, m) \o left[0]
    BY <1>2, <1>3
  <2> QED
    BY <1>2, <1>3, <2>1 DEF Chain, m
<1>9. Upcoming(Append(src, tok), gs, as, e, tok, all, left)
  BY <1>2, <1>3, <1>4, <1>6, <1>7, <1>8 DEF Upcoming, m
<1> QED
  BY <1>9 DEF gs

\* from the rest of the innermost string
LEMMA NextOfRest ==
    ASSUME NEW e \in Events, NEW src, NEW fs \in Seq(Frame), NEW d \in Nat \ {0}, Len(fs) = d,
           fs[d].rest # <<>>, NEW as, Parsed(src, fs, as, e),
           NEW tok, tok = Head(fs[d].rest), NEW g, g.rest = Tail(fs[d].rest)
    PROVE  \E all, left : Upcoming(src, [fs EXCEPT ![d] = g], as, e, tok, all, left)
<1>1. PICK all, left : Divided(src, fs, as, e, all, left)
  BY DEF Parsed
<1> DEFINE gs == [fs EXCEPT ![d] = g]
           m == Meaning(e)
           r == fs[d].rest
           t == Together(Tail(r), m)
           x == left[d - 1]
           right == [left EXCEPT ![d] = t \o x]
<1>2. Len(gs) = d /\ gs[d].rest = Tail(r) /\ \A k \in 1 .. d : k # d => gs[k] = fs[k]
  OBVIOUS
<1>3. r \in Seq(Token) /\ r # <<>> /\ tok = Head(r) /\ tok \in Token /\ Tail(r) \in Seq(Token)
  <2>1. fs[d] \in Frame
    OBVIOUS
  <2>2. r \in Seq(Token)
    BY <2>1 DEF Frame
  <2> QED
    BY <2>2
<1>4. /\ all \in Seq(Atoms(e)) /\ left \in [0 .. d -> Seq(Atoms(e))] /\ left[0] = <<>>
      /\ \A k \in 1 .. d : left[k] = Together(fs[k].rest, m) \o left[k - 1]
      /\ Together(src, m) = all \o left[d] /\ Reduced(as, all)
  BY <1>1 DEF Divided, Chain
<1>5. m \in [Token -> Seq(Atoms(e))]
  BY MeaningIs
<1> HIDE DEF m, r, gs
<1>6. Together(r, m) = m[tok] \o t
  BY <1>3, <1>5, TogetherHead, Zenon
<1>7. t \in Seq(Atoms(e)) /\ m[tok] \in Seq(Atoms(e)) /\ x \in Seq(Atoms(e)) /\ t \o x \in Seq(Atoms(e))
  <2>1. t \in Seq(Atoms(e))
    BY <1>3, <1>5, TogetherType, Zenon
  <2>2. m[tok] \in Seq(Atoms(e))
    BY <1>3, <1>5
  <2>3. d - 1 \in 0 .. d
    OBVIOUS
  <2>4. x \in Seq(Atoms(e))
    BY <1>4, <2>3
  <2> HIDE DEF t, x
  <2> QED
    BY <2>1, <2>2, <2>4
<1>8. left[d] = (m[tok] \o t) \o x
  <2>1. d \in 1 .. d
    OBVIOUS
  <2>2. left[d] = Together(r, m) \o x
    BY <1>4, <2>1 DEF r
  <2> QED
    BY <1>6, <2>2
<1> HIDE DEF t, x
<1>9. left[d] = m[tok] \o (t \o x)
  <2>1. \A u, v, w \in Seq(Atoms(e)) : (u \o v) \o w = u \o (v \o w)
    OBVIOUS
  <2> QED
    BY <1>7, <1>8, <2>1
<1>10. /\ right \in [0 .. d -> Seq(Atoms(e))] /\ right[d] = t \o x /\ right[0] = <<>>
       /\ \A k \in 0 .. d : k # d => right[k] = left[k]
  BY <1>4, <1>7
<1> HIDE DEF right
<1>11. ASSUME NEW k \in 1 .. d PROVE right[k] = Together(gs[k].rest, m) \o right[k - 1]
  <2>1. k - 1 \in 0 .. d /\ k - 1 # d /\ k \in 0 .. d
    OBVIOUS
  <2>2. right[k - 1] = left[k - 1]
    BY <1>10, <2>1
  <2>3. CASE k = d
    <3>1. right[k - 1] = x
      BY <2>2, <2>3 DEF x
    <3>2. Together(gs[k].rest, m) = t
      BY <1>2, <2>3 DEF t
    <3> QED
      BY <1>10, <2>3, <3>1, <3>2
  <2>4. CASE k # d
    <3>1. right[k] = left[k] /\ gs[k] = fs[k]
      BY <1>2, <1>10, <2>1, <2>4
    <3> QED
      BY <1>4, <2>2, <3>1
  <2> QED
    BY <2>3, <2>4
<1>12. Chain(gs, e, right)
  BY <1>2, <1>10, <1>11 DEF Chain, m
<1>13. Upcoming(src, gs, as, e, tok, all, right)
  BY <1>2, <1>4, <1>9, <1>10, <1>12 DEF Upcoming, m
<1> QED
  BY <1>13 DEF gs

\* it is an attribute of the event
LEMMA ParsedStore ==
    ASSUME NEW e \in Events, NEW src, NEW fs, NEW as \in Seq(Attr), NEW tok \in Token, ~Expansible(e, tok),
           NEW all, NEW left, Upcoming(src, fs, as, e, tok, all, left), Len(fs) \in Nat,
           Itself(e, tok) \in Attr
    PROVE  Parsed(src, fs, Append(as, Itself(e, tok)), e)
<1> DEFINE a == Itself(e, tok)
           x == left[Len(fs)]
           next == Append(all, a)
<1>1. /\ all \in Seq(Atoms(e)) /\ Chain(fs, e, left) /\ Reduced(as, all)
      /\ Together(src, Meaning(e)) = all \o (Meaning(e)[tok] \o x)
  BY DEF Upcoming
<1>2. Meaning(e)[tok] = <<a>>
  BY MeaningIs
<1>3. a \in Atoms(e) /\ a \in Attr
  BY DEF Atoms
<1> HIDE DEF a
<1>4. x \in Seq(Atoms(e))
  <2>1. Len(fs) \in 0 .. Len(fs)
    OBVIOUS
  <2> QED
    BY <1>1, <2>1 DEF Chain
<1> HIDE DEF x
<1>5. next \in Seq(Atoms(e)) /\ next = all \o <<a>> /\ <<a>> \in Seq(Atoms(e))
  BY <1>1, <1>3
<1>6. Reduced(Append(as, a), next)
  BY <1>1, <1>3, ReducedAppend
<1> HIDE DEF next
<1>7. next \o x = all \o (<<a>> \o x)
  BY <1>1, <1>4, <1>5, Associative
<1>8. Divided(src, fs, Append(as, a), e, next, left)
  BY <1>1, <1>2, <1>5, <1>6, <1>7 DEF Divided, x
<1> QED
  BY <1>8 DEF Parsed, a

\* it is expanded
LEMMA ParsedExpand ==
    ASSUME NEW e \in Events, NEW src, NEW fs \in Seq(Frame), NEW as, NEW tok \in Token, Expansible(e, tok),
           NEW all, NEW left, Upcoming(src, fs, as, e, tok, all, left)
    PROVE  Parsed(src, Append(fs, Activation(Pattrs[e][Designated(e, tok)].equiv)), as, e)
<1> DEFINE toks == Pattrs[e][Designated(e, tok)].equiv
           gs == Append(fs, Activation(toks))
           d == Len(fs)
           m == Together(toks, Meaning(e))
           x == left[d]
           right == [k \in 0 .. d + 1 |-> IF k = d + 1 THEN m \o x ELSE left[k]]
<1>1. /\ all \in Seq(Atoms(e)) /\ Chain(fs, e, left) /\ Reduced(as, all)
      /\ Together(src, Meaning(e)) = all \o (Meaning(e)[tok] \o x)
  BY DEF Upcoming
<1>2. Meaning(e)[tok] = m
  BY MeaningIs
<1>3. toks \in Seq(Token)
  BY ExpansibleEntry
<1>4. m \in Seq(Atoms(e))
  BY <1>3, MeantType
<1> HIDE DEF toks
<1>5. /\ d \in Nat /\ Len(gs) = d + 1 /\ gs[d + 1].rest = toks /\ \A k \in 1 .. d : gs[k] = fs[k]
  BY DEF Activation
<1> HIDE DEF m, gs, d
<1>6. /\ left \in [0 .. d -> Seq(Atoms(e))] /\ left[0] = <<>>
      /\ \A k \in 1 .. d : left[k] = Together(fs[k].rest, Meaning(e)) \o left[k - 1]
  BY <1>1 DEF Chain, d
<1>7. x \in Seq(Atoms(e))
  BY <1>5, <1>6
<1> HIDE DEF x
<1>8. m \o x \in Seq(Atoms(e))
  BY <1>4, <1>7
<1>9. /\ right \in [0 .. d + 1 -> Seq(Atoms(e))] /\ right[d + 1] = m \o x /\ right[0] = <<>>
      /\ \A k \in 0 .. d : right[k] = left[k]
  <2>1. d + 1 \in 0 .. d + 1 /\ \A k \in 0 .. d + 1 : k # d + 1 => k \in 0 .. d
    BY <1>5
  <2>2. \A k \in 0 .. d : k \in 0 .. d + 1 /\ k # d + 1
    BY <1>5
  <2>3. 0 \in 0 .. d
    BY <1>5
  <2> QED
    BY <1>6, <1>8, <2>1, <2>2, <2>3
<1> HIDE DEF right
<1>10. ASSUME NEW k \in 1 .. d + 1 PROVE right[k] = Together(gs[k].rest, Meaning(e)) \o right[k - 1]
  <2>1. k - 1 \in 0 .. d
    BY <1>5
  <2>2. right[k - 1] = left[k - 1]
    BY <1>9, <2>1
  <2>3. CASE k = d + 1
    <3>1. k - 1 = d
      BY <1>5, <2>3
    <3>2. right[k - 1] = x
      BY <2>2, <3>1 DEF x
    <3>3. Together(gs[k].rest, Meaning(e)) = m
      BY <1>5, <2>3 DEF m
    <3> QED
      BY <1>9, <2>3, <3>2, <3>3
  <2>4. CASE k # d + 1
    <3>1. k \in 1 .. d /\ k \in 0 .. d
      BY <1>5, <2>4
    <3>2. right[k] = left[k] /\ gs[k] = fs[k]
      BY <1>5, <1>9, <3>1
    <3> QED
      BY <1>6, <2>2, <3>1, <3>2
  <2> QED
    BY <2>3, <2>4
<1>11. Chain(gs, e, right)
  BY <1>5, <1>9, <1>10 DEF Chain
<1>12. Divided(src, gs, as, e, all, right)
  BY <1>1, <1>2, <1>5, <1>9, <1>11 DEF Divided
<1> QED
  BY <1>12 DEF Parsed, gs, toks

\* the innermost activation is at its end
LEMMA ParsedReturn ==
    ASSUME NEW e \in Events, NEW src, NEW fs \in Seq(Frame), NEW d \in Nat \ {0}, Len(fs) = d,
           fs[d].rest = <<>>, NEW as, Parsed(src, fs, as, e)
    PROVE  Parsed(src, SubSeq(fs, 1, d - 1), as, e)
<1>1. PICK all, left : Divided(src, fs, as, e, all, left)
  BY DEF Parsed
<1> DEFINE gs == SubSeq(fs, 1, d - 1)
           n == d - 1
           right == [k \in 0 .. n |-> left[k]]
<1>2. n \in Nat /\ d = n + 1
  OBVIOUS
<1>3. Len(gs) = n /\ \A k \in 1 .. n : gs[k] = fs[k]
  <2>1. 1 \in Int /\ d - 1 \in Int /\ d - 1 >= 0 /\ \A k \in 1 .. d - 1 : fs[k] \in Frame
    OBVIOUS
  <2>2. Len(gs) = d - 1 /\ \A k \in 1 .. d - 1 : gs[k] = fs[1 + k - 1]
    BY <2>1, SubSeqProperties
  <2>3. \A k \in 1 .. d - 1 : 1 + k - 1 = k
    OBVIOUS
  <2> QED
    BY <2>2, <2>3
<1> HIDE DEF gs, n
<1>4. /\ all \in Seq(Atoms(e)) /\ left \in [0 .. d -> Seq(Atoms(e))] /\ left[0] = <<>>
      /\ \A k \in 1 .. d : left[k] = Together(fs[k].rest, Meaning(e)) \o left[k - 1]
      /\ Together(src, Meaning(e)) = all \o left[d] /\ Reduced(as, all)
  BY <1>1 DEF Divided, Chain
<1>5. left[d] = left[n]
  <2>1. d \in 1 .. d /\ d - 1 = n /\ n \in 0 .. d
    BY <1>2
  <2>2. left[d] = Together(<<>>, Meaning(e)) \o left[n]
    BY <1>4, <2>1
  <2>3. left[n] \in Seq(Atoms(e))
    BY <1>4, <2>1
  <2> QED
    BY <2>2, <2>3, TogetherNone, EmptyUnit
<1>6. /\ right \in [0 .. n -> Seq(Atoms(e))] /\ right[0] = <<>> /\ right[n] = left[n]
      /\ \A k \in 0 .. n : right[k] = left[k]
  <2>1. \A k \in 0 .. n : k \in 0 .. d
    BY <1>2
  <2> QED
    BY <1>2, <1>4, <2>1
<1> HIDE DEF right
<1>7. ASSUME NEW k \in 1 .. n PROVE right[k] = Together(gs[k].rest, Meaning(e)) \o right[k - 1]
  <2>1. k \in 1 .. d /\ k \in 0 .. n /\ k - 1 \in 0 .. n
    BY <1>2
  <2> QED
    BY <1>3, <1>4, <1>6, <2>1
<1>8. Chain(gs, e, right)
  BY <1>3, <1>6, <1>7 DEF Chain
<1>9. Divided(src, gs, as, e, all, right)
  BY <1>3, <1>4, <1>5, <1>6, <1>8 DEF Divided
<1> QED
  BY <1>9 DEF Parsed, gs

(***************************************************************************)
(* The meaning of a string.  Sources says which string is read where,      *)
(* Parsed what of it the attributes stand for, and Compared how far        *)
(* pfmlib_sanitize_event has come.                                         *)
(***************************************************************************)
Source == IF origin = "equiv" THEN EquivAttrs[alias] ELSE Prefix \o given
Meant == Together(Source, Meaning(event))

Sources ==
    /\ origin = "equiv" => EquivEvent[alias] # NoEquiv /\ given = <<>>
    /\ pc \in {"idle", "equiv", "build"} => given = <<>>
    /\ (pc = "build" /\ origin = "user") => EquivEvent[alias] = NoEquiv
    /\ (origin = "user" /\ frames # <<>>) => frames[1].rest = <<>>
    /\ (pc = "return" /\ ret = "SUCCESS") => Top.rest = <<>>

Running == pc \in {"attrs", "sanitize"} \/ (pc \in {"return", "leave", "done"} /\ ret = "SUCCESS")

\* the entries before x, and x with those before y, have nothing behind them
\* that repeats them
Cleared(as, x, y) ==
    \A k, l \in 1 .. Len(as) : (k < l /\ (k < x \/ (k = x /\ l < y))) => as[k].id # as[l].id

Compared ==
    /\ pc = "sanitize" => i < j
    /\ AtMostTwice(Meant) =>
          /\ pc = "sanitize" => Cleared(attrs, i, j)
          /\ (pc \in {"leave", "done"} /\ ret = "SUCCESS") => Distinct(attrs)

MInv == Sources /\ (Running => Parsed(Source, frames, attrs, event)) /\ Compared

LEMMA SourceType ==
    ASSUME TypeOK
    PROVE  /\ Source \in Seq(Token) /\ Prefix \in Seq(Token) /\ EquivAttrs[alias] \in Seq(Token)
           /\ Meant \in Seq(Atoms(event)) /\ Len(Meant) \in Nat
<1>1. EquivAttrs[alias] \in Seq(Token) /\ given \in Seq(Token)
  BY ParseAssumption DEF TypeOK
<1>2. Prefix \in Seq(Token)
  BY <1>1 DEF Prefix
<1>3. Source \in Seq(Token)
  BY <1>1, <1>2 DEF Source
<1>4. Meant \in Seq(Atoms(event))
  BY <1>3, MeantType DEF Meant, TypeOK
<1> QED
  BY <1>1, <1>2, <1>3, <1>4

LEMMA FirstIsDesignated ==
    ASSUME TypeOK, NEW tok, NEW k \in 1 .. NPattrs, Lookup(tok, k)
    PROVE  /\ Designated(event, tok) = k /\ Matching(event, tok) # {}
           /\ tok.name \in Names /\ tok.name \notin RawNames
<1>1. Len(Pattrs[event]) \in Nat
  <2>1. Pattrs[event] \in Seq(Pattr)
    BY ParseAssumption DEF TypeOK
  <2> QED
    BY <2>1
<1>2. k \in Matching(event, tok) /\ (\A l \in Matching(event, tok) : k <= l) /\ tok.name \in Names
  BY DEF Lookup
<1>3. Designated(event, tok) = k
  BY <1>1, <1>2, DesignatedFirst
<1>4. tok.name \notin RawNames
  BY <1>2, ParseAssumption
<1> QED
  BY <1>2, <1>3, <1>4

\* Where the attributes are read from.
LEMMA ReadFrom ==
    ASSUME TypeOK, Shape, NEW tok \in Token, ParseAttr(tok)
    PROVE  /\ pc = "attrs" /\ frames # <<>>
           /\ UNCHANGED <<alias, event, pattrs, origin, i, j>>
           /\ IF origin = "user" /\ Depth = 1
              THEN given' = Append(given, tok)
              ELSE Top.rest # <<>> /\ tok = Head(Top.rest) /\ given' = given
<1>1. Read(tok)
  BY DEF ParseAttr, RawRefused, RawInvalid, RawTaken, NameUnknown, UmaskAfterRaw, Expand, Umask,
         Modifier, Plain, Lookup
<1> QED
  BY <1>1 DEF Read, Shape

Stops == \/ pc' = "return" /\ ret' # "SUCCESS" /\ frames' = frames
         \/ pc' = "undefined" /\ frames' = frames

StoresIt(tok) ==
    /\ ~Expansible(event, tok)
    /\ pc' = pc /\ attrs' = Append(attrs, Itself(event, tok))
    /\ \E um \in BOOLEAN, raw \in BOOLEAN : frames' = Continue(um, raw)

ExpandsIt(tok) ==
    /\ Expansible(event, tok)
    /\ pc' = pc /\ attrs' = attrs
    /\ \E um \in BOOLEAN, raw \in BOOLEAN :
          frames' = Append(Continue(um, raw), Activation(Pattrs[event][Designated(event, tok)].equiv))

\* The parser does with an attribute what it means, or fails.
LEMMA ParseMeans ==
    ASSUME TypeOK, Shape, NEW tok \in Token, ParseAttr(tok)
    PROVE  Stops \/ StoresIt(tok) \/ ExpandsIt(tok)
<1>1. frames # <<>> /\ pc = "attrs"
  BY ReadFrom
<1>2. Top.has_um \in BOOLEAN /\ Top.has_raw_um \in BOOLEAN
  BY <1>1, TopType DEF Frame
<1>3. \A code : code # "SUCCESS" /\ Fail(code) => Stops
  BY DEF Fail, Stops
<1>4. CASE RawRefused(tok) \/ RawInvalid(tok) \/ NameUnknown(tok) \/ UmaskAfterRaw(tok)
  BY <1>3, <1>4 DEF RawRefused, RawInvalid, NameUnknown, UmaskAfterRaw
<1>5. CASE RawTaken(tok)
  <2>1. tok.name \in RawNames /\ StoreUnchecked(RawId, Top.has_um, TRUE)
    BY <1>5 DEF RawTaken
  <2>2. ~Expansible(event, tok)
    BY <2>1, ParseAssumption DEF Expansible
  <2>3. Itself(event, tok) = [id |-> RawId, ival |-> 0]
    BY <2>1 DEF Itself, RawId, NPattrs
  <2>4. CASE Len(attrs) < MaxAttrs
    BY <1>2, <2>1, <2>2, <2>3, <2>4 DEF StoreUnchecked, Store, StoresIt
  <2>5. CASE ~(Len(attrs) < MaxAttrs)
    BY <2>1, <2>5 DEF StoreUnchecked, Stops
  <2> QED
    BY <2>4, <2>5
<1>6. CASE Expand(tok)
  <2>1. PICK k \in 1 .. NPattrs :
          /\ Lookup(tok, k)
          /\ Pattrs[event][k].equiv # <<>>
          /\ \/ Fail("ATTR_VAL")
             \/ Fail("NOMEM")
             \/ /\ frames' = Append(Continue(HasUm(k), Top.has_raw_um), Activation(Pattrs[event][k].equiv))
                /\ UNCHANGED <<pc, ret, attrs>>
    BY <1>6 DEF Expand
  <2>2. Designated(event, tok) = k /\ Expansible(event, tok)
    BY <2>1, FirstIsDesignated DEF Expansible
  <2>3. HasUm(k) \in BOOLEAN
    BY <1>2 DEF HasUm, IsUmask
  <2>4. CASE Fail("ATTR_VAL") \/ Fail("NOMEM")
    BY <1>3, <2>4
  <2>5. CASE /\ frames' = Append(Continue(HasUm(k), Top.has_raw_um), Activation(Pattrs[event][k].equiv))
             /\ UNCHANGED <<pc, ret, attrs>>
    BY <1>2, <2>2, <2>3, <2>5 DEF ExpandsIt
  <2> QED
    BY <2>1, <2>4, <2>5
<1>7. CASE Umask(tok)
  <2>1. PICK k \in 1 .. NPattrs :
          Lookup(tok, k) /\ Pattrs[event][k].equiv = <<>> /\ IsUmask(k)
          /\ StoreUnchecked(k, HasUm(k), Top.has_raw_um)
    BY <1>7 DEF Umask, Plain
  <2>2. Designated(event, tok) = k /\ ~Expansible(event, tok) /\ tok.name \notin RawNames
    BY <2>1, FirstIsDesignated DEF Expansible
  <2>3. Itself(event, tok) = [id |-> k, ival |-> 0]
    BY <2>1, <2>2 DEF Itself, IsUmask
  <2>4. HasUm(k) \in BOOLEAN
    BY <1>2 DEF HasUm, IsUmask
  <2>5. CASE Len(attrs) < MaxAttrs
    BY <1>2, <2>1, <2>2, <2>3, <2>4, <2>5 DEF StoreUnchecked, Store, StoresIt
  <2>6. CASE ~(Len(attrs) < MaxAttrs)
    BY <2>1, <2>6 DEF StoreUnchecked, Stops
  <2> QED
    BY <2>5, <2>6
<1>8. CASE Modifier(tok)
  <2> DEFINE type(k) == Pattrs[event][k].type
             val(k) == IF tok.val = NoVal /\ type(k) = "MOD_BOOL" THEN "y" ELSE tok.val
  <2>1. PICK k \in 1 .. NPattrs :
          /\ Lookup(tok, k) /\ Pattrs[event][k].equiv = <<>> /\ ~IsUmask(k)
          /\ \/ Fail("ATTR_VAL")
             \/ Fail("TOOMANY")
             \/ /\ val(k) # NoVal
                /\ Store(k, Convert(type(k), val(k)), Top.has_um, Top.has_raw_um)
    BY <1>8 DEF Modifier, Plain
  <2>2. Designated(event, tok) = k /\ ~Expansible(event, tok) /\ tok.name \notin RawNames
    BY <2>1, FirstIsDesignated DEF Expansible
  <2>3. type(k) # "UMASK"
    BY <2>1 DEF IsUmask
  <2>4. CASE Fail("ATTR_VAL") \/ Fail("TOOMANY")
    BY <1>3, <2>4
  <2>5. CASE val(k) # NoVal /\ Store(k, Convert(type(k), val(k)), Top.has_um, Top.has_raw_um)
    <3>1. Itself(event, tok) = [id |-> k, ival |-> IF tok.val = NoVal THEN 1 ELSE Convert(type(k), tok.val)]
      BY <2>2, <2>3 DEF Itself
    <3>2. Convert(type(k), val(k)) = IF tok.val = NoVal THEN 1 ELSE Convert(type(k), tok.val)
      <4>1. CASE tok.val = NoVal
        <5>1. type(k) = "MOD_BOOL" /\ val(k) = "y"
          BY <2>5, <4>1
        <5> QED
          BY <4>1, <5>1 DEF Convert
      <4>2. CASE tok.val # NoVal
        BY <4>2
      <4> QED
        BY <4>1, <4>2
    <3> QED
      BY <1>2, <2>2, <2>5, <3>1, <3>2 DEF Store, StoresIt
  <2> QED
    BY <2>1, <2>4, <2>5
<1> QED
  BY <1>4, <1>5, <1>6, <1>7, <1>8 DEF ParseAttr

LEMMA InitMeaning == Init => MInv
  BY DEF Init, MInv, Sources, Running, Compared

\* before a string is read
LEMMA FindMeaning ==
    ASSUME IInv, MInv, NoEvent \/ (\E e \in Events : Found(e)) \/ EquivFails \/ EquivFound \/ BuildFails
    PROVE  MInv'
<1>1. pc \in {"idle", "equiv", "build"} /\ given = <<>> /\ given' = given /\ frames = <<>> /\ frames' = frames
  BY DEF MInv, Sources, IInv, Shape, NoEvent, Found, EquivFails, EquivFound, BuildFails
<1>2. pc' \in {"equiv", "build"} \/ (pc' \in {"done", "leave"} /\ ret' # "SUCCESS")
  BY DEF NoEvent, Found, EquivFails, EquivFound, BuildFails
<1>3. origin' = "equiv" => EquivEvent[alias'] # NoEquiv
  BY DEF MInv, Sources, NoEvent, Found, EquivFails, EquivFound, BuildFails
<1>4. (pc' = "build" /\ origin' = "user") => EquivEvent[alias'] = NoEquiv
  <2>1. CASE \E e \in Events : Found(e)
    BY <2>1 DEF Found
  <2>2. CASE NoEvent \/ EquivFails \/ BuildFails
    BY <2>2 DEF NoEvent, EquivFails, BuildFails
  <2>3. CASE EquivFound
    BY <2>3 DEF EquivFound, IInv, Shape
  <2> QED
    BY <2>1, <2>2, <2>3
<1>5. Sources'
  BY <1>1, <1>2, <1>3, <1>4 DEF Sources
<1> QED
  BY <1>2, <1>5 DEF MInv, Running, Compared

\* a string is read from its start: nothing or what precedes it is parsed
LEMMA BuildMeaning ==
    ASSUME IInv, MInv, Build
    PROVE  MInv'
<1> DEFINE toks == IF origin = "equiv" THEN EquivAttrs[alias] ELSE <<>>
<1>1. /\ pc = "build" /\ pc' = "attrs" /\ given = <<>> /\ given' = given /\ origin' = origin /\ alias' = alias
      /\ event' = event /\ attrs = <<>> /\ attrs' = attrs /\ frames' = <<Activation(toks)>>
  BY DEF Build, Start, MInv, Sources, IInv, Shape
<1>2. origin \in {"equiv", "user"} /\ event \in Events
  BY DEF IInv, TypeOK
<1>3. toks \in Seq(Token)
  BY SourceType DEF IInv
<1>4. Source' = toks
  BY <1>1, <1>2 DEF Source, Prefix, MInv, Sources
<1>5. frames'[1].rest = toks /\ frames' # <<>>
  BY <1>1 DEF Activation
<1>6. Sources'
  BY <1>1, <1>5 DEF MInv, Sources
<1> HIDE DEF toks
<1>7. Together(toks, Meaning(event)) = <<>> \o Together(toks, Meaning(event)) /\ <<>> \in Seq(Atoms(event))
  BY <1>2, <1>3, MeantType, EmptyUnit
<1>8. Parsed(toks, <<Activation(toks)>>, <<>>, event)
  BY <1>2, <1>3, <1>7, ReducedNone, ParsedStart
<1>9. Parsed(Source', frames', attrs', event')
  BY <1>1, <1>4, <1>8
<1> QED
  BY <1>1, <1>6, <1>9 DEF MInv, Compared

\* an attribute is read: it fails, is stored, or is expanded
LEMMA AttrMeaning ==
    ASSUME IInv, MInv, NEW tok \in Token, ParseAttr(tok)
    PROVE  MInv'
<1>1. /\ pc = "attrs" /\ frames # <<>>
      /\ UNCHANGED <<alias, event, pattrs, origin, i, j>>
      /\ IF origin = "user" /\ Depth = 1
         THEN given' = Append(given, tok)
         ELSE Top.rest # <<>> /\ tok = Head(Top.rest) /\ given' = given
  BY ReadFrom DEF IInv
<1>2. TypeOK /\ TypeOK' /\ Shape /\ event \in Events /\ frames \in Seq(Frame) /\ attrs \in Seq(Attr)
  BY NextInv DEF IInv, TypeOK, Next
<1>3. Top \in Frame /\ Depth \in Nat \ {0} /\ Depth = Len(frames) /\ Top = frames[Depth]
  BY <1>1, <1>2, TopType DEF Depth, Top
<1>4. Stops \/ StoresIt(tok) \/ ExpandsIt(tok)
  BY <1>2, ParseMeans
<1>5. origin = "equiv" => EquivEvent[alias] # NoEquiv /\ given = <<>>
  BY DEF MInv, Sources
<1>6. (origin = "user" /\ Depth = 1) => frames[1].rest = <<>>
  BY <1>1 DEF MInv, Sources
<1>7. origin' = "equiv" => EquivEvent[alias'] # NoEquiv /\ given' = <<>>
  BY <1>1, <1>5
<1>8. CASE Stops
  <2>1. frames' = frames /\ (pc' = "undefined" \/ (pc' = "return" /\ ret' # "SUCCESS"))
    BY <1>8 DEF Stops
  <2>2. Sources'
    BY <1>1, <1>7, <2>1 DEF MInv, Sources
  <2> QED
    BY <2>1, <2>2 DEF MInv, Running, Compared
\* the innermost activation goes on behind the attribute
<1>9. ASSUME NEW um \in BOOLEAN, NEW raw \in BOOLEAN
      PROVE  /\ Continue(um, raw) \in Seq(Frame) /\ Len(Continue(um, raw)) = Depth
             /\ origin = "user" => Continue(um, raw)[1].rest = <<>>
             /\ \E all, left : Upcoming(Source', Continue(um, raw), attrs, event, tok, all, left)
  <2> DEFINE g == [rest |-> Rest, has_um |-> um, has_raw_um |-> raw]
  <2>1. Continue(um, raw) = [frames EXCEPT ![Depth] = g] /\ g.rest = Rest
    BY DEF Continue
  <2>2. Continue(um, raw) \in Seq(Frame) /\ Len(Continue(um, raw)) = Depth
    BY <1>1, <1>2, ContinueType
  <2> HIDE DEF g
  <2>3. Parsed(Source, frames, attrs, event)
    BY <1>1 DEF MInv, Running
  <2>4. Source \in Seq(Token) /\ Prefix \in Seq(Token) /\ given \in Seq(Token)
    BY <1>2, SourceType DEF TypeOK
  <2>5. CASE origin = "user" /\ Depth = 1
    <3>1. Source' = Append(Source, tok)
      <4>1. Source = Prefix \o given /\ Source' = Prefix \o Append(given, tok)
        BY <1>1, <2>5 DEF Source, Prefix
      <4> QED
        BY <2>4, <4>1
    <3>2. Rest = <<>>
      BY <1>3, <1>6, <2>5 DEF Rest
    <3>3. \E all, left : Upcoming(Append(Source, tok), [frames EXCEPT ![1] = g], attrs, event, tok, all, left)
      <4>1. Len(frames) = 1 /\ frames[1].rest = <<>> /\ g.rest = <<>>
        BY <1>3, <1>6, <2>1, <2>5, <3>2
      <4> QED
        BY <1>2, <2>3, <2>4, <4>1, NextOfUser
    <3>4. Continue(um, raw)[1].rest = <<>>
      <4>1. [frames EXCEPT ![1] = g][1] = g
        <5>1. Len(frames) = 1
          BY <1>3, <2>5
        <5>2. frames \in Seq(Frame)
          BY <1>2
        <5> QED
          BY <5>1, <5>2
      <4> QED
        BY <2>1, <2>5, <3>2, <4>1
    <3> QED
      BY <2>1, <2>2, <2>5, <3>1, <3>3, <3>4
  <2>6. CASE ~(origin = "user" /\ Depth = 1)
    <3>1. Top.rest # <<>> /\ tok = Head(Top.rest) /\ Rest = Tail(Top.rest) /\ given' = given
      BY <1>1, <2>6 DEF Rest
    <3>2. Source' = Source
      BY <1>1, <3>1 DEF Source, Prefix
    <3>3. \E all, left : Upcoming(Source, [frames EXCEPT ![Depth] = g], attrs, event, tok, all, left)
      BY <1>2, <1>3, <2>1, <2>3, <3>1, NextOfRest
    <3>4. ASSUME origin = "user" PROVE Continue(um, raw)[1].rest = <<>>
      <4>1. Depth # 1 /\ frames[1].rest = <<>>
        BY <1>1, <2>6, <3>4 DEF MInv, Sources
      <4> QED
        BY <1>2, <1>3, <2>1, <4>1
    <3> QED
      BY <2>1, <2>2, <3>2, <3>3, <3>4
  <2> QED
    BY <2>5, <2>6
<1>10. ASSUME pc' = pc, frames' # <<>>, origin = "user" => frames'[1].rest = <<>>,
              Parsed(Source', frames', attrs', event)
       PROVE  MInv'
  <2>1. Sources'
    BY <1>1, <1>7, <1>10 DEF Sources
  <2> QED
    BY <1>1, <1>10, <2>1 DEF MInv, Compared
<1>11. CASE StoresIt(tok)
  <2>1. PICK um \in BOOLEAN, raw \in BOOLEAN : frames' = Continue(um, raw)
    BY <1>11 DEF StoresIt
  <2>2. pc' = pc /\ ~Expansible(event, tok) /\ attrs' = Append(attrs, Itself(event, tok))
    BY <1>11 DEF StoresIt
  <2>3. frames' # <<>> /\ Len(frames') \in Nat /\ (origin = "user" => frames'[1].rest = <<>>)
    BY <1>3, <1>9, <2>1
  <2>4. Itself(event, tok) \in Attr
    <3> DEFINE a == Itself(event, tok)
    <3>1. Append(attrs, a) \in Seq(Attr)
      BY <1>2, <2>2 DEF TypeOK
    <3> HIDE DEF a
    <3>2. a \in Attr
      BY <1>2, <3>1
    <3> QED
      BY <3>2 DEF a
  <2>5. PICK all, left : Upcoming(Source', frames', attrs, event, tok, all, left)
    BY <1>9, <2>1
  <2>6. Parsed(Source', frames', attrs', event)
    BY <1>2, <2>2, <2>3, <2>4, <2>5, ParsedStore
  <2> QED
    BY <1>10, <2>2, <2>3, <2>6
<1>12. CASE ExpandsIt(tok)
  <2> DEFINE z == Activation(Pattrs[event][Designated(event, tok)].equiv)
  <2>1. PICK um \in BOOLEAN, raw \in BOOLEAN : frames' = Append(Continue(um, raw), z)
    BY <1>12 DEF ExpandsIt
  <2>2. pc' = pc /\ Expansible(event, tok) /\ attrs' = attrs
    BY <1>12 DEF ExpandsIt
  <2> DEFINE fs == Continue(um, raw)
  <2>3. fs \in Seq(Frame) /\ Len(fs) = Depth /\ (origin = "user" => fs[1].rest = <<>>)
    BY <1>9
  <2>4. PICK all, left : Upcoming(Source', fs, attrs, event, tok, all, left)
    BY <1>9
  <2> HIDE DEF fs
  <2>5. Parsed(Source', Append(fs, z), attrs, event)
    BY <1>2, <2>2, <2>3, <2>4, ParsedExpand
  <2> HIDE DEF z
  <2>6. frames' = Append(fs, z)
    BY <2>1 DEF fs
  <2>7. frames' # <<>> /\ frames'[1] = fs[1]
    BY <1>3, <2>3, <2>6
  <2> QED
    BY <1>10, <2>2, <2>3, <2>5, <2>6, <2>7
<1> QED
  BY <1>4, <1>8, <1>11, <1>12

\* the end of a string
LEMMA EndMeaning ==
    ASSUME IInv, MInv, EndString
    PROVE  MInv'
<1>1. /\ pc = "attrs" /\ Top.rest = <<>> /\ pc' = "return"
      /\ UNCHANGED <<alias, event, attrs, origin, frames, given>>
  BY DEF EndString, desc
<1>2. Source' = Source /\ Top' = Top
  BY <1>1 DEF Source, Prefix, Top, Depth
<1>3. Sources'
  BY <1>1, <1>2 DEF MInv, Sources
<1>4. Parsed(Source, frames, attrs, event)
  BY <1>1 DEF MInv, Running
<1>5. Parsed(Source', frames', attrs', event')
  BY <1>1, <1>2, <1>4
<1> QED
  BY <1>1, <1>3, <1>5 DEF MInv, Compared

\* a string that was parsed to its end
LEMMA ReturnMeaning ==
    ASSUME IInv, MInv, Return
    PROVE  MInv'
<1>1. /\ pc = "return" /\ frames' = SubSeq(frames, 1, Depth - 1)
      /\ UNCHANGED <<ret, alias, event, attrs, origin, given>>
      /\ i' = 1 /\ j' = 2
      /\ pc' = IF ret = "SUCCESS"
               THEN IF Depth > 1 THEN "attrs" ELSE "sanitize"
               ELSE IF Depth > 1 THEN "return" ELSE "leave"
  BY DEF Return, desc
<1>2. frames # <<>> /\ TypeOK /\ frames \in Seq(Frame) /\ event \in Events
  BY <1>1 DEF IInv, Shape, TypeOK
<1>3. Depth \in Nat \ {0} /\ Depth = Len(frames) /\ Top = frames[Depth]
  BY <1>2, TopType DEF Depth, Top
<1>4. Source' = Source
  BY <1>1 DEF Source, Prefix
<1>5. ASSUME frames' # <<>> PROVE frames'[1] = frames[1]
  <2> DEFINE d == Depth - 1
  <2>1. d \in 0 .. Len(frames) /\ d \in Nat
    BY <1>3
  <2>2. frames' = SubSeq(frames, 1, d)
    BY <1>1
  <2> HIDE DEF d
  <2>3. Len(frames') = d /\ \A k \in 1 .. d : frames'[k] = frames[k]
    BY <1>2, <2>1, <2>2
  <2>4. d # 0
    BY <1>2, <1>5, <2>2
  <2> QED
    BY <2>1, <2>3, <2>4
<1>6. Sources'
  BY <1>1, <1>2, <1>5 DEF MInv, Sources
<1>7. ASSUME ret = "SUCCESS" PROVE Parsed(Source', frames', attrs', event')
  <2>1. Parsed(Source, frames, attrs, event) /\ frames[Depth].rest = <<>>
    BY <1>1, <1>3, <1>7 DEF MInv, Running, Sources
  <2>2. Parsed(Source, SubSeq(frames, 1, Depth - 1), attrs, event)
    BY <1>2, <1>3, <2>1, ParsedReturn
  <2> QED
    BY <1>1, <1>4, <2>2
<1>8. Running' => Parsed(Source', frames', attrs', event')
  BY <1>1, <1>7 DEF Running
<1>9. Cleared(attrs', i', j')
  BY <1>1, <1>2 DEF Cleared, TypeOK
<1>10. Compared'
  BY <1>1, <1>9 DEF Compared
<1> QED
  BY <1>6, <1>8, <1>10 DEF MInv

\* what pfmlib_sanitize_event starts from
LEMMA Sanitizes ==
    ASSUME IInv, MInv, pc = "sanitize"
    PROVE  /\ frames = <<>> /\ attrs \in Seq(Attr) /\ Len(attrs) \in Nat /\ event \in Events
           /\ i \in Nat \ {0} /\ j \in Nat \ {0} /\ i < j
           /\ Source \in Seq(Token) /\ Len(Meant) \in Nat
           /\ Reduced(attrs, Meant)
           /\ AtMostTwice(Meant) => Cleared(attrs, i, j)
<1>1. frames = <<>> /\ attrs \in Seq(Attr) /\ event \in Events /\ i \in Nat \ {0} /\ j \in Nat \ {0}
  BY DEF IInv, Shape, TypeOK
<1>2. Source \in Seq(Token) /\ Len(Meant) \in Nat
  BY SourceType DEF IInv
<1>3. Parsed(Source, frames, attrs, event) /\ i < j /\ (AtMostTwice(Meant) => Cleared(attrs, i, j))
  BY DEF MInv, Running, Compared
<1>4. Reduced(attrs, Meant)
  BY <1>1, <1>2, <1>3, ParsedAll DEF Meant
<1> QED
  BY <1>1, <1>2, <1>3, <1>4

\* the comparisons
LEMMA CompareMeaning ==
    ASSUME IInv, MInv, NextRow \/ Different \/ Conflict \/ Sanitized
    PROVE  MInv'
<1>1. /\ pc = "sanitize" /\ UNCHANGED <<alias, event, attrs, origin, frames, given>>
  BY DEF NextRow, Different, Conflict, Sanitized, Sanitizing, desc
<1>2. /\ frames = <<>> /\ Len(attrs) \in Nat /\ i \in Nat \ {0} /\ j \in Nat \ {0} /\ i < j
      /\ AtMostTwice(Meant) => Cleared(attrs, i, j)
  BY <1>1, Sanitizes
<1>3. Source' = Source /\ Meant' = Meant
  <2>1. Source' = Source
    BY <1>1 DEF Source, Prefix
  <2> QED
    BY <1>1, <2>1 DEF Meant
<1>4. pc' \in {"sanitize", "leave"}
  BY <1>1 DEF NextRow, Different, Conflict, Sanitized
<1>5. Sources'
  BY <1>1, <1>2, <1>4 DEF MInv, Sources
<1>6. Parsed(Source, frames, attrs, event)
  BY <1>1 DEF MInv, Running
<1>7. Parsed(Source', frames', attrs', event')
  BY <1>1, <1>3, <1>6
<1>8. ASSUME Cleared(attrs, i, j)
      PROVE  /\ pc' = "sanitize" => Cleared(attrs, i', j')
             /\ (pc' = "leave" /\ ret' = "SUCCESS") => Distinct(attrs)
  <2>1. \A k, l \in 1 .. Len(attrs) : (k < l /\ (k < i \/ (k = i /\ l < j))) => attrs[k].id # attrs[l].id
    BY <1>8 DEF Cleared
  <2>2. CASE NextRow
    <3>1. j > Len(attrs) /\ i' = i + 1 /\ j' = i + 2 /\ pc' = "sanitize"
      BY <1>1, <2>2 DEF NextRow
    <3>2. ASSUME NEW k \in 1 .. Len(attrs), NEW l \in 1 .. Len(attrs), k < l,
                 k < i + 1 \/ (k = i + 1 /\ l < i + 2)
          PROVE  attrs[k].id # attrs[l].id
      <4>1. k < i \/ (k = i /\ l < j)
        BY <1>2, <3>1, <3>2
      <4> QED
        BY <2>1, <3>2, <4>1
    <3> QED
      BY <3>1, <3>2 DEF Cleared
  <2>3. CASE Different
    <3>1. i \in 1 .. Len(attrs) /\ j \in 1 .. Len(attrs) /\ attrs[i].id # attrs[j].id
      BY <1>2, <2>3 DEF Different, Sanitizing, SameAttr
    <3>2. i' = i /\ j' = j + 1 /\ pc' = "sanitize"
      BY <1>1, <2>3 DEF Different
    <3>3. ASSUME NEW k \in 1 .. Len(attrs), NEW l \in 1 .. Len(attrs), k < l,
                 k < i \/ (k = i /\ l < j + 1)
          PROVE  attrs[k].id # attrs[l].id
      <4>1. (k < i \/ (k = i /\ l < j)) \/ (k = i /\ l = j)
        BY <1>2, <3>3
      <4> QED
        BY <2>1, <3>1, <3>3, <4>1
    <3> QED
      BY <3>2, <3>3 DEF Cleared
  <2>4. CASE Conflict
    BY <2>4 DEF Conflict
  <2>5. CASE Sanitized
    <3>1. i > Len(attrs) /\ pc' = "leave"
      BY <2>5 DEF Sanitized
    <3>2. \A k \in 1 .. Len(attrs) : k < i
      BY <1>2, <3>1
    <3> QED
      BY <2>1, <3>1, <3>2 DEF Distinct
  <2> QED
    BY <2>2, <2>3, <2>4, <2>5
<1>9. pc' = "sanitize" => i' < j'
  BY <1>1, <1>2 DEF NextRow, Different, Conflict, Sanitized
<1>10. Compared'
  BY <1>1, <1>2, <1>3, <1>4, <1>8, <1>9 DEF Compared
<1> QED
  BY <1>5, <1>7, <1>10 DEF MInv

\* a repetition is removed; the entry that moves to its place is not one
LEMMA CompactMeaning ==
    ASSUME IInv, MInv, Duplicate
    PROVE  MInv'
<1>1. /\ pc = "sanitize" /\ pc' = "sanitize" /\ UNCHANGED <<ret, alias, event, origin, frames, given>>
      /\ i <= Len(attrs) /\ j <= Len(attrs) /\ attrs[i].id = attrs[j].id /\ attrs[i].ival = attrs[j].ival
      /\ i' = i /\ j' = j + 1 /\ attrs' = Without(attrs, j)
  BY DEF Duplicate, Sanitizing, SameAttr, Without
<1>2. /\ frames = <<>> /\ attrs \in Seq(Attr) /\ Len(attrs) \in Nat /\ event \in Events
      /\ i \in Nat \ {0} /\ j \in Nat \ {0} /\ i < j
      /\ Source \in Seq(Token) /\ Len(Meant) \in Nat /\ Reduced(attrs, Meant)
      /\ AtMostTwice(Meant) => Cleared(attrs, i, j)
  BY <1>1, Sanitizes
<1>3. i \in 1 .. Len(attrs) /\ j \in 1 .. Len(attrs) /\ attrs[i] \in Attr /\ attrs[j] \in Attr
  <2>1. i \in 1 .. Len(attrs) /\ j \in 1 .. Len(attrs)
    BY <1>1, <1>2
  <2> QED
    BY <1>2, <2>1
<1>4. attrs[i] = attrs[j]
  BY <1>1, <1>3 DEF Attr
<1>5. Source' = Source /\ Meant' = Meant
  <2>1. Source' = Source
    BY <1>1 DEF Source, Prefix
  <2> QED
    BY <1>1, <2>1 DEF Meant
<1>6. Sources'
  BY <1>1, <1>2 DEF MInv, Sources
<1>7. Reduced(attrs', Meant)
  BY <1>1, <1>2, <1>3, <1>4, ReducedWithout
<1>8. Parsed(Source', frames', attrs', event')
  <2>1. Parsed(Source, <<>>, attrs', event)
    BY <1>2, <1>7, ParsedAll DEF Meant
  <2> QED
    BY <1>1, <1>2, <1>5, <2>1
<1>9. ASSUME AtMostTwice(Meant) PROVE Cleared(attrs', i, j + 1)
  <2> DEFINE n == Len(attrs) - 1
  <2>1. /\ n \in Nat /\ Len(attrs') = n /\ Len(attrs) = n + 1
        /\ \A k \in 1 .. n : attrs'[k] = IF k < j THEN attrs[k] ELSE attrs[k + 1]
    <3> DEFINE u == Without(attrs, j)
    <3>1. n \in Nat /\ Len(u) = n /\ \A k \in 1 .. n : u[k] = IF k < j THEN attrs[k] ELSE attrs[k + 1]
      BY <1>2, <1>3, WithoutElements, Zenon
    <3> HIDE DEF u
    <3>2. attrs' = u
      BY <1>1 DEF u
    <3>3. Len(attrs) = n + 1
      BY <1>2
    <3> QED
      BY <3>1, <3>2, <3>3
  <2> HIDE DEF n
  <2>2. \A k, l \in 1 .. n + 1 : (k < l /\ (k < i \/ (k = i /\ l < j))) => attrs[k].id # attrs[l].id
    BY <1>2, <1>9, <2>1 DEF Cleared
  <2>3. \A k, l, m \in 1 .. n + 1 : k < l /\ l < m => ~(attrs[k].id = attrs[l].id /\ attrs[l].id = attrs[m].id)
    <3>1. AtMostTwice(attrs)
      BY <1>2, <1>9, ReducedTwice
    <3> QED
      BY <2>1, <3>1 DEF AtMostTwice
  <2>4. ASSUME NEW k \in 1 .. n, NEW l \in 1 .. n, k < l, k < i \/ (k = i /\ l < j + 1)
        PROVE  attrs'[k].id # attrs'[l].id
    <3> DEFINE old == IF l < j THEN l ELSE l + 1
    <3>1. k < j /\ k \in 1 .. n + 1 /\ old \in 1 .. n + 1 /\ k < old
      BY <1>2, <2>1, <2>4
    <3>2. attrs'[k] = attrs[k] /\ attrs'[l] = attrs[old]
      BY <2>1, <3>1
    <3>3. CASE k < i \/ (k = i /\ l < j)
      <4>1. k < i \/ (k = i /\ old < j)
        BY <3>3
      <4> HIDE DEF old
      <4> QED
        BY <2>2, <3>1, <3>2, <4>1
    <3>4. CASE k = i /\ l = j
      <4>1. old = j + 1 /\ j \in 1 .. n + 1
        BY <1>3, <2>1, <3>4
      <4> HIDE DEF old
      <4>2. j < old
        BY <1>2, <4>1
      <4>3. attrs[j].id # attrs[old].id
        BY <1>1, <1>2, <2>3, <3>1, <3>4, <4>1, <4>2
      <4> QED
        BY <1>1, <3>2, <3>4, <4>3
    <3>5. (k < i \/ (k = i /\ l < j)) \/ (k = i /\ l = j)
      BY <1>2, <2>1, <2>4
    <3> QED
      BY <3>3, <3>4, <3>5
  <2> QED
    BY <2>1, <2>4 DEF Cleared
<1>10. Compared'
  BY <1>1, <1>2, <1>5, <1>9 DEF Compared
<1> QED
  BY <1>6, <1>8, <1>10 DEF MInv

\* the equivalent event: its attributes are those the string of the user
\* goes on from
LEMMA LeaveEquivMeaning ==
    ASSUME IInv, MInv, LeaveEquiv
    PROVE  MInv'
<1>1. /\ pc = "leave" /\ origin = "equiv" /\ origin' = "user" /\ frames = <<>>
      /\ UNCHANGED <<ret, alias, event, attrs, given>>
      /\ IF ret = "SUCCESS" THEN pc' = "attrs" /\ frames' = <<Activation(<<>>)>>
                            ELSE pc' = "leave" /\ frames' = frames
  BY DEF LeaveEquiv, Start, IInv, Shape
<1>2. EquivEvent[alias] # NoEquiv /\ given = <<>>
  BY <1>1 DEF MInv, Sources
<1>3. frames' # <<>> => frames'[1].rest = <<>>
  BY <1>1 DEF Activation
<1>4. Sources'
  BY <1>1, <1>2, <1>3 DEF Sources
<1>5. Source \in Seq(Token) /\ EquivAttrs[alias] \in Seq(Token) /\ event \in Events /\ Meant \in Seq(Atoms(event))
  BY SourceType DEF IInv, TypeOK
<1>6. Source' = Source
  <2>1. Source = EquivAttrs[alias]
    BY <1>1 DEF Source
  <2>2. Source' = EquivAttrs[alias] \o <<>>
    BY <1>1, <1>2 DEF Source, Prefix
  <2> QED
    BY <1>5, <2>1, <2>2
<1>7. ASSUME ret = "SUCCESS" PROVE Parsed(Source', frames', attrs', event')
  <2>1. Parsed(Source, <<>>, attrs, event)
    BY <1>1, <1>7 DEF MInv, Running
  <2>2. Reduced(attrs, Meant)
    BY <1>5, <2>1, ParsedAll DEF Meant
  <2>3. Together(<<>>, Meaning(event)) = <<>> /\ Meant = Meant \o <<>> /\ <<>> \in Seq(Token)
    BY <1>5, TogetherNone, EmptyUnit
  <2>4. Together(Source, Meaning(event)) = Meant \o Together(<<>>, Meaning(event))
    BY <2>3 DEF Meant
  <2>5. Parsed(Source, <<Activation(<<>>)>>, attrs, event)
    BY <1>5, <2>2, <2>3, <2>4, ParsedStart
  <2> QED
    BY <1>1, <1>6, <1>7, <2>5
<1>8. Running' => Parsed(Source', frames', attrs', event')
  BY <1>1, <1>7 DEF Running
<1>9. Compared'
  BY <1>1 DEF Compared
<1> QED
  BY <1>4, <1>8, <1>9 DEF MInv

\* the end of the call, and of the event
LEMMA LeaveEventMeaning ==
    ASSUME IInv, MInv, LeaveEvent
    PROVE  MInv'
<1>1. /\ pc = "leave" /\ pc' = "done" /\ origin = "user" /\ frames = <<>>
      /\ UNCHANGED <<ret, alias, event, attrs, origin, frames, given>>
  BY DEF LeaveEvent, IInv, Shape
<1>2. Source' = Source
  BY <1>1 DEF Source, Prefix
<1>3. Meant' = Meant
  BY <1>1, <1>2 DEF Meant
<1>4. Sources'
  BY <1>1 DEF Sources
<1>5. ret = "SUCCESS" => Parsed(Source, frames, attrs, event)
  BY <1>1 DEF MInv, Running
<1>6. Running' => Parsed(Source', frames', attrs', event')
  BY <1>1, <1>2, <1>5 DEF Running
<1>7. Compared'
  BY <1>1, <1>3 DEF MInv, Compared
<1> QED
  BY <1>4, <1>6, <1>7 DEF MInv

LEMMA ReleaseMeaning ==
    ASSUME IInv, MInv, Release
    PROVE  MInv'
  BY DEF Release, IInv, Shape, MInv, Sources, Running, Compared

LEMMA NextMeaning ==
    ASSUME IInv, MInv, [Next]_vars
    PROVE  MInv'
<1>1. CASE EquivEvents
  BY <1>1, FindMeaning, BuildMeaning DEF EquivEvents
<1>2. CASE \E tok \in Token : ParseAttr(tok)
  BY <1>2, AttrMeaning
<1>3. CASE EndString \/ Return
  BY <1>3, EndMeaning, ReturnMeaning
<1>4. CASE Sanitize
  BY <1>4, CompareMeaning, CompactMeaning DEF Sanitize
<1>5. CASE LeaveEquiv \/ LeaveEvent
  BY <1>5, LeaveEquivMeaning, LeaveEventMeaning
<1>6. CASE Release
  BY <1>6, ReleaseMeaning
<1>7. CASE UNCHANGED vars
  <2>1. UNCHANGED <<pc, ret, alias, event, attrs, origin, frames, given, i, j>>
    BY <1>7 DEF vars, desc
  <2>2. Source' = Source /\ Top' = Top
    BY <2>1 DEF Source, Prefix, Top, Depth
  <2>3. Meant' = Meant
    BY <2>1, <2>2 DEF Meant
  <2>4. Sources'
    BY <2>1, <2>2 DEF MInv, Sources
  <2>5. Running => Parsed(Source, frames, attrs, event)
    BY DEF MInv
  <2>6. Running' => Parsed(Source', frames', attrs', event')
    BY <2>1, <2>2, <2>5 DEF Running
  <2>7. Compared'
    BY <2>1, <2>3 DEF MInv, Compared
  <2> QED
    BY <2>4, <2>6, <2>7 DEF MInv
<1> QED
  BY <1>1, <1>2, <1>3, <1>4, <1>5, <1>6, <1>7 DEF Next

LEMMA MeaningInvariance == Spec => [](IInv /\ MInv)
<1>1. IInv /\ MInv /\ [Next]_vars => (IInv /\ MInv)'
  BY NextInv, NextMeaning
<1> QED
  BY InitInv, InitMeaning, <1>1, PTL DEF Spec

LEMMA MeaningKept ==
    ASSUME IInv, MInv
    PROVE  MeansWhatItSays
<1> SUFFICES ASSUME pc = "done", ret = "SUCCESS", AtMostTwice(AllAttrs)
             PROVE  /\ FirstOnly(attrs, AllAttrs)
                    /\ \A k, l \in 1 .. Len(AllAttrs) :
                          AllAttrs[k].id = AllAttrs[l].id => AllAttrs[k] = AllAttrs[l]
  BY DEF MeansWhatItSays
<1>1. origin = "user" /\ frames = <<>> /\ event \in Events /\ attrs \in Seq(Attr)
  BY DEF IInv, Shape, TypeOK
<1>2. Meant = AllAttrs /\ Source \in Seq(Token) /\ Len(Meant) \in Nat
  BY <1>1, SourceType DEF IInv, Meant, Source, AllAttrs
<1>3. Parsed(Source, <<>>, attrs, event) /\ Distinct(attrs)
  BY <1>1, <1>2 DEF MInv, Running, Compared
<1>4. Reduced(attrs, AllAttrs)
  BY <1>1, <1>2, <1>3, ParsedAll DEF Meant
<1>5. Len(attrs) \in Nat /\ Len(AllAttrs) \in Nat
  BY <1>1, <1>2
<1> QED
  BY <1>3, <1>4, <1>5, ReducedFirst, Zenon

(***************************************************************************)
(* The theorems                                                            *)
(***************************************************************************)

\* Every variable keeps its type.
THEOREM TypeCorrect == Spec => []TypeOK
<1>1. IInv => TypeOK
  BY DEF IInv
<1> QED
  BY Invariance, <1>1, PTL

\* Nothing leaks and nothing is freed twice, however deep the expansions of
\* the tables are: the copies are those of the live activations, and the
\* caller owns pattrs exactly after a success.
THEOREM NothingLeaks == Spec => []Ownership
<1>1. IInv => Ownership
  BY DEF IInv
<1> QED
  BY Invariance, <1>1, PTL

\* Every attribute that the parser stores designates an entry of pattrs that
\* was allocated and has a value of its type.
THEOREM AttributesResolve == Spec => []AttrsResolve
<1>1. IInv => AttrsResolve
  BY DEF IInv
<1> QED
  BY Invariance, <1>1, PTL

\* The event is not replaced while attributes designate its entries.
THEOREM EventStable == Spec => IdsStable
<1>1. IInv /\ [Next]_vars => [(attrs # <<>> /\ pc' # "idle") => event' = event]_vars
  <2> SUFFICES ASSUME IInv, [Next]_vars, attrs # <<>> PROVE event' = event
    OBVIOUS
  <2>1. pc \notin {"idle", "equiv", "build"}
    BY DEF IInv, Shape
  <2>2. CASE EquivEvents
    BY <2>1, <2>2 DEF EquivEvents, NoEvent, Found, EquivFails, EquivFound, Build, BuildFails
  <2>3. CASE \E tok \in Token : ParseAttr(tok)
    BY <2>3, Outcome DEF IInv, Keeps
  <2>4. CASE EndString \/ Return \/ LeaveEquiv \/ LeaveEvent \/ Release
    BY <2>4 DEF EndString, Return, LeaveEquiv, LeaveEvent, Release, desc
  <2>5. CASE Sanitize
    BY <2>5 DEF Sanitize, NextRow, Different, Duplicate, Conflict, Sanitized, desc
  <2>6. CASE UNCHANGED vars
    BY <2>6 DEF vars, desc
  <2> QED
    BY <2>2, <2>3, <2>4, <2>5, <2>6 DEF Next
<1> QED
  BY Invariance, <1>1, PTL DEF Spec, IdsStable

\* In the string of the user a raw unit mask and a unit mask exclude each
\* other, also when the unit mask comes from an expansion in any depth.
THEOREM RawExcludesUnitMasks == Spec => []NotMixed
<1>1. Exclusive => NotMixed
  BY DEF Exclusive, NotMixed, Apart, Combined, IsRaw, TypeOf, TypeIn, RawId, NPattrs
<1> QED
  BY ExclusiveInvariance, <1>1, PTL

\* A successful string has the attributes it stands for, expanded in place,
\* those of the equivalent event first, each once, where it is given first,
\* and with one value, whatever the tables, the string and the depth of the
\* expansions: pfmlib_parse_event_attr and pfmlib_sanitize_event.
THEOREM StringMeaning == Spec => []MeansWhatItSays
<1>1. IInv /\ MInv => MeansWhatItSays
  BY MeaningKept
<1> QED
  BY MeaningInvariance, <1>1, PTL
============================================================================

-------------------------- MODULE EncodingProofs --------------------------
(***************************************************************************)
(* Proofs about the two ways to ask the library for an encoding: for a     *)
(* perf_event_attr (PerfEncode) and for raw codes (RawEncode).             *)
(***************************************************************************)
EXTENDS PerfEncode, RawEncode, TLAPS

(***************************************************************************)
(* The encoding of a perf_event_attr                                       *)
(***************************************************************************)

LEMMA InitTyped == Init => TypeOK
  <1> SUFFICES ASSUME Init PROVE TypeOK
    OBVIOUS
  <1>1. preset \in Attrs /\ uattr \in Attrs /\ attr \in Attrs
    BY PerfAssumption DEF Init
  <1>2. -1 \in -1 .. IntMax - 1
    BY PerfAssumption
  <1>3. pmu \in Pmus /\ ext \in BOOLEAN /\ dfl_plm \in DflPlms /\ preset \in Presets
    BY DEF Init
  <1> QED  BY <1>1, <1>2, <1>3 DEF Init, TypeOK

LEMMA LeaveTyped ==
  ASSUME TypeOK, Refused \/ PmuEncode
  PROVE  TypeOK'
  <1>1. CASE Refused
    BY <1>1 DEF TypeOK, Refused, Leave, inputs, masks
  <1>2. CASE PmuEncode
    <2>1. CASE Leave("notsupp") /\ UNCHANGED attr
      BY <2>1 DEF TypeOK, Leave, inputs, masks
    <2>2. CASE /\ phase' = "attrs"
               /\ attr' = [attr EXCEPT !.config = "code", !.config1 = IF pmu.codes = 2 THEN "extra" ELSE @]
               /\ UNCHANGED <<inputs, uattr, given, masks, ret, fstr>>
      <3>1. attr' \in Attrs
        BY <2>2 DEF TypeOK, Attrs
      <3> QED  BY <3>1, <2>2 DEF TypeOK, inputs, masks
    <2> QED  BY <1>2, <2>1, <2>2 DEF PmuEncode
  <1> QED  BY <1>1, <1>2

LEMMA ChangedTyped ==
  ASSUME TypeOK, NEW t \in Tokens, ~Invalid(t)
  PROVE  Changed(t) \in Attrs
  <1>1. t.ival \in Nat
    BY PerfAssumption
  <1>2. t.name = "precise" => t.ival \in 0 .. 3
    BY <1>1 DEF Invalid
  <1>3. Bool(t) \in 0 .. 3
    BY DEF Bool
  <1>4. attr \in Attrs
    BY DEF TypeOK
  <1> QED  BY <1>1, <1>2, <1>3, <1>4 DEF Changed, Attrs

LEMMA FinalTyped ==
  ASSUME TypeOK
  PROVE  Final \in Attrs
  BY DEF TypeOK, Attrs, Final

LEMMA AttrTyped ==
  ASSUME TypeOK, NEW t \in Tokens, Attr(t)
  PROVE  TypeOK'
  <1>1. UNCHANGED <<pmu, ext, dfl_plm, preset, uattr, fstr>> /\ given' \subseteq Tokens
    BY DEF Attr, TypeOK, inputs
  <1>2. CASE Invalid(t)
    BY <1>1, <1>2 DEF Attr, TypeOK, masks
  <1>3. CASE ~Invalid(t)
    <2>1. attr' \in Attrs
      BY <1>3, ChangedTyped DEF Attr
    <2>2. plm' \subseteq Levels /\ vmx_plm' \subseteq {"u", "k"}
      BY <1>3 DEF Attr, TypeOK
    <2>3. has_plm' \in BOOLEAN /\ has_vmx_plm' \in BOOLEAN /\ pinned' \in BOOLEAN
      BY <1>3 DEF Attr, TypeOK
    <2>4. cpu' \in -1 .. IntMax - 1
      <3>1. t.ival \in Nat /\ IntMax \in Nat
        BY PerfAssumption
      <3>2. t.name = "cpu" => t.ival < IntMax
        BY <1>3, <3>1 DEF Invalid
      <3> QED  BY <1>3, <3>1, <3>2 DEF Attr, TypeOK
    <2>5. phase' \in {"call", "attrs", "done"} /\ ret' = ret
      BY <1>3 DEF Attr, TypeOK
    <2> QED  BY <1>1, <2>1, <2>2, <2>3, <2>4, <2>5 DEF TypeOK
  <1> QED  BY <1>2, <1>3

LEMMA FinishTyped ==
  ASSUME TypeOK, Finish
  PROVE  TypeOK'
  <1>1. attr' \in Attrs /\ uattr' \in Attrs
    BY FinalTyped DEF Finish
  <1>2. ret' \in {"success", "nomem"} /\ phase' = "done"
    BY DEF Finish
  <1> QED  BY <1>1, <1>2 DEF TypeOK, Finish, inputs, masks

LEMMA StepTyped ==
  ASSUME TypeOK, [Next]_vars
  PROVE  TypeOK'
  <1>1. CASE UNCHANGED vars
    BY <1>1 DEF TypeOK, vars, inputs, masks
  <1> QED  BY <1>1, LeaveTyped, AttrTyped, FinishTyped DEF Next

\* The attr in the making, that of the caller and the masks stay in their
\* ranges, whatever attributes are read: no precise value leaves its two bits
\* and no cpu reaches INT_MAX (pfmlib_perf_event_encode).
THEOREM TypeCorrect == Spec => []TypeOK
  <1>1. TypeOK /\ [Next]_vars => TypeOK'
    BY StepTyped
  <1> QED  BY InitTyped, <1>1, PTL DEF Spec

(***************************************************************************)
(* The attributes read so far: a name comes once, and only those offered.  *)
(***************************************************************************)
Once(set) == \A g, h \in set : g.name = h.name => g = h

\* what the masks and my_attr hold while the attributes are read
MasksRead ==
    /\ plm = {n \in Levels : Value(given, n, 0) # 0}
    /\ has_plm = (\E n \in Levels : Named(given, n))
    /\ vmx_plm = (IF Named(given, "mg") THEN {"u"} ELSE {}) \cup (IF Named(given, "mh") THEN {"k"} ELSE {})
    /\ has_vmx_plm = (Named(given, "mg") \/ Named(given, "mh"))
    /\ pinned = (Value(given, "pinned", 0) # 0)

SampleRead ==
    /\ attr.sample = Value(given, "period", Value(given, "freq", preset.sample))
    /\ attr.freq = (preset.freq \/ Named(given, "freq"))

PreciseRead ==
    attr.precise_ip = IF Named(given, "hw_smpl") THEN Flag(Value(given, "hw_smpl", 0) # 0)
                      ELSE Value(given, "precise", preset.precise_ip)

AttrRead ==
    /\ attr.config = "code" /\ attr.config1 = IF pmu.codes = 2 THEN "extra" ELSE preset.config1
    /\ SampleRead /\ PreciseRead
    /\ attr.exclusive = (preset.exclusive \/ Value(given, "excl", 0) # 0)

AsRead ==
    /\ ~Contradicts(given) /\ MasksRead /\ AttrRead /\ uattr = preset /\ ret = "none"

AInv ==
    /\ TypeOK
    /\ Once(given) /\ \A g \in given : g.name \in Offered
    /\ phase = "call" => /\ given = {} /\ attr = preset /\ uattr = preset
                         /\ MasksRead /\ ret = "none"
    /\ phase = "attrs" => AsRead
    /\ AsAsked

LEMMA ValueOf ==
  ASSUME NEW set, Once(set), NEW g \in set, NEW d
  PROVE  Named(set, g.name) /\ Value(set, g.name, d) = g.ival
  <1>1. Named(set, g.name)
    BY DEF Named
  <1> DEFINE c == CHOOSE t \in set : t.name = g.name
  <1>2. c \in set /\ c.name = g.name
    OBVIOUS
  <1>3. c = g
    BY <1>2 DEF Once
  <1> QED  BY <1>1, <1>3 DEF Value

LEMMA ValueNone ==
  ASSUME NEW set, NEW n, NEW d, ~Named(set, n)
  PROVE  Value(set, n, d) = d
  BY DEF Value

\* what is read of one more attribute, whose name is new
LEMMA ValueAdd ==
  ASSUME NEW set, Once(set), NEW t, \A g \in set : g.name # t.name
  PROVE  /\ Once(set \cup {t})
         /\ \A n : Named(set \cup {t}, n) <=> (n = t.name \/ Named(set, n))
         /\ \A n, d : Value(set \cup {t}, n, d) = IF n = t.name THEN t.ival ELSE Value(set, n, d)
  <1>1. Once(set \cup {t})
    BY DEF Once
  <1>2. \A n : Named(set \cup {t}, n) <=> (n = t.name \/ Named(set, n))
    BY DEF Named
  <1>3. ASSUME NEW n, NEW d
        PROVE  Value(set \cup {t}, n, d) = IF n = t.name THEN t.ival ELSE Value(set, n, d)
    <2>1. CASE n = t.name
      BY <1>1, <2>1, ValueOf
    <2>2. CASE n # t.name /\ Named(set, n)
      <3>1. PICK g \in set : g.name = n
        BY <2>2 DEF Named
      <3>2. Value(set, n, d) = g.ival
        BY <3>1, ValueOf
      <3>3. g \in set \cup {t}
        OBVIOUS
      <3>4. Value(set \cup {t}, n, d) = g.ival
        BY <1>1, <3>1, <3>3, ValueOf
      <3> QED  BY <2>2, <3>2, <3>4
    <2>3. CASE n # t.name /\ ~Named(set, n)
      BY <1>2, <2>3, ValueNone
    <2> QED  BY <2>1, <2>2, <2>3
  <1> QED  BY <1>1, <1>2, <1>3

LEMMA ValueNat ==
  ASSUME TypeOK, NEW n, NEW d \in Nat
  PROVE  Value(given, n, d) \in Nat
  <1>1. CASE Named(given, n)
    <2> DEFINE c == CHOOSE t \in given : t.name = n
    <2>1. c \in given
      BY <1>1 DEF Named
    <2>2. c.ival \in Nat
      BY <2>1, PerfAssumption DEF TypeOK
    <2> QED  BY <1>1, <2>2 DEF Value
  <1>2. CASE ~Named(given, n)
    BY <1>2, ValueNone
  <1> QED  BY <1>1, <1>2

\* the attributes that read the same field
LEMMA OfferedFacts ==
  ASSUME TypeOK
  PROVE  ~("precise" \in Offered /\ "hw_smpl" \in Offered)
  <1>1. pmu.glue \in {"intel", "amd64", "amd64_fam10h", "amd64_nb", "arm"} /\ pmu.pebs \in BOOLEAN
    BY PerfAssumption DEF TypeOK
  <1>2. CASE pmu.glue = "intel"
    <2>1. CASE pmu.pebs
      BY <1>2, <2>1 DEF Offered, Removed
    <2>2. CASE ~pmu.pebs
      BY <1>2, <2>2 DEF Offered, Removed
    <2> QED  BY <2>1, <2>2
  <1>3. CASE pmu.glue # "intel"
    <2>1. "precise" \in Removed
      BY <1>1, <1>3 DEF Removed, Names
    <2> QED  BY <2>1 DEF Offered
  <1> QED  BY <1>2, <1>3

\* An attribute is invalid exactly if it makes the attributes contradict each
\* other or the attr of the caller.
LEMMA ContradictsAdd ==
  ASSUME AInv, phase = "attrs", NEW t \in Tokens, \A g \in given : g.name # t.name
  PROVE  Contradicts(given \cup {t}) <=> Invalid(t)
  <1> DEFINE new == given \cup {t}
  <1>1. /\ Once(given) /\ ~Contradicts(given) /\ SampleRead /\ TypeOK
    BY DEF AInv, AsRead, AttrRead
  <1>2. /\ \A g \in given : g.name \in {"period", "freq"} => g.ival # 0
        /\ ~(Value(given, "precise", 0) > 3) /\ ~(Value(given, "cpu", 0) >= IntMax)
        /\ ~(Named(given, "period") /\ (Named(given, "freq") \/ preset.freq))
        /\ ~(Named(given, "freq") /\ preset.sample # 0)
    BY <1>1 DEF Contradicts
  <1>3. /\ \A n : Named(new, n) <=> (n = t.name \/ Named(given, n))
        /\ \A n, d : Value(new, n, d) = IF n = t.name THEN t.ival ELSE Value(given, n, d)
    BY <1>1, ValueAdd
  <1>4. (\E g \in new : g.name \in {"period", "freq"} /\ g.ival = 0)
          <=> (t.name \in {"period", "freq"} /\ t.ival = 0)
    BY <1>2
  <1>5. ~Named(given, t.name)
    BY DEF Named
  <1>6. \A n, d : ~Named(given, n) => Value(given, n, d) = d
    BY ValueNone
  <1> HIDE DEF new
  <1>7. Contradicts(new) <=>
          \/ t.name \in {"period", "freq"} /\ t.ival = 0
          \/ t.name = "precise" /\ t.ival > 3
          \/ t.name = "cpu" /\ t.ival >= IntMax
          \/ Named(new, "period") /\ (Named(new, "freq") \/ preset.freq)
          \/ Named(new, "freq") /\ preset.sample # 0
    BY <1>2, <1>3, <1>4 DEF Contradicts
  <1>8. CASE t.name = "period"
    <2>1. attr.freq = (preset.freq \/ Named(given, "freq"))
      BY <1>1 DEF SampleRead
    <2>2. Named(new, "period") /\ (Named(new, "freq") <=> Named(given, "freq"))
      BY <1>3, <1>8
    <2>3. Invalid(t) <=> t.ival = 0 \/ attr.freq
      BY <1>8 DEF Invalid
    <2>4. Contradicts(new) <=> t.ival = 0 \/ Named(given, "freq") \/ preset.freq
      BY <1>2, <1>7, <1>8, <2>2
    <2> QED  BY <2>1, <2>3, <2>4 DEF new
  <1>9. CASE t.name = "freq"
    <2>1. attr.sample # 0 <=> Named(given, "period") \/ preset.sample # 0
      <3>1. CASE Named(given, "period")
        <4>1. PICK g \in given : g.name = "period"
          BY <3>1 DEF Named
        <4>2. attr.sample = g.ival
          BY <1>1, <4>1, ValueOf DEF SampleRead
        <4> QED  BY <1>2, <3>1, <4>1, <4>2
      <3>2. CASE ~Named(given, "period")
        <4>1. attr.sample = preset.sample
          BY <1>1, <1>5, <1>6, <1>9, <3>2 DEF SampleRead
        <4> QED  BY <3>2, <4>1
      <3> QED  BY <3>1, <3>2
    <2>2. Named(new, "freq") /\ (Named(new, "period") <=> Named(given, "period"))
      BY <1>3, <1>9
    <2>3. Invalid(t) <=> t.ival = 0 \/ attr.sample # 0
      BY <1>9 DEF Invalid
    <2>4. Contradicts(new) <=> t.ival = 0 \/ Named(given, "period") \/ preset.sample # 0
      BY <1>2, <1>7, <1>9, <2>2
    <2> QED  BY <2>1, <2>3, <2>4 DEF new
  <1>10. CASE t.name \notin {"period", "freq"}
    <2>1. (Named(new, "freq") <=> Named(given, "freq")) /\ (Named(new, "period") <=> Named(given, "period"))
      BY <1>3, <1>10
    <2>2. Contradicts(new) <=> (t.name = "precise" /\ t.ival > 3) \/ (t.name = "cpu" /\ t.ival >= IntMax)
      BY <1>2, <1>7, <1>10, <2>1
    <2> QED  BY <1>10, <2>2 DEF Invalid, new
  <1> QED  BY <1>8, <1>9, <1>10

LEMMA MasksAdd ==
  ASSUME AInv, phase = "attrs", NEW t \in Tokens, Attr(t), ~Invalid(t)
  PROVE  MasksRead'
  <1> DEFINE new == given \cup {t}
  <1>1. /\ Once(given) /\ MasksRead /\ \A g \in given : g.name # t.name
    BY DEF AInv, AsRead, Attr
  <1>2. /\ \A n : Named(new, n) <=> (n = t.name \/ Named(given, n))
        /\ \A n, d : Value(new, n, d) = IF n = t.name THEN t.ival ELSE Value(given, n, d)
    BY <1>1, ValueAdd
  <1>3. ~Named(given, t.name) /\ \A d : Value(given, t.name, d) = d
    BY <1>1, ValueNone DEF Named
  <1>4. given' = new
    BY DEF Attr
  <1> HIDE DEF new
  <1>5. plm' = {n \in Levels : Value(new, n, 0) # 0}
    <2>1. plm' = IF t.name \in Levels /\ t.ival # 0 THEN plm \cup {t.name} ELSE plm
      BY DEF Attr
    <2>2. plm = {n \in Levels : Value(given, n, 0) # 0}
      BY <1>1 DEF MasksRead
    <2> QED  BY <1>2, <1>3, <2>1, <2>2
  <1>6. has_plm' = (\E n \in Levels : Named(new, n))
    BY <1>1, <1>2 DEF Attr, MasksRead
  <1>7. /\ vmx_plm' = (IF Named(new, "mg") THEN {"u"} ELSE {}) \cup (IF Named(new, "mh") THEN {"k"} ELSE {})
        /\ has_vmx_plm' = (Named(new, "mg") \/ Named(new, "mh"))
    <2>1. CASE t.name = "mg"
      BY <1>1, <1>2, <1>3, <2>1 DEF Attr, MasksRead
    <2>2. CASE t.name = "mh"
      BY <1>1, <1>2, <1>3, <2>2 DEF Attr, MasksRead
    <2>3. CASE t.name \notin {"mg", "mh"}
      BY <1>1, <1>2, <1>3, <2>3 DEF Attr, MasksRead
    <2> QED  BY <2>1, <2>2, <2>3
  <1>8. pinned' = (Value(new, "pinned", 0) # 0)
    BY <1>1, <1>2 DEF Attr, MasksRead
  <1> QED  BY <1>4, <1>5, <1>6, <1>7, <1>8 DEF MasksRead

LEMMA FieldsAdd ==
  ASSUME AInv, phase = "attrs", NEW t \in Tokens, Attr(t), ~Invalid(t)
  PROVE  AttrRead'
  <1> DEFINE new == given \cup {t}
  <1>1. /\ Once(given) /\ AttrRead /\ TypeOK /\ ~Contradicts(given)
        /\ t.name \in Offered /\ \A g \in given : g.name # t.name /\ g.name \in Offered
    BY DEF AInv, AsRead, Attr
  <1>2. /\ \A n : Named(new, n) <=> (n = t.name \/ Named(given, n))
        /\ \A n, d : Value(new, n, d) = IF n = t.name THEN t.ival ELSE Value(given, n, d)
    BY <1>1, ValueAdd
  <1>3. ~Named(given, t.name) /\ \A d : Value(given, t.name, d) = d
    BY <1>1, ValueNone DEF Named
  <1>4. given' = new /\ attr' = Changed(t) /\ pmu' = pmu /\ preset' = preset
    BY DEF Attr, inputs
  <1>5. attr = [f \in {"config", "config1", "sample", "freq", "precise_ip", "exclusive", "pinned", "exclude"} |->
                  attr[f]]
    BY <1>1 DEF TypeOK, Attrs
  <1>6. t.ival \in Nat
    BY PerfAssumption
  <1>7. Contradicts(new) <=> Invalid(t)
    BY <1>1, ContradictsAdd
  <1>8. ~(Named(new, "period") /\ Named(new, "freq"))
    BY <1>7 DEF Contradicts
  <1> HIDE DEF new
  <1>9. /\ attr'.config = "code"
        /\ attr'.config1 = IF pmu.codes = 2 THEN "extra" ELSE preset.config1
    BY <1>1, <1>4, <1>5 DEF Changed, AttrRead
  <1>10. /\ attr'.sample = Value(new, "period", Value(new, "freq", preset.sample))
         /\ attr'.freq = (preset.freq \/ Named(new, "freq"))
    <2>1. SampleRead
      BY <1>1 DEF AttrRead
    <2>2. CASE t.name = "period"
      BY <1>2, <1>4, <1>5, <2>1, <2>2 DEF Changed, SampleRead
    <2>3. CASE t.name = "freq"
      <3>1. ~Named(given, "period")
        BY <1>2, <1>8, <2>3
      <3>2. Value(new, "period", Value(new, "freq", preset.sample)) = t.ival
        BY <1>2, <2>3, <3>1, ValueNone
      <3> QED  BY <1>2, <1>4, <1>5, <2>1, <2>3, <3>2 DEF Changed, SampleRead
    <2>4. CASE t.name \notin {"period", "freq"}
      <3>1. attr'.sample = attr.sample /\ attr'.freq = attr.freq
        BY <1>4, <1>5, <2>4 DEF Changed
      <3>2. \A d : Value(new, "period", d) = Value(given, "period", d) /\ Value(new, "freq", d) = Value(given, "freq", d)
        BY <1>2, <2>4
      <3>3. Named(new, "freq") <=> Named(given, "freq")
        BY <1>2, <2>4
      <3> QED  BY <2>1, <3>1, <3>2, <3>3 DEF SampleRead
    <2> QED  BY <2>2, <2>3, <2>4
  <1>11. attr'.precise_ip = IF Named(new, "hw_smpl") THEN Flag(Value(new, "hw_smpl", 0) # 0)
                            ELSE Value(new, "precise", preset.precise_ip)
    <2>1. PreciseRead
      BY <1>1 DEF AttrRead
    <2>2. CASE t.name = "hw_smpl"
      BY <1>2, <1>4, <1>5, <2>2 DEF Changed, Bool, Flag
    <2>3. CASE t.name = "precise"
      <3>1. ~Named(given, "hw_smpl")
        BY <1>1, <2>3, OfferedFacts DEF Named
      <3> QED  BY <1>2, <1>4, <1>5, <2>3, <3>1 DEF Changed
    <2>4. CASE t.name \notin {"precise", "hw_smpl"}
      BY <1>2, <1>4, <1>5, <2>1, <2>4 DEF Changed, PreciseRead
    <2> QED  BY <2>2, <2>3, <2>4
  <1>12. attr'.exclusive = (preset.exclusive \/ Value(new, "excl", 0) # 0)
    <2>1. attr.exclusive = (preset.exclusive \/ Value(given, "excl", 0) # 0)
      BY <1>1 DEF AttrRead
    <2>2. CASE t.name = "excl"
      BY <1>2, <1>3, <1>4, <1>5, <2>1, <2>2 DEF Changed
    <2>3. CASE t.name # "excl"
      BY <1>2, <1>4, <1>5, <2>1, <2>3 DEF Changed
    <2> QED  BY <2>2, <2>3
  <1> QED  BY <1>4, <1>9, <1>10, <1>11, <1>12 DEF AttrRead, SampleRead, PreciseRead

Modes == {"user", "kernel", "hv", "guest", "host"}

LEMMA SameAttr ==
  ASSUME NEW r \in Attrs, NEW s \in Attrs, r.config = s.config, r.config1 = s.config1, r.sample = s.sample,
         r.freq = s.freq, r.precise_ip = s.precise_ip, r.exclusive = s.exclusive, r.pinned = s.pinned,
         r.exclude = s.exclude
  PROVE  r = s
  BY DEF Attrs

\* the modes that are not measured, in terms of the two masks
LEMMA FinalExclude ==
  ASSUME TypeOK
  PROVE  /\ Final.exclude \subseteq Modes
         /\ "user" \in Final.exclude <=> "u" \notin Plm
         /\ "kernel" \in Final.exclude <=> "k" \notin Plm
         /\ "hv" \in Final.exclude <=> "h" \notin Plm
         /\ "guest" \in Final.exclude <=> "u" \notin Vmx
         /\ "host" \in Final.exclude <=> "k" \notin Vmx
  <1>1. Final.exclude = {x \in Modes : CASE x = "user" -> "u" \notin Plm
                                         [] x = "kernel" -> "k" \notin Plm
                                         [] x = "hv" -> "h" \notin Plm
                                         [] x = "guest" -> "u" \notin Vmx
                                         [] x = "host" -> "k" \notin Vmx}
    BY DEF Final, TypeOK, Attrs, Modes
  <1> QED  BY <1>1 DEF Modes

LEMMA MeaningExclude ==
  ASSUME NEW set
  PROVE  /\ Meaning(set).exclude \subseteq Modes
         /\ "user" \in Meaning(set).exclude <=> "u" \in pmu.plm /\ "u" \notin Asked(set)
         /\ "kernel" \in Meaning(set).exclude <=> "k" \in pmu.plm /\ "k" \notin Asked(set)
         /\ "hv" \in Meaning(set).exclude <=> "h" \in pmu.plm /\ "h" \notin Asked(set)
         /\ "guest" \in Meaning(set).exclude <=> "u" \in pmu.plm /\ ~Named(set, "mg")
         /\ "host" \in Meaning(set).exclude <=> "k" \in pmu.plm /\ Named(set, "mg") /\ ~Named(set, "mh")
  <1> DEFINE lev == {x \in {"user", "kernel", "hv"} :
                LET n == CASE x = "user" -> "u" [] x = "kernel" -> "k" [] x = "hv" -> "h"
                IN  n \in pmu.plm /\ n \notin Asked(set)}
             guest == IF "u" \in pmu.plm /\ ~Named(set, "mg") THEN {"guest"} ELSE {}
             host == IF "k" \in pmu.plm /\ Named(set, "mg") /\ ~Named(set, "mh") THEN {"host"} ELSE {}
  <1>1. Meaning(set).exclude = lev \cup guest \cup host
    BY DEF Meaning
  <1>2. /\ lev \subseteq {"user", "kernel", "hv"}
        /\ "user" \in lev <=> "u" \in pmu.plm /\ "u" \notin Asked(set)
        /\ "kernel" \in lev <=> "k" \in pmu.plm /\ "k" \notin Asked(set)
        /\ "hv" \in lev <=> "h" \in pmu.plm /\ "h" \notin Asked(set)
    OBVIOUS
  <1>3. guest \subseteq {"guest"} /\ ("guest" \in guest <=> "u" \in pmu.plm /\ ~Named(set, "mg"))
    OBVIOUS
  <1>4. host \subseteq {"host"} /\ ("host" \in host <=> "k" \in pmu.plm /\ Named(set, "mg") /\ ~Named(set, "mh"))
    OBVIOUS
  <1> HIDE DEF lev, guest, host
  <1> QED  BY <1>1, <1>2, <1>3, <1>4 DEF Modes

LEMMA FinalMeans ==
  ASSUME AInv, phase = "attrs"
  PROVE  Final = Meaning(given)
  <1>1. TypeOK /\ MasksRead /\ AttrRead
    BY DEF AInv, AsRead
  <1>2. /\ Final.config = attr.config /\ Final.config1 = attr.config1 /\ Final.sample = attr.sample
        /\ Final.freq = attr.freq /\ Final.precise_ip = attr.precise_ip /\ Final.exclusive = attr.exclusive
        /\ Final.pinned = pinned
    BY <1>1 DEF Final, TypeOK, Attrs
  <1>3. /\ Meaning(given).config = attr.config /\ Meaning(given).config1 = attr.config1
        /\ Meaning(given).sample = attr.sample /\ Meaning(given).freq = attr.freq
        /\ Meaning(given).precise_ip = attr.precise_ip /\ Meaning(given).exclusive = attr.exclusive
        /\ Meaning(given).pinned = pinned
    BY <1>1 DEF Meaning, AttrRead, SampleRead, PreciseRead, MasksRead
  <1>4. Final.exclude = Meaning(given).exclude
    <2>1. pmu.plm \subseteq Levels /\ Plm = Asked(given) \cup (Levels \ pmu.plm)
      BY <1>1, PerfAssumption DEF MasksRead, Plm, Unsupported, Asked, TypeOK
    <2>2. /\ "u" \in Vmx <=> ("u" \notin pmu.plm \/ Named(given, "mg"))
          /\ "k" \in Vmx <=> ("k" \notin pmu.plm \/ ~Named(given, "mg") \/ Named(given, "mh"))
      BY <1>1 DEF Vmx, Unsupported, MasksRead, Levels
    <2> QED  BY <1>1, <2>1, <2>2, FinalExclude, MeaningExclude DEF Modes, Levels
  <1>5. Final \in Attrs
    BY <1>1, FinalTyped
  <1>6. Meaning(given) \in Attrs
    <2>1. Meaning(given) = [config |-> Meaning(given).config, config1 |-> Meaning(given).config1,
             sample |-> Meaning(given).sample, freq |-> Meaning(given).freq,
             precise_ip |-> Meaning(given).precise_ip, exclusive |-> Meaning(given).exclusive,
             pinned |-> Meaning(given).pinned, exclude |-> Meaning(given).exclude]
      BY DEF Meaning
    <2> QED  BY <1>2, <1>3, <1>4, <1>5, <2>1 DEF Attrs
  <1> QED  BY <1>2, <1>3, <1>4, <1>5, <1>6, SameAttr

\* what a set means and whether it contradicts itself depends on the inputs only
LEMMA SameMeaning ==
  ASSUME UNCHANGED inputs
  PROVE  /\ Meaning(given)' = Meaning(given') /\ (Contradicts(given)' <=> Contradicts(given'))
         /\ Offered' = Offered
  <1>1. pmu' = pmu /\ ext' = ext /\ dfl_plm' = dfl_plm /\ preset' = preset
    BY DEF inputs
  <1>2. Asked(given)' = Asked(given')
    BY <1>1 DEF Asked
  <1> QED  BY <1>1, <1>2 DEF Meaning, Contradicts, Offered, OsAttrs, Removed

LEMMA InitRead == Init => AInv
  <1> SUFFICES ASSUME Init PROVE AInv
    OBVIOUS
  <1>1. TypeOK
    BY InitTyped
  <1>2. given = {} /\ phase = "call" /\ attr = preset /\ uattr = preset
    BY DEF Init
  <1>3. \A n : ~Named(given, n) /\ Value(given, n, 0) = 0
    BY <1>2 DEF Named, Value
  <1>4. MasksRead
    BY <1>3 DEF Init, MasksRead
  <1> QED  BY <1>1, <1>2, <1>4 DEF Init, AInv, Once, AsAsked, Done

LEMMA RefusedRead ==
  ASSUME AInv, TypeOK', Refused
  PROVE  AInv'
  <1>1. phase' = "done" /\ ret' = "refused" /\ UNCHANGED <<inputs, uattr, given>>
    BY DEF Refused, Leave
  <1>2. uattr' = preset' /\ Offered' = Offered
    BY <1>1, SameMeaning DEF AInv, Refused, inputs
  <1> QED  BY <1>1, <1>2 DEF AInv, AsAsked, Done

LEMMA PmuEncodeRead ==
  ASSUME AInv, TypeOK', PmuEncode
  PROVE  AInv'
  <1>1. /\ given = {} /\ attr = preset /\ uattr = preset /\ MasksRead /\ TypeOK
        /\ UNCHANGED <<inputs, uattr, given, masks>>
    BY DEF AInv, PmuEncode, Leave
  <1>2. Offered' = Offered
    BY <1>1, SameMeaning
  <1>3. CASE phase' = "done" /\ ret' = "notsupp"
    BY <1>1, <1>2, <1>3 DEF AInv, AsAsked, Done, inputs
  <1>4. CASE /\ phase' = "attrs" /\ ret' = ret
             /\ attr' = [attr EXCEPT !.config = "code", !.config1 = IF pmu.codes = 2 THEN "extra" ELSE @]
    <2>1. \A n, d : ~Named(given, n) /\ Value(given, n, d) = d
      BY <1>1 DEF Named, Value
    <2>2. ~Contradicts(given)
      BY <2>1, <1>1, PerfAssumption DEF Contradicts
    <2>3. ~Contradicts(given)'
      BY <1>1, <2>2, SameMeaning
    <2>4. MasksRead'
      BY <1>1 DEF MasksRead, masks
    <2>5. AttrRead'
      <3>1. given' = given /\ preset' = preset /\ pmu' = pmu
        BY <1>1 DEF inputs
      <3>2. /\ attr'.config = "code" /\ attr'.config1 = IF pmu.codes = 2 THEN "extra" ELSE attr.config1
            /\ attr'.sample = attr.sample /\ attr'.freq = attr.freq
            /\ attr'.precise_ip = attr.precise_ip /\ attr'.exclusive = attr.exclusive
        BY <1>1, <1>4 DEF TypeOK, Attrs
      <3>3. attr.freq \in BOOLEAN /\ attr.exclusive \in BOOLEAN
        BY <1>1 DEF TypeOK, Attrs
      <3> QED  BY <1>1, <2>1, <3>1, <3>2, <3>3 DEF AttrRead, SampleRead, PreciseRead
    <2>6. ret' = "none" /\ uattr' = preset'
      BY <1>1, <1>4 DEF AInv, PmuEncode, inputs
    <2> QED  BY <1>1, <1>2, <1>4, <2>3, <2>4, <2>5, <2>6 DEF AInv, AsRead, AsAsked, Done
  <1> QED  BY <1>3, <1>4 DEF PmuEncode, Leave

LEMMA AttrReadStep ==
  ASSUME AInv, TypeOK', NEW t \in Tokens, Attr(t)
  PROVE  AInv'
  <1>1. /\ Once(given) /\ phase = "attrs" /\ AsRead /\ t.name \in Offered
        /\ \A g \in given : g.name # t.name /\ g.name \in Offered
    BY DEF AInv, Attr
  <1>2. given' = given \cup {t} /\ UNCHANGED <<inputs, uattr>>
    BY DEF Attr
  <1>3. Once(given') /\ \A g \in given' : g.name \in Offered'
    <2>1. Once(given')
      BY <1>1, <1>2, ValueAdd
    <2> QED  BY <1>1, <1>2, <2>1, SameMeaning
  <1>4. Contradicts(given)' <=> Invalid(t)
    <2>1. Contradicts(given \cup {t}) <=> Invalid(t)
      BY <1>1, ContradictsAdd
    <2> QED  BY <1>2, <2>1, SameMeaning
  <1>5. uattr' = preset'
    BY <1>1, <1>2 DEF AsRead, inputs
  <1>6. CASE Invalid(t)
    <2>1. phase' = "done" /\ ret' = "attr_val"
      BY <1>6 DEF Attr
    <2> QED  BY <1>3, <1>4, <1>5, <1>6, <2>1 DEF AInv, AsAsked, Done
  <1>7. CASE ~Invalid(t)
    <2>1. phase' = "attrs" /\ ret' = "none"
      BY <1>1, <1>7 DEF Attr, AsRead
    <2>2. MasksRead' /\ AttrRead'
      BY <1>1, <1>7, MasksAdd, FieldsAdd
    <2> QED  BY <1>3, <1>4, <1>5, <1>7, <2>1, <2>2 DEF AInv, AsRead, AsAsked, Done
  <1> QED  BY <1>6, <1>7

LEMMA FinishRead ==
  ASSUME AInv, TypeOK', Finish
  PROVE  AInv'
  <1>1. /\ phase = "attrs" /\ phase' = "done" /\ ret' \in {"success", "nomem"} /\ uattr' = Final
        /\ UNCHANGED <<inputs, given>>
    BY DEF Finish
  <1>2. Once(given') /\ (\A g \in given' : g.name \in Offered') /\ ~Contradicts(given)'
    <2>1. Once(given) /\ (\A g \in given : g.name \in Offered) /\ ~Contradicts(given)
      BY <1>1 DEF AInv, AsRead
    <2> QED  BY <1>1, <2>1, SameMeaning
  <1>3. uattr' = Meaning(given)'
    BY <1>1, FinalMeans, SameMeaning
  <1> QED  BY <1>1, <1>2, <1>3 DEF AInv, AsAsked, Done

LEMMA StepRead ==
  ASSUME AInv, [Next]_vars
  PROVE  AInv'
  <1>1. TypeOK'
    BY StepTyped DEF AInv
  <1>2. CASE UNCHANGED vars
    <2>1. UNCHANGED <<phase, inputs, uattr, attr, given, masks, ret>>
      BY <1>2 DEF vars
    <2>2. /\ Meaning(given)' = Meaning(given) /\ (Contradicts(given)' <=> Contradicts(given))
          /\ Offered' = Offered
      BY <2>1, SameMeaning
    <2>3. MasksRead' = MasksRead /\ AttrRead' = AttrRead
      BY <2>1 DEF MasksRead, AttrRead, SampleRead, PreciseRead, masks, inputs
    <2>4. AsAsked' = AsAsked
      BY <2>1, <2>2 DEF AsAsked, Done, inputs
    <2> QED  BY <1>1, <2>1, <2>2, <2>3, <2>4 DEF AInv, AsRead, inputs
  <1> QED  BY <1>1, <1>2, RefusedRead, PmuEncodeRead, AttrReadStep, FinishRead DEF Next

\* Whatever attributes of perf_event are given, and in whatever order: the
\* encoding succeeds exactly if they contradict neither each other nor the attr
\* of the caller, the attr then holds what the set of them means, and a call
\* refused leaves it alone (pfmlib_perf_event_encode).
THEOREM AttrIsAsAsked == Spec => []AsAsked
  <1>1. AInv /\ [Next]_vars => AInv'
    BY StepRead
  <1>2. AInv => AsAsked
    BY DEF AInv
  <1> QED  BY InitRead, <1>1, <1>2, PTL DEF Spec

(***************************************************************************)
(* The string of an encoding.  It is built after the attr went to the      *)
(* caller, from the same masks.                                            *)
(***************************************************************************)
FInv ==
    fstr # {} => /\ phase = "done" /\ ret = "success" /\ MasksRead
                 /\ attr = uattr /\ uattr = Final /\ fstr = Printed

\* the names of the string: the levels a PMU supports but for the hypervisor,
\* and a period with every frequency
LEMMA OfferedNames ==
  ASSUME TypeOK
  PROVE  /\ \A n \in {"u", "k"} : n \in pmu.plm => n \in Offered
         /\ "freq" \in Offered <=> "period" \in Offered
  <1>1. /\ pmu.glue \in {"intel", "amd64", "amd64_fam10h", "amd64_nb", "arm"}
        /\ pmu.glue = "amd64_nb" => pmu.plm = {}
    BY PerfAssumption DEF TypeOK
  <1>2. ext \in BOOLEAN
    BY DEF TypeOK
  <1>3. /\ "u" \in OsAttrs /\ "k" \in OsAttrs
        /\ "freq" \in OsAttrs <=> "period" \in OsAttrs
    BY <1>2 DEF OsAttrs, Names
  <1>4. /\ \A n \in {"u", "k"} : n \in pmu.plm => n \notin Removed
        /\ "period" \in Removed <=> "freq" \in Removed
    <2>1. CASE pmu.glue = "intel"
      BY <2>1 DEF Removed
    <2>2. CASE pmu.glue = "amd64_nb"
      BY <1>1, <2>2 DEF Removed, Names
    <2>3. CASE pmu.glue \in {"amd64", "amd64_fam10h", "arm"}
      BY <2>3 DEF Removed
    <2> QED  BY <1>1, <2>1, <2>2, <2>3
  <1> QED  BY <1>3, <1>4 DEF Offered

LEMMA FinalStable ==
  ASSUME TypeOK, attr' = Final, UNCHANGED <<inputs, masks>>
  PROVE  Final' = Final /\ Printed' = Printed
  <1>1. pmu' = pmu /\ dfl_plm' = dfl_plm /\ pinned' = pinned /\ Offered' = Offered
    BY SameMeaning DEF inputs, masks
  <1>2. Plm' = Plm /\ Vmx' = Vmx
    BY <1>1 DEF Plm, Vmx, Unsupported, masks
  <1>3. Final' = Final
    <2> DEFINE ex == {x \in {"user", "kernel", "hv", "guest", "host"} :
                                CASE x = "user" -> "u" \notin Plm
                                  [] x = "kernel" -> "k" \notin Plm
                                  [] x = "hv" -> "h" \notin Plm
                                  [] x = "guest" -> "u" \notin Vmx
                                  [] x = "host" -> "k" \notin Vmx}
    <2>1. Final = [attr EXCEPT !.exclude = ex, !.pinned = pinned]
      BY DEF Final
    <2>2. Final' = [attr' EXCEPT !.exclude = ex, !.pinned = pinned]
      BY <1>1, <1>2 DEF Final
    <2> HIDE DEF ex
    <2>3. attr \in Attrs
      BY DEF TypeOK
    <2> QED  BY <2>1, <2>2, <2>3 DEF Attrs
  <1> QED  BY <1>1, <1>2, <1>3 DEF Printed, PrintedFor

LEMMA StepPrinted ==
  ASSUME AInv, FInv, [Next]_vars
  PROVE  FInv'
  <1>1. CASE UNCHANGED vars
    <2>1. UNCHANGED <<phase, inputs, uattr, attr, given, masks, ret, fstr>>
      BY <1>1 DEF vars
    <2>2. MasksRead' = MasksRead /\ Offered' = Offered
      BY <2>1, SameMeaning DEF MasksRead, masks
    <2>3. Plm' = Plm /\ Vmx' = Vmx
      BY <2>1 DEF Plm, Vmx, Unsupported, masks, inputs
    <2>4. Final' = Final
      BY <2>1, <2>3 DEF Final, masks
    <2>5. Printed' = Printed
      BY <2>2, <2>3, <2>4 DEF Printed, PrintedFor
    <2> QED  BY <2>1, <2>2, <2>4, <2>5 DEF FInv
  <1>2. CASE Refused \/ PmuEncode \/ \E t \in Tokens : Attr(t)
    <2>1. phase # "done" /\ fstr' = fstr
      BY <1>2 DEF Refused, PmuEncode, Leave, Attr
    <2> QED  BY <2>1 DEF FInv
  <1>3. CASE Finish
    <2>1. /\ attr' = Final /\ uattr' = Final /\ UNCHANGED <<inputs, given, masks>>
          /\ phase = "attrs" /\ phase' = "done"
      BY <1>3 DEF Finish
    <2>2. Final' = Final /\ Printed' = Printed
      BY <2>1, FinalStable DEF AInv
    <2>3. MasksRead'
      BY <2>1 DEF AInv, AsRead, MasksRead, masks
    <2>4. fstr' # {} => ret' = "success" /\ fstr' = Printed
      BY <1>3, <2>1 DEF Finish, FInv
    <2> QED  BY <2>1, <2>2, <2>3, <2>4 DEF FInv
  <1> QED  BY <1>1, <1>2, <1>3 DEF Next

\* the names and the values of the string
InString == {x \in Offered \ {"cpu", "pinned"} : x \in {"period", "freq"} => uattr.sample # 0}

LEMMA StringValues ==
  ASSUME AInv, FInv, fstr # {}
  PROVE  /\ \A n : Named(fstr, n) <=> n \in InString
         /\ \A n, d : n \notin InString => Value(fstr, n, d) = d
         /\ \A n \in Levels \cap InString : \A d : Value(fstr, n, d) = Flag(n \in Plm)
         /\ \A n \in {"precise", "hw_smpl"} \cap InString : \A d : Value(fstr, n, d) = uattr.precise_ip
         /\ "excl" \in InString => \A d : Value(fstr, "excl", d) = Flag(uattr.exclusive)
  <1> DEFINE value(n) ==
            CASE n \in Levels -> Flag(n \in Plm)
              [] n \in {"precise", "hw_smpl"} -> Final.precise_ip
              [] n \in {"period", "freq"} -> Final.sample
              [] n = "mg" -> Flag("guest" \notin Final.exclude)
              [] n = "mh" -> Flag("host" \notin Final.exclude)
              [] n = "excl" -> Flag(Final.exclusive)
  <1>1. uattr = Final /\ fstr = Printed
    BY DEF FInv
  <1>2. fstr = {[name |-> n, ival |-> value(n)] : n \in InString}
    BY <1>1 DEF Printed, PrintedFor, InString
  <1>3. \A n \in Levels : value(n) = Flag(n \in Plm)
    BY DEF Levels
  <1>4. \A n \in {"precise", "hw_smpl"} : value(n) = Final.precise_ip
    BY DEF Levels
  <1>5. value("excl") = Flag(Final.exclusive)
    BY DEF Levels
  <1> HIDE DEF value
  <1>6. Once(fstr)
    BY <1>2 DEF Once
  <1>7. \A n : Named(fstr, n) <=> n \in InString
    <2>1. ASSUME NEW n, Named(fstr, n)
          PROVE  n \in InString
      <3>1. PICK g \in fstr : g.name = n
        BY <2>1 DEF Named
      <3>2. PICK x \in InString : g = [name |-> x, ival |-> value(x)]
        BY <1>2
      <3> QED  BY <3>1, <3>2
    <2>2. ASSUME NEW n \in InString
          PROVE  Named(fstr, n)
      <3>1. [name |-> n, ival |-> value(n)] \in fstr
        BY <1>2
      <3>2. [name |-> n, ival |-> value(n)].name = n
        OBVIOUS
      <3> QED  BY <3>1, <3>2 DEF Named
    <2> QED  BY <2>1, <2>2
  <1>8. \A n, d : n \notin InString => Value(fstr, n, d) = d
    BY <1>7, ValueNone
  <1>9. ASSUME NEW n \in InString, NEW d
        PROVE  Value(fstr, n, d) = value(n)
    <2>1. PICK g \in fstr : g = [name |-> n, ival |-> value(n)]
      BY <1>2
    <2>2. g.name = n /\ g.ival = value(n)
      BY <2>1
    <2> QED  BY <1>6, <2>2, ValueOf
  <1> QED  BY <1>1, <1>3, <1>4, <1>5, <1>7, <1>8, <1>9

LEMMA PrintedMeasures ==
  ASSUME AInv, FInv
  PROVE  FstrMeasures
  <1>a. ASSUME fstr # {}, Named(fstr, "period")
        PROVE  Contradicts(fstr)
    <2>1. "period" \in InString /\ uattr.sample # 0
      BY <1>a, StringValues DEF InString
    <2>2. "freq" \in InString
      BY <2>1, OfferedNames DEF InString, AInv
    <2>3. Named(fstr, "freq")
      BY <1>a, <2>2, StringValues
    <2> QED  BY <1>a, <2>3 DEF Contradicts
  <1> SUFFICES ASSUME fstr # {}, ~Named(fstr, "period"), preset.precise_ip = 0
               PROVE  /\ ~Contradicts(fstr)
                      /\ Meaning(fstr).exclude \cap Nameable = uattr.exclude \cap Nameable
                      /\ Meaning(fstr).precise_ip = uattr.precise_ip
                      /\ Meaning(fstr).exclusive = uattr.exclusive
    BY <1>a DEF FstrMeasures
  <1>1. /\ TypeOK /\ ret = "success" /\ phase = "done" /\ uattr = Final /\ uattr = Meaning(given)
        /\ \A g \in given : g.name \in Offered
    BY DEF AInv, FInv, AsAsked, Done
  <1>2. /\ \A n : Named(fstr, n) <=> n \in InString
        /\ \A n, d : n \notin InString => Value(fstr, n, d) = d
        /\ \A n \in Levels \cap InString : \A d : Value(fstr, n, d) = Flag(n \in Plm)
        /\ \A n \in {"precise", "hw_smpl"} \cap InString : \A d : Value(fstr, n, d) = uattr.precise_ip
        /\ "excl" \in InString => \A d : Value(fstr, "excl", d) = Flag(uattr.exclusive)
    BY StringValues
  <1>3. uattr.precise_ip \in 0 .. 3 /\ uattr.exclusive \in BOOLEAN /\ preset.exclusive \in BOOLEAN
    BY <1>1, PerfAssumption DEF TypeOK, Attrs
  <1>4. \A n : n \notin Offered => ~Named(given, n) /\ \A d : Value(given, n, d) = d
    BY <1>1, ValueNone DEF Named
  <1>5. ~Contradicts(fstr)
    <2>1. ~Named(fstr, "period") /\ ~Named(fstr, "freq")
      BY <1>1, <1>2, OfferedNames DEF InString
    <2>2. \A g \in fstr : g.name \notin {"period", "freq"}
      BY <2>1 DEF Named
    <2>3. ~(Value(fstr, "precise", 0) > 3)
      BY <1>2, <1>3
    <2>4. Value(fstr, "cpu", 0) = 0
      BY <1>2 DEF InString
    <2>5. ~(Value(fstr, "cpu", 0) >= IntMax)
      BY <2>4, PerfAssumption
    <2> QED  BY <2>1, <2>2, <2>3, <2>5 DEF Contradicts
  <1>6. Meaning(fstr).exclude \cap Nameable = uattr.exclude \cap Nameable
    <2>1. ASSUME NEW n \in Levels, n \in pmu.plm, n \in Offered
          PROVE  n \in Asked(fstr) <=> n \in Plm
      <3>1. n \in InString
        BY <2>1 DEF InString, Levels
      <3>2. Asked(fstr) = {x \in Levels : Value(fstr, x, 0) # 0}
        BY <1>2, <3>1 DEF Asked
      <3>3. Value(fstr, n, 0) = Flag(n \in Plm)
        BY <1>2, <3>1
      <3> QED  BY <3>2, <3>3 DEF Flag
    <2>2. \A n \in Levels : n \notin pmu.plm => n \in Plm
      BY DEF Plm, Unsupported
    <2>3. /\ "user" \in Meaning(fstr).exclude <=> "user" \in uattr.exclude
          /\ "kernel" \in Meaning(fstr).exclude <=> "kernel" \in uattr.exclude
      BY <1>1, <2>1, <2>2, OfferedNames, FinalExclude, MeaningExclude DEF Levels
    <2>4. "hv" \in Nameable => ("hv" \in Meaning(fstr).exclude <=> "hv" \in uattr.exclude)
      <3>1. "hv" \in Nameable => "h" \notin pmu.plm \/ "h" \in Offered
        BY DEF Nameable
      <3> QED  BY <1>1, <2>1, <2>2, <3>1, FinalExclude, MeaningExclude DEF Levels
    <2>5. Nameable \subseteq {"user", "kernel", "hv"}
      BY DEF Nameable
    <2> QED  BY <2>3, <2>4, <2>5
  <1>7. Meaning(fstr).precise_ip = uattr.precise_ip
    <2>1. Meaning(fstr).precise_ip = IF Named(fstr, "hw_smpl") THEN Flag(Value(fstr, "hw_smpl", 0) # 0)
                                     ELSE Value(fstr, "precise", 0)
      BY DEF Meaning
    <2>2. uattr.precise_ip = IF Named(given, "hw_smpl") THEN Flag(Value(given, "hw_smpl", 0) # 0)
                             ELSE Value(given, "precise", 0)
      BY <1>1 DEF Meaning
    <2>3. CASE "hw_smpl" \in Offered
      <3>1. "hw_smpl" \in InString /\ "precise" \notin Offered
        BY <1>1, <2>3, OfferedFacts DEF InString
      <3>2. uattr.precise_ip \in {0, 1}
        BY <1>4, <2>2, <3>1 DEF Flag
      <3> QED  BY <1>2, <2>1, <3>1, <3>2 DEF Flag
    <2>4. CASE "hw_smpl" \notin Offered /\ "precise" \in Offered
      <3>1. "hw_smpl" \notin InString /\ "precise" \in InString
        BY <2>4 DEF InString
      <3> QED  BY <1>2, <2>1, <3>1
    <2>5. CASE "hw_smpl" \notin Offered /\ "precise" \notin Offered
      <3>1. "hw_smpl" \notin InString /\ "precise" \notin InString
        BY <2>5 DEF InString
      <3> QED  BY <1>2, <1>4, <2>1, <2>2, <2>5, <3>1
    <2> QED  BY <2>3, <2>4, <2>5
  <1>8. Meaning(fstr).exclusive = uattr.exclusive
    <2>1. Meaning(fstr).exclusive = (preset.exclusive \/ Value(fstr, "excl", 0) # 0)
      BY DEF Meaning
    <2>2. uattr.exclusive = (preset.exclusive \/ Value(given, "excl", 0) # 0)
      BY <1>1 DEF Meaning
    <2>3. CASE "excl" \in Offered
      <3>1. "excl" \in InString
        BY <2>3 DEF InString
      <3>2. Value(fstr, "excl", 0) = Flag(uattr.exclusive)
        BY <1>2, <3>1
      <3>3. Value(fstr, "excl", 0) # 0 <=> uattr.exclusive
        BY <3>2 DEF Flag
      <3>4. Meaning(fstr).exclusive = (preset.exclusive \/ uattr.exclusive)
        BY <2>1, <3>3
      <3>5. preset.exclusive => uattr.exclusive
        BY <2>2
      <3>6. CASE uattr.exclusive
        BY <1>3, <3>4, <3>6
      <3>7. CASE ~uattr.exclusive
        BY <1>3, <3>4, <3>5, <3>7
      <3> QED  BY <3>6, <3>7
    <2>4. CASE "excl" \notin Offered
      <3>1. "excl" \notin InString
        BY <2>4 DEF InString
      <3>2. Value(fstr, "excl", 0) = 0 /\ Value(given, "excl", 0) = 0
        BY <1>2, <1>4, <2>4, <3>1
      <3> QED  BY <2>1, <2>2, <3>2
    <2> QED  BY <2>3, <2>4
  <1> QED  BY <1>5, <1>6, <1>7, <1>8

\* The string of an encoding, given to the library again with the same attr, is
\* refused exactly if it is that of a sampling event, which has a period and a
\* frequency; otherwise it measures the levels it can name, as precisely and as
\* exclusively as before (pfmlib_perf_event_encode, the loop that builds fstr).
THEOREM StringMeasuresTheSame == Spec => []FstrMeasures
  <1>1. AInv /\ FInv /\ [Next]_vars => AInv' /\ FInv'
    BY StepRead, StepPrinted
  <1>2. Init => FInv
    BY DEF Init, FInv
  <1>3. AInv /\ FInv => FstrMeasures
    BY PrintedMeasures
  <1> QED  BY InitRead, <1>1, <1>2, <1>3, PTL DEF Spec

(***************************************************************************)
(* The memory contract of the raw encoding calls, for any number of calls  *)
(* and any size of the arrays                                              *)
(***************************************************************************)
\* where the library stands in a call
Reading == {"check", "parse", "encode", "codes"}
Writing == {"fstr", "success"}
Failing == {"error", "error_fstr", "undefined"}

RawTypes ==
    /\ pc \in {"caller"} \cup Reading \cup Writing \cup Failing
    /\ codes \in Nat /\ count \in Nat /\ need \in Nat \ {0}
    /\ arg \in [codes : Nat, count : Nat, fstr : BOOLEAN, own : BOOLEAN]
    /\ arrays \in Int /\ strings \in Int /\ events \in Int
    /\ calls \in Nat
    /\ string \in BOOLEAN /\ lost \in Nat

\* the copy of the argument holds the caller's array or, once it is written,
\* one the library has allocated where the caller had none
RawCopy ==
    /\ count <= codes
    /\ pc \in Reading => arg.codes = codes /\ arg.count <= arg.codes /\ ~arg.own
    /\ pc \in Writing =>
        /\ arg.count = need /\ need <= arg.codes
        /\ IF arg.own THEN codes = Null ELSE arg.codes = codes
    /\ pc \in Reading \cup {"fstr"} => ~string

\* every block has one owner: the caller, or the copy while it is written
RawArrays ==
    arrays = (IF codes = Null THEN 0 ELSE 1) + lost + (IF pc \in Writing /\ arg.own THEN 1 ELSE 0)
RawStrings == strings = (IF string THEN 1 ELSE 0)
RawEvents == events = (IF pc \in {"caller", "check", "parse"} THEN 0 ELSE 1)


\* the label error_fstr is reached for the array only
RawFailed ==
    /\ pc \in {"error_fstr", "undefined"} => result \in {"nomem", "toosmall"}
    /\ pc = "undefined" => arg.fstr

RawInv == RawTypes /\ RawCopy /\ RawArrays /\ RawStrings /\ RawEvents /\ RawFailed

USE RawAssumption

LEMMA RawStarts == RawInit => RawInv
  <1> SUFFICES ASSUME RawInit
               PROVE  RawInv
    OBVIOUS
  <1>1. RawTypes
    <2>1. arg \in [codes : Nat, count : Nat, fstr : BOOLEAN, own : BOOLEAN]
      BY DEF RawInit, NoArg, Null
    <2>2. string \in BOOLEAN /\ lost \in Nat
      BY Zenon DEF RawInit
    <2>3. codes \in Nat /\ count \in Nat /\ need \in Nat \ {0} /\ calls \in Nat
      BY DEF RawInit, Null
    <2>4. arrays \in Int /\ strings \in Int /\ events \in Int
      BY DEF RawInit
    <2>5. pc \in {"caller"} \cup Reading \cup Writing \cup Failing
      BY DEF RawInit
    <2> QED
      BY <2>1, <2>2, <2>3, <2>4, <2>5, Zenon DEF RawTypes
  <1>2. RawCopy
    BY DEF RawInit, RawCopy, Reading, Writing, Null
  <1>3. RawArrays /\ RawStrings /\ RawEvents /\ RawFailed
    <2>1. ~string
      BY Zenon DEF RawInit
    <2> QED
      BY <2>1 DEF RawInit, RawArrays, RawStrings, RawEvents, RawFailed, Writing, Null, NoArg
  <1> QED
    BY <1>1, <1>2, <1>3 DEF RawInv

\* the caller between two calls
LEMMA RawCaller ==
    ASSUME RawInv, (\E n \in 1 .. MaxCodes : Provide(n)) \/ FreeCodes \/ FreeString
    PROVE  RawInv'
  <1>1. CASE \E n \in 1 .. MaxCodes : Provide(n)
    <2>1. PICK n \in 1 .. MaxCodes : Provide(n)
      BY <1>1
    <2> QED
      BY <2>1 DEF RawInv, RawTypes, RawCopy, RawArrays, RawStrings, RawEvents, RawFailed, Reading, Writing, Failing, Null, Provide, call
  <1>2. CASE FreeCodes
    BY <1>2 DEF RawInv, RawTypes, RawCopy, RawArrays, RawStrings, RawEvents, RawFailed, Reading, Writing, Failing, Null, FreeCodes, call
  <1>3. CASE FreeString
    <2>1. string /\ ~string'
      BY <1>3, Zenon DEF FreeString
    <2>2. string' \in BOOLEAN
      BY <1>3, Zenon DEF FreeString
    <2>3. strings' = strings - 1
      BY <1>3 DEF FreeString
    <2>4. /\ pc = "caller"
          /\ UNCHANGED <<pc, codes, count, calls, arg, need, arrays, events, lost>>
      BY <1>3 DEF FreeString, call
    <2>5. RawTypes' /\ RawCopy' /\ RawArrays' /\ RawEvents' /\ RawFailed'
      BY <2>2, <2>3, <2>4 DEF RawInv, RawTypes, RawCopy, RawArrays, RawEvents, RawFailed, Reading, Writing, Failing
    <2>6. RawStrings'
      BY <2>1, <2>3 DEF RawInv, RawStrings
    <2> QED
      BY <2>5, <2>6 DEF RawInv
  <1> QED
    BY <1>1, <1>2, <1>3

\* the steps up to the encoding of the event
LEMMA RawReading ==
    ASSUME RawInv,
           \/ \E a \in {"old", "os"}, s \in {"zero", "small", "exact", "clean", "dirty"}, f \in WithFstr : Call(a, s, f)
           \/ Check \/ Parse \/ Encode
    PROVE  RawInv'
  <1>1. CASE \E a \in {"old", "os"}, s \in {"zero", "small", "exact", "clean", "dirty"}, f \in WithFstr : Call(a, s, f)
    <2>1. PICK a \in {"old", "os"}, s \in {"zero", "small", "exact", "clean", "dirty"}, f \in WithFstr : Call(a, s, f)
      BY <1>1
    <2>2. f \in BOOLEAN
      OBVIOUS
    <2>3. arg' = [codes |-> codes, count |-> count, fstr |-> f, own |-> FALSE]
      BY <2>1 DEF Call
    <2>4. RawTypes'
      BY <2>1, <2>2, <2>3 DEF RawInv, RawTypes, Reading, Writing, Failing, Call, caller, heap
    <2>5. RawCopy'
      BY <2>1, <2>3 DEF RawInv, RawTypes, RawCopy, Reading, Writing, Call, caller, heap
    <2>6. RawArrays' /\ RawStrings' /\ RawEvents' /\ RawFailed'
      BY <2>1 DEF RawInv, RawArrays, RawStrings, RawEvents, RawFailed, Writing, Call, caller, heap
    <2> QED
      BY <2>4, <2>5, <2>6 DEF RawInv
  <1>2. CASE Check
    BY <1>2 DEF RawInv, RawTypes, RawCopy, RawArrays, RawStrings, RawEvents, RawFailed, Reading, Writing, Failing, Check, Return, caller, call, heap
  <1>3. CASE Parse
    BY <1>3 DEF RawInv, RawTypes, RawCopy, RawArrays, RawStrings, RawEvents, RawFailed, Reading, Writing, Failing, Parse, Return, caller, call
  <1>4. CASE Encode
    BY <1>4 DEF RawInv, RawTypes, RawCopy, RawArrays, RawStrings, RawEvents, RawFailed, Reading, Writing, Failing, Encode, Error, caller, call, heap
  <1> QED
    BY <1>1, <1>2, <1>3, <1>4

\* the array for the codes
LEMMA RawCodes ==
    ASSUME RawInv, Codes
    PROVE  RawInv'
  <1>1. pc = "codes" /\ arg.codes = codes /\ arg.count <= arg.codes /\ ~arg.own /\ ~string
    BY DEF RawInv, RawCopy, Codes, Reading
  <1>2. CASE ErrorFstr("nomem") \/ ErrorFstr("toosmall")
    <2>1. pc' = "error_fstr" /\ result' \in {"nomem", "toosmall"} /\ UNCHANGED <<arg, arrays>>
      BY <1>2 DEF Codes, ErrorFstr
    <2> QED
      BY <1>1, <2>1 DEF RawInv, RawTypes, RawCopy, RawArrays, RawStrings, RawEvents, RawFailed, Reading, Writing, Failing, Codes, caller, call
  <1>3. CASE /\ arg.codes = Null /\ pc' = "fstr" /\ arrays' = arrays + 1
             /\ arg' = [arg EXCEPT !.codes = need, !.count = need, !.own = TRUE]
    <2>1. arg'.own /\ arg'.codes = need /\ arg'.count = need
      BY <1>3 DEF RawInv, RawTypes
    <2>2. UNCHANGED <<codes, count, string, calls, need, strings, events, lost>>
      BY DEF Codes, caller, call
    <2>3. arg' \in [codes : Nat, count : Nat, fstr : BOOLEAN, own : BOOLEAN]
      BY <1>3 DEF RawInv, RawTypes
    <2>4. RawTypes'
      BY <1>3, <2>2, <2>3 DEF RawInv, RawTypes, Writing
    <2>5. RawCopy'
      <3>1. codes' = Null /\ arg'.count = need' /\ need' <= arg'.codes /\ count' <= codes'
        <4>1. codes = Null /\ count <= codes /\ need <= need
          BY <1>1, <1>3 DEF RawInv, RawTypes, RawCopy
        <4> QED
          BY <2>1, <2>2, <4>1, Zenon
      <3>2. pc' \notin Reading /\ ~string'
        BY <1>1, <1>3, <2>2 DEF Reading
      <3> QED
        BY <2>1, <3>1, <3>2, Zenon DEF RawCopy
    <2>6. RawArrays'
      <3>1. arrays' = 1 + lost
        <4>1. codes = Null /\ pc \notin Writing /\ arrays' = arrays + 1
          BY <1>1, <1>3 DEF Writing
        <4>2. arrays = 0 + lost + 0
          BY <4>1 DEF RawInv, RawArrays
        <4> QED
          BY <4>1, <4>2 DEF RawInv, RawTypes
      <3>2. (IF codes' = Null THEN 0 ELSE 1) = 0 /\ (IF pc' \in Writing /\ arg'.own THEN 1 ELSE 0) = 1
        BY <1>1, <1>3, <2>1, <2>2 DEF Writing
      <3> QED
        BY <2>2, <3>1, <3>2 DEF RawInv, RawTypes, RawArrays
    <2>7. RawStrings' /\ RawEvents' /\ RawFailed'
      BY <1>1, <1>3, <2>2 DEF RawInv, RawStrings, RawEvents, RawFailed
    <2> QED
      BY <2>4, <2>5, <2>6, <2>7 DEF RawInv
  <1>4. CASE /\ arg.codes # Null /\ arg.count >= need /\ pc' = "fstr"
             /\ arg' = [arg EXCEPT !.count = need] /\ UNCHANGED arrays
    BY <1>1, <1>4 DEF RawInv, RawTypes, RawCopy, RawArrays, RawStrings, RawEvents, RawFailed, Reading, Writing, Failing, Null, Codes, caller, call
  <1> QED
    BY <1>2, <1>3, <1>4 DEF Codes

\* the string, and the ways out
LEMMA RawReturn ==
    ASSUME RawInv, BuildFstr \/ Success \/ FreeFstr \/ Release
    PROVE  RawInv'
  <1>1. CASE BuildFstr
    BY <1>1 DEF RawInv, RawTypes, RawCopy, RawArrays, RawStrings, RawEvents, RawFailed, Reading, Writing, Failing, Null, BuildFstr, Error, caller, call
  <1>2. CASE Success
    BY <1>2 DEF RawInv, RawTypes, RawCopy, RawArrays, RawStrings, RawEvents, RawFailed, Reading, Writing, Failing, Null, Success, Return, call
  <1>3. CASE FreeFstr
    BY <1>3 DEF RawInv, RawTypes, RawCopy, RawArrays, RawStrings, RawEvents, RawFailed, Reading, Writing, Failing, FreeFstr, caller, call, heap
  <1>4. CASE Release
    BY <1>4 DEF RawInv, RawTypes, RawCopy, RawArrays, RawStrings, RawEvents, RawFailed, Reading, Writing, Failing, Release, caller, call
  <1> QED
    BY <1>1, <1>2, <1>3, <1>4

LEMMA RawStep == RawInv /\ [RawNext]_raw_vars => RawInv'
  <1> SUFFICES ASSUME RawInv, [RawNext]_raw_vars
               PROVE  RawInv'
    OBVIOUS
  <1>1. CASE RawNext
    BY <1>1, RawCaller, RawReading, RawCodes, RawReturn DEF RawNext
  <1>2. CASE UNCHANGED raw_vars
    BY <1>2 DEF RawInv, RawTypes, RawCopy, RawArrays, RawStrings, RawEvents, RawFailed, raw_vars, caller, call, heap
  <1> QED
    BY <1>1, <1>2

LEMMA RawInvariance == RawSpec => []RawInv
  BY RawStarts, RawStep, PTL DEF RawSpec

\* The codes of pfmlib_raw_pmu_encode fit in the array they are written to, for
\* every size of the arrays and any number of calls.
THEOREM CodesFit == RawSpec => []Fits
  <1>1. RawInv => Fits
    BY DEF RawInv, RawCopy, Fits, Writing
  <1> QED
    BY RawInvariance, <1>1, PTL

\* Between two calls of the raw encoding functions every array and string is
\* the caller's and no event is left, but for exactly one array for each call
\* that allocated it and could not build the string; a call that ends in
\* freeing the address of the caller's pointer asked for the string and had no
\* array or one that was too small.
THEOREM OneOwner == RawSpec => []AllOwned
  <1>1. RawInv => AllOwned
    BY DEF RawInv, RawTypes, RawArrays, RawStrings, RawEvents, RawFailed, AllOwned, Writing
  <1> QED
    BY RawInvariance, <1>1, PTL
============================================================================

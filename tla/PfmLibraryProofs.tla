------------------------- MODULE PfmLibraryProofs -------------------------
(***************************************************************************)
(* Proofs about the life cycle of the library: its safety properties hold  *)
(* for any number of tables, of events and of initializations, and for     *)
(* every environment.                                                      *)
(***************************************************************************)
EXTENDS PfmLibrary, TLAPS

(***************************************************************************)
(* Event identifiers                                                       *)
(***************************************************************************)

\* Quotient and remainder are unique: decoding a * s + e gives a and e back.
LEMMA DivMod ==
    ASSUME NEW a \in Nat, NEW s \in Nat \ {0}, NEW e \in 0 .. s - 1
    PROVE  /\ (a * s + e) \div s = a
           /\ (a * s + e) % s = e
<1> DEFINE n == a * s + e
           q == n \div s
           r == n % s
<1>1. n \in Nat
  OBVIOUS
<1>2. /\ q \in Int /\ r \in 0 .. s - 1
      /\ n = s * q + r
  BY <1>1
<1> HIDE DEF q, r
<1>3. s * (a - q) = r - e
  BY <1>2
<1>4. a - q < 1
  <2>1. SUFFICES ASSUME a - q >= 1 PROVE FALSE
    BY <1>2
  <2>2. s * (a - q) >= s
    BY <2>1, <1>2
  <2>3. QED
    BY <2>2, <1>2, <1>3
<1>5. a - q > -1
  <2>1. SUFFICES ASSUME q - a >= 1 PROVE FALSE
    BY <1>2
  <2>2. s * (q - a) >= s
    BY <2>1, <1>2
  <2>3. QED
    BY <2>2, <1>2, <1>3
<1>6. a = q
  BY <1>2, <1>4, <1>5
<1>7. r = e
  BY <1>2, <1>3, <1>6
<1>8. QED
  BY <1>6, <1>7 DEF q, r

LEMMA DivModNat ==
    ASSUME NEW n \in Nat, NEW s \in Nat \ {0}
    PROVE  n \div s \in Nat /\ n % s \in 0 .. s - 1
<1> DEFINE q == n \div s
           r == n % s
<1>1. /\ q \in Int /\ r \in 0 .. s - 1
      /\ n = s * q + r
  OBVIOUS
<1> HIDE DEF q, r
<1>2. q >= 0
  <2>1. SUFFICES ASSUME q <= -1 PROVE FALSE
    BY <1>1
  <2>2. s * q <= -s
    BY <2>1, <1>1
  <2>3. QED
    BY <2>2, <1>1
<1>3. QED
  BY <1>1, <1>2 DEF q, r

\* pfmlib_pidx2idx and the two functions that take an identifier apart agree:
\* the identifier of event e of table p leads back to p and to e.
LEMMA IdxRoundTrip ==
    ASSUME NEW p \in Pmu, NEW e \in 0 .. MaxEvents - 1
    PROVE  /\ Pidx2Idx(p, e) \in Nat
           /\ IdxPmuId(Pidx2Idx(p, e)) = PmuId[p]
           /\ IdxEvent(Pidx2Idx(p, e)) = e
<1>1. PmuId[p] \in Nat /\ PidxSpan \in Nat \ {0} /\ e \in 0 .. PidxSpan - 1
  BY SizeAssumption, TableAssumption
<1>2. PmuId[p] * PidxSpan + e \in Nat
  BY <1>1
<1>3. /\ (PmuId[p] * PidxSpan + e) \div PidxSpan = PmuId[p]
      /\ (PmuId[p] * PidxSpan + e) % PidxSpan = e
  BY <1>1, DivMod
<1>4. QED
  BY <1>2, <1>3 DEF Pidx2Idx, IdxPmuId, IdxEvent

\* Two events never share an identifier, whichever tables they belong to.
THEOREM IdxUnique ==
    ASSUME NEW p \in Pmu, NEW q \in Pmu,
           NEW e \in 0 .. MaxEvents - 1, NEW g \in 0 .. MaxEvents - 1,
           Pidx2Idx(p, e) = Pidx2Idx(q, g)
    PROVE  p = q /\ e = g
<1>1. PmuId[p] = PmuId[q] /\ e = g
  BY IdxRoundTrip
<1>2. QED
  BY <1>1, TableAssumption

(***************************************************************************)
(* Type correctness                                                        *)
(***************************************************************************)
LEMMA InitTypeOK == Init => TypeOK
<1> SUFFICES ASSUME Init PROVE TypeOK
  OBVIOUS
<1>1. map \in [0 .. PmuMax - 1 -> 0 .. NPmu]
  BY SizeAssumption DEF Init
<1>2. nevents \in [Pmu -> 0 .. MaxEvents]
  BY TableAssumption DEF Init
<1>3. table \in [Pmu -> {"null", "static", "built", "freed"}]
  BY DEF Init
<1>4. at \in 1 .. NPmu + 1 /\ session \in 0 .. MaxSessions
  BY SizeAssumption DEF Init
<1>5. /\ initdone \in BOOLEAN /\ inactive \in BOOLEAN /\ holds \in BOOLEAN
      /\ initret \in {"SUCCESS", "NOTSUPP", "NOMEM"} /\ pc \in {"idle", "pmus", "undefined"}
      /\ force \in Forceable \cup {NoEnv} /\ disable \in Maskable \cup {NoEnv}
  BY DEF Init
<1>6. /\ osUp \subseteq Os /\ os \in Os /\ held \in Int /\ walk \subseteq Nat
      /\ initFlag \subseteq Pmu /\ active \subseteq Pmu /\ fresh \subseteq Pmu /\ unlisted \subseteq Pmu
  BY DEF Init, Os
<1>7. QED
  BY <1>1, <1>2, <1>3, <1>4, <1>5, <1>6 DEF TypeOK

\* the steps of pfm_initialize
LEMMA BeginTypeOK ==
    ASSUME TypeOK,
           NEW f \in Forceable \cup {NoEnv}, NEW d \in Maskable \cup {NoEnv},
           NEW i \in BOOLEAN, NEW perf \in PerfFiles,
           Begin(f, d, i, perf)
    PROVE  TypeOK'
<1>1. 1 \in 1 .. NPmu + 1 /\ session + 1 \in 0 .. MaxSessions
  BY SizeAssumption DEF TypeOK, Begin
<1>2. QED
  BY <1>1, SizeAssumption DEF TypeOK, Begin, InitEnv, InitOs, Pmu, Os

LEMMA LoopTypeOK ==
    ASSUME TypeOK, InitStep
    PROVE  TypeOK'
<1>1. CASE SkipPmu
  BY <1>1, SizeAssumption DEF TypeOK, SkipPmu, InitPmus, Pmu, flags, handles
<1>2. ASSUME NEW exported \in BOOLEAN, PassPmu(exported)
      PROVE  TypeOK'
  <2>1. at \in Pmu /\ at + 1 \in 1 .. NPmu + 1
    BY <1>2, SizeAssumption DEF TypeOK, PassPmu, LetThrough, InitPmus, Pmu
  <2>2. PmuId[at] \in 0 .. PmuMax - 1 /\ at \in 0 .. NPmu
    BY <2>1, SizeAssumption, TableAssumption DEF Pmu
  <2>3. QED
    BY <1>2, <2>1, <2>2 DEF TypeOK, PassPmu, LetThrough, InitPmus, MarkInit, handles
<1>3. ASSUME NEW exported \in BOOLEAN, Activable(exported)
      PROVE  /\ at \in Pmu /\ at + 1 \in 1 .. NPmu + 1
             /\ initFlag' \subseteq Pmu /\ unlisted' \subseteq Pmu
             /\ map' \in [0 .. PmuMax - 1 -> 0 .. NPmu]
             /\ UNCHANGED <<session, force, disable, inactive, osUp, os, held, holds, walk>>
  <2>1. at \in Pmu /\ at + 1 \in 1 .. NPmu + 1
    BY <1>3, SizeAssumption DEF TypeOK, Activable, LetThrough, InitPmus, Pmu
  <2>2. PmuId[at] \in 0 .. PmuMax - 1 /\ at \in 0 .. NPmu
    BY <2>1, SizeAssumption, TableAssumption DEF Pmu
  <2>3. QED
    BY <1>3, <2>1, <2>2 DEF TypeOK, Activable, LetThrough, InitPmus, MarkInit, handles
<1>4. ASSUME NEW r \in {"SUCCESS", "NOTSUPP", "NOMEM"}, Forward(r), at + 1 \in 1 .. NPmu + 1
      PROVE  /\ pc' \in {"idle", "pmus", "undefined"} /\ at' \in 1 .. NPmu + 1
             /\ initdone' \in BOOLEAN /\ initret' \in {"SUCCESS", "NOTSUPP", "NOMEM"}
  BY <1>4 DEF TypeOK, Forward, Finish
<1>5. ASSUME NEW exported \in BOOLEAN, NEW n \in 0 .. MaxEvents, Activate(exported, n)
      PROVE  TypeOK'
  BY <1>5, <1>3, <1>4 DEF Activate, TypeOK
<1>6. ASSUME NEW exported \in BOOLEAN, NEW n \in 0 .. MaxEvents, ActivateFails(exported, n)
      PROVE  TypeOK'
  BY <1>6, <1>3, <1>4 DEF ActivateFails, TypeOK
<1>7. CASE EndPmus
  BY <1>7 DEF EndPmus, Finish, TypeOK, flags, handles
<1>8. QED
  BY <1>1, <1>2, <1>5, <1>6, <1>7 DEF InitStep

LEMMA TerminateTypeOK ==
    ASSUME TypeOK, NEW ovfl \in BOOLEAN, Terminate(ovfl)
    PROVE  TypeOK'
<1>1. \A p \in Pmu : Torn(p, ovfl) \in {"null", "static", "built", "freed"}
  BY DEF TypeOK, Torn
<1>2. table' \in [Pmu -> {"null", "static", "built", "freed"}]
  BY <1>1 DEF Terminate
<1>3. nevents' \in [Pmu -> 0 .. MaxEvents]
  BY SizeAssumption DEF TypeOK, Terminate
<1>4. QED
  BY <1>2, <1>3 DEF TypeOK, Terminate, flags, handles

LEMMA QueryTypeOK ==
    ASSUME TypeOK, Query
    PROVE  TypeOK'
<1> USE DEF cfg, flags
<1>1. ASSUME NEW q, NEW named, NEW name, FindEvent(q, named, name)
      PROVE  TypeOK'
  <2>1. held' \in Int
    BY <1>1, IdxRoundTrip DEF FindEvent
  <2>2. QED
    BY <1>1, <2>1 DEF TypeOK, FindEvent
<1>2. ASSUME NEW id \in 0 .. PmuMax - 1, GetPmuInfo(id)
      PROVE  TypeOK'
  <2>1. map[id] # 0 => map[id] \in Pmu
    BY SizeAssumption DEF TypeOK, Pmu
  <2>2. 0 \in 0 .. MaxEvents - 1
    BY SizeAssumption
  <2>3. held' \in Int
    BY <1>2, <2>1, <2>2, IdxRoundTrip DEF GetPmuInfo
  <2>4. QED
    BY <1>2, <2>3 DEF TypeOK, GetPmuInfo
<1>3. CASE GetEventNext
  <2> DEFINE p == IdxPmu(held)
             e == IdxEvent(held)
  <2>1. e \in Nat
    BY SizeAssumption DEF TypeOK, IdxEvent
  <2>2. ASSUME Resolves(held), e < nevents[p] - 1
        PROVE  Pidx2Idx(p, e + 1) \in Nat
    <3>1. p \in Pmu
      <4>1. held \in Nat
        BY <2>2 DEF Resolves, TypeOK
      <4>2. IdxPmuId(held) \in Nat
        BY <4>1, DivModNat, SizeAssumption DEF IdxPmuId
      <4>3. QED
        BY <2>2, <4>2, SizeAssumption DEF Resolves, IdxPmu, TypeOK, Pmu
    <3>2. e + 1 \in 0 .. MaxEvents - 1
      BY <2>1, <2>2, <3>1, SizeAssumption DEF TypeOK
    <3>3. QED
      BY <3>1, <3>2, IdxRoundTrip
  <2> HIDE DEF p, e
  <2>3. held' \in Int
    BY <1>3, <2>2 DEF GetEventNext, p, e
  <2>4. walk' \subseteq Nat
    <3>1. walk' = {} \/ walk' = walk \cup {e + 1}
      BY <1>3 DEF GetEventNext, e
    <3>2. walk \subseteq Nat /\ e + 1 \in Nat
      BY <2>1 DEF TypeOK
    <3>3. QED
      BY <3>1, <3>2
  <2>5. QED
    BY <1>3, <2>3, <2>4 DEF TypeOK, GetEventNext
<1>4. QED
  BY <1>1, <1>2, <1>3 DEF Query

\* Every variable keeps its type, for any tables and any environment.
THEOREM TypeCorrect == Spec => []TypeOK
<1>1. TypeOK /\ [Next]_vars => TypeOK'
  <2>1. ASSUME TypeOK, UNCHANGED vars
        PROVE  TypeOK'
    BY <2>1 DEF TypeOK, vars, cfg, flags, handles
  <2>2. QED
    BY <2>1, BeginTypeOK, LoopTypeOK, TerminateTypeOK, QueryTypeOK DEF Next
<1>2. QED
  BY InitTypeOK, <1>1, PTL DEF Spec

(***************************************************************************)
(* Safety.  LoopInv is what makes the other properties inductive.          *)
(***************************************************************************)
IInv == TypeOK /\ MapSound /\ ActivationAllowed /\ LoopInv /\ FreshLive /\ FreedOnce /\ HandleResolves

LEMMA InitIInv == Init => IInv
<1> SUFFICES ASSUME Init PROVE IInv
  OBVIOUS
<1>1. MapSound
  BY SizeAssumption, TableAssumption DEF Init, MapSound, Pmu
<1>2. \A p \in Pmu : Kind[p] = "static" => table[p] = "static"
  BY DEF Init, MayFail
<1>3. QED
  BY <1>1, <1>2, InitTypeOK
     DEF Init, IInv, ActivationAllowed, LoopInv, FreshLive, FreedOnce, HandleResolves, Initialized

\* pfmlib_pmus_map stays in agreement with the flags when an entry is set.
LEMMA MarkInitSound ==
    ASSUME TypeOK, MapSound, NEW p \in Pmu, MarkInit(p)
    PROVE  /\ active \subseteq initFlag' /\ p \in initFlag'
           /\ \A q \in Pmu : q \in initFlag' <=> map'[PmuId[q]] = q
           /\ \A id \in 0 .. PmuMax - 1 : map'[id] # 0 => PmuId[map'[id]] = id
<1>1. map' = [map EXCEPT ![PmuId[p]] = p] /\ initFlag' = initFlag \cup {p}
  BY DEF MarkInit
<1>2. map \in [0 .. PmuMax - 1 -> 0 .. NPmu] /\ PmuId \in [Pmu -> 0 .. PmuMax - 1]
  BY TableAssumption DEF TypeOK
<1>3. \A q \in Pmu : map'[PmuId[q]] = IF q = p THEN p ELSE map[PmuId[q]]
  BY <1>1, <1>2, TableAssumption
<1>4. \A id \in 0 .. PmuMax - 1 : map'[id] = IF id = PmuId[p] THEN p ELSE map[id]
  BY <1>1, <1>2
<1>5. QED
  BY <1>1, <1>3, <1>4 DEF MapSound

LEMMA BeginIInv ==
    ASSUME IInv,
           NEW f \in Forceable \cup {NoEnv}, NEW d \in Maskable \cup {NoEnv},
           NEW i \in BOOLEAN, NEW perf \in PerfFiles,
           Begin(f, d, i, perf)
    PROVE  IInv'
<1>1. TypeOK'
  BY BeginTypeOK DEF IInv
<1>2. MapSound' /\ FreshLive' /\ FreedOnce' /\ HandleResolves'
  BY DEF IInv, Begin, MapSound, FreshLive, FreedOnce, HandleResolves, Initialized
<1>3. ActivationAllowed'
  BY DEF Begin, ActivationAllowed
<1>4. LoopInv'
  BY DEF IInv, Begin, LoopInv
<1>5. QED
  BY <1>1, <1>2, <1>3, <1>4 DEF IInv

LEMMA LoopIInv ==
    ASSUME IInv, InitStep
    PROVE  IInv'
<1> USE DEF IInv
<1>1. TypeOK'
  BY LoopTypeOK
<1>2. /\ pc = "pmus" /\ ~initdone /\ ~holds
      /\ UNCHANGED <<force, disable, holds>>
  BY DEF InitStep, SkipPmu, PassPmu, Activate, ActivateFails, Activable, LetThrough, EndPmus,
         InitPmus, LoopInv, handles
<1>3. HandleResolves' /\ FreedOnce'
  <2>1. pc' # "undefined"
    BY <1>2 DEF InitStep, SkipPmu, PassPmu, Activate, ActivateFails, EndPmus, Forward, Finish
  <2>2. QED
    BY <1>2, <2>1 DEF HandleResolves, FreedOnce
<1>4. CASE SkipPmu
  <2>1. UNCHANGED <<pc, initdone, initret, initFlag, active, map, fresh, unlisted, table, nevents>>
        /\ at' = at + 1 /\ at \in Pmu
    BY <1>4, SizeAssumption DEF SkipPmu, InitPmus, flags, TypeOK, Pmu
  <2>2. LoopInv'
    BY <1>2, <2>1 DEF LoopInv, Live, Initialized, TypeOK, Pmu
  <2>3. MapSound' /\ ActivationAllowed' /\ FreshLive'
    BY <1>2, <2>1 DEF MapSound, ActivationAllowed, FreshLive, Initialized, Wanted, Disabled
  <2>4. QED
    BY <1>1, <1>3, <2>2, <2>3
<1>5. ASSUME NEW exported \in BOOLEAN, PassPmu(exported)
      PROVE  IInv'
  <2>1. UNCHANGED <<pc, initdone, initret, active, fresh, table, nevents>>
        /\ unlisted \subseteq unlisted'
        /\ at' = at + 1 /\ at \in Pmu /\ MarkInit(at)
    BY <1>5, SizeAssumption DEF PassPmu, LetThrough, InitPmus, TypeOK, Pmu
  <2>2. MapSound'
    BY <2>1, MarkInitSound DEF MapSound
  <2>3. LoopInv'
    BY <1>2, <2>1 DEF LoopInv, Live, Initialized, TypeOK, Pmu
  <2>4. ActivationAllowed' /\ FreshLive'
    BY <1>2, <2>1 DEF ActivationAllowed, FreshLive, Initialized, Wanted, Disabled
  <2>5. QED
    BY <1>1, <1>3, <2>2, <2>3, <2>4
<1>6. ASSUME NEW exported \in BOOLEAN, NEW n \in 0 .. MaxEvents, Activate(exported, n)
      PROVE  IInv'
  <2>1. /\ at \in Pmu /\ MarkInit(at) /\ Wanted(at) /\ at \notin Insane
        /\ unlisted \subseteq unlisted' /\ (Disabled(at) => at \in unlisted')
        /\ active' = active \cup {at} /\ fresh' = fresh \cup {at}
    BY <1>6, SizeAssumption DEF Activate, Activable, LetThrough, InitPmus, TypeOK, Pmu
  <2>2. MapSound'
    BY <2>1, MarkInitSound DEF MapSound
  <2>3. ActivationAllowed'
    BY <1>2, <2>1 DEF ActivationAllowed, LoopInv, Wanted, Disabled
  <2>4. /\ \A p \in Pmu : Kind[p] = "static" => table'[p] = "static"
        /\ \A p \in Pmu : p = at => Live(p)'
        /\ \A p \in Pmu \ {at} : table'[p] = table[p] /\ nevents'[p] = nevents[p]
    BY <1>6, <2>1 DEF Activate, TypeOK, LoopInv, Live, Built
  <2>5. \A p \in fresh' : Live(p)'
    BY <1>2, <2>1, <2>4 DEF LoopInv, Live, TypeOK
  <2>6. \A p \in fresh' : MayFail(p) => table'[p] = "built"
    <3>1. MayFail(at) => table'[at] = "built"
      BY <1>6, <2>1 DEF Activate, Built, MayFail, TypeOK
    <3>2. \A p \in fresh : MayFail(p) => table[p] = "built"
      BY <1>2 DEF LoopInv
    <3>3. QED
      BY <2>1, <2>4, <3>1, <3>2 DEF TypeOK
  <2>7. LoopInv'
    <3>1. CASE force = NoEnv
      <4>1. at' = at + 1 /\ UNCHANGED <<pc, initdone>>
        BY <1>6, <3>1 DEF Activate, Forward
      <4>2. \A p \in fresh' : p < at'
        BY <1>2, <2>1, <4>1 DEF LoopInv, TypeOK, Pmu
      <4>3. QED
        BY <1>2, <2>4, <2>5, <2>6, <3>1, <4>1, <4>2 DEF LoopInv
    <3>2. CASE force # NoEnv
      <4>1. pc' = "idle"
        BY <1>6, <3>2 DEF Activate, Forward, Finish
      <4>2. QED
        BY <2>4, <2>6, <4>1 DEF LoopInv
    <3>3. QED
      BY <3>1, <3>2
  <2>8. QED
    BY <1>1, <1>3, <2>2, <2>3, <2>5, <2>7 DEF FreshLive
<1>7. ASSUME NEW exported \in BOOLEAN, NEW n \in 0 .. MaxEvents, ActivateFails(exported, n)
      PROVE  IInv'
  <2>1. /\ at \in Pmu /\ MarkInit(at)
        /\ UNCHANGED <<active, fresh>> /\ unlisted \subseteq unlisted'
        /\ \A p \in Pmu \ {at} : nevents'[p] = nevents[p] /\ table'[p] = table[p]
        /\ Kind[at] # "static"
    BY <1>7, SizeAssumption DEF ActivateFails, MayFail, Activable, LetThrough, InitPmus, TypeOK, Pmu
  <2>2. MapSound'
    BY <2>1, MarkInitSound DEF MapSound
  <2>3. ActivationAllowed'
    BY <1>2, <2>1 DEF ActivationAllowed, Wanted, Disabled
  <2>4. /\ \A p \in fresh : p # at /\ Live(p)'
        /\ \A p \in fresh : MayFail(p) => table'[p] = "built"
        /\ \A p \in Pmu : Kind[p] = "static" => table'[p] = "static"
    BY <1>2, <2>1 DEF LoopInv, Live, TypeOK, Pmu
  <2>5. LoopInv'
    <3>1. CASE force = NoEnv
      <4>1. at' = at + 1 /\ UNCHANGED <<pc, initdone>>
        BY <1>7, <3>1 DEF ActivateFails, Forward
      <4>2. \A p \in fresh' : p < at'
        BY <1>2, <2>1, <4>1 DEF LoopInv, TypeOK, Pmu
      <4>3. QED
        BY <1>2, <2>1, <2>4, <3>1, <4>1, <4>2 DEF LoopInv
    <3>2. CASE force # NoEnv
      <4>1. pc' = "idle"
        BY <1>7, <3>2 DEF ActivateFails, Forward, Finish
      <4>2. QED
        BY <2>1, <2>4, <4>1 DEF LoopInv
    <3>3. QED
      BY <3>1, <3>2
  <2>6. QED
    BY <1>1, <1>3, <2>1, <2>2, <2>3, <2>4, <2>5 DEF FreshLive
<1>8. CASE EndPmus
  <2>1. /\ UNCHANGED <<initFlag, active, map, fresh, unlisted, table, nevents>>
        /\ pc' = "idle"
    BY <1>8 DEF EndPmus, Finish, flags
  <2>2. MapSound' /\ ActivationAllowed' /\ FreshLive' /\ LoopInv'
    BY <1>2, <2>1 DEF MapSound, ActivationAllowed, FreshLive, Live, LoopInv, Wanted, Disabled
  <2>3. QED
    BY <1>1, <1>3, <2>2
<1>9. QED
  BY <1>4, <1>5, <1>6, <1>7, <1>8 DEF InitStep

LEMMA TerminateIInv ==
    ASSUME IInv, NEW ovfl \in BOOLEAN, Terminate(ovfl)
    PROVE  IInv'
<1> USE DEF IInv
<1>1. /\ pc' # "pmus" /\ ~initdone'
      /\ UNCHANGED <<force, disable, initFlag, active, map, fresh, unlisted>>
  BY DEF Terminate, flags
<1>2. TypeOK'
  BY TerminateTypeOK
<1>3. \A p \in Pmu : Kind[p] = "static" => table'[p] = "static"
  BY DEF Terminate, Torn, LoopInv
<1>4. MapSound' /\ ActivationAllowed' /\ LoopInv' /\ FreshLive' /\ HandleResolves'
  BY <1>1, <1>3 DEF MapSound, ActivationAllowed, LoopInv, FreshLive, FreedOnce, HandleResolves,
                   Initialized, Wanted, Disabled
<1>5. FreedOnce'
  <2>1. SUFFICES ASSUME NEW p \in Pmu, Twice(p)
                 PROVE  p \in active \ fresh /\ MayFail(p)
    BY <1>1 DEF Terminate, FreedOnce
  <2>2. Initialized
    BY DEF Terminate
  <2>3. QED
    BY <2>1, <2>2 DEF Twice, LoopInv
<1>6. QED
  BY <1>2, <1>4, <1>5

\* An entry of the map that is not NULL is a PMU that passed the checks.
LEMMA MapEntry ==
    ASSUME TypeOK, MapSound, NEW id \in 0 .. PmuMax - 1, map[id] # 0
    PROVE  map[id] \in Pmu /\ map[id] \in initFlag
<1>1. map \in [0 .. PmuMax - 1 -> 0 .. NPmu]
  BY DEF TypeOK
<1>2. map[id] \in Pmu
  BY <1>1, SizeAssumption DEF Pmu
<1>3. PmuId[map[id]] = id
  BY DEF MapSound
<1>4. QED
  BY <1>2, <1>3 DEF MapSound

\* The identifier of an event of a table that is in the map can be used.
LEMMA HandleOfEvent ==
    ASSUME TypeOK, MapSound, Initialized,
           NEW p \in initFlag, NEW e \in 0 .. MaxEvents - 1, e < nevents[p]
    PROVE  Resolves(Pidx2Idx(p, e))
<1>1. p \in Pmu /\ PmuId[p] \in 0 .. PmuMax - 1 /\ map[PmuId[p]] = p /\ p # 0
  BY TableAssumption, SizeAssumption DEF TypeOK, MapSound, Pmu
<1> DEFINE idx == Pidx2Idx(p, e)
<1>2. idx \in Nat /\ IdxPmuId(idx) = PmuId[p] /\ IdxEvent(idx) = e
  BY <1>1, IdxRoundTrip
<1> HIDE DEF idx
<1>3. IdxPmu(idx) = p
  BY <1>1, <1>2, SizeAssumption DEF IdxPmu
<1>4. Resolves(idx)
  BY <1>1, <1>2, <1>3 DEF Resolves
<1>5. QED
  BY <1>4 DEF idx

LEMMA QueryIInv ==
    ASSUME IInv, Query
    PROVE  IInv'
<1> USE DEF IInv
<1>1. UNCHANGED <<pc, at, cfg, flags, table, nevents>> /\ pc = "idle"
  BY DEF Query, FindEvent, GetPmuInfo, GetEventNext
<1>2. TypeOK'
  BY QueryTypeOK
<1>3. MapSound' /\ ActivationAllowed' /\ LoopInv' /\ FreshLive' /\ FreedOnce'
  BY <1>1 DEF MapSound, ActivationAllowed, LoopInv, FreshLive, FreedOnce, Live, Initialized,
              Wanted, Disabled, cfg, flags
<1>4. ASSUME holds', ~inactive
      PROVE  Resolves(held')
  <2>1. ASSUME NEW q, NEW named, NEW name, FindEvent(q, named, name)
        PROVE  Resolves(held')
    <3>1. PICK p \in Pmu, e \in 0 .. MaxEvents - 1 :
              Initialized /\ IsFirst(p, e, q, named, name) /\ held' = Pidx2Idx(p, e)
      BY <1>4, <2>1 DEF FindEvent
    <3>2. p \in initFlag /\ e < nevents[p]
      BY <1>4, <3>1 DEF IsFirst, Candidates, Matches, MapSound, TypeOK
    <3>3. QED
      BY <3>1, <3>2, HandleOfEvent
  <2>2. ASSUME NEW id \in 0 .. PmuMax - 1, GetPmuInfo(id)
        PROVE  Resolves(held')
    <3>1. Initialized /\ map[id] # 0 /\ nevents[map[id]] > 0 /\ held' = Pidx2Idx(map[id], 0)
      BY <1>4, <2>2 DEF GetPmuInfo
    <3>2. map[id] \in Pmu /\ map[id] \in initFlag
      BY <2>2, <3>1, MapEntry
    <3>3. 0 \in 0 .. MaxEvents - 1
      BY SizeAssumption
    <3>4. QED
      BY <3>1, <3>2, <3>3, HandleOfEvent
  <2>3. CASE GetEventNext
    <3> DEFINE p == IdxPmu(held)
               e == IdxEvent(held)
    <3>1. Resolves(held) /\ e < nevents[p] - 1 /\ held' = Pidx2Idx(p, e + 1)
      BY <1>4, <2>3 DEF GetEventNext
    <3>2. held \in Nat
      BY <3>1 DEF Resolves, TypeOK
    <3>3. IdxPmuId(held) \in 0 .. PmuMax - 1 /\ e \in Nat
      <4>1. IdxPmuId(held) \in Nat /\ e \in Nat
        BY <3>2, DivModNat, SizeAssumption DEF IdxPmuId, IdxEvent
      <4>2. IdxPmuId(held) < PmuMax
        BY <3>1 DEF Resolves, IdxPmu
      <4>3. QED
        BY <4>1, <4>2, SizeAssumption
    <3>4. p \in Pmu /\ p \in initFlag
      <4>1. p = map[IdxPmuId(held)] /\ p # 0
        BY <3>1, <3>3, SizeAssumption DEF Resolves, IdxPmu
      <4>2. p \in Pmu
        BY <3>3, <4>1, SizeAssumption DEF TypeOK, Pmu
      <4>3. QED
        BY <3>3, <4>1, <4>2 DEF MapSound
    <3> HIDE DEF p, e
    <3>5. e + 1 \in 0 .. MaxEvents - 1 /\ e + 1 < nevents[p]
      BY <3>1, <3>3, <3>4, SizeAssumption DEF TypeOK
    <3>6. QED
      BY <3>1, <3>4, <3>5, HandleOfEvent DEF Resolves
  <2>4. QED
    BY <2>1, <2>2, <2>3 DEF Query
<1>5. HandleResolves'
  <2>1. ASSUME Resolves(held') PROVE Resolves(held)'
    BY <1>1, <2>1 DEF Resolves, IdxPmu, Initialized, cfg, flags
  <2>2. QED
    BY <1>1, <1>4, <2>1 DEF HandleResolves, cfg
<1>6. QED
  BY <1>2, <1>3, <1>5

\* The inductive invariant of the library.
LEMMA Invariance == Spec => []IInv
<1>1. IInv /\ [Next]_vars => IInv'
  <2>1. ASSUME IInv, UNCHANGED vars
        PROVE  IInv'
    BY <2>1 DEF IInv, TypeOK, MapSound, ActivationAllowed, LoopInv, FreshLive, FreedOnce, HandleResolves,
                Resolves, IdxPmu, Live, Initialized, Wanted, Disabled, vars, cfg, flags, handles
  <2>2. QED
    BY <2>1, BeginIInv, LoopIInv, TerminateIInv, QueryIInv DEF Next
<1>2. QED
  BY InitIInv, <1>1, PTL DEF Spec

\* The flags of the tables and pfmlib_pmus_map always agree.
THEOREM MapIsSound == Spec => []MapSound
BY Invariance, PTL DEF IInv

\* An initialization activates only what its environment allows, a single PMU
\* when one is forced, and a disabled PMU only where the list of the disabled
\* ones could not be copied.
THEOREM ActivationIsAllowed == Spec => []ActivationAllowed
BY Invariance, PTL DEF IInv

\* The tables of the PMUs that the latest initialization activated exist as
\* long as the library is initialized.
THEOREM FreshTablesLive == Spec => []FreshLive
BY Invariance, PTL DEF IInv

\* Where pfm_terminate frees a table twice, an active PMU was not activated by
\* the latest initialization.
THEOREM TablesFreedOnce == Spec => []FreedOnce
BY Invariance, PTL DEF IInv

\* The identifiers that the library hands out stay usable until pfm_terminate.
THEOREM HandlesResolve == Spec => []HandleResolves
BY Invariance, PTL DEF IInv

\* A failed initialization is final: no call undoes it.
THEOREM FailureIsFinal == Spec => FailureSticks
<1> DEFINE Stuck == (initdone /\ initret # "SUCCESS") => (initdone' /\ initret' = initret)
<1>1. IInv /\ [Next]_vars => [Stuck]_vars
  <2>1. SUFFICES ASSUME IInv, Next, initdone, initret # "SUCCESS"
                 PROVE  UNCHANGED <<initdone, initret>>
    OBVIOUS
  <2>2. pc # "pmus"
    BY <2>1 DEF IInv, LoopInv
  <2>3. QED
    BY <2>1, <2>2 DEF Next, Begin, InitStep, SkipPmu, PassPmu, Activate, ActivateFails,
          Activable, LetThrough, EndPmus, InitPmus, Terminate, Initialized, Query, FindEvent, GetPmuInfo,
          GetEventNext, cfg
<1>2. QED
  BY Invariance, <1>1, PTL DEF Spec, FailureSticks

(***************************************************************************)
(* Walks.  A walk that goes on has met the events up to the one held, all  *)
(* of them of one table.                                                   *)
(***************************************************************************)
Walking(p, e) == e < nevents[p] /\ held = Pidx2Idx(p, e) /\ walk = 0 .. e

WalkInv ==
    /\ pc = "pmus" => walk = {}
    /\ (walk # {} /\ Initialized) => \E p \in initFlag, e \in 0 .. MaxEvents - 1 : Walking(p, e)

\* an identifier leads back to its table and to its event
LEMMA HandleParts ==
    ASSUME TypeOK, MapSound, NEW p \in initFlag, NEW e \in 0 .. MaxEvents - 1
    PROVE  /\ p \in Pmu /\ Pidx2Idx(p, e) \in Nat
           /\ IdxPmu(Pidx2Idx(p, e)) = p /\ IdxEvent(Pidx2Idx(p, e)) = e
<1>1. p \in Pmu /\ PmuId[p] \in 0 .. PmuMax - 1 /\ map[PmuId[p]] = p
  BY TableAssumption DEF TypeOK, MapSound
<1> DEFINE idx == Pidx2Idx(p, e)
<1>2. idx \in Nat /\ IdxPmuId(idx) = PmuId[p] /\ IdxEvent(idx) = e
  BY <1>1, IdxRoundTrip
<1> HIDE DEF idx
<1>3. IdxPmu(idx) = p
  BY <1>1, <1>2, SizeAssumption DEF IdxPmu
<1>4. QED
  BY <1>1, <1>2, <1>3 DEF idx

LEMMA WalkStep ==
    ASSUME IInv, WalkInv, GetEventNext, walk' # {}, Initialized
    PROVE  \E p \in initFlag, e \in 0 .. MaxEvents - 1 :
               e < nevents[p] /\ held' = Pidx2Idx(p, e) /\ walk' = 0 .. e
<1>1. Resolves(held) /\ walk # {}
  BY DEF GetEventNext
<1>2. PICK p \in initFlag, e \in 0 .. MaxEvents - 1 : Walking(p, e)
  BY <1>1 DEF WalkInv
<1>3. p \in Pmu /\ IdxPmu(held) = p /\ IdxEvent(held) = e
  BY <1>2, HandleParts DEF IInv, Walking
<1>4. e < nevents[p] - 1 /\ held' = Pidx2Idx(p, e + 1) /\ walk' = walk \cup {e + 1}
  BY <1>1, <1>3 DEF GetEventNext
<1>5. e + 1 \in 0 .. MaxEvents - 1 /\ e + 1 < nevents[p]
  BY <1>3, <1>4, SizeAssumption DEF IInv, TypeOK
<1>6. walk' = 0 .. e + 1
  BY <1>2, <1>4 DEF Walking
<1>7. QED
  BY <1>4, <1>5, <1>6

LEMMA QueryWalk ==
    ASSUME IInv, WalkInv, Query
    PROVE  WalkInv'
<1>1. UNCHANGED <<pc, cfg, flags, nevents>> /\ pc = "idle"
  BY DEF Query, FindEvent, GetPmuInfo, GetEventNext
<1>2. Initialized' <=> Initialized
  BY <1>1 DEF Initialized, cfg
<1>3. ASSUME walk' # {}, Initialized
      PROVE  \E p \in initFlag, e \in 0 .. MaxEvents - 1 :
                 e < nevents[p] /\ held' = Pidx2Idx(p, e) /\ walk' = 0 .. e
  <2>1. CASE \E q, named, name : FindEvent(q, named, name)
    BY <1>3, <2>1 DEF FindEvent
  <2>2. ASSUME NEW id \in 0 .. PmuMax - 1, GetPmuInfo(id)
        PROVE  /\ map[id] \in initFlag /\ 0 \in 0 .. MaxEvents - 1
               /\ 0 < nevents[map[id]] /\ held' = Pidx2Idx(map[id], 0) /\ walk' = 0 .. 0
    <3>1. map[id] # 0 /\ nevents[map[id]] > 0 /\ held' = Pidx2Idx(map[id], 0) /\ walk' = {0}
      BY <1>3, <2>2 DEF GetPmuInfo
    <3>2. map[id] \in Pmu /\ map[id] \in initFlag
      BY <2>2, <3>1, MapEntry DEF IInv
    <3>3. QED
      BY <3>1, <3>2, SizeAssumption DEF IInv, TypeOK
  <2>3. CASE GetEventNext
    BY <1>3, <2>3, WalkStep
  <2>4. CASE \E id \in 0 .. PmuMax - 1 : GetPmuInfo(id)
    BY <2>2, <2>4
  <2>5. QED
    BY <2>1, <2>3, <2>4 DEF Query
<1>4. QED
  BY <1>1, <1>2, <1>3 DEF WalkInv, Walking, flags

LEMMA WalkInvariance == Spec => [](IInv /\ WalkInv)
<1>1. Init => WalkInv
  BY DEF Init, WalkInv
<1>2. IInv /\ WalkInv /\ [Next]_vars => WalkInv'
  <2> SUFFICES ASSUME IInv, WalkInv, [Next]_vars PROVE WalkInv'
    OBVIOUS
  <2>1. CASE UNCHANGED vars
    BY <2>1 DEF WalkInv, Walking, Initialized, vars, cfg, flags, handles
  <2>2. ASSUME NEW f, NEW d, NEW i, NEW perf, Begin(f, d, i, perf)
        PROVE  WalkInv'
    BY <2>2 DEF WalkInv, Begin
  <2>3. CASE InitStep
    <3>1. pc = "pmus" /\ walk' = walk
      BY <2>3 DEF InitStep, SkipPmu, PassPmu, Activate, ActivateFails, Activable, LetThrough, EndPmus, InitPmus, handles
    <3>2. QED
      BY <3>1 DEF WalkInv
  <2>4. ASSUME NEW ovfl, Terminate(ovfl)
        PROVE  WalkInv'
    BY <2>4 DEF WalkInv, Terminate, Initialized
  <2>5. CASE Query
    BY <2>5, QueryWalk
  <2>6. QED
    BY <2>1, <2>2, <2>3, <2>4, <2>5 DEF Next
<1>3. QED
  BY Invariance, <1>1, <1>2, PTL DEF Spec

\* A walk over a PMU that reaches the end has met every event of it, in any
\* table and whatever other calls were made before (pfm_get_event_next).
THEOREM WalksComplete == Spec => WalkComplete
<1> DEFINE Complete == (GetEventNext /\ held' = -1 /\ walk # {} /\ Initialized)
                            => walk = 0 .. nevents[IdxPmu(held)] - 1
<1>1. IInv /\ WalkInv => Complete
  <2> SUFFICES ASSUME IInv, WalkInv, GetEventNext, held' = -1, walk # {}, Initialized
               PROVE  walk = 0 .. nevents[IdxPmu(held)] - 1
    OBVIOUS
  <2>1. PICK p \in initFlag, e \in 0 .. MaxEvents - 1 : Walking(p, e)
    BY DEF WalkInv
  <2>2. p \in Pmu /\ IdxPmu(held) = p /\ IdxEvent(held) = e /\ Resolves(held)
    BY <2>1, HandleParts, HandleOfEvent DEF IInv, Walking
  <2>3. ~(e < nevents[p] - 1)
    <3>1. SUFFICES ASSUME e < nevents[p] - 1 PROVE FALSE
      OBVIOUS
    <3>2. e + 1 \in 0 .. MaxEvents - 1
      BY <2>2, <3>1, SizeAssumption DEF IInv, TypeOK
    <3>3. held' = Pidx2Idx(p, e + 1)
      BY <2>2, <3>1 DEF GetEventNext
    <3>4. Pidx2Idx(p, e + 1) \in Nat
      BY <3>2, HandleParts DEF IInv
    <3>5. QED
      BY <3>3, <3>4
  <2>4. nevents[p] = e + 1
    BY <2>1, <2>2, <2>3 DEF IInv, TypeOK, Walking
  <2>5. QED
    BY <2>1, <2>2, <2>4 DEF Walking
<1>2. QED
  BY WalkInvariance, <1>1, PTL DEF WalkComplete
============================================================================

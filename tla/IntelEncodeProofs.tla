------------------------- MODULE IntelEncodeProofs -------------------------
(***************************************************************************)
(* Proofs about the Intel core encoder: for every table that passes the    *)
(* checks of the library, every request and any number of attributes, what *)
(* is encoded is well typed, the unit masks of an accepted event are       *)
(* consistent and complete, a modifier that they wire is kept, what is     *)
(* encoded is a function of the set of the attributes, and the string of   *)
(* an encoding is encoded to the same.                                     *)
(***************************************************************************)
EXTENDS IntelEncode, FiniteSetTheorems, TLAPS

(***************************************************************************)
(* The inductive invariant                                                 *)
(***************************************************************************)
Fields == {"reg", "umask", "named", "added", "raw", "mods", "max_grpid", "limit",
           "but_0", "code", "ldlat", "fe_thr", "missing"}

Used == l.named \cup l.added

\* The local variables are there, and belong to an event of the table.
Shape == event \in Events /\ DOMAIN l = Fields /\ (phase = "attrs" => l.added = {})

\* The unit masks read so far can be combined, and the limits on groups come
\* from one of them.
NamedOK ==
    /\ \A m, n \in l.named : Group(m) = Group(n) /\ Has(m, "NCOMBO") => m = n
    /\ l.max_grpid # MaxGrpid =>
           \E n \in l.named : Has(n, "EXCL_GRP_GT") /\ Group(n) = l.max_grpid
    /\ l.but_0 # -1 => \E n \in l.named : Has(n, "EXCL_GRP_BUT_0")

\* why a group needs no further unit mask
Complete(g) ==
    \/ \E n \in Used : Group(n) = g
    \/ \E n \in DOMAIN umasks : Group(n) = g /\ Has(n, "GRP_DFL_NONE")
    \/ \E n \in Used : Has(n, "EXCL_GRP_GT") /\ Group(n) < g
    \/ g # 0 /\ \E n \in Used : Has(n, "EXCL_GRP_BUT_0")

\* Defaults come in groups without unit masks of the request, one in each,
\* and the groups that were looked at are complete.
Separate ==
    /\ \A g \in l.missing : g \in Groups /\ \A n \in Used : Group(n) # g
    /\ \A m \in l.added : m \in DOMAIN umasks /\ Has(m, "DFL")
    /\ \A m \in l.added, n \in l.named : Group(m) # Group(n)
Completed ==
    /\ l.limit # MaxGrpid => \E n \in Used : Has(n, "EXCL_GRP_GT") /\ Group(n) = l.limit
    /\ l.raw = <<>> => \A g \in Groups \ l.missing : Complete(g)

\* Where the defaults are being added, or have been.
DefaultsOK == (phase = "defaults" \/ Done) => Separate /\ Completed

\* The result is about the unit masks at hand.
Result == Done => res.used = Used /\ l.missing = {}

IInv == Shape /\ NamedOK /\ DefaultsOK /\ Result

(***************************************************************************)
(* The table                                                               *)
(***************************************************************************)

\* Groups are small numbers, and a group has one default at most.
LEMMA TableFacts ==
    ASSUME NEW ev \in Events
    PROVE  LET um == Table[ev].umasks
           IN  /\ \A n \in DOMAIN um : um[n].grpid \in 0 .. 7 /\ um[n].grpid < Table[ev].ngrp
               /\ \A m, n \in DOMAIN um :
                     "DFL" \in um[m].uflags /\ "DFL" \in um[n].uflags /\ um[m].grpid = um[n].grpid => m = n
<1> DEFINE um == Table[ev].umasks
<1>1. Entry(Table[ev]) /\ WellFormed(Table[ev])
  BY TableAssumption
<1>2. \A n \in DOMAIN um : um[n] \in Umask /\ um[n].grpid < Table[ev].ngrp
  BY <1>1 DEF Entry
<1>3. \A n \in DOMAIN um : um[n].grpid \in 0 .. 7
  BY <1>2 DEF Umask
<1>4. \A m, n \in DOMAIN um :
         "DFL" \in um[m].uflags /\ "DFL" \in um[n].uflags /\ um[m].grpid = um[n].grpid => m = n
  BY <1>1 DEF WellFormed
<1>5. QED
  BY <1>2, <1>3, <1>4

(***************************************************************************)
(* Calls and failures                                                      *)
(***************************************************************************)
LEMMA FailureNotDone ==
    ASSUME NEW err, err # Success
    PROVE  Failure(err).err # Success
BY DEF Failure, Success

\* A call starts with local variables that satisfy the invariant.
LEMMA StartOK ==
    ASSUME NEW why, NEW ev \in Events, NEW a, NEW before, Start(why, ev, a, before)
    PROVE  IInv'
<1>1. /\ event' = ev /\ phase' = "attrs" /\ l' = Locals(ev)
  BY DEF Start
<1>2. DOMAIN Locals(ev) = Fields
  BY DEF Locals, Fields
<1>3. l'.named = {} /\ l'.added = {} /\ l'.max_grpid = MaxGrpid /\ l'.but_0 = -1
  BY <1>1 DEF Locals
<1>4. Shape'
  BY <1>1, <1>2, <1>3 DEF Shape
<1>5. NamedOK'
  BY <1>3 DEF NamedOK
<1>6. DefaultsOK' /\ Result'
  BY <1>1 DEF DefaultsOK, Result, Done
<1>7. QED
  BY <1>4, <1>5, <1>6 DEF IInv

\* A call that fails keeps its local variables and has no result.
LEMMA ReturnOK ==
    ASSUME IInv, NEW err, err # Success, Return(err), UNCHANGED event
    PROVE  IInv'
<1>1. phase' = "idle" /\ l' = l /\ res' = Failure(err) /\ event' = event
  BY DEF Return
<1>2. ~ Done'
  BY <1>1, FailureNotDone DEF Done
<1>3. Shape' /\ NamedOK'
  BY <1>1 DEF IInv, Shape, NamedOK, Group, Has, umasks, entry
<1>4. DefaultsOK' /\ Result'
  BY <1>1, <1>2 DEF DefaultsOK, Result
<1>5. QED
  BY <1>3, <1>4 DEF IInv

(***************************************************************************)
(* The loop over the attributes                                            *)
(***************************************************************************)

\* A step of the loop that goes on, and changes neither the unit masks nor
\* the limits.
LEMMA KeepOK ==
    ASSUME IInv, phase = "attrs", UNCHANGED <<event, phase>>, DOMAIN l' = Fields,
           l'.named = l.named, l'.added = l.added,
           l'.max_grpid = l.max_grpid, l'.but_0 = l.but_0
    PROVE  IInv'
<1>1. Shape' /\ NamedOK'
  BY DEF IInv, Shape, NamedOK, Group, Has, umasks, entry
<1>2. DefaultsOK' /\ Result'
  BY DEF DefaultsOK, Result, Done
<1>3. QED
  BY <1>1, <1>2 DEF IInv

LEMMA TakeUmaskOK ==
    ASSUME IInv, NEW a, TakeUmask(a)
    PROVE  IInv'
<1> DEFINE n == a.name
<1>1. UNCHANGED event /\ phase = "attrs"
  BY DEF TakeUmask, Reads
<1>2. CASE Return("FEATCOMB")
  BY <1>1, <1>2, ReturnOK DEF Success
<1>3. CASE ~ Return("FEATCOMB")
  <2>1. ~ NoCombination(n)
    BY <1>3 DEF TakeUmask
  <2>2. /\ phase' = "attrs" /\ DOMAIN l' = Fields
        /\ l'.named = l.named \cup {n} /\ l'.added = l.added
        /\ l'.max_grpid = IF Has(n, "EXCL_GRP_GT") THEN Group(n) ELSE l.max_grpid
        /\ l'.but_0 = IF Has(n, "EXCL_GRP_BUT_0") THEN Group(n) ELSE l.but_0
    BY <1>1, <1>3 DEF TakeUmask, Continue, IInv, Shape, Fields, Group
  <2>3. Shape'
    BY <1>1, <2>2 DEF IInv, Shape
  <2>4. \A m, o \in l.named \cup {n} : Group(m) = Group(o) /\ Has(m, "NCOMBO") => m = o
    BY <2>1 DEF NoCombination, IInv, NamedOK
  <2>5. /\ l'.max_grpid # MaxGrpid =>
               \E m \in l'.named : Has(m, "EXCL_GRP_GT") /\ Group(m) = l'.max_grpid
        /\ l'.but_0 # -1 => \E m \in l'.named : Has(m, "EXCL_GRP_BUT_0")
    <3>1. CASE Has(n, "EXCL_GRP_GT")
      <4>1. l'.max_grpid = Group(n)
        BY <3>1, <2>2
      <4>2. QED
        BY <4>1, <3>1, <2>2 DEF IInv, NamedOK
    <3>2. CASE ~ Has(n, "EXCL_GRP_GT")
      <4>1. l'.max_grpid = l.max_grpid
        BY <3>2, <2>2
      <4>2. QED
        BY <4>1, <2>2 DEF IInv, NamedOK
    <3>3. QED
      BY <3>1, <3>2
  <2>6. NamedOK'
    BY <1>1, <2>2, <2>4, <2>5 DEF NamedOK, Group, Has, umasks, entry
  <2>7. DefaultsOK' /\ Result'
    BY <2>2 DEF DefaultsOK, Result, Done
  <2>8. QED
    BY <2>3, <2>6, <2>7 DEF IInv
<1>4. QED
  BY <1>2, <1>3

LEMMA TakeRawOK ==
    ASSUME IInv, NEW a, TakeRaw(a)
    PROVE  IInv'
<1>1. UNCHANGED event /\ phase = "attrs"
  BY DEF TakeRaw, Reads
<1>2. CASE Return("ATTR")
  BY <1>1, <1>2, ReturnOK DEF Success
<1>3. CASE ~ Return("ATTR")
  <2>1. /\ phase' = phase /\ DOMAIN l' = Fields
        /\ l'.named = l.named /\ l'.added = l.added
        /\ l'.max_grpid = l.max_grpid /\ l'.but_0 = l.but_0
    BY <1>3 DEF TakeRaw, Continue, IInv, Shape, Fields
  <2>2. QED
    BY <1>1, <2>1, KeepOK
<1>4. QED
  BY <1>2, <1>3

LEMMA TakeModifierOK ==
    ASSUME IInv, NEW a, TakeModifier(a)
    PROVE  IInv'
<1>1. UNCHANGED event /\ phase = "attrs"
  BY DEF TakeModifier, Reads
<1>2. CASE BadValue(a.name, a.ival)
  <2>1. Return("ATTR_VAL")
    BY <1>2 DEF TakeModifier
  <2>2. QED
    BY <1>1, <2>1, ReturnOK DEF Success
<1>3. CASE ~ BadValue(a.name, a.ival)
  <2>1. /\ phase' = phase /\ DOMAIN l' = Fields
        /\ l'.named = l.named /\ l'.added = l.added
        /\ l'.max_grpid = l.max_grpid /\ l'.but_0 = l.but_0
    <3>1. DOMAIN l = Fields
      BY DEF IInv, Shape
    <3>2. CASE a.name = "ldlat"
      BY <1>3, <3>1, <3>2 DEF TakeModifier, Continue, Fields
    <3>3. CASE a.name = "fe_thres"
      BY <1>3, <3>1, <3>3 DEF TakeModifier, Continue, Fields
    <3>4. CASE a.name # "ldlat" /\ a.name # "fe_thres"
      BY <1>3, <3>1, <3>4 DEF TakeModifier, Continue, Fields
    <3>5. QED
      BY <3>2, <3>3, <3>4
  <2>2. QED
    BY <1>1, <2>1, KeepOK
<1>4. QED
  BY <1>2, <1>3

(***************************************************************************)
(* The default unit masks                                                  *)
(***************************************************************************)
LEMMA EndAttrsOK ==
    ASSUME IInv, EndAttrs
    PROVE  IInv'
<1>1. UNCHANGED event /\ phase = "attrs" /\ l.added = {}
  BY DEF EndAttrs, IInv, Shape
<1>2. CASE Conflict
  <2>1. Return("ATTR_SET")
    BY <1>2 DEF EndAttrs
  <2>2. QED
    BY <1>1, <2>1, ReturnOK DEF Success
<1>3. CASE ~ Conflict
  <2>1. /\ phase' = "defaults" /\ DOMAIN l' = Fields
        /\ l'.named = l.named /\ l'.added = {} /\ l'.raw = l.raw
        /\ l'.max_grpid = l.max_grpid /\ l'.but_0 = l.but_0
        /\ l'.missing = Groups \ Covered /\ l'.limit = l.max_grpid
    BY <1>1, <1>3 DEF EndAttrs, IInv, Shape, Fields
  <2>2. \A n : Group(n)' = Group(n)
    BY <1>1 DEF Group, umasks, entry
  <2>3. \A n, f : Has(n, f)' = Has(n, f)
    BY <1>1 DEF Has, umasks, entry
  <2>4. Groups' = Groups /\ umasks' = umasks
    BY <1>1 DEF Groups, umasks, entry
  <2>5. Used' = l.named
    BY <2>1 DEF Used
  <2>6. Shape' /\ NamedOK'
    BY <1>1, <2>1 DEF IInv, Shape, NamedOK, Group, Has, umasks, entry
  <2>7. \A n \in l.named : Group(n) \in Groups => Group(n) \in Covered
    BY DEF Covered
  <2>8. Separate'
    BY <2>1, <2>2, <2>4, <2>5, <2>7 DEF Separate
  <2>9. Completed'
    <3>1. l.raw = <<>> => \A g \in Groups : g \in Covered => \E n \in l.named : Group(n) = g
      BY DEF Covered
    <3>2. l'.raw = <<>> => \A g \in Groups \ l'.missing : Complete(g)'
      BY <2>1, <2>2, <2>5, <3>1 DEF Complete
    <3>3. l'.limit # MaxGrpid => \E n \in l.named : Has(n, "EXCL_GRP_GT") /\ Group(n) = l'.limit
      BY <2>1 DEF IInv, NamedOK
    <3>4. QED
      BY <2>1, <2>2, <2>3, <2>4, <2>5, <3>2, <3>3 DEF Completed, MaxGrpid
  <2>10. DefaultsOK' /\ Result'
    BY <2>1, <2>8, <2>9 DEF DefaultsOK, Result, Done
  <2>11. QED
    BY <2>6, <2>10 DEF IInv
<1>4. QED
  BY <1>2, <1>3

LEMMA AddDefaultOK ==
    ASSUME IInv, NEW g, AddDefault(g)
    PROVE  IInv'
<1> DEFINE own == {n \in DOMAIN umasks : Group(n) = g}
           dfl == {n \in own : ~ Skipped(n) /\ Has(n, "DFL")}
           exclusive == \E n \in dfl : Has(n, "EXCL_GRP_GT")
           bad == \/ \A n \in own : n \notin dfl /\ ~ Skipped(n)
                  \/ exclusive /\ l.limit # MaxGrpid
<1>1. UNCHANGED event /\ phase = "defaults" /\ g \in l.missing
  BY DEF AddDefault
<1>2. CASE bad
  <2>1. Return("UMASK")
    BY <1>2 DEF AddDefault
  <2>2. QED
    BY <1>1, <2>1, ReturnOK DEF Success
<1>3. CASE ~ bad
  <2>1. /\ phase' = "defaults" /\ DOMAIN l' = Fields
        /\ l'.named = l.named /\ l'.added = l.added \cup dfl /\ l'.raw = l.raw
        /\ l'.max_grpid = l.max_grpid /\ l'.but_0 = l.but_0
        /\ l'.missing = l.missing \ {g}
        /\ l'.limit = IF exclusive THEN g ELSE l.limit
    BY <1>1, <1>3 DEF AddDefault, Continue, IInv, Shape, Fields
  <2>2. \A n : Group(n)' = Group(n)
    BY <1>1 DEF Group, umasks, entry
  <2>3. \A n, f : Has(n, f)' = Has(n, f)
    BY <1>1 DEF Has, umasks, entry
  <2>4. Groups' = Groups /\ umasks' = umasks
    BY <1>1 DEF Groups, umasks, entry
  <2>5. Separate /\ Completed /\ g \in Groups
    BY <1>1 DEF IInv, DefaultsOK, Separate
  <2>6. Used' = Used \cup dfl
    BY <2>1 DEF Used
  <2>7. Shape' /\ NamedOK'
    BY <1>1, <2>1 DEF IInv, Shape, NamedOK, Group, Has, umasks, entry
  <2>8. Separate'
    <3>1. \A n \in dfl : Group(n) = g /\ n \in DOMAIN umasks /\ Has(n, "DFL")
      OBVIOUS
    <3>2. \A n \in l.named : Group(n) # g
      BY <1>1, <2>5 DEF Separate, Used
    <3>3. \A h \in l'.missing : h \in Groups /\ \A n \in Used' : Group(n) # h
      BY <2>1, <2>5, <2>6, <3>1 DEF Separate
    <3>4. \A m \in l'.added : m \in DOMAIN umasks /\ Has(m, "DFL")
      BY <2>1, <2>5, <3>1 DEF Separate
    <3>5. \A m \in l'.added, n \in l'.named : Group(m) # Group(n)
      BY <2>1, <2>5, <3>1, <3>2 DEF Separate
    <3>6. QED
      BY <2>2, <2>3, <2>4, <3>3, <3>4, <3>5 DEF Separate
  <2>9. l'.limit # MaxGrpid => \E n \in Used' : Has(n, "EXCL_GRP_GT") /\ Group(n) = l'.limit
    <3>1. CASE exclusive
      BY <2>1, <2>6, <3>1
    <3>2. CASE ~ exclusive
      BY <2>1, <2>5, <2>6, <3>2 DEF Completed
    <3>3. QED
      BY <3>1, <3>2
  <2>10. Complete(g) \/ \E n \in dfl : Group(n) = g
    <3>1. PICK n \in own : n \in dfl \/ Skipped(n)
      BY <1>3
    <3>2. Group(n) = g /\ n \in DOMAIN umasks
      BY <3>1
    <3>3. g \in 0 .. 7
      BY <3>2, TableFacts DEF IInv, Shape, Group, umasks, entry
    <3>4. CASE n \in dfl
      BY <3>2, <3>4
    <3>5. CASE Group(n) > l.limit
      <4>1. l.limit # MaxGrpid
        BY <3>2, <3>3, <3>5 DEF MaxGrpid
      <4>2. PICK m \in Used : Has(m, "EXCL_GRP_GT") /\ Group(m) = l.limit
        BY <4>1, <2>5 DEF Completed
      <4>3. Group(m) < g
        BY <4>2, <3>2, <3>5
      <4>4. QED
        BY <4>2, <4>3 DEF Complete
    <3>6. CASE Has(n, "GRP_DFL_NONE")
      BY <3>2, <3>6 DEF Complete
    <3>7. CASE l.but_0 # -1 /\ Group(n) \notin {0, l.but_0}
      <4>1. PICK m \in l.named : Has(m, "EXCL_GRP_BUT_0")
        BY <3>7 DEF IInv, NamedOK
      <4>2. QED
        BY <4>1, <3>2, <3>7 DEF Complete, Used
    <3>8. QED
      BY <3>1, <3>4, <3>5, <3>6, <3>7 DEF Skipped
  <2>11. l'.raw = <<>> => \A h \in Groups \ l'.missing : Complete(h)'
    <3>1. SUFFICES ASSUME l.raw = <<>>, NEW h \in Groups, h \notin l.missing \/ h = g
                   PROVE  Complete(h)'
      BY <2>1
    <3>2. Complete(h) \/ \E n \in dfl : Group(n) = h
      BY <2>5, <2>10, <3>1 DEF Completed
    <3>3. QED
      BY <2>2, <2>3, <2>4, <2>6, <3>2 DEF Complete
  <2>12. Completed'
    BY <2>2, <2>3, <2>4, <2>9, <2>11 DEF Completed, MaxGrpid
  <2>13. DefaultsOK' /\ Result'
    BY <2>1, <2>8, <2>12 DEF DefaultsOK, Result, Done
  <2>14. QED
    BY <2>7, <2>13 DEF IInv
<1>4. QED
  BY <1>2, <1>3

LEMMA EncodeOK ==
    ASSUME IInv, Encode
    PROVE  IInv'
<1>1. /\ phase = "defaults" /\ l.missing = {} /\ phase' = "idle"
      /\ UNCHANGED <<event, l>>
  BY DEF Encode
<1>2. Separate /\ Completed
  BY <1>1 DEF IInv, DefaultsOK
<1>3. Done' => res'.used = Used
  BY FailureNotDone DEF Encode, Done, Used, Success
<1>4. Shape' /\ NamedOK'
  BY <1>1 DEF IInv, Shape, NamedOK, Group, Has, umasks, entry
<1>5. Separate' /\ Completed'
  BY <1>1, <1>2 DEF Separate, Completed, Complete, Used, Group, Has, Groups, umasks, entry
<1>6. DefaultsOK' /\ Result'
  BY <1>1, <1>3, <1>5 DEF DefaultsOK, Result, Used
<1>7. QED
  BY <1>4, <1>6 DEF IInv

(***************************************************************************)
(* Theorems                                                                *)
(***************************************************************************)
LEMMA InitOK ==
    ASSUME Init
    PROVE  IInv
<1>1. event \in Events /\ phase = "idle" /\ l = Locals(event) /\ res = NoResult
  BY DEF Init
<1>2. ~ Done
  BY <1>1, FailureNotDone DEF Done, NoResult, Success
<1>3. DOMAIN l = Fields /\ l.named = {} /\ l.added = {} /\ l.max_grpid = MaxGrpid /\ l.but_0 = -1
  BY <1>1 DEF Locals, Fields
<1>4. QED
  BY <1>1, <1>2, <1>3 DEF IInv, Shape, NamedOK, DefaultsOK, Result

LEMMA NextOK ==
    ASSUME IInv, [Next]_vars
    PROVE  IInv'
<1>1. CASE Request
  BY <1>1, StartOK DEF Request
<1>2. CASE Again
  BY <1>2, StartOK DEF Again, IInv, Shape
<1>3. CASE Reorder
  BY <1>3, StartOK DEF Reorder, IInv, Shape
<1>4. ASSUME NEW a \in Readable, TakeUmask(a) PROVE IInv'
  BY <1>4, TakeUmaskOK
<1>5. ASSUME NEW a \in Readable, TakeRaw(a) PROVE IInv'
  BY <1>5, TakeRawOK
<1>6. ASSUME NEW a \in Readable, TakeModifier(a) PROVE IInv'
  BY <1>6, TakeModifierOK
<1>7. CASE EndAttrs
  BY <1>7, EndAttrsOK
<1>8. ASSUME NEW g \in l.missing, AddDefault(g) PROVE IInv'
  BY <1>8, AddDefaultOK
<1>9. CASE Encode
  BY <1>9, EncodeOK
<1>10. CASE UNCHANGED vars
  BY <1>10 DEF vars, IInv, Shape, NamedOK, DefaultsOK, Separate, Completed, Complete, Result,
       Done, Used, Group, Has, Groups, umasks, entry
<1>11. QED
  BY <1>1, <1>2, <1>3, <1>4, <1>5, <1>6, <1>7, <1>8, <1>9, <1>10 DEF Next

LEMMA Invariant == Spec => []IInv
<1>1. Init => IInv
  BY InitOK
<1>2. IInv /\ [Next]_vars => IInv'
  BY NextOK
<1>3. QED
  BY <1>1, <1>2, PTL DEF Spec

\* pfm_intel_x86_encode_gen accepts no unit mask that cannot be combined
\* together with another one of its group, given or added as a default.
THEOREM CombinationsRespected == Spec => []NoCombo
<1>1. IInv => NoCombo
  <2>1. SUFFICES ASSUME IInv, Done, NEW m \in res.used, NEW n \in res.used,
                        Group(m) = Group(n), Has(m, "NCOMBO")
                 PROVE  m = n
    BY DEF NoCombo
  <2>2. m \in l.named \cup l.added /\ n \in l.named \cup l.added
    BY <2>1 DEF IInv, Result, Used
  <2>3. Separate
    BY <2>1 DEF IInv, DefaultsOK
  <2>4. CASE m \in l.named /\ n \in l.named
    BY <2>1, <2>4 DEF IInv, NamedOK
  <2>5. CASE m \in l.added /\ n \in l.added
    <3>1. m \in DOMAIN umasks /\ n \in DOMAIN umasks /\ Has(m, "DFL") /\ Has(n, "DFL")
      BY <2>3, <2>5 DEF Separate
    <3>2. QED
      BY <2>1, <3>1, TableFacts DEF IInv, Shape, Group, Has, umasks, entry
  <2>6. CASE (m \in l.named /\ n \in l.added) \/ (m \in l.added /\ n \in l.named)
    BY <2>1, <2>3, <2>6 DEF Separate
  <2>7. QED
    BY <2>2, <2>4, <2>5, <2>6
<1>2. QED
  BY <1>1, Invariant, PTL

\* pfm_intel_x86_add_defaults leaves no group of an accepted event without a
\* unit mask, but those that may be empty or that another unit mask excludes.
THEOREM GroupsComplete == Spec => []GroupsCovered
<1>1. IInv => GroupsCovered
  <2>1. SUFFICES ASSUME IInv, Done, l.raw = <<>>, NEW g \in Groups
                 PROVE  Complete(g) /\ res.used = Used
    BY DEF GroupsCovered, Complete
  <2>2. Completed /\ l.missing = {} /\ res.used = Used
    BY <2>1 DEF IInv, DefaultsOK, Result
  <2>3. QED
    BY <2>1, <2>2 DEF Completed
<1>2. QED
  BY <1>1, Invariant, PTL

LEMMA FieldFacts ==
    /\ DOMAIN Field = {"u", "k", "e", "t", "i", "c", "intx", "intxcp"}
    /\ \A m \in DOMAIN Field :
          /\ Field[m] \subseteq 16 .. 33 /\ EnBit \notin Field[m] /\ IntBit \notin Field[m]
          /\ \A o \in DOMAIN Field : o # m => Field[o] \cap Field[m] = {}
<1>1. DOMAIN Field = {"u", "k", "e", "t", "i", "c", "intx", "intxcp"}
  BY DEF Field
<1>2. /\ Field["u"] = {16} /\ Field["k"] = {17} /\ Field["e"] = {18} /\ Field["t"] = {21}
      /\ Field["i"] = {23} /\ Field["c"] = 24 .. 31 /\ Field["intx"] = {32} /\ Field["intxcp"] = {33}
  BY DEF Field
<1> DEFINE place == [u |-> 16, k |-> 17, e |-> 18, t |-> 21, i |-> 23, c |-> 24, intx |-> 32, intxcp |-> 33]
<1>3. \A m \in DOMAIN Field : \A b \in Field[m] : 
         b \in 16 .. 33 /\ b # 22 /\ b # 20 /\ (IF b \in 24 .. 31 THEN 24 ELSE b) = place[m]
  BY <1>1, <1>2
<1>4. \A m, o \in DOMAIN Field : place[m] = place[o] => m = o
  BY <1>1
<1>5. QED
  BY <1>1, <1>3, <1>4 DEF EnBit, IntBit

(***************************************************************************)
(* Induction on the natural numbers, from the minimal elements of a set of *)
(* intervals.                                                              *)
(***************************************************************************)
LEMMA SetInduction ==
    ASSUME NEW P, 0 \in P, \A n \in Nat : n \in P => n + 1 \in P
    PROVE  \A n \in Nat : n \in P
<1> SUFFICES ASSUME NEW n \in Nat, n \notin P PROVE FALSE
  OBVIOUS
<1> DEFINE T == {0 .. i : i \in {j \in 0 .. n : j \notin P}}
<1>1. T \subseteq FiniteSubsetsOf(0 .. n)
  <2>1. \A i \in 0 .. n : IsFiniteSet(0 .. i) /\ 0 .. i \subseteq 0 .. n
    BY FS_Interval
  <2>2. QED
    BY <2>1 DEF FiniteSubsetsOf
<1>2. T # {}
  OBVIOUS
<1>3. PICK x \in T : \A y \in T : ~ (<<y, x>> \in StrictSubsetOrdering(0 .. n))
  <2>1. IsWellFoundedOn(StrictSubsetOrdering(0 .. n), FiniteSubsetsOf(0 .. n))
    BY FS_StrictSubsetOrderingWellFounded
  <2> HIDE DEF T
  <2>2. QED
    BY <1>1, <1>2, <2>1, WFMin
<1>4. PICK i \in 0 .. n : i \notin P /\ x = 0 .. i
  OBVIOUS
<1>5. i # 0 /\ i - 1 \in Nat
  BY <1>4
<1>6. i - 1 \notin P
  BY <1>4, <1>5
<1>7. 0 .. (i - 1) \in T
  BY <1>5, <1>6
<1>8. <<0 .. (i - 1), x>> \in StrictSubsetOrdering(0 .. n)
  <2>1. 0 .. (i - 1) \subseteq 0 .. i /\ i \in 0 .. i /\ i \notin 0 .. (i - 1)
    BY <1>5
  <2>2. x \subseteq 0 .. n /\ 0 .. (i - 1) \subseteq 0 .. n
    BY <1>4, <1>5
  <2>3. QED
    BY <1>4, <2>1, <2>2 DEF StrictSubsetOrdering
<1>9. QED
  BY <1>3, <1>7, <1>8

(***************************************************************************)
(* pfmlib_sort_attr: the unit masks of a set come out, and no other        *)
(***************************************************************************)
\* The recursive function of Sorted satisfies its equation.
LEMMA SortedUpto ==
    ASSUME NEW s, Len(s) \in Nat, NEW S
    PROVE  \E u : /\ u = [x \in 0 .. Len(s) |-> IF x = 0 THEN <<>>
                                               ELSE IF s[x] \in S THEN Append(u[x - 1], s[x]) ELSE u[x - 1]]
                  /\ Sorted(s, S) = u[Len(s)]
<1> DEFINE E(g, x) == IF x = 0 THEN <<>> ELSE IF s[x] \in S THEN Append(g[x - 1], s[x]) ELSE g[x - 1]
           Rec(g, n) == g = [x \in 0 .. n |-> E(g, x)]
           Q == {n \in Nat : n <= Len(s) => \E g : Rec(g, n)}
           upto[x \in 0 .. Len(s)] ==
              IF x = 0 THEN <<>>
              ELSE IF s[x] \in S THEN Append(upto[x - 1], s[x]) ELSE upto[x - 1]
<1> HIDE DEF upto, E
<1>1. \A n \in Nat : n \in Q
  <2>1. 0 \in Q
    <3>1. Rec([x \in 0 .. 0 |-> <<>>], 0)
      BY DEF E
    <3>2. QED
      BY <3>1
  <2>2. \A n \in Nat : n \in Q => n + 1 \in Q
    <3>1. SUFFICES ASSUME NEW n \in Nat, n \in Q, n + 1 <= Len(s) PROVE \E g : Rec(g, n + 1)
      OBVIOUS
    <3>2. PICK g : Rec(g, n)
      BY <3>1
    <3> DEFINE h == [x \in 0 .. n + 1 |-> E(g, x)]
    <3>3. \A x \in 0 .. n : h[x] = g[x]
      <4>1. n \in Nat
        BY <3>1
      <4>2. QED
        BY <3>2, <4>1
    <3>4. \A x \in 0 .. n + 1 : E(h, x) = E(g, x)
      <4>1. n \in Nat /\ \A x \in 0 .. n + 1 : x # 0 => x - 1 \in 0 .. n
        BY <3>1
      <4> HIDE DEF h
      <4>2. QED
        BY <3>3, <4>1 DEF E
    <3>5. Rec(h, n + 1)
      BY <3>4
    <3>6. QED
      BY <3>5
  <2> HIDE DEF Q
  <2>3. QED
    BY <2>1, <2>2, SetInduction
<1>2. upto = [x \in 0 .. Len(s) |-> E(upto, x)]
  <2>1. \E g : Rec(g, Len(s))
    BY <1>1
  <2>2. upto = CHOOSE g : Rec(g, Len(s))
    BY DEF upto, E
  <2> HIDE DEF Rec
  <2>3. Rec(upto, Len(s))
    BY <2>1, <2>2
  <2>4. QED
    BY <2>3 DEF Rec
<1>3. Sorted(s, S) = upto[Len(s)]
  BY DEF Sorted, upto
<1>4. QED
  BY <1>2, <1>3 DEF E

LEMMA SortedType ==
    ASSUME NEW A, NEW s \in Seq(A), NEW S
    PROVE  Sorted(s, S) \in Seq(A \cap S)
<1> DEFINE E(g, x) == IF x = 0 THEN <<>> ELSE IF s[x] \in S THEN Append(g[x - 1], s[x]) ELSE g[x - 1]
<1>1. Len(s) \in Nat
  OBVIOUS
<1>2. PICK upto : upto = [x \in 0 .. Len(s) |-> E(upto, x)] /\ Sorted(s, S) = upto[Len(s)]
  BY <1>1, SortedUpto
<1> DEFINE P == {n \in Nat : n <= Len(s) => upto[n] \in Seq(A \cap S)}
<1> HIDE DEF E
<1>3. \A n \in Nat : n \in P
  <2>1. 0 \in P
    <3>1. Len(s) \in Nat /\ upto[0] = <<>>
      BY <1>2 DEF E
    <3>2. <<>> \in Seq(A \cap S)
      OBVIOUS
    <3>3. QED
      BY <3>1, <3>2
  <2>2. \A n \in Nat : n \in P => n + 1 \in P
    <3>1. SUFFICES ASSUME NEW n \in P, n + 1 <= Len(s) PROVE upto[n + 1] \in Seq(A \cap S)
      OBVIOUS
    <3>2. upto[n] \in Seq(A \cap S)
      BY <3>1
    <3>3. s[n + 1] \in A /\ (n + 1) - 1 = n
      BY <3>1
    <3>4. upto[n + 1] = E(upto, n + 1)
      BY <1>2, <3>1, <3>3
    <3>5. QED
      BY <3>2, <3>3, <3>4 DEF E
  <2> HIDE DEF P
  <2>3. QED
    BY <2>1, <2>2, SetInduction
<1>4. upto[Len(s)] \in Seq(A \cap S)
  BY <1>1, <1>3 DEF P
<1>5. QED
  BY <1>2, <1>4

(***************************************************************************)
(* Types                                                                   *)
(***************************************************************************)
\* The bits that may be set: ldlat and the frontend threshold were checked,
\* and a unit mask stays in its part of the register.
Bits ==
    /\ l.reg \subseteq 0 .. 63 /\ l.umask \subseteq 8 .. 63
    /\ l.ldlat \subseteq 0 .. 15 /\ l.fe_thr \subseteq 0 .. 11
Choices ==
    /\ l.named \subseteq DOMAIN umasks /\ l.added \subseteq DOMAIN umasks /\ l.mods \subseteq Mods
    /\ l.raw \in Seq(Attributes) /\ \A x \in 1 .. Len(l.raw) : l.raw[x].type = "raw"
Limits ==
    /\ l.max_grpid \in Groups \cup {MaxGrpid} /\ l.limit \in Groups \cup {MaxGrpid}
    /\ l.but_0 \in Groups \cup {-1} /\ l.missing \subseteq Groups
Typed ==
    /\ phase \in {"idle", "attrs", "defaults"}
    /\ call \in {"none", "first", "again", "reorder"}
    /\ event \in Events /\ plm \subseteq {"k", "u"} /\ k \in Nat
    /\ attrs \in Seq(Attributes)
    /\ Bits /\ Choices /\ Limits
    /\ OutcomeOK(res) /\ OutcomeOK(first)

LEMMA EntryFacts ==
    ASSUME NEW ev \in Events
    PROVE  LET en == Table[ev]
           IN  /\ en.code \subseteq 0 .. 63 /\ en.width \in {8, 16, 38}
               /\ en.names \in Seq(DOMAIN en.umasks) /\ en.mods \in Seq(Mods)
               /\ \A n \in DOMAIN en.umasks :
                     en.umasks[n].ucode \subseteq 0 .. 63 /\ en.umasks[n].grpid \in 0 .. en.ngrp - 1
               /\ DOMAIN en.umasks = {en.names[x] : x \in 1 .. Len(en.names)}
<1> DEFINE en == Table[ev]
<1>1. Entry(en)
  BY TableAssumption
<1>2. \A n \in DOMAIN en.umasks : en.umasks[n] \in Umask /\ en.umasks[n].grpid < en.ngrp
  BY <1>1 DEF Entry
<1>3. \A n \in DOMAIN en.umasks : en.umasks[n].ucode \subseteq 0 .. 63 /\ en.umasks[n].grpid \in 0 .. 7
  BY <1>2 DEF Umask, Value, Bit
<1>4. en.ngrp \in 0 .. 7 /\ en.code \subseteq 0 .. 63 /\ en.width \in {8, 16, 38}
  BY <1>1 DEF Entry, Value, Bit
<1>5. en.names \in Seq(DOMAIN en.umasks) /\ en.mods \in Seq(Mods)
  BY <1>1 DEF Entry
<1>6. DOMAIN en.umasks = {en.names[x] : x \in 1 .. Len(en.names)}
  BY <1>1 DEF Entry
<1>8. \A n \in DOMAIN en.umasks : en.umasks[n].grpid \in 0 .. en.ngrp - 1
  BY <1>2, <1>3, <1>4
<1> HIDE DEF en
<1>9. QED
  BY <1>3, <1>4, <1>5, <1>6, <1>8 DEF en

LEMMA FailureOK == \A err \in Errors \ {Success} : OutcomeOK(Failure(err))
BY DEF OutcomeOK, Failure

\* A call starts typed, whatever it is asked to encode.
LEMMA StartTyped ==
    ASSUME NEW why \in {"first", "again", "reorder"}, NEW ev \in Events, NEW a, NEW before,
           Start(why, ev, a, before), plm' \subseteq {"k", "u"},
           a \in Seq(Attributes'), OutcomeOK(before)'
    PROVE  Typed'
<1>1. /\ call' = why /\ event' = ev /\ attrs' = a /\ first' = before
      /\ phase' = "attrs" /\ k' = 1 /\ l' = Locals(ev) /\ res' = NoResult
  BY DEF Start
<1>2. Bits'
  <2>1. Table[ev].code \subseteq 0 .. 63
    BY EntryFacts
  <2>2. l'.reg = Table[ev].code /\ l'.umask = {} /\ l'.ldlat = {} /\ l'.fe_thr = {}
    BY <1>1 DEF Locals
  <2>3. QED
    BY <2>1, <2>2 DEF Bits
<1>3. Choices'
  BY <1>1 DEF Choices, Locals
<1>4. Limits'
  BY <1>1 DEF Limits, Locals
<1>5. OutcomeOK(res)'
  BY <1>1 DEF OutcomeOK, NoResult, Failure, Errors
<1>6. attrs' \in Seq(Attributes')
  BY <1>1 DEF Attributes, umasks, entry
<1>7. OutcomeOK(first)'
  BY <1>1 DEF OutcomeOK, Attributes, umasks, entry
<1>8. QED
  BY <1>1, <1>2, <1>3, <1>4, <1>5, <1>6, <1>7 DEF Typed

LEMMA OfferedTyped ==
    ASSUME Typed, NEW a \in Offered
    PROVE  a \in Attributes
<1>3. \A v \in RawUmasks : v \in Value
  BY TableAssumption
<1>4. \A m \in Modifiers : m[1] \in Mods /\ m[2] \in Value
  BY TableAssumption
<1>5. {} \in Value
  BY DEF Value
<1>6. CASE \E n \in DOMAIN umasks : a = Attr("umask", n, {})
  BY <1>6 DEF Attr, Attributes
<1>7. CASE \E v \in RawUmasks : a = Attr("raw", "0x", v)
  BY <1>3, <1>7 DEF Attr, Attributes
<1>8. CASE \E m \in Modifiers : a = Attr("mod", m[1], m[2])
  BY <1>4, <1>8 DEF Attr, Attributes
<1>9. QED
  BY <1>6, <1>7, <1>8 DEF Offered

\* An attribute that is read is one the event has, and is added to the
\* attributes of a first call.
LEMMA ReadsTyped ==
    ASSUME Typed, NEW a \in Readable, Reads(a)
    PROVE  /\ UNCHANGED <<call, event, plm, first>> /\ k' \in Nat
           /\ a \in Attributes /\ attrs' \in Seq(Attributes')
<1>1. UNCHANGED <<call, event, plm, first>> /\ k' \in Nat
  BY DEF Reads, Typed
<1>2. a \in Attributes
  BY OfferedTyped DEF Readable, Typed
<1>3. attrs' \in Seq(Attributes)
  BY <1>2 DEF Reads, Typed
<1>4. Attributes' = Attributes
  BY <1>1 DEF Attributes, umasks, entry
<1>5. QED
  BY <1>1, <1>2, <1>3, <1>4

LEMMA ReturnTyped ==
    ASSUME Typed, NEW err \in Errors \ {Success}, Return(err),
           UNCHANGED <<call, event, plm, first>>, k' \in Nat, attrs' \in Seq(Attributes')
    PROVE  Typed'
<1>1. phase' = "idle" /\ res' = Failure(err) /\ l' = l
  BY DEF Return
<1>2. Bits' /\ Choices' /\ Limits'
  BY <1>1 DEF Typed, Bits, Choices, Limits, Attributes, Groups, umasks, entry
<1>3. OutcomeOK(res)'
  BY <1>1 DEF OutcomeOK, Failure
<1>4. OutcomeOK(first)'
  BY DEF Typed, OutcomeOK, Attributes, umasks, entry
<1>5. QED
  BY <1>1, <1>2, <1>3, <1>4 DEF Typed

LEMMA ContinueTyped ==
    ASSUME Typed, phase' \in {"idle", "attrs", "defaults"}, UNCHANGED <<call, event, plm, first, res>>,
           k' \in Nat, attrs' \in Seq(Attributes'), Bits', Choices', Limits'
    PROVE  Typed'
<1>1. OutcomeOK(res)' /\ OutcomeOK(first)'
  BY DEF Typed, OutcomeOK, Attributes, umasks, entry
<1>2. QED
  BY <1>1 DEF Typed

LEMMA TakeUmaskTyped ==
    ASSUME Typed, DOMAIN l = Fields, NEW a \in Readable, TakeUmask(a)
    PROVE  Typed'
<1> DEFINE n == a.name
           code == umasks[n].ucode \cap EventSelect
<1>1. /\ UNCHANGED <<call, event, plm, first>> /\ k' \in Nat
      /\ a \in Attributes /\ attrs' \in Seq(Attributes') /\ phase = "attrs" /\ a.type = "umask"
  BY ReadsTyped DEF TakeUmask, Reads
<1>2. CASE Return("FEATCOMB")
  BY <1>1, <1>2, ReturnTyped DEF Errors, Success
<1>3. CASE ~ Return("FEATCOMB")
  <2>1. n \in DOMAIN umasks
    BY <1>1 DEF Attributes
  <2>2. umasks[n].ucode \subseteq 0 .. 63 /\ Group(n) \in Groups
    BY <2>1, EntryFacts DEF Typed, Group, Groups, umasks, entry
  <2>3. /\ phase' = "attrs" /\ res' = res
        /\ l'.named = l.named \cup {n} /\ l'.added = l.added /\ l'.mods = l.mods /\ l'.raw = l.raw
        /\ l'.max_grpid \in {Group(n), l.max_grpid} /\ l'.limit = l.limit
        /\ l'.but_0 \in {Group(n), l.but_0} /\ l'.missing = l.missing
        /\ l'.umask = l.umask \cup (umasks[n].ucode \ EventSelect)
        /\ l'.reg \in {l.reg, (l.reg \ EventSelect) \cup code}
        /\ l'.ldlat = l.ldlat /\ l'.fe_thr = l.fe_thr
    BY <1>1, <1>3 DEF TakeUmask, Continue, Fields, Group
  <2>4. Bits'
    <3>1. l.reg \subseteq 0 .. 63 /\ l.umask \subseteq 8 .. 63
      BY DEF Typed, Bits
    <3>2. umasks[n].ucode \ EventSelect \subseteq 8 .. 63 /\ code \subseteq 0 .. 63
      BY <2>2 DEF EventSelect
    <3>3. l'.reg \subseteq 0 .. 63 /\ l'.umask \subseteq 8 .. 63
      BY <2>3, <3>1, <3>2
    <3>4. QED
      BY <2>3, <3>3 DEF Typed, Bits
  <2>5. Choices'
    BY <1>1, <2>1, <2>3 DEF Typed, Choices, Attributes, umasks, entry
  <2>6. Limits'
    BY <1>1, <2>2, <2>3 DEF Typed, Limits, Groups, umasks, entry
  <2>7. QED
    BY <1>1, <2>3, <2>4, <2>5, <2>6, ContinueTyped
<1>4. QED
  BY <1>2, <1>3

LEMMA TakeRawTyped ==
    ASSUME Typed, DOMAIN l = Fields, NEW a \in Readable, TakeRaw(a)
    PROVE  Typed'
<1>1. /\ UNCHANGED <<call, event, plm, first>> /\ k' \in Nat
      /\ a \in Attributes /\ attrs' \in Seq(Attributes') /\ phase = "attrs" /\ a.type = "raw"
  BY ReadsTyped DEF TakeRaw, Reads
<1>2. CASE Return("ATTR")
  BY <1>1, <1>2, ReturnTyped DEF Errors, Success
<1>3. CASE ~ Return("ATTR")
  <2>1. /\ phase' = "attrs" /\ res' = res
        /\ l'.named = l.named /\ l'.added = l.added /\ l'.mods = l.mods /\ l'.raw = <<a>>
        /\ l'.max_grpid = l.max_grpid /\ l'.limit = l.limit
        /\ l'.but_0 = l.but_0 /\ l'.missing = l.missing
        /\ l'.umask = {b + 8 : b \in a.ival} /\ l'.reg = l.reg
        /\ l'.ldlat = l.ldlat /\ l'.fe_thr = l.fe_thr
        /\ a.ival \subseteq 0 .. entry.width - 1
    BY <1>1, <1>3 DEF TakeRaw, Continue, Fields
  <2>2. Bits'
    <3>1. entry.width \in {8, 16, 38}
      BY EntryFacts DEF Typed, entry
    <3>2. \A b \in a.ival : b \in 0 .. 37
      BY <2>1, <3>1
    <3>3. l'.umask \subseteq 8 .. 63
      BY <2>1, <3>2
    <3>4. QED
      BY <2>1, <3>3 DEF Typed, Bits
  <2>3. Choices'
    BY <1>1, <2>1 DEF Typed, Choices, Attributes, umasks, entry
  <2>4. Limits'
    BY <1>1, <2>1 DEF Typed, Limits, Groups, umasks, entry
  <2>5. QED
    BY <1>1, <2>1, <2>2, <2>3, <2>4, ContinueTyped
<1>4. QED
  BY <1>2, <1>3

LEMMA TakeModifierTyped ==
    ASSUME Typed, DOMAIN l = Fields, NEW a \in Readable, TakeModifier(a)
    PROVE  Typed'
<1> DEFINE m == a.name
           v == a.ival
<1>1. /\ UNCHANGED <<call, event, plm, first>> /\ k' \in Nat
      /\ a \in Attributes /\ attrs' \in Seq(Attributes') /\ phase = "attrs" /\ a.type = "mod"
  BY ReadsTyped DEF TakeModifier, Reads
<1>2. CASE BadValue(m, v)
  <2>1. Return("ATTR_VAL")
    BY <1>2 DEF TakeModifier
  <2>2. QED
    BY <1>1, <2>1, ReturnTyped DEF Errors, Success
<1>3. CASE ~ BadValue(m, v)
  <2>1. m \in Mods
    BY <1>1 DEF Attributes
  <2>2. /\ phase' = "attrs" /\ res' = res
        /\ l'.named = l.named /\ l'.added = l.added /\ l'.mods \in {l.mods, l.mods \cup {m}} /\ l'.raw = l.raw
        /\ l'.max_grpid = l.max_grpid /\ l'.limit = l.limit
        /\ l'.but_0 = l.but_0 /\ l'.missing = l.missing
        /\ l'.umask = l.umask
        /\ l'.reg = l.reg \/ (m \in DOMAIN Field /\ l'.reg = (l.reg \ Field[m]) \cup Stored(m, v))
        /\ l'.ldlat = l.ldlat \/ (m = "ldlat" /\ l'.ldlat = v)
        /\ l'.fe_thr = l.fe_thr \/ (m = "fe_thres" /\ l'.fe_thr = v)
    <3>1. CASE m = "ldlat"
      <4>1. phase' = "attrs" /\ res' = res /\ l' = [l EXCEPT !.ldlat = v]
        BY <1>1, <1>3, <3>1 DEF TakeModifier, Continue
      <4>2. QED
        BY <3>1, <4>1 DEF Fields
    <3>2. CASE m = "fe_thres"
      <4>1. phase' = "attrs" /\ res' = res /\ l' = [l EXCEPT !.fe_thr = v, !.mods = @ \cup {m}]
        BY <1>1, <1>3, <3>2 DEF TakeModifier, Continue
      <4>2. QED
        BY <3>2, <4>1 DEF Fields
    <3>3. CASE m \notin {"ldlat", "fe_thres"}
      <4>1. m \in DOMAIN Field
        BY <2>1, <3>3 DEF Mods
      <4>2. /\ phase' = "attrs" /\ res' = res
            /\ l' = [l EXCEPT !.reg = (@ \ Field[m]) \cup Stored(m, v), !.mods = @ \cup {m}]
        BY <1>1, <1>3, <3>3 DEF TakeModifier, Continue
      <4>3. QED
        BY <4>1, <4>2 DEF Fields
    <3>4. QED
      BY <3>1, <3>2, <3>3
  <2>3. Bits'
    <3>1. m = "ldlat" => v \subseteq 0 .. 15
      BY <1>3 DEF BadValue
    <3>2. m = "fe_thres" => v \subseteq 0 .. 11
      BY <1>3 DEF BadValue
    <3>3. m \in DOMAIN Field => Stored(m, v) \subseteq 0 .. 63
      <4>1. m = "c" => v \subseteq 0 .. 7
        BY <1>3 DEF BadValue
      <4>2. m = "c" => {b + 24 : b \in v} \subseteq 0 .. 63
        BY <4>1
      <4>3. m \in DOMAIN Field => Field[m] \subseteq 0 .. 63
        <5>1. m \in DOMAIN Field => Field[m] \subseteq 16 .. 33
          BY FieldFacts
        <5>2. 16 .. 33 \subseteq 0 .. 63
          OBVIOUS
        <5>3. QED
          BY <5>1, <5>2
      <4>4. QED
        BY <4>2, <4>3 DEF Stored
    <3>4. l'.reg \subseteq 0 .. 63
      BY <2>2, <3>3 DEF Typed, Bits
    <3>5. QED
      BY <2>2, <3>1, <3>2, <3>4 DEF Typed, Bits
  <2>4. Choices'
    BY <1>1, <2>1, <2>2 DEF Typed, Choices, Attributes, umasks, entry
  <2>5. Limits'
    BY <1>1, <2>2 DEF Typed, Limits, Groups, umasks, entry
  <2>6. QED
    BY <1>1, <2>2, <2>3, <2>4, <2>5, ContinueTyped
<1>4. QED
  BY <1>2, <1>3

LEMMA EndAttrsTyped ==
    ASSUME Typed, DOMAIN l = Fields, EndAttrs
    PROVE  Typed'
<1>1. /\ UNCHANGED <<call, event, plm, first>> /\ k' \in Nat
      /\ attrs' \in Seq(Attributes')
  BY DEF EndAttrs, Typed, Attributes, umasks, entry
<1>2. CASE Conflict
  BY <1>1, <1>2, ReturnTyped DEF EndAttrs, Errors, Success
<1>3. CASE ~ Conflict
  <2>1. /\ phase' = "defaults" /\ res' = res
        /\ l'.named = l.named /\ l'.added = l.added /\ l'.mods = l.mods /\ l'.raw = l.raw
        /\ l'.max_grpid = l.max_grpid /\ l'.limit = l.max_grpid
        /\ l'.but_0 = l.but_0 /\ l'.missing = Groups \ Covered
        /\ l'.umask = l.umask /\ l'.reg = l.reg \cup DefaultPlm
        /\ l'.ldlat = l.ldlat /\ l'.fe_thr = l.fe_thr
    BY <1>3 DEF EndAttrs, Fields
  <2>2. DefaultPlm \subseteq 0 .. 63
    <3>1. \A m \in plm : m \in DOMAIN Field
      BY FieldFacts DEF Typed
    <3>2. \A m \in DOMAIN Field : Field[m] \subseteq 0 .. 63
      BY FieldFacts
    <3>3. QED
      BY <3>1, <3>2 DEF DefaultPlm
  <2>3. Bits'
    BY <2>1, <2>2 DEF Typed, Bits
  <2>4. Choices'
    BY <1>1, <2>1 DEF Typed, Choices, Attributes, umasks, entry
  <2>5. Limits'
    BY <1>1, <2>1 DEF Typed, Limits, Groups, umasks, entry
  <2>6. QED
    BY <1>1, <2>1, <2>3, <2>4, <2>5, ContinueTyped
<1>4. QED
  BY <1>2, <1>3

LEMMA AddDefaultTyped ==
    ASSUME Typed, DOMAIN l = Fields, NEW g, AddDefault(g)
    PROVE  Typed'
<1> DEFINE own == {n \in DOMAIN umasks : Group(n) = g}
           dfl == {n \in own : ~ Skipped(n) /\ Has(n, "DFL")}
           exclusive == \E n \in dfl : Has(n, "EXCL_GRP_GT")
           bad == \/ \A n \in own : n \notin dfl /\ ~ Skipped(n)
                  \/ exclusive /\ l.limit # MaxGrpid
           code == (UNION {umasks[n].ucode : n \in dfl}) \ EventSelect
<1>1. /\ UNCHANGED <<call, event, plm, first>> /\ k' \in Nat
      /\ attrs' \in Seq(Attributes') /\ phase = "defaults" /\ g \in Groups
  BY DEF AddDefault, Typed, Limits, Attributes, umasks, entry
<1>2. CASE bad
  <2>1. Return("UMASK")
    BY <1>2 DEF AddDefault
  <2>2. QED
    BY <1>1, <2>1, ReturnTyped DEF Errors, Success
<1>3. CASE ~ bad
  <2>1. /\ phase' = "defaults" /\ res' = res
        /\ l'.named = l.named /\ l'.added = l.added \cup dfl /\ l'.mods = l.mods /\ l'.raw = l.raw
        /\ l'.max_grpid = l.max_grpid /\ l'.limit \in {g, l.limit}
        /\ l'.but_0 = l.but_0 /\ l'.missing = l.missing \ {g}
        /\ l'.umask = l.umask \cup code /\ l'.reg = l.reg
        /\ l'.ldlat = l.ldlat /\ l'.fe_thr = l.fe_thr
    BY <1>1, <1>3 DEF AddDefault, Continue, Fields
  <2>2. dfl \subseteq DOMAIN umasks
    OBVIOUS
  <2> HIDE DEF dfl
  <2>3. Bits'
    <3> DEFINE all == UNION {umasks[n].ucode : n \in dfl}
    <3>1. \A n \in dfl : umasks[n].ucode \subseteq 0 .. 63
      BY <2>2, EntryFacts DEF Typed, umasks, entry
    <3>2. all \subseteq 0 .. 63
      BY <3>1
    <3>3. code = all \ EventSelect
      OBVIOUS
    <3> HIDE DEF all, code
    <3>4. code \subseteq 8 .. 63
      BY <3>2, <3>3 DEF EventSelect
    <3>5. QED
      BY <2>1, <3>4 DEF Typed, Bits
  <2>4. Choices'
    BY <1>1, <2>1, <2>2 DEF Typed, Choices, Attributes, umasks, entry
  <2>5. Limits'
    BY <1>1, <2>1 DEF Typed, Limits, Groups, umasks, entry
  <2>6. QED
    BY <1>1, <2>1, <2>3, <2>4, <2>5, ContinueTyped
<1>4. QED
  BY <1>2, <1>3

\* The codes of an accepted event are registers, and its fully qualified
\* event string has the attributes of the event.
LEMMA CodesTyped ==
    ASSUME Typed
    PROVE  Codes \in Seq(Value) /\ Len(Codes) <= 2 /\ Ldlat \subseteq 0 .. 15 /\ FeThr \subseteq 0 .. 11
<1>1. Bits /\ event \in Events
  BY DEF Typed
<1>2. Ldlat \subseteq 0 .. 15
  BY <1>1 DEF Ldlat, Bits
<1>3. FeThr \subseteq 0 .. 11
  <2>1. Wired \subseteq 0 .. 11
    BY <1>1 DEF Wired, ThrField
  <2>2. {0} \subseteq 0 .. 11 /\ l.fe_thr \subseteq 0 .. 11
    BY <1>1 DEF Bits
  <2> HIDE DEF Wired
  <2>3. FeThr \in {l.fe_thr, Wired, {0}}
    BY DEF FeThr
  <2>4. QED
    BY <2>1, <2>2, <2>3
<1>4. UmaskCode \subseteq 0 .. 63
  <2>1. {b + 16 : b \in FeThr} \subseteq 0 .. 63
    BY <1>3
  <2>2. l.umask \subseteq 0 .. 63
    BY <1>1 DEF Bits
  <2>3. QED
    BY <2>1, <2>2 DEF UmaskCode
<1>5. Register \subseteq 0 .. 63
  <2>1. entry.code \subseteq 0 .. 63
    BY <1>1, EntryFacts DEF entry
  <2>2. l.reg \subseteq 0 .. 63 /\ {EnBit, IntBit} \subseteq 0 .. 63
    BY <1>1 DEF Bits, EnBit, IntBit
  <2>3. QED
    BY <1>4, <2>1, <2>2 DEF Register
<1>6. Register \in Value /\ UmaskCode \in Value /\ Ldlat \in Value
  <2>1. 0 .. 15 \subseteq 0 .. 63
    OBVIOUS
  <2>2. QED
    BY <1>2, <1>4, <1>5, <2>1 DEF Value, Bit
<1>7. QED
  BY <1>2, <1>3, <1>6 DEF Codes

LEMMA FstrTyped ==
    ASSUME Typed
    PROVE  FstrUmasks \o FstrMods \in Seq(Attributes)
<1>1. event \in Events /\ Bits /\ Choices
  BY DEF Typed
<1>2. \A m \in Mods : Printed(m) \in Value
  <2>1. 0 .. 15 \subseteq 0 .. 63 /\ 0 .. 11 \subseteq 0 .. 63
    OBVIOUS
  <2>2. Ldlat \in Value /\ FeThr \in Value
    BY <2>1, CodesTyped DEF Value, Bit
  <2>3. {b - 24 : b \in Register \cap Field.c} \in Value
    <3>1. Field.c = 24 .. 31
      BY DEF Field
    <3>2. QED
      BY <3>1 DEF Value, Bit
  <2>4. {0} \in Value /\ {} \in Value
    BY DEF Value, Bit
  <2>5. QED
    BY <2>2, <2>3, <2>4 DEF Printed
<1>3. FstrMods \in Seq(Attributes)
  <2>1. entry.mods \in Seq(Mods)
    BY <1>1, EntryFacts DEF entry
  <2>2. \A m \in Mods : Attr("mod", m, Printed(m)) \in Attributes
    BY <1>2 DEF Attr, Attributes
  <2>3. QED
    BY <2>1, <2>2 DEF FstrMods
<1>4. PrintedRaw \in Seq(Attributes)
  <2>1. l.raw \in Seq(Attributes)
    BY <1>1 DEF Choices
  <2> DEFINE out(a) == Attr("raw", "0x", a.ival \cap 0 .. 31)
  <2>2. \A a \in Attributes : out(a) \in Attributes
    BY DEF Attributes, Attr, Value, Bit
  <2>3. PrintedRaw = [x \in 1 .. Len(l.raw) |-> out(l.raw[x])]
    BY DEF PrintedRaw
  <2> HIDE DEF out
  <2>4. QED
    BY <2>1, <2>2, <2>3
<1>5. FstrUmasks \in Seq(Attributes)
  <2> DEFINE used == Sorted(entry.names, l.named \cup l.added)
  <2>1. entry.names \in Seq(DOMAIN umasks)
    BY <1>1, EntryFacts DEF entry, umasks
  <2>2. used \in Seq(DOMAIN umasks \cap (l.named \cup l.added))
    BY <2>1, SortedType
  <2> HIDE DEF used
  <2>3. \A n \in DOMAIN umasks : Attr("umask", n, {}) \in Attributes
    BY DEF Attr, Attributes
  <2> DEFINE s == [x \in 1 .. Len(used) |-> Attr("umask", used[x], {})]
  <2>4. s \in Seq(Attributes)
    BY <2>2, <2>3
  <2>5. FstrUmasks = s \o PrintedRaw
    BY DEF FstrUmasks, used
  <2> HIDE DEF s
  <2>6. QED
    BY <1>4, <2>4, <2>5
<1>6. QED
  BY <1>3, <1>5

LEMMA EncodeTyped ==
    ASSUME Typed, Encode
    PROVE  Typed'
<1>1. /\ phase' = "idle" /\ UNCHANGED <<call, event, plm, attrs, k, l, first>>
  BY DEF Encode
<1>2. OutcomeOK(res')
  <2>1. l.named \cup l.added \subseteq DOMAIN umasks
    BY DEF Typed, Choices
  <2>2. OutcomeOK([err |-> Success, codes |-> Codes, fstr |-> FstrUmasks \o FstrMods,
                  used |-> l.named \cup l.added])
    BY <2>1, CodesTyped, FstrTyped DEF OutcomeOK, Errors
  <2>3. \A err \in {"FEATCOMB", "ATTR_SET", "ATTR"} : OutcomeOK(Failure(err))
    BY FailureOK DEF Errors, Success
  <2>4. QED
    BY <2>2, <2>3 DEF Encode
<1>3. OutcomeOK(res)' /\ OutcomeOK(first)'
  BY <1>1, <1>2 DEF Typed, OutcomeOK, Attributes, umasks, entry
<1>4. Bits' /\ Choices' /\ Limits'
  BY <1>1 DEF Typed, Bits, Choices, Limits, Attributes, Groups, umasks, entry
<1>5. attrs' \in Seq(Attributes')
  BY <1>1 DEF Typed, Attributes, umasks, entry
<1>6. QED
  BY <1>1, <1>3, <1>4, <1>5 DEF Typed

LEMMA ReorderTyped ==
    ASSUME Typed, Reorder
    PROVE  Typed'
<1>1. PICK p \in [1 .. Len(attrs) -> 1 .. Len(attrs)] :
         Start("reorder", event, [x \in 1 .. Len(attrs) |-> attrs[p[x]]], res)
  BY DEF Reorder
<1> DEFINE s == [x \in 1 .. Len(attrs) |-> attrs[p[x]]]
<1>2. s \in Seq(Attributes)
  BY DEF Typed
<1>3. event' = event /\ plm' = plm /\ event \in Events
  BY <1>1 DEF Start, Reorder, Typed
<1>4. s \in Seq(Attributes') /\ OutcomeOK(res)
  BY <1>2, <1>3 DEF Typed, Attributes, umasks, entry
<1> HIDE DEF s
<1>5. OutcomeOK(res) => \A r : r = res => OutcomeOK(r)'
  BY <1>3 DEF OutcomeOK, Attributes, umasks, entry
<1>6. PICK r : r = res
  OBVIOUS
<1>7. Start("reorder", event, s, r)
  BY <1>1, <1>6 DEF s
<1>8. PICK ev, t : ev = event /\ t = s
  OBVIOUS
<1>9. Start("reorder", ev, t, r) /\ ev \in Events
  BY <1>3, <1>7, <1>8
<1>10. QED
  BY <1>3, <1>4, <1>5, <1>6, <1>8, <1>9, StartTyped DEF Typed

\* The calls start with attributes of the event they are about.
LEMMA RequestTyped ==
    ASSUME Typed, Request
    PROVE  Typed'
<1>1. PICK ev \in Events, p \in Plms : Start("first", ev, <<>>, NoResult) /\ plm' = p
  BY DEF Request
<1>2. plm' \subseteq {"k", "u"}
  BY <1>1, TableAssumption
<1>3. OutcomeOK(NoResult)'
  BY DEF OutcomeOK, NoResult, Failure, Errors
<1>4. <<>> \in Seq(Attributes')
  OBVIOUS
<1>5. PICK r : r = NoResult
  OBVIOUS
<1>6. Start("first", ev, <<>>, r) /\ OutcomeOK(r)'
  BY <1>1, <1>3, <1>5 DEF OutcomeOK, NoResult, Failure
<1>7. QED
  BY <1>2, <1>4, <1>6, StartTyped

LEMMA AgainTyped ==
    ASSUME Typed, Again
    PROVE  Typed'
<1>1. Start("again", event, res.fstr, res) /\ plm' = plm
  BY DEF Again
<1>2. event' = event
  BY <1>1 DEF Start
<1>3. res.fstr \in Seq(Attributes')
  BY <1>2 DEF Typed, OutcomeOK, Attributes, umasks, entry
<1>4. PICK ev, t, r : ev = event /\ t = res.fstr /\ r = res
  OBVIOUS
<1>5. Start("again", ev, t, r)
  BY <1>1, <1>4
<1>6. OutcomeOK(r)'
  BY <1>2, <1>4 DEF Typed, OutcomeOK, Attributes, umasks, entry
<1>7. plm' \subseteq {"k", "u"} /\ ev \in Events /\ t \in Seq(Attributes')
  BY <1>1, <1>3, <1>4 DEF Typed
<1>8. QED
  BY <1>5, <1>6, <1>7, StartTyped

LEMMA InitTyped ==
    ASSUME Init
    PROVE  Typed
<1>1. /\ phase = "idle" /\ call = "none" /\ event \in Events /\ plm \in Plms
      /\ attrs = <<>> /\ k = 1 /\ l = Locals(event) /\ res = NoResult /\ first = NoResult
  BY DEF Init
<1>2. plm \subseteq {"k", "u"}
  BY <1>1, TableAssumption
<1>3. l.reg \subseteq 0 .. 63
  BY <1>1, EntryFacts DEF Locals
<1>4. Bits /\ Choices /\ Limits
  <2>1. /\ l.umask = {} /\ l.ldlat = {} /\ l.fe_thr = {} /\ l.named = {} /\ l.added = {} /\ l.mods = {}
        /\ l.raw = <<>> /\ l.max_grpid = MaxGrpid /\ l.limit = MaxGrpid /\ l.but_0 = -1 /\ l.missing = {}
    BY <1>1 DEF Locals
  <2>2. Bits
    BY <1>3, <2>1 DEF Bits
  <2>3. Choices
    BY <2>1 DEF Choices
  <2>4. Limits
    BY <2>1 DEF Limits
  <2>5. QED
    BY <2>2, <2>3, <2>4
<1>5. OutcomeOK(NoResult)
  BY DEF OutcomeOK, NoResult, Failure, Errors
<1>6. QED
  BY <1>1, <1>2, <1>4, <1>5 DEF Typed

LEMMA NextTyped ==
    ASSUME IInv, Typed, [Next]_vars
    PROVE  Typed'
<1>0. DOMAIN l = Fields
  BY DEF IInv, Shape
<1>1. CASE Request
  BY <1>1, RequestTyped
<1>2. CASE Again
  BY <1>2, AgainTyped
<1>3. CASE Reorder
  BY <1>3, ReorderTyped
<1>4. ASSUME NEW a \in Readable, TakeUmask(a) PROVE Typed'
  BY <1>0, <1>4, TakeUmaskTyped
<1>5. ASSUME NEW a \in Readable, TakeRaw(a) PROVE Typed'
  BY <1>0, <1>5, TakeRawTyped
<1>6. ASSUME NEW a \in Readable, TakeModifier(a) PROVE Typed'
  BY <1>0, <1>6, TakeModifierTyped
<1>7. CASE EndAttrs
  BY <1>0, <1>7, EndAttrsTyped
<1>8. ASSUME NEW g \in l.missing, AddDefault(g) PROVE Typed'
  BY <1>0, <1>8, AddDefaultTyped
<1>9. CASE Encode
  BY <1>9, EncodeTyped
<1>10. CASE UNCHANGED vars
  BY <1>10 DEF vars, Typed, Bits, Choices, Limits, OutcomeOK, Attributes, Groups, umasks, entry
<1>11. QED
  BY <1>1, <1>2, <1>3, <1>4, <1>5, <1>6, <1>7, <1>8, <1>9, <1>10 DEF Next

LEMMA TypedInvariant == Spec => []Typed
<1>1. Init => Typed
  BY InitTyped
<1>2. IInv /\ Typed /\ [Next]_vars => Typed'
  BY NextTyped
<1>3. QED
  BY <1>1, <1>2, Invariant, PTL DEF Spec

\* Whatever pfm_intel_x86_encode_gen is asked to encode, its codes are at most
\* two registers of 64 bits, and what it prints are attributes of the event.
THEOREM TypeCorrect == Spec => []TypeOK
<1>1. Typed => TypeOK
  <2>1. 0 .. 15 \subseteq Bit /\ 0 .. 11 \subseteq Bit /\ 8 .. 63 \subseteq Bit /\ 0 .. 63 = Bit
    BY DEF Bit
  <2>2. Bits => l.reg \in Value /\ l.umask \in Value /\ l.ldlat \in Value /\ l.fe_thr \in Value
    BY <2>1 DEF Bits, Value
  <2>3. QED
    BY <2>2 DEF Typed, TypeOK, Choices, Limits
<1>2. QED
  BY <1>1, TypedInvariant, PTL

(***************************************************************************)
(* Wired modifiers                                                         *)
(***************************************************************************)
Unmixed(s) == \A x, y \in 1 .. Len(s) : s[x].type = "umask" => s[y].type # "raw"
Contains(s, t) == \E x \in 1 .. Len(s) : s[x].type = t

\* The unit masks and the raw unit mask at hand come from the attributes, in
\* which they exclude each other, and defaults are added to unit masks only.
RawAlone ==
    /\ Unmixed(attrs)
    /\ phase = "attrs" => /\ l.named # {} => Contains(attrs, "umask")
                          /\ l.raw # <<>> => Contains(attrs, "raw")
                          /\ l.missing = {}
    /\ l.raw # <<>> => Used = {} /\ l.missing = {}
    /\ Done => Unmixed(res.fstr)

\* What the fields of modifiers hold while no modifier has written to them,
\* and where the bits of unit masks come from.
Untouched ==
    \A m \in DOMAIN Field \ {"k", "u"} : m \notin l.mods => l.reg \cap Field[m] = entry.code \cap Field[m]
Collected ==
    l.raw = <<>> => l.umask = (UNION {umasks[n].ucode : n \in Used}) \ EventSelect

\* The check at the end of the loop was passed.
Agreed ==
    (phase = "defaults" \/ Done) =>
        \A m \in modhw \cap l.mods \cap DOMAIN Field :
            l.reg \cap Field[m] = UNION {umasks[n].ucode \cap Field[m] : n \in l.named}
Returned == Done => res.codes[1] = Register

Wiring == RawAlone /\ Untouched /\ Collected /\ Agreed /\ Returned


\* What the tables give for a wired modifier of an event.
LEMMA WiredFacts ==
    ASSUME Typed, NEW m \in modhw \cap DOMAIN Field
    PROVE  /\ m \notin {"k", "u"} /\ entry.code \cap Field[m] = {}
           /\ ~ Extra /\ ~ FeThrUmask
<1>1. PICK n \in l.named : m \in umasks[n].modhw
  BY DEF modhw
<1>2. n \in DOMAIN umasks /\ event \in Events
  BY DEF Typed, Choices
<1>3. m \notin {"k", "u"} /\ entry.flags \cap {"OFFCORE", "FRONTEND"} = {} /\ entry.code \cap Field[m] = {}
  BY <1>1, <1>2, WiredAssumption DEF umasks, entry
<1>4. QED
  BY <1>3 DEF Extra, FeThrUmask

\* The step of the loop that reads an attribute keeps raw unit masks apart.
LEMMA ReadsUnmixed ==
    ASSUME Typed, Wiring, NEW a \in Readable, Reads(a)
    PROVE  /\ Unmixed(attrs)' /\ Contains(attrs', a.type)
           /\ \A t : Contains(attrs, t) => Contains(attrs', t)
<1>1. attrs \in Seq(Attributes) /\ Unmixed(attrs)
  BY DEF Typed, Wiring, RawAlone
<1>2. CASE call = "first"
  <2>1. attrs' = Append(attrs, a) /\ a \in Offered
    BY <1>2 DEF Reads, Readable
  <2>2. a \in Attributes
    BY <2>1, OfferedTyped
  <2>3. Len(attrs) \in Nat /\ Len(attrs') = Len(attrs) + 1 /\ attrs'[Len(attrs) + 1] = a
    BY <1>1, <2>1, <2>2
  <2>4. \A x \in 1 .. Len(attrs) : attrs'[x] = attrs[x] /\ x \in 1 .. Len(attrs')
    BY <1>1, <2>1, <2>2, <2>3
  <2>5. \A x \in 1 .. Len(attrs') : x \in 1 .. Len(attrs) \/ x = Len(attrs) + 1
    BY <2>3
  <2>6. \A x \in 1 .. Len(attrs) : a.type = "mod" \/ attrs[x].type \in {"mod", a.type}
    BY <2>1 DEF Offered
  <2>7. Unmixed(attrs')
    <3>1. SUFFICES ASSUME NEW x \in 1 .. Len(attrs'), NEW y \in 1 .. Len(attrs'),
                          attrs'[x].type = "umask", attrs'[y].type = "raw"
                   PROVE  FALSE
      BY DEF Unmixed
    <3>2. CASE x \in 1 .. Len(attrs) /\ y \in 1 .. Len(attrs)
      BY <1>1, <2>4, <3>1, <3>2 DEF Unmixed
    <3>3. CASE x = Len(attrs) + 1 /\ y \in 1 .. Len(attrs)
      BY <2>3, <2>4, <2>6, <3>1, <3>3
    <3>4. CASE x \in 1 .. Len(attrs) /\ y = Len(attrs) + 1
      BY <2>3, <2>4, <2>6, <3>1, <3>4
    <3>5. CASE x = Len(attrs) + 1 /\ y = Len(attrs) + 1
      BY <3>1, <3>5
    <3>6. QED
      BY <2>5, <3>2, <3>3, <3>4, <3>5
  <2>8. Contains(attrs', a.type)
    BY <2>3 DEF Contains
  <2>9. \A t : Contains(attrs, t) => Contains(attrs', t)
    BY <2>4 DEF Contains
  <2>10. QED
    BY <2>7, <2>8, <2>9 DEF Unmixed
<1>3. CASE call # "first"
  <2>1. attrs' = attrs /\ \E x \in 1 .. Len(attrs) : a = attrs[x]
    BY <1>3 DEF Reads, Readable
  <2>2. QED
    BY <1>1, <2>1 DEF Unmixed, Contains
<1>4. QED
  BY <1>2, <1>3

\* The fully qualified event string has unit masks or a raw unit mask.
LEMMA FstrUnmixed ==
    ASSUME Typed, Wiring
    PROVE  Unmixed(FstrUmasks \o FstrMods)
<1> DEFINE used == Sorted(entry.names, l.named \cup l.added)
           s == [x \in 1 .. Len(used) |-> Attr("umask", used[x], {})]
<1>1. used \in Seq(DOMAIN umasks \cap (l.named \cup l.added))
  BY EntryFacts, SortedType DEF Typed, entry, umasks
<1>2. entry.mods \in Seq(Mods) /\ l.raw \in Seq(Attributes)
  BY EntryFacts DEF Typed, Choices, entry
<1> HIDE DEF used
<1>3. s \in Seq([type : {"umask"}, name : DOMAIN umasks, ival : {{}}]) /\ Len(s) = Len(used)
  BY <1>1 DEF Attr
<1>4. \A x \in 1 .. Len(s) : s[x].type = "umask"
  BY <1>1 DEF Attr
<1>5. PrintedRaw \in Seq(Attributes) /\ \A x \in 1 .. Len(PrintedRaw) : PrintedRaw[x].type = "raw"
  <2> DEFINE out(a) == Attr("raw", "0x", a.ival \cap 0 .. 31)
  <2>1. \A a \in Attributes : out(a) \in Attributes /\ out(a).type = "raw"
    BY DEF Attributes, Attr, Value, Bit
  <2>2. PrintedRaw = [x \in 1 .. Len(l.raw) |-> out(l.raw[x])]
    BY DEF PrintedRaw
  <2> HIDE DEF out
  <2>3. QED
    BY <1>2, <2>1, <2>2
<1>6. /\ FstrMods \in Seq([type : {"mod"}, name : Mods, ival : {Printed(m) : m \in Mods}])
      /\ \A x \in 1 .. Len(FstrMods) : FstrMods[x].type = "mod"
  BY <1>2 DEF FstrMods, Attr
<1>7. FstrUmasks = s \o PrintedRaw
  BY DEF FstrUmasks, used
<1> HIDE DEF s
<1>8. CASE l.raw = <<>>
  <2>1. Len(PrintedRaw) = 0
    BY <1>8 DEF PrintedRaw
  <2>2. \A x \in 1 .. Len(FstrUmasks \o FstrMods) : (FstrUmasks \o FstrMods)[x].type \in {"umask", "mod"}
    BY <1>3, <1>4, <1>5, <1>6, <1>7, <2>1
  <2>3. QED
    BY <2>2 DEF Unmixed
<1>9. CASE l.raw # <<>>
  <2>1. Len(s) = 0
    <3>1. Used = {}
      BY <1>9 DEF Wiring, RawAlone
    <3>2. used \in Seq({})
      BY <1>1, <3>1 DEF Used
    <3>3. Len(used) = 0
      BY <3>2
    <3>4. QED
      BY <1>3, <3>3
  <2>2. \A x \in 1 .. Len(FstrUmasks \o FstrMods) : (FstrUmasks \o FstrMods)[x].type \in {"raw", "mod"}
    BY <1>3, <1>5, <1>6, <1>7, <2>1
  <2>3. QED
    BY <2>2 DEF Unmixed
<1>10. QED
  BY <1>8, <1>9

LEMMA StartWiring ==
    ASSUME NEW why, NEW ev \in Events, NEW a, NEW before, Start(why, ev, a, before), Unmixed(a)
    PROVE  Wiring'
<1>1. event' = ev /\ phase' = "attrs" /\ attrs' = a /\ l' = Locals(ev)
  BY DEF Start
<1>2. /\ l'.named = {} /\ l'.added = {} /\ l'.raw = <<>> /\ l'.missing = {}
      /\ l'.umask = {} /\ l'.reg = Table[ev].code
  BY <1>1 DEF Locals
<1>3. RawAlone'
  BY <1>1, <1>2 DEF RawAlone, Done, Unmixed
<1>4. Untouched' /\ Collected'
  BY <1>1, <1>2 DEF Untouched, Collected, Used, entry
<1>5. Agreed' /\ Returned'
  BY <1>1 DEF Agreed, Returned, Done
<1>6. QED
  BY <1>3, <1>4, <1>5 DEF Wiring

LEMMA ReturnWiring ==
    ASSUME Wiring, NEW err, err # Success, Return(err), UNCHANGED event, Unmixed(attrs)'
    PROVE  Wiring'
<1>1. phase' = "idle" /\ l' = l /\ res' = Failure(err)
  BY DEF Return
<1>2. ~ Done'
  BY <1>1, FailureNotDone DEF Done
<1>3. RawAlone' /\ Agreed' /\ Returned'
  BY <1>1, <1>2 DEF Wiring, RawAlone, Agreed, Returned, Used
<1>4. Untouched' /\ Collected'
  BY <1>1 DEF Wiring, Untouched, Collected, Used, umasks, entry
<1>5. QED
  BY <1>3, <1>4 DEF Wiring

LEMMA TakeUmaskWiring ==
    ASSUME IInv, Typed, Wiring, NEW a \in Readable, TakeUmask(a)
    PROVE  Wiring'
<1> DEFINE n == a.name
           code == umasks[n].ucode \cap EventSelect
<1>1. /\ UNCHANGED event /\ phase = "attrs" /\ a.type = "umask" /\ Unmixed(attrs)'
      /\ Contains(attrs', "umask") /\ \A t : Contains(attrs, t) => Contains(attrs', t)
  BY ReadsUnmixed DEF TakeUmask, Reads
<1>2. CASE Return("FEATCOMB")
  BY <1>1, <1>2, ReturnWiring DEF Success
<1>3. CASE ~ Return("FEATCOMB")
  <2>1. DOMAIN l = Fields /\ l.added = {}
    BY <1>1 DEF IInv, Shape
  <2>2. /\ phase' = "attrs"
        /\ l'.named = l.named \cup {n} /\ l'.added = l.added /\ l'.mods = l.mods /\ l'.raw = l.raw
        /\ l'.missing = l.missing
        /\ l'.umask = l.umask \cup (umasks[n].ucode \ EventSelect)
        /\ l'.reg \in {l.reg, (l.reg \ EventSelect) \cup code}
    BY <1>1, <1>3, <2>1 DEF TakeUmask, Continue, Fields
  <2>3. l.raw = <<>>
    BY <1>1 DEF Wiring, RawAlone, Unmixed, Contains
  <2>4. RawAlone'
    <3>1. Unmixed(attrs)' /\ ~ Done'
      BY <1>1, <2>2 DEF Done
    <3>2. l'.raw = <<>> /\ l'.missing = {} /\ Contains(attrs', "umask")
      BY <1>1, <2>2, <2>3 DEF Wiring, RawAlone
    <3>3. QED
      BY <3>1, <3>2 DEF RawAlone, Contains
  <2>5. Untouched'
    <3>1. \A m \in DOMAIN Field : EventSelect \cap Field[m] = {}
      BY FieldFacts DEF EventSelect
    <3>2. \A m \in DOMAIN Field : l'.reg \cap Field[m] = l.reg \cap Field[m]
      BY <2>2, <3>1
    <3>3. QED
      BY <1>1, <2>2, <3>2 DEF Wiring, Untouched, entry
  <2>6. Collected'
    <3>1. l.umask = (UNION {umasks[o].ucode : o \in l.named}) \ EventSelect
      BY <2>1, <2>3 DEF Wiring, Collected, Used
    <3>2. Used' = l.named \cup {n}
      BY <2>1, <2>2 DEF Used
    <3>3. l'.umask = (UNION {umasks[o].ucode : o \in l.named \cup {n}}) \ EventSelect
      <4> DEFINE given == UNION {umasks[o].ucode : o \in l.named}
      <4>1. UNION {umasks[o].ucode : o \in l.named \cup {n}} = given \cup umasks[n].ucode
        OBVIOUS
      <4>2. l.umask = given \ EventSelect
        BY <3>1
      <4> HIDE DEF given
      <4>3. QED
        BY <2>2, <4>1, <4>2
    <3>4. QED
      BY <1>1, <3>2, <3>3 DEF Collected, umasks, entry
  <2>7. Agreed' /\ Returned'
    BY <2>2 DEF Agreed, Returned, Done
  <2>8. QED
    BY <2>4, <2>5, <2>6, <2>7 DEF Wiring
<1>4. QED
  BY <1>2, <1>3

LEMMA TakeRawWiring ==
    ASSUME IInv, Typed, Wiring, NEW a \in Readable, TakeRaw(a)
    PROVE  Wiring'
<1>1. /\ UNCHANGED event /\ phase = "attrs" /\ a.type = "raw" /\ Unmixed(attrs)'
      /\ Contains(attrs', "raw") /\ \A t : Contains(attrs, t) => Contains(attrs', t)
  BY ReadsUnmixed DEF TakeRaw, Reads
<1>2. CASE Return("ATTR")
  BY <1>1, <1>2, ReturnWiring DEF Success
<1>3. CASE ~ Return("ATTR")
  <2>1. DOMAIN l = Fields /\ l.added = {}
    BY <1>1 DEF IInv, Shape
  <2>2. /\ phase' = "attrs"
        /\ l'.named = l.named /\ l'.added = l.added /\ l'.mods = l.mods /\ l'.raw = <<a>>
        /\ l'.missing = l.missing /\ l'.reg = l.reg
    BY <1>1, <1>3, <2>1 DEF TakeRaw, Continue, Fields
  <2>3. l.named = {}
    BY <1>1 DEF Wiring, RawAlone, Unmixed, Contains
  <2>4. RawAlone'
    <3>1. Unmixed(attrs)' /\ ~ Done'
      BY <1>1, <2>2 DEF Done
    <3>2. Used' = {} /\ l'.named = {} /\ l'.missing = {} /\ Contains(attrs', "raw")
      BY <1>1, <2>1, <2>2, <2>3 DEF Wiring, RawAlone, Used
    <3>3. QED
      BY <3>1, <3>2 DEF RawAlone, Contains
  <2>5. Untouched' /\ Collected'
    BY <1>1, <2>2 DEF Wiring, Untouched, Collected, entry
  <2>6. Agreed' /\ Returned'
    BY <2>2 DEF Agreed, Returned, Done
  <2>7. QED
    BY <2>4, <2>5, <2>6 DEF Wiring
<1>4. QED
  BY <1>2, <1>3

LEMMA TakeModifierWiring ==
    ASSUME IInv, Typed, Wiring, NEW a \in Readable, TakeModifier(a)
    PROVE  Wiring'
<1> DEFINE m == a.name
           v == a.ival
<1>1. /\ UNCHANGED event /\ phase = "attrs" /\ a.type = "mod" /\ Unmixed(attrs)'
      /\ \A t : Contains(attrs, t) => Contains(attrs', t)
  BY ReadsUnmixed DEF TakeModifier, Reads
<1>2. CASE BadValue(m, v)
  <2>1. Return("ATTR_VAL")
    BY <1>2 DEF TakeModifier
  <2>2. QED
    BY <1>1, <2>1, ReturnWiring DEF Success
<1>3. CASE ~ BadValue(m, v)
  <2>1. DOMAIN l = Fields /\ m \in Mods
    BY <1>1, ReadsTyped DEF IInv, Shape, TakeModifier, Attributes
  <2>2. /\ phase' = "attrs"
        /\ l'.named = l.named /\ l'.added = l.added /\ l'.raw = l.raw /\ l'.missing = l.missing
        /\ l'.umask = l.umask
        /\ \/ l'.reg = l.reg /\ l.mods \subseteq l'.mods
           \/ /\ m \in DOMAIN Field /\ l'.mods = l.mods \cup {m}
              /\ l'.reg = (l.reg \ Field[m]) \cup Stored(m, v)
    <3>1. CASE m = "ldlat"
      <4>1. phase' = "attrs" /\ l' = [l EXCEPT !.ldlat = v]
        BY <1>1, <1>3, <3>1 DEF TakeModifier, Continue
      <4>2. QED
        BY <2>1, <4>1 DEF Fields
    <3>2. CASE m = "fe_thres"
      <4>1. phase' = "attrs" /\ l' = [l EXCEPT !.fe_thr = v, !.mods = @ \cup {m}]
        BY <1>1, <1>3, <3>2 DEF TakeModifier, Continue
      <4>2. QED
        BY <2>1, <4>1 DEF Fields
    <3>3. CASE m \notin {"ldlat", "fe_thres"}
      <4>1. m \in DOMAIN Field
        BY <2>1, <3>3 DEF Mods
      <4>2. /\ phase' = "attrs"
            /\ l' = [l EXCEPT !.reg = (@ \ Field[m]) \cup Stored(m, v), !.mods = @ \cup {m}]
        BY <1>1, <1>3, <3>3 DEF TakeModifier, Continue
      <4>3. QED
        BY <2>1, <4>1, <4>2 DEF Fields
    <3>4. QED
      BY <3>1, <3>2, <3>3
  <2>3. RawAlone'
    BY <1>1, <2>2 DEF Wiring, RawAlone, Used, Done
  <2>4. Untouched'
    <3>1. m \in DOMAIN Field => Stored(m, v) \subseteq Field[m]
      <4>1. m = "c" => \A b \in v : b + 24 \in 24 .. 31
        BY <1>3 DEF BadValue
      <4>2. Field["c"] = 24 .. 31
        BY DEF Field
      <4>3. QED
        BY <4>1, <4>2 DEF Stored
    <3>2. \A o \in DOMAIN Field :
             o \notin l'.mods => o \notin l.mods /\ l'.reg \cap Field[o] = l.reg \cap Field[o]
      <4>1. CASE l'.reg = l.reg /\ l.mods \subseteq l'.mods
        BY <4>1
      <4>2. CASE /\ m \in DOMAIN Field /\ l'.mods = l.mods \cup {m}
                 /\ l'.reg = (l.reg \ Field[m]) \cup Stored(m, v)
        BY <3>1, <4>2, FieldFacts
      <4>3. QED
        BY <2>2, <4>1, <4>2
    <3>3. QED
      BY <1>1, <3>2 DEF Wiring, Untouched, entry
  <2>5. Collected'
    BY <1>1, <2>2 DEF Wiring, Collected, Used, umasks, entry
  <2>6. Agreed' /\ Returned'
    BY <2>2 DEF Agreed, Returned, Done
  <2>7. QED
    BY <2>3, <2>4, <2>5, <2>6 DEF Wiring
<1>4. QED
  BY <1>2, <1>3

\* The check for conflicts makes a wired modifier agree with the unit masks;
\* the default privilege levels touch no wired modifier.
LEMMA EndAttrsWiring ==
    ASSUME IInv, Typed, Wiring, EndAttrs
    PROVE  Wiring'
<1>1. UNCHANGED <<event, attrs>> /\ phase = "attrs" /\ Unmixed(attrs)'
  BY DEF EndAttrs, Wiring, RawAlone, Unmixed
<1>2. CASE Conflict
  BY <1>1, <1>2, ReturnWiring DEF EndAttrs, Success
<1>3. CASE ~ Conflict
  <2>1. DOMAIN l = Fields /\ l.added = {}
    BY <1>1 DEF IInv, Shape
  <2>2. /\ phase' = "defaults"
        /\ l'.named = l.named /\ l'.added = l.added /\ l'.mods = l.mods /\ l'.raw = l.raw
        /\ l'.missing = Groups \ Covered /\ l'.umask = l.umask /\ l'.reg = l.reg \cup DefaultPlm
    BY <1>3, <2>1 DEF EndAttrs, Fields
  <2>3. RawAlone'
    BY <1>1, <2>2 DEF Wiring, RawAlone, Used, Done, Covered
  <2>4. \A m \in DOMAIN Field \ {"k", "u"} : l'.reg \cap Field[m] = l.reg \cap Field[m]
    <3>1. \A m \in DOMAIN Field \ {"k", "u"} : DefaultPlm \cap Field[m] = {}
      <4>1. \A p \in plm : p \in {"k", "u"} /\ p \in DOMAIN Field
        BY FieldFacts DEF Typed
      <4>2. \A b \in DefaultPlm : b \in Field["k"] \cup Field["u"]
        BY <4>1 DEF DefaultPlm
      <4>3. "k" \in DOMAIN Field /\ "u" \in DOMAIN Field
        BY FieldFacts
      <4>4. QED
        BY <4>2, <4>3, FieldFacts
    <3>2. QED
      BY <2>2, <3>1
  <2>5. Untouched'
    BY <1>1, <2>2, <2>4 DEF Wiring, Untouched, entry
  <2>6. Collected'
    BY <1>1, <2>2 DEF Wiring, Collected, Used, umasks, entry
  <2>7. \A m \in modhw \cap l.mods \cap DOMAIN Field :
           l'.reg \cap Field[m] = UNION {umasks[n].ucode \cap Field[m] : n \in l.named}
    <3>1. SUFFICES ASSUME NEW m \in modhw \cap l.mods \cap DOMAIN Field
                   PROVE  l'.reg \cap Field[m] = UNION {umasks[n].ucode \cap Field[m] : n \in l.named}
      OBVIOUS
    <3>2. l.umask \cap Field[m] = l.reg \cap Field[m]
      BY <1>3 DEF Conflict
    <3>3. l'.reg \cap Field[m] = l.reg \cap Field[m]
      BY <2>4, WiredFacts
    <3>4. l.named # {}
      BY DEF modhw
    <3>5. l.umask = (UNION {umasks[n].ucode : n \in l.named}) \ EventSelect
      BY <2>1, <3>4 DEF Wiring, RawAlone, Collected, Used
    <3>6. EventSelect \cap Field[m] = {}
      BY FieldFacts DEF EventSelect
    <3>7. l.umask \cap Field[m] = UNION {umasks[n].ucode \cap Field[m] : n \in l.named}
      BY <3>5, <3>6
    <3>8. QED
      BY <3>2, <3>3, <3>7
  <2>8. Agreed'
    <3>1. modhw' = modhw /\ umasks' = umasks
      BY <1>1, <2>2 DEF modhw, umasks, entry
    <3>2. QED
      BY <2>2, <2>7, <3>1 DEF Agreed
  <2>9. Returned'
    BY <2>2 DEF Returned, Done
  <2>10. QED
    BY <2>3, <2>5, <2>6, <2>8, <2>9 DEF Wiring
<1>4. QED
  BY <1>2, <1>3

LEMMA AddDefaultWiring ==
    ASSUME IInv, Typed, Wiring, NEW g, AddDefault(g)
    PROVE  Wiring'
<1> DEFINE own == {n \in DOMAIN umasks : Group(n) = g}
           dfl == {n \in own : ~ Skipped(n) /\ Has(n, "DFL")}
           exclusive == \E n \in dfl : Has(n, "EXCL_GRP_GT")
           bad == \/ \A n \in own : n \notin dfl /\ ~ Skipped(n)
                  \/ exclusive /\ l.limit # MaxGrpid
<1>1. UNCHANGED <<event, attrs>> /\ phase = "defaults" /\ l.missing # {} /\ Unmixed(attrs)'
  BY DEF AddDefault, Wiring, RawAlone, Unmixed
<1>2. CASE bad
  <2>1. Return("UMASK")
    BY <1>2 DEF AddDefault
  <2>2. QED
    BY <1>1, <2>1, ReturnWiring DEF Success
<1>3. CASE ~ bad
  <2>1. DOMAIN l = Fields
    BY DEF IInv, Shape
  <2>2. /\ phase' = "defaults"
        /\ l'.named = l.named /\ l'.added = l.added \cup dfl /\ l'.mods = l.mods /\ l'.raw = l.raw
        /\ l'.umask = l.umask \cup ((UNION {umasks[n].ucode : n \in dfl}) \ EventSelect) /\ l'.reg = l.reg
    BY <1>1, <1>3, <2>1 DEF AddDefault, Continue, Fields
  <2> HIDE DEF dfl
  <2>3. l.raw = <<>>
    BY <1>1 DEF Wiring, RawAlone
  <2>4. RawAlone'
    BY <1>1, <2>2, <2>3 DEF RawAlone, Done
  <2>5. Untouched'
    BY <1>1, <2>2 DEF Wiring, Untouched, entry
  <2>6. Collected'
    <3>1. l.umask = (UNION {umasks[n].ucode : n \in Used}) \ EventSelect
      BY <2>3 DEF Wiring, Collected
    <3>2. Used' = Used \cup dfl
      BY <2>2 DEF Used
    <3>3. UNION {umasks[n].ucode : n \in Used \cup dfl}
             = (UNION {umasks[n].ucode : n \in Used}) \cup (UNION {umasks[n].ucode : n \in dfl})
      OBVIOUS
    <3>4. l'.umask = (UNION {umasks[n].ucode : n \in Used \cup dfl}) \ EventSelect
      BY <2>2, <3>1, <3>3
    <3>5. QED
      BY <1>1, <3>2, <3>4 DEF Collected, umasks, entry
  <2>7. Agreed' /\ Returned'
    BY <1>1, <2>2 DEF Wiring, Agreed, Returned, Done, modhw, umasks, entry
  <2>8. QED
    BY <2>4, <2>5, <2>6, <2>7 DEF Wiring
<1>4. QED
  BY <1>2, <1>3

LEMMA EncodeWiring ==
    ASSUME IInv, Typed, Wiring, Encode
    PROVE  Wiring'
<1>1. phase = "defaults" /\ phase' = "idle" /\ UNCHANGED <<event, attrs, l>>
  BY DEF Encode
<1>2. Done' => res'.codes = Codes /\ res'.fstr = FstrUmasks \o FstrMods
  BY FailureNotDone DEF Encode, Done, Success
<1>3. RawAlone'
  BY <1>1, <1>2, FstrUnmixed DEF Wiring, RawAlone, Used, Unmixed
<1>4. Untouched' /\ Collected'
  BY <1>1 DEF Wiring, Untouched, Collected, Used, umasks, entry
<1>5. Agreed'
  BY <1>1 DEF Wiring, Agreed, modhw, umasks, entry
<1>6. Returned'
  <2>1. Register' = Register
    BY <1>1 DEF Register, Extra, UmaskCode, FeThrUmask, FeThr, FeThrGiven, Wired, modhw, Has, umasks, entry
  <2>2. Codes[1] = Register
    BY DEF Codes
  <2>3. QED
    BY <1>2, <2>1, <2>2 DEF Returned
<1>7. QED
  BY <1>3, <1>4, <1>5, <1>6 DEF Wiring

LEMMA NextWiring ==
    ASSUME IInv, Typed, Wiring, [Next]_vars
    PROVE  Wiring'
<1>1. CASE Request
  BY <1>1, StartWiring DEF Request, Unmixed
<1>2. CASE Again
  BY <1>2, StartWiring DEF Again, Typed, Wiring, RawAlone, Done
<1>3. CASE Reorder
  <2>1. PICK p \in [1 .. Len(attrs) -> 1 .. Len(attrs)] :
           Start("reorder", event, [x \in 1 .. Len(attrs) |-> attrs[p[x]]], res)
    BY <1>3 DEF Reorder
  <2>2. Unmixed([x \in 1 .. Len(attrs) |-> attrs[p[x]]])
    <3> DEFINE s == [x \in 1 .. Len(attrs) |-> attrs[p[x]]]
    <3>1. Len(s) = Len(attrs) /\ \A x \in 1 .. Len(attrs) : p[x] \in 1 .. Len(attrs) /\ s[x] = attrs[p[x]]
      BY DEF Typed
    <3> HIDE DEF s
    <3>2. Unmixed(s)
      BY <3>1 DEF Wiring, RawAlone, Unmixed
    <3>3. QED
      BY <3>2 DEF s
  <2>3. QED
    BY <2>1, <2>2, StartWiring DEF Typed
<1>4. ASSUME NEW a \in Readable, TakeUmask(a) PROVE Wiring'
  BY <1>4, TakeUmaskWiring
<1>5. ASSUME NEW a \in Readable, TakeRaw(a) PROVE Wiring'
  BY <1>5, TakeRawWiring
<1>6. ASSUME NEW a \in Readable, TakeModifier(a) PROVE Wiring'
  BY <1>6, TakeModifierWiring
<1>7. CASE EndAttrs
  BY <1>7, EndAttrsWiring
<1>8. ASSUME NEW g \in l.missing, AddDefault(g) PROVE Wiring'
  BY <1>8, AddDefaultWiring
<1>9. CASE Encode
  BY <1>9, EncodeWiring
<1>10. CASE UNCHANGED vars
  BY <1>10 DEF vars, Wiring, RawAlone, Untouched, Collected, Agreed, Returned, Unmixed, Contains, Used, Done,
       Register, Extra, UmaskCode, FeThrUmask, FeThr, FeThrGiven, Wired, modhw, Has, umasks, entry
<1>11. QED
  BY <1>1, <1>2, <1>3, <1>4, <1>5, <1>6, <1>7, <1>8, <1>9, <1>10 DEF Next

LEMMA InitWiring ==
    ASSUME Init
    PROVE  Wiring
<1>1. phase = "idle" /\ attrs = <<>> /\ l = Locals(event) /\ res = NoResult
  BY DEF Init
<1>2. ~ Done
  BY <1>1, FailureNotDone DEF Done, NoResult, Success
<1>3. l.named = {} /\ l.added = {} /\ l.raw = <<>> /\ l.umask = {} /\ l.reg = entry.code
  BY <1>1 DEF Locals, entry
<1>4. QED
  BY <1>1, <1>2, <1>3 DEF Wiring, RawAlone, Untouched, Collected, Agreed, Returned, Used, Unmixed

LEMMA WiringInvariant == Spec => []Wiring
<1>1. Init => Wiring
  BY InitWiring
<1>2. IInv /\ Typed /\ Wiring /\ [Next]_vars => Wiring'
  BY NextWiring
<1>3. QED
  BY <1>1, <1>2, Invariant, TypedInvariant, PTL DEF Spec

\* pfm_intel_x86_encode_gen gives a modifier that a unit mask of the request
\* wires the wired value, whichever modifiers the request has.
THEOREM WiredModifiersKept == Spec => []WiredKept
<1>1. IInv /\ Typed /\ Wiring => WiredKept
  <2>1. SUFFICES ASSUME IInv, Typed, Wiring, Done, NEW n \in l.named,
                        NEW m \in umasks[n].modhw \cap DOMAIN Field
                 PROVE  Register \cap Field[m] = UNION {umasks[o].ucode \cap Field[m] : o \in l.named}
    BY DEF WiredKept, Wiring, Returned
  <2>2. m \in modhw \cap DOMAIN Field /\ n \in DOMAIN umasks /\ event \in Events
    BY <2>1 DEF modhw, Typed, Choices
  <2>3. m \notin {"k", "u"} /\ entry.code \cap Field[m] = {} /\ ~ Extra /\ ~ FeThrUmask
    BY <2>1, <2>2, WiredFacts
  <2>4. Field[m] \cap (EventSelect \cup UnitMask \cup {EnBit, IntBit}) = {}
    BY <2>2, FieldFacts DEF EventSelect, UnitMask
  <2>5. Register \cap Field[m] = (l.reg \cap Field[m]) \cup (l.umask \cap Field[m])
    BY <2>3, <2>4 DEF Register, UmaskCode
  <2>6. l.umask \cap Field[m] = UNION {umasks[o].ucode \cap Field[m] : o \in l.named}
    <3>1. l.umask = (UNION {umasks[o].ucode : o \in l.named \cup l.added}) \ EventSelect
      BY <2>1 DEF Wiring, RawAlone, Collected, Used
    <3>2. \A o \in l.added : umasks[o].ucode \cap Field[m] = {}
      <4>1. SUFFICES ASSUME NEW o \in l.added PROVE umasks[o].ucode \cap Field[m] = {}
        OBVIOUS
      <4>2. o \in DOMAIN umasks /\ Has(o, "DFL") /\ Group(o) # Group(n)
        BY <2>1 DEF IInv, DefaultsOK, Separate
      <4>3. QED
        BY <2>2, <4>2, WiredAssumption DEF Has, Group, umasks, entry
    <3>3. QED
      BY <2>4, <3>1, <3>2
  <2>7. CASE m \in l.mods
    BY <2>1, <2>2, <2>5, <2>6, <2>7 DEF Wiring, Agreed
  <2>8. CASE m \notin l.mods
    <3>1. l.reg \cap Field[m] = {}
      BY <2>1, <2>2, <2>3, <2>8 DEF Wiring, Untouched
    <3>2. QED
      BY <2>5, <2>6, <3>1
  <2>9. QED
    BY <2>7, <2>8
<1>2. QED
  BY <1>1, Invariant, TypedInvariant, WiringInvariant, PTL

(***************************************************************************)
(* The encoder as a function of the set of attributes                      *)
(***************************************************************************)

\* What the loop reads from the attributes of a set.
OfType(A, t) == {a \in A : a.type = t}
Given(A, m) == {a \in OfType(A, "mod") : a.name = m}
NamesOf(A) == {a.name : a \in OfType(A, "umask")}
ModsOf(A) == {a.name : a \in OfType(A, "mod")} \ {"ldlat"}
ValueOf(A, m) == UNION {a.ival : a \in Given(A, m)}
OneOf(S) == IF S = {} THEN <<>> ELSE <<CHOOSE a \in S : TRUE>>
RawOf(A) == OneOf(OfType(A, "raw"))
RawBits(A) == UNION {{b + 8 : b \in a.ival} : a \in OfType(A, "raw")}
Ucodes(en, N) == (UNION {en.umasks[n].ucode : n \in N}) \ EventSelect
With(en, N, f) == {n \in N : f \in en.umasks[n].uflags}
GroupWith(en, N, f, none) ==
    IF With(en, N, f) = {} THEN none ELSE CHOOSE g \in {en.umasks[n].grpid : n \in With(en, N, f)} : TRUE
Overrides(en, N) == {en.umasks[n].ucode \cap EventSelect : n \in With(en, N, "CODE_OVERRIDE")}
CodeOf(en, A) ==
    IF Overrides(en, NamesOf(A)) = {} THEN en.code
    ELSE (en.code \ EventSelect) \cup UNION Overrides(en, NamesOf(A))
Written(A) == UNION {Field[m] : m \in ModsOf(A) \cap DOMAIN Field}
StoredBits(A) == UNION {Stored(a.name, a.ival) : a \in {b \in OfType(A, "mod") : b.name \in DOMAIN Field}}
RegOf(en, A) == (CodeOf(en, A) \ Written(A)) \cup StoredBits(A)
UmaskOf(en, A) == Ucodes(en, NamesOf(A)) \cup RawBits(A)

\* The loop accepts every attribute of the set.
LoopOK(en, A) ==
    /\ \A m, n \in NamesOf(A) :
          m # n /\ en.umasks[m].grpid = en.umasks[n].grpid => "NCOMBO" \notin en.umasks[m].uflags
    /\ \A m, n \in With(en, NamesOf(A), "CODE_OVERRIDE") :
          en.umasks[m].ucode \cap EventSelect = en.umasks[n].ucode \cap EventSelect
    /\ \A a \in OfType(A, "raw") : a.ival \subseteq 0 .. en.width - 1
    /\ \A a \in OfType(A, "mod") : ~ BadValue(a.name, a.ival)

ModhwOf(en, N) == UNION {en.umasks[n].modhw : n \in N}
ConflictOf(en, A) ==
    \E m \in ModhwOf(en, NamesOf(A)) \cap ModsOf(A) \cap DOMAIN Field :
        UmaskOf(en, A) \cap Field[m] # RegOf(en, A) \cap Field[m]
PlmOf(en, p, A) ==
    IF ModsOf(A) \cap {"k", "u"} # {} THEN {} ELSE UNION {Field[m] : m \in p \cap en.plm}

\* The defaults that the groups of a set G have added, and the limit after them.
Uncovered(en, A) ==
    IF RawOf(A) # <<>> THEN {}
    ELSE (0 .. en.ngrp - 1) \ {en.umasks[n].grpid : n \in NamesOf(A)}
MaxOf(en, A) == GroupWith(en, NamesOf(A), "EXCL_GRP_GT", MaxGrpid)
But0Of(en, A) == GroupWith(en, NamesOf(A), "EXCL_GRP_BUT_0", -1)
Wanted(en, A, n) ==
    /\ "GRP_DFL_NONE" \notin en.umasks[n].uflags
    /\ But0Of(en, A) = -1 \/ en.umasks[n].grpid \in {0, But0Of(en, A)}
Eligible(en, A, G) ==
    {n \in DOMAIN en.umasks : /\ en.umasks[n].grpid \in G /\ en.umasks[n].grpid <= MaxOf(en, A)
                              /\ "DFL" \in en.umasks[n].uflags /\ Wanted(en, A, n)}
LimitOf(en, A, G) == GroupWith(en, Eligible(en, A, G), "EXCL_GRP_GT", MaxOf(en, A))
AddedOf(en, A, G) == {n \in Eligible(en, A, G) : en.umasks[n].grpid <= LimitOf(en, A, G)}
Before(en, A, g) == {h \in Uncovered(en, A) : h < g}
GroupOK(en, A, g) ==
    \E n \in DOMAIN en.umasks :
        /\ en.umasks[n].grpid = g
        /\ ~ Wanted(en, A, n) \/ g > LimitOf(en, A, Before(en, A, g)) \/ "DFL" \in en.umasks[n].uflags

\* The rest of the function, of the values of the local variables.
FeUmaskOf(en, named) == "FRONTEND" \in en.flags /\ \E n \in named : "FETHR" \in en.umasks[n].uflags
FeGivenOf(en, named, mods) == "fe_thres" \in ModhwOf(en, named) \cap mods
WiredOf(umask) == {b - 16 : b \in umask \cap ThrField}
FeThrOf(en, umask, named, mods, fe) ==
    IF ~ FeUmaskOf(en, named) THEN fe
    ELSE IF WiredOf(umask) # {} THEN (IF FeGivenOf(en, named, mods) THEN fe ELSE WiredOf(umask))
    ELSE IF fe = {} THEN {0} ELSE fe
UmaskCodeOf(en, umask, named, mods, fe) ==
    IF FeUmaskOf(en, named)
    THEN (umask \ ThrField) \cup {b + 16 : b \in FeThrOf(en, umask, named, mods, fe)} ELSE umask
LdUmaskOf(en, named) == \E n \in named : "LDLAT" \in en.umasks[n].uflags
LdlatOf(en, named, ld) == IF LdUmaskOf(en, named) /\ ld = {} THEN {0, 1} ELSE ld
ExtraOf(en) == en.flags \cap {"OFFCORE", "FRONTEND"} # {}
RegisterOf(en, reg, umask, named, mods, fe) ==
    reg \cup (en.code \cap UnitMask)
        \cup (IF ExtraOf(en) THEN {} ELSE UmaskCodeOf(en, umask, named, mods, fe)) \cup {EnBit, IntBit}
CodesOf(en, reg, umask, named, mods, fe, ld) ==
    IF LdUmaskOf(en, named) THEN <<RegisterOf(en, reg, umask, named, mods, fe), LdlatOf(en, named, ld)>>
    ELSE IF ExtraOf(en) THEN <<RegisterOf(en, reg, umask, named, mods, fe), UmaskCodeOf(en, umask, named, mods, fe)>>
    ELSE <<RegisterOf(en, reg, umask, named, mods, fe)>>
PrintedOf(m, register, ldlat, fe) ==
    CASE m = "ldlat" -> ldlat
      [] m = "fe_thres" -> fe
      [] m = "c" -> {b - 24 : b \in register \cap Field.c}
      [] OTHER -> IF Field[m] \subseteq register THEN {0} ELSE {}
FstrOf(en, used, raw, register, ldlat, fe) ==
    LET s == Sorted(en.names, used)
    IN  ([x \in 1 .. Len(s) |-> Attr("umask", s[x], {})]
         \o [x \in 1 .. Len(raw) |-> Attr("raw", "0x", raw[x].ival \cap 0 .. 31)])
        \o [x \in 1 .. Len(en.mods) |-> Attr("mod", en.mods[x], PrintedOf(en.mods[x], register, ldlat, fe))]
ExcludedOf(en, named, added, maxg, but0) ==
    \/ but0 # -1 /\ \E n \in named : en.umasks[n].grpid \notin {0, but0}
    \/ \E n \in named \cup added : en.umasks[n].grpid > maxg
OutcomeOf(en, reg, umask, named, added, raw, mods, maxg, but0, ld, fe) ==
    LET register == RegisterOf(en, reg, umask, named, mods, fe)
    IN  IF ExcludedOf(en, named, added, maxg, but0) THEN Failure("FEATCOMB")
        ELSE IF FeUmaskOf(en, named) /\ WiredOf(umask) # {} /\ FeGivenOf(en, named, mods) /\ fe # WiredOf(umask)
             THEN Failure("ATTR_SET")
        ELSE IF ld # {} /\ ~ LdUmaskOf(en, named) THEN Failure("ATTR")
        ELSE IF "EDGE_CMASK" \in en.flags /\ Field.e \subseteq register /\ Field.c \cap register = {}
             THEN Failure("ATTR")
        ELSE [err |-> Success, codes |-> CodesOf(en, reg, umask, named, mods, fe, ld),
              fstr |-> FstrOf(en, named \cup added, raw, register, LdlatOf(en, named, ld),
                              FeThrOf(en, umask, named, mods, fe)),
              used |-> named \cup added]

\* What a call with the attributes of A returns.
FinalUmask(en, A, G) == UmaskOf(en, A) \cup Ucodes(en, AddedOf(en, A, G))
ResultOf(en, p, A) ==
    LET G == Uncovered(en, A)
    IN  OutcomeOf(en, RegOf(en, A) \cup PlmOf(en, p, A), FinalUmask(en, A, G), NamesOf(A), AddedOf(en, A, G),
                  RawOf(A), ModsOf(A), MaxOf(en, A), But0Of(en, A), ValueOf(A, "ldlat"), ValueOf(A, "fe_thres"))
Accepted(en, p, A) ==
    /\ LoopOK(en, A) /\ ~ ConflictOf(en, A)
    /\ \A g \in Uncovered(en, A) : GroupOK(en, A, g)
    /\ ResultOf(en, p, A).err = Success

Distinct(s) == \A x, y \in 1 .. Len(s) : s[x].name = s[y].name => x = y
All == {attrs[x] : x \in 1 .. Len(attrs)}
Past == {attrs[x] : x \in 1 .. k - 1}

\* the local variables that the loop has written, and the defaults leave alone
Read(en, f, A) ==
    /\ f.named = NamesOf(A) /\ f.raw = RawOf(A) /\ f.mods = ModsOf(A)
    /\ f.max_grpid = MaxOf(en, A) /\ f.but_0 = But0Of(en, A)
    /\ f.ldlat = ValueOf(A, "ldlat") /\ f.fe_thr = ValueOf(A, "fe_thres")
InLoop ==
    phase = "attrs" =>
        /\ k >= 1 /\ k <= Len(attrs) + 1 /\ (call = "first" => k = Len(attrs) + 1)
        /\ Distinct(attrs) => /\ LoopOK(entry, Past) /\ Read(entry, l, Past)
                              /\ l.reg = RegOf(entry, Past) /\ l.umask = UmaskOf(entry, Past)
                              /\ l.code = Overrides(entry, NamesOf(Past))
Looked == Uncovered(entry, All) \ l.missing
InDefaults ==
    phase = "defaults" /\ Distinct(attrs) =>
        /\ LoopOK(entry, All) /\ ~ ConflictOf(entry, All) /\ Read(entry, l, All)
        /\ l.reg = RegOf(entry, All) \cup PlmOf(entry, plm, All)
        /\ l.missing \subseteq Uncovered(entry, All)
        /\ \A g \in Looked : GroupOK(entry, All, g) /\ \A h \in l.missing : g < h
        /\ l.added = AddedOf(entry, All, Looked) /\ l.limit = LimitOf(entry, All, Looked)
        /\ l.umask = FinalUmask(entry, All, Looked)
Function(r) ==
    IF Accepted(entry, plm, All) THEN r = ResultOf(entry, plm, All) ELSE r.err # Success
AtEnd == (phase = "idle" /\ call # "none" /\ Distinct(attrs)) => Function(res)
Compared == (call = "reorder" /\ Distinct(attrs)) => Function(first)
Named == call \in {"first", "reorder"} => Distinct(attrs)
FunInv == InLoop /\ InDefaults /\ AtEnd /\ Compared /\ Named

(***************************************************************************)
(* One more attribute                                                      *)
(***************************************************************************)
Fresh(A, a) == \A b \in A : b.name # a.name
Apart(A) == \A a, b \in A : a.type = "umask" => b.type # "raw"

\* The unit masks that have a flag whose bearers are in one group.
LEMMA GroupWithIs ==
    \A en, N, f, none : \A n \in With(en, N, f) :
        (\A m \in With(en, N, f) : en.umasks[m].grpid = en.umasks[n].grpid) =>
            GroupWith(en, N, f, none) = en.umasks[n].grpid
<1> SUFFICES ASSUME NEW en, NEW N, NEW f, NEW none, NEW n \in With(en, N, f),
                    \A m \in With(en, N, f) : en.umasks[m].grpid = en.umasks[n].grpid
             PROVE  GroupWith(en, N, f, none) = en.umasks[n].grpid
  OBVIOUS
<1>1. {en.umasks[m].grpid : m \in With(en, N, f)} = {en.umasks[n].grpid}
  OBVIOUS
<1>2. With(en, N, f) # {}
  OBVIOUS
<1>3. (CHOOSE g \in {en.umasks[n].grpid} : TRUE) = en.umasks[n].grpid
  OBVIOUS
<1>4. QED
  BY <1>1, <1>2, <1>3 DEF GroupWith

LEMMA OneGroup ==
    ASSUME NEW en, WellFormed(en), NEW f \in {"EXCL_GRP_GT", "EXCL_GRP_BUT_0"},
           NEW m \in DOMAIN en.umasks, NEW n \in DOMAIN en.umasks,
           f \in en.umasks[m].uflags, f \in en.umasks[n].uflags
    PROVE  en.umasks[m].grpid = en.umasks[n].grpid
BY DEF WellFormed

LEMMA GroupWithAdd ==
    ASSUME NEW en, WellFormed(en), NEW N, N \subseteq DOMAIN en.umasks, NEW n \in DOMAIN en.umasks
    PROVE  \A f \in {"EXCL_GRP_GT", "EXCL_GRP_BUT_0"} : \A none :
               GroupWith(en, N \cup {n}, f, none) =
                   IF f \in en.umasks[n].uflags THEN en.umasks[n].grpid ELSE GroupWith(en, N, f, none)
<1> SUFFICES ASSUME NEW f \in {"EXCL_GRP_GT", "EXCL_GRP_BUT_0"}, NEW none
             PROVE  GroupWith(en, N \cup {n}, f, none) =
                        IF f \in en.umasks[n].uflags THEN en.umasks[n].grpid ELSE GroupWith(en, N, f, none)
  OBVIOUS
<1>1. CASE f \in en.umasks[n].uflags
  <2>1. n \in With(en, N \cup {n}, f)
    BY <1>1 DEF With
  <2>2. \A m \in With(en, N \cup {n}, f) : en.umasks[m].grpid = en.umasks[n].grpid
    BY <1>1, OneGroup DEF With
  <2>3. PICK M : M = N \cup {n}
    OBVIOUS
  <2>4. n \in With(en, M, f) /\ \A m \in With(en, M, f) : en.umasks[m].grpid = en.umasks[n].grpid
    BY <2>1, <2>2, <2>3
  <2>5. GroupWith(en, M, f, none) = en.umasks[n].grpid
    BY <2>4, GroupWithIs
  <2>6. QED
    BY <1>1, <2>3, <2>5
<1>2. CASE f \notin en.umasks[n].uflags
  <2>1. With(en, N \cup {n}, f) = With(en, N, f)
    BY <1>2 DEF With
  <2>2. QED
    BY <1>2, <2>1 DEF GroupWith
<1>3. QED
  BY <1>1, <1>2

\* The bits that modifiers write are those of their fields.
LEMMA StoredInField ==
    ASSUME NEW m \in DOMAIN Field, NEW v, ~ BadValue(m, v)
    PROVE  Stored(m, v) \subseteq Field[m]
<1>1. CASE m = "c"
  <2>1. v \subseteq 0 .. 7
    BY <1>1 DEF BadValue
  <2>2. Field[m] = 24 .. 31
    BY <1>1 DEF Field
  <2>3. \A b \in v : b + 24 \in 24 .. 31
    BY <2>1
  <2>4. Stored(m, v) = {b + 24 : b \in v}
    BY <1>1 DEF Stored
  <2>5. QED
    BY <2>2, <2>3, <2>4
<1>2. CASE m # "c"
  BY <1>2 DEF Stored
<1>3. QED
  BY <1>1, <1>2

LEMMA WrittenPlace ==
    ASSUME NEW en, NEW A, LoopOK(en, A)
    PROVE  /\ Written(A) \cap EventSelect = {} /\ StoredBits(A) \cap EventSelect = {}
           /\ \A m \in DOMAIN Field : (\A a \in A : a.name # m) => StoredBits(A) \cap Field[m] = {}
<1>1. \A m \in DOMAIN Field : Field[m] \cap EventSelect = {}
  BY FieldFacts DEF EventSelect
<1>2. \A a \in OfType(A, "mod") : a.name \in DOMAIN Field => Stored(a.name, a.ival) \subseteq Field[a.name]
  BY StoredInField DEF LoopOK
<1>3. \A b \in StoredBits(A) : \E a \in A : a.name \in DOMAIN Field /\ b \in Field[a.name]
  BY <1>2 DEF StoredBits, OfType
<1>4. \A m, o \in DOMAIN Field : o # m => Field[o] \cap Field[m] = {}
  BY FieldFacts
<1>5. QED
  BY <1>1, <1>3, <1>4 DEF Written

LEMMA LoopOKPart ==
    ASSUME NEW en, NEW A, NEW B, A \subseteq B, LoopOK(en, B)
    PROVE  LoopOK(en, A)
<1>1. \A t : OfType(A, t) \subseteq OfType(B, t)
  BY DEF OfType
<1>2. NamesOf(A) \subseteq NamesOf(B)
  BY <1>1 DEF NamesOf
<1>3. \A f : With(en, NamesOf(A), f) \subseteq With(en, NamesOf(B), f)
  BY <1>2 DEF With
<1>4. QED
  BY <1>1, <1>2, <1>3 DEF LoopOK

\* What a unit mask adds.
LEMMA AddUmask ==
    ASSUME NEW A, NEW a, a.type = "umask"
    PROVE  LET B == A \cup {a}
           IN  /\ NamesOf(B) = NamesOf(A) \cup {a.name}
               /\ ModsOf(B) = ModsOf(A) /\ RawOf(B) = RawOf(A) /\ RawBits(B) = RawBits(A)
               /\ \A m : ValueOf(B, m) = ValueOf(A, m)
               /\ Written(B) = Written(A) /\ StoredBits(B) = StoredBits(A)
<1> DEFINE B == A \cup {a}
<1>1. OfType(B, "umask") = OfType(A, "umask") \cup {a} /\ OfType(B, "raw") = OfType(A, "raw")
      /\ OfType(B, "mod") = OfType(A, "mod")
  BY DEF OfType
<1> HIDE DEF B
<1>2. NamesOf(B) = NamesOf(A) \cup {a.name}
  BY <1>1 DEF NamesOf
<1>3. ModsOf(B) = ModsOf(A) /\ \A m : ValueOf(B, m) = ValueOf(A, m)
  BY <1>1 DEF ModsOf, ValueOf, Given
<1>4. RawOf(B) = RawOf(A) /\ RawBits(B) = RawBits(A)
  BY <1>1 DEF RawOf, RawBits
<1>5. Written(B) = Written(A) /\ StoredBits(B) = StoredBits(A)
  BY <1>1, <1>3 DEF Written, StoredBits
<1>6. QED
  BY <1>2, <1>3, <1>4, <1>5 DEF B

\* What a modifier adds.
LEMMA AddModifier ==
    ASSUME NEW A, NEW a, a.type = "mod", Fresh(A, a)
    PROVE  LET B == A \cup {a}
           IN  /\ NamesOf(B) = NamesOf(A) /\ RawOf(B) = RawOf(A) /\ RawBits(B) = RawBits(A)
               /\ ModsOf(B) = ModsOf(A) \cup ({a.name} \ {"ldlat"})
               /\ \A m : ValueOf(B, m) = IF m = a.name THEN a.ival ELSE ValueOf(A, m)
               /\ Written(B) = Written(A) \cup (IF a.name \in DOMAIN Field THEN Field[a.name] ELSE {})
               /\ StoredBits(B) = StoredBits(A) \cup
                      (IF a.name \in DOMAIN Field THEN Stored(a.name, a.ival) ELSE {})
<1> DEFINE B == A \cup {a}
<1>1. OfType(B, "umask") = OfType(A, "umask") /\ OfType(B, "raw") = OfType(A, "raw")
      /\ OfType(B, "mod") = OfType(A, "mod") \cup {a}
  BY DEF OfType
<1> HIDE DEF B
<1>2. NamesOf(B) = NamesOf(A) /\ RawOf(B) = RawOf(A) /\ RawBits(B) = RawBits(A)
  BY <1>1 DEF NamesOf, RawOf, RawBits
<1>3. ModsOf(B) = ModsOf(A) \cup ({a.name} \ {"ldlat"})
  BY <1>1 DEF ModsOf
<1>4. \A m : ValueOf(B, m) = IF m = a.name THEN a.ival ELSE ValueOf(A, m)
  <2> SUFFICES ASSUME NEW m PROVE ValueOf(B, m) = IF m = a.name THEN a.ival ELSE ValueOf(A, m)
    OBVIOUS
  <2>1. CASE m = a.name
    <3>1. Given(B, m) = {a}
      BY <1>1, <2>1 DEF Given, Fresh, OfType
    <3>2. QED
      BY <2>1, <3>1 DEF ValueOf
  <2>2. CASE m # a.name
    <3>1. Given(B, m) = Given(A, m)
      BY <1>1, <2>2 DEF Given
    <3>2. QED
      BY <2>2, <3>1 DEF ValueOf
  <2>3. QED
    BY <2>1, <2>2
<1>5. "ldlat" \notin DOMAIN Field
  BY FieldFacts
<1>6. Written(B) = Written(A) \cup (IF a.name \in DOMAIN Field THEN Field[a.name] ELSE {})
  BY <1>3, <1>5 DEF Written
<1>7. StoredBits(B) = StoredBits(A) \cup (IF a.name \in DOMAIN Field THEN Stored(a.name, a.ival) ELSE {})
  BY <1>1 DEF StoredBits
<1>8. QED
  BY <1>2, <1>3, <1>4, <1>6, <1>7 DEF B

\* What the raw unit mask adds.
LEMMA AddRaw ==
    ASSUME NEW A, NEW a, a.type = "raw", Fresh(A, a), Apart(A \cup {a}),
           \A b \in A : b.type = "raw" => b.name = a.name
    PROVE  LET B == A \cup {a}
           IN  /\ NamesOf(B) = {} /\ NamesOf(A) = {}
               /\ RawOf(B) = <<a>> /\ RawBits(B) = {b + 8 : b \in a.ival}
               /\ ModsOf(B) = ModsOf(A)
               /\ \A m : ValueOf(B, m) = ValueOf(A, m)
               /\ Written(B) = Written(A) /\ StoredBits(B) = StoredBits(A)
<1> DEFINE B == A \cup {a}
<1>1. OfType(B, "umask") = OfType(A, "umask") /\ OfType(B, "mod") = OfType(A, "mod")
  BY DEF OfType
<1>2. OfType(B, "raw") = {a} /\ OfType(A, "umask") = {}
  BY DEF Fresh, Apart, OfType
<1> HIDE DEF B
<1>3. NamesOf(B) = {} /\ NamesOf(A) = {}
  BY <1>1, <1>2 DEF NamesOf
<1>4. ModsOf(B) = ModsOf(A) /\ \A m : ValueOf(B, m) = ValueOf(A, m)
  BY <1>1 DEF ModsOf, ValueOf, Given
<1>5. (CHOOSE b \in {a} : TRUE) = a
  OBVIOUS
<1>6. RawOf(B) = <<a>>
  BY <1>2, <1>5 DEF RawOf, OneOf
<1>7. RawBits(B) = {b + 8 : b \in a.ival}
  BY <1>2 DEF RawBits
<1>8. Written(B) = Written(A) /\ StoredBits(B) = StoredBits(A)
  BY <1>1, <1>4 DEF Written, StoredBits
<1>9. QED
  BY <1>3, <1>4, <1>6, <1>7, <1>8 DEF B

(***************************************************************************)
(* The loop reads the set                                                  *)
(***************************************************************************)
LEMMA ReadsPast ==
    ASSUME Typed, InLoop, phase = "attrs", NEW a \in Readable, Reads(a)
    PROVE  /\ k' >= 1 /\ k' <= Len(attrs') + 1 /\ (call' = "first" => k' = Len(attrs') + 1)
           /\ Past' = Past \cup {a} /\ Past' \subseteq All' /\ a \in Attributes
           /\ Distinct(attrs') => Distinct(attrs) /\ Fresh(Past, a)
<1>1. attrs \in Seq(Attributes) /\ k \in Nat /\ k' = k + 1 /\ call' = call
  BY DEF Typed, Reads
<1>2. k >= 1 /\ k <= Len(attrs) + 1 /\ (call = "first" => k = Len(attrs) + 1)
  BY DEF InLoop
<1>3. a \in Attributes
  BY ReadsTyped
<1>4. Len(attrs) \in Nat
  BY <1>1
<1>5. /\ k \in 1 .. Len(attrs') /\ k <= Len(attrs') /\ (call = "first" => k = Len(attrs'))
      /\ attrs'[k] = a /\ Len(attrs') \in Nat
      /\ \A x \in 1 .. Len(attrs) : x \in 1 .. Len(attrs') /\ attrs'[x] = attrs[x]
  <2>1. CASE call = "first"
    <3>1. attrs' = Append(attrs, a)
      BY <2>1 DEF Reads
    <3>2. Len(attrs') = Len(attrs) + 1 /\ attrs'[Len(attrs) + 1] = a
          /\ \A x \in 1 .. Len(attrs) : attrs'[x] = attrs[x]
      BY <1>1, <1>3, <3>1
    <3>3. QED
      BY <1>1, <1>2, <1>4, <2>1, <3>2
  <2>2. CASE call # "first"
    <3>1. attrs' = attrs /\ k \in 1 .. Len(attrs) /\ attrs[k] = a
      BY <2>2 DEF Reads, Readable
    <3>2. QED
      BY <1>1, <1>4, <2>2, <3>1
  <2>3. QED
    BY <2>1, <2>2
<1>6. k' >= 1 /\ k' <= Len(attrs') + 1 /\ (call' = "first" => k' = Len(attrs') + 1)
  BY <1>1, <1>2, <1>5
<1>7. \A x \in 1 .. k - 1 : x \in 1 .. Len(attrs)
  BY <1>1, <1>2, <1>4
<1>8. Past' = Past \cup {a}
  <2>1. Past' = {attrs'[x] : x \in 1 .. k}
    BY <1>1 DEF Past
  <2>2. \A x \in 1 .. k : x = k \/ x \in 1 .. k - 1
    BY <1>1
  <2>3. k \in 1 .. k /\ \A x \in 1 .. k - 1 : x \in 1 .. k
    BY <1>1, <1>2
  <2>4. QED
    BY <1>5, <1>7, <2>1, <2>2, <2>3 DEF Past
<1>9. Past' \subseteq All'
  BY <1>5, <1>7, <1>8 DEF Past, All
<1>10. ASSUME Distinct(attrs') PROVE Distinct(attrs) /\ Fresh(Past, a)
  <2>1. Distinct(attrs)
    BY <1>5, <1>10 DEF Distinct
  <2>2. Fresh(Past, a)
    <3> SUFFICES ASSUME NEW x \in 1 .. k - 1, attrs[x].name = a.name PROVE FALSE
      BY DEF Fresh, Past
    <3>1. attrs'[x].name = attrs'[k].name /\ x \in 1 .. Len(attrs') /\ x # k
      BY <1>1, <1>5, <1>7
    <3>2. QED
      BY <1>5, <1>10, <3>1 DEF Distinct
  <2>3. QED
    BY <2>1, <2>2
<1>11. QED
  BY <1>3, <1>6, <1>8, <1>9, <1>10

\* The attributes of a first call, and of the second one in another order,
\* have different names; what the first one returned stays the same.
LEMMA ReadsNamed ==
    ASSUME Typed, FunInv, phase = "attrs", NEW a \in Readable, Reads(a)
    PROVE  Compared' /\ Named'
<1>1. UNCHANGED <<call, event, plm, first>> /\ attrs \in Seq(Attributes)
  BY DEF Reads, Typed
<1>2. CASE call = "first"
  <2>1. attrs' = Append(attrs, a) /\ a \in Offered /\ Distinct(attrs)
    BY <1>2 DEF Reads, Readable, FunInv, Named
  <2>2. Len(attrs) \in Nat /\ Len(attrs') = Len(attrs) + 1 /\ attrs'[Len(attrs) + 1] = a
        /\ \A x \in 1 .. Len(attrs) : attrs'[x] = attrs[x]
    BY <1>1, <2>1, OfferedTyped
  <2>3. \A x \in 1 .. Len(attrs) : attrs[x].name # a.name
    BY <2>1 DEF Offered
  <2>4. \A x \in 1 .. Len(attrs') : x \in 1 .. Len(attrs) \/ x = Len(attrs) + 1
    BY <2>2
  <2>5. Distinct(attrs')
    BY <2>1, <2>2, <2>3, <2>4 DEF Distinct
  <2>6. QED
    BY <1>1, <1>2, <2>5 DEF Compared, Named
<1>3. CASE call # "first"
  <2>1. attrs' = attrs
    BY <1>3 DEF Reads
  <2>2. All' = All /\ entry' = entry
    BY <1>1, <2>1 DEF All, entry
  <2>3. QED
    BY <1>1, <2>1, <2>2 DEF FunInv, Compared, Named, Function
<1>4. QED
  BY <1>2, <1>3

\* A call fails on attributes that the loop does not accept.
LEMMA LoopFails ==
    ASSUME NEW err, err # Success, Return(err), UNCHANGED event, Past' \subseteq All',
           Distinct(attrs') => ~ LoopOK(entry, Past')
    PROVE  InLoop' /\ InDefaults' /\ AtEnd'
<1>1. phase' = "idle" /\ res' = Failure(err) /\ entry' = entry
  BY DEF Return, entry
<1>2. res'.err # Success
  BY <1>1, FailureNotDone
<1>3. Distinct(attrs') => ~ LoopOK(entry, All')
  BY LoopOKPart
<1>4. Distinct(attrs') => ~ Accepted(entry', plm', All')
  BY <1>1, <1>3 DEF Accepted
<1>5. Distinct(attrs') => Function(res)'
  BY <1>2, <1>4 DEF Function
<1>6. QED
  BY <1>1, <1>5 DEF InLoop, InDefaults, AtEnd

LEMMA OverridesAdd ==
    ASSUME NEW en, NEW N, NEW n
    PROVE  Overrides(en, N \cup {n}) = Overrides(en, N) \cup
               (IF "CODE_OVERRIDE" \in en.umasks[n].uflags THEN {en.umasks[n].ucode \cap EventSelect} ELSE {})
BY DEF Overrides, With

\* The codes that unit masks override are one at most.
LEMMA OneCode ==
    ASSUME NEW en, NEW A, LoopOK(en, A), NEW c \in Overrides(en, NamesOf(A))
    PROVE  Overrides(en, NamesOf(A)) = {c}
BY DEF LoopOK, Overrides

LEMMA RegUmask ==
    ASSUME NEW en, NEW A, LoopOK(en, A), NEW a, a.type = "umask", LoopOK(en, A \cup {a})
    PROVE  LET n == a.name
               code == en.umasks[n].ucode \cap EventSelect
           IN  RegOf(en, A \cup {a}) =
                   IF "CODE_OVERRIDE" \in en.umasks[n].uflags
                   THEN (RegOf(en, A) \ EventSelect) \cup code ELSE RegOf(en, A)
<1> DEFINE n == a.name
           B == A \cup {a}
           code == en.umasks[n].ucode \cap EventSelect
<1>1. NamesOf(B) = NamesOf(A) \cup {n} /\ Written(B) = Written(A) /\ StoredBits(B) = StoredBits(A)
  BY AddUmask
<1>2. CASE "CODE_OVERRIDE" \in en.umasks[n].uflags
  <2>1. code \in Overrides(en, NamesOf(B))
    BY <1>1, <1>2 DEF Overrides, With
  <2>2. PICK O : O = Overrides(en, NamesOf(B))
    OBVIOUS
  <2>3. O = {code}
    <3>1. LoopOK(en, B)
      OBVIOUS
    <3> HIDE DEF B, code
    <3>2. QED
      BY <2>1, <2>2, <3>1, OneCode
  <2>4. CodeOf(en, B) = (en.code \ EventSelect) \cup code
    BY <2>2, <2>3 DEF CodeOf
  <2>5. CodeOf(en, A) \ EventSelect = en.code \ EventSelect
    <3>1. UNION Overrides(en, NamesOf(A)) \subseteq EventSelect
      BY DEF Overrides
    <3>2. QED
      BY <3>1 DEF CodeOf
  <2>6. Written(A) \cap EventSelect = {} /\ StoredBits(A) \cap EventSelect = {} /\ code \subseteq EventSelect
    BY WrittenPlace
  <2> HIDE DEF code, n, B
  <2>7. RegOf(en, B) = (((en.code \ EventSelect) \cup code) \ Written(A)) \cup StoredBits(A)
    BY <1>1, <2>4 DEF RegOf
  <2>8. RegOf(en, A) \ EventSelect = ((CodeOf(en, A) \ EventSelect) \ Written(A)) \cup StoredBits(A)
    BY <2>6 DEF RegOf
  <2>9. RegOf(en, B) = (RegOf(en, A) \ EventSelect) \cup code
    BY <2>5, <2>6, <2>7, <2>8
  <2>10. QED
    BY <1>2, <2>9 DEF code, n, B
<1>3. CASE "CODE_OVERRIDE" \notin en.umasks[n].uflags
  <2>1. Overrides(en, NamesOf(B)) = Overrides(en, NamesOf(A))
    BY <1>1, <1>3 DEF Overrides, With
  <2>2. CodeOf(en, B) = CodeOf(en, A)
    BY <2>1 DEF CodeOf
  <2>3. RegOf(en, B) = RegOf(en, A)
    BY <1>1, <2>2 DEF RegOf
  <2>4. QED
    BY <1>3, <2>3
<1>4. QED
  BY <1>2, <1>3

LEMMA UcodesAdd ==
    ASSUME NEW en, NEW N, NEW n
    PROVE  Ucodes(en, N \cup {n}) = Ucodes(en, N) \cup (en.umasks[n].ucode \ EventSelect)
<1>1. \A M, b : b \in Ucodes(en, M) <=> b \notin EventSelect /\ \E m \in M : b \in en.umasks[m].ucode
  BY DEF Ucodes
<1>2. PICK M : M = N \cup {n}
  OBVIOUS
<1>3. \A b : b \in Ucodes(en, M) <=> b \in Ucodes(en, N) \/ b \in en.umasks[n].ucode \ EventSelect
  BY <1>1, <1>2
<1>4. Ucodes(en, M) = Ucodes(en, N) \cup (en.umasks[n].ucode \ EventSelect)
  BY <1>3
<1>5. QED
  BY <1>2, <1>4

\* The loop accepts one more unit mask exactly if it can be combined with the
\* others and overrides the code as they do.
LEMMA LoopOKUmask ==
    ASSUME Read(entry, l, Past), LoopOK(entry, Past), l.code = Overrides(entry, NamesOf(Past)),
           NEW a, a.type = "umask", Fresh(Past, a)
    PROVE  LoopOK(entry, Past \cup {a}) <=>
               ~ (\/ NoCombination(a.name)
                  \/ Has(a.name, "CODE_OVERRIDE") /\ l.code \notin {{}, {umasks[a.name].ucode \cap EventSelect}})
<1> DEFINE n == a.name
           code == umasks[n].ucode \cap EventSelect
           B == Past \cup {a}
<1>1. NamesOf(B) = NamesOf(Past) \cup {n} /\ OfType(B, "raw") = OfType(Past, "raw")
      /\ OfType(B, "mod") = OfType(Past, "mod")
  BY AddUmask DEF OfType
<1>2. n \notin NamesOf(Past) /\ l.named = NamesOf(Past)
  BY DEF Fresh, NamesOf, OfType, Read
<1> HIDE DEF n, B
<1>3. (\A x, y \in NamesOf(B) : x # y /\ Group(x) = Group(y) => ~ Has(x, "NCOMBO")) <=> ~ NoCombination(n)
  <2>1. \A x, y \in NamesOf(Past) : x # y /\ Group(x) = Group(y) => ~ Has(x, "NCOMBO")
    BY DEF LoopOK, Group, Has, umasks
  <2>2. QED
    BY <1>1, <1>2, <2>1 DEF NoCombination
<1>4. (\A x, y \in With(entry, NamesOf(B), "CODE_OVERRIDE") :
          umasks[x].ucode \cap EventSelect = umasks[y].ucode \cap EventSelect)
      <=> ~ (Has(n, "CODE_OVERRIDE") /\ l.code \notin {{}, {code}})
  <2>1. l.code = {umasks[x].ucode \cap EventSelect : x \in With(entry, NamesOf(Past), "CODE_OVERRIDE")}
    BY DEF Overrides, umasks
  <2>2. \A x, y \in With(entry, NamesOf(Past), "CODE_OVERRIDE") :
          umasks[x].ucode \cap EventSelect = umasks[y].ucode \cap EventSelect
    BY DEF LoopOK, umasks
  <2>3. \A x : x \in With(entry, NamesOf(B), "CODE_OVERRIDE") <=>
                   x \in With(entry, NamesOf(Past), "CODE_OVERRIDE") \/ (x = n /\ Has(n, "CODE_OVERRIDE"))
    BY <1>1 DEF With, Has, umasks
  <2>4. l.code \in {{}, {code}} <=>
            \A x \in With(entry, NamesOf(Past), "CODE_OVERRIDE") : umasks[x].ucode \cap EventSelect = code
    <3> HIDE DEF code
    <3>1. l.code \in {{}, {code}} <=> \A c \in l.code : c = code
      OBVIOUS
    <3>2. QED
      BY <2>1, <3>1
  <2>5. code = umasks[n].ucode \cap EventSelect
    OBVIOUS
  <2> HIDE DEF code
  <2>6. QED
    BY <2>2, <2>3, <2>4, <2>5
<1>5. LoopOK(entry, B) <=>
          /\ \A x, y \in NamesOf(B) : x # y /\ Group(x) = Group(y) => ~ Has(x, "NCOMBO")
          /\ \A x, y \in With(entry, NamesOf(B), "CODE_OVERRIDE") :
                 umasks[x].ucode \cap EventSelect = umasks[y].ucode \cap EventSelect
  BY <1>1 DEF LoopOK, Group, Has, umasks
<1>6. QED
  BY <1>3, <1>4, <1>5 DEF n, B

LEMMA TakeUmaskFun ==
    ASSUME Typed, IInv, FunInv, NEW a \in Readable, TakeUmask(a)
    PROVE  InLoop' /\ InDefaults' /\ AtEnd'
<1> DEFINE n == a.name
           code == umasks[n].ucode \cap EventSelect
           bad == NoCombination(n) \/ (Has(n, "CODE_OVERRIDE") /\ l.code \notin {{}, {code}})
<1>1. phase = "attrs" /\ Reads(a) /\ a.type = "umask" /\ UNCHANGED event
  BY DEF TakeUmask, Reads
<1>2. /\ k' >= 1 /\ k' <= Len(attrs') + 1 /\ (call' = "first" => k' = Len(attrs') + 1)
      /\ Past' = Past \cup {a} /\ Past' \subseteq All' /\ a \in Attributes
      /\ Distinct(attrs') => Distinct(attrs) /\ Fresh(Past, a)
  BY <1>1, ReadsPast DEF FunInv
<1>3. ASSUME Distinct(attrs')
      PROVE  /\ LoopOK(entry, Past) /\ Read(entry, l, Past) /\ l.reg = RegOf(entry, Past) /\ l.umask = UmaskOf(entry, Past)
             /\ l.code = Overrides(entry, NamesOf(Past)) /\ Fresh(Past, a)
             /\ LoopOK(entry, Past') <=> ~ bad
  BY <1>1, <1>2, <1>3, LoopOKUmask DEF FunInv, InLoop
<1>4. CASE bad
  <2>1. Return("FEATCOMB")
    BY <1>4 DEF TakeUmask
  <2>2. QED
    BY <1>1, <1>2, <1>3, <1>4, <2>1, LoopFails DEF Success
<1>5. CASE ~ bad
  <2>1. /\ phase' = "attrs" /\ entry' = entry /\ umasks' = umasks
        /\ l'.named = l.named \cup {n} /\ l'.mods = l.mods /\ l'.raw = l.raw
        /\ l'.max_grpid = (IF Has(n, "EXCL_GRP_GT") THEN Group(n) ELSE l.max_grpid)
        /\ l'.but_0 = (IF Has(n, "EXCL_GRP_BUT_0") THEN Group(n) ELSE l.but_0)
        /\ l'.umask = l.umask \cup (umasks[n].ucode \ EventSelect)
        /\ l'.code = (IF Has(n, "CODE_OVERRIDE") THEN {code} ELSE l.code)
        /\ l'.reg = (IF Has(n, "CODE_OVERRIDE") THEN (l.reg \ EventSelect) \cup code ELSE l.reg)
        /\ l'.ldlat = l.ldlat /\ l'.fe_thr = l.fe_thr
    <3>1. DOMAIN l = Fields
      BY DEF IInv, Shape
    <3>2. QED
      BY <1>1, <1>5, <3>1 DEF TakeUmask, Continue, Fields, Group, umasks, entry
  <2>2. ASSUME Distinct(attrs')
        PROVE  /\ LoopOK(entry, Past') /\ Read(entry, l', Past') /\ l'.reg = RegOf(entry, Past')
               /\ l'.umask = UmaskOf(entry, Past') /\ l'.code = Overrides(entry, NamesOf(Past'))
    <3> DEFINE B == Past \cup {a}
    <3>1. LoopOK(entry, B)
      BY <1>2, <1>3, <1>5, <2>2
    <3>2. /\ NamesOf(B) = NamesOf(Past) \cup {n} /\ ModsOf(B) = ModsOf(Past)
          /\ RawOf(B) = RawOf(Past) /\ RawBits(B) = RawBits(Past)
          /\ \A m : ValueOf(B, m) = ValueOf(Past, m)
      BY <1>1, AddUmask
    <3>3. RegOf(entry, B) = IF Has(n, "CODE_OVERRIDE") THEN (RegOf(entry, Past) \ EventSelect) \cup code
                            ELSE RegOf(entry, Past)
      BY <1>1, <1>3, <2>2, <3>1, RegUmask DEF Has, umasks
    <3>4. Overrides(entry, NamesOf(B)) = IF Has(n, "CODE_OVERRIDE") THEN {code} ELSE Overrides(entry, NamesOf(Past))
      <4>1. PICK N : N = NamesOf(Past)
        OBVIOUS
      <4>2. Overrides(entry, N \cup {n}) = Overrides(entry, N) \cup
               (IF Has(n, "CODE_OVERRIDE") THEN {code} ELSE {})
        BY OverridesAdd DEF Has, umasks
      <4>3. Has(n, "CODE_OVERRIDE") => Overrides(entry, N) \in {{}, {code}}
        BY <1>3, <1>5, <2>2, <4>1
      <4>4. QED
        BY <3>2, <4>1, <4>2, <4>3
    <3>5. WellFormed(entry) /\ n \in DOMAIN entry.umasks /\ NamesOf(Past) \subseteq DOMAIN entry.umasks
      BY <1>1, <1>2, <1>3, <2>2, TableAssumption DEF Typed, Attributes, Choices, Read, umasks, entry
    <3>6. \A f \in {"EXCL_GRP_GT", "EXCL_GRP_BUT_0"} : \A none :
              GroupWith(entry, NamesOf(B), f, none) = IF Has(n, f) THEN Group(n) ELSE GroupWith(entry, NamesOf(Past), f, none)
      <4>1. PICK N, o : N = NamesOf(Past) /\ o = n
        OBVIOUS
      <4>2. \A f \in {"EXCL_GRP_GT", "EXCL_GRP_BUT_0"} : \A none :
                GroupWith(entry, N \cup {o}, f, none) =
                    IF f \in entry.umasks[o].uflags THEN entry.umasks[o].grpid ELSE GroupWith(entry, N, f, none)
        <5>1. N \subseteq DOMAIN entry.umasks /\ o \in DOMAIN entry.umasks
          BY <3>5, <4>1
        <5>2. PICK en : en = entry
          OBVIOUS
        <5>3. QED
          BY <3>5, <5>1, <5>2, GroupWithAdd
      <4>3. QED
        BY <3>2, <4>1, <4>2 DEF Has, Group, umasks
    <3>7. UmaskOf(entry, B) = UmaskOf(entry, Past) \cup (umasks[n].ucode \ EventSelect)
      <4>1. PICK N : N = NamesOf(Past)
        OBVIOUS
      <4>2. Ucodes(entry, N \cup {n}) = Ucodes(entry, N) \cup (umasks[n].ucode \ EventSelect)
        BY UcodesAdd DEF umasks
      <4>3. QED
        BY <3>2, <4>1, <4>2 DEF UmaskOf
    <3>8. MaxOf(entry, B) = l'.max_grpid /\ But0Of(entry, B) = l'.but_0
      BY <1>3, <2>1, <2>2, <3>6 DEF MaxOf, But0Of, Read
    <3> HIDE DEF B, n, code
    <3>9. B = Past'
      BY <1>2 DEF B
    <3>10. Read(entry, l', B)
      BY <1>3, <2>1, <2>2, <3>2, <3>8, <3>9 DEF Read
    <3>11. QED
      BY <1>3, <2>1, <2>2, <3>1, <3>3, <3>4, <3>7, <3>9, <3>10
  <2>3. InLoop'
    BY <1>2, <2>1, <2>2 DEF InLoop
  <2>4. QED
    BY <2>1, <2>3 DEF InDefaults, AtEnd
<1>6. QED
  BY <1>4, <1>5

\* The attributes read so far are those of an event.
LEMMA PastTyped ==
    ASSUME Typed, Wiring, InLoop, phase = "attrs", NEW a \in Readable, Reads(a)
    PROVE  Past \cup {a} \subseteq Attributes /\ Apart(Past \cup {a})
<1>1. Past' = Past \cup {a} /\ Past' \subseteq All' /\ a \in Attributes
  BY ReadsPast
<1>2. attrs \in Seq(Attributes) /\ k \in Nat /\ k >= 1 /\ k <= Len(attrs) + 1
  BY DEF Typed, InLoop
<1>3. Past \subseteq Attributes
  BY <1>2 DEF Past
<1>4. Unmixed(attrs')
  BY ReadsUnmixed
<1>5. Apart(All')
  BY <1>4 DEF Apart, All, Unmixed
<1>6. QED
  BY <1>1, <1>3, <1>5 DEF Apart

LEMMA TakeRawFun ==
    ASSUME Typed, IInv, Wiring, FunInv, NEW a \in Readable, TakeRaw(a)
    PROVE  InLoop' /\ InDefaults' /\ AtEnd'
<1> DEFINE bad == ~ (a.ival \subseteq 0 .. entry.width - 1)
           B == Past \cup {a}
<1>1. phase = "attrs" /\ Reads(a) /\ a.type = "raw" /\ UNCHANGED event
  BY DEF TakeRaw, Reads
<1>2. /\ k' >= 1 /\ k' <= Len(attrs') + 1 /\ (call' = "first" => k' = Len(attrs') + 1)
      /\ Past' = B /\ Past' \subseteq All' /\ a \in Attributes
      /\ Distinct(attrs') => Distinct(attrs) /\ Fresh(Past, a)
  BY <1>1, ReadsPast DEF FunInv
<1>3. a \in B /\ B \subseteq Attributes /\ Apart(B)
  BY <1>1, PastTyped DEF FunInv
<1>4. ASSUME bad PROVE InLoop' /\ InDefaults' /\ AtEnd'
  <2>1. Return("ATTR")
    BY <1>4 DEF TakeRaw
  <2>2. ~ LoopOK(entry, B)
    BY <1>1, <1>3, <1>4 DEF LoopOK, OfType
  <2>3. QED
    BY <1>1, <1>2, <2>1, <2>2, LoopFails DEF Success
<1>5. ASSUME ~ bad PROVE InLoop' /\ InDefaults' /\ AtEnd'
  <2>1. /\ phase' = "attrs" /\ entry' = entry
        /\ l'.named = l.named /\ l'.mods = l.mods /\ l'.raw = <<a>>
        /\ l'.max_grpid = l.max_grpid /\ l'.but_0 = l.but_0
        /\ l'.umask = {b + 8 : b \in a.ival} /\ l'.code = l.code /\ l'.reg = l.reg
        /\ l'.ldlat = l.ldlat /\ l'.fe_thr = l.fe_thr
    <3>1. DOMAIN l = Fields
      BY DEF IInv, Shape
    <3>2. QED
      BY <1>1, <1>5, <3>1 DEF TakeRaw, Continue, Fields, entry
  <2>2. ASSUME Distinct(attrs')
        PROVE  /\ LoopOK(entry, Past') /\ Read(entry, l', Past') /\ l'.reg = RegOf(entry, Past')
               /\ l'.umask = UmaskOf(entry, Past') /\ l'.code = Overrides(entry, NamesOf(Past'))
    <3>1. /\ LoopOK(entry, Past) /\ Read(entry, l, Past) /\ l.reg = RegOf(entry, Past)
          /\ l.code = Overrides(entry, NamesOf(Past)) /\ Fresh(Past, a)
      BY <1>1, <1>2, <2>2 DEF FunInv, InLoop
    <3>2. \A b \in Past : b.type = "raw" => b.name = a.name
      BY <1>1, <1>3 DEF Attributes
    <3>3. /\ NamesOf(B) = {} /\ NamesOf(Past) = {}
          /\ RawOf(B) = <<a>> /\ RawBits(B) = {b + 8 : b \in a.ival}
          /\ ModsOf(B) = ModsOf(Past)
          /\ \A m : ValueOf(B, m) = ValueOf(Past, m)
          /\ Written(B) = Written(Past) /\ StoredBits(B) = StoredBits(Past)
      BY <1>1, <1>3, <3>1, <3>2, AddRaw
    <3>4. LoopOK(entry, B)
      <4>1. OfType(B, "mod") = OfType(Past, "mod") /\ OfType(B, "raw") = OfType(Past, "raw") \cup {a}
        BY <1>1 DEF OfType
      <4>2. \A f : With(entry, NamesOf(B), f) = {}
        BY <3>3 DEF With
      <4> HIDE DEF B
      <4>3. QED
        BY <1>5, <3>1, <3>3, <4>1, <4>2 DEF LoopOK
    <3> HIDE DEF B
    <3>5. RegOf(entry, B) = RegOf(entry, Past) /\ Overrides(entry, NamesOf(B)) = Overrides(entry, NamesOf(Past))
      BY <3>3 DEF RegOf, CodeOf
    <3>6. UmaskOf(entry, B) = l'.umask
      <4>1. Ucodes(entry, {}) = {}
        BY DEF Ucodes
      <4>2. QED
        BY <2>1, <3>3, <4>1 DEF UmaskOf
    <3>7. Read(entry, l', B)
      BY <2>1, <3>1, <3>3 DEF Read, MaxOf, But0Of
    <3>8. QED
      BY <1>2, <2>1, <3>1, <3>4, <3>5, <3>6, <3>7
  <2>3. InLoop'
    BY <1>2, <2>1, <2>2 DEF InLoop
  <2>4. QED
    BY <2>1, <2>3 DEF InDefaults, AtEnd
<1>6. QED
  BY <1>4, <1>5

LEMMA TakeModifierFun ==
    ASSUME Typed, IInv, Wiring, FunInv, NEW a \in Readable, TakeModifier(a)
    PROVE  InLoop' /\ InDefaults' /\ AtEnd'
<1> DEFINE bad == BadValue(a.name, a.ival)
           B == Past \cup {a}
<1>1. phase = "attrs" /\ Reads(a) /\ a.type = "mod" /\ UNCHANGED event
  BY DEF TakeModifier, Reads
<1>2. /\ k' >= 1 /\ k' <= Len(attrs') + 1 /\ (call' = "first" => k' = Len(attrs') + 1)
      /\ Past' = B /\ Past' \subseteq All' /\ a \in Attributes
      /\ Distinct(attrs') => Distinct(attrs) /\ Fresh(Past, a)
  BY <1>1, ReadsPast DEF FunInv
<1>3. a \in B /\ a.name \in Mods
  BY <1>1, <1>2 DEF Attributes
<1>4. ASSUME bad PROVE InLoop' /\ InDefaults' /\ AtEnd'
  <2>1. Return("ATTR_VAL")
    BY <1>4 DEF TakeModifier
  <2>2. ~ LoopOK(entry, B)
    BY <1>1, <1>3, <1>4 DEF LoopOK, OfType
  <2>3. QED
    BY <1>1, <1>2, <2>1, <2>2, LoopFails DEF Success
<1>5. ASSUME ~ bad PROVE InLoop' /\ InDefaults' /\ AtEnd'
  <2>0. DOMAIN l = Fields
    BY DEF IInv, Shape
  <2>1. /\ phase' = "attrs" /\ entry' = entry
        /\ l'.named = l.named /\ l'.mods = l.mods \cup ({a.name} \ {"ldlat"}) /\ l'.raw = l.raw
        /\ l'.max_grpid = l.max_grpid /\ l'.but_0 = l.but_0
        /\ l'.umask = l.umask /\ l'.code = l.code
        /\ l'.reg = (IF a.name \in DOMAIN Field THEN (l.reg \ Field[a.name]) \cup Stored(a.name, a.ival) ELSE l.reg)
        /\ l'.ldlat = (IF a.name = "ldlat" THEN a.ival ELSE l.ldlat)
        /\ l'.fe_thr = (IF a.name = "fe_thres" THEN a.ival ELSE l.fe_thr)
    <3>1. CASE a.name = "ldlat"
      <4>1. phase' = "attrs" /\ l' = [l EXCEPT !.ldlat = a.ival]
        BY <1>1, <1>5, <3>1 DEF TakeModifier, Continue
      <4>2. "ldlat" \notin DOMAIN Field
        BY FieldFacts
      <4>3. QED
        BY <1>1, <2>0, <3>1, <4>1, <4>2 DEF Fields, entry
    <3>2. CASE a.name = "fe_thres"
      <4>1. phase' = "attrs" /\ l' = [l EXCEPT !.fe_thr = a.ival, !.mods = @ \cup {a.name}]
        BY <1>1, <1>5, <3>2 DEF TakeModifier, Continue
      <4>2. "fe_thres" \notin DOMAIN Field
        BY FieldFacts
      <4>3. QED
        BY <1>1, <2>0, <3>2, <4>1, <4>2 DEF Fields, entry
    <3>3. CASE a.name \notin {"ldlat", "fe_thres"}
      <4>1. a.name \in DOMAIN Field
        BY <1>3, <3>3 DEF Mods
      <4>2. phase' = "attrs" /\ l' = [l EXCEPT !.reg = (@ \ Field[a.name]) \cup Stored(a.name, a.ival),
                                               !.mods = @ \cup {a.name}]
        BY <1>1, <1>5, <3>3 DEF TakeModifier, Continue
      <4>3. QED
        BY <1>1, <2>0, <3>3, <4>1, <4>2 DEF Fields, entry
    <3>4. QED
      BY <3>1, <3>2, <3>3
  <2>2. ASSUME Distinct(attrs')
        PROVE  /\ LoopOK(entry, Past') /\ Read(entry, l', Past') /\ l'.reg = RegOf(entry, Past')
               /\ l'.umask = UmaskOf(entry, Past') /\ l'.code = Overrides(entry, NamesOf(Past'))
    <3>1. /\ LoopOK(entry, Past) /\ Read(entry, l, Past) /\ l.reg = RegOf(entry, Past)
          /\ l.umask = UmaskOf(entry, Past)
          /\ l.code = Overrides(entry, NamesOf(Past)) /\ Fresh(Past, a)
      BY <1>1, <1>2, <2>2 DEF FunInv, InLoop
    <3>2. /\ NamesOf(B) = NamesOf(Past) /\ RawOf(B) = RawOf(Past) /\ RawBits(B) = RawBits(Past)
          /\ ModsOf(B) = ModsOf(Past) \cup ({a.name} \ {"ldlat"})
          /\ \A m : ValueOf(B, m) = IF m = a.name THEN a.ival ELSE ValueOf(Past, m)
          /\ Written(B) = Written(Past) \cup (IF a.name \in DOMAIN Field THEN Field[a.name] ELSE {})
          /\ StoredBits(B) = StoredBits(Past) \cup
                 (IF a.name \in DOMAIN Field THEN Stored(a.name, a.ival) ELSE {})
      BY <1>1, <3>1, AddModifier
    <3>3. LoopOK(entry, B)
      <4>1. OfType(B, "mod") = OfType(Past, "mod") \cup {a} /\ OfType(B, "raw") = OfType(Past, "raw")
        BY <1>1 DEF OfType
      <4> HIDE DEF B
      <4>2. QED
        BY <1>5, <3>1, <3>2, <4>1 DEF LoopOK
    <3> HIDE DEF B
    <3>4. CodeOf(entry, B) = CodeOf(entry, Past) /\ Overrides(entry, NamesOf(B)) = Overrides(entry, NamesOf(Past))
      BY <3>2 DEF CodeOf
    <3>5. RegOf(entry, B) = l'.reg
      <4>1. a.name \in DOMAIN Field => StoredBits(Past) \cap Field[a.name] = {}
        BY <3>1, WrittenPlace DEF Fresh
      <4>2. RegOf(entry, B) = (CodeOf(entry, Past) \ Written(B)) \cup StoredBits(B)
        BY <3>4 DEF RegOf
      <4>3. l.reg = (CodeOf(entry, Past) \ Written(Past)) \cup StoredBits(Past)
        BY <3>1 DEF RegOf
      <4>4. CASE a.name \in DOMAIN Field
        BY <2>1, <3>2, <4>1, <4>2, <4>3, <4>4
      <4>5. CASE a.name \notin DOMAIN Field
        BY <2>1, <3>2, <4>2, <4>3, <4>5
      <4>6. QED
        BY <4>4, <4>5
    <3>6. UmaskOf(entry, B) = l'.umask
      BY <2>1, <3>1, <3>2 DEF UmaskOf
    <3>7. Read(entry, l', B)
      BY <2>1, <3>1, <3>2 DEF Read, MaxOf, But0Of
    <3>8. QED
      BY <1>2, <2>1, <3>1, <3>3, <3>4, <3>5, <3>6, <3>7
  <2>3. InLoop'
    BY <1>2, <2>1, <2>2 DEF InLoop
  <2>4. QED
    BY <2>1, <2>3 DEF InDefaults, AtEnd
<1>6. QED
  BY <1>4, <1>5

(***************************************************************************)
(* The defaults                                                            *)
(***************************************************************************)
LEMMA NothingLooked ==
    ASSUME NEW en, NEW A
    PROVE  /\ Eligible(en, A, {}) = {} /\ AddedOf(en, A, {}) = {} /\ LimitOf(en, A, {}) = MaxOf(en, A)
           /\ FinalUmask(en, A, {}) = UmaskOf(en, A)
<1>1. Eligible(en, A, {}) = {}
  BY DEF Eligible
<1>2. AddedOf(en, A, {}) = {}
  BY <1>1 DEF AddedOf
<1>3. With(en, {}, "EXCL_GRP_GT") = {} /\ Ucodes(en, {}) = {}
  BY DEF With, Ucodes
<1>4. LimitOf(en, A, {}) = MaxOf(en, A)
  BY <1>1, <1>3 DEF LimitOf, GroupWith
<1>5. QED
  BY <1>1, <1>2, <1>3, <1>4 DEF FinalUmask

LEMMA EndAttrsFun ==
    ASSUME Typed, IInv, FunInv, EndAttrs
    PROVE  InLoop' /\ InDefaults' /\ AtEnd' /\ Compared' /\ Named'
<1>1. phase = "attrs" /\ UNCHANGED <<call, event, plm, attrs, k, first>> /\ (call = "first" \/ k > Len(attrs))
  BY DEF EndAttrs
<1>2. k \in Nat /\ attrs \in Seq(Attributes) /\ k <= Len(attrs) + 1 /\ (call = "first" => k = Len(attrs) + 1)
  BY <1>1 DEF Typed, FunInv, InLoop
<1>3. k = Len(attrs) + 1
  BY <1>1, <1>2
<1>4. Past = All
  BY <1>2, <1>3 DEF Past, All
<1>5. entry' = entry /\ All' = All
  BY <1>1 DEF entry, All
<1>6. Compared' /\ Named'
  BY <1>1, <1>5 DEF FunInv, Compared, Named, Function
<1>7. ASSUME Distinct(attrs)
      PROVE  /\ LoopOK(entry, All) /\ Read(entry, l, All) /\ l.reg = RegOf(entry, All) /\ l.umask = UmaskOf(entry, All)
             /\ Conflict <=> ConflictOf(entry, All)
             /\ DefaultPlm = PlmOf(entry, plm, All) /\ Groups \ Covered = Uncovered(entry, All)
  <2>1. LoopOK(entry, All) /\ Read(entry, l, All) /\ l.reg = RegOf(entry, All) /\ l.umask = UmaskOf(entry, All)
    BY <1>1, <1>4, <1>7 DEF FunInv, InLoop
  <2>2. l.named = NamesOf(All) /\ l.mods = ModsOf(All) /\ l.raw = RawOf(All)
    BY <2>1 DEF Read
  <2>3. modhw = ModhwOf(entry, NamesOf(All))
    BY <2>2 DEF modhw, ModhwOf, umasks
  <2>4. Conflict <=> ConflictOf(entry, All)
    BY <2>1, <2>2, <2>3 DEF Conflict, ConflictOf
  <2>5. DefaultPlm = PlmOf(entry, plm, All)
    BY <2>2 DEF DefaultPlm, PlmOf
  <2>6. Groups \ Covered = Uncovered(entry, All)
    BY <2>2 DEF Groups, Covered, Uncovered, Group, umasks
  <2>7. QED
    BY <2>1, <2>4, <2>5, <2>6
<1>8. CASE Conflict
  <2>1. phase' = "idle" /\ res' = Failure("ATTR_SET")
    BY <1>8 DEF EndAttrs, Return
  <2>2. res'.err # Success
    BY <2>1, FailureNotDone DEF Success
  <2>3. Distinct(attrs) => ~ Accepted(entry, plm, All)
    BY <1>7, <1>8 DEF Accepted
  <2>4. Distinct(attrs) => Function(res)'
    BY <1>1, <1>5, <2>2, <2>3 DEF Function
  <2>5. QED
    BY <1>1, <1>6, <2>1, <2>4 DEF InLoop, InDefaults, AtEnd
<1>9. CASE ~ Conflict
  <2>1. /\ phase' = "defaults"
        /\ l'.named = l.named /\ l'.added = {} /\ l'.mods = l.mods /\ l'.raw = l.raw
        /\ l'.max_grpid = l.max_grpid /\ l'.limit = l.max_grpid
        /\ l'.but_0 = l.but_0 /\ l'.missing = Groups \ Covered
        /\ l'.umask = l.umask /\ l'.reg = l.reg \cup DefaultPlm
        /\ l'.ldlat = l.ldlat /\ l'.fe_thr = l.fe_thr
    <3>1. DOMAIN l = Fields /\ l.added = {}
      BY <1>1 DEF IInv, Shape
    <3>2. QED
      BY <1>9, <3>1 DEF EndAttrs, Fields
  <2>2. ASSUME Distinct(attrs)
        PROVE  /\ LoopOK(entry, All) /\ ~ ConflictOf(entry, All) /\ Read(entry, l', All)
               /\ l'.reg = RegOf(entry, All) \cup PlmOf(entry, plm, All)
               /\ l'.missing = Uncovered(entry, All)
               /\ l'.added = AddedOf(entry, All, {}) /\ l'.limit = LimitOf(entry, All, {})
               /\ l'.umask = FinalUmask(entry, All, {})
    <3>1. Read(entry, l', All)
      BY <1>7, <2>1, <2>2 DEF Read
    <3>2. l'.limit = MaxOf(entry, All)
      BY <1>7, <2>1, <2>2 DEF Read
    <3>3. QED
      BY <1>7, <1>9, <2>1, <2>2, <3>1, <3>2, NothingLooked
  <2>3. Distinct(attrs) => Looked' = {}
    BY <1>5, <2>2 DEF Looked
  <2>4. InDefaults'
    BY <1>1, <1>5, <2>2, <2>3 DEF InDefaults
  <2>5. QED
    BY <1>6, <2>1, <2>4 DEF InLoop, AtEnd
<1>10. QED
  BY <1>8, <1>9

\* The defaults of one more group, above the others.
LEMMA AddedAdd ==
    ASSUME NEW en, WellFormed(en), NEW A, NEW G, NEW g,
           \A n \in DOMAIN en.umasks : en.umasks[n].grpid \in Nat, NamesOf(A) \subseteq DOMAIN en.umasks,
           g \in Nat, G \subseteq Nat, \A h \in G : h < g,
           \A n \in NamesOf(A) : en.umasks[n].grpid # g,
           MaxOf(en, A) \in Nat
    PROVE  LET dfl == {n \in DOMAIN en.umasks :
                          /\ en.umasks[n].grpid = g /\ g <= LimitOf(en, A, G)
                          /\ Wanted(en, A, n) /\ "DFL" \in en.umasks[n].uflags}
               exclusive == \E n \in dfl : "EXCL_GRP_GT" \in en.umasks[n].uflags
           IN  /\ AddedOf(en, A, G \cup {g}) = AddedOf(en, A, G) \cup dfl
               /\ LimitOf(en, A, G \cup {g}) = IF exclusive THEN g ELSE LimitOf(en, A, G)
               /\ exclusive => LimitOf(en, A, G) = MaxGrpid
<1> DEFINE grp(n) == en.umasks[n].grpid
           E == Eligible(en, A, G)
           F == Eligible(en, A, G \cup {g})
           new == {n \in F : grp(n) = g}
           L == LimitOf(en, A, G)
           M == MaxOf(en, A)
           excl(n) == "EXCL_GRP_GT" \in en.umasks[n].uflags
           dfl == {n \in DOMAIN en.umasks :
                          /\ grp(n) = g /\ g <= L /\ Wanted(en, A, n) /\ "DFL" \in en.umasks[n].uflags}
           exclusive == \E n \in dfl : excl(n)
<1>1. F = E \cup new /\ E \subseteq DOMAIN en.umasks /\ F \subseteq DOMAIN en.umasks
  BY DEF Eligible
<1>2. \A n \in E : grp(n) \in G /\ grp(n) \in Nat /\ grp(n) < g /\ grp(n) <= M
  BY DEF Eligible
<1>3. new = {n \in DOMAIN en.umasks : grp(n) = g /\ g <= M /\ Wanted(en, A, n) /\ "DFL" \in en.umasks[n].uflags}
  BY DEF Eligible
<1>4. \A m, n \in DOMAIN en.umasks : excl(m) /\ excl(n) => grp(m) = grp(n)
  BY OneGroup
<1>5. \A n \in E : excl(n) => L = grp(n)
  <2> SUFFICES ASSUME NEW n \in E, excl(n) PROVE L = grp(n)
    OBVIOUS
  <2>1. n \in With(en, E, "EXCL_GRP_GT") /\ \A m \in With(en, E, "EXCL_GRP_GT") : grp(m) = grp(n)
    BY <1>1, <1>4 DEF With
  <2>2. GroupWith(en, E, "EXCL_GRP_GT", M) = grp(n)
    <3>1. PICK S, o : S = E /\ o = M
      OBVIOUS
    <3>2. n \in With(en, S, "EXCL_GRP_GT")
          /\ \A m \in With(en, S, "EXCL_GRP_GT") : en.umasks[m].grpid = en.umasks[n].grpid
      BY <2>1, <3>1
    <3>3. GroupWith(en, S, "EXCL_GRP_GT", o) = en.umasks[n].grpid
      BY <3>2, GroupWithIs
    <3>4. QED
      BY <3>1, <3>3
  <2>3. QED
    BY <2>2 DEF LimitOf
<1>6. (\A n \in E : ~ excl(n)) => L = M
  <2>1. (\A n \in E : ~ excl(n)) => With(en, E, "EXCL_GRP_GT") = {}
    BY DEF With
  <2>2. QED
    BY <2>1 DEF LimitOf, GroupWith
<1>7. L \in Nat /\ L <= M
  BY <1>2, <1>5, <1>6
<1>8. \A n \in dfl : excl(n) => L = M /\ M = MaxGrpid
  <2> SUFFICES ASSUME NEW n \in dfl, excl(n) PROVE L = M /\ M = MaxGrpid
    OBVIOUS
  <2>1. \A m \in E : ~ excl(m)
    BY <1>1, <1>2, <1>4
  <2>2. \A m \in NamesOf(A) : ~ excl(m)
    BY <1>4
  <2>3. With(en, NamesOf(A), "EXCL_GRP_GT") = {}
    BY <2>2 DEF With
  <2>4. M = MaxGrpid
    BY <2>3 DEF MaxOf, GroupWith
  <2>5. QED
    BY <1>6, <2>1, <2>4
<1>9. dfl \subseteq new /\ (L = M => new = dfl) /\ {n \in new : grp(n) <= L} = dfl
  <2> DEFINE P(n) == n \in DOMAIN en.umasks /\ Wanted(en, A, n) /\ "DFL" \in en.umasks[n].uflags
  <2>1. \A n : n \in new <=> P(n) /\ grp(n) = g /\ g <= M
    BY <1>3
  <2>2. \A n : n \in dfl <=> P(n) /\ grp(n) = g /\ g <= L
    OBVIOUS
  <2>3. g \in Nat /\ M \in Nat
    OBVIOUS
  <2> HIDE DEF P, new, dfl, grp, L, M
  <2>4. \A n : n \in dfl => n \in new
    BY <1>7, <2>1, <2>2, <2>3
  <2>5. \A n : n \in new /\ grp(n) <= L <=> n \in dfl
    BY <1>7, <2>1, <2>2, <2>3
  <2>6. L = M => \A n : n \in new <=> n \in dfl
    BY <2>1, <2>2
  <2>7. QED
    BY <2>4, <2>5, <2>6
<1>10. LimitOf(en, A, G \cup {g}) = IF exclusive THEN g ELSE L
  <2>0. LimitOf(en, A, G \cup {g}) = GroupWith(en, F, "EXCL_GRP_GT", M)
    BY DEF LimitOf
  <2>1. CASE exclusive
    <3>1. PICK n \in dfl : excl(n)
      BY <2>1
    <3>2. n \in F /\ grp(n) = g
      BY <1>9, <3>1
    <3>3. \A m \in F : excl(m) => grp(m) = g
      BY <1>1, <1>4, <3>1, <3>2
    <3>4. PICK S, o : S = F /\ o = M
      OBVIOUS
    <3>5. n \in With(en, S, "EXCL_GRP_GT")
          /\ \A m \in With(en, S, "EXCL_GRP_GT") : en.umasks[m].grpid = en.umasks[n].grpid
      BY <3>1, <3>2, <3>3, <3>4 DEF With
    <3>6. GroupWith(en, S, "EXCL_GRP_GT", o) = en.umasks[n].grpid
      BY <3>5, GroupWithIs
    <3>7. QED
      BY <2>0, <2>1, <3>2, <3>4, <3>6
  <2>2. CASE ~ exclusive
    <3>1. CASE \E n \in E : excl(n)
      <4>1. PICK n \in E : excl(n)
        BY <3>1
      <4>2. n \in F /\ \A m \in F : excl(m) => grp(m) = grp(n)
        BY <1>1, <1>4, <4>1
      <4>3. PICK S, o : S = F /\ o = M
        OBVIOUS
      <4>4. n \in With(en, S, "EXCL_GRP_GT")
            /\ \A m \in With(en, S, "EXCL_GRP_GT") : en.umasks[m].grpid = en.umasks[n].grpid
        BY <4>1, <4>2, <4>3 DEF With
      <4>5. GroupWith(en, S, "EXCL_GRP_GT", o) = en.umasks[n].grpid
        BY <4>4, GroupWithIs
      <4>6. QED
        BY <1>5, <2>0, <2>2, <4>1, <4>3, <4>5
    <3>2. CASE \A n \in E : ~ excl(n)
      <4>1. L = M
        BY <1>6, <3>2
      <4>2. new = dfl
        BY <1>9, <4>1
      <4>3. \A n \in F : ~ excl(n)
        BY <1>1, <2>2, <3>2, <4>2
      <4>4. With(en, F, "EXCL_GRP_GT") = {}
        BY <4>3 DEF With
      <4>5. QED
        BY <2>0, <2>2, <4>1, <4>4 DEF GroupWith
    <3>3. QED
      BY <3>1, <3>2
  <2>3. QED
    BY <2>1, <2>2
<1>11. AddedOf(en, A, G \cup {g}) = AddedOf(en, A, G) \cup dfl
  <2> DEFINE K == LimitOf(en, A, G \cup {g})
  <2>1. AddedOf(en, A, G \cup {g}) = {n \in F : grp(n) <= K} /\ AddedOf(en, A, G) = {n \in E : grp(n) <= L}
    BY DEF AddedOf
  <2>2. CASE exclusive
    <3>1. K = g /\ L = M
      BY <1>8, <1>10, <2>2
    <3>2. new = dfl
      BY <1>9, <3>1
    <3>3. {n \in F : grp(n) <= K} = F /\ {n \in E : grp(n) <= L} = E
      <4>1. \A n \in new : grp(n) = g
        OBVIOUS
      <4>2. g \in Nat
        OBVIOUS
      <4> HIDE DEF E, F, K, L, M, grp, new
      <4>3. \A n \in F : grp(n) <= K
        BY <1>1, <1>2, <3>1, <4>1, <4>2
      <4>4. \A n \in E : grp(n) <= L
        BY <1>2, <3>1
      <4>5. QED
        BY <4>3, <4>4
    <3>4. QED
      BY <1>1, <2>1, <3>2, <3>3
  <2>3. CASE ~ exclusive
    <3>1. K = L
      BY <1>10, <2>3
    <3>2. QED
      BY <1>1, <1>9, <2>1, <3>1
  <2>4. QED
    BY <2>2, <2>3
<1>12. QED
  BY <1>8, <1>10, <1>11

LEMMA AddDefaultFun ==
    ASSUME Typed, IInv, FunInv, NEW g, AddDefault(g)
    PROVE  InLoop' /\ InDefaults' /\ AtEnd' /\ Compared' /\ Named'
<1> DEFINE own == {n \in DOMAIN umasks : Group(n) = g}
           dfl == {n \in own : ~ Skipped(n) /\ Has(n, "DFL")}
           exclusive == \E n \in dfl : Has(n, "EXCL_GRP_GT")
           bad == \/ \A n \in own : n \notin dfl /\ ~ Skipped(n)
                  \/ exclusive /\ l.limit # MaxGrpid
           code == (UNION {umasks[n].ucode : n \in dfl}) \ EventSelect
           A == All
<1>1. /\ phase = "defaults" /\ UNCHANGED <<call, event, plm, attrs, k, first>>
      /\ g \in l.missing /\ \A h \in l.missing : g <= h
  BY DEF AddDefault
<1>2. entry' = entry /\ All' = All
  BY <1>1 DEF entry, All
<1>3. Compared' /\ Named'
  BY <1>1, <1>2 DEF FunInv, Compared, Named, Function
<1>4. /\ \A n \in DOMAIN umasks : Group(n) \in Nat
      /\ l.missing \subseteq Nat /\ Groups \subseteq Nat /\ l.named \subseteq DOMAIN umasks
      /\ l.max_grpid \in Nat /\ l.limit \in Nat
  <2>1. event \in Events
    BY DEF Typed
  <2>2. \A n \in DOMAIN umasks : Group(n) \in Nat
    BY <2>1, TableFacts DEF Group, umasks, entry
  <2>3. Groups \subseteq Nat
    BY DEF Groups
  <2>4. MaxGrpid \in Nat
    BY DEF MaxGrpid
  <2>5. QED
    BY <2>2, <2>3, <2>4 DEF Typed, Limits, Choices
<1>5. ASSUME Distinct(attrs)
      PROVE  /\ LoopOK(entry, A) /\ ~ ConflictOf(entry, A) /\ Read(entry, l, A)
             /\ l.reg = RegOf(entry, A) \cup PlmOf(entry, plm, A)
             /\ l.missing \subseteq Uncovered(entry, A)
             /\ \A h \in Looked : GroupOK(entry, A, h) /\ \A i \in l.missing : h < i
             /\ l.added = AddedOf(entry, A, Looked) /\ l.limit = LimitOf(entry, A, Looked)
             /\ l.umask = FinalUmask(entry, A, Looked)
             /\ Looked \subseteq Nat /\ Before(entry, A, g) = Looked
             /\ \A n \in NamesOf(A) : entry.umasks[n].grpid # g
  <2>1. /\ LoopOK(entry, A) /\ ~ ConflictOf(entry, A) /\ Read(entry, l, A)
        /\ l.reg = RegOf(entry, A) \cup PlmOf(entry, plm, A)
        /\ l.missing \subseteq Uncovered(entry, A)
        /\ \A h \in Looked : GroupOK(entry, A, h) /\ \A i \in l.missing : h < i
        /\ l.added = AddedOf(entry, A, Looked) /\ l.limit = LimitOf(entry, A, Looked)
        /\ l.umask = FinalUmask(entry, A, Looked)
    BY <1>1, <1>5 DEF FunInv, InDefaults
  <2>2. Uncovered(entry, A) \subseteq Nat
    BY DEF Uncovered
  <2>3. Before(entry, A, g) = Looked
    BY <1>1, <1>4, <2>1, <2>2 DEF Before, Looked
  <2>4. \A n \in NamesOf(A) : entry.umasks[n].grpid # g
    BY <1>1, <2>1 DEF Uncovered
  <2>5. QED
    BY <2>1, <2>2, <2>3, <2>4 DEF Looked
<1> DEFINE mine == {n \in DOMAIN entry.umasks :
                       /\ entry.umasks[n].grpid = g /\ g <= LimitOf(entry, A, Looked)
                       /\ Wanted(entry, A, n) /\ "DFL" \in entry.umasks[n].uflags}
<1>6. ASSUME Distinct(attrs)
      PROVE  \A n \in own : Skipped(n) <=> ~ (g <= LimitOf(entry, A, Looked) /\ Wanted(entry, A, n))
  <2> SUFFICES ASSUME NEW n \in own
               PROVE  Skipped(n) <=> ~ (g <= LimitOf(entry, A, Looked) /\ Wanted(entry, A, n))
    OBVIOUS
  <2>1. Group(n) = g /\ l.limit = LimitOf(entry, A, Looked) /\ l.but_0 = But0Of(entry, A) /\ g \in Nat
    BY <1>1, <1>4, <1>5, <1>6 DEF Read
  <2>2. Group(n) > l.limit <=> ~ (g <= l.limit)
    BY <1>4, <2>1
  <2>3. QED
    BY <2>1, <2>2 DEF Skipped, Wanted, Has, Group, umasks
<1>7. ASSUME Distinct(attrs)
      PROVE  /\ dfl = mine
             /\ exclusive <=> \E n \in mine : "EXCL_GRP_GT" \in entry.umasks[n].uflags
             /\ (\A n \in own : n \notin dfl /\ ~ Skipped(n)) <=> ~ GroupOK(entry, A, g)
  <2>1. \A n : n \in own <=> n \in DOMAIN entry.umasks /\ entry.umasks[n].grpid = g
    BY DEF Group, umasks
  <2>2. dfl = mine
    BY <1>6, <1>7, <2>1 DEF Has, umasks
  <2>3. exclusive <=> \E n \in mine : "EXCL_GRP_GT" \in entry.umasks[n].uflags
    BY <2>2 DEF Has, umasks
  <2>4. GroupOK(entry, A, g) <=> \E n \in own : ~ Wanted(entry, A, n) \/ g > LimitOf(entry, A, Looked) \/ Has(n, "DFL")
    BY <1>5, <1>7, <2>1 DEF GroupOK, Has, umasks
  <2>5. g > LimitOf(entry, A, Looked) <=> ~ (g <= LimitOf(entry, A, Looked))
    BY <1>1, <1>4, <1>5, <1>7
  <2>6. (\A n \in own : n \notin dfl /\ ~ Skipped(n)) <=> ~ \E n \in own : Skipped(n) \/ Has(n, "DFL")
    OBVIOUS
  <2> HIDE DEF own
  <2>7. (\E n \in own : Skipped(n) \/ Has(n, "DFL")) <=> GroupOK(entry, A, g)
    BY <1>6, <1>7, <2>4, <2>5
  <2>8. QED
    BY <2>2, <2>3, <2>6, <2>7
<1>8. ASSUME Distinct(attrs)
      PROVE  /\ AddedOf(entry, A, Looked \cup {g}) = AddedOf(entry, A, Looked) \cup dfl
             /\ LimitOf(entry, A, Looked \cup {g}) = IF exclusive THEN g ELSE LimitOf(entry, A, Looked)
             /\ exclusive => l.limit = MaxGrpid
  <2>1. WellFormed(entry)
    BY TableAssumption DEF Typed, entry
  <2>2. \A n \in DOMAIN entry.umasks : entry.umasks[n].grpid \in Nat
    BY <1>4 DEF Group, umasks
  <2>3. NamesOf(A) \subseteq DOMAIN entry.umasks /\ MaxOf(entry, A) \in Nat
    BY <1>4, <1>5, <1>8 DEF Read, umasks
  <2>4. g \in Nat /\ Looked \subseteq Nat /\ (\A h \in Looked : h < g)
        /\ \A n \in NamesOf(A) : entry.umasks[n].grpid # g
    BY <1>1, <1>4, <1>5, <1>8
  <2>5. PICK en, S, G : en = entry /\ S = A /\ G = Looked
    OBVIOUS
  <2> HIDE DEF A, dfl, exclusive, own
  <2>6. LET d == {n \in DOMAIN en.umasks :
                          /\ en.umasks[n].grpid = g /\ g <= LimitOf(en, S, G)
                          /\ Wanted(en, S, n) /\ "DFL" \in en.umasks[n].uflags}
            x == \E n \in d : "EXCL_GRP_GT" \in en.umasks[n].uflags
        IN  /\ AddedOf(en, S, G \cup {g}) = AddedOf(en, S, G) \cup d
            /\ LimitOf(en, S, G \cup {g}) = IF x THEN g ELSE LimitOf(en, S, G)
            /\ x => LimitOf(en, S, G) = MaxGrpid
    <3>1. WellFormed(en) /\ (\A n \in DOMAIN en.umasks : en.umasks[n].grpid \in Nat)
          /\ NamesOf(S) \subseteq DOMAIN en.umasks /\ MaxOf(en, S) \in Nat
          /\ g \in Nat /\ G \subseteq Nat /\ (\A h \in G : h < g)
          /\ \A n \in NamesOf(S) : en.umasks[n].grpid # g
      BY <2>1, <2>2, <2>3, <2>4, <2>5
    <3>2. QED
      BY <3>1, AddedAdd
  <2>7. QED
    BY <1>5, <1>7, <1>8, <2>5, <2>6
<1> HIDE DEF mine
<1>9. CASE bad
  <2>1. phase' = "idle" /\ res' = Failure("UMASK")
    BY <1>9 DEF AddDefault, Return
  <2>2. res'.err # Success
    BY <2>1, FailureNotDone DEF Success
  <2>3. Distinct(attrs) => ~ GroupOK(entry, A, g) /\ g \in Uncovered(entry, A)
    BY <1>1, <1>5, <1>7, <1>8, <1>9
  <2>4. Distinct(attrs) => ~ Accepted(entry, plm, A)
    BY <2>3 DEF Accepted
  <2>5. Distinct(attrs) => Function(res)'
    BY <1>1, <1>2, <2>2, <2>4 DEF Function
  <2>6. QED
    BY <1>1, <1>3, <2>1, <2>5 DEF InLoop, InDefaults, AtEnd
<1>10. CASE ~ bad
  <2>1. /\ phase' = "defaults"
        /\ l'.named = l.named /\ l'.added = l.added \cup dfl /\ l'.mods = l.mods /\ l'.raw = l.raw
        /\ l'.max_grpid = l.max_grpid /\ l'.limit = (IF exclusive THEN g ELSE l.limit)
        /\ l'.but_0 = l.but_0 /\ l'.missing = l.missing \ {g}
        /\ l'.umask = l.umask \cup code /\ l'.reg = l.reg
        /\ l'.ldlat = l.ldlat /\ l'.fe_thr = l.fe_thr
    <3>1. DOMAIN l = Fields
      BY DEF IInv, Shape
    <3>2. QED
      BY <1>1, <1>10, <3>1 DEF AddDefault, Continue, Fields
  <2>2. ASSUME Distinct(attrs)
        PROVE  /\ LoopOK(entry, A) /\ ~ ConflictOf(entry, A) /\ Read(entry, l', A)
               /\ l'.reg = RegOf(entry, A) \cup PlmOf(entry, plm, A)
               /\ l'.missing \subseteq Uncovered(entry, A)
               /\ Looked' = Looked \cup {g}
               /\ \A h \in Looked' : GroupOK(entry, A, h) /\ \A i \in l'.missing : h < i
               /\ l'.added = AddedOf(entry, A, Looked') /\ l'.limit = LimitOf(entry, A, Looked')
               /\ l'.umask = FinalUmask(entry, A, Looked')
    <3>1. Read(entry, l', A)
      BY <1>5, <2>1, <2>2 DEF Read
    <3>2. Looked' = Looked \cup {g}
      <4>1. Looked' = Uncovered(entry, A) \ l'.missing
        BY <1>2 DEF Looked
      <4>2. g \in Uncovered(entry, A)
        BY <1>1, <1>5, <2>2
      <4>3. QED
        BY <1>1, <2>1, <4>1, <4>2 DEF Looked
    <3>3. GroupOK(entry, A, g)
      BY <1>7, <1>10, <2>2
    <3>4. \A i \in l'.missing : g < i
      BY <1>1, <1>4, <2>1
    <3>5. \A h \in Looked' : GroupOK(entry, A, h) /\ \A i \in l'.missing : h < i
      BY <1>5, <2>1, <2>2, <3>2, <3>3, <3>4
    <3>6. l'.added = AddedOf(entry, A, Looked') /\ l'.limit = LimitOf(entry, A, Looked')
      BY <1>5, <1>8, <2>1, <2>2, <3>2
    <3>7. l'.umask = FinalUmask(entry, A, Looked')
      <4>1. \A M, b : b \in Ucodes(entry, M) <=> b \notin EventSelect /\ \E m \in M : b \in entry.umasks[m].ucode
        BY DEF Ucodes
      <4>2. code = Ucodes(entry, dfl)
        BY DEF Ucodes, umasks
      <4>3. PICK M, N : M = AddedOf(entry, A, Looked) /\ N = AddedOf(entry, A, Looked')
        OBVIOUS
      <4>4. N = M \cup dfl
        BY <1>8, <2>2, <3>2, <4>3
      <4> HIDE DEF code, dfl, A
      <4>5. \A b : b \in Ucodes(entry, N) <=> b \in Ucodes(entry, M) \cup Ucodes(entry, dfl)
        BY <4>1, <4>4
      <4>6. Ucodes(entry, N) = Ucodes(entry, M) \cup code
        BY <4>2, <4>5
      <4>7. l.umask = UmaskOf(entry, A) \cup Ucodes(entry, M)
        BY <1>5, <2>2, <4>3 DEF FinalUmask
      <4>8. QED
        BY <2>1, <4>3, <4>6, <4>7 DEF FinalUmask
    <3>8. QED
      BY <1>5, <2>1, <2>2, <3>1, <3>2, <3>5, <3>6, <3>7
  <2>3. InDefaults'
    BY <1>1, <1>2, <2>2 DEF InDefaults
  <2>4. QED
    BY <1>3, <2>1, <2>3 DEF InLoop, AtEnd
<1>11. QED
  BY <1>9, <1>10

(***************************************************************************)
(* The result                                                              *)
(***************************************************************************)

\* What the rest of the function returns depends on the local variables that
\* are listed, and on the event.
LEMMA EncodeIs ==
    ASSUME Encode
    PROVE  res' = OutcomeOf(entry, l.reg, l.umask, l.named, l.added, l.raw, l.mods, l.max_grpid, l.but_0,
                            l.ldlat, l.fe_thr)
<1>1. FeThrUmask <=> FeUmaskOf(entry, l.named)
  BY DEF FeThrUmask, FeUmaskOf, Has, umasks
<1>2. FeThrGiven <=> FeGivenOf(entry, l.named, l.mods)
  BY DEF FeThrGiven, FeGivenOf, modhw, ModhwOf, umasks
<1>3. Wired = WiredOf(l.umask)
  BY DEF Wired, WiredOf
<1>4. FeThr = FeThrOf(entry, l.umask, l.named, l.mods, l.fe_thr)
  BY <1>1, <1>2, <1>3 DEF FeThr, FeThrOf
<1>5. UmaskCode = UmaskCodeOf(entry, l.umask, l.named, l.mods, l.fe_thr)
  BY <1>1, <1>4 DEF UmaskCode, UmaskCodeOf
<1>6. LdlatUmask <=> LdUmaskOf(entry, l.named)
  BY DEF LdlatUmask, LdUmaskOf, Has, umasks
<1>7. Ldlat = LdlatOf(entry, l.named, l.ldlat)
  BY <1>6 DEF Ldlat, LdlatOf
<1>8. Extra <=> ExtraOf(entry)
  BY DEF Extra, ExtraOf
<1> DEFINE register == RegisterOf(entry, l.reg, l.umask, l.named, l.mods, l.fe_thr)
<1>9. Register = register
  BY <1>5, <1>8 DEF Register, RegisterOf
<1>10. Codes = CodesOf(entry, l.reg, l.umask, l.named, l.mods, l.fe_thr, l.ldlat)
  BY <1>5, <1>6, <1>7, <1>8, <1>9 DEF Codes, CodesOf
<1> HIDE DEF register
<1>11. \A m : Printed(m) = PrintedOf(m, register, Ldlat, FeThr)
  BY <1>9 DEF Printed, PrintedOf
<1>12. FstrMods = [x \in 1 .. Len(entry.mods) |-> Attr("mod", entry.mods[x], PrintedOf(entry.mods[x], register, Ldlat, FeThr))]
  BY <1>11 DEF FstrMods
<1>13. FstrUmasks \o FstrMods = FstrOf(entry, l.named \cup l.added, l.raw, register, Ldlat, FeThr)
  BY <1>12 DEF FstrUmasks, PrintedRaw, FstrOf
<1>14. Excluded <=> ExcludedOf(entry, l.named, l.added, l.max_grpid, l.but_0)
  BY DEF Excluded, ExcludedOf, Group, umasks
<1>15. QED
  BY <1>1, <1>2, <1>3, <1>4, <1>6, <1>7, <1>9, <1>10, <1>13, <1>14 DEF Encode, OutcomeOf, register

LEMMA EncodeFun ==
    ASSUME Typed, FunInv, Encode
    PROVE  InLoop' /\ InDefaults' /\ AtEnd' /\ Compared' /\ Named'
<1>1. /\ phase = "defaults" /\ phase' = "idle" /\ l.missing = {}
      /\ UNCHANGED <<call, event, plm, attrs, k, l, first>>
  BY DEF Encode
<1>2. entry' = entry /\ All' = All
  BY <1>1 DEF entry, All
<1>3. Compared' /\ Named'
  BY <1>1, <1>2 DEF FunInv, Compared, Named, Function
<1>4. ASSUME Distinct(attrs) PROVE Function(res)'
  <2>1. Looked = Uncovered(entry, All)
    BY <1>1 DEF Looked
  <2>2. /\ LoopOK(entry, All) /\ ~ ConflictOf(entry, All) /\ Read(entry, l, All)
        /\ l.reg = RegOf(entry, All) \cup PlmOf(entry, plm, All)
        /\ \A g \in Uncovered(entry, All) : GroupOK(entry, All, g)
        /\ l.added = AddedOf(entry, All, Uncovered(entry, All))
        /\ l.umask = FinalUmask(entry, All, Uncovered(entry, All))
    BY <1>1, <1>4, <2>1 DEF FunInv, InDefaults
  <2>3. res' = ResultOf(entry, plm, All)
    BY <2>2, EncodeIs DEF Read, ResultOf
  <2>4. Accepted(entry, plm, All) <=> res'.err = Success
    BY <2>2, <2>3 DEF Accepted
  <2>5. QED
    BY <1>1, <1>2, <2>3, <2>4 DEF Function
<1>5. QED
  BY <1>1, <1>3, <1>4 DEF InLoop, InDefaults, AtEnd

(***************************************************************************)
(* The calls                                                               *)
(***************************************************************************)
LEMMA NothingRead ==
    ASSUME NEW ev
    PROVE  LET f == Locals(ev)
               en == Table[ev]
           IN  /\ LoopOK(en, {}) /\ Read(en, f, {}) /\ f.reg = RegOf(en, {}) /\ f.umask = UmaskOf(en, {})
               /\ f.code = Overrides(en, NamesOf({}))
<1> DEFINE en == Table[ev]
           f == Locals(ev)
<1>1. \A t : OfType({}, t) = {}
  BY DEF OfType
<1>2. NamesOf({}) = {} /\ ModsOf({}) = {}
  BY <1>1 DEF NamesOf, ModsOf
<1>3. RawOf({}) = <<>> /\ RawBits({}) = {} /\ StoredBits({}) = {} /\ \A m : ValueOf({}, m) = {}
  <2>1. RawOf({}) = <<>>
    BY <1>1 DEF RawOf, OneOf
  <2>2. RawBits({}) = {} /\ StoredBits({}) = {}
    BY <1>1 DEF RawBits, StoredBits
  <2>3. \A m : ValueOf({}, m) = {}
    BY <1>1 DEF ValueOf, Given
  <2>4. QED
    BY <2>1, <2>2, <2>3
<1>4. Written({}) = {}
  BY <1>2 DEF Written
<1>5. \A x : With(en, {}, x) = {}
  BY DEF With
<1>6. Overrides(en, {}) = {} /\ Ucodes(en, {}) = {}
  BY <1>5 DEF Overrides, Ucodes
<1>7. LoopOK(en, {})
  BY <1>1, <1>2, <1>5 DEF LoopOK
<1>8. MaxOf(en, {}) = MaxGrpid /\ But0Of(en, {}) = -1
  BY <1>2, <1>5 DEF MaxOf, But0Of, GroupWith
<1>9. /\ f.reg = en.code /\ f.umask = {} /\ f.named = {} /\ f.raw = <<>> /\ f.mods = {} /\ f.code = {}
      /\ f.max_grpid = MaxGrpid /\ f.but_0 = -1 /\ f.ldlat = {} /\ f.fe_thr = {}
  BY DEF Locals
<1> HIDE DEF en, f
<1>10. RegOf(en, {}) = en.code
  BY <1>2, <1>3, <1>4, <1>6 DEF RegOf, CodeOf
<1>11. UmaskOf(en, {}) = {}
  BY <1>2, <1>3, <1>6 DEF UmaskOf
<1>12. Read(en, f, {})
  BY <1>2, <1>3, <1>8, <1>9 DEF Read
<1>13. QED
  BY <1>2, <1>6, <1>7, <1>9, <1>10, <1>11, <1>12 DEF en, f

LEMMA StartFun ==
    ASSUME NEW why, NEW ev, NEW a, a \in Seq(Attributes'), NEW before, Start(why, ev, a, before),
           why = "first" => a = <<>>
    PROVE  InLoop' /\ InDefaults' /\ AtEnd'
<1>1. /\ call' = why /\ event' = ev /\ attrs' = a /\ phase' = "attrs" /\ k' = 1 /\ l' = Locals(ev)
  BY DEF Start
<1>2. Past' = {} /\ entry' = Table[ev]
  BY <1>1 DEF Past, entry
<1>3. Len(a) \in Nat /\ (why = "first" => Len(a) = 0)
  OBVIOUS
<1>4. /\ LoopOK(entry', Past') /\ Read(entry', l', Past') /\ l'.reg = RegOf(entry', Past')
      /\ l'.umask = UmaskOf(entry', Past') /\ l'.code = Overrides(entry', NamesOf(Past'))
  BY <1>1, <1>2, NothingRead
<1>5. InLoop'
  BY <1>1, <1>3, <1>4 DEF InLoop
<1>6. QED
  BY <1>1, <1>5 DEF InDefaults, AtEnd

LEMMA RequestFun ==
    ASSUME Request
    PROVE  FunInv'
<1>1. PICK ev \in Events : Start("first", ev, <<>>, NoResult)
  BY DEF Request
<1>2. PICK a, b : a = <<>> /\ b = NoResult
  OBVIOUS
<1>3. Start("first", ev, a, b) /\ a \in Seq(Attributes')
  BY <1>1, <1>2
<1>4. InLoop' /\ InDefaults' /\ AtEnd'
  BY <1>2, <1>3, StartFun
<1>5. call' = "first" /\ attrs' = <<>>
  BY <1>1 DEF Start
<1>6. QED
  BY <1>4, <1>5 DEF FunInv, Compared, Named, Distinct

LEMMA AgainFun ==
    ASSUME Typed, Again
    PROVE  FunInv'
<1>1. Start("again", event, res.fstr, res) /\ event' = event
  BY DEF Again, Start
<1>2. res.fstr \in Seq(Attributes')
  BY <1>1 DEF Typed, OutcomeOK, Attributes, umasks, entry
<1>3. PICK ev, a, b : ev = event /\ a = res.fstr /\ b = res
  OBVIOUS
<1>4. Start("again", ev, a, b) /\ a \in Seq(Attributes')
  BY <1>1, <1>2, <1>3
<1>5. InLoop' /\ InDefaults' /\ AtEnd'
  BY <1>4, StartFun
<1>6. call' = "again"
  BY <1>1 DEF Start
<1>7. QED
  BY <1>5, <1>6 DEF FunInv, Compared, Named

\* The attributes in another order are the same set, of different names.
LEMMA ReorderFun ==
    ASSUME Typed, FunInv, Reorder
    PROVE  FunInv'
<1>1. PICK p \in [1 .. Len(attrs) -> 1 .. Len(attrs)] :
         /\ \A x, y \in 1 .. Len(attrs) : p[x] = p[y] => x = y
         /\ Start("reorder", event, [x \in 1 .. Len(attrs) |-> attrs[p[x]]], res)
  BY DEF Reorder
<1> DEFINE s == [x \in 1 .. Len(attrs) |-> attrs[p[x]]]
<1>2. phase = "idle" /\ call = "first" /\ attrs \in Seq(Attributes) /\ Len(attrs) \in Nat
  BY DEF Reorder, Typed
<1>3. /\ s \in Seq(Attributes) /\ Len(s) = Len(attrs)
      /\ \A x \in 1 .. Len(attrs) : s[x] = attrs[p[x]]
  BY <1>2
<1>4. /\ event' = event /\ plm' = plm /\ call' = "reorder" /\ first' = res /\ attrs' = s
  BY <1>1 DEF Start, Reorder
<1>5. entry' = entry /\ Attributes' = Attributes
  BY <1>4 DEF entry, Attributes, umasks
<1>6. \A y \in 1 .. Len(attrs) : \E x \in 1 .. Len(attrs) : p[x] = y
  <2> DEFINE S == 1 .. Len(attrs)
  <2>1. IsFiniteSet(S)
    BY <1>2, FS_Interval
  <2>2. p \in Injection(S, S)
    BY <1>1 DEF Injection, IsInjective
  <2> HIDE DEF S
  <2>3. p \in Surjection(S, S)
    BY <2>1, <2>2, FS_Injection
  <2>4. QED
    BY <2>3 DEF Surjection, S
<1>7. All' = All
  <2>1. All' = {s[x] : x \in 1 .. Len(s)}
    BY <1>4 DEF All
  <2> HIDE DEF s
  <2>2. All' = {attrs[p[x]] : x \in 1 .. Len(attrs)}
    BY <1>3, <2>1
  <2> DEFINE S == 1 .. Len(attrs)
  <2>3. All = {attrs[y] : y \in S}
    BY DEF All
  <2>4. /\ \A x \in S : p[x] \in S
        /\ \A y \in S : \E x \in S : p[x] = y
    BY <1>1, <1>6
  <2> HIDE DEF S
  <2>5. {attrs[p[x]] : x \in S} = {attrs[y] : y \in S}
    BY <2>4
  <2>6. QED
    BY <2>2, <2>3, <2>5 DEF S
<1>8. Distinct(attrs)
  BY <1>2 DEF FunInv, Named
<1> HIDE DEF s
<1>9. Distinct(s)
  BY <1>1, <1>3, <1>8 DEF Distinct
<1>10. Function(res)
  BY <1>2, <1>8 DEF FunInv, AtEnd
<1>11. Function(first)'
  BY <1>4, <1>5, <1>7, <1>10 DEF Function
<1>12. Compared' /\ Named'
  BY <1>4, <1>9, <1>11 DEF Compared, Named
<1>13. PICK ev, a, b : ev = event /\ a = s /\ b = res
  OBVIOUS
<1>14. Start("reorder", ev, a, b) /\ a \in Seq(Attributes')
  BY <1>1, <1>3, <1>5, <1>13 DEF s
<1>15. InLoop' /\ InDefaults' /\ AtEnd'
  BY <1>14, StartFun
<1>16. QED
  BY <1>12, <1>15 DEF FunInv

LEMMA InitFun ==
    ASSUME Init
    PROVE  FunInv
BY DEF Init, FunInv, InLoop, InDefaults, AtEnd, Compared, Named

LEMMA NextFun ==
    ASSUME IInv, Typed, Wiring, FunInv, [Next]_vars
    PROVE  FunInv'
<1>1. CASE Request
  BY <1>1, RequestFun
<1>2. CASE Again
  BY <1>2, AgainFun
<1>3. CASE Reorder
  BY <1>3, ReorderFun
<1>4. ASSUME NEW a \in Readable, TakeUmask(a) \/ TakeRaw(a) \/ TakeModifier(a) PROVE FunInv'
  <2>1. phase = "attrs" /\ Reads(a)
    BY <1>4 DEF TakeUmask, TakeRaw, TakeModifier, Reads
  <2>2. Compared' /\ Named'
    BY <2>1, ReadsNamed
  <2>3. QED
    BY <1>4, <2>2, TakeUmaskFun, TakeRawFun, TakeModifierFun DEF FunInv
<1>5. CASE EndAttrs
  BY <1>5, EndAttrsFun DEF FunInv
<1>6. ASSUME NEW g \in l.missing, AddDefault(g) PROVE FunInv'
  BY <1>6, AddDefaultFun DEF FunInv
<1>7. CASE Encode
  BY <1>7, EncodeFun DEF FunInv
<1>8. CASE UNCHANGED vars
  BY <1>8 DEF vars, FunInv, InLoop, InDefaults, AtEnd, Compared, Named, Function, Looked, Past, All, entry
<1>9. QED
  BY <1>1, <1>2, <1>3, <1>4, <1>5, <1>6, <1>7, <1>8 DEF Next

LEMMA FunInvariant == Spec => []FunInv
<1>1. IInv /\ Typed /\ Wiring /\ FunInv /\ [Next]_vars => FunInv'
  BY NextFun
<1>2. QED
  BY <1>1, InitFun, Invariant, TypedInvariant, WiringInvariant, PTL DEF Spec

\* The order in which the attributes of an event are given changes neither
\* whether pfm_intel_x86_encode_gen accepts them nor what it returns.
THEOREM OrderDoesNotMatter == Spec => []OrderIrrelevant
<1>1. FunInv => OrderIrrelevant
  <2> SUFFICES ASSUME FunInv, phase = "idle", call = "reorder"
               PROVE  (res.err = Success) = (first.err = Success) /\ (res.err = Success => res = first)
    BY DEF OrderIrrelevant
  <2>1. Distinct(attrs)
    BY DEF FunInv, Named
  <2>2. Function(res) /\ Function(first)
    BY <2>1 DEF FunInv, AtEnd, Compared
  <2>3. QED
    BY <2>2 DEF Function, Accepted
<1>2. QED
  BY <1>1, FunInvariant, PTL

(***************************************************************************)
(* The string of an encoding                                               *)
(***************************************************************************)
ModifiersOf(en) == {en.mods[x] : x \in 1 .. Len(en.mods)}

\* The attributes that a request may have.
Legal(en, A) ==
    /\ \A a \in A : \/ a.type = "umask" /\ a.name \in DOMAIN en.umasks
                    \/ a.type = "raw"
                    \/ a.type = "mod" /\ a.name \in ModifiersOf(en)
    /\ Apart(A) /\ \A a, b \in OfType(A, "raw") : a = b

\* The parts of what a call returns.
UsedOf(en, A) == NamesOf(A) \cup AddedOf(en, A, Uncovered(en, A))
FinalOf(en, A) == FinalUmask(en, A, Uncovered(en, A))
FullReg(en, p, A) == RegOf(en, A) \cup PlmOf(en, p, A)
FeOf(en, A) == FeThrOf(en, FinalOf(en, A), NamesOf(A), ModsOf(A), ValueOf(A, "fe_thres"))
LdOf(en, A) == LdlatOf(en, NamesOf(A), ValueOf(A, "ldlat"))
UmOf(en, A) == UmaskCodeOf(en, FinalOf(en, A), NamesOf(A), ModsOf(A), ValueOf(A, "fe_thres"))
WholeReg(en, p, A) ==
    RegisterOf(en, FullReg(en, p, A), FinalOf(en, A), NamesOf(A), ModsOf(A), ValueOf(A, "fe_thres"))

\* The attributes in the string.
Cut(raw) == {Attr("raw", "0x", raw[x].ival \cap 0 .. 31) : x \in 1 .. Len(raw)}
Printing(en, used, raw, register, ld, fe) ==
    {Attr("umask", n, {}) : n \in used}
    \cup Cut(raw)
    \cup {Attr("mod", m, PrintedOf(m, register, ld, fe)) : m \in ModifiersOf(en)}
StringOf(en, p, A) ==
    Printing(en, UsedOf(en, A), RawOf(A), WholeReg(en, p, A), LdOf(en, A), FeOf(en, A))

LEMMA AcceptedIs ==
    ASSUME NEW en, NEW p, NEW A, Accepted(en, p, A)
    PROVE  /\ ResultOf(en, p, A) =
                [err |-> Success,
                 codes |-> IF LdUmaskOf(en, NamesOf(A)) THEN <<WholeReg(en, p, A), LdOf(en, A)>>
                           ELSE IF ExtraOf(en) THEN <<WholeReg(en, p, A), UmOf(en, A)>>
                           ELSE <<WholeReg(en, p, A)>>,
                 fstr |-> FstrOf(en, UsedOf(en, A), RawOf(A), WholeReg(en, p, A), LdOf(en, A), FeOf(en, A)),
                 used |-> UsedOf(en, A)]
           /\ ~ (/\ FeUmaskOf(en, NamesOf(A)) /\ WiredOf(FinalOf(en, A)) # {}
                 /\ FeGivenOf(en, NamesOf(A), ModsOf(A)) /\ ValueOf(A, "fe_thres") # WiredOf(FinalOf(en, A)))
           /\ ValueOf(A, "ldlat") # {} => LdUmaskOf(en, NamesOf(A))
<1>1. ResultOf(en, p, A).err = Success
  BY DEF Accepted
<1>2. \A err : Failure(err).err = err
  BY DEF Failure
<1>3. ~ ExcludedOf(en, NamesOf(A), AddedOf(en, A, Uncovered(en, A)), MaxOf(en, A), But0Of(en, A))
  BY <1>1, <1>2 DEF ResultOf, OutcomeOf, Success
<1>4. ~ (/\ FeUmaskOf(en, NamesOf(A)) /\ WiredOf(FinalOf(en, A)) # {}
         /\ FeGivenOf(en, NamesOf(A), ModsOf(A)) /\ ValueOf(A, "fe_thres") # WiredOf(FinalOf(en, A)))
  BY <1>1, <1>2, <1>3 DEF ResultOf, OutcomeOf, Success, FinalOf
<1>5. ~ (ValueOf(A, "ldlat") # {} /\ ~ LdUmaskOf(en, NamesOf(A)))
  BY <1>1, <1>2, <1>3, <1>4 DEF ResultOf, OutcomeOf, Success, FinalOf
<1>6. ~ ("EDGE_CMASK" \in en.flags /\ Field.e \subseteq WholeReg(en, p, A) /\ Field.c \cap WholeReg(en, p, A) = {})
  BY <1>1, <1>2, <1>3, <1>4, <1>5 DEF ResultOf, OutcomeOf, Success, FinalOf, WholeReg, FullReg
<1>7. QED
  BY <1>3, <1>4, <1>5, <1>6 DEF ResultOf, OutcomeOf, FinalOf, WholeReg, FullReg, CodesOf, UsedOf, LdOf, FeOf, UmOf

(***************************************************************************)
(* What is read from the string                                            *)
(***************************************************************************)
LEMMA PrintingNames ==
    ASSUME NEW en, NEW used, NEW raw, NEW register, NEW ld, NEW fe, NEW B,
           B = Printing(en, used, raw, register, ld, fe)
    PROVE  /\ OfType(B, "umask") = {Attr("umask", n, {}) : n \in used}
           /\ OfType(B, "raw") = Cut(raw)
           /\ OfType(B, "mod") = {Attr("mod", m, PrintedOf(m, register, ld, fe)) : m \in ModifiersOf(en)}
           /\ NamesOf(B) = used /\ ModsOf(B) = ModifiersOf(en) \ {"ldlat"}
           /\ \A m : ValueOf(B, m) = IF m \in ModifiersOf(en) THEN PrintedOf(m, register, ld, fe) ELSE {}
<1> DEFINE Mod(m) == Attr("mod", m, PrintedOf(m, register, ld, fe))
<1>1. \A t, n, v : Attr(t, n, v).type = t /\ Attr(t, n, v).name = n /\ Attr(t, n, v).ival = v
  BY DEF Attr
<1> DEFINE US == {Attr("umask", n, {}) : n \in used}
           RS == {Attr("raw", "0x", raw[x].ival \cap 0 .. 31) : x \in 1 .. Len(raw)}
           MS == {Mod(m) : m \in ModifiersOf(en)}
<1>11. B = US \cup RS \cup MS
  BY DEF Printing, Cut
<1>12. (\A a \in US : a.type = "umask") /\ (\A a \in RS : a.type = "raw") /\ (\A a \in MS : a.type = "mod")
  <2>1. \A a \in US : a.type = "umask"
    BY <1>1
  <2>2. \A a \in RS : a.type = "raw"
    <3>1. SUFFICES ASSUME NEW a \in RS PROVE a.type = "raw"
      OBVIOUS
    <3>2. \E x \in 1 .. Len(raw) : a = Attr("raw", "0x", raw[x].ival \cap 0 .. 31)
      BY <3>1
    <3>3. QED
      BY <1>1, <3>2
  <2>3. \A m : Mod(m).type = "mod"
    BY <1>1
  <2> HIDE DEF Mod
  <2>4. \A a \in MS : a.type = "mod"
    BY <2>3
  <2>5. QED
    BY <2>1, <2>2, <2>4
<1> HIDE DEF US, RS, MS
<1>13. OfType(B, "umask") = US /\ OfType(B, "raw") = RS /\ OfType(B, "mod") = MS
  BY <1>11, <1>12 DEF OfType
<1>2. OfType(B, "umask") = {Attr("umask", n, {}) : n \in used}
  BY <1>13 DEF US
<1>3. OfType(B, "raw") = Cut(raw)
  BY <1>13 DEF RS, Cut
<1>4. OfType(B, "mod") = {Mod(m) : m \in ModifiersOf(en)}
  BY <1>13 DEF MS
<1>5. NamesOf(B) = used
  BY <1>1, <1>2 DEF NamesOf
<1>6. /\ \A m : Mod(m).name = m /\ Mod(m).ival = PrintedOf(m, register, ld, fe)
      /\ ModsOf(B) = {a.name : a \in {Mod(m) : m \in ModifiersOf(en)}} \ {"ldlat"}
  BY <1>1, <1>4 DEF ModsOf
<1>7. \A m : Given(B, m) = IF m \in ModifiersOf(en) THEN {Mod(m)} ELSE {}
  <2> HIDE DEF Mod
  <2>1. QED
    BY <1>4, <1>6 DEF Given
<1> HIDE DEF Mod
<1>8. ModsOf(B) = ModifiersOf(en) \ {"ldlat"}
  BY <1>6
<1>9. \A m : ValueOf(B, m) = IF m \in ModifiersOf(en) THEN PrintedOf(m, register, ld, fe) ELSE {}
  BY <1>6, <1>7 DEF ValueOf
<1>10. QED
  BY <1>2, <1>3, <1>4, <1>5, <1>8, <1>9 DEF Mod

\* The raw unit mask that is read from the string.
LEMMA PrintingRaw ==
    ASSUME NEW en, NEW A, NEW B, \A a, b \in OfType(A, "raw") : a = b, LoopOK(en, A),
           OfType(B, "raw") = Cut(RawOf(A))
    PROVE  /\ RawOf(B) = [x \in 1 .. Len(RawOf(A)) |-> Attr("raw", "0x", RawOf(A)[x].ival \cap 0 .. 31)]
           /\ OfType(A, "raw") = {RawOf(A)[x] : x \in 1 .. Len(RawOf(A))}
           /\ (\A a \in OfType(A, "raw") : a.ival \subseteq 0 .. 31) => RawBits(B) = RawBits(A)
<1> DEFINE cut(a) == Attr("raw", "0x", a.ival \cap 0 .. 31)
<1>1. \A a : cut(a).ival = a.ival \cap 0 .. 31
  BY DEF Attr
<1>2. CASE OfType(A, "raw") = {}
  <2>1. RawOf(A) = <<>> /\ OfType(B, "raw") = {}
    BY <1>2 DEF RawOf, OneOf, Cut
  <2>2. RawOf(B) = <<>>
    BY <2>1 DEF RawOf, OneOf
  <2>3. QED
    BY <1>2, <2>1, <2>2 DEF RawBits
<1>3. CASE OfType(A, "raw") # {}
  <2>1. PICK a : a \in OfType(A, "raw")
    BY <1>3
  <2>2. OfType(A, "raw") = {a} /\ (CHOOSE b \in {a} : TRUE) = a
    BY <2>1
  <2>3. RawOf(A) = <<a>>
    BY <2>2 DEF RawOf, OneOf
  <2>4. OfType(B, "raw") = {cut(a)}
    BY <2>3 DEF Cut
  <2> HIDE DEF cut
  <2>5. (CHOOSE b \in {cut(a)} : TRUE) = cut(a)
    OBVIOUS
  <2>6. RawOf(B) = <<cut(a)>>
    BY <2>4, <2>5 DEF RawOf, OneOf
  <2>7. RawOf(B) = [x \in 1 .. Len(RawOf(A)) |-> cut(RawOf(A)[x])]
    BY <2>3, <2>6
  <2>8. RawBits(A) = {b + 8 : b \in a.ival} /\ RawBits(B) = {b + 8 : b \in cut(a).ival}
    BY <2>2, <2>4 DEF RawBits
  <2>9. a.ival \subseteq 0 .. 31 => cut(a).ival = a.ival
    BY <1>1
  <2>10. OfType(A, "raw") = {RawOf(A)[x] : x \in 1 .. Len(RawOf(A))}
    BY <2>2, <2>3
  <2>11. (\A c \in OfType(A, "raw") : c.ival \subseteq 0 .. 31) => RawBits(B) = RawBits(A)
    BY <2>1, <2>8, <2>9
  <2>12. RawOf(B) = [x \in 1 .. Len(RawOf(A)) |-> Attr("raw", "0x", RawOf(A)[x].ival \cap 0 .. 31)]
    BY <2>7 DEF cut
  <2>13. QED
    BY <2>10, <2>11, <2>12
<1>4. QED
  BY <1>2, <1>3

LEMMA GroupsAreNat ==
    ASSUME NEW en, Entry(en)
    PROVE  \A n \in DOMAIN en.umasks : en.umasks[n].grpid \in Nat
<1>1. en.umasks \in [DOMAIN en.umasks -> Umask]
  BY DEF Entry
<1>2. \A n \in DOMAIN en.umasks : en.umasks[n] \in Umask
  BY <1>1
<1>3. \A u \in Umask : u.grpid \in Nat
  BY DEF Umask
<1>4. QED
  BY <1>2, <1>3

\* What groups exclude, for the unit masks of the request and the defaults.
LEMMA LimitIs ==
    ASSUME NEW en, Entry(en), WellFormed(en), NEW A, NamesOf(A) \subseteq DOMAIN en.umasks
    PROVE  LET U == Uncovered(en, A)
           IN  /\ LimitOf(en, A, U) = GroupWith(en, UsedOf(en, A), "EXCL_GRP_GT", MaxGrpid)
               /\ LimitOf(en, A, U) <= MaxOf(en, A)
               /\ But0Of(en, A) # -1 => GroupWith(en, UsedOf(en, A), "EXCL_GRP_BUT_0", -1) = But0Of(en, A)
               /\ LimitOf(en, A, U) \in Nat /\ MaxOf(en, A) \in Nat
<1> DEFINE U == Uncovered(en, A)
           N == NamesOf(A)
           M == UsedOf(en, A)
           E == Eligible(en, A, U)
           GT == "EXCL_GRP_GT"
           grp(n) == en.umasks[n].grpid
<1>1. \A n \in DOMAIN en.umasks : grp(n) \in Nat
  BY GroupsAreNat
<1>2. N \subseteq M /\ M \subseteq DOMAIN en.umasks /\ E \subseteq DOMAIN en.umasks
  BY DEF UsedOf, AddedOf, Eligible
<1>3. \A n \in E : grp(n) \in U /\ grp(n) <= MaxOf(en, A)
  BY DEF Eligible
<1>4. \A m \in N : grp(m) \notin U
  BY DEF Uncovered
<1>5. \A n \in E : grp(n) <= LimitOf(en, A, U) => n \in M
  BY DEF UsedOf, AddedOf
<1>6. \A n \in M : n \in N \/ n \in E
  BY DEF UsedOf, AddedOf
<1>7. /\ MaxOf(en, A) = GroupWith(en, N, GT, MaxGrpid)
      /\ LimitOf(en, A, U) = GroupWith(en, E, GT, MaxOf(en, A))
      /\ But0Of(en, A) = GroupWith(en, N, "EXCL_GRP_BUT_0", -1)
  BY DEF MaxOf, LimitOf, But0Of
<1>8. \A f \in {GT, "EXCL_GRP_BUT_0"}, T \in SUBSET DOMAIN en.umasks : \A none :
         /\ With(en, T, f) = {} => GroupWith(en, T, f, none) = none
         /\ \A n \in With(en, T, f) : GroupWith(en, T, f, none) = grp(n)
  <2>1. SUFFICES ASSUME NEW f \in {GT, "EXCL_GRP_BUT_0"}, NEW T \in SUBSET DOMAIN en.umasks, NEW none,
                        NEW n \in With(en, T, f)
                 PROVE  GroupWith(en, T, f, none) = grp(n)
    BY DEF GroupWith
  <2>2. \A m \in With(en, T, f) : grp(m) = grp(n)
    BY OneGroup DEF With
  <2>3. QED
    BY <2>2, GroupWithIs
<1>9. \A f, T, n : n \in With(en, T, f) <=> n \in T /\ f \in en.umasks[n].uflags
  BY DEF With
<1> HIDE DEF U, N, M, E, grp
<1>10. /\ LimitOf(en, A, U) = GroupWith(en, M, GT, MaxGrpid) /\ LimitOf(en, A, U) <= MaxOf(en, A)
       /\ LimitOf(en, A, U) \in Nat /\ MaxOf(en, A) \in Nat
  <2>1. CASE \E m \in N : GT \in en.umasks[m].uflags
    <3>1. PICK m \in N : GT \in en.umasks[m].uflags
      BY <2>1
    <3>2. m \in With(en, N, GT) /\ m \in With(en, M, GT) /\ m \in DOMAIN en.umasks
      BY <1>2, <1>9, <3>1
    <3>3. MaxOf(en, A) = grp(m) /\ GroupWith(en, M, GT, MaxGrpid) = grp(m)
      BY <1>2, <1>7, <1>8, <3>2
    <3>4. \A n \in E : GT \notin en.umasks[n].uflags
      BY <1>2, <1>3, <1>4, <3>1, OneGroup DEF grp
    <3>5. With(en, E, GT) = {}
      BY <1>9, <3>4
    <3>6. LimitOf(en, A, U) = MaxOf(en, A)
      BY <1>2, <1>7, <1>8, <3>5
    <3>7. QED
      BY <1>1, <3>2, <3>3, <3>6
  <2>2. CASE ~ (\E m \in N : GT \in en.umasks[m].uflags)
    <3>1. With(en, N, GT) = {}
      BY <1>9, <2>2
    <3>2. MaxOf(en, A) = MaxGrpid /\ MaxGrpid \in Nat
      BY <1>2, <1>7, <1>8, <3>1 DEF MaxGrpid
    <3>3. CASE \E n \in E : GT \in en.umasks[n].uflags
      <4>1. PICK n \in E : GT \in en.umasks[n].uflags
        BY <3>3
      <4>2. LimitOf(en, A, U) = grp(n)
        BY <1>2, <1>7, <1>8, <1>9, <4>1
      <4>3. grp(n) \in Nat /\ n \in M
        BY <1>1, <1>2, <1>5, <4>1, <4>2
      <4>4. GroupWith(en, M, GT, MaxGrpid) = grp(n)
        BY <1>2, <1>8, <1>9, <4>1, <4>3
      <4>5. QED
        BY <1>3, <3>2, <4>2, <4>3, <4>4
    <3>4. CASE ~ (\E n \in E : GT \in en.umasks[n].uflags)
      <4>1. With(en, E, GT) = {} /\ With(en, M, GT) = {}
        BY <1>6, <1>9, <2>2, <3>4
      <4>2. QED
        BY <1>2, <1>7, <1>8, <3>2, <4>1
    <3>5. QED
      BY <3>3, <3>4
  <2>3. QED
    BY <2>1, <2>2
<1>11. But0Of(en, A) # -1 => GroupWith(en, M, "EXCL_GRP_BUT_0", -1) = But0Of(en, A)
  <2>1. SUFFICES ASSUME But0Of(en, A) # -1
                 PROVE  GroupWith(en, M, "EXCL_GRP_BUT_0", -1) = But0Of(en, A)
    OBVIOUS
  <2>2. PICK m : m \in With(en, N, "EXCL_GRP_BUT_0")
    BY <1>2, <1>7, <1>8, <2>1
  <2>3. m \in With(en, M, "EXCL_GRP_BUT_0")
    BY <1>2, <1>9, <2>2
  <2>4. QED
    BY <1>2, <1>7, <1>8, <2>2, <2>3
<1>12. QED
  BY <1>10, <1>11 DEF U, M

\* No default is added to the unit masks of the string.
LEMMA NoMoreDefaults ==
    ASSUME NEW en, Entry(en), WellFormed(en), NEW A, NEW B, NamesOf(A) \subseteq DOMAIN en.umasks,
           NamesOf(B) = UsedOf(en, A), RawOf(A) = <<>> <=> RawOf(B) = <<>>
    PROVE  AddedOf(en, B, Uncovered(en, B)) = {}
<1> SUFFICES ASSUME NEW n \in AddedOf(en, B, Uncovered(en, B)) PROVE FALSE
  OBVIOUS
<1> DEFINE U == Uncovered(en, A)
           g == en.umasks[n].grpid
<1>1. /\ n \in DOMAIN en.umasks /\ g \in Uncovered(en, B) /\ g <= MaxOf(en, B)
      /\ "DFL" \in en.umasks[n].uflags /\ Wanted(en, B, n)
  BY DEF AddedOf, Eligible
<1>2. g \in U
  BY <1>1 DEF Uncovered, UsedOf
<1>3. g <= LimitOf(en, A, U) /\ g <= MaxOf(en, A)
  <2>1. MaxOf(en, B) = LimitOf(en, A, U)
    BY LimitIs DEF MaxOf
  <2>2. g \in Nat
    BY <1>1, GroupsAreNat
  <2>3. LimitOf(en, A, U) <= MaxOf(en, A) /\ LimitOf(en, A, U) \in Nat /\ MaxOf(en, A) \in Nat
    BY LimitIs
  <2> HIDE DEF g, U
  <2>4. QED
    BY <1>1, <2>1, <2>2, <2>3 DEF g
<1>4. Wanted(en, A, n)
  BY <1>1, LimitIs DEF Wanted, But0Of
<1>5. n \in AddedOf(en, A, U)
  BY <1>1, <1>2, <1>3, <1>4 DEF AddedOf, Eligible
<1>6. g \notin Uncovered(en, B)
  BY <1>5 DEF Uncovered, UsedOf
<1>7. QED
  BY <1>1, <1>6

(***************************************************************************)
(* The registers                                                           *)
(***************************************************************************)
\* A modifier that is printed from the register and read again stores the bits
\* it had.
LEMMA StoredAgain ==
    ASSUME NEW register, NEW ld, NEW fe, NEW m \in DOMAIN Field
    PROVE  Stored(m, PrintedOf(m, register, ld, fe)) = register \cap Field[m]
<1>0. m \notin {"ldlat", "fe_thres"}
  BY DEF Field
<1>1. CASE m = "c"
  <2>1. Field[m] = 24 .. 31 /\ Field.c = 24 .. 31
    BY <1>1 DEF Field
  <2>2. PrintedOf(m, register, ld, fe) = {b - 24 : b \in register \cap 24 .. 31}
    BY <1>1, <2>1 DEF PrintedOf
  <2>3. Stored(m, PrintedOf(m, register, ld, fe)) = {b + 24 : b \in {c - 24 : c \in register \cap 24 .. 31}}
    BY <1>1, <2>2 DEF Stored
  <2>4. \A b \in 24 .. 31 : (b - 24) + 24 = b
    OBVIOUS
  <2>5. {b + 24 : b \in {c - 24 : c \in register \cap 24 .. 31}} = register \cap 24 .. 31
    BY <2>4
  <2>6. QED
    BY <2>1, <2>3, <2>5
<1>2. CASE m # "c"
  <2>1. PICK b : Field[m] = {b}
    BY <1>2 DEF Field
  <2>2. PrintedOf(m, register, ld, fe) = IF Field[m] \subseteq register THEN {0} ELSE {}
    BY <1>0, <1>2 DEF PrintedOf
  <2>3. QED
    BY <1>2, <2>1, <2>2 DEF Stored
<1>3. QED
  BY <1>1, <1>2

Entries == {Table[ev] : ev \in Events}

\* The register is the same when the modifiers of the event have the values
\* they have in it.
LEMMA SameRegister ==
    ASSUME NEW en \in Entries, NEW p, NEW A, NEW B, Legal(en, A), LoopOK(en, A),
           CodeOf(en, B) = CodeOf(en, A),
           ModsOf(B) = ModifiersOf(en) \ {"ldlat"}, UmOf(en, B) = UmOf(en, A),
           StoredBits(B) = WholeReg(en, p, A) \cap Written(B)
    PROVE  WholeReg(en, p, B) = WholeReg(en, p, A)
<1> DEFINE R == WholeReg(en, p, A)
           C == (en.code \cap UnitMask) \cup (IF ExtraOf(en) THEN {} ELSE UmOf(en, A)) \cup {EnBit, IntBit}
<1>1. /\ R = ((CodeOf(en, A) \ Written(A)) \cup StoredBits(A)) \cup PlmOf(en, p, A) \cup C
      /\ WholeReg(en, p, B) = ((CodeOf(en, A) \ Written(B)) \cup (R \cap Written(B))) \cup PlmOf(en, p, B) \cup C
  BY DEF WholeReg, RegisterOf, FullReg, RegOf, UmOf
<1>2. ModsOf(A) \subseteq ModsOf(B)
  BY DEF Legal, ModsOf, OfType
<1>3. Written(A) \subseteq Written(B)
  BY <1>2 DEF Written
<1>4. StoredBits(A) \subseteq Written(A)
  <2>1. \A a \in OfType(A, "mod") : a.name \in DOMAIN Field => Stored(a.name, a.ival) \subseteq Field[a.name]
    BY StoredInField DEF LoopOK
  <2>2. \A a \in OfType(A, "mod") : a.name \in DOMAIN Field => a.name \in ModsOf(A)
    BY DEF ModsOf, Field
  <2>3. QED
    BY <2>1, <2>2 DEF StoredBits, Written
<1>5. PlmOf(en, p, B) \subseteq PlmOf(en, p, A)
  BY <1>2 DEF PlmOf
<1>6. PlmOf(en, p, A) \subseteq PlmOf(en, p, B) \cup Written(B)
  <2>1. en.plm \subseteq ModifiersOf(en) \/ {"k", "u"} \cap ModifiersOf(en) = {}
    BY StringAssumption DEF ModifiersOf, Entries
  <2>2. en.plm \subseteq {"k", "u"}
    BY TableAssumption DEF Entry, Entries
  <2>3. {"k", "u"} \subseteq DOMAIN Field
    BY DEF Field
  <2>4. CASE {"k", "u"} \cap ModsOf(B) = {}
    BY <2>4 DEF PlmOf
  <2>5. CASE {"k", "u"} \cap ModsOf(B) # {}
    <3>1. en.plm \subseteq ModsOf(B)
      BY <2>1, <2>2, <2>5
    <3>2. \A m \in en.plm : m \in ModsOf(B) \cap DOMAIN Field
      BY <2>2, <2>3, <3>1
    <3>3. QED
      BY <3>2 DEF PlmOf, Written
  <2>6. QED
    BY <2>4, <2>5
<1> HIDE DEF R, C
<1>7. QED
  BY <1>1, <1>3, <1>4, <1>5, <1>6 DEF R

\* What is read from the string of a request A.
Reread(en, p, A, B) ==
    /\ Legal(en, A) /\ Accepted(en, p, A) /\ B = StringOf(en, p, A) /\ Accepted(en, p, B)
    /\ \A a \in OfType(A, "raw") : a.ival \subseteq 0 .. 31

LEMMA RereadFields ==
    ASSUME NEW en \in Entries, NEW p, NEW A, NEW B, Reread(en, p, A, B)
    PROVE  /\ NamesOf(A) \subseteq DOMAIN en.umasks /\ ModsOf(A) \subseteq ModifiersOf(en)
           /\ NamesOf(B) = UsedOf(en, A) /\ UsedOf(en, B) = UsedOf(en, A)
           /\ ModsOf(B) = ModifiersOf(en) \ {"ldlat"}
           /\ RawOf(B) = [x \in 1 .. Len(RawOf(A)) |-> Attr("raw", "0x", RawOf(A)[x].ival \cap 0 .. 31)]
           /\ FinalOf(en, B) = FinalOf(en, A)
           /\ \A m : ValueOf(B, m) = IF m \in ModifiersOf(en)
                                        THEN PrintedOf(m, WholeReg(en, p, A), LdOf(en, A), FeOf(en, A)) ELSE {}
<1> DEFINE D == AddedOf(en, A, Uncovered(en, A))
<1>1. Entry(en) /\ WellFormed(en)
  BY TableAssumption DEF Entries
<1>2. /\ Legal(en, A) /\ LoopOK(en, A) /\ B = StringOf(en, p, A)
      /\ \A a, b \in OfType(A, "raw") : a = b
      /\ \A a \in OfType(A, "raw") : a.ival \subseteq 0 .. 31
  BY DEF Reread, Accepted, Legal
<1>3. NamesOf(A) \subseteq DOMAIN en.umasks /\ ModsOf(A) \subseteq ModifiersOf(en)
  BY <1>2 DEF Legal, NamesOf, ModsOf, OfType
<1>4. /\ NamesOf(B) = UsedOf(en, A) /\ ModsOf(B) = ModifiersOf(en) \ {"ldlat"}
      /\ OfType(B, "raw") = Cut(RawOf(A))
      /\ \A m : ValueOf(B, m) = IF m \in ModifiersOf(en)
                               THEN PrintedOf(m, WholeReg(en, p, A), LdOf(en, A), FeOf(en, A)) ELSE {}
  <2>1. PICK used, raw, register, ld, fe :
           used = UsedOf(en, A) /\ raw = RawOf(A) /\ register = WholeReg(en, p, A) /\ ld = LdOf(en, A) /\ fe = FeOf(en, A)
    OBVIOUS
  <2>2. B = Printing(en, used, raw, register, ld, fe)
    BY <1>2, <2>1 DEF StringOf
  <2>3. NamesOf(B) = used /\ ModsOf(B) = ModifiersOf(en) \ {"ldlat"}
    BY <2>2, PrintingNames
  <2>5. OfType(B, "raw") = Cut(raw)
    BY <2>2, PrintingNames
  <2>6. \A m : ValueOf(B, m) = IF m \in ModifiersOf(en) THEN PrintedOf(m, register, ld, fe) ELSE {}
    BY <2>2, PrintingNames
  <2>4. QED
    BY <2>1, <2>3, <2>5, <2>6
<1>5. /\ RawOf(B) = [x \in 1 .. Len(RawOf(A)) |-> Attr("raw", "0x", RawOf(A)[x].ival \cap 0 .. 31)]
      /\ RawBits(B) = RawBits(A)
  BY <1>2, <1>4, PrintingRaw
<1>6. RawOf(A) = <<>> <=> RawOf(B) = <<>>
  <2>1. Len(RawOf(A)) \in Nat /\ (RawOf(A) = <<>> <=> Len(RawOf(A)) = 0)
    BY DEF RawOf, OneOf
  <2>2. Len(RawOf(B)) = Len(RawOf(A)) /\ (RawOf(B) = <<>> <=> Len(RawOf(B)) = 0)
    BY <1>5, <2>1
  <2>3. QED
    BY <2>1, <2>2
<1>7. AddedOf(en, B, Uncovered(en, B)) = {}
  BY <1>1, <1>3, <1>4, <1>6, NoMoreDefaults
<1>8. UsedOf(en, B) = UsedOf(en, A)
  BY <1>4, <1>7 DEF UsedOf
<1>9. FinalOf(en, B) = FinalOf(en, A)
  <2>1. Ucodes(en, {}) = {} /\ Ucodes(en, UsedOf(en, A)) = Ucodes(en, NamesOf(A)) \cup Ucodes(en, D)
    BY DEF Ucodes, UsedOf
  <2>2. FinalOf(en, B) = Ucodes(en, UsedOf(en, A)) \cup RawBits(A) \cup Ucodes(en, {})
    BY <1>4, <1>5, <1>7 DEF FinalOf, FinalUmask, UmaskOf
  <2>3. FinalOf(en, A) = Ucodes(en, NamesOf(A)) \cup RawBits(A) \cup Ucodes(en, D)
    BY DEF FinalOf, FinalUmask, UmaskOf
  <2>4. QED
    BY <2>1, <2>2, <2>3
<1>10. QED
  BY <1>3, <1>4, <1>5, <1>8, <1>9

\* The flags of the unit masks of the request decide: defaults have no say.
LEMMA RereadFlags ==
    ASSUME NEW en \in Entries, NEW p, NEW A, NEW B, Reread(en, p, A, B)
    PROVE  /\ CodeOf(en, B) = CodeOf(en, A)
           /\ FeUmaskOf(en, NamesOf(B)) = FeUmaskOf(en, NamesOf(A))
           /\ LdUmaskOf(en, NamesOf(B)) = LdUmaskOf(en, NamesOf(A))
           /\ LdOf(en, B) = LdOf(en, A)
<1> DEFINE N == NamesOf(A)
           D == AddedOf(en, A, Uncovered(en, A))
<1>1. N \subseteq DOMAIN en.umasks /\ NamesOf(B) = N \cup D /\ ModsOf(A) \subseteq ModifiersOf(en)
  BY RereadFields DEF UsedOf
<1>2. \A n \in D : n \in DOMAIN en.umasks /\ "DFL" \in en.umasks[n].uflags
  BY DEF AddedOf, Eligible
<1>3. \A n \in D : "CODE_OVERRIDE" \notin en.umasks[n].uflags /\ "FETHR" \notin en.umasks[n].uflags
  BY <1>2, StringAssumption DEF Entries
<1>4. \A n \in N \cup D : "LDLAT" \in en.umasks[n].uflags => "ldlat" \in ModifiersOf(en)
  BY <1>1, <1>2, StringAssumption DEF ModifiersOf, Entries
<1>5. ValueOf(B, "ldlat") = IF "ldlat" \in ModifiersOf(en) THEN LdOf(en, A) ELSE {}
  BY RereadFields DEF PrintedOf
<1>6. /\ ValueOf(A, "ldlat") # {} => LdUmaskOf(en, N)
      /\ LoopOK(en, B) /\ B = StringOf(en, p, A)
  BY AcceptedIs DEF Reread, Accepted
<1> HIDE DEF N, D
<1>7. Overrides(en, N \cup D) = Overrides(en, N)
  BY <1>3 DEF Overrides, With
<1>8. CodeOf(en, B) = CodeOf(en, A)
  BY <1>1, <1>7 DEF CodeOf, N
<1>9. FeUmaskOf(en, NamesOf(B)) = FeUmaskOf(en, N)
  BY <1>1, <1>3 DEF FeUmaskOf
<1>10. LdUmaskOf(en, N) => LdUmaskOf(en, NamesOf(B)) /\ "ldlat" \in ModifiersOf(en)
  BY <1>1, <1>4 DEF LdUmaskOf
<1>11. LdUmaskOf(en, NamesOf(B)) => "ldlat" \in ModifiersOf(en)
  BY <1>1, <1>4 DEF LdUmaskOf
<1>12. "ldlat" \in ModifiersOf(en) => LdOf(en, A) # {} /\ LdUmaskOf(en, N)
  <2>1. SUFFICES ASSUME "ldlat" \in ModifiersOf(en) PROVE LdOf(en, A) # {} /\ LdUmaskOf(en, N)
    OBVIOUS
  <2>2. PICK a : a = Attr("mod", "ldlat", LdOf(en, A))
    OBVIOUS
  <2>3. a \in OfType(B, "mod") /\ a.name = "ldlat" /\ a.ival = LdOf(en, A)
    <3>1. OfType(B, "mod") = {Attr("mod", m, PrintedOf(m, WholeReg(en, p, A), LdOf(en, A), FeOf(en, A))) : m \in ModifiersOf(en)}
      BY <1>6, PrintingNames DEF StringOf
    <3>2. PrintedOf("ldlat", WholeReg(en, p, A), LdOf(en, A), FeOf(en, A)) = LdOf(en, A)
      BY DEF PrintedOf
    <3>3. QED
      BY <2>1, <2>2, <3>1, <3>2 DEF Attr
  <2>4. ~ BadValue("ldlat", LdOf(en, A))
    BY <1>6, <2>3 DEF LoopOK
  <2>5. LdOf(en, A) # {}
    BY <2>4 DEF BadValue
  <2>6. QED
    BY <1>6, <2>5 DEF LdOf, LdlatOf, N
<1>13. LdUmaskOf(en, NamesOf(B)) = LdUmaskOf(en, N)
  BY <1>10, <1>11, <1>12 DEF LdUmaskOf
<1>14. LdOf(en, B) = LdOf(en, A)
  <2>1. CASE "ldlat" \in ModifiersOf(en)
    <3>1. ValueOf(B, "ldlat") = LdOf(en, A) /\ LdOf(en, A) # {}
      BY <1>5, <1>12, <2>1
    <3>2. LdOf(en, B) = ValueOf(B, "ldlat")
      BY <3>1 DEF LdOf, LdlatOf
    <3>3. QED
      BY <3>1, <3>2
  <2>2. CASE "ldlat" \notin ModifiersOf(en)
    <3>1. ValueOf(B, "ldlat") = {} /\ ~ LdUmaskOf(en, N) /\ ~ LdUmaskOf(en, NamesOf(B))
      BY <1>5, <1>10, <1>11, <2>2
    <3>2. ValueOf(A, "ldlat") = {}
      BY <1>6, <3>1
    <3>3. QED
      BY <3>1, <3>2 DEF LdOf, LdlatOf, N
  <2>3. QED
    BY <2>1, <2>2
<1>15. QED
  BY <1>8, <1>9, <1>13, <1>14 DEF N

\* The frontend threshold and the unit mask are the same.
LEMMA RereadThreshold ==
    ASSUME NEW en \in Entries, NEW p, NEW A, NEW B, Reread(en, p, A, B)
    PROVE  FeOf(en, B) = FeOf(en, A) /\ UmOf(en, B) = UmOf(en, A)
<1> DEFINE W == WiredOf(FinalOf(en, A))
           Um == FeUmaskOf(en, NamesOf(A))
           fa == ValueOf(A, "fe_thres")
           fb == ValueOf(B, "fe_thres")
           ga == FeGivenOf(en, NamesOf(A), ModsOf(A))
           gb == FeGivenOf(en, NamesOf(B), ModsOf(B))
           T(f, g) == IF ~ Um THEN f ELSE IF W # {} THEN (IF g THEN f ELSE W) ELSE IF f = {} THEN {0} ELSE f
<1>1. FeUmaskOf(en, NamesOf(B)) = Um /\ FinalOf(en, B) = FinalOf(en, A)
  BY RereadFlags, RereadFields
<1>2. FeOf(en, A) = T(fa, ga) /\ FeOf(en, B) = T(fb, gb)
  BY <1>1 DEF FeOf, FeThrOf
<1>3. /\ ~ (Um /\ W # {} /\ ga /\ fa # W) /\ ~ (Um /\ W # {} /\ gb /\ fb # W)
      /\ LoopOK(en, B) /\ B = StringOf(en, p, A)
  BY <1>1, AcceptedIs DEF Reread, Accepted
<1>4. fb = IF "fe_thres" \in ModifiersOf(en) THEN FeOf(en, A) ELSE {}
  BY RereadFields DEF PrintedOf
<1>5. ModsOf(A) \subseteq ModifiersOf(en) /\ ModsOf(B) \subseteq ModifiersOf(en)
  BY RereadFields
<1>6. "fe_thres" \in ModifiersOf(en) => FeOf(en, A) # {}
  <2>1. SUFFICES ASSUME "fe_thres" \in ModifiersOf(en) PROVE FeOf(en, A) # {}
    OBVIOUS
  <2>2. PICK a : a = Attr("mod", "fe_thres", FeOf(en, A))
    OBVIOUS
  <2>3. a \in OfType(B, "mod") /\ a.name = "fe_thres" /\ a.ival = FeOf(en, A)
    <3>1. OfType(B, "mod") = {Attr("mod", m, PrintedOf(m, WholeReg(en, p, A), LdOf(en, A), FeOf(en, A))) : m \in ModifiersOf(en)}
      BY <1>3, PrintingNames DEF StringOf
    <3>2. PrintedOf("fe_thres", WholeReg(en, p, A), LdOf(en, A), FeOf(en, A)) = FeOf(en, A)
      BY DEF PrintedOf
    <3>3. QED
      BY <2>1, <2>2, <3>1, <3>2 DEF Attr
  <2>4. ~ BadValue("fe_thres", FeOf(en, A))
    BY <1>3, <2>3 DEF LoopOK
  <2>5. QED
    BY <2>4 DEF BadValue
<1>7. "fe_thres" \notin ModifiersOf(en) => fa = {} /\ ~ ga /\ ~ gb
  <2>1. SUFFICES ASSUME "fe_thres" \notin ModifiersOf(en) PROVE fa = {} /\ ~ ga /\ ~ gb
    OBVIOUS
  <2>2. ~ ga /\ ~ gb
    BY <1>5, <2>1 DEF FeGivenOf
  <2>3. Given(A, "fe_thres") = {}
    BY <1>5, <2>1 DEF Given, ModsOf, OfType
  <2>4. QED
    BY <2>2, <2>3 DEF ValueOf
<1>8. FeOf(en, B) = FeOf(en, A)
  <2>1. FeOf(en, A) = IF ~ Um THEN fa ELSE IF W # {} THEN W ELSE IF fa = {} THEN {0} ELSE fa
    BY <1>2, <1>3
  <2>2. FeOf(en, B) = IF ~ Um THEN fb ELSE IF W # {} THEN W ELSE IF fb = {} THEN {0} ELSE fb
    BY <1>2, <1>3
  <2> HIDE DEF W, Um, fa, fb, ga, gb
  <2>3. QED
    BY <1>4, <1>6, <1>7, <2>1, <2>2
<1>9. UmOf(en, B) = UmOf(en, A)
  <2>1. \A X \in {A, B} : UmOf(en, X) = IF FeUmaskOf(en, NamesOf(X))
                                        THEN (FinalOf(en, X) \ ThrField) \cup {b + 16 : b \in FeOf(en, X)}
                                        ELSE FinalOf(en, X)
    BY DEF UmOf, UmaskCodeOf, FeOf
  <2>2. QED
    BY <1>1, <1>8, <2>1
<1>10. QED
  BY <1>8, <1>9

LEMMA RereadSame ==
    ASSUME NEW en \in Entries, NEW p, NEW A, NEW B, Reread(en, p, A, B)
    PROVE  ResultOf(en, p, B) = ResultOf(en, p, A)
<1> DEFINE R == WholeReg(en, p, A)
<1>1. StoredBits(B) = R \cap Written(B)
  <2>1. B = StringOf(en, p, A) /\ ModsOf(B) = ModifiersOf(en) \ {"ldlat"}
    BY RereadFields DEF Reread
  <2> DEFINE Mod(m) == Attr("mod", m, PrintedOf(m, R, LdOf(en, A), FeOf(en, A)))
  <2>2. OfType(B, "mod") = {Mod(m) : m \in ModifiersOf(en)}
    BY <2>1, PrintingNames DEF StringOf
  <2>3. \A m : Mod(m).name = m /\ Mod(m).ival = PrintedOf(m, R, LdOf(en, A), FeOf(en, A))
    BY DEF Attr
  <2> HIDE DEF Mod, R
  <2>4. \A m \in DOMAIN Field : Stored(Mod(m).name, Mod(m).ival) = R \cap Field[m]
    BY <2>3, StoredAgain
  <2>5. \A b : b \in StoredBits(B) <=>
            \E m \in ModifiersOf(en) : m \in DOMAIN Field /\ b \in R \cap Field[m]
    BY <2>2, <2>3, <2>4 DEF StoredBits
  <2>6. "ldlat" \notin DOMAIN Field
    BY DEF Field
  <2>7. \A b : b \in Written(B) <=> \E m \in ModifiersOf(en) : m \in DOMAIN Field /\ b \in Field[m]
    BY <2>1, <2>6 DEF Written
  <2>8. QED
    BY <2>5, <2>7
<1>2. WholeReg(en, p, B) = R
  <2>1. Legal(en, A) /\ LoopOK(en, A)
    BY DEF Reread, Accepted
  <2>2. QED
    BY <1>1, <2>1, RereadFields, RereadFlags, RereadThreshold, SameRegister
<1>3. FeOf(en, B) = FeOf(en, A) /\ UmOf(en, B) = UmOf(en, A)
  BY RereadThreshold
<1>4. LdOf(en, B) = LdOf(en, A) /\ LdUmaskOf(en, NamesOf(B)) = LdUmaskOf(en, NamesOf(A))
  BY RereadFlags
<1>5. UsedOf(en, B) = UsedOf(en, A)
  BY RereadFields
<1>6. FstrOf(en, UsedOf(en, A), RawOf(B), R, LdOf(en, A), FeOf(en, A)) =
          FstrOf(en, UsedOf(en, A), RawOf(A), R, LdOf(en, A), FeOf(en, A))
  <2>1. RawOf(B) = [x \in 1 .. Len(RawOf(A)) |-> Attr("raw", "0x", RawOf(A)[x].ival \cap 0 .. 31)]
    BY RereadFields
  <2>2. Len(RawOf(A)) \in Nat
    BY DEF RawOf, OneOf
  <2>3. Len(RawOf(B)) = Len(RawOf(A))
    BY <2>1, <2>2
  <2>4. \A x \in 1 .. Len(RawOf(A)) : RawOf(B)[x].ival \cap 0 .. 31 = RawOf(A)[x].ival \cap 0 .. 31
    BY <2>1 DEF Attr
  <2>5. [x \in 1 .. Len(RawOf(B)) |-> Attr("raw", "0x", RawOf(B)[x].ival \cap 0 .. 31)] =
            [x \in 1 .. Len(RawOf(A)) |-> Attr("raw", "0x", RawOf(A)[x].ival \cap 0 .. 31)]
    BY <2>3, <2>4
  <2>6. QED
    BY <2>5 DEF FstrOf
<1>7. Accepted(en, p, A) /\ Accepted(en, p, B)
  BY DEF Reread
<1> HIDE DEF R
<1>8. QED
  <2>1. ResultOf(en, p, A) =
                [err |-> Success,
                 codes |-> IF LdUmaskOf(en, NamesOf(A)) THEN <<R, LdOf(en, A)>>
                           ELSE IF ExtraOf(en) THEN <<R, UmOf(en, A)>> ELSE <<R>>,
                 fstr |-> FstrOf(en, UsedOf(en, A), RawOf(A), R, LdOf(en, A), FeOf(en, A)),
                 used |-> UsedOf(en, A)]
    BY <1>7, AcceptedIs DEF R
  <2>2. ResultOf(en, p, B) =
                [err |-> Success,
                 codes |-> IF LdUmaskOf(en, NamesOf(A)) THEN <<R, LdOf(en, A)>>
                           ELSE IF ExtraOf(en) THEN <<R, UmOf(en, A)>> ELSE <<R>>,
                 fstr |-> FstrOf(en, UsedOf(en, A), RawOf(B), R, LdOf(en, A), FeOf(en, A)),
                 used |-> UsedOf(en, A)]
    BY <1>2, <1>3, <1>4, <1>5, <1>7, AcceptedIs
  <2>3. QED
    BY <1>6, <2>1, <2>2

(***************************************************************************)
(* The string as a sequence                                                *)
(***************************************************************************)
Elements(s) == {s[x] : x \in 1 .. Len(s)}
Once(s) == \A x, y \in 1 .. Len(s) : s[x] = s[y] => x = y

LEMMA ElementsAppend ==
    ASSUME NEW X, NEW s \in Seq(X), NEW a \in X
    PROVE  /\ Elements(Append(s, a)) = Elements(s) \cup {a}
           /\ Once(s) /\ a \notin Elements(s) => Once(Append(s, a))
<1>1. /\ Len(s) \in Nat /\ Len(Append(s, a)) = Len(s) + 1 /\ Append(s, a)[Len(s) + 1] = a
      /\ \A x \in 1 .. Len(s) : Append(s, a)[x] = s[x]
  OBVIOUS
<1>2. PICK t, n : t = Append(s, a) /\ n = Len(s)
  OBVIOUS
<1>3. /\ n \in Nat /\ Len(t) = n + 1 /\ t[n + 1] = a /\ \A x \in 1 .. n : t[x] = s[x]
      /\ Len(s) = n
  BY <1>1, <1>2
<1>4. \A x \in 1 .. n + 1 : x \in 1 .. n \/ x = n + 1
  BY <1>3
<1>5. \A x \in 1 .. n : x \in 1 .. n + 1
  BY <1>3
<1>6. n + 1 \in 1 .. n + 1
  BY <1>3
<1>7. Elements(t) = Elements(s) \cup {a}
  BY <1>3, <1>4, <1>5, <1>6 DEF Elements
<1>8. Once(s) /\ a \notin Elements(s) => Once(t)
  BY <1>3, <1>4 DEF Elements, Once
<1>9. QED
  BY <1>2, <1>7, <1>8

LEMMA ElementsConcat ==
    ASSUME NEW X, NEW s \in Seq(X), NEW t \in Seq(X)
    PROVE  /\ Elements(s \o t) = Elements(s) \cup Elements(t)
           /\ Distinct(s) /\ Distinct(t) /\ (\A a \in Elements(s), b \in Elements(t) : a.name # b.name)
                 => Distinct(s \o t)
<1>1. PICK u, m, n : u = s \o t /\ m = Len(s) /\ n = Len(t)
  OBVIOUS
<1>2. m \in Nat /\ n \in Nat /\ Len(u) = m + n
  BY <1>1
<1>3. \A x \in 1 .. m : u[x] = s[x]
  BY <1>1
<1>4. \A x \in 1 .. n : u[m + x] = t[x] /\ m + x \in 1 .. m + n
  BY <1>1, <1>2
<1>5. \A x \in 1 .. m + n : x \in 1 .. m \/ (x - m \in 1 .. n /\ u[x] = t[x - m])
  <2>1. SUFFICES ASSUME NEW x \in 1 .. m + n, x \notin 1 .. m PROVE x - m \in 1 .. n /\ u[x] = t[x - m]
    OBVIOUS
  <2>2. x - m \in 1 .. n /\ m + (x - m) = x
    BY <1>2, <2>1
  <2>3. QED
    BY <1>4, <2>2
<1>6. \A x \in 1 .. m : x \in 1 .. m + n
  BY <1>2
<1>7. Elements(u) = Elements(s) \cup Elements(t)
  <2>1. \A a : a \in Elements(s) <=> \E x \in 1 .. m : a = s[x]
    BY <1>1 DEF Elements
  <2>2. \A a : a \in Elements(t) <=> \E x \in 1 .. n : a = t[x]
    BY <1>1 DEF Elements
  <2>3. \A a : a \in Elements(u) <=> \E x \in 1 .. m + n : a = u[x]
    BY <1>2 DEF Elements
  <2>4. \A a : a \in Elements(u) => a \in Elements(s) \/ a \in Elements(t)
    BY <1>3, <1>5, <2>1, <2>2, <2>3
  <2>5. \A a : a \in Elements(s) => a \in Elements(u)
    BY <1>3, <1>6, <2>1, <2>3
  <2>6. \A a : a \in Elements(t) => a \in Elements(u)
    BY <1>4, <2>2, <2>3
  <2>7. QED
    BY <2>4, <2>5, <2>6
<1>8. ASSUME Distinct(s), Distinct(t), \A a \in Elements(s), b \in Elements(t) : a.name # b.name
      PROVE  Distinct(u)
  <2>1. SUFFICES ASSUME NEW x \in 1 .. m + n, NEW y \in 1 .. m + n, u[x].name = u[y].name PROVE x = y
    BY <1>2 DEF Distinct
  <2>2. \A z \in 1 .. m : u[z] \in Elements(s)
    BY <1>1, <1>3 DEF Elements
  <2>3. \A z \in 1 .. m + n : z \notin 1 .. m => u[z] \in Elements(t)
    BY <1>1, <1>5 DEF Elements
  <2>4. CASE x \in 1 .. m /\ y \in 1 .. m
    BY <1>1, <1>3, <1>8, <2>1, <2>4 DEF Distinct
  <2>5. CASE x \notin 1 .. m /\ y \notin 1 .. m
    <3>1. x - m \in 1 .. n /\ y - m \in 1 .. n /\ t[x - m].name = t[y - m].name
      BY <1>5, <2>1, <2>5
    <3>2. x - m = y - m
      BY <1>1, <1>8, <3>1 DEF Distinct
    <3>3. QED
      BY <1>2, <3>2
  <2>6. QED
    BY <1>8, <2>1, <2>2, <2>3, <2>4, <2>5
<1>9. QED
  BY <1>1, <1>7, <1>8

\* The sorted unit masks are those of the set, each once.
LEMMA SortedNames ==
    ASSUME NEW X, NEW s \in Seq(X), Once(s), NEW S
    PROVE  Elements(Sorted(s, S)) = Elements(s) \cap S /\ Once(Sorted(s, S))
<1> DEFINE E(g, x) == IF x = 0 THEN <<>> ELSE IF s[x] \in S THEN Append(g[x - 1], s[x]) ELSE g[x - 1]
           Part(n) == {s[x] : x \in 1 .. n}
<1>1. Len(s) \in Nat
  OBVIOUS
<1>2. PICK upto : upto = [x \in 0 .. Len(s) |-> E(upto, x)] /\ Sorted(s, S) = upto[Len(s)]
  BY <1>1, SortedUpto
<1> DEFINE Good(n) == upto[n] \in Seq(X) /\ Elements(upto[n]) = Part(n) \cap S /\ Once(upto[n])
           P == {n \in Nat : n <= Len(s) => Good(n)}
<1> HIDE DEF E
<1>3. \A n \in Nat : n \in P
  <2>1. 0 \in P
    <3>1. upto[0] = <<>> /\ Part(0) = {}
      BY <1>1, <1>2 DEF E
    <3>2. <<>> \in Seq(X) /\ Elements(<<>>) = {} /\ Once(<<>>)
      BY DEF Elements, Once
    <3> HIDE DEF Part
    <3>3. QED
      BY <3>1, <3>2
  <2>2. \A n \in Nat : n \in P => n + 1 \in P
    <3> HIDE DEF Good
    <3>1. SUFFICES ASSUME NEW n \in Nat, n \in P, n + 1 <= Len(s) PROVE Good(n + 1)
      OBVIOUS
    <3>2. upto[n] \in Seq(X) /\ Elements(upto[n]) = Part(n) \cap S /\ Once(upto[n])
      <4>1. n <= Len(s)
        BY <1>1, <3>1
      <4>2. Good(n)
        BY <3>1, <4>1
      <4>3. QED
        BY <4>2 DEF Good
    <3>3. s[n + 1] \in X /\ (n + 1) - 1 = n
      BY <3>1
    <3>4. upto[n + 1] = IF s[n + 1] \in S THEN Append(upto[n], s[n + 1]) ELSE upto[n]
      <4>1. n + 1 \in 0 .. Len(s) /\ n + 1 # 0
        BY <1>1, <3>1
      <4>2. upto[n + 1] = E(upto, n + 1)
        BY <1>2, <4>1
      <4>3. QED
        BY <3>3, <4>1, <4>2 DEF E
    <3>5. Part(n + 1) = Part(n) \cup {s[n + 1]}
      <4>1. \A x : x \in 1 .. n + 1 <=> x \in 1 .. n \/ x = n + 1
        BY <3>1
      <4>2. QED
        BY <4>1
    <3>6. s[n + 1] \notin Part(n)
      <4>1. \A x \in 1 .. n : x \in 1 .. Len(s) /\ x # n + 1
        BY <1>1, <3>1
      <4>2. n + 1 \in 1 .. Len(s)
        BY <1>1, <3>1
      <4>3. QED
        BY <4>1, <4>2 DEF Once
    <3> HIDE DEF Part, P
    <3>7. CASE s[n + 1] \in S
      <4>1. upto[n + 1] = Append(upto[n], s[n + 1])
        BY <3>4, <3>7
      <4>2. s[n + 1] \notin Elements(upto[n])
        BY <3>2, <3>6
      <4>3. upto[n + 1] \in Seq(X)
        BY <3>2, <3>3, <4>1
      <4>4. Elements(upto[n + 1]) = Elements(upto[n]) \cup {s[n + 1]} /\ Once(upto[n + 1])
        BY <3>2, <3>3, <4>1, <4>2, ElementsAppend
      <4>5. QED
        BY <3>2, <3>5, <3>7, <4>3, <4>4 DEF Good
    <3>8. CASE s[n + 1] \notin S
      BY <3>2, <3>4, <3>5, <3>8 DEF Good
    <3>9. QED
      BY <3>7, <3>8
  <2> HIDE DEF P
  <2>3. QED
    BY <2>1, <2>2, SetInduction
<1>4. Elements(upto[Len(s)]) = Part(Len(s)) \cap S /\ Once(upto[Len(s)])
  <2> HIDE DEF Good, P
  <2>1. Len(s) \in P
    BY <1>1, <1>3
  <2>2. Good(Len(s))
    BY <1>1, <2>1 DEF P
  <2>3. QED
    BY <2>2 DEF Good
<1>5. QED
  BY <1>2, <1>4 DEF Elements

LEMMA StringIs ==
    ASSUME NEW en \in Entries, NEW used, used \subseteq DOMAIN en.umasks, NEW raw, Len(raw) \in {0, 1},
           NEW register, NEW ld, NEW fe
    PROVE  /\ Elements(FstrOf(en, used, raw, register, ld, fe)) = Printing(en, used, raw, register, ld, fe)
           /\ Distinct(FstrOf(en, used, raw, register, ld, fe))
<1> DEFINE t == Sorted(en.names, used)
           Mod(m) == Attr("mod", m, PrintedOf(m, register, ld, fe))
           Um(n) == Attr("umask", n, {})
           R(x) == Attr("raw", "0x", raw[x].ival \cap 0 .. 31)
           s1 == [x \in 1 .. Len(t) |-> Um(t[x])]
           s2 == [x \in 1 .. Len(raw) |-> R(x)]
           s3 == [x \in 1 .. Len(en.mods) |-> Mod(en.mods[x])]
           X == {Um(n) : n \in used} \cup Cut(raw) \cup {Mod(m) : m \in ModifiersOf(en)}
<1>1. /\ en.names \in Seq(DOMAIN en.umasks) /\ en.mods \in Seq(Mods)
      /\ Elements(en.names) = DOMAIN en.umasks
  BY TableAssumption DEF Entries, Entry, Elements
<1>2. /\ Once(en.names) /\ Once(en.mods) /\ DOMAIN en.umasks \cap (Mods \cup {"0x"}) = {}
  BY StringAssumption DEF Entries, Once
<1>3. t \in Seq(DOMAIN en.umasks) /\ Elements(t) = used /\ Once(t)
  <2>1. t \in Seq(DOMAIN en.umasks \cap used)
    BY <1>1, SortedType
  <2>2. Elements(t) = Elements(en.names) \cap used /\ Once(t)
    BY <1>1, <1>2, SortedNames
  <2> HIDE DEF t
  <2>3. QED
    BY <1>1, <2>1, <2>2
<1>4. Len(t) \in Nat /\ Len(raw) \in Nat /\ Len(en.mods) \in Nat
  BY <1>1, <1>3
<1>5. /\ \A n : Um(n).name = n
      /\ \A m : Mod(m).name = m
      /\ \A x : R(x).name = "0x"
  BY DEF Attr
<1>6. Elements(en.mods) = ModifiersOf(en)
  BY DEF Elements, ModifiersOf
<1>7. FstrOf(en, used, raw, register, ld, fe) = (s1 \o s2) \o s3
  BY DEF FstrOf
<1>8. Printing(en, used, raw, register, ld, fe) = X
  BY DEF Printing
<1>9. Cut(raw) = {R(x) : x \in 1 .. Len(raw)}
  BY DEF Cut
<1> HIDE DEF t, Mod, Um, R
<1>10. /\ Len(s1) = Len(t) /\ Elements(s1) = {Um(n) : n \in used} /\ Distinct(s1)
  <2>1. Len(s1) = Len(t) /\ \A x \in 1 .. Len(t) : s1[x] = Um(t[x])
    BY <1>4
  <2> HIDE DEF s1
  <2>2. Elements(s1) = {Um(n) : n \in Elements(t)}
    BY <2>1 DEF Elements
  <2>3. Distinct(s1)
    BY <1>3, <1>5, <2>1 DEF Distinct, Once
  <2>4. QED
    BY <1>3, <2>1, <2>2, <2>3
<1>11. /\ Len(s2) = Len(raw) /\ Elements(s2) = Cut(raw) /\ Distinct(s2)
  <2>1. Len(s2) = Len(raw) /\ \A x \in 1 .. Len(raw) : s2[x] = R(x)
    BY <1>4
  <2> HIDE DEF s2
  <2>2. Elements(s2) = Cut(raw)
    BY <1>9, <2>1 DEF Elements
  <2>3. Distinct(s2)
    BY <2>1 DEF Distinct
  <2>4. QED
    BY <2>1, <2>2, <2>3
<1>12. /\ Len(s3) = Len(en.mods) /\ Elements(s3) = {Mod(m) : m \in ModifiersOf(en)} /\ Distinct(s3)
  <2>1. Len(s3) = Len(en.mods) /\ \A x \in 1 .. Len(en.mods) : s3[x] = Mod(en.mods[x])
    BY <1>4
  <2> HIDE DEF s3
  <2>2. Elements(s3) = {Mod(m) : m \in Elements(en.mods)}
    BY <2>1 DEF Elements
  <2>3. Distinct(s3)
    BY <1>2, <1>5, <2>1 DEF Distinct, Once
  <2>4. QED
    BY <1>6, <2>1, <2>2, <2>3
<1>13. s1 \in Seq(X) /\ s2 \in Seq(X) /\ s3 \in Seq(X)
  <2>1. \A x \in 1 .. Len(t) : Um(t[x]) \in X
    BY <1>3 DEF Elements
  <2>2. \A x \in 1 .. Len(raw) : R(x) \in X
    BY <1>9
  <2>3. \A x \in 1 .. Len(en.mods) : Mod(en.mods[x]) \in X
    BY <1>6 DEF Elements
  <2> HIDE DEF X
  <2>4. QED
    BY <1>4, <2>1, <2>2, <2>3
<1>14. /\ \A a \in Elements(s1) : a.name \in DOMAIN en.umasks
       /\ \A a \in Elements(s2) : a.name = "0x"
       /\ \A a \in Elements(s3) : a.name \in Mods
  <2>1. \A m \in ModifiersOf(en) : m \in Mods
    BY <1>1 DEF ModifiersOf
  <2> HIDE DEF s1, s2, s3, X
  <2>2. \A a \in Elements(s1) : a.name \in DOMAIN en.umasks
    BY <1>5, <1>10
  <2>3. \A a \in Elements(s2) : a.name = "0x"
    BY <1>5, <1>9, <1>11
  <2>4. \A a \in Elements(s3) : a.name \in Mods
    BY <1>5, <1>12, <2>1
  <2>5. QED
    BY <2>2, <2>3, <2>4
<1>15. "0x" \notin Mods
  BY DEF Mods, Field
<1> HIDE DEF s1, s2, s3, X
<1>16. s1 \o s2 \in Seq(X)
  BY <1>13
<1>17. Elements(s1 \o s2) = Elements(s1) \cup Elements(s2) /\ Distinct(s1 \o s2)
  BY <1>2, <1>10, <1>11, <1>13, <1>14, ElementsConcat
<1>18. PICK u : u = s1 \o s2
  OBVIOUS
<1>19. /\ u \in Seq(X) /\ Distinct(u) /\ Elements(u) = Elements(s1) \cup Elements(s2)
       /\ \A a \in Elements(u) : a.name \in DOMAIN en.umasks \cup {"0x"}
  BY <1>14, <1>16, <1>17, <1>18
<1>20. \A a \in Elements(u), b \in Elements(s3) : a.name # b.name
  BY <1>2, <1>14, <1>15, <1>19
<1>21. Elements(u \o s3) = Elements(u) \cup Elements(s3) /\ Distinct(u \o s3)
  BY <1>12, <1>13, <1>19, <1>20, ElementsConcat
<1>22. Elements(u \o s3) = X
  BY <1>10, <1>11, <1>12, <1>19, <1>21 DEF X
<1>23. QED
  BY <1>7, <1>8, <1>18, <1>21, <1>22

(***************************************************************************)
(* The second call                                                         *)
(***************************************************************************)

\* A raw unit mask is seen in the codes, so codes of 40 bits tell that it was
\* printed whole.
LEMMA NarrowRaw ==
    ASSUME NEW en, NEW p, NEW A, Legal(en, A), Accepted(en, p, A), OfType(A, "raw") # {},
           LET codes == ResultOf(en, p, A).codes IN \A c \in 1 .. Len(codes) : codes[c] \subseteq 0 .. 39
    PROVE  \A a \in OfType(A, "raw") : a.ival \subseteq 0 .. 31
<1>1. NamesOf(A) = {}
  BY DEF Legal, Apart, OfType, NamesOf
<1>2. ~ FeUmaskOf(en, NamesOf(A)) /\ ~ LdUmaskOf(en, NamesOf(A))
  BY <1>1 DEF FeUmaskOf, LdUmaskOf
<1>3. UmOf(en, A) = FinalOf(en, A)
  BY <1>2 DEF UmOf, UmaskCodeOf
<1>4. RawBits(A) \subseteq FinalOf(en, A)
  BY DEF FinalOf, FinalUmask, UmaskOf
<1>5. ResultOf(en, p, A).codes = IF ExtraOf(en) THEN <<WholeReg(en, p, A), UmOf(en, A)>> ELSE <<WholeReg(en, p, A)>>
  BY <1>2, AcceptedIs
<1>6. UmOf(en, A) \subseteq 0 .. 39
  <2>1. CASE ExtraOf(en)
    <3>1. Len(ResultOf(en, p, A).codes) = 2 /\ ResultOf(en, p, A).codes[2] = UmOf(en, A)
      BY <1>5, <2>1
    <3>2. QED
      BY <3>1
  <2>2. CASE ~ ExtraOf(en)
    <3>1. Len(ResultOf(en, p, A).codes) = 1 /\ ResultOf(en, p, A).codes[1] = WholeReg(en, p, A)
      BY <1>5, <2>2
    <3>2. UmOf(en, A) \subseteq WholeReg(en, p, A)
      BY <2>2 DEF WholeReg, RegisterOf, UmOf
    <3>3. QED
      BY <3>1, <3>2
  <2>3. QED
    BY <2>1, <2>2
<1>7. SUFFICES ASSUME NEW a \in OfType(A, "raw"), NEW b \in a.ival PROVE b \in 0 .. 31
  OBVIOUS
<1>8. b + 8 \in 0 .. 39
  <2>1. b + 8 \in {c + 8 : c \in a.ival}
    OBVIOUS
  <2>2. b + 8 \in RawBits(A)
    BY <2>1 DEF RawBits
  <2>3. QED
    BY <1>3, <1>4, <1>6, <2>2
<1>9. b \in 0 .. en.width - 1
  BY DEF Accepted, LoopOK
<1>10. QED
  BY <1>8, <1>9

\* A first call reads attributes of the event; the second one has those of the
\* string that the first one returned.
Requested == call = "first" => Legal(entry, All)
Reencoded ==
    call = "again" =>
        /\ Distinct(attrs)
        /\ \E A : /\ Legal(entry, A) /\ Accepted(entry, plm, A)
                 /\ first = ResultOf(entry, plm, A) /\ All = StringOf(entry, plm, A)
StringInv == Requested /\ Reencoded

LEMMA ReadsString ==
    ASSUME Typed, StringInv, NEW a \in Readable, Reads(a)
    PROVE  StringInv'
<1>1. UNCHANGED <<call, event, plm, first>> /\ entry' = entry
  BY DEF Reads, entry
<1>2. CASE call = "first"
  <2>1. attrs' = Append(attrs, a) /\ a \in Offered
    BY <1>2 DEF Reads, Readable
  <2>2. a \in Attributes /\ attrs \in Seq(Attributes)
    BY <2>1, OfferedTyped DEF Typed
  <2>3. All' = All \cup {a}
    BY <2>1, <2>2, ElementsAppend DEF All, Elements
  <2>4. \A b \in All : b \in Attributes /\ b.name # a.name /\ (a.type = "mod" \/ b.type \in {"mod", a.type})
    BY <2>1, <2>2 DEF All, Offered
  <2>5. Legal(entry, All)
    BY <1>2 DEF StringInv, Requested
  <2>6. \/ a.type = "umask" /\ a.name \in DOMAIN entry.umasks
        \/ a.type = "raw" /\ a.name = "0x"
        \/ a.type = "mod" /\ a.name \in ModifiersOf(entry)
    <3>1. CASE \E n \in DOMAIN umasks : a = Attr("umask", n, {})
      BY <3>1 DEF Attr, umasks
    <3>2. CASE \E v \in RawUmasks : a = Attr("raw", "0x", v)
      BY <3>2 DEF Attr
    <3>3. CASE \E m \in Modifiers : (\E x \in 1 .. Len(entry.mods) : entry.mods[x] = m[1]) /\ a = Attr("mod", m[1], m[2])
      BY <3>3 DEF Attr, ModifiersOf
    <3>4. QED
      BY <2>1, <3>1, <3>2, <3>3 DEF Offered
  <2>7. \A b \in All : b.type = "raw" => b.name = "0x"
    BY <2>4 DEF Attributes
  <2>8. Apart(All \cup {a})
    BY <2>4, <2>5, <2>6 DEF Legal, Apart
  <2>9. \A b, c \in OfType(All \cup {a}, "raw") : b = c
    BY <2>4, <2>5, <2>6, <2>7 DEF Legal, OfType
  <2>10. Legal(entry, All \cup {a})
    <3>1. \A b \in All \cup {a} : \/ b.type = "umask" /\ b.name \in DOMAIN entry.umasks
                                  \/ b.type = "raw"
                                  \/ b.type = "mod" /\ b.name \in ModifiersOf(entry)
      <4>1. \A b \in All : \/ b.type = "umask" /\ b.name \in DOMAIN entry.umasks
                           \/ b.type = "raw"
                           \/ b.type = "mod" /\ b.name \in ModifiersOf(entry)
        BY <2>5 DEF Legal
      <4>2. QED
        BY <2>6, <4>1
    <3>2. QED
      BY <2>8, <2>9, <3>1 DEF Legal
  <2>11. QED
    BY <1>1, <1>2, <2>3, <2>10 DEF StringInv, Requested, Reencoded
<1>3. CASE call # "first"
  <2>1. attrs' = attrs /\ All' = All
    BY <1>3 DEF Reads, All
  <2>2. QED
    BY <1>1, <1>3, <2>1 DEF StringInv, Requested, Reencoded
<1>4. QED
  BY <1>2, <1>3

LEMMA AgainString ==
    ASSUME Typed, FunInv, StringInv, Again
    PROVE  StringInv'
<1>1. /\ phase = "idle" /\ call = "first" /\ res.err = Success
      /\ call' = "again" /\ event' = event /\ plm' = plm /\ attrs' = res.fstr /\ first' = res
  BY DEF Again, Start
<1>2. entry' = entry /\ entry \in Entries
  BY <1>1 DEF entry, Entries, Typed
<1>3. Distinct(attrs) /\ Function(res)
  BY <1>1 DEF FunInv, Named, AtEnd
<1>4. Accepted(entry, plm, All) /\ res = ResultOf(entry, plm, All)
  BY <1>1, <1>3 DEF Function
<1>5. Legal(entry, All)
  BY <1>1 DEF StringInv, Requested
<1>6. PICK en, A, used, raw, register, ld, fe :
        /\ en = entry /\ A = All /\ used = UsedOf(en, A) /\ raw = RawOf(A)
        /\ register = WholeReg(en, plm, A) /\ ld = LdOf(en, A) /\ fe = FeOf(en, A)
  OBVIOUS
<1>7. res.fstr = FstrOf(en, used, raw, register, ld, fe)
  <2>1. Accepted(en, plm, A)
    BY <1>4, <1>6
  <2>2. ResultOf(en, plm, A).fstr = FstrOf(en, used, raw, register, ld, fe)
    BY <1>6, <2>1, AcceptedIs
  <2>3. QED
    BY <1>4, <1>6, <2>2
<1>8. used \subseteq DOMAIN en.umasks /\ Len(raw) \in {0, 1}
  <2>1. NamesOf(A) \subseteq DOMAIN en.umasks
    BY <1>5, <1>6 DEF Legal, NamesOf, OfType
  <2>2. used \subseteq DOMAIN en.umasks
    BY <1>6, <2>1 DEF UsedOf, AddedOf, Eligible
  <2>3. QED
    BY <1>6, <2>2 DEF RawOf, OneOf
<1>9. Elements(res.fstr) = Printing(en, used, raw, register, ld, fe) /\ Distinct(res.fstr)
  BY <1>2, <1>6, <1>7, <1>8, StringIs
<1>10. All' = StringOf(entry, plm, All)
  BY <1>1, <1>6, <1>9 DEF All, Elements, StringOf
<1>11. Distinct(attrs')
  BY <1>1, <1>9
<1>12. QED
  BY <1>1, <1>2, <1>4, <1>5, <1>10, <1>11 DEF StringInv, Requested, Reencoded

LEMMA NextString ==
    ASSUME Typed, FunInv, StringInv, [Next]_vars
    PROVE  StringInv'
<1> DEFINE Same == UNCHANGED <<call, event, plm, attrs, first>>
<1>1. CASE Request
  <2>1. PICK ev : Start("first", ev, <<>>, NoResult)
    BY <1>1 DEF Request
  <2>2. call' = "first" /\ All' = {}
    BY <2>1 DEF Start, All
  <2>3. Legal(entry', {})
    BY DEF Legal, Apart, OfType
  <2>4. QED
    BY <2>2, <2>3 DEF StringInv, Requested, Reencoded
<1>2. CASE Again
  BY <1>2, AgainString
<1>3. CASE Reorder
  <2>1. call' = "reorder"
    BY <1>3 DEF Reorder, Start
  <2>2. QED
    BY <2>1 DEF StringInv, Requested, Reencoded
<1>4. ASSUME NEW a \in Readable, TakeUmask(a) \/ TakeRaw(a) \/ TakeModifier(a) PROVE StringInv'
  BY <1>4, ReadsString DEF TakeUmask, TakeRaw, TakeModifier
<1>5. ASSUME Same PROVE StringInv'
  <2>1. entry' = entry /\ All' = All
    BY <1>5 DEF entry, All
  <2>2. QED
    BY <1>5, <2>1 DEF StringInv, Requested, Reencoded
<1>6. CASE EndAttrs
  BY <1>5, <1>6 DEF EndAttrs
<1>7. ASSUME NEW g \in l.missing, AddDefault(g) PROVE StringInv'
  BY <1>5, <1>7 DEF AddDefault
<1>8. CASE Encode
  BY <1>5, <1>8 DEF Encode
<1>9. CASE UNCHANGED vars
  BY <1>5, <1>9 DEF vars
<1>10. QED
  BY <1>1, <1>2, <1>3, <1>4, <1>6, <1>7, <1>8, <1>9 DEF Next

\* pfm_intel_x86_encode_gen returns for the string of an encoding, when it
\* accepts it, the codes and the string it returned with it, unless a raw unit
\* mask was printed without its upper bits.
THEOREM StringEncodesTheSame == Spec => []SameEncoding
<1>1. Init => StringInv
  BY DEF Init, StringInv, Requested, Reencoded
<1>2. Typed /\ FunInv /\ StringInv /\ [Next]_vars => StringInv'
  BY NextString
<1>3. Typed /\ FunInv /\ StringInv => SameEncoding
  <2>1. SUFFICES ASSUME Typed, FunInv, StringInv, Done, call = "again",
                        \A x \in 1 .. Len(attrs), c \in 1 .. Len(first.codes) :
                            attrs[x].type = "raw" => first.codes[c] \subseteq 0 .. 39
                 PROVE  res = first
    BY DEF SameEncoding
  <2>2. PICK A : /\ Legal(entry, A) /\ Accepted(entry, plm, A)
                 /\ first = ResultOf(entry, plm, A) /\ All = StringOf(entry, plm, A)
    BY <2>1 DEF StringInv, Reencoded
  <2>3. Function(res) /\ res.err = Success
    BY <2>1 DEF StringInv, Reencoded, FunInv, AtEnd, Done
  <2>4. Accepted(entry, plm, All) /\ res = ResultOf(entry, plm, All)
    BY <2>3 DEF Function
  <2>5. entry \in Entries
    BY <2>1 DEF entry, Entries, Typed
  <2>6. PICK en : en = entry
    OBVIOUS
  <2>7. \A a \in OfType(A, "raw") : a.ival \subseteq 0 .. 31
    <3>1. SUFFICES ASSUME OfType(A, "raw") # {} PROVE \A a \in OfType(A, "raw") : a.ival \subseteq 0 .. 31
      OBVIOUS
    <3>2. RawOf(A) = <<CHOOSE a \in OfType(A, "raw") : TRUE>>
      BY <3>1 DEF RawOf, OneOf
    <3>3. Attr("raw", "0x", RawOf(A)[1].ival \cap 0 .. 31) \in Cut(RawOf(A))
      <4>1. Len(RawOf(A)) = 1
        BY <3>2
      <4>2. QED
        BY <4>1 DEF Cut
    <3>4. \E a \in All : a.type = "raw"
      BY <2>2, <3>3 DEF StringOf, Printing, Attr
    <3>5. \A c \in 1 .. Len(first.codes) : first.codes[c] \subseteq 0 .. 39
      BY <2>1, <3>4 DEF All
    <3>6. QED
      BY <2>2, <3>1, <3>5, NarrowRaw
  <2>8. Reread(entry, plm, A, All)
    BY <2>2, <2>4, <2>7 DEF Reread
  <2>9. ResultOf(entry, plm, All) = ResultOf(entry, plm, A)
    BY <2>5, <2>8, RereadSame
  <2>10. QED
    BY <2>2, <2>4, <2>9
<1>4. QED
  BY <1>1, <1>2, <1>3, TypedInvariant, FunInvariant, PTL DEF Spec

=============================================================================

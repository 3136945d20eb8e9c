--------------------------- MODULE MCPfmLibrary ---------------------------
(***************************************************************************)
(* A host with four PMU tables, in the order of pfmlib_pmus[]: the Intel   *)
(* architected PMU (built by pmu_init), a core PMU with a static table, an *)
(* uncore PMU the kernel may not export, and the perf PMU.                 *)
(***************************************************************************)
EXTENDS PfmLibrary

MCPmuId == <<2, 0, 3, 1>>
MCKind == <<"arch", "static", "static", "perf">>
MCStaticCount == <<0, 2, 1, 1>>
MCEventName ==
    << [e \in 0 .. 1 |-> IF e = 0 THEN "cycles" ELSE "instr"],
       [e \in 0 .. 1 |-> IF e = 0 THEN "cycles" ELSE "cas"],
       [e \in 0 .. 1 |-> IF e = 0 THEN "cas" ELSE "box"],
       [e \in 0 .. 1 |-> IF e = 0 THEN "cycles" ELSE "sched"] >>

\* "core" is a prefix of one name, "i" of two
MCForcedBy == [f \in Forceable |-> IF f = "core" THEN {2} ELSE {1, 3}]
MCMaskedBy == [d \in Maskable |-> {1, 4}]
============================================================================

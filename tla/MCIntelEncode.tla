---------------------------- MODULE MCIntelEncode ----------------------------
(***************************************************************************)
(* Events of the tables of Sandy Bridge, Goldmont, Haswell, Skylake and    *)
(* Ivy Bridge, each with the unit masks that differ in what the encoder    *)
(* looks at.                                                               *)
(***************************************************************************)
EXTENDS IntelEncode

Um(code, grp, hw, flags) == [ucode |-> code, grpid |-> grp, modhw |-> hw, uflags |-> flags]
En(code, names, ums, ngrp, mods, flags, width) ==
    [code |-> code, names |-> names, umasks |-> ums, ngrp |-> ngrp, mods |-> mods,
     flags |-> flags, width |-> width, plm |-> {"k", "u"}]
V2 == <<"k", "u", "e", "i", "c">>

\* snb::OFFCORE_RESPONSE_0 and glm::OFFCORE_RESPONSE_0
Request0 == Um({8}, 0, {}, {})
AnyRequest == Um(8 .. 23, 0, {}, {"NCOMBO", "DFL"})
AnyResponse == Um({24}, 1, {}, {"NCOMBO", "DFL", "EXCL_GRP_GT"})
Supplier == Um({26}, 1, {}, {})
Snoop == Um({39}, 2, {}, {})
AnySnoop == Um(39 .. 45, 2, {}, {"DFL"})
Outstanding == Um({46}, 3, {}, {"GRP_DFL_NONE", "EXCL_GRP_BUT_0"})
Snb == En({0, 1, 2}, <<"DMND_RFO", "ANY_REQUEST", "ANY_RESPONSE", "LLC_HITM", "SNP_MISS", "SNP_ANY">>,
          [DMND_RFO |-> Request0, ANY_REQUEST |-> AnyRequest, ANY_RESPONSE |-> AnyResponse,
           LLC_HITM |-> Supplier, SNP_MISS |-> Snoop, SNP_ANY |-> AnySnoop],
          3, <<"k", "u">>, {"OFFCORE", "EDGE_CMASK"}, 38)
Glm == En({0, 1, 2}, <<"DMND_RFO", "ANY_REQUEST", "ANY_RESPONSE", "L2_HIT", "SNP_ANY", "OUTSTANDING">>,
          [DMND_RFO |-> Request0, ANY_REQUEST |-> AnyRequest, ANY_RESPONSE |-> AnyResponse,
           L2_HIT |-> Supplier, SNP_ANY |-> AnySnoop, OUTSTANDING |-> Outstanding],
          4, <<"k", "u">>, {"OFFCORE"}, 38)
\* hsw::MEM_TRANS_RETIRED
MemTrans == En({0, 2, 3, 6, 7}, <<"LOAD_LATENCY">>,
               [LOAD_LATENCY |-> Um({8}, 0, {}, {"NCOMBO", "DFL", "LDLAT"})],
               1, <<"k", "u", "ldlat">>, {"EDGE_CMASK"}, 8)
\* skl::FRONTEND_RETIRED, with a unit mask of icl::FRONTEND_RETIRED
Frontend == En({1, 2, 6, 7, 8}, <<"DSB_MISS", "IDQ_4_BUBBLES", "LATENCY_GE_2_BUBBLES_GE_1">>,
               [DSB_MISS |-> Um({8, 12}, 0, {}, {"NCOMBO"}),
                IDQ_4_BUBBLES |-> Um({9, 10, 30}, 0, {}, {"NCOMBO", "FETHR"}),
                LATENCY_GE_2_BUBBLES_GE_1 |-> Um({9, 10, 17, 28}, 0, {"fe_thres"}, {"NCOMBO", "FETHR"})],
               1, <<"k", "u", "fe_thres">>, {"FRONTEND", "EDGE_CMASK"}, 8)
\* snb::L1D_BLOCKS, a default that wires the counter mask
L1dBlocks == En({0, 1, 2, 3, 4, 5, 7}, <<"BANK_CONFLICT", "BANK_CONFLICT_CYCLES">>,
                [BANK_CONFLICT |-> Um({8, 10}, 0, {}, {"NCOMBO"}),
                 BANK_CONFLICT_CYCLES |-> Um({8, 10, 24}, 0, {"c"}, {"NCOMBO", "DFL"})],
                1, V2, {"EDGE_CMASK"}, 8)
\* skl::RS_EVENTS, unit masks that combine, one of which wires three modifiers
RsEvents == En({1, 2, 3, 4, 6}, <<"EMPTY_CYCLES", "EMPTY_END">>,
               [EMPTY_CYCLES |-> Um({8}, 0, {}, {"DFL"}),
                EMPTY_END |-> Um({8, 18, 23, 24}, 0, {"e", "i", "c"}, {})],
               1, V2, {"EDGE_CMASK"}, 8)
\* ivb::DTLB_LOAD_MISSES, a unit mask that overrides the code of the event
Dtlb == En({3}, <<"WALK_COMPLETED", "STLB_HIT">>,
           [WALK_COMPLETED |-> Um({9, 15}, 0, {}, {}),
            STLB_HIT |-> Um({0, 1, 2, 3, 4, 6, 10}, 0, {}, {"NCOMBO", "CODE_OVERRIDE"})],
           1, <<"k", "u">>, {"EDGE_CMASK"}, 8)
\* snb::UNHALTED_CORE_CYCLES, no unit mask
Cycles == En({2, 3, 4, 5}, <<>>, [n \in {} |-> Request0], 0, V2 \o <<"t">>, {"EDGE_CMASK"}, 8)

MCEvents == {"OFFCORE", "OUTSTANDING", "MEM_TRANS", "FRONTEND", "L1D_BLOCKS", "RS_EVENTS", "DTLB", "CYCLES"}
MCTable == [OFFCORE |-> Snb, OUTSTANDING |-> Glm, MEM_TRANS |-> MemTrans, FRONTEND |-> Frontend,
            L1D_BLOCKS |-> L1dBlocks, RS_EVENTS |-> RsEvents, DTLB |-> Dtlb, CYCLES |-> Cycles]
MCModifiers ==
    {<<"u", {0}>>, <<"k", {}>>, <<"e", {0}>>, <<"i", {}>>, <<"c", {0}>>, <<"c", {1}>>, <<"c", {8}>>, <<"t", {0}>>,
     <<"ldlat", {1}>>, <<"ldlat", {5}>>, <<"fe_thres", {0}>>, <<"fe_thres", {1}>>, <<"fe_thres", {12}>>}
MCRawUmasks == {{0}, {0, 35}, {8}}
MCPlms == {{}, {"k", "u"}}
==============================================================================

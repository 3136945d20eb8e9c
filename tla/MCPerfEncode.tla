---------------------------- MODULE MCPerfEncode ----------------------------
(* PerfEncode with a PMU for each way the glue of the PMUs has of offering   *)
(* attributes.                                                               *)
EXTENDS PerfEncode

PmuOf(glue, levels, pebs, hws, no_smpl, codes) ==
    [glue |-> glue, plm |-> levels, pebs |-> pebs, hws |-> hws, no_smpl |-> no_smpl, codes |-> codes]

MCPmus ==
    { PmuOf("intel", {"u", "k"}, TRUE, FALSE, FALSE, 2),
      PmuOf("intel", {"u", "k"}, TRUE, TRUE, FALSE, 1),
      PmuOf("intel", {"u", "k"}, FALSE, TRUE, FALSE, 1),
      PmuOf("intel", {}, FALSE, FALSE, TRUE, 3),
      PmuOf("intel", {}, FALSE, FALSE, TRUE, 1),
      PmuOf("amd64", {"u", "k"}, FALSE, FALSE, FALSE, 1),
      PmuOf("amd64", {"u", "k", "h"}, FALSE, FALSE, FALSE, 1),
      PmuOf("amd64_fam10h", {"u", "k", "h"}, FALSE, FALSE, FALSE, 1),
      PmuOf("amd64_nb", {}, FALSE, FALSE, FALSE, 1),
      PmuOf("arm", {"u", "k", "h"}, FALSE, FALSE, FALSE, 1) }

T(name, values) == {[name |-> name, ival |-> v] : v \in values}
MCTokens ==
    T("u", {0, 1}) \cup T("k", {0, 1}) \cup T("h", {0, 1}) \cup T("period", {0, 2}) \cup T("freq", {0, 1})
    \cup T("precise", {0, 2, 4}) \cup T("excl", {0, 1}) \cup T("mg", {0, 1}) \cup T("mh", {0, 1})
    \cup T("cpu", {0, 7, 8}) \cup T("pinned", {0, 1}) \cup T("hw_smpl", {0, 1})

\* an attr of zeroes, and attrs of an earlier encoding with a period, with a
\* frequency and precise, and with an extra register
Zero == [config |-> "none", config1 |-> "none", sample |-> 0, freq |-> FALSE, precise_ip |-> 0,
         exclusive |-> FALSE, pinned |-> FALSE, exclude |-> {}]
MCPresets ==
    { Zero, [Zero EXCEPT !.sample = 1],
      [Zero EXCEPT !.sample = 1, !.freq = TRUE, !.precise_ip = 1],
      [Zero EXCEPT !.config1 = "preset", !.exclusive = TRUE, !.pinned = TRUE, !.exclude = {"user"}] }
MCDflPlms == {{"u", "k"}, {"u"}, {"u", "k", "h"}}
=============================================================================

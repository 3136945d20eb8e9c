---------------------------- MODULE RawEncode ----------------------------
(***************************************************************************)
(* The raw encoding calls (src/lib/pfmlib_common.c) and who owns what:     *)
(* pfm_get_event_encoding and pfm_get_os_event_encoding(PFM_OS_NONE) pass  *)
(* an array for the codes and the address of a string pointer in a copy of *)
(* the argument; the library allocates what is missing, refuses an array   *)
(* that is too small, and copies the argument back on success only.        *)
(*                                                                         *)
(* The caller makes calls one after the other.  It keeps its array, gives  *)
(* a larger one when told that it is too small, and frees what is its own. *)
(* Only sizes and owners are modelled, the codes themselves are those of   *)
(* IntelEncode.                                                            *)
(***************************************************************************)
EXTENDS Integers

CONSTANTS
    MaxCodes,    \* PFMLIB_MAX_ENCODING, the most codes an event has
    WithFstr,    \* whether callers ask for the string: a subset of BOOLEAN
    MaxCalls     \* bound: calls

ASSUME RawAssumption == MaxCodes \in Nat \ {0} /\ WithFstr \subseteq BOOLEAN /\ MaxCalls \in Nat

VARIABLES
    pc,
    codes, count,  \* the caller's array, its size or 0 for NULL, and its count
    string,        \* whether the caller's pointer has a string
    api,           \* "old" for pfm_get_event_encoding, "os" for the other
    size,          \* arg.size: "zero", "small", "exact", "clean", "dirty"
    arg,           \* the copy: codes, count and whether fstr is given
    need,          \* e.count
    result,        \* ret
    arrays,        \* arrays allocated by the library or the caller, not freed
    strings,       \* strings allocated by the library, not freed
    events,        \* events of the parser, not released
    calls,         \* calls so far
    lost           \* history: arrays lost with a string that could not be built

caller == <<codes, count, string>>
call == <<api, size, calls>>
heap == <<arrays, strings, events>>
raw_vars == <<pc, caller, call, arg, need, result, heap, lost>>

Null == 0
NoArg == [codes |-> Null, count |-> 0, fstr |-> FALSE, own |-> FALSE]

RawInit ==
    /\ pc = "caller"
    /\ codes = Null /\ count = 0 /\ string = FALSE
    /\ api = "os" /\ size = "exact" /\ calls = 0
    /\ arg = NoArg /\ need = 1 /\ result = "none"
    /\ arrays = 0 /\ strings = 0 /\ events = 0
    /\ lost = 0

(***************************************************************************)
(* The caller                                                              *)
(***************************************************************************)

\* gives an array of n elements, as it does after "too small"
Provide(n) ==
    /\ pc = "caller" /\ codes = Null
    /\ codes' = n /\ count' = n /\ arrays' = arrays + 1
    /\ UNCHANGED <<pc, string, call, arg, need, result, strings, events, lost>>

\* frees its array, and lets the library allocate the next one
FreeCodes ==
    /\ pc = "caller" /\ codes # Null
    /\ codes' = Null /\ count' = 0 /\ arrays' = arrays - 1
    /\ UNCHANGED <<pc, string, call, arg, need, result, strings, events, lost>>

FreeString ==
    /\ pc = "caller" /\ string
    /\ string' = FALSE /\ strings' = strings - 1
    /\ UNCHANGED <<pc, codes, count, call, arg, need, result, arrays, events, lost>>

\* the old call takes the size of its own copy
Call(a, s, f) ==
    /\ pc = "caller" /\ ~string /\ calls < MaxCalls
    /\ a = "old" => s = "exact"
    /\ pc' = "check" /\ api' = a /\ size' = s /\ calls' = calls + 1
    /\ arg' = [codes |-> codes, count |-> count, fstr |-> f, own |-> FALSE]
    /\ UNCHANGED <<caller, need, result, heap, lost>>

(***************************************************************************)
(* The library                                                             *)
(***************************************************************************)
Return(error) == pc' = "caller" /\ result' = error

\* pfmlib_check_struct: not smaller than the first version, and nothing in
\* what is larger
BadSize == size \in {"small", "dirty"}

Check ==
    /\ pc = "check"
    /\ IF BadSize THEN Return("inval") ELSE pc' = "parse" /\ UNCHANGED result
    /\ UNCHANGED <<caller, call, arg, need, heap, lost>>

\* pfmlib_parse_event: on an error there is nothing to release
Parse ==
    /\ pc = "parse"
    /\ \/ Return("attr") /\ UNCHANGED events
       \/ pc' = "encode" /\ events' = events + 1 /\ UNCHANGED result
    /\ UNCHANGED <<caller, call, arg, need, arrays, strings, lost>>

Error(error) == pc' = "error" /\ result' = error
ErrorFstr(error) == pc' = "error_fstr" /\ result' = error

\* the encoder of the PMU
Encode ==
    /\ pc = "encode"
    /\ \/ Error("notsupp") /\ UNCHANGED need
       \/ \E n \in 1 .. MaxCodes : need' = n /\ pc' = "codes" /\ UNCHANGED result
    /\ UNCHANGED <<caller, call, arg, heap, lost>>

\* mutant: the size of the array is not compared
MutCodes ==
    /\ pc = "codes"
    /\ \/ arg.codes = Null /\ ErrorFstr("nomem") /\ UNCHANGED <<arg, arrays>>
       \/ arg.codes = Null /\ pc' = "fstr" /\ arrays' = arrays + 1 /\ UNCHANGED result
          /\ arg' = [arg EXCEPT !.codes = need, !.count = need, !.own = TRUE]
       \/ arg.codes # Null /\ pc' = "fstr" /\ arg' = [arg EXCEPT !.count = need] /\ UNCHANGED <<result, arrays>>
    /\ UNCHANGED <<caller, call, need, strings, events, lost>>

\* the array for the codes: allocated, the caller's, or too small
Codes ==
    /\ pc = "codes"
    /\ \/ /\ arg.codes = Null
          /\ \/ ErrorFstr("nomem") /\ UNCHANGED <<arg, arrays>>
             \/ /\ arg' = [arg EXCEPT !.codes = need, !.count = need, !.own = TRUE]
                /\ arrays' = arrays + 1
                /\ pc' = "fstr" /\ UNCHANGED result
       \/ /\ arg.codes # Null /\ arg.count < need
          /\ ErrorFstr("toosmall") /\ UNCHANGED <<arg, arrays>>
       \/ /\ arg.codes # Null /\ arg.count >= need
          /\ arg' = [arg EXCEPT !.count = need]
          /\ pc' = "fstr" /\ UNCHANGED <<result, arrays>>
    /\ UNCHANGED <<caller, call, need, strings, events, lost>>

\* pfmlib_build_fstr writes the caller's pointer; when there is no memory for
\* it an array allocated above is lost with the copy
BuildFstr ==
    /\ pc = "fstr"
    /\ \/ /\ arg.fstr
          /\ Error("nomem")
          /\ lost' = lost + (IF arg.own THEN 1 ELSE 0)
          /\ UNCHANGED <<caller, strings>>
       \/ /\ strings' = strings + (IF arg.fstr THEN 1 ELSE 0)
          /\ string' = arg.fstr
          /\ pc' = "success" /\ UNCHANGED <<codes, count, result, lost>>
    /\ UNCHANGED <<call, arg, need, arrays, events>>

\* mutant: the event is not released
MutSuccess ==
    /\ pc = "success"
    /\ codes' = arg.codes /\ count' = arg.count
    /\ Return("success")
    /\ UNCHANGED <<string, call, arg, need, heap, lost>>

\* the copy goes back to the caller, and the event is released
Success ==
    /\ pc = "success"
    /\ codes' = arg.codes /\ count' = arg.count
    /\ events' = events - 1
    /\ Return("success")
    /\ UNCHANGED <<string, call, arg, need, arrays, strings, lost>>

\* the label error_fstr frees the address of the caller's pointer, not the
\* string it points to; what the heap does with it is not defined
FreeFstr ==
    /\ pc = "error_fstr"
    /\ pc' = IF arg.fstr THEN "undefined" ELSE "error"
    /\ UNCHANGED <<caller, call, arg, need, result, heap, lost>>

\* the label error
Release ==
    /\ pc = "error"
    /\ events' = events - 1
    /\ pc' = "caller"
    /\ UNCHANGED <<caller, call, arg, need, result, arrays, strings, lost>>

RawNext ==
    \/ \E n \in 1 .. MaxCodes : Provide(n)
    \/ FreeCodes \/ FreeString
    \/ \E a \in {"old", "os"}, s \in {"zero", "small", "exact", "clean", "dirty"}, f \in WithFstr : Call(a, s, f)
    \/ Check \/ Parse \/ Encode \/ Codes \/ BuildFstr \/ Success \/ FreeFstr \/ Release

RawSpec == RawInit /\ [][RawNext]_raw_vars

(***************************************************************************)
(* Properties                                                              *)
(***************************************************************************)

\* The codes fit in the array they are written to, whoever allocated it, also
\* when the caller uses an array again with the count of an earlier event.
Fits ==
    /\ pc \in {"fstr", "success"} => need <= arg.codes
    /\ pc = "caller" => count <= codes

\* Between two calls every block belongs to the caller and no event is left,
\* but for one array for each call that had allocated it when the string could
\* not be built.  Only a call that asks for the string, and whose array is too
\* small or missing, leaves the caller with a heap of which nothing is known.
AllOwned ==
    /\ pc = "caller" =>
        /\ arrays = (IF codes = Null THEN 0 ELSE 1) + lost
        /\ strings = (IF string THEN 1 ELSE 0)
        /\ events = 0
    /\ pc = "undefined" => arg.fstr /\ result \in {"nomem", "toosmall"}

\* An array that is too small is an error for the caller to handle ("The code
\* argument is too small for the encoding").
TooSmallReturns == pc # "undefined"
==========================================================================

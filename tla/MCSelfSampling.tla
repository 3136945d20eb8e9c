--------------------------- MODULE MCSelfSampling ---------------------------
(* SelfSampling with two threads that sample themselves and the main thread. *)
EXTENDS SelfSampling
=============================================================================

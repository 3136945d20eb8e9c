---------------------------- MODULE MCRawEncode ----------------------------
(* RawEncode with callers that ask for the string or not.                   *)
EXTENDS RawEncode

MCWithFstr == BOOLEAN
============================================================================

-------------------------- MODULE MCSampleBuffer --------------------------
(***************************************************************************)
(* A payload of four units, records of up to three units and requests of   *)
(* up to five: copies wrap around at every offset, requests exceed what is *)
(* available and what fits.                                                *)
(***************************************************************************)
EXTENDS SampleBuffer
============================================================================

----------------------------- MODULE MCHttpWire -----------------------------
(***************************************************************************)
(* The TLC instance of HttpWire: a window smaller than a JPEG, a body of   *)
(* one byte, and a stream of three frames.                                 *)
(***************************************************************************)
EXTENDS HttpWire
=============================================================================

---------------------------- MODULE MCHttpService ----------------------------
(***************************************************************************)
(* TLC instances of HttpService.  Connections are alike, and so are the    *)
(* V4L2 buffers: the safety runs use both symmetries.                      *)
(***************************************************************************)
EXTENDS HttpServiceProperties, TLC

Symmetry == Permutations(Clients) \cup Permutations(Buffers)
=============================================================================

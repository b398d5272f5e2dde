----------------------------- MODULE MCFrameQueue -----------------------------
(***************************************************************************)
(* The TLC instance of FrameQueue.  MaxPush is above twice the capacity, so *)
(* that head and tail wrap around and frames are dropped.                  *)
(***************************************************************************)
EXTENDS FrameQueue
=============================================================================

--------------------------- MODULE MCFrameRelay ---------------------------
(* A small instance of FrameRelay: a holder and a watcher, or two holders in *)
(* turn, told apart because liveness is checked of each.                     *)
EXTENDS FrameRelay, TLC
============================================================================

---------------------------- MODULE MCFlowRuns ----------------------------
(* FlowRuns for TLC: one run of one flow, two requests in flight, two sockets
   and three screenshot files, so that two uploads race over a third file.  *)
EXTENDS FlowRuns
=============================================================================

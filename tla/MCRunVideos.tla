---------------------------- MODULE MCRunVideos ----------------------------
(* RunVideos for TLC.  Chunk 0 is two cells and a keyframe, chunk 1 one cell
   and none: a write torn between its cells, and a chunk that cannot be
   decoded after a gap.  Run a may produce both, run b only the first.       *)
EXTENDS RunVideos
Cuts == [r \in Runs |-> IF r = "a" THEN 2 ELSE 1]
Lengths == [s \in Seqs |-> IF s = 0 THEN 2 ELSE 1]
=============================================================================

---------------------------- MODULE MCCellWorker ----------------------------
(* Two pids, so that a pid can be reused, and three processes in all.      *)
EXTENDS CellWorker

MCPids == {1, 2}
=============================================================================

---------------------------- MODULE MCAsyncTree ----------------------------
(* The run over the tree-shaped site: it meets the condition under which    *)
(* AsyncRunnerProofs proves the queue's contract of every run.              *)
EXTENDS MCAsyncRunner

ASSUME TreeIsFoundOnce == FoundOnce
=============================================================================

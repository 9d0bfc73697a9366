---------------------------- MODULE EventQueueMC ----------------------------
(* EventQueue on small sets of events and workers. *)
EXTENDS EventQueue, TLC

\* Workers are interchangeable.
WorkerSymmetry == Permutations(Workers)
=============================================================================

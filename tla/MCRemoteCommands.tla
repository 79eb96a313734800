-------------------------- MODULE MCRemoteCommands --------------------------
(* RemoteCommands on a few commands, for TLC. *)
EXTENDS RemoteCommands, TLC

\* The commands are interchangeable: sound for the runs without liveness.
Symmetry == Permutations(Commands)
=============================================================================

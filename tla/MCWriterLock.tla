---------------------------- MODULE MCWriterLock ----------------------------
(***************************************************************************)
(* Processes and files are interchangeable.                                *)
(***************************************************************************)
EXTENDS WriterLock, TLC

Symmetry == Permutations(Procs \ Disabled) \cup Permutations(Inodes)
====

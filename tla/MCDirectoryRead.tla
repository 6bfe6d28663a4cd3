---------------------------- MODULE MCDirectoryRead ----------------------------
(* PrivateDirectory and DirectoryRead for TLC.                               *)
EXTENDS DirectoryRead, TLC

MCSymmetry == Permutations(StagingNames) \cup Permutations(Publishers)
================================================================================

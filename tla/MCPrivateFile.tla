----------------------------- MODULE MCPrivateFile -----------------------------
(* PrivateFile for TLC: the cfg files name the writers, readers and staging *)
(* names and bound tries and power losses.                                  *)
EXTENDS PrivateFile
================================================================================

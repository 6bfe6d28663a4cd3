----------------------------- MODULE DirectoryRead -----------------------------
(***************************************************************************)
(* ReadPrivateDirectory and ReadBundle: whoever has the receipt of a       *)
(* publication reads its files back, one after the other.  Everything that *)
(* was looked at, from the parent to the last file, must still be the same *)
(* whenever a step looks again.                                            *)
(*                                                                         *)
(* A directory is the same when no name was added to it, removed from it or *)
(* replaced in it; touched holds those where one was.  Of a file the state *)
(* itself tells, by the change that made it so.                            *)
(***************************************************************************)
EXTENDS PrivateDirectory

VARIABLES rpc, rleaf, \* the reader's next step, and the file it is about
          target,     \* whose receipt it has
          touched,    \* of the parent and the directory: names changed since it looked
          stat, got,  \* per file: what it was, and what was read
          readAt      \* changes by others when it last looked (history)

reading == <<rpc, rleaf, target, touched, stat, got, readAt>>

Unread == [i \in Owned |-> Ours("none")]

ReadInit == /\ Init
            /\ rpc = "receipt" /\ rleaf = 1 /\ target = NoEntry
            /\ touched = {} /\ stat = Unread /\ got = Unread /\ readAt = 0

--------------------------------------------------------------------------------
Finished == {"ok", "error", "lost"}

ReadFails == /\ rpc \notin Finished \cup {"receipt"} /\ rpc' = "error"
             /\ UNCHANGED <<rleaf, target, touched, stat, got, readAt>>

(* A publication has returned a receipt.                                   *)
Receive(p) == /\ rpc = "receipt" /\ out[p] = "ok"
              /\ target' = p /\ rpc' = "parent"
              /\ UNCHANGED <<rleaf, touched, stat, got, readAt>>

(* Mutant: the files are not looked at again.                              *)
SameWithoutFiles ==
  /\ parentOk /\ touched = {}

(* checkStorage of the reader.                                             *)
Same ==
  /\ parentOk /\ touched = {}
  /\ \A i \in Owned : stat[i].data # "none" => node[target][i] = stat[i]

OpenParent == /\ rpc = "parent" /\ parentOk
              /\ rpc' = "directory"
              /\ UNCHANGED <<rleaf, target, touched, stat, got, readAt>>

(* Another directory than the target is read in vain: the digest of the    *)
(* receipt is not that of its manifest.                                    *)
OpenDirectory == /\ rpc = "directory" /\ Same
                 /\ entry[Dest] = target
                 /\ rpc' = "list"
                 /\ UNCHANGED <<rleaf, target, touched, stat, got, readAt>>

(* checkListing: exactly the expected names.                               *)
ListDirectory == /\ rpc \in {"list", "relist"} /\ Same
                 /\ Present(target) = Owned
                 /\ rpc' = IF rpc = "list" THEN "stat" ELSE "settle"
                 /\ UNCHANGED <<rleaf, target, touched, stat, got, readAt>>

(* The files are gone through three times.                                 *)
GoOn(next) == IF rleaf < N THEN rleaf' = rleaf + 1 /\ UNCHANGED rpc
                           ELSE rleaf' = 1 /\ rpc' = next

StatFile == /\ rpc = "stat" /\ Same
            /\ node[target][rleaf].data # "none"
            /\ stat' = [stat EXCEPT ![rleaf] = node[target][rleaf]]
            /\ GoOn("read")
            /\ UNCHANGED <<target, touched, got, readAt>>

ReadFile == /\ rpc = "read" /\ Same
            /\ got' = [got EXCEPT ![rleaf] = node[target][rleaf]]
            /\ GoOn("again")
            /\ UNCHANGED <<target, touched, stat, readAt>>

VerifyFile == /\ rpc = "again" /\ Same
              /\ GoOn("relist")
              /\ UNCHANGED <<target, touched, stat, got, readAt>>

(* The check that follows the last listing.                                *)
Settled == /\ rpc = "settle" /\ Same
           /\ rpc' = "verify" /\ readAt' = changes
           /\ UNCHANGED <<rleaf, target, touched, stat, got>>

(* VerifyBundle: the digests of the manifest, which has that of the receipt. *)
Intact == \A i \in Owned : got[i].data = "whole"

VerifyContents == /\ rpc = "verify"
                  /\ rpc' = IF Intact THEN "ok" ELSE "error"
                  /\ UNCHANGED <<rleaf, target, touched, stat, got, readAt>>

Reads == \/ ReadFails \/ OpenParent \/ OpenDirectory \/ ListDirectory
         \/ StatFile \/ ReadFile \/ VerifyFile \/ Settled \/ VerifyContents
         \/ \E p \in Publishers : Receive(p)

--------------------------------------------------------------------------------
(* What the steps of the others do to the directories a reader has opened; *)
(* a power loss ends it.                                                   *)
Renamed(p) == \E l \in Leaves : /\ node'[p][l] # node[p][l]
                                /\ \/ node'[p][l].data \in {"none", "alien"}
                                   \/ node[p][l].data = "none"

Opened == (IF rpc \in Finished \cup {"receipt", "parent"} THEN {} ELSE {"parent"})
          \cup (IF rpc \in Finished \cup {"receipt", "parent", "directory"} THEN {}
                ELSE {"directory"})

Watch ==
  /\ touched' = touched \cup {d \in Opened : IF d = "parent" THEN entry' # entry
                                                             ELSE Renamed(target)}
  /\ rpc' = IF losses' # losses /\ rpc \notin Finished \cup {"receipt"} THEN "lost" ELSE rpc
  /\ UNCHANGED <<rleaf, target, stat, got, readAt>>

ReadNext == \/ Next /\ Watch
            \/ Reads /\ UNCHANGED vars

ReadSpec == ReadInit /\ [][ReadNext]_<<vars, reading>>

--------------------------------------------------------------------------------
(* What is read with a receipt is the bundle that was published, all of it  *)
(* at one moment: until somebody changes something again it is what is     *)
(* there, power loss or not (read_directory_darwin.go:102-114).            *)
ReadIsThere ==
  rpc = "ok" /\ changes = readAt =>
    entry[Dest] = target /\ Complete(target) /\ \A i \in Owned : got[i] = node[target][i]
================================================================================

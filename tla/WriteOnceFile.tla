----------------------------- MODULE WriteOnceFile -----------------------------
(***************************************************************************)
(* What fssecure promises about a private file (the integrity key, a saved *)
(* plan, an export): several writers may try to publish it, at most one    *)
(* does, the file is complete from the moment it has its name, and nobody  *)
(* replaces it afterwards.  A writer that reports success is the one whose *)
(* file is there; a writer that is refused was refused because of a file   *)
(* of another writer.  PrivateFile implements this module.                 *)
(***************************************************************************)
CONSTANTS Writers,   \* the attempts to publish; a writer is also its content
          NoFile     \* the name is free

VARIABLES file,      \* whose content the name holds
          outcome    \* what each attempt has come to

vars == <<file, outcome>>

Outcomes == {"waiting", "published", "ok", "refused", "failed", "crashed"}

TypeOK == /\ file \in Writers \cup {NoFile}
          /\ outcome \in [Writers -> Outcomes]

Init == /\ file = NoFile
        /\ outcome = [w \in Writers |-> "waiting"]

Become(w, o) == outcome' = [outcome EXCEPT ![w] = o]

(* The one step that gives the name its content.                           *)
Publish(w) == /\ outcome[w] = "waiting"
              /\ file = NoFile
              /\ file' = w
              /\ Become(w, "published")

Succeed(w) == /\ outcome[w] = "published"
              /\ Become(w, "ok")
              /\ UNCHANGED file

Refuse(w) == /\ outcome[w] = "waiting"
             /\ file \notin {NoFile, w}
             /\ Become(w, "refused")
             /\ UNCHANGED file

(* A failure may be reported before the publication or, because of the     *)
(* cleanup that follows it, after it.                                      *)
Fail(w) == /\ outcome[w] \in {"waiting", "published"}
           /\ Become(w, "failed")
           /\ UNCHANGED file

Crash(w) == /\ outcome[w] \in {"waiting", "published"}
            /\ Become(w, "crashed")
            /\ UNCHANGED file

(* A power loss ends every writer that had started and may forget the name,*)
(* never give it other content.                                            *)
PowerLoss == /\ file' \in {file, NoFile}
             /\ \E started \in SUBSET Writers :
                  /\ \A w \in Writers \ started : outcome[w] = "waiting"
                  /\ outcome' = [w \in Writers |-> IF w \in started THEN "crashed"
                                                   ELSE outcome[w]]

Next == \/ \E w \in Writers : \/ Publish(w) \/ Succeed(w) \/ Refuse(w)
                              \/ Fail(w) \/ Crash(w)
        \/ PowerLoss

Spec == Init /\ [][Next]_vars

(* A success is never a lie: whoever was told that the file was published  *)
(* owns the content under the name, and whoever was refused was refused by *)
(* somebody else's complete file (WritePrivateFile's nil and fs.ErrExist). *)
HonestOutcomes ==
  \A w \in Writers : /\ outcome[w] \in {"published", "ok"} => file = w
                     /\ outcome[w] = "refused" => file \notin {NoFile, w}
================================================================================

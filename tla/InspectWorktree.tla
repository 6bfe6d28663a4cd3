---------------------------- MODULE InspectWorktree ----------------------------
(***************************************************************************)
(* git.Client.InspectWorktree: one worktree is described by a dozen runs of *)
(* git and reads of its administrative directory, each of which finds its  *)
(* own way from the path of the worktree, while other processes replace    *)
(* the directory, its marker, the registration, the index and HEAD.        *)
(*                                                                         *)
(* The marker is the .git of the worktree: git run there acts on the       *)
(* administrative directory it leads to.  The main worktree of a           *)
(* repository has the common directory itself for that.  A directory at    *)
(* the path, and a content of an index, is known by a number no other has. *)
(***************************************************************************)
EXTENDS Integers

CONSTANTS Admins, Repos, Owner, Main, \* administrative directories; each repository's own
          Branches, Commits, Detached,
          Listings,    \* what `git worktree list` may have said of the worktree
          MaxChanges,  \* bound: changes by others
          None

ASSUME InspectAssumption ==
  /\ Owner \in [Admins -> Repos] /\ Main \in [Repos -> Admins]
  /\ \A r \in Repos : Owner[Main[r]] = r
  /\ Detached \notin Branches
  /\ Listings \subseteq [primary : BOOLEAN, branch : Branches \cup {Detached}, commit : Commits]
  /\ MaxChanges \in Nat /\ None \notin Admins \cup Repos

Versions == 0..MaxChanges
Contents == [link   : BOOLEAN,   \* it names the path of the worktree (gitdir)
             index  : Versions,
             shared : BOOLEAN,   \* there is a sharedindex.* next to the index
             branch : Branches \cup {Detached},
             commit : Commits]

VARIABLES root, marker,    \* the directory at the path, and where its marker leads
          admin,           \* what is in each administrative directory
          anchor,          \* the repository of the repository root
          changes, past, returned, \* changes by others; markers of before; one came back (history)
          listing,         \* what was listed of the worktree
          pc, recheck,
          common, adm,     \* CommonGitDir and AdminDir of the answer
          rootSeen,        \* the directory the routing began with
          command, probe, fresh, \* an index command, where it was checked, what changed since (history)
          got,             \* hashes and answers
          acted,           \* the administrative directories that git acted on (history)
          ranOnShared,     \* an index command met a shared index its check should have met (history)
          failed, safe     \* collection errors; PathSafe

world    == <<root, marker, admin, anchor, changes, past, returned>>
callVars == <<pc, recheck, common, adm, rootSeen, command, probe, fresh, got, acted,
              ranOnShared, failed, safe>>
vars     == <<world, listing, callVars>>

Nothing == [index |-> None, hashed |-> None, status |-> None, branch |-> None, commit |-> None]

Init ==
  /\ listing \in Listings
  /\ root = 0 /\ marker \in Admins /\ anchor = Owner[marker]
  /\ (marker = Main[anchor]) = listing.primary
  /\ admin = [a \in Admins |-> [link |-> TRUE, index |-> 0, shared |-> FALSE,
                                branch |-> listing.branch, commit |-> listing.commit]]
  /\ changes = 0 /\ past = {} /\ returned = FALSE
  /\ pc = "root" /\ recheck = FALSE /\ common = None /\ adm = None /\ rootSeen = None
  /\ command = "ls-files" /\ probe = None /\ fresh = {} /\ got = Nothing
  /\ acted = {} /\ ranOnShared = FALSE /\ failed = FALSE /\ safe = TRUE

--------------------------------------------------------------------------------
(* What git finds when it is run in the worktree.                          *)
InRepository == marker \in Admins

(* A failure that leaves the path itself in doubt ends the inspection.     *)
GiveUp == /\ pc' = "done" /\ failed' = TRUE /\ safe' = FALSE
          /\ UNCHANGED <<recheck, common, adm, rootSeen, command, probe, fresh, got, acted,
                         ranOnShared>>

GoTo(step) == /\ pc' = step
              /\ UNCHANGED <<recheck, command, probe, fresh, got, acted, ranOnShared, failed, safe>>

(* verifyWorktreeRoot: git finds its worktree at the path, not above it.   *)
VerifyRoot ==
  /\ pc = "root"
  /\ \/ InRepository /\ GoTo("common") /\ UNCHANGED <<common, adm, rootSeen>>
     \/ GiveUp

(* The common directory, as the repository root leads to it.               *)
CommonDirectory ==
  /\ pc = "common"
  /\ \/ anchor # None /\ common' = anchor /\ GoTo("effective") /\ UNCHANGED <<adm, rootSeen>>
     \/ GiveUp

(* verifyCommonGitDir: the worktree leads to it too.                       *)
VerifyCommon ==
  /\ pc = "effective"
  /\ \/ /\ InRepository /\ Owner[marker] = common
        /\ GoTo("admin") /\ UNCHANGED <<common, adm, rootSeen>>
     \/ GiveUp

AdminDirectory ==
  /\ pc = "admin"
  /\ \/ InRepository /\ adm' = marker /\ GoTo("identity") /\ UNCHANGED <<common, rootSeen>>
     \/ GiveUp

(* verifyInspectionRouting: the administrative directory is the one of a   *)
(* main worktree, or a registration, as listed; ...                        *)
RoutingIdentity ==
  /\ pc = "identity"
  /\ \/ /\ (Main[common] = adm) = listing.primary
        /\ Owner[adm] = common
        /\ rootSeen' = root
        /\ GoTo("forward") /\ UNCHANGED <<common, adm>>
     \/ GiveUp

Routed == IF recheck THEN "done" ELSE "split"

(* ... the marker leads to it, ...                                         *)
RoutingForward ==
  /\ pc = "forward"
  /\ \/ /\ marker = adm
        /\ GoTo(IF listing.primary THEN Routed ELSE "backward")
        /\ UNCHANGED <<common, adm, rootSeen>>
     \/ GiveUp

(* ... and it leads back to the directory that was there when this began.  *)
RoutingBackward ==
  /\ pc = "backward"
  /\ \/ /\ admin[adm].link /\ root = rootSeen
        /\ GoTo(Routed) /\ UNCHANGED <<common, adm, rootSeen>>
     \/ GiveUp

--------------------------------------------------------------------------------
identityVars == <<recheck, common, adm, rootSeen>>
commandVars  == <<command, probe, fresh, acted, ranOnShared>>

(* The inspection ends early, with no doubt about the path.                *)
RejectSplit ==
  /\ pc = "split"
  /\ \/ ~admin[adm].shared /\ pc' = "index" /\ UNCHANGED failed
     \/ pc' = "done" /\ failed' = TRUE
  /\ UNCHANGED <<identityVars, commandVars, got, safe>>

HashIndex ==
  /\ pc = "index" /\ pc' = "files"
  /\ \/ got' = [got EXCEPT !.index = admin[adm].index] /\ UNCHANGED failed
     \/ failed' = TRUE /\ UNCHANGED got
  /\ UNCHANGED <<identityVars, commandVars, safe>>

(* What of an administrative directory is hashed: not the commit of a      *)
(* branch, which is in the common directory.                               *)
Hashed(a) == [link |-> admin[a].link, index |-> admin[a].index, branch |-> admin[a].branch,
              commit |-> IF admin[a].branch = Detached THEN admin[a].commit ELSE None]

HashFiles ==
  /\ pc = "files"
  /\ \/ got' = [got EXCEPT !.hashed = Hashed(adm)] /\ UNCHANGED failed
     \/ failed' = TRUE /\ UNCHANGED got
  /\ pc' = IF failed' THEN "done" ELSE "filters"
  /\ UNCHANGED <<identityVars, commandVars, safe>>

(* An error of the status is kept, and the inspection goes on.             *)
StatusFails == pc' = "head" /\ failed' = TRUE /\ UNCHANGED <<commandVars, got>>

RejectFilters ==
  /\ pc = "filters"
  /\ \/ InRepository /\ pc' = "probe" /\ UNCHANGED <<commandVars, got, failed>>
     \/ StatusFails
  /\ UNCHANGED <<identityVars, safe>>

(* run: before a command that reads the index, the administrative          *)
(* directory is found once more, ...                                       *)
Probe ==
  /\ pc = "probe"
  /\ \/ /\ InRepository
        /\ probe' = marker /\ fresh' = {} /\ pc' = "check"
        /\ UNCHANGED <<command, acted, ranOnShared, got, failed>>
     \/ StatusFails
  /\ UNCHANGED <<identityVars, safe>>

(* Mutant: not checked again for the status.                               *)
CheckSharedOnce ==
  /\ pc = "check"
  /\ \/ /\ command = "ls-files" => ~admin[probe].shared
        /\ pc' = "run" /\ UNCHANGED <<commandVars, got, failed>>
     \/ StatusFails
  /\ UNCHANGED <<identityVars, safe>>

(* ... and must have no shared index.                                      *)
CheckShared ==
  /\ pc = "check"
  /\ \/ ~admin[probe].shared /\ pc' = "run" /\ UNCHANGED <<commandVars, got, failed>>
     \/ StatusFails
  /\ UNCHANGED <<identityVars, safe>>

Seen(a) == [index |-> admin[a].index, branch |-> admin[a].branch]

(* rejectUnsafeIndex, and then the status itself.                          *)
RunIndexCommand ==
  /\ pc = "run"
  /\ \/ /\ InRepository
        /\ acted' = acted \cup {marker}
        /\ ranOnShared' = (ranOnShared \/ (admin[marker].shared /\ marker \notin fresh))
        /\ IF command = "ls-files"
           THEN command' = "status" /\ pc' = "probe" /\ UNCHANGED got
           ELSE pc' = "head" /\ got' = [got EXCEPT !.status = Seen(marker)] /\ UNCHANGED command
        /\ UNCHANGED <<probe, fresh, failed>>
     \/ StatusFails
  /\ UNCHANGED <<identityVars, safe>>

restOfAnswer == <<identityVars, command, probe, fresh, ranOnShared, safe>>

(* HEAD and the branch must be as listed.                                  *)
Head ==
  /\ pc = "head" /\ pc' = "branch"
  /\ \/ /\ InRepository
        /\ acted' = acted \cup {marker}
        /\ got' = [got EXCEPT !.commit = admin[marker].commit]
        /\ failed' = (failed \/ got'.commit # listing.commit)
     \/ failed' = TRUE /\ UNCHANGED <<got, acted>>
  /\ UNCHANGED restOfAnswer

Branch ==
  /\ pc = "branch"
  /\ pc' = IF listing.branch = Detached THEN "recoverable" ELSE "upstream"
  /\ \/ /\ InRepository
        /\ acted' = acted \cup {marker}
        /\ got' = [got EXCEPT !.branch = admin[marker].branch]
        /\ failed' = (failed \/ got'.branch # listing.branch)
     \/ failed' = TRUE /\ UNCHANGED <<got, acted>>
  /\ UNCHANGED restOfAnswer

Answer == /\ \/ InRepository /\ acted' = acted \cup {marker} /\ UNCHANGED failed
             \/ failed' = TRUE /\ UNCHANGED acted
          /\ UNCHANGED got

Upstream    == pc = "upstream" /\ pc' = "recoverable" /\ Answer /\ UNCHANGED restOfAnswer
Recoverable == pc = "recoverable" /\ pc' = "time" /\ Answer /\ UNCHANGED restOfAnswer

(* Mutant: the index is hashed at the end.                                 *)
CommitTimeHashes ==
  /\ pc = "time"
  /\ \/ InRepository /\ acted' = acted \cup {marker} /\ UNCHANGED failed
     \/ failed' = TRUE /\ UNCHANGED acted
  /\ got' = [got EXCEPT !.index = admin[adm].index]
  /\ IF failed' THEN pc' = "done" /\ UNCHANGED recheck ELSE pc' = "identity" /\ recheck' = TRUE
  /\ UNCHANGED <<common, adm, rootSeen, command, probe, fresh, ranOnShared, safe>>

(* Mutant: the routing is not checked again.                               *)
CommitTimeEnds ==
  /\ pc = "time"
  /\ Answer
  /\ pc' = "done"
  /\ UNCHANGED <<recheck, common, adm, rootSeen, command, probe, fresh, ranOnShared, safe>>

(* The time of the commit; and when nothing failed, the routing once more. *)
CommitTime ==
  /\ pc = "time"
  /\ Answer
  /\ IF failed' THEN pc' = "done" /\ UNCHANGED recheck ELSE pc' = "identity" /\ recheck' = TRUE
  /\ UNCHANGED <<common, adm, rootSeen, command, probe, fresh, ranOnShared, safe>>

Inspect ==
  \/ VerifyRoot \/ CommonDirectory \/ VerifyCommon \/ AdminDirectory
  \/ RoutingIdentity \/ RoutingForward \/ RoutingBackward
  \/ RejectSplit \/ HashIndex \/ HashFiles
  \/ RejectFilters \/ Probe \/ CheckShared \/ RunIndexCommand
  \/ Head \/ Branch \/ Upstream \/ Recoverable \/ CommitTime

--------------------------------------------------------------------------------
(* The other processes, until the inspection has ended.                    *)
Change == pc # "done" /\ changes < MaxChanges /\ changes' = changes + 1

(* Another directory is put at the path, or the marker is rewritten; None  *)
(* when it is gone or leads nowhere, which a pruned registration does too. *)
Remark(m, r) ==
  /\ Change
  /\ m # marker \/ r # root
  /\ marker' = m /\ root' = r
  /\ past' = IF m = marker THEN past ELSE past \cup {marker}
  /\ returned' = (returned \/ (m # marker /\ m \in past))
  /\ fresh' = fresh \cup {m}
  /\ UNCHANGED <<admin, anchor, recheck, common, adm, rootSeen, pc, command, probe, got,
                 acted, ranOnShared, failed, safe>>

Rewrite(a, c) == /\ Change /\ admin' = [admin EXCEPT ![a] = c]
                 /\ UNCHANGED <<root, marker, anchor, past, returned>>

(* git worktree move or repair.                                            *)
Relink(a) == /\ Rewrite(a, [admin[a] EXCEPT !.link = ~@]) /\ UNCHANGED callVars

(* git add, commit, checkout.                                              *)
Update(a, b, c) ==
  /\ Rewrite(a, [admin[a] EXCEPT !.index = changes', !.branch = b, !.commit = c])
  /\ UNCHANGED callVars

(* A ref is moved without the worktree.                                    *)
MoveBranch(a, c) ==
  /\ admin[a].branch # Detached /\ c # admin[a].commit
  /\ Rewrite(a, [admin[a] EXCEPT !.commit = c])
  /\ UNCHANGED callVars

(* git update-index --split-index, or --no-split-index.                    *)
Share(a) ==
  /\ Rewrite(a, [admin[a] EXCEPT !.shared = ~@])
  /\ fresh' = fresh \cup {a}
  /\ UNCHANGED <<pc, recheck, common, adm, rootSeen, command, probe, got, acted, ranOnShared,
                 failed, safe>>

(* Another repository is put at the repository root, or none.              *)
Reanchor(r) ==
  /\ Change /\ r # anchor /\ anchor' = r
  /\ UNCHANGED <<root, marker, admin, past, returned, callVars>>

Others ==
  \/ \E m \in Admins \cup {None} : Remark(m, root) \/ Remark(m, changes + 1)
  \/ \E a \in Admins :
       \/ Relink(a) \/ Share(a)
       \/ \E b \in Branches \cup {Detached}, c \in Commits : Update(a, b, c)
       \/ \E c \in Commits : MoveBranch(a, c)
  \/ \E r \in Repos \cup {None} : Reanchor(r)

Next == \/ Inspect /\ UNCHANGED <<world, listing>>
        \/ Others /\ UNCHANGED listing

Spec == Init /\ [][Next]_vars

--------------------------------------------------------------------------------
(* GitStateKnown.                                                          *)
Known == pc = "done" /\ ~failed

(* Every answer of a complete description was given by the administrative  *)
(* directory that it names, which is the one of a main worktree exactly    *)
(* when a main worktree was listed, and belongs to the repository; unless  *)
(* a marker was replaced and put back meanwhile (client.go:406-412).       *)
KnownIsOfRegistered ==
  Known /\ ~returned => /\ acted = {adm} /\ safe
                        /\ Owner[adm] = common
                        /\ (adm = Main[common]) = listing.primary

(* The hashes of a complete description vouch for what it says: as long as *)
(* the index and the administrative files still have them, the status was  *)
(* computed from that index, and HEAD names the branch that was reported   *)
(* (client.go:347-359: hashed before they are used).                       *)
HashesVouch ==
  Known /\ ~returned =>
    /\ admin[adm].index = got.index => got.status.index = got.index
    /\ Hashed(adm) = got.hashed =>
         /\ got.status.branch = got.hashed.branch
         /\ got.branch = got.hashed.branch /\ got.branch = listing.branch

(* No index command is run where a shared index has been since before the  *)
(* check of that very command: git would have to open, and may refresh, it *)
(* (client.go:52-56, readonly_index.go:70-163).                            *)
IndexStaysUnread == ~ranOnShared
================================================================================

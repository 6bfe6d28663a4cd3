------------------------- MODULE InspectWorktreeProofs -------------------------
(***************************************************************************)
(* InspectWorktree for any repositories, listings and number of changes:   *)
(* whom a complete description is of, what its hashes vouch for, and what  *)
(* the index commands meet.                                                *)
(***************************************************************************)
EXTENDS InspectWorktree, TLAPS

Early == {"root", "common", "effective", "admin"}
Steps == Early \cup {"identity", "forward", "backward", "split", "index", "files", "filters",
                     "probe", "check", "run", "head", "branch", "upstream", "recoverable",
                     "time", "done"}
Heads == Branches \cup {Detached}
Files == [link : BOOLEAN, index : Nat, shared : BOOLEAN, branch : Heads, commit : Commits]

WorldTypes == /\ listing \in [primary : BOOLEAN, branch : Heads, commit : Commits]
              /\ marker \in Admins \cup {None} /\ past \subseteq Admins \cup {None}
              /\ returned \in BOOLEAN
              /\ changes \in Nat
              /\ admin \in [Admins -> Files]
              /\ \A a \in Admins : admin[a].index <= changes

CallTypes == /\ pc \in Steps /\ recheck \in BOOLEAN /\ failed \in BOOLEAN
             /\ acted \subseteq Admins
             /\ pc \in {"check", "run"} => probe \in Admins
             /\ DOMAIN got = {"index", "hashed", "status", "branch", "commit"}

(* The check of the command at hand: it found no shared index, and what has *)
(* changed since is fresh.                                                 *)
SharedInv == /\ ~ranOnShared
             /\ pc \in {"check", "run"} => marker = probe \/ marker \in fresh
             /\ pc = "run" /\ admin[probe].shared => probe \in fresh

Types == WorldTypes /\ CallTypes

Tail == {"head", "branch", "upstream", "recoverable", "time"}

(* The marker leads where it led when the administrative directory was     *)
(* found, or the last check of the routing has just seen that it does; and *)
(* none was put back meanwhile, so it has led there throughout.            *)
OnAdm == /\ pc \notin Early /\ ~returned
         /\ marker = adm \/ (recheck /\ pc \in {"backward", "done"})

Routing == /\ safe
           /\ pc = "done" => recheck
           /\ recheck => pc \in {"identity", "forward", "backward", "done"}
           /\ pc \in Early => acted = {}
           /\ recheck \/ pc \in Tail => acted # {}
           /\ pc \notin Early => adm \in Admins /\ (adm = marker \/ adm \in past)
           /\ OnAdm => acted \subseteq {adm}
           /\ pc \notin Early \cup {"identity"} =>
                Owner[adm] = common /\ (adm = Main[common]) = listing.primary

RoutingInv == ~failed => Routing

Before      == Early \cup {"identity", "forward", "backward", "split", "index"}
IndexHashed == recheck \/ pc \notin Before
FilesHashed == recheck \/ pc \notin Before \cup {"files"}
StatusKnown == recheck \/ pc \in Tail
BranchKnown == recheck \/ pc \in {"upstream", "recoverable", "time"}

(* An index and the files beside it only move on, so that each answer lies *)
(* between what was hashed and what is there now.                          *)
Vouching ==
  /\ IndexHashed => got.index \in Nat /\ got.index <= admin[adm].index
  /\ FilesHashed => /\ got.hashed.index \in Nat /\ got.hashed.index <= admin[adm].index
                    /\ got.hashed.index = admin[adm].index => got.hashed.branch = admin[adm].branch
  /\ StatusKnown /\ OnAdm =>
       /\ got.status.index \in Nat /\ got.status.index <= admin[adm].index
       /\ got.index <= got.status.index /\ got.hashed.index <= got.status.index
       /\ got.hashed.index = got.status.index => got.hashed.branch = got.status.branch
  /\ BranchKnown => got.branch = listing.branch
  /\ BranchKnown /\ OnAdm =>
       (got.hashed.index = admin[adm].index => got.branch = admin[adm].branch)

VouchingInv == ~failed => Vouching

LEMMA InitTypes == Init => Types /\ SharedInv
<1> SUFFICES ASSUME Init PROVE Types /\ SharedInv
  OBVIOUS
<1>1. listing \in [primary : BOOLEAN, branch : Heads, commit : Commits]
  BY InspectAssumption DEF Init, InspectAssumption, Heads
<1>2. admin \in [Admins -> Files] /\ changes = 0
  BY <1>1 DEF Init, Files
<1>3. marker \in Admins /\ past = {} /\ returned = FALSE /\ changes = 0
  BY DEF Init
<1>4. WorldTypes
  <2>1. past \subseteq Admins \cup {None} /\ marker \in Admins \cup {None}
    BY <1>3
  <2>2. returned \in BOOLEAN
    BY <1>3
  <2>3. ASSUME NEW a \in Admins PROVE admin[a].index <= changes
    <3>1. admin[a].index = 0
      BY DEF Init
    <3>2. QED
      BY <1>2, <3>1
  <2>4. QED
    BY <1>1, <1>2, <1>3, <2>1, <2>2, <2>3 DEF WorldTypes
<1>5. CallTypes /\ SharedInv
  BY <1>2 DEF Init, CallTypes, SharedInv, Nothing, Steps, Early
<1>6. QED
  BY <1>4, <1>5 DEF Types

(* What others write is an administrative directory again.                 *)
LEMMA Rewritten ==
  ASSUME NEW f \in Files
  PROVE  /\ [f EXCEPT !.link = ~@] \in Files /\ [f EXCEPT !.link = ~@].index = f.index
         /\ [f EXCEPT !.shared = ~@] \in Files /\ [f EXCEPT !.shared = ~@].index = f.index
         /\ \A c \in Commits : /\ [f EXCEPT !.commit = c] \in Files
                               /\ [f EXCEPT !.commit = c].index = f.index
         /\ \A i \in Nat, b \in Heads, c \in Commits :
              /\ [f EXCEPT !.index = i, !.branch = b, !.commit = c] \in Files
              /\ [f EXCEPT !.index = i, !.branch = b, !.commit = c].index = i
BY DEF Files

LEMMA RewriteTypes ==
  ASSUME WorldTypes, UNCHANGED listing,
         NEW a \in Admins, NEW f \in Files, Rewrite(a, f), f.index <= changes + 1
  PROVE  WorldTypes'
<1>1. \A b \in Admins : admin[b] \in Files /\ admin[b].index \in Nat /\ admin[b].index <= changes
  BY DEF WorldTypes, Files
<1>2. admin' = [admin EXCEPT ![a] = f] /\ changes' = changes + 1
  BY DEF Rewrite, Change
<1>3. f.index \in Nat
  BY DEF Files
<1>4. \A b \in Admins : admin'[b].index <= changes'
  BY <1>1, <1>2, <1>3 DEF WorldTypes
<1>5. QED
  BY <1>1, <1>2, <1>4 DEF WorldTypes, Rewrite

(* The steps of the others, one by one.                                    *)
LEMMA OthersTypes == Types /\ Others /\ UNCHANGED listing => WorldTypes'
<1> SUFFICES ASSUME Types, Others, UNCHANGED listing PROVE WorldTypes'
  OBVIOUS
<1> USE DEF Types, WorldTypes, Change
<1>0. \A a \in Admins : admin[a] \in Files /\ admin[a].index \in Nat
  BY DEF Files
<1>1. CASE \E m \in Admins \cup {None} : Remark(m, root) \/ Remark(m, changes + 1)
  <2>1. /\ changes' = changes + 1 /\ UNCHANGED admin
        /\ marker' \in Admins \cup {None} /\ past' \subseteq past \cup {marker}
    BY <1>1 DEF Remark
  <2>2. returned' \in BOOLEAN
    BY <1>1 DEF Remark
  <2>3. \A a \in Admins : admin'[a].index <= changes'
    BY <1>0, <2>1
  <2>4. QED
    BY <2>1, <2>2, <2>3
<1>2. ASSUME NEW a \in Admins, Relink(a) \/ Share(a) PROVE WorldTypes'
  <2> DEFINE f == [admin[a] EXCEPT !.link = ~@]
             g == [admin[a] EXCEPT !.shared = ~@]
  <2>0. /\ f \in Files /\ f.index = admin[a].index
        /\ g \in Files /\ g.index = admin[a].index
    BY <1>0, Rewritten, Zenon
  <2>1. f.index <= changes + 1 /\ g.index <= changes + 1
    BY <1>0, <2>0
  <2>2. Rewrite(a, f) \/ Rewrite(a, g)
    BY <1>2 DEF Relink, Share
  <2> HIDE DEF f, g
  <2>3. QED
    BY <2>0, <2>1, <2>2, RewriteTypes
<1>3. ASSUME NEW a \in Admins, NEW b \in Heads, NEW c \in Commits, Update(a, b, c)
      PROVE  WorldTypes'
  <2>1. changes' = changes + 1
    BY <1>3 DEF Update, Rewrite
  <2> DEFINE f == [admin[a] EXCEPT !.index = changes', !.branch = b, !.commit = c]
  <2>2. changes' \in Nat
    BY <2>1
  <2>3. f \in Files /\ f.index = changes'
    BY <1>0, <2>2 DEF Files
  <2>4. Rewrite(a, f)
    BY <1>3 DEF Update
  <2> HIDE DEF f
  <2>5. QED
    BY <2>1, <2>2, <2>3, <2>4, RewriteTypes
<1>4. ASSUME NEW a \in Admins, NEW c \in Commits, MoveBranch(a, c) PROVE WorldTypes'
  <2> DEFINE f == [admin[a] EXCEPT !.commit = c]
  <2>0. f \in Files /\ f.index = admin[a].index
    BY <1>0, Rewritten, Zenon
  <2>1. f.index <= changes + 1
    BY <1>0, <2>0
  <2>2. Rewrite(a, f)
    BY <1>4 DEF MoveBranch
  <2> HIDE DEF f
  <2>3. QED
    BY <2>0, <2>1, <2>2, RewriteTypes
<1>5. ASSUME NEW r \in Repos \cup {None}, Reanchor(r) PROVE WorldTypes'
  BY <1>0, <1>5 DEF Reanchor
<1>6. QED
  BY <1>1, <1>2, <1>3, <1>4, <1>5 DEF Others, Heads

LEMMA OthersCall == Others => UNCHANGED <<pc, recheck, common, adm, rootSeen, command, probe, got,
                                          acted, ranOnShared, failed, safe>>
BY DEF Others, Remark, Relink, Share, Update, MoveBranch, Reanchor, Rewrite, callVars

LEMMA InspectTypes == Types /\ Inspect /\ UNCHANGED <<world, listing>> => Types'
<1> SUFFICES ASSUME Types, Inspect, UNCHANGED <<world, listing>> PROVE Types'
  OBVIOUS
<1>1. WorldTypes'
  BY DEF Types, WorldTypes, world
<1>2. CallTypes'
  <2> USE DEF Types, WorldTypes, CallTypes, world, Steps, Early, InRepository, GiveUp, GoTo,
              identityVars, commandVars, restOfAnswer
  <2>1. CASE VerifyRoot \/ CommonDirectory \/ VerifyCommon \/ AdminDirectory
    BY <2>1 DEF VerifyRoot, CommonDirectory, VerifyCommon, AdminDirectory
  <2>2. CASE RoutingIdentity \/ RoutingForward \/ RoutingBackward
    BY <2>2 DEF RoutingIdentity, RoutingForward, RoutingBackward, Routed
  <2>3. CASE RejectSplit \/ HashIndex \/ HashFiles
    BY <2>3 DEF RejectSplit, HashIndex, HashFiles
  <2>4. CASE RejectFilters \/ Probe \/ CheckShared
    BY <2>4 DEF RejectFilters, Probe, CheckShared, StatusFails
  <2>5. CASE RunIndexCommand
    BY <2>5 DEF RunIndexCommand, StatusFails
  <2>6. CASE Head \/ Branch
    BY <2>6 DEF Head, Branch
  <2>7. CASE Upstream \/ Recoverable \/ CommitTime
    BY <2>7 DEF Upstream, Recoverable, CommitTime, Answer
  <2>8. QED
    BY <2>1, <2>2, <2>3, <2>4, <2>5, <2>6, <2>7 DEF Inspect
<1>3. QED
  BY <1>1, <1>2 DEF Types

LEMMA NextTypes == Types /\ [Next]_vars => Types'
<1> SUFFICES ASSUME Types, [Next]_vars PROVE Types'
  OBVIOUS
<1>1. CASE Inspect /\ UNCHANGED <<world, listing>>
  BY <1>1, InspectTypes
<1>2. CASE Others /\ UNCHANGED listing
  BY <1>2, OthersTypes, OthersCall DEF Types, CallTypes
<1>3. CASE UNCHANGED vars
  BY <1>3 DEF vars, Types, WorldTypes, CallTypes, world, callVars
<1>4. QED
  BY <1>1, <1>2, <1>3 DEF Next

LEMMA Typed == Spec => []Types
<1>1. Init => Types
  BY InitTypes
<1>2. QED
  BY <1>1, NextTypes, PTL DEF Spec

--------------------------------------------------------------------------------
LEMMA NextShared == Types /\ SharedInv /\ [Next]_vars => SharedInv'
<1> SUFFICES ASSUME Types, SharedInv, [Next]_vars PROVE SharedInv'
  OBVIOUS
<1> USE DEF SharedInv
<1>1. CASE Inspect /\ UNCHANGED <<world, listing>>
  <2> USE <1>1 DEF world, InRepository, GiveUp, GoTo, identityVars, commandVars, restOfAnswer
  <2>1. CASE VerifyRoot \/ CommonDirectory \/ VerifyCommon \/ AdminDirectory
    BY <2>1 DEF VerifyRoot, CommonDirectory, VerifyCommon, AdminDirectory
  <2>2. CASE RoutingIdentity \/ RoutingForward \/ RoutingBackward
    BY <2>2 DEF RoutingIdentity, RoutingForward, RoutingBackward, Routed
  <2>3. CASE RejectSplit \/ HashIndex \/ HashFiles
    BY <2>3 DEF RejectSplit, HashIndex, HashFiles
  <2>4. CASE RejectFilters \/ Probe \/ CheckShared
    BY <2>4 DEF RejectFilters, Probe, CheckShared, StatusFails
  <2>5. CASE RunIndexCommand
    <3>1. ~(admin[marker].shared /\ marker \notin fresh)
      BY <2>5 DEF RunIndexCommand
    <3>2. ~ranOnShared'
      BY <2>5, <3>1, Zenon DEF RunIndexCommand, StatusFails
    <3>3. pc' \in {"probe", "head"}
      BY <2>5 DEF RunIndexCommand, StatusFails
    <3>4. QED
      BY <3>2, <3>3
  <2>6. CASE Head \/ Branch
    BY <2>6 DEF Head, Branch
  <2>7. CASE Upstream \/ Recoverable \/ CommitTime
    BY <2>7 DEF Upstream, Recoverable, CommitTime, Answer
  <2>8. QED
    BY <2>1, <2>2, <2>3, <2>4, <2>5, <2>6, <2>7 DEF Inspect
<1>2. CASE Others /\ UNCHANGED listing
  <2> USE OthersCall, <1>2 DEF Types, WorldTypes, CallTypes
  <2>1. CASE \E m \in Admins \cup {None} : Remark(m, root) \/ Remark(m, changes + 1)
    BY <2>1 DEF Remark
  <2>2. ASSUME NEW a \in Admins, Share(a) PROVE SharedInv'
    BY <2>2 DEF Share, Rewrite, Files
  <2>3. ASSUME NEW a \in Admins, Relink(a) PROVE SharedInv'
    BY <2>3 DEF Relink, Rewrite, Files, callVars
  <2>4. ASSUME NEW a \in Admins, NEW b \in Branches \cup {Detached}, NEW c \in Commits, Update(a, b, c)
        PROVE  SharedInv'
    BY <2>4 DEF Update, Rewrite, Files, callVars
  <2>5. ASSUME NEW a \in Admins, NEW c \in Commits, MoveBranch(a, c) PROVE SharedInv'
    BY <2>5 DEF MoveBranch, Rewrite, Files, callVars
  <2>6. ASSUME NEW r \in Repos \cup {None}, Reanchor(r) PROVE SharedInv'
    BY <2>6 DEF Reanchor, callVars
  <2>7. QED
    BY <2>1, <2>2, <2>3, <2>4, <2>5, <2>6 DEF Others
<1>3. CASE UNCHANGED vars
  BY <1>3 DEF vars, world, callVars
<1>4. QED
  BY <1>1, <1>2, <1>3 DEF Next

(* Whatever others do, and whichever step fails, git never reads an index  *)
(* next to which a shared index has lain since before the check.           *)
THEOREM IndexUnread == Spec => []IndexStaysUnread
<1>1. Init => SharedInv
  BY InitTypes
<1>2. SharedInv => IndexStaysUnread
  BY DEF SharedInv, IndexStaysUnread
<1>3. QED
  BY <1>1, <1>2, Typed, NextShared, PTL DEF Spec

--------------------------------------------------------------------------------
(* What the others do to a marker, and to the index and HEAD of a worktree. *)
LEMMA OthersMarker ==
  Types /\ Others => \/ UNCHANGED <<marker, past, returned>>
                     \/ /\ past' = past \cup {marker}
                        /\ returned' = (returned \/ marker' \in past)
<1> SUFFICES ASSUME Types, Others
             PROVE  \/ UNCHANGED <<marker, past, returned>>
                    \/ /\ past' = past \cup {marker}
                       /\ returned' = (returned \/ marker' \in past)
  OBVIOUS
<1>1. ASSUME NEW m, NEW r, Remark(m, r)
      PROVE  \/ UNCHANGED <<marker, past, returned>>
             \/ /\ past' = past \cup {marker}
                /\ returned' = (returned \/ marker' \in past)
  <2>1. CASE m = marker
    <3>1. returned' = returned
      BY <1>1, <2>1 DEF Remark, Types, WorldTypes
    <3>2. QED
      BY <1>1, <2>1, <3>1 DEF Remark
  <2>2. CASE m # marker
    BY <1>1, <2>2 DEF Remark
  <2>3. QED
    BY <2>1, <2>2
<1>2. ASSUME NEW a, NEW f, Rewrite(a, f) PROVE UNCHANGED <<marker, past, returned>>
  BY <1>2 DEF Rewrite
<1>3. ASSUME NEW r, Reanchor(r) PROVE UNCHANGED <<marker, past, returned>>
  BY <1>3 DEF Reanchor
<1>4. QED
  BY <1>1, <1>2, <1>3 DEF Others, Relink, Share, Update, MoveBranch

LEMMA OthersMoveOn ==
  Types /\ Others =>
    \A a \in Admins : /\ admin[a].index \in Nat /\ admin'[a].index \in Nat
                      /\ admin[a].index <= admin'[a].index
                      /\ admin[a].index = admin'[a].index => admin[a].branch = admin'[a].branch
<1> DEFINE MovesOn(a) == /\ admin[a].index \in Nat /\ admin'[a].index \in Nat
                         /\ admin[a].index <= admin'[a].index
                         /\ admin[a].index = admin'[a].index =>
                              admin[a].branch = admin'[a].branch
<1> SUFFICES ASSUME Types, Others, NEW a \in Admins PROVE MovesOn(a)
  OBVIOUS
<1>0. /\ \A b \in Admins : admin[b] \in Files /\ admin[b].index \in Nat
      /\ admin[a].index <= changes /\ changes \in Nat /\ admin \in [Admins -> Files]
  BY DEF Types, WorldTypes, Files
<1>1. ASSUME UNCHANGED admin PROVE MovesOn(a)
  BY <1>0, <1>1
<1>2. ASSUME NEW b \in Admins, Relink(b) \/ Share(b) \/ \E c \in Commits : MoveBranch(b, c)
      PROVE  MovesOn(a)
  <2>1. admin'[a].index = admin[a].index /\ admin'[a].branch = admin[a].branch
    BY <1>0, <1>2 DEF Relink, Share, MoveBranch, Rewrite, Files
  <2>2. QED
    BY <1>0, <2>1
<1>3. ASSUME NEW b \in Admins, NEW h, NEW c, Update(b, h, c) PROVE MovesOn(a)
  <2>1. changes' = changes + 1
    BY <1>3 DEF Update, Rewrite, Change
  <2>2. CASE a = b
    <3>1. admin'[a].index = changes'
      BY <1>0, <1>3, <2>2 DEF Update, Rewrite, Files
    <3>2. QED
      BY <1>0, <2>1, <3>1
  <2>3. CASE a # b
    <3>1. admin'[a] = admin[a]
      BY <1>0, <1>3, <2>3 DEF Update, Rewrite
    <3>2. QED
      BY <1>0, <3>1
  <2>4. QED
    BY <2>2, <2>3
<1>4. QED
  <2>1. CASE \E m \in Admins \cup {None} : Remark(m, root) \/ Remark(m, changes + 1)
    BY <2>1, <1>1 DEF Remark
  <2>2. CASE \E r \in Repos \cup {None} : Reanchor(r)
    BY <2>2, <1>1 DEF Reanchor
  <2>3. QED
    BY <1>2, <1>3, <2>1, <2>2 DEF Others

(* What others do leaves the routing an inspection has found.              *)
LEMMA OthersOnAdm == Types /\ Routing /\ Others /\ OnAdm' => OnAdm
<1> SUFFICES ASSUME Types, Routing, Others, OnAdm' PROVE OnAdm
  OBVIOUS
<1> USE OthersCall DEF OnAdm
<1>1. CASE UNCHANGED <<marker, past, returned>>
  BY <1>1
<1>2. CASE past' = past \cup {marker} /\ returned' = (returned \/ marker' \in past)
  <2>1. ~returned /\ marker' \notin past
    BY <1>2
  <2>2. pc \notin Early => adm = marker \/ adm \in past
    BY DEF Routing
  <2>3. QED
    BY <2>1, <2>2
<1>3. QED
  BY <1>1, <1>2, OthersMarker

LEMMA InitRouting == Init => RoutingInv
BY DEF Init, RoutingInv, Routing, OnAdm, Early, Tail

(* A run of git between the two checks of the routing.                     *)
LEMMA RunRouting ==
  ASSUME Routing, UNCHANGED <<marker, past, returned, listing, recheck, common, adm, safe>>,
         pc \notin Early \cup {"identity", "forward", "backward", "done"},
         pc' \notin Early \cup {"identity", "backward", "done"},
         acted' = acted \/ acted' = acted \cup {marker},
         pc' \in Tail => acted' # {}
  PROVE  Routing'
<1>1. OnAdm' => OnAdm /\ marker = adm
  BY DEF OnAdm
<1>2. OnAdm' => acted' \subseteq {adm}
  BY <1>1 DEF Routing
<1>3. ~recheck
  BY DEF Routing
<1>4. QED
  BY <1>2, <1>3 DEF Routing

LEMMA NextRouting == Types /\ RoutingInv /\ [Next]_vars => RoutingInv'
<1> SUFFICES ASSUME Types, RoutingInv, [Next]_vars, ~failed' PROVE Routing'
  BY DEF RoutingInv
<1>1. CASE Inspect /\ UNCHANGED <<world, listing>>
  <2>0. ~failed
    BY <1>1 DEF Inspect, VerifyRoot, CommonDirectory, VerifyCommon, AdminDirectory,
                RoutingIdentity, RoutingForward, RoutingBackward, RejectSplit, HashIndex, HashFiles,
                RejectFilters, Probe, CheckShared, RunIndexCommand, StatusFails, Head, Branch,
                Upstream, Recoverable, CommitTime, Answer, GiveUp, GoTo, commandVars, restOfAnswer
  <2> USE <1>1, <2>0 DEF world, RoutingInv, Routing, OnAdm, Early, Tail, InRepository, GiveUp, GoTo,
                         identityVars, commandVars, restOfAnswer
  <2>1. CASE VerifyRoot \/ CommonDirectory \/ VerifyCommon
    <3>1. /\ pc \in Early /\ pc' \in Early
          /\ UNCHANGED <<recheck, acted, safe>>
      BY <2>1 DEF VerifyRoot, CommonDirectory, VerifyCommon
    <3>2. QED
      BY <3>1
  <2>2. CASE AdminDirectory
    <3>1. /\ pc \in Early /\ pc' = "identity" /\ adm' = marker /\ marker \in Admins
          /\ UNCHANGED <<recheck, acted, safe>>
      BY <2>2 DEF AdminDirectory
    <3>2. QED
      BY <3>1
  <2>3. CASE RoutingIdentity
    <3>1. /\ pc = "identity" /\ pc' = "forward"
          /\ Owner[adm] = common /\ (adm = Main[common]) = listing.primary
          /\ UNCHANGED <<recheck, common, adm, acted, safe>>
      BY <2>3 DEF RoutingIdentity
    <3>2. QED
      BY <3>1
  <2>4. CASE RoutingForward
    <3>1. /\ pc = "forward" /\ pc' \in {"done", "split", "backward"} /\ marker = adm
          /\ pc' = "done" => recheck
          /\ pc' = "split" => ~recheck
          /\ UNCHANGED <<recheck, common, adm, acted, safe>>
      BY <2>4 DEF RoutingForward, Routed
    <3>2. QED
      BY <3>1
  <2>5. CASE RoutingBackward
    <3>1. /\ pc = "backward" /\ recheck \in BOOLEAN
          /\ pc' = IF recheck THEN "done" ELSE "split"
          /\ UNCHANGED <<recheck, common, adm, acted, safe>>
      BY <2>5 DEF RoutingBackward, Routed, Types, CallTypes
    <3>2. CASE recheck
      BY <3>1, <3>2
    <3>3. CASE ~recheck
      BY <3>1, <3>3
    <3>4. QED
      BY <3>1, <3>2, <3>3
  <2>6. CASE RejectSplit \/ HashIndex \/ HashFiles
    <3>1. /\ pc \in {"split", "index", "files"} /\ pc' \in {"index", "files", "filters"}
          /\ UNCHANGED <<identityVars, acted, safe>>
      BY <2>6 DEF RejectSplit, HashIndex, HashFiles
    <3>2. QED
      BY <3>1, RunRouting
  <2>7. CASE RejectFilters \/ Probe \/ CheckShared
    <3>1. /\ pc \in {"filters", "probe", "check"} /\ pc' \in {"probe", "check", "run"}
          /\ UNCHANGED <<identityVars, acted, safe>>
      BY <2>7 DEF RejectFilters, Probe, CheckShared, StatusFails
    <3>2. QED
      BY <3>1, RunRouting
  <2>8. CASE RunIndexCommand
    <3>1. /\ pc = "run" /\ pc' \in {"probe", "head"} /\ acted' = acted \cup {marker}
          /\ UNCHANGED <<identityVars, safe>>
      BY <2>8 DEF RunIndexCommand, StatusFails
    <3>2. QED
      BY <3>1, RunRouting
  <2>9. CASE Head \/ Branch
    <3>1. /\ pc \in {"head", "branch"} /\ pc' \in {"branch", "upstream", "recoverable"}
          /\ acted' = acted \cup {marker}
          /\ UNCHANGED <<identityVars, safe>>
      BY <2>9 DEF Head, Branch
    <3>2. QED
      BY <3>1, RunRouting
  <2>10. CASE Upstream \/ Recoverable
    <3>1. /\ pc \in {"upstream", "recoverable"} /\ pc' \in {"recoverable", "time"}
          /\ acted' = acted \cup {marker}
          /\ UNCHANGED <<identityVars, safe>>
      BY <2>10 DEF Upstream, Recoverable, Answer
    <3>2. QED
      BY <3>1, RunRouting
  <2>11. CASE CommitTime
    BY <2>11 DEF CommitTime, Answer
  <2>12. QED
    BY <2>1, <2>2, <2>3, <2>4, <2>5, <2>6, <2>7, <2>8, <2>9, <2>10, <2>11 DEF Inspect
<1>2. CASE Others /\ UNCHANGED listing
  <2>0. Routing
    BY <1>2, OthersCall DEF RoutingInv
  <2>1. pc \notin Early => adm = marker' \/ adm \in past'
    BY <1>2, <2>0, OthersMarker DEF Routing
  <2>2. OnAdm' => acted \subseteq {adm}
    BY <1>2, <2>0, OthersOnAdm DEF Routing
  <2>3. QED
    BY <1>2, <2>0, <2>1, <2>2, OthersCall DEF Routing
<1>3. CASE UNCHANGED vars
  BY <1>3 DEF vars, world, callVars, RoutingInv, Routing, OnAdm
<1>4. QED
  BY <1>1, <1>2, <1>3 DEF Next

(* A complete description is of one administrative directory throughout,   *)
(* the listed one, unless a marker was put back meanwhile.                 *)
THEOREM KnownRegistered == Spec => []KnownIsOfRegistered
<1>1. Types /\ RoutingInv => KnownIsOfRegistered
  <2> SUFFICES ASSUME RoutingInv, Known, ~returned
               PROVE  /\ acted = {adm} /\ safe
                      /\ Owner[adm] = common
                      /\ (adm = Main[common]) = listing.primary
    BY DEF KnownIsOfRegistered
  <2>1. Routing /\ pc = "done"
    BY DEF RoutingInv, Known
  <2>2. OnAdm
    BY <2>1 DEF OnAdm, Routing, Early
  <2>3. QED
    BY <2>1, <2>2 DEF Routing, Early
<1>2. QED
  BY <1>1, InitRouting, Typed, NextRouting, PTL DEF Spec

--------------------------------------------------------------------------------
(* A step that answers nothing and keeps the index and HEAD.               *)
LEMMA KeepVouching ==
  ASSUME Vouching, UNCHANGED <<admin, got, adm, listing>>,
         IndexHashed' => IndexHashed, FilesHashed' => FilesHashed, StatusKnown' => StatusKnown,
         BranchKnown' => BranchKnown, OnAdm' => OnAdm
  PROVE  Vouching'
BY DEF Vouching

(* Steps of others only move an index on.                                  *)
LEMMA OthersVouching ==
  ASSUME Types, Routing, Vouching, Others, UNCHANGED listing
  PROVE  Vouching'
<1>1. /\ UNCHANGED <<pc, recheck, adm, got, listing>>
      /\ OnAdm' => OnAdm
  BY OthersCall, OthersOnAdm
<1>2. CASE pc \in Early
  <2>1. ~IndexHashed /\ ~FilesHashed /\ ~StatusKnown /\ ~BranchKnown
    BY <1>2 DEF IndexHashed, FilesHashed, StatusKnown, BranchKnown, Before, Early, Tail, Routing
  <2>2. ~IndexHashed' /\ ~FilesHashed' /\ ~StatusKnown' /\ ~BranchKnown'
    BY <1>1, <2>1 DEF IndexHashed, FilesHashed, StatusKnown, BranchKnown
  <2>3. QED
    BY <2>2 DEF Vouching
<1>3. CASE pc \notin Early
  <2> DEFINE old == admin[adm].index
             new == admin'[adm].index
  <2>1. /\ old \in Nat /\ new \in Nat /\ old <= new
        /\ old = new => admin[adm].branch = admin'[adm].branch
    BY <1>3, OthersMoveOn DEF Routing
  <2>2. IndexHashed => got.index \in Nat /\ got.index <= new
    <3>1. IndexHashed => got.index \in Nat /\ got.index <= old
      BY DEF Vouching
    <3> HIDE DEF old, new
    <3>2. QED
      BY <2>1, <3>1
  <2>3. FilesHashed => /\ got.hashed.index \in Nat /\ got.hashed.index <= new
                       /\ got.hashed.index = new => old = new
    <3>1. FilesHashed => got.hashed.index \in Nat /\ got.hashed.index <= old
      BY DEF Vouching
    <3> HIDE DEF old, new
    <3>2. QED
      BY <2>1, <3>1
  <2>4. StatusKnown /\ OnAdm => got.status.index \in Nat /\ got.status.index <= new
    <3>1. StatusKnown /\ OnAdm => got.status.index \in Nat /\ got.status.index <= old
      BY DEF Vouching
    <3> HIDE DEF old, new
    <3>2. QED
      BY <2>1, <3>1
  <2>5. BranchKnown => FilesHashed
    BY DEF BranchKnown, FilesHashed, Before, Early
  <2>6. /\ IndexHashed' = IndexHashed /\ FilesHashed' = FilesHashed
        /\ StatusKnown' = StatusKnown /\ BranchKnown' = BranchKnown
    BY <1>1 DEF IndexHashed, FilesHashed, StatusKnown, BranchKnown
  <2>7. /\ IndexHashed' => (got.index \in Nat /\ got.index <= admin[adm].index)'
        /\ FilesHashed' => (/\ got.hashed.index \in Nat /\ got.hashed.index <= admin[adm].index
                            /\ got.hashed.index = admin[adm].index =>
                                 got.hashed.branch = admin[adm].branch)'
    BY <1>1, <2>1, <2>2, <2>3, <2>6 DEF Vouching
  <2>8. (StatusKnown /\ OnAdm)' =>
          (/\ got.status.index \in Nat /\ got.status.index <= admin[adm].index
           /\ got.index <= got.status.index /\ got.hashed.index <= got.status.index
           /\ got.hashed.index = got.status.index => got.hashed.branch = got.status.branch)'
    BY <1>1, <2>4, <2>6 DEF Vouching
  <2>9. /\ BranchKnown' => (got.branch = listing.branch)'
        /\ (BranchKnown /\ OnAdm)' =>
             (got.hashed.index = admin[adm].index => got.branch = admin[adm].branch)'
    BY <1>1, <2>1, <2>3, <2>5, <2>6 DEF Vouching
  <2>10. QED
    BY <2>7, <2>8, <2>9 DEF Vouching
<1>4. QED
  BY <1>2, <1>3

LEMMA NextVouching == Types /\ RoutingInv /\ VouchingInv /\ [Next]_vars => VouchingInv'
<1> SUFFICES ASSUME Types, RoutingInv, VouchingInv, [Next]_vars, ~failed' PROVE Vouching'
  BY DEF VouchingInv
<1>1. CASE Inspect /\ UNCHANGED <<world, listing>>
  <2>0. ~failed
    BY <1>1 DEF Inspect, VerifyRoot, CommonDirectory, VerifyCommon, AdminDirectory,
                RoutingIdentity, RoutingForward, RoutingBackward, RejectSplit, HashIndex, HashFiles,
                RejectFilters, Probe, CheckShared, RunIndexCommand, StatusFails, Head, Branch,
                Upstream, Recoverable, CommitTime, Answer, GiveUp, GoTo, commandVars, restOfAnswer
  <2>r. Routing /\ Vouching
    BY <2>0 DEF RoutingInv, VouchingInv
  <2>w. UNCHANGED <<admin, marker, returned, past, listing>>
    BY <1>1 DEF world
  <2>a. /\ pc \notin Early => adm \in Admins /\ admin[adm].index \in Nat
        /\ recheck => pc \in {"identity", "forward", "backward", "done"}
        /\ DOMAIN got = {"index", "hashed", "status", "branch", "commit"}
    BY <2>r DEF Types, WorldTypes, CallTypes, Files, Routing
  <2> DEFINE Flags == /\ (IndexHashed' => IndexHashed) /\ (FilesHashed' => FilesHashed)
                      /\ (StatusKnown' => StatusKnown) /\ (BranchKnown' => BranchKnown)
  <2> USE <2>0, <2>w DEF InRepository, GiveUp, GoTo, identityVars, commandVars, restOfAnswer
  <2>1. CASE VerifyRoot \/ CommonDirectory \/ VerifyCommon \/ AdminDirectory
    <3>1. pc \in Early /\ pc' \in Early \cup {"identity"} /\ UNCHANGED <<recheck, got>>
      BY <2>1 DEF VerifyRoot, CommonDirectory, VerifyCommon, AdminDirectory, Early
    <3>2. ~IndexHashed' /\ ~FilesHashed' /\ ~StatusKnown' /\ ~BranchKnown'
      BY <2>a, <3>1 DEF IndexHashed, FilesHashed, StatusKnown, BranchKnown, Before, Early, Tail
    <3>3. QED
      BY <3>2 DEF Vouching
  <2>2. CASE RoutingIdentity \/ RoutingForward \/ RoutingBackward \/ RejectSplit
    <3>1. /\ pc \in {"identity", "forward", "backward", "split"}
          /\ pc' \in {"forward", "backward", "split", "index", "done"}
          /\ pc' = "done" => recheck
          /\ UNCHANGED <<recheck, adm, got>>
      BY <2>2 DEF RoutingIdentity, RoutingForward, RoutingBackward, RejectSplit, Routed
    <3>2. (IndexHashed' => IndexHashed) /\ (FilesHashed' => FilesHashed)
      BY <3>1 DEF IndexHashed, FilesHashed, Before, Early
    <3>3. (StatusKnown' => StatusKnown) /\ (BranchKnown' => BranchKnown)
      BY <3>1 DEF StatusKnown, BranchKnown, Tail
    <3>4. OnAdm' => OnAdm
      BY <2>2, <3>1 DEF OnAdm, Early, RoutingIdentity, RoutingForward, RoutingBackward, RejectSplit
    <3>5. QED
      BY <2>r, <3>1, <3>2, <3>3, <3>4, KeepVouching, Zenon
  <2>3. CASE HashIndex
    <3>1. /\ pc = "index" /\ pc' = "files" /\ ~recheck /\ UNCHANGED <<recheck, adm>>
          /\ got' = [got EXCEPT !.index = admin[adm].index]
      BY <2>3, <2>a DEF HashIndex
    <3>2. ~FilesHashed' /\ ~StatusKnown' /\ ~BranchKnown'
      BY <3>1 DEF FilesHashed, StatusKnown, BranchKnown, Before, Early, Tail
    <3>3. got'.index = admin'[adm'].index /\ got'.index \in Nat
      BY <2>a, <3>1 DEF Early
    <3>4. QED
      BY <3>2, <3>3 DEF Vouching
  <2>4. CASE HashFiles
    <3>1. /\ pc = "files" /\ pc' = "filters" /\ ~recheck /\ UNCHANGED <<recheck, adm>>
          /\ got' = [got EXCEPT !.hashed = Hashed(adm)]
      BY <2>4, <2>a DEF HashFiles
    <3>2. ~StatusKnown' /\ ~BranchKnown' /\ IndexHashed
      BY <3>1 DEF IndexHashed, StatusKnown, BranchKnown, Before, Early, Tail
    <3>3. /\ got'.index = got.index
          /\ got'.hashed.index = admin'[adm'].index /\ got'.hashed.branch = admin'[adm'].branch
      BY <2>a, <3>1 DEF Hashed
    <3>4. admin[adm].index \in Nat
      BY <2>a, <3>1 DEF Early
    <3>5. QED
      BY <2>r, <3>1, <3>2, <3>3, <3>4 DEF Vouching
  <2>5. CASE RejectFilters \/ Probe \/ CheckShared
    <3>1. /\ pc \in {"filters", "probe", "check"} /\ pc' \in {"probe", "check", "run"}
          /\ UNCHANGED <<recheck, adm, got>>
      BY <2>5 DEF RejectFilters, Probe, CheckShared, StatusFails
    <3>2. Flags
      BY <3>1 DEF IndexHashed, FilesHashed, StatusKnown, BranchKnown, Before, Early, Tail
    <3>3. OnAdm' => OnAdm
      BY <3>1 DEF OnAdm, Early
    <3>4. QED
      BY <2>r, <3>1, <3>2, <3>3, KeepVouching, Zenon
  <2>6. CASE RunIndexCommand
    <3>1. pc = "run" /\ ~recheck /\ UNCHANGED <<recheck, adm>>
      BY <2>6, <2>a DEF RunIndexCommand
    <3>2. CASE pc' = "probe" /\ UNCHANGED got
      <4>1. Flags /\ (OnAdm' => OnAdm)
        BY <3>1, <3>2 DEF IndexHashed, FilesHashed, StatusKnown, BranchKnown, Before, Early, Tail,
                          OnAdm
      <4>2. QED
        BY <2>r, <3>1, <3>2, <4>1, KeepVouching, Zenon
    <3>3. CASE pc' = "head" /\ got' = [got EXCEPT !.status = Seen(marker)]
      <4>1. IndexHashed /\ FilesHashed /\ ~BranchKnown' /\ (OnAdm' => (OnAdm /\ marker = adm))
        BY <3>1, <3>3 DEF IndexHashed, FilesHashed, BranchKnown, Before, Early, OnAdm
      <4>2. /\ got'.index = got.index /\ got'.hashed = got.hashed
            /\ got'.status.index = admin[marker].index /\ got'.status.branch = admin[marker].branch
        BY <2>a, <3>3 DEF Seen
      <4>3. admin[adm].index \in Nat
        BY <2>a, <3>1 DEF Early
      <4>4. QED
        BY <2>r, <3>1, <4>1, <4>2, <4>3 DEF Vouching
    <3>4. QED
      BY <2>6, <3>2, <3>3 DEF RunIndexCommand, StatusFails
  <2>7. CASE Head
    <3>1. /\ pc = "head" /\ pc' = "branch" /\ ~recheck /\ UNCHANGED <<recheck, adm>>
          /\ got' = [got EXCEPT !.commit = admin[marker].commit]
      BY <2>7, <2>a DEF Head
    <3>2. /\ IndexHashed /\ FilesHashed /\ StatusKnown /\ ~BranchKnown' /\ (OnAdm' => OnAdm)
      BY <3>1 DEF IndexHashed, FilesHashed, StatusKnown, BranchKnown, Before, Early, Tail, OnAdm
    <3>3. got'.index = got.index /\ got'.hashed = got.hashed /\ got'.status = got.status
      BY <2>a, <3>1
    <3>4. QED
      BY <2>r, <3>1, <3>2, <3>3 DEF Vouching
  <2>8. CASE Branch
    <3>1. /\ pc = "branch" /\ pc' \in {"upstream", "recoverable"} /\ ~recheck
          /\ UNCHANGED <<recheck, adm>>
          /\ got' = [got EXCEPT !.branch = admin[marker].branch]
          /\ got'.branch = listing.branch
      BY <2>8, <2>a DEF Branch
    <3>2. /\ IndexHashed /\ FilesHashed /\ StatusKnown
          /\ OnAdm' => (OnAdm /\ marker = adm)
      BY <3>1 DEF IndexHashed, FilesHashed, StatusKnown, Before, Early, Tail, OnAdm
    <3>3. /\ got'.index = got.index /\ got'.hashed = got.hashed /\ got'.status = got.status
          /\ got'.branch = admin[marker].branch
      BY <2>a, <3>1
    <3>4. QED
      BY <2>r, <3>1, <3>2, <3>3 DEF Vouching
  <2>9. CASE Upstream \/ Recoverable \/ CommitTime
    <3>1. /\ pc \in {"upstream", "recoverable", "time"} /\ ~recheck
          /\ \/ pc' \in {"recoverable", "time"} /\ UNCHANGED recheck
             \/ pc' = "identity"
          /\ UNCHANGED <<adm, got>>
      BY <2>9, <2>a DEF Upstream, Recoverable, CommitTime, Answer
    <3>2. IndexHashed /\ FilesHashed /\ StatusKnown /\ BranchKnown /\ (OnAdm' => OnAdm)
      BY <3>1 DEF IndexHashed, FilesHashed, StatusKnown, BranchKnown, Before, Early, Tail, OnAdm
    <3>3. QED
      BY <2>r, <3>1, <3>2, KeepVouching
  <2>10. QED
    BY <1>1, <2>1, <2>2, <2>3, <2>4, <2>5, <2>6, <2>7, <2>8, <2>9 DEF Inspect
<1>2. CASE Others /\ UNCHANGED listing
  BY <1>2, OthersVouching, OthersCall DEF RoutingInv, VouchingInv
<1>3. CASE UNCHANGED vars
  BY <1>3 DEF vars, world, callVars, VouchingInv, Vouching, IndexHashed, FilesHashed, StatusKnown,
              BranchKnown, OnAdm
<1>4. QED
  BY <1>1, <1>2, <1>3 DEF Next

(* As long as the index and the files beside it still have the hashes of a *)
(* complete description, the status and the branch are what they say.      *)
THEOREM HashedVouches == Spec => []HashesVouch
<1>1. Init => VouchingInv
  BY DEF Init, VouchingInv, Vouching, IndexHashed, FilesHashed, StatusKnown, BranchKnown, Before,
         Early, Tail
<1>2. Types /\ RoutingInv /\ VouchingInv => HashesVouch
  <2> SUFFICES ASSUME RoutingInv, VouchingInv, Known, ~returned
               PROVE  /\ admin[adm].index = got.index => got.status.index = got.index
                      /\ Hashed(adm) = got.hashed =>
                           /\ got.status.branch = got.hashed.branch
                           /\ got.branch = got.hashed.branch /\ got.branch = listing.branch
    BY DEF HashesVouch
  <2>1. Routing /\ Vouching /\ pc = "done" /\ recheck
    BY DEF RoutingInv, VouchingInv, Known, Routing
  <2>2. IndexHashed /\ FilesHashed /\ StatusKnown /\ BranchKnown /\ OnAdm
    BY <2>1 DEF IndexHashed, FilesHashed, StatusKnown, BranchKnown, OnAdm, Early
  <2>3. admin[adm].index = got.index => got.status.index = got.index
    BY <2>1, <2>2 DEF Vouching
  <2>4. ASSUME Hashed(adm) = got.hashed
        PROVE  /\ got.status.branch = got.hashed.branch
               /\ got.branch = got.hashed.branch /\ got.branch = listing.branch
    <3>1. got.hashed.index = admin[adm].index /\ got.hashed.branch = admin[adm].branch
      BY <2>4 DEF Hashed
    <3>2. got.status.index = got.hashed.index
      BY <2>1, <2>2, <3>1 DEF Vouching
    <3>3. QED
      BY <2>1, <2>2, <3>1, <3>2 DEF Vouching
  <2>5. QED
    BY <2>3, <2>4
<1>3. QED
  BY <1>1, <1>2, InitRouting, Typed, NextRouting, NextVouching, PTL DEF Spec
================================================================================

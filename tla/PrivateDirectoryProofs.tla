------------------------- MODULE PrivateDirectoryProofs -------------------------
(***************************************************************************)
(* The publication of a directory and its reader, for any number of        *)
(* publishers, files, names, changes by others and power losses: a bundle  *)
(* is whole under its name, receipts are true, the cleanup removes only    *)
(* what is the publisher's own, the publication implements WriteOnceFile,  *)
(* and what is read with a receipt is there.                               *)
(***************************************************************************)
EXTENDS DirectoryRead, TLAPS

USE DirectoryAssumption

Filling    == {"create", "write", "syncFile", "seal", "readBack"}
Checking   == {"list", "verify", "relist", "syncStaging", "syncParent", "lastList", "rename"}
Confirming == {"listPublished", "verifyPublished", "relistPublished", "syncPublished"}
Cleaning   == {"sweep", "recheck", "unlink"}

IsPublished(p) == "published" \in flags[p]

(* What a publisher knows at each step.                                    *)
ControlInv(p) ==
  /\ pc[p] \in {"lookup", "make"} =>
       name[p] = NoEntry /\ flags[p] = {} /\ children[p] = 0 /\ leaf[p] = 1 /\ tries[p] < MaxTries
  /\ pc[p] \in Filling \cup Checking => flags[p] = {"pinned"} /\ name[p] \in StagingNames
  /\ pc[p] \in Confirming => "failed" \notin flags[p]
  /\ pc[p] \in Cleaning => "failed" \in flags[p] /\ ~IsPublished(p)
  /\ pc[p] \in {"recheck", "unlink"} => "pinned" \in flags[p] /\ name[p] \in StagingNames
  /\ ~IsPublished(p) => name[p] \in StagingNames \cup {NoEntry}
  /\ IsPublished(p) => /\ name[p] = Dest /\ "pinned" \in flags[p]
                       /\ pc[p] \in Confirming \cup {"close", "finish", "done", "crashed"}
  /\ pc[p] \in Confirming \cup {"close", "finish"} /\ "failed" \notin flags[p] => IsPublished(p)
  /\ out[p] # "none" => pc[p] \in {"done", "crashed"}
  /\ out[p] = "ok" => IsPublished(p) /\ "failed" \notin flags[p] /\ okAt[p] <= changes

--------------------------------------------------------------------------------
LEMMA AfterValues ==
  /\ After["lookup"] = "make" /\ After["make"] = "create" /\ After["create"] = "write"
  /\ After["write"] = "syncFile" /\ After["syncFile"] = "seal" /\ After["seal"] = "readBack"
  /\ After["readBack"] = "list" /\ After["list"] = "verify" /\ After["verify"] = "relist"
  /\ After["relist"] = "syncStaging" /\ After["syncStaging"] = "syncParent"
  /\ After["syncParent"] = "lastList" /\ After["lastList"] = "rename"
  /\ After["rename"] = "listPublished" /\ After["listPublished"] = "verifyPublished"
  /\ After["verifyPublished"] = "relistPublished" /\ After["relistPublished"] = "syncPublished"
  /\ After["syncPublished"] = "close"
  /\ Steps = {"lookup", "make", "create", "write", "syncFile", "seal", "readBack", "list",
              "verify", "relist", "syncStaging", "syncParent", "lastList", "rename",
              "listPublished", "verifyPublished", "relistPublished", "syncPublished"}
BY DEF After, Steps

LEMMA TypeParts ==
  /\ Names = StagingNames \cup {Dest} /\ 1 \in Owned /\ Owned \subseteq Leaves /\ Owned \subseteq Nat
  /\ \A data \in Contents : Ours(data) \in Files
  /\ {} \in SUBSET Flags /\ {"pinned"} \in SUBSET Flags /\ {"uncertain"} \in SUBSET Flags
  /\ {"published"} \in SUBSET Flags /\ {"failed"} \in SUBSET Flags
BY DEF Names, Owned, Leaves, Ours, Files, Flags

(* The types, by what changes together.                                    *)
EntryType   == /\ entry \in [Names -> Publishers \cup {Others, NoEntry}]
               /\ diskEntry \in [Names -> Publishers \cup {Others, NoEntry}]
NodeType    == node \in [Publishers -> [Leaves -> Files]]
DiskType    == synced \in [Publishers -> SUBSET Leaves] /\ listed \in [Publishers -> SUBSET Leaves]
NameType    == name \in [Publishers -> Names \cup {NoEntry}]
ChildType   == children \in [Publishers -> 0..N]
SnapType    == snap \in [Publishers -> [Owned -> Files]]
ControlType == /\ pc \in [Publishers -> Steps \cup Ends]
               /\ leaf \in [Publishers -> Owned]
               /\ flags \in [Publishers -> SUBSET Flags]
               /\ tries \in [Publishers -> 0..MaxTries]
               /\ out \in [Publishers -> {"none", "ok", "error"}]
               /\ okAt \in [Publishers -> 0..MaxChanges]
OtherType   == /\ parentOk \in BOOLEAN /\ fresh \in [Publishers -> BOOLEAN]
               /\ changes \in 0..MaxChanges /\ losses \in 0..MaxLosses
TypeGroups  == EntryType /\ NodeType /\ DiskType /\ NameType /\ ChildType /\ SnapType
               /\ ControlType /\ OtherType

LEMMA TypeIsGroups == TypeOK <=> TypeGroups
BY Zenon DEF TypeOK, TypeGroups, EntryType, NodeType, DiskType, NameType, ChildType, SnapType,
             ControlType, OtherType

LEMMA ProceedMoves ==
  ASSUME TypeOK, NEW p \in Publishers, NEW known \in SUBSET Flags, pc[p] \in Steps,
         Proceed(p, known)
  PROVE  \E step \in Steps \cup {"close"}, i \in Owned :
           /\ pc' = [pc EXCEPT ![p] = step] /\ leaf' = [leaf EXCEPT ![p] = i]
           /\ flags' = [flags EXCEPT ![p] = flags[p] \cup known]
           /\ UNCHANGED <<tries, out, okAt>>
           /\ \/ /\ pc[p] \in Reading /\ leaf[p] < N /\ i = leaf[p] + 1
                 /\ step = IF pc[p] = "readBack" THEN "create" ELSE pc[p]
              \/ /\ pc[p] \notin Reading \/ leaf[p] = N
                 /\ step = After[pc[p]]
                 /\ i = IF pc[p] \in Writing THEN leaf[p] ELSE 1
<1> DEFINE more == pc[p] \in Reading /\ leaf[p] < N
           step == IF ~more THEN After[pc[p]] ELSE IF pc[p] = "readBack" THEN "create" ELSE pc[p]
           i == IF more THEN leaf[p] + 1 ELSE IF pc[p] \in Writing THEN leaf[p] ELSE 1
<1>1. leaf[p] \in Owned /\ leaf \in [Publishers -> Owned] /\ flags \in [Publishers -> SUBSET Flags]
  BY DEF TypeOK
<1>2. step \in Steps \cup {"close"}
  BY AfterValues DEF Reading
<1>3. i \in Owned
  BY <1>1 DEF Owned
<1>4. /\ pc' = [pc EXCEPT ![p] = step] /\ leaf' = [leaf EXCEPT ![p] = i]
      /\ flags' = [flags EXCEPT ![p] = flags[p] \cup known]
      /\ UNCHANGED <<tries, out, okAt>>
  BY <1>1 DEF Proceed, Become, Flag
<1>5. ~more => pc[p] \notin Reading \/ leaf[p] = N
  BY <1>1 DEF Owned
<1>. QED
  BY <1>2, <1>3, <1>4, <1>5

LEMMA FailMoves ==
  ASSUME TypeOK, NEW p \in Publishers, NEW known \in SUBSET Flags, Fail(p, known)
  PROVE  /\ pc' = [pc EXCEPT ![p] = IF IsPublished(p) THEN "close" ELSE "sweep"]
         /\ flags' = [flags EXCEPT ![p] = flags[p] \cup known \cup {"failed"}]
         /\ UNCHANGED <<leaf, tries, out, okAt>>
BY DEF Fail, Become, Flag, TypeOK, IsPublished

(* A publisher changes nothing of another one.                             *)
OthersSame(p) ==
  \A q \in Publishers \ {p} :
    /\ node'[q] = node[q] /\ synced'[q] = synced[q] /\ listed'[q] = listed[q]
    /\ pc'[q] = pc[q] /\ leaf'[q] = leaf[q] /\ name'[q] = name[q] /\ tries'[q] = tries[q]
    /\ flags'[q] = flags[q] /\ children'[q] = children[q] /\ snap'[q] = snap[q]
    /\ out'[q] = out[q] /\ okAt'[q] = okAt[q] /\ fresh'[q] = fresh[q]

LEMMA ControlSame ==
  ASSUME TypeOK, NEW p \in Publishers, NEW known \in SUBSET Flags, Proceed(p, known) \/ Fail(p, known)
  PROVE  \A q \in Publishers \ {p} :
           /\ pc'[q] = pc[q] /\ leaf'[q] = leaf[q] /\ tries'[q] = tries[q]
           /\ flags'[q] = flags[q] /\ out'[q] = out[q] /\ okAt'[q] = okAt[q]
BY DEF TypeOK, Proceed, Fail, Become, Flag

LEMMA OthersStay ==
  ASSUME TypeOK, NEW p \in Publishers, Publishes(p)
  PROVE  OthersSame(p) /\ UNCHANGED <<parentOk, changes, losses>>
<1> USE TypeIsGroups DEF OthersSame, disk, bounds, TypeGroups
<1>0. /\ {} \in SUBSET Flags /\ {"pinned"} \in SUBSET Flags /\ {"uncertain"} \in SUBSET Flags
      /\ {"published"} \in SUBSET Flags
  BY DEF Flags
<1>1. CASE Fails(p)
  BY <1>0, <1>1, ControlSame DEF Fails
<1>2. CASE Lookup(p)
  BY <1>0, <1>2, ControlSame DEF Lookup
<1>3. CASE Collide(p)
  BY <1>3 DEF Collide, ControlType, Become, Flag
<1>4. CASE Make(p)
  BY <1>0, <1>4, ControlSame DEF Make, Settle, EntryType, NameType
<1>5. CASE Create(p)
  BY <1>0, <1>5, ControlSame DEF Create, Settle, NodeType, ChildType, Put
<1>6. CASE Write(p)
  BY <1>0, <1>6, ControlSame DEF Write, Settle, NodeType, Put
<1>7. CASE SyncFile(p)
  BY <1>0, <1>7, ControlSame DEF SyncFile, Settle, DiskType
<1>8. CASE Seal(p)
  BY <1>0, <1>8, ControlSame DEF Seal, Settle, SnapType
<1>9. CASE ReadChild(p)
  BY <1>0, <1>9, ControlSame DEF ReadChild
<1>10. CASE CheckListing(p)
  BY <1>0, <1>10, ControlSame DEF CheckListing
<1>11. CASE SyncStaging(p)
  BY <1>0, <1>11, ControlSame DEF SyncStaging, Settle, DiskType
<1>12. CASE SyncParent(p)
  BY <1>0, <1>12, ControlSame DEF SyncParent, Settle
<1>13. CASE Rename(p)
  <2>1. Proceed(p, {"published"})
    BY <1>13 DEF Rename
  <2>2. \A q \in Publishers \ {p} : name'[q] = name[q]
    BY <1>13 DEF Rename, NameType
  <2>. QED
    BY <1>0, <1>13, <2>1, <2>2, ControlSame DEF Rename
<1>14. CASE Sweep(p)
  BY <1>14 DEF Sweep, Leave, Become, ControlType
<1>15. CASE Recheck(p)
  BY <1>15 DEF Recheck, Leave, Become, ControlType, OtherType
<1>16. CASE Unlink(p)
  BY <1>16 DEF Unlink, Leave, Become, Put, ControlType, NodeType, ChildType
<1>17. CASE Close(p)
  BY <1>17 DEF Close, Become, Flag, ControlType
<1>18. CASE Finish(p)
  BY <1>18 DEF Finish, Become, ControlType
<1>19. CASE Crash(p)
  BY <1>19 DEF Crash, Become, ControlType
<1>. QED
  BY <1>1, <1>2, <1>3, <1>4, <1>5, <1>6, <1>7, <1>8, <1>9, <1>10, <1>11, <1>12, <1>13, <1>14,
     <1>15, <1>16, <1>17, <1>18, <1>19 DEF Publishes

--------------------------------------------------------------------------------
(* Types.                                                                  *)
LEMMA GroupsStay ==
  ASSUME TypeOK
  PROVE  /\ UNCHANGED <<entry, diskEntry>> => EntryType'
         /\ UNCHANGED node => NodeType'
         /\ UNCHANGED <<synced, listed>> => DiskType'
         /\ UNCHANGED name => NameType'
         /\ UNCHANGED children => ChildType'
         /\ UNCHANGED snap => SnapType'
         /\ UNCHANGED <<pc, leaf, flags, tries, out, okAt>> => ControlType'
         /\ UNCHANGED <<parentOk, fresh, changes, losses>> => OtherType'
BY TypeIsGroups
   DEF TypeGroups, EntryType, NodeType, DiskType, NameType, ChildType, SnapType, ControlType, OtherType

LEMMA MovesKeepType ==
  ASSUME TypeOK, NEW p \in Publishers, pc[p] \in Steps, NEW known \in SUBSET Flags,
         Proceed(p, known) \/ Fail(p, known)
  PROVE  ControlType'
<1>0. ControlType /\ flags[p] \cup known \in SUBSET Flags
  BY TypeIsGroups DEF TypeGroups, ControlType
<1>1. CASE Proceed(p, known)
  BY <1>0, <1>1, ProceedMoves DEF ControlType, Ends
<1>2. CASE Fail(p, known)
  <2>1. flags[p] \cup known \cup {"failed"} \in SUBSET Flags
    BY <1>0, TypeParts
  <2>. QED BY <1>0, <1>2, <2>1, FailMoves DEF ControlType, Ends
<1>. QED BY <1>1, <1>2

LEMMA BecomeKeepsType ==
  ASSUME TypeOK, NEW p \in Publishers, NEW step \in Steps \cup Ends, NEW f \in SUBSET Flags,
         Become(p, step), Flag(p, f) \/ UNCHANGED flags, UNCHANGED <<leaf, tries, out, okAt>>
  PROVE  ControlType'
<1>1. ControlType /\ flags[p] \cup f \in SUBSET Flags
  BY TypeIsGroups DEF TypeGroups, ControlType
<1>. QED BY <1>1 DEF ControlType, Become, Flag

LEMMA PublisherKeepsType ==
  ASSUME TypeOK, NEW p \in Publishers, ControlInv(p), Publishes(p)
  PROVE  TypeOK'
<1> USE TypeParts, GroupsStay DEF disk, bounds
<1>0. SUFFICES TypeGroups'
  BY TypeIsGroups, PTL
<1>1. CASE Fails(p)
  <2>1. ControlType'
    BY <1>1, MovesKeepType DEF Fails
  <2>. QED BY <1>1, <2>1 DEF Fails, TypeGroups
<1>2. CASE Lookup(p)
  <2>1. ControlType'
    BY <1>2, MovesKeepType, AfterValues DEF Lookup
  <2>. QED BY <1>2, <2>1 DEF Lookup, TypeGroups
<1>3. CASE Collide(p)
  <2>1. tries[p] < MaxTries
    BY <1>3 DEF ControlInv, Collide
  <2>2. ControlType'
    <3>1. ControlType /\ flags[p] \cup {"failed"} \in SUBSET Flags
      BY TypeIsGroups, TypeParts DEF TypeGroups, ControlType
    <3>2. tries' \in [Publishers -> 0..MaxTries]
      BY <1>3, <2>1, <3>1 DEF Collide, ControlType
    <3>. QED BY <1>3, <3>1, <3>2 DEF Collide, ControlType, Become, Flag, Ends
  <2>. QED BY <1>3, <2>2 DEF Collide, TypeGroups
<1>4. CASE Make(p)
  <2>1. ControlType'
    BY <1>4, MovesKeepType, AfterValues DEF Make, Settle
  <2>2. EntryType' /\ NameType'
    BY <1>4 DEF Make, TypeOK, EntryType, NameType
  <2>. QED BY <1>4, <2>1, <2>2 DEF Make, TypeGroups
<1>5. CASE Create(p)
  <2>1. ControlType'
    BY <1>5, MovesKeepType, AfterValues DEF Create, Settle
  <2>2. NodeType' /\ ChildType'
    <3>1. NodeType /\ ChildType /\ leaf[p] \in Owned /\ Ours("empty") \in Files
      BY TypeIsGroups DEF TypeGroups, ControlType, Contents
    <3>2. NodeType'
      BY <1>5, <3>1 DEF Create, Put, NodeType
    <3>3. ChildType'
      BY <1>5, <3>1 DEF Create, ChildType, Owned
    <3>. QED BY <3>2, <3>3
  <2>. QED BY <1>5, <2>1, <2>2 DEF Create, TypeGroups
<1>6. CASE Write(p)
  <2>1. ControlType'
    BY <1>6, MovesKeepType, AfterValues DEF Write, Settle
  <2>2. NodeType'
    <3>1. /\ NodeType /\ leaf[p] \in Leaves
          /\ Ours("whole") \in Files /\ Ours("part") \in Files
      BY TypeIsGroups DEF TypeGroups, ControlType, Contents
    <3>. QED BY <1>6, <3>1 DEF Write, Put, NodeType
  <2>. QED BY <1>6, <2>1, <2>2 DEF Write, TypeGroups
<1>7. CASE SyncFile(p)
  <2>1. ControlType'
    BY <1>7, MovesKeepType, AfterValues DEF SyncFile, Settle
  <2>2. DiskType'
    BY <1>7 DEF SyncFile, TypeOK, DiskType
  <2>. QED BY <1>7, <2>1, <2>2 DEF SyncFile, TypeGroups
<1>8. CASE Seal(p)
  <2>1. ControlType'
    BY <1>8, MovesKeepType, AfterValues DEF Seal, Settle
  <2>2. SnapType'
    <3>1. leaf[p] \in Owned /\ leaf[p] \in Leaves /\ NodeType /\ SnapType
      BY TypeIsGroups DEF TypeGroups, ControlType
    <3>. QED BY <1>8, <3>1 DEF Seal, NodeType, SnapType
  <2>. QED BY <1>8, <2>1, <2>2 DEF Seal, TypeGroups
<1>9. CASE ReadChild(p)
  <2>1. ControlType'
    BY <1>9, MovesKeepType, AfterValues DEF ReadChild, Reading
  <2>. QED BY <1>9, <2>1 DEF ReadChild, TypeGroups
<1>10. CASE CheckListing(p)
  <2>1. ControlType'
    BY <1>10, MovesKeepType, AfterValues DEF CheckListing, Listing
  <2>. QED BY <1>10, <2>1 DEF CheckListing, TypeGroups
<1>11. CASE SyncStaging(p)
  <2>1. ControlType'
    BY <1>11, MovesKeepType, AfterValues DEF SyncStaging, Settle
  <2>2. DiskType'
    BY <1>11 DEF SyncStaging, TypeOK, DiskType, Present
  <2>. QED BY <1>11, <2>1, <2>2 DEF SyncStaging, TypeGroups
<1>12. CASE SyncParent(p)
  <2>1. ControlType'
    BY <1>12, MovesKeepType, AfterValues DEF SyncParent, Settle
  <2>2. EntryType' /\ DiskType'
    BY <1>12 DEF SyncParent, TypeOK, EntryType, DiskType
  <2>. QED BY <1>12, <2>1, <2>2 DEF SyncParent, TypeGroups
<1>13. CASE Rename(p)
  <2>1. ControlType'
    BY <1>13, MovesKeepType, AfterValues DEF Rename
  <2>2. name[p] \in Names
    BY <1>13 DEF Rename, ControlInv, Checking
  <2>3. EntryType' /\ NameType'
    BY <1>13, <2>2 DEF Rename, TypeOK, EntryType, NameType
  <2>. QED BY <1>13, <2>1, <2>3 DEF Rename, TypeGroups
<1>14. CASE Sweep(p)
  <2>1. ControlType'
    BY <1>14, BecomeKeepsType DEF Sweep, Leave, Ends
  <2>. QED BY <1>14, <2>1 DEF Sweep, Leave, TypeGroups
<1>15. CASE Recheck(p)
  <2>1. ControlType'
    BY <1>15, BecomeKeepsType DEF Recheck, Leave, Ends
  <2>2. OtherType'
    BY <1>15 DEF Recheck, TypeOK, OtherType
  <2>. QED BY <1>15, <2>1, <2>2 DEF Recheck, Leave, TypeGroups
<1>16. CASE Unlink(p)
  <2>1. name[p] \in Names /\ children[p] \in 0..N
    BY <1>16 DEF Unlink, ControlInv, TypeOK
  <2>2. ControlType'
    BY <1>16, BecomeKeepsType DEF Unlink, Leave, Ends
  <2>3. EntryType'
    <3>1. EntryType
      BY TypeIsGroups DEF TypeGroups
    <3>. QED BY <1>16, <2>1, <3>1 DEF Unlink, EntryType
  <2>4. NodeType' /\ ChildType'
    <3>1. NodeType /\ ChildType /\ Ours("none") \in Files
      BY TypeIsGroups DEF TypeGroups, Contents
    <3>2. children[p] > 0 => children[p] \in Leaves /\ children[p] - 1 \in 0..N
      BY <2>1 DEF Leaves
    <3>. QED BY <1>16, <3>1, <3>2 DEF Unlink, Put, NodeType, ChildType
  <2>. QED BY <1>16, <2>2, <2>3, <2>4 DEF Unlink, Leave, TypeGroups
<1>17. CASE Close(p)
  <2>1. ControlType'
    BY <1>17, BecomeKeepsType DEF Close, Ends
  <2>. QED BY <1>17, <2>1 DEF Close, TypeGroups
<1>18. CASE Finish(p)
  <2>1. ControlType'
    BY <1>18 DEF Finish, Become, TypeOK, ControlType, Ends
  <2>. QED BY <1>18, <2>1 DEF Finish, TypeGroups
<1>19. CASE Crash(p)
  <2>1. ControlType'
    BY <1>19, BecomeKeepsType DEF Crash, Ends
  <2>. QED BY <1>19, <2>1 DEF Crash, TypeGroups
<1>. QED
  BY <1>1, <1>2, <1>3, <1>4, <1>5, <1>6, <1>7, <1>8, <1>9, <1>10, <1>11, <1>12, <1>13, <1>14,
     <1>15, <1>16, <1>17, <1>18, <1>19 DEF Publishes

(* Changes by others, and a power loss.                                    *)
Changes == \/ \E p \in Publishers : \E l \in Leaves : ChangeFile(p, l)
           \/ \E n \in Names : ChangeEntry(n)
           \/ ChangeParent

LEMMA ChangesKeepType ==
  ASSUME TypeOK, Changes
  PROVE  TypeOK'
<1> USE TypeParts, GroupsStay DEF calls
<1>0. SUFFICES TypeGroups'
  BY TypeIsGroups, PTL
<1>1. ASSUME Change, parentOk' \in BOOLEAN PROVE OtherType' /\ changes' \in 0..MaxChanges
  <2>1. OtherType
    BY TypeIsGroups DEF TypeGroups
  <2>. QED BY <1>1, <2>1 DEF Change, OtherType
<1>2. parentOk \in BOOLEAN
  BY DEF TypeOK
<1>3. ASSUME NEW p \in Publishers, NEW l \in Leaves, ChangeFile(p, l) PROVE TypeGroups'
  <2>1. NodeType /\ DiskType
    BY TypeIsGroups DEF TypeGroups
  <2>2. PICK data \in Contents : Put(p, l, [data |-> data, at |-> changes'])
    BY <1>3 DEF ChangeFile, Contents
  <2>3. [data |-> data, at |-> changes'] \in Files
    BY <1>2, <1>1, <1>3 DEF ChangeFile, Files
  <2>4. NodeType'
    BY <2>1, <2>2, <2>3 DEF Put, NodeType
  <2>5. DiskType'
    BY <1>3, <2>1 DEF ChangeFile, Change, DiskType
  <2>6. OtherType'
    BY <1>2, <1>1, <1>3 DEF ChangeFile
  <2>. QED BY <1>3, <2>4, <2>5, <2>6 DEF ChangeFile, Change, TypeGroups
<1>4. ASSUME NEW n \in Names, ChangeEntry(n) PROVE TypeGroups'
  <2>1. EntryType'
    BY <1>4, TypeIsGroups DEF TypeGroups, EntryType, ChangeEntry, Change
  <2>2. OtherType'
    BY <1>2, <1>1, <1>4 DEF ChangeEntry
  <2>. QED BY <1>4, <2>1, <2>2 DEF ChangeEntry, Change, TypeGroups
<1>5. ASSUME ChangeParent PROVE TypeGroups'
  <2>1. OtherType'
    BY <1>5, <1>1 DEF ChangeParent
  <2>. QED BY <1>5, <2>1 DEF ChangeParent, Change, TypeGroups
<1>. QED BY <1>3, <1>4, <1>5 DEF Changes

(* What a power loss leaves.                                               *)
LEMMA AfterPowerLoss ==
  ASSUME TypeOK, PowerLoss
  PROVE  /\ \A n \in Names : entry'[n] \in {entry[n], diskEntry[n]}
         /\ \A n \in Names : entry'[n] = IF entry[n] = diskEntry[n] THEN entry[n] ELSE entry'[n]
         /\ diskEntry' = entry'
         /\ \A p \in Publishers, l \in Leaves :
              /\ node'[p][l] = node[p][l] \/ node'[p][l] = Ours("none")
                                         \/ node'[p][l] = Ours("part")
              /\ l \in listed[p] /\ l \in synced[p] => node'[p][l] = node[p][l]
              /\ node[p][l].data = "none" => node'[p][l] = node[p][l]
         /\ \A p \in Publishers :
              /\ pc[p] # "lookup" => synced'[p] = Leaves /\ listed'[p] = Leaves /\ pc'[p] = "crashed"
              /\ pc[p] = "lookup" => pc'[p] = "lookup"
         /\ losses' = losses + 1 /\ losses < MaxLosses
         /\ UNCHANGED <<parentOk, leaf, name, tries, flags, children, snap, out, okAt, fresh, changes>>
<1>1. /\ \A n \in Names : entry'[n] \in {entry[n], diskEntry[n]}
      /\ \A n \in Names : entry'[n] = IF entry[n] = diskEntry[n] THEN entry[n] ELSE entry'[n]
  BY DEF PowerLoss
<1> DEFINE at(S) == {x \in Publishers \X Leaves : x[2] \in Present(x[1]) \ S[x[1]]}
<1>2. PICK lost \in SUBSET at(listed) : \E torn \in SUBSET (at(synced) \ lost) :
         node' = [p \in Publishers |-> [l \in Leaves |->
                    IF <<p, l>> \in lost THEN Ours("none")
                    ELSE IF <<p, l>> \in torn THEN Ours("part") ELSE node[p][l]]]
  BY DEF PowerLoss
<1>3. PICK torn \in SUBSET (at(synced) \ lost) :
         node' = [p \in Publishers |-> [l \in Leaves |->
                    IF <<p, l>> \in lost THEN Ours("none")
                    ELSE IF <<p, l>> \in torn THEN Ours("part") ELSE node[p][l]]]
  BY <1>2
<1>4. ASSUME NEW p \in Publishers, NEW l \in Leaves
      PROVE  /\ node'[p][l] = node[p][l] \/ node'[p][l] = Ours("none") \/ node'[p][l] = Ours("part")
             /\ l \in listed[p] /\ l \in synced[p] => node'[p][l] = node[p][l]
             /\ node[p][l].data = "none" => node'[p][l] = node[p][l]
  <2>1. node'[p][l] = IF <<p, l>> \in lost THEN Ours("none")
                      ELSE IF <<p, l>> \in torn THEN Ours("part") ELSE node[p][l]
    BY <1>3
  <2>2. <<p, l>> \in lost => l \in Present(p) /\ l \notin listed[p]
    BY <1>2
  <2>3. <<p, l>> \in torn => l \in Present(p) /\ l \notin synced[p]
    BY <1>3
  <2>. QED BY <2>1, <2>2, <2>3 DEF Present
<1>5. ASSUME NEW p \in Publishers
      PROVE  /\ pc[p] # "lookup" => synced'[p] = Leaves /\ listed'[p] = Leaves /\ pc'[p] = "crashed"
             /\ pc[p] = "lookup" => pc'[p] = "lookup"
  BY DEF PowerLoss
<1>. QED BY <1>1, <1>4, <1>5 DEF PowerLoss

LEMMA PowerLossKeepsType ==
  ASSUME TypeOK, PowerLoss
  PROVE  TypeOK'
<1> USE TypeParts, GroupsStay
<1>0. SUFFICES TypeGroups'
  BY TypeIsGroups, PTL
<1>1. TypeGroups
  BY TypeIsGroups
<1>2. EntryType'
  BY <1>1, AfterPowerLoss DEF TypeGroups, EntryType, PowerLoss
<1>3. NodeType'
  <2>1. \A p \in Publishers, l \in Leaves : node'[p][l] \in Files
    BY <1>1, AfterPowerLoss DEF TypeGroups, NodeType, Contents
  <2>2. node' = [p \in Publishers |-> [l \in Leaves |-> node'[p][l]]]
    BY DEF PowerLoss
  <2>. QED BY <2>1, <2>2 DEF NodeType
<1>4. DiskType'
  BY DEF PowerLoss, DiskType
<1>5. ControlType'
  BY <1>1, AfterValues DEF TypeGroups, ControlType, PowerLoss, Ends
<1>6. OtherType'
  BY <1>1 DEF TypeGroups, OtherType, PowerLoss
<1>. QED BY <1>2, <1>3, <1>4, <1>5, <1>6, AfterPowerLoss DEF TypeGroups

--------------------------------------------------------------------------------
(* What a publisher knows.                                                 *)
LEMMA FailKeepsControl ==
  ASSUME TypeOK, NEW p \in Publishers, ControlInv(p), pc[p] \in Steps,
         NEW known \in SUBSET {"pinned", "uncertain"}, Fail(p, known),
         name'[p] = name[p] \/ (~IsPublished(p) /\ name'[p] \in StagingNames)
  PROVE  ControlInv(p)'
<1>1. known \in SUBSET Flags
  BY DEF Flags
<1>2. /\ pc'[p] = IF IsPublished(p) THEN "close" ELSE "sweep"
      /\ flags'[p] = flags[p] \cup known \cup {"failed"}
      /\ out'[p] = out[p]
  BY <1>1, FailMoves DEF TypeOK
<1>3. out[p] = "none"
  BY AfterValues DEF ControlInv
<1>. QED BY <1>2, <1>3 DEF ControlInv, Filling, Checking, Confirming, Cleaning, IsPublished

(* After a step that went on, apart from the name and the files.           *)
LEMMA ProceedValues ==
  ASSUME TypeOK, NEW p \in Publishers, ControlInv(p), pc[p] \in Steps,
         NEW known \in SUBSET Flags, Proceed(p, known)
  PROVE  /\ flags'[p] = flags[p] \cup known /\ out'[p] = out[p] /\ out[p] = "none"
         /\ tries'[p] = tries[p]
         /\ \/ /\ pc[p] \in Reading /\ leaf[p] < N /\ leaf'[p] = leaf[p] + 1
               /\ pc'[p] = IF pc[p] = "readBack" THEN "create" ELSE pc[p]
            \/ /\ pc[p] \notin Reading \/ leaf[p] = N
               /\ pc'[p] = After[pc[p]]
               /\ leaf'[p] = IF pc[p] \in Writing THEN leaf[p] ELSE 1
         /\ known = {} => flags'[p] = flags[p]
<1>1. known = {} => flags[p] \cup known = flags[p]
  OBVIOUS
<1>2. flags'[p] = flags[p] \cup known /\ out'[p] = out[p] /\ tries'[p] = tries[p]
  BY ProceedMoves DEF TypeOK
<1>3. out[p] = "none"
  BY AfterValues DEF ControlInv
<1>4. \/ /\ pc[p] \in Reading /\ leaf[p] < N /\ leaf'[p] = leaf[p] + 1
         /\ pc'[p] = IF pc[p] = "readBack" THEN "create" ELSE pc[p]
      \/ /\ pc[p] \notin Reading \/ leaf[p] = N
         /\ pc'[p] = After[pc[p]]
         /\ leaf'[p] = IF pc[p] \in Writing THEN leaf[p] ELSE 1
  BY ProceedMoves DEF TypeOK
<1>. QED BY <1>1, <1>2, <1>3, <1>4

LEMMA ProceedKeepsControl ==
  ASSUME TypeOK, NEW p \in Publishers, ControlInv(p), Proceed(p, {}),
         pc[p] \in Steps \ {"lookup", "make", "rename"}, UNCHANGED name
  PROVE  ControlInv(p)'
<1>1. /\ flags'[p] = flags[p] /\ out'[p] = out[p] /\ out[p] = "none"
      /\ pc'[p] \in {After[pc[p]], pc[p], "create"} /\ (pc'[p] = "create" => pc[p] = "readBack")
  <2>1. {} \in SUBSET Flags
    BY TypeParts
  <2>2. After[pc[p]] # "create"
    BY AfterValues
  <2>. QED BY <2>1, <2>2, ProceedValues DEF Reading
<1>2. CASE pc[p] \in Filling
  <2>1. pc'[p] \in Filling \cup {"list"}
    BY <1>1, <1>2, AfterValues DEF Filling
  <2>. QED BY <1>1, <1>2, <2>1 DEF ControlInv, Filling, Checking, Confirming, Cleaning, IsPublished
<1>3. CASE pc[p] \in Checking \ {"rename"}
  <2>1. pc'[p] \in Checking
    BY <1>1, <1>3, AfterValues DEF Checking
  <2>. QED BY <1>1, <1>3, <2>1 DEF ControlInv, Filling, Checking, Confirming, Cleaning, IsPublished
<1>4. CASE pc[p] \in Confirming
  <2>1. pc'[p] \in Confirming \cup {"close"}
    BY <1>1, <1>4, AfterValues DEF Confirming
  <2>. QED BY <1>1, <1>4, <2>1 DEF ControlInv, Filling, Checking, Confirming, Cleaning, IsPublished
<1>. QED BY <1>2, <1>3, <1>4, AfterValues DEF Filling, Checking, Confirming

LEMMA PublisherKeepsControl ==
  ASSUME TypeOK, NEW p \in Publishers, ControlInv(p), Publishes(p)
  PROVE  ControlInv(p)'
<1> USE TypeParts DEF disk, bounds
<1>0. {} \in SUBSET {"pinned", "uncertain"} /\ {"pinned"} \in SUBSET {"pinned", "uncertain"}
      /\ {"uncertain"} \in SUBSET {"pinned", "uncertain"}
  OBVIOUS
<1>1. CASE Fails(p)
  BY <1>0, <1>1, FailKeepsControl DEF Fails
<1>2. CASE Lookup(p)
  <2>1. /\ flags'[p] = flags[p] /\ out'[p] = "none" /\ pc'[p] = "make" /\ leaf'[p] = 1
        /\ name'[p] = name[p] /\ children'[p] = children[p] /\ tries'[p] = tries[p]
    <3>1. pc[p] = "lookup" /\ Proceed(p, {}) /\ pc[p] \in Steps /\ UNCHANGED <<name, children>>
      BY <1>2, AfterValues DEF Lookup
    <3>. QED BY <3>1, ProceedValues, AfterValues DEF Reading, Writing
  <2>. QED BY <1>2, <2>1 DEF Lookup, ControlInv, Filling, Checking, Confirming, Cleaning, IsPublished
<1>3. CASE Collide(p)
  <2>1. /\ name'[p] = name[p] /\ out'[p] = out[p] /\ children'[p] = children[p]
        /\ leaf'[p] = leaf[p] /\ tries'[p] = tries[p] + 1 /\ tries[p] \in Nat
        /\ \/ /\ pc'[p] = "make" /\ flags'[p] = flags[p] /\ tries'[p] < MaxTries
           \/ /\ pc'[p] = "sweep" /\ flags'[p] = flags[p] \cup {"failed"}
    BY <1>3 DEF Collide, Become, Flag, TypeOK
  <2>. QED BY <1>3, <2>1 DEF Collide, ControlInv, Filling, Checking, Confirming, Cleaning, IsPublished
<1>4. CASE Make(p)
  <2>1. pc[p] = "make" /\ ~IsPublished(p) /\ flags[p] = {}
    BY <1>4 DEF Make, ControlInv, IsPublished
  <2>2. CASE Proceed(p, {"pinned"})
    <3>1. /\ flags'[p] = {"pinned"} /\ out'[p] = "none" /\ pc'[p] = "create"
      BY <2>1, <2>2, ProceedValues, AfterValues DEF Reading
    <3>2. name'[p] \in StagingNames
      BY <1>4 DEF Make, TypeOK
    <3>. QED BY <3>1, <3>2 DEF ControlInv, Filling, Checking, Confirming, Cleaning, IsPublished
  <2>3. name'[p] \in StagingNames
    BY <1>4 DEF Make, TypeOK
  <2>4. CASE Fail(p, {"pinned"}) \/ Fail(p, {})
    BY <1>0, <2>1, <2>3, <2>4, FailKeepsControl, AfterValues
  <2>. QED BY <1>4, <2>2, <2>4 DEF Make, Settle
<1>5. CASE Create(p)
  BY <1>0, <1>5, FailKeepsControl, ProceedKeepsControl, AfterValues DEF Create, Settle
<1>6. CASE Write(p)
  BY <1>0, <1>6, FailKeepsControl, ProceedKeepsControl, AfterValues DEF Write, Settle
<1>7. CASE SyncFile(p)
  BY <1>0, <1>7, FailKeepsControl, ProceedKeepsControl, AfterValues DEF SyncFile, Settle
<1>8. CASE Seal(p)
  BY <1>0, <1>8, FailKeepsControl, ProceedKeepsControl, AfterValues DEF Seal, Settle
<1>9. CASE ReadChild(p)
  BY <1>9, ProceedKeepsControl, AfterValues DEF ReadChild, Reading
<1>10. CASE CheckListing(p)
  BY <1>10, ProceedKeepsControl, AfterValues DEF CheckListing, Listing
<1>11. CASE SyncStaging(p)
  BY <1>0, <1>11, FailKeepsControl, ProceedKeepsControl, AfterValues DEF SyncStaging, Settle
<1>12. CASE SyncParent(p)
  BY <1>0, <1>12, FailKeepsControl, ProceedKeepsControl, AfterValues DEF SyncParent, Settle
<1>13. CASE Rename(p)
  <2>1. /\ flags'[p] = flags[p] \cup {"published"} /\ out'[p] = "none" /\ pc'[p] = "listPublished"
    BY <1>13, ProceedValues, AfterValues DEF Rename, Reading
  <2>2. name'[p] = Dest
    BY <1>13 DEF Rename, TypeOK
  <2>. QED
    BY <1>13, <2>1, <2>2 DEF Rename, ControlInv, Filling, Checking, Confirming, Cleaning, IsPublished
<1>14. CASE Sweep(p)
  <2>1. /\ name'[p] = name[p] /\ out'[p] = out[p] /\ flags'[p] = flags[p]
        /\ \/ pc'[p] = "close"
           \/ pc'[p] = "recheck" /\ "pinned" \in flags[p] /\ name[p] # NoEntry
    BY <1>14 DEF Sweep, Leave, Become, TypeOK
  <2>2. pc'[p] = "recheck" => name[p] \in StagingNames
    BY <1>14, <2>1 DEF Sweep, ControlInv, Cleaning
  <2>. QED
    BY <1>14, <2>1, <2>2 DEF Sweep, ControlInv, Filling, Checking, Confirming, Cleaning, IsPublished
<1>15. CASE Recheck(p)
  <2>1. /\ name'[p] = name[p] /\ out'[p] = out[p] /\ flags'[p] = flags[p]
        /\ pc'[p] \in {"close", "unlink"}
    BY <1>15 DEF Recheck, Leave, Become, TypeOK
  <2>. QED
    BY <1>15, <2>1 DEF Recheck, ControlInv, Filling, Checking, Confirming, Cleaning, IsPublished
<1>16. CASE Unlink(p)
  <2>1. /\ name'[p] = name[p] /\ out'[p] = out[p] /\ flags'[p] = flags[p]
        /\ pc'[p] \in {"close", "recheck"}
    BY <1>16 DEF Unlink, Leave, Become, TypeOK
  <2>. QED
    BY <1>16, <2>1 DEF Unlink, ControlInv, Filling, Checking, Confirming, Cleaning, IsPublished
<1>17. CASE Close(p)
  <2>1. /\ name'[p] = name[p] /\ out'[p] = out[p] /\ pc'[p] = "finish"
        /\ flags'[p] = flags[p] \/ flags'[p] = flags[p] \cup {"failed"}
    BY <1>17 DEF Close, Become, Flag, TypeOK
  <2>. QED
    BY <1>17, <2>1 DEF Close, ControlInv, Filling, Checking, Confirming, Cleaning, IsPublished
<1>18. CASE Finish(p)
  <2>1. /\ name'[p] = name[p] /\ flags'[p] = flags[p] /\ pc'[p] = "done" /\ changes' = changes
        /\ \/ out'[p] = "ok" /\ "failed" \notin flags[p] /\ okAt'[p] = changes
           \/ out'[p] = "error"
    BY <1>18 DEF Finish, Become, TypeOK
  <2>2. changes <= changes
    BY DEF TypeOK
  <2>. QED
    BY <1>18, <2>1, <2>2 DEF Finish, ControlInv, Filling, Checking, Confirming, Cleaning, IsPublished
<1>19. CASE Crash(p)
  <2>1. /\ name'[p] = name[p] /\ flags'[p] = flags[p] /\ pc'[p] = "crashed" /\ out'[p] = out[p]
        /\ okAt'[p] = okAt[p] /\ changes' = changes
    BY <1>19 DEF Crash, Become, TypeOK
  <2>. QED
    BY <1>19, <2>1 DEF ControlInv, Filling, Checking, Confirming, Cleaning, IsPublished
<1>. QED
  BY <1>1, <1>2, <1>3, <1>4, <1>5, <1>6, <1>7, <1>8, <1>9, <1>10, <1>11, <1>12, <1>13, <1>14,
     <1>15, <1>16, <1>17, <1>18, <1>19 DEF Publishes

LEMMA AllKeepControl ==
  ASSUME TypeOK, TypeOK', \A p \in Publishers : ControlInv(p), [Next]_vars
  PROVE  \A p \in Publishers : ControlInv(p)'
<1>1. ASSUME NEW q \in Publishers, Publishes(q) PROVE \A p \in Publishers : ControlInv(p)'
  <2>1. ControlInv(q)'
    BY <1>1, PublisherKeepsControl
  <2>2. \A p \in Publishers \ {q} : ControlInv(p)'
    BY <1>1, OthersStay DEF OthersSame, ControlInv, IsPublished
  <2>. QED BY <2>1, <2>2
<1>2. ASSUME Changes PROVE \A p \in Publishers : ControlInv(p)'
  <2>1. UNCHANGED calls /\ changes' = changes + 1 /\ changes \in Nat
    BY <1>2 DEF Changes, ChangeFile, ChangeEntry, ChangeParent, Change, TypeOK
  <2>2. \A p \in Publishers : okAt[p] \in Nat
    BY DEF TypeOK
  <2>. QED BY <2>1, <2>2 DEF ControlInv, calls, IsPublished
<1>3. ASSUME PowerLoss PROVE \A p \in Publishers : ControlInv(p)'
  BY <1>3, AfterPowerLoss DEF ControlInv, IsPublished, Filling, Checking, Confirming, Cleaning
<1>4. CASE UNCHANGED vars
  BY <1>4 DEF vars, calls, bounds, ControlInv, IsPublished
<1>. QED BY <1>1, <1>2, <1>3, <1>4 DEF Next, Changes

--------------------------------------------------------------------------------
(* What the files of a publisher have been through.                        *)
Behind(p, i) == i < leaf[p] \/ (i = leaf[p] /\ pc[p] \in {"seal", "readBack"})
Filled(p) == pc[p] \in Checking \/ IsPublished(p)

FilledInv(p) ==
  /\ pc[p] = "create" => children[p] = leaf[p] - 1
  /\ pc[p] \in Filling \ {"create"} => children[p] = leaf[p]
  /\ pc[p] \in Filling => \A i \in Owned : i < leaf[p] => snap[p][i].data = "whole"
  /\ pc[p] = "readBack" => Sealed(p, leaf[p])
  /\ Filled(p) => children[p] = N /\ \A i \in Owned : snap[p][i].data = "whole"
  /\ Filled(p) \/ pc[p] \in Filling =>
       \A i \in Owned : (Filled(p) \/ Behind(p, i)) /\ node[p][i].data = "whole" => i \in synced[p]
  /\ pc[p] \in {"syncParent", "lastList", "rename"} \/ IsPublished(p) => Owned \subseteq listed[p]

LEMMA FilledStays ==
  ASSUME NEW p \in Publishers, FilledInv(p), pc'[p] \notin Filling \cup Checking,
         IsPublished(p)' =>
           /\ IsPublished(p) \/ pc[p] = "rename"
           /\ node'[p] = node[p] /\ synced'[p] = synced[p] /\ listed'[p] = listed[p]
           /\ children'[p] = children[p] /\ snap'[p] = snap[p]
  PROVE  FilledInv(p)'
BY DEF FilledInv, Filled, Filling, Checking, IsPublished

LEMMA FilledGoesOn ==
  ASSUME NEW p \in Publishers, FilledInv(p), pc[p] \in Checking, pc'[p] \in Checking,
         pc'[p] \in {"syncParent", "lastList", "rename"} => pc[p] \in {"syncParent", "lastList", "rename"},
         ~IsPublished(p)',
         node'[p] = node[p], synced'[p] = synced[p], listed'[p] = listed[p],
         children'[p] = children[p], snap'[p] = snap[p]
  PROVE  FilledInv(p)'
BY DEF FilledInv, Filled, Filling, Checking

(* A step that fails leaves the files to the cleanup, or as they are.      *)
LEMMA FailKeepsFilled ==
  ASSUME TypeOK, NEW p \in Publishers, ControlInv(p), FilledInv(p),
         NEW known \in SUBSET {"pinned", "uncertain"}, Fail(p, known),
         IsPublished(p) => UNCHANGED <<node, synced, listed, children, snap>>
  PROVE  FilledInv(p)'
<1>1. known \in SUBSET Flags
  BY DEF Flags
<1>2. /\ pc'[p] \in {"close", "sweep"}
      /\ flags'[p] = flags[p] \cup known \cup {"failed"}
  BY <1>1, FailMoves DEF TypeOK
<1>3. IsPublished(p)' => IsPublished(p)
  BY <1>2 DEF IsPublished
<1>. QED BY <1>2, <1>3, FilledStays DEF Filling, Checking

LEMMA PublisherKeepsFilled ==
  ASSUME TypeOK, TypeOK', NEW p \in Publishers, ControlInv(p), FilledInv(p), Publishes(p)
  PROVE  FilledInv(p)'
<1> USE TypeParts DEF disk, bounds
<1>0. /\ {} \in SUBSET {"pinned", "uncertain"} /\ {"pinned"} \in SUBSET {"pinned", "uncertain"}
      /\ {"uncertain"} \in SUBSET {"pinned", "uncertain"}
      /\ leaf[p] \in Owned /\ leaf[p] \in Nat /\ children[p] \in 0..N
  BY DEF TypeOK
<1>1. CASE Fails(p)
  BY <1>0, <1>1, FailKeepsFilled DEF Fails
<1>2. CASE Lookup(p)
  <2>1. pc'[p] = "make" /\ flags'[p] = {}
    BY <1>2, ProceedValues, AfterValues DEF Lookup, Reading, ControlInv
  <2>. QED BY <2>1 DEF FilledInv, Filled, Filling, Checking, IsPublished
<1>3. CASE Collide(p)
  <2>1. pc'[p] \in {"make", "sweep"} /\ ~IsPublished(p)'
    BY <1>3 DEF Collide, Become, Flag, TypeOK, ControlInv, IsPublished
  <2>. QED BY <2>1, FilledStays DEF Filling, Checking
<1>4. CASE Make(p)
  <2>1. pc[p] = "make" /\ ~IsPublished(p) /\ flags[p] = {} /\ children'[p] = 0
    BY <1>4 DEF Make, ControlInv, IsPublished
  <2>2. CASE Proceed(p, {"pinned"})
    <3>1. flags'[p] = {"pinned"} /\ pc'[p] = "create" /\ leaf'[p] = 1
      BY <2>1, <2>2, ProceedValues, AfterValues DEF Reading, Writing
    <3>. QED BY <2>1, <3>1 DEF FilledInv, Filled, Behind, Filling, Checking, IsPublished, Owned
  <2>3. CASE Fail(p, {"pinned"}) \/ Fail(p, {})
    BY <1>0, <2>1, <2>3, FailKeepsFilled
  <2>. QED BY <1>4, <2>2, <2>3 DEF Make, Settle
<1>5. CASE Create(p)
  <2>1. pc[p] = "create" /\ ~IsPublished(p)
    BY <1>5 DEF Create, ControlInv, IsPublished, Filling
  <2>2. CASE Proceed(p, {}) /\ children' = [children EXCEPT ![p] = leaf[p]]
    <3>0. children'[p] = leaf[p]
      BY <2>2, TypeIsGroups DEF TypeGroups, ChildType
    <3>1. flags'[p] = flags[p] /\ pc'[p] = "write" /\ leaf'[p] = leaf[p] /\ children'[p] = leaf[p]
      BY <2>1, <2>2, <3>0, ProceedValues, AfterValues DEF Reading, Writing
    <3>2. \A i \in Owned : i < leaf[p] => node'[p][i] = node[p][i]
      BY <1>0, <1>5 DEF Create, Put, TypeOK
    <3>3. snap' = snap /\ synced' = synced
      BY <1>5 DEF Create
    <3>. QED BY <1>0, <2>1, <3>1, <3>2, <3>3 DEF FilledInv, Filled, Behind, Filling, Checking, IsPublished
  <2>3. CASE Fail(p, {}) \/ Fail(p, {"uncertain"})
    BY <1>0, <2>1, <2>3, FailKeepsFilled
  <2>. QED BY <1>5, <2>2, <2>3 DEF Create, Settle
<1>6. CASE Write(p)
  <2>1. pc[p] = "write" /\ ~IsPublished(p)
    BY <1>6 DEF Write, ControlInv, IsPublished, Filling
  <2>2. CASE Proceed(p, {})
    <3>1. flags'[p] = flags[p] /\ pc'[p] = "syncFile" /\ leaf'[p] = leaf[p]
      BY <2>1, <2>2, ProceedValues, AfterValues DEF Reading, Writing
    <3>2. \A i \in Owned : i < leaf[p] => node'[p][i] = node[p][i]
      BY <1>0, <1>6 DEF Write, Put, TypeOK
    <3>3. snap' = snap /\ synced' = synced /\ children' = children
      BY <1>6 DEF Write
    <3>. QED BY <1>0, <2>1, <3>1, <3>2, <3>3 DEF FilledInv, Filled, Behind, Filling, Checking, IsPublished
  <2>3. CASE Fail(p, {})
    BY <1>0, <2>1, <2>3, FailKeepsFilled
  <2>. QED BY <1>6, <2>2, <2>3 DEF Write, Settle
<1>7. CASE SyncFile(p)
  <2>1. pc[p] = "syncFile" /\ ~IsPublished(p)
    BY <1>7 DEF SyncFile, ControlInv, IsPublished, Filling
  <2>2. CASE Proceed(p, {})
    <3>1. flags'[p] = flags[p] /\ pc'[p] = "seal" /\ leaf'[p] = leaf[p]
      BY <2>1, <2>2, ProceedValues, AfterValues DEF Reading, Writing
    <3>2. synced'[p] = synced[p] \cup {leaf[p]}
      BY <1>0, <1>7 DEF SyncFile, TypeOK
    <3>3. snap' = snap /\ node' = node /\ children' = children
      BY <1>7 DEF SyncFile
    <3>. QED BY <1>0, <2>1, <3>1, <3>2, <3>3 DEF FilledInv, Filled, Behind, Filling, Checking, IsPublished
  <2>3. CASE Fail(p, {})
    BY <1>0, <2>1, <2>3, FailKeepsFilled
  <2>. QED BY <1>7, <2>2, <2>3 DEF SyncFile, Settle
<1>8. CASE Seal(p)
  <2>1. pc[p] = "seal" /\ ~IsPublished(p) /\ "pinned" \in flags[p]
    BY <1>8 DEF Seal, ControlInv, IsPublished, Filling
  <2>2. CASE Proceed(p, {})
    <3>1. flags'[p] = flags[p] /\ pc'[p] = "readBack" /\ leaf'[p] = leaf[p]
      BY <2>1, <2>2, ProceedValues, AfterValues DEF Reading, Writing
    <3>2. children[p] = leaf[p] /\ leaf[p] \in 1..children[p]
      BY <1>0, <2>1 DEF FilledInv, Filling, Owned
    <3>3. node[p][leaf[p]].data # "none"
      BY <1>8, <2>1, <3>2 DEF Seal, Storage
    <3>4. /\ snap'[p][leaf[p]] = node[p][leaf[p]]
          /\ \A i \in Owned : i < leaf[p] => snap'[p][i] = snap[p][i]
      BY <1>0, <1>8 DEF Seal, TypeOK
    <3>5. synced' = synced /\ node' = node /\ children' = children
      BY <1>8 DEF Seal
    <3>. QED BY <1>0, <2>1, <3>1, <3>2, <3>3, <3>4, <3>5
             DEF FilledInv, Filled, Behind, Filling, Checking, IsPublished, Sealed
  <2>3. CASE Fail(p, {})
    BY <1>0, <2>1, <2>3, FailKeepsFilled
  <2>. QED BY <1>8, <2>2, <2>3 DEF Seal, Settle
<1>9. CASE ReadChild(p)
  <2>0. /\ UNCHANGED <<node, synced, listed, children, snap>> /\ flags'[p] = flags[p]
        /\ pc[p] \in Reading /\ pc[p] \in Steps
    BY <1>9, ProceedValues, AfterValues DEF ReadChild, Reading
  <2>1. CASE pc[p] = "readBack"
    <3>1. /\ ~IsPublished(p) /\ "pinned" \in flags[p]
          /\ children[p] = leaf[p] /\ leaf[p] \in 1..children[p] /\ Sealed(p, leaf[p])
      BY <1>0, <2>1 DEF ControlInv, FilledInv, Filling, Owned, IsPublished
    <3>2. snap[p][leaf[p]].data = "whole"
      BY <1>9, <3>1 DEF ReadChild, Storage
    <3>3. CASE leaf[p] < N
      <4>1. pc'[p] = "create" /\ leaf'[p] = leaf[p] + 1
        BY <1>0, <1>9, <2>0, <2>1, <3>3, ProceedValues DEF ReadChild, Reading
      <4>2. \A i \in Owned : i < leaf[p] + 1 => i < leaf[p] \/ i = leaf[p]
        BY <1>0 DEF Owned
      <4>3. \A i \in Owned : i < leaf'[p] => snap'[p][i].data = "whole"
        BY <2>0, <2>1, <3>2, <4>1, <4>2 DEF FilledInv, Filling
      <4>4. \A i \in Owned : i < leaf'[p] /\ node'[p][i].data = "whole" => i \in synced'[p]
        BY <2>0, <2>1, <4>1, <4>2 DEF FilledInv, Filling, Behind
      <4>5. children'[p] = leaf'[p] - 1
        BY <1>0, <2>0, <3>1, <4>1
      <4>6. ~IsPublished(p)' /\ ~Filled(p)'
        BY <2>0, <3>1, <4>1 DEF Filled, IsPublished, Checking
      <4>. QED BY <4>1, <4>3, <4>4, <4>5, <4>6 DEF FilledInv, Behind, Filling
    <3>4. CASE leaf[p] = N
      <4>1. pc'[p] = "list"
        BY <1>0, <1>9, <2>0, <2>1, <3>4, ProceedValues, AfterValues DEF ReadChild, Reading
      <4>2. \A i \in Owned : i < leaf[p] \/ i = leaf[p]
        BY <3>4 DEF Owned
      <4>. QED BY <1>0, <2>0, <2>1, <3>1, <3>2, <3>4, <4>1, <4>2
               DEF FilledInv, Filled, Behind, Filling, Checking, IsPublished
    <3>. QED BY <1>0, <3>3, <3>4 DEF Owned
  <2>2. CASE pc[p] = "verify"
    <3>1. pc'[p] \in {"verify", "relist"} /\ ~IsPublished(p)
      BY <1>9, <2>0, <2>2, ProceedValues, AfterValues DEF ReadChild, ControlInv, Checking, IsPublished
    <3>. QED BY <2>0, <2>2, <3>1, FilledGoesOn DEF Checking, IsPublished
  <2>3. CASE pc[p] = "verifyPublished"
    <3>1. pc'[p] \in {"verifyPublished", "relistPublished"}
      BY <1>9, <2>0, <2>3, ProceedValues, AfterValues DEF ReadChild
    <3>. QED BY <2>0, <3>1, FilledStays DEF Filling, Checking, IsPublished
  <2>. QED BY <2>0, <2>1, <2>2, <2>3 DEF Reading
<1>10. CASE CheckListing(p)
  <2>0. /\ UNCHANGED <<node, synced, listed, children, snap>> /\ flags'[p] = flags[p]
        /\ pc[p] \in Listing /\ pc[p] \in Steps /\ pc'[p] = After[pc[p]]
    BY <1>10, ProceedValues, AfterValues DEF CheckListing, Listing, Reading
  <2>1. CASE pc[p] \in {"list", "relist", "lastList"}
    <3>1. pc'[p] \in {"verify", "syncStaging", "rename"} /\ ~IsPublished(p) /\ pc[p] \in Checking
          /\ (pc'[p] = "rename" => pc[p] = "lastList")
      BY <2>0, <2>1, AfterValues DEF ControlInv, Checking, IsPublished
    <3>. QED BY <2>0, <3>1, FilledGoesOn DEF Checking, IsPublished
  <2>2. CASE pc[p] \in {"listPublished", "relistPublished"}
    BY <2>0, <2>2, AfterValues, FilledStays DEF Filling, Checking, IsPublished
  <2>. QED BY <2>0, <2>1, <2>2 DEF Listing
<1>11. CASE SyncStaging(p)
  <2>1. pc[p] = "syncStaging" /\ ~IsPublished(p) /\ "pinned" \in flags[p] /\ children[p] = N
    BY <1>11 DEF SyncStaging, ControlInv, FilledInv, Filled, IsPublished, Checking
  <2>2. CASE Proceed(p, {})
    <3>1. flags'[p] = flags[p] /\ pc'[p] = "syncParent"
      BY <2>1, <2>2, ProceedValues, AfterValues DEF Reading
    <3>2. Owned \subseteq Present(p)
      BY <1>11, <2>1 DEF SyncStaging, Storage, Present, Owned, Leaves
    <3>3. listed'[p] = Present(p)
      BY <1>11 DEF SyncStaging, TypeOK
    <3>4. UNCHANGED <<node, synced, children, snap>>
      BY <1>11 DEF SyncStaging
    <3>. QED BY <2>1, <3>1, <3>2, <3>3, <3>4 DEF FilledInv, Filled, Filling, Checking, IsPublished
  <2>3. CASE Fail(p, {})
    BY <1>0, <2>1, <2>3, FailKeepsFilled
  <2>. QED BY <1>11, <2>2, <2>3 DEF SyncStaging, Settle
<1>12. CASE SyncParent(p)
  <2>0. UNCHANGED <<node, synced, listed, children, snap>> /\ pc[p] \in Steps
    BY <1>12, AfterValues DEF SyncParent
  <2>1. CASE Proceed(p, {}) /\ pc[p] = "syncParent"
    <3>1. flags'[p] = flags[p] /\ pc'[p] = "lastList" /\ ~IsPublished(p)
      BY <2>0, <2>1, ProceedValues, AfterValues DEF Reading, ControlInv, Checking, IsPublished
    <3>. QED BY <2>0, <2>1, <3>1, FilledGoesOn DEF Checking, IsPublished
  <2>2. CASE Proceed(p, {}) /\ pc[p] = "syncPublished"
    <3>1. flags'[p] = flags[p] /\ pc'[p] = "close"
      BY <2>0, <2>2, ProceedValues, AfterValues DEF Reading
    <3>. QED BY <2>0, <3>1, FilledStays DEF Filling, Checking, IsPublished
  <2>3. CASE Fail(p, {})
    BY <1>0, <2>0, <2>3, FailKeepsFilled
  <2>. QED BY <1>12, <2>1, <2>2, <2>3 DEF SyncParent, Settle
<1>13. CASE Rename(p)
  <2>1. pc'[p] = "listPublished" /\ pc[p] = "rename"
    BY <1>13, ProceedValues, AfterValues DEF Rename, Reading
  <2>2. UNCHANGED <<node, synced, listed, children, snap>>
    BY <1>13 DEF Rename
  <2>. QED BY <2>1, <2>2, FilledStays DEF Filling, Checking
<1>14. CASE Sweep(p)
  <2>1. pc'[p] \in {"close", "recheck"} /\ flags' = flags /\ ~IsPublished(p)
    BY <1>14 DEF Sweep, Leave, Become, TypeOK, ControlInv, Cleaning
  <2>. QED BY <2>1, FilledStays DEF Filling, Checking, IsPublished
<1>15. CASE Recheck(p)
  <2>1. pc'[p] \in {"close", "unlink"} /\ flags' = flags /\ ~IsPublished(p)
    BY <1>15 DEF Recheck, Leave, Become, TypeOK, ControlInv, Cleaning
  <2>. QED BY <2>1, FilledStays DEF Filling, Checking, IsPublished
<1>16. CASE Unlink(p)
  <2>1. pc'[p] \in {"close", "recheck"} /\ flags' = flags /\ ~IsPublished(p)
    BY <1>16 DEF Unlink, Leave, Become, TypeOK, ControlInv, Cleaning
  <2>. QED BY <2>1, FilledStays DEF Filling, Checking, IsPublished
<1>17. CASE Close(p)
  <2>1. pc'[p] = "finish" /\ UNCHANGED <<node, synced, listed, children, snap>>
        /\ (IsPublished(p)' => IsPublished(p))
    BY <1>17 DEF Close, Become, Flag, TypeOK, IsPublished
  <2>. QED BY <2>1, FilledStays DEF Filling, Checking
<1>18. CASE Finish(p)
  <2>1. pc'[p] = "done" /\ UNCHANGED <<node, synced, listed, children, snap, flags>>
    BY <1>18 DEF Finish, Become, TypeOK
  <2>. QED BY <2>1, FilledStays DEF Filling, Checking, IsPublished
<1>19. CASE Crash(p)
  <2>1. pc'[p] = "crashed" /\ UNCHANGED <<node, synced, listed, children, snap, flags>>
    BY <1>19 DEF Crash, Become, TypeOK
  <2>. QED BY <2>1, FilledStays DEF Filling, Checking, IsPublished
<1>. QED
  BY <1>1, <1>2, <1>3, <1>4, <1>5, <1>6, <1>7, <1>8, <1>9, <1>10, <1>11, <1>12, <1>13, <1>14,
     <1>15, <1>16, <1>17, <1>18, <1>19 DEF Publishes

(* Whoever changes a file leaves nothing whole in it, and nothing synced.   *)
LEMMA AfterChanges ==
  ASSUME TypeOK, Changes
  PROVE  /\ UNCHANGED <<diskEntry, listed, calls, losses>> /\ changes' = changes + 1
         /\ changes' # 0 /\ changes < MaxChanges
         /\ \A p \in Publishers, i \in Leaves :
              \/ node'[p][i] = node[p][i] /\ (i \in synced'[p] <=> i \in synced[p])
              \/ /\ node'[p][i].data \notin {"whole", "empty", "part"} /\ i \notin synced'[p]
                 /\ node'[p][i].at = changes'
                 /\ \E n \in Names : entry[n] = p
         /\ \A n \in Names : entry'[n] = entry[n] \/ entry'[n] \in {Others, NoEntry}
         /\ parentOk' => parentOk
<1>1. UNCHANGED <<diskEntry, listed, calls, losses>> /\ changes' = changes + 1 /\ changes < MaxChanges
  BY DEF Changes, ChangeFile, ChangeEntry, ChangeParent, Change
<1>2. changes' # 0
  BY <1>1 DEF TypeOK
<1>3. \A p \in Publishers, i \in Leaves :
        \/ node'[p][i] = node[p][i] /\ (i \in synced'[p] <=> i \in synced[p])
        \/ /\ node'[p][i].data \notin {"whole", "empty", "part"} /\ i \notin synced'[p]
           /\ node'[p][i].at = changes'
           /\ \E n \in Names : entry[n] = p
  <2>1. ASSUME NEW q \in Publishers, NEW l \in Leaves, ChangeFile(q, l)
        PROVE  \A p \in Publishers, i \in Leaves :
                 \/ node'[p][i] = node[p][i] /\ (i \in synced'[p] <=> i \in synced[p])
                 \/ /\ node'[p][i].data \notin {"whole", "empty", "part"} /\ i \notin synced'[p]
                    /\ node'[p][i].at = changes'
                    /\ \E n \in Names : entry[n] = p
    <3>1. PICK data \in {"none", "alien", "edited"} : Put(q, l, [data |-> data, at |-> changes'])
      BY <2>1 DEF ChangeFile
    <3>2. NodeType /\ DiskType
      BY TypeIsGroups DEF TypeGroups
    <3>3. synced' = [synced EXCEPT ![q] = @ \ {l}] /\ \E n \in Names : entry[n] = q
      BY <2>1 DEF ChangeFile
    <3>. QED BY <3>1, <3>2, <3>3 DEF Put, NodeType, DiskType
  <2>2. CASE UNCHANGED <<node, synced>>
    BY <2>2
  <2>. QED BY <2>1, <2>2 DEF Changes, ChangeEntry, ChangeParent
<1>4. \A n \in Names : entry'[n] = entry[n] \/ entry'[n] \in {Others, NoEntry}
  <2>1. ASSUME NEW m \in Names, ChangeEntry(m)
        PROVE  \A n \in Names : entry'[n] = entry[n] \/ entry'[n] \in {Others, NoEntry}
    BY <2>1, TypeIsGroups DEF TypeGroups, EntryType, ChangeEntry
  <2>2. CASE UNCHANGED entry
    BY <2>2
  <2>. QED BY <2>1, <2>2 DEF Changes, ChangeFile, ChangeParent
<1>5. parentOk' => parentOk
  BY DEF Changes, ChangeFile, ChangeEntry, ChangeParent
<1>. QED BY <1>1, <1>2, <1>3, <1>4, <1>5

LEMMA AllKeepFilled ==
  ASSUME TypeOK, TypeOK', \A p \in Publishers : ControlInv(p),
         \A p \in Publishers : FilledInv(p), [Next]_vars
  PROVE  \A p \in Publishers : FilledInv(p)'
<1> USE TypeParts
<1>1. ASSUME NEW q \in Publishers, Publishes(q) PROVE \A p \in Publishers : FilledInv(p)'
  <2>1. FilledInv(q)'
    BY <1>1, PublisherKeepsFilled
  <2>2. \A p \in Publishers \ {q} : FilledInv(p)'
    BY <1>1, OthersStay DEF OthersSame, FilledInv, Filled, Behind, Sealed, IsPublished
  <2>. QED BY <2>1, <2>2
<1>2. ASSUME Changes, NEW p \in Publishers PROVE FilledInv(p)'
  <2>1. UNCHANGED <<pc, leaf, flags, children, snap, listed>>
    BY <1>2, AfterChanges DEF calls
  <2>2. \A i \in Owned : node'[p][i].data = "whole" =>
                           node[p][i].data = "whole" /\ (i \in synced[p] => i \in synced'[p])
    BY <1>2, AfterChanges
  <2>. QED BY <2>1, <2>2 DEF FilledInv, Filled, Behind, Sealed, IsPublished
<1>3. ASSUME PowerLoss, NEW p \in Publishers PROVE FilledInv(p)'
  <2>1. UNCHANGED <<leaf, flags, children, snap>>
    BY <1>3, AfterPowerLoss
  <2>2. CASE pc[p] = "lookup"
    <3>1. pc'[p] = "lookup" /\ ~IsPublished(p)'
      BY <1>3, <2>1, <2>2, AfterPowerLoss DEF ControlInv, IsPublished
    <3>. QED BY <3>1 DEF FilledInv, Filled, Filling, Checking
  <2>3. CASE pc[p] # "lookup"
    <3>1. pc'[p] = "crashed" /\ synced'[p] = Leaves /\ listed'[p] = Leaves
      BY <1>3, <2>3, AfterPowerLoss
    <3>2. IsPublished(p)' => IsPublished(p)
      BY <2>1 DEF IsPublished
    <3>. QED BY <2>1, <3>1, <3>2 DEF FilledInv, Filled, Filling, Checking
  <2>. QED BY <2>2, <2>3
<1>4. CASE UNCHANGED vars
  BY <1>4 DEF vars, calls, disk, FilledInv, Filled, Behind, Sealed, IsPublished
<1>. QED BY <1>1, <1>2, <1>3, <1>4 DEF Next, Changes

--------------------------------------------------------------------------------
(* What one step of a publisher does to the names of the parent.           *)
Makes(q) == /\ pc[q] = "make" /\ pc'[q] \notin {"lookup", "make", "rename", "unlink"}
            /\ \E n \in StagingNames : /\ entry[n] = NoEntry
                                       /\ entry' = [entry EXCEPT ![n] = q]
                                       /\ name' = [name EXCEPT ![q] = n]
            /\ UNCHANGED diskEntry
Renames(q) == /\ pc[q] = "rename" /\ pc'[q] = "listPublished"
              /\ entry[Dest] = NoEntry /\ entry[name[q]] # NoEntry
              /\ entry' = [entry EXCEPT ![Dest] = entry[name[q]], ![name[q]] = NoEntry]
              /\ name' = [name EXCEPT ![q] = Dest]
              /\ flags'[q] = flags[q] \cup {"published"}
              /\ UNCHANGED diskEntry
Unlinks(q) == /\ pc[q] = "unlink" /\ pc'[q] = "close"
              /\ entry' = [entry EXCEPT ![name[q]] = NoEntry]
              /\ UNCHANGED name /\ diskEntry' \in {diskEntry, entry'}
Stays(q) == UNCHANGED <<entry, name>> /\ (UNCHANGED diskEntry \/ diskEntry' = entry)

LEMMA EntryMoves ==
  ASSUME TypeOK, NEW q \in Publishers, ControlInv(q), Publishes(q)
  PROVE  Makes(q) \/ Renames(q) \/ Unlinks(q) \/ Stays(q)
<1> USE TypeParts DEF disk, Stays
<1>0. pc \in [Publishers -> Steps \cup Ends]
  BY DEF TypeOK
<1>1. CASE Make(q)
  <2>1. pc'[q] \in {"create", "sweep"}
    <3>1. CASE Proceed(q, {"pinned"})
      BY <1>1, <3>1, ProceedValues, AfterValues DEF Make, Reading
    <3>2. CASE Fail(q, {"pinned"}) \/ Fail(q, {})
      BY <1>0, <1>1, <3>2, FailMoves DEF Make, ControlInv, IsPublished
    <3>. QED BY <1>1, <3>1, <3>2 DEF Make, Settle
  <2>. QED BY <1>1, <2>1 DEF Make, Makes
<1>2. CASE Rename(q)
  <2>1. pc'[q] = "listPublished" /\ flags'[q] = flags[q] \cup {"published"}
    BY <1>2, ProceedValues, AfterValues DEF Rename, Reading
  <2>. QED BY <1>2, <2>1 DEF Rename, Renames
<1>3. CASE Unlink(q)
  BY <1>0, <1>3 DEF Unlink, Unlinks, Leave, Become
<1>4. CASE SyncParent(q)
  BY <1>4 DEF SyncParent
<1>5. CASE Sweep(q) \/ Recheck(q)
  BY <1>5 DEF Sweep, Recheck, Leave
<1>6. CASE ~(Make(q) \/ Rename(q) \/ Unlink(q) \/ SyncParent(q) \/ Sweep(q) \/ Recheck(q))
  BY <1>6 DEF Publishes, Fails, Lookup, Collide, Create, Write, SyncFile, Seal, ReadChild,
              CheckListing, SyncStaging, Close, Finish, Crash
<1>. QED BY <1>1, <1>2, <1>3, <1>4, <1>5, <1>6

(* A destination that is taken stays as it is.                             *)
LEMMA DestIsKept ==
  ASSUME TypeOK, NEW q \in Publishers, ControlInv(q), Publishes(q), entry[Dest] # NoEntry
  PROVE  entry'[Dest] = entry[Dest]
<1> USE TypeParts
<1>0. EntryType /\ Dest \in Names
  BY TypeIsGroups DEF TypeGroups
<1>1. CASE Makes(q)
  BY <1>0, <1>1 DEF Makes, EntryType
<1>2. CASE Renames(q)
  BY <1>2 DEF Renames
<1>3. CASE Unlinks(q)
  BY <1>0, <1>3 DEF Unlinks, EntryType, ControlInv
<1>4. CASE Stays(q)
  BY <1>4 DEF Stays
<1>. QED BY <1>1, <1>2, <1>3, <1>4, EntryMoves

(* What one step of a publisher does to the files.                         *)
Fills(q) == /\ pc[q] \in {"create", "write"} /\ ~IsPublished(q)
            /\ pc'[q] # "rename" /\ ~IsPublished(q)'
            /\ \E data \in {"empty", "part", "whole"} : Put(q, leaf[q], Ours(data))
            /\ pc[q] = "create" => node[q][leaf[q]].data = "none"
Empties(q) == /\ pc[q] = "unlink" /\ ~IsPublished(q) /\ children[q] \in Owned
              /\ pc'[q] = "recheck" /\ flags' = flags
              /\ Put(q, children[q], Ours("none"))

LEMMA NodeMoves ==
  ASSUME TypeOK, NEW q \in Publishers, ControlInv(q), Publishes(q)
  PROVE  Fills(q) \/ Empties(q) \/ UNCHANGED node
<1> USE TypeParts
<1>0. /\ pc \in [Publishers -> Steps \cup Ends] /\ children[q] \in 0..N
      /\ flags \in [Publishers -> SUBSET Flags]
  BY DEF TypeOK
<1>1. CASE Create(q) \/ Write(q)
  <2>1. pc[q] \in {"create", "write"} /\ ~IsPublished(q)
    BY <1>1 DEF Create, Write, ControlInv, Filling, IsPublished
  <2>2. CASE Proceed(q, {})
    BY <1>1, <2>1, <2>2, ProceedValues, AfterValues DEF Create, Write, Fills, Reading, IsPublished
  <2>3. CASE Fail(q, {}) \/ Fail(q, {"uncertain"})
    <3>1. pc'[q] = "sweep" /\ ~IsPublished(q)'
      BY <1>0, <2>1, <2>3, FailMoves DEF IsPublished
    <3>. QED BY <1>1, <2>1, <3>1 DEF Create, Write, Fills
  <2>. QED BY <1>1, <2>2, <2>3 DEF Create, Write, Settle
<1>2. CASE Unlink(q)
  <2>1. ~IsPublished(q)
    BY <1>2 DEF Unlink, ControlInv, Cleaning
  <2>. QED BY <1>0, <1>2, <2>1 DEF Unlink, Empties, Become, Owned
<1>3. CASE Sweep(q) \/ Recheck(q)
  BY <1>3 DEF Sweep, Recheck
<1>4. CASE ~(Create(q) \/ Write(q) \/ Unlink(q) \/ Sweep(q) \/ Recheck(q))
  BY <1>4 DEF Publishes, Fails, Lookup, Collide, Make, Rename, SyncParent, SyncFile, Seal,
              ReadChild, CheckListing, SyncStaging, Close, Finish, Crash
<1>. QED BY <1>1, <1>2, <1>3, <1>4

--------------------------------------------------------------------------------
(* The names under which a publisher's directory is found.                 *)
PlaceInv(p) == \A n \in Names :
  /\ pc[p] \in {"lookup", "make"} => entry[n] # p /\ diskEntry[n] # p
  /\ entry[n] = p => n = name[p] \/ n = Dest \/ pc[p] = "crashed"

(* A publisher that has begun does not begin again.                        *)
LEMMA BeginsOnce ==
  ASSUME TypeOK, NEW q \in Publishers, ControlInv(q), Publishes(q)
  PROVE  /\ pc'[q] \in {"lookup", "make"} => pc[q] \in {"lookup", "make"}
         /\ pc[q] = "crashed" => pc'[q] = "crashed"
<1> USE TypeParts
<1>0. pc \in [Publishers -> Steps \cup Ends]
  BY DEF TypeOK
<1>1. ASSUME NEW known \in SUBSET Flags, pc[q] \in Steps, Proceed(q, known)
      PROVE  pc'[q] \in {"lookup", "make"} => pc[q] \in {"lookup", "make"}
  BY <1>1, ProceedValues, AfterValues DEF Reading
<1>2. ASSUME NEW known \in SUBSET Flags, Fail(q, known)
      PROVE  pc'[q] \notin {"lookup", "make"}
  BY <1>0, <1>2, FailMoves
<1>3. CASE Collide(q)
  BY <1>3 DEF Collide
<1>4. CASE \/ Sweep(q) \/ Recheck(q) \/ Unlink(q) \/ Close(q) \/ Finish(q) \/ Crash(q)
  BY <1>0, <1>4 DEF Sweep, Recheck, Unlink, Close, Finish, Crash, Leave, Become
<1>5. CASE ~(\/ Collide(q) \/ Sweep(q) \/ Recheck(q) \/ Unlink(q) \/ Close(q) \/ Finish(q)
             \/ Crash(q))
  <2>1. pc[q] \in Steps /\ \E known \in SUBSET Flags : Proceed(q, known) \/ Fail(q, known)
    BY <1>5, AfterValues
       DEF Publishes, Fails, Lookup, Make, Create, Write, SyncFile, Seal, ReadChild, CheckListing,
           SyncStaging, SyncParent, Rename, Settle, Reading, Listing
  <2>. QED BY <1>1, <1>2, <2>1, AfterValues
<1>. QED BY <1>3, <1>4, <1>5, AfterValues DEF Collide, Sweep, Recheck, Unlink, Close, Finish, Crash

LEMMA AllKeepPlace ==
  ASSUME TypeOK, \A p \in Publishers : ControlInv(p), \A p \in Publishers : PlaceInv(p), [Next]_vars
  PROVE  \A p \in Publishers : PlaceInv(p)'
<1> USE TypeParts
<1>0. EntryType /\ NameType /\ Dest \in Names
  BY TypeIsGroups DEF TypeGroups
<1>1. ASSUME NEW q \in Publishers, Publishes(q), NEW p \in Publishers PROVE PlaceInv(p)'
  <2>1. \A x \in Publishers \ {q} : pc'[x] = pc[x] /\ name'[x] = name[x]
    BY <1>1, OthersStay DEF OthersSame
  <2>2. /\ pc'[p] \in {"lookup", "make"} => pc[p] \in {"lookup", "make"}
        /\ pc[p] = "crashed" => pc'[p] = "crashed"
    BY <1>1, <2>1, BeginsOnce
  <2>3. CASE Makes(q)
    <3>1. PICK m \in StagingNames : entry' = [entry EXCEPT ![m] = q] /\ name' = [name EXCEPT ![q] = m]
      BY <2>3 DEF Makes
    <3>2. m \in Names /\ diskEntry' = diskEntry /\ pc[q] = "make" /\ pc'[q] \notin {"lookup", "make"}
      BY <2>3, <3>1 DEF Makes
    <3>3. \A n \in Names : entry'[n] = IF n = m THEN q ELSE entry[n]
      BY <1>0, <3>1, <3>2 DEF EntryType
    <3>4. name'[q] = m
      BY <1>0, <3>1 DEF NameType
    <3>. QED BY <2>1, <2>2, <3>2, <3>3, <3>4 DEF PlaceInv
  <2>4. CASE Renames(q)
    <3>1. name[q] \in StagingNames /\ name[q] \in Names /\ name[q] # Dest /\ name'[q] = Dest
      BY <1>0, <2>4 DEF Renames, ControlInv, Checking, NameType
    <3>2. \A n \in Names : entry'[n] = IF n = name[q] THEN NoEntry
                                       ELSE IF n = Dest THEN entry[name[q]] ELSE entry[n]
      BY <1>0, <2>4, <3>1 DEF EntryType, Renames
    <3>3. diskEntry' = diskEntry /\ pc[q] = "rename"
      BY <2>4 DEF Renames
    <3>. QED BY <2>1, <2>2, <3>1, <3>2, <3>3 DEF PlaceInv
  <2>5. CASE Unlinks(q)
    <3>1. name[q] \in Names /\ name' = name
      BY <2>5 DEF Unlinks, ControlInv
    <3>2. \A n \in Names : entry'[n] \in {NoEntry, entry[n]} /\ diskEntry'[n] \in {NoEntry, entry[n], diskEntry[n]}
      BY <1>0, <2>5, <3>1 DEF EntryType, Unlinks
    <3>. QED BY <2>2, <3>1, <3>2 DEF PlaceInv
  <2>6. CASE Stays(q)
    BY <2>2, <2>6 DEF Stays, PlaceInv
  <2>. QED BY <1>1, <2>3, <2>4, <2>5, <2>6, EntryMoves
<1>2. ASSUME Changes, NEW p \in Publishers PROVE PlaceInv(p)'
  <2>1. UNCHANGED <<pc, name, diskEntry>>
    BY <1>2, AfterChanges DEF calls
  <2>2. \A n \in Names : entry'[n] = p => entry[n] = p
    BY <1>2, AfterChanges
  <2>. QED BY <2>1, <2>2 DEF PlaceInv
<1>3. ASSUME PowerLoss, NEW p \in Publishers PROVE PlaceInv(p)'
  <2>1. \A n \in Names : /\ entry'[n] \in {entry[n], diskEntry[n]}
                         /\ diskEntry'[n] \in {entry[n], diskEntry[n]}
    BY <1>3, AfterPowerLoss
  <2>2. pc'[p] = "crashed" \/ (pc'[p] = "lookup" /\ pc[p] = "lookup")
    BY <1>3, AfterPowerLoss
  <2>. QED BY <2>1, <2>2 DEF PlaceInv
<1>4. CASE UNCHANGED vars
  BY <1>4 DEF vars, calls, disk, PlaceInv
<1>. QED BY <1>1, <1>2, <1>3, <1>4 DEF Next, Changes

--------------------------------------------------------------------------------
(* The last check before a rename, and before a removal.                   *)
LEMMA LastChecks ==
  ASSUME TypeOK, NEW q \in Publishers, ControlInv(q), Publishes(q)
  PROVE  /\ pc'[q] = "rename" => /\ pc[q] = "lastList" /\ Listed(q)
                                 /\ UNCHANGED <<entry, diskEntry, node, name, children, snap>>
         /\ pc'[q] = "unlink" => /\ pc[q] = "recheck" /\ Storage(q)
                                 /\ UNCHANGED <<entry, diskEntry, node, name, children, snap>>
         /\ IsPublished(q) => IsPublished(q)'
         /\ IsPublished(q)' => IsPublished(q) \/ Rename(q)
<1> USE TypeParts DEF disk
<1>0. /\ pc \in [Publishers -> Steps \cup Ends] /\ flags \in [Publishers -> SUBSET Flags]
  BY DEF TypeOK
<1> DEFINE Calm == /\ pc'[q] \notin {"rename", "unlink"}
                   /\ IsPublished(q)' <=> IsPublished(q)
<1>1. ASSUME NEW known \in SUBSET {"pinned"}, pc[q] \in Steps \ {"lastList"}, Proceed(q, known)
      PROVE  Calm
  <2>1. known \in SUBSET Flags
    BY DEF Flags
  <2>2. pc'[q] \notin {"rename", "unlink"} \/ pc[q] \in Reading
    BY <1>1, <2>1, ProceedValues, AfterValues
  <2>3. pc'[q] \notin {"rename", "unlink"}
    BY <1>1, <2>1, <2>2, ProceedValues, AfterValues DEF Reading
  <2>4. flags'[q] = flags[q] \cup known
    BY <1>1, <2>1, ProceedValues
  <2>. QED BY <2>3, <2>4 DEF IsPublished
<1>2. ASSUME NEW known \in SUBSET {"pinned", "uncertain"}, Fail(q, known)
      PROVE  Calm
  <2>1. known \in SUBSET Flags
    BY DEF Flags
  <2>2. pc'[q] \in {"close", "sweep"} /\ flags'[q] = flags[q] \cup known \cup {"failed"}
    BY <1>0, <1>2, <2>1, FailMoves
  <2>. QED BY <2>2 DEF IsPublished
<1>3. CASE CheckListing(q) /\ pc[q] = "lastList"
  <2>1. pc'[q] = "rename" /\ flags'[q] = flags[q]
    BY <1>3, ProceedValues, AfterValues DEF CheckListing, Reading
  <2>. QED BY <1>3, <2>1 DEF CheckListing, IsPublished
<1>4. CASE Recheck(q)
  BY <1>0, <1>4 DEF Recheck, Leave, Become, IsPublished
<1>5. CASE Rename(q)
  <2>1. pc'[q] = "listPublished" /\ flags'[q] = flags[q] \cup {"published"}
    BY <1>5, ProceedValues, AfterValues DEF Rename, Reading
  <2>. QED BY <1>5, <2>1 DEF IsPublished
<1>6. CASE Collide(q) \/ Sweep(q) \/ Unlink(q) \/ Close(q) \/ Finish(q) \/ Crash(q)
  <2>. Calm
    BY <1>0, <1>6 DEF Collide, Sweep, Unlink, Close, Finish, Crash, Leave, Become, Flag, IsPublished
  <2>. QED OBVIOUS
<1>7. CASE \/ Fails(q) \/ Lookup(q) \/ Make(q) \/ Create(q) \/ Write(q) \/ SyncFile(q) \/ Seal(q)
           \/ ReadChild(q) \/ (CheckListing(q) /\ pc[q] # "lastList") \/ SyncStaging(q)
           \/ SyncParent(q)
  <2>1. \/ pc[q] \in Steps \ {"lastList"} /\ \E known \in SUBSET {"pinned"} : Proceed(q, known)
        \/ \E known \in SUBSET {"pinned", "uncertain"} : Fail(q, known)
    BY <1>7, AfterValues
       DEF Fails, Lookup, Make, Create, Write, SyncFile, Seal, ReadChild, CheckListing,
           SyncStaging, SyncParent, Settle, Reading, Listing
  <2>2. Calm
    BY <1>1, <1>2, <2>1
  <2>. QED BY <2>2
<1>. QED BY <1>3, <1>4, <1>5, <1>6, <1>7 DEF Publishes

(* What was checked is whole and nothing but whole.                        *)
LEMMA ListedIsComplete ==
  ASSUME NEW q \in Publishers, Listed(q), "pinned" \in flags[q], FilledInv(q), Filled(q)
  PROVE  Complete(q) /\ entry[name[q]] = q
<1>1. children[q] = N /\ \A i \in Owned : snap[q][i].data = "whole"
  BY DEF FilledInv
<1>. QED BY <1>1 DEF Listed, Storage, Complete, Sealed, Owned

(* As long as nobody else has changed anything.                            *)
CalmInv(p) == changes = 0 =>
  /\ pc[p] \in {"rename", "unlink"} => entry[name[p]] = p
  /\ entry[Dest] = p \/ diskEntry[Dest] = p => IsPublished(p)
  /\ pc[p] = "rename" \/ IsPublished(p) => Complete(p)

(* A complete directory that is published stays as it is.                  *)
LEMMA CompleteStays ==
  ASSUME TypeOK, NEW p \in Publishers, ControlInv(p), FilledInv(p), IsPublished(p), Complete(p),
         \/ \E q \in Publishers : Publishes(q) /\ ControlInv(q)
         \/ PowerLoss
  PROVE  Complete(p)' /\ node'[p] = node[p]
<1> USE TypeParts
<1>0. NodeType
  BY TypeIsGroups DEF TypeGroups
<1>1. node'[p] = node[p]
  <2>1. ASSUME NEW q \in Publishers, Publishes(q), ControlInv(q) PROVE node'[p] = node[p]
    <3>1. CASE q = p
      BY <2>1, <3>1, NodeMoves DEF Fills, Empties
    <3>2. CASE q # p
      BY <2>1, <3>2, OthersStay DEF OthersSame
    <3>. QED BY <3>1, <3>2
  <2>2. CASE PowerLoss
    <3>1. ASSUME NEW l \in Leaves PROVE node'[p][l] = node[p][l]
      <4>1. CASE l \in Owned
        BY <2>2, <4>1, AfterPowerLoss DEF FilledInv, Filled, Complete
      <4>2. CASE l \notin Owned
        BY <2>2, <4>2, AfterPowerLoss DEF Complete, Present
      <4>. QED BY <4>1, <4>2
    <3>2. node'[p] = [l \in Leaves |-> node'[p][l]]
      BY <2>2 DEF PowerLoss
    <3>3. node[p] = [l \in Leaves |-> node[p][l]]
      BY <1>0 DEF NodeType
    <3>. QED BY <3>1, <3>2, <3>3
  <2>. QED BY <2>1, <2>2
<1>. QED BY <1>1 DEF Complete, Present

LEMMA AllKeepCalm ==
  ASSUME TypeOK, \A p \in Publishers : ControlInv(p), \A p \in Publishers : FilledInv(p),
         \A p \in Publishers : CalmInv(p), [Next]_vars
  PROVE  \A p \in Publishers : CalmInv(p)'
<1> USE TypeParts
<1>0. EntryType /\ NameType /\ Dest \in Names
  BY TypeIsGroups DEF TypeGroups
<1>1. ASSUME NEW q \in Publishers, Publishes(q), NEW p \in Publishers, changes = 0
      PROVE  CalmInv(p)'
  <2>0. CalmInv(p) /\ CalmInv(q) /\ ControlInv(p) /\ ControlInv(q)
    OBVIOUS
  <2>1. q # p => /\ pc'[p] = pc[p] /\ name'[p] = name[p] /\ flags'[p] = flags[p]
                 /\ node'[p] = node[p]
    BY <1>1, OthersStay DEF OthersSame
  <2>2. pc[p] \in {"rename", "unlink"} => name[p] \in StagingNames /\ name[p] \in Names
    BY <2>0 DEF ControlInv, Checking
  <2>3. pc'[p] \in {"rename", "unlink"} => entry'[name'[p]] = p
    <3>1. CASE q = p
      <4>1. ASSUME pc'[p] = "rename" PROVE entry'[name'[p]] = p
        <5>1. pc[p] = "lastList" /\ Listed(p) /\ UNCHANGED <<entry, name>>
          BY <1>1, <3>1, <4>1, LastChecks
        <5>2. "pinned" \in flags[p]
          BY <2>0, <5>1 DEF ControlInv, Checking
        <5>. QED BY <5>1, <5>2 DEF Listed, Storage
      <4>2. ASSUME pc'[p] = "unlink" PROVE entry'[name'[p]] = p
        <5>1. pc[p] = "recheck" /\ Storage(p) /\ UNCHANGED <<entry, name>>
          BY <1>1, <3>1, <4>2, LastChecks
        <5>2. "pinned" \in flags[p]
          BY <2>0, <5>1 DEF ControlInv
        <5>. QED BY <5>1, <5>2 DEF Storage
      <4>. QED BY <4>1, <4>2
    <3>2. CASE q # p /\ pc[p] \in {"rename", "unlink"}
      <4>1. entry[name[p]] = p /\ name[p] # Dest
        BY <1>1, <2>0, <2>2, <3>2 DEF CalmInv
      <4>2. CASE Makes(q)
        BY <1>0, <2>1, <2>2, <3>2, <4>1, <4>2 DEF Makes, EntryType
      <4>3. CASE Renames(q) \/ Unlinks(q)
        <5>1. entry[name[q]] = q
          BY <1>1, <2>0, <4>3 DEF Renames, Unlinks, CalmInv
        <5>. QED BY <1>0, <2>1, <2>2, <3>2, <4>1, <4>3, <5>1 DEF Renames, Unlinks, EntryType
      <4>4. CASE Stays(q)
        BY <2>1, <3>2, <4>1, <4>4 DEF Stays
      <4>. QED BY <1>1, <4>2, <4>3, <4>4, EntryMoves
    <3>. QED BY <2>1, <3>1, <3>2
  <2>4. entry'[Dest] = p \/ diskEntry'[Dest] = p => IsPublished(p)'
    <3>1. IsPublished(p) => IsPublished(p)'
      BY <1>1, <2>1, LastChecks DEF IsPublished
    <3>2. ASSUME NEW n \in StagingNames PROVE n \in Names /\ n # Dest
      OBVIOUS
    <3>3. CASE Makes(q) \/ Unlinks(q)
      <4>1. Unlinks(q) => name[q] \in StagingNames
        BY <2>0 DEF Unlinks, ControlInv
      <4>2. entry'[Dest] = entry[Dest] /\ diskEntry'[Dest] \in {diskEntry[Dest], entry[Dest]}
        BY <1>0, <3>2, <3>3, <4>1 DEF Makes, Unlinks, EntryType
      <4>. QED BY <1>1, <2>0, <3>1, <4>2 DEF CalmInv
    <3>4. CASE Renames(q)
      <4>1. entry[name[q]] = q /\ name[q] \in StagingNames
        BY <1>1, <2>0, <3>4 DEF Renames, ControlInv, CalmInv, Checking
      <4>2. entry'[Dest] = q /\ diskEntry' = diskEntry /\ IsPublished(q)'
        BY <1>0, <3>2, <3>4, <4>1 DEF Renames, EntryType, IsPublished
      <4>. QED BY <1>1, <2>0, <3>1, <4>2 DEF CalmInv
    <3>5. CASE Stays(q)
      BY <1>1, <2>0, <3>1, <3>5 DEF Stays, CalmInv
    <3>. QED BY <1>1, <2>0, <3>3, <3>4, <3>5, EntryMoves
  <2>5. pc'[p] = "rename" \/ IsPublished(p)' => Complete(p)'
    <3>1. CASE IsPublished(p)
      BY <1>1, <3>1, CompleteStays DEF CalmInv
    <3>2. CASE q # p /\ ~IsPublished(p)
      BY <1>1, <2>0, <2>1, <3>2 DEF CalmInv, IsPublished, Complete, Present
    <3>3. CASE q = p /\ ~IsPublished(p)
      <4>1. ASSUME pc'[p] = "rename" PROVE Complete(p)'
        <5>1. pc[p] = "lastList" /\ Listed(p) /\ node' = node
          BY <1>1, <3>3, <4>1, LastChecks
        <5>2. "pinned" \in flags[p] /\ Filled(p)
          BY <2>0, <5>1 DEF ControlInv, Checking, Filled
        <5>3. Complete(p)
          BY <5>1, <5>2, ListedIsComplete
        <5>. QED BY <5>1, <5>3 DEF Complete, Present
      <4>2. ASSUME IsPublished(p)' PROVE Complete(p)'
        <5>1. Rename(p)
          BY <1>1, <3>3, <4>2, LastChecks
        <5>2. pc[p] = "rename" /\ node' = node
          BY <5>1 DEF Rename
        <5>. QED BY <1>1, <2>0, <5>2 DEF CalmInv, Complete, Present
      <4>. QED BY <4>1, <4>2
    <3>. QED BY <3>1, <3>2, <3>3
  <2>. QED BY <2>3, <2>4, <2>5 DEF CalmInv
<1>2. ASSUME Changes, NEW p \in Publishers PROVE CalmInv(p)'
  BY <1>2, AfterChanges DEF CalmInv
<1>3. ASSUME PowerLoss, NEW p \in Publishers, changes = 0 PROVE CalmInv(p)'
  <2>1. pc'[p] \notin {"rename", "unlink"} /\ flags' = flags
    BY <1>3, AfterPowerLoss
  <2>2. entry'[Dest] \in {entry[Dest], diskEntry[Dest]} /\ diskEntry'[Dest] = entry'[Dest]
    BY <1>0, <1>3, AfterPowerLoss
  <2>3. IsPublished(p) => Complete(p)'
    BY <1>3, CompleteStays DEF CalmInv
  <2>. QED BY <1>3, <2>1, <2>2, <2>3 DEF CalmInv, IsPublished
<1>4. ASSUME UNCHANGED vars, NEW p \in Publishers PROVE CalmInv(p)'
  BY <1>4 DEF vars, calls, disk, bounds, CalmInv, IsPublished, Complete, Present
<1>5. changes' = 0 => changes = 0 \/ Changes \/ UNCHANGED vars
  <2>1. ASSUME NEW q \in Publishers, Publishes(q) PROVE changes' = changes
    BY <2>1, OthersStay
  <2>2. PowerLoss => changes' = changes
    BY DEF PowerLoss
  <2>. QED BY <2>1, <2>2 DEF Next, Changes
<1>6. CASE changes' # 0
  BY <1>6 DEF CalmInv
<1>. QED BY <1>1, <1>2, <1>3, <1>4, <1>5, <1>6 DEF Next, Changes

--------------------------------------------------------------------------------
(* What a power loss cannot take back: the publisher has synced the parent  *)
(* after the rename, and nothing of its own failed since.                  *)
Kept(p) == out[p] = "ok" \/ (pc[p] \in {"close", "finish"} /\ "failed" \notin flags[p])

KeptInv(p) == Kept(p) =>
  /\ \A n \in StagingNames : entry[n] # p /\ diskEntry[n] # p
  /\ entry[Dest] = p => diskEntry[Dest] = p

LEMMA EntersKept ==
  ASSUME TypeOK, NEW q \in Publishers, ControlInv(q), Publishes(q)
  PROVE  Kept(q)' => Kept(q) \/ (SyncParent(q) /\ pc[q] = "syncPublished")
<1> USE TypeParts
<1>0. /\ pc \in [Publishers -> Steps \cup Ends] /\ flags \in [Publishers -> SUBSET Flags]
      /\ out \in [Publishers -> {"none", "ok", "error"}]
  BY DEF TypeOK
<1>1. ASSUME NEW known \in SUBSET Flags, pc[q] \in Steps \ {"syncPublished"}, Proceed(q, known)
      PROVE  ~Kept(q)'
  <2>1. pc'[q] \notin {"close", "finish"} /\ out'[q] = "none"
    BY <1>1, ProceedValues, AfterValues DEF Reading
  <2>. QED BY <2>1 DEF Kept
<1>2. ASSUME NEW known \in SUBSET Flags, pc[q] \in Steps, Fail(q, known) PROVE ~Kept(q)'
  <2>1. "failed" \in flags'[q] /\ out'[q] = out[q] /\ pc'[q] \in {"close", "sweep"}
    BY <1>0, <1>2, FailMoves
  <2>2. out[q] # "ok"
    BY <1>2, AfterValues DEF ControlInv
  <2>. QED BY <2>1, <2>2 DEF Kept
<1>3. CASE Collide(q)
  <2>1. pc'[q] \in {"make", "sweep"} /\ out'[q] = out[q] /\ pc[q] = "make"
    BY <1>0, <1>3 DEF Collide, Become
  <2>. QED BY <2>1 DEF Kept, ControlInv
<1>4. CASE Sweep(q) \/ Recheck(q) \/ Unlink(q)
  <2>1. pc[q] \in Cleaning /\ flags' = flags /\ out' = out
    BY <1>4 DEF Sweep, Recheck, Unlink, Leave, Cleaning
  <2>. QED BY <2>1 DEF Kept, ControlInv, Cleaning
<1>5. CASE Close(q) \/ Finish(q) \/ Crash(q)
  BY <1>0, <1>5 DEF Close, Finish, Crash, Become, Flag, Kept
<1>6. CASE \/ Fails(q) \/ Lookup(q) \/ Make(q) \/ Create(q) \/ Write(q) \/ SyncFile(q) \/ Seal(q)
           \/ ReadChild(q) \/ CheckListing(q) \/ SyncStaging(q) \/ Rename(q)
           \/ (SyncParent(q) /\ pc[q] # "syncPublished")
  <2>1. \/ /\ pc[q] \in Steps \ {"syncPublished"}
           /\ \E known \in SUBSET Flags : Proceed(q, known)
        \/ pc[q] \in Steps /\ \E known \in SUBSET Flags : Fail(q, known)
    BY <1>6, AfterValues
       DEF Fails, Lookup, Make, Create, Write, SyncFile, Seal, ReadChild, CheckListing,
           SyncStaging, SyncParent, Rename, Settle, Reading, Listing
  <2>. QED BY <1>1, <1>2, <2>1
<1>. QED BY <1>3, <1>4, <1>5, <1>6 DEF Publishes

LEMMA AllKeepKept ==
  ASSUME TypeOK, \A p \in Publishers : ControlInv(p), \A p \in Publishers : PlaceInv(p),
         \A p \in Publishers : KeptInv(p), [Next]_vars
  PROVE  \A p \in Publishers : KeptInv(p)'
<1> USE TypeParts
<1>0. EntryType /\ NameType /\ Dest \in Names
  BY TypeIsGroups DEF TypeGroups
<1>1. ASSUME NEW q \in Publishers, Publishes(q), NEW p \in Publishers, Kept(p)'
      PROVE  KeptInv(p)'
  <2>0. KeptInv(p) /\ ControlInv(p) /\ ControlInv(q) /\ PlaceInv(p)
    OBVIOUS
  <2>1. q # p => pc'[p] = pc[p] /\ name'[p] = name[p] /\ flags'[p] = flags[p] /\ out'[p] = out[p]
    BY <1>1, OthersStay DEF OthersSame
  <2>2. CASE q = p /\ SyncParent(q) /\ pc[q] = "syncPublished"
    <3>1. Storage(p) /\ diskEntry' = entry /\ entry' = entry
      BY <2>2 DEF SyncParent
    <3>2. name[p] = Dest
      BY <1>1, <2>0, <2>2 DEF ControlInv, Confirming
    <3>3. \A n \in StagingNames : entry[n] # p
      BY <2>0, <2>2, <3>2 DEF PlaceInv
    <3>. QED BY <3>1, <3>3 DEF KeptInv
  <2>3. CASE Kept(p)
    <3>1. /\ \A n \in StagingNames : entry[n] # p /\ diskEntry[n] # p
          /\ entry[Dest] = p => diskEntry[Dest] = p
      BY <2>0, <2>3 DEF KeptInv
    <3>2. \A n \in StagingNames : n \in Names /\ n # Dest
      OBVIOUS
    <3>3. CASE Makes(q)
      <4>1. q # p
        BY <2>0, <2>3, <3>3 DEF Makes, Kept, ControlInv
      <4>2. diskEntry' = diskEntry
        BY <3>3 DEF Makes
      <4>. QED BY <1>0, <3>1, <3>2, <3>3, <4>1, <4>2 DEF Makes, KeptInv, EntryType
    <3>4. CASE Renames(q)
      <4>1. name[q] \in StagingNames /\ diskEntry' = diskEntry
        BY <2>0, <3>4 DEF Renames, ControlInv, Checking
      <4>2. entry'[Dest] # p
        BY <1>0, <3>1, <3>2, <3>4, <4>1 DEF Renames, EntryType
      <4>3. \A n \in StagingNames : entry'[n] # p
        BY <1>0, <3>1, <3>2, <3>4, <4>1 DEF Renames, EntryType
      <4>. QED BY <3>1, <4>1, <4>2, <4>3 DEF KeptInv
    <3>5. CASE Unlinks(q)
      <4>1. name[q] \in StagingNames /\ diskEntry' \in {diskEntry, entry'}
        BY <2>0, <3>5 DEF Unlinks, ControlInv
      <4>2. entry'[Dest] = entry[Dest] /\ \A n \in StagingNames : entry'[n] # p
        BY <1>0, <3>1, <3>2, <3>5, <4>1 DEF Unlinks, EntryType
      <4>. QED BY <3>1, <4>1, <4>2 DEF KeptInv
    <3>6. CASE Stays(q)
      BY <3>1, <3>6 DEF Stays, KeptInv
    <3>. QED BY <1>1, <2>0, <3>3, <3>4, <3>5, <3>6, EntryMoves
  <2>4. q # p => (Kept(p)' <=> Kept(p))
    BY <2>1 DEF Kept
  <2>. QED BY <1>1, <2>0, <2>2, <2>3, <2>4, EntersKept
<1>2. ASSUME Changes, NEW p \in Publishers PROVE KeptInv(p)'
  <2>1. UNCHANGED <<pc, flags, out, diskEntry>>
    BY <1>2, AfterChanges DEF calls
  <2>2. \A n \in Names : entry'[n] = p => entry[n] = p
    BY <1>2, AfterChanges
  <2>. QED BY <1>0, <2>1, <2>2 DEF KeptInv, Kept
<1>3. ASSUME PowerLoss, NEW p \in Publishers PROVE KeptInv(p)'
  <2>1. \A n \in Names : entry'[n] \in {entry[n], diskEntry[n]} /\ diskEntry'[n] = entry'[n]
    BY <1>3, AfterPowerLoss
  <2>2. Kept(p)' => Kept(p)
    BY <1>3, AfterPowerLoss DEF Kept
  <2>. QED BY <1>0, <2>1, <2>2 DEF KeptInv
<1>4. CASE UNCHANGED vars
  BY <1>4 DEF vars, calls, disk, KeptInv, Kept
<1>5. \A p \in Publishers : ~Kept(p)' => KeptInv(p)'
  BY DEF KeptInv
<1>. QED BY <1>1, <1>2, <1>3, <1>4, <1>5 DEF Next, Changes

(* A call that has returned does nothing more.                             *)
LEMMA ReturnedIsOver ==
  ASSUME NEW q \in Publishers, ControlInv(q), out[q] # "none"
  PROVE  ~Publishes(q)
<1>1. pc[q] \in {"done", "crashed"}
  BY DEF ControlInv
<1>. QED
  BY <1>1, AfterValues
     DEF Publishes, Fails, Lookup, Collide, Make, Create, Write, SyncFile, Seal, ReadChild,
         CheckListing, SyncStaging, SyncParent, Rename, Sweep, Recheck, Unlink, Close, Finish,
         Crash, Reading, Listing

(* What a call returned stays true.                                        *)
LEMMA ReceiptStays ==
  ASSUME TypeOK, TypeOK', \A p \in Publishers : ControlInv(p), \A p \in Publishers : FilledInv(p),
         \A p \in Publishers : KeptInv(p), ReceiptIsTrue, [Next]_vars
  PROVE  ReceiptIsTrue'
<1> USE TypeParts
<1>0. EntryType /\ NameType /\ Dest \in Names /\ changes \in Nat
      /\ okAt \in [Publishers -> 0..MaxChanges] /\ out \in [Publishers -> {"none", "ok", "error"}]
  BY TypeIsGroups DEF TypeGroups, ControlType, OtherType
<1>1. SUFFICES ASSUME NEW p \in Publishers, out'[p] = "ok", changes' = okAt'[p]
               PROVE  entry'[Dest] = p /\ Complete(p)'
  BY DEF ReceiptIsTrue
<1>2. ASSUME NEW q \in Publishers, Publishes(q) PROVE entry'[Dest] = p /\ Complete(p)'
  <2>0. ControlInv(p) /\ ControlInv(q) /\ FilledInv(p) /\ changes' = changes
    BY <1>2, OthersStay
  <2>1. CASE q = p /\ out[p] # "ok"
    <3>1. Finish(p)
      <4>1. out' # out
        BY <1>1, <2>1
      <4>2. \A known : Proceed(p, known) \/ Fail(p, known) => out' = out
        BY DEF Proceed, Fail
      <4>. QED
        BY <1>2, <2>1, <4>1, <4>2
           DEF Publishes, Fails, Lookup, Collide, Make, Create, Write, SyncFile, Seal, ReadChild,
               CheckListing, SyncStaging, SyncParent, Rename, Sweep, Recheck, Unlink, Close, Crash,
               Settle, Leave
    <3>2. Listed(p) /\ "failed" \notin flags[p] /\ pc[p] = "finish" /\ UNCHANGED <<entry, node>>
      BY <1>0, <1>1, <3>1 DEF Finish
    <3>3. IsPublished(p) /\ name[p] = Dest /\ "pinned" \in flags[p]
      BY <2>0, <3>2 DEF ControlInv
    <3>4. Complete(p) /\ entry[Dest] = p
      BY <2>0, <3>2, <3>3, ListedIsComplete DEF Filled
    <3>. QED BY <3>2, <3>4 DEF Complete, Present
  <2>2. CASE out[p] = "ok" /\ okAt'[p] = okAt[p]
    <3>1. entry[Dest] = p /\ Complete(p) /\ IsPublished(p)
      BY <1>1, <2>0, <2>2 DEF ReceiptIsTrue, ControlInv
    <3>2. Complete(p)'
      BY <1>2, <2>0, <3>1, CompleteStays
    <3>3. entry'[Dest] = entry[Dest]
      BY <1>2, <2>0, <3>1, DestIsKept
    <3>. QED BY <3>1, <3>2, <3>3
  <2>3. q # p => out'[p] = out[p] /\ okAt'[p] = okAt[p]
    BY <1>2, OthersStay DEF OthersSame
  <2>4. ~(q = p /\ out[p] = "ok")
    BY <1>2, <2>0, ReturnedIsOver
  <2>. QED BY <1>1, <2>1, <2>2, <2>3, <2>4
<1>3. CASE Changes
  <2>1. out[p] = "ok" /\ okAt'[p] = okAt[p] /\ changes' = changes + 1
    BY <1>1, <1>3, AfterChanges DEF calls
  <2>2. okAt[p] <= changes
    BY <2>1 DEF ControlInv
  <2>. QED BY <1>0, <1>1, <2>1, <2>2
<1>4. CASE PowerLoss
  <2>1. out[p] = "ok" /\ okAt'[p] = okAt[p] /\ changes' = changes
    BY <1>1, <1>4, AfterPowerLoss
  <2>2. entry[Dest] = p /\ Complete(p) /\ IsPublished(p) /\ Kept(p)
    BY <1>1, <2>1 DEF ReceiptIsTrue, ControlInv, Kept
  <2>3. Complete(p)'
    BY <1>4, <2>2, CompleteStays
  <2>4. entry'[Dest] = p
    BY <1>0, <1>4, <2>2, AfterPowerLoss DEF KeptInv
  <2>. QED BY <2>3, <2>4
<1>5. CASE UNCHANGED vars
  BY <1>1, <1>5 DEF vars, calls, bounds, ReceiptIsTrue, Complete, Present
<1>. QED BY <1>2, <1>3, <1>4, <1>5 DEF Next, Changes

--------------------------------------------------------------------------------
(* What the cleanup is about to remove.                                    *)
UntouchedInv(p) ==
  /\ pc[p] \in {"recheck", "unlink"} => \A i \in 1..children[p] : Sealed(p, i)
  /\ pc[p] = "unlink" /\ ~fresh[p] => \A i \in 1..children[p] : node[p][i] = snap[p][i]

LEMMA AllKeepUntouched ==
  ASSUME TypeOK, \A p \in Publishers : ControlInv(p), \A p \in Publishers : UntouchedInv(p),
         [Next]_vars
  PROVE  \A p \in Publishers : UntouchedInv(p)'
<1> USE TypeParts
<1>0. pc \in [Publishers -> Steps \cup Ends] /\ ChildType
  BY TypeIsGroups DEF TypeGroups, ControlType
<1>1. ASSUME NEW q \in Publishers, Publishes(q), NEW p \in Publishers PROVE UntouchedInv(p)'
  <2>0. UntouchedInv(p) /\ ControlInv(p)
    OBVIOUS
  <2>1. CASE q # p
    BY <1>1, <2>0, <2>1, OthersStay DEF OthersSame, UntouchedInv, Sealed
  <2>2. CASE q = p /\ pc'[p] = "unlink"
    <3>1. /\ pc[p] = "recheck" /\ Storage(p) /\ UNCHANGED <<node, children, snap>>
      BY <1>1, <2>2, LastChecks
    <3>2. "pinned" \in flags[p]
      BY <2>0, <3>1 DEF ControlInv
    <3>3. \A i \in 1..children[p] : Sealed(p, i) /\ node[p][i] = snap[p][i]
      BY <2>0, <3>1, <3>2 DEF UntouchedInv, Storage
    <3>. QED BY <2>2, <3>1, <3>3 DEF UntouchedInv, Sealed
  <2>3. CASE q = p /\ pc'[p] = "recheck"
    <3>1. CASE Sweep(p)
      BY <1>0, <2>3, <3>1 DEF Sweep, Leave, Become, UntouchedInv, Sealed
    <3>2. CASE Unlink(p)
      <4>1. children[p] \in Nat /\ children[p] > 0 /\ snap' = snap
            /\ children'[p] = children[p] - 1 /\ pc[p] = "unlink"
        BY <1>0, <2>3, <3>2 DEF Unlink, Leave, Become, ChildType
      <4>2. \A i \in 1..children'[p] : i \in 1..children[p]
        BY <4>1
      <4>. QED BY <2>0, <2>3, <4>1, <4>2 DEF UntouchedInv, Sealed
    <3>3. Sweep(p) \/ Unlink(p)
      <4>1. ASSUME NEW known \in SUBSET Flags, pc[p] \in Steps, Proceed(p, known) PROVE FALSE
        BY <2>0, <2>3, <4>1, ProceedValues, AfterValues DEF Reading
      <4>2. ASSUME NEW known \in SUBSET Flags, Fail(p, known) PROVE FALSE
        BY <1>0, <2>3, <4>2, FailMoves
      <4>3. CASE Collide(p) \/ Recheck(p) \/ Close(p) \/ Finish(p) \/ Crash(p)
        BY <1>0, <2>3, <4>3 DEF Collide, Recheck, Close, Finish, Crash, Leave, Become
      <4>4. CASE \/ Fails(p) \/ Lookup(p) \/ Make(p) \/ Create(p) \/ Write(p) \/ SyncFile(p)
                 \/ Seal(p) \/ ReadChild(p) \/ CheckListing(p) \/ SyncStaging(p)
                 \/ SyncParent(p) \/ Rename(p)
        <5>1. pc[p] \in Steps /\ \E known \in SUBSET Flags : Proceed(p, known) \/ Fail(p, known)
          BY <4>4, AfterValues
             DEF Fails, Lookup, Make, Create, Write, SyncFile, Seal, ReadChild, CheckListing,
                 SyncStaging, SyncParent, Rename, Settle, Reading, Listing
        <5>. QED BY <4>1, <4>2, <5>1
      <4>. QED BY <1>1, <2>3, <4>3, <4>4 DEF Publishes
    <3>. QED BY <3>1, <3>2, <3>3
  <2>4. CASE pc'[p] \notin {"recheck", "unlink"}
    BY <2>4 DEF UntouchedInv
  <2>. QED BY <2>1, <2>2, <2>3, <2>4
<1>2. ASSUME Changes, NEW p \in Publishers PROVE UntouchedInv(p)'
  <2>1. fresh' = [x \in Publishers |-> TRUE] /\ UNCHANGED <<pc, children, snap>>
    BY <1>2 DEF Changes, ChangeFile, ChangeEntry, ChangeParent, Change, calls
  <2>. QED BY <2>1 DEF UntouchedInv, Sealed
<1>3. ASSUME PowerLoss, NEW p \in Publishers PROVE UntouchedInv(p)'
  <2>1. pc'[p] \notin {"recheck", "unlink"}
    BY <1>3, AfterPowerLoss
  <2>. QED BY <2>1 DEF UntouchedInv
<1>4. CASE UNCHANGED vars
  BY <1>4 DEF vars, calls, UntouchedInv, Sealed
<1>. QED BY <1>1, <1>2, <1>3, <1>4 DEF Next, Changes

--------------------------------------------------------------------------------
(* A power loss may take the destination away, but not bring another one.  *)
DestInv == changes = 0 => diskEntry[Dest] \in {NoEntry, entry[Dest]}

LEMMA DestStays ==
  ASSUME TypeOK, \A p \in Publishers : ControlInv(p), DestInv, [Next]_vars
  PROVE  DestInv'
<1> USE TypeParts
<1>0. EntryType /\ Dest \in Names
  BY TypeIsGroups DEF TypeGroups
<1>1. ASSUME NEW q \in Publishers, Publishes(q) PROVE DestInv'
  <2>1. changes' = changes /\ ControlInv(q)
    BY <1>1, OthersStay
  <2>2. CASE Makes(q)
    BY <1>0, <2>1, <2>2 DEF Makes, EntryType, DestInv
  <2>3. CASE Renames(q)
    BY <1>0, <2>1, <2>3 DEF Renames, DestInv
  <2>4. CASE Unlinks(q)
    BY <1>0, <2>1, <2>4 DEF Unlinks, EntryType, DestInv, ControlInv
  <2>5. CASE Stays(q)
    BY <2>1, <2>5 DEF Stays, DestInv
  <2>. QED BY <1>1, <2>1, <2>2, <2>3, <2>4, <2>5, EntryMoves
<1>2. CASE Changes
  BY <1>2, AfterChanges DEF DestInv
<1>3. CASE PowerLoss
  BY <1>0, <1>3, AfterPowerLoss DEF DestInv
<1>4. CASE UNCHANGED vars
  BY <1>4 DEF vars, disk, bounds, DestInv
<1>. QED BY <1>1, <1>2, <1>3, <1>4 DEF Next, Changes

DirectoryInv ==
  /\ TypeOK
  /\ \A p \in Publishers : ControlInv(p)
  /\ \A p \in Publishers : FilledInv(p)
  /\ \A p \in Publishers : PlaceInv(p)
  /\ \A p \in Publishers : CalmInv(p)
  /\ \A p \in Publishers : KeptInv(p)
  /\ \A p \in Publishers : UntouchedInv(p)
  /\ DestInv
  /\ ReceiptIsTrue

LEMMA DirectoryInit == Init => DirectoryInv
<1> USE TypeParts
<1>1. SUFFICES ASSUME Init PROVE DirectoryInv
  OBVIOUS
<1>2. TypeOK
  <2>1. Ours("none") \in Files /\ Dest \in Names /\ 1 \in Owned
    BY DEF Contents
  <2>. QED BY <1>1, <2>1, AfterValues DEF Init, TypeOK
<1>3. /\ \A n \in Names : entry[n] = NoEntry /\ diskEntry[n] = NoEntry
      /\ \A p \in Publishers :
           /\ pc[p] = "lookup" /\ name[p] = NoEntry /\ flags[p] = {} /\ children[p] = 0
           /\ leaf[p] = 1 /\ tries[p] = 0 /\ out[p] = "none"
  BY <1>1 DEF Init
<1>4. \A p \in Publishers : p # NoEntry
  OBVIOUS
<1>5. \A p \in Publishers : ControlInv(p)
  BY <1>3 DEF ControlInv, Filling, Checking, Confirming, Cleaning, IsPublished
<1>6. \A p \in Publishers : FilledInv(p)
  BY <1>3 DEF FilledInv, Filled, Filling, Checking, IsPublished
<1>7. \A p \in Publishers : PlaceInv(p) /\ CalmInv(p) /\ KeptInv(p) /\ UntouchedInv(p)
  BY <1>3, <1>4 DEF PlaceInv, CalmInv, KeptInv, Kept, UntouchedInv, IsPublished
<1>8. DestInv /\ ReceiptIsTrue
  BY <1>3 DEF DestInv, ReceiptIsTrue
<1>. QED BY <1>2, <1>5, <1>6, <1>7, <1>8 DEF DirectoryInv

LEMMA DirectoryStep == DirectoryInv /\ [Next]_vars => DirectoryInv'
<1>1. SUFFICES ASSUME DirectoryInv, [Next]_vars PROVE DirectoryInv'
  OBVIOUS
<1>2. TypeOK'
  <2>1. CASE \E p \in Publishers : Publishes(p)
    BY <1>1, <2>1, PublisherKeepsType DEF DirectoryInv
  <2>2. CASE Changes
    BY <1>1, <2>2, ChangesKeepType DEF DirectoryInv
  <2>3. CASE PowerLoss
    BY <1>1, <2>3, PowerLossKeepsType DEF DirectoryInv
  <2>4. CASE UNCHANGED vars
    <3>1. TypeGroups'
      BY <1>1, <2>4, GroupsStay DEF DirectoryInv, TypeGroups, vars, calls, disk, bounds
    <3>. QED BY <3>1, TypeIsGroups, PTL
  <2>. QED BY <1>1, <2>1, <2>2, <2>3, <2>4 DEF Next, Changes
<1>3. /\ TypeOK
      /\ \A p \in Publishers : ControlInv(p)
      /\ \A p \in Publishers : FilledInv(p)
      /\ \A p \in Publishers : PlaceInv(p)
      /\ \A p \in Publishers : CalmInv(p)
      /\ \A p \in Publishers : KeptInv(p)
      /\ \A p \in Publishers : UntouchedInv(p)
      /\ DestInv /\ ReceiptIsTrue
  BY <1>1 DEF DirectoryInv
<1>4. \A p \in Publishers : ControlInv(p)'
  BY <1>1, <1>2, <1>3, AllKeepControl
<1>5. \A p \in Publishers : FilledInv(p)'
  BY <1>1, <1>2, <1>3, AllKeepFilled
<1>6. \A p \in Publishers : PlaceInv(p)'
  BY <1>1, <1>3, AllKeepPlace
<1>7. \A p \in Publishers : CalmInv(p)'
  BY <1>1, <1>3, AllKeepCalm
<1>8. \A p \in Publishers : KeptInv(p)'
  BY <1>1, <1>3, AllKeepKept
<1>9. \A p \in Publishers : UntouchedInv(p)'
  BY <1>1, <1>3, AllKeepUntouched
<1>10. DestInv' /\ ReceiptIsTrue'
  BY <1>1, <1>2, <1>3, DestStays, ReceiptStays
<1>. QED BY <1>2, <1>4, <1>5, <1>6, <1>7, <1>8, <1>9, <1>10 DEF DirectoryInv

(* The inductive invariant.                                                *)
THEOREM Invariance == Spec => []DirectoryInv
BY DirectoryInit, DirectoryStep, PTL DEF Spec

(* Nobody sees a part of a bundle under its name, whatever is killed and   *)
(* whenever the power fails, unless somebody else changed it               *)
(* (fssecure.PublishPrivateDirectory).                                     *)
THEOREM NoPartUnderItsName == Spec => []WholeOrAbsent
<1>1. DirectoryInv => WholeOrAbsent
  BY DEF DirectoryInv, CalmInv, WholeOrAbsent
<1>. QED BY <1>1, Invariance, PTL

(* A call that returned its receipt left the complete bundle under its     *)
(* name, and it outlives every later step and power loss that no change by *)
(* somebody else precedes.                                                 *)
THEOREM ReceiptsAreTrue == Spec => []ReceiptIsTrue
<1>1. DirectoryInv => ReceiptIsTrue
  BY DEF DirectoryInv
<1>. QED BY <1>1, Invariance, PTL

--------------------------------------------------------------------------------
(* What the publishers' own steps may never do.                            *)
LEMMA OwnStep ==
  ASSUME TypeOK, [Next]_vars, ByPublishers
  PROVE  UNCHANGED vars \/ \E q \in Publishers : Publishes(q)
<1>1. Changes => changes' # changes
  BY AfterChanges DEF TypeOK
<1>2. PowerLoss => losses' # losses
  BY AfterPowerLoss DEF TypeOK
<1>. QED BY <1>1, <1>2 DEF Next, Changes, ByPublishers

(* The cleanup removes no file but those that were sealed and that nobody   *)
(* has touched since it last looked (cleanup of the publication).           *)
THEOREM CleanupIsCertain == Spec => RemovesOnlySealed
<1> DEFINE Certain == \A p \in Publishers, i \in Owned :
                        node[p][i].data # "none" /\ node'[p][i].data = "none"
                          => fresh[p] \/ node[p][i] = snap[p][i]
<1>1. DirectoryInv /\ [Next]_vars => (ByPublishers => Certain) \/ UNCHANGED vars
  <2> SUFFICES ASSUME DirectoryInv, [Next]_vars, ByPublishers,
                      NEW q \in Publishers, Publishes(q)
               PROVE  Certain
    BY OwnStep DEF DirectoryInv
  <2>0. TypeOK /\ NodeType /\ ControlInv(q) /\ UntouchedInv(q)
    BY TypeIsGroups DEF DirectoryInv, TypeGroups
  <2>1. CASE Fills(q)
    <3>1. \A p \in Publishers, i \in Leaves :
            node'[p][i] = node[p][i] \/ node'[p][i].data \in {"empty", "part", "whole"}
      BY <2>0, <2>1 DEF Fills, Put, NodeType, Ours
    <3>. QED BY <3>1, TypeParts
  <2>2. CASE Empties(q)
    <3>1. pc[q] = "unlink" /\ children[q] \in 1..children[q]
      BY <2>2 DEF Empties, Owned
    <3>2. fresh[q] \/ node[q][children[q]] = snap[q][children[q]]
      BY <2>0, <3>1 DEF UntouchedInv
    <3>3. \A p \in Publishers, i \in Leaves :
            node'[p][i] = node[p][i] \/ (p = q /\ i = children[q])
      BY <2>0, <2>2 DEF Empties, Put, NodeType
    <3>. QED BY <3>2, <3>3, TypeParts
  <2>3. CASE UNCHANGED node
    BY <2>3
  <2>. QED BY <2>0, <2>1, <2>2, <2>3, NodeMoves
<1>. QED BY <1>1, Invariance, PTL DEF Spec, RemovesOnlySealed

(* After the rename no publisher removes or changes the directory, whatever *)
(* fails and whoever cleans up: it may be the only recovery copy.           *)
THEOREM RecoveryCopyStays == Spec => RecoveryCopyKept
<1> DEFINE Untouched == \A p \in Publishers : "published" \in flags[p] =>
                          node'[p] = node[p] /\ (entry[Dest] = p => entry'[Dest] = p)
<1>1. DirectoryInv /\ [Next]_vars => (ByPublishers => Untouched) \/ UNCHANGED vars
  <2> SUFFICES ASSUME DirectoryInv, [Next]_vars, ByPublishers,
                      NEW q \in Publishers, Publishes(q),
                      NEW p \in Publishers, IsPublished(p)
               PROVE  node'[p] = node[p] /\ (entry[Dest] = p => entry'[Dest] = p)
    BY OwnStep DEF DirectoryInv, IsPublished
  <2>0. TypeOK /\ ControlInv(q)
    BY DEF DirectoryInv
  <2>1. node'[p] = node[p]
    <3>1. q # p => node'[p] = node[p]
      BY <2>0, OthersStay DEF OthersSame
    <3>. QED BY <2>0, <3>1, NodeMoves DEF Fills, Empties
  <2>2. entry[Dest] = p => entry'[Dest] = p
    BY <2>0, DestIsKept
  <2>. QED BY <2>1, <2>2
<1>. QED BY <1>1, Invariance, PTL DEF Spec, RecoveryCopyKept

--------------------------------------------------------------------------------
(* The publication as one step.                                            *)
LEMMA OutcomeValues ==
  ASSUME NEW p \in Publishers, TypeOK, ControlInv(p)
  PROVE  /\ pc[p] = "crashed" => Outcome(p) = "crashed"
         /\ pc[p] \notin {"done", "crashed"} =>
              Outcome(p) = IF IsPublished(p) THEN "published" ELSE "waiting"
         /\ pc[p] = "lookup" => Outcome(p) = "waiting"
BY DEF Outcome, ControlInv, TypeOK, IsPublished

(* Only three steps of a publisher change its outcome.                     *)
LEMMA OutcomeMoves ==
  ASSUME TypeOK, NEW q \in Publishers, ControlInv(q), Publishes(q),
         ~Rename(q), ~Finish(q), ~Crash(q)
  PROVE  Outcome(q)' = Outcome(q)
<1> USE TypeParts
<1>0. /\ pc \in [Publishers -> Steps \cup Ends] /\ flags \in [Publishers -> SUBSET Flags]
  BY DEF TypeOK
<1>1. IsPublished(q)' <=> IsPublished(q)
  BY LastChecks
<1>2. pc[q] \notin {"done", "crashed"} /\ pc'[q] \notin {"done", "crashed"}
  <2>1. ASSUME NEW known \in SUBSET Flags, pc[q] \in Steps, Proceed(q, known) \/ Fail(q, known)
        PROVE  pc[q] \notin {"done", "crashed"} /\ pc'[q] \notin {"done", "crashed"}
    <3>1. CASE Proceed(q, known)
      BY <2>1, <3>1, ProceedValues, AfterValues
    <3>2. CASE Fail(q, known)
      BY <1>0, <2>1, <3>2, FailMoves, AfterValues
    <3>. QED BY <2>1, <3>1, <3>2
  <2>2. CASE Collide(q) \/ Sweep(q) \/ Recheck(q) \/ Unlink(q) \/ Close(q)
    BY <1>0, <2>2 DEF Collide, Sweep, Recheck, Unlink, Close, Leave, Become
  <2>3. CASE \/ Fails(q) \/ Lookup(q) \/ Make(q) \/ Create(q) \/ Write(q) \/ SyncFile(q) \/ Seal(q)
             \/ ReadChild(q) \/ CheckListing(q) \/ SyncStaging(q) \/ SyncParent(q)
    <3>1. pc[q] \in Steps /\ \E known \in SUBSET Flags : Proceed(q, known) \/ Fail(q, known)
      BY <2>3, AfterValues
         DEF Fails, Lookup, Make, Create, Write, SyncFile, Seal, ReadChild, CheckListing,
             SyncStaging, SyncParent, Settle, Reading, Listing
    <3>. QED BY <2>1, <3>1
  <2>. QED BY <2>2, <2>3 DEF Publishes
<1>. QED BY <1>1, <1>2 DEF Outcome, IsPublished

LEMMA PublisherRefines ==
  ASSUME DirectoryInv, changes = 0, NEW q \in Publishers, Publishes(q)
  PROVE  Once!Next \/ UNCHANGED Once!vars
<1> USE TypeParts
<1>0. /\ TypeOK /\ EntryType /\ Dest \in Names /\ ControlInv(q) /\ CalmInv(q)
      /\ pc \in [Publishers -> Steps \cup Ends] /\ flags \in [Publishers -> SUBSET Flags]
      /\ out \in [Publishers -> {"none", "ok", "error"}]
  BY TypeIsGroups DEF DirectoryInv, TypeGroups, ControlType
<1> DEFINE outcome == [p \in Publishers |-> Outcome(p)]
<1>1. outcome' = [outcome EXCEPT ![q] = Outcome(q)']
  <2>1. \A p \in Publishers \ {q} : Outcome(p)' = Outcome(p)
    BY <1>0, OthersStay DEF OthersSame, Outcome
  <2>. QED BY <2>1
<1>2. CASE Rename(q)
  <2>1. pc[q] = "rename" /\ entry[name[q]] = q /\ name[q] \in StagingNames
    BY <1>0, <1>2 DEF Rename, CalmInv, ControlInv, Checking
  <2>2. entry[Dest] = NoEntry /\ entry'[Dest] = q
    BY <1>0, <1>2, <2>1 DEF Rename, EntryType
  <2>3. Outcome(q) = "waiting"
    BY <1>0, <2>1, OutcomeValues DEF ControlInv, Checking, IsPublished
  <2>4. Outcome(q)' = "published"
    <3>1. pc'[q] = "listPublished" /\ flags'[q] = flags[q] \cup {"published"} /\ out'[q] = "none"
      BY <1>0, <1>2, ProceedValues, AfterValues DEF Rename, Reading
    <3>. QED BY <3>1 DEF Outcome
  <2>5. Once!Publish(q)
    BY <1>1, <2>2, <2>3, <2>4 DEF Once!Publish, Once!Become
  <2>. QED BY <2>5 DEF Once!Next
<1>3. CASE Finish(q)
  <2>1. Outcome(q) = IF IsPublished(q) THEN "published" ELSE "waiting"
    BY <1>0, <1>3, OutcomeValues DEF Finish
  <2>2. entry' = entry /\ pc[q] = "finish" /\ pc'[q] = "done"
    BY <1>0, <1>3 DEF Finish, Become
  <2>3. CASE out'[q] = "ok"
    <3>1. IsPublished(q)
      BY <1>0, <1>3, <2>3 DEF Finish, ControlInv
    <3>2. Outcome(q)' = "ok"
      BY <2>2, <2>3 DEF Outcome
    <3>3. Once!Succeed(q)
      BY <1>1, <2>1, <2>2, <3>1, <3>2 DEF Once!Succeed, Once!Become
    <3>. QED BY <3>3 DEF Once!Next
  <2>4. CASE out'[q] = "error"
    <3>1. Outcome(q)' = "failed"
      BY <2>2, <2>4 DEF Outcome
    <3>2. Once!Fail(q)
      BY <1>1, <2>1, <2>2, <3>1 DEF Once!Fail, Once!Become
    <3>. QED BY <3>2 DEF Once!Next
  <2>. QED BY <1>0, <1>3, <2>3, <2>4 DEF Finish
<1>4. CASE Crash(q)
  <2>1. pc[q] \notin {"done", "crashed"} /\ pc'[q] = "crashed" /\ entry' = entry
    BY <1>0, <1>4 DEF Crash, Become
  <2>2. Outcome(q) \in {"waiting", "published"} /\ Outcome(q)' = "crashed"
    BY <1>0, <2>1, OutcomeValues DEF Outcome
  <2>3. Once!Crash(q)
    BY <1>1, <2>1, <2>2 DEF Once!Crash, Once!Become
  <2>. QED BY <2>3 DEF Once!Next
<1>5. CASE ~Rename(q) /\ ~Finish(q) /\ ~Crash(q)
  <2>1. outcome' = outcome
    <3>1. Outcome(q)' = Outcome(q)
      BY <1>0, <1>5, OutcomeMoves
    <3>. QED BY <1>1, <3>1
  <2>2. entry'[Dest] = entry[Dest]
    <3>1. CASE Makes(q) \/ Unlinks(q)
      BY <1>0, <3>1 DEF Makes, Unlinks, EntryType, ControlInv
    <3>2. CASE Stays(q)
      BY <3>2 DEF Stays
    <3>3. ~Renames(q)
      BY <1>0, <1>5, LastChecks DEF Renames, ControlInv, Checking, IsPublished
    <3>. QED BY <1>0, <3>1, <3>2, <3>3, EntryMoves
  <2>. QED BY <2>1, <2>2 DEF Once!vars
<1>. QED BY <1>2, <1>3, <1>4, <1>5

LEMMA PowerLossRefines ==
  ASSUME DirectoryInv, changes = 0, PowerLoss
  PROVE  Once!Next
<1> USE TypeParts
<1>0. TypeOK /\ EntryType /\ Dest \in Names /\ DestInv /\ \A p \in Publishers : ControlInv(p)
  BY TypeIsGroups DEF DirectoryInv, TypeGroups
<1>1. entry'[Dest] \in {entry[Dest], NoEntry}
  BY <1>0, AfterPowerLoss DEF DestInv
<1> DEFINE started == {p \in Publishers : pc[p] # "lookup"}
<1>2. \A p \in Publishers \ started : Outcome(p) = "waiting"
  BY <1>0, OutcomeValues
<1>3. \A p \in started : Outcome(p)' = "crashed"
  BY <1>0, AfterPowerLoss DEF Outcome
<1>4. \A p \in Publishers \ started : Outcome(p)' = Outcome(p)
  BY <1>0, AfterPowerLoss DEF Outcome
<1> DEFINE outcome == [p \in Publishers |-> Outcome(p)]
<1>5. outcome' = [p \in Publishers |-> IF p \in started THEN "crashed" ELSE outcome[p]]
  BY <1>3, <1>4
<1>6. \A p \in Publishers \ started : outcome[p] = "waiting"
  BY <1>2
<1>7. started \in SUBSET Publishers
  OBVIOUS
<1> HIDE DEF started
<1>8. Once!PowerLoss
  BY <1>1, <1>5, <1>6, <1>7 DEF Once!PowerLoss
<1>. QED BY <1>8 DEF Once!Next

(* As long as nobody else interferes, the publication of a directory       *)
(* implements the specification of a file that is written once.            *)
THEOREM Refinement == Spec => ImplementsWriteOnceFile
<1>1. Init => Once!Init
  BY TypeParts DEF Init, Once!Init, Outcome
<1>2. DirectoryInv /\ [Next]_vars =>
        (changes' = 0 => Once!Next \/ UNCHANGED Once!vars) \/ UNCHANGED vars
  <2> SUFFICES ASSUME DirectoryInv, Next, changes' = 0 PROVE Once!Next \/ UNCHANGED Once!vars
    OBVIOUS
  <2>0. TypeOK
    BY DEF DirectoryInv
  <2>1. ASSUME NEW q \in Publishers, Publishes(q) PROVE Once!Next \/ UNCHANGED Once!vars
    BY <2>0, <2>1, OthersStay, PublisherRefines
  <2>2. CASE PowerLoss
    BY <2>0, <2>2, AfterPowerLoss, PowerLossRefines
  <2>3. ~Changes
    BY <2>0, AfterChanges
  <2>. QED BY <2>1, <2>2, <2>3 DEF Next, Changes
<1>. QED BY <1>1, <1>2, Invariance, PTL DEF Spec, ImplementsWriteOnceFile

--------------------------------------------------------------------------------
(* The reader.                                                             *)
Looked == {"read", "again", "relist", "settle"}

ReadTypeOK == /\ rleaf \in Owned
              /\ stat \in [Owned -> Files] /\ got \in [Owned -> Files]
              /\ readAt \in Nat

(* What the reader knows at each step.                                     *)
LookInv ==
  /\ rpc \in {"receipt", "parent", "directory", "list"} => rleaf = 1
  /\ rpc = "stat" => \A i \in Owned : i < rleaf => stat[i].data # "none"
  /\ rpc \in Looked => \A i \in Owned : stat[i].data # "none"
  /\ rpc = "read" => \A i \in Owned : i < rleaf => got[i] = stat[i]
  /\ rpc \in Looked \ {"read"} => got = stat
  /\ rpc = "ok" => Intact

(* What it knows of the directories it has open.                           *)
OpenInv ==
  /\ rpc # "receipt" => target \in Publishers /\ out[target] = "ok"
  /\ rpc \in {"list", "stat"} \cup Looked /\ "parent" \notin touched => entry[Dest] = target
  /\ rpc = "settle" /\ "directory" \notin touched => Present(target) = Owned

(* What it has read is there until somebody changes something again.       *)
GotInv == rpc \in {"verify", "ok"} =>
  /\ readAt <= changes
  /\ changes = readAt => /\ entry[Dest] = target /\ Present(target) = Owned
                         /\ \A i \in Owned : got[i] = node[target][i]

ReadInv == DirectoryInv /\ ReadTypeOK /\ LookInv /\ OpenInv /\ GotInv

LEMMA ReadInitially == ReadInit => ReadInv
<1>1. SUFFICES ASSUME ReadInit PROVE ReadInv
  OBVIOUS
<1>2. DirectoryInv
  BY <1>1, DirectoryInit DEF ReadInit
<1>3. ReadTypeOK
  <2>1. Ours("none") \in Files
    BY TypeParts DEF Contents
  <2>. QED BY <1>1, <2>1, TypeParts DEF ReadInit, ReadTypeOK, Unread
<1>. QED BY <1>1, <1>2, <1>3 DEF ReadInit, ReadInv, LookInv, OpenInv, GotInv, Looked

(* The steps of the others, as the reader sees them.                       *)
LEMMA WatchKeepsInv ==
  ASSUME ReadInv, DirectoryInv', Next, Watch
  PROVE  ReadInv'
<1> USE TypeParts
<1>0. /\ TypeOK /\ changes \in Nat
      /\ \A p \in Publishers : ControlInv(p) /\ FilledInv(p) /\ KeptInv(p)
  BY TypeIsGroups DEF ReadInv, DirectoryInv, TypeGroups, OtherType
<1>1. /\ rpc' \in {rpc, "lost"} /\ UNCHANGED <<rleaf, target, stat, got, readAt>>
      /\ touched \subseteq touched'
  BY DEF Watch
<1>2. ReadTypeOK' /\ LookInv'
  BY <1>1 DEF ReadInv, ReadTypeOK, LookInv, Looked, Intact
<1>3. ASSUME rpc # "receipt", NEW q \in Publishers, Publishes(q)
      PROVE  /\ out'[target] = "ok" /\ node'[target] = node[target] /\ changes' = changes
             /\ entry[Dest] = target => entry'[Dest] = target
  <2>1. target \in Publishers /\ out[target] = "ok"
    BY <1>3 DEF ReadInv, OpenInv
  <2>2. q # target
    BY <1>0, <1>3, <2>1, ReturnedIsOver
  <2>. QED BY <1>0, <1>3, <2>1, <2>2, OthersStay, DestIsKept DEF OthersSame
<1>4. rpc # "receipt" => target \in Publishers /\ out'[target] = "ok"
  <2>1. CASE Changes
    BY <1>0, <2>1, AfterChanges DEF ReadInv, OpenInv, calls
  <2>2. CASE PowerLoss
    BY <1>0, <2>2, AfterPowerLoss DEF ReadInv, OpenInv
  <2>3. CASE \E q \in Publishers : Publishes(q)
    BY <1>3, <2>3 DEF ReadInv, OpenInv
  <2>. QED BY <2>1, <2>2, <2>3 DEF Next, Changes
<1>5. OpenInv'
  <2>1. ASSUME rpc' \in {"list", "stat"} \cup Looked, "parent" \notin touched'
        PROVE  entry'[Dest] = target
    <3>1. rpc' = rpc /\ "parent" \in Opened /\ "parent" \notin touched
      BY <1>1, <2>1 DEF Opened, Finished, Looked
    <3>2. entry' = entry
      BY <2>1, <3>1 DEF Watch
    <3>. QED BY <2>1, <3>1, <3>2 DEF ReadInv, OpenInv
  <2>2. ASSUME rpc' = "settle", "directory" \notin touched'
        PROVE  Present(target)' = Owned
    <3>1. rpc = "settle" /\ "directory" \in Opened /\ "directory" \notin touched
      BY <1>1, <2>2 DEF Opened, Finished
    <3>2. ~Renamed(target)
      BY <2>2, <3>1 DEF Watch
    <3>3. \A l \in Leaves : node'[target][l].data = "none" <=> node[target][l].data = "none"
      BY <3>2 DEF Renamed
    <3>. QED BY <1>1, <3>1, <3>3 DEF ReadInv, OpenInv, Present
  <2>3. rpc' # "receipt" => rpc # "receipt"
    BY DEF Watch, Finished
  <2>. QED BY <1>1, <1>4, <2>1, <2>2, <2>3 DEF OpenInv
<1>6. GotInv'
  <2>1. SUFFICES ASSUME rpc' \in {"verify", "ok"} PROVE GotInv'
    BY DEF GotInv
  <2>2. rpc' = rpc /\ target \in Publishers /\ out[target] = "ok" /\ readAt <= changes
    BY <1>1, <2>1 DEF ReadInv, OpenInv, GotInv
  <2>3. CASE Changes
    <3>1. changes' = changes + 1
      BY <1>0, <2>3, AfterChanges
    <3>2. readAt' <= changes' /\ changes' # readAt'
      BY <1>0, <1>1, <2>2, <3>1 DEF ReadInv, ReadTypeOK
    <3>. QED BY <3>2 DEF GotInv
  <2>4. CASE \E q \in Publishers : Publishes(q)
    <3>1. /\ node'[target] = node[target] /\ changes' = changes
          /\ entry[Dest] = target => entry'[Dest] = target
      BY <1>3, <2>1, <2>2, <2>4
    <3>. QED BY <1>1, <2>1, <2>2, <3>1 DEF ReadInv, GotInv, Present
  <2>5. CASE PowerLoss
    <3>1. changes' = changes /\ losses' # losses
      BY <1>0, <2>5, AfterPowerLoss DEF TypeOK
    <3>2. rpc = "ok"
      BY <2>1, <2>2, <3>1 DEF Watch, Finished
    <3>3. SUFFICES ASSUME changes = readAt
                   PROVE  /\ entry'[Dest] = target /\ Present(target)' = Owned
                          /\ \A i \in Owned : got[i] = node'[target][i]
      BY <1>1, <2>2, <3>1 DEF GotInv
    <3>4. Complete(target) /\ entry[Dest] = target /\ \A i \in Owned : got[i] = node[target][i]
      BY <3>2, <3>3 DEF ReadInv, LookInv, GotInv, Intact, Complete
    <3>5. IsPublished(target) /\ Kept(target)
      BY <1>0, <2>2 DEF ControlInv, Kept
    <3>6. Complete(target)' /\ node'[target] = node[target]
      <4>1. PICK p \in Publishers : p = target
        BY <2>2
      <4>2. Complete(p)' /\ node'[p] = node[p]
        BY <1>0, <2>5, <3>4, <3>5, <4>1, CompleteStays
      <4>. QED BY <1>1, <4>1, <4>2 DEF Complete, Present
    <3>7. entry'[Dest] = target
      BY <1>0, <2>2, <2>5, <3>4, <3>5, AfterPowerLoss DEF KeptInv
    <3>. QED BY <1>1, <3>4, <3>6, <3>7 DEF Complete
  <2>. QED BY <2>3, <2>4, <2>5 DEF Next, Changes
<1>. QED BY <1>2, <1>5, <1>6 DEF ReadInv

(* The reader's own steps.                                                 *)
LEMMA ReadsKeepInv ==
  ASSUME ReadInv, DirectoryInv', Reads, UNCHANGED vars
  PROVE  ReadInv'
<1> USE TypeParts
<1>0. /\ ReadTypeOK /\ LookInv /\ OpenInv /\ GotInv /\ NodeType /\ changes \in Nat
      /\ N \in Nat /\ N > 0
  BY TypeIsGroups DEF ReadInv, DirectoryInv, TypeGroups, OtherType
<1>1. UNCHANGED <<out, entry, node, changes>>
  BY DEF vars, calls, bounds
<1>2. Present(target') = Present(target)' /\ (target' = target => Present(target)' = Present(target))
  BY <1>1 DEF Present
<1> USE DEF Looked, Finished
<1>3. CASE ReadFails
  BY <1>0, <1>1, <1>3 DEF ReadFails, ReadInv, ReadTypeOK, LookInv, OpenInv, GotInv
<1>4. CASE \E p \in Publishers : Receive(p)
  BY <1>0, <1>1, <1>4 DEF Receive, ReadInv, ReadTypeOK, LookInv, OpenInv, GotInv
<1>5. CASE OpenParent \/ OpenDirectory
  BY <1>0, <1>1, <1>5 DEF OpenParent, OpenDirectory, ReadInv, ReadTypeOK, LookInv, OpenInv, GotInv
<1>6. CASE ListDirectory
  <2>1. /\ UNCHANGED <<rleaf, target, touched, stat, got, readAt>> /\ Present(target) = Owned
        /\ \/ rpc = "list" /\ rpc' = "stat" /\ rleaf = 1
           \/ rpc = "relist" /\ rpc' = "settle"
    BY <1>0, <1>6 DEF ListDirectory, LookInv
  <2>2. ReadTypeOK'
    BY <1>0, <2>1 DEF ReadTypeOK
  <2>3. LookInv'
    <3>1. \A i \in Owned : ~(i < 1)
      BY DEF Owned
    <3>. QED BY <1>0, <2>1, <3>1 DEF LookInv
  <2>4. OpenInv' /\ GotInv'
    BY <1>0, <1>1, <1>2, <2>1 DEF OpenInv, GotInv
  <2>. QED BY <2>2, <2>3, <2>4 DEF ReadInv
<1>7. CASE StatFile
  <2>1. rpc = "stat" /\ target \in Publishers /\ target' = target /\ touched' = touched
        /\ UNCHANGED <<got, readAt>>
    BY <1>0, <1>7 DEF StatFile, OpenInv
  <2>2. stat' \in [Owned -> Files]
    BY <1>0, <1>7, <2>1 DEF StatFile, ReadTypeOK, NodeType
  <2>3. \A i \in Owned : i <= rleaf => stat'[i].data # "none"
    BY <1>0, <1>7, <2>1 DEF StatFile, ReadTypeOK, LookInv, Owned
  <2>4. CASE rleaf < N
    <3>1. rleaf' = rleaf + 1 /\ rpc' = "stat"
      BY <1>7, <2>1, <2>4 DEF StatFile, GoOn
    <3>2. rleaf' \in Owned /\ \A i \in Owned : i < rleaf' => i <= rleaf
      BY <1>0, <2>4, <3>1 DEF ReadTypeOK, Owned
    <3>. QED BY <1>0, <1>1, <2>1, <2>2, <2>3, <3>1, <3>2
             DEF ReadInv, ReadTypeOK, LookInv, OpenInv, GotInv
  <2>5. CASE rleaf = N
    <3>1. rleaf' = 1 /\ rpc' = "read"
      BY <1>0, <1>7, <2>1, <2>5 DEF StatFile, GoOn
    <3>2. \A i \in Owned : i <= rleaf /\ ~(i < 1)
      BY <2>5 DEF Owned
    <3>. QED BY <1>0, <1>1, <2>1, <2>2, <2>3, <3>1, <3>2
             DEF ReadInv, ReadTypeOK, LookInv, OpenInv, GotInv
  <2>. QED BY <1>0, <2>4, <2>5 DEF ReadTypeOK, Owned
<1>8. CASE ReadFile
  <2>1. rpc = "read" /\ target \in Publishers /\ target' = target /\ touched' = touched
        /\ UNCHANGED <<stat, readAt>>
    BY <1>0, <1>8 DEF ReadFile, OpenInv
  <2>2. got' \in [Owned -> Files]
    BY <1>0, <1>8, <2>1 DEF ReadFile, ReadTypeOK, NodeType
  <2>3. node[target][rleaf] = stat[rleaf]
    BY <1>0, <1>8, <2>1 DEF ReadFile, Same, LookInv, ReadTypeOK
  <2>4. \A i \in Owned : i <= rleaf => got'[i] = stat[i]
    BY <1>0, <1>8, <2>1, <2>3 DEF ReadFile, ReadTypeOK, LookInv, Owned
  <2>5. CASE rleaf < N
    <3>1. rleaf' = rleaf + 1 /\ rpc' = "read"
      BY <1>8, <2>1, <2>5 DEF ReadFile, GoOn
    <3>2. rleaf' \in Owned /\ \A i \in Owned : i < rleaf' => i <= rleaf
      BY <1>0, <2>5, <3>1 DEF ReadTypeOK, Owned
    <3>. QED BY <1>0, <1>1, <2>1, <2>2, <2>4, <3>1, <3>2
             DEF ReadInv, ReadTypeOK, LookInv, OpenInv, GotInv
  <2>6. CASE rleaf = N
    <3>1. rleaf' = 1 /\ rpc' = "again"
      BY <1>0, <1>8, <2>1, <2>6 DEF ReadFile, GoOn
    <3>2. \A i \in Owned : i <= rleaf
      BY <2>6 DEF Owned
    <3>3. got' = stat
      <4>1. got' = [i \in Owned |-> got'[i]] /\ stat = [i \in Owned |-> stat[i]]
        BY <1>0, <2>2 DEF ReadTypeOK
      <4>2. \A i \in Owned : got'[i] = stat[i]
        BY <2>4, <3>2
      <4>. QED BY <4>1, <4>2
    <3>. QED BY <1>0, <1>1, <2>1, <2>2, <3>1, <3>3
             DEF ReadInv, ReadTypeOK, LookInv, OpenInv, GotInv
  <2>. QED BY <1>0, <2>5, <2>6 DEF ReadTypeOK, Owned
<1>9. CASE VerifyFile
  <2>1. /\ rpc = "again" /\ rpc' \in {"again", "relist"} /\ rleaf' \in Owned
        /\ UNCHANGED <<target, touched, stat, got, readAt>>
    BY <1>0, <1>9 DEF VerifyFile, GoOn, ReadTypeOK, Owned
  <2>. QED BY <1>0, <1>1, <2>1 DEF ReadInv, ReadTypeOK, LookInv, OpenInv, GotInv
<1>10. CASE Settled
  <2>1. /\ rpc = "settle" /\ rpc' = "verify" /\ readAt' = changes
        /\ UNCHANGED <<rleaf, target, touched, stat, got>>
    BY <1>10 DEF Settled
  <2>2. entry[Dest] = target /\ Present(target) = Owned
    BY <1>0, <1>10, <2>1 DEF Settled, Same, OpenInv
  <2>3. \A i \in Owned : got[i] = node[target][i]
    BY <1>0, <1>10, <2>1 DEF Settled, Same, LookInv
  <2>4. GotInv'
    BY <1>0, <1>1, <1>2, <2>1, <2>2, <2>3 DEF GotInv
  <2>. QED BY <1>0, <1>1, <2>1, <2>4 DEF ReadInv, ReadTypeOK, LookInv, OpenInv
<1>11. CASE VerifyContents
  <2>1. rpc = "verify" /\ rpc' \in {"ok", "error"} /\ (rpc' = "ok" => Intact)
        /\ UNCHANGED <<rleaf, target, touched, stat, got, readAt>>
    BY <1>11 DEF VerifyContents
  <2>2. GotInv'
    BY <1>0, <1>1, <1>2, <2>1 DEF GotInv
  <2>. QED BY <1>0, <1>1, <2>1, <2>2 DEF ReadInv, ReadTypeOK, LookInv, OpenInv, Intact
<1>. QED BY <1>3, <1>4, <1>5, <1>6, <1>7, <1>8, <1>9, <1>10, <1>11 DEF Reads

THEOREM ReadInvariance == ReadSpec => []ReadInv
<1>1. ReadInv /\ [ReadNext]_<<vars, reading>> => ReadInv'
  <2> SUFFICES ASSUME ReadInv, [ReadNext]_<<vars, reading>> PROVE ReadInv'
    OBVIOUS
  <2>1. DirectoryInv'
    BY DirectoryStep DEF ReadNext, ReadInv
  <2>2. CASE UNCHANGED <<vars, reading>>
    BY <2>1, <2>2
       DEF ReadInv, ReadTypeOK, LookInv, OpenInv, GotInv, vars, calls, bounds, reading, Intact,
           Present
  <2>. QED BY <2>1, <2>2, WatchKeepsInv, ReadsKeepInv DEF ReadNext
<1>. QED BY <1>1, ReadInitially, PTL DEF ReadSpec

(* What ReadPrivateDirectory and ReadBundle return to whoever has a receipt *)
(* is the bundle that was published, all of it at one moment, and it is     *)
(* still there unless somebody has changed something since.                 *)
THEOREM ReadsAreThere == ReadSpec => []ReadIsThere
<1>1. ReadInv => ReadIsThere
  BY DEF ReadInv, LookInv, GotInv, ReadIsThere, Complete, Intact
<1>. QED BY <1>1, ReadInvariance, PTL

================================================================================

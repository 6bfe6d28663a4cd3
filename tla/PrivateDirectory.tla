---------------------------- MODULE PrivateDirectory ----------------------------
(***************************************************************************)
(* fssecure.PublishPrivateDirectory on macOS: the files of a snapshot bundle *)
(* are written into a staging directory beside the destination, read back,   *)
(* synced, and the directory is renamed to the destination in one step that  *)
(* never replaces anything.  Every step is bracketed by a check that nobody  *)
(* changed what was written.  Before the rename a failure is followed by a   *)
(* cleanup that removes only what is known to be the publisher's own; after  *)
(* it the directory stays, whatever fails.                                   *)
(*                                                                         *)
(* A publisher stands for its staging directory and its content.  Others are *)
(* any processes that change the same directories.  A cancelled context is   *)
(* one more way in which a step fails.                                       *)
(***************************************************************************)
EXTENDS Naturals, FiniteSets

CONSTANTS Publishers,   \* calls of PublishPrivateDirectory for one destination
          N,            \* files of each
          StagingNames, \* the names rand.Text may produce
          Dest,         \* the destination
          Others,       \* a directory or file that is not a publisher's
          NoEntry,
          MaxTries,     \* staging names a publisher tries: 10 in the source
          MaxChanges,   \* bound: changes by others
          MaxRivals,    \* bound: publishers that have begun when others change anything
          MaxLosses     \* bound: power losses

ASSUME DirectoryAssumption ==
  /\ N \in Nat \ {0} /\ MaxTries \in Nat \ {0} /\ MaxChanges \in Nat /\ MaxLosses \in Nat
  /\ MaxRivals \in Nat
  /\ Dest \notin StagingNames /\ StagingNames # {}
  /\ Others \notin Publishers /\ NoEntry \notin Publishers \cup {Others}

Names  == StagingNames \cup {Dest}
Owned  == 1..N
Leaves == 1..(N + 1)    \* the last one: a name that is no publisher's

(* A file: what it holds, and which change made it so.                       *)
Contents == {"none", "empty", "part", "whole", "edited", "alien"}
Files    == [data : Contents, at : 0..MaxChanges]
Ours(data) == [data |-> data, at |-> 0]

VARIABLES parentOk,  \* the parent's path still leads to the directory that was pinned
          entry,     \* name in the parent -> directory
          node,      \* publisher's directory -> name -> file
          diskEntry, synced, listed, \* what a power loss keeps: of the parent, of files, of names
          pc, leaf,  \* publisher -> its next step, and the file it is about
          name, tries, \* publisher -> the name of its directory, and names found taken
          flags,     \* publisher -> what it knows
          children,  \* publisher -> how many files it accounts for
          snap,      \* publisher -> name -> the file as it was sealed, none before
          out,       \* publisher -> what the call returned
          okAt, fresh, \* changes by others before it returned, and since its last check (history)
          changes, losses

disk   == <<diskEntry, synced, listed>>
calls  == <<pc, leaf, name, tries, flags, children, snap, out, okAt>>
bounds == <<changes, losses>>
vars   == <<parentOk, entry, node, disk, calls, fresh, bounds>>

(* The order of the steps; those in Reading repeat for every file.           *)
After == [lookup |-> "make", make |-> "create", create |-> "write", write |-> "syncFile",
          syncFile |-> "seal", seal |-> "readBack", readBack |-> "list", list |-> "verify",
          verify |-> "relist", relist |-> "syncStaging", syncStaging |-> "syncParent",
          syncParent |-> "lastList", lastList |-> "rename", rename |-> "listPublished",
          listPublished |-> "verifyPublished", verifyPublished |-> "relistPublished",
          relistPublished |-> "syncPublished", syncPublished |-> "close"]
Steps   == DOMAIN After
Writing == {"create", "write", "syncFile", "seal"}
Reading == {"readBack", "verify", "verifyPublished"}
Listing == {"list", "relist", "lastList", "listPublished", "relistPublished"}
Ends    == {"sweep", "recheck", "unlink", "close", "finish", "done", "crashed"}
Flags   == {"pinned", "uncertain", "published", "failed"}

TypeOK == /\ parentOk \in BOOLEAN
          /\ entry \in [Names -> Publishers \cup {Others, NoEntry}]
          /\ node \in [Publishers -> [Leaves -> Files]]
          /\ diskEntry \in [Names -> Publishers \cup {Others, NoEntry}]
          /\ synced \in [Publishers -> SUBSET Leaves]
          /\ listed \in [Publishers -> SUBSET Leaves]
          /\ pc \in [Publishers -> Steps \cup Ends]
          /\ leaf \in [Publishers -> Owned]
          /\ name \in [Publishers -> Names \cup {NoEntry}]
          /\ tries \in [Publishers -> 0..MaxTries]
          /\ flags \in [Publishers -> SUBSET Flags]
          /\ children \in [Publishers -> 0..N]
          /\ snap \in [Publishers -> [Owned -> Files]]
          /\ out \in [Publishers -> {"none", "ok", "error"}]
          /\ okAt \in [Publishers -> 0..MaxChanges]
          /\ fresh \in [Publishers -> BOOLEAN]
          /\ changes \in 0..MaxChanges
          /\ losses \in 0..MaxLosses

Init == /\ parentOk = TRUE
        /\ entry = [n \in Names |-> NoEntry]
        /\ node = [p \in Publishers |-> [l \in Leaves |-> Ours("none")]]
        /\ diskEntry = entry
        /\ synced = [p \in Publishers |-> {}]
        /\ listed = [p \in Publishers |-> {}]
        /\ pc = [p \in Publishers |-> "lookup"]
        /\ leaf = [p \in Publishers |-> 1]
        /\ name = [p \in Publishers |-> NoEntry]
        /\ tries = [p \in Publishers |-> 0]
        /\ flags = [p \in Publishers |-> {}]
        /\ children = [p \in Publishers |-> 0]
        /\ snap = [p \in Publishers |-> [l \in Owned |-> Ours("none")]]
        /\ out = [p \in Publishers |-> "none"]
        /\ okAt = [p \in Publishers |-> 0]
        /\ fresh = [p \in Publishers |-> FALSE]
        /\ changes = 0
        /\ losses = 0

--------------------------------------------------------------------------------
(* What a publisher observes.                                               *)
Present(p) == {l \in Leaves : node[p][l].data # "none"}

(* child.sealed: the file was closed for writing and its state recorded.     *)
Sealed(p, i) == snap[p][i].data # "none"

(* checkStorage: the parent, the directory and the files are the ones that   *)
(* were made, and sealed files have not been touched.                        *)
Storage(p) ==
  /\ parentOk
  /\ "pinned" \in flags[p] =>
       /\ entry[name[p]] = p
       /\ \A i \in 1..children[p] : /\ node[p][i].data \notin {"none", "alien"}
                                    /\ Sealed(p, i) => node[p][i] = snap[p][i]

(* checkListing: and there is nothing else.                                  *)
Listed(p) == Storage(p) /\ Present(p) = 1..children[p]

(* The control of a publisher.                                              *)
Become(p, step) == pc' = [pc EXCEPT ![p] = step]
Flag(p, f) == flags' = [flags EXCEPT ![p] = @ \cup f]
Put(p, l, file) == node' = [node EXCEPT ![p][l] = file]

(* Mutant: the cleanup follows every failure.                               *)
FailAlwaysSweeps(p, known) == /\ Flag(p, known \cup {"failed"})
                              /\ Become(p, "sweep")
                              /\ UNCHANGED <<leaf, tries, out, okAt>>

Fail(p, known) == /\ Flag(p, known \cup {"failed"})
                  /\ Become(p, IF "published" \in flags[p] THEN "close" ELSE "sweep")
                  /\ UNCHANGED <<leaf, tries, out, okAt>>

Proceed(p, known) ==
  /\ Flag(p, known)
  /\ LET more == pc[p] \in Reading /\ leaf[p] < N IN
       /\ Become(p, IF ~more THEN After[pc[p]] ELSE IF pc[p] = "readBack" THEN "create" ELSE pc[p])
       /\ leaf' = [leaf EXCEPT ![p] = IF more THEN @ + 1 ELSE IF pc[p] \in Writing THEN @ ELSE 1]
  /\ UNCHANGED <<tries, out, okAt>>

(* A step that took effect goes on, or fails at the check that follows it.   *)
Settle(p, known) == Proceed(p, known) \/ Fail(p, known)

(* A step that fails before it has any effect.                              *)
Fails(p) == /\ pc[p] \in Steps
            /\ Fail(p, {})
            /\ UNCHANGED <<parentOk, entry, node, disk, name, children, snap, fresh, bounds>>

--------------------------------------------------------------------------------
(* publish: the parent is opened and the destination must be free.           *)
Lookup(p) == /\ pc[p] = "lookup"
             /\ parentOk /\ entry[Dest] = NoEntry
             /\ Proceed(p, {})
             /\ UNCHANGED <<parentOk, entry, node, disk, name, children, snap, fresh, bounds>>

(* createStaging: another name is drawn when one is taken.                   *)
Collide(p) ==
  /\ pc[p] = "make" /\ parentOk
  /\ \E n \in StagingNames : entry[n] # NoEntry
  /\ tries' = [tries EXCEPT ![p] = @ + 1]
  /\ IF tries'[p] < MaxTries THEN UNCHANGED <<pc, flags>>
                             ELSE Become(p, "sweep") /\ Flag(p, {"failed"})
  /\ UNCHANGED <<parentOk, entry, node, disk, leaf, name, children, snap, out, okAt, fresh, bounds>>

(* The directory is made; it may then not be identified or opened.           *)
Make(p) ==
  /\ pc[p] = "make" /\ parentOk
  /\ \E n \in StagingNames :
       /\ entry[n] = NoEntry
       /\ entry' = [entry EXCEPT ![n] = p]
       /\ name' = [name EXCEPT ![p] = n]
  /\ Settle(p, {"pinned"}) \/ Fail(p, {})
  /\ UNCHANGED <<parentOk, node, disk, children, snap, fresh, bounds>>

(* writeChild: an exclusive file, which may then not be identified.          *)
Create(p) ==
  /\ pc[p] = "create" /\ Storage(p)
  /\ node[p][leaf[p]].data = "none"
  /\ Put(p, leaf[p], Ours("empty"))
  /\ \/ Settle(p, {}) /\ children' = [children EXCEPT ![p] = leaf[p]]
     \/ Fail(p, {"uncertain"}) /\ UNCHANGED children
  /\ UNCHANGED <<parentOk, entry, disk, name, snap, fresh, bounds>>

(* A write may be cut short; what others wrote to the file may stay in it.    *)
Write(p) ==
  /\ pc[p] = "write" /\ Storage(p)
  /\ \/ Put(p, leaf[p], Ours("whole")) /\ Settle(p, {})
     \/ node[p][leaf[p]].data = "edited" /\ UNCHANGED node /\ Settle(p, {})
     \/ Put(p, leaf[p], Ours("part")) /\ Fail(p, {})
  /\ UNCHANGED <<parentOk, entry, disk, name, children, snap, fresh, bounds>>

(* Mutant: the content is not synced.                                       *)
SyncFileSkipped(p) ==
  /\ pc[p] = "syncFile" /\ Storage(p)
  /\ Settle(p, {})
  /\ UNCHANGED <<parentOk, entry, node, disk, name, children, snap, fresh, bounds>>

SyncFile(p) ==
  /\ pc[p] = "syncFile" /\ Storage(p)
  /\ synced' = [synced EXCEPT ![p] = @ \cup {leaf[p]}]
  /\ Settle(p, {})
  /\ UNCHANGED <<parentOk, entry, node, diskEntry, listed, name, children, snap, fresh, bounds>>

(* The file's identity and metadata are recorded, then it is closed.         *)
Seal(p) ==
  /\ pc[p] = "seal" /\ Storage(p)
  /\ snap' = [snap EXCEPT ![p][leaf[p]] = node[p][leaf[p]]]
  /\ Settle(p, {})
  /\ UNCHANGED <<parentOk, entry, node, disk, name, children, fresh, bounds>>

(* readChild: the file is there as sealed, and holds what was given.         *)
ReadChild(p) ==
  /\ pc[p] \in Reading /\ Storage(p)
  /\ node[p][leaf[p]].data = "whole"
  /\ Proceed(p, {})
  /\ UNCHANGED <<parentOk, entry, node, disk, name, children, snap, fresh, bounds>>

CheckListing(p) ==
  /\ pc[p] \in Listing /\ Listed(p)
  /\ Proceed(p, {})
  /\ UNCHANGED <<parentOk, entry, node, disk, name, children, snap, fresh, bounds>>

SyncStaging(p) ==
  /\ pc[p] = "syncStaging" /\ Storage(p)
  /\ listed' = [listed EXCEPT ![p] = Present(p)]
  /\ Settle(p, {})
  /\ UNCHANGED <<parentOk, entry, node, diskEntry, synced, name, children, snap, fresh, bounds>>

SyncParent(p) ==
  /\ pc[p] \in {"syncParent", "syncPublished"} /\ Storage(p)
  /\ diskEntry' = entry
  /\ Settle(p, {})
  /\ UNCHANGED <<parentOk, entry, node, synced, listed, name, children, snap, fresh, bounds>>

(* Mutant: a destination that exists is replaced.                            *)
RenameReplaces(p) ==
  /\ pc[p] = "rename"
  /\ entry[name[p]] # NoEntry
  /\ entry' = [entry EXCEPT ![Dest] = entry[name[p]], ![name[p]] = NoEntry]
  /\ name' = [name EXCEPT ![p] = Dest]
  /\ Proceed(p, {"published"})
  /\ UNCHANGED <<parentOk, node, disk, children, snap, fresh, bounds>>

(* The exclusive rename, of whatever has the staging name.                   *)
Rename(p) ==
  /\ pc[p] = "rename"
  /\ entry[Dest] = NoEntry /\ entry[name[p]] # NoEntry
  /\ entry' = [entry EXCEPT ![Dest] = entry[name[p]], ![name[p]] = NoEntry]
  /\ name' = [name EXCEPT ![p] = Dest]
  /\ Proceed(p, {"published"})
  /\ UNCHANGED <<parentOk, node, disk, children, snap, fresh, bounds>>

--------------------------------------------------------------------------------
(* The deferred part.                                                       *)

Leave(p) == /\ Become(p, "close")
            /\ UNCHANGED <<leaf, tries, flags, out, okAt, name, snap>>

(* Mutant: a file that was not sealed is removed like the others.            *)
SweepUnsealed(p) ==
  /\ pc[p] = "sweep"
  /\ \/ Leave(p)
     \/ /\ name[p] # NoEntry
        /\ "pinned" \in flags[p] /\ "uncertain" \notin flags[p]
        /\ Listed(p)
        /\ Become(p, "recheck")
        /\ UNCHANGED <<leaf, tries, flags, out, okAt, name, snap>>
  /\ UNCHANGED <<parentOk, entry, node, disk, children, fresh, bounds>>

(* cleanup: whatever is not certainly the publisher's own is left.           *)
Sweep(p) ==
  /\ pc[p] = "sweep"
  /\ \/ Leave(p)
     \/ /\ name[p] # NoEntry
        /\ "pinned" \in flags[p] /\ "uncertain" \notin flags[p]
        /\ Listed(p)
        /\ \A i \in 1..children[p] : Sealed(p, i)
        /\ Become(p, "recheck")
        /\ UNCHANGED <<leaf, tries, flags, out, okAt, name, snap>>
  /\ UNCHANGED <<parentOk, entry, node, disk, children, fresh, bounds>>

Recheck(p) ==
  /\ pc[p] = "recheck"
  /\ \/ Leave(p)
     \/ /\ Storage(p)
        /\ Become(p, "unlink")
        /\ UNCHANGED <<leaf, tries, flags, out, okAt, name, snap>>
  /\ fresh' = [fresh EXCEPT ![p] = FALSE]
  /\ UNCHANGED <<parentOk, entry, node, disk, children, bounds>>

(* The last file first; then the directory, which must be empty.             *)
Unlink(p) ==
  /\ pc[p] = "unlink"
  /\ \/ Leave(p) /\ UNCHANGED <<entry, node, diskEntry, children>>
     \/ /\ children[p] > 0
        /\ node[p][children[p]].data # "none"
        /\ Put(p, children[p], Ours("none"))
        /\ children' = [children EXCEPT ![p] = @ - 1]
        /\ Become(p, "recheck")
        /\ UNCHANGED <<entry, diskEntry, leaf, tries, flags, out, okAt, name, snap>>
     \/ /\ children[p] = 0
        /\ entry[name[p]] # NoEntry
        /\ entry[name[p]] = p => Present(p) = {}
        /\ entry' = [entry EXCEPT ![name[p]] = NoEntry]
        /\ diskEntry' \in {diskEntry, entry'}
        /\ Leave(p)
        /\ UNCHANGED <<node, children>>
  /\ UNCHANGED <<parentOk, synced, listed, fresh, bounds>>

Close(p) == /\ pc[p] = "close"
            /\ Become(p, "finish")
            /\ Flag(p, {}) \/ Flag(p, {"failed"})
            /\ UNCHANGED <<parentOk, entry, node, disk, leaf, tries, name, children, snap, out,
                           okAt, fresh, bounds>>

(* Mutant: the publication is not looked at again after the handles are      *)
(* closed.                                                                  *)
FinishUnchecked(p) ==
  /\ pc[p] = "finish"
  /\ Become(p, "done")
  /\ \/ /\ "failed" \notin flags[p]
        /\ out' = [out EXCEPT ![p] = "ok"]
        /\ okAt' = [okAt EXCEPT ![p] = changes]
     \/ /\ out' = [out EXCEPT ![p] = "error"]
        /\ UNCHANGED okAt
  /\ UNCHANGED <<parentOk, entry, node, disk, leaf, tries, flags, name, children, snap, fresh, bounds>>

(* checkPublished, from the parent's path down; then the context.            *)
Finish(p) ==
  /\ pc[p] = "finish"
  /\ Become(p, "done")
  /\ \/ /\ "failed" \notin flags[p] /\ Listed(p)
        /\ out' = [out EXCEPT ![p] = "ok"]
        /\ okAt' = [okAt EXCEPT ![p] = changes]
     \/ /\ out' = [out EXCEPT ![p] = "error"]
        /\ UNCHANGED okAt
  /\ UNCHANGED <<parentOk, entry, node, disk, leaf, tries, flags, name, children, snap, fresh, bounds>>

--------------------------------------------------------------------------------
(* Others, kills and power losses.                                          *)
Begun  == {p \in Publishers : pc[p] # "lookup"}
Change == /\ changes < MaxChanges /\ Cardinality(Begun) <= MaxRivals
          /\ changes' = changes + 1
          /\ fresh' = [p \in Publishers |-> TRUE]
          /\ UNCHANGED <<diskEntry, listed, calls, losses>>

(* A file is removed, replaced by another one, or written to.                *)
ChangeFile(p, l) ==
  /\ Change
  /\ \E n \in Names : entry[n] = p
  /\ \E data \in {"none", "alien"} \cup IF node[p][l].data = "none" THEN {} ELSE {"edited"} :
       Put(p, l, [data |-> data, at |-> changes'])
  /\ synced' = [synced EXCEPT ![p] = @ \ {l}]
  /\ UNCHANGED <<parentOk, entry>>

(* A name of the parent is given to another directory, or freed.             *)
ChangeEntry(n) == /\ Change
                  /\ \E d \in {Others, NoEntry} : entry' = [entry EXCEPT ![n] = d]
                  /\ UNCHANGED <<parentOk, node, synced>>

ChangeParent == /\ Change
                /\ parentOk' = FALSE
                /\ UNCHANGED <<entry, node, synced>>

Crash(p) == /\ pc[p] \notin {"done", "crashed"}
            /\ Become(p, "crashed")
            /\ UNCHANGED <<parentOk, entry, node, disk, leaf, tries, flags, name, children, snap,
                           out, okAt, fresh, bounds>>

(* Names that were not synced may be lost, and so may contents; a rename or a *)
(* removal that was not synced may be undone.  Every call that began is over.*)
PowerLoss ==
  /\ losses < MaxLosses /\ losses' = losses + 1
  /\ \E undone \in SUBSET {n \in Names : diskEntry[n] # entry[n]} :
       entry' = [n \in Names |-> IF n \in undone THEN diskEntry[n] ELSE entry[n]]
  /\ LET at(S) == {x \in Publishers \X Leaves : x[2] \in Present(x[1]) \ S[x[1]]} IN
       \E lost \in SUBSET at(listed) : \E torn \in SUBSET (at(synced) \ lost) :
         node' = [p \in Publishers |-> [l \in Leaves |->
                    IF <<p, l>> \in lost THEN Ours("none")
                    ELSE IF <<p, l>> \in torn THEN Ours("part") ELSE node[p][l]]]
  /\ diskEntry' = entry'
  /\ LET kept == [p \in Publishers |-> IF pc[p] = "lookup" THEN {} ELSE Leaves] IN
       synced' = kept /\ listed' = kept
  /\ pc' = [p \in Publishers |-> IF pc[p] = "lookup" THEN "lookup" ELSE "crashed"]
  /\ UNCHANGED <<parentOk, leaf, name, tries, flags, children, snap, out, okAt, fresh, changes>>

MayAct(p) == pc[p] = "lookup" /\ changes > 0 => Cardinality(Begun) < MaxRivals

Publishes(p) ==
  \/ Fails(p) \/ Lookup(p) \/ Collide(p) \/ Make(p) \/ Create(p) \/ Write(p) \/ SyncFile(p)
  \/ Seal(p) \/ ReadChild(p) \/ CheckListing(p) \/ SyncStaging(p) \/ SyncParent(p) \/ Rename(p)
  \/ Sweep(p) \/ Recheck(p) \/ Unlink(p) \/ Close(p) \/ Finish(p) \/ Crash(p)

Next == \/ \E p \in Publishers : MayAct(p) /\ Publishes(p)
        \/ \E p \in Publishers : \E l \in Leaves : ChangeFile(p, l)
        \/ \E n \in Names : ChangeEntry(n)
        \/ ChangeParent \/ PowerLoss

Spec == Init /\ [][Next]_vars

--------------------------------------------------------------------------------
Complete(p) == Present(p) = Owned /\ \A i \in Owned : node[p][i].data = "whole"

(* Nobody ever sees a part of a bundle under its name, not after a kill and  *)
(* not after a power loss, unless somebody else put it there.                *)
WholeOrAbsent ==
  changes = 0 => \A p \in Publishers : entry[Dest] = p => Complete(p)

(* A call that returned the destination left the complete bundle there, for  *)
(* good: it outlives a power loss, and whatever others did before the return *)
(* would have been noticed.                                                 *)
ReceiptIsTrue ==
  \A p \in Publishers : out[p] = "ok" /\ changes = okAt[p] => entry[Dest] = p /\ Complete(p)

ByPublishers == changes' = changes /\ losses' = losses

(* The cleanup removes no file but those the publisher sealed and nobody has *)
(* touched since (docs/plans/001-treeclear-core.md, task 8I); what is left   *)
(* to chance is a change between the check of a removal and the removal.     *)
RemovesOnlySealed ==
  [][ByPublishers =>
       \A p \in Publishers, i \in Owned :
         node[p][i].data # "none" /\ node'[p][i].data = "none"
           => fresh[p] \/ node[p][i] = snap[p][i]]_vars

(* An error after the rename keeps the directory: it may be the only         *)
(* recovery copy.                                                           *)
RecoveryCopyKept ==
  [][ByPublishers =>
       \A p \in Publishers : "published" \in flags[p] =>
         node'[p] = node[p] /\ (entry[Dest] = p => entry'[Dest] = p)]_vars

(* As long as nobody else interferes, a publication is the one step in which *)
(* a private file gets its content, and its outcomes are true.               *)
Outcome(p) ==
  CASE pc[p] = "crashed" -> "crashed"
    [] pc[p] = "done" -> IF out[p] = "ok" THEN "ok" ELSE "failed"
    [] pc[p] \notin {"done", "crashed"} ->
         IF "published" \in flags[p] THEN "published" ELSE "waiting"

Once == INSTANCE WriteOnceFile
          WITH Writers <- Publishers, NoFile <- NoEntry, file <- entry[Dest],
               outcome <- [p \in Publishers |-> Outcome(p)]

ImplementsWriteOnceFile ==
  Once!Init /\ [][changes' = 0 => Once!Next \/ UNCHANGED Once!vars]_vars
================================================================================

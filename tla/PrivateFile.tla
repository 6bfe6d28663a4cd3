------------------------------ MODULE PrivateFile ------------------------------
(***************************************************************************)
(* fssecure.WritePrivateFile, WritePrivateExport and ReadPrivateFile, step *)
(* by step: each action is one system call of one process.  The processes  *)
(* share one parent directory and one final name; each writer stages its   *)
(* content under a random name, syncs it and hard-links it to the final    *)
(* name.  A process may stop between any two calls, and the machine may    *)
(* lose power: file content that was not synced and directory entries      *)
(* (never synced by this code) may then be lost.                           *)
(***************************************************************************)
EXTENDS Naturals

CONSTANTS Writers,        \* calls of WritePrivateFile / WritePrivateExport
          Readers,        \* calls of ReadPrivateFile
          StagingNames,   \* the names rand.Text may produce
          NoFile,
          Size,           \* bytes of the content each writer publishes
          Limit,          \* maximumBytes of the readers
          MaxTries,       \* staging names a writer tries: 10 in the source
          MaxLosses       \* bound: power losses in a behaviour

ASSUME PrivateFileAssumption ==
  /\ NoFile \notin Writers
  /\ StagingNames # {}
  /\ Size \in Nat
  /\ Limit \in Nat
  /\ MaxTries \in Nat \ {0}
  /\ MaxLosses \in Nat

VARIABLES parent,    \* the parent directory: "absent", "broad" or "private"
          staging,   \* staging name -> the writer whose file it names
          final,     \* the published name -> the writer whose file it names
          data,      \* writer -> bytes in its file
          synced,    \* writer -> its file has been fsynced
          pc, err,   \* writer -> the next call, and the error to report so far
          tries,     \* writer -> staging names found taken
          name,      \* writer -> its staging name
          rpc,       \* reader -> the next call
          opened,    \* reader -> the file it has open
          got,       \* reader -> bytes it returned
          losses     \* power losses so far

writerVars == <<pc, err, tries, name>>
readerVars == <<rpc, opened, got>>
dirVars    == <<parent, staging, final>>
fileVars   == <<data, synced>>
vars == <<dirVars, fileVars, writerVars, readerVars, losses>>

Steps == {"lstat", "ensure", "mkdir", "rollback", "secure", "verify", "create",
          "discard", "write", "sync", "close", "link", "remove", "done", "crashed"}
ReaderSteps == {"open", "stat", "read", "returned", "missing", "refused"}

TypeOK == /\ parent \in {"absent", "broad", "private"}
          /\ staging \in [StagingNames -> Writers \cup {NoFile}]
          /\ final \in Writers \cup {NoFile}
          /\ data \in [Writers -> 0..Size]
          /\ synced \in [Writers -> BOOLEAN]
          /\ pc \in [Writers -> Steps]
          /\ err \in [Writers -> {"none", "exist", "error"}]
          /\ tries \in [Writers -> 0..MaxTries]
          /\ name \in [Writers -> StagingNames]
          /\ rpc \in [Readers -> ReaderSteps]
          /\ opened \in [Readers -> Writers \cup {NoFile}]
          /\ got \in [Readers -> 0..Size]
          /\ losses \in 0..MaxLosses

Init == /\ parent \in {"absent", "broad", "private"}
        /\ staging = [s \in StagingNames |-> NoFile]
        /\ final = NoFile
        /\ data = [w \in Writers |-> 0]
        /\ synced = [w \in Writers |-> FALSE]
        /\ pc = [w \in Writers |-> "lstat"]
        /\ err = [w \in Writers |-> "none"]
        /\ tries = [w \in Writers |-> 0]
        /\ name = [w \in Writers |-> CHOOSE s \in StagingNames : TRUE]
        /\ rpc = [r \in Readers |-> "open"]
        /\ opened = [r \in Readers |-> NoFile]
        /\ got = [r \in Readers |-> 0]
        /\ losses = 0

--------------------------------------------------------------------------------
(* The control of a writer: go on to step s, or report e and stop.         *)
GoTo(w, s) == pc' = [pc EXCEPT ![w] = s] /\ UNCHANGED err
Report(w, s, e) == pc' = [pc EXCEPT ![w] = s] /\ err' = [err EXCEPT ![w] = e]
Stop(w, e) == Report(w, "done", e)

Present == parent # "absent"
NoEntries == final = NoFile /\ \A s \in StagingNames : staging[s] = NoFile

(* WritePrivateFile first looks whether the destination already exists.    *)
Lstat(w) ==
  /\ pc[w] = "lstat"
  /\ \/ final # NoFile /\ Stop(w, "exist")
     \/ final = NoFile /\ GoTo(w, "ensure")
     \/ Stop(w, "error")
  /\ UNCHANGED <<dirVars, fileVars, tries, name, readerVars, losses>>

(* EnsurePrivateDirectory: an existing directory is secured, a missing one *)
(* is made first.                                                          *)
EnsureParent(w) ==
  /\ pc[w] = "ensure"
  /\ \/ GoTo(w, IF Present THEN "secure" ELSE "mkdir")
     \/ Stop(w, "error")
  /\ UNCHANGED <<dirVars, fileVars, tries, name, readerVars, losses>>

(* makePrivateDirectory: a directory somebody else made meanwhile is fine; *)
(* one that cannot be secured after it was made is removed again.          *)
MakeParent(w) ==
  /\ pc[w] = "mkdir"
  /\ \/ Present /\ GoTo(w, "secure") /\ UNCHANGED parent
     \/ ~Present /\ parent' = "private" /\ GoTo(w, "secure")
     \/ ~Present /\ parent' = "private" /\ GoTo(w, "rollback")
     \/ Stop(w, "error") /\ UNCHANGED parent
  /\ UNCHANGED <<staging, final, fileVars, tries, name, readerVars, losses>>

(* Mutant: os.RemoveAll, which takes every entry with the directory.       *)
RollbackParentRemoveAll(w) ==
  /\ pc[w] = "rollback"
  /\ parent' = "absent"
  /\ staging' = [s \in StagingNames |-> NoFile]
  /\ final' = NoFile
  /\ Stop(w, "error")
  /\ UNCHANGED <<fileVars, tries, name, readerVars, losses>>

(* os.Remove takes the directory away only while it is empty.  When it is  *)
(* not, the error is ENOTEMPTY, which fs.ErrExist matches: the caller then *)
(* goes on with the directory that somebody else is already using.         *)
RollbackParent(w) ==
  /\ pc[w] = "rollback"
  /\ IF NoEntries THEN parent' = "absent" /\ Stop(w, "error")
                  ELSE parent' = parent /\ GoTo(w, "secure")
  /\ UNCHANGED <<staging, final, fileVars, tries, name, readerVars, losses>>

(* secureExistingDirectory narrows the mode to 0700.                       *)
SecureParent(w) ==
  /\ pc[w] = "secure"
  /\ \/ Present /\ parent' = "private" /\ GoTo(w, "verify")
     \/ Stop(w, "error") /\ UNCHANGED parent
  /\ UNCHANGED <<staging, final, fileVars, tries, name, readerVars, losses>>

VerifyParent(w) ==
  /\ pc[w] = "verify"
  /\ \/ parent = "private" /\ GoTo(w, "create")
     \/ Stop(w, "error")
  /\ UNCHANGED <<dirVars, fileVars, tries, name, readerVars, losses>>

(* Mutants: one try too many; tries that start over instead of giving up.  *)
CollideStagingOffByOne(w) ==
  /\ pc[w] = "create" /\ Present
  /\ \E s \in StagingNames : staging[s] # NoFile
  /\ tries' = [tries EXCEPT ![w] = @ + 1]
  /\ IF tries[w] = MaxTries THEN Stop(w, "error") ELSE GoTo(w, "create")
  /\ UNCHANGED <<dirVars, fileVars, name, readerVars, losses>>

CollideStagingForever(w) ==
  /\ pc[w] = "create" /\ Present
  /\ \E s \in StagingNames : staging[s] # NoFile
  /\ tries' = [tries EXCEPT ![w] = (@ + 1) % MaxTries]
  /\ GoTo(w, "create")
  /\ UNCHANGED <<dirVars, fileVars, name, readerVars, losses>>

(* The retry loop over random staging names, O_EXCL: a name that is taken  *)
(* costs one try, and the last one the whole call.                         *)
CollideStaging(w) ==
  /\ pc[w] = "create" /\ Present
  /\ \E s \in StagingNames : staging[s] # NoFile
  /\ tries' = [tries EXCEPT ![w] = @ + 1]
  /\ IF tries[w] + 1 = MaxTries THEN Stop(w, "error") ELSE GoTo(w, "create")
  /\ UNCHANGED <<dirVars, fileVars, name, readerVars, losses>>

(* A staging file that cannot be made private is discarded again.          *)
CreateStaging(w) ==
  /\ pc[w] = "create" /\ Present
  /\ \E s \in StagingNames :
       /\ staging[s] = NoFile
       /\ staging' = [staging EXCEPT ![s] = w]
       /\ name' = [name EXCEPT ![w] = s]
  /\ GoTo(w, "write") \/ GoTo(w, "discard")
  /\ UNCHANGED <<parent, final, fileVars, tries, readerVars, losses>>

CreateFails(w) ==
  /\ pc[w] = "create"
  /\ Stop(w, "error")
  /\ UNCHANGED <<dirVars, fileVars, tries, name, readerVars, losses>>

Unlink(w) == staging' = [staging EXCEPT ![name[w]] = NoFile]

DiscardStaging(w) ==
  /\ pc[w] = "discard"
  /\ Unlink(w) \/ UNCHANGED staging
  /\ Stop(w, "error")
  /\ UNCHANGED <<parent, final, fileVars, tries, name, readerVars, losses>>

(* publishPrivateFile.  The write may fail or be short.                    *)
Write(w) ==
  /\ pc[w] = "write"
  /\ \E n \in 0..Size :
       /\ data' = [data EXCEPT ![w] = n]
       /\ \/ n = Size /\ GoTo(w, "sync")
          \/ Report(w, "remove", "error")
  /\ UNCHANGED <<dirVars, synced, tries, name, readerVars, losses>>

(* Mutant: the content is not synced before it is published.               *)
SyncSkipped(w) ==
  /\ pc[w] = "sync"
  /\ GoTo(w, "close")
  /\ UNCHANGED <<dirVars, fileVars, tries, name, readerVars, losses>>

Sync(w) ==
  /\ pc[w] = "sync"
  /\ \/ synced' = [synced EXCEPT ![w] = TRUE] /\ GoTo(w, "close")
     \/ Report(w, "remove", "error") /\ UNCHANGED synced
  /\ UNCHANGED <<dirVars, data, tries, name, readerVars, losses>>

Close(w) ==
  /\ pc[w] = "close"
  /\ GoTo(w, "link") \/ Report(w, "remove", "error")
  /\ UNCHANGED <<dirVars, fileVars, tries, name, readerVars, losses>>

(* Mutants: publication by rename; an existing name taken for a success.   *)
LinkReplaces(w) ==
  /\ pc[w] = "link"
  /\ final' = w /\ GoTo(w, "remove")
  /\ UNCHANGED <<parent, staging, fileVars, tries, name, readerVars, losses>>

LinkExistingAccepted(w) ==
  /\ pc[w] = "link"
  /\ final' = (IF final = NoFile THEN w ELSE final) /\ GoTo(w, "remove")
  /\ UNCHANGED <<parent, staging, fileVars, tries, name, readerVars, losses>>

(* os.Link never replaces: an existing destination refuses the writer.     *)
Link(w) ==
  /\ pc[w] = "link"
  /\ \/ final = NoFile /\ final' = w /\ GoTo(w, "remove")
     \/ final # NoFile /\ Report(w, "remove", "exist") /\ UNCHANGED final
     \/ Report(w, "remove", "error") /\ UNCHANGED final
  /\ UNCHANGED <<parent, staging, fileVars, tries, name, readerVars, losses>>

(* Mutant: the failure to remove the staging name is dropped.              *)
RemoveFailureDropped(w) ==
  /\ pc[w] = "remove"
  /\ Unlink(w) \/ UNCHANGED staging
  /\ GoTo(w, "done")
  /\ UNCHANGED <<parent, final, fileVars, tries, name, readerVars, losses>>

(* The deferred removal of the staging name.  Its failure is joined to the *)
(* result: a published file is then reported as an error, a refusal stays  *)
(* recognisable as fs.ErrExist.                                            *)
Remove(w) ==
  /\ pc[w] = "remove"
  /\ \/ Unlink(w) /\ GoTo(w, "done")
     \/ UNCHANGED staging /\ Stop(w, IF err[w] = "exist" THEN "exist" ELSE "error")
  /\ UNCHANGED <<parent, final, fileVars, tries, name, readerVars, losses>>

--------------------------------------------------------------------------------
(* ReadPrivateFile: open, bound the size, read at most one byte more.      *)
OpenFinal(r) ==
  /\ rpc[r] = "open"
  /\ \/ final = NoFile /\ rpc' = [rpc EXCEPT ![r] = "missing"] /\ UNCHANGED opened
     \/ /\ final # NoFile
        /\ rpc' = [rpc EXCEPT ![r] = "stat"]
        /\ opened' = [opened EXCEPT ![r] = final]
  /\ UNCHANGED <<dirVars, fileVars, writerVars, got, losses>>

StatSize(r) ==
  /\ rpc[r] = "stat"
  /\ rpc' = [rpc EXCEPT ![r] = IF data[opened[r]] > Limit THEN "refused" ELSE "read"]
  /\ UNCHANGED <<dirVars, fileVars, writerVars, opened, got, losses>>

ReadAll(r) ==
  /\ rpc[r] = "read"
  /\ LET n == data[opened[r]] IN
       \/ /\ n <= Limit
          /\ rpc' = [rpc EXCEPT ![r] = "returned"]
          /\ got' = [got EXCEPT ![r] = n]
       \/ /\ n > Limit
          /\ rpc' = [rpc EXCEPT ![r] = "refused"]
          /\ UNCHANGED got
  /\ UNCHANGED <<dirVars, fileVars, writerVars, opened, losses>>

--------------------------------------------------------------------------------
(* A process is killed between two calls: nothing it deferred runs.        *)
Started(w) == pc[w] # "lstat"

Crash(w) ==
  /\ pc[w] \notin {"lstat", "done", "crashed"}
  /\ pc' = [pc EXCEPT ![w] = "crashed"]
  /\ UNCHANGED <<dirVars, fileVars, err, tries, name, readerVars, losses>>

(* The machine stops: unsynced bytes and any directory entry may be gone.  *)
PowerLoss ==
  /\ losses < MaxLosses
  /\ losses' = losses + 1
  /\ final' \in {final, NoFile}
  /\ \E kept \in SUBSET StagingNames :
       staging' = [s \in StagingNames |-> IF s \in kept THEN staging[s] ELSE NoFile]
  /\ \E torn \in [Writers -> 0..Size] :
       /\ \A w \in Writers : torn[w] <= data[w] /\ (synced[w] => torn[w] = data[w])
       /\ data' = torn
  /\ pc' = [w \in Writers |-> IF Started(w) THEN "crashed" ELSE pc[w]]
  /\ rpc' = [r \in Readers |-> "open"]
  /\ opened' = [r \in Readers |-> NoFile]
  /\ got' = [r \in Readers |-> 0]
  /\ UNCHANGED <<parent, synced, err, tries, name>>

WriterStep(w) ==
  \/ Lstat(w) \/ EnsureParent(w) \/ MakeParent(w) \/ RollbackParent(w)
  \/ SecureParent(w) \/ VerifyParent(w) \/ CollideStaging(w) \/ CreateStaging(w)
  \/ CreateFails(w) \/ DiscardStaging(w) \/ Write(w) \/ Sync(w) \/ Close(w)
  \/ Link(w) \/ Remove(w)

ReaderStep(r) == OpenFinal(r) \/ StatSize(r) \/ ReadAll(r)

Next == \/ \E w \in Writers : WriterStep(w)
        \/ \E r \in Readers : ReaderStep(r)
        \/ \E w \in Writers : Crash(w)
        \/ PowerLoss

Spec == Init /\ [][Next]_vars

(* The operating system runs every process: a call that can return does.   *)
FairSpec == /\ Spec
            /\ \A w \in Writers : WF_vars(WriterStep(w))
            /\ \A r \in Readers : WF_vars(ReaderStep(r))

--------------------------------------------------------------------------------
(* A reader never returns part of a content, not even after a power loss:  *)
(* the bytes are synced before the name exists (publishPrivateFile).       *)
NoTornRead == \A r \in Readers : rpc[r] = "returned" => got[r] = Size

(* What a writer reports is true of the directory.  A success: its file is *)
(* the published one and it has left no staging name behind.  A refusal:   *)
(* the published file is another's.  A failure although its file is        *)
(* published: its staging name could not be removed and is still there.    *)
ReportMatchesDirectory ==
  \A w \in Writers : pc[w] = "done" =>
    /\ err[w] = "none" => final = w /\ \A s \in StagingNames : staging[s] # w
    /\ err[w] = "exist" => final \notin {NoFile, w}
    /\ err[w] = "error" /\ final = w => staging[name[w]] = w

(* The steps at which a writer counts on its staging file.                 *)
Staged == {"discard", "write", "sync", "close", "link", "remove"}

(* Nobody takes a staging file from a writer that is still at work on it,  *)
(* or opens its directory to others: not the caller that removes again the *)
(* directory it could not secure (makePrivateDirectory), nor one that      *)
(* secures the directory, nor the removal of another staging name.         *)
StagedFileIsKept ==
  \A w \in Writers : pc[w] \in Staged =>
    staging[name[w]] = w /\ parent = "private"

(* The published name is never given to another file while the machine     *)
(* stays up: a link refuses an existing name.                              *)
FinalNeverReplaced ==
  [][losses' = losses /\ final # NoFile => final' = final]_vars

(* Every call ends: the retry over staging names is bounded, whatever      *)
(* names the generator produces.                                           *)
WritersEnd == \A w \in Writers : <>(pc[w] \in {"done", "crashed"})

(* What an attempt has come to, seen from outside.                         *)
Outcome(w) ==
  CASE pc[w] = "crashed" -> "crashed"
    [] pc[w] = "remove" /\ err[w] = "none" -> "published"
    [] pc[w] = "done" /\ err[w] = "none"   -> "ok"
    [] pc[w] = "done" /\ err[w] = "exist"  -> "refused"
    [] pc[w] = "done" /\ err[w] = "error"  -> "failed"
    [] OTHER -> "waiting"

outcome == [w \in Writers |-> Outcome(w)]

WOF == INSTANCE WriteOnceFile WITH file <- final

(* Every step of the call sequence is a step of the write-once file or     *)
(* leaves it alone.                                                        *)
ImplementsWriteOnceFile == WOF!Spec
================================================================================

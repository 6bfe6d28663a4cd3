----------------------------- MODULE SourceCapture -----------------------------
(***************************************************************************)
(* snapshot.captureSource: a copy of a worktree that other processes keep   *)
(* changing.  Four root directories are opened and pinned, everything is    *)
(* collected twice, the roots are checked before, between and after, and    *)
(* the copy is accepted only when the two collections agree.  There is no   *)
(* lock: between two reads any other process may run.                       *)
(*                                                                         *)
(* The worktree is a set of cells.  A collection is a fixed order of reads, *)
(* each of one cell; what several reads share (git status looks at the      *)
(* index, the tracked files and the untracked paths) is one read per cell.  *)
(* The value of a cell is a number; the history variable returned tells     *)
(* whether a change ever gave a cell a smaller one: until then none had its *)
(* value before.  0 is what the plan recorded and expects.                  *)
(***************************************************************************)
EXTENDS Naturals

CONSTANTS Values,      \* what a cell can hold
          Shape,       \* value -> what the counts and codes of `git status` show of it
          Bytes,       \* value -> the bytes it takes in a capture
          MaximumBytes,
          Shared,      \* the cells other processes change
          MaxChanges,  \* bound: the changes they make
          NotRead, Empty

Roots == <<"repository", "common", "path", "adminDir">>
Cells == {"registration", "index", "admin", "tracked", "leaves", "content"}
           \cup {Roots[i] : i \in 1..4}

ASSUME CaptureAssumption ==
  /\ Values \subseteq Nat /\ 0 \in Values
  /\ Shape \in [Values -> Nat] /\ Bytes \in [Values -> Nat]
  /\ MaximumBytes \in Nat /\ MaxChanges \in Nat
  /\ Shared \subseteq Cells
  /\ NotRead \notin Values

(* The reads of a collection, in order.                                    *)
List            == 1    \* git worktree list
IndexHash       == 2    \* InspectWorktree: the index, the administrative files,
AdminHash       == 3
InspectIndex    == 4    \*   git status,
InspectTracked  == 5
InspectLeaves   == 6
InspectHead     == 7    \*   HEAD and branch
StatusIndex     == 8    \* StatusSnapshot
StatusTracked   == 9
StatusLeaves    == 10
StagedHead      == 11   \* git diff --cached
StagedIndex     == 12
UnstagedIndex   == 13   \* git diff
UnstagedTracked == 14
AdminFiles      == 15   \* the administrative reader: the files, then the index
AdminIndex      == 16
Untracked       == 17   \* the untracked reader
Reads           == 1..17

CellOf == <<"registration", "index", "admin", "index", "tracked", "leaves", "registration",
            "index", "tracked", "leaves", "registration", "index", "index", "tracked",
            "admin", "index", "content">>

(* The reads whose bytes the capture keeps; the last of a part stands for   *)
(* the part.                                                                *)
Charged == {List, StatusLeaves, StagedIndex, UnstagedTracked, AdminFiles, AdminIndex, Untracked}

(* What the captured status shows of the tracked files is their shape only. *)
View(r, v) == IF r = StatusTracked THEN Shape[v] ELSE v

VARIABLES cell,      \* the worktree
          changes,   \* changes made so far
          cancelled, \* the context
          returned,  \* whether a cell may hold an earlier value again (history)
          phase, round, \* what is running; collections completed
          pos,       \* next root or read
          bound,     \* root -> what bind recorded
          handles,   \* roots whose handle is open
          seen,      \* collection -> read -> value observed
          remaining, \* byte budget left to the collection
          mid,       \* the worktree when the first collection ended (history)
          err, out   \* the two named results

vars == <<cell, changes, cancelled, returned, phase, round, pos, bound, handles, seen, remaining,
          mid, err, out>>

Phases == {"start", "bind", "check", "collect", "compare", "close", "done"}
Observations == [Reads -> Values \cup {NotRead}]

TypeOK == /\ cell \in [Cells -> Values]
          /\ changes \in 0..MaxChanges
          /\ cancelled \in BOOLEAN /\ returned \in BOOLEAN
          /\ phase \in Phases
          /\ round \in 0..2
          /\ pos \in 1..18
          /\ bound \in [1..4 -> Values \cup {NotRead}]
          /\ handles \subseteq 1..4
          /\ seen \in [1..2 -> Observations]
          /\ remaining \in 0..MaximumBytes
          /\ mid \in [Cells -> Values]
          /\ err \in BOOLEAN
          /\ out \in Observations \cup {Empty}

Init == /\ cell = [c \in Cells |-> 0]
        /\ changes = 0
        /\ cancelled = FALSE /\ returned = FALSE
        /\ phase = "start"
        /\ round = 0
        /\ pos = 1
        /\ bound = [i \in 1..4 |-> NotRead]
        /\ handles = {}
        /\ seen = [k \in 1..2 |-> [r \in Reads |-> NotRead]]
        /\ remaining = MaximumBytes
        /\ mid = [c \in Cells |-> 0]
        /\ err = FALSE
        /\ out = Empty

--------------------------------------------------------------------------------
world == <<cell, changes, cancelled, returned>>

(* An error return: the deferred close is all that is left to run.          *)
Reject == /\ phase' = "close"
          /\ err' = TRUE
          /\ UNCHANGED <<round, pos, bound, handles, seen, remaining, mid, out>>

(* The context is read first, then the budget is validated.                 *)
Start ==
  /\ phase = "start"
  /\ IF cancelled \/ MaximumBytes = 0
     THEN Reject
     ELSE /\ phase' = "bind"
          /\ UNCHANGED <<round, pos, bound, handles, seen, remaining, mid, err, out>>
  /\ UNCHANGED world

(* bind: the handle is kept even when what it shows is refused.             *)
Bind ==
  /\ phase = "bind"
  /\ \/ Reject
     \/ /\ handles' = handles \cup {pos}
        /\ phase' = "close"
        /\ err' = TRUE
        /\ UNCHANGED <<round, pos, bound, seen, remaining, mid, out>>
     \/ /\ ~cancelled
        /\ handles' = handles \cup {pos}
        /\ bound' = [bound EXCEPT ![pos] = cell[Roots[pos]]]
        /\ IF pos = 4 THEN phase' = "check" /\ pos' = 1 ELSE pos' = pos + 1 /\ UNCHANGED phase
        /\ UNCHANGED <<round, seen, remaining, mid, err, out>>
  /\ UNCHANGED world

(* check: the root reopened by its path is still the directory bound, with  *)
(* the mode, size and time it had.  The first check is the end of bind.     *)
CheckRoot ==
  /\ phase = "check"
  /\ \/ Reject
     \/ /\ ~cancelled
        /\ cell[Roots[pos]] = bound[pos]
        /\ IF pos = 4 THEN /\ phase' = IF round = 2 THEN "compare" ELSE "collect"
                           /\ pos' = 1 /\ remaining' = MaximumBytes
           ELSE pos' = pos + 1 /\ UNCHANGED <<phase, remaining>>
        /\ UNCHANGED <<round, bound, handles, seen, mid, err, out>>
  /\ UNCHANGED world

(* Mutant: the administrative index is not held against the inspected hash. *)
AgreesNoIndexHash(r, obs) ==
  /\ r = List => obs[List] = 0
  /\ r = InspectHead =>
       /\ obs[IndexHash] = 0 /\ obs[AdminHash] = 0 /\ obs[InspectHead] = 0
       /\ \A s \in {InspectIndex, InspectTracked, InspectLeaves} : Shape[obs[s]] = Shape[0]
  /\ r = StatusLeaves =>
       /\ Shape[obs[StatusIndex]] = Shape[obs[InspectIndex]]
       /\ Shape[obs[StatusTracked]] = Shape[obs[InspectTracked]]
       /\ Shape[obs[StatusLeaves]] = Shape[obs[InspectLeaves]]

(* Mutant: of the inspected worktree only the registration is compared.     *)
AgreesRegistration(r, obs) ==
  /\ r = List => obs[List] = 0
  /\ r = InspectHead => obs[InspectHead] = 0
  /\ r = StatusLeaves =>
       /\ Shape[obs[StatusIndex]] = Shape[obs[InspectIndex]]
       /\ Shape[obs[StatusTracked]] = Shape[obs[InspectTracked]]
       /\ Shape[obs[StatusLeaves]] = Shape[obs[InspectLeaves]]
  /\ r = AdminIndex => obs[AdminIndex] = obs[IndexHash]

(* The comparisons collectSource makes when a part is complete: the listed  *)
(* registration and the inspected worktree are the expected ones, the       *)
(* status has the inspected counts, the administrative index the inspected  *)
(* hash.                                                                    *)
Agrees(r, obs) ==
  /\ r = List => obs[List] = 0
  /\ r = InspectHead =>
       /\ obs[IndexHash] = 0 /\ obs[AdminHash] = 0 /\ obs[InspectHead] = 0
       /\ \A s \in {InspectIndex, InspectTracked, InspectLeaves} : Shape[obs[s]] = Shape[0]
  /\ r = StatusLeaves =>
       /\ Shape[obs[StatusIndex]] = Shape[obs[InspectIndex]]
       /\ Shape[obs[StatusTracked]] = Shape[obs[InspectTracked]]
       /\ Shape[obs[StatusLeaves]] = Shape[obs[InspectLeaves]]
  /\ r = AdminIndex => obs[AdminIndex] = obs[IndexHash]

(* Mutant: the budget left is not reduced.                                  *)
TakeKeepsBudget(r, v) ==
  IF r \in Charged THEN Bytes[v] <= remaining /\ remaining' = remaining
  ELSE UNCHANGED remaining

(* sourceByteBudget.take.                                                   *)
Take(r, v) ==
  IF r \in Charged THEN Bytes[v] <= remaining /\ remaining' = remaining - Bytes[v]
  ELSE UNCHANGED remaining

(* collectSource: one read, the comparisons it completes and what it costs. *)
(* Any read may fail; the first collection ends where mid is recorded.      *)
Collect ==
  /\ phase = "collect"
  /\ \/ Reject
     \/ LET v == cell[CellOf[pos]]
            obs == [seen[round + 1] EXCEPT ![pos] = v]
        IN /\ ~cancelled
           /\ Agrees(pos, obs)
           /\ Take(pos, v)
           /\ seen' = [seen EXCEPT ![round + 1] = obs]
           /\ IF pos = Untracked
              THEN /\ phase' = "check" /\ pos' = 1 /\ round' = round + 1
                   /\ mid' = IF round = 0 THEN cell ELSE mid
              ELSE pos' = pos + 1 /\ UNCHANGED <<phase, round, mid>>
           /\ UNCHANGED <<bound, handles, err, out>>
  /\ UNCHANGED world

--------------------------------------------------------------------------------
(* Two patches can be the same bytes when both sides of the diff are, or    *)
(* neither is.                                                              *)
SamePatch(k, l, from, to) == seen[k][from] = seen[l][from] <=> seen[k][to] = seen[l][to]

(* Mutant: the unstaged patches are not compared.                           *)
MaySeemEqualNoUnstaged ==
  /\ \A r \in {List, StatusTracked, StatusLeaves, AdminFiles, AdminIndex, Untracked} :
       View(r, seen[1][r]) = View(r, seen[2][r])
  /\ SamePatch(1, 2, StagedHead, StagedIndex)

(* equalSourceCapture and equalSourceWorktree: the collections may be       *)
(* found equal ...                                                          *)
MaySeemEqual ==
  /\ \A r \in {List, StatusTracked, StatusLeaves, AdminFiles, AdminIndex, Untracked} :
       View(r, seen[1][r]) = View(r, seen[2][r])
  /\ SamePatch(1, 2, StagedHead, StagedIndex)
  /\ SamePatch(1, 2, UnstagedIndex, UnstagedTracked)

(* ... and are, when they read the same values throughout.                  *)
Equal == seen[1] = seen[2]

Compare ==
  /\ phase = "compare"
  /\ \/ MaySeemEqual /\ out' = seen[1] /\ UNCHANGED err
     \/ ~Equal /\ err' = TRUE /\ UNCHANGED out
  /\ phase' = "close"
  /\ UNCHANGED <<world, round, pos, bound, handles, seen, remaining, mid>>

(* sourceRootGuard.close: every handle, last opened first; a failure is     *)
(* remembered and the next handle closed.                                   *)
Close ==
  /\ phase = "close"
  /\ handles # {}
  /\ handles' = handles \ {CHOOSE h \in handles : \A g \in handles : g <= h}
  /\ \E failed \in BOOLEAN : err' = (err \/ failed \/ cancelled)
  /\ UNCHANGED <<world, phase, round, pos, bound, seen, remaining, mid, out>>

(* Mutant: the result is judged before the handles are closed.              *)
FinishUnclosed ==
  /\ phase = "close" /\ handles = {}
  /\ phase' = "done"
  /\ err' = (err \/ cancelled)
  /\ UNCHANGED <<world, round, pos, bound, handles, seen, remaining, mid, out>>

(* The outermost deferred function: any error, a late cancellation too,     *)
(* empties the capture.                                                     *)
Finish ==
  /\ phase = "close" /\ handles = {}
  /\ phase' = "done"
  /\ err' = (err \/ cancelled)
  /\ out' = IF err' THEN Empty ELSE out
  /\ UNCHANGED <<world, round, pos, bound, handles, seen, remaining, mid>>

--------------------------------------------------------------------------------
captureVars == <<phase, round, pos, bound, handles, seen, remaining, mid, err, out>>

(* Another process changes one cell.                                        *)
Change(c) ==
  /\ phase # "done"
  /\ changes < MaxChanges
  /\ changes' = changes + 1
  /\ \E v \in Values \ {cell[c]} : /\ cell' = [cell EXCEPT ![c] = v]
                                    /\ returned' = (returned \/ v < cell[c])
  /\ UNCHANGED <<cancelled, captureVars>>

(* The caller's context ends.                                               *)
Cancel ==
  /\ phase # "done"
  /\ ~cancelled
  /\ cancelled' = TRUE
  /\ UNCHANGED <<cell, changes, returned, captureVars>>

Next == \/ Start \/ Bind \/ CheckRoot \/ Collect \/ Compare \/ Close \/ Finish
        \/ \E c \in Shared : Change(c)
        \/ Cancel

Spec == Init /\ [][Next]_vars

--------------------------------------------------------------------------------
Accepted == phase = "done" /\ ~err

(* captureSource (capture_source.go:89-103): if no cell returns to an       *)
(* earlier value, an accepted capture is the worktree at one instant, the   *)
(* end of the first collection, and the root paths then named the           *)
(* directories that were bound; whatever changed before, between or after.  *)
ConsistentCopy ==
  Accepted /\ ~returned =>
              /\ \A r \in Reads \ (IndexHash..InspectHead) :
                   View(r, out[r]) = View(r, mid[CellOf[r]])
              /\ \A i \in 1..4 : bound[i] = mid[Roots[i]]

(* At that instant the worktree was the one the plan expected: HEAD and     *)
(* branch, index and administrative files (equalSourceWorktree).            *)
ExpectedSource ==
  Accepted /\ ~returned => \A c \in {"registration", "index", "admin"} : mid[c] = 0

(* Even when values recur, what an accepted capture holds of the expected   *)
(* registration and index is theirs, and its status has the expected counts *)
(* (selectSourceWorktree, validateSourceAdministrative, the status check).  *)
ExpectedParts ==
  Accepted => /\ out[List] = 0 /\ out[AdminIndex] = 0
              /\ \A r \in {StatusIndex, StatusTracked, StatusLeaves} : Shape[out[r]] = Shape[0]

(* The parts of an accepted capture fit the caller's byte budget together   *)
(* (sourceByteBudget).                                                      *)
WithinBudget ==
  Accepted => Bytes[out[List]] + Bytes[out[StatusLeaves]] + Bytes[out[StagedIndex]]
                + Bytes[out[UnstagedTracked]] + Bytes[out[AdminFiles]]
                + Bytes[out[AdminIndex]] + Bytes[out[Untracked]] <= MaximumBytes

(* A call that reports an error, one met while closing or a cancellation    *)
(* after the comparison included, returns no part of a capture; one that    *)
(* does not was never cancelled (capture_source.go:65-71).                  *)
NothingOnFailure ==
  phase = "done" => /\ err => out = Empty
                    /\ ~err => out = seen[1] /\ ~cancelled
================================================================================

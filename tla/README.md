# Treeclear in TLA+

Treeclear looks for Git worktrees that are no longer needed.  It reads the
repositories under a few roots, asks the machine which processes work in which
worktree, classifies every worktree as `Protected`, `Review` or `Safe`, and
keeps the answer as a signed *plan* that expires.  A second part, not yet wired
to a command, copies a worktree into a *snapshot bundle* before anything may be
removed.  No command of this version removes a worktree.

What can go wrong is not in the single steps.  It is in what happens between
them: other processes start, exit, move and edit files while Treeclear looks;
several Treeclear processes share one state directory; a write may stop half
way; a deadline passes with half of the answers in hand.  In all these cases the
program has one rule: **what is not known protects**, and what is returned or
published is complete or is not there.  This directory states that rule for each
part and checks it.

Run a model with `tlc -config X.cfg M` and a proof with `tlapm M.tla`, in this
directory.

## 1. Inventory

| component | state it keeps | operations | hard behaviour |
|---|---|---|---|
| private files (`fssecure/private*.go`, `export.go`) | a parent directory, a name, a staging file | write once, export, read | concurrent writers, kill, power loss, cleanup that fails |
| plan store (`plan/store.go`, `latest.go`, `integrity.go`) | `integrity.key`, `plans/<id>.json` | save, load, latest | first use by several processes, expiry during an operation, clock set back, damaged or misnamed files |
| commands (`cli/plan.go`, `explain.go`) | none | build, save, reload, export; load and explain | partial failure after the save |
| source capture (`snapshot/capture_source*.go`) | four pinned roots, two collections, a byte budget | bind, check, collect, compare, close | everything it reads changes meanwhile |
| plan builder (`plan/build.go`) | the plan under construction, its warnings | build | failures of known and unknown scope, deadlines |
| process collection (`process/*.go`) | two listings, evidence by worktree | list, inspect, resample, bind | processes that move, exit, start; PID reuse; what cannot be read |
| correlation, policy (`correlate`, `policy`) | none | group, evaluate | the order of overlapping tests, conflicting evidence |
| directory publication (`fssecure/directory*.go`) | staging directory, children | publish, clean up | crash, foreign changes, error after the rename |
| bundle (`snapshot/publish_bundle.go`, `read_bundle.go`, `fssecure/read_directory*.go`) | none | publish, read, verify | a directory that changes while it is read |
| readers (`snapshot/read_untracked*.go`, `read_administrative*.go`) | a walk and what it observed | read | a tree that changes while it is walked |
| git client (`git/client.go`, `readonly_index.go`) | none | list, inspect, status | an index that git would rewrite, identity that changes |
| discovery, inventory (`discovery`, `inventory`) | results of a pool of workers | find, load | one repository's failure protects another's worktrees |
| the rest | none | configuration, paths, parsing, rendering, digests | pure functions |

How they interact: `plan` calls the inventory, which calls discovery and the git
client; Build then calls the process collector, correlation and policy; the
command saves the plan through the store, which writes every file through
`fssecure`.  `explain` only reads the store.  Capture calls the git client and
both readers; a bundle is encoded from a capture and published through
`fssecure`.  Parts of one process call each other directly; processes meet only
in the file system, which is the shared state of every model except `PlanBuild`,
where it is the process table.  Within one process only the inventory runs
concurrently: its workers share the results, a channel and the list of
failures.

What makes each part correct:

- *private files*: a published name has a complete content and keeps it; a
  staging file stays with the writer at work on it; a report is true of the
  directory; every call ends.
- *plan store*: one key whoever made it first; answers are saved plans, current
  at the moment of the answer; Latest is the newest.
- *source capture*: what is accepted was there at one moment and is what was
  expected; a failure returns nothing.
- *plan builder and process collection*: no process at work is overlooked; a
  plan without an error missed nothing; a failure costs no worktree that it does
  not concern.
- *policy*: the documented classes, with one stated exception; evidence only
  ever protects.
- *directory publication, bundles*: a bundle is complete from the moment it has
  its name, and cleanup removes nothing that is not its own.
- *discovery and inventory*: a failure protects every worktree it may concern,
  whichever worker met it; an inventory without one is complete; every worker
  ends.
- *git client*: a complete description is of the worktree that was listed, its
  hashes vouch for its status, and git never touches a shared index.
- *readers*: what they return was there at one moment, within their limits.

## 2. Plan

Done, in the order of importance:

1. `WriteOnceFile`, `PrivateFile`: everything that is kept rests on them.
2. `PlanStore`, which uses what `WriteOnceFile` promises as one step.
3. `SourceCapture`.
4. `Policy` (operators), `Classification` (what Evaluate promises), `PlanBuild`
   (Build with the collector; it composes `Policy`).
5. `PrivateDirectory`: publication of a directory; it too implements
   `WriteOnceFile`.  `DirectoryRead` composes it with a reader.
6. `Discovery` and, extending it, `Inventory`: what `PlanBuild.Load` takes as an
   input.
7. `InspectWorktree`: what `Inventory` takes as one step and `SourceCapture` as
   six reads.
8. `TreeRead`: the two readers that `SourceCapture` takes as three reads.
9. Proofs of every safety property that the passing runs check, each for every
   value of the constants.

Next:

10. `Command`: preview validation and explain over `PlanBuild` and `PlanStore`.

## 3. Modules and how they correspond to the code

`PROJECT.json` maps every definition to its lines.

**`PrivateFile`** has one action per system call of `WritePrivateFile`,
`WritePrivateExport` and `ReadPrivateFile`.  `pc[w]` is the call a writer makes
next: lstat, mkdir, chmod, create, write, fsync, link, unlink.  Every call may
fail, a process may be killed between any two (`Crash`), and the machine may
lose power (`PowerLoss`): unsynced data and any directory entry may then be gone,
because this code never syncs the directory.  The content is reduced to its
length, permissions to *private* or *broad*.

**`WriteOnceFile`** is what callers may rely on: the name gets its content in
one step, is never replaced, and outcomes are honest.  `ImplementsWriteOnceFile`
is the refinement: `final` is the file, the outcome of a writer is read from its
`pc` and `err`.

**`PrivateDirectory`** is `PublishPrivateDirectory` on macOS.  The order of the
steps is the function `After`; a step is one operation (mkdir, create, write,
sync, rename, unlink, or a pass over the listing or a file) with the checks of
the code before and after it: the check before is in the guard (`Storage`,
`Listed`), the one after may fail (`Settle`).  A change by others between a check
and its operation shows at the next check, except before a removal, which has
none: `Recheck` and `Unlink` are therefore two steps.  A failure, a cancelled
context included, leads to the cleanup before the rename and to the closing
after it.  A file is what it holds and the change that made it so; its metadata
tell apart any two changes, as the kernel's change time does.  Others replace,
remove and edit files, names and the parent; a power loss takes back names and
contents that were not synced.  What a publisher's draw of random names means is
only whether the name is taken.

Publishers beyond the first are rivals of the first only (`MaxRivals` bounds how
many publish while others change things).

**`DirectoryRead`** extends it with `ReadPrivateDirectory` and `ReadBundle`: a
reader with a receipt opens the parent and the directory, lists, looks at, reads
and looks at every file, lists again, and verifies.  What it compares of a
directory is reduced to whether a name was added, removed or replaced since it
looked (`touched`), of a file to the state and the change that made it.  The
digest check is what it does: whatever is not the directory of the receipt, or
not whole, is refused.

**`PlanStore`** has several processes that run `plan` or `explain`.  An action is
one file operation, and each write is one `WriteOnceFile` publication.  A plan is
its identifier, times, builder and signing key; a key is named by the process
that drew it, so that two keys differ exactly when two processes drew them.

**`SourceCapture`** reduces the worktree to cells (registration, index,
administrative files, tracked files, untracked paths and their content, and four
root directories) and a collection to seventeen reads in the order of the code,
each of one cell.  `git status` reads three of them one after the other.  Values
are numbers; `Shape` is what the porcelain status shows of a value, because the
comparison of statuses sees no more.

**`Policy`** is `Evaluate` as a sequence of rungs: the first that holds decides.
**`Classification`** adds evidence piece by piece to any worktree.

**`PlanBuild`** is `Builder.Build`.  The world moves while processes are listed
(`Chdir`, `Exit`, `Spawn`, which may use a PID again) and deadlines pass at any
time.  `Enumerate`, `Verify`, `Inspect`, `Inspected`, `Resample` are the two
`Source`s, selected by the constant `Darwin`; `Resolve`, `Match`, `Collected` are
`Collector.Collect`; `Load` and `Judge` are Build before and after it.  A
process is its directory and the worktrees its command line lies in; a failure is
its *scope*, a set of worktrees, with the empty set meaning all of them, as in
`buildProcessProblems`.  What a PID listing may contain twice or in a malformed
form is folded into "the listing failed"; the stat calls of `evidenceFor` are
part of what an inspection may read.  The world does not move outside the
listing because nothing of it is read there.  The inventory is an input with any
facts and any failure; worktrees that Git could not describe come with one.
Agents and adapters are never given by Build in this version; `Classification`
covers Evaluate's treatment of them.

**`Discovery`** is `Finder.Find`.  Directories are numbered in the order of a
sorted depth-first walk, so the recursion is a set of pending directories of
which the least is next; `at` is the directory being considered and a marker is
the repository its `.git` leads to, or none, or something irregular.  What lies
above a directory is the closure of `Parent`, defined without recursion: what is
in every set that is closed upwards (`Upward`, `LiesIn`).  A root that is itself
excluded, in the data directory or below an ignored one, is passed over.  The
second look `walk` takes at the entries beside a `.git` directory is one with its
first look at the child: a failure of either is recorded under the child's path and
passes it over (for a child that would be passed over anyway the code records one
failure more than the model).  Each step
is one read or one run of git (`ListWorktrees` included) and may fail; the path
it is recorded under goes to `incomplete`, and what is really in doubt to the
history variable `trouble`.  Others remove trees, make directories, write
markers and register worktrees (`Others`), and the context may end.

**`Inventory`** extends it with `Loader.Load`: `Identify` verifies what was found,
`Start` starts some of the `Workers` (the code starts as many as there are
processors, repositories, at most eight), `Send` is the rendezvous on the
unbuffered channel, `Close` its end.  A worker lists a repository and takes its
worktrees one by one: locate, inspect, measure.  A worktree is reduced to
`free`, that is safe and known, since nothing else decides about it (`Current`
and the path checks are part of what makes it not free).  Inspecting is what
`InspectWorktree` does seen from outside; measuring a tree is one step.  `Merge` is the
end of `Load` after `workers.Wait`.

**`InspectWorktree`** is `Client.InspectWorktree`, one action per run of git or
read of a file.  git finds its way from the path again in every run, so the
world is where the marker leads, what each administrative directory holds, and
which repository lies at the repository root.  A registration that was pruned is
a marker that leads nowhere.  `Probe`, `CheckShared` and `RunIndexCommand` are
the preflight of `run` and the command behind it, for `ls-files` and for
`status`; an answer of a single run of git is one step.  History variables: the
markers there were (`past`, `returned`), the administrative directories that
answered (`acted`), what changed since the preflight (`fresh`).

**`TreeRead`** is `ReadAdministrative` (all of a tree) and `ReadUntracked` (selected
leaves), which share their shape.  Objects have identities, as files have; a
directory that was opened stays what it is when its name is given to another.
`checks` holds the comparisons the code makes before it goes on, each a step of
its own; `seen` the observations to be made again at the end.  No directory lies
below itself, so no path is longer than the bound of the tree (`Shallow`); others
keep to that.  A modification
time is the change that made it: whoever restores the time after a change is
left out, as the plan of the readers leaves him out
(`docs/plans/001-treeclear-core.md`).  A write replaces all of a content; permission
bits, text limits and the spelling of names are left out.

## 4. Runs

| run | question | bounds, and why they are enough |
|---|---|---|
| `private_file` | is what has a name complete, for good, and reported truly? does a writer keep its staging file? does every call end? | two writers (a winner and a loser), one reader, two names (so that every draw may collide once the other writer holds or left one), two tries, one power loss: every race here is between two |
| `plan_store` | do processes agree on one key and answer with saved, current, newest plans? | three processes: one that lists, one that saves, one that races for the key; two identifiers; three instants, so that a plan can expire in between; the clock may be set back at any step |
| `plan_store_expiry` | does Latest find an unexpired plan? (**violated**) | two lifetimes: the newest expires first |
| `source_capture` | is an accepted capture the worktree of one moment, and what survives changes that are undone? | three values and three changes of any cells: one for each collection, and one that puts a value back between them; of the four roots, treated alike, one is replaced; a budget one byte above the smallest capture |
| `plan_build` | is every process at work found, and does a failure stay local? | two processes, two worktrees and the outside, one move: two enumerations can differ by one move only in the ways one move makes |
| `plan_build_darwin` | is every process found, and none missed in silence, under resampling? | two PIDs, three moves: enough to change the table before each of the three attempts, and to use a PID again |
| `plan_build_hints` | does a readable directory matter? (**violated**) | no moves needed |
| `classification` | the documented classes but for unsigned adapters, monotone evidence | any two pieces of evidence: the only test that looks at two is the conflict |
| `directory` | is a bundle under its name complete, for good, published once? is a receipt true, does the cleanup spare what is not the publisher's, and is what is read there? | two publishers (a winner and a loser) and one reader; two files, so that one may be removed or read before the other is found changed; one power loss at any step; two changes by others, one before and one after a check, while one publishes (`MaxRivals = 1`) |
| `inventory` | is a silent inventory complete? does every failure protect what it concerns? does Load end? | seven directories: two repositories, a linked worktree, a common directory kept inside the other repository, an ignored directory with a marker, and one that nobody has made yet; five requests, one with a root that is excluded; one change, one failing read and the end of the context at any step; two workers |
| `inspect` | is a complete description that of the listed worktree, as hashed? | two repositories and a linked worktree; main and linked, attached and detached; two changes: away and back, or before and after a check |
| `tree_read` | is what a reader returns the tree of one moment, within the limits? | a root, a directory, a file, a file or a link, and two objects elsewhere to be moved in; five selections; paths of at most four names, which no tree of these objects exceeds; two changes; limits that the first tree nearly meets |

Deadlock checking is off: every model ends when its calls have returned.

Fairness appears in `private_file` and `inventory` only: weak fairness on the steps
of each writer and reader, and on those of Load and of each worker.  The
operating system schedules every process and the runtime every goroutine that
can run; each step is a system call that returns or a run of git, which has a
time limit of its own.  Nothing is assumed about the names drawn (the bound of
the retry is what ends the loop), and nothing about the other processes.

The other properties are safety; that the remaining models stop is the bound of
their loops.  The largest runs take one to two minutes.

### Findings

- `plan_store_expiry`: Latest keeps the newest plan that was unexpired when it
  was loaded and validates only that one again.  If it expires in between, the
  answer is "expired" although an older plan is still unexpired; `README.md:133`
  promises the newest unexpired one.
- `plan_build_hints`: when a process's directory cannot be read, the worktrees
  of its executable and arguments are taken instead.  If it works in another
  worktree, that one gets no evidence and may be `Safe`, in a plan that does
  report an incomplete collection.  The architecture document protects whenever
  relevance cannot be excluded.  `LiveProcessProtects` is therefore stated for
  processes whose command line does not mislead, and `FailureStaysLocal` demands
  nothing for a worktree when the directory of some process could not be read.

A third disagreement of code and document is part of a property that holds,
`DocumentedButUnsigned`.  The document lists an *unsigned* required adapter among
the reasons to protect (`docs/architecture/2026-09-12-treeclear.md:511`), and its
evidence is marked untrusted (`:928`).  Evaluate asks for trust after all of its
reasons to protect (`evaluate.go:52`), so that an untrusted adapter alone makes a
worktree `Review`, never `Protected`.  The property says so for this one case and
demands the documented class in every other.  What the document says of snapshots
(`:513`, `:547`) and orphaned directories is no input of Evaluate: the plans of this
version require no snapshot (`:958`).

## 5. Proofs

All theorems hold for every value of the constants that satisfies the named
assumptions; those only say what the constants are (numbers are natural numbers,
special values are not ordinary ones, git lists main worktrees) and TLC evaluates
them in every run.

- `PrivateFileProofs`.  The invariant says of each writer what its position in
  the code implies: its staging name names its own file until it removes it, its
  data is complete once written and synced before it is linked, and its report
  matches the directory.  Power loss keeps it because only synced files are ever
  linked.  As long as anybody has a staging name the directory is private
  (`PrivateInv`) and not empty, so it cannot be removed.  From these: complete
  reads, true reports, staging files that stay, no replacement, and the
  refinement of `WriteOnceFile`, step by step.
- `PlanStoreProofs`.  The invariant: a key, once there, is the one every process
  holds from then on, and every stored document that is not damaged is signed
  with it by the process that built it.  `AnswersAreCurrent` needs no assumption
  on the clock; `LatestNewest` is about the plans that never expired on any clock
  reading, with a second invariant on what the process that lists has still to load.
- `SourceCaptureProofs`.  The invariant: reads happen in order, completed
  comparisons hold, the result is empty after an error.  Consistency needs a
  second one: until a value returns, a cell whose two observations agree has
  not changed between them, and the end of the first collection lies between.
  The budget needs a third: what has been charged in a collection is the sum of
  the parts read so far (`BudgetInv`).
- `PlanBuildProofs`, on Evaluate.  The first rung that holds decides
  (`FirstRungDecides`); use or doubt protects; the rungs that hold keep holding
  when evidence is added, so evidence only protects (`EvidenceProtects`); and
  each class is the one of the architecture document's lists
  (`ClassesAsDocumented`), rung by rung, for any facts and evidence, but for the
  unsigned adapter that section 4 names.
- `PlanBuildProofs`, on Build.  Call a process *steady* if it has neither moved nor started
  since the listing began.  The invariant follows it through Build: what was read
  of it is what it is (`SeenInv`); the listing contains it or is incomplete
  (`ListedInv`); it left its evidence in the worktrees it was bound to
  (`BoundInv`); worktrees that could not be resolved are marked (`MarkedInv`).
  On Darwin births are numbered (`BornInv`), so an unchanged table means that
  nothing started.  Doubt of unknown scope reaches every worktree
  (`DoubtEverywhere`), evidence reaches its own (`BoundEvidenceProtects`), and
  together they protect.

  That a failure stays local is a second argument in the opposite direction
  (`LocalInv`): whatever the collection holds, a process put it there; if none
  of them could be near a worktree, nothing there concerns it (`Untouched`), so
  Evaluate falls through to its last rung (`NothingIsSafe`).
- `InspectWorktreeProofs`.  While no marker was put back, the marker leads to the
  administrative directory found at the beginning or it can never lead there
  again (`OnAdm`); the second routing check therefore vouches for all answers
  between.  The hashes: indices are numbered by the changes that made them, so
  an index that still has its hash after the status had it before.  The shared
  index: since the check of the command at hand, what has become different is
  `fresh`.
- `InventoryProofs`.  A repository is to be sent, or with one worker, or done
  (`WorkInv`), so no slot of the results has two writers; every path in trouble
  has been recorded by the step that met it (`RecordInv`); and nobody works any
  more when the results are put together.  The walk's own invariant (`WalkInv`)
  says that it always has somewhere to go.  From the assumption that git lists
  the main worktree of a repository.

  A worktree counts as free only after its tree was measured, and then had no
  marker inside; whoever puts one there later touches the directory it is in
  (`InsideInv`, with `TreeInv`: what nobody touched stays as it was).

  That a silent inventory is complete follows the walk while nothing fails
  (`Quiet`).  `WalkedInv` says what is still ahead: every root is visited or
  pending or excluded, every entry of a directory that was entered is too
  (`EnteredInv`), every visited member of a repository made it known
  (`MembersInv`), and the search upwards from a root passes every ancestor
  (`UpwardInv`).  `LoadInv` continues it: what is known is sent, listed and has
  an item for every worktree that was registered all the time.  The proof
  showed one exception that the property now names: a root that is excluded is
  passed over without a word (`repositories.go:166`), as
  `docs/development.md:109` has it.

  `NothingUnknownInSilence` is what `PlanBuild.Load` has as its guard: a worktree
  that is not both safe and known comes with a failure.  The step that makes an
  item unfree reports it (`ReportedInv`), and what the final protection takes
  away is silent in no case.
- `PrivateDirectoryProofs`.  `ControlInv` says what a publisher knows at each
  step; `FilledInv` how far its files have got: created, written, synced, sealed,
  listed.  Its directory is under no name but its own or the final one
  (`PlaceInv`); while nobody else changed anything, it is there and complete
  when it is renamed, and stays so (`CalmInv`, with `DestInv` for what a power
  loss brings back); once the parent was synced after the rename, a power loss
  cannot take it back (`KeptInv`).  The cleanup has sealed whatever it is about
  to remove, which is as it was sealed unless touched since the last check
  (`UntouchedInv`).  Hence wholeness, true receipts, a cleanup that removes only
  what is the publisher's, the recovery copy that stays, and the refinement of
  `WriteOnceFile`.  The reader's invariant adds what it has looked at
  (`LookInv`), opened (`OpenInv`) and read (`GotInv`).
- `TreeReadProofs`.  `WorldInv`: a later change has a later time, so an object
  with the same time is the same.  `ToldInv`: every observation was true when it
  was made.  `ShapeInv`: where the reader is, and what is still ahead of it.
  `ReadInv` is the argument: *if* nothing that was observed has changed since,
  and the handles still to be compared are of what was observed (`Undeceived`),
  then what was read so far is a part of the tree there is, and every wanted
  name in a directory that was entered is read, or waits in a frame (`Good`).
  Each path is led to by a chain of observed objects (`Leads`), so a change
  anywhere on it would show; that a path of the tree has such a chain goes by
  its beginnings, and `Shallow` bounds them.  `AgainInv` follows the second look:
  what is still to be compared decides whether the entries are the tree of the
  moment at which it began.  A wrong guess during the walk need not be refuted
  at once; it only has to be refuted before the result is returned.

  The limits are three invariants.  What is still to be read of a file was free
  when the file was opened (`BytesInv`).  ReadAdministrative reserves every name
  before it waits, so entries, names that wait and the one at hand together are
  no more than the reservations (`ReservedInv`).  ReadUntracked reserves nothing
  while it reads; no selected path is read twice (`OnceInv`: the paths that wait
  lie apart and nothing was read of or below them), so there are at most as many
  entries as selected paths and parents.

Only model-checked: `WritersEnd` and `LoadEnds`, which are liveness under fairness.
That, ENABLED and induction over recursively defined data are beyond the prover
and stay with TLC.  Two definitions were therefore written without recursion: the
directories above one, and the object a path leads to is a function along the
path.

## 6. Not modelled

Windows security descriptors, kernel buffers, encodings, parsers, digests,
rendering, configuration and paths are functions without state; their tests and
fuzz tests are the right tool, and the models take their results as inputs.  Test
helpers model nothing.  `RemoveWorktree` has no caller.  The command that previews
a plan is listed under "Next" in section 2.

`PrivateDirectory` shows what the syncs of the code are for under a file system
that keeps what was synced; the documents make no such claim for any hardware.
Who restores a modification time, or puts back a marker between two steps,
deceives the readers and the inspection; the models say where they assume that
nobody does.

Effects outside of the models that exist: the loss of the key file while plans
survive a power loss (the plans then fail to authenticate, none is accepted
wrongly), and the age of the Git state a plan is judged on (a plan is a preview;
whatever acts on it has to look again).

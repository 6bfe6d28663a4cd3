------------------------------- MODULE Inventory -------------------------------
(***************************************************************************)
(* inventory.Loader.Load: after the discovery, a few workers list and      *)
(* inspect the worktrees of the repositories found, handed to them over an *)
(* unbuffered channel; when all have ended, whatever failed anywhere       *)
(* protects the worktrees it may concern.                                  *)
(*                                                                         *)
(* A worktree is free when it is safe and known (PathSafe, GitStateKnown): *)
(* only a free one may be offered for removal.                             *)
(***************************************************************************)
EXTENDS Discovery

CONSTANTS Workers

ASSUME WorkersAssumption == Workers # {} /\ IsFiniteSet(Workers)

VARIABLES unique,    \* repositories whose directories have been verified
          cwdKnown,
          jobs,      \* repositories not yet sent to a worker
          worker,    \* what each worker is doing
          results,   \* worktrees loaded for each repository
          reported,  \* some failure that concerns one worktree has been reported
          out        \* what Load returns

loadVars == <<unique, cwdKnown, jobs, worker, results, reported, out>>
vars == <<discoveryVars, loadVars>>

NotStarted == [step |-> "gone", job |-> NoRepo, listed |-> NoRepo, left |-> {}]
Idle       == [NotStarted EXCEPT !.step = "idle"]

Init ==
  /\ InitDiscovery
  /\ unique = {} /\ cwdKnown = TRUE /\ jobs = {} /\ worker = [w \in Workers |-> NotStarted]
  /\ results = [r \in Repos |-> {}] /\ reported = FALSE
  /\ out = [worktrees |-> {}, silent |-> FALSE]

Discover == Find /\ UNCHANGED loadVars

--------------------------------------------------------------------------------
FirstRepo(R) == CHOOSE r \in R : \A q \in R : Primary[r] <= Primary[q]

Return(W, silent) == pc' = "done" /\ out' = [worktrees |-> W, silent |-> silent]

(* The repositories found are verified once more.                          *)
Identify ==
  /\ pc = "identify" /\ found # {}
  /\ LET r == FirstRepo(found) IN
     /\ found' = found \ {r}
     /\ \/ /\ Present(Primary[r]) /\ Present(Common[r])
           /\ unique' = unique \cup {r} /\ NoFault /\ NoFailure
        \/ /\ ~(Present(Primary[r]) /\ Present(Common[r]))
           /\ Record(IF Present(Common[r]) THEN Common[r] ELSE Primary[r])
           /\ NoFault /\ UNCHANGED unique
        \/ \E p \in {Primary[r], Common[r]} : Fault({p}) /\ Record(p) /\ UNCHANGED unique
  /\ UNCHANGED <<world, pc, roots, pending, at, visited, anchor, cwdKnown, jobs, worker,
                 results, reported, out>>

(* Nothing was found, or the working directory is looked up and the        *)
(* workers are started.                                                    *)
Start ==
  /\ pc = "identify" /\ found = {}
  /\ IF unique = {} THEN /\ Return({}, incomplete = {}) /\ NoFault
                         /\ UNCHANGED <<cwdKnown, jobs, worker>>
     ELSE /\ \/ cwdKnown' = Present(request.cwd) /\ NoFault
             \/ cwdKnown' = FALSE /\ Fault({})
          /\ \E W \in SUBSET Workers :
               /\ 0 < Cardinality(W) /\ Cardinality(W) <= Cardinality(unique)
               /\ worker' = [w \in Workers |-> IF w \in W THEN Idle ELSE NotStarted]
          /\ jobs' = unique /\ pc' = "feed" /\ UNCHANGED out
  /\ UNCHANGED <<world, findVars, incomplete, unique, results, reported>>

(* Mutant: the repository remains to be sent.                              *)
SendAgain(w) ==
  /\ pc = "feed" /\ jobs # {} /\ worker[w].step = "idle"
  /\ worker' = [worker EXCEPT ![w] = [Idle EXCEPT !.step = "list", !.job = FirstRepo(jobs)]]
  /\ UNCHANGED <<discoveryVars, unique, cwdKnown, jobs, results, reported, out>>

(* A repository is handed to a worker that is waiting for one, and when    *)
(* none is left the channel is closed.                                     *)
Send(w) ==
  /\ pc = "feed" /\ jobs # {} /\ worker[w].step = "idle"
  /\ jobs' = jobs \ {FirstRepo(jobs)}
  /\ worker' = [worker EXCEPT ![w] = [Idle EXCEPT !.step = "list", !.job = FirstRepo(jobs)]]
  /\ UNCHANGED <<discoveryVars, unique, cwdKnown, results, reported, out>>

Close ==
  /\ pc = "feed" /\ jobs = {}
  /\ pc' = "wait"
  /\ UNCHANGED <<world, faults, trouble, findVars, incomplete, loadVars>>

--------------------------------------------------------------------------------
othersOfWorker == <<world, pc, findVars, unique, cwdKnown, jobs, out>>

Exit(w) ==
  /\ worker[w].step = "idle" /\ pc = "wait"
  /\ worker' = [worker EXCEPT ![w] = NotStarted]
  /\ UNCHANGED <<results, reported, faults, trouble, incomplete, othersOfWorker>>

(* Mutant: the failure is only reported.                                   *)
ListReports(w) ==
  /\ worker[w].step = "list"
  /\ LET r == worker[w].job  q == GitRepo(Primary[r]) IN
     \/ /\ ~cancelled /\ q # NoRepo /\ NoFault /\ UNCHANGED reported
        /\ worker' = [worker EXCEPT ![w].step = "locate", ![w].listed = q,
                                    ![w].left = registered[q]]
     \/ /\ \/ (cancelled \/ q = NoRepo) /\ NoFault
           \/ Fault({Primary[r]})
        /\ reported' = TRUE
        /\ worker' = [worker EXCEPT ![w] = Idle]
  /\ UNCHANGED <<results, incomplete, othersOfWorker>>

(* loadRepository: without a list, the failure is one of the repository.   *)
(* (Client.ListWorktrees returns no worktrees with an error, so there are   *)
(* none to be listed as protected.)                                        *)
List(w) ==
  /\ worker[w].step = "list"
  /\ LET r == worker[w].job  q == GitRepo(Primary[r]) IN
     \/ /\ ~cancelled /\ q # NoRepo /\ NoFault /\ NoFailure
        /\ worker' = [worker EXCEPT ![w].step = "locate", ![w].listed = q,
                                    ![w].left = registered[q]]
     \/ /\ \/ (cancelled \/ q = NoRepo) /\ NoFault
           \/ Fault({Primary[r]})
        /\ Record(Primary[r])
        /\ worker' = [worker EXCEPT ![w] = Idle]
  /\ UNCHANGED <<results, reported, othersOfWorker>>

(* The worktree a worker is at; what is known of it is added to the list,  *)
(* and after the last the worker takes the next repository.                *)
Path(w) == Least(worker[w].left)

(* Mutant: a worker takes one repository only.                             *)
NextPathOrEnd(w) ==
  LET left == worker[w].left \ {Path(w)} IN
  IF left = {} THEN NotStarted ELSE [worker[w] EXCEPT !.step = "locate", !.left = left]

NextPath(w) ==
  LET left == worker[w].left \ {Path(w)} IN
  IF left = {} THEN Idle ELSE [worker[w] EXCEPT !.step = "locate", !.left = left]

Finish(w, free) ==
  /\ results' = [results EXCEPT ![worker[w].job] =
                  @ \cup {[path |-> Path(w), repo |-> worker[w].listed, free |-> free]}]
  /\ reported' = (reported \/ ~free)
  /\ worker' = [worker EXCEPT ![w] = NextPath(w)]

GoOn(w, step) == worker' = [worker EXCEPT ![w].step = step] /\ UNCHANGED <<results, reported>>

(* enrich up to the inspection: the path, the identity, the data directory *)
(* and the marker.                                                         *)
Locatable(w) ==
  LET d == Path(w) IN
  /\ d \in exists /\ ~cancelled
  /\ worker[w].listed = worker[w].job
  /\ Present(Primary[worker[w].job]) /\ Present(Common[worker[w].job])
  /\ request.data # NoDir => ~Overlap(d, request.data)
  /\ marker[d] \notin {NoRepo, Irregular}

Locate(w) ==
  /\ worker[w].step = "locate"
  /\ \/ Locatable(w) /\ NoFault /\ GoOn(w, "inspect")
     \/ ~Locatable(w) /\ NoFault /\ Finish(w, FALSE)
     \/ Fault({}) /\ Finish(w, FALSE)
  /\ NoFailure /\ UNCHANGED othersOfWorker

(* InspectWorktree as seen from here: it is complete only for a worktree   *)
(* that still belongs to the repository, and may be incomplete for any     *)
(* reason of its own.                                                      *)
Inspectable(w) ==
  LET d == Path(w)  r == worker[w].job IN
  /\ d \in exists /\ ~cancelled
  /\ marker[d] = r /\ d \in registered[r]
  /\ GitRepo(d) = r /\ GitRepo(Primary[r]) = r

Inspect(w) ==
  /\ worker[w].step = "inspect"
  /\ \/ Inspectable(w) /\ GoOn(w, "measure")
     \/ Finish(w, FALSE)
  /\ NoFault /\ NoFailure /\ UNCHANGED othersOfWorker

(* estimateBytes: everything below the worktree is visited, the ignored    *)
(* directories included, and no other marker may be met.                   *)
Below(d) == {e \in exists \ {d} : Contains(d, e)}

(* Mutant: what the discovery ignores is not measured either.              *)
MeasurableUnignored(w) ==
  /\ Path(w) \in exists /\ ~cancelled
  /\ \A e \in Below(Path(w)) \ Ignored : marker[e] = NoRepo

Measurable(w) ==
  /\ Path(w) \in exists /\ ~cancelled
  /\ \A e \in Below(Path(w)) : marker[e] = NoRepo

Measure(w) ==
  /\ worker[w].step = "measure"
  /\ \/ Measurable(w) /\ NoFault /\ Finish(w, TRUE)
     \/ ~Measurable(w) /\ NoFault /\ Finish(w, FALSE)
     \/ Fault({}) /\ Finish(w, FALSE)
  /\ NoFailure /\ UNCHANGED othersOfWorker

Work(w) == Exit(w) \/ List(w) \/ Locate(w) \/ Inspect(w) \/ Measure(w)

--------------------------------------------------------------------------------
Loaded == UNION {results[r] : r \in unique}

(* What protects a worktree in the end, wherever it was met.               *)
NearFailure(t) ==
  \E p \in incomplete : Overlap(t.path, p) \/ Overlap(Common[t.repo], p)

(* Mutant: only a worktree inside of metadata, not one around it.          *)
InMetadataOnly(t) ==
  \E r \in unique : /\ ~(t.path = Primary[t.repo] /\ r = t.repo)
                    /\ Contains(Common[r], t.path)

InMetadata(t) ==
  \E r \in unique : /\ ~(t.path = Primary[t.repo] /\ r = t.repo)
                    /\ Overlap(t.path, Common[r])
Overlapped(t) == \E u \in Loaded \ {t} : Overlap(t.path, u.path)

Protected(t) == \/ cancelled \/ ~cwdKnown
                \/ NearFailure(t) \/ InMetadata(t) \/ Overlapped(t)

(* Mutant: without workers.Wait.                                           *)
MergeEarly ==
  /\ pc = "wait"
  /\ Return({[t EXCEPT !.free = @ /\ ~Protected(t)] : t \in Loaded},
            /\ incomplete = {} /\ ~reported /\ ~cancelled /\ cwdKnown
            /\ \A t \in Loaded : ~InMetadata(t) /\ ~Overlapped(t))
  /\ UNCHANGED <<world, faults, trouble, findVars, incomplete, unique, cwdKnown, jobs, worker,
                 results, reported>>

(* workers.Wait, and then the worktrees are put together.                  *)
Merge ==
  /\ pc = "wait" /\ \A w \in Workers : worker[w].step = "gone"
  /\ Return({[t EXCEPT !.free = @ /\ ~Protected(t)] : t \in Loaded},
            /\ incomplete = {} /\ ~reported /\ ~cancelled /\ cwdKnown
            /\ \A t \in Loaded : ~InMetadata(t) /\ ~Overlapped(t))
  /\ UNCHANGED <<world, faults, trouble, findVars, incomplete, unique, cwdKnown, jobs, worker,
                 results, reported>>

Load == Discover \/ Identify \/ Start \/ (\E w \in Workers : Send(w)) \/ Close \/ Merge

Next == \/ Load
        \/ \E w \in Workers : Work(w)
        \/ Others /\ pc # "done" /\ UNCHANGED loadVars

--------------------------------------------------------------------------------
Items == [path : Dirs, repo : Repos, free : BOOLEAN]

(* The types; and no repository is with two workers, or still to be sent   *)
(* when one has it, so that every slot of the results has one writer.      *)
TypeOK ==
  /\ found \in SUBSET Repos /\ unique \in SUBSET Repos /\ jobs \in SUBSET unique
  /\ pending \in SUBSET Dirs /\ visited \in SUBSET Dirs /\ incomplete \in SUBSET Paths
  /\ results \in [Repos -> SUBSET Items]
  /\ \A w \in Workers :
       /\ worker[w].step \in {"gone", "idle", "list", "locate", "inspect", "measure"}
       /\ worker[w].job = NoRepo <=> worker[w].step \in {"gone", "idle"}
       /\ worker[w].job # NoRepo =>
            /\ worker[w].job \in unique \ jobs
            /\ \A v \in Workers \ {w} : worker[v].job # worker[w].job

Free == {t \in out.worktrees : t.free}

(* What was found and stayed as it was on the way from one directory down  *)
(* to another.                                                             *)
Untouched(a, b) == {e \in Dirs : Contains(a, e) /\ Contains(e, b)} \cap changed = {}

(* The repository metadata that lies in a worktree, wherever it lies and   *)
(* whether or not the walk enters it, keeps the worktree from being free   *)
(* (load.go:306-315, 158-167).                                             *)
NothingInsideIsFree ==
  pc = "done" =>
    \A t \in Free :
      /\ \A d \in Below(t.path) : marker[d] # NoRepo => ~Untouched(t.path, d)
      /\ \A r \in unique : Contains(t.path, Common[r]) => t.path = Primary[r]

(* A repository can be found from any of its worktrees that the walk       *)
(* reaches, or that a root lies in; an excluded root is passed over, and   *)
(* what it lies in is not looked at (repositories.go:164-166).             *)
Reached(d) ==
  \E a \in request.roots :
    \/ Contains(a, d) /\ Untouched(a, d) /\ Above[d] \cap exists = Above[d]
    \/ /\ Contains(d, a) /\ Untouched(d, a) /\ faults = 0 /\ a \in exists /\ ~Excluded(a)
       /\ \A e \in Dirs : Contains(d, e) /\ Contains(e, a) /\ e # d => marker[e] = NoRepo

Steady(p) == IF p \in Dirs THEN Untouched(p, p) ELSE Untouched(-p, -p)

(* When Load reports no failure, all the worktrees of every repository     *)
(* that could be found have been loaded.                                   *)
SilentInventoryIsComplete ==
  pc = "done" /\ out.silent =>
    \A r \in Repos, d \in Dirs :
      /\ Reached(d) /\ marker[d] = r /\ d \in registered[r]
      /\ ~Excluded(d) /\ ~Excluded(Primary[r])
      /\ request.data # NoDir => ~Contains(request.data, Common[r])
      /\ \A p \in {Primary[r], Common[r]} : Present(p) /\ Steady(p)
      /\ marker[Primary[r]] = r
      => \A e \in registered[r] \ changed : \E t \in out.worktrees : t.path = e /\ t.repo = r

(* A failure in one repository, or of the walk, protects the worktrees of  *)
(* all repositories that its path overlaps (load.go:131, 152-157); the end *)
(* of the context and an unknown working directory protect all.            *)
FailuresProtect ==
  pc = "done" =>
    \A t \in Free :
      /\ ~cancelled /\ cwdKnown
      /\ \A p \in trouble : ~Overlap(t.path, p) /\ ~Overlap(Common[t.repo], p)

(* Load ends, however many workers there are and whatever fails.           *)
LoadEnds == <>(pc = "done")

Spec == Init /\ [][Next]_vars /\ WF_vars(Load) /\ \A w \in Workers : WF_vars(Work(w))
================================================================================

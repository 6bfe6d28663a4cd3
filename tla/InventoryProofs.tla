---------------------------- MODULE InventoryProofs ----------------------------
(***************************************************************************)
(* Inventory for any tree, repositories, number of workers, changes and    *)
(* reads that fail: every slot of the results has one writer, what failed  *)
(* anywhere protects the worktrees that it concerns, metadata protects the *)
(* worktree it lies in, and an inventory without a failure is complete.    *)
(***************************************************************************)
EXTENDS Inventory, WellFoundedInduction, TLAPS

USE TreeAssumption

(* git lists the main worktree of a repository, whatever the others.       *)
WorldInv == /\ exists \in SUBSET Dirs /\ registered \in [Repos -> SUBSET Dirs]
            /\ \A r \in Repos : Primary[r] \in registered[r]
            /\ request \in Requests

(* The walk is somewhere, and has somewhere to go.                         *)
Walking == {"ancestors", "walk", "common", "anchor", "read"}

WalkInv == /\ roots \in SUBSET Dirs /\ pending \in SUBSET Dirs /\ visited \in SUBSET Dirs
           /\ found \in SUBSET Repos
           /\ roots = {} \/ pc \in Walking \ {"walk"} => at \in Dirs
           /\ pc \in Walking => pending # {}
           /\ pc = "anchor" => anchor \in Repos

(* Every failure is recorded where it happened.                            *)
RecordInv == incomplete \in SUBSET Paths /\ trouble \subseteq incomplete

Busy == {"locate", "inspect", "measure"}

(* A repository is with one worker, or to be sent, or neither; there are   *)
(* workers only while Load feeds them or waits for them.                   *)
WorkInv ==
  /\ unique \in SUBSET Repos /\ jobs \in SUBSET unique
  /\ results \in [Repos -> SUBSET Items]
  /\ worker \in [Workers -> [step   : {"gone", "idle", "list"} \cup Busy,
                             job    : Repos \cup {NoRepo},
                             listed : Repos \cup {NoRepo},
                             left   : SUBSET Dirs]]
  /\ \A w \in Workers :
       /\ worker[w].job = NoRepo <=> worker[w].step \in {"gone", "idle"}
       /\ worker[w].job # NoRepo =>
            /\ worker[w].job \in unique \ jobs
            /\ \A v \in Workers \ {w} : worker[v].job # worker[w].job
       /\ worker[w].step \in Busy => worker[w].listed \in Repos /\ worker[w].left # {}
  /\ pc \notin {"feed", "wait"} => \A w \in Workers : worker[w].step = "gone"


--------------------------------------------------------------------------------
(* What is chosen.                                                         *)
LEMMA LeastNatural ==
  ASSUME NEW T \in SUBSET Nat, T # {}
  PROVE  \E m \in T : \A k \in T : m <= k
<1>1. \E m \in T : \A k \in T : <<k, m>> \notin OpToRel(<, Nat)
  BY NatLessThanWellFounded, WFMin
<1>2. PICK m \in T : \A k \in T : <<k, m>> \notin OpToRel(<, Nat)
  BY <1>1
<1>3. \A k \in T : k < m => <<k, m>> \in OpToRel(<, Nat)
  BY DEF OpToRel
<1>4. \A k \in T : ~(k < m)
  BY <1>2, <1>3
<1>5. \A k \in T : k \in Nat /\ m \in Nat
  OBVIOUS
<1>6. \A k \in T : m <= k
  BY <1>4, <1>5
<1>. QED BY <1>6

LEMMA LeastIsThere == ASSUME NEW D \in SUBSET Dirs, D # {} PROVE Least(D) \in D
<1>1. \E d \in D : \A e \in D : d <= e
  BY LeastNatural
<1>. QED BY <1>1 DEF Least

LEMMA FirstRepoIsThere == ASSUME NEW R \in SUBSET Repos, R # {} PROVE FirstRepo(R) \in R
<1>. DEFINE T == {Primary[r] : r \in R}
<1>1. \A r \in Repos : Primary[r] \in Nat
  BY TreeAssumption
<1>2. T \in SUBSET Nat /\ T # {}
  BY <1>1
<1>3. PICK m \in T : \A k \in T : m <= k
  BY <1>2, LeastNatural
<1>4. \E r \in R : \A q \in R : Primary[r] <= Primary[q]
  BY <1>3
<1>. QED BY <1>4 DEF FirstRepo

LEMMA GitRepoType == ASSUME NEW d PROVE GitRepo(d) \in Repos \cup {NoRepo}
BY DEF GitRepo

LEMMA PathsType == Dirs \subseteq Paths /\ \A d \in Dirs : -d \in Paths
BY DEF Paths

--------------------------------------------------------------------------------
(* The walk leaves the world and the workers alone.                        *)
Finding == {"start", "roots"} \cup Walking

LEMMA FindFrame == ASSUME Find PROVE pc \in Finding /\ UNCHANGED world
BY DEF Find, Exclude, NextRoot, Ancestors, Walk, ConsiderCommon, ConsiderAnchor, ReadDirectory,
       Finding, Walking

LEMMA WorkFrame == ASSUME NEW w \in Workers, Work(w) PROVE UNCHANGED othersOfWorker
BY DEF Work, Exit, List, Locate, Inspect, Measure

(* The steps of Load after the walk.                                       *)
Feeding == Identify \/ Start \/ (\E w \in Workers : Send(w)) \/ Close \/ Merge

LEMMA FeedingFrame == ASSUME Feeding PROVE UNCHANGED world
BY DEF Feeding, Identify, Start, Send, Close, Merge, discoveryVars

LEMMA WorldStep == WorldInv /\ [Next]_vars => WorldInv'
<1>. SUFFICES ASSUME WorldInv, [Next]_vars PROVE WorldInv'
  OBVIOUS
<1>1. CASE UNCHANGED world
  BY <1>1 DEF WorldInv, world
<1>2. CASE Others
  <2>1. UNCHANGED request
    BY <1>2 DEF Others, RemoveTree, MakeDirectory, Mark, Register, Cancel, otherVars
  <2>2. exists' \in SUBSET Dirs
    BY <1>2 DEF WorldInv, Others, RemoveTree, MakeDirectory, Mark, Register, Cancel
  <2>3. ASSUME NEW r \in Repos, NEW d \in Dirs, Register(r, d)
        PROVE  registered' \in [Repos -> SUBSET Dirs] /\ \A q \in Repos : Primary[q] \in registered'[q]
    <3>1. d # Primary[r]
      BY <2>3 DEF Register
    <3>2. registered' = [registered EXCEPT ![r] = IF d \in registered[r] THEN registered[r] \ {d}
                                                  ELSE registered[r] \cup {d}]
      BY <2>3 DEF Register
    <3>. QED BY <3>1, <3>2 DEF WorldInv
  <2>4. CASE ~\E r \in Repos, d \in Dirs : Register(r, d)
    <3>1. UNCHANGED registered
      BY <1>2, <2>4 DEF Others, RemoveTree, MakeDirectory, Mark, Cancel
    <3>. QED BY <2>1, <2>2, <3>1 DEF WorldInv
  <2>. QED BY <2>1, <2>2, <2>3, <2>4 DEF WorldInv
<1>. QED BY <1>1, <1>2, FindFrame, WorkFrame, FeedingFrame
         DEF Next, Load, Discover, Feeding, vars, discoveryVars, othersOfWorker

--------------------------------------------------------------------------------
LEMMA WalkStep == WorldInv /\ WalkInv /\ [Next]_vars => WalkInv'
<1>. SUFFICES ASSUME WorldInv, WalkInv, [Next]_vars PROVE WalkInv'
  OBVIOUS
<1>. USE DEF Walking
<1>1. CASE Exclude
  BY <1>1 DEF Exclude, WalkInv, findVars
<1>2. CASE NextRoot
  <2>1. CASE roots = {} \/ cancelled
    BY <1>2, <2>1 DEF NextRoot, WalkInv, findVars
  <2>2. CASE ~(roots = {} \/ cancelled)
    <3>1. Least(roots) \in roots
      BY <2>2, LeastIsThere DEF WalkInv
    <3>2. /\ roots' = roots \ {Least(roots)} /\ at' = Least(roots)
          /\ (UNCHANGED <<pc, pending>> \/ (pc' = "ancestors" /\ pending' = {Least(roots)}))
          /\ UNCHANGED <<visited, anchor, found>> /\ pc = "roots"
      BY <1>2, <2>2 DEF NextRoot
    <3>. QED BY <3>1, <3>2 DEF WalkInv
  <2>. QED BY <2>1, <2>2
<1>3. CASE Ancestors
  BY <1>3 DEF Ancestors, WalkInv
<1>4. CASE Walk
  <2>. DEFINE d == Least(pending)
  <2>1. pc = "walk" /\ d \in pending /\ d \in Dirs
    BY <1>4, LeastIsThere DEF Walk, WalkInv
  <2>2. UNCHANGED <<roots, anchor, found>>
    BY <1>4 DEF Walk, Quit
  <2>3. CASE pc' = "identify" /\ UNCHANGED <<pending, at, visited>>
    BY <2>1, <2>2, <2>3 DEF WalkInv
  <2>4. CASE Walked(d) /\ UNCHANGED <<at, visited>>
    BY <2>1, <2>2, <2>4 DEF WalkInv, Walked
  <2>5. CASE Walked(d) /\ at' = d /\ visited' = visited \cup {d}
    BY <2>1, <2>2, <2>5 DEF WalkInv, Walked
  <2>6. CASE pc' \in {"read", "common"} /\ at' = d /\ visited' = visited \cup {d} /\ UNCHANGED pending
    BY <2>1, <2>2, <2>6 DEF WalkInv
  <2>. HIDE DEF d
  <2>. QED BY <1>4, <2>3, <2>4, <2>5, <2>6 DEF Walk, Quit, d
<1>5. CASE ConsiderCommon
  <2>1. GitRepo(at) # NoRepo => GitRepo(at) \in Repos
    BY GitRepoType
  <2>. QED BY <1>5, <2>1 DEF ConsiderCommon, Considered, WalkInv
<1>6. CASE ConsiderAnchor
  BY <1>6 DEF ConsiderAnchor, Considered, WalkInv
<1>7. CASE ReadDirectory
  <2>1. Children(at) \subseteq Dirs
    BY DEF Children, WorldInv
  <2>2. pc = "read" /\ UNCHANGED <<roots, at, visited, anchor, found>>
    BY <1>7 DEF ReadDirectory
  <2>3. \/ pc' = "identify" /\ UNCHANGED pending
        \/ /\ pending' \in {pending \ {at}, (pending \ {at}) \cup Children(at)}
           /\ pc' = IF pending' = {} THEN "roots" ELSE "walk"
    BY <1>7 DEF ReadDirectory, Quit, Walked
  <2>. QED BY <2>1, <2>2, <2>3 DEF WalkInv
<1>8. CASE Feeding
  <2>1. /\ UNCHANGED <<roots, pending, at, visited, anchor>>
        /\ found' \subseteq found
        /\ pc' = pc \/ pc' \in {"done", "feed", "wait"}
    BY <1>8 DEF Feeding, Identify, Start, Send, Close, Merge, Return, discoveryVars, findVars
  <2>. QED BY <2>1 DEF WalkInv
<1>9. CASE UNCHANGED <<pc, findVars>>
  BY <1>9 DEF WalkInv, findVars
<1>10. CASE Others \/ UNCHANGED vars
  BY <1>9, <1>10 DEF Others, RemoveTree, MakeDirectory, Mark, Register, Cancel, otherVars, vars,
                     discoveryVars, findVars
<1>. QED BY <1>1, <1>2, <1>3, <1>4, <1>5, <1>6, <1>7, <1>8, <1>9, <1>10, WorkFrame
         DEF Next, Load, Discover, Find, Feeding, othersOfWorker

--------------------------------------------------------------------------------
(* A failure that is recorded keeps every path of it.                      *)
LEMMA Recorded ==
  ASSUME NEW p \in Paths, NEW Q \in SUBSET {p}, RecordInv, Record(p),
         Fault(Q) \/ NoFault
  PROVE  RecordInv'
BY DEF RecordInv, Record, Fault, NoFault

LEMMA NothingRecorded ==
  ASSUME RecordInv, NoFailure, Fault({}) \/ NoFault
  PROVE  RecordInv'
BY DEF RecordInv, NoFailure, Fault, NoFault

LEMMA RecordStep == WorldInv /\ WalkInv /\ WorkInv /\ RecordInv /\ [Next]_vars => RecordInv'
<1>. SUFFICES ASSUME WorldInv, WalkInv, WorkInv, RecordInv, [Next]_vars PROVE RecordInv'
  OBVIOUS
<1>. USE PathsType
<1>1. CASE Exclude
  <2>1. request.data # NoDir => request.data \in Paths
    BY DEF WorldInv
  <2>. QED BY <1>1, <2>1, Recorded, NothingRecorded DEF Exclude
<1>2. CASE NextRoot
  <2>1. CASE cancelled
    <3>1. (roots = {} \/ cancelled) /\ \E p \in Stopped(roots) : Record(p) /\ NoFault
      BY <1>2, <2>1 DEF NextRoot
    <3>2. Stopped(roots) \subseteq Paths
      BY LeastIsThere DEF Stopped, WalkInv
    <3>. QED BY <3>1, <3>2, Recorded
  <2>2. CASE ~cancelled /\ roots = {}
    BY <1>2, <2>2, NothingRecorded DEF NextRoot
  <2>3. CASE ~cancelled /\ roots # {}
    <3>1. Least(roots) \in Paths
      BY <2>3, LeastIsThere DEF WalkInv
    <3>2. \/ Record(Least(roots)) /\ (NoFault \/ Fault({Least(roots)}))
          \/ NoFault /\ NoFailure
      BY <1>2, <2>3 DEF NextRoot
    <3>. QED BY <3>1, <3>2, Recorded, NothingRecorded
  <2>. QED BY <2>1, <2>2, <2>3
<1>3. CASE Ancestors
  <2>1. -at \in Paths
    BY <1>3 DEF Ancestors, WalkInv, Walking
  <2>2. \/ Record(-at) /\ (Fault({-at}) \/ NoFault)
        \/ NoFailure /\ (Fault({}) \/ NoFault)
    BY <1>3 DEF Ancestors
  <2>. QED BY <2>1, <2>2, Recorded, NothingRecorded
<1>4. CASE Walk
  <2>. DEFINE d == Least(pending)
  <2>1. d \in Dirs /\ d \in Paths /\ -d \in Paths
    BY <1>4, LeastIsThere DEF Walk, WalkInv, Walking
  <2>2. Stopped(pending) \subseteq Paths
    BY <1>4, LeastIsThere DEF Walk, WalkInv, Walking, Stopped
  <2>3. \/ \E p \in Stopped(pending) : Record(p) /\ NoFault
        \/ Record(d) /\ (NoFault \/ Fault({d}))
        \/ Record(-d) /\ (NoFault \/ Fault({-d}))
        \/ NoFailure /\ NoFault
    BY <1>4 DEF Walk, Quit
  <2>. HIDE DEF d
  <2>. QED BY <2>1, <2>2, <2>3, Recorded, NothingRecorded
<1>5. CASE ConsiderCommon \/ ConsiderAnchor \/ ReadDirectory
  <2>1. at \in Paths
    BY <1>5 DEF ConsiderCommon, ConsiderAnchor, ReadDirectory, WalkInv, Walking
  <2>2. \/ Record(at) /\ (NoFault \/ Fault({at}))
        \/ NoFailure /\ NoFault
    BY <1>5 DEF ConsiderCommon, ConsiderAnchor, ReadDirectory, Quit
  <2>. QED BY <2>1, <2>2, Recorded, NothingRecorded
<1>6. CASE Identify
  <2>. DEFINE r == FirstRepo(found)
  <2>1. Primary[r] \in Paths /\ Common[r] \in Paths
    BY <1>6, FirstRepoIsThere DEF Identify, WalkInv
  <2>2. \/ NoFault /\ NoFailure
        \/ \E p \in {Primary[r], Common[r]} : Record(p) /\ (NoFault \/ Fault({p}))
    BY <1>6 DEF Identify
  <2>. HIDE DEF r
  <2>. QED BY <2>1, <2>2, Recorded, NothingRecorded
<1>7. CASE Start
  BY <1>7 DEF Start, RecordInv, NoFault, Fault
<1>8. ASSUME NEW w \in Workers, Work(w) PROVE RecordInv'
  <2>1. CASE List(w)
    <3>1. worker[w].job \in Repos
      BY <2>1 DEF List, WorkInv
    <3>2. Primary[worker[w].job] \in Paths
      BY <3>1
    <3>3. \/ NoFault /\ NoFailure
          \/ Record(Primary[worker[w].job]) /\ (NoFault \/ Fault({Primary[worker[w].job]}))
      BY <2>1 DEF List
    <3>. QED BY <3>2, <3>3, Recorded, NothingRecorded
  <2>2. CASE Exit(w)
    BY <2>2 DEF Exit, RecordInv
  <2>3. CASE Locate(w) \/ Inspect(w) \/ Measure(w)
    BY <2>3, NothingRecorded DEF Locate, Inspect, Measure
  <2>. QED BY <1>8, <2>1, <2>2, <2>3 DEF Work
<1>9. CASE (\E w \in Workers : Send(w)) \/ Close \/ Merge \/ Others \/ UNCHANGED vars
  <2>1. UNCHANGED <<incomplete, trouble>>
    BY <1>9 DEF Send, Close, Merge, Others, RemoveTree, MakeDirectory, Mark, Register, Cancel,
                otherVars, vars, discoveryVars
  <2>. QED BY <2>1 DEF RecordInv
<1>. QED BY <1>1, <1>2, <1>3, <1>4, <1>5, <1>6, <1>7, <1>8, <1>9 DEF Next, Load, Discover, Find

--------------------------------------------------------------------------------
(* What a worker may be doing.                                             *)
Doing == [step : {"gone", "idle", "list"} \cup Busy, job : Repos \cup {NoRepo},
          listed : Repos \cup {NoRepo}, left : SUBSET Dirs]

(* A worker that takes a step with its own repository, or lays it down,    *)
(* leaves the others alone.                                                *)
LEMMA WorkerStep ==
  ASSUME WorkInv, NEW w \in Workers, NEW s \in Doing,
         worker' = [worker EXCEPT ![w] = s],
         s.job \in {worker[w].job, NoRepo},
         s.job = NoRepo <=> s.step \in {"gone", "idle"},
         s.step \in Busy => s.listed \in Repos /\ s.left # {},
         pc \in {"feed", "wait"}, pc' = pc,
         UNCHANGED <<unique, jobs>>, results' \in [Repos -> SUBSET Items]
  PROVE  WorkInv'
<1>1. worker' \in [Workers -> Doing]
  BY DEF WorkInv, Doing
<1>2. \A v \in Workers : worker'[v] = IF v = w THEN s ELSE worker[v]
  BY DEF WorkInv
<1>3. ASSUME NEW v \in Workers
      PROVE  /\ worker'[v].job = NoRepo <=> worker'[v].step \in {"gone", "idle"}
             /\ worker'[v].job # NoRepo =>
                  /\ worker'[v].job \in unique \ jobs
                  /\ \A u \in Workers \ {v} : worker'[u].job # worker'[v].job
             /\ worker'[v].step \in Busy => worker'[v].listed \in Repos /\ worker'[v].left # {}
  <2>1. CASE v = w
    BY <1>2, <2>1 DEF WorkInv
  <2>2. CASE v # w
    BY <1>2, <2>2 DEF WorkInv
  <2>. QED BY <2>1, <2>2
<1>. QED BY <1>1, <1>3 DEF WorkInv, Doing

(* Only a worker that Load feeds or waits for does anything.               *)
LEMMA WorkersWork ==
  ASSUME WorkInv, NEW w \in Workers, Work(w)
  PROVE  pc \in {"feed", "wait"} /\ pc' = pc /\ UNCHANGED <<unique, jobs>>
BY DEF WorkInv, Work, Exit, List, Locate, Inspect, Measure, othersOfWorker, Busy

LEMMA FinishStep ==
  ASSUME WorkInv, NEW w \in Workers, Work(w), worker[w].step \in Busy,
         NEW free \in BOOLEAN, Finish(w, free)
  PROVE  WorkInv'
<1>. DEFINE left == worker[w].left \ {Path(w)}
<1>1. worker[w].job \in Repos /\ worker[w].listed \in Repos /\ Path(w) \in Dirs /\ worker[w] \in Doing
  BY LeastIsThere DEF WorkInv, Path, Doing, Busy
<1>2. [path |-> Path(w), repo |-> worker[w].listed, free |-> free] \in Items
  BY <1>1 DEF Items
<1>3. results' \in [Repos -> SUBSET Items]
  BY <1>1, <1>2 DEF Finish, WorkInv
<1>4. CASE left = {}
  <2>1. NextPath(w) = Idle
    BY <1>4 DEF NextPath
  <2>2. Idle \in Doing /\ Idle.job = NoRepo /\ Idle.step = "idle"
    BY DEF Idle, NotStarted, Doing
  <2>. QED BY <1>3, <2>1, <2>2, WorkersWork, WorkerStep DEF Finish, Busy
<1>5. CASE left # {}
  <2>1. NextPath(w) = [worker[w] EXCEPT !.step = "locate", !.left = left]
    BY <1>5 DEF NextPath
  <2>2. NextPath(w) \in Doing
    BY <1>1, <2>1 DEF Doing, Busy
  <2>3. /\ NextPath(w).job = worker[w].job /\ NextPath(w).step = "locate"
        /\ NextPath(w).listed = worker[w].listed /\ NextPath(w).left = left
    BY <1>1, <2>1 DEF Doing
  <2>. QED BY <1>1, <1>3, <1>5, <2>2, <2>3, WorkersWork, WorkerStep DEF Finish
<1>. QED BY <1>4, <1>5

LEMMA GoOnStep ==
  ASSUME WorkInv, NEW w \in Workers, Work(w), worker[w].step \in Busy,
         NEW step \in Busy, GoOn(w, step)
  PROVE  WorkInv'
<1>. DEFINE s == [worker[w] EXCEPT !.step = step]
<1>1. worker[w] \in Doing /\ worker[w].job \in Repos
  BY DEF WorkInv, Doing, Busy
<1>2. s \in Doing /\ s.step = step /\ s.job = worker[w].job /\ s.listed = worker[w].listed
      /\ s.left = worker[w].left
  BY <1>1 DEF Doing
<1>3. worker' = [worker EXCEPT ![w] = s]
  BY DEF GoOn
<1>4. results' \in [Repos -> SUBSET Items]
  BY DEF GoOn, WorkInv
<1>5. worker[w].listed \in Repos /\ worker[w].left # {} /\ step \notin {"gone", "idle"}
  BY DEF WorkInv, Busy
<1>. HIDE DEF s
<1>. QED BY <1>1, <1>2, <1>3, <1>4, <1>5, WorkersWork, WorkerStep

LEMMA WorkStep == WorldInv /\ WalkInv /\ WorkInv /\ [Next]_vars => WorkInv'
<1>. SUFFICES ASSUME WorldInv, WalkInv, WorkInv, [Next]_vars PROVE WorkInv'
  OBVIOUS
<1>1. CASE Discover
  <2>1. pc \notin {"feed", "wait"} /\ UNCHANGED loadVars
    BY <1>1, FindFrame DEF Discover, Finding, Walking
  <2>. QED BY <2>1 DEF WorkInv, loadVars
<1>2. CASE Identify
  <2>1. FirstRepo(found) \in Repos
    BY <1>2, FirstRepoIsThere DEF Identify, WalkInv
  <2>2. unique' \in {unique, unique \cup {FirstRepo(found)}}
    BY <1>2 DEF Identify
  <2>3. UNCHANGED <<pc, jobs, worker, results>>
    BY <1>2 DEF Identify
  <2>. QED BY <2>1, <2>2, <2>3 DEF WorkInv
<1>3. CASE Start
  <2>1. CASE unique = {}
    BY <1>3, <2>1 DEF Start, Return, WorkInv
  <2>2. CASE unique # {}
    <3>1. PICK W \in SUBSET Workers :
            worker' = [w \in Workers |-> IF w \in W THEN Idle ELSE NotStarted]
      BY <1>3, <2>2 DEF Start
    <3>2. jobs' = unique /\ pc' = "feed" /\ UNCHANGED <<unique, results>>
      BY <1>3, <2>2 DEF Start
    <3>3. Idle \in Doing /\ Idle.job = NoRepo /\ Idle.step = "idle"
          /\ NotStarted \in Doing /\ NotStarted.job = NoRepo /\ NotStarted.step = "gone"
      BY DEF Idle, NotStarted, Doing
    <3>4. \A w \in Workers : worker'[w] \in Doing /\ worker'[w].job = NoRepo
                              /\ worker'[w].step \in {"gone", "idle"}
      BY <3>1, <3>3
    <3>5. worker' \in [Workers -> Doing]
      BY <3>1, <3>3
    <3>. QED BY <3>2, <3>4, <3>5 DEF WorkInv, Doing, Busy
  <2>. QED BY <2>1, <2>2
<1>4. ASSUME NEW w \in Workers, Send(w) PROVE WorkInv'
  <2>. DEFINE r == FirstRepo(jobs)
              s == [Idle EXCEPT !.step = "list", !.job = r]
  <2>1. /\ r \in jobs /\ r \in Repos /\ r \in unique
    BY <1>4, FirstRepoIsThere DEF Send, WorkInv
  <2>2. s \in Doing /\ s.job = r /\ s.step = "list"
    BY <2>1 DEF Idle, NotStarted, Doing
  <2>3. /\ pc = "feed" /\ UNCHANGED <<pc, unique, results>>
        /\ jobs' = jobs \ {r} /\ worker' = [worker EXCEPT ![w] = s]
    BY <1>4 DEF Send, discoveryVars
  <2>. HIDE DEF s, r
  <2>4. \A v \in Workers : worker'[v] = IF v = w THEN s ELSE worker[v]
    BY <2>3 DEF WorkInv
  <2>5. worker' \in [Workers -> Doing]
    BY <2>2, <2>3 DEF WorkInv, Doing
  <2>6. r # NoRepo /\ \A v \in Workers : worker[v].job # r
    BY <2>1 DEF WorkInv
  <2>7. ASSUME NEW v \in Workers
        PROVE  /\ worker'[v].job = NoRepo <=> worker'[v].step \in {"gone", "idle"}
               /\ worker'[v].job # NoRepo =>
                    /\ worker'[v].job \in unique \ jobs'
                    /\ \A u \in Workers \ {v} : worker'[u].job # worker'[v].job
               /\ worker'[v].step \in Busy => worker'[v].listed \in Repos /\ worker'[v].left # {}
    <3>1. CASE v = w
      BY <2>1, <2>2, <2>3, <2>4, <2>6, <3>1 DEF Busy
    <3>2. CASE v # w
      BY <2>2, <2>3, <2>4, <2>6, <3>2 DEF WorkInv
    <3>. QED BY <3>1, <3>2
  <2>. QED BY <2>3, <2>5, <2>7 DEF WorkInv, Doing
<1>5. CASE Close \/ Merge
  <2>1. UNCHANGED <<unique, jobs, worker, results>>
    BY <1>5 DEF Close, Merge, loadVars
  <2>2. \/ pc' = "wait"
        \/ pc' = "done" /\ \A w \in Workers : worker[w].step = "gone"
    BY <1>5 DEF Close, Merge, Return
  <2>. QED BY <2>1, <2>2 DEF WorkInv
<1>6. ASSUME NEW w \in Workers, Work(w) PROVE WorkInv'
  <2>1. CASE Exit(w)
    <3>1. NotStarted \in Doing /\ NotStarted.job = NoRepo /\ NotStarted.step = "gone"
      BY DEF NotStarted, Doing
    <3>. QED BY <1>6, <2>1, <3>1, WorkersWork, WorkerStep DEF Exit, WorkInv, Busy
  <2>2. CASE List(w)
    <3>. DEFINE q == GitRepo(Primary[worker[w].job])
                s == [worker[w] EXCEPT !.step = "locate", !.listed = q, !.left = registered[q]]
    <3>1. worker[w] \in Doing /\ worker[w].job \in Repos /\ worker[w].job # NoRepo
      BY <2>2 DEF List, WorkInv, Doing
    <3>2. results' \in [Repos -> SUBSET Items]
      BY <2>2 DEF List, WorkInv
    <3>3. CASE worker' = [worker EXCEPT ![w] = Idle]
      <4>1. Idle \in Doing /\ Idle.job = NoRepo /\ Idle.step = "idle"
        BY DEF Idle, NotStarted, Doing
      <4>. QED BY <1>6, <3>2, <3>3, <4>1, WorkersWork, WorkerStep DEF Busy
    <3>4. CASE q # NoRepo /\ worker' = [worker EXCEPT ![w] = s]
      <4>1. q \in Repos
        BY <3>4, GitRepoType
      <4>2. registered[q] \in SUBSET Dirs /\ registered[q] # {}
        BY <4>1 DEF WorldInv
      <4>. HIDE DEF q
      <4>3. s \in Doing /\ s.job = worker[w].job /\ s.step = "locate" /\ s.listed = q
            /\ s.left = registered[q]
        BY <3>1, <4>1, <4>2 DEF Doing, Busy
      <4>. HIDE DEF s
      <4>. QED BY <1>6, <3>1, <3>2, <3>4, <4>1, <4>2, <4>3, WorkersWork, WorkerStep
    <3>5. \/ q # NoRepo /\ worker' = [worker EXCEPT ![w].step = "locate", ![w].listed = q,
                                                    ![w].left = registered[q]]
          \/ worker' = [worker EXCEPT ![w] = Idle]
      BY <2>2 DEF List
    <3>6. ASSUME worker' = [worker EXCEPT ![w].step = "locate", ![w].listed = q,
                                          ![w].left = registered[q]]
          PROVE  worker' = [worker EXCEPT ![w] = s]
      <4>. HIDE DEF q
      <4>. QED BY <3>6 DEF WorkInv, Doing
    <3>. QED BY <3>3, <3>4, <3>5, <3>6
  <2>3. CASE Locate(w)
    <3>1. worker[w].step \in Busy /\ "inspect" \in Busy
      BY <2>3 DEF Locate, Busy
    <3>2. GoOn(w, "inspect") \/ Finish(w, FALSE)
      BY <2>3 DEF Locate
    <3>. QED BY <1>6, <3>1, <3>2, GoOnStep, FinishStep
  <2>4. CASE Inspect(w)
    <3>1. worker[w].step \in Busy /\ "measure" \in Busy
      BY <2>4 DEF Inspect, Busy
    <3>2. GoOn(w, "measure") \/ Finish(w, FALSE)
      BY <2>4 DEF Inspect
    <3>. QED BY <1>6, <3>1, <3>2, GoOnStep, FinishStep
  <2>5. CASE Measure(w)
    <3>1. worker[w].step \in Busy
      BY <2>5 DEF Measure, Busy
    <3>2. Finish(w, TRUE) \/ Finish(w, FALSE)
      BY <2>5 DEF Measure
    <3>. QED BY <1>6, <3>1, <3>2, FinishStep
  <2>. QED BY <1>6, <2>1, <2>2, <2>3, <2>4, <2>5 DEF Work
<1>7. CASE Others /\ UNCHANGED loadVars
  <2>1. UNCHANGED pc
    BY <1>7 DEF Others, RemoveTree, MakeDirectory, Mark, Register, Cancel, otherVars
  <2>. QED BY <1>7, <2>1 DEF WorkInv, loadVars
<1>8. CASE UNCHANGED vars
  BY <1>8 DEF WorkInv, vars, discoveryVars, loadVars
<1>. QED BY <1>1, <1>2, <1>3, <1>4, <1>5, <1>6, <1>7, <1>8 DEF Next, Load

--------------------------------------------------------------------------------
(* Load returns in two places.                                             *)
LEMMA Returns ==
  ASSUME WorkInv, Next, pc # "done", pc' = "done"
  PROVE  (Start /\ unique = {}) \/ Merge
<1>1. CASE Find
  BY <1>1 DEF Find, Exclude, NextRoot, Ancestors, Walk, Walked, Quit, ConsiderCommon,
              ConsiderAnchor, Considered, ReadDirectory
<1>2. CASE Identify \/ (\E w \in Workers : Send(w)) \/ Close
  BY <1>2 DEF Identify, Send, Close, discoveryVars
<1>3. CASE \E w \in Workers : Work(w)
  BY <1>3, WorkersWork
<1>4. CASE Others
  BY <1>4 DEF Others, RemoveTree, MakeDirectory, Mark, Register, Cancel, otherVars
<1>5. CASE Start
  BY <1>5 DEF Start
<1>. QED BY <1>1, <1>2, <1>3, <1>4, <1>5 DEF Next, Load, Discover

--------------------------------------------------------------------------------
(* What Load returns.                                                      *)
LEMMA VerdictStep ==
  WorkInv /\ RecordInv /\ FailuresProtect /\ [Next]_vars => FailuresProtect'
<1>. SUFFICES ASSUME WorkInv, RecordInv, FailuresProtect, [Next]_vars PROVE FailuresProtect'
  OBVIOUS
<1>1. CASE pc' # "done"
  BY <1>1 DEF FailuresProtect
<1>2. CASE Start
  <2>1. CASE unique = {}
    BY <1>2, <2>1 DEF Start, Return, FailuresProtect, Free
  <2>2. CASE unique # {}
    BY <1>1, <1>2, <2>2 DEF Start
  <2>. QED BY <2>1, <2>2
<1>3. CASE Merge
  <2>1. /\ out'.worktrees = {[t EXCEPT !.free = t.free /\ ~Protected(t)] : t \in Loaded}
        /\ UNCHANGED <<cancelled, cwdKnown, trouble>>
    BY <1>3 DEF Merge, Return, world
  <2>2. ASSUME NEW t \in Free'
        PROVE  /\ ~cancelled /\ cwdKnown
               /\ \A p \in trouble : ~Overlap(t.path, p) /\ ~Overlap(Common[t.repo], p)
    <3>1. t \in out'.worktrees /\ t.free
      BY <2>2 DEF Free
    <3>2. PICK u \in Loaded : t = [u EXCEPT !.free = u.free /\ ~Protected(u)]
      BY <2>1, <3>1
    <3>3. u \in Items
      BY DEF Loaded, WorkInv
    <3>4. t.path = u.path /\ t.repo = u.repo /\ t.free = (u.free /\ ~Protected(u))
      BY <3>2, <3>3 DEF Items
    <3>5. ~Protected(u)
      BY <3>1, <3>4
    <3>. QED BY <3>4, <3>5 DEF Protected, NearFailure, RecordInv
  <2>. QED BY <2>1, <2>2 DEF FailuresProtect
<1>4. CASE Next /\ ~Start /\ ~Merge
  <2>1. pc' # "done"
    <3>1. CASE Find
      BY <3>1 DEF Find, Exclude, NextRoot, Ancestors, Walk, Walked, Quit, ConsiderCommon,
                  ConsiderAnchor, Considered, ReadDirectory
    <3>2. CASE Identify \/ (\E w \in Workers : Send(w)) \/ Close
      BY <3>2 DEF Identify, Send, Close, discoveryVars
    <3>3. CASE \E w \in Workers : Work(w)
      BY <3>3, WorkersWork
    <3>4. CASE Others /\ pc # "done"
      BY <3>4 DEF Others, RemoveTree, MakeDirectory, Mark, Register, Cancel, otherVars
    <3>. QED BY <1>4, <3>1, <3>2, <3>3, <3>4 DEF Next, Load, Discover
  <2>. QED BY <1>1, <2>1
<1>5. CASE UNCHANGED vars
  BY <1>5 DEF vars, discoveryVars, loadVars, world, FailuresProtect, Free
<1>. QED BY <1>2, <1>3, <1>4, <1>5

--------------------------------------------------------------------------------
(* The tree.                                                               *)
LEMMA AboveIs ==
  \A d, e \in Dirs : e \in Above[d] <=> \A S \in Upward : d \in S => e \in S
BY DEF Above, LiesIn

LEMMA AboveDirs == \A d \in Dirs : Above[d] \subseteq Dirs
BY DEF Above

LEMMA AboveSelf == \A d \in Dirs : d \in Above[d] /\ Contains(d, d)
BY AboveIs DEF Contains

LEMMA AboveUpward == \A d \in Dirs : Above[d] \in Upward
<1>. SUFFICES ASSUME NEW d \in Dirs PROVE Above[d] \in Upward
  OBVIOUS
<1>1. ASSUME NEW e \in Above[d] PROVE Parent[e] \in Above[d]
  <2>1. e \in Dirs /\ Parent[e] \in Dirs
    BY AboveDirs
  <2>2. \A S \in Upward : d \in S => Parent[e] \in S
    BY <2>1, AboveIs DEF Upward
  <2>. QED BY <2>1, <2>2, AboveIs
<1>. QED BY <1>1, AboveDirs DEF Upward

LEMMA AboveTransitive ==
  ASSUME NEW d \in Dirs, NEW e \in Above[d], NEW f \in Above[e]
  PROVE  f \in Above[d]
<1>1. e \in Dirs /\ f \in Dirs
  BY AboveDirs
<1>2. \A S \in Upward : (d \in S => e \in S) /\ (e \in S => f \in S)
  BY <1>1, AboveIs
<1>3. \A S \in Upward : d \in S => f \in S
  BY <1>2
<1>. QED BY <1>1, <1>3, AboveIs

(* Above a directory are it and what is above its parent.                  *)
LEMMA AboveParent ==
  ASSUME NEW d \in Dirs
  PROVE  /\ Above[Parent[d]] \subseteq Above[d]
         /\ \A e \in Above[d] : e = d \/ e \in Above[Parent[d]]
<1>. DEFINE S == {d} \cup Above[Parent[d]]
<1>1. Parent[d] \in Dirs
  OBVIOUS
<1>2. Parent[d] \in Above[d]
  BY AboveSelf, AboveUpward DEF Upward
<1>3. S \in Upward
  BY <1>1, AboveSelf, AboveUpward, AboveDirs DEF Upward
<1>4. \A e \in Above[d] : e \in S
  <2>1. d \in S
    OBVIOUS
  <2>. HIDE DEF S
  <2>. QED BY <1>3, <2>1, AboveIs, AboveDirs
<1>. QED BY <1>1, <1>2, <1>4, AboveTransitive

LEMMA AboveLess == \A d \in Dirs : \A e \in Above[d] : e <= d
<1>. SUFFICES ASSUME NEW d \in Dirs, NEW e \in Above[d] PROVE e <= d
  OBVIOUS
<1>. DEFINE S == {f \in Dirs : f <= d}
<1>1. \A f \in Dirs : f \in Nat /\ Parent[f] \in Nat /\ Parent[f] <= f /\ Parent[f] \in Dirs
  OBVIOUS
<1>2. S \in Upward
  BY <1>1 DEF Upward
<1>3. d \in S
  BY <1>1
<1>4. e \in Dirs /\ e \in S
  BY <1>2, <1>3, AboveIs, AboveDirs
<1>. QED BY <1>4

--------------------------------------------------------------------------------
(* What nobody touched stays as it was.                                    *)
TreeInv == /\ marker \in [Dirs -> Markers] /\ changed \in SUBSET Dirs
           /\ \A d \in Dirs : marker[d] # NoRepo => d \in exists

Kept(e) == /\ e \in exists' <=> e \in exists
           /\ marker'[e] = marker[e]
           /\ \A r \in Repos : e \in registered'[r] <=> e \in registered[r]

LEMMA OthersStep ==
  ASSUME WorldInv, TreeInv, Others
  PROVE  /\ TreeInv'
         /\ changed \subseteq changed' /\ \A e \in Dirs \ changed' : Kept(e)
         /\ UNCHANGED <<request, faults, trouble, pc, findVars, incomplete>>
         /\ cancelled => cancelled'
<1>1. ASSUME NEW d \in Dirs, RemoveTree(d)
      PROVE  TreeInv' /\ changed \subseteq changed' /\ \A e \in Dirs \ changed' : Kept(e)
  <2>. DEFINE below == {e \in Dirs : Contains(d, e)}
  <2>1. /\ changed' = changed \cup below
        /\ exists' = exists \ below
        /\ marker' = [e \in Dirs |-> IF e \in below THEN NoRepo ELSE marker[e]]
        /\ registered' = registered
    BY <1>1 DEF RemoveTree, Touch
  <2>2. below \subseteq Dirs
    OBVIOUS
  <2>. HIDE DEF below
  <2>. QED BY <2>1, <2>2 DEF TreeInv, Kept, Markers
<1>2. ASSUME NEW d \in Dirs, MakeDirectory(d)
      PROVE  TreeInv' /\ changed \subseteq changed' /\ \A e \in Dirs \ changed' : Kept(e)
  BY <1>2 DEF MakeDirectory, Touch, TreeInv, Kept
<1>3. ASSUME NEW d \in Dirs, NEW m \in Markers, Mark(d, m)
      PROVE  TreeInv' /\ changed \subseteq changed' /\ \A e \in Dirs \ changed' : Kept(e)
  BY <1>3 DEF Mark, Touch, TreeInv, Kept
<1>4. ASSUME NEW r \in Repos, NEW d \in Dirs, Register(r, d)
      PROVE  TreeInv' /\ changed \subseteq changed' /\ \A e \in Dirs \ changed' : Kept(e)
  <2>1. /\ changed' = changed \cup {d} /\ UNCHANGED <<exists, marker>>
        /\ registered' = [registered EXCEPT ![r] = IF d \in registered[r] THEN registered[r] \ {d}
                                                   ELSE registered[r] \cup {d}]
    BY <1>4 DEF Register, Touch
  <2>2. \A q \in Repos, e \in Dirs : e # d => (e \in registered'[q] <=> e \in registered[q])
    BY <2>1 DEF WorldInv
  <2>. QED BY <2>1, <2>2 DEF TreeInv, Kept
<1>5. CASE Cancel
  BY <1>5 DEF Cancel, TreeInv, Kept
<1>6. UNCHANGED otherVars \/ Cancel
  BY DEF Others, RemoveTree, MakeDirectory, Mark, Register
<1>7. UNCHANGED <<request, faults, trouble, pc, findVars, incomplete>> /\ (cancelled => cancelled')
  BY <1>6 DEF Cancel, otherVars
<1>. QED BY <1>1, <1>2, <1>3, <1>4, <1>5, <1>7 DEF Others

LEMMA WorldMoves ==
  ASSUME WorldInv, TreeInv, [Next]_vars
  PROVE  /\ TreeInv'
         /\ changed \subseteq changed' /\ \A e \in Dirs \ changed' : Kept(e)
         /\ UNCHANGED request /\ (cancelled => cancelled')
<1>1. CASE UNCHANGED world
  BY <1>1 DEF world, TreeInv, Kept
<1>2. CASE Others
  BY <1>2, OthersStep
<1>. QED BY <1>1, <1>2, FindFrame, WorkFrame, FeedingFrame
         DEF Next, Load, Discover, Feeding, vars, discoveryVars, othersOfWorker

(* Once Load has returned nothing happens any more.                        *)
LEMMA DoneStays == ASSUME WorkInv, pc = "done", [Next]_vars PROVE UNCHANGED vars
<1>1. ~Find
  BY FindFrame DEF Finding, Walking
<1>2. ~Feeding
  BY DEF Feeding, Identify, Start, Send, Close, Merge
<1>3. \A w \in Workers : ~Work(w)
  BY DEF WorkInv, Work, Exit, List, Locate, Inspect, Measure
<1>. QED BY <1>1, <1>2, <1>3 DEF Next, Load, Discover, Feeding

--------------------------------------------------------------------------------
(* A worktree that was measured had no marker inside, and whoever puts one *)
(* there touches the directory it is in.                                   *)
Unmarked(d) == \A e \in Below(d) : marker[e] # NoRepo => ~Untouched(d, e)

InsideInv == \A r \in Repos : \A t \in results[r] : t.free => Unmarked(t.path)

LEMMA UnmarkedStays ==
  ASSUME WorldInv, TreeInv, [Next]_vars, NEW d \in Dirs, Unmarked(d)
  PROVE  Unmarked(d)'
<1>. SUFFICES ASSUME NEW e \in Below(d)', marker'[e] # NoRepo, Untouched(d, e)'
     PROVE  FALSE
  BY DEF Unmarked
<1>1. e \in Dirs /\ e # d /\ Contains(d, e) /\ e \in exists'
  BY WorldStep DEF Below, WorldInv
<1>2. e \notin changed'
  BY <1>1, AboveSelf DEF Untouched
<1>3. changed \subseteq changed' /\ Kept(e)
  BY <1>1, <1>2, WorldMoves
<1>4. e \in Below(d) /\ marker[e] # NoRepo
  BY <1>1, <1>3 DEF Below, Kept
<1>5. Untouched(d, e)
  BY <1>3 DEF Untouched
<1>. QED BY <1>4, <1>5 DEF Unmarked

LEMMA PathIsThere ==
  ASSUME WorkInv, NEW w \in Workers, worker[w].step \in Busy
  PROVE  Path(w) \in worker[w].left /\ Path(w) \in Dirs
<1>1. worker[w].left \in SUBSET Dirs /\ worker[w].left # {}
  BY DEF WorkInv
<1>. QED BY <1>1, LeastIsThere DEF Path

LEMMA InsideStep ==
  ASSUME WorldInv, TreeInv, WorkInv, InsideInv, [Next]_vars
  PROVE  InsideInv'
<1>. SUFFICES ASSUME NEW r \in Repos, NEW t \in results'[r], t.free PROVE Unmarked(t.path)'
  BY DEF InsideInv
<1>1. CASE t \in results[r]
  <2>1. t.path \in Dirs /\ Unmarked(t.path)
    BY <1>1 DEF InsideInv, WorkInv, Items
  <2>. QED BY <2>1, UnmarkedStays
<1>2. CASE t \notin results[r]
  <2>1. results' # results
    BY <1>2
  <2>2. PICK w \in Workers : Work(w)
    <3>1. UNCHANGED results \/ \E w \in Workers : Work(w)
      BY DEF Next, Load, Discover, Identify, Start, Send, Close, Merge, discoveryVars, vars, loadVars
    <3>. QED BY <2>1, <3>1
  <2>3. worker[w].step \in Busy /\ \E free \in BOOLEAN : Finish(w, free)
    BY <2>1, <2>2 DEF Work, Exit, List, Locate, Inspect, Measure, GoOn, Busy
  <2>4. PICK free \in BOOLEAN : Finish(w, free)
    BY <2>3
  <2>. DEFINE s == [path |-> Path(w), repo |-> worker[w].listed, free |-> free]
  <2>5. t = s
    <3>1. results' = [results EXCEPT ![worker[w].job] = results[worker[w].job] \cup {s}]
      BY <2>4 DEF Finish
    <3>. HIDE DEF s
    <3>. QED BY <1>2, <3>1 DEF WorkInv
  <2>6. Path(w) \in Dirs /\ t.path = Path(w) /\ t.free = free
    BY <2>3, <2>5, PathIsThere
  <2>7. Measure(w) /\ Measurable(w)
    <3>1. ~Finish(w, FALSE)
      <4>. SUFFICES ASSUME Finish(w, FALSE) PROVE FALSE
        OBVIOUS
      <4>. DEFINE s0 == [path |-> Path(w), repo |-> worker[w].listed, free |-> FALSE]
      <4>1. results' = [results EXCEPT ![worker[w].job] = results[worker[w].job] \cup {s0}]
        BY DEF Finish
      <4>2. t # s0
        BY <2>6
      <4>. HIDE DEF s0
      <4>. QED BY <1>2, <4>1, <4>2 DEF WorkInv
    <3>. QED BY <2>1, <2>2, <3>1 DEF Work, Exit, List, Locate, Inspect, Measure, GoOn
  <2>8. Unmarked(Path(w))
    BY <2>7 DEF Measurable, Unmarked
  <2>. QED BY <2>6, <2>8, UnmarkedStays
<1>. QED BY <1>1, <1>2

LEMMA NothingInsideStep ==
  ASSUME WorldInv, TreeInv, WorkInv, InsideInv, NothingInsideIsFree, [Next]_vars
  PROVE  NothingInsideIsFree'
<1>1. CASE pc = "done"
  <2>1. UNCHANGED vars
    BY <1>1, DoneStays
  <2>. QED BY <2>1 DEF NothingInsideIsFree, Free, Below, Untouched, vars, discoveryVars, world,
                       loadVars
<1>2. CASE pc # "done" /\ pc' = "done"
  <2>1. (Start /\ unique = {}) \/ Merge
    BY <1>2, Returns DEF vars, discoveryVars
  <2>2. CASE Start /\ unique = {}
    BY <2>2 DEF Start, Return, NothingInsideIsFree, Free
  <2>3. CASE Merge
    <3>1. /\ UNCHANGED <<world, unique>>
          /\ out'.worktrees = {[t EXCEPT !.free = t.free /\ ~Protected(t)] : t \in Loaded}
      BY <2>3 DEF Merge, Return
    <3>. SUFFICES ASSUME NEW t \in Free'
         PROVE  /\ Unmarked(t.path)
                /\ \A r \in unique : Contains(t.path, Common[r]) => t.path = Primary[r]
      BY <3>1 DEF NothingInsideIsFree, Unmarked, Below, Untouched, world
    <3>2. PICK u \in Loaded : t = [u EXCEPT !.free = u.free /\ ~Protected(u)]
      BY <3>1 DEF Free
    <3>3. u \in Items /\ \E r \in Repos : u \in results[r]
      BY DEF Loaded, WorkInv
    <3>4. t.path = u.path /\ u.free /\ ~Protected(u)
      BY <3>2, <3>3 DEF Items, Free
    <3>5. Unmarked(t.path)
      BY <3>3, <3>4 DEF InsideInv
    <3>6. ~InMetadata(u)
      BY <3>4 DEF Protected
    <3>. QED BY <3>4, <3>5, <3>6 DEF InMetadata, Overlap
  <2>. QED BY <2>1, <2>2, <2>3
<1>3. CASE pc' # "done"
  BY <1>3 DEF NothingInsideIsFree
<1>. QED BY <1>1, <1>2, <1>3

--------------------------------------------------------------------------------
(* Nothing has been recorded, and the context goes on at least until the   *)
(* walk ends: whatever is asserted below of the walk and of the workers is *)
(* asserted while this is so.                                              *)
Quiet == incomplete = {} /\ (pc \in Finding => ~cancelled)

(* A repository that has always been there and that may be listed, and one  *)
(* of its worktrees.                                                       *)
Standing(r) ==
  /\ ~Excluded(Primary[r])
  /\ request.data # NoDir => ~Contains(request.data, Common[r])
  /\ \A p \in {Primary[r], Common[r]} : Present(p) /\ Steady(p)
  /\ marker[Primary[r]] = r

Member(r, d) == marker[d] = r /\ d \in registered[r] /\ d \notin changed /\ ~Excluded(d)

(* A root that lies in a directory, with no other repository between.      *)
LiesUnder(a, d) ==
  /\ a # d /\ Contains(d, a) /\ Untouched(d, a) /\ faults = 0 /\ ~Excluded(a)
  /\ \A e \in Dirs : Contains(d, e) /\ Contains(e, a) /\ e # d => marker[e] = NoRepo

Known(r) == r \in found \cup unique

(* The walk is at a directory that it has not left yet.                    *)
At(steps) == at \in pending /\ pc \in steps

AtInv == /\ pc = "read" => at \in pending
         /\ At({"common", "anchor", "read"}) => at \in visited

EndInv == /\ pc \in {"start", "roots"} => pending = {}
          /\ pc \notin Finding => roots = {} /\ pending = {}

RootsInv == \A a \in request.roots \ roots : Excluded(a) \/ a \in visited \cup pending

(* What lies in a directory that was entered is walked too.                *)
Entered(e) == \A c \in exists \ changed :
                Parent[c] = e /\ c # e /\ ~Excluded(c) => c \in visited \cup pending

EnteredInv == \A e \in visited : Entered(e) \/ (e = at /\ At({"common", "anchor", "read"}))

MembersInv == \A d \in visited, r \in Repos : Member(r, d) /\ Standing(r) =>
                Known(r) \/ (d = at /\ At({"common", "anchor"}))

AnchorInv == pc = "anchor" => \A r \in Repos : Member(r, at) /\ Standing(r) => anchor = r

Searching(a, d) ==
  /\ pending = {a}
  /\ \/ pc = "ancestors" /\ Contains(d, at) /\ Contains(at, a)
     \/ pc \in {"common", "anchor"} /\ at = d

UpwardInv == \A a \in request.roots \ roots, d \in Dirs, r \in Repos :
               LiesUnder(a, d) /\ Member(r, d) /\ Standing(r) => Known(r) \/ Searching(a, d)

WalkedInv == AtInv /\ EndInv /\ RootsInv /\ EnteredInv /\ MembersInv /\ AnchorInv /\ UpwardInv

--------------------------------------------------------------------------------
LEMMA NotExcludedAbove ==
  ASSUME NEW d \in Dirs, NEW e \in Above[d], ~Excluded(d)
  PROVE  ~Excluded(e)
<1>1. e \in Dirs /\ Above[e] \subseteq Above[d]
  BY AboveDirs, AboveTransitive
<1>. QED BY <1>1 DEF Excluded, Contains

(* A marked directory belongs to its own marker.                           *)
LEMMA OwnRepo ==
  ASSUME NEW d \in Dirs, NEW r \in Repos, marker[d] = r, d \in exists, Present(Common[r])
  PROVE  GitRepo(d) = r
<1>. DEFINE marked == {a \in Above[d] : marker[a] # NoRepo}
            last == CHOOSE a \in marked : \A b \in marked : b <= a
<1>1. d \in marked /\ \A b \in marked : b <= d
  BY AboveSelf, AboveLess
<1>2. last \in marked /\ \A b \in marked : b <= last
  BY <1>1
<1>3. last \in Nat /\ d \in Nat /\ last <= d /\ d <= last
  BY <1>1, <1>2, AboveDirs
<1>4. last = d
  BY <1>3
<1>. QED BY <1>1, <1>4 DEF GitRepo

LEMMA StandingRepo ==
  ASSUME WorldInv, TreeInv, NEW r \in Repos, Standing(r)
  PROVE  Present(Common[r]) /\ Primary[r] \in Dirs /\ GitRepo(Primary[r]) = r
         /\ \A d \in Dirs : Member(r, d) => GitRepo(d) = r
<1>1. Present(Common[r]) /\ Primary[r] \in Dirs /\ marker[Primary[r]] = r
  BY DEF Standing
<1>2. \A d \in Dirs : marker[d] = r => GitRepo(d) = r
  BY <1>1, OwnRepo DEF TreeInv
<1>. QED BY <1>1, <1>2 DEF Member

(* What is so, and is about what nobody touched, was so before.            *)
LEMMA PathDir == \A p \in Paths : p \in Dirs \/ -p \in Dirs
BY DEF Paths

LEMMA SteadyBefore ==
  ASSUME WorldInv, TreeInv, [Next]_vars, NEW p \in Paths, (Present(p) /\ Steady(p))'
  PROVE  Present(p) /\ Steady(p)
<1>. DEFINE d == IF p \in Dirs THEN p ELSE -p
<1>1. d \in Dirs
  BY PathDir
<1>2. d \notin changed'
  BY <1>1, AboveSelf DEF Steady, Untouched
<1>3. changed \subseteq changed' /\ Kept(d)
  BY <1>1, <1>2, WorldMoves
<1>. HIDE DEF d
<1>4. Steady(p)
  BY <1>3 DEF Steady, Untouched
<1>5. Present(p)
  BY <1>3 DEF Present, Kept, d
<1>. QED BY <1>4, <1>5

LEMMA StandingBefore ==
  ASSUME WorldInv, TreeInv, [Next]_vars, NEW r \in Repos, Standing(r)'
  PROVE  Standing(r)
<1>1. Primary[r] \in Dirs /\ Primary[r] \in Paths /\ Common[r] \in Paths
  BY PathsType
<1>2. \A p \in {Primary[r], Common[r]} : Present(p) /\ Steady(p)
  BY <1>1, SteadyBefore DEF Standing
<1>3. UNCHANGED request /\ (Primary[r] \notin changed' => Kept(Primary[r]))
  BY <1>1, WorldMoves
<1>4. Primary[r] \notin changed'
  BY <1>1, AboveSelf DEF Standing, Steady, Untouched
<1>. QED BY <1>2, <1>3, <1>4 DEF Standing, Excluded, Kept

LEMMA MemberBefore ==
  ASSUME WorldInv, TreeInv, [Next]_vars, NEW r \in Repos, NEW d \in Dirs, Member(r, d)'
  PROVE  Member(r, d)
BY WorldMoves DEF Member, Excluded, Kept

LEMMA LiesUnderBefore ==
  ASSUME WorldInv, TreeInv, [Next]_vars, NEW a \in Dirs, NEW d \in Dirs, LiesUnder(a, d)',
         faults' = 0 => faults = 0
  PROVE  LiesUnder(a, d)
<1>1. UNCHANGED request /\ changed \subseteq changed' /\ \A e \in Dirs \ changed' : Kept(e)
  BY WorldMoves
<1>2. \A e \in Dirs : Contains(d, e) /\ Contains(e, a) => e \notin changed'
  BY DEF LiesUnder, Untouched
<1>. QED BY <1>1, <1>2 DEF LiesUnder, Untouched, Excluded, Kept

--------------------------------------------------------------------------------
(* Each step of the walk.                                                  *)
LEMMA OnlyRecorded == ASSUME NEW p, Record(p) PROVE ~Quiet'
BY DEF Record, Quiet

(* The walk sees the same world after its step as before.                  *)
LEMMA SameWorld ==
  ASSUME UNCHANGED world
  PROVE  /\ \A r : Standing(r)' <=> Standing(r)
         /\ \A r, d : Member(r, d)' <=> Member(r, d)
         /\ \A a, d : LiesUnder(a, d)' /\ (faults' = 0 => faults = 0) => LiesUnder(a, d)
BY DEF world, Standing, Member, LiesUnder, Excluded, Present, Steady, Untouched

LEMMA FaultCounts ==
  ASSUME faults \in Nat, NEW P, Fault(P)
  PROVE  faults' \in Nat /\ faults' # 0
BY DEF Fault

LEMMA ExcludeFinds ==
  ASSUME WorldInv, WalkInv, WalkedInv, faults \in Nat, Exclude, UNCHANGED unique, Quiet'
  PROVE  WalkedInv'
<1>1. pc = "start" /\ pc' = "roots" /\ UNCHANGED <<world, findVars, faults>>
  BY OnlyRecorded DEF Exclude, NoFault
<1>2. pending = {}
  BY <1>1 DEF WalkedInv, EndInv
<1>3. AtInv' /\ EndInv' /\ AnchorInv'
  BY <1>1, <1>2 DEF AtInv, EndInv, AnchorInv, At, Finding, findVars
<1>4. RootsInv' /\ EnteredInv'
  BY <1>1 DEF WalkedInv, RootsInv, EnteredInv, Entered, At, Excluded, findVars, world
<1>5. MembersInv'
  BY <1>1, SameWorld DEF WalkedInv, MembersInv, Known, At, findVars
<1>6. UpwardInv'
  BY <1>1, <1>2, SameWorld DEF WalkedInv, UpwardInv, Known, Searching, findVars, world
<1>. QED BY <1>3, <1>4, <1>5, <1>6 DEF WalkedInv

LEMMA NextRootFinds ==
  ASSUME WorldInv, WalkInv, WalkedInv, faults \in Nat, NextRoot, UNCHANGED unique, Quiet'
  PROVE  WalkedInv'
<1>. DEFINE root == Least(roots)
<1>1. pc = "roots" /\ pending = {} /\ UNCHANGED <<world, visited, anchor, found>>
  BY DEF NextRoot, WalkedInv, EndInv, findVars
<1>2. CASE roots = {} \/ cancelled
  <2>1. pc' = "identify" /\ roots = {} /\ UNCHANGED <<roots, pending, at, faults>>
    <3>1. ~cancelled
      BY <1>2, OnlyRecorded DEF NextRoot
    <3>. QED BY <1>2, <3>1 DEF NextRoot, findVars, NoFault
  <2>2. AtInv' /\ EndInv' /\ AnchorInv'
    BY <1>1, <2>1 DEF AtInv, EndInv, AnchorInv, At, Finding, Walking
  <2>3. RootsInv' /\ EnteredInv'
    BY <1>1, <2>1 DEF WalkedInv, RootsInv, EnteredInv, Entered, At, Excluded, world
  <2>4. MembersInv'
    BY <1>1, <2>1, SameWorld DEF WalkedInv, MembersInv, Known, At
  <2>5. UpwardInv'
    BY <1>1, <2>1, SameWorld DEF WalkedInv, UpwardInv, Known, Searching, world
  <2>. QED BY <2>2, <2>3, <2>4, <2>5 DEF WalkedInv
<1>3. CASE ~(roots = {} \/ cancelled)
  <2>1. root \in roots /\ root \in Dirs
    BY <1>3, LeastIsThere DEF WalkInv
  <2>2. /\ roots' = roots \ {root} /\ at' = root /\ UNCHANGED faults
        /\ \/ Excluded(root) /\ pc' = "roots" /\ pending' = {}
           \/ pc' = "ancestors" /\ pending' = {root}
    BY <1>1, <1>3, OnlyRecorded DEF NextRoot, NoFault
  <2>. HIDE DEF root
  <2>3. AtInv' /\ EndInv' /\ AnchorInv'
    BY <2>2 DEF AtInv, EndInv, AnchorInv, At, Finding, Walking
  <2>4. RootsInv'
    BY <1>1, <2>1, <2>2 DEF WalkedInv, RootsInv, Excluded, world
  <2>5. EnteredInv'
    BY <1>1, <2>2 DEF WalkedInv, EnteredInv, Entered, At, Excluded, world
  <2>6. MembersInv'
    BY <1>1, <2>2, SameWorld DEF WalkedInv, MembersInv, Known, At
  <2>7. ASSUME NEW a \in (request.roots \ roots)', NEW d \in Dirs, NEW r \in Repos,
               LiesUnder(a, d)', Member(r, d)', Standing(r)'
        PROVE  Known(r)' \/ Searching(a, d)'
    <3>1. LiesUnder(a, d) /\ Member(r, d) /\ Standing(r) /\ UNCHANGED request
      BY <1>1, <2>2, <2>7, SameWorld DEF world
    <3>2. CASE a = root
      <4>1. ~Excluded(root) /\ Contains(d, root) /\ Contains(root, root)
        BY <2>1, <3>1, <3>2, AboveSelf DEF LiesUnder
      <4>. QED BY <2>2, <3>2, <4>1 DEF Searching
    <3>3. CASE a # root
      <4>1. a \in request.roots \ roots
        BY <2>2, <3>1, <3>3
      <4>2. Known(r) \/ Searching(a, d)
        BY <3>1, <4>1 DEF WalkedInv, UpwardInv
      <4>. QED BY <1>1, <4>2 DEF Known, Searching
    <3>. QED BY <3>2, <3>3
  <2>. QED BY <2>3, <2>4, <2>5, <2>6, <2>7 DEF WalkedInv, UpwardInv
<1>. QED BY <1>2, <1>3

LEMMA AncestorsFinds ==
  ASSUME WorldInv, TreeInv, WalkInv, WalkedInv, faults \in Nat, Ancestors, UNCHANGED unique, Quiet'
  PROVE  WalkedInv'
<1>. DEFINE inside == at \notin pending
            marked == at \in exists /\ marker[at] # NoRepo
<1>1. /\ pc = "ancestors" /\ at \in Dirs /\ ~cancelled
      /\ UNCHANGED <<world, roots, pending, visited, anchor, found>>
  <2>1. pc = "ancestors" /\ pc' \in Finding /\ UNCHANGED cancelled
    BY DEF Ancestors, Finding, Walking, world
  <2>. QED BY <2>1 DEF Ancestors, WalkInv, Walking, Quiet
<1>2. \/ faults' # 0 /\ pc' = "walk" /\ at' = at
      \/ /\ faults' = faults /\ marked /\ at' = at
         /\ IF inside THEN marker[at] # Irregular /\ pc' = "common" ELSE pc' = "walk"
      \/ faults' = faults /\ ~marked /\ Parent[at] = at /\ pc' = "walk" /\ at' = at
      \/ faults' = faults /\ ~marked /\ Parent[at] # at /\ pc' = "ancestors" /\ at' = Parent[at]
  BY <1>1, OnlyRecorded, FaultCounts DEF Ancestors, NoFault
<1>3. AtInv' /\ EndInv' /\ AnchorInv'
  BY <1>1, <1>2 DEF AtInv, EndInv, AnchorInv, At, Finding, Walking
<1>4. RootsInv' /\ EnteredInv'
  BY <1>1 DEF WalkedInv, RootsInv, EnteredInv, Entered, At, Excluded, world
<1>5. MembersInv'
  BY <1>1, SameWorld DEF WalkedInv, MembersInv, Known, At
<1>6. ASSUME NEW a \in (request.roots \ roots)', NEW d \in Dirs, NEW r \in Repos,
             LiesUnder(a, d)', Member(r, d)', Standing(r)'
      PROVE  Known(r)' \/ Searching(a, d)'
  <2>1. faults' = 0 /\ faults' = faults
    BY <1>2, <1>6 DEF LiesUnder
  <2>2. LiesUnder(a, d) /\ Member(r, d) /\ Standing(r) /\ a \in request.roots \ roots
    BY <1>1, <1>6, <2>1, SameWorld DEF world
  <2>3. Known(r) \/ Searching(a, d)
    BY <2>2 DEF WalkedInv, UpwardInv
  <2>4. CASE Known(r)
    BY <1>1, <2>4 DEF Known
  <2>5. CASE Searching(a, d)
    <3>1. pending = {a} /\ Contains(d, at) /\ Contains(at, a) /\ a \in Dirs
      BY <1>1, <2>2, <2>5 DEF Searching, WorldInv
    <3>2. CASE at = d
      <4>1. marked /\ inside /\ marker[at] # Irregular
        BY <2>2, <3>1, <3>2 DEF Member, LiesUnder, TreeInv
      <4>2. pc' = "common" /\ at' = d
        BY <1>2, <2>1, <3>2, <4>1
      <4>. QED BY <1>1, <3>1, <4>2 DEF Searching
    <3>3. CASE at # d
      <4>1. ~marked
        BY <1>1, <2>2, <3>1, <3>3 DEF LiesUnder
      <4>2. d \in Above[at]
        BY <1>1, <3>1 DEF Contains
      <4>3. d \in Above[Parent[at]] /\ Parent[at] # at
        <5>1. d \in Above[Parent[at]]
          BY <1>1, <3>3, <4>2, AboveParent
        <5>2. ASSUME Parent[at] = at PROVE FALSE
          <6>1. {at} \in Upward /\ at \in {at}
            BY <1>1, <5>2 DEF Upward
          <6>2. d \in {at}
            BY <1>1, <4>2, <6>1, AboveIs
          <6>. QED BY <3>3, <6>2
        <5>. QED BY <5>1, <5>2
      <4>4. pc' = "ancestors" /\ at' = Parent[at]
        BY <1>2, <2>1, <4>1, <4>3
      <4>5. Contains(d, at') /\ Contains(at', a)
        <5>1. at \in Above[a]
          BY <3>1 DEF Contains
        <5>2. Parent[at] \in Above[a]
          BY <3>1, <5>1, AboveUpward DEF Upward
        <5>. QED BY <1>1, <3>1, <4>3, <4>4, <5>2 DEF Contains
      <4>. QED BY <1>1, <3>1, <4>4, <4>5 DEF Searching
    <3>. QED BY <3>2, <3>3
  <2>. QED BY <2>3, <2>4, <2>5
<1>. QED BY <1>3, <1>4, <1>5, <1>6 DEF WalkedInv, UpwardInv

LEMMA WalkFinds ==
  ASSUME WorldInv, TreeInv, WalkInv, WalkedInv, faults \in Nat, Walk, UNCHANGED unique, Quiet'
  PROVE  WalkedInv'
<1>. DEFINE d == Least(pending)
<1>1. /\ pc = "walk" /\ d \in pending /\ d \in Dirs
      /\ UNCHANGED <<world, found, roots, anchor>>
  BY LeastIsThere, OnlyRecorded DEF Walk, Quit, WalkInv, Walking
<1>2. \/ /\ Excluded(d) \/ d \in visited
         /\ pending' = pending \ {d} /\ pc' = IF pending' = {} THEN "roots" ELSE "walk"
         /\ UNCHANGED <<at, visited, faults>>
      \/ /\ visited' = visited \cup {d} /\ at' = d /\ UNCHANGED <<pending, faults>>
         /\ pc' = IF marker[d] \in Repos THEN "common" ELSE "read"
  BY OnlyRecorded DEF Walk, Quit, Walked, NoFault
<1>. HIDE DEF d
<1>3. AtInv' /\ EndInv' /\ AnchorInv'
  BY <1>1, <1>2 DEF AtInv, EndInv, AnchorInv, At, Finding, Walking
<1>4. RootsInv'
  BY <1>1, <1>2 DEF WalkedInv, RootsInv, Excluded, world
<1>5. EnteredInv'
  <2>1. \A e \in visited : Entered(e)
    BY <1>1 DEF WalkedInv, EnteredInv, At
  <2>2. \A e \in visited : Entered(e)'
    BY <1>1, <1>2, <2>1 DEF Entered, Excluded, world
  <2>. QED BY <1>1, <1>2, <2>2 DEF EnteredInv, At
<1>6. MembersInv'
  BY <1>1, <1>2, SameWorld DEF WalkedInv, MembersInv, Known, At, Member
<1>7. UpwardInv'
  BY <1>1, <1>2, SameWorld DEF WalkedInv, UpwardInv, Known, Searching, world
<1>. QED BY <1>3, <1>4, <1>5, <1>6, <1>7 DEF WalkedInv

LEMMA CommonFinds ==
  ASSUME WorldInv, TreeInv, WalkInv, WalkedInv, faults \in Nat, ConsiderCommon,
         UNCHANGED unique, Quiet'
  PROVE  WalkedInv'
<1>1. /\ pc = "common" /\ at \in Dirs
      /\ UNCHANGED <<world, roots, pending, at, visited, found, faults>>
      /\ \/ GitRepo(at) \in found /\ pc' = IF at \in pending THEN "read" ELSE "walk"
         \/ pc' = "anchor" /\ anchor' = GitRepo(at)
  BY OnlyRecorded DEF ConsiderCommon, Considered, WalkInv, Walking, NoFault
<1>2. \A r \in Repos : Member(r, at) /\ Standing(r) => GitRepo(at) = r
  BY <1>1, StandingRepo
<1>3. AtInv' /\ EndInv'
  BY <1>1 DEF WalkedInv, AtInv, EndInv, At, Finding, Walking
<1>4. AnchorInv'
  BY <1>1, <1>2, SameWorld DEF AnchorInv
<1>5. RootsInv'
  BY <1>1 DEF WalkedInv, RootsInv, Excluded, world
<1>6. EnteredInv'
  BY <1>1 DEF WalkedInv, EnteredInv, Entered, At, Excluded, world
<1>7. MembersInv'
  BY <1>1, <1>2, SameWorld DEF WalkedInv, MembersInv, Known, At
<1>8. UpwardInv'
  BY <1>1, <1>2, SameWorld DEF WalkedInv, UpwardInv, Known, Searching, world
<1>. QED BY <1>3, <1>4, <1>5, <1>6, <1>7, <1>8 DEF WalkedInv

LEMMA AnchorFinds ==
  ASSUME WorldInv, TreeInv, WalkInv, WalkedInv, faults \in Nat, ConsiderAnchor,
         UNCHANGED unique, Quiet'
  PROVE  WalkedInv'
<1>1. /\ pc = "anchor" /\ at \in Dirs /\ pc' = IF at \in pending THEN "read" ELSE "walk"
      /\ UNCHANGED <<world, roots, pending, at, visited, faults>>
      /\ found \subseteq found'
      /\ \/ Excluded(Primary[anchor])
         \/ request.data # NoDir /\ Contains(request.data, Common[anchor])
         \/ anchor \in found'
  BY OnlyRecorded DEF ConsiderAnchor, Considered, WalkInv, Walking, NoFault
<1>2. \A r \in Repos : Member(r, at) /\ Standing(r) => Known(r)'
  BY <1>1 DEF WalkedInv, AnchorInv, Standing, Known
<1>3. \A r \in Repos : Known(r) => Known(r)'
  BY <1>1 DEF Known
<1>4. AtInv' /\ EndInv' /\ AnchorInv'
  BY <1>1 DEF WalkedInv, AtInv, EndInv, AnchorInv, At, Finding, Walking
<1>5. RootsInv'
  BY <1>1 DEF WalkedInv, RootsInv, Excluded, world
<1>6. EnteredInv'
  BY <1>1 DEF WalkedInv, EnteredInv, Entered, At, Excluded, world
<1>7. MembersInv'
  BY <1>1, <1>2, <1>3, SameWorld DEF WalkedInv, MembersInv, At
<1>8. UpwardInv'
  BY <1>1, <1>2, <1>3, SameWorld DEF WalkedInv, UpwardInv, Searching, world
<1>. QED BY <1>4, <1>5, <1>6, <1>7, <1>8 DEF WalkedInv

LEMMA ReadFinds ==
  ASSUME WorldInv, TreeInv, WalkInv, WalkedInv, faults \in Nat, ReadDirectory,
         UNCHANGED unique, Quiet'
  PROVE  WalkedInv'
<1>1. /\ pc = "read" /\ at \in Dirs /\ at \in visited
      /\ UNCHANGED <<world, roots, at, visited, anchor, found, faults>>
      /\ pending' = (pending \ {at}) \cup Children(at)
      /\ pc' = IF pending' = {} THEN "roots" ELSE "walk"
  BY OnlyRecorded DEF ReadDirectory, Quit, WalkInv, Walking, NoFault, WalkedInv, AtInv, At
<1>2. AtInv' /\ EndInv' /\ AnchorInv'
  BY <1>1 DEF AtInv, EndInv, AnchorInv, At, Finding, Walking
<1>3. RootsInv'
  BY <1>1 DEF WalkedInv, RootsInv, Excluded, world
<1>4. EnteredInv'
  <2>1. \A e \in visited : e # at => Entered(e)
    BY DEF WalkedInv, EnteredInv
  <2>2. \A e \in visited : e # at => Entered(e)'
    BY <1>1, <2>1 DEF Entered, Excluded, world
  <2>3. \A c \in exists \cap Dirs : ~Excluded(c) => c \notin Ignored
    BY AboveSelf DEF Excluded
  <2>4. \A c \in exists : Parent[c] = at /\ c # at /\ ~Excluded(c) => c \in Children(at)
    BY <2>3 DEF Children, WorldInv
  <2>5. Entered(at)'
    BY <1>1, <2>4 DEF Entered, Excluded, world
  <2>. QED BY <1>1, <2>2, <2>5 DEF EnteredInv
<1>5. MembersInv'
  BY <1>1, SameWorld DEF WalkedInv, MembersInv, Known, At
<1>6. UpwardInv'
  BY <1>1, SameWorld DEF WalkedInv, UpwardInv, Known, Searching, world
<1>. QED BY <1>2, <1>3, <1>4, <1>5, <1>6 DEF WalkedInv

LEMMA AfterWalk ==
  ASSUME WalkedInv, pc \notin Finding, pc' \notin Finding,
         UNCHANGED <<world, roots, pending, at, visited, anchor>>,
         \A r \in Repos : Known(r) => Known(r)', faults' = 0 => faults = 0
  PROVE  WalkedInv'
<1>. USE DEF Finding, Walking
<1>1. AtInv' /\ EndInv' /\ AnchorInv'
  BY DEF WalkedInv, AtInv, EndInv, AnchorInv, At
<1>2. RootsInv'
  BY DEF WalkedInv, RootsInv, Excluded, world
<1>3. EnteredInv'
  BY DEF WalkedInv, EnteredInv, Entered, At, Excluded, world
<1>4. MembersInv'
  BY SameWorld DEF WalkedInv, MembersInv, At
<1>5. UpwardInv'
  BY SameWorld DEF WalkedInv, UpwardInv, Searching, world
<1>. QED BY <1>1, <1>2, <1>3, <1>4, <1>5 DEF WalkedInv

(* What others do makes no assertion harder.                               *)
LEMMA OthersFind ==
  ASSUME WorldInv, TreeInv, WalkInv, WalkedInv, Next, Others, UNCHANGED unique
  PROVE  WalkedInv'
<1>1. UNCHANGED <<request, faults, pc, roots, pending, at, visited, anchor, found>>
      /\ changed \subseteq changed' /\ \A e \in Dirs \ changed' : Kept(e)
  BY OthersStep DEF findVars
<1>2. request.roots \subseteq Dirs
  BY DEF WorldInv
<1>3. AtInv' /\ EndInv'
  BY <1>1 DEF WalkedInv, AtInv, EndInv, At
<1>4. RootsInv'
  BY <1>1 DEF WalkedInv, RootsInv, Excluded
<1>5. EnteredInv'
  <2>1. (exists \ changed)' \subseteq exists \ changed
    BY <1>1, WorldStep DEF WorldInv, Kept
  <2>2. \A e \in visited : Entered(e) => Entered(e)'
    BY <1>1, <2>1 DEF Entered, Excluded
  <2>. QED BY <1>1, <2>2 DEF WalkedInv, EnteredInv, At
<1>6. MembersInv'
  <2>1. visited \subseteq Dirs
    BY DEF WalkInv
  <2>. QED BY <1>1, <2>1, StandingBefore, MemberBefore DEF WalkedInv, MembersInv, Known, At
<1>7. AnchorInv'
  <2>1. pc = "anchor" => at \in Dirs
    BY DEF WalkInv, Walking
  <2>. QED BY <1>1, <2>1, StandingBefore, MemberBefore DEF WalkedInv, AnchorInv
<1>8. UpwardInv'
  BY <1>1, <1>2, StandingBefore, MemberBefore, LiesUnderBefore
     DEF WalkedInv, UpwardInv, Known, Searching
<1>. QED BY <1>3, <1>4, <1>5, <1>6, <1>7, <1>8 DEF WalkedInv

(* Failures are only ever added.                                           *)
LEMMA FaultsGrow ==
  ASSUME WorkInv, [Next]_vars
  PROVE  incomplete \subseteq incomplete' /\ (faults \in Nat => faults' \in {faults, faults + 1})
<1>. USE DEF Record, NoFailure, Fault, NoFault
<1>1. CASE Find
  BY <1>1 DEF Find, Exclude, NextRoot, Ancestors, Walk, Quit, ConsiderCommon, ConsiderAnchor,
              ReadDirectory
<1>2. CASE Identify \/ Start
  BY <1>2 DEF Identify, Start
<1>3. ASSUME NEW w \in Workers, Work(w)
      PROVE  incomplete \subseteq incomplete' /\ faults' \in {faults, faults + 1}
  BY <1>3 DEF Work, Exit, List, Locate, Inspect, Measure
<1>4. CASE (\E w \in Workers : Send(w)) \/ Close \/ Merge \/ UNCHANGED vars
  BY <1>4 DEF Send, Close, Merge, vars, discoveryVars
<1>5. CASE Others
  BY <1>5 DEF Others, RemoveTree, MakeDirectory, Mark, Register, Cancel, otherVars
<1>. QED BY <1>1, <1>2, <1>3, <1>4, <1>5 DEF Next, Load, Discover

FoundInv == faults \in Nat /\ (Quiet => WalkedInv)

LEMMA QuietBefore == ASSUME WorldInv, TreeInv, WorkInv, [Next]_vars, Quiet' PROVE Quiet
<1>1. incomplete = {} /\ (cancelled => cancelled')
  BY FaultsGrow, WorldMoves DEF Quiet
<1>2. CASE pc \notin Finding \/ pc' \in Finding
  BY <1>1, <1>2 DEF Quiet
<1>3. CASE pc \in Finding /\ pc' \notin Finding
  <2>. USE DEF Finding, Walking
  <2>1. pc' # pc /\ Find
    <3>1. ~(\E w \in Workers : Work(w))
      BY <1>3, WorkersWork
    <3>2. ~Feeding
      BY <1>3 DEF Feeding, Identify, Start, Send, Close, Merge
    <3>3. ~Others /\ ~UNCHANGED vars
      BY <1>3, OthersStep DEF vars, discoveryVars
    <3>. QED BY <1>3, <3>1, <3>2, <3>3 DEF Next, Load, Discover, Feeding
  <2>2. ~cancelled
    BY <1>3, <2>1, OnlyRecorded
       DEF Find, Exclude, NextRoot, Ancestors, Walk, Walked, Quit, ConsiderCommon, ConsiderAnchor,
           Considered, ReadDirectory
  <2>. QED BY <1>1, <2>2 DEF Quiet
<1>. QED BY <1>2, <1>3

LEMMA FoundStep ==
  ASSUME WorldInv, TreeInv, WalkInv, WorkInv, FoundInv, [Next]_vars
  PROVE  FoundInv'
<1>. USE DEF Finding, Walking
<1>1. faults' \in Nat /\ (faults' = 0 => faults = 0)
  BY FaultsGrow DEF FoundInv
<1>. SUFFICES ASSUME Quiet' PROVE WalkedInv'
  BY <1>1 DEF FoundInv
<1>2. WalkedInv /\ faults \in Nat
  BY QuietBefore DEF FoundInv
<1>3. CASE Discover
  <2>1. UNCHANGED unique /\ Find
    BY <1>3 DEF Discover, loadVars
  <2>. QED BY <1>2, <2>1, ExcludeFinds, NextRootFinds, AncestorsFinds, WalkFinds, CommonFinds,
              AnchorFinds, ReadFinds DEF Find
<1>4. CASE Identify
  <2>1. /\ pc = "identify" /\ pc' = "identify"
        /\ UNCHANGED <<world, roots, pending, at, visited, anchor>>
    BY <1>4 DEF Identify
  <2>2. \E r : found' = found \ {r} /\ unique' = unique \cup {r}
    BY <1>4, OnlyRecorded DEF Identify
  <2>3. \A r \in Repos : Known(r) => Known(r)'
    BY <2>2 DEF Known
  <2>. QED BY <1>1, <1>2, <2>1, <2>3, AfterWalk
<1>5. CASE Start \/ (\E w \in Workers : Send(w)) \/ Close \/ Merge \/ (\E w \in Workers : Work(w))
  <2>1. /\ pc \notin Finding /\ pc' \notin Finding
        /\ UNCHANGED <<world, roots, pending, at, visited, anchor, found, unique>>
    <3>1. CASE Start
      BY <3>1 DEF Start, Return, findVars
    <3>2. CASE (\E w \in Workers : Send(w)) \/ Close \/ Merge
      BY <3>2 DEF Send, Close, Merge, Return, findVars, loadVars, discoveryVars
    <3>3. ASSUME NEW w \in Workers, Work(w)
          PROVE  /\ pc \notin Finding /\ pc' \notin Finding
                 /\ UNCHANGED <<world, roots, pending, at, visited, anchor, found, unique>>
      BY <3>3, WorkersWork, WorkFrame DEF othersOfWorker, findVars
    <3>. QED BY <1>5, <3>1, <3>2, <3>3
  <2>2. \A r \in Repos : Known(r) => Known(r)'
    BY <2>1 DEF Known
  <2>. QED BY <1>1, <1>2, <2>1, <2>2, AfterWalk
<1>6. CASE Next /\ Others /\ UNCHANGED loadVars
  BY <1>2, <1>6, OthersFind DEF loadVars
<1>7. CASE UNCHANGED vars
  <2>1. /\ UNCHANGED <<world, pc, roots, pending, at, visited, anchor, found, unique, faults>>
    BY <1>7 DEF vars, discoveryVars, findVars, loadVars
  <2>. QED BY <1>2, <2>1, SameWorld
          DEF WalkedInv, AtInv, EndInv, AnchorInv, RootsInv, EnteredInv, Entered, MembersInv,
              UpwardInv, Known, At, Searching, Excluded, world
<1>. QED BY <1>3, <1>4, <1>5, <1>6, <1>7 DEF Next, Load

--------------------------------------------------------------------------------
(* Along a way that nobody touched, the walk from a root comes to its end.  *)
LEMMA WayIsWalked ==
  ASSUME WalkedInv, pc \notin Finding, NEW a \in visited, NEW d \in Dirs, Contains(a, d),
         Untouched(a, d), Above[d] \subseteq exists, ~Excluded(d)
  PROVE  d \in visited
<1>. SUFFICES ASSUME d \notin visited PROVE FALSE
  OBVIOUS
<1>. DEFINE S == {e \in Above[d] : a \in Above[e] => e \notin visited}
<1>1. a \in Above[d] /\ a \in Dirs
  BY AboveDirs DEF Contains
<1>2. pending = {} /\ \A e \in visited : Entered(e)
  BY DEF WalkedInv, EndInv, EnteredInv, At
<1>3. ASSUME NEW e \in S PROVE Parent[e] \in S
  <2>1. e \in Dirs /\ e \in Above[d] /\ Parent[e] \in Dirs /\ Parent[e] \in Above[d]
    BY AboveDirs, AboveUpward DEF Upward
  <2>2. ASSUME a \in Above[Parent[e]], Parent[e] \in visited PROVE FALSE
    <3>1. a \in Above[e]
      BY <2>1, <2>2, AboveParent
    <3>2. e \notin visited /\ e # Parent[e]
      BY <2>2, <3>1
    <3>3. e \in exists /\ e \notin changed /\ ~Excluded(e)
      BY <2>1, <3>1, NotExcludedAbove DEF Untouched, Contains
    <3>. QED BY <1>2, <2>2, <3>2, <3>3 DEF Entered
  <2>. QED BY <2>1, <2>2
<1>4. S \in Upward
  BY <1>3, AboveDirs DEF Upward
<1>5. d \in S
  BY AboveSelf
<1>. HIDE DEF S
<1>6. a \in S
  BY <1>1, <1>4, <1>5, AboveIs
<1>. QED BY <1>1, <1>6, AboveSelf DEF S

LEMMA ReachedIsKnown ==
  ASSUME WorldInv, WalkedInv, pc \notin Finding, NEW d \in Dirs, NEW r \in Repos,
         Reached(d), marker[d] = r, d \in registered[r], ~Excluded(d), Standing(r)
  PROVE  Known(r)
<1>1. PICK a \in request.roots :
        \/ Contains(a, d) /\ Untouched(a, d) /\ Above[d] \cap exists = Above[d]
        \/ /\ Contains(d, a) /\ Untouched(d, a) /\ faults = 0 /\ a \in exists /\ ~Excluded(a)
           /\ \A e \in Dirs : Contains(d, e) /\ Contains(e, a) /\ e # d => marker[e] = NoRepo
  BY DEF Reached
<1>2. a \in Dirs /\ roots = {} /\ pending = {}
  BY DEF WorldInv, WalkedInv, EndInv
<1>3. d \notin changed
  BY <1>1, AboveSelf DEF Untouched
<1>4. Member(r, d)
  BY <1>3 DEF Member
<1>5. d \in visited => Known(r)
  BY <1>4 DEF WalkedInv, MembersInv, At, Finding, Walking
<1>6. ~Excluded(a) => a \in visited
  BY <1>2 DEF WalkedInv, RootsInv
<1>7. CASE Contains(a, d) /\ Untouched(a, d) /\ Above[d] \cap exists = Above[d]
  <2>1. ~Excluded(a)
    BY <1>7, NotExcludedAbove DEF Contains
  <2>. QED BY <1>5, <1>6, <1>7, <2>1, WayIsWalked
<1>8. CASE a = d
  BY <1>1, <1>5, <1>6, <1>7, <1>8
<1>9. CASE LiesUnder(a, d)
  <2>1. Known(r) \/ Searching(a, d)
    BY <1>2, <1>4, <1>9 DEF WalkedInv, UpwardInv
  <2>. QED BY <2>1 DEF Searching, Finding, Walking
<1>. QED BY <1>1, <1>7, <1>8, <1>9 DEF LiesUnder

--------------------------------------------------------------------------------
(* Every repository that stands is still to be sent, or with a worker that  *)
(* has listed its worktrees and goes through them, or has all of them in    *)
(* its slot of the results.                                                *)
HasItem(r, e) == \E t \in results[r] : t.path = e /\ t.repo = r

AllListed(r) == \A e \in registered[r] \ changed : HasItem(r, e)

Loading(w, r) ==
  /\ worker[w].job = r
  /\ \/ worker[w].step = "list"
     \/ /\ worker[w].listed = r
        /\ \A e \in registered[r] \ changed : e \in worker[w].left \/ HasItem(r, e)

LoadInv ==
  /\ pc \in {"feed", "wait"} => found = {}
  /\ pc = "wait" => jobs = {}
  /\ Quiet /\ pc \in {"feed", "wait"} =>
       \A r \in unique : Standing(r) =>
         r \in jobs \/ (\E w \in Workers : Loading(w, r)) \/ AllListed(r)

LEMMA ItemsStay ==
  ASSUME WorkInv, [Next]_vars, NEW r \in Repos, NEW e, HasItem(r, e)
  PROVE  HasItem(r, e)'
<1>1. results[r] \subseteq results'[r]
  <2>1. CASE UNCHANGED results
    BY <2>1
  <2>2. ASSUME NEW w \in Workers, NEW free \in BOOLEAN, Finish(w, free)
        PROVE  results[r] \subseteq results'[r]
    BY <2>2 DEF Finish, WorkInv
  <2>3. ASSUME NEW w \in Workers, Work(w)
        PROVE  UNCHANGED results \/ \E free \in BOOLEAN : Finish(w, free)
    BY <2>3 DEF Work, Exit, List, Locate, Inspect, Measure, GoOn
  <2>4. UNCHANGED results \/ \E w \in Workers : Work(w)
    BY DEF Next, Load, Discover, Identify, Start, Send, Close, Merge, discoveryVars, vars, loadVars
  <2>. QED BY <2>1, <2>2, <2>3, <2>4
<1>. QED BY <1>1 DEF HasItem

(* What another worker does, or others do, does not lose a repository.     *)
LEMMA StillLoading ==
  ASSUME WorldInv, TreeInv, WorkInv, [Next]_vars, NEW r \in Repos
  PROVE  /\ AllListed(r) => AllListed(r)'
         /\ \A w \in Workers : Loading(w, r) /\ worker'[w] = worker[w] => Loading(w, r)'
<1>1. \A e \in (registered[r] \ changed)' : e \in registered[r] \ changed
  <2>1. registered'[r] \subseteq Dirs
    BY WorldStep DEF WorldInv
  <2>. QED BY <2>1, WorldMoves DEF Kept
<1>. QED BY <1>1, ItemsStay DEF AllListed, Loading

LEMMA ListLoads ==
  ASSUME WorldInv, TreeInv, WorkInv, NEW w \in Workers, List(w), Quiet',
         NEW r \in Repos, worker[w].job = r, Standing(r)
  PROVE  Loading(w, r)'
<1>1. GitRepo(Primary[r]) = r
  BY StandingRepo
<1>2. worker' = [worker EXCEPT ![w].step = "locate", ![w].listed = r, ![w].left = registered[r]]
  BY <1>1, OnlyRecorded DEF List
<1>3. worker[w] \in [step : {"gone", "idle", "list"} \cup Busy, job : Repos \cup {NoRepo},
                     listed : Repos \cup {NoRepo}, left : SUBSET Dirs]
  BY DEF WorkInv
<1>4. worker'[w].job = r /\ worker'[w].listed = r /\ worker'[w].left = registered[r]
  BY <1>2, <1>3 DEF WorkInv
<1>5. UNCHANGED <<registered, changed>>
  BY DEF List, othersOfWorker, world
<1>. QED BY <1>4, <1>5 DEF Loading

LEMMA FinishLoads ==
  ASSUME WorldInv, WorkInv, NEW w \in Workers, NEW free \in BOOLEAN, Finish(w, free),
         worker[w].step \in Busy, UNCHANGED <<registered, changed>>,
         NEW r \in Repos, Loading(w, r)
  PROVE  Loading(w, r)' \/ AllListed(r)'
<1>. DEFINE left == worker[w].left \ {Path(w)}
            t == [path |-> Path(w), repo |-> worker[w].listed, free |-> free]
<1>1. worker[w].job = r /\ worker[w].listed = r
  BY DEF Loading, Busy
<1>2. results'[r] = results[r] \cup {t}
  BY <1>1 DEF Finish, WorkInv
<1>3. t.path = Path(w) /\ t.repo = r
  BY <1>1
<1>. HIDE DEF t
<1>4. \A e : HasItem(r, e) => HasItem(r, e)'
  BY <1>2 DEF HasItem
<1>5. \A e \in registered[r] \ changed : e \in left \/ HasItem(r, e)'
  <2>1. \A e \in registered[r] \ changed : e \in worker[w].left \/ HasItem(r, e)
    BY DEF Loading, Busy
  <2>2. \A e \in registered[r] \ changed : e = Path(w) => HasItem(r, e)'
    BY <1>2, <1>3 DEF HasItem
  <2>. QED BY <1>4, <2>1, <2>2
<1>6. CASE left = {}
  BY <1>5, <1>6 DEF AllListed, HasItem
<1>7. CASE left # {}
  <2>1. worker[w] \in [step : {"gone", "idle", "list"} \cup Busy, job : Repos \cup {NoRepo},
                       listed : Repos \cup {NoRepo}, left : SUBSET Dirs]
    BY DEF WorkInv
  <2>2. worker'[w] = [worker[w] EXCEPT !.step = "locate", !.left = left]
    BY <1>7 DEF Finish, NextPath, WorkInv
  <2>3. worker'[w].job = r /\ worker'[w].listed = r /\ worker'[w].left = left
    BY <1>1, <2>1, <2>2
  <2>. QED BY <1>5, <2>3 DEF Loading, HasItem
<1>. QED BY <1>6, <1>7

LEMMA GoOnLoads ==
  ASSUME WorkInv, NEW w \in Workers, NEW step, GoOn(w, step), worker[w].step \in Busy,
         UNCHANGED <<registered, changed>>, NEW r \in Repos, Loading(w, r)
  PROVE  Loading(w, r)'
<1>1. worker[w] \in [step : {"gone", "idle", "list"} \cup Busy, job : Repos \cup {NoRepo},
                     listed : Repos \cup {NoRepo}, left : SUBSET Dirs]
  BY DEF WorkInv
<1>2. worker'[w] = [worker[w] EXCEPT !.step = step] /\ UNCHANGED results
  BY DEF GoOn, WorkInv
<1>3. /\ worker'[w].job = worker[w].job /\ worker'[w].listed = worker[w].listed
      /\ worker'[w].left = worker[w].left
  BY <1>1, <1>2
<1>. QED BY <1>2, <1>3 DEF Loading, HasItem, Busy

LEMMA LoadStep ==
  ASSUME WorldInv, TreeInv, WorkInv, LoadInv, [Next]_vars
  PROVE  LoadInv'
<1>1. CASE Discover
  <2>1. pc' \notin {"feed", "wait"}
    BY <1>1 DEF Discover, Find, Exclude, NextRoot, Ancestors, Walk, Walked, Quit, ConsiderCommon,
                ConsiderAnchor, Considered, ReadDirectory
  <2>. QED BY <2>1 DEF LoadInv
<1>2. CASE Identify
  <2>1. pc' = "identify"
    BY <1>2 DEF Identify
  <2>. QED BY <2>1 DEF LoadInv
<1>3. CASE Start
  <2>1. /\ found' = {} /\ pc' \in {"feed", "done"}
        /\ pc' = "feed" => jobs' = unique'
    BY <1>3 DEF Start, Return, findVars
  <2>. QED BY <2>1 DEF LoadInv
<1>4. ASSUME NEW v \in Workers, Send(v) PROVE LoadInv'
  <2>0. PICK q \in Repos : q = FirstRepo(jobs)
    BY <1>4, FirstRepoIsThere DEF Send, WorkInv
  <2>1. /\ pc = "feed" /\ UNCHANGED <<world, pc, found, unique, incomplete>>
        /\ jobs' = jobs \ {q} /\ worker[v].job = NoRepo
        /\ worker' = [worker EXCEPT ![v] = [Idle EXCEPT !.step = "list", !.job = q]]
    BY <1>4, <2>0 DEF Send, discoveryVars, findVars, WorkInv
  <2>2. Loading(v, q)'
    BY <2>1 DEF Loading, Idle, NotStarted, WorkInv
  <2>3. \A w \in Workers \ {v} : worker'[w] = worker[w]
    BY <2>1 DEF WorkInv
  <2>4. \A r \in Repos : ~Loading(v, r)
    BY <2>1 DEF Loading
  <2>5. \A r \in unique : (r \in jobs \/ (\E w \in Workers : Loading(w, r)) \/ AllListed(r))
                     => (r \in jobs' \/ (\E w \in Workers : Loading(w, r)') \/ AllListed(r)')
    BY <2>1, <2>2, <2>3, <2>4, StillLoading DEF WorkInv
  <2>6. Quiet' <=> Quiet
    BY <2>1 DEF Quiet, world
  <2>. QED BY <2>1, <2>5, <2>6, SameWorld DEF LoadInv
<1>5. CASE Close
  <2>1. /\ pc = "feed" /\ pc' = "wait" /\ jobs = {}
        /\ UNCHANGED <<world, found, unique, incomplete, jobs, worker>>
    BY <1>5 DEF Close, findVars, loadVars
  <2>2. \A r \in unique : (r \in jobs \/ (\E w \in Workers : Loading(w, r)) \/ AllListed(r))
                     => (r \in jobs' \/ (\E w \in Workers : Loading(w, r)') \/ AllListed(r)')
    BY <2>1, StillLoading DEF WorkInv
  <2>3. Quiet' => Quiet
    BY QuietBefore
  <2>. QED BY <2>1, <2>2, <2>3, SameWorld DEF LoadInv
<1>6. CASE Merge
  BY <1>6 DEF Merge, Return, LoadInv
<1>7. ASSUME NEW v \in Workers, Work(v) PROVE LoadInv'
  <2>1. UNCHANGED <<world, pc, found, unique, jobs>>
    BY <1>7, WorkFrame DEF othersOfWorker, findVars
  <2>2. \A w \in Workers \ {v} : worker'[w] = worker[w]
    BY <1>7 DEF Work, Exit, List, Locate, Inspect, Measure, Finish, GoOn, WorkInv
  <2>3. UNCHANGED <<registered, changed>>
    BY <2>1 DEF world
  <2>4. ASSUME Quiet', NEW r \in Repos, Standing(r), Loading(v, r)
        PROVE  Loading(v, r)' \/ AllListed(r)'
    <3>1. worker[v].job = r /\ worker[v].job # NoRepo
      BY <2>4 DEF Loading
    <3>2. CASE Exit(v)
      BY <3>1, <3>2 DEF Exit, WorkInv
    <3>3. CASE List(v)
      BY <2>4, <3>1, <3>3, ListLoads
    <3>4. CASE Locate(v) \/ Inspect(v) \/ Measure(v)
      <4>1. worker[v].step \in Busy
        BY <3>4 DEF Locate, Inspect, Measure, Busy
      <4>2. (\E free \in BOOLEAN : Finish(v, free)) \/ (\E step \in Busy : GoOn(v, step))
        BY <3>4 DEF Locate, Inspect, Measure, Busy
      <4>. QED BY <2>3, <2>4, <4>1, <4>2, FinishLoads, GoOnLoads
    <3>. QED BY <1>7, <3>2, <3>3, <3>4 DEF Work
  <2>5. \A r \in unique : r \in Repos
    BY DEF WorkInv
  <2>6. Quiet' => Quiet
    BY QuietBefore
  <2>. QED BY <2>1, <2>2, <2>4, <2>5, <2>6, SameWorld, StillLoading DEF LoadInv
<1>8. CASE Others /\ UNCHANGED loadVars
  <2>1. UNCHANGED <<pc, found, incomplete, unique, jobs, worker>>
    BY <1>8, OthersStep DEF findVars, loadVars
  <2>2. \A r \in unique : r \in Repos
    BY DEF WorkInv
  <2>. QED BY <2>1, <2>2, QuietBefore, StandingBefore, StillLoading DEF LoadInv
<1>9. CASE UNCHANGED vars
  <2>1. UNCHANGED <<world, pc, found, incomplete, unique, jobs, worker, results>>
    BY <1>9 DEF vars, discoveryVars, findVars, loadVars
  <2>2. \A r \in unique : r \in Repos
    BY DEF WorkInv
  <2>. QED BY <2>1, <2>2, SameWorld, StillLoading DEF LoadInv, Quiet, world
<1>. QED BY <1>1, <1>2, <1>3, <1>4, <1>5, <1>6, <1>7, <1>8, <1>9 DEF Next, Load

LEMMA SilentStep ==
  ASSUME WorldInv, TreeInv, WorkInv, FoundInv, LoadInv, SilentInventoryIsComplete, [Next]_vars
  PROVE  SilentInventoryIsComplete'
<1>1. CASE pc = "done"
  <2>1. UNCHANGED vars
    BY <1>1, DoneStays
  <2>. QED BY <2>1 DEF SilentInventoryIsComplete, Reached, Untouched, Excluded, Present, Steady,
                       vars, discoveryVars, world, loadVars
<1>2. CASE pc # "done" /\ pc' = "done"
  <2>1. (Start /\ unique = {}) \/ Merge
    BY <1>2, Returns DEF vars, discoveryVars
  <2>2. /\ UNCHANGED <<world, faults, unique>> /\ pc \notin Finding /\ found = {}
    BY <2>1 DEF Start, Merge, Return, NoFault, LoadInv, Finding, Walking
  <2>. SUFFICES ASSUME out'.silent, NEW r \in Repos, NEW d \in Dirs,
                       Reached(d), marker[d] = r, d \in registered[r], ~Excluded(d), Standing(r),
                       NEW e \in registered[r] \ changed
       PROVE  \E t \in out'.worktrees : t.path = e /\ t.repo = r
    BY <2>2 DEF SilentInventoryIsComplete, Reached, Untouched, Excluded, Present, Steady, Standing,
                world
  <2>3. Quiet
    <3>1. CASE Start /\ unique = {}
      <4>1. out' = [worktrees |-> {}, silent |-> incomplete = {}]
        BY <3>1 DEF Start, Return
      <4>2. incomplete = {}
        BY <4>1
      <4>. QED BY <2>2, <4>2 DEF Quiet
    <3>2. CASE Merge
      <4>. DEFINE silent == /\ incomplete = {} /\ ~reported /\ ~cancelled /\ cwdKnown
                            /\ \A t \in Loaded : ~InMetadata(t) /\ ~Overlapped(t)
                  free == {[t EXCEPT !.free = t.free /\ ~Protected(t)] : t \in Loaded}
      <4>1. out' = [worktrees |-> free, silent |-> silent]
        BY <3>2 DEF Merge, Return
      <4>. HIDE DEF silent, free
      <4>2. silent
        BY <4>1
      <4>. QED BY <2>2, <4>2 DEF Quiet, silent
    <3>. QED BY <2>1, <3>1, <3>2
  <2>4. Known(r)
    BY <2>2, <2>3, ReachedIsKnown DEF FoundInv
  <2>5. r \in unique /\ Merge
    BY <2>1, <2>2, <2>4 DEF Known
  <2>6. pc = "wait" /\ \A w \in Workers : worker[w].job = NoRepo
    BY <2>5 DEF Merge, WorkInv
  <2>7. HasItem(r, e)
    BY <2>3, <2>5, <2>6 DEF LoadInv, Loading, AllListed
  <2>8. PICK t \in results[r] : t.path = e /\ t.repo = r
    BY <2>7 DEF HasItem
  <2>9. t \in Loaded /\ t \in Items
    BY <2>5, <2>8 DEF Loaded, WorkInv
  <2>. DEFINE u == [t EXCEPT !.free = t.free /\ ~Protected(t)]
  <2>10. u \in out'.worktrees
    BY <2>5, <2>9 DEF Merge, Return
  <2>11. u.path = e /\ u.repo = r
    BY <2>8, <2>9 DEF Items
  <2>. QED BY <2>10, <2>11
<1>3. CASE pc' # "done"
  BY <1>3 DEF SilentInventoryIsComplete
<1>. QED BY <1>1, <1>2, <1>3


--------------------------------------------------------------------------------
IInv == /\ WorldInv /\ TreeInv /\ WalkInv /\ RecordInv /\ WorkInv
        /\ InsideInv /\ FoundInv /\ LoadInv
        /\ FailuresProtect /\ NothingInsideIsFree /\ SilentInventoryIsComplete

LEMMA InitInv == Init => IInv
<1>. SUFFICES ASSUME Init PROVE IInv
  OBVIOUS
<1>1. WorldInv
  BY DEF Init, InitDiscovery, WorldInv
<1>2. WalkInv
  <2>1. request.roots \in SUBSET Dirs /\ request.roots # {}
    BY DEF Init, InitDiscovery
  <2>. QED BY <2>1 DEF Init, InitDiscovery, WalkInv, Walking
<1>3. RecordInv
  BY DEF Init, InitDiscovery, RecordInv
<1>4. WorkInv
  <2>1. NotStarted \in Doing /\ NotStarted.job = NoRepo /\ NotStarted.step = "gone"
    BY DEF NotStarted, Doing
  <2>. QED BY <2>1 DEF Init, WorkInv, Doing, Busy
<1>5. FailuresProtect /\ NothingInsideIsFree /\ SilentInventoryIsComplete
  BY DEF Init, InitDiscovery, FailuresProtect, NothingInsideIsFree, SilentInventoryIsComplete
<1>6. TreeInv
  BY DEF Init, InitDiscovery, TreeInv
<1>7. InsideInv /\ LoadInv
  BY DEF Init, InitDiscovery, InsideInv, LoadInv
<1>8. FoundInv
  BY DEF Init, InitDiscovery, FoundInv, WalkedInv, AtInv, EndInv, RootsInv, EnteredInv, MembersInv,
         AnchorInv, UpwardInv, At, Finding
<1>. QED BY <1>1, <1>2, <1>3, <1>4, <1>5, <1>6, <1>7, <1>8 DEF IInv

(* The inductive invariant of the discovery and of Load.                   *)
THEOREM Invariance == Spec => []IInv
<1>1. IInv /\ [Next]_vars => IInv'
  BY WorldStep, WorldMoves, WalkStep, RecordStep, WorkStep, InsideStep, FoundStep, LoadStep,
     VerdictStep, NothingInsideStep, SilentStep
     DEF IInv
<1>. QED BY InitInv, <1>1, PTL DEF Spec

(* However many workers share the repositories, each slot of the results   *)
(* has one writer, and all is of its type (load.go:119-132).               *)
THEOREM OneWriterPerSlot == Spec => []TypeOK
<1>1. IInv => TypeOK
  BY DEF IInv, WalkInv, RecordInv, WorkInv, TypeOK, Busy
<1>. QED BY <1>1, Invariance, PTL

(* Whichever worker or the walk met it, and whenever: a failure protects   *)
(* the worktrees that it concerns.                                         *)
THEOREM FailuresReach == Spec => []FailuresProtect
<1>1. IInv => FailuresProtect
  BY DEF IInv
<1>. QED BY <1>1, Invariance, PTL

(* Repository metadata in a worktree, wherever it lies and whatever ignores *)
(* it, keeps the worktree from being free, unless it was put there after    *)
(* the worktree was measured (load.go:306-315).                            *)
THEOREM NothingInside == Spec => []NothingInsideIsFree
<1>1. IInv => NothingInsideIsFree
  BY DEF IInv
<1>. QED BY <1>1, Invariance, PTL

(* What Find walks past and what Load loses, it reports: an inventory       *)
(* without a failure has every worktree of every repository that a root     *)
(* leads to and that was there all the time.                               *)
THEOREM SilenceIsComplete == Spec => []SilentInventoryIsComplete
<1>1. IInv => SilentInventoryIsComplete
  BY DEF IInv
<1>. QED BY <1>1, Invariance, PTL

--------------------------------------------------------------------------------
(* What Build is given: a worktree that is unsafe or unknown comes with a   *)
(* failure.                                                                *)
ReportedInv == ~reported => \A r \in Repos : \A t \in results[r] : t.free

HandedOver == pc = "done" /\ out.silent => \A t \in out.worktrees : t.free

LEMMA ReportedStep ==
  ASSUME WorkInv, ReportedInv, [Next]_vars
  PROVE  ReportedInv'
<1>1. CASE UNCHANGED <<results, reported>>
  BY <1>1 DEF ReportedInv
<1>2. CASE ~UNCHANGED <<results, reported>>
  <2>1. PICK w \in Workers : Work(w)
    <3>1. UNCHANGED <<results, reported>> \/ \E w \in Workers : Work(w)
      BY DEF Next, Load, Discover, Identify, Start, Send, Close, Merge, discoveryVars, vars, loadVars
    <3>. QED BY <1>2, <3>1
  <2>2. PICK free \in BOOLEAN : Finish(w, free)
    BY <1>2, <2>1 DEF Work, Exit, List, Locate, Inspect, Measure, GoOn
  <2>. DEFINE s == [path |-> Path(w), repo |-> worker[w].listed, free |-> free]
  <2>3. /\ results' = [results EXCEPT ![worker[w].job] = results[worker[w].job] \cup {s}]
        /\ reported' = (reported \/ ~free) /\ s.free = free
    BY <2>2 DEF Finish
  <2>. HIDE DEF s
  <2>4. ASSUME NEW r \in Repos, NEW t \in results'[r], t \notin results[r] PROVE t = s
    BY <2>3, <2>4 DEF WorkInv
  <2>. QED BY <2>3, <2>4 DEF ReportedInv
<1>. QED BY <1>1, <1>2

LEMMA HandedOverStep ==
  ASSUME WorkInv, ReportedInv, HandedOver, [Next]_vars
  PROVE  HandedOver'
<1>1. CASE pc = "done"
  <2>1. UNCHANGED vars
    BY <1>1, DoneStays
  <2>. QED BY <2>1 DEF HandedOver, vars, discoveryVars, loadVars
<1>2. CASE pc # "done" /\ pc' = "done"
  <2>1. (Start /\ unique = {}) \/ Merge
    BY <1>2, Returns DEF vars, discoveryVars
  <2>2. CASE Start /\ unique = {}
    BY <2>2 DEF Start, Return, HandedOver
  <2>3. CASE Merge
    <3>. SUFFICES ASSUME out'.silent, NEW t \in out'.worktrees PROVE t.free
      BY DEF HandedOver
    <3>1. /\ out'.worktrees = {[u EXCEPT !.free = u.free /\ ~Protected(u)] : u \in Loaded}
          /\ out'.silent = (/\ incomplete = {} /\ ~reported /\ ~cancelled /\ cwdKnown
                            /\ \A u \in Loaded : ~InMetadata(u) /\ ~Overlapped(u))
      BY <2>3 DEF Merge, Return
    <3>2. PICK u \in Loaded : t = [u EXCEPT !.free = u.free /\ ~Protected(u)]
      BY <3>1
    <3>3. u \in Items /\ \E r \in Repos : u \in results[r]
      BY DEF Loaded, WorkInv
    <3>4. u.free
      BY <3>1, <3>3 DEF ReportedInv
    <3>5. ~Protected(u)
      BY <3>1 DEF Protected, NearFailure
    <3>. QED BY <3>2, <3>3, <3>4, <3>5 DEF Items
  <2>. QED BY <2>1, <2>2, <2>3
<1>3. CASE pc' # "done"
  BY <1>3 DEF HandedOver
<1>. QED BY <1>1, <1>2, <1>3

(* What PlanBuild.Load assumes of the inventory: a worktree that is not     *)
(* both safe and known, for whatever reason, comes with an error, so that   *)
(* a plan without one has judged none on a guess (load.go:131, 152-167,     *)
(* build.go:109).                                                          *)
THEOREM NothingUnknownInSilence == Spec => []HandedOver
<1>1. Init => ReportedInv /\ HandedOver
  BY DEF Init, InitDiscovery, ReportedInv, HandedOver
<1>2. IInv /\ ReportedInv /\ HandedOver /\ [Next]_vars => ReportedInv' /\ HandedOver'
  BY ReportedStep, HandedOverStep DEF IInv
<1>. QED BY <1>1, <1>2, Invariance, PTL DEF Spec
================================================================================

------------------------------- MODULE Discovery -------------------------------
(***************************************************************************)
(* discovery.Finder.Find: the walk below the configured roots that finds   *)
(* the Git repositories, while other processes add, move and remove        *)
(* directories, markers and worktree registrations.                        *)
(*                                                                         *)
(* Directories are numbered as a sorted depth-first walk meets them, so    *)
(* the walk goes on with the least directory still to be visited.  -d is   *)
(* the path of the entry .git in directory d, its marker.  A repository    *)
(* owns its common directory; `git` run in a directory acts on the         *)
(* repository of the nearest marker at or above it.                        *)
(***************************************************************************)
EXTENDS Integers, FiniteSets

CONSTANTS Dirs, Parent,       \* directories; the top is its own parent
          Repos, Primary, Common, \* repositories, their main worktree and common path
          Ignored,            \* directories the walk never enters (.git, node_modules, ...)
          Worlds, Requests,   \* what there may be at the start; what may be asked
          MaxChanges, MaxFaults, \* bounds: changes by others, reads that fail
          NoRepo, Irregular,  \* no marker; a marker that is a link or worse
          NoDir

Markers == Repos \cup {NoRepo, Irregular}
Paths   == Dirs \cup {-d : d \in Dirs}

ASSUME TreeAssumption ==
  /\ Dirs \subseteq Nat \ {0} /\ IsFiniteSet(Dirs) /\ Parent \in [Dirs -> Dirs]
  /\ \A d \in Dirs : Parent[d] <= d
  /\ Primary \in [Repos -> Dirs] /\ Common \in [Repos -> Paths]
  /\ Ignored \subseteq Dirs /\ NoDir \notin Paths
  /\ NoRepo \notin Repos /\ Irregular \notin Repos /\ NoRepo # Irregular
  /\ MaxChanges \in Nat /\ MaxFaults \in Nat
  /\ Worlds \subseteq [exists : SUBSET Dirs, marker : [Dirs -> Markers],
                       registered : [Repos -> SUBSET Dirs]]
  /\ \A w \in Worlds, r \in Repos : Primary[r] \in w.registered[r]
  /\ \A w \in Worlds, d \in Dirs : w.marker[d] # NoRepo => d \in w.exists
  /\ Requests \subseteq [roots : (SUBSET Dirs) \ {{}}, cwd : Dirs, data : Dirs \cup {NoDir}]

VARIABLES exists, marker, registered, \* the world: directories, markers, worktree lists
          changes, changed,  \* changes by others, and the directories they touched (history)
          request,           \* roots, working and data directory
          cancelled,         \* the context
          faults, trouble,   \* reads that failed, and where (history)
          pc,
          roots,             \* roots still to be walked
          pending,           \* directories of the current root still to be walked
          at,                \* the directory whose marker is being looked into
          visited,
          anchor,            \* the repository whose primary worktree is being verified
          found,             \* repositories found
          incomplete         \* paths of the failures recorded so far

world == <<exists, marker, registered, changes, changed, request, cancelled>>
findVars == <<roots, pending, at, visited, anchor, found>>
discoveryVars == <<world, faults, trouble, pc, findVars, incomplete>>

--------------------------------------------------------------------------------
(* A directory lies in another one that is in every set that has it and    *)
(* the parents of its members.                                             *)
Upward  == {S \in SUBSET Dirs : \A e \in S : Parent[e] \in S}
LiesIn  == {e \in Dirs \X Dirs : \A S \in Upward : e[1] \in S => e[2] \in S}
Above   == [d \in Dirs |-> {e \in Dirs : <<d, e>> \in LiesIn}]

(* pathutil.Contains and overlap.                                          *)
Contains(p, q) == IF q \in Dirs THEN p \in Above[q] ELSE p = q \/ p \in Above[-q]
Overlap(p, q)  == Contains(p, q) \/ Contains(q, p)

Least(D) == CHOOSE d \in D : \A e \in D : d <= e

(* What os.Stat finds; a directory exists with all that are above it.      *)
Present(p) == IF p \in Dirs THEN p \in exists ELSE -p \in exists /\ marker[-p] # NoRepo

(* The repository that git acts on when it is run in a directory.          *)
GitRepo(d) ==
  LET marked == {a \in Above[d] : marker[a] # NoRepo}
      m      == marker[CHOOSE a \in marked : \A b \in marked : b <= a]
  IN IF d \in exists /\ marked # {} /\ m \in Repos /\ Present(Common[m]) THEN m ELSE NoRepo

(* Finder.excluded.                                                        *)
Excluded(d) == \/ Above[d] \cap Ignored # {}
               \/ request.data # NoDir /\ Contains(request.data, d)

(* One read of the file system or one run of git fails; the paths that must *)
(* be distrusted from then on are in trouble.                               *)
Fault(P) == faults < MaxFaults /\ faults' = faults + 1 /\ trouble' = trouble \cup P
NoFault  == UNCHANGED <<faults, trouble>>

Record(p)  == incomplete' = incomplete \cup {p}
NoFailure  == UNCHANGED incomplete

InitDiscovery ==
  /\ \E w \in Worlds : exists = w.exists /\ marker = w.marker /\ registered = w.registered
  /\ request \in Requests
  /\ changes = 0 /\ changed = {} /\ cancelled = FALSE /\ faults = 0 /\ trouble = {}
  /\ pc = "start" /\ roots = request.roots /\ pending = {} /\ at = NoDir /\ visited = {}
  /\ anchor = NoRepo /\ found = {} /\ incomplete = {}

--------------------------------------------------------------------------------
(* exclusionPath: the data directory need not be there, but all that is    *)
(* there of its path must be readable.                                     *)
Exclude ==
  /\ pc = "start"
  /\ \/ pc' = "roots" /\ NoFault /\ NoFailure
     \/ request.data # NoDir /\ Fault({request.data}) /\ Record(request.data) /\ pc' = "identify"
  /\ UNCHANGED <<world, findVars>>

(* Where the end of the context is recorded: where the walk was, or where  *)
(* it was going.                                                           *)
Stopped(D) == (visited \cap {at}) \cup (IF D = {} THEN {at} ELSE {Least(D)})

(* The loop over the sorted roots.                                         *)
NextRoot ==
  /\ pc = "roots"
  /\ IF roots = {} \/ cancelled
     THEN /\ pc' = "identify"
          /\ IF cancelled THEN \E p \in Stopped(roots) : Record(p) ELSE NoFailure
          /\ NoFault /\ UNCHANGED findVars
     ELSE LET root == Least(roots) IN
          /\ roots' = roots \ {root} /\ at' = root
          /\ \/ ~Present(root) /\ NoFault /\ Record(root) /\ UNCHANGED <<pc, pending>>
             \/ Fault({root}) /\ Record(root) /\ UNCHANGED <<pc, pending>>
             \/ /\ Present(root)
                /\ IF Excluded(root) THEN UNCHANGED <<pc, pending>>
                   ELSE pc' = "ancestors" /\ pending' = {root}
                /\ NoFault /\ NoFailure
          /\ UNCHANGED <<visited, anchor, found>>
  /\ UNCHANGED world

(* The search for the repository a root lies in: up to the nearest marker. *)
(* A marker of the root itself is left to the walk, which reads it again.  *)
Ancestors ==
  /\ pc = "ancestors"
  /\ LET inside == at \notin pending IN
     \/ /\ Fault(IF inside THEN {-at} ELSE {})
        /\ IF inside THEN Record(-at) ELSE NoFailure
        /\ pc' = "walk" /\ UNCHANGED at
     \/ /\ NoFault
        /\ IF at \in exists /\ marker[at] # NoRepo
           THEN /\ pc' = IF inside /\ marker[at] # Irregular THEN "common" ELSE "walk"
                /\ IF inside /\ marker[at] = Irregular THEN Record(-at) ELSE NoFailure
                /\ UNCHANGED at
           ELSE /\ NoFailure
                /\ IF cancelled \/ Parent[at] = at THEN pc' = "walk" /\ UNCHANGED at
                   ELSE at' = Parent[at] /\ UNCHANGED pc
  /\ UNCHANGED <<world, roots, pending, visited, anchor, found>>

(* The walk stops wherever it is when the context ends, and Find records   *)
(* it once.                                                                *)
Quit(p) == /\ pc' = "identify" /\ Record(p) /\ NoFault
           /\ UNCHANGED <<roots, pending, at, visited, anchor>>

Walked(d) == /\ pending' = pending \ {d}
             /\ pc' = IF pending' = {} THEN "roots" ELSE "walk"

(* walk: a directory is entered once, unless it is excluded or gone.       *)
Walk ==
  /\ pc = "walk"
  /\ LET d == Least(pending) IN
     \/ cancelled /\ \E p \in Stopped(pending) : Quit(p)
     \/ /\ ~cancelled
        /\ Excluded(d) \/ d \in visited
        /\ Walked(d) /\ NoFault /\ NoFailure /\ UNCHANGED <<roots, at, visited, anchor>>
     \/ /\ ~cancelled /\ ~Excluded(d) /\ d \notin visited
        /\ visited' = visited \cup {d}
        /\ \/ ~Present(d) /\ NoFault /\ Record(d) /\ Walked(d) /\ at' = d
           \/ Fault({d}) /\ Record(d) /\ Walked(d) /\ at' = d
           \/ /\ Present(d) /\ Fault({-d}) /\ Record(-d)
              /\ pc' = "read" /\ at' = d /\ UNCHANGED pending
           \/ /\ Present(d) /\ NoFault
              /\ IF marker[d] = Irregular THEN Record(-d) ELSE NoFailure
              /\ pc' = IF marker[d] \in Repos THEN "common" ELSE "read"
              /\ at' = d /\ UNCHANGED pending
        /\ UNCHANGED <<roots, anchor>>
  /\ UNCHANGED <<world, found>>

(* Where consider returns to: the walk of the directory, or of the root    *)
(* that lies in it.                                                        *)
Considered == pc' = IF at \in pending THEN "read" ELSE "walk"

(* consider: the common directory, unless it is one that was found before. *)
ConsiderCommon ==
  /\ pc = "common"
  /\ \/ Fault({at}) /\ Record(at) /\ Considered /\ UNCHANGED anchor
     \/ /\ cancelled \/ GitRepo(at) = NoRepo
        /\ NoFault /\ Record(at) /\ Considered /\ UNCHANGED anchor
     \/ /\ ~cancelled /\ GitRepo(at) # NoRepo /\ NoFault /\ NoFailure
        /\ IF GitRepo(at) \in found THEN Considered /\ UNCHANGED anchor
           ELSE pc' = "anchor" /\ anchor' = GitRepo(at)
  /\ UNCHANGED <<world, roots, pending, at, visited, found>>

(* primaryAnchor: the list of worktrees, read from the directory, names    *)
(* the same repository, this directory, and a main worktree that is there. *)
Anchored == /\ ~cancelled
            /\ GitRepo(at) = anchor
            /\ at \in registered[anchor]
            /\ Present(Primary[anchor])

(* Mutant: a repository whose list cannot be read is passed over.          *)
ConsiderAnchorQuietly ==
  /\ pc = "anchor"
  /\ \/ Fault({at}) /\ NoFailure /\ UNCHANGED found
     \/ ~Anchored /\ NoFault /\ Record(at) /\ UNCHANGED found
     \/ /\ Anchored /\ NoFault /\ NoFailure
        /\ found' = IF \/ Excluded(Primary[anchor])
                       \/ request.data # NoDir /\ Contains(request.data, Common[anchor])
                    THEN found ELSE found \cup {anchor}
  /\ Considered
  /\ anchor' = NoRepo
  /\ UNCHANGED <<world, roots, pending, at, visited>>

ConsiderAnchor ==
  /\ pc = "anchor"
  /\ \/ Fault({at}) /\ Record(at) /\ UNCHANGED found
     \/ ~Anchored /\ NoFault /\ Record(at) /\ UNCHANGED found
     \/ /\ Anchored /\ NoFault /\ NoFailure
        /\ found' = IF \/ Excluded(Primary[anchor])
                       \/ request.data # NoDir /\ Contains(request.data, Common[anchor])
                    THEN found ELSE found \cup {anchor}
  /\ Considered
  /\ anchor' = NoRepo
  /\ UNCHANGED <<world, roots, pending, at, visited>>

(* The subdirectories a walk goes on to.  Below a directory with a .git     *)
(* directory the code looks at each once more before it walks it; a failure *)
(* of that look is recorded under the child's path and passes the child     *)
(* over, as a failure of Walk's first look at it does, and is that here.    *)
(* The .git directory under another spelling is one of the ignored ones.    *)
Children(d) == {e \in exists \ Ignored : Parent[e] = d /\ e # d}

(* ReadDir: what is below is walked next.                                  *)
ReadDirectory ==
  /\ pc = "read"
  /\ \/ cancelled /\ Quit(at)
     \/ ~cancelled /\ Fault({at}) /\ Record(at) /\ Walked(at)
     \/ ~cancelled /\ ~Present(at) /\ NoFault /\ Record(at) /\ Walked(at)
     \/ /\ ~cancelled /\ Present(at) /\ NoFault /\ NoFailure
        /\ pending' = (pending \ {at}) \cup Children(at)
        /\ pc' = IF pending' = {} THEN "roots" ELSE "walk"
  /\ UNCHANGED <<world, roots, at, visited, anchor, found>>

Find == Exclude \/ NextRoot \/ Ancestors \/ Walk \/ ConsiderCommon \/ ConsiderAnchor \/ ReadDirectory

--------------------------------------------------------------------------------
otherVars == <<request, cancelled, faults, trouble, pc, findVars, incomplete>>

Touch(D) == changes < MaxChanges /\ changes' = changes + 1 /\ changed' = changed \cup D

(* Other processes: a tree is removed, a directory made, a marker written  *)
(* or removed, a worktree registered or pruned.                            *)
RemoveTree(d) ==
  LET below == {e \in Dirs : Contains(d, e)} IN
  /\ d \in exists /\ Parent[d] # d
  /\ Touch(below)
  /\ exists' = exists \ below
  /\ marker' = [e \in Dirs |-> IF e \in below THEN NoRepo ELSE marker[e]]
  /\ UNCHANGED <<registered, otherVars>>

MakeDirectory(d) ==
  /\ d \notin exists /\ Parent[d] \in exists
  /\ Touch({d})
  /\ exists' = exists \cup {d}
  /\ UNCHANGED <<marker, registered, otherVars>>

Mark(d, m) ==
  /\ d \in exists /\ marker[d] # m
  /\ \A r \in Repos : d = Primary[r] => m \in {r, NoRepo}
  /\ Touch({d})
  /\ marker' = [marker EXCEPT ![d] = m]
  /\ UNCHANGED <<exists, registered, otherVars>>

Register(r, d) ==
  /\ d # Primary[r]
  /\ Touch({d})
  /\ registered' = [registered EXCEPT ![r] = IF d \in @ THEN @ \ {d} ELSE @ \cup {d}]
  /\ UNCHANGED <<exists, marker, otherVars>>

(* The caller's context ends.                                              *)
Cancel ==
  /\ ~cancelled /\ pc # "done"
  /\ cancelled' = TRUE
  /\ UNCHANGED <<exists, marker, registered, changes, changed, request, faults, trouble,
                 pc, findVars, incomplete>>

Others == \/ \E d \in Dirs : RemoveTree(d) \/ MakeDirectory(d) \/ \E m \in Markers : Mark(d, m)
          \/ \E r \in Repos, d \in Dirs : Register(r, d)
          \/ Cancel
================================================================================

------------------------------- MODULE PlanBuild -------------------------------
(***************************************************************************)
(* plan.Builder.Build: the inventory is loaded, the processes of the machine *)
(* are listed and inspected one by one while they go on moving, exiting and  *)
(* starting, each is bound to the worktrees it touches, and every worktree   *)
(* is judged on its Git state and on that evidence.  What could not be       *)
(* learned becomes a warning: of the worktrees it is known to concern, or of *)
(* all of them.                                                             *)
(*                                                                         *)
(* Darwin: the process table is read before and after the inspections, and   *)
(* the inspections are repeated when it changed.  Elsewhere (gopsutil) the   *)
(* PIDs are listed a second time, right after the handles were obtained.     *)
(***************************************************************************)
EXTENDS Policy, Functions

CONSTANTS Pids, Worktrees,
          Darwin,     \* which of the two sources lists the processes
          FactSets,   \* the facts a worktree may have
          HintSets,   \* the worktrees the executable and arguments of a process may lie in
          MaxMoves,   \* bound: what processes do during the collection
          Outside,    \* every directory that is in no worktree
          Gone,       \* no process has this PID
          NoDirectory, NoPid, NoPlan

ASSUME BuildAssumption ==
  /\ Darwin \in BOOLEAN /\ MaxMoves \in Nat
  /\ FactSets \subseteq SUBSET GitFacts
  /\ HintSets \subseteq SUBSET Worktrees
  /\ Outside \notin Worktrees /\ NoDirectory \notin Worktrees \cup {Outside}
  /\ NoPid \notin Pids
  /\ Gone \notin [at : Worktrees \cup {Outside}, hints : HintSets, born : 0..MaxMoves]
  /\ NoPlan \notin [Worktrees -> Classes]

Attempts == 3
Directories == Worktrees \cup {Outside}
Processes == [at : Directories, hints : HintSets, born : 0..MaxMoves]
Readings  == [cwd : Directories \cup {NoDirectory}, hints : SUBSET Worktrees, ok : BOOLEAN]
Evidence  == [pid : Pids \cup {NoPid}, state : {"active", "unknown"}]

(* A scope is the set of worktrees a failure concerns, {} for all of them.  *)
Everywhere == {}
Collections == [byWorktree : [Worktrees -> SUBSET Evidence], uninspectable : SUBSET Pids,
                globalUnknown : SUBSET Evidence, errors : SUBSET SUBSET Worktrees]

VARIABLES process,   \* PID -> the process that has it
          moves,     \* what processes did since the collection began
          moved, started, \* PIDs whose process moved, or started, since the listing began (history)
          ended,     \* the contexts that are done: the whole build's, the collection's, the listing's
          pc,
          facts, inventoryFailed, \* what Inventory.Load returned
          resolved,  \* the worktrees whose path could be made canonical
          attempt, before, \* Darwin's resampling
          handles, listed, \* the two enumerations
          todo,      \* PIDs left to inspect, then to bind
          infos,     \* what the inspections read
          collection, incomplete, \* what Collect returns
          unplaced,  \* PIDs whose containment could not be decided (history)
          plan, err  \* what Build returns

world  == <<process, moves, moved, started>>
source == <<attempt, before, handles, listed>>
vars   == <<world, ended, pc, facts, inventoryFailed, resolved, source, todo, infos,
            collection, incomplete, unplaced, plan, err>>

Listing    == {"list", "verify", "inspect", "resample"}
Collecting == Listing \cup {"match"}

TypeOK == /\ process \in [Pids -> Processes \cup {Gone}]
          /\ moves \in 0..MaxMoves
          /\ moved \subseteq Pids /\ started \subseteq Pids
          /\ ended \subseteq {"build", "collect", "list"}
          /\ pc \in Collecting \cup {"load", "collect", "judge", "done", "aborted"}
          /\ facts \in [Worktrees -> SUBSET GitFacts]
          /\ inventoryFailed \in BOOLEAN
          /\ resolved \subseteq Worktrees
          /\ attempt \in 1..Attempts
          /\ handles \subseteq Pids /\ listed \subseteq Pids /\ todo \subseteq Pids
          /\ DOMAIN infos \subseteq Pids /\ \A p \in DOMAIN infos : infos[p] \in Readings
          /\ collection \in Collections
          /\ incomplete \in BOOLEAN
          /\ unplaced \subseteq Pids
          /\ plan \in [Worktrees -> Classes] \cup {NoPlan}
          /\ err \in BOOLEAN

NoTable == [p \in {} |-> 0]
NoInfos == [p \in {} |-> Gone]

EmptyCollection == [byWorktree |-> [w \in Worktrees |-> {}], uninspectable |-> {},
                    globalUnknown |-> {}, errors |-> {}]

Init == /\ process \in [Pids -> [at : Directories, hints : HintSets, born : {0}] \cup {Gone}]
        /\ moves = 0
        /\ moved = {} /\ started = {}
        /\ ended = {}
        /\ pc = "load"
        /\ facts = [w \in Worktrees |-> {}]
        /\ inventoryFailed = FALSE
        /\ resolved = {}
        /\ attempt = 1
        /\ before = NoTable
        /\ handles = {} /\ listed = {} /\ todo = {}
        /\ infos = NoInfos
        /\ collection = EmptyCollection
        /\ incomplete = FALSE
        /\ unplaced = {}
        /\ plan = NoPlan
        /\ err = FALSE

--------------------------------------------------------------------------------
(* The world: processes change directory, exit and start; deadlines pass.    *)
(* They matter while processes are listed.                                  *)
Live == {p \in Pids : process[p] # Gone}

Moves == /\ pc \in Listing
         /\ moves < MaxMoves
         /\ moves' = moves + 1
         /\ UNCHANGED <<ended, pc, facts, inventoryFailed, resolved, source, todo, infos,
                        collection, incomplete, unplaced, plan, err>>

Chdir(p, d) == /\ p \in Live /\ d # process[p].at
               /\ Moves
               /\ process' = [process EXCEPT ![p].at = d]
               /\ moved' = moved \cup {p}
               /\ UNCHANGED started

Exit(p) == /\ p \in Live
           /\ Moves
           /\ process' = [process EXCEPT ![p] = Gone]
           /\ UNCHANGED <<moved, started>>

(* A PID that was used before may be used again.                            *)
Spawn(p, d, hints) == /\ p \notin Live
                      /\ Moves
                      /\ process' = [process EXCEPT ![p] = [at |-> d, hints |-> hints, born |-> moves']]
                      /\ moved' = moved \ {p}
                      /\ started' = started \cup {p}

(* The 20 seconds Darwin gives a listing, the 30 seconds Build gives the      *)
(* collection, and the caller.                                              *)
End(contexts) == /\ ended' = ended \cup contexts
                 /\ UNCHANGED <<world, pc, facts, inventoryFailed, resolved, source, todo, infos,
                                collection, incomplete, unplaced, plan, err>>

ListTimeout    == Darwin /\ pc \in Listing /\ "list" \notin ended /\ End({"list"})
CollectTimeout == pc \in Collecting \cup {"judge"} /\ "collect" \notin ended /\ End({"collect", "list"})
Cancel         == pc \notin {"done", "aborted"} /\ "build" \notin ended
                  /\ End({"build", "collect", "list"})

--------------------------------------------------------------------------------
(* Build, up to the collection.  A worktree Git could not describe, or whose *)
(* path is unsafe, comes with an error of the inventory.                     *)
Load == /\ pc = "load" /\ "build" \notin ended
        /\ facts' \in [Worktrees -> FactSets]
        /\ inventoryFailed' \in BOOLEAN
        /\ (\E w \in Worktrees : facts'[w] \cap {"unsafe_path", "unknown_git_state"} # {})
             => inventoryFailed'
        /\ pc' = "collect"
        /\ UNCHANGED <<world, ended, resolved, source, todo, infos, collection, incomplete,
                       unplaced, plan, err>>

(* Before and after the collection Build may give up: the caller cancelled,  *)
(* two worktrees share an identity, a selected path is not registered, a     *)
(* candidate cannot be encoded, there is no randomness.                      *)
Abort == /\ pc \in {"load", "judge"}
         /\ pc' = "aborted"
         /\ err' = TRUE
         /\ UNCHANGED <<world, ended, facts, inventoryFailed, resolved, source, todo, infos,
                        collection, incomplete, unplaced, plan>>

--------------------------------------------------------------------------------
(* Collector.Collect and the sources.                                       *)

(* Collect resolves the worktrees first; one that cannot be resolved gets    *)
(* unknown evidence of its own.                                             *)
Unresolvable(r) ==
  [byWorktree    |-> [w \in Worktrees |-> IF w \in r THEN {} ELSE {[pid |-> NoPid, state |-> "unknown"]}],
   uninspectable |-> {},
   globalUnknown |-> {},
   errors        |-> {{w} : w \in Worktrees \ r}]

Resolve == /\ pc = "collect"
           /\ \/ /\ "collect" \in ended
                 /\ incomplete' = TRUE
                 /\ pc' = "match"
                 /\ UNCHANGED <<resolved, collection>>
              \/ /\ "collect" \notin ended
                 /\ resolved' \in SUBSET Worktrees
                 /\ collection' = Unresolvable(resolved')
                 /\ pc' = "list"
                 /\ UNCHANGED incomplete
           /\ UNCHANGED <<world, ended, facts, inventoryFailed, source, todo, infos, unplaced,
                          plan, err>>

(* List returns its infos, and an error when failed.                         *)
Listed(failed) == /\ pc' = "match"
                  /\ todo' = DOMAIN infos'
                  /\ incomplete' = (incomplete \/ failed)
                  /\ attempt' = 1 /\ before' = NoTable /\ handles' = {} /\ listed' = {}

(* What Darwin compares of a process: mainly when it was created.            *)
Table == [p \in Live |-> process[p].born]

Enumerate ==
  /\ pc = "list"
  /\ \/ /\ Darwin \/ "list" \in ended                    \* the table cannot be read, or late
        /\ UNCHANGED <<infos, moved, started>>
        /\ Listed(TRUE)
     \/ /\ "list" \notin ended
        /\ infos' = NoInfos
        /\ moved' = {} /\ started' = {}
        /\ IF Darwin THEN /\ before' = Table
                          /\ handles' = Live /\ listed' = Live /\ todo' = Live
                          /\ pc' = "inspect"
                          /\ UNCHANGED incomplete
                     ELSE /\ handles' \in SUBSET Live
                          /\ incomplete' \in {incomplete, TRUE}
                          /\ pc' = "verify"
                          /\ UNCHANGED <<before, listed, todo>>
        /\ UNCHANGED attempt
  /\ UNCHANGED <<process, moves, ended, facts, inventoryFailed, resolved, collection, unplaced, plan, err>>

(* Mutant: the second enumeration is taken from the first.                  *)
VerifyHandles == /\ pc = "verify"
          /\ \/ /\ listed' = {}
                /\ incomplete' = TRUE
             \/ /\ "list" \notin ended
                /\ listed' = handles
                /\ incomplete' = (incomplete \/ Live = {})
          /\ todo' = handles
          /\ pc' = "inspect"
          /\ UNCHANGED <<world, ended, facts, inventoryFailed, resolved, attempt, before, handles,
                         infos, collection, unplaced, plan, err>>

(* Elsewhere the PIDs are listed again.                                      *)
Verify == /\ pc = "verify"
          /\ \/ /\ listed' = {}
                /\ incomplete' = TRUE
             \/ /\ "list" \notin ended
                /\ listed' = Live
                /\ incomplete' = (incomplete \/ Live = {})
          /\ todo' = handles
          /\ pc' = "inspect"
          /\ UNCHANGED <<world, ended, facts, inventoryFailed, resolved, attempt, before, handles,
                         infos, collection, unplaced, plan, err>>

Blind == [cwd |-> NoDirectory, hints |-> {}, ok |-> FALSE]

(* What an inspection may read of the process that has a PID, the checks of  *)
(* evidenceFor included: everything, or with some field missing, then with   *)
(* or without the working directory and the paths.                           *)
Readable(p) ==
  IF process[p] = Gone \/ "list" \in ended THEN {Blind}
  ELSE {[cwd |-> process[p].at, hints |-> {}, ok |-> TRUE]}
       \cup [cwd : {process[p].at, NoDirectory}, hints : {{}, process[p].hints}, ok : {FALSE}]

Inspect(p) == /\ pc = "inspect" /\ p \in todo
              /\ \E reading \in Readable(p) :
                   infos' = [q \in DOMAIN infos \cup {p} |-> IF q = p THEN reading ELSE infos[q]]
              /\ todo' = todo \ {p}
              /\ UNCHANGED <<world, ended, pc, facts, inventoryFailed, resolved, source,
                             collection, incomplete, unplaced, plan, err>>

(* A PID that was listed without a handle is an error, and so is a deadline. *)
Inspected ==
  /\ pc = "inspect" /\ todo = {}
  /\ infos' = [p \in DOMAIN infos \cup listed |-> IF p \in DOMAIN infos THEN infos[p] ELSE Blind]
  /\ LET failed == \/ incomplete
                   \/ listed \ handles # {}
                   \/ "list" \in ended
     IN  IF Darwin /\ ~failed THEN pc' = "resample" /\ UNCHANGED <<source, todo, incomplete>>
                              ELSE Listed(failed)
  /\ UNCHANGED <<world, ended, facts, inventoryFailed, resolved, collection, unplaced,
                 plan, err>>

(* Mutant: two tables are the same when they list the same PIDs.             *)
SamePids == Live = DOMAIN before

Same == Table = before

(* Mutant: one attempt too many.                                            *)
ResampleAgain ==
  /\ pc = "resample"
  /\ UNCHANGED infos
  /\ \/ Listed(TRUE)                              \* late, or the table cannot be read
     \/ /\ "list" \notin ended
        /\ \/ Same /\ Listed(FALSE)
           \/ ~Same /\ attempt > Attempts /\ Listed(TRUE)
           \/ /\ ~Same /\ attempt <= Attempts
              /\ attempt' = attempt + 1
              /\ pc' = "list"
              /\ UNCHANGED <<before, handles, listed, todo, incomplete>>
  /\ UNCHANGED <<world, ended, facts, inventoryFailed, resolved, collection, unplaced, plan, err>>

(* Mutant: a table that changed in every attempt is taken as it is.          *)
ResampleGivesUp ==
  /\ pc = "resample"
  /\ UNCHANGED infos
  /\ \/ Listed(TRUE)
     \/ /\ "list" \notin ended
        /\ \/ (Same \/ attempt = Attempts) /\ Listed(FALSE)
           \/ /\ ~Same /\ attempt < Attempts
              /\ attempt' = attempt + 1
              /\ pc' = "list"
              /\ UNCHANGED <<before, handles, listed, todo, incomplete>>
  /\ UNCHANGED <<world, ended, facts, inventoryFailed, resolved, collection, unplaced, plan, err>>

Resample ==
  /\ pc = "resample"
  /\ UNCHANGED infos
  /\ \/ Listed(TRUE)                              \* late, or the table cannot be read
     \/ /\ "list" \notin ended
        /\ \/ Same /\ Listed(FALSE)
           \/ ~Same /\ attempt = Attempts /\ Listed(TRUE)
           \/ /\ ~Same /\ attempt < Attempts
              /\ attempt' = attempt + 1
              /\ pc' = "list"
              /\ UNCHANGED <<before, handles, listed, todo, incomplete>>
  /\ UNCHANGED <<world, ended, facts, inventoryFailed, resolved, collection, unplaced, plan, err>>

(* The worktrees a process is bound to: those that hold its directory, or,   *)
(* when it could not be fully inspected, a path of its command.              *)
Roots(info) == ({info.cwd} \cup info.hints) \cap resolved

(* Containment can fail only where it is asked.                              *)
Askable(info) == resolved # {} /\ (info.cwd # NoDirectory \/ info.hints # {})

(* Mutant: the error does not name the worktrees it is about.                *)
BindToUnscoped(p, state, roots) ==
  LET evidence == [pid |-> p, state |-> state]
      If(b, S) == IF b THEN S ELSE {}
      unknown  == state = "unknown"
  IN [byWorktree    |-> [w \in Worktrees |->
                           collection.byWorktree[w] \cup If(w \in roots, {evidence})],
      uninspectable |-> collection.uninspectable \cup If(unknown, {p}),
      globalUnknown |-> collection.globalUnknown \cup If(unknown /\ roots = {}, {evidence}),
      errors        |-> collection.errors \cup If(unknown, {Everywhere})]

BindTo(p, state, roots) ==
  LET evidence == [pid |-> p, state |-> state]
      If(b, S) == IF b THEN S ELSE {}
      unknown  == state = "unknown"
  IN [byWorktree    |-> [w \in Worktrees |->
                           collection.byWorktree[w] \cup If(w \in roots, {evidence})],
      uninspectable |-> collection.uninspectable \cup If(unknown, {p}),
      globalUnknown |-> collection.globalUnknown \cup If(unknown /\ roots = {}, {evidence}),
      errors        |-> collection.errors \cup If(unknown, {roots})]

Match(p) ==
  /\ pc = "match" /\ p \in todo
  /\ \/ /\ "collect" \in ended                             \* the rest stays unbound
        /\ incomplete' = TRUE
        /\ todo' = {}
        /\ UNCHANGED <<collection, unplaced>>
     \/ /\ "collect" \notin ended
        /\ \/ /\ collection' = BindTo(p, IF infos[p].ok THEN "active" ELSE "unknown", Roots(infos[p]))
              /\ UNCHANGED unplaced
           \/ /\ Askable(infos[p])
              /\ collection' = BindTo(p, "unknown", Everywhere)
              /\ unplaced' = unplaced \cup {p}
        /\ todo' = todo \ {p}
        /\ UNCHANGED incomplete
  /\ UNCHANGED <<world, ended, pc, facts, inventoryFailed, resolved, source, infos, plan, err>>

Collected == /\ pc = "match" /\ todo = {}
             /\ incomplete' = (incomplete \/ "collect" \in ended)
             /\ collection' = [collection EXCEPT
                  !.globalUnknown = @ \cup IF incomplete' THEN {[pid |-> NoPid, state |-> "unknown"]} ELSE {},
                  !.errors        = @ \cup IF incomplete' THEN {Everywhere} ELSE {}]
             /\ pc' = "judge"
             /\ UNCHANGED <<world, ended, facts, inventoryFailed, resolved, source, todo, infos,
                            unplaced, plan, err>>

--------------------------------------------------------------------------------
(* Build, after the collection.                                             *)

(* buildProcessProblems: the scope of every failure of the collection.       *)
BoundTo(p) == {w \in Worktrees : [pid |-> p, state |-> "unknown"] \in collection.byWorktree[w]}

Problems ==
  collection.errors
    \cup {BoundTo(p) : p \in collection.uninspectable}
    \cup {{w} : w \in {v \in Worktrees : \E e \in collection.byWorktree[v] : e.state = "unknown"}}
    \cup IF incomplete \/ collection.globalUnknown # {} THEN {Everywhere} ELSE {}

(* buildWorktreeProblems.                                                   *)
Unproven(w) == facts[w] \cap {"unproven", "unknown_git_state"} # {}

Late == "collect" \in ended

Warned(w) == \/ inventoryFailed \/ Late
             \/ Unproven(w)
             \/ \E scope \in Problems : scope = Everywhere \/ w \in scope

(* correlate.Group.                                                         *)
Grouped(w) ==
  LET represented == {e.pid : e \in collection.globalUnknown \cup UNION Range(collection.byWorktree)}
      loose == {[pid |-> p, state |-> "unknown"] : p \in collection.uninspectable \ represented}
      lost  == IF incomplete THEN {[pid |-> NoPid, state |-> "unknown"]} ELSE {}
  IN  collection.byWorktree[w] \cup collection.globalUnknown \cup loose \cup lost

EvidenceSet(w) == [NoEvidence EXCEPT
  !.processes = {[state |-> e.state, error |-> e.state = "unknown"] : e \in Grouped(w)},
  !.warnings  = Warned(w)]

(* Mutant: a failure that concerns some worktrees is their warning only.     *)
FailedEverywhere == inventoryFailed \/ Late \/ Everywhere \in Problems

Failed == inventoryFailed \/ Late \/ Problems # {} \/ \E w \in Worktrees : Unproven(w)

(* validateRequest admits no other settings.                                *)
Settings == [valid |-> TRUE, minimum |-> 0]

Judge == /\ pc = "judge" /\ "build" \notin ended
         /\ plan' = [w \in Worktrees |-> Evaluate(facts[w], EvidenceSet(w), Settings)]
         /\ err' = Failed
         /\ pc' = "done"
         /\ UNCHANGED <<world, ended, facts, inventoryFailed, resolved, source, todo, infos,
                        collection, incomplete, unplaced>>

Next == \/ \E p \in Pids : \/ \E d \in Directories : Chdir(p, d)
                           \/ Exit(p)
                           \/ \E d \in Directories, hints \in HintSets : Spawn(p, d, hints)
                           \/ Inspect(p)
                           \/ Match(p)
        \/ ListTimeout \/ CollectTimeout \/ Cancel
        \/ Load \/ Abort \/ Resolve \/ Enumerate \/ Verify \/ Inspected \/ Resample
        \/ Collected \/ Judge

Spec == Init /\ [][Next]_vars

--------------------------------------------------------------------------------
(* The processes the listing had to find where they are: those that have not *)
(* moved since it began, or since they started.  Only the process table of   *)
(* Darwin, read again at the end, accounts for those that started meanwhile. *)
Settled == {p \in Live \ moved : process[p].at \in Worktrees /\ (Darwin \/ p \notin started)}

(* Bound by its command line to other worktrees than the one it works in.   *)
Misleading(p) == /\ p \in DOMAIN infos
                 /\ infos[p].cwd = NoDirectory
                 /\ process[p].at \notin infos[p].hints
                 /\ infos[p].hints \cap resolved # {}

(* A worktree in which a process has been working since before it could be   *)
(* inspected is protected, whatever of the machine could not be read: the    *)
(* process table, the process, the path of the worktree, or in time.         *)
LiveProcessProtects ==
  pc = "done" => \A p \in Settled : ~Misleading(p) => plan[process[p].at] = "Protected"

(* docs/architecture/2026-09-12-treeclear.md says so with no exception for   *)
(* the command line of the process.                                         *)
CwdProtects == pc = "done" => \A p \in Settled : plan[process[p].at] = "Protected"

(* A plan without an error leaves out no process: each one was seen active   *)
(* where it works.                                                          *)
SilentMeansComplete ==
  pc = "done" /\ ~err
    => \A p \in Settled : [pid |-> p, state |-> "active"] \in collection.byWorktree[process[p].at]

(* A process is known to be elsewhere: its directory was read and is not in  *)
(* w.  If something else of it could not be read, Collect takes it for       *)
(* another worktree's only if its directory or its command line lies in one, *)
(* and its command line must not lie in w.  (A process whose directory could *)
(* not be read is not known to be elsewhere, whatever its command line says.)*)
Elsewhere(p, w) ==
  /\ p \notin unplaced
  /\ infos[p].cwd \notin {NoDirectory, w}
  /\ ~infos[p].ok => w \notin infos[p].hints /\ Roots(infos[p]) # {}

(* A failure that is known to concern other worktrees costs this one nothing:*)
(* it is still safe when nothing of its own went wrong and every process is  *)
(* known to be elsewhere.                                                   *)
FailureStaysLocal ==
  pc = "done" /\ ~inventoryFailed /\ ~incomplete /\ ~Late
    => \A w \in resolved : facts[w] = {} /\ (\A p \in DOMAIN infos : Elsewhere(p, w))
                             => plan[w] = "Safe"
================================================================================

----------------------------- MODULE PlanBuildProofs -----------------------------
(***************************************************************************)
(* Evaluate and Build.  Evaluate classifies as the architecture says and no  *)
(* piece of evidence excuses another; in Build no process that keeps working *)
(* in a worktree is overlooked, for any number of processes, worktrees and   *)
(* moves, on either platform.                                               *)
(***************************************************************************)
EXTENDS PlanBuild, Classification, TLAPS

(* Evaluate's ladder.                                                       *)
(* The first rung that holds decides.                                       *)
LEMMA FirstRungDecides ==
  ASSUME NEW g, NEW e, NEW s
  PROVE  \E i \in 1..18 :
           /\ Ladder(g, e, s)[i].holds
           /\ \A j \in 1..18 : j < i => ~Ladder(g, e, s)[j].holds
           /\ Evaluate(g, e, s) = Ladder(g, e, s)[i].class
<1>. DEFINE rungs == Ladder(g, e, s)
            Decides(i) == rungs[i].holds /\ \A j \in 1..18 : j < i => ~rungs[j].holds
<1>1. rungs[18].holds
  BY DEF Ladder, Rung
<1>. HIDE DEF rungs
<1>2. \E i \in 1..18 : Decides(i)
  BY <1>1
<1>. DEFINE first == CHOOSE i \in 1..18 : Decides(i)
<1>3. first \in 1..18 /\ Decides(first)
  BY <1>2
<1>4. Evaluate(g, e, s) = rungs[first].class
  BY DEF Evaluate, rungs
<1>. HIDE DEF first
<1>. QED BY <1>3, <1>4 DEF rungs

(* The classes of the rungs, in order.                                      *)
LEMMA RungClasses ==
  ASSUME NEW g, NEW e, NEW s, NEW i \in 1..18
  PROVE  Ladder(g, e, s)[i].class =
           IF i \leq 13 THEN "Protected" ELSE IF i \leq 17 THEN "Review" ELSE "Safe"
BY SMTT(60) DEF Ladder, Rung

LEMMA EvaluateType ==
  ASSUME NEW g, NEW e, NEW s
  PROVE  Evaluate(g, e, s) \in Classes
<1>1. PICK i \in 1..18 : Evaluate(g, e, s) = Ladder(g, e, s)[i].class
  BY FirstRungDecides
<1>. QED BY <1>1, RungClasses DEF Classes

(* Evidence of use, or evidence nobody understands, protects.                *)
LEMMA UseOrDoubtProtects ==
  ASSUME NEW g, NEW e, NEW s, HasActiveProcess(e) \/ HasUnknownEvidence(e)
  PROVE  Evaluate(g, e, s) = "Protected"
<1>1. PICK i \in 1..18 :
        /\ \A j \in 1..18 : j < i => ~Ladder(g, e, s)[j].holds
        /\ Evaluate(g, e, s) = Ladder(g, e, s)[i].class
  BY FirstRungDecides
<1>2. /\ Ladder(g, e, s)[9].holds = HasActiveProcess(e)
      /\ Ladder(g, e, s)[12].holds = HasUnknownEvidence(e)
  BY DEF Ladder, Rung
<1>3. i \leq 12
  BY <1>1, <1>2
<1>. QED BY <1>1, <1>3, RungClasses

(* A worktree with nothing against it is safe.                               *)
LEMMA NothingIsSafe ==
  ASSUME NEW e, NEW s, s.valid, ~e.warnings,
         e.processes = {}, e.agents = {}, e.adapters = {}
  PROVE  Evaluate({}, e, s) = "Safe"
<1>1. PICK i \in 1..18 : /\ Ladder({}, e, s)[i].holds
                         /\ Evaluate({}, e, s) = Ladder({}, e, s)[i].class
  BY FirstRungDecides
<1>2. Relevant(e) = {}
  BY DEF Relevant
<1>3. /\ ~HasActiveProcess(e) /\ ~HasActiveAgent(e) /\ ~HasUnhealthyAdapter(e)
      /\ ~HasNonOfflineAdapter(e)
  BY DEF HasActiveProcess, HasActiveAgent, HasUnhealthyAdapter, HasNonOfflineAdapter
<1>4. ~HasUnknownEvidence(e) /\ ~HasInsufficientTrust(e, s.minimum)
  BY <1>2 DEF HasUnknownEvidence, Conflicting, HasInsufficientTrust
<1>. DEFINE rungs == Ladder({}, e, s)
<1>5. \A j \in 1..17 : ~rungs[j].holds
  <2>1. ~rungs[1].holds /\ ~rungs[2].holds /\ ~rungs[3].holds /\ ~rungs[4].holds
    BY DEF Ladder, Rung
  <2>2. ~rungs[5].holds /\ ~rungs[6].holds /\ ~rungs[7].holds /\ ~rungs[8].holds
    BY DEF Ladder, Rung
  <2>3. ~rungs[9].holds /\ ~rungs[10].holds /\ ~rungs[11].holds /\ ~rungs[12].holds
    BY <1>3, <1>4 DEF Ladder, Rung
  <2>4. ~rungs[13].holds /\ ~rungs[14].holds /\ ~rungs[15].holds
    BY DEF Ladder, Rung
  <2>5. ~rungs[16].holds /\ ~rungs[17].holds
    BY <1>3, <1>4 DEF Ladder, Rung
  <2>. HIDE DEF rungs
  <2>. QED BY <2>1, <2>2, <2>3, <2>4, <2>5
<1>. HIDE DEF rungs
<1>6. i = 18
  BY <1>1, <1>5 DEF rungs
<1>. QED BY <1>1, <1>6, RungClasses

--------------------------------------------------------------------------------

Unknown(p) == [pid |-> p, state |-> "unknown"]
Active(p)  == [pid |-> p, state |-> "active"]

(* Births are numbered by the moves, so a PID used again is a later birth.   *)
BornInv == /\ before \in [DOMAIN before -> 0..moves]
           /\ \A p \in Live : process[p].born \leq moves
           /\ \A p \in Live \cap started :
                p \in DOMAIN before => process[p].born > before[p]

(* The processes that are where they were when the listing began.            *)
Steady == (Live \ moved) \ started

(* What was read of a steady process is what it is.                         *)
Sees(p) == /\ infos[p].cwd \in {process[p].at, NoDirectory}
           /\ infos[p].ok => infos[p].cwd = process[p].at

SeenInv == \A p \in DOMAIN infos \cap Steady : Sees(p)

(* The listing finds every steady process, or is incomplete.                 *)
ListedInv ==
  /\ pc \in {"inspect", "resample"} => incomplete \/ Steady \subseteq listed
  /\ pc = "resample" => listed \subseteq DOMAIN infos
  /\ pc \in {"match", "judge", "done"} =>
       incomplete \/ (Steady \subseteq DOMAIN infos /\ (Darwin => Live \cap started = {}))

(* A worktree that could not be resolved is marked.                          *)
MarkedInv == pc \notin {"load", "collect", "aborted"} =>
               incomplete \/ \A w \in Worktrees \ resolved : Unknown(NoPid) \in collection.byWorktree[w]

(* A process that was matched left its evidence where it belongs.            *)
Bound(p) ==
  /\ ~infos[p].ok => p \in collection.uninspectable
  /\ \/ collection.globalUnknown # {} /\ p \in collection.uninspectable
     \/ /\ infos[p].ok => \A w \in Roots(infos[p]) : Active(p) \in collection.byWorktree[w]
        /\ ~infos[p].ok => \A w \in Roots(infos[p]) : Unknown(p) \in collection.byWorktree[w]
        /\ ~infos[p].ok /\ Roots(infos[p]) = {} => collection.globalUnknown # {}

BoundInv == /\ pc \in {"match", "judge", "done"} =>
                 incomplete \/ \A p \in DOMAIN infos \ todo : Bound(p)
            /\ pc \in {"judge", "done"} => incomplete \/ todo = {}

(* Nothing of what was collected concerns a worktree.                        *)
Untouched(w) ==
  /\ collection.byWorktree[w] = {} /\ collection.globalUnknown = {}
  /\ \A scope \in collection.errors : scope # Everywhere /\ w \notin scope
  /\ \A p \in collection.uninspectable : \E v \in Worktrees : Unknown(p) \in collection.byWorktree[v]

(* Only a process that was not fully inspected is bound by its command line. *)
FullInv == \A p \in DOMAIN infos : infos[p].ok => infos[p].hints = {}

(* A worktree is concerned only by the processes bound so far.               *)
LocalInv ==
  /\ pc \in Listing => \A w \in resolved : Untouched(w)
  /\ pc \in {"match", "judge", "done"} /\ ~incomplete =>
       /\ todo \subseteq DOMAIN infos
       /\ \A w \in resolved : (\A p \in DOMAIN infos \ todo : Elsewhere(p, w)) => Untouched(w)

IInv == /\ TypeOK /\ BornInv /\ SeenInv /\ ListedInv /\ MarkedInv /\ BoundInv
        /\ FullInv /\ LocalInv
        /\ LiveProcessProtects /\ SilentMeansComplete /\ FailureStaysLocal

--------------------------------------------------------------------------------
(* Type correctness.                                                        *)
LEMMA InitType == Init => TypeOK
<1>. SUFFICES ASSUME Init PROVE TypeOK
  OBVIOUS
<1>1. process \in [Pids -> Processes \cup {Gone}]
  BY BuildAssumption DEF Init, Processes
<1>2. collection \in Collections
  BY DEF Init, EmptyCollection, Collections
<1>3. DOMAIN infos \subseteq Pids /\ \A p \in DOMAIN infos : infos[p] \in Readings
  BY DEF Init, NoInfos
<1>4. facts \in [Worktrees -> SUBSET GitFacts]
  BY DEF Init
<1>5. moves \in 0..MaxMoves /\ attempt \in 1..Attempts
  BY BuildAssumption DEF Init, Attempts
<1>6. /\ moved \subseteq Pids /\ started \subseteq Pids /\ ended \subseteq {"build", "collect", "list"}
      /\ resolved \subseteq Worktrees /\ handles \subseteq Pids /\ listed \subseteq Pids
      /\ todo \subseteq Pids /\ unplaced \subseteq Pids
  BY DEF Init
<1>7. /\ pc \in Collecting \cup {"load", "collect", "judge", "done", "aborted"}
      /\ inventoryFailed \in BOOLEAN /\ incomplete \in BOOLEAN /\ err \in BOOLEAN
      /\ plan \in [Worktrees -> Classes] \cup {NoPlan}
  BY DEF Init
<1>. QED BY <1>1, <1>2, <1>3, <1>4, <1>5, <1>6, <1>7 DEF TypeOK

(* The steps that leave the collection and what is read alone.               *)
LEMMA WorldType ==
  ASSUME TypeOK, NEW p \in Pids,
         \/ \E d \in Directories : Chdir(p, d)
         \/ Exit(p)
         \/ \E d \in Directories, hints \in HintSets : Spawn(p, d, hints)
  PROVE  TypeOK'
<1>0. moves' \in 0..MaxMoves /\ Moves /\ moves' = moves + 1
  BY BuildAssumption DEF TypeOK, Chdir, Exit, Spawn, Moves
<1>1. process' \in [Pids -> Processes \cup {Gone}] /\ moved' \subseteq Pids /\ started' \subseteq Pids
  <2>1. CASE \E d \in Directories : Chdir(p, d)
    <3>1. PICK d \in Directories : Chdir(p, d)
      BY <2>1
    <3>2. process[p] \in Processes
      BY <3>1 DEF Chdir, Live, TypeOK
    <3>3. [process[p] EXCEPT !.at = d] \in Processes
      BY <3>2 DEF Processes
    <3>4. process' = [process EXCEPT ![p] = [process[p] EXCEPT !.at = d]]
      BY <3>1 DEF Chdir
    <3>. QED BY <3>1, <3>3, <3>4 DEF TypeOK, Chdir
  <2>2. CASE Exit(p)
    BY <2>2 DEF Exit, TypeOK
  <2>3. CASE \E d \in Directories, hints \in HintSets : Spawn(p, d, hints)
    <3>1. PICK d \in Directories, hints \in HintSets : Spawn(p, d, hints)
      BY <2>3
    <3>2. [at |-> d, hints |-> hints, born |-> moves'] \in Processes
      BY <1>0 DEF Processes
    <3>. QED BY <3>1, <3>2 DEF TypeOK, Spawn
  <2>. QED BY <2>1, <2>2, <2>3
<1>. QED BY <1>0, <1>1 DEF TypeOK, Moves, source

(* Readings are readings, whatever the process.                              *)
LEMMA ReadableType ==
  ASSUME TypeOK, NEW p \in Pids
  PROVE  Readable(p) \subseteq Readings
<1>1. Blind \in Readings
  BY DEF Blind, Readings
<1>2. CASE process[p] = Gone \/ "list" \in ended
  BY <1>1, <1>2 DEF Readable
<1>3. CASE ~(process[p] = Gone \/ "list" \in ended)
  <2>1. process[p] \in Processes
    BY <1>3 DEF TypeOK
  <2>2. process[p].at \in Directories /\ process[p].hints \subseteq Worktrees
    BY <2>1, BuildAssumption DEF Processes
  <2>3. [cwd |-> process[p].at, hints |-> {}, ok |-> TRUE] \in Readings
    BY <2>2 DEF Readings
  <2>4. [cwd : {process[p].at, NoDirectory}, hints : {{}, process[p].hints}, ok : {FALSE}] \subseteq Readings
    BY <2>2 DEF Readings
  <2>. QED BY <1>3, <2>3, <2>4 DEF Readable
<1>. QED BY <1>2, <1>3

(* Evidence is filed as evidence.                                           *)
LEMMA BindToType ==
  ASSUME TypeOK, NEW p \in Pids, NEW state \in {"active", "unknown"}, NEW roots \in SUBSET Worktrees
  PROVE  BindTo(p, state, roots) \in Collections
<1>. DEFINE piece == [pid |-> p, state |-> state]
            b == [w \in Worktrees |-> collection.byWorktree[w] \cup IF w \in roots THEN {piece} ELSE {}]
            u == collection.uninspectable \cup IF state = "unknown" THEN {p} ELSE {}
            g == collection.globalUnknown \cup IF state = "unknown" /\ roots = {} THEN {piece} ELSE {}
            x == collection.errors \cup IF state = "unknown" THEN {roots} ELSE {}
<1>1. piece \in Evidence
  BY DEF Evidence
<1>2. collection \in Collections
  BY DEF TypeOK
<1>3. b \in [Worktrees -> SUBSET Evidence] /\ u \in SUBSET Pids /\ g \in SUBSET Evidence
  BY <1>1, <1>2 DEF Collections
<1>4. x \in SUBSET SUBSET Worktrees
  BY <1>2 DEF Collections
<1>5. BindTo(p, state, roots) = [byWorktree |-> b, uninspectable |-> u, globalUnknown |-> g, errors |-> x]
  BY <1>2 DEF BindTo, Collections
<1>. HIDE DEF b, u, g, x
<1>. QED BY <1>3, <1>4, <1>5 DEF Collections

LEMMA TypeStep == TypeOK /\ [Next]_vars => TypeOK'
<1>. SUFFICES ASSUME TypeOK, [Next]_vars PROVE TypeOK'
  OBVIOUS
<1>1. CASE \E p \in Pids : \/ \E d \in Directories : Chdir(p, d)
                           \/ Exit(p)
                           \/ \E d \in Directories, hints \in HintSets : Spawn(p, d, hints)
  BY <1>1, WorldType
<1>2. ASSUME NEW p \in Pids, Inspect(p) PROVE TypeOK'
  <2>1. PICK reading \in Readable(p) :
          infos' = [q \in DOMAIN infos \cup {p} |-> IF q = p THEN reading ELSE infos[q]]
    BY <1>2 DEF Inspect
  <2>2. DOMAIN infos' \subseteq Pids /\ \A q \in DOMAIN infos' : infos'[q] \in Readings
    BY <2>1, ReadableType DEF TypeOK
  <2>. QED BY <1>2, <2>2 DEF Inspect, TypeOK, world, source
<1>3. ASSUME NEW p \in Pids, Match(p) PROVE TypeOK'
  <2>1. Roots(infos[p]) \in SUBSET Worktrees /\ Everywhere \in SUBSET Worktrees
    BY DEF Roots, TypeOK, Everywhere
  <2>2. collection' \in Collections
    BY <1>3, <2>1, BindToType DEF Match, TypeOK
  <2>. QED BY <1>3, <2>2 DEF Match, TypeOK, world, source
<1>4. CASE ListTimeout \/ CollectTimeout \/ Cancel
  BY <1>4 DEF ListTimeout, CollectTimeout, Cancel, End, TypeOK, world, source
<1>5. CASE Load
  BY <1>5, BuildAssumption DEF Load, TypeOK, world, source
<1>6. CASE Abort
  BY <1>6 DEF Abort, TypeOK, world, source
<1>7. CASE Resolve
  <2>1. collection' \in Collections
    <3>1. CASE UNCHANGED collection
      BY <3>1 DEF TypeOK
    <3>2. CASE collection' = Unresolvable(resolved')
      <4>1. Unresolvable(resolved') =
              [byWorktree |-> [w \in Worktrees |-> IF w \in resolved' THEN {} ELSE {Unknown(NoPid)}],
               uninspectable |-> {}, globalUnknown |-> {}, errors |-> {{w} : w \in Worktrees \ resolved'}]
        BY DEF Unresolvable, Unknown
      <4>2. Unknown(NoPid) \in Evidence
        BY DEF Unknown, Evidence
      <4>. QED BY <3>2, <4>1, <4>2 DEF Collections
    <3>. QED BY <1>7, <3>1, <3>2 DEF Resolve
  <2>2. incomplete' \in BOOLEAN
    BY <1>7, Zenon DEF Resolve, TypeOK
  <2>3. pc' \in Collecting \cup {"load", "collect", "judge", "done", "aborted"}
    BY <1>7 DEF Resolve, Collecting, Listing
  <2>4. resolved' \subseteq Worktrees
    BY <1>7 DEF Resolve, TypeOK
  <2>. QED BY <1>7, <2>1, <2>2, <2>3, <2>4 DEF Resolve, TypeOK, world, source
<1>8. CASE Enumerate
  <2>1. DOMAIN infos' \subseteq Pids /\ \A p \in DOMAIN infos' : infos'[p] \in Readings
    BY <1>8 DEF Enumerate, NoInfos, TypeOK
  <2>2. attempt' \in 1..Attempts
    <3>1. attempt' = 1 \/ attempt' = attempt
      BY <1>8, Zenon DEF Enumerate, Listed
    <3>. QED BY <3>1 DEF Attempts, TypeOK
  <2>3. Live \subseteq Pids
    BY DEF Live
  <2>. QED BY <1>8, <2>1, <2>2, <2>3 DEF Enumerate, Listed, TypeOK, Collecting, Listing
<1>9. CASE Verify
  <2>1. Live \subseteq Pids
    BY DEF Live
  <2>. QED BY <1>9, <2>1 DEF Verify, TypeOK, world, Collecting, Listing
<1>10. CASE Inspected
  <2>1. DOMAIN infos' \subseteq Pids /\ \A p \in DOMAIN infos' : infos'[p] \in Readings
    <3>1. Blind \in Readings
      BY DEF Blind, Readings
    <3>. QED BY <1>10, <3>1 DEF Inspected, TypeOK
  <2>2. attempt' \in 1..Attempts
    <3>1. attempt' = 1 \/ attempt' = attempt
      BY <1>10, Zenon DEF Inspected, Listed, source
    <3>. QED BY <3>1 DEF Attempts, TypeOK
  <2>. QED BY <1>10, <2>1, <2>2 DEF Inspected, Listed, TypeOK, world, source, Collecting, Listing
<1>11. CASE Resample
  <2>1. attempt' \in 1..Attempts
    BY <1>11 DEF Resample, Listed, Attempts, TypeOK
  <2>. QED BY <1>11, <2>1 DEF Resample, Listed, TypeOK, world, Collecting, Listing
<1>12. CASE Collected
  <2>1. collection' \in Collections
    <3>. DEFINE g == collection.globalUnknown \cup IF incomplete' THEN {Unknown(NoPid)} ELSE {}
                x == collection.errors \cup IF incomplete' THEN {Everywhere} ELSE {}
    <3>1. collection \in Collections
      BY DEF TypeOK
    <3>2. g \in SUBSET Evidence /\ x \in SUBSET SUBSET Worktrees
      BY <3>1 DEF Collections, Unknown, Evidence, Everywhere
    <3>3. collection' = [collection EXCEPT !.globalUnknown = g, !.errors = x]
      BY <1>12 DEF Collected, Unknown
    <3>. HIDE DEF g, x
    <3>. QED BY <3>1, <3>2, <3>3 DEF Collections
  <2>2. incomplete' \in BOOLEAN
    BY <1>12, Zenon DEF Collected, TypeOK
  <2>. QED BY <1>12, <2>1, <2>2 DEF Collected, TypeOK, world, source
<1>13. CASE Judge
  <2>1. plan' \in [Worktrees -> Classes]
    BY <1>13, EvaluateType DEF Judge
  <2>2. err' \in BOOLEAN
    BY <1>13 DEF Judge, Failed, TypeOK, Late
  <2>. QED BY <1>13, <2>1, <2>2 DEF Judge, TypeOK, world, source
<1>14. CASE UNCHANGED vars
  BY <1>14 DEF vars, TypeOK, world, source
<1>. QED BY <1>1, <1>2, <1>3, <1>4, <1>5, <1>6, <1>7, <1>8, <1>9, <1>10, <1>11, <1>12, <1>13, <1>14
         DEF Next

--------------------------------------------------------------------------------
(* The steps of the world.                                                  *)
WorldStep == \E p \in Pids : \/ \E d \in Directories : Chdir(p, d)
                           \/ Exit(p)
                           \/ \E d \in Directories, hints \in HintSets : Spawn(p, d, hints)

(* A step of the world makes no process steady and moves no steady one.      *)
LEMMA WorldKeepsSteady ==
  ASSUME TypeOK, WorldStep
  PROVE  /\ Steady' \subseteq Steady
         /\ \A q \in Steady' : process'[q] = process[q]
         /\ Moves
<1>1. PICK p \in Pids : \/ \E d \in Directories : Chdir(p, d)
                       \/ Exit(p)
                       \/ \E d \in Directories, hints \in HintSets : Spawn(p, d, hints)
  BY DEF WorldStep
<1>2. \A q \in Pids \ {p} : process'[q] = process[q]
  BY <1>1 DEF Chdir, Exit, Spawn, TypeOK
<1>3. CASE \E d \in Directories : Chdir(p, d)
  <2>1. moved' = moved \cup {p} /\ started' = started /\ Moves
    BY <1>3 DEF Chdir
  <2>. QED BY <1>2, <2>1 DEF Steady, Live
<1>4. CASE Exit(p)
  <2>1. process'[p] = Gone /\ moved' = moved /\ started' = started /\ Moves
    BY <1>4 DEF Exit, TypeOK
  <2>. QED BY <1>2, <2>1 DEF Steady, Live
<1>5. CASE \E d \in Directories, hints \in HintSets : Spawn(p, d, hints)
  <2>1. started' = started \cup {p} /\ moved' = moved \ {p} /\ Moves
    BY <1>5 DEF Spawn
  <2>. QED BY <1>2, <2>1 DEF Steady, Live
<1>. QED BY <1>1, <1>3, <1>4, <1>5

LEMMA BornStep == TypeOK /\ BornInv /\ [Next]_vars => BornInv'
<1>. SUFFICES ASSUME TypeOK, BornInv, [Next]_vars PROVE BornInv'
  OBVIOUS
<1>0. moves \in Nat
  BY BuildAssumption DEF TypeOK
<1>1. CASE WorldStep
  <2>1. PICK p \in Pids : \/ \E d \in Directories : Chdir(p, d)
                         \/ Exit(p)
                         \/ \E d \in Directories, hints \in HintSets : Spawn(p, d, hints)
    BY <1>1 DEF WorldStep
  <2>2. before' = before /\ moves' = moves + 1
    BY <2>1 DEF Chdir, Exit, Spawn, Moves, source
  <2>3. before' \in [DOMAIN before' -> 0..moves']
    BY <1>0, <2>2 DEF BornInv
  <2>4. \A q \in Live : process[q].born \in Nat /\ process[q].born \leq moves
    BY DEF BornInv, TypeOK, Live, Processes
  <2>5. CASE \E d \in Directories : Chdir(p, d)
    <3>1. PICK d \in Directories : Chdir(p, d)
      BY <2>5
    <3>2. process[p] \in Processes
      BY <3>1 DEF Chdir, Live, TypeOK
    <3>3. /\ p \in Live /\ started' = started
          /\ process' = [process EXCEPT ![p] = [process[p] EXCEPT !.at = d]]
      BY <3>1 DEF Chdir
    <3>4. \A q \in Live' : q \in Live /\ process'[q].born = process[q].born
      BY <3>2, <3>3 DEF Live, TypeOK, Processes
    <3>. QED BY <1>0, <2>2, <2>3, <2>4, <3>3, <3>4 DEF BornInv
  <2>6. CASE Exit(p)
    <3>1. \A q \in Live' : q \in Live /\ process'[q] = process[q]
      BY <2>6 DEF Exit, Live, TypeOK
    <3>2. started' = started
      BY <2>6 DEF Exit
    <3>. QED BY <1>0, <2>2, <2>3, <2>4, <3>1, <3>2 DEF BornInv
  <2>7. CASE \E d \in Directories, hints \in HintSets : Spawn(p, d, hints)
    <3>1. PICK d \in Directories, hints \in HintSets : Spawn(p, d, hints)
      BY <2>7
    <3>2. process'[p].born = moves' /\ started' = started \cup {p}
      BY <3>1 DEF Spawn, TypeOK
    <3>3. \A q \in Live' \ {p} : q \in Live /\ process'[q] = process[q]
      BY <3>1 DEF Spawn, Live, TypeOK
    <3>4. p \in DOMAIN before => before[p] \in Nat /\ before[p] \leq moves
      BY DEF BornInv
    <3>. QED BY <1>0, <2>2, <2>3, <2>4, <3>2, <3>3, <3>4 DEF BornInv
  <2>. QED BY <2>1, <2>5, <2>6, <2>7
<1>2. CASE before' = NoTable /\ UNCHANGED <<process, moves>>
  BY <1>0, <1>2 DEF BornInv, NoTable, Live
<1>3. CASE UNCHANGED <<process, moves, started, before>>
  BY <1>3 DEF BornInv, Live
<1>4. CASE Enumerate
  <2>1. UNCHANGED <<process, moves>>
    BY <1>4 DEF Enumerate
  <2>2. CASE before' = Table /\ started' = {}
    <3>1. Table \in [Live -> 0..moves]
      BY DEF Table, BornInv, TypeOK, Live, Processes
    <3>. QED BY <2>1, <2>2, <3>1 DEF BornInv, Live
  <2>3. CASE before' = before /\ started' = {}
    BY <2>1, <2>3 DEF BornInv, Live
  <2>4. \/ before' = NoTable
        \/ before' = Table /\ started' = {}
        \/ before' = before /\ started' = {}
    BY <1>4, Zenon DEF Enumerate, Listed
  <2>. QED BY <1>2, <2>1, <2>2, <2>3, <2>4
<1>5. CASE Inspected \/ Resample
  <2>1. UNCHANGED <<process, moves, started>>
    BY <1>5 DEF Inspected, Resample, world
  <2>2. before' = NoTable \/ before' = before
    BY <1>5, Zenon DEF Inspected, Resample, Listed, source
  <2>. QED BY <1>2, <1>3, <2>1, <2>2
<1>6. CASE \/ \E p \in Pids : Inspect(p) \/ Match(p)
           \/ ListTimeout \/ CollectTimeout \/ Cancel \/ Load \/ Abort \/ Resolve \/ Verify
           \/ Collected \/ Judge
  <2>1. UNCHANGED <<process, moves, started, before>>
    BY <1>6 DEF Inspect, Match, ListTimeout, CollectTimeout, Cancel, End, Load, Abort, Resolve,
       Verify, Collected, Judge, world, source
  <2>. QED BY <1>3, <2>1
<1>7. CASE UNCHANGED vars
  BY <1>3, <1>7 DEF vars, world, source
<1>. QED BY <1>1, <1>4, <1>5, <1>6, <1>7 DEF Next, WorldStep

LEMMA SeenStep == TypeOK /\ SeenInv /\ [Next]_vars => SeenInv'
<1>. SUFFICES ASSUME TypeOK, SeenInv, [Next]_vars PROVE SeenInv'
  OBVIOUS
<1>1. CASE WorldStep
  <2>1. infos' = infos
    BY <1>1, WorldKeepsSteady DEF Moves
  <2>. QED BY <1>1, <2>1, WorldKeepsSteady DEF SeenInv, Sees
<1>2. CASE UNCHANGED <<process, moved, started, infos>>
  BY <1>2 DEF SeenInv, Sees, Steady, Live
<1>3. CASE Enumerate
  <2>1. CASE UNCHANGED <<process, moved, started, infos>>
    BY <1>2, <2>1
  <2>2. CASE infos' = NoInfos
    BY <2>2 DEF SeenInv, NoInfos
  <2>3. infos' = NoInfos \/ UNCHANGED <<process, moved, started, infos>>
    BY <1>3, Zenon DEF Enumerate
  <2>. QED BY <2>1, <2>2, <2>3
<1>4. ASSUME NEW p \in Pids, Inspect(p) PROVE SeenInv'
  <2>1. PICK reading \in Readable(p) :
          infos' = [q \in DOMAIN infos \cup {p} |-> IF q = p THEN reading ELSE infos[q]]
    BY <1>4 DEF Inspect
  <2>2. UNCHANGED <<process, moved, started>>
    BY <1>4 DEF Inspect, world
  <2>3. /\ reading.cwd \in {process[p].at, NoDirectory}
        /\ reading.ok => reading.cwd = process[p].at
    <3>1. CASE reading = Blind
      BY <3>1 DEF Blind
    <3>2. CASE reading = [cwd |-> process[p].at, hints |-> {}, ok |-> TRUE]
      BY <3>2
    <3>3. CASE reading \in [cwd : {process[p].at, NoDirectory}, hints : {{}, process[p].hints}, ok : {FALSE}]
      BY <3>3
    <3>. QED BY <2>1, <3>1, <3>2, <3>3, Zenon DEF Readable
  <2>. QED BY <2>1, <2>2, <2>3 DEF SeenInv, Sees, Steady, Live
<1>5. CASE Inspected
  <2>1. infos' = [p \in DOMAIN infos \cup listed |-> IF p \in DOMAIN infos THEN infos[p] ELSE Blind]
    BY <1>5 DEF Inspected
  <2>2. UNCHANGED <<process, moved, started>>
    BY <1>5 DEF Inspected, world
  <2>. QED BY <2>1, <2>2 DEF SeenInv, Sees, Steady, Live, Blind
<1>6. CASE \/ \E p \in Pids : Match(p)
           \/ ListTimeout \/ CollectTimeout \/ Cancel \/ Load \/ Abort \/ Resolve \/ Verify
           \/ Resample \/ Collected \/ Judge
  <2>1. UNCHANGED <<process, moved, started, infos>>
    BY <1>6 DEF Match, ListTimeout, CollectTimeout, Cancel, End, Load, Abort, Resolve,
       Verify, Resample, Collected, Judge, world
  <2>. QED BY <1>2, <2>1
<1>7. CASE UNCHANGED vars
  BY <1>2, <1>7 DEF vars, world
<1>. QED BY <1>1, <1>3, <1>4, <1>5, <1>6, <1>7 DEF Next, WorldStep

LEMMA ListedStep == TypeOK /\ BornInv /\ ListedInv /\ [Next]_vars => ListedInv'
<1>. SUFFICES ASSUME TypeOK, BornInv, ListedInv, [Next]_vars PROVE ListedInv'
  OBVIOUS
<1>0. Steady \subseteq Live /\ Steady \cap started = {}
  BY DEF Steady
<1>1. CASE WorldStep
  <2>1. UNCHANGED <<pc, incomplete, listed, infos>> /\ pc \in Listing
    BY <1>1, WorldKeepsSteady DEF Moves, source
  <2>. QED BY <1>1, <2>1, WorldKeepsSteady DEF ListedInv, Listing
<1>2. CASE UNCHANGED <<process, moved, started, pc, incomplete, listed, infos>>
  BY <1>2 DEF ListedInv, Steady, Live
<1>3. CASE Enumerate
  <2>1. \/ pc' = "match" /\ incomplete' = (incomplete \/ TRUE)
        \/ pc' = "verify"
        \/ pc' = "inspect" /\ listed' = Live /\ process' = process
    BY <1>3, Zenon DEF Enumerate, Listed
  <2>2. incomplete' = (incomplete \/ TRUE) => incomplete'
    OBVIOUS
  <2>. QED BY <2>1, <2>2 DEF ListedInv, Steady, Live
<1>4. CASE Verify
  <2>1. /\ pc' = "inspect"
        /\ incomplete' \/ listed' = Live
        /\ UNCHANGED <<process, moved, started>>
    BY <1>4, Zenon DEF Verify, world
  <2>. QED BY <1>0, <2>1 DEF ListedInv, Steady, Live
<1>5. CASE \E p \in Pids : Inspect(p)
  <2>1. pc = "inspect" /\ UNCHANGED <<process, moved, started, pc, incomplete, listed>>
    BY <1>5 DEF Inspect, world, source
  <2>. QED BY <2>1 DEF ListedInv, Steady, Live
<1>6. CASE Inspected
  <2>1. /\ pc = "inspect"
        /\ DOMAIN infos' = DOMAIN infos \cup listed
        /\ UNCHANGED <<process, moved, started>>
    BY <1>6 DEF Inspected, world
  <2>2. \/ pc' = "resample" /\ UNCHANGED <<incomplete, listed>>
        \/ /\ pc' = "match"
           /\ incomplete => incomplete'
           /\ Darwin => incomplete'
    <3>. DEFINE failed == incomplete \/ listed \ handles # {} \/ "list" \in ended
    <3>1. IF Darwin /\ ~failed THEN pc' = "resample" /\ UNCHANGED <<source, todo, incomplete>>
                                ELSE Listed(failed)
      BY <1>6 DEF Inspected
    <3>2. CASE Darwin /\ ~failed
      BY <3>1, <3>2 DEF source
    <3>3. CASE ~(Darwin /\ ~failed)
      <4>1. pc' = "match" /\ incomplete' = (incomplete \/ failed)
        BY <3>1, <3>3, Zenon DEF Listed
      <4>. QED BY <3>3, <4>1
    <3>. QED BY <3>2, <3>3
  <2>. QED BY <2>1, <2>2 DEF ListedInv, Steady, Live
<1>7. CASE Resample
  <2>1. pc = "resample" /\ UNCHANGED <<process, moved, started, infos>>
    BY <1>7 DEF Resample, world
  <2>2. \/ pc' = "match" /\ incomplete' = (incomplete \/ TRUE)
        \/ Same /\ pc' = "match" /\ incomplete' = (incomplete \/ FALSE)
        \/ pc' = "list"
    BY <1>7, Zenon DEF Resample, Listed
  <2>3. CASE pc' = "match" /\ incomplete' = (incomplete \/ TRUE)
    BY <2>3 DEF ListedInv
  <2>4. CASE Same /\ pc' = "match" /\ incomplete' = (incomplete \/ FALSE)
    <3>1. incomplete => incomplete'
      BY <2>4
    <3>2. Live \cap started = {}
      <4>1. Live = DOMAIN before /\ \A p \in Live : process[p].born = before[p]
        BY <2>4 DEF Same, Table
      <4>2. \A p \in Live : before[p] \in Nat
        BY <4>1 DEF BornInv
      <4>. QED BY <4>1, <4>2 DEF BornInv
    <3>3. incomplete \/ Steady \subseteq DOMAIN infos
      BY <2>1 DEF ListedInv
    <3>. QED BY <2>1, <2>4, <3>1, <3>2, <3>3 DEF ListedInv, Steady, Live
  <2>5. CASE pc' = "list"
    BY <2>5 DEF ListedInv
  <2>. QED BY <2>2, <2>3, <2>4, <2>5
<1>8. CASE Resolve
  <2>1. pc' = "list" \/ (pc' = "match" /\ incomplete' = TRUE)
    BY <1>8, Zenon DEF Resolve
  <2>. QED BY <2>1 DEF ListedInv
<1>9. CASE (\E p \in Pids : Match(p)) \/ Collected \/ Judge
  <2>1. /\ UNCHANGED <<process, moved, started, infos>>
        /\ pc \in {"match", "judge", "done"} /\ pc' \in {"match", "judge", "done"}
    BY <1>9 DEF Match, Collected, Judge, world
  <2>2. incomplete' = TRUE \/ incomplete' = incomplete \/ incomplete' = (incomplete \/ "collect" \in ended)
    BY <1>9, Zenon DEF Match, Collected, Judge
  <2>3. incomplete => incomplete'
    BY <2>2
  <2>. QED BY <2>1, <2>3 DEF ListedInv, Steady, Live
<1>10. CASE Load \/ Abort
  <2>1. pc' \in {"collect", "aborted"}
    BY <1>10 DEF Load, Abort
  <2>. QED BY <2>1 DEF ListedInv
<1>11. CASE ListTimeout \/ CollectTimeout \/ Cancel \/ UNCHANGED vars
  <2>1. UNCHANGED <<process, moved, started, pc, incomplete, listed, infos>>
    BY <1>11 DEF ListTimeout, CollectTimeout, Cancel, End, vars, world, source
  <2>. QED BY <1>2, <2>1
<1>. QED BY <1>1, <1>3, <1>4, <1>5, <1>6, <1>7, <1>8, <1>9, <1>10, <1>11 DEF Next, WorldStep

LEMMA MarkedStep == TypeOK /\ MarkedInv /\ [Next]_vars => MarkedInv'
<1>. SUFFICES ASSUME TypeOK, MarkedInv, [Next]_vars PROVE MarkedInv'
  OBVIOUS
<1>. DEFINE Marked == \A w \in Worktrees \ resolved : Unknown(NoPid) \in collection.byWorktree[w]
<1>1. CASE Load \/ Abort
  BY <1>1 DEF Load, Abort, MarkedInv
<1>2. CASE Resolve
  <2>1. CASE incomplete' = TRUE
    BY <2>1 DEF MarkedInv
  <2>2. CASE collection' = Unresolvable(resolved')
    BY <2>2 DEF MarkedInv, Unresolvable, Unknown
  <2>. QED BY <1>2, <2>1, <2>2, Zenon DEF Resolve
<1>3. CASE /\ pc \notin {"load", "collect", "aborted"}
           /\ incomplete => incomplete'
           /\ resolved' = resolved
           /\ \A w \in Worktrees : collection.byWorktree[w] \subseteq collection'.byWorktree[w]
  BY <1>3 DEF MarkedInv
<1>4. ASSUME NEW p \in Pids, Match(p) PROVE MarkedInv'
  <2>1. \A state, roots : \A w \in Worktrees :
          collection.byWorktree[w] \subseteq BindTo(p, state, roots).byWorktree[w]
    BY DEF BindTo
  <2>2. \A w \in Worktrees : collection.byWorktree[w] \subseteq collection'.byWorktree[w]
    BY <1>4, <2>1 DEF Match
  <2>3. incomplete' = TRUE \/ incomplete' = incomplete
    BY <1>4, Zenon DEF Match
  <2>4. resolved' = resolved /\ pc = "match"
    BY <1>4 DEF Match
  <2>. QED BY <1>3, <2>2, <2>3, <2>4
<1>5. CASE Collected
  <2>1. incomplete' = (incomplete \/ "collect" \in ended)
    BY <1>5, Zenon DEF Collected
  <2>2. collection'.byWorktree = collection.byWorktree
    BY <1>5 DEF Collected, TypeOK, Collections
  <2>. QED BY <1>5, <1>3, <2>1, <2>2 DEF Collected
<1>6. CASE UNCHANGED <<pc, incomplete, resolved, collection>>
  BY <1>6 DEF MarkedInv
<1>7. CASE Enumerate \/ Verify \/ Inspected \/ Resample \/ Judge
  <2>1. pc \in {"list", "verify", "inspect", "resample", "judge"} /\ UNCHANGED <<resolved, collection>>
    BY <1>7 DEF Enumerate, Verify, Inspected, Resample, Judge
  <2>2. incomplete => incomplete'
    <3>1. CASE Enumerate
      <4>1. incomplete' = incomplete \/ incomplete' = (incomplete \/ TRUE) \/ incomplete' \in {incomplete, TRUE}
        BY <3>1, Zenon DEF Enumerate, Listed
      <4>. QED BY <4>1
    <3>2. CASE Verify
      <4>1. incomplete' = TRUE \/ incomplete' = (incomplete \/ Live = {})
        BY <3>2, Zenon DEF Verify
      <4>. QED BY <4>1
    <3>3. CASE Inspected
      <4>1. incomplete' = incomplete \/ \E b \in {TRUE, FALSE} : incomplete' = (incomplete \/ b)
        <5>. DEFINE failed == incomplete \/ listed \ handles # {} \/ "list" \in ended
        <5>1. failed \in {TRUE, FALSE}
          BY DEF TypeOK
        <5>. HIDE DEF failed
        <5>2. incomplete' = incomplete \/ incomplete' = (incomplete \/ failed)
          BY <3>3, Zenon DEF Inspected, Listed, failed
        <5>. QED BY <5>1, <5>2, Zenon
      <4>. QED BY <4>1
    <3>4. CASE Resample
      <4>1. \/ incomplete' = incomplete
            \/ incomplete' = (incomplete \/ TRUE)
            \/ incomplete' = (incomplete \/ FALSE)
        BY <3>4, Zenon DEF Resample, Listed
      <4>. QED BY <4>1
    <3>5. CASE Judge
      BY <3>5, Zenon DEF Judge
    <3>. QED BY <1>7, <3>1, <3>2, <3>3, <3>4, <3>5
  <2>. QED BY <1>3, <2>1, <2>2
<1>8. CASE WorldStep \/ (\E p \in Pids : Inspect(p)) \/ ListTimeout \/ CollectTimeout \/ Cancel
           \/ UNCHANGED vars
  <2>1. CASE WorldStep
    BY <1>6, <2>1, WorldKeepsSteady DEF Moves
  <2>2. CASE ~WorldStep
    <3>1. UNCHANGED <<pc, incomplete, resolved, collection>>
      BY <1>8, <2>2 DEF Inspect, ListTimeout, CollectTimeout, Cancel, End, vars
    <3>. QED BY <1>6, <3>1
  <2>. QED BY <2>1, <2>2
<1>. QED BY <1>1, <1>2, <1>4, <1>5, <1>7, <1>8 DEF Next, WorldStep

(* Binding a process keeps what was bound, and files the process itself.     *)
LEMMA BindToKeeps ==
  ASSUME TypeOK, NEW p \in Pids, NEW state \in {"active", "unknown"}, NEW roots \in SUBSET Worktrees,
         UNCHANGED <<infos, resolved>>, collection' = BindTo(p, state, roots)
  PROVE  /\ \A q : Bound(q) => Bound(q)'
         /\ state = "unknown" => p \in collection'.uninspectable
         /\ \A w \in roots : [pid |-> p, state |-> state] \in collection'.byWorktree[w]
         /\ state = "unknown" /\ roots = {} => collection'.globalUnknown # {}
<1>1. /\ \A w \in Worktrees : collection.byWorktree[w] \subseteq collection'.byWorktree[w]
      /\ collection.uninspectable \subseteq collection'.uninspectable
      /\ collection.globalUnknown \subseteq collection'.globalUnknown
  BY DEF BindTo
<1>2. \A q : Roots(infos[q])' = Roots(infos[q]) /\ Roots(infos[q]) \subseteq Worktrees
  BY DEF Roots, TypeOK
<1>3. \A q : Bound(q) => Bound(q)'
  BY <1>1, <1>2 DEF Bound
<1>4. /\ state = "unknown" => p \in collection'.uninspectable
      /\ \A w \in roots : [pid |-> p, state |-> state] \in collection'.byWorktree[w]
      /\ state = "unknown" /\ roots = {} => collection'.globalUnknown # {}
  BY DEF BindTo
<1>. QED BY <1>3, <1>4

LEMMA BoundStep == TypeOK /\ BoundInv /\ [Next]_vars => BoundInv'
<1>. SUFFICES ASSUME TypeOK, BoundInv, [Next]_vars PROVE BoundInv'
  OBVIOUS
<1>1. CASE pc' \notin {"match", "judge", "done"}
  BY <1>1 DEF BoundInv
<1>2. CASE pc' = "match" /\ (incomplete' \/ todo' = DOMAIN infos')
  BY <1>2 DEF BoundInv
<1>3. CASE UNCHANGED <<pc, incomplete, todo, infos, resolved, collection>>
  BY <1>3 DEF BoundInv, Bound, Roots
<1>4. CASE Resolve
  <2>1. pc' = "list" \/ (pc' = "match" /\ incomplete' = TRUE)
    BY <1>4, Zenon DEF Resolve
  <2>. QED BY <1>1, <1>2, <2>1
<1>5. CASE Enumerate \/ Inspected \/ Resample
  <2>1. pc' \in {"verify", "inspect", "resample", "list"} \/ (pc' = "match" /\ todo' = DOMAIN infos')
    BY <1>5, Zenon DEF Enumerate, Inspected, Resample, Listed
  <2>. QED BY <1>1, <1>2, <2>1
<1>6. ASSUME NEW p \in Pids, Match(p) PROVE BoundInv'
  <2>1. /\ pc = "match" /\ pc' = "match" /\ p \in todo
        /\ UNCHANGED <<infos, resolved>>
    BY <1>6 DEF Match
  <2>2. CASE incomplete' = TRUE
    BY <2>1, <2>2 DEF BoundInv
  <2>3. CASE todo' = todo \ {p} /\ incomplete' = incomplete
             /\ collection' = BindTo(p, IF infos[p].ok THEN "active" ELSE "unknown", Roots(infos[p]))
    <3>. DEFINE state == IF infos[p].ok THEN "active" ELSE "unknown"
    <3>1. Roots(infos[p]) \in SUBSET Worktrees /\ Roots(infos[p])' = Roots(infos[p])
      BY <2>1 DEF Roots, TypeOK
    <3>2. state \in {"active", "unknown"}
      OBVIOUS
    <3>3. /\ \A q : Bound(q) => Bound(q)'
          /\ state = "unknown" => p \in collection'.uninspectable
          /\ \A w \in Roots(infos[p]) : [pid |-> p, state |-> state] \in collection'.byWorktree[w]
          /\ state = "unknown" /\ Roots(infos[p]) = {} => collection'.globalUnknown # {}
      BY <2>1, <2>3, <3>1, <3>2, BindToKeeps
    <3>4. Bound(p)'
      BY <2>1, <3>1, <3>3 DEF Bound, Active, Unknown
    <3>. QED BY <2>1, <2>3, <3>3, <3>4 DEF BoundInv
  <2>4. CASE todo' = todo \ {p} /\ incomplete' = incomplete
             /\ collection' = BindTo(p, "unknown", Everywhere)
    <3>1. "unknown" \in {"active", "unknown"} /\ Everywhere \in SUBSET Worktrees /\ Everywhere = {}
      BY DEF Everywhere
    <3>2. /\ \A q : Bound(q) => Bound(q)'
          /\ p \in collection'.uninspectable
          /\ collection'.globalUnknown # {}
      BY <2>1, <2>4, <3>1, BindToKeeps
    <3>3. Bound(p)'
      BY <3>2 DEF Bound
    <3>. QED BY <2>1, <2>4, <3>2, <3>3 DEF BoundInv
  <2>. QED BY <1>6, <2>2, <2>3, <2>4, Zenon DEF Match
<1>7. CASE Collected
  <2>1. /\ pc = "match" /\ todo = {} /\ UNCHANGED <<infos, resolved, todo>>
        /\ incomplete' = (incomplete \/ "collect" \in ended)
    BY <1>7, Zenon DEF Collected, world
  <2>2. CASE incomplete'
    BY <2>1, <2>2 DEF BoundInv
  <2>3. CASE ~incomplete'
    <3>1. ~incomplete
      BY <2>1, <2>3
    <3>2. /\ collection'.byWorktree = collection.byWorktree
          /\ collection'.uninspectable = collection.uninspectable
          /\ collection'.globalUnknown = collection.globalUnknown
      BY <1>7, <2>3 DEF Collected, TypeOK, Collections
    <3>. QED BY <2>1, <3>1, <3>2 DEF BoundInv, Bound, Roots
  <2>. QED BY <2>2, <2>3
<1>8. CASE Judge
  <2>1. pc = "judge" /\ pc' = "done" /\ UNCHANGED <<incomplete, todo, infos, resolved, collection>>
    BY <1>8 DEF Judge
  <2>. QED BY <2>1 DEF BoundInv, Bound, Roots
<1>9. CASE WorldStep
  BY <1>3, <1>9, WorldKeepsSteady DEF Moves
<1>10. CASE Load \/ Abort \/ Verify \/ \E p \in Pids : Inspect(p)
  <2>1. pc' \in {"collect", "aborted", "inspect"}
    BY <1>10 DEF Load, Abort, Verify, Inspect
  <2>. QED BY <1>1, <2>1
<1>11. CASE ListTimeout \/ CollectTimeout \/ Cancel \/ UNCHANGED vars
  <2>1. UNCHANGED <<pc, incomplete, todo, infos, resolved, collection>>
    BY <1>11 DEF ListTimeout, CollectTimeout, Cancel, End, vars
  <2>. QED BY <1>3, <2>1
<1>. QED BY <1>4, <1>5, <1>6, <1>7, <1>8, <1>9, <1>10, <1>11 DEF Next, WorldStep

--------------------------------------------------------------------------------
(* The verdict.                                                             *)

(* A failure of unknown scope is everybody's warning.                        *)
LEMMA DoubtEverywhere ==
  ASSUME NEW w \in Worktrees, incomplete \/ collection.globalUnknown # {}
  PROVE  Failed /\ Evaluate(facts[w], EvidenceSet(w), Settings) = "Protected"
<1>1. Everywhere \in Problems
  BY DEF Problems
<1>2. Warned(w) /\ Failed
  BY <1>1 DEF Warned, Failed
<1>3. HasUnknownEvidence(EvidenceSet(w))
  BY <1>2 DEF HasUnknownEvidence, EvidenceSet, NoEvidence
<1>. QED BY <1>2, <1>3, UseOrDoubtProtects

(* Evidence bound to a worktree counts there.                               *)
LEMMA BoundEvidenceProtects ==
  ASSUME TypeOK, NEW w \in Worktrees, NEW e \in collection.byWorktree[w]
  PROVE  /\ Evaluate(facts[w], EvidenceSet(w), Settings) = "Protected"
         /\ e.state = "unknown" => Failed
<1>1. e \in Evidence
  BY DEF TypeOK, Collections
<1>2. e \in Grouped(w)
  BY DEF Grouped
<1>3. [state |-> e.state, error |-> e.state = "unknown"] \in EvidenceSet(w).processes
  BY <1>2 DEF EvidenceSet, NoEvidence
<1>4. CASE e.state = "active"
  <2>1. HasActiveProcess(EvidenceSet(w))
    BY <1>3, <1>4 DEF HasActiveProcess
  <2>. QED BY <1>4, <2>1, UseOrDoubtProtects
<1>5. CASE e.state = "unknown"
  <2>1. HasUnknownEvidence(EvidenceSet(w))
    BY <1>3, <1>5 DEF HasUnknownEvidence
  <2>2. {w} \in Problems
    BY <1>5 DEF Problems
  <2>3. Failed
    BY <2>2 DEF Failed
  <2>. QED BY <2>1, <2>3, UseOrDoubtProtects
<1>. QED BY <1>1, <1>4, <1>5 DEF Evidence

(* What Judge finds of a process that had to be found.                       *)
LEMMA SettledIsEvident ==
  ASSUME TypeOK, SeenInv, ListedInv, MarkedInv, BoundInv, pc = "judge",
         NEW p \in Settled, NEW w, w = process[p].at
  PROVE  /\ ~Misleading(p) => Evaluate(facts[w], EvidenceSet(w), Settings) = "Protected"
         /\ ~Failed => Active(p) \in collection.byWorktree[w]
<1>1. w \in Worktrees
  BY DEF Settled
<1>2. CASE incomplete \/ collection.globalUnknown # {}
  BY <1>1, <1>2, DoubtEverywhere
<1>3. CASE ~incomplete /\ collection.globalUnknown = {}
  <2>1. p \in Steady /\ p \in DOMAIN infos
    <3>1. Steady \subseteq DOMAIN infos /\ (Darwin => Live \cap started = {})
      BY <1>3 DEF ListedInv
    <3>. QED BY <3>1 DEF Settled, Steady
  <2>2. Sees(p)
    BY <2>1 DEF SeenInv
  <2>3. Bound(p)
    BY <1>3, <2>1 DEF BoundInv
  <2>4. CASE w \notin resolved
    <3>1. Unknown(NoPid) \in collection.byWorktree[w] /\ Unknown(NoPid).state = "unknown"
      BY <1>1, <1>3, <2>4 DEF MarkedInv, Unknown
    <3>. QED BY <1>1, <3>1, BoundEvidenceProtects
  <2>5. CASE w \in resolved /\ infos[p].ok
    <3>1. w \in Roots(infos[p])
      BY <2>2, <2>5 DEF Roots, Sees
    <3>2. Active(p) \in collection.byWorktree[w]
      BY <1>3, <2>3, <2>5, <3>1 DEF Bound
    <3>. QED BY <1>1, <3>2, BoundEvidenceProtects
  <2>6. CASE w \in resolved /\ ~infos[p].ok
    <3>1. p \in collection.uninspectable
      BY <2>3, <2>6 DEF Bound
    <3>2. Failed
      BY <3>1 DEF Failed, Problems
    <3>3. ASSUME ~Misleading(p) PROVE w \in Roots(infos[p])
      <4>1. Roots(infos[p]) # {}
        BY <1>3, <2>3, <2>6 DEF Bound
      <4>2. CASE infos[p].cwd = w
        BY <2>6, <4>2 DEF Roots
      <4>3. CASE infos[p].cwd = NoDirectory
        <5>1. infos[p].hints \cap resolved # {}
          BY <4>1, <4>3, BuildAssumption DEF Roots, TypeOK
        <5>2. w \in infos[p].hints
          BY <2>1, <3>3, <4>3, <5>1 DEF Misleading
        <5>. QED BY <2>6, <5>2 DEF Roots
      <4>. QED BY <2>2, <4>2, <4>3 DEF Sees
    <3>4. ASSUME ~Misleading(p)
          PROVE  Evaluate(facts[w], EvidenceSet(w), Settings) = "Protected"
      <4>1. Unknown(p) \in collection.byWorktree[w]
        BY <1>3, <2>3, <2>6, <3>3, <3>4 DEF Bound
      <4>. QED BY <1>1, <4>1, BoundEvidenceProtects
    <3>. QED BY <3>2, <3>4
  <2>. QED BY <2>4, <2>5, <2>6
<1>. QED BY <1>2, <1>3

(* Only Judge returns a plan.                                                *)
LEMMA OnlyJudgeEnds == ASSUME TypeOK, Next, ~Judge PROVE pc' # "done"
<1>1. CASE WorldStep
  BY <1>1, WorldKeepsSteady DEF Moves, Listing
<1>2. CASE \E p \in Pids : Inspect(p) \/ Match(p)
  BY <1>2 DEF Inspect, Match
<1>3. CASE ListTimeout \/ CollectTimeout \/ Cancel
  BY <1>3 DEF ListTimeout, CollectTimeout, Cancel, End, Collecting, Listing
<1>4. CASE Load \/ Abort \/ Resolve \/ Verify \/ Collected
  BY <1>4 DEF Load, Abort, Resolve, Verify, Collected
<1>5. CASE Enumerate \/ Inspected \/ Resample
  <2>1. pc' \in {"verify", "inspect", "match", "resample", "list"}
    BY <1>5, Zenon DEF Enumerate, Inspected, Resample, Listed
  <2>. QED BY <2>1
<1>. QED BY <1>1, <1>2, <1>3, <1>4, <1>5 DEF Next, WorldStep

LEMMA VerdictStep ==
  /\ TypeOK /\ SeenInv /\ ListedInv /\ MarkedInv /\ BoundInv
  /\ LiveProcessProtects /\ SilentMeansComplete /\ [Next]_vars
  => LiveProcessProtects' /\ SilentMeansComplete'
<1>. SUFFICES ASSUME TypeOK, SeenInv, ListedInv, MarkedInv, BoundInv,
                     LiveProcessProtects, SilentMeansComplete, [Next]_vars
              PROVE  LiveProcessProtects' /\ SilentMeansComplete'
  OBVIOUS
<1>1. CASE pc' # "done"
  BY <1>1 DEF LiveProcessProtects, SilentMeansComplete
<1>2. CASE UNCHANGED vars
  BY <1>2 DEF vars, world, LiveProcessProtects, SilentMeansComplete, Settled, Live, Misleading
<1>3. CASE Judge
  <2>1. /\ pc = "judge"
        /\ UNCHANGED <<process, moved, started, infos, resolved, collection>>
        /\ plan' = [w \in Worktrees |-> Evaluate(facts[w], EvidenceSet(w), Settings)]
        /\ err' = Failed
    BY <1>3 DEF Judge, world
  <2>2. Settled' = Settled /\ \A p : Misleading(p)' = Misleading(p)
    BY <2>1 DEF Settled, Live, Misleading
  <2>3. ASSUME NEW p \in Settled
        PROVE  /\ ~Misleading(p) => plan'[process[p].at] = "Protected"
               /\ ~Failed => Active(p) \in collection.byWorktree[process[p].at]
    <3>1. process[p].at \in Worktrees
      BY DEF Settled
    <3>2. plan'[process[p].at] =
            Evaluate(facts[process[p].at], EvidenceSet(process[p].at), Settings)
      BY <2>1, <3>1
    <3>. QED BY <2>1, <3>2, SettledIsEvident
  <2>4. LiveProcessProtects'
    BY <2>1, <2>2, <2>3 DEF LiveProcessProtects
  <2>5. SilentMeansComplete'
    BY <2>1, <2>2, <2>3 DEF SilentMeansComplete, Active
  <2>. QED BY <2>4, <2>5
<1>4. CASE Next /\ ~Judge
  BY <1>1, <1>4, OnlyJudgeEnds
<1>. QED BY <1>2, <1>3, <1>4

--------------------------------------------------------------------------------
(* A failure that is known to lie elsewhere.                                 *)

(* A full reading needs no command line.                                     *)
LEMMA ReadableFull ==
  ASSUME NEW p \in Pids, NEW reading \in Readable(p)
  PROVE  reading.ok => reading.hints = {}
<1>. DEFINE full == [cwd |-> process[p].at, hints |-> {}, ok |-> TRUE]
            partial == [cwd : {process[p].at, NoDirectory}, hints : {{}, process[p].hints}, ok : {FALSE}]
<1>1. full.hints = {} /\ \A r \in partial : r.ok = FALSE
  OBVIOUS
<1>2. Blind.ok = FALSE
  BY DEF Blind
<1>3. reading = Blind \/ reading = full \/ reading \in partial
  BY Zenon DEF Readable
<1>. HIDE DEF full, partial
<1>. QED BY <1>1, <1>2, <1>3

LEMMA FullStep == TypeOK /\ FullInv /\ [Next]_vars => FullInv'
<1>. SUFFICES ASSUME TypeOK, FullInv, [Next]_vars PROVE FullInv'
  OBVIOUS
<1>1. CASE UNCHANGED infos
  BY <1>1 DEF FullInv
<1>2. ASSUME NEW p \in Pids, Inspect(p) PROVE FullInv'
  <2>1. PICK reading \in Readable(p) :
          infos' = [q \in DOMAIN infos \cup {p} |-> IF q = p THEN reading ELSE infos[q]]
    BY <1>2 DEF Inspect
  <2>2. reading.ok => reading.hints = {}
    BY ReadableFull
  <2>. QED BY <2>1, <2>2 DEF FullInv
<1>3. CASE Enumerate
  BY <1>1, <1>3 DEF Enumerate, NoInfos, FullInv
<1>4. CASE Inspected
  <2>1. infos' = [p \in DOMAIN infos \cup listed |-> IF p \in DOMAIN infos THEN infos[p] ELSE Blind]
    BY <1>4 DEF Inspected
  <2>. QED BY <2>1 DEF FullInv, Blind
<1>5. CASE WorldStep
  BY <1>1, <1>5, WorldKeepsSteady DEF Moves
<1>6. CASE \/ Load \/ Abort \/ Resolve \/ Verify \/ Resample \/ Collected \/ Judge
           \/ ListTimeout \/ CollectTimeout \/ Cancel \/ UNCHANGED vars
  <2>1. UNCHANGED infos
    BY <1>6 DEF Load, Abort, Resolve, Verify, Resample, Collected, Judge, ListTimeout, CollectTimeout,
                Cancel, End, vars
  <2>. QED BY <1>1, <2>1
<1>7. ASSUME NEW p \in Pids, Match(p) PROVE FullInv'
  BY <1>1, <1>7 DEF Match
<1>. QED BY <1>2, <1>3, <1>4, <1>5, <1>6, <1>7 DEF Next, WorldStep

(* Binding a process to other worktrees leaves this one alone.               *)
LEMMA BindToElsewhere ==
  ASSUME TypeOK, NEW p \in Pids, NEW state \in {"active", "unknown"}, NEW roots \in SUBSET Worktrees,
         NEW w \in Worktrees, Untouched(w), w \notin roots,
         state = "unknown" => roots # {},
         collection' = BindTo(p, state, roots)
  PROVE  Untouched(w)'
<1>1. /\ \A v \in Worktrees : collection.byWorktree[v] \subseteq collection'.byWorktree[v]
      /\ \A v \in roots : [pid |-> p, state |-> state] \in collection'.byWorktree[v]
      /\ collection'.byWorktree[w] = collection.byWorktree[w]
      /\ collection'.globalUnknown = collection.globalUnknown
  BY DEF BindTo
<1>2. \A scope \in collection'.errors : scope \in collection.errors \/ (scope = roots /\ state = "unknown")
  BY DEF BindTo
<1>3. \A q \in collection'.uninspectable : q \in collection.uninspectable \/ (q = p /\ state = "unknown")
  BY DEF BindTo
<1>4. \A scope \in collection'.errors : scope # Everywhere /\ w \notin scope
  BY <1>2 DEF Untouched, Everywhere
<1>5. \A q \in collection'.uninspectable : \E v \in Worktrees : Unknown(q) \in collection'.byWorktree[v]
  <2>. TAKE q \in collection'.uninspectable
  <2>1. CASE q \in collection.uninspectable
    BY <1>1, <2>1 DEF Untouched
  <2>2. CASE q = p /\ state = "unknown"
    BY <1>1, <2>2 DEF Unknown
  <2>. QED BY <1>3, <2>1, <2>2
<1>. QED BY <1>1, <1>4, <1>5 DEF Untouched

LEMMA LocalStep == TypeOK /\ FullInv /\ LocalInv /\ [Next]_vars => LocalInv'
<1>. SUFFICES ASSUME TypeOK, FullInv, LocalInv, [Next]_vars PROVE LocalInv'
  OBVIOUS
<1>1. CASE pc' \notin Listing \cup {"match", "judge", "done"}
  BY <1>1 DEF LocalInv
<1>2. CASE pc \in Listing /\ pc' \in Listing /\ UNCHANGED <<resolved, collection>>
  BY <1>2 DEF LocalInv, Untouched, Listing
<1>3. CASE pc \in Listing /\ pc' = "match" /\ todo' = DOMAIN infos' /\ UNCHANGED <<resolved, collection>>
  BY <1>3 DEF LocalInv, Untouched, Listing
<1>4. CASE UNCHANGED <<pc, incomplete, todo, infos, resolved, unplaced, collection>>
  BY <1>4 DEF LocalInv, Untouched, Elsewhere, Roots
<1>5. CASE Resolve
  <2>1. CASE pc' = "match" /\ incomplete' = TRUE
    BY <2>1 DEF LocalInv, Listing
  <2>2. CASE pc' = "list" /\ collection' = Unresolvable(resolved') /\ resolved' \in SUBSET Worktrees
    <3>1. \A w \in resolved' : Untouched(w)'
      BY <2>2 DEF Untouched, Unresolvable, Everywhere
    <3>. QED BY <2>2, <3>1 DEF LocalInv
  <2>. QED BY <1>5, <2>1, <2>2, Zenon DEF Resolve
<1>6. CASE Enumerate \/ Inspected \/ Resample \/ Verify
  <2>1. pc \in Listing /\ UNCHANGED <<resolved, collection>>
    BY <1>6 DEF Enumerate, Inspected, Resample, Verify, Listing
  <2>2. pc' \in Listing \/ (pc' = "match" /\ todo' = DOMAIN infos') \/ pc' = pc
    BY <1>6, Zenon DEF Enumerate, Inspected, Resample, Verify, Listed, Listing
  <2>. QED BY <1>2, <1>3, <2>1, <2>2
<1>7. ASSUME NEW p \in Pids, Inspect(p) PROVE LocalInv'
  BY <1>2, <1>7 DEF Inspect, Listing
<1>8. ASSUME NEW p \in Pids, Match(p) PROVE LocalInv'
  <2>1. pc = "match" /\ pc' = "match" /\ p \in todo /\ UNCHANGED <<infos, resolved>>
    BY <1>8 DEF Match
  <2>2. CASE incomplete' = TRUE
    BY <2>1, <2>2 DEF LocalInv, Listing
  <2>3. CASE /\ incomplete' = incomplete /\ todo' = todo \ {p}
             /\ \/ /\ collection' = BindTo(p, IF infos[p].ok THEN "active" ELSE "unknown", Roots(infos[p]))
                   /\ unplaced' = unplaced
                \/ unplaced' = unplaced \cup {p}
    <3>. SUFFICES ASSUME ~incomplete', NEW w \in resolved, \A q \in DOMAIN infos \ todo' : Elsewhere(q, w)'
                  PROVE  Untouched(w)'
      BY <2>1, <2>3 DEF LocalInv, Listing
    <3>1. ~incomplete /\ p \in DOMAIN infos
      BY <2>1, <2>3 DEF LocalInv
    <3>2. \A q \in DOMAIN infos \ todo : Elsewhere(q, w)
      BY <2>1, <2>3 DEF Elsewhere, Roots
    <3>3. Untouched(w)
      BY <2>1, <3>1, <3>2 DEF LocalInv
    <3>4. Elsewhere(p, w)'
      BY <2>3, <3>1
    <3>5. collection' = BindTo(p, IF infos[p].ok THEN "active" ELSE "unknown", Roots(infos[p]))
      BY <2>3, <3>4 DEF Elsewhere
    <3>6. w \notin Roots(infos[p]) /\ (~infos[p].ok => Roots(infos[p]) # {})
      BY <2>1, <3>1, <3>4 DEF Elsewhere, Roots, FullInv
    <3>7. Roots(infos[p]) \in SUBSET Worktrees /\ w \in Worktrees
      BY DEF Roots, TypeOK
    <3>. HIDE DEF Roots
    <3>8. CASE infos[p].ok
      BY <3>3, <3>5, <3>6, <3>7, <3>8, BindToElsewhere
    <3>9. CASE ~infos[p].ok
      BY <3>3, <3>5, <3>6, <3>7, <3>9, BindToElsewhere
    <3>. QED BY <3>8, <3>9
  <2>. QED BY <1>8, <2>2, <2>3, Zenon DEF Match
<1>9. CASE Collected
  <2>1. pc = "match" /\ pc' = "judge" /\ UNCHANGED <<infos, resolved, todo, unplaced>>
    BY <1>9 DEF Collected
  <2>2. CASE incomplete'
    BY <2>1, <2>2 DEF LocalInv, Listing
  <2>3. CASE ~incomplete'
    <3>1. ~incomplete
      BY <1>9, <2>3, Zenon DEF Collected
    <3>2. /\ collection'.byWorktree = collection.byWorktree
          /\ collection'.uninspectable = collection.uninspectable
          /\ collection'.globalUnknown = collection.globalUnknown
          /\ collection'.errors = collection.errors
      BY <1>9, <2>3 DEF Collected, TypeOK, Collections
    <3>. QED BY <2>1, <3>1, <3>2 DEF LocalInv, Listing, Untouched, Elsewhere, Roots
  <2>. QED BY <2>2, <2>3
<1>10. CASE Judge
  <2>1. pc = "judge" /\ pc' = "done" /\ UNCHANGED <<incomplete, infos, resolved, todo, unplaced, collection>>
    BY <1>10 DEF Judge
  <2>. QED BY <2>1 DEF LocalInv, Listing, Untouched, Elsewhere, Roots
<1>11. CASE WorldStep
  BY <1>4, <1>11, WorldKeepsSteady DEF Moves
<1>12. CASE Load \/ Abort
  BY <1>1, <1>12 DEF Load, Abort, Listing
<1>13. CASE ListTimeout \/ CollectTimeout \/ Cancel \/ UNCHANGED vars
  BY <1>4, <1>13 DEF ListTimeout, CollectTimeout, Cancel, End, vars
<1>. QED BY <1>5, <1>6, <1>7, <1>8, <1>9, <1>10, <1>11, <1>12, <1>13 DEF Next, WorldStep

(* What Judge says of a worktree that nothing concerns.                      *)
LEMMA UntouchedIsSafe ==
  ASSUME TypeOK, NEW w \in Worktrees, Untouched(w), facts[w] = {},
         ~inventoryFailed, ~incomplete, ~Late
  PROVE  Evaluate(facts[w], EvidenceSet(w), Settings) = "Safe"
<1>1. ~Warned(w)
  <2>1. \A p \in collection.uninspectable : BoundTo(p) # {} /\ w \notin BoundTo(p)
    BY DEF Untouched, BoundTo, Unknown
  <2>2. \A scope \in Problems : scope # Everywhere /\ w \notin scope
    BY <2>1 DEF Problems, Untouched, Everywhere
  <2>. QED BY <2>2 DEF Warned, Unproven
<1>2. Grouped(w) = {}
  <2>. DEFINE represented == {e.pid : e \in collection.globalUnknown \cup UNION Range(collection.byWorktree)}
  <2>1. collection.uninspectable \subseteq represented
    <3>. SUFFICES ASSUME NEW p \in collection.uninspectable PROVE p \in represented
      OBVIOUS
    <3>1. PICK v \in Worktrees : Unknown(p) \in collection.byWorktree[v]
      BY DEF Untouched
    <3>2. collection.byWorktree[v] \in Range(collection.byWorktree)
      BY <3>1 DEF Range, TypeOK, Collections
    <3>3. Unknown(p).pid = p
      BY DEF Unknown
    <3>. QED BY <3>1, <3>2, <3>3
  <2>2. collection.uninspectable \ represented = {}
    BY <2>1
  <2>3. Grouped(w) = collection.byWorktree[w] \cup collection.globalUnknown
                       \cup {[pid |-> p, state |-> "unknown"] : p \in collection.uninspectable \ represented}
                       \cup {}
    BY Zenon DEF Grouped
  <2>. HIDE DEF represented
  <2>. QED BY <2>2, <2>3 DEF Untouched
<1>3. EvidenceSet(w).processes = {} /\ ~EvidenceSet(w).warnings
      /\ EvidenceSet(w).agents = {} /\ EvidenceSet(w).adapters = {}
  BY <1>1, <1>2 DEF EvidenceSet, NoEvidence
<1>. QED BY <1>3, NothingIsSafe DEF Settings

LEMMA LocalVerdict ==
  TypeOK /\ BoundInv /\ LocalInv /\ FailureStaysLocal /\ [Next]_vars => FailureStaysLocal'
<1>. SUFFICES ASSUME TypeOK, BoundInv, LocalInv, FailureStaysLocal, [Next]_vars
              PROVE FailureStaysLocal'
  OBVIOUS
<1>1. CASE UNCHANGED vars
  BY <1>1 DEF vars, FailureStaysLocal, Late, Elsewhere, Roots
<1>2. CASE Judge
  <2>1. /\ pc = "judge"
        /\ UNCHANGED <<ended, facts, inventoryFailed, resolved, infos, incomplete, unplaced>>
        /\ plan' = [w \in Worktrees |-> Evaluate(facts[w], EvidenceSet(w), Settings)]
    BY <1>2 DEF Judge
  <2>. SUFFICES ASSUME ~inventoryFailed, ~incomplete, ~Late, NEW w \in resolved, facts[w] = {},
                       \A p \in DOMAIN infos : Elsewhere(p, w)
                PROVE  plan'[w] = "Safe"
    BY <2>1 DEF FailureStaysLocal, Late, Elsewhere, Roots
  <2>2. w \in Worktrees
    BY DEF TypeOK
  <2>3. Untouched(w)
    BY <2>1 DEF BoundInv, LocalInv
  <2>. QED BY <2>1, <2>2, <2>3, UntouchedIsSafe
<1>3. CASE Next /\ ~Judge
  BY <1>3, OnlyJudgeEnds DEF FailureStaysLocal
<1>. QED BY <1>1, <1>2, <1>3

--------------------------------------------------------------------------------
LEMMA InitInv == Init => IInv
<1>. SUFFICES ASSUME Init PROVE IInv
  OBVIOUS
<1>1. TypeOK
  BY InitType
<1>2. BornInv
  <2>1. moves = 0 /\ DOMAIN before = {} /\ before \in [DOMAIN before -> 0..moves] /\ started = {}
    BY DEF Init, NoTable
  <2>2. \A p \in Live : process[p].born = 0
    BY DEF Init, Live
  <2>. QED BY <2>1, <2>2 DEF BornInv
<1>3. SeenInv
  BY DEF Init, NoInfos, SeenInv
<1>4. /\ ListedInv /\ MarkedInv /\ BoundInv /\ FullInv /\ LocalInv
      /\ LiveProcessProtects /\ SilentMeansComplete /\ FailureStaysLocal
  BY DEF Init, ListedInv, MarkedInv, BoundInv, FullInv, LocalInv, Listing, NoInfos,
         LiveProcessProtects, SilentMeansComplete, FailureStaysLocal
<1>. QED BY <1>1, <1>2, <1>3, <1>4 DEF IInv

(* The inductive invariant of Build.                                        *)
THEOREM Invariance == Spec => []IInv
<1>1. IInv /\ [Next]_vars => IInv'
  BY TypeStep, BornStep, SeenStep, ListedStep, MarkedStep, BoundStep, FullStep, LocalStep,
     VerdictStep, LocalVerdict DEF IInv
<1>. QED BY InitInv, <1>1, PTL DEF Spec

(* Whatever moves, starts, exits or cannot be read while Build looks, and    *)
(* whichever deadline passes, a worktree in which a process has been working *)
(* since before it could be inspected is protected.                         *)
THEOREM NobodyIsOverlooked == Spec => []LiveProcessProtects
<1>1. IInv => LiveProcessProtects
  BY DEF IInv
<1>. QED BY <1>1, Invariance, PTL

(* A plan that Build returns without an error has seen every such process    *)
(* active in the worktree where it works.                                   *)
THEOREM SilenceIsComplete == Spec => []SilentMeansComplete
<1>1. IInv => SilentMeansComplete
  BY DEF IInv
<1>. QED BY <1>1, Invariance, PTL

(* A failure that is known to concern other worktrees takes safety away from  *)
(* no worktree: one with nothing against it, whose every process is known to *)
(* be elsewhere, stays safe, however many others could not be inspected.     *)
THEOREM FailuresAreLocal == Spec => []FailureStaysLocal
<1>1. IInv => FailureStaysLocal
  BY DEF IInv
<1>. QED BY <1>1, Invariance, PTL

(* Every variable keeps its type, the number of attempts included.           *)
THEOREM TypeCorrect == Spec => []TypeOK
<1>1. IInv => TypeOK
  BY DEF IInv
<1>. QED BY <1>1, Invariance, PTL

--------------------------------------------------------------------------------
(* Evaluate alone: evidence that arrives piece by piece.                     *)

(* Evidence e is part of f.                                                 *)
PartOf(e, f) == /\ e.processes \subseteq f.processes
                /\ e.agents \subseteq f.agents
                /\ e.adapters \subseteq f.adapters
                /\ e.warnings => f.warnings

(* A rung that holds keeps holding when evidence is added.                   *)
LEMMA RungsPersist ==
  ASSUME NEW g, NEW s, NEW e, NEW f, PartOf(e, f), NEW i \in 1..18,
         Ladder(g, e, s)[i].holds
  PROVE  Ladder(g, f, s)[i].holds
<1>1. /\ HasActiveProcess(e) => HasActiveProcess(f)
      /\ HasActiveAgent(e) => HasActiveAgent(f)
      /\ HasUnhealthyAdapter(e) => HasUnhealthyAdapter(f)
      /\ HasNonOfflineAdapter(e) => HasNonOfflineAdapter(f)
  BY DEF PartOf, HasActiveProcess, HasActiveAgent, HasUnhealthyAdapter, HasNonOfflineAdapter
<1>2. Relevant(e) \subseteq Relevant(f)
  BY DEF PartOf, Relevant
<1>3. HasUnknownEvidence(e) => HasUnknownEvidence(f)
  BY <1>2 DEF PartOf, HasUnknownEvidence, Conflicting
<1>4. HasInsufficientTrust(e, s.minimum) => HasInsufficientTrust(f, s.minimum)
  BY <1>2 DEF PartOf, HasInsufficientTrust
<1>. QED BY <1>1, <1>3, <1>4, SMTT(60) DEF Ladder, Rung

(* Added evidence never raises the rank of what Evaluate returns.            *)
LEMMA EvaluateMonotone ==
  ASSUME NEW g, NEW s, NEW e, NEW f, PartOf(e, f)
  PROVE  Rank(Evaluate(g, f, s)) \leq Rank(Evaluate(g, e, s))
<1>1. PICK i \in 1..18 : /\ Ladder(g, e, s)[i].holds
                         /\ Evaluate(g, e, s) = Ladder(g, e, s)[i].class
  BY FirstRungDecides
<1>2. PICK j \in 1..18 :
        /\ \A k \in 1..18 : k < j => ~Ladder(g, f, s)[k].holds
        /\ Evaluate(g, f, s) = Ladder(g, f, s)[j].class
  BY FirstRungDecides
<1>3. Ladder(g, f, s)[i].holds
  BY <1>1, RungsPersist
<1>4. j \leq i
  BY <1>2, <1>3
<1>5. /\ Evaluate(g, e, s) =
           IF i \leq 13 THEN "Protected" ELSE IF i \leq 17 THEN "Review" ELSE "Safe"
      /\ Evaluate(g, f, s) =
           IF j \leq 13 THEN "Protected" ELSE IF j \leq 17 THEN "Review" ELSE "Safe"
  BY <1>1, <1>2, RungClasses
<1>6. Rank("Protected") = 0 /\ Rank("Review") = 1 /\ Rank("Safe") = 2
  BY DEF Rank
<1>. QED BY <1>4, <1>5, <1>6

--------------------------------------------------------------------------------
(* What is needed of the evidence, that it has its four parts, and of the    *)
(* settings.                                                                *)
EvidenceType ==
  /\ evidence \in [processes : SUBSET ProcessRecords, agents : SUBSET AgentRecords,
                   adapters : SUBSET AdapterRecords, warnings : BOOLEAN]
  /\ policy \in Policies

LEMMA EvidenceTyped == EvidenceSpec => []EvidenceType
<1>1. EvidenceInit => EvidenceType
  BY DEF EvidenceInit, EvidenceType, NoEvidence
<1>2. EvidenceType /\ [EvidenceNext]_evidenceVars => EvidenceType'
  <2> SUFFICES ASSUME EvidenceType, [EvidenceNext]_evidenceVars PROVE EvidenceType'
    OBVIOUS
  <2>1. CASE SeeProcess
    BY <2>1 DEF EvidenceType, SeeProcess, Arrives
  <2>2. CASE SeeAgent
    BY <2>2 DEF EvidenceType, SeeAgent, Arrives
  <2>3. CASE SeeAdapter
    BY <2>3 DEF EvidenceType, SeeAdapter, Arrives
  <2>4. CASE Warn
    BY <2>4 DEF EvidenceType, Warn, Arrives
  <2>5. CASE UNCHANGED evidenceVars
    BY <2>5 DEF EvidenceType, evidenceVars
  <2>. QED BY <2>1, <2>2, <2>3, <2>4, <2>5 DEF EvidenceNext
<1>. QED BY <1>1, <1>2, PTL DEF EvidenceSpec

(* Every step only adds to the evidence.                                    *)
LEMMA EvidenceGrows ==
  ASSUME EvidenceType, [EvidenceNext]_evidenceVars
  PROVE  PartOf(evidence, evidence') /\ known' = known /\ policy' = policy
<1>1. CASE SeeProcess
  BY <1>1 DEF EvidenceType, SeeProcess, Arrives, PartOf
<1>2. CASE SeeAgent
  BY <1>2 DEF EvidenceType, SeeAgent, Arrives, PartOf
<1>3. CASE SeeAdapter
  BY <1>3 DEF EvidenceType, SeeAdapter, Arrives, PartOf
<1>4. CASE Warn
  BY <1>4 DEF EvidenceType, Warn, Arrives, PartOf
<1>5. CASE UNCHANGED evidenceVars
  BY <1>5 DEF evidenceVars, PartOf
<1>. QED BY <1>1, <1>2, <1>3, <1>4, <1>5 DEF EvidenceNext

(* Another piece of evidence never brings a worktree nearer to removal: what *)
(* Evaluate returns (policy/evaluate.go) only moves towards protected.       *)
THEOREM EvidenceProtects == EvidenceSpec => EvidenceOnlyProtects
<1>1. EvidenceType /\ [EvidenceNext]_evidenceVars => [Rank(Class') \leq Rank(Class)]_evidenceVars
  <2> SUFFICES ASSUME EvidenceType, [EvidenceNext]_evidenceVars PROVE Rank(Class') \leq Rank(Class)
    OBVIOUS
  <2>1. PartOf(evidence, evidence') /\ known' = known /\ policy' = policy
    BY EvidenceGrows
  <2>. QED BY <2>1, EvaluateMonotone DEF Class
<1>. QED BY <1>1, EvidenceTyped, PTL DEF EvidenceSpec, EvidenceOnlyProtects

--------------------------------------------------------------------------------
(* Evaluate's verdict, rung by rung.                                        *)
LEMMA VerdictOfRungs ==
  ASSUME NEW g, NEW e, NEW s
  PROVE  /\ Evaluate(g, e, s) = "Protected" <=> \E i \in 1..13 : Ladder(g, e, s)[i].holds
         /\ Evaluate(g, e, s) = "Safe" <=> \A i \in 1..17 : ~Ladder(g, e, s)[i].holds
         /\ Evaluate(g, e, s) \in Classes
<1>. DEFINE rungs == Ladder(g, e, s)
<1>1. PICK i \in 1..18 : /\ rungs[i].holds /\ \A j \in 1..18 : j < i => ~rungs[j].holds
                         /\ Evaluate(g, e, s) = rungs[i].class
  BY FirstRungDecides
<1>2. Evaluate(g, e, s) = IF i \leq 13 THEN "Protected" ELSE IF i \leq 17 THEN "Review" ELSE "Safe"
  BY <1>1, RungClasses
<1>. HIDE DEF rungs
<1>3. i \leq 13 <=> \E j \in 1..13 : rungs[j].holds
  BY <1>1
<1>4. i = 18 <=> \A j \in 1..17 : ~rungs[j].holds
  BY <1>1
<1>5. Evaluate(g, e, s) = "Protected" <=> i \leq 13
  BY <1>2
<1>6. Evaluate(g, e, s) = "Safe" <=> i = 18
  BY <1>2
<1>7. Evaluate(g, e, s) \in Classes
  BY <1>2 DEF Classes
<1>. QED BY <1>3, <1>4, <1>5, <1>6, <1>7 DEF rungs

(* The rungs, by the reasons the architecture lists.                        *)
LEMMA RungsAreReasons ==
  ASSUME EvidenceType
  PROVE  LET rungs == Ladder(known, evidence, policy)
         IN  /\ (\E i \in 1..13 : rungs[i].holds) <=> Endangered
             /\ (\A i \in 14..17 : ~rungs[i].holds) <=> Proven
<1>. DEFINE rungs == Ladder(known, evidence, policy)
<1>0. /\ \A a \in evidence.agents : a.grade \in Nat /\ a.state \in AgentStates
      /\ \A d \in evidence.adapters : d.grade \in Nat
      /\ policy.minimum \in Nat
      /\ Relevant(evidence) = Sessions
  BY ClassificationAssumption DEF EvidenceType, Relevant, Sessions
<1>1. (\E i \in 1..7 : rungs[i].holds) <=> Untouchable
  <2>1. /\ rungs[1].holds <=> "primary_worktree" \in known
        /\ rungs[2].holds <=> "current_worktree" \in known
        /\ rungs[3].holds <=> "unsafe_path" \in known
        /\ rungs[4].holds <=> "locked" \in known
        /\ rungs[5].holds <=> "prunable_registration" \in known
        /\ rungs[6].holds <=> "unknown_git_state" \in known
        /\ rungs[7].holds <=> "dirty" \in known
    BY DEF Ladder, Rung
  <2>. HIDE DEF rungs
  <2>. QED BY <2>1 DEF Untouchable
<1>2. /\ rungs[8].holds <=> ~policy.valid
      /\ rungs[13].holds <=> "recent" \in known
      /\ rungs[14].holds \/ rungs[15].holds <=> known \cap {"detached", "unrecoverable_commits"} # {}
  BY DEF Ladder, Rung
<1>3. /\ rungs[9].holds = HasActiveProcess(evidence)
      /\ rungs[10].holds = HasActiveAgent(evidence)
      /\ rungs[11].holds = HasUnhealthyAdapter(evidence)
      /\ rungs[12].holds = HasUnknownEvidence(evidence)
      /\ rungs[16].holds = HasNonOfflineAdapter(evidence)
      /\ rungs[17].holds = HasInsufficientTrust(evidence, policy.minimum)
  BY DEF Ladder, Rung
<1>4. HasActiveProcess(evidence) \/ HasActiveAgent(evidence) \/ "recent" \in known <=> InUse
  BY <1>0 DEF HasActiveProcess, HasActiveAgent, InUse, Sessions, AgentStates, QuietStates
<1>5. HasUnhealthyAdapter(evidence) <=> Unhealthy
  BY DEF HasUnhealthyAdapter, Unhealthy, Required
<1>6. HasUnknownEvidence(evidence) <=> ~Understood
  <2>1. Conflicting(evidence) <=>
          ~(\A a, b \in Sessions : a.session # NoSession /\ a.session = b.session
                                     => <<a.state, a.place>> = <<b.state, b.place>>)
    BY <1>0 DEF Conflicting
  <2>. QED BY <1>0, <2>1 DEF HasUnknownEvidence, Understood
<1>7. HasNonOfflineAdapter(evidence) \/ HasInsufficientTrust(evidence, policy.minimum)
        <=> ~(/\ \A d \in Required : d.offline /\ d.trusted /\ d.grade <= policy.minimum
              /\ \A a \in Sessions : a.grade <= policy.minimum)
  <2>1. \A d \in Required : d.grade > policy.minimum <=> ~(d.grade <= policy.minimum)
    BY <1>0 DEF Required
  <2>2. \A a \in Sessions : a.grade > policy.minimum <=> ~(a.grade <= policy.minimum)
    BY <1>0 DEF Sessions
  <2>3. HasNonOfflineAdapter(evidence) <=> \E d \in Required : ~d.offline
    BY DEF HasNonOfflineAdapter, Required
  <2>4. HasInsufficientTrust(evidence, policy.minimum)
          <=> \/ \E d \in Required : ~d.trusted \/ d.grade > policy.minimum
              \/ \E a \in Sessions : a.grade > policy.minimum
    BY <1>0 DEF HasInsufficientTrust, Required
  <2>. QED BY <2>1, <2>2, <2>3, <2>4
<1>. HIDE DEF rungs
<1>8. (\E i \in 1..13 : rungs[i].holds)
        <=> \/ \E i \in 1..7 : rungs[i].holds
            \/ rungs[8].holds \/ rungs[9].holds \/ rungs[10].holds \/ rungs[11].holds
            \/ rungs[12].holds \/ rungs[13].holds
  OBVIOUS
<1>9. (\A i \in 14..17 : ~rungs[i].holds)
        <=> ~rungs[14].holds /\ ~rungs[15].holds /\ ~rungs[16].holds /\ ~rungs[17].holds
  OBVIOUS
<1>10. (\E i \in 1..13 : rungs[i].holds) <=> Endangered
  BY <1>2, <1>1, <1>3, <1>4, <1>5, <1>6, <1>8 DEF Endangered
<1>11. (\A i \in 14..17 : ~rungs[i].holds) <=> Proven
  BY <1>2, <1>3, <1>7, <1>9 DEF Proven
<1>. QED BY <1>10, <1>11 DEF rungs

(* Evaluate's order of tests gives the classes the architecture lists the    *)
(* reasons of, whatever the facts and the evidence: each reason to protect   *)
(* protects, and a worktree is safe exactly when every condition holds.  The *)
(* one exception is an unsigned required adapter, which is only reviewed.    *)
THEOREM ClassesAsDocumented == EvidenceSpec => []DocumentedButUnsigned
<1>1. EvidenceType => DocumentedButUnsigned
  <2> SUFFICES ASSUME EvidenceType PROVE DocumentedButUnsigned
    OBVIOUS
  <2> DEFINE rungs == Ladder(known, evidence, policy)
  <2>1. Class = "Protected" <=> Endangered
    BY VerdictOfRungs, RungsAreReasons DEF Class
  <2>2. (\A i \in 1..17 : ~rungs[i].holds)
          <=> ~(\E i \in 1..13 : rungs[i].holds) /\ \A i \in 14..17 : ~rungs[i].holds
    <3>. HIDE DEF rungs
    <3>1. \A i \in 1..17 : i \in 1..13 \/ i \in 14..17
      OBVIOUS
    <3>. QED BY <3>1
  <2>3. Class = "Safe" <=> ~Endangered /\ Proven
    BY <2>2, VerdictOfRungs, RungsAreReasons DEF Class
  <2>4. Class \in {"Protected", "Review", "Safe"}
    BY VerdictOfRungs DEF Class, Classes
  <2>5. Proven => ~Unsigned
    BY DEF Proven, Unsigned
  <2>. QED BY <2>1, <2>3, <2>4, <2>5 DEF DocumentedButUnsigned
<1>. QED BY <1>1, EvidenceTyped, PTL
================================================================================

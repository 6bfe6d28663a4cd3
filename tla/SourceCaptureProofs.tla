-------------------------- MODULE SourceCaptureProofs --------------------------
(***************************************************************************)
(* SourceCapture for any values, byte sizes, budget and number of changes,  *)
(* whichever cells are shared: its types, what a failure returns, what the  *)
(* comparisons guarantee when values recur, and that an accepted capture is *)
(* the worktree at one instant when they do not.                            *)
(***************************************************************************)
EXTENDS SourceCapture, TLAPS

USE CaptureAssumption

(* Which reads have been made: those of the completed collections and, in   *)
(* the one that runs, those before pos.                                     *)
Made(k, r) == k <= round \/ (k = round + 1 /\ phase = "collect" /\ r < pos)

ProgressInv ==
  ~err => /\ \A k \in 1..2, r \in Reads : seen[k][r] # NotRead <=> Made(k, r)
          /\ phase \in {"start", "bind"} => round = 0
          /\ phase = "collect" => round < 2
          /\ phase \in {"compare", "close", "done"} => round = 2

StepInv == /\ err => phase \in {"close", "done"}
           /\ phase \in {"start", "bind", "check"} => pos \in 1..4
           /\ phase = "start" => pos = 1
           /\ phase = "collect" => pos \in Reads

(* The comparisons that completed parts have passed.                        *)
AgreeInv ==
  \A k \in 1..2 :
    /\ seen[k][List] # NotRead => seen[k][List] = 0
    /\ seen[k][InspectHead] # NotRead =>
         /\ seen[k][IndexHash] = 0 /\ seen[k][AdminHash] = 0 /\ seen[k][InspectHead] = 0
         /\ \A s \in {InspectIndex, InspectTracked, InspectLeaves} :
              Shape[seen[k][s]] = Shape[0]
    /\ seen[k][StatusLeaves] # NotRead =>
         /\ Shape[seen[k][StatusIndex]] = Shape[seen[k][InspectIndex]]
         /\ Shape[seen[k][StatusTracked]] = Shape[seen[k][InspectTracked]]
         /\ Shape[seen[k][StatusLeaves]] = Shape[seen[k][InspectLeaves]]
    /\ seen[k][AdminIndex] # NotRead => seen[k][AdminIndex] = seen[k][IndexHash]

(* What will be returned.                                                   *)
OutInv == /\ phase \in {"close", "done"} /\ ~err => out = seen[1] /\ MaySeemEqual
          /\ NothingOnFailure

IInv == TypeOK /\ ProgressInv /\ StepInv /\ AgreeInv /\ OutInv

LEMMA NumberedReads ==
  /\ List = 1 /\ IndexHash = 2 /\ AdminHash = 3 /\ InspectIndex = 4 /\ InspectTracked = 5
  /\ InspectLeaves = 6 /\ InspectHead = 7 /\ StatusIndex = 8 /\ StatusTracked = 9
  /\ StatusLeaves = 10 /\ StagedHead = 11 /\ StagedIndex = 12 /\ UnstagedIndex = 13
  /\ UnstagedTracked = 14 /\ AdminFiles = 15 /\ AdminIndex = 16 /\ Untracked = 17
  /\ Reads = 1..17
  /\ \A r \in Reads : CellOf[r] \in Cells
  /\ \A i \in 1..4 : Roots[i] \in Cells
  /\ CellOf \in [Reads -> Cells]
BY DEF List, IndexHash, AdminHash, InspectIndex, InspectTracked, InspectLeaves, InspectHead,
       StatusIndex, StatusTracked, StatusLeaves, StagedHead, StagedIndex, UnstagedIndex,
       UnstagedTracked, AdminFiles, AdminIndex, Untracked, Reads, CellOf, Cells, Roots

(* What a successful read of a collection does, read by read.               *)
LEMMA ReadEffect ==
  ASSUME IInv, Collect, ~err'
  PROVE  LET k == round + 1
             v == cell[CellOf[pos]]
         IN /\ ~err /\ ~err' /\ k \in 1..2 /\ pos \in Reads /\ v \in Values
            /\ seen'[k] = [seen[k] EXCEPT ![pos] = v]
            /\ seen' \in [1..2 -> Observations]
            /\ \A l \in 1..2 \ {k} : seen'[l] = seen[l]
            /\ \A r \in Reads : seen'[k][r] = IF r = pos THEN v ELSE seen[k][r]
            /\ Agrees(pos, seen'[k])
<1>1. phase = "collect" /\ pos \in Reads /\ ~err /\ round < 2 /\ round \in 0..2
  BY DEF IInv, StepInv, ProgressInv, TypeOK, Collect
<1>2. cell[CellOf[pos]] \in Values
  BY <1>1, NumberedReads DEF IInv, TypeOK
<1>3. /\ seen' = [seen EXCEPT ![round + 1] = [seen[round + 1] EXCEPT ![pos] = cell[CellOf[pos]]]]
      /\ Agrees(pos, [seen[round + 1] EXCEPT ![pos] = cell[CellOf[pos]]])
  BY <1>1 DEF Collect, Reject
<1>4. round + 1 \in 1..2
  BY <1>1
<1>5. seen \in [1..2 -> [Reads -> Values \cup {NotRead}]]
  BY DEF IInv, TypeOK, Observations
<1>6. seen'[round + 1] = [seen[round + 1] EXCEPT ![pos] = cell[CellOf[pos]]]
  BY <1>3, <1>4, <1>5
<1>7. seen' \in [1..2 -> [Reads -> Values \cup {NotRead}]]
  BY <1>1, <1>2, <1>3, <1>4, <1>5
<1>8. \A l \in 1..2 \ {round + 1} : seen'[l] = seen[l]
  BY <1>3, <1>4, <1>5
<1>9. \A r \in Reads : seen'[round + 1][r]
                       = IF r = pos THEN cell[CellOf[pos]] ELSE seen[round + 1][r]
  BY <1>1, <1>4, <1>5, <1>6
<1> QED
  BY <1>1, <1>2, <1>3, <1>4, <1>6, <1>7, <1>8, <1>9 DEF Observations

(* Types and the order of steps.                                            *)
LEMMA StepsInOrder ==
  ASSUME IInv, [Next]_vars
  PROVE  TypeOK' /\ StepInv'
<1> USE DEF IInv, TypeOK, StepInv, Phases
<1>1. CASE Start
  BY <1>1 DEF Start, Reject, world
<1>2. CASE Bind
  <2>1. pos \in 1..4 /\ ~err
    BY <1>2 DEF Bind
  <2>2. bound' \in [1..4 -> Values \cup {NotRead}] /\ handles' \subseteq 1..4
    <3>1. /\ bound' = bound \/ bound' = [bound EXCEPT ![pos] = cell[Roots[pos]]]
          /\ handles' = handles \/ handles' = handles \cup {pos}
      BY <1>2, Zenon DEF Bind, Reject
    <3>2. cell[Roots[pos]] \in Values
      BY <2>1, NumberedReads
    <3>3. QED
      BY <2>1, <3>1, <3>2
  <2>3. /\ UNCHANGED <<world, round, seen, remaining, mid, out>>
        /\ \/ err' = TRUE /\ phase' = "close" /\ pos' = pos
           \/ err' = err /\ phase' = "check" /\ pos' = 1
           \/ err' = err /\ phase' = "bind" /\ pos # 4 /\ pos' = pos + 1
    BY <1>2 DEF Bind, Reject
  <2>4. TypeOK'
    <3>1. err' \in BOOLEAN
      BY <2>3, Zenon
    <3>2. phase' \in Phases /\ pos' \in 1..18
      BY <2>1, <2>3
    <3>3. UNCHANGED <<cell, changes, cancelled, returned, round, seen, remaining, mid, out>>
      BY <2>3 DEF world
    <3>4. QED
      BY <2>2, <3>1, <3>2, <3>3
  <2>5. StepInv'
    BY <2>1, <2>3
  <2>6. QED
    BY <2>4, <2>5
<1>3. CASE CheckRoot
  <2>1. pos \in 1..4 /\ ~err
    BY <1>3 DEF CheckRoot
  <2>2. /\ UNCHANGED <<world, round, bound, handles, seen, mid, out>>
        /\ remaining' \in {remaining, MaximumBytes}
        /\ \/ err' = TRUE /\ phase' = "close" /\ pos' = pos
           \/ err' = err /\ phase' \in {"collect", "compare"} /\ pos' = 1
           \/ err' = err /\ phase' = "check" /\ pos # 4 /\ pos' = pos + 1
    BY <1>3 DEF CheckRoot, Reject
  <2>3. TypeOK'
    <3>1. err' \in BOOLEAN
      BY <2>2, Zenon
    <3>2. phase' \in Phases /\ pos' \in 1..18 /\ remaining' \in 0..MaximumBytes
      BY <2>1, <2>2
    <3>3. UNCHANGED <<cell, changes, cancelled, returned, round, bound, handles, seen, mid, out>>
      BY <2>2 DEF world
    <3>4. QED
      BY <3>1, <3>2, <3>3
  <2>4. StepInv'
    BY <2>1, <2>2, NumberedReads
  <2>5. QED
    BY <2>3, <2>4
<1>4. CASE Collect
  <2>1. CASE err'
    BY <1>4, <2>1 DEF Collect, Reject, world
  <2>2. CASE ~err'
    <3>1. cell[CellOf[pos]] \in Values /\ seen' \in [1..2 -> Observations]
      BY <1>4, <2>2, ReadEffect
    <3>2. Take(pos, cell[CellOf[pos]])
      BY <1>4, <2>2 DEF Collect, Reject
    <3>3. remaining' \in 0..MaximumBytes
      <4>1. Bytes[cell[CellOf[pos]]] \in Nat
        BY <3>1
      <4>2. \/ remaining' = remaining
            \/ /\ Bytes[cell[CellOf[pos]]] <= remaining
               /\ remaining' = remaining - Bytes[cell[CellOf[pos]]]
        BY <3>2 DEF Take
      <4>3. QED
        BY <4>1, <4>2
    <3>4. ~err /\ pos \in 1..17 /\ Untracked = 17 /\ round + 1 \in 1..2
      BY <1>4, <2>2, ReadEffect, NumberedReads
    <3>5. /\ UNCHANGED <<world, bound, handles, err, out>>
          /\ \/ phase' = "check" /\ pos' = 1 /\ round' = round + 1 /\ mid' \in {cell, mid}
             \/ pos # Untracked /\ pos' = pos + 1 /\ UNCHANGED <<phase, round, mid>>
      BY <1>4, <2>2 DEF Collect, Reject
    <3>6. Reads = 1..17
      BY NumberedReads
    <3>7. StepInv'
      <4>1. phase = "collect"
        BY <1>4 DEF Collect
      <4>2. pos # Untracked => pos' \in Reads
        BY <3>4, <3>5, <3>6
      <4>3. QED
        BY <2>2, <3>5, <4>1, <4>2
    <3>8. TypeOK'
      <4>1. err' \in BOOLEAN /\ phase' \in Phases
        BY <3>5, Zenon
      <4>2. pos' \in 1..18 /\ round' \in 0..2
        BY <3>4, <3>5
      <4>3. mid' \in [Cells -> Values]
        BY <3>5
      <4>4. UNCHANGED <<cell, changes, cancelled, returned, bound, handles, out>>
        BY <3>5 DEF world
      <4>5. QED
        BY <3>1, <3>3, <4>1, <4>2, <4>3, <4>4
    <3>9. QED
      BY <3>7, <3>8
  <2>3. QED
    BY <2>1, <2>2
<1>5. CASE Compare
  <2>1. seen[1] \in Observations
    OBVIOUS
  <2>2. err' \in BOOLEAN /\ out' \in Observations \cup {Empty}
    BY <1>5, <2>1, Zenon DEF Compare
  <2>3. QED
    BY <1>5, <2>2 DEF Compare, world
<1>6. CASE Close
  BY <1>6 DEF Close, world
<1>7. CASE Finish
  BY <1>7 DEF Finish, world
<1>8. ASSUME NEW c \in Shared, Change(c) PROVE TypeOK' /\ StepInv'
  BY <1>8 DEF Change, captureVars
<1>9. CASE Cancel
  BY <1>9 DEF Cancel, captureVars
<1>10. CASE UNCHANGED vars
  BY <1>10 DEF vars
<1>11. QED
  BY <1>1, <1>2, <1>3, <1>4, <1>5, <1>6, <1>7, <1>8, <1>9, <1>10 DEF Next

(* Made changes with the phase, round and position only.                    *)
LEMMA ProgressMade ==
  ASSUME IInv, [Next]_vars
  PROVE  ProgressInv'
<1> SUFFICES ASSUME ~err' PROVE ProgressInv'
  BY DEF ProgressInv
<1>1. CASE Collect
  <2>1. /\ ~err /\ pos \in 1..17 /\ Untracked = 17 /\ round + 1 \in 1..2 /\ Reads = 1..17
        /\ phase = "collect" /\ round \in 0..2
        /\ \A r \in Reads : seen'[round + 1][r]
                           = IF r = pos THEN cell[CellOf[pos]] ELSE seen[round + 1][r]
        /\ \A l \in 1..2 \ {round + 1} : seen'[l] = seen[l]
        /\ cell[CellOf[pos]] # NotRead
    BY <1>1, ReadEffect, NumberedReads DEF Collect, IInv, TypeOK
  <2>2. \A k \in 1..2, r \in Reads :
          seen[k][r] # NotRead <=> k <= round \/ (k = round + 1 /\ r < pos)
    BY <2>1 DEF IInv, ProgressInv, Made
  <2>3. \/ pos = 17 /\ phase' = "check" /\ pos' = 1 /\ round' = round + 1
        \/ pos # 17 /\ pos' = pos + 1 /\ phase' = "collect" /\ round' = round
    BY <1>1, <2>1 DEF Collect, Reject
  <2>4. \A k \in 1..2, r \in Reads :
          seen'[k][r] # NotRead <=> k <= round \/ (k = round + 1 /\ r <= pos)
    BY <2>1, <2>2
  <2>5. \A k \in 1..2, r \in Reads : seen'[k][r] # NotRead <=> Made(k, r)'
    <3>1. ASSUME NEW k \in 1..2, NEW r \in 1..17
          PROVE  Made(k, r)' <=> k <= round \/ (k = round + 1 /\ r <= pos)
      <4>1. CASE pos = 17
        BY <2>1, <2>3, <4>1 DEF Made
      <4>2. CASE pos # 17
        BY <2>1, <2>3, <4>2 DEF Made
      <4>3. QED
        BY <4>1, <4>2
    <3>2. QED
      BY <2>1, <2>4, <3>1
  <2>6. /\ phase' \notin {"start", "bind", "compare", "close", "done"}
        /\ phase' = "collect" => round' < 2
    BY <2>1, <2>3
  <2>7. QED
    BY <2>5, <2>6 DEF ProgressInv
<1>2. CASE CheckRoot
  <2>1. /\ ~err /\ UNCHANGED <<seen, round>> /\ phase = "check" /\ pos \in 1..4
        /\ round \in 0..2
        /\ \/ phase' = "check"
           \/ phase' = "collect" /\ round # 2 /\ pos' = 1
           \/ phase' = "compare" /\ round = 2
    BY <1>2 DEF CheckRoot, Reject, IInv, TypeOK, StepInv
  <2>2. \A k \in 1..2, r \in Reads : seen[k][r] # NotRead <=> k <= round
    BY <2>1 DEF IInv, ProgressInv, Made
  <2>3. \A k \in 1..2, r \in Reads : Made(k, r)' <=> k <= round
    BY <2>1, NumberedReads DEF Made
  <2>4. QED
    BY <2>1, <2>2, <2>3 DEF ProgressInv
<1>3. ASSUME Start \/ Bind \/ Compare \/ Close \/ Finish PROVE ProgressInv'
  <2>0. ~err
    BY <1>3, Zenon DEF Start, Bind, Compare, Close, Finish, Reject
  <2>1. UNCHANGED <<seen, round>> /\ phase # "collect" /\ phase' # "collect" /\ ~err
    BY <1>3, <2>0 DEF Start, Bind, Compare, Close, Finish, Reject
  <2>2. \A k \in 1..2, r \in Reads : Made(k, r)' <=> Made(k, r)
    BY <2>1 DEF Made
  <2>3. /\ phase' \in {"start", "bind"} => round = 0
        /\ phase' \in {"compare", "close", "done"} => round = 2
    BY <1>3, <2>1 DEF Start, Bind, Compare, Close, Finish, Reject, IInv, ProgressInv
  <2>4. QED
    BY <2>1, <2>2, <2>3 DEF ProgressInv, IInv
<1>4. ASSUME UNCHANGED captureVars PROVE ProgressInv'
  BY <1>4 DEF captureVars, ProgressInv, Made, IInv
<1>5. QED
  BY <1>1, <1>2, <1>3, <1>4 DEF Next, Change, Cancel, vars, captureVars

(* A completed comparison is never undone: later reads are of other parts.  *)
LEMMA AgreementKept ==
  ASSUME IInv, [Next]_vars
  PROVE  AgreeInv'
<1>1. ASSUME Collect, ~err' PROVE AgreeInv'
  <2> DEFINE k == round + 1
             old == seen[k]
             new == seen'[k]
  <2>1. /\ k \in 1..2 /\ pos \in 1..17
        /\ \A r \in 1..17 : r # pos => new[r] = old[r]
        /\ \A l \in 1..2 \ {k} : seen'[l] = seen[l]
        /\ Agrees(pos, new)
    BY <1>1, ReadEffect, NumberedReads
  <2>2. \A r \in 1..17 : old[r] # NotRead <=> r < pos
    <3>1. ~err /\ phase = "collect" /\ round \in 0..2
      BY <1>1, ReadEffect DEF Collect, IInv, TypeOK
    <3>2. QED
      BY <2>1, <3>1, NumberedReads DEF IInv, ProgressInv, Made
  <2> HIDE DEF k, old, new
  <2>3. new[List] # NotRead => new[List] = 0
    BY <2>1, <2>2, NumberedReads DEF Agrees, AgreeInv, IInv, k, old
  <2>4. new[InspectHead] # NotRead =>
          /\ new[IndexHash] = 0 /\ new[AdminHash] = 0 /\ new[InspectHead] = 0
          /\ \A s \in {InspectIndex, InspectTracked, InspectLeaves} :
               Shape[new[s]] = Shape[0]
    <3>1. CASE pos = InspectHead
      BY <2>1, <3>1 DEF Agrees
    <3>2. CASE pos # InspectHead
      <4>1. new[InspectHead] = old[InspectHead]
        BY <2>1, <3>2, NumberedReads
      <4>2. SUFFICES ASSUME old[InspectHead] # NotRead
            PROVE  \A r \in 1..7 : new[r] = old[r]
        BY <2>1, <4>1, NumberedReads DEF AgreeInv, IInv, old
      <4>3. QED
        BY <2>1, <2>2, <4>2, NumberedReads
    <3>3. QED
      BY <3>1, <3>2
  <2>5. new[StatusLeaves] # NotRead =>
          /\ Shape[new[StatusIndex]] = Shape[new[InspectIndex]]
          /\ Shape[new[StatusTracked]] = Shape[new[InspectTracked]]
          /\ Shape[new[StatusLeaves]] = Shape[new[InspectLeaves]]
    <3>1. CASE pos = StatusLeaves
      BY <2>1, <3>1 DEF Agrees
    <3>2. CASE pos # StatusLeaves
      <4>1. new[StatusLeaves] = old[StatusLeaves]
        BY <2>1, <3>2, NumberedReads
      <4>2. SUFFICES ASSUME old[StatusLeaves] # NotRead
            PROVE  \A r \in 1..10 : new[r] = old[r]
        BY <2>1, <4>1, NumberedReads DEF AgreeInv, IInv, old
      <4>3. QED
        BY <2>1, <2>2, <4>2, NumberedReads
    <3>3. QED
      BY <3>1, <3>2
  <2>6. new[AdminIndex] # NotRead => new[AdminIndex] = new[IndexHash]
    <3>1. CASE pos = AdminIndex
      BY <2>1, <3>1 DEF Agrees
    <3>2. CASE pos # AdminIndex
      <4>1. new[AdminIndex] = old[AdminIndex]
        BY <2>1, <3>2, NumberedReads
      <4>2. SUFFICES ASSUME old[AdminIndex] # NotRead PROVE new[IndexHash] = old[IndexHash]
        BY <2>1, <4>1 DEF AgreeInv, IInv, old
      <4>3. QED
        BY <2>1, <2>2, <4>2, NumberedReads
    <3>3. QED
      BY <3>1, <3>2
  <2>7. ASSUME NEW l \in 1..2
        PROVE  /\ seen'[l][List] # NotRead => seen'[l][List] = 0
               /\ seen'[l][InspectHead] # NotRead =>
                    /\ seen'[l][IndexHash] = 0 /\ seen'[l][AdminHash] = 0
                    /\ seen'[l][InspectHead] = 0
                    /\ \A s \in {InspectIndex, InspectTracked, InspectLeaves} :
                         Shape[seen'[l][s]] = Shape[0]
               /\ seen'[l][StatusLeaves] # NotRead =>
                    /\ Shape[seen'[l][StatusIndex]] = Shape[seen'[l][InspectIndex]]
                    /\ Shape[seen'[l][StatusTracked]] = Shape[seen'[l][InspectTracked]]
                    /\ Shape[seen'[l][StatusLeaves]] = Shape[seen'[l][InspectLeaves]]
               /\ seen'[l][AdminIndex] # NotRead => seen'[l][AdminIndex] = seen'[l][IndexHash]
    <3>1. CASE l = k
      BY <2>3, <2>4, <2>5, <2>6, <3>1 DEF new
    <3>2. CASE l # k
      <4>1. seen'[l] = seen[l]
        BY <2>1, <3>2
      <4>2. QED
        BY <4>1 DEF IInv, AgreeInv
    <3>3. QED
      BY <3>1, <3>2
  <2>8. QED
    BY <2>7 DEF AgreeInv, List, IndexHash, AdminHash, InspectIndex, InspectTracked,
                InspectLeaves, InspectHead, StatusIndex, StatusTracked, StatusLeaves, AdminIndex
<1>2. ASSUME UNCHANGED seen PROVE AgreeInv'
  BY <1>2 DEF IInv, AgreeInv, List, IndexHash, AdminHash, InspectIndex, InspectTracked,
              InspectLeaves, InspectHead, StatusIndex, StatusTracked, StatusLeaves, AdminIndex
<1>3. UNCHANGED seen \/ (Collect /\ ~err')
  <2>1. CASE Collect
    BY <2>1 DEF Collect, Reject, IInv, StepInv
  <2>2. CASE ~Collect
    BY <2>2 DEF Next, Start, Bind, CheckRoot, Compare, Close, Finish, Change, Cancel, Reject,
                captureVars, vars
  <2>3. QED
    BY <2>1, <2>2
<1>4. QED
  BY <1>1, <1>2, <1>3

(* What is returned is the first collection, or nothing.                    *)
LEMMA ReturnedKept ==
  ASSUME IInv, [Next]_vars
  PROVE  OutInv'
<1>1. ASSUME Start \/ Bind \/ CheckRoot \/ Collect PROVE OutInv'
  <2>1. phase' # "done"
    BY <1>1 DEF Start, Bind, CheckRoot, Collect, Reject
  <2>2. phase' = "close" => err'
    BY <1>1 DEF Start, Bind, CheckRoot, Collect, Reject
  <2>3. QED
    BY <2>1, <2>2 DEF OutInv, NothingOnFailure
<1>2. CASE Compare
  <2>1. phase' = "close" /\ UNCHANGED seen
    BY <1>2 DEF Compare
  <2>2. ~err' => out' = seen[1] /\ MaySeemEqual
    BY <1>2, Zenon DEF Compare
  <2>3. MaySeemEqual' <=> MaySeemEqual
    BY <2>1 DEF MaySeemEqual, SamePatch, View, List, StatusTracked, StatusLeaves, AdminFiles,
                AdminIndex, Untracked, StagedHead, StagedIndex, UnstagedIndex, UnstagedTracked
  <2>4. QED
    BY <2>1, <2>2, <2>3 DEF OutInv, NothingOnFailure
<1>3. CASE Close
  <2>1. phase = "close" /\ UNCHANGED <<phase, seen, out>>
    BY <1>3 DEF Close
  <2>2. ~err' => ~err
    BY <1>3, Zenon DEF Close
  <2>3. MaySeemEqual' <=> MaySeemEqual
    BY <2>1 DEF MaySeemEqual, SamePatch, View, List, StatusTracked, StatusLeaves, AdminFiles,
                AdminIndex, Untracked, StagedHead, StagedIndex, UnstagedIndex, UnstagedTracked
  <2>4. QED
    BY <2>1, <2>2, <2>3 DEF IInv, OutInv, NothingOnFailure
<1>4. CASE Finish
  <2>1. phase = "close" /\ phase' = "done" /\ UNCHANGED <<seen, cancelled>>
    BY <1>4 DEF Finish, world
  <2>2. /\ ~err' => ~err /\ ~cancelled /\ out' = out
        /\ err' => out' = Empty
    BY <1>4, Zenon DEF Finish
  <2>3. MaySeemEqual' <=> MaySeemEqual
    BY <2>1 DEF MaySeemEqual, SamePatch, View, List, StatusTracked, StatusLeaves, AdminFiles,
                AdminIndex, Untracked, StagedHead, StagedIndex, UnstagedIndex, UnstagedTracked
  <2>4. QED
    BY <2>1, <2>2, <2>3 DEF IInv, OutInv, NothingOnFailure
<1>5. ASSUME UNCHANGED captureVars, phase = "done" => UNCHANGED cancelled PROVE OutInv'
  <2>1. UNCHANGED <<phase, seen, err, out>>
    BY <1>5 DEF captureVars
  <2>2. MaySeemEqual' <=> MaySeemEqual
    BY <2>1 DEF MaySeemEqual, SamePatch, View, List, StatusTracked, StatusLeaves, AdminFiles,
                AdminIndex, Untracked, StagedHead, StagedIndex, UnstagedIndex, UnstagedTracked
  <2>3. QED
    BY <1>5, <2>1, <2>2 DEF IInv, OutInv, NothingOnFailure
<1>6. QED
  BY <1>1, <1>2, <1>3, <1>4, <1>5 DEF Next, Change, Cancel, vars, captureVars

LEMMA InitEstablishesInv == Init => IInv
<1> SUFFICES ASSUME Init PROVE IInv
  OBVIOUS
<1> USE DEF Init
<1>1. TypeOK
  <2>1. /\ cell \in [Cells -> Values] /\ mid \in [Cells -> Values]
        /\ bound \in [1..4 -> Values \cup {NotRead}]
        /\ seen \in [1..2 -> Observations]
    BY DEF Observations
  <2>2. /\ cancelled \in BOOLEAN /\ returned \in BOOLEAN /\ err \in BOOLEAN
        /\ phase \in Phases /\ handles \subseteq 1..4
    BY DEF Phases
  <2>3. changes \in 0..MaxChanges /\ round \in 0..2 /\ pos \in 1..18 /\ remaining \in 0..MaximumBytes
    OBVIOUS
  <2>4. QED
    BY <2>1, <2>2, <2>3 DEF TypeOK
<1>2. \A k \in 1..2, r \in Reads : seen[k][r] = NotRead
  OBVIOUS
<1>3. ProgressInv
  BY <1>2 DEF ProgressInv, Made
<1>4. AgreeInv
  BY <1>2, NumberedReads DEF AgreeInv
<1>5. QED
  BY <1>1, <1>3, <1>4 DEF IInv, StepInv, OutInv, NothingOnFailure

(* The shape of a capture: its variables keep their types, reads are made   *)
(* in order, completed comparisons hold.                                    *)
THEOREM Invariance == Spec => []IInv
<1>1. ASSUME IInv, [Next]_vars PROVE IInv'
  BY <1>1, StepsInOrder, ProgressMade, AgreementKept, ReturnedKept DEF IInv
<1>2. QED
  BY <1>1, InitEstablishesInv, PTL DEF Spec

(* A call that reports an error returns nothing, and one that does not was  *)
(* never cancelled, whenever the error or the cancellation came.            *)
THEOREM FailureReturnsNothing == Spec => []NothingOnFailure
<1>1. IInv => NothingOnFailure
  BY DEF IInv, OutInv
<1>2. QED
  BY <1>1, Invariance, PTL

(* Whatever else changed and changed back, an accepted capture holds the    *)
(* expected registration and index and a status with the expected counts.   *)
THEOREM PartsAreExpected == Spec => []ExpectedParts
<1>1. ASSUME IInv PROVE ExpectedParts
  <2>1. SUFFICES ASSUME Accepted
        PROVE  /\ out[List] = 0 /\ out[AdminIndex] = 0
               /\ \A r \in {StatusIndex, StatusTracked, StatusLeaves} :
                    Shape[out[r]] = Shape[0]
    BY DEF ExpectedParts
  <2>2. out = seen[1] /\ ~err /\ round = 2
    BY <1>1, <2>1 DEF Accepted, IInv, OutInv, ProgressInv
  <2>3. \A r \in 1..17 : seen[1][r] # NotRead
    BY <1>1, <2>2, NumberedReads DEF IInv, ProgressInv, Made
  <2>4. seen[1][List] # NotRead /\ seen[1][InspectHead] # NotRead
        /\ seen[1][StatusLeaves] # NotRead /\ seen[1][AdminIndex] # NotRead
    BY <2>3, NumberedReads
  <2>5. QED
    BY <1>1, <2>2, <2>4 DEF IInv, AgreeInv
<1>2. QED
  BY <1>1, Invariance, PTL

--------------------------------------------------------------------------------
(* Until a cell returns to an earlier value the order of values is the      *)
(* order of time.  What was observed is no later than what is there.        *)
SeenInv ==
  \A k \in 1..2, r \in Reads : seen[k][r] # NotRead =>
    /\ seen[k][r] <= cell[CellOf[r]]
    /\ \A q \in Reads : q < r /\ CellOf[q] = CellOf[r] /\ seen[k][q] # NotRead =>
         seen[k][q] <= seen[k][r]

(* The moment the first collection ended lies between the two.              *)
MidInv ==
  round >= 1 => /\ \A c \in Cells : mid[c] <= cell[c]
                /\ \A r \in Reads :
                     /\ seen[1][r] # NotRead => seen[1][r] <= mid[CellOf[r]]
                     /\ seen[2][r] # NotRead => mid[CellOf[r]] <= seen[2][r]

(* The roots were bound before it and are checked after it.                 *)
BoundInv ==
  \A i \in 1..4 :
    /\ bound[i] # NotRead => /\ bound[i] <= cell[Roots[i]]
                             /\ round >= 1 => bound[i] <= mid[Roots[i]]
    /\ ~err /\ round = 2 /\ (phase = "check" => i < pos) => bound[i] = mid[Roots[i]]

TimeInv == SeenInv /\ MidInv /\ BoundInv

(* What was read is a value, and a value is a number.                       *)
LEMMA ReadsAreValues ==
  ASSUME IInv, NEW k \in 1..2, NEW r \in Reads, seen[k][r] # NotRead
  PROVE  seen[k][r] \in Values /\ seen[k][r] \in Nat
<1>1. seen \in [1..2 -> [Reads -> Values \cup {NotRead}]]
  BY DEF IInv, TypeOK, Observations
<1>2. seen[k][r] \in Values \cup {NotRead}
  BY <1>1
<1>3. seen[k][r] \in Values
  BY <1>2
<1>4. QED
  BY <1>3

LEMMA ValuesMoveForward ==
  ASSUME ~returned', IInv, [Next]_vars
  PROVE  \A c \in Cells : cell[c] \in Nat /\ cell'[c] \in Nat /\ cell[c] <= cell'[c]
<1>1. cell \in [Cells -> Values] /\ cell' \in [Cells -> Values]
  BY StepsInOrder DEF IInv, TypeOK
<1>2. ASSUME UNCHANGED cell PROVE \A c \in Cells : cell[c] <= cell'[c]
  <2>1. \A c \in Cells : cell[c] \in Nat
    BY <1>1
  <2>2. QED
    BY <1>2, <2>1
<1>3. ASSUME NEW d \in Shared, Change(d) PROVE \A c \in Cells : cell[c] <= cell'[c]
  <2>0. PICK v \in Values \ {cell[d]} : /\ cell' = [cell EXCEPT ![d] = v]
                                       /\ ~(v < cell[d])
    <3>1. PICK v \in Values \ {cell[d]} : /\ cell' = [cell EXCEPT ![d] = v]
                                         /\ returned' = (returned \/ v < cell[d])
      BY <1>3 DEF Change
    <3>2. ~(v < cell[d])
      BY <3>1, Zenon
    <3>3. QED
      BY <3>1, <3>2
  <2>1. v \in Nat /\ v > cell[d] /\ d \in Cells
    <3>1. d \in Cells /\ v \in Nat /\ v # cell[d] /\ ~(v < cell[d])
      BY <2>0
    <3>2. cell[d] \in Nat
      BY <1>1, <3>1
    <3>3. QED
      BY <3>1, <3>2
  <2>2. \A c \in Cells : cell[c] \in Nat /\ cell'[c] = IF c = d THEN v ELSE cell[c]
    BY <1>1, <2>0, <2>1
  <2>3. QED
    BY <2>1, <2>2
<1>4. \A c \in Cells : cell[c] \in Nat /\ cell'[c] \in Nat
  BY <1>1
<1>5. QED
  BY <1>2, <1>3, <1>4 DEF Next, Start, Bind, CheckRoot, Collect, Compare, Close, Finish, Cancel,
                          world, vars

(* A read observes the present.                                             *)
LEMMA SeenKept ==
  ASSUME ~returned', IInv, SeenInv, [Next]_vars
  PROVE  SeenInv'
<1>1. ASSUME UNCHANGED seen PROVE SeenInv'
  <2>1. ASSUME NEW k \in 1..2, NEW r \in Reads, seen[k][r] # NotRead
        PROVE  seen[k][r] <= cell'[CellOf[r]]
    <3>1. seen[k][r] \in Nat /\ CellOf[r] \in Cells
      BY <2>1, ReadsAreValues, NumberedReads
    <3>2. seen[k][r] <= cell[CellOf[r]]
      BY <2>1 DEF SeenInv
    <3>3. QED
      BY <3>1, <3>2, ValuesMoveForward
  <2>2. QED
    BY <1>1, <2>1 DEF SeenInv, Reads, CellOf
<1>2. ASSUME Collect, ~err' PROVE SeenInv'
  <2> DEFINE n == round + 1
             v == cell[CellOf[pos]]
  <2>1. /\ n \in 1..2 /\ pos \in Reads /\ v \in Nat /\ cell' = cell
        /\ \A r \in Reads : seen'[n][r] = IF r = pos THEN v ELSE seen[n][r]
        /\ \A l \in 1..2 \ {n} : seen'[l] = seen[l]
        /\ \A r \in Reads : seen[n][r] # NotRead => seen[n][r] \in Nat
        /\ NotRead # v
    <3>1. n \in 1..2 /\ pos \in Reads /\ v \in Values
      BY <1>2, ReadEffect
    <3>2. v \in Nat /\ NotRead # v
      BY <3>1
    <3>3. /\ \A r \in Reads : seen'[n][r] = IF r = pos THEN v ELSE seen[n][r]
          /\ \A l \in 1..2 \ {n} : seen'[l] = seen[l]
      BY <1>2, ReadEffect
    <3>4. \A r \in Reads : seen[n][r] # NotRead => seen[n][r] \in Nat
      BY <3>1, ReadsAreValues
    <3>5. cell' = cell
      BY <1>2 DEF Collect, world
    <3>6. QED
      BY <3>1, <3>2, <3>3, <3>4, <3>5
  <2>2. \A r \in Reads : seen[n][r] # NotRead => r < pos
    <3>1. ~err /\ phase = "collect" /\ round \in 0..2
      BY <1>2, ReadEffect DEF Collect, IInv, TypeOK
    <3>2. QED
      BY <2>1, <3>1 DEF IInv, ProgressInv, Made
  <2> HIDE DEF n
  <2>3. ASSUME NEW k \in 1..2, NEW r \in Reads, seen'[k][r] # NotRead
        PROVE  /\ seen'[k][r] <= cell[CellOf[r]]
               /\ \A q \in Reads : q < r /\ CellOf[q] = CellOf[r] /\ seen'[k][q] # NotRead =>
                    seen'[k][q] <= seen'[k][r]
    <3>1. CASE k # n
      BY <2>1, <2>3, <3>1 DEF SeenInv
    <3>2. CASE k = n /\ r = pos
      <4>1. seen'[k][r] = v
        BY <2>1, <3>2
      <4>2. \A q \in Reads : q < r => seen'[k][q] = seen[n][q]
        BY <2>1, <3>2 DEF Reads
      <4>3. QED
        BY <2>1, <3>2, <4>1, <4>2 DEF SeenInv
    <3>3. CASE k = n /\ r # pos
      <4>1. seen'[k][r] = seen[n][r] /\ r < pos
        BY <2>1, <2>2, <2>3, <3>3
      <4>2. \A q \in Reads : q < r => seen'[k][q] = seen[n][q]
        BY <2>1, <3>3, <4>1 DEF Reads
      <4>3. QED
        BY <2>1, <2>3, <3>3, <4>1, <4>2 DEF SeenInv
    <3>4. QED
      BY <3>1, <3>2, <3>3
  <2>4. QED
    BY <2>1, <2>3 DEF SeenInv, Reads, CellOf
<1>3. UNCHANGED seen \/ (Collect /\ ~err')
  <2>1. CASE Collect
    BY <2>1 DEF Collect, Reject, IInv, StepInv
  <2>2. CASE ~Collect
    BY <2>2 DEF Next, Start, Bind, CheckRoot, Compare, Close, Finish, Change, Cancel, Reject,
                captureVars, vars
  <2>3. QED
    BY <2>1, <2>2
<1>4. QED
  BY <1>1, <1>2, <1>3

(* The first collection's reads precede the moment, the second's follow it. *)
LEMMA MidKept ==
  ASSUME ~returned', IInv, SeenInv, MidInv, [Next]_vars
  PROVE  MidInv'
<1> mid \in [Cells -> Values]
  BY DEF IInv, TypeOK
<1>0. \A c \in Cells : mid[c] \in Nat
  OBVIOUS
<1>1. ASSUME UNCHANGED <<seen, round, mid>> PROVE MidInv'
  <2>1. round >= 1 => \A c \in Cells : mid[c] <= cell'[c]
    BY <1>0, ValuesMoveForward DEF MidInv
  <2>2. QED
    BY <1>1, <2>1 DEF MidInv, Reads, CellOf
<1>2. ASSUME Collect, ~err' PROVE MidInv'
  <2> DEFINE n == round + 1
             v == cell[CellOf[pos]]
  <2>1. /\ n \in 1..2 /\ round \in 0..2 /\ pos \in Reads /\ ~err
        /\ \A r \in Reads : seen'[n][r] = IF r = pos THEN v ELSE seen[n][r]
        /\ \A l \in 1..2 \ {n} : seen'[l] = seen[l]
    BY <1>2, ReadEffect DEF IInv, TypeOK
  <2>2. /\ cell' = cell /\ phase = "collect"
        /\ \/ pos = Untracked /\ round' = round + 1 /\ mid' = IF round = 0 THEN cell ELSE mid
           \/ pos # Untracked /\ round' = round /\ mid' = mid
    BY <1>2 DEF Collect, Reject, world
  <2>3. \A k \in 1..2, r \in Reads : seen[k][r] # NotRead <=> Made(k, r)
    BY <2>1 DEF IInv, ProgressInv
  <2>4. \A c \in Cells : cell[c] \in Nat
    BY ValuesMoveForward
  <2>5. CASE round = 0
    <3>1. CASE pos # Untracked
      BY <2>2, <2>5, <3>1 DEF MidInv
    <3>2. CASE pos = Untracked
      <4>1. mid' = cell /\ cell' = cell
        BY <2>2, <2>5, <3>2
      <4>2. \A c \in Cells : mid'[c] <= cell'[c]
        BY <2>4, <4>1
      <4>3. \A r \in Reads : seen'[1][r] # NotRead => seen'[1][r] <= cell[CellOf[r]]
        <5>1. SeenInv'
          BY SeenKept
        <5>2. QED
          BY <2>2, <5>1 DEF SeenInv, Reads, CellOf
      <4>4. \A r \in Reads : seen'[2][r] = NotRead
        <5>1. \A r \in Reads : ~Made(2, r)
          BY <2>5 DEF Made
        <5>2. seen'[2] = seen[2]
          BY <2>1, <2>5
        <5>3. QED
          BY <2>3, <5>1, <5>2
      <4>5. QED
        BY <4>1, <4>2, <4>3, <4>4 DEF MidInv, Reads, CellOf
    <3>3. QED
      BY <3>1, <3>2
  <2>6. CASE round # 0
    <3>1. round >= 1 /\ n = 2 /\ mid' = mid /\ seen'[1] = seen[1]
      BY <2>1, <2>2, <2>6
    <3>2. \A r \in Reads : seen'[2][r] # NotRead => mid[CellOf[r]] <= seen'[2][r]
      BY <2>1, <3>1, NumberedReads DEF MidInv
    <3>3. QED
      BY <2>2, <3>1, <3>2 DEF MidInv, Reads, CellOf
  <2>7. QED
    BY <2>5, <2>6
<1>3. UNCHANGED <<seen, round, mid>> \/ (Collect /\ ~err')
  <2>1. CASE Collect
    BY <2>1 DEF Collect, Reject, IInv, StepInv
  <2>2. CASE ~Collect
    BY <2>2 DEF Next, Start, Bind, CheckRoot, Compare, Close, Finish, Change, Cancel, Reject,
                captureVars, vars
  <2>3. QED
    BY <2>1, <2>2
<1>4. QED
  BY <1>1, <1>2, <1>3

(* A root found as it was bound after the moment was so at the moment.       *)
LEMMA BoundKept ==
  ASSUME ~returned', IInv, MidInv, BoundInv, [Next]_vars
  PROVE  BoundInv'
<1>0. /\ \A i \in 1..4 : /\ bound[i] # NotRead => bound[i] \in Nat
                         /\ Roots[i] \in Cells
                         /\ mid[Roots[i]] \in Nat
                         /\ cell[Roots[i]] \in Nat /\ cell'[Roots[i]] \in Nat
                         /\ cell[Roots[i]] <= cell'[Roots[i]]
                         /\ cell[Roots[i]] # NotRead
      /\ round \in 0..2
  <2>1. \A i \in 1..4 : bound[i] # NotRead => bound[i] \in Values
    BY DEF IInv, TypeOK
  <2>2. \A i \in 1..4 : /\ Roots[i] \in Cells
                       /\ mid[Roots[i]] \in Values /\ cell[Roots[i]] \in Values
    BY NumberedReads DEF IInv, TypeOK
  <2>3. round \in 0..2
    BY DEF IInv, TypeOK
  <2>4. QED
    BY <2>1, <2>2, <2>3, ValuesMoveForward
<1> USE DEF BoundInv
<1>1. ASSUME UNCHANGED <<bound, round, mid>>,
             ~err' => /\ ~err
                      /\ \/ UNCHANGED <<phase, pos>>
                         \/ phase # "check" /\ phase' # "check"
      PROVE  BoundInv'
  <2>1. ASSUME NEW i \in 1..4, bound[i] # NotRead PROVE bound[i] <= cell'[Roots[i]]
    BY <1>0, <2>1
  <2>2. ASSUME NEW i \in 1..4, ~err', round = 2, phase' = "check" => i < pos'
        PROVE  bound[i] = mid[Roots[i]]
    BY <1>1, <2>2
  <2>3. QED
    BY <1>1, <2>1, <2>2 DEF Roots
<1>2. CASE Bind /\ ~err'
  <2>1. /\ phase = "bind" /\ pos \in 1..4 /\ UNCHANGED <<cell, round>> /\ round = 0
        /\ bound' = [bound EXCEPT ![pos] = cell[Roots[pos]]]
    BY <1>2 DEF Bind, Reject, world, IInv, StepInv, ProgressInv
  <2>2. bound \in [1..4 -> Values \cup {NotRead}]
    BY DEF IInv, TypeOK
  <2>3. \A i \in 1..4 : bound'[i] = IF i = pos THEN cell[Roots[i]] ELSE bound[i]
    BY <2>1, <2>2
  <2>4. \A i \in 1..4 : bound'[i] # NotRead => bound'[i] <= cell[Roots[i]]
    BY <1>0, <2>3
  <2>5. QED
    BY <2>1, <2>4 DEF Roots
<1>3. CASE CheckRoot /\ ~err'
  <2>1. /\ phase = "check" /\ pos \in 1..4 /\ ~err
        /\ UNCHANGED <<cell, bound, round, mid>> /\ cell[Roots[pos]] = bound[pos]
        /\ \/ pos = 4
           \/ pos # 4 /\ phase' = "check" /\ pos' = pos + 1
    BY <1>3 DEF CheckRoot, Reject, world, IInv, StepInv
  <2>2. round = 2 => bound[pos] = mid[Roots[pos]]
    <3>1. SUFFICES ASSUME round = 2 PROVE bound[pos] = mid[Roots[pos]]
      OBVIOUS
    <3>2. bound[pos] # NotRead
      BY <1>0, <2>1
    <3>3. bound[pos] <= mid[Roots[pos]] /\ mid[Roots[pos]] <= cell[Roots[pos]]
      BY <1>0, <2>1, <3>1, <3>2 DEF MidInv
    <3>4. QED
      BY <1>0, <2>1, <3>2, <3>3
  <2>3. ASSUME round = 2, NEW i \in 1..4, phase' = "check" => i < pos'
        PROVE  bound[i] = mid[Roots[i]]
    <3>1. i <= pos
      BY <2>1, <2>3
    <3>2. CASE i = pos
      BY <2>2, <2>3, <3>2
    <3>3. CASE i # pos
      BY <2>1, <2>3, <3>1, <3>3
    <3>4. QED
      BY <3>2, <3>3
  <2>4. QED
    BY <2>1, <2>3 DEF Roots
<1>4. CASE Collect /\ ~err'
  <2>1. /\ UNCHANGED <<cell, bound>> /\ phase = "collect" /\ ~err /\ round < 2
        /\ \/ round' = round /\ mid' = mid
           \/ round' = round + 1 /\ phase' = "check" /\ pos' = 1
              /\ mid' = IF round = 0 THEN cell ELSE mid
    BY <1>4 DEF Collect, Reject, world, IInv, StepInv, ProgressInv
  <2>2. \A i \in 1..4 : bound[i] # NotRead /\ round' >= 1 => bound[i] <= mid'[Roots[i]]
    BY <1>0, <2>1
  <2>3. ~(round' = 2 /\ \E i \in 1..4 : phase' = "check" => i < pos')
    BY <1>0, <2>1
  <2>4. QED
    BY <2>1, <2>2, <2>3 DEF Roots
<1>5. CASE Start \/ Compare \/ Close \/ Finish
  <2>1. ~err' => ~err
    BY <1>5, Zenon DEF Start, Compare, Close, Finish, Reject
  <2>2. /\ UNCHANGED <<bound, round, mid>> /\ phase' # "check" /\ phase # "check"
    BY <1>5 DEF Start, Compare, Close, Finish, Reject
  <2>3. QED
    BY <1>1, <2>1, <2>2
<1>6. CASE (Bind \/ CheckRoot \/ Collect) /\ err'
  <2>1. UNCHANGED <<bound, round, mid>>
    BY <1>6 DEF Bind, CheckRoot, Collect, Reject, IInv, StepInv
  <2>2. QED
    BY <1>1, <1>6, <2>1
<1>7. CASE UNCHANGED captureVars
  BY <1>1, <1>7 DEF captureVars
<1>8. QED
  BY <1>2, <1>3, <1>4, <1>5, <1>6, <1>7 DEF Next, Change, Cancel, vars, captureVars

LEMMA InitInTime == Init => TimeInv
<1> SUFFICES ASSUME Init PROVE TimeInv
  OBVIOUS
<1>1. /\ \A k \in 1..2, r \in Reads : seen[k][r] = NotRead
      /\ \A i \in 1..4 : bound[i] = NotRead
      /\ round = 0
  BY DEF Init
<1>2. QED
  BY <1>1 DEF TimeInv, SeenInv, MidInv, BoundInv

LEMMA InTime == Spec => [](IInv /\ (~returned => TimeInv))
<1>1. ASSUME IInv, ~returned => TimeInv, [Next]_vars PROVE ~returned' => TimeInv'
  <2>1. SUFFICES ASSUME ~returned' PROVE TimeInv'
    OBVIOUS
  <2>2. ~returned
    BY <1>1, <2>1, Zenon DEF Next, Start, Bind, CheckRoot, Collect, Compare, Close, Finish, Cancel, Change,
                     world, vars
  <2>3. QED
    BY <1>1, <2>1, <2>2, SeenKept, MidKept, BoundKept DEF TimeInv
<1>2. QED
  BY <1>1, InitInTime, Invariance, PTL DEF Spec

(* The reads of a cell in both collections, when what was read first and    *)
(* last is the same: the cell was so at the moment and at every read of the *)
(* first collection.                                                        *)
LEMMA BothSides ==
  ASSUME ~returned, IInv, TimeInv, Accepted
  PROVE  /\ round = 2 /\ out = seen[1] /\ MaySeemEqual
         /\ \A k \in 1..2, r \in Reads : seen[k][r] \in Nat
         /\ \A r \in Reads : /\ seen[1][r] <= mid[CellOf[r]]
                             /\ mid[CellOf[r]] <= seen[2][r]
                             /\ mid[CellOf[r]] \in Nat
         /\ \A k \in 1..2, q, r \in Reads :
              q < r /\ CellOf[q] = CellOf[r] => seen[k][q] <= seen[k][r]
<1>1. round = 2 /\ out = seen[1] /\ MaySeemEqual /\ ~err
  BY DEF Accepted, IInv, ProgressInv, OutInv
<1>2. \A k \in 1..2, r \in Reads : seen[k][r] # NotRead
  BY <1>1 DEF IInv, ProgressInv, Made
<1>3. \A k \in 1..2, r \in Reads : seen[k][r] \in Nat
  BY <1>2, ReadsAreValues
<1>4. \A r \in Reads : mid[CellOf[r]] \in Nat
  <2>1. \A r \in Reads : mid[CellOf[r]] \in Values
    BY NumberedReads DEF IInv, TypeOK
  <2>2. QED
    BY <2>1
<1>5. QED
  BY <1>1, <1>2, <1>3, <1>4 DEF TimeInv, SeenInv, MidInv

LEMMA ExpectedAtMid ==
  ASSUME ~returned, IInv, TimeInv
  PROVE  ExpectedSource
<1> SUFFICES ASSUME Accepted
             PROVE  mid["registration"] = 0 /\ mid["index"] = 0 /\ mid["admin"] = 0
  BY DEF ExpectedSource
<1>1. seen[2][List] = 0 /\ seen[2][IndexHash] = 0 /\ seen[2][AdminHash] = 0
  <2>1. List \in Reads /\ InspectHead \in Reads
    BY NumberedReads
  <2>2. Made(2, List) /\ Made(2, InspectHead)
    BY DEF Accepted, IInv, ProgressInv, Made
  <2>3. seen[2][List] # NotRead /\ seen[2][InspectHead] # NotRead
    BY <2>1, <2>2 DEF Accepted, IInv, ProgressInv
  <2>4. QED
    BY <2>3 DEF IInv, AgreeInv
<1>2. \A r \in Reads : mid[CellOf[r]] <= seen[2][r] /\ mid[CellOf[r]] \in Nat
  BY BothSides
<1>3. /\ CellOf[List] = "registration" /\ CellOf[IndexHash] = "index"
      /\ CellOf[AdminHash] = "admin"
  BY DEF CellOf, List, IndexHash, AdminHash
<1>4. QED
  BY <1>1, <1>2, <1>3, NumberedReads

(* An accepted capture is the expected worktree at the moment.              *)
THEOREM AcceptedIsExpected == Spec => []ExpectedSource
<1>1. IInv /\ (~returned => TimeInv) => ExpectedSource
  BY ExpectedAtMid DEF ExpectedSource
<1>2. QED
  BY <1>1, InTime, PTL

LEMMA CopyOfMid ==
  ASSUME ~returned, IInv, TimeInv
  PROVE  ConsistentCopy
<1> SUFFICES ASSUME Accepted
             PROVE  /\ \A r \in Reads \ (IndexHash..InspectHead) :
                         View(r, out[r]) = View(r, mid[CellOf[r]])
                    /\ \A i \in 1..4 : bound[i] = mid[Roots[i]]
  BY DEF ConsistentCopy
<1>1. /\ round = 2 /\ out = seen[1] /\ MaySeemEqual
      /\ \A k \in 1..2, r \in Reads : seen[k][r] \in Nat
      /\ \A r \in Reads : /\ seen[1][r] <= mid[CellOf[r]]
                          /\ mid[CellOf[r]] <= seen[2][r]
                          /\ mid[CellOf[r]] \in Nat
      /\ \A k \in 1..2, q, r \in Reads :
           q < r /\ CellOf[q] = CellOf[r] => seen[k][q] <= seen[k][r]
  BY BothSides
<1>2. \A r \in Reads : seen[1][r] = seen[2][r] => seen[1][r] = mid[CellOf[r]]
  BY <1>1
<1>3. ASSUME NEW r \in {List, StatusLeaves, AdminFiles, Untracked}
      PROVE  seen[1][r] = mid[CellOf[r]]
  <2>1. r \in Reads /\ r # StatusTracked
    BY <1>3, NumberedReads
  <2>2. seen[1][r] = seen[2][r]
    BY <1>1, <1>3, <2>1 DEF MaySeemEqual, View
  <2>3. QED
    BY <1>2, <2>1, <2>2
<1>4. mid["registration"] = 0 /\ mid["index"] = 0
  BY ExpectedAtMid DEF ExpectedSource
<1>5. \A r \in Reads : CellOf[r] \in {"registration", "index"} =>
        seen[1][r] = mid[CellOf[r]] /\ seen[1][r] = 0
  BY <1>1, <1>4
<1>6. seen[1][UnstagedTracked] = seen[2][UnstagedTracked]
  <2>1. seen[2][AdminIndex] = 0
    <3>1. AdminIndex \in Reads /\ InspectHead \in Reads
      BY NumberedReads
    <3>2. Made(2, AdminIndex) /\ Made(2, InspectHead)
      BY DEF Accepted, IInv, ProgressInv, Made
    <3>3. seen[2][AdminIndex] # NotRead /\ seen[2][InspectHead] # NotRead
      BY <3>1, <3>2 DEF Accepted, IInv, ProgressInv
    <3>4. QED
      BY <3>3 DEF IInv, AgreeInv
  <2>2. /\ CellOf[UnstagedIndex] = "index" /\ CellOf[AdminIndex] = "index"
        /\ UnstagedIndex < AdminIndex /\ UnstagedIndex \in Reads /\ AdminIndex \in Reads
    BY DEF CellOf, UnstagedIndex, AdminIndex, Reads
  <2>3. seen[2][UnstagedIndex] = 0
    BY <1>1, <2>1, <2>2
  <2>4. seen[1][UnstagedIndex] = 0
    BY <1>5, <2>2
  <2>5. QED
    BY <1>1, <2>3, <2>4 DEF MaySeemEqual, SamePatch
<1>7. /\ CellOf[UnstagedTracked] = "tracked" /\ CellOf[StatusTracked] = "tracked"
      /\ StatusTracked < UnstagedTracked
      /\ UnstagedTracked \in Reads /\ StatusTracked \in Reads
  BY DEF CellOf, UnstagedTracked, StatusTracked, Reads
<1>8. Shape[seen[1][StatusTracked]] = Shape[mid["tracked"]]
  <2>1. seen[2][StatusTracked] = mid["tracked"]
    <3>1. seen[2][UnstagedTracked] = mid["tracked"]
      BY <1>2, <1>6, <1>7
    <3>2. /\ seen[2][StatusTracked] <= seen[2][UnstagedTracked]
          /\ mid["tracked"] <= seen[2][StatusTracked]
          /\ seen[2][StatusTracked] \in Nat /\ mid["tracked"] \in Nat
      BY <1>1, <1>7
    <3>3. QED
      BY <3>1, <3>2
  <2>2. Shape[seen[1][StatusTracked]] = Shape[seen[2][StatusTracked]]
    BY <1>1 DEF MaySeemEqual, View
  <2>3. QED
    BY <2>1, <2>2
<1>9. ASSUME NEW r \in Reads \ (IndexHash..InspectHead)
      PROVE  View(r, out[r]) = View(r, mid[CellOf[r]])
  <2>1. \/ r \in {List, StatusLeaves, AdminFiles, Untracked}
        \/ r \in {StatusIndex, StagedHead, StagedIndex, UnstagedIndex, AdminIndex}
        \/ r = UnstagedTracked
        \/ r = StatusTracked
    BY <1>9, NumberedReads
  <2>2. CASE r = StatusTracked
    BY <1>1, <1>7, <1>8, <2>2 DEF View
  <2>3. CASE r = UnstagedTracked
    BY <1>1, <1>2, <1>6, <1>7, <2>3
  <2>4. CASE r \in {List, StatusLeaves, AdminFiles, Untracked}
    BY <1>1, <1>3, <2>4
  <2>5. CASE r \in {StatusIndex, StagedHead, StagedIndex, UnstagedIndex, AdminIndex}
    <3>1. CellOf[r] \in {"registration", "index"}
      BY <2>5 DEF CellOf, StatusIndex, StagedHead, StagedIndex, UnstagedIndex, AdminIndex
    <3>2. QED
      BY <1>1, <1>5, <3>1
  <2>6. QED
    BY <2>1, <2>2, <2>3, <2>4, <2>5
<1>10. \A i \in 1..4 : bound[i] = mid[Roots[i]]
  BY <1>1 DEF Accepted, TimeInv, BoundInv
<1>11. QED
  BY <1>9, <1>10

(* Whatever other processes change while it is read, an accepted capture is *)
(* the worktree as it was at the end of the first collection.               *)
THEOREM AcceptedIsConsistent == Spec => []ConsistentCopy
<1>1. IInv /\ (~returned => TimeInv) => ConsistentCopy
  BY CopyOfMid DEF ConsistentCopy
<1>2. QED
  BY <1>1, InTime, PTL

--------------------------------------------------------------------------------
(* The bytes of the parts that a collection has taken.                      *)
Cost(obs, r) == IF obs[r] = NotRead THEN 0 ELSE Bytes[obs[r]]

Spent(obs) == Cost(obs, List) + Cost(obs, StatusLeaves) + Cost(obs, StagedIndex)
              + Cost(obs, UnstagedTracked) + Cost(obs, AdminFiles) + Cost(obs, AdminIndex)
              + Cost(obs, Untracked)

(* What is left and what was spent are the budget together.                 *)
BudgetInv == ~err => /\ \A k \in 1..2 : Spent(seen[k]) <= MaximumBytes
                     /\ phase = "collect" => remaining + Spent(seen[round + 1]) = MaximumBytes

LEMMA CostsAreNumbers ==
  ASSUME NEW obs \in Observations
  PROVE  /\ \A r \in Reads : Cost(obs, r) \in Nat
         /\ Spent(obs) \in Nat
<1>1. \A r \in Reads : Cost(obs, r) \in Nat
  BY DEF Cost, Observations
<1>2. QED
  BY <1>1, NumberedReads DEF Spent

(* One more read costs what it is charged, if it is.                        *)
LEMMA OneMoreCost ==
  ASSUME NEW old \in Observations, NEW new \in Observations, NEW p \in Reads, NEW v \in Values,
         old[p] = NotRead,
         \A r \in Reads : new[r] = IF r = p THEN v ELSE old[r]
  PROVE  Spent(new) = Spent(old) + (IF p \in Charged THEN Bytes[v] ELSE 0)
<1>1. \A r \in 1..17 : /\ Cost(old, r) \in Nat
                       /\ Cost(new, r) = IF r = p THEN Bytes[v] ELSE Cost(old, r)
  BY CostsAreNumbers, NumberedReads DEF Cost
<1>2. Cost(old, p) = 0 /\ Bytes[v] \in Nat /\ p \in 1..17
  BY NumberedReads DEF Cost
<1>3. Charged = {1, 10, 12, 14, 15, 16, 17}
  BY NumberedReads DEF Charged
<1>4. \A obs : Spent(obs) = Cost(obs, 1) + Cost(obs, 10) + Cost(obs, 12) + Cost(obs, 14)
                           + Cost(obs, 15) + Cost(obs, 16) + Cost(obs, 17)
  BY NumberedReads DEF Spent
<1>5. CASE p \in {1, 10, 12, 14, 15, 16, 17}
  BY <1>1, <1>2, <1>3, <1>4, <1>5
<1>6. CASE p \notin {1, 10, 12, 14, 15, 16, 17}
  BY <1>1, <1>2, <1>3, <1>4, <1>6
<1>7. QED
  BY <1>5, <1>6

(* A part is charged when it is read, and was not charged before.           *)
LEMMA ReadIsCharged ==
  ASSUME IInv, BudgetInv, Collect, ~err'
  PROVE  BudgetInv'
<1> DEFINE k == round + 1
           v == cell[CellOf[pos]]
<1>1. /\ ~err /\ k \in 1..2 /\ pos \in Reads /\ v \in Values
      /\ \A r \in Reads : seen'[k][r] = IF r = pos THEN v ELSE seen[k][r]
      /\ \A l \in 1..2 \ {k} : seen'[l] = seen[l]
      /\ seen[k] \in Observations /\ seen'[k] \in Observations
  BY ReadEffect DEF IInv, TypeOK
<1>2. phase = "collect" /\ round \in 0..2 /\ remaining \in Nat
  BY DEF Collect, IInv, TypeOK
<1>3. seen[k][pos] = NotRead
  BY <1>1, <1>2, NumberedReads DEF IInv, ProgressInv, Made
<1>4. Take(pos, v)
  BY <1>1 DEF Collect, Reject
<1>5. /\ phase' = "collect" => round' = round
  BY <1>1, <1>2 DEF Collect, Reject
<1>6. Spent(seen'[k]) = Spent(seen[k]) + (IF pos \in Charged THEN Bytes[v] ELSE 0)
  BY <1>1, <1>3, OneMoreCost
<1>7. remaining + Spent(seen[k]) = MaximumBytes
  BY <1>1, <1>2 DEF BudgetInv
<1>8. Spent(seen[k]) \in Nat /\ Bytes[v] \in Nat
  BY <1>1, CostsAreNumbers
<1>9. remaining' + Spent(seen'[k]) = MaximumBytes /\ remaining' \in Nat
  BY <1>2, <1>4, <1>6, <1>7, <1>8 DEF Take
<1>10. Spent(seen'[k]) <= MaximumBytes
  BY <1>6, <1>8, <1>9
<1>11. \A l \in 1..2 : Spent(seen'[l]) <= MaximumBytes
  BY <1>1, <1>10 DEF BudgetInv
<1>12. QED
  BY <1>5, <1>9, <1>11 DEF BudgetInv

LEMMA BudgetKept ==
  ASSUME IInv, BudgetInv, [Next]_vars
  PROVE  BudgetInv'
<1>1. ASSUME Collect PROVE BudgetInv'
  BY <1>1, ReadIsCharged DEF BudgetInv
<1>2. ASSUME CheckRoot, ~err' PROVE BudgetInv'
  <2>1. /\ ~err /\ UNCHANGED <<seen, round>> /\ phase = "check" /\ round \in 0..2
        /\ seen \in [1..2 -> Observations]
        /\ phase' = "collect" => round # 2 /\ remaining' = MaximumBytes
    BY <1>2 DEF CheckRoot, Reject, IInv, TypeOK
  <2>2. ASSUME phase' = "collect" PROVE Spent(seen[round + 1]) = 0
    <3>1. \A r \in Reads : seen[round + 1][r] = NotRead
      BY <2>1, <2>2 DEF IInv, ProgressInv, Made
    <3>2. \A r \in Reads : Cost(seen[round + 1], r) = 0
      BY <3>1 DEF Cost
    <3>3. QED
      BY <3>2, NumberedReads DEF Spent
  <2>3. QED
    BY <2>1, <2>2 DEF BudgetInv
<1>3. ASSUME Start \/ Bind \/ Compare \/ Close \/ Finish PROVE BudgetInv'
  <2>1. UNCHANGED seen /\ phase' # "collect"
    BY <1>3 DEF Start, Bind, Compare, Close, Finish, Reject
  <2>2. ~err' => ~err
    BY <1>3, Zenon DEF Start, Bind, Compare, Close, Finish, Reject
  <2>3. QED
    BY <2>1, <2>2 DEF BudgetInv
<1>4. ASSUME UNCHANGED captureVars PROVE BudgetInv'
  BY <1>4 DEF captureVars, BudgetInv
<1>5. ASSUME CheckRoot, err' PROVE BudgetInv'
  BY <1>5 DEF BudgetInv
<1>6. QED
  BY <1>1, <1>2, <1>3, <1>4, <1>5 DEF Next, Change, Cancel, vars, captureVars

(* The parts of an accepted capture fit the byte budget together, whatever  *)
(* their sizes and however they change between the collections.             *)
THEOREM AcceptedFits == Spec => []WithinBudget
<1>1. Init => BudgetInv
  <2>1. SUFFICES ASSUME Init PROVE BudgetInv
    OBVIOUS
  <2>2. \A k \in 1..2, r \in Reads : Cost(seen[k], r) = 0
    BY <2>1 DEF Init, Cost
  <2>3. \A k \in 1..2 : Spent(seen[k]) = 0
    BY <2>2, NumberedReads DEF Spent
  <2>4. QED
    BY <2>1, <2>3 DEF Init, BudgetInv
<1>2. IInv /\ BudgetInv => WithinBudget
  <2>1. SUFFICES ASSUME IInv, BudgetInv, Accepted PROVE WithinBudget
    BY DEF WithinBudget
  <2>2. ~err /\ round = 2 /\ out = seen[1]
    BY <2>1 DEF Accepted, IInv, ProgressInv, OutInv
  <2>3. \A r \in Reads : seen[1][r] # NotRead
    BY <2>1, <2>2 DEF IInv, ProgressInv, Made
  <2>4. \A r \in Reads : Cost(seen[1], r) = Bytes[out[r]]
    BY <2>2, <2>3 DEF Cost
  <2>5. Spent(seen[1]) <= MaximumBytes
    BY <2>1, <2>2 DEF BudgetInv
  <2>6. QED
    BY <2>4, <2>5, NumberedReads DEF Spent, WithinBudget
<1>3. IInv /\ BudgetInv /\ [Next]_vars => BudgetInv'
  BY BudgetKept
<1>4. QED
  BY <1>1, <1>2, <1>3, Invariance, PTL DEF Spec
================================================================================

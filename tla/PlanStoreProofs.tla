---------------------------- MODULE PlanStoreProofs ----------------------------
(***************************************************************************)
(* PlanStore for any number of processes, identifiers and lifetimes: the   *)
(* processes agree on one key, answers are saved plans, and explain        *)
(* answers with current plans and the newest one.                          *)
(***************************************************************************)
EXTENDS PlanStore, TLAPS

USE PlanStoreAssumption, DocumentAssumption

(* A file is nothing, damaged, or a document that was saved under its own  *)
(* identifier and signed with the published key.                           *)
Saved(d) == d \in Docs /\ plans[d.id] = d /\ d.key = key /\ key \in Procs
FileInv(f) == f # NoPlan => f = Damaged \/ Saved(f)

StoreInv == /\ \A i \in Ids : FileInv(plans[i])
            /\ export # NoPlan => Saved(export)

(* The key in hand is the published key.                                   *)
KeyInv(p) == pc[p] \in {"write", "read", "check"} => key \in Procs /\ held[p] = key

(* Which operation is at which step, and what it holds there.              *)
Saving == {"validate", "readKey", "makeKey", "rereadKey", "write"}
Loading == {"loadKey", "read", "check"}

ControlInv(p) ==
  /\ pc[p] \in Saving \cup {"export"} => kind[p] = "plan"
  /\ pc[p] \in {"next", "final"} => kind[p] = "latest"
  /\ pc[p] # "done" => result[p] = "none"
  /\ pc[p] = "done" => result[p] # "none"
  /\ pc[p] = "idle" => seen[p] = {} /\ doc[p] = NoPlan

PlanInv(p) ==
  /\ pc[p] \in Saving => doc[p] \in Docs /\ doc[p].id = target[p] /\ doc[p].by = p
  /\ pc[p] \in Loading /\ kind[p] = "plan" =>
       Saved(plans[target[p]]) /\ plans[target[p]].id = target[p] /\ plans[target[p]].by = p
  /\ pc[p] = "export" => Saved(doc[p]) /\ doc[p].id = target[p] /\ doc[p].by = p

ReadInv(p) ==
  /\ pc[p] = "check" => raw[p] # NoPlan /\ FileInv(raw[p])
  /\ pc[p] = "check" /\ kind[p] # "path" => raw[p] = plans[target[p]]
  /\ kind[p] = "latest" /\ doc[p] # NoPlan => Saved(doc[p])

AnswerInv(p) == result[p] = "ok" =>
  /\ Saved(doc[p])
  /\ kind[p] \in {"plan", "load"} => doc[p].id = target[p]
  /\ kind[p] = "plan" => doc[p].by = p

IInv == /\ TypeOK
        /\ StoreInv
        /\ IntegrityErrorsAreReal
        /\ \A p \in Procs : KeyInv(p) /\ ControlInv(p) /\ PlanInv(p) /\ ReadInv(p) /\ AnswerInv(p)

(* What Latest knows of the entries it has been through: they are sound,   *)
(* and the plan it keeps is not older than any that has never expired.     *)
Passed(p) == seen[p] \ (listing[p] \cup IF pc[p] \in Loading THEN {target[p]} ELSE {})

Beaten(i, p) == /\ plans[i] \in Docs /\ plans[i].id = i
                /\ plans[i].exp > peak => doc[p] # NoPlan /\ ~Newer(plans[i], doc[p])

LatestInv(p) ==
  kind[p] = "latest" /\ pc[p] \in Loading \cup {"next", "final"} =>
    /\ \A i \in seen[p] : plans[i] # NoPlan
    /\ pc[p] = "final" => listing[p] = {}
    /\ \A i \in Passed(p) : Beaten(i, p)

NewestInv == \A p \in Procs : LatestInv(p)

--------------------------------------------------------------------------------
LEMMA InitEstablishesInv == Init => IInv
<1>1. (CHOOSE i \in Ids : TRUE) \in Ids
  OBVIOUS
<1>2. QED
  BY <1>1 DEF Init, IInv, TypeOK, StoreInv, FileInv, Files, Kinds, Steps, Results,
     IntegrityErrorsAreReal, KeyInv, ControlInv, PlanInv, ReadInv, AnswerInv, Saving, Loading

(* No step changes a key, a plan file or an export that is there.          *)
Stay == /\ key # NoKey => key' = key
        /\ \A i \in Ids : plans[i] # NoPlan => plans'[i] = plans[i]
        /\ export # NoPlan => export' = export

LEMMA FilesStay ==
  ASSUME TypeOK, [Next]_vars
  PROVE  Stay
<1>1. ASSUME NEW p \in Procs, ProcStep(p) PROVE Stay
  BY <1>1 DEF ProcStep, TypeOK, Stay, Build, BeginLoad, List, SaveValidate, ReadKey, MakeKey,
     WritePlan, ReadPlan, CheckPlan, Export, NextEntry, FinishLatest, Abort
<1>2. ASSUME CopyPlan PROVE Stay
  BY <1>2 DEF CopyPlan, TypeOK, Stay
<1>3. ASSUME Tick \/ UNCHANGED vars PROVE Stay
  BY <1>3 DEF Tick, vars, Stay
<1>4. QED
  BY <1>1, <1>2, <1>3 DEF Next

(* So what was saved stays saved.                                          *)
LEMMA SavedStays ==
  ASSUME TypeOK, Stay, NEW d, Saved(d)
  PROVE  Saved(d)'
BY DEF TypeOK, Stay, Saved, Docs

(* The process whose step it is not keeps its part of the invariant.       *)
ProcInv(p) == KeyInv(p) /\ ControlInv(p) /\ PlanInv(p) /\ ReadInv(p) /\ AnswerInv(p)

Untouched(q) == /\ pc'[q] = pc[q] /\ kind'[q] = kind[q] /\ target'[q] = target[q]
                /\ held'[q] = held[q] /\ raw'[q] = raw[q] /\ doc'[q] = doc[q]
                /\ listing'[q] = listing[q] /\ seen'[q] = seen[q] /\ result'[q] = result[q]

LEMMA Frame ==
  ASSUME IInv, Stay, NEW q \in Procs, Untouched(q)
  PROVE  ProcInv(q)'
<1>1. TypeOK /\ ProcInv(q) /\ target[q] \in Ids
  BY DEF IInv, TypeOK, ProcInv
<1>2. ASSUME NEW d, Saved(d) PROVE Saved(d)'
  BY <1>1, <1>2, SavedStays
<1>3. \A d : Saved(d) => d # NoPlan
  BY DEF Saved
<1>4. KeyInv(q)' /\ ControlInv(q)' /\ AnswerInv(q)'
  BY <1>1, <1>2 DEF ProcInv, Untouched, Stay, KeyInv, ControlInv, AnswerInv
<1>5. PlanInv(q)'
  BY <1>1, <1>2, <1>3 DEF ProcInv, Untouched, Stay, PlanInv
<1>6. ReadInv(q)'
  BY <1>1, <1>2 DEF ProcInv, Untouched, Stay, ReadInv, FileInv
<1>7. QED
  BY <1>4, <1>5, <1>6 DEF ProcInv

(* Files that did not change keep the store's part.                        *)
LEMMA StoreFrame ==
  ASSUME IInv, key' = key \/ key = NoKey, plans' = plans, export' = export
  PROVE  StoreInv'
BY DEF IInv, TypeOK, StoreInv, FileInv, Saved

(* The types, step by step.                                                *)
LEMMA ProcStepPreservesTypes ==
  ASSUME IInv, NEW p \in Procs, ProcStep(p)
  PROVE  TypeOK'
<1> USE DEF IInv, TypeOK, Steps, Kinds, Results, Files, GoTo, End, Reported
<1>1. CASE Build(p)
  BY <1>1 DEF Build, Docs
<1>2. CASE BeginLoad(p)
  <2>1. target' \in [Procs -> Ids] /\ kind' \in [Procs -> Kinds]
    BY <1>2 DEF BeginLoad
  <2>2. QED
    BY <1>2, <2>1 DEF BeginLoad
<1>3. CASE List(p)
  BY <1>3 DEF List
<1>4. CASE SaveValidate(p)
  BY <1>4 DEF SaveValidate
<1>5. CASE ReadKey(p)
  BY <1>5 DEF ReadKey
<1>6. CASE MakeKey(p)
  BY <1>6 DEF MakeKey
<1>7. CASE WritePlan(p)
  <2>1. Signed(p) \in Docs
    BY <1>7 DEF WritePlan, Signed, Docs, KeyInv, PlanInv, Saving
  <2>2. plans' \in [Ids -> Files]
    BY <1>7, <2>1 DEF WritePlan
  <2>3. QED
    BY <1>7, <2>2 DEF WritePlan
<1>8. CASE ReadPlan(p)
  <2> DEFINE file == IF kind[p] = "path" THEN export ELSE plans[target[p]]
  <2>1. file \in Files
    OBVIOUS
  <2>2. \/ file = NoPlan /\ End(p, "error") /\ UNCHANGED raw
        \/ file # NoPlan /\ raw' = [raw EXCEPT ![p] = file] /\ GoTo(p, "check")
    BY <1>8 DEF ReadPlan
  <2>3. raw' \in [Procs -> Files]
    BY <2>1, <2>2
  <2>4. QED
    BY <1>8, <2>2, <2>3 DEF ReadPlan
<1>9. CASE CheckPlan(p)
  BY <1>9 DEF CheckPlan, Authentic, Kept, After
<1>10. CASE Export(p)
  BY <1>10 DEF Export
<1>11. CASE NextEntry(p)
  BY <1>11 DEF NextEntry
<1>12. CASE FinishLatest(p)
  BY <1>12 DEF FinishLatest
<1>13. CASE Abort(p)
  BY <1>13 DEF Abort
<1>14. QED
  BY <1>1, <1>2, <1>3, <1>4, <1>5, <1>6, <1>7, <1>8, <1>9, <1>10, <1>11, <1>12, <1>13 DEF ProcStep

(* A step of p leaves the state of every other process alone.              *)
LEMMA StepLeavesOthers ==
  ASSUME TypeOK, NEW p \in Procs, ProcStep(p), NEW q \in Procs \ {p}
  PROVE  Untouched(q)
<1> USE DEF TypeOK, Untouched, GoTo, End
<1>1. CASE Build(p)
  BY <1>1 DEF Build
<1>2. CASE BeginLoad(p)
  BY <1>2 DEF BeginLoad
<1>3. CASE List(p)
  BY <1>3 DEF List
<1>4. CASE SaveValidate(p)
  BY <1>4 DEF SaveValidate
<1>5. CASE ReadKey(p)
  BY <1>5 DEF ReadKey
<1>6. CASE MakeKey(p)
  BY <1>6 DEF MakeKey
<1>7. CASE WritePlan(p)
  BY <1>7 DEF WritePlan
<1>8. CASE ReadPlan(p)
  BY <1>8 DEF ReadPlan
<1>9. CASE CheckPlan(p)
  BY <1>9 DEF CheckPlan
<1>10. CASE Export(p)
  BY <1>10 DEF Export
<1>11. CASE NextEntry(p)
  BY <1>11 DEF NextEntry
<1>12. CASE FinishLatest(p)
  BY <1>12 DEF FinishLatest
<1>13. CASE Abort(p)
  BY <1>13 DEF Abort
<1>14. QED
  BY <1>1, <1>2, <1>3, <1>4, <1>5, <1>6, <1>7, <1>8, <1>9, <1>10, <1>11, <1>12, <1>13 DEF ProcStep

(* Of all steps only the check at the end of Load reports a failed         *)
(* verification, and it does so for a document that is not the one that    *)
(* was saved under the requested identifier.                               *)
LEMMA ProcStepPreservesIntegrity ==
  ASSUME IInv, NEW p \in Procs, ProcStep(p)
  PROVE  IntegrityErrorsAreReal'
<1> USE DEF IInv, TypeOK, Results, IntegrityErrorsAreReal, GoTo, End, Reported, ControlInv
<1>1. CASE Build(p)
  BY <1>1 DEF Build
<1>2. CASE BeginLoad(p)
  BY <1>2 DEF BeginLoad
<1>3. CASE List(p)
  BY <1>3 DEF List
<1>4. CASE SaveValidate(p)
  BY <1>4 DEF SaveValidate
<1>5. CASE ReadKey(p)
  BY <1>5 DEF ReadKey
<1>6. CASE MakeKey(p)
  BY <1>6 DEF MakeKey
<1>7. CASE WritePlan(p)
  BY <1>7 DEF WritePlan
<1>8. CASE ReadPlan(p)
  BY <1>8 DEF ReadPlan
<1>9. CASE CheckPlan(p)
  BY <1>9 DEF CheckPlan, Authentic, ReadInv, FileInv, Saved, KeyInv
<1>10. CASE Export(p)
  BY <1>10 DEF Export
<1>11. CASE NextEntry(p)
  BY <1>11 DEF NextEntry
<1>12. CASE FinishLatest(p)
  BY <1>12 DEF FinishLatest
<1>13. CASE Abort(p)
  BY <1>13 DEF Abort
<1>14. QED
  BY <1>1, <1>2, <1>3, <1>4, <1>5, <1>6, <1>7, <1>8, <1>9, <1>10, <1>11, <1>12, <1>13 DEF ProcStep

(* What the files hold after a step of a process.                          *)
LEMMA ProcStepPreservesStore ==
  ASSUME IInv, NEW p \in Procs, ProcStep(p)
  PROVE  StoreInv'
<1> USE StoreFrame
<1>1. CASE Build(p)
  BY <1>1 DEF Build
<1>2. CASE BeginLoad(p)
  BY <1>2 DEF BeginLoad
<1>3. CASE List(p)
  BY <1>3 DEF List
<1>4. CASE SaveValidate(p)
  BY <1>4 DEF SaveValidate
<1>5. CASE ReadKey(p)
  BY <1>5 DEF ReadKey
<1>6. CASE MakeKey(p)
  BY <1>6 DEF MakeKey
<1>7. CASE WritePlan(p)
  BY <1>7, SMTT(30) DEF WritePlan, Signed, IInv, TypeOK, StoreInv, FileInv, Saved, KeyInv, PlanInv, ControlInv, Saving, Docs, GoTo, End
<1>8. CASE ReadPlan(p)
  BY <1>8 DEF ReadPlan
<1>9. CASE CheckPlan(p)
  BY <1>9 DEF CheckPlan
<1>10. CASE Export(p)
  BY <1>10 DEF Export, IInv, TypeOK, StoreInv, FileInv, Saved, PlanInv, GoTo, End
<1>11. CASE NextEntry(p)
  BY <1>11 DEF NextEntry
<1>12. CASE FinishLatest(p)
  BY <1>12 DEF FinishLatest
<1>13. CASE Abort(p)
  BY <1>13 DEF Abort
<1>14. QED
  BY <1>1, <1>2, <1>3, <1>4, <1>5, <1>6, <1>7, <1>8, <1>9, <1>10, <1>11, <1>12, <1>13 DEF ProcStep

(* The file that Load reads.                                               *)
LEMMA FileToRead ==
  ASSUME IInv, NEW p \in Procs,
         NEW file, file = IF kind[p] = "path" THEN export ELSE plans[target[p]]
  PROVE  file \in Files /\ FileInv(file)
BY DEF IInv, TypeOK, StoreInv, FileInv

(* What the process knows after its own step.                              *)
LEMMA ProcStepPreservesProc ==
  ASSUME IInv, NEW p \in Procs, ProcStep(p)
  PROVE  ProcInv(p)'
<1> USE DEF IInv, TypeOK, ProcInv, KeyInv, ControlInv, PlanInv, ReadInv, AnswerInv, StoreInv, FileInv,
            Saved, Saving, Loading, GoTo, End, Reported, Steps, Kinds, Results
<1>1. CASE Build(p)
  BY <1>1 DEF Build, Docs
<1>2. CASE BeginLoad(p)
  BY <1>2 DEF BeginLoad
<1>3. CASE List(p)
  BY <1>3 DEF List
<1>4. CASE SaveValidate(p)
  BY <1>4 DEF SaveValidate
<1>5. CASE ReadKey(p)
  BY <1>5 DEF ReadKey
<1>6. CASE MakeKey(p)
  BY <1>6 DEF MakeKey
<1>7. CASE WritePlan(p)
  BY <1>7, SMTT(30) DEF WritePlan, Signed, Docs
<1>8. CASE ReadPlan(p)
  <2> DEFINE file == IF kind[p] = "path" THEN export ELSE plans[target[p]]
  <2>1. file \in Files /\ FileInv(file)
    BY FileToRead
  <2>2. \/ file = NoPlan /\ End(p, "error") /\ UNCHANGED raw
        \/ file # NoPlan /\ raw' = [raw EXCEPT ![p] = file] /\ GoTo(p, "check")
    BY <1>8 DEF ReadPlan
  <2>3. CASE file = NoPlan
    BY <1>8, <2>2, <2>3 DEF ReadPlan
  <2>4. CASE file # NoPlan
    <3>2. raw'[p] = file
      BY <2>1, <2>2, <2>4
    <3>3. UNCHANGED <<key, plans, export, doc, target, kind, held, result>>
      BY <1>8, <2>2, <2>4 DEF ReadPlan
    <3>4. pc[p] = "read" /\ pc'[p] = "check"
      BY <1>8, <2>2, <2>4 DEF ReadPlan
    <3>5. QED
      BY <2>1, <2>4, <3>2, <3>3, <3>4
  <2>5. QED
    BY <2>3, <2>4
<1>9. CASE CheckPlan(p)
  BY <1>9 DEF CheckPlan, Authentic, Kept, After
<1>10. CASE Export(p)
  BY <1>10 DEF Export
<1>11. CASE NextEntry(p)
  BY <1>11 DEF NextEntry
<1>12. CASE FinishLatest(p)
  BY <1>12 DEF FinishLatest
<1>13. CASE Abort(p)
  BY <1>13 DEF Abort
<1>14. QED
  BY <1>1, <1>2, <1>3, <1>4, <1>5, <1>6, <1>7, <1>8, <1>9, <1>10, <1>11, <1>12, <1>13 DEF ProcStep

(* Every step of a process preserves the invariant.                        *)
LEMMA ProcStepPreservesInv ==
  ASSUME IInv, NEW p \in Procs, ProcStep(p)
  PROVE  IInv'
<1>1. TypeOK /\ TypeOK'
  BY ProcStepPreservesTypes DEF IInv
<1>2. Stay
  BY <1>1, FilesStay DEF Next
<1>3. ASSUME NEW q \in Procs \ {p} PROVE ProcInv(q)'
  BY <1>1, <1>2, StepLeavesOthers, Frame
<1>4. ProcInv(p)' /\ StoreInv' /\ IntegrityErrorsAreReal'
  BY ProcStepPreservesProc, ProcStepPreservesStore, ProcStepPreservesIntegrity
<1>5. QED
  BY <1>1, <1>3, <1>4 DEF IInv, ProcInv

LEMMA CopyPreservesInv ==
  ASSUME IInv, CopyPlan
  PROVE  IInv'
<1>1. Stay
  BY FilesStay DEF IInv, Next
<1>2. TypeOK' /\ IntegrityErrorsAreReal'
  BY DEF CopyPlan, procVars, IInv, TypeOK, IntegrityErrorsAreReal
<1>3. StoreInv'
  <2>1. \A d : Saved(d) => Saved(d)'
    BY <1>1, SavedStays DEF IInv
  <2>2. PICK i \in Ids, j \in Ids : plans' = [plans EXCEPT ![j] = plans[i]]
    BY DEF CopyPlan
  <2>3. \A k \in Ids : plans'[k] = plans[k] \/ plans'[k] = plans[i]
    BY <2>2 DEF IInv, TypeOK
  <2>4. export' = export
    BY DEF CopyPlan
  <2>5. QED
    BY <2>1, <2>2, <2>3, <2>4 DEF IInv, StoreInv, FileInv
<1>4. ASSUME NEW q \in Procs PROVE ProcInv(q)'
  BY <1>1, Frame DEF CopyPlan, procVars, Untouched
<1>5. QED
  BY <1>2, <1>3, <1>4 DEF IInv, ProcInv

LEMMA QuietStepPreservesInv ==
  ASSUME IInv, Tick \/ UNCHANGED vars
  PROVE  IInv'
<1>1. /\ UNCHANGED <<key, plans, export, procVars>>
      /\ clock' \in 0..MaxTime /\ peak' \in clock'..MaxTime
  BY DEF Tick, vars, IInv, TypeOK
<1>2. QED
  BY <1>1 DEF procVars, IInv, TypeOK, StoreInv, FileInv, Saved, IntegrityErrorsAreReal, KeyInv,
     ControlInv, PlanInv, ReadInv, AnswerInv

(* The invariant holds for any number of processes and identifiers.        *)
THEOREM Invariance == Spec => []IInv
<1>1. IInv /\ [Next]_vars => IInv'
  BY ProcStepPreservesInv, CopyPreservesInv, QuietStepPreservesInv DEF Next
<1>2. QED
  BY <1>1, InitEstablishesInv, PTL DEF Spec

(* All processes sign and verify with one key: a saved plan never fails    *)
(* verification, whoever raced to create the key (localIntegrityKey).      *)
THEOREM KeyAgreement == Spec => []IntegrityErrorsAreReal
<1>1. IInv => IntegrityErrorsAreReal
  BY DEF IInv
<1>2. QED
  BY <1>1, Invariance, PTL

(* Answers and exports are plans that were saved and are still there.      *)
THEOREM AnswersSaved == Spec => [](AnswersAreSaved /\ ExportIsSaved)
<1>1. IInv => AnswersAreSaved /\ ExportIsSaved
  BY DEF IInv, StoreInv, AnswerInv, Saved, AnswersAreSaved, ExportIsSaved
<1>2. QED
  BY <1>1, Invariance, PTL

(* Which steps answer an `explain`, and with what.                         *)
LEMMA AnsweringSteps ==
  ASSUME IInv, [Next]_vars, NEW p \in Procs,
         kind'[p] # "plan", result[p] = "none", result'[p] = "ok"
  PROVE  /\ doc'[p] \in Docs /\ Validity(doc'[p]) = "valid"
         /\ kind[p] = "latest" => FinishLatest(p)
<1>1. CASE CheckPlan(p)
  BY <1>1 DEF CheckPlan, IInv, TypeOK, End, GoTo, After, Kept, ReadInv, FileInv, Saved, Authentic,
     Reported, Kinds
<1>2. CASE FinishLatest(p)
  BY <1>2 DEF FinishLatest, IInv, TypeOK, End, Reported
<1>3. CASE ~CheckPlan(p) /\ ~FinishLatest(p)
  <2>1. ProcStep(p)
    BY StepLeavesOthers DEF Next, CopyPlan, Tick, procVars, vars, IInv, Untouched
  <2>2. ~Export(p)
    BY DEF Export, IInv, ControlInv, TypeOK
  <2>3. QED
    BY <1>3, <2>1, <2>2 DEF ProcStep, IInv, TypeOK, GoTo, End, Reported, Build, BeginLoad, List, SaveValidate,
       ReadKey, MakeKey, WritePlan, ReadPlan, NextEntry, Abort
<1>4. QED
  BY <1>1, <1>2, <1>3

(* Whatever `explain` answers with is current at that moment, also when    *)
(* the wall clock is set back (validateStoredPlan at the end of Load and   *)
(* of Latest).                                                             *)
THEOREM AnswersAreCurrent == Spec => ReturnedIsCurrent
<1>1. ASSUME IInv, [Next]_vars, NEW p \in Procs,
             kind'[p] # "plan", result[p] = "none", result'[p] = "ok"
      PROVE  doc'[p].gen <= clock /\ clock < doc'[p].exp
  <2>1. doc'[p] \in Docs /\ Validity(doc'[p]) = "valid" /\ clock \in Nat
    BY <1>1, AnsweringSteps DEF IInv, TypeOK
  <2>2. QED
    BY <2>1 DEF Validity, Docs
<1>2. IInv /\ [Next]_vars =>
        [\A p \in Procs : kind'[p] # "plan" /\ result[p] = "none" /\ result'[p] = "ok" =>
           doc'[p].gen <= clock /\ clock < doc'[p].exp]_vars
  BY <1>1
<1>3. QED
  BY <1>2, Invariance, PTL DEF Spec, ReturnedIsCurrent

--------------------------------------------------------------------------------
LEMMA NewerIsTransitive ==
  ASSUME NEW a \in Docs, NEW b \in Docs, NEW c \in Docs, ~Newer(a, b), ~Newer(b, c)
  PROVE  ~Newer(a, c)
<1>1. \A d \in Docs : d.gen \in Nat /\ d.id \in Nat
  BY DEF Docs
<1>2. QED
  BY <1>1 DEF Newer

LEMMA NewerIsAsymmetric ==
  ASSUME NEW a \in Docs, NEW b \in Docs, Newer(a, b)
  PROVE  ~Newer(b, a) /\ ~Newer(a, a)
<1>1. \A d \in Docs : d.gen \in Nat /\ d.id \in Nat
  BY DEF Docs
<1>2. QED
  BY <1>1 DEF Newer

(* What was beaten stays beaten: the peak of the clock never falls.        *)
LEMMA NewestFrame ==
  ASSUME IInv, Stay, peak' \in Nat, peak <= peak', NEW q \in Procs, LatestInv(q), Untouched(q)
  PROVE  LatestInv(q)'
<1> SUFFICES ASSUME kind[q] = "latest", pc[q] \in Loading \cup {"next", "final"}
             PROVE  /\ \A i \in seen[q] : plans'[i] # NoPlan
                    /\ pc[q] = "final" => listing[q] = {}
                    /\ \A i \in Passed(q) : Beaten(i, q)'
  BY DEF LatestInv, Untouched, Passed
<1>1. seen[q] \subseteq Ids /\ (\A i \in seen[q] : plans[i] # NoPlan)
  BY DEF IInv, TypeOK, LatestInv
<1>2. \A i \in seen[q] : plans'[i] = plans[i]
  BY <1>1 DEF Stay
<1>3. ASSUME NEW i \in Passed(q) PROVE Beaten(i, q)'
  <2>1. Beaten(i, q) /\ plans'[i] = plans[i] /\ doc'[q] = doc[q] /\ peak \in Nat
    BY <1>2 DEF LatestInv, Passed, Untouched, IInv, TypeOK
  <2>2. plans[i] \in Docs /\ plans[i].exp \in Nat
    BY <2>1 DEF Beaten, Docs
  <2>3. QED
    BY <2>1, <2>2 DEF Beaten, Newer
<1>4. QED
  BY <1>1, <1>2, <1>3 DEF LatestInv

(* The entry just loaded joins those that are beaten: it was expired, or   *)
(* the plan that is kept is at least as new.                               *)
LEMMA CheckKeepsNewest ==
  ASSUME IInv, NEW p \in Procs, LatestInv(p), CheckPlan(p), kind[p] = "latest", pc'[p] # "done"
  PROVE  LatestInv(p)'
<1> DEFINE i == target[p]
<1>1. /\ TypeOK /\ pc[p] = "check" /\ pc'[p] = "next" /\ Authentic(p)
      /\ UNCHANGED <<plans, clock, peak, kind, target, listing, seen>>
  BY DEF CheckPlan, IInv, TypeOK, GoTo, End, After, Reported
<1>2. /\ raw[p] \in Docs /\ raw[p] = plans[i] /\ raw[p].id = i
      /\ doc[p] # NoPlan => doc[p] \in Docs
  BY <1>1 DEF IInv, TypeOK, ReadInv, FileInv, Saved, Authentic
<1>3. \/ Validity(raw[p]) = "expired" /\ doc' = doc
      \/ Validity(raw[p]) = "valid" /\ doc' = [doc EXCEPT ![p] = Kept(p)]
  <2>1. CASE Validity(raw[p]) = "valid"
    BY <1>1, <2>1 DEF CheckPlan
  <2>2. CASE Validity(raw[p]) # "valid"
    <3>1. doc' = doc /\ (Validity(raw[p]) = "expired" \/ pc' = [pc EXCEPT ![p] = "done"])
      BY <1>1, <2>2 DEF CheckPlan, End
    <3>2. QED
      BY <1>1, <3>1 DEF TypeOK
  <2>3. QED
    BY <2>1, <2>2
<1>4. doc'[p] = doc[p] \/ (doc'[p] = raw[p] /\ (doc[p] = NoPlan \/ Newer(raw[p], doc[p])))
  BY <1>1, <1>3 DEF Kept, TypeOK
<1>5. Beaten(i, p)'
  <2>1. CASE Validity(raw[p]) = "expired"
    BY <1>1, <1>2, <2>1 DEF Validity, Beaten, Docs, TypeOK
  <2>2. CASE doc' = [doc EXCEPT ![p] = Kept(p)]
    <3>1. doc'[p] = raw[p] \/ (doc'[p] = doc[p] /\ doc[p] # NoPlan /\ ~Newer(raw[p], doc[p]))
      BY <1>1, <2>2 DEF Kept, TypeOK
    <3>2. ~Newer(raw[p], raw[p]) /\ raw[p] # NoPlan
      <4>1. ASSUME NEW d \in Docs PROVE ~Newer(d, d)
        <5>1. d.gen \in Nat /\ d.id \in Nat
          BY DEF Docs
        <5>2. QED
          BY <5>1 DEF Newer
      <4>2. QED
        BY <1>2, <4>1
    <3>3. QED
      BY <1>1, <1>2, <3>1, <3>2 DEF Beaten
  <2>3. QED
    BY <1>3, <2>1, <2>2
<1>6. ASSUME NEW j \in Passed(p) PROVE Beaten(j, p)'
  <2>1. Beaten(j, p) /\ plans' = plans /\ peak' = peak
    BY <1>1 DEF LatestInv, Loading
  <2>2. CASE doc'[p] = doc[p]
    BY <2>1, <2>2 DEF Beaten
  <2>3. CASE doc'[p] = raw[p] /\ (doc[p] = NoPlan \/ Newer(raw[p], doc[p]))
    <3>1. plans[j].exp > peak => doc[p] \in Docs /\ ~Newer(plans[j], doc[p]) /\ Newer(raw[p], doc[p])
      BY <1>2, <2>1, <2>3 DEF Beaten
    <3>2. Newer(raw[p], doc[p]) /\ doc[p] \in Docs => ~Newer(doc[p], raw[p])
      BY <1>2, NewerIsAsymmetric
    <3>3. plans[j].exp > peak => ~Newer(plans[j], raw[p])
      BY <1>2, <2>1, <3>1, <3>2, NewerIsTransitive DEF Beaten
    <3>4. QED
      BY <1>2, <2>1, <2>3, <3>3 DEF Beaten
  <2>4. QED
    BY <1>4, <2>2, <2>3
<1>7. \A j \in Passed(p)' : j = i \/ j \in Passed(p)
  BY <1>1 DEF Passed, Loading
<1>8. \A j \in seen'[p] : plans'[j] # NoPlan
  BY <1>1 DEF LatestInv, Loading
<1>9. QED
  BY <1>1, <1>5, <1>6, <1>7, <1>8 DEF LatestInv

LEMMA StepKeepsNewest ==
  ASSUME IInv, NEW p \in Procs, LatestInv(p), ProcStep(p)
  PROVE  LatestInv(p)'
<1> USE DEF IInv, TypeOK, LatestInv, Passed, Beaten, Loading, GoTo, End
<1>1. CASE List(p)
  BY <1>1 DEF List
<1>2. CASE NextEntry(p)
  BY <1>2 DEF NextEntry
<1>3. CASE ReadKey(p)
  BY <1>3 DEF ReadKey
<1>4. CASE ReadPlan(p)
  <2>1. UNCHANGED <<plans, clock, peak, kind, target, doc, listing, seen>> /\ pc[p] = "read" /\ pc'[p] \in {"done", "check"}
    BY <1>4 DEF ReadPlan
  <2>2. QED
    BY <2>1
<1>5. CASE CheckPlan(p)
  <2>1. CASE pc'[p] = "done"
    BY <2>1
  <2>2. CASE kind[p] # "latest"
    BY <1>5, <2>2 DEF CheckPlan
  <2>3. CASE pc'[p] # "done" /\ kind[p] = "latest"
    BY <1>5, <2>3, CheckKeepsNewest
  <2>4. QED
    BY <2>1, <2>2, <2>3
<1>6. CASE \/ Build(p) \/ BeginLoad(p) \/ SaveValidate(p) \/ MakeKey(p) \/ WritePlan(p)
           \/ Export(p) \/ FinishLatest(p) \/ Abort(p)
  <2>1. kind'[p] # "latest" \/ pc'[p] = "done"
    BY <1>6 DEF Build, BeginLoad, SaveValidate, MakeKey, WritePlan, Export, FinishLatest, Abort,
       ControlInv, Saving
  <2>2. QED
    BY <2>1
<1>7. QED
  BY <1>1, <1>2, <1>3, <1>4, <1>5, <1>6 DEF ProcStep

LEMMA NewestInvariance == Spec => []NewestInv
<1>1. Init => NewestInv
  BY DEF Init, NewestInv, LatestInv, Loading
<1>2. IInv /\ NewestInv /\ [Next]_vars => NewestInv'
  <2> SUFFICES ASSUME IInv, NewestInv, [Next]_vars PROVE NewestInv'
    OBVIOUS
  <2>1. Stay /\ TypeOK
    BY FilesStay DEF IInv
  <2>2. ASSUME NEW q \in Procs, Untouched(q), peak' \in Nat, peak <= peak' PROVE LatestInv(q)'
    BY <2>1, <2>2, NewestFrame DEF NewestInv
  <2>3. ASSUME NEW p \in Procs, ProcStep(p) PROVE NewestInv'
    <3>1. peak' = peak /\ peak \in Nat
      BY <2>1, <2>3 DEF TypeOK, ProcStep, Build, BeginLoad, List, SaveValidate, ReadKey, MakeKey,
         WritePlan, ReadPlan, CheckPlan, Export, NextEntry, FinishLatest, Abort
    <3>2. LatestInv(p)'
      BY <2>3, StepKeepsNewest DEF NewestInv
    <3>3. ASSUME NEW q \in Procs \ {p} PROVE LatestInv(q)'
      BY <2>1, <2>2, <2>3, <3>1, StepLeavesOthers
    <3>4. QED
      BY <3>2, <3>3 DEF NewestInv
  <2>4. CASE CopyPlan
    BY <2>1, <2>2, <2>4 DEF CopyPlan, procVars, Untouched, NewestInv, TypeOK
  <2>5. CASE Tick \/ UNCHANGED vars
    <3>1. UNCHANGED procVars /\ peak' \in Nat /\ peak <= peak'
      BY <2>1, <2>5 DEF Tick, vars, TypeOK
    <3>2. QED
      BY <2>2, <3>1 DEF procVars, Untouched, NewestInv
  <2>6. QED
    BY <2>3, <2>4, <2>5 DEF Next
<1>3. QED
  BY <1>1, <1>2, Invariance, PTL DEF Spec

(* Latest answers with the newest of the plans it listed that never        *)
(* expired, and with none if a listed document is not sound, also when the *)
(* clock is set back meanwhile (Store.Latest).                             *)
THEOREM LatestNewest == Spec => LatestIsNewest
<1>1. ASSUME IInv, NewestInv, [Next]_vars, NEW p \in Procs,
             kind[p] = "latest", result[p] = "none", result'[p] = "ok", NEW i \in seen[p]
      PROVE  /\ plans[i] # Damaged /\ plans[i].id = i
             /\ plans[i].exp > peak => ~Newer(plans[i], doc[p])
  <2>1. CASE kind'[p] # "plan"
    <3>1. FinishLatest(p)
      BY <1>1, <2>1, AnsweringSteps
    <3>2. Beaten(i, p)
      BY <1>1, <3>1 DEF FinishLatest, NewestInv, LatestInv, Passed, Loading
    <3>3. QED
      BY <3>2 DEF Beaten
  <2>2. CASE kind'[p] = "plan"
    <3>1. ~(kind'[p] = kind[p])
      BY <1>1, <2>2
    <3>2. ProcStep(p)
      BY <1>1, <3>1, StepLeavesOthers DEF Next, CopyPlan, Tick, vars, procVars, IInv, Untouched
    <3>3. Build(p)
      <4>1. CASE BeginLoad(p) \/ List(p)
        <5>1. PICK k \in {"load", "path", "latest"} : kind' = [kind EXCEPT ![p] = k]
          BY <4>1 DEF BeginLoad, List
        <5>2. kind \in [Procs -> Kinds]
          BY <1>1 DEF IInv, TypeOK
        <5>3. kind'[p] = k
          BY <5>1, <5>2
        <5>4. QED
          BY <2>2, <5>3
      <4>2. CASE ~Build(p) /\ ~BeginLoad(p) /\ ~List(p)
        BY <3>1, <3>2, <4>2 DEF ProcStep, SaveValidate, ReadKey, MakeKey,
           WritePlan, ReadPlan, CheckPlan, Export, NextEntry, FinishLatest, Abort
      <4>3. QED
        BY <4>1, <4>2
    <3>4. QED
      BY <1>1, <3>3 DEF Build, GoTo
  <2>3. QED
    BY <2>1, <2>2
<1>2. IInv /\ NewestInv /\ [Next]_vars =>
        [\A p \in Procs : kind[p] = "latest" /\ result[p] = "none" /\ result'[p] = "ok" =>
           \A i \in seen[p] : /\ plans[i] # Damaged /\ plans[i].id = i
                              /\ plans[i].exp > peak => ~Newer(plans[i], doc[p])]_vars
  BY <1>1
<1>3. QED
  BY <1>2, Invariance, NewestInvariance, PTL DEF Spec, LatestIsNewest
================================================================================

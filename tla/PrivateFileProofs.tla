--------------------------- MODULE PrivateFileProofs ---------------------------
(***************************************************************************)
(* PrivateFile for any number of writers, readers and staging names, any   *)
(* content size and any number of crashes and power losses: its types, its *)
(* safety properties, and that it implements WriteOnceFile.                *)
(***************************************************************************)
EXTENDS PrivateFile, TLAPS

USE PrivateFileAssumption

(* What a writer knows of its own file at each call.                       *)
ContentInv(w) ==
  /\ pc[w] \in {"sync", "close", "link"} => data[w] = Size
  /\ pc[w] \in {"close", "link"} => synced[w]
  /\ synced[w] => /\ data[w] = Size
                  /\ pc[w] \in {"close", "link", "remove", "done", "crashed"}
  /\ final = w => synced[w]

(* What the outcome collected so far says of the published name.           *)
OutcomeInv(w) ==
  /\ final = w => pc[w] \in {"remove", "done", "crashed"}
  /\ pc[w] \in {"remove", "done"} /\ err[w] = "none" => final = w
  /\ pc[w] \in {"remove", "done"} /\ err[w] = "exist" => final \notin {NoFile, w}
  /\ pc[w] = "remove" /\ err[w] = "error" => final # w
  /\ err[w] # "none" => pc[w] \in {"remove", "done", "crashed"}

(* As long as a writer's file has a name, its directory is there, 0700.    *)
PrivateInv == \A s \in StagingNames : staging[s] # NoFile => parent = "private"

(* A staging name belongs to the writer that created it until it is gone.  *)
NameInv(w) ==
  /\ pc[w] \in Staged => staging[name[w]] = w
  /\ \A s \in StagingNames : staging[s] = w =>
       s = name[w] /\ pc[w] \in Staged \cup {"done", "crashed"}
  /\ pc[w] = "create" => parent # "broad"
  /\ pc[w] \notin {"done", "crashed"} => tries[w] < MaxTries

(* A reader has a complete file open.                                      *)
ReaderInv(r) ==
  /\ rpc[r] \in {"stat", "read"} => opened[r] \in Writers /\ synced[opened[r]]
  /\ rpc[r] = "returned" => got[r] = Size

IInv == /\ TypeOK
        /\ \A w \in Writers : ContentInv(w) /\ OutcomeInv(w) /\ NameInv(w)
        /\ \A r \in Readers : ReaderInv(r)
        /\ PrivateInv
        /\ ReportMatchesDirectory

(* Every call of WritePrivateFile preserves the invariant.                 *)
LEMMA WriterStepPreservesInv ==
  ASSUME IInv, NEW w \in Writers, WriterStep(w)
  PROVE  IInv'
<1> USE DEF IInv, TypeOK, Steps, ReaderSteps, ContentInv, OutcomeInv, NameInv, ReaderInv,
            PrivateInv, ReportMatchesDirectory, Staged,
            dirVars, fileVars, writerVars, readerVars, GoTo, Report, Stop, Present
<1>1. CASE Lstat(w)
  BY <1>1 DEF Lstat
<1>2. CASE EnsureParent(w)
  BY <1>2 DEF EnsureParent
<1>3. CASE MakeParent(w)
  BY <1>3 DEF MakeParent
<1>4. CASE RollbackParent(w)
  BY <1>4 DEF RollbackParent, NoEntries
<1>5. CASE SecureParent(w)
  BY <1>5 DEF SecureParent
<1>6. CASE VerifyParent(w)
  BY <1>6 DEF VerifyParent
<1>7. CASE CollideStaging(w)
  BY <1>7 DEF CollideStaging
<1>8. CASE CreateStaging(w)
  BY <1>8 DEF CreateStaging
<1>9. CASE CreateFails(w)
  BY <1>9 DEF CreateFails
<1>10. CASE DiscardStaging(w)
  BY <1>10 DEF DiscardStaging, Unlink
<1>11. CASE Write(w)
  <2>1. TypeOK'
    BY <1>11 DEF Write
  <2>2. ASSUME NEW v \in Writers PROVE ContentInv(v)'
    BY <1>11 DEF Write
  <2>3. ASSUME NEW v \in Writers PROVE OutcomeInv(v)'
    BY <1>11 DEF Write
  <2>4. ASSUME NEW v \in Writers PROVE NameInv(v)'
    BY <1>11 DEF Write
  <2>5. ASSUME NEW r \in Readers PROVE ReaderInv(r)'
    BY <1>11 DEF Write
  <2>6. PrivateInv' /\ ReportMatchesDirectory'
    BY <1>11 DEF Write
  <2>7. QED
    BY <2>1, <2>2, <2>3, <2>4, <2>5, <2>6
<1>12. CASE Sync(w)
  <2>a. synced' \in [Writers -> BOOLEAN]
    <3>1. CASE synced' = [synced EXCEPT ![w] = TRUE]
      BY <3>1, Zenon
    <3>2. CASE UNCHANGED synced
      BY <3>2
    <3>3. QED
      BY <1>12, <3>1, <3>2 DEF Sync
  <2>1. TypeOK'
    BY <1>12, <2>a DEF Sync
  <2>2. ASSUME NEW v \in Writers PROVE ContentInv(v)'
    BY <1>12 DEF Sync
  <2>3. ASSUME NEW v \in Writers PROVE OutcomeInv(v)'
    BY <1>12 DEF Sync
  <2>4. ASSUME NEW v \in Writers PROVE NameInv(v)'
    BY <1>12 DEF Sync
  <2>5. ASSUME NEW r \in Readers PROVE ReaderInv(r)'
    BY <1>12 DEF Sync
  <2>6. PrivateInv' /\ ReportMatchesDirectory'
    BY <1>12 DEF Sync
  <2>7. QED
    BY <2>1, <2>2, <2>3, <2>4, <2>5, <2>6
<1>13. CASE Close(w)
  BY <1>13 DEF Close
<1>14. CASE Link(w)
  <2>1. TypeOK'
    BY <1>14 DEF Link
  <2>2. ASSUME NEW v \in Writers PROVE ContentInv(v)'
    BY <1>14 DEF Link
  <2>3. ASSUME NEW v \in Writers PROVE OutcomeInv(v)'
    BY <1>14 DEF Link
  <2>4. ASSUME NEW v \in Writers PROVE NameInv(v)'
    BY <1>14 DEF Link
  <2>5. ASSUME NEW r \in Readers PROVE ReaderInv(r)'
    BY <1>14 DEF Link
  <2>6. PrivateInv' /\ ReportMatchesDirectory'
    BY <1>14 DEF Link
  <2>7. QED
    BY <2>1, <2>2, <2>3, <2>4, <2>5, <2>6
<1>15. CASE Remove(w)
  BY <1>15 DEF Remove, Unlink
<1>16. QED
  BY <1>1, <1>2, <1>3, <1>4, <1>5, <1>6, <1>7, <1>8, <1>9, <1>10, <1>11, <1>12, <1>13, <1>14, <1>15 DEF WriterStep

LEMMA InitEstablishesInv == Init => IInv
<1>1. (CHOOSE s \in StagingNames : TRUE) \in StagingNames
  OBVIOUS
<1>2. QED
  BY <1>1 DEF Init, IInv, TypeOK, Steps, ReaderSteps, ContentInv, OutcomeInv, NameInv,
              ReaderInv, PrivateInv, ReportMatchesDirectory, Staged

(* Every call of ReadPrivateFile preserves it: what a reader has open was  *)
(* complete and synced before it had a name.                               *)
LEMMA ReaderStepPreservesInv ==
  ASSUME IInv, NEW r \in Readers, ReaderStep(r)
  PROVE  IInv'
<1> USE DEF IInv, TypeOK, Steps, ReaderSteps, ContentInv, OutcomeInv, NameInv, ReaderInv,
            PrivateInv, ReportMatchesDirectory, Staged,
            dirVars, fileVars, writerVars, readerVars
<1>1. CASE OpenFinal(r)
  BY <1>1 DEF OpenFinal
<1>2. CASE StatSize(r)
  BY <1>2 DEF StatSize
<1>3. CASE ReadAll(r)
  BY <1>3 DEF ReadAll
<1>4. QED
  BY <1>1, <1>2, <1>3 DEF ReaderStep

(* A kill leaves every name and every byte where it is.                    *)
LEMMA CrashPreservesInv ==
  ASSUME IInv, NEW w \in Writers, Crash(w)
  PROVE  IInv'
BY DEF IInv, TypeOK, Steps, ReaderSteps, ContentInv, OutcomeInv, NameInv, ReaderInv,
       PrivateInv, ReportMatchesDirectory, Staged, dirVars, fileVars, readerVars, Crash

(* A power loss may forget names and unsynced bytes; every file that may   *)
(* still have its final name was synced.                                   *)
LEMMA PowerLossPreservesInv ==
  ASSUME IInv, PowerLoss
  PROVE  IInv'
<1> USE DEF PowerLoss, IInv, Started
<1>1. PICK kept \in SUBSET StagingNames :
        staging' = [s \in StagingNames |-> IF s \in kept THEN staging[s] ELSE NoFile]
  OBVIOUS
<1>2. /\ data' \in [Writers -> 0..Size]
      /\ \A w \in Writers : synced[w] => data'[w] = data[w]
  OBVIOUS
<1>3. TypeOK'
  BY <1>1, <1>2 DEF TypeOK, Steps, ReaderSteps
<1>4. ASSUME NEW w \in Writers PROVE ContentInv(w)' /\ OutcomeInv(w)'
  BY <1>2 DEF TypeOK, Steps, ContentInv, OutcomeInv
<1>5. ASSUME NEW w \in Writers PROVE NameInv(w)'
  BY <1>1 DEF TypeOK, Steps, NameInv, Staged
<1>6. ASSUME NEW r \in Readers PROVE ReaderInv(r)'
  BY DEF TypeOK, ReaderSteps, ReaderInv
<1>7. PrivateInv' /\ ReportMatchesDirectory'
  BY <1>1 DEF TypeOK, Steps, PrivateInv, ReportMatchesDirectory
<1>8. QED
  BY <1>3, <1>4, <1>5, <1>6, <1>7

(* The invariant holds in every reachable state, whatever the numbers of   *)
(* writers, readers, staging names, crashes and power losses.              *)
THEOREM Invariance == Spec => []IInv
<1>1. Init => IInv
  BY InitEstablishesInv
<1>2. IInv /\ [Next]_vars => IInv'
  <2> SUFFICES ASSUME IInv, [Next]_vars PROVE IInv'
    OBVIOUS
  <2>1. CASE \E w \in Writers : WriterStep(w)
    BY <2>1, WriterStepPreservesInv
  <2>2. CASE \E r \in Readers : ReaderStep(r)
    BY <2>2, ReaderStepPreservesInv
  <2>3. CASE \E w \in Writers : Crash(w)
    BY <2>3, CrashPreservesInv
  <2>4. CASE PowerLoss
    BY <2>4, PowerLossPreservesInv
  <2>5. CASE UNCHANGED vars
    BY <2>5 DEF IInv, TypeOK, ContentInv, OutcomeInv, NameInv, ReaderInv, PrivateInv,
                ReportMatchesDirectory, vars, dirVars, fileVars, writerVars, readerVars
  <2>6. QED
    BY <2>1, <2>2, <2>3, <2>4, <2>5 DEF Next
<1>3. QED
  BY <1>1, <1>2, PTL DEF Spec

(* No reader ever returns a part of a content (ReadPrivateFile after       *)
(* publishPrivateFile), even across power losses.                          *)
THEOREM ReadsAreComplete == Spec => []NoTornRead
<1>1. IInv => NoTornRead
  BY DEF IInv, ReaderInv, NoTornRead
<1>2. QED
  BY <1>1, Invariance, PTL

(* What a call reports about its file is true of the directory: a success  *)
(* has published it and left nothing else, a refusal met another's file.   *)
THEOREM ReportsAreTrue == Spec => []ReportMatchesDirectory
<1>1. IInv => ReportMatchesDirectory
  BY DEF IInv
<1>2. QED
  BY <1>1, Invariance, PTL

(* A writer keeps its staging file, in a private directory, until it       *)
(* removes it itself, whoever secures, verifies or removes the directory   *)
(* meanwhile (EnsurePrivateDirectory, makePrivateDirectory).               *)
THEOREM StagedFilesStay == Spec => []StagedFileIsKept
<1>1. IInv => StagedFileIsKept
  <2> SUFFICES ASSUME IInv, NEW w \in Writers, pc[w] \in Staged
               PROVE  staging[name[w]] = w /\ parent = "private"
    BY DEF StagedFileIsKept
  <2>1. staging[name[w]] = w /\ name[w] \in StagingNames
    BY DEF IInv, TypeOK, NameInv
  <2>2. parent = "private"
    BY <2>1 DEF IInv, PrivateInv
  <2>3. QED
    BY <2>1, <2>2
<1>2. QED
  BY <1>1, Invariance, PTL

(* Every variable keeps its type.                                          *)
THEOREM TypeCorrect == Spec => []TypeOK
<1>1. IInv => TypeOK
  BY DEF IInv
<1>2. QED
  BY <1>1, Invariance, PTL

(* While the machine stays up a published name keeps its file: of all      *)
(* calls only os.Link touches it, and only when it is free.                *)
THEOREM PublishedForGood == Spec => FinalNeverReplaced
<1> DEFINE Kept == losses' = losses /\ final # NoFile => final' = final
<1>1. ASSUME NEW w \in Writers, WriterStep(w) PROVE Kept
  <2>1. CASE Link(w)
    BY <2>1 DEF Link
  <2>2. CASE ~Link(w)
    BY <1>1, <2>2 DEF WriterStep, dirVars, Lstat, EnsureParent, MakeParent, RollbackParent,
       SecureParent, VerifyParent, CollideStaging, CreateStaging, CreateFails,
       DiscardStaging, Write, Sync, Close, Remove
  <2>3. QED
    BY <2>1, <2>2
<1>2. ASSUME NEW r \in Readers, ReaderStep(r) PROVE Kept
  BY <1>2 DEF ReaderStep, OpenFinal, StatSize, ReadAll, dirVars
<1>3. ASSUME NEW w \in Writers, Crash(w) PROVE Kept
  BY <1>3 DEF Crash, dirVars
<1>4. ASSUME PowerLoss, TypeOK PROVE Kept
  BY <1>4 DEF PowerLoss, TypeOK
<1>5. TypeOK /\ [Next]_vars => [Kept]_vars
  BY <1>1, <1>2, <1>3, <1>4 DEF Next
<1>6. IInv => TypeOK
  BY DEF IInv
<1>7. QED
  BY <1>5, <1>6, Invariance, PTL DEF Spec, FinalNeverReplaced

--------------------------------------------------------------------------------
(* How a step changes what an attempt has come to.                         *)
LEMMA OutcomeChanges ==
  ASSUME NEW w \in Writers, NEW o, Outcome(w)' = o,
         \A v \in Writers \ {w} : Outcome(v)' = Outcome(v)
  PROVE  outcome' = [outcome EXCEPT ![w] = o]
BY DEF outcome

LEMMA OutcomeStays ==
  ASSUME \A v \in Writers : Outcome(v)' = Outcome(v)
  PROVE  outcome' = outcome
BY DEF outcome

(* A step of one writer leaves the outcome of every other alone.           *)
LEMMA OthersKeepOutcome ==
  ASSUME IInv, NEW w \in Writers, NEW s, NEW e,
         pc' = [pc EXCEPT ![w] = s], err' = [err EXCEPT ![w] = e] \/ err' = err
  PROVE  \A v \in Writers \ {w} : Outcome(v)' = Outcome(v)
BY DEF IInv, TypeOK, Outcome

(* A call that neither publishes nor ends leaves an attempt waiting.       *)
LEMMA GoOnIsStutter ==
  ASSUME IInv, NEW w \in Writers, NEW s \in Steps \ {"remove", "done", "crashed"},
         pc[w] \notin {"remove", "done", "crashed"}, GoTo(w, s), final' = final
  PROVE  UNCHANGED WOF!vars
<1>1. Outcome(w)' = Outcome(w)
  BY DEF IInv, TypeOK, Steps, GoTo, Outcome
<1>2. UNCHANGED outcome
  BY <1>1, OthersKeepOutcome, OutcomeStays DEF GoTo
<1>3. QED
  BY <1>2 DEF WOF!vars

(* An error met before the publication leads to the removal of the staging *)
(* name or ends the call.                                                  *)
LEMMA ErrorIsFailure ==
  ASSUME IInv, NEW w \in Writers, pc[w] \notin {"remove", "done", "crashed"},
         Stop(w, "error") \/ Report(w, "remove", "error"), final' = final
  PROVE  WOF!Fail(w) \/ UNCHANGED WOF!vars
<1>1. Outcome(w) = "waiting" /\ outcome[w] = "waiting"
  BY DEF IInv, TypeOK, Steps, Outcome, outcome
<1>2. CASE Stop(w, "error")
  <2>1. Outcome(w)' = "failed"
    BY <1>2 DEF IInv, TypeOK, Stop, Report, Outcome
  <2>2. outcome' = [outcome EXCEPT ![w] = "failed"]
    BY <1>2, <2>1, OthersKeepOutcome, OutcomeChanges DEF Stop, Report
  <2>3. QED
    BY <1>1, <2>2 DEF WOF!Fail, WOF!Become
<1>3. CASE Report(w, "remove", "error")
  <2>1. Outcome(w)' = Outcome(w)
    BY <1>1, <1>3 DEF IInv, TypeOK, Report, Outcome
  <2>2. outcome' = outcome
    BY <1>3, <2>1, OthersKeepOutcome, OutcomeStays DEF Report
  <2>3. QED
    BY <2>2 DEF WOF!vars
<1>4. QED
  BY <1>2, <1>3

(* Every step of a writer is a step of the write-once file or a stutter.   *)
LEMMA WriterStepRefines ==
  ASSUME IInv, NEW w \in Writers, WriterStep(w)
  PROVE  WOF!Next \/ UNCHANGED WOF!vars
<1> USE GoOnIsStutter, ErrorIsFailure DEF WOF!Next
<1>1. CASE Lstat(w)
  <2>1. CASE final # NoFile /\ Stop(w, "exist")
    <3>1. Outcome(w)' = "refused" /\ outcome[w] = "waiting" /\ final # w
      BY <1>1, <2>1 DEF Lstat, IInv, TypeOK, OutcomeInv, Stop, Report, Outcome, outcome
    <3>2. outcome' = [outcome EXCEPT ![w] = "refused"]
      BY <2>1, <3>1, OthersKeepOutcome, OutcomeChanges DEF Stop, Report
    <3>3. WOF!Refuse(w)
      BY <1>1, <2>1, <3>1, <3>2 DEF Lstat, dirVars, WOF!Refuse, WOF!Become
    <3>4. QED
      BY <3>3
  <2>2. CASE GoTo(w, "ensure") \/ Stop(w, "error")
    BY <1>1, <2>2 DEF Lstat, dirVars, Steps
  <2>3. QED
    BY <1>1, <2>1, <2>2 DEF Lstat
<1>2. CASE EnsureParent(w)
  BY <1>2 DEF EnsureParent, dirVars, Steps
<1>3. CASE MakeParent(w)
  BY <1>3 DEF MakeParent, Steps
<1>4. CASE RollbackParent(w)
  BY <1>4 DEF RollbackParent, Steps
<1>5. CASE SecureParent(w)
  BY <1>5 DEF SecureParent, Steps
<1>6. CASE VerifyParent(w)
  BY <1>6 DEF VerifyParent, dirVars, Steps
<1>7. CASE CollideStaging(w)
  BY <1>7 DEF CollideStaging, dirVars, Steps
<1>8. CASE CreateStaging(w)
  BY <1>8 DEF CreateStaging, Steps
<1>9. CASE CreateFails(w)
  BY <1>9 DEF CreateFails, dirVars, Steps
<1>10. CASE DiscardStaging(w)
  BY <1>10 DEF DiscardStaging, Steps
<1>11. CASE Write(w)
  BY <1>11 DEF Write, dirVars, Steps
<1>12. CASE Sync(w)
  BY <1>12 DEF Sync, dirVars, Steps
<1>13. CASE Close(w)
  BY <1>13 DEF Close, dirVars, Steps
<1>14. CASE Link(w)
  <2> USE DEF Link
  <2>1. CASE final = NoFile /\ final' = w /\ GoTo(w, "remove")
    <3>1. err[w] = "none" /\ Outcome(w) = "waiting"
      BY <1>14 DEF IInv, TypeOK, OutcomeInv, Outcome
    <3>2. Outcome(w)' = "published" /\ outcome[w] = "waiting"
      BY <2>1, <3>1 DEF IInv, TypeOK, GoTo, Outcome, outcome
    <3>3. outcome' = [outcome EXCEPT ![w] = "published"]
      BY <2>1, <3>2, OthersKeepOutcome, OutcomeChanges DEF GoTo
    <3>4. WOF!Publish(w)
      BY <2>1, <3>2, <3>3 DEF WOF!Publish, WOF!Become
    <3>5. QED
      BY <3>4
  <2>2. CASE Report(w, "remove", "exist") /\ UNCHANGED final
    <3>1. Outcome(w)' = Outcome(w)
      BY <1>14, <2>2 DEF IInv, TypeOK, Report, Outcome
    <3>2. outcome' = outcome
      BY <2>2, <3>1, OthersKeepOutcome, OutcomeStays DEF Report
    <3>3. QED
      BY <2>2, <3>2 DEF WOF!vars
  <2>3. CASE Report(w, "remove", "error") /\ UNCHANGED final
    BY <1>14, <2>3
  <2>4. QED
    BY <1>14, <2>1, <2>2, <2>3
<1>15. CASE Remove(w)
  <2> USE DEF Remove
  <2> HIDE GoOnIsStutter, ErrorIsFailure
  <2>1. UNCHANGED final /\ pc[w] = "remove" /\ pc' = [pc EXCEPT ![w] = "done"]
    BY <1>15 DEF GoTo, Stop, Report
  <2>2. PICK e \in {"none", "exist", "error"} :
          err' = [err EXCEPT ![w] = e] /\ (e = err[w] \/ (err[w] # "exist" /\ e = "error"))
    <3>1. err \in [Writers -> {"none", "exist", "error"}]
      BY DEF IInv, TypeOK
    <3>2. CASE GoTo(w, "done")
      <4>1. err' = [err EXCEPT ![w] = err[w]]
        BY <3>1, <3>2 DEF GoTo
      <4>2. err[w] \in {"none", "exist", "error"}
        BY <3>1
      <4>3. QED
        BY <4>1, <4>2
    <3>3. CASE Stop(w, IF err[w] = "exist" THEN "exist" ELSE "error")
      <4>1. CASE err[w] = "exist"
        BY <3>3, <4>1 DEF Stop, Report
      <4>2. CASE err[w] # "exist"
        BY <3>3, <4>2 DEF Stop, Report
      <4>3. QED
        BY <4>1, <4>2
    <3>4. QED
      BY <1>15, <3>2, <3>3
  <2>3. \A v \in Writers \ {w} : Outcome(v)' = Outcome(v)
    BY <2>1, <2>2, OthersKeepOutcome
  <2>4. Outcome(w)' = CASE e = "none" -> "ok" [] e = "exist" -> "refused" [] e = "error" -> "failed"
    BY <2>1, <2>2 DEF IInv, TypeOK, Outcome
  <2>5. outcome[w] = IF err[w] = "none" THEN "published" ELSE "waiting"
    BY <2>1 DEF IInv, TypeOK, Outcome, outcome
  <2>6. CASE e = "none"
    <3>1. outcome' = [outcome EXCEPT ![w] = "ok"]
      BY <2>3, <2>4, <2>6, OutcomeChanges
    <3>2. WOF!Succeed(w)
      BY <2>1, <2>2, <2>5, <2>6, <3>1 DEF WOF!Succeed, WOF!Become
    <3>3. QED
      BY <3>2
  <2>7. CASE e = "exist"
    <3>1. outcome' = [outcome EXCEPT ![w] = "refused"]
      BY <2>3, <2>4, <2>7, OutcomeChanges
    <3>2. final \notin {NoFile, w}
      BY <2>1, <2>2, <2>7 DEF IInv, OutcomeInv
    <3>3. WOF!Refuse(w)
      BY <2>1, <2>2, <2>5, <2>7, <3>1, <3>2 DEF WOF!Refuse, WOF!Become
    <3>4. QED
      BY <3>3
  <2>8. CASE e = "error"
    <3>1. outcome' = [outcome EXCEPT ![w] = "failed"]
      BY <2>3, <2>4, <2>8, OutcomeChanges
    <3>2. WOF!Fail(w)
      BY <2>1, <2>5, <3>1 DEF WOF!Fail, WOF!Become
    <3>3. QED
      BY <3>2
  <2>9. QED
    BY <2>6, <2>7, <2>8
<1>16. QED
  BY <1>1, <1>2, <1>3, <1>4, <1>5, <1>6, <1>7, <1>8, <1>9, <1>10, <1>11, <1>12, <1>13, <1>14, <1>15 DEF WriterStep

(* A kill before the call has ended crashes the attempt; a power loss      *)
(* crashes every attempt that had begun.                                   *)
LEMMA FailuresRefine ==
  ASSUME IInv, PowerLoss \/ \E w \in Writers : Crash(w)
  PROVE  WOF!Next \/ UNCHANGED WOF!vars
<1>1. ASSUME NEW w \in Writers, Crash(w) PROVE WOF!Crash(w)
  <2>1. Outcome(w)' = "crashed" /\ outcome[w] \in {"waiting", "published"}
    BY <1>1 DEF Crash, IInv, TypeOK, Outcome, outcome
  <2>2. outcome' = [outcome EXCEPT ![w] = "crashed"]
    BY <1>1, <2>1, OthersKeepOutcome, OutcomeChanges DEF Crash
  <2>3. QED
    BY <1>1, <2>1, <2>2 DEF Crash, dirVars, WOF!Crash, WOF!Become
<1>2. ASSUME PowerLoss PROVE WOF!PowerLoss
  <2> DEFINE started == {w \in Writers : Started(w)}
  <2>1. final' \in {final, NoFile} /\ err' = err
    BY <1>2 DEF PowerLoss
  <2>2. \A w \in Writers : Outcome(w)' = IF w \in started THEN "crashed" ELSE Outcome(w)
    BY <1>2 DEF PowerLoss, Started, Outcome, IInv, TypeOK
  <2>3. \A w \in Writers \ started : outcome[w] = "waiting"
    BY DEF Started, Outcome, outcome
  <2>4. outcome' = [w \in Writers |-> IF w \in started THEN "crashed" ELSE outcome[w]]
    BY <2>2 DEF outcome
  <2>5. QED
    BY <2>1, <2>3, <2>4 DEF WOF!PowerLoss
<1>3. QED
  BY <1>1, <1>2 DEF WOF!Next

(* The calls of fssecure, with all their failures, kills and power losses, *)
(* implement the write-once file.                                          *)
THEOREM Refinement == Spec => ImplementsWriteOnceFile
<1>1. Init => WOF!Init
  BY DEF Init, WOF!Init, outcome, Outcome
<1>2. IInv /\ [Next]_vars => [WOF!Next]_(WOF!vars)
  <2> SUFFICES ASSUME IInv, [Next]_vars PROVE WOF!Next \/ UNCHANGED WOF!vars
    OBVIOUS
  <2>1. CASE \E w \in Writers : WriterStep(w)
    BY <2>1, WriterStepRefines
  <2>2. CASE \E r \in Readers : ReaderStep(r)
    <3>1. UNCHANGED <<final, pc, err>>
      BY <2>2 DEF ReaderStep, OpenFinal, StatSize, ReadAll, dirVars, writerVars
    <3>2. QED
      BY <3>1 DEF WOF!vars, outcome, Outcome
  <2>3. CASE PowerLoss \/ \E w \in Writers : Crash(w)
    BY <2>3, FailuresRefine
  <2>4. CASE UNCHANGED vars
    BY <2>4 DEF vars, dirVars, writerVars, WOF!vars, outcome, Outcome
  <2>5. QED
    BY <2>1, <2>2, <2>3, <2>4 DEF Next
<1>3. QED
  BY <1>1, <1>2, Invariance, PTL DEF Spec, ImplementsWriteOnceFile, WOF!Spec
================================================================================

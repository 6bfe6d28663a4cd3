------------------------------- MODULE PlanStore -------------------------------
(***************************************************************************)
(* plan.Store: the integrity key and the saved plans of one state          *)
(* directory, used by several treeclear processes at once.  `plan` builds, *)
(* saves, reloads and exports a plan; `explain` loads one by identifier,   *)
(* by path, or the latest.  Every file is published as WriteOnceFile       *)
(* promises: in one step, or refused because the name is taken.  Between   *)
(* two file operations any other process may run and the clock may move.   *)
(*                                                                         *)
(* A random key is named by the process that drew it.  A plan document is  *)
(* reduced to its identifier, its times, the process that built it and the *)
(* key it is signed with.                                                  *)
(***************************************************************************)
EXTENDS Naturals

CONSTANTS Procs,       \* treeclear processes; also the keys they would draw
          Ids,         \* plan identifiers, ordered as the file names are
          Ttls,        \* configured plan lifetimes
          MaxTime,     \* bound: the clock's range
          NoKey, BadKey,   \* no key file; a malformed or inaccessible one
          NoPlan, Damaged, \* no file; a document that cannot be authenticated
          ClockMayStepBack \* whether the wall clock may be set back

ASSUME PlanStoreAssumption ==
  /\ Ids \subseteq Nat /\ Ids # {} /\ Ttls \subseteq Nat \ {0} /\ MaxTime \in Nat
  /\ NoKey \notin Procs /\ BadKey \notin Procs /\ NoKey # BadKey
  /\ ClockMayStepBack \in BOOLEAN

Docs == [id : Ids, gen : Nat, exp : Nat, by : Procs, key : Procs \cup {NoKey}]

ASSUME DocumentAssumption ==
  /\ NoPlan \notin Docs /\ Damaged \notin Docs /\ NoPlan # Damaged

VARIABLES key,      \* content of integrity.key
          plans,    \* plans/<id>.json
          export,   \* the --output destination
          clock,
          peak,     \* the latest time the clock has shown (history)
          pc, kind, \* process -> next step, and the operation it runs
          target,   \* process -> identifier being saved or loaded
          held,     \* process -> the key it has in hand
          raw,      \* process -> document read, not yet authenticated
          doc,      \* process -> the plan it holds (of Latest: the best so far)
          listing,  \* process -> identifiers Latest has still to load
          seen,     \* process -> identifiers Latest listed (history)
          result    \* process -> how the operation ended

procVars == <<pc, kind, target, held, raw, doc, listing, seen, result>>
vars == <<key, plans, export, clock, peak, procVars>>

Kinds   == {"plan", "load", "path", "latest"}
Steps   == {"idle", "validate", "readKey", "makeKey", "rereadKey", "write", "loadKey",
            "read", "check", "export", "next", "final", "done"}
Results == {"none", "ok", "expired", "integrity", "notfound", "error"}
Files   == Docs \cup {NoPlan, Damaged}

TypeOK == /\ key \in Procs \cup {NoKey, BadKey}
          /\ plans \in [Ids -> Files]
          /\ export \in Files
          /\ clock \in 0..MaxTime /\ peak \in clock..MaxTime
          /\ pc \in [Procs -> Steps]
          /\ kind \in [Procs -> Kinds]
          /\ target \in [Procs -> Ids]
          /\ held \in [Procs -> Procs \cup {NoKey}]
          /\ raw \in [Procs -> Files]
          /\ doc \in [Procs -> Docs \cup {NoPlan}]
          /\ listing \in [Procs -> SUBSET Ids]
          /\ seen \in [Procs -> SUBSET Ids]
          /\ result \in [Procs -> Results]

(* A fresh state directory, or one with a key that cannot be used, or with *)
(* documents that were damaged or brought from another installation.       *)
Init == /\ key \in {NoKey, BadKey}
        /\ plans \in [Ids -> {NoPlan, Damaged}]
        /\ export = NoPlan
        /\ clock = 0 /\ peak = 0
        /\ pc = [p \in Procs |-> "idle"]
        /\ kind = [p \in Procs |-> "plan"]
        /\ target = [p \in Procs |-> CHOOSE i \in Ids : TRUE]
        /\ held = [p \in Procs |-> NoKey]
        /\ raw = [p \in Procs |-> NoPlan]
        /\ doc = [p \in Procs |-> NoPlan]
        /\ listing = [p \in Procs |-> {}]
        /\ seen = [p \in Procs |-> {}]
        /\ result = [p \in Procs |-> "none"]

--------------------------------------------------------------------------------
GoTo(p, s) == pc' = [pc EXCEPT ![p] = s] /\ UNCHANGED result
End(p, r)  == pc' = [pc EXCEPT ![p] = "done"] /\ result' = [result EXCEPT ![p] = r]

(* Mutant: the generation time is not judged.                              *)
ValidityIgnoresGeneration(d) == IF d.exp <= clock THEN "expired" ELSE "valid"

(* validateStoredPlan: the generation time is judged before the expiry.    *)
Validity(d) == CASE d.gen > clock  -> "invalid"
                 [] d.exp <= clock -> "expired"
                 [] OTHER          -> "valid"

(* What a failed validation is reported as.                                *)
Reported(v) == IF v = "expired" THEN "expired" ELSE "error"

(* `plan`: Build stamps the plan with the time at which it began.          *)
Build(p) ==
  /\ pc[p] = "idle"
  /\ \E i \in Ids, t \in Ttls :
       /\ doc' = [doc EXCEPT ![p] =
            [id |-> i, gen |-> clock, exp |-> clock + t, by |-> p, key |-> NoKey]]
       /\ target' = [target EXCEPT ![p] = i]
  /\ kind' = [kind EXCEPT ![p] = "plan"]
  /\ GoTo(p, "validate")
  /\ UNCHANGED <<key, plans, export, clock, peak, held, raw, listing, seen>>

(* `explain --plan`: by identifier, or by the path of an exported copy.    *)
BeginLoad(p) ==
  /\ pc[p] = "idle"
  /\ \/ /\ \E i \in Ids : target' = [target EXCEPT ![p] = i]
        /\ kind' = [kind EXCEPT ![p] = "load"]
     \/ kind' = [kind EXCEPT ![p] = "path"] /\ UNCHANGED target
  /\ GoTo(p, "loadKey")
  /\ UNCHANGED <<key, plans, export, clock, peak, held, raw, doc, listing, seen>>

(* `explain`: Latest lists the plan directory once.                        *)
List(p) ==
  /\ pc[p] = "idle"
  /\ kind' = [kind EXCEPT ![p] = "latest"]
  /\ listing' = [listing EXCEPT ![p] = {i \in Ids : plans[i] # NoPlan}]
  /\ seen' = [seen EXCEPT ![p] = {i \in Ids : plans[i] # NoPlan}]
  /\ GoTo(p, "next")
  /\ UNCHANGED <<key, plans, export, clock, peak, target, held, raw, doc>>

(* Save validates before it touches the state directory.                   *)
SaveValidate(p) ==
  /\ pc[p] = "validate"
  /\ LET v == Validity(doc[p]) IN
       IF v = "valid" THEN GoTo(p, "readKey") ELSE End(p, Reported(v))
  /\ UNCHANGED <<key, plans, export, clock, peak, kind, target, held, raw, doc, listing, seen>>

(* localIntegrityKey: a missing key is created by Save only; any other     *)
(* failure to read it is final, for Save and for Load.                     *)
ReadKey(p) ==
  /\ pc[p] \in {"readKey", "rereadKey", "loadKey"}
  /\ \/ /\ key \in Procs
        /\ held' = [held EXCEPT ![p] = key]
        /\ GoTo(p, IF pc[p] = "loadKey" THEN "read" ELSE "write")
     \/ key = NoKey /\ pc[p] = "readKey" /\ GoTo(p, "makeKey") /\ UNCHANGED held
     \/ key = NoKey /\ pc[p] # "readKey" /\ End(p, "error") /\ UNCHANGED held
     \/ key = BadKey /\ End(p, "error") /\ UNCHANGED held
  /\ UNCHANGED <<key, plans, export, clock, peak, kind, target, raw, doc, listing, seen>>

(* Mutant: the loser of the race to create the key signs with its own key. *)
MakeKeyKeepsOwn(p) ==
  /\ pc[p] = "makeKey"
  /\ key' = IF key = NoKey THEN p ELSE key
  /\ held' = [held EXCEPT ![p] = p]
  /\ GoTo(p, "write")
  /\ UNCHANGED <<plans, export, clock, peak, kind, target, raw, doc, listing, seen>>

(* The key this process drew is published, or another process was first    *)
(* and its key is read instead.                                            *)
MakeKey(p) ==
  /\ pc[p] = "makeKey"
  /\ \/ /\ key = NoKey
        /\ key' = p
        /\ held' = [held EXCEPT ![p] = p]
        /\ GoTo(p, "write")
     \/ /\ key # NoKey
        /\ GoTo(p, "rereadKey")
        /\ UNCHANGED <<key, held>>
  /\ UNCHANGED <<plans, export, clock, peak, kind, target, raw, doc, listing, seen>>

Signed(p) == [doc[p] EXCEPT !.key = held[p]]

(* Save signs the plan and publishes it; then `plan` loads it again.       *)
WritePlan(p) ==
  /\ pc[p] = "write"
  /\ \/ /\ plans[target[p]] = NoPlan
        /\ plans' = [plans EXCEPT ![target[p]] = Signed(p)]
        /\ GoTo(p, "loadKey")
     \/ plans[target[p]] # NoPlan /\ End(p, "error") /\ UNCHANGED plans
  /\ UNCHANGED <<key, export, clock, peak, kind, target, held, raw, doc, listing, seen>>

(* Load reads the bytes; a name that is gone or was never there fails.     *)
ReadPlan(p) ==
  /\ pc[p] = "read"
  /\ LET file == IF kind[p] = "path" THEN export ELSE plans[target[p]] IN
       \/ file = NoPlan /\ End(p, "error") /\ UNCHANGED raw
       \/ file # NoPlan /\ raw' = [raw EXCEPT ![p] = file] /\ GoTo(p, "check")
  /\ UNCHANGED <<key, plans, export, clock, peak, kind, target, held, doc, listing, seen>>

Newer(a, b) == a.gen > b.gen \/ (a.gen = b.gen /\ a.id > b.id)

(* Mutants: the identifier is not compared; the last plan listed is kept.  *)
AuthenticAnyId(p) == raw[p] # Damaged /\ raw[p].key = held[p]
KeptLastListed(p) == raw[p]

(* decodeAuthenticatedPlan, then the requested identifier.                 *)
Authentic(p) == /\ raw[p] # Damaged
                /\ raw[p].key = held[p]
                /\ kind[p] # "path" => raw[p].id = target[p]

(* The plan a process holds after a successful load.                       *)
Kept(p) == IF kind[p] = "latest" /\ doc[p] # NoPlan /\ ~Newer(raw[p], doc[p])
           THEN doc[p] ELSE raw[p]

(* Where a load leads that is a part of a longer operation.                *)
After == [plan |-> "export", latest |-> "next"]

(* The end of Load.  Latest passes over an expired plan and stops at any   *)
(* other failure; `plan` goes on to export the plan it has loaded.         *)
CheckPlan(p) ==
  /\ pc[p] = "check"
  /\ IF ~Authentic(p) THEN End(p, "integrity") /\ UNCHANGED doc
     ELSE IF Validity(raw[p]) # "valid" THEN
       /\ UNCHANGED doc
       /\ IF kind[p] = "latest" /\ Validity(raw[p]) = "expired" THEN GoTo(p, "next")
          ELSE End(p, Reported(Validity(raw[p])))
     ELSE /\ doc' = [doc EXCEPT ![p] = Kept(p)]
          /\ IF kind[p] \in DOMAIN After THEN GoTo(p, After[kind[p]]) ELSE End(p, "ok")
  /\ UNCHANGED <<key, plans, export, clock, peak, kind, target, held, raw, listing, seen>>

(* WritePrivateExport copies the plan to a free destination, if one was    *)
(* asked for.                                                              *)
Export(p) ==
  /\ pc[p] = "export"
  /\ \/ export = NoPlan /\ export' = doc[p] /\ End(p, "ok")
     \/ export # NoPlan /\ End(p, "error") /\ UNCHANGED export
     \/ End(p, "ok") /\ UNCHANGED export
  /\ UNCHANGED <<key, plans, clock, peak, kind, target, held, raw, doc, listing, seen>>

(* Latest loads the listed plans in the order of their names.              *)
NextEntry(p) ==
  /\ pc[p] = "next"
  /\ \/ /\ listing[p] = {}
        /\ GoTo(p, "final")
        /\ UNCHANGED <<target, listing>>
     \/ \E i \in listing[p] :
          /\ \A j \in listing[p] : i <= j
          /\ target' = [target EXCEPT ![p] = i]
          /\ listing' = [listing EXCEPT ![p] = @ \ {i}]
          /\ GoTo(p, "loadKey")
  /\ UNCHANGED <<key, plans, export, clock, peak, kind, held, raw, doc, seen>>

(* Mutant: the plan that was chosen is not validated again.                *)
FinishLatestUnchecked(p) ==
  /\ pc[p] = "final"
  /\ IF doc[p] = NoPlan THEN End(p, "notfound") ELSE End(p, "ok")
  /\ UNCHANGED <<key, plans, export, clock, peak, kind, target, held, raw, doc, listing, seen>>

(* The chosen plan is validated once more, at the time of the answer.      *)
FinishLatest(p) ==
  /\ pc[p] = "final"
  /\ IF doc[p] = NoPlan THEN End(p, "notfound")
     ELSE LET v == Validity(doc[p]) IN End(p, IF v = "valid" THEN "ok" ELSE Reported(v))
  /\ UNCHANGED <<key, plans, export, clock, peak, kind, target, held, raw, doc, listing, seen>>

(* A cancelled context, an I/O error, a failed cleanup after a publication *)
(* or a kill: the process stops wherever it is, with nothing in hand, and  *)
(* undoes nothing.                                                         *)
Abort(p) ==
  /\ pc[p] \notin {"idle", "done"}
  /\ End(p, "error")
  /\ held' = [held EXCEPT ![p] = NoKey]
  /\ raw' = [raw EXCEPT ![p] = NoPlan]
  /\ doc' = [doc EXCEPT ![p] = NoPlan]
  /\ listing' = [listing EXCEPT ![p] = {}]
  /\ seen' = [seen EXCEPT ![p] = {}]
  /\ UNCHANGED <<key, plans, export, clock, peak, kind, target>>

--------------------------------------------------------------------------------
(* The user copies a plan file under another identifier's name.            *)
CopyPlan == \E i, j \in Ids :
  /\ plans[i] # NoPlan /\ plans[j] = NoPlan
  /\ plans' = [plans EXCEPT ![j] = plans[i]]
  /\ UNCHANGED <<key, export, clock, peak, procVars>>

Tick == /\ \/ clock < MaxTime /\ clock' = clock + 1
           \/ ClockMayStepBack /\ clock > 0 /\ clock' = clock - 1
        /\ peak' = IF clock' > peak THEN clock' ELSE peak
        /\ UNCHANGED <<key, plans, export, procVars>>

ProcStep(p) ==
  \/ Build(p) \/ BeginLoad(p) \/ List(p) \/ SaveValidate(p) \/ ReadKey(p) \/ MakeKey(p)
  \/ WritePlan(p) \/ ReadPlan(p) \/ CheckPlan(p) \/ Export(p) \/ NextEntry(p)
  \/ FinishLatest(p) \/ Abort(p)

Next == (\E p \in Procs : ProcStep(p)) \/ CopyPlan \/ Tick

Spec == Init /\ [][Next]_vars

--------------------------------------------------------------------------------
(* A process is told that a document failed verification only if it really *)
(* was damaged or carries another identifier: every process signs and      *)
(* verifies with the one key that was published (localIntegrityKey), so a  *)
(* saved plan is never rejected.                                           *)
IntegrityErrorsAreReal ==
  \A p \in Procs : result[p] = "integrity" =>
    raw[p] = Damaged \/ (kind[p] # "path" /\ raw[p].id # target[p])

(* Whatever an operation answers with was saved under its own identifier   *)
(* and is still there; a load answers with the identifier it was asked     *)
(* for, and `plan` with the plan it built (Load, decodeAuthenticatedPlan). *)
AnswersAreSaved ==
  \A p \in Procs : result[p] = "ok" =>
    /\ plans[doc[p].id] = doc[p]
    /\ kind[p] \in {"plan", "load"} => doc[p].id = target[p]
    /\ kind[p] = "plan" => doc[p].by = p

(* An exported copy is byte for byte a plan that was saved (README: an     *)
(* independent private copy of the exact saved bytes).                     *)
ExportIsSaved == export # NoPlan => plans[export.id] = export

(* An answer to `explain` is generated in the past and unexpired at the    *)
(* moment it is given, however long the loading took (Load, Latest).       *)
ReturnedIsCurrent ==
  [][\A p \in Procs :
       kind'[p] # "plan" /\ result[p] = "none" /\ result'[p] = "ok" =>
         doc'[p].gen <= clock /\ clock < doc'[p].exp]_vars

(* Latest answers with the newest of the listed plans that never expired,  *)
(* and only if every listed document is sound: it skips expired plans, not *)
(* malformed ones.  (A clock that was set back may revive an older one.)   *)
LatestIsNewest ==
  [][\A p \in Procs : kind[p] = "latest" /\ result[p] = "none" /\ result'[p] = "ok" =>
       \A i \in seen[p] : /\ plans[i] # Damaged /\ plans[i].id = i
                          /\ plans[i].exp > peak => ~Newer(plans[i], doc[p])]_vars

(* README.md: "explain selects the newest authenticated, unexpired plan by *)
(* generation time": it does not answer "plan expired" while a listed plan *)
(* is unexpired.                                                           *)
LatestFindsUnexpired ==
  [][\A p \in Procs : pc[p] = "final" /\ result'[p] = "expired" =>
       \A i \in seen[p] : plans[i].exp <= clock]_vars
================================================================================

----------------------------- MODULE Classification -----------------------------
(***************************************************************************)
(* policy.Evaluate while evidence about one worktree arrives: processes,     *)
(* agent sessions, adapters and warnings, one piece at a time and in any     *)
(* order.  Collection can only add to what Evaluate is given, so each piece  *)
(* is judged together with all those before it.                              *)
(***************************************************************************)
EXTENDS Policy

CONSTANTS WorktreeFacts, \* the facts a worktree may have
          Policies,      \* the settings
          ProcessRecords, AgentRecords, AdapterRecords,
          MaxPieces      \* bound: the records that arrive

ASSUME ClassificationAssumption ==
  /\ WorktreeFacts \subseteq SUBSET GitFacts
  /\ Policies \subseteq [valid : BOOLEAN, minimum : Nat]
  /\ ProcessRecords \subseteq [state : ProcessStates, error : BOOLEAN]
  /\ \A a \in AgentRecords : a.grade \in Nat /\ a.state \in AgentStates
  /\ \A d \in AdapterRecords : d.grade \in Nat
  /\ MaxPieces \in Nat

VARIABLES known,    \* the facts of the worktree
          policy, evidence, pieces

evidenceVars == <<known, policy, evidence, pieces>>

EvidenceInit == /\ known \in WorktreeFacts
                /\ policy \in Policies
                /\ evidence = NoEvidence
                /\ pieces = 0

Arrives == /\ pieces < MaxPieces
           /\ pieces' = pieces + 1
           /\ UNCHANGED <<known, policy>>

SeeProcess == Arrives /\ \E p \in ProcessRecords : evidence' = [evidence EXCEPT !.processes = @ \cup {p}]
SeeAgent   == Arrives /\ \E a \in AgentRecords   : evidence' = [evidence EXCEPT !.agents = @ \cup {a}]
SeeAdapter == Arrives /\ \E d \in AdapterRecords : evidence' = [evidence EXCEPT !.adapters = @ \cup {d}]
Warn       == Arrives /\ evidence' = [evidence EXCEPT !.warnings = TRUE]

EvidenceNext == SeeProcess \/ SeeAgent \/ SeeAdapter \/ Warn

EvidenceSpec == EvidenceInit /\ [][EvidenceNext]_evidenceVars

Class == Evaluate(known, evidence, policy)

--------------------------------------------------------------------------------
(* Another piece of evidence never brings a worktree nearer to removal: no   *)
(* record can excuse another.                                               *)
EvidenceOnlyProtects == [][Rank(Class') <= Rank(Class)]_evidenceVars

(* The reasons of docs/architecture/2026-09-12-treeclear.md (Classification  *)
(* model), in no order and without Evaluate's own tests.  Three entries of   *)
(* its lists are no input of Evaluate and have no counterpart: the snapshot  *)
(* preflight (Protected), the requirements of the snapshot (Safe), since     *)
(* this version's plans require none, and orphaned directories (Review).     *)
(* An expired or incompatible adapter is one that is not healthy.            *)
Sessions == {a \in evidence.agents : a.state # "not_applicable"}
Required == {d \in evidence.adapters : d.applicable}

Understood ==
  /\ ~evidence.warnings
  /\ \A p \in evidence.processes : ~p.error /\ p.state # "unknown"
  /\ \A a \in Sessions : ~a.warned /\ a.state # "unknown" /\ a.latest # "none"
  /\ \A a, b \in Sessions :
       a.session # NoSession /\ a.session = b.session => <<a.state, a.place>> = <<b.state, b.place>>

InUse == \/ \E p \in evidence.processes : p.state = "active"
         \/ \E a \in Sessions : a.state = "active" \/ (a.latest = "recent" /\ a.state # "unknown")
         \/ "recent" \in known

Untouchable == known \cap {"primary_worktree", "current_worktree", "unsafe_path", "locked",
                           "prunable_registration", "unknown_git_state", "dirty"} # {}

Unhealthy == \E d \in Required : d.error \/ ~d.healthy

(* Evidence of an unsigned adapter is marked untrusted, says the document.   *)
Unsigned == \E d \in Required : ~d.trusted

Proven == /\ known \cap {"detached", "unrecoverable_commits"} = {}
          /\ \A d \in Required : d.offline /\ d.trusted /\ d.grade <= policy.minimum
          /\ \A a \in Sessions : a.grade <= policy.minimum

(* Every list of reasons to protect but one entry.                          *)
Endangered == Untouchable \/ InUse \/ ~Understood \/ Unhealthy \/ ~policy.valid

(* Evaluate gives the documented class, except in one case where code and    *)
(* document disagree: an unsigned required adapter is a documented reason to *)
(* protect, but Evaluate tests trust only after all the reasons to protect   *)
(* (hasInsufficientTrust), so that one alone makes a worktree Review.        *)
DocumentedButUnsigned ==
  IF Unsigned /\ ~Endangered
  THEN Class = "Review"
  ELSE /\ Class = "Protected" <=> Endangered \/ Unsigned
       /\ Class = "Safe"      <=> ~(Endangered \/ Unsigned) /\ Proven
================================================================================

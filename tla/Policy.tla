--------------------------------- MODULE Policy ---------------------------------
(***************************************************************************)
(* policy.Evaluate: what a worktree's Git state and the evidence about the   *)
(* processes and agent sessions around it say of its removal.  Evidence      *)
(* comes in lists whose order and repetitions do not matter, so it is sets.  *)
(* A worktree is the set of the facts Evaluate asks about; a trust grade is  *)
(* its rank, 0 the best.                                                     *)
(***************************************************************************)
EXTENDS Naturals, FiniteSets

(* Facts of a worktree, by the rung of Evaluate that asks for them, and one  *)
(* (unproven) that only plan.Build looks at: a hash or an identity is        *)
(* missing, a count is negative, Git reported errors.                        *)
GitFacts == {"primary_worktree", "current_worktree", "unsafe_path", "locked",
             "prunable_registration", "unknown_git_state", "dirty", "recent", "detached",
             "unrecoverable_commits", "unproven"}

QuietStates   == {"idle", "completed", "archived", "inactive"}
ProcessStates == {"active", "inactive", "not_applicable", "unknown"}
AgentStates   == {"active", "not_applicable", "unknown"} \cup QuietStates
Classes       == {"Protected", "Review", "Safe"}

(* How far towards removal a class is.                                      *)
Rank(class) == CASE class = "Protected" -> 0 [] class = "Review" -> 1 [] class = "Safe" -> 2

NoSession == "no session"

(* processes, agents, adapters: sets of records; warnings: whether Build     *)
(* attached any.                                                             *)
NoEvidence == [processes |-> {}, agents |-> {}, adapters |-> {}, warnings |-> FALSE]

(* an agent's latest timestamp is "recent" (inside the inactivity threshold, *)
(* or in the future), "old", or it has none.                                *)
HasActiveProcess(e) == \E p \in e.processes : p.state = "active"

HasActiveAgent(e) ==
  \E a \in e.agents : \/ a.state = "active"
                      \/ a.state \in QuietStates /\ a.latest = "recent"

(* Mutant: one healthy adapter is enough.                                   *)
HasUnhealthyAdapterNone(e) ==
  /\ \E d \in e.adapters : d.applicable
  /\ \A d \in e.adapters : d.applicable => ~d.healthy \/ d.error

HasUnhealthyAdapter(e) == \E d \in e.adapters : d.applicable /\ (~d.healthy \/ d.error)

Relevant(e) == {a \in e.agents : a.state # "not_applicable"}

(* Two records of one session that disagree on its state or its place.      *)
Conflicting(e) ==
  \E a, b \in Relevant(e) : /\ a.session = b.session /\ a.session # NoSession
                            /\ a.state # b.state \/ a.place # b.place

HasUnknownEvidence(e) ==
  \/ e.warnings
  \/ \E p \in e.processes : p.error \/ p.state = "unknown"
  \/ \E a \in Relevant(e) : a.state = "unknown" \/ a.warned \/ a.latest = "none"
  \/ Conflicting(e)

HasNonOfflineAdapter(e) == \E d \in e.adapters : d.applicable /\ ~d.offline

HasInsufficientTrust(e, minimum) ==
  \/ \E d \in e.adapters : d.applicable /\ (~d.trusted \/ d.grade > minimum)
  \/ \E a \in Relevant(e) : a.grade > minimum

(* The switch of Evaluate, one rung per case; the first that holds decides.  *)
(* valid: the clock, the threshold and the minimum grade are usable.        *)
Rung(holds, class) == [holds |-> holds, class |-> class]

(* Mutant: the inactivity threshold is looked at after the detached HEAD.    *)
LadderReviewFirst(facts, e, policy) ==
  << Rung("primary_worktree" \in facts, "Protected"),
     Rung("current_worktree" \in facts, "Protected"),
     Rung("unsafe_path" \in facts, "Protected"),
     Rung("locked" \in facts, "Protected"),
     Rung("prunable_registration" \in facts, "Protected"),
     Rung("unknown_git_state" \in facts, "Protected"),
     Rung("dirty" \in facts, "Protected"),
     Rung(~policy.valid, "Protected"),
     Rung(HasActiveProcess(e), "Protected"),
     Rung(HasActiveAgent(e), "Protected"),
     Rung(HasUnhealthyAdapter(e), "Protected"),
     Rung(HasUnknownEvidence(e), "Protected"),
     Rung("detached" \in facts, "Review"),
     Rung("recent" \in facts, "Protected"),
     Rung("unrecoverable_commits" \in facts, "Review"),
     Rung(HasNonOfflineAdapter(e), "Review"),
     Rung(HasInsufficientTrust(e, policy.minimum), "Review"),
     Rung(TRUE, "Safe") >>

Ladder(facts, e, policy) ==
  << Rung("primary_worktree" \in facts, "Protected"),
     Rung("current_worktree" \in facts, "Protected"),
     Rung("unsafe_path" \in facts, "Protected"),
     Rung("locked" \in facts, "Protected"),
     Rung("prunable_registration" \in facts, "Protected"),
     Rung("unknown_git_state" \in facts, "Protected"),
     Rung("dirty" \in facts, "Protected"),
     Rung(~policy.valid, "Protected"),
     Rung(HasActiveProcess(e), "Protected"),
     Rung(HasActiveAgent(e), "Protected"),
     Rung(HasUnhealthyAdapter(e), "Protected"),
     Rung(HasUnknownEvidence(e), "Protected"),
     Rung("recent" \in facts, "Protected"),
     Rung("detached" \in facts, "Review"),
     Rung("unrecoverable_commits" \in facts, "Review"),
     Rung(HasNonOfflineAdapter(e), "Review"),
     Rung(HasInsufficientTrust(e, policy.minimum), "Review"),
     Rung(TRUE, "Safe") >>

Evaluate(facts, e, policy) ==
  LET rungs == Ladder(facts, e, policy)
      first == CHOOSE i \in 1..18 : rungs[i].holds /\ \A j \in 1..18 : j < i => ~rungs[j].holds
  IN  rungs[first].class
================================================================================

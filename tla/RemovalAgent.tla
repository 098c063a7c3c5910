---------------------------- MODULE RemovalAgent ----------------------------
(***************************************************************************)
(* What the root agent promises about one website removal, as the control  *)
(* plane sees it: a journal with a revision and the finished stages.       *)
(* SiteTeardown implements it (property AgentSpec of that module) and      *)
(* SiteRemoval relies on it.                                               *)
(***************************************************************************)
EXTENDS Naturals

VARIABLE agent   \* the journal: revision, finished stages, completeness

Stage == {"stop_services", "hosting", "shared", "finalize"}

AgentJournal == [rev: Nat, done: SUBSET Stage, complete: BOOLEAN]

AgentInit == agent = [rev |-> 0, done |-> {}, complete |-> FALSE]

\* The stages before this one have their checkpoint.
StageInOrder(st, done) ==
    /\ st = "hosting" => "stop_services" \in done
    /\ st = "shared" => "hosting" \in done
    /\ st = "finalize" => "shared" \in done

\* A request of this revision has begun to work.
Begin(rev) ==
    /\ ~agent.complete /\ agent.rev <= rev
    /\ agent' = [agent EXCEPT !.rev = rev]

\* A stage is finished, or the removal as a whole.
Perform(st, rev) ==
    /\ ~agent.complete /\ agent.rev <= rev
    /\ st \notin agent.done /\ StageInOrder(st, agent.done)
    /\ agent' = [rev |-> rev, done |-> agent.done \cup {st}, complete |-> st = "finalize"]

AgentNext ==
    /\ agent'.rev \in Nat
    /\ Begin(agent'.rev) \/ \E st \in Stage : Perform(st, agent'.rev)

AgentSpec == AgentInit /\ [][AgentNext]_agent
=============================================================================

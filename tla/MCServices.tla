------------------------------ MODULE MCServices ------------------------------
(***************************************************************************)
(* Parts of the system that are checked each on its own, several in one    *)
(* run: the initial state picks one of Parts, and nothing but that part    *)
(* takes steps.                                                            *)
(***************************************************************************)
EXTENDS Negotiation, Artifacts, Approvals, EventFeed, Connections, Migrations, AgentExecution,
        Conversation, TeamPlanning, LongForm, TLC

\* Negotiation: a phase, and two after it that run together.
MCBefore == "A" :> {} @@ "B" :> {"A"} @@ "C" :> {"A"}

\* Artifacts: two phases of one agent, one with an expected file.
MCWriterOf == "c1" :> "writer" @@ "c2" :> "writer"
MCExpected == "c1" :> {} @@ "c2" :> {"book"}

\* Approvals: calls of every mode.
MCMode == "a" :> "ask" @@ "b" :> "ask" @@ "c" :> "deny" @@ "d" :> "allow"

\* Two agent nodes in one batch, which may ask each other.
MCMaxIters == "w1" :> 2 @@ "w2" :> 1
MCMaxAsk == "w1" :> 1 @@ "w2" :> 1

\* The talk: two phases of a batch after a third; one talks once and may be sent
\* back, one talks twice; one pair of statements is nearly the same.
MCMaxRounds == "b" :> 1 @@ "c" :> 2
MCMaxEntries == "b" :> 2 @@ "c" :> 1
MCCharOverlap == "b" :> 90 @@ "c" :> 10
MCWordOverlap == "b" :> 0 @@ "c" :> 80

\* The team: two planners, one of which streams its plan; a template of the
\* domain, the domain's general one and one of another domain; a task that fits
\* the first and a task that fits none.
MCTemplates == <<"x", "g", "z">>
MCTags == "x" :> <<"c">> @@ "g" :> <<"general">> @@ "z" :> <<"d">>
MCRelated == {<<"e", "d">>}
MCTasks == <<"t1", "t2">>
MCTitle == "t1" :> "T" @@ "t2" :> "V"
MCCaps == "t1" :> <<"c">> @@ "t2" :> <<"d", "e", "f">>
MCSimilar == [t \in {"t1", "t2"} |-> "x" :> 30 @@ "g" :> 10 @@ "z" :> 10]
MCVocabulary == <<"c", "d">>
MCGeneric == <<"w", "r">>
MCGenericSkill == "w" :> {"c"} @@ "r" :> {"e"}

\* The work: three chapters and one thread that is due in the first, in a run
\* that keeps the layered memory, after a lead-in or rewritten from the second
\* chapter on.  The writing is alone, in a chain, beside another phase, or one
\* of two phases that name no other.
MCResolveAt == "t" :> 1
Named(i, deps) == UnitPhase(<<i>>, Unset, {<<d>> : d \in deps})
MCPlans ==
  { <<Named("write", {})>>,
    <<Named("design", {}), Named("write", {"design"}), Named("review", {"write"})>>,
    <<Named("write", {}), Named("art", {}), Named("review", {"write", "art"})>>,
    <<Named("write", {}), Named("review", {})>> }
MCIngested == { [unit |-> 3, window |-> <<1, 2>>], [unit |-> 2, window |-> <<>>] }

\* Connections: two coroutines, two connections that break and one set-up that
\* fails.

\* Migrations: 016 (with the table of 015) adds one column at its end, 029 adds
\* a column and then an index that is not in schema.sql, and 026 moves the rows
\* of asset_versions (its index, which is in schema.sql, is left out).
St(op, name) == [op |-> op, name |-> name]
MCScript == <<"016", "026", "029">>
MCStatements ==
  "016" :> <<St("ensure", "users"), St("add", "last_login_at")>>
  @@ "026" :> <<St("make", ""), St("copy", ""), St("drop", ""), St("rename", "")>>
  @@ "029" :> <<St("add", "run_id"), St("ensure", "idx_artifacts_run_id")>>
MCBaseline == "users" :> {"users", "last_login_at"} @@ "artifacts" :> {"run_id"}

CONSTANT Parts

VARIABLES
  part,
  stage, plan, layers, refined, request, cache, graph

planVars == <<stage, plan, layers, refined, request, cache, graph>>

\* Plans of up to three tasks out of an answer of four.
Planning == INSTANCE PlanCompiler WITH List <- <<"p1", "p2", "p3", "p4">>, MaxTasks <- 3

Only(p) == part = p /\ UNCHANGED part

Init ==
  /\ part \in Parts
  /\ NegotiationInit /\ ArtifactsInit /\ ApprovalsInit /\ FeedInit
  /\ AgentsInit /\ Planning!Init /\ WritingInit /\ TeamInit /\ ConversationInit
  /\ ConnectionsInit /\ MigrationsInit
  /\ part # "agents" => outputs = {}
  /\ part # "team" => registered = {}
  /\ part # "starts" => tables = {} /\ assets = "none"
  /\ tracked

Next ==
  \/ /\ Only("negotiation") /\ NegotiationNext
     /\ UNCHANGED <<artifactsVars, approvalsVars, feedVars, agentsVars,
                    planVars, writingVars, teamVars, conversationVars, connectionVars, migrationVars>>
  \/ /\ Only("artifacts") /\ ArtifactsNext
     /\ UNCHANGED <<negotiationVars, approvalsVars, feedVars, agentsVars,
                    planVars, writingVars, teamVars, conversationVars, connectionVars, migrationVars>>
  \/ /\ Only("approvals") /\ ApprovalsNext
     /\ UNCHANGED <<negotiationVars, artifactsVars, feedVars, agentsVars,
                    planVars, writingVars, teamVars, conversationVars, connectionVars, migrationVars>>
  \/ /\ Only("feed") /\ FeedNext
     /\ UNCHANGED <<negotiationVars, artifactsVars, approvalsVars, agentsVars,
                    planVars, writingVars, teamVars, conversationVars, connectionVars, migrationVars>>
  \/ /\ Only("agents") /\ AgentsNext
     /\ UNCHANGED <<negotiationVars, artifactsVars, approvalsVars, feedVars,
                    planVars, writingVars, teamVars, conversationVars, connectionVars, migrationVars>>
  \/ /\ Only("planning") /\ Planning!Next
     /\ UNCHANGED <<negotiationVars, artifactsVars, approvalsVars, feedVars,
                    agentsVars, writingVars, teamVars, conversationVars, connectionVars, migrationVars>>
  \/ /\ Only("writing") /\ WritingNext
     /\ UNCHANGED <<negotiationVars, artifactsVars, approvalsVars, feedVars,
                    agentsVars, planVars, teamVars, conversationVars, connectionVars, migrationVars>>
  \/ /\ Only("team") /\ TeamNext
     /\ UNCHANGED <<negotiationVars, artifactsVars, approvalsVars, feedVars,
                    agentsVars, planVars, writingVars, conversationVars, connectionVars, migrationVars>>
  \/ /\ Only("talk") /\ ConversationNext
     /\ UNCHANGED <<negotiationVars, artifactsVars, approvalsVars, feedVars,
                    agentsVars, planVars, writingVars, teamVars, connectionVars, migrationVars>>
  \/ /\ Only("database") /\ ConnectionsNext
     /\ UNCHANGED <<negotiationVars, artifactsVars, approvalsVars, feedVars,
                    agentsVars, planVars, writingVars, teamVars, conversationVars, migrationVars>>
  \/ /\ Only("starts") /\ MigrationsNext
     /\ UNCHANGED <<negotiationVars, artifactsVars, approvalsVars, feedVars,
                    agentsVars, planVars, writingVars, teamVars, conversationVars, connectionVars>>

vars == <<part, negotiationVars, artifactsVars, approvalsVars, feedVars, agentsVars,
          planVars, writingVars, teamVars, conversationVars, connectionVars, migrationVars>>

Spec == Init /\ [][Next]_vars
-------------------------------------------------------------------------------
\* The properties of the part that is an instance; each is explained where it
\* is defined.

\* Every agent of a plan the validator accepts is run.
ValidPlanRuns == Planning!ValidPlanRuns

\* A run without a stored plan keeps the order that was planned.
PlannedOrderKept == Planning!PlannedOrderKept

===============================================================================

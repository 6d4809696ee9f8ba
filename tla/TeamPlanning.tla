------------------------------ MODULE TeamPlanning ------------------------------
(***************************************************************************)
(* Planners that give the tasks of a decomposition to agents, in one       *)
(* process: plan_agent_order and its streaming form, with the tables of    *)
(* agents and of temporary agents, which they share.  An agent of a        *)
(* template has the template's id with a prefix; it is the template here.  *)
(* A planner knows the agents it listed and those it has registered.       *)
(***************************************************************************)
EXTENDS TemplateMatch

CONSTANTS
  Planner,
  Streams,      \* planners of the streaming form
  KnowsDomain,  \* planners whose domain has templates; the others build a team
  Tasks,        \* the tasks in the order of the decomposition
  Title,        \* task -> its title
  Caps,         \* task -> the capabilities it requires, in order
  Vocabulary,   \* the capabilities that the decomposition is given
  Generic,      \* the built-in agents, in order
  GenericSkill  \* built-in agent -> its capabilities

Task == Range(Tasks)

Temporary(p, t) == <<"temporary", p, t>>
TemplateAgent(x) == <<"template", x>>
GenericAgent(g) == <<"generic", g>>

\* The order in which the table lists agents.
Roster == [i \in DOMAIN Generic |-> GenericAgent(Generic[i])]
          \o [i \in DOMAIN Templates |-> TemplateAgent(Templates[i])]

TeamAgent == Range(Roster) \cup {Temporary(p, t) : p \in Planner, t \in Task}

NoAgent == << >>

Skill == [a \in TeamAgent |->
  CASE a[1] = "generic" -> GenericSkill[a[2]]
    [] a[1] = "template" -> Range(Tags[a[2]])
    [] a[1] = "temporary" -> Range(Caps[a[3]])]

VARIABLES
  registered,  \* the agents in the table
  drafts,      \* agent_temporary
  unsaved,     \* its rows that no commit has saved yet
  phase,       \* planner -> "list", "generic", "split", "match", "use", "compose", "fill",
               \* "revise", "done"
  map,         \* agent_map, in the order of its keys
  listed,      \* how many of them were listed
  turn,        \* the next built-in agent, or task
  results,     \* the agents that the matcher found
  order,       \* agent_order
  assigned,    \* task -> assigned_agent
  revised      \* a revision by the model was taken over

teamVars == <<registered, drafts, unsaved, phase, map, listed, turn, results, order,
              assigned, revised>>

TeamInit ==
  /\ \E xs \in SUBSET Template : registered = {TemplateAgent(x) : x \in xs}
  /\ drafts = {} /\ unsaved = {}
  /\ phase = [p \in Planner |-> "list"]
  /\ map = [p \in Planner |-> << >>] /\ listed = [p \in Planner |-> 0]
  /\ turn = [p \in Planner |-> 1] /\ results = [p \in Planner |-> << >>]
  /\ order = [p \in Planner |-> << >>]
  /\ assigned = [p \in Planner |-> [t \in Task |-> NoAgent]]
  /\ revised = [p \in Planner |-> FALSE]

Goto(p, s) == phase' = [phase EXCEPT ![p] = s]

\* Agents of templates of another domain are not listed.
FilterByDomain(p, agents) ==
  SelectSeq(agents, LAMBDA a : p \in KnowsDomain /\ a[1] = "template" => a[2] \in Fits)

Listing(p) == FilterByDomain(p, SelectSeq(Roster, LAMBDA a : a \in registered))

\* ensure_generic_agents: an empty table is filled first.
ListAgents(p) ==
  /\ phase[p] = "list"
  /\ IF registered = {} /\ turn[p] = 1
       THEN Goto(p, "generic") /\ UNCHANGED <<map, listed, turn>>
       ELSE /\ Goto(p, "split")
            /\ map' = [map EXCEPT ![p] = Listing(p)]
            /\ listed' = [listed EXCEPT ![p] = Len(Listing(p))]
            /\ turn' = [turn EXCEPT ![p] = 1]
  /\ UNCHANGED <<registered, drafts, unsaved, results, order, assigned, revised>>

\* register is a plain INSERT and commits; an id that is there makes it fail.
Register(a) ==
  /\ registered' = registered \cup {a}
  /\ unsaved' = {}

RegisterFails == UNCHANGED <<registered, unsaved>>

EnsureGeneric(p) ==
  /\ phase[p] = "generic"
  /\ \/ Register(GenericAgent(Generic[turn[p]]))
     \/ RegisterFails
  /\ turn' = [turn EXCEPT ![p] = @ + 1]
  /\ Goto(p, IF turn[p] = Len(Generic) THEN "list" ELSE "generic")
  /\ UNCHANGED <<drafts, map, listed, results, order, assigned, revised>>

\* What a revision makes of the agents: without one, a task's own id stands in
\* the plan that the model is shown, and the model may answer with other ids.
Revision(p) ==
  \E t \in Task \cup {None} :
    assigned' = [assigned EXCEPT ![p] = [u \in Task |->
      IF u = t THEN <<"unknown">> ELSE IF @[u] = NoAgent THEN <<"task", u>> ELSE @[u]]]

\* The plain form makes new tasks of a revision, without their capabilities.
CapsOf(p, t) == IF revised[p] /\ p \notin Streams THEN << >> ELSE Caps[t]

\* The plan is decomposed; the plain form has it revised before it is matched.
Split(p) ==
  /\ phase[p] = "split"
  /\ \/ UNCHANGED <<assigned, revised>>
     \/ /\ p \notin Streams
        /\ Revision(p)
        /\ revised' = [revised EXCEPT ![p] = TRUE]
  /\ Goto(p, IF p \in KnowsDomain THEN "match" ELSE "compose")
  /\ UNCHANGED <<registered, drafts, unsaved, map, listed, turn, results, order>>
-------------------------------------------------------------------------------
(* The matcher: all tasks, one after the other. *)

\* What the layers can come to, with any answer of the model and with or without
\* the embedding library.
Outcomes == [t \in Task, caps \in {<< >>} \cup Range(Caps) |->
  {Matched(t, caps, installed, pick) : installed \in BOOLEAN, pick \in Template \cup {None}}]

Result(p, a) ==
  /\ results' = [results EXCEPT ![p] = Append(@, a)]
  /\ turn' = [turn EXCEPT ![p] = IF @ = Len(Tasks) THEN 1 ELSE @ + 1]
  /\ Goto(p, IF turn[p] = Len(Tasks) THEN "use" ELSE "match")
  /\ UNCHANGED <<registered, map, listed, order, assigned, revised>>

\* The model writes an agent for the task, which is inserted without a commit;
\* else the domain's general assistant; else nobody.
Match(p) ==
  /\ phase[p] = "match"
  /\ LET t == Tasks[turn[p]]
     IN  \E match \in Outcomes[t, CapsOf(p, t)] :
           \/ /\ ~NeedsFallback(match)
              /\ Result(p, TemplateAgent(match.template))
              /\ UNCHANGED <<drafts, unsaved>>
           \/ /\ NeedsFallback(match)
              /\ Result(p, Temporary(p, t))
              /\ drafts' = drafts \cup {Temporary(p, t)}
              /\ unsaved' = unsaved \cup {Temporary(p, t)}
           \/ /\ NeedsFallback(match)
              /\ Result(p, IF DomainGeneral.template = None THEN NoAgent
                           ELSE TemplateAgent(DomainGeneral.template))
              /\ UNCHANGED <<drafts, unsaved>>

\* The template table cannot be read.
MatchFails(p) ==
  /\ phase[p] = "match" /\ turn[p] = 1
  /\ Goto(p, "compose")
  /\ UNCHANGED <<registered, drafts, unsaved, map, listed, turn, results, order,
                 assigned, revised>>

\* Another task of the process rolls the connection back.
RollBack ==
  /\ unsaved # {}
  /\ drafts' = drafts \ unsaved /\ unsaved' = {}
  /\ UNCHANGED <<registered, phase, map, listed, turn, results, order, assigned, revised>>
-------------------------------------------------------------------------------
(* From results to agents. *)

\* The first task of a title gets an agent that has not been given a task.
Assign(p, title, a) ==
  LET named == SelectSeq(Tasks, LAMBDA t : Title[t] = title)
  IN  IF a = NoAgent \/ a \in Range(order[p]) THEN UNCHANGED <<order, assigned>>
      ELSE /\ order' = [order EXCEPT ![p] = Append(@, a)]
           /\ assigned' = [assigned EXCEPT ![p][Head(named)] = a]

\* An agent the planner does not know is registered, and dropped if it cannot be.
Use(p) ==
  LET title == Title[Tasks[turn[p]]]
      a == results[p][turn[p]]
      here == a # NoAgent /\ a[1] = "template" /\ a \in Range(map[p])
      exists == a # NoAgent /\ (a[1] = "temporary" => a \in drafts)
  IN  /\ phase[p] = "use"
      /\ \/ here /\ Assign(p, title, a) /\ RegisterFails /\ UNCHANGED map
         \/ /\ ~here /\ exists /\ a \notin registered
            /\ Register(a)
            /\ map' = [map EXCEPT ![p] = Append(@, a)]
            /\ Assign(p, title, a)
         \/ ~here /\ RegisterFails /\ Assign(p, title, NoAgent) /\ UNCHANGED map
      /\ turn' = [turn EXCEPT ![p] = @ + 1]
      /\ Goto(p, IF turn[p] = Len(Tasks) THEN "fill" ELSE "use")
      /\ UNCHANGED <<drafts, listed, results, revised>>

\* A team for the capabilities of all tasks, and for each task one of it.
Compose(p) ==
  LET all == FoldLeft(LAMBDA cs, t : cs \o CapsOf(p, t), << >>, Tasks)
      roles == IF all # << >> THEN all ELSE SubSeq(Vocabulary, 1, Smaller(3, Len(Vocabulary)))
      team == FormTeam(map[p], roles, Skill)
      give(st, t) ==
        LET a == PickAgentForSubtask(CapsOf(p, t), team, map[p], Range(st.order), Skill)
        IN  IF a = None \/ a \in Range(st.order) THEN st
            ELSE [order |-> Append(st.order, a), assigned |-> [st.assigned EXCEPT ![t] = a]]
      st == FoldLeft(give, [order |-> order[p], assigned |-> assigned[p]], Tasks)
  IN  /\ phase[p] = "compose"
      /\ order' = [order EXCEPT ![p] = st.order]
      /\ assigned' = [assigned EXCEPT ![p] = st.assigned]
      /\ Goto(p, "fill")
      /\ UNCHANGED <<registered, drafts, unsaved, map, listed, turn, results, revised>>

MutFill(p) ==
  /\ phase[p] = "fill"
  /\ order' = [order EXCEPT ![p] = IF @ = << >> THEN SubSeq(map[p], 1, Smaller(3, listed[p])) ELSE @]
  /\ Goto(p, IF p \in Streams THEN "revise" ELSE "done")
  /\ UNCHANGED <<registered, drafts, unsaved, map, listed, turn, results, assigned, revised>>

\* Tasks that are left over get the agents of the order in turn; when it is
\* empty, the first three that were listed.  (A planner that registered an agent
\* has it in its order.)
Fill(p) ==
  LET three == SubSeq(map[p], 1, Smaller(3, listed[p]))
      team == IF order[p] = << >> THEN three ELSE order[p]
      left == SelectSeq(Tasks, LAMBDA t : assigned[p][t] = NoAgent)
      place(t) == CHOOSE i \in DOMAIN left : left[i] = t
  IN  /\ phase[p] = "fill"
      /\ order' = [order EXCEPT ![p] = team]
      /\ assigned' = [assigned EXCEPT ![p] = [t \in Task |->
           IF team # << >> /\ t \in Range(left)
             THEN team[1 + ((place(t) - 1) % Len(team))] ELSE @[t]]]
      /\ Goto(p, IF p \in Streams THEN "revise" ELSE "done")
      /\ UNCHANGED <<registered, drafts, unsaved, map, listed, turn, results, revised>>

\* The streaming form has its plan revised after the tasks have their agents.
Revise(p) ==
  /\ phase[p] = "revise"
  /\ \/ UNCHANGED <<assigned, revised>>
     \/ /\ Revision(p)
        /\ revised' = [revised EXCEPT ![p] = TRUE]
  /\ Goto(p, "done")
  /\ UNCHANGED <<registered, drafts, unsaved, map, listed, turn, results, order>>

TeamNext ==
  \/ RollBack
  \/ \E p \in Planner : \/ ListAgents(p) \/ EnsureGeneric(p) \/ Split(p) \/ Match(p) \/ MatchFails(p)
                        \/ Use(p) \/ Compose(p) \/ Fill(p) \/ Revise(p)
-------------------------------------------------------------------------------
\* A plan that no revision has touched names, for every task, an agent that is
\* in the table of agents and in the order that the project's agents are set
\* from, whatever templates, registrations and the other planner did, provided
\* there was an agent to begin with.
TasksHaveAgents ==
  \A p \in Planner :
    phase[p] = "done" /\ ~revised[p] /\ map[p] # << >> =>
      \A t \in Task : assigned[p][t] \in registered \cap Range(order[p])

\* (Not so.) The agent that the matcher found for a task does it.
MatchedAgentKept ==
  \A p \in Planner : phase[p] = "done" /\ ~revised[p] /\ results[p] # << >> =>
    \A i \in DOMAIN Tasks :
      results[p][i] \in registered => assigned[p][Tasks[i]] = results[p][i]

\* (Not so.) The same of a plan that was revised.
RevisedHaveAgents ==
  \A p \in Planner : phase[p] = "done" /\ revised[p] /\ map[p] # << >> =>
    \A t \in Task : assigned[p][t] \in registered
================================================================================

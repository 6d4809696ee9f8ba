----------------------------- MODULE TemplateMatch -----------------------------
(***************************************************************************)
(* Which template or agent fits a task: the layers and fallbacks of        *)
(* TemplateMatcher, CapabilityDiscovery and AgentTeamBuilder.  Scores are  *)
(* whole numbers out of 100; what a model answers is an argument.          *)
(***************************************************************************)
EXTENDS Naturals, Sequences, FiniteSets, SequencesExt

CONSTANTS
  Templates,  \* the template table, in its order
  Fits,       \* the templates of the domain that is asked for
  General,    \* the templates of general assistants
  Tags,       \* template -> its capability tags, in order
  Synonym,    \* pairs of a capability and a tag of one meaning
  Related,    \* pairs of a capability and a tag with a word in common
  Similar,    \* task -> template -> semantic score
  None

Template == Range(Templates)

Strong == 80
Acceptable == 60
MatchMin == 40
CrossDomainPenalty == 40
SemanticWeight == 35

Larger(a, b) == IF a >= b THEN a ELSE b
Smaller(a, b) == IF a <= b THEN a ELSE b

-------------------------------------------------------------------------------
(* Layer 1: capability tags. *)

\* A tag that is the capability counts most; else the first tag close to it.
Points(c, x) ==
  LET near == SelectSeq(Tags[x], LAMBDA g : <<c, g>> \in Synonym \cup Related)
  IN  IF c \in Range(Tags[x]) THEN 30
      ELSE IF near = <<>> THEN 0
      ELSE IF <<c, Head(near)>> \in Synonym THEN 20 ELSE 10

Penalised(x, score) ==
  IF x \in Fits THEN score ELSE (score * CrossDomainPenalty) \div 100

\* A task without capabilities is matched in full by every template of the domain.
TagScore(caps, x) ==
  LET points == FoldLeft(LAMBDA sum, c : sum + Points(c, x), 0, caps)
      bonus == IF x \in Fits THEN 25 ELSE 0
      full == 30 * Len(caps) + 25
  IN  Penalised(x, Smaller(((points + bonus) * 100) \div full, 100))

\* Specialists close to the best are put before general assistants.
Lifted(found, score) ==
  LET best == CHOOSE s \in {score[x] : x \in found} : \A x \in found : score[x] <= s
  IN  [x \in found |->
         IF Cardinality(found) >= 2 /\ best < score[x] + 10 /\ x \notin General
           THEN score[x] + 12 ELSE score[x]]

\* The first of those with the best score; both sorts are stable.
Best(found, score) ==
  LET lifted == Lifted(found, score)
      rank(x) == CHOOSE i \in DOMAIN Templates : Templates[i] = x
      before(x, y) == \/ lifted[x] > lifted[y]
                      \/ /\ lifted[x] = lifted[y]
                         /\ \/ score[x] > score[y]
                            \/ score[x] = score[y] /\ rank(x) <= rank(y)
      x == CHOOSE x \in found : \A y \in found : before(x, y)
  IN  [template |-> x, score |-> lifted[x]]

Nothing == [template |-> None, score |-> 0]

CapabilityMatch(caps) ==
  LET score == [x \in Template |-> TagScore(caps, x)]
      found == {x \in Template : score[x] > 20}
  IN  IF found = {} THEN Nothing ELSE Best(found, score)

-------------------------------------------------------------------------------
(* Layers 2 and 3, and the fallbacks. *)

SemanticScore(t, x) ==
  IF x \in Fits THEN Smaller(Similar[t][x] + 10, 100) ELSE Penalised(x, Similar[t][x])

\* Without the embedding library the layer is passed over.
SemanticMatch(t, installed, tagged) ==
  LET score == [x \in Template |-> SemanticScore(t, x)]
      found == Best(Template, score)
      both == (tagged.score * (100 - SemanticWeight) + found.score * SemanticWeight) \div 100
      combined == IF tagged.score > 0 THEN Larger(both, found.score) ELSE found.score
  IN  IF installed /\ Template # {} /\ combined > tagged.score
        THEN [template |-> found.template, score |-> combined]
        ELSE tagged

\* The registry has the last word on the id that the model answers: any
\* template, or None when there is no model, no answer, or no such template.
LlmSelect(match, pick) ==
  IF match.score < Acceptable /\ pick # None
    THEN [template |-> pick, score |-> Larger(match.score, 50)]
    ELSE match

\* The match before the fallbacks.
Matched(t, caps, installed, pick) ==
  LET tagged == CapabilityMatch(caps)
      found == IF tagged.score >= Strong THEN tagged
               ELSE SemanticMatch(t, installed, tagged)
  IN  IF found.score >= Strong THEN found ELSE LlmSelect(found, pick)

NeedsFallback(match) == match.score < MatchMin \/ match.template = None

\* The domain's general assistant, if the table has one.
DomainGeneral ==
  LET found == SelectSeq(Templates, LAMBDA x : x \in Fits \cap General)
  IN  IF found = <<>> THEN Nothing ELSE [template |-> Head(found), score |-> 30]

-------------------------------------------------------------------------------
(* Agents by capability.  skill is a function from agents to capabilities. *)

\* The agents of a list that have one of the capabilities.
Able(agents, caps, skill) == SelectSeq(agents, LAMBDA a : caps \cap skill[a] # {})

\* Every capability is a role, which goes to its best bidder that has none yet.
FormTeam(agents, roles, skill) ==
  LET give(team, c) ==
        LET free == SelectSeq(Able(agents, {c}, skill),
                              LAMBDA a : \A d \in DOMAIN team : team[d] # a)
        IN  IF free = <<>> \/ c \in DOMAIN team THEN team
            ELSE [d \in DOMAIN team \cup {c} |-> IF d = c THEN Head(free) ELSE team[d]]
      nobody == [c \in {} |-> None]
  IN  FoldLeft(give, nobody, roles)

\* Who gets a task of a team: the holder of one of its roles, another agent
\* with one of its capabilities, any other, or the first.
PickAgentForSubtask(caps, team, agents, used, skill) ==
  LET held == SelectSeq(caps, LAMBDA c : c \in DOMAIN team /\ team[c] \notin used)
      free == SelectSeq(agents, LAMBDA a : a \notin used)
      able == IF caps = <<>> THEN free ELSE Able(free, Range(caps), skill)
  IN  IF held # <<>> THEN team[Head(held)]
      ELSE IF able # <<>> THEN Head(able)
      ELSE IF free # <<>> THEN Head(free)
      ELSE IF agents # <<>> THEN Head(agents) ELSE None
===============================================================================

-------------------------- MODULE InterviewEngine --------------------------
(***************************************************************************)
(* The adaptive interview loop, interview_engine.py: the question plan of  *)
(* a session and the choice of the next turn.  Everything here is a pure   *)
(* operator; InterviewSession drives it.                                   *)
(*                                                                         *)
(* Prompts are abstracted away.  A topic keeps its id, the NUMBER of its   *)
(* expected points and whether it has a probe prompt; an answer is the     *)
(* number of expected points it mentions (its "hits").  A plan is the      *)
(* sequence of topics build_plan returns.                                  *)
(***************************************************************************)
EXTENDS Integers, Sequences, FiniteSets

\* TurnKind.
Question == "question"
Probe    == "probe"
Closing  == "closing"

TurnKinds == {Question, Probe, Closing}

TopicIds ==
  {"required_gap", "strength_probe", "experience_depth", "candidate_questions"}

NoTopic == "none"               \* topic_id of a closing turn

\* Entries of asked_turns: questions and probes.
AskedTurns == [kind : TurnKinds, topic : TopicIds]

Turn(kind, topic) == [kind |-> kind, topic |-> topic]

Topic(id, points, probe) == [id |-> id, points |-> points, probe |-> probe]

MaxProbesPerTopic == 1

-----------------------------------------------------------------------------
(* The plan.                                                               *)

AtMost(n, limit) == IF n <= limit THEN n ELSE limit

When(condition, topic) == IF condition THEN <<topic>> ELSE << >>

\* build_plan, from the number of required skills the resume misses, the
\* number it shows and the years the role asks for.
BuildPlan(missing, verified, minYears) ==
  When(missing > 0, Topic("required_gap", AtMost(missing, 3), TRUE))
    \o When(verified > 0, Topic("strength_probe", AtMost(verified, 2), TRUE))
    \o When(minYears > 0, Topic("experience_depth", 4, TRUE))
    \o <<Topic("candidate_questions", 0, FALSE)>>

Topics == [id : TopicIds, points : Nat, probe : BOOLEAN]

IsPlan(plan) ==
  /\ plan \in Seq(Topics)
  /\ plan # << >>
  /\ \A i, j \in DOMAIN plan : plan[i].id = plan[j].id => i = j

-----------------------------------------------------------------------------
(* The choice of the next turn.                                            *)

\* _coverage against ANSWER_COVERAGE_THRESHOLD = 0.5.
Covered(topic, hits) == topic.points = 0 \/ 2 * hits >= topic.points

\* Where the topic of the last turn stands in the plan ({} : not in it).
IndexOf(plan, id) == {i \in DOMAIN plan : plan[i].id = id}

ProbesOf(asked, id) ==
  Cardinality({k \in DOMAIN asked : asked[k] = Turn(Probe, id)})

\* The turn that opens topic i, or the closing turn when there is none.
Ask(plan, i) ==
  IF i \in DOMAIN plan THEN Turn(Question, plan[i].id)
                       ELSE Turn(Closing, NoTopic)

\* Mutant: a probe that never spends the topic's budget.
ProbesForever(plan, asked, i, hits) ==
  /\ ~ Covered(plan[i], hits)
  /\ plan[i].probe

\* The answer to the last turn is thin and its topic has a probe left.
Probes(plan, asked, i, hits) ==
  /\ asked[Len(asked)].kind # Probe
  /\ ~ Covered(plan[i], hits)
  /\ ProbesOf(asked, plan[i].id) < MaxProbesPerTopic
  /\ plan[i].probe

\* decide: asked is the history of questions and probes, hits the answer
\* just given to its last turn.
Decide(plan, asked, hits) ==
  IF asked = << >>
    THEN Ask(plan, 1)
    ELSE LET at == IndexOf(plan, asked[Len(asked)].topic)
         IN  IF at = {}
               THEN Turn(Closing, NoTopic)
               ELSE LET i == CHOOSE i \in at : \A j \in at : i <= j
                    IN  IF Probes(plan, asked, i, hits)
                          THEN Turn(Probe, plan[i].id)
                          ELSE Ask(plan, i + 1)

\* What an answer may mention of the topic that was asked about last.
AnswersTo(plan, asked) ==
  IF asked = << >>
    THEN {0}
    ELSE UNION {0 .. plan[i].points : i \in IndexOf(plan, asked[Len(asked)].topic)}

-----------------------------------------------------------------------------
(* What the loop promises, stated without decide.                          *)

\* A history the loop may have asked: the topics in the plan's order, each
\* opened by its question and followed by at most one probe.
EngineWalk(plan, asked) ==
  /\ \A k \in DOMAIN asked :
       \/ /\ asked[k].kind = Question
          /\ IndexOf(plan, asked[k].topic) # {}
       \/ /\ asked[k].kind = Probe
          /\ k > 1
          /\ asked[k - 1] = Turn(Question, asked[k].topic)
  /\ \A k \in DOMAIN asked : k > 1 /\ asked[k].kind = Question =>
       \A i \in IndexOf(plan, asked[k].topic) :
         i - 1 \in IndexOf(plan, asked[k - 1].topic)
  /\ asked # << >> => asked[1].topic = plan[1].id

\* No topic is ever skipped: a closed interview asked about every one.
AsksEveryTopic(plan, asked) ==
  \A i \in DOMAIN plan :
    \E k \in DOMAIN asked : asked[k] = Turn(Question, plan[i].id)

=============================================================================

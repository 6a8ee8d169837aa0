------------------------------ MODULE MCLearning ------------------------------
(***************************************************************************)
(* Two runs of one instance and a second instance that takes verdicts;    *)
(* caches of two; three samples, two with one key. Either of the two     *)
(* libraries is on, or none: they do not meet.                             *)
(***************************************************************************)
EXTENDS Learning


CONSTANTS i1, i2, r1, r2

MCInstances == {i1, i2}
MCRuns == {r1, r2}
MCSymptoms == {"oom", "pull"}
MCSymptomOf == [r \in MCRuns |-> IF r = r1 THEN "oom" ELSE "pull"]

\* One question every case is like, and one only its words find.
MCQueries == {[like |-> [r \in MCRuns |-> 1], tags |-> [r \in MCRuns |-> 1], limit |-> 2],
              [like |-> [r \in MCRuns |-> 0], tags |-> [r \in MCRuns |-> 2], limit |-> 2]}

MCHomeOf == [r \in MCRuns |-> i1]

\* Two of three agents can be run.  A question about pods, the same about one
\* pod, one that is about permissions as well, and one about nothing special.
MCTypes == {"diagnostic", "security", "cost"}
MCAgentList == <<"diagnostic", "security", "cost">>
MCAvailable == {"diagnostic", "security"}
MCQuestions == {"pods", "pod", "both", "plain"}
MCMessageOf == [q \in MCQuestions |-> q]

Scores(diagnostic, security, cost) ==
    [t \in MCTypes |-> CASE t = "diagnostic" -> diagnostic
                        [] t = "security" -> security
                        [] OTHER -> cost]
MCScoreOf == [q \in MCQuestions |-> CASE q = "pods" -> Scores(88, 10, 10)
                                    [] q = "pod" -> Scores(96, 10, 76)
                                    [] q = "both" -> Scores(88, 80, 10)
                                    [] OTHER -> Scores(55, 10, 10)]

\* Questions about pods that users gave to the security agent.
MCSamples == {"s1", "s2", "s3"}
MCQuestionOf == [s \in MCSamples |-> IF s = "s3" THEN "pod" ELSE "pods"]
MCSelectedOf == [s \in MCSamples |-> "security"]
MCLikenessOf == [q \in MCQuestions |-> [s \in MCSamples |->
                    IF MCQuestionOf[s] = q THEN 2 ELSE IF q = "plain" THEN 0 ELSE 1]]

\* An agent that cannot be run, one that can with and without confidence.
MCReplies == {[type |-> "cost", confidence |-> 70], [type |-> "assistant", confidence |-> 90],
              [type |-> "security", confidence |-> 70], [type |-> "security", confidence |-> 69]}

\* One library on; a route sample is left from an earlier life.
MCInit == /\ Init
          /\ ~(caseLibrary /\ routeLearning)
          /\ table \in IF routeLearning THEN {{"s3"}} ELSE {{}}
MCSpec == MCInit /\ [][Next]_<<cvars, rvars>>
=============================================================================

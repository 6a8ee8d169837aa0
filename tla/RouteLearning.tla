----------------------------- MODULE RouteLearning -----------------------------
(***************************************************************************)
(* How a question is routed to an agent type or to the assistant           *)
(* (core/service.go:825-955, core/routing.go, .../route/registry.go), and  *)
(* what is learnt from the user's own choice of an agent type              *)
(* (core/route_feedback.go, core/route_calibration.go,                     *)
(* core/management_query.go:221-244), on one instance: a choice made       *)
(* against or with the shadow rule is a sample; the samples are kept in a  *)
(* cache like that of the cases, from which the model's prompt takes its   *)
(* examples; and from the whole cache a small bounded correction of every  *)
(* agent type's confidence is computed and published with an atomic store. *)
(*                                                                         *)
(* The correction is recomputed by whoever changed the cache, a snapshot   *)
(* first and the store later, without a lock around the two: two           *)
(* recomputations may cross.  As in Cases the warm-up replaces the cache   *)
(* some time after it has read the table.                                  *)
(*                                                                         *)
(* Confidences are in hundredths and exact, where the code adds floats.    *)
(***************************************************************************)
EXTENDS VectorCache

CONSTANTS Samples,
          Types,             \* agent types
          AgentList,         \* the types as the registry lists them
          Available,         \* those that can be run
          Questions,         \* messages with the scope they are asked in
          MessageOf,         \* [Questions -> messages], normalised
          ScoreOf,           \* [Questions -> [Types -> 0 .. 100]]: the keyword rule
          LikenessOf,        \* [Questions -> [Samples -> Nat]]: of the embeddings
          QuestionOf,        \* [Samples -> Questions]
          SelectedOf,        \* [Samples -> Available]: the user's choice
          FewShotLimit,      \* RouteFewShotLimit
          Replies,           \* of the model that routes: [type, confidence]
          RouteCacheSize,
          MinSamples,        \* ROUTE_CALIBRATION_MIN_SAMPLES
          MaxLost,           \* bound: statements and embeddings that fail
          MaxJobs,           \* bound: recordings and deletions at a time
          WithRoutes         \* the values AGENT RouteLearning may have

ASSUME RouteConstants ==
    /\ Available \subseteq Types /\ Available # {}
    /\ AgentList \in Seq(Types) /\ Len(AgentList) = Cardinality(Types)
    /\ {AgentList[n] : n \in DOMAIN AgentList} = Types
    /\ ScoreOf \in [Questions -> [Types -> 0 .. 100]]
    /\ LikenessOf \in [Questions -> [Samples -> Nat]] /\ IsFiniteSet(Samples)
    /\ QuestionOf \in [Samples -> Questions] /\ SelectedOf \in [Samples -> Available]
    /\ FewShotLimit \in Nat
    /\ \A m, n \in DOMAIN AgentList :
          m < n /\ AgentList[n] \in Available => AgentList[m] \in Available
    /\ \A reply \in Replies : reply.confidence \in 0 .. 100
    /\ RouteCacheSize \in Nat \ {0} /\ MinSamples \in Nat \ {0}
    /\ MaxLost \in Nat /\ MaxJobs \in Nat
    /\ WithRoutes \subseteq BOOLEAN /\ WithRoutes # {}

VARIABLES
    routeLearning, \* routeLearningEnabled
    said,          \* the samples ever made, newest first (created_at)
    table,         \* the samples with a row in agent_route_feedback
    examples,      \* the feedbackStore
    jobs,          \* jobs[j]: what is under way
    calibration,   \* routeCalibration
    lost,
    \* History, read by no action:
    newest,        \* the job with the latest snapshot, if it is not in force
    crossed,       \* the correction in force is not that of the latest snapshot
    deleted,       \* samples whose deletion was answered
    held           \* samples deleted from the cache while the warm-up held them

rvars == <<routeLearning, said, table, examples, jobs, calibration, lost,
           newest, crossed, deleted, held>>

SampleKey(s) == <<MessageOf[QuestionOf[s]], SelectedOf[s]>>

\* A sample takes the place of the one with the same message and choice.
Examples == NewBoundedCache(RouteCacheSize, [s \in Samples |-> SampleKey(s)])

WarmUp == <<"warm-up", "all">>

Nobody == <<"nobody", "none">>

Record(s) == <<"record", s>>
Delete(s) == <<"delete", s>>

Jobs == {WarmUp} \cup {Record(s) : s \in Samples} \cup {Delete(s) : s \in Samples}

\* seen: what the warm-up has read; delta: a correction computed and not yet
\* in force.
NoJob == [stage |-> "none", seen |-> <<>>, delta |-> <<>>]

RouteStages == {"none", "list", "replace", "persist", "remove",
                "snapshot", "publish"}

------------------------------------------------------------------------------
(* The keyword rule and the correction in force.                           *)

\* An unavailable type is worth a quarter less.
BaseConfidence ==
    [q \in Questions |-> [t \in Types |->
        IF t \in Available THEN ScoreOf[q][t] ELSE Max({0, ScoreOf[q][t] - 25})]]

\* A confidence moves by 3/10 (GAIN) of the difference of the two rates, which
\* is 30 times the difference in hundredths, and stays from 0 to 1.
Corrected(confidence, d) ==
    LET moved == confidence * d.den + 30 * d.num
    IN  [num |-> IF moved < 0 THEN 0 ELSE IF moved > 100 * d.den THEN 100 * d.den ELSE moved,
         den |-> d.den]

AtLeast(c, hundredths) == c.num >= hundredths * c.den
Above(c, d) == c.num * d.den > d.num * c.den

\* The order of candidates: the available ones first, then the more confident
\* ones, and otherwise as they were listed.
Precedes(listed, confidence, m, n) ==
    LET outranks(t, u) ==
            IF t \in Available <=> u \in Available THEN Above(confidence[t], confidence[u])
                                                  ELSE t \in Available
    IN  \/ outranks(listed[m], listed[n])
        \/ ~outranks(listed[n], listed[m]) /\ m < n

Confidences(q, correction) ==
    [t \in Types |-> Corrected(BaseConfidence[q][t], correction[t])]

NoDelta == [num |-> 0, den |-> 1]

Uncalibrated == [t \in Types |-> NoDelta]

\* The rule's ranking of the types the registry lists.
RankCandidatesBase ==
    [q \in Questions |->
        LET before(m, n) == Precedes(AgentList, Confidences(q, Uncalibrated), m, n)
            place(n) == Cardinality({m \in DOMAIN AgentList : before(m, n)}) + 1
        IN  [k \in DOMAIN AgentList |->
                AgentList[CHOOSE n \in DOMAIN AgentList : place(n) = k]]]

\* The first of the ranking when the corrections have been applied to it.
BestCandidate(q, correction) ==
    LET listed == RankCandidatesBase[q]
        confidence == Confidences(q, correction)
    IN  listed[CHOOSE n \in DOMAIN listed :
                   \A m \in DOMAIN listed \ {n} : Precedes(listed, confidence, n, m)]

\* What the rule would have chosen for the question of a sample: the rule
\* alone, or the corrections would feed on themselves.
ShadowOf == [s \in Samples |-> RankCandidatesBase[QuestionOf[s]][1]]

------------------------------------------------------------------------------
(* Routing.  The choice of the user, else that of the model, else that of  *)
(* the rule; the assistant when neither is confident.                      *)

Assistant == "assistant"

\* A user who chooses "none" chooses the assistant, and so does a model.  The
\* model may fail or answer nothing that can be used.
NoReply == [type |-> "none given", confidence |-> 0]

LeastConfidence == 70        \* MIN_AGENT_ROUTE_CONFIDENCE

RouteTo(type, source) == [type |-> type, source |-> source]

KeywordRoute(q, correction) ==
    LET best == BestCandidate(q, correction)
    IN  RouteTo(IF AtLeast(Corrected(BaseConfidence[q][best], correction[best]), LeastConfidence)
                THEN best ELSE Assistant,
                "keyword")

\* With one agent the model is not asked; an agent that cannot be run is as
\* good as no reply.
ModelDecides(reply) ==
    Cardinality(Available) > 1 /\ reply.type \in Available \cup {Assistant}

ModelRoute(reply) ==
    RouteTo(IF reply.type # Assistant /\ reply.confidence < LeastConfidence
            THEN Assistant ELSE reply.type,
            "llm")

AutoRoute(reply, rule) == IF ModelDecides(reply) THEN ModelRoute(reply) ELSE rule

Route(q, selected, reply, correction) ==
    IF selected \in Types \cup {Assistant} THEN RouteTo(selected, "user")
    ELSE AutoRoute(reply, KeywordRoute(q, correction))

\* The examples in the model's prompt: the samples most like the question, or
\* the latest ones when there is no vector of it or none is like it.
SimilarRouteFeedback(q, embedded) ==
    LET snapshot == Snapshot(examples)
        matched == IF embedded
                   THEN TopKByVector(Only(snapshot, [item : Samples, vec : {TRUE}]),
                                     LikenessOf[q], FewShotLimit, 1)
                   ELSE <<>>
    IN  IF matched # <<>> THEN matched
        ELSE SubSeq(snapshot, 1, Min({FewShotLimit, Len(snapshot)}))

------------------------------------------------------------------------------
(* The correction (recomputeRouteCalibration), as a fraction               *)
(* [num, den]: GAIN is 3/10 and MAX_DELTA 3/20, so the difference of the   *)
(* two rates is cut off at 1/2.                                            *)

CountOf(seen, some) == Cardinality({n \in DOMAIN seen : seen[n].item \in some})

Selected(seen, t) == CountOf(seen, {s \in Samples : SelectedOf[s] = t})
ShadowChose(seen, t) == CountOf(seen, {s \in Samples : ShadowOf[s] = t})
Matched(seen, t) == CountOf(seen, {s \in Samples : SelectedOf[s] = t /\ ShadowOf[s] = t})

ClampDelta(d) == IF 2 * d.num > d.den THEN [num |-> 1, den |-> 2]
                 ELSE IF 2 * d.num < -d.den THEN [num |-> -1, den |-> 2]
                 ELSE d

\* The share of the choices of t the rule missed, less the share of the
\* rule's own choices of t the user did not follow; nothing for a type with
\* too few samples.
DeltaFor(seen, t) ==
    LET selected == Selected(seen, t)
        shadow == ShadowChose(seen, t)
        matched == Matched(seen, t)
        missed == [num |-> selected - matched, den |-> Max({selected, 1})]
        wrong == [num |-> shadow - matched, den |-> Max({shadow, 1})]
        difference == [num |-> missed.num * wrong.den - wrong.num * missed.den,
                       den |-> missed.den * wrong.den]
    IN  IF selected + shadow - matched < MinSamples \/ difference.num = 0 THEN NoDelta
        ELSE ClampDelta(difference)

Recompute(seen) ==
    [t \in Types |-> IF routeLearning THEN DeltaFor(seen, t) ELSE NoDelta]

------------------------------------------------------------------------------
RouteTypeOK ==
    /\ routeLearning \in BOOLEAN
    /\ said \in Seq(Samples) /\ table \subseteq Samples
    /\ examples.size \in 0 .. RouteCacheSize /\ examples.head \in 0 .. RouteCacheSize - 1
    /\ \A j \in Jobs : jobs[j].stage \in RouteStages
    /\ calibration \in [Types -> [num : Int, den : Nat]]
    /\ lost \in 0 .. MaxLost
    /\ newest \in Jobs \cup {Nobody} /\ crossed \in BOOLEAN
    /\ deleted \subseteq Samples /\ held \subseteq Samples

\* The table has what earlier lives left in it, made in any order.
RouteInit ==
    /\ routeLearning \in WithRoutes
    /\ \E before \in SUBSET Samples :
          /\ table = before
          /\ said \in {order \in [1 .. Cardinality(before) -> before] :
                        \A s \in before : \E n \in DOMAIN order : order[n] = s}
    /\ examples = Examples
    /\ jobs = [j \in Jobs |-> IF j = WarmUp /\ routeLearning
                              THEN [NoJob EXCEPT !.stage = "list"] ELSE NoJob]
    /\ calibration = Uncalibrated
    /\ lost = 0 /\ newest = Nobody /\ crossed = FALSE /\ deleted = {} /\ held = {}

In(j, stage) == jobs[j].stage = stage

Go(j, stage) == jobs' = [jobs EXCEPT ![j].stage = stage]

\* One more recording or deletion may begin.
HasPlace == Cardinality({j \in Jobs \ {WarmUp} : ~In(j, "none")}) < MaxJobs

\* A statement succeeds, or fails as one of the failures of the bound.
Fails == lost < MaxLost /\ lost' = lost + 1

\* recordRouteFeedback, in the request of the user: the sample is in the
\* cache before the run starts, its vector and its row come later.
RecordRouteFeedback(s) ==
    /\ HasPlace
    /\ routeLearning /\ \A n \in DOMAIN said : said[n] # s
    /\ Route(QuestionOf[s], SelectedOf[s], NoReply, calibration).source = "user"
    /\ said' = <<s>> \o said
    /\ examples' = Add(examples, [item |-> s, vec |-> FALSE])
    /\ Go(Record(s), "persist")
    /\ UNCHANGED <<routeLearning, table, calibration, lost, newest, crossed, deleted, held>>

\* The background half: the vector comes or not (no slot, no answer), and a
\* sample that has left the cache by then stays away; then the row.
PersistRouteFeedback(s) ==
    /\ In(Record(s), "persist")
    /\ \/ /\ examples' = UpdateVector(examples, s)
          /\ \/ table' = table \cup {s} /\ UNCHANGED lost
             \/ Fails /\ UNCHANGED table
       \/ /\ Fails /\ UNCHANGED examples
          /\ table' = table \cup {s}
    /\ Go(Record(s), "snapshot")
    /\ UNCHANGED <<routeLearning, said, calibration, newest, crossed, deleted, held>>

\* The management page deletes a sample it lists: the row, then the cache,
\* then the correction.  A failed DELETE is answered as an error.
DeleteRouteFeedback(s) ==
    /\ HasPlace
    /\ s \in table
    /\ \/ table' = table \ {s} /\ Go(Delete(s), "remove") /\ UNCHANGED lost
       \/ Fails /\ UNCHANGED <<table, jobs>>
    /\ UNCHANGED <<routeLearning, said, examples, calibration, newest, crossed, deleted, held>>

\* A mutant of the next definition: the correction is not computed again.
RemoveQuietly(s) ==
    /\ In(Delete(s), "remove")
    /\ examples' = RemoveMatching(examples, {s})
    /\ held' = IF In(WarmUp, "replace") THEN held \cup {s} ELSE held
    /\ Go(Delete(s), "none")
    /\ deleted' = deleted \cup {s}
    /\ UNCHANGED <<routeLearning, said, table, calibration, lost, newest, crossed>>

RemoveExample(s) ==
    /\ In(Delete(s), "remove")
    /\ examples' = RemoveMatching(examples, {s})
    /\ held' = IF In(WarmUp, "replace") /\ \E n \in DOMAIN jobs[WarmUp].seen :
                                              jobs[WarmUp].seen[n] = s
               THEN held \cup {s} ELSE held
    /\ Go(Delete(s), "snapshot")
    /\ UNCHANGED <<routeLearning, said, table, calibration, lost, newest, crossed, deleted>>

\* loadRouteFeedback.
ListRouteFeedback ==
    /\ In(WarmUp, "list")
    /\ \/ /\ LET recent == Only(said, table)
             IN  jobs' = [jobs EXCEPT ![WarmUp] =
                    [NoJob EXCEPT !.stage = "replace",
                     !.seen = SubSeq(recent, 1, Min({Len(recent), RouteCacheSize}))]]
          /\ UNCHANGED lost
       \/ Fails /\ Go(WarmUp, "none")
    /\ UNCHANGED <<routeLearning, said, table, examples, calibration, newest, crossed,
                   deleted, held>>

Warmed(vec) == Replace(examples, [n \in DOMAIN jobs[WarmUp].seen |->
                                    [item |-> jobs[WarmUp].seen[n], vec |-> vec]])

ReplaceExamples ==
    /\ In(WarmUp, "replace")
    /\ \/ examples' = Warmed(TRUE) /\ UNCHANGED lost
       \/ examples' = Warmed(FALSE) /\ Fails
    /\ jobs' = [jobs EXCEPT ![WarmUp] = [NoJob EXCEPT !.stage = "snapshot"]]
    /\ UNCHANGED <<routeLearning, said, table, calibration, newest, crossed,
                   deleted, held>>

\* recomputeRouteCalibration: the snapshot and what it comes to, and later
\* the store.
SnapshotSamples(j) ==
    /\ In(j, "snapshot")
    /\ jobs' = [jobs EXCEPT ![j] =
                   [NoJob EXCEPT !.stage = "publish",
                                 !.delta = Recompute(Snapshot(examples))]]
    /\ newest' = j
    /\ UNCHANGED <<routeLearning, said, table, examples, calibration, lost, crossed,
                   deleted, held>>

StoreCalibration(j) ==
    /\ In(j, "publish")
    /\ calibration' = jobs[j].delta
    /\ crossed' = (j # newest)
    /\ newest' = IF j = newest THEN Nobody ELSE newest
    /\ jobs' = [jobs EXCEPT ![j] = NoJob]
    /\ deleted' = deleted \cup {s \in Samples : j = Delete(s)}
    /\ UNCHANGED <<routeLearning, said, table, examples, lost, held>>

RouteNext ==
    \/ \E s \in Samples : \/ RecordRouteFeedback(s)
                          \/ PersistRouteFeedback(s)
                          \/ DeleteRouteFeedback(s)
                          \/ RemoveExample(s)
    \/ ListRouteFeedback
    \/ ReplaceExamples
    \/ \E j \in Jobs : SnapshotSamples(j) \/ StoreCalibration(j)

RouteSpec == RouteInit /\ [][RouteNext]_rvars

------------------------------------------------------------------------------
(* Properties.                                                             *)

RoutesQuiet == \A j \in Jobs : In(j, "none")

\* With nothing under way the correction in force is that of the samples in
\* the cache: every change of the cache is followed by a recomputation.
\* Except after two that crossed (route_calibration.go:42-96): then it is
\* that of an older cache until the next sample.
CalibrationFollowsSamples ==
    RoutesQuiet /\ ~crossed => calibration = Recompute(Snapshot(examples))

\* A deleted sample is not an example for the router any more, unless the
\* warm-up held it when it was deleted.
DeletedSampleForgotten ==
    RoutesQuiet => \A n \in 1 .. examples.size :
                      Snapshot(examples)[n].item \notin deleted \ held

\* applyRouteCalibration loads the correction anew for every candidate, so one
\* ranking may mix those that are stored meanwhile.
Corrections ==
    {calibration} \cup {jobs[j].delta : j \in {k \in Jobs : In(k, "publish")}}
Mixed == {[t \in Types |-> from[t][t]] : from \in [Types -> Corrections]}

\* A question is clear when no correction of 15 hundredths a type, either way,
\* can tell another story about it.
Clear == {q \in Questions :
    LET best == RankCandidatesBase[q][1]
        score(t) == BaseConfidence[q][t]
    IN  \/ \A t \in Available : score(t) < LeastConfidence - 15
        \/ /\ score(best) >= LeastConfidence + 15
           /\ \A t \in Available \ {best} : score(best) - score(t) > 30}

RuleAlone == [q \in Questions |-> KeywordRoute(q, Uncalibrated)]

\* route_calibration.go:10-12: whatever was chosen how often, and whichever
\* corrections a ranking mixes, what was learnt only tips questions that the
\* rule leaves open; and what nobody chose by hand can be run (StreamRun would
\* refuse the run), whether the rule decides or the model.
LearningOnlyTips ==
    \A q \in Questions, correction \in Mixed :
        LET rule == KeywordRoute(q, correction)
        IN  /\ q \in Clear => rule = RuleAlone[q]
            /\ rule.type \in Available \cup {Assistant}

ModelRoutesCanRun ==
    \A reply \in Replies :
        ModelDecides(reply) => ModelRoute(reply).type \in Available \cup {Assistant}

\* route_calibration.go:11 says that the bound keeps what is learnt from turning
\* a confidence against the rule.  It does not: of two types within 30 the
\* other one may come first.
RuleNotOverturned ==
    \A q \in Questions :
        BestCandidate(q, calibration) = BestCandidate(q, Uncalibrated)

\* The prompt never shows a question with one choice twice, and nothing that
\* was deleted once its deletion has been answered, but for what the warm-up
\* held (route_feedback.go:170-222).
ExamplesConfirmed ==
    \A q \in Questions, embedded \in BOOLEAN :
        LET shown == SimilarRouteFeedback(q, embedded)
        IN  /\ \A n \in DOMAIN shown : RoutesQuiet => shown[n].item \notin deleted \ held
            /\ \A m, n \in DOMAIN shown :
                  m # n => SampleKey(shown[m].item) # SampleKey(shown[n].item)

\* What routing learns from is what the samples say, deletions included, and
\* it learns no more than it should.
RoutingFollowsSamples ==
    /\ CalibrationFollowsSamples
    /\ DeletedSampleForgotten
    /\ routeLearning => LearningOnlyTips /\ ModelRoutesCanRun /\ ExamplesConfirmed

\* The ring is the list BoundedList speaks of: newest first, one example per
\* question and choice, the oldest out when full, a late vector given to its
\* own example or to none, and nothing but the deleted example leaves in a
\* deletion, wherever in the buffer it is.
List == INSTANCE BoundedList WITH
    Owners <- {"agent"}, Items <- Samples, Capacity <- RouteCacheSize, KeyOf <- SampleKey,
    list <- [o \in {"agent"} |-> Snapshot(examples)],
    loaded <- IF In(WarmUp, "list") \/ In(WarmUp, "replace") THEN {} ELSE {"agent"}

ExamplesAreBoundedList == List!Spec
=============================================================================

-------------------------- MODULE ExperienceTracker -------------------------
(***************************************************************************)
(* day_49/experience_tracker.py: experiences in the order they are logged, *)
(* with feedback added later, and what is learned from them.  Scores are   *)
(* in tenths; texts, contexts, tags and times, which only filter, are left *)
(* out.                                                                    *)
(***************************************************************************)
EXTENDS SequenceParts

CONSTANTS ExperienceIds, Actions, Outcomes,
          GivenScores,  \* scores given by callers, in range or not
          NoScore       \* None: no score, no answer

ASSUME ScoresAssumption == GivenScores \subseteq Int

VARIABLES experiences,  \* _experiences, a function from the ids logged
          logged        \* _timeline: ids in the order they were logged

trackerVars == <<experiences, logged>>

Experiences == [action : Actions, outcome : Outcomes, score : 0..10 \cup {NoScore},
                feedback : BOOLEAN]

TrackerInit == experiences = [id \in {} |-> {}] /\ logged = <<>>

InRange(score) == score # NoScore => score >= 0 /\ score <= 10

Put(id, experience) == experiences' = [i \in DOMAIN experiences \cup {id} |->
                                         IF i = id THEN experience ELSE experiences[i]]

Log(id, action, outcome, score, feedback) ==
  /\ id \notin DOMAIN experiences
  /\ InRange(score)
  /\ Put(id, [action |-> action, outcome |-> outcome, score |-> score, feedback |-> feedback])
  /\ logged' = Append(logged, id)

\* The feedback is set before the score is looked at.
Given(e, score) == [e EXCEPT !.feedback = TRUE,
                             !.score = IF score # NoScore /\ InRange(score) THEN score ELSE @]

AddFeedback(id, score) ==
  /\ id \in DOMAIN experiences
  /\ Put(id, Given(experiences[id], score))
  /\ UNCHANGED logged

TrackerNext ==
  \/ \E id \in ExperienceIds, action \in Actions, outcome \in Outcomes,
        score \in GivenScores \cup {NoScore}, feedback \in BOOLEAN :
       Log(id, action, outcome, score, feedback)
  \/ \E id \in ExperienceIds, score \in GivenScores \cup {NoScore} : AddFeedback(id, score)

TrackerSpec == TrackerInit /\ [][TrackerNext]_trackerVars

-----------------------------------------------------------------------------
(* What is read from them.                                                 *)

Timeline == [i \in 1..Len(logged) |-> experiences[logged[i]]]

ByAction(action) ==
  AtPlaces(Timeline, {i \in 1..Len(logged) : Timeline[i].action = action})

Successes(exps) == Cardinality({i \in 1..Len(exps) : exps[i].outcome = "success"})

\* extract_lesson: the recommendation at 0.8 and 0.5 of the success rate.  It
\* raises when there is no experience of the action.
Lesson(action) ==
  LET exps == ByAction(action)
      good == Successes(exps)
  IN  [total |-> Len(exps), successes |-> good,
       recommendation |-> IF 10 * good >= 8 * Len(exps) THEN "continue"
                          ELSE IF 2 * good >= Len(exps) THEN "review" ELSE "change"]

ScoreTrend(exps) ==
  LET scored == AtPlaces(exps, {i \in 1..Len(exps) : exps[i].score # NoScore})
  IN  [i \in 1..Len(scored) |-> scored[i].score]

TotalScore(scores) ==
  LET sum[n \in 0..Len(scores)] == IF n = 0 THEN 0 ELSE sum[n - 1] + scores[n]
  IN  sum[Len(scores)]

\* Seeded fault: the first window of all, in place of the preceding one.
IsImprovingOnFirst(scores, window) ==
  IF Len(scores) < 2 * window THEN NoScore
  ELSE LET n == Len(scores)
       IN  TotalScore(SubSeq(scores, n - window + 1, n)) > TotalScore(SubSeq(scores, 1, window))

IsImproving(scores, window) ==
  IF Len(scores) < 2 * window THEN NoScore
  ELSE LET n == Len(scores)
       IN  TotalScore(SubSeq(scores, n - window + 1, n))
             > TotalScore(SubSeq(scores, n - 2 * window + 1, n - window))

-----------------------------------------------------------------------------
(* Properties.                                                             *)

\* A score is none or within 0 and 1, whatever callers have tried, and the
\* timeline lists every experience once.
TrackerTypeOK == /\ DOMAIN experiences \subseteq ExperienceIds
                 /\ experiences \in [DOMAIN experiences -> Experiences]
                 /\ logged \in Seq(DOMAIN experiences)
                 /\ \A i, j \in 1..Len(logged) : logged[i] = logged[j] => i = j
                 /\ \A id \in DOMAIN experiences : \E i \in 1..Len(logged) : logged[i] = id

\* The lessons of the actions are about all that happened: every experience
\* counts in one and in no other, those without a score too.  The totals are
\* added as the number of the places they number.
LessonsCoverExperiences ==
  Cardinality(UNION {{a} \X (1..Lesson(a).total) : a \in Actions}) = Len(logged)

\* What score_trend and is_improving are asked about: one action, or all.
Asked == {ByAction(a) : a \in Actions} \cup {Timeline}

\* "Compares the average of the last `window` scores against the average of the
\* preceding `window` scores": older experiences have no part in the answer,
\* and with fewer scores than two windows there is none.
OlderScoresDoNotMatter ==
  \A exps \in Asked : \A window \in 1..Len(ScoreTrend(exps)) :
    LET scores == ScoreTrend(exps)
        n == Len(scores)
    IN  IF n < 2 * window THEN IsImproving(scores, window) = NoScore
        ELSE IsImproving(scores, window)
               = IsImproving(SubSeq(scores, n - 2 * window + 1, n), window)

\* What is learned comes from the experiences it is said to come from: a lesson
\* counts every experience of its action, and an improvement depends on the
\* last two windows of scores and on nothing older.
LearningSound == LessonsCoverExperiences /\ OlderScoresDoNotMatter
=============================================================================

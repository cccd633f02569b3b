---------------------------- MODULE PipelineProofs ----------------------------
(***************************************************************************)
(* Theorems of Pipeline, for any questions, claims, budget, slots, rounds and *)
(* scores: the types, the bound on the budget's overshoot, and what the      *)
(* outcome says of its claims.                                             *)
(***************************************************************************)
EXTENDS Pipeline, FiniteSetTheorems, TLAPS

-----------------------------------------------------------------------------
(* Types.                                                                  *)

(* A round of the debate only goes on in the debate.                        *)
TInv == TypeOK /\ (stage \notin {"debate"} \cup Ended => left = {})

LEMMA InitTInv == Init => TInv
<1> SUFFICES ASSUME Init PROVE TInv
  OBVIOUS
<1>1. /\ job \in [Questions \cup Claims -> {"idle", "todo", "asking", "done"}]
      /\ verdict \in [Claims -> Verdicts]
  BY DEF Init, Verdicts
<1>2. /\ calls \in Nat /\ round \in 0 .. MaxRounds
      /\ support \in [Claims -> 0 .. Top] /\ ledger \in [Claims -> 0 .. 2]
  BY CallsAssumption, ScoreAssumption DEF Init
<1>3. /\ stage \in Stages
      /\ cancelled \in BOOLEAN /\ spent \in BOOLEAN /\ unresolved \in BOOLEAN
      /\ extracted = {} /\ dropped = {} /\ malformed = {} /\ contested = {} /\ left = {}
  BY DEF Init, Stages
<1> QED
  BY <1>1, <1>2, <1>3 DEF TInv, TypeOK

LEMMA CheckpointStage ==
  ASSUME NEW next \in Stages
  PROVE  Checkpoint(next) \in Stages /\ Checkpoint(next) \in {next, "cancelled"}
BY DEF Checkpoint, Stages, Ended

LEMMA GatherType ==
  ASSUME TypeOK, NEW S, Gather(S)
  PROVE  job' \in [Questions \cup Claims -> {"idle", "todo", "asking", "done"}]
BY DEF TypeOK, Gather

LEMMA StepTInv == TInv /\ [Next]_vars => TInv'
<1> SUFFICES ASSUME TInv, [Next]_vars PROVE TInv'
  OBVIOUS
<1> USE CallsAssumption, ScoreAssumption DEF TInv
<1>1. CASE Cancel \/ Spend \/ Fail \/ UNCHANGED vars
  BY <1>1 DEF TypeOK, Cancel, Spend, Fail, vars, budgetVars, claimVars, debateVars, Stages, Ended
<1>2. CASE Plan
  BY <1>2, CheckpointStage DEF TypeOK, Plan, claimVars, debateVars, Stages, Ended
<1>3. CASE Search
  <2>1. stage' \in Stages
    BY <1>3, CheckpointStage DEF Search, Stages
  <2>2. job' \in [Questions \cup Claims -> {"idle", "todo", "asking", "done"}]
    BY <1>3, GatherType DEF Search
  <2>3. left' = {}
    BY <1>3 DEF Search, debateVars, Ended
  <2> QED
    BY <1>3, <2>1, <2>2, <2>3 DEF TypeOK, Search, budgetVars, claimVars, debateVars
<1>4. ASSUME NEW q \in Questions, Ask(q) \/ Extract(q) \/ AskFails(q) PROVE TInv'
  <2>1. job' \in [Questions \cup Claims -> {"idle", "todo", "asking", "done"}]
    BY <1>4 DEF TypeOK, Ask, Extract, AskFails
  <2>2. calls' \in Nat /\ extracted' \subseteq Claims
    BY <1>4 DEF TypeOK, Ask, Extract, AskFails, budgetVars, claimVars
  <2>3. UNCHANGED <<stage, cancelled, spent, verdict, support, ledger, dropped, malformed, debateVars>>
    BY <1>4 DEF Ask, Extract, AskFails, budgetVars, claimVars
  <2> QED
    BY <2>1, <2>2, <2>3 DEF TypeOK, debateVars
<1>5. CASE AnalyzeDone
  <2>1. stage' \in Stages
    BY <1>5, CheckpointStage DEF AnalyzeDone, Stages
  <2>2. job' \in [Questions \cup Claims -> {"idle", "todo", "asking", "done"}]
    BY <1>5, GatherType DEF AnalyzeDone
  <2>3. left' = {} /\ ledger' \in [Claims -> 0 .. 2]
    BY <1>5 DEF AnalyzeDone, debateVars, Ended
  <2> QED
    BY <1>5, <2>1, <2>2, <2>3 DEF TypeOK, AnalyzeDone, budgetVars, debateVars
<1>6. ASSUME NEW c \in Claims, Unjudged(c) \/ Submit(c) \/ Judge(c) \/ Malform(c) PROVE TInv'
  <2>1. job' \in [Questions \cup Claims -> {"idle", "todo", "asking", "done"}]
    BY <1>6 DEF TypeOK, Unjudged, Submit, Judge, Malform, Finish
  <2>2. calls' \in Nat /\ dropped' \subseteq Claims /\ malformed' \subseteq Claims
    BY <1>6 DEF TypeOK, Unjudged, Submit, Judge, Malform, budgetVars, claimVars
  <2>3. verdict' \in [Claims -> Verdicts] /\ support' \in [Claims -> 0 .. Top]
    <3>1. CASE Unjudged(c)
      BY <3>1 DEF TypeOK, Unjudged, Judged, Verdicts
    <3>2. CASE Submit(c)
      BY <3>2 DEF TypeOK, Submit, claimVars
    <3>3. CASE Judge(c)
      <4>1. PICK v \in Verdicts, score \in 0 .. Top : Judged(c, Demoted(v, score), score)
        BY <3>3 DEF Judge
      <4>2. Demoted(v, score) \in Verdicts
        BY DEF Demoted, Verdicts
      <4> QED
        BY <4>1, <4>2 DEF TypeOK, Judged
    <3>4. CASE Malform(c)
      BY <3>4 DEF TypeOK, Malform
    <3> QED
      BY <1>6, <3>1, <3>2, <3>3, <3>4
  <2>4. UNCHANGED <<stage, cancelled, spent, extracted, ledger, debateVars>>
    BY <1>6 DEF Unjudged, Submit, Judge, Malform, budgetVars, claimVars
  <2> QED
    BY <2>1, <2>2, <2>3, <2>4 DEF TypeOK, debateVars
<1>7. CASE VerifyDone
  <2>1. stage' \in Stages
    BY <1>7, CheckpointStage DEF VerifyDone, Stages
  <2>2. left' = {} /\ ledger' \in [Claims -> 0 .. 2] /\ contested' \subseteq Claims
    BY <1>7 DEF VerifyDone, Ended
  <2> QED
    BY <1>7, <2>1, <2>2 DEF TypeOK, VerifyDone, budgetVars
<1>8. CASE NextRound
  <2>a. round \in 0 .. MaxRounds
    BY DEF TypeOK
  <2>b. round' \in 0 .. MaxRounds
    BY <1>8, <2>a DEF NextRound
  <2>1. round' \in 0 .. MaxRounds /\ left' \subseteq contested' /\ unresolved' \in BOOLEAN
    BY <1>8, <2>b DEF NextRound
  <2>2. stage = "debate" /\ UNCHANGED <<stage, cancelled, budgetVars, job, claimVars, contested>>
    BY <1>8 DEF NextRound
  <2> QED
    BY <2>1, <2>2 DEF TypeOK, budgetVars, claimVars
<1>9. ASSUME NEW c \in Claims, Settle(c) \/ Contest(c) PROVE TInv'
  <2>1. calls' \in Nat
    BY <1>9 DEF TypeOK, Settle, Contest
  <2>2. verdict' \in [Claims -> Verdicts] /\ support' \in [Claims -> 0 .. Top]
    <3>1. CASE Settle(c)
      BY <3>1 DEF TypeOK, Settle, claimVars
    <3>2. CASE Contest(c)
      <4>1. CASE UNCHANGED <<verdict, support>>
        BY <4>1 DEF TypeOK
      <4>2. CASE \E score \in Lowered(c), v \in {verdict[c], "uncertain"} : Judged(c, v, score)
        <5>1. PICK score \in Lowered(c), v \in {verdict[c], "uncertain"} : Judged(c, v, score)
          BY <4>2
        <5>2. score \in 0 .. Top /\ v \in Verdicts
          BY <5>1 DEF TypeOK, Lowered, Verdicts
        <5> QED
          BY <5>1, <5>2 DEF TypeOK, Judged
      <4> QED
        BY <3>2, <4>1, <4>2 DEF Contest
    <3> QED
      BY <1>9, <3>1, <3>2
  <2>3. left' \subseteq contested' /\ unresolved' \in BOOLEAN /\ stage' = stage /\ stage = "debate"
    BY <1>9 DEF TypeOK, Settle, Contest
  <2>4. UNCHANGED <<cancelled, spent, job, extracted, ledger, dropped, malformed, contested, round>>
    BY <1>9 DEF Settle, Contest, claimVars
  <2> QED
    BY <2>1, <2>2, <2>3, <2>4 DEF TypeOK
<1>10. CASE CloseDebate
  <2>1. job' \in [Questions \cup Claims -> {"idle", "todo", "asking", "done"}]
    BY <1>10, GatherType DEF CloseDebate
  <2> QED
    BY <1>10, <2>1 DEF TypeOK, CloseDebate, budgetVars, claimVars, debateVars, Stages
<1>11. CASE RescoreDone
  <2>1. stage' \in Stages
    BY <1>11, CheckpointStage DEF RescoreDone, Stages
  <2>2. left' = {} /\ ledger' \in [Claims -> 0 .. 2]
    BY <1>11 DEF RescoreDone, debateVars, Ended, Outcome, Rescored
  <2> QED
    BY <1>11, <2>1, <2>2 DEF TypeOK, RescoreDone, budgetVars, debateVars
<1>12. CASE Synthesize
  BY <1>12 DEF TypeOK, Synthesize, claimVars, debateVars, Stages, Ended
<1> QED
  BY <1>1, <1>2, <1>3, <1>4, <1>5, <1>6, <1>7, <1>8, <1>9, <1>10, <1>11, <1>12 DEF Next, Step

(* Every variable of Pipeline keeps its type, scores included (Orchestrator,  *)
(* VerifierAgent, DebateModerator).                                        *)
THEOREM PipelineTypeCorrect == Spec => []TypeOK
<1>1. Spec => []TInv
  BY InitTInv, StepTInv, PTL DEF Spec
<1> QED
  BY <1>1, PTL DEF TInv

-----------------------------------------------------------------------------
(* The budget.                                                             *)

(* Between its gathers the pipeline has no coroutine to wait for, in them only *)
(* those of the gather, and the verifier's never more than its slots.        *)
Waiting == {j \in DOMAIN job : job[j] \in {"todo", "asking"}}

Gathering ==
  /\ stage = "analyze" => Waiting \subseteq Questions
  /\ stage = "verify" => Waiting \subseteq {c \in Claims : Listed(c)}
  /\ stage = "rescore" => Waiting \subseteq contested
  /\ stage \in {"plan", "search", "debate", "synthesize"} => Waiting = {}
  /\ Verifying => Cardinality(Asking) <= Slots

LEMMA AskingFinite ==
  ASSUME TypeOK
  PROVE  IsFiniteSet(Asking) /\ Cardinality(Asking) \in Nat /\ Asking \subseteq Waiting
<1>1. IsFiniteSet(Questions \cup Claims)
  BY SetsAssumption, FS_Union
<1>2. Asking \subseteq Questions \cup Claims
  BY DEF TypeOK, Asking
<1>3. IsFiniteSet(Asking)
  BY <1>1, <1>2, FS_Subset
<1> QED
  BY <1>3, FS_CardinalityType DEF Asking, Waiting

LEMMA NoneAsking ==
  ASSUME TypeOK, Waiting = {}
  PROVE  Asking = {} /\ Cardinality(Asking) = 0
<1>1. Asking = {}
  BY AskingFinite
<1>2. Cardinality({}) = 0
  BY FS_EmptySet, Zenon
<1> QED
  BY <1>1, <1>2

LEMMA WidthType ==
  Width \in Nat \ {0} /\ Slots <= Width /\ Cardinality(Questions) <= Width
<1>1. Cardinality(Questions) \in Nat
  BY SetsAssumption, FS_CardinalityType
<1> QED
  BY <1>1, CallsAssumption DEF Width

(* What happens to the waiting and asking when one coroutine moves on.         *)
LEMMA MovedOn ==
  ASSUME TypeOK, NEW j \in DOMAIN job, NEW where \in {"asking", "done"},
         job' = [job EXCEPT ![j] = where], job[j] \in {"todo", "asking"}
  PROVE  /\ Waiting' \subseteq Waiting
         /\ where = "asking" => Asking' = Asking \cup {j}
         /\ where = "done" => Asking' = Asking \ {j}
BY DEF TypeOK, Waiting, Asking

LEMMA MovedOnCounts ==
  ASSUME TypeOK, NEW j \in DOMAIN job, NEW where \in {"asking", "done"},
         job' = [job EXCEPT ![j] = where], job[j] \in {"todo", "asking"}
  PROVE  /\ where = "done" => /\ Cardinality(Asking') <= Cardinality(Asking)
                              /\ job[j] = "asking" => Cardinality(Asking') = Cardinality(Asking) - 1
         /\ where = "asking" => Cardinality(Asking') <= Cardinality(Asking) + 1
         /\ Cardinality(Asking') \in Nat
<1>1. IsFiniteSet(Asking) /\ Cardinality(Asking) \in Nat
  BY AskingFinite
<1>2. CASE where = "done"
  <2>1. Asking' = Asking \ {j}
    BY <1>2, MovedOn
  <2>2. Cardinality(Asking \ {j}) = IF j \in Asking THEN Cardinality(Asking) - 1 ELSE Cardinality(Asking)
    BY <1>1, FS_RemoveElement
  <2>3. IsFiniteSet(Asking \ {j}) /\ Cardinality(Asking \ {j}) \in Nat
    BY <1>1, FS_RemoveElement, FS_CardinalityType
  <2>4. job[j] = "asking" => j \in Asking
    BY DEF Asking
  <2> QED
    BY <1>1, <1>2, <2>1, <2>2, <2>3, <2>4
<1>3. CASE where = "asking"
  <2>1. Asking' = Asking \cup {j}
    BY <1>3, MovedOn
  <2>2. Cardinality(Asking \cup {j}) = IF j \in Asking THEN Cardinality(Asking) ELSE Cardinality(Asking) + 1
    BY <1>1, FS_AddElement
  <2> QED
    BY <1>1, <1>3, <2>1, <2>2
<1> QED
  BY <1>2, <1>3

(* A gather that is created has all its coroutines to do.                     *)
LEMMA GatherWaits ==
  ASSUME TypeOK, NEW S, Gather(S)
  PROVE  Waiting' \subseteq S /\ Asking' = {} /\ Cardinality(Asking') = 0
<1>1. Waiting' \subseteq S /\ Asking' = {}
  BY DEF Gather, Waiting, Asking
<1>2. Cardinality({}) = 0
  BY FS_EmptySet, Zenon
<1> QED
  BY <1>1, <1>2

(* A count within the budget is within the bound.                             *)
LEMMA UnderBound ==
  ASSUME NEW a \in Nat, a <= MaxCalls
  PROVE  a + 0 <= MaxCalls + Width - 1
<1>1. MaxCalls \in Nat /\ Width \in Nat \ {0}
  BY CallsAssumption, WidthType
<1>2. ASSUME NEW m \in Nat, NEW w \in Nat \ {0}, a <= m PROVE a + 0 <= m + w - 1
  BY <1>2
<1> QED
  BY <1>1, <1>2

LEMMA InitGathering == Init => Gathering /\ BudgetOvershoot
<1> SUFFICES ASSUME Init PROVE Gathering /\ BudgetOvershoot
  OBVIOUS
<1>1. Waiting = {} /\ Asking = {}
  BY DEF Init, Waiting, Asking
<1>2. Cardinality(Asking) = 0
  BY <1>1, FS_EmptySet, Zenon
<1> QED
  BY <1>1, <1>2, WidthType, CallsAssumption DEF Init, Gathering, Verifying, BudgetOvershoot

LEMMA StepGathering ==
  TInv /\ Gathering /\ BudgetOvershoot /\ [Next]_vars => Gathering' /\ BudgetOvershoot'
<1> SUFFICES ASSUME TInv, Gathering, BudgetOvershoot, [Next]_vars
             PROVE  Gathering' /\ BudgetOvershoot'
  OBVIOUS
<1> USE CallsAssumption
<1>a. TypeOK /\ calls \in Nat /\ DOMAIN job = Questions \cup Claims
  BY DEF TInv, TypeOK
<1>b. IsFiniteSet(Asking) /\ Cardinality(Asking) \in Nat /\ Asking \subseteq Waiting
  BY <1>a, AskingFinite
<1>c. Width \in Nat \ {0} /\ Slots <= Width /\ Cardinality(Questions) <= Width
  BY WidthType
<1>d. calls + Cardinality(Asking) <= MaxCalls + Width - 1
  BY DEF BudgetOvershoot
<1>e. Width' = Width
  BY DEF Width
<1>f. ASSUME job' = job, UNCHANGED <<stage, ledger, contested>> \/ stage' \in Ended,
             calls' = calls \/ (calls' \in Nat /\ calls' <= MaxCalls /\ Waiting = {})
      PROVE  Gathering' /\ BudgetOvershoot'
  <2>1. Waiting' = Waiting /\ Asking' = Asking
    BY <1>f DEF Waiting, Asking
  <2>2. Gathering'
    BY <1>f, <2>1 DEF Gathering, Verifying, Listed, Ended
  <2>3. BudgetOvershoot'
    <3>1. CASE calls' = calls
      BY <1>d, <1>e, <2>1, <3>1 DEF BudgetOvershoot
    <3>2. CASE calls' \in Nat /\ calls' <= MaxCalls /\ Waiting = {}
      <4>1. Cardinality(Asking) = 0
        BY <1>a, <3>2, NoneAsking
      <4>2. Cardinality(Asking') = 0
        BY <2>1, <4>1
      <4>3. calls' \in Nat /\ calls' + 0 <= MaxCalls + Width - 1
        BY <3>2, UnderBound
      <4> QED
        BY <1>e, <4>2, <4>3 DEF BudgetOvershoot
    <3> QED
      BY <1>f, <3>1, <3>2
  <2> QED
    BY <2>2, <2>3
<1>1. CASE Cancel \/ Spend \/ Fail \/ UNCHANGED vars
  BY <1>1, <1>f DEF Cancel, Spend, Fail, vars, budgetVars, claimVars, debateVars, Ended
<1>2. CASE Plan
  <2>1. Waiting = {} /\ calls' \in Nat /\ calls' <= MaxCalls /\ job' = job
    BY <1>2, <1>a DEF Plan, Gathering, Exhausted
  <2>2. stage' \in {"search", "cancelled"}
    BY <1>2, CheckpointStage DEF Plan, Stages
  <2>3. Waiting' = {} /\ Asking' = Asking
    BY <2>1 DEF Waiting, Asking
  <2>4. Cardinality(Asking) = 0
    BY <1>a, <2>1, NoneAsking
  <2>5. Cardinality(Asking') = 0
    BY <2>3, <2>4
  <2>6. Gathering'
    BY <2>2, <2>3 DEF Gathering, Verifying
  <2>7. calls' + 0 <= MaxCalls + Width - 1
    BY <2>1, UnderBound
  <2> QED
    BY <1>e, <2>5, <2>6, <2>7 DEF BudgetOvershoot
<1>g. ASSUME NEW S, Gather(S), calls' = calls, Gathering' PROVE BudgetOvershoot'
  <2>1. Cardinality(Asking') = 0
    BY <1>a, <1>g, GatherWaits
  <2> QED
    BY <1>a, <1>b, <1>d, <1>e, <1>c, <1>g, <2>1 DEF BudgetOvershoot
<1>3. CASE Search
  <2>1. PICK S \in {Questions, {}} : Gather(S)
    BY <1>3 DEF Search
  <2>2. Waiting' \subseteq Questions
    BY <1>a, <2>1, GatherWaits
  <2>3. stage' \in {"analyze", "cancelled"}
    BY <1>3, CheckpointStage DEF Search, Stages
  <2>4. Gathering'
    BY <2>2, <2>3 DEF Gathering, Verifying
  <2> QED
    BY <1>3, <1>g, <2>1, <2>4 DEF Search, budgetVars
<1>4. ASSUME NEW q \in Questions, Ask(q) \/ Extract(q) \/ AskFails(q)
      PROVE  Gathering' /\ BudgetOvershoot'
  <2>1. PICK where \in {"asking", "done"} : job' = [job EXCEPT ![q] = where]
    BY <1>4 DEF Ask, Extract, AskFails
  <2>2. q \in DOMAIN job /\ job[q] \in {"todo", "asking"} /\ stage = "analyze" /\ stage' = stage
    BY <1>4, <1>a DEF Ask, Extract, AskFails
  <2>3. Waiting' \subseteq Waiting
    BY <1>a, <2>1, <2>2, MovedOn
  <2>4. Gathering'
    BY <2>2, <2>3 DEF Gathering, Verifying
  <2>5. CASE Ask(q)
    <3>1. calls' = calls /\ job' = [job EXCEPT ![q] = IF Exhausted THEN "done" ELSE "asking"]
      BY <2>5 DEF Ask, budgetVars
    <3>2. CASE Exhausted
      <4>1. Cardinality(Asking') <= Cardinality(Asking) /\ Cardinality(Asking') \in Nat
        BY <1>a, <2>2, <3>1, <3>2, MovedOnCounts
      <4> QED
        BY <1>a, <1>b, <1>c, <1>d, <1>e, <2>4, <3>1, <4>1 DEF BudgetOvershoot
    <3>3. CASE ~Exhausted
      <4>1. Asking' \subseteq Questions
        BY <1>a, <1>b, <2>2, <3>1, <3>3, MovedOn DEF Gathering
      <4>2. Cardinality(Asking') <= Width
        BY <1>a, <1>c, <2>2, <3>1, <3>3, <4>1, SetsAssumption, FS_Subset, FS_CardinalityType
      <4>3. calls <= MaxCalls - 1
        BY <1>a, <3>3 DEF Exhausted
      <4>4. Cardinality(Asking') \in Nat
        BY <1>a, <2>2, <3>1, <3>3, MovedOnCounts
      <4> QED
        BY <1>a, <1>c, <1>e, <2>4, <3>1, <4>2, <4>3, <4>4 DEF BudgetOvershoot
    <3> QED
      BY <3>2, <3>3
  <2>6. CASE Extract(q) \/ AskFails(q)
    <3>1. /\ job[q] = "asking" /\ job' = [job EXCEPT ![q] = "done"]
          /\ calls' = calls \/ calls' = calls + 1
      BY <2>6 DEF Extract, AskFails, budgetVars
    <3>2. Cardinality(Asking') = Cardinality(Asking) - 1
      BY <1>a, <2>2, <3>1, MovedOnCounts
    <3> QED
      BY <1>a, <1>b, <1>c, <1>d, <1>e, <2>4, <3>1, <3>2 DEF BudgetOvershoot
  <2> QED
    BY <1>4, <2>5, <2>6
<1>5. CASE AnalyzeDone
  <2>1. Gather(extracted) /\ calls' = calls
    BY <1>5 DEF AnalyzeDone, budgetVars
  <2>2. Waiting' \subseteq extracted /\ Cardinality(Asking') = 0
    BY <1>a, <2>1, GatherWaits
  <2>3. stage' \in {"verify", "cancelled"}
    BY <1>5, CheckpointStage DEF AnalyzeDone, Stages
  <2>4. \A c \in extracted : c \in Claims /\ ledger'[c] > 0
    BY <1>5, <1>a DEF AnalyzeDone, TypeOK
  <2>5. Gathering'
    BY <2>2, <2>3, <2>4 DEF Gathering, Verifying, Listed
  <2> QED
    BY <1>g, <2>1, <2>5
<1>6. ASSUME NEW c \in Claims, Unjudged(c) \/ Submit(c) \/ Judge(c) \/ Malform(c)
      PROVE  Gathering' /\ BudgetOvershoot'
  <2>1. PICK where \in {"asking", "done"} : job' = [job EXCEPT ![c] = where]
    BY <1>6 DEF Unjudged, Submit, Judge, Malform, Finish
  <2>2. /\ c \in DOMAIN job /\ job[c] \in {"todo", "asking"} /\ Verifying
        /\ UNCHANGED <<stage, ledger, contested>>
    BY <1>6, <1>a DEF Unjudged, Submit, Judge, Malform, claimVars, debateVars
  <2>3. Waiting' \subseteq Waiting
    BY <1>a, <2>1, <2>2, MovedOn
  <2>4. CASE Submit(c)
    <3>1. calls' = calls /\ job' = [job EXCEPT ![c] = "asking"] /\ ~Exhausted /\ Cardinality(Asking) < Slots
      BY <2>4 DEF Submit, budgetVars
    <3>2. Cardinality(Asking') <= Cardinality(Asking) + 1 /\ Cardinality(Asking') \in Nat
      BY <1>a, <2>2, <3>1, MovedOnCounts
    <3>3. Cardinality(Asking') <= Slots
      BY <1>b, <3>1, <3>2
    <3>4. Gathering'
      BY <2>2, <2>3, <3>3 DEF Gathering, Verifying, Listed
    <3>5. Slots <= Width
      BY <1>c
    <3>6. calls <= MaxCalls - 1
      BY <1>a, <3>1 DEF Exhausted
    <3> QED
      BY <1>a, <1>c, <1>e, <3>1, <3>2, <3>3, <3>4, <3>5, <3>6 DEF BudgetOvershoot
  <2>5. CASE Unjudged(c) \/ Judge(c) \/ Malform(c)
    <3>1. /\ job' = [job EXCEPT ![c] = "done"]
          /\ calls' = calls \/ (calls' = calls + 1 /\ job[c] = "asking")
      BY <2>5 DEF Unjudged, Judge, Malform, Finish, budgetVars
    <3>2. /\ Cardinality(Asking') <= Cardinality(Asking) /\ Cardinality(Asking') \in Nat
          /\ job[c] = "asking" => Cardinality(Asking') = Cardinality(Asking) - 1
      BY <1>a, <2>2, <3>1, MovedOnCounts
    <3>3. Gathering'
      BY <1>b, <2>2, <2>3, <3>2 DEF Gathering, Verifying, Listed
    <3> QED
      BY <1>a, <1>b, <1>c, <1>d, <1>e, <3>1, <3>2, <3>3 DEF BudgetOvershoot
  <2> QED
    BY <1>6, <2>4, <2>5
<1>7. CASE VerifyDone
  <2>1. Waiting = {}
    BY <1>7 DEF VerifyDone, Gathering, Gathered, Waiting
  <2>2. job' = job /\ calls' = calls /\ stage' \in {"debate", "cancelled"}
    BY <1>7, CheckpointStage DEF VerifyDone, budgetVars, Stages
  <2>3. Waiting' = {} /\ Asking' = Asking
    BY <2>1, <2>2 DEF Waiting, Asking
  <2> QED
    BY <1>d, <1>e, <2>2, <2>3 DEF Gathering, Verifying, BudgetOvershoot
<1>8. CASE NextRound
  BY <1>8, <1>f DEF NextRound, budgetVars, claimVars
<1>9. ASSUME NEW c \in Claims, Settle(c) \/ Contest(c)
      PROVE  Gathering' /\ BudgetOvershoot'
  <2>1. Waiting = {} /\ job' = job /\ UNCHANGED <<stage, ledger, contested>>
    BY <1>9 DEF Settle, Contest, Gathering, claimVars
  <2>2. calls' = calls \/ (calls' \in Nat /\ calls' <= MaxCalls)
    BY <1>9, <1>a DEF Settle, Contest, Exhausted
  <2> QED
    BY <1>f, <2>1, <2>2
<1>10. CASE CloseDebate
  <2>1. Gather(contested) /\ calls' = calls /\ stage' = "rescore" /\ contested' = contested
    BY <1>10 DEF CloseDebate, budgetVars, debateVars
  <2>2. Waiting' \subseteq contested /\ Cardinality(Asking') = 0
    BY <1>a, <2>1, GatherWaits
  <2>3. Gathering'
    BY <2>1, <2>2 DEF Gathering, Verifying
  <2> QED
    BY <1>g, <2>1, <2>3
<1>11. CASE RescoreDone
  <2>1. Waiting = {}
    BY <1>11 DEF RescoreDone, Gathering, Gathered, Waiting
  <2>2. job' = job /\ calls' = calls /\ stage' \in {"synthesize", "cancelled"}
    BY <1>11, CheckpointStage DEF RescoreDone, budgetVars, Stages
  <2>3. Waiting' = {} /\ Asking' = Asking
    BY <2>1, <2>2 DEF Waiting, Asking
  <2> QED
    BY <1>d, <1>e, <2>2, <2>3 DEF Gathering, Verifying, BudgetOvershoot
<1>12. CASE Synthesize
  <2>1. Waiting = {} /\ job' = job /\ stage' \in Ended
    BY <1>12 DEF Synthesize, Gathering, Ended
  <2>2. calls' = calls \/ (calls' \in Nat /\ calls' <= MaxCalls)
    BY <1>12, <1>a DEF Synthesize, Exhausted
  <2> QED
    BY <1>f, <2>1, <2>2
<1> QED
  BY <1>1, <1>2, <1>3, <1>4, <1>5, <1>6, <1>7, <1>8, <1>9, <1>10, <1>11, <1>12 DEF Next, Step

LEMMA GatheringInvariant == Spec => [](TInv /\ Gathering /\ BudgetOvershoot)
BY InitTInv, StepTInv, InitGathering, StepGathering, PTL DEF Spec

(* The calls made and in flight exceed the ceiling by less than the width of a  *)
(* gather, for any plan, any slots and any ceiling (Budget, Agent.think).     *)
THEOREM OvershootBounded == Spec => []BudgetOvershoot
BY GatheringInvariant, PTL
-----------------------------------------------------------------------------
(* What the outcome says of its claims.                                      *)

Sound(c) == verdict[c] = "supported" => support[c] >= MinSupport

(* Every readable claim stays on its way to the outcome.                      *)
Tracked ==
  /\ dropped \subseteq malformed
  /\ stage = "verify" => \A c \in extracted : Listed(c)
  /\ stage \in {"debate", "rescore"} =>
       \A c \in extracted \ malformed : c \in contested \/ c \in Refuted
  /\ stage \in {"synthesize", "done"} => ClaimsAccounted

(* A claim judged again is sound, unless its reply could not be read.         *)
Rejudged ==
  /\ stage = "rescore" => \A c \in contested \ dropped : job[c] = "done" => Sound(c)
  /\ stage \in {"synthesize", "done"} => \A c \in Claims : Listed(c) => Sound(c)

LEMMA InitTracked == Init => Tracked /\ Rejudged
BY DEF Init, Tracked, Rejudged

LEMMA StepTracked ==
  TInv /\ Gathering /\ Tracked /\ [Next]_vars => Tracked'
<1> SUFFICES ASSUME TInv, Gathering, Tracked, [Next]_vars PROVE Tracked'
  OBVIOUS
<1>a. TypeOK /\ extracted \subseteq Claims
  BY DEF TInv, TypeOK
<1>b. ASSUME UNCHANGED <<extracted, dropped, malformed, contested, ledger, verdict>>,
             stage' = stage \/ stage' \in {"failed", "cancelled"}
      PROVE  Tracked'
  BY <1>b DEF Tracked, ClaimsAccounted, Listed, Refuted, Usable
<1>c. ASSUME UNCHANGED <<dropped, malformed>>,
             stage' \in {"plan", "search", "analyze", "failed", "cancelled"}
      PROVE  Tracked'
  BY <1>c DEF Tracked
<1>1. CASE Cancel \/ Spend \/ Fail \/ NextRound \/ UNCHANGED vars
  BY <1>1, <1>b DEF Cancel, Spend, Fail, NextRound, vars, claimVars, debateVars
<1>2. CASE Plan \/ Search
  <2>1. stage' \in {"search", "analyze", "cancelled"}
    BY <1>2, CheckpointStage DEF Plan, Search, Stages
  <2> QED
    BY <1>2, <1>c, <2>1 DEF Plan, Search, claimVars
<1>3. ASSUME NEW q \in Questions, Ask(q) \/ Extract(q) \/ AskFails(q) PROVE Tracked'
  BY <1>3, <1>c DEF Ask, Extract, AskFails, claimVars
<1>4. CASE AnalyzeDone
  <2>1. stage' \in {"verify", "cancelled"} /\ UNCHANGED <<extracted, dropped, malformed>>
    BY <1>4, CheckpointStage DEF AnalyzeDone, Stages
  <2>2. \A c \in extracted : ledger'[c] > 0
    BY <1>4, <1>a DEF AnalyzeDone
  <2> QED
    BY <2>1, <2>2 DEF Tracked, Listed
<1>5. ASSUME NEW c \in Claims, Submit(c) \/ Settle(c) PROVE Tracked'
  BY <1>5, <1>b DEF Submit, Settle, claimVars, debateVars
<1>6. ASSUME NEW c \in Claims, Unjudged(c) \/ Judge(c) \/ Malform(c) \/ Contest(c)
      PROVE  Tracked'
  <2>1. /\ UNCHANGED <<stage, extracted, contested, ledger>>
        /\ stage \in {"verify", "rescore", "debate"}
        /\ stage = "debate" \/ Verifying
    BY <1>6 DEF Unjudged, Judge, Malform, Contest, Verifying, debateVars
  <2>2. dropped' \subseteq malformed' /\ malformed \subseteq malformed'
    BY <1>6 DEF Unjudged, Judge, Malform, Contest, Tracked
  <2>3. PICK v : verdict' = [verdict EXCEPT ![c] = v]
    <3>1. CASE Contest(c) /\ UNCHANGED verdict
      <4>1. verdict' = [verdict EXCEPT ![c] = verdict[c]]
        BY <1>a, <3>1 DEF TypeOK
      <4> QED
        BY <4>1
    <3> QED
      BY <1>6, <3>1 DEF Unjudged, Judge, Malform, Contest, Judged
  <2>4. stage # "verify" => c \in contested
    <3>1. CASE Contest(c)
      BY <1>a, <3>1 DEF Contest, TypeOK
    <3>2. CASE Unjudged(c) \/ Judge(c) \/ Malform(c)
      <4>1. c \in Waiting
        BY <1>a, <1>6, <3>2 DEF Unjudged, Judge, Malform, Waiting, TypeOK
      <4> QED
        BY <2>1, <3>2, <4>1 DEF Gathering, Unjudged, Judge, Malform, Verifying
    <3> QED
      BY <1>6, <3>1, <3>2
  <2>5. \A d \in Claims \ {c} : verdict'[d] = verdict[d]
    BY <1>a, <2>3 DEF TypeOK
  <2>6. stage \in {"debate", "rescore"} =>
          \A d \in extracted \ malformed' : d \in contested' \/ d \in Refuted'
    BY <1>a, <2>1, <2>2, <2>4, <2>5 DEF Tracked, Refuted, Listed
  <2> QED
    BY <2>1, <2>2, <2>6 DEF Tracked, Listed
<1>7. CASE VerifyDone
  <2>1. stage' \in {"debate", "cancelled"} /\ UNCHANGED <<extracted, verdict, malformed>>
    BY <1>7, CheckpointStage DEF VerifyDone, Stages
  <2>2. \A c \in extracted \ malformed : Listed(c) /\ c \notin dropped
    BY <1>7 DEF VerifyDone, Tracked
  <2>3. \A c \in extracted \ malformed : c \in contested' \/ c \in Refuted'
    BY <1>7, <1>a, <2>1, <2>2 DEF VerifyDone, Refuted, Listed
  <2> QED
    BY <1>7, <2>1, <2>3 DEF VerifyDone, Tracked
<1>8. CASE CloseDebate
  BY <1>8 DEF CloseDebate, Tracked, Refuted, Listed, claimVars, debateVars
<1>9. CASE RescoreDone
  <2>1. /\ stage' \in {"synthesize", "cancelled"} /\ dropped' = {} /\ stage = "rescore"
        /\ UNCHANGED <<extracted, verdict, malformed>>
        /\ ledger' = [c \in Claims |-> Outcome(c)]
    BY <1>9, CheckpointStage DEF RescoreDone, Stages
  <2>2. \A c \in extracted \ malformed : ledger'[c] > 0
    BY <1>a, <2>1 DEF Tracked, Outcome, Rescored
  <2>3. \A c \in Claims : ledger'[c] > 0 /\ verdict[c] # "refuted" => ledger'[c] = 1
    BY <2>1 DEF Outcome, Rescored, Refuted
  <2>4. ClaimsAccounted'
    BY <2>1, <2>2, <2>3 DEF ClaimsAccounted, Listed, Usable
  <2> QED
    BY <2>1, <2>4 DEF Tracked
<1>10. CASE Synthesize
  BY <1>10 DEF Synthesize, Tracked, ClaimsAccounted, Usable, Listed, claimVars
<1> QED
  BY <1>1, <1>2, <1>3, <1>4, <1>5, <1>6, <1>7, <1>8, <1>9, <1>10 DEF Next, Step

LEMMA StepRejudged ==
  TInv /\ Gathering /\ Rejudged /\ [Next]_vars => Rejudged'
<1> SUFFICES ASSUME TInv, Gathering, Rejudged, [Next]_vars PROVE Rejudged'
  OBVIOUS
<1>a. TypeOK /\ contested \subseteq Claims
  BY DEF TInv, TypeOK
<1>b. ASSUME UNCHANGED <<stage, job, dropped, contested, ledger, verdict, support>>
      PROVE  Rejudged'
  BY <1>b DEF Rejudged, Listed, Sound
<1>c. ASSUME stage' \notin {"rescore", "synthesize", "done"} PROVE Rejudged'
  BY <1>c DEF Rejudged
<1>1. CASE Cancel \/ Spend \/ NextRound \/ UNCHANGED vars
  BY <1>1, <1>b DEF Cancel, Spend, NextRound, vars, claimVars, debateVars
<1>2. CASE Fail \/ Plan \/ Search \/ AnalyzeDone \/ VerifyDone
  BY <1>2, <1>c, CheckpointStage DEF Fail, Plan, Search, AnalyzeDone, VerifyDone, Stages
<1>3. ASSUME NEW q \in Questions, Ask(q) \/ Extract(q) \/ AskFails(q) PROVE Rejudged'
  BY <1>3, <1>c DEF Ask, Extract, AskFails
<1>4. ASSUME NEW c \in Claims, Settle(c) \/ Contest(c) PROVE Rejudged'
  BY <1>4, <1>c DEF Settle, Contest
<1>5. ASSUME NEW c \in Claims, Unjudged(c) \/ Submit(c) \/ Judge(c) \/ Malform(c)
      PROVE  Rejudged'
  <2>1. /\ UNCHANGED <<stage, contested, ledger>> /\ stage \in {"verify", "rescore"}
        /\ dropped \subseteq dropped'
    BY <1>5 DEF Unjudged, Submit, Judge, Malform, Verifying, claimVars, debateVars
  <2>2. ASSUME NEW d \in contested \ dropped', job'[d] = "done" PROVE d = c \/ job[d] = "done"
    BY <1>5, <1>a, <2>2 DEF Unjudged, Submit, Judge, Malform, Finish, TypeOK
  <2>3. ASSUME NEW d \in Claims \ {c} PROVE verdict'[d] = verdict[d] /\ support'[d] = support[d]
    BY <1>5, <1>a DEF Unjudged, Submit, Judge, Malform, Judged, TypeOK, claimVars
  <2>4. ASSUME c \notin dropped', job'[c] = "done" PROVE Sound(c)'
    <3>1. CASE Unjudged(c)
      BY <1>a, <3>1 DEF Unjudged, Judged, Sound, TypeOK
    <3>2. CASE Judge(c)
      <4>1. PICK v \in Verdicts, score \in 0 .. Top : Judged(c, Demoted(v, score), score)
        BY <3>2 DEF Judge
      <4>2. verdict'[c] = Demoted(v, score) /\ support'[c] = score
        BY <1>a, <4>1 DEF Judged, TypeOK
      <4> QED
        BY <4>2, ScoreAssumption DEF Demoted, Sound
    <3>3. ~Submit(c) /\ ~Malform(c)
      BY <1>a, <2>4 DEF Submit, Malform, TypeOK
    <3> QED
      BY <1>5, <3>1, <3>2, <3>3
  <2>5. ASSUME stage = "rescore", NEW d \in contested \ dropped', job'[d] = "done"
        PROVE  Sound(d)'
    <3>1. CASE d = c
      BY <2>4, <2>5, <3>1
    <3>2. CASE d # c
      <4>1. Sound(d)
        BY <2>1, <2>2, <2>5, <3>2 DEF Rejudged
      <4> QED
        BY <1>a, <2>3, <3>2, <4>1 DEF Sound
    <3> QED
      BY <3>1, <3>2
  <2> QED
    BY <2>1, <2>5 DEF Rejudged
<1>6. CASE CloseDebate
  <2>1. \A c \in contested : job'[c] # "done"
    BY <1>6, <1>a DEF CloseDebate, Gather, TypeOK
  <2> QED
    BY <1>6, <2>1 DEF CloseDebate, Rejudged, debateVars
<1>7. CASE RescoreDone
  <2>1. /\ stage' \in {"synthesize", "cancelled"} /\ stage = "rescore"
        /\ UNCHANGED <<verdict, support>>
        /\ ledger' = [c \in Claims |-> Outcome(c)]
        /\ \A c \in contested : job[c] = "done"
    BY <1>7, CheckpointStage DEF RescoreDone, Stages, Gathered
  <2>2. ASSUME NEW c \in Claims, ledger'[c] > 0 PROVE Sound(c)'
    <3>1. c \in contested \ dropped \/ c \in Refuted
      BY <2>1, <2>2 DEF Outcome, Rescored
    <3>2. CASE c \in contested \ dropped
      BY <2>1, <3>2 DEF Rejudged, Sound
    <3>3. CASE c \in Refuted
      BY <2>1, <3>3 DEF Refuted, Sound
    <3> QED
      BY <3>1, <3>2, <3>3
  <2> QED
    BY <2>1, <2>2 DEF Rejudged, Listed
<1>8. CASE Synthesize
  BY <1>8 DEF Synthesize, Rejudged, Listed, Sound, claimVars
<1> QED
  BY <1>1, <1>2, <1>3, <1>4, <1>5, <1>6, <1>7, <1>8 DEF Next, Step

LEMMA TrackedInvariant == Spec => [](Tracked /\ Rejudged)
BY GatheringInvariant, InitTracked, StepTracked, StepRejudged, PTL DEF Spec

(* No claim whose replies could be read is lost between the analyst's list    *)
(* and the outcome, and none the report may use is in it twice (Debate.run).  *)
THEOREM NoClaimLost == Spec => []ClaimsAccounted
<1>1. Tracked => ClaimsAccounted
  BY DEF Tracked, ClaimsAccounted
<1> QED
  BY <1>1, TrackedInvariant, PTL

(* A claim the report calls supported was demoted below no minimum, in any    *)
(* order of judgements, debate and budget (Verifier._score_claim).            *)
THEOREM SupportHolds == Spec => []SupportedIsSupported
<1>1. Rejudged => SupportedIsSupported
  BY DEF Rejudged, SupportedIsSupported, Usable, Sound
<1> QED
  BY <1>1, TrackedInvariant, PTL
-----------------------------------------------------------------------------
(* Cancellation.                                                             *)

(* A cancelled pipeline starts no stage but the debate's second judgement: no *)
(* path around a checkpoint exists (orchestrator.run, Debate.run).            *)
THEOREM CancellationStops == Spec => CancelStops
<1>1. ASSUME [Next]_vars, cancelled, stage' # stage
      PROVE  stage' \in Ended \cup {"rescore"}
  <2>1. ASSUME NEW next PROVE Checkpoint(next) = "cancelled"
    BY <1>1 DEF Checkpoint
  <2>2. CASE Plan \/ Search \/ AnalyzeDone \/ VerifyDone \/ RescoreDone
    BY <2>1, <2>2 DEF Plan, Search, AnalyzeDone, VerifyDone, RescoreDone, Ended
  <2>3. CASE Fail \/ CloseDebate \/ Synthesize
    BY <2>3 DEF Fail, CloseDebate, Synthesize, Ended
  <2>4. ~(Cancel \/ Spend \/ NextRound \/ UNCHANGED vars)
    BY <1>1 DEF Cancel, Spend, NextRound, vars
  <2>5. \A q \in Questions : ~(Ask(q) \/ Extract(q) \/ AskFails(q))
    BY <1>1 DEF Ask, Extract, AskFails
  <2>6. \A c \in Claims : ~(\/ Unjudged(c) \/ Submit(c) \/ Judge(c) \/ Malform(c)
                           \/ Settle(c) \/ Contest(c))
    BY <1>1 DEF Unjudged, Submit, Judge, Malform, Settle, Contest
  <2> QED
    BY <1>1, <2>2, <2>3, <2>4, <2>5, <2>6 DEF Next, Step
<1>2. [Next]_vars => [cancelled /\ stage' # stage => stage' \in Ended \cup {"rescore"}]_vars
  BY <1>1
<1> QED
  BY <1>2, PTL DEF Spec, CancelStops
===============================================================================

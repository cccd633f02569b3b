------------------------------- MODULE Pipeline -------------------------------
(***************************************************************************)
(* One pipeline of agents/orchestrator.py: the stages and their checkpoints, *)
(* the concurrent model calls of the analyst and the verifier under one     *)
(* Budget, and the claims as they are extracted, judged, debated and judged *)
(* again.  A model reply is any reply the parsing code distinguishes.       *)
(***************************************************************************)
EXTENDS Integers, FiniteSets

CONSTANTS
  Questions,   \* the sub-questions of the plan
  Claims,      \* the distinct claims the analyst may extract
  MaxCalls,    \* Budget.max_calls
  Slots,       \* verifier: asyncio.Semaphore(4)
  MaxRounds,   \* min(max_debate_rounds, depth)
  Top,         \* support scores are 0 .. Top
  MinSupport,  \* settings.min_claim_support on that scale
  Fallback     \* the verifier's score when the model call fails

ASSUME CallsAssumption == MaxCalls \in Nat /\ Slots \in Nat \ {0} /\ MaxRounds \in Nat
ASSUME ScoreAssumption ==
  /\ Top \in Nat /\ MinSupport \in 0 .. Top /\ Fallback \in 0 .. Top
ASSUME SetsAssumption ==
  /\ IsFiniteSet(Questions) /\ IsFiniteSet(Claims)
  /\ Questions \cap Claims = {}

VARIABLES
  stage,      \* orchestrator stage, or how the pipeline ended
  cancelled,  \* ctx.cancelled()
  spent,      \* Budget: tokens or seconds are used up
  calls,      \* Budget.llm_calls
  job,        \* the coroutines of the gather in progress
  extracted,  \* claims the analyst has returned so far
  verdict,    \* ClaimRecord.status
  support,    \* ClaimRecord.support
  ledger,     \* how often each claim is in the list handed to the next stage
  dropped,    \* claims whose coroutine raised in the gather in progress
  malformed,  \* history: claims that were ever dropped
  contested,  \* the debate's claims
  left,       \* contested claims this round has yet to see
  unresolved, \* a serious challenge was raised in this round
  round       \* debate round

budgetVars == <<spent, calls>>
claimVars == <<extracted, verdict, support, ledger, dropped, malformed>>
debateVars == <<contested, left, unresolved, round>>
vars == <<stage, cancelled, budgetVars, job, claimVars, debateVars>>

Verdicts == {"supported", "uncertain", "refuted"}
Ended == {"done", "failed", "cancelled"}
Stages == {"plan", "search", "analyze", "verify", "debate", "rescore",
           "synthesize"} \cup Ended

Init ==
  /\ stage = "plan"
  /\ cancelled = FALSE /\ spent = FALSE
  /\ calls = 0
  /\ job = [j \in Questions \cup Claims |-> "idle"]
  /\ extracted = {}
  /\ verdict = [c \in Claims |-> "uncertain"]
  /\ support = [c \in Claims |-> 0]
  /\ ledger = [c \in Claims |-> 0]
  /\ dropped = {} /\ malformed = {}
  /\ contested = {} /\ left = {}
  /\ unresolved = FALSE
  /\ round = 0

(* Budget.exhausted, which Agent.think reads before the call is made.       *)
(* Fault: off by one.                                                      *)
ExhaustedLate == spent \/ calls > MaxCalls
Exhausted == spent \/ calls >= MaxCalls

(* A checkpoint stands between most stages.  Fault: it is not consulted.    *)
CheckpointNone(next) == next
Checkpoint(next) == IF cancelled THEN "cancelled" ELSE next

(* The coroutines of a gather over S are created.                          *)
Gather(S) == job' = [j \in DOMAIN job |-> IF j \in S THEN "todo" ELSE "idle"]
Asking == {j \in DOMAIN job : job[j] = "asking"}
Gathered(S) == \A j \in S : job[j] = "done"

-----------------------------------------------------------------------------
(* RunManager.cancel, and the clock or the tokens of the budget.           *)
Cancel ==
  /\ stage \notin Ended /\ ~cancelled
  /\ cancelled' = TRUE
  /\ UNCHANGED <<stage, budgetVars, job, claimVars, debateVars>>

Spend ==
  /\ stage \notin Ended /\ ~spent
  /\ spent' = TRUE
  /\ UNCHANGED <<stage, cancelled, calls, job, claimVars, debateVars>>

(* The timeout of the run, a trace event that cannot be written, or a model *)
(* call whose error no agent isolates: the run fails.                      *)
Fail ==
  /\ stage \notin Ended
  /\ stage' = "failed"
  /\ UNCHANGED <<cancelled, budgetVars, job, claimVars, debateVars>>

Plan ==
  /\ stage = "plan" /\ ~Exhausted
  /\ calls' = calls + 1
  /\ stage' = Checkpoint("search")
  /\ UNCHANGED <<cancelled, spent, job, claimVars, debateVars>>

(* Searches that fail are skipped; without a source the analyst has nothing *)
(* to ask.                                                                 *)
Search ==
  /\ stage = "search"
  /\ stage' = Checkpoint("analyze")
  /\ Gather(Questions) \/ Gather({})
  /\ UNCHANGED <<cancelled, budgetVars, claimVars, debateVars>>

-----------------------------------------------------------------------------
(* The analyst's gather.                                                   *)

Ask(q) ==
  /\ stage = "analyze" /\ job[q] = "todo"
  /\ job' = [job EXCEPT ![q] = IF Exhausted THEN "done" ELSE "asking"]
  /\ UNCHANGED <<stage, cancelled, budgetVars, claimVars, debateVars>>

(* The reply: claims without a valid source ref are dropped, duplicates too. *)
Extract(q) ==
  /\ stage = "analyze" /\ job[q] = "asking"
  /\ job' = [job EXCEPT ![q] = "done"]
  /\ calls' = calls + 1
  /\ \E found \in SUBSET Claims : extracted' = extracted \cup found
  /\ UNCHANGED <<stage, cancelled, spent, verdict, support, ledger, dropped,
                 malformed, debateVars>>

(* The call fails, and so does its coroutine.  Fault: it is asked again.    *)
AskAgain(q) ==
  /\ stage = "analyze" /\ job[q] = "asking"
  /\ job' = [job EXCEPT ![q] = "todo"]
  /\ UNCHANGED <<stage, cancelled, budgetVars, claimVars, debateVars>>

AskFails(q) ==
  /\ stage = "analyze" /\ job[q] = "asking"
  /\ job' = [job EXCEPT ![q] = "done"]
  /\ UNCHANGED <<stage, cancelled, budgetVars, claimVars, debateVars>>

AnalyzeDone ==
  /\ stage = "analyze" /\ \A q \in Questions : job[q] \in {"idle", "done"}
  /\ stage' = Checkpoint("verify")
  /\ ledger' = [c \in Claims |-> IF c \in extracted THEN 1 ELSE 0]
  /\ Gather(extracted)
  /\ UNCHANGED <<cancelled, budgetVars, extracted, verdict, support, dropped,
                 malformed, debateVars>>

-----------------------------------------------------------------------------
(* The verifier, in its own stage and at the end of the debate.            *)

Verifying == stage \in {"verify", "rescore"}

Finish(c) == job' = [job EXCEPT ![c] = "done"]
Judged(c, status, score) ==
  /\ verdict' = [verdict EXCEPT ![c] = status]
  /\ support' = [support EXCEPT ![c] = score]

(* Agent.think raises: uncertain, with the fallback score.                 *)
Unjudged(c) ==
  /\ Verifying
  /\ \/ job[c] = "asking"
     \/ job[c] = "todo" /\ Exhausted /\ Cardinality(Asking) < Slots
  /\ Finish(c)
  /\ Judged(c, "uncertain", Fallback)
  /\ UNCHANGED <<stage, cancelled, budgetVars, extracted, ledger, dropped,
                 malformed, debateVars>>

Submit(c) ==
  /\ Verifying /\ job[c] = "todo"
  /\ ~Exhausted /\ Cardinality(Asking) < Slots
  /\ job' = [job EXCEPT ![c] = "asking"]
  /\ UNCHANGED <<stage, cancelled, budgetVars, claimVars, debateVars>>

(* A claim said to be supported is demoted below the minimum.  Fault: it is *)
(* not.                                                                    *)
DemotedNever(v, score) == v
Demoted(v, score) == IF v = "supported" /\ score < MinSupport THEN "uncertain" ELSE v

Judge(c) ==
  /\ Verifying /\ job[c] = "asking"
  /\ Finish(c)
  /\ calls' = calls + 1
  /\ \E v \in Verdicts, score \in 0 .. Top : Judged(c, Demoted(v, score), score)
  /\ UNCHANGED <<stage, cancelled, spent, extracted, ledger, dropped, malformed,
                 debateVars>>

(* The reply breaks the code that reads it, before or after the verdict is  *)
(* stored; gather keeps the exception and the claim is left out.           *)
Malform(c) ==
  /\ Verifying /\ job[c] = "asking"
  /\ Finish(c)
  /\ calls' = calls + 1
  /\ \E v \in Verdicts : verdict' = [verdict EXCEPT ![c] = v]
  /\ dropped' = dropped \cup {c} /\ malformed' = malformed \cup {c}
  /\ UNCHANGED <<stage, cancelled, spent, extracted, support, ledger, debateVars>>

Listed(c) == ledger[c] > 0
Refuted == {c \in Claims : Listed(c) /\ verdict[c] = "refuted"}

(* The verified claims go to the debate, which opens with those that are    *)
(* not refuted.                                                            *)
VerifyDone ==
  /\ stage = "verify" /\ Gathered({c \in Claims : Listed(c)})
  /\ stage' = Checkpoint("debate")
  /\ ledger' = [c \in Claims |-> IF Listed(c) /\ c \notin dropped THEN 1 ELSE 0]
  /\ contested' = {c \in Claims : Listed(c) /\ c \notin dropped
                                   /\ verdict[c] # "refuted"}
  /\ dropped' = {}
  /\ unresolved' = TRUE
  /\ UNCHANGED <<cancelled, budgetVars, job, extracted, verdict, support, malformed,
                 left, round>>

-----------------------------------------------------------------------------
(* The debate.                                                             *)

NextRound ==
  /\ stage = "debate" /\ left = {}
  /\ unresolved /\ round < MaxRounds /\ ~cancelled /\ ~Exhausted
  /\ round' = round + 1
  /\ left' = contested
  /\ unresolved' = FALSE
  /\ UNCHANGED <<stage, cancelled, budgetVars, job, claimVars, contested>>

(* No answer, or no challenge that is serious.                             *)
Settle(c) ==
  /\ stage = "debate" /\ c \in left
  /\ left' = left \ {c}
  /\ \/ UNCHANGED calls
     \/ ~Exhausted /\ calls' = calls + 1
  /\ UNCHANGED <<stage, cancelled, spent, job, claimVars, contested, unresolved, round>>

(* max(0, support - penalty).  Fault: not clamped.                         *)
LoweredBelow(c) == -Top .. support[c]
Lowered(c) == 0 .. support[c]

(* A serious challenge; the rebuttal call fails, or costs the claim some    *)
(* support and may concede it.                                             *)
Contest(c) ==
  /\ stage = "debate" /\ c \in left /\ ~Exhausted
  /\ left' = left \ {c}
  /\ unresolved' = TRUE
  /\ \/ calls' = calls + 1 /\ UNCHANGED <<verdict, support>>
     \/ /\ calls + 1 < MaxCalls
        /\ calls' = calls + 2
        /\ \E score \in Lowered(c), v \in {verdict[c], "uncertain"} : Judged(c, v, score)
  /\ UNCHANGED <<stage, cancelled, spent, job, extracted, ledger, dropped, malformed,
                 contested, round>>

(* The loop is left: out of rounds, nothing contested, or halted.          *)
CloseDebate ==
  /\ stage = "debate" /\ left = {}
  /\ ~unresolved \/ round = MaxRounds \/ cancelled \/ Exhausted
  /\ stage' = "rescore"
  /\ Gather(contested)
  /\ UNCHANGED <<cancelled, budgetVars, claimVars, debateVars>>

(* rescored + refuted, where refuted is read after the second judgement.    *)
(* Fault: the rescored claims are returned alone.                          *)
Rescored(c) == IF c \in contested \ dropped THEN 1 ELSE 0
OutcomeRescored(c) == Rescored(c)
Outcome(c) == Rescored(c) + (IF c \in Refuted THEN 1 ELSE 0)

RescoreDone ==
  /\ stage = "rescore" /\ Gathered(contested)
  /\ stage' = Checkpoint("synthesize")
  /\ ledger' = [c \in Claims |-> Outcome(c)]
  /\ dropped' = {}
  /\ UNCHANGED <<cancelled, budgetVars, job, extracted, verdict, support, malformed,
                 debateVars>>

Usable == {c \in Claims : Listed(c) /\ verdict[c] \in {"supported", "uncertain"}}

(* The report; without a usable claim it is written without the model.     *)
Synthesize ==
  /\ stage = "synthesize"
  /\ IF Usable = {} THEN UNCHANGED calls ELSE ~Exhausted /\ calls' = calls + 1
  /\ stage' = "done"
  /\ UNCHANGED <<cancelled, spent, job, claimVars, debateVars>>

-----------------------------------------------------------------------------
Step ==
  \/ Fail \/ Plan \/ Search \/ AnalyzeDone \/ VerifyDone \/ NextRound
  \/ CloseDebate \/ RescoreDone \/ Synthesize
  \/ \E q \in Questions : Ask(q) \/ Extract(q) \/ AskFails(q)
  \/ \E c \in Claims : \/ Unjudged(c) \/ Submit(c) \/ Judge(c) \/ Malform(c)
                       \/ Settle(c) \/ Contest(c)

Next == Step \/ Cancel \/ Spend
Spec == Init /\ [][Next]_vars

(* Every model call is answered or times out.                              *)
FairSpec == Spec /\ WF_vars(Step)

-----------------------------------------------------------------------------
(* Properties.                                                             *)

(* Every variable keeps its type.                                          *)
TypeOK ==
  /\ stage \in Stages
  /\ cancelled \in BOOLEAN /\ spent \in BOOLEAN /\ unresolved \in BOOLEAN
  /\ calls \in Nat
  /\ job \in [Questions \cup Claims -> {"idle", "todo", "asking", "done"}]
  /\ extracted \subseteq Claims /\ dropped \subseteq Claims
  /\ malformed \subseteq Claims /\ contested \subseteq Claims /\ left \subseteq contested
  /\ verdict \in [Claims -> Verdicts]
  /\ support \in [Claims -> 0 .. Top]
  /\ ledger \in [Claims -> 0 .. 2]
  /\ round \in 0 .. MaxRounds

(* The number of calls is read before a call and charged after it: those in *)
(* flight may overshoot the maximum, by less than a gather's width.  Tokens *)
(* and seconds have no such bound: one call may use any number of them.    *)
Width == IF Cardinality(Questions) > Slots THEN Cardinality(Questions) ELSE Slots
BudgetOvershoot == calls + Cardinality(Asking) <= MaxCalls + Width - 1

(* Budget.max_calls is a hard ceiling: no run is charged more calls.  The     *)
(* code breaks it in every gather.                                         *)
HardCeiling == calls <= MaxCalls

(* A claim the report calls supported has the support it needs, although    *)
(* the debate lowers scores and leaves the verdict.                        *)
SupportedIsSupported ==
  stage \in {"synthesize", "done"} =>
    \A c \in Usable : verdict[c] = "supported" => support[c] >= MinSupport

(* Every extracted claim whose replies could be read is in the outcome, and   *)
(* once if the report may use it: debate and second judgement move claims     *)
(* between the lists and only a refuted claim is listed in both.            *)
ClaimsAccounted ==
  stage \in {"synthesize", "done"} =>
    /\ \A c \in extracted \ malformed : Listed(c)
    /\ \A c \in Usable : ledger[c] = 1

(* A cancelled pipeline starts no further stage; the re-scoring belongs to  *)
(* the debate.                                                             *)
CancelStops ==
  [][cancelled /\ stage' # stage => stage' \in Ended \cup {"rescore"}]_vars

(* Whatever the model answers or fails to, the pipeline ends.              *)
PipelineEnds == <>(stage \in Ended)
=============================================================================

------------------------------- MODULE Advice -------------------------------
(***************************************************************************)
(* The models around the engine, composed: the decision cycle asks each     *)
(* book's advisor about its proposals (the typed veto asks the cascade,    *)
(* the LLM veto the router), while the announcements task polls and        *)
(* classifies and a labelling script spends from the same budget.  The     *)
(* engine's process may die at any time; its next one reads the store.     *)
(***************************************************************************)
EXTENDS News, Router

CONSTANTS
    Proposals,      \* the entries of the cycle, in rank order
    Books,          \* the advised books, in order
    AdvisorOf,      \* per book: "typed_veto", "llm_veto", or "absent" (AbstainAdvisor)
    Scenarios       \* is there an announcements task, and the bounds: how many items,
                    \* cycles, label calls, ticks and faults

ASSUME AdviceAssumption ==
    /\ Proposals \in Seq((Subjects \cap Prompts) \ Items) /\ Items \subseteq Subjects
    /\ {"engine", "labels"} \subseteq Routers
    /\ \A p \in Range(Proposals) : RoleOf[p] = "engine"
    /\ Books \in Seq(DOMAIN AdvisorOf)

(* experiment.yaml: an advisor reviews for one book.                       *)
ASSUME OneBookPerAdvisor ==
    \A b, c \in Range(Books) : AdvisorOf[b] = AdvisorOf[c] => b = c \/ AdvisorOf[b] = "absent"

VARIABLES
    review,     \* the cycle under way: the reviews left, and the typed veto's conversation
    verdict,    \* the AdvisorVerdict of the last review per book and proposal
    bound       \* what the scenario still allows

reviewVars == <<review, verdict, bound>>
adviceVars == <<newsVars, routerVars, reviewVars>>

NoReview == [todo |-> <<>>, conv |-> Quiet]
Spends(what) == bound[what] > 0 /\ bound' = [bound EXCEPT ![what] = @ - 1]

-----------------------------------------------------------------------------
(* The cycle: book by book, each proposal in turn.                         *)
Agenda ==
    [k \in 1 .. Len(Books) * Len(Proposals) |->
        <<Books[((k - 1) \div Len(Proposals)) + 1], Proposals[((k - 1) % Len(Proposals)) + 1]>>]

RunCycle ==
    /\ router["engine"].up /\ review = NoReview /\ Spends("cycles")
    /\ review' = [NoReview EXCEPT !.todo = Agenda]
    /\ UNCHANGED <<newsVars, routerVars, verdict>>

Reviewing(kind) == review.todo # <<>> /\ AdvisorOf[Head(review.todo)[1]] = kind

(* AdvisorRequested, and what becomes of it.                               *)
Requested == verdict' = [verdict EXCEPT ![Head(review.todo)] = None]
Ruled(v) ==
    /\ verdict' = [verdict EXCEPT ![Head(review.todo)] = v]
    /\ review' = [NoReview EXCEPT !.todo = Tail(review.todo)]

(* AbstainAdvisor: the advisor is not available.                           *)
ReviewAbsent ==
    /\ Reviewing("absent") /\ Ruled("ABSTAIN")
    /\ UNCHANGED <<newsVars, routerVars, bound>>

(* TypedVetoAdvisor.                                                       *)
TypedVerdict(said) ==
    CASE said = "yes" -> "VETO" [] said = "no" -> "APPROVE" [] OTHER -> "ABSTAIN"

ReviewTyped ==
    /\ Reviewing("typed_veto") /\ review.conv = Quiet
    /\ review' = [review EXCEPT !.conv = BeginWith(Head(review.todo)[2])] /\ Requested
    /\ UNCHANGED <<newsVars, routerVars, bound>>

HearTyped(reply) ==
    /\ Reviewing("typed_veto") /\ MayReply(review.conv, reply)
    /\ answers' = Keeps(review.conv, reply)
    /\ LET conv == Heard(review.conv, reply)
       IN  IF conv.at = "said" THEN Ruled(TypedVerdict(conv.said))
           ELSE review' = [review EXCEPT !.conv = conv] /\ UNCHANGED verdict
    /\ UNCHANGED <<published, ing, task, backlog, received, gaps, typed, lapses, routerVars, bound>>

(* LLMVetoAdvisor: no reply, or one whose evidence is not in what it was   *)
(* shown, is an abstention.                                                *)
LLMVerdict(answer) == IF answer \in {"VETO", "APPROVE"} THEN answer ELSE "ABSTAIN"

LLMStep(step) ==
    /\ step
    /\ IF call'["engine"].on THEN Requested /\ UNCHANGED review
       ELSE Ruled(LLMVerdict(result'[Head(review.todo)[2]]))
    /\ UNCHANGED <<newsVars, bound>>

ReviewLLM == Reviewing("llm_veto") /\ LLMStep(Complete("engine", Head(review.todo)[2]))

(* What a provider's client comes to: a reply, whose headers may say that  *)
(* the rate-limit window is used up (and when it opens again), or one of   *)
(* the failures.                                                           *)
Drained == BOOLEAN
HearReply ==
    Reviewing("llm_veto") /\ \E a \in Answers, drained \in Drained : LLMStep(Reply("engine", a, drained))
HearFailure ==
    Reviewing("llm_veto") /\ \E why \in Failures : LLMStep(NoReply("engine", why))

-----------------------------------------------------------------------------
(* teacher_label: a script with a router of its own.                       *)
Unlabelled == {p \in OfRole("labels") : result[p] \in {Nothing, "failed"}}

Label ==
    /\ \/ /\ Spends("labels")
          /\ \E p \in Unlabelled : Complete("labels", p)
       \/ /\ \/ Reply("labels", "APPROVE", FALSE)
             \/ \E why \in {"timeout", "refused"} : NoReply("labels", why)
          /\ UNCHANGED bound
    /\ UNCHANGED <<newsVars, review, verdict>>

LabelsRestart ==
    /\ Spends("faults")
    /\ router["labels"].up
    /\ router' = [router EXCEPT !["labels"] = NewRouter]
    /\ call' = [call EXCEPT !["labels"] = NoCall]
    /\ UNCHANGED <<now, cache, spent, result, newsVars, review, verdict>>

-----------------------------------------------------------------------------
(* The announcements task.                                                 *)
NewsStep ==
    /\ \/ Spends("items") /\ Publish
       \/ bound.news /\ Polls /\ UNCHANGED bound
       \/ UNCHANGED bound /\ (NothingNew \/ Fetched(Len(Coverage(Page)) + Len(Accepted(Page)), "done"))
       \/ UNCHANGED bound /\ \E reply \in LayaReplies \cup JevReplies : Classify(reply, TRUE)
       \/ Spends("faults") /\ \E reply \in LayaReplies \cup JevReplies :
            /\ MayReply(task.conv, reply) /\ Heard(task.conv, reply).at = "said"
            /\ Classify(reply, FALSE)
       \/ Spends("faults") /\ \E n \in 0..Cardinality(Items) : Fetched(n, "fails")
    /\ UNCHANGED <<routerVars, review, verdict>>

(* The engine dies, in particular between the appends of a page.           *)
Dies ==
    /\ ing.up /\ Spends("faults")
    /\ NewsEnds \/ \E n \in 0..Cardinality(Items) : Fetched(n, "dies")
    /\ RouterEnds("engine") /\ review' = NoReview
    /\ UNCHANGED verdict

Starts ==
    /\ ~ing.up /\ NewsStarts /\ RouterStarts("engine")
    /\ UNCHANGED <<review, verdict, bound>>

TimePasses == Spends("ticks") /\ RouterTick /\ UNCHANGED <<newsVars, review, verdict>>

AdviceInit ==
    /\ NewsInit /\ RouterInit
    /\ review = NoReview /\ bound \in Scenarios
    /\ verdict = [k \in Range(Books) \X Range(Proposals) |-> None]

AdviceNext ==
    \/ RunCycle \/ ReviewAbsent \/ ReviewTyped \/ ReviewLLM \/ HearReply \/ HearFailure
    \/ \E reply \in LayaReplies \cup JevReplies : HearTyped(reply)
    \/ Label \/ LabelsRestart \/ NewsStep \/ Dies \/ Starts \/ TimePasses

(* A model or a provider answers or fails in the end: the router's         *)
(* wait_for, the HTTP clients' timeouts and the local model see to it.     *)
(* Tasks that can run do, and the engine is started again.                 *)
Fairness ==
    /\ WF_adviceVars(ReviewAbsent \/ ReviewTyped \/ ReviewLLM \/ HearReply \/ HearFailure
               \/ \E reply \in LayaReplies \cup JevReplies : HearTyped(reply))
    /\ WF_adviceVars(NewsStep /\ bound' = bound)
    /\ WF_adviceVars(Starts)

AdviceSpec == AdviceInit /\ [][AdviceNext]_adviceVars /\ Fairness

-----------------------------------------------------------------------------
(* Properties.                                                             *)

(* Type: the records of the routers, the ingestor, the cycle and the log.  *)
AdviceTypeOK ==
    /\ now \in 0..MaxTime
    /\ \A r \in Routers :
        /\ router[r].ledger \in [Prompts -> Nat]
        /\ router[r].fails \in [Models -> 0..(BreakerFailures - 1)]
        /\ call[r].on => call[r].k \in DOMAIN Chain[r] /\ now - call[r].since <= CallTimeout
    /\ ing.newest \in 0..published /\ ing.seen \subseteq Ours
    /\ Range(backlog) \cup Range(task.todo) \subseteq Ours
    /\ \A c \in {task.conv, review.conv} :
        c.at \in {"idle", "laya", "jev", "shadow"} /\ c.tries \in 0..(MaxAttempts - 1)
    /\ Range(verdict) \subseteq {None, "VETO", "APPROVE", "ABSTAIN"}

MaxCost == Max({CostOf(m) : m \in Models})

(* What a role spends in a day stays within its budget and one call (two   *)
(* on a day that began with a call in flight), although a router decides   *)
(* from its own ledger, which a restart rebuilds from the log and midnight *)
(* empties.                                                                *)
RoleWithinCap ==
    RoleCap > 0 => \A d \in Days, r \in Routers :
        Sum(spent[d], OfRole(r)) <= RoleCap - 1 + MaxCost + (IF d = 0 THEN 0 ELSE MaxCost)

ReplayedReply(p) ==
    LET hits == {k \in DOMAIN Chain["engine"] : cache[Chain["engine"][k]][p] # Nothing}
    IN  IF hits = {} THEN "failed" ELSE cache[Chain["engine"][Min(hits)]][p]
ReplayedVerdict(b, p) ==
    CASE AdvisorOf[b] = "llm_veto"   -> LLMVerdict(ReplayedReply(p))
      [] AdvisorOf[b] = "typed_veto" -> TypedVerdict(Replayed(p))
      [] OTHER                       -> "ABSTAIN"

(* The verdicts, the typed ones on X, and the typed events of X, are what  *)
(* a replay comes to.                                                      *)
AgreesOn(X) ==
    /\ \A b \in Range(Books), p \in Range(Proposals) :
        verdict[<<b, p>>] # None /\ (AdvisorOf[b] = "typed_veto" => p \in X) =>
            verdict[<<b, p>>] = ReplayedVerdict(b, p)
    /\ \A i \in Items \cap X : typed[i] # <<>> => typed[i][1].said = Replayed(i)

(* A replay, which asks nobody, comes to the verdicts and the typed events *)
(* of the live run: the recorded answers give the verdict of the last      *)
(* review of every proposal, however often models failed, fell back or     *)
(* were asked again.  A review that the engine did not live to end has     *)
(* none.  Answers that the calibration moves, and proposals that a replay  *)
(* words differently, are left out.                                        *)
ReplayAgrees == AgreesOn({x \in Subjects : Unmoved(x)})

(* The same of every subject, as cache.py has it: "a replayed day          *)
(* reproduces the live decisions".  The code does not: a replay has no     *)
(* calibrator, and no typed events of earlier days.                        *)
ReplayReproduces == AgreesOn(Subjects)

(* Every announcement is accounted for, whatever pages were missed and     *)
(* wherever the process died.  One of our companies that the ingestor has  *)
(* read past was received or lies in a recorded gap; only a failed append  *)
(* can lose one.  It is received once and classified once, and until then  *)
(* it is queued or left for the next start.  What is hidden from the gates *)
(* was judged irrelevant by a model sure of it, and is not a result.       *)
Accounted ==
    /\ ing.up /\ lapses.first > 0 =>
        \A i \in Ours : i \in lapses.first..ing.newest =>
            \/ received[i] > 0 \/ i \in lapses.lost
            \/ \E g \in gaps : g.from < i /\ i < g.to
    /\ \A i \in Items :
        /\ received[i] <= 1 /\ Len(typed[i]) <= 1
        /\ received[i] = 1 /\ typed[i] = <<>> /\ ing.up =>
            i \in Range(backlog) \cup Range(task.todo) \cup lapses.left
        /\ \A e \in Range(typed[i]) : ~e.relevant =>
            /\ i \notin Results
            /\ \/ Read("laya", i) = "no"
               \/ Read("laya", i) \in {None, "band"} /\ Read("jev", i) = "no"

(* A failing model never holds up the cycle: every proposal is ruled on.   *)
(* And whatever is received is classified in the end, or left for the next *)
(* start: the queue always empties again.                                  *)
NothingStalls ==
    /\ review.todo # <<>> ~> review.todo = <<>>
    /\ []<>(\A i \in Items : received[i] > 0 => typed[i] # <<>> \/ i \in lapses.left)
=============================================================================

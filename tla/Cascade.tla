------------------------------ MODULE Cascade -------------------------------
(***************************************************************************)
(* The decision-model cascade (src/decision_models): Laya is asked first;  *)
(* an answer inside the uncertain band, or none, goes to Jev; what Jev     *)
(* cannot answer is an abstention.  A share of the sure answers is also    *)
(* put to Jev in the shadow.  An answer is calibrated before it is used    *)
(* and kept, for replays, as the model gave it.  Each question is about a  *)
(* subject: an announcement, or a proposed entry.                          *)
(***************************************************************************)
EXTENDS Integers, Sequences

CONSTANTS
    Subjects,
    Sampled,        \* the subjects whose hash falls in the shadow sample
    MaxAttempts,    \* how often Jev is asked while it is rate-limited
    Calibration,    \* calibration.json: per model and subject, what an answer becomes
    Reworded        \* the subjects a replay words differently, so that no record is found

Given == {"yes", "no", "band"}

ASSUME CascadeAssumption ==
    /\ Sampled \subseteq Subjects /\ Reworded \subseteq Subjects /\ MaxAttempts \in Nat \ {0}
    /\ \A x \in Subjects :
        /\ \A r \in Given : Calibration["laya"][x][r] \in Given
        /\ \A r \in {"yes", "no"} : Calibration["jev"][x][r] \in {"yes", "no"}

VARIABLE answers    \* the recorded answers, uncalibrated, per model and subject

None == "none"
DecisionModels == {"laya", "jev"}
LayaReplies == {"yes", "no", "band", "error"}
JevReplies == {"yes", "no", "busy", "error"}

(* A conversation with the cascade: whom it awaits, and about what.        *)
Quiet == [at |-> "idle", on |-> 0, tries |-> 0, said |-> None]
BeginWith(x) == [Quiet EXCEPT !.at = "laya", !.on = x]
Over(conv, said) == [conv EXCEPT !.at = "said", !.said = said]

(* _uncertain, and a failed call.                                          *)
Escalates(reply) == reply \in {"band", "error"}

(* CachedDecisionModel: what is on record is not asked again.              *)
Replies(model, x, all) == IF answers[model][x] = None THEN all ELSE {answers[model][x]}

(* A temperature makes an answer more or less sure: into the band, out of  *)
(* it, or (Jev) across the threshold.  A failure stays what it is.         *)
Calibrated(model, x, reply) == IF reply \in Given THEN Calibration[model][x][reply] ELSE reply

(* A reply is recorded as it was given; a failure is not.                  *)
Recorded(model, x, reply) ==
    IF reply \in Given THEN [answers EXCEPT ![model][x] = reply] ELSE answers

AfterLaya(conv, reply) ==
    IF Escalates(reply) THEN [conv EXCEPT !.at = "jev"]
    ELSE IF conv.on \in Sampled THEN [conv EXCEPT !.at = "shadow", !.said = reply]
    ELSE Over(conv, reply)

(* Mutation: a busy service is asked for as long as it is busy.            *)
AfterJevWhileBusy(conv, reply) ==
    IF reply = "busy" THEN [conv EXCEPT !.tries = (@ + 1) % MaxAttempts]
    ELSE IF conv.at = "shadow" THEN Over(conv, conv.said)
    ELSE Over(conv, IF reply \in {"yes", "no"} THEN reply ELSE "abstained")
(* SystemOneHTTP: a busy service is asked again, a bounded number of times.*)
AfterJev(conv, reply) ==
    IF reply = "busy" /\ conv.tries + 1 < MaxAttempts THEN [conv EXCEPT !.tries = @ + 1]
    ELSE IF conv.at = "shadow" THEN Over(conv, conv.said)
    ELSE Over(conv, IF reply \in {"yes", "no"} THEN reply ELSE "abstained")

(* What a pair of answers comes to.                                        *)
Outcome(laya, jev) ==
    IF ~(laya \in {None, "band"}) THEN laya ELSE IF jev # None THEN jev ELSE "abstained"

(* The decision the record gives with the calibration, and the one it      *)
(* gives a replay, which asks nobody and has no calibrator.                *)
Read(model, x) == Calibrated(model, x, answers[model][x])
Decided(x) == Outcome(Read("laya", x), Read("jev", x))
Replayed(x) == IF x \in Reworded THEN "abstained" ELSE Outcome(answers["laya"][x], answers["jev"][x])

(* A subject's record is read the same with and without the calibration.   *)
Unmoved(x) == x \notin Reworded /\ \A m \in DecisionModels : Read(m, x) = answers[m][x]

(* One reply, to whoever holds the conversation.                           *)
MayReply(conv, reply) ==
    \/ conv.at = "laya" /\ reply \in Replies("laya", conv.on, LayaReplies)
    \/ conv.at \in {"jev", "shadow"} /\ reply \in Replies("jev", conv.on, JevReplies)

(* Mutation: the reply is used as it was given.                            *)
HeardRaw(conv, reply) == IF conv.at = "laya" THEN AfterLaya(conv, reply) ELSE AfterJev(conv, reply)
Heard(conv, reply) ==
    IF conv.at = "laya" THEN AfterLaya(conv, Calibrated("laya", conv.on, reply))
    ELSE AfterJev(conv, Calibrated("jev", conv.on, reply))
Keeps(conv, reply) == Recorded(IF conv.at = "laya" THEN "laya" ELSE "jev", conv.on, reply)

CascadeInit == answers = [m \in DecisionModels |-> [x \in Subjects |-> None]]
=============================================================================

----------------------------- MODULE MCAdvice -------------------------------
(* Four announcements through a window of two; one proposal in three books;*)
(* two label calls; a paid model and a free fallback of another provider.  *)
(* Calibration makes Laya less sure of one item and surer of another.      *)
EXTENDS Advice

MCProposals == <<9>>
MCBooks == <<"B", "C", "D">>
MCAdvisorOf == [B |-> "typed_veto", C |-> "llm_veto", D |-> "absent"]
MCSubjects == Items \cup {9}
Plainly == [r \in Given |-> r]
Uncalibrated == [m \in DecisionModels |-> [x \in MCSubjects |-> Plainly]]
MCCalibration ==
    [Uncalibrated EXCEPT !["laya"][1] = [Plainly EXCEPT !["no"] = "band"],
                         !["laya"][4] = [Plainly EXCEPT !["band"] = "no"]]
MCProviderOf == [paid |-> "v1", free |-> "v2"]
MCPrice == [paid |-> 1, free |-> 0]
MCRoleOf == [p \in Prompts |-> IF p = 9 THEN "engine" ELSE "labels"]
MCChain == [engine |-> <<"paid", "free">>, labels |-> <<"paid">>]

Scenario(items, cycles, labels, ticks, faults) ==
    [news |-> items > 0, items |-> items, cycles |-> cycles, labels |-> labels, ticks |-> ticks, faults |-> faults]
MCScenarios == {Scenario(4, 0, 0, 0, 1), Scenario(3, 0, 0, 0, 2), Scenario(1, 1, 0, 0, 1), Scenario(0, 3, 0, 2, 0),
                Scenario(0, 1, 1, 1, 1), Scenario(0, 0, 2, 3, 1), Scenario(0, 2, 0, 0, 1)}
=============================================================================

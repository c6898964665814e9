----------------------------- MODULE MCTestbed ------------------------------
(* A model-checking instance of Testbed.                                    *)
EXTENDS Testbed

MCLoad == [m \in {"nominal", "low_power", "safe", "off"} |->
             IF m = "nominal" THEN 1 ELSE 0]
MCOverride == {<<"battery_percent", 1>>, <<"powered", TRUE>>}
MCSpan == {[duration |-> 3, cycles |-> None], [duration |-> None, cycles |-> 1]}
MCOrder == <<"payload", "eps">>
MCSignals == [payload |-> <<"powered">>, eps |-> <<"battery_percent", "power_mode">>]
MCRules == <<[signal |-> "power_mode", value |-> "low_power",
              command |-> <<"payload", "power_off">>]>>
MCExpected == {<<"powered", FALSE>>, <<"power_mode", "low_power">>}
MCCommand == {<<"payload", "start_capture">>, <<"rail", FALSE>>, <<"mode", "low_power">>}

(* The premise of the theorem about FeedbackDies holds of this instance.    *)
ASSUME MCReportsFit == ReportsFit
=============================================================================

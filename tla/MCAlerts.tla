------------------------------ MODULE MCAlerts ------------------------------
(* Two reasons for a soft disable, which may take turns, an error, and the *)
(* code's order of durations in few frames.                                *)
EXTENDS Alerts
MCEvents == {"pcmEnable", "pcmDisable", "doorOpen", "commIssue", "canError"}
MCDuration ==
  [et \in ET |-> CASE et = "IMMEDIATE_DISABLE" -> TakeoverDuration
                   [] et \in {"SOFT_DISABLE", "WARNING"} -> 2
                   [] et = "NO_ENTRY" -> 3
                   [] OTHER -> 1]
=============================================================================

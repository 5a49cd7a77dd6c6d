------------------------- MODULE MCCelInterpretation -------------------------
(***************************************************************************)
(* A small call for CelInterpretation: the caller's line, and one line of  *)
(* the callee that may be dialed twice, or two lines.                      *)
(***************************************************************************)
EXTENDS CelInterpretation

Twice == <<"caller", "callee", "callee">>

Both == <<"caller", "callee", "second">>

(* What a call may be made of: recordings that are paused; users who miss, *)
(* block, are announced and answer; destinations that are announced,       *)
(* forwarded and dialed outside; extensions that come and go.              *)
Scenarios ==
    {[line |-> Twice,
      types |-> {"BRIDGE_ENTER", "MIXMONITOR_START", "MIXMONITOR_STOP"},
      extens |-> {"10"}, maxTime |-> 1, maxEvents |-> 4],
     [line |-> Twice,
      types |-> {"BRIDGE_ENTER", "WAZO_USER_MISSED_CALL", "WAZO_USER_BLOCKED_CALL",
                 "WAZO_CALL_LOG_DESTINATION"},
      extens |-> {"10"}, maxTime |-> 0, maxEvents |-> 3],
     [line |-> Both,
      types |-> {"BRIDGE_ENTER", "XIVO_INCALL", "XIVO_OUTCALL", "XIVO_USER_FWD",
                 "WAZO_CALL_LOG_DESTINATION", "WAZO_CALL_LOG_REQUESTED_INTERNAL"},
      extens |-> {"10", "20"}, maxTime |-> 0, maxEvents |-> 3],
     [line |-> Twice,
      types |-> {"APP_START", "ANSWER", "BRIDGE_ENTER", "XIVO_FROM_S", "WAZO_CONFERENCE",
                 "WAZO_MEETING_NAME"},
      extens |-> {"s", "10"}, maxTime |-> 0, maxEvents |-> 3]}

Users == ("caller" :> "alice") @@ ("callee" :> "bob") @@ ("second" :> "bob")

Extensions == ("caller" :> "1001") @@ ("callee" :> "1002") @@ ("second" :> "1003")
=============================================================================

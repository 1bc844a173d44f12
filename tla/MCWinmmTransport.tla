-------------------------- MODULE MCWinmmTransport --------------------------
(* Scenarios for WinmmTransport.  The destructor may come at any point of a  *)
(* plan.                                                                     *)
EXTENDS WinmmTransport

Scenario(messages, commands) == [script |-> messages, plan |-> commands]

(* Overflow around a long message; more long messages than buffers; a second *)
(* send after one that timed out; a close retried, and the device opened     *)
(* again.                                                                    *)
MCScenarios ==
  {Scenario(<<"short", "invalid", "long", "invalid", "short">>, <<"open">>),
   Scenario(<<"long", "longError", "long", "short">>, <<"open">>),
   Scenario(<<>>, <<"open", "send", "send">>),
   Scenario(<<"shortError", "long">>, <<"open", "close", "open">>)}

=============================================================================

--------------------------- MODULE MCStreamChannel ---------------------------
(***************************************************************************)
(* The two ends of the P4Runtime stream, one at a time: on the switch      *)
(* SdnControllerManager with all its connections, and on the controller    *)
(* P4RuntimeSession with its threads.                                      *)
(***************************************************************************)
EXTENDS SdnControllerManager, P4RuntimeSession

VARIABLE end   \* "switch" or "controller": the end that is looked at

allVars == <<vars, sessionVars, end>>

AtSwitch(A) == end = "switch" /\ A /\ UNCHANGED <<sessionVars, end>>
AtController(A) == end = "controller" /\ A /\ UNCHANGED <<vars, end>>

BothInit == Init /\ SessionInit /\ end \in {"switch", "controller"}

BothNext == AtSwitch(Next) \/ AtController(SessionNext)

\* The threads go on, and the switch closes a stream after WritesDone:
\* P4RuntimeImpl::StreamChannel returns when its Read fails.
BothFairness ==
  /\ WF_sessionVars(AtController(ReadFromStream)) /\ WF_sessionVars(AtController(QueueMessage))
  /\ WF_sessionVars(AtController(EndOfStream))
  /\ WF_sessionVars(AtController(stream_channel = "half_closed" /\ CloseByPeer))
  /\ \A c \in Callers : SF_sessionVars(AtController(Proceed(c)))

BothSpec == BothInit /\ [][BothNext]_allVars /\ BothFairness
=============================================================================

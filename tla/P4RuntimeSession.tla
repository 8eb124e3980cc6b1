--------------------------- MODULE P4RuntimeSession ---------------------------
(***************************************************************************)
(* A controller's end of the stream: p4_infra/p4_runtime/p4_runtime_session*)
(* with its read thread, its queue of messages and the threads that call   *)
(* it, from Create to the destructor.                                      *)
(*                                                                         *)
(*   switch -> responses -> CollectStreamReadMessages -> stream_messages   *)
(*   callers -> StreamChannelRead, HandleNextNStreamMessages,              *)
(*              GetAllStreamMessagesFor, StreamChannelWrite, Finish        *)
(*                                                                         *)
(* What is done under a lock without waiting is one step.  Three things    *)
(* wait under a lock: a callback runs under stream_read_lock_, and Finish  *)
(* joins the read thread, and gRPC may block a Write, under                *)
(* stream_write_lock_.  Await gives its lock back while it waits.          *)
(***************************************************************************)
EXTENDS Integers, Sequences, FiniteSets

CONSTANTS
  Callers,        \* threads that use the session; one of them created it
  NoCaller,       \* a lock nobody holds
  MaxResponses,   \* bound: messages the switch sends
  MaxCalls        \* bound: calls each thread makes

ASSUME SessionConstants == NoCaller \notin Callers /\ MaxResponses \in Nat /\ MaxCalls \in Nat

VARIABLES
  stream_channel,           \* gRPC: "open", "half_closed" by WritesDone, "closed" by the switch
  responses,        \* gRPC: what the switch sent and nobody has read yet
  read_thread,      \* what the thread read and has yet to queue; Ended after its loop
  stream_messages,  \* stream_messages_
  is_stream_up,     \* is_stream_up_
  is_finished,      \* is_finished_
  stream_read_lock, \* who holds stream_read_lock_ across a wait
  stream_write_lock,\* who holds stream_write_lock_ across a wait
  caller,           \* what each caller is at
  arbitrated,       \* what Create came to: "new", "asked", "primary", "backup" or "failed"
  sent, taken,      \* history: messages the switch sent; those that callers got
  calls             \* counter for the bound

sessionVars == <<stream_channel, responses, read_thread, stream_messages, is_stream_up, is_finished,
                 stream_read_lock, stream_write_lock, caller, arbitrated, sent, taken, calls>>

Ended == <<"ended">>
Waits == {"read", "read_until", "handle", "sleep"}
AtRest == [at |-> "rest", result |-> "none"]
Returns(c, result) == [caller EXCEPT ![c] = [at |-> "rest", result |-> result]]
Goes(c, at) == [caller EXCEPT ![c] = [at |-> at, result |-> "none"]]

\* The constructor: the stream is up before the read thread runs.
SessionInit ==
  /\ stream_channel = "open" /\ responses = <<>>
  /\ read_thread = <<>> /\ stream_messages = <<>>
  /\ is_stream_up = TRUE /\ is_finished = FALSE
  /\ stream_read_lock = NoCaller /\ stream_write_lock = NoCaller
  /\ caller = [c \in Callers |-> AtRest]
  /\ arbitrated = "new"
  /\ sent = <<>> /\ taken = <<>>
  /\ calls = [c \in Callers |-> 0]

callState == <<caller, arbitrated, taken, calls>>
queueState == <<stream_messages, is_stream_up>>
lockState == <<stream_read_lock, stream_write_lock>>

-----------------------------------------------------------------------------
(* The switch: it answers the request for arbitration first of all, then   *)
(* sends packets and news of other primaries.  It ends the stream after    *)
(* WritesDone (its Read fails), or whenever it goes down.                  *)

Respond(m) ==
  /\ stream_channel # "closed" /\ Len(sent) < MaxResponses /\ arbitrated # "new"
  /\ sent = <<>> => m # "packet"
  /\ responses' = Append(responses, m) /\ sent' = Append(sent, m)
  /\ UNCHANGED <<stream_channel, read_thread, queueState, is_finished, lockState, callState>>

CloseByPeer ==
  /\ stream_channel # "closed"
  /\ stream_channel' = "closed"
  /\ UNCHANGED <<responses, read_thread, queueState, is_finished, lockState, callState, sent>>

-----------------------------------------------------------------------------
(* CollectStreamReadMessages.                                              *)

ReadFromStream ==
  /\ read_thread = <<>> /\ responses # <<>>
  /\ read_thread' = <<Head(responses)>> /\ responses' = Tail(responses)
  /\ UNCHANGED <<stream_channel, queueState, is_finished, lockState, callState, sent>>

QueueMessage ==
  /\ read_thread \notin {<<>>, Ended} /\ stream_read_lock = NoCaller
  /\ stream_messages' = stream_messages \o read_thread /\ read_thread' = <<>>
  /\ UNCHANGED <<stream_channel, responses, is_stream_up, is_finished, lockState, callState, sent>>

\* Read fails when the stream is closed and all that was sent is read.
EndOfStream ==
  /\ read_thread = <<>> /\ responses = <<>> /\ stream_channel = "closed" /\ stream_read_lock = NoCaller
  /\ read_thread' = Ended /\ is_stream_up' = FALSE
  /\ UNCHANGED <<stream_channel, responses, stream_messages, is_finished, lockState, callState, sent>>

-----------------------------------------------------------------------------
(* The calls.  A caller begins one, waits, and returns.                    *)

Begin(c, at) ==
  /\ caller[c].at = "rest" /\ arbitrated \in {"primary", "backup"}
  /\ calls[c] < MaxCalls
  /\ calls' = [calls EXCEPT ![c] = @ + 1]
  /\ caller' = Goes(c, at)
  /\ UNCHANGED <<stream_channel, responses, read_thread, queueState, is_finished, lockState, arbitrated, sent, taken>>

\* The queue's first message, for the caller.
Pop(c, result) ==
  /\ taken' = Append(taken, Head(stream_messages)) /\ stream_messages' = Tail(stream_messages)
  /\ caller' = Returns(c, result)

\* Takes a message even if the stream is down; without one and without a
\* timeout it waits for either.
StreamChannelRead(c) ==
  /\ caller[c].at \in {"read", "read_until"} /\ stream_read_lock = NoCaller
  /\ \/ stream_messages # <<>> /\ Pop(c, "message")
     \/ /\ stream_messages = <<>> /\ (~is_stream_up \/ caller[c].at = "read_until")
        /\ caller' = Returns(c, "none left") /\ UNCHANGED <<stream_messages, taken>>
  /\ UNCHANGED <<stream_channel, responses, read_thread, is_stream_up, is_finished, lockState, arbitrated, sent, calls>>

\* The callback has the lock and sees the first message.
StartCallback(c) ==
  /\ caller[c].at = "handle" /\ stream_read_lock = NoCaller /\ stream_messages # <<>>
  /\ stream_read_lock' = c /\ caller' = Goes(c, "callback")
  /\ UNCHANGED <<stream_channel, responses, read_thread, queueState, is_finished, stream_write_lock, arbitrated, sent, taken, calls>>

\* Mutation: the message is gone before the callback says what it made of it.
EndCallbackPopsFirst(c) ==
  /\ caller[c].at = "callback"
  /\ stream_read_lock' = NoCaller
  /\ \/ Pop(c, "handled")
     \/ stream_messages' = Tail(stream_messages) /\ caller' = Returns(c, "callback failed") /\ UNCHANGED taken
  /\ UNCHANGED <<stream_channel, responses, read_thread, is_stream_up, is_finished, stream_write_lock, arbitrated, sent, calls>>

\* Handled, ignored, or an error: then the message stays where it is.
EndCallback(c) ==
  /\ caller[c].at = "callback"
  /\ stream_read_lock' = NoCaller
  /\ \/ Pop(c, "handled")
     \/ /\ taken' = Append(taken, Head(stream_messages)) /\ stream_messages' = Tail(stream_messages)
        /\ caller' = Goes(c, "handle")
     \/ caller' = Returns(c, "callback failed") /\ UNCHANGED <<stream_messages, taken>>
  /\ UNCHANGED <<stream_channel, responses, read_thread, is_stream_up, is_finished, stream_write_lock, arbitrated, sent, calls>>

\* The deadline of HandleNextNStreamMessages: a stream that is down is only
\* noticed here.
HandleDeadline(c) ==
  /\ caller[c].at = "handle" /\ stream_read_lock = NoCaller /\ stream_messages = <<>>
  /\ caller' = Returns(c, IF is_stream_up THEN "DEADLINE_EXCEEDED" ELSE "UNAVAILABLE")
  /\ UNCHANGED <<stream_channel, responses, read_thread, queueState, is_finished, lockState, arbitrated, sent, taken, calls>>

\* Everything that is queued, but nothing when the stream is down.
GetAllStreamMessagesFor(c) ==
  /\ caller[c].at = "sleep" /\ stream_read_lock = NoCaller
  /\ IF is_stream_up
     THEN /\ taken' = taken \o stream_messages /\ stream_messages' = <<>> /\ caller' = Returns(c, "messages")
     ELSE caller' = Returns(c, "UNAVAILABLE") /\ UNCHANGED <<taken, stream_messages>>
  /\ UNCHANGED <<stream_channel, responses, read_thread, is_stream_up, is_finished, lockState, arbitrated, sent, calls>>

\* False after WritesDone, and when the stream is broken.
StreamChannelWrite(c) ==
  /\ caller[c].at = "write" /\ stream_write_lock = NoCaller
  /\ caller' = Returns(c, IF ~is_finished /\ stream_channel = "open" THEN "written" ELSE "not written")
  /\ UNCHANGED <<stream_channel, responses, read_thread, queueState, is_finished, lockState, arbitrated, sent, taken, calls>>

\* Mutation: the queue is locked before the thread that fills it is joined.
StartFinishLocked(c) ==
  /\ caller[c].at = "finish" /\ stream_write_lock = NoCaller
  /\ IF is_finished
     THEN caller' = Returns(c, "finished before") /\ UNCHANGED <<stream_channel, is_finished, lockState>>
     ELSE /\ stream_read_lock = NoCaller
          /\ is_finished' = TRUE /\ caller' = Goes(c, "join")
          /\ stream_channel' = IF stream_channel = "open" THEN "half_closed" ELSE stream_channel
          /\ stream_write_lock' = c /\ stream_read_lock' = c
  /\ UNCHANGED <<responses, read_thread, queueState, arbitrated, sent, taken, calls>>

\* ReadStreamChannelResponsesAndFinish, up to the join.
StartFinish(c) ==
  /\ caller[c].at = "finish" /\ stream_write_lock = NoCaller
  /\ IF is_finished
     THEN caller' = Returns(c, "finished before") /\ UNCHANGED <<stream_channel, is_finished, lockState>>
     ELSE /\ is_finished' = TRUE /\ caller' = Goes(c, "join")
          /\ stream_channel' = IF stream_channel = "open" THEN "half_closed" ELSE stream_channel
          /\ stream_write_lock' = c /\ UNCHANGED stream_read_lock
  /\ UNCHANGED <<responses, read_thread, queueState, arbitrated, sent, taken, calls>>

\* The join, the messages that are left, and Finish on the stream.
EndFinish(c) ==
  /\ caller[c].at = "join" /\ read_thread = Ended /\ stream_read_lock \in {NoCaller, c}
  /\ taken' = taken \o stream_messages /\ stream_messages' = <<>>
  /\ stream_write_lock' = NoCaller /\ stream_read_lock' = NoCaller
  /\ caller' = Returns(c, "finished")
  /\ UNCHANGED <<stream_channel, responses, read_thread, is_stream_up, is_finished, arbitrated, sent, calls>>

-----------------------------------------------------------------------------
(* Create, up to the session that is returned or destroyed.                *)

AskForArbitration(c) ==
  /\ arbitrated = "new"
  /\ IF stream_channel = "open" THEN arbitrated' = "asked" /\ caller' = Goes(c, "create")
     ELSE arbitrated' = "failed" /\ caller' = Goes(c, "finish")
  /\ UNCHANGED <<stream_channel, responses, read_thread, queueState, is_finished, lockState, sent, taken, calls>>

\* GetNextStreamMessage: the first message or the deadline.  A session that
\* is an error is destroyed.
Arbitrated(c) ==
  /\ caller[c].at = "create" /\ stream_read_lock = NoCaller
  /\ \E required \in BOOLEAN :
       IF stream_messages = <<>> THEN arbitrated' = "failed" /\ UNCHANGED <<stream_messages, taken>>
       ELSE /\ stream_messages' = Tail(stream_messages) /\ taken' = Append(taken, Head(stream_messages))
            /\ arbitrated' = CASE Head(stream_messages) = "packet" -> "failed"
                               [] Head(stream_messages) = "backup" /\ required -> "failed"
                               [] OTHER -> Head(stream_messages)
  /\ caller' = IF arbitrated' = "failed" THEN Goes(c, "finish") ELSE Returns(c, "created")
  /\ UNCHANGED <<stream_channel, responses, read_thread, is_stream_up, is_finished, lockState, sent, calls>>

SessionNext ==
  \/ \E m \in {"primary", "backup", "packet"} : Respond(m)
  \/ CloseByPeer \/ ReadFromStream \/ QueueMessage \/ EndOfStream
  \/ \E c \in Callers :
       \/ AskForArbitration(c) \/ Arbitrated(c)
       \/ \E at \in Waits \cup {"write", "finish"} : Begin(c, at)
       \/ StreamChannelRead(c) \/ StartCallback(c) \/ EndCallback(c) \/ HandleDeadline(c)
       \/ GetAllStreamMessagesFor(c) \/ StreamChannelWrite(c) \/ StartFinish(c) \/ EndFinish(c)

SessionSpec == SessionInit /\ [][SessionNext]_sessionVars

\* What a caller does without being asked: it has begun a call and goes on.
Proceed(c) ==
  \/ Arbitrated(c) \/ StreamChannelRead(c) \/ StartCallback(c) \/ EndCallback(c) \/ HandleDeadline(c)
  \/ GetAllStreamMessagesFor(c) \/ StreamChannelWrite(c) \/ StartFinish(c) \/ EndFinish(c)

-----------------------------------------------------------------------------
(* Properties.                                                             *)

\* Every message the switch sends is given to one caller, once and in the
\* order it was sent, whichever calls the threads make at the same time: it
\* is on its way, in the hands of the read thread, queued, or taken.
MessagesAreTakenOnceInOrder ==
  taken \o stream_messages \o (IF read_thread = Ended THEN <<>> ELSE read_thread) \o responses = sent

\* Every call comes to an end: those with a deadline by it, a read without
\* one if the stream goes down, and Finish, and with it the destructor, if
\* the switch closes a stream that it will get no more requests on.  No
\* thread waits for a lock for ever.
CallsReturn ==
  \A c \in Callers :
    /\ caller[c].at \notin {"rest", "read"} ~> caller[c].at = "rest"
    /\ caller[c].at = "read" /\ stream_channel = "closed" ~> caller[c].at = "rest"
===============================================================================

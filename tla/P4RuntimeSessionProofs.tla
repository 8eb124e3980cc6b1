----------------------- MODULE P4RuntimeSessionProofs -----------------------
(***************************************************************************)
(* Proofs about P4RuntimeSession, for any number of threads and messages.  *)
(*                                                                         *)
(* A message is lost or taken twice if one thread pops the queue while a   *)
(* callback looks at its first message.  So the inductive invariant says,  *)
(* besides the property, who holds stream_read_lock_ across a wait         *)
(* (CallbackHasTheQueue) and that no call runs before Create does          *)
(* (NobodyCallsBeforeCreate).                                              *)
(***************************************************************************)
EXTENDS P4RuntimeSession, SequenceTheorems, TLAPS

Messages == {"primary", "backup", "packet"}

\* Where a caller can be, and what a call can return.
Ats == {"rest", "read", "read_until", "handle", "callback", "sleep", "write", "finish", "join", "create"}
Results == {"none", "message", "none left", "handled", "callback failed", "DEADLINE_EXCEEDED",
            "UNAVAILABLE", "messages", "written", "not written", "finished before", "finished",
            "created"}
States == [at : Ats, result : Results]

\* The types of what the property is about.
TypeOK ==
  /\ responses \in Seq(Messages) /\ stream_messages \in Seq(Messages)
  /\ taken \in Seq(Messages) /\ sent \in Seq(Messages)
  /\ read_thread \in Seq(Messages) \cup {Ended}
  /\ stream_read_lock \in Callers \cup {NoCaller}
  /\ caller \in [Callers -> States]

\* A callback runs under stream_read_lock_, nobody else holds it across a
\* wait, and the message the callback was given is still the queue's first.
CallbackHasTheQueue ==
  /\ \A c \in Callers : caller[c].at = "callback" <=> stream_read_lock = c
  /\ stream_read_lock # NoCaller => stream_messages # <<>>

NobodyCallsBeforeCreate == arbitrated = "new" => \A c \in Callers : caller[c].at = "rest"

IndInv == TypeOK /\ CallbackHasTheQueue /\ NobodyCallsBeforeCreate /\ MessagesAreTakenOnceInOrder

\* What the read thread holds.
InHand == IF read_thread = Ended THEN <<>> ELSE read_thread

-----------------------------------------------------------------------------
(* Sequences.                                                              *)

\* Moving the first message of s to the end of t moves nothing else.
LEMMA MoveHead ==
  ASSUME NEW S, NEW t \in Seq(S), NEW s \in Seq(S), s # <<>>
  PROVE  Append(t, Head(s)) \o Tail(s) = t \o s
  <1>1. Head(s) \in S /\ Tail(s) \in Seq(S) /\ Len(Tail(s)) = Len(s) - 1
    BY HeadTailProperties
  <1>2. \A i \in 1..Len(Tail(s)) : Tail(s)[i] = s[i + 1]
    BY HeadTailProperties
  <1>3. Append(t, Head(s)) \in Seq(S) /\ Len(Append(t, Head(s))) = Len(t) + 1
    BY <1>1, AppendProperties
  <1>4. /\ \A i \in 1..Len(t) : Append(t, Head(s))[i] = t[i]
        /\ Append(t, Head(s))[Len(t) + 1] = s[1]
    BY <1>1, AppendProperties
  <1> DEFINE u == Append(t, Head(s))
             r == Tail(s)
  <1> HIDE DEF u, r
  <1>5. /\ u \o r \in Seq(S) /\ Len(u \o r) = Len(u) + Len(r)
        /\ \A i \in 1..(Len(u) + Len(r)) : (u \o r)[i] = IF i <= Len(u) THEN u[i] ELSE r[i - Len(u)]
    BY <1>1, <1>3, ConcatProperties DEF u, r
  <1>6. /\ t \o s \in Seq(S) /\ Len(t \o s) = Len(t) + Len(s)
        /\ \A i \in 1..(Len(t) + Len(s)) : (t \o s)[i] = IF i <= Len(t) THEN t[i] ELSE s[i - Len(t)]
    BY ConcatProperties
  <1>7. Len(t) \in Nat /\ Len(s) \in Nat /\ Len(r) = Len(s) - 1 /\ Len(u) = Len(t) + 1
    BY <1>1, <1>3, LenProperties DEF u, r
  <1>8. \A i \in 1..(Len(t) + Len(s)) : (u \o r)[i] = (t \o s)[i]
    <2> SUFFICES ASSUME NEW i \in 1..(Len(t) + Len(s)) PROVE (u \o r)[i] = (t \o s)[i]
      OBVIOUS
    <2>1. (u \o r)[i] = IF i <= Len(u) THEN u[i] ELSE r[i - Len(u)]
      BY <1>5, <1>7
    <2>2. (t \o s)[i] = IF i <= Len(t) THEN t[i] ELSE s[i - Len(t)]
      BY <1>6
    <2>3. CASE i <= Len(t)
      BY <1>4, <1>7, <2>1, <2>2, <2>3 DEF u
    <2>4. CASE i = Len(t) + 1
      BY <1>4, <1>7, <2>1, <2>2, <2>4 DEF u
    <2>5. CASE i > Len(t) + 1
      <3>1. r[i - Len(u)] = s[i - Len(u) + 1]
        BY <1>2, <1>7, <2>5 DEF r
      <3>2. i - Len(u) + 1 = i - Len(t)
        BY <1>7
      <3> QED BY <1>7, <2>1, <2>2, <2>5, <3>1, <3>2
    <2> QED BY <1>7, <2>3, <2>4, <2>5
  <1>9. u \o r = t \o s
    <2>1. Len(u \o r) = Len(t) + Len(s) /\ Len(t \o s) = Len(t) + Len(s)
      BY <1>5, <1>6, <1>7
    <2> HIDE DEF u, r
    <2> QED BY <1>5, <1>6, <1>8, <2>1, SeqEqual
  <1> QED BY <1>9 DEF u, r

-----------------------------------------------------------------------------
(* The inductive invariant holds initially and is preserved.               *)

\* The constructor establishes it.
LEMMA InitIndInv == SessionInit => IndInv
  <1> SUFFICES ASSUME SessionInit PROVE IndInv
    OBVIOUS
  <1>1. TypeOK
    <2>1. <<>> \in Seq(Messages)
      OBVIOUS
    <2>2. caller \in [Callers -> States]
      <3>1. AtRest \in States
        BY DEF AtRest, States, Ats, Results
      <3> QED BY <3>1 DEF SessionInit
    <2> QED BY <2>1, <2>2 DEF SessionInit, TypeOK
  <1>2. CallbackHasTheQueue
    BY SessionConstants DEF SessionInit, CallbackHasTheQueue, AtRest
  <1>3. NobodyCallsBeforeCreate
    BY DEF SessionInit, NobodyCallsBeforeCreate, AtRest
  <1>4. MessagesAreTakenOnceInOrder
    <2>1. <<>> \in Seq(Messages)
      OBVIOUS
    <2>2. taken = <<>> /\ stream_messages = <<>> /\ InHand = <<>> /\ responses = <<>> /\ sent = <<>>
      BY DEF SessionInit, InHand
    <2> QED BY <2>1, <2>2, ConcatEmptySeq DEF MessagesAreTakenOnceInOrder, InHand
  <1> QED BY <1>1, <1>2, <1>3, <1>4 DEF IndInv

\* What the invariant says of the four places a message can be.
LEMMA Places ==
  ASSUME IndInv
  PROVE  /\ taken \in Seq(Messages) /\ stream_messages \in Seq(Messages) /\ InHand \in Seq(Messages)
         /\ responses \in Seq(Messages) /\ sent \in Seq(Messages)
         /\ taken \o stream_messages \o InHand \o responses = sent
  BY EmptySeq DEF IndInv, TypeOK, MessagesAreTakenOnceInOrder, InHand

\* The switch sends a message: it is the last of those on their way.
LEMMA RespondInv ==
  ASSUME IndInv, NEW m \in Messages, Respond(m)
  PROVE  IndInv'
  <1>0. UNCHANGED <<taken, stream_messages, read_thread, stream_read_lock, caller, arbitrated>>
    BY DEF Respond, queueState, lockState, callState
  <1>1. responses' = Append(responses, m) /\ sent' = Append(sent, m)
    BY DEF Respond
  <1>2. TypeOK'
    BY <1>0, <1>1, AppendProperties DEF IndInv, TypeOK
  <1>3. CallbackHasTheQueue' /\ NobodyCallsBeforeCreate'
    BY <1>0 DEF IndInv, CallbackHasTheQueue, NobodyCallsBeforeCreate
  <1>4. MessagesAreTakenOnceInOrder'
    <2> DEFINE before == taken \o stream_messages \o InHand
    <2>1. before \in Seq(Messages) /\ before \o responses = sent /\ responses \in Seq(Messages)
      BY Places, ConcatProperties
    <2>2. <<m>> \in Seq(Messages)
      OBVIOUS
    <2> HIDE DEF before
    <2>3. before \o (responses \o <<m>>) = (before \o responses) \o <<m>>
      BY <2>1, <2>2, ConcatAssociative
    <2>4. responses' = responses \o <<m>> /\ sent' = sent \o <<m>>
      BY <1>1, Places, AppendIsConcat
    <2>5. before \o responses' = sent'
      BY <2>1, <2>3, <2>4
    <2> QED BY <1>0, <2>5 DEF before, MessagesAreTakenOnceInOrder, InHand
  <1> QED BY <1>2, <1>3, <1>4 DEF IndInv

\* The read thread takes the first message that is on its way.
LEMMA ReadFromStreamInv ==
  ASSUME IndInv, ReadFromStream
  PROVE  IndInv'
  <1>0. UNCHANGED <<taken, stream_messages, sent, stream_read_lock, caller, arbitrated>>
    BY DEF ReadFromStream, queueState, lockState, callState
  <1>1. /\ read_thread = <<>> /\ responses # <<>>
        /\ read_thread' = <<Head(responses)>> /\ responses' = Tail(responses)
    BY DEF ReadFromStream
  <1>2. Head(responses) \in Messages /\ Tail(responses) \in Seq(Messages)
    BY <1>1, HeadTailProperties DEF IndInv, TypeOK
  <1>3. TypeOK'
    <2>1. read_thread' \in Seq(Messages)
      BY <1>1, <1>2
    <2> QED BY <1>0, <1>1, <1>2, <2>1 DEF IndInv, TypeOK
  <1>4. CallbackHasTheQueue' /\ NobodyCallsBeforeCreate'
    BY <1>0 DEF IndInv, CallbackHasTheQueue, NobodyCallsBeforeCreate
  <1>5. MessagesAreTakenOnceInOrder'
    <2> DEFINE before == taken \o stream_messages
               h == <<Head(responses)>>
               t == Tail(responses)
    <2>1. before \in Seq(Messages) /\ responses \in Seq(Messages)
      BY Places, ConcatProperties
    <2>2. h \in Seq(Messages) /\ t \in Seq(Messages) /\ <<>> \in Seq(Messages)
      BY <1>2
    <2>3. before \o responses = sent
      <3>1. before \o InHand = before
        BY <1>1, <2>1, ConcatEmptySeq DEF InHand, Ended
      <3> QED BY <3>1, Places
    <2>4. h \o t = responses
      <3>1. Append(<<>>, Head(responses)) \o t = <<>> \o responses
        BY <1>1, <2>1, <2>2, MoveHead
      <3>2. <<>> \o responses = responses
        BY <2>1, ConcatEmptySeq
      <3>3. Append(<<>>, Head(responses)) = h
        OBVIOUS
      <3> QED BY <3>1, <3>2, <3>3
    <2>5. (before \o h) \o t = before \o (h \o t)
      <3> HIDE DEF before, h, t
      <3> QED BY <2>1, <2>2, ConcatAssociative
    <2>6. read_thread' # Ended
      BY <1>1, <1>2 DEF Ended, Messages
    <2> QED BY <1>0, <1>1, <2>3, <2>4, <2>5, <2>6 DEF MessagesAreTakenOnceInOrder
  <1> QED BY <1>3, <1>4, <1>5 DEF IndInv

\* The read thread queues the message it holds.
LEMMA QueueMessageInv ==
  ASSUME IndInv, QueueMessage
  PROVE  IndInv'
  <1>0. UNCHANGED <<taken, responses, sent, stream_read_lock, caller, arbitrated>>
    BY DEF QueueMessage, lockState, callState
  <1>1. /\ read_thread \notin {<<>>, Ended} /\ stream_read_lock = NoCaller
        /\ stream_messages' = stream_messages \o read_thread /\ read_thread' = <<>>
    BY DEF QueueMessage
  <1>2. InHand = read_thread
    BY <1>1 DEF InHand
  <1>3. stream_messages' \in Seq(Messages) /\ <<>> \in Seq(Messages)
    BY <1>1, <1>2, Places, ConcatProperties
  <1>4. TypeOK'
    BY <1>0, <1>1, <1>3 DEF IndInv, TypeOK
  <1>5. CallbackHasTheQueue' /\ NobodyCallsBeforeCreate'
    BY <1>0, <1>1 DEF IndInv, CallbackHasTheQueue, NobodyCallsBeforeCreate
  <1>6. MessagesAreTakenOnceInOrder'
    <2>1. taken \o (stream_messages \o InHand) = (taken \o stream_messages) \o InHand
      <3>1. taken \in Seq(Messages) /\ stream_messages \in Seq(Messages) /\ InHand \in Seq(Messages)
        BY Places
      <3> QED BY ONLY <3>1, ConcatAssociative
    <2>2. taken \o (stream_messages \o InHand) \in Seq(Messages)
      BY Places, ConcatProperties
    <2>3. (taken \o (stream_messages \o InHand)) \o <<>> = taken \o (stream_messages \o InHand)
      BY <2>2, ConcatEmptySeq
    <2>4. read_thread' # Ended
      BY <1>1 DEF Ended
    <2> QED BY <1>0, <1>1, <1>2, <2>1, <2>3, <2>4, Places DEF MessagesAreTakenOnceInOrder
  <1> QED BY <1>4, <1>5, <1>6 DEF IndInv

\* The stream ends when the thread holds nothing.
LEMMA EndOfStreamInv ==
  ASSUME IndInv, EndOfStream
  PROVE  IndInv'
  <1>0. UNCHANGED <<taken, stream_messages, responses, sent, stream_read_lock, caller, arbitrated>>
    BY DEF EndOfStream, lockState, callState
  <1>1. read_thread = <<>> /\ read_thread' = Ended
    BY DEF EndOfStream
  <1>2. TypeOK'
    BY <1>0, <1>1 DEF IndInv, TypeOK
  <1>3. CallbackHasTheQueue' /\ NobodyCallsBeforeCreate'
    BY <1>0 DEF IndInv, CallbackHasTheQueue, NobodyCallsBeforeCreate
  <1>4. MessagesAreTakenOnceInOrder'
    <2>1. InHand' = <<>> /\ InHand = <<>>
      BY <1>1 DEF InHand, Ended
    <2> QED BY <1>0, <2>1, Places DEF MessagesAreTakenOnceInOrder, InHand
  <1> QED BY <1>2, <1>3, <1>4 DEF IndInv

-----------------------------------------------------------------------------
(* What callers do with the queue: nothing, take its first message, or     *)
(* take all of it.                                                         *)

\* The places of the messages after a step of a caller.
MessagesStay == UNCHANGED <<taken, stream_messages>>
FirstIsTaken ==
  /\ stream_messages # <<>>
  /\ taken' = Append(taken, Head(stream_messages)) /\ stream_messages' = Tail(stream_messages)
AllAreTaken == taken' = taken \o stream_messages /\ stream_messages' = <<>>

\* None of the three loses, repeats or reorders a message.
LEMMA TakingKeepsOrder ==
  ASSUME IndInv, MessagesStay \/ FirstIsTaken \/ AllAreTaken,
         UNCHANGED <<responses, read_thread, sent>>
  PROVE  /\ taken' \in Seq(Messages) /\ stream_messages' \in Seq(Messages)
         /\ MessagesAreTakenOnceInOrder'
  <1>1. /\ taken' \in Seq(Messages) /\ stream_messages' \in Seq(Messages)
        /\ taken' \o stream_messages' = taken \o stream_messages
    <2>1. CASE MessagesStay
      BY <2>1, Places DEF MessagesStay
    <2>2. CASE FirstIsTaken
      BY <2>2, Places, HeadTailProperties, AppendProperties, MoveHead DEF FirstIsTaken
    <2>3. CASE AllAreTaken
      BY <2>3, Places, ConcatProperties, ConcatEmptySeq, EmptySeq DEF AllAreTaken
    <2> QED BY <2>1, <2>2, <2>3
  <1>2. InHand' = InHand
    BY DEF InHand
  <1> QED BY <1>1, <1>2, Places DEF MessagesAreTakenOnceInOrder, InHand

\* A caller that takes messages has the lock for itself: the first message of
\* a callback that runs stays.
LEMMA CallerStepInv ==
  ASSUME IndInv, NEW c \in Callers, NEW now \in States,
         caller' = [caller EXCEPT ![c] = now],
         MessagesStay \/ FirstIsTaken \/ AllAreTaken,
         UNCHANGED <<responses, read_thread, sent>>,
         \/ /\ now.at # "callback" /\ caller[c].at # "callback" /\ UNCHANGED stream_read_lock
            /\ stream_read_lock = NoCaller \/ MessagesStay
         \/ now.at # "callback" /\ stream_read_lock \in {NoCaller, c} /\ stream_read_lock' = NoCaller
         \/ /\ now.at = "callback" /\ stream_read_lock = NoCaller /\ stream_read_lock' = c
            /\ MessagesStay /\ stream_messages # <<>>,
         arbitrated' # "new"
  PROVE  IndInv'
  <1>1. /\ taken' \in Seq(Messages) /\ stream_messages' \in Seq(Messages)
        /\ MessagesAreTakenOnceInOrder'
    BY TakingKeepsOrder
  <1>2. caller' \in [Callers -> States]
    BY DEF IndInv, TypeOK
  <1>3. TypeOK'
    BY <1>1, <1>2 DEF IndInv, TypeOK
  <1>4. \A d \in Callers : caller'[d] = IF d = c THEN now ELSE caller[d]
    BY DEF IndInv, TypeOK
  <1>5. \A d \in Callers : caller[d].at = "callback" <=> stream_read_lock = d
    BY DEF IndInv, CallbackHasTheQueue
  <1>6. stream_read_lock # NoCaller => stream_messages # <<>>
    BY DEF IndInv, CallbackHasTheQueue
  <1>7. CallbackHasTheQueue'
    BY <1>4, <1>5, <1>6, SessionConstants DEF CallbackHasTheQueue, MessagesStay
  <1>8. NobodyCallsBeforeCreate'
    BY DEF NobodyCallsBeforeCreate
  <1> QED BY <1>1, <1>3, <1>7, <1>8 DEF IndInv

\* A caller that is not at rest is in a session that Create has begun.
LEMMA CreateHasBegun ==
  ASSUME IndInv, NEW c \in Callers, caller[c].at # "rest"
  PROVE  arbitrated # "new"
  BY DEF IndInv, NobodyCallsBeforeCreate

-----------------------------------------------------------------------------
(* The steps of the callers.                                               *)

\* A call begins.
LEMMA BeginInv ==
  ASSUME IndInv, NEW c \in Callers, NEW at \in Waits \cup {"write", "finish"}, Begin(c, at)
  PROVE  IndInv'
  <1> DEFINE now == [at |-> at, result |-> "none"]
  <1>1. now \in States /\ now.at = at /\ at # "callback"
    BY DEF Waits, States, Ats, Results
  <1>2. /\ caller' = [caller EXCEPT ![c] = now] /\ caller[c].at = "rest"
        /\ MessagesStay /\ UNCHANGED <<responses, read_thread, sent, stream_read_lock>>
        /\ arbitrated' # "new"
    BY DEF Begin, Goes, MessagesStay, queueState, lockState
  <1> HIDE DEF now
  <1> QED BY <1>1, <1>2, CallerStepInv

\* StreamChannelRead takes the first message, or returns without one.
LEMMA StreamChannelReadInv ==
  ASSUME IndInv, NEW c \in Callers, StreamChannelRead(c)
  PROVE  IndInv'
  <1>1. PICK result \in Results : caller' = Returns(c, result) /\ (MessagesStay \/ FirstIsTaken)
    BY DEF Results, StreamChannelRead, Pop, MessagesStay, FirstIsTaken
  <1> DEFINE now == [at |-> "rest", result |-> result]
  <1>2. now \in States /\ now.at # "callback"
    BY DEF States, Ats, Results
  <1>3. caller' = [caller EXCEPT ![c] = now]
    BY <1>1 DEF Returns
  <1>4. caller[c].at # "callback" /\ caller[c].at # "rest" /\ stream_read_lock = NoCaller
    BY DEF StreamChannelRead
  <1>5. UNCHANGED <<responses, read_thread, sent, stream_read_lock, arbitrated>>
    BY DEF StreamChannelRead, lockState
  <1> HIDE DEF now
  <1> QED BY <1>1, <1>2, <1>3, <1>4, <1>5, CreateHasBegun, CallerStepInv

\* A callback starts, with the lock.
LEMMA StartCallbackInv ==
  ASSUME IndInv, NEW c \in Callers, StartCallback(c)
  PROVE  IndInv'
  <1> DEFINE now == [at |-> "callback", result |-> "none"]
  <1>1. now \in States /\ now.at = "callback"
    BY DEF States, Ats, Results
  <1>2. /\ caller' = [caller EXCEPT ![c] = now] /\ caller[c].at # "rest"
        /\ stream_read_lock = NoCaller /\ stream_read_lock' = c /\ stream_messages # <<>>
        /\ MessagesStay /\ UNCHANGED <<responses, read_thread, sent, arbitrated>>
    BY DEF StartCallback, Goes, MessagesStay, queueState
  <1> HIDE DEF now
  <1> QED BY <1>1, <1>2, CreateHasBegun, CallerStepInv

\* A callback ends: the lock it gives back was its own.
LEMMA EndCallbackInv ==
  ASSUME IndInv, NEW c \in Callers, EndCallback(c)
  PROVE  IndInv'
  <1>1. stream_read_lock = c /\ stream_messages # <<>>
    BY SessionConstants DEF EndCallback, IndInv, CallbackHasTheQueue
  <1>2. PICK at \in {"rest", "handle"}, result \in Results :
          /\ caller' = [caller EXCEPT ![c] = [at |-> at, result |-> result]]
          /\ MessagesStay \/ FirstIsTaken
    BY <1>1 DEF Results, EndCallback, Pop, Returns, Goes, MessagesStay, FirstIsTaken
  <1> DEFINE now == [at |-> at, result |-> result]
  <1>3. now \in States /\ now.at # "callback"
    BY DEF States, Ats, Results
  <1>4. caller[c].at # "rest" /\ stream_read_lock' = NoCaller
    BY DEF EndCallback
  <1>5. UNCHANGED <<responses, read_thread, sent, arbitrated>>
    BY DEF EndCallback
  <1>6. caller' = [caller EXCEPT ![c] = now]
    BY <1>2
  <1> HIDE DEF now
  <1> QED BY <1>1, <1>2, <1>3, <1>4, <1>5, <1>6, CreateHasBegun, CallerStepInv

\* A call that returns without having touched the queue.
LEMMA ReturnsInv ==
  ASSUME IndInv, NEW c \in Callers, HandleDeadline(c) \/ StreamChannelWrite(c)
  PROVE  IndInv'
  <1>1. PICK result \in Results : caller' = Returns(c, result)
    BY DEF Results, HandleDeadline, StreamChannelWrite
  <1> DEFINE now == [at |-> "rest", result |-> result]
  <1>2. now \in States /\ now.at # "callback"
    BY DEF States, Ats, Results
  <1>3. caller' = [caller EXCEPT ![c] = now]
    BY <1>1 DEF Returns
  <1>4. caller[c].at # "callback" /\ caller[c].at # "rest"
    BY DEF HandleDeadline, StreamChannelWrite
  <1>5. MessagesStay /\ UNCHANGED <<responses, read_thread, sent, stream_read_lock, arbitrated>>
    BY DEF HandleDeadline, StreamChannelWrite, MessagesStay, queueState, lockState
  <1> HIDE DEF now
  <1> QED BY <1>2, <1>3, <1>4, <1>5, CreateHasBegun, CallerStepInv

\* GetAllStreamMessagesFor takes everything that is queued.
LEMMA GetAllStreamMessagesForInv ==
  ASSUME IndInv, NEW c \in Callers, GetAllStreamMessagesFor(c)
  PROVE  IndInv'
  <1>1. PICK result \in Results : caller' = Returns(c, result) /\ (MessagesStay \/ AllAreTaken)
    BY DEF Results, GetAllStreamMessagesFor, MessagesStay, AllAreTaken
  <1> DEFINE now == [at |-> "rest", result |-> result]
  <1>2. now \in States /\ now.at # "callback"
    BY DEF States, Ats, Results
  <1>3. caller' = [caller EXCEPT ![c] = now]
    BY <1>1 DEF Returns
  <1>4. caller[c].at # "callback" /\ caller[c].at # "rest" /\ stream_read_lock = NoCaller
    BY DEF GetAllStreamMessagesFor
  <1>5. UNCHANGED <<responses, read_thread, sent, stream_read_lock, arbitrated>>
    BY DEF GetAllStreamMessagesFor, lockState
  <1> HIDE DEF now
  <1> QED BY <1>1, <1>2, <1>3, <1>4, <1>5, CreateHasBegun, CallerStepInv

\* Finish up to the join.
LEMMA StartFinishInv ==
  ASSUME IndInv, NEW c \in Callers, StartFinish(c)
  PROVE  IndInv'
  <1>1. PICK at \in {"rest", "join"}, result \in Results :
          caller' = [caller EXCEPT ![c] = [at |-> at, result |-> result]]
    BY DEF Results, StartFinish, Returns, Goes
  <1> DEFINE now == [at |-> at, result |-> result]
  <1>2. now \in States /\ now.at # "callback"
    BY DEF States, Ats, Results
  <1>3. caller' = [caller EXCEPT ![c] = now]
    BY <1>1
  <1>4. caller[c].at # "callback" /\ caller[c].at # "rest"
    BY DEF StartFinish
  <1>5. MessagesStay /\ UNCHANGED <<responses, read_thread, sent, stream_read_lock, arbitrated>>
    BY DEF StartFinish, MessagesStay, queueState, lockState
  <1> HIDE DEF now
  <1> QED BY <1>2, <1>3, <1>4, <1>5, CreateHasBegun, CallerStepInv

\* Finish from the join on: what is left in the queue is taken.
LEMMA EndFinishInv ==
  ASSUME IndInv, NEW c \in Callers, EndFinish(c)
  PROVE  IndInv'
  <1> DEFINE now == [at |-> "rest", result |-> "finished"]
  <1>1. now \in States /\ now.at # "callback"
    BY DEF States, Ats, Results
  <1>2. /\ caller' = [caller EXCEPT ![c] = now] /\ caller[c].at # "rest"
        /\ stream_read_lock \in {NoCaller, c} /\ stream_read_lock' = NoCaller
        /\ AllAreTaken /\ UNCHANGED <<responses, read_thread, sent, arbitrated>>
    BY DEF EndFinish, Returns, AllAreTaken
  <1> HIDE DEF now
  <1> QED BY <1>1, <1>2, CreateHasBegun, CallerStepInv

\* Create sends its request: no other call has begun.
LEMMA AskForArbitrationInv ==
  ASSUME IndInv, NEW c \in Callers, AskForArbitration(c)
  PROVE  IndInv'
  <1>1. PICK at \in {"create", "finish"} : caller' = [caller EXCEPT ![c] = [at |-> at, result |-> "none"]]
    BY DEF AskForArbitration, Goes
  <1> DEFINE now == [at |-> at, result |-> "none"]
  <1>2. now \in States /\ now.at # "callback"
    BY DEF States, Ats, Results
  <1>3. caller' = [caller EXCEPT ![c] = now]
    BY <1>1
  <1>4. caller[c].at # "callback" /\ arbitrated' # "new"
    BY DEF AskForArbitration, IndInv, NobodyCallsBeforeCreate
  <1>5. MessagesStay /\ UNCHANGED <<responses, read_thread, sent, stream_read_lock>>
    BY DEF AskForArbitration, MessagesStay, queueState, lockState
  <1> HIDE DEF now
  <1> QED BY <1>2, <1>3, <1>4, <1>5, CallerStepInv

\* Create gets its answer, or none.
LEMMA ArbitratedInv ==
  ASSUME IndInv, NEW c \in Callers, Arbitrated(c)
  PROVE  IndInv'
  <1>1. MessagesStay \/ FirstIsTaken
    BY DEF Arbitrated, MessagesStay, FirstIsTaken
  <1>2. arbitrated' # "new"
    <2>1. stream_messages # <<>> => Head(stream_messages) \in Messages
      BY HeadTailProperties DEF IndInv, TypeOK
    <2>2. CASE stream_messages = <<>>
      BY <2>2 DEF Arbitrated
    <2>3. CASE stream_messages # <<>>
      <3>1. arbitrated' \in {"failed", Head(stream_messages)}
        BY <2>3 DEF Arbitrated
      <3> QED BY <2>1, <2>3, <3>1 DEF Messages
    <2> QED BY <2>2, <2>3
  <1>3. PICK at \in {"finish", "rest"}, result \in Results :
          caller' = [caller EXCEPT ![c] = [at |-> at, result |-> result]]
    BY DEF Results, Arbitrated, Returns, Goes
  <1> DEFINE now == [at |-> at, result |-> result]
  <1>4. now \in States /\ now.at # "callback"
    BY DEF States, Ats, Results
  <1>5. caller' = [caller EXCEPT ![c] = now]
    BY <1>3
  <1>6. caller[c].at # "callback" /\ stream_read_lock = NoCaller
    BY DEF Arbitrated
  <1>7. UNCHANGED <<responses, read_thread, sent, stream_read_lock>>
    BY DEF Arbitrated, lockState
  <1> HIDE DEF now
  <1> QED BY <1>1, <1>2, <1>4, <1>5, <1>6, <1>7, CallerStepInv

\* Every step preserves the inductive invariant.
LEMMA NextIndInv == IndInv /\ [SessionNext]_sessionVars => IndInv'
  <1> SUFFICES ASSUME IndInv, [SessionNext]_sessionVars PROVE IndInv'
    OBVIOUS
  <1>1. CASE \E m \in {"primary", "backup", "packet"} : Respond(m)
    BY <1>1, RespondInv DEF Messages
  <1>2. CASE CloseByPeer
    BY <1>2 DEF CloseByPeer, IndInv, TypeOK, CallbackHasTheQueue, NobodyCallsBeforeCreate,
               MessagesAreTakenOnceInOrder, queueState, lockState, callState
  <1>3. CASE ReadFromStream
    BY <1>3, ReadFromStreamInv
  <1>4. CASE QueueMessage
    BY <1>4, QueueMessageInv
  <1>5. CASE EndOfStream
    BY <1>5, EndOfStreamInv
  <1>6. ASSUME NEW c \in Callers,
               \/ AskForArbitration(c) \/ Arbitrated(c)
               \/ \E at \in Waits \cup {"write", "finish"} : Begin(c, at)
               \/ StreamChannelRead(c) \/ StartCallback(c) \/ EndCallback(c) \/ HandleDeadline(c)
               \/ GetAllStreamMessagesFor(c) \/ StreamChannelWrite(c) \/ StartFinish(c) \/ EndFinish(c)
        PROVE  IndInv'
    BY <1>6, AskForArbitrationInv, ArbitratedInv, BeginInv, StreamChannelReadInv, StartCallbackInv,
       EndCallbackInv, ReturnsInv, GetAllStreamMessagesForInv, StartFinishInv, EndFinishInv
  <1>7. CASE UNCHANGED sessionVars
    BY <1>7 DEF sessionVars, IndInv, TypeOK, CallbackHasTheQueue, NobodyCallsBeforeCreate,
               MessagesAreTakenOnceInOrder
  <1> QED BY <1>1, <1>2, <1>3, <1>4, <1>5, <1>6, <1>7 DEF SessionNext

\* Whatever calls any number of threads make, and whenever the switch closes
\* the stream, no message of it is lost, taken twice or taken out of order.
THEOREM MessagesAreNotLost == SessionSpec => []MessagesAreTakenOnceInOrder
  <1>1. IndInv => MessagesAreTakenOnceInOrder
    BY DEF IndInv
  <1> QED BY <1>1, InitIndInv, NextIndInv, PTL DEF SessionSpec
=============================================================================

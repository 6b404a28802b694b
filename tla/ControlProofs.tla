----------------------------- MODULE ControlProofs ------------------------------
(***************************************************************************)
(* Safety of the control channel and of the commands over it.              *)
(*                                                                         *)
(* Commands, for every set of them, number of retries and size of the      *)
(* thread pool: that a caller is told once depends on where its task is; a *)
(* command still pending has not been answered, and one that stop has      *)
(* answered has such an answer.  That it is not told of both outcomes      *)
(* depends on what the streamer may know: nothing of a command that was    *)
(* never sent.                                                             *)
(*                                                                         *)
(* The channel, for all timeouts and workers: that the client goes through *)
(* its states in order holds when no worker of an old receiver is left.  A *)
(* worker about to declare the client connected then keeps it waiting, and *)
(* a run thread that has seen a timeout keeps it connected, because no     *)
(* other thread moves it from there.                                       *)
(***************************************************************************)
EXTENDS MCControl, SequenceTheorems, TLAPS

-----------------------------------------------------------------------------
(* Commands *)

Unsent == {"none", "registered", "queued"}

Pending(c) ==
  /\ task[c] = "none" => c \notin pending /\ answers[c] = << >>
  /\ c \in pending => answers[c] = << >> /\ task[c] \notin {"none", "done"}

(* A task that will answer without looking has a caller only stop told. *)
Told(c) ==
  /\ c \notin pending
  /\ \/ task[c] = "registered"
     \/ c \in Unsendable /\ task[c] \in {"queued", "checking", "sending", "failed"}
  => answers[c] = <<"failed">> /\ server # "running"

AnsweredOnce(c) ==
  \/ answers[c] \in {<< >>, <<"acked">>, <<"failed">>}
  \/ answers[c] = <<"failed", "failed">> /\ server # "running"

Sent(c) ==
  /\ CommandMessage(c) \in wire \/ c \in received => c \notin Unsendable /\ task[c] \notin Unsent
  /\ CommandAck(c) \in wire => c \in received
  /\ answers[c] = <<"acked">> => c \in received
  /\ task[c] = "failed" => c \in Unsendable

Executed(c) == executed[c] = IF c \in received THEN 1 ELSE 0

(* A task that goes on has an attempt left. *)
Retrying(c) == task[c] \in Unsent \cup {"checking", "sending"} => attempts[c] < MaxRetries

CommandOK(c) ==
  Pending(c) /\ Told(c) /\ AnsweredOnce(c) /\ Sent(c) /\ Executed(c) /\ Retrying(c)

IInv == TypeOK /\ \A c \in Command : CommandOK(c)

-----------------------------------------------------------------------------
LEMMA TypeStep == IInv /\ [Next]_vars => TypeOK'
<1> SUFFICES ASSUME TypeOK, \A c \in Command : Retrying(c), [Next]_vars
             PROVE  TypeOK'
  BY DEF IInv, CommandOK
<1> USE CommandAssumption DEF TypeOK, Result
<1>0. ASSUME NEW c \in Command
      PROVE  CommandMessage(c) \in Message /\ CommandAck(c) \in Message
  BY DEF CommandMessage, CommandAck, Message
<1>1. ASSUME NEW c \in Command, NEW result \in Result
      PROVE  [answers EXCEPT ![c] = Append(@, result)] \in [Command -> Seq(Result)]
  OBVIOUS
<1>2. ASSUME NEW c \in Command, SendCommand(c)
      PROVE  TypeOK'
  BY <1>2 DEF SendCommand, Goto, streamer
<1>3. ASSUME NEW c \in Command, Submit(c)
      PROVE  TypeOK'
  BY <1>1, <1>3 DEF Submit, GiveUp, Goto, streamer
<1>4. ASSUME NEW c \in Command, Start(c) \/ Check(c) \/ SendRaises(c)
      PROVE  TypeOK'
  BY <1>4 DEF Start, Check, SendRaises, Goto, Active, streamer
<1>5. ASSUME NEW c \in Command, Send(c)
      PROVE  TypeOK'
  <2>1. wire' \subseteq Message
    BY <1>0, <1>5 DEF Send
  <2>2. attempts' \in [Command -> 0 .. MaxRetries]
    <3>1. attempts[c] < MaxRetries
      BY <1>5 DEF Retrying, Send
    <3> QED
      BY <1>5, <3>1 DEF Send
  <2> QED
    BY <1>5, <2>1, <2>2 DEF Send, Goto, Active, streamer
<1>6. ASSUME NEW c \in Command, Expire(c) \/ Fail(c)
      PROVE  TypeOK'
  BY <1>1, <1>6 DEF Expire, Fail, Settle, GiveUp, Goto, streamer
<1>7. ASSUME NEW c \in Command, Acknowledge(c)
      PROVE  TypeOK'
  BY <1>1, <1>7 DEF Acknowledge, Settle, streamer
<1>8. ASSUME NEW c \in Command, Receive(c)
      PROVE  TypeOK'
  BY <1>0, <1>8 DEF Receive, viewer
<1>9. CASE StopNotify
  <2>1. ASSUME NEW c \in Command
        PROVE  (IF c \in pending THEN Append(answers[c], "failed") ELSE answers[c]) \in Seq(Result)
    <3>1. answers[c] \in Seq(Result) /\ "failed" \in Result
      BY DEF Result
    <3>2. Append(answers[c], "failed") \in Seq(Result)
      BY <3>1
    <3> QED
      BY <3>1, <3>2
  <2>2. answers' \in [Command -> Seq(Result)]
    BY <1>9, <2>1 DEF StopNotify
  <2> QED
    BY <1>9, <2>2 DEF StopNotify, streamer
<1>10. CASE StopShutdown
  BY <1>10 DEF StopShutdown, streamer
<1>11. ASSUME NEW m \in Message, Lose(m)
       PROVE  TypeOK'
  BY <1>11 DEF Lose, viewer, streamer
<1>12. CASE UNCHANGED vars
  BY <1>12 DEF vars
<1> QED
  BY <1>2, <1>3, <1>4, <1>5, <1>6, <1>7, <1>8, <1>9, <1>10, <1>11, <1>12 DEF Next, Task

-----------------------------------------------------------------------------
(* What a step does to one command d: its own task, the acknowledgement or *)
(* reception of it, stop, or nothing but losing datagrams.                 *)

(* A command that nothing happened to but a lost datagram, or a step of    *)
(* stop that did not concern it, is as before.                             *)
LEMMA Unaffected ==
  ASSUME NEW d \in Command, CommandOK(d),
         d \in pending' <=> d \in pending, task'[d] = task[d], attempts'[d] = attempts[d],
         answers'[d] = answers[d], executed'[d] = executed[d],
         server' = "running" => server = "running",
         CommandMessage(d) \in wire' => CommandMessage(d) \in wire,
         CommandAck(d) \in wire' => CommandAck(d) \in wire,
         d \in received' <=> d \in received
  PROVE  CommandOK(d)'
BY DEF CommandOK, Pending, Told, AnsweredOnce, Sent, Executed, Retrying

(* Appending to the answers of a command that has none, or one of stop. *)
LEMMA Appended ==
  /\ Append(<< >>, "acked") = <<"acked">>
  /\ Append(<< >>, "failed") = <<"failed">>
  /\ Append(<<"failed">>, "failed") = <<"failed", "failed">>
<1>1. Append(<< >>, "acked") = <<"acked">>
  OBVIOUS
<1>2. Append(<< >>, "failed") = <<"failed">>
  OBVIOUS
<1>3. Append(<<"failed">>, "failed") = <<"failed", "failed">>
  <2> DEFINE one == <<"failed">>
             two == <<"failed", "failed">>
  <2>1. one \in Seq({"failed"}) /\ two \in Seq({"failed"})
    OBVIOUS
  <2>2. Len(one) = 1 /\ Len(two) = 2 /\ two[1] = one[1] /\ two[2] = "failed"
    OBVIOUS
  <2>3. /\ Append(one, "failed") \in Seq({"failed"})
        /\ Len(Append(one, "failed")) = Len(one) + 1
        /\ Append(one, "failed")[1] = one[1]
        /\ Append(one, "failed")[2] = "failed"
    BY <2>1, <2>2, AppendProperties
  <2> HIDE DEF one, two
  <2>4. Append(one, "failed") = two
    BY <2>1, <2>2, <2>3, SeqEqual
  <2> QED
    BY <2>4 DEF one, two
<1> QED
  BY <1>1, <1>2, <1>3

LEMMA Distinct ==
  ASSUME NEW c \in Command, NEW d \in Command
  PROVE  /\ CommandMessage(c) # CommandAck(d)
         /\ CommandMessage(c) = CommandMessage(d) <=> c = d
         /\ CommandAck(c) = CommandAck(d) <=> c = d
BY DEF CommandMessage, CommandAck

LEMMA CommandStep ==
  ASSUME IInv, [Next]_vars, NEW d \in Command
  PROVE  CommandOK(d)'
<1> USE CommandAssumption DEF IInv, TypeOK, Result
<1>1. CommandOK(d)
  OBVIOUS
<1>2. ASSUME NEW c \in Command, SendCommand(c)
      PROVE  CommandOK(d)'
  <2>1. CASE c = d
    BY <1>1, <1>2, <2>1 DEF SendCommand, Goto, streamer, CommandOK, Pending, Told, AnsweredOnce,
                            Sent, Executed, Retrying, Unsent
  <2>2. CASE c # d
    BY <1>1, <1>2, <2>2, Unaffected DEF SendCommand, Goto, streamer
  <2> QED
    BY <2>1, <2>2
<1>3. ASSUME NEW c \in Command, Submit(c)
      PROVE  CommandOK(d)'
  <2>1. CASE c = d /\ server # "stopped"
    BY <1>1, <1>3, <2>1 DEF Submit, Goto, streamer, CommandOK, Pending, Told, AnsweredOnce,
                            Sent, Executed, Retrying, Unsent
  <2>2. CASE c = d /\ server = "stopped"
    <3>1. answers[d] = << >> \/ answers[d] = <<"failed">>
      BY <1>1, <1>3, <2>2 DEF Submit, CommandOK, Pending, Told
    <3>2. answers'[d] \in {<<"failed">>, <<"failed", "failed">>}
      BY <1>3, <2>2, <3>1, Appended DEF Submit, GiveUp
    <3>3. <<"failed">> # <<"acked">> /\ <<"failed", "failed">> # <<"acked">>
      OBVIOUS
    <3> QED
      BY <1>1, <1>3, <2>2, <3>2, <3>3
      DEF Submit, GiveUp, Goto, streamer, CommandOK, Pending, Told, AnsweredOnce,
          Sent, Executed, Retrying, Unsent
  <2>3. CASE c # d
    BY <1>1, <1>3, <2>3, Unaffected DEF Submit, GiveUp, Goto, streamer
  <2> QED
    BY <2>1, <2>2, <2>3
<1>4. ASSUME NEW c \in Command, Start(c) \/ Check(c) \/ SendRaises(c)
      PROVE  CommandOK(d)'
  <2>1. CASE c = d
    BY <1>1, <1>4, <2>1 DEF Start, Check, SendRaises, Goto, streamer, CommandOK, Pending, Told,
                            AnsweredOnce, Sent, Executed, Retrying, Unsent
  <2>2. CASE c # d
    BY <1>1, <1>4, <2>2, Unaffected DEF Start, Check, SendRaises, Goto, streamer
  <2> QED
    BY <2>1, <2>2
<1>5. ASSUME NEW c \in Command, Send(c)
      PROVE  CommandOK(d)'
  <2>1. CASE c = d
    <3>1. CommandAck(d) \in wire' => CommandAck(d) \in wire
      BY <1>5, Distinct DEF Send
    <3>2. task'[d] = "checking" => attempts'[d] < MaxRetries
      BY <1>1, <1>5, <2>1 DEF Send, Goto
    <3>3. task'[d] \in {"checking", "expired"} /\ d \notin Unsendable
      BY <1>5, <2>1 DEF Send, Goto
    <3> QED
      BY <1>1, <1>5, <2>1, <3>1, <3>2, <3>3
      DEF Send, streamer, CommandOK, Pending, Told, AnsweredOnce,
          Sent, Executed, Retrying, Unsent
  <2>2. CASE c # d
    BY <1>1, <1>5, <2>2, Unaffected, Distinct DEF Send, Goto, streamer
  <2> QED
    BY <2>1, <2>2
<1>6. ASSUME NEW c \in Command, Expire(c)
      PROVE  CommandOK(d)'
  <2>1. CASE c = d
    <3>1. d \in pending => answers'[d] = <<"failed">>
      BY <1>1, <1>6, <2>1, Appended DEF Expire, Settle, CommandOK, Pending
    <3>2. d \notin pending => answers'[d] = answers[d]
      BY <1>6, <2>1 DEF Expire, Settle
    <3>3. <<"failed">> # <<"acked">>
      OBVIOUS
    <3> QED
      BY <1>1, <1>6, <2>1, <3>1, <3>2, <3>3
      DEF Expire, Settle, Goto, streamer, CommandOK, Pending, Told, AnsweredOnce,
          Sent, Executed, Retrying, Unsent
  <2>2. CASE c # d
    BY <1>1, <1>6, <2>2, Unaffected DEF Expire, Settle, Goto, streamer
  <2> QED
    BY <2>1, <2>2
<1>7. ASSUME NEW c \in Command, Fail(c)
      PROVE  CommandOK(d)'
  <2>1. CASE c = d
    <3>0. task[d] = "failed" /\ d \in Unsendable
      BY <1>1, <1>7, <2>1 DEF Fail, CommandOK, Sent
    <3>1. \/ answers[d] = << >>
          \/ answers[d] = <<"failed">> /\ server # "running"
      <4>1. CASE d \in pending
        BY <1>1, <4>1 DEF CommandOK, Pending
      <4>2. CASE d \notin pending
        <5>1. Told(d)
          BY <1>1 DEF CommandOK
        <5> QED
          BY <3>0, <4>2, <5>1 DEF Told
      <4> QED
        BY <4>1, <4>2
    <3>2. \/ answers'[d] = <<"failed">>
          \/ answers'[d] = <<"failed", "failed">> /\ server # "running"
      BY <1>7, <2>1, <3>1, Appended DEF Fail, GiveUp
    <3>3. <<"failed">> # <<"acked">> /\ <<"failed", "failed">> # <<"acked">>
      OBVIOUS
    <3> QED
      BY <1>1, <1>7, <2>1, <3>2, <3>3
      DEF Fail, GiveUp, Goto, streamer, CommandOK, Pending, Told, AnsweredOnce,
          Sent, Executed, Retrying, Unsent
  <2>2. CASE c # d
    BY <1>1, <1>7, <2>2, Unaffected DEF Fail, GiveUp, Goto, streamer
  <2> QED
    BY <2>1, <2>2
<1>8. ASSUME NEW c \in Command, Acknowledge(c)
      PROVE  CommandOK(d)'
  <2>1. CASE c = d /\ d \in pending
    <3>1. answers'[d] = <<"acked">>
      BY <1>1, <1>8, <2>1, Appended DEF Acknowledge, Settle, CommandOK, Pending
    <3>2. d \in received /\ d \notin Unsendable /\ task[d] \notin Unsent
      BY <1>1, <1>8, <2>1 DEF Acknowledge, CommandOK, Sent
    <3> QED
      BY <1>1, <1>8, <2>1, <3>1, <3>2
      DEF Acknowledge, Settle, streamer, CommandOK, Pending, Told, AnsweredOnce,
          Sent, Executed, Retrying, Unsent
  <2>2. CASE c # d \/ d \notin pending
    BY <1>1, <1>8, <2>2, Unaffected DEF Acknowledge, Settle, streamer
  <2> QED
    BY <2>1, <2>2
<1>9. ASSUME NEW c \in Command, Receive(c)
      PROVE  CommandOK(d)'
  <2>1. CASE c = d
    <3>1. CommandMessage(d) \in wire /\ (CommandMessage(d) \in wire' => CommandMessage(d) \in wire)
      BY <1>9, <2>1 DEF Receive
    <3>2. executed'[d] = 1 /\ d \in received'
      BY <1>1, <1>9, <2>1 DEF Receive, CommandOK, Executed
    <3> QED
      BY <1>1, <1>9, <2>1, <3>1, <3>2
      DEF Receive, viewer, CommandOK, Pending, Told, AnsweredOnce,
          Sent, Executed, Retrying, Unsent
  <2>2. CASE c # d
    BY <1>1, <1>9, <2>2, Unaffected, Distinct DEF Receive, viewer
  <2> QED
    BY <2>1, <2>2
<1>10. CASE StopNotify
  <2>1. CASE d \in pending
    <3>1. answers'[d] = <<"failed">>
      BY <1>1, <1>10, <2>1, Appended DEF StopNotify, CommandOK, Pending
    <3>2. <<"failed">> # <<"acked">>
      OBVIOUS
    <3> QED
      BY <1>1, <1>10, <2>1, <3>1, <3>2
      DEF StopNotify, streamer, CommandOK, Pending, Told, AnsweredOnce,
          Sent, Executed, Retrying, Unsent
  <2>2. CASE d \notin pending
    BY <1>1, <1>10, <2>2, Unaffected DEF StopNotify, streamer
  <2> QED
    BY <2>1, <2>2
<1>11. CASE StopShutdown
  BY <1>1, <1>11, Unaffected DEF StopShutdown, streamer
<1>12. ASSUME NEW m \in Message, Lose(m)
       PROVE  CommandOK(d)'
  BY <1>1, <1>12, Unaffected DEF Lose, viewer, streamer
<1>13. CASE UNCHANGED vars
  BY <1>1, <1>13, Unaffected DEF vars
<1> QED
  BY <1>2, <1>3, <1>4, <1>5, <1>6, <1>7, <1>8, <1>9, <1>10, <1>11, <1>12, <1>13 DEF Next, Task

LEMMA IInvInit == Init => IInv
<1> SUFFICES ASSUME Init
             PROVE  IInv
  OBVIOUS
<1>1. TypeOK
  BY CommandAssumption DEF Init, TypeOK
<1>2. ASSUME NEW c \in Command
      PROVE  CommandOK(c)
  BY CommandAssumption
  DEF Init, CommandOK, Pending, Told, AnsweredOnce, Sent, Executed, Retrying, Unsent
<1> QED
  BY <1>1, <1>2 DEF IInv

LEMMA Invariance == Spec => []IInv
<1>1. IInv /\ [Next]_vars => IInv'
  BY TypeStep, CommandStep DEF IInv
<1> QED
  BY <1>1, IInvInit, PTL DEF Spec

-----------------------------------------------------------------------------
LEMMA ControlCommands == CommandSpec => Spec
<1>1. ControlInit => Init
  BY DEF ControlInit
<1>2. [Next /\ UNCHANGED channelVars]_controlVars => [Next]_vars
  BY DEF controlVars
<1> QED
  BY <1>1, <1>2, PTL DEF CommandSpec, Spec

(* While the server runs a caller is told once, however timeouts, late     *)
(* acknowledgements and stop race each other, and it is never told both    *)
(* outcomes (retry_task, command_ack_handler, stop).                       *)
THEOREM ConsistentAnswers == CommandSpec => []AnsweredConsistently
<1>1. IInv => AnsweredConsistently
  <2> SUFFICES ASSUME IInv, NEW c \in Command
               PROVE  \/ Len(answers[c]) <= 1
                      \/ answers[c] = <<"failed", "failed">> /\ server # "running"
    BY DEF AnsweredConsistently
  <2>1. Len(<< >>) <= 1 /\ Len(<<"acked">>) <= 1 /\ Len(<<"failed">>) <= 1
    OBVIOUS
  <2>2. AnsweredOnce(c)
    BY DEF IInv, CommandOK
  <2>3. CASE answers[c] = << >>
    BY <2>1, <2>3
  <2>4. CASE answers[c] = <<"acked">>
    BY <2>1, <2>4
  <2>5. CASE answers[c] = <<"failed">>
    BY <2>1, <2>5
  <2> QED
    BY <2>2, <2>3, <2>4, <2>5 DEF AnsweredOnce
<1> QED
  BY <1>1, ControlCommands, Invariance, PTL

(* Success is never reported for a command the streamer has not received. *)
THEOREM SuccessIsReal == CommandSpec => []SuccessMeansReceived
<1>1. IInv => SuccessMeansReceived
  <2> SUFFICES ASSUME IInv, NEW c \in Command, NEW n \in DOMAIN answers[c],
                      answers[c][n] = "acked"
               PROVE  c \in received
    BY DEF SuccessMeansReceived
  <2>1. answers[c] = << >> \/ answers[c] = <<"acked">> \/ answers[c] = <<"failed">>
          \/ answers[c] = <<"failed", "failed">>
    BY DEF IInv, CommandOK, AnsweredOnce
  <2>2. answers[c] = <<"acked">>
    BY <2>1
  <2> QED
    BY <2>2 DEF IInv, CommandOK, Sent
<1> QED
  BY <1>1, ControlCommands, Invariance, PTL

(* The streamer executes each command at most once. *)
THEOREM AtMostOnce == CommandSpec => []ExecutedOnce
<1>1. IInv => ExecutedOnce
  BY DEF IInv, CommandOK, Executed, ExecutedOnce
<1> QED
  BY <1>1, ControlCommands, Invariance, PTL

-----------------------------------------------------------------------------
(* The channel *)

(* One worker at a time. *)
SoleWorker == \A v, w \in Worker : v = w

(* Where a thread is on its way to a new state, the old one is. *)
Held ==
  /\ step = "expired" => client = "CONNECTED"
  /\ step \in {"handlers", "closed"} => client = "DISCONNECTED"
  /\ \A w \in Worker : worker[w] = "connect" => client = "WAITING"

ChannelInv == Channel!TypeOK /\ Held

-----------------------------------------------------------------------------
LEMMA ChannelTypeInit == Channel!Init => Channel!TypeOK
<1> SUFFICES ASSUME Channel!Init
             PROVE  Channel!TypeOK
  OBVIOUS
<1>1. 0 \in 0 .. ClientTimeout + 1 /\ 0 \in 0 .. ServerTimeout + 1
  BY ChannelAssumption
<1>2. worker \in [Worker -> Channel!WorkerStep]
  BY DEF Channel!Init, Channel!WorkerStep
<1> QED
  BY <1>1, <1>2 DEF Channel!Init, Channel!TypeOK, Channel!State, Channel!ToClient, Channel!ToServer

LEMMA OlderType ==
  ASSUME NEW timeout \in Nat, NEW age \in 0 .. timeout + 1
  PROVE  Channel!Older(age, timeout) \in 0 .. timeout + 1
BY DEF Channel!Older

LEMMA ChannelTypeStep ==
  Channel!TypeOK /\ [Channel!Next]_(Channel!vars) => Channel!TypeOK'
<1> SUFFICES ASSUME Channel!TypeOK, [Channel!Next]_(Channel!vars)
             PROVE  Channel!TypeOK'
  OBVIOUS
<1> USE ChannelAssumption DEF Channel!TypeOK, Channel!State, Channel!WorkerStep, Channel!ToClient,
            Channel!ToServer, Channel!clientThread, Channel!workers, Channel!clientVars,
            Channel!serverVars
<1>1. CASE Channel!ClientThread
  BY <1>1 DEF Channel!ClientThread, Channel!SendSyn, Channel!Heartbeat, Channel!CheckTimeout,
              Channel!Disconnect, Channel!DisconnectHandler, Channel!CloseSocket,
              Channel!ReInitialize
<1>2. ASSUME NEW w \in Worker, Channel!WorkerThread(w)
      PROVE  Channel!TypeOK'
  BY <1>2 DEF Channel!WorkerThread, Channel!ControlHandler, Channel!SetPulseWidth,
              Channel!AckHandler, Channel!SetConnected
<1>3. ASSUME NEW m \in Channel!ToClient, Channel!Note(m)
      PROVE  Channel!TypeOK'
  <2>1. (IF m = "heartbeat" THEN "idle" ELSE m) \in Channel!WorkerStep
    OBVIOUS
  <2>2. worker' \in [Worker -> Channel!WorkerStep]
    BY <1>3, <2>1 DEF Channel!Note
  <2>3. clientAge' \in 0 .. ClientTimeout + 1
    BY <1>3 DEF Channel!Note
  <2> QED
    BY <1>3, <2>2, <2>3 DEF Channel!Note
<1>4. CASE Channel!SynHandler \/ Channel!DataHandler
  <2>1. \E m \in Channel!ToServer : Channel!ServerNote(m)
    BY <1>4 DEF Channel!SynHandler, Channel!DataHandler
  <2>2. serverAge' \in 0 .. ServerTimeout + 1
    <3>1. serverAge' = 0
      BY <2>1 DEF Channel!ServerNote
    <3> QED
      BY <3>1
  <2>3. known' \in BOOLEAN
    <3>1. known' = TRUE
      BY <2>1, Zenon DEF Channel!ServerNote
    <3> QED
      BY <3>1, Zenon
  <2>4. UNCHANGED <<Channel!clientVars, link>>
    BY <2>1 DEF Channel!ServerNote
  <2>5. side' \in Channel!State /\ air' \subseteq Channel!ToServer \cup Channel!ToClient
    BY <1>4 DEF Channel!SynHandler, Channel!DataHandler
  <2> QED
    BY <2>2, <2>3, <2>4, <2>5
<1>5. CASE Channel!ServerCheckTimeout \/ Channel!ServerReset
  BY <1>5 DEF Channel!ServerCheckTimeout, Channel!ServerReset
<1>6. CASE Channel!ServerHeartbeat \/ Channel!SendControl
  BY <1>6 DEF Channel!ServerHeartbeat, Channel!SendControl
<1>7. ASSUME NEW m \in Channel!ToServer \cup Channel!ToClient, Channel!Lose(m)
      PROVE  Channel!TypeOK'
  BY <1>7 DEF Channel!Lose
<1>8. CASE Channel!Cut
  BY <1>8 DEF Channel!Cut
<1>9. CASE Channel!Tick
  <2>1. clientAge' \in 0 .. ClientTimeout + 1 /\ serverAge' \in 0 .. ServerTimeout + 1
    BY <1>9, OlderType DEF Channel!Tick
  <2> QED
    BY <1>9, <2>1 DEF Channel!Tick
<1>10. CASE UNCHANGED Channel!vars
  BY <1>10 DEF Channel!vars
<1> QED
  BY <1>1, <1>2, <1>3, <1>4, <1>5, <1>6, <1>7, <1>8, <1>9, <1>10 DEF Channel!Next

LEMMA ControlStates == ChannelSpec => Channel!Spec
<1>1. ControlInit => Channel!Init
  BY DEF ControlInit
<1>2. [Channel!Next /\ UNCHANGED vars]_controlVars => [Channel!Next]_(Channel!vars)
  BY DEF controlVars, channelVars, Channel!vars, Channel!clientVars, Channel!clientThread,
         Channel!workers, Channel!serverVars
<1> QED
  BY <1>1, <1>2, PTL DEF ChannelSpec, Channel!Spec

(* Ages stay within their bounds, and threads where the code can be. *)
THEOREM ChannelTypeCorrect == ChannelSpec => []Channel!TypeOK
BY ControlStates, ChannelTypeInit, ChannelTypeStep, PTL DEF Channel!Spec

-----------------------------------------------------------------------------
LEMMA HeldStep ==
  ASSUME SoleWorker, ChannelInv, [Channel!Next]_(Channel!vars)
  PROVE  Held' /\ (client' = client \/ client' = Channel!Successor[client])
<1> USE DEF ChannelInv, Channel!TypeOK, Held, SoleWorker, Channel!Successor, Channel!State,
            Channel!clientThread, Channel!workers, Channel!clientVars, Channel!serverVars
<1>1. CASE Channel!ClientThread
  <2>1. CASE Channel!SendSyn \/ Channel!Heartbeat
    BY <2>1 DEF Channel!SendSyn, Channel!Heartbeat
  <2>2. CASE Channel!CheckTimeout
    BY <2>2 DEF Channel!CheckTimeout
  <2>3. CASE Channel!Disconnect
    BY <2>3 DEF Channel!Disconnect
  <2>4. CASE Channel!DisconnectHandler \/ Channel!CloseSocket
    BY <2>4 DEF Channel!DisconnectHandler, Channel!CloseSocket
  <2>5. CASE Channel!ReInitialize
    BY <2>5 DEF Channel!ReInitialize
  <2> QED
    BY <1>1, <2>1, <2>2, <2>3, <2>4, <2>5 DEF Channel!ClientThread
<1>2. ASSUME NEW w \in Worker, Channel!WorkerThread(w)
      PROVE  Held' /\ (client' = client \/ client' = Channel!Successor[client])
  <2>1. CASE Channel!ControlHandler(w) \/ Channel!AckHandler(w)
    BY <2>1 DEF Channel!ControlHandler, Channel!AckHandler
  <2>2. CASE Channel!SetPulseWidth(w)
    BY <2>2 DEF Channel!SetPulseWidth
  <2>3. CASE Channel!SetConnected(w)
    <3>1. client = "WAITING" /\ step = "loop"
      BY <2>3 DEF Channel!SetConnected
    <3>2. \A v \in Worker : worker'[v] = "idle"
      BY <2>3 DEF Channel!SetConnected
    <3> QED
      BY <2>3, <3>1, <3>2 DEF Channel!SetConnected
  <2> QED
    BY <1>2, <2>1, <2>2, <2>3 DEF Channel!WorkerThread
<1>3. ASSUME NEW m \in Channel!ToClient, Channel!Note(m)
      PROVE  Held' /\ client' = client
  BY <1>3 DEF Channel!Note, Channel!ToClient
<1>4. CASE Channel!SynHandler \/ Channel!DataHandler
  BY <1>4 DEF Channel!SynHandler, Channel!DataHandler, Channel!ServerNote
<1>5. CASE \/ Channel!ServerCheckTimeout \/ Channel!ServerReset
           \/ Channel!ServerHeartbeat \/ Channel!SendControl
  BY <1>5 DEF Channel!ServerCheckTimeout, Channel!ServerReset, Channel!ServerHeartbeat,
              Channel!SendControl
<1>6. ASSUME NEW m \in Channel!ToServer \cup Channel!ToClient, Channel!Lose(m)
      PROVE  Held' /\ client' = client
  BY <1>6 DEF Channel!Lose
<1>7. CASE Channel!Cut \/ Channel!Tick
  BY <1>7 DEF Channel!Cut, Channel!Tick
<1>8. CASE UNCHANGED Channel!vars
  BY <1>8 DEF Channel!vars
<1> QED
  BY <1>1, <1>2, <1>3, <1>4, <1>5, <1>6, <1>7, <1>8 DEF Channel!Next

LEMMA HeldInit == Channel!Init => Held
BY DEF Channel!Init, Held

(* The docstring of Client.py, for a client whose handlers end before it   *)
(* re-initializes: run thread and worker together never make it skip a     *)
(* state.                                                                  *)
THEOREM StatesInOrder ==
  ASSUME SoleWorker
  PROVE  ChannelSpec => Sequential
<1>1. ChannelInv /\ [Channel!Next]_(Channel!vars)
        => ChannelInv' /\ [client' = Channel!Successor[client]]_client
  BY SoleWorker, ChannelTypeStep, HeldStep DEF ChannelInv
<1>2. Channel!Init => ChannelInv
  BY ChannelTypeInit, HeldInit DEF ChannelInv
<1> QED
  BY <1>1, <1>2, ControlStates, PTL DEF Channel!Spec, Sequential, Channel!Sequential
=============================================================================

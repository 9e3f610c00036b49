------------------------- MODULE ClientServerProofs -------------------------
(***************************************************************************)
(* Theorems about lab 1, whatever the number of clients and commands and   *)
(* however messages are lost, repeated, reordered and delayed, and about   *)
(* the application that its server wraps, whatever that is.                *)
(***************************************************************************)
EXTENDS WrappedApplication, AtMostOnceProofs, SequenceTheorems

\* The number of the newest command of client c that has been executed.
Executed(c) == app.addr_result[c].sequenceNum

\* res answers command n of client c: it is what the application was when it
\* had executed that command.
AnswersIn(log, c, res) ==
  \E i \in DOMAIN log :
    log[i] = Command(c, res.sequenceNum) /\ res.result = SubSeq(log, 1, i)

\* The service has no newer command than the newest result.
LogBounded ==
  \A i \in DOMAIN app.log :
    app.log[i].sequenceNum <= Executed(app.log[i].addr)

\* A client whose result is in has all its commands executed, and one that
\* waits all but the last, or all.
ClientOK(c) ==
  /\ client[c].received =>
       /\ Executed(c) = client[c].sequenceNum
       /\ Len(results[c]) = client[c].sequenceNum
  /\ ~client[c].received =>
       /\ client[c].sequenceNum = Len(results[c]) + 1
       /\ Executed(c) \in {client[c].sequenceNum, client[c].sequenceNum - 1}

ClientsOK == \A c \in Clients : ClientOK(c)

\* The newest result of each client is an answer.
ResultsOK ==
  \A c \in Clients :
    Executed(c) # 0 => AnswersIn(app.log, c, app.addr_result[c])

\* What a message may say: a command that its client has sent, or an answer to
\* one that has been executed.
Said(m) ==
  /\ m.type = "Request" =>
       m.command.sequenceNum <= client[m.command.addr].sequenceNum
  /\ m.type = "Reply" =>
       /\ m.result.sequenceNum \in 1..Executed(m.to)
       /\ AnswersIn(app.log, m.to, m.result)

NetOK == \A m \in net : Said(m)

IInv ==
  /\ TypeOK
  /\ ExecutedInOrder /\ LogBounded
  /\ ClientsOK /\ ResultsOK /\ NetOK
  /\ RetryPending

-----------------------------------------------------------------------------
(* Logs that grow at their ends *)

LEMMA AppendSubSeq ==
  ASSUME NEW log \in Log, NEW cmd \in AMOCommand, NEW i \in DOMAIN log
  PROVE  SubSeq(Append(log, cmd), 1, i) = SubSeq(log, 1, i)
<1>1. Len(log) \in Nat /\ DOMAIN log = 1..Len(log) /\ i \in 1..Len(log)
  BY DEF Log
<1>2. <<cmd>> \in Seq(AMOCommand) /\ log \in Seq(AMOCommand)
  BY DEF Log
<1>3. Append(log, cmd) = log \o <<cmd>>
  BY <1>2, AppendIsConcat
<1> QED
  BY <1>1, <1>2, <1>3, SubSeqOfConcat1, 1 \in 1..Len(log)

\* Answers stay answers when another command is executed.
LEMMA AnswersStay ==
  ASSUME NEW log \in Log, NEW cmd \in AMOCommand, NEW c \in Clients,
         NEW res, AnswersIn(log, c, res)
  PROVE  AnswersIn(Append(log, cmd), c, res)
<1>1. PICK i \in DOMAIN log :
        log[i] = Command(c, res.sequenceNum) /\ res.result = SubSeq(log, 1, i)
  BY DEF AnswersIn
<1>2. i \in DOMAIN Append(log, cmd)
  BY AppendLog DEF Log
<1> QED
  BY <1>1, <1>2, AppendLog, AppendSubSeq DEF AnswersIn

\* The command executed last is answered with the whole log.
LEMMA LastAnswered ==
  ASSUME NEW log \in Log, NEW cmd \in AMOCommand
  PROVE  AnswersIn(Append(log, cmd), cmd.addr,
                   [sequenceNum |-> cmd.sequenceNum,
                    result |-> Append(log, cmd)])
<1> DEFINE new == Append(log, cmd)
<1>1. new \in Log /\ Len(new) = Len(log) + 1 /\ Len(log) \in Nat
  BY AppendLog DEF Log
<1>2. Len(new) \in DOMAIN new /\ new[Len(new)] = cmd
  BY <1>1, AppendLog DEF Log
<1>3. SubSeq(new, 1, Len(new)) = new
  BY <1>1, SubSeqFull DEF Log
<1>4. cmd = Command(cmd.addr, cmd.sequenceNum)
  BY DEF AMOCommand, Command
<1> HIDE DEF new
<1>5. AnswersIn(new, cmd.addr,
                [sequenceNum |-> cmd.sequenceNum, result |-> new])
  BY <1>2, <1>3, <1>4 DEF AnswersIn
<1> QED
  BY <1>5 DEF new

-----------------------------------------------------------------------------
(* Steps that leave the service alone *)

LEMMA InitInv == Init => IInv
<1> SUFFICES ASSUME Init PROVE IInv
  OBVIOUS
<1>1. NoResult \in AMOResult /\ <<>> \in Log
  BY DEF NoResult, AMOResult, Log
<1>2. TypeOK
  BY <1>1 DEF Init, TypeOK, NewApplication, AMOApplication, ClientState, Log
<1>3. /\ app.log = <<>>
      /\ \A c \in Clients : Executed(c) = 0 /\ client[c].sequenceNum = 0
                            /\ client[c].received /\ results[c] = <<>>
  BY DEF Init, NewApplication, Executed, NoResult
<1> QED
  BY <1>2, <1>3 DEF IInv, ExecutedInOrder, LogBounded, ClientsOK, ClientOK,
                    ResultsOK, NetOK, RetryPending, Init

LEMMA SendCommandKeeps ==
  ASSUME IInv, NEW c \in Clients, SendCommand(c)
  PROVE  IInv'
<1> DEFINE n == client[c].sequenceNum + 1
           cmd == Command(c, n)
<1>1. /\ client \in [Clients -> ClientState] /\ client[c].sequenceNum \in Nat
      /\ timers \in [Clients -> SUBSET Nat] /\ net \subseteq Message
      /\ results \in [Clients -> Seq(Log)]
  BY DEF IInv, TypeOK, ClientState
<1>2. n \in Nat \ {0} /\ n = client[c].sequenceNum + 1
  BY <1>1
<1>3. cmd \in AMOCommand /\ cmd.addr = c /\ cmd.sequenceNum = n
  BY <1>2 DEF Command, AMOCommand
<1>4. Request(cmd) \in Message /\ Request(cmd).type = "Request"
      /\ Request(cmd).command = cmd
  BY <1>3 DEF Message, Request
<1>5. client[c].received /\ app' = app /\ results' = results
      /\ net' = net \cup {Request(cmd)}
      /\ timers' = [timers EXCEPT ![c] = @ \cup {n}]
  BY DEF SendCommand
<1>6. client' = [client EXCEPT ![c].sequenceNum = n, ![c].received = FALSE]
  BY DEF SendCommand
<1> HIDE DEF n, cmd
<1>7. /\ client' \in [Clients -> ClientState]
      /\ client'[c].sequenceNum = n /\ ~client'[c].received
      /\ \A d \in Clients : d # c => client'[d] = client[d]
  BY <1>1, <1>2, <1>6, Zenon DEF ClientState
<1>8. TypeOK'
  <2>1. net' \in SUBSET Message
    BY <1>1, <1>4, <1>5
  <2>2. timers' \in [Clients -> SUBSET Nat]
    BY <1>1, <1>2, <1>5
  <2> QED
    BY <1>5, <1>7, <2>1, <2>2 DEF IInv, TypeOK
<1>9. ExecutedInOrder' /\ LogBounded' /\ ResultsOK'
  BY <1>5 DEF IInv, ExecutedInOrder, LogBounded, ResultsOK, Executed
<1>10. \A d \in Clients : Executed(d)' = Executed(d)
  BY <1>5 DEF Executed
<1>11. ClientsOK'
  <2> SUFFICES ASSUME NEW d \in Clients PROVE ClientOK(d)'
    BY DEF ClientsOK
  <2>1. CASE d = c
    <3>1. Executed(c) = client[c].sequenceNum
          /\ Len(results[c]) = client[c].sequenceNum
      BY <1>5 DEF IInv, ClientsOK, ClientOK
    <3>2. Executed(c)' = n - 1 /\ n = Len(results'[c]) + 1
      BY <1>1, <1>2, <1>5, <1>10, <3>1
    <3> QED
      BY <1>7, <2>1, <3>2 DEF ClientOK
  <2>2. CASE d # c
    BY <1>5, <1>7, <1>10, <2>2 DEF IInv, ClientsOK, ClientOK
  <2> QED
    BY <2>1, <2>2
<1>12. NetOK'
  <2> SUFFICES ASSUME NEW m \in net' PROVE Said(m)'
    BY DEF NetOK
  <2>1. CASE m = Request(cmd)
    BY <1>2, <1>3, <1>4, <1>7, <2>1 DEF Said
  <2>2. CASE m \in net
    <3>1. m.type = "Request" => m.command.addr \in Clients
      BY <1>1, <2>2 DEF Message, AMOCommand
    <3>2. m.type = "Request" =>
            m.command.sequenceNum <= client'[m.command.addr].sequenceNum
      BY <1>1, <1>2, <1>7, <2>2, <3>1 DEF IInv, NetOK, Said, Message, AMOCommand
    <3> QED
      BY <1>5, <2>2, <3>2 DEF IInv, NetOK, Said, Executed
  <2> QED
    BY <1>5, <2>1, <2>2
<1>13. RetryPending'
  BY <1>1, <1>5, <1>7 DEF IInv, RetryPending
<1> QED
  BY <1>8, <1>9, <1>11, <1>12, <1>13 DEF IInv

LEMMA OnClientTimerKeeps ==
  ASSUME IInv, NEW c \in Clients, NEW n \in timers[c], OnClientTimer(c, n)
  PROVE  IInv'
<1>1. /\ client \in [Clients -> ClientState] /\ client[c].sequenceNum \in Nat
      /\ timers \in [Clients -> SUBSET Nat] /\ net \subseteq Message
  BY DEF IInv, TypeOK, ClientState
<1>2. app' = app /\ client' = client /\ results' = results
  BY DEF OnClientTimer
<1>3. ASSUME n = client[c].sequenceNum, ~client[c].received
      PROVE  /\ Request(Command(c, n)) \in Message
             /\ Said(Request(Command(c, n)))
  <2>1. n \in Nat \ {0}
    <3>1. n = Len(results[c]) + 1 /\ results[c] \in Seq(Log)
      BY <1>3 DEF IInv, ClientsOK, ClientOK, TypeOK
    <3> QED
      BY <3>1, LenProperties
  <2>2. Command(c, n) \in AMOCommand
    BY <2>1 DEF Command, AMOCommand
  <2> QED
    BY <1>1, <1>3, <2>2 DEF Message, Request, Command, Said
<1>4. TypeOK'
  <2>1. net' \in SUBSET Message
    BY <1>1, <1>3 DEF OnClientTimer
  <2>2. timers' \in [Clients -> SUBSET Nat]
    BY <1>1 DEF OnClientTimer
  <2> QED
    BY <1>2, <2>1, <2>2 DEF IInv, TypeOK
<1>5. ExecutedInOrder' /\ LogBounded' /\ ResultsOK' /\ ClientsOK'
  BY <1>2 DEF IInv, ExecutedInOrder, LogBounded, ResultsOK, Executed, ClientsOK,
              ClientOK
<1>6. NetOK'
  <2>1. \A m \in net' : Said(m)
    BY <1>3 DEF OnClientTimer, IInv, NetOK
  <2> QED
    BY <1>2, <2>1 DEF NetOK, Said, Executed
<1>7. RetryPending'
  <2> SUFFICES ASSUME NEW d \in Clients, ~client[d].received
               PROVE  client[d].sequenceNum \in timers'[d]
    BY <1>2 DEF RetryPending
  <2>1. client[d].sequenceNum \in timers[d]
    BY DEF IInv, RetryPending
  <2> QED
    BY <1>1, <2>1 DEF OnClientTimer
<1> QED
  BY <1>4, <1>5, <1>6, <1>7 DEF IInv

LEMMA LoseKeeps ==
  ASSUME IInv, NEW m \in net, Lose(m)
  PROVE  IInv'
  BY DEF Lose, IInv, TypeOK, ExecutedInOrder, LogBounded, ResultsOK, Executed,
         ClientsOK, ClientOK, NetOK, Said, RetryPending

-----------------------------------------------------------------------------
(* Steps that return a result *)

\* What is known of a reply that is taken: its client waits for it.
LEMMA ReplyAnswers ==
  ASSUME IInv, NEW m \in net, HandleReply(m)
  PROVE  /\ m.to \in Clients /\ m.result \in AMOResult
         /\ Executed(m.to) = client[m.to].sequenceNum
         /\ client[m.to].sequenceNum = Len(results[m.to]) + 1
         /\ AnswersIn(app.log, m.to, m.result)
<1>1. m.to \in Clients /\ m.result \in AMOResult /\ m.type = "Reply"
  BY DEF HandleReply, IInv, TypeOK, Message
<1>2. ClientOK(m.to) /\ Said(m)
  BY <1>1 DEF IInv, ClientsOK, NetOK
<1>3. /\ ~client[m.to].received
      /\ m.result.sequenceNum = client[m.to].sequenceNum
  BY DEF HandleReply
<1>4. client[m.to].sequenceNum \in Nat /\ Executed(m.to) \in Nat
  BY <1>1 DEF IInv, TypeOK, ClientState, Executed, AMOApplication, AMOResult
<1> QED
  BY <1>1, <1>2, <1>3, <1>4 DEF ClientOK, Said

LEMMA HandleReplyKeeps ==
  ASSUME IInv, NEW m \in net, HandleReply(m)
  PROVE  IInv'
<1> DEFINE c == m.to
           r == m.result
<1>1. /\ client \in [Clients -> ClientState]
      /\ results \in [Clients -> Seq(Log)]
  BY DEF IInv, TypeOK
<1>2. /\ c \in Clients /\ r \in AMOResult /\ r.result \in Log
      /\ Executed(c) = client[c].sequenceNum
      /\ client[c].sequenceNum = Len(results[c]) + 1
  BY ReplyAnswers DEF AMOResult
<1>3. /\ app' = app /\ timers' = timers /\ net' = net
      /\ results' = [results EXCEPT ![c] = Append(@, r.result)]
  BY DEF HandleReply
<1>4. client' = [client EXCEPT ![c].received = TRUE, ![c].reply = r]
  BY DEF HandleReply
<1> HIDE DEF c, r
<1>5. /\ client' \in [Clients -> ClientState]
      /\ client'[c].sequenceNum = client[c].sequenceNum /\ client'[c].received
      /\ \A d \in Clients : d # c => client'[d] = client[d]
  BY <1>1, <1>2, <1>4, Zenon DEF ClientState
<1>6. /\ results' \in [Clients -> Seq(Log)]
      /\ Len(results'[c]) = Len(results[c]) + 1
      /\ \A d \in Clients : d # c => results'[d] = results[d]
  BY <1>1, <1>2, <1>3
<1>7. TypeOK'
  BY <1>3, <1>5, <1>6 DEF IInv, TypeOK
<1>8. ExecutedInOrder' /\ LogBounded' /\ ResultsOK'
      /\ \A d \in Clients : Executed(d)' = Executed(d)
  BY <1>3 DEF IInv, ExecutedInOrder, LogBounded, ResultsOK, Executed
<1>9. ClientsOK'
  <2> SUFFICES ASSUME NEW d \in Clients PROVE ClientOK(d)'
    BY DEF ClientsOK
  <2>1. CASE d = c
    BY <1>2, <1>5, <1>6, <1>8, <2>1 DEF ClientOK
  <2>2. CASE d # c
    BY <1>5, <1>6, <1>8, <2>2 DEF IInv, ClientsOK, ClientOK
  <2> QED
    BY <2>1, <2>2
<1>10. NetOK'
  <2> SUFFICES ASSUME NEW k \in net PROVE Said(k)'
    BY <1>3 DEF NetOK
  <2>1. k.type = "Request" => k.command.addr \in Clients
    BY DEF IInv, TypeOK, Message, AMOCommand
  <2>2. k.type = "Request" =>
          client'[k.command.addr].sequenceNum
            = client[k.command.addr].sequenceNum
    BY <1>5, <2>1
  <2> QED
    BY <1>3, <2>2 DEF IInv, NetOK, Said, Executed
<1>11. RetryPending'
  BY <1>3, <1>5 DEF IInv, RetryPending
<1> QED
  BY <1>7, <1>8, <1>9, <1>10, <1>11 DEF IInv

-----------------------------------------------------------------------------
(* Steps of the service *)

\* A request is one that has been executed, or the one its client waits for.
LEMMA RequestEffect ==
  ASSUME IInv, NEW m \in net, HandleRequest(m)
  PROVE  LET cmd == m.command
             c == cmd.addr
         IN  /\ cmd \in AMOCommand /\ c \in Clients /\ app' \in AMOApplication
             /\ \/ app' = app /\ Executed(c) # 0
                \/ /\ ~client[c].received
                   /\ cmd = Command(c, client[c].sequenceNum)
                   /\ Executed(c) = cmd.sequenceNum - 1
                   /\ app'.log = Append(app.log, cmd)
                   /\ app'.addr_result
                        = [app.addr_result EXCEPT
                             ![c] = [sequenceNum |-> cmd.sequenceNum,
                                     result |-> Append(app.log, cmd)]]
             /\ net' = net \cup {Reply(c, app'.addr_result[c])}
             /\ UNCHANGED <<client, timers, results>>
<1> DEFINE cmd == m.command
           c == cmd.addr
<1>1. m.type = "Request" /\ cmd \in AMOCommand /\ app \in AMOApplication
  BY DEF HandleRequest, IInv, TypeOK, Message
<1>2. /\ c \in Clients /\ cmd.sequenceNum \in Nat \ {0}
      /\ cmd = Command(c, cmd.sequenceNum)
  BY <1>1 DEF AMOCommand, Command
<1>3. /\ Executed(c) \in Nat /\ client[c].sequenceNum \in Nat
      /\ client[c].received \in BOOLEAN
  BY <1>2 DEF IInv, TypeOK, ClientState, Executed, AMOApplication, AMOResult
<1>4. cmd.sequenceNum <= client[c].sequenceNum
  BY <1>1 DEF IInv, NetOK, Said
<1>5. /\ app' = Execute(app, cmd) /\ app' \in AMOApplication
      /\ net' = net \cup {Reply(c, app'.addr_result[c])}
      /\ UNCHANGED <<client, timers, results>>
  BY <1>1, ExecuteType DEF HandleRequest, Answer
<1>6. ClientOK(c)
  BY <1>2 DEF IInv, ClientsOK
<1>7. CASE AlreadyExecuted(app, cmd)
  BY <1>1, <1>2, <1>3, <1>5, <1>7 DEF Execute, AlreadyExecuted, Executed
<1>8. CASE ~AlreadyExecuted(app, cmd)
  <2>1. Executed(c) < cmd.sequenceNum
    BY <1>2, <1>3, <1>8 DEF AlreadyExecuted, Executed
  <2>2. /\ ~client[c].received
        /\ cmd.sequenceNum = client[c].sequenceNum
        /\ Executed(c) = cmd.sequenceNum - 1
    BY <1>2, <1>3, <1>4, <1>6, <2>1 DEF ClientOK
  <2> QED
    BY <1>1, <1>2, <1>5, <1>8, <2>2, ExecuteEffect
<1> QED
  BY <1>7, <1>8

\* The service after a command it has not executed before.
LEMMA ExecutedLastKeeps ==
  ASSUME IInv, NEW cmd \in AMOCommand, cmd.addr \in Clients,
         Executed(cmd.addr) = cmd.sequenceNum - 1, app' \in AMOApplication,
         app'.log = Append(app.log, cmd),
         app'.addr_result
           = [app.addr_result EXCEPT
                ![cmd.addr] = [sequenceNum |-> cmd.sequenceNum,
                               result |-> Append(app.log, cmd)]]
  PROVE  /\ ExecutedInOrder' /\ LogBounded' /\ ResultsOK'
         /\ Executed(cmd.addr)' = cmd.sequenceNum
         /\ \A d \in Clients : d # cmd.addr => Executed(d)' = Executed(d)
<1> DEFINE c == cmd.addr
           log == app.log
           res == [sequenceNum |-> cmd.sequenceNum, result |-> Append(log, cmd)]
<1>1. log \in Log /\ app.addr_result \in [Clients -> AMOResult]
  BY DEF IInv, TypeOK, AMOApplication
<1>2. /\ DOMAIN log = 1..Len(log) /\ Len(log) \in Nat
      /\ DOMAIN app'.log = 1..(Len(log) + 1)
      /\ app'.log[Len(log) + 1] = cmd
      /\ \A i \in DOMAIN log : app'.log[i] = log[i] /\ log[i] \in AMOCommand
  BY <1>1, AppendLog DEF Log
<1>3. /\ cmd.sequenceNum \in Nat \ {0}
      /\ \A i \in DOMAIN log :
           log[i].sequenceNum \in Nat /\ log[i].addr \in Clients
  BY <1>2 DEF AMOCommand
<1>4. /\ app'.addr_result[c] = res
      /\ \A d \in Clients : d # c => app'.addr_result[d] = app.addr_result[d]
  BY <1>1
<1>5. /\ Executed(c)' = cmd.sequenceNum
      /\ \A d \in Clients : d # c => Executed(d)' = Executed(d)
  BY <1>4 DEF Executed
<1>6. \A i \in DOMAIN log :
        log[i].addr = c => log[i].sequenceNum < cmd.sequenceNum
  BY <1>3 DEF IInv, LogBounded
<1>7. ExecutedInOrder'
  <2> SUFFICES ASSUME NEW i \in DOMAIN app'.log, NEW j \in DOMAIN app'.log,
                      i < j, app'.log[i].addr = app'.log[j].addr
               PROVE  app'.log[i].sequenceNum < app'.log[j].sequenceNum
    BY DEF ExecutedInOrder
  <2>1. i \in DOMAIN log
    BY <1>2
  <2>2. CASE j = Len(log) + 1
    BY <1>2, <1>6, <2>1, <2>2
  <2>3. CASE j \in DOMAIN log
    BY <1>2, <2>1, <2>3 DEF IInv, ExecutedInOrder
  <2> QED
    BY <1>2, <2>2, <2>3
<1>8. LogBounded'
  <2> SUFFICES ASSUME NEW i \in DOMAIN app'.log
               PROVE  app'.log[i].sequenceNum
                        <= app'.addr_result[app'.log[i].addr].sequenceNum
    BY DEF LogBounded, Executed
  <2>1. CASE i = Len(log) + 1
    BY <1>2, <1>3, <1>4, <2>1
  <2>2. CASE i \in DOMAIN log
    <3>1. app'.log[i] = log[i] /\ log[i].addr \in Clients
          /\ log[i].sequenceNum <= Executed(log[i].addr)
      BY <1>2, <1>3, <2>2 DEF IInv, LogBounded
    <3>2. CASE log[i].addr = c
      BY <1>3, <1>4, <1>6, <2>2, <3>1, <3>2
    <3>3. CASE log[i].addr # c
      BY <1>4, <3>1, <3>3 DEF Executed
    <3> QED
      BY <3>2, <3>3
  <2> QED
    BY <1>2, <2>1, <2>2
<1>9. ResultsOK'
  <2> SUFFICES ASSUME NEW d \in Clients, Executed(d)' # 0
               PROVE  AnswersIn(app'.log, d, app'.addr_result[d])
    BY DEF ResultsOK, Executed
  <2>1. CASE d = c
    BY <1>1, <1>4, <2>1, LastAnswered
  <2>2. CASE d # c
    <3>1. AnswersIn(log, d, app.addr_result[d])
      BY <1>5, <2>2 DEF IInv, ResultsOK
    <3> QED
      BY <1>1, <1>4, <2>2, <3>1, AnswersStay
  <2> QED
    BY <2>1, <2>2
<1> QED
  BY <1>5, <1>7, <1>8, <1>9

LEMMA HandleRequestKeeps ==
  ASSUME IInv, NEW m \in net, HandleRequest(m)
  PROVE  IInv'
<1> DEFINE cmd == m.command
           c == cmd.addr
           sent == Reply(c, app'.addr_result[c])
<1>1. /\ cmd \in AMOCommand /\ c \in Clients /\ app' \in AMOApplication
      /\ net' = net \cup {sent} /\ UNCHANGED <<client, timers, results>>
  BY RequestEffect
<1>2. /\ app \in AMOApplication /\ app.log \in Log
      /\ cmd.sequenceNum \in Nat \ {0}
  BY <1>1 DEF IInv, TypeOK, AMOApplication, AMOCommand
<1>3. \A d \in Clients :
        /\ Executed(d) \in Nat /\ app'.addr_result[d] \in AMOResult
        /\ app'.addr_result[d].sequenceNum \in Nat
  BY <1>1, <1>2 DEF AMOApplication, AMOResult, Executed
<1>4. /\ sent \in Message /\ sent.type = "Reply" /\ sent.to = c
      /\ sent.result = app'.addr_result[c]
  BY <1>1, <1>3 DEF Message, Reply
<1>5. /\ ExecutedInOrder' /\ LogBounded' /\ ResultsOK' /\ ClientsOK'
      /\ app'.addr_result[c].sequenceNum # 0
      /\ \A d \in Clients : app'.addr_result[d].sequenceNum >= Executed(d)
      /\ \/ app'.log = app.log
         \/ app'.log = Append(app.log, cmd)
  <2>1. CASE app' = app /\ Executed(c) # 0
    <3>1. ExecutedInOrder' /\ LogBounded' /\ ResultsOK' /\ ClientsOK'
      BY <1>1, <2>1 DEF IInv, ExecutedInOrder, LogBounded, ResultsOK, Executed,
                        ClientsOK, ClientOK
    <3> QED
      BY <1>3, <2>1, <3>1 DEF Executed
  <2>2. CASE /\ ~client[c].received
             /\ cmd = Command(c, client[c].sequenceNum)
             /\ Executed(c) = cmd.sequenceNum - 1
             /\ app'.log = Append(app.log, cmd)
             /\ app'.addr_result
                  = [app.addr_result EXCEPT
                       ![c] = [sequenceNum |-> cmd.sequenceNum,
                               result |-> Append(app.log, cmd)]]
    <3>1. /\ ExecutedInOrder' /\ LogBounded' /\ ResultsOK'
          /\ Executed(c)' = cmd.sequenceNum
          /\ \A d \in Clients : d # c => Executed(d)' = Executed(d)
      BY <1>1, <2>2, ExecutedLastKeeps
    <3>2. cmd.sequenceNum = client[c].sequenceNum
      BY <2>2 DEF Command
    <3>3. ClientsOK'
      <4> SUFFICES ASSUME NEW d \in Clients PROVE ClientOK(d)'
        BY DEF ClientsOK
      <4>1. CASE d = c
        BY <1>1, <2>2, <3>1, <3>2, <4>1 DEF ClientOK, IInv, ClientsOK
      <4>2. CASE d # c
        BY <1>1, <3>1, <4>2 DEF ClientOK, IInv, ClientsOK
      <4> QED
        BY <4>1, <4>2
    <3>4. /\ app'.addr_result[c].sequenceNum = cmd.sequenceNum
          /\ \A d \in Clients :
               d # c => app'.addr_result[d].sequenceNum = Executed(d)
      BY <3>1 DEF Executed
    <3>5. \A d \in Clients : app'.addr_result[d].sequenceNum >= Executed(d)
      BY <1>2, <1>3, <2>2, <3>4
    <3> QED
      BY <1>2, <2>2, <3>1, <3>3, <3>4, <3>5
  <2> QED
    BY <2>1, <2>2, RequestEffect
<1>6. TypeOK'
  BY <1>1, <1>4 DEF IInv, TypeOK
<1>7. NetOK'
  <2> SUFFICES ASSUME NEW k \in net' PROVE Said(k)'
    BY DEF NetOK
  <2>1. CASE k = sent
    <3>1. AnswersIn(app'.log, c, app'.addr_result[c])
      BY <1>1, <1>5 DEF ResultsOK, Executed
    <3>2. app'.addr_result[c].sequenceNum \in 1..app'.addr_result[c].sequenceNum
      BY <1>1, <1>3, <1>5
    <3> QED
      BY <1>4, <2>1, <3>1, <3>2 DEF Said, Executed
  <2>2. CASE k \in net
    <3>1. Said(k)
      BY <2>2 DEF IInv, NetOK
    <3>2. ASSUME k.type = "Reply"
          PROVE  /\ k.result.sequenceNum
                      \in 1..app'.addr_result[k.to].sequenceNum
                 /\ AnswersIn(app'.log, k.to, k.result)
      <4>1. k.to \in Clients
        BY <2>2, <3>2 DEF IInv, TypeOK, Message
      <4>2. AnswersIn(app'.log, k.to, k.result)
        BY <1>1, <1>2, <1>5, <3>1, <3>2, <4>1, AnswersStay DEF Said
      <4> QED
        BY <1>3, <1>5, <3>1, <3>2, <4>1, <4>2 DEF Said
    <3>3. k.type = "Request" =>
            k.command.sequenceNum <= client'[k.command.addr].sequenceNum
      BY <1>1, <3>1 DEF Said
    <3> QED
      BY <3>2, <3>3 DEF Said, Executed
  <2> QED
    BY <1>1, <2>1, <2>2
<1>8. RetryPending'
  BY <1>1 DEF IInv, RetryPending
<1> QED
  BY <1>5, <1>6, <1>7, <1>8 DEF IInv

-----------------------------------------------------------------------------

LEMMA Invariant == Spec => []IInv
<1>1. IInv /\ [Next]_vars => IInv'
  <2> SUFFICES ASSUME IInv, [Next]_vars PROVE IInv'
    OBVIOUS
  <2>1. CASE \E c \in Clients : SendCommand(c)
    BY <2>1, SendCommandKeeps
  <2>2. CASE \E c \in Clients : \E n \in timers[c] : OnClientTimer(c, n)
    BY <2>2, OnClientTimerKeeps
  <2>3. CASE \E m \in net : HandleRequest(m)
    BY <2>3, HandleRequestKeeps
  <2>4. CASE \E m \in net : HandleReply(m)
    BY <2>4, HandleReplyKeeps
  <2>5. CASE \E m \in net : Lose(m)
    BY <2>5, LoseKeeps
  <2>6. CASE UNCHANGED vars
    BY <2>6 DEF vars, IInv, TypeOK, ExecutedInOrder, LogBounded, ResultsOK,
                Executed, ClientsOK, ClientOK, NetOK, Said, RetryPending
  <2> QED
    BY <2>1, <2>2, <2>3, <2>4, <2>5, <2>6 DEF Next, ClientStep
<1> QED
  BY <1>1, InitInv, PTL DEF Spec

\* The fields of clients and server hold values of their types.
THEOREM TypeCorrect == Spec => []TypeOK
<1>1. IInv => TypeOK
  BY DEF IInv
<1> QED
  BY <1>1, Invariant, PTL

\* However requests are repeated or overtaken, the service executes a client's
\* commands in the order of their numbers, each once.
THEOREM InOrder == Spec => []ExecutedInOrder
<1>1. IInv => ExecutedInOrder
  BY DEF IInv
<1> QED
  BY <1>1, Invariant, PTL

\* A client that waits has a timer pending that will send its command again.
THEOREM Retry == Spec => []RetryPending
<1>1. IInv => RetryPending
  BY DEF IInv
<1> QED
  BY <1>1, Invariant, PTL

-----------------------------------------------------------------------------
(* Implementing ExactlyOnce *)

LEMMA WaitingIs ==
  ASSUME IInv, NEW c \in Clients
  PROVE  Service!Waiting(c) <=> ~client[c].received
<1>1. /\ client[c].sequenceNum \in Nat /\ client[c].received \in BOOLEAN
      /\ results[c] \in Seq(Log) /\ Len(results[c]) \in Nat
  BY DEF IInv, TypeOK, ClientState
<1> QED
  BY <1>1 DEF IInv, ClientsOK, ClientOK, Service!Waiting

LEMMA CurrentIs ==
  ASSUME NEW c \in Clients
  PROVE  Service!Current(c) = Command(c, client[c].sequenceNum)
  BY DEF Service!Current, Command

LEMMA SendCommandInvokes ==
  ASSUME IInv, NEW c \in Clients, SendCommand(c)
  PROVE  Service!Invoke(c)
<1> DEFINE f == [d \in Clients |-> client[d].sequenceNum]
           n == client[c].sequenceNum + 1
<1>1. client \in [Clients -> ClientState]
  BY DEF IInv, TypeOK
<1>2. client' = [client EXCEPT ![c].sequenceNum = n, ![c].received = FALSE]
  BY DEF SendCommand
<1>3. /\ client'[c].sequenceNum = n
      /\ \A d \in Clients : d # c => client'[d] = client[d]
  BY <1>1, <1>2 DEF ClientState
<1>4. [d \in Clients |-> client'[d].sequenceNum] = [f EXCEPT ![c] = @ + 1]
  BY <1>3
<1>5. app' = app /\ results' = results /\ ~Service!Waiting(c)
  BY WaitingIs DEF SendCommand
<1> QED
  BY <1>4, <1>5 DEF Service!Invoke

LEMMA HandleReplyReturns ==
  ASSUME IInv, NEW m \in net, HandleReply(m)
  PROVE  Service!Return(m.to)
<1> DEFINE c == m.to
<1>1. /\ c \in Clients /\ AnswersIn(app.log, c, m.result)
  BY ReplyAnswers
<1>2. /\ ~client[c].received /\ m.result.sequenceNum = client[c].sequenceNum
      /\ app' = app
      /\ results' = [results EXCEPT ![c] = Append(@, m.result.result)]
  BY DEF HandleReply
<1>3. client' = [client EXCEPT ![c].received = TRUE, ![c].reply = m.result]
  BY DEF HandleReply
<1>4. client \in [Clients -> ClientState]
  BY DEF IInv, TypeOK
<1>5. \A d \in Clients : client'[d].sequenceNum = client[d].sequenceNum
  BY <1>1, <1>3, <1>4, Zenon DEF ClientState
<1>6. [d \in Clients |-> client'[d].sequenceNum]
        = [d \in Clients |-> client[d].sequenceNum]
  BY <1>5
<1>7. PICK i \in DOMAIN app.log :
        /\ app.log[i] = Command(c, client[c].sequenceNum)
        /\ m.result.result = SubSeq(app.log, 1, i)
  BY <1>1, <1>2 DEF AnswersIn
<1>8. Service!Waiting(c) /\ app.log[i] = Service!Current(c)
  BY <1>1, <1>2, <1>7, WaitingIs, CurrentIs
<1>9. results' = [results EXCEPT ![c] = Append(@, SubSeq(app.log, 1, i))]
  BY <1>2, <1>7
<1> QED
  BY <1>2, <1>6, <1>8, <1>9, Zenon DEF Service!Return

LEMMA HandleRequestPerforms ==
  ASSUME IInv, NEW m \in net, HandleRequest(m)
  PROVE  \/ Service!Perform(m.command.addr) /\ m.command.addr \in Clients
         \/ UNCHANGED Service!vars
<1> DEFINE cmd == m.command
           c == cmd.addr
<1>1. /\ cmd \in AMOCommand /\ c \in Clients
      /\ UNCHANGED <<client, timers, results>>
  BY RequestEffect
<1>2. CASE app' = app
  BY <1>1, <1>2 DEF Service!vars
<1>3. CASE /\ ~client[c].received
           /\ cmd = Command(c, client[c].sequenceNum)
           /\ Executed(c) = cmd.sequenceNum - 1
           /\ app'.log = Append(app.log, cmd)
  <2>1. cmd = Service!Current(c) /\ Service!Waiting(c)
    BY <1>1, <1>3, WaitingIs, CurrentIs
  <2>2. ASSUME NEW i \in DOMAIN app.log PROVE app.log[i] # cmd
    BY <1>1, <1>3 DEF IInv, LogBounded, AMOCommand
  <2> QED
    BY <1>1, <1>3, <2>1, <2>2 DEF Service!Perform
<1> QED
  BY <1>2, <1>3, RequestEffect

\* Clients see a service that executes each of their commands once, in one
\* order, while its client waits for it.
THEOREM Implements == Spec => ImplementsExactlyOnce
<1>1. Init => Service!Init
  BY DEF Init, NewApplication, Service!Init
<1>2. IInv /\ [Next]_vars => [Service!Next]_(Service!vars)
  <2> SUFFICES ASSUME IInv, [Next]_vars
               PROVE  Service!Next \/ UNCHANGED Service!vars
    OBVIOUS
  <2>1. CASE \E c \in Clients : SendCommand(c)
    BY <2>1, SendCommandInvokes DEF Service!Next
  <2>2. CASE \E c \in Clients : \E n \in timers[c] : OnClientTimer(c, n)
    BY <2>2 DEF OnClientTimer, Service!vars
  <2>3. CASE \E m \in net : HandleRequest(m)
    BY <2>3, HandleRequestPerforms DEF Service!Next
  <2>4. CASE \E m \in net : HandleReply(m)
    BY <2>4, HandleReplyReturns, ReplyAnswers DEF Service!Next
  <2>5. CASE \E m \in net : Lose(m)
    BY <2>5 DEF Lose, Service!vars
  <2>6. CASE UNCHANGED vars
    BY <2>6 DEF vars, Service!vars
  <2> QED
    BY <2>1, <2>2, <2>3, <2>4, <2>5, <2>6 DEF Next, ClientStep
<1> QED
  BY <1>1, <1>2, Invariant, PTL DEF Spec, ImplementsExactlyOnce, Service!Spec

-----------------------------------------------------------------------------
(* The wrapped application *)

\* A result stands for a log that the service has gone through.
StandsIn(executed, after, log, result) ==
  /\ Len(log) \in DOMAIN executed
  /\ result = Apply(after[Len(log) - 1], log[Len(log)]).result

Stands(log, result) == StandsIn(app.log, states, log, result)

\* The application is where the log has taken it, and the newest result of each
\* client is the one that the log gives.
WrappedOK ==
  /\ wrapped.application = states[Len(app.log)]
  /\ wrapped.addr_result = [c \in Clients |-> wrapped.addr_result[c]]
  /\ \A c \in Clients :
       /\ wrapped.addr_result[c].sequenceNum = Executed(c)
       /\ Executed(c) # 0 =>
            Stands(app.addr_result[c].result, wrapped.addr_result[c].result)

WInv == FollowsLog /\ WrappedOK /\ \A a \in answers : Stands(a.log, a.result)

LEMMA WrappedInitInv == WrappedInit => WInv
<1> SUFFICES ASSUME WrappedInit PROVE WInv
  OBVIOUS
<1>1. /\ app.log = <<>> /\ Len(app.log) = 0 /\ DOMAIN app.log = {}
      /\ \A c \in Clients : Executed(c) = 0
  BY DEF WrappedInit, Init, NewApplication, NoResult, Executed
<1>2. /\ states = [n \in {0} |-> NewState] /\ answers = {}
      /\ wrapped.application = NewState
      /\ wrapped.addr_result = [c \in Clients |-> [sequenceNum |-> 0]]
  BY DEF WrappedInit
<1>3. FollowsLog
  BY <1>1, <1>2 DEF FollowsLog
<1>4. WrappedOK
  BY <1>1, <1>2 DEF WrappedOK
<1> QED
  BY <1>2, <1>3, <1>4 DEF WInv

\* A request of a command that has been executed.
LEMMA AnswerAgain ==
  ASSUME IInv, WInv, NEW m \in net, AnswerRequest(m),
         AlreadyExecuted(app, m.command)
  PROVE  WInv'
<1> DEFINE cmd == m.command
           c == cmd.addr
<1>1. /\ m.type = "Request" /\ cmd \in AMOCommand /\ c \in Clients
      /\ cmd.sequenceNum \in Nat \ {0} /\ app \in AMOApplication
      /\ app.log \in Log /\ Len(app.log) \in Nat
  BY DEF AnswerRequest, HandleRequest, IInv, TypeOK, Message, AMOCommand,
         AMOApplication, Log
<1>2. Executed(c) \in Nat /\ Executed(c) >= cmd.sequenceNum
  BY <1>1 DEF AlreadyExecuted, Executed, AMOApplication, AMOResult
<1>3. app' = app /\ Answer(app, cmd) = app.addr_result[c]
  BY <1>1, ExecuteEffect DEF AnswerRequest, HandleRequest, Answer
<1>4. wrapped.addr_result[c].sequenceNum = Executed(c)
  BY <1>1 DEF WInv, WrappedOK
<1>5. wrapped' = wrapped
  BY <1>2, <1>4 DEF AnswerRequest, Perform, AlreadyExecuted
<1>6. states' = [n \in 0..Len(app.log) |->
                   IF n \in DOMAIN states THEN states[n]
                   ELSE wrapped.application]
  BY <1>3, <1>5 DEF AnswerRequest
<1>7. /\ DOMAIN states = 0..Len(app.log) /\ DOMAIN states' = DOMAIN states
      /\ \A n \in DOMAIN states : states'[n] = states[n]
  BY <1>6 DEF WInv, FollowsLog
<1>8. answers' = answers \cup {[log |-> app.addr_result[c].result,
                                result |-> wrapped.addr_result[c].result]}
  BY <1>3, <1>5 DEF AnswerRequest
<1>9. Stands(app.addr_result[c].result, wrapped.addr_result[c].result)
  BY <1>1, <1>2 DEF WInv, WrappedOK
<1>10. FollowsLog'
  <2>1. \A n \in DOMAIN app.log : n \in DOMAIN states /\ n - 1 \in DOMAIN states
    BY <1>1, <1>7 DEF Log
  <2>2. 0 \in DOMAIN states
    BY <1>1, <1>7
  <2> QED
    BY <1>3, <1>7, <2>1, <2>2 DEF WInv, FollowsLog
<1>11. \A l, r : Stands(l, r) => StandsIn(app'.log, states', l, r)
  <2> SUFFICES ASSUME NEW l, NEW r, Stands(l, r)
               PROVE  StandsIn(app'.log, states', l, r)
    OBVIOUS
  <2>1. Len(l) \in 1..Len(app.log)
    BY <1>1 DEF Stands, StandsIn, Log
  <2>2. Len(l) - 1 \in DOMAIN states
    BY <1>1, <1>7, <2>1
  <2> QED
    BY <1>3, <1>7, <2>2 DEF Stands, StandsIn
<1>12. WrappedOK'
  <2>1. wrapped'.application = states'[Len(app'.log)]
    BY <1>1, <1>3, <1>5, <1>7 DEF WInv, WrappedOK
  <2>2. \A d \in Clients : Executed(d)' = Executed(d)
    BY <1>3 DEF Executed
  <2> QED
    BY <1>3, <1>5, <1>11, <2>1, <2>2 DEF WInv, WrappedOK, Stands
<1>13. \A a \in answers' : StandsIn(app'.log, states', a.log, a.result)
  BY <1>8, <1>9, <1>11 DEF WInv
<1> QED
  BY <1>10, <1>12, <1>13 DEF WInv, Stands

\* A request of a command that has not been executed.
LEMMA AnswerAnew ==
  ASSUME IInv, WInv, NEW m \in net, AnswerRequest(m),
         ~AlreadyExecuted(app, m.command)
  PROVE  WInv'
<1> DEFINE cmd == m.command
           c == cmd.addr
           N == Len(app.log)
           x == Apply(states[N], cmd)
<1>1. /\ m.type = "Request" /\ cmd \in AMOCommand /\ c \in Clients
      /\ cmd.sequenceNum \in Nat \ {0} /\ app \in AMOApplication
      /\ app.log \in Log /\ N \in Nat /\ DOMAIN app.log = 1..N
      /\ app.addr_result \in [Clients -> AMOResult]
  BY DEF AnswerRequest, HandleRequest, IInv, TypeOK, Message, AMOCommand,
         AMOApplication, Log
<1>2. /\ app'.log = Append(app.log, cmd)
      /\ app'.addr_result
           = [app.addr_result EXCEPT
                ![c] = [sequenceNum |-> cmd.sequenceNum, result |-> app'.log]]
      /\ Answer(app, cmd) = app'.addr_result[c]
  <2>1. app' = Execute(app, cmd)
    BY DEF AnswerRequest, HandleRequest
  <2>2. /\ Execute(app, cmd).log = Append(app.log, cmd)
        /\ Execute(app, cmd).addr_result
             = [app.addr_result EXCEPT
                  ![c] = [sequenceNum |-> cmd.sequenceNum,
                          result |-> Append(app.log, cmd)]]
    BY <1>1, ExecuteEffect
  <2> QED
    BY <2>1, <2>2 DEF Answer
<1>3. /\ app'.log \in Log /\ Len(app'.log) = N + 1 /\ DOMAIN app'.log = 1..(N + 1)
      /\ app'.log[N + 1] = cmd
      /\ \A i \in 1..N : app'.log[i] = app.log[i]
  BY <1>1, <1>2, AppendLog DEF Log
<1>4. /\ app'.addr_result[c].sequenceNum = cmd.sequenceNum
      /\ app'.addr_result[c].result = app'.log
      /\ \A d \in Clients : d # c => app'.addr_result[d] = app.addr_result[d]
  BY <1>1, <1>2
<1>5. wrapped.addr_result[c].sequenceNum = Executed(c)
      /\ wrapped.application = states[N]
      /\ wrapped.addr_result = [d \in Clients |-> wrapped.addr_result[d]]
  BY <1>1 DEF WInv, WrappedOK
<1>6. wrapped' = [application |-> x.state,
                  addr_result |-> [wrapped.addr_result EXCEPT
                    ![c] = [sequenceNum |-> cmd.sequenceNum,
                            result |-> x.result]]]
  BY <1>5 DEF AnswerRequest, Perform, AlreadyExecuted, Executed
<1>7. /\ wrapped'.application = x.state
      /\ wrapped'.addr_result = [d \in Clients |-> wrapped'.addr_result[d]]
      /\ wrapped'.addr_result[c].sequenceNum = cmd.sequenceNum
      /\ wrapped'.addr_result[c].result = x.result
      /\ \A d \in Clients : d # c => wrapped'.addr_result[d] = wrapped.addr_result[d]
  BY <1>1, <1>5, <1>6
<1>8. /\ DOMAIN states = 0..N /\ DOMAIN states' = 0..(N + 1)
      /\ \A n \in 0..N : states'[n] = states[n]
      /\ states'[N + 1] = x.state
  <2>1. states' = [n \in 0..(N + 1) |->
                     IF n \in DOMAIN states THEN states[n] ELSE x.state]
    BY <1>3, <1>7 DEF AnswerRequest
  <2>2. DOMAIN states = 0..N
    BY DEF WInv, FollowsLog
  <2> HIDE DEF x
  <2> QED
    BY <1>1, <2>1, <2>2
<1>9. answers' = answers \cup {[log |-> app'.log, result |-> x.result]}
  BY <1>2, <1>4, <1>7 DEF AnswerRequest
<1>10. FollowsLog'
  <2>1. states'[0] = NewState
    BY <1>1, <1>8 DEF WInv, FollowsLog
  <2>2. ASSUME NEW n \in 1..(N + 1)
        PROVE  states'[n] = Apply(states'[n - 1], app'.log[n]).state
    <3>1. CASE n = N + 1
      BY <1>1, <1>3, <1>8, <3>1
    <3>2. CASE n \in 1..N
      <4>1. n \in 0..N /\ n - 1 \in 0..N
        BY <1>1, <3>2
      <4> QED
        BY <1>1, <1>3, <1>8, <3>2, <4>1 DEF WInv, FollowsLog
    <3> QED
      BY <1>1, <3>1, <3>2
  <2> QED
    BY <1>3, <1>8, <2>1, <2>2 DEF FollowsLog
<1>11. \A l, r : Stands(l, r) => StandsIn(app'.log, states', l, r)
  <2> SUFFICES ASSUME NEW l, NEW r, Stands(l, r)
               PROVE  StandsIn(app'.log, states', l, r)
    OBVIOUS
  <2>1. Len(l) \in 1..N
    BY <1>1 DEF Stands, StandsIn
  <2>2. Len(l) \in 1..(N + 1) /\ Len(l) - 1 \in 0..N
    BY <1>1, <2>1
  <2> QED
    BY <1>3, <1>8, <2>2 DEF Stands, StandsIn
<1>12. StandsIn(app'.log, states', app'.log, x.result)
  <2>1. N + 1 \in DOMAIN app'.log /\ (N + 1) - 1 = N /\ N \in 0..N
    BY <1>1, <1>3
  <2> QED
    BY <1>3, <1>8, <2>1 DEF StandsIn
<1> HIDE DEF x
<1>13. WrappedOK'
  <2>1. wrapped'.application = states'[Len(app'.log)]
    BY <1>3, <1>7, <1>8
  <2>2. ASSUME NEW d \in Clients
        PROVE  /\ wrapped'.addr_result[d].sequenceNum
                    = app'.addr_result[d].sequenceNum
               /\ app'.addr_result[d].sequenceNum # 0 =>
                    StandsIn(app'.log, states', app'.addr_result[d].result,
                             wrapped'.addr_result[d].result)
    <3>1. CASE d = c
      BY <1>4, <1>7, <1>12, <3>1
    <3>2. CASE d # c
      BY <1>4, <1>7, <1>11, <3>2 DEF WInv, WrappedOK, Executed
    <3> QED
      BY <3>1, <3>2
  <2> QED
    BY <1>7, <2>1, <2>2 DEF WrappedOK, Executed, Stands
<1>14. \A a \in answers' : StandsIn(app'.log, states', a.log, a.result)
  BY <1>9, <1>11, <1>12 DEF WInv
<1> QED
  BY <1>10, <1>13, <1>14 DEF WInv, Stands

\* The other steps leave the service and its application alone.
LEMMA OthersKeep ==
  ASSUME WInv, UNCHANGED <<app, wrapped, states, answers>>
  PROVE  WInv'
  BY DEF WInv, FollowsLog, WrappedOK, Executed, Stands, StandsIn

\* Beside its application, the service is the one of ClientServer.
LEMMA WrappedIsServer == WrappedSpec => Spec
<1>1. WrappedInit => Init
  BY DEF WrappedInit
<1>2. [WrappedNext]_<<vars, wrappedVars>> => [Next]_vars
  BY DEF WrappedNext, AnswerRequest, Next
<1> QED
  BY <1>1, <1>2, PTL DEF WrappedSpec, Spec

LEMMA WrappedInvariant == WrappedSpec => []WInv
<1>1. IInv /\ WInv /\ [WrappedNext]_<<vars, wrappedVars>> => WInv'
  <2> SUFFICES ASSUME IInv, WInv, [WrappedNext]_<<vars, wrappedVars>>
               PROVE  WInv'
    OBVIOUS
  <2>1. CASE \E m \in net : AnswerRequest(m)
    BY <2>1, AnswerAgain, AnswerAnew
  <2>2. CASE /\ \/ \E c \in Clients : ClientStep(c)
                \/ \E m \in net : HandleReply(m) \/ Lose(m)
             /\ UNCHANGED wrappedVars
    <3>1. app' = app
      BY <2>2 DEF ClientStep, SendCommand, OnClientTimer, HandleReply, Lose
    <3> QED
      BY <2>2, <3>1, OthersKeep DEF wrappedVars
  <2>3. CASE UNCHANGED <<vars, wrappedVars>>
    BY <2>3, OthersKeep DEF vars, wrappedVars
  <2> QED
    BY <2>1, <2>2, <2>3 DEF WrappedNext
<1>2. WrappedSpec => []IInv
  BY WrappedIsServer, Invariant, PTL
<1> QED
  BY <1>1, <1>2, WrappedInitInv, PTL DEF WrappedSpec

\* Whatever deterministic application the server wraps, and however requests are
\* repeated, lost or overtaken, what is sent to a client is what the application
\* answers when the commands of the log are executed one after the other.
THEOREM AnswersOfApplication == WrappedSpec => []AnswersByLog
<1>1. WInv => AnswersByLog
  BY DEF WInv, AnswersByLog, Stands, StandsIn, ResultOf
<1> QED
  BY <1>1, WrappedInvariant, PTL

\* The service with its application keeps the promise of ExactlyOnce, whose
\* results AnswersOfApplication reads as results of the application.
THEOREM WrappedImplements == WrappedSpec => ImplementsExactlyOnce
  BY WrappedIsServer, Implements, PTL
=============================================================================

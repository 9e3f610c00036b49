---------------------------- MODULE ClientServer ----------------------------
(***************************************************************************)
(* Lab 1: SimpleClients and one SimpleServer over a network that loses,    *)
(* repeats, reorders and delays messages.  The network is a set: delivery  *)
(* leaves the message in place, Lose removes it, and a retry puts it back. *)
(*                                                                         *)
(* Definitions introduced by "Slip:" stand for plausible mistakes in the   *)
(* code (see ViewServerCore).                                              *)
(***************************************************************************)
EXTENDS AtMostOnce

CONSTANT MaxCommands  \* bound: the commands a client's workload holds

ASSUME MaxCommandsAssumption == MaxCommands \in Nat

VARIABLES
  app,     \* SimpleServer.app
  client,  \* the fields of each SimpleClient
  timers,  \* sequence numbers for which each client has a ClientTimer pending
  net,     \* messages in flight
  results  \* history: the results getResult has given each client

vars == <<app, client, timers, net, results>>

Request(cmd) == [type |-> "Request", command |-> cmd]
Reply(to, res) == [type |-> "Reply", to |-> to, result |-> res]

Message ==
  [type : {"Request"}, command : AMOCommand]
    \cup [type : {"Reply"}, to : Clients, result : AMOResult]

\* received is req_rcv.get(sequenceNum) = 1; the entries of req_rcv for older
\* numbers are all 1, since the next command waits for the result of the last.
ClientState == [sequenceNum : Nat, received : BOOLEAN, reply : AMOResult]

TypeOK ==
  /\ app \in AMOApplication
  /\ client \in [Clients -> ClientState]
  /\ timers \in [Clients -> SUBSET Nat]
  /\ net \in SUBSET Message
  /\ results \in [Clients -> Seq(Log)]

Init ==
  /\ app = NewApplication
  /\ client = [c \in Clients |->
                [sequenceNum |-> 0, received |-> TRUE, reply |-> NoResult]]
  /\ timers = [c \in Clients |-> {}]
  /\ net = {}
  /\ results = [c \in Clients |-> <<>>]

-----------------------------------------------------------------------------

Command(c, n) == [addr |-> c, sequenceNum |-> n]

\* Slip: the number is advanced after it is used.
SendOldNumber(c) ==
  LET n == client[c].sequenceNum
  IN  /\ client[c].received
      /\ n < MaxCommands
      /\ client' = [client EXCEPT ![c].sequenceNum = n + 1, ![c].received = FALSE]
      /\ net' = net \cup {Request(Command(c, n))}
      /\ timers' = [timers EXCEPT ![c] = @ \cup {n + 1}]
      /\ UNCHANGED <<app, results>>

\* sendCommand, called by the client's worker when it has no command or the
\* result of the last one.
SendCommand(c) ==
  LET n == client[c].sequenceNum + 1
  IN  /\ client[c].received
      /\ n <= MaxCommands
      /\ client' = [client EXCEPT ![c].sequenceNum = n, ![c].received = FALSE]
      /\ net' = net \cup {Request(Command(c, n))}
      /\ timers' = [timers EXCEPT ![c] = @ \cup {n}]
      /\ UNCHANGED <<app, results>>

\* SimpleServer.handleRequest
HandleRequest(m) ==
  /\ m.type = "Request"
  /\ app' = Execute(app, m.command)
  /\ net' = net \cup {Reply(m.command.addr, Answer(app, m.command))}
  /\ UNCHANGED <<client, timers, results>>

\* Slip: any reply is taken for the answer to the outstanding command.
HandleAnyReply(m) ==
  /\ m.type = "Reply"
  /\ LET c == m.to
     IN  /\ ~client[c].received
         /\ client' = [client EXCEPT ![c].received = TRUE,
                                     ![c].reply = m.result]
         /\ results' = [results EXCEPT ![c] = Append(@, m.result.result)]
  /\ UNCHANGED <<app, timers, net>>

\* handleReply: only a reply that carries the outstanding number counts, and
\* only the first one; the waiting getResult then returns its result.
HandleReply(m) ==
  /\ m.type = "Reply"
  /\ LET c == m.to
     IN  /\ ~client[c].received
         /\ m.result.sequenceNum = client[c].sequenceNum
         /\ client' = [client EXCEPT ![c].received = TRUE,
                                     ![c].reply = m.result]
         /\ results' = [results EXCEPT ![c] = Append(@, m.result.result)]
  /\ UNCHANGED <<app, timers, net>>

\* Slip: the timer resends once and is not set again.
OnClientTimerOnce(c, n) ==
  /\ n \in timers[c]
  /\ timers' = [timers EXCEPT ![c] = @ \ {n}]
  /\ net' = IF n = client[c].sequenceNum /\ ~client[c].received
            THEN net \cup {Request(Command(c, n))}
            ELSE net
  /\ UNCHANGED <<app, client, results>>

\* onClientTimer for number n: resend and re-arm while the result is missing,
\* otherwise let the timer go.
OnClientTimer(c, n) ==
  /\ n \in timers[c]
  /\ IF n = client[c].sequenceNum /\ ~client[c].received
     THEN /\ net' = net \cup {Request(Command(c, n))}
          /\ UNCHANGED timers
     ELSE /\ timers' = [timers EXCEPT ![c] = @ \ {n}]
          /\ UNCHANGED net
  /\ UNCHANGED <<app, client, results>>

\* The network loses a message.
Lose(m) ==
  /\ net' = net \ {m}
  /\ UNCHANGED <<app, client, timers, results>>

ClientStep(c) ==
  SendCommand(c) \/ \E n \in timers[c] : OnClientTimer(c, n)

Next ==
  \/ \E c \in Clients : ClientStep(c)
  \/ \E m \in net : HandleRequest(m) \/ HandleReply(m) \/ Lose(m)

Spec == Init /\ [][Next]_vars

\* Workers and timers run.  The network is fair-lossy: a message that is sent
\* again and again arrives again and again.
DeliverRequest(c) ==
  LET m == Request(Command(c, client[c].sequenceNum))
  IN  m \in net /\ HandleRequest(m)
DeliverReply(c) ==
  \E m \in net : m.type = "Reply" /\ m.to = c /\ HandleReply(m)

Fairness ==
  \A c \in Clients :
    /\ WF_vars(ClientStep(c))
    /\ SF_vars(DeliverRequest(c))
    /\ SF_vars(DeliverReply(c))

FairSpec == Spec /\ Fairness

-----------------------------------------------------------------------------

\* However requests and replies are repeated, lost or overtaken by later ones,
\* clients see a service that executes each command once, in one order, while
\* its client waits for it.
Service == INSTANCE ExactlyOnce
             WITH log <- app.log,
                  issued <- [c \in Clients |-> client[c].sequenceNum],
                  returned <- results
ImplementsExactlyOnce == Service!Spec

\* The server executes a client's commands in the order of their numbers and
\* each once: a request that arrives again, or after a later one of its client,
\* is not executed.
ExecutedInOrder ==
  \A i, j \in DOMAIN app.log :
    (i < j /\ app.log[i].addr = app.log[j].addr)
      => app.log[i].sequenceNum < app.log[j].sequenceNum

\* A pending timer is what drives every retry: while a command waits for its
\* result the client has a timer that will send it again.
RetryPending ==
  \A c \in Clients :
    ~client[c].received => client[c].sequenceNum \in timers[c]

\* Every command of every workload gets its result.
EveryCommandAnswered ==
  \A c \in Clients : <>[](Len(results[c]) = MaxCommands)

=============================================================================

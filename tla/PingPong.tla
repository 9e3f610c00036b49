------------------------------ MODULE PingPong ------------------------------
(***************************************************************************)
(* Lab 0: PingClients and one PingServer over a network that loses,        *)
(* repeats, reorders and delays messages.  Requests carry no number: the   *)
(* client tells answers apart by the value, and two pings with the same    *)
(* value are the same ping.                                                *)
(*                                                                         *)
(* Definitions introduced by "Slip:" stand for plausible mistakes in the   *)
(* code (see ViewServerCore).                                              *)
(***************************************************************************)
EXTENDS Naturals, Sequences

CONSTANTS
  Clients, Values,
  Null,      \* no ping, or no pong
  MaxPings   \* bound: the pings of a client's workload

ASSUME NullAssumption == Null \notin Values
ASSUME MaxPingsAssumption == MaxPings \in Nat

VARIABLES
  client,  \* the fields of each PingClient
  timers,  \* how many PingTimers each client has pending for each value
  net,     \* messages in flight
  asked,   \* history: the pings each client was given
  results  \* history: the pongs getResult has given each client

vars == <<client, timers, net, asked, results>>

PingRequest(c, v) == [type |-> "PingRequest", client |-> c, value |-> v]
PongReply(c, v) == [type |-> "PongReply", client |-> c, value |-> v]

Message ==
  [type : {"PingRequest", "PongReply"}, client : Clients, value : Values]

TypeOK ==
  /\ client \in [Clients -> [ping : Values \cup {Null}, pong : Values \cup {Null}]]
  /\ timers \in [Clients -> [Values -> 0..MaxPings]]
  /\ net \in SUBSET Message
  /\ asked \in [Clients -> Seq(Values)]
  /\ results \in [Clients -> Seq(Values)]

Init ==
  /\ client = [c \in Clients |-> [ping |-> Null, pong |-> Null]]
  /\ timers = [c \in Clients |-> [v \in Values |-> 0]]
  /\ net = {}
  /\ asked = [c \in Clients |-> <<>>]
  /\ results = [c \in Clients |-> <<>>]

-----------------------------------------------------------------------------

Idle(c) == client[c].ping = Null \/ client[c].pong # Null

\* Slip: the last pong is not cleared.
SendOverPong(c, v) ==
  /\ Idle(c) /\ Len(asked[c]) < MaxPings
  /\ client' = [client EXCEPT ![c].ping = v]
  /\ net' = net \cup {PingRequest(c, v)}
  /\ timers' = [timers EXCEPT ![c][v] = @ + 1]
  /\ asked' = [asked EXCEPT ![c] = Append(@, v)]
  /\ UNCHANGED results

\* Slip: one timer per value is thought to be enough.
SendOnOldTimer(c, v) ==
  /\ Idle(c) /\ Len(asked[c]) < MaxPings
  /\ client' = [client EXCEPT ![c] = [ping |-> v, pong |-> Null]]
  /\ net' = net \cup {PingRequest(c, v)}
  /\ timers' = [timers EXCEPT ![c][v] = IF v = client[c].ping THEN @ ELSE @ + 1]
  /\ asked' = [asked EXCEPT ![c] = Append(@, v)]
  /\ UNCHANGED results

\* sendCommand, called by the client's worker when it has no command or the
\* result of the last one.
SendCommand(c, v) ==
  /\ Idle(c) /\ Len(asked[c]) < MaxPings
  /\ client' = [client EXCEPT ![c] = [ping |-> v, pong |-> Null]]
  /\ net' = net \cup {PingRequest(c, v)}
  /\ timers' = [timers EXCEPT ![c][v] = @ + 1]
  /\ asked' = [asked EXCEPT ![c] = Append(@, v)]
  /\ UNCHANGED results

\* PingServer.handlePingRequest
HandlePingRequest(m) ==
  /\ m.type = "PingRequest"
  /\ net' = net \cup {PongReply(m.client, m.value)}
  /\ UNCHANGED <<client, timers, asked, results>>

\* Slip: any pong answers the outstanding ping.
HandleAnyPong(m) ==
  LET c == m.client
  IN  /\ m.type = "PongReply"
      /\ client' = [client EXCEPT ![c].pong = m.value]
      /\ results' = IF client[c].pong = Null
                    THEN [results EXCEPT ![c] = Append(@, m.value)] ELSE results
      /\ UNCHANGED <<timers, net, asked>>

\* handlePongReply: only a pong with the value of the last ping is taken, the
\* first of which wakes getResult.
HandlePongReply(m) ==
  LET c == m.client
  IN  /\ m.type = "PongReply"
      /\ m.value = client[c].ping
      /\ client' = [client EXCEPT ![c].pong = m.value]
      /\ results' = IF client[c].pong = Null
                    THEN [results EXCEPT ![c] = Append(@, m.value)] ELSE results
      /\ UNCHANGED <<timers, net, asked>>

\* Slip: the retry goes through sendCommand, which sets a timer of its own.
OnPingTimerAnew(c, v) ==
  /\ timers[c][v] > 0
  /\ IF client[c].ping = v /\ client[c].pong = Null
     THEN /\ net' = net \cup {PingRequest(c, v)}
          /\ timers' = [timers EXCEPT ![c][v] = @ + 1]
     ELSE /\ timers' = [timers EXCEPT ![c][v] = @ - 1]
          /\ UNCHANGED net
  /\ UNCHANGED <<client, asked, results>>

\* onPingTimer: resend and re-arm while that very ping waits, otherwise let the
\* timer go.  A timer left over from an earlier ping of the same value resends
\* as well.
OnPingTimer(c, v) ==
  /\ timers[c][v] > 0
  /\ IF client[c].ping = v /\ client[c].pong = Null
     THEN /\ net' = net \cup {PingRequest(c, v)}
          /\ UNCHANGED timers
     ELSE /\ timers' = [timers EXCEPT ![c][v] = @ - 1]
          /\ UNCHANGED net
  /\ UNCHANGED <<client, asked, results>>

\* The network loses a message.
Lose(m) ==
  /\ net' = net \ {m}
  /\ UNCHANGED <<client, timers, asked, results>>

ClientStep(c) ==
  \E v \in Values : SendCommand(c, v) \/ OnPingTimer(c, v)

Next ==
  \/ \E c \in Clients : ClientStep(c)
  \/ \E m \in net : HandlePingRequest(m) \/ HandlePongReply(m) \/ Lose(m)

Spec == Init /\ [][Next]_vars

\* Workers and timers run, and the network is fair-lossy.
DeliverPing(c) ==
  LET m == PingRequest(c, client[c].ping)
  IN  m \in net /\ HandlePingRequest(m)
DeliverPong(c) ==
  LET m == PongReply(c, client[c].ping)
  IN  m \in net /\ HandlePongReply(m)

Fairness ==
  \A c \in Clients :
    /\ WF_vars(ClientStep(c))
    /\ SF_vars(DeliverPing(c))
    /\ SF_vars(DeliverPong(c))

FairSpec == Spec /\ Fairness

-----------------------------------------------------------------------------

\* Without numbers, a pong of an earlier ping may be taken for the answer to
\* the outstanding one.  That does no harm: every result is what its own ping
\* would have been answered, and no ping has two.
AnswersMatch ==
  \A c \in Clients :
    /\ Len(asked[c]) - Len(results[c])
         = IF client[c].ping # Null /\ client[c].pong = Null THEN 1 ELSE 0
    /\ \A i \in DOMAIN results[c] : results[c][i] = asked[c][i]

\* While a ping waits for its pong, a timer will send it again, also when its
\* value was asked before and an older timer for it may just have gone.
RetryPending ==
  \A c \in Clients :
    LET v == client[c].ping
    IN  v # Null /\ client[c].pong = Null => timers[c][v] > 0

\* Every ping of every workload gets its pong.
EveryPingAnswered ==
  \A c \in Clients : <>[](Len(results[c]) = MaxPings)

=============================================================================

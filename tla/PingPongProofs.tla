--------------------------- MODULE PingPongProofs ---------------------------
(***************************************************************************)
(* Theorems about lab 0, whatever the number of clients, values and pings  *)
(* and however messages are lost, repeated, reordered and delayed.         *)
(***************************************************************************)
EXTENDS PingPong, TLAPS

\* The outstanding ping is the last one that was asked.
LastAsked ==
  \A c \in Clients :
    client[c].ping # Null =>
      asked[c] # <<>> /\ client[c].ping = asked[c][Len(asked[c])]

\* No value has more timers than pings, of any value, were asked.
TimersBounded ==
  \A c \in Clients :
    /\ Len(asked[c]) <= MaxPings
    /\ \A v \in Values : timers[c][v] <= Len(asked[c])

IInv == TypeOK /\ LastAsked /\ TimersBounded /\ AnswersMatch /\ RetryPending

LEMMA InitInv == Init => IInv
<1> SUFFICES ASSUME Init PROVE IInv
  OBVIOUS
<1>1. \A c \in Clients :
        /\ client[c].ping = Null /\ client[c].pong = Null
        /\ \A v \in Values : timers[c][v] = 0
  BY DEF Init
<1>2. TypeOK
  BY MaxPingsAssumption DEF Init, TypeOK
<1> DEFINE none == <<>>
<1>3. Len(none) = 0 /\ DOMAIN none = {}
  OBVIOUS
<1>4. \A c \in Clients : asked[c] = none /\ results[c] = none
  BY DEF Init
<1> HIDE DEF none
<1>5. \A c \in Clients : Len(asked[c]) = 0 /\ Len(results[c]) = 0
                         /\ DOMAIN results[c] = {}
  BY <1>3, <1>4
<1>6. AnswersMatch
  <2> SUFFICES ASSUME NEW c \in Clients
               PROVE  /\ Len(asked[c]) - Len(results[c]) = 0
                      /\ \A i \in DOMAIN results[c] :
                           results[c][i] = asked[c][i]
    BY <1>1, Zenon DEF AnswersMatch
  <2>1. Len(asked[c]) - Len(results[c]) = 0
    BY <1>5
  <2> QED
    BY <1>5, <2>1
<1>7. TimersBounded
  <2> SUFFICES ASSUME NEW c \in Clients
               PROVE  /\ Len(asked[c]) <= MaxPings
                      /\ \A v \in Values : timers[c][v] <= Len(asked[c])
    BY DEF TimersBounded
  <2>1. Len(asked[c]) = 0 /\ 0 <= MaxPings
    BY <1>5, MaxPingsAssumption
  <2> QED
    BY <1>1, <2>1
<1> QED
  BY <1>1, <1>2, <1>6, <1>7 DEF IInv, LastAsked, RetryPending

\* What is known of the fields of one client.
LEMMA FieldTypes ==
  ASSUME TypeOK, NEW c \in Clients
  PROVE  /\ client[c].ping \in Values \cup {Null}
         /\ client[c].pong \in Values \cup {Null}
         /\ \A v \in Values : timers[c][v] \in 0..MaxPings
         /\ asked[c] \in Seq(Values) /\ Len(asked[c]) \in Nat
         /\ results[c] \in Seq(Values) /\ Len(results[c]) \in Nat
         /\ DOMAIN results[c] = 1..Len(results[c])
         /\ DOMAIN asked[c] = 1..Len(asked[c])
  BY DEF TypeOK

LEMMA AppendPing ==
  ASSUME NEW u \in Seq(Values), NEW v \in Values
  PROVE  /\ Append(u, v) \in Seq(Values) /\ Append(u, v) # <<>>
         /\ Len(Append(u, v)) = Len(u) + 1
         /\ DOMAIN Append(u, v) = 1..(Len(u) + 1)
         /\ Append(u, v)[Len(u) + 1] = v
         /\ \A i \in 1..Len(u) : Append(u, v)[i] = u[i]
  OBVIOUS

\* AnswersMatch, said of one client.
Matches(ask, res, owed) ==
  /\ Len(ask) = Len(res) + owed
  /\ \A i \in 1..Len(res) : res[i] = ask[i]

Owed(c) == IF client[c].ping # Null /\ client[c].pong = Null THEN 1 ELSE 0

LEMMA MatchesIs ==
  ASSUME NEW ask \in Seq(Values), NEW res \in Seq(Values), NEW owed \in {0, 1}
  PROVE  (/\ Len(ask) - Len(res) = owed
          /\ \A i \in DOMAIN res : res[i] = ask[i])
         <=> Matches(ask, res, owed)
<1>1. /\ Len(ask) \in Nat /\ Len(res) \in Nat
      /\ DOMAIN res = 1..Len(res)
  OBVIOUS
<1> QED
  BY <1>1 DEF Matches

LEMMA AllMatch ==
  ASSUME TypeOK, AnswersMatch, NEW c \in Clients
  PROVE  Matches(asked[c], results[c], Owed(c))
<1>1. asked[c] \in Seq(Values) /\ results[c] \in Seq(Values)
  BY FieldTypes
<1>2. Owed(c) \in {0, 1}
  BY DEF Owed
<1>3. /\ Len(asked[c]) - Len(results[c]) = Owed(c)
      /\ \A i \in DOMAIN results[c] : results[c][i] = asked[c][i]
  BY DEF AnswersMatch, Owed
<1> QED
  BY <1>1, <1>2, <1>3, MatchesIs

LEMMA AllMatchNext ==
  ASSUME TypeOK',
         \A c \in Clients : Matches(asked'[c], results'[c], Owed(c)')
  PROVE  AnswersMatch'
<1> SUFFICES ASSUME NEW c \in Clients
             PROVE  /\ Len(asked'[c]) - Len(results'[c])
                         = Owed(c)'
                    /\ \A i \in DOMAIN results'[c] :
                         results'[c][i] = asked'[c][i]
  BY DEF AnswersMatch, Owed
<1>1. asked'[c] \in Seq(Values) /\ results'[c] \in Seq(Values)
  BY DEF TypeOK
<1>2. Owed(c)' \in {0, 1}
  BY DEF Owed
<1> QED
  BY <1>1, <1>2, MatchesIs

\* An idle client has an answer to each of its pings.
LEMMA SendCommandKeeps ==
  ASSUME IInv, NEW c \in Clients, NEW v \in Values, SendCommand(c, v)
  PROVE  IInv'
<1>1. /\ TypeOK /\ v # Null /\ MaxPings \in Nat
      /\ Len(asked[c]) < MaxPings /\ Len(asked[c]) \in Nat
  BY NullAssumption, MaxPingsAssumption, FieldTypes DEF IInv, SendCommand
<1>2. /\ client' = [client EXCEPT ![c] = [ping |-> v, pong |-> Null]]
      /\ net' = net \cup {PingRequest(c, v)}
      /\ timers' = [timers EXCEPT ![c][v] = @ + 1]
      /\ asked' = [asked EXCEPT ![c] = Append(@, v)]
      /\ results' = results
  BY DEF SendCommand
<1>3. /\ client'[c].ping = v /\ client'[c].pong = Null
      /\ client' \in [Clients ->
                       [ping : Values \cup {Null}, pong : Values \cup {Null}]]
      /\ \A d \in Clients : d # c => client'[d] = client[d]
  BY <1>1, <1>2 DEF TypeOK
<1>4. /\ asked' \in [Clients -> Seq(Values)]
      /\ asked'[c] = Append(asked[c], v)
      /\ \A d \in Clients : d # c => asked'[d] = asked[d]
  BY <1>1, <1>2 DEF TypeOK
<1>5. /\ Len(asked'[c]) = Len(asked[c]) + 1 /\ asked'[c] # <<>>
      /\ asked'[c][Len(asked[c]) + 1] = v
      /\ \A i \in 1..Len(asked[c]) : asked'[c][i] = asked[c][i]
  <2>1. asked[c] \in Seq(Values)
    BY <1>1, FieldTypes
  <2> QED
    BY <1>4, <2>1, AppendPing
<1>6. timers[c] \in [Values -> 0..MaxPings] /\ timers[c][v] \in 0..Len(asked[c])
  BY <1>1 DEF TypeOK, IInv, TimersBounded
<1>7. timers[c][v] + 1 \in 0..MaxPings
  BY <1>1, <1>6
<1>8. /\ timers' \in [Clients -> [Values -> 0..MaxPings]]
      /\ timers'[c][v] = timers[c][v] + 1
      /\ \A d \in Clients, w \in Values :
           d # c \/ w # v => timers'[d][w] = timers[d][w]
  <2>1. timers' = [timers EXCEPT
                     ![c] = [timers[c] EXCEPT ![v] = timers[c][v] + 1]]
    BY <1>1, <1>2 DEF TypeOK
  <2>2. [timers[c] EXCEPT ![v] = timers[c][v] + 1] \in [Values -> 0..MaxPings]
    BY <1>6, <1>7
  <2> QED
    BY <1>1, <1>6, <2>1, <2>2 DEF TypeOK
<1>9. TypeOK'
  BY <1>1, <1>2, <1>3, <1>4, <1>8 DEF TypeOK, Message, PingRequest
<1>10. LastAsked'
  BY <1>1, <1>3, <1>4, <1>5 DEF IInv, LastAsked
<1>11. TimersBounded'
  <2> SUFFICES ASSUME NEW d \in Clients
               PROVE  /\ Len(asked'[d]) <= MaxPings
                      /\ \A w \in Values : timers'[d][w] <= Len(asked'[d])
    BY DEF TimersBounded
  <2>1. CASE d = c
    <3>1. \A w \in Values :
            timers[c][w] \in Nat /\ timers[c][w] <= Len(asked[c])
      BY <1>1, FieldTypes DEF IInv, TimersBounded
    <3> QED
      BY <1>1, <1>5, <1>8, <2>1, <3>1
  <2>2. CASE d # c
    BY <1>4, <1>8, <2>2 DEF IInv, TimersBounded
  <2> QED
    BY <2>1, <2>2
<1>12. AnswersMatch'
  <2>1. \A d \in Clients : Matches(asked[d], results[d], Owed(d))
    BY <1>1, AllMatch DEF IInv
  <2>2. Owed(c) = 0 /\ Owed(c)' = 1
    BY <1>1, <1>3 DEF SendCommand, Idle, Owed
  <2>3. Matches(asked'[c], results[c], Owed(c)')
    BY <1>1, <1>5, <2>1, <2>2, FieldTypes DEF Matches
  <2>4. ASSUME NEW d \in Clients, d # c
        PROVE  Matches(asked'[d], results[d], Owed(d)')
    BY <1>3, <1>4, <2>1, <2>4 DEF Owed
  <2> QED
    BY <1>2, <1>9, <2>3, <2>4, AllMatchNext
<1>13. RetryPending'
  <2> SUFFICES ASSUME NEW d \in Clients, client'[d].ping # Null,
                      client'[d].pong = Null
               PROVE  timers'[d][client'[d].ping] > 0
    BY DEF RetryPending
  <2>1. CASE d = c
    BY <1>3, <1>6, <1>8, <2>1
  <2>2. CASE d # c
    <3>1. client[d].ping \in Values /\ timers[d][client[d].ping] > 0
      BY <1>1, <1>3, <2>2, FieldTypes DEF IInv, RetryPending
    <3> QED
      BY <1>3, <1>8, <2>2, <3>1
  <2> QED
    BY <2>1, <2>2
<1> QED
  BY <1>9, <1>10, <1>11, <1>12, <1>13 DEF IInv

LEMMA HandlePingRequestKeeps ==
  ASSUME IInv, NEW m \in net, HandlePingRequest(m)
  PROVE  IInv'
<1>1. TypeOK'
  BY DEF HandlePingRequest, IInv, TypeOK, Message, PongReply
<1> QED
  BY <1>1 DEF HandlePingRequest, IInv, LastAsked, TimersBounded, AnswersMatch,
              RetryPending

\* The first pong with the value of the last ping is the answer to it, whichever
\* ping brought it about; a later one changes nothing.
LEMMA HandlePongReplyKeeps ==
  ASSUME IInv, NEW m \in net, HandlePongReply(m)
  PROVE  IInv'
<1> DEFINE c == m.client
           v == m.value
<1>1. /\ TypeOK /\ c \in Clients /\ v \in Values /\ v # Null
      /\ v = client[c].ping
  BY NullAssumption DEF IInv, TypeOK, Message, HandlePongReply
<1>2. /\ client' = [client EXCEPT ![c].pong = v]
      /\ results' = IF client[c].pong = Null
                    THEN [results EXCEPT ![c] = Append(@, v)] ELSE results
      /\ timers' = timers /\ net' = net /\ asked' = asked
  BY DEF HandlePongReply
<1> HIDE DEF c, v
<1>3. /\ client'[c].ping = v /\ client'[c].pong = v
      /\ client' \in [Clients ->
                       [ping : Values \cup {Null}, pong : Values \cup {Null}]]
      /\ \A d \in Clients : d # c => client'[d] = client[d]
  BY <1>1, <1>2 DEF TypeOK
<1>4. results' \in [Clients -> Seq(Values)]
  BY <1>1, <1>2 DEF TypeOK
<1>5. TypeOK'
  BY <1>1, <1>2, <1>3, <1>4 DEF TypeOK
<1>6. LastAsked' /\ TimersBounded'
  BY <1>1, <1>2, <1>3 DEF IInv, LastAsked, TimersBounded
<1>7. RetryPending'
  BY <1>1, <1>2, <1>3 DEF IInv, RetryPending
<1>8. AnswersMatch'
  <2>1. \A d \in Clients : Matches(asked[d], results[d], Owed(d))
    BY <1>1, AllMatch DEF IInv
  <2>2. Owed(c)' = 0
    BY <1>1, <1>3 DEF Owed
  <2>3. Matches(asked[c], results'[c], Owed(c)')
    <3>1. CASE Owed(c) = 0
      BY <1>1, <1>2, <2>1, <2>2, <3>1 DEF Owed
    <3>2. CASE Owed(c) = 1
      <4>1. results'[c] = Append(results[c], v)
        BY <1>1, <1>2, <3>2 DEF TypeOK, Owed
      <4>2. asked[c][Len(asked[c])] = v
        BY <1>1 DEF IInv, LastAsked
      <4>3. /\ Len(results'[c]) = Len(results[c]) + 1
            /\ results'[c][Len(results[c]) + 1] = v
            /\ \A i \in 1..Len(results[c]) : results'[c][i] = results[c][i]
            /\ Len(results[c]) \in Nat
        BY <1>1, <4>1, AppendPing, FieldTypes
      <4>4. /\ Len(asked[c]) = Len(results[c]) + 1
            /\ \A i \in 1..Len(results[c]) : results[c][i] = asked[c][i]
        BY <1>1, <2>1, <3>2 DEF Matches
      <4>5. ASSUME NEW i \in 1..Len(results'[c])
            PROVE  results'[c][i] = asked[c][i]
        <5>1. CASE i = Len(results[c]) + 1
          BY <4>2, <4>3, <4>4, <5>1
        <5>2. CASE i # Len(results[c]) + 1
          BY <4>3, <4>4, <5>2
        <5> QED
          BY <5>1, <5>2
      <4>6. Len(asked[c]) = Len(results'[c]) + 0
        BY <4>3, <4>4
      <4> QED
        BY <2>2, <4>5, <4>6 DEF Matches
    <3> QED
      BY <3>1, <3>2 DEF Owed
  <2>4. ASSUME NEW d \in Clients, d # c
        PROVE  Matches(asked[d], results'[d], Owed(d)')
    BY <1>2, <1>3, <2>1, <2>4 DEF Owed
  <2> QED
    BY <1>2, <1>5, <2>3, <2>4, AllMatchNext
<1> QED
  BY <1>5, <1>6, <1>7, <1>8 DEF IInv

\* A timer is let go only if it is not for the outstanding ping.
LEMMA OnPingTimerKeeps ==
  ASSUME IInv, NEW c \in Clients, NEW v \in Values, OnPingTimer(c, v)
  PROVE  IInv'
<1>1. /\ TypeOK /\ timers[c][v] > 0 /\ timers[c] \in [Values -> 0..MaxPings]
      /\ MaxPings \in Nat
      /\ client' = client /\ asked' = asked /\ results' = results
  BY MaxPingsAssumption DEF IInv, TypeOK, OnPingTimer
<1>2. CASE client[c].ping = v /\ client[c].pong = Null
  <2>1. net' = net \cup {PingRequest(c, v)} /\ timers' = timers
    BY <1>2 DEF OnPingTimer
  <2>2. TypeOK'
    BY <1>1, <2>1 DEF TypeOK, Message, PingRequest
  <2> QED
    BY <1>1, <2>1, <2>2 DEF IInv, LastAsked, TimersBounded, AnswersMatch,
                            RetryPending
<1>3. CASE ~(client[c].ping = v /\ client[c].pong = Null)
  <2>1. net' = net /\ timers' = [timers EXCEPT ![c][v] = @ - 1]
    BY <1>3 DEF OnPingTimer
  <2>2. timers[c][v] - 1 \in 0..MaxPings /\ timers[c][v] \in Nat
    BY <1>1
  <2>3. /\ timers' \in [Clients -> [Values -> 0..MaxPings]]
        /\ timers'[c][v] = timers[c][v] - 1
        /\ \A d \in Clients, w \in Values :
             d # c \/ w # v => timers'[d][w] = timers[d][w]
    <3>1. timers' = [timers EXCEPT
                       ![c] = [timers[c] EXCEPT ![v] = timers[c][v] - 1]]
      BY <1>1, <2>1 DEF TypeOK
    <3>2. [timers[c] EXCEPT ![v] = timers[c][v] - 1] \in [Values -> 0..MaxPings]
      BY <1>1, <2>2
    <3> QED
      BY <1>1, <3>1, <3>2 DEF TypeOK
  <2>4. TypeOK'
    BY <1>1, <2>1, <2>3 DEF TypeOK
  <2>5. TimersBounded'
    <3> SUFFICES ASSUME NEW d \in Clients, NEW w \in Values
                 PROVE  timers'[d][w] <= Len(asked[d])
      BY <1>1 DEF IInv, TimersBounded
    <3>1. timers[d][w] <= Len(asked[d]) /\ Len(asked[d]) \in Nat
      BY <1>1, FieldTypes DEF IInv, TimersBounded
    <3> QED
      BY <2>2, <2>3, <3>1
  <2>6. RetryPending'
    <3> SUFFICES ASSUME NEW d \in Clients, client[d].ping # Null,
                        client[d].pong = Null
                 PROVE  timers'[d][client[d].ping] > 0
      BY <1>1 DEF RetryPending
    <3>1. client[d].ping \in Values /\ timers[d][client[d].ping] > 0
      BY <1>1, FieldTypes DEF IInv, RetryPending
    <3> QED
      BY <1>3, <2>3, <3>1
  <2> QED
    BY <1>1, <2>4, <2>5, <2>6 DEF IInv, LastAsked, AnswersMatch
<1> QED
  BY <1>2, <1>3

LEMMA LoseKeeps ==
  ASSUME IInv, NEW m \in net, Lose(m)
  PROVE  IInv'
  BY DEF Lose, IInv, TypeOK, LastAsked, TimersBounded, AnswersMatch,
         RetryPending

-----------------------------------------------------------------------------

LEMMA Invariant == Spec => []IInv
<1>1. IInv /\ [Next]_vars => IInv'
  <2> SUFFICES ASSUME IInv, [Next]_vars PROVE IInv'
    OBVIOUS
  <2>1. CASE \E c \in Clients, v \in Values : SendCommand(c, v)
    BY <2>1, SendCommandKeeps
  <2>2. CASE \E c \in Clients, v \in Values : OnPingTimer(c, v)
    BY <2>2, OnPingTimerKeeps
  <2>3. CASE \E m \in net : HandlePingRequest(m)
    BY <2>3, HandlePingRequestKeeps
  <2>4. CASE \E m \in net : HandlePongReply(m)
    BY <2>4, HandlePongReplyKeeps
  <2>5. CASE \E m \in net : Lose(m)
    BY <2>5, LoseKeeps
  <2>6. CASE UNCHANGED vars
    BY <2>6 DEF vars, IInv, TypeOK, LastAsked, TimersBounded, AnswersMatch,
                RetryPending
  <2> QED
    BY <2>1, <2>2, <2>3, <2>4, <2>5, <2>6 DEF Next, ClientStep
<1> QED
  BY <1>1, InitInv, PTL DEF Spec

\* Fields, timers and messages keep their types, and no value ever has more
\* timers than a workload has pings.
THEOREM TypeCorrect == Spec => []TypeOK
<1>1. IInv => TypeOK
  BY DEF IInv
<1> QED
  BY <1>1, Invariant, PTL

\* Every result is the answer to its own ping, and no ping has two, though
\* pongs carry no number and may be those of earlier pings.
THEOREM Matched == Spec => []AnswersMatch
<1>1. IInv => AnswersMatch
  BY DEF IInv
<1> QED
  BY <1>1, Invariant, PTL

\* A ping that waits has a timer that will send it again.
THEOREM Retry == Spec => []RetryPending
<1>1. IInv => RetryPending
  BY DEF IInv
<1> QED
  BY <1>1, Invariant, PTL
=============================================================================

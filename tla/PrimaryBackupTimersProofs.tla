--------------------- MODULE PrimaryBackupTimersProofs ---------------------
(***************************************************************************)
(* Theorems about lab 2 with its timers, whatever their number: it is an   *)
(* implementation of PrimaryBackup, and a primary that waits is left with  *)
(* no timer that will ask again in two ways only.                          *)
(***************************************************************************)
EXTENDS PrimaryBackupTimers, PrimaryBackupProofs

\* What a BackupTimer would send has been sent before.
WasSent(s, br) ==
  \E m \in net : m.type = "BackupRequest" /\ m.from = s /\ m.body = br

TimersSent ==
  \A s \in Servers : \A br \in Contents(timers[s]) : WasSent(s, br)

AskingOK == asking \in [Clients -> Asking]

TimersInv ==
  /\ timers \in [Servers -> Seq(BackupRequest)]
  /\ TimersSent
  /\ AskingOK

-----------------------------------------------------------------------------
(* Queues of timers *)

LEMMA ArmContents ==
  ASSUME NEW S, NEW u \in Seq(S), NEW br \in S
  PROVE  /\ Append(u, br) \in Seq(S)
         /\ Contents(Append(u, br)) = Contents(u) \cup {br}
<1>1. /\ DOMAIN Append(u, br) = DOMAIN u \cup {Len(u) + 1}
      /\ Append(u, br)[Len(u) + 1] = br
      /\ \A i \in DOMAIN u : Append(u, br)[i] = u[i]
  OBVIOUS
<1> QED
  BY <1>1 DEF Contents

LEMMA TailContents ==
  ASSUME NEW S, NEW u \in Seq(S), u # <<>>
  PROVE  /\ Head(u) \in S /\ Tail(u) \in Seq(S) /\ Head(u) \in Contents(u)
         /\ Contents(u) = Contents(Tail(u)) \cup {Head(u)}
<1>1. /\ Len(u) \in Nat /\ Len(u) > 0 /\ DOMAIN u = 1..Len(u)
      /\ Head(u) = u[1] /\ Head(u) \in S /\ Tail(u) \in Seq(S)
      /\ DOMAIN Tail(u) = 1..(Len(u) - 1)
      /\ \A i \in 1..(Len(u) - 1) : Tail(u)[i] = u[i + 1]
  OBVIOUS
<1>2. ASSUME NEW i \in 1..Len(u), i # 1
      PROVE  i - 1 \in DOMAIN Tail(u) /\ Tail(u)[i - 1] = u[i]
  BY <1>1, <1>2
<1>3. Contents(u) \subseteq Contents(Tail(u)) \cup {Head(u)}
  <2> SUFFICES ASSUME NEW i \in 1..Len(u)
               PROVE  u[i] \in Contents(Tail(u)) \cup {Head(u)}
    BY <1>1 DEF Contents
  <2>1. CASE i = 1
    BY <1>1, <2>1
  <2>2. CASE i # 1
    BY <1>2, <2>2 DEF Contents
  <2> QED
    BY <2>1, <2>2
<1>4. ASSUME NEW i \in DOMAIN Tail(u)
      PROVE  i + 1 \in DOMAIN u /\ Tail(u)[i] = u[i + 1]
  BY <1>1
<1>5. Contents(Tail(u)) \cup {Head(u)} \subseteq Contents(u)
  BY <1>1, <1>4 DEF Contents
<1> QED
  BY <1>1, <1>3, <1>5 DEF Contents

-----------------------------------------------------------------------------
(* What a server sets timers for, it sends *)

LEMMA SentIsMessage ==
  ASSUME TypeOK, NEW s, NEW br, WasSent(s, br)
  PROVE  br \in BackupRequest
  BY DEF TypeOK, WasSent, Message

LEMMA SentStays ==
  ASSUME NEW s, NEW br, WasSent(s, br), net \subseteq net'
  PROVE  WasSent(s, br)'
  BY DEF WasSent

\* A step in which server s sets timers for what it sends.
LEMMA ArmKeeps ==
  ASSUME TypeOK', TimersInv, NEW s \in Servers, NEW brs, Arm(s, brs),
         net \subseteq net', \A br \in brs : WasSent(s, br)'
  PROVE  TimersInv'
<1>1. CASE UNCHANGED timers
  BY <1>1, SentStays DEF Arm, TimersInv, TimersSent, AskingOK
<1>2. ASSUME NEW br \in brs, timers' = [timers EXCEPT ![s] = Append(@, br)]
      PROVE  TimersInv'
  <2>1. br \in BackupRequest
    BY DEF TypeOK, WasSent, Message
  <2>2. /\ Append(timers[s], br) \in Seq(BackupRequest)
        /\ Contents(Append(timers[s], br)) = Contents(timers[s]) \cup {br}
    BY <2>1, ArmContents DEF TimersInv
  <2>3. timers' \in [Servers -> Seq(BackupRequest)]
    BY <1>2, <2>2 DEF TimersInv
  <2>4. ASSUME NEW t \in Servers, NEW b \in Contents(timers'[t])
        PROVE  WasSent(t, b)'
    <3>1. (t = s /\ b = br) \/ b \in Contents(timers[t])
      BY <1>2, <2>2, <2>4 DEF TimersInv
    <3> QED
      BY <3>1, SentStays DEF TimersInv, TimersSent
  <2>5. TimersSent'
    BY <2>4 DEF TimersSent
  <2> QED
    BY <2>3, <2>5 DEF Arm, TimersInv, AskingOK
<1> QED
  BY <1>1, <1>2 DEF Arm

LEMMA ServeRequestKeeps ==
  ASSUME IInv, TypeOK', TimersInv, NEW m \in net, ServeRequest(m)
  PROVE  TimersInv'
<1> DEFINE s == m.to
           brs == Forward(srv[s], m.command)
<1>1. s \in Servers
  BY DEF ServeRequest, HandleRequest, IInv, TypeOK, Message
<1>2. Arm(s, brs) /\ net \subseteq net'
  BY DEF ServeRequest, HandleRequest, Send
<1>3. ASSUME NEW br \in brs PROVE WasSent(s, br)'
  <2>1. srv[s].current_view.backup # Null
    BY DEF Forward
  <2>2. Send({ToBackup(s, srv[s].current_view.backup, b) : b \in brs})
    BY <2>1 DEF ServeRequest, HandleRequest
  <2>3. ToBackup(s, srv[s].current_view.backup, br) \in net'
    BY <2>1, <2>2 DEF Send, ToBackup
  <2> QED
    BY <2>3 DEF WasSent, ToBackup
<1> QED
  BY <1>1, <1>2, <1>3, ArmKeeps

LEMMA TakeViewReplyKeeps ==
  ASSUME IInv, TypeOK', TimersInv,
         NEW s \in Servers, NEW v \in issued, TakeViewReply(s, v)
  PROVE  TimersInv'
<1> DEFINE brs == Starts(s, v)
           to == Enter(s, v).newBackup
<1>1. Arm(s, brs) /\ net \subseteq net'
  BY DEF TakeViewReply, HandleViewReply, Send
<1>2. ASSUME NEW br \in brs PROVE WasSent(s, br)'
  <2>1. NewBackup(s, v) /\ ~Refuses(s, v)
    BY DEF Starts
  <2>2. to = v.backup /\ v.backup # Null
    <3>1. srv[s] \in ServerState /\ v \in View
      BY DEF IInv, TypeOK
    <3> QED
      BY <2>1, <3>1 DEF Enter, NewBackup, ResetStates, ServerState
  <2>3. Send({ToBackup(s, to, b) : b \in brs})
    BY <2>1 DEF TakeViewReply, HandleViewReply
  <2>4. ToBackup(s, to, br) \in net'
    BY <2>2, <2>3 DEF Send, ToBackup
  <2> QED
    BY <2>4 DEF WasSent, ToBackup
<1> QED
  BY <1>1, <1>2, ArmKeeps

LEMMA TakeBackupReplyKeeps ==
  ASSUME IInv, TypeOK', TimersInv, NEW m \in net, TakeBackupReply(m)
  PROVE  TimersInv'
<1> DEFINE p == m.to
           x == Confirm(srv[p], m.body)
           brs == Continues(m)
<1>1. /\ m \in Message /\ m.type = "BackupReply" /\ p \in Servers
      /\ m.from \in Servers /\ m.body \in BackupReply /\ srv[p] \in ServerState
  BY DEF TakeBackupReply, HandleBackupReply, IInv, TypeOK, Message
<1>2. Arm(p, brs) /\ net \subseteq net'
  BY DEF TakeBackupReply, HandleBackupReply, Send
<1>3. ASSUME NEW br \in brs PROVE WasSent(p, br)'
  <2>1. x.newBackup = m.from /\ m.from # Null
    BY <1>1, ConfirmFields, PrimaryBackupAssumption
       DEF Continues, Confirms, Same
  <2>2. Send({ToBackup(p, x.newBackup, b) : b \in brs})
    BY DEF TakeBackupReply, HandleBackupReply, Continues
  <2>3. ToBackup(p, x.newBackup, br) \in net'
    BY <2>1, <2>2 DEF Send, ToBackup
  <2> QED
    BY <2>3 DEF WasSent, ToBackup
<1> QED
  BY <1>1, <1>2, <1>3, ArmKeeps

LEMMA FireBackupTimerKeeps ==
  ASSUME TimersInv, NEW s \in Servers, FireBackupTimer(s)
  PROVE  /\ TimersInv'
         /\ \/ \E m \in net : /\ m.type = "BackupRequest"
                              /\ OnBackupTimer(m.from, m.body)
            \/ UNCHANGED vars
<1> DEFINE u == timers[s]
           br == Head(u)
<1>1. u \in Seq(BackupRequest) /\ u # <<>>
  BY DEF FireBackupTimer, TimersInv
<1>2. /\ br \in BackupRequest /\ Tail(u) \in Seq(BackupRequest)
      /\ br \in Contents(u) /\ Contents(u) = Contents(Tail(u)) \cup {br}
      /\ Append(Tail(u), br) \in Seq(BackupRequest)
      /\ Contents(Append(Tail(u), br)) = Contents(Tail(u)) \cup {br}
  <2> HIDE DEF u
  <2>1. /\ Head(u) \in BackupRequest /\ Tail(u) \in Seq(BackupRequest)
        /\ Head(u) \in Contents(u)
        /\ Contents(u) = Contents(Tail(u)) \cup {Head(u)}
    BY <1>1, TailContents
  <2> DEFINE w == Tail(u)
  <2> HIDE DEF br, w
  <2>2. w \in Seq(BackupRequest) /\ br \in BackupRequest
    BY <2>1 DEF br, w
  <2>3. /\ Append(w, br) \in Seq(BackupRequest)
        /\ Contents(Append(w, br)) = Contents(w) \cup {br}
    BY <2>2, ArmContents
  <2> QED
    BY <2>1, <2>3 DEF br, w
<1>3. PICK w \in Seq(BackupRequest) :
        timers' = [timers EXCEPT ![s] = w] /\ Contents(w) \subseteq Contents(u)
  BY <1>2 DEF FireBackupTimer
<1>4. net \subseteq net' /\ UNCHANGED asking
  BY DEF FireBackupTimer, OnBackupTimer, Send, vars
<1>5. TimersInv'
  <2>1. timers' \in [Servers -> Seq(BackupRequest)]
    BY <1>3 DEF TimersInv
  <2>2. TimersSent'
    <3> SUFFICES ASSUME NEW t \in Servers, NEW b \in Contents(timers'[t])
                 PROVE  WasSent(t, b)'
      BY DEF TimersSent
    <3>1. b \in Contents(timers[t])
      BY <1>3 DEF TimersInv
    <3> QED
      BY <1>4, <3>1, SentStays DEF TimersInv, TimersSent
  <2> QED
    BY <1>4, <2>1, <2>2 DEF TimersInv, AskingOK
<1>6. WasSent(s, br)
  BY <1>2 DEF TimersInv, TimersSent
<1> QED
  BY <1>5, <1>6 DEF FireBackupTimer, WasSent

-----------------------------------------------------------------------------
(* Clients *)

LEMMA AskingType ==
  ASSUME NEW a \in Asking, NEW u \in BOOLEAN
  PROVE  /\ AskForNewView(a) \in Asking /\ NotAsking \in Asking
         /\ [a EXCEPT !.underWay = u] \in Asking
         /\ [a EXCEPT !.needNewView = @ /\ u] \in Asking
         /\ a.viewTimers > 0 => [a EXCEPT !.viewTimers = @ - 1] \in Asking
<1>1. /\ a.needNewView \in BOOLEAN /\ a.viewTimers \in Nat
      /\ a.underWay \in BOOLEAN /\ a.viewTimers + 1 \in Nat
      /\ a.viewTimers > 0 => a.viewTimers - 1 \in Nat
  BY DEF Asking
<1>2. AskForNewView(a) \in Asking /\ NotAsking \in Asking
  BY <1>1 DEF AskForNewView, NotAsking, Asking
<1>3. [a EXCEPT !.underWay = u] \in Asking
  BY DEF Asking
<1>4. (a.needNewView /\ u) \in BOOLEAN
  BY <1>1
<1>5. [a EXCEPT !.needNewView = @ /\ u] \in Asking
  BY <1>4, Zenon DEF Asking
<1>6. a.viewTimers > 0 => [a EXCEPT !.viewTimers = @ - 1] \in Asking
  BY <1>1 DEF Asking
<1> QED
  BY <1>2, <1>3, <1>5, <1>6

LEMMA AskingKeeps ==
  ASSUME TimersInv, NEW c \in Clients, NEW a \in Asking, UNCHANGED timers,
         asking' = [asking EXCEPT ![c] = a], net \subseteq net'
  PROVE  TimersInv'
<1>1. TimersSent'
  BY SentStays DEF TimersInv, TimersSent
<1>2. AskingOK'
  BY DEF TimersInv, AskingOK
<1> QED
  BY <1>1, <1>2 DEF TimersInv

LEMMA LearnViewKeeps ==
  ASSUME TimersInv, NEW c \in Clients, NEW v, NEW a \in Asking,
         LearnView(c, v, a)
  PROVE  TimersInv' /\ (ClientHandleViewReply(c, v) \/ UNCHANGED vars)
<1>1. net \subseteq net' /\ UNCHANGED timers
  BY DEF LearnView, ClientHandleViewReply, vars
<1>2. \A u \in BOOLEAN : [a EXCEPT !.needNewView = @ /\ u] \in Asking
  BY AskingType
<1>3. (~Satisfies(c, v)) \in BOOLEAN
  OBVIOUS
<1>4. [a EXCEPT !.needNewView = @ /\ ~Satisfies(c, v)] \in Asking
  BY <1>2, <1>3, Zenon
<1>5. asking' = [asking EXCEPT ![c] =
                  [a EXCEPT !.needNewView = @ /\ ~Satisfies(c, v)]]
  BY DEF LearnView
<1>6. TimersInv'
  BY <1>1, <1>4, <1>5, AskingKeeps
<1> QED
  BY <1>6 DEF LearnView

LEMMA AskKeeps ==
  ASSUME TimersInv, NEW c \in Clients,
         LoseGetView(c) \/ OnViewTimer(c) \/ OnServerTimer(c) \/ AskOnReply(c)
  PROVE  TimersInv' /\ (OnClientTimer(c) \/ UNCHANGED vars)
<1> DEFINE a == asking[c]
<1>1. a \in Asking
  BY DEF TimersInv, AskingOK
<1>2. net \subseteq net' /\ UNCHANGED timers
  BY DEF LoseGetView, OnViewTimer, OnServerTimer, OnClientTimer, AskOnReply,
         Send, vars
<1>3. \A u \in BOOLEAN : [a EXCEPT !.underWay = u] \in Asking
  BY <1>1, AskingType
<1>4. /\ [a EXCEPT !.underWay = TRUE] \in Asking
      /\ [a EXCEPT !.underWay = FALSE] \in Asking
  BY <1>3, TRUE \in BOOLEAN, FALSE \in BOOLEAN, Zenon
<1>5. /\ AskForNewView(a) \in Asking
      /\ a.viewTimers > 0 => [a EXCEPT !.viewTimers = @ - 1] \in Asking
  BY <1>1, AskingType, TRUE \in BOOLEAN
<1>6. PICK b \in Asking : asking' = [asking EXCEPT ![c] = b]
  BY <1>4, <1>5 DEF LoseGetView, OnViewTimer, OnServerTimer, AskOnReply
<1>7. TimersInv'
  BY <1>2, <1>6, AskingKeeps
<1> QED
  BY <1>7 DEF LoseGetView, OnViewTimer, OnServerTimer, AskOnReply

-----------------------------------------------------------------------------
(* Every execution is one of PrimaryBackup *)

\* A step of PrimaryBackup that sets no timer and asks for no view.
LEMMA OwnKeeps ==
  ASSUME TimersInv, UNCHANGED own, net \subseteq net'
  PROVE  TimersInv'
  BY SentStays DEF TimersInv, TimersSent, AskingOK, own

LEMMA NetGrows == [Next]_vars => net \subseteq net'
  BY DEF Next, FormView, HandleRequest, HandleBackupRequest, HandleBackupReply,
         HandleReply, OnBackupTimer, Crash, HandleViewReply, SendCommand,
         OnClientTimer, ClientHandleViewReply, Send, vars

LEMMA TimedStep ==
  IInv /\ TimersInv /\ [TimedNext]_timedVars => [Next]_vars
<1> SUFFICES ASSUME IInv, TimersInv, [TimedNext]_timedVars PROVE [Next]_vars
  OBVIOUS
<1>1. CASE UNCHANGED timedVars
  BY <1>1 DEF timedVars
<1>2. CASE FormView
  BY <1>2 DEF Next
<1>3. ASSUME NEW m \in net,
             ServeRequest(m) \/ TakeBackupReply(m) \/ HandleBackupRequest(m)
               \/ HandleReply(m)
      PROVE  Next
  BY <1>3 DEF ServeRequest, TakeBackupReply, Next
<1>4. ASSUME NEW s \in Servers, NEW v \in issued,
             Crash(s) \/ TakeViewReply(s, v)
      PROVE  Next
  BY <1>4 DEF TakeViewReply, Next
<1>5. ASSUME NEW s \in Servers, Crash(s) PROVE Next
  BY <1>5 DEF Next
<1>6. ASSUME NEW s \in Servers, FireBackupTimer(s) PROVE [Next]_vars
  BY <1>6, FireBackupTimerKeeps DEF Next
<1>7. ASSUME NEW c \in Clients,
             \/ LoseGetView(c) \/ OnViewTimer(c)
             \/ OnServerTimer(c) \/ AskOnReply(c)
      PROVE  [Next]_vars
  BY <1>7, AskKeeps DEF Next
<1>8. ASSUME NEW c \in Clients, SendCommand(c) PROVE Next
  BY <1>8 DEF Next
<1>9. ASSUME NEW c \in Clients, NEW v \in issued, LateViewReply(c, v)
      PROVE  [Next]_vars
  BY <1>9 DEF LateViewReply, LearnView, Next
<1>10. ASSUME NEW c \in Clients, GetView(c) PROVE [Next]_vars
  <2>1. view \in issued
    BY DEF IInv, ViewsOK
  <2> QED
    BY <1>10, <2>1 DEF GetView, LearnView, Next
<1> QED
  BY <1>1, <1>2, <1>3, <1>4, <1>5, <1>6, <1>7, <1>8, <1>9, <1>10 DEF TimedNext

LEMMA TimedKeeps ==
  IInv /\ IInv' /\ TimersInv /\ [TimedNext]_timedVars => TimersInv'
<1> SUFFICES ASSUME IInv, IInv', TimersInv, [TimedNext]_timedVars
             PROVE  TimersInv'
  OBVIOUS
<1>0. TypeOK' /\ net \subseteq net'
  BY TimedStep, NetGrows DEF IInv
<1>1. CASE UNCHANGED own
  BY <1>0, <1>1, OwnKeeps
<1>2. ASSUME NEW m \in net, ServeRequest(m) PROVE TimersInv'
  BY <1>0, <1>2, ServeRequestKeeps
<1>3. ASSUME NEW m \in net, TakeBackupReply(m) PROVE TimersInv'
  BY <1>0, <1>3, TakeBackupReplyKeeps
<1>4. ASSUME NEW s \in Servers, NEW v \in issued, TakeViewReply(s, v)
      PROVE  TimersInv'
  BY <1>0, <1>4, TakeViewReplyKeeps
<1>5. ASSUME NEW s \in Servers, FireBackupTimer(s) PROVE TimersInv'
  BY <1>5, FireBackupTimerKeeps
<1>6. ASSUME NEW c \in Clients,
             \/ LoseGetView(c) \/ OnViewTimer(c)
             \/ OnServerTimer(c) \/ AskOnReply(c)
      PROVE  TimersInv'
  BY <1>6, AskKeeps
<1>7. ASSUME NEW c \in Clients, NEW v \in issued, LateViewReply(c, v)
      PROVE  TimersInv'
  BY <1>7, LearnViewKeeps DEF LateViewReply, TimersInv, AskingOK
<1>8. ASSUME NEW c \in Clients, GetView(c) PROVE TimersInv'
  <2> DEFINE a == [asking[c] EXCEPT !.underWay = FALSE]
  <2>1. \A u \in BOOLEAN : [asking[c] EXCEPT !.underWay = u] \in Asking
    BY AskingType DEF TimersInv, AskingOK
  <2>2. a \in Asking
    BY <2>1, FALSE \in BOOLEAN, Zenon
  <2>3. LearnView(c, view, a)
    BY <1>8 DEF GetView
  <2> HIDE DEF a
  <2> QED
    BY <2>2, <2>3, LearnViewKeeps
<1> QED
  BY <1>1, <1>2, <1>3, <1>4, <1>5, <1>6, <1>7, <1>8 DEF TimedNext, timedVars

LEMMA TimedInitInv == TimedInit => TimersInv
<1> SUFFICES ASSUME TimedInit PROVE TimersInv
  OBVIOUS
<1>1. /\ timers = [s \in Servers |-> <<>>]
      /\ asking = [c \in Clients |-> AskForNewView(NotAsking)]
  BY DEF TimedInit
<1>2. AskForNewView(NotAsking) \in Asking
  BY DEF AskForNewView, NotAsking, Asking
<1>3. timers \in [Servers -> Seq(BackupRequest)] /\ AskingOK
  BY <1>1, <1>2 DEF AskingOK
<1>4. TimersSent
  BY <1>1 DEF TimersSent, Contents
<1> QED
  BY <1>3, <1>4 DEF TimersInv

LEMMA TimedInvariant == TimedSpec => [](IInv /\ TimersInv)
<1>1. TimedInit => IInv /\ TimersInv
  BY InitInv, TimedInitInv DEF TimedInit
<1>2. IInv /\ TimersInv /\ [TimedNext]_timedVars => IInv' /\ TimersInv'
  BY TimedStep, NextInv, TimedKeeps
<1> QED
  BY <1>1, <1>2, PTL DEF TimedSpec

\* What the timers of servers and clients do is part of what PrimaryBackup
\* allows, so that whatever holds of it holds with timers.
THEOREM TimedImplements == TimedSpec => ImplementsPrimaryBackup
<1>1. TimedInit => Init
  BY DEF TimedInit
<1>2. TimedSpec => Spec
  BY <1>1, TimedStep, TimedInvariant, PTL DEF TimedSpec, Spec
<1> QED
  BY <1>2 DEF ImplementsPrimaryBackup

\* TimersTypeOK, however many timers are set.
THEOREM TimersTypeCorrect == TimedSpec => []TimersTypeOK
<1>1. TimersInv => TimersTypeOK
  BY DEF TimersInv, AskingOK, TimersTypeOK
<1> QED
  BY <1>1, TimedInvariant, PTL

-----------------------------------------------------------------------------
(* A primary that waits retries *)

\* What RetriedUnlessRefused asks of a step.
StepRetried ==
  \A p \in Servers : Retries(p) /\ ~Retries(p)' =>
    \/ \E m \in net : /\ m.type = "BackupReply" /\ m.to = p
                      /\ ~Confirms(m, srv[p]) /\ TakeBackupReply(m)
    \/ \E m \in net : m.to = p /\ Overtaken(p) /\ ServeRequest(m)

LEMMA ArmedContents ==
  ASSUME TimersInv, NEW s \in Servers, NEW brs, Arm(s, brs),
         brs \subseteq BackupRequest
  PROVE  /\ \A t \in Servers :
              Contents(timers[t]) \subseteq Contents(timers'[t])
         /\ brs # {} => \E br \in brs : br \in Contents(timers'[s])
<1>1. \A t \in Servers : timers[t] \in Seq(BackupRequest)
  BY DEF TimersInv
<1>2. CASE brs = {} /\ UNCHANGED timers
  BY <1>2
<1>3. ASSUME NEW br \in brs, timers' = [timers EXCEPT ![s] = Append(@, br)]
      PROVE  /\ br \in Contents(timers'[s])
             /\ \A t \in Servers :
                  Contents(timers[t]) \subseteq Contents(timers'[t])
  <2>1. Contents(Append(timers[s], br)) = Contents(timers[s]) \cup {br}
    BY <1>1, ArmContents
  <2>2. /\ timers'[s] = Append(timers[s], br)
        /\ \A t \in Servers \ {s} : timers'[t] = timers[t]
    BY <1>3 DEF TimersInv
  <2> QED
    BY <2>1, <2>2
<1> QED
  BY <1>2, <1>3 DEF Arm

\* A server that goes on in its role, waiting as before or not at all, still
\* retries if its timers do.
LEMMA StillRetries ==
  ASSUME NEW p \in Servers, Retries(p),
         srv'[p].role = "PRIMARY" => \/ srv'[p].able2Execute
                                    \/ srv'[p] = srv[p],
         Contents(timers[p]) \subseteq Contents(timers'[p])
  PROVE  Retries(p)'
<1>1. CASE srv'[p].role = "PRIMARY" => srv'[p].able2Execute
  BY <1>1 DEF Retries, IsPrimary
<1>2. CASE srv'[p] = srv[p]
  BY <1>2 DEF Retries, IsPrimary
<1> QED
  BY <1>1, <1>2

LEMMA ServeRequestRetries ==
  ASSUME IInv, TimersInv, NEW m \in net, ServeRequest(m),
         NEW p \in Servers, Retries(p), m.to = p => ~Overtaken(p)
  PROVE  Retries(p)'
<1> DEFINE s == m.to
           x == srv[s]
           brs == Forward(x, m.command)
           y == [x EXCEPT !.cmd_list = Append(@, m.command)]
<1>1. /\ s \in Servers /\ x \in ServerState /\ srv \in [Servers -> ServerState]
      /\ Len(x.cmd_list) \in Nat /\ x.backupRcv \in Nat
      /\ m.command \in AMOCommand /\ m.command.addr \in Clients
  <2>1. s \in Servers /\ m.command \in AMOCommand
    BY DEF ServeRequest, HandleRequest, IInv, TypeOK, Message
  <2> QED
    BY <2>1, SizeType
       DEF IInv, TypeOK, ServerState, AMOCommand, Size
<1>2. /\ Arm(s, brs) /\ x.role = "PRIMARY"
      /\ x.able2Execute /\ ~x.viewChange
  BY <1>1 DEF ServeRequest, HandleRequest, Serves, IInv, ViewChangeOnlyInBackup
<1>3. /\ brs \subseteq BackupRequest
      /\ \A br \in brs : br.currentNum = Len(x.cmd_list) + 1
  <2> SUFFICES ASSUME NEW br \in brs
               PROVE  br \in BackupRequest /\ br.currentNum = Len(x.cmd_list) + 1
    OBVIOUS
  <2> DEFINE n == Len(x.cmd_list) + 1
  <2>1. br = [command |-> m.command, client |-> m.command.addr,
              currentNum |-> n, past |-> FALSE, last |-> TRUE]
    BY DEF Forward
  <2>2. n \in Nat \ {0}
    BY <1>1
  <2>3. br.currentNum = n
    BY <2>1
  <2> HIDE DEF n
  <2>4. br \in BackupRequest
    BY <1>1, <2>1, <2>2 DEF BackupRequest, ClientOrNull
  <2> QED
    BY <2>3, <2>4 DEF n
<1>4. /\ \A t \in Servers : Contents(timers[t]) \subseteq Contents(timers'[t])
      /\ brs # {} => \E br \in brs : br \in Contents(timers'[s])
  BY <1>1, <1>2, <1>3, ArmedContents
<1>5. CASE p # s
  <2>1. srv'[p] = srv[p]
    BY <1>1, <1>5 DEF ServeRequest, HandleRequest
  <2> QED
    BY <1>2, <1>4, <2>1, StillRetries
<1>6. CASE p = s /\ x.current_view.backup = Null
  <2>1. srv' = [srv EXCEPT ![s] = [y EXCEPT !.app = Execute(@, m.command)]]
    BY <1>6 DEF ServeRequest, HandleRequest
  <2>2. srv'[p].able2Execute
    BY <1>1, <1>2, <1>6, <2>1 DEF ServerState
  <2> QED
    BY <1>2, <1>4, <2>2, StillRetries
<1>7. CASE p = s /\ x.current_view.backup # Null
  <2>1. srv' = [srv EXCEPT ![s] = [y EXCEPT !.able2Execute = FALSE]]
    BY <1>7 DEF ServeRequest, HandleRequest
  <2>2. /\ srv'[p].role = "PRIMARY" /\ srv'[p].backupRcv = x.backupRcv
        /\ ~srv'[p].viewChange
    BY <1>1, <1>2, <1>7, <2>1 DEF ServerState
  <2>3. PICK br \in brs : br \in Contents(timers'[s])
    BY <1>4, <1>7 DEF Forward
  <2>4. br.currentNum > x.backupRcv /\ br.currentNum \in Nat
    BY <1>1, <1>3, <1>7 DEF Overtaken
  <2>5. Resends(srv'[p], br)
    BY <1>1, <2>2, <2>4 DEF Resends
  <2> QED
    BY <1>7, <2>3, <2>5 DEF Retries, IsPrimary
<1> QED
  BY <1>5, <1>6, <1>7

LEMMA FireBackupTimerRetries ==
  ASSUME TimersInv, NEW s \in Servers, FireBackupTimer(s),
         NEW p \in Servers, Retries(p)
  PROVE  Retries(p)'
<1> DEFINE u == timers[s]
           br == Head(u)
           w == Tail(u)
<1>1. u \in Seq(BackupRequest) /\ u # <<>>
  BY DEF FireBackupTimer, TimersInv
<1>2. /\ br \in BackupRequest /\ w \in Seq(BackupRequest)
      /\ Contents(u) = Contents(w) \cup {br}
  <2> HIDE DEF u
  <2> QED
    BY <1>1, TailContents
<1>3. Contents(Append(w, br)) = Contents(w) \cup {br}
  <2> HIDE DEF w, br
  <2> QED
    BY <1>2, ArmContents
<1>4. UNCHANGED srv
  BY DEF FireBackupTimer, OnBackupTimer, vars
<1>5. CASE p # s
  <2>1. timers'[p] = timers[p]
    BY <1>5 DEF FireBackupTimer, TimersInv
  <2> QED
    BY <1>4, <2>1, StillRetries
<1>6. CASE p = s
  <2>1. CASE timers' = [timers EXCEPT ![s] = Append(w, br)]
    <3>1. Contents(timers'[p]) = Contents(timers[p])
      BY <1>2, <1>3, <1>6, <2>1 DEF TimersInv
    <3> QED
      BY <1>4, <3>1, StillRetries
  <2>2. CASE ~Resends(srv[s], br) /\ timers' = [timers EXCEPT ![s] = w]
    <3>1. timers'[p] = w
      BY <1>6, <2>2 DEF TimersInv
    <3>2. \A b \in Contents(timers[p]) :
            Resends(srv[p], b) => b \in Contents(timers'[p])
      BY <1>2, <1>6, <2>2, <3>1
    <3> QED
      BY <1>4, <3>2 DEF Retries, IsPrimary
  <2> QED
    BY <2>1, <2>2 DEF FireBackupTimer
<1> QED
  BY <1>5, <1>6

LEMMA TransfersResent ==
  ASSUME NEW x \in ServerState, ~x.viewChange, x.role = "PRIMARY",
         NEW br \in Transfers(x), NEW f, f = x
  PROVE  Resends(f, br)
<1>1. x.backupRcv \in Nat
  BY DEF ServerState
<1>2. br.currentNum = x.backupRcv + 1
  BY DEF Transfers
<1> QED
  BY <1>1, <1>2 DEF Resends

LEMMA TakeBackupReplyRetries ==
  ASSUME IInv, TimersInv, NEW m \in net, TakeBackupReply(m),
         NEW t \in Servers, Retries(t), m.to = t => Confirms(m, srv[t])
  PROVE  Retries(t)'
<1> DEFINE p == m.to
           r == m.body
           old == srv[p]
           x == Confirm(old, r)
           brs == Continues(m)
           cmd == x.cmd_list[r.currentNum]
           awaited == Confirms(m, old) /\ r.currentNum - 1 = old.backupRcv
           more == x.backupRcv < Len(x.cmd_list)
<1>1. /\ p \in Servers /\ r \in BackupReply /\ m.type = "BackupReply"
      /\ old \in ServerState /\ srv \in [Servers -> ServerState]
  BY DEF TakeBackupReply, HandleBackupReply, IInv, TypeOK, Message
<1>2. /\ x \in ServerState /\ Same(old, x) /\ x.cmd_list = old.cmd_list
      /\ x.backupRcv \in Nat
  BY <1>1, ConfirmFields DEF ServerState
<1>3. Arm(p, brs)
  BY DEF TakeBackupReply
<1>4. brs \subseteq BackupRequest
  <2>1. \A br \in brs : /\ br \in Transfers(x)
                         /\ x.backupRcv < Len(x.cmd_list)
    BY DEF Continues
  <2>2. Len(x.cmd_list) \in Nat
    BY <1>2 DEF ServerState, Log
  <2>3. ASSUME NEW br \in brs PROVE br \in BackupRequest
    <3>1. x.backupRcv <= Len(x.cmd_list)
      BY <1>2, <2>1, <2>2
    <3> QED
      BY <1>2, <2>1, <3>1, TransfersType
  <2> QED
    BY <2>3
<1>5. /\ \A q \in Servers : Contents(timers[q]) \subseteq Contents(timers'[q])
      /\ brs # {} => \E br \in brs : br \in Contents(timers'[p])
  BY <1>1, <1>3, <1>4, ArmedContents
<1>6. \/ ~Confirms(m, old) /\ srv' = [srv EXCEPT ![p] = ResetStates(old)]
      \/ /\ awaited /\ r.past /\ more
         /\ srv' = [srv EXCEPT ![p] = IF x.viewChange THEN ResetStates(x)
                                      ELSE AfterBackupNext(x)]
      \/ srv' = [srv EXCEPT ![p] = [x EXCEPT !.able2Execute = TRUE]]
      \/ srv' = [srv EXCEPT ![p] = [x EXCEPT !.app = Execute(@, cmd),
                                            !.able2Execute = TRUE]]
  BY DEF TakeBackupReply, HandleBackupReply
<1>7. CASE t # p
  <2>1. srv'[t] = srv[t]
    BY <1>1, <1>6, <1>7
  <2> QED
    BY <1>3, <1>5, <2>1, StillRetries
<1>8. CASE t = p /\ ~Confirms(m, old)
  BY <1>8
<1>9. CASE /\ t = p /\ awaited /\ r.past /\ more
           /\ srv' = [srv EXCEPT ![p] = IF x.viewChange THEN ResetStates(x)
                                        ELSE AfterBackupNext(x)]
  <2>1. old.role = "PRIMARY" /\ ~old.viewChange
    BY <1>1, <1>9 DEF Confirms, IInv, ViewChangeOnlyInBackup
  <2>2. x.role = "PRIMARY" /\ ~x.viewChange
    BY <1>2, <2>1 DEF Same
  <2>3. brs = Transfers(x)
    BY <1>9, <2>2 DEF Continues
  <2>4. ~Transferred(x)
    <3>1. Len(x.cmd_list) \in Nat
      BY <1>2 DEF ServerState, Log
    <3> QED
      BY <1>2, <1>9, <3>1 DEF Transferred
  <2>5. srv'[p] = x
    BY <1>1, <1>9, <2>2, <2>4 DEF AfterBackupNext
  <2>6. PICK br \in Transfers(x) : br \in Contents(timers'[p])
    BY <1>5, <2>3, <2>4 DEF Transfers
  <2>7. Resends(srv'[p], br)
    BY <1>2, <2>2, <2>5, TransfersResent
  <2> QED
    BY <1>9, <2>6, <2>7 DEF Retries, IsPrimary
<1>10. CASE \/ srv' = [srv EXCEPT ![p] = [x EXCEPT !.able2Execute = TRUE]]
            \/ srv' = [srv EXCEPT ![p] = [x EXCEPT !.app = Execute(@, cmd),
                                                  !.able2Execute = TRUE]]
  <2>1. srv'[p].able2Execute
    <3> DEFINE app == Execute(x.app, cmd)
    <3>1. \/ srv'[p] = [x EXCEPT !.able2Execute = TRUE]
          \/ srv'[p] = [x EXCEPT !.app = app, !.able2Execute = TRUE]
      BY <1>1, <1>10
    <3> HIDE DEF x, cmd, app
    <3> QED
      BY <1>2, <3>1 DEF ServerState
  <2> QED
    BY <1>3, <1>5, <1>7, <2>1, StillRetries
<1> QED
  BY <1>6, <1>7, <1>8, <1>9, <1>10

LEMMA TakeViewReplyRetries ==
  ASSUME IInv, TimersInv,
         NEW s \in Servers, NEW v \in issued, TakeViewReply(s, v),
         NEW t \in Servers, Retries(t)
  PROVE  Retries(t)'
<1> DEFINE old == srv[s]
           x == Enter(s, v)
           brs == Starts(s, v)
           y == IF NewBackup(s, v) THEN AfterBackupNext(x) ELSE x
<1>1. /\ old \in ServerState /\ srv \in [Servers -> ServerState] /\ v \in View
      /\ Len(old.cmd_list) \in Nat
  BY SizeType DEF IInv, TypeOK, Size
<1>2. Arm(s, brs)
  BY DEF TakeViewReply
<1>3. /\ x \in ServerState /\ x.role = RoleIn(s, v) /\ x.cmd_list = old.cmd_list
      /\ NewBackup(s, v) => x.backupRcv = 0
  BY <1>1, EnterFields
<1>4. brs \subseteq BackupRequest
  <2>1. \A br \in brs : br \in Transfers(x) /\ x.backupRcv <= Len(x.cmd_list)
    BY <1>1, <1>3 DEF Starts
  <2> QED
    BY <1>3, <2>1, TransfersType
<1>5. /\ \A q \in Servers : Contents(timers[q]) \subseteq Contents(timers'[q])
      /\ brs # {} => \E br \in brs : br \in Contents(timers'[s])
  BY <1>2, <1>4, ArmedContents
<1>6. \/ Refuses(s, v) /\ srv' = [srv EXCEPT ![s].viewChange = TRUE]
      \/ ~Refuses(s, v) /\ srv' = [srv EXCEPT ![s] = Entered(y, v)]
  BY DEF TakeViewReply, HandleViewReply
<1>7. CASE t # s
  <2>1. srv'[t] = srv[t]
    BY <1>1, <1>6, <1>7
  <2> QED
    BY <1>2, <1>5, <2>1, StillRetries
<1>8. CASE t = s /\ Refuses(s, v) /\ srv' = [srv EXCEPT ![s].viewChange = TRUE]
  <2>1. srv'[t].role = "BACKUP"
    BY <1>1, <1>8 DEF Refuses, ServerState
  <2> QED
    BY <1>2, <1>5, <2>1, StillRetries
<1>9. CASE /\ t = s /\ v.primary = s /\ ~Refuses(s, v)
           /\ srv' = [srv EXCEPT ![s] = Entered(y, v)]
  <2>1. CASE v.backup = Null
    <3>1. y = x /\ x.able2Execute
      <4>1. ~NewBackup(s, v)
        BY <2>1 DEF NewBackup
      <4> QED
        BY <1>1, <1>9, <2>1, <4>1 DEF Enter, ResetStates, ServerState
    <3>2. srv'[t].able2Execute
      BY <1>1, <1>3, <1>9, <3>1 DEF Entered, ServerState
    <3> QED
      BY <1>2, <1>5, <3>2, StillRetries
  <2>2. CASE NewBackup(s, v)
    <3>1. CASE Transferred(x)
      <4>1. y \in ServerState /\ y.able2Execute
        BY <1>3, <2>2, <3>1 DEF AfterBackupNext, ServerState
      <4>2. srv'[t].able2Execute
        BY <1>1, <1>9, <4>1 DEF Entered, ServerState
      <4> QED
        BY <1>2, <1>5, <4>2, StillRetries
    <3>2. CASE ~Transferred(x)
      <4>1. y = x /\ brs = Transfers(x)
        BY <1>9, <2>2, <3>2 DEF AfterBackupNext, Starts
      <4>2. PICK br \in Transfers(x) : br \in Contents(timers'[s])
        BY <1>5, <3>2, <4>1 DEF Transfers
      <4>3. /\ srv'[s].role = "PRIMARY" /\ srv'[s].backupRcv = x.backupRcv
            /\ ~srv'[s].viewChange
        <5>1. srv'[s] = Entered(x, v) /\ x.role = "PRIMARY"
          BY <1>1, <1>3, <1>9, <4>1 DEF RoleIn
        <5> HIDE DEF x
        <5> QED
          BY <1>1, <1>3, <5>1, EnteredFields
      <4>4. br.currentNum = x.backupRcv + 1 /\ x.backupRcv = 0
        BY <1>3, <2>2 DEF Transfers
      <4>5. Resends(srv'[s], br)
        BY <4>3, <4>4 DEF Resends
      <4> QED
        BY <1>9, <4>2, <4>5 DEF Retries, IsPrimary
    <3> QED
      BY <3>1, <3>2
  <2>3. CASE v.backup # Null /\ ~NewBackup(s, v)
    <3>1. y = [old EXCEPT !.role = RoleIn(s, v)] /\ old.role = "PRIMARY"
      BY <1>9, <2>3 DEF Enter, NewBackup
    <3>2. RoleIn(s, v) = "PRIMARY"
      BY <1>9 DEF RoleIn
    <3>3. y = old
      BY <1>1, <3>1, <3>2 DEF ServerState
    <3>4. srv'[s] = Entered(old, v)
      BY <1>1, <1>9, <3>3
    <3>5. /\ srv'[s].role = old.role /\ srv'[s].backupRcv = old.backupRcv
          /\ srv'[s].newBackup = old.newBackup /\ ~srv'[s].viewChange
          /\ srv'[s].able2Execute = old.able2Execute
      <4> HIDE DEF x, y, brs
      <4> QED
        BY <1>1, <3>4, EnteredFields
    <3>6. \A br : Resends(old, br) => Resends(srv'[s], br)
      BY <3>5 DEF Resends
    <3> QED
      BY <1>2, <1>5, <1>9, <3>1, <3>5, <3>6 DEF Retries, IsPrimary
  <2> QED
    BY <1>9, <2>1, <2>2, <2>3
<1>10. CASE /\ t = s /\ v.primary # s
            /\ srv' = [srv EXCEPT ![s] = Entered(y, v)]
  <2>1. y \in ServerState /\ y.role = RoleIn(s, v)
    BY <1>3, NextFields DEF Same
  <2>2. srv'[s].role # "PRIMARY"
    <3>1. srv'[s] = Entered(y, v)
      BY <1>1, <1>10
    <3> HIDE DEF y
    <3> QED
      BY <1>1, <1>10, <2>1, <3>1, EnteredFields DEF RoleIn
  <2> QED
    BY <1>2, <1>5, <1>10, <2>2, StillRetries
<1> QED
  BY <1>6, <1>7, <1>8, <1>9, <1>10

LEMMA HandleBackupRequestRetries ==
  ASSUME IInv, NEW m \in net, HandleBackupRequest(m), UNCHANGED own,
         NEW t \in Servers, Retries(t)
  PROVE  Retries(t)'
<1> DEFINE b == m.to
<1>1. /\ b \in Servers /\ srv \in [Servers -> ServerState]
      /\ UNCHANGED timers
  BY DEF HandleBackupRequest, IInv, TypeOK, Message, own
<1>2. CASE srv'[t] = srv[t]
  BY <1>1, <1>2, StillRetries
<1>3. CASE srv'[t] # srv[t]
  <2>1. t = b /\ srv[b].role = "BACKUP"
    BY <1>1, <1>3 DEF HandleBackupRequest, Rejects
  <2>2. srv'[b].role = "BACKUP"
    <3>1. PICK y : /\ y = srv[b] \/ y = Store(srv[b], m.body.command)
                   /\ srv'[b] = [y EXCEPT !.able2Execute = @ \/ m.body.last]
      BY <1>1, <1>3, <2>1 DEF HandleBackupRequest
    <3>2. /\ srv[b] \in ServerState /\ Holds(srv[b])
          /\ m.body.command \in AMOCommand
      BY <2>1 DEF HandleBackupRequest, IInv, TypeOK, Message, BackupRequest,
                  ListHoldsLog, Holds
    <3>3. y \in ServerState /\ y.role = srv[b].role
      BY <3>1, <3>2, StoreFields DEF Same
    <3>4. srv'[b].role = y.role
      BY <3>1, <3>3 DEF ServerState
    <3> QED
      BY <2>1, <3>3, <3>4
  <2> QED
    BY <1>1, <2>1, <2>2, StillRetries
<1> QED
  BY <1>2, <1>3

LEMMA RetriesKept == IInv /\ TimersInv /\ [TimedNext]_timedVars => StepRetried
<1> SUFFICES ASSUME IInv, TimersInv, [TimedNext]_timedVars,
                    NEW t \in Servers, Retries(t),
                    \A m \in net :
                      /\ ~(/\ m.type = "BackupReply" /\ m.to = t
                           /\ ~Confirms(m, srv[t]) /\ TakeBackupReply(m))
                      /\ ~(m.to = t /\ Overtaken(t) /\ ServeRequest(m))
             PROVE  Retries(t)'
  BY DEF StepRetried
<1>1. CASE UNCHANGED <<srv, timers>>
  BY <1>1, StillRetries
<1>2. ASSUME NEW m \in net, ServeRequest(m) PROVE Retries(t)'
  BY <1>2, ServeRequestRetries
<1>3. ASSUME NEW m \in net, TakeBackupReply(m) PROVE Retries(t)'
  BY <1>3, TakeBackupReplyRetries DEF TakeBackupReply, HandleBackupReply
<1>4. ASSUME NEW m \in net, HandleBackupRequest(m), UNCHANGED own
      PROVE  Retries(t)'
  BY <1>4, HandleBackupRequestRetries
<1>5. ASSUME NEW s \in Servers, NEW v \in issued, TakeViewReply(s, v)
      PROVE  Retries(t)'
  BY <1>5, TakeViewReplyRetries
<1>6. ASSUME NEW s \in Servers, FireBackupTimer(s) PROVE Retries(t)'
  BY <1>6, FireBackupTimerRetries
<1>7. ASSUME UNCHANGED own,
             \/ FormView \/ \E m \in net : HandleReply(m)
             \/ \E s \in Servers : Crash(s)
             \/ \E c \in Clients : SendCommand(c)
      PROVE  UNCHANGED <<srv, timers>>
  BY <1>7 DEF FormView, HandleReply, Crash, SendCommand, own
<1>8. ASSUME NEW c \in Clients,
             \/ LoseGetView(c) \/ OnViewTimer(c) \/ OnServerTimer(c)
             \/ AskOnReply(c) \/ GetView(c)
             \/ \E v \in issued : LateViewReply(c, v)
      PROVE  UNCHANGED <<srv, timers>>
  BY <1>8 DEF LoseGetView, OnViewTimer, OnServerTimer, OnClientTimer,
              AskOnReply, GetView, LateViewReply, LearnView, ClientHandleViewReply, vars
<1>9. CASE UNCHANGED timedVars
  BY <1>1, <1>9 DEF timedVars, vars, own
<1> QED
  BY <1>1, <1>2, <1>3, <1>4, <1>5, <1>6, <1>7, <1>8, <1>9 DEF TimedNext

\* Whatever views are formed and however many timers are set, a primary that
\* waits keeps a BackupTimer whose request its backup has yet to confirm, until
\* it takes a reply that does not confirm, or serves a request after its backup
\* has confirmed more than it holds.
THEOREM Retried == TimedSpec => RetriedUnlessRefused
<1>1. TimedSpec => [][StepRetried]_timedVars
  BY RetriesKept, TimedInvariant, PTL DEF TimedSpec
<1> QED
  BY <1>1 DEF StepRetried, RetriedUnlessRefused
=============================================================================

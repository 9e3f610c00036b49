------------------------ MODULE PrimaryBackupProofs ------------------------
(***************************************************************************)
(* Theorems about the primary/backup servers, for any servers and clients, *)
(* whatever views the view service forms, whoever crashes, and however     *)
(* messages are repeated, delayed and reordered.                           *)
(***************************************************************************)
EXTENDS PrimaryBackup, AtMostOnceProofs

\* How many commands server s holds.
Size(s) == Len(srv[s].cmd_list)

\* A forwarded command is in its sender's list; a confirmed one is in the
\* lists of both, and the confirmation counts what its sender holds.
Backed(m) ==
  /\ m.type = "BackupRequest" => m.body.currentNum <= Size(m.from)
  /\ m.type = "BackupReply" /\ m.body.done =>
       /\ m.body.currentNum \in 1..Size(m.to)
       /\ m.body.currentNum <= Size(m.from)
       /\ m.body.rcv <= Size(m.from)

NetBacked == \A m \in net : Backed(m)

\* No server has counted more than its backup holds.
CountsBacked ==
  \A s \in Servers :
    srv[s].newBackup # Null => srv[s].backupRcv <= Size(srv[s].newBackup)

\* The views formed so far: numbered one after the other, one of each number,
\* each led by a member of the one before.
ViewOK(v) ==
  /\ v.viewNum <= view.viewNum
  /\ v.viewNum = 0 <=> v.primary = Null
  /\ v.primary # Null => v.primary # v.backup

ViewsOK ==
  /\ view \in issued
  /\ \A v \in issued : ViewOK(v)
  /\ \A v, w \in issued : v.viewNum = w.viewNum => v = w
  /\ \A v \in issued : 0 < v.viewNum /\ v.viewNum < view.viewNum =>
       \E w \in issued : /\ w.viewNum = v.viewNum + 1
                         /\ w.primary \in {v.primary, v.backup}

\* A server has the role that its view gives it.
RolesOK ==
  \A s \in Servers :
    /\ srv[s].current_view \in issued
    /\ srv[s].view_num = srv[s].current_view.viewNum
    /\ srv[s].role = RoleIn(s, srv[s].current_view)

\* The primary of every view but the newest has entered it.
LeftViewsEntered ==
  \A v \in issued : 0 < v.viewNum /\ v.viewNum < view.viewNum =>
    srv[v.primary].view_num >= v.viewNum

\* A client that lacks a result has sent a command.
OutstandingOK ==
  \A c \in Clients : cl[c].received \/ cl[c].sequenceNum > 0

IInv ==
  /\ TypeOK
  /\ NetBacked /\ CountsBacked
  /\ ViewsOK /\ RolesOK /\ LeftViewsEntered
  /\ ViewChangeOnlyInBackup
  /\ ListHoldsLog
  /\ OutstandingOK

-----------------------------------------------------------------------------
(* What the invariant says of primaries *)

\* A primary that is not of the newest view is led by its own backup, which has
\* entered a later view and takes no requests from it.
LEMMA OldPrimaryRefused ==
  ASSUME IInv,
         NEW p \in Servers, NEW q \in Servers, p # q,
         IsPrimary(p), IsPrimary(q), srv[q].view_num = view.viewNum
  PROVE  Backup(p) # Null /\ Rejects(Backup(p), p)
<1> DEFINE u == srv[p].current_view
           N == view.viewNum
<1>0. /\ N \in Nat /\ issued \in SUBSET View
      /\ \A s \in Servers  : /\ srv[s].view_num \in Nat
                        /\ srv[s].current_view \in View
  BY DEF IInv, TypeOK, View, ServerState
<1>00. Null \notin Servers
  BY PrimaryBackupAssumption
<1>1. \A s \in Servers : IsPrimary(s) <=> srv[s].current_view.primary = s
  BY DEF IInv, RolesOK, RoleIn, IsPrimary
<1>2. srv[q].current_view = view /\ view.primary = q
  BY <1>1 DEF IInv, RolesOK, ViewsOK
<1>3. u \in issued /\ u.primary = p /\ u.viewNum = srv[p].view_num
  BY <1>1 DEF IInv, RolesOK
<1>4. u.viewNum \in Nat /\ u.viewNum > 0 /\ u.viewNum < N
  <2>1. u.viewNum <= N /\ u.viewNum # 0
    BY <1>3, <1>00 DEF IInv, ViewsOK, ViewOK
  <2>2. u.viewNum # N
    BY <1>2, <1>3 DEF IInv, ViewsOK
  <2> QED
    BY <1>0, <1>3, <2>1, <2>2
<1>5. \A v \in issued : v.viewNum > u.viewNum => v.primary # p
  <2> SUFFICES ASSUME NEW v \in issued, v.viewNum > u.viewNum, v.primary = p
               PROVE  FALSE
    OBVIOUS
  <2>1. v.viewNum \in Nat /\ v.viewNum <= N
    BY <1>0 DEF IInv, ViewsOK, ViewOK, View
  <2>2. CASE v.viewNum = N
    BY <1>2, <2>2 DEF IInv, ViewsOK
  <2>3. CASE v.viewNum < N
    BY <1>0, <1>3, <1>4, <2>1, <2>3 DEF IInv, LeftViewsEntered
  <2> QED
    BY <1>0, <2>1, <2>2, <2>3
<1>6. PICK w \in issued : /\ w.viewNum = u.viewNum + 1
                          /\ w.primary \in {u.primary, u.backup}
  BY <1>3, <1>4 DEF IInv, ViewsOK
<1>7. w.primary # Null /\ w.primary = u.backup
  <2>1. w.viewNum > u.viewNum /\ w.viewNum # 0
    BY <1>4, <1>6
  <2> QED
    BY <1>3, <1>5, <1>6, <2>1 DEF IInv, ViewsOK, ViewOK
<1> DEFINE b == u.backup
<1>8. b \in Servers
  BY <1>0, <1>3, <1>7 DEF View, ServerOrNull
<1>9. srv[b].view_num > u.viewNum
  <2>1. CASE w.viewNum = N
    <3>1. b = q
      BY <1>2, <1>7, <2>1 DEF IInv, ViewsOK
    <3> QED
      BY <1>4, <3>1
  <2>2. CASE w.viewNum < N
    BY <1>0, <1>4, <1>6, <1>7, <1>8, <2>2 DEF IInv, LeftViewsEntered
  <2> QED
    BY <1>0, <1>4, <1>6, <2>1, <2>2
<1>10. srv[b].current_view.primary # p
  BY <1>5, <1>8, <1>9 DEF IInv, RolesOK
<1> QED
  BY <1>7, <1>10 DEF Backup, Rejects

LEMMA InvImplies ==
  IInv => OnePrimaryActive /\ ConfirmedIsHeld
<1> SUFFICES ASSUME IInv PROVE OnePrimaryActive /\ ConfirmedIsHeld
  OBVIOUS
<1>1. OnePrimaryActive
  BY OldPrimaryRefused DEF OnePrimaryActive
<1>2. ConfirmedIsHeld
  BY DEF IInv, CountsBacked, ConfirmedIsHeld, Size
<1> QED
  BY <1>1, <1>2

-----------------------------------------------------------------------------
(* The operators on one server's fields *)

\* What only handleViewReply changes.
Same(x, y) ==
  /\ y.role = x.role /\ y.view_num = x.view_num
  /\ y.current_view = x.current_view
  /\ y.newBackup = x.newBackup /\ y.viewChange = x.viewChange

Holds(x) == Contents(x.app.log) \subseteq Contents(x.cmd_list)

LEMMA ResetFields ==
  ASSUME NEW x \in ServerState
  PROVE  /\ ResetStates(x) \in ServerState /\ Same(x, ResetStates(x))
         /\ ResetStates(x).app = x.app /\ ResetStates(x).cmd_list = x.cmd_list
         /\ ResetStates(x).backupRcv = 0
  BY DEF ResetStates, ServerState, Same

LEMMA AbleFields ==
  ASSUME NEW x \in ServerState, NEW u \in BOOLEAN
  PROVE  LET y == [x EXCEPT !.able2Execute = u]
         IN  /\ y \in ServerState /\ Same(x, y)
             /\ y.app = x.app /\ y.cmd_list = x.cmd_list
             /\ y.backupRcv = x.backupRcv
  BY DEF ServerState, Same

LEMMA NextFields ==
  ASSUME NEW x \in ServerState
  PROVE  LET y == AfterBackupNext(x)
         IN  /\ y \in ServerState /\ Same(x, y)
             /\ y.app = x.app /\ y.cmd_list = x.cmd_list
             /\ y.backupRcv = x.backupRcv
  BY AbleFields DEF AfterBackupNext, Same

LEMMA ListFields ==
  ASSUME NEW x \in ServerState, NEW list \in Log
  PROVE  LET y == [x EXCEPT !.cmd_list = list]
         IN  /\ y \in ServerState /\ Same(x, y)
             /\ y.app = x.app /\ y.cmd_list = list
             /\ y.backupRcv = x.backupRcv
  BY DEF ServerState, Same

LEMMA AppFields ==
  ASSUME NEW x \in ServerState, NEW a \in AMOApplication
  PROVE  LET y == [x EXCEPT !.app = a]
         IN  /\ y \in ServerState /\ Same(x, y)
             /\ y.app = a /\ y.cmd_list = x.cmd_list
             /\ y.backupRcv = x.backupRcv
  BY DEF ServerState, Same

LEMMA ConfirmFields ==
  ASSUME NEW x \in ServerState, NEW r \in BackupReply
  PROVE  LET y == Confirm(x, r)
         IN  /\ y \in ServerState /\ Same(x, y)
             /\ y.app = x.app /\ y.cmd_list = x.cmd_list
             /\ y.backupRcv \in {r.rcv, x.backupRcv + 1}
  BY DEF Confirm, ServerState, BackupReply, Same

\* The first command that the backup has not confirmed is in the list.
LEMMA TransfersType ==
  ASSUME NEW x \in ServerState, x.backupRcv <= Len(x.cmd_list),
         NEW br \in Transfers(x)
  PROVE  br \in BackupRequest /\ br.currentNum <= Len(x.cmd_list)
<1> DEFINE num == x.backupRcv + 1
<1>1. x.backupRcv \in Nat /\ x.cmd_list \in Seq(AMOCommand)
  BY DEF ServerState, Log
<1>2. x.backupRcv # Len(x.cmd_list)
  BY DEF Transfers, Transferred
<1>3. num \in 1..Len(x.cmd_list)
  BY <1>1, <1>2
<1>4. x.cmd_list[num] \in AMOCommand
  BY <1>1, <1>3
<1>5. br = [command |-> x.cmd_list[num], client |-> Null, currentNum |-> num,
            past |-> TRUE, last |-> num = Len(x.cmd_list)]
  BY <1>2 DEF Transfers, Transferred
<1> HIDE DEF num
<1> QED
  BY <1>3, <1>4, <1>5 DEF BackupRequest, ClientOrNull

LEMMA ContentsAppend ==
  ASSUME NEW u \in Log, NEW cmd \in AMOCommand
  PROVE  Contents(Append(u, cmd)) = Contents(u) \cup {cmd}
<1>1. DOMAIN Append(u, cmd) = DOMAIN u \cup {Len(u) + 1}
  BY DEF Log
<1> QED
  BY <1>1, AppendLog DEF Contents, Log

LEMMA ExecuteContents ==
  ASSUME NEW app \in AMOApplication, NEW cmd \in AMOCommand
  PROVE  Contents(Execute(app, cmd).log) \subseteq Contents(app.log) \cup {cmd}
<1>1. app.log \in Log
  BY DEF AMOApplication
<1> QED
  BY <1>1, ExecuteEffect, ContentsAppend

-----------------------------------------------------------------------------
(* Steps that change one server, and messages sent *)

\* What a message must be if it is to be delivered, f being the servers.
BackedIn(m, f) ==
  /\ m.type = "BackupRequest" =>
       m.body.currentNum <= Len(f[m.from].cmd_list)
  /\ m.type = "BackupReply" /\ m.body.done =>
       /\ m.body.currentNum \in 1..Len(f[m.to].cmd_list)
       /\ m.body.currentNum <= Len(f[m.from].cmd_list)
       /\ m.body.rcv <= Len(f[m.from].cmd_list)

Sound(m, f) == m.to # Null => m \in Message /\ BackedIn(m, f)

LEMMA SendKeeps ==
  ASSUME NEW msgs, Send(msgs), net \in SUBSET Message,
         \A m \in net : Backed(m)', \A m \in msgs : Sound(m, srv')
  PROVE  net' \in SUBSET Message /\ NetBacked'
<1>1. net' \in SUBSET Message
  BY DEF Send, Sound
<1>2. ASSUME NEW m \in net' PROVE Backed(m)'
  <2>1. CASE m \in net
    BY <2>1
  <2>2. CASE m \notin net
    <3>1. m \in msgs /\ m.to # Null
      BY <2>2 DEF Send
    <3>2. BackedIn(m, srv')
      BY <3>1 DEF Sound
    <3> QED
      BY <3>2 DEF BackedIn, Backed, Size
  <2> QED
    BY <2>1, <2>2
<1> QED
  BY <1>1, <1>2 DEF NetBacked

\* y is what a handler other than handleViewReply may make of server s.
Becomes(s, y) ==
  /\ y \in ServerState /\ Same(srv[s], y) /\ Holds(y)
  /\ Len(srv[s].cmd_list) <= Len(y.cmd_list)
  /\ srv' = [srv EXCEPT ![s] = y]
  /\ y.newBackup # Null => y.backupRcv <= Size(y.newBackup)

\* No server enters a view.
SameViews == \A t \in Servers : srv'[t].view_num = srv[t].view_num

LEMMA SizeType ==
  ASSUME TypeOK
  PROVE  \A s \in Servers : Size(s) \in Nat
  BY DEF TypeOK, ServerState, Log, Size

\* Lists grow, so what was backed stays backed.
LEMMA StaysBacked ==
  ASSUME TypeOK, \A s \in Servers : Size(s)' \in Nat /\ Size(s) <= Size(s)',
         NEW m \in net, Backed(m)
  PROVE  Backed(m)'
<1>1. m \in Message
  BY DEF TypeOK
<1>2. CASE m.type = "BackupRequest"
  <2>1. m.from \in Servers /\ m.body \in BackupRequest
    BY <1>1, <1>2 DEF Message
  <2>2. m.body.currentNum \in Nat
    BY <2>1 DEF BackupRequest
  <2> QED
    BY <1>2, <2>1, <2>2, SizeType DEF Backed
<1>3. CASE m.type = "BackupReply"
  <2>1. m.from \in Servers /\ m.to \in Servers /\ m.body \in BackupReply
    BY <1>1, <1>3 DEF Message
  <2>2. m.body.currentNum \in Int /\ m.body.rcv \in Nat
    BY <2>1 DEF BackupReply
  <2> QED
    BY <1>3, <2>1, <2>2, SizeType DEF Backed
<1> QED
  BY <1>2, <1>3 DEF Backed

LEMMA ServerStep ==
  ASSUME IInv, NEW s \in Servers, NEW y, Becomes(s, y),
         UNCHANGED <<view, issued>>
  PROVE  /\ srv' \in [Servers -> ServerState]
         /\ \A t \in Servers : Size(t)' \in Nat /\ Size(t) <= Size(t)'
         /\ \A m \in net : Backed(m)'
         /\ CountsBacked' /\ ViewsOK' /\ RolesOK' /\ LeftViewsEntered'
         /\ ViewChangeOnlyInBackup' /\ ListHoldsLog'
<1>1. srv \in [Servers -> ServerState] /\ TypeOK
  BY DEF IInv, TypeOK
<1>2. srv' \in [Servers -> ServerState]
  BY <1>1 DEF Becomes
<1>3. srv'[s] = y /\ \A t \in Servers \ {s} : srv'[t] = srv[t]
  BY <1>1 DEF Becomes
<1>4. \A t \in Servers : Same(srv[t], srv'[t])
  BY <1>3 DEF Becomes, Same
<1>5. \A t \in Servers : Size(t)' \in Nat /\ Size(t) <= Size(t)'
  BY <1>1, <1>2, <1>3 DEF Becomes, Size, ServerState, Log
<1>6. \A m \in net : Backed(m)'
  BY <1>1, <1>5, StaysBacked DEF IInv, NetBacked
<1>7. CountsBacked'
  <2> SUFFICES ASSUME NEW t \in Servers, srv'[t].newBackup # Null
               PROVE  srv'[t].backupRcv <= Len(srv'[srv'[t].newBackup].cmd_list)
    BY DEF CountsBacked, Size
  <2> DEFINE b == srv'[t].newBackup
  <2>1. b \in Servers /\ srv'[t].backupRcv \in Nat
    BY <1>2 DEF ServerState, ServerOrNull
  <2>2. srv'[t].backupRcv <= Len(srv[b].cmd_list)
    BY <1>3 DEF Becomes, IInv, CountsBacked, Size
  <2>3. \A a \in Servers : /\ Len(srv[a].cmd_list) \in Nat
                          /\ Len(srv'[a].cmd_list) \in Nat
                          /\ Len(srv[a].cmd_list) <= Len(srv'[a].cmd_list)
    BY <1>1, <1>5, SizeType DEF Size
  <2> QED
    BY <2>1, <2>2, <2>3
<1>8. ViewsOK'
  BY DEF IInv, ViewsOK, ViewOK
<1>9. RolesOK'
  BY <1>4 DEF IInv, RolesOK, RoleIn, Same
<1>10. LeftViewsEntered'
  <2> SUFFICES ASSUME NEW v \in issued, 0 < v.viewNum, v.viewNum < view.viewNum
               PROVE  srv'[v.primary].view_num >= v.viewNum
    BY DEF LeftViewsEntered
  <2>1. v.primary \in Servers
    BY <1>1 DEF IInv, ViewsOK, ViewOK, TypeOK, View, ServerOrNull
  <2> QED
    BY <1>4, <2>1 DEF IInv, LeftViewsEntered, Same
<1>11. ViewChangeOnlyInBackup'
  BY <1>4 DEF IInv, ViewChangeOnlyInBackup, Same
<1>12. ListHoldsLog'
  BY <1>3 DEF IInv, ListHoldsLog, Becomes, Holds
<1> QED
  BY <1>2, <1>5, <1>6, <1>7, <1>8, <1>9, <1>10, <1>11, <1>12

\* A handler that makes y of server s, and sends msgs, keeps the invariant.
LEMMA HandlerKeeps ==
  ASSUME IInv, NEW s \in Servers, NEW y, Becomes(s, y),
         NEW msgs, Send(msgs), \A m \in msgs : Sound(m, srv'),
         UNCHANGED <<view, issued, cl, crashed, accepted>>
  PROVE  IInv' /\ SameViews
<1>1. net \in SUBSET Message /\ srv \in [Servers -> ServerState]
  BY DEF IInv, TypeOK
<1>2. net' \in SUBSET Message /\ NetBacked'
  BY <1>1, ServerStep, SendKeeps
<1>3. SameViews
  BY <1>1 DEF Becomes, Same, SameViews
<1> QED
  BY <1>2, <1>3, ServerStep DEF IInv, TypeOK, OutstandingOK

\* A handler that only sends.
LEMMA SendingKeeps ==
  ASSUME IInv, NEW msgs, Send(msgs), \A m \in msgs : Sound(m, srv),
         UNCHANGED <<view, issued, srv>>,
         cl' \in [Clients -> ClientState], OutstandingOK',
         UNCHANGED <<crashed, accepted>>
  PROVE  IInv' /\ SameViews
<1>1. net \in SUBSET Message /\ NetBacked
  BY DEF IInv, TypeOK
<1>2. net' \in SUBSET Message
  BY <1>1 DEF Send, Sound
<1>3. NetBacked'
  BY <1>1 DEF Send, Sound, NetBacked, Backed, BackedIn, Size
<1> QED
  BY <1>2, <1>3
     DEF IInv, SameViews, TypeOK, CountsBacked, ViewsOK, ViewOK, RolesOK,
         RoleIn, LeftViewsEntered, ViewChangeOnlyInBackup, ListHoldsLog, Size

-----------------------------------------------------------------------------
(* Every action keeps the invariant *)

LEMMA HandleRequestKeeps ==
  ASSUME IInv, NEW m \in net, HandleRequest(m)
  PROVE  IInv' /\ SameViews
<1> DEFINE s == m.to
           c == m.command.addr
           x == srv[s]
           list == Append(x.cmd_list, m.command)
           y == [x EXCEPT !.cmd_list = list]
           backup == x.current_view.backup
           br == [command |-> m.command, client |-> c,
                  currentNum |-> Len(list), past |-> FALSE, last |-> TRUE]
<1>1. s \in Servers /\ m.command \in AMOCommand /\ c \in Clients
  BY DEF HandleRequest, IInv, TypeOK, Message, AMOCommand
<1>2. /\ srv \in [Servers -> ServerState] /\ x \in ServerState
      /\ x.cmd_list \in Log /\ x.app \in AMOApplication
      /\ backup \in ServerOrNull /\ Holds(x)
      /\ x.newBackup # Null => x.backupRcv <= Size(x.newBackup)
  BY <1>1 DEF IInv, TypeOK, ServerState, View, ListHoldsLog, Holds, CountsBacked
<1>3. /\ list \in Log /\ Len(list) = Len(x.cmd_list) + 1
      /\ Contents(list) = Contents(x.cmd_list) \cup {m.command}
      /\ Len(x.cmd_list) \in Nat
  BY <1>1, <1>2, AppendLog, ContentsAppend DEF Log
<1>4. /\ y \in ServerState /\ Same(x, y)
      /\ y.app = x.app /\ y.cmd_list = list /\ y.backupRcv = x.backupRcv
  BY <1>2, <1>3, ListFields
<1>5. UNCHANGED <<view, issued, cl, crashed, accepted>>
  BY DEF HandleRequest
<1>6. \/ /\ srv' = [srv EXCEPT ![s] = [y EXCEPT !.able2Execute = FALSE]]
         /\ Send({ToBackup(s, backup, br)})
      \/ /\ srv' = [srv EXCEPT ![s] =
                     [y EXCEPT !.app = Execute(x.app, m.command)]]
         /\ Send({Reply(s, c, Answer(x.app, m.command))})
  <2>1. backup # Null => {ToBackup(s, backup, a) : a \in Forward(x, m.command)}
                           = {ToBackup(s, backup, br)}
    BY <1>3 DEF Forward
  <2> QED
    BY <1>4, <2>1 DEF HandleRequest
<1> HIDE DEF s, c, x, list, y, backup
<1>7. CASE /\ srv' = [srv EXCEPT ![s] = [y EXCEPT !.able2Execute = FALSE]]
           /\ Send({ToBackup(s, backup, br)})
  <2> DEFINE z == [y EXCEPT !.able2Execute = FALSE]
  <2>1. \A u \in BOOLEAN : LET w == [y EXCEPT !.able2Execute = u]
          IN w \in ServerState /\ Same(y, w) /\ w.app = y.app
               /\ w.cmd_list = y.cmd_list /\ w.backupRcv = y.backupRcv
    BY <1>4, AbleFields
  <2>2. /\ z \in ServerState /\ Same(y, z) /\ z.app = y.app
        /\ z.cmd_list = y.cmd_list /\ z.backupRcv = y.backupRcv
    BY <2>1, FALSE \in BOOLEAN, Zenon
  <2>3. srv' = [srv EXCEPT ![s] = z]
    BY <1>7
  <2> HIDE DEF z
  <2>4. Becomes(s, z)
    BY <1>2, <1>3, <1>4, <2>2, <2>3 DEF Becomes, Same, Holds, x
  <2>5. Sound(ToBackup(s, backup, br), srv')
    <3>1. br \in BackupRequest
      BY <1>1, <1>3 DEF BackupRequest, ClientOrNull
    <3>2. ToBackup(s, backup, br).to # Null
            => ToBackup(s, backup, br) \in Message
      BY <1>1, <1>2, <3>1 DEF ToBackup, Message, ServerOrNull
    <3>3. srv'[s].cmd_list = list
      BY <1>1, <1>2, <1>4, <2>2, <2>3
    <3>4. BackedIn(ToBackup(s, backup, br), srv')
      BY <1>3, <3>3 DEF BackedIn, ToBackup
    <3> QED
      BY <3>2, <3>4 DEF Sound
  <2> QED
    BY <1>1, <1>5, <1>7, <2>4, <2>5, HandlerKeeps
<1>8. CASE /\ srv' = [srv EXCEPT ![s] =
                       [y EXCEPT !.app = Execute(x.app, m.command)]]
           /\ Send({Reply(s, c, Answer(x.app, m.command))})
  <2> DEFINE app == Execute(x.app, m.command)
             z == [y EXCEPT !.app = app]
             res == Answer(x.app, m.command)
  <2>1. app \in AMOApplication /\ res \in AMOResult
    BY <1>1, <1>2, ExecuteType, AnswerType
  <2>2. Contents(app.log) \subseteq Contents(x.app.log) \cup {m.command}
    BY <1>1, <1>2, ExecuteContents
  <2>3. srv' = [srv EXCEPT ![s] = z]
    BY <1>8
  <2> HIDE DEF app, res
  <2>4. /\ z \in ServerState /\ Same(y, z) /\ z.app = app
        /\ z.cmd_list = y.cmd_list /\ z.backupRcv = y.backupRcv
    BY <1>4, <2>1, AppFields
  <2> HIDE DEF z
  <2>5. Becomes(s, z)
    BY <1>2, <1>3, <1>4, <2>2, <2>3, <2>4 DEF Becomes, Same, Holds, x
  <2>6. Sound(Reply(s, c, res), srv')
    BY <1>1, <2>1 DEF Sound, Reply, Message, BackedIn
  <2> QED
    BY <1>1, <1>5, <1>8, <2>5, <2>6, HandlerKeeps DEF res
<1> QED
  BY <1>6, <1>7, <1>8

\* A command stored after the last one.
LEMMA StoreFields ==
  ASSUME NEW x \in ServerState, NEW cmd \in AMOCommand, Holds(x)
  PROVE  LET y == Store(x, cmd)
         IN  /\ y \in ServerState /\ Same(x, y) /\ Holds(y)
             /\ Len(x.cmd_list) \in Nat
             /\ Len(y.cmd_list) = Len(x.cmd_list) + 1
             /\ y.backupRcv = x.backupRcv
<1> DEFINE list == Append(x.cmd_list, cmd)
           app == Execute(x.app, cmd)
           w == [x EXCEPT !.cmd_list = list]
           y == [w EXCEPT !.app = app]
<1>1. x.cmd_list \in Log /\ x.app \in AMOApplication
  BY DEF ServerState
<1>2. /\ list \in Log /\ Len(list) = Len(x.cmd_list) + 1
      /\ Contents(list) = Contents(x.cmd_list) \cup {cmd}
      /\ Len(x.cmd_list) \in Nat
  BY <1>1, AppendLog, ContentsAppend DEF Log
<1>3. /\ app \in AMOApplication
      /\ Contents(app.log) \subseteq Contents(x.app.log) \cup {cmd}
  BY <1>1, ExecuteType, ExecuteContents
<1>4. Store(x, cmd) = y
  BY DEF Store, ServerState
<1> HIDE DEF list, app
<1>5. /\ w \in ServerState /\ Same(x, w) /\ w.app = x.app
      /\ w.cmd_list = list /\ w.backupRcv = x.backupRcv
  BY <1>2, ListFields
<1> HIDE DEF w
<1>6. /\ y \in ServerState /\ Same(w, y) /\ y.app = app
      /\ y.cmd_list = w.cmd_list /\ y.backupRcv = w.backupRcv
  BY <1>3, <1>5, AppFields
<1> HIDE DEF y
<1>7. Same(x, y) /\ Holds(y)
  BY <1>2, <1>3, <1>5, <1>6 DEF Same, Holds
<1> QED
  BY <1>2, <1>4, <1>5, <1>6, <1>7

LEMMA HandleBackupRequestKeeps ==
  ASSUME IInv, NEW m \in net, HandleBackupRequest(m)
  PROVE  IInv' /\ SameViews
<1> DEFINE b == m.to
           p == m.from
           r == m.body
           x == srv[b]
           y == IF AlreadyHeld(x, r.currentNum) THEN x
                ELSE Store(x, r.command)
           able == y.able2Execute \/ r.last
           z == [y EXCEPT !.able2Execute = able]
           reply == [done |-> TRUE, currentNum |-> r.currentNum,
                     client |-> r.client, past |-> r.past,
                     rcv |-> Len(y.cmd_list)]
<1>0. m.type = "BackupRequest" /\ m \in Message
  BY DEF HandleBackupRequest, IInv, TypeOK
<1>1. b \in Servers /\ p \in Servers /\ r \in BackupRequest
  BY <1>0 DEF Message
<1>2. /\ r.currentNum \in Nat /\ r.currentNum >= 1 /\ r.command \in AMOCommand
      /\ r.client \in ClientOrNull /\ r.past \in BOOLEAN /\ r.last \in BOOLEAN
  BY <1>1 DEF BackupRequest
<1>3. /\ srv \in [Servers -> ServerState] /\ x \in ServerState /\ Holds(x)
      /\ x.newBackup # Null => x.backupRcv <= Size(x.newBackup)
      /\ Len(x.cmd_list) \in Nat
      /\ r.currentNum <= Len(srv[p].cmd_list)
  <2>1. /\ srv \in [Servers -> ServerState] /\ x \in ServerState
        /\ Len(x.cmd_list) \in Nat
    BY <1>1, SizeType DEF IInv, TypeOK, Size
  <2>2. Holds(x) /\ (x.newBackup # Null => x.backupRcv <= Size(x.newBackup))
    BY <1>1 DEF IInv, ListHoldsLog, Holds, CountsBacked
  <2>3. r.currentNum <= Len(srv[p].cmd_list)
    BY <1>0 DEF IInv, NetBacked, Backed, Size
  <2> QED
    BY <2>1, <2>2, <2>3
<1>4. UNCHANGED <<view, issued, cl, crashed, accepted>>
  BY DEF HandleBackupRequest
<1>5. \/ UNCHANGED srv /\ Send({ToPrimary(b, p, Refusal)})
      \/ /\ r.currentNum <= Len(x.cmd_list) + 1
         /\ srv' = [srv EXCEPT ![b] = z]
         /\ Send({ToPrimary(b, p, reply)})
  BY <1>2, <1>3 DEF HandleBackupRequest, LeavesGap
<1>6. CASE UNCHANGED srv /\ Send({ToPrimary(b, p, Refusal)})
  <2>1. Refusal \in BackupReply
    BY DEF Refusal, BackupReply, ClientOrNull
  <2>2. Sound(ToPrimary(b, p, Refusal), srv)
    BY <1>1, <2>1 DEF Sound, ToPrimary, Message, BackedIn, Refusal
  <2>3. cl' \in [Clients -> ClientState] /\ OutstandingOK'
    BY <1>4 DEF IInv, TypeOK, OutstandingOK
  <2> QED
    BY <1>4, <1>6, <2>2, <2>3, SendingKeeps
<1>7. CASE /\ r.currentNum <= Len(x.cmd_list) + 1
           /\ srv' = [srv EXCEPT ![b] = z]
           /\ Send({ToPrimary(b, p, reply)})
  <2>1. /\ y \in ServerState /\ Same(x, y) /\ Holds(y)
        /\ Len(x.cmd_list) <= Len(y.cmd_list) /\ Len(y.cmd_list) \in Nat
        /\ r.currentNum <= Len(y.cmd_list) /\ y.backupRcv = x.backupRcv
    <3>1. CASE r.currentNum <= Len(x.cmd_list)
      BY <1>3, <3>1 DEF Same, AlreadyHeld
    <3>2. CASE ~(r.currentNum <= Len(x.cmd_list))
      <4>1. y = Store(x, r.command)
        BY <3>2 DEF AlreadyHeld
      <4> HIDE DEF y, x, r
      <4> QED
        BY <1>2, <1>3, <1>7, <3>2, <4>1, StoreFields
    <3> QED
      BY <3>1, <3>2
  <2> HIDE DEF y
  <2>2. able \in BOOLEAN
    BY <1>2, <2>1 DEF ServerState
  <2> HIDE DEF able
  <2>3. /\ z \in ServerState /\ Same(y, z) /\ z.app = y.app
        /\ z.cmd_list = y.cmd_list /\ z.backupRcv = y.backupRcv
    BY <2>1, <2>2, AbleFields
  <2>4. srv' = [srv EXCEPT ![b] = z]
    BY <1>7
  <2> HIDE DEF z
  <2>5. Becomes(b, z)
    BY <1>3, <2>1, <2>3, <2>4 DEF Becomes, Same, Holds
  <2>6. \A t \in Servers : /\ Len(srv[t].cmd_list) <= Len(srv'[t].cmd_list)
                           /\ Len(srv[t].cmd_list) \in Nat
                           /\ Len(srv'[t].cmd_list) \in Nat
    BY <1>1, <1>4, <2>5, ServerStep, SizeType DEF Size, IInv
  <2>7. srv'[b].cmd_list = y.cmd_list
    BY <1>1, <1>3, <2>3, <2>4
  <2>8. Sound(ToPrimary(b, p, reply), srv')
    <3>1. reply \in BackupReply
      BY <1>2, <2>1 DEF BackupReply
    <3>2. ToPrimary(b, p, reply) \in Message
      BY <1>1, <3>1 DEF ToPrimary, Message
    <3>3. BackedIn(ToPrimary(b, p, reply), srv')
      BY <1>1, <1>2, <1>3, <2>1, <2>6, <2>7 DEF BackedIn, ToPrimary
    <3> QED
      BY <3>2, <3>3 DEF Sound
  <2> QED
    BY <1>1, <1>4, <1>7, <2>5, <2>8, HandlerKeeps
<1> QED
  BY <1>5, <1>6, <1>7

\* A command taken from the list leaves the list holding the log.
LEMMA ExecuteHeld ==
  ASSUME NEW x \in ServerState, Holds(x), NEW n \in 1..Len(x.cmd_list)
  PROVE  LET y == [x EXCEPT !.app = Execute(@, x.cmd_list[n])]
         IN  /\ y \in ServerState /\ Same(x, y) /\ Holds(y)
             /\ y.cmd_list = x.cmd_list /\ y.backupRcv = x.backupRcv
             /\ Answer(x.app, x.cmd_list[n]) \in AMOResult
<1> DEFINE cmd == x.cmd_list[n]
           app == Execute(x.app, cmd)
           y == [x EXCEPT !.app = app]
<1>1. x.cmd_list \in Seq(AMOCommand) /\ x.app \in AMOApplication
  BY DEF ServerState, Log
<1>2. cmd \in AMOCommand /\ cmd \in Contents(x.cmd_list)
  BY <1>1 DEF Contents
<1>3. [x EXCEPT !.app = Execute(@, x.cmd_list[n])] = y
  OBVIOUS
<1> HIDE DEF cmd
<1>4. /\ app \in AMOApplication /\ Answer(x.app, cmd) \in AMOResult
      /\ Contents(app.log) \subseteq Contents(x.app.log) \cup {cmd}
  BY <1>1, <1>2, ExecuteType, AnswerType, ExecuteContents
<1> HIDE DEF app
<1>5. /\ y \in ServerState /\ Same(x, y) /\ y.app = app
      /\ y.cmd_list = x.cmd_list /\ y.backupRcv = x.backupRcv
  BY <1>4, AppFields
<1> HIDE DEF y
<1>6. Holds(y)
  BY <1>2, <1>4, <1>5 DEF Holds
<1> QED
  BY <1>3, <1>4, <1>5, <1>6 DEF cmd

LEMMA HandleBackupReplyKeeps ==
  ASSUME IInv, NEW m \in net, HandleBackupReply(m)
  PROVE  IInv' /\ SameViews
<1> DEFINE p == m.to
           r == m.body
           old == srv[p]
           x == Confirm(old, r)
           brs == Continues(m)
           cmd == x.cmd_list[r.currentNum]
<1>0. m.type = "BackupReply" /\ m \in Message
  BY DEF HandleBackupReply, IInv, TypeOK
<1>1. p \in Servers /\ m.from \in Servers /\ r \in BackupReply
  BY <1>0 DEF Message
<1>2. /\ r.currentNum \in Int /\ r.rcv \in Nat
      /\ r.client \in ClientOrNull /\ r.past \in BOOLEAN
  BY <1>1 DEF BackupReply
<1>3. /\ srv \in [Servers -> ServerState] /\ old \in ServerState /\ Holds(old)
      /\ Len(old.cmd_list) \in Nat /\ old.backupRcv \in Nat
      /\ old.newBackup \in ServerOrNull
      /\ \A t \in Servers : Size(t) \in Nat
  <2>1. srv \in [Servers -> ServerState] /\ \A t \in Servers : Size(t) \in Nat
    BY SizeType DEF IInv, TypeOK
  <2>2. Holds(old)
    BY <1>1 DEF IInv, ListHoldsLog, Holds
  <2>3. old \in ServerState /\ Len(old.cmd_list) \in Nat
    BY <1>1, <2>1 DEF Size
  <2> QED
    BY <2>1, <2>2, <2>3 DEF ServerState
<1>4. UNCHANGED <<view, issued, cl, crashed, accepted>>
  BY DEF HandleBackupReply
<1>5. /\ x \in ServerState /\ Same(old, x)
      /\ x.app = old.app /\ x.cmd_list = old.cmd_list
      /\ x.backupRcv \in {r.rcv, old.backupRcv + 1}
  BY <1>1, <1>3, ConfirmFields
<1>6. x.backupRcv \in Nat /\ Holds(x)
  BY <1>3, <1>5 DEF ServerState, Holds
<1> DEFINE Awaited == /\ m.from = old.newBackup /\ r.done
                      /\ r.currentNum - 1 = old.backupRcv
<1>7. \/ srv' = [srv EXCEPT ![p] = ResetStates(old)] /\ UNCHANGED net
      \/ /\ Awaited /\ x.backupRcv < Len(x.cmd_list)
         /\ srv' = [srv EXCEPT ![p] = IF x.viewChange THEN ResetStates(x)
                                      ELSE AfterBackupNext(x)]
         /\ Send({ToBackup(p, x.newBackup, br) : br \in brs})
      \/ /\ Awaited
         /\ srv' = [srv EXCEPT ![p] = [x EXCEPT !.able2Execute = TRUE]]
         /\ UNCHANGED net
      \/ /\ Awaited
         /\ srv' = [srv EXCEPT ![p] = [[x EXCEPT !.app = Execute(@, cmd)]
                                         EXCEPT !.able2Execute = TRUE]]
         /\ Send({Reply(p, r.client, Answer(x.app, cmd))})
  <2>1. [x EXCEPT !.app = Execute(@, cmd), !.able2Execute = TRUE]
          = [[x EXCEPT !.app = Execute(@, cmd)] EXCEPT !.able2Execute = TRUE]
    BY <1>5 DEF ServerState
  <2> QED
    BY <1>1, <1>3, <2>1 DEF HandleBackupReply, Confirms
<1>8. Awaited => /\ r.currentNum \in 1..Len(x.cmd_list)
                 /\ x.newBackup # Null => x.backupRcv <= Size(x.newBackup)
  <2> SUFFICES ASSUME Awaited
               PROVE  /\ r.currentNum \in 1..Len(x.cmd_list)
                      /\ x.backupRcv <= Size(x.newBackup)
    OBVIOUS
  <2>1. /\ r.currentNum \in 1..Len(old.cmd_list)
        /\ r.currentNum <= Size(m.from) /\ r.rcv <= Size(m.from)
    BY <1>0 DEF IInv, NetBacked, Backed, Size
  <2>2. x.newBackup = m.from /\ r.currentNum = old.backupRcv + 1
    BY <1>2, <1>3, <1>5 DEF Same
  <2> QED
    BY <1>5, <2>1, <2>2
<1> HIDE DEF p, r, old, x, Awaited, cmd
\* What is shared by the cases: z has the list of old and counts no more.
<1>9. ASSUME NEW z \in ServerState, Same(old, z), Holds(z),
             z.cmd_list = old.cmd_list,
             z.newBackup # Null => z.backupRcv <= Size(z.newBackup),
             srv' = [srv EXCEPT ![p] = z]
      PROVE  Becomes(p, z) /\ srv'[p].cmd_list = old.cmd_list
  BY <1>1, <1>3, <1>9 DEF Becomes, old
<1>10. ASSUME UNCHANGED net PROVE Send({})
  BY <1>10 DEF Send
<1>11. ResetStates(x) \in ServerState /\ ResetStates(old) \in ServerState
  BY <1>3, <1>5, ResetFields
<1>12. ASSUME NEW w \in ServerState, Same(old, w), Holds(w),
              w.cmd_list = old.cmd_list,
              srv' = [srv EXCEPT ![p] = ResetStates(w)]
       PROVE  Becomes(p, ResetStates(w)) /\ srv'[p].cmd_list = old.cmd_list
  <2> DEFINE z == ResetStates(w)
  <2>1. /\ z \in ServerState /\ Same(w, z) /\ z.app = w.app
        /\ z.cmd_list = w.cmd_list /\ z.backupRcv = 0
    BY ResetFields
  <2>2. srv' = [srv EXCEPT ![p] = z]
    BY <1>12
  <2> HIDE DEF z
  <2>3. Same(old, z) /\ Holds(z) /\ z.newBackup \in ServerOrNull
    BY <1>3, <1>12, <2>1 DEF Same, Holds
  <2>4. z.newBackup # Null => z.backupRcv <= Size(z.newBackup)
    BY <1>3, <2>1, <2>3 DEF ServerOrNull
  <2>5. Becomes(p, z) /\ srv'[p].cmd_list = old.cmd_list
    BY <1>9, <1>12, <2>1, <2>2, <2>3, <2>4
  <2> QED
    BY <2>5 DEF z
<1>13. CASE srv' = [srv EXCEPT ![p] = ResetStates(old)] /\ UNCHANGED net
  <2>1. Becomes(p, ResetStates(old))
    BY <1>3, <1>12, <1>13 DEF Same
  <2>2. Send({})
    BY <1>10, <1>13
  <2> QED
    BY <1>1, <1>4, <2>1, <2>2, HandlerKeeps
<1>14. CASE /\ Awaited /\ x.backupRcv < Len(x.cmd_list)
            /\ srv' = [srv EXCEPT ![p] = IF x.viewChange THEN ResetStates(x)
                                         ELSE AfterBackupNext(x)]
            /\ Send({ToBackup(p, x.newBackup, br) : br \in brs})
  <2> DEFINE y == AfterBackupNext(x)
             z == IF x.viewChange THEN ResetStates(x) ELSE y
  <2>1. /\ y \in ServerState /\ Same(x, y) /\ y.app = x.app
        /\ y.cmd_list = x.cmd_list /\ y.backupRcv = x.backupRcv
    BY <1>5, NextFields
  <2> HIDE DEF y
  <2>2. /\ Same(old, y) /\ Holds(y)
        /\ y.newBackup # Null => y.backupRcv <= Size(y.newBackup)
    BY <1>5, <1>6, <1>8, <1>14, <2>1 DEF Same, Holds
  <2>3. Becomes(p, z) /\ srv'[p].cmd_list = old.cmd_list
    <3>1. CASE x.viewChange
      BY <1>5, <1>6, <1>12, <1>14, <3>1
    <3>2. CASE ~x.viewChange
      BY <1>5, <1>9, <1>14, <2>1, <2>2, <3>2 DEF y
    <3> QED
      BY <3>1, <3>2
  <2>4. ASSUME NEW br \in brs
        PROVE  Sound(ToBackup(p, x.newBackup, br), srv')
    <3>1. br \in Transfers(x)
      BY DEF Continues, x, old, p, r
    <3>2. x.backupRcv <= Len(x.cmd_list)
      BY <1>3, <1>5, <1>6, <1>14
    <3>3. br \in BackupRequest /\ br.currentNum <= Len(x.cmd_list)
      BY <1>5, <3>1, <3>2, TransfersType
    <3>4. x.newBackup \in ServerOrNull
      BY <1>5 DEF ServerState
    <3> QED
      BY <1>1, <1>5, <2>3, <3>3, <3>4
         DEF Sound, ToBackup, Message, BackedIn, ServerOrNull
  <2> HIDE DEF z, brs
  <2>5. \A msg \in {ToBackup(p, x.newBackup, br) : br \in brs} :
          Sound(msg, srv')
    BY <2>4
  <2> DEFINE msgs == {ToBackup(p, x.newBackup, br) : br \in brs}
  <2>6. Send(msgs) /\ \A msg \in msgs : Sound(msg, srv')
    BY <1>14, <2>5
  <2> HIDE DEF msgs
  <2> QED
    BY <1>1, <1>4, <2>3, <2>6, HandlerKeeps
<1>15. ASSUME NEW w \in ServerState, Same(x, w), Holds(w),
              w.cmd_list = x.cmd_list, w.backupRcv = x.backupRcv, Awaited,
              srv' = [srv EXCEPT ![p] = [w EXCEPT !.able2Execute = TRUE]]
       PROVE  Becomes(p, [w EXCEPT !.able2Execute = TRUE])
  <2> DEFINE z == [w EXCEPT !.able2Execute = TRUE]
  <2>1. \A u \in BOOLEAN : LET v == [w EXCEPT !.able2Execute = u]
          IN v \in ServerState /\ Same(w, v) /\ v.app = w.app
               /\ v.cmd_list = w.cmd_list /\ v.backupRcv = w.backupRcv
    BY AbleFields
  <2>2. /\ z \in ServerState /\ Same(w, z) /\ z.app = w.app
        /\ z.cmd_list = w.cmd_list /\ z.backupRcv = w.backupRcv
    BY <2>1, TRUE \in BOOLEAN, Zenon
  <2>3. srv' = [srv EXCEPT ![p] = z]
    BY <1>15
  <2> HIDE DEF z
  <2>4. /\ Same(old, z) /\ Holds(z) /\ z.cmd_list = old.cmd_list
        /\ z.newBackup # Null => z.backupRcv <= Size(z.newBackup)
    BY <1>5, <1>8, <1>15, <2>2 DEF Same, Holds
  <2>5. Becomes(p, z)
    BY <1>9, <2>2, <2>3, <2>4
  <2> QED
    BY <2>5 DEF z
<1>16. CASE /\ Awaited
            /\ srv' = [srv EXCEPT ![p] = [x EXCEPT !.able2Execute = TRUE]]
            /\ UNCHANGED net
  <2>1. Becomes(p, [x EXCEPT !.able2Execute = TRUE])
    BY <1>5, <1>6, <1>15, <1>16 DEF Same
  <2>2. Send({})
    BY <1>10, <1>16
  <2> QED
    BY <1>1, <1>4, <2>1, <2>2, HandlerKeeps
<1>17. CASE /\ Awaited
            /\ srv' = [srv EXCEPT ![p] = [[x EXCEPT !.app = Execute(@, cmd)]
                                            EXCEPT !.able2Execute = TRUE]]
            /\ Send({Reply(p, r.client, Answer(x.app, cmd))})
  <2> DEFINE w == [x EXCEPT !.app = Execute(@, cmd)]
             res == Answer(x.app, cmd)
  <2>1. /\ w \in ServerState /\ Same(x, w) /\ Holds(w)
        /\ w.cmd_list = x.cmd_list /\ w.backupRcv = x.backupRcv
        /\ res \in AMOResult
    BY <1>5, <1>6, <1>8, <1>17, ExecuteHeld DEF cmd
  <2>2. srv' = [srv EXCEPT ![p] = [w EXCEPT !.able2Execute = TRUE]]
    BY <1>17
  <2> HIDE DEF w, res
  <2>3. Becomes(p, [w EXCEPT !.able2Execute = TRUE])
    BY <1>15, <1>17, <2>1, <2>2
  <2>4. Sound(Reply(p, r.client, res), srv')
    BY <1>1, <1>2, <2>1 DEF Sound, Reply, Message, BackedIn, ClientOrNull
  <2>5. Send({Reply(p, r.client, res)})
    BY <1>17 DEF res
  <2> DEFINE z == [w EXCEPT !.able2Execute = TRUE]
             msg == Reply(p, r.client, res)
  <2> HIDE DEF z, msg
  <2>6. Becomes(p, z) /\ Send({msg}) /\ Sound(msg, srv')
    BY <2>3, <2>4, <2>5 DEF z, msg
  <2> QED
    BY <1>1, <1>4, <2>6, HandlerKeeps
<1> QED
  BY <1>7, <1>13, <1>14, <1>16, <1>17

-----------------------------------------------------------------------------
(* Entering a view *)

\* z is what handleViewReply may make of server s.
EntersAs(s, z) ==
  /\ z \in ServerState
  /\ z.app = srv[s].app /\ z.cmd_list = srv[s].cmd_list
  /\ z.current_view \in issued /\ z.view_num = z.current_view.viewNum
  /\ z.role = RoleIn(s, z.current_view)
  /\ srv[s].view_num <= z.view_num
  /\ z.viewChange => z.role = "BACKUP"
  /\ z.newBackup # Null => z.backupRcv <= Size(z.newBackup)

LEMMA EnteringKeeps ==
  ASSUME IInv, NEW s \in Servers, NEW z, EntersAs(s, z),
         srv' = [srv EXCEPT ![s] = z],
         NEW msgs, Send(msgs), \A m \in msgs : Sound(m, srv),
         UNCHANGED <<view, issued, cl, crashed, accepted>>
  PROVE  IInv'
<1>1. srv \in [Servers -> ServerState] /\ TypeOK
  BY DEF IInv, TypeOK
<1>2. srv' \in [Servers -> ServerState]
  BY <1>1 DEF EntersAs
<1>3. srv'[s] = z /\ \A t \in Servers \ {s} : srv'[t] = srv[t]
  BY <1>1
<1>4. \A t \in Servers : srv'[t].cmd_list = srv[t].cmd_list
                       /\ srv'[t].app = srv[t].app
  BY <1>3 DEF EntersAs
<1>5. net' \in SUBSET Message /\ \A m \in net' : BackedIn(m, srv)
  <2>1. net \in SUBSET Message /\ \A m \in net : BackedIn(m, srv)
    BY DEF IInv, TypeOK, NetBacked, Backed, BackedIn, Size
  <2> QED
    BY <2>1 DEF Send, Sound
<1>6. NetBacked'
  <2> SUFFICES ASSUME NEW m \in net' PROVE Backed(m)'
    BY DEF NetBacked
  <2>1. m \in Message /\ BackedIn(m, srv)
    BY <1>5
  <2>2. CASE m.type = "BackupRequest"
    <3>1. m.from \in Servers
      BY <2>1, <2>2 DEF Message
    <3> QED
      BY <1>4, <2>1, <2>2, <3>1 DEF BackedIn, Backed, Size
  <2>3. CASE m.type = "BackupReply"
    <3>1. m.from \in Servers /\ m.to \in Servers
      BY <2>1, <2>3 DEF Message
    <3> QED
      BY <1>4, <2>1, <2>3, <3>1 DEF BackedIn, Backed, Size
  <2> QED
    BY <2>2, <2>3 DEF Backed
<1>7. CountsBacked'
  <2> SUFFICES ASSUME NEW t \in Servers, srv'[t].newBackup # Null
               PROVE  srv'[t].backupRcv <= Len(srv'[srv'[t].newBackup].cmd_list)
    BY DEF CountsBacked, Size
  <2>1. srv'[t].newBackup \in Servers
    BY <1>2 DEF ServerState, ServerOrNull
  <2>2. srv'[t].backupRcv <= Len(srv[srv'[t].newBackup].cmd_list)
    BY <1>3 DEF EntersAs, IInv, CountsBacked, Size
  <2> QED
    BY <1>4, <2>1, <2>2
<1>8. ViewsOK'
  BY DEF IInv, ViewsOK, ViewOK
<1>9. RolesOK'
  BY <1>3 DEF IInv, RolesOK, RoleIn, EntersAs
<1>10. LeftViewsEntered'
  <2> SUFFICES ASSUME NEW v \in issued, 0 < v.viewNum, v.viewNum < view.viewNum
               PROVE  srv'[v.primary].view_num >= v.viewNum
    BY DEF LeftViewsEntered
  <2>1. v.primary \in Servers /\ v.viewNum \in Nat
    BY <1>1 DEF IInv, ViewsOK, ViewOK, TypeOK, View, ServerOrNull
  <2>2. /\ srv[v.primary].view_num \in Nat /\ srv'[v.primary].view_num \in Nat
        /\ srv[v.primary].view_num <= srv'[v.primary].view_num
    BY <1>1, <1>2, <1>3, <2>1 DEF ServerState, EntersAs
  <2>3. srv[v.primary].view_num >= v.viewNum
    BY DEF IInv, LeftViewsEntered
  <2> QED
    BY <2>1, <2>2, <2>3
<1>11. ViewChangeOnlyInBackup'
  BY <1>3 DEF IInv, ViewChangeOnlyInBackup, EntersAs
<1>12. ListHoldsLog'
  BY <1>4 DEF IInv, ListHoldsLog
<1> QED
  BY <1>2, <1>5, <1>6, <1>7, <1>8, <1>9, <1>10, <1>11, <1>12
     DEF IInv, TypeOK, OutstandingOK

\* What Enter leaves of the fields, and what it makes of the counts.
LEMMA EnterFields ==
  ASSUME NEW s \in Servers, NEW v \in View, srv[s] \in ServerState
  PROVE  LET x == Enter(s, v)
         IN  /\ x \in ServerState /\ x.role = RoleIn(s, v)
             /\ x.app = srv[s].app /\ x.cmd_list = srv[s].cmd_list
             /\ \/ x.backupRcv = 0
                \/ /\ x.backupRcv = srv[s].backupRcv
                   /\ x.newBackup = srv[s].newBackup
             /\ NewBackup(s, v) => x.backupRcv = 0
<1> DEFINE x == [srv[s] EXCEPT !.role = RoleIn(s, v)]
           n == [x EXCEPT !.newBackup = v.backup]
<1>1. RoleIn(s, v) \in Role /\ v.backup \in ServerOrNull
  BY DEF RoleIn, Role, View
<1>2. /\ x \in ServerState /\ x.role = RoleIn(s, v)
      /\ x.app = srv[s].app /\ x.cmd_list = srv[s].cmd_list
      /\ x.backupRcv = srv[s].backupRcv /\ x.newBackup = srv[s].newBackup
  BY <1>1 DEF ServerState
<1>3. /\ n \in ServerState /\ n.role = x.role
      /\ n.app = x.app /\ n.cmd_list = x.cmd_list
  BY <1>1, <1>2 DEF ServerState
<1> DEFINE a == [ResetStates(x) EXCEPT !.able2Execute = TRUE]
<1>4. Enter(s, v) \in {ResetStates(x), a, ResetStates(n), x}
  BY DEF Enter
<1>5. NewBackup(s, v) => Enter(s, v) = ResetStates(n)
  BY DEF Enter, NewBackup
<1> HIDE DEF x, n
<1>6. /\ ResetStates(x) \in ServerState /\ Same(x, ResetStates(x))
      /\ ResetStates(x).app = x.app /\ ResetStates(x).cmd_list = x.cmd_list
      /\ ResetStates(x).backupRcv = 0
  BY <1>2, ResetFields
<1>7. /\ ResetStates(n) \in ServerState /\ Same(n, ResetStates(n))
      /\ ResetStates(n).app = n.app /\ ResetStates(n).cmd_list = n.cmd_list
      /\ ResetStates(n).backupRcv = 0
  BY <1>3, ResetFields
<1>8. \A u \in BOOLEAN : LET w == [ResetStates(x) EXCEPT !.able2Execute = u]
        IN w \in ServerState /\ Same(ResetStates(x), w)
             /\ w.app = ResetStates(x).app
             /\ w.cmd_list = ResetStates(x).cmd_list
             /\ w.backupRcv = ResetStates(x).backupRcv
  BY <1>6, AbleFields
<1>9. /\ a \in ServerState /\ Same(ResetStates(x), a)
      /\ a.app = ResetStates(x).app /\ a.cmd_list = ResetStates(x).cmd_list
      /\ a.backupRcv = ResetStates(x).backupRcv
  BY <1>8, TRUE \in BOOLEAN, Zenon
<1> HIDE DEF a
<1> QED
  BY <1>2, <1>3, <1>4, <1>5, <1>6, <1>7, <1>9 DEF Same

LEMMA EnteredFields ==
  ASSUME NEW y \in ServerState, NEW v \in View
  PROVE  LET z == Entered(y, v)
         IN  /\ z \in ServerState /\ z.role = y.role
             /\ z.app = y.app /\ z.cmd_list = y.cmd_list
             /\ z.backupRcv = y.backupRcv /\ z.newBackup = y.newBackup
             /\ z.current_view = v /\ z.view_num = v.viewNum /\ ~z.viewChange
             /\ z.able2Execute = y.able2Execute
<1>1. v.viewNum \in Nat
  BY DEF View
<1> QED
  BY <1>1 DEF Entered, ServerState

\* Server s goes on in its view or enters v.
EntersOrStays(s, v) ==
  \E n \in {srv[s].view_num, v.viewNum} :
    \A t \in Servers :
      srv'[t].view_num = IF t = s THEN n ELSE srv[t].view_num

LEMMA HandleViewReplyKeeps ==
  ASSUME IInv, NEW s \in Servers, NEW v \in issued, HandleViewReply(s, v)
  PROVE  IInv' /\ EntersOrStays(s, v)
<1> DEFINE old == srv[s]
           x == Enter(s, v)
           y == IF NewBackup(s, v) THEN AfterBackupNext(x) ELSE x
           brs == Starts(s, v)
           msgs == {ToBackup(s, x.newBackup, br) : br \in brs}
<1>1. /\ srv \in [Servers -> ServerState] /\ old \in ServerState
      /\ v \in View /\ v.viewNum \in Nat /\ old.view_num \in Nat
      /\ \A t \in Servers : Size(t) \in Nat
  BY SizeType DEF IInv, TypeOK, ServerState, View
<1>2. old.view_num <= v.viewNum
  BY <1>1 DEF HandleViewReply, Newer
<1>3. UNCHANGED <<view, issued, cl, crashed, accepted>>
  BY DEF HandleViewReply
<1>4. \/ /\ Refuses(s, v) /\ UNCHANGED net
         /\ srv' = [srv EXCEPT ![s].viewChange = TRUE]
      \/ srv' = [srv EXCEPT ![s] = Entered(y, v)] /\ Send(msgs)
  BY DEF HandleViewReply
<1>5. old.newBackup # Null => old.backupRcv <= Size(old.newBackup)
  BY DEF IInv, CountsBacked
<1>6. CASE /\ Refuses(s, v) /\ UNCHANGED net
           /\ srv' = [srv EXCEPT ![s].viewChange = TRUE]
  <2> DEFINE z == [old EXCEPT !.viewChange = TRUE]
  <2>1. \A u \in BOOLEAN : LET w == [old EXCEPT !.viewChange = u]
          IN /\ w \in ServerState /\ w.role = old.role
             /\ w.app = old.app /\ w.cmd_list = old.cmd_list
             /\ w.current_view = old.current_view /\ w.view_num = old.view_num
             /\ w.newBackup = old.newBackup /\ w.backupRcv = old.backupRcv
    BY <1>1 DEF ServerState
  <2>2. /\ z \in ServerState /\ z.role = old.role
        /\ z.app = old.app /\ z.cmd_list = old.cmd_list
        /\ z.current_view = old.current_view /\ z.view_num = old.view_num
        /\ z.newBackup = old.newBackup /\ z.backupRcv = old.backupRcv
    BY <2>1, TRUE \in BOOLEAN, Zenon
  <2>3. srv' = [srv EXCEPT ![s] = z]
    BY <1>6
  <2> HIDE DEF z
  <2>4. z.role = "BACKUP"
    BY <1>6, <2>2 DEF Refuses
  <2>5. EntersAs(s, z)
    <3>1. /\ old.current_view \in issued
          /\ old.role = RoleIn(s, old.current_view)
          /\ old.view_num = old.current_view.viewNum
      BY DEF IInv, RolesOK
    <3>2. /\ z.current_view \in issued /\ z.role = RoleIn(s, z.current_view)
          /\ z.view_num = z.current_view.viewNum /\ old.view_num <= z.view_num
      BY <1>1, <2>2, <3>1
    <3> QED
      BY <1>5, <2>2, <2>4, <3>2 DEF EntersAs
  <2>6. Send({})
    BY <1>6 DEF Send
  <2>7. EntersOrStays(s, v)
    BY <1>1, <2>2, <2>3 DEF EntersOrStays
  <2> QED
    BY <1>3, <2>3, <2>5, <2>6, <2>7, EnteringKeeps
<1>7. CASE srv' = [srv EXCEPT ![s] = Entered(y, v)] /\ Send(msgs)
  <2> DEFINE z == Entered(y, v)
  <2>1. /\ x \in ServerState /\ x.role = RoleIn(s, v)
        /\ x.app = old.app /\ x.cmd_list = old.cmd_list
        /\ \/ x.backupRcv = 0
           \/ x.backupRcv = old.backupRcv /\ x.newBackup = old.newBackup
        /\ NewBackup(s, v) => x.backupRcv = 0
    BY <1>1, EnterFields
  <2> HIDE DEF x
  <2>2. /\ y \in ServerState /\ y.role = x.role
        /\ y.app = x.app /\ y.cmd_list = x.cmd_list
        /\ y.backupRcv = x.backupRcv /\ y.newBackup = x.newBackup
    BY <2>1, NextFields DEF Same
  <2> HIDE DEF y
  <2>3. /\ z \in ServerState /\ z.role = y.role
        /\ z.app = y.app /\ z.cmd_list = y.cmd_list
        /\ z.backupRcv = y.backupRcv /\ z.newBackup = y.newBackup
        /\ z.current_view = v /\ z.view_num = v.viewNum /\ ~z.viewChange
    BY <1>1, <2>2, EnteredFields
  <2>4. srv' = [srv EXCEPT ![s] = z]
    BY <1>7
  <2> HIDE DEF z
  <2>5. x.newBackup \in ServerOrNull
    BY <2>1 DEF ServerState
  <2>6. z.newBackup # Null => z.backupRcv <= Size(z.newBackup)
    BY <1>1, <1>5, <2>1, <2>2, <2>3, <2>5 DEF ServerOrNull
  <2>7. EntersAs(s, z)
    BY <1>1, <1>2, <2>1, <2>2, <2>3, <2>6 DEF EntersAs
  <2>8. ASSUME NEW br \in brs
        PROVE  Sound(ToBackup(s, x.newBackup, br), srv)
    <3>1. br \in Transfers(x) /\ x.backupRcv = 0
      BY <2>1 DEF Starts, x
    <3>2. x.backupRcv <= Len(x.cmd_list)
      BY <1>1, <2>1, <3>1 DEF Size
    <3>3. br \in BackupRequest /\ br.currentNum <= Len(x.cmd_list)
      BY <2>1, <3>1, <3>2, TransfersType
    <3> QED
      BY <2>1, <2>5, <3>3 DEF Sound, ToBackup, Message, BackedIn, ServerOrNull
  <2> HIDE DEF brs
  <2>9. \A m \in msgs : Sound(m, srv)
    BY <2>8
  <2> HIDE DEF msgs
  <2>10. EntersOrStays(s, v)
    BY <1>1, <2>3, <2>4 DEF EntersOrStays
  <2> QED
    BY <1>3, <1>7, <2>4, <2>7, <2>9, <2>10, EnteringKeeps
<1> QED
  BY <1>4, <1>6, <1>7

-----------------------------------------------------------------------------
(* The view service, crashes, timers and clients *)

LEMMA FormViewKeeps ==
  ASSUME IInv, FormView
  PROVE  IInv'
<1> DEFINE N == view.viewNum
<1>1. /\ view \in View /\ N \in Nat /\ issued \in SUBSET View
      /\ view.primary \in ServerOrNull /\ view.backup \in ServerOrNull
  BY DEF IInv, TypeOK, View
<1>2. /\ UNCHANGED <<srv, cl, net, crashed, accepted>>
      /\ issued' = issued \cup {view'}
      /\ Service!Advance
  BY DEF FormView
<1>3. PICK p \in ServerOrNull, b \in ServerOrNull :
        /\ view' = [viewNum |-> N + 1, primary |-> p, backup |-> b]
        /\ p # Null /\ p # b
        /\ N > 0 => p \in {view.primary, view.backup}
  <2>1. view' \in Service!Successors(view)
    BY <1>2 DEF Service!Advance
  <2>2. CASE N = 0
    <3>1. PICK p \in Servers :
            view' = [viewNum |-> N + 1, primary |-> p, backup |-> Null]
      BY <2>1, <2>2 DEF Service!Successors
    <3>2. p # Null /\ p \in ServerOrNull /\ Null \in ServerOrNull
      BY PrimaryBackupAssumption DEF ServerOrNull
    <3> QED
      BY <2>2, <3>1, <3>2
  <2>3. CASE N # 0
    <3>1. PICK p \in {view.primary, view.backup} \ {Null},
               b \in Service!Newcomers(view) :
            view' = [viewNum |-> N + 1, primary |-> p, backup |-> b]
      BY <2>1, <2>3 DEF Service!Successors
    <3>2. b \in ServerOrNull /\ p # b
      BY DEF Service!Newcomers, ServerOrNull
    <3> QED
      BY <1>1, <3>1, <3>2
  <2> QED
    BY <2>2, <2>3
<1>4. view' \in View /\ view'.viewNum = N + 1 /\ N + 1 \in Nat
  BY <1>1, <1>3 DEF View
<1>5. \A v \in issued : v.viewNum \in Nat /\ v.viewNum <= N /\ ViewOK(v)
  BY <1>1 DEF IInv, ViewsOK, ViewOK, View
<1>6. ViewsOK'
  <2>1. view' \in issued'
    BY <1>2
  <2>2. ASSUME NEW v \in issued' PROVE ViewOK(v)'
    <3>1. CASE v \in issued
      BY <1>1, <1>4, <1>5, <3>1 DEF ViewOK
    <3>2. CASE v = view'
      BY <1>1, <1>3, <1>4, <3>2 DEF ViewOK
    <3> QED
      BY <1>2, <3>1, <3>2
  <2>3. \A v, w \in issued' : v.viewNum = w.viewNum => v = w
    BY <1>1, <1>2, <1>4, <1>5 DEF IInv, ViewsOK
  <2>4. ASSUME NEW v \in issued', 0 < v.viewNum, v.viewNum < N + 1
        PROVE  \E w \in issued' : /\ w.viewNum = v.viewNum + 1
                                 /\ w.primary \in {v.primary, v.backup}
    <3>1. v \in issued
      BY <1>1, <1>2, <1>4, <2>4
    <3>2. CASE v.viewNum = N
      <4>1. v = view
        BY <3>1, <3>2 DEF IInv, ViewsOK
      <4> QED
        BY <1>2, <1>3, <2>4, <4>1
    <3>3. CASE v.viewNum < N
      BY <1>2, <2>4, <3>1, <3>3 DEF IInv, ViewsOK
    <3> QED
      BY <1>1, <1>5, <3>1, <3>2, <3>3
  <2> QED
    BY <1>4, <2>1, <2>2, <2>3, <2>4 DEF ViewsOK
<1>7. RolesOK'
  BY <1>2 DEF IInv, RolesOK, RoleIn
<1>8. LeftViewsEntered'
  <2> SUFFICES ASSUME NEW v \in issued', 0 < v.viewNum, v.viewNum < N + 1
               PROVE  srv[v.primary].view_num >= v.viewNum
    BY <1>2, <1>4 DEF LeftViewsEntered
  <2>1. v \in issued
    BY <1>1, <1>2, <1>4
  <2>2. CASE v.viewNum = N
    <3>1. v = view /\ view.primary \in Servers
      BY <1>1, <2>1, <2>2 DEF IInv, ViewsOK, ViewOK, ServerOrNull
    <3>2. srv[view.primary].view_num = N
      BY <1>1, <1>2, <2>2, <3>1 DEF Service!Advance
    <3> QED
      BY <1>1, <2>2, <3>1, <3>2
  <2>3. CASE v.viewNum < N
    BY <2>1, <2>3 DEF IInv, LeftViewsEntered
  <2> QED
    BY <1>1, <1>5, <2>1, <2>2, <2>3
<1> QED
  BY <1>1, <1>2, <1>4, <1>6, <1>7, <1>8
     DEF IInv, TypeOK, NetBacked, Backed, Size, CountsBacked,
         ViewChangeOnlyInBackup, ListHoldsLog, OutstandingOK

\* Steps that leave the servers, the views and the network alone.
LEMMA OtherKeeps ==
  ASSUME IInv, UNCHANGED <<view, issued, srv, net>>,
         cl' \in [Clients -> ClientState], OutstandingOK',
         crashed' \in SUBSET Servers, accepted' \in SUBSET AMOResult
  PROVE  IInv'
  BY DEF IInv, TypeOK, NetBacked, Backed, Size, CountsBacked, ViewsOK, ViewOK,
         RolesOK, RoleIn, LeftViewsEntered, ViewChangeOnlyInBackup, ListHoldsLog

LEMMA CrashKeeps ==
  ASSUME IInv, NEW s \in Servers, Crash(s)
  PROVE  IInv'
<1>1. /\ crashed' \in SUBSET Servers
      /\ UNCHANGED <<view, issued, srv, cl, net, accepted>>
  BY DEF Crash, IInv, TypeOK
<1> QED
  BY <1>1, OtherKeeps DEF IInv, TypeOK, OutstandingOK

LEMMA OnBackupTimerKeeps ==
  ASSUME IInv, NEW m \in net, m.type = "BackupRequest",
         OnBackupTimer(m.from, m.body)
  PROVE  IInv'
<1> DEFINE to == srv[m.from].newBackup
           msg == ToBackup(m.from, to, m.body)
<1>1. m \in Message /\ BackedIn(m, srv)
  BY DEF IInv, TypeOK, NetBacked, Backed, BackedIn, Size
<1>2. m.from \in Servers /\ m.body \in BackupRequest
  BY <1>1 DEF Message
<1>3. to \in ServerOrNull
  BY <1>2 DEF IInv, TypeOK, ServerState
<1>4. Sound(msg, srv)
  BY <1>1, <1>2, <1>3 DEF Sound, ToBackup, Message, ServerOrNull, BackedIn
<1>5. Send({msg}) /\ UNCHANGED <<view, issued, srv, cl, crashed, accepted>>
  BY DEF OnBackupTimer
<1> HIDE DEF msg
<1>6. cl' \in [Clients -> ClientState] /\ OutstandingOK'
  BY <1>5 DEF IInv, TypeOK, OutstandingOK
<1> QED
  BY <1>4, <1>5, <1>6, SendingKeeps

\* A client's command, to the server it takes for primary.
LEMMA RequestSound ==
  ASSUME TypeOK, NEW c \in Clients, NEW n \in Nat, n > 0
  PROVE  Sound(Request([addr |-> c, sequenceNum |-> n], cl[c].server), srv)
<1>1. cl[c].server \in ServerOrNull
  BY DEF TypeOK, ClientState
<1>2. [addr |-> c, sequenceNum |-> n] \in AMOCommand
  BY DEF AMOCommand
<1> QED
  BY <1>1, <1>2 DEF Sound, Request, Message, ServerOrNull, BackedIn

LEMMA SendCommandKeeps ==
  ASSUME IInv, NEW c \in Clients, SendCommand(c)
  PROVE  IInv'
<1> DEFINE n == cl[c].sequenceNum + 1
           msg == Request([addr |-> c, sequenceNum |-> n], cl[c].server)
<1>1. /\ cl \in [Clients -> ClientState] /\ n \in Nat /\ n > 0 /\ TypeOK
  BY DEF IInv, TypeOK, ClientState
<1>2. Sound(msg, srv)
  BY <1>1, RequestSound
<1>3. /\ Send({msg}) /\ UNCHANGED <<view, issued, srv, crashed, accepted>>
      /\ cl' = [cl EXCEPT ![c].sequenceNum = n, ![c].received = FALSE]
  BY DEF SendCommand
<1> HIDE DEF n
<1>4. cl' \in [Clients -> ClientState]
  BY <1>1, <1>3, FALSE \in BOOLEAN DEF ClientState
<1>5. OutstandingOK'
  BY <1>1, <1>3 DEF OutstandingOK, IInv, ClientState
<1> HIDE DEF msg
<1> QED
  BY <1>2, <1>3, <1>4, <1>5, SendingKeeps

LEMMA OnClientTimerKeeps ==
  ASSUME IInv, NEW c \in Clients, OnClientTimer(c)
  PROVE  IInv'
<1> DEFINE n == cl[c].sequenceNum
           msg == Request([addr |-> c, sequenceNum |-> n], cl[c].server)
<1>1. n \in Nat /\ n > 0 /\ TypeOK
  BY DEF OnClientTimer, IInv, TypeOK, ClientState, OutstandingOK
<1>2. Sound(msg, srv)
  BY <1>1, RequestSound
<1>3. Send({msg}) /\ UNCHANGED <<view, issued, srv, cl, crashed, accepted>>
  BY DEF OnClientTimer
<1> HIDE DEF msg
<1>4. cl' \in [Clients -> ClientState] /\ OutstandingOK'
  BY <1>3 DEF IInv, TypeOK, OutstandingOK
<1> QED
  BY <1>2, <1>3, <1>4, SendingKeeps

LEMMA ClientHandleViewReplyKeeps ==
  ASSUME IInv, NEW c \in Clients, NEW v \in issued, ClientHandleViewReply(c, v)
  PROVE  IInv'
<1>1. v \in View /\ v.viewNum \in Nat /\ v.primary \in ServerOrNull
  BY DEF IInv, TypeOK, View
<1>2. cl' = [cl EXCEPT ![c].viewNum = v.viewNum, ![c].server = v.primary]
  BY DEF ClientHandleViewReply
<1>3. cl' \in [Clients -> ClientState]
  BY <1>1, <1>2 DEF IInv, TypeOK, ClientState
<1>4. OutstandingOK'
  BY <1>2 DEF IInv, TypeOK, ClientState, OutstandingOK
<1> QED
  BY <1>3, <1>4, OtherKeeps DEF ClientHandleViewReply, IInv, TypeOK

LEMMA HandleReplyKeeps ==
  ASSUME IInv, NEW m \in net, HandleReply(m)
  PROVE  IInv'
<1>1. m \in Message /\ m.type = "Reply"
  BY DEF HandleReply, IInv, TypeOK
<1>2. m.to \in Clients /\ m.result \in AMOResult
  BY <1>1 DEF Message
<1>3. /\ cl' = [cl EXCEPT ![m.to].received = TRUE]
      /\ accepted' = accepted \cup {m.result}
      /\ UNCHANGED <<view, issued, srv, net, crashed>>
  BY DEF HandleReply
<1>4. cl' \in [Clients -> ClientState]
  BY <1>2, <1>3, TRUE \in BOOLEAN DEF IInv, TypeOK, ClientState
<1>5. OutstandingOK'
  BY <1>2, <1>3 DEF IInv, TypeOK, ClientState, OutstandingOK
<1> QED
  BY <1>2, <1>3, <1>4, <1>5, OtherKeeps DEF IInv, TypeOK

-----------------------------------------------------------------------------
(* The invariant, and what it says of every execution *)

LEMMA InitInv == Init => IInv
<1> SUFFICES ASSUME Init PROVE IInv
  OBVIOUS
<1>1. /\ StartupView \in View /\ StartupView.viewNum = 0
      /\ StartupView.primary = Null
  BY DEF StartupView, View, ServerOrNull
<1>2. NewApplication \in AMOApplication /\ NewApplication.log = <<>>
  <2>1. NoResult \in AMOResult
    BY DEF NoResult, AMOResult, Log
  <2> QED
    BY <2>1 DEF NewApplication, AMOApplication, Log
<1>3. /\ ServerInit \in ServerState /\ ServerInit.role = "IDLE"
      /\ ServerInit.current_view = StartupView /\ ServerInit.view_num = 0
      /\ ServerInit.newBackup = Null /\ ServerInit.app.log = <<>>
      /\ ~ServerInit.viewChange
  BY <1>1, <1>2 DEF ServerInit, ServerState, Role, ServerOrNull, Log
<1>4. /\ view = StartupView /\ issued = {StartupView} /\ net = {}
      /\ crashed = {} /\ accepted = {}
      /\ srv = [s \in Servers |-> ServerInit]
      /\ cl = [c \in Clients |-> ClientInit]
  BY DEF Init
<1>5. ClientInit \in ClientState /\ ClientInit.received
  BY DEF ClientInit, ClientState, ServerOrNull
<1> HIDE DEF Init
<1>6. TypeOK
  BY <1>1, <1>3, <1>4, <1>5 DEF TypeOK
<1>7. NetBacked /\ CountsBacked
  BY <1>3, <1>4 DEF NetBacked, CountsBacked
<1>8. ViewsOK /\ LeftViewsEntered
  BY <1>1, <1>4 DEF ViewsOK, ViewOK, LeftViewsEntered
<1>9. RolesOK
  <2>1. \A s \in Servers : RoleIn(s, StartupView) = "IDLE"
    BY PrimaryBackupAssumption DEF RoleIn, StartupView
  <2> QED
    BY <1>1, <1>3, <1>4, <2>1 DEF RolesOK
<1>10. ViewChangeOnlyInBackup /\ ListHoldsLog /\ OutstandingOK
  BY <1>3, <1>4, <1>5
     DEF ViewChangeOnlyInBackup, ListHoldsLog, Contents, OutstandingOK
<1> QED
  BY <1>6, <1>7, <1>8, <1>9, <1>10 DEF IInv

LEMMA NextInv == IInv /\ [Next]_vars => IInv'
<1> SUFFICES ASSUME IInv, [Next]_vars PROVE IInv'
  OBVIOUS
<1>1. CASE FormView
  BY <1>1, FormViewKeeps
<1>2. ASSUME NEW m \in net, HandleRequest(m) PROVE IInv'
  BY <1>2, HandleRequestKeeps
<1>3. ASSUME NEW m \in net, HandleBackupRequest(m) PROVE IInv'
  BY <1>3, HandleBackupRequestKeeps
<1>4. ASSUME NEW m \in net, HandleBackupReply(m) PROVE IInv'
  BY <1>4, HandleBackupReplyKeeps
<1>5. ASSUME NEW m \in net, m.type = "BackupRequest",
             OnBackupTimer(m.from, m.body)
      PROVE  IInv'
  BY <1>5, OnBackupTimerKeeps
<1>6. ASSUME NEW m \in net, HandleReply(m) PROVE IInv'
  BY <1>6, HandleReplyKeeps
<1>7. ASSUME NEW s \in Servers, Crash(s) PROVE IInv'
  BY <1>7, CrashKeeps
<1>8. ASSUME NEW s \in Servers, NEW v \in issued, HandleViewReply(s, v)
      PROVE  IInv'
  BY <1>8, HandleViewReplyKeeps
<1>9. ASSUME NEW c \in Clients, SendCommand(c) PROVE IInv'
  BY <1>9, SendCommandKeeps
<1>10. ASSUME NEW c \in Clients, OnClientTimer(c) PROVE IInv'
  BY <1>10, OnClientTimerKeeps
<1>11. ASSUME NEW c \in Clients, NEW v \in issued, ClientHandleViewReply(c, v)
       PROVE  IInv'
  BY <1>11, ClientHandleViewReplyKeeps
<1>12. CASE UNCHANGED vars
  BY <1>12, OtherKeeps DEF vars, IInv, TypeOK, OutstandingOK
<1> QED
  BY <1>1, <1>2, <1>3, <1>4, <1>5, <1>6, <1>7, <1>8, <1>9, <1>10, <1>11, <1>12
     DEF Next

LEMMA Invariant == Spec => []IInv
<1> QED
  BY InitInv, NextInv, PTL DEF Spec

\* TypeOK, whatever is sent and however often it arrives.
THEOREM TypeCorrect == Spec => []TypeOK
<1>1. IInv => TypeOK
  BY DEF IInv
<1> QED
  BY <1>1, Invariant, PTL

\* lab2 README, "only one primary be active": of two servers in the role of
\* primary, the one that missed the newest view is refused by its backup.
THEOREM OneActive == Spec => []OnePrimaryActive
<1>1. IInv => OnePrimaryActive
  BY InvImplies
<1> QED
  BY <1>1, Invariant, PTL

\* backupRcv never runs ahead of the cmd_list of the backup it speaks of.
THEOREM Confirmed == Spec => []ConfirmedIsHeld
<1>1. IInv => ConfirmedIsHeld
  BY InvImplies
<1> QED
  BY <1>1, Invariant, PTL

\* The tests of viewChange in handleBackupReply and onBackupTimer never fire.
THEOREM ChangeOnlyInBackup == Spec => []ViewChangeOnlyInBackup
<1>1. IInv => ViewChangeOnlyInBackup
  BY DEF IInv
<1> QED
  BY <1>1, Invariant, PTL

\* Every command a server has executed is in the list it would bring a new
\* backup up to date from.
THEOREM ListComplete == Spec => []ListHoldsLog
<1>1. IInv => ListHoldsLog
  BY DEF IInv
<1> QED
  BY <1>1, Invariant, PTL

-----------------------------------------------------------------------------
(* Servers enter views as the view service assumes *)

LEMMA ServiceStutters ==
  ASSUME SameViews, UNCHANGED view
  PROVE  UNCHANGED Service!vars
  BY DEF SameViews, Service!vars

LEMMA HandleViewReplyEnters ==
  ASSUME IInv, NEW s \in Servers, NEW v \in issued, HandleViewReply(s, v)
  PROVE  Service!Next \/ UNCHANGED Service!vars
<1>1. EntersOrStays(s, v) /\ UNCHANGED view
  BY HandleViewReplyKeeps DEF HandleViewReply
<1>2. PICK n \in {srv[s].view_num, v.viewNum} :
        \A t \in Servers :
          srv'[t].view_num = IF t = s THEN n ELSE srv[t].view_num
  BY <1>1 DEF EntersOrStays
<1>3. CASE n = srv[s].view_num
  BY <1>1, <1>2, <1>3, ServiceStutters DEF SameViews
<1>4. CASE n = v.viewNum
  <2>1. /\ srv[s].view_num \in Nat /\ v.viewNum \in Nat /\ view.viewNum \in Nat
        /\ v.viewNum <= view.viewNum
    BY DEF IInv, TypeOK, ServerState, View, ViewsOK, ViewOK
  <2>2. n \in (srv[s].view_num + 1)..view.viewNum
    BY <1>4, <2>1 DEF HandleViewReply, Newer
  <2>3. [t \in Servers |-> srv'[t].view_num]
          = [[t \in Servers |-> srv[t].view_num] EXCEPT ![s] = n]
    BY <1>2
  <2>4. Service!Enter(s)
    BY <1>1, <2>2, <2>3 DEF Service!Enter
  <2> QED
    BY <2>4 DEF Service!Next
<1> QED
  BY <1>3, <1>4

LEMMA ServiceInit == Init => Service!Init
  BY DEF Init, Service!Init, ServerInit, StartupView

LEMMA ServiceNext ==
  IInv /\ [Next]_vars => [Service!Next]_(Service!vars)
<1> SUFFICES ASSUME IInv, [Next]_vars
             PROVE  Service!Next \/ UNCHANGED Service!vars
  OBVIOUS
<1>1. CASE FormView
  BY <1>1 DEF FormView, Service!Next
<1>2. ASSUME NEW m \in net, HandleRequest(m) PROVE SameViews /\ UNCHANGED view
  BY <1>2, HandleRequestKeeps DEF HandleRequest
<1>3. ASSUME NEW m \in net, HandleBackupRequest(m)
      PROVE  SameViews /\ UNCHANGED view
  BY <1>3, HandleBackupRequestKeeps DEF HandleBackupRequest
<1>4. ASSUME NEW m \in net, HandleBackupReply(m)
      PROVE  SameViews /\ UNCHANGED view
  BY <1>4, HandleBackupReplyKeeps DEF HandleBackupReply
<1>5. ASSUME NEW s \in Servers, NEW v \in issued, HandleViewReply(s, v)
      PROVE  Service!Next \/ UNCHANGED Service!vars
  BY <1>5, HandleViewReplyEnters
<1>6. ASSUME UNCHANGED <<view, srv>> PROVE SameViews /\ UNCHANGED view
  BY <1>6 DEF SameViews
<1>7. ASSUME NEW m \in net,
             OnBackupTimer(m.from, m.body) \/ HandleReply(m)
      PROVE  UNCHANGED <<view, srv>>
  BY <1>7 DEF OnBackupTimer, HandleReply
<1>8. ASSUME NEW s \in Servers, Crash(s) PROVE UNCHANGED <<view, srv>>
  BY <1>8 DEF Crash
<1>9. ASSUME NEW c \in Clients, SendCommand(c) \/ OnClientTimer(c)
      PROVE  UNCHANGED <<view, srv>>
  BY <1>9 DEF SendCommand, OnClientTimer
<1>10. ASSUME NEW c \in Clients, NEW v \in issued, ClientHandleViewReply(c, v)
       PROVE  UNCHANGED <<view, srv>>
  BY <1>10 DEF ClientHandleViewReply
<1>11. CASE UNCHANGED vars
  BY <1>11, <1>6, ServiceStutters DEF vars
<1> QED
  BY <1>1, <1>2, <1>3, <1>4, <1>5, <1>6, <1>7, <1>8, <1>9, <1>10, <1>11,
     ServiceStutters DEF Next

\* The servers are the clients that the view service takes them for: each
\* enters views that were formed, and only newer ones.
THEOREM Implements == Spec => ImplementsService
<1>1. Spec => Service!Spec
  BY ServiceInit, ServiceNext, Invariant, PTL DEF Spec, Service!Spec
<1> QED
  BY <1>1 DEF ImplementsService
=============================================================================

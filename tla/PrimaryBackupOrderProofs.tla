---------------------- MODULE PrimaryBackupOrderProofs ----------------------
(***************************************************************************)
(* Theorems about the order of commands, whatever views are formed and     *)
(* whoever is left out of them: what a backup holds stays the beginning of *)
(* what its primary holds, unless the backup came back with a list of its  *)
(* own; a command is executed once and answered to its own client; answers *)
(* are linearizable until another server leads.                            *)
(***************************************************************************)
EXTENDS PrimaryBackupProofs

\* A view without a primary has no backup.
NoLoneBackup == \A v \in issued : v.primary = Null => v.backup = Null

\* A server that holds commands has had a part in a view by now.
HeldSince ==
  \A s \in Servers : srv[s].cmd_list # <<>> =>
    \E u \in issued :
      u.viewNum <= srv[s].view_num /\ s \in {u.primary, u.backup}

\* So a server that is backup in its first view came to it with no command, and
\* holds what that primary has sent it.
Following ==
  \A b \in Servers : srv[b].role = "BACKUP" /\ ~Returned(b) =>
    Begins(b, srv[b].current_view.primary)

\* A forwarded command is the one its sender holds under that number.
Listed(m) ==
  m.type = "BackupRequest" =>
    m.body.command = srv[m.from].cmd_list[m.body.currentNum]

NetListed == \A m \in net : Listed(m)

OrderInv == NoLoneBackup /\ HeldSince /\ Following /\ NetListed

\* What BackupFollows asks of a step.
StepFollows ==
  \A p, b \in Servers :
    (srv'[b].role = "BACKUP" /\ srv'[b].current_view.primary = p)
      => \/ Begins(b, p)'
         \/ Returned(b)' /\ ~Begins(b, p)

-----------------------------------------------------------------------------
(* Lists that grow at their ends *)

LEMMA PrefixRefl ==
  ASSUME NEW u \in Log
  PROVE  IsPrefixOf(u, u) /\ IsPrefixOf(<<>>, u)
  BY DEF Log, IsPrefixOf

LEMMA PrefixAppend ==
  ASSUME NEW u \in Log, NEW cmd \in AMOCommand
  PROVE  IsPrefixOf(u, Append(u, cmd))
<1>1. Len(u) \in Nat
  BY DEF Log
<1> QED
  BY <1>1, AppendLog DEF IsPrefixOf

LEMMA PrefixTrans ==
  ASSUME NEW u \in Log, NEW v \in Log, NEW w \in Log,
         IsPrefixOf(u, v), IsPrefixOf(v, w)
  PROVE  IsPrefixOf(u, w)
<1>1. /\ Len(u) \in Nat /\ Len(v) \in Nat /\ Len(w) \in Nat
      /\ DOMAIN u = 1..Len(u) /\ DOMAIN v = 1..Len(v)
  BY DEF Log
<1> QED
  BY <1>1 DEF IsPrefixOf

LEMMA PrefixNext ==
  ASSUME NEW u \in Log, NEW v \in Log, NEW cmd \in AMOCommand,
         IsPrefixOf(u, v), Len(u) < Len(v), cmd = v[Len(u) + 1]
  PROVE  IsPrefixOf(Append(u, cmd), v)
<1>1. Len(u) \in Nat /\ Len(v) \in Nat /\ DOMAIN u = 1..Len(u)
  BY DEF Log
<1>2. Append(u, cmd) \in Log /\ Len(Append(u, cmd)) = Len(u) + 1
  BY AppendLog
<1>3. DOMAIN Append(u, cmd) = 1..(Len(u) + 1)
  BY <1>2 DEF Log
<1>4. ASSUME NEW i \in 1..(Len(u) + 1) PROVE Append(u, cmd)[i] = v[i]
  <2>1. CASE i = Len(u) + 1
    BY <2>1, AppendLog
  <2>2. CASE i # Len(u) + 1
    <3>1. i \in DOMAIN u
      BY <1>1, <2>2
    <3> QED
      BY <3>1, AppendLog DEF IsPrefixOf
  <2> QED
    BY <2>1, <2>2
<1> QED
  BY <1>1, <1>2, <1>3, <1>4 DEF IsPrefixOf

-----------------------------------------------------------------------------
(* Steps in which no server enters a view *)

\* Server t may store cmd: as primary, or as a backup that its primary sends
\* the next command.
MayStore(t, cmd) ==
  \/ srv[t].role = "PRIMARY"
  \/ /\ srv[t].role = "BACKUP"
     /\ LET list == srv[srv[t].current_view.primary].cmd_list
        IN  Size(t) < Len(list) /\ cmd = list[Size(t) + 1]

Stored(t) ==
  \/ srv'[t].cmd_list = srv[t].cmd_list
  \/ \E cmd \in AMOCommand : /\ MayStore(t, cmd)
                            /\ srv'[t].cmd_list = Append(srv[t].cmd_list, cmd)

\* What a message must be, f being the servers.
ListedIn(m, f) ==
  m.type = "BackupRequest" =>
    m.body.command = f[m.from].cmd_list[m.body.currentNum]

InOrder ==
  /\ \A t \in Servers :
       /\ srv'[t].role = srv[t].role
       /\ srv'[t].current_view = srv[t].current_view
       /\ Stored(t)
  /\ \A m \in net' : m \in net \/ ListedIn(m, srv')
  /\ UNCHANGED issued

\* A backup has a primary.
LEMMA BackupLed ==
  ASSUME IInv, OrderInv, NEW b \in Servers, srv[b].role = "BACKUP"
  PROVE  srv[b].current_view.primary \in Servers
<1>1. /\ srv[b].current_view \in issued
      /\ srv[b].current_view.primary \in ServerOrNull
      /\ srv[b].current_view.primary # b /\ srv[b].current_view.backup = b
  BY DEF IInv, TypeOK, RolesOK, RoleIn, View
<1>2. srv[b].current_view.primary # Null
  BY <1>1, PrimaryBackupAssumption DEF OrderInv, NoLoneBackup
<1> QED
  BY <1>1, <1>2 DEF ServerOrNull

\* A list that has the command of a request keeps it.
LEMMA StaysListed ==
  ASSUME IInv, OrderInv, NEW m \in net, NEW f \in [Servers -> ServerState],
         \A t \in Servers : IsPrefixOf(srv[t].cmd_list, f[t].cmd_list)
  PROVE  ListedIn(m, f)
<1> SUFFICES ASSUME m.type = "BackupRequest" PROVE ListedIn(m, f)
  BY DEF ListedIn
<1>1. /\ m \in Message /\ TypeOK
      /\ \A t \in Servers : Size(t) \in Nat /\ srv[t].cmd_list \in Log
  BY SizeType DEF IInv, TypeOK, ServerState
<1>2. /\ m.from \in Servers /\ m.body \in BackupRequest
      /\ m.body.currentNum \in Nat \ {0}
  BY <1>1 DEF Message, BackupRequest
<1>3. m.body.currentNum <= Size(m.from) /\ Listed(m)
  BY DEF IInv, NetBacked, Backed, OrderInv, NetListed
<1>4. m.body.currentNum \in DOMAIN srv[m.from].cmd_list
  BY <1>1, <1>2, <1>3 DEF Size, Log
<1> QED
  BY <1>2, <1>3, <1>4 DEF Listed, ListedIn, IsPrefixOf

\* What a server stores while b follows p keeps b's list a beginning of p's.
LEMMA StoredFollows ==
  ASSUME IInv, IInv', InOrder, NEW p \in Servers, NEW b \in Servers,
         srv[b].role = "BACKUP", srv[b].current_view.primary = p, Begins(b, p)
  PROVE  Begins(b, p)'
<1>1. /\ srv \in [Servers -> ServerState] /\ srv' \in [Servers -> ServerState]
      /\ \A t \in Servers : srv[t].cmd_list \in Log /\ srv'[t].cmd_list \in Log
  BY DEF IInv, TypeOK, ServerState
<1>2. Stored(b) /\ Stored(p)
  BY DEF InOrder
<1>3. IsPrefixOf(srv[p].cmd_list, srv'[p].cmd_list)
  BY <1>1, <1>2, PrefixRefl, PrefixAppend DEF Stored
<1>4. IsPrefixOf(srv'[b].cmd_list, srv[p].cmd_list)
  <2>1. CASE srv'[b].cmd_list = srv[b].cmd_list
    BY <2>1 DEF Begins
  <2>2. ASSUME NEW cmd \in AMOCommand, MayStore(b, cmd),
               srv'[b].cmd_list = Append(srv[b].cmd_list, cmd)
        PROVE  IsPrefixOf(srv'[b].cmd_list, srv[p].cmd_list)
    BY <1>1, <2>2, PrefixNext DEF MayStore, Size, Begins
  <2> QED
    BY <1>2, <2>1, <2>2 DEF Stored
<1> QED
  BY <1>1, <1>3, <1>4, PrefixTrans DEF Begins

LEMMA InOrderKeeps ==
  ASSUME IInv, OrderInv, IInv', InOrder
  PROVE  OrderInv' /\ StepFollows
<1>1. /\ srv \in [Servers -> ServerState] /\ srv' \in [Servers -> ServerState]
      /\ \A t \in Servers : srv[t].cmd_list \in Log /\ srv'[t].cmd_list \in Log
  BY DEF IInv, TypeOK, ServerState
<1>2. ASSUME NEW t \in Servers
      PROVE  /\ srv'[t].view_num = srv[t].view_num
             /\ Returned(t)' <=> Returned(t)
             /\ IsPrefixOf(srv[t].cmd_list, srv'[t].cmd_list)
  <2>1. srv'[t].view_num = srv[t].view_num
    BY DEF InOrder, IInv, RolesOK
  <2>2. Stored(t)
    BY DEF InOrder
  <2>3. IsPrefixOf(srv[t].cmd_list, srv'[t].cmd_list)
    BY <1>1, <2>2, PrefixRefl, PrefixAppend DEF Stored
  <2>4. Returned(t)' <=> Returned(t)
    BY <2>1 DEF Returned, InOrder
  <2> QED
    BY <2>1, <2>3, <2>4
<1>3. NoLoneBackup'
  BY DEF OrderInv, NoLoneBackup, InOrder
<1>4. HeldSince'
  <2> SUFFICES ASSUME NEW s \in Servers, srv'[s].cmd_list # <<>>
               PROVE  \E u \in issued : /\ u.viewNum <= srv[s].view_num
                                        /\ s \in {u.primary, u.backup}
    BY <1>2 DEF HeldSince, InOrder
  <2>1. CASE srv'[s].cmd_list = srv[s].cmd_list
    BY <2>1 DEF OrderInv, HeldSince
  <2>2. CASE srv[s].role # "IDLE"
    <3>1. /\ srv[s].current_view \in issued
          /\ s \in {srv[s].current_view.primary, srv[s].current_view.backup}
          /\ srv[s].view_num = srv[s].current_view.viewNum
          /\ srv[s].view_num \in Nat
      BY <1>1, <2>2 DEF IInv, RolesOK, RoleIn, ServerState
    <3> QED
      BY <3>1
  <2> QED
    BY <2>1, <2>2 DEF InOrder, Stored, MayStore
<1>5. Following'
  <2> SUFFICES ASSUME NEW b \in Servers, srv'[b].role = "BACKUP", ~Returned(b)'
               PROVE  Begins(b, srv[b].current_view.primary)'
    BY DEF Following, InOrder
  <2>1. srv[b].role = "BACKUP" /\ ~Returned(b)
    BY <1>2 DEF InOrder
  <2>2. PICK p \in Servers : p = srv[b].current_view.primary
    BY <2>1, BackupLed
  <2>3. Begins(b, p)
    BY <2>1, <2>2 DEF OrderInv, Following
  <2>4. Begins(b, p)' /\ srv'[b].current_view.primary = p
    BY <2>1, <2>2, <2>3, StoredFollows DEF InOrder
  <2> QED
    BY <2>4 DEF Begins
<1>6. NetListed'
  <2> SUFFICES ASSUME NEW m \in net' PROVE Listed(m)'
    BY DEF NetListed
  <2>1. ListedIn(m, srv')
    BY <1>1, <1>2, StaysListed DEF InOrder
  <2> QED
    BY <2>1 DEF ListedIn, Listed
<1>7. StepFollows
  <2> SUFFICES ASSUME NEW p \in Servers, NEW b \in Servers,
                      srv'[b].role = "BACKUP",
                      srv'[b].current_view.primary = p
               PROVE  Begins(b, p)' \/ (Returned(b)' /\ ~Begins(b, p))
    BY DEF StepFollows
  <2>1. srv[b].role = "BACKUP" /\ srv[b].current_view.primary = p
    BY DEF InOrder
  <2>2. CASE Begins(b, p)
    BY <2>1, <2>2, StoredFollows
  <2>3. CASE ~Begins(b, p)
    BY <1>2, <2>1, <2>3 DEF OrderInv, Following
  <2> QED
    BY <2>2, <2>3
<1> QED
  BY <1>3, <1>4, <1>5, <1>6, <1>7 DEF OrderInv

-----------------------------------------------------------------------------
(* Every action but handleViewReply *)

\* Steps that leave the servers alone.
LEMMA SameListsKeep ==
  ASSUME IInv, OrderInv, IInv', UNCHANGED <<issued, srv>>,
         \A m \in net' : m \in net \/ ListedIn(m, srv)
  PROVE  OrderInv' /\ StepFollows
<1>1. InOrder
  BY DEF InOrder, Stored
<1> QED
  BY <1>1, InOrderKeeps

\* A handler that makes z of server s, and sends msgs.
LEMMA OneInOrder ==
  ASSUME IInv, OrderInv, IInv', NEW s \in Servers, NEW z \in ServerState,
         Same(srv[s], z), srv' = [srv EXCEPT ![s] = z],
         \/ z.cmd_list = srv[s].cmd_list
         \/ \E cmd \in AMOCommand : /\ MayStore(s, cmd)
                                   /\ z.cmd_list = Append(srv[s].cmd_list, cmd),
         NEW msgs, Send(msgs), \A m \in msgs : ListedIn(m, srv'),
         UNCHANGED issued
  PROVE  OrderInv' /\ StepFollows
<1>1. srv \in [Servers -> ServerState]
  BY DEF IInv, TypeOK
<1>2. srv'[s] = z /\ \A t \in Servers \ {s} : srv'[t] = srv[t]
  BY <1>1
<1>3. ASSUME NEW t \in Servers
      PROVE  /\ srv'[t].role = srv[t].role
             /\ srv'[t].current_view = srv[t].current_view
             /\ Stored(t)
  BY <1>2 DEF Same, Stored
<1>4. \A m \in net' : m \in net \/ ListedIn(m, srv')
  BY DEF Send
<1>5. InOrder
  BY <1>3, <1>4 DEF InOrder
<1> QED
  BY <1>5, InOrderKeeps

LEMMA HandleRequestOrdered ==
  ASSUME IInv, OrderInv, IInv', NEW m \in net, HandleRequest(m)
  PROVE  OrderInv' /\ StepFollows
<1> DEFINE s == m.to
           x == srv[s]
           list == Append(x.cmd_list, m.command)
           y == [x EXCEPT !.cmd_list = list]
<1>1. s \in Servers /\ m.command \in AMOCommand
  BY DEF HandleRequest, IInv, TypeOK, Message
<1>2. /\ srv \in [Servers -> ServerState] /\ x \in ServerState
      /\ x.cmd_list \in Log /\ x.app \in AMOApplication
      /\ Len(x.cmd_list) \in Nat
  BY <1>1, SizeType DEF IInv, TypeOK, ServerState, Size
<1>3. /\ list \in Log /\ Len(list) = Len(x.cmd_list) + 1
      /\ list[Len(x.cmd_list) + 1] = m.command
  BY <1>1, <1>2, AppendLog
<1>4. /\ y \in ServerState /\ Same(x, y) /\ y.app = x.app
      /\ y.cmd_list = list
  BY <1>2, <1>3, ListFields
<1>5. UNCHANGED issued /\ MayStore(s, m.command)
  BY DEF HandleRequest, Serves, MayStore
<1>6. PICK z \in ServerState :
        /\ Same(y, z) /\ z.cmd_list = list
        /\ srv' = [srv EXCEPT ![s] = z]
        /\ \/ Send({ToBackup(s, x.current_view.backup, br) :
                      br \in Forward(x, m.command)})
           \/ Send({Reply(s, m.command.addr, Answer(x.app, m.command))})
  <2> DEFINE a == [y EXCEPT !.able2Execute = FALSE]
             app == Execute(x.app, m.command)
             e == [y EXCEPT !.app = app]
  <2>1. \A u \in BOOLEAN : LET w == [y EXCEPT !.able2Execute = u]
          IN w \in ServerState /\ Same(y, w) /\ w.app = y.app
               /\ w.cmd_list = y.cmd_list
    BY <1>4, AbleFields
  <2>2. a \in ServerState /\ Same(y, a) /\ a.cmd_list = y.cmd_list
    BY <2>1, FALSE \in BOOLEAN, Zenon
  <2>3. app \in AMOApplication
    BY <1>1, <1>2, ExecuteType
  <2>4. \/ /\ srv' = [srv EXCEPT ![s] = a]
           /\ Send({ToBackup(s, x.current_view.backup, br) :
                      br \in Forward(x, m.command)})
        \/ /\ srv' = [srv EXCEPT ![s] = e]
           /\ Send({Reply(s, m.command.addr, Answer(x.app, m.command))})
    BY <1>4 DEF HandleRequest
  <2> HIDE DEF app
  <2>5. e \in ServerState /\ Same(y, e) /\ e.cmd_list = y.cmd_list
    BY <1>4, <2>3, AppFields
  <2> HIDE DEF a, e
  <2> QED
    BY <1>4, <2>2, <2>4, <2>5
<1> HIDE DEF list, y
<1>7. srv'[s].cmd_list = list
  BY <1>1, <1>2, <1>6
<1>8. ASSUME NEW br \in Forward(x, m.command)
      PROVE  ListedIn(ToBackup(s, x.current_view.backup, br), srv')
  BY <1>3, <1>7 DEF Forward, ListedIn, ToBackup
<1>9. ListedIn(Reply(s, m.command.addr, Answer(x.app, m.command)), srv')
  BY DEF ListedIn, Reply
<1>10. PICK msgs : Send(msgs) /\ \A msg \in msgs : ListedIn(msg, srv')
  <2> DEFINE fwd == {ToBackup(s, x.current_view.backup, br) :
                       br \in Forward(x, m.command)}
             ans == {Reply(s, m.command.addr, Answer(x.app, m.command))}
  <2>1. \A msg \in fwd : ListedIn(msg, srv')
    BY <1>8
  <2>2. \A msg \in ans : ListedIn(msg, srv')
    BY <1>9
  <2>3. Send(fwd) \/ Send(ans)
    BY <1>6
  <2> HIDE DEF fwd, ans
  <2> QED
    BY <2>1, <2>2, <2>3
<1>11. Same(x, z) /\ z.cmd_list = Append(x.cmd_list, m.command)
  BY <1>4, <1>6 DEF Same, list
<1> QED
  BY <1>1, <1>5, <1>6, <1>10, <1>11, OneInOrder

LEMMA HandleBackupRequestOrdered ==
  ASSUME IInv, OrderInv, IInv', NEW m \in net, HandleBackupRequest(m)
  PROVE  OrderInv' /\ StepFollows
<1> DEFINE b == m.to
           p == m.from
           r == m.body
           x == srv[b]
           y == IF AlreadyHeld(x, r.currentNum) THEN x
                ELSE Store(x, r.command)
           able == y.able2Execute \/ r.last
           z == [y EXCEPT !.able2Execute = able]
           reply == [done |-> TRUE, currentNum |-> r.currentNum,
                     client |-> r.client, past |-> r.past,
                     rcv |-> Len(y.cmd_list)]
<1>0. m.type = "BackupRequest" /\ m \in Message
  BY DEF HandleBackupRequest, IInv, TypeOK
<1>1. /\ b \in Servers /\ p \in Servers /\ r \in BackupRequest
      /\ r.currentNum \in Nat /\ r.command \in AMOCommand /\ r.last \in BOOLEAN
  BY <1>0 DEF Message, BackupRequest
<1>2. /\ srv \in [Servers -> ServerState] /\ x \in ServerState /\ Holds(x)
      /\ \A t \in Servers : Size(t) \in Nat /\ srv[t].cmd_list \in Log
  BY <1>1, SizeType DEF IInv, TypeOK, ServerState, ListHoldsLog, Holds
<1>3. r.currentNum <= Size(p) /\ r.command = srv[p].cmd_list[r.currentNum]
  BY <1>0 DEF IInv, NetBacked, Backed, OrderInv, NetListed, Listed
<1>4. UNCHANGED issued
  BY DEF HandleBackupRequest
<1>5. CASE UNCHANGED srv /\ Send({ToPrimary(b, p, Refusal)})
  <2>1. ListedIn(ToPrimary(b, p, Refusal), srv)
    BY DEF ListedIn, ToPrimary
  <2> QED
    BY <1>4, <1>5, <2>1, SameListsKeep DEF Send
<1>6. CASE /\ ~Rejects(b, p) /\ ~LeavesGap(x, r.currentNum)
           /\ srv' = [srv EXCEPT ![b] = z]
           /\ Send({ToPrimary(b, p, reply)})
  <2>1. /\ x.role = "BACKUP" /\ x.current_view.primary = p
        /\ r.currentNum <= Size(b) + 1
    BY <1>1, <1>2, <1>6 DEF Rejects, LeavesGap, Size
  <2>2. /\ y \in ServerState /\ Same(x, y)
        /\ \/ y.cmd_list = x.cmd_list
           \/ /\ MayStore(b, r.command)
              /\ y.cmd_list = Append(x.cmd_list, r.command)
    <3>1. CASE r.currentNum <= Size(b)
      <4>1. y = x
        BY <3>1 DEF AlreadyHeld, Size
      <4> HIDE DEF y
      <4> QED
        BY <1>2, <4>1 DEF Same
    <3>2. CASE ~(r.currentNum <= Size(b))
      <4>1. y = Store(x, r.command)
        BY <3>2 DEF AlreadyHeld, Size
      <4>2. r.currentNum = Size(b) + 1
        BY <1>1, <1>2, <2>1, <3>2
      <4>3. MayStore(b, r.command)
        BY <1>1, <1>2, <1>3, <2>1, <4>2 DEF MayStore, Size
      <4>4. Store(x, r.command).cmd_list = Append(x.cmd_list, r.command)
        BY <1>2 DEF Store, ServerState
      <4>5. /\ Store(x, r.command) \in ServerState
            /\ Same(x, Store(x, r.command))
        BY <1>1, <1>2, StoreFields
      <4> HIDE DEF y
      <4> QED
        BY <4>1, <4>3, <4>4, <4>5
    <3> QED
      BY <3>1, <3>2
  <2> HIDE DEF y
  <2>3. able \in BOOLEAN
    BY <1>1, <2>2 DEF ServerState
  <2> HIDE DEF able
  <2>4. z \in ServerState /\ Same(y, z) /\ z.cmd_list = y.cmd_list
    BY <2>2, <2>3, AbleFields
  <2>5. srv' = [srv EXCEPT ![b] = z]
    BY <1>6
  <2> HIDE DEF z
  <2>6. Same(x, z)
    BY <2>2, <2>4 DEF Same
  <2>7. \/ z.cmd_list = srv[b].cmd_list
        \/ \E cmd \in AMOCommand :
             MayStore(b, cmd) /\ z.cmd_list = Append(srv[b].cmd_list, cmd)
    BY <1>1, <2>2, <2>4
  <2> DEFINE msgs == {ToPrimary(b, p, reply)}
  <2>8. Send(msgs) /\ \A msg \in msgs : ListedIn(msg, srv')
    BY <1>6 DEF ListedIn, ToPrimary
  <2> HIDE DEF msgs, b
  <2> QED
    BY <1>1, <1>4, <2>4, <2>5, <2>6, <2>7, <2>8, OneInOrder DEF b
<1> QED
  BY <1>5, <1>6 DEF HandleBackupRequest

\* What backupNext sends is in the list.
LEMMA TransfersListed ==
  ASSUME NEW x \in ServerState, NEW s \in Servers, NEW to,
         NEW br \in Transfers(x),
         srv'[s].cmd_list = x.cmd_list
  PROVE  ListedIn(ToBackup(s, to, br), srv')
<1>1. br.command = x.cmd_list[br.currentNum]
  BY DEF Transfers
<1> QED
  BY <1>1 DEF ListedIn, ToBackup

LEMMA HandleBackupReplyOrdered ==
  ASSUME IInv, OrderInv, IInv', NEW m \in net, HandleBackupReply(m)
  PROVE  OrderInv' /\ StepFollows
<1> DEFINE p == m.to
           r == m.body
           old == srv[p]
           x == Confirm(old, r)
           cmd == x.cmd_list[r.currentNum]
           fwd == {ToBackup(p, x.newBackup, br) : br \in Continues(m)}
           ans == {Reply(p, r.client, Answer(x.app, cmd))}
<1>0. m.type = "BackupReply" /\ m \in Message
  BY DEF HandleBackupReply, IInv, TypeOK
<1>1. /\ p \in Servers /\ m.from \in Servers /\ r \in BackupReply
      /\ r.currentNum \in Int /\ r.rcv \in Nat
  BY <1>0 DEF Message, BackupReply
<1>2. /\ srv \in [Servers -> ServerState] /\ old \in ServerState /\ Holds(old)
  BY <1>1 DEF IInv, TypeOK, ListHoldsLog, Holds
<1>3. UNCHANGED issued
  BY DEF HandleBackupReply
<1>4. /\ x \in ServerState /\ Same(old, x)
      /\ x.app = old.app /\ x.cmd_list = old.cmd_list
  BY <1>1, <1>2, ConfirmFields
<1>5. Holds(x)
  BY <1>2, <1>4 DEF Holds
<1> DEFINE Awaited == r.done /\ r.currentNum - 1 = old.backupRcv
           KeepsList(z) == /\ Same(old, z) /\ srv' = [srv EXCEPT ![p] = z]
                         /\ z.cmd_list = old.cmd_list
<1>6. \/ srv' = [srv EXCEPT ![p] = ResetStates(old)] /\ Send({})
      \/ /\ Awaited /\ Send(fwd)
         /\ srv' = [srv EXCEPT ![p] = IF x.viewChange THEN ResetStates(x)
                                      ELSE AfterBackupNext(x)]
      \/ /\ Awaited /\ Send({})
         /\ srv' = [srv EXCEPT ![p] = [x EXCEPT !.able2Execute = TRUE]]
      \/ /\ Awaited /\ Send(ans)
         /\ srv' = [srv EXCEPT ![p] = [[x EXCEPT !.app = Execute(@, cmd)]
                                         EXCEPT !.able2Execute = TRUE]]
  <2>1. [x EXCEPT !.app = Execute(@, cmd), !.able2Execute = TRUE]
          = [[x EXCEPT !.app = Execute(@, cmd)] EXCEPT !.able2Execute = TRUE]
    BY <1>4 DEF ServerState
  <2>2. net' = net => Send({})
    BY DEF Send
  <2> QED
    BY <1>1, <1>2, <2>1, <2>2 DEF HandleBackupReply, Confirms
<1>7. Awaited => r.currentNum \in 1..Len(x.cmd_list)
  BY <1>0, <1>4 DEF IInv, NetBacked, Backed, Size
<1>8. \A w \in ServerState : ResetStates(w) \in ServerState
        /\ Same(w, ResetStates(w)) /\ ResetStates(w).cmd_list = w.cmd_list
  BY ResetFields
<1>9. \A w \in ServerState : LET v == [w EXCEPT !.able2Execute = TRUE]
        IN v \in ServerState /\ Same(w, v) /\ v.cmd_list = w.cmd_list
  <2>1. \A w \in ServerState, u \in BOOLEAN :
          LET v == [w EXCEPT !.able2Execute = u]
          IN v \in ServerState /\ Same(w, v) /\ v.app = w.app
               /\ v.cmd_list = w.cmd_list /\ v.backupRcv = w.backupRcv
    BY AbleFields
  <2> QED
    BY <2>1, TRUE \in BOOLEAN, Zenon
<1> HIDE DEF p, r, old, x, Awaited, cmd, fwd, ans
<1>10. \E z \in ServerState : KeepsList(z)
  <2>1. CASE srv' = [srv EXCEPT ![p] = ResetStates(old)]
    BY <1>2, <1>8, <2>1
  <2>2. CASE srv' = [srv EXCEPT ![p] = IF x.viewChange THEN ResetStates(x)
                                       ELSE AfterBackupNext(x)]
    <3>1. /\ AfterBackupNext(x) \in ServerState /\ Same(x, AfterBackupNext(x))
          /\ AfterBackupNext(x).cmd_list = x.cmd_list
      BY <1>4, NextFields
    <3>2. /\ ResetStates(x) \in ServerState /\ Same(x, ResetStates(x))
          /\ ResetStates(x).cmd_list = x.cmd_list
      BY <1>4, <1>8
    <3> QED
      BY <1>4, <2>2, <3>1, <3>2 DEF Same
  <2>3. CASE srv' = [srv EXCEPT ![p] = [x EXCEPT !.able2Execute = TRUE]]
    <3> DEFINE z == [x EXCEPT !.able2Execute = TRUE]
    <3>1. z \in ServerState /\ Same(x, z) /\ z.cmd_list = x.cmd_list
      BY <1>4, <1>9
    <3>2. srv' = [srv EXCEPT ![p] = z]
      BY <2>3
    <3> HIDE DEF z
    <3> QED
      BY <1>4, <3>1, <3>2 DEF Same
  <2>4. CASE /\ Awaited
             /\ srv' = [srv EXCEPT ![p] = [[x EXCEPT !.app = Execute(@, cmd)]
                                             EXCEPT !.able2Execute = TRUE]]
    <3> DEFINE w == [x EXCEPT !.app = Execute(@, cmd)]
               z == [w EXCEPT !.able2Execute = TRUE]
    <3>1. w \in ServerState /\ Same(x, w) /\ w.cmd_list = x.cmd_list
      BY <1>4, <1>5, <1>7, <2>4, ExecuteHeld DEF cmd
    <3>2. srv' = [srv EXCEPT ![p] = z]
      BY <2>4
    <3> HIDE DEF w
    <3>3. z \in ServerState /\ Same(w, z) /\ z.cmd_list = w.cmd_list
      BY <1>9, <3>1
    <3> HIDE DEF z
    <3> QED
      BY <1>4, <3>1, <3>2, <3>3 DEF Same
  <2> QED
    BY <1>6, <2>1, <2>2, <2>3, <2>4
<1>11. PICK z \in ServerState : KeepsList(z)
  BY <1>10
<1>12. srv'[p].cmd_list = x.cmd_list
  BY <1>1, <1>2, <1>4, <1>11
<1>13. \A msg \in fwd : ListedIn(msg, srv')
  <2> SUFFICES ASSUME NEW br \in Continues(m)
               PROVE  ListedIn(ToBackup(p, x.newBackup, br), srv')
    BY DEF fwd
  <2>1. br \in Transfers(x)
    BY DEF Continues, x, old, p, r
  <2> QED
    BY <1>1, <1>4, <1>12, <2>1, TransfersListed
<1>14. \A msg \in ans : ListedIn(msg, srv')
  BY DEF ListedIn, Reply, ans
<1>15. PICK msgs : Send(msgs) /\ \A msg \in msgs : ListedIn(msg, srv')
  BY <1>6, <1>13, <1>14
<1> QED
  BY <1>1, <1>3, <1>11, <1>15, OneInOrder DEF old

LEMMA OnBackupTimerOrdered ==
  ASSUME IInv, OrderInv, IInv', NEW m \in net, m.type = "BackupRequest",
         OnBackupTimer(m.from, m.body)
  PROVE  OrderInv' /\ StepFollows
<1>1. ListedIn(ToBackup(m.from, srv[m.from].newBackup, m.body), srv)
  BY DEF OrderInv, NetListed, Listed, ListedIn, ToBackup
<1> QED
  BY <1>1, SameListsKeep DEF OnBackupTimer, Send

-----------------------------------------------------------------------------
(* Entering a view, and forming one *)

\* The primary of a view that has a backup is a server.
LEMMA ViewLed ==
  ASSUME IInv, OrderInv, NEW v \in issued, v.backup # Null
  PROVE  v.primary \in Servers
  BY DEF IInv, TypeOK, View, ServerOrNull, OrderInv, NoLoneBackup

LEMMA HandleViewReplyOrdered ==
  ASSUME IInv, OrderInv, IInv',
         NEW s \in Servers, NEW v \in issued, HandleViewReply(s, v)
  PROVE  OrderInv' /\ StepFollows
<1> DEFINE old == srv[s]
           x == Enter(s, v)
           y == IF NewBackup(s, v) THEN AfterBackupNext(x) ELSE x
           msgs == {ToBackup(s, x.newBackup, br) : br \in Starts(s, v)}
<1>1. /\ srv \in [Servers -> ServerState] /\ old \in ServerState
      /\ v \in View /\ v.viewNum \in Nat
      /\ \A t \in Servers : srv[t].cmd_list \in Log
  BY DEF IInv, TypeOK, ServerState, View
<1>2. UNCHANGED issued /\ Newer(s, v)
  BY DEF HandleViewReply
<1>3. \/ /\ UNCHANGED net
         /\ srv' = [srv EXCEPT ![s].viewChange = TRUE]
      \/ srv' = [srv EXCEPT ![s] = Entered(y, v)] /\ Send(msgs)
  BY DEF HandleViewReply
<1>4. CASE UNCHANGED net /\ srv' = [srv EXCEPT ![s].viewChange = TRUE]
  <2>1. \A t \in Servers :
          /\ srv'[t].role = srv[t].role
          /\ srv'[t].current_view = srv[t].current_view
          /\ srv'[t].cmd_list = srv[t].cmd_list
    BY <1>1, <1>4 DEF ServerState
  <2>2. InOrder
    BY <1>2, <1>4, <2>1 DEF InOrder, Stored
  <2> QED
    BY <2>2, InOrderKeeps
<1>5. CASE srv' = [srv EXCEPT ![s] = Entered(y, v)] /\ Send(msgs)
  <2> DEFINE z == Entered(y, v)
  <2>1. /\ x \in ServerState /\ x.role = RoleIn(s, v)
        /\ x.cmd_list = old.cmd_list
    BY <1>1, EnterFields
  <2> HIDE DEF x
  <2>2. /\ y \in ServerState /\ y.role = x.role
        /\ y.cmd_list = x.cmd_list
    BY <2>1, NextFields DEF Same
  <2> HIDE DEF y
  <2>3. /\ z.role = y.role /\ z.cmd_list = y.cmd_list
        /\ z.current_view = v /\ z.view_num = v.viewNum
    BY <1>1, <2>2, EnteredFields
  <2>4. srv' = [srv EXCEPT ![s] = z]
    BY <1>5
  <2> HIDE DEF z
  <2>5. /\ srv'[s].role = RoleIn(s, v) /\ srv'[s].current_view = v
        /\ srv'[s].view_num = v.viewNum
        /\ srv'[s].cmd_list = srv[s].cmd_list
        /\ \A t \in Servers \ {s} : srv'[t] = srv[t]
    BY <1>1, <2>1, <2>2, <2>3, <2>4
  <2>6. \A t \in Servers : srv'[t].cmd_list = srv[t].cmd_list
    BY <2>5
  <2>7. \A p, b \in Servers : Begins(b, p)' <=> Begins(b, p)
    BY <2>6 DEF Begins
  <2>8. srv[s].view_num < v.viewNum /\ srv[s].view_num \in Nat
        /\ \A u \in issued : u.viewNum \in Nat
    BY <1>1, <1>2 DEF Newer, ServerState, IInv, TypeOK, View
  <2>9. srv[s].cmd_list # <<>> => Returned(s)'
    BY <1>2, <2>5, <2>8 DEF OrderInv, HeldSince, Returned
  <2>10. \A b \in Servers \ {s} : Returned(b)' <=> Returned(b)
    BY <1>2, <2>5 DEF Returned
  <2>11. ASSUME NEW b \in Servers, srv'[b].role = "BACKUP"
         PROVE  LET p == srv'[b].current_view.primary
                IN p \in Servers /\ (Begins(b, p) \/ Returned(b)')
    <3> DEFINE p == srv'[b].current_view.primary
    <3>1. CASE b = s
      <4>1. p = v.primary /\ v.backup = s
        BY <2>5, <2>11, <3>1 DEF RoleIn
      <4>2. p \in Servers
        BY <4>1, ViewLed, PrimaryBackupAssumption
      <4>3. srv[s].cmd_list = <<>> => Begins(s, p)
        BY <1>1, <4>2, PrefixRefl DEF Begins
      <4> QED
        BY <2>9, <3>1, <4>2, <4>3
    <3>2. CASE b # s
      <4>1. srv'[b] = srv[b]
        BY <2>5, <3>2
      <4>2. srv[b].current_view.primary \in Servers
        BY <2>11, <4>1, BackupLed
      <4> QED
        BY <2>10, <2>11, <3>2, <4>1, <4>2 DEF OrderInv, Following
    <3> QED
      BY <3>1, <3>2
  <2>12. NoLoneBackup'
    BY <1>2 DEF OrderInv, NoLoneBackup
  <2>13. HeldSince'
    <3> SUFFICES ASSUME NEW t \in Servers, srv[t].cmd_list # <<>>
                 PROVE  \E u \in issued : /\ u.viewNum <= srv'[t].view_num
                                          /\ t \in {u.primary, u.backup}
      BY <1>2, <2>6 DEF HeldSince
    <3>1. PICK u \in issued : /\ u.viewNum <= srv[t].view_num
                              /\ t \in {u.primary, u.backup}
      BY DEF OrderInv, HeldSince
    <3>2. u.viewNum <= srv'[t].view_num
      BY <1>1, <2>5, <2>8, <3>1
    <3> QED
      BY <3>1, <3>2
  <2>14. NetListed'
    <3> SUFFICES ASSUME NEW m \in net' PROVE ListedIn(m, srv')
      BY DEF NetListed, Listed, ListedIn
    <3>1. CASE m \in net
      <4>1. \A t \in Servers : IsPrefixOf(srv[t].cmd_list, srv'[t].cmd_list)
        BY <1>1, <2>6, PrefixRefl
      <4> QED
        BY <3>1, <4>1, StaysListed DEF IInv, TypeOK
    <3>2. ASSUME NEW br \in Starts(s, v), m = ToBackup(s, x.newBackup, br)
          PROVE  ListedIn(m, srv')
      <4>1. br \in Transfers(x)
        BY DEF Starts, x
      <4> QED
        BY <2>1, <2>5, <3>2, <4>1, TransfersListed
    <3> QED
      BY <1>5, <3>1, <3>2 DEF Send
  <2>15. Following'
    BY <2>7, <2>11 DEF Following
  <2>16. StepFollows
    BY <2>7, <2>11 DEF StepFollows
  <2> QED
    BY <2>12, <2>13, <2>14, <2>15, <2>16 DEF OrderInv
<1> QED
  BY <1>3, <1>4, <1>5

\* No server is in the view that is formed, so none returns by it.
LEMMA FormViewOrdered ==
  ASSUME IInv, OrderInv, IInv', FormView
  PROVE  OrderInv' /\ StepFollows
<1> DEFINE N == view.viewNum
<1>1. /\ N \in Nat /\ \A v \in issued : v.viewNum \in Nat /\ v.viewNum <= N
      /\ \A s \in Servers : srv[s].view_num \in Nat /\ srv[s].view_num <= N
  BY DEF IInv, TypeOK, View, ServerState, ViewsOK, ViewOK, RolesOK
<1>2. /\ UNCHANGED <<srv, net>> /\ issued' = issued \cup {view'}
      /\ view' \in Service!Successors(view)
  BY DEF FormView, Service!Advance
<1>3. view'.viewNum = N + 1 /\ view'.primary # Null
  BY <1>2, PrimaryBackupAssumption DEF Service!Successors
<1>4. \A b \in Servers : Returned(b)' <=> Returned(b)
  BY <1>1, <1>2, <1>3 DEF Returned
<1>5. NoLoneBackup' /\ HeldSince' /\ NetListed'
  BY <1>2, <1>3 DEF OrderInv, NoLoneBackup, HeldSince, NetListed, Listed
<1>6. Following' /\ StepFollows
  BY <1>2, <1>4 DEF OrderInv, Following, StepFollows, Begins
<1> QED
  BY <1>5, <1>6 DEF OrderInv

-----------------------------------------------------------------------------
(* Every execution *)

LEMMA InitOrdered == Init => OrderInv
<1> SUFFICES ASSUME Init PROVE OrderInv
  OBVIOUS
<1>1. /\ \A s \in Servers : srv[s] = ServerInit
      /\ issued = {StartupView} /\ net = {}
  BY DEF Init
<1>2. /\ ServerInit.role = "IDLE" /\ ServerInit.cmd_list = <<>>
      /\ StartupView.backup = Null
  BY DEF ServerInit, StartupView
<1> QED
  BY <1>1, <1>2 DEF OrderInv, NoLoneBackup, HeldSince, Following, NetListed

LEMMA NextOrdered ==
  IInv /\ OrderInv /\ [Next]_vars => OrderInv' /\ StepFollows
<1> SUFFICES ASSUME IInv, OrderInv, [Next]_vars PROVE OrderInv' /\ StepFollows
  OBVIOUS
<1>0. IInv'
  BY NextInv
<1>1. CASE FormView
  BY <1>0, <1>1, FormViewOrdered
<1>2. ASSUME NEW m \in net, HandleRequest(m) PROVE OrderInv' /\ StepFollows
  BY <1>0, <1>2, HandleRequestOrdered
<1>3. ASSUME NEW m \in net, HandleBackupRequest(m) PROVE OrderInv' /\ StepFollows
  BY <1>0, <1>3, HandleBackupRequestOrdered
<1>4. ASSUME NEW m \in net, HandleBackupReply(m) PROVE OrderInv' /\ StepFollows
  BY <1>0, <1>4, HandleBackupReplyOrdered
<1>5. ASSUME NEW m \in net, m.type = "BackupRequest",
             OnBackupTimer(m.from, m.body)
      PROVE  OrderInv' /\ StepFollows
  BY <1>0, <1>5, OnBackupTimerOrdered
<1>6. ASSUME NEW s \in Servers, NEW v \in issued, HandleViewReply(s, v)
      PROVE  OrderInv' /\ StepFollows
  BY <1>0, <1>6, HandleViewReplyOrdered
<1>7. ASSUME NEW m \in net, HandleReply(m) PROVE OrderInv' /\ StepFollows
  BY <1>0, <1>7, SameListsKeep DEF HandleReply
<1>8. ASSUME NEW s \in Servers, Crash(s) PROVE OrderInv' /\ StepFollows
  BY <1>0, <1>8, SameListsKeep DEF Crash
<1>9. ASSUME NEW c \in Clients, SendCommand(c) \/ OnClientTimer(c)
      PROVE  OrderInv' /\ StepFollows
  BY <1>0, <1>9, SameListsKeep
     DEF SendCommand, OnClientTimer, Send, Request, ListedIn
<1>10. ASSUME NEW c \in Clients, NEW v \in issued, ClientHandleViewReply(c, v)
       PROVE  OrderInv' /\ StepFollows
  BY <1>0, <1>10, SameListsKeep DEF ClientHandleViewReply
<1>11. CASE UNCHANGED vars
  BY <1>0, <1>11, SameListsKeep DEF vars
<1> QED
  BY <1>1, <1>2, <1>3, <1>4, <1>5, <1>6, <1>7, <1>8, <1>9, <1>10, <1>11 DEF Next

LEMMA Ordered == Spec => [](IInv /\ OrderInv)
<1> QED
  BY InitInv, NextInv, InitOrdered, NextOrdered, PTL DEF Spec

\* Whatever views are formed, a backup holds its primary's commands in its
\* primary's order, and no command besides; only a server that returns to the
\* views with another list may differ, from the step on by which it returns.
THEOREM Follows == Spec => BackupFollows
<1>1. IInv /\ OrderInv /\ [Next]_vars => [StepFollows]_vars
  BY NextOrdered
<1>2. Spec => [][StepFollows]_vars
  BY <1>1, Ordered, PTL DEF Spec
<1> QED
  BY <1>2 DEF StepFollows, BackupFollows

-----------------------------------------------------------------------------
(* What clients are told *)

\* res answers a command of client c, and is a beginning of log.
IsAnswer(res, c, log) ==
  LET past == res.result
  IN  /\ Len(past) > 0
      /\ past[Len(past)] = [addr |-> c, sequenceNum |-> res.sequenceNum]
      /\ IsPrefixOf(past, log)

Once(log) ==
  \A i, j \in DOMAIN log :
    i < j /\ log[i].addr = log[j].addr
      => log[i].sequenceNum < log[j].sequenceNum

\* The log is as ExecutedOnce has it, no command in it is newer than the newest
\* result of its client, and each result answers a command of its client.
Sane(app) ==
  /\ Once(app.log)
  /\ \A i \in DOMAIN app.log :
       LET cmd == app.log[i]
       IN  cmd.sequenceNum <= app.addr_result[cmd.addr].sequenceNum
  /\ \A c \in Clients :
       app.addr_result[c].sequenceNum # 0 =>
         IsAnswer(app.addr_result[c], c, app.log)

LEMMA AnswerStays ==
  ASSUME NEW res \in AMOResult, NEW c, NEW u \in Log, NEW w \in Log,
         IsAnswer(res, c, u), IsPrefixOf(u, w)
  PROVE  IsAnswer(res, c, w)
<1>1. res.result \in Log
  BY DEF AMOResult
<1> QED
  BY <1>1, PrefixTrans DEF IsAnswer

\* A command that is not older than what its client has had executed, or is
\* answered from the table.
LEMMA ExecuteSane ==
  ASSUME NEW app \in AMOApplication, NEW cmd \in AMOCommand, Sane(app)
  PROVE  LET a == Execute(app, cmd)
         IN  /\ Sane(a) /\ IsPrefixOf(app.log, a.log)
             /\ IsAnswer(Answer(app, cmd), cmd.addr, a.log)
<1> DEFINE a == Execute(app, cmd)
           c == cmd.addr
           n == cmd.sequenceNum
           list == Append(app.log, cmd)
           res == [sequenceNum |-> n, result |-> list]
<1>1. /\ app.log \in Log /\ app.addr_result \in [Clients -> AMOResult]
      /\ Len(app.log) \in Nat /\ DOMAIN app.log = 1..Len(app.log)
      /\ \A i \in DOMAIN app.log : app.log[i] \in AMOCommand
  BY DEF AMOApplication, Log
<1>2. c \in Clients /\ n \in Nat /\ n # 0
      /\ cmd = [addr |-> c, sequenceNum |-> n]
  BY DEF AMOCommand
<1>3. app.addr_result[c] \in AMOResult
      /\ app.addr_result[c].sequenceNum \in Nat
  BY <1>1, <1>2 DEF AMOResult
<1>4. CASE AlreadyExecuted(app, cmd)
  <2>1. a = app /\ Answer(app, cmd) = app.addr_result[c]
    BY <1>4 DEF Execute, Answer
  <2>2. app.addr_result[c].sequenceNum # 0
    BY <1>2, <1>3, <1>4 DEF AlreadyExecuted
  <2>3. IsAnswer(app.addr_result[c], c, app.log)
    BY <1>2, <2>2 DEF Sane
  <2> QED
    BY <1>1, <2>1, <2>3, PrefixRefl
<1>5. CASE ~AlreadyExecuted(app, cmd)
  <2>1. /\ a.log = list
        /\ a.addr_result = [app.addr_result EXCEPT ![c] = res]
    BY <1>5, ExecuteEffect
  <2>2. /\ list \in Log /\ Len(list) = Len(app.log) + 1
        /\ \A i \in DOMAIN app.log : list[i] = app.log[i]
        /\ list[Len(list)] = cmd
    BY <1>1, AppendLog
  <2>3. DOMAIN list = 1..(Len(app.log) + 1)
    BY <2>2 DEF Log
  <2>4. app.addr_result[c].sequenceNum < n
    BY <1>2, <1>3, <1>5 DEF AlreadyExecuted
  <2>5. IsPrefixOf(app.log, list) /\ IsPrefixOf(list, list)
    BY <1>1, <2>2, PrefixAppend, PrefixRefl
  <2>6. /\ a.addr_result[c] = res
        /\ \A d \in Clients : d # c => a.addr_result[d] = app.addr_result[d]
    BY <1>1, <1>2, <2>1
  <2>7. IsAnswer(res, c, list)
    BY <1>1, <1>2, <2>2, <2>5 DEF IsAnswer
  <2>8. Answer(app, cmd) = res
    BY <2>6 DEF Answer
  <2> HIDE DEF list, a
  <2>9. \A i \in DOMAIN list :
          \/ i \in DOMAIN app.log /\ list[i] = app.log[i]
          \/ i = Len(list) /\ list[i] = cmd
    BY <1>1, <2>2, <2>3
  <2>10. \A i \in DOMAIN app.log :
           /\ app.log[i].addr \in Clients /\ app.log[i].sequenceNum \in Nat
           /\ app.log[i].sequenceNum
                <= app.addr_result[app.log[i].addr].sequenceNum
    BY <1>1 DEF Sane, AMOCommand
  <2>11. Once(list)
    <3> SUFFICES ASSUME NEW i \in DOMAIN list, NEW j \in DOMAIN list, i < j,
                        list[i].addr = list[j].addr
                 PROVE  list[i].sequenceNum < list[j].sequenceNum
      BY DEF Once
    <3>1. i \in DOMAIN app.log /\ list[i] = app.log[i]
      BY <1>1, <2>2, <2>3, <2>9
    <3>2. CASE j \in DOMAIN app.log
      <4>1. list[j] = app.log[j]
        BY <2>2, <3>2
      <4> QED
        BY <3>1, <3>2, <4>1 DEF Sane, Once
    <3>3. CASE j \notin DOMAIN app.log
      <4>1. list[j] = cmd
        BY <2>9, <3>3
      <4>2. list[i].addr = c
        BY <4>1
      <4>3. list[i].sequenceNum \in Nat
            /\ list[i].sequenceNum <= app.addr_result[c].sequenceNum
        BY <2>10, <3>1, <4>2
      <4> QED
        BY <1>2, <1>3, <2>4, <4>1, <4>3
    <3> QED
      BY <3>2, <3>3
  <2>12. ASSUME NEW i \in DOMAIN list
         PROVE  list[i].sequenceNum
                  <= a.addr_result[list[i].addr].sequenceNum
    <3>1. CASE i \in DOMAIN app.log /\ list[i] = app.log[i]
      <4> DEFINE d == list[i].addr
      <4>1. /\ d \in Clients /\ list[i].sequenceNum \in Nat
            /\ list[i].sequenceNum <= app.addr_result[d].sequenceNum
        BY <2>10, <3>1
      <4>2. CASE d = c
        BY <1>2, <1>3, <2>4, <2>6, <4>1, <4>2
      <4>3. CASE d # c
        BY <2>6, <4>1, <4>3
      <4> QED
        BY <4>2, <4>3
    <3>2. CASE list[i] = cmd
      BY <1>2, <2>6, <3>2
    <3> QED
      BY <2>9, <3>1, <3>2
  <2>13. ASSUME NEW d \in Clients, a.addr_result[d].sequenceNum # 0
         PROVE  IsAnswer(a.addr_result[d], d, list)
    <3>1. CASE d = c
      BY <2>6, <2>7, <3>1
    <3>2. CASE d # c
      <4>1. /\ a.addr_result[d] = app.addr_result[d]
            /\ app.addr_result[d] \in AMOResult
        BY <1>1, <2>6, <3>2
      <4>2. IsAnswer(app.addr_result[d], d, app.log)
        BY <2>13, <4>1 DEF Sane
      <4> QED
        BY <1>1, <2>2, <2>5, <4>1, <4>2, AnswerStays
    <3> QED
      BY <3>1, <3>2
  <2>14. Sane(a)
    BY <2>1, <2>11, <2>12, <2>13 DEF Sane
  <2> QED
    BY <2>1, <2>5, <2>7, <2>8, <2>14 DEF a
<1> QED
  BY <1>4, <1>5

\* How a handler changes a server's commands, and its application.
Grown(x, y) ==
  /\ \/ y.cmd_list = x.cmd_list
     \/ \E cmd \in AMOCommand : y.cmd_list = Append(x.cmd_list, cmd)
  /\ \/ y.app = x.app
     \/ \E cmd \in AMOCommand : y.app = Execute(x.app, cmd)

\* What a message says of commands and answers, f being the servers: the
\* command it forwards or confirms is the one its sender holds under that
\* number, and the client to answer is the one that sent it, unless the command
\* is transferred; a result is sent by a server that has led a view.
ToldIn(m, f) ==
  /\ m.type = "BackupRequest" =>
       /\ m.body.command = f[m.from].cmd_list[m.body.currentNum]
       /\ m.body.past \/ m.body.client = m.body.command.addr
  /\ m.type = "BackupReply" /\ m.body.done =>
       \/ m.body.past
       \/ m.body.client = f[m.to].cmd_list[m.body.currentNum].addr
  /\ m.type = "Reply" =>
       /\ IsAnswer(m.result, m.to, f[m.from].app.log)
       /\ \E v \in issued : v.primary = m.from

Given(r) == \E m \in net : m.type = "Reply" /\ m.result = r

AnswersInv ==
  /\ \A s \in Servers : Sane(srv[s].app)
  /\ \A m \in net : ToldIn(m, srv)
  /\ \A r \in accepted : Given(r)

LEMMA GrownPrefix ==
  ASSUME NEW x \in ServerState, NEW y, Grown(x, y), Sane(x.app)
  PROVE  /\ IsPrefixOf(x.cmd_list, y.cmd_list)
         /\ IsPrefixOf(x.app.log, y.app.log) /\ Sane(y.app)
<1>1. x.cmd_list \in Log /\ x.app \in AMOApplication /\ x.app.log \in Log
  BY DEF ServerState, AMOApplication
<1>2. IsPrefixOf(x.cmd_list, y.cmd_list)
  BY <1>1, PrefixRefl, PrefixAppend DEF Grown
<1>3. CASE y.app = x.app
  BY <1>1, <1>2, <1>3, PrefixRefl
<1>4. ASSUME NEW cmd \in AMOCommand, y.app = Execute(x.app, cmd)
      PROVE  IsPrefixOf(x.app.log, y.app.log) /\ Sane(y.app)
  BY <1>1, <1>4, ExecuteSane
<1> QED
  BY <1>2, <1>3, <1>4 DEF Grown

\* What has been said stays true as lists and logs grow.
LEMMA StaysTold ==
  ASSUME IInv, AnswersInv, NEW m \in net, NEW f \in [Servers -> ServerState],
         \A t \in Servers : Grown(srv[t], f[t])
  PROVE  ToldIn(m, f)
<1>1. /\ m \in Message /\ ToldIn(m, srv) /\ Backed(m)
      /\ \A t \in Servers : /\ Size(t) \in Nat /\ srv[t].cmd_list \in Log
                            /\ srv[t].app \in AMOApplication
                            /\ srv[t].app.log \in Log
                            /\ f[t].app.log \in Log
                            /\ DOMAIN srv[t].cmd_list = 1..Size(t)
  BY SizeType
     DEF IInv, TypeOK, ServerState, AMOApplication, AnswersInv, NetBacked,
         Size, Log
<1>2. ASSUME NEW t \in Servers
      PROVE  /\ IsPrefixOf(srv[t].cmd_list, f[t].cmd_list)
             /\ IsPrefixOf(srv[t].app.log, f[t].app.log)
  BY GrownPrefix DEF IInv, TypeOK, AnswersInv
<1>3. CASE m.type = "BackupRequest"
  <2>1. /\ m.from \in Servers /\ m.body.currentNum \in Nat \ {0}
        /\ m.body.currentNum <= Size(m.from)
    BY <1>1, <1>3 DEF Message, BackupRequest, Backed
  <2>2. f[m.from].cmd_list[m.body.currentNum]
          = srv[m.from].cmd_list[m.body.currentNum]
    BY <1>1, <1>2, <2>1 DEF IsPrefixOf
  <2> QED
    BY <1>1, <1>3, <2>2 DEF ToldIn
<1>4. CASE m.type = "BackupReply"
  <2> SUFFICES ASSUME m.body.done, ~m.body.past
               PROVE  m.body.client
                        = f[m.to].cmd_list[m.body.currentNum].addr
    BY <1>4 DEF ToldIn
  <2>1. m.to \in Servers /\ m.body.currentNum \in 1..Size(m.to)
    BY <1>1, <1>4 DEF Message, Backed
  <2>2. f[m.to].cmd_list[m.body.currentNum]
          = srv[m.to].cmd_list[m.body.currentNum]
    BY <1>1, <1>2, <2>1 DEF IsPrefixOf
  <2> QED
    BY <1>1, <1>4, <2>2 DEF ToldIn
<1>5. CASE m.type = "Reply"
  <2>1. m.from \in Servers /\ m.result \in AMOResult
    BY <1>1, <1>5 DEF Message
  <2>2. IsAnswer(m.result, m.to, f[m.from].app.log)
    BY <1>1, <1>2, <1>5, <2>1, AnswerStays DEF ToldIn
  <2> QED
    BY <1>1, <1>5, <2>2 DEF ToldIn
<1> QED
  BY <1>3, <1>4, <1>5 DEF ToldIn

LEMMA AnswersKeep ==
  ASSUME IInv, AnswersInv, IInv', \A t \in Servers : Grown(srv[t], srv'[t]),
         issued \subseteq issued', net \subseteq net',
         \A m \in net' : m \in net \/ ToldIn(m, srv'),
         \A r \in accepted' : r \in accepted \/ Given(r)
  PROVE  AnswersInv'
<1>1. \A s \in Servers : Sane(srv'[s].app)
  BY GrownPrefix DEF IInv, TypeOK, AnswersInv
<1>2. ASSUME NEW m \in net' PROVE ToldIn(m, srv)'
  <2>1. ToldIn(m, srv')
    BY StaysTold DEF IInv, TypeOK
  <2> QED
    BY <2>1 DEF ToldIn
<1>3. ASSUME NEW r \in accepted' PROVE Given(r)'
  BY DEF AnswersInv, Given
<1> QED
  BY <1>1, <1>2, <1>3 DEF AnswersInv

\* Steps that leave the servers alone.
LEMMA SameServersKeep ==
  ASSUME IInv, AnswersInv, IInv', UNCHANGED srv,
         issued \subseteq issued', net \subseteq net',
         \A m \in net' : m \in net \/ ToldIn(m, srv),
         \A r \in accepted' : r \in accepted \/ Given(r)
  PROVE  AnswersInv'
<1>1. \A t \in Servers : Grown(srv[t], srv'[t])
  BY DEF Grown
<1> QED
  BY <1>1, AnswersKeep

\* A handler that makes z of server s, and sends msgs.
LEMMA OneKeeps ==
  ASSUME IInv, AnswersInv, IInv', NEW s \in Servers, NEW z,
         Grown(srv[s], z), srv' = [srv EXCEPT ![s] = z],
         NEW msgs, Send(msgs), \A m \in msgs : ToldIn(m, srv'),
         UNCHANGED <<issued, accepted>>
  PROVE  AnswersInv'
<1>1. \A t \in Servers : Grown(srv[t], srv'[t])
  BY DEF IInv, TypeOK, Grown
<1>2. net \subseteq net' /\ \A m \in net' : m \in net \/ ToldIn(m, srv')
  BY DEF Send
<1> QED
  BY <1>1, <1>2, AnswersKeep

\* A primary leads the view it is in.
LEMMA LedBy ==
  ASSUME IInv, NEW s \in Servers, srv[s].role = "PRIMARY"
  PROVE  \E v \in issued : v.primary = s
  BY DEF IInv, RolesOK, RoleIn

LEMMA ReplyTold ==
  ASSUME IInv, NEW s \in Servers, srv[s].role = "PRIMARY", NEW c, NEW res,
         NEW f, IsAnswer(res, c, f[s].app.log)
  PROVE  ToldIn(Reply(s, c, res), f)
<1> DEFINE m == Reply(s, c, res)
<1>1. m.type = "Reply" /\ m.from = s /\ m.to = c /\ m.result = res
  BY DEF Reply
<1> HIDE DEF m
<1> QED
  BY <1>1, LedBy DEF ToldIn, m

LEMMA HandleRequestTold ==
  ASSUME IInv, AnswersInv, IInv', NEW m \in net, HandleRequest(m)
  PROVE  AnswersInv'
<1> DEFINE s == m.to
           x == srv[s]
           cmd == m.command
           list == Append(x.cmd_list, cmd)
           y == [x EXCEPT !.cmd_list = list]
           app == Execute(x.app, cmd)
           backup == x.current_view.backup
<1>1. s \in Servers /\ cmd \in AMOCommand
  BY DEF HandleRequest, IInv, TypeOK, Message
<1>2. /\ srv \in [Servers -> ServerState] /\ x \in ServerState
      /\ x.cmd_list \in Log /\ x.app \in AMOApplication /\ Sane(x.app)
  BY <1>1 DEF IInv, TypeOK, ServerState, AnswersInv
<1>3. /\ list \in Log /\ list[Len(x.cmd_list) + 1] = cmd
      /\ app \in AMOApplication
  BY <1>1, <1>2, AppendLog, ExecuteType
<1>4. UNCHANGED <<issued, accepted>> /\ x.role = "PRIMARY"
  BY DEF HandleRequest, Serves
<1>5. y \in ServerState /\ y.app = x.app /\ y.cmd_list = list
  BY <1>2, <1>3, ListFields
<1>6. CASE /\ srv' = [srv EXCEPT ![s] = [y EXCEPT !.able2Execute = FALSE]]
           /\ Send({ToBackup(s, backup, br) : br \in Forward(x, cmd)})
  <2> DEFINE z == [y EXCEPT !.able2Execute = FALSE]
             msgs == {ToBackup(s, backup, br) : br \in Forward(x, cmd)}
  <2>1. z.app = x.app /\ z.cmd_list = list
    BY <1>5 DEF ServerState
  <2>2. srv' = [srv EXCEPT ![s] = z] /\ Send(msgs)
    BY <1>6
  <2> HIDE DEF z
  <2>3. srv'[s].cmd_list = list
    BY <1>1, <1>2, <2>1, <2>2
  <2>4. Grown(x, z)
    BY <1>1, <2>1 DEF Grown
  <2> HIDE DEF list
  <2>5. \A msg \in msgs : ToldIn(msg, srv')
    BY <1>3, <2>3 DEF Forward, ToBackup, ToldIn
  <2> HIDE DEF msgs, x
  <2> QED
    BY <1>1, <1>4, <2>2, <2>4, <2>5, OneKeeps DEF x
<1>7. CASE /\ srv' = [srv EXCEPT ![s] = [y EXCEPT !.app = app]]
           /\ Send({Reply(s, cmd.addr, Answer(x.app, cmd))})
  <2> DEFINE z == [y EXCEPT !.app = app]
             msgs == {Reply(s, cmd.addr, Answer(x.app, cmd))}
  <2>1. z.app = app /\ z.cmd_list = list
    BY <1>5 DEF ServerState
  <2>2. srv' = [srv EXCEPT ![s] = z] /\ Send(msgs)
    BY <1>7
  <2> HIDE DEF z
  <2>3. srv'[s].app = app
    BY <1>1, <1>2, <2>1, <2>2
  <2>4. Grown(x, z)
    BY <1>1, <2>1 DEF Grown
  <2>5. IsAnswer(Answer(x.app, cmd), cmd.addr, app.log)
    BY <1>1, <1>2, ExecuteSane
  <2>6. ToldIn(Reply(s, cmd.addr, Answer(x.app, cmd)), srv')
    BY <1>1, <1>4, <2>3, <2>5, ReplyTold
  <2>7. \A msg \in msgs : ToldIn(msg, srv')
    BY <2>6
  <2> HIDE DEF msgs, x
  <2> QED
    BY <1>1, <1>4, <2>2, <2>4, <2>7, OneKeeps DEF x
<1> QED
  BY <1>6, <1>7 DEF HandleRequest

LEMMA HandleBackupRequestTold ==
  ASSUME IInv, AnswersInv, IInv', NEW m \in net, HandleBackupRequest(m)
  PROVE  AnswersInv'
<1> DEFINE b == m.to
           p == m.from
           r == m.body
           x == srv[b]
           y == IF AlreadyHeld(x, r.currentNum) THEN x
                ELSE Store(x, r.command)
           able == y.able2Execute \/ r.last
           z == [y EXCEPT !.able2Execute = able]
           reply == [done |-> TRUE, currentNum |-> r.currentNum,
                     client |-> r.client, past |-> r.past,
                     rcv |-> Len(y.cmd_list)]
<1>0. m.type = "BackupRequest" /\ m \in Message
  BY DEF HandleBackupRequest, IInv, TypeOK
<1>1. /\ b \in Servers /\ p \in Servers /\ r \in BackupRequest
      /\ r.command \in AMOCommand /\ r.last \in BOOLEAN
  BY <1>0 DEF Message, BackupRequest
<1>2. srv \in [Servers -> ServerState] /\ x \in ServerState /\ Holds(x)
  BY <1>1 DEF IInv, TypeOK, ListHoldsLog, Holds
<1>3. UNCHANGED <<issued, accepted>>
  BY DEF HandleBackupRequest
<1>4. CASE UNCHANGED srv /\ Send({ToPrimary(b, p, Refusal)})
  <2>1. ToldIn(ToPrimary(b, p, Refusal), srv)
    BY DEF ToldIn, ToPrimary, Refusal
  <2> QED
    BY <1>3, <1>4, <2>1, SameServersKeep DEF Send
<1>5. CASE srv' = [srv EXCEPT ![b] = z] /\ Send({ToPrimary(b, p, reply)})
  <2>1. y \in ServerState /\ Grown(x, y)
    <3>1. CASE AlreadyHeld(x, r.currentNum)
      BY <1>2, <3>1 DEF Grown
    <3>2. CASE ~AlreadyHeld(x, r.currentNum)
      <4>1. /\ Store(x, r.command).cmd_list = Append(x.cmd_list, r.command)
            /\ Store(x, r.command).app = Execute(x.app, r.command)
        BY <1>2 DEF Store, ServerState
      <4>2. Store(x, r.command) \in ServerState
        BY <1>1, <1>2, StoreFields
      <4> QED
        BY <1>1, <3>2, <4>1, <4>2 DEF Grown
    <3> QED
      BY <3>1, <3>2
  <2> HIDE DEF y
  <2>2. z.app = y.app /\ z.cmd_list = y.cmd_list
    BY <2>1 DEF ServerState
  <2>3. srv' = [srv EXCEPT ![b] = z]
    BY <1>5
  <2> HIDE DEF z
  <2>4. Grown(x, z)
    BY <2>1, <2>2 DEF Grown
  <2>5. ToldIn(m, srv')
    <3>1. \A t \in Servers : Grown(srv[t], srv'[t])
      BY <1>2, <2>3, <2>4 DEF Grown
    <3> QED
      BY <3>1, StaysTold DEF IInv, TypeOK
  <2> DEFINE msgs == {ToPrimary(b, p, reply)}
  <2>6. \A msg \in msgs : ToldIn(msg, srv')
    BY <1>0, <2>5 DEF ToldIn, ToPrimary
  <2>7. Send(msgs)
    BY <1>5
  <2> HIDE DEF msgs, x
  <2> QED
    BY <1>1, <1>3, <2>3, <2>4, <2>6, <2>7, OneKeeps DEF x
<1> QED
  BY <1>4, <1>5 DEF HandleBackupRequest

\* What backupNext sends names no client to answer.
LEMMA TransfersTold ==
  ASSUME NEW x \in ServerState, NEW s \in Servers, NEW to,
         NEW br \in Transfers(x), srv'[s].cmd_list = x.cmd_list
  PROVE  ToldIn(ToBackup(s, to, br), srv')
<1>1. br.command = x.cmd_list[br.currentNum] /\ br.past
  BY DEF Transfers
<1> QED
  BY <1>1 DEF ToldIn, ToBackup

LEMMA HandleBackupReplyTold ==
  ASSUME IInv, AnswersInv, IInv', NEW m \in net, HandleBackupReply(m)
  PROVE  AnswersInv'
<1> DEFINE p == m.to
           r == m.body
           old == srv[p]
           x == Confirm(old, r)
           cmd == x.cmd_list[r.currentNum]
           fwd == {ToBackup(p, x.newBackup, br) : br \in Continues(m)}
           ans == {Reply(p, r.client, Answer(x.app, cmd))}
           Executes(z) == /\ Confirms(m, old) /\ ~r.past
                          /\ z.app = Execute(old.app, cmd)
                          /\ z.cmd_list = old.cmd_list
                          /\ Send(ans)
           Sends(z) == /\ z.app = old.app /\ z.cmd_list = old.cmd_list
                       /\ Send({}) \/ Send(fwd)
<1>0. m.type = "BackupReply" /\ m \in Message
  BY DEF HandleBackupReply, IInv, TypeOK
<1>1. p \in Servers /\ r \in BackupReply /\ r.currentNum \in Int
  BY <1>0 DEF Message, BackupReply
<1>2. /\ srv \in [Servers -> ServerState] /\ old \in ServerState
      /\ old.app \in AMOApplication /\ Sane(old.app) /\ old.cmd_list \in Log
  BY <1>1 DEF IInv, TypeOK, ServerState, AnswersInv
<1>3. UNCHANGED <<issued, accepted>>
  BY DEF HandleBackupReply
<1>4. x \in ServerState /\ x.app = old.app /\ x.cmd_list = old.cmd_list
  BY <1>1, <1>2, ConfirmFields
<1>5. Confirms(m, old) => cmd \in AMOCommand /\ old.role = "PRIMARY"
  <2> SUFFICES ASSUME Confirms(m, old)
               PROVE  cmd \in AMOCommand /\ old.role = "PRIMARY"
    OBVIOUS
  <2>1. r.currentNum \in 1..Len(old.cmd_list) /\ old.role = "PRIMARY"
    BY <1>0 DEF Confirms, IInv, NetBacked, Backed, Size
  <2> QED
    BY <1>2, <1>4, <2>1 DEF Log
<1>6. \E z : srv' = [srv EXCEPT ![p] = z] /\ (Executes(z) \/ Sends(z))
  <2>1. /\ ResetStates(old).app = old.app
        /\ ResetStates(old).cmd_list = old.cmd_list
        /\ ResetStates(x).app = old.app
        /\ ResetStates(x).cmd_list = old.cmd_list
        /\ AfterBackupNext(x).app = old.app
        /\ AfterBackupNext(x).cmd_list = old.cmd_list
    BY <1>2, <1>4, ResetFields, NextFields
  <2>2. LET w == [x EXCEPT !.able2Execute = TRUE]
        IN  w.app = old.app /\ w.cmd_list = old.cmd_list
    BY <1>4 DEF ServerState
  <2>3. LET w == [x EXCEPT !.app = Execute(@, cmd), !.able2Execute = TRUE]
        IN  w.app = Execute(old.app, cmd) /\ w.cmd_list = old.cmd_list
    BY <1>4 DEF ServerState
  <2>4. net' = net => Send({})
    BY DEF Send
  <2>5. CASE srv' = [srv EXCEPT ![p] = ResetStates(@)] /\ UNCHANGED net
    BY <1>1, <1>2, <2>1, <2>4, <2>5
  <2>6. CASE /\ srv' = [srv EXCEPT ![p] = IF x.viewChange
                                          THEN ResetStates(x)
                                          ELSE AfterBackupNext(x)]
             /\ Send(fwd)
    BY <2>1, <2>6
  <2>7. CASE /\ srv' = [srv EXCEPT ![p] = [x EXCEPT !.able2Execute = TRUE]]
             /\ UNCHANGED net
    BY <2>2, <2>4, <2>7
  <2>8. CASE /\ Confirms(m, old) /\ ~r.past
             /\ srv' = [srv EXCEPT ![p] =
                         [x EXCEPT !.app = Execute(@, cmd),
                                   !.able2Execute = TRUE]]
             /\ Send(ans)
    BY <2>3, <2>8
  <2> HIDE DEF fwd, ans, cmd, Executes, Sends
  <2> QED
    BY <2>5, <2>6, <2>7, <2>8 DEF HandleBackupReply, fwd, ans, cmd
<1>7. PICK z : srv' = [srv EXCEPT ![p] = z] /\ (Executes(z) \/ Sends(z))
  BY <1>6
<1>8. srv'[p] = z
  BY <1>1, <1>2, <1>7
<1>9. CASE Executes(z)
  <2>1. Grown(old, z)
    BY <1>5, <1>9 DEF Grown
  <2>2. r.client = cmd.addr
    BY <1>0, <1>4, <1>9 DEF AnswersInv, ToldIn, Confirms
  <2>3. IsAnswer(Answer(old.app, cmd), cmd.addr, z.app.log)
    BY <1>2, <1>5, <1>9, ExecuteSane
  <2>4. ToldIn(Reply(p, r.client, Answer(x.app, cmd)), srv')
    <3>1. IsAnswer(Answer(x.app, cmd), r.client, srv'[p].app.log)
      BY <1>4, <1>8, <2>2, <2>3
    <3>2. old.role = "PRIMARY"
      BY <1>5, <1>9
    <3> HIDE DEF x, cmd, r
    <3> QED
      BY <1>1, <3>1, <3>2, ReplyTold
  <2>5. \A msg \in ans : ToldIn(msg, srv')
    BY <2>4
  <2>6. Send(ans)
    BY <1>9
  <2> HIDE DEF ans, Executes, Sends, old
  <2> QED
    BY <1>1, <1>3, <1>7, <2>1, <2>5, <2>6, OneKeeps DEF old
<1>10. CASE Sends(z)
  <2>1. Grown(old, z)
    BY <1>10 DEF Grown
  <2>2. \A msg \in fwd : ToldIn(msg, srv')
    <3> SUFFICES ASSUME NEW br \in Continues(m)
                 PROVE  ToldIn(ToBackup(p, x.newBackup, br), srv')
      OBVIOUS
    <3>1. br \in Transfers(x)
      BY DEF Continues
    <3>2. srv'[p].cmd_list = x.cmd_list
      BY <1>4, <1>8, <1>10
    <3> HIDE DEF x
    <3> QED
      BY <1>1, <1>4, <3>1, <3>2, TransfersTold
  <2>3. PICK msgs : Send(msgs) /\ \A msg \in msgs : ToldIn(msg, srv')
    BY <1>10, <2>2
  <2> HIDE DEF Executes, Sends, old
  <2> QED
    BY <1>1, <1>3, <1>7, <2>1, <2>3, OneKeeps DEF old
<1> QED
  BY <1>7, <1>9, <1>10

LEMMA HandleViewReplyTold ==
  ASSUME IInv, AnswersInv, IInv',
         NEW s \in Servers, NEW v \in issued, HandleViewReply(s, v)
  PROVE  AnswersInv'
<1> DEFINE old == srv[s]
           x == Enter(s, v)
           y == IF NewBackup(s, v) THEN AfterBackupNext(x) ELSE x
           msgs == {ToBackup(s, x.newBackup, br) : br \in Starts(s, v)}
<1>1. /\ srv \in [Servers -> ServerState] /\ old \in ServerState /\ v \in View
  BY DEF IInv, TypeOK
<1>2. UNCHANGED <<issued, accepted>>
  BY DEF HandleViewReply
<1>3. \/ /\ UNCHANGED net
         /\ srv' = [srv EXCEPT ![s].viewChange = TRUE]
      \/ srv' = [srv EXCEPT ![s] = Entered(y, v)] /\ Send(msgs)
  BY DEF HandleViewReply
<1>4. CASE UNCHANGED net /\ srv' = [srv EXCEPT ![s].viewChange = TRUE]
  <2>1. \A t \in Servers : Grown(srv[t], srv'[t])
    BY <1>1, <1>4 DEF ServerState, Grown
  <2> QED
    BY <1>2, <1>4, <2>1, AnswersKeep
<1>5. CASE srv' = [srv EXCEPT ![s] = Entered(y, v)] /\ Send(msgs)
  <2> DEFINE z == Entered(y, v)
  <2>1. x \in ServerState /\ x.app = old.app /\ x.cmd_list = old.cmd_list
    BY <1>1, EnterFields
  <2> HIDE DEF x
  <2>2. y \in ServerState /\ y.app = x.app /\ y.cmd_list = x.cmd_list
    BY <2>1, NextFields
  <2> HIDE DEF y
  <2>3. z.app = y.app /\ z.cmd_list = y.cmd_list
    BY <1>1, <2>2, EnteredFields
  <2>4. srv' = [srv EXCEPT ![s] = z]
    BY <1>5
  <2> HIDE DEF z
  <2>5. srv'[s].cmd_list = x.cmd_list /\ Grown(old, z)
    BY <1>1, <2>1, <2>2, <2>3, <2>4 DEF Grown
  <2>6. \A msg \in msgs : ToldIn(msg, srv')
    <3> SUFFICES ASSUME NEW br \in Starts(s, v)
                 PROVE  ToldIn(ToBackup(s, x.newBackup, br), srv')
      OBVIOUS
    <3>1. br \in Transfers(x)
      BY DEF Starts, x
    <3> QED
      BY <2>1, <2>5, <3>1, TransfersTold
  <2>7. Send(msgs)
    BY <1>5
  <2> HIDE DEF msgs, old
  <2> QED
    BY <1>2, <2>4, <2>5, <2>6, <2>7, OneKeeps DEF old
<1> QED
  BY <1>3, <1>4, <1>5

LEMMA InitTold == Init => AnswersInv
<1> SUFFICES ASSUME Init PROVE AnswersInv
  OBVIOUS
<1>1. /\ \A s \in Servers : srv[s] = ServerInit
      /\ accepted = {} /\ net = {}
  BY DEF Init
<1>2. Sane(NewApplication)
  <2>1. /\ NewApplication.log = <<>>
        /\ \A c \in Clients : NewApplication.addr_result[c].sequenceNum = 0
    BY DEF NewApplication, NoResult
  <2> QED
    BY <2>1 DEF Sane, Once
<1>3. ServerInit.app = NewApplication
  BY DEF ServerInit
<1> QED
  BY <1>1, <1>2, <1>3 DEF AnswersInv

LEMMA NextTold == IInv /\ AnswersInv /\ [Next]_vars => AnswersInv'
<1> SUFFICES ASSUME IInv, AnswersInv, [Next]_vars PROVE AnswersInv'
  OBVIOUS
<1>0. IInv'
  BY NextInv
<1>1. CASE FormView
  BY <1>0, <1>1, SameServersKeep DEF FormView
<1>2. ASSUME NEW m \in net, HandleRequest(m) PROVE AnswersInv'
  BY <1>0, <1>2, HandleRequestTold
<1>3. ASSUME NEW m \in net, HandleBackupRequest(m) PROVE AnswersInv'
  BY <1>0, <1>3, HandleBackupRequestTold
<1>4. ASSUME NEW m \in net, HandleBackupReply(m) PROVE AnswersInv'
  BY <1>0, <1>4, HandleBackupReplyTold
<1>5. ASSUME NEW m \in net, m.type = "BackupRequest",
             OnBackupTimer(m.from, m.body)
      PROVE  AnswersInv'
  <2>1. ToldIn(ToBackup(m.from, srv[m.from].newBackup, m.body), srv)
    BY <1>5 DEF AnswersInv, ToldIn, ToBackup
  <2> QED
    BY <1>0, <1>5, <2>1, SameServersKeep DEF OnBackupTimer, Send
<1>6. ASSUME NEW s \in Servers, NEW v \in issued, HandleViewReply(s, v)
      PROVE  AnswersInv'
  BY <1>0, <1>6, HandleViewReplyTold
<1>7. ASSUME NEW m \in net, HandleReply(m) PROVE AnswersInv'
  BY <1>0, <1>7, SameServersKeep DEF HandleReply, Given
<1>8. ASSUME NEW s \in Servers, Crash(s) PROVE AnswersInv'
  BY <1>0, <1>8, SameServersKeep DEF Crash
<1>9. ASSUME NEW c \in Clients, SendCommand(c) \/ OnClientTimer(c)
      PROVE  AnswersInv'
  BY <1>0, <1>9, SameServersKeep
     DEF SendCommand, OnClientTimer, Send, Request, ToldIn
<1>10. ASSUME NEW c \in Clients, NEW v \in issued, ClientHandleViewReply(c, v)
       PROVE  AnswersInv'
  BY <1>0, <1>10, SameServersKeep DEF ClientHandleViewReply
<1>11. CASE UNCHANGED vars
  BY <1>0, <1>11, SameServersKeep DEF vars
<1> QED
  BY <1>1, <1>2, <1>3, <1>4, <1>5, <1>6, <1>7, <1>8, <1>9, <1>10, <1>11 DEF Next

LEMMA Told == Spec => [](IInv /\ AnswersInv)
<1> QED
  BY InitInv, NextInv, InitTold, NextTold, PTL DEF Spec

\* However commands are resent, transferred and confirmed, and whoever leads,
\* an answer is the history up to a command of the client it is sent to.
THEOREM OwnAnswers == Spec => []AnswersAreOwn
<1>1. IInv /\ AnswersInv => AnswersAreOwn
  <2> SUFFICES ASSUME IInv, AnswersInv, NEW m \in net, m.type = "Reply"
               PROVE  LET log == m.result.result
                      IN  /\ log # <<>>
                          /\ log[Len(log)] =
                               [addr |-> m.to,
                                sequenceNum |-> m.result.sequenceNum]
    BY DEF AnswersAreOwn
  <2> DEFINE log == m.result.result
  <2>1. /\ Len(log) > 0
        /\ log[Len(log)]
             = [addr |-> m.to, sequenceNum |-> m.result.sequenceNum]
    BY DEF AnswersInv, ToldIn, IsAnswer
  <2> HIDE DEF log
  <2>2. log # <<>>
    BY <2>1
  <2> QED
    BY <2>1, <2>2 DEF log
<1> QED
  BY <1>1, Told, PTL

\* No server executes a command twice, or after a later one of its client,
\* however often it was requested, forwarded and transferred.
THEOREM OnceOnly == Spec => []ExecutedOnce
<1>1. IInv /\ AnswersInv => ExecutedOnce
  BY DEF AnswersInv, Sane, Once, ExecutedOnce
<1> QED
  BY <1>1, Told, PTL

LEMMA PrefixesCompare ==
  ASSUME NEW u \in Log, NEW v \in Log, NEW w \in Log,
         IsPrefixOf(u, w), IsPrefixOf(v, w)
  PROVE  IsPrefixOf(u, v) \/ IsPrefixOf(v, u)
<1>1. /\ Len(u) \in Nat /\ Len(v) \in Nat /\ Len(w) \in Nat
      /\ DOMAIN u = 1..Len(u) /\ DOMAIN v = 1..Len(v)
  BY DEF Log
<1>2. CASE Len(u) <= Len(v)
  BY <1>1, <1>2 DEF IsPrefixOf
<1>3. CASE Len(v) <= Len(u)
  BY <1>1, <1>3 DEF IsPrefixOf
<1> QED
  BY <1>1, <1>2, <1>3

\* As long as one server has led every view, what clients have been told are
\* histories of one log: that server's.
THEOREM LinearizableLed == Spec => []LinearizableUntilTakeover
<1>1. IInv /\ AnswersInv => LinearizableUntilTakeover
  <2> SUFFICES ASSUME IInv, AnswersInv,
                      \A v, w \in issued :
                        Null \notin {v.primary, w.primary}
                          => v.primary = w.primary,
                      NEW r \in accepted, NEW t \in accepted
               PROVE  \/ IsPrefixOf(r.result, t.result)
                      \/ IsPrefixOf(t.result, r.result)
    BY DEF LinearizableUntilTakeover, Linearizable
  <2>1. PICK m \in net : m.type = "Reply" /\ m.result = r
    BY DEF AnswersInv, Given
  <2>2. PICK n \in net : n.type = "Reply" /\ n.result = t
    BY DEF AnswersInv, Given
  <2>3. m \in Message /\ n \in Message /\ Null \notin Servers
    BY PrimaryBackupAssumption DEF IInv, TypeOK
  <2>4. /\ m.from \in Servers /\ n.from \in Servers
        /\ r.result \in Log /\ t.result \in Log
    BY <2>1, <2>2, <2>3 DEF Message, AMOResult
  <2>5. /\ IsPrefixOf(r.result, srv[m.from].app.log)
        /\ \E v \in issued : v.primary = m.from
    BY <2>1 DEF AnswersInv, ToldIn, IsAnswer
  <2>6. /\ IsPrefixOf(t.result, srv[n.from].app.log)
        /\ \E w \in issued : w.primary = n.from
    BY <2>2 DEF AnswersInv, ToldIn, IsAnswer
  <2>7. m.from = n.from
    BY <2>3, <2>4, <2>5, <2>6
  <2>8. srv[m.from].app.log \in Log
    BY <2>4 DEF IInv, TypeOK, ServerState, AMOApplication
  <2> QED
    BY <2>4, <2>5, <2>6, <2>7, <2>8, PrefixesCompare
<1> QED
  BY <1>1, Told, PTL
=============================================================================
